---------------------------- MODULE Certificates ----------------------------
(***************************************************************************)
(* The certificates of a Roles Anywhere identity, written byte by byte     *)
(* (lib/roles-anywhere.mjs), and a reader of DER that takes them back.     *)
(*                                                                         *)
(* A time is its year, a public key a byte of its own, and a signature the *)
(* key it was made with.                                                   *)
(***************************************************************************)
EXTENDS SequencesExt

Digits(n, base) ==
    LET digits[v \in Nat] == IF v = 0 THEN <<>> ELSE digits[v \div base] \o <<v % base>>
    IN  digits[n]

-----------------------------------------------------------------------------
(* The writer.                                                             *)

LongForm(bytes) == <<128 + Len(bytes)>> \o bytes

DerLength(n) == IF n < 128 THEN <<n>> ELSE LongForm(Digits(n, 256))

Tlv(tag, content) == <<tag>> \o DerLength(Len(content)) \o content

BooleanTag == 1
IntegerTag == 2
BitStringTag == 3
OctetStringTag == 4
ObjectIdTag == 6
Utf8StringTag == 12
UtcTimeTag == 23
SequenceTag == 48
SetTag == 49

DerSequence(parts) == Tlv(SequenceTag, FlattenSeq(parts))

Explicit(n, content) == Tlv(160 + n, content)

\* Leading zeros dropped, but for the last byte.
Stripped(magnitude) ==
    IF \A i \in DOMAIN magnitude : magnitude[i] = 0 THEN <<0>>
    ELSE SubSeq(magnitude, SelectInSeq(magnitude, LAMBDA b : b # 0), Len(magnitude))

\* A zero before a top bit keeps the number positive.
Positive(body) == IF body[1] >= 128 THEN <<0>> \o body ELSE body

DerInteger(magnitude) == Tlv(IntegerTag, Positive(Stripped(magnitude)))

\* One arc in base 128, the high bit set on all bytes but the last.
Arc(digits) == [i \in DOMAIN digits |-> IF i < Len(digits) THEN 128 + digits[i] ELSE digits[i]]

ArcBytes(arc) == Arc(IF arc = 0 THEN <<0>> ELSE Digits(arc, 128))

ObjectId(arcs) ==
    Tlv(ObjectIdTag, <<40 * arcs[1] + arcs[2]>> \o FlattenSeq([i \in 1 .. Len(arcs) - 2 |-> ArcBytes(arcs[i + 2])]))

BitString(unused, data) == Tlv(BitStringTag, <<unused>> \o data)

DigitalSignature == 0
KeyCertSign == 5
CRLSign == 6

\* A string of the named bits, no longer than the highest of them needs.
KeyUsageValue(bits) ==
    LET highest == Max(bits)
        ByteOf(i) == SumSet({2 ^ (7 - (bit % 8)) : bit \in {b \in bits : b \div 8 = i}})
    IN  BitString(7 - (highest % 8), [i \in 1 .. (highest \div 8) + 1 |-> ByteOf(i - 1)])

EcdsaWithSha256 == <<1, 2, 840, 10045, 4, 3, 2>>
CommonName == <<2, 5, 4, 3>>
BasicConstraints == <<2, 5, 29, 19>>
KeyUsage == <<2, 5, 29, 15>>
ExtKeyUsage == <<2, 5, 29, 37>>
ClientAuth == <<1, 3, 6, 1, 5, 5, 7, 3, 2>>

DistinguishedName(name) ==
    DerSequence(<<Tlv(SetTag, DerSequence(<<ObjectId(CommonName), Tlv(Utf8StringTag, name)>>))>>)

\* Two digits of the year: all that UTCTime has.
UtcTime(year) == Tlv(UtcTimeTag, <<year % 100>>)

Extension(oid, critical, value) ==
    DerSequence(<<ObjectId(oid)>>
                   \o (IF critical THEN <<Tlv(BooleanTag, <<255>>)>> ELSE <<>>)
                   \o <<Tlv(OctetStringTag, value)>>)

\* Never negative, never zero.
Serial(random) == [random EXCEPT ![1] = 64 + (@ % 64)]

Years == 10

MakeCertificate(subject, issuer, publicKey, issuerKey, random, year, extensions) ==
    LET algorithm == DerSequence(<<ObjectId(EcdsaWithSha256)>>)
        body == DerSequence(<<Explicit(0, DerInteger(<<2>>)),
                              DerInteger(Serial(random)),
                              algorithm,
                              DistinguishedName(issuer),
                              DerSequence(<<UtcTime(year), UtcTime(year + Years)>>),
                              DistinguishedName(subject),
                              DerSequence(<<BitString(0, <<publicKey>>)>>),
                              Explicit(3, DerSequence(extensions))>>)
    IN  DerSequence(<<body, algorithm, BitString(0, <<issuerKey>>)>>)

\* The names s3cab-ca and s3cab-client, as bytes of their lengths.
CaName == [i \in 1 .. 8 |-> 97]
ClientName == [i \in 1 .. 12 |-> 98]

CaExtensions ==
    <<Extension(BasicConstraints, TRUE, DerSequence(<<Tlv(BooleanTag, <<255>>), DerInteger(<<0>>)>>)),
      Extension(KeyUsage, TRUE, KeyUsageValue({KeyCertSign, CRLSign}))>>

ClientExtensions ==
    <<Extension(BasicConstraints, TRUE, DerSequence(<<>>)),
      Extension(KeyUsage, TRUE, KeyUsageValue({DigitalSignature})),
      Extension(ExtKeyUsage, FALSE, DerSequence(<<ObjectId(ClientAuth)>>))>>

BuildIdentity(caKey, clientKey, random, year) ==
    [ca |-> MakeCertificate(CaName, CaName, caKey, caKey, random, year, CaExtensions),
     client |-> MakeCertificate(ClientName, CaName, clientKey, caKey, random, year, ClientExtensions)]

-----------------------------------------------------------------------------
(* A reader of DER.                                                        *)

NumberOf(digits, base) == FoldLeft(LAMBDA n, d : n * base + d, 0, digits)

\* The length written at i: how much it says, and in how many bytes.
LengthAt(bytes, i) ==
    IF bytes[i] < 128 THEN [says |-> bytes[i], size |-> 1]
    ELSE [says |-> NumberOf(SubSeq(bytes, i + 1, i + bytes[i] - 128), 256), size |-> 1 + bytes[i] - 128]

ItemAt(bytes, i, length) ==
    [tag |-> bytes[i],
     content |-> SubSeq(bytes, i + 1 + length.size, i + length.size + length.says),
     next |-> i + 1 + length.size + length.says]

\* What stands one after the other in some bytes, which they fill exactly.
Items(bytes) ==
    LET From(item, rest) == <<item>> \o rest[item.next]
        items[i \in Nat] == IF i > Len(bytes) THEN <<>>
                            ELSE From(ItemAt(bytes, i, LengthAt(bytes, i + 1)), items)
    IN  items[1]

Inner(item) == Items(item.content)

\* A number no shorter than it has to be, and not negative.
IsNumber(content, magnitude) ==
    /\ content[1] < 128
    /\ Len(content) > 1 /\ content[1] = 0 => content[2] >= 128
    /\ NumberOf(content, 256) = NumberOf(magnitude, 256)

ArcsOf(content) ==
    LET Ends == {i \in 2 .. Len(content) : content[i] < 128}
        Start(i) == Max({1} \cup {e \in Ends : e < i}) + 1
        ArcAt(i) == NumberOf([j \in 1 .. i - Start(i) + 1 |-> content[Start(i) + j - 1] % 128], 128)
        ends == SetToSortSeq(Ends, <)
    IN  <<content[1] \div 40, content[1] % 40>> \o [k \in DOMAIN ends |-> ArcAt(ends[k])]

\* The bits set in a string, and whether it ends with the last of them.
BitsOf(content) ==
    {b \in 0 .. 8 * (Len(content) - 1) - 1 : (content[2 + b \div 8] \div 2 ^ (7 - (b % 8))) % 2 = 1}

IsNamedBits(content, bits) ==
    BitsOf(content) = bits /\ 8 * (Len(content) - 1) - content[1] = Max(bits) + 1

\* A year of two digits, as a reader of UTCTime takes it.
YearOf(content) == IF content[1] < 50 THEN 2000 + content[1] ELSE 1900 + content[1]

NameOfSubject(item) == Inner(Inner(Inner(item)[1])[1])[2].content

\* A certificate says who it is of, by whom and for how long, with a serial of
\* as many bytes as were drawn, and who signed it.
IsCertificate(der, subject, issuer, publicKey, issuerKey, year, extensions) ==
    LET parts == Inner(Items(der)[1])
        body == Inner(parts[1])
    IN  /\ Len(Items(der)) = 1 /\ Len(parts) = 3 /\ Len(body) = 8
        /\ Inner(body[1])[1].content = <<2>>
        /\ Len(body[2].content) = 3 /\ body[2].content[1] \in 1 .. 127
        /\ NameOfSubject(body[4]) = issuer /\ NameOfSubject(body[6]) = subject
        /\ [i \in 1 .. 2 |-> YearOf(Inner(body[5])[i].content)] = <<year, year + Years>>
        /\ Inner(body[7])[1].content = <<0, publicKey>>
        /\ parts[3].content = <<0, issuerKey>>
        /\ {ArcsOf(Inner(e)[1].content) : e \in ToSet(Inner(Inner(body[8])[1]))} = extensions
=============================================================================
