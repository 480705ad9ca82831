------------------------------- MODULE SignIn -------------------------------
(***************************************************************************)
(* Signing in: the env layers (lib/env.mjs), the machine's Roles Anywhere  *)
(* identity (roles-anywhere.mjs, stack-arns.mjs, commands/aws.mjs), the    *)
(* credentials a request is signed with and what is told of them (auth.mjs *)
(* and the error table of s3.mjs).                                         *)
(*                                                                         *)
(* A machine is [identity, arns]: the generation of each identity file     *)
(* that is there, and the env file of each bucket captured from a stack.   *)
(* AWS is [profiles, yields, session]: the profiles ~/.aws names, or       *)
(* ProfilesUnknown when it can't be read; what each source gives when      *)
(* asked (Yields, Expired or Missing); and how CreateSession answers.      *)
(***************************************************************************)
EXTENDS Settings

NoSet == "no set"
Yields == "yields"
Expired == "expired"
Missing == "missing"
ProfilesUnknown == {"~/.aws can't be read"}
DefaultSource == <<"default">>

-----------------------------------------------------------------------------
(* The environment, and where each of its values came from.                *)

\* A set's file over the shell, whatever it sets, blank values too.
ApplyEnv(shell, file) == ParseEnv(file) @@ shell

EnvSource(shell, file, key) ==
    IF ~Truthy(ApplyEnv(shell, file), key) THEN NoSet
    ELSE IF key \in KeysOf(file) THEN "set"
    ELSE "shell"

-----------------------------------------------------------------------------
(* The machine's identity.                                                 *)

IdentityFiles == <<"ca.pem", "ca.key", "client.pem", "client.key">>

MachineIdentityExists(machine) == DOMAIN machine.identity = ToSet(IdentityFiles)

\* A mutant of MayGenerate that looks for the CA only.
MayGenerateCa(machine) == "ca.pem" \notin DOMAIN machine.identity

MayGenerate(machine) == DOMAIN machine.identity = {}

\* Generates an identity, its files one after the other, all or the first "upTo"
\* of them; it reuses a whole one and refuses a part of one.
EnsureMachineIdentity(machine, generation, upTo) ==
    IF ~MayGenerate(machine) THEN machine
    ELSE [machine EXCEPT !.identity =
             [file \in {IdentityFiles[i] : i \in 1 .. upTo} |-> generation] @@ @]

ArnEnv ==
    [TrustAnchorArn |-> "S3CAB_RA_TRUST_ANCHOR_ARN", ProfileArn |-> "S3CAB_RA_PROFILE_ARN",
     RoleArn |-> "S3CAB_RA_ROLE_ARN"]

\* What the signer needs of a bucket's env file.
SigningKeys == {ArnEnv[output] : output \in DOMAIN ArnEnv} \cup {"AWS_REGION", "S3CAB_RA_STACK"}

\* A stack's outputs as env values, and those expected that it hasn't.
ArnsFromOutputs(outputs) ==
    [arns |-> [key \in {ArnEnv[o] : o \in {p \in DOMAIN ArnEnv : Truthy(outputs, p)}} |->
                  outputs[CHOOSE o \in DOMAIN ArnEnv : ArnEnv[o] = key]],
     missing |-> {o \in DOMAIN ArnEnv \cup {"Bucket"} : ~Truthy(outputs, o)}]

SavedTo(machine, bucket) == IF bucket \in DOMAIN machine.arns THEN machine.arns[bucket] ELSE <<>>

\* "aws --save --from-stack": the stack says which bucket's file it writes.
SaveArnsFromStack(machine, stack) ==
    LET read == ArnsFromOutputs(stack.outputs)
        values == read.arns @@ [AWS_REGION |-> stack.region, S3CAB_RA_STACK |-> stack.name]
        Saved(bucket) == UpdateEnvFile(SavedTo(machine, bucket), values)
    IN  IF ~MachineIdentityExists(machine) \/ read.missing # {} THEN machine
        ELSE [machine EXCEPT !.arns =
                 (stack.outputs["Bucket"] :> Saved(stack.outputs["Bucket"])) @@ @]

\* A machine after one more event; "removed" is its files being deleted by hand.
AfterEvent(machine, event, generation) ==
    CASE event.does = "generate" -> EnsureMachineIdentity(machine, generation, event.upTo)
      [] event.does = "save" -> SaveArnsFromStack(machine, event.stack)
      [] event.does = "remove" -> [machine EXCEPT !.identity =
                                      Restrict(@, DOMAIN @ \ event.files)]

NewMachine == [identity |-> <<>>, arns |-> <<>>]

MachinesAfter(events) ==
    FoldLeftDomain(LAMBDA machines, i : Append(machines, AfterEvent(Last(machines), events[i], i)),
                   <<NewMachine>>, events)

\* Whether there is an identity to sign with for a bucket.
ReadSigningIdentity(machine, bucket) ==
    /\ bucket # ""
    /\ MachineIdentityExists(machine)
    /\ \A key \in SigningKeys : Truthy(ParseEnv(SavedTo(machine, bucket)), key)

-----------------------------------------------------------------------------
(* The credentials of a request.                                           *)

Keys(env) == {"AWS_ACCESS_KEY_ID", "AWS_SECRET_ACCESS_KEY"} \subseteq
                {key \in DOMAIN env : env[key] # ""}

\* The standard chain: the environment's keys, then a profile, which it doesn't
\* go past, then whatever is the default.
StandardChain(env, aws) ==
    LET Asks(source, how) == [source |-> source, gives |-> how]
    IN  IF Keys(env) THEN Asks(<<"keys">>, Yields)
        ELSE IF Truthy(env, "AWS_PROFILE") THEN
                Asks(<<"profile", env["AWS_PROFILE"]>>, aws.yields[env["AWS_PROFILE"]])
        ELSE Asks(DefaultSource, aws.yields["default"])

Bucket(env) == IF Truthy(env, "S3CAB_BUCKET") THEN env["S3CAB_BUCKET"] ELSE ""

\* What CreateSession can come to: a dropped network is the relay's to retry,
\* any other failure is the identity's.
SessionFailures == {"refused", "timed out", "not json", "no credentials"}

\* Why a set has no credentials, as credentialCase tells them apart.
CredentialCase(env, aws) ==
    LET profile == Truthy(env, "AWS_PROFILE")
    IN  IF profile /\ aws.profiles # ProfilesUnknown /\ env["AWS_PROFILE"] \notin aws.profiles THEN "no such profile"
        ELSE IF profile THEN "profile gave nothing"
        ELSE IF CustomEndpoint(env) # "" THEN "endpoint, no keys"
        ELSE "nothing configured"

NoCredentialsError(set, env, aws, gives) ==
    IF gives = Expired THEN "expired"
    ELSE IF set = NoSet THEN "ambient"
    ELSE CredentialCase(env, aws)

ResolveCredentials(set, env, machine, aws) ==
    LET asks == StandardChain(env, aws)
    IN  IF ~IsRolesAnywhereMode(env) /\ asks.gives = Yields THEN [signed |-> asks.source]
        ELSE IF ~IsRolesAnywhereMode(env) THEN [failed |-> NoCredentialsError(set, env, aws, asks.gives)]
        ELSE IF ~ReadSigningIdentity(machine, Bucket(env)) THEN
                [failed |-> IF set = NoSet THEN "ambient" ELSE "no identity"]
        ELSE IF aws.session \in SessionFailures THEN
                [failed |-> IF set = NoSet THEN "ambient" ELSE "no session"]
        ELSE IF aws.session = "network" THEN [raw |-> "network"]
        ELSE [signed |-> <<"roles anywhere">>]

\* What an error says was signed in with, and where that came from.
CredentialsUsed(shell, file) ==
    LET env == ApplyEnv(shell, file)
    IN  IF IsRolesAnywhereMode(env) THEN [source |-> <<"roles anywhere">>, from |-> NoSet]
        ELSE IF Truthy(env, "AWS_ACCESS_KEY_ID") THEN
                [source |-> <<"keys">>, from |-> EnvSource(shell, file, "AWS_ACCESS_KEY_ID")]
        ELSE IF Truthy(env, "AWS_PROFILE") THEN
                [source |-> <<"profile", env["AWS_PROFILE"]>>,
                 from |-> EnvSource(shell, file, "AWS_PROFILE")]
        ELSE [source |-> DefaultSource, from |-> NoSet]

\* The line printed before the first request.
AuthNotice(shell, file) ==
    LET env == ApplyEnv(shell, file)
    IN  IF IsRolesAnywhereMode(env) THEN [source |-> <<"roles anywhere">>, from |-> NoSet]
        ELSE IF Truthy(env, "AWS_PROFILE") THEN
                [source |-> <<"profile", env["AWS_PROFILE"]>>,
                 from |-> EnvSource(shell, file, "AWS_PROFILE")]
        ELSE [source |-> DefaultSource, from |-> NoSet]

\* A provider that isn't AWS gets its own address, and no checksums but the
\* ones an operation requires.
ClientConfig(env) ==
    [region |-> IF "AWS_REGION" \in DOMAIN env THEN env["AWS_REGION"]
                ELSE IF "AWS_DEFAULT_REGION" \in DOMAIN env THEN env["AWS_DEFAULT_REGION"]
                ELSE "us-east-1",
     endpoint |-> CustomEndpoint(env),
     followsRegion |-> CustomEndpoint(env) = "",
     checksums |-> IF CustomEndpoint(env) = "" THEN "WHEN_SUPPORTED" ELSE "WHEN_REQUIRED"]

-----------------------------------------------------------------------------
(* What a request that fails is told as.  An error is its name, the status *)
(* and code of the response, if there was one, and its errno.              *)

ExpiredNames == {"ExpiredToken", "ExpiredTokenException", "TokenRefreshRequired"}
DeniedNames == {"AccessDenied"}
InvalidNames == {"InvalidToken", "InvalidAccessKeyId", "InvalidSecurity"}
SignatureNames == {"SignatureDoesNotMatch"}
ClockNames == {"RequestTimeTooSkewed"}

RequestErrorTable ==
    <<[told |-> "expired", names |-> ExpiredNames],
      [told |-> "denied", names |-> DeniedNames],
      [told |-> "invalid", names |-> InvalidNames],
      [told |-> "signature", names |-> SignatureNames],
      [told |-> "clock", names |-> ClockNames]>>

IsRefusedWithoutReason(error) == error.status = 403 /\ error.code = Missing

NetworkErrorCodes == {"ECONNRESET", "ECONNREFUSED", "EPIPE", "ETIMEDOUT",
                      "EHOSTUNREACH", "ENETUNREACH", "ENOTFOUND", "EAI_AGAIN"}

IsNetworkError(error) == error.name = "TimeoutError" \/ error.errno \in NetworkErrorCodes

MatchingRows(error) ==
    SelectSeq([i \in DOMAIN RequestErrorTable |->
                  IF error.name \in RequestErrorTable[i].names THEN RequestErrorTable[i].told ELSE ""]
                  \o <<IF IsRefusedWithoutReason(error) THEN "refused" ELSE "",
                       IF IsNetworkError(error) THEN "network" ELSE "">>,
              LAMBDA told : told # "")

RequestError(error) == IF MatchingRows(error) = <<>> THEN "raw" ELSE Head(MatchingRows(error))

-----------------------------------------------------------------------------
(* What the messages promise.                                              *)

\* The modes a set's file signs in by, as sources.
SaysSource(file) ==
    IF IsRolesAnywhereMode(ParseEnv(file)) THEN <<"roles anywhere">>
    ELSE IF Keys(ParseEnv(file)) THEN <<"keys">>
    ELSE IF Truthy(ParseEnv(file), "AWS_PROFILE") THEN <<"profile", ParseEnv(file)["AWS_PROFILE"]>>
    ELSE DefaultSource

\* A set of one mode signs in by it, unless the shell puts keys before its
\* profile.
SignsInAsSaid(question, signed) ==
    /\ Cardinality(ModesOf(question.file)) = 1
    /\ SaysSource(question.file)[1] = "profile" => ~Keys(question.shell)
    => signed = SaysSource(question.file)

\* What is told was used was used, and is where it is told to be.
IsToldTrue(question, signed, used) ==
    LET Gives(env) == CASE signed[1] = "keys" -> Keys(env)
                        [] signed[1] = "profile" -> Truthy(env, "AWS_PROFILE") /\ env["AWS_PROFILE"] = signed[2]
                        [] OTHER -> FALSE
    IN  /\ used.source = signed
        /\ used.from = "shell" => Gives(question.shell)
        /\ used.from = "set" => Gives(ParseEnv(question.file))

\* The question again, once the advice of a failure has been followed.
Followed(failed, question) ==
    LET keyed == <<EnvLine("AWS_ACCESS_KEY_ID", "new"), EnvLine("AWS_SECRET_ACCESS_KEY", "new")>>
        captured == [i \in 1 .. Cardinality(SigningKeys) |-> EnvLine(SetToSeq(SigningKeys)[i], "captured")]
        whole == [identity |-> [file \in ToSet(IdentityFiles) |-> 1],
                  arns |-> Bucket(ParseEnv(question.file)) :> captured]
    IN  CASE failed \in {"endpoint, no keys", "nothing configured"} ->
                [question EXCEPT !.file = @ \o keyed]
          [] failed = "ambient" -> [question EXCEPT !.shell = ParseEnv(keyed) @@ @]
          [] failed = "no identity" -> [question EXCEPT !.machine = whole]
          [] failed = "no such profile" ->
                [question EXCEPT !.aws.yields =
                    (ApplyEnv(question.shell, question.file)["AWS_PROFILE"] :> Yields) @@ @]
          [] failed = "no session" -> [question EXCEPT !.aws.session = "ok"]
          [] failed \in {"expired", "profile gave nothing"} ->
                [question EXCEPT !.aws.yields = [source \in DOMAIN @ |-> Yields]]

\* An identity is of one generation, and what is kept of a bucket of one stack.
IsWhole(machine) ==
    /\ MachineIdentityExists(machine) =>
          \A f, g \in DOMAIN machine.identity : machine.identity[f] = machine.identity[g]
    /\ \A bucket \in DOMAIN machine.arns :
          LET env == ParseEnv(machine.arns[bucket])
          IN  \A output \in DOMAIN ArnEnv : env[ArnEnv[output]] = env["S3CAB_RA_STACK"] \o output
=============================================================================
