------------------------------ MODULE Settings ------------------------------
(***************************************************************************)
(* How a set is told to sign in: its env file (lib/env-file.mjs, env.mjs), *)
(* and the commands that write it (commands/provider.mjs, provider.mjs and *)
(* setup.mjs).                                                             *)
(*                                                                         *)
(* A file is its lines, [key, value].  An environment is a function from   *)
(* the variables that are set; a blank value is "".  What a command is     *)
(* asked is [profile, endpoint, region, keys, rolesAnywhere, unset], each  *)
(* NotAsked or a value; "keys" is the pair read from the prompts, "" when  *)
(* one of the two was left out.                                            *)
(***************************************************************************)
EXTENDS SequencesExt

NotAsked == "not asked"
NotUrl == "not a url"

Truthy(env, key) == key \in DOMAIN env /\ env[key] # ""

CustomEndpoint(env) ==
    IF "AWS_ENDPOINT_URL_S3" \in DOMAIN env THEN env["AWS_ENDPOINT_URL_S3"]
    ELSE IF "AWS_ENDPOINT_URL" \in DOMAIN env THEN env["AWS_ENDPOINT_URL"]
    ELSE ""

IsRolesAnywhereMode(env) == "S3CAB_RA" \in DOMAIN env /\ env["S3CAB_RA"] = "1"

-----------------------------------------------------------------------------
(* Env files.                                                              *)

EnvLine(key, value) == [key |-> key, value |-> value]

KeysOf(file) == {line.key : line \in ToSet(file)}

\* The last line of a key wins.
ParseEnv(file) ==
    [key \in KeysOf(file) |-> file[SelectLastInSeq(file, LAMBDA line : line.key = key)].value]

\* Every line of a key is replaced; a key with none is appended.
UpdateEnvFile(file, updates) ==
    [i \in DOMAIN file |-> IF file[i].key \in DOMAIN updates
                           THEN EnvLine(file[i].key, updates[file[i].key]) ELSE file[i]]
        \o SetToSeq({EnvLine(key, updates[key]) : key \in DOMAIN updates \ KeysOf(file)})

RemoveEnvKeys(file, keys) == SelectSeq(file, LAMBDA line : line.key \notin keys)

-----------------------------------------------------------------------------
(* The connection knobs.                                                   *)

CredentialModes == <<"profile", "keys", "rolesAnywhere">>

SettingKeys ==
    [profile |-> <<"AWS_PROFILE">>,
     endpoint |-> <<"AWS_ENDPOINT_URL_S3", "AWS_ENDPOINT_URL">>,
     region |-> <<"AWS_REGION">>,
     keys |-> <<"AWS_ACCESS_KEY_ID", "AWS_SECRET_ACCESS_KEY">>,
     rolesAnywhere |-> <<"S3CAB_RA">>]

\* What each knob is written as: an endpoint by its specific spelling only.
WrittenKeys(knob) ==
    IF knob = "endpoint" THEN {"AWS_ENDPOINT_URL_S3"} ELSE ToSet(SettingKeys[knob])

Given(asked) == {knob \in DOMAIN SettingKeys : asked[knob] # NotAsked}

Updates(asked) ==
    [key \in UNION {WrittenKeys(knob) : knob \in Given(asked)} |->
        asked[CHOOSE knob \in Given(asked) : key \in WrittenKeys(knob)]]

Refusing(why) == [refused |-> why]

GatherProviderConfig(asked, ready) ==
    LET chosen == Given(asked) \cap ToSet(CredentialModes)
    IN  IF Cardinality(chosen) > 1 THEN Refusing("one way to sign in")
        ELSE IF {"rolesAnywhere", "endpoint"} \subseteq Given(asked) THEN Refusing("AWS only")
        ELSE IF "rolesAnywhere" \in chosen /\ ~ready THEN Refusing("identity not ready")
        ELSE IF \E knob \in Given(asked) : asked[knob] = "" THEN Refusing("blank")
        ELSE IF asked.endpoint = NotUrl THEN Refusing("not a URL")
        ELSE [updates |-> Updates(asked),
              replaces |-> IF chosen = {} THEN {} ELSE ToSet(CredentialModes) \ chosen]

\* A mutant of Carries for a set that has its secret only.
CarriesById(env, mode) ==
    IF mode = "rolesAnywhere" THEN IsRolesAnywhereMode(env)
    ELSE Truthy(env, SettingKeys[mode][1])

\* Whether a set's env carries a credential mode, or any part of it.
Carries(env, mode) ==
    IF mode = "rolesAnywhere" THEN IsRolesAnywhereMode(env)
    ELSE \E key \in ToSet(SettingKeys[mode]) : Truthy(env, key)

\* The keys to clear, in the order they are cleared.
Clears(env, replaces) ==
    FlattenSeq([i \in DOMAIN CredentialModes |->
        LET mode == CredentialModes[i]
        IN  IF mode \in replaces /\ Carries(env, mode) THEN SettingKeys[mode] ELSE <<>>])

\* The file after each of a command's writes: it may die after any of them.
Removed(file, keys) == [i \in DOMAIN keys |-> RemoveEnvKeys(file, {keys[j] : j \in 1 .. i})]

Configure(file, config) ==
    IF "refused" \in DOMAIN config THEN config
    ELSE LET updated == UpdateEnvFile(file, config.updates)
         IN  [files |-> <<updated>> \o Removed(updated, Clears(ParseEnv(file), config.replaces))]

\* "provider" for the set whose file this is.
Provider(file, asked, ready) ==
    IF asked.unset # NotAsked /\ asked.unset \notin DOMAIN SettingKeys THEN Refusing("unknown setting")
    ELSE IF asked.unset # NotAsked THEN [files |-> Removed(file, SettingKeys[asked.unset])]
    ELSE IF Given(asked) = {} THEN [shown |-> ParseEnv(file)]
    ELSE IF "rolesAnywhere" \in Given(asked) /\ CustomEndpoint(ParseEnv(file)) # "" THEN Refusing("endpoint set")
    ELSE Configure(file, GatherProviderConfig(asked, ready))

-----------------------------------------------------------------------------
(* A machine's sets, by the bucket in each one's file ("" when corrupt).   *)

\* A refusal that lists the sets reads each of them: one without a bucket
\* refuses that.
Listing(buckets, why) ==
    Refusing(IF \E each \in DOMAIN buckets : buckets[each] = "" THEN "no bucket" ELSE why)

ReadSet(buckets, name) ==
    IF name \notin DOMAIN buckets THEN Listing(buckets, "unknown set")
    ELSE IF buckets[name] = "" THEN Refusing("no bucket")
    ELSE [set |-> name]

ResolveSet(buckets, name) ==
    IF name # NotAsked THEN ReadSet(buckets, name)
    ELSE IF Cardinality(DOMAIN buckets) = 1 THEN ReadSet(buckets, CHOOSE only \in DOMAIN buckets : TRUE)
    ELSE IF DOMAIN buckets = {} THEN Refusing("no sets")
    ELSE Listing(buckets, "several sets")

\* "provider", with or without a set named.
ProviderCommand(buckets, name, file, asked, ready) ==
    LET scope == ResolveSet(buckets, name)
        bare == name = NotAsked /\ asked.unset = NotAsked /\ Given(asked) = {}
    IN  IF asked.unset # NotAsked /\ Given(asked) # {} THEN Refusing("unset on its own")
        ELSE IF bare /\ \E each \in DOMAIN buckets : buckets[each] = "" THEN Refusing("no bucket")
        ELSE IF bare THEN [shown |-> buckets]
        ELSE IF "refused" \in DOMAIN scope THEN scope
        ELSE Provider(file, asked, ready) @@ scope

\* A new set: what its claim signs in with, and its file after each write.
SetupCommand(shell, bucket, asked, ready) ==
    LET config == GatherProviderConfig(asked, ready)
        bound == UpdateEnvFile(<<>>, [S3CAB_BUCKET |-> bucket])
    IN  IF "refused" \in DOMAIN config THEN config
        ELSE [claims |-> config.updates @@ [S3CAB_BUCKET |-> bucket] @@ shell,
              files |-> IF config.updates = <<>> THEN <<bound>>
                        ELSE <<bound, UpdateEnvFile(bound, config.updates)>>]

-----------------------------------------------------------------------------
(* What the commands promise of the file.                                  *)

ModesOf(file) == {mode \in ToSet(CredentialModes) : \E key \in ToSet(SettingKeys[mode]) : Truthy(ParseEnv(file), key)}

\* One credential mode, the one asked for, and all that wasn't asked kept.
IsSwitched(before, asked, after) ==
    LET touched == UNION {WrittenKeys(knob) : knob \in Given(asked)}
        credential == UNION {ToSet(SettingKeys[mode]) : mode \in ToSet(CredentialModes)}
        others == (KeysOf(before) \cup KeysOf(after)) \ (touched \cup credential)
        chosen == Given(asked) \cap ToSet(CredentialModes)
    IN  /\ ModesOf(after) = IF chosen = {} THEN ModesOf(before) ELSE chosen
        /\ \A knob \in Given(asked) : \A key \in WrittenKeys(knob) : ParseEnv(after)[key] = asked[knob]
        /\ \A key \in others : ParseEnv(before)[key] = ParseEnv(after)[key]
=============================================================================
