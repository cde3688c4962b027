----------------------------- MODULE KmsOptions -----------------------------
(***************************************************************************)
(* The options of the KMS requests, from the broker's environment to       *)
(* GenerateDataKey and Decrypt, in the client for local development (AWS   *)
(* SDK) and in the client for the enclave (Nitro C SDK).  Everything else  *)
(* works: what fails here fails because of an option.                      *)
(*                                                                         *)
(* The operator sets the options, and one process runs init-key or serve   *)
(* under them; then the operator may set other options, or move from one   *)
(* client to the other, while the bucket stays.                            *)
(***************************************************************************)
EXTENDS Naturals, Sequences

CONSTANTS
  Contexts,  \* encryption contexts, other than the empty one
  None       \* "not set" (Option::None)

Slots   == 1..2
Clients == {"local", "nitro"}

(* Values of the environment variables; the last of each is one that its   *)
(* parser refuses, or that a later one does (the key spec).                *)
KeySpecs  == {None, "AES_128", "AES_256", "AES_512"}
ByteSizes == {None, 16, 32, 24}
ContextValues == Contexts \cup {None, "empty", "malformed"}
DryRuns   == {None, "true", "false", "malformed"}

Environments ==
  [keySpec : KeySpecs, bytes : ByteSizes, context : ContextValues,
   grantTokens : BOOLEAN, dryRun : DryRuns]

Unset == [keySpec |-> None, bytes |-> None, context |-> None,
          grantTokens |-> FALSE, dryRun |-> None]

ASSUME ContextsAssumption ==
  {None, "empty", "malformed"} \cap Contexts = {}

ASSUME NoneAssumption == None \notin {"AES_256", "empty", "malformed"}

VARIABLES
  env,        \* the options in the broker's environment
  client,     \* the client that the tee uses
  settings,   \* the settings of the tee's run
  phase,      \* where the operator and the tee are
  packages,   \* data keys of the packages that this run has stored
  committed   \* data keys of the packages a manifest names, or None

vars == <<env, client, settings, phase, packages, committed>>

-----------------------------------------------------------------------------

(* ParentSettings::from_env refuses some option sets ...                   *)
FromEnvAccepts(options) ==
  /\ options.keySpec = None \/ options.bytes = None
  /\ options.bytes \in {None, 16, 32}
  /\ options.context # "malformed"
  /\ options.dryRun # "malformed"

(* ... and has a key spec even when none is set.                           *)
FromEnv(options) ==
  [options EXCEPT !.keySpec = IF @ = None THEN "AES_256" ELSE @]

(* KMS takes an empty context for no context.                              *)
Effective(context) == IF context = "empty" THEN None ELSE context

DataKey(length, context) == [length |-> length, context |-> Effective(context)]

(* kms_request_settings: the local client parses the key spec for every    *)
(* request, Decrypt included.                                              *)
KmsRequestSettings(s) == s.keySpec \in {"AES_128", "AES_256"}

(* The key size KMS is asked for: KMS wants exactly one of the two.        *)
KmsKeySize(keySpec, bytes) ==
  CASE keySpec = "AES_128" /\ bytes = None -> 16
    [] keySpec = "AES_256" /\ bytes = None -> 32
    [] keySpec = None /\ bytes # None      -> bytes
    [] OTHER                               -> None

(* call_generate_data_key and call_decrypt_data_key: a dry run never       *)
(* returns a key.                                                          *)
LocalGenerates(s) ==
  KmsRequestSettings(s) /\ s.dryRun # "true" /\ KmsKeySize(s.keySpec, s.bytes) # None

LocalDecrypts(s, dataKey) ==
  KmsRequestSettings(s) /\ s.dryRun # "true" /\ Effective(s.context) = dataKey.context

(* validate_common_options.                                                *)
NitroOptions(s) == ~s.grantTokens /\ s.dryRun # "true"

(* data_key_bits accepts what KMS does.                                    *)
DataKeyBits(s) == KmsKeySize(s.keySpec, s.bytes)

(* Faulty variant: the context is dropped where the SDK has no parameter.  *)
NitroGeneratesAnyContext(s) == NitroOptions(s) /\ DataKeyBits(s) # None

(* NitroKmsClient::generate_data_key refuses any context, the empty one    *)
(* included.                                                               *)
NitroGenerates(s) ==
  NitroOptions(s) /\ s.context = None /\ DataKeyBits(s) # None

(* Faulty variant: Decrypt checks the key size as GenerateDataKey does.    *)
NitroDecryptsSameSize(s, dataKey) ==
  /\ NitroOptions(s) /\ Effective(s.context) = dataKey.context
  /\ DataKeyBits(s) = dataKey.length

NitroDecrypts(s, dataKey) ==
  NitroOptions(s) /\ Effective(s.context) = dataKey.context

Generates(s) ==
  IF client = "local" THEN LocalGenerates(s) ELSE NitroGenerates(s)

(* The data key of a new package; the Nitro SDK cannot pass a context.     *)
NewDataKey(s) ==
  DataKey(KmsKeySize(s.keySpec, s.bytes), IF client = "local" THEN s.context ELSE None)

(* Decrypt returns a key, of a length that AES-GCM takes.                  *)
Opens(s, dataKey) ==
  /\ IF client = "local" THEN LocalDecrypts(s, dataKey) ELSE NitroDecrypts(s, dataKey)
  /\ dataKey.length \in {16, 32}

-----------------------------------------------------------------------------

Init ==
  /\ env = Unset
  /\ client = "local"
  /\ settings = Unset
  /\ phase = "start"
  /\ packages = <<>>
  /\ committed = None

Configure(options, kind) ==
  /\ phase = "start"
  /\ env' = options
  /\ client' = kind
  /\ phase' = "configured"
  /\ UNCHANGED <<settings, packages, committed>>

(* The broker reads the environment and starts, or refuses to.             *)
StartBroker ==
  /\ phase = "configured"
  /\ \/ /\ FromEnvAccepts(env)
        /\ settings' = FromEnv(env)
        /\ phase' = "broker ready"
     \/ /\ ~FromEnvAccepts(env)
        /\ phase' = "refused"
        /\ UNCHANGED settings
  /\ UNCHANGED <<env, client, packages, committed>>

(* The tee gets its settings; init-key only when there is no manifest yet. *)
StartTee ==
  /\ phase = "broker ready"
  /\ phase' = IF committed = None THEN "generating" ELSE "opening primary"
  /\ UNCHANGED <<env, client, settings, packages, committed>>

(* A data key, and the package sealed with it stored in the bucket.        *)
GenerateDataKey ==
  /\ phase = "generating"
  /\ \/ /\ Generates(settings)
        /\ packages' = Append(packages, NewDataKey(settings))
        /\ phase' = "checking"
     \/ /\ ~Generates(settings)
        /\ phase' = "init-key failed"
        /\ UNCHANGED packages
  /\ UNCHANGED <<env, client, settings, committed>>

(* Faulty variant: the loop over the keys takes one step too many.         *)
AnotherKeyPastEnd == Len(packages) <= 2

(* A KMS key is left in the configuration.                                 *)
AnotherKey == Len(packages) < 2

(* The restore check of the package just stored; after the last one the    *)
(* manifest is committed.                                                  *)
CheckPackage ==
  /\ phase = "checking"
  /\ \/ /\ Opens(settings, packages[Len(packages)])
        /\ IF AnotherKey
             THEN phase' = "generating" /\ UNCHANGED committed
             ELSE phase' = "initialized" /\ committed' = packages
     \/ /\ ~Opens(settings, packages[Len(packages)])
        /\ phase' = "init-key failed"
        /\ UNCHANGED committed
  /\ UNCHANGED <<env, client, settings, packages>>

(* The primary package, then the backup package.                           *)
OpenPackage(slot) ==
  /\ phase = IF slot = 1 THEN "opening primary" ELSE "opening backup"
  /\ \/ Opens(settings, committed[slot]) /\ phase' = "serving"
     \/ /\ ~Opens(settings, committed[slot])
        /\ phase' = IF slot = 1 THEN "opening backup" ELSE "serve failed"
  /\ UNCHANGED <<env, client, settings, packages, committed>>

Ended == {"refused", "initialized", "init-key failed", "serving", "serve failed"}

(* The operator starts over.                                               *)
StartOver ==
  /\ phase \in Ended
  /\ env' = Unset
  /\ client' = "local"
  /\ settings' = Unset
  /\ packages' = <<>>
  /\ phase' = "start"
  /\ UNCHANGED committed

Next ==
  \/ \E options \in Environments, kind \in Clients : Configure(options, kind)
  \/ StartBroker \/ StartTee
  \/ GenerateDataKey \/ CheckPackage
  \/ \E slot \in Slots : OpenPackage(slot)
  \/ StartOver

Spec == Init /\ [][Next]_vars

-----------------------------------------------------------------------------
(* Properties.                                                             *)

DataKeys == [length : {16, 32}, context : Contexts \cup {None}]

TypeOK ==
  /\ env \in Environments
  /\ client \in Clients
  /\ settings \in Environments
  /\ phase \in Ended \cup {"start", "configured", "broker ready", "generating",
                           "checking", "opening primary", "opening backup"}
  /\ packages \in Seq(DataKeys) /\ Len(packages) <= 2
  /\ committed \in [Slots -> DataKeys] \cup {None}

(* An option that does not work makes init-key fail before its first write *)
(* to the bucket: what GenerateDataKey accepts, the restore check of the   *)
(* same client accepts, so that no option leaves packages without a        *)
(* manifest behind.                                                        *)
OptionsFailEarly == phase = "init-key failed" => packages = <<>>

(* The client refuses these settings whatever the package.                 *)
ClientRefuses ==
  \/ settings.dryRun = "true"
  \/ client = "nitro" /\ settings.grantTokens
  \/ client = "local" /\ settings.keySpec = "AES_512"

(* What was provisioned by either client opens in either client, whatever  *)
(* key size is configured by then: the encryption context is the only      *)
(* option that has to be kept.                                             *)
OnlyContextBinds ==
  phase = "serve failed" =>
    \/ ClientRefuses
    \/ \A slot \in Slots : Effective(settings.context) # committed[slot].context

(* .env.example:29: "Choose one of KMS_KEY_SPEC or KMS_NUMBER_OF_BYTES."   *)
(* Either choice, with no other option, provisions.                        *)
EitherKeySizeProvisions ==
  phase = "init-key failed" =>
    env \notin {[Unset EXCEPT !.keySpec = "AES_128"], [Unset EXCEPT !.keySpec = "AES_256"],
                [Unset EXCEPT !.bytes = 16], [Unset EXCEPT !.bytes = 32]}

=============================================================================
