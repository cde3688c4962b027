---------------------------- MODULE KeyMaterial ----------------------------
(***************************************************************************)
(* Provisioning and recovery of the one-time Ed25519 key: several          *)
(* decrypt-server-tee processes ("tees") run init-key or serve against one *)
(* enclave-broker, two KMS keys and one S3 prefix.                         *)
(*                                                                         *)
(* Abstractions.  Cryptography is symbolic: a key pair is a constant, a    *)
(* digest is an injective record, a recovery package records which KMS key *)
(* wraps its data key and which private key that data key seals.  One      *)
(* step stands for one call of the tee to the broker or to KMS, and for    *)
(* the local computation up to the next call.  A conditional write is two  *)
(* steps, because it can take effect after its caller gave up, and again   *)
(* in another of the broker's attempts, after the object was deleted.      *)
(*                                                                         *)
(* The environment may stop and restart the broker with other settings,    *)
(* revoke AWS identities and KMS keys, make S3 unreachable, and delete or  *)
(* overwrite any object other than the manifest.                           *)
(***************************************************************************)
EXTENDS ObjectStore, Naturals, Sequences, FiniteSets

CONSTANTS
  Tees,        \* decrypt-server-tee processes
  Arns,        \* KMS key ARNs
  KeyPairs,    \* the Ed25519 key pairs the random generator may draw
  RegionOf,    \* the AWS region in each ARN
  Configs,     \* broker configurations: [keys, ids], one entry per KMS slot
  InitialKey,  \* a key pair that may be provisioned before the first step, or None
  MaxFaults,   \* bound: how many times the environment does harm
  MaxRuns,     \* bound: how many processes are started
  None,        \* "no value" (Option::None)
  Corrupt      \* a body that nobody wrote

Identities == {"default", "primary", "backup"}
Slots      == 1..2
Modes      == {"init-key", "serve"}

ASSUME ConfigsAssumption ==
  \A c \in Configs : /\ DOMAIN c = {"keys", "ids"}
                     /\ c.keys \in [Slots -> Arns]
                     /\ c.ids  \in [Slots -> Identities \cup {None}]

ASSUME BoundsAssumption == MaxFaults \in Nat /\ MaxRuns \in Nat

ASSUME NoneAssumption ==
  \A pair \in KeyPairs : pair # None /\ [public |-> pair] # None

ASSUME InitialKeyAssumption == InitialKey \in KeyPairs \cup {None}

VARIABLES
  broker,   \* the running enclave-broker's mode and configuration, or None
  broken,   \* identities and ARNs that do not work now, and "s3"
  damaged,  \* names of objects that were once deleted or overwritten
  pc,       \* per tee, where it is
  run,      \* per tee, the local variables of its run
  used,     \* key pairs that have been drawn
  steady,   \* tees during whose run nothing broke, changed or came back
  faults,   \* harm done so far
  runs      \* processes started so far

envVars == <<broker, broken, damaged>>
vars    == <<objects, inflight, broker, broken, damaged, pc, run, used,
             steady, faults, runs>>

-----------------------------------------------------------------------------
(* The documents and their names below the S3 prefix.                      *)

Pub(pair)    == [public |-> pair]
Digest(body) == [sha256 |-> body]
Name(kind, arn, sha) == [kind |-> kind, arn |-> arn, sha |-> sha]

Package(arn, pair) == [kmsKey |-> arn, privateKey |-> pair]

PublicDocument(pair) ==
  [publicKey |-> Pub(pair), fingerprint |-> Digest(Pub(pair))]

ManifestKey == Name("manifest", None, None)

PackagePut(arn, pair) ==
  [key  |-> Name("package", arn, Digest(Package(arn, pair))),
   body |-> Package(arn, pair)]

PublicPut(pair) ==
  [key  |-> Name("public", None, Digest(Pub(pair))),
   body |-> PublicDocument(pair)]

ReferenceTo(p) == [arn |-> p.key.arn, key |-> p.key, sha |-> Digest(p.body)]

Manifest(pair, recovery) ==
  [fingerprint |-> Digest(Pub(pair)),
   public      |-> ReferenceTo(PublicPut(pair)),
   recovery    |-> recovery]

ManifestPut(pair, recovery) ==
  [key |-> ManifestKey, body |-> Manifest(pair, recovery)]

(* Objects and names a complete provisioning of pair under keys leaves.    *)
References(keys, pair) == [i \in Slots |-> ReferenceTo(PackagePut(keys[i], pair))]

ProvisionedBucket(keys, pair) ==
  LET puts == {PackagePut(keys[i], pair) : i \in Slots}
                \cup {PublicPut(pair), ManifestPut(pair, References(keys, pair))}
  IN  [key \in {p.key : p \in puts} |-> (CHOOSE p \in puts : p.key = key).body]

-----------------------------------------------------------------------------
(* What works now.                                                         *)

(* Faulty variant: the two keys may be the same.                           *)
ValidKeysMaybeSame(keys) == RegionOf[keys[1]] = RegionOf[keys[2]]

(* validate_kms_configuration: two different keys, one region.             *)
ValidKeys(keys) == keys[1] # keys[2] /\ RegionOf[keys[1]] = RegionOf[keys[2]]

(* The broker's S3 client uses the default credential chain.               *)
S3Works == broker # None /\ {"default", "s3"} \cap broken = {}

(* Writes are served in init-key mode only.                                *)
AcceptsWrites == S3Works /\ broker.mode = "init-key"

(* The broker has credentials for the slot.                                *)
HandsOut(slot) == broker # None /\ broker.ids[slot] # None

(* KMS accepts the credentials of the slot for the key.  They are assumed  *)
(* to be granted the use of the key that the broker's own configuration    *)
(* has in that slot.                                                       *)
KmsWorks(slot, arn) ==
  /\ HandsOut(slot)
  /\ broker.keys[slot] = arn
  /\ {broker.ids[slot], arn} \cap broken = {}

Has(key)        == key \in DOMAIN objects
Intact(ref)     == Has(ref.key) /\ Digest(objects[ref.key]) = ref.sha

(* restore_from_package: the KMS key unwraps the data key, which opens the *)
(* private key, which must belong to the expected public key.              *)
Restores(package, slot, arn, public) ==
  /\ KmsWorks(slot, arn)
  /\ package.kmsKey = arn
  /\ Pub(package.privateKey) = public

-----------------------------------------------------------------------------
(* Processes.                                                              *)

Waiting  == {"checking", "generating", "sending", "saving", "verifying",
             "unsealing", "loading", "reading", "fetching", "opening"}
Stopped  == {"idle", "failed", "initialized"}
Blank ==
  [mode |-> None, keys |-> None, pair |-> None, slot |-> 1, put |-> None,
   recovery |-> <<>>, manifest |-> None, package |-> None, public |-> None,
   via |-> None]


(* The bucket is empty, or a provisioning of InitialKey is complete.       *)
Init ==
  /\ \/ objects = EmptyBucket
     \/ /\ InitialKey # None
        /\ \E c \in Configs :
             ValidKeys(c.keys) /\ objects = ProvisionedBucket(c.keys, InitialKey)
  /\ used = {InitialKey} \ {None}
  /\ inflight = {}
  /\ broker = None
  /\ broken = {}
  /\ damaged = {}
  /\ pc = [t \in Tees |-> "idle"]
  /\ run = [t \in Tees |-> Blank]
  /\ steady = {}
  /\ faults = 0
  /\ runs = 0

(* t goes on to the step named where, with the local variables locals.     *)
Continue(t, where, locals) ==
  /\ pc' = [pc EXCEPT ![t] = where]
  /\ run' = [run EXCEPT ![t] = locals]

Outcome(t) == [Blank EXCEPT !.mode = run[t].mode, !.keys = run[t].keys]

Fail(t) == Continue(t, "failed", Outcome(t))

(* The process starts: it asks the broker for its settings, a command line *)
(* argument overrides the mode in them, and validates the KMS keys.        *)
Start(t, arg) ==
  /\ pc[t] \in Stopped
  /\ runs < MaxRuns
  /\ runs' = runs + 1
  /\ steady' = steady \cup {t}
  /\ \/ broker = None /\ Continue(t, "failed", Blank)
     \/ /\ broker # None
        /\ LET mode == IF arg = None THEN broker.mode ELSE arg
           IN  Continue(t, IF ~ValidKeys(broker.keys) THEN "failed"
                           ELSE IF mode = "init-key" THEN "checking" ELSE "loading",
                        [Blank EXCEPT !.mode = mode, !.keys = broker.keys])
  /\ UNCHANGED <<objects, inflight, envVars, used, faults>>

(* Steps of a run leave the environment alone.                             *)
RunStep(t, where) ==
  /\ pc[t] = where
  /\ UNCHANGED <<envVars, steady, faults, runs>>

(* initialize_key_material begins: refuse if there is a manifest, else     *)
(* draw the key pair.                                                      *)
CheckManifest(t) ==
  /\ RunStep(t, "checking")
  /\ \/ /\ S3Works /\ ~Has(ManifestKey)
        /\ \E pair \in KeyPairs \ used :
             /\ used' = used \cup {pair}
             /\ Continue(t, "generating", [run[t] EXCEPT !.pair = pair])
     \/ /\ ~S3Works \/ Has(ManifestKey)
        /\ Fail(t)
        /\ UNCHANGED used
  /\ UNCHANGED <<objects, inflight>>

(* GenerateDataKey under the key of this slot, and seal the private key.   *)
GenerateDataKey(t) ==
  LET arn == run[t].keys[run[t].slot] IN
  /\ RunStep(t, "generating")
  /\ \/ /\ KmsWorks(run[t].slot, arn)
        /\ Continue(t, "sending", [run[t] EXCEPT !.put = PackagePut(arn, run[t].pair)])
     \/ ~KmsWorks(run[t].slot, arn) /\ Fail(t)
  /\ UNCHANGED <<objects, inflight, used>>

(* SaveObjectIfAbsent reaches the broker: in init-key mode it sends the    *)
(* conditional write to S3.                                                *)
SendObject(t) ==
  /\ RunStep(t, "sending")
  /\ \/ /\ AcceptsWrites
        /\ Send(run[t].put)
        /\ Continue(t, "saving", run[t])
     \/ /\ ~AcceptsWrites
        /\ Fail(t)
        /\ UNCHANGED <<objects, inflight>>
  /\ UNCHANGED used

(* The broker answers Saved: S3 took this write, or a write of the same    *)
(* body was there before it.  The manifest is not read back.               *)
Saved(t) ==
  /\ RunStep(t, "saving")
  /\ Stored(run[t].put) \/ run[t].put.key \in damaged
  /\ IF run[t].put.key # ManifestKey
       THEN Continue(t, "verifying", run[t])
       ELSE Continue(t, "initialized",
                     [Outcome(t) EXCEPT !.public = Pub(run[t].pair)])
  /\ UNCHANGED <<objects, inflight, used>>

(* The broker answers with an error; the write may still be under way.     *)
SaveError(t) ==
  /\ RunStep(t, "saving")
  /\ Fail(t)
  /\ UNCHANGED <<objects, inflight, used>>

(* verify_uploaded_object: load the object again and compare its digest.   *)
VerifyUpload(t) ==
  LET intact == S3Works /\ Intact(ReferenceTo(run[t].put)) IN
  /\ RunStep(t, "verifying")
  /\ \/ /\ intact /\ run[t].put.key.kind = "package"
        /\ Continue(t, "unsealing", run[t])
     \/ /\ intact /\ run[t].put.key.kind = "public"
        /\ Continue(t, "sending",
             [run[t] EXCEPT !.put = ManifestPut(run[t].pair, run[t].recovery)])
     \/ ~intact /\ Fail(t)
  /\ UNCHANGED <<objects, inflight, used>>

(* Restore from the package just stored, through KMS Decrypt, and record   *)
(* it; then the next key, or the public key document.                      *)
CheckPackage(t) ==
  LET r == run[t]
      opens == Restores(r.put.body, r.slot, r.keys[r.slot], Pub(r.pair))
      recovery == Append(r.recovery, ReferenceTo(r.put))
  IN
  /\ RunStep(t, "unsealing")
  /\ \/ /\ opens /\ r.slot = 1
        /\ Continue(t, "generating",
             [r EXCEPT !.slot = 2, !.recovery = recovery, !.put = None])
     \/ /\ opens /\ r.slot = 2
        /\ Continue(t, "sending",
             [r EXCEPT !.recovery = recovery, !.put = PublicPut(r.pair)])
     \/ ~opens /\ Fail(t)
  /\ UNCHANGED <<objects, inflight, used>>

(* restore_key_material begins: load the manifest and validate it.         *)
LoadManifest(t) ==
  LET found == /\ S3Works /\ Has(ManifestKey)
               /\ Len(objects[ManifestKey].recovery) = 2
  IN
  /\ RunStep(t, "loading")
  /\ \/ /\ found
        /\ Continue(t, "reading", [run[t] EXCEPT !.manifest = objects[ManifestKey]])
     \/ ~found /\ Fail(t)
  /\ UNCHANGED <<objects, inflight, used>>

(* Faulty variant: restoring begins with the backup key if it can.         *)
LoadPublicBackupFirst(t) ==
  LET valid == S3Works /\ Intact(run[t].manifest.public) IN
  /\ RunStep(t, "reading")
  /\ \/ /\ valid
        /\ Continue(t, "fetching",
             [run[t] EXCEPT !.slot = IF HandsOut(2) THEN 2 ELSE 1,
                            !.public = objects[run[t].manifest.public.key].publicKey])
     \/ ~valid /\ Fail(t)
  /\ UNCHANGED <<objects, inflight, used>>

(* Load the public key document, check its digest and both fingerprints.   *)
LoadPublic(t) ==
  LET manifest == run[t].manifest
      document == objects[manifest.public.key]
      valid == /\ S3Works /\ Intact(manifest.public)
               /\ Digest(document.publicKey) = document.fingerprint
               /\ Digest(document.publicKey) = manifest.fingerprint
  IN
  /\ RunStep(t, "reading")
  /\ \/ valid /\ Continue(t, "fetching", [run[t] EXCEPT !.public = document.publicKey])
     \/ ~valid /\ Fail(t)
  /\ UNCHANGED <<objects, inflight, used>>

(* Faulty variants: the loop runs one key too far, stays at the same key,  *)
(* or ends at the first key that fails.                                    *)
NextKeyPastEnd(t) ==
  IF run[t].slot <= Len(run[t].keys)
    THEN Continue(t, "fetching", [run[t] EXCEPT !.slot = @ + 1, !.package = None])
    ELSE Fail(t)

SameKeyAgain(t) == Continue(t, "fetching", [run[t] EXCEPT !.package = None])

FirstFailureEnds(t) == Fail(t)

(* This key failed: try the next one, or give up after the last.           *)
NextKey(t) ==
  \/ /\ run[t].slot < Len(run[t].keys)
     /\ Continue(t, "fetching", [run[t] EXCEPT !.slot = @ + 1, !.package = None])
  \/ run[t].slot = Len(run[t].keys) /\ Fail(t)

(* Find this key's package in the manifest, load it, check its digest.     *)
FetchPackage(t) ==
  LET recovery == run[t].manifest.recovery
      usable == {i \in DOMAIN recovery :
                   /\ recovery[i].arn = run[t].keys[run[t].slot]
                   /\ Intact(recovery[i])}
  IN
  /\ RunStep(t, "fetching")
  /\ \/ /\ S3Works
        /\ \E i \in usable :
             Continue(t, "opening",
               [run[t] EXCEPT !.package = objects[recovery[i].key]])
     \/ ~S3Works /\ NextKey(t)
     \/ usable = {} /\ NextKey(t)
  /\ UNCHANGED <<objects, inflight, used>>

(* restore_from_package; on success the tee starts its gRPC service.       *)
OpenPackage(t) ==
  LET r == run[t]
      arn == r.keys[r.slot]
      opens == Restores(r.package, r.slot, arn, r.public)
  IN
  /\ RunStep(t, "opening")
  /\ \/ /\ opens
        /\ Continue(t, "serving",
             [Outcome(t) EXCEPT !.public = r.public, !.via = arn])
     \/ ~opens /\ NextKey(t)
  /\ UNCHANGED <<objects, inflight, used>>

Advance(t) ==
  \/ CheckManifest(t) \/ GenerateDataKey(t) \/ SendObject(t)
  \/ Saved(t) \/ SaveError(t) \/ VerifyUpload(t) \/ CheckPackage(t)
  \/ LoadManifest(t) \/ LoadPublic(t) \/ FetchPackage(t) \/ OpenPackage(t)

-----------------------------------------------------------------------------
(* The environment.                                                        *)

(* The enclave is terminated.                                              *)
Terminate(t) ==
  /\ pc[t] # "idle"
  /\ Continue(t, "idle", Blank)
  /\ steady' = steady \ {t}
  /\ UNCHANGED <<objects, inflight, envVars, used, faults, runs>>

(* S3 carries out an attempt of a write; it changes nothing while there is *)
(* an object.  One that was deleted comes back in a late attempt.          *)
S3Write ==
  /\ \E p \in inflight :
       /\ ~Has(p.key)
       /\ objects' = PutIfAbsent(objects, p)
       /\ steady' = IF p.key \in damaged THEN {} ELSE steady
  /\ UNCHANGED <<inflight, envVars, pc, run, used, faults, runs>>

Harm ==
  /\ faults < MaxFaults
  /\ faults' = faults + 1

StartBroker(mode, config) ==
  /\ broker = None
  /\ broker' = [mode |-> mode, keys |-> config.keys, ids |-> config.ids]
  /\ steady' = {}
  /\ UNCHANGED <<objects, inflight, broken, damaged, pc, run, used, faults, runs>>

(* The broker stops; a tee that awaits the answer to a write sees the      *)
(* connection close and fails, while the write may still take effect.      *)
StopBroker ==
  /\ broker # None
  /\ Harm
  /\ broker' = None
  /\ steady' = {}
  /\ pc' = [t \in Tees |-> IF pc[t] = "saving" THEN "failed" ELSE pc[t]]
  /\ run' = [t \in Tees |-> IF pc[t] = "saving" THEN Outcome(t) ELSE run[t]]
  /\ UNCHANGED <<objects, inflight, broken, damaged, used, runs>>

(* An identity loses its permissions or expires, a KMS key is disabled, or *)
(* S3 cannot be reached; and the other way round.                          *)
Break(x) ==
  /\ x \notin broken
  /\ Harm
  /\ broken' = broken \cup {x}
  /\ steady' = {}
  /\ UNCHANGED <<objects, inflight, broker, damaged, pc, run, used, runs>>

Repair(x) ==
  /\ x \in broken
  /\ broken' = broken \ {x}
  /\ steady' = {}
  /\ UNCHANGED <<objects, inflight, broker, damaged, pc, run, used, faults, runs>>

(* Somebody with access to the bucket overwrites or deletes an object      *)
(* other than the manifest.                                                *)
Damage(key) ==
  /\ key # ManifestKey
  /\ Harm
  /\ damaged' = damaged \cup {key}
  /\ steady' = {}
  /\ \/ objects' = [objects EXCEPT ![key] = Corrupt]
     \/ objects' = [k \in DOMAIN objects \ {key} |-> objects[k]]
  /\ UNCHANGED <<inflight, broker, broken, pc, run, used, runs>>

Environment ==
  \/ \E t \in Tees : Terminate(t)
  \/ S3Write
  \/ \E mode \in Modes, config \in Configs : StartBroker(mode, config)
  \/ StopBroker
  \/ \E x \in Identities \cup Arns \cup {"s3"} : Break(x) \/ Repair(x)
  \/ \E key \in DOMAIN objects : Damage(key)

Next ==
  \/ \E t \in Tees, arg \in Modes \cup {None} : Start(t, arg)
  \/ \E t \in Tees : Advance(t)
  \/ Environment

Spec == Init /\ [][Next]_vars

(* A tee that can take a step of its run takes one: it never waits for     *)
(* anything but answers, and the broker answers every request (it makes at *)
(* most four attempts of an S3 call).                                      *)
FairSpec == Spec /\ \A t \in Tees : WF_vars(Advance(t))

-----------------------------------------------------------------------------
(* Properties.                                                             *)

KeyLists == [Slots -> Arns]

Puts == {PackagePut(arn, pair) : arn \in Arns, pair \in KeyPairs}
          \cup {PublicPut(pair) : pair \in KeyPairs}
          \cup {ManifestPut(pair, References(keys, pair)) :
                  keys \in KeyLists, pair \in KeyPairs}

Names    == {p.key : p \in Puts}
RunPoint == Waiting \cup Stopped \cup {"serving"}
PublicKeys == {Pub(pair) : pair \in KeyPairs}

Locals ==
  [mode     : Modes \cup {None},
   keys     : KeyLists \cup {None},
   pair     : KeyPairs \cup {None},
   slot     : Slots,
   put      : Puts \cup {None},
   recovery : Seq({ReferenceTo(p) : p \in Puts}),
   manifest : {p.body : p \in {q \in Puts : q.key = ManifestKey}} \cup {None},
   package  : {p.body : p \in {q \in Puts : q.key.kind = "package"}} \cup {None},
   public   : PublicKeys \cup {None},
   via      : Arns \cup {None}]

(* Type invariant.  An object is what a run of the protocol wrote under    *)
(* that name, or is known to be damaged.                                   *)
TypeOK ==
  /\ DOMAIN objects \subseteq Names
  /\ \A key \in DOMAIN objects :
       \/ [key |-> key, body |-> objects[key]] \in Puts
       \/ key \in damaged /\ objects[key] = Corrupt
  /\ inflight \subseteq Puts
  /\ broker \in [mode : Modes, keys : KeyLists,
                 ids : [Slots -> Identities \cup {None}]] \cup {None}
  /\ broken \subseteq Identities \cup Arns \cup {"s3"}
  /\ damaged \subseteq Names \ {ManifestKey}
  /\ pc \in [Tees -> RunPoint]
  /\ run \in [Tees -> Locals]
  /\ used \subseteq KeyPairs
  /\ steady \subseteq Tees
  /\ faults \in 0..MaxFaults
  /\ runs \in 0..MaxRuns

(* Everything the manifest m names is in the bucket and belongs to one key *)
(* pair, and each of two different KMS keys alone opens it, as far as      *)
(* nobody damaged it.                                                      *)
Complete(m) ==
  \E pair \in KeyPairs :
    /\ m.fingerprint = Digest(Pub(pair))
    /\ m.public.key \notin damaged =>
         Intact(m.public) /\ objects[m.public.key] = PublicDocument(pair)
    /\ m.recovery[1].arn # m.recovery[2].arn
    /\ \A i \in Slots :
         LET ref == m.recovery[i] IN
         ref.key \notin damaged =>
           Intact(ref) /\ objects[ref.key] = Package(ref.arn, pair)

(* The manifest is the commit record (README.md: it is written last): at   *)
(* no time, whatever runs and failures came before, does the bucket hold a *)
(* manifest one of whose two recovery paths does not lead to the key.      *)
EveryPathOpens == Has(ManifestKey) => Complete(objects[ManifestKey])

(* The public key the bucket is committed to.                              *)
Identity ==
  IF Has(ManifestKey) THEN objects[ManifestKey].fingerprint.sha256 ELSE None

Announced ==
  [t \in Tees |-> IF pc[t] \in {"initialized", "serving"} THEN run[t].public ELSE None]

OneTime == INSTANCE OneTimeKey WITH identity <- Identity, announced <- Announced

(* One identity, chosen once, announced by every tee that finishes init-key *)
(* or serves: concurrent and repeated init-key runs, late writes and        *)
(* restarts included.                                                       *)
OneIdentity == OneTime!Spec

(* The recovery paths that work now for the KMS keys in keys, told from    *)
(* the bucket and the environment alone.                                   *)
HealthySlots(keys) ==
  IF ~S3Works \/ ~Has(ManifestKey) \/ ~Intact(objects[ManifestKey].public) THEN {}
  ELSE {slot \in Slots :
          /\ KmsWorks(slot, keys[slot])
          /\ \E pair \in KeyPairs :
               /\ Identity = Pub(pair)
               /\ PackagePut(keys[slot], pair).key \in DOMAIN objects
               /\ Stored(PackagePut(keys[slot], pair))
               /\ \E i \in Slots : objects[ManifestKey].recovery[i]
                                     = ReferenceTo(PackagePut(keys[slot], pair))}

SteadyServe(t) == t \in steady' /\ run'[t].mode = "serve"

(* A serve run during which the environment did not change gives up only   *)
(* when neither KMS key could restore the key ("any-one"): also when other *)
(* tees are in the middle of init-key, and writes are under way.           *)
NoSpuriousRefusal ==
  [][\A t \in Tees :
       /\ SteadyServe(t) /\ pc[t] # "failed" /\ pc'[t] = "failed"
       /\ ValidKeys(run'[t].keys)
       => HealthySlots(run'[t].keys) = {}]_vars

(* Such a run restores with the first configured key that works: primary   *)
(* before backup, whatever order the manifest lists them in.               *)
FirstHealthyKeyServes ==
  [][\A t \in Tees :
       SteadyServe(t) /\ pc[t] # "serving" /\ pc'[t] = "serving" =>
         LET keys == run'[t].keys
             healthy == HealthySlots(keys)
         IN \E slot \in healthy : /\ run'[t].via = keys[slot]
                                  /\ \A other \in healthy : slot <= other]_vars

(* Every run ends: no order of failing keys, lost objects and broker       *)
(* restarts keeps a tee busy for ever.                                     *)
RunsEnd ==
  \A t \in Tees : pc[t] \in Waiting ~> pc[t] \in Stopped \cup {"serving"}

(* README.md:12, docs/STARTUP.md:54: when the credentials of the primary   *)
(* key fail, recovery goes on with the backup key.                         *)
PrimaryLossTolerated ==
  \A t \in Tees :
    /\ pc[t] = "failed" /\ run[t].mode = "serve" /\ t \in steady
    /\ broker # None /\ ValidKeys(run[t].keys)
    /\ Has(ManifestKey) /\ damaged = {}
    => ~ (/\ broken = {broker.ids[1]}
          /\ KmsWorks(2, run[t].keys[2])
          /\ \E i \in Slots : objects[ManifestKey].recovery[i].arn = run[t].keys[2])
=============================================================================
