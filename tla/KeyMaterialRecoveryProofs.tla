---------------------- MODULE KeyMaterialRecoveryProofs ----------------------
(***************************************************************************)
(* Proofs of the recovery properties of KeyMaterial, for any number of     *)
(* tees, KMS keys, key pairs and faults: a serve run during which the      *)
(* environment did nothing gives up only when no key works, and restores   *)
(* with the first one that does.                                           *)
(*                                                                         *)
(* A slot that a run has passed must stay useless while the run goes on.   *)
(* The only thing that changes the bucket meanwhile is a late write, and   *)
(* what the manifest names is there already, or was damaged (ManifestInv): *)
(* a late write brings back none of it unless it ends the quiet.           *)
(***************************************************************************)
EXTENDS KeyMaterialProofs

(* The documents of a provisioning other than the manifest.                *)
Leaves == {p \in Puts : p.key # ManifestKey}

(* The package at hand is the one of this slot in the manifest.            *)
Fetched(r) ==
  \E pair \in KeyPairs :
    /\ Identity = Pub(pair)
    /\ Stored(PackagePut(r.keys[r.slot], pair))
    /\ r.package = Package(r.keys[r.slot], pair)
    /\ \E i \in Slots :
         objects[ManifestKey].recovery[i] = ReferenceTo(PackagePut(r.keys[r.slot], pair))

(* What a serve run knows about the slots when the environment was quiet.  *)
Searching(where, r) ==
  /\ S3Works
  /\ Intact(r.manifest.public)
  /\ \A slot \in Slots : slot < r.slot => slot \notin HealthySlots(r.keys)
  /\ where = "opening" => Fetched(r)

Provisioning == {"checking", "generating", "sending", "saving", "verifying", "unsealing"}

RecoveryInv ==
  \A t \in Tees :
    /\ pc[t] \in Provisioning => run[t].mode = "init-key"
    /\ pc[t] \in {"loading", "reading"} => run[t].slot = 1
    /\ t \in steady /\ pc[t] \in {"fetching", "opening"} => Searching(pc[t], run[t])

RecoveryIndInv == IndInv /\ RecoveryInv
-----------------------------------------------------------------------------
(* Leaves.                                                                 *)

(* A run's packages and its public key document are leaves.                *)
LEMMA LeafType ==
  ASSUME NEW pair \in KeyPairs
  PROVE  /\ \A arn \in Arns : PackagePut(arn, pair) \in Leaves
         /\ PublicPut(pair) \in Leaves
BY PutsType DEF Leaves, PackagePut, PublicPut, ManifestKey, Name

(* The name of a leaf holds a digest of its body.                          *)
LEMMA LeafByKey ==
  ASSUME NEW p \in Leaves, NEW q \in Puts, p.key = q.key
  PROVE  p = q
<1>1. CASE \E arn \in Arns, pair \in KeyPairs : p = PackagePut(arn, pair)
  <2>1. PICK arn \in Arns, pair \in KeyPairs : p = PackagePut(arn, pair)
    BY <1>1
  <2>2. q.key.kind = "package" /\ q.key.sha = Digest(Package(arn, pair))
    BY <2>1 DEF PackagePut, Name
  <2>3. PICK arn2 \in Arns, pair2 \in KeyPairs : q = PackagePut(arn2, pair2)
    BY <2>2 DEF Puts, PublicPut, ManifestPut, ManifestKey, Name
  <2>4. Package(arn, pair) = Package(arn2, pair2)
    BY <2>2, <2>3 DEF PackagePut, Name, Digest
  <2>5. arn = arn2 /\ pair = pair2
    BY <2>4 DEF Package
  <2>. QED
    BY <2>1, <2>3, <2>5
<1>2. CASE \E pair \in KeyPairs : p = PublicPut(pair)
  <2>1. PICK pair \in KeyPairs : p = PublicPut(pair)
    BY <1>2
  <2>2. q.key.kind = "public" /\ q.key.sha = Digest(Pub(pair))
    BY <2>1 DEF PublicPut, Name
  <2>3. PICK pair2 \in KeyPairs : q = PublicPut(pair2)
    BY <2>2 DEF Puts, PackagePut, ManifestPut, ManifestKey, Name
  <2>4. Pub(pair) = Pub(pair2)
    BY <2>2, <2>3 DEF PublicPut, Name, Digest
  <2>5. pair = pair2
    BY <2>4 DEF Pub
  <2>. QED
    BY <2>1, <2>3, <2>5
<1>3. CASE \E keys \in KeyLists, pair \in KeyPairs :
             p = ManifestPut(pair, References(keys, pair))
  BY <1>3 DEF Leaves, ManifestPut
<1>. QED
  BY <1>1, <1>2, <1>3 DEF Leaves, Puts

(* An object that comes back to the bucket in a quiet time was never       *)
(* damaged.                                                                *)
LEMMA LateWrite ==
  ASSUME S3Write, NEW t \in steady', NEW p, Stored(p)', ~Stored(p)
  PROVE  p.key \notin damaged
<1>1. PICK q \in inflight :
        /\ objects' = PutIfAbsent(objects, q)
        /\ steady' = IF q.key \in damaged THEN {} ELSE steady
  BY DEF S3Write
<1>2. p.key \notin DOMAIN objects /\ p.key = q.key
  BY <1>1, PutIfAbsentKeeps DEF Stored
<1>. QED
  BY <1>1, <1>2
-----------------------------------------------------------------------------
(* Steps of one tee.                                                       *)

Acts(t) == (\E arg \in Modes \cup {None} : Start(t, arg)) \/ Advance(t) \/ Terminate(t)

(* A tee moves by its own steps, or fails because the broker stops.        *)
LEMMA Moves ==
  ASSUME TypeOK, [Next]_vars, NEW t \in Tees
  PROVE  \/ pc'[t] = pc[t] /\ run'[t] = run[t]
         \/ Acts(t)
         \/ StopBroker /\ pc'[t] = "failed"
<1>1. ASSUME NEW u \in Tees, NEW where, NEW locals, Continue(u, where, locals), u # t
      PROVE  pc'[t] = pc[t] /\ run'[t] = run[t]
  BY <1>1 DEF Continue, TypeOK
<1>2. ASSUME NEW u \in Tees, Acts(u) PROVE \E where, locals : Continue(u, where, locals)
  BY <1>2 DEF Acts, Start, Terminate, Advance, CheckManifest, GenerateDataKey,
     SendObject, Saved, SaveError, VerifyUpload, CheckPackage, LoadManifest,
     LoadPublic, FetchPackage, OpenPackage, NextKey, Fail
<1>3. CASE \E u \in Tees : Acts(u)
  BY <1>1, <1>2, <1>3
<1>4. CASE StopBroker
  BY <1>4 DEF StopBroker, TypeOK
<1>5. CASE UNCHANGED <<pc, run>>
  BY <1>5
<1>6. (\E u \in Tees : Acts(u)) \/ StopBroker \/ UNCHANGED <<pc, run>>
  BY DEF Next, Acts, Environment, S3Write, StartBroker, Break, Repair, Damage, vars
<1>. QED
  BY <1>3, <1>4, <1>5, <1>6

-----------------------------------------------------------------------------
(* What a serve run learns about a slot.                                   *)

(* The slot's package is in the manifest and in the bucket.                *)
Available(keys, slot) ==
  \E pair \in KeyPairs :
    /\ Identity = Pub(pair)
    /\ Stored(PackagePut(keys[slot], pair))
    /\ \E i \in Slots :
         objects[ManifestKey].recovery[i] = ReferenceTo(PackagePut(keys[slot], pair))

LEMMA HealthyIs ==
  ASSUME NEW keys, NEW slot \in Slots
  PROVE  slot \in HealthySlots(keys) <=>
           /\ S3Works /\ Has(ManifestKey) /\ Intact(objects[ManifestKey].public)
           /\ KmsWorks(slot, keys[slot])
           /\ Available(keys, slot)
BY DEF HealthySlots, Available, Stored

(* While the environment is quiet, the bucket changes by late writes only. *)
LEMMA Quiet ==
  ASSUME [Next]_vars, NEW t \in Tees, t \in steady'
  PROVE  /\ UNCHANGED envVars
         /\ UNCHANGED objects \/ S3Write
         /\ \A key \in DOMAIN objects : key \in DOMAIN objects' /\ objects'[key] = objects[key]
<1>1. UNCHANGED envVars /\ (UNCHANGED objects \/ S3Write)
  BY DEF Next, Environment, Advance, Start, Terminate, S3Write, StartBroker, StopBroker,
     Break, Repair, Damage, CheckManifest, GenerateDataKey, SendObject, Send, Saved,
     SaveError, VerifyUpload, CheckPackage, LoadManifest, LoadPublic,
     FetchPackage, OpenPackage, RunStep, vars, envVars
<1>2. CASE S3Write
  BY <1>2, PutIfAbsentKeeps DEF S3Write
<1>. QED
  BY <1>1, <1>2

(* The packages that a manifest names are stored, or were damaged.         *)
LEMMA NamedIsKept ==
  ASSUME IndInv, Has(ManifestKey), NEW keys \in KeyLists, NEW pair \in KeyPairs,
         NEW slot \in Slots, NEW i \in Slots,
         objects[ManifestKey].recovery[i] = ReferenceTo(PackagePut(keys[slot], pair))
  PROVE  Kept(PackagePut(keys[slot], pair))
<1>1. PICK mkeys \in KeyLists, mpair \in KeyPairs :
        /\ objects[ManifestKey] = Manifest(mpair, References(mkeys, mpair))
        /\ PackagesKept(mkeys, mpair, 2)
  BY ManifestShape
<1>2. ReferenceTo(PackagePut(mkeys[i], mpair)) = ReferenceTo(PackagePut(keys[slot], pair))
  BY <1>1 DEF Manifest, References
<1>3. PackagePut(mkeys[i], mpair).key = PackagePut(keys[slot], pair).key
  BY <1>2 DEF ReferenceTo
<1>4. PackagePut(mkeys[i], mpair) = PackagePut(keys[slot], pair)
  BY <1>3, LeafByKey, LeafType DEF KeyLists, Leaves
<1>5. Kept(PackagePut(mkeys[i], mpair))
  BY <1>1 DEF PackagesKept, Slots
<1>. QED
  BY <1>4, <1>5

(* A slot that is useless stays useless: in a quiet time no late write     *)
(* brings its package back.                                                *)
LEMMA UselessStays ==
  ASSUME IndInv, [Next]_vars, NEW t \in Tees, t \in steady',
         NEW keys \in KeyLists, NEW slot \in Slots,
         S3Works, Has(ManifestKey), Intact(objects[ManifestKey].public),
         slot \notin HealthySlots(keys)
  PROVE  (slot \notin HealthySlots(keys))'
<1> SUFFICES ASSUME (slot \in HealthySlots(keys))' PROVE FALSE
  OBVIOUS
<1>1. UNCHANGED envVars /\ (UNCHANGED objects \/ S3Write)
  BY Quiet
<1>2. objects'[ManifestKey] = objects[ManifestKey] /\ Identity' = Identity
  BY Quiet DEF Has, Identity
<1>3. KmsWorks(slot, keys[slot])' /\ Available(keys, slot)'
  BY DEF HealthySlots, Available, Stored
<1>4. KmsWorks(slot, keys[slot])
  BY <1>1, <1>3 DEF KmsWorks, HandsOut, envVars
<1>5. PICK pair \in KeyPairs :
        /\ Identity = Pub(pair)
        /\ Stored(PackagePut(keys[slot], pair))'
        /\ \E i \in Slots : objects[ManifestKey].recovery[i]
                              = ReferenceTo(PackagePut(keys[slot], pair))
  BY <1>2, <1>3 DEF Available
<1> DEFINE p == PackagePut(keys[slot], pair)
<1>6. Kept(p) /\ p \in Leaves
  BY <1>5, NamedIsKept, LeafType DEF KeyLists
<1>7. Stored(p)
  <2> SUFFICES ASSUME ~Stored(p) PROVE FALSE
    OBVIOUS
  <2>1. CASE UNCHANGED objects
    BY <1>5, <2>1 DEF Stored
  <2>2. CASE S3Write
    <3> HIDE DEF p
    <3>1. Stored(p)'
      BY <1>5 DEF p
    <3>. QED
      BY <1>6, <2>2, <3>1, LateWrite DEF Kept
  <2>. QED
    BY <1>1, <2>1, <2>2
<1>8. Available(keys, slot)
  BY <1>5, <1>7 DEF Available
<1>. QED
  BY <1>4, <1>8, HealthyIs
-----------------------------------------------------------------------------
(* Where each step of a run goes.                                          *)
LEMMA Goes ==
  ASSUME TypeOK, NEW t \in Tees
  PROVE  /\ CheckManifest(t) => pc'[t] \in {"generating", "failed"}
         /\ GenerateDataKey(t) => pc'[t] \in {"sending", "failed"}
         /\ SendObject(t) => pc'[t] \in {"saving", "failed"}
         /\ Saved(t) => pc'[t] \in {"verifying", "initialized"}
         /\ SaveError(t) => pc'[t] = "failed"
         /\ VerifyUpload(t) => pc'[t] \in {"unsealing", "sending", "failed"}
         /\ CheckPackage(t) => pc'[t] \in {"generating", "sending", "failed"}
         /\ LoadManifest(t) => pc'[t] \in {"reading", "failed"}
         /\ LoadPublic(t) => pc'[t] \in {"fetching", "failed"}
         /\ FetchPackage(t) => pc'[t] \in {"opening", "fetching", "failed"}
         /\ OpenPackage(t) => pc'[t] \in {"serving", "fetching", "failed"}
<1>1. ASSUME NEW where, NEW locals, Continue(t, where, locals) PROVE pc'[t] = where
  BY <1>1 DEF Continue, TypeOK
<1>2. /\ Fail(t) => pc'[t] = "failed"
      /\ NextKey(t) => pc'[t] \in {"fetching", "failed"}
  BY <1>1 DEF Fail, NextKey
<1>3. CheckManifest(t) => pc'[t] \in {"generating", "failed"}
  BY <1>1, <1>2 DEF CheckManifest
<1>4. GenerateDataKey(t) => pc'[t] \in {"sending", "failed"}
  BY <1>1, <1>2 DEF GenerateDataKey
<1>5. SendObject(t) => pc'[t] \in {"saving", "failed"}
  BY <1>1, <1>2 DEF SendObject
<1>6. Saved(t) => pc'[t] \in {"verifying", "initialized"}
  BY <1>1 DEF Saved
<1>7. VerifyUpload(t) => pc'[t] \in {"unsealing", "sending", "failed"}
  BY <1>1, <1>2 DEF VerifyUpload
<1>8. CheckPackage(t) => pc'[t] \in {"generating", "sending", "failed"}
  BY <1>1, <1>2 DEF CheckPackage
<1>9. LoadManifest(t) => pc'[t] \in {"reading", "failed"}
  BY <1>1, <1>2 DEF LoadManifest
<1>10. LoadPublic(t) => pc'[t] \in {"fetching", "failed"}
  BY <1>1, <1>2 DEF LoadPublic
<1>11. FetchPackage(t) => pc'[t] \in {"opening", "fetching", "failed"}
  BY <1>1, <1>2 DEF FetchPackage
<1>12. OpenPackage(t) => pc'[t] \in {"serving", "fetching", "failed"}
  BY <1>1, <1>2 DEF OpenPackage
<1>. QED
  BY <1>2, <1>3, <1>4, <1>5, <1>6, <1>7, <1>8, <1>9, <1>10, <1>11, <1>12 DEF SaveError

(* A run keeps its mode and its KMS keys.                                  *)
LEMMA KeepsMode ==
  ASSUME IndInv, NEW t \in Tees, Advance(t)
  PROVE  run'[t].mode = run[t].mode /\ run'[t].keys = run[t].keys
<1>1. ASSUME NEW where, NEW locals, Continue(t, where, locals)
      PROVE  run'[t] = locals
  BY <1>1 DEF Continue, IndInv, TypeOK
<1>2. run[t] \in Locals
  BY DEF IndInv, TypeOK
<1>3. Outcome(t).mode = run[t].mode /\ Outcome(t).keys = run[t].keys
  BY DEF Outcome, Blank
<1>4. Fail(t) => run'[t].mode = run[t].mode /\ run'[t].keys = run[t].keys
  BY <1>1, <1>3 DEF Fail
<1>5. NextKey(t) => run'[t].mode = run[t].mode /\ run'[t].keys = run[t].keys
  BY <1>1, <1>2, <1>4 DEF NextKey, Locals
<1>6. CheckManifest(t) \/ GenerateDataKey(t) \/ SendObject(t)
        => run'[t].mode = run[t].mode /\ run'[t].keys = run[t].keys
  BY <1>1, <1>2, <1>4 DEF CheckManifest, GenerateDataKey, SendObject, Locals
<1>7. Saved(t) \/ SaveError(t)
        => run'[t].mode = run[t].mode /\ run'[t].keys = run[t].keys
  <2>1. \A v : /\ [Outcome(t) EXCEPT !.public = v].mode = run[t].mode
               /\ [Outcome(t) EXCEPT !.public = v].keys = run[t].keys
    BY DEF Outcome, Blank
  <2>. QED
    BY <1>1, <1>4, <2>1 DEF Saved, SaveError
<1>8. VerifyUpload(t) => run'[t].mode = run[t].mode /\ run'[t].keys = run[t].keys
  BY <1>1, <1>2, <1>4 DEF VerifyUpload, Locals
<1>9. CheckPackage(t) => run'[t].mode = run[t].mode /\ run'[t].keys = run[t].keys
  BY <1>1, <1>2, <1>4 DEF CheckPackage, Locals
<1>10. LoadManifest(t) \/ LoadPublic(t)
        => run'[t].mode = run[t].mode /\ run'[t].keys = run[t].keys
  BY <1>1, <1>2, <1>4 DEF LoadManifest, LoadPublic, Locals
<1>11. FetchPackage(t) => run'[t].mode = run[t].mode /\ run'[t].keys = run[t].keys
  BY <1>1, <1>2, <1>5 DEF FetchPackage, Locals
<1>12. OpenPackage(t) => run'[t].mode = run[t].mode /\ run'[t].keys = run[t].keys
  <2> DEFINE locals == [Outcome(t) EXCEPT !.public = run[t].public,
                                          !.via = run[t].keys[run[t].slot]]
  <2>1. locals.mode = run[t].mode /\ locals.keys = run[t].keys
    BY DEF Outcome, Blank
  <2>2. OpenPackage(t) => Continue(t, "serving", locals) \/ NextKey(t)
    BY DEF OpenPackage
  <2> HIDE DEF locals
  <2>. QED
    BY <1>1, <1>5, <2>1, <2>2
<1>. QED
  BY <1>6, <1>7, <1>8, <1>9, <1>10, <1>11, <1>12 DEF Advance

(* How a run begins.                                                       *)
LEMMA Begins ==
  ASSUME IndInv, NEW t \in Tees, NEW arg \in Modes \cup {None}, Start(t, arg)
  PROVE  \/ pc'[t] = "failed" /\ run'[t].keys = None /\ broker = None
         \/ /\ pc'[t] = "failed" /\ ~ValidKeys(run'[t].keys)
         \/ /\ pc'[t] = "checking" /\ run'[t].mode = "init-key"
         \/ /\ pc'[t] = "loading" /\ run'[t].slot = 1
<1>1. ASSUME NEW where, NEW locals, Continue(t, where, locals)
      PROVE  pc'[t] = where /\ run'[t] = locals
  BY <1>1 DEF Continue, IndInv, TypeOK
<1>2. CASE broker = None /\ Continue(t, "failed", Blank)
  BY <1>1, <1>2 DEF Blank
<1>3. CASE broker # None
  <2>. PICK mode : mode = IF arg = None THEN broker.mode ELSE arg
    OBVIOUS
  <2> DEFINE locals == [Blank EXCEPT !.mode = mode, !.keys = broker.keys]
  <2>1. locals.mode = mode /\ locals.keys = broker.keys /\ locals.slot = 1
    BY DEF Blank
  <2>2. \/ Continue(t, "failed", locals) /\ ~ValidKeys(broker.keys)
        \/ Continue(t, "checking", locals) /\ mode = "init-key"
        \/ Continue(t, "loading", locals)
    BY <1>3 DEF Start
  <2> HIDE DEF locals
  <2>. QED
    BY <1>1, <2>1, <2>2
<1>. QED
  BY <1>2, <1>3 DEF Start

(* A run of init-key stays one, and a serve run begins with the first key. *)
LEMMA ModeStep ==
  ASSUME IndInv, RecoveryInv, [Next]_vars, NEW t \in Tees
  PROVE  /\ pc'[t] \in Provisioning => run'[t].mode = "init-key"
         /\ pc'[t] \in {"loading", "reading"} => run'[t].slot = 1
<1>1. CASE pc'[t] = pc[t] /\ run'[t] = run[t]
  BY <1>1 DEF RecoveryInv
<1>2. ASSUME NEW arg \in Modes \cup {None}, Start(t, arg)
      PROVE  /\ pc'[t] \in Provisioning => run'[t].mode = "init-key"
             /\ pc'[t] \in {"loading", "reading"} => run'[t].slot = 1
  BY <1>2, Begins DEF Provisioning
<1>3. CASE Terminate(t)
  BY <1>3 DEF Terminate, Continue, IndInv, TypeOK, Provisioning
<1>4. CASE Advance(t)
  <2>1. ASSUME NEW where, NEW locals, Continue(t, where, locals)
        PROVE  pc'[t] = where /\ run'[t] = locals
    BY <2>1 DEF Continue, IndInv, TypeOK
  <2>2. pc'[t] # "checking" /\ pc'[t] # "loading"
    BY <1>4, Goes DEF Advance, IndInv
  <2>3. ASSUME pc'[t] \in Provisioning PROVE run'[t].mode = "init-key"
    <3>1. \/ CheckManifest(t) \/ GenerateDataKey(t) \/ SendObject(t)
          \/ Saved(t) \/ VerifyUpload(t) \/ CheckPackage(t)
      BY <1>4, <2>3, Goes DEF Advance, IndInv, Provisioning
    <3>2. pc[t] \in Provisioning
      BY <3>1 DEF CheckManifest, GenerateDataKey, SendObject, Saved, VerifyUpload,
         CheckPackage, RunStep, Provisioning
    <3>. QED
      BY <1>4, <3>2, KeepsMode DEF RecoveryInv
  <2>4. ASSUME pc'[t] = "reading" PROVE run'[t].slot = 1
    <3>1. LoadManifest(t)
      BY <1>4, <2>4, Goes DEF Advance, IndInv
    <3>2. pc[t] = "loading"
      BY <3>1 DEF LoadManifest, RunStep
    <3>3. run[t].slot = 1 /\ run[t] \in Locals
      BY <3>2 DEF RecoveryInv, IndInv, TypeOK
    <3>4. run'[t] = [run[t] EXCEPT !.manifest = objects[ManifestKey]]
      BY <2>1, <2>4, <3>1 DEF LoadManifest, Fail
    <3>. QED
      BY <3>3, <3>4 DEF Locals
  <2>. QED
    BY <2>2, <2>3, <2>4
<1>. QED
  BY <1>1, <1>2, <1>3, <1>4, Moves DEF Acts, IndInv, Provisioning
-----------------------------------------------------------------------------
(* The search for a key that works.                                        *)

(* What a run knows of the slots before its own does not change while the  *)
(* environment is quiet.                                                   *)
LEMMA SearchingStays ==
  ASSUME IndInv, [Next]_vars, NEW t \in Tees, t \in steady',
         NEW where, NEW r \in Locals, HasManifest(r), Searching(where, r)
  PROVE  Searching(where, r)'
<1>1. UNCHANGED envVars
  BY Quiet
<1>2. \A key \in DOMAIN objects : key \in DOMAIN objects' /\ objects'[key] = objects[key]
  BY Quiet
<1>3. S3Works'
  BY <1>1 DEF Searching, S3Works, envVars
<1>4. Intact(r.manifest.public)'
  BY <1>2 DEF Searching, Intact, Has
<1>5. ASSUME NEW slot \in Slots, slot < r.slot PROVE (slot \notin HealthySlots(r.keys))'
  BY <1>5, UselessStays DEF Searching, HasManifest, Configured
<1>6. Fetched(r) => Fetched(r)'
  <2>1. objects'[ManifestKey] = objects[ManifestKey] /\ Identity' = Identity
    BY <1>2 DEF HasManifest, Has, Identity
  <2>. QED
    BY <1>2, <2>1 DEF Fetched, Stored
<1>. QED
  BY <1>3, <1>4, <1>5, <1>6 DEF Searching

LEMMA SearchingSame ==
  ASSUME UNCHANGED <<objects, envVars>>, NEW where, NEW r, Searching(where, r)
  PROVE  Searching(where, r)'
BY DEF Searching, S3Works, Intact, Has, HealthySlots, KmsWorks, HandsOut, Identity,
       Stored, Fetched, envVars

(* The manifest's packages for a KMS key are the ones a run can use: when  *)
(* no intact one is listed, the slot is useless.                           *)
LEMMA FetchTells ==
  ASSUME IndInv, NEW t \in Tees, pc[t] = "fetching", Searching("fetching", run[t]),
         FetchPackage(t)
  PROVE  \/ NextKey(t) /\ run[t].slot \notin HealthySlots(run[t].keys)
         \/ \E r \in Locals : /\ Continue(t, "opening", r) /\ Searching("opening", r)
                             /\ r.keys = run[t].keys /\ r.manifest = run[t].manifest
<1>. PICK r : r = run[t]
  OBVIOUS
<1> DEFINE recovery == r.manifest.recovery
           usable == {i \in DOMAIN recovery :
                        recovery[i].arn = r.keys[r.slot] /\ Intact(recovery[i])}
<1>1. r \in Locals /\ HasManifest(r) /\ Identified(r) /\ S3Works
  BY DEF IndInv, TypeOK, RunInv, RunOK, Searching
<1>2. PICK mkeys \in KeyLists, pair \in KeyPairs :
        /\ objects[ManifestKey] = Manifest(pair, References(mkeys, pair))
        /\ Identity = Pub(pair)
  BY <1>1, ManifestShape DEF HasManifest
<1>3. recovery = References(mkeys, pair)
  BY <1>1, <1>2 DEF HasManifest, Manifest
<1>4. ASSUME NEW i \in usable
      PROVE  /\ i \in Slots /\ mkeys[i] = r.keys[r.slot]
             /\ recovery[i] = ReferenceTo(PackagePut(mkeys[i], pair))
             /\ Stored(PackagePut(mkeys[i], pair))
             /\ objects[recovery[i].key] = Package(mkeys[i], pair)
  <2>1. i \in Slots /\ recovery[i] = ReferenceTo(PackagePut(mkeys[i], pair))
    BY <1>3 DEF References
  <2> DEFINE ref == recovery[i]
  <2>2. ref.arn = r.keys[r.slot] /\ Intact(ref)
    OBVIOUS
  <2>3. /\ ref.key = PackagePut(mkeys[i], pair).key
        /\ ref.sha = Digest(PackagePut(mkeys[i], pair).body)
        /\ ref.arn = PackagePut(mkeys[i], pair).key.arn
    <3>1. ref = ReferenceTo(PackagePut(mkeys[i], pair))
      BY <2>1
    <3> HIDE DEF ref
    <3>. QED BY <3>1 DEF ReferenceTo
  <2> HIDE DEF ref
  <2>4. Stored(PackagePut(mkeys[i], pair)) /\ mkeys[i] = r.keys[r.slot]
    BY <2>2, <2>3 DEF Intact, Has, Stored, Digest, PackagePut, Name
  <2>5. objects[ref.key] = Package(mkeys[i], pair)
    BY <2>3, <2>4 DEF Stored, PackagePut
  <2>. QED
    BY <2>1, <2>4, <2>5 DEF ref
<1>5. ASSUME usable = {} PROVE r.slot \notin HealthySlots(r.keys)
  <2> SUFFICES ASSUME r.slot \in HealthySlots(r.keys) PROVE FALSE
    OBVIOUS
  <2>1. PICK other \in KeyPairs, i \in Slots :
          /\ Stored(PackagePut(r.keys[r.slot], other))
          /\ objects[ManifestKey].recovery[i]
               = ReferenceTo(PackagePut(r.keys[r.slot], other))
    BY <1>1, HealthyIs DEF Available, Locals
  <2>2. i \in DOMAIN recovery /\ recovery[i] = ReferenceTo(PackagePut(r.keys[r.slot], other))
    BY <1>1, <1>3, <2>1 DEF References, HasManifest
  <2>3. recovery[i].arn = r.keys[r.slot]
    BY <2>2 DEF ReferenceTo, PackagePut, Name
  <2>4. Intact(recovery[i])
    BY <2>1, <2>2 DEF ReferenceTo, Stored, Intact, Has
  <2>. QED
    BY <1>5, <2>2, <2>3, <2>4
<1>6. ASSUME NEW i \in usable,
             Continue(t, "opening", [r EXCEPT !.package = objects[recovery[i].key]])
      PROVE  \E q \in Locals : /\ Continue(t, "opening", q) /\ Searching("opening", q)
                              /\ q.keys = r.keys /\ q.manifest = r.manifest
  <2> DEFINE package == objects[recovery[i].key]
             q == [r EXCEPT !.package = package]
  <2>1. package = Package(mkeys[i], pair) /\ mkeys[i] = r.keys[r.slot]
    BY <1>4
  <2>2. PackagePut(mkeys[i], pair) \in {p \in Puts : p.key.kind = "package"}
    BY <1>4, PutsType DEF KeyLists, PackagePut, Name
  <2>3. package \in {p.body : p \in {p \in Puts : p.key.kind = "package"}}
    BY <2>1, <2>2 DEF PackagePut
  <2>4. /\ q \in Locals /\ q.keys = r.keys /\ q.manifest = r.manifest /\ q.slot = r.slot
        /\ q.package = package
    <3> HIDE DEF package
    <3>. QED BY <1>1, <2>3 DEF Locals
  <2>5. objects[ManifestKey].recovery[i] = ReferenceTo(PackagePut(r.keys[r.slot], pair))
    BY <1>1, <1>4 DEF HasManifest
  <2> HIDE DEF package
  <2>6. Continue(t, "opening", q)
    BY <1>6 DEF package
  <2> HIDE DEF q
  <2>7. Fetched(q)
    BY <1>2, <1>4, <2>1, <2>4, <2>5 DEF Fetched
  <2>8. Searching("opening", q)
    BY <2>4, <2>7 DEF Searching
  <2>. QED
    BY <2>4, <2>6, <2>8
<1>. QED
  BY <1>1, <1>5, <1>6 DEF FetchPackage

(* Opening the package works exactly if the slot is healthy.               *)
LEMMA OpenTells ==
  ASSUME IndInv, NEW t \in Tees, pc[t] = "opening", Searching("opening", run[t])
  PROVE  LET r == run[t] IN
         Restores(r.package, r.slot, r.keys[r.slot], r.public)
           <=> r.slot \in HealthySlots(r.keys)
<1>. PICK r : r = run[t]
  OBVIOUS
<1>1. r \in Locals /\ HasManifest(r) /\ Identified(r)
  BY DEF IndInv, TypeOK, RunInv, RunOK
<1>2. PICK pair \in KeyPairs :
        /\ Identity = Pub(pair)
        /\ r.package = Package(r.keys[r.slot], pair)
  BY DEF Searching, Fetched
<1>3. S3Works /\ Has(ManifestKey) /\ Intact(objects[ManifestKey].public)
  BY <1>1 DEF Searching, HasManifest
<1>4. Available(r.keys, r.slot)
  BY DEF Searching, Fetched, Available
<1>5. r.slot \in HealthySlots(r.keys) <=> KmsWorks(r.slot, r.keys[r.slot])
  BY <1>1, <1>3, <1>4, HealthyIs DEF Locals
<1>6. Restores(r.package, r.slot, r.keys[r.slot], r.public)
        <=> KmsWorks(r.slot, r.keys[r.slot])
  <2>1. r.package.kmsKey = r.keys[r.slot] /\ r.package.privateKey = pair
    BY <1>2 DEF Package
  <2>. QED
    BY <1>1, <1>2, <2>1 DEF Restores, Identified
<1>. QED
  BY <1>5, <1>6

(* Passing a useless slot, a run goes on with the next one, or has found   *)
(* all of them useless.                                                    *)
LEMMA NextKeyTells ==
  ASSUME IndInv, NEW t \in Tees, NEW where \in {"fetching", "opening"}, pc[t] = where,
         Searching(where, run[t]), run[t].slot \notin HealthySlots(run[t].keys), NextKey(t)
  PROVE  \/ Fail(t) /\ HealthySlots(run[t].keys) = {}
         \/ \E r \in Locals : Continue(t, "fetching", r) /\ Searching("fetching", r)
<1>. PICK r : r = run[t]
  OBVIOUS
<1>1. /\ r \in Locals /\ HasManifest(r)
      /\ r.slot \in Slots /\ Len(r.keys) = 2
  <2>1. r \in Locals /\ HasManifest(r)
    BY DEF IndInv, TypeOK, RunInv, RunOK
  <2>2. Len(r.keys) = 2
    BY <2>1 DEF HasManifest, Configured, KeyLists, Slots
  <2>. QED
    BY <2>1, <2>2 DEF Locals
<1>2. \A slot \in Slots : slot <= r.slot => slot \notin HealthySlots(r.keys)
  BY <1>1 DEF Searching, Slots
<1>3. CASE r.slot = Len(r.keys) /\ Fail(t)
  <2>1. HealthySlots(r.keys) \subseteq Slots
    BY DEF HealthySlots
  <2>2. \A slot \in Slots : slot <= r.slot
    BY <1>1, <1>3 DEF Slots
  <2>. QED
    BY <1>2, <1>3, <2>1, <2>2
<1>4. CASE /\ r.slot < Len(r.keys)
           /\ Continue(t, "fetching", [r EXCEPT !.slot = @ + 1, !.package = None])
  <2> DEFINE q == [r EXCEPT !.slot = @ + 1, !.package = None]
  <2>1. r.slot = 1 /\ r.slot + 1 = 2 /\ r.slot + 1 \in Slots
    BY <1>1, <1>4 DEF Slots
  <2>2. /\ q \in Locals /\ q.keys = r.keys /\ q.manifest = r.manifest /\ q.slot = 2
    BY <1>1, <2>1 DEF Locals
  <2>3. Continue(t, "fetching", q)
    BY <1>4
  <2> HIDE DEF q
  <2>4. Searching("fetching", q)
    BY <1>2, <2>1, <2>2 DEF Searching, Slots
  <2>. QED
    BY <2>2, <2>3, <2>4
<1>. QED
  BY <1>3, <1>4 DEF NextKey

(* A run that read the public key document stands at the first slot.       *)
LEMMA ReadsPublic ==
  ASSUME IndInv, RecoveryInv, NEW t \in Tees, LoadPublic(t), pc'[t] = "fetching"
  PROVE  \E r \in Locals : Continue(t, "fetching", r) /\ Searching("fetching", r)
<1>. PICK r : r = run[t]
  OBVIOUS
<1>1. pc[t] = "reading"
  BY DEF LoadPublic, RunStep
<1>2. r \in Locals /\ HasManifest(r) /\ r.slot = 1
  BY <1>1 DEF IndInv, TypeOK, RunInv, RunOK, RecoveryInv
<1> DEFINE document == objects[r.manifest.public.key]
           q == [r EXCEPT !.public = document.publicKey]
<1>3. ~Fail(t)
  BY DEF Fail, Continue, IndInv, TypeOK
<1>4. /\ S3Works /\ Intact(r.manifest.public) /\ Continue(t, "fetching", q)
      /\ Digest(document.publicKey) = r.manifest.fingerprint
  BY <1>3 DEF LoadPublic
<1>5. PICK mkeys \in KeyLists, pair \in KeyPairs :
        objects[ManifestKey] = Manifest(pair, References(mkeys, pair))
  BY <1>2, ManifestShape DEF HasManifest
<1>6. document.publicKey \in PublicKeys
  BY <1>2, <1>4, <1>5 DEF HasManifest, Manifest, Digest, PublicKeys
<1> HIDE DEF document
<1>7. q \in Locals /\ q.slot = 1 /\ q.manifest = r.manifest
  BY <1>2, <1>6 DEF Locals
<1> HIDE DEF q
<1>8. Searching("fetching", q)
  BY <1>4, <1>7 DEF Searching, Slots
<1>. QED
  BY <1>4, <1>7, <1>8

(* Who is steady was so before, or starts a run.                           *)
LEMMA SteadyShrinks ==
  ASSUME [Next]_vars, NEW t \in Tees, t \in steady'
  PROVE  t \in steady \/ \E arg \in Modes \cup {None} : Start(t, arg)
BY DEF Next, Environment, Advance, Start, Terminate, S3Write, StartBroker, StopBroker,
       Break, Repair, Damage, CheckManifest, GenerateDataKey, SendObject, Saved,
       SaveError, VerifyUpload, CheckPackage, LoadManifest, LoadPublic,
       FetchPackage, OpenPackage, RunStep, vars

LEMMA SearchStep ==
  ASSUME IndInv, RecoveryInv, [Next]_vars, NEW t \in Tees, t \in steady',
         pc'[t] \in {"fetching", "opening"}
  PROVE  Searching(pc[t], run[t])'
<1>1. TypeOK
  BY DEF IndInv
<1>2. ASSUME NEW arg \in Modes \cup {None}, Start(t, arg) PROVE FALSE
  BY <1>2, Begins
<1>3. t \in steady
  BY <1>2, SteadyShrinks
<1>4. CASE pc'[t] = pc[t] /\ run'[t] = run[t]
  <2>. PICK where, r : where = pc[t] /\ r = run[t]
    OBVIOUS
  <2>1. r \in Locals /\ HasManifest(r) /\ Searching(where, r)
    BY <1>3, <1>4 DEF IndInv, TypeOK, RunInv, RunOK, RecoveryInv
  <2>2. Searching(where, r)'
    BY <1>4, <2>1, SearchingStays
  <2>. QED
    BY <1>4, <2>2
<1>5. ASSUME UNCHANGED objects, NEW where, NEW r, Continue(t, where, r), Searching(where, r)
      PROVE  Searching(pc[t], run[t])'
  <2>1. pc'[t] = where /\ run'[t] = r
    BY <1>1, <1>5 DEF Continue, TypeOK
  <2>2. Searching(where, r)'
    BY <1>5, Quiet, SearchingSame
  <2>. QED
    BY <2>1, <2>2
<1>6. CASE Advance(t)
  <2>1. LoadPublic(t) \/ FetchPackage(t) \/ OpenPackage(t)
    BY <1>1, <1>6, Goes DEF Advance
  <2>2. UNCHANGED objects /\ ~Fail(t)
    BY <1>1, <2>1 DEF LoadPublic, FetchPackage, OpenPackage, Fail, Continue, TypeOK
  <2>3. CASE LoadPublic(t)
    <3>1. pc'[t] = "fetching"
      BY <1>1, <2>3, Goes
    <3>. QED
      BY <1>5, <2>2, <2>3, <3>1, ReadsPublic
  <2>4. CASE FetchPackage(t)
    <3>1. pc[t] = "fetching" /\ Searching("fetching", run[t])
      BY <1>3, <2>4 DEF FetchPackage, RunStep, RecoveryInv
    <3>. QED
      BY <1>5, <2>2, <2>4, <3>1, FetchTells, NextKeyTells
  <2>5. CASE OpenPackage(t)
    <3>1. pc[t] = "opening" /\ Searching("opening", run[t])
      BY <1>3, <2>5 DEF OpenPackage, RunStep, RecoveryInv
    <3>2. NextKey(t) /\ run[t].slot \notin HealthySlots(run[t].keys)
      <4>1. ~(\E locals : Continue(t, "serving", locals))
        BY <1>1 DEF Continue, TypeOK
      <4>2. NextKey(t) /\ ~Restores(run[t].package, run[t].slot,
                                    run[t].keys[run[t].slot], run[t].public)
        BY <2>5, <4>1 DEF OpenPackage
      <4>. QED
        BY <3>1, <4>2, OpenTells
    <3>. QED
      BY <1>5, <2>2, <3>1, <3>2, NextKeyTells
  <2>. QED
    BY <2>1, <2>3, <2>4, <2>5
<1>7. CASE Terminate(t)
  BY <1>1, <1>7 DEF Terminate, Continue, TypeOK
<1>. QED
  BY <1>1, <1>2, <1>4, <1>6, <1>7, Moves DEF Acts

-----------------------------------------------------------------------------
(* The inductive invariant.                                                *)

LEMMA RecoveryInit == Init => RecoveryIndInv
<1> SUFFICES ASSUME Init PROVE RecoveryIndInv
  OBVIOUS
<1>1. IndInv
  BY InitInv
<1>2. RecoveryInv
  BY DEF Init, RecoveryInv, Provisioning
<1>. QED
  BY <1>1, <1>2 DEF RecoveryIndInv

LEMMA RecoveryStep == RecoveryIndInv /\ [Next]_vars => RecoveryIndInv'
<1> SUFFICES ASSUME RecoveryIndInv, [Next]_vars PROVE RecoveryIndInv'
  OBVIOUS
<1>1. IndInv /\ RecoveryInv
  BY DEF RecoveryIndInv
<1>2. IndInv'
  BY <1>1, StepInv
<1>3. RecoveryInv'
  BY <1>1, ModeStep, SearchStep DEF RecoveryInv
<1>. QED
  BY <1>2, <1>3 DEF RecoveryIndInv

(* Every reachable state satisfies the stronger inductive invariant too.   *)
THEOREM RecoveryInvariance == Spec => []RecoveryIndInv
BY RecoveryInit, RecoveryStep, PTL DEF Spec

-----------------------------------------------------------------------------
(* What follows for a reader of the code.                                  *)

(* A steady serve run that fails has found no slot healthy.                *)
LEMMA RefusalStep ==
  ASSUME RecoveryIndInv, [Next]_vars, NEW t \in Tees, SteadyServe(t),
         pc[t] # "failed", pc'[t] = "failed", ValidKeys(run'[t].keys)
  PROVE  HealthySlots(run'[t].keys) = {}
<1>1. IndInv /\ TypeOK /\ RecoveryInv /\ t \in steady' /\ run'[t].mode = "serve"
  BY DEF RecoveryIndInv, IndInv, SteadyServe
<1>2. ASSUME NEW arg \in Modes \cup {None}, Start(t, arg)
      PROVE  HealthySlots(run'[t].keys) = {}
  BY <1>1, <1>2, Begins DEF HealthySlots, S3Works
<1>3. CASE Advance(t) /\ t \in steady
  <2>1. pc[t] \notin Provisioning /\ run'[t].keys = run[t].keys
    BY <1>1, <1>3, KeepsMode DEF RecoveryInv
  <2>2. \/ LoadManifest(t) /\ pc[t] = "loading"
        \/ LoadPublic(t) /\ pc[t] = "reading"
        \/ FetchPackage(t) /\ pc[t] = "fetching"
        \/ OpenPackage(t) /\ pc[t] = "opening"
    BY <1>3, <2>1
       DEF Advance, RunStep, Provisioning, CheckManifest, GenerateDataKey, SendObject,
           Saved, SaveError, VerifyUpload, CheckPackage, LoadManifest, LoadPublic,
           FetchPackage, OpenPackage
  <2>3. \A where, r : Continue(t, where, r) => where = "failed"
    BY <1>1 DEF Continue, TypeOK
  <2>4. \A keys : HealthySlots(keys) # {} =>
          S3Works /\ Has(ManifestKey) /\ Intact(objects[ManifestKey].public)
    BY DEF HealthySlots
  <2>5. CASE LoadManifest(t) /\ pc[t] = "loading"
    <3>1. ASSUME Has(ManifestKey) PROVE Len(objects[ManifestKey].recovery) = 2
      <4>1. PICK keys \in KeyLists, pair \in KeyPairs :
              objects[ManifestKey] = Manifest(pair, References(keys, pair))
        BY <1>1, <3>1, ManifestShape
      <4>2. objects[ManifestKey].recovery = References(keys, pair)
        BY <4>1 DEF Manifest
      <4>3. Len(References(keys, pair)) = 2
        BY DEF References, Slots
      <4>. QED
        BY <4>2, <4>3
    <3>2. ~S3Works \/ ~Has(ManifestKey)
      BY <2>3, <2>5, <3>1 DEF LoadManifest
    <3>. QED
      BY <2>4, <3>2
  <2>6. CASE LoadPublic(t) /\ pc[t] = "reading"
    <3>. PICK m : m = run[t].manifest
      OBVIOUS
    <3>1. Has(ManifestKey) /\ m = objects[ManifestKey]
      BY <1>1, <2>6 DEF IndInv, RunInv, RunOK, HasManifest
    <3>2. PICK mkeys \in KeyLists, pair \in KeyPairs : m = Manifest(pair, References(mkeys, pair))
      BY <1>1, <3>1, ManifestShape
    <3>3. ASSUME Intact(m.public)
          PROVE  LET document == objects[m.public.key] IN
                 /\ Digest(document.publicKey) = document.fingerprint
                 /\ Digest(document.publicKey) = m.fingerprint
      <4>1. objects[m.public.key] = PublicDocument(pair)
        <5>1. Digest(objects[m.public.key]) = Digest(PublicDocument(pair))
          BY <3>2, <3>3 DEF Intact, Manifest, ReferenceTo, PublicPut
        <5>. QED
          BY <5>1 DEF Digest
      <4>. QED
        BY <3>2, <4>1 DEF PublicDocument, Manifest
    <3>4. ~S3Works \/ ~Intact(m.public)
      BY <2>3, <2>6, <3>3 DEF LoadPublic
    <3>. QED
      BY <2>4, <3>1, <3>4
  <2>7. CASE FetchPackage(t) /\ pc[t] = "fetching"
    <3>1. Searching("fetching", run[t])
      BY <1>1, <1>3, <2>7 DEF RecoveryInv
    <3>2. NextKey(t) /\ run[t].slot \notin HealthySlots(run[t].keys)
      BY <1>1, <2>3, <2>7, <3>1, FetchTells
    <3>. QED
      BY <1>1, <2>1, <2>3, <2>7, <3>1, <3>2, NextKeyTells
  <2>8. CASE OpenPackage(t) /\ pc[t] = "opening"
    <3>1. Searching("opening", run[t])
      BY <1>1, <1>3, <2>8 DEF RecoveryInv
    <3>2. NextKey(t) /\ ~Restores(run[t].package, run[t].slot,
                                  run[t].keys[run[t].slot], run[t].public)
      BY <2>3, <2>8 DEF OpenPackage
    <3>3. run[t].slot \notin HealthySlots(run[t].keys)
      BY <1>1, <2>8, <3>1, <3>2, OpenTells
    <3>. QED
      BY <1>1, <2>1, <2>3, <2>8, <3>1, <3>2, <3>3, NextKeyTells
  <2>. QED
    BY <2>2, <2>5, <2>6, <2>7, <2>8
<1>4. CASE Terminate(t)
  BY <1>1, <1>4 DEF Terminate, Continue, TypeOK
<1>5. CASE StopBroker
  BY <1>1, <1>5 DEF StopBroker
<1>. QED
  BY <1>1, <1>2, <1>3, <1>4, <1>5, Moves, SteadyShrinks DEF Acts

(* A steady serve run that succeeds uses the first healthy slot.           *)
LEMMA ServingStep ==
  ASSUME RecoveryIndInv, [Next]_vars, NEW t \in Tees, SteadyServe(t),
         pc[t] # "serving", pc'[t] = "serving"
  PROVE  LET keys == run'[t].keys
             healthy == HealthySlots(keys)
         IN \E slot \in healthy : /\ run'[t].via = keys[slot]
                                  /\ \A other \in healthy : slot <= other
<1>1. IndInv /\ TypeOK /\ RecoveryInv /\ t \in steady'
  BY DEF RecoveryIndInv, IndInv, SteadyServe
<1>2. OpenPackage(t)
  <2>1. Advance(t)
    BY <1>1, Moves, Begins DEF Acts, Terminate, Continue, TypeOK
  <2>. QED
    BY <1>1, <2>1, Goes DEF Advance
<1>3. pc[t] = "opening" /\ t \in steady
  BY <1>1, <1>2 DEF OpenPackage, RunStep
<1>. PICK r : r = run[t]
  OBVIOUS
<1> DEFINE arn == r.keys[r.slot]
           locals == [Outcome(t) EXCEPT !.public = r.public, !.via = arn]
<1>4. Searching("opening", r) /\ r \in Locals
  BY <1>1, <1>3 DEF RecoveryInv, TypeOK
<1>5. /\ Restores(r.package, r.slot, arn, r.public)
      /\ Continue(t, "serving", locals)
  <2>1. ~NextKey(t)
    BY <1>1 DEF NextKey, Fail, Continue, TypeOK
  <2>. QED
    BY <1>2, <2>1 DEF OpenPackage
<1>6. locals.via = arn /\ locals.keys = r.keys
  BY DEF Outcome, Blank
<1>7. run'[t].via = arn /\ run'[t].keys = r.keys
  <2> HIDE DEF locals, arn
  <2>. QED
    BY <1>1, <1>5, <1>6 DEF Continue, TypeOK
<1>8. r.slot \in HealthySlots(r.keys)
  BY <1>1, <1>3, <1>4, <1>5, OpenTells
<1>9. \A other \in HealthySlots(r.keys) : r.slot <= other
  <2>1. HealthySlots(r.keys) \subseteq Slots
    BY DEF HealthySlots
  <2>2. \A other \in Slots : other < r.slot => other \notin HealthySlots(r.keys)
    BY <1>4 DEF Searching
  <2>3. \A other \in Slots : ~(other < r.slot) => r.slot <= other
    BY <1>4 DEF Locals, Slots
  <2>. QED
    BY <2>1, <2>2, <2>3
<1>. QED
  BY <1>7, <1>8, <1>9

(* restore_key_material keeps its "any-one" promise: a serve run during    *)
(* which the environment was quiet gives up only when no configured key    *)
(* leads to the key pair, however many tees provision at the same time.    *)
THEOREM NoRunGivesUpEarly == Spec => NoSpuriousRefusal
<1>1. RecoveryIndInv /\ [Next]_vars =>
        [\A t \in Tees :
           /\ SteadyServe(t) /\ pc[t] # "failed" /\ pc'[t] = "failed"
           /\ ValidKeys(run'[t].keys)
           => HealthySlots(run'[t].keys) = {}]_vars
  BY RefusalStep
<1>. QED
  BY <1>1, RecoveryInvariance, PTL DEF Spec, NoSpuriousRefusal

(* The loop over the configured keys in restore_key_material serves with   *)
(* the first key that works, not merely with one that does.                *)
THEOREM ServesFirstHealthy == Spec => FirstHealthyKeyServes
<1>1. RecoveryIndInv /\ [Next]_vars =>
        [\A t \in Tees :
           SteadyServe(t) /\ pc[t] # "serving" /\ pc'[t] = "serving" =>
             LET keys == run'[t].keys
                 healthy == HealthySlots(keys)
             IN \E slot \in healthy : /\ run'[t].via = keys[slot]
                                      /\ \A other \in healthy : slot <= other]_vars
  BY ServingStep
<1>. QED
  BY <1>1, RecoveryInvariance, PTL DEF Spec, FirstHealthyKeyServes
=============================================================================
