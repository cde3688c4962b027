------------------------- MODULE KeyMaterialProofs -------------------------
(***************************************************************************)
(* Proofs about KeyMaterial, for any number of tees, KMS keys, key pairs   *)
(* and faults: TypeOK, EveryPathOpens and the implementation of OneTimeKey *)
(* all follow from the inductive invariant IndInv.                         *)
(***************************************************************************)
EXTENDS KeyMaterial, SequenceTheorems, TLAPS

(* The inductive invariant behind TypeOK, EveryPathOpens and OneIdentity.  *)

(* Once written, a leaf stays, unless it is damaged.                       *)
Kept(p) == p.key \in damaged \/ Stored(p)

PackagesKept(keys, pair, n) ==
  \A i \in Slots : i <= n => Kept(PackagePut(keys[i], pair))

(* Where an init-key run is: at the package of its slot, or at the public  *)
(* key document or the manifest, when both packages are checked.           *)
AtSlot(r) ==
  /\ PackagesKept(r.keys, r.pair, r.slot - 1)
  /\ r.recovery = IF r.slot = 1 THEN <<>>
                  ELSE <<ReferenceTo(PackagePut(r.keys[1], r.pair))>>

OnPackage(r) == AtSlot(r) /\ r.put = PackagePut(r.keys[r.slot], r.pair)

OnPublic(r) ==
  /\ r.put = PublicPut(r.pair)
  /\ PackagesKept(r.keys, r.pair, 2)
  /\ r.recovery = References(r.keys, r.pair)

OnManifest(r) ==
  /\ r.put = ManifestPut(r.pair, References(r.keys, r.pair))
  /\ PackagesKept(r.keys, r.pair, 2)
  /\ Kept(PublicPut(r.pair))

Configured(r)  == r.keys \in KeyLists /\ ValidKeys(r.keys)
Generating(r)  == Configured(r) /\ r.pair \in KeyPairs
HasManifest(r) == Configured(r) /\ Has(ManifestKey) /\ r.manifest = objects[ManifestKey]
Identified(r)  == Has(ManifestKey) /\ r.public = Identity

RunOK(where, r) ==
  /\ where = "checking" => Configured(r) /\ r.slot = 1 /\ r.recovery = <<>>
  /\ where = "generating" => Generating(r) /\ AtSlot(r)
  /\ where \in {"sending", "saving"} =>
       Generating(r) /\ (OnPackage(r) \/ OnPublic(r) \/ OnManifest(r))
  /\ where = "verifying" => Generating(r) /\ (OnPackage(r) \/ OnPublic(r))
  /\ where = "unsealing" => Generating(r) /\ OnPackage(r) /\ Kept(r.put)
  /\ where = "loading" => Configured(r)
  /\ where = "reading" => HasManifest(r)
  /\ where \in {"fetching", "opening"} => HasManifest(r) /\ Identified(r)
  /\ where \in {"initialized", "serving"} => Identified(r)

RunInv == \A t \in Tees : RunOK(pc[t], run[t])

(* A manifest that is in the bucket or on its way there.                   *)
Backed(p) ==
  \E keys \in KeyLists, pair \in KeyPairs :
    /\ ValidKeys(keys)
    /\ p = ManifestPut(pair, References(keys, pair))
    /\ PackagesKept(keys, pair, 2)
    /\ Kept(PublicPut(pair))

ManifestInv ==
  /\ \A p \in inflight : p.key = ManifestKey => Backed(p)
  /\ Has(ManifestKey) => Backed([key |-> ManifestKey, body |-> objects[ManifestKey]])

IndInv == TypeOK /\ RunInv /\ ManifestInv

-----------------------------------------------------------------------------
(* What a step may do to the bucket: a leaf that was written stays or is   *)
(* damaged, and the manifest stays as it is.                               *)
Grows ==
  /\ \A p \in Puts : Kept(p) => Kept(p)'
  /\ Has(ManifestKey) => Has(ManifestKey)' /\ objects'[ManifestKey] = objects[ManifestKey]

(* The documents a run over keys and pair writes are among Puts.           *)
LEMMA PutsType ==
  ASSUME NEW pair \in KeyPairs
  PROVE  /\ \A arn \in Arns : PackagePut(arn, pair) \in Puts
         /\ PublicPut(pair) \in Puts
         /\ \A keys \in KeyLists : ManifestPut(pair, References(keys, pair)) \in Puts
BY DEF Puts

(* A write is its name and its body.                                       *)
LEMMA PutShape == \A p \in Puts : p = [key |-> p.key, body |-> p.body]
<1> SUFFICES ASSUME NEW p \in Puts PROVE p = [key |-> p.key, body |-> p.body]
  OBVIOUS
<1>1. CASE \E arn \in Arns, pair \in KeyPairs : p = PackagePut(arn, pair)
  BY <1>1 DEF PackagePut
<1>2. CASE \E pair \in KeyPairs : p = PublicPut(pair)
  BY <1>2 DEF PublicPut
<1>3. CASE \E keys \in KeyLists, pair \in KeyPairs :
             p = ManifestPut(pair, References(keys, pair))
  BY <1>3 DEF ManifestPut
<1>. QED
  BY <1>1, <1>2, <1>3 DEF Puts

(* A conditional write never changes what a key already holds.             *)
LEMMA PutIfAbsentKeeps ==
  ASSUME NEW bucket, NEW p
  PROVE  /\ DOMAIN bucket \subseteq DOMAIN PutIfAbsent(bucket, p)
         /\ DOMAIN PutIfAbsent(bucket, p) \subseteq DOMAIN bucket \cup {p.key}
         /\ \A key \in DOMAIN bucket : PutIfAbsent(bucket, p)[key] = bucket[key]
         /\ p.key \notin DOMAIN bucket => PutIfAbsent(bucket, p)[p.key] = p.body
BY DEF PutIfAbsent

(* Every step of the system lets the bucket only grow.                     *)
LEMMA StepGrows == TypeOK /\ [Next]_vars => Grows
<1> SUFFICES ASSUME TypeOK, [Next]_vars PROVE Grows
  OBVIOUS
<1>1. CASE UNCHANGED <<objects, damaged>>
  BY <1>1 DEF Grows, Kept, Stored, Has
<1>2. CASE S3Write
  <2>1. PICK p \in inflight : objects' = PutIfAbsent(objects, p)
    BY <1>2 DEF S3Write
  <2>2. damaged' = damaged
    BY <1>2 DEF S3Write, envVars
  <2>. QED
    BY <2>1, <2>2, PutIfAbsentKeeps DEF Grows, Kept, Stored, Has
<1>3. CASE \E key \in DOMAIN objects : Damage(key)
  <2>1. PICK key \in DOMAIN objects : Damage(key)
    BY <1>3
  <2>2. /\ key # ManifestKey
        /\ damaged' = damaged \cup {key}
        /\ \A k \in DOMAIN objects \ {key} : k \in DOMAIN objects' /\ objects'[k] = objects[k]
    BY <2>1 DEF Damage
  <2>. QED
    BY <2>2 DEF Grows, Kept, Stored, Has
<1>4. [Next]_vars => UNCHANGED <<objects, damaged>> \/ S3Write
                     \/ \E key \in DOMAIN objects : Damage(key)
  BY DEF Next, Environment, Advance, Start, Terminate, StartBroker, StopBroker,
         Break, Repair, CheckManifest, GenerateDataKey, SendObject, Send, Saved,
         SaveError, VerifyUpload, CheckPackage, LoadManifest, LoadPublic,
         FetchPackage, OpenPackage, RunStep, envVars, vars
<1>. QED
  BY <1>1, <1>2, <1>3, <1>4

-----------------------------------------------------------------------------
(* What a run knows stays true while the bucket grows.                     *)
LEMMA RunOKStable ==
  ASSUME Grows, NEW where, NEW r \in Locals, RunOK(where, r)
  PROVE  RunOK(where, r)'
<1>1. Configured(r) <=> Configured(r)'
  BY DEF Configured
<1>2. ASSUME r.keys \in KeyLists, r.pair \in KeyPairs, NEW n \in 0..2,
             PackagesKept(r.keys, r.pair, n)
      PROVE  PackagesKept(r.keys, r.pair, n)'
  <2>1. \A i \in Slots : PackagePut(r.keys[i], r.pair) \in Puts
    BY <1>2, PutsType DEF KeyLists
  <2>. QED
    BY <1>2, <2>1 DEF PackagesKept, Grows
<1>3. ASSUME Generating(r), OnPackage(r) \/ AtSlot(r)
      PROVE  AtSlot(r)'
  <2>1. r.slot - 1 \in 0..2
    BY DEF Locals, Slots
  <2>. QED
    BY <1>2, <1>3, <2>1 DEF AtSlot, OnPackage, Generating, Configured
<1>4. ASSUME Generating(r), OnPackage(r)
      PROVE  OnPackage(r)'
  BY <1>3, <1>4 DEF OnPackage
<1>5. ASSUME Generating(r), OnPublic(r)
      PROVE  OnPublic(r)'
  BY <1>2, <1>5 DEF OnPublic, Generating, Configured
<1>6. ASSUME Generating(r), OnManifest(r)
      PROVE  OnManifest(r)'
  BY <1>2, <1>6, PutsType DEF OnManifest, Generating, Configured, Grows
<1>7. ASSUME Generating(r), OnPackage(r), Kept(r.put)
      PROVE  Kept(r.put)'
  <2>1. r.put \in Puts
    BY <1>7, PutsType DEF OnPackage, Generating, Configured, KeyLists, Locals
  <2>. QED
    BY <1>7, <2>1 DEF Grows
<1>8. HasManifest(r) => HasManifest(r)'
  BY <1>1 DEF HasManifest, Grows
<1>9. Identified(r) => Identified(r)'
  BY DEF Identified, Identity, Grows
<1>10. Generating(r) <=> Generating(r)'
  BY <1>1 DEF Generating
<1>. QED
  BY <1>1, <1>3, <1>4, <1>5, <1>6, <1>7, <1>8, <1>9, <1>10 DEF RunOK

(* A manifest that is backed stays backed.                                 *)
LEMMA BackedStable ==
  ASSUME Grows, NEW p, Backed(p)
  PROVE  Backed(p)'
<1>1. PICK keys \in KeyLists, pair \in KeyPairs :
        /\ ValidKeys(keys)
        /\ p = ManifestPut(pair, References(keys, pair))
        /\ PackagesKept(keys, pair, 2)
        /\ Kept(PublicPut(pair))
  BY DEF Backed
<1>2. \A i \in Slots : PackagePut(keys[i], pair) \in Puts
  BY PutsType DEF KeyLists
<1>3. PackagesKept(keys, pair, 2)' /\ Kept(PublicPut(pair))'
  BY <1>1, <1>2, PutsType DEF PackagesKept, Grows
<1>. QED
  BY <1>1, <1>3 DEF Backed

(* A step that only moves t to where, with locals that are right there,    *)
(* preserves the invariant of every run.                                   *)
LEMMA ContinueInv ==
  ASSUME TypeOK, RunInv, Grows, NEW t \in Tees, NEW where \in RunPoint,
         NEW locals \in Locals, Continue(t, where, locals), RunOK(where, locals)
  PROVE  /\ pc' \in [Tees -> RunPoint]
         /\ run' \in [Tees -> Locals]
         /\ RunInv'
<1>1. /\ pc' \in [Tees -> RunPoint]
      /\ run' \in [Tees -> Locals]
  BY DEF TypeOK, Continue
<1>2. ASSUME NEW u \in Tees PROVE RunOK(pc[u], run[u])'
  <2>1. CASE u = t
    <3>1. pc'[u] = where /\ run'[u] = locals
      BY <2>1 DEF Continue, TypeOK
    <3>2. RunOK(where, locals)'
      BY RunOKStable
    <3>. QED
      BY <3>1, <3>2
  <2>2. CASE u # t
    <3>1. pc'[u] = pc[u] /\ run'[u] = run[u]
      BY <2>2 DEF Continue, TypeOK
    <3>2. RunOK(pc[u], run[u]) /\ run[u] \in Locals
      BY DEF RunInv, TypeOK
    <3>3. ASSUME NEW w, NEW r \in Locals, RunOK(w, r) PROVE RunOK(w, r)'
      BY <3>3, RunOKStable
    <3>. QED
      BY <3>1, <3>2, <3>3
  <2>. QED
    BY <2>1, <2>2
<1>. QED
  BY <1>1, <1>2 DEF RunInv

(* The outcome of a run, and the locals of a process that has not started, *)
(* are of the right type.                                                  *)
LEMMA OutcomeType ==
  ASSUME TypeOK, NEW t \in Tees
  PROVE  /\ Outcome(t) \in Locals /\ RunOK("failed", Outcome(t))
         /\ Blank \in Locals /\ RunOK("idle", Blank) /\ RunOK("failed", Blank)
<1>1. Blank \in Locals
  BY DEF Blank, Locals, Slots
<1>2. Outcome(t) \in Locals
  BY <1>1 DEF TypeOK, Outcome, Locals, Blank
<1>. QED
  BY <1>1, <1>2 DEF RunOK

(* The manifests in the bucket and under way stay backed, when none is     *)
(* added.                                                                  *)
LEMMA ManifestInvStable ==
  ASSUME ManifestInv, Grows, inflight' \subseteq inflight, objects' = objects
  PROVE  ManifestInv'
<1>1. ASSUME NEW p, Backed(p) PROVE Backed(p)'
  BY <1>1, BackedStable
<1>. QED
  BY <1>1 DEF ManifestInv, Has

(* A step of a tee that sends nothing preserves the invariant.             *)
LEMMA LocalStep ==
  ASSUME IndInv, Grows, NEW t \in Tees, NEW where \in RunPoint,
         NEW locals \in Locals, Continue(t, where, locals), RunOK(where, locals),
         UNCHANGED <<objects, inflight, envVars, faults>>,
         used' \subseteq KeyPairs, steady' \subseteq Tees, runs' \in 0..MaxRuns
  PROVE  IndInv'
<1>1. /\ pc' \in [Tees -> RunPoint]
      /\ run' \in [Tees -> Locals]
      /\ RunInv'
  BY ContinueInv DEF IndInv
<1>2. TypeOK'
  BY <1>1 DEF IndInv, TypeOK, envVars
<1>3. ManifestInv'
  BY ManifestInvStable DEF IndInv
<1>. QED
  BY <1>1, <1>2, <1>3 DEF IndInv

(* A failing step preserves the invariant.                                 *)
LEMMA FailStep ==
  ASSUME IndInv, Grows, NEW t \in Tees, Fail(t),
         UNCHANGED <<objects, inflight, envVars, faults>>,
         used' \subseteq KeyPairs, steady' \subseteq Tees, runs' \in 0..MaxRuns
  PROVE  IndInv'
BY OutcomeType, LocalStep DEF Fail, RunPoint, Stopped, IndInv

(* The other variables in a step of a run.                                 *)
LEMMA RunStepFrame ==
  ASSUME IndInv, NEW t \in Tees, NEW where, RunStep(t, where)
  PROVE  /\ pc[t] = where
         /\ UNCHANGED <<envVars, faults>>
         /\ steady' \subseteq Tees /\ runs' \in 0..MaxRuns
         /\ RunOK(where, run[t]) /\ run[t] \in Locals
BY DEF RunStep, IndInv, TypeOK, RunInv

(* A step of a run that sends nothing preserves the invariant when it      *)
(* fails, or goes on with locals that are right where it goes.             *)
LEMMA RunStepInv ==
  ASSUME IndInv, Grows, NEW t \in Tees, NEW from, RunStep(t, from),
         UNCHANGED <<objects, inflight>>, used' \subseteq KeyPairs,
         \/ Fail(t)
         \/ \E where \in RunPoint, locals \in Locals :
              Continue(t, where, locals) /\ RunOK(where, locals)
  PROVE  IndInv'
<1>1. /\ UNCHANGED <<objects, inflight, envVars, faults>>
      /\ steady' \subseteq Tees /\ runs' \in 0..MaxRuns
  BY RunStepFrame
<1>2. CASE Fail(t)
  BY <1>1, <1>2, FailStep
<1>3. ASSUME NEW where \in RunPoint, NEW locals \in Locals,
             Continue(t, where, locals), RunOK(where, locals)
      PROVE  IndInv'
  BY <1>1, <1>3, LocalStep
<1>. QED
  BY <1>2, <1>3

-----------------------------------------------------------------------------
(* One lemma per action.                                                   *)

LEMMA StartInv ==
  ASSUME IndInv, Grows, NEW t \in Tees, NEW arg \in Modes \cup {None}, Start(t, arg)
  PROVE  IndInv'
<1>1. /\ UNCHANGED <<objects, inflight, envVars, faults>>
      /\ used' \subseteq KeyPairs /\ steady' \subseteq Tees /\ runs' \in 0..MaxRuns
  BY BoundsAssumption DEF Start, IndInv, TypeOK
<1>2. CASE Continue(t, "failed", Blank)
  BY <1>1, <1>2, OutcomeType, LocalStep DEF IndInv, RunPoint, Stopped
<1>3. CASE broker # None /\ ~Continue(t, "failed", Blank)
  <2> DEFINE mode == IF arg = None THEN broker.mode ELSE arg
             where == IF ~ValidKeys(broker.keys) THEN "failed"
                      ELSE IF mode = "init-key" THEN "checking" ELSE "loading"
             locals == [Blank EXCEPT !.mode = mode, !.keys = broker.keys]
  <2>1. Continue(t, where, locals)
    BY <1>3 DEF Start
  <2>2. broker.keys \in KeyLists /\ mode \in Modes
    BY <1>3 DEF IndInv, TypeOK
  <2>3. locals \in Locals /\ locals.keys = broker.keys /\ locals.slot = 1
          /\ locals.recovery = <<>>
    <3> HIDE DEF mode
    <3>. QED BY <2>2, OutcomeType DEF Blank, Locals, IndInv
  <2>4. RunOK(where, locals)
    <3> HIDE DEF mode, locals
    <3>. QED BY <2>2, <2>3 DEF RunOK, Configured
  <2>5. where \in RunPoint
    BY DEF RunPoint, Waiting, Stopped
  <2>. QED
    <3> HIDE DEF where, locals
    <3>. QED BY <1>1, <2>1, <2>3, <2>4, <2>5, LocalStep
<1>. QED
  BY <1>2, <1>3 DEF Start

LEMMA CheckManifestInv ==
  ASSUME IndInv, Grows, NEW t \in Tees, CheckManifest(t)
  PROVE  IndInv'
<1>1. RunStep(t, "checking") /\ UNCHANGED <<objects, inflight>>
  BY DEF CheckManifest
<1>2. CASE Fail(t) /\ UNCHANGED used
  BY <1>1, <1>2, RunStepInv DEF IndInv, TypeOK
<1>3. ASSUME NEW pair \in KeyPairs \ used, used' = used \cup {pair},
             Continue(t, "generating", [run[t] EXCEPT !.pair = pair])
      PROVE  IndInv'
  <2> DEFINE locals == [run[t] EXCEPT !.pair = pair]
  <2>1. RunOK("checking", run[t]) /\ run[t] \in Locals
    BY <1>1, RunStepFrame
  <2>2. locals \in Locals /\ locals.pair = pair /\ locals.keys = run[t].keys
          /\ locals.slot = 1 /\ locals.recovery = <<>>
    BY <2>1 DEF RunOK, Locals
  <2>3. Continue(t, "generating", locals)
    BY <1>3
  <2> HIDE DEF locals
  <2>4. \A i \in Slots : ~(i <= locals.slot - 1)
    BY <2>2 DEF Slots
  <2>5. RunOK("generating", locals)
    BY <2>1, <2>2, <2>4 DEF RunOK, Generating, Configured, AtSlot, PackagesKept
  <2>6. used' \subseteq KeyPairs /\ "generating" \in RunPoint
    BY <1>3 DEF IndInv, TypeOK, RunPoint, Waiting
  <2>. QED
    BY <1>1, <2>2, <2>3, <2>5, <2>6, RunStepInv
<1>. QED
  BY <1>2, <1>3 DEF CheckManifest

LEMMA GenerateDataKeyInv ==
  ASSUME IndInv, Grows, NEW t \in Tees, GenerateDataKey(t)
  PROVE  IndInv'
<1> DEFINE r == run[t]
           put == PackagePut(r.keys[r.slot], r.pair)
           locals == [r EXCEPT !.put = put]
<1>1. RunStep(t, "generating") /\ UNCHANGED <<objects, inflight, used>>
  BY DEF GenerateDataKey
<1>2. RunOK("generating", r) /\ r \in Locals /\ used' \subseteq KeyPairs
  BY <1>1, RunStepFrame DEF IndInv, TypeOK
<1>3. CASE Fail(t)
  BY <1>1, <1>2, <1>3, RunStepInv
<1>4. CASE Continue(t, "sending", locals)
  <2>1. put \in Puts
    BY <1>2, PutsType DEF RunOK, Generating, Configured, KeyLists, Locals
  <2>2. locals \in Locals /\ locals.put = put /\ locals.keys = r.keys
          /\ locals.pair = r.pair /\ locals.slot = r.slot
          /\ locals.recovery = r.recovery
    <3> HIDE DEF put
    <3>. QED BY <1>2, <2>1 DEF Locals
  <2>3. RunOK("sending", locals)
    <3> HIDE DEF locals
    <3>. QED BY <1>2, <2>2 DEF RunOK, Generating, Configured, OnPackage, AtSlot
  <2>4. "sending" \in RunPoint
    BY DEF RunPoint, Waiting
  <2> HIDE DEF locals
  <2>. QED
    BY <1>1, <1>2, <1>4, <2>2, <2>3, <2>4, RunStepInv
<1>. QED
  BY <1>3, <1>4 DEF GenerateDataKey

LEMMA SendObjectInv ==
  ASSUME IndInv, Grows, NEW t \in Tees, SendObject(t)
  PROVE  IndInv'
<1> DEFINE r == run[t]
<1>1. RunStep(t, "sending") /\ UNCHANGED used
  BY DEF SendObject
<1>2. RunOK("sending", r) /\ r \in Locals /\ used' \subseteq KeyPairs
  BY <1>1, RunStepFrame DEF IndInv, TypeOK
<1>3. CASE Fail(t) /\ UNCHANGED <<objects, inflight>>
  BY <1>1, <1>2, <1>3, RunStepInv
<1>4. CASE Send(r.put) /\ Continue(t, "saving", r)
  <2>1. objects' = objects /\ inflight' = inflight \cup {r.put}
    BY <1>4 DEF Send
  <2>2. Generating(r) /\ (OnPackage(r) \/ OnPublic(r) \/ OnManifest(r))
    BY <1>2 DEF RunOK
  <2>3. r.put \in Puts
    BY <1>2, <2>2, PutsType
       DEF Generating, Configured, KeyLists, OnPackage, OnPublic, OnManifest, Locals
  <2>4. RunOK("saving", r)
    BY <1>2, <2>2 DEF RunOK
  <2>5. /\ pc' \in [Tees -> RunPoint]
        /\ run' \in [Tees -> Locals]
        /\ RunInv'
    BY <1>2, <1>4, <2>4, ContinueInv DEF IndInv, RunPoint, Waiting
  <2>6. r.put.key = ManifestKey => Backed(r.put)
    BY <2>2 DEF OnPackage, OnPublic, OnManifest, Backed, Generating, Configured,
       PackagePut, PublicPut, ManifestKey, Name
  <2>7. ASSUME NEW p, Backed(p) PROVE Backed(p)'
    BY <2>7, BackedStable
  <2>8. ManifestInv'
    BY <2>1, <2>6, <2>7 DEF ManifestInv, IndInv, Has
  <2>9. TypeOK'
    BY <1>1, <2>1, <2>3, <2>5, RunStepFrame DEF IndInv, TypeOK, RunStep, envVars
  <2>. QED
    BY <2>5, <2>8, <2>9 DEF IndInv
<1>. QED
  BY <1>3, <1>4 DEF SendObject

LEMMA SavedInv ==
  ASSUME IndInv, Grows, NEW t \in Tees, Saved(t)
  PROVE  IndInv'
<1> DEFINE r == run[t]
           locals == [Outcome(t) EXCEPT !.public = Pub(r.pair)]
<1>1. RunStep(t, "saving") /\ UNCHANGED <<objects, inflight, used>>
        /\ (Stored(r.put) \/ r.put.key \in damaged)
  BY DEF Saved
<1>2. RunOK("saving", r) /\ r \in Locals /\ used' \subseteq KeyPairs
  BY <1>1, RunStepFrame DEF IndInv, TypeOK
<1>3. Generating(r) /\ (OnPackage(r) \/ OnPublic(r) \/ OnManifest(r))
  BY <1>2 DEF RunOK
<1>4. CASE r.put.key # ManifestKey /\ Continue(t, "verifying", r)
  <2>1. ~OnManifest(r)
    BY <1>4 DEF OnManifest, ManifestPut
  <2>2. RunOK("verifying", r) /\ "verifying" \in RunPoint
    BY <1>3, <2>1 DEF RunOK, RunPoint, Waiting
  <2>. QED
    BY <1>1, <1>2, <1>4, <2>2, RunStepInv
<1>5. CASE r.put.key = ManifestKey /\ Continue(t, "initialized", locals)
  <2>1. OnManifest(r)
    BY <1>3, <1>5 DEF OnPackage, OnPublic, PackagePut, PublicPut, ManifestKey, Name
  <2>2. Stored(r.put)
    BY <1>1, <1>5 DEF IndInv, TypeOK
  <2>3. Has(ManifestKey) /\ Identity = Pub(r.pair)
    BY <2>1, <2>2 DEF OnManifest, ManifestPut, Stored, Has, Identity, Manifest, Digest
  <2>4. locals \in Locals /\ locals.public = Pub(r.pair)
    BY <1>3, OutcomeType DEF IndInv, Generating, Locals, PublicKeys
  <2>5. RunOK("initialized", locals) /\ "initialized" \in RunPoint
    BY <2>3, <2>4 DEF RunOK, Identified, RunPoint, Stopped
  <2> HIDE DEF locals
  <2>. QED
    BY <1>1, <1>2, <1>5, <2>4, <2>5, RunStepInv
<1>. QED
  BY <1>4, <1>5 DEF Saved

LEMMA VerifyUploadInv ==
  ASSUME IndInv, Grows, NEW t \in Tees, VerifyUpload(t)
  PROVE  IndInv'
<1> DEFINE r == run[t]
           put == ManifestPut(r.pair, r.recovery)
           locals == [r EXCEPT !.put = put]
<1>1. RunStep(t, "verifying") /\ UNCHANGED <<objects, inflight, used>>
  BY DEF VerifyUpload
<1>2. RunOK("verifying", r) /\ r \in Locals /\ used' \subseteq KeyPairs
  BY <1>1, RunStepFrame DEF IndInv, TypeOK
<1>3. Generating(r) /\ (OnPackage(r) \/ OnPublic(r))
  BY <1>2 DEF RunOK
<1>4. CASE Fail(t)
  BY <1>1, <1>2, <1>4, RunStepInv
<1>5. ASSUME Intact(ReferenceTo(r.put)) PROVE Kept(r.put)
  BY <1>5 DEF Intact, ReferenceTo, Digest, Kept, Stored, Has
<1>6. CASE /\ Intact(ReferenceTo(r.put)) /\ r.put.key.kind = "package"
           /\ Continue(t, "unsealing", r)
  <2>1. OnPackage(r)
    BY <1>3, <1>6 DEF OnPublic, PublicPut, Name
  <2>2. RunOK("unsealing", r) /\ "unsealing" \in RunPoint
    BY <1>3, <1>5, <1>6, <2>1 DEF RunOK, RunPoint, Waiting
  <2>. QED
    BY <1>1, <1>2, <1>6, <2>2, RunStepInv
<1>7. CASE /\ Intact(ReferenceTo(r.put)) /\ r.put.key.kind = "public"
           /\ Continue(t, "sending", locals)
  <2>1. OnPublic(r)
    BY <1>3, <1>7 DEF OnPackage, PackagePut, Name
  <2>2. put \in Puts
    BY <1>3, <2>1, PutsType DEF Generating, Configured, OnPublic
  <2>3. locals \in Locals /\ locals.put = put /\ locals.keys = r.keys
          /\ locals.pair = r.pair
    <3> HIDE DEF put
    <3>. QED BY <1>2, <2>2 DEF Locals
  <2> HIDE DEF locals
  <2>4. OnManifest(locals)
    BY <1>5, <1>7, <2>1, <2>3 DEF OnManifest, OnPublic
  <2>5. RunOK("sending", locals) /\ "sending" \in RunPoint
    BY <1>3, <2>3, <2>4 DEF RunOK, Generating, Configured, RunPoint, Waiting
  <2>. QED
    BY <1>1, <1>2, <1>7, <2>3, <2>5, RunStepInv
<1>. QED
  BY <1>4, <1>6, <1>7 DEF VerifyUpload

LEMMA CheckPackageInv ==
  ASSUME IndInv, Grows, NEW t \in Tees, CheckPackage(t)
  PROVE  IndInv'
<1> DEFINE r == run[t]
           recovery == Append(r.recovery, ReferenceTo(r.put))
           next == [r EXCEPT !.slot = 2, !.recovery = recovery, !.put = None]
           last == [r EXCEPT !.recovery = recovery, !.put = PublicPut(r.pair)]
<1>1. RunStep(t, "unsealing") /\ UNCHANGED <<objects, inflight, used>>
  BY DEF CheckPackage
<1>2. RunOK("unsealing", r) /\ r \in Locals /\ used' \subseteq KeyPairs
  BY <1>1, RunStepFrame DEF IndInv, TypeOK
<1>3. Generating(r) /\ OnPackage(r) /\ Kept(r.put)
  BY <1>2 DEF RunOK
<1>4. CASE Fail(t)
  BY <1>1, <1>2, <1>4, RunStepInv
<1>5. r.put \in Puts /\ r.put = PackagePut(r.keys[r.slot], r.pair)
  BY <1>2, <1>3, PutsType
     DEF OnPackage, Generating, Configured, KeyLists, Locals
<1>6. PackagesKept(r.keys, r.pair, r.slot)
  BY <1>2, <1>3, <1>5 DEF PackagesKept, OnPackage, AtSlot, Locals, Slots
<1>7. recovery \in Seq({ReferenceTo(p) : p \in Puts})
  BY <1>2, <1>5 DEF Locals
<1>8. CASE r.slot = 1 /\ Continue(t, "generating", next)
  <2>1. recovery = <<ReferenceTo(PackagePut(r.keys[1], r.pair))>>
    BY <1>3, <1>5, <1>8 DEF OnPackage, AtSlot
  <2>2. next \in Locals /\ next.keys = r.keys /\ next.pair = r.pair
          /\ next.slot = 2 /\ next.recovery = recovery
    <3>1. 2 \in Slots
      BY DEF Slots
    <3> HIDE DEF recovery
    <3>. QED BY <1>2, <1>7, <3>1 DEF Locals
  <2> HIDE DEF next, recovery
  <2>3. AtSlot(next)
    BY <1>6, <1>8, <2>1, <2>2 DEF AtSlot
  <2>4. RunOK("generating", next) /\ "generating" \in RunPoint
    BY <1>3, <2>2, <2>3 DEF RunOK, Generating, Configured, RunPoint, Waiting
  <2>. QED
    BY <1>1, <1>2, <1>8, <2>2, <2>4, RunStepInv
<1>9. CASE r.slot = 2 /\ Continue(t, "sending", last)
  <2>1. r.recovery = <<ReferenceTo(PackagePut(r.keys[1], r.pair))>>
    BY <1>3, <1>9 DEF OnPackage, AtSlot
  <2>2. recovery = References(r.keys, r.pair)
    <3>1. /\ Len(r.recovery) = 1
          /\ r.recovery[1] = ReferenceTo(PackagePut(r.keys[1], r.pair))
      BY <2>1
    <3>2. r.recovery \in Seq({ReferenceTo(p) : p \in Puts})
      BY <1>2 DEF Locals
    <3>3. ReferenceTo(r.put) \in {ReferenceTo(p) : p \in Puts}
      BY <1>5
    <3>4. /\ Len(recovery) = 2
          /\ recovery[1] = ReferenceTo(PackagePut(r.keys[1], r.pair))
          /\ recovery[2] = ReferenceTo(PackagePut(r.keys[2], r.pair))
      BY <1>5, <1>9, <3>1, <3>2, <3>3, AppendProperties
    <3>5. recovery = [i \in 1..2 |-> recovery[i]]
      BY <1>7, <3>4
    <3> HIDE DEF recovery
    <3>. QED BY <3>4, <3>5 DEF References, Slots
  <2>3. last \in Locals /\ last.keys = r.keys /\ last.pair = r.pair
          /\ last.put = PublicPut(r.pair) /\ last.recovery = recovery
    <3> HIDE DEF recovery
    <3>. QED BY <1>2, <1>3, <1>7, PutsType DEF Locals, Generating
  <2> HIDE DEF last, recovery
  <2>4. OnPublic(last)
    BY <1>6, <1>9, <2>2, <2>3 DEF OnPublic
  <2>5. RunOK("sending", last) /\ "sending" \in RunPoint
    BY <1>3, <2>3, <2>4 DEF RunOK, Generating, Configured, RunPoint, Waiting
  <2>. QED
    BY <1>1, <1>2, <1>9, <2>3, <2>5, RunStepInv
<1>. QED
  BY <1>4, <1>8, <1>9 DEF CheckPackage

(* What the manifest in the bucket looks like.                             *)
LEMMA ManifestShape ==
  ASSUME IndInv, Has(ManifestKey)
  PROVE  \E keys \in KeyLists, pair \in KeyPairs :
           /\ ValidKeys(keys)
           /\ objects[ManifestKey] = Manifest(pair, References(keys, pair))
           /\ PackagesKept(keys, pair, 2)
           /\ Kept(PublicPut(pair))
           /\ Identity = Pub(pair)
<1>1. PICK keys \in KeyLists, pair \in KeyPairs :
        /\ ValidKeys(keys)
        /\ [key |-> ManifestKey, body |-> objects[ManifestKey]]
             = ManifestPut(pair, References(keys, pair))
        /\ PackagesKept(keys, pair, 2)
        /\ Kept(PublicPut(pair))
  BY DEF IndInv, ManifestInv, Backed
<1>2. objects[ManifestKey] = Manifest(pair, References(keys, pair))
  BY <1>1 DEF ManifestPut
<1>3. Identity = Pub(pair)
  BY <1>2 DEF Identity, Manifest, Digest
<1>. QED
  BY <1>1, <1>2, <1>3

LEMMA LoadManifestInv ==
  ASSUME IndInv, Grows, NEW t \in Tees, LoadManifest(t)
  PROVE  IndInv'
<1> DEFINE r == run[t]
           locals == [r EXCEPT !.manifest = objects[ManifestKey]]
<1>1. RunStep(t, "loading") /\ UNCHANGED <<objects, inflight, used>>
  BY DEF LoadManifest
<1>2. RunOK("loading", r) /\ r \in Locals /\ used' \subseteq KeyPairs
  BY <1>1, RunStepFrame DEF IndInv, TypeOK
<1>3. CASE Fail(t)
  BY <1>1, <1>2, <1>3, RunStepInv
<1>4. CASE Has(ManifestKey) /\ Continue(t, "reading", locals)
  <2>1. PICK keys \in KeyLists, pair \in KeyPairs :
          objects[ManifestKey] = Manifest(pair, References(keys, pair))
    BY <1>4, ManifestShape
  <2>2. ManifestPut(pair, References(keys, pair)) \in {q \in Puts : q.key = ManifestKey}
    BY PutsType DEF ManifestPut
  <2>3. objects[ManifestKey] \in {p.body : p \in {q \in Puts : q.key = ManifestKey}}
    BY <2>1, <2>2 DEF ManifestPut
  <2>4. locals \in Locals /\ locals.keys = r.keys /\ locals.manifest = objects[ManifestKey]
    BY <1>2, <2>3 DEF Locals
  <2> HIDE DEF locals
  <2>5. RunOK("reading", locals) /\ "reading" \in RunPoint
    BY <1>2, <1>4, <2>4 DEF RunOK, HasManifest, Configured, RunPoint, Waiting
  <2>. QED
    BY <1>1, <1>2, <1>4, <2>4, <2>5, RunStepInv
<1>. QED
  BY <1>3, <1>4 DEF LoadManifest

LEMMA LoadPublicInv ==
  ASSUME IndInv, Grows, NEW t \in Tees, LoadPublic(t)
  PROVE  IndInv'
<1> DEFINE r == run[t]
           document == objects[r.manifest.public.key]
           locals == [r EXCEPT !.public = document.publicKey]
<1>1. RunStep(t, "reading") /\ UNCHANGED <<objects, inflight, used>>
  BY DEF LoadPublic
<1>2. RunOK("reading", r) /\ r \in Locals /\ used' \subseteq KeyPairs
  BY <1>1, RunStepFrame DEF IndInv, TypeOK
<1>3. CASE Fail(t)
  BY <1>1, <1>2, <1>3, RunStepInv
<1>4. CASE /\ Digest(document.publicKey) = r.manifest.fingerprint
           /\ Continue(t, "fetching", locals)
  <2>1. HasManifest(r)
    BY <1>2 DEF RunOK
  <2>2. PICK keys \in KeyLists, pair \in KeyPairs :
          /\ objects[ManifestKey] = Manifest(pair, References(keys, pair))
          /\ Identity = Pub(pair)
    BY <2>1, ManifestShape DEF HasManifest
  <2>3. document.publicKey = Pub(pair)
    BY <1>4, <2>1, <2>2 DEF HasManifest, Manifest, Digest
  <2>4. locals \in Locals /\ locals.keys = r.keys /\ locals.public = Pub(pair)
          /\ locals.manifest = r.manifest
    <3>1. document.publicKey \in PublicKeys
      BY <2>3 DEF PublicKeys
    <3> HIDE DEF document
    <3>. QED BY <1>2, <2>3, <3>1 DEF Locals
  <2> HIDE DEF locals
  <2>5. RunOK("fetching", locals) /\ "fetching" \in RunPoint
    BY <2>1, <2>2, <2>4
       DEF RunOK, HasManifest, Identified, Configured, RunPoint, Waiting
  <2>. QED
    BY <1>1, <1>2, <1>4, <2>4, <2>5, RunStepInv
<1>. QED
  BY <1>3, <1>4 DEF LoadPublic

(* Going on with the next key, or giving up.                               *)
LEMMA NextKeyInv ==
  ASSUME IndInv, Grows, NEW t \in Tees, NEW from \in {"fetching", "opening"},
         RunStep(t, from), UNCHANGED <<objects, inflight, used>>, NextKey(t)
  PROVE  IndInv'
<1> DEFINE r == run[t]
           locals == [r EXCEPT !.slot = @ + 1, !.package = None]
<1>1. RunOK(from, r) /\ r \in Locals /\ used' \subseteq KeyPairs
  BY RunStepFrame DEF IndInv, TypeOK
<1>2. HasManifest(r) /\ Identified(r)
  BY <1>1 DEF RunOK
<1>3. CASE Fail(t)
  BY <1>1, <1>3, RunStepInv
<1>4. CASE r.slot < Len(r.keys) /\ Continue(t, "fetching", locals)
  <2>1. Len(r.keys) = 2
    BY <1>2 DEF HasManifest, Configured, KeyLists, Slots
  <2>2. r.slot + 1 \in Slots
    BY <1>1, <1>4, <2>1 DEF Locals, Slots
  <2>3. locals \in Locals /\ locals.keys = r.keys /\ locals.public = r.public
          /\ locals.manifest = r.manifest
    BY <1>1, <2>2 DEF Locals
  <2> HIDE DEF locals
  <2>4. RunOK("fetching", locals) /\ "fetching" \in RunPoint
    BY <1>2, <2>3 DEF RunOK, HasManifest, Identified, Configured, RunPoint, Waiting
  <2>. QED
    BY <1>1, <1>4, <2>3, <2>4, RunStepInv
<1>. QED
  BY <1>3, <1>4 DEF NextKey

LEMMA FetchPackageInv ==
  ASSUME IndInv, Grows, NEW t \in Tees, FetchPackage(t)
  PROVE  IndInv'
<1> DEFINE r == run[t]
           recovery == r.manifest.recovery
<1>1. RunStep(t, "fetching") /\ UNCHANGED <<objects, inflight, used>>
  BY DEF FetchPackage
<1>2. RunOK("fetching", r) /\ r \in Locals /\ used' \subseteq KeyPairs
  BY <1>1, RunStepFrame DEF IndInv, TypeOK
<1>3. CASE NextKey(t)
  BY <1>1, <1>3, NextKeyInv
<1>4. ASSUME NEW i \in DOMAIN recovery, Intact(recovery[i]),
             Continue(t, "opening", [r EXCEPT !.package = objects[recovery[i].key]])
      PROVE  IndInv'
  <2> DEFINE package == objects[recovery[i].key]
             locals == [r EXCEPT !.package = package]
  <2>1. HasManifest(r) /\ Identified(r)
    BY <1>2 DEF RunOK
  <2>2. PICK keys \in KeyLists, pair \in KeyPairs :
          objects[ManifestKey] = Manifest(pair, References(keys, pair))
    BY <2>1, ManifestShape DEF HasManifest
  <2>3. recovery = References(keys, pair)
    BY <2>1, <2>2 DEF HasManifest, Manifest
  <2>4. i \in Slots /\ recovery[i] = ReferenceTo(PackagePut(keys[i], pair))
    BY <2>3 DEF References
  <2>5. package = Package(keys[i], pair)
    BY <1>4, <2>4 DEF Intact, ReferenceTo, PackagePut, Digest
  <2>6. PackagePut(keys[i], pair) \in {q \in Puts : q.key.kind = "package"}
    BY <2>4, PutsType DEF KeyLists, PackagePut, Name
  <2>7. package \in {p.body : p \in {q \in Puts : q.key.kind = "package"}}
    BY <2>5, <2>6 DEF PackagePut
  <2>8. locals \in Locals /\ locals.keys = r.keys /\ locals.public = r.public
          /\ locals.manifest = r.manifest
    <3> HIDE DEF package
    <3>. QED BY <1>2, <2>7 DEF Locals
  <2>9. Continue(t, "opening", locals)
    BY <1>4
  <2> HIDE DEF locals
  <2>10. RunOK("opening", locals) /\ "opening" \in RunPoint
    BY <2>1, <2>8 DEF RunOK, HasManifest, Identified, Configured, RunPoint, Waiting
  <2>. QED
    BY <1>1, <1>2, <2>8, <2>9, <2>10, RunStepInv
<1>. QED
  BY <1>3, <1>4 DEF FetchPackage

LEMMA OpenPackageInv ==
  ASSUME IndInv, Grows, NEW t \in Tees, OpenPackage(t)
  PROVE  IndInv'
<1> DEFINE r == run[t]
           arn == r.keys[r.slot]
           locals == [Outcome(t) EXCEPT !.public = r.public, !.via = arn]
<1>1. RunStep(t, "opening") /\ UNCHANGED <<objects, inflight, used>>
  BY DEF OpenPackage
<1>2. RunOK("opening", r) /\ r \in Locals /\ used' \subseteq KeyPairs
  BY <1>1, RunStepFrame DEF IndInv, TypeOK
<1>3. CASE NextKey(t)
  BY <1>1, <1>3, NextKeyInv
<1>4. CASE Continue(t, "serving", locals)
  <2>1. HasManifest(r) /\ Identified(r)
    BY <1>2 DEF RunOK
  <2>2. arn \in Arns
    BY <1>2, <2>1 DEF HasManifest, Configured, KeyLists, Locals
  <2>3. Outcome(t) \in Locals
    BY OutcomeType DEF IndInv
  <2>4. locals \in Locals /\ locals.public = r.public
    <3>1. r.public \in PublicKeys \cup {None}
      BY <1>2 DEF Locals
    <3> HIDE DEF r, arn
    <3>. QED BY <2>2, <2>3, <3>1 DEF Locals
  <2> HIDE DEF locals
  <2>5. RunOK("serving", locals) /\ "serving" \in RunPoint
    BY <2>1, <2>4 DEF RunOK, Identified, RunPoint
  <2>. QED
    BY <1>1, <1>2, <1>4, <2>4, <2>5, RunStepInv
<1>. QED
  BY <1>3, <1>4 DEF OpenPackage

-----------------------------------------------------------------------------
(* The environment.                                                        *)

LEMMA TerminateInv ==
  ASSUME IndInv, Grows, NEW t \in Tees, Terminate(t)
  PROVE  IndInv'
BY OutcomeType, LocalStep DEF Terminate, IndInv, TypeOK, RunPoint, Stopped

(* When the runs go on as before, only the types and the manifests are     *)
(* left to look at.                                                        *)
LEMMA RunsUnchanged ==
  ASSUME IndInv, Grows, UNCHANGED <<pc, run>>
  PROVE  RunInv'
<1>1. ASSUME NEW w, NEW r \in Locals, RunOK(w, r) PROVE RunOK(w, r)'
  BY <1>1, RunOKStable
<1>. QED
  BY <1>1 DEF IndInv, RunInv, TypeOK

LEMMA S3WriteInv ==
  ASSUME IndInv, Grows, S3Write
  PROVE  IndInv'
<1>1. PICK p \in inflight :
        /\ objects' = PutIfAbsent(objects, p)
        /\ steady' \in {{}, steady}
  BY DEF S3Write
<1>2. UNCHANGED <<inflight, broker, broken, damaged, pc, run, used, faults, runs>>
  BY DEF S3Write, envVars
<1>3. p \in Puts /\ p = [key |-> p.key, body |-> p.body]
  BY PutShape DEF IndInv, TypeOK
<1>4. /\ DOMAIN objects \subseteq DOMAIN objects'
      /\ DOMAIN objects' \subseteq DOMAIN objects \cup {p.key}
      /\ \A key \in DOMAIN objects : objects'[key] = objects[key]
      /\ p.key \notin DOMAIN objects => objects'[p.key] = p.body
  BY <1>1, PutIfAbsentKeeps
<1>5. TypeOK'
  <2>1. DOMAIN objects' \subseteq Names
    BY <1>3, <1>4 DEF IndInv, TypeOK, Names
  <2>2. ASSUME NEW key \in DOMAIN objects'
        PROVE  \/ [key |-> key, body |-> objects'[key]] \in Puts
               \/ key \in damaged /\ objects'[key] = Corrupt
    <3>1. CASE key \in DOMAIN objects
      BY <1>4, <3>1 DEF IndInv, TypeOK
    <3>2. CASE key \notin DOMAIN objects
      BY <1>3, <1>4, <3>2
    <3>. QED
      BY <3>1, <3>2
  <2>. QED
    BY <1>1, <1>2, <2>1, <2>2 DEF IndInv, TypeOK
<1>6. ManifestInv'
  <2>1. ASSUME NEW q, Backed(q) PROVE Backed(q)'
    BY <2>1, BackedStable
  <2>2. ASSUME NEW q \in inflight', q.key = ManifestKey PROVE Backed(q)'
    BY <1>2, <2>1, <2>2 DEF IndInv, ManifestInv
  <2>3. ASSUME ManifestKey \in DOMAIN objects'
        PROVE  Backed([key |-> ManifestKey, body |-> objects[ManifestKey]])'
    <3>1. CASE ManifestKey \in DOMAIN objects
      BY <1>4, <2>1, <3>1 DEF IndInv, ManifestInv, Has
    <3>2. CASE ManifestKey \notin DOMAIN objects
      <4>1. p.key = ManifestKey /\ objects'[ManifestKey] = p.body
        BY <1>4, <2>3, <3>2
      <4>2. Backed(p)'
        BY <2>1, <4>1 DEF IndInv, ManifestInv
      <4>. QED
        BY <1>3, <4>1, <4>2
    <3>. QED
      BY <3>1, <3>2
  <2>. QED
    BY <2>2, <2>3 DEF ManifestInv, Has
<1>. QED
  BY <1>2, <1>5, <1>6, RunsUnchanged DEF IndInv

(* A step of the environment that only adds harm preserves the invariant.  *)
LEMMA SettingsStep ==
  ASSUME IndInv, Grows, UNCHANGED <<objects, inflight, pc, run, used, runs>>,
         damaged' = damaged, steady' \subseteq Tees, faults' \in 0..MaxFaults,
         broken' \subseteq Identities \cup Arns \cup {"s3"},
         broker' \in [mode : Modes, keys : KeyLists,
                      ids : [Slots -> Identities \cup {None}]] \cup {None}
  PROVE  IndInv'
<1>1. TypeOK'
  BY DEF IndInv, TypeOK
<1>2. ManifestInv'
  BY ManifestInvStable DEF IndInv
<1>. QED
  BY <1>1, <1>2, RunsUnchanged DEF IndInv

(* The bound on harm is kept.                                              *)
LEMMA HarmBound == TypeOK /\ Harm => faults' \in 0..MaxFaults
BY BoundsAssumption DEF TypeOK, Harm

LEMMA StartBrokerInv ==
  ASSUME IndInv, Grows, NEW mode \in Modes, NEW config \in Configs,
         StartBroker(mode, config)
  PROVE  IndInv'
<1>1. config.keys \in KeyLists /\ config.ids \in [Slots -> Identities \cup {None}]
  BY ConfigsAssumption DEF KeyLists
<1>. QED
  BY <1>1, SettingsStep DEF StartBroker, IndInv, TypeOK

LEMMA BreakInv ==
  ASSUME IndInv, Grows, NEW x \in Identities \cup Arns \cup {"s3"},
         Break(x) \/ Repair(x)
  PROVE  IndInv'
<1>1. CASE Break(x)
  BY <1>1, HarmBound, SettingsStep DEF Break, IndInv, TypeOK
<1>2. CASE Repair(x)
  BY <1>2, SettingsStep DEF Repair, IndInv, TypeOK
<1>. QED
  BY <1>1, <1>2

LEMMA StopBrokerInv ==
  ASSUME IndInv, Grows, StopBroker
  PROVE  IndInv'
<1>1. /\ broker' = None /\ steady' = {} /\ faults' \in 0..MaxFaults
      /\ UNCHANGED <<objects, inflight, broken, damaged, used, runs>>
  BY HarmBound DEF StopBroker, IndInv
<1>2. ASSUME NEW t \in Tees
      PROVE  /\ pc'[t] \in RunPoint /\ run'[t] \in Locals
             /\ RunOK(pc'[t], run'[t])
  <2>1. CASE pc[t] = "saving"
    <3>1. pc'[t] = "failed" /\ run'[t] = Outcome(t)
      BY <2>1 DEF StopBroker
    <3>. QED
      BY <3>1, OutcomeType DEF IndInv, RunPoint, Stopped
  <2>2. CASE pc[t] # "saving"
    <3>1. pc'[t] = pc[t] /\ run'[t] = run[t]
      BY <2>2 DEF StopBroker
    <3>. QED
      BY <3>1 DEF IndInv, TypeOK, RunInv
  <2>. QED
    BY <2>1, <2>2
<1>3. pc' \in [Tees -> RunPoint] /\ run' \in [Tees -> Locals]
  BY <1>2 DEF StopBroker
<1>4. ASSUME NEW w, NEW r \in Locals, RunOK(w, r) PROVE RunOK(w, r)'
  BY <1>4, RunOKStable
<1>5. RunInv'
  BY <1>2, <1>4 DEF RunInv
<1>6. TypeOK'
  BY <1>1, <1>3 DEF IndInv, TypeOK
<1>7. ManifestInv'
  BY <1>1, ManifestInvStable DEF IndInv
<1>. QED
  BY <1>5, <1>6, <1>7 DEF IndInv

LEMMA DamageInv ==
  ASSUME IndInv, Grows, NEW key \in DOMAIN objects, Damage(key)
  PROVE  IndInv'
<1>1. /\ key # ManifestKey
      /\ damaged' = damaged \cup {key} /\ steady' = {} /\ faults' \in 0..MaxFaults
      /\ UNCHANGED <<inflight, broker, broken, pc, run, used, runs>>
  BY HarmBound DEF Damage, IndInv
<1>2. /\ DOMAIN objects' \subseteq DOMAIN objects
      /\ \A k \in DOMAIN objects' \ {key} : objects'[k] = objects[k]
      /\ key \in DOMAIN objects' => objects'[key] = Corrupt
  BY DEF Damage
<1>3. TypeOK'
  BY <1>1, <1>2 DEF IndInv, TypeOK, Names
<1>4. ManifestInv'
  <2>1. ASSUME NEW q, Backed(q) PROVE Backed(q)'
    BY <2>1, BackedStable
  <2>2. ASSUME NEW q \in inflight', q.key = ManifestKey PROVE Backed(q)'
    BY <1>1, <2>1, <2>2 DEF IndInv, ManifestInv
  <2>3. ASSUME ManifestKey \in DOMAIN objects'
        PROVE  Backed([key |-> ManifestKey, body |-> objects[ManifestKey]])'
    BY <1>1, <1>2, <2>1, <2>3 DEF IndInv, ManifestInv, Has
  <2>. QED
    BY <2>2, <2>3 DEF ManifestInv, Has
<1>. QED
  BY <1>1, <1>3, <1>4, RunsUnchanged DEF IndInv

-----------------------------------------------------------------------------
(* The inductive invariant.                                                *)

(* A provisioned bucket holds the documents of its provisioning and        *)
(* nothing else.                                                           *)
LEMMA ProvisionedBucketHolds ==
  ASSUME NEW keys \in KeyLists, NEW pair \in KeyPairs
  PROVE  LET bucket == ProvisionedBucket(keys, pair)
             puts == {PackagePut(keys[i], pair) : i \in Slots}
                       \cup {PublicPut(pair), ManifestPut(pair, References(keys, pair))}
         IN  /\ DOMAIN bucket = {p.key : p \in puts}
             /\ \A p \in puts : bucket[p.key] = p.body
             /\ puts \subseteq Puts
<1> DEFINE bucket == ProvisionedBucket(keys, pair)
           puts == {PackagePut(keys[i], pair) : i \in Slots}
                     \cup {PublicPut(pair), ManifestPut(pair, References(keys, pair))}
<1>1. ASSUME NEW p \in puts, NEW q \in puts, p.key = q.key PROVE p = q
  BY <1>1 DEF PackagePut, PublicPut, ManifestPut, ManifestKey, Name
<1>2. bucket = [key \in {p.key : p \in puts} |-> (CHOOSE p \in puts : p.key = key).body]
  BY DEF ProvisionedBucket
<1>3. puts \subseteq Puts
  BY PutsType DEF KeyLists
<1> HIDE DEF puts, bucket
<1>4. ASSUME NEW p \in puts PROVE bucket[p.key] = p.body
  <2>1. (CHOOSE q \in puts : q.key = p.key) = p
    BY <1>1
  <2>. QED
    BY <1>2, <2>1
<1>. QED
  BY <1>2, <1>3, <1>4 DEF puts, bucket

LEMMA InitInv == Init => IndInv
<1> SUFFICES ASSUME Init PROVE IndInv
  OBVIOUS
<1>1. RunInv
  BY DEF Init, RunInv, RunOK
<1>2. /\ DOMAIN objects \subseteq Names
      /\ \A key \in DOMAIN objects : [key |-> key, body |-> objects[key]] \in Puts
      /\ Has(ManifestKey) => Backed([key |-> ManifestKey, body |-> objects[ManifestKey]])
  <2>1. CASE objects = EmptyBucket
    BY <2>1 DEF EmptyBucket, Has
  <2>2. ASSUME NEW c \in Configs, InitialKey # None, ValidKeys(c.keys),
               objects = ProvisionedBucket(c.keys, InitialKey)
        PROVE  <1>2!:
    <3> DEFINE puts == {PackagePut(c.keys[i], InitialKey) : i \in Slots}
                         \cup {PublicPut(InitialKey),
                               ManifestPut(InitialKey, References(c.keys, InitialKey))}
    <3>1. c.keys \in KeyLists /\ InitialKey \in KeyPairs
      BY <2>2, ConfigsAssumption, InitialKeyAssumption DEF KeyLists
    <3>2. /\ DOMAIN objects = {p.key : p \in puts}
          /\ \A p \in puts : objects[p.key] = p.body
          /\ puts \subseteq Puts
      BY <2>2, <3>1, ProvisionedBucketHolds
    <3>3. /\ \A i \in Slots : PackagePut(c.keys[i], InitialKey) \in puts
          /\ PublicPut(InitialKey) \in puts
          /\ ManifestPut(InitialKey, References(c.keys, InitialKey)) \in puts
      OBVIOUS
    <3> HIDE DEF puts
    <3>4. \A p \in puts : Kept(p) /\ p = [key |-> p.key, body |-> p.body]
      BY <3>2, PutShape DEF Kept, Stored
    <3>5. \A key \in DOMAIN objects : [key |-> key, body |-> objects[key]] \in puts
      BY <3>2, <3>4
    <3>6. PackagesKept(c.keys, InitialKey, 2) /\ Kept(PublicPut(InitialKey))
      BY <3>3, <3>4 DEF PackagesKept
    <3>7. [key |-> ManifestKey, body |-> objects[ManifestKey]]
            = ManifestPut(InitialKey, References(c.keys, InitialKey))
      BY <3>2, <3>3 DEF ManifestPut
    <3>8. Backed([key |-> ManifestKey, body |-> objects[ManifestKey]])
      BY <2>2, <3>1, <3>6, <3>7 DEF Backed
    <3>. QED
      BY <3>2, <3>5, <3>8 DEF Names
  <2>. QED
    BY <2>1, <2>2 DEF Init
<1>3. run \in [Tees -> Locals]
  <2>1. Blank \in Locals
    BY DEF Blank, Locals, Slots
  <2>. QED
    BY <2>1 DEF Init
<1>4. TypeOK
  <2>1. used \subseteq KeyPairs
    BY InitialKeyAssumption DEF Init
  <2>2. pc \in [Tees -> RunPoint]
    BY DEF Init, RunPoint, Stopped
  <2>3. faults \in 0..MaxFaults /\ runs \in 0..MaxRuns
    <3>1. faults = 0 /\ runs = 0
      BY DEF Init
    <3>. QED BY <3>1, BoundsAssumption
  <2>. QED
    BY <1>2, <1>3, <2>1, <2>2, <2>3 DEF Init, TypeOK
<1>5. ManifestInv
  BY <1>2 DEF Init, ManifestInv
<1>. QED
  BY <1>1, <1>4, <1>5 DEF IndInv

LEMMA StepInv == IndInv /\ [Next]_vars => IndInv'
<1> SUFFICES ASSUME IndInv, [Next]_vars PROVE IndInv'
  OBVIOUS
<1>1. Grows
  BY StepGrows DEF IndInv
<1>2. ASSUME NEW t \in Tees, NEW arg \in Modes \cup {None}, Start(t, arg) PROVE IndInv'
  BY <1>1, <1>2, StartInv
<1>3. ASSUME NEW t \in Tees, Advance(t) PROVE IndInv'
  <2>1. CASE SaveError(t)
    <3>1. RunStep(t, "saving") /\ Fail(t) /\ UNCHANGED <<objects, inflight, used>>
      BY <2>1 DEF SaveError
    <3>. QED
      BY <1>1, <3>1, RunStepInv DEF IndInv, TypeOK
  <2>. QED
    BY <1>1, <1>3, <2>1, CheckManifestInv, GenerateDataKeyInv, SendObjectInv, SavedInv,
       VerifyUploadInv, CheckPackageInv, LoadManifestInv, LoadPublicInv,
       FetchPackageInv, OpenPackageInv DEF Advance
<1>4. CASE Environment
  BY <1>1, <1>4, TerminateInv, S3WriteInv, StartBrokerInv, StopBrokerInv, BreakInv,
     DamageInv DEF Environment
<1>5. CASE UNCHANGED vars
  BY <1>5 DEF vars, IndInv, TypeOK, RunInv, RunOK, ManifestInv, Backed, Generating,
     Configured, HasManifest, Identified, Identity, OnPackage, OnPublic, OnManifest,
     AtSlot, PackagesKept, Kept, Stored, Has
<1>. QED
  BY <1>2, <1>3, <1>4, <1>5 DEF Next

(* Every reachable state satisfies the inductive invariant.                *)
THEOREM Invariance == Spec => []IndInv
BY InitInv, StepInv, PTL DEF Spec

-----------------------------------------------------------------------------
(* What follows for a reader of the code.                                  *)

(* Every variable has its type; in particular the bucket never holds an    *)
(* object other than what some run of init-key writes under that name, or  *)
(* a damaged one.                                                          *)
THEOREM TypeCorrect == Spec => []TypeOK
BY Invariance, PTL DEF IndInv

LEMMA BackedIsComplete == IndInv => EveryPathOpens
<1> SUFFICES ASSUME IndInv, Has(ManifestKey) PROVE Complete(objects[ManifestKey])
  BY DEF EveryPathOpens
<1> DEFINE m == objects[ManifestKey]
<1>1. PICK keys \in KeyLists, pair \in KeyPairs :
        /\ ValidKeys(keys)
        /\ m = Manifest(pair, References(keys, pair))
        /\ PackagesKept(keys, pair, 2)
        /\ Kept(PublicPut(pair))
  BY ManifestShape
<1>2. m.fingerprint = Digest(Pub(pair)) /\ m.public = ReferenceTo(PublicPut(pair))
  BY <1>1 DEF Manifest
<1>3. \A i \in Slots : m.recovery[i] = ReferenceTo(PackagePut(keys[i], pair))
  BY <1>1 DEF Manifest, References
<1>4. m.public.key \notin damaged =>
        Intact(m.public) /\ objects[m.public.key] = PublicDocument(pair)
  BY <1>1, <1>2 DEF Kept, Stored, Intact, Has, ReferenceTo, PublicPut, Digest
<1>5. ASSUME NEW i \in Slots, m.recovery[i].key \notin damaged
      PROVE  /\ Intact(m.recovery[i])
             /\ objects[m.recovery[i].key] = Package(m.recovery[i].arn, pair)
  <2>1. Stored(PackagePut(keys[i], pair))
    BY <1>1, <1>3, <1>5 DEF PackagesKept, Kept, ReferenceTo, Slots
  <2>. QED
    <3>1. /\ m.recovery[i].key = PackagePut(keys[i], pair).key
          /\ m.recovery[i].sha = Digest(PackagePut(keys[i], pair).body)
          /\ m.recovery[i].arn = keys[i]
      <4> DEFINE ref == m.recovery[i]
      <4>1. ref = ReferenceTo(PackagePut(keys[i], pair))
        BY <1>3
      <4> HIDE DEF ref
      <4>2. ref.key = PackagePut(keys[i], pair).key
              /\ ref.sha = Digest(PackagePut(keys[i], pair).body)
              /\ ref.arn = PackagePut(keys[i], pair).key.arn
        BY <4>1 DEF ReferenceTo
      <4>. QED BY <4>2 DEF ref, PackagePut, Name
    <3>2. PackagePut(keys[i], pair).body = Package(keys[i], pair)
      BY DEF PackagePut
    <3> HIDE DEF m
    <3>. QED BY <2>1, <3>1, <3>2 DEF Stored, Intact, Has
<1>6. m.recovery[1].arn # m.recovery[2].arn
  BY <1>1, <1>3 DEF ValidKeys, ReferenceTo, PackagePut, Name, Slots
<1>. QED
  BY <1>2, <1>4, <1>5, <1>6 DEF Complete

(* The manifest is a sound commit record in every reachable state.         *)
THEOREM CommittedPathsOpen == Spec => []EveryPathOpens
BY Invariance, BackedIsComplete, PTL

(* The bucket's identity is a public key that never changes once it is set. *)
LEMMA IdentityStep ==
  ASSUME IndInv, Grows
  PROVE  /\ Identity \in PublicKeys \cup {None}
         /\ Has(ManifestKey) <=> Identity # None
         /\ Identity # None => Identity' = Identity
<1>1. Has(ManifestKey) => Identity \in PublicKeys
  BY ManifestShape DEF PublicKeys
<1>2. None \notin PublicKeys
  BY NoneAssumption DEF PublicKeys, Pub
<1>3. ~Has(ManifestKey) => Identity = None
  BY DEF Identity
<1>4. Has(ManifestKey) => Identity' = Identity
  BY DEF Identity, Grows
<1>. QED
  BY <1>1, <1>2, <1>3, <1>4

(* A tee that announces a key announces the identity, a public key.        *)
AnnouncedOK ==
  /\ Identity \in PublicKeys \cup {None}
  /\ \A t \in Tees :
       Announced[t] = None \/ (Has(ManifestKey) /\ Announced[t] = Identity)

LEMMA AnnouncedIsIdentity == IndInv => AnnouncedOK
BY ManifestShape
   DEF AnnouncedOK, IndInv, RunInv, RunOK, Identified, Announced, PublicKeys, Identity

(* Who changes what in a step: the bucket and the runs never both.         *)
LEMMA StepShape ==
  ASSUME TypeOK, [Next]_vars
  PROVE  \/ UNCHANGED <<pc, run>>
         \/ UNCHANGED objects /\ StopBroker
         \/ /\ UNCHANGED objects
            /\ \E t \in Tees : \A u \in Tees \ {t} : pc'[u] = pc[u] /\ run'[u] = run[u]
<1>1. ASSUME NEW t \in Tees, NEW where, NEW locals, Continue(t, where, locals)
      PROVE  \A u \in Tees \ {t} : pc'[u] = pc[u] /\ run'[u] = run[u]
  BY <1>1 DEF Continue, TypeOK
<1>2. ASSUME NEW t \in Tees, NEW arg \in Modes \cup {None}, Start(t, arg)
      PROVE  UNCHANGED objects /\ \E where, locals : Continue(t, where, locals)
  BY <1>2 DEF Start
<1>3. ASSUME NEW t \in Tees, Advance(t)
      PROVE  UNCHANGED objects /\ \E where, locals : Continue(t, where, locals)
  BY <1>3 DEF Advance, CheckManifest, GenerateDataKey, SendObject, Send, Saved,
     SaveError, VerifyUpload, CheckPackage, LoadManifest, LoadPublic, FetchPackage,
     OpenPackage, NextKey, Fail
<1>4. ASSUME NEW t \in Tees, Terminate(t)
      PROVE  UNCHANGED objects /\ \E where, locals : Continue(t, where, locals)
  BY <1>4 DEF Terminate
<1>5. CASE Environment /\ ~(\E t \in Tees : Terminate(t))
  BY <1>5 DEF Environment, S3Write, StartBroker, StopBroker, Break, Repair, Damage
<1>6. CASE UNCHANGED vars
  BY <1>6 DEF vars
<1>7. ASSUME NEW t \in Tees, UNCHANGED objects,
             \E where, locals : Continue(t, where, locals)
      PROVE  /\ UNCHANGED objects
             /\ \A u \in Tees \ {t} : pc'[u] = pc[u] /\ run'[u] = run[u]
  BY <1>1, <1>7
<1>. QED
  BY <1>2, <1>3, <1>4, <1>5, <1>6, <1>7 DEF Next

LEMMA OneTimeInit == Init => OneTime!Init
<1> SUFFICES ASSUME Init PROVE OneTime!Init
  OBVIOUS
<1>1. IndInv
  BY InitInv
<1>2. Identity \in PublicKeys \cup {None}
  BY <1>1, ManifestShape DEF Identity, PublicKeys
<1>3. Announced = [t \in Tees |-> None]
  BY DEF Init, Announced
<1>. QED
  BY <1>2, <1>3 DEF OneTime!Init

LEMMA OneTimeStep ==
  IndInv /\ AnnouncedOK' /\ [Next]_vars => [OneTime!Next]_OneTime!vars
<1> SUFFICES ASSUME IndInv, AnnouncedOK', [Next]_vars PROVE [OneTime!Next]_OneTime!vars
  OBVIOUS
<1>1. TypeOK /\ Grows
  BY StepGrows DEF IndInv
<1>2. CASE UNCHANGED <<pc, run>>
  <2>1. Announced' = Announced
    BY <1>2 DEF Announced
  <2>2. Identity' \in PublicKeys \cup {None}
    BY DEF AnnouncedOK
  <2>3. CASE Identity # None
    BY <1>1, <2>1, <2>3, IdentityStep DEF OneTime!vars
  <2>4. CASE Identity = None /\ Identity' # None
    BY <2>1, <2>2, <2>4 DEF OneTime!Next, OneTime!Choose
  <2>5. CASE Identity = None /\ Identity' = None
    BY <2>1, <2>5 DEF OneTime!vars
  <2>. QED
    BY <2>3, <2>4, <2>5
<1>3. CASE UNCHANGED objects /\ StopBroker
  <2>1. Announced' = Announced
    BY <1>3 DEF Announced, StopBroker
  <2>2. Identity' = Identity
    BY <1>3 DEF Identity, Has
  <2>. QED
    BY <2>1, <2>2 DEF OneTime!vars
<1>4. ASSUME UNCHANGED objects, NEW t \in Tees,
             \A u \in Tees \ {t} : pc'[u] = pc[u] /\ run'[u] = run[u]
      PROVE  OneTime!Next
  <2>1. Identity' = Identity /\ (Has(ManifestKey)' <=> Has(ManifestKey))
    BY <1>4 DEF Identity, Has
  <2>2. Announced' = [Announced EXCEPT ![t] = Announced'[t]]
    BY <1>4 DEF Announced
  <2>3. Announced'[t] = None \/ (Has(ManifestKey)' /\ Announced'[t] = Identity')
    BY DEF AnnouncedOK
  <2>. QED
    BY <1>1, <2>1, <2>2, <2>3, IdentityStep
       DEF OneTime!Next, OneTime!Announce, OneTime!Withdraw
<1>. QED
  BY <1>1, <1>2, <1>3, <1>4, StepShape

(* Key provisioning and recovery implement OneTimeKey: for any number of   *)
(* tees, runs, keys and faults there is one identity, and whoever finishes *)
(* init-key or serves announces it.                                        *)
THEOREM ImplementsOneTimeKey == Spec => OneIdentity
<1>1. Spec => []IndInv
  BY Invariance
<1>. QED
  BY <1>1, AnnouncedIsIdentity, OneTimeInit, OneTimeStep, PTL
  DEF Spec, OneIdentity, OneTime!Spec
=============================================================================
