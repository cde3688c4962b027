-------------------------- MODULE KmsOptionsProofs --------------------------
(***************************************************************************)
(* Theorems about KmsOptions, for every set of encryption contexts.        *)
(***************************************************************************)
EXTENDS KmsOptions, SequenceTheorems, TLAPS

(* The inductive invariant behind the properties that hold.                *)

(* Accepted settings always have a key spec.                               *)
SettingsInv ==
  phase \notin {"start", "configured", "refused"} =>
    settings.keySpec # None /\ settings.context # "malformed"

(* What was generated under the settings of this run, opens under them.    *)
PackagesInv ==
  /\ phase \notin {"generating", "checking", "initialized"} => packages = <<>>
  /\ \A i \in DOMAIN packages : packages[i] = NewDataKey(settings)
  /\ packages # <<>> => Generates(settings)
  /\ phase = "generating" => Len(packages) < 2
  /\ phase = "checking" => packages # <<>>

RecoveryInv ==
  /\ committed # None => committed[1].context = committed[2].context
  /\ phase \in {"opening primary", "opening backup", "serve failed"} => committed # None
  /\ phase = "serve failed" => ~Opens(settings, committed[2])

IndInv == TypeOK /\ SettingsInv /\ PackagesInv /\ RecoveryInv

-----------------------------------------------------------------------------
(* A key size that KMS accepts is one that AES-GCM takes, when there is a  *)
(* key spec, as there is in all settings.                                  *)
LEMMA KeySizeType ==
  ASSUME NEW s \in Environments, s.keySpec # None,
         KmsKeySize(s.keySpec, s.bytes) # None
  PROVE  KmsKeySize(s.keySpec, s.bytes) \in {16, 32}
  BY DEF Environments, KeySpecs, ByteSizes, KmsKeySize

LEMMA GeneratesSize ==
  ASSUME NEW s, Generates(s)
  PROVE  KmsKeySize(s.keySpec, s.bytes) # None
  BY DEF Generates, LocalGenerates, NitroGenerates, DataKeyBits

LEMMA EffectiveType ==
  ASSUME NEW s \in Environments, s.context # "malformed"
  PROVE  Effective(s.context) \in Contexts \cup {None}
  BY DEF Environments, ContextValues, Effective

LEMMA NewDataKeyType ==
  ASSUME NEW s \in Environments, s.keySpec # None, s.context # "malformed", Generates(s)
  PROVE  NewDataKey(s) \in DataKeys
<1>1. KmsKeySize(s.keySpec, s.bytes) \in {16, 32}
  BY GeneratesSize, KeySizeType
<1>2. Effective(None) = None
  BY NoneAssumption DEF Effective
<1>3. QED
  BY <1>1, <1>2, EffectiveType DEF NewDataKey, DataKey, DataKeys

(* The heart of it: a package that a client could generate under some      *)
(* settings opens in that client under these settings.                     *)
LEMMA GeneratedOpens ==
  ASSUME NEW s \in Environments, s.keySpec # None, s.context # "malformed", Generates(s)
  PROVE  Opens(s, NewDataKey(s))
<1>1. NewDataKey(s).length \in {16, 32}
  BY NewDataKeyType DEF DataKeys
<1>2. CASE client = "local"
  <2>1. NewDataKey(s).context = Effective(s.context)
    BY <1>2 DEF NewDataKey, DataKey
  <2>2. QED
    BY <1>1, <1>2, <2>1 DEF Opens, Generates, LocalGenerates, LocalDecrypts
<1>3. CASE client # "local"
  <2>1. NewDataKey(s).context = Effective(s.context)
    BY <1>3 DEF NewDataKey, DataKey, Generates, NitroGenerates
  <2>2. QED
    BY <1>1, <1>3, <2>1 DEF Opens, Generates, NitroGenerates, NitroDecrypts
<1>4. QED
  BY <1>2, <1>3

LEMMA FromEnvType ==
  ASSUME NEW options \in Environments, FromEnvAccepts(options)
  PROVE  /\ FromEnv(options) \in Environments
         /\ FromEnv(options).keySpec # None
         /\ FromEnv(options).context # "malformed"
  BY NoneAssumption DEF Environments, KeySpecs, FromEnvAccepts, FromEnv

LEMMA UnsetType == Unset \in Environments
  BY DEF Unset, Environments, KeySpecs, ByteSizes, ContextValues, DryRuns

LEMMA SlotsAre == Slots = {1, 2}
  BY DEF Slots

LEMMA EmptyPackages == <<>> \in Seq(DataKeys) /\ Len(<<>>) = 0 /\ DOMAIN <<>> = {}
  OBVIOUS

(* A run that has stored nothing says nothing of packages.                 *)
LEMMA NoPackages ==
  ASSUME packages' = <<>>, phase' # "checking"
  PROVE  PackagesInv' /\ packages' \in Seq(DataKeys) /\ Len(packages') <= 2
  BY EmptyPackages DEF PackagesInv

(* PackagesInv once more, after a step that leaves packages, client and    *)
(* settings alone.                                                         *)
LEMMA SamePackages ==
  ASSUME PackagesInv, UNCHANGED <<client, settings, packages>>,
         phase' \notin {"generating", "checking", "initialized"} => packages = <<>>,
         phase' = "generating" => Len(packages) < 2,
         phase' = "checking" => packages # <<>>
  PROVE  PackagesInv'
<1>1. NewDataKey(settings)' = NewDataKey(settings) /\ Generates(settings)' = Generates(settings)
  BY DEF NewDataKey, Generates
<1>2. QED
  BY <1>1 DEF PackagesInv

LEMMA InitInv == Init => IndInv
<1> SUFFICES ASSUME Init PROVE IndInv
  OBVIOUS
<1>1. TypeOK
  BY UnsetType DEF Init, TypeOK, Clients
<1>2. PackagesInv
  BY EmptyPackages DEF Init, PackagesInv
<1>3. QED
  BY <1>1, <1>2 DEF Init, IndInv, SettingsInv, RecoveryInv

LEMMA StepInv == IndInv /\ [Next]_vars => IndInv'
<1> SUFFICES ASSUME IndInv, [Next]_vars PROVE IndInv'
  OBVIOUS
<1> USE DEF IndInv, Ended
<1>1. ASSUME NEW options \in Environments, NEW kind \in Clients, Configure(options, kind)
      PROVE  IndInv'
  <2>1. packages = <<>>
    BY <1>1 DEF Configure, PackagesInv
  <2>2. PackagesInv'
    BY <1>1, <2>1, NoPackages DEF Configure
  <2>3. QED
    BY <1>1, <2>2 DEF Configure, TypeOK, SettingsInv, RecoveryInv
<1>2. CASE StartBroker
  <2>1. TypeOK' /\ SettingsInv'
    BY <1>2, FromEnvType DEF StartBroker, TypeOK, SettingsInv
  <2>2. packages' = <<>>
    BY <1>2 DEF StartBroker, PackagesInv
  <2>3. PackagesInv'
    BY <1>2, <2>2, NoPackages DEF StartBroker
  <2>4. QED
    BY <1>2, <2>1, <2>3 DEF StartBroker, RecoveryInv
<1>3. CASE StartTee
  <2>1. packages = <<>>
    BY <1>3 DEF StartTee, PackagesInv
  <2>2. PackagesInv'
    BY <1>3, <2>1, NoPackages DEF StartTee
  <2>3. QED
    BY <1>3, <2>2 DEF StartTee, TypeOK, SettingsInv, RecoveryInv
<1>4. CASE GenerateDataKey
  <2>1. CASE Generates(settings) /\ phase' = "checking" /\ packages' = Append(packages, NewDataKey(settings))
    <3>1. NewDataKey(settings) \in DataKeys
      BY <1>4, <2>1, NewDataKeyType DEF GenerateDataKey, TypeOK, SettingsInv
    <3>2. packages \in Seq(DataKeys) /\ Len(packages) < 2
      BY <1>4 DEF GenerateDataKey, TypeOK, PackagesInv
    <3>3. /\ packages' \in Seq(DataKeys)
          /\ Len(packages') = Len(packages) + 1
          /\ packages' # <<>>
      BY <2>1, <3>1, <3>2
    <3>4. \A i \in DOMAIN packages' : packages'[i] = NewDataKey(settings)
      <4>1. ASSUME NEW i \in DOMAIN packages'
            PROVE  packages'[i] = NewDataKey(settings)
        <5>1. i \in 1..Len(packages) + 1
          BY <2>1, <3>1, <3>2, <4>1
        <5>2. CASE i \in 1..Len(packages)
          <6>1. packages'[i] = packages[i]
            BY <2>1, <3>1, <3>2, <5>2
          <6>2. i \in DOMAIN packages
            BY <3>2, <5>2
          <6>3. QED
            BY <6>1, <6>2 DEF PackagesInv
        <5>3. CASE i = Len(packages) + 1
          BY <2>1, <3>1, <3>2, <5>3
        <5>4. QED
          BY <3>2, <5>1, <5>2, <5>3
      <4>2. QED
        BY <4>1
    <3>5. Generates(settings)' /\ NewDataKey(settings)' = NewDataKey(settings)
      BY <1>4, <2>1 DEF GenerateDataKey, Generates, NewDataKey
    <3>6. PackagesInv'
      BY <2>1, <3>3, <3>4, <3>5 DEF PackagesInv
    <3>7. TypeOK'
      BY <1>4, <2>1, <3>2, <3>3 DEF GenerateDataKey, TypeOK
    <3>8. QED
      BY <1>4, <2>1, <3>6, <3>7 DEF GenerateDataKey, SettingsInv, RecoveryInv
  <2>2. CASE ~Generates(settings) /\ phase' = "init-key failed" /\ UNCHANGED packages
    <3>1. packages = <<>>
      BY <2>2 DEF PackagesInv
    <3>2. PackagesInv'
      BY <2>2, <3>1, NoPackages
    <3>3. QED
      BY <1>4, <2>2, <3>2 DEF GenerateDataKey, TypeOK, SettingsInv, RecoveryInv
  <2>3. QED
    BY <1>4, <2>1, <2>2 DEF GenerateDataKey
<1>5. CASE CheckPackage
  <2>1. packages # <<>> /\ Generates(settings)
    BY <1>5 DEF CheckPackage, PackagesInv
  <2>2. packages \in Seq(DataKeys) /\ Len(packages) \in 1..2
    <3>1. packages \in Seq(DataKeys) /\ Len(packages) <= 2
      BY DEF TypeOK
    <3>2. Len(packages) \in Nat /\ Len(packages) # 0
      BY ONLY <2>1, <3>1, EmptySeq, LenProperties
    <3>3. \A n \in Nat : n # 0 /\ n <= 2 => n \in 1..2
      BY ONLY SMT
    <3>4. QED
      BY ONLY <3>1, <3>2, <3>3, Zenon
  <2>3. packages[Len(packages)] = NewDataKey(settings)
    BY <2>2 DEF PackagesInv
  <2>4. Opens(settings, packages[Len(packages)])
    BY <1>5, <2>1, <2>3, GeneratedOpens DEF CheckPackage, TypeOK, SettingsInv
  <2>5. CASE Len(packages) < 2
    <3>1. phase' = "generating" /\ UNCHANGED <<env, client, settings, packages, committed>>
      BY <1>5, <2>4, <2>5 DEF CheckPackage, AnotherKey
    <3>2. PackagesInv'
      BY <2>5, <3>1, SamePackages
    <3>3. QED
      BY <1>5, <3>1, <3>2 DEF CheckPackage, TypeOK, SettingsInv, RecoveryInv
  <2>6. CASE ~(Len(packages) < 2)
    <3>1. /\ phase' = "initialized" /\ committed' = packages
          /\ UNCHANGED <<env, client, settings, packages>>
      BY <1>5, <2>4, <2>6 DEF CheckPackage, AnotherKey
    <3>2. Len(packages) = 2
      BY ONLY <2>2, <2>6
    <3>3. packages \in [Slots -> DataKeys] /\ 1 \in DOMAIN packages /\ 2 \in DOMAIN packages
      <4>1. packages \in [1..Len(packages) -> DataKeys]
        BY ONLY <2>2, LenProperties, Zenon
      <4>2. packages \in [1..2 -> DataKeys]
        BY ONLY <4>1, <3>2, Zenon
      <4>3. DOMAIN packages = 1..2
        BY ONLY <4>2, Zenon
      <4>4. QED
        BY ONLY <4>2, <4>3 DEF Slots
    <3>4. packages[1].context = packages[2].context
      BY <3>3 DEF PackagesInv
    <3>5. PackagesInv'
      BY <3>1, SamePackages
    <3>6. QED
      BY <1>5, <3>1, <3>3, <3>4, <3>5 DEF CheckPackage, TypeOK, SettingsInv, RecoveryInv
  <2>7. QED
    BY <2>5, <2>6
<1>6. ASSUME NEW slot \in Slots, OpenPackage(slot)
      PROVE  IndInv'
  <2>1. /\ phase \in {"opening primary", "opening backup"}
        /\ phase' \in {"serving", "opening backup", "serve failed"}
        /\ UNCHANGED <<env, client, settings, packages, committed>>
    BY <1>6, SlotsAre DEF OpenPackage
  <2>2. packages' = <<>>
    BY <2>1 DEF PackagesInv
  <2>3. PackagesInv'
    BY <2>1, <2>2, NoPackages
  <2>4. phase' = "serve failed" => ~Opens(settings, committed[2])
    BY <1>6, SlotsAre DEF OpenPackage
  <2>5. Opens(settings, committed[2])' = Opens(settings, committed[2])
    BY <2>1 DEF Opens
  <2>6. QED
    BY <2>1, <2>3, <2>4, <2>5 DEF TypeOK, SettingsInv, RecoveryInv
<1>7. CASE StartOver
  <2>1. PackagesInv' /\ packages' \in Seq(DataKeys) /\ Len(packages') <= 2
    BY <1>7, NoPackages DEF StartOver
  <2>2. QED
    BY <1>7, <2>1, UnsetType DEF StartOver, TypeOK, Clients, SettingsInv, RecoveryInv
<1>8. CASE UNCHANGED vars
  <2>1. PackagesInv'
    BY <1>8, SamePackages DEF vars, PackagesInv
  <2>2. Opens(settings, committed[2])' = Opens(settings, committed[2])
    BY <1>8 DEF vars, Opens
  <2>3. QED
    BY <1>8, <2>1, <2>2 DEF vars, TypeOK, SettingsInv, RecoveryInv
<1>9. QED
  BY <1>1, <1>2, <1>3, <1>4, <1>5, <1>6, <1>7, <1>8 DEF Next

(* The conditions behind both properties hold in every reachable state.    *)
THEOREM Invariance == Spec => []IndInv
  BY InitInv, StepInv, PTL DEF Spec

(* Type correctness.                                                       *)
THEOREM TypeCorrect == Spec => []TypeOK
  BY Invariance, PTL DEF IndInv

(* init-key fails because of an option only before its first write.        *)
THEOREM FailsEarly == Spec => []OptionsFailEarly
<1>1. IndInv => OptionsFailEarly
  BY DEF IndInv, PackagesInv, OptionsFailEarly
<1>2. QED
  BY <1>1, Invariance, PTL

(* Recovery depends on the encryption context alone.                       *)
THEOREM ContextBinds == Spec => []OnlyContextBinds
<1>1. IndInv => OnlyContextBinds
  <2> SUFFICES ASSUME IndInv, phase = "serve failed", ~ClientRefuses
               PROVE  \A slot \in Slots : Effective(settings.context) # committed[slot].context
    BY DEF OnlyContextBinds
  <2>1. committed \in [Slots -> DataKeys] /\ ~Opens(settings, committed[2])
    BY DEF IndInv, TypeOK, RecoveryInv
  <2>2. settings \in Environments /\ settings.keySpec # None
    BY DEF IndInv, TypeOK, SettingsInv
  <2>3. committed[2].length \in {16, 32}
    <3>1. committed[2] \in DataKeys
      BY <2>1, SlotsAre
    <3>2. QED
      BY <3>1 DEF DataKeys
  <2>4. Effective(settings.context) # committed[2].context
    BY <2>1, <2>2, <2>3 DEF ClientRefuses, Opens, LocalDecrypts, NitroDecrypts, NitroOptions,
       KmsRequestSettings, IndInv, TypeOK, Clients, Environments, KeySpecs
  <2>5. committed[1].context = committed[2].context
    BY <2>1 DEF IndInv, RecoveryInv
  <2>6. QED
    BY <2>4, <2>5, SlotsAre
<1>2. QED
  BY <1>1, Invariance, PTL
=============================================================================
