-------------------------- MODULE NitroShimProofs --------------------------
(***************************************************************************)
(* Theorems about NitroShim: the C code and its callers keep NativeCall's  *)
(* promise.                                                                *)
(***************************************************************************)
EXTENDS NitroShim, TLAPS

Response == {"plain", "encrypted"}
Before   == {"init", "strings", "credentials", "client", "argument", "kms"}
Copied   == {"copied", "clean client, copied", "clean library, copied", "take"}
Outside  == {"idle", "init", "failed", "take"}   \* the SDK is not initialized

(* What may be held where the call is.  Nothing is acquired twice because  *)
(* a step acquires only what may not be held yet; nothing stays because    *)
(* every way out passes the steps that release what may be held.           *)
Held ==
  /\ at \in {"idle", "init", "strings", "failed", "clean library"} => points = {}
  /\ at = "credentials" => points \subseteq Strings
  /\ at = "client" => points \subseteq Strings \cup {"credentials"}
  /\ at \in {"argument", "clean client"} => points \subseteq State
  /\ at = "kms" => points \subseteq State \cup {"argument"}
  /\ at \in {"copy plain", "cleanup"} => points \subseteq State \cup {"argument"} \cup Response
  /\ at = "copy encrypted" =>
       points \subseteq State \cup {"argument", "plaintext"} \cup Response
  /\ at \in {"not copied", "copied"} =>
       points \subseteq State \cup {"argument"} \cup Response \cup Buffers
  /\ at = "clean client, copied" => points \subseteq State \cup Buffers
  /\ at \in {"clean library, copied", "take"} => points \subseteq Buffers

(* The pointers tell what is owned.                                        *)
Counted ==
  live = [o \in Objects |->
            IF o = "library" THEN IF at \in Outside THEN 0 ELSE 1
            ELSE IF o \in points THEN 1 ELSE 0]

(* What was copied is what KMS answered.                                   *)
Carried ==
  /\ at \in Before => answer = None
  /\ at \in {"copy plain", "copy encrypted"} \cup Copied => answer \in Answers
  /\ at = "copy plain" /\ call = "decrypt" => answer.encrypted = "empty"
  /\ at = "copy encrypted" =>
       /\ call = "generate"
       /\ "plaintext" \in points <=> answer.plain = "bytes"
  /\ at \in Copied => /\ "plaintext" \in points <=> answer.plain = "bytes"
                      /\ "ciphertext" \in points <=> answer.encrypted = "bytes"

IndInv ==
  /\ call \in Kinds \cup {None} /\ (call = None <=> at = "idle")
  /\ at \in {"idle", "init", "strings", "credentials", "client", "argument", "kms",
             "copy plain", "copy encrypted", "not copied", "copied", "cleanup",
             "clean client", "clean client, copied", "clean library",
             "clean library, copied", "failed", "take"}
  /\ points \subseteq Objects \ {"library"}
  /\ answer \in Answers \cup {None}
  /\ result \in Answers \cup {None, Error}
  /\ Held /\ Counted /\ Carried

-----------------------------------------------------------------------------

LEMMA InvTypes == IndInv => TypeOK
  BY DEF IndInv, Counted, TypeOK, Objects

LEMMA InitInv == Init => IndInv
  BY CallAssumption DEF Init, IndInv, Held, Counted, Carried, Before, Copied, Outside

(* A step that acquires objects leaves the count right when none of them   *)
(* was held.                                                               *)
LEMMA ObtainInv ==
  ASSUME IndInv, NEW stage, NEW wanted \in SUBSET (Objects \ {"library"}), NEW next, NEW failed,
         Obtain(stage, wanted, next, failed), points \cap wanted = {},
         at \notin Outside, next \notin Outside, failed \notin Outside
  PROVE  /\ Counted' /\ points \subseteq points'
         /\ \/ at' = next /\ points' = points \cup wanted
            \/ at' = failed /\ points' \subseteq points \cup wanted /\ points' # points \cup wanted
         /\ points' \subseteq Objects \ {"library"}
         /\ UNCHANGED <<call, answer, result>>
<1>1. PICK got \in SUBSET wanted :
        Acquire(got) /\ at' = IF got = wanted THEN next ELSE failed
  BY DEF Obtain
<1>2. points' = points \cup got /\ got \cap points = {} /\ "library" \notin got
  BY <1>1 DEF Acquire
<1>3. Counted'
  <2>1. \A o \in Objects : live[o] = IF o = "library" \/ o \in points THEN 1 ELSE 0
    BY DEF Counted, IndInv
  <2>2. \A o \in Objects : (IF o \in got THEN live[o] + 1 ELSE live[o])
                            = IF o = "library" \/ o \in points' THEN 1 ELSE 0
    BY <1>2, <2>1
  <2>3. live' = [o \in Objects |-> IF o = "library" \/ o \in points' THEN 1 ELSE 0]
    BY <1>1, <2>2 DEF Acquire
  <2>4. at' \notin Outside
    BY <1>1
  <2>5. QED
    BY <2>3, <2>4 DEF Counted
<1>4. QED
  BY <1>1, <1>2, <1>3 DEF Obtain, IndInv

(* And a step that releases what it finds.                                 *)
LEMMA ReleaseInv ==
  ASSUME IndInv, NEW names \in SUBSET (Objects \ {"library"}), Release(names),
         at' \in Outside <=> at \in Outside
  PROVE  /\ Counted' /\ points' = points \ names
         /\ points' \subseteq Objects \ {"library"}
<1>1. points' = points \ names /\ "library" \notin names
  BY DEF Release
<1>2. \A o \in Objects :
        live[o] = IF o = "library" THEN IF at \in Outside THEN 0 ELSE 1
                  ELSE IF o \in points THEN 1 ELSE 0
  BY DEF Counted, IndInv
<1>3. \A o \in Objects :
        (IF o \in names \cap points THEN live[o] - 1 ELSE live[o])
        = IF o = "library" THEN IF at' \in Outside THEN 0 ELSE 1
          ELSE IF o \in points' THEN 1 ELSE 0
  BY <1>1, <1>2
<1>4. Counted'
  BY <1>3 DEF Release, Counted
<1>5. QED
  BY <1>1, <1>4 DEF IndInv

(* And the two that initialize the SDK and clean it up.                    *)
LEMMA LibraryStep ==
  ASSUME IndInv, UNCHANGED points,
         \/ /\ live' = [live EXCEPT !["library"] = @ + 1]
            /\ at \in Outside /\ at' \notin Outside
         \/ /\ live' = [live EXCEPT !["library"] = @ - 1]
            /\ at \notin Outside /\ at' \in Outside
  PROVE  Counted'
<1>1. "library" \in Objects
  BY DEF Objects
<1>2. /\ live["library"] = IF at \in Outside THEN 0 ELSE 1
      /\ \A o \in Objects \ {"library"} : live[o] = IF o \in points THEN 1 ELSE 0
      /\ live = [o \in Objects |-> live[o]]
  BY <1>1 DEF Counted, IndInv
<1>3. \A o \in Objects :
        live'[o] = IF o = "library" THEN IF at' \in Outside THEN 0 ELSE 1
                   ELSE IF o \in points' THEN 1 ELSE 0
  BY <1>1, <1>2
<1>4. live' = [o \in Objects |-> live'[o]]
  BY <1>2
<1>5. QED
  BY <1>3, <1>4 DEF Counted

LEMMA Wanted ==
  /\ {Strings, {"credentials"}, {"client"}, {"argument"}, {"plaintext"}, {"ciphertext"}, {}}
       \subseteq SUBSET (Objects \ {"library"})
  /\ {State, Buffers, Response \cup {"argument"}} \subseteq SUBSET (Objects \ {"library"})
  BY DEF Strings, State, Buffers, Response, Objects

LEMMA Inside ==
  \A stage \in {"strings", "credentials", "client", "argument", "kms", "copy plain",
                "copy encrypted", "not copied", "copied", "cleanup", "clean client",
                "clean client, copied", "clean library", "clean library, copied"} :
    stage \notin Outside
  BY DEF Outside

(* Between init_client and the call of the SDK.                            *)
LEMMA PrepareInv ==
  ASSUME IndInv, MakeStrings \/ MakeCredentials \/ MakeClient \/ MakeArgument
  PROVE  IndInv'
<1>1. CASE MakeStrings
  <2>1. points \cap Strings = {} /\ at = "strings"
    BY <1>1 DEF MakeStrings, Obtain, IndInv, Held
  <2>2. /\ Counted' /\ points' \subseteq Objects \ {"library"} /\ UNCHANGED <<call, answer, result>>
        /\ \/ at' = "credentials" /\ points' = points \cup Strings
           \/ at' = "clean client" /\ points' \subseteq points \cup Strings
    BY <1>1, <2>1, Wanted, Inside, ObtainInv DEF MakeStrings
  <2>3. QED
    BY <2>1, <2>2 DEF IndInv, Held, Carried, State, Before, Copied
<1>2. CASE MakeCredentials
  <2>1. points \cap {"credentials"} = {} /\ at = "credentials"
    BY <1>2 DEF MakeCredentials, Obtain, IndInv, Held, Strings
  <2>2. /\ Counted' /\ points' \subseteq Objects \ {"library"} /\ UNCHANGED <<call, answer, result>>
        /\ \/ at' = "client" /\ points' = points \cup {"credentials"}
           \/ at' = "clean client" /\ points' \subseteq points \cup {"credentials"}
    BY <1>2, <2>1, Wanted, Inside, ObtainInv DEF MakeCredentials
  <2>3. QED
    BY <2>1, <2>2 DEF IndInv, Held, Carried, State, Before, Copied
<1>3. CASE MakeClient
  <2>1. points \cap {"client"} = {} /\ at = "client"
    BY <1>3 DEF MakeClient, Obtain, IndInv, Held, Strings
  <2>2. /\ Counted' /\ points' \subseteq Objects \ {"library"} /\ UNCHANGED <<call, answer, result>>
        /\ \/ at' = "argument" /\ points' = points \cup {"client"}
           \/ at' = "clean client" /\ points' \subseteq points \cup {"client"}
    BY <1>3, <2>1, Wanted, Inside, ObtainInv DEF MakeClient
  <2>3. QED
    BY <2>1, <2>2 DEF IndInv, Held, Carried, State, Before, Copied
<1>4. CASE MakeArgument
  <2>1. points \cap {"argument"} = {} /\ at = "argument"
    BY <1>4 DEF MakeArgument, Obtain, IndInv, Held, State, Strings
  <2>2. PICK wanted \in {{"argument"}, {}} : Obtain("argument", wanted, "kms", "cleanup")
    BY <1>4 DEF MakeArgument
  <2>3. wanted \in SUBSET (Objects \ {"library"}) /\ points \cap wanted = {}
    BY <2>1, Wanted
  <2>4. /\ Counted' /\ points' \subseteq Objects \ {"library"} /\ UNCHANGED <<call, answer, result>>
        /\ \/ at' = "kms" /\ points' = points \cup wanted
           \/ at' = "cleanup" /\ points' \subseteq points \cup wanted
    BY <2>1, <2>2, <2>3, Inside, ObtainInv
  <2>5. QED
    BY <2>1, <2>4 DEF IndInv, Held, Carried, Before, Copied
<1>5. QED
  BY <1>1, <1>2, <1>3, <1>4

LEMMA CallInv == IndInv /\ CallKms => IndInv'
<1>1. SUFFICES ASSUME IndInv, CallKms PROVE IndInv'
  OBVIOUS
<1>2. PICK got \in SUBSET Response :
        /\ call = "decrypt" => "encrypted" \notin got
        /\ Acquire(got)
        /\ \/ /\ answer' \in {a \in Answers : \A o \in Response : a[o] = "bytes" => o \in got}
              /\ at' = "copy plain"
           \/ at' = "cleanup" /\ UNCHANGED answer
  BY <1>1 DEF CallKms, Response
<1>3. /\ at = "kms" /\ points' = points \cup got /\ got \cap points = {} /\ "library" \notin got
      /\ UNCHANGED <<call, result>>
  BY <1>1, <1>2 DEF CallKms, Acquire, IndInv, Held, State, Strings, Response
<1>4. Counted'
  <2>1. at \notin Outside /\ at' \notin Outside
    BY <1>2, <1>3, Inside
  <2>2. \A o \in Objects : live[o] = IF o = "library" \/ o \in points THEN 1 ELSE 0
    BY <1>1, <2>1 DEF Counted, IndInv
  <2>3. \A o \in Objects : (IF o \in got THEN live[o] + 1 ELSE live[o])
                            = IF o = "library" \/ o \in points' THEN 1 ELSE 0
    BY <1>3, <2>2
  <2>4. live' = [o \in Objects |-> IF o = "library" \/ o \in points' THEN 1 ELSE 0]
    BY <1>2, <2>3 DEF Acquire
  <2>5. QED
    BY <2>1, <2>4 DEF Counted
<1>5. answer' \in Answers \cup {None} /\ (at' = "copy plain" => answer' \in Answers)
  BY <1>1, <1>2 DEF IndInv
<1>6. at' = "copy plain" /\ call = "decrypt" => answer'.encrypted = "empty"
  BY <1>2 DEF Answers, Response
<1>7. Carried'
  BY <1>2, <1>3, <1>5, <1>6 DEF Carried, Before, Copied
<1>8. points' \subseteq Objects \ {"library"}
  BY <1>1, <1>3 DEF IndInv, Objects, Response
<1>9. QED
  BY <1>1, <1>2, <1>3, <1>4, <1>5, <1>7, <1>8 DEF IndInv, Held

LEMMA CopyInv ==
  ASSUME IndInv, CopyPlain \/ CopyEncrypted
  PROVE  IndInv'
<1>1. CASE CopyPlain
  <2> DEFINE wanted == Copies("plain", "plaintext")
  <2> DEFINE next   == IF call = "generate" THEN "copy encrypted" ELSE "copied"
  <2> DEFINE failed == IF call = "generate" THEN "not copied" ELSE "cleanup"
  <2>1. at = "copy plain" /\ wanted \subseteq {"plaintext"} /\ Obtain("copy plain", wanted, next, failed)
    BY <1>1 DEF CopyPlain, Obtain, Copies
  <2>2. "plaintext" \notin points /\ "ciphertext" \notin points
    BY <2>1 DEF IndInv, Held, State, Strings, Response
  <2>3. wanted \in SUBSET (Objects \ {"library"}) /\ points \cap wanted = {}
    BY <2>1, <2>2, Wanted
  <2>4. at \notin Outside /\ next \notin Outside /\ failed \notin Outside
    BY <2>1, Inside
  <2>5. /\ Counted' /\ points \subseteq points'
        /\ \/ at' = next /\ points' = points \cup wanted
           \/ at' = failed /\ points' \subseteq points \cup wanted /\ points' # points \cup wanted
        /\ points' \subseteq Objects \ {"library"}
        /\ UNCHANGED <<call, answer, result>>
    BY <2>1, <2>3, <2>4, ObtainInv
  <2>6. answer \in Answers /\ wanted = IF answer.plain = "bytes" THEN {"plaintext"} ELSE {}
    BY <2>1 DEF IndInv, Carried, Copies
  <2>7. CASE at' = next /\ points' = points \cup wanted
    <3>1. "plaintext" \in points' <=> answer.plain = "bytes"
      BY <2>2, <2>6, <2>7
    <3>2. "ciphertext" \notin points' /\ (call = "decrypt" => answer.encrypted = "empty")
      BY <2>1, <2>2, <2>6, <2>7 DEF IndInv, Carried
    <3>3. call \in Kinds
      BY <2>1 DEF IndInv
    <3>4. Carried'
      BY <2>5, <2>6, <2>7, <3>1, <3>2, <3>3 DEF Carried, Before, Copied, Kinds
    <3>5. Held'
      BY <2>1, <2>6, <2>7 DEF IndInv, Held, Buffers
    <3>6. QED
      BY <2>1, <2>5, <2>7, <3>4, <3>5 DEF IndInv
  <2>8. CASE at' = failed /\ points' # points \cup wanted
    <3>1. points' = points
      BY <2>1, <2>2, <2>5, <2>8
    <3>2. QED
      BY <2>1, <2>5, <2>8, <3>1 DEF IndInv, Held, Carried, Before, Copied
  <2>9. QED
    BY <2>5, <2>7, <2>8
<1>2. CASE CopyEncrypted
  <2> DEFINE wanted == Copies("encrypted", "ciphertext")
  <2>1. at = "copy encrypted" /\ wanted \subseteq {"ciphertext"}
        /\ Obtain("copy encrypted", wanted, "copied", "not copied")
    BY <1>2 DEF CopyEncrypted, Obtain, Copies
  <2>2. "ciphertext" \notin points
    BY <2>1 DEF IndInv, Held, State, Strings, Response
  <2>3. wanted \in SUBSET (Objects \ {"library"}) /\ points \cap wanted = {}
    BY <2>1, <2>2, Wanted
  <2>4. /\ Counted' /\ points \subseteq points'
        /\ \/ at' = "copied" /\ points' = points \cup wanted
           \/ at' = "not copied" /\ points' \subseteq points \cup wanted
        /\ points' \subseteq Objects \ {"library"}
        /\ UNCHANGED <<call, answer, result>>
    BY <2>1, <2>3, Inside, ObtainInv
  <2>5. answer \in Answers /\ wanted = IF answer.encrypted = "bytes" THEN {"ciphertext"} ELSE {}
    BY <2>1 DEF IndInv, Carried, Copies
  <2>6. Carried'
    BY <2>1, <2>2, <2>4, <2>5 DEF IndInv, Carried, Before, Copied
  <2>7. QED
    BY <2>1, <2>4, <2>5, <2>6 DEF IndInv, Held, Buffers
<1>3. QED
  BY <1>1, <1>2

LEMMA WayOutInv ==
  ASSUME IndInv, FreeCopies \/ Cleanup \/ CleanState \/ CleanLibrary \/ ReturnError \/ Take
  PROVE  IndInv'
<1>1. CASE FreeCopies
  <2>1. at = "not copied" /\ at' = "cleanup" /\ Release(Buffers) /\ UNCHANGED <<call, answer, result>>
    BY <1>1 DEF FreeCopies
  <2>2. Counted' /\ points' = points \ Buffers /\ points' \subseteq Objects \ {"library"}
    BY <2>1, Wanted, Inside, ReleaseInv
  <2>3. QED
    BY <2>1, <2>2 DEF IndInv, Held, Carried, Before, Copied
<1>2. CASE Cleanup
  <2> DEFINE names == {"plain", "encrypted", "argument"}
  <2>1. /\ at \in {"cleanup", "copied"} /\ Release(names) /\ UNCHANGED <<call, answer, result>>
        /\ at' = IF at = "copied" THEN "clean client, copied" ELSE "clean client"
    BY <1>2 DEF Cleanup
  <2>2. names \in SUBSET (Objects \ {"library"}) /\ names = Response \cup {"argument"}
    BY DEF Objects, Response
  <2>3. Counted' /\ points' = points \ names /\ points' \subseteq Objects \ {"library"}
    BY <2>1, <2>2, Inside, ReleaseInv
  <2>4. "plaintext" \notin names /\ "ciphertext" \notin names
    OBVIOUS
  <2>5. Carried'
    BY <2>1, <2>3, <2>4 DEF IndInv, Carried, Before, Copied
  <2>6. Held'
    BY <2>1, <2>2, <2>3 DEF IndInv, Held
  <2>7. QED
    BY <2>1, <2>3, <2>5, <2>6 DEF IndInv
<1>3. CASE CleanState
  <2>1. /\ at \in {"clean client", "clean client, copied"} /\ Release(State)
        /\ UNCHANGED <<call, answer, result>>
        /\ at' = IF at = "clean client" THEN "clean library" ELSE "clean library, copied"
    BY <1>3 DEF CleanState
  <2>2. Counted' /\ points' = points \ State /\ points' \subseteq Objects \ {"library"}
    BY <2>1, Wanted, Inside, ReleaseInv
  <2>3. "plaintext" \notin State /\ "ciphertext" \notin State
    BY DEF State, Strings
  <2>4. Carried'
    BY <2>1, <2>2, <2>3 DEF IndInv, Carried, Before, Copied
  <2>5. Held'
    BY <2>1, <2>2 DEF IndInv, Held
  <2>6. QED
    BY <2>1, <2>2, <2>4, <2>5 DEF IndInv
<1>4. CASE CleanLibrary
  <2>1. /\ at \in {"clean library", "clean library, copied"} /\ UNCHANGED <<call, points, answer, result>>
        /\ live' = [live EXCEPT !["library"] = @ - 1]
        /\ at' = IF at = "clean library" THEN "failed" ELSE "take"
    BY <1>4 DEF CleanLibrary
  <2>2. Counted'
    <3>1. "library" \in Objects /\ at \notin Outside /\ at' \in Outside
      BY <2>1, Inside DEF Objects, Outside
    <3>2. QED
      BY <2>1, <3>1, LibraryStep
  <2>3. QED
    BY <2>1, <2>2 DEF IndInv, Held, Carried, Before, Copied
<1>5. CASE ReturnError
  <2>1. Counted'
    BY <1>5 DEF ReturnError, IndInv, Counted, Outside
  <2>2. QED
    BY <1>5, <2>1 DEF ReturnError, IndInv, Held, Carried, Before, Copied
<1>6. CASE Take
  <2>1. at = "take" /\ at' = "idle" /\ Release(Buffers) /\ call' = None /\ UNCHANGED answer
    BY <1>6 DEF Take
  <2>2. Counted' /\ points' = points \ Buffers /\ points' \subseteq Objects \ {"library"}
    BY <2>1, Wanted, ReleaseInv DEF Outside
  <2>3. result' \in Answers
    BY <1>6 DEF Take, Answers
  <2>4. QED
    BY <2>1, <2>2, <2>3 DEF IndInv, Held, Carried, Before, Copied
<1>7. QED
  BY <1>1, <1>2, <1>3, <1>4, <1>5, <1>6

LEMMA BeginInv ==
  ASSUME IndInv, (\E kind \in Kinds : Begin(kind)) \/ NotConverted \/ InitLibrary
  PROVE  IndInv'
<1>1. ASSUME NEW kind \in Kinds, Begin(kind) PROVE IndInv'
  <2>1. Counted'
    BY <1>1 DEF Begin, IndInv, Counted, Outside
  <2>2. QED
    BY <1>1, <2>1, CallAssumption DEF Begin, IndInv, Held, Carried, Before, Copied
<1>2. CASE NotConverted
  <2>1. Counted'
    BY <1>2 DEF NotConverted, IndInv, Counted, Outside
  <2>2. QED
    BY <1>2, <2>1 DEF NotConverted, IndInv, Held, Carried, Before, Copied
<1>3. CASE InitLibrary
  <2>1. Counted'
    BY <1>3, Inside, LibraryStep DEF InitLibrary, Outside
  <2>2. QED
    BY <1>3, <2>1 DEF InitLibrary, IndInv, Held, Carried, Before, Copied
<1>4. QED
  BY <1>1, <1>2, <1>3

LEMMA StepInv == IndInv /\ [Next]_vars => IndInv'
<1>1. SUFFICES ASSUME IndInv, [Next]_vars PROVE IndInv'
  OBVIOUS
<1>2. CASE UNCHANGED vars
  <2>1. Held' /\ Carried'
    <3>1. Held'
      BY <1>1, <1>2 DEF vars, IndInv, Held
    <3>2. Carried'
      BY <1>1, <1>2 DEF vars, IndInv, Carried
    <3>3. QED
      BY <3>1, <3>2
  <2>2. Counted'
    BY <1>1, <1>2 DEF vars, IndInv, Counted
  <2>3. QED
    BY <1>1, <1>2, <2>1, <2>2 DEF vars, IndInv
<1>3. CASE Next
  BY <1>1, <1>3, BeginInv, PrepareInv, CallInv, CopyInv, WayOutInv DEF Next
<1>4. QED
  BY <1>1, <1>2, <1>3

LEMMA Invariant == Spec => []IndInv
  BY InitInv, StepInv, PTL DEF Spec

-----------------------------------------------------------------------------

(* TypeOK: no native object is ever owned twice or released once more than *)
(* it was acquired, along every way out of nitro_kms_shim.c.               *)
THEOREM TypeCorrect == Spec => []TypeOK
  BY InvTypes, Invariant, PTL

(* What the call owns is what NativeCall allows it to own.                 *)
OwnedIsAllowed ==
  /\ live \in [Objects -> {0, 1}]
  /\ live["library"] = 0 => \A o \in Objects \ Buffers : live[o] = 0
  /\ at \in {"idle", "init", "failed"} => live = NC!Nothing

LEMMA InvOwned == IndInv => OwnedIsAllowed
<1>1. SUFFICES ASSUME IndInv PROVE OwnedIsAllowed
  OBVIOUS
<1>2. live \in [Objects -> {0, 1}]
  BY <1>1 DEF IndInv, Counted
<1>3. ASSUME live["library"] = 0, NEW o \in Objects \ Buffers PROVE live[o] = 0
  <2>1. "library" \in Objects
    BY DEF Objects
  <2>2. at \in Outside
    <3>1. live["library"] = IF at \in Outside THEN 0 ELSE 1
      BY <1>1, <2>1 DEF IndInv, Counted
    <3>2. QED
      BY <1>3, <3>1
  <2>3. points \subseteq Buffers
    BY <1>1, <2>2 DEF IndInv, Held, Outside
  <2>4. QED
    BY <1>1, <1>3, <2>2, <2>3 DEF IndInv, Counted
<1>4. ASSUME at \in {"idle", "init", "failed"} PROVE live = NC!Nothing
  <2>1. points = {} /\ at \in Outside
    BY <1>1, <1>4 DEF IndInv, Held, Outside
  <2>2. QED
    BY <1>1, <2>1 DEF IndInv, Counted, NC!Nothing
<1>5. QED
  BY <1>2, <1>3, <1>4 DEF OwnedIsAllowed

(* The steps within a call.                                                *)
Within ==
  \/ InitLibrary \/ MakeStrings \/ MakeCredentials \/ MakeClient \/ MakeArgument
  \/ CallKms \/ CopyPlain \/ CopyEncrypted \/ FreeCopies
  \/ Cleanup \/ CleanState \/ CleanLibrary

(* KeepsCallPromise: each step is Begin, Work or End of NativeCall, or     *)
(* changes nothing that it sees.                                           *)
THEOREM KeepsPromise == Spec => KeepsCallPromise
<1>1. Init => NC!Init
  BY DEF Init, NC!Init, NC!Nothing
<1>2. IndInv /\ IndInv' /\ OwnedIsAllowed' /\ [Next]_vars => [NC!Next]_NC!vars
  <2>1. SUFFICES ASSUME IndInv, IndInv', OwnedIsAllowed', [Next]_vars
                 PROVE  [NC!Next]_NC!vars
    OBVIOUS
  <2>2. ASSUME NEW kind \in Kinds, Begin(kind) PROVE NC!Next
    BY <2>2 DEF Begin, NC!Next, NC!Begin
  <2>3. CASE NotConverted \/ ReturnError
    <3>1. call # None /\ call' = None /\ result' = Error /\ UNCHANGED answer /\ at' = "idle"
      BY <2>1, <2>3 DEF NotConverted, ReturnError, IndInv
    <3>2. live' = NC!Nothing
      BY <2>1, <3>1 DEF OwnedIsAllowed, NC!Nothing
    <3>3. QED
      BY <3>1, <3>2, CallAssumption DEF NC!Next, NC!End, NC!Nothing
  <2>4. CASE Within
    <3>1. call # None /\ UNCHANGED <<call, result>>
      BY <2>1, <2>4 DEF IndInv, Within, InitLibrary, MakeStrings, MakeCredentials, MakeClient,
         MakeArgument, CallKms, CopyPlain, CopyEncrypted, FreeCopies, Cleanup, CleanState,
         CleanLibrary, Obtain
    <3>2. CASE CallKms
      <4>1. answer = None /\ answer' \in Answers \cup {None}
        BY <2>1, <3>2 DEF CallKms, IndInv, Carried, Before
      <4>2. QED
        BY <2>1, <3>1, <4>1 DEF OwnedIsAllowed, NC!Next, NC!Work
    <3>3. CASE ~CallKms
      <4>1. UNCHANGED answer
        BY <2>4, <3>3 DEF Within, InitLibrary, MakeStrings, MakeCredentials, MakeClient,
           MakeArgument, CopyPlain, CopyEncrypted, FreeCopies, Cleanup, CleanState,
           CleanLibrary, Obtain
      <4>2. QED
        BY <2>1, <3>1, <4>1 DEF OwnedIsAllowed, NC!Next, NC!Work
    <3>4. QED
      BY <3>2, <3>3
  <2>5. CASE Take
    <3>1. at = "take" /\ call # None /\ call' = None /\ UNCHANGED answer /\ at' = "idle"
      BY <2>1, <2>5 DEF Take, IndInv
    <3>2. result' = answer
      BY <2>1, <2>5, <3>1 DEF Take, IndInv, Carried, Copied, Answers
    <3>3. answer # None
      BY <2>1, <3>1, CallAssumption DEF IndInv, Carried, Copied
    <3>4. live' = NC!Nothing
      BY <2>1, <3>1 DEF OwnedIsAllowed, NC!Nothing
    <3>5. QED
      BY <3>1, <3>2, <3>3, <3>4 DEF NC!Next, NC!End, NC!Nothing
  <2>6. CASE UNCHANGED vars
    BY <2>6 DEF vars, NC!vars
  <2>7. QED
    BY <2>1, <2>2, <2>3, <2>4, <2>5, <2>6 DEF Next, Within
<1>3. QED
  BY <1>1, <1>2, Invariant, InvOwned, PTL DEF Spec, KeepsCallPromise, NC!Spec
=============================================================================
