----------------------------- MODULE NativeCall -----------------------------
(***************************************************************************)
(* What a call of the Nitro KMS client promises to the Rust code, with     *)
(* nothing said of how the native code is built: it returns all that KMS   *)
(* answered or an error; while it runs, it owns every native object at     *)
(* most once, and those of the SDK only while the SDK is initialized; when *)
(* it is over it owns nothing.                                             *)
(***************************************************************************)
EXTENDS Naturals

CONSTANTS
  Kinds,    \* kinds of calls
  Objects,  \* native objects; "library" is the initialized SDK
  Malloced, \* those of them that do not belong to the SDK
  Answers,  \* what KMS may answer
  None,     \* "no value"
  Error     \* the result of a call that failed

VARIABLES
  call,    \* the kind of call under way, or None
  owned,   \* how often the call owns each object
  answer,  \* what KMS answered to it, or None
  result   \* of the last call: an answer, Error or None

vars == <<call, owned, answer, result>>

Nothing == [o \in Objects |-> 0]

Init == call = None /\ owned = Nothing /\ answer = None /\ result = None

Begin(kind) ==
  /\ call = None
  /\ call' = kind /\ answer' = None /\ result' = None
  /\ UNCHANGED owned

Work ==
  /\ call # None
  /\ owned' \in [Objects -> {0, 1}]
  /\ owned'["library"] = 0 => \A o \in Objects \ Malloced : owned'[o] = 0
  /\ answer' \in {answer} \cup (IF answer = None THEN Answers ELSE {})
  /\ UNCHANGED <<call, result>>

End ==
  /\ call # None
  /\ result' \in {answer, Error} \ {None}
  /\ call' = None
  /\ owned' = Nothing
  /\ UNCHANGED answer

Next == (\E kind \in Kinds : Begin(kind)) \/ Work \/ End

Spec == Init /\ [][Next]_vars
=============================================================================
