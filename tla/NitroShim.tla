----------------------------- MODULE NitroShim -----------------------------
(***************************************************************************)
(* native/nitro_kms_shim.c and its callers in nitro_kms.rs: which native   *)
(* objects a GenerateDataKey or Decrypt call acquires, in which order, and *)
(* how it releases them along every way out.  Any acquisition and any call *)
(* of the SDK may fail.  One call runs at a time: the tee awaits it.       *)
(*                                                                         *)
(* An object is what one variable of the code points to; the bytes of a    *)
(* response are known by whether there are any.                            *)
(***************************************************************************)
EXTENDS Integers

CONSTANTS
  None,  \* "no value"
  Error  \* the result of a call that failed

Kinds == {"generate", "decrypt"}

Strings == {"region", "access key id", "secret access key", "session token"}
State   == Strings \cup {"credentials", "client"}    \* struct nkms_client_state
Buffers == {"plaintext", "ciphertext"}               \* struct nkms_buffer
(* "argument" is the key ID or the encryption context; "plain" and         *)
(* "encrypted" are the buffers that the SDK fills.                         *)
Objects == State \cup Buffers \cup {"library", "argument", "plain", "encrypted"}

(* KMS answers a plaintext and, to generate, a ciphertext; either may be   *)
(* empty.                                                                  *)
Answers == [plain : {"bytes", "empty"}, encrypted : {"bytes", "empty"}]

ASSUME CallAssumption == None \notin Kinds \cup Answers \cup {Error}

VARIABLES
  call,    \* the call under way, or None
  at,      \* where it is
  points,  \* the pointers that are not NULL
  live,    \* per object, how many were acquired and not released
  answer,  \* what KMS answered, or None
  result   \* what the last call returned: an answer, Error or None

vars == <<call, at, points, live, answer, result>>

Init ==
  /\ call = None /\ at = "idle"
  /\ points = {}
  /\ live = [o \in Objects |-> 0]
  /\ answer = None /\ result = None

Acquire(got) ==
  /\ points' = points \cup got
  /\ live' = [o \in Objects |-> IF o \in got THEN live[o] + 1 ELSE live[o]]

(* Faulty variant: an object is released although it was never acquired.   *)
ReleaseUnchecked(names) ==
  /\ points' = points \ names
  /\ live' = [o \in Objects |-> IF o \in names THEN live[o] - 1 ELSE live[o]]

(* Every release is skipped for a NULL pointer.                            *)
Release(names) ==
  /\ points' = points \ names
  /\ live' = [o \in Objects |-> IF o \in names \cap points THEN live[o] - 1 ELSE live[o]]

(* A step that asks for some objects, and fails when it lacks any.         *)
Obtain(stage, wanted, next, failed) ==
  /\ at = stage
  /\ \E got \in SUBSET wanted :
       Acquire(got) /\ at' = IF got = wanted THEN next ELSE failed
  /\ UNCHANGED <<call, answer, result>>

-----------------------------------------------------------------------------
(* The caller converts its strings, and fails when one holds a NUL byte.   *)
Begin(kind) ==
  /\ at = "idle" /\ call = None
  /\ call' = kind
  /\ at' = "init"
  /\ answer' = None /\ result' = None
  /\ UNCHANGED <<points, live>>

NotConverted ==
  /\ at = "init"
  /\ at' = "idle" /\ call' = None /\ result' = Error
  /\ UNCHANGED <<points, live, answer>>

(* init_client.                                                            *)
InitLibrary ==
  /\ at = "init"
  /\ live' = [live EXCEPT !["library"] = @ + 1]
  /\ at' \in {"strings", "clean client"}        \* entropy was seeded, or not
  /\ UNCHANGED <<call, points, answer, result>>

MakeStrings     == Obtain("strings", Strings, "credentials", "clean client")
MakeCredentials == Obtain("credentials", {"credentials"}, "client", "clean client")
MakeClient      == Obtain("client", {"client"}, "argument", "clean client")

(* Decrypt has no argument without an encryption context.                  *)
MakeArgument ==
  \/ Obtain("argument", {"argument"}, "kms", "cleanup")
  \/ call = "decrypt" /\ Obtain("argument", {}, "kms", "cleanup")

(* The blocking call of the SDK.  A call that fails may have filled a      *)
(* buffer, and an empty buffer may have been allocated.  What Decrypt      *)
(* decrypts stays with the caller.                                         *)
CallKms ==
  /\ at = "kms"
  /\ \E got \in SUBSET {"plain", "encrypted"} :
       /\ call = "decrypt" => "encrypted" \notin got
       /\ Acquire(got)
       /\ \/ /\ answer' \in {a \in Answers : \A o \in {"plain", "encrypted"} :
                                               a[o] = "bytes" => o \in got}
             /\ at' = "copy plain"
          \/ at' = "cleanup" /\ UNCHANGED answer
  /\ UNCHANGED <<call, result>>

(* copy_buffer: nothing is allocated for an empty source.                  *)
Copies(source, target) == IF answer[source] = "bytes" THEN {target} ELSE {}

CopyPlain ==
  LET next   == IF call = "generate" THEN "copy encrypted" ELSE "copied"
      failed == IF call = "generate" THEN "not copied" ELSE "cleanup"
  IN  Obtain("copy plain", Copies("plain", "plaintext"), next, failed)

CopyEncrypted == Obtain("copy encrypted", Copies("encrypted", "ciphertext"), "copied", "not copied")

(* Faulty variant: the copy of the plaintext stays when that of the        *)
(* ciphertext fails.                                                       *)
FreeNoCopies ==
  /\ at = "not copied"
  /\ at' = "cleanup"
  /\ UNCHANGED <<call, points, live, answer, result>>

(* nkms_buffer_free on both copies, one of which was never made.           *)
FreeCopies ==
  /\ at = "not copied"
  /\ Release(Buffers)
  /\ at' = "cleanup"
  /\ UNCHANGED <<call, answer, result>>

-----------------------------------------------------------------------------
(* The ways out.  The code keeps in a local variable whether the copies    *)
(* were made; here it is part of where the call is.                        *)

Cleanup ==
  /\ at \in {"cleanup", "copied"}
  /\ Release({"plain", "encrypted", "argument"})
  /\ at' = IF at = "copied" THEN "clean client, copied" ELSE "clean client"
  /\ UNCHANGED <<call, answer, result>>

CleanState ==
  /\ at \in {"clean client", "clean client, copied"}
  /\ Release(State)
  /\ at' = IF at = "clean client" THEN "clean library" ELSE "clean library, copied"
  /\ UNCHANGED <<call, answer, result>>

CleanLibrary ==
  /\ at \in {"clean library", "clean library, copied"}
  /\ live' = [live EXCEPT !["library"] = @ - 1]
  /\ at' = IF at = "clean library" THEN "failed" ELSE "take"
  /\ UNCHANGED <<call, points, answer, result>>

(* The Rust caller: on an error it looks at neither buffer.                *)
ReturnError ==
  /\ at = "failed"
  /\ at' = "idle" /\ call' = None /\ result' = Error
  /\ UNCHANGED <<points, live, answer>>

(* take_native_buffer on both, which copies and frees.                     *)
Take ==
  /\ at = "take"
  /\ result' = [plain     |-> IF "plaintext" \in points THEN "bytes" ELSE "empty",
                encrypted |-> IF "ciphertext" \in points THEN "bytes" ELSE "empty"]
  /\ Release(Buffers)
  /\ at' = "idle" /\ call' = None
  /\ UNCHANGED answer

Next ==
  \/ \E kind \in Kinds : Begin(kind)
  \/ NotConverted \/ InitLibrary
  \/ MakeStrings \/ MakeCredentials \/ MakeClient \/ MakeArgument
  \/ CallKms \/ CopyPlain \/ CopyEncrypted \/ FreeCopies
  \/ Cleanup \/ CleanState \/ CleanLibrary \/ ReturnError \/ Take

Spec == Init /\ [][Next]_vars

-----------------------------------------------------------------------------
(* Properties.                                                             *)

TypeOK ==
  /\ call \in Kinds \cup {None}
  /\ at \in {"idle", "init", "strings", "credentials", "client", "argument", "kms",
             "copy plain", "copy encrypted", "not copied", "copied", "cleanup",
             "clean client", "clean client, copied", "clean library",
             "clean library, copied", "failed", "take"}
  /\ points \subseteq Objects
  /\ live \in [Objects -> {0, 1}]
  /\ answer \in Answers \cup {None}
  /\ result \in Answers \cup {None, Error}

NC == INSTANCE NativeCall WITH owned <- live, Malloced <- Buffers

(* Whatever fails, a call returns all that KMS answered or an error, and   *)
(* releases everything exactly once, SDK objects before the SDK itself.    *)
KeepsCallPromise == NC!Spec
=============================================================================
