----------------------------- MODULE OneTimeKey -----------------------------
(***************************************************************************)
(* What key provisioning promises, with nothing said of how: one public    *)
(* key at most is ever chosen, it is never replaced, and an enclave that   *)
(* announces a public key announces that one.                              *)
(***************************************************************************)
CONSTANTS
  Tees,        \* the enclave processes
  PublicKeys,  \* the public keys a process may generate
  None         \* "no key"

VARIABLES
  identity,    \* the chosen public key, or None
  announced    \* per process, the public key it announces, or None

vars == <<identity, announced>>

Init ==
  /\ identity \in PublicKeys \cup {None}
  /\ announced = [t \in Tees |-> None]

(* The key is chosen, once.                                                *)
Choose(key) ==
  /\ identity = None
  /\ identity' = key
  /\ UNCHANGED announced

(* A process announces the chosen key: at the end of init-key, or when it  *)
(* starts serving.                                                         *)
Announce(t) ==
  /\ identity # None
  /\ announced' = [announced EXCEPT ![t] = identity]
  /\ UNCHANGED identity

(* A process exits, is terminated or starts over.                          *)
Withdraw(t) ==
  /\ announced' = [announced EXCEPT ![t] = None]
  /\ UNCHANGED identity

Next ==
  \/ \E key \in PublicKeys : Choose(key)
  \/ \E t \in Tees : Announce(t) \/ Withdraw(t)

Spec == Init /\ [][Next]_vars
=============================================================================
