-------------------------- MODULE InitScriptProofs --------------------------
(***************************************************************************)
(* Theorems about InitScript, for every timeout and number of failures.    *)
(***************************************************************************)
EXTENDS InitScript, TLAPS

(* As long as no call failed, the script knows of a running enclave; the   *)
(* trap stops the broker before the enclave.                               *)
CleanupInv ==
  /\ failures = 0 /\ enclave = "running" => knows
  /\ at \in {"stop enclave", "end"} => broker # "running"
  /\ at = "end" /\ failures = 0 => enclave # "running"

IndInv == TypeOK /\ CleanupInv

(* A failed call stays counted.                                            *)
LEMMA FailureCounts ==
  ASSUME failures \in 0..MaxFailures, CallFails
  PROVE  failures' \in 0..MaxFailures /\ failures' # 0
  BY ScriptAssumption DEF CallFails

(* The loop sleeps only within the deadline.                               *)
LEMMA PollCounts ==
  ASSUME elapsed \in 0..Timeout, InTime, Sleep
  PROVE  elapsed' \in 0..Timeout
  BY ScriptAssumption DEF InTime, Sleep

LEMMA InitInv == Init => IndInv
<1> SUFFICES ASSUME Init PROVE IndInv
  OBVIOUS
<1>1. elapsed \in 0..Timeout /\ failures \in 0..MaxFailures
  <2>1. elapsed = 0 /\ failures = 0
    BY Zenon DEF Init
  <2>2. QED
    BY <2>1, ScriptAssumption
<1>2. QED
  BY <1>1, Zenon DEF Init, IndInv, TypeOK, CleanupInv

LEMMA StepInv == IndInv /\ [Next]_vars => IndInv'
<1> SUFFICES ASSUME IndInv, [Next]_vars PROVE IndInv'
  OBVIOUS
<1> USE DEF IndInv, TypeOK, CleanupInv
<1>1. CASE StartBroker
  BY <1>1 DEF StartBroker
<1>2. CASE Settle
  BY <1>2 DEF Settle, Die
<1>3. CASE RunEnclave
  <2>1. CASE enclave' = "running" /\ knows' = TRUE /\ at' = "poll"
             /\ UNCHANGED <<outcome, failures, broker, elapsed>>
    BY <2>1, Zenon
  <2>2. CASE CallFails /\ enclave' \in {"none", "running"} /\ Die
             /\ UNCHANGED <<knows, broker, elapsed>>
    <3>1. failures' \in 0..MaxFailures /\ failures' # 0
      BY <2>2, FailureCounts
    <3>2. QED
      BY <2>2, <3>1, Zenon DEF Die
  <2>3. QED
    BY <1>3, <2>1, <2>2, Zenon DEF RunEnclave
<1>4. CASE Poll
  <2>1. CASE enclave = "running" /\ at' = "check"
             /\ UNCHANGED <<knows, outcome, failures, broker, enclave, elapsed>>
    BY <2>1, Zenon
  <2>2. CASE /\ (enclave = "gone" /\ UNCHANGED failures) \/ CallFails
             /\ knows' = FALSE /\ outcome' = "exited" /\ at' = "stop broker"
             /\ UNCHANGED <<broker, enclave, elapsed>>
    <3>1. /\ failures' \in 0..MaxFailures
          /\ failures' # 0 \/ enclave' = "gone"
      BY <2>2, FailureCounts, Zenon
    <3>2. QED
      BY <2>2, <3>1, Zenon
  <2>3. QED
    BY <1>4, <2>1, <2>2, Zenon DEF Poll
<1>5. CASE Check
  <2>1. elapsed' \in 0..Timeout
    BY <1>5, PollCounts, Zenon DEF Check
  <2>2. QED
    BY <1>5, <2>1, Zenon DEF Check, Die
<1>6. CASE StopBroker
  BY <1>6 DEF StopBroker
<1>7. CASE StopEnclave
  <2>1. CASE /\ enclave' = IF knows /\ enclave = "running" THEN "gone" ELSE enclave
             /\ at' = "end"
             /\ UNCHANGED <<failures, broker, knows, elapsed, outcome>>
    BY <1>7, <2>1, Zenon DEF StopEnclave
  <2>2. CASE /\ CallFails /\ at' = "end"
             /\ UNCHANGED <<enclave, broker, knows, elapsed, outcome>>
    <3>1. failures' \in 0..MaxFailures /\ failures' # 0
      BY <2>2, FailureCounts
    <3>2. QED
      BY <1>7, <2>2, <3>1, Zenon DEF StopEnclave
  <2>3. QED
    BY <1>7, <2>1, <2>2, Zenon DEF StopEnclave
<1>8. CASE Interrupt
  BY <1>8 DEF Interrupt, Die
<1>9. CASE EnclaveExits
  BY <1>9 DEF EnclaveExits
<1>10. CASE BrokerExits
  BY <1>10 DEF BrokerExits
<1>11. CASE UNCHANGED vars
  BY <1>11 DEF vars
<1>12. QED
  BY <1>1, <1>2, <1>3, <1>4, <1>5, <1>6, <1>7, <1>8, <1>9, <1>10, <1>11
     DEF Next, Script

(* Type correctness, with the bound on the polls.                          *)
THEOREM TypeCorrect == Spec => []TypeOK
  BY InitInv, StepInv, PTL DEF Spec, IndInv

(* However the script ends, it leaves no broker behind, and no enclave     *)
(* unless a call of nitro-cli failed.                                      *)
THEOREM CleansUp == Spec => []NothingLeftBehind
<1>1. IndInv => NothingLeftBehind
  BY DEF IndInv, CleanupInv, NothingLeftBehind
<1>2. QED
  BY <1>1, InitInv, StepInv, PTL DEF Spec
=============================================================================
