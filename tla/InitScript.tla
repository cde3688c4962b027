----------------------------- MODULE InitScript -----------------------------
(***************************************************************************)
(* scripts/init-key-in-enclave.sh: it starts a temporary broker in         *)
(* init-key mode, runs the initialization enclave, polls nitro-cli until   *)
(* the enclave is gone, and cleans up whatever way it ends.                *)
(*                                                                         *)
(* The enclave is known to the script by the ID that run-enclave printed.  *)
(* Time passes in units of one poll.                                       *)
(***************************************************************************)
EXTENDS Naturals

CONSTANTS
  Timeout,     \* INIT_TIMEOUT_SECONDS, in polls
  MaxFailures  \* bound: how many nitro-cli calls fail

ASSUME ScriptAssumption == Timeout \in Nat /\ MaxFailures \in Nat

VARIABLES
  at,        \* where the script is
  broker,    \* the temporary broker: "none", "running" or "exited"
  enclave,   \* the enclave: "none", "running" or "gone"
  knows,     \* enclave_id is set
  elapsed,   \* polls since the enclave was started
  outcome,   \* what the script said at its end: "none", "exited" or "error"
  failures   \* nitro-cli calls that failed so far

vars == <<at, broker, enclave, knows, elapsed, outcome, failures>>

Init ==
  /\ at = "start"
  /\ broker = "none"
  /\ enclave = "none"
  /\ knows = FALSE
  /\ elapsed = 0
  /\ outcome = "none"
  /\ failures = 0

(* A call of nitro-cli (or of jq, behind it in a pipe under pipefail)      *)
(* fails for a reason of its own.                                          *)
CallFails == failures < MaxFailures /\ failures' = failures + 1

(* The command after the EXIT trap is set: the broker in the background.   *)
StartBroker ==
  /\ at = "start"
  /\ broker' = "running"
  /\ at' = "settle"
  /\ UNCHANGED <<enclave, knows, elapsed, outcome, failures>>

(* die, or a command that fails under set -e: the EXIT trap runs.          *)
Die ==
  /\ at' = "stop broker"
  /\ outcome' = "error"

(* After a second the broker must still be there.                          *)
Settle ==
  /\ at = "settle"
  /\ \/ broker = "running" /\ at' = "run enclave" /\ UNCHANGED outcome
     \/ broker # "running" /\ Die
  /\ UNCHANGED <<broker, enclave, knows, elapsed, failures>>

(* nitro-cli run-enclave.  It may fail or be interrupted, before or after  *)
(* the enclave started, or print no ID; then the script never learns of    *)
(* the enclave, and its trap does not terminate it.                        *)
RunEnclave ==
  /\ at = "run enclave"
  /\ \/ /\ enclave' = "running" /\ knows' = TRUE
        /\ at' = "poll"
        /\ UNCHANGED <<outcome, failures>>
     \/ /\ CallFails
        /\ enclave' \in {"none", "running"}
        /\ Die
        /\ UNCHANGED knows
  /\ UNCHANGED <<broker, elapsed>>

(* describe-enclaves | jq, the condition of the loop: it holds only when   *)
(* every command of the pipe succeeds and the enclave is listed.           *)
Poll ==
  /\ at = "poll"
  /\ \/ enclave = "running" /\ at' = "check" /\ UNCHANGED <<knows, outcome, failures>>
     \/ /\ \/ enclave = "gone" /\ UNCHANGED failures
           \/ CallFails
        /\ knows' = FALSE
        /\ outcome' = "exited"
        /\ at' = "stop broker"
  /\ UNCHANGED <<broker, enclave, elapsed>>

(* Faulty variants: the deadline is checked one poll late, and the time    *)
(* does not pass.                                                          *)
InTimeLate  == elapsed <= Timeout
SleepNoTime == UNCHANGED elapsed

InTime == elapsed < Timeout
Sleep  == elapsed' = elapsed + 1

(* The body of the loop: deadline, broker, sleep.                          *)
Check ==
  /\ at = "check"
  /\ \/ /\ InTime /\ broker = "running"
        /\ Sleep
        /\ at' = "poll"
        /\ UNCHANGED outcome
     \/ /\ ~InTime \/ broker # "running"
        /\ Die
        /\ UNCHANGED elapsed
  /\ UNCHANGED <<broker, enclave, knows, failures>>

(* cleanup: kill the broker and wait for it.                               *)
StopBroker ==
  /\ at = "stop broker"
  /\ broker' = IF broker = "running" THEN "exited" ELSE broker
  /\ at' = "stop enclave"
  /\ UNCHANGED <<enclave, knows, elapsed, outcome, failures>>

(* Faulty variant: the trap forgets the enclave.                           *)
StopNoEnclave ==
  /\ at = "stop enclave"
  /\ at' = "end"
  /\ UNCHANGED <<broker, enclave, knows, elapsed, outcome, failures>>

(* cleanup: terminate the enclave when its ID is known and it is listed;   *)
(* a failure of either call is ignored.                                    *)
StopEnclave ==
  /\ at = "stop enclave"
  /\ \/ /\ enclave' = IF knows /\ enclave = "running" THEN "gone" ELSE enclave
        /\ UNCHANGED failures
     \/ knows /\ CallFails /\ UNCHANGED enclave
  /\ at' = "end"
  /\ UNCHANGED <<broker, knows, elapsed, outcome>>

(* The operator interrupts the script.                                     *)
Interrupt ==
  /\ at \in {"settle", "poll", "check"}
  /\ Die
  /\ UNCHANGED <<broker, enclave, knows, elapsed, failures>>

(* init-key ends in the enclave, with or without success.                  *)
EnclaveExits ==
  /\ enclave = "running"
  /\ enclave' = "gone"
  /\ UNCHANGED <<at, broker, knows, elapsed, outcome, failures>>

BrokerExits ==
  /\ broker = "running"
  /\ broker' = "exited"
  /\ UNCHANGED <<at, enclave, knows, elapsed, outcome, failures>>

Script ==
  \/ StartBroker \/ Settle \/ RunEnclave \/ Poll \/ Check
  \/ StopBroker \/ StopEnclave

Next == Script \/ Interrupt \/ EnclaveExits \/ BrokerExits

Spec == Init /\ [][Next]_vars

(* The script runs on by itself: it waits for nothing but its own timer.   *)
FairSpec == Spec /\ WF_vars(Script)

-----------------------------------------------------------------------------
(* Properties.                                                             *)

TypeOK ==
  /\ at \in {"start", "settle", "run enclave", "poll", "check", "stop broker",
             "stop enclave", "end"}
  /\ broker \in {"none", "running", "exited"}
  /\ enclave \in {"none", "running", "gone"}
  /\ knows \in BOOLEAN
  /\ elapsed \in 0..Timeout
  /\ outcome \in {"none", "exited", "error"}
  /\ failures \in 0..MaxFailures

(* Whichever way the script ends, by itself, by die or interrupted, it     *)
(* leaves no broker with write permission behind (README.md:162), and no   *)
(* enclave either unless a nitro-cli call failed.                          *)
NothingLeftBehind ==
  at = "end" => /\ broker # "running"
                /\ failures = 0 => enclave # "running"

(* The script ends even when the enclave hangs: the deadline bounds the    *)
(* wait.                                                                   *)
ScriptEnds == <>(at = "end")

(* "Initialization enclave exited" is printed only after it did.           *)
ExitReportTrue == outcome = "exited" => enclave # "running"
=============================================================================
