-------------------------- MODULE ConditionalStore --------------------------
(***************************************************************************)
(* What enclave-broker's S3 calls promise to the enclave, with nothing     *)
(* said of S3 requests, retries and connections:                           *)
(*   - a key that holds an object keeps it;                                *)
(*   - a save takes effect, if at all, as a conditional write of its own   *)
(*     body, possibly long after its caller was told of a failure;         *)
(*   - "saved" is answered only if the key holds exactly that body;        *)
(*   - "refused" is answered only if the key holds another body;           *)
(*   - a load answers what the key held at one moment of the call.         *)
(***************************************************************************)
CONSTANTS
  Callers,   \* those who may have a request under way
  Requests,  \* what they may ask: [op, key, body]
  None       \* "no value"

VARIABLES
  objects,    \* the bucket
  requested,  \* every write that was asked for so far
  call,       \* per caller, its request under way, or None
  found,      \* per caller, what its request has come to, or None
  answer      \* per caller, the answer to its last request, or None

vars == <<objects, requested, call, found, answer>>

Put(request) == [key |-> request.key, body |-> request.body]

Result(status, body) == [status |-> status, body |-> body]

Failed == Result("failed", None)

Init ==
  /\ objects = [key \in {} |-> key]
  /\ requested = {}
  /\ call = [c \in Callers |-> None]
  /\ found = [c \in Callers |-> None]
  /\ answer = [c \in Callers |-> None]

Ask(c, request) ==
  /\ call[c] = None
  /\ call' = [call EXCEPT ![c] = request]
  /\ answer' = [answer EXCEPT ![c] = None]
  /\ requested' = requested \cup (IF request.op = "save" THEN {Put(request)} ELSE {})
  /\ UNCHANGED <<objects, found>>

(* A write that was asked for takes effect.                                *)
Land(p) ==
  /\ p \in requested
  /\ p.key \notin DOMAIN objects
  /\ objects' = [key \in DOMAIN objects \cup {p.key} |->
                   IF key = p.key THEN p.body ELSE objects[key]]
  /\ UNCHANGED <<requested, call, found, answer>>

(* What the request comes to when it is decided now.                       *)
View(request) ==
  LET held == IF request.key \in DOMAIN objects THEN objects[request.key] ELSE None
  IN  CASE request.op = "load"   -> Result("object", held)
        [] request.op = "save" /\ held = request.body -> Result("saved", None)
        [] request.op = "save" /\ held # request.body -> Result("refused", None)

(* A request is decided; a save is not refused while the key is free.      *)
Decide(c) ==
  /\ call[c] # None
  /\ call[c].op = "load" \/ call[c].key \in DOMAIN objects
  /\ found' = [found EXCEPT ![c] = View(call[c])]
  /\ UNCHANGED <<objects, requested, call, answer>>

(* What was decided gets lost before the callers in lost hear of it.       *)
Lose(lost) ==
  /\ found' = [c \in Callers |-> IF c \in lost THEN None ELSE found[c]]
  /\ UNCHANGED <<objects, requested, call, answer>>

Answer(c) ==
  /\ call[c] # None
  /\ \/ found[c] # None /\ answer' = [answer EXCEPT ![c] = found[c]]
     \/ answer' = [answer EXCEPT ![c] = Failed]
  /\ call' = [call EXCEPT ![c] = None]
  /\ found' = [found EXCEPT ![c] = None]
  /\ UNCHANGED <<objects, requested>>

Next ==
  \/ \E c \in Callers, request \in Requests : Ask(c, request)
  \/ \E p \in requested : Land(p)
  \/ \E c \in Callers : Decide(c) \/ Answer(c)
  \/ \E lost \in SUBSET Callers : Lose(lost)

Spec == Init /\ [][Next]_vars
=============================================================================
