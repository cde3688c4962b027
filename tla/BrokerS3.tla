------------------------------ MODULE BrokerS3 ------------------------------
(***************************************************************************)
(* enclave-broker's S3 requests: load_s3_object and                        *)
(* save_s3_object_if_absent, run by one thread per accepted connection.    *)
(*                                                                         *)
(* A call to S3 is a request that S3 handles at some time, and an answer   *)
(* that reaches the thread at some later time, unless the connection       *)
(* fails; then S3 may have handled the request before, may handle it yet,  *)
(* or may never see it.  The pause before a retry is left out: a thread    *)
(* may pause before any step.                                              *)
(***************************************************************************)
EXTENDS ObjectStore, Naturals, FiniteSets

CONSTANTS
  Threads,      \* the broker's connection threads
  Keys,         \* object keys below the S3 prefix
  Bodies,       \* object bodies
  MaxRequests,  \* bound: how many requests the broker accepts
  None          \* "no value"

(* S3_OPERATION_MAX_ATTEMPTS                                               *)
MaxAttempts == 4

VARIABLES
  task,       \* per thread, what it is doing
  answer,     \* per thread, the answer it sent last
  requested,  \* the writes asked for so far
  accepted    \* requests accepted so far

vars == <<objects, inflight, task, answer, requested, accepted>>

Requests == [op : {"load"}, key : Keys, body : {None}]
              \cup [op : {"save"}, key : Keys, body : Bodies]

Put(request) == [key |-> request.key, body |-> request.body]

Message(status, body) == [status |-> status, body |-> body]

NotSent == Message("not sent", None)
Sent    == Message("sent", None)
Failed  == Message("failed", None)

Results == {Failed, Message("saved", None), Message("refused", None)}
             \cup {Message("object", body) : body \in Bodies \cup {None}}

ASSUME BrokerAssumption ==
  /\ None \notin Bodies \cup Requests \cup Results
  /\ MaxRequests \in Nat

(* at: which loop the thread is in; attempt: of that loop; wire: its       *)
(* request to S3; result: what it will answer.                             *)
Loop(at, request, attempt, wire) ==
  [at |-> at, request |-> request, attempt |-> attempt, wire |-> wire, result |-> None]

Finished(request, result) ==
  [at |-> "done", request |-> request, attempt |-> 1, wire |-> NotSent, result |-> result]

Idle == Loop("idle", None, 1, NotSent)

Init ==
  /\ objects = EmptyBucket
  /\ inflight = {}
  /\ task = [h \in Threads |-> Idle]
  /\ answer = [h \in Threads |-> None]
  /\ requested = {}
  /\ accepted = 0

Become(h, next) == task' = [task EXCEPT ![h] = next]

(* The body under key, None when there is none.                            *)
Held(key) == IF key \in DOMAIN objects THEN objects[key] ELSE None

(* A request arrives; a save begins with the write loop, a load with the   *)
(* read loop.                                                              *)
Accept(h, request) ==
  /\ task[h] = Idle
  /\ accepted < MaxRequests
  /\ accepted' = accepted + 1
  /\ Become(h, Loop(IF request.op = "save" THEN "put" ELSE "get", request, 1, NotSent))
  /\ answer' = [answer EXCEPT ![h] = None]
  /\ requested' = requested \cup (IF request.op = "save" THEN {Put(request)} ELSE {})
  /\ UNCHANGED <<objects, inflight>>

ThreadStep(h, loops) ==
  /\ task[h].at \in loops
  /\ UNCHANGED <<requested, accepted>>

(* The attempt goes on with this on the wire.                              *)
OnWire(h, wire) == Become(h, Loop(task[h].at, task[h].request, task[h].attempt, wire))

(* One more attempt leaves for S3.                                         *)
SendAttempt(h) ==
  /\ ThreadStep(h, {"put", "get"})
  /\ task[h].wire = NotSent
  /\ OnWire(h, Sent)
  /\ UNCHANGED <<objects, inflight, answer>>

(* S3 handles the request: If-None-Match for a write, 412 when the key is  *)
(* in use; the object or NoSuchKey for a read; or it denies the request.   *)
S3Handles(h) ==
  LET request == task[h].request
      Respond(status, body) == OnWire(h, Message(status, body))
  IN
  /\ ThreadStep(h, {"put", "get"})
  /\ task[h].wire = Sent
  /\ \/ /\ task[h].at = "put"
        /\ objects' = PutIfAbsent(objects, Put(request))
        /\ Respond(IF request.key \in DOMAIN objects THEN "exists" ELSE "created", None)
     \/ /\ task[h].at = "get"
        /\ Respond("read", Held(request.key))
        /\ UNCHANGED objects
     \/ /\ Respond("denied", None)
        /\ UNCHANGED objects
  /\ UNCHANGED <<inflight, answer>>

Done(h, result) == Become(h, Finished(task[h].request, result))

(* Faulty variant: a 412 is retried like a failed connection.              *)
WriteAgain(h) == Become(h, Loop("put", task[h].request, 1, NotSent))

(* After a 412 the thread reads the object back, with attempts of its own. *)
ReadBack(h) == Become(h, Loop("get", task[h].request, 1, NotSent))

(* The answer to a write.                                                  *)
PutAnswered(h) ==
  LET status == task[h].wire.status IN
  /\ ThreadStep(h, {"put"})
  /\ \/ status = "created" /\ Done(h, Message("saved", None))
     \/ status = "exists" /\ ReadBack(h)
     \/ status = "denied" /\ Done(h, Failed)
  /\ UNCHANGED <<objects, inflight, answer>>

(* Faulty variant: a 412 is taken for success, whatever the key holds.     *)
TakenForSaved(request, body) == Message("saved", None)

(* A 412 is a success when the object is the one that was to be written.   *)
Compare(request, body) ==
  Message(IF body = request.body THEN "saved" ELSE "refused", None)

(* The answer to a read, for a load or for the comparison after a 412.     *)
GetAnswered(h) ==
  LET request == task[h].request
      wire == task[h].wire
  IN
  /\ ThreadStep(h, {"get"})
  /\ \/ /\ wire.status = "read" /\ request.op = "load"
        /\ Done(h, Message("object", wire.body))
     \/ /\ wire.status = "read" /\ request.op = "save"
        /\ Done(h, Compare(request, wire.body))
     \/ wire.status = "denied" /\ Done(h, Failed)
  /\ UNCHANGED <<objects, inflight, answer>>

(* A write that nobody waits for any longer stays under way.               *)
Abandoned(h) ==
  IF task[h].at = "put" /\ task[h].wire = Sent THEN {Put(task[h].request)} ELSE {}

(* Faulty variant: one attempt too many.                                   *)
MayRetryTooOften(h) == task[h].attempt <= MaxAttempts

MayRetry(h) == task[h].attempt < MaxAttempts

(* The connection to S3 fails (DispatchFailure): try again, at most        *)
(* MaxAttempts times in all.                                               *)
DispatchFailure(h) ==
  /\ ThreadStep(h, {"put", "get"})
  /\ task[h].wire # NotSent
  /\ inflight' = inflight \cup Abandoned(h)
  /\ \/ /\ MayRetry(h)
        /\ Become(h, Loop(task[h].at, task[h].request, task[h].attempt + 1, NotSent))
     \/ ~MayRetry(h) /\ Done(h, Failed)
  /\ UNCHANGED <<objects, answer>>

(* A timeout, a response that cannot be read, a body that breaks off: not  *)
(* tried again.                                                            *)
OtherFailure(h) ==
  /\ ThreadStep(h, {"put", "get"})
  /\ task[h].wire # NotSent
  /\ inflight' = inflight \cup Abandoned(h)
  /\ Done(h, Failed)
  /\ UNCHANGED <<objects, answer>>

(* The thread writes its answer and ends.                                  *)
Reply(h) ==
  /\ ThreadStep(h, {"done"})
  /\ answer' = [answer EXCEPT ![h] = task[h].result]
  /\ Become(h, Idle)
  /\ UNCHANGED <<objects, inflight>>

(* S3 carries out a write that nobody waits for, or drops it.              *)
S3Late ==
  /\ \E p \in inflight :
       \/ Process(p)
       \/ inflight' = inflight \ {p} /\ UNCHANGED objects
  /\ UNCHANGED <<task, answer, requested, accepted>>

(* The broker is killed: every caller sees its connection close.           *)
Crash ==
  /\ \E h \in Threads : task[h].at \in {"put", "get"}
  /\ inflight' = inflight \cup UNION {Abandoned(h) : h \in Threads}
  /\ task' = [h \in Threads |->
                IF task[h] = Idle THEN Idle ELSE Finished(task[h].request, Failed)]
  /\ UNCHANGED <<objects, answer, requested, accepted>>

Progress(h) ==
  \/ SendAttempt(h) \/ S3Handles(h) \/ PutAnswered(h) \/ GetAnswered(h)
  \/ DispatchFailure(h) \/ OtherFailure(h) \/ Reply(h)

Next ==
  \/ \E h \in Threads, request \in Requests : Accept(h, request)
  \/ \E h \in Threads : Progress(h)
  \/ S3Late
  \/ Crash

Spec == Init /\ [][Next]_vars

(* A thread runs on, and S3 answers or the connection to it fails.         *)
FairSpec == Spec /\ \A h \in Threads : WF_vars(Progress(h))

-----------------------------------------------------------------------------
(* Properties.                                                             *)

Wires == {NotSent, Sent} \cup {Message(s, None) : s \in {"exists", "created", "denied"}}
           \cup {Message("read", body) : body \in Bodies \cup {None}}

(* Type invariant; no loop makes a fifth attempt, so that the code after   *)
(* the loops ("retry loop always returns") is never reached.               *)
TypeOK ==
  /\ DOMAIN objects \subseteq Keys
  /\ \A key \in DOMAIN objects : Put([key |-> key, body |-> objects[key]]) \in requested
  /\ inflight \subseteq requested
  /\ requested \subseteq [key : Keys, body : Bodies]
  /\ task \in [Threads -> [at : {"idle", "put", "get", "done"},
                           request : Requests \cup {None}, attempt : 1..MaxAttempts,
                           wire : Wires, result : Results \cup {None}]]
  /\ answer \in [Threads -> Results \cup {None}]
  /\ accepted \in 0..MaxRequests

(* What ConditionalStore sees of a thread: the request of its caller, and  *)
(* what that request has come to.                                          *)
FoundOf(job) ==
  IF job.at = "done" /\ job.result # Failed THEN job.result
  ELSE IF job.request # None /\ job.wire.status = "read" /\ job.request.op = "load"
    THEN Message("object", job.wire.body)
  ELSE None

call  == [h \in Threads |-> task[h].request]
found == [h \in Threads |-> FoundOf(task[h])]

Store == INSTANCE ConditionalStore WITH Callers <- Threads

(* However connections fail, requests are retried and threads interleave,  *)
(* a caller is told what ConditionalStore allows: an answer "saved" or     *)
(* "refused" tells the truth although an earlier attempt of the same write *)
(* may have taken effect unnoticed, and an object is never replaced.       *)
StorePromise == Store!Spec

(* Every accepted request is answered: 412, comparison and retries end.    *)
Answered == \A h \in Threads : task[h] # Idle ~> task[h] = Idle
=============================================================================
