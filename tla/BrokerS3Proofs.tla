--------------------------- MODULE BrokerS3Proofs ---------------------------
(***************************************************************************)
(* Theorems about BrokerS3, for any threads, keys, bodies and number of    *)
(* requests: the type invariant, and that the retry loops implement        *)
(* ConditionalStore.                                                       *)
(***************************************************************************)
EXTENDS BrokerS3, TLAPS

Jobs ==
  [at : {"idle", "put", "get", "done"}, request : Requests \cup {None},
   attempt : 1..MaxAttempts, wire : Wires, result : Results \cup {None}]

Holds(bucket, request) ==
  request.key \in DOMAIN bucket /\ bucket[request.key] = request.body

(* What a thread knows of the bucket is true: S3's answer "created", "412" *)
(* or the object it read, until the thread acts on it.                     *)
JobInv(job, bucket, asked) ==
  /\ job.at = "idle" => job = Idle
  /\ job.at # "idle" => job.request \in Requests
  /\ job.at = "done" => job.wire = NotSent /\ job.result \in Results
  /\ job.at # "done" => job.result = None
  /\ job.at = "put" => job.request.op = "save" /\ job.wire.status # "read"
  /\ job.at = "get" => job.wire.status \notin {"created", "exists"}
  /\ (job.at # "idle" /\ job.request.op = "save") => Put(job.request) \in asked
  /\ (job.at = "put" /\ job.wire.status = "created") => Holds(bucket, job.request)
  /\ (job.at = "put" /\ job.wire.status = "exists") => job.request.key \in DOMAIN bucket
  /\ (job.at = "get" /\ job.request.op = "save") => job.request.key \in DOMAIN bucket
  /\ (job.at = "get" /\ job.request.op = "save" /\ job.wire.status = "read")
       => job.wire.body = bucket[job.request.key]

JobsInv == \A h \in Threads : JobInv(task[h], objects, requested)

IndInv == TypeOK /\ JobsInv

(* An object stays under its key.                                          *)
Grows(bucket, fuller) ==
  \A key \in DOMAIN bucket : key \in DOMAIN fuller /\ fuller[key] = bucket[key]

-----------------------------------------------------------------------------

LEMMA TaskType == TypeOK => task \in [Threads -> Jobs]
  BY DEF TypeOK, Jobs

LEMMA WireShape ==
  ASSUME NEW wire \in Wires
  PROVE  /\ wire.status \in {"not sent", "sent", "exists", "created", "denied", "read"}
         /\ wire.body \in Bodies \cup {None}
         /\ wire = NotSent \/ wire.status # "not sent"
         /\ wire = Sent \/ wire.status # "sent"
<1>1. ASSUME NEW status \in {"exists", "created", "denied", "read"},
             NEW body \in Bodies \cup {None}, wire = Message(status, body)
      PROVE  wire.status = status /\ wire.body = body
  BY <1>1 DEF Message
<1>2. NotSent.status = "not sent" /\ Sent.status = "sent"
      /\ NotSent.body = None /\ Sent.body = None
  BY DEF NotSent, Sent, Message
<1>3. \/ wire = NotSent \/ wire = Sent
      \/ \E status \in {"exists", "created", "denied", "read"}, body \in Bodies \cup {None} :
           wire = Message(status, body)
  BY DEF Wires
<1>. QED
  BY <1>1, <1>2, <1>3

LEMMA Messages ==
  /\ NotSent \in Wires /\ Sent \in Wires
  /\ \A status \in {"exists", "created", "denied"} : Message(status, None) \in Wires
  /\ \A body \in Bodies \cup {None} : Message("read", body) \in Wires
  /\ Failed \in Results
  /\ Message("saved", None) \in Results /\ Message("refused", None) \in Results
  /\ \A body \in Bodies \cup {None} : Message("object", body) \in Results
  BY DEF Wires, Results

LEMMA Statuses ==
  /\ NotSent.status = "not sent" /\ Sent.status = "sent"
  /\ \A status, body : /\ Message(status, body).status = status
                       /\ Message(status, body).body = body
  /\ \A body : Message("object", body) # Failed
  /\ Message("saved", None) # Failed /\ Message("refused", None) # Failed
  BY DEF NotSent, Sent, Failed, Message

LEMMA RequestShape ==
  ASSUME NEW request \in Requests
  PROVE  /\ request # None
         /\ request.op \in {"load", "save"} /\ request.key \in Keys
         /\ request.op = "save" => Put(request) \in [key : Keys, body : Bodies]
         /\ request.op = "save" => request.body \in Bodies
  BY BrokerAssumption DEF Requests, Put

LEMMA ResultShape == \A result \in Results : result # None
  BY BrokerAssumption

LEMMA IdleJob == Idle \in Jobs /\ \A bucket, asked : JobInv(Idle, bucket, asked)
<1>1. Idle \in Jobs
  BY Messages DEF Idle, Loop, Jobs, MaxAttempts
<1>2. ASSUME NEW bucket, NEW asked
      PROVE  JobInv(Idle, bucket, asked)
  BY Statuses DEF Idle, Loop, JobInv
<1>. QED
  BY <1>1, <1>2

LEMMA FinishedInv ==
  ASSUME NEW job \in Jobs, NEW bucket, NEW asked, JobInv(job, bucket, asked),
         job.at # "idle", NEW result \in Results
  PROVE  /\ Finished(job.request, result) \in Jobs
         /\ JobInv(Finished(job.request, result), bucket, asked)
<1>1. job.request \in Requests /\ (job.request.op = "save" => Put(job.request) \in asked)
  BY DEF JobInv
<1>2. Finished(job.request, result) \in Jobs
  BY <1>1, Messages DEF Finished, Jobs, MaxAttempts
<1>3. JobInv(Finished(job.request, result), bucket, asked)
  BY <1>1, Messages DEF Finished, JobInv
<1>. QED
  BY <1>2, <1>3

(* What holds of a job goes on to hold when objects are added and writes   *)
(* are asked for.                                                          *)
LEMMA JobStays ==
  ASSUME NEW job \in Jobs, NEW bucket, NEW asked, NEW fuller, NEW more,
         JobInv(job, bucket, asked), Grows(bucket, fuller), asked \subseteq more
  PROVE  JobInv(job, fuller, more)
  BY DEF JobInv, Grows, Holds

(* One thread goes on to its next job.                                     *)
LEMMA OneJob ==
  ASSUME IndInv, NEW h \in Threads, NEW next \in Jobs, Become(h, next),
         Grows(objects, objects'), requested \subseteq requested',
         JobInv(next, objects', requested')
  PROVE  task' \in [Threads -> Jobs] /\ JobsInv'
<1>1. task \in [Threads -> Jobs]
  BY TaskType DEF IndInv
<1>2. /\ task' \in [Threads -> Jobs] /\ task'[h] = next
      /\ \A t \in Threads \ {h} : task'[t] = task[t]
  BY <1>1 DEF Become
<1>3. ASSUME NEW t \in Threads PROVE JobInv(task'[t], objects', requested')
  <2>1. CASE t = h
    BY <1>2, <2>1
  <2>2. CASE t # h
    <3>1. task[t] \in Jobs /\ JobInv(task[t], objects, requested)
      BY <1>1 DEF IndInv, JobsInv
    <3>2. JobInv(task[t], objects', requested')
      BY <3>1, JobStays
    <3>. QED
      BY <1>2, <2>2, <3>2
  <2>. QED
    BY <2>1, <2>2
<1>. QED
  BY <1>2, <1>3 DEF JobsInv

LEMMA SameBucket == Grows(objects, objects)
  BY DEF Grows

(* A conditional write adds an object or changes nothing.                  *)
LEMMA PutIfAbsentHolds ==
  ASSUME NEW p, objects' = PutIfAbsent(objects, p)
  PROVE  /\ Grows(objects, objects')
         /\ p.key \in DOMAIN objects => objects' = objects
         /\ p.key \notin DOMAIN objects =>
              /\ DOMAIN objects' = DOMAIN objects \cup {p.key}
              /\ objects'[p.key] = p.body
              /\ objects' = [key \in DOMAIN objects \cup {p.key} |->
                               IF key = p.key THEN p.body ELSE objects[key]]
  BY DEF PutIfAbsent, Grows

(* The bucket's part of TypeOK.                                            *)
BucketOK(bucket, asked) ==
  /\ DOMAIN bucket \subseteq Keys
  /\ \A key \in DOMAIN bucket : Put([key |-> key, body |-> bucket[key]]) \in asked

LEMMA BucketStays ==
  ASSUME TypeOK, NEW p \in requested, objects' = PutIfAbsent(objects, p),
         requested' = requested
  PROVE  BucketOK(objects', requested')
<1>1. p = [key |-> p.key, body |-> p.body] /\ p.key \in Keys
  BY DEF TypeOK
<1>2. CASE p.key \in DOMAIN objects
  BY <1>2, PutIfAbsentHolds DEF TypeOK, BucketOK
<1>3. CASE p.key \notin DOMAIN objects
  <2>1. /\ DOMAIN objects' = DOMAIN objects \cup {p.key} /\ objects'[p.key] = p.body
        /\ \A key \in DOMAIN objects : objects'[key] = objects[key]
    BY <1>3, PutIfAbsentHolds DEF Grows
  <2>. QED
    BY <1>1, <2>1 DEF TypeOK, BucketOK, Put
<1>. QED
  BY <1>2, <1>3

-----------------------------------------------------------------------------
(* The invariant.                                                          *)

LEMMA InitInv == Init => IndInv
<1> SUFFICES ASSUME Init PROVE IndInv
  OBVIOUS
<1>1. task \in [Threads -> Jobs] /\ JobsInv
  BY IdleJob DEF Init, JobsInv
<1>2. objects = EmptyBucket /\ DOMAIN objects = {}
  BY DEF Init, EmptyBucket
<1>3. TypeOK
  BY <1>1, <1>2, BrokerAssumption DEF Init, TypeOK, Jobs
<1>. QED
  BY <1>1, <1>3 DEF IndInv

(* A step that leaves everything but the job of one thread alone.          *)
LEMMA QuietStep ==
  ASSUME IndInv, NEW h \in Threads, NEW next \in Jobs, Become(h, next),
         UNCHANGED <<objects, requested, accepted>>,
         inflight' \subseteq requested, answer' \in [Threads -> Results \cup {None}],
         JobInv(next, objects, requested)
  PROVE  IndInv'
<1>1. task' \in [Threads -> Jobs] /\ JobsInv'
  BY OneJob, SameBucket
<1>2. TypeOK'
  BY <1>1 DEF IndInv, TypeOK, Jobs
<1>. QED
  BY <1>1, <1>2 DEF IndInv

LEMMA Abandons ==
  ASSUME IndInv, NEW h \in Threads
  PROVE  Abandoned(h) \subseteq requested
<1>1. JobInv(task[h], objects, requested)
  BY DEF IndInv, JobsInv
<1>. QED
  BY <1>1 DEF Abandoned, JobInv

LEMMA LoopIsJob ==
  ASSUME NEW at \in {"put", "get"}, NEW request \in Requests,
         NEW attempt \in 1..MaxAttempts, NEW wire \in Wires
  PROVE  Loop(at, request, attempt, wire) \in Jobs
  BY DEF Loop, Jobs

LEMMA ThisJob ==
  ASSUME IndInv, NEW h \in Threads
  PROVE  task[h] \in Jobs /\ JobInv(task[h], objects, requested)
  BY TaskType DEF IndInv, JobsInv

(* In a loop a thread has a request.                                       *)
LEMMA InLoop ==
  ASSUME IndInv, NEW h \in Threads, task[h].at \in {"put", "get"}
  PROVE  /\ task[h].request \in Requests /\ task[h].attempt \in 1..MaxAttempts
         /\ task[h].wire \in Wires
         /\ task[h].request.op = "save" => Put(task[h].request) \in requested
         /\ task[h].at = "put" => task[h].request.op = "save"
         /\ (task[h].at = "get" /\ task[h].request.op = "save")
              => task[h].request.key \in DOMAIN objects
  BY ThisJob DEF JobInv, Jobs

LEMMA AnswersType == IndInv => answer \in [Threads -> Results \cup {None}]
  BY DEF IndInv, TypeOK

LEMMA InflightType == IndInv => inflight \subseteq requested
  BY DEF IndInv, TypeOK

(* A thread that finishes without touching the bucket.                     *)
LEMMA FinishStep ==
  ASSUME IndInv, NEW h \in Threads, task[h].at \in {"put", "get"},
         NEW result \in Results, Done(h, result),
         UNCHANGED <<objects, requested, accepted, answer>>,
         inflight' \subseteq requested
  PROVE  IndInv'
<1>1. /\ Finished(task[h].request, result) \in Jobs
      /\ JobInv(Finished(task[h].request, result), objects, requested)
  BY ThisJob, FinishedInv
<1>. QED
  BY <1>1, QuietStep, AnswersType DEF Done

(* A thread that goes on in a loop without touching the bucket.            *)
LEMMA LoopStep ==
  ASSUME IndInv, NEW h \in Threads, NEW at \in {"put", "get"},
         NEW request \in Requests, NEW attempt \in 1..MaxAttempts, NEW wire \in Wires,
         Become(h, Loop(at, request, attempt, wire)),
         UNCHANGED <<objects, requested, accepted, answer>>,
         inflight' \subseteq requested,
         JobInv(Loop(at, request, attempt, wire), objects, requested)
  PROVE  IndInv'
  BY LoopIsJob, QuietStep, AnswersType

LEMMA AcceptInv ==
  ASSUME IndInv, NEW h \in Threads, NEW request \in Requests, Accept(h, request)
  PROVE  IndInv'
<1> DEFINE at   == IF request.op = "save" THEN "put" ELSE "get"
           next == Loop(at, request, 1, NotSent)
<1>1. /\ Become(h, next) /\ objects' = objects /\ inflight' = inflight
      /\ accepted' = accepted + 1 /\ accepted < MaxRequests
      /\ answer' = [answer EXCEPT ![h] = None]
      /\ requested' = requested \cup (IF request.op = "save" THEN {Put(request)} ELSE {})
  BY DEF Accept
<1>2. next \in Jobs
  BY Messages, LoopIsJob DEF MaxAttempts
<1>3. JobInv(next, objects', requested')
  BY <1>1, Statuses DEF Loop, JobInv
<1> HIDE DEF next
<1>4. task' \in [Threads -> Jobs] /\ JobsInv'
  BY <1>1, <1>2, <1>3, OneJob, SameBucket
<1>5. requested' \subseteq [key : Keys, body : Bodies]
  BY <1>1, RequestShape DEF IndInv, TypeOK
<1>6. accepted' \in 0..MaxRequests
  BY <1>1, BrokerAssumption DEF IndInv, TypeOK
<1>7. answer' \in [Threads -> Results \cup {None}]
  BY <1>1 DEF IndInv, TypeOK
<1>8. TypeOK'
  BY <1>1, <1>4, <1>5, <1>6, <1>7 DEF IndInv, TypeOK, Jobs
<1>. QED
  BY <1>4, <1>8 DEF IndInv

(* What a job in a loop has to fulfil.                                     *)
LEMMA LoopInv ==
  ASSUME NEW bucket, NEW asked, NEW at \in {"put", "get"}, NEW request, NEW attempt, NEW wire,
         request \in Requests,
         request.op = "save" => Put(request) \in asked,
         at = "put" => request.op = "save" /\ wire.status # "read",
         at = "get" => wire.status \notin {"created", "exists"},
         at = "put" /\ wire.status = "created" => Holds(bucket, request),
         at = "put" /\ wire.status = "exists" => request.key \in DOMAIN bucket,
         at = "get" /\ request.op = "save" => request.key \in DOMAIN bucket,
         at = "get" /\ request.op = "save" /\ wire.status = "read"
           => wire.body = bucket[request.key]
  PROVE  JobInv(Loop(at, request, attempt, wire), bucket, asked)
  BY DEF JobInv, Loop

LEMMA SendAttemptInv ==
  ASSUME IndInv, NEW h \in Threads, SendAttempt(h)
  PROVE  IndInv'
<1>1. task[h].at \in {"put", "get"}
  BY DEF SendAttempt, ThreadStep
<1>2. JobInv(Loop(task[h].at, task[h].request, task[h].attempt, Sent), objects, requested)
  BY <1>1, InLoop, Statuses DEF JobInv, Loop
<1>. QED
  BY <1>1, <1>2, InLoop, Messages, LoopStep, InflightType DEF SendAttempt, ThreadStep, OnWire

LEMMA S3HandlesInv ==
  ASSUME IndInv, NEW h \in Threads, S3Handles(h)
  PROVE  IndInv'
<1> DEFINE request == task[h].request
<1>1. task[h].at \in {"put", "get"} /\ UNCHANGED <<requested, accepted, inflight, answer>>
  BY DEF S3Handles, ThreadStep
<1>2. /\ request \in Requests /\ task[h].attempt \in 1..MaxAttempts
      /\ request.op = "save" => Put(request) \in requested
      /\ task[h].at = "put" => request.op = "save"
      /\ (task[h].at = "get" /\ request.op = "save") => request.key \in DOMAIN objects
  BY <1>1, InLoop
<1>3. ASSUME task[h].at = "put", objects' = PutIfAbsent(objects, Put(request)),
             OnWire(h, Message(IF request.key \in DOMAIN objects THEN "exists"
                                                                 ELSE "created", None))
      PROVE  IndInv'
  <2> DEFINE wire == Message(IF request.key \in DOMAIN objects THEN "exists"
                                                                ELSE "created", None)
             next == Loop("put", request, task[h].attempt, wire)
  <2>1. Grows(objects, objects') /\ BucketOK(objects', requested')
    BY <1>1, <1>2, <1>3, PutIfAbsentHolds, BucketStays DEF IndInv
  <2>2. /\ Put(request).key = request.key /\ Put(request).body = request.body
        /\ request.key \in DOMAIN objects'
        /\ request.key \notin DOMAIN objects => objects'[request.key] = request.body
    <3>1. Put(request).key = request.key /\ Put(request).body = request.body
      BY DEF Put
    <3> DEFINE p == Put(request)
    <3> HIDE DEF p
    <3>2. /\ Grows(objects, objects')
          /\ p.key \notin DOMAIN objects =>
               p.key \in DOMAIN objects' /\ objects'[p.key] = p.body
      BY <1>3, PutIfAbsentHolds DEF p
    <3>. QED
      BY <3>1, <3>2 DEF Grows, p
  <2>3. next \in Jobs
    BY <1>2, Messages, LoopIsJob
  <2>4. JobInv(next, objects', requested')
    <3>1. CASE request.key \in DOMAIN objects
      <4>1. wire.status = "exists"
        BY <3>1, Statuses
      <4>. QED
        BY <1>1, <1>2, <1>3, <2>2, <4>1, LoopInv
    <3>2. CASE request.key \notin DOMAIN objects
      <4>1. wire.status = "created"
        BY <3>2, Statuses
      <4>. QED
        BY <1>1, <1>2, <1>3, <2>2, <3>2, <4>1, LoopInv DEF Holds
    <3>. QED
      BY <3>1, <3>2
  <2>5. Become(h, next)
    BY <1>3 DEF OnWire
  <2> HIDE DEF next
  <2>6. task' \in [Threads -> Jobs] /\ JobsInv'
    BY <1>1, <2>1, <2>3, <2>4, <2>5, OneJob
  <2>. QED
    BY <1>1, <2>1, <2>6 DEF IndInv, TypeOK, Jobs, BucketOK
<1>4. ASSUME task[h].at = "get", objects' = objects,
             OnWire(h, Message("read", Held(request.key)))
      PROVE  IndInv'
  <2>1. Held(request.key) \in Bodies \cup {None}
    BY DEF Held, IndInv, TypeOK, Put
  <2>2. request.op = "save" => Held(request.key) = objects[request.key]
    BY <1>2, <1>4 DEF Held
  <2>3. JobInv(Loop("get", request, task[h].attempt, Message("read", Held(request.key))),
               objects, requested)
    <3> DEFINE wire == Message("read", Held(request.key))
    <3>1. wire.status = "read" /\ wire.body = Held(request.key)
      BY Statuses
    <3> HIDE DEF wire
    <3>2. JobInv(Loop("get", request, task[h].attempt, wire), objects, requested)
      BY <1>2, <1>4, <2>2, <3>1, LoopInv
    <3>. QED
      BY <3>2 DEF wire
  <2>. QED
    BY <1>1, <1>2, <1>4, <2>1, <2>3, Messages, LoopStep, InflightType DEF OnWire
<1>5. ASSUME objects' = objects, OnWire(h, Message("denied", None))
      PROVE  IndInv'
  <2>1. JobInv(Loop(task[h].at, request, task[h].attempt, Message("denied", None)),
               objects, requested)
    <3> DEFINE wire == Message("denied", None)
    <3>1. wire.status = "denied"
      BY Statuses
    <3> HIDE DEF wire
    <3>2. JobInv(Loop(task[h].at, request, task[h].attempt, wire), objects, requested)
      BY <1>1, <1>2, <3>1, LoopInv
    <3>. QED
      BY <3>2 DEF wire
  <2>. QED
    BY <1>1, <1>2, <1>5, <2>1, Messages, LoopStep, InflightType DEF OnWire
<1>. QED
  BY <1>3, <1>4, <1>5 DEF S3Handles

LEMMA PutAnsweredInv ==
  ASSUME IndInv, NEW h \in Threads, PutAnswered(h)
  PROVE  IndInv'
<1>1. /\ task[h].at = "put" /\ UNCHANGED <<objects, inflight, answer, requested, accepted>>
      /\ inflight' \subseteq requested
  BY InflightType DEF PutAnswered, ThreadStep
<1>2. CASE task[h].wire.status = "exists" /\ ReadBack(h)
  <2>1. task[h].request.key \in DOMAIN objects
    BY <1>1, <1>2, ThisJob DEF JobInv
  <2>2. JobInv(Loop("get", task[h].request, 1, NotSent), objects, requested)
    BY <1>1, <2>1, InLoop, Statuses DEF JobInv, Loop
  <2>. QED
    BY <1>1, <1>2, <2>2, InLoop, Messages, LoopStep DEF ReadBack, MaxAttempts
<1>3. CASE \E result \in Results : Done(h, result)
  BY <1>1, <1>3, FinishStep
<1>. QED
  BY <1>2, <1>3, Messages DEF PutAnswered

LEMMA GetAnsweredInv ==
  ASSUME IndInv, NEW h \in Threads, GetAnswered(h)
  PROVE  IndInv'
<1>1. /\ task[h].at = "get" /\ UNCHANGED <<objects, inflight, answer, requested, accepted>>
      /\ inflight' \subseteq requested
  BY InflightType DEF GetAnswered, ThreadStep
<1>2. task[h].wire.body \in Bodies \cup {None}
  BY <1>1, InLoop, WireShape
<1>3. Compare(task[h].request, task[h].wire.body) \in Results
  BY Messages DEF Compare
<1>4. \E result \in Results : Done(h, result)
  BY <1>2, <1>3, Messages DEF GetAnswered
<1>. QED
  BY <1>1, <1>4, FinishStep

LEMMA DispatchFailureInv ==
  ASSUME IndInv, NEW h \in Threads, DispatchFailure(h)
  PROVE  IndInv'
<1>1. /\ task[h].at \in {"put", "get"} /\ UNCHANGED <<objects, answer, requested, accepted>>
      /\ inflight' \subseteq requested
  BY InflightType, Abandons DEF DispatchFailure, ThreadStep
<1>2. CASE /\ MayRetry(h)
           /\ Become(h, Loop(task[h].at, task[h].request, task[h].attempt + 1, NotSent))
  <2>1. task[h].attempt + 1 \in 1..MaxAttempts
    BY <1>1, <1>2, InLoop DEF MayRetry, MaxAttempts
  <2>2. JobInv(Loop(task[h].at, task[h].request, task[h].attempt + 1, NotSent),
               objects, requested)
    BY <1>1, InLoop, Statuses DEF JobInv, Loop
  <2>. QED
    BY <1>1, <1>2, <2>1, <2>2, InLoop, Messages, LoopStep
<1>3. CASE Done(h, Failed)
  BY <1>1, <1>3, Messages, FinishStep
<1>. QED
  BY <1>2, <1>3 DEF DispatchFailure

LEMMA OtherFailureInv ==
  ASSUME IndInv, NEW h \in Threads, OtherFailure(h)
  PROVE  IndInv'
<1>1. /\ task[h].at \in {"put", "get"} /\ UNCHANGED <<objects, answer, requested, accepted>>
      /\ inflight' \subseteq requested /\ Done(h, Failed)
  BY InflightType, Abandons DEF OtherFailure, ThreadStep
<1>. QED
  BY <1>1, Messages, FinishStep

LEMMA ReplyInv ==
  ASSUME IndInv, NEW h \in Threads, Reply(h)
  PROVE  IndInv'
<1>1. task[h].result \in Results
  BY ThisJob DEF Reply, ThreadStep, JobInv
<1>2. answer' \in [Threads -> Results \cup {None}]
  BY <1>1, AnswersType DEF Reply
<1>. QED
  BY <1>2, IdleJob, InflightType, QuietStep DEF Reply, ThreadStep

LEMMA S3LateInv ==
  ASSUME IndInv, S3Late
  PROVE  IndInv'
<1>1. UNCHANGED <<task, answer, requested, accepted>>
  BY DEF S3Late
<1>2. PICK p \in inflight : Process(p) \/ (inflight' = inflight \ {p} /\ UNCHANGED objects)
  BY DEF S3Late
<1>3. inflight' \subseteq requested /\ p \in requested
  BY <1>2, InflightType DEF Process
<1>4. Grows(objects, objects') /\ BucketOK(objects', requested')
  <2>1. CASE Process(p)
    BY <1>1, <1>3, <2>1, PutIfAbsentHolds, BucketStays DEF IndInv, Process
  <2>2. CASE UNCHANGED objects
    BY <1>1, <2>2, SameBucket DEF IndInv, TypeOK, BucketOK
  <2>. QED
    BY <1>2, <2>1, <2>2
<1>5. JobsInv'
  <2>1. ASSUME NEW h \in Threads PROVE JobInv(task[h], objects', requested)
    BY <1>4, ThisJob, JobStays
  <2>. QED
    BY <1>1, <2>1 DEF JobsInv
<1>6. TypeOK'
  BY <1>1, <1>3, <1>4 DEF IndInv, TypeOK, BucketOK
<1>. QED
  BY <1>5, <1>6 DEF IndInv

LEMMA CrashInv ==
  ASSUME IndInv, Crash
  PROVE  IndInv'
<1>1. /\ UNCHANGED <<objects, answer, requested, accepted>>
      /\ task' = [h \in Threads |->
                    IF task[h] = Idle THEN Idle ELSE Finished(task[h].request, Failed)]
      /\ inflight' = inflight \cup UNION {Abandoned(h) : h \in Threads}
  BY DEF Crash
<1>2. inflight' \subseteq requested
  BY <1>1, InflightType, Abandons
<1>3. ASSUME NEW h \in Threads
      PROVE  task'[h] \in Jobs /\ JobInv(task'[h], objects, requested)
  <2>1. CASE task[h] = Idle
    BY <1>1, <2>1, IdleJob
  <2>2. CASE task[h] # Idle
    <3>1. task[h] \in Jobs /\ JobInv(task[h], objects, requested) /\ task[h].at # "idle"
      BY <2>2, ThisJob DEF JobInv
    <3>. QED
      BY <1>1, <2>2, <3>1, Messages, FinishedInv
  <2>. QED
    BY <2>1, <2>2
<1>4. task' \in [Threads -> Jobs] /\ JobsInv'
  BY <1>1, <1>3 DEF JobsInv
<1>. QED
  BY <1>1, <1>2, <1>4 DEF IndInv, TypeOK, Jobs

LEMMA Preserved == IndInv /\ [Next]_vars => IndInv'
<1> SUFFICES ASSUME IndInv, [Next]_vars PROVE IndInv'
  OBVIOUS
<1>1. CASE UNCHANGED vars
  BY <1>1 DEF vars, IndInv, TypeOK, JobsInv
<1>2. ASSUME NEW h \in Threads, Progress(h) PROVE IndInv'
  BY <1>2, SendAttemptInv, S3HandlesInv, PutAnsweredInv, GetAnsweredInv,
     DispatchFailureInv, OtherFailureInv, ReplyInv DEF Progress
<1>. QED
  BY <1>1, <1>2, AcceptInv, S3LateInv, CrashInv DEF Next

(* The inductive invariant: what a thread was answered by S3 stays true    *)
(* until it has acted on it.                                               *)
THEOREM Invariance == Spec => []IndInv
  BY InitInv, Preserved, PTL DEF Spec

(* What the threads, the bucket and the writes under way can be; above all *)
(* that no retry loop makes a fifth attempt and that nothing is in the     *)
(* bucket that no caller asked to be saved.                                *)
THEOREM TypeCorrect == Spec => []TypeOK
<1>1. IndInv => TypeOK
  BY DEF IndInv
<1>. QED
  BY <1>1, Invariance, PTL

-----------------------------------------------------------------------------
(* The retry loops implement ConditionalStore.                             *)

LEMMA Seen ==
  ASSUME NEW h \in Threads
  PROVE  call[h] = task[h].request /\ found[h] = FoundOf(task[h])
  BY DEF call, found

(* What is seen of a job in a loop and of one that is finished.            *)
LEMMA FoundInLoop ==
  ASSUME NEW job \in Jobs, NEW bucket, NEW asked, JobInv(job, bucket, asked),
         job.at \in {"put", "get"}
  PROVE  /\ (job.wire.status = "read" /\ job.request.op = "load")
              => FoundOf(job) = Message("object", job.wire.body)
         /\ ~(job.wire.status = "read" /\ job.request.op = "load") => FoundOf(job) = None
  BY RequestShape DEF FoundOf, JobInv

LEMMA FoundOfLoop ==
  ASSUME NEW at \in {"put", "get"}, NEW request \in Requests, NEW attempt, NEW wire
  PROVE  /\ (wire.status = "read" /\ request.op = "load")
              => FoundOf(Loop(at, request, attempt, wire)) = Message("object", wire.body)
         /\ ~(wire.status = "read" /\ request.op = "load")
              => FoundOf(Loop(at, request, attempt, wire)) = None
         /\ Loop(at, request, attempt, wire).request = request
<1>1. request # None
  BY RequestShape
<1>. QED
  BY <1>1 DEF FoundOf, Loop

LEMMA FoundWaiting ==
  ASSUME NEW at \in {"put", "get"}, NEW request \in Requests, NEW attempt,
         NEW wire \in {NotSent, Sent}
  PROVE  /\ FoundOf(Loop(at, request, attempt, wire)) = None
         /\ Loop(at, request, attempt, wire).request = request
<1>1. wire.status # "read"
  BY Statuses
<1>. QED
  BY <1>1, FoundOfLoop

LEMMA FoundOfFinished ==
  ASSUME NEW request, NEW result
  PROVE  /\ result # Failed => FoundOf(Finished(request, result)) = result
         /\ result = Failed => FoundOf(Finished(request, result)) = None
         /\ Finished(request, result).request = request
<1>1. Finished(request, result).wire.status = "not sent"
  BY Statuses DEF Finished
<1>. QED
  BY <1>1 DEF FoundOf, Finished

LEMMA FoundOfIdle == FoundOf(Idle) = None /\ Idle.request = None
  BY DEF FoundOf, Idle, Loop

(* What is seen of a step of one thread.                                   *)
LEMMA OneSeen ==
  ASSUME IndInv, NEW h \in Threads, NEW next, Become(h, next)
  PROVE  /\ call' = [call EXCEPT ![h] = next.request]
         /\ found' = [found EXCEPT ![h] = FoundOf(next)]
         /\ next.request = task[h].request => call' = call
         /\ FoundOf(next) = FoundOf(task[h]) => found' = found
<1>1. task \in [Threads -> Jobs]
  BY TaskType DEF IndInv
<1>2. /\ task'[h] = next
      /\ \A t \in Threads \ {h} : task'[t] = task[t]
  BY <1>1 DEF Become
<1>3. /\ call' = [t \in Threads |-> task'[t].request]
      /\ found' = [t \in Threads |-> FoundOf(task'[t])]
  BY DEF call, found, FoundOf
<1>4. \A t \in Threads : FoundOf(task'[t]) = IF t = h THEN FoundOf(next)
                                                     ELSE FoundOf(task[t])
  BY <1>2
<1>5. \A t \in Threads : task'[t].request = IF t = h THEN next.request
                                                     ELSE task[t].request
  BY <1>2
<1>6. /\ call' = [t \in Threads |-> IF t = h THEN next.request ELSE task[t].request]
      /\ found' = [t \in Threads |-> IF t = h THEN FoundOf(next) ELSE FoundOf(task[t])]
  BY <1>3, <1>4, <1>5
<1>. QED
  BY <1>6 DEF call, found

(* How the steps look from outside.                                        *)
Unseen == UNCHANGED <<objects, requested, call, found, answer>>

LEMMA UnseenStep == Unseen => [Store!Next]_(Store!vars)
  BY DEF Unseen, Store!vars

LEMMA DecideStep ==
  ASSUME IndInv, NEW h \in Threads, NEW next, Become(h, next),
         next.request = task[h].request, task[h].request \in Requests,
         task[h].request.op = "load" \/ task[h].request.key \in DOMAIN objects,
         FoundOf(next) = Store!View(task[h].request),
         UNCHANGED <<objects, requested, answer>>
  PROVE  Store!Next
<1>1. Store!Decide(h)
  BY OneSeen, Seen, RequestShape DEF Store!Decide
<1>. QED
  BY <1>1 DEF Store!Next

LEMMA LoseStep ==
  ASSUME IndInv, NEW h \in Threads, NEW next, Become(h, next),
         next.request = task[h].request, FoundOf(next) = None,
         UNCHANGED <<objects, requested, answer>>
  PROVE  Store!Next
<1>1. call' = call /\ found' = [found EXCEPT ![h] = None]
  BY OneSeen
<1>2. found' = [t \in Threads |-> IF t \in {h} THEN None ELSE found[t]]
  BY <1>1 DEF found
<1>3. Store!Lose({h})
  BY <1>1, <1>2 DEF Store!Lose
<1>. QED
  BY <1>3 DEF Store!Next

(* The abstract store as this module writes it.                            *)
LEMMA StoreNames ==
  /\ Store!Failed = Failed
  /\ \A request : Store!Put(request) = Put(request)
  /\ \A status, body : Store!Result(status, body) = Message(status, body)
  BY DEF Store!Failed, Store!Put, Store!Result, Failed, Put, Message

LEMMA ViewIs ==
  ASSUME NEW request \in Requests
  PROVE  /\ request.op = "load" => Store!View(request) = Message("object", Held(request.key))
         /\ (request.op = "save" /\ request.key \in DOMAIN objects) =>
              Store!View(request)
                = Message(IF objects[request.key] = request.body THEN "saved" ELSE "refused",
                          None)
  BY DEF Store!View, Store!Result, Message, Held

-----------------------------------------------------------------------------

LEMMA InitMaps == Init => Store!Init
<1> SUFFICES ASSUME Init PROVE Store!Init
  OBVIOUS
<1>1. call = [t \in Threads |-> None] /\ found = [t \in Threads |-> None]
  BY FoundOfIdle DEF Init, call, found
<1>. QED
  BY <1>1 DEF Init, Store!Init, EmptyBucket

LEMMA AcceptMaps ==
  ASSUME IndInv, NEW h \in Threads, NEW request \in Requests, Accept(h, request)
  PROVE  Store!Next
<1> DEFINE next == Loop(IF request.op = "save" THEN "put" ELSE "get", request, 1, NotSent)
<1>1. Become(h, next) /\ task[h] = Idle
  BY DEF Accept
<1>2. next.request = request /\ FoundOf(next) = None
  BY FoundWaiting
<1> HIDE DEF next
<1>3. /\ call' = [call EXCEPT ![h] = request] /\ found' = found /\ call[h] = None
  BY <1>1, <1>2, OneSeen, FoundOfIdle, Seen
<1>4. Store!Ask(h, request)
  BY <1>3, StoreNames DEF Accept, Store!Ask
<1>. QED
  BY <1>4 DEF Store!Next

LEMMA SendAttemptMaps ==
  ASSUME IndInv, NEW h \in Threads, SendAttempt(h)
  PROVE  Unseen
<1> DEFINE next == Loop(task[h].at, task[h].request, task[h].attempt, Sent)
<1>1. /\ Become(h, next) /\ task[h].at \in {"put", "get"} /\ task[h].wire = NotSent
      /\ UNCHANGED <<objects, requested, answer>>
  BY DEF SendAttempt, ThreadStep, OnWire
<1>2. FoundOf(task[h]) = None
  BY <1>1, ThisJob, FoundInLoop, Statuses
<1>3. next.request = task[h].request /\ FoundOf(next) = None
  BY <1>1, InLoop, FoundWaiting
<1> HIDE DEF next
<1>. QED
  BY <1>1, <1>2, <1>3, OneSeen DEF Unseen

LEMMA LandStep ==
  ASSUME IndInv, NEW p \in requested, objects' = PutIfAbsent(objects, p),
         UNCHANGED <<requested, call, found, answer>>
  PROVE  [Store!Next]_(Store!vars)
<1>1. CASE p.key \in DOMAIN objects
  BY <1>1, PutIfAbsentHolds, UnseenStep DEF Unseen
<1>2. CASE p.key \notin DOMAIN objects
  <2>1. Store!Land(p)
    BY <1>2, PutIfAbsentHolds DEF Store!Land
  <2>. QED
    BY <2>1 DEF Store!Next
<1>. QED
  BY <1>1, <1>2

LEMMA S3HandlesMaps ==
  ASSUME IndInv, NEW h \in Threads, S3Handles(h)
  PROVE  [Store!Next]_(Store!vars)
<1> DEFINE request == task[h].request
           next(wire) == Loop(task[h].at, request, task[h].attempt, wire)
<1>1. /\ task[h].at \in {"put", "get"} /\ UNCHANGED <<requested, answer>>
      /\ task[h].wire = Sent
  BY DEF S3Handles, ThreadStep
<1>2. /\ request \in Requests /\ FoundOf(task[h]) = None
      /\ task[h].at = "put" => request.op = "save" /\ Put(request) \in requested
  BY <1>1, InLoop, ThisJob, FoundInLoop, Statuses
<1>3. \A wire : /\ next(wire).request = request
                /\ ~(wire.status = "read" /\ request.op = "load") => FoundOf(next(wire)) = None
                /\ (wire.status = "read" /\ request.op = "load")
                     => FoundOf(next(wire)) = Message("object", wire.body)
  BY <1>1, <1>2, FoundOfLoop
<1> HIDE DEF next
<1>4. ASSUME NEW wire, OnWire(h, wire) PROVE Become(h, next(wire))
  BY <1>4 DEF OnWire, next
<1>5. ASSUME NEW wire, OnWire(h, wire), ~(wire.status = "read" /\ request.op = "load")
      PROVE  UNCHANGED <<call, found>>
  BY <1>2, <1>3, <1>4, <1>5, OneSeen
<1>6. ASSUME task[h].at = "put", objects' = PutIfAbsent(objects, Put(request)),
             OnWire(h, Message(IF request.key \in DOMAIN objects THEN "exists"
                                                                 ELSE "created", None))
      PROVE  [Store!Next]_(Store!vars)
  <2>1. UNCHANGED <<call, found>>
    BY <1>2, <1>5, <1>6
  <2>. QED
    BY <1>1, <1>2, <1>6, <2>1, LandStep
<1>7. ASSUME task[h].at = "get", objects' = objects,
             OnWire(h, Message("read", Held(request.key)))
      PROVE  [Store!Next]_(Store!vars)
  <2> DEFINE wire == Message("read", Held(request.key))
  <2>1. wire.status = "read" /\ wire.body = Held(request.key) /\ OnWire(h, wire)
    BY <1>7, Statuses
  <2> HIDE DEF wire
  <2>2. CASE request.op = "load"
    <3>1. FoundOf(next(wire)) = Store!View(request) /\ next(wire).request = request
      BY <1>2, <1>3, <2>1, <2>2, ViewIs
    <3>. QED
      BY <1>1, <1>2, <1>4, <1>7, <2>1, <2>2, <3>1, DecideStep
  <2>3. CASE request.op # "load"
    BY <1>1, <1>5, <1>7, <2>1, <2>3, UnseenStep DEF Unseen
  <2>. QED
    BY <2>2, <2>3
<1>8. ASSUME objects' = objects, OnWire(h, Message("denied", None))
      PROVE  [Store!Next]_(Store!vars)
  <2>1. UNCHANGED <<call, found>>
    BY <1>5, <1>8, Statuses
  <2>. QED
    BY <1>1, <1>8, <2>1, UnseenStep DEF Unseen
<1>. QED
  BY <1>6, <1>7, <1>8 DEF S3Handles

(* A thread that finishes.                                                 *)
LEMMA FinishSeen ==
  ASSUME IndInv, NEW h \in Threads, NEW result, Done(h, result)
  PROVE  /\ Become(h, Finished(task[h].request, result))
         /\ Finished(task[h].request, result).request = task[h].request
         /\ result # Failed => FoundOf(Finished(task[h].request, result)) = result
         /\ result = Failed => FoundOf(Finished(task[h].request, result)) = None
  BY FoundOfFinished DEF Done

LEMMA PutAnsweredMaps ==
  ASSUME IndInv, NEW h \in Threads, PutAnswered(h)
  PROVE  [Store!Next]_(Store!vars)
<1> DEFINE request == task[h].request
<1>1. task[h].at = "put" /\ UNCHANGED <<objects, requested, answer>>
  BY DEF PutAnswered, ThreadStep
<1>2. request \in Requests /\ request.op = "save" /\ FoundOf(task[h]) = None
  BY <1>1, InLoop, ThisJob, FoundInLoop
<1>3. CASE task[h].wire.status = "created" /\ Done(h, Message("saved", None))
  <2>1. request.key \in DOMAIN objects /\ objects[request.key] = request.body
    BY <1>1, <1>3, ThisJob DEF JobInv, Holds
  <2>2. Store!View(request) = Message("saved", None)
    BY <1>2, <2>1, ViewIs
  <2>. QED
    <3>1. Message("saved", None) # Failed
      BY Statuses
    <3> DEFINE result == Message("saved", None)
    <3> HIDE DEF result
    <3>2. /\ FoundOf(Finished(request, result)) = Store!View(request)
          /\ Become(h, Finished(request, result))
          /\ Finished(request, result).request = request
      BY <1>3, <2>2, <3>1, FinishSeen DEF result
    <3>. QED
      BY <1>1, <1>2, <2>1, <3>2, DecideStep
<1>4. CASE ReadBack(h)
  <2>1. /\ FoundOf(Loop("get", request, 1, NotSent)) = None
        /\ Loop("get", request, 1, NotSent).request = request
    BY <1>2, FoundWaiting
  <2>. QED
    BY <1>1, <1>2, <1>4, <2>1, OneSeen, UnseenStep DEF ReadBack, Unseen
<1>5. CASE Done(h, Failed)
  BY <1>1, <1>5, FinishSeen, LoseStep
<1>. QED
  BY <1>3, <1>4, <1>5 DEF PutAnswered

LEMMA GetAnsweredMaps ==
  ASSUME IndInv, NEW h \in Threads, GetAnswered(h)
  PROVE  [Store!Next]_(Store!vars)
<1> DEFINE request == task[h].request
           wire == task[h].wire
<1>1. task[h].at = "get" /\ UNCHANGED <<objects, requested, answer>>
  BY DEF GetAnswered, ThreadStep
<1>2. request \in Requests
  BY <1>1, InLoop
<1>3. CASE wire.status = "read" /\ request.op = "load" /\ Done(h, Message("object", wire.body))
  <2>1. FoundOf(task[h]) = Message("object", wire.body)
    BY <1>1, <1>3, ThisJob, FoundInLoop
  <2>2. FoundOf(Finished(request, Message("object", wire.body))) = FoundOf(task[h])
    BY <1>3, <2>1, FinishSeen, Statuses
  <2>. QED
    BY <1>1, <1>3, <2>2, FinishSeen, OneSeen, UnseenStep DEF Unseen
<1>4. CASE wire.status = "read" /\ request.op = "save" /\ Done(h, Compare(request, wire.body))
  <2>1. request.key \in DOMAIN objects /\ wire.body = objects[request.key]
    BY <1>1, <1>4, ThisJob DEF JobInv
  <2>2. Store!View(request) = Compare(request, wire.body)
    BY <1>2, <1>4, <2>1, ViewIs DEF Compare
  <2>3. Compare(request, wire.body) # Failed
    BY Statuses DEF Compare
  <2>. QED
    BY <1>1, <1>2, <1>4, <2>1, <2>2, <2>3, FinishSeen, DecideStep
<1>5. CASE Done(h, Failed)
  BY <1>1, <1>5, FinishSeen, LoseStep
<1>. QED
  BY <1>3, <1>4, <1>5 DEF GetAnswered

LEMMA DispatchFailureMaps ==
  ASSUME IndInv, NEW h \in Threads, DispatchFailure(h)
  PROVE  Store!Next
<1>1. task[h].at \in {"put", "get"} /\ UNCHANGED <<objects, requested, answer>>
  BY DEF DispatchFailure, ThreadStep
<1> DEFINE next == Loop(task[h].at, task[h].request, task[h].attempt + 1, NotSent)
<1>2. next.request = task[h].request /\ FoundOf(next) = None
  BY <1>1, InLoop, FoundWaiting
<1>3. CASE Become(h, next)
  <2> HIDE DEF next
  <2>. QED
    BY <1>1, <1>2, <1>3, LoseStep
<1>4. CASE Done(h, Failed)
  BY <1>1, <1>4, FinishSeen, LoseStep
<1>. QED
  BY <1>3, <1>4 DEF DispatchFailure

LEMMA OtherFailureMaps ==
  ASSUME IndInv, NEW h \in Threads, OtherFailure(h)
  PROVE  Store!Next
  BY FinishSeen, LoseStep DEF OtherFailure, ThreadStep

LEMMA ReplyMaps ==
  ASSUME IndInv, NEW h \in Threads, Reply(h)
  PROVE  Store!Next
<1>1. /\ task[h].at = "done" /\ Become(h, Idle) /\ UNCHANGED <<objects, requested>>
      /\ answer' = [answer EXCEPT ![h] = task[h].result]
  BY DEF Reply, ThreadStep
<1>2. task[h].request # None /\ task[h].result # None
  BY <1>1, ThisJob, RequestShape, ResultShape DEF JobInv
<1>3. task[h].result # Failed => found[h] = task[h].result
  BY <1>1, Seen DEF FoundOf
<1>4. call' = [call EXCEPT ![h] = None] /\ found' = [found EXCEPT ![h] = None]
  BY <1>1, OneSeen, FoundOfIdle
<1>5. Store!Answer(h)
  BY <1>1, <1>2, <1>3, <1>4, Seen, StoreNames DEF Store!Answer
<1>. QED
  BY <1>5 DEF Store!Next

LEMMA S3LateMaps ==
  ASSUME IndInv, S3Late
  PROVE  [Store!Next]_(Store!vars)
<1>1. UNCHANGED <<call, found, answer, requested>>
  BY DEF S3Late, call, found, FoundOf
<1>2. PICK p \in inflight : Process(p) \/ UNCHANGED objects
  BY DEF S3Late
<1>3. p \in requested
  BY <1>2, InflightType
<1>4. CASE Process(p)
  BY <1>1, <1>3, <1>4, LandStep DEF Process
<1>5. CASE UNCHANGED objects
  BY <1>1, <1>5, UnseenStep DEF Unseen
<1>. QED
  BY <1>2, <1>4, <1>5

LEMMA CrashMaps ==
  ASSUME IndInv, Crash
  PROVE  Store!Next
<1>1. /\ UNCHANGED <<objects, answer, requested>>
      /\ task' = [h \in Threads |->
                    IF task[h] = Idle THEN Idle ELSE Finished(task[h].request, Failed)]
  BY DEF Crash
<1>2. ASSUME NEW h \in Threads
      PROVE  task'[h].request = task[h].request /\ FoundOf(task'[h]) = None
  BY <1>1, FoundOfIdle, FoundOfFinished
<1>3. /\ call' = [h \in Threads |-> task'[h].request]
      /\ found' = [h \in Threads |-> FoundOf(task'[h])]
  BY DEF call, found, FoundOf
<1>4. call' = call /\ found' = [h \in Threads |-> IF h \in Threads THEN None ELSE found[h]]
  BY <1>2, <1>3 DEF call
<1>5. Store!Lose(Threads)
  BY <1>1, <1>4 DEF Store!Lose
<1>. QED
  BY <1>5 DEF Store!Next

LEMMA NextMaps == IndInv /\ [Next]_vars => [Store!Next]_(Store!vars)
<1> SUFFICES ASSUME IndInv, [Next]_vars PROVE [Store!Next]_(Store!vars)
  OBVIOUS
<1>1. CASE UNCHANGED vars
  <2>1. Unseen
    BY <1>1 DEF vars, Unseen, call, found, FoundOf
  <2>. QED
    BY <2>1, UnseenStep
<1>2. ASSUME NEW h \in Threads, Progress(h) PROVE [Store!Next]_(Store!vars)
  BY <1>2, SendAttemptMaps, UnseenStep, S3HandlesMaps, PutAnsweredMaps, GetAnsweredMaps,
     DispatchFailureMaps, OtherFailureMaps, ReplyMaps DEF Progress
<1>. QED
  BY <1>1, <1>2, AcceptMaps, S3LateMaps, CrashMaps DEF Next

(* The retry loops, the comparison after a 412 and the threads of the      *)
(* broker implement the conditional store: whatever fails and whatever     *)
(* takes effect late, an object is never replaced, and "saved", "refused"  *)
(* and an object tell what the bucket held (key_material.rs:705-793).      *)
THEOREM KeepsStorePromise == Spec => StorePromise
<1>1. Spec => []IndInv /\ Init /\ [][Next]_vars
  BY Invariance DEF Spec
<1>2. Init => Store!Init
  BY InitMaps
<1>3. IndInv /\ [Next]_vars => [Store!Next]_(Store!vars)
  BY NextMaps
<1>. QED
  BY <1>1, <1>2, <1>3, PTL DEF StorePromise, Store!Spec
=============================================================================
