------------------------ MODULE EnclaveBrokerProofs ------------------------
(***************************************************************************)
(* Theorems about EnclaveBroker, for any callers, settings, sizes and      *)
(* number of connections and restarts.                                     *)
(***************************************************************************)
EXTENDS EnclaveBroker, TLAPS

(* The connections of brokers 1 to n.                                      *)
ConnectionsUpTo(n) ==
  [by : Callers, number : 1..n, thread : {"queued", "reading", "replying", "done"},
   request : Requests \cup {None}, answer : Answers \cup {None}, waits : BOOLEAN]

Allows(conn, config) ==
  /\ config.allowed \in {None, Cid[conn.by]}
  /\ conn.request.op \in {"load", "save"} => conn.request.prefix = config.prefix
  /\ conn.request.op = "save" => config.mode = "init-key"

WithAnswer(i, answer) == [conns[i] EXCEPT !.thread = "replying", !.answer = answer]

(* What the answer on a connection says of the settings and the bucket.    *)
AnswerInv(conn, config, bucket) ==
  /\ conn.answer = Rejected => ~Allows(conn, config)
  /\ conn.answer.kind = "settings" => config.allowed \in {None, Cid[conn.by]}
  /\ conn.answer.kind = "object" =>
       /\ conn.request \in Requests /\ conn.request.op = "load"
       /\ bucket[conn.request.prefix] \in Objects
       /\ conn.answer.size = bucket[conn.request.prefix].size

ConnInv(conn, configs, bucket) ==
  /\ conn \in ConnectionsUpTo(Len(configs))
  /\ conn.request = None => conn.answer = None
  /\ conn.request # None => RequestFits(conn.request)
  /\ conn.answer # None => AnswerInv(conn, configs[conn.number], bucket)

(* Who was told settings passes the CID check, and what was saved came in  *)
(* a frame within the limit.                                               *)
IndInv ==
  /\ TypeOK /\ (running => Len(started) # 0)
  /\ \A i \in Slots : Open(i) => ConnInv(conns[i], started, objects)
  /\ \A c \in Callers : told[c] # 0 => started[told[c]].allowed \in {None, Cid[c]}
  /\ \A p \in Prefixes : objects[p] \in Objects /\ objects[p].saved
                           => SaveOverhead + objects[p].size <= Limit

-----------------------------------------------------------------------------

LEMMA RequestShape ==
  ASSUME NEW request \in Requests
  PROVE  /\ request.op \in {"load", "save"} => request.prefix \in Prefixes
         /\ request.op = "save" => request.size \in Sizes
         /\ request.op \in {"settings", "primary", "backup", "malformed", "load", "save"}
  BY DEF Requests, Request

LEMMA AnswerShape ==
  /\ \A kind \in {"rejected", "error", "settings", "credentials", "nothing", "saved"} :
       Answer(kind, 0) \in Answers
  /\ \A size \in Sizes : Answer("object", size) \in Answers
  /\ Rejected \in Answers /\ Error \in Answers
  BY DEF Answers, Answer, Rejected, Error

(* What holds of a connection goes on to hold when brokers are started and *)
(* free keys are written.                                                  *)
LEMMA ConnStays ==
  ASSUME NEW configs \in Seq(Configs), NEW more \in Seq(Configs),
         NEW bucket, NEW fuller, NEW conn,
         ConnInv(conn, configs, bucket),
         Len(configs) <= Len(more),
         \A n \in 1..Len(configs) : more[n] = configs[n],
         \A p \in Prefixes : bucket[p] \in Objects => fuller[p] = bucket[p]
  PROVE  ConnInv(conn, more, fuller)
<1>1. conn \in ConnectionsUpTo(Len(more)) /\ more[conn.number] = configs[conn.number]
  BY DEF ConnInv, ConnectionsUpTo
<1>2. CASE conn.answer = None
  BY <1>1, <1>2 DEF ConnInv
<1>3. CASE conn.answer # None
  <2>1. AnswerInv(conn, configs[conn.number], bucket)
    BY <1>3 DEF ConnInv
  <2>2. AnswerInv(conn, more[conn.number], fuller)
    BY <1>1, <2>1, RequestShape DEF AnswerInv
  <2>3. QED
    BY <1>1, <1>3, <2>2 DEF ConnInv
<1>4. QED
  BY <1>2, <1>3

(* A step that changes one connection, and may write free keys.            *)
LEMMA SlotStep ==
  ASSUME IndInv, NEW i \in Slots, NEW conn,
         conns' = [conns EXCEPT ![i] = conn],
         conn = None \/ ConnInv(conn, started, objects'),
         UNCHANGED started,
         \A p \in Prefixes : objects[p] \in Objects => objects'[p] = objects[p]
  PROVE  /\ \A j \in Slots : Open(j)' => ConnInv(conns[j], started, objects)'
         /\ (conns \in [Slots -> Connection \cup {None}])'
<1>1. \A j \in Slots : Open(j)' => ConnInv(conns'[j], started, objects')
  <2>1. SUFFICES ASSUME NEW j \in Slots, Open(j)'
                 PROVE  ConnInv(conns'[j], started, objects')
    OBVIOUS
  <2>2. CASE j = i
    BY <2>1, <2>2 DEF IndInv, TypeOK, Open
  <2>3. CASE j # i
    <3>1. conns'[j] = conns[j] /\ ConnInv(conns[j], started, objects)
      BY <2>1, <2>3 DEF IndInv, TypeOK, Open
    <3>2. started \in Seq(Configs) /\ Len(started) <= Len(started)
      BY DEF IndInv, TypeOK
    <3>3. QED
      BY <3>1, <3>2, ConnStays
  <2>4. QED
    BY <2>2, <2>3
<1>2. \A j \in Slots : conns'[j] \in Connection \cup {None}
  BY <1>1 DEF ConnInv, ConnectionsUpTo, Connection, Open
<1>3. conns' \in [Slots -> Connection \cup {None}]
  BY <1>2 DEF IndInv, TypeOK
<1>4. Connection' = Connection
  BY DEF Connection
<1>5. QED
  BY <1>1, <1>3, <1>4

(* Such a step that leaves the rest alone.                                 *)
LEMMA QuietStep ==
  ASSUME IndInv, NEW i \in Slots, NEW conn,
         conns' = [conns EXCEPT ![i] = conn],
         conn = None \/ ConnInv(conn, started, objects),
         UNCHANGED <<started, running, told, objects>>
  PROVE  IndInv'
<1>1. /\ \A j \in Slots : Open(j)' => ConnInv(conns[j], started, objects)'
      /\ (conns \in [Slots -> Connection \cup {None}])'
  BY SlotStep
<1>2. QED
  BY <1>1, Zenon DEF IndInv, TypeOK

(* A thread answers, when the answer is true of its request.               *)
LEMMA AnswerStep ==
  ASSUME IndInv, NEW i \in Slots, Open(i), conns[i].request # None,
         NEW answer \in Answers,
         Respond(i, answer), UNCHANGED objects,
         AnswerInv(WithAnswer(i, answer), Config(i), objects)
  PROVE  IndInv'
<1> DEFINE conn == WithAnswer(i, answer)
<1>1. ConnInv(conns[i], started, objects)
  BY DEF IndInv
<1>2. conns' = [conns EXCEPT ![i] = conn]
  BY DEF Respond, IndInv, TypeOK, WithAnswer
<1>3. conn \in ConnectionsUpTo(Len(started)) /\ conn.request = conns[i].request
      /\ conn.number = conns[i].number
  BY <1>1 DEF ConnInv, ConnectionsUpTo, WithAnswer
<1>4. ConnInv(conn, started, objects)
  BY <1>1, <1>3 DEF ConnInv, Config
<1>5. QED
  BY <1>2, <1>4, QuietStep DEF Respond

(* The record of a caller that leaves.                                     *)
LEMMA LeaveStep ==
  ASSUME IndInv, NEW i \in Slots, Open(i), Leave(i)
  PROVE  \E conn : /\ conns' = [conns EXCEPT ![i] = conn]
                   /\ conn = None \/ ConnInv(conn, started, objects)
<1>1. ConnInv(conns[i], started, objects)
  BY DEF IndInv
<1>2. CASE conns[i].thread = "done"
  <2>1. conns' = [conns EXCEPT ![i] = None]
    BY <1>2 DEF Leave, IndInv, TypeOK
  <2>2. QED
    BY <2>1
<1>3. CASE conns[i].thread # "done"
  <2> DEFINE conn == [conns[i] EXCEPT !.waits = FALSE]
  <2>1. conns' = [conns EXCEPT ![i] = conn]
    BY <1>3 DEF Leave, IndInv, TypeOK
  <2>2. conn \in ConnectionsUpTo(Len(started)) /\ conn.request = conns[i].request
        /\ conn.answer = conns[i].answer /\ conn.number = conns[i].number
        /\ conn.by = conns[i].by
    BY <1>1 DEF ConnInv, ConnectionsUpTo
  <2>3. ConnInv(conn, started, objects)
    BY <1>1, <2>2 DEF ConnInv, AnswerInv, Allows
  <2>4. QED
    BY <2>1, <2>3
<1>4. QED
  BY <1>2, <1>3

-----------------------------------------------------------------------------

LEMMA InitInv == Init => IndInv
<1>1. SUFFICES ASSUME Init PROVE IndInv
  OBVIOUS
<1>2. TypeOK
  <2>1. started \in Seq(Configs)
    BY <1>1 DEF Init
  <2>2. conns \in [Slots -> Connection \cup {None}] /\ told \in [Callers -> 0..Len(started)]
    BY <1>1 DEF Init
  <2>3. objects \in [Prefixes -> Objects \cup {None}]
    BY <1>1 DEF Init, Objects
  <2>4. QED
    BY <1>1, <2>1, <2>2, <2>3 DEF Init, TypeOK
<1>3. \A i \in Slots : ~Open(i)
  BY <1>1 DEF Init, Open
<1>4. ASSUME NEW p \in Prefixes, objects[p] \in Objects, objects[p].saved
      PROVE  FALSE
  <2>1. objects[p] \in [size : Sizes, saved : {FALSE}]
    BY <1>1, <1>4, BrokerAssumption DEF Init
  <2>2. QED
    BY <1>4, <2>1
<1>5. QED
  BY <1>1, <1>2, <1>3, <1>4 DEF IndInv, Init

(* One lemma per group of steps.                                           *)
LEMMA StartInv ==
  ASSUME IndInv, NEW config \in Configs, StartBroker(config)
  PROVE  IndInv'
<1>1. /\ started \in Seq(Configs) /\ started' = Append(started, config)
      /\ started' \in Seq(Configs) /\ Len(started') = Len(started) + 1
      /\ \A n \in 1..Len(started) : started'[n] = started[n]
  <2>1. started \in Seq(Configs) /\ started' = Append(started, config)
    BY DEF StartBroker, IndInv, TypeOK
  <2>2. QED
    BY <2>1
<1>2. ASSUME NEW i \in Slots, Open(i) PROVE ConnInv(conns[i], started', objects)
  <2>1. ConnInv(conns[i], started, objects)
    BY <1>2 DEF IndInv
  <2>2. Len(started) <= Len(started')
    BY <1>1
  <2>3. QED
    BY <1>1, <2>1, <2>2, ConnStays
<1>3. TypeOK'
  <2>1. conns \in [Slots -> Connection' \cup {None}]
    <3>1. \A i \in Slots : conns[i] \in Connection' \cup {None}
      BY <1>2 DEF ConnInv, ConnectionsUpTo, Connection, Open
    <3>2. QED
      BY <3>1 DEF IndInv, TypeOK
  <2>2. told \in [Callers -> 0..Len(started')]
    BY <1>1 DEF IndInv, TypeOK
  <2>3. QED
    BY <1>1, <2>1, <2>2 DEF StartBroker, IndInv, TypeOK
<1>4. ASSUME NEW c \in Callers, told[c] # 0 PROVE started'[told[c]].allowed \in {None, Cid[c]}
  <2>1. told[c] \in 1..Len(started)
    BY <1>1, <1>4 DEF IndInv, TypeOK
  <2>2. QED
    BY <1>1, <1>4, <2>1 DEF IndInv
<1>5. Len(started') # 0
  BY <1>1
<1>6. QED
  BY <1>2, <1>3, <1>4, <1>5 DEF IndInv, StartBroker, Open

LEMMA EndInv == IndInv /\ BrokerEnds => IndInv'
<1>1. SUFFICES ASSUME IndInv, BrokerEnds PROVE IndInv'
  OBVIOUS
<1>2. ASSUME NEW i \in Slots, conns'[i] # None PROVE ConnInv(conns'[i], started, objects)
  <2>1. Open(i) /\ ConnInv(conns[i], started, objects)
    BY <1>1, <1>2 DEF BrokerEnds, IndInv, Open
  <2>2. CASE conns'[i] = conns[i]
    BY <2>1, <2>2
  <2>3. CASE conns'[i] = [conns[i] EXCEPT !.thread = "done", !.answer = None]
    <3> DEFINE conn == [conns[i] EXCEPT !.thread = "done", !.answer = None]
    <3>1. conn \in ConnectionsUpTo(Len(started)) /\ conn.request = conns[i].request
          /\ conn.answer = None
      BY <2>1 DEF ConnInv, ConnectionsUpTo
    <3>2. QED
      BY <2>1, <2>3, <3>1 DEF ConnInv
  <2>4. QED
    BY <1>1, <1>2, <2>1, <2>2, <2>3 DEF BrokerEnds
<1>3. conns' \in [Slots -> Connection \cup {None}]
  <2>1. \A i \in Slots : conns'[i] \in Connection \cup {None}
    BY <1>2 DEF ConnInv, ConnectionsUpTo, Connection
  <2>2. QED
    BY <1>1, <2>1 DEF BrokerEnds
<1>4. QED
  BY <1>1, <1>2, <1>3, Zenon DEF BrokerEnds, IndInv, TypeOK, Open, Connection

LEMMA ConnectInv ==
  ASSUME IndInv, NEW c \in Callers, NEW i \in Slots, Connect(c, i)
  PROVE  IndInv'
<1> DEFINE conn == [by |-> c, number |-> Len(started), thread |-> "queued",
                    request |-> None, answer |-> None, waits |-> TRUE]
<1>1. conn \in ConnectionsUpTo(Len(started))
  BY DEF Connect, ConnectionsUpTo, IndInv, TypeOK
<1>2. ConnInv(conn, started, objects)
  BY <1>1 DEF ConnInv
<1>3. QED
  BY <1>2, QuietStep DEF Connect

LEMMA SendInv ==
  ASSUME IndInv, NEW i \in Slots, NEW request \in Requests, SendRequest(i, request)
  PROVE  IndInv'
<1>1. CASE RequestFits(request)
  <2> DEFINE conn == [conns[i] EXCEPT !.request = request]
  <2>1. ConnInv(conns[i], started, objects)
    BY DEF SendRequest, IndInv
  <2>2. conns' = [conns EXCEPT ![i] = conn]
    BY <1>1 DEF SendRequest, IndInv, TypeOK
  <2>3. conn \in ConnectionsUpTo(Len(started)) /\ conn.request = request /\ conn.answer = None
    BY <2>1 DEF ConnInv, ConnectionsUpTo, SendRequest
  <2>4. ConnInv(conn, started, objects)
    BY <1>1, <2>1, <2>3 DEF ConnInv
  <2>5. QED
    BY <2>2, <2>4, QuietStep DEF SendRequest
<1>2. CASE ~RequestFits(request)
  <2>1. PICK conn : /\ conns' = [conns EXCEPT ![i] = conn]
                    /\ conn = None \/ ConnInv(conn, started, objects)
    BY <1>2, LeaveStep DEF SendRequest
  <2>2. QED
    BY <2>1, QuietStep DEF SendRequest
<1>3. QED
  BY <1>1, <1>2

LEMMA ReceiveInv ==
  ASSUME IndInv, NEW i \in Slots, Receive(i)
  PROVE  IndInv'
<1>1. Open(i) /\ ConnInv(conns[i], started, objects)
  BY DEF Receive, IndInv
<1>2. PICK conn : /\ conns' = [conns EXCEPT ![i] = conn]
                  /\ conn = None \/ ConnInv(conn, started, objects)
  BY LeaveStep DEF Receive
<1>3. UNCHANGED <<started, running, objects>>
  BY DEF Receive
<1>4. /\ \A j \in Slots : Open(j)' => ConnInv(conns[j], started, objects)'
      /\ (conns \in [Slots -> Connection \cup {None}])'
  BY <1>2, <1>3, SlotStep
<1>5. conns[i].by \in Callers /\ conns[i].number \in 1..Len(started)
  BY <1>1 DEF ConnInv, ConnectionsUpTo
<1>6. conns[i].answer = Answer("settings", 0) =>
        started[conns[i].number].allowed \in {None, Cid[conns[i].by]}
  BY <1>1, AnswerShape, BrokerAssumption DEF ConnInv, AnswerInv, Answer
<1>7. /\ told' \in [Callers -> 0..Len(started)]
      /\ \A c \in Callers : told'[c] # 0 => started[told'[c]].allowed \in {None, Cid[c]}
  <2>1. CASE conns[i].answer = Answer("settings", 0)
    <3>1. told' = [told EXCEPT ![conns[i].by] = conns[i].number]
      BY <2>1 DEF Receive
    <3>2. QED
      BY <1>5, <1>6, <2>1, <3>1 DEF IndInv, TypeOK
  <2>2. CASE conns[i].answer # Answer("settings", 0)
    BY <2>2 DEF Receive, IndInv, TypeOK
  <2>3. QED
    BY <2>1, <2>2
<1>8. QED
  BY <1>3, <1>4, <1>7, Zenon DEF IndInv, TypeOK

LEMMA HangUpInv ==
  ASSUME IndInv, NEW i \in Slots, HangUp(i)
  PROVE  IndInv'
<1>1. PICK conn : /\ conns' = [conns EXCEPT ![i] = conn]
                  /\ conn = None \/ ConnInv(conn, started, objects)
  BY LeaveStep DEF HangUp
<1>2. QED
  BY <1>1, QuietStep DEF HangUp

LEMMA AcceptInv ==
  ASSUME IndInv, NEW i \in Slots, Accept(i)
  PROVE  IndInv'
<1> DEFINE conn == [conns[i] EXCEPT !.thread = "reading"]
<1>1. ConnInv(conns[i], started, objects)
  BY DEF Accept, IndInv
<1>2. conns' = [conns EXCEPT ![i] = conn]
  BY DEF Accept, IndInv, TypeOK
<1>3. conn \in ConnectionsUpTo(Len(started)) /\ conn.request = conns[i].request
      /\ conn.answer = conns[i].answer /\ conn.number = conns[i].number
      /\ conn.by = conns[i].by
  BY <1>1 DEF ConnInv, ConnectionsUpTo
<1>4. ConnInv(conn, started, objects)
  BY <1>1, <1>3 DEF ConnInv, AnswerInv, Allows
<1>5. QED
  BY <1>2, <1>4, QuietStep DEF Accept

(* What an answer leaves alone on its connection.                          *)
LEMMA Answered ==
  ASSUME IndInv, NEW i \in Slots, Open(i), conns[i].request # None, NEW answer
  PROVE  LET conn == WithAnswer(i, answer) IN
         /\ conn.request = conns[i].request /\ conn.request \in Requests
         /\ conn.answer = answer
         /\ Allows(conn, Config(i)) <=> Permitted(i)
         /\ CidAllowed(i) <=> Config(i).allowed \in {None, Cid[conn.by]}
<1> DEFINE conn == WithAnswer(i, answer)
<1>1. conns[i] \in ConnectionsUpTo(Len(started))
  BY DEF IndInv, ConnInv
<1>2. conn.request = conns[i].request /\ conn.answer = answer /\ conn.by = conns[i].by
      /\ conn.request \in Requests
  BY <1>1 DEF ConnectionsUpTo, WithAnswer
<1>3. QED
  BY <1>2 DEF Allows, Permitted, CidAllowed, TargetAllowed

(* Answers about which there is nothing to show.                           *)
LEMMA PlainStep ==
  ASSUME IndInv, NEW i \in Slots, Open(i), conns[i].request # None,
         NEW kind \in {"error", "credentials", "nothing"},
         Respond(i, Answer(kind, 0)), UNCHANGED objects
  PROVE  IndInv'
<1> DEFINE conn == WithAnswer(i, Answer(kind, 0))
<1>1. conn.answer = Answer(kind, 0)
  BY Answered
<1>2. AnswerInv(conn, Config(i), objects)
  BY <1>1 DEF AnswerInv, Answer, Rejected
<1>3. QED
  BY <1>2, AnswerStep, AnswerShape

LEMMA RefuseInv ==
  ASSUME IndInv, NEW i \in Slots, Refuse(i)
  PROVE  IndInv'
<1> DEFINE conn == WithAnswer(i, Rejected)
<1>1. Open(i) /\ conns[i].request # None /\ ~Permitted(i) /\ Respond(i, Rejected)
      /\ UNCHANGED objects
  BY DEF Refuse, HasRead
<1>2. conn.answer = Rejected /\ ~Allows(conn, Config(i))
  BY <1>1, Answered
<1>3. AnswerInv(conn, Config(i), objects)
  BY <1>2 DEF AnswerInv, Answer, Rejected
<1>4. QED
  BY <1>1, <1>3, AnswerStep, AnswerShape

LEMMA SettingsInv ==
  ASSUME IndInv, NEW i \in Slots, GiveSettings(i)
  PROVE  IndInv'
<1> DEFINE answer == Answer("settings", 0)
<1> DEFINE conn == WithAnswer(i, answer)
<1>1. Open(i) /\ conns[i].request # None /\ Permitted(i) /\ Respond(i, answer)
      /\ UNCHANGED objects
  BY DEF GiveSettings, HasRead
<1>2. conn.answer = answer /\ Config(i).allowed \in {None, Cid[conn.by]}
  <2>1. CidAllowed(i)
    BY <1>1 DEF Permitted
  <2>2. QED
    BY <1>1, <2>1, Answered
<1>3. AnswerInv(conn, Config(i), objects)
  BY <1>2 DEF AnswerInv, Answer, Rejected
<1>4. QED
  BY <1>1, <1>3, AnswerStep, AnswerShape

LEMMA LoadInv ==
  ASSUME IndInv, NEW i \in Slots, Load(i)
  PROVE  IndInv'
<1> DEFINE held == objects[conns[i].request.prefix]
<1>1. Open(i) /\ conns[i].request # None /\ conns[i].request.op = "load" /\ UNCHANGED objects
      /\ Respond(i, IF held = None THEN Answer("nothing", 0) ELSE Answer("object", held.size))
  BY DEF Load, HasRead
<1>2. CASE held = None
  BY <1>1, <1>2, PlainStep
<1>3. CASE held # None
  <2> DEFINE answer == Answer("object", held.size)
  <2> DEFINE conn == WithAnswer(i, answer)
  <2>1. /\ conn.answer = answer
        /\ conn.request = conns[i].request /\ conn.request \in Requests
    BY <1>1, Answered
  <2>2. held \in Objects
    <3>1. conns[i].request.prefix \in Prefixes
      BY <1>1, <2>1, RequestShape
    <3>2. QED
      BY <1>3, <3>1 DEF IndInv, TypeOK
  <2>3. answer \in Answers
    BY <2>2, AnswerShape DEF Objects
  <2>4. AnswerInv(conn, Config(i), objects)
    BY <1>1, <2>1, <2>2 DEF AnswerInv, Answer, Rejected
  <2>5. QED
    BY <1>1, <1>3, <2>3, <2>4, AnswerStep
<1>4. QED
  BY <1>2, <1>3

LEMMA SaveInv ==
  ASSUME IndInv, NEW i \in Slots, Save(i)
  PROVE  IndInv'
<1> DEFINE request == conns[i].request
<1> DEFINE body == [size |-> request.size, saved |-> TRUE]
<1>1. /\ Open(i) /\ request # None /\ request.op = "save"
      /\ objects' = IF objects[request.prefix] = None
                      THEN [objects EXCEPT ![request.prefix] = body] ELSE objects
      /\ Respond(i, Answer("saved", 0)) \/ Respond(i, Error)
  BY DEF Save, HasRead
<1>2. ConnInv(conns[i], started, objects)
  BY <1>1 DEF IndInv
<1>3. request.prefix \in Prefixes /\ request.size \in Sizes /\ SaveOverhead + request.size <= Limit
  <2>1. request \in Requests
    BY <1>1, <1>2 DEF ConnInv, ConnectionsUpTo
  <2>2. QED
    BY <1>1, <1>2, <2>1, RequestShape DEF ConnInv, RequestFits
<1>4. /\ objects' \in [Prefixes -> Objects \cup {None}]
      /\ \A p \in Prefixes : objects[p] \in Objects => objects'[p] = objects[p]
      /\ \A p \in Prefixes : objects'[p] \in Objects /\ objects'[p].saved
                               => SaveOverhead + objects'[p].size <= Limit
  <2>1. CASE objects[request.prefix] = None
    <3>1. body \in Objects /\ body.size = request.size
      BY <1>3 DEF Objects
    <3>2. objects' = [objects EXCEPT ![request.prefix] = body]
      BY <1>1, <2>1
    <3>3. QED
      BY <1>3, <2>1, <3>1, <3>2, BrokerAssumption DEF IndInv, TypeOK
  <2>2. CASE objects[request.prefix] # None
    BY <1>1, <2>2 DEF IndInv, TypeOK
  <2>3. QED
    BY <2>1, <2>2
<1>5. PICK kind \in {"saved", "error"} : Respond(i, Answer(kind, 0))
  BY <1>1 DEF Error
<1> DEFINE conn == WithAnswer(i, Answer(kind, 0))
<1>6. ConnInv(conn, started, objects')
  <2>1. conn.answer = Answer(kind, 0) /\ conn.request = request
    BY <1>1, Answered
  <2>2. conn \in ConnectionsUpTo(Len(started)) /\ conn.number = conns[i].number
    <3>1. Answer(kind, 0) \in Answers
      BY AnswerShape
    <3>2. QED
      BY <1>2, <3>1 DEF ConnInv, ConnectionsUpTo, WithAnswer
  <2>3. AnswerInv(conn, started[conn.number], objects')
    BY <2>1 DEF AnswerInv, Answer, Rejected
  <2>4. QED
    BY <1>1, <1>2, <2>1, <2>2, <2>3 DEF ConnInv
<1>7. conns' = [conns EXCEPT ![i] = conn] /\ UNCHANGED <<started, running, told>>
  BY <1>5 DEF Respond, IndInv, TypeOK, WithAnswer
<1>8. /\ \A j \in Slots : Open(j)' => ConnInv(conns[j], started, objects)'
      /\ (conns \in [Slots -> Connection \cup {None}])'
  BY <1>4, <1>6, <1>7, SlotStep
<1>9. QED
  BY <1>4, <1>7, <1>8, Zenon DEF IndInv, TypeOK

LEMMA FailInv ==
  ASSUME IndInv, NEW i \in Slots, Fail(i)
  PROVE  IndInv'
<1>1. /\ Open(i) /\ conns[i].request # None /\ Respond(i, Answer("error", 0))
      /\ UNCHANGED objects
  BY DEF Fail, HasRead, Error
<1>2. QED
  BY <1>1, PlainStep

LEMMA ReplyInv ==
  ASSUME IndInv, NEW i \in Slots, Reply(i)
  PROVE  IndInv'
<1>1. Open(i) /\ ConnInv(conns[i], started, objects)
  BY DEF Reply, IndInv
<1>2. CASE ~conns[i].waits
  <2>1. conns' = [conns EXCEPT ![i] = None]
    BY <1>2 DEF Reply, IndInv, TypeOK
  <2>2. QED
    BY <2>1, QuietStep DEF Reply
<1>3. CASE conns[i].waits
  <2> DEFINE answer == IF AnswerFits(conns[i].answer) THEN conns[i].answer ELSE None
  <2> DEFINE conn == [conns[i] EXCEPT !.thread = "done", !.answer = answer]
  <2>1. conns' = [conns EXCEPT ![i] = conn]
    BY <1>3 DEF Reply, IndInv, TypeOK
  <2>2. /\ conn \in ConnectionsUpTo(Len(started)) /\ conn.request = conns[i].request
        /\ conn.answer \in {conns[i].answer, None} /\ conn.number = conns[i].number
        /\ conn.by = conns[i].by
    BY <1>1 DEF ConnInv, ConnectionsUpTo
  <2>3. ConnInv(conn, started, objects)
    BY <1>1, <2>2 DEF ConnInv, AnswerInv, Allows
  <2>4. QED
    BY <2>1, <2>3, QuietStep DEF Reply
<1>4. QED
  BY <1>2, <1>3

LEMMA StepInv == IndInv /\ [Next]_vars => IndInv'
<1>1. SUFFICES ASSUME IndInv, [Next]_vars PROVE IndInv'
  OBVIOUS
<1>2. ASSUME NEW config \in Configs, StartBroker(config) PROVE IndInv'
  BY <1>1, <1>2, StartInv
<1>3. CASE BrokerEnds
  BY <1>1, <1>3, EndInv
<1>4. ASSUME NEW i \in Slots, NEW c \in Callers, Connect(c, i) PROVE IndInv'
  BY <1>1, <1>4, ConnectInv
<1>5. ASSUME NEW i \in Slots, NEW request \in Requests, SendRequest(i, request) PROVE IndInv'
  BY <1>1, <1>5, SendInv
<1>6. ASSUME NEW i \in Slots, Receive(i) \/ HangUp(i) \/ Accept(i) PROVE IndInv'
  BY <1>1, <1>6, ReceiveInv, HangUpInv, AcceptInv
<1>7. ASSUME NEW i \in Slots, Thread(i) PROVE IndInv'
  <2>1. CASE Refuse(i) \/ GiveSettings(i) \/ Load(i)
    BY <1>1, <2>1, RefuseInv, SettingsInv, LoadInv
  <2>2. CASE Save(i) \/ Fail(i) \/ Reply(i)
    BY <1>1, <2>2, SaveInv, FailInv, ReplyInv
  <2>3. CASE GiveCredentials(i)
    BY <1>1, <2>3, PlainStep DEF GiveCredentials, HasRead
  <2>4. CASE PeerGone(i)
    BY <1>1, <2>4, QuietStep DEF PeerGone
  <2>5. QED
    BY <1>7, <2>1, <2>2, <2>3, <2>4 DEF Thread
<1>8. CASE UNCHANGED vars
  BY <1>1, <1>8, Zenon DEF vars, IndInv, TypeOK, Open, Connection
<1>9. QED
  BY <1>1, <1>2, <1>3, <1>4, <1>5, <1>6, <1>7, <1>8 DEF Next

LEMMA Invariant == Spec => []IndInv
  BY InitInv, StepInv, PTL DEF Spec

-----------------------------------------------------------------------------

(* TypeOK holds of every reachable state: an answer always belongs to a    *)
(* connection of a broker that was started, and nobody was told settings   *)
(* of one that was not.                                                    *)
THEOREM TypeCorrect == Spec => []TypeOK
<1>1. IndInv => TypeOK
  BY DEF IndInv
<1>2. QED
  BY <1>1, Invariant, PTL

(* ToldHolds: handle_broker_request never turns away a caller that keeps   *)
(* to the settings this broker told it, however many callers there are.    *)
THEOREM SettingsHold == Spec => []ToldHolds
<1>1. ASSUME IndInv, NEW i \in Slots, Open(i), told[conns[i].by] = conns[i].number,
             Within(Config(i), conns[i].request), conns[i].answer = Rejected
      PROVE  FALSE
  <2>1. ConnInv(conns[i], started, objects)
    BY <1>1 DEF IndInv
  <2>2. conns[i].by \in Callers /\ told[conns[i].by] # 0
    BY <1>1, <2>1 DEF ConnInv, ConnectionsUpTo
  <2>3. Config(i).allowed \in {None, Cid[conns[i].by]}
    BY <1>1, <2>2 DEF IndInv, Config
  <2>4. ~Allows(conns[i], Config(i))
    BY <1>1, <2>1, AnswerShape, BrokerAssumption DEF ConnInv, AnswerInv, Config
  <2>5. QED
    BY <1>1, <2>3, <2>4 DEF Allows, Within
<1>2. IndInv => ToldHolds
  BY <1>1 DEF ToldHolds
<1>3. QED
  BY <1>2, Invariant, PTL

(* SavedIsLoadable: with ObjectOverhead <= SaveOverhead, an object that a  *)
(* broker stored comes back whole, whatever its size and the limit are.    *)
THEOREM SavedLoadable == Spec => SavedIsLoadable
<1>1. ASSUME IndInv, NEW i \in Slots, Reply(i), conns[i].waits,
             conns[i].answer.kind = "object", objects[conns[i].request.prefix].saved
      PROVE  conns'[i].answer = conns[i].answer
  <2>1. Open(i) /\ ConnInv(conns[i], started, objects)
    BY <1>1 DEF Reply, IndInv
  <2>2. /\ conns'[i] = [conns[i] EXCEPT !.thread = "done",
                        !.answer = IF AnswerFits(conns[i].answer) THEN conns[i].answer ELSE None]
        /\ conns[i] \in ConnectionsUpTo(Len(started))
    BY <1>1, <2>1 DEF Reply, IndInv, TypeOK, ConnInv
  <2>3. conns'[i].answer = IF AnswerFits(conns[i].answer) THEN conns[i].answer ELSE None
    BY <2>2 DEF ConnectionsUpTo
  <2>4. CASE conns[i].answer = None
    BY <2>3, <2>4
  <2>5. CASE conns[i].answer # None
    <3> DEFINE held == objects[conns[i].request.prefix]
    <3>1. /\ conns[i].request \in Requests /\ conns[i].request.op = "load"
          /\ held \in Objects /\ conns[i].answer.size = held.size
      BY <1>1, <2>1, <2>5 DEF ConnInv, AnswerInv
    <3>2. SaveOverhead + held.size <= Limit
      BY <1>1, <3>1, RequestShape DEF IndInv
    <3>3. held.size \in Nat
      BY <3>1, BrokerAssumption DEF Objects
    <3>4. AnswerFits(conns[i].answer)
      BY <3>1, <3>2, <3>3, BrokerAssumption DEF AnswerFits
    <3>5. QED
      BY <2>3, <3>4
  <2>6. QED
    BY <2>4, <2>5
<1>2. IndInv /\ [Next]_vars =>
        [\A i \in Slots :
           Reply(i) /\ conns[i].waits /\ conns[i].answer.kind = "object"
             /\ objects[conns[i].request.prefix].saved
           => conns'[i].answer = conns[i].answer]_vars
  BY <1>1
<1>3. QED
  BY <1>2, Invariant, PTL DEF Spec, SavedIsLoadable
=============================================================================
