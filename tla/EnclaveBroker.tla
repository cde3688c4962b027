--------------------------- MODULE EnclaveBroker ---------------------------
(***************************************************************************)
(* enclave-broker as a server: it keeps the settings it started with until *)
(* it ends, accepts connections in one loop, and answers the one request   *)
(* of each connection in a thread of its own.  Callers are the tees, and   *)
(* whatever else reaches the port.                                         *)
(*                                                                         *)
(* A frame is known by its size.  What S3 and the credential chain answer  *)
(* is left open (BrokerS3 and KeyMaterial have it); an object is known by  *)
(* the prefix it lies under and its size.                                  *)
(***************************************************************************)
EXTENDS Naturals, Sequences

CONSTANTS
  Callers,         \* processes that connect to the broker
  Cid,             \* per caller, its vsock CID, or None over TCP
  Configs,         \* [mode, prefix, allowed, backup]: what a broker is started with
  Prefixes,        \* S3 prefixes
  Sizes,           \* sizes of object bodies, as JSON
  Limit,           \* MAX_JSON_FRAME_LENGTH
  SaveOverhead,    \* size of a SaveObjectIfAbsent frame but for its body
  ObjectOverhead,  \* size of an Object frame but for its body
  Slots,           \* bound: connections at a time
  MaxStarts,       \* bound: starts of the broker
  None             \* "no value"

VARIABLES
  started,  \* the configurations of all brokers started so far
  running,  \* the last of them runs
  conns,    \* the connections; a slot is None when it is free
  told,     \* per caller, the broker whose settings it was told last, or 0
  objects   \* per prefix, its object: [size, saved], or None

vars == <<started, running, conns, told, objects>>

Request(op, prefix, size) == [op |-> op, prefix |-> prefix, size |-> size]

(* What a caller may send; "malformed" is a frame that does not parse or   *)
(* announces more than Limit bytes.                                        *)
Requests ==
  {Request(op, None, 0) : op \in {"settings", "primary", "backup", "malformed"}}
    \cup {Request("load", prefix, 0) : prefix \in Prefixes}
    \cup {Request("save", prefix, size) : prefix \in Prefixes, size \in Sizes}

Answers ==
  [kind : {"rejected", "error", "settings", "credentials", "nothing", "saved", "object"},
   size : Sizes \cup {0}]

Objects == [size : Sizes, saved : BOOLEAN]

Answer(kind, size) == [kind |-> kind, size |-> size]
Rejected == Answer("rejected", 0)
Error    == Answer("error", 0)

(* A save carries bucket and key, an answer to a load nothing but the body.*)
ASSUME BrokerAssumption ==
  /\ Sizes \subseteq Nat /\ {Limit, SaveOverhead, ObjectOverhead} \subseteq Nat
  /\ ObjectOverhead <= SaveOverhead
  /\ None \notin Requests \cup Answers \cup Objects

(* The size of a frame matters when it carries a body; all others are      *)
(* small.                                                                  *)
RequestFits(request) == request.op = "save" => SaveOverhead + request.size <= Limit

(* Faulty variant: the answer wraps the body in more than the save did.    *)
AnswerFitsWrapped(answer) ==
  answer.kind = "object" => SaveOverhead + ObjectOverhead + answer.size <= Limit

AnswerFits(answer) == answer.kind = "object" => ObjectOverhead + answer.size <= Limit

-----------------------------------------------------------------------------
(* The bucket may hold objects that somebody else put there.               *)
Init ==
  /\ started = <<>>
  /\ running = FALSE
  /\ conns = [i \in Slots |-> None]
  /\ told = [c \in Callers |-> 0]
  /\ objects \in [Prefixes -> {None} \cup [size : Sizes, saved : {FALSE}]]

(* Half-set explicit credentials are refused; a second broker cannot bind. *)
StartBroker(config) ==
  /\ ~running /\ Len(started) < MaxStarts
  /\ config.backup # "half set"
  /\ started' = Append(started, config)
  /\ running' = TRUE
  /\ UNCHANGED <<conns, told, objects>>

Open(i) == conns[i] # None

(* The process ends and all threads with it, because accept failed, no     *)
(* thread could be spawned, or it was killed.  Its connections close; an   *)
(* answer that was written stays readable.                                 *)
BrokerEnds ==
  /\ running
  /\ running' = FALSE
  /\ conns' = [i \in Slots |->
                 IF ~Open(i) \/ conns[i].thread = "done" THEN conns[i]
                 ELSE IF conns[i].waits
                   THEN [conns[i] EXCEPT !.thread = "done", !.answer = None]
                   ELSE None]
  /\ UNCHANGED <<started, told, objects>>

-----------------------------------------------------------------------------
(* Callers.  A caller makes a connection for each request and waits on it. *)

(* Faulty variant: a connection is made although nobody listens.           *)
ConnectUnheard(c, i) ==
  /\ ~Open(i)
  /\ \A j \in Slots : Open(j) /\ conns[j].waits => conns[j].by # c
  /\ conns' = [conns EXCEPT ![i] =
                 [by |-> c, number |-> Len(started), thread |-> "queued",
                  request |-> None, answer |-> None, waits |-> TRUE]]
  /\ UNCHANGED <<started, running, told, objects>>

Connect(c, i) ==
  /\ running /\ ~Open(i)
  /\ \A j \in Slots : Open(j) /\ conns[j].waits => conns[j].by # c
  /\ conns' = [conns EXCEPT ![i] =
                 [by |-> c, number |-> Len(started), thread |-> "queued",
                  request |-> None, answer |-> None, waits |-> TRUE]]
  /\ UNCHANGED <<started, running, told, objects>>

(* The caller takes no further part; the thread may still have to.         *)
Leave(i) ==
  conns' = [conns EXCEPT ![i] = IF @.thread = "done" THEN None ELSE [@ EXCEPT !.waits = FALSE]]

(* write_json_frame: a frame above the limit is not sent, and the caller   *)
(* gives up.  A caller that never sends anything stalls its thread.        *)
SendRequest(i, request) ==
  /\ Open(i) /\ conns[i].waits /\ conns[i].request = None
  /\ IF RequestFits(request) THEN conns' = [conns EXCEPT ![i].request = request]
                             ELSE Leave(i)
  /\ UNCHANGED <<started, running, told, objects>>

(* read_json_frame: the answer, or the end of the connection.              *)
Receive(i) ==
  /\ Open(i) /\ conns[i].waits /\ conns[i].thread = "done"
  /\ Leave(i)
  /\ told' = IF conns[i].answer = Answer("settings", 0)
               THEN [told EXCEPT ![conns[i].by] = conns[i].number] ELSE told
  /\ UNCHANGED <<started, running, objects>>

(* The caller ends.  A request it has sent is carried out all the same.    *)
HangUp(i) ==
  /\ Open(i) /\ conns[i].waits
  /\ Leave(i)
  /\ UNCHANGED <<started, running, told, objects>>

-----------------------------------------------------------------------------
(* The accept loop and the threads.                                        *)

(* Faulty variant: the loop reads the request before it accepts again.     *)
AcceptInline(i) ==
  /\ running /\ Open(i) /\ conns[i].thread = "queued"
  /\ \A j \in Slots : Open(j) => conns[j].thread \in {"queued", "done"}
  /\ conns' = [conns EXCEPT ![i].thread = "reading"]
  /\ UNCHANGED <<started, running, told, objects>>

Accept(i) ==
  /\ running /\ Open(i) /\ conns[i].thread = "queued"
  /\ conns' = [conns EXCEPT ![i].thread = "reading"]
  /\ UNCHANGED <<started, running, told, objects>>

Config(i) == started[conns[i].number]

(* Faulty variant: GetSettings is answered before the CID is looked at.    *)
CidAllowedButSettings(i) ==
  conns[i].request.op = "settings" \/ Config(i).allowed \in {None, Cid[conns[i].by]}

CidAllowed(i) == Config(i).allowed \in {None, Cid[conns[i].by]}

(* validate_s3_target.                                                     *)
TargetAllowed(i) == conns[i].request.prefix = Config(i).prefix

Permitted(i) ==
  /\ CidAllowed(i)
  /\ conns[i].request.op \in {"load", "save"} => TargetAllowed(i)
  /\ conns[i].request.op = "save" => Config(i).mode = "init-key"

(* The thread has read a request of this kind.                             *)
HasRead(i, ops) ==
  Open(i) /\ conns[i].thread = "reading" /\ conns[i].request # None /\ conns[i].request.op \in ops

Respond(i, answer) ==
  /\ conns' = [conns EXCEPT ![i].thread = "replying", ![i].answer = answer]
  /\ UNCHANGED <<started, running, told>>

Refuse(i) ==
  /\ HasRead(i, {"settings", "primary", "backup", "load", "save"}) /\ ~Permitted(i)
  /\ Respond(i, Rejected) /\ UNCHANGED objects

GiveSettings(i) ==
  /\ HasRead(i, {"settings"}) /\ Permitted(i)
  /\ Respond(i, Answer("settings", 0)) /\ UNCHANGED objects

(* The primary falls back to the default chain, the backup does not.       *)
GiveCredentials(i) ==
  /\ HasRead(i, {"primary", "backup"}) /\ Permitted(i)
  /\ conns[i].request.op = "backup" => Config(i).backup = "set"
  /\ Respond(i, Answer("credentials", 0)) /\ UNCHANGED objects

Load(i) ==
  /\ HasRead(i, {"load"}) /\ Permitted(i)
  /\ LET held == objects[conns[i].request.prefix] IN
       Respond(i, IF held = None THEN Answer("nothing", 0) ELSE Answer("object", held.size))
  /\ UNCHANGED objects

(* The conditional write; its success may be lost on the way back.         *)
Save(i) ==
  /\ HasRead(i, {"save"}) /\ Permitted(i)
  /\ LET prefix == conns[i].request.prefix
         body   == [size |-> conns[i].request.size, saved |-> TRUE]
     IN  objects' = IF objects[prefix] = None THEN [objects EXCEPT ![prefix] = body]
                                              ELSE objects
  /\ \/ /\ objects'[conns[i].request.prefix].size = conns[i].request.size
        /\ Respond(i, Answer("saved", 0))
     \/ Respond(i, Error)

(* A frame that cannot be read, no runtime, no credentials, or an error of *)
(* S3 or the credential chain.                                             *)
Fail(i) ==
  /\ \/ HasRead(i, {"malformed"})
     \/ HasRead(i, {"primary", "backup", "load", "save"}) /\ Permitted(i)
  /\ Respond(i, Error) /\ UNCHANGED objects

(* The caller left without a request: the thread reads the end of stream.  *)
PeerGone(i) ==
  /\ Open(i) /\ conns[i].thread = "reading" /\ conns[i].request = None /\ ~conns[i].waits
  /\ conns' = [conns EXCEPT ![i] = None]
  /\ UNCHANGED <<started, running, told, objects>>

(* An answer above the limit is dropped with its error, and the connection *)
(* closes.                                                                 *)
Reply(i) ==
  /\ Open(i) /\ conns[i].thread = "replying"
  /\ LET answer == IF AnswerFits(conns[i].answer) THEN conns[i].answer ELSE None IN
       conns' = [conns EXCEPT ![i] =
         IF @.waits THEN [@ EXCEPT !.thread = "done", !.answer = answer] ELSE None]
  /\ UNCHANGED <<started, running, told, objects>>

Thread(i) ==
  \/ Refuse(i) \/ GiveSettings(i) \/ GiveCredentials(i) \/ Load(i) \/ Save(i)
  \/ Fail(i) \/ PeerGone(i) \/ Reply(i)

Next ==
  \/ \E config \in Configs : StartBroker(config)
  \/ BrokerEnds
  \/ \E i \in Slots :
       \/ \E c \in Callers : Connect(c, i)
       \/ \E request \in Requests : SendRequest(i, request)
       \/ Receive(i) \/ HangUp(i) \/ Accept(i) \/ Thread(i)

Spec == Init /\ [][Next]_vars

(* The accept loop and every thread run on while the broker lives, and a   *)
(* caller reads what has arrived; nothing says that a caller ever sends    *)
(* its request, or that the broker ends or starts.                         *)
FairSpec ==
  /\ Spec
  /\ \A i \in Slots : WF_vars(Accept(i) \/ Thread(i) \/ Receive(i))

-----------------------------------------------------------------------------
(* Properties.                                                             *)

Connection ==
  [by : Callers, number : 1..Len(started), thread : {"queued", "reading", "replying", "done"},
   request : Requests \cup {None}, answer : Answers \cup {None}, waits : BOOLEAN]

TypeOK ==
  /\ started \in Seq(Configs)
  /\ running \in BOOLEAN
  /\ conns \in [Slots -> Connection \cup {None}]
  /\ told \in [Callers -> 0..Len(started)]
  /\ objects \in [Prefixes -> Objects \cup {None}]

(* The request keeps to what a caller of this configuration was told.      *)
Within(config, request) ==
  /\ request # None
  /\ request.op \in {"load", "save"} => request.prefix = config.prefix
  /\ request.op = "save" => config.mode = "init-key"

(* A caller that a broker told its settings, and that keeps to them, is    *)
(* never turned away by that broker, whatever the other connections do:    *)
(* the CID check, the mode and the S3 target agree with GetSettings.  Only *)
(* a broker restarted with other settings may reject it.                   *)
ToldHolds ==
  \A i \in Slots :
    Open(i) /\ told[conns[i].by] = conns[i].number
            /\ Within(Config(i), conns[i].request)
      => conns[i].answer # Rejected

(* What the broker stored it can also return: an answer is dropped at the  *)
(* frame limit, without a word to its caller, only for objects that came   *)
(* into the bucket by another way (write_json_frame, lib.rs:750).          *)
SavedIsLoadable ==
  [][\A i \in Slots :
       Reply(i) /\ conns[i].waits /\ conns[i].answer.kind = "object"
         /\ objects[conns[i].request.prefix].saved
       => conns'[i].answer = conns[i].answer]_vars

(* A caller that sent its request comes back, with an answer or without,   *)
(* although other peers stall, the answer is dropped, the broker ends, or  *)
(* another one is started.                                                 *)
CallersReturn ==
  \A i \in Slots :
    (Open(i) /\ conns[i].request # None /\ conns[i].waits)
      ~> ~(Open(i) /\ conns[i].waits)
=============================================================================
