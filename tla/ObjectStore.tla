---------------------------- MODULE ObjectStore ----------------------------
(***************************************************************************)
(* Amazon S3 as enclave-broker uses it: every write is a PutObject with    *)
(* "If-None-Match: *", so a key that holds an object is never written      *)
(* again.  A write takes effect some time after it was sent, possibly      *)
(* after its sender has stopped waiting for it.                            *)
(*                                                                         *)
(* Object bodies are symbolic; what they look like is up to the module     *)
(* that extends this one.                                                  *)
(***************************************************************************)

VARIABLES
  objects,   \* the bucket: a function from the keys in use to their bodies
  inflight   \* conditional writes sent to S3 that may still take effect

EmptyBucket == [key \in {} |-> key]

(* The bucket after the conditional write of body p.body under p.key: S3   *)
(* answers 412 and changes nothing when the key is already in use.         *)
PutIfAbsent(bucket, p) ==
  IF p.key \in DOMAIN bucket
    THEN bucket
    ELSE [key \in DOMAIN bucket \cup {p.key} |->
            IF key = p.key THEN p.body ELSE bucket[key]]

(* Faulty variant: a 412 is taken for success, whatever the key holds.     *)
StoredByAnyone(p) == p.key \in DOMAIN objects

(* The key of p holds exactly the body of p.                               *)
Stored(p) == p.key \in DOMAIN objects /\ objects[p.key] = p.body

(* A conditional write leaves the broker.                                  *)
Send(p) ==
  /\ inflight' = inflight \cup {p}
  /\ UNCHANGED objects

(* S3 carries out a conditional write.                                     *)
Process(p) ==
  /\ p \in inflight
  /\ inflight' = inflight \ {p}
  /\ objects' = PutIfAbsent(objects, p)
=============================================================================
