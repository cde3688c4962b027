--------------------------- MODULE MCEnclaveBroker ---------------------------
(***************************************************************************)
(* Constants for TLC: a tee on the allowed CID and a caller over TCP.      *)
(***************************************************************************)
EXTENDS EnclaveBroker, TLC

CONSTANTS tee, other, cid, p, q

MCCid == [c \in Callers |-> IF c = tee THEN cid ELSE None]

MCConfig(mode, prefix, allowed, backup) ==
  [mode |-> mode, prefix |-> prefix, allowed |-> allowed, backup |-> backup]

MCConfigs ==
  {MCConfig("init-key", p, cid, "set"), MCConfig("serve", q, cid, "unset"),
   MCConfig("init-key", q, None, "half set")}
=============================================================================
