----------------------------- MODULE MCBrokerS3 -----------------------------
(***************************************************************************)
(* Instances of BrokerS3 for TLC.                                          *)
(***************************************************************************)
EXTENDS BrokerS3, TLC

CONSTANTS h1, h2, m, x, y
=============================================================================
