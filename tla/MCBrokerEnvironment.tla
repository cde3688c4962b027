------------------------- MODULE MCBrokerEnvironment -------------------------
(***************************************************************************)
(* Constants for TLC: prefixes that need trimming, share their spelling or *)
(* a directory, or are refused; files with settings before and after a bad *)
(* line.                                                                   *)
(***************************************************************************)
EXTENDS BrokerEnvironment

MCChars == {"/", "..", "a", "b", "d", "manifest"}

MCSpellings ==
  {<<>>, <<"/">>, <<"a">>, <<"/", "a", "/", "/">>, <<"a", "b">>, <<"a", "/", "b">>,
   <<"a", "/", "..">>, <<"a", "..">>}

MCDefault == <<"d">>

MCLines ==
  {[var |-> "prefix", value |-> prefix] : prefix \in {<<"a">>, <<"a", "/", "b">>}}
    \cup {[var |-> "mode", value |-> mode] : mode \in Modes} \cup {[var |-> "bad"]}

MCFiles == BoundedSeq(MCLines, 2)
=============================================================================
