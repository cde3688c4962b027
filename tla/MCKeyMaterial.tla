--------------------------- MODULE MCKeyMaterial ---------------------------
(***************************************************************************)
(* Instances of KeyMaterial for TLC.                                       *)
(***************************************************************************)
EXTENDS KeyMaterial, TLC

CONSTANTS t1, t2, a, b, k1, k2, k3

MCRegionOf == [arn \in Arns |-> "us-east-1"]

Primary(ids) == [keys |-> <<a, b>>, ids |-> ids]

Default  == Primary(<<"default", "backup">>)
Explicit == Primary(<<"primary", "backup">>)
NoBackup == Primary(<<"default", None>>)
Swapped  == [keys |-> <<b, a>>, ids |-> <<"primary", "backup">>]
SameKey  == [keys |-> <<a, a>>, ids |-> <<"default", "backup">>]

OneConfig   == {Default}
SomeConfigs == {Default, SameKey}
AllConfigs  == {Default, Explicit, NoBackup, Swapped, SameKey}

TeeSymmetry == Permutations(Tees)
=============================================================================
