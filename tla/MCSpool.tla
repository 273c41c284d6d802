------------------------------ MODULE MCSpool ------------------------------
(***************************************************************************)
(* A small instance of Spool for TLC.                                      *)
(***************************************************************************)
EXTENDS Spool, TLC

CONSTANTS m1, c1, c2, i1, i2, i3

OneMsg == {m1}
TwoCallers == {c1, c2}
ThreeInodes == {i1, i2, i3}

\* The stages the pipeline of this instance has after incoming.
LaterStages == {"parsed", "signed"}
Pipeline == {<<"incoming", "parsed">>, <<"parsed", "signed">>}

\* The stages after parsed on a device of their own.
SignedApart == [s \in Stages |-> IF s = "signed" THEN "disk2" ELSE "disk"]

\* Files are cleaned up everywhere but in tmp, as main.go configures it.
Keep == [s \in Stages |-> IF s = "tmp" THEN 0 ELSE 1]

Symmetric == Permutations(Msgs) \union Permutations(Callers) \union Permutations(Inodes)
=============================================================================
