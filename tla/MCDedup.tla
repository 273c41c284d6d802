------------------------------ MODULE MCDedup ------------------------------
(***************************************************************************)
(* A small instance of Dedup for TLC: two of the three messages have the   *)
(* same body.                                                              *)
(***************************************************************************)
EXTENDS Dedup, TLC

CONSTANTS m1, m2, m3, c1, c2, c3

ThreeMsgs == {m1, m2, m3}
TwoBodies == {"b1", "b2"}
SameBody == [m \in ThreeMsgs |-> IF m = m3 THEN "b2" ELSE "b1"]
ThreeCallers == {c1, c2, c3}

Symmetric == Permutations(ThreeCallers) \union Permutations({m1, m2})
=============================================================================
