---------------------------- MODULE MCAdmission ----------------------------
(***************************************************************************)
(* Small instances of Admission for TLC.  Connections are interchangeable. *)
(***************************************************************************)
EXTENDS Admission, TLC

CONSTANTS c1, c2, c3, c4, c5

FiveConns == {c1, c2, c3, c4, c5}

Symmetric == Permutations(Conns)
=============================================================================
