---------------------------- MODULE MCEventLog ----------------------------
(***************************************************************************)
(* A small instance of EventLog for TLC.                                   *)
(***************************************************************************)
EXTENDS EventLog

CONSTANTS e1, e2, e3

ThreeEvents == {e1, e2, e3}
=============================================================================
