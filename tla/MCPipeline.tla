----------------------------- MODULE MCPipeline -----------------------------
(***************************************************************************)
(* A small instance of Pipeline for TLC.  The retention is as short as     *)
(* KeptForRetries allows: 1 (MaxLag), 1 + 2 + 2 (RetrySchedule, of which   *)
(* the last interval is used twice), and 4 attempts that are each over 2   *)
(* (MaxLate) after they are due.                                           *)
(***************************************************************************)
EXTENDS Pipeline

CONSTANTS m1

OneMsg == {m1}
Stages == {"incoming", "parsed", "filtered", "modified", "signed", "delivering", "done",
           "failed"}
Stations == {<<"incoming", "parsed">>, <<"parsed", "filtered">>, <<"filtered", "modified">>,
             <<"modified", "signed">>, <<"signed", "delivering">>, <<"delivering", "done">>,
             <<"delivering", "failed">>}
Schedule == <<1, 2>>
KeepLongEnough == [s \in Stages |-> IF s = "failed" THEN 0 ELSE 14]
=============================================================================
