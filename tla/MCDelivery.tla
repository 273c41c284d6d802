----------------------------- MODULE MCDelivery -----------------------------
(***************************************************************************)
(* Small instances of Delivery for TLC.  The workers are interchangeable,  *)
(* and so are the deliveries; the symmetry is used only in the runs that   *)
(* check safety.                                                           *)
(***************************************************************************)
EXTENDS Delivery, TLC

CONSTANTS d1, d2, w1, w2

OneDelivery == {d1}
TwoDeliveries == {d1, d2}
OneWorker == {w1}
TwoWorkers == {w1, w2}

\* Retry delays in ticks: the second retry waits longer than the first.
Delays == <<1, 2>>

\* A single delay, for the runs in which time matters less.
OneDelay == <<1>>

\* One reply for each way an outcome is recorded: delivered, temp_fail
\* (perm_fail on the last attempt).
AcceptOrRefuse == {"accept", "r4"}

\* The same and a delivery that fails for good at once.
AcceptRefuseOrFail == AcceptOrRefuse \union {"noSpool"}

\* The same and an MX that stops answering.
AcceptRefuseOrHang == AcceptOrRefuse \union {"hang"}

Symmetric == Permutations(Deliveries) \union Permutations(Workers)
=============================================================================
