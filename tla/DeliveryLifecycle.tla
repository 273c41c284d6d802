------------------------- MODULE DeliveryLifecycle -------------------------
(***************************************************************************)
(* What the delivery queue promises for each delivery, as the README's     *)
(* table of delivery states describes it: a delivery is enqueued once,     *)
(* every attempt is counted, a failed attempt either schedules a retry or  *)
(* settles the delivery, the last permitted attempt always settles it, and *)
(* a settled delivery is never touched again.                              *)
(*                                                                         *)
(* Nothing is said of workers, time or crashes; module Delivery models the *)
(* code and is shown to implement this module when the pool has one worker.*)
(***************************************************************************)
EXTENDS Integers

CONSTANTS
    Deliveries,    \* the deliveries: one per (message, recipient) pair
    MaxAttempts    \* the max_attempts column of delivery_queue

VARIABLES
    state,         \* state[d]: the state column, "absent" before the INSERT
    attempts       \* attempts[d]: the attempts column

lifecycleVars == <<state, attempts>>

Init ==
    /\ state = [d \in Deliveries |-> "absent"]
    /\ attempts = [d \in Deliveries |-> 0]

Enqueue(d) ==
    /\ state[d] = "absent"
    /\ state' = [state EXCEPT ![d] = "queued"]
    /\ UNCHANGED attempts

(* One counted attempt of a delivery that is not settled. *)
Attempted(d, outcome) ==
    /\ state[d] \in {"queued", "temp_fail"}
    /\ state' = [state EXCEPT ![d] = outcome]
    /\ attempts' = [attempts EXCEPT ![d] = @ + 1]

Succeed(d) == Attempted(d, "delivered")

(* A permanent failure may come early (the message cannot be read). *)
Fail(d) == Attempted(d, "perm_fail")

(* A retry is only ever scheduled while an attempt is left. *)
Retry(d) ==
    /\ attempts[d] + 1 < MaxAttempts
    /\ Attempted(d, "temp_fail")

Next == \E d \in Deliveries : Enqueue(d) \/ Succeed(d) \/ Fail(d) \/ Retry(d)

Spec == Init /\ [][Next]_lifecycleVars
=============================================================================
