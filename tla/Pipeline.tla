------------------------------ MODULE Pipeline ------------------------------
(***************************************************************************)
(* Spool and delivery queue together: a message goes from stage to stage,  *)
(* its delivery is attempted by a worker that looks for the file in three  *)
(* of the stages (internal/delivery/worker.go), and Cleanup removes files  *)
(* by age (internal/spool/spool.go).                                       *)
(*                                                                         *)
(* The spool and the queue are taken by what they promise: their actions   *)
(* are those of AtomicSpool, which module Spool implements, and of         *)
(* DeliveryLifecycle, which module Delivery implements for a pool of one   *)
(* worker.  What moves messages and enqueues their deliveries is not part  *)
(* of the repository and may come at any time, up to MaxLag.  A message    *)
(* has one delivery, and all stages are on one device.                     *)
(***************************************************************************)
EXTENDS Integers, Sequences

CONSTANTS
    Msgs,           \* messages
    Visible,        \* the stages
    Route,          \* the <<from, to>> pairs of the pipeline
    Retention,      \* Retention[s]: how long stage s keeps files; none when <= 0
    MaxAttempts,    \* the max_attempts column of delivery_queue
    RetrySchedule,  \* w.config.RetrySchedule
    MaxLag,         \* assumed: a delivery is enqueued at most this long after Write
    MaxLate,        \* assumed: an attempt is over at most this long after it is due
    MaxCrashes,     \* bound: ends of the process
    MaxAge          \* bound: ages are not told apart from here on

ASSUME StagesAssumption ==
    "incoming" \in Visible /\ "nowhere" \notin Visible /\ "gone" \notin Visible
ASSUME RetentionAssumption == Retention \in [Visible -> Int]
ASSUME AttemptsAssumption == MaxAttempts \in Nat \ {0}
ASSUME RetryScheduleAssumption == RetrySchedule \in Seq(Nat) /\ RetrySchedule # <<>>
ASSUME PipelineBoundsAssumption ==
    /\ {MaxLag, MaxLate, MaxCrashes, MaxAge} \subseteq Nat
    /\ MaxAge > MaxLag /\ \A s \in Visible : MaxAge > Retention[s]

VARIABLES
    place,      \* place[m]: where the spool has message m
    age,        \* age[m]: how long ago its file was modified
    state,      \* state[m]: the state column of its delivery
    attempts,   \* attempts[m]: the attempts column
    wait,       \* wait[m]: how far away next_attempt is; negative when it is past
    at,         \* at[m]: idle, the stage to be read next, missing, or send
    crashes,
    steady,     \* steady[m], ghost: m was in a stage that is read when the
                \* worker began, and has not moved since
    unread      \* unread[m], ghost: a read of m's file has failed since then

spool == <<place, age>>
queue == <<state, attempts, wait>>
vars == <<spool, queue, at, crashes, steady, unread>>

(* On one device no message is copied. *)
Spool == INSTANCE AtomicSpool WITH Copied <- {}, copying <- [m \in Msgs |-> {}]
Queue == INSTANCE DeliveryLifecycle WITH Deliveries <- Msgs

(* The order in which the worker looks for the file. *)
ReadOrder == <<"signed", "modified", "parsed">>
Readable == {ReadOrder[i] : i \in DOMAIN ReadOrder}

Pending(m) == state[m] \in {"queued", "temp_fail"}

(* One type invariant. *)
TypeOK ==
    /\ crashes \in 0..MaxCrashes
    /\ place \in [Msgs -> Visible \union {"nowhere", "gone"}]
    /\ age \in [Msgs -> 0..MaxAge]
    /\ state \in [Msgs -> {"absent", "queued", "temp_fail", "delivered", "perm_fail"}]
    /\ attempts \in [Msgs -> 0..MaxAttempts]
    /\ wait \in [Msgs -> Int]
    /\ at \in [Msgs -> Readable \union {"idle", "missing", "send"}]
    /\ steady \in [Msgs -> BOOLEAN] /\ unread \in [Msgs -> BOOLEAN]
    \* only deliveries that are pending are worked on
    /\ \A m \in Msgs : at[m] # "idle" => Pending(m)

-----------------------------------------------------------------------------
(* The spool *)

(* Write, called by a session. *)
Write(m) ==
    /\ Spool!Accept(m)
    /\ age' = [age EXCEPT ![m] = 0]
    /\ UNCHANGED <<queue, at, crashes, steady, unread>>

Moved(m) == steady' = [steady EXCEPT ![m] = FALSE]

(* Move.  A rename leaves the modification time as it is. *)
Move(m, to) ==
    /\ Spool!Advance(m, to)
    /\ Moved(m)
    /\ UNCHANGED <<age, queue, at, crashes, unread>>

(* A mistake: a file is removed when its time is just up. *)
MutCleanupEarly(m) ==
    /\ place[m] \in Visible
    /\ Retention[place[m]] > 0
    /\ age[m] >= Retention[place[m]]
    /\ Spool!Drop(m)
    /\ Moved(m)
    /\ UNCHANGED <<age, queue, at, crashes, unread>>

(* A mistake: only incoming is looked at. *)
MutCleanupIncoming(m) ==
    /\ place[m] = "incoming"
    /\ Retention[place[m]] > 0
    /\ age[m] > Retention[place[m]]
    /\ Spool!Drop(m)
    /\ Moved(m)
    /\ UNCHANGED <<age, queue, at, crashes, unread>>

Cleanup(m) ==
    /\ place[m] \in Visible
    /\ Retention[place[m]] > 0
    /\ age[m] > Retention[place[m]]
    /\ Spool!Drop(m)
    /\ Moved(m)
    /\ UNCHANGED <<age, queue, at, crashes, unread>>

-----------------------------------------------------------------------------
(* The queue and a worker *)

EnqueueDelivery(m) ==
    /\ place[m] \in Visible /\ age[m] <= MaxLag
    /\ Queue!Enqueue(m)
    /\ wait' = [wait EXCEPT ![m] = 0]
    /\ UNCHANGED <<spool, at, crashes, steady, unread>>

(* GetPendingDeliveries, and the loop over its items comes to m. *)
Poll(m) ==
    /\ Pending(m) /\ wait[m] <= 0
    /\ at[m] = "idle"
    /\ at' = [at EXCEPT ![m] = Head(ReadOrder)]
    /\ steady' = [steady EXCEPT ![m] = place[m] \in Readable]
    /\ unread' = [unread EXCEPT ![m] = FALSE]
    /\ UNCHANGED <<spool, queue, crashes>>

(* One Read of processDelivery.  Any error leads to the stage after, and   *)
(* from the last to the conclusion that there is no file: the worker does  *)
(* not ask whether the file was not there or could not be read.            *)
ReadThen(m, after) ==
    /\ at[m] \in Readable
    /\ \/ place[m] = at[m] /\ at' = [at EXCEPT ![m] = "send"] /\ UNCHANGED unread
       \/ /\ at' = [at EXCEPT ![m] = after]
          /\ unread' = [unread EXCEPT ![m] = @ \/ place[m] = at[m]]
    /\ UNCHANGED <<spool, queue, crashes, steady>>

(* A mistake: the worker gives up after two stages. *)
MutReadTwoStages(m) == ReadThen(m, IF at[m] = "signed" THEN "modified" ELSE "missing")

Read(m) ==
    LET i == CHOOSE j \in DOMAIN ReadOrder : ReadOrder[j] = at[m] IN
    ReadThen(m, IF i = Len(ReadOrder) THEN "missing" ELSE ReadOrder[i + 1])

Done(m) == at' = [at EXCEPT ![m] = "idle"]

(* No file: the delivery fails for good, whatever attempts it has left. *)
GiveUp(m) ==
    /\ at[m] = "missing"
    /\ Queue!Fail(m)
    /\ Done(m)
    /\ UNCHANGED <<spool, wait, crashes, steady, unread>>

Succeed(m) ==
    /\ at[m] = "send"
    /\ Queue!Succeed(m)
    /\ Done(m)
    /\ UNCHANGED <<spool, wait, crashes, steady, unread>>

(* A Go slice counts from 0, and the last interval is used again. *)
calculateNextRetry(n) ==
    RetrySchedule[IF n < Len(RetrySchedule) THEN n + 1 ELSE Len(RetrySchedule)]

(* updateDeliveryTempFail: a retry is scheduled while an attempt is left. *)
TempFail(m) ==
    /\ at[m] = "send"
    /\ IF attempts[m] + 1 >= MaxAttempts
       THEN Queue!Fail(m) /\ UNCHANGED wait
       ELSE Queue!Retry(m) /\ wait' = [wait EXCEPT ![m] = calculateNextRetry(attempts[m])]
    /\ Done(m)
    /\ UNCHANGED <<spool, crashes, steady, unread>>

(* The UPDATE fails and the error is logged. *)
UpdateFails(m) ==
    /\ at[m] \in {"missing", "send"}
    /\ Done(m)
    /\ UNCHANGED <<spool, queue, crashes, steady, unread>>

(* Files and rows survive the process. *)
Crash ==
    /\ crashes < MaxCrashes
    /\ crashes' = crashes + 1
    /\ at' = [m \in Msgs |-> "idle"]
    /\ UNCHANGED <<spool, queue, steady, unread>>

Tick ==
    /\ \A m \in Msgs : Pending(m) => wait[m] > -MaxLate
    /\ age' = [m \in Msgs |->
          IF place[m] \in Visible /\ age[m] < MaxAge THEN age[m] + 1 ELSE age[m]]
    /\ wait' = [m \in Msgs |-> IF Pending(m) THEN wait[m] - 1 ELSE wait[m]]
    /\ UNCHANGED <<place, state, attempts, at, crashes, steady, unread>>

Init ==
    /\ Spool!Init /\ Queue!Init
    /\ age = [m \in Msgs |-> 0]
    /\ wait = [m \in Msgs |-> 0]
    /\ at = [m \in Msgs |-> "idle"]
    /\ crashes = 0
    /\ steady = [m \in Msgs |-> FALSE] /\ unread = [m \in Msgs |-> FALSE]

Record(m) == GiveUp(m) \/ Succeed(m) \/ TempFail(m)

Next ==
    \/ \E m \in Msgs : Write(m) \/ Cleanup(m) \/ \E to \in Visible : Move(m, to)
    \/ \E m \in Msgs : EnqueueDelivery(m) \/ Poll(m) \/ Read(m) \/ Record(m) \/ UpdateFails(m)
    \/ Crash \/ Tick

(* The clock, the worker and Cleanup's ticker go on, and not every UPDATE  *)
(* of a delivery fails.  Nobody has to move a message or enqueue its       *)
(* delivery.                                                               *)
Fairness ==
    /\ WF_vars(Tick)
    /\ \A m \in Msgs :
          WF_vars(Poll(m)) /\ WF_vars(Read(m)) /\ SF_vars(Record(m)) /\ WF_vars(Cleanup(m))

Spec == Init /\ [][Next]_vars /\ Fairness

-----------------------------------------------------------------------------
(* Properties *)

(* A delivery fails for lack of the file only when the file was in none of *)
(* the three stages at some time between the first read and the last, or   *)
(* went from one to another while the worker was between them (it reads    *)
(* the later stages first, against the direction messages move in), or was *)
(* there when its stage was read and the read failed: one failing system   *)
(* call ends the delivery for good.                                        *)
UnmovedIsFound == \A m \in Msgs : at[m] = "missing" => ~steady[m] \/ unread[m]

(* When attempt n + 1 is due at the latest, in time since Write: every     *)
(* attempt before it failed as late as it could.                           *)
Due[n \in 0..(MaxAttempts - 1)] ==
    IF n = 0 THEN MaxLag ELSE Due[n - 1] + MaxLate + calculateNextRetry(n - 1)

(* The time a delivery may take after Write, when every attempt fails. *)
LongestDelivery == Due[MaxAttempts - 1] + MaxLate

(* Stages that keep files for as long as a delivery may take keep them for *)
(* its retries: no message is removed while its delivery is pending.  The  *)
(* age counts from Write, so every stage must keep files for the whole     *)
(* time and not just for the time a message spends in it.                  *)
KeptForRetries ==
    (\A s \in Visible : Retention[s] > 0 => Retention[s] >= LongestDelivery) =>
        \A m \in Msgs : Pending(m) => place[m] # "gone"

(* Every message leaves the spool in the end, whatever the pipeline does   *)
(* with it, unless it comes to a stage that keeps files for good: one      *)
(* accepted and never taken up is removed by age alone, delivered or not.  *)
SpoolDrains ==
    \A m \in Msgs :
        place[m] = "incoming" ~>
            place[m] = "gone" \/ (place[m] \in Visible /\ Retention[place[m]] <= 0)
=============================================================================
