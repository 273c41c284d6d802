------------------------------ MODULE Delivery ------------------------------
(***************************************************************************)
(* The delivery queue (internal/queue/queue.go, table delivery_queue) and  *)
(* the pool of workers that empties it (internal/delivery/worker.go).      *)
(*                                                                         *)
(* A worker polls the table for a batch of due rows, keeps the items it    *)
(* read in memory, and works through them one by one: it attempts the      *)
(* delivery (Attempt) and then writes the outcome back (Record).  Polling  *)
(* claims nothing, so two workers may hold items for the same row, and the *)
(* item a worker decides with may be older than the row it overwrites.     *)
(*                                                                         *)
(* Time is kept relative: rows[d].wait is next_attempt - now, Tick lowers  *)
(* it, and it is clipped at -MaxLate (long past).  Only the order of the   *)
(* clipped rows among themselves is lost; the model lets it be any.        *)
(***************************************************************************)
EXTENDS Integers, Sequences, FiniteSets

CONSTANTS
    Deliveries,     \* delivery ids (dlv_id)
    Workers,        \* worker goroutines, config.Delivery.Workers of them
    MaxAttempts,    \* the max_attempts every delivery is enqueued with
    RetrySchedule,  \* config.Delivery.RetrySchedule, in ticks
    BatchLimit,     \* the 10 of GetPendingDeliveries(10)
    Replies,        \* how an attempt may go: a subset of AllReplies
    MaxLate,        \* bound: how far in the past a next_attempt is told apart
    MaxCrashes,     \* bound: process crashes
    MaxDbErrors,    \* bound: SQLite statements that fail
    MaxLost         \* bound: acceptances whose reply does not come back

(* Everything that may come of processDelivery's calls:                    *)
(*   noSpool   the message is in none of the three stages it is read from  *)
(*   noMX      the MX or its address cannot be looked up                   *)
(*   netError  no connection, or it breaks before the message is accepted  *)
(*   r4, r5    the MX refuses with a 4xx or a 5xx reply                    *)
(*   lost      the MX takes the message, its 250 never arrives             *)
(*   accept    the MX takes the message and says so                        *)
(*   hang      the MX stops answering; deliver() waits without a deadline  *)
AllReplies == {"noSpool", "noMX", "netError", "r4", "r5", "lost", "accept", "hang"}

ASSUME MaxAttemptsAssumption == MaxAttempts \in Nat \ {0}
ASSUME ScheduleAssumption ==
    /\ RetrySchedule \in Seq(Nat)
    /\ Len(RetrySchedule) > 0
ASSUME BatchLimitAssumption == BatchLimit \in Nat \ {0}
ASSUME RepliesAssumption == Replies \subseteq AllReplies
ASSUME BoundsAssumption ==
    /\ MaxLate \in Nat
    /\ MaxCrashes \in Nat
    /\ MaxDbErrors \in Nat
    /\ MaxLost \in Nat

VARIABLES
    rows,       \* rows[d]: the row of d in delivery_queue
    pc,         \* pc[w]: where worker w is in workerLoop / processBatch
    batch,      \* batch[w]: the items of w's batch it has not finished with
    reply,      \* reply[w]: how the attempt at Head(batch[w]) went
    stopChan,   \* whether stopChan is closed
    copies,     \* ghost: copies[d] = how often an MX took the message
    crashes, dbErrors, lost   \* faults so far

vars == <<rows, pc, batch, reply, stopChan, copies, crashes, dbErrors, lost>>
faults == <<crashes, dbErrors, lost>>

(* The states of queue.go; "delivering" is declared there too but no       *)
(* statement ever writes it.                                               *)
DeliveryState == {"queued", "delivering", "delivered", "temp_fail", "perm_fail"}
Pending == {"queued", "temp_fail"}
Settled == {"delivered", "perm_fail"}

(* The columns the control depends on. *)
Row == [state : DeliveryState \union {"absent"}, attempts : Nat, wait : Int]

(* What a worker remembers of a row it polled (queue.QueueItem). *)
QueueItem == [dlv : Deliveries, attempts : Nat]

(* One type invariant: the shape of the table and of every worker. *)
TypeOK ==
    /\ rows \in [Deliveries -> Row]
    /\ pc \in [Workers -> {"idle", "ready", "recording", "hung", "exited"}]
    /\ batch \in [Workers -> Seq(QueueItem)]
    /\ reply \in [Workers -> AllReplies \union {"none"}]
    /\ stopChan \in BOOLEAN
    /\ copies \in [Deliveries -> Nat]
    /\ crashes \in Nat /\ dbErrors \in Nat /\ lost \in Nat
    /\ \A w \in Workers : pc[w] \in {"ready", "recording", "hung"} <=> batch[w] # <<>>
    /\ \A w \in Workers : pc[w] = "recording" => reply[w] # "none"

-----------------------------------------------------------------------------
(* The queue *)

(* time.Time{}, stored as next_attempt of a settled delivery: long past. *)
ZeroTime == -MaxLate

(* EnqueueDelivery: INSERT with state queued, no attempts, due at once.  A *)
(* failing INSERT leaves no trace.                                         *)
EnqueueDelivery(d) ==
    /\ rows[d].state = "absent"
    /\ rows' = [rows EXCEPT ![d] = [state |-> "queued", attempts |-> 0, wait |-> 0]]
    /\ UNCHANGED <<pc, batch, reply, stopChan, copies, faults>>

(* A mistake: next_attempt is not compared. *)
MutDueIgnoresTime == {d \in Deliveries : rows[d].state \in Pending}

(* A mistake: failed deliveries are polled again. *)
MutDueForgetsPermFail ==
    {d \in Deliveries : rows[d].state \in Pending \union {"perm_fail"} /\ rows[d].wait <= 0}

(* A mistake: delivered rows are polled again. *)
MutDueForgetsDelivered ==
    {d \in Deliveries : rows[d].state \in Pending \union {"delivered"} /\ rows[d].wait <= 0}

(* WHERE state IN ('queued', 'temp_fail') AND next_attempt <= now *)
Due == {d \in Deliveries : rows[d].state \in Pending /\ rows[d].wait <= 0}

(* Every answer SQLite may give to the SELECT ... ORDER BY next_attempt    *)
(* LIMIT limit: the earliest due rows, oldest first, ties in any order.    *)
GetPendingDeliveries(limit) ==
    {s \in UNION {[1..n -> Due] : n \in 0..limit} :
        /\ \A i, j \in DOMAIN s : i < j =>
              s[i] # s[j] /\ rows[s[i]].wait <= rows[s[j]].wait
        /\ LET left == Due \ {s[i] : i \in DOMAIN s} IN
              /\ Len(s) < limit => left = {}
              /\ \A d \in left, i \in DOMAIN s : rows[s[i]].wait <= rows[d].wait}

(* A mistake: a retry is not counted. *)
MutUpdateKeepsAttempts(d, state, wait) ==
    rows' = [rows EXCEPT ![d] =
                [state |-> state,
                 attempts |-> IF state = "temp_fail" THEN @.attempts ELSE @.attempts + 1,
                 wait |-> wait]]

(* A mistake: only failures are counted. *)
MutUpdateCountsOnlyFailures(d, state, wait) ==
    rows' = [rows EXCEPT ![d] =
                [state |-> state,
                 attempts |-> IF state = "delivered" THEN @.attempts ELSE @.attempts + 1,
                 wait |-> wait]]

(* A mistake: the README's name of a state is written. *)
MutUpdateWritesPending(d, state, wait) ==
    rows' = [rows EXCEPT ![d] =
                [state |-> IF state = "temp_fail" THEN "pending" ELSE state,
                 attempts |-> @.attempts + 1, wait |-> wait]]

(* UpdateDeliveryState: whatever the row holds by now is overwritten, the  *)
(* row's own attempts are counted up.                                      *)
UpdateDeliveryState(d, state, wait) ==
    rows' = [rows EXCEPT ![d] =
                [state |-> state, attempts |-> @.attempts + 1, wait |-> wait]]

-----------------------------------------------------------------------------
(* The worker *)

(* calculateNextRetry: a Go slice counts from 0, the last interval repeats. *)
calculateNextRetry(attempts) ==
    IF attempts < Len(RetrySchedule)
    THEN RetrySchedule[attempts + 1]
    ELSE RetrySchedule[Len(RetrySchedule)]

updateDeliverySuccess(item) == UpdateDeliveryState(item.dlv, "delivered", ZeroTime)

updateDeliveryFailed(item) == UpdateDeliveryState(item.dlv, "perm_fail", ZeroTime)

(* A mistake: the attempt just made is not counted in. *)
MutTempFailOffByOne(item) ==
    IF item.attempts >= MaxAttempts
    THEN updateDeliveryFailed(item)
    ELSE UpdateDeliveryState(item.dlv, "temp_fail", calculateNextRetry(item.attempts))

(* The limit is tested against the item, which may be older than the row. *)
updateDeliveryTempFail(item) ==
    IF item.attempts + 1 >= MaxAttempts
    THEN updateDeliveryFailed(item)
    ELSE UpdateDeliveryState(item.dlv, "temp_fail", calculateNextRetry(item.attempts))

(* A mistake: the error of the DATA writer's Close is dropped. *)
MutDeliverIgnoresClose(r) ==
    IF r \in {"accept", "r4"} THEN [code |-> 250, err |-> FALSE]
                              ELSE [code |-> 0, err |-> TRUE]

(* deliver: every error path returns code 0, whatever the MX replied. *)
deliver(r) == IF r = "accept" THEN [code |-> 250, err |-> FALSE]
                              ELSE [code |-> 0, err |-> TRUE]

(* The decision processDelivery takes on the outcome of an attempt. *)
processDelivery(item, r) ==
    CASE r = "noSpool" -> updateDeliveryFailed(item)
      [] r = "noMX"    -> updateDeliveryTempFail(item)
      [] OTHER ->
           LET res == deliver(r) IN
           CASE ~res.err -> updateDeliverySuccess(item)
             [] res.err /\ res.code >= 500 /\ res.code < 600 -> updateDeliveryFailed(item)
             [] OTHER -> updateDeliveryTempFail(item)

(* processBatch, its query: an idle worker, woken by its ticker, reads a   *)
(* batch.  An empty answer, like an error, leaves the worker as it was.    *)
Poll(w) ==
    /\ pc[w] = "idle"
    /\ \E s \in GetPendingDeliveries(BatchLimit) :
          /\ s # <<>>
          /\ batch' = [batch EXCEPT ![w] =
                [i \in DOMAIN s |-> [dlv |-> s[i], attempts |-> rows[s[i]].attempts]]]
    /\ pc' = [pc EXCEPT ![w] = "ready"]
    /\ UNCHANGED <<rows, reply, stopChan, copies, faults>>

(* The query itself fails: logged, and the worker waits for its next tick. *)
PollFails(w) ==
    /\ pc[w] = "idle"
    /\ dbErrors < MaxDbErrors
    /\ dbErrors' = dbErrors + 1
    /\ UNCHANGED <<rows, pc, batch, reply, stopChan, copies, crashes, lost>>

(* processDelivery up to the result of deliver(): the spool is read, the   *)
(* MX looked up and spoken to.  Nothing of the row is read or written.     *)
Attempt(w) ==
    /\ pc[w] = "ready"
    /\ \E r \in Replies :
          /\ r = "lost" => lost < MaxLost
          /\ lost' = IF r = "lost" THEN lost + 1 ELSE lost
          /\ reply' = [reply EXCEPT ![w] = r]
          /\ pc' = [pc EXCEPT ![w] = IF r = "hang" THEN "hung" ELSE "recording"]
          /\ copies' = IF r \in {"accept", "lost"}
                       THEN [copies EXCEPT ![Head(batch[w]).dlv] = @ + 1]
                       ELSE copies
    /\ UNCHANGED <<rows, batch, stopChan, crashes, dbErrors>>

(* Go on to the next item of the batch, or back to the select. *)
NextItem(w) ==
    /\ batch' = [batch EXCEPT ![w] = Tail(@)]
    /\ pc' = [pc EXCEPT ![w] = IF Len(batch[w]) > 1 THEN "ready" ELSE "idle"]
    /\ reply' = [reply EXCEPT ![w] = "none"]

(* The rest of processDelivery: the outcome is written to the row. *)
Record(w) ==
    /\ pc[w] = "recording"
    /\ processDelivery(Head(batch[w]), reply[w])
    /\ NextItem(w)
    /\ UNCHANGED <<stopChan, copies, faults>>

(* The UPDATE fails: the error is logged and the outcome forgotten. *)
RecordFails(w) ==
    /\ pc[w] = "recording"
    /\ dbErrors < MaxDbErrors
    /\ dbErrors' = dbErrors + 1
    /\ NextItem(w)
    /\ UNCHANGED <<rows, stopChan, copies, crashes, lost>>

(* Stop closes stopChan and waits for nobody. *)
Stop ==
    /\ ~stopChan
    /\ stopChan' = TRUE
    /\ UNCHANGED <<rows, pc, batch, reply, copies, faults>>

(* A mistake: Stop sends one value where it should close the channel. *)
MutExitConsumesStop(w) ==
    /\ pc[w] = "idle"
    /\ stopChan
    /\ pc' = [pc EXCEPT ![w] = "exited"]
    /\ stopChan' = FALSE
    /\ UNCHANGED <<rows, batch, reply, copies, faults>>

(* workerLoop's other case: the select of an idle worker picks stopChan.   *)
(* When its ticker is ready too, the select may as well pick that (Poll).  *)
WorkerExit(w) ==
    /\ pc[w] = "idle"
    /\ stopChan
    /\ pc' = [pc EXCEPT ![w] = "exited"]
    /\ UNCHANGED <<rows, batch, reply, stopChan, copies, faults>>

(* The process dies and is started again: the table survives, Start starts *)
(* a new pool with a new stopChan.                                         *)
Crash ==
    /\ crashes < MaxCrashes
    /\ crashes' = crashes + 1
    /\ pc' = [w \in Workers |-> "idle"]
    /\ batch' = [w \in Workers |-> <<>>]
    /\ reply' = [w \in Workers |-> "none"]
    /\ stopChan' = FALSE
    /\ UNCHANGED <<rows, copies, dbErrors, lost>>

(* A unit of time passes. *)
Tick ==
    /\ rows' = [d \in Deliveries |->
                  [rows[d] EXCEPT !.wait = IF @ > -MaxLate THEN @ - 1 ELSE @]]
    /\ UNCHANGED <<pc, batch, reply, stopChan, copies, faults>>

Init ==
    /\ rows = [d \in Deliveries |-> [state |-> "absent", attempts |-> 0, wait |-> ZeroTime]]
    /\ pc = [w \in Workers |-> "idle"]
    /\ batch = [w \in Workers |-> <<>>]
    /\ reply = [w \in Workers |-> "none"]
    /\ stopChan = FALSE
    /\ copies = [d \in Deliveries |-> 0]
    /\ crashes = 0 /\ dbErrors = 0 /\ lost = 0

WorkerStep(w) ==
    \/ Poll(w)
    \/ PollFails(w)
    \/ Attempt(w)
    \/ Record(w)
    \/ RecordFails(w)
    \/ WorkerExit(w)

Next ==
    \/ \E d \in Deliveries : EnqueueDelivery(d)
    \/ \E w \in Workers : WorkerStep(w)
    \/ Stop
    \/ Crash
    \/ Tick

Spec == Init /\ [][Next]_vars

(* A goroutine that can run does run, time passes, and a select whose stop *)
(* case is ready again and again takes it at some point.  That an MX which *)
(* neither answers nor closes is left alone is NOT assumed: "hang" is a    *)
(* reply of its own, after which the worker takes no step.                 *)
Fairness ==
    /\ WF_vars(Tick)
    /\ \A w \in Workers :
          /\ WF_vars(Poll(w))
          /\ WF_vars(Attempt(w))
          /\ WF_vars(Record(w))
          /\ SF_vars(WorkerExit(w))

FairSpec == Spec /\ Fairness
-----------------------------------------------------------------------------
(* Properties *)

(* Only what an MX acknowledged is reported delivered: worker.go writes    *)
(* StateDelivered on no other path, whatever workers, crashes and failing  *)
(* statements interleave.                                                  *)
NoFalseSuccess == \A d \in Deliveries : rows[d].state = "delivered" => copies[d] > 0

(* An item against the row it was read from. *)
Versioned(item, row) ==
    /\ item.attempts <= row.attempts
    /\ item.attempts = row.attempts => row.state \in Pending /\ row.wait <= 0

(* The attempts column is a version number of its row.  An item in a       *)
(* worker's memory never runs ahead of the row it was read from, and as    *)
(* long as the two counts agree the row is still as GetPendingDeliveries   *)
(* selected it: not settled and due.  Comparing the counts in the WHERE of *)
(* UpdateDeliveryState would therefore detect every stale write.           *)
SnapshotIsVersion ==
    \A w \in Workers : \A i \in DOMAIN batch[w] :
        Versioned(batch[w][i], rows[batch[w][i].dlv])

(* A row without its clock. *)
Progress(row) == <<row.state, row.attempts>>

(* A settled row is changed by nothing but UpdateDeliveryState called by a *)
(* worker whose item is older than the row: no crash, poll, enqueue or     *)
(* up-to-date worker reopens or rewrites a delivery.                       *)
StaleOverwriteOnly ==
    [][\A d \in Deliveries :
          rows[d].state \in Settled /\ Progress(rows'[d]) # Progress(rows[d]) =>
             \E w \in Workers :
                /\ pc[w] = "recording"
                /\ Head(batch[w]).dlv = d
                /\ Head(batch[w]).attempts < rows[d].attempts]_vars

(* Although updateDeliveryTempFail tests a stale count, the attempts of a  *)
(* delivery stay bounded: with W workers the limit is overshot by at most  *)
(* W(W+1)/2 + W - 2, which is none for a single worker.                    *)
AttemptsBounded ==
    LET W == Cardinality(Workers) IN
    \A d \in Deliveries :
        rows[d].attempts <= MaxAttempts + (W * (W + 1)) \div 2 + W - 2

(* With one worker an MX takes a second copy of a message only after a     *)
(* fault: a lost reply, a crash, or an UPDATE that failed.                 *)
DuplicatesOnlyFromFaults ==
    \A d \in Deliveries : copies[d] <= 1 + lost + crashes + dbErrors

(* The columns of the table, seen as the abstract lifecycle. *)
Lifecycle == INSTANCE DeliveryLifecycle WITH
    state <- [d \in Deliveries |-> rows[d].state],
    attempts <- [d \in Deliveries |-> rows[d].attempts]

(* With one worker the table behaves as DeliveryLifecycle says, crashes    *)
(* and failing statements included.                                        *)
LifecycleSpec == Lifecycle!Spec

(* Every worker has left its loop or waits for an MX that is silent. *)
NobodyLeft == \A w \in Workers : pc[w] \in {"hung", "exited"}

(* Every enqueued delivery is settled in the end, and stays so, as long as *)
(* one worker is left running: races reopen a settled row only finitely    *)
(* often, a hung worker does not strand the items of its batch.            *)
EventuallySettled ==
    \A d \in Deliveries : <>[](rows[d].state \notin Pending \/ NobodyLeft)

(* Once Stop closes stopChan every worker finishes its batch and leaves,   *)
(* unless it hangs or the process dies first.                              *)
StopDrains ==
    \A c \in 0..MaxCrashes :
        (stopChan /\ crashes = c) ~> (crashes > c \/ NobodyLeft)

-----------------------------------------------------------------------------
(* What the README says of the states, checked as it says it *)

(* README: "perm_fail | Permanent failure, no more retries".  No step      *)
(* takes a delivery out of perm_fail.                                      *)
PermFailIsFinal ==
    [][\A d \in Deliveries :
          rows[d].state = "perm_fail" => rows'[d].state = "perm_fail"]_vars
=============================================================================
