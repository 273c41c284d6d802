--------------------------- MODULE DeliveryProofs ---------------------------
(***************************************************************************)
(* Proofs about module Delivery, for any number of workers and deliveries, *)
(* any retry schedule and any bounds.                                      *)
(***************************************************************************)
EXTENDS Delivery, SequenceTheorems, FiniteSetTheorems, TLAPS

(* Definitions that every proof below may expand. *)
USE DEF ZeroTime, Pending, Settled

(* A non-empty sequence, taken apart by Head and Tail. *)
LEMMA HeadAndTail ==
    ASSUME NEW S, NEW s \in Seq(S), s # <<>>
    PROVE  /\ Head(s) \in S /\ Head(s) = s[1]
           /\ Tail(s) \in Seq(S)
           /\ Len(s) \in Nat \ {0}
           /\ DOMAIN s = 1..Len(s)
           /\ DOMAIN Tail(s) = 1..(Len(s) - 1)
           /\ \A i \in 1..(Len(s) - 1) : Tail(s)[i] = s[i + 1]
           /\ Len(s) > 1 <=> Tail(s) # <<>>
<1>1. Len(s) \in Nat \ {0}
  BY EmptySeq
<1>2. /\ Head(s) \in S
      /\ Tail(s) \in Seq(S)
      /\ Len(Tail(s)) = Len(s) - 1
      /\ \A i \in 1..Len(Tail(s)) : Tail(s)[i] = s[i + 1]
  BY HeadTailProperties
<1>3. DOMAIN s = 1..Len(s) /\ DOMAIN Tail(s) = 1..Len(Tail(s))
  BY <1>2, LenProperties
<1>4. Head(s) = s[1]
  OBVIOUS
<1>5. ASSUME Len(s) > 1 PROVE Tail(s) # <<>>
  <2>1. Len(Tail(s)) # 0
    BY <1>1, <1>2, <1>5
  <2>2. Len(<<>>) = 0
    BY EmptySeq
  <2> QED
    BY <2>1, <2>2
<1>6. ASSUME Tail(s) # <<>> PROVE Len(s) > 1
  <2>1. Len(Tail(s)) \in Nat \ {0}
    BY <1>2, <1>6, EmptySeq
  <2> QED
    BY <2>1, <1>1, <1>2
<1> QED
  BY <1>1, <1>2, <1>3, <1>4, <1>5, <1>6

(* calculateNextRetry answers with an entry of the schedule. *)
LEMMA NextRetryType ==
    ASSUME NEW a \in Nat
    PROVE  calculateNextRetry(a) \in Nat
BY ScheduleAssumption DEF calculateNextRetry

(* What one write of the outcome does to the table: only the row of the    *)
(* item changes, it is counted up, and it becomes delivered on an accepted *)
(* reply only.                                                             *)
LEMMA RecordedRow ==
    ASSUME TypeOK, NEW item \in QueueItem, NEW r \in AllReplies,
           processDelivery(item, r)
    PROVE  \E s \in {"delivered", "temp_fail", "perm_fail"}, t \in Int :
              /\ s = "delivered" => r = "accept"
              /\ UpdateDeliveryState(item.dlv, s, t)
<1>1. CASE r = "accept"
  <2>1. updateDeliverySuccess(item)
    BY <1>1 DEF processDelivery, deliver
  <2> QED
    BY <2>1, <1>1, BoundsAssumption DEF updateDeliverySuccess
<1>2. CASE r # "accept"
  <2>1. updateDeliveryFailed(item) \/ updateDeliveryTempFail(item)
    BY <1>2 DEF processDelivery, deliver
  <2>2. calculateNextRetry(item.attempts) \in Int
    BY NextRetryType DEF QueueItem
  <2> QED
    BY <2>1, <2>2, BoundsAssumption DEF updateDeliveryFailed, updateDeliveryTempFail
<1> QED
  BY <1>1, <1>2

(* The same, said of the table row by row. *)
LEMMA RecordedTable ==
    ASSUME TypeOK, NEW item \in QueueItem, NEW r \in AllReplies,
           processDelivery(item, r)
    PROVE  /\ rows' \in [Deliveries -> Row]
           /\ \A d \in Deliveries : d # item.dlv => rows'[d] = rows[d]
           /\ rows'[item.dlv].attempts = rows[item.dlv].attempts + 1
           /\ rows'[item.dlv].state = "delivered" => r = "accept"
<1>1. PICK s \in {"delivered", "temp_fail", "perm_fail"}, t \in Int :
         /\ s = "delivered" => r = "accept"
         /\ UpdateDeliveryState(item.dlv, s, t)
  BY RecordedRow
<1>2. item.dlv \in Deliveries
  BY DEF QueueItem
<1> QED
  BY <1>1, <1>2 DEF UpdateDeliveryState, TypeOK, Row, DeliveryState

(* A worker that is ready or recording has an item to work on. *)
LEMMA BusyWorker ==
    ASSUME TypeOK, NEW w \in Workers, pc[w] \in {"ready", "recording"}
    PROVE  /\ batch[w] \in Seq(QueueItem)
           /\ batch[w] # <<>>
           /\ Head(batch[w]) \in QueueItem
           /\ Head(batch[w]) = batch[w][1]
           /\ 1 \in DOMAIN batch[w]
           /\ Head(batch[w]).dlv \in Deliveries
<1>1. batch[w] \in Seq(QueueItem) /\ batch[w] # <<>>
  BY DEF TypeOK
<1>2. Head(batch[w]) \in QueueItem /\ Head(batch[w]) = batch[w][1]
  BY <1>1, HeadAndTail
<1>3. Len(batch[w]) \in Nat \ {0} /\ DOMAIN batch[w] = 1..Len(batch[w])
  BY <1>1, HeadAndTail
<1> QED
  BY <1>1, <1>2, <1>3 DEF QueueItem

(* NextItem keeps the workers well formed. *)
LEMMA NextItemType ==
    ASSUME TypeOK, NEW w \in Workers, pc[w] = "recording", NextItem(w)
    PROVE  /\ pc' \in [Workers -> {"idle", "ready", "recording", "hung", "exited"}]
           /\ batch' \in [Workers -> Seq(QueueItem)]
           /\ reply' \in [Workers -> AllReplies \union {"none"}]
           /\ \A v \in Workers : pc'[v] \in {"ready", "recording", "hung"} <=> batch'[v] # <<>>
           /\ \A v \in Workers : pc'[v] = "recording" => reply'[v] # "none"
<1>1. batch[w] \in Seq(QueueItem) /\ batch[w] # <<>>
  BY DEF TypeOK
<1>2. Tail(batch[w]) \in Seq(QueueItem) /\ (Len(batch[w]) > 1 <=> Tail(batch[w]) # <<>>)
  BY <1>1, HeadAndTail
<1> QED
  BY <1>1, <1>2 DEF TypeOK, NextItem

(* The rows and the workers stay well formed: the type invariant of the    *)
(* delivery component is inductive by itself.                              *)
LEMMA TypeInductive == TypeOK /\ [Next]_vars => TypeOK'
<1> SUFFICES ASSUME TypeOK, [Next]_vars PROVE TypeOK'
  OBVIOUS
<1> USE DEF faults
<1>1. ASSUME NEW d \in Deliveries, EnqueueDelivery(d) PROVE TypeOK'
  BY <1>1 DEF EnqueueDelivery, TypeOK, Row, DeliveryState
<1>2. ASSUME NEW w \in Workers, Poll(w) PROVE TypeOK'
  <2>1. PICK s \in GetPendingDeliveries(BatchLimit) :
           /\ s # <<>>
           /\ batch' = [batch EXCEPT ![w] =
                 [i \in DOMAIN s |-> [dlv |-> s[i], attempts |-> rows[s[i]].attempts]]]
    BY <1>2 DEF Poll
  <2>2. PICK n \in Nat : s \in [1..n -> Due]
    BY BatchLimitAssumption DEF GetPendingDeliveries
  <2>3. \A i \in 1..n : s[i] \in Deliveries /\ rows[s[i]].attempts \in Nat
    BY <2>2 DEF Due, TypeOK, Row
  <2> DEFINE items == [i \in 1..n |-> [dlv |-> s[i], attempts |-> rows[s[i]].attempts]]
  <2>4. items \in Seq(QueueItem)
    BY <2>3 DEF QueueItem
  <2>5. n > 0
    BY <2>1, <2>2
  <2>6. items # <<>>
    BY <2>5
  <2>7. DOMAIN s = 1..n
    BY <2>2
  <2>8. batch' = [batch EXCEPT ![w] = items]
    BY <2>1, <2>7
  <2> HIDE DEF items
  <2> QED
    BY <1>2, <2>4, <2>6, <2>8 DEF Poll, TypeOK
<1>3. ASSUME NEW w \in Workers, PollFails(w) PROVE TypeOK'
  BY <1>3 DEF PollFails, TypeOK
<1>4. ASSUME NEW w \in Workers, Attempt(w) PROVE TypeOK'
  <2>1. PICK r \in Replies :
          /\ lost' = IF r = "lost" THEN lost + 1 ELSE lost
          /\ reply' = [reply EXCEPT ![w] = r]
          /\ pc' = [pc EXCEPT ![w] = IF r = "hang" THEN "hung" ELSE "recording"]
          /\ copies' = IF r \in {"accept", "lost"}
                       THEN [copies EXCEPT ![Head(batch[w]).dlv] = @ + 1]
                       ELSE copies
    BY <1>4 DEF Attempt
  <2>2. r \in AllReplies /\ r # "none"
    BY RepliesAssumption DEF AllReplies
  <2>3. lost' \in Nat
    BY <2>1 DEF TypeOK
  <2>4. Head(batch[w]) \in QueueItem
    BY <1>4, BusyWorker DEF Attempt
  <2>5. Head(batch[w]).dlv \in Deliveries
    BY <2>4 DEF QueueItem
  <2>6. copies' \in [Deliveries -> Nat]
    BY <2>1, <2>5 DEF TypeOK
  <2> QED
    BY <1>4, <2>1, <2>2, <2>3, <2>6 DEF Attempt, TypeOK
<1>5. ASSUME NEW w \in Workers, Record(w) PROVE TypeOK'
  <2>1. Head(batch[w]) \in QueueItem /\ reply[w] \in AllReplies
    BY <1>5, BusyWorker DEF Record, TypeOK
  <2>2. rows' \in [Deliveries -> Row]
    BY <1>5, <2>1, RecordedTable DEF Record
  <2> QED
    BY <1>5, <2>2, NextItemType DEF Record, TypeOK
<1>6. ASSUME NEW w \in Workers, RecordFails(w) PROVE TypeOK'
  <2>1. dbErrors' \in Nat
    BY <1>6 DEF RecordFails, TypeOK
  <2> QED
    BY <1>6, <2>1, NextItemType DEF RecordFails, TypeOK
<1>7. ASSUME NEW w \in Workers, WorkerExit(w) PROVE TypeOK'
  BY <1>7 DEF WorkerExit, TypeOK
<1>8. CASE Stop
  BY <1>8 DEF Stop, TypeOK
<1>9. CASE Crash
  <2>1. <<>> \in Seq(QueueItem)
    BY EmptySeq
  <2>2. crashes' \in Nat
    BY <1>9 DEF Crash, TypeOK
  <2> QED
    BY <1>9, <2>1, <2>2 DEF Crash, TypeOK
<1>10. CASE Tick
  <2>1. \A d \in Deliveries :
          [rows[d] EXCEPT !.wait = IF @ > -MaxLate THEN @ - 1 ELSE @] \in Row
    <3> TAKE d \in Deliveries
    <3>1. rows[d] \in Row
      BY DEF TypeOK
    <3>2. (IF rows[d].wait > -MaxLate THEN rows[d].wait - 1 ELSE rows[d].wait) \in Int
      BY <3>1, BoundsAssumption DEF Row
    <3> QED
      BY <3>1, <3>2 DEF Row
  <2>2. rows' \in [Deliveries -> Row]
    BY <1>10, <2>1 DEF Tick
  <2> QED
    BY <1>10, <2>2 DEF Tick, TypeOK
<1>11. CASE UNCHANGED vars
  BY <1>11 DEF vars, TypeOK
<1> QED
  BY <1>1, <1>2, <1>3, <1>4, <1>5, <1>6, <1>7, <1>8, <1>9, <1>10, <1>11
     DEF Next, WorkerStep

-----------------------------------------------------------------------------
(* Versions *)

(* A row that was never inserted counts no attempts. *)
UntouchedBeforeEnqueue ==
    \A d \in Deliveries : rows[d].state = "absent" => rows[d].attempts = 0

(* What the version argument needs of a state. *)
VersionInv == TypeOK /\ UntouchedBeforeEnqueue /\ SnapshotIsVersion

(* An item of a batch is an item. *)
LEMMA ItemType ==
    ASSUME TypeOK, NEW w \in Workers, NEW i \in DOMAIN batch[w]
    PROVE  /\ batch[w][i] \in QueueItem
           /\ batch[w][i].dlv \in Deliveries
           /\ batch[w][i].attempts \in Nat
<1>1. batch[w] \in Seq(QueueItem)
  BY DEF TypeOK
<1>2. batch[w][i] \in QueueItem
  BY <1>1
<1> QED
  BY <1>2 DEF QueueItem

(* NextItem drops the first item of a batch and adds none. *)
LEMMA TailItems ==
    ASSUME TypeOK, NEW w \in Workers, pc[w] = "recording", NextItem(w)
    PROVE  \A v \in Workers : \A i \in DOMAIN batch'[v] :
               \E j \in DOMAIN batch[v] : batch'[v][i] = batch[v][j]
<1>1. batch[w] \in Seq(QueueItem) /\ batch[w] # <<>>
  BY DEF TypeOK
<1>2. /\ Len(batch[w]) \in Nat \ {0}
      /\ DOMAIN batch[w] = 1..Len(batch[w])
      /\ DOMAIN Tail(batch[w]) = 1..(Len(batch[w]) - 1)
      /\ \A i \in 1..(Len(batch[w]) - 1) : Tail(batch[w])[i] = batch[w][i + 1]
  BY <1>1, HeadAndTail
<1>3. \A i \in DOMAIN Tail(batch[w]) : i + 1 \in DOMAIN batch[w]
  BY <1>2
<1>4. batch' = [batch EXCEPT ![w] = Tail(batch[w])]
  BY DEF NextItem
<1> TAKE v \in Workers
<1> TAKE i \in DOMAIN batch'[v]
<1>5. CASE v = w
  <2>1. batch'[v] = Tail(batch[w])
    BY <1>4, <1>5 DEF TypeOK
  <2>2. batch'[v][i] = batch[w][i + 1] /\ i + 1 \in DOMAIN batch[w]
    BY <1>2, <1>3, <2>1
  <2> QED
    BY <1>5, <2>2
<1>6. CASE v # w
  BY <1>4, <1>6 DEF TypeOK
<1> QED
  BY <1>5, <1>6

(* If no batch gains an item, and every row an item refers to either is    *)
(* as it was, became more due, or was counted up, the items stay versioned.*)
LEMMA VersionsKept ==
    ASSUME VersionInv, TypeOK',
           \A w \in Workers : \A i \in DOMAIN batch'[w] :
               \E j \in DOMAIN batch[w] : batch'[w][i] = batch[w][j],
           \A d \in Deliveries :
               \/ /\ rows'[d].attempts = rows[d].attempts
                  /\ rows'[d].state = rows[d].state
                  /\ rows'[d].wait <= rows[d].wait
               \/ rows'[d].attempts = rows[d].attempts + 1
    PROVE  SnapshotIsVersion'
<1> SUFFICES ASSUME NEW w \in Workers, NEW i \in DOMAIN batch'[w]
             PROVE  Versioned(batch'[w][i], rows'[batch'[w][i].dlv])
  BY DEF SnapshotIsVersion, Versioned
<1>1. PICK j \in DOMAIN batch[w] : batch'[w][i] = batch[w][j]
  OBVIOUS
<1> DEFINE item == batch[w][j]
<1>2. item.dlv \in Deliveries /\ item.attempts \in Nat
  BY ItemType DEF VersionInv
<1>3. Versioned(item, rows[item.dlv])
  BY DEF VersionInv, SnapshotIsVersion
<1>4. rows[item.dlv] \in Row /\ rows'[item.dlv] \in Row
  BY <1>2 DEF VersionInv, TypeOK
<1> HIDE DEF item
<1>5. Versioned(item, rows'[item.dlv])
  BY <1>2, <1>3, <1>4 DEF Versioned, Row
<1> QED
  BY <1>1, <1>5 DEF item

(* Every step keeps the items in the workers' memories versioned. *)
LEMMA VersionInductive == VersionInv /\ [Next]_vars => VersionInv'
<1> SUFFICES ASSUME VersionInv, [Next]_vars PROVE VersionInv'
  OBVIOUS
<1> USE DEF faults
<1>t. TypeOK /\ TypeOK'
  BY TypeInductive DEF VersionInv
<1>u. \A d \in Deliveries : rows[d].state = "absent" => rows[d].attempts = 0
  BY DEF VersionInv, UntouchedBeforeEnqueue
<1>r. \A d \in Deliveries : rows[d] \in Row
  BY <1>t DEF TypeOK
<1>1. ASSUME NEW d \in Deliveries, EnqueueDelivery(d) PROVE VersionInv'
  <2>1. rows[d].attempts = 0
    BY <1>1, <1>u DEF EnqueueDelivery
  <2>2. UntouchedBeforeEnqueue'
    BY <1>1, <1>u, <1>t DEF EnqueueDelivery, UntouchedBeforeEnqueue, TypeOK
  <2>3. SnapshotIsVersion'
    <3> SUFFICES ASSUME NEW w \in Workers, NEW i \in DOMAIN batch[w]
                 PROVE  Versioned(batch[w][i], rows'[batch[w][i].dlv])
      BY <1>1 DEF EnqueueDelivery, SnapshotIsVersion, Versioned
    <3> DEFINE item == batch[w][i]
    <3>1. item.dlv \in Deliveries /\ item.attempts \in Nat
      BY <1>t, ItemType
    <3>2. Versioned(item, rows[item.dlv])
      BY DEF VersionInv, SnapshotIsVersion
    <3>3. item.dlv # d
      BY <2>1, <3>1, <3>2, <1>1 DEF Versioned, EnqueueDelivery
    <3>4. rows'[item.dlv] = rows[item.dlv]
      BY <1>1, <1>t, <3>1, <3>3 DEF EnqueueDelivery, TypeOK
    <3> QED
      BY <3>2, <3>4
  <2> QED
    BY <1>t, <2>2, <2>3 DEF VersionInv
<1>2. ASSUME NEW w \in Workers, Poll(w) PROVE VersionInv'
  <2>1. PICK s \in GetPendingDeliveries(BatchLimit) :
           batch' = [batch EXCEPT ![w] =
                 [i \in DOMAIN s |-> [dlv |-> s[i], attempts |-> rows[s[i]].attempts]]]
    BY <1>2 DEF Poll
  <2>2. PICK n \in Nat : s \in [1..n -> Due]
    BY BatchLimitAssumption DEF GetPendingDeliveries
  <2>3. SnapshotIsVersion'
    <3> SUFFICES ASSUME NEW v \in Workers, NEW i \in DOMAIN batch'[v]
                 PROVE  Versioned(batch'[v][i], rows[batch'[v][i].dlv])
      BY <1>2 DEF Poll, SnapshotIsVersion, Versioned
    <3>1. CASE v # w
      BY <3>1, <2>1, <1>t DEF VersionInv, SnapshotIsVersion, TypeOK
    <3>2. CASE v = w
      <4>1. i \in DOMAIN s /\ batch'[v][i] = [dlv |-> s[i], attempts |-> rows[s[i]].attempts]
        BY <3>2, <2>1, <1>t DEF TypeOK
      <4>2. s[i] \in Due
        BY <4>1, <2>2
      <4>3. rows[s[i]].attempts \in Nat
        BY <4>2, <1>r DEF Due, Row
      <4> QED
        BY <4>1, <4>2, <4>3 DEF Versioned, Due
    <3> QED
      BY <3>1, <3>2
  <2> QED
    BY <1>t, <1>u, <1>2, <2>3 DEF VersionInv, UntouchedBeforeEnqueue, Poll
<1>5. ASSUME NEW w \in Workers, Record(w) PROVE VersionInv'
  <2> DEFINE item == Head(batch[w])
  <2>1. /\ batch[w] \in Seq(QueueItem) /\ batch[w] # <<>>
        /\ item \in QueueItem /\ item.dlv \in Deliveries
        /\ reply[w] \in AllReplies
    BY <1>5, <1>t, BusyWorker DEF Record, TypeOK
  <2>2. /\ \A d \in Deliveries : d # item.dlv => rows'[d] = rows[d]
        /\ rows'[item.dlv].attempts = rows[item.dlv].attempts + 1
    BY <1>5, <1>t, <2>1, RecordedTable DEF Record
  <2>3. UntouchedBeforeEnqueue'
    <3> SUFFICES ASSUME NEW d \in Deliveries, rows'[d].state = "absent"
                 PROVE  rows'[d].attempts = 0
      BY DEF UntouchedBeforeEnqueue
    <3>1. PICK st \in {"delivered", "temp_fail", "perm_fail"}, t \in Int :
              UpdateDeliveryState(item.dlv, st, t)
      BY <1>5, <1>t, <2>1, RecordedRow DEF Record
    <3>2. d # item.dlv
      BY <3>1, <2>1, <1>t DEF UpdateDeliveryState, TypeOK
    <3> QED
      BY <3>2, <2>2, <1>u
  <2>4. \A v \in Workers : \A i \in DOMAIN batch'[v] :
            \E j \in DOMAIN batch[v] : batch'[v][i] = batch[v][j]
    BY <1>5, <1>t, TailItems DEF Record
  <2>5. \A d \in Deliveries : rows[d].wait <= rows[d].wait
    BY <1>r DEF Row
  <2>6. SnapshotIsVersion'
    BY <1>t, <2>2, <2>4, <2>5, VersionsKept
  <2> QED
    BY <1>t, <2>3, <2>6 DEF VersionInv
<1>6. ASSUME NEW w \in Workers, RecordFails(w) PROVE VersionInv'
  <2>1. \A v \in Workers : \A i \in DOMAIN batch'[v] :
            \E j \in DOMAIN batch[v] : batch'[v][i] = batch[v][j]
    BY <1>6, <1>t, TailItems DEF RecordFails
  <2>2. \A d \in Deliveries : rows'[d] = rows[d] /\ rows[d].wait <= rows[d].wait
    BY <1>6, <1>r DEF RecordFails, Row
  <2>3. SnapshotIsVersion'
    BY <1>t, <2>1, <2>2, VersionsKept
  <2> QED
    BY <1>t, <1>u, <1>6, <2>3 DEF VersionInv, UntouchedBeforeEnqueue, RecordFails
<1>9. CASE Crash
  <2>1. \A v \in Workers : DOMAIN batch'[v] = {}
    BY <1>9 DEF Crash
  <2>2. SnapshotIsVersion'
    BY <2>1 DEF SnapshotIsVersion
  <2> QED
    BY <1>t, <1>u, <1>9, <2>2 DEF VersionInv, UntouchedBeforeEnqueue, Crash
<1>10. CASE Tick
  <2>1. \A d \in Deliveries : /\ rows'[d].attempts = rows[d].attempts
                              /\ rows'[d].state = rows[d].state
                              /\ rows'[d].wait <= rows[d].wait
    BY <1>10, <1>r, BoundsAssumption DEF Tick, Row
  <2>2. batch' = batch
    BY <1>10 DEF Tick
  <2>3. SnapshotIsVersion'
    BY <1>t, <2>1, <2>2, VersionsKept
  <2> QED
    BY <1>t, <1>u, <2>1, <2>3 DEF VersionInv, UntouchedBeforeEnqueue
<1>11. ASSUME rows' = rows, batch' = batch PROVE VersionInv'
  BY <1>11, <1>t DEF VersionInv, UntouchedBeforeEnqueue, SnapshotIsVersion, Versioned
<1> QED
  BY <1>1, <1>2, <1>5, <1>6, <1>9, <1>10, <1>11
     DEF Next, WorkerStep, PollFails, Attempt, WorkerExit, Stop, vars

-----------------------------------------------------------------------------
(* Success *)

(* A worker about to record a success has seen the MX take the message. *)
AcceptedCounted ==
    \A w \in Workers :
        pc[w] = "recording" /\ reply[w] = "accept" => copies[Head(batch[w]).dlv] > 0

SuccessInv == TypeOK /\ AcceptedCounted /\ NoFalseSuccess

(* Every step keeps what is reported delivered backed by an acceptance. *)
LEMMA SuccessInductive == SuccessInv /\ [Next]_vars => SuccessInv'
<1> SUFFICES ASSUME SuccessInv, [Next]_vars PROVE SuccessInv'
  OBVIOUS
<1> USE DEF faults
<1>t. TypeOK /\ TypeOK'
  BY TypeInductive DEF SuccessInv
<1>1. ASSUME NEW d \in Deliveries, EnqueueDelivery(d) PROVE SuccessInv'
  <2>1. NoFalseSuccess'
    BY <1>1, <1>t DEF EnqueueDelivery, SuccessInv, NoFalseSuccess, TypeOK
  <2> QED
    BY <1>1, <1>t, <2>1 DEF EnqueueDelivery, SuccessInv, AcceptedCounted
<1>2. ASSUME NEW w \in Workers, Poll(w) PROVE SuccessInv'
  <2>1. \A v \in Workers : v # w => batch'[v] = batch[v] /\ pc'[v] = pc[v]
    BY <1>2, <1>t DEF Poll, TypeOK
  <2>2. pc'[w] = "ready"
    BY <1>2, <1>t DEF Poll, TypeOK
  <2>3. AcceptedCounted'
    BY <1>2, <2>1, <2>2 DEF Poll, SuccessInv, AcceptedCounted
  <2> QED
    BY <1>2, <1>t, <2>3 DEF Poll, SuccessInv, NoFalseSuccess
<1>3. ASSUME NEW w \in Workers, PollFails(w) PROVE SuccessInv'
  BY <1>3, <1>t DEF PollFails, SuccessInv, AcceptedCounted, NoFalseSuccess
<1>4. ASSUME NEW w \in Workers, Attempt(w) PROVE SuccessInv'
  <2>1. PICK r \in Replies :
          /\ reply' = [reply EXCEPT ![w] = r]
          /\ pc' = [pc EXCEPT ![w] = IF r = "hang" THEN "hung" ELSE "recording"]
          /\ copies' = IF r \in {"accept", "lost"}
                       THEN [copies EXCEPT ![Head(batch[w]).dlv] = @ + 1]
                       ELSE copies
    BY <1>4 DEF Attempt
  <2>2. Head(batch[w]).dlv \in Deliveries
    BY <1>4, <1>t, BusyWorker DEF Attempt
  <2>3. \A d \in Deliveries : copies[d] > 0 => copies'[d] > 0
    BY <2>1, <2>2, <1>t DEF TypeOK
  <2>4. r = "accept" => copies'[Head(batch[w]).dlv] > 0
    BY <2>1, <2>2, <1>t DEF TypeOK
  <2>5. batch' = batch /\ rows' = rows
    BY <1>4 DEF Attempt
  <2>6. ASSUME NEW v \in Workers, pc'[v] = "recording", reply'[v] = "accept"
        PROVE  copies'[Head(batch[v]).dlv] > 0
    <3>1. CASE v = w
      BY <3>1, <2>1, <2>4, <2>6, <1>t DEF TypeOK
    <3>2. CASE v # w
      <4>1. pc[v] = "recording" /\ reply[v] = "accept"
        BY <3>2, <2>1, <2>6, <1>t DEF TypeOK
      <4>2. Head(batch[v]).dlv \in Deliveries
        BY <4>1, <1>t, BusyWorker
      <4> QED
        BY <4>1, <4>2, <2>3 DEF SuccessInv, AcceptedCounted
    <3> QED
      BY <3>1, <3>2
  <2>7. AcceptedCounted'
    BY <2>5, <2>6 DEF AcceptedCounted
  <2>8. NoFalseSuccess'
    BY <2>3, <2>5 DEF SuccessInv, NoFalseSuccess
  <2> QED
    BY <1>t, <2>7, <2>8 DEF SuccessInv
<1>5. ASSUME NEW w \in Workers, pc[w] = "recording", NextItem(w), copies' = copies
      PROVE  AcceptedCounted'
  <2>1. \A v \in Workers : v # w =>
           batch'[v] = batch[v] /\ pc'[v] = pc[v] /\ reply'[v] = reply[v]
    BY <1>5, <1>t DEF NextItem, TypeOK
  <2>2. pc'[w] # "recording"
    BY <1>5, <1>t DEF NextItem, TypeOK
  <2> QED
    BY <1>5, <2>1, <2>2 DEF SuccessInv, AcceptedCounted
<1>6. ASSUME NEW w \in Workers, Record(w) PROVE SuccessInv'
  <2> DEFINE item == Head(batch[w])
  <2>1. item \in QueueItem /\ item.dlv \in Deliveries /\ reply[w] \in AllReplies
    BY <1>6, <1>t, BusyWorker DEF Record, TypeOK
  <2>2. /\ \A d \in Deliveries : d # item.dlv => rows'[d] = rows[d]
        /\ rows'[item.dlv].state = "delivered" => reply[w] = "accept"
    BY <1>6, <1>t, <2>1, RecordedTable DEF Record
  <2>3. reply[w] = "accept" => copies[item.dlv] > 0
    BY <1>6 DEF Record, SuccessInv, AcceptedCounted
  <2>4. copies' = copies
    BY <1>6 DEF Record
  <2>5. NoFalseSuccess'
    BY <2>1, <2>2, <2>3, <2>4 DEF SuccessInv, NoFalseSuccess
  <2> QED
    BY <1>t, <1>5, <1>6, <2>5 DEF SuccessInv, Record
<1>7. ASSUME NEW w \in Workers, RecordFails(w) PROVE SuccessInv'
  BY <1>t, <1>5, <1>7 DEF SuccessInv, RecordFails, NoFalseSuccess
<1>8. ASSUME NEW w \in Workers, WorkerExit(w) PROVE SuccessInv'
  <2>1. \A v \in Workers : pc'[v] = "recording" => pc[v] = "recording"
    BY <1>8, <1>t DEF WorkerExit, TypeOK
  <2> QED
    BY <1>8, <1>t, <2>1 DEF WorkerExit, SuccessInv, AcceptedCounted, NoFalseSuccess
<1>9. CASE Stop
  BY <1>9, <1>t DEF Stop, SuccessInv, AcceptedCounted, NoFalseSuccess
<1>10. CASE Crash
  BY <1>10, <1>t DEF Crash, SuccessInv, AcceptedCounted, NoFalseSuccess
<1>11. CASE Tick
  <2>1. \A d \in Deliveries : rows[d] \in Row
    BY <1>t DEF TypeOK
  <2>2. \A d \in Deliveries : rows'[d].state = rows[d].state
    BY <1>11, <2>1 DEF Tick, Row
  <2>3. NoFalseSuccess'
    BY <1>11, <2>2 DEF Tick, SuccessInv, NoFalseSuccess
  <2> QED
    BY <1>11, <1>t, <2>3 DEF Tick, SuccessInv, AcceptedCounted
<1>12. CASE UNCHANGED vars
  BY <1>12, <1>t DEF vars, SuccessInv, AcceptedCounted, NoFalseSuccess
<1> QED
  BY <1>1, <1>2, <1>3, <1>4, <1>6, <1>7, <1>8, <1>9, <1>10, <1>11, <1>12
     DEF Next, WorkerStep

-----------------------------------------------------------------------------
(* The theorems for a pool of any size *)

(* The empty table with an idle pool satisfies the three invariants. *)
LEMMA InitInvariants == Init => VersionInv /\ SuccessInv
<1> SUFFICES ASSUME Init PROVE VersionInv /\ SuccessInv
  OBVIOUS
<1>1. TypeOK
  <2>1. <<>> \in Seq(QueueItem)
    BY EmptySeq
  <2>2. [state |-> "absent", attempts |-> 0, wait |-> ZeroTime] \in Row
    BY BoundsAssumption DEF Row
  <2> QED
    BY <2>1, <2>2 DEF Init, TypeOK
<1>2. \A w \in Workers : DOMAIN batch[w] = {}
  BY DEF Init
<1> QED
  BY <1>1, <1>2 DEF Init, VersionInv, SuccessInv, UntouchedBeforeEnqueue,
     SnapshotIsVersion, AcceptedCounted, NoFalseSuccess

(* The table and the workers are well formed in every reachable state of   *)
(* the queue and its pool.                                                 *)
THEOREM TypeCorrect == Spec => []TypeOK
<1>1. Init => TypeOK
  BY InitInvariants DEF VersionInv
<1> QED
  BY <1>1, TypeInductive, PTL DEF Spec

(* Whatever workers, crashes and failing statements interleave, a delivery *)
(* the queue reports as delivered was taken by an MX.                      *)
THEOREM SuccessIsReal == Spec => []NoFalseSuccess
<1>1. Init => SuccessInv
  BY InitInvariants
<1>2. SuccessInv => NoFalseSuccess
  BY DEF SuccessInv
<1> QED
  BY <1>1, <1>2, SuccessInductive, PTL DEF Spec

(* The attempts column versions its row, for a pool of any size: an item   *)
(* whose count still agrees with the row sees a pending, due row.          *)
THEOREM AttemptsAreVersions == Spec => []SnapshotIsVersion
<1>1. Init => VersionInv
  BY InitInvariants
<1>2. VersionInv => SnapshotIsVersion
  BY DEF VersionInv
<1> QED
  BY <1>1, <1>2, VersionInductive, PTL DEF Spec

(* What StaleOverwriteOnly asks of a step. *)
LEMMA StaleStep ==
    ASSUME VersionInv, [Next]_vars, NEW d \in Deliveries,
           rows[d].state \in Settled, Progress(rows'[d]) # Progress(rows[d])
    PROVE  \E w \in Workers : /\ pc[w] = "recording"
                              /\ Head(batch[w]).dlv = d
                              /\ Head(batch[w]).attempts < rows[d].attempts
<1> USE DEF faults
<1>t. TypeOK
  BY DEF VersionInv
<1>r. rows[d] \in Row
  BY <1>t DEF TypeOK
<1>1. ASSUME NEW c \in Deliveries, EnqueueDelivery(c) PROVE FALSE
  BY <1>1, <1>t DEF EnqueueDelivery, TypeOK
<1>2. ASSUME NEW w \in Workers, Record(w)
      PROVE  /\ pc[w] = "recording"
             /\ Head(batch[w]).dlv = d
             /\ Head(batch[w]).attempts < rows[d].attempts
  <2> DEFINE item == Head(batch[w])
  <2>1. /\ item \in QueueItem /\ item = batch[w][1] /\ 1 \in DOMAIN batch[w]
        /\ reply[w] \in AllReplies
    BY <1>2, <1>t, BusyWorker DEF Record, TypeOK
  <2>2. item.dlv = d
    BY <1>2, <1>t, <2>1, RecordedTable DEF Record
  <2>3. Versioned(item, rows[d])
    BY <2>1, <2>2 DEF VersionInv, SnapshotIsVersion
  <2>4. item.attempts \in Nat /\ rows[d].attempts \in Nat
    BY <2>1, <1>r DEF QueueItem, Row
  <2>5. item.attempts < rows[d].attempts
    BY <2>3, <2>4 DEF Versioned
  <2> QED
    BY <1>2, <2>2, <2>5 DEF Record
<1>3. CASE Tick
  BY <1>3, <1>r DEF Tick, Row, Progress
<1> QED
  BY <1>1, <1>2, <1>3 DEF Next, WorkerStep, Poll, PollFails, Attempt, RecordFails,
     WorkerExit, Stop, Crash, vars

(* A settled delivery is rewritten only by a worker whose item is older    *)
(* than the row: crashes, polls, enqueues and up-to-date workers leave it. *)
THEOREM OnlyStaleOverwrites == Spec => StaleOverwriteOnly
<1>1. Init => VersionInv
  BY InitInvariants
<1>2. VersionInv /\ [Next]_vars =>
        [\A d \in Deliveries :
            rows[d].state \in Settled /\ Progress(rows'[d]) # Progress(rows[d]) =>
               \E w \in Workers :
                  /\ pc[w] = "recording"
                  /\ Head(batch[w]).dlv = d
                  /\ Head(batch[w]).attempts < rows[d].attempts]_vars
  BY StaleStep
<1> QED
  BY <1>1, <1>2, VersionInductive, PTL DEF Spec, StaleOverwriteOnly

-----------------------------------------------------------------------------
(* A single worker *)

(* With nobody else to write, the items of the one worker are exact, and a *)
(* batch holds a delivery at most once.                                    *)
ExactItems ==
    \A w \in Workers : \A i \in DOMAIN batch[w] :
        batch[w][i].attempts = rows[batch[w][i].dlv].attempts

DistinctItems ==
    \A w \in Workers : \A i, j \in DOMAIN batch[w] :
        i # j => batch[w][i].dlv # batch[w][j].dlv

SingleInv == VersionInv /\ ExactItems /\ DistinctItems

(* Every step of a pool of one keeps its items exact and distinct. *)
LEMMA SingleInductive ==
    ASSUME NEW w, Workers = {w}, SingleInv, [Next]_vars
    PROVE  SingleInv'
<1> USE DEF faults
<1>v. VersionInv /\ VersionInv' /\ TypeOK /\ TypeOK'
  BY VersionInductive DEF SingleInv, VersionInv
<1>w. w \in Workers /\ (\A v \in Workers : v = w)
  OBVIOUS
<1>r. \A d \in Deliveries : rows[d] \in Row
  BY <1>v DEF TypeOK
<1>e. \A i \in DOMAIN batch[w] : /\ batch[w][i].attempts = rows[batch[w][i].dlv].attempts
                                 /\ batch[w][i].dlv \in Deliveries
  BY <1>v, <1>w, ItemType DEF SingleInv, ExactItems
<1>d. \A i, j \in DOMAIN batch[w] : i # j => batch[w][i].dlv # batch[w][j].dlv
  BY <1>w DEF SingleInv, DistinctItems
<1>k. ASSUME batch' = batch,
             \A i \in DOMAIN batch[w] :
                rows'[batch[w][i].dlv].attempts = rows[batch[w][i].dlv].attempts
      PROVE  SingleInv'
  BY <1>k, <1>v, <1>w, <1>e, <1>d DEF SingleInv, ExactItems, DistinctItems
<1>n. ASSUME NEW s, s \in Seq(QueueItem), s # <<>>, batch[w] = s
      PROVE  /\ \A i \in DOMAIN Tail(s) : /\ i + 1 \in DOMAIN s
                                          /\ 1 \in DOMAIN s
                                          /\ i + 1 # 1
                                          /\ Tail(s)[i] = s[i + 1]
             /\ \A i, j \in DOMAIN Tail(s) : i # j => i + 1 # j + 1
  <2>1. /\ Len(s) \in Nat \ {0}
        /\ DOMAIN s = 1..Len(s)
        /\ DOMAIN Tail(s) = 1..(Len(s) - 1)
        /\ \A i \in 1..(Len(s) - 1) : Tail(s)[i] = s[i + 1]
    BY <1>n, HeadAndTail
  <2> QED
    BY <2>1
<1>1. ASSUME NEW d \in Deliveries, EnqueueDelivery(d) PROVE SingleInv'
  <2>1. batch' = batch
    BY <1>1 DEF EnqueueDelivery
  <2>2. rows'[d].attempts = 0 /\ rows[d].attempts = 0
    BY <1>1, <1>v DEF EnqueueDelivery, VersionInv, UntouchedBeforeEnqueue, TypeOK
  <2>3. \A c \in Deliveries : rows'[c].attempts = rows[c].attempts
    BY <1>1, <1>v, <2>2 DEF EnqueueDelivery, TypeOK
  <2> QED
    BY <1>k, <1>e, <2>1, <2>3
<1>2. CASE Poll(w)
  <2>1. PICK s \in GetPendingDeliveries(BatchLimit) :
           batch' = [batch EXCEPT ![w] =
                 [i \in DOMAIN s |-> [dlv |-> s[i], attempts |-> rows[s[i]].attempts]]]
    BY <1>2 DEF Poll
  <2>2. batch'[w] = [i \in DOMAIN s |-> [dlv |-> s[i], attempts |-> rows[s[i]].attempts]]
    BY <1>v, <1>w, <2>1 DEF TypeOK
  <2>3. PICK n \in Nat : s \in [1..n -> Due]
    BY BatchLimitAssumption DEF GetPendingDeliveries
  <2>4. \A i, j \in DOMAIN s : i < j => s[i] # s[j]
    BY DEF GetPendingDeliveries
  <2>5. \A i, j \in DOMAIN s : i # j => s[i] # s[j]
    BY <2>3, <2>4
  <2>6. rows' = rows
    BY <1>2 DEF Poll
  <2> QED
    BY <1>v, <1>w, <2>2, <2>5, <2>6 DEF SingleInv, ExactItems, DistinctItems
<1>3. ASSUME pc[w] = "recording", NextItem(w),
             \A d \in Deliveries : d # Head(batch[w]).dlv => rows'[d] = rows[d]
      PROVE  SingleInv'
  <2>1. batch[w] \in Seq(QueueItem) /\ batch[w] # <<>> /\ Head(batch[w]) = batch[w][1]
    BY <1>3, <1>v, <1>w, BusyWorker
  <2>2. batch'[w] = Tail(batch[w])
    BY <1>3, <1>v, <1>w DEF NextItem, TypeOK
  <2>3. /\ \A i \in DOMAIN Tail(batch[w]) : /\ i + 1 \in DOMAIN batch[w]
                                            /\ 1 \in DOMAIN batch[w]
                                            /\ i + 1 # 1
                                            /\ Tail(batch[w])[i] = batch[w][i + 1]
        /\ \A i, j \in DOMAIN Tail(batch[w]) : i # j => i + 1 # j + 1
    BY <1>n, <2>1
  <2>4. DistinctItems'
    <3> SUFFICES ASSUME NEW i \in DOMAIN Tail(batch[w]), NEW j \in DOMAIN Tail(batch[w]), i # j
                 PROVE  Tail(batch[w])[i].dlv # Tail(batch[w])[j].dlv
      BY <1>w, <2>2 DEF DistinctItems
    <3> QED
      BY <1>d, <2>3
  <2>5. \A i \in DOMAIN Tail(batch[w]) :
           rows'[batch[w][i + 1].dlv] = rows[batch[w][i + 1].dlv]
    BY <1>3, <1>d, <1>e, <2>1, <2>3
  <2>6. ExactItems'
    <3> SUFFICES ASSUME NEW i \in DOMAIN Tail(batch[w])
                 PROVE  Tail(batch[w])[i].attempts = rows'[Tail(batch[w])[i].dlv].attempts
      BY <1>w, <2>2 DEF ExactItems
    <3> QED
      BY <1>e, <2>3, <2>5
  <2> QED
    BY <1>v, <2>4, <2>6 DEF SingleInv
<1>4. CASE Record(w)
  <2>1. Head(batch[w]) \in QueueItem /\ reply[w] \in AllReplies
    BY <1>4, <1>v, <1>w, BusyWorker DEF Record, TypeOK
  <2>2. \A d \in Deliveries : d # Head(batch[w]).dlv => rows'[d] = rows[d]
    BY <1>4, <1>v, <2>1, RecordedTable DEF Record
  <2> QED
    BY <1>3, <1>4, <2>2 DEF Record
<1>5. CASE RecordFails(w)
  BY <1>3, <1>5 DEF RecordFails
<1>6. CASE Crash
  <2>1. DOMAIN batch'[w] = {}
    BY <1>6, <1>w DEF Crash
  <2> QED
    BY <1>v, <1>w, <2>1 DEF SingleInv, ExactItems, DistinctItems
<1>7. CASE Tick
  <2>1. \A d \in Deliveries : rows'[d].attempts = rows[d].attempts
    BY <1>7, <1>r DEF Tick, Row
  <2> QED
    BY <1>k, <1>e, <1>7, <2>1 DEF Tick
<1>8. ASSUME rows' = rows, batch' = batch PROVE SingleInv'
  BY <1>k, <1>8
<1> QED
  BY <1>1, <1>2, <1>4, <1>5, <1>6, <1>7, <1>8, <1>w
     DEF Next, WorkerStep, PollFails, Attempt, WorkerExit, Stop, vars

(* Recording an exact item is one step of the abstract lifecycle. *)
LEMMA RecordRefines ==
    ASSUME NEW w \in Workers, SingleInv, Record(w)
    PROVE  Lifecycle!Next
<1> DEFINE item == Head(batch[w])
           d == item.dlv
<1>t. TypeOK
  BY DEF SingleInv, VersionInv
<1>1. /\ item \in QueueItem /\ d \in Deliveries
      /\ item = batch[w][1] /\ 1 \in DOMAIN batch[w]
      /\ reply[w] \in AllReplies
  BY <1>t, BusyWorker DEF Record, TypeOK
<1>2. item.attempts = rows[d].attempts
  BY <1>1 DEF SingleInv, ExactItems
<1>3. rows[d].state \in Pending
  BY <1>1, <1>2 DEF SingleInv, VersionInv, SnapshotIsVersion, Versioned
<1>s. ASSUME NEW st, NEW t, UpdateDeliveryState(d, st, t) PROVE Lifecycle!Attempted(d, st)
  <2>1. \A c \in Deliveries : /\ rows'[c].state = IF c = d THEN st ELSE rows[c].state
                              /\ rows'[c].attempts = IF c = d THEN rows[c].attempts + 1
                                                              ELSE rows[c].attempts
    BY <1>s, <1>1, <1>t DEF UpdateDeliveryState, TypeOK
  <2> QED
    BY <1>1, <1>3, <2>1 DEF Lifecycle!Attempted
<1>4. CASE updateDeliverySuccess(item)
  BY <1>1, <1>4, <1>s DEF updateDeliverySuccess, Lifecycle!Next, Lifecycle!Succeed
<1>5. CASE updateDeliveryFailed(item)
  BY <1>1, <1>5, <1>s DEF updateDeliveryFailed, Lifecycle!Next, Lifecycle!Fail
<1>6. CASE updateDeliveryTempFail(item)
  <2>1. CASE item.attempts + 1 >= MaxAttempts
    BY <1>5, <1>6, <2>1 DEF updateDeliveryTempFail
  <2>2. CASE ~ (item.attempts + 1 >= MaxAttempts)
    <3>1. Lifecycle!Attempted(d, "temp_fail")
      BY <1>s, <1>6, <2>2 DEF updateDeliveryTempFail
    <3>2. rows[d].attempts + 1 < MaxAttempts
      BY <1>1, <1>2, <2>2, MaxAttemptsAssumption DEF QueueItem
    <3> QED
      BY <1>1, <3>1, <3>2 DEF Lifecycle!Next, Lifecycle!Retry
  <2> QED
    BY <2>1, <2>2
<1>7. processDelivery(item, reply[w])
  BY DEF Record
<1>8. \/ updateDeliverySuccess(item)
      \/ updateDeliveryFailed(item)
      \/ updateDeliveryTempFail(item)
  BY <1>7 DEF processDelivery, deliver
<1> QED
  BY <1>4, <1>5, <1>6, <1>8

(* Every step of a pool of one is a step of the lifecycle or leaves the    *)
(* state and attempts columns alone.                                       *)
LEMMA StepRefines ==
    ASSUME NEW w, Workers = {w}, SingleInv, [Next]_vars
    PROVE  [Lifecycle!Next]_(Lifecycle!lifecycleVars)
<1> USE DEF faults
<1>t. TypeOK
  BY DEF SingleInv, VersionInv
<1>1. ASSUME NEW d \in Deliveries, EnqueueDelivery(d) PROVE Lifecycle!Next
  <2>1. rows[d].attempts = 0
    BY <1>1 DEF EnqueueDelivery, SingleInv, VersionInv, UntouchedBeforeEnqueue
  <2>2. \A c \in Deliveries :
           /\ rows'[c].state = IF c = d THEN "queued" ELSE rows[c].state
           /\ rows'[c].attempts = rows[c].attempts
    BY <1>1, <1>t, <2>1 DEF EnqueueDelivery, TypeOK
  <2>3. Lifecycle!Enqueue(d)
    BY <1>1, <2>2 DEF Lifecycle!Enqueue, EnqueueDelivery
  <2> QED
    BY <2>3 DEF Lifecycle!Next
<1>2. ASSUME Record(w) PROVE Lifecycle!Next
  BY <1>2, RecordRefines
<1>3. ASSUME \A c \in Deliveries : /\ rows'[c].state = rows[c].state
                                   /\ rows'[c].attempts = rows[c].attempts
      PROVE  UNCHANGED Lifecycle!lifecycleVars
  BY <1>3 DEF Lifecycle!lifecycleVars
<1>4. CASE Tick
  <2>1. \A c \in Deliveries : rows[c] \in Row
    BY <1>t DEF TypeOK
  <2>2. \A c \in Deliveries : /\ rows'[c].state = rows[c].state
                              /\ rows'[c].attempts = rows[c].attempts
    BY <1>4, <2>1 DEF Tick, Row
  <2> QED
    BY <1>3, <2>2
<1>5. CASE rows' = rows
  BY <1>3, <1>5
<1> QED
  BY <1>1, <1>2, <1>4, <1>5 DEF Next, WorkerStep, Poll, PollFails, Attempt, RecordFails,
     WorkerExit, Stop, Crash, vars

LEMMA SingleInit == Init => SingleInv
<1> SUFFICES ASSUME Init PROVE SingleInv
  OBVIOUS
<1>1. \A v \in Workers : DOMAIN batch[v] = {}
  BY DEF Init
<1> QED
  BY <1>1, InitInvariants DEF SingleInv, ExactItems, DistinctItems

(* A pool of one worker implements the lifecycle the README describes,     *)
(* whatever crashes, statements fail, and schedule and limits are set:     *)
(* settled deliveries stay settled and no delivery is retried beyond its   *)
(* max_attempts.                                                           *)
THEOREM SingleWorkerRefinesLifecycle ==
    ASSUME NEW w, Workers = {w}
    PROVE  Spec => LifecycleSpec
<1>1. Init => SingleInv
  BY SingleInit
<1>2. SingleInv /\ [Next]_vars => SingleInv'
  BY SingleInductive
<1>3. Init => Lifecycle!Init
  BY DEF Init, Lifecycle!Init
<1>4. SingleInv /\ [Next]_vars => [Lifecycle!Next]_(Lifecycle!lifecycleVars)
  BY StepRefines
<1> QED
  BY <1>1, <1>2, <1>3, <1>4, PTL DEF Spec, LifecycleSpec, Lifecycle!Spec

-----------------------------------------------------------------------------
(* Second copies *)

(* An MX has taken d and the worker is about to write that down. *)
Taken(d) ==
    \E w \in Workers : pc[w] = "recording" /\ reply[w] = "accept" /\ Head(batch[w]).dlv = d

(* Unless d is delivered, or about to be, every copy of it goes back to a  *)
(* fault: nothing that is still to be attempted was taken without one.     *)
CopiesOK ==
    \A d \in Deliveries :
        /\ copies[d] <= 1 + lost + crashes + dbErrors
        /\ rows[d].state # "delivered" /\ ~Taken(d) => copies[d] <= lost + crashes + dbErrors

CopiesInv == SingleInv /\ CopiesOK

(* One fault more allows one copy more. *)
LEMMA FaultAllowsCopy ==
    ASSUME NEW n \in Nat, NEW a \in Nat, NEW b \in Nat, NEW c \in Nat,
           NEW x \in Nat, NEW y \in Nat, NEW z \in Nat,
           n <= 1 + a + b + c, x + y + z = a + b + c + 1
    PROVE  n <= x + y + z /\ n <= 1 + x + y + z
OBVIOUS

LEMMA CopiesInductive ==
    ASSUME NEW w, Workers = {w}, CopiesInv, [Next]_vars
    PROVE  CopiesOK'
<1> USE DEF faults
<1>t. TypeOK /\ TypeOK' /\ SingleInv
  BY TypeInductive DEF CopiesInv, SingleInv, VersionInv
<1>w. w \in Workers /\ (\A v \in Workers : v = w)
  OBVIOUS
<1>n. /\ crashes \in Nat /\ dbErrors \in Nat /\ lost \in Nat
      /\ \A d \in Deliveries : copies[d] \in Nat
  BY <1>t DEF TypeOK
<1>c. \A d \in Deliveries :
        /\ copies[d] <= 1 + lost + crashes + dbErrors
        /\ rows[d].state # "delivered" /\ ~Taken(d) => copies[d] <= lost + crashes + dbErrors
  BY DEF CopiesInv, CopiesOK
\* no copy is added, no fault is lost, and what is taken stays taken or is delivered
<1>k. ASSUME copies' = copies, lost' = lost, crashes' = crashes, dbErrors' = dbErrors,
             \A d \in Deliveries :
                 rows'[d].state # "delivered" /\ ~Taken(d)' =>
                     rows[d].state # "delivered" /\ ~Taken(d)
      PROVE  CopiesOK'
  BY <1>c, <1>k DEF CopiesOK
\* one more fault makes up for a copy
<1>f. ASSUME copies' = copies,
             lost' + crashes' + dbErrors' = lost + crashes + dbErrors + 1,
             crashes' \in Nat, dbErrors' \in Nat, lost' \in Nat
      PROVE  CopiesOK'
  <2>1. ASSUME NEW d \in Deliveries
        PROVE  /\ copies'[d] <= lost' + crashes' + dbErrors'
               /\ copies'[d] <= 1 + lost' + crashes' + dbErrors'
    <3>1. copies'[d] = copies[d] /\ copies[d] \in Nat
      BY <1>f, <1>n
    <3>2. copies[d] <= 1 + lost + crashes + dbErrors
      BY <1>c
    <3>3. copies[d] <= lost' + crashes' + dbErrors' /\ copies[d] <= 1 + lost' + crashes' + dbErrors'
      BY <1>f, <1>n, <3>1, <3>2, FaultAllowsCopy
    <3> QED
      BY <3>1, <3>3
  <2> QED
    BY <2>1 DEF CopiesOK
<1>h. ASSUME pc[w] \in {"ready", "recording"}
      PROVE  /\ Head(batch[w]).dlv \in Deliveries
             /\ rows[Head(batch[w]).dlv].state \in Pending
  <2>1. /\ Head(batch[w]).dlv \in Deliveries
        /\ Head(batch[w]) = batch[w][1] /\ 1 \in DOMAIN batch[w]
    BY <1>h, <1>t, <1>w, BusyWorker
  <2>2. batch[w][1].attempts = rows[batch[w][1].dlv].attempts
    BY <1>t, <1>w, <2>1 DEF SingleInv, ExactItems
  <2> QED
    BY <1>t, <1>w, <2>1, <2>2 DEF SingleInv, VersionInv, SnapshotIsVersion, Versioned
<1>1. ASSUME NEW d \in Deliveries, EnqueueDelivery(d) PROVE CopiesOK'
  <2>1. \A c \in Deliveries : rows'[c].state # "delivered" => rows[c].state # "delivered"
    BY <1>1, <1>t DEF EnqueueDelivery, TypeOK
  <2>2. \A c \in Deliveries : Taken(c)' <=> Taken(c)
    BY <1>1 DEF EnqueueDelivery, Taken
  <2> QED
    BY <1>1, <1>k, <2>1, <2>2 DEF EnqueueDelivery
<1>2. CASE Poll(w) \/ WorkerExit(w)
  <2>1. \A c \in Deliveries : ~Taken(c)
    BY <1>2, <1>w DEF Poll, WorkerExit, Taken
  <2> QED
    BY <1>2, <1>k, <2>1 DEF Poll, WorkerExit
<1>3. CASE PollFails(w) \/ RecordFails(w)
  BY <1>3, <1>f, <1>n DEF PollFails, RecordFails
<1>4. CASE Attempt(w)
  <2>0. PICK d \in Deliveries : d = Head(batch[w]).dlv
    BY <1>4, <1>h DEF Attempt
  <2>1. PICK r \in Replies :
          /\ lost' = IF r = "lost" THEN lost + 1 ELSE lost
          /\ reply' = [reply EXCEPT ![w] = r]
          /\ pc' = [pc EXCEPT ![w] = IF r = "hang" THEN "hung" ELSE "recording"]
          /\ copies' = IF r \in {"accept", "lost"} THEN [copies EXCEPT ![d] = @ + 1]
                       ELSE copies
    BY <1>4, <2>0 DEF Attempt
  <2>2. /\ pc[w] = "ready"
        /\ UNCHANGED <<rows, batch, crashes, dbErrors>>
        /\ rows[d].state # "delivered"
    BY <1>4, <1>h, <2>0 DEF Attempt
  <2>3. \A c \in Deliveries : ~Taken(c)
    BY <1>w, <2>2 DEF Taken
  <2>4. copies[d] <= lost + crashes + dbErrors
    BY <1>c, <2>2, <2>3
  <2>5. CASE r = "accept"
    <3>1. Taken(d)'
      BY <1>t, <1>w, <2>0, <2>1, <2>2, <2>5 DEF Taken, TypeOK
    <3>2. /\ copies'[d] <= 1 + lost' + crashes' + dbErrors'
          /\ lost' + crashes' + dbErrors' = lost + crashes + dbErrors
      BY <1>t, <1>n, <2>1, <2>2, <2>4, <2>5 DEF TypeOK
    <3>3. \A c \in Deliveries : c # d => copies'[c] = copies[c]
      BY <1>t, <2>1, <2>2, <2>5 DEF TypeOK
    <3>4. lost' = lost /\ crashes' = crashes /\ dbErrors' = dbErrors
      BY <2>1, <2>2, <2>5
    <3>5. \A c \in Deliveries : copies'[c] <= 1 + lost' + crashes' + dbErrors'
      BY <1>c, <3>2, <3>3, <3>4
    <3>6. \A c \in Deliveries : rows'[c].state # "delivered" /\ ~Taken(c)' =>
                                  copies'[c] <= lost' + crashes' + dbErrors'
      <4>1. \A c \in Deliveries : rows[c].state # "delivered" =>
                                    copies[c] <= lost + crashes + dbErrors
        BY <1>c, <2>3
      <4>2. \A c \in Deliveries : c # d /\ rows'[c].state # "delivered" =>
                                    copies'[c] <= lost' + crashes' + dbErrors'
        BY <2>2, <3>3, <3>4, <4>1
      <4> QED
        <5> SUFFICES ASSUME NEW c \in Deliveries, rows'[c].state # "delivered", ~Taken(c)'
                     PROVE  copies'[c] <= lost' + crashes' + dbErrors'
          OBVIOUS
        <5>1. c # d
          BY <3>1 DEF Taken
        <5> QED
          BY <4>2, <5>1
    <3> QED
      BY <3>5, <3>6 DEF CopiesOK
  <2>6. CASE r = "lost"
    <3>1. /\ copies'[d] <= lost' + crashes' + dbErrors'
          /\ lost' + crashes' + dbErrors' = 1 + lost + crashes + dbErrors
          /\ lost' \in Nat /\ crashes' \in Nat /\ dbErrors' \in Nat
      BY <1>t, <1>n, <2>1, <2>2, <2>4, <2>6 DEF TypeOK
    <3>2. \A c \in Deliveries : copies'[c] <= lost' + crashes' + dbErrors'
      BY <1>t, <1>c, <1>n, <2>1, <2>2, <2>6, <3>1 DEF TypeOK
    <3>3. \A c \in Deliveries : copies'[c] \in Nat
      BY <1>t DEF TypeOK
    <3>4. \A c \in Deliveries : copies'[c] <= 1 + lost' + crashes' + dbErrors'
      BY <3>1, <3>2, <3>3
    <3> QED
      BY <3>2, <3>4 DEF CopiesOK
  <2>7. CASE r \notin {"accept", "lost"}
    BY <1>k, <2>1, <2>2, <2>3, <2>7
  <2> QED
    BY <2>5, <2>6, <2>7
<1>5. CASE Record(w)
  <2> DEFINE item == Head(batch[w])
             d == item.dlv
  <2>1. /\ pc[w] = "recording" /\ item \in QueueItem /\ reply[w] \in AllReplies
        /\ d \in Deliveries /\ rows[d].state # "delivered"
    BY <1>5, <1>h, <1>t, <1>w, BusyWorker DEF Record, TypeOK
  <2>2. \A c \in Deliveries : c # d => rows'[c] = rows[c]
    BY <1>5, <1>t, <2>1, RecordedTable DEF Record
  <2>3. reply[w] = "accept" => rows'[d].state = "delivered"
    BY <1>5, <1>t, <2>1 DEF Record, processDelivery, deliver, updateDeliverySuccess,
       UpdateDeliveryState, TypeOK
  <2>4. \A c \in Deliveries : Taken(c) => c = d /\ reply[w] = "accept"
    BY <1>w DEF Taken
  <2> QED
    BY <1>5, <1>k, <2>1, <2>2, <2>3, <2>4 DEF Record
<1>6. CASE Crash
  BY <1>6, <1>f, <1>n DEF Crash
<1>7. CASE Tick
  <2>1. \A c \in Deliveries : rows'[c].state = rows[c].state
    BY <1>7, <1>t DEF Tick, TypeOK, Row
  <2>2. \A c \in Deliveries : Taken(c)' <=> Taken(c)
    BY <1>7 DEF Tick, Taken
  <2> QED
    BY <1>7, <1>k, <2>1, <2>2 DEF Tick
<1>8. ASSUME UNCHANGED <<rows, pc, batch, reply, copies, crashes, dbErrors, lost>>
      PROVE  CopiesOK'
  BY <1>c, <1>8 DEF CopiesOK, Taken
<1> QED
  BY <1>1, <1>2, <1>3, <1>4, <1>5, <1>6, <1>7, <1>8, <1>w
     DEF Next, WorkerStep, Stop, vars

(* With one worker an MX is sent a second copy only after a fault: the     *)
(* queue alone, whatever it retries and however often the process is       *)
(* started again, duplicates nothing.                                      *)
THEOREM SecondCopiesAreFaults ==
    ASSUME NEW w, Workers = {w}
    PROVE  Spec => []DuplicatesOnlyFromFaults
<1>1. Init => CopiesInv
  BY SingleInit DEF Init, CopiesInv, CopiesOK
<1>2. CopiesInv /\ [Next]_vars => CopiesInv'
  BY CopiesInductive, SingleInductive DEF CopiesInv
<1>3. CopiesInv => DuplicatesOnlyFromFaults
  BY DEF CopiesInv, CopiesOK, DuplicatesOnlyFromFaults
<1> QED
  BY <1>1, <1>2, <1>3, PTL DEF Spec

-----------------------------------------------------------------------------
(* A pool of any size: how far the attempts may overshoot *)

(* 1 + 2 + ... + n *)
Triangle(n) == (n * (n + 1)) \div 2

LEMMA TriangleDoubled ==
    ASSUME NEW n \in Nat
    PROVE  Triangle(n) \in Nat /\ 2 * Triangle(n) = n * (n + 1)
<1>1. PICK m \in Nat : n = 2 * m \/ n = 2 * m + 1
  <2>1. n \div 2 \in Nat /\ (n = 2 * (n \div 2) \/ n = 2 * (n \div 2) + 1)
    OBVIOUS
  <2> QED
    BY <2>1
<1>2. CASE n = 2 * m
  <2>1. PICK x \in Nat : x = m * (n + 1)
    OBVIOUS
  <2>2. n * (n + 1) = 2 * x
    BY <1>2, <2>1
  <2>3. (2 * x) \div 2 = x
    OBVIOUS
  <2> QED
    BY <2>2, <2>3 DEF Triangle
<1>3. CASE n = 2 * m + 1
  <2>1. PICK x \in Nat : x = n * (m + 1)
    OBVIOUS
  <2>2. n * (n + 1) = 2 * x
    BY <1>3, <2>1
  <2>3. (2 * x) \div 2 = x
    OBVIOUS
  <2> QED
    BY <2>2, <2>3 DEF Triangle
<1> QED
  BY <1>1, <1>2, <1>3

(* The records that may still be made of a delivery in a pool of W, k of   *)
(* whose workers hold an item that can reopen it: while it is pending each *)
(* of the W - k others may record once, then one of the k reopens it, and  *)
(* so on.                                                                  *)
Chances(W, k) == (k + 1) * W - Triangle(k) + k

LEMMA ChancesStep ==
    ASSUME NEW W \in Nat, NEW k \in Nat, k >= 1
    PROVE  Chances(W, k) = Chances(W, k - 1) + W - k + 1
<1>1. k - 1 \in Nat
  OBVIOUS
<1>2. /\ 2 * Triangle(k) = k * (k + 1) /\ Triangle(k) \in Nat
      /\ 2 * Triangle(k - 1) = (k - 1) * ((k - 1) + 1) /\ Triangle(k - 1) \in Nat
  BY <1>1, TriangleDoubled
<1>3. PICK x \in Int : x = k * (k + 1) /\ (k - 1) * ((k - 1) + 1) = x - 2 * k
  OBVIOUS
<1>4. Triangle(k) = Triangle(k - 1) + k
  <2>1. Triangle(k) \in Nat /\ Triangle(k - 1) \in Nat
    BY <1>2
  <2>2. 2 * Triangle(k) = x /\ 2 * Triangle(k - 1) = x - 2 * k
    BY <1>2, <1>3
  <2> QED
    BY <2>1, <2>2
<1>5. (k + 1) * W = ((k - 1) + 1) * W + W
  OBVIOUS
<1>6. (k + 1) * W \in Int /\ ((k - 1) + 1) * W \in Int
  OBVIOUS
<1> QED
  BY <1>2, <1>4, <1>5, <1>6 DEF Chances

LEMMA ChancesType ==
    ASSUME NEW W \in Nat, NEW k \in Nat
    PROVE  Chances(W, k) \in Int
<1>1. Triangle(k) \in Nat /\ (k + 1) * W \in Int
  BY TriangleDoubled
<1> QED
  BY <1>1 DEF Chances

LEMMA ChancesFirst ==
    ASSUME NEW W \in Nat PROVE Chances(W, 0) = W
<1>1. Triangle(0) = 0 /\ (0 + 1) * W = W
  BY DEF Triangle
<1> QED
  BY <1>1 DEF Chances

(* All but one can reopen it. *)
LEMMA ChancesLast ==
    ASSUME NEW W \in Nat, W >= 1
    PROVE  Chances(W, W - 1) = Triangle(W) + W - 1
<1>1. W - 1 \in Nat
  OBVIOUS
<1>2. /\ 2 * Triangle(W) = W * (W + 1) /\ Triangle(W) \in Nat
      /\ 2 * Triangle(W - 1) = (W - 1) * ((W - 1) + 1) /\ Triangle(W - 1) \in Nat
  BY <1>1, TriangleDoubled
<1>3. PICK x \in Nat : /\ (W - 1) * ((W - 1) + 1) = x - W
                       /\ W * (W + 1) = x + W
                       /\ ((W - 1) + 1) * W = x
  <2>1. /\ (W - 1) * ((W - 1) + 1) = W * W - W
        /\ W * (W + 1) = W * W + W
        /\ ((W - 1) + 1) * W = W * W
        /\ W * W \in Nat
    OBVIOUS
  <2> QED
    BY <2>1
<1>4. Triangle(W) + Triangle(W - 1) = x
  <2>1. Triangle(W) \in Nat /\ Triangle(W - 1) \in Nat
    BY <1>2
  <2>2. 2 * Triangle(W) = x + W /\ 2 * Triangle(W - 1) = x - W
    BY <1>2, <1>3
  <2> QED
    BY <2>1, <2>2
<1>5. Chances(W, W - 1) = x - Triangle(W - 1) + (W - 1)
  BY <1>3 DEF Chances
<1> QED
  BY <1>2, <1>4, <1>5

(* More of them that can reopen it give it more chances. *)
LEMMA ChancesGrow ==
    ASSUME NEW W \in Nat, NEW k \in Nat, k <= W
    PROVE  /\ Chances(W, k) >= W
           /\ k < W => Chances(W, k) <= Chances(W, W - 1)
<1>1. Triangle(k) \in Nat /\ 2 * Triangle(k) = k * (k + 1)
  BY TriangleDoubled
<1>2. Chances(W, k) >= W
  <2>1. PICK m \in Nat : W = k + m
    <3>1. W - k \in Nat /\ W = k + (W - k)
      OBVIOUS
    <3> QED
      BY <3>1
  <2>2. k * (k + 1) = k * k + k /\ k * k \in Nat /\ k * m \in Nat
    OBVIOUS
  <2>3. (k + 1) * W = k * k + k * m + W
    BY <2>1
  <2> QED
    BY <1>1, <2>2, <2>3 DEF Chances
<1>3. ASSUME k < W PROVE Chances(W, k) <= Chances(W, W - 1)
  <2>1. PICK m \in Nat : W = k + m + 1
    <3>1. W - k - 1 \in Nat /\ W = k + (W - k - 1) + 1
      BY <1>3
    <3> QED
      BY <3>1
  <2>2. Chances(W, W - 1) = Triangle(W) + W - 1
    BY <1>3, ChancesLast
  <2>3. Triangle(W) \in Nat /\ 2 * Triangle(W) = W * (W + 1)
    BY TriangleDoubled
  <2>4. /\ k * (k + 1) = k * k + k
        /\ (k + 1) * W = k * k + k * m + k + W
        /\ W * (W + 1) = k * k + 2 * (k * m) + m * m + 3 * k + 3 * m + 2
        /\ k * k \in Nat /\ k * m \in Nat /\ m * m \in Nat
    BY <2>1
  <2> QED
    BY <1>1, <2>1, <2>2, <2>3, <2>4 DEF Chances
<1> QED
  BY <1>2, <1>3

(* The records still to come when h workers hold an item that cannot       *)
(* reopen the delivery: all but the last of them when it is settled.       *)
Left(W, state, k, h) ==
    IF state \in Pending THEN Chances(W, k) ELSE h + Chances(W, k) - (W - k)

LEMMA LeftFacts ==
    ASSUME NEW W \in Nat \ {0}, NEW k \in Nat, NEW h \in Nat, k + h <= W, NEW o
    PROVE  /\ Left(W, o, k, h) \in Int
           /\ Left(W, o, k, h) >= 0
           /\ Left(W, o, 0, 0) <= Left(W, o, k, h)
           /\ k < W => Left(W, o, k, h) <= Chances(W, W - 1)
           /\ k >= 1 => \A p : Left(W, p, k - 1, h) + 1 <= Left(W, o, k, h)
           /\ h >= 1 => /\ \A p : p \notin Pending => Left(W, p, k, h - 1) + 1 <= Left(W, o, k, h)
                        /\ Left(W, o, k, h - 1) <= Left(W, o, k, h)
<1>1. Chances(W, k) \in Int /\ Chances(W, k) >= W /\ Chances(W, 0) = W
  BY ChancesType, ChancesGrow, ChancesFirst
<1>2. k < W => Chances(W, k) <= Chances(W, W - 1) /\ Chances(W, W - 1) \in Int
  BY ChancesType, ChancesGrow
<1>3. /\ Left(W, o, k, h) \in Int
      /\ Left(W, o, k, h) >= 0
      /\ Left(W, o, 0, 0) <= Left(W, o, k, h)
  BY <1>1 DEF Left
<1>4. k < W => Left(W, o, k, h) <= Chances(W, W - 1)
  BY <1>1, <1>2 DEF Left
<1>5. ASSUME k >= 1, NEW p PROVE Left(W, p, k - 1, h) + 1 <= Left(W, o, k, h)
  <2>1. Chances(W, k) = Chances(W, k - 1) + W - k + 1 /\ Chances(W, k - 1) \in Int
    BY <1>5, ChancesStep, ChancesType
  <2> QED
    BY <1>1, <1>5, <2>1 DEF Left
<1>6. ASSUME h >= 1
      PROVE  /\ \A p : p \notin Pending => Left(W, p, k, h - 1) + 1 <= Left(W, o, k, h)
             /\ Left(W, o, k, h - 1) <= Left(W, o, k, h)
  BY <1>1, <1>6 DEF Left
<1> QED
  BY <1>3, <1>4, <1>5, <1>6

(* The workers that hold an item of d, and those among them whose item was *)
(* read early enough for updateDeliveryTempFail to reopen d.               *)
Holders(d) == {w \in Workers : \E i \in DOMAIN batch[w] : batch[w][i].dlv = d}

Reopeners(d) ==
    {w \in Workers : \E i \in DOMAIN batch[w] :
        batch[w][i].dlv = d /\ batch[w][i].attempts + 1 < MaxAttempts}

(* Once a delivery has come to its last attempt, the attempts a it has     *)
(* used up and those that are left to the holders H, of whom R can reopen  *)
(* it, stay within the limit that AttemptsBounded states.                  *)
Within(a, state, H, R) ==
    LET W == Cardinality(Workers)
    IN  a + 1 >= MaxAttempts =>
            a + Left(W, state, Cardinality(R), Cardinality(H \ R))
                <= MaxAttempts - 1 + Chances(W, W - 1)

Budget(d) ==
    Within(rows[d].attempts, rows[d].state, Holders(d), Reopeners(d))

BudgetInv == VersionInv /\ DistinctItems /\ \A d \in Deliveries : Budget(d)

(* Every batch holds a delivery at most once, in a pool of any size. *)
LEMMA DistinctInductive ==
    ASSUME TypeOK, DistinctItems, [Next]_vars
    PROVE  DistinctItems'
<1> USE DEF faults
<1>d. \A w \in Workers : \A i, j \in DOMAIN batch[w] :
          i # j => batch[w][i].dlv # batch[w][j].dlv
  BY DEF DistinctItems
<1>1. ASSUME NEW w \in Workers, Poll(w) PROVE DistinctItems'
  <2>1. PICK s \in GetPendingDeliveries(BatchLimit) :
           batch' = [batch EXCEPT ![w] =
                 [i \in DOMAIN s |-> [dlv |-> s[i], attempts |-> rows[s[i]].attempts]]]
    BY <1>1 DEF Poll
  <2>2. PICK n \in Nat : s \in [1..n -> Due]
    BY BatchLimitAssumption DEF GetPendingDeliveries
  <2>3. \A i, j \in DOMAIN s : i < j => s[i] # s[j]
    BY DEF GetPendingDeliveries
  <2>4. \A i, j \in DOMAIN s : i # j => s[i] # s[j]
    BY <2>2, <2>3
  <2> QED
    BY <1>d, <2>1, <2>4 DEF DistinctItems, TypeOK
<1>2. ASSUME NEW w \in Workers, pc[w] = "recording", NextItem(w) PROVE DistinctItems'
  <2>1. batch[w] \in Seq(QueueItem) /\ batch[w] # <<>>
    BY <1>2 DEF TypeOK
  <2>2. /\ Len(batch[w]) \in Nat \ {0}
        /\ DOMAIN batch[w] = 1..Len(batch[w])
        /\ DOMAIN Tail(batch[w]) = 1..(Len(batch[w]) - 1)
        /\ \A i \in 1..(Len(batch[w]) - 1) : Tail(batch[w])[i] = batch[w][i + 1]
    BY <2>1, HeadAndTail
  <2>3. /\ \A i \in DOMAIN Tail(batch[w]) :
              i + 1 \in DOMAIN batch[w] /\ Tail(batch[w])[i] = batch[w][i + 1]
        /\ \A i, j \in DOMAIN Tail(batch[w]) : i # j => i + 1 # j + 1
    BY <2>2
  <2>4. \A i, j \in DOMAIN Tail(batch[w]) : i # j => Tail(batch[w])[i].dlv # Tail(batch[w])[j].dlv
    BY <1>d, <2>3
  <2>5. batch' = [batch EXCEPT ![w] = Tail(batch[w])]
    BY <1>2 DEF NextItem
  <2> QED
    BY <1>d, <2>4, <2>5 DEF DistinctItems, TypeOK
<1>3. CASE Crash
  <2>1. \A w \in Workers : DOMAIN batch'[w] = {}
    BY <1>3 DEF Crash
  <2> QED
    BY <2>1 DEF DistinctItems
<1>4. CASE batch' = batch
  BY <1>d, <1>4 DEF DistinctItems
<1> QED
  BY <1>1, <1>2, <1>3, <1>4
     DEF Next, WorkerStep, EnqueueDelivery, PollFails, Attempt, Record, RecordFails,
         WorkerExit, Stop, Tick, vars

(* How many there are of them. *)
LEMMA HolderCounts ==
    ASSUME IsFiniteSet(Workers), NEW H \in SUBSET Workers, NEW R \in SUBSET H
    PROVE  /\ Cardinality(Workers) \in Nat
           /\ Cardinality(R) \in Nat /\ Cardinality(H \ R) \in Nat
           /\ Cardinality(R) + Cardinality(H \ R) <= Cardinality(Workers)
<1>1. IsFiniteSet(H) /\ IsFiniteSet(R) /\ IsFiniteSet(H \ R)
  BY FS_Subset
<1>2. Cardinality(H) <= Cardinality(Workers) /\ Cardinality(Workers) \in Nat
  BY FS_Subset, FS_CardinalityType
<1>3. Cardinality(H \ R) = Cardinality(H) - Cardinality(H \cap R)
  BY <1>1, FS_Difference
<1>4. H \cap R = R
  OBVIOUS
<1>5. Cardinality(R) \in Nat /\ Cardinality(H \ R) \in Nat /\ Cardinality(H) \in Nat
  BY <1>1, FS_CardinalityType
<1> QED
  BY <1>2, <1>3, <1>4, <1>5

(* A holder leaves: one reopener less, or one of the others. *)
LEMMA HolderLeaves ==
    ASSUME IsFiniteSet(Workers), NEW H \in SUBSET Workers, NEW R \in SUBSET H, NEW w \in H
    PROVE  /\ w \in R => /\ Cardinality(R \ {w}) = Cardinality(R) - 1
                         /\ (H \ {w}) \ (R \ {w}) = H \ R
                         /\ Cardinality(R) >= 1
           /\ w \notin R => /\ R \ {w} = R
                            /\ Cardinality((H \ {w}) \ R) = Cardinality(H \ R) - 1
                            /\ Cardinality(H \ R) >= 1
<1>1. IsFiniteSet(R) /\ IsFiniteSet(H \ R)
  BY FS_Subset
<1>2. ASSUME w \in R
      PROVE  Cardinality(R \ {w}) = Cardinality(R) - 1 /\ Cardinality(R) >= 1
  <2>1. Cardinality(R \ {w}) = Cardinality(R) - 1
    BY <1>1, <1>2, FS_RemoveElement
  <2>2. Cardinality(R \ {w}) \in Nat /\ Cardinality(R) \in Nat
    BY <1>1, FS_RemoveElement, FS_CardinalityType
  <2> QED
    BY <2>1, <2>2
<1>3. ASSUME w \notin R
      PROVE  Cardinality((H \ {w}) \ R) = Cardinality(H \ R) - 1 /\ Cardinality(H \ R) >= 1
  <2>1. (H \ {w}) \ R = (H \ R) \ {w} /\ w \in H \ R
    BY <1>3
  <2>2. Cardinality((H \ R) \ {w}) = Cardinality(H \ R) - 1
    BY <1>1, <2>1, FS_RemoveElement
  <2>3. Cardinality((H \ R) \ {w}) \in Nat /\ Cardinality(H \ R) \in Nat
    BY <1>1, FS_RemoveElement, FS_CardinalityType
  <2> QED
    BY <2>1, <2>2, <2>3
<1> QED
  BY <1>2, <1>3

(* A worker that is done with an item holds nothing of its delivery any    *)
(* more, and the others hold what they held.                               *)
LEMMA NextItemHolders ==
    ASSUME TypeOK, DistinctItems, NEW w \in Workers, pc[w] = "recording", NextItem(w),
           NEW d \in Deliveries
    PROVE  LET item == Head(batch[w]) IN
           /\ d # item.dlv => Holders(d)' = Holders(d) /\ Reopeners(d)' = Reopeners(d)
           /\ d = item.dlv => /\ w \in Holders(d)
                              /\ w \in Reopeners(d) <=> item.attempts + 1 < MaxAttempts
                              /\ Holders(d)' = Holders(d) \ {w}
                              /\ Reopeners(d)' = Reopeners(d) \ {w}
<1>1. batch[w] \in Seq(QueueItem) /\ batch[w] # <<>> /\ Head(batch[w]) = batch[w][1]
      /\ 1 \in DOMAIN batch[w]
  BY BusyWorker
<1>2. /\ Len(batch[w]) \in Nat \ {0}
      /\ DOMAIN batch[w] = 1..Len(batch[w])
      /\ DOMAIN Tail(batch[w]) = 1..(Len(batch[w]) - 1)
      /\ \A i \in 1..(Len(batch[w]) - 1) : Tail(batch[w])[i] = batch[w][i + 1]
  BY <1>1, HeadAndTail
<1>3. \A i \in DOMAIN Tail(batch[w]) :
          i + 1 \in DOMAIN batch[w] /\ i + 1 # 1 /\ Tail(batch[w])[i] = batch[w][i + 1]
  BY <1>2
<1>4. \A j \in DOMAIN batch[w] :
          j # 1 => j - 1 \in DOMAIN Tail(batch[w]) /\ Tail(batch[w])[j - 1] = batch[w][j]
  BY <1>2
<1>5. \A i, j \in DOMAIN batch[w] : i # j => batch[w][i].dlv # batch[w][j].dlv
  BY DEF DistinctItems
<1>6. batch' = [batch EXCEPT ![w] = Tail(batch[w])] /\ batch'[w] = Tail(batch[w])
      /\ \A v \in Workers : v # w => batch'[v] = batch[v]
  BY DEF NextItem, TypeOK
<1>a. \A i \in DOMAIN batch'[w] : \E j \in DOMAIN batch[w] : j # 1 /\ batch'[w][i] = batch[w][j]
  BY <1>3, <1>6
<1>b. \A j \in DOMAIN batch[w] :
          j # 1 => \E i \in DOMAIN batch'[w] : batch'[w][i] = batch[w][j]
  BY <1>4, <1>6
<1>7. CASE d # Head(batch[w]).dlv
  <2>1. w \in Holders(d)' <=> w \in Holders(d)
    BY <1>1, <1>7, <1>a, <1>b DEF Holders
  <2>2. w \in Reopeners(d)' <=> w \in Reopeners(d)
    BY <1>1, <1>7, <1>a, <1>b DEF Reopeners
  <2> QED
    BY <1>6, <1>7, <2>1, <2>2 DEF Holders, Reopeners
<1>8. CASE d = Head(batch[w]).dlv
  <2>1. w \in Holders(d)
    BY <1>1, <1>8 DEF Holders
  <2>2. w \in Reopeners(d) <=> Head(batch[w]).attempts + 1 < MaxAttempts
    BY <1>1, <1>5, <1>8 DEF Reopeners
  <2>3. w \notin Holders(d)' /\ w \notin Reopeners(d)'
    BY <1>1, <1>5, <1>8, <1>a DEF Holders, Reopeners
  <2> QED
    BY <1>6, <1>8, <2>1, <2>2, <2>3 DEF Holders, Reopeners
<1> QED
  BY <1>7, <1>8

LEMMA HoldersType ==
    ASSUME NEW d PROVE Holders(d) \in SUBSET Workers /\ Reopeners(d) \in SUBSET Holders(d)
BY DEF Holders, Reopeners

(* What may happen to the holders of a delivery keeps it within the limit: *)
(* one of them records, and the delivery is pending afterwards only if it  *)
(* was a reopener; one fails to; more poll it while it is pending.         *)
LEMMA WithinKept ==
    ASSUME IsFiniteSet(Workers), Workers # {}, NEW a \in Nat, NEW o,
           NEW H \in SUBSET Workers, NEW R \in SUBSET H, Within(a, o, H, R)
    PROVE  /\ \A w \in H : \A p : (p \in Pending => w \in R) => Within(a + 1, p, H \ {w}, R \ {w})
           /\ \A w \in H : Within(a, o, H \ {w}, R \ {w})
           /\ Within(a, o, {}, {})
           /\ o \in Pending => \A G \in SUBSET Workers : R \subseteq G => Within(a, o, G, R)
<1> DEFINE W == Cardinality(Workers)
           k == Cardinality(R)
           h == Cardinality(H \ R)
           limit == MaxAttempts - 1 + Chances(W, W - 1)
<1>1. W \in Nat \ {0}
  BY FS_CardinalityType, FS_EmptySet
<1>2. k \in Nat /\ h \in Nat /\ k + h <= W
  BY HolderCounts
<1>3. limit \in Int /\ MaxAttempts \in Nat \ {0}
  <2>1. Chances(W, W - 1) \in Int
    BY <1>1, ChancesType
  <2> QED
    BY <2>1, MaxAttemptsAssumption
<1>4. a + 1 >= MaxAttempts => a + Left(W, o, k, h) <= limit
  BY DEF Within
<1> HIDE DEF W, k, h
<1>5. /\ Left(W, o, k, h) \in Int
      /\ Left(W, o, 0, 0) <= Left(W, o, k, h)
      /\ k >= 1 => \A p : Left(W, p, k - 1, h) + 1 <= Left(W, o, k, h)
      /\ h >= 1 => /\ \A p : p \notin Pending => Left(W, p, k, h - 1) + 1 <= Left(W, o, k, h)
                   /\ Left(W, o, k, h - 1) <= Left(W, o, k, h)
  BY <1>1, <1>2, LeftFacts
<1>6. ASSUME NEW w \in H
      PROVE  /\ \A p : (p \in Pending => w \in R) => Within(a + 1, p, H \ {w}, R \ {w})
             /\ Within(a, o, H \ {w}, R \ {w})
  <2> DEFINE k2 == Cardinality(R \ {w})
             h2 == Cardinality((H \ {w}) \ (R \ {w}))
  <2>1. /\ w \in R => k2 = k - 1 /\ h2 = h /\ k >= 1
        /\ w \notin R => k2 = k /\ h2 = h - 1 /\ h >= 1
    <3>0. /\ w \in R => /\ Cardinality(R \ {w}) = Cardinality(R) - 1
                        /\ (H \ {w}) \ (R \ {w}) = H \ R
                        /\ Cardinality(R) >= 1
          /\ w \notin R => /\ R \ {w} = R
                           /\ Cardinality((H \ {w}) \ R) = Cardinality(H \ R) - 1
                           /\ Cardinality(H \ R) >= 1
      BY HolderLeaves, Zenon
    <3>1. ASSUME w \in R PROVE k2 = k - 1 /\ h2 = h /\ k >= 1
      BY <3>0, <3>1 DEF k, h
    <3>2. ASSUME w \notin R PROVE k2 = k /\ h2 = h - 1 /\ h >= 1
      <4>1. R \ {w} = R
        BY <3>2
      <4>2. Cardinality((H \ {w}) \ R) = Cardinality(H \ R) - 1 /\ Cardinality(H \ R) >= 1
        BY <3>0, <3>2
      <4> QED
        BY <4>1, <4>2 DEF k, h
    <3> QED
      BY <3>1, <3>2
  <2>2. k2 \in Nat /\ h2 \in Nat /\ k2 + h2 <= W /\ k2 < W
    BY <1>1, <1>2, <2>1
  <2>3. \A p : Within(a + 1, p, H \ {w}, R \ {w}) <=>
                             (a + 2 >= MaxAttempts => a + 1 + Left(W, p, k2, h2) <= limit)
    BY <1>3 DEF Within, W
  <2>4. Within(a, o, H \ {w}, R \ {w}) <=>
           (a + 1 >= MaxAttempts => a + Left(W, o, k2, h2) <= limit)
    BY DEF Within, W
  <2> HIDE DEF k2, h2
  <2>5. \A p : /\ Left(W, p, k2, h2) \in Int
                           /\ Left(W, p, k2, h2) <= Chances(W, W - 1)
    BY <1>1, <2>2, LeftFacts
  <2>6. Left(W, o, k2, h2) <= Left(W, o, k, h)
    <3>1. CASE w \in R
      <4>1. Left(W, o, k2, h2) + 1 <= Left(W, o, k, h)
        BY <1>5, <2>1, <3>1
      <4> QED
        BY <1>5, <2>5, <4>1
    <3>2. CASE w \notin R
      BY <1>5, <2>1, <3>2
    <3> QED
      BY <3>1, <3>2
  <2>7. ASSUME NEW p, p \in Pending => w \in R
        PROVE  Left(W, p, k2, h2) + 1 <= Left(W, o, k, h)
    <3>1. CASE w \in R
      BY <1>5, <2>1, <3>1
    <3>2. CASE w \notin R
      <4>1. p \notin Pending
        BY <2>7, <3>2
      <4> QED
        BY <1>5, <2>1, <3>2, <4>1
    <3> QED
      BY <3>1, <3>2
  <2>8. ASSUME NEW p, p \in Pending => w \in R
        PROVE  Within(a + 1, p, H \ {w}, R \ {w})
    <3>1. Left(W, p, k2, h2) \in Int /\ Left(W, p, k2, h2) <= Chances(W, W - 1)
      BY <2>5
    <3>2. Chances(W, W - 1) \in Int
      BY <1>1, ChancesType
    <3>3. CASE a + 1 >= MaxAttempts
      <4>1. a + Left(W, o, k, h) <= limit
        BY <1>4, <3>3
      <4>2. Left(W, p, k2, h2) + 1 <= Left(W, o, k, h)
        BY <2>7, <2>8
      <4>3. a + 1 + Left(W, p, k2, h2) <= limit
        BY <1>3, <1>5, <3>1, <4>1, <4>2
      <4> QED
        BY <2>3, <4>3
    <3>4. CASE ~(a + 1 >= MaxAttempts)
      <4>1. a + 1 <= MaxAttempts - 1
        BY <1>3, <3>4
      <4>2. a + 1 + Left(W, p, k2, h2) <= limit
        BY <1>3, <3>1, <3>2, <4>1
      <4> QED
        BY <2>3, <4>2
    <3> QED
      BY <3>3, <3>4
  <2>9. Within(a, o, H \ {w}, R \ {w})
    <3>1. ASSUME a + 1 >= MaxAttempts PROVE a + Left(W, o, k2, h2) <= limit
      BY <1>3, <1>4, <1>5, <2>5, <2>6, <3>1
    <3> QED
      BY <2>4, <3>1
  <2> QED
    BY <2>8, <2>9
<1>7. Within(a, o, {}, {})
  <2>0. 0 \in Nat /\ 0 + 0 <= W
    BY <1>1
  <2>1. Left(W, o, 0, 0) \in Int
    BY <1>1, <2>0, LeftFacts
  <2>2. ASSUME a + 1 >= MaxAttempts PROVE a + Left(W, o, 0, 0) <= limit
    BY <1>3, <1>4, <1>5, <2>1, <2>2
  <2>3. Cardinality({}) = 0 /\ {} \ {} = {}
    BY FS_EmptySet
  <2> QED
    BY <2>2, <2>3 DEF Within, W
<1>8. ASSUME o \in Pending, NEW G \in SUBSET Workers, R \subseteq G PROVE Within(a, o, G, R)
  <2>1. Left(W, o, k, Cardinality(G \ R)) = Left(W, o, k, h)
    BY <1>8 DEF Left
  <2> QED
    BY <1>4, <2>1 DEF Within, W, k
<1> QED
  BY <1>6, <1>7, <1>8

(* A delivery that nobody can reopen may be recorded by every worker once. *)
LEMMA WithinFirst ==
    ASSUME IsFiniteSet(Workers), Workers # {}, NEW o,
           NEW H \in SUBSET Workers, NEW R \in SUBSET H, MaxAttempts = 1 => R = {}
    PROVE  Within(0, o, H, R)
<1> DEFINE W == Cardinality(Workers)
<1>1. W \in Nat \ {0}
  BY FS_CardinalityType, FS_EmptySet
<1>2. ASSUME MaxAttempts = 1 PROVE Left(W, o, Cardinality(R), Cardinality(H \ R)) <= Chances(W, W - 1)
  <2>1. Cardinality(R) = 0
    BY <1>2, FS_EmptySet
  <2>2. Cardinality(H \ R) \in Nat /\ Cardinality(R) + Cardinality(H \ R) <= W
    BY HolderCounts
  <2>3. Cardinality(R) \in Nat /\ Cardinality(R) < W
    BY <1>1, <2>1
  <2> HIDE DEF W
  <2> QED
    BY <1>1, <2>2, <2>3, LeftFacts
<1>3. Left(W, o, Cardinality(R), Cardinality(H \ R)) \in Int /\ Chances(W, W - 1) \in Int
  <2>1. /\ Cardinality(H \ R) \in Nat /\ Cardinality(R) \in Nat
        /\ Cardinality(R) + Cardinality(H \ R) <= W
    BY HolderCounts
  <2> HIDE DEF W
  <2>2. Left(W, o, Cardinality(R), Cardinality(H \ R)) \in Int
    BY <1>1, <2>1, LeftFacts
  <2>3. W \in Nat /\ W - 1 \in Nat
    BY <1>1
  <2>4. Chances(W, W - 1) \in Int
    BY <2>3, ChancesType
  <2> QED
    BY <2>2, <2>4
<1> QED
  BY <1>2, <1>3, MaxAttemptsAssumption DEF Within

(* What Within says of the attempts themselves. *)
LEMMA WithinBounds ==
    ASSUME IsFiniteSet(Workers), Workers # {}, NEW a \in Nat, NEW o,
           NEW H \in SUBSET Workers, NEW R \in SUBSET H, Within(a, o, H, R)
    PROVE  LET W == Cardinality(Workers)
           IN  a <= MaxAttempts + (W * (W + 1)) \div 2 + W - 2
<1> DEFINE W == Cardinality(Workers)
           l == Left(W, o, Cardinality(R), Cardinality(H \ R))
<1>1. W \in Nat \ {0}
  BY FS_CardinalityType, FS_EmptySet
<1>2. l \in Int /\ l >= 0
  <2>1. /\ Cardinality(H \ R) \in Nat /\ Cardinality(R) \in Nat
        /\ Cardinality(R) + Cardinality(H \ R) <= W
    BY HolderCounts
  <2> HIDE DEF W
  <2> QED
    BY <1>1, <2>1, LeftFacts
<1>3. Chances(W, W - 1) = Triangle(W) + W - 1 /\ Triangle(W) \in Nat
  BY <1>1, ChancesLast, TriangleDoubled
<1>4. a + 1 >= MaxAttempts => a + l <= MaxAttempts - 1 + Chances(W, W - 1)
  BY DEF Within
<1> HIDE DEF W, l
<1>5. a <= MaxAttempts + Triangle(W) + W - 2
  BY <1>1, <1>2, <1>3, <1>4, MaxAttemptsAssumption
<1> QED
  BY <1>5 DEF Triangle, W

(* What is written leaves a row pending only for an item read early enough. *)
LEMMA RecordedPending ==
    ASSUME TypeOK, NEW item \in QueueItem, NEW r \in AllReplies, processDelivery(item, r),
           rows'[item.dlv].state \in Pending
    PROVE  item.attempts + 1 < MaxAttempts
<1>1. item.dlv \in Deliveries /\ item.attempts \in Nat
  BY DEF QueueItem
<1>2. \/ updateDeliverySuccess(item)
      \/ updateDeliveryFailed(item)
      \/ updateDeliveryTempFail(item)
  BY DEF processDelivery, deliver
<1>3. ~updateDeliverySuccess(item) /\ ~updateDeliveryFailed(item)
  BY <1>1 DEF updateDeliverySuccess, updateDeliveryFailed, UpdateDeliveryState, TypeOK
<1>4. ~(item.attempts + 1 >= MaxAttempts)
  BY <1>2, <1>3 DEF updateDeliveryTempFail
<1> QED
  BY <1>1, <1>4, MaxAttemptsAssumption

LEMMA BudgetInductive ==
    ASSUME IsFiniteSet(Workers), Workers # {}, BudgetInv, [Next]_vars, NEW d \in Deliveries
    PROVE  Budget(d)'
<1> USE DEF faults
<1>t. TypeOK /\ TypeOK' /\ VersionInv /\ DistinctItems
  BY TypeInductive DEF BudgetInv, VersionInv
<1>r. rows[d] \in Row /\ rows[d].attempts \in Nat /\ rows'[d].attempts \in Nat
  BY <1>t DEF TypeOK, Row
<1>h. /\ Holders(d) \in SUBSET Workers /\ Reopeners(d) \in SUBSET Holders(d)
      /\ Holders(d)' \in SUBSET Workers /\ Reopeners(d)' \in SUBSET Holders(d)'
  BY DEF Holders, Reopeners
<1>b. Within(rows[d].attempts, rows[d].state, Holders(d), Reopeners(d))
  BY DEF BudgetInv, Budget
<1>g. ASSUME Within(rows'[d].attempts, rows'[d].state, Holders(d)', Reopeners(d)')
      PROVE  Budget(d)'
  BY <1>g DEF Budget, Within, Left, Chances, Triangle
<1>k. /\ \A w \in Holders(d) : \A p : (p \in Pending => w \in Reopeners(d)) =>
            Within(rows[d].attempts + 1, p, Holders(d) \ {w}, Reopeners(d) \ {w})
      /\ \A w \in Holders(d) :
            Within(rows[d].attempts, rows[d].state, Holders(d) \ {w}, Reopeners(d) \ {w})
      /\ Within(rows[d].attempts, rows[d].state, {}, {})
      /\ rows[d].state \in Pending =>
            \A G \in SUBSET Workers : Reopeners(d) \subseteq G =>
                Within(rows[d].attempts, rows[d].state, G, Reopeners(d))
  BY <1>r, <1>h, <1>b, WithinKept
\* nothing that counts for d has changed
<1>u. ASSUME rows'[d].attempts = rows[d].attempts, rows'[d].state = rows[d].state,
             Holders(d)' = Holders(d), Reopeners(d)' = Reopeners(d)
      PROVE  Budget(d)'
  BY <1>b, <1>g, <1>u
<1>v. ASSUME batch' = batch PROVE Holders(d)' = Holders(d) /\ Reopeners(d)' = Reopeners(d)
  BY <1>v DEF Holders, Reopeners
<1>1. ASSUME NEW c \in Deliveries, EnqueueDelivery(c) PROVE Budget(d)'
  <2>1. CASE c # d
    BY <1>1, <1>t, <1>u, <1>v, <2>1 DEF EnqueueDelivery, TypeOK
  <2>2. CASE c = d
    <3>1. rows'[d].attempts = 0
      BY <1>1, <1>t, <2>2 DEF EnqueueDelivery, TypeOK
    <3>2. MaxAttempts = 1 => Reopeners(d) = {}
      <4>1. \A w \in Workers : \A i \in DOMAIN batch[w] : batch[w][i].attempts \in Nat
        BY <1>t, ItemType
      <4> QED
        BY <4>1 DEF Reopeners
    <3>3. Within(0, rows'[d].state, Holders(d), Reopeners(d))
      BY <1>h, <3>2, WithinFirst
    <3> QED
      BY <1>1, <1>g, <1>v, <3>1, <3>3 DEF EnqueueDelivery
  <2> QED
    BY <2>1, <2>2
<1>2. ASSUME NEW w \in Workers, Poll(w) PROVE Budget(d)'
  <2>1. PICK s \in GetPendingDeliveries(BatchLimit) :
           batch' = [batch EXCEPT ![w] =
                 [i \in DOMAIN s |-> [dlv |-> s[i], attempts |-> rows[s[i]].attempts]]]
    BY <1>2 DEF Poll
  <2>2. PICK n \in Nat : s \in [1..n -> Due]
    BY BatchLimitAssumption DEF GetPendingDeliveries
  <2>3. batch[w] = <<>> /\ DOMAIN batch[w] = {} /\ rows' = rows
    <3>1. batch[w] = <<>> /\ rows' = rows
      BY <1>2, <1>t DEF Poll, TypeOK
    <3> QED
      BY <3>1
  <2>4. /\ batch'[w] = [i \in DOMAIN s |-> [dlv |-> s[i], attempts |-> rows[s[i]].attempts]]
        /\ \A v \in Workers : v # w => batch'[v] = batch[v]
    BY <1>t, <2>1 DEF TypeOK
  <2>5. \A i \in DOMAIN batch'[w] : /\ rows[batch'[w][i].dlv].state \in Pending
                                    /\ batch'[w][i].attempts = rows[batch'[w][i].dlv].attempts
    BY <2>2, <2>4 DEF Due
  <2>6. CASE rows[d].state \notin Pending
    <3>1. w \notin Holders(d)' /\ w \notin Reopeners(d)' /\ w \notin Holders(d) /\ w \notin Reopeners(d)
      BY <2>3, <2>5, <2>6 DEF Holders, Reopeners
    <3>2. Holders(d)' = Holders(d) /\ Reopeners(d)' = Reopeners(d)
      BY <2>4, <3>1 DEF Holders, Reopeners
    <3> QED
      BY <1>u, <2>3, <3>2
  <2>7. CASE rows[d].state \in Pending
    <3>1. CASE rows[d].attempts + 1 >= MaxAttempts
      <4>1. w \notin Reopeners(d)' /\ w \notin Reopeners(d)
        BY <1>r, <2>3, <2>5, <3>1, MaxAttemptsAssumption DEF Reopeners
      <4>2. Reopeners(d)' = Reopeners(d)
        BY <2>4, <4>1 DEF Reopeners
      <4>3. Within(rows[d].attempts, rows[d].state, Holders(d)', Reopeners(d))
        BY <1>h, <1>k, <2>7, <4>2
      <4> QED
        BY <1>g, <2>3, <4>2, <4>3
    <3>2. CASE ~(rows[d].attempts + 1 >= MaxAttempts)
      <4>1. Within(rows[d].attempts, rows[d].state, Holders(d)', Reopeners(d)')
        BY <3>2 DEF Within
      <4> QED
        BY <1>g, <2>3, <4>1
    <3> QED
      BY <3>1, <3>2
  <2> QED
    BY <2>6, <2>7
<1>3. ASSUME NEW w \in Workers, Record(w) PROVE Budget(d)'
  <2>1. PICK item \in QueueItem : item = Head(batch[w])
    BY <1>3, <1>t, BusyWorker DEF Record
  <2>2. reply[w] \in AllReplies /\ processDelivery(item, reply[w]) /\ pc[w] = "recording" /\ NextItem(w)
    BY <1>3, <1>t, <2>1 DEF Record, TypeOK
  <2>3. CASE d # item.dlv
    <3>1. rows'[d] = rows[d]
      BY <1>t, <2>2, <2>3, RecordedTable
    <3>2. Holders(d)' = Holders(d) /\ Reopeners(d)' = Reopeners(d)
      BY <1>t, <2>1, <2>2, <2>3, NextItemHolders
    <3> QED
      BY <1>u, <3>1, <3>2
  <2>4. CASE d = item.dlv
    <3>1. rows'[d].attempts = rows[d].attempts + 1
      BY <1>t, <2>2, <2>4, RecordedTable
    <3>2. /\ w \in Holders(d)
          /\ w \in Reopeners(d) <=> item.attempts + 1 < MaxAttempts
          /\ Holders(d)' = Holders(d) \ {w}
          /\ Reopeners(d)' = Reopeners(d) \ {w}
      BY <1>t, <2>1, <2>2, <2>4, NextItemHolders
    <3>3. rows'[d].state \in Pending => w \in Reopeners(d)
      BY <1>t, <2>2, <2>4, <3>2, RecordedPending
    <3>4. Within(rows[d].attempts + 1, rows'[d].state, Holders(d) \ {w}, Reopeners(d) \ {w})
      BY <1>k, <3>2, <3>3
    <3> QED
      BY <1>g, <3>1, <3>2, <3>4
  <2> QED
    BY <2>3, <2>4
<1>4. ASSUME NEW w \in Workers, RecordFails(w) PROVE Budget(d)'
  <2>1. pc[w] = "recording" /\ NextItem(w) /\ rows' = rows
    BY <1>4 DEF RecordFails
  <2>2. CASE d # Head(batch[w]).dlv
    <3>1. Holders(d)' = Holders(d) /\ Reopeners(d)' = Reopeners(d)
      BY <1>t, <2>1, <2>2, NextItemHolders
    <3> QED
      BY <1>u, <2>1, <3>1
  <2>3. CASE d = Head(batch[w]).dlv
    <3>1. w \in Holders(d) /\ Holders(d)' = Holders(d) \ {w} /\ Reopeners(d)' = Reopeners(d) \ {w}
      BY <1>t, <2>1, <2>3, NextItemHolders
    <3>2. Within(rows[d].attempts, rows[d].state, Holders(d) \ {w}, Reopeners(d) \ {w})
      BY <1>k, <3>1
    <3> QED
      BY <1>g, <2>1, <3>1, <3>2
  <2> QED
    BY <2>2, <2>3
<1>5. CASE Crash
  <2>1. Holders(d)' = {} /\ Reopeners(d)' = {} /\ rows' = rows
    <3>1. rows' = rows /\ \A w \in Workers : DOMAIN batch'[w] = {}
      BY <1>5 DEF Crash
    <3> QED
      BY <3>1 DEF Holders, Reopeners
  <2> QED
    BY <1>g, <1>k, <2>1
<1>6. CASE Tick
  <2>1. rows'[d].attempts = rows[d].attempts /\ rows'[d].state = rows[d].state
    BY <1>6, <1>r DEF Tick, Row
  <2> QED
    BY <1>6, <1>u, <1>v, <2>1 DEF Tick
<1>7. CASE rows' = rows /\ batch' = batch
  BY <1>7, <1>u, <1>v
<1> QED
  BY <1>1, <1>2, <1>3, <1>4, <1>5, <1>6, <1>7
     DEF Next, WorkerStep, PollFails, Attempt, WorkerExit, Stop, vars

(* Although updateDeliveryTempFail tests a stale count, a pool of W        *)
(* workers overshoots max_attempts by at most W(W+1)/2 + W - 2, for every  *)
(* W, batch size and schedule, whatever crashes and statements fail.       *)
THEOREM OvershootIsBounded ==
    ASSUME IsFiniteSet(Workers), Workers # {}
    PROVE  Spec => []AttemptsBounded
<1>1. Init => BudgetInv
  <2> SUFFICES ASSUME Init PROVE BudgetInv
    OBVIOUS
  <2>1. VersionInv
    BY InitInvariants
  <2>2. \A w \in Workers : DOMAIN batch[w] = {}
    BY DEF Init
  <2>3. DistinctItems
    BY <2>2 DEF DistinctItems
  <2>4. ASSUME NEW d \in Deliveries PROVE Budget(d)
    <3>1. rows[d].attempts = 0 /\ Holders(d) \in SUBSET Workers /\ Reopeners(d) = {}
      BY <2>2 DEF Init, Holders, Reopeners
    <3>3. Within(0, rows[d].state, Holders(d), {})
      BY <3>1, WithinFirst
    <3> QED
      BY <3>1, <3>3 DEF Budget
  <2> QED
    BY <2>1, <2>3, <2>4 DEF BudgetInv
<1>2. BudgetInv /\ [Next]_vars => BudgetInv'
  <2> SUFFICES ASSUME BudgetInv, [Next]_vars PROVE BudgetInv'
    OBVIOUS
  <2>1. VersionInv'
    BY VersionInductive DEF BudgetInv
  <2>2. DistinctItems'
    BY DistinctInductive DEF BudgetInv, VersionInv
  <2>3. \A d \in Deliveries : Budget(d)'
    BY BudgetInductive
  <2> QED
    BY <2>1, <2>2, <2>3 DEF BudgetInv
<1>3. BudgetInv => AttemptsBounded
  <2> SUFFICES ASSUME BudgetInv, NEW d \in Deliveries
               PROVE  LET W == Cardinality(Workers) IN
                      rows[d].attempts <= MaxAttempts + (W * (W + 1)) \div 2 + W - 2
    BY DEF AttemptsBounded
  <2>1. /\ rows[d].attempts \in Nat
        /\ Holders(d) \in SUBSET Workers /\ Reopeners(d) \in SUBSET Holders(d)
    BY HoldersType DEF BudgetInv, VersionInv, TypeOK, Row
  <2>2. Within(rows[d].attempts, rows[d].state, Holders(d), Reopeners(d))
    BY DEF BudgetInv, Budget
  <2> QED
    BY <2>1, <2>2, WithinBounds
<1> QED
  BY <1>1, <1>2, <1>3, PTL DEF Spec
=============================================================================
