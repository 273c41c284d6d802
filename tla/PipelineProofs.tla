--------------------------- MODULE PipelineProofs ---------------------------
(***************************************************************************)
(* Proofs about module Pipeline, for any messages and stages, any retry    *)
(* schedule and retention, and any number of attempts and crashes.         *)
(***************************************************************************)
EXTENDS Pipeline, WellFoundedInduction, TLAPS

-----------------------------------------------------------------------------
(* The retry schedule *)

(* Induction over numbers, by way of the least counterexample. *)
LEMMA LeastNumber ==
    ASSUME NEW T \in SUBSET Nat, T # {}
    PROVE  \E x \in T : \A y \in T : x <= y
<1>1. PICK x \in T : \A y \in T : ~(<<y, x>> \in OpToRel(<, Nat))
  BY WFMin, NatLessThanWellFounded
<1>2. \A y \in T : ~(y < x)
  BY <1>1 DEF OpToRel
<1>3. \A y \in T : x \in Nat /\ y \in Nat
  OBVIOUS
<1> QED
  BY <1>2, <1>3

LEMMA RetryType == \A n \in Nat : calculateNextRetry(n) \in Nat
  BY RetryScheduleAssumption DEF calculateNextRetry

(* Due is defined by recursion: there is a function like that up to every  *)
(* number of attempts.                                                     *)
IsDue(f, k) ==
    f = [n \in 0..k |-> IF n = 0 THEN MaxLag ELSE f[n - 1] + MaxLate + calculateNextRetry(n - 1)]

LEMMA DueExists == \A k \in Nat : \E f : IsDue(f, k)
<1> DEFINE T == {k \in Nat : ~\E f : IsDue(f, k)}
<1> SUFFICES ASSUME T # {} PROVE FALSE
  OBVIOUS
<1>1. PICK k \in T : \A j \in T : k <= j
  BY LeastNumber
<1>2. k # 0
  <2>1. [n \in 0..0 |-> MaxLag] = [n \in 0..0 |-> IF n = 0 THEN MaxLag
           ELSE [i \in 0..0 |-> MaxLag][n - 1] + MaxLate + calculateNextRetry(n - 1)]
    OBVIOUS
  <2>2. IsDue([n \in 0..0 |-> MaxLag], 0)
    BY <2>1 DEF IsDue
  <2> QED
    BY <2>2
<1>3. k \in Nat /\ k - 1 \in Nat /\ k - 1 \notin T
  BY <1>1, <1>2
<1>4. PICK f : IsDue(f, k - 1)
  BY <1>3
<1>5. PICK g : g = [n \in 0..k |-> IF n < k THEN f[n] ELSE f[k - 1] + MaxLate + calculateNextRetry(k - 1)]
  OBVIOUS
<1>6. ASSUME NEW n \in 0..k
      PROVE  g[n] = IF n = 0 THEN MaxLag ELSE g[n - 1] + MaxLate + calculateNextRetry(n - 1)
  <2>1. CASE n = k
    <3>1. g[k] = f[k - 1] + MaxLate + calculateNextRetry(k - 1) /\ g[k - 1] = f[k - 1]
      BY <1>3, <1>5
    <3> QED
      BY <1>2, <2>1, <3>1
  <2>2. CASE n < k
    <3>1. g[n] = f[n] /\ n \in 0..(k - 1)
      BY <1>3, <1>5, <2>2
    <3>2. n # 0 => n - 1 \in 0..k /\ g[n - 1] = f[n - 1]
      BY <1>3, <1>5, <2>2
    <3>3. f[n] = IF n = 0 THEN MaxLag ELSE f[n - 1] + MaxLate + calculateNextRetry(n - 1)
      BY <1>4, <3>1 DEF IsDue
    <3> QED
      BY <3>1, <3>2, <3>3
  <2> QED
    BY <1>3, <2>1, <2>2
<1>7. IsDue(g, k)
  <2>1. g = [n \in 0..k |-> g[n]]
    BY <1>5
  <2>2. [n \in 0..k |-> g[n]] =
           [n \in 0..k |-> IF n = 0 THEN MaxLag ELSE g[n - 1] + MaxLate + calculateNextRetry(n - 1)]
    BY <1>6
  <2> QED
    BY <2>1, <2>2 DEF IsDue
<1> QED
  BY <1>1, <1>7

LEMMA DueSteps ==
    /\ Due[0] = MaxLag
    /\ \A n \in 1..(MaxAttempts - 1) : Due[n] = Due[n - 1] + MaxLate + calculateNextRetry(n - 1)
<1>1. MaxAttempts - 1 \in Nat
  BY AttemptsAssumption
<1>2. PICK f : IsDue(f, MaxAttempts - 1)
  BY <1>1, DueExists
<1>3. Due = CHOOSE g : IsDue(g, MaxAttempts - 1)
  BY DEF Due, IsDue
<1>4. IsDue(Due, MaxAttempts - 1)
  BY <1>2, <1>3
<1> HIDE DEF Due
<1>5. ASSUME NEW n \in 0..(MaxAttempts - 1)
      PROVE  Due[n] = IF n = 0 THEN MaxLag ELSE Due[n - 1] + MaxLate + calculateNextRetry(n - 1)
  BY <1>4 DEF IsDue
<1> QED
  BY <1>1, <1>5

LEMMA DueType == \A n \in 0..(MaxAttempts - 1) : Due[n] \in Nat
<1> DEFINE T == {n \in 0..(MaxAttempts - 1) : Due[n] \notin Nat}
<1> SUFFICES ASSUME T # {} PROVE FALSE
  OBVIOUS
<1>1. T \in SUBSET Nat
  BY AttemptsAssumption
<1>2. PICK n \in T : \A j \in T : n <= j
  BY <1>1, LeastNumber
<1>3. n # 0
  BY DueSteps, PipelineBoundsAssumption
<1>4. n \in 1..(MaxAttempts - 1) /\ n - 1 \in 0..(MaxAttempts - 1) /\ n - 1 \notin T /\ n - 1 \in Nat
  BY <1>2, <1>3, AttemptsAssumption
<1>5. Due[n - 1] \in Nat /\ Due[n] = Due[n - 1] + MaxLate + calculateNextRetry(n - 1)
  BY <1>4, DueSteps
<1> QED
  BY <1>2, <1>4, <1>5, RetryType, PipelineBoundsAssumption

(* No attempt is due after the last one. *)
LEMMA DueGrows == \A n \in 0..(MaxAttempts - 1) : Due[n] <= Due[MaxAttempts - 1]
<1> DEFINE K == MaxAttempts - 1
           T == {d \in 0..K : ~(Due[K - d] <= Due[K])}
<1>k. K \in Nat
  BY AttemptsAssumption
<1>t. \A n \in 0..K : Due[n] \in Nat
  BY DueType
<1>s. \A n \in 1..K : Due[n] = Due[n - 1] + MaxLate + calculateNextRetry(n - 1)
  BY DueSteps
<1> HIDE DEF K
<1> SUFFICES \A n \in 0..K : Due[n] <= Due[K]
  BY DEF K
<1>1. T = {}
  <2> SUFFICES ASSUME T # {} PROVE FALSE
    OBVIOUS
  <2>1. T \in SUBSET Nat
    BY <1>k
  <2>2. PICK d \in T : \A j \in T : d <= j
    BY <2>1, LeastNumber
  <2>3. d # 0
    BY <1>k, <1>t, <2>2
  <2>4. d - 1 \in 0..K /\ d - 1 \notin T /\ K - d + 1 \in 1..K /\ K - (d - 1) = K - d + 1
    BY <1>k, <2>2, <2>3
  <2>5. Due[K - d + 1] <= Due[K]
    BY <2>4
  <2>6. (K - d + 1) - 1 = K - d /\ K - d \in 0..K
    BY <1>k, <2>2
  <2>7. Due[K - d + 1] = Due[K - d] + MaxLate + calculateNextRetry(K - d)
    BY <1>s, <2>4, <2>6
  <2>8. calculateNextRetry(K - d) \in Nat /\ MaxLate \in Nat
    BY <2>6, RetryType, PipelineBoundsAssumption
  <2>9. Due[K - d] <= Due[K]
    BY <1>k, <1>t, <2>4, <2>5, <2>6, <2>7, <2>8
  <2> QED
    BY <2>2, <2>9
<1>2. ASSUME NEW n \in 0..K PROVE Due[n] <= Due[K]
  <2>1. K - n \in 0..K /\ K - (K - n) = n
    BY <1>k
  <2> QED
    BY <1>1, <2>1
<1> QED
  BY <1>2

-----------------------------------------------------------------------------
(* Types, and what the queue promises of its rows. *)

LEMMA ReadStages == Readable = {"signed", "modified", "parsed"} /\ Head(ReadOrder) = "signed"
<1>1. DOMAIN ReadOrder = {1, 2, 3}
  BY DEF ReadOrder
<1>2. ReadOrder[1] = "signed" /\ ReadOrder[2] = "modified" /\ ReadOrder[3] = "parsed"
  BY DEF ReadOrder
<1> QED
  BY <1>1, <1>2 DEF Readable, ReadOrder

LEMMA ReadNext ==
    ASSUME TypeOK, NEW m \in Msgs, Read(m)
    PROVE  ReadThen(m, IF at[m] = "signed" THEN "modified"
                       ELSE IF at[m] = "modified" THEN "parsed" ELSE "missing")
<1>1. DOMAIN ReadOrder = {1, 2, 3} /\ Len(ReadOrder) = 3
  BY DEF ReadOrder
<1>2. ReadOrder[1] = "signed" /\ ReadOrder[2] = "modified" /\ ReadOrder[3] = "parsed"
  BY DEF ReadOrder
<1>3. PICK i : i = CHOOSE j \in DOMAIN ReadOrder : ReadOrder[j] = at[m]
  OBVIOUS
<1>4. at[m] \in {"signed", "modified", "parsed"}
  BY ReadStages DEF Read, ReadThen
<1>5. i \in {1, 2, 3} /\ ReadOrder[i] = at[m]
  BY <1>1, <1>2, <1>3, <1>4
<1>6. /\ at[m] = "signed" <=> i = 1
      /\ at[m] = "modified" <=> i = 2
      /\ at[m] = "parsed" <=> i = 3
  BY <1>2, <1>5
<1>7. ReadThen(m, IF i = 3 THEN "missing" ELSE ReadOrder[i + 1])
  BY <1>1, <1>3 DEF Read
<1>8. i # 3 => ReadOrder[i + 1] = IF i = 1 THEN "modified" ELSE "parsed"
  <2>1. CASE i = 1
    BY <1>2, <2>1
  <2>2. CASE i = 2
    BY <1>2, <2>2
  <2> QED
    BY <1>5, <2>1, <2>2
<1>9. CASE i = 1
  BY <1>6, <1>7, <1>8, <1>9
<1>10. CASE i = 2
  BY <1>6, <1>7, <1>8, <1>10
<1>11. CASE i = 3
  BY <1>6, <1>7, <1>11
<1> QED
  BY <1>5, <1>9, <1>10, <1>11

Counted ==
    \A m \in Msgs : /\ state[m] = "absent" => attempts[m] = 0
                    /\ Pending(m) => attempts[m] < MaxAttempts

TypesInv == TypeOK /\ Counted

LEMMA TypesStep ==
    ASSUME TypesInv, [Next]_vars
    PROVE  TypesInv'
<1> USE PipelineBoundsAssumption, AttemptsAssumption DEF TypesInv, TypeOK, Counted, Pending, spool, queue
<1>0. MaxCrashes \in Nat /\ MaxAge \in Nat
  OBVIOUS
<1>1. ASSUME NEW m \in Msgs, Write(m) \/ Cleanup(m) \/ \E to \in Visible : Move(m, to)
      PROVE  TypesInv'
  <2>1. /\ UNCHANGED <<queue, at, crashes>>
        /\ place' \in [Msgs -> Visible \union {"nowhere", "gone"}]
    <3>1. CASE Write(m)
      <4>1. place' = [place EXCEPT ![m] = "incoming"]
        BY <3>1 DEF Write, Spool!Accept
      <4> QED
        BY <3>1, <4>1, StagesAssumption DEF Write
    <3>2. CASE Cleanup(m)
      BY <3>2 DEF Cleanup, Spool!Drop
    <3>3. ASSUME NEW to \in Visible, Move(m, to)
          PROVE  /\ UNCHANGED <<queue, at, crashes>>
                 /\ place' \in [Msgs -> Visible \union {"nowhere", "gone"}]
      BY <3>3 DEF Move, Spool!Advance
    <3> QED
      BY <1>1, <3>1, <3>2, <3>3
  <2>2. age' \in [Msgs -> 0..MaxAge] /\ steady' \in [Msgs -> BOOLEAN] /\ unread' = unread
    <3>1. CASE Write(m)
      <4>1. age' = [age EXCEPT ![m] = 0] /\ UNCHANGED <<steady, unread>> /\ 0 \in 0..MaxAge
        BY <1>0, <3>1 DEF Write
      <4> QED
        BY <4>1
    <3>2. CASE Cleanup(m)
      BY <3>2 DEF Cleanup, Moved
    <3>3. ASSUME NEW to \in Visible, Move(m, to)
          PROVE  age' \in [Msgs -> 0..MaxAge] /\ steady' \in [Msgs -> BOOLEAN] /\ unread' = unread
      BY <3>3 DEF Move, Moved
    <3> QED
      BY <1>1, <3>1, <3>2, <3>3
  <2> QED
    BY <2>1, <2>2
<1>2. ASSUME NEW m \in Msgs, EnqueueDelivery(m) PROVE TypesInv'
  BY <1>2 DEF EnqueueDelivery, Queue!Enqueue
<1>3. ASSUME NEW m \in Msgs, Poll(m) PROVE TypesInv'
  BY <1>3, ReadStages DEF Poll
<1>4. ASSUME NEW m \in Msgs, Read(m) PROVE TypesInv'
  <2>1. PICK v \in {"modified", "parsed", "missing"} : ReadThen(m, v)
    BY <1>4, ReadNext
  <2>2. at' \in [Msgs -> Readable \union {"idle", "missing", "send"}]
    BY <2>1, ReadStages DEF ReadThen
  <2>3. \A k \in Msgs : at'[k] # "idle" => at[k] # "idle"
    BY <2>1, ReadStages DEF ReadThen
  <2>4. unread' \in [Msgs -> BOOLEAN]
    <3>1. PICK b \in BOOLEAN : unread' = [unread EXCEPT ![m] = b]
      <4>1. CASE unread' = unread
        BY <4>1
      <4>2. CASE unread' = [unread EXCEPT ![m] = unread[m] \/ place[m] = at[m]]
        BY <4>2
      <4> QED
        BY <2>1, <4>1, <4>2 DEF ReadThen
    <3> QED
      BY <3>1
  <2> QED
    BY <2>1, <2>2, <2>3, <2>4 DEF ReadThen
<1>5. ASSUME NEW m \in Msgs, Record(m) PROVE TypesInv'
  <2>1. PICK st \in {"temp_fail", "delivered", "perm_fail"} :
           Queue!Attempted(m, st) /\ (st = "temp_fail" => attempts[m] + 1 < MaxAttempts)
    BY <1>5 DEF Record, GiveUp, Succeed, TempFail, Queue!Fail, Queue!Succeed, Queue!Retry
  <2>2. /\ state' = [state EXCEPT ![m] = st] /\ attempts' = [attempts EXCEPT ![m] = @ + 1]
        /\ Pending(m)
    BY <2>1 DEF Queue!Attempted
  <2>3. attempts'[m] = attempts[m] + 1 /\ attempts[m] < MaxAttempts /\ attempts[m] \in 0..MaxAttempts
    BY <2>2
  <2>4. attempts' \in [Msgs -> 0..MaxAttempts]
    BY <2>2, <2>3
  <2>5. wait' \in [Msgs -> Int]
    BY <1>5, RetryType DEF Record, GiveUp, Succeed, TempFail
  <2>6. /\ at' = [at EXCEPT ![m] = "idle"] /\ UNCHANGED <<place, age, crashes, steady, unread>>
    BY <1>5 DEF Record, GiveUp, Succeed, TempFail, Done
  <2> QED
    BY <2>1, <2>2, <2>3, <2>4, <2>5, <2>6
<1>6. ASSUME NEW m \in Msgs, UpdateFails(m) PROVE TypesInv'
  BY <1>6 DEF UpdateFails, Done
<1>7. CASE Crash
  BY <1>0, <1>7 DEF Crash
<1>8. CASE Tick
  <2>1. age' \in [Msgs -> 0..MaxAge]
    BY <1>0, <1>8 DEF Tick
  <2>2. wait' \in [Msgs -> Int]
    BY <1>8 DEF Tick
  <2> QED
    BY <1>8, <2>1, <2>2 DEF Tick
<1>9. CASE UNCHANGED vars
  BY <1>9 DEF vars
<1> QED
  BY <1>1, <1>2, <1>3, <1>4, <1>5, <1>6, <1>7, <1>8, <1>9 DEF Next

LEMMA TypesHold == Spec => []TypesInv
<1>1. Init => TypesInv
  BY PipelineBoundsAssumption, AttemptsAssumption
     DEF Init, Spool!Init, Queue!Init, TypesInv, TypeOK, Counted, Pending
<1>2. TypesInv /\ [Next]_vars => TypesInv'
  BY TypesStep
<1> QED
  BY <1>1, <1>2, PTL DEF Spec

-----------------------------------------------------------------------------
(* The search for the file *)

(* While the file stays where it was, the worker has not passed it by,     *)
(* unless it failed to read it.                                            *)
SearchOK(m) ==
    /\ steady[m] => place[m] \in Readable
    /\ steady[m] /\ ~unread[m] /\ at[m] = "modified" => place[m] # "signed"
    /\ steady[m] /\ ~unread[m] /\ at[m] = "parsed" => place[m] = "parsed"
    /\ at[m] = "missing" => ~steady[m] \/ unread[m]

LEMMA SearchStep ==
    ASSUME TypesInv, [Next]_vars, NEW m \in Msgs, SearchOK(m)
    PROVE  SearchOK(m)'
<1> USE DEF TypesInv, TypeOK, spool, queue
<1>0. "nowhere" \notin Readable
  BY ReadStages
<1>1. CASE UNCHANGED <<place, steady, unread>> /\ (at'[m] = at[m] \/ at'[m] = "idle")
  BY <1>1 DEF SearchOK, Readable, ReadOrder
<1>2. ASSUME NEW k \in Msgs, Write(k) PROVE SearchOK(m)'
  <2>1. place' = [place EXCEPT ![k] = "incoming"] /\ place[k] = "nowhere" /\ UNCHANGED <<at, steady, unread>>
    BY <1>2 DEF Write, Spool!Accept
  <2>2. steady[k] => FALSE \/ k # m
    BY <1>0, <2>1 DEF SearchOK
  <2> QED
    BY <2>1, <2>2 DEF SearchOK, Readable, ReadOrder
<1>3. ASSUME NEW k \in Msgs, Cleanup(k) \/ \E to \in Visible : Move(k, to) PROVE SearchOK(m)'
  <2>1. /\ steady' = [steady EXCEPT ![k] = FALSE] /\ at' = at /\ unread' = unread
        /\ k # m => place'[m] = place[m]
    BY <1>3 DEF Cleanup, Move, Moved, Spool!Drop, Spool!Advance
  <2> QED
    BY <2>1 DEF SearchOK, Readable, ReadOrder
<1>4. ASSUME NEW k \in Msgs, Poll(k) PROVE SearchOK(m)'
  <2>1. /\ at' = [at EXCEPT ![k] = "signed"] /\ place' = place
        /\ steady' = [steady EXCEPT ![k] = place[k] \in Readable]
        /\ unread' = [unread EXCEPT ![k] = FALSE]
    BY <1>4, ReadStages DEF Poll
  <2> QED
    BY <2>1 DEF SearchOK, Readable, ReadOrder
<1>5. ASSUME NEW k \in Msgs, Read(k) PROVE SearchOK(m)'
  <2>1. /\ ReadThen(k, IF at[k] = "signed" THEN "modified"
                       ELSE IF at[k] = "modified" THEN "parsed" ELSE "missing")
        /\ UNCHANGED <<place, steady>> /\ at[k] \in {"signed", "modified", "parsed"}
    BY <1>5, ReadNext, ReadStages DEF ReadThen
  <2>2. CASE k # m
    <3>1. at'[m] = at[m] /\ unread'[m] = unread[m]
      BY <2>1, <2>2 DEF ReadThen
    <3> QED
      BY <2>1, <3>1 DEF SearchOK, Readable, ReadOrder
  <2>3. CASE k = m
    <3>1. place[m] \in Readable => place[m] \in {"signed", "modified", "parsed"}
      BY ReadStages
    <3>2. (steady[m] => place[m] \in Readable)'
      BY <2>1 DEF SearchOK, Readable, ReadOrder
    <3>3. CASE at'[m] = "send"
      BY <3>2, <3>3 DEF SearchOK
    <3>4. CASE unread'[m]
      BY <3>2, <3>4 DEF SearchOK
    <3>5. CASE at'[m] # "send" /\ ~unread'[m]
      <4>1. /\ at' = [at EXCEPT ![m] = IF at[m] = "signed" THEN "modified"
                                       ELSE IF at[m] = "modified" THEN "parsed" ELSE "missing"]
            /\ unread' = [unread EXCEPT ![m] = unread[m] \/ place[m] = at[m]]
        BY <2>1, <2>3, <3>5 DEF ReadThen
      <4>2. ~unread[m] /\ place[m] # at[m]
        BY <3>5, <4>1
      <4>3. at'[m] = IF at[m] = "signed" THEN "modified"
                     ELSE IF at[m] = "modified" THEN "parsed" ELSE "missing"
        BY <4>1
      <4> QED
        BY <2>1, <2>3, <3>1, <3>2, <4>2, <4>3 DEF SearchOK
    <3> QED
      BY <3>3, <3>4, <3>5
  <2> QED
    BY <2>2, <2>3
<1>6. ASSUME NEW k \in Msgs, EnqueueDelivery(k) \/ Record(k) \/ UpdateFails(k)
      PROVE  UNCHANGED <<place, steady, unread>> /\ (at'[m] = at[m] \/ at'[m] = "idle")
  BY <1>6 DEF EnqueueDelivery, Record, GiveUp, Succeed, TempFail, UpdateFails, Done
<1>7. Crash \/ Tick \/ UNCHANGED vars =>
         UNCHANGED <<place, steady, unread>> /\ (at'[m] = at[m] \/ at'[m] = "idle")
  BY DEF Crash, Tick, vars
<1> QED
  BY <1>1, <1>2, <1>3, <1>4, <1>5, <1>6, <1>7 DEF Next

(* A file that was in one of the three stages when the worker began, and   *)
(* has not moved since, is found unless the read of its stage failed       *)
(* (UnmovedIsFound).                                                       *)
THEOREM UnmovedIsAlwaysFound == Spec => []UnmovedIsFound
<1>1. Init => \A m \in Msgs : SearchOK(m)
  <2> SUFFICES ASSUME Init, NEW m \in Msgs PROVE SearchOK(m)
    OBVIOUS
  <2>1. at[m] = "idle" /\ steady[m] = FALSE
    BY DEF Init
  <2> QED
    BY <2>1 DEF SearchOK
<1>2. TypesInv /\ (\A m \in Msgs : SearchOK(m)) /\ [Next]_vars => (\A m \in Msgs : SearchOK(m))'
  BY SearchStep
<1>3. (\A m \in Msgs : SearchOK(m)) => UnmovedIsFound
  BY DEF SearchOK, UnmovedIsFound
<1> QED
  BY <1>1, <1>2, <1>3, TypesHold, PTL DEF Spec

-----------------------------------------------------------------------------
(* Files and retries *)

(* A pending delivery is on time, and its message in some stage. *)
OnTime(m) ==
    Pending(m) =>
        /\ place[m] \in Visible
        /\ age[m] + wait[m] <= Due[attempts[m]]
        /\ wait[m] >= -MaxLate

KeptLongEnough == \A s \in Visible : Retention[s] > 0 => Retention[s] >= LongestDelivery

LEMMA OnTimeStep ==
    ASSUME KeptLongEnough, TypesInv, [Next]_vars, NEW m \in Msgs, OnTime(m)
    PROVE  OnTime(m)'
<1> USE DEF spool, queue
<1>0. /\ MaxLag \in Nat /\ MaxLate \in Nat /\ MaxAttempts \in Nat /\ MaxAge \in Nat
      /\ \A k \in Msgs : /\ age[k] \in Nat /\ wait[k] \in Int /\ attempts[k] \in Nat
                         /\ Pending(k) => attempts[k] \in 0..(MaxAttempts - 1)
  BY PipelineBoundsAssumption, AttemptsAssumption DEF TypesInv, TypeOK, Counted
<1>1. Pending(m) => Due[attempts[m]] \in Nat /\ Due[attempts[m]] <= Due[MaxAttempts - 1]
  BY <1>0, DueType, DueGrows
<1>2. CASE UNCHANGED <<state, attempts, wait>> /\ place'[m] = place[m] /\ age'[m] = age[m]
  BY <1>2 DEF OnTime, Pending
<1>3. ASSUME NEW k \in Msgs, Write(k) PROVE OnTime(m)'
  <2>1. /\ place' = [place EXCEPT ![k] = "incoming"] /\ place[k] = "nowhere"
        /\ age' = [age EXCEPT ![k] = 0] /\ UNCHANGED <<state, attempts, wait>>
    BY <1>3 DEF Write, Spool!Accept
  <2>2. CASE k = m
    <3>1. ~Pending(m)
      BY <2>1, <2>2, StagesAssumption DEF OnTime
    <3> QED
      BY <2>1, <3>1 DEF OnTime, Pending
  <2>3. CASE k # m
    BY <1>2, <2>1, <2>3 DEF TypesInv, TypeOK
  <2> QED
    BY <2>2, <2>3
<1>4. ASSUME NEW k \in Msgs, NEW to \in Visible, Move(k, to) PROVE OnTime(m)'
  <2>1. place' = [place EXCEPT ![k] = to] /\ UNCHANGED <<age, state, attempts, wait>>
    BY <1>4 DEF Move, Spool!Advance
  <2> QED
    BY <2>1 DEF OnTime, Pending, TypesInv, TypeOK
<1>5. ASSUME NEW k \in Msgs, Cleanup(k) PROVE OnTime(m)'
  <2>1. /\ place' = [place EXCEPT ![k] = "gone"] /\ UNCHANGED <<age, state, attempts, wait>>
        /\ place[k] \in Visible /\ Retention[place[k]] > 0 /\ age[k] > Retention[place[k]]
    BY <1>5 DEF Cleanup, Spool!Drop
  <2>2. CASE k = m
    <3>1. Retention[place[m]] \in Int /\ Retention[place[m]] >= Due[MaxAttempts - 1] + MaxLate
      BY <2>1, <2>2, RetentionAssumption DEF KeptLongEnough, LongestDelivery
    <3>2. Due[MaxAttempts - 1] \in Nat
      BY <1>0, DueType, AttemptsAssumption
    <3>3. ~Pending(m)
      BY <1>0, <1>1, <2>1, <2>2, <3>1, <3>2 DEF OnTime
    <3> QED
      BY <2>1, <3>3 DEF OnTime, Pending
  <2>3. CASE k # m
    BY <1>2, <2>1, <2>3 DEF TypesInv, TypeOK
  <2> QED
    BY <2>2, <2>3
<1>6. ASSUME NEW k \in Msgs, EnqueueDelivery(k) PROVE OnTime(m)'
  <2>1. /\ place[k] \in Visible /\ age[k] <= MaxLag /\ UNCHANGED <<place, age, attempts>>
        /\ state[k] = "absent" /\ state' = [state EXCEPT ![k] = "queued"]
        /\ wait' = [wait EXCEPT ![k] = 0]
    BY <1>6 DEF EnqueueDelivery, Queue!Enqueue
  <2>2. CASE k = m
    <3>1. attempts[m] = 0 /\ wait'[m] = 0
      BY <2>1, <2>2 DEF TypesInv, TypeOK, Counted
    <3> QED
      BY <1>0, <2>1, <2>2, <3>1, DueSteps DEF OnTime
  <2>3. CASE k # m
    BY <2>1, <2>3 DEF OnTime, Pending, TypesInv, TypeOK
  <2> QED
    BY <2>2, <2>3
<1>7. ASSUME NEW k \in Msgs, Record(k) PROVE OnTime(m)'
  <2>1. CASE k # m
    <3>1. /\ state'[m] = state[m] /\ attempts'[m] = attempts[m] /\ wait'[m] = wait[m]
          /\ UNCHANGED <<place, age>>
      BY <1>7, <2>1 DEF Record, GiveUp, Succeed, TempFail, Queue!Fail, Queue!Succeed, Queue!Retry,
                        Queue!Attempted, TypesInv, TypeOK
    <3> QED
      BY <3>1 DEF OnTime, Pending
  <2>2. CASE k = m /\ (GiveUp(k) \/ Succeed(k) \/ (TempFail(k) /\ attempts[k] + 1 >= MaxAttempts))
    <3>1. state'[m] \in {"delivered", "perm_fail"}
      BY <2>2 DEF GiveUp, Succeed, TempFail, Queue!Fail, Queue!Succeed, Queue!Attempted,
                  TypesInv, TypeOK
    <3> QED
      BY <3>1 DEF OnTime, Pending
  <2>3. CASE k = m /\ TempFail(k) /\ ~(attempts[k] + 1 >= MaxAttempts)
    <3>1. /\ Queue!Attempted(m, "temp_fail") /\ UNCHANGED <<place, age>>
          /\ wait' = [wait EXCEPT ![m] = calculateNextRetry(attempts[m])]
          /\ attempts[m] + 1 < MaxAttempts
      BY <1>0, <2>3 DEF TempFail, Queue!Retry
    <3>2. Pending(m) /\ attempts'[m] = attempts[m] + 1 /\ wait'[m] = calculateNextRetry(attempts[m])
      BY <3>1 DEF Queue!Attempted, Pending, TypesInv, TypeOK
    <3>3. /\ attempts[m] + 1 \in 1..(MaxAttempts - 1) /\ (attempts[m] + 1) - 1 = attempts[m]
          /\ calculateNextRetry(attempts[m]) \in Nat
      BY <1>0, <3>1, RetryType
    <3>4. Due[attempts[m] + 1] = Due[attempts[m]] + MaxLate + calculateNextRetry(attempts[m])
      BY <3>3, DueSteps
    <3>5. age[m] <= Due[attempts[m]] + MaxLate
      BY <1>0, <1>1, <3>2 DEF OnTime
    <3>6. age'[m] + wait'[m] <= Due[attempts'[m]] /\ wait'[m] >= -MaxLate /\ place'[m] \in Visible
      BY <1>0, <1>1, <3>1, <3>2, <3>3, <3>4, <3>5 DEF OnTime
    <3> QED
      BY <3>6 DEF OnTime
  <2> QED
    BY <1>7, <2>1, <2>2, <2>3 DEF Record
<1>8. CASE Tick
  <2>1. UNCHANGED <<place, state, attempts>>
    BY <1>8 DEF Tick
  <2>2. Pending(m) => wait[m] > -MaxLate /\ wait'[m] = wait[m] - 1
    BY <1>8 DEF Tick
  <2>3. age'[m] \in {age[m], age[m] + 1}
    BY <1>8 DEF Tick
  <2> QED
    BY <1>0, <1>1, <2>1, <2>2, <2>3 DEF OnTime, Pending
<1>9. ASSUME NEW k \in Msgs, Poll(k) \/ Read(k) \/ UpdateFails(k)
      PROVE  UNCHANGED <<state, attempts, wait, place, age>>
  BY <1>9 DEF Poll, Read, ReadThen, UpdateFails
<1>10. Crash \/ UNCHANGED vars => UNCHANGED <<state, attempts, wait, place, age>>
  BY DEF Crash, vars
<1> QED
  BY <1>2, <1>3, <1>4, <1>5, <1>6, <1>7, <1>8, <1>9, <1>10 DEF Next

(* Where every stage that is cleaned up keeps files for as long as a       *)
(* delivery may take, no file is removed while its delivery is pending     *)
(* (KeptForRetries), for every retry schedule and number of attempts.      *)
THEOREM FilesKeptForRetries == Spec => []KeptForRetries
<1>1. CASE KeptLongEnough
  <2>1. Init => \A m \in Msgs : OnTime(m)
    BY DEF Init, Queue!Init, OnTime, Pending
  <2>2. TypesInv /\ (\A m \in Msgs : OnTime(m)) /\ [Next]_vars => (\A m \in Msgs : OnTime(m))'
    BY <1>1, OnTimeStep
  <2>3. (\A m \in Msgs : OnTime(m)) => KeptForRetries
    BY StagesAssumption DEF OnTime, KeptForRetries
  <2> QED
    BY <2>1, <2>2, <2>3, TypesHold, PTL DEF Spec
<1>2. CASE ~KeptLongEnough
  <2>1. KeptForRetries
    BY <1>2 DEF KeptLongEnough, KeptForRetries
  <2> QED
    BY <2>1, PTL
<1> QED
  BY <1>1, <1>2
=============================================================================
