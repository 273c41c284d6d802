--------------------------- MODULE EventLogProofs ---------------------------
(***************************************************************************)
(* Proofs about module EventLog, for any set of events and any size of the *)
(* buffer.                                                                 *)
(***************************************************************************)
EXTENDS EventLog, FiniteSetTheorems, SequenceTheorems, TLAPS

(* e is not in sequence s, and e is in it exactly once. *)
Absent(e, s) == \A i \in DOMAIN s : s[i] # e
Once(e, s) == \E i \in DOMAIN s : s[i] = e /\ \A j \in DOMAIN s : s[j] = e => j = i

(* Where an event can be. *)
Nowhere(e) == Absent(e, buffer) /\ Absent(e, written) /\ \A g \in Flushers : Absent(e, batch[g])
Waiting(e) == Once(e, buffer) /\ Absent(e, written) /\ \A g \in Flushers : Absent(e, batch[g])
Written(e) == Absent(e, buffer) /\ Once(e, written) /\ \A g \in Flushers : Absent(e, batch[g])
HeldBy(e, g) ==
    /\ Absent(e, buffer) /\ Absent(e, written)
    /\ Once(e, batch[g]) /\ \A h \in Flushers \ {g} : Absent(e, batch[h])

(* An event is nowhere until it is logged, and then in one place. *)
OnePlace ==
    \A e \in Events :
        /\ e \notin logged => Nowhere(e)
        /\ e \in logged => Waiting(e) \/ Written(e) \/ \E g \in Flushers : HeldBy(e, g)

(* The goroutine an event starts exists once the event is logged. *)
NotStarted == \A e \in Events : e \notin logged => pc[e] = "off"

(* How far the worker is in its final flush. *)
WorkerStage ==
    /\ final => closing # "no" /\ pc[Worker] \in {"flush", "write", "done"}
    /\ pc[Worker] = "done" => final
    /\ final /\ pc[Worker] # "flush" => \A e \in early : Absent(e, buffer)

BufferInv == TypeOK /\ NotStarted
PlaceInv == BufferInv /\ OnePlace
WorkerInv == BufferInv /\ WorkerStage

-----------------------------------------------------------------------------
(* Sequences *)

(* What Append and Tail do to an event that is in a sequence once or not   *)
(* at all.                                                                 *)
LEMMA AppendOccurs ==
    ASSUME NEW s \in Seq(Events), NEW x \in Events, NEW e \in Events
    PROVE  /\ e # x /\ Absent(e, s) => Absent(e, Append(s, x))
           /\ e # x /\ Once(e, s) => Once(e, Append(s, x))
           /\ e = x /\ Absent(e, s) => Once(e, Append(s, x))
<1>1. /\ Append(s, x) \in Seq(Events) /\ DOMAIN s = 1..Len(s)
      /\ DOMAIN Append(s, x) = 1..(Len(s) + 1)
      /\ Append(s, x)[Len(s) + 1] = x
      /\ \A i \in 1..Len(s) : Append(s, x)[i] = s[i]
      /\ Len(s) \in Nat
  OBVIOUS
<1>2. \A i \in 1..(Len(s) + 1) : i \in 1..Len(s) \/ i = Len(s) + 1
  BY <1>1
<1>3. Len(s) + 1 \in 1..(Len(s) + 1) /\ Len(s) + 1 \notin 1..Len(s)
  BY <1>1
<1>4. \A i \in 1..Len(s) : i \in 1..(Len(s) + 1)
  BY <1>1
<1> QED
  BY <1>1, <1>2, <1>3, <1>4 DEF Absent, Once

LEMMA TailOccurs ==
    ASSUME NEW s \in Seq(Events), s # <<>>, NEW e \in Events
    PROVE  /\ Absent(e, s) => Absent(e, Tail(s)) /\ Head(s) # e
           /\ Once(e, s) /\ Head(s) # e => Once(e, Tail(s))
           /\ Once(e, s) /\ Head(s) = e => Absent(e, Tail(s))
<1>1. /\ Tail(s) \in Seq(Events) /\ DOMAIN s = 1..Len(s) /\ Len(s) \in Nat /\ Len(s) >= 1
      /\ DOMAIN Tail(s) = 1..(Len(s) - 1)
      /\ Head(s) = s[1]
      /\ \A i \in 1..(Len(s) - 1) : Tail(s)[i] = s[i + 1]
  OBVIOUS
<1>2. \A i \in 1..(Len(s) - 1) : i + 1 \in 1..Len(s) /\ i + 1 # 1 /\ i \in Int
  BY <1>1
<1>3. \A i \in 1..Len(s) : i = 1 \/ (i - 1 \in 1..(Len(s) - 1) /\ (i - 1) + 1 = i)
  BY <1>1
<1>4. 1 \in 1..Len(s)
  BY <1>1
<1>5. Absent(e, s) => Absent(e, Tail(s)) /\ Head(s) # e
  BY <1>1, <1>2, <1>4 DEF Absent
<1>6. Once(e, s) /\ Head(s) = e => Absent(e, Tail(s))
  BY <1>1, <1>2, <1>4 DEF Absent, Once
<1>7. ASSUME Once(e, s), Head(s) # e PROVE Once(e, Tail(s))
  <2>1. PICK i \in 1..Len(s) : s[i] = e /\ \A j \in 1..Len(s) : s[j] = e => j = i
    BY <1>1, <1>7 DEF Once
  <2>2. i - 1 \in DOMAIN Tail(s) /\ Tail(s)[i - 1] = e
    BY <1>1, <1>3, <1>7, <2>1
  <2>3. ASSUME NEW j \in DOMAIN Tail(s), Tail(s)[j] = e PROVE j = i - 1
    <3>1. s[j + 1] = e /\ j + 1 \in 1..Len(s) /\ j \in Int
      BY <1>1, <1>2, <2>3
    <3>2. j + 1 = i
      BY <2>1, <3>1
    <3> QED
      BY <3>1, <3>2
  <2> QED
    BY <2>2, <2>3 DEF Once
<1> QED
  BY <1>5, <1>6, <1>7

(* The last event of a batch is the one after which nothing is left. *)
LEMMA TailType ==
    ASSUME NEW s \in Seq(Events), s # <<>>
    PROVE  /\ Head(s) \in Events /\ Tail(s) \in Seq(Events)
           /\ Tail(s) = <<>> <=> Len(s) = 1
<1>1. Head(s) \in Events /\ Tail(s) \in Seq(Events) /\ Len(s) \in Nat /\ Len(Tail(s)) = Len(s) - 1
  OBVIOUS
<1>2. Tail(s) = <<>> <=> Len(Tail(s)) = 0
  BY <1>1, EmptySeq
<1> QED
  BY <1>1, <1>2

(* An empty sequence has nothing in it. *)
LEMMA EmptyOccurs == \A e : Absent(e, <<>>)
  BY DEF Absent

(* Occurrences counts 0 and 1 where they are meant. *)
LEMMA CountOccurs ==
    ASSUME NEW s, NEW e
    PROVE  /\ Absent(e, s) => Occurrences(e, s) = 0
           /\ Once(e, s) => Occurrences(e, s) = 1
<1>1. ASSUME Absent(e, s) PROVE Occurrences(e, s) = 0
  <2>1. {i \in DOMAIN s : s[i] = e} = {}
    BY <1>1 DEF Absent
  <2> QED
    BY <2>1, FS_EmptySet DEF Occurrences
<1>2. ASSUME Once(e, s) PROVE Occurrences(e, s) = 1
  <2>1. PICK k \in DOMAIN s : s[k] = e /\ \A j \in DOMAIN s : s[j] = e => j = k
    BY <1>2 DEF Once
  <2>2. {i \in DOMAIN s : s[i] = e} = {k}
    BY <2>1
  <2> QED
    BY <2>2, FS_Singleton DEF Occurrences
<1> QED
  BY <1>1, <1>2

-----------------------------------------------------------------------------
(* Every step keeps the buffer, the batches and the goroutines well formed. *)
LEMMA BufferInductive == BufferInv /\ [Next]_vars => BufferInv'
<1> SUFFICES ASSUME BufferInv, [Next]_vars PROVE BufferInv'
  OBVIOUS
<1> USE WorkerAssumption DEF BufferInv, NotStarted, TypeOK, Flushers
<1>1. ASSUME NEW e \in Events, LogEvent(e) PROVE BufferInv'
  <2>1. pc[e] = "off" /\ batch[e] = <<>>
    BY <1>1 DEF LogEvent
  <2>2. buffer' \in Seq(Events) /\ pc'[e] \in {"flush", "done"} /\ batch' = batch
        /\ pc' \in [Flushers -> {"off", "select", "flush", "write", "done"}]
        /\ \A g \in Flushers \ {e} : pc'[g] = pc[g]
    BY <1>1 DEF LogEvent
  <2>3. early' \subseteq logged' /\ logged' \subseteq Events /\ logged \subseteq logged' /\ e \in logged'
    BY <1>1 DEF LogEvent
  <2>4. \A g \in Flushers : batch'[g] # <<>> <=> pc'[g] = "write"
    BY <2>1, <2>2
  <2>5. NotStarted'
    BY <2>2, <2>3
  <2>6. UNCHANGED <<batch, tick, final, closing, exited, written>>
    BY <1>1 DEF LogEvent
  <2> QED
    BY <2>2, <2>3, <2>4, <2>5, <2>6
<1>2. ASSUME NEW g \in Flushers, Flush(g) PROVE BufferInv'
  BY <1>2 DEF Flush, After
<1>3. ASSUME NEW g \in Flushers, WriteEvent(g) PROVE BufferInv'
  <2>1. batch[g] # <<>> /\ batch[g] \in Seq(Events)
    BY <1>3 DEF WriteEvent
  <2>2. /\ Head(batch[g]) \in Events /\ Tail(batch[g]) \in Seq(Events)
        /\ Tail(batch[g]) = <<>> <=> Len(batch[g]) = 1
    BY <2>1, TailType
  <2>3. written' \in Seq(Events)
    BY <1>3, <2>2 DEF WriteEvent
  <2>4. batch' \in [Flushers -> Seq(Events)] /\ batch'[g] = Tail(batch[g])
        /\ \A h \in Flushers \ {g} : batch'[h] = batch[h] /\ pc'[h] = pc[h]
    BY <1>3, <2>2 DEF WriteEvent
  <2>5. pc' \in [Flushers -> {"off", "select", "flush", "write", "done"}]
        /\ pc'[g] = (IF Len(batch[g]) = 1 THEN After(g) ELSE "write")
    BY <1>3 DEF WriteEvent, After
  <2>6. batch'[g] # <<>> <=> pc'[g] = "write"
    BY <2>2, <2>4, <2>5 DEF After
  <2> QED
    BY <1>3, <2>3, <2>4, <2>5, <2>6 DEF WriteEvent
<1>4. CASE Tick
  BY <1>4 DEF Tick
<1>5. CASE WorkerTick \/ WorkerStop
  <2>1. /\ pc[Worker] = "select" /\ pc' = [pc EXCEPT ![Worker] = "flush"]
        /\ tick' \in BOOLEAN /\ final' \in BOOLEAN
        /\ UNCHANGED <<buffer, batch, closing, exited, written, logged, early>>
    BY <1>5 DEF WorkerTick, WorkerStop
  <2> QED
    BY <2>1
<1>7. CASE Close
  BY <1>7 DEF Close
<1>8. CASE Exit
  BY <1>8 DEF Exit
<1>9. CASE UNCHANGED vars
  BY <1>9 DEF vars
<1> QED
  BY <1>1, <1>2, <1>3, <1>4, <1>5, <1>7, <1>8, <1>9 DEF Next, Finished

(* A client that has just been made. *)
LEMMA InitBuffer == Init => BufferInv
<1> SUFFICES ASSUME Init PROVE BufferInv
  OBVIOUS
<1>1. buffer \in Seq(Events) /\ written \in Seq(Events)
  BY DEF Init
<1>2. batch \in [Flushers -> Seq(Events)] /\ \A g \in Flushers : batch[g] = <<>>
  BY DEF Init
<1>3. /\ pc \in [Flushers -> {"off", "select", "flush", "write", "done"}]
      /\ \A g \in Flushers : pc[g] # "write"
      /\ \A e \in Events : pc[e] = "off"
  BY WorkerAssumption DEF Init, Flushers
<1>4. /\ tick \in BOOLEAN /\ final \in BOOLEAN /\ exited \in BOOLEAN
      /\ closing = "no" /\ early = {} /\ logged = {}
  BY DEF Init
<1> QED
  BY <1>1, <1>2, <1>3, <1>4 DEF BufferInv, TypeOK, NotStarted

(* Every step keeps every event in one place. *)
LEMMA PlaceInductive == PlaceInv /\ [Next]_vars => PlaceInv'
<1> SUFFICES ASSUME PlaceInv, [Next]_vars PROVE PlaceInv'
  OBVIOUS
<1>t. BufferInv /\ BufferInv'
  BY BufferInductive DEF PlaceInv
<1>p. OnePlace
  BY DEF PlaceInv
<1>e. SUFFICES OnePlace'
  BY <1>t DEF PlaceInv
<1>y. /\ buffer \in Seq(Events) /\ written \in Seq(Events)
      /\ \A g \in Flushers : batch[g] \in Seq(Events)
      /\ DOMAIN batch = Flushers
      /\ logged \subseteq Events
      /\ \A g \in Flushers : batch[g] # <<>> <=> pc[g] = "write"
  BY <1>t DEF BufferInv, TypeOK
<1>1. ASSUME NEW x \in Events, LogEvent(x) PROVE OnePlace'
  <2>1. /\ buffer' = Append(buffer, x) /\ x \notin logged /\ logged' = logged \union {x}
        /\ UNCHANGED <<batch, written>>
    BY <1>1 DEF LogEvent
  <2>2. Nowhere(x)
    BY <1>p, <2>1 DEF OnePlace
  <2>3. Waiting(x)'
    BY <1>y, <2>1, <2>2, AppendOccurs DEF Nowhere, Waiting
  <2>4. ASSUME NEW e \in Events, e # x
        PROVE  /\ e \notin logged' => Nowhere(e)'
               /\ e \in logged' => Waiting(e)' \/ Written(e)' \/ \E g \in Flushers : HeldBy(e, g)'
    <3>1. /\ Absent(e, buffer) => Absent(e, buffer')
          /\ Once(e, buffer) => Once(e, buffer')
      BY <1>y, <2>1, <2>4, AppendOccurs
    <3>2. e \in logged' <=> e \in logged
      BY <2>1, <2>4
    <3>3. Nowhere(e) => Nowhere(e)'
      BY <2>1, <3>1 DEF Nowhere
    <3>4. Waiting(e) => Waiting(e)'
      BY <2>1, <3>1 DEF Waiting
    <3>5. Written(e) => Written(e)'
      BY <2>1, <3>1 DEF Written
    <3>6. \A g \in Flushers : HeldBy(e, g) => HeldBy(e, g)'
      BY <2>1, <3>1 DEF HeldBy
    <3> QED
      BY <1>p, <3>2, <3>3, <3>4, <3>5, <3>6 DEF OnePlace
  <2> QED
    BY <2>1, <2>3, <2>4 DEF OnePlace
<1>2. ASSUME NEW k \in Flushers, Flush(k) PROVE OnePlace'
  <2>1. /\ buffer' = <<>> /\ batch'[k] = buffer /\ batch[k] = <<>>
        /\ \A h \in Flushers \ {k} : batch'[h] = batch[h]
        /\ UNCHANGED <<written, logged>>
    BY <1>2, <1>y DEF Flush
  <2>2. ASSUME NEW e \in Events
        PROVE  /\ e \notin logged' => Nowhere(e)'
               /\ e \in logged' => Waiting(e)' \/ Written(e)' \/ \E g \in Flushers : HeldBy(e, g)'
    <3>1. Absent(e, buffer') /\ Absent(e, batch[k]) /\ ~Once(e, batch[k])
      BY <2>1, EmptyOccurs DEF Once
    <3>2. Nowhere(e) => Nowhere(e)'
      BY <2>1, <3>1 DEF Nowhere
    <3>3. Waiting(e) => HeldBy(e, k)'
      BY <2>1, <3>1 DEF Waiting, HeldBy
    <3>4. Written(e) => Written(e)'
      BY <2>1, <3>1 DEF Written
    <3>5. \A g \in Flushers : HeldBy(e, g) => HeldBy(e, g)'
      <4> SUFFICES ASSUME NEW g \in Flushers, HeldBy(e, g) PROVE HeldBy(e, g)'
        OBVIOUS
      <4>1. g # k
        BY <3>1 DEF HeldBy
      <4> QED
        BY <2>1, <3>1, <4>1 DEF HeldBy
    <3> QED
      BY <1>p, <2>1, <3>2, <3>3, <3>4, <3>5 DEF OnePlace
  <2> QED
    BY <2>2 DEF OnePlace
<1>3. ASSUME NEW k \in Flushers, WriteEvent(k) PROVE OnePlace'
  <2>0. PICK x : x = Head(batch[k])
    OBVIOUS
  <2>1. batch[k] \in Seq(Events) /\ batch[k] # <<>>
    BY <1>3, <1>y DEF WriteEvent
  <2>2. x \in Events
    BY <2>0, <2>1
  <2>3. /\ written' = Append(written, x) /\ batch'[k] = Tail(batch[k])
        /\ \A h \in Flushers \ {k} : batch'[h] = batch[h]
        /\ UNCHANGED <<buffer, logged>>
    BY <1>3, <1>y, <2>0 DEF WriteEvent
  <2>4. ASSUME NEW e \in Events
        PROVE  /\ e \notin logged' => Nowhere(e)'
               /\ e \in logged' => Waiting(e)' \/ Written(e)' \/ \E g \in Flushers : HeldBy(e, g)'
    <3>1. /\ Absent(e, batch[k]) => Absent(e, batch'[k]) /\ x # e
          /\ Once(e, batch[k]) /\ x # e => Once(e, batch'[k])
          /\ Once(e, batch[k]) /\ x = e => Absent(e, batch'[k])
      BY <2>0, <2>1, <2>3, TailOccurs
    <3>2. /\ e # x /\ Absent(e, written) => Absent(e, written')
          /\ e # x /\ Once(e, written) => Once(e, written')
          /\ e = x /\ Absent(e, written) => Once(e, written')
      BY <1>y, <2>2, <2>3, AppendOccurs
    <3>3. Nowhere(e) => Nowhere(e)'
      BY <2>3, <3>1, <3>2 DEF Nowhere
    <3>4. Waiting(e) => Waiting(e)'
      BY <2>3, <3>1, <3>2 DEF Waiting
    <3>5. Written(e) => Written(e)'
      BY <2>3, <3>1, <3>2 DEF Written
    <3>6. ASSUME NEW g \in Flushers, HeldBy(e, g) PROVE Written(e)' \/ HeldBy(e, g)'
      <4>1. CASE g # k
        BY <2>3, <3>1, <3>2, <3>6, <4>1 DEF HeldBy
      <4>2. CASE g = k /\ x # e
        BY <2>3, <3>1, <3>2, <3>6, <4>2 DEF HeldBy
      <4>3. CASE g = k /\ x = e
        BY <2>3, <3>1, <3>2, <3>6, <4>3 DEF HeldBy, Written
      <4> QED
        BY <4>1, <4>2, <4>3
    <3> QED
      BY <1>p, <2>3, <3>3, <3>4, <3>5, <3>6 DEF OnePlace
  <2> QED
    BY <2>4 DEF OnePlace
<1>4. CASE UNCHANGED <<buffer, batch, written, logged>>
  BY <1>p, <1>4 DEF OnePlace, Nowhere, Waiting, Written, HeldBy
<1> QED
  BY <1>1, <1>2, <1>3, <1>4
     DEF Next, Tick, WorkerTick, WorkerStop, Close, Exit, Finished, vars

(* Every step keeps the final flush last: an event that joins the buffer   *)
(* after the worker saw stopChan closed was logged after Close was called. *)
LEMMA WorkerInductive == WorkerInv /\ [Next]_vars => WorkerInv'
<1> SUFFICES ASSUME WorkerInv, [Next]_vars PROVE WorkerInv'
  OBVIOUS
<1>t. BufferInv /\ BufferInv'
  BY BufferInductive DEF WorkerInv
<1>w. WorkerStage
  BY DEF WorkerInv
<1>e. SUFFICES WorkerStage'
  BY <1>t DEF WorkerInv
<1>y. /\ buffer \in Seq(Events) /\ early \subseteq logged /\ logged \subseteq Events
      /\ DOMAIN pc = Flushers /\ Worker \in Flushers
      /\ closing \in {"no", "closed", "stopped", "returned"}
  BY <1>t DEF BufferInv, TypeOK, Flushers
<1>1. ASSUME NEW x \in Events, LogEvent(x) PROVE WorkerStage'
  <2>1. /\ buffer' = Append(buffer, x) /\ x \notin early /\ pc'[Worker] = pc[Worker]
        /\ UNCHANGED <<final, closing>>
    BY <1>1, <1>y, WorkerAssumption DEF LogEvent
  <2>2. final => early' = early
    BY <1>1, <1>w DEF LogEvent, WorkerStage
  <2>3. \A e \in early : Absent(e, buffer) => Absent(e, buffer')
    BY <1>y, <2>1, AppendOccurs
  <2> QED
    BY <1>w, <2>1, <2>2, <2>3 DEF WorkerStage
<1>2. ASSUME NEW g \in Flushers, Flush(g) PROVE WorkerStage'
  <2>1. buffer' = <<>> /\ UNCHANGED <<final, closing, early>>
    BY <1>2 DEF Flush
  <2>2. pc'[Worker] = pc[Worker] \/ (g = Worker /\ pc'[Worker] \in {After(Worker), "write"})
    BY <1>2, <1>y DEF Flush
  <2>3. \A e \in early : Absent(e, buffer')
    BY <2>1, EmptyOccurs
  <2> QED
    BY <1>w, <2>1, <2>2, <2>3 DEF WorkerStage, After
<1>3. ASSUME NEW g \in Flushers, WriteEvent(g) PROVE WorkerStage'
  <2>1. UNCHANGED <<buffer, final, closing, early>>
    BY <1>3 DEF WriteEvent
  <2>2. \/ pc'[Worker] = pc[Worker]
        \/ pc[Worker] = "write" /\ pc'[Worker] \in {After(Worker), "write"}
    BY <1>3, <1>y DEF WriteEvent
  <2> QED
    BY <1>w, <2>1, <2>2 DEF WorkerStage, After
<1>4. CASE WorkerTick
  BY <1>4, <1>w, <1>y DEF WorkerTick, WorkerStage
<1>5. CASE WorkerStop
  BY <1>5, <1>w, <1>y DEF WorkerStop, WorkerStage
<1>6. CASE Tick \/ Exit \/ UNCHANGED vars
  BY <1>6, <1>w DEF Tick, Exit, vars, WorkerStage
<1>7. CASE Close
  BY <1>7, <1>w DEF Close, WorkerStage
<1> QED
  BY <1>1, <1>2, <1>3, <1>4, <1>5, <1>6, <1>7 DEF Next, Finished

-----------------------------------------------------------------------------
(* Theorems *)

(* However appends, flushes of any number of goroutines, and Close         *)
(* interleave, a logged event is once in the buffer, in one goroutine's    *)
(* batch or in ClickHouse.                                                 *)
THEOREM EventsKeptOnce == Spec => []ExactlyOnce
<1>1. Init => PlaceInv
  <2> SUFFICES ASSUME Init PROVE PlaceInv
    OBVIOUS
  <2>1. \A e \in Events : Nowhere(e) /\ e \notin logged
    BY EmptyOccurs DEF Init, Nowhere
  <2> QED
    BY <2>1, InitBuffer DEF PlaceInv, OnePlace
<1>2. PlaceInv => ExactlyOnce
  <2> SUFFICES ASSUME PlaceInv, NEW e \in logged
               PROVE  LET held == {g \in Flushers : Occurrences(e, batch[g]) > 0} IN
                      /\ \A g \in held : Occurrences(e, batch[g]) = 1
                      /\ Occurrences(e, buffer) + Cardinality(held) + Occurrences(e, written) = 1
    BY DEF ExactlyOnce
  <2> DEFINE held == {g \in Flushers : Occurrences(e, batch[g]) > 0}
  <2>1. e \in Events
    BY DEF PlaceInv, BufferInv, TypeOK
  <2>2. /\ Absent(e, buffer) => Occurrences(e, buffer) = 0
        /\ Once(e, buffer) => Occurrences(e, buffer) = 1
        /\ Absent(e, written) => Occurrences(e, written) = 0
        /\ Once(e, written) => Occurrences(e, written) = 1
    BY CountOccurs
  <2>3. CASE Waiting(e) \/ Written(e)
    <3>a. \A g \in Flushers : Absent(e, batch[g])
      BY <2>3 DEF Waiting, Written
    <3>0. \A g \in Flushers : Occurrences(e, batch[g]) = 0
      BY <3>a, CountOccurs
    <3>1. held = {}
      BY <3>0
    <3>2. Cardinality(held) = 0
      BY <3>1, FS_EmptySet
    <3>3. Occurrences(e, buffer) + Occurrences(e, written) = 1
          /\ Occurrences(e, buffer) \in Nat /\ Occurrences(e, written) \in Nat
      BY <2>2, <2>3 DEF Waiting, Written
    <3> QED
      BY <3>1, <3>2, <3>3
  <2>4. ASSUME NEW k \in Flushers, HeldBy(e, k)
        PROVE  /\ \A g \in held : Occurrences(e, batch[g]) = 1
               /\ Occurrences(e, buffer) + Cardinality(held) + Occurrences(e, written) = 1
    <3>a. Once(e, batch[k]) /\ \A g \in Flushers \ {k} : Absent(e, batch[g])
      BY <2>4 DEF HeldBy
    <3>0. Occurrences(e, batch[k]) = 1 /\ \A g \in Flushers \ {k} : Occurrences(e, batch[g]) = 0
      BY <3>a, CountOccurs
    <3>1. held = {k} /\ Occurrences(e, batch[k]) = 1
      BY <3>0
    <3>2. Cardinality(held) = 1
      BY <3>1, FS_Singleton
    <3>3. Occurrences(e, buffer) = 0 /\ Occurrences(e, written) = 0
      BY <2>2, <2>4 DEF HeldBy
    <3> QED
      BY <3>1, <3>2, <3>3
  <2> QED
    BY <2>1, <2>3, <2>4 DEF PlaceInv, OnePlace
<1> QED
  BY <1>1, <1>2, PlaceInductive, PTL DEF Spec

(* A buffer at its limit always has a goroutine on its way to take it. *)
THEOREM FullBufferIsTaken == Spec => []FullIsBeingFlushed
<1> DEFINE Inv == BufferInv /\ FullIsBeingFlushed
<1>1. Init => Inv
  BY InitBuffer, BufferSizeAssumption DEF Init, FullIsBeingFlushed
<1>2. Inv /\ [Next]_vars => Inv'
  <2> SUFFICES ASSUME Inv, [Next]_vars PROVE FullIsBeingFlushed'
    BY BufferInductive
  <2>y. buffer \in Seq(Events) /\ DOMAIN pc = Flushers /\ Worker \in Flushers
        /\ Events \subseteq Flushers
    BY DEF BufferInv, TypeOK, Flushers
  <2> USE BufferSizeAssumption DEF FullIsBeingFlushed
  <2>1. ASSUME NEW e \in Events, LogEvent(e) PROVE FullIsBeingFlushed'
    BY <2>1, <2>y DEF LogEvent
  <2>2. ASSUME NEW g \in Flushers, Flush(g) PROVE FullIsBeingFlushed'
    BY <2>2 DEF Flush
  <2>3. ASSUME NEW g \in Flushers, WriteEvent(g) PROVE FullIsBeingFlushed'
    BY <2>3, <2>y DEF WriteEvent
  <2>4. CASE WorkerTick \/ WorkerStop
    BY <2>4, <2>y DEF WorkerTick, WorkerStop
  <2>5. CASE Tick \/ Close \/ Exit \/ UNCHANGED vars
    BY <2>5 DEF Tick, Close, Exit, vars
  <2> QED
    BY <2>1, <2>2, <2>3, <2>4, <2>5 DEF Next, Finished
<1>3. Inv => FullIsBeingFlushed
  OBVIOUS
<1> QED
  BY <1>1, <1>2, <1>3, PTL DEF Spec

(* What the worker leaves in the buffer when it returns was logged after   *)
(* Close was called.                                                       *)
THEOREM LeftoversAreLate == Spec => []LeftoverIsLate
<1>1. Init => WorkerInv
  BY InitBuffer, WorkerAssumption DEF Init, WorkerInv, WorkerStage, Flushers
<1>2. WorkerInv => LeftoverIsLate
  BY CountOccurs DEF WorkerInv, WorkerStage, LeftoverIsLate
<1> QED
  BY <1>1, <1>2, WorkerInductive, PTL DEF Spec
=============================================================================
