------------------------------ MODULE EventLog ------------------------------
(***************************************************************************)
(* The buffered event log (internal/clickhouse/client.go): producers       *)
(* append to a buffer, a goroutine started by every append that finds the  *)
(* buffer full and the flush worker at every tick take the buffer and      *)
(* write its events, and Close stops the worker.                           *)
(*                                                                         *)
(* The mutex is held for a whole append and for taking the buffer, so      *)
(* these are single steps; writing the events is outside of it, one step   *)
(* per event.  The goroutine that LogEvent(e) starts is named e.           *)
(***************************************************************************)
EXTENDS Naturals, Sequences, FiniteSets

CONSTANTS
    Events,       \* events, each logged once
    BufferSize,   \* config.BufferSize
    Worker        \* the flush worker's goroutine

ASSUME BufferSizeAssumption == BufferSize \in Nat \ {0}
ASSUME WorkerAssumption == Worker \notin Events

Flushers == Events \union {Worker}

VARIABLES
    buffer,     \* c.buffer
    batch,      \* batch[g]: what goroutine g has taken and not yet written
    pc,         \* pc[g]: off, select (the worker only), flush, write, done
    tick,       \* a tick waits in flushTimer.C, whose capacity is 1
    final,      \* the worker has seen stopChan closed
    closing,    \* how far Close is: no, closed (stopChan), stopped (the ticker), returned
    exited,     \* the process is gone
    written,    \* the events that reached ClickHouse, in order
    logged,     \* ghost: events passed to LogEvent
    early       \* ghost: those passed to it before Close was called

vars == <<buffer, batch, pc, tick, final, closing, exited, written, logged, early>>

(* One type invariant. *)
TypeOK ==
    /\ buffer \in Seq(Events) /\ written \in Seq(Events)
    /\ batch \in [Flushers -> Seq(Events)]
    /\ pc \in [Flushers -> {"off", "select", "flush", "write", "done"}]
    /\ tick \in BOOLEAN /\ final \in BOOLEAN /\ exited \in BOOLEAN
    /\ closing \in {"no", "closed", "stopped", "returned"}
    /\ early \subseteq logged /\ logged \subseteq Events
    \* a goroutine holds events exactly while it writes them
    /\ \A g \in Flushers : batch[g] # <<>> <=> pc[g] = "write"

-----------------------------------------------------------------------------
(* A mistake: the flush is started one event late. *)
MutLogEventOffByOne(e) ==
    /\ ~exited
    /\ e \notin logged
    /\ buffer' = Append(buffer, e)
    /\ pc' = [pc EXCEPT ![e] = IF Len(buffer') > BufferSize THEN "flush" ELSE "done"]
    /\ logged' = logged \union {e}
    /\ early' = IF closing = "no" THEN early \union {e} ELSE early
    /\ UNCHANGED <<batch, tick, final, closing, exited, written>>

(* The client does not refuse events after Close. *)
LogEvent(e) ==
    /\ ~exited
    /\ e \notin logged
    /\ buffer' = Append(buffer, e)
    /\ pc' = [pc EXCEPT ![e] = IF Len(buffer') >= BufferSize THEN "flush" ELSE "done"]
    /\ logged' = logged \union {e}
    /\ early' = IF closing = "no" THEN early \union {e} ELSE early
    /\ UNCHANGED <<batch, tick, final, closing, exited, written>>

(* Where goroutine g goes after a flush: the worker returns to its select  *)
(* unless it has seen stopChan closed.                                     *)
After(g) == IF g = Worker /\ ~final THEN "select" ELSE "done"

(* A mistake: the buffer is copied and not reset. *)
MutFlushKeepsBuffer(g) ==
    /\ ~exited
    /\ pc[g] = "flush"
    /\ batch' = [batch EXCEPT ![g] = buffer]
    /\ pc' = [pc EXCEPT ![g] = IF buffer = <<>> THEN After(g) ELSE "write"]
    /\ UNCHANGED <<buffer, tick, final, closing, exited, written, logged, early>>

(* flush: take the whole buffer, or return when nothing is in it. *)
Flush(g) ==
    /\ ~exited
    /\ pc[g] = "flush"
    /\ batch' = [batch EXCEPT ![g] = buffer]
    /\ pc' = [pc EXCEPT ![g] = IF buffer = <<>> THEN After(g) ELSE "write"]
    /\ buffer' = <<>>
    /\ UNCHANGED <<tick, final, closing, exited, written, logged, early>>

(* The rest of flush: one round of its loop over the events. *)
WriteEvent(g) ==
    /\ ~exited
    /\ pc[g] = "write"
    /\ written' = Append(written, Head(batch[g]))
    /\ batch' = [batch EXCEPT ![g] = Tail(batch[g])]
    /\ pc' = [pc EXCEPT ![g] = IF Len(batch[g]) = 1 THEN After(g) ELSE "write"]
    /\ UNCHANGED <<buffer, tick, final, closing, exited, logged, early>>

-----------------------------------------------------------------------------
(* flushWorker *)

(* The ticker fires; a tick nobody has taken yet is not doubled. *)
Tick ==
    /\ ~exited
    /\ closing \in {"no", "closed"}
    /\ ~tick
    /\ tick' = TRUE
    /\ UNCHANGED <<buffer, batch, pc, final, closing, exited, written, logged, early>>

WorkerTick ==
    /\ ~exited
    /\ pc[Worker] = "select" /\ tick
    /\ tick' = FALSE
    /\ pc' = [pc EXCEPT ![Worker] = "flush"]
    /\ UNCHANGED <<buffer, batch, final, closing, exited, written, logged, early>>

(* A mistake: the worker returns without the final flush. *)
MutWorkerJustReturns ==
    /\ ~exited
    /\ pc[Worker] = "select" /\ closing # "no"
    /\ final' = TRUE
    /\ pc' = [pc EXCEPT ![Worker] = "done"]
    /\ UNCHANGED <<buffer, batch, tick, closing, exited, written, logged, early>>

(* A mistake: the worker looks at stopChan only when the ticker fires,     *)
(* which Close stops.                                                      *)
MutWorkerStopOnTick ==
    /\ ~exited
    /\ pc[Worker] = "select" /\ closing # "no" /\ tick
    /\ tick' = FALSE
    /\ final' = TRUE
    /\ pc' = [pc EXCEPT ![Worker] = "flush"]
    /\ UNCHANGED <<buffer, batch, closing, exited, written, logged, early>>

(* stopChan is closed: the final flush, after which the worker returns. *)
WorkerStop ==
    /\ ~exited
    /\ pc[Worker] = "select" /\ closing # "no"
    /\ final' = TRUE
    /\ pc' = [pc EXCEPT ![Worker] = "flush"]
    /\ UNCHANGED <<buffer, batch, tick, closing, exited, written, logged, early>>

-----------------------------------------------------------------------------
(* Close closes stopChan, stops the ticker, sleeps and returns.  The sleep *)
(* waits for nobody: it may end before the final flush does.               *)
Close ==
    /\ ~exited
    /\ \/ closing = "no" /\ closing' = "closed"
       \/ closing = "closed" /\ closing' = "stopped"
       \/ closing = "stopped" /\ closing' = "returned"
    /\ UNCHANGED <<buffer, batch, pc, tick, final, exited, written, logged, early>>

(* The process ends, after Close or without it. *)
Exit ==
    /\ ~exited
    /\ exited' = TRUE
    /\ UNCHANGED <<buffer, batch, pc, tick, final, closing, written, logged, early>>

(* Nothing is left to do. *)
Finished == exited /\ UNCHANGED vars

Init ==
    /\ buffer = <<>> /\ written = <<>>
    /\ batch = [g \in Flushers |-> <<>>]
    /\ pc = [g \in Flushers |-> IF g = Worker THEN "select" ELSE "off"]
    /\ tick = FALSE /\ final = FALSE /\ exited = FALSE
    /\ closing = "no"
    /\ logged = {} /\ early = {}

Next ==
    \/ \E e \in Events : LogEvent(e)
    \/ \E g \in Flushers : Flush(g) \/ WriteEvent(g)
    \/ Tick \/ WorkerTick \/ WorkerStop
    \/ Close
    \/ Exit
    \/ Finished

(* Goroutines that can run do run, the ticker ticks, and a Close that has  *)
(* begun goes on.  Nobody has to log, to close or to exit.                 *)
Fairness ==
    /\ \A g \in Flushers : WF_vars(Flush(g)) /\ WF_vars(WriteEvent(g))
    /\ WF_vars(Tick) /\ WF_vars(WorkerTick \/ WorkerStop)
    /\ WF_vars(closing # "no" /\ Close)

Spec == Init /\ [][Next]_vars /\ Fairness

-----------------------------------------------------------------------------
(* Properties *)

(* How often e is among the events of sequence s. *)
Occurrences(e, s) == Cardinality({i \in DOMAIN s : s[i] = e})

(* However appends, concurrent flushes and Close interleave, no event is   *)
(* lost in memory and none is written twice: every event ever logged is    *)
(* once in the buffer, in the batch of one goroutine, or in ClickHouse.    *)
ExactlyOnce ==
    \A e \in logged :
        LET held == {g \in Flushers : Occurrences(e, batch[g]) > 0} IN
        /\ \A g \in held : Occurrences(e, batch[g]) = 1
        /\ Occurrences(e, buffer) + Cardinality(held) + Occurrences(e, written) = 1

(* The buffer exceeds BufferSize only while a goroutine that will take all *)
(* of it has been started: producers never wait, and the buffer grows by   *)
(* what they add until the scheduler runs that goroutine.                  *)
FullIsBeingFlushed ==
    Len(buffer) >= BufferSize => \E g \in Flushers : pc[g] = "flush"

(* When the worker has returned, an event that still waits in the buffer   *)
(* was logged after Close was called.                                      *)
LeftoverIsLate ==
    pc[Worker] = "done" => \A e \in early : Occurrences(e, buffer) = 0

(* Every event logged before Close is written, unless the process ends.    *)
EarlyIsWritten ==
    \A e \in Events : e \in early ~> (Occurrences(e, written) = 1 \/ exited)
=============================================================================
