---------------------------- MODULE AtomicSpool ----------------------------
(***************************************************************************)
(* What the spool promises ("8-stage atomic file-based message spooling"   *)
(* in the README): a message is in one stage at a time; it appears in      *)
(* incoming in one step, goes from stage to stage in one step, and leaves  *)
(* the spool in one step.  It does not come back, but for one case: a Move *)
(* to another device copies the file, and while it has the file open for   *)
(* that, a message that leaves the spool may still arrive at the other end.*)
(***************************************************************************)
CONSTANTS
    Msgs,       \* message ids
    Visible,    \* the stages other components look into
    Route,      \* the <<from, to>> pairs of the pipeline
    Copied      \* those of them that lead to another device

VARIABLES
    place,      \* place[m]: "nowhere", the stage m is in, or "gone"
    copying     \* copying[m]: the stage m is open to be copied to, or none

vars == <<place, copying>>

Init ==
    /\ place = [m \in Msgs |-> "nowhere"]
    /\ copying = [m \in Msgs |-> {}]

Accept(m) ==
    /\ place[m] = "nowhere"
    /\ place' = [place EXCEPT ![m] = "incoming"]
    /\ UNCHANGED copying

Advance(m, to) ==
    /\ <<place[m], to>> \in Route
    /\ place' = [place EXCEPT ![m] = to]
    /\ UNCHANGED copying

(* Cleanup and Delete *)
Drop(m) ==
    /\ place[m] \in Visible
    /\ place' = [place EXCEPT ![m] = "gone"]
    /\ UNCHANGED copying

Open(m, to) ==
    /\ <<place[m], to>> \in Copied
    /\ copying[m] = {}
    /\ copying' = [copying EXCEPT ![m] = {to}]
    /\ UNCHANGED place

(* The copy is begun or given up; only one that is begun brings a message  *)
(* back that is gone by now.                                               *)
Close(m, to) ==
    /\ to \in copying[m]
    /\ copying' = [copying EXCEPT ![m] = {}]
    /\ \/ UNCHANGED place
       \/ place[m] = "gone" /\ place' = [place EXCEPT ![m] = to]

(* The process dies. *)
Abandon == copying' = [m \in Msgs |-> {}] /\ UNCHANGED place

Next ==
    \/ \E m \in Msgs :
          \/ Accept(m)
          \/ \E to \in Visible : Advance(m, to) \/ Open(m, to) \/ Close(m, to)
          \/ Drop(m)
    \/ Abandon

Spec == Init /\ [][Next]_vars
=============================================================================
