------------------------------- MODULE Dedup -------------------------------
(***************************************************************************)
(* Deduplication (internal/dedup/dedup.go): Check looks the hash of a body *)
(* up in Redis and stores it when it is not there, as two commands; other  *)
(* checks, the expiry of the key, Delete and the end of the process may    *)
(* come between them.                                                      *)
(*                                                                         *)
(* SHA-256 is taken to be injective: a body stands for its hash and its    *)
(* key.  Redis is external.  A command that fails may have been executed.  *)
(* A message may be checked again, by a caller that starts over.           *)
(***************************************************************************)
EXTENDS Naturals, FiniteSets

CONSTANTS
    Msgs,         \* message IDs
    Bodies,       \* message bodies
    BodyOf,       \* BodyOf[m]: the body of message m
    Callers,      \* goroutines that call Check
    None,         \* redis.Nil, or no message
    MaxFailures,  \* bound: Redis commands that fail
    MaxLapses,    \* bound: keys that expire or are deleted
    MaxCrashes    \* bound: ends of the process

ASSUME BodyOfAssumption == BodyOf \in [Msgs -> Bodies]
ASSUME NoneAssumption == None \notin Msgs
ASSUME CallersAssumption == IsFiniteSet(Callers)
ASSUME DedupBoundsAssumption == {MaxFailures, MaxLapses, MaxCrashes} \subseteq Nat

VARIABLES
    enabled,      \* d.enabled
    stored,       \* stored[b]: the message ID under the key of body b
    pc,           \* pc[c]: idle, get, set, unique or duplicate (about to return that)
    msg,          \* msg[c]: the message caller c checks
    found,        \* found[c]: the reply of GET
    failures, lapses, crashes,
    unique,       \* ghost: messages judged unique
    abandoned,    \* ghost: messages whose check the process did not live to finish
    claims        \* claims[b], ghost: SETs confirmed since the key was last absent for good

redis == <<stored, failures, lapses>>
ghosts == <<unique, abandoned, claims>>
vars == <<enabled, redis, pc, msg, found, crashes, ghosts>>

(* One type invariant. *)
TypeOK ==
    /\ enabled \in BOOLEAN
    /\ stored \in [Bodies -> Msgs \union {None}]
    /\ pc \in [Callers -> {"idle", "get", "set", "unique", "duplicate"}]
    /\ msg \in [Callers -> Msgs \union {None}]
    /\ found \in [Callers -> Msgs \union {None}]
    /\ failures \in 0..MaxFailures /\ lapses \in 0..MaxLapses /\ crashes \in 0..MaxCrashes
    /\ unique \subseteq Msgs /\ abandoned \subseteq Msgs
    /\ claims \in [Bodies -> Nat]
    \* an original is at hand exactly when a duplicate is reported
    /\ \A c \in Callers : /\ msg[c] = None <=> pc[c] = "idle"
                          /\ found[c] # None <=> pc[c] = "duplicate"

-----------------------------------------------------------------------------
(* Check *)

Goto(c, l) == pc' = [pc EXCEPT ![c] = l]

Begin(c, m) ==
    /\ pc[c] = "idle"
    /\ msg' = [msg EXCEPT ![c] = m]
    /\ Goto(c, IF enabled THEN "get" ELSE "unique")
    /\ UNCHANGED <<enabled, redis, found, crashes, ghosts>>

(* GET.  A message is not held up by an error: it counts as unique. *)
Get(c) ==
    /\ pc[c] = "get"
    /\ \/ /\ found' = [found EXCEPT ![c] = stored[BodyOf[msg[c]]]]
          /\ Goto(c, IF found'[c] = None THEN "set" ELSE "duplicate")
          /\ UNCHANGED failures
       \/ /\ failures < MaxFailures
          /\ failures' = failures + 1
          /\ Goto(c, "unique")
          /\ UNCHANGED found
    /\ UNCHANGED <<enabled, stored, lapses, msg, crashes, ghosts>>

(* A mistake: the hash is not stored. *)
MutSetForgotten(c) ==
    /\ pc[c] = "set"
    /\ claims' = [claims EXCEPT ![BodyOf[msg[c]]] = @ + 1]
    /\ Goto(c, "unique")
    /\ UNCHANGED <<enabled, redis, msg, found, crashes, unique, abandoned>>

(* A mistake: every message is stored under the key of some other body. *)
MutSetWrongKey(c) ==
    /\ pc[c] = "set"
    /\ \E b \in Bodies : stored' = [stored EXCEPT ![b] = msg[c]]
    /\ claims' = [claims EXCEPT ![BodyOf[msg[c]]] = @ + 1]
    /\ Goto(c, "unique")
    /\ UNCHANGED <<enabled, failures, lapses, msg, found, crashes, unique, abandoned>>

(* SET with the window, whatever the key holds by now.  After an error the *)
(* message counts as unique all the same.                                  *)
Set(c) ==
    LET b == BodyOf[msg[c]]
        Executed == stored' = [stored EXCEPT ![b] = msg[c]]
    IN
    /\ pc[c] = "set"
    /\ \/ /\ Executed
          /\ claims' = [claims EXCEPT ![b] = @ + 1]
          /\ UNCHANGED failures
       \/ /\ failures < MaxFailures
          /\ failures' = failures + 1
          /\ Executed \/ UNCHANGED stored
          /\ UNCHANGED claims
    /\ Goto(c, "unique")
    /\ UNCHANGED <<enabled, lapses, msg, found, crashes, unique, abandoned>>

Return(c) ==
    /\ pc[c] \in {"unique", "duplicate"}
    /\ unique' = IF pc[c] = "unique" THEN unique \union {msg[c]} ELSE unique
    /\ Goto(c, "idle")
    /\ msg' = [msg EXCEPT ![c] = None]
    /\ found' = [found EXCEPT ![c] = None]
    /\ UNCHANGED <<enabled, redis, crashes, abandoned, claims>>

-----------------------------------------------------------------------------
(* A key goes away: its window is over, or Delete is called for its hash. *)
Lapse(b) ==
    /\ stored[b] # None
    /\ lapses < MaxLapses
    /\ lapses' = lapses + 1
    /\ stored' = [stored EXCEPT ![b] = None]
    /\ claims' = [claims EXCEPT ![b] = 0]
    /\ UNCHANGED <<enabled, pc, msg, found, failures, crashes, unique, abandoned>>

Expire(b) == Lapse(b)

(* A DEL that fails without being executed changes nothing; one that fails *)
(* after it was executed is a Lapse too.                                   *)
Delete(b) == enabled /\ Lapse(b)

(* The process ends; Redis does not. *)
Crash ==
    /\ crashes < MaxCrashes
    /\ crashes' = crashes + 1
    /\ abandoned' = abandoned \union {msg[c] : c \in {d \in Callers : pc[d] # "idle"}}
    /\ pc' = [c \in Callers |-> "idle"]
    /\ msg' = [c \in Callers |-> None]
    /\ found' = [c \in Callers |-> None]
    /\ UNCHANGED <<enabled, redis, unique, claims>>

Init ==
    /\ enabled \in BOOLEAN
    /\ stored = [b \in Bodies |-> None]
    /\ pc = [c \in Callers |-> "idle"]
    /\ msg = [c \in Callers |-> None]
    /\ found = [c \in Callers |-> None]
    /\ failures = 0 /\ lapses = 0 /\ crashes = 0
    /\ unique = {} /\ abandoned = {}
    /\ claims = [b \in Bodies |-> 0]

Next ==
    \/ \E c \in Callers, m \in Msgs : Begin(c, m)
    \/ \E c \in Callers : Get(c) \/ Set(c) \/ Return(c)
    \/ \E b \in Bodies : Expire(b) \/ Delete(b)
    \/ Crash

Spec == Init /\ [][Next]_vars

-----------------------------------------------------------------------------
(* Properties *)

(* A message is dropped as a duplicate only in favour of one with the same *)
(* body that itself got through: it was judged unique, is about to be, or  *)
(* its check was cut off by the end of the process.  The last case is a    *)
(* real loss: when the caller starts over with that message, Check reports *)
(* it as a duplicate of itself.                                            *)
DuplicateHasOriginal ==
    \A c \in Callers :
        pc[c] = "duplicate" =>
            /\ BodyOf[found[c]] = BodyOf[msg[c]]
            /\ \/ found[c] \in unique \union abandoned
               \/ \E d \in Callers : msg[d] = found[c] /\ pc[d] = "unique"

(* Of the copies of a body that come within one window, as many get        *)
(* through as there are callers between their GET and their SET when the   *)
(* first is stored, besides those that get through for a Redis error.      *)
UniqueBounded ==
    \A b \in Bodies :
        claims[b] + Cardinality({c \in Callers : pc[c] = "set" /\ BodyOf[msg[c]] = b})
            <= Cardinality(Callers)
=============================================================================
