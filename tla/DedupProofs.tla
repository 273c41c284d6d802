---------------------------- MODULE DedupProofs ----------------------------
(***************************************************************************)
(* Proofs about module Dedup, for any messages and bodies, any finite set  *)
(* of callers and any number of failures, lapses and crashes.              *)
(***************************************************************************)
EXTENDS Dedup, FiniteSetTheorems, TLAPS

USE DEF redis, ghosts, Goto

(* Callers between the GET that found nothing for body b and their SET. *)
Setting(b) == {c \in Callers : pc[c] = "set" /\ BodyOf[msg[c]] = b}

(* Message m got through, is about to, or was being checked at a crash. *)
GotThrough(m) ==
    \/ m \in unique \union abandoned
    \/ \E d \in Callers : msg[d] = m /\ pc[d] = "unique"

(* What is stored under a key is a message with that body that got through. *)
StoredHasOriginal ==
    \A b \in Bodies : stored[b] # None => BodyOf[stored[b]] = b /\ GotThrough(stored[b])

(* A key that was set since it was last absent is there. *)
ClaimedIsStored == \A b \in Bodies : claims[b] > 0 => stored[b] # None

OriginalInv == TypeOK /\ StoredHasOriginal /\ DuplicateHasOriginal
ClaimsInv == TypeOK /\ ClaimedIsStored /\ UniqueBounded

-----------------------------------------------------------------------------
(* The state of Redis and of the callers stays well formed. *)
LEMMA TypeInductive == TypeOK /\ [Next]_vars => TypeOK'
<1> SUFFICES ASSUME TypeOK, [Next]_vars PROVE TypeOK'
  OBVIOUS
<1> USE NoneAssumption, BodyOfAssumption, DedupBoundsAssumption DEF TypeOK
<1>1. ASSUME NEW c \in Callers, NEW m \in Msgs, Begin(c, m) PROVE TypeOK'
  BY <1>1 DEF Begin
<1>2. ASSUME NEW c \in Callers, Get(c) PROVE TypeOK'
  <2>1. msg[c] \in Msgs /\ BodyOf[msg[c]] \in Bodies
    BY <1>2 DEF Get
  <2>2. CASE UNCHANGED failures
    BY <1>2, <2>1, <2>2 DEF Get
  <2>3. CASE failures' = failures + 1 /\ failures < MaxFailures
    BY <1>2, <2>1, <2>3 DEF Get
  <2> QED
    BY <1>2, <2>2, <2>3 DEF Get
<1>3. ASSUME NEW c \in Callers, Set(c) PROVE TypeOK'
  <2>1. msg[c] \in Msgs /\ BodyOf[msg[c]] \in Bodies
    BY <1>3 DEF Set
  <2> QED
    BY <1>3, <2>1 DEF Set
<1>4. ASSUME NEW c \in Callers, Return(c) PROVE TypeOK'
  BY <1>4 DEF Return
<1>5. ASSUME NEW b \in Bodies, Lapse(b) PROVE TypeOK'
  BY <1>5 DEF Lapse
<1>6. CASE Crash
  BY <1>6 DEF Crash
<1>7. CASE UNCHANGED vars
  BY <1>7 DEF vars
<1> QED
  BY <1>1, <1>2, <1>3, <1>4, <1>5, <1>6, <1>7 DEF Next, Expire, Delete

(* A message that got through has done so for good: Return and Crash, the  *)
(* two ways to leave "unique", both leave a trace of it.                   *)
LEMMA GotThroughKept ==
    ASSUME TypeOK, [Next]_vars, NEW m \in Msgs, GotThrough(m)
    PROVE  GotThrough(m)'
<1> USE NoneAssumption DEF TypeOK, GotThrough
<1>1. ASSUME NEW c \in Callers, NEW n \in Msgs, Begin(c, n) PROVE GotThrough(m)'
  BY <1>1 DEF Begin
<1>2. ASSUME NEW c \in Callers, Get(c) \/ Set(c) PROVE GotThrough(m)'
  BY <1>2 DEF Get, Set
<1>3. ASSUME NEW c \in Callers, Return(c) PROVE GotThrough(m)'
  BY <1>3 DEF Return
<1>4. ASSUME NEW b \in Bodies, Lapse(b) PROVE GotThrough(m)'
  BY <1>4 DEF Lapse
<1>5. CASE Crash
  BY <1>5 DEF Crash
<1>6. CASE UNCHANGED vars
  BY <1>6 DEF vars
<1> QED
  BY <1>1, <1>2, <1>3, <1>4, <1>5, <1>6 DEF Next, Expire, Delete

(* Every step keeps what is stored, and what a duplicate was found to be a *)
(* copy of, backed by a message that got through.                          *)
LEMMA OriginalInductive == OriginalInv /\ [Next]_vars => OriginalInv'
<1> SUFFICES ASSUME OriginalInv, [Next]_vars PROVE OriginalInv'
  OBVIOUS
<1> USE NoneAssumption, BodyOfAssumption
<1>t. TypeOK /\ TypeOK'
  BY TypeInductive DEF OriginalInv
<1> DEFINE Through(m) == \/ m \in unique' \union abandoned'
                         \/ \E d \in Callers : msg'[d] = m /\ pc'[d] = "unique"
<1>k. \A m \in Msgs : GotThrough(m) => Through(m)
  BY <1>t, GotThroughKept DEF GotThrough
<1>s. \A b \in Bodies : stored[b] # None => BodyOf[stored[b]] = b /\ GotThrough(stored[b])
  BY DEF OriginalInv, StoredHasOriginal
<1>d. \A c \in Callers : pc[c] = "duplicate" =>
          BodyOf[found[c]] = BodyOf[msg[c]] /\ GotThrough(found[c])
  BY DEF OriginalInv, DuplicateHasOriginal, GotThrough
<1> DEFINE Backed == \A b \in Bodies : stored'[b] # None =>
                         BodyOf[stored'[b]] = b /\ Through(stored'[b])
           Copies == \A c \in Callers : pc'[c] = "duplicate" =>
                         BodyOf[found'[c]] = BodyOf[msg'[c]] /\ Through(found'[c])
<1>e. SUFFICES Backed /\ Copies
  BY <1>t DEF OriginalInv, StoredHasOriginal, DuplicateHasOriginal, GotThrough
<1> HIDE DEF Through
<1> USE DEF TypeOK
<1>0. ASSUME NEW b \in Bodies, stored'[b] = stored[b]
      PROVE  stored'[b] # None => BodyOf[stored'[b]] = b /\ Through(stored'[b])
  BY <1>0, <1>t, <1>s, <1>k
<1>1. ASSUME NEW c \in Callers, found'[c] = found[c], msg'[c] = msg[c], pc[c] = "duplicate"
      PROVE  BodyOf[found'[c]] = BodyOf[msg'[c]] /\ Through(found'[c])
  BY <1>1, <1>t, <1>d, <1>k
<1>2. ASSUME NEW c \in Callers, NEW m \in Msgs, Begin(c, m) PROVE Backed /\ Copies
  <2>1. \A b \in Bodies : stored'[b] = stored[b]
    BY <1>2 DEF Begin
  <2>2. \A d \in Callers : pc'[d] = "duplicate" =>
            found'[d] = found[d] /\ msg'[d] = msg[d] /\ pc[d] = "duplicate"
    BY <1>2, <1>t DEF Begin
  <2> QED
    BY <2>1, <2>2, <1>0, <1>1
<1>3. ASSUME NEW c \in Callers, Get(c) PROVE Backed /\ Copies
  <2>1. \A b \in Bodies : stored'[b] = stored[b]
    BY <1>3 DEF Get
  <2>2. \A d \in Callers \ {c} : found'[d] = found[d] /\ msg'[d] = msg[d] /\ pc'[d] = pc[d]
    BY <1>3, <1>t DEF Get
  <2>3. msg[c] \in Msgs /\ BodyOf[msg[c]] \in Bodies
    BY <1>3, <1>t DEF Get
  <2>4. ASSUME pc'[c] = "duplicate"
        PROVE  BodyOf[found'[c]] = BodyOf[msg'[c]] /\ Through(found'[c])
    <3>1. found'[c] = stored[BodyOf[msg[c]]] /\ found'[c] # None /\ msg'[c] = msg[c]
      BY <1>3, <1>t, <2>3, <2>4 DEF Get
    <3>2. BodyOf[found'[c]] = BodyOf[msg[c]] /\ GotThrough(found'[c]) /\ found'[c] \in Msgs
      BY <3>1, <1>t, <1>s, <2>3
    <3> QED
      BY <3>1, <3>2, <1>k
  <2> QED
    BY <2>1, <2>2, <2>4, <1>0, <1>1
<1>4. ASSUME NEW c \in Callers, Set(c) PROVE Backed /\ Copies
  <2>1. msg[c] \in Msgs /\ BodyOf[msg[c]] \in Bodies
    BY <1>4, <1>t DEF Set
  <2>2. msg'[c] = msg[c] /\ pc'[c] = "unique"
    BY <1>4, <1>t DEF Set
  <2>3. Through(msg[c])
    BY <2>2 DEF Through
  <2>4. \A b \in Bodies : stored'[b] = stored[b] \/ (b = BodyOf[msg[c]] /\ stored'[b] = msg[c])
    BY <1>4, <1>t, <2>1 DEF Set
  <2>7. \A d \in Callers : pc'[d] = "duplicate" =>
            found'[d] = found[d] /\ msg'[d] = msg[d] /\ pc[d] = "duplicate"
    BY <1>4, <1>t DEF Set
  <2> QED
    BY <2>1, <2>3, <2>4, <2>7, <1>0, <1>1
<1>5. ASSUME NEW c \in Callers, Return(c) PROVE Backed /\ Copies
  <2>1. \A b \in Bodies : stored'[b] = stored[b]
    BY <1>5 DEF Return
  <2>2. \A d \in Callers : pc'[d] = "duplicate" =>
            found'[d] = found[d] /\ msg'[d] = msg[d] /\ pc[d] = "duplicate"
    BY <1>5, <1>t DEF Return
  <2> QED
    BY <2>1, <2>2, <1>0, <1>1
<1>6. ASSUME NEW b \in Bodies, Lapse(b) PROVE Backed /\ Copies
  <2>1. \A a \in Bodies : stored'[a] = stored[a] \/ stored'[a] = None
    BY <1>6, <1>t DEF Lapse
  <2>2. \A d \in Callers : found'[d] = found[d] /\ msg'[d] = msg[d] /\ pc'[d] = pc[d]
    BY <1>6 DEF Lapse
  <2> QED
    BY <2>1, <2>2, <1>0, <1>1
<1>7. CASE Crash
  <2>1. \A b \in Bodies : stored'[b] = stored[b]
    BY <1>7 DEF Crash
  <2>2. \A d \in Callers : pc'[d] # "duplicate"
    BY <1>7 DEF Crash
  <2> QED
    BY <2>1, <2>2, <1>0
<1>8. CASE UNCHANGED vars
  <2>1. \A b \in Bodies : stored'[b] = stored[b]
    BY <1>8 DEF vars
  <2>2. \A d \in Callers : found'[d] = found[d] /\ msg'[d] = msg[d] /\ pc'[d] = pc[d]
    BY <1>8 DEF vars
  <2> QED
    BY <2>1, <2>2, <1>0, <1>1
<1> QED
  BY <1>2, <1>3, <1>4, <1>5, <1>6, <1>7, <1>8 DEF Next, Expire, Delete

-----------------------------------------------------------------------------
(* The callers between GET and SET are no more than the callers. *)
LEMMA SettingBounded ==
    ASSUME NEW b
    PROVE  /\ IsFiniteSet(Setting(b))
           /\ Cardinality(Setting(b)) \in Nat /\ Cardinality(Callers) \in Nat
           /\ Cardinality(Setting(b)) <= Cardinality(Callers)
<1>1. Setting(b) \in SUBSET Callers
  BY DEF Setting
<1>2. IsFiniteSet(Setting(b)) /\ Cardinality(Setting(b)) <= Cardinality(Callers)
  BY <1>1, CallersAssumption, FS_Subset
<1> QED
  BY <1>2, CallersAssumption, FS_CardinalityType

(* Every step keeps the number of copies that get through bounded: while a *)
(* key is stored no caller joins those about to set it, and each of them   *)
(* adds one claim as it leaves.                                            *)
LEMMA ClaimsInductive == ClaimsInv /\ [Next]_vars => ClaimsInv'
<1> SUFFICES ASSUME ClaimsInv, [Next]_vars PROVE ClaimsInv'
  OBVIOUS
<1> USE NoneAssumption, BodyOfAssumption
<1>t. TypeOK /\ TypeOK'
  BY TypeInductive DEF ClaimsInv
<1>c. \A b \in Bodies : claims[b] \in Nat /\ (claims[b] > 0 => stored[b] # None)
  BY <1>t DEF ClaimsInv, ClaimedIsStored, TypeOK
<1>u. \A b \in Bodies : claims[b] + Cardinality(Setting(b)) <= Cardinality(Callers)
  BY DEF ClaimsInv, UniqueBounded, Setting
<1>f. \A b : /\ IsFiniteSet(Setting(b))
             /\ Cardinality(Setting(b)) \in Nat /\ Cardinality(Callers) \in Nat
             /\ Cardinality(Setting(b)) <= Cardinality(Callers)
  BY SettingBounded
<1>g. \A b : /\ IsFiniteSet(Setting(b)')
             /\ Cardinality(Setting(b)') \in Nat
             /\ Cardinality(Setting(b)') <= Cardinality(Callers)
  <2> SUFFICES ASSUME NEW b
               PROVE  /\ IsFiniteSet(Setting(b)')
                      /\ Cardinality(Setting(b)') \in Nat
                      /\ Cardinality(Setting(b)') <= Cardinality(Callers)
    OBVIOUS
  <2>1. Setting(b)' \in SUBSET Callers
    BY DEF Setting
  <2> QED
    BY <2>1, CallersAssumption, FS_Subset, FS_CardinalityType
<1> DEFINE Stored == \A b \in Bodies : claims'[b] > 0 => stored'[b] # None
           Bounded == \A b \in Bodies :
                          claims'[b] + Cardinality(Setting(b)') <= Cardinality(Callers)
<1>e. SUFFICES Stored /\ Bounded
  BY <1>t DEF ClaimsInv, ClaimedIsStored, UniqueBounded, Setting
<1> HIDE DEF Setting
\* a key that the step does not touch, and a caller set that does not grow
<1>0. ASSUME claims' = claims, stored' = stored,
             \A b \in Bodies : Setting(b)' \subseteq Setting(b)
      PROVE  Stored /\ Bounded
  <2>1. ASSUME NEW b \in Bodies
        PROVE  claims'[b] + Cardinality(Setting(b)') <= Cardinality(Callers)
    <3>1. Setting(b)' \in SUBSET Setting(b)
      BY <1>0
    <3>2. Cardinality(Setting(b)') <= Cardinality(Setting(b))
      BY <3>1, <1>f, FS_Subset
    <3> QED
      BY <3>2, <1>0, <1>c, <1>u, <1>f, <1>g
  <2> QED
    BY <2>1, <1>0, <1>c
<1>1. ASSUME NEW c \in Callers, NEW m \in Msgs, Begin(c, m) PROVE Stored /\ Bounded
  <2>1. \A b \in Bodies : Setting(b)' \subseteq Setting(b)
    BY <1>1, <1>t DEF Begin, Setting, TypeOK
  <2> QED
    BY <1>0, <1>1, <2>1 DEF Begin
<1>2. ASSUME NEW c \in Callers, Get(c) PROVE Stored /\ Bounded
  <2>0. PICK a : a = BodyOf[msg[c]]
    OBVIOUS
  <2>1. msg[c] \in Msgs /\ a \in Bodies
    BY <1>2, <1>t, <2>0 DEF Get, TypeOK
  <2>2. claims' = claims /\ stored' = stored /\ msg' = msg
    BY <1>2 DEF Get
  <2>3. \A d \in Callers \ {c} : pc'[d] = pc[d]
    BY <1>2, <1>t DEF Get, TypeOK
  <2>4. CASE pc'[c] = "set"
    <3>1. stored[a] = None
      BY <1>2, <1>t, <2>0, <2>1, <2>4 DEF Get, TypeOK
    <3>2. claims'[a] = 0
      BY <3>1, <1>c, <2>1, <2>2
    <3>3. ASSUME NEW b \in Bodies, b # a
          PROVE  claims'[b] + Cardinality(Setting(b)') <= Cardinality(Callers)
      <4>1. Setting(b)' = Setting(b)
        BY <2>0, <2>2, <2>3, <3>3 DEF Setting
      <4> QED
        BY <4>1, <2>2, <1>u
    <3>4. claims'[a] + Cardinality(Setting(a)') <= Cardinality(Callers)
      BY <3>2, <1>g
    <3> QED
      BY <3>3, <3>4, <2>2, <1>c
  <2>5. CASE pc'[c] # "set"
    <3>1. \A b \in Bodies : Setting(b)' \subseteq Setting(b)
      BY <2>2, <2>3, <2>5 DEF Setting
    <3> QED
      BY <1>0, <2>2, <3>1
  <2> QED
    BY <2>4, <2>5
<1>3. ASSUME NEW c \in Callers, Set(c) PROVE Stored /\ Bounded
  <2>0. PICK a : a = BodyOf[msg[c]]
    OBVIOUS
  <2>1. msg[c] \in Msgs /\ a \in Bodies /\ pc[c] = "set"
    BY <1>3, <1>t, <2>0 DEF Set, TypeOK
  <2>2. msg' = msg /\ pc'[c] = "unique" /\ \A d \in Callers \ {c} : pc'[d] = pc[d]
    BY <1>3, <1>t DEF Set, TypeOK
  <2>3. \A b \in Bodies : b # a => claims'[b] = claims[b] /\ stored'[b] = stored[b]
    BY <1>3, <1>t, <2>0, <2>1 DEF Set, TypeOK
  <2>4. \/ claims'[a] = claims[a] + 1 /\ stored'[a] = msg[c]
        \/ claims'[a] = claims[a] /\ stored'[a] \in {msg[c], stored[a]}
    BY <1>3, <1>t, <2>0, <2>1 DEF Set, TypeOK
  <2>5. Stored
    BY <2>1, <2>3, <2>4, <1>c
  <2>6. ASSUME NEW b \in Bodies, b # a
        PROVE  claims'[b] + Cardinality(Setting(b)') <= Cardinality(Callers)
    <3>1. Setting(b)' = Setting(b)
      BY <2>0, <2>2, <2>6 DEF Setting
    <3> QED
      BY <3>1, <2>3, <2>6, <1>u
  <2>7. claims'[a] + Cardinality(Setting(a)') <= Cardinality(Callers)
    <3>1. c \in Setting(a) /\ Setting(a)' = Setting(a) \ {c}
      BY <2>0, <2>1, <2>2 DEF Setting
    <3>2. Cardinality(Setting(a)') = Cardinality(Setting(a)) - 1
      BY <3>1, <1>f, FS_RemoveElement
    <3> QED
      BY <3>2, <2>1, <2>4, <1>c, <1>u, <1>f
  <2> QED
    BY <2>5, <2>6, <2>7
<1>4. ASSUME NEW c \in Callers, Return(c) PROVE Stored /\ Bounded
  <2>1. \A b \in Bodies : Setting(b)' \subseteq Setting(b)
    BY <1>4, <1>t DEF Return, Setting, TypeOK
  <2> QED
    BY <1>0, <1>4, <2>1 DEF Return
<1>5. ASSUME NEW a \in Bodies, Lapse(a) PROVE Stored /\ Bounded
  <2>1. \A b \in Bodies : Setting(b)' = Setting(b)
    BY <1>5 DEF Lapse, Setting
  <2>2. \A b \in Bodies : b # a => claims'[b] = claims[b] /\ stored'[b] = stored[b]
    BY <1>5, <1>t DEF Lapse, TypeOK
  <2>3. claims'[a] = 0
    BY <1>5, <1>t DEF Lapse, TypeOK
  <2> QED
    BY <2>1, <2>2, <2>3, <1>c, <1>u, <1>f
<1>6. CASE Crash
  <2>1. \A b \in Bodies : Setting(b)' \subseteq Setting(b)
    BY <1>6 DEF Crash, Setting
  <2> QED
    BY <1>0, <1>6, <2>1 DEF Crash
<1>7. CASE UNCHANGED vars
  <2>1. \A b \in Bodies : Setting(b)' \subseteq Setting(b)
    BY <1>7 DEF vars, Setting
  <2> QED
    BY <1>0, <1>7, <2>1 DEF vars
<1> QED
  BY <1>1, <1>2, <1>3, <1>4, <1>5, <1>6, <1>7 DEF Next, Expire, Delete

-----------------------------------------------------------------------------
(* A deduplicator that has not been used satisfies both invariants. *)
LEMMA InitInvariants == Init => OriginalInv /\ ClaimsInv
<1> SUFFICES ASSUME Init PROVE OriginalInv /\ ClaimsInv
  OBVIOUS
<1>1. TypeOK
  BY DedupBoundsAssumption DEF Init, TypeOK
<1>2. StoredHasOriginal /\ DuplicateHasOriginal /\ ClaimedIsStored
  BY DEF Init, StoredHasOriginal, DuplicateHasOriginal, ClaimedIsStored
<1>3. ASSUME NEW b \in Bodies
      PROVE  claims[b] + Cardinality(Setting(b)) <= Cardinality(Callers)
  <2>1. claims[b] = 0
    BY DEF Init
  <2> QED
    BY <2>1, SettingBounded
<1>4. UniqueBounded
  BY <1>3 DEF UniqueBounded, Setting
<1> QED
  BY <1>1, <1>2, <1>4 DEF OriginalInv, ClaimsInv

(* A message that Check reports as a duplicate has an original with the    *)
(* same body that got through or was cut off by a crash, for any number of *)
(* callers, failures, lapses and crashes.                                  *)
THEOREM DuplicatesAreBacked == Spec => []DuplicateHasOriginal
<1>1. Init => OriginalInv
  BY InitInvariants
<1>2. OriginalInv => DuplicateHasOriginal
  BY DEF OriginalInv
<1> QED
  BY <1>1, <1>2, OriginalInductive, PTL DEF Spec

(* At most as many copies of a body get through within one window as there *)
(* are goroutines calling Check: the race between GET and SET costs no     *)
(* more than that.                                                         *)
THEOREM RaceLetsFewThrough == Spec => []UniqueBounded
<1>1. Init => ClaimsInv
  BY InitInvariants
<1>2. ClaimsInv => UniqueBounded
  BY DEF ClaimsInv
<1> QED
  BY <1>1, <1>2, ClaimsInductive, PTL DEF Spec
=============================================================================
