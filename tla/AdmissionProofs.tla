-------------------------- MODULE AdmissionProofs --------------------------
(***************************************************************************)
(* Proofs about module Admission, for any finite set of connections and    *)
(* any limits, windows and faults of Redis.                                *)
(***************************************************************************)
EXTENDS Admission, FiniteSetTheorems, TLAPS

USE DEF rate

-----------------------------------------------------------------------------
(* Types *)

(* The connections at a point of NewSession are finitely many. *)
LEMMA AtFinite ==
    ASSUME NEW l
    PROVE  IsFiniteSet(At(l)) /\ Cardinality(At(l)) \in Nat
<1>1. At(l) \in SUBSET Conns
  BY DEF At
<1> QED
  BY <1>1, ConnsAssumption, FS_Subset, FS_CardinalityType

(* An open session has been counted. *)
LEMMA OpenIsCounted ==
    ASSUME TypeOK, CounterIsExact, NEW c \in Conns, pc[c] = "open"
    PROVE  currentConnections - 1 \in Nat
<1>1. c \in At("open")
  BY DEF At
<1>2. Cardinality(At("open")) # 0
  BY <1>1, AtFinite, FS_EmptySet
<1> QED
  BY <1>2, AtFinite DEF CounterIsExact

(* Every step keeps the counters and clocks in range: the counter is not   *)
(* lowered below 0 because it is exact.                                    *)
LEMMA TypeInductive == TypeOK /\ CounterIsExact /\ [Next]_vars => TypeOK'
<1> SUFFICES ASSUME TypeOK, CounterIsExact, [Next]_vars PROVE TypeOK'
  OBVIOUS
<1> USE LimitsAssumption, WindowAssumption, BoundsAssumption
<1>0. 0 \in Ago
  BY DEF Ago
<1>1. ASSUME NEW c \in Conns, CheckGlobal(c) PROVE TypeOK'
  BY <1>1 DEF CheckGlobal, TypeOK
<1>2. ASSUME NEW c \in Conns, NEW allowed \in BOOLEAN, Verdict(c, allowed)
      PROVE  /\ pc' \in [Conns -> {"none", "checked", "allowed", "open"}]
             /\ currentConnections' \in Nat /\ quiet' \in 0..(Window + 1)
  BY <1>2 DEF Verdict, TypeOK
<1>3. ASSUME NEW f \in [Ago -> Nat]
      PROVE  /\ [f EXCEPT ![0] = @ + 1] \in [Ago -> Nat]
             /\ Older(f) \in [Ago -> Nat]
  <2>1. [f EXCEPT ![0] = @ + 1] \in [Ago -> Nat]
    BY <1>0
  <2>2. \A k \in Ago : k # 0 => k - 1 \in Ago
    BY DEF Ago
  <2> QED
    BY <2>1, <2>2 DEF Older
<1>4. ASSUME NEW c \in Conns, CheckRateRedis(c) PROVE TypeOK'
  <2>1. redis' \in [cnt : 0..MaxCount, ttl : 0..Never] /\ (redis'.ttl = 0) = (redis'.cnt = 0)
    BY <1>4 DEF CheckRateRedis, checkRedisLimit, TypeOK, Never
  <2>2. byRedis' \in [Ago -> Nat]
    BY <1>3, <1>4 DEF CheckRateRedis, TypeOK
  <2>3. /\ pc' \in [Conns -> {"none", "checked", "allowed", "open"}]
        /\ currentConnections' \in Nat /\ quiet' \in 0..(Window + 1)
    <3>1. Verdict(c, redis'.cnt <= Limit) /\ (redis'.cnt <= Limit) \in BOOLEAN
      BY <1>4 DEF CheckRateRedis
    <3> QED
      BY <1>2, <3>1
  <2> QED
    BY <1>4, <2>1, <2>2, <2>3 DEF CheckRateRedis, TypeOK
<1>5. ASSUME NEW c \in Conns, NEW fault \in Faults, CheckRateLocal(c, fault) PROVE TypeOK'
  <2>1. redis' \in [cnt : 0..MaxCount, ttl : 0..Never] /\ (redis'.ttl = 0) = (redis'.cnt = 0)
    BY <1>5 DEF CheckRateLocal, IncrOnly, TypeOK, Never
  <2>2. byBucket' \in [Ago -> Nat]
    BY <1>3, <1>5 DEF CheckRateLocal, TypeOK
  <2>3. bucket' \in [cnt : 0..MaxCount, left : -(Grace + 1)..Window]
    BY <1>5 DEF CheckRateLocal, checkLocalLimit, TypeOK
  <2>4. /\ pc' \in [Conns -> {"none", "checked", "allowed", "open"}]
        /\ currentConnections' \in Nat /\ quiet' \in 0..(Window + 1)
    <3>1. Verdict(c, bucket'.cnt <= Limit) /\ (bucket'.cnt <= Limit) \in BOOLEAN
      BY <1>5 DEF CheckRateLocal
    <3> QED
      BY <1>2, <3>1
  <2> QED
    BY <1>5, <2>1, <2>2, <2>3, <2>4 DEF CheckRateLocal, TypeOK
<1>6. ASSUME NEW c \in Conns, IncrementConnection(c) PROVE TypeOK'
  BY <1>6 DEF IncrementConnection, TypeOK
<1>10. ASSUME NEW c \in Conns, DecrementConnection(c) PROVE TypeOK'
  <2>1. currentConnections' \in Nat
    BY <1>10, OpenIsCounted DEF DecrementConnection
  <2> QED
    BY <1>10, <2>1 DEF DecrementConnection, TypeOK
<1>7. CASE cleanupLocalBuckets
  BY <1>7 DEF cleanupLocalBuckets, NoBucket, TypeOK
<1>8. CASE Tick
  <2>1. redis' \in [cnt : 0..MaxCount, ttl : 0..Never] /\ (redis'.ttl = 0) = (redis'.cnt = 0)
    BY <1>8 DEF Tick, NoKey, TypeOK, Never
  <2>2. bucket' \in [cnt : 0..MaxCount, left : -(Grace + 1)..Window]
    BY <1>8 DEF Tick, TypeOK
  <2>3. byRedis' \in [Ago -> Nat] /\ byBucket' \in [Ago -> Nat]
    BY <1>3, <1>8 DEF Tick, TypeOK
  <2> QED
    BY <1>8, <2>1, <2>2, <2>3 DEF Tick, TypeOK
<1>9. CASE UNCHANGED vars
  BY <1>9 DEF vars, TypeOK
<1> QED
  BY <1>1, <1>4, <1>5, <1>6, <1>7, <1>8, <1>9, <1>10 DEF Next

-----------------------------------------------------------------------------
(* Open sessions *)

CounterInv ==
    /\ TypeOK
    /\ CounterIsExact
    /\ Cardinality(At("open")) + Cardinality(InFlight) <= GlobalLimit + MaxInFlight - 1

(* Every step keeps the counter exact, and keeps the open sessions and the *)
(* running calls of NewSession within what the check lets pass: a session  *)
(* is let in only while fewer than GlobalLimit are open.                   *)
LEMMA CounterInductive == CounterInv /\ [Next]_vars => CounterInv'
<1> SUFFICES ASSUME CounterInv, [Next]_vars PROVE CounterInv'
  OBVIOUS
<1>t. TypeOK /\ TypeOK' /\ CounterIsExact
  BY TypeInductive DEF CounterInv
<1> DEFINE Open == Cardinality(At("open"))
           Running == Cardinality(InFlight)
           Kept == CounterIsExact' /\ Open' + Running' <= GlobalLimit + MaxInFlight - 1
<1>e. SUFFICES Kept
  BY <1>t DEF CounterInv
<1>f. IsFiniteSet(InFlight) /\ IsFiniteSet(At("open")) /\ Running \in Nat /\ Open \in Nat
  BY AtFinite, FS_Union, FS_CardinalityType DEF InFlight
<1>b. /\ Open + Running <= GlobalLimit + MaxInFlight - 1 /\ currentConnections = Open
      /\ GlobalLimit \in Nat /\ MaxInFlight \in Nat
  BY LimitsAssumption, BoundsAssumption DEF CounterInv, CounterIsExact
<1>1. ASSUME NEW c \in Conns, CheckGlobal(c) PROVE Kept
  <2>1. At("open")' = At("open") /\ c \notin InFlight /\ InFlight' = InFlight \union {c}
    <3>1. pc[c] = "none" /\ pc'[c] = "checked" /\ \A d \in Conns \ {c} : pc'[d] = pc[d]
      BY <1>1, <1>t DEF CheckGlobal, TypeOK
    <3> QED
      BY <3>1 DEF InFlight, At
  <2>2. Running' = Running + 1 /\ Open' = Open
    BY <2>1, <1>f, FS_AddElement
  <2>3. Running < MaxInFlight /\ Open < GlobalLimit /\ currentConnections' = currentConnections
    BY <1>1, <1>b DEF CheckGlobal
  <2> QED
    BY <1>b, <1>f, <2>2, <2>3 DEF CounterIsExact
<1>2. ASSUME NEW c \in Conns, NEW allowed \in BOOLEAN, pc[c] = "checked", Verdict(c, allowed)
      PROVE  Kept
  <2>1. At("open")' = At("open") /\ InFlight' \subseteq InFlight
    <3>1. pc' = [pc EXCEPT ![c] = "allowed"] \/ pc' = [pc EXCEPT ![c] = "none"]
      BY <1>2 DEF Verdict
    <3> QED
      BY <1>2, <1>t, <3>1 DEF At, InFlight, TypeOK
  <2>2. Running' <= Running /\ Running' \in Nat
    BY <2>1, <1>f, FS_Subset, FS_CardinalityType
  <2>3. Open' = Open /\ currentConnections' = currentConnections
    BY <1>2, <2>1 DEF Verdict
  <2> QED
    BY <1>b, <1>f, <2>2, <2>3 DEF CounterIsExact
<1>3. ASSUME NEW c \in Conns,
             CheckRateRedis(c) \/ \E fault \in Faults : CheckRateLocal(c, fault)
      PROVE  Kept
  <2>1. pc[c] = "checked"
    BY <1>3 DEF CheckRateRedis, CheckRateLocal
  <2>2. Verdict(c, redis'.cnt <= Limit) \/ Verdict(c, bucket'.cnt <= Limit)
    BY <1>3 DEF CheckRateRedis, CheckRateLocal
  <2>3. (redis'.cnt <= Limit) \in BOOLEAN /\ (bucket'.cnt <= Limit) \in BOOLEAN
    OBVIOUS
  <2> QED
    BY <1>2, <2>1, <2>2, <2>3
<1>4. ASSUME NEW c \in Conns, IncrementConnection(c) PROVE Kept
  <2>1. /\ c \notin At("open") /\ At("open")' = At("open") \union {c}
        /\ c \in InFlight /\ InFlight' = InFlight \ {c}
    <3>1. pc[c] = "allowed" /\ pc'[c] = "open" /\ \A d \in Conns \ {c} : pc'[d] = pc[d]
      BY <1>4, <1>t DEF IncrementConnection, TypeOK
    <3> QED
      BY <3>1 DEF InFlight, At
  <2>2. Open' = Open + 1
    BY <2>1, <1>f, FS_AddElement
  <2>3. Running' = Running - 1
    BY <2>1, <1>f, FS_RemoveElement
  <2> QED
    BY <1>4, <1>b, <1>f, <2>2, <2>3 DEF IncrementConnection, CounterIsExact
<1>5. ASSUME NEW c \in Conns, DecrementConnection(c) PROVE Kept
  <2>1. c \in At("open") /\ At("open")' = At("open") \ {c} /\ InFlight' = InFlight
    <3>1. pc[c] = "open" /\ pc'[c] = "none" /\ \A d \in Conns \ {c} : pc'[d] = pc[d]
      BY <1>5, <1>t DEF DecrementConnection, TypeOK
    <3> QED
      BY <3>1 DEF InFlight, At
  <2>2. Open' = Open - 1 /\ Running' = Running
    BY <2>1, <1>f, FS_RemoveElement
  <2> QED
    BY <1>5, <1>b, <1>f, <2>2 DEF DecrementConnection, CounterIsExact
<1>6. CASE UNCHANGED <<pc, currentConnections>>
  BY <1>6, <1>b DEF CounterIsExact, InFlight, At
<1> QED
  BY <1>1, <1>3, <1>4, <1>5, <1>6 DEF Next, cleanupLocalBuckets, Tick, vars

(* A daemon that has just started. *)
LEMMA InitCounter == Init => CounterInv
<1> SUFFICES ASSUME Init PROVE CounterInv
  OBVIOUS
<1> USE LimitsAssumption, WindowAssumption, BoundsAssumption
<1>1. TypeOK
  BY DEF Init, TypeOK, NoKey, NoBucket, Never
<1>2. At("open") = {} /\ InFlight = {}
  BY DEF Init, At, InFlight
<1>3. Cardinality(At("open")) = 0 /\ Cardinality(InFlight) = 0
  BY <1>2, FS_EmptySet
<1> QED
  BY <1>1, <1>3 DEF Init, CounterInv, CounterIsExact

(* The counters and clocks stay in range. *)
THEOREM TypeCorrect == Spec => []TypeOK
<1>1. CounterInv => TypeOK
  BY DEF CounterInv
<1> QED
  BY <1>1, InitCounter, CounterInductive, PTL DEF Spec

(* However NewSession and Logout interleave, currentConnections is the     *)
(* number of open sessions.                                                *)
THEOREM CounterStaysExact == Spec => []CounterIsExact
<1>1. CounterInv => CounterIsExact
  BY DEF CounterInv
<1> QED
  BY <1>1, InitCounter, CounterInductive, PTL DEF Spec

(* The race between the check of the limit and the count lets in no more   *)
(* sessions above it than overlapping calls of NewSession, less one.       *)
THEOREM OvershootStaysBounded == Spec => []OvershootBounded
<1>1. CounterInv => OvershootBounded
  <2> SUFFICES ASSUME CounterInv PROVE OvershootBounded
    OBVIOUS
  <2>1. Cardinality(At("open")) \in Nat /\ Cardinality(InFlight) \in Nat
    BY AtFinite, FS_Union, FS_CardinalityType DEF InFlight
  <2> QED
    BY <2>1, LimitsAssumption, BoundsAssumption DEF CounterInv, OvershootBounded
<1> QED
  BY <1>1, InitCounter, CounterInductive, PTL DEF Spec

-----------------------------------------------------------------------------
(* Silence *)

(* A key or a bucket that still runs was touched by a request: what it has *)
(* left and the silence since then fit into a window.                      *)
ClocksAgree ==
    /\ redis.ttl \in 1..Window => redis.ttl + quiet <= Window
    /\ bucket.left >= 0 => bucket.left + quiet <= Window

LEMMA ClocksInductive ==
    TypeOK /\ ClocksAgree /\ [Next]_vars => ClocksAgree'
<1> SUFFICES ASSUME TypeOK, ClocksAgree, [Next]_vars PROVE ClocksAgree'
  OBVIOUS
<1> USE WindowAssumption DEF ClocksAgree
<1>y. /\ redis.ttl \in 0..(Window + 1) /\ redis.cnt \in Nat
      /\ bucket.left \in Int /\ bucket.left <= Window /\ quiet \in 0..(Window + 1)
      /\ DOMAIN bucket = {"cnt", "left"} /\ DOMAIN redis = {"cnt", "ttl"}
  BY DEF TypeOK, Never
<1>1. ASSUME NEW c \in Conns, CheckRateRedis(c) PROVE ClocksAgree'
  <2>1. redis'.ttl = Window /\ quiet' = 0 /\ bucket' = bucket
    BY <1>1 DEF CheckRateRedis, checkRedisLimit, Verdict
  <2> QED
    BY <1>y, <2>1
<1>2. ASSUME NEW c \in Conns, NEW fault \in Faults, CheckRateLocal(c, fault) PROVE ClocksAgree'
  <2>1. quiet' = 0
    BY <1>2 DEF CheckRateLocal, Verdict
  <2>2. redis'.ttl = redis.ttl \/ redis'.ttl = Window + 1
    BY <1>2 DEF CheckRateLocal, IncrOnly, Never
  <2>3. bucket'.left \in Int /\ bucket'.left <= Window
    BY <1>2, <1>y DEF CheckRateLocal, checkLocalLimit
  <2> QED
    BY <1>y, <2>1, <2>2, <2>3
<1>3. CASE cleanupLocalBuckets
  BY <1>3, <1>y DEF cleanupLocalBuckets, NoBucket
<1>4. CASE Tick
  <2>1. \/ redis'.ttl = redis.ttl /\ redis.ttl \in {0, Window + 1}
        \/ redis.ttl \in 1..Window /\ redis'.ttl = redis.ttl - 1
    BY <1>4, <1>y DEF Tick, NoKey, Never
  <2>2. \/ bucket'.left = bucket.left - 1
        \/ bucket'.left = bucket.left /\ ~(bucket.left >= 0)
    BY <1>4, <1>y DEF Tick
  <2>3. quiet' = quiet + 1 \/ (quiet' = quiet /\ quiet = Window + 1)
    BY <1>4, <1>y DEF Tick
  <2> QED
    BY <1>y, <2>1, <2>2, <2>3
<1>5. CASE UNCHANGED rate
  BY <1>5
<1> QED
  BY <1>1, <1>2, <1>3, <1>4, <1>5
     DEF Next, CheckGlobal, IncrementConnection, DecrementConnection, vars

(* A step that turns a connection away after more than a window of silence *)
(* finds neither a key nor a bucket, so the count it compares is 1.        *)
LEMMA QuietStep ==
    ASSUME TypeOK, ClocksAgree, [Next]_vars, quiet > Window, redis.ttl # Never
    PROVE  \A c \in Conns : ~TurnsAway(c)
<1> SUFFICES ASSUME NEW c \in Conns, TurnsAway(c) PROVE FALSE
  OBVIOUS
<1> USE WindowAssumption, LimitsAssumption
<1>1. redis.cnt = 0 /\ bucket.left < 0
  BY DEF TypeOK, ClocksAgree, Never
<1>2. pc[c] = "checked" /\ pc'[c] = "none"
  BY DEF TurnsAway
<1>3. ASSUME NEW d \in Conns, NEW to, pc' = [pc EXCEPT ![d] = to], pc[d] # "checked" \/ to # "none"
      PROVE  FALSE
  BY <1>2, <1>3 DEF TypeOK
<1>4. ASSUME NEW d \in Conns, CheckRateRedis(d) PROVE FALSE
  <2>1. redis'.cnt <= Limit
    BY <1>1, <1>4 DEF CheckRateRedis, checkRedisLimit
  <2> QED
    BY <1>3, <1>4, <2>1 DEF CheckRateRedis, Verdict
<1>5. ASSUME NEW d \in Conns, NEW fault \in Faults, CheckRateLocal(d, fault) PROVE FALSE
  <2>1. bucket'.cnt <= Limit
    BY <1>1, <1>5 DEF CheckRateLocal, checkLocalLimit
  <2> QED
    BY <1>3, <1>5, <2>1 DEF CheckRateLocal, Verdict
<1>6. ASSUME NEW d \in Conns, CheckGlobal(d) \/ IncrementConnection(d) \/ DecrementConnection(d)
      PROVE  FALSE
  BY <1>3, <1>6 DEF CheckGlobal, IncrementConnection, DecrementConnection
<1>7. CASE UNCHANGED pc
  BY <1>2, <1>7
<1> QED
  BY <1>4, <1>5, <1>6, <1>7 DEF Next, cleanupLocalBuckets, Tick, vars

(* A client that was silent for more than a window is not turned away,     *)
(* unless its key has lost its expiry.                                     *)
THEOREM QuietStaysAdmitted == Spec => QuietIsAdmitted
<1>1. Init => ClocksAgree
  BY WindowAssumption DEF Init, ClocksAgree, NoKey, NoBucket
<1>2. TypeOK /\ ClocksAgree /\ [Next]_vars
         => [quiet > Window /\ redis.ttl # Never => \A c \in Conns : ~TurnsAway(c)]_vars
  BY QuietStep
<1> QED
  BY <1>1, <1>2, TypeCorrect, ClocksInductive, PTL DEF Spec, QuietIsAdmitted

-----------------------------------------------------------------------------
(* Admissions within a window *)

LEMMA AdmissionsMember ==
    ASSUME NEW f
    PROVE  /\ \A k, i : <<k, i>> \in Admissions(f) <=> k \in Ago /\ i \in 1..f[k]
           /\ \A p \in Admissions(f) : p = <<p[1], p[2]>> /\ p[1] \in Ago /\ p[2] \in 1..f[p[1]]
  BY DEF Admissions

(* An admission more is one element more. *)
LEMMA AddAdmission ==
    ASSUME NEW f \in [Ago -> Nat]
    PROVE  /\ Admissions([f EXCEPT ![0] = @ + 1]) = Admissions(f) \union {<<0, f[0] + 1>>}
           /\ <<0, f[0] + 1>> \notin Admissions(f)
<1> DEFINE g == [f EXCEPT ![0] = @ + 1]
<1>0. 0 \in Ago
  BY WindowAssumption DEF Ago
<1>1. g[0] = f[0] + 1 /\ f[0] \in Nat /\ \A k \in Ago \ {0} : g[k] = f[k]
  BY <1>0
<1>2. \A i : i \in 1..g[0] <=> i \in 1..f[0] \/ i = f[0] + 1
  BY <1>1
<1> HIDE DEF g
<1>3. \A k, i : <<k, i>> \in Admissions(g) <=> <<k, i>> \in Admissions(f) \union {<<0, f[0] + 1>>}
  <2> SUFFICES ASSUME NEW k, NEW i
               PROVE  <<k, i>> \in Admissions(g) <=>
                         <<k, i>> \in Admissions(f) \/ (k = 0 /\ i = f[0] + 1)
    OBVIOUS
  <2>1. /\ <<k, i>> \in Admissions(g) <=> k \in Ago /\ i \in 1..g[k]
        /\ <<k, i>> \in Admissions(f) <=> k \in Ago /\ i \in 1..f[k]
    BY AdmissionsMember
  <2> QED
    BY <1>0, <1>1, <1>2, <2>1
<1>4. Admissions(g) \subseteq Admissions(f) \union {<<0, f[0] + 1>>}
  BY <1>3, AdmissionsMember
<1>5. Admissions(f) \union {<<0, f[0] + 1>>} \subseteq Admissions(g)
  BY <1>3, AdmissionsMember
<1>6. f[0] + 1 \notin 1..f[0]
  BY <1>1
<1> QED
  BY <1>4, <1>5, <1>6, AdmissionsMember DEF g

(* Nothing counted is nothing admitted. *)
LEMMA NoAdmissions ==
    ASSUME NEW f, \A k \in Ago : f[k] = 0
    PROVE  Admissions(f) = {} /\ IsFiniteSet(Admissions(f)) /\ Total(f) = 0
<1>1. \A p \in Admissions(f) : p[2] \in 1..0
  BY AdmissionsMember
<1>2. 1..0 = {}
  OBVIOUS
<1> QED
  BY <1>1, <1>2, FS_EmptySet DEF Total

(* As a tick passes, what is still in the window was there before. *)
LEMMA OlderAdmissions ==
    ASSUME NEW f \in [Ago -> Nat]
    PROVE  /\ Older(f)[0] = 0
           /\ \A p \in Admissions(Older(f)) :
                 p = <<p[1], p[2]>> /\ p[1] \in Ago \ {0} /\ <<p[1] - 1, p[2]>> \in Admissions(f)
           /\ \A k \in Ago : k + 1 \in Ago => Older(f)[k + 1] = f[k]
<1>0. 0 \in Ago /\ \A k \in Ago : k \in Int /\ (k # 0 => k - 1 \in Ago)
  BY WindowAssumption DEF Ago
<1>1. Older(f)[0] = 0 /\ \A k \in Ago : k # 0 => Older(f)[k] = f[k - 1]
  BY <1>0 DEF Older
<1>2. ASSUME NEW p \in Admissions(Older(f))
      PROVE  p = <<p[1], p[2]>> /\ p[1] \in Ago \ {0} /\ <<p[1] - 1, p[2]>> \in Admissions(f)
  <2>1. p = <<p[1], p[2]>> /\ p[1] \in Ago /\ p[2] \in 1..Older(f)[p[1]]
    BY AdmissionsMember
  <2>2. p[1] # 0
    BY <1>1, <2>1
  <2> QED
    BY <1>0, <1>1, <2>1, <2>2, AdmissionsMember
<1>3. \A k \in Ago : k + 1 \in Ago => Older(f)[k + 1] = f[k]
  <2> SUFFICES ASSUME NEW k \in Ago, k + 1 \in Ago PROVE Older(f)[k + 1] = f[k]
    OBVIOUS
  <2>1. k + 1 # 0 /\ (k + 1) - 1 = k
    BY WindowAssumption DEF Ago
  <2> QED
    BY <1>1, <2>1
<1> QED
  BY <1>1, <1>2, <1>3

(* A set of admissions that were in S a tick ago is no larger than S. *)
LEMMA Shrinks ==
    ASSUME NEW S, IsFiniteSet(S), NEW T,
           \A p \in T : p = <<p[1], p[2]>> /\ p[1] \in Int /\ <<p[1] - 1, p[2]>> \in S
    PROVE  IsFiniteSet(T) /\ Cardinality(T) <= Cardinality(S)
<1> DEFINE before == [p \in T |-> <<p[1] - 1, p[2]>>]
<1>1. before \in [T -> S]
  OBVIOUS
<1>2. ASSUME NEW p \in T, NEW q \in T, before[p] = before[q] PROVE p = q
  <2>1. p[1] - 1 = q[1] - 1 /\ p[2] = q[2]
    BY <1>2
  <2>2. p[1] \in Int /\ q[1] \in Int /\ p = <<p[1], p[2]>> /\ q = <<q[1], q[2]>>
    OBVIOUS
  <2>3. p[1] = q[1]
    BY <2>1, <2>2
  <2> QED
    BY <2>1, <2>2, <2>3
<1>3. before \in Injection(T, S)
  BY <1>1, <1>2 DEF Injection, IsInjective
<1> QED
  BY <1>3, FS_Injection

(* The count in Redis covers what it admitted within the window, and keeps *)
(* covering it until its last admission is a whole window old.             *)
RedisInv ==
    /\ IsFiniteSet(Admissions(byRedis))
    /\ Total(byRedis) <= Limit /\ Total(byRedis) <= redis.cnt
    /\ \A k \in Ago : byRedis[k] # 0 => redis.ttl \in 1..Window /\ k >= Window - redis.ttl

LEMMA RedisInductive == TypeOK /\ RedisInv /\ [Next]_vars => RedisInv'
<1> SUFFICES ASSUME TypeOK, RedisInv, [Next]_vars PROVE RedisInv'
  OBVIOUS
<1> USE WindowAssumption, LimitsAssumption
<1>y. /\ redis.ttl \in 0..(Window + 1) /\ redis.cnt \in Nat /\ byRedis \in [Ago -> Nat]
      /\ redis.ttl = 0 <=> redis.cnt = 0
      /\ DOMAIN redis = {"cnt", "ttl"}
      /\ \A k \in Ago : k \in 0..(Window - 1)
  BY DEF TypeOK, Never, Ago
<1>f. IsFiniteSet(Admissions(byRedis)) /\ Total(byRedis) \in Nat
  BY FS_CardinalityType DEF RedisInv, Total
<1>r. /\ Total(byRedis) <= Limit /\ Total(byRedis) <= redis.cnt
      /\ \A k \in Ago : byRedis[k] # 0 => redis.ttl \in 1..Window /\ k >= Window - redis.ttl
  BY DEF RedisInv
<1>1. ASSUME NEW c \in Conns, CheckRateRedis(c) PROVE RedisInv'
  <2>1. redis'.cnt = redis.cnt + 1 /\ redis'.ttl = Window
    BY <1>1 DEF CheckRateRedis, checkRedisLimit
  <2>2. \A k \in Ago : redis'.ttl \in 1..Window /\ k >= Window - redis'.ttl
    BY <1>y, <2>1
  <2>3. CASE byRedis' = byRedis
    BY <1>y, <1>f, <1>r, <2>1, <2>2, <2>3 DEF RedisInv
  <2>4. CASE byRedis' = [byRedis EXCEPT ![0] = @ + 1] /\ redis'.cnt <= Limit
    <3>1. /\ Admissions(byRedis') = Admissions(byRedis) \union {<<0, byRedis[0] + 1>>}
          /\ <<0, byRedis[0] + 1>> \notin Admissions(byRedis)
      BY <1>y, <2>4, AddAdmission
    <3>2. IsFiniteSet(Admissions(byRedis')) /\ Total(byRedis') = Total(byRedis) + 1
      BY <1>f, <3>1, FS_AddElement DEF Total
    <3> QED
      BY <1>y, <1>f, <1>r, <2>1, <2>2, <2>4, <3>2 DEF RedisInv
  <2> QED
    BY <1>1, <2>3, <2>4 DEF CheckRateRedis
<1>2. ASSUME NEW c \in Conns, NEW fault \in Faults, CheckRateLocal(c, fault) PROVE RedisInv'
  <2>1. CASE redis' = redis
    BY <1>2, <2>1 DEF CheckRateLocal, RedisInv
  <2>2. CASE IncrOnly
    <3>1. redis'.cnt = redis.cnt + 1 /\ (redis.ttl # 0 => redis'.ttl = redis.ttl)
      BY <1>y, <2>2 DEF IncrOnly
    <3>2. byRedis' = byRedis
      BY <1>2 DEF CheckRateLocal
    <3>3. \A k \in Ago : byRedis[k] # 0 => redis'.ttl \in 1..Window /\ k >= Window - redis'.ttl
      BY <1>r, <1>y, <3>1
    <3> QED
      BY <1>y, <1>f, <1>r, <3>1, <3>2, <3>3 DEF RedisInv
  <2> QED
    BY <1>2, <2>1, <2>2 DEF CheckRateLocal
<1>3. CASE Tick
  <2>1. byRedis' = Older(byRedis)
    BY <1>3 DEF Tick
  <2>2. \A p \in Admissions(byRedis') :
            p = <<p[1], p[2]>> /\ p[1] \in Int /\ <<p[1] - 1, p[2]>> \in Admissions(byRedis)
    <3>1. \A k \in Ago : k \in Int
      BY <1>y
    <3> QED
      BY <1>y, <2>1, <3>1, OlderAdmissions
  <2>3. /\ IsFiniteSet(Admissions(byRedis')) /\ Total(byRedis') <= Total(byRedis)
        /\ Total(byRedis') \in Nat
    BY <1>f, <2>2, Shrinks, FS_CardinalityType DEF Total
  <2>4. ASSUME NEW k \in Ago, byRedis'[k] # 0
        PROVE  redis.ttl \in 1..Window /\ k >= Window - redis.ttl + 1
    <3>1. k # 0 /\ k - 1 \in Ago /\ byRedis[k - 1] # 0
      BY <1>y, <2>1, <2>4 DEF Older, Ago
    <3> QED
      BY <1>r, <1>y, <3>1
  <2>5. CASE redis.ttl \in {0, Window + 1}
    <3>1. redis' = redis
      BY <1>3, <2>5 DEF Tick, Never
    <3>2. \A k \in Ago : byRedis'[k] = 0
      BY <1>y, <2>4, <2>5
    <3> QED
      BY <1>f, <1>r, <1>y, <2>3, <3>1, <3>2 DEF RedisInv
  <2>6. CASE redis.ttl = 1
    <3>1. redis' = NoKey
      BY <1>3, <2>6 DEF Tick, Never
    <3>2. \A k \in Ago : byRedis'[k] = 0
      BY <1>y, <2>4, <2>6
    <3>3. Total(byRedis') = 0
      BY <3>2, NoAdmissions
    <3> QED
      BY <2>3, <3>1, <3>2, <3>3 DEF RedisInv, NoKey
  <2>7. CASE redis.ttl \in 2..Window
    <3>1. redis'.cnt = redis.cnt /\ redis'.ttl = redis.ttl - 1
      BY <1>3, <1>y, <2>7 DEF Tick, Never
    <3>2. \A k \in Ago : byRedis'[k] # 0 => redis'.ttl \in 1..Window /\ k >= Window - redis'.ttl
      BY <1>y, <2>4, <2>7, <3>1
    <3> QED
      BY <1>f, <1>r, <1>y, <2>3, <3>1, <3>2 DEF RedisInv
  <2> QED
    BY <1>y, <2>5, <2>6, <2>7
<1>4. CASE UNCHANGED <<redis, byRedis>>
  BY <1>4 DEF RedisInv
<1> QED
  BY <1>1, <1>2, <1>3, <1>4
     DEF Next, CheckGlobal, IncrementConnection, DecrementConnection, cleanupLocalBuckets, vars

(* No stretch of time as long as the window sees more admissions by Redis  *)
(* than the limit, wherever it starts, whatever fails.                     *)
THEOREM SlidingWindowStaysKept == Spec => []SlidingWindowKept
<1>1. Init => RedisInv
  <2> SUFFICES ASSUME Init PROVE RedisInv
    OBVIOUS
  <2>1. \A k \in Ago : byRedis[k] = 0
    BY DEF Init
  <2>2. IsFiniteSet(Admissions(byRedis)) /\ Total(byRedis) = 0
    BY <2>1, NoAdmissions
  <2> QED
    BY <2>1, <2>2, LimitsAssumption DEF Init, RedisInv, NoKey
<1>2. RedisInv => SlidingWindowKept
  BY DEF RedisInv, SlidingWindowKept
<1> QED
  BY <1>1, <1>2, TypeCorrect, RedisInductive, PTL DEF Spec

-----------------------------------------------------------------------------
(* The fallback *)

(* When the running bucket was opened, and the admissions within the       *)
(* window by it and by the one before it.                                  *)
Age == Window - bucket.left
ByThis == {p \in Admissions(byBucket) : p[1] <= Age}
ByLast == {p \in Admissions(byBucket) : p[1] > Age}

(* Once a bucket has run out the admission that opened it has left the     *)
(* window, so at most Limit - 1 of its admissions are still in it when the *)
(* next is opened; and they do not share a tick with those of the next.    *)
BucketInv ==
    /\ IsFiniteSet(Admissions(byBucket))
    /\ bucket.left < 0 => Total(byBucket) <= Limit - 1 /\ byBucket[0] = 0
    /\ bucket.left >= 0 => Cardinality(ByLast) <= Limit - 1
    /\ bucket.left >= 1 =>
          /\ Cardinality(ByThis) <= Limit /\ Cardinality(ByThis) <= bucket.cnt
          /\ <<Age, 1>> \in Admissions(byBucket)
    /\ bucket.left = 0 =>
          Cardinality(ByThis) <= Limit - 1 /\ Cardinality(ByThis) <= bucket.cnt - 1

LEMMA BucketParts ==
    ASSUME IsFiniteSet(Admissions(byBucket)), bucket.left \in Int
    PROVE  /\ IsFiniteSet(ByThis) /\ IsFiniteSet(ByLast)
           /\ Cardinality(ByThis) \in Nat /\ Cardinality(ByLast) \in Nat
           /\ Total(byBucket) \in Nat
           /\ Total(byBucket) = Cardinality(ByThis) + Cardinality(ByLast)
           /\ bucket.left <= 0 => ByThis = Admissions(byBucket)
<1> USE WindowAssumption
<1>1. ByThis \in SUBSET Admissions(byBucket) /\ ByLast \in SUBSET Admissions(byBucket)
  BY DEF ByThis, ByLast
<1>2. IsFiniteSet(ByThis) /\ IsFiniteSet(ByLast)
  BY <1>1, FS_Subset
<1>3. \A p \in Admissions(byBucket) : p[1] \in 0..(Window - 1)
  BY AdmissionsMember DEF Ago
<1>4. Age \in Int /\ (bucket.left <= 0 => Age >= Window)
  BY DEF Age
<1>5. ByThis \union ByLast = Admissions(byBucket) /\ ByThis \cap ByLast = {}
  BY <1>3, <1>4 DEF ByThis, ByLast
<1>6. bucket.left <= 0 => ByThis = Admissions(byBucket)
  BY <1>3, <1>4 DEF ByThis
<1>7. /\ Cardinality(ByThis) \in Nat /\ Cardinality(ByLast) \in Nat
      /\ Cardinality(ByThis \cap ByLast) = 0
  BY <1>2, <1>5, FS_CardinalityType, FS_EmptySet
<1>8. Total(byBucket) = Cardinality(ByThis) + Cardinality(ByLast)
  <2>1. Cardinality(ByThis \union ByLast)
           = Cardinality(ByThis) + Cardinality(ByLast) - Cardinality(ByThis \cap ByLast)
    BY <1>2, FS_Union
  <2> QED
    BY <1>5, <1>7, <2>1 DEF Total
<1> QED
  BY <1>2, <1>6, <1>7, <1>8

LEMMA BucketInductive == TypeOK /\ BucketInv /\ [Next]_vars => BucketInv'
<1> SUFFICES ASSUME TypeOK, BucketInv, [Next]_vars PROVE BucketInv'
  OBVIOUS
<1> USE WindowAssumption, LimitsAssumption
<1>y. /\ bucket.left \in Int /\ bucket.left <= Window /\ bucket.cnt \in Nat
      /\ DOMAIN bucket = {"cnt", "left"} /\ byBucket \in [Ago -> Nat]
      /\ 0 \in Ago /\ \A k \in Ago : k \in 0..(Window - 1)
  BY DEF TypeOK, Ago
<1> DEFINE A == Admissions(byBucket)
<1>f. /\ IsFiniteSet(A) /\ IsFiniteSet(ByThis) /\ IsFiniteSet(ByLast)
      /\ Cardinality(ByThis) \in Nat /\ Cardinality(ByLast) \in Nat
      /\ Total(byBucket) \in Nat /\ Total(byBucket) = Cardinality(A)
      /\ bucket.left <= 0 => ByThis = A
  BY <1>y, BucketParts DEF BucketInv, Total
<1>a. \A p \in A : p = <<p[1], p[2]>> /\ p[1] \in 0..(Window - 1)
  BY <1>y, AdmissionsMember
<1>g. Age \in Int
  BY <1>y DEF Age
<1>1. ASSUME NEW c \in Conns, NEW fault \in Faults, CheckRateLocal(c, fault), bucket.left < 0
      PROVE  BucketInv'
  <2>1. /\ bucket'.cnt = 1 /\ bucket'.left = Window
        /\ byBucket' = [byBucket EXCEPT ![0] = @ + 1] /\ byBucket[0] = 0
    BY <1>1 DEF CheckRateLocal, checkLocalLimit, BucketInv
  <2>2. Admissions(byBucket') = A \union {<<0, 1>>} /\ <<0, 1>> \notin A
    <3>1. byBucket[0] + 1 = 1
      BY <2>1
    <3> QED
      BY <1>y, <2>1, <3>1, AddAdmission
  <2>3. Age' = 0
    BY <2>1 DEF Age
  <2>4. \A p \in A : p[1] # 0
    BY <2>1, AdmissionsMember
  <2>5. <<0, 1>>[1] = 0
    OBVIOUS
  <2>6. ByThis' = {<<0, 1>>} /\ ByLast' = A
    BY <1>a, <2>2, <2>3, <2>4, <2>5 DEF ByThis, ByLast
  <2>7. Cardinality(ByThis') = 1 /\ IsFiniteSet(Admissions(byBucket'))
    <3>1. IsFiniteSet(A \union {<<0, 1>>})
      BY <1>f, FS_AddElement
    <3> QED
      BY <2>2, <2>6, <3>1, FS_Singleton
  <2>8. Cardinality(ByLast') <= Limit - 1
    BY <1>1, <1>f, <2>6 DEF BucketInv
  <2>9. bucket'.left >= 1 /\ Cardinality(ByThis') <= Limit /\ Cardinality(ByThis') <= bucket'.cnt
    BY <2>1, <2>7
  <2>10. ~(bucket'.left < 0) /\ bucket'.left # 0
    BY <2>1
  <2>11. <<Age', 1>> \in Admissions(byBucket')
    BY <2>2, <2>3
  <2> QED
    BY <2>7, <2>8, <2>9, <2>10, <2>11 DEF BucketInv
<1>2. ASSUME NEW c \in Conns, NEW fault \in Faults, CheckRateLocal(c, fault), bucket.left >= 0
      PROVE  BucketInv'
  <2>1. bucket'.cnt = bucket.cnt + 1 /\ bucket'.left = bucket.left /\ Age' = Age /\ Age >= 0
    BY <1>2, <1>y DEF CheckRateLocal, checkLocalLimit, Age
  <2>2. CASE byBucket' = byBucket
    <3>1. ByThis' = ByThis /\ ByLast' = ByLast /\ Total(byBucket') = Total(byBucket)
      BY <2>1, <2>2 DEF ByThis, ByLast
    <3> QED
      BY <1>y, <1>f, <2>1, <2>2, <3>1 DEF BucketInv
  <2>3. CASE byBucket' = [byBucket EXCEPT ![0] = @ + 1] /\ bucket'.cnt <= Limit
    <3>0. PICK x : x = <<0, byBucket[0] + 1>>
      OBVIOUS
    <3>1. Admissions(byBucket') = A \union {x} /\ x \notin A /\ x[1] = 0
      BY <1>y, <2>3, <3>0, AddAdmission
    <3>2. ByThis' = ByThis \union {x} /\ x \notin ByThis /\ ByLast' = ByLast
      BY <1>g, <2>1, <3>1 DEF ByThis, ByLast
    <3>3. Cardinality(ByThis') = Cardinality(ByThis) + 1
      BY <1>f, <3>2, FS_AddElement
    <3>4. IsFiniteSet(Admissions(byBucket'))
      BY <1>f, <3>1, FS_AddElement
    <3>5. Cardinality(ByLast') <= Limit - 1 /\ ~(bucket'.left < 0)
      BY <1>2, <1>y, <2>1, <3>2 DEF BucketInv
    <3>6. CASE bucket.left >= 1
      <4>1. Cardinality(ByThis) <= bucket.cnt /\ <<Age, 1>> \in A /\ bucket'.left # 0
        BY <1>y, <2>1, <3>6 DEF BucketInv
      <4>2. Cardinality(ByThis') <= Limit /\ Cardinality(ByThis') <= bucket'.cnt
        BY <1>f, <1>y, <2>1, <2>3, <3>3, <4>1
      <4>3. <<Age', 1>> \in Admissions(byBucket')
        BY <2>1, <3>1, <4>1
      <4> QED
        BY <3>4, <3>5, <4>1, <4>2, <4>3 DEF BucketInv
    <3>7. CASE bucket.left = 0
      <4>1. Cardinality(ByThis) <= bucket.cnt - 1 /\ ~(bucket'.left >= 1)
        BY <2>1, <3>7 DEF BucketInv
      <4>2. Cardinality(ByThis') <= Limit - 1 /\ Cardinality(ByThis') <= bucket'.cnt - 1
        BY <1>f, <1>y, <2>1, <2>3, <3>3, <4>1
      <4> QED
        BY <3>4, <3>5, <4>1, <4>2 DEF BucketInv
    <3> QED
      BY <1>2, <1>y, <3>6, <3>7
  <2> QED
    BY <1>2, <2>2, <2>3 DEF CheckRateLocal
<1>3. CASE cleanupLocalBuckets
  <2>1. bucket.left < 0 /\ bucket'.left < 0 /\ byBucket' = byBucket
    BY <1>3, <1>y DEF cleanupLocalBuckets, NoBucket
  <2>2. bucket'.left \in Int
    BY <1>3 DEF cleanupLocalBuckets, NoBucket
  <2> QED
    BY <2>1, <2>2 DEF BucketInv
<1>4. CASE Tick
  <2>1. byBucket' = Older(byBucket) /\ bucket'.cnt = bucket.cnt
    BY <1>4, <1>y DEF Tick
  <2>2. byBucket'[0] = 0
    BY <1>y, <2>1, OlderAdmissions
  <2>3. \A p \in Admissions(byBucket') :
            p = <<p[1], p[2]>> /\ p[1] \in 1..(Window - 1) /\ <<p[1] - 1, p[2]>> \in A
    <3>1. \A k \in Ago \ {0} : k \in 1..(Window - 1)
      BY <1>y
    <3> QED
      BY <1>y, <2>1, <3>1, OlderAdmissions
  <2>4. \A p \in Admissions(byBucket') : <<p[1] - 1, p[2]>>[1] = p[1] - 1 /\ p[1] \in Int
    <3>1. \A k, i : <<k, i>>[1] = k
      OBVIOUS
    <3>2. ASSUME NEW p \in Admissions(byBucket') PROVE p[1] \in Int
      <4>1. p[1] \in 1..(Window - 1)
        BY <2>3
      <4> QED
        BY <4>1
    <3> QED
      BY <3>1, <3>2
  <2>5. IsFiniteSet(Admissions(byBucket')) /\ Total(byBucket') <= Total(byBucket)
        /\ Total(byBucket') \in Nat
    BY <1>f, <2>3, <2>4, Shrinks, FS_CardinalityType DEF Total
  <2>6. CASE bucket.left < 0
    <3>1. bucket'.left < 0 /\ bucket'.left \in Int
      BY <1>4, <1>y, <2>6 DEF Tick
    <3> QED
      BY <1>f, <2>2, <2>5, <2>6, <3>1 DEF BucketInv
  <2>7. CASE bucket.left = 0
    <3>1. bucket'.left = -1
      BY <1>4, <1>y, <2>7 DEF Tick
    <3>2. Total(byBucket) <= Limit - 1
      BY <1>f, <2>7 DEF BucketInv
    <3> QED
      BY <1>f, <2>2, <2>5, <3>1, <3>2 DEF BucketInv
  <2>8. CASE bucket.left >= 1
    <3>1. bucket'.left = bucket.left - 1 /\ Age' = Age + 1
      BY <1>4, <1>y, <2>8 DEF Tick, Age
    <3>b. /\ Cardinality(ByLast) <= Limit - 1
          /\ Cardinality(ByThis) <= Limit /\ Cardinality(ByThis) <= bucket.cnt
          /\ <<Age, 1>> \in A
      BY <1>y, <2>8 DEF BucketInv
    <3>2. \A p \in ByLast' : p = <<p[1], p[2]>> /\ p[1] \in Int /\ <<p[1] - 1, p[2]>> \in ByLast
      <4> SUFFICES ASSUME NEW p \in ByLast'
                   PROVE  p = <<p[1], p[2]>> /\ p[1] \in Int /\ <<p[1] - 1, p[2]>> \in ByLast
        OBVIOUS
      <4>1. p \in Admissions(byBucket') /\ p[1] > Age + 1
        BY <3>1 DEF ByLast
      <4>2. p = <<p[1], p[2]>> /\ p[1] \in Int /\ <<p[1] - 1, p[2]>> \in A
            /\ <<p[1] - 1, p[2]>>[1] = p[1] - 1
        BY <2>3, <2>4, <4>1
      <4>3. p[1] - 1 > Age
        BY <1>g, <4>1, <4>2
      <4> QED
        BY <4>2, <4>3 DEF ByLast
    <3>3. Cardinality(ByLast') <= Cardinality(ByLast) /\ Cardinality(ByLast') \in Nat
      BY <1>f, <3>2, Shrinks, FS_CardinalityType
    <3>4. \A p \in ByThis' : p = <<p[1], p[2]>> /\ p[1] \in Int /\ <<p[1] - 1, p[2]>> \in ByThis
      <4> SUFFICES ASSUME NEW p \in ByThis'
                   PROVE  p = <<p[1], p[2]>> /\ p[1] \in Int /\ <<p[1] - 1, p[2]>> \in ByThis
        OBVIOUS
      <4>1. p \in Admissions(byBucket') /\ p[1] <= Age + 1
        BY <3>1 DEF ByThis
      <4>2. p = <<p[1], p[2]>> /\ p[1] \in Int /\ <<p[1] - 1, p[2]>> \in A
            /\ <<p[1] - 1, p[2]>>[1] = p[1] - 1
        BY <2>3, <2>4, <4>1
      <4>3. p[1] - 1 <= Age
        BY <1>g, <4>1, <4>2
      <4> QED
        BY <4>2, <4>3 DEF ByThis
    <3>5. CASE bucket.left >= 2
      <4>1. Cardinality(ByThis') <= Cardinality(ByThis) /\ Cardinality(ByThis') \in Nat
        BY <1>f, <3>4, Shrinks, FS_CardinalityType
      <4>2. Age \in Ago /\ Age + 1 \in Ago /\ 1 \in 1..byBucket[Age]
        <5>1. Age \in Ago /\ 1 \in 1..byBucket[Age]
          BY <3>b, AdmissionsMember
        <5>2. Age + 1 \in Ago
          BY <1>g, <1>y, <3>5, <5>1 DEF Age, Ago
        <5> QED
          BY <5>1, <5>2
      <4>3. <<Age', 1>> \in Admissions(byBucket')
        <5>1. byBucket'[Age + 1] = byBucket[Age]
          BY <1>y, <2>1, <4>2, OlderAdmissions
        <5> QED
          BY <3>1, <4>2, <5>1, AdmissionsMember
      <4>4. bucket'.left >= 1 /\ bucket'.left \in Int
        BY <1>y, <3>1, <3>5
      <4> QED
        BY <1>f, <1>y, <2>1, <2>5, <3>b, <3>3, <4>1, <4>3, <4>4 DEF BucketInv
    <3>6. CASE bucket.left = 1
      <4>0. PICK x : x = <<Age, 1>>
        OBVIOUS
      <4>1. x \in ByThis /\ Age = Window - 1 /\ x[1] = Window - 1
        BY <1>g, <3>b, <3>6, <4>0 DEF ByThis, Age
      <4>2. \A p \in ByThis' : <<p[1] - 1, p[2]>> # x
        BY <2>3, <2>4, <4>1 DEF ByThis
      <4>3. \A p \in ByThis' : /\ p = <<p[1], p[2]>> /\ p[1] \in Int
                               /\ <<p[1] - 1, p[2]>> \in ByThis \ {x}
        BY <3>4, <4>2
      <4>4. /\ IsFiniteSet(ByThis \ {x})
            /\ Cardinality(ByThis \ {x}) = Cardinality(ByThis) - 1
        BY <1>f, <4>1, FS_RemoveElement
      <4>5. Cardinality(ByThis') <= Cardinality(ByThis) - 1 /\ Cardinality(ByThis') \in Nat
        <5>1. IsFiniteSet(ByThis') /\ Cardinality(ByThis') <= Cardinality(ByThis \ {x})
          BY <4>3, <4>4, Shrinks
        <5> QED
          BY <4>4, <5>1, FS_CardinalityType
      <4>6. bucket'.left = 0
        BY <3>1, <3>6
      <4> QED
        BY <1>f, <1>y, <2>1, <2>5, <3>b, <3>3, <4>5, <4>6 DEF BucketInv
    <3> QED
      BY <1>y, <2>8, <3>5, <3>6
  <2> QED
    BY <1>y, <2>6, <2>7, <2>8
<1>5. CASE UNCHANGED <<bucket, byBucket>>
  BY <1>5 DEF BucketInv, ByThis, ByLast, Age
<1>6. \A c \in Conns : CheckRateRedis(c) => UNCHANGED <<bucket, byBucket>>
  BY DEF CheckRateRedis
<1> QED
  BY <1>1, <1>2, <1>3, <1>4, <1>5, <1>6, <1>y
     DEF Next, CheckGlobal, IncrementConnection, DecrementConnection, vars

(* Whatever Redis does, the buckets in memory admit less than twice the    *)
(* limit within any stretch of time as long as the window.                 *)
THEOREM FallbackStaysBounded == Spec => []FallbackBounded
<1>1. Init => BucketInv
  <2> SUFFICES ASSUME Init PROVE BucketInv
    OBVIOUS
  <2>1. \A k \in Ago : byBucket[k] = 0
    BY DEF Init
  <2>2. IsFiniteSet(Admissions(byBucket)) /\ Total(byBucket) = 0
    BY <2>1, NoAdmissions
  <2>3. 0 \in Ago /\ bucket.left \in Int /\ bucket.left < 0
    BY WindowAssumption DEF Init, NoBucket, Ago
  <2> QED
    BY <2>1, <2>2, <2>3, LimitsAssumption DEF BucketInv
<1>2. TypeOK /\ BucketInv => FallbackBounded
  <2> SUFFICES ASSUME TypeOK, BucketInv PROVE FallbackBounded
    OBVIOUS
  <2>1. bucket.left \in Int
    BY WindowAssumption DEF TypeOK
  <2>2. /\ Cardinality(ByThis) \in Nat /\ Cardinality(ByLast) \in Nat
        /\ Total(byBucket) = Cardinality(ByThis) + Cardinality(ByLast)
    BY <2>1, BucketParts DEF BucketInv
  <2>3. CASE bucket.left < 0
    BY <2>1, <2>2, <2>3, LimitsAssumption DEF BucketInv, FallbackBounded
  <2>4. CASE bucket.left >= 0
    <3>1. Cardinality(ByLast) <= Limit - 1 /\ Cardinality(ByThis) <= Limit
      BY <2>1, <2>2, <2>4, LimitsAssumption DEF BucketInv
    <3> QED
      BY <2>2, <3>1, LimitsAssumption DEF FallbackBounded
  <2> QED
    BY <2>1, <2>3, <2>4
<1> QED
  BY <1>1, <1>2, TypeCorrect, BucketInductive, PTL DEF Spec
=============================================================================
