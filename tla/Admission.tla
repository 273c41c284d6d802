----------------------------- MODULE Admission -----------------------------
(***************************************************************************)
(* How NewSession (internal/smtpserver/session.go) lets connections of one *)
(* client address in: the limit on open sessions, then the rate of new     *)
(* connections, both kept by Limiter (internal/ratelimit/ratelimit.go).    *)
(*                                                                         *)
(* The counter of sessions is locked for each access, but NewSession       *)
(* compares it, unlocks, asks Redis for the rate, and only then counts     *)
(* itself.  The rate is a counter in Redis that expires, and a bucket in   *)
(* memory used while Redis cannot be reached.  CheckIPFailedAuth,          *)
(* CheckUserMessages and CheckGlobalMessages are limits of the same kind,  *)
(* each with its own key, limit and window; what is said of the rate here  *)
(* holds of them too.                                                      *)
(*                                                                         *)
(* Redis itself is external: INCR, EXPIRE and expiry are modelled by their *)
(* documented effect.                                                      *)
(***************************************************************************)
EXTENDS Integers, FiniteSets

CONSTANTS
    Conns,         \* connections of the address
    GlobalLimit,   \* globalConcurrentConns
    Limit,         \* ipConnectionsPerMinute
    Window,        \* the minute, in ticks
    Grace,         \* how long cleanupLocalBuckets leaves an expired bucket
    Faults,        \* what may happen to a pipeline: a subset of AllFaults
    MaxInFlight,   \* bound: NewSession calls running at the same time
    MaxCount       \* bound: the counts of requests told apart

(*   down   nothing of the pipeline is executed                            *)
(*   half   INCR is executed, then the connection breaks                   *)
AllFaults == {"down", "half"}

ASSUME ConnsAssumption == IsFiniteSet(Conns)
ASSUME LimitsAssumption == GlobalLimit \in Nat \ {0} /\ Limit \in Nat \ {0}
ASSUME WindowAssumption == Window \in Nat \ {0} /\ Grace \in Nat
ASSUME FaultsAssumption == Faults \subseteq AllFaults
ASSUME BoundsAssumption == MaxInFlight \in Nat \ {0} /\ MaxCount \in Nat /\ MaxCount > Limit

VARIABLES
    pc,                  \* pc[c]: how far NewSession is for connection c
    currentConnections,  \* the counter of open sessions
    redis,               \* the key in Redis: its count and time to live
    bucket,              \* localBuckets[key]: its count, time to resetTime
    byRedis,             \* ghost: byRedis[k] = admitted by Redis k ticks ago
    byBucket,            \* ghost: the same of the bucket
    quiet                \* ghost: ticks since the last request, up to Window + 1

vars == <<pc, currentConnections, redis, bucket, byRedis, byBucket, quiet>>
rate == <<redis, bucket, byRedis, byBucket, quiet>>

At(l) == {c \in Conns : pc[c] = l}
InFlight == At("checked") \union At("allowed")

Ago == 0..(Window - 1)
Never == Window + 1                     \* the ttl of a key without expiry
NoKey == [cnt |-> 0, ttl |-> 0]
NoBucket == [cnt |-> 0, left |-> -(Grace + 1)]

(* One type invariant: counters and clocks in range, expired keys gone. *)
TypeOK ==
    /\ pc \in [Conns -> {"none", "checked", "allowed", "open"}]
    /\ currentConnections \in Nat
    /\ redis \in [cnt : 0..MaxCount, ttl : 0..Never]
    /\ (redis.ttl = 0) = (redis.cnt = 0)
    /\ bucket \in [cnt : 0..MaxCount, left : -(Grace + 1)..Window]
    /\ byRedis \in [Ago -> Nat] /\ byBucket \in [Ago -> Nat]
    /\ quiet \in 0..(Window + 1)

-----------------------------------------------------------------------------
(* The limit on open sessions *)

(* A mistake: off by one. *)
MutCheckOffByOne(c) ==
    /\ pc[c] = "none"
    /\ Cardinality(InFlight) < MaxInFlight
    /\ currentConnections <= GlobalLimit
    /\ pc' = [pc EXCEPT ![c] = "checked"]
    /\ UNCHANGED <<currentConnections, rate>>

(* CheckIPConnection up to the unlock; a full server answers 421. *)
CheckGlobal(c) ==
    /\ pc[c] = "none"
    /\ Cardinality(InFlight) < MaxInFlight
    /\ currentConnections < GlobalLimit
    /\ pc' = [pc EXCEPT ![c] = "checked"]
    /\ UNCHANGED <<currentConnections, rate>>

IncrementConnection(c) ==
    /\ pc[c] = "allowed"
    /\ pc' = [pc EXCEPT ![c] = "open"]
    /\ currentConnections' = currentConnections + 1
    /\ UNCHANGED rate

(* A mistake: Logout does not give the place back. *)
MutDecrementForgotten(c) ==
    /\ pc[c] = "open"
    /\ pc' = [pc EXCEPT ![c] = "none"]
    /\ UNCHANGED <<currentConnections, rate>>

(* A mistake: a session that was never counted is logged out as well. *)
MutDecrementOnReject(c) ==
    /\ pc[c] \in {"open", "checked"}
    /\ pc' = [pc EXCEPT ![c] = "none"]
    /\ currentConnections' = currentConnections - 1
    /\ UNCHANGED rate

(* Logout: the client leaves, is cut off, or starts TLS (go-smtp logs the  *)
(* session out and opens a new one after STARTTLS).                        *)
DecrementConnection(c) ==
    /\ pc[c] = "open"
    /\ pc' = [pc EXCEPT ![c] = "none"]
    /\ currentConnections' = currentConnections - 1
    /\ UNCHANGED rate

-----------------------------------------------------------------------------
(* The rate of new connections *)

(* Only INCR was executed: a new key does not expire. *)
IncrOnly == redis' = [cnt |-> redis.cnt + 1, ttl |-> IF redis.cnt = 0 THEN Never ELSE redis.ttl]

(* A mistake: EXPIRE is sent for a new key only. *)
MutFixedWindow ==
    redis' = [cnt |-> redis.cnt + 1, ttl |-> IF redis.cnt = 0 THEN Window ELSE redis.ttl]

(* checkRedisLimit: INCR and EXPIRE, whatever the count. *)
checkRedisLimit == redis' = [cnt |-> redis.cnt + 1, ttl |-> Window]

(* A mistake: a bucket is replaced while it has still time to run. *)
MutBucketResetEarly ==
    bucket' = IF bucket.left < Window THEN [cnt |-> 1, left |-> Window]
                                      ELSE [bucket EXCEPT !.cnt = @ + 1]

(* A mistake: resetTime is looked at only when the bucket is made. *)
MutBucketNeverReset ==
    bucket' = IF bucket.cnt = 0 THEN [cnt |-> 1, left |-> Window]
                                ELSE [bucket EXCEPT !.cnt = @ + 1]

(* checkLocalLimit: a new bucket once resetTime has passed. *)
checkLocalLimit ==
    bucket' = IF bucket.left < 0 THEN [cnt |-> 1, left |-> Window]
                                 ELSE [bucket EXCEPT !.cnt = @ + 1]

Verdict(c, allowed) ==
    /\ pc' = [pc EXCEPT ![c] = IF allowed THEN "allowed" ELSE "none"]
    /\ quiet' = 0
    /\ UNCHANGED currentConnections

(* The rest of CheckIPConnection: Redis counts the request and decides ... *)
CheckRateRedis(c) ==
    /\ pc[c] = "checked" /\ redis.cnt < MaxCount
    /\ checkRedisLimit
    /\ LET allowed == redis'.cnt <= Limit IN
          /\ Verdict(c, allowed)
          /\ byRedis' = IF allowed THEN [byRedis EXCEPT ![0] = @ + 1] ELSE byRedis
    /\ UNCHANGED <<bucket, byBucket>>

(* ... or its pipeline returns an error and the bucket decides. *)
CheckRateLocal(c, fault) ==
    /\ pc[c] = "checked" /\ redis.cnt < MaxCount /\ bucket.cnt < MaxCount
    /\ IF fault = "half" THEN IncrOnly ELSE UNCHANGED redis
    /\ checkLocalLimit
    /\ LET allowed == bucket'.cnt <= Limit IN
          /\ Verdict(c, allowed)
          /\ byBucket' = IF allowed THEN [byBucket EXCEPT ![0] = @ + 1] ELSE byBucket
    /\ UNCHANGED byRedis

cleanupLocalBuckets ==
    /\ bucket.cnt > 0 /\ bucket.left < -Grace
    /\ bucket' = NoBucket
    /\ UNCHANGED <<pc, currentConnections, redis, byRedis, byBucket, quiet>>

Older(f) == [k \in Ago |-> IF k = 0 THEN 0 ELSE f[k - 1]]

(* A unit of time passes: keys expire, buckets age. *)
Tick ==
    /\ redis' = IF redis.ttl \in {0, Never} THEN redis
                ELSE IF redis.ttl = 1 THEN NoKey ELSE [redis EXCEPT !.ttl = @ - 1]
    /\ bucket' = IF bucket.left > -(Grace + 1) THEN [bucket EXCEPT !.left = @ - 1] ELSE bucket
    /\ byRedis' = Older(byRedis) /\ byBucket' = Older(byBucket)
    /\ quiet' = IF quiet <= Window THEN quiet + 1 ELSE quiet
    /\ UNCHANGED <<pc, currentConnections>>

Init ==
    /\ pc = [c \in Conns |-> "none"]
    /\ currentConnections = 0
    /\ redis = NoKey /\ bucket = NoBucket
    /\ byRedis = [k \in Ago |-> 0] /\ byBucket = [k \in Ago |-> 0]
    /\ quiet = Window + 1

Next ==
    \/ \E c \in Conns :
          \/ CheckGlobal(c)
          \/ CheckRateRedis(c)
          \/ \E fault \in Faults : CheckRateLocal(c, fault)
          \/ IncrementConnection(c)
          \/ DecrementConnection(c)
    \/ cleanupLocalBuckets
    \/ Tick

Spec == Init /\ [][Next]_vars

-----------------------------------------------------------------------------
(* Properties *)

(* The admissions that f counts: the i-th of those k ticks ago is <<k, i>>. *)
Admissions(f) == UNION {{k} \X (1..f[k]) : k \in Ago}
Total(f) == Cardinality(Admissions(f))

(* NewSession turns connection c away because of its rate. *)
TurnsAway(c) == pc[c] = "checked" /\ pc'[c] = "none"

(* The counter is the number of sessions, however they interleave: a       *)
(* session gives its place back exactly once, a refused one never had one. *)
CounterIsExact == currentConnections = Cardinality(At("open"))

(* The race between the check and the count lets the limit be exceeded,    *)
(* but only by the calls of NewSession that overlap, less one.             *)
OvershootBounded == Cardinality(At("open")) <= GlobalLimit + MaxInFlight - 1

(* No window of that length, wherever it starts, sees more admissions by   *)
(* Redis than the limit: because checkRedisLimit repeats EXPIRE on every   *)
(* request the count is only forgotten after a whole window of silence.    *)
SlidingWindowKept == Total(byRedis) <= Limit

(* The fallback's window is fixed, not sliding, so it may admit nearly     *)
(* twice the limit within a window, on top of what Redis admits.  It is    *)
(* never quite twice, as the request that opened a bucket is more than a   *)
(* window old when checkLocalLimit opens the next.                         *)
FallbackBounded == Total(byBucket) <= 2 * Limit - 1

(* A client that was silent for longer than a window is always admitted,   *)
(* unless a pipeline broke after the INCR that made its key: that key has  *)
(* no expiry until another request sets one.                               *)
QuietIsAdmitted ==
    [][quiet > Window /\ redis.ttl # Never => \A c \in Conns : ~TurnsAway(c)]_vars
=============================================================================
