----------------------------- MODULE Submission -----------------------------
(***************************************************************************)
(* SMTP submission (internal/smtpserver/session.go): concurrent sessions   *)
(* of one user that authenticate, open transactions and hand messages to   *)
(* the spool, and the limits of internal/ratelimit they share in Redis.    *)
(* The sessions that are not in the allowlist come from one address.       *)
(*                                                                         *)
(* go-smtp is external.  It calls the methods of one session one at a      *)
(* time, calls Reset after RSET and after every DATA, and refuses a second *)
(* AUTH once one succeeded; nothing else is assumed of the order in which  *)
(* a client's commands arrive.  Expiry of the counters in Redis is         *)
(* abstracted to a step that may happen at any time (module Admission has  *)
(* the timing).                                                            *)
(*                                                                         *)
(* AUTH and MAIL fall back to local buckets when Redis fails, which        *)
(* Admission models; CheckUserRecipients has no fallback, so its failing   *)
(* commands are modelled here.                                             *)
(***************************************************************************)
EXTENDS Integers, FiniteSets

CONSTANTS
    Sessions,           \* sessions that exist at the same time
    Allowlisted,        \* those whose address is in the IP allowlist
    Senders,            \* reverse paths clients use
    MaxRecipients,      \* config.SMTP.MaxRecipients
    UserRecipients,     \* userRecipientsPerHour
    UserMessages,       \* userMessagesPerHour
    FailedAuth,         \* ipFailedAuthPerHour
    MaxRedisErrors,     \* bound: Redis commands that fail
    MaxAttempts         \* bound: AUTH and MAIL commands between two expiries

ASSUME SessionsAssumption ==
    IsFiniteSet(Sessions) /\ Sessions # {} /\ Allowlisted \subseteq Sessions
ASSUME LimitsAssumption ==
    /\ MaxRecipients \in Nat \ {0} /\ UserRecipients \in Nat
    /\ UserMessages \in Nat /\ FailedAuth \in Nat
    /\ MaxRedisErrors \in Nat /\ MaxAttempts \in Nat

VARIABLES
    pc,            \* pc[s]: ready for a command, or a point inside Data
    authenticated, \* authenticated[s]
    step,          \* step[s]: the step of a SASL LOGIN exchange
    mailFrom,      \* mailFrom[s]; the null sender when unset
    rcptTo,        \* rcptTo[s]: how many recipients are listed
    current,       \* current[s]: the count Data read from Redis
    authCount,     \* ratelimit:ip:auth:<ip>
    msgCount,      \* ratelimit:user:msg:<user>
    rcptCount,     \* ratelimit:user:rcpt:<user>
    redisErrors,
    granted,       \* ghost: recipients Data let through since rcptCount expired
    mailed,        \* ghost: MAIL was answered 250 in this transaction
    proved,        \* ghost: the allowlist or a password let this session in
    reply          \* ghost: what the last command was answered

vars == <<pc, authenticated, step, mailFrom, rcptTo, current, authCount, msgCount,
          rcptCount, redisErrors, granted, mailed, proved, reply>>
counters == <<authCount, msgCount, rcptCount, redisErrors, granted>>

(* The null sender, and what mailFrom holds when it is unset. *)
NoSender == ""

(* What clients are answered, and after which command. *)
Reply == [code : {220, 250, 421, 450, 451, 452, 503, 530, 535, 552},
          cmd : {"EHLO", "AUTH", "MAIL", "RCPT", "DATA", "RSET"},
          mailed : BOOLEAN, proved : BOOLEAN]

(* One type invariant. *)
TypeOK ==
    /\ pc \in [Sessions -> {"ready", "counting", "reading", "spooling"}]
    /\ authenticated \in [Sessions -> BOOLEAN]
    /\ step \in [Sessions -> 0..2]
    /\ mailFrom \in [Sessions -> Senders \union {NoSender}]
    /\ rcptTo \in [Sessions -> 0..MaxRecipients]
    /\ current \in [Sessions -> Nat]
    /\ authCount \in Nat /\ msgCount \in Nat /\ rcptCount \in Nat
    /\ redisErrors \in Nat /\ granted \in Nat
    /\ mailed \in [Sessions -> BOOLEAN] /\ proved \in [Sessions -> BOOLEAN]
    /\ reply \in Reply

(* What a client is told, and what was true of its session at that time. *)
Answer(s, cmd, code) ==
    reply' = [cmd |-> cmd, code |-> code, mailed |-> mailed[s], proved |-> proved[s]]

Set(f, s, v) == [f EXCEPT ![s] = v]

-----------------------------------------------------------------------------
(* Authentication *)

(* ipAuth.IsAllowed: the client's address is in one of the listed networks. *)
IsAllowed(s) == s \in Allowlisted

(* CheckIPFailedAuth counts every attempt, before its outcome is known. *)
CheckIPFailedAuth == authCount + 1 <= FailedAuth

(* redisAuth.Authenticate: an unknown user, a wrong password and a failing *)
(* Redis are all refused alike; right says that it is none of these.       *)
Authenticate(right) == right

(* authenticate: the allowlist first, then the limit, then the password. *)
authenticate(s, right) ==
    LET success == IsAllowed(s) \/ (CheckIPFailedAuth /\ Authenticate(right)) IN
    /\ ~IsAllowed(s) => authCount < MaxAttempts
    /\ authCount' = IF IsAllowed(s) THEN authCount ELSE authCount + 1
    /\ authenticated' = Set(authenticated, s, success)
    /\ proved' = Set(proved, s, IsAllowed(s) \/ right)
    /\ step' = Set(step, s, 0)
    /\ Answer(s, "AUTH", IF success THEN 220 ELSE IF CheckIPFailedAuth THEN 535 ELSE 421)

(* go-smtp offers AUTH to a session that has not succeeded with it yet. *)
MayAuth(s) == pc[s] = "ready" /\ ~authenticated[s]

(* AUTH PLAIN: one well-formed response carries both name and password; a  *)
(* malformed one is refused and changes nothing.                           *)
nextPlain(s, right) ==
    /\ MayAuth(s) /\ step[s] = 0
    /\ authenticate(s, right)
    /\ UNCHANGED <<pc, mailFrom, rcptTo, current, msgCount, rcptCount, redisErrors, granted, mailed>>

(* AUTH LOGIN: ask for the name, take it and ask for the password, take it. *)
nextLogin(s, right) ==
    /\ MayAuth(s)
    /\ \/ /\ step[s] < 2
          /\ step' = Set(step, s, step[s] + 1)
          /\ UNCHANGED <<authenticated, proved, authCount, reply>>
       \/ step[s] = 2 /\ authenticate(s, right)
    /\ UNCHANGED <<pc, mailFrom, rcptTo, current, msgCount, rcptCount, redisErrors, granted, mailed>>

(* The client gives up an exchange; the next AUTH has a new saslServer. *)
CancelAuth(s) ==
    /\ step[s] > 0
    /\ step' = Set(step, s, 0)
    /\ UNCHANGED <<pc, authenticated, mailFrom, rcptTo, current, counters, mailed, proved, reply>>

Idle(s) == pc[s] = "ready" /\ step[s] = 0

-----------------------------------------------------------------------------
(* Transactions *)

CheckUserMessages == msgCount + 1 <= UserMessages

(* The verdicts of CheckGlobalMessages: the rate of all users together is  *)
(* not kept in this module.                                                *)
CheckGlobalMessages == BOOLEAN

(* MAIL: authentication, the user's message rate, the global rate, then    *)
(* the sender is noted.                                                    *)
Mail(s, from) ==
    /\ Idle(s)
    /\ \/ /\ ~authenticated[s]
          /\ Answer(s, "MAIL", 530)
          /\ UNCHANGED <<mailFrom, msgCount, mailed>>
       \/ /\ authenticated[s] /\ msgCount < MaxAttempts
          /\ msgCount' = msgCount + 1
          /\ \E within \in CheckGlobalMessages :
                \/ /\ CheckUserMessages /\ within
                   /\ mailFrom' = Set(mailFrom, s, from)
                   /\ mailed' = Set(mailed, s, TRUE)
                   /\ Answer(s, "MAIL", 250)
                \/ /\ ~(CheckUserMessages /\ within)
                   /\ Answer(s, "MAIL", 450)
                   /\ UNCHANGED <<mailFrom, mailed>>
    /\ UNCHANGED <<pc, authenticated, step, rcptTo, current, authCount, rcptCount,
                   redisErrors, granted, proved>>

(* RCPT: an empty mailFrom counts as no MAIL. *)
Rcpt(s) ==
    /\ Idle(s)
    /\ \/ mailFrom[s] = NoSender /\ Answer(s, "RCPT", 503) /\ UNCHANGED rcptTo
       \/ /\ mailFrom[s] # NoSender /\ rcptTo[s] >= MaxRecipients
          /\ Answer(s, "RCPT", 452)
          /\ UNCHANGED rcptTo
       \/ /\ mailFrom[s] # NoSender /\ rcptTo[s] < MaxRecipients
          /\ rcptTo' = Set(rcptTo, s, rcptTo[s] + 1)
          /\ Answer(s, "RCPT", 250)
    /\ UNCHANGED <<pc, authenticated, step, mailFrom, current, counters, mailed, proved>>

(* A mistake: the sender survives. *)
MutResetKeepsSender(s) == rcptTo' = Set(rcptTo, s, 0) /\ UNCHANGED mailFrom

Reset(s) ==
    /\ mailFrom' = Set(mailFrom, s, NoSender)
    /\ rcptTo' = Set(rcptTo, s, 0)

(* RSET *)
Rset(s) ==
    /\ Idle(s)
    /\ Reset(s)
    /\ mailed' = Set(mailed, s, FALSE)
    /\ Answer(s, "RSET", 250)
    /\ UNCHANGED <<pc, authenticated, step, current, counters, proved>>

(* Data returns, and go-smtp resets the transaction. *)
EndData(s, code) ==
    /\ pc' = Set(pc, s, "ready")
    /\ current' = Set(current, s, 0)
    /\ Reset(s)
    /\ mailed' = Set(mailed, s, FALSE)
    /\ Answer(s, "DATA", code)

(* CheckUserRecipients, its GET: a missing key and an error both read 0. *)
DataGet(s) ==
    LET answers == {rcptCount} \union (IF redisErrors < MaxRedisErrors THEN {0} ELSE {}) IN
    /\ Idle(s)
    /\ \/ /\ rcptTo[s] = 0
          /\ EndData(s, 503)
          /\ UNCHANGED redisErrors
       \/ /\ rcptTo[s] > 0
          /\ \E c \in answers :
                /\ redisErrors' = IF c = rcptCount THEN redisErrors ELSE redisErrors + 1
                /\ \/ /\ c + rcptTo[s] > UserRecipients
                      /\ EndData(s, 450)
                   \/ /\ c + rcptTo[s] <= UserRecipients
                      /\ current' = Set(current, s, c)
                      /\ pc' = Set(pc, s, "counting")
                      /\ UNCHANGED <<mailFrom, rcptTo, mailed, reply>>
    /\ UNCHANGED <<authenticated, step, authCount, msgCount, rcptCount, granted, proved>>

(* A mistake: INCR where INCRBY is meant. *)
MutCountMessages(s) ==
    /\ pc[s] = "counting"
    /\ \/ rcptCount' = rcptCount + 1 /\ UNCHANGED redisErrors
       \/ redisErrors < MaxRedisErrors /\ redisErrors' = redisErrors + 1 /\ UNCHANGED rcptCount
    /\ granted' = granted + rcptTo[s]
    /\ pc' = Set(pc, s, "reading")
    /\ UNCHANGED <<authenticated, step, mailFrom, rcptTo, current, authCount, msgCount,
                   mailed, proved, reply>>

(* CheckUserRecipients, its INCRBY and EXPIRE: an error is logged only. *)
DataCount(s) ==
    /\ pc[s] = "counting"
    /\ \/ rcptCount' = rcptCount + rcptTo[s] /\ UNCHANGED redisErrors
       \/ redisErrors < MaxRedisErrors /\ redisErrors' = redisErrors + 1 /\ UNCHANGED rcptCount
    /\ granted' = granted + rcptTo[s]
    /\ pc' = Set(pc, s, "reading")
    /\ UNCHANGED <<authenticated, step, mailFrom, rcptTo, current, authCount, msgCount,
                   mailed, proved, reply>>

(* The content is read, unless the connection breaks or it is too large. *)
DataRead(s) ==
    /\ pc[s] = "reading"
    /\ \/ /\ pc' = Set(pc, s, "spooling")
          /\ UNCHANGED <<mailFrom, rcptTo, current, mailed, reply>>
       \/ \E code \in {451, 552} : EndData(s, code)
    /\ UNCHANGED <<authenticated, step, counters, proved>>

(* spool.Write (module Spool), then 250 or 451. *)
DataSpool(s) ==
    /\ pc[s] = "spooling"
    /\ \E code \in {250, 451} : EndData(s, code)
    /\ UNCHANGED <<authenticated, step, counters, proved>>

(* Logout and a new session in its place: nothing is carried over. *)
Reconnect(s) ==
    /\ Idle(s)
    /\ Reset(s)
    /\ authenticated' = Set(authenticated, s, FALSE)
    /\ mailed' = Set(mailed, s, FALSE)
    /\ proved' = Set(proved, s, FALSE)
    /\ Answer(s, "EHLO", 250)
    /\ UNCHANGED <<pc, step, current, counters>>

(* Counters expire in Redis. *)
ExpireAuth ==
    /\ authCount > 0
    /\ authCount' = 0
    /\ UNCHANGED <<pc, authenticated, step, mailFrom, rcptTo, current, msgCount, rcptCount,
                   redisErrors, granted, mailed, proved, reply>>

ExpireMessages ==
    /\ msgCount > 0
    /\ msgCount' = 0
    /\ UNCHANGED <<pc, authenticated, step, mailFrom, rcptTo, current, authCount, rcptCount,
                   redisErrors, granted, mailed, proved, reply>>

ExpireRecipients ==
    /\ rcptCount > 0
    /\ rcptCount' = 0 /\ granted' = 0
    /\ UNCHANGED <<pc, authenticated, step, mailFrom, rcptTo, current, authCount, msgCount,
                   redisErrors, mailed, proved, reply>>

Init ==
    /\ pc = [s \in Sessions |-> "ready"]
    /\ authenticated = [s \in Sessions |-> FALSE]
    /\ step = [s \in Sessions |-> 0]
    /\ mailFrom = [s \in Sessions |-> NoSender]
    /\ rcptTo = [s \in Sessions |-> 0]
    /\ current = [s \in Sessions |-> 0]
    /\ authCount = 0 /\ msgCount = 0 /\ rcptCount = 0 /\ redisErrors = 0
    /\ granted = 0
    /\ mailed = [s \in Sessions |-> FALSE]
    /\ proved = [s \in Sessions |-> FALSE]
    /\ reply = [cmd |-> "EHLO", code |-> 250, mailed |-> FALSE, proved |-> FALSE]

SessionStep(s) ==
    \/ \E right \in BOOLEAN : nextPlain(s, right) \/ nextLogin(s, right)
    \/ CancelAuth(s)
    \/ \E from \in Senders : Mail(s, from)
    \/ Rcpt(s)
    \/ Rset(s)
    \/ DataGet(s) \/ DataCount(s) \/ DataRead(s) \/ DataSpool(s)
    \/ Reconnect(s)

Next ==
    \/ \E s \in Sessions : SessionStep(s)
    \/ ExpireAuth \/ ExpireMessages \/ ExpireRecipients

Spec == Init /\ [][Next]_vars

-----------------------------------------------------------------------------
(* Properties *)

(* A message is accepted only from a session that the allowlist or the     *)
(* right password let in since it was opened, and only in a transaction    *)
(* that MAIL opened: nothing survives a Reset, a failed DATA or a new      *)
(* session.                                                                *)
AcceptedIsEntitled ==
    reply.cmd = "DATA" /\ reply.code = 250 => reply.mailed /\ reply.proved

(* The recipients let through before the counter expires exceed the user's *)
(* limit by at most one message's recipients for every other session and   *)
(* every Redis command that failed: CheckUserRecipients reads, compares    *)
(* and adds in separate commands, and takes an error for a count of 0.     *)
RecipientsBounded ==
    granted <= UserRecipients + (Cardinality(Sessions) - 1 + redisErrors) * MaxRecipients
=============================================================================
