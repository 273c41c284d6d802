-------------------------- MODULE SubmissionProofs --------------------------
(***************************************************************************)
(* Proofs about module Submission, for any sessions, senders and limits.   *)
(***************************************************************************)
EXTENDS Submission, FiniteSetTheorems, TLAPS

USE DEF counters, Set

(* What a transaction rests on: who is authenticated was let in, recipients *)
(* are listed only after MAIL and by such a session, and Data runs only for *)
(* a transaction with recipients.                                           *)
Entitlement ==
    \A s \in Sessions :
        /\ authenticated[s] => proved[s]
        /\ mailFrom[s] # NoSender => mailed[s] /\ authenticated[s]
        /\ rcptTo[s] > 0 => mailed[s] /\ authenticated[s]
        /\ pc[s] # "ready" => rcptTo[s] > 0

EntitledInv == TypeOK /\ Entitlement /\ AcceptedIsEntitled

-----------------------------------------------------------------------------
(* Types *)

(* An answer is a reply of the protocol. *)
LEMMA AnswerType ==
    ASSUME NEW s \in Sessions, TypeOK,
           NEW cmd \in {"EHLO", "AUTH", "MAIL", "RCPT", "DATA", "RSET"},
           NEW code \in {220, 250, 421, 450, 451, 452, 503, 530, 535, 552},
           Answer(s, cmd, code)
    PROVE  reply' \in Reply
<1>1. mailed[s] \in BOOLEAN /\ proved[s] \in BOOLEAN
  BY DEF TypeOK
<1> QED
  BY <1>1 DEF Answer, Reply

(* The sessions and the counters stay well formed. *)
LEMMA TypeInductive == TypeOK /\ [Next]_vars => TypeOK'
<1> SUFFICES ASSUME TypeOK, [Next]_vars PROVE TypeOK'
  OBVIOUS
<1> DEFINE Answered == reply' \in Reply
<1> USE LimitsAssumption
<1>1. ASSUME NEW s \in Sessions, NEW right \in BOOLEAN, authenticate(s, right)
      PROVE  /\ authCount' \in Nat /\ Answered
             /\ authenticated' \in [Sessions -> BOOLEAN] /\ proved' \in [Sessions -> BOOLEAN]
             /\ step' \in [Sessions -> 0..2]
  <2>1. Answered
    BY <1>1, AnswerType DEF authenticate
  <2> QED
    BY <1>1, <2>1 DEF authenticate, Authenticate, CheckIPFailedAuth, IsAllowed, TypeOK
<1>2. ASSUME NEW s \in Sessions, NEW right \in BOOLEAN, nextPlain(s, right) PROVE TypeOK'
  BY <1>1, <1>2 DEF nextPlain, TypeOK
<1>3. ASSUME NEW s \in Sessions, NEW right \in BOOLEAN, nextLogin(s, right) PROVE TypeOK'
  <2>1. CASE step[s] < 2 /\ step' = [step EXCEPT ![s] = step[s] + 1]
              /\ UNCHANGED <<authenticated, proved, authCount, reply>>
    BY <1>3, <2>1 DEF nextLogin, TypeOK
  <2>2. CASE authenticate(s, right)
    BY <1>1, <1>3, <2>2 DEF nextLogin, TypeOK
  <2> QED
    BY <1>3, <2>1, <2>2 DEF nextLogin
<1>4. ASSUME NEW s \in Sessions, CancelAuth(s) PROVE TypeOK'
  BY <1>4 DEF CancelAuth, TypeOK
<1>5. ASSUME NEW s \in Sessions, NEW from \in Senders, Mail(s, from) PROVE TypeOK'
  <2>1. Answered
    BY <1>5, AnswerType DEF Mail
  <2>2. msgCount' \in Nat
    BY <1>5 DEF Mail, TypeOK
  <2>3. /\ mailFrom' = mailFrom \/ mailFrom' = [mailFrom EXCEPT ![s] = from]
        /\ mailed' = mailed \/ mailed' = [mailed EXCEPT ![s] = TRUE]
    BY <1>5 DEF Mail
  <2> QED
    BY <1>5, <2>1, <2>2, <2>3 DEF Mail, TypeOK
<1>6. ASSUME NEW s \in Sessions, Rcpt(s) PROVE TypeOK'
  <2>1. Answered
    BY <1>6, AnswerType DEF Rcpt
  <2> QED
    BY <1>6, <2>1 DEF Rcpt, TypeOK
<1>7. ASSUME NEW s \in Sessions, Rset(s) PROVE TypeOK'
  <2>1. Answered
    BY <1>7, AnswerType DEF Rset
  <2> QED
    BY <1>7, <2>1 DEF Rset, Reset, TypeOK
<1>8. ASSUME NEW s \in Sessions, NEW code \in {250, 450, 451, 503, 552}, EndData(s, code)
      PROVE  /\ pc' \in [Sessions -> {"ready", "counting", "reading", "spooling"}]
             /\ current' \in [Sessions -> Nat] /\ Answered
             /\ mailFrom' \in [Sessions -> Senders \union {NoSender}]
             /\ rcptTo' \in [Sessions -> 0..MaxRecipients]
             /\ mailed' \in [Sessions -> BOOLEAN]
  <2>1. Answered
    BY <1>8, AnswerType DEF EndData
  <2> QED
    BY <1>8, <2>1 DEF EndData, Reset, TypeOK
<1>9. ASSUME NEW s \in Sessions, DataGet(s) PROVE TypeOK'
  <2>1. redisErrors' \in Nat
    BY <1>9 DEF DataGet, TypeOK
  <2>2. CASE \E code \in {450, 503} : EndData(s, code)
    BY <1>8, <1>9, <2>1, <2>2 DEF DataGet, TypeOK
  <2>3. CASE \E c \in {rcptCount, 0} :
               /\ current' = [current EXCEPT ![s] = c]
               /\ pc' = [pc EXCEPT ![s] = "counting"]
               /\ UNCHANGED <<mailFrom, rcptTo, mailed, reply>>
    BY <1>9, <2>1, <2>3 DEF DataGet, TypeOK
  <2> QED
    BY <1>9, <2>2, <2>3 DEF DataGet
<1>10. ASSUME NEW s \in Sessions, DataCount(s) PROVE TypeOK'
  BY <1>10 DEF DataCount, TypeOK
<1>11. ASSUME NEW s \in Sessions, DataRead(s) PROVE TypeOK'
  <2>1. CASE \E code \in {451, 552} : EndData(s, code)
    BY <1>8, <1>11, <2>1 DEF DataRead, TypeOK
  <2>2. CASE /\ pc' = [pc EXCEPT ![s] = "spooling"]
             /\ UNCHANGED <<mailFrom, rcptTo, current, mailed, reply>>
    BY <1>11, <2>2 DEF DataRead, TypeOK
  <2> QED
    BY <1>11, <2>1, <2>2 DEF DataRead
<1>12. ASSUME NEW s \in Sessions, DataSpool(s) PROVE TypeOK'
  BY <1>8, <1>12 DEF DataSpool, TypeOK
<1>13. ASSUME NEW s \in Sessions, Reconnect(s) PROVE TypeOK'
  <2>1. Answered
    BY <1>13, AnswerType DEF Reconnect
  <2> QED
    BY <1>13, <2>1 DEF Reconnect, Reset, TypeOK
<1>14. CASE ExpireAuth \/ ExpireMessages \/ ExpireRecipients
  BY <1>14 DEF ExpireAuth, ExpireMessages, ExpireRecipients, TypeOK
<1>15. CASE UNCHANGED vars
  BY <1>15 DEF vars, TypeOK
<1> QED
  BY <1>2, <1>3, <1>4, <1>5, <1>6, <1>7, <1>9, <1>10, <1>11, <1>12, <1>13, <1>14, <1>15
     DEF Next, SessionStep
-----------------------------------------------------------------------------
(* Who sends *)

(* Every step keeps authentication, transactions and Data in that order. *)
LEMMA EntitledInductive == EntitledInv /\ [Next]_vars => EntitledInv'
<1> SUFFICES ASSUME EntitledInv, [Next]_vars PROVE EntitledInv'
  OBVIOUS
<1>t. TypeOK /\ TypeOK'
  BY TypeInductive DEF EntitledInv
<1>i. Entitlement /\ AcceptedIsEntitled
  BY DEF EntitledInv
<1> DEFINE Kept == Entitlement' /\ AcceptedIsEntitled'
<1>e. SUFFICES Kept
  BY <1>t DEF EntitledInv
<1> USE LimitsAssumption
\* an answer that is not a DATA's, and one that is
<1>a. ASSUME NEW s \in Sessions, NEW cmd, NEW code, Answer(s, cmd, code), cmd # "DATA" \/ code # 250
      PROVE  AcceptedIsEntitled'
  BY <1>a DEF Answer, AcceptedIsEntitled
\* what a step leaves alone, session by session
<1>f. ASSUME NEW s \in Sessions,
             /\ authenticated'[s] = authenticated[s] /\ proved'[s] = proved[s]
             /\ mailFrom'[s] = mailFrom[s] /\ mailed'[s] = mailed[s]
             /\ rcptTo'[s] = rcptTo[s] /\ pc'[s] = pc[s]
      PROVE  /\ authenticated'[s] => proved'[s]
             /\ mailFrom'[s] # NoSender => mailed'[s] /\ authenticated'[s]
             /\ rcptTo'[s] > 0 => mailed'[s] /\ authenticated'[s]
             /\ pc'[s] # "ready" => rcptTo'[s] > 0
  BY <1>f, <1>i DEF Entitlement
<1>1. ASSUME NEW s \in Sessions, NEW right \in BOOLEAN, authenticate(s, right), MayAuth(s),
             UNCHANGED <<pc, mailFrom, rcptTo, mailed>>
      PROVE  Kept
  <2>1. AcceptedIsEntitled'
    BY <1>1, <1>a DEF authenticate
  <2>2. authenticated'[s] => proved'[s]
    BY <1>1, <1>t DEF authenticate, Authenticate, TypeOK
  <2>3. mailFrom[s] = NoSender /\ ~(rcptTo[s] > 0) /\ pc[s] = "ready"
    BY <1>1, <1>i DEF MayAuth, Entitlement
  <2>4. \A r \in Sessions \ {s} : authenticated'[r] = authenticated[r] /\ proved'[r] = proved[r]
    BY <1>1, <1>t DEF authenticate, TypeOK
  <2> QED
    BY <1>1, <1>f, <2>1, <2>2, <2>3, <2>4 DEF Entitlement
<1>2. ASSUME NEW s \in Sessions, NEW right \in BOOLEAN, nextPlain(s, right) PROVE Kept
  BY <1>1, <1>2 DEF nextPlain
<1>3. ASSUME NEW s \in Sessions, NEW right \in BOOLEAN, nextLogin(s, right) PROVE Kept
  <2>1. CASE authenticate(s, right)
    BY <1>1, <1>3, <2>1 DEF nextLogin
  <2>2. CASE UNCHANGED <<authenticated, proved, authCount, reply>>
    BY <1>3, <1>i, <2>2 DEF nextLogin, Entitlement, AcceptedIsEntitled
  <2> QED
    BY <1>3, <2>1, <2>2 DEF nextLogin
<1>4. ASSUME NEW s \in Sessions, CancelAuth(s) PROVE Kept
  BY <1>4, <1>i DEF CancelAuth, Entitlement, AcceptedIsEntitled
<1>5. ASSUME NEW s \in Sessions, NEW from \in Senders, Mail(s, from) PROVE Kept
  <2>1. AcceptedIsEntitled'
    BY <1>5, <1>a DEF Mail
  <2>2. UNCHANGED <<pc, authenticated, rcptTo, proved>>
    BY <1>5 DEF Mail
  <2>3. CASE UNCHANGED <<mailFrom, mailed>>
    BY <1>i, <2>1, <2>2, <2>3 DEF Entitlement
  <2>4. CASE /\ authenticated[s]
             /\ mailFrom' = [mailFrom EXCEPT ![s] = from] /\ mailed' = [mailed EXCEPT ![s] = TRUE]
    <3>1. mailed'[s]
      BY <1>t, <2>4 DEF TypeOK
    <3>2. \A r \in Sessions \ {s} : mailed'[r] = mailed[r] /\ mailFrom'[r] = mailFrom[r]
      BY <1>t, <2>4 DEF TypeOK
    <3>3. \A r \in Sessions : authenticated'[r] = authenticated[r] /\ proved'[r] = proved[r]
                              /\ rcptTo'[r] = rcptTo[r] /\ pc'[r] = pc[r]
      BY <2>2
    <3>4. /\ authenticated'[s] => proved'[s]
          /\ mailed'[s] /\ authenticated'[s]
          /\ pc'[s] # "ready" => rcptTo'[s] > 0
      BY <1>i, <3>1, <3>3, <2>4 DEF Entitlement
    <3> QED
      BY <1>f, <2>1, <3>2, <3>3, <3>4 DEF Entitlement
  <2> QED
    BY <1>5, <2>3, <2>4 DEF Mail
<1>6. ASSUME NEW s \in Sessions, Rcpt(s) PROVE Kept
  <2>1. AcceptedIsEntitled'
    BY <1>6, <1>a DEF Rcpt
  <2>2. UNCHANGED <<pc, authenticated, mailFrom, mailed, proved>>
    BY <1>6 DEF Rcpt
  <2>3. CASE UNCHANGED rcptTo
    BY <1>i, <2>1, <2>2, <2>3 DEF Entitlement
  <2>4. CASE mailFrom[s] # NoSender /\ rcptTo' = [rcptTo EXCEPT ![s] = rcptTo[s] + 1]
    <3>1. mailed[s] /\ authenticated[s] /\ pc[s] = "ready"
      BY <1>6, <1>i, <2>4 DEF Rcpt, Idle, Entitlement
    <3>2. \A r \in Sessions \ {s} : rcptTo'[r] = rcptTo[r]
      BY <1>t, <2>4 DEF TypeOK
    <3> QED
      BY <1>f, <1>i, <2>1, <2>2, <3>1, <3>2 DEF Entitlement
  <2> QED
    BY <1>6, <2>3, <2>4 DEF Rcpt
\* the transaction of s ends
<1>7. ASSUME NEW s \in Sessions, Reset(s), mailed' = [mailed EXCEPT ![s] = FALSE],
             pc'[s] = "ready", \A r \in Sessions \ {s} : pc'[r] = pc[r],
             authenticated'[s] => proved'[s],
             \A r \in Sessions \ {s} : authenticated'[r] = authenticated[r] /\ proved'[r] = proved[r]
      PROVE  Entitlement'
  <2>1. mailFrom'[s] = NoSender /\ rcptTo'[s] = 0
    BY <1>7, <1>t DEF Reset, TypeOK
  <2>2. \A r \in Sessions \ {s} : /\ mailFrom'[r] = mailFrom[r] /\ mailed'[r] = mailed[r]
                                   /\ rcptTo'[r] = rcptTo[r]
    BY <1>7, <1>t DEF Reset, TypeOK
  <2>3. ASSUME NEW r \in Sessions, r # s
        PROVE  /\ authenticated'[r] => proved'[r]
               /\ mailFrom'[r] # NoSender => mailed'[r] /\ authenticated'[r]
               /\ rcptTo'[r] > 0 => mailed'[r] /\ authenticated'[r]
               /\ pc'[r] # "ready" => rcptTo'[r] > 0
    BY <1>7, <1>f, <2>2, <2>3
  <2>4. ~(rcptTo'[s] > 0)
    BY <2>1
  <2> QED
    BY <1>7, <2>1, <2>3, <2>4 DEF Entitlement
<1>8. ASSUME NEW s \in Sessions, Rset(s) PROVE Kept
  <2>1. AcceptedIsEntitled'
    BY <1>8, <1>a DEF Rset
  <2>2. pc[s] = "ready" /\ UNCHANGED <<pc, authenticated, proved>> /\ Reset(s)
        /\ mailed' = [mailed EXCEPT ![s] = FALSE]
    BY <1>8 DEF Rset, Idle
  <2>3. authenticated[s] => proved[s]
    BY <1>i DEF Entitlement
  <2> QED
    BY <1>7, <2>1, <2>2, <2>3
<1>9. ASSUME NEW s \in Sessions, NEW code, EndData(s, code), UNCHANGED <<authenticated, proved>>,
             code = 250 => pc[s] # "ready"
      PROVE  Kept
  <2>1. pc'[s] = "ready" /\ \A r \in Sessions \ {s} : pc'[r] = pc[r]
    BY <1>9, <1>t DEF EndData, TypeOK
  <2>2. authenticated[s] => proved[s]
    BY <1>i DEF Entitlement
  <2>3. Entitlement'
    BY <1>7, <1>9, <2>1, <2>2 DEF EndData
  <2>4. code = 250 => mailed[s] /\ proved[s]
    BY <1>9, <1>i DEF Entitlement
  <2>5. AcceptedIsEntitled'
    BY <1>9, <2>4 DEF EndData, Answer, AcceptedIsEntitled
  <2> QED
    BY <2>3, <2>5
\* Data goes on, for a transaction that has recipients
<1>10. ASSUME NEW s \in Sessions, NEW next, pc' = [pc EXCEPT ![s] = next], rcptTo[s] > 0,
              UNCHANGED <<authenticated, proved, mailFrom, rcptTo, mailed, reply>>
       PROVE  Kept
  <2>1. \A r \in Sessions \ {s} : pc'[r] = pc[r]
    BY <1>10, <1>t DEF TypeOK
  <2> QED
    BY <1>10, <1>i, <1>f, <2>1 DEF Entitlement, AcceptedIsEntitled
<1>11. ASSUME NEW s \in Sessions, DataGet(s) PROVE Kept
  <2>1. CASE EndData(s, 503) \/ EndData(s, 450)
    BY <1>9, <1>11, <2>1 DEF DataGet
  <2>2. CASE /\ rcptTo[s] > 0 /\ pc' = [pc EXCEPT ![s] = "counting"]
             /\ UNCHANGED <<mailFrom, rcptTo, mailed, reply>>
    BY <1>10, <1>11, <2>2 DEF DataGet
  <2> QED
    BY <1>11, <2>1, <2>2 DEF DataGet
<1>12. ASSUME NEW s \in Sessions, DataCount(s) PROVE Kept
  <2>1. rcptTo[s] > 0
    BY <1>12, <1>i DEF DataCount, Entitlement
  <2> QED
    BY <1>10, <1>12, <2>1 DEF DataCount
<1>13. ASSUME NEW s \in Sessions, DataRead(s) PROVE Kept
  <2>1. rcptTo[s] > 0
    BY <1>13, <1>i DEF DataRead, Entitlement
  <2>2. CASE EndData(s, 451) \/ EndData(s, 552)
    BY <1>9, <1>13, <2>2 DEF DataRead
  <2>3. CASE pc' = [pc EXCEPT ![s] = "spooling"]
             /\ UNCHANGED <<mailFrom, rcptTo, current, mailed, reply>>
    <3>1. UNCHANGED <<authenticated, proved>>
      BY <1>13 DEF DataRead
    <3> QED
      BY <1>10, <2>1, <2>3, <3>1
  <2> QED
    BY <1>13, <2>2, <2>3 DEF DataRead
<1>14. ASSUME NEW s \in Sessions, DataSpool(s) PROVE Kept
  BY <1>9, <1>14 DEF DataSpool
<1>15. ASSUME NEW s \in Sessions, Reconnect(s) PROVE Kept
  <2>1. AcceptedIsEntitled'
    BY <1>15, <1>a DEF Reconnect
  <2>2. pc[s] = "ready" /\ pc' = pc /\ Reset(s) /\ mailed' = [mailed EXCEPT ![s] = FALSE]
    BY <1>15 DEF Reconnect, Idle
  <2>3. /\ ~authenticated'[s]
        /\ \A r \in Sessions \ {s} : authenticated'[r] = authenticated[r] /\ proved'[r] = proved[r]
    BY <1>15, <1>t DEF Reconnect, TypeOK
  <2> QED
    BY <1>7, <2>1, <2>2, <2>3
<1>16. CASE ExpireAuth \/ ExpireMessages \/ ExpireRecipients \/ UNCHANGED vars
  BY <1>16, <1>i DEF ExpireAuth, ExpireMessages, ExpireRecipients, vars, Entitlement,
     AcceptedIsEntitled
<1> QED
  BY <1>2, <1>3, <1>4, <1>5, <1>6, <1>8, <1>11, <1>12, <1>13, <1>14, <1>15, <1>16
     DEF Next, SessionStep

(* A daemon that has just started satisfies the invariant. *)
LEMMA InitEntitled == Init => EntitledInv
  BY LimitsAssumption DEF Init, EntitledInv, TypeOK, Reply, Entitlement, AcceptedIsEntitled

(* Every message answered 250 came from a session that the allowlist or    *)
(* the right password let in since it was opened, in a transaction that    *)
(* MAIL opened: for any sessions, senders and limits, and any order of     *)
(* commands.                                                               *)
THEOREM OnlyEntitledAccepted == Spec => []AcceptedIsEntitled
<1>1. EntitledInv => AcceptedIsEntitled
  BY DEF EntitledInv
<1> QED
  BY <1>1, InitEntitled, EntitledInductive, PTL DEF Spec

-----------------------------------------------------------------------------
(* How many are sent to *)

(* Sessions between the GET of CheckUserRecipients and its INCRBY. *)
Counting == {s \in Sessions : pc[s] = "counting"}

(* What may have been granted if every session in Counting still adds the  *)
(* recipients of a full message.                                           *)
Room == UserRecipients
            + (Cardinality(Sessions) - 1 + redisErrors - Cardinality(Counting)) * MaxRecipients

(* The counter is behind by no more than the commands that failed; a       *)
(* session that is counting has found its own recipients within the limit; *)
(* and the room is kept, up to one session that read a count that left     *)
(* enough for its recipients.                                              *)
RecipientsInv ==
    /\ TypeOK
    /\ granted <= rcptCount + redisErrors * MaxRecipients
    /\ \A s \in Counting : rcptTo[s] <= UserRecipients
    /\ \/ granted <= Room
       \/ \E a \in Counting : granted + rcptTo[a] <= Room + MaxRecipients

(* No more sessions are counting than there are. *)
LEMMA CountingBounded ==
    /\ IsFiniteSet(Counting)
    /\ Cardinality(Counting) \in Nat /\ Cardinality(Sessions) \in Nat
    /\ Cardinality(Counting) <= Cardinality(Sessions) /\ Cardinality(Sessions) >= 1
    /\ Cardinality(Counting) = 0 => Counting = {}
<1>1. Counting \in SUBSET Sessions
  BY DEF Counting
<1>2. IsFiniteSet(Counting) /\ Cardinality(Counting) <= Cardinality(Sessions)
  BY <1>1, SessionsAssumption, FS_Subset
<1>3. Cardinality(Counting) \in Nat /\ Cardinality(Sessions) \in Nat
  BY <1>2, SessionsAssumption, FS_CardinalityType
<1>4. Cardinality(Sessions) # 0 /\ (Cardinality(Counting) = 0 => Counting = {})
  BY <1>2, SessionsAssumption, FS_EmptySet
<1> QED
  BY <1>2, <1>3, <1>4

(* One more message's recipients. *)
LEMMA OneMore == \A x \in Int : /\ x * MaxRecipients \in Int
                                /\ (x + 1) * MaxRecipients = x * MaxRecipients + MaxRecipients
                                /\ x >= 0 => x * MaxRecipients >= 0
  BY LimitsAssumption

(* Every step keeps the room: a session that starts to count takes the     *)
(* room of one message, or a failed command has just added as much, and    *)
(* gives it back as it adds its recipients.                                *)
LEMMA RecipientsInductive == RecipientsInv /\ [Next]_vars => RecipientsInv'
<1> SUFFICES ASSUME RecipientsInv, [Next]_vars PROVE RecipientsInv'
  OBVIOUS
<1>t. TypeOK /\ TypeOK'
  BY TypeInductive DEF RecipientsInv
<1> DEFINE M == MaxRecipients
<1>m. /\ M \in Nat /\ UserRecipients \in Nat
      /\ granted \in Nat /\ rcptCount \in Nat /\ redisErrors \in Nat
      /\ \A s \in Sessions : rcptTo[s] \in 0..M
  BY <1>t, LimitsAssumption DEF TypeOK
<1>n. /\ Room \in Int /\ redisErrors * M \in Int
      /\ Room + M >= UserRecipients + redisErrors * M
      /\ Counting = {} => Room >= 0
      /\ redisErrors * M >= 0
  <2>1. PICK k \in Nat : k = Cardinality(Sessions) - Cardinality(Counting)
    BY CountingBounded
  <2>2. /\ Room = UserRecipients + (k - 1 + redisErrors) * M
        /\ (k + redisErrors) * M = k * M + redisErrors * M
        /\ (k + redisErrors) * M = (k - 1 + redisErrors) * M + M
    <3>1. Cardinality(Sessions) - 1 + redisErrors - Cardinality(Counting) = k - 1 + redisErrors
      BY <2>1, <1>m, CountingBounded
    <3>2. (k - 1 + redisErrors) + 1 = k + redisErrors /\ k - 1 + redisErrors \in Int
      BY <1>m
    <3> QED
      BY <3>1, <3>2, <1>m, OneMore DEF Room
  <2>3. k * M >= 0 /\ redisErrors * M >= 0 /\ k * M \in Int /\ redisErrors * M \in Int
        /\ (k - 1 + redisErrors) * M \in Int
    BY <1>m, OneMore
  <2>4. Counting = {} => k >= 1
    BY <2>1, CountingBounded, FS_EmptySet
  <2>5. k >= 1 => (k - 1 + redisErrors) * M >= 0
    BY <1>m, OneMore
  <2> QED
    BY <1>m, <2>2, <2>3, <2>4, <2>5
<1>a. granted <= rcptCount + redisErrors * M
  BY DEF RecipientsInv
<1>c. \A s \in Counting : s \in Sessions /\ rcptTo[s] <= UserRecipients
  BY DEF RecipientsInv, Counting
<1>b. granted <= Room \/ \E a \in Counting : granted + rcptTo[a] <= Room + M
  BY DEF RecipientsInv
<1> DEFINE Kept == /\ granted' <= rcptCount' + redisErrors' * M
                   /\ \A s \in Counting' : rcptTo'[s] <= UserRecipients
                   /\ \/ granted' <= Room'
                      \/ \E a \in Counting' : granted' + rcptTo'[a] <= Room' + M
<1>e. SUFFICES Kept
  BY <1>t DEF RecipientsInv
<1> HIDE DEF M
<1>o. \A x \in Int : (x + 1) * M = x * M + M
  BY OneMore DEF M
\* a step that neither counts nor grants
<1>0. ASSUME UNCHANGED <<granted, rcptCount>>, Counting' = Counting,
             redisErrors' \in {redisErrors, redisErrors + 1},
             \A s \in Counting : rcptTo'[s] = rcptTo[s]
      PROVE  Kept
  <2>1. Room' >= Room /\ Room' \in Int /\ redisErrors' * M >= redisErrors * M
        /\ redisErrors' * M \in Int
    <3>1. CASE redisErrors' = redisErrors
      BY <1>0, <1>n, <3>1 DEF Room
    <3>2. CASE redisErrors' = redisErrors + 1
      <4>1. PICK x \in Int : x = Cardinality(Sessions) - 1 + redisErrors - Cardinality(Counting)
        BY <1>m, CountingBounded
      <4>2. Room = UserRecipients + x * M /\ Room' = UserRecipients + (x + 1) * M
        <5>1. Cardinality(Sessions) - 1 + redisErrors' - Cardinality(Counting') = x + 1
          BY <1>0, <1>m, <3>2, <4>1, CountingBounded
        <5> QED
          BY <4>1, <5>1 DEF Room, M
      <4> QED
        BY <3>2, <4>2, <1>o, <1>m, <1>n, OneMore DEF M
    <3> QED
      BY <1>0, <3>1, <3>2
  <2>2. granted' <= rcptCount' + redisErrors' * M
    <3>1. PICK e \in Int, f \in Int : e = redisErrors * M /\ f = redisErrors' * M
      BY <1>n, <2>1
    <3>2. granted <= rcptCount + e /\ f >= e
      BY <1>a, <2>1, <3>1
    <3>3. granted \in Nat /\ rcptCount \in Nat /\ granted' = granted /\ rcptCount' = rcptCount
      BY <1>0, <1>m
    <3>4. granted' <= rcptCount' + f
      BY <3>2, <3>3
    <3> QED
      BY <3>1, <3>4
  <2>3. \A s \in Counting' : rcptTo'[s] <= UserRecipients
    BY <1>0, <1>c
  <2>4. CASE granted <= Room
    <3>1. granted' <= Room'
      BY <1>0, <1>m, <1>n, <2>1, <2>4
    <3> QED
      BY <2>2, <2>3, <3>1
  <2>5. ASSUME NEW a \in Counting, granted + rcptTo[a] <= Room + M PROVE Kept
    <3>1. a \in Counting' /\ granted' + rcptTo'[a] <= Room' + M
      BY <1>0, <1>c, <1>m, <1>n, <2>1, <2>5
    <3> QED
      BY <2>2, <2>3, <3>1
  <2> QED
    BY <1>b, <2>4, <2>5
<1>1. ASSUME NEW s \in Sessions, DataGet(s), pc'[s] = "counting" PROVE Kept
  <2>1. /\ pc[s] = "ready" /\ pc' = [pc EXCEPT ![s] = "counting"] /\ rcptTo' = rcptTo
        /\ UNCHANGED <<granted, rcptCount>> /\ rcptTo[s] <= UserRecipients
        /\ \/ redisErrors' = redisErrors /\ rcptCount + rcptTo[s] <= UserRecipients
           \/ redisErrors' = redisErrors + 1
    BY <1>1, <1>m, <1>t DEF DataGet, Idle, EndData, TypeOK
  <2>2. s \notin Counting /\ Counting' = Counting \union {s}
    BY <1>t, <2>1 DEF Counting, TypeOK
  <2>3. Cardinality(Counting') = Cardinality(Counting) + 1
    BY <2>2, CountingBounded, FS_AddElement
  <2>4. \A r \in Counting' : rcptTo'[r] <= UserRecipients
    BY <1>c, <2>1, <2>2
  <2>5. CASE redisErrors' = redisErrors /\ rcptCount + rcptTo[s] <= UserRecipients
    <3>1. Room' + M >= UserRecipients + redisErrors * M /\ Room' \in Int
      <4>1. Counting' \in SUBSET Sessions
        BY DEF Counting
      <4>2. Cardinality(Counting') <= Cardinality(Sessions)
        BY <4>1, SessionsAssumption, FS_Subset
      <4>3. PICK k \in Nat : k = Cardinality(Sessions) - Cardinality(Counting')
        BY <2>3, <4>2, CountingBounded
      <4>4. Cardinality(Sessions) - 1 + redisErrors' - Cardinality(Counting') = k - 1 + redisErrors
        BY <2>3, <2>5, <4>3, <1>m, CountingBounded
      <4>5. Room' = UserRecipients + (k - 1 + redisErrors) * M
        BY <4>4 DEF Room, M
      <4>6. /\ (k + redisErrors) * M = k * M + redisErrors * M
            /\ (k + redisErrors) * M = (k - 1 + redisErrors) * M + M
            /\ k * M >= 0 /\ k * M \in Int
            /\ (k - 1 + redisErrors) * M \in Int
        <5>1. (k - 1 + redisErrors) + 1 = k + redisErrors /\ k - 1 + redisErrors \in Int
          BY <1>m
        <5> QED
          BY <5>1, <1>m, <1>o, OneMore DEF M
      <4> QED
        BY <4>5, <4>6, <1>m, <1>n
    <3>2. granted' + rcptTo'[s] <= Room' + M /\ s \in Counting'
      <4>1. PICK e \in Int : e = redisErrors * M
        BY <1>n
      <4>2. granted <= rcptCount + e /\ Room' + M >= UserRecipients + e
        BY <1>a, <3>1, <4>1
      <4>3. /\ granted' = granted /\ rcptTo'[s] = rcptTo[s] /\ rcptCount + rcptTo[s] <= UserRecipients
            /\ granted \in Nat /\ rcptCount \in Nat /\ rcptTo[s] \in Nat /\ Room' \in Int /\ M \in Nat
            /\ UserRecipients \in Nat
        BY <1>m, <2>1, <2>5, <3>1
      <4>4. granted' + rcptTo'[s] <= Room' + M
        BY <4>2, <4>3
      <4> QED
        BY <2>2, <4>4
    <3> QED
      BY <1>a, <2>1, <2>4, <2>5, <3>2
  <2>6. CASE redisErrors' = redisErrors + 1
    <3>1. Room' = Room
      <4>1. Cardinality(Sessions) - 1 + redisErrors' - Cardinality(Counting')
               = Cardinality(Sessions) - 1 + redisErrors - Cardinality(Counting)
        BY <2>3, <2>6, <1>m, CountingBounded
      <4> QED
        BY <4>1 DEF Room
    <3>2. granted' <= rcptCount' + redisErrors' * M
      BY <1>a, <1>m, <1>n, <1>o, <2>1, <2>6
    <3> QED
      BY <1>b, <2>1, <2>2, <2>4, <3>1, <3>2
  <2> QED
    BY <2>1, <2>5, <2>6
<1>2. ASSUME NEW s \in Sessions, DataCount(s) PROVE Kept
  <2>1. /\ s \in Counting /\ Counting' = Counting \ {s} /\ rcptTo' = rcptTo
        /\ granted' = granted + rcptTo[s]
    BY <1>2, <1>t DEF DataCount, Counting, TypeOK
  <2>2. \/ redisErrors' = redisErrors /\ rcptCount' = rcptCount + rcptTo[s]
        \/ redisErrors' = redisErrors + 1 /\ rcptCount' = rcptCount
    BY <1>2 DEF DataCount
  <2>3. Cardinality(Counting') = Cardinality(Counting) - 1
    BY <2>1, CountingBounded, FS_RemoveElement
  <2>4. Room' >= Room + M /\ Room' \in Int
    <3>1. PICK x \in Int : x = Cardinality(Sessions) - 1 + redisErrors - Cardinality(Counting)
      BY <1>m, CountingBounded
    <3>2. Room = UserRecipients + x * M
      BY <3>1 DEF Room, M
    <3>3. Cardinality(Sessions) - 1 + redisErrors' - Cardinality(Counting') \in {x + 1, x + 2}
      BY <2>2, <2>3, <3>1, <1>m, CountingBounded
    <3>4. Room' = UserRecipients + (x + 1) * M \/ Room' = UserRecipients + (x + 2) * M
      BY <3>3 DEF Room, M
    <3>5. (x + 1) * M = x * M + M /\ (x + 2) * M = x * M + M + M /\ x * M \in Int
      <4>1. (x + 1) + 1 = x + 2 /\ x + 1 \in Int
        OBVIOUS
      <4> QED
        BY <4>1, <1>o, OneMore DEF M
    <3> QED
      BY <3>2, <3>4, <3>5, <1>m
  <2>5. granted' <= rcptCount' + redisErrors' * M
    BY <1>a, <1>m, <1>n, <1>o, <2>1, <2>2
  <2>6. \A r \in Counting' : rcptTo'[r] <= UserRecipients
    BY <1>c, <2>1
  <2>7. CASE granted <= Room
    BY <1>m, <1>n, <2>1, <2>4, <2>5, <2>6, <2>7
  <2>8. ASSUME NEW a \in Counting, granted + rcptTo[a] <= Room + M PROVE Kept
    <3>1. CASE a = s
      BY <1>m, <1>n, <2>1, <2>4, <2>5, <2>6, <2>8, <3>1
    <3>2. CASE a # s
      <4>1. a \in Counting' /\ granted' + rcptTo'[a] <= Room' + M
        BY <1>c, <1>m, <1>n, <2>1, <2>4, <2>8, <3>2
      <4> QED
        BY <2>5, <2>6, <4>1
    <3> QED
      BY <3>1, <3>2
  <2> QED
    BY <1>b, <2>7, <2>8
<1>3. CASE ExpireRecipients
  <2>1. /\ granted' = 0 /\ rcptCount' = 0 /\ redisErrors' = redisErrors /\ rcptTo' = rcptTo
        /\ Counting' = Counting /\ Room' = Room
    BY <1>3 DEF ExpireRecipients, Counting, Room
  <2>2. CASE Counting = {}
    BY <1>m, <1>n, <2>1, <2>2
  <2>3. ASSUME NEW a \in Counting PROVE Kept
    BY <1>c, <1>m, <1>n, <2>1, <2>3
  <2> QED
    BY <2>2, <2>3
<1>4. ASSUME NEW s \in Sessions,
             UNCHANGED <<granted, rcptCount>>,
             redisErrors' \in {redisErrors, redisErrors + 1},
             pc[s] # "counting", pc'[s] # "counting",
             \A r \in Sessions \ {s} : pc'[r] = pc[r] /\ rcptTo'[r] = rcptTo[r]
      PROVE  Kept
  <2>1. Counting' = Counting /\ \A r \in Counting : rcptTo'[r] = rcptTo[r]
    BY <1>4 DEF Counting
  <2> QED
    BY <1>0, <1>4, <2>1
<1>5. ASSUME NEW s \in Sessions, NEW code, EndData(s, code)
      PROVE  pc'[s] = "ready" /\ \A r \in Sessions \ {s} : pc'[r] = pc[r] /\ rcptTo'[r] = rcptTo[r]
  BY <1>5, <1>t DEF EndData, Reset, TypeOK
<1>6. ASSUME NEW s \in Sessions, DataGet(s), pc'[s] # "counting" PROVE Kept
  <2>1. EndData(s, 503) \/ EndData(s, 450)
    BY <1>6, <1>t DEF DataGet, TypeOK
  <2>2. /\ UNCHANGED <<granted, rcptCount>> /\ pc[s] # "counting"
        /\ redisErrors' \in {redisErrors, redisErrors + 1}
    BY <1>6 DEF DataGet, Idle
  <2> QED
    BY <1>4, <1>5, <2>1, <2>2
<1>7. ASSUME NEW s \in Sessions, DataRead(s) \/ DataSpool(s) PROVE Kept
  <2>1. UNCHANGED <<granted, rcptCount, redisErrors>> /\ pc[s] # "counting"
    BY <1>7 DEF DataRead, DataSpool
  <2>2. CASE \E code \in {250, 451, 552} : EndData(s, code)
    BY <1>4, <1>5, <2>1, <2>2
  <2>3. CASE pc' = [pc EXCEPT ![s] = "spooling"] /\ rcptTo' = rcptTo
    <3>1. pc'[s] # "counting" /\ \A r \in Sessions \ {s} : pc'[r] = pc[r] /\ rcptTo'[r] = rcptTo[r]
      BY <1>t, <2>3 DEF TypeOK
    <3> QED
      BY <1>4, <2>1, <3>1
  <2> QED
    BY <1>7, <2>2, <2>3 DEF DataRead, DataSpool
<1>8. ASSUME NEW s \in Sessions, Rcpt(s) \/ Rset(s) \/ Reconnect(s) PROVE Kept
  <2>1. UNCHANGED <<granted, rcptCount, redisErrors, pc>> /\ pc[s] = "ready"
    BY <1>8 DEF Rcpt, Rset, Reconnect, Idle
  <2>2. \A r \in Sessions \ {s} : rcptTo'[r] = rcptTo[r]
    BY <1>8, <1>t DEF Rcpt, Rset, Reconnect, Reset, TypeOK
  <2> QED
    BY <1>4, <2>1, <2>2
<1>9. ASSUME UNCHANGED <<granted, rcptCount, redisErrors, pc, rcptTo>> PROVE Kept
  BY <1>0, <1>9 DEF Counting
<1>10. ASSUME NEW s \in Sessions,
              \/ \E right \in BOOLEAN : nextPlain(s, right) \/ nextLogin(s, right)
              \/ CancelAuth(s)
              \/ \E from \in Senders : Mail(s, from)
       PROVE  Kept
  BY <1>9, <1>10 DEF nextPlain, nextLogin, CancelAuth, Mail
<1>11. CASE ExpireAuth \/ ExpireMessages \/ UNCHANGED vars
  BY <1>9, <1>11 DEF ExpireAuth, ExpireMessages, vars
<1> QED
  BY <1>1, <1>2, <1>3, <1>6, <1>7, <1>8, <1>10, <1>11 DEF Next, SessionStep

(* For any number of sessions and of failing commands, the recipients let  *)
(* through within one life of the counter exceed the user's limit by at    *)
(* most one message's recipients for every other session and every failed  *)
(* command.                                                                *)
THEOREM RecipientsStayBounded == Spec => []RecipientsBounded
<1>1. Init => RecipientsInv
  <2> SUFFICES ASSUME Init PROVE RecipientsInv
    OBVIOUS
  <2>1. TypeOK
    BY InitEntitled DEF EntitledInv
  <2>2. Counting = {} /\ granted = 0 /\ rcptCount = 0 /\ redisErrors = 0
    BY DEF Init, Counting
  <2>3. Cardinality(Counting) = 0 /\ Cardinality(Sessions) - 1 \in Nat
    BY <2>2, CountingBounded, FS_EmptySet
  <2>4. Room = UserRecipients + (Cardinality(Sessions) - 1) * MaxRecipients
    BY <2>2, <2>3, CountingBounded DEF Room
  <2>5. granted <= Room
    BY <2>2, <2>3, <2>4, OneMore, LimitsAssumption
  <2>6. granted <= rcptCount + redisErrors * MaxRecipients
    BY <2>2, OneMore
  <2> QED
    BY <2>1, <2>2, <2>5, <2>6 DEF RecipientsInv
<1>2. RecipientsInv => RecipientsBounded
  <2> SUFFICES ASSUME RecipientsInv PROVE RecipientsBounded
    OBVIOUS
  <2>1. PICK n \in Nat : n = Cardinality(Counting)
    BY CountingBounded
  <2>2. PICK x \in Int : x = Cardinality(Sessions) - 1 + redisErrors
    BY CountingBounded DEF RecipientsInv, TypeOK
  <2>3. Room = UserRecipients + (x - n) * MaxRecipients
    <3>1. Cardinality(Sessions) - 1 + redisErrors - Cardinality(Counting) = x - n
      BY <2>1, <2>2, CountingBounded DEF RecipientsInv, TypeOK
    <3> QED
      BY <3>1 DEF Room
  <2>4. x * MaxRecipients = (x - n) * MaxRecipients + n * MaxRecipients
    BY LimitsAssumption
  <2>5. n >= 1 => n * MaxRecipients >= MaxRecipients
    BY LimitsAssumption
  <2>6. Counting # {} => n >= 1
    BY <2>1, CountingBounded
  <2>7. /\ n * MaxRecipients >= 0 /\ n * MaxRecipients \in Int /\ (x - n) * MaxRecipients \in Int
        /\ x * MaxRecipients \in Int
    BY OneMore
  <2>8. granted \in Nat /\ \A a \in Counting : rcptTo[a] \in Nat
    BY LimitsAssumption DEF RecipientsInv, TypeOK, Counting
  <2>9. granted <= UserRecipients + x * MaxRecipients
    BY <2>3, <2>4, <2>5, <2>6, <2>7, <2>8, LimitsAssumption DEF RecipientsInv
  <2> QED
    BY <2>2, <2>9 DEF RecipientsBounded
<1> QED
  BY <1>1, <1>2, RecipientsInductive, PTL DEF Spec
=============================================================================
