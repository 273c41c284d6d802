---------------------------- MODULE SpoolProofs ----------------------------
(***************************************************************************)
(* Proofs about module Spool, for any messages, callers, inodes and        *)
(* devices, any pipeline of stages and any number of errors and crashes.   *)
(***************************************************************************)
EXTENDS Spool, TLAPS

USE DEF disk, Goto

-----------------------------------------------------------------------------
(* What a step does to the files and to the calls, whoever takes it: the   *)
(* outcomes of the system calls, with the failures of all of them in one.  *)

TmpSteps == {"fill", "sync", "publish"}
CopySteps == {"copy", "syncCopy", "removeSrc"}
HoldSteps == {"openDst"} \union CopySteps

Stays == UNCHANGED <<dir, content, pc, call, fd, status, removed>>

BeginsWrite(c, m) ==
    /\ pc[c] = "idle" /\ status[m] = "new"
    /\ status' = [status EXCEPT ![m] = "writing"]
    /\ call' = [call EXCEPT ![c] = [op |-> "write", msg |-> m, from |-> "tmp", to |-> "incoming"]]
    /\ Goto(c, "create")
    /\ UNCHANGED <<dir, content, fd, removed>>

BeginsMove(c, m, from, to) ==
    /\ pc[c] = "idle" /\ <<from, to>> \in Route
    /\ \A b \in Callers : call[b].op = "move" => call[b].msg # m
    /\ call' = [call EXCEPT ![c] = [op |-> "move", msg |-> m, from |-> from, to |-> to]]
    /\ Goto(c, "stat")
    /\ UNCHANGED <<dir, content, fd, status, removed>>

Fails(c) ==
    /\ pc[c] # "idle"
    /\ Error(c)
    /\ dir' = dir \/ (pc[c] \in TmpSteps /\ unlink(call[c].msg, "tmpfile"))
    /\ UNCHANGED <<content, removed>>

Creates(c) ==
    /\ pc[c] = "create" /\ Goto(c, "fill")
    /\ \E i \in Free : /\ dir' = [dir EXCEPT ![call[c].msg]["tmpfile"] = i]
                       /\ content' = [content EXCEPT ![i] = "partial"]
    /\ UNCHANGED <<call, fd, status, removed>>

Prepares(c) ==
    /\ \/ /\ pc[c] = "fill" /\ Goto(c, "sync")
          /\ content' = [content EXCEPT ![dir[call[c].msg]["tmpfile"]] = "full"]
       \/ /\ pc[c] = "sync" /\ Goto(c, "publish")
          /\ content' = [content EXCEPT ![dir[call[c].msg]["tmpfile"]] = "synced"]
    /\ UNCHANGED <<dir, call, fd, status, removed>>

Publishes(c) ==
    /\ pc[c] = "publish" /\ Goto(c, "stat")
    /\ rename(call[c].msg, "tmpfile", "tmp")
    /\ UNCHANGED <<content, call, fd, status, removed>>

GoesOn(c) ==
    /\ \/ pc[c] = "stat" /\ Goto(c, "rename")
       \/ pc[c] = "rename" /\ Goto(c, "open") /\ Device[call[c].from] # Device[call[c].to]
    /\ UNCHANGED <<dir, content, call, fd, status, removed>>

Renames(c) ==
    /\ pc[c] = "rename" /\ Device[call[c].from] = Device[call[c].to]
    /\ dir[call[c].msg][call[c].from] # None
    /\ rename(call[c].msg, call[c].from, call[c].to)
    /\ Ok(c)
    /\ UNCHANGED <<content, removed>>

OpensSrc(c) ==
    /\ pc[c] = "open" /\ Goto(c, "openDst")
    /\ dir[call[c].msg][call[c].from] # None
    /\ fd' = [fd EXCEPT ![c].src = dir[call[c].msg][call[c].from]]
    /\ UNCHANGED <<dir, content, call, status, removed>>

Opens(c) ==
    LET old == dir[call[c].msg][call[c].to] IN
    /\ pc[c] = "openDst" /\ Goto(c, "copy")
    /\ \E i \in IF old = None THEN Free ELSE {old} :
          /\ dir' = [dir EXCEPT ![call[c].msg][call[c].to] = i]
          /\ content' = [content EXCEPT ![i] = "partial"]
          /\ fd' = [fd EXCEPT ![c].dst = i]
    /\ UNCHANGED <<call, status, removed>>

Copies(c) ==
    /\ \/ /\ pc[c] = "copy" /\ Goto(c, "syncCopy")
          /\ content' = [content EXCEPT ![fd[c].dst] =
                IF content[fd[c].src] = "partial" THEN "partial" ELSE "full"]
       \/ /\ pc[c] = "syncCopy" /\ Goto(c, "removeSrc")
          /\ content' = [content EXCEPT ![fd[c].dst] = IF @ = "full" THEN "synced" ELSE @]
    /\ UNCHANGED <<dir, call, fd, status, removed>>

Removes(c) ==
    /\ pc[c] = "removeSrc"
    /\ dir[call[c].msg][call[c].from] # None
    /\ unlink(call[c].msg, call[c].from)
    /\ Ok(c)
    /\ UNCHANGED <<content, removed>>

Takes(m, s) ==
    /\ dir[m][s] # None
    /\ unlink(m, s)
    /\ removed' = removed \union {m}
    /\ UNCHANGED <<content, pc, call, fd, status>>

Crashes ==
    /\ \A i \in Inodes : content'[i] = content[i] \/ (content[i] = "full" /\ content'[i] = "partial")
    /\ content' \in [Inodes -> {"partial", "full", "synced"}]
    /\ pc' = [c \in Callers |-> "idle"]
    /\ call' = [c \in Callers |-> NoCall]
    /\ fd' = [c \in Callers |-> NoFd]
    /\ UNCHANGED <<dir, status, removed>>

CallerSteps(c) ==
    \/ \E m \in Msgs : BeginsWrite(c, m) \/ \E r \in Route : BeginsMove(c, m, r[1], r[2])
    \/ Fails(c) \/ Creates(c) \/ Prepares(c) \/ Publishes(c) \/ GoesOn(c)
    \/ Renames(c) \/ OpensSrc(c) \/ Opens(c) \/ Copies(c) \/ Removes(c)

(* Every step is one of these. *)
LEMMA StepCases ==
    ASSUME TypeOK, [Next]_vars
    PROVE  \/ Stays
           \/ \E c \in Callers : CallerSteps(c)
           \/ \E m \in Msgs, s \in Visible : Takes(m, s)
           \/ Crashes
<1>1. ASSUME NEW c \in Callers, NEW m \in Msgs, BeginWrite(c, m) PROVE CallerSteps(c)
  BY <1>1 DEF BeginWrite, BeginsWrite, CallerSteps
<1>2. ASSUME NEW c \in Callers, NEW m \in Msgs, NEW r \in Route, BeginMove(c, m, r[1], r[2])
      PROVE  CallerSteps(c)
  <2>1. r = <<r[1], r[2]>>
    BY RouteAssumption
  <2> QED
    BY <1>2, <2>1 DEF BeginMove, BeginsMove, CallerSteps
<1>3. ASSUME NEW c \in Callers, Create(c) PROVE CallerSteps(c)
  BY <1>3 DEF Create, Creates, Fails, CallerSteps
<1>4. ASSUME NEW c \in Callers, Fill(c) PROVE CallerSteps(c)
  BY <1>4 DEF Fill, TmpFileStep, RemoveTmpFile, Prepares, Fails, TmpSteps, CallerSteps
<1>5. ASSUME NEW c \in Callers, Sync(c) PROVE CallerSteps(c)
  BY <1>5 DEF Sync, TmpFileStep, RemoveTmpFile, Prepares, Fails, TmpSteps, CallerSteps
<1>6. ASSUME NEW c \in Callers, Publish(c) PROVE CallerSteps(c)
  BY <1>6 DEF Publish, RemoveTmpFile, Publishes, Fails, TmpSteps, CallerSteps
<1>7. ASSUME NEW c \in Callers, Stat(c) PROVE CallerSteps(c)
  BY <1>7 DEF Stat, GoesOn, Fails, CallerSteps
<1>8. ASSUME NEW c \in Callers, Rename(c) PROVE CallerSteps(c)
  BY <1>8 DEF Rename, GoesOn, Renames, Fails, CallerSteps
<1>9. ASSUME NEW c \in Callers, OpenSrc(c) \/ OpenDst(c) PROVE CallerSteps(c)
  BY <1>9 DEF OpenSrc, OpenDst, OpensSrc, Opens, Fails, CallerSteps
<1>10. ASSUME NEW c \in Callers, Copy(c) PROVE CallerSteps(c)
  BY <1>10 DEF Copy, Copies, Fails, CallerSteps
<1>11. ASSUME NEW c \in Callers, SyncCopy(c) PROVE CallerSteps(c)
  BY <1>11 DEF SyncCopy, Copies, Fails, CallerSteps
<1>12. ASSUME NEW c \in Callers, RemoveSrc(c) PROVE CallerSteps(c)
  BY <1>12 DEF RemoveSrc, Removes, Fails, CallerSteps
<1>13. ASSUME NEW m \in Msgs, NEW s \in Deletes, Delete(m, s)
       PROVE  \E k \in Msgs, o \in Visible : Takes(k, o)
  BY <1>13, RouteAssumption DEF Delete, Takes
<1>14. ASSUME CleanupRemove PROVE Stays \/ \E k \in Msgs, o \in Visible : Takes(k, o)
  <2>1. victim[1] \in Msgs /\ victim[2] \in Visible
    BY <1>14 DEF CleanupRemove, TypeOK
  <2> QED
    BY <1>14, <2>1 DEF CleanupRemove, Takes, Stays
<1>15. ASSUME Crash PROVE Crashes
  BY <1>15 DEF Crash, Crashes, TypeOK
<1>16. ASSUME (\E m \in Msgs, s \in Visible : CleanupInspect(m, s)) \/ Tick \/ UNCHANGED vars
       PROVE  Stays
  BY <1>16 DEF CleanupInspect, Tick, vars, Stays
<1> QED
  BY <1>1, <1>2, <1>3, <1>4, <1>5, <1>6, <1>7, <1>8, <1>9, <1>10, <1>11, <1>12, <1>13, <1>14,
     <1>15, <1>16 DEF Next, CallerStep

-----------------------------------------------------------------------------
(* The calls in progress. *)

CallTypes ==
    /\ pc \in [Callers -> {"idle", "create", "fill", "sync", "publish",
                           "stat", "rename", "open", "openDst", "copy", "syncCopy",
                           "removeSrc"}]
    /\ call \in [Callers -> Call \union {NoCall}]
    /\ fd \in [Callers -> [src : Inodes \union {None}, dst : Inodes \union {None}]]
    /\ status \in [Msgs -> {"new", "writing", "acked", "failed"}]
    /\ removed \subseteq Msgs

(* A call has the arguments its step needs, and files open while it        *)
(* copies, which it does between devices only.                             *)
CallOK(c) ==
    /\ pc[c] = "idle" => call[c] = NoCall
    /\ pc[c] # "idle" => call[c] \in Call
    /\ pc[c] \in {"create"} \union TmpSteps => call[c].op = "write"
    /\ call[c].op = "write" =>
          call[c].from = "tmp" /\ call[c].to = "incoming" /\ status[call[c].msg] = "writing"
    /\ call[c].op = "move" => <<call[c].from, call[c].to>> \in Route
    /\ pc[c] \in {"open"} \union HoldSteps => Device[call[c].from] # Device[call[c].to]
    /\ pc[c] \in HoldSteps => fd[c].src \in Inodes
    /\ pc[c] \in CopySteps => fd[c].dst \in Inodes
    /\ pc[c] \notin CopySteps => fd[c].dst = None
    /\ pc[c] \notin HoldSteps => fd[c] = NoFd

(* No two writers and no two movers have the same message. *)
Alone ==
    \A a, b \in Callers :
        call[a].op # "none" /\ call[a].op = call[b].op /\ call[a].msg = call[b].msg => a = b

CallsInv == CallTypes /\ (\A c \in Callers : CallOK(c)) /\ Alone

(* The effect of a return, caller by caller. *)
LEMMA ReturnEffect ==
    ASSUME CallTypes, NEW c \in Callers, NEW result, Return(c, result)
    PROVE  /\ pc'[c] = "idle" /\ call'[c] = NoCall /\ fd'[c] = NoFd
           /\ \A b \in Callers \ {c} : pc'[b] = pc[b] /\ call'[b] = call[b] /\ fd'[b] = fd[b]
           /\ \A m \in Msgs : status'[m] = IF call[c].op = "write" /\ m = call[c].msg
                                           THEN result ELSE status[m]
  BY DEF CallTypes, Return

LEMMA ReturnKeepsCalls ==
    ASSUME CallsInv, NEW c \in Callers, pc[c] # "idle", NEW result \in {"acked", "failed"},
           Return(c, result), removed' \subseteq Msgs
    PROVE  CallsInv'
<1>1. /\ pc'[c] = "idle" /\ call'[c] = NoCall /\ fd'[c] = NoFd
      /\ \A b \in Callers \ {c} : pc'[b] = pc[b] /\ call'[b] = call[b] /\ fd'[b] = fd[b]
      /\ \A m \in Msgs : status'[m] = IF call[c].op = "write" /\ m = call[c].msg
                                      THEN result ELSE status[m]
  BY ReturnEffect DEF CallsInv
<1>2. CallTypes'
  BY DEF CallsInv, CallTypes, Return, NoFd
<1>3. ASSUME NEW b \in Callers PROVE CallOK(b)'
  <2>1. CASE b = c
    BY <1>1, <2>1 DEF CallOK, NoCall, NoFd, HoldSteps, CopySteps, TmpSteps
  <2>2. CASE b # c
    <3>1. pc'[b] = pc[b] /\ call'[b] = call[b] /\ fd'[b] = fd[b]
      BY <1>1, <2>2
    <3>2. call[b].op = "write" => status'[call[b].msg] = status[call[b].msg]
      <4>1. call[b].op = "write" => call[b] \in Call
        BY DEF CallsInv, CallTypes, NoCall
      <4> QED
        BY <1>1, <2>2, <4>1 DEF CallsInv, Alone, Call
    <3> QED
      BY <3>1, <3>2 DEF CallsInv, CallOK
  <2> QED
    BY <2>1, <2>2
<1>4. Alone'
  BY <1>1 DEF CallsInv, Alone, NoCall
<1> QED
  BY <1>2, <1>3, <1>4 DEF CallsInv

(* A step of c that leaves its call as it is. *)
LEMMA ProgressKeepsCalls ==
    ASSUME CallsInv, NEW c \in Callers, NEW l, Goto(c, l),
           l \in {"fill", "sync", "publish", "stat", "rename", "open", "openDst", "copy",
                 "syncCopy", "removeSrc"},
           UNCHANGED <<call, status, removed>>,
           call[c] \in Call,
           l \in TmpSteps => call[c].op = "write",
           l \in {"open"} \union HoldSteps => Device[call[c].from] # Device[call[c].to],
           NEW f \in [src : Inodes \union {None}, dst : Inodes \union {None}],
           fd' = [fd EXCEPT ![c] = f],
           l \in HoldSteps => f.src \in Inodes,
           l \in CopySteps => f.dst \in Inodes,
           l \notin CopySteps => f.dst = None,
           l \notin HoldSteps => f = NoFd
    PROVE  CallsInv'
<1>1. CallTypes'
  BY DEF CallsInv, CallTypes
<1>2. ASSUME NEW b \in Callers PROVE CallOK(b)'
  <2>1. CASE b = c
    <3>1. pc'[c] = l /\ fd'[c] = f
      BY DEF CallsInv, CallTypes
    <3> QED
      BY <2>1, <3>1 DEF CallsInv, CallOK
  <2>2. CASE b # c
    BY <2>2 DEF CallsInv, CallTypes, CallOK
  <2> QED
    BY <2>1, <2>2
<1>3. Alone'
  BY DEF CallsInv, Alone
<1> QED
  BY <1>1, <1>2, <1>3 DEF CallsInv

LEMMA SameFd ==
    ASSUME CallsInv, NEW c \in Callers, fd' = fd
    PROVE  fd' = [fd EXCEPT ![c] = fd[c]] /\ fd[c] \in [src : Inodes \union {None}, dst : Inodes \union {None}]
  BY DEF CallsInv, CallTypes

LEMMA ClosedProgress ==
    ASSUME CallsInv, NEW c \in Callers,
           NEW l \in {"fill", "sync", "publish", "stat", "rename", "open"}, Goto(c, l),
           UNCHANGED <<call, fd, status, removed>>,
           call[c] \in Call, fd[c] = NoFd,
           l \in TmpSteps => call[c].op = "write",
           l = "open" => Device[call[c].from] # Device[call[c].to]
    PROVE  CallsInv'
<1>1. /\ l \notin HoldSteps /\ l \notin CopySteps /\ fd[c].dst = None
      /\ l \in {"open"} \union HoldSteps => l = "open"
      /\ l \in {"fill", "sync", "publish", "stat", "rename", "open", "openDst", "copy",
                "syncCopy", "removeSrc"}
  BY DEF HoldSteps, CopySteps, NoFd
<1>2. fd' = [fd EXCEPT ![c] = fd[c]] /\ fd[c] \in [src : Inodes \union {None}, dst : Inodes \union {None}]
  BY SameFd
<1> QED
  BY <1>1, <1>2, ProgressKeepsCalls

LEMMA CallsStep ==
    ASSUME TypeOK, CallsInv, [Next]_vars
    PROVE  CallsInv'
<1>1. CASE Stays
  BY <1>1 DEF Stays, CallsInv, CallTypes, CallOK, Alone
<1>2. ASSUME NEW c \in Callers, CallerSteps(c) PROVE CallsInv'
  <2>1. ASSUME NEW m \in Msgs, BeginsWrite(c, m) PROVE CallsInv'
    <3>1. /\ pc'[c] = "create" /\ fd' = fd /\ fd[c] = NoFd
          /\ call'[c] = [op |-> "write", msg |-> m, from |-> "tmp", to |-> "incoming"]
          /\ \A b \in Callers \ {c} : pc'[b] = pc[b] /\ call'[b] = call[b]
          /\ status'[m] = "writing" /\ \A k \in Msgs \ {m} : status'[k] = status[k]
      BY <2>1 DEF BeginsWrite, CallsInv, CallTypes, CallOK, HoldSteps, CopySteps
    <3>2. call'[c] \in Call
      BY <3>1 DEF Call, Stages, Visible
    <3>3. CallTypes'
      BY <2>1, <3>2 DEF BeginsWrite, CallsInv, CallTypes
    <3>4. ASSUME NEW b \in Callers, b # c PROVE call[b].op = "write" => call[b].msg \in Msgs \ {m}
      <4>1. call[b].op = "write" => call[b] \in Call
        BY DEF CallsInv, CallTypes, NoCall
      <4> QED
        BY <2>1, <4>1 DEF BeginsWrite, CallsInv, CallOK, Call
    <3>5. CallOK(c)'
      BY <3>1, <3>2 DEF CallOK, NoFd, HoldSteps, CopySteps, TmpSteps
    <3>6. ASSUME NEW b \in Callers, b # c PROVE CallOK(b)'
      BY <3>1, <3>4, <3>6 DEF CallsInv, CallOK
    <3>7. Alone'
      BY <3>1, <3>4 DEF CallsInv, Alone
    <3> QED
      BY <3>3, <3>5, <3>6, <3>7 DEF CallsInv
  <2>2. ASSUME NEW m \in Msgs, NEW r \in Route, BeginsMove(c, m, r[1], r[2]) PROVE CallsInv'
    <3>1. /\ pc'[c] = "stat" /\ fd' = fd /\ fd[c] = NoFd /\ status' = status
          /\ call'[c] = [op |-> "move", msg |-> m, from |-> r[1], to |-> r[2]]
          /\ \A b \in Callers \ {c} : pc'[b] = pc[b] /\ call'[b] = call[b]
      BY <2>2 DEF BeginsMove, CallsInv, CallTypes, CallOK, HoldSteps, CopySteps
    <3>2. call'[c] \in Call
      <4>1. r[1] \in Visible /\ r[2] \in Visible
        BY RouteAssumption
      <4> QED
        BY <3>1, <4>1 DEF Call, Stages
    <3>3. CallTypes'
      BY <2>2, <3>2 DEF BeginsMove, CallsInv, CallTypes
    <3>4. CallOK(c)'
      BY <2>2, <3>1, <3>2 DEF BeginsMove, CallOK, NoFd, HoldSteps, CopySteps, TmpSteps
    <3>5. ASSUME NEW b \in Callers, b # c PROVE CallOK(b)'
      BY <3>1, <3>5 DEF CallsInv, CallOK
    <3>6. Alone'
      BY <2>2, <3>1 DEF CallsInv, Alone, BeginsMove
    <3> QED
      BY <3>3, <3>4, <3>5, <3>6 DEF CallsInv
  <2>3. CASE Fails(c)
    BY <2>3, ReturnKeepsCalls DEF Fails, Error, CallsInv, CallTypes
  <2>4. CASE Renames(c)
    BY <2>4, ReturnKeepsCalls DEF Renames, Ok, CallsInv, CallTypes
  <2>5. CASE Removes(c)
    BY <2>5, ReturnKeepsCalls DEF Removes, Ok, CallsInv, CallTypes
  <2>6. pc[c] # "idle" => call[c] \in Call
    BY DEF CallsInv, CallOK
  <2>7. CASE Creates(c) \/ Prepares(c) \/ Publishes(c)
    <3>1. PICK l \in {"fill", "sync", "publish", "stat"} : Goto(c, l)
      BY <2>7 DEF Creates, Prepares, Publishes
    <3>2. /\ pc[c] \in {"create"} \union TmpSteps /\ pc[c] # "idle"
          /\ UNCHANGED <<call, fd, status, removed>>
      BY <2>7 DEF Creates, Prepares, Publishes, TmpSteps
    <3>3. call[c].op = "write" /\ fd[c] = NoFd
      BY <3>2 DEF CallsInv, CallOK, TmpSteps, HoldSteps, CopySteps
    <3> QED
      BY <2>6, <3>1, <3>2, <3>3, ClosedProgress
  <2>8. CASE GoesOn(c)
    <3>1. PICK l \in {"rename", "open"} :
             Goto(c, l) /\ (l = "open" => Device[call[c].from] # Device[call[c].to])
      BY <2>8 DEF GoesOn
    <3>2. pc[c] \in {"stat", "rename"} /\ UNCHANGED <<call, fd, status, removed>>
      BY <2>8 DEF GoesOn
    <3>3. fd[c] = NoFd /\ l \notin TmpSteps /\ call[c] \in Call
      BY <2>6, <3>2 DEF CallsInv, CallOK, HoldSteps, CopySteps, TmpSteps
    <3> QED
      BY <3>1, <3>2, <3>3, ClosedProgress
  <2>9. CASE OpensSrc(c)
    <3>1. call[c].msg \in Msgs /\ call[c].from \in Names
      BY <2>6, <2>9 DEF OpensSrc, Call, Names
    <3>2. dir[call[c].msg][call[c].from] \in Inodes
      BY <2>9, <3>1 DEF OpensSrc, TypeOK
    <3>3. PICK f \in [src : Inodes \union {None}, dst : Inodes \union {None}] :
             fd' = [fd EXCEPT ![c] = f] /\ f.src \in Inodes /\ f.dst = None
      <4>1. fd[c] = NoFd
        BY <2>9 DEF OpensSrc, CallsInv, CallOK, HoldSteps, CopySteps
      <4>2. [src |-> dir[call[c].msg][call[c].from], dst |-> None] \in
               [src : Inodes \union {None}, dst : Inodes \union {None}]
        BY <3>2
      <4>3. fd' = [fd EXCEPT ![c] = [src |-> dir[call[c].msg][call[c].from], dst |-> None]]
        <5>1. [fd[c] EXCEPT !.src = dir[call[c].msg][call[c].from]] =
                 [src |-> dir[call[c].msg][call[c].from], dst |-> None]
          BY <4>1 DEF NoFd
        <5>2. fd' = [fd EXCEPT ![c] = [fd[c] EXCEPT !.src = dir[call[c].msg][call[c].from]]]
          BY <2>9 DEF OpensSrc
        <5> QED
          BY <5>1, <5>2
      <4> QED
        BY <3>2, <4>2, <4>3
    <3>4. Device[call[c].from] # Device[call[c].to] /\ UNCHANGED <<call, status, removed>> /\ Goto(c, "openDst")
      BY <2>9 DEF OpensSrc, CallsInv, CallOK
    <3>5. /\ "openDst" \in HoldSteps /\ "openDst" \notin CopySteps /\ "openDst" \notin TmpSteps
          /\ call[c] \in Call
      BY <2>6, <2>9 DEF OpensSrc, HoldSteps, CopySteps, TmpSteps
    <3> QED
      BY <3>3, <3>4, <3>5, ProgressKeepsCalls
  <2>10. CASE Opens(c)
    <3>1. call[c].msg \in Msgs /\ call[c].to \in Names
      BY <2>6, <2>10 DEF Opens, Call, Names
    <3>2. dir[call[c].msg][call[c].to] \in Inodes \union {None}
      BY <3>1 DEF TypeOK
    <3>3. PICK i \in Inodes : fd' = [fd EXCEPT ![c].dst = i]
      BY <2>10, <3>2 DEF Opens, Free
    <3>4. /\ Device[call[c].from] # Device[call[c].to] /\ UNCHANGED <<call, status, removed>> /\ Goto(c, "copy")
          /\ fd[c].src \in Inodes
      BY <2>10 DEF Opens, CallsInv, CallOK, HoldSteps
    <3>5. PICK f \in [src : Inodes \union {None}, dst : Inodes \union {None}] :
             fd' = [fd EXCEPT ![c] = f] /\ f.src \in Inodes /\ f.dst \in Inodes
      <4>1. fd[c] \in [src : Inodes \union {None}, dst : Inodes \union {None}]
        BY DEF CallsInv, CallTypes
      <4>2. [fd[c] EXCEPT !.dst = i] \in [src : Inodes \union {None}, dst : Inodes \union {None}]
        BY <4>1
      <4>3. [fd[c] EXCEPT !.dst = i].src = fd[c].src /\ [fd[c] EXCEPT !.dst = i].dst = i
        BY <4>1
      <4> QED
        BY <3>3, <3>4, <4>2, <4>3
    <3> QED
      BY <2>6, <2>10, <3>4, <3>5, ProgressKeepsCalls DEF Opens, HoldSteps, CopySteps, TmpSteps
  <2>11. CASE Copies(c)
    <3>1. PICK l \in {"syncCopy", "removeSrc"} : Goto(c, l)
      BY <2>11 DEF Copies
    <3>2. pc[c] \in CopySteps /\ pc[c] # "idle" /\ UNCHANGED <<call, fd, status, removed>>
      BY <2>11 DEF Copies, HoldSteps, CopySteps
    <3>3. fd[c].src \in Inodes /\ fd[c].dst \in Inodes /\ Device[call[c].from] # Device[call[c].to]
      BY <3>2 DEF CallsInv, CallOK, HoldSteps
    <3> QED
      BY <2>6, <3>1, <3>2, <3>3, SameFd, ProgressKeepsCalls DEF NoFd, HoldSteps, CopySteps, TmpSteps
  <2> QED
    BY <1>2, <2>1, <2>2, <2>3, <2>4, <2>5, <2>7, <2>8, <2>9, <2>10, <2>11 DEF CallerSteps
<1>3. ASSUME NEW m \in Msgs, NEW s \in Visible, Takes(m, s) PROVE CallsInv'
  BY <1>3 DEF Takes, CallsInv, CallTypes, CallOK, Alone
<1>4. CASE Crashes
  <2>1. \A c \in Callers : pc'[c] = "idle" /\ call'[c] = NoCall /\ fd'[c] = NoFd
    BY <1>4 DEF Crashes
  <2>2. CallTypes'
    BY <1>4 DEF Crashes, CallsInv, CallTypes, NoFd
  <2> QED
    BY <2>1, <2>2 DEF CallsInv, CallOK, Alone, NoCall, NoFd, TmpSteps, HoldSteps, CopySteps
<1> QED
  BY <1>1, <1>2, <1>3, <1>4, StepCases

-----------------------------------------------------------------------------
(* The names and the files. *)

FileTypes ==
    /\ dir \in [Msgs -> [Names -> Inodes \union {None}]]
    /\ content \in [Inodes -> {"partial", "full", "synced"}]
    /\ \A m, k \in Msgs, n, o \in Names :
          dir[m][n] = dir[k][o] /\ dir[m][n] # None => m = k /\ n = o

(* The places a file comes to only after Write has synced it. *)
Settled == {"tmp"} \union RenamedInto

NewHasNoFile == \A m \in Msgs : status[m] = "new" => \A n \in Names : dir[m][n] = None

SettledIsSynced ==
    \A m \in Msgs, n \in Settled : dir[m][n] # None => content[dir[m][n]] = "synced"

(* copyFile writes to none of the files Write has made. *)
CopiesElsewhere ==
    \A c \in Callers, m \in Msgs, n \in Settled \union {"tmpfile"} :
        dir[m][n] # None => fd[c].dst # dir[m][n]

(* Until the last step of Write its message has one name at most, in tmp. *)
WriterOK(c) ==
    call[c].op = "write" =>
        /\ pc[c] = "create" => \A n \in Names : dir[call[c].msg][n] = None
        /\ pc[c] \in TmpSteps =>
              /\ dir[call[c].msg]["tmpfile"] # None
              /\ \A n \in Names \ {"tmpfile"} : dir[call[c].msg][n] = None
        /\ pc[c] = "publish" => content[dir[call[c].msg]["tmpfile"]] = "synced"
        /\ pc[c] \in {"stat", "rename", "open", "openDst"} =>
              \A n \in Names \ {"tmp"} : dir[call[c].msg][n] = None

NamesInv == FileTypes /\ NewHasNoFile /\ SettledIsSynced /\ CopiesElsewhere

EarlySteps == {"create", "stat", "rename", "open", "openDst"} \union TmpSteps

(* Whoever has opened a message to copy it found a file, so its Write has  *)
(* come to its last step, should the file be gone by now.                  *)
HolderOK(c) ==
    pc[c] = "openDst" =>
        /\ status[call[c].msg] # "new"
        /\ \A b \in Callers \ {c} :
              call[b].op = "write" /\ call[b].msg = call[c].msg => pc[b] \notin EarlySteps

FilesInv == NamesInv /\ \A c \in Callers : WriterOK(c) /\ HolderOK(c)

(* RenamedInto has the property of the sets it is the union of. *)
LEMMA RenamedIntoClosed ==
    /\ RenamedInto \subseteq Visible
    /\ "incoming" \in RenamedInto => Device["tmp"] = Device["incoming"]
    /\ \A r \in Route : r[2] \in RenamedInto => r[1] \in RenamedInto /\ Device[r[1]] = Device[r[2]]
  BY DEF RenamedInto

LEMMA SettledNames == Settled \subseteq Names /\ "tmpfile" \notin Settled
  BY RenamedIntoClosed, StagesAssumption DEF Settled, Names, Stages

LEMMA SetName ==
    ASSUME FileTypes, NEW m \in Msgs, NEW n \in Names, NEW v \in Inodes \union {None},
           dir' = [dir EXCEPT ![m][n] = v]
    PROVE  /\ dir' \in [Msgs -> [Names -> Inodes \union {None}]]
           /\ \A k \in Msgs, o \in Names : dir'[k][o] = IF k = m /\ o = n THEN v ELSE dir[k][o]
  BY DEF FileTypes

LEMMA MoveName ==
    ASSUME FileTypes, NEW m \in Msgs, NEW from \in Names, NEW to \in Names, rename(m, from, to)
    PROVE  /\ dir' \in [Msgs -> [Names -> Inodes \union {None}]]
           /\ \A k \in Msgs, o \in Names :
                 dir'[k][o] = IF k # m THEN dir[k][o] ELSE IF o = from THEN None
                              ELSE IF o = to THEN dir[m][from] ELSE dir[k][o]
<1>1. PICK d : d = [dir EXCEPT ![m][to] = dir[m][from]]
  OBVIOUS
<1>2. /\ d \in [Msgs -> [Names -> Inodes \union {None}]]
      /\ \A k \in Msgs, o \in Names : d[k][o] = IF k = m /\ o = to THEN dir[m][from] ELSE dir[k][o]
  BY <1>1 DEF FileTypes
<1>3. dir' = [d EXCEPT ![m][from] = None]
  BY <1>1 DEF rename
<1> QED
  BY <1>2, <1>3

LEMMA CallNames ==
    ASSUME CallsInv, NEW c \in Callers, pc[c] # "idle"
    PROVE  /\ call[c] \in Call /\ call[c].op \in {"write", "move"}
           /\ call[c].msg \in Msgs /\ call[c].from \in Names /\ call[c].to \in Visible
           /\ call[c].from # "tmpfile" /\ call[c].to # "tmp" /\ call[c].to # "tmpfile"
           /\ call[c].op = "move" => call[c].from \in Visible
<1>1. call[c] \in Call
  BY DEF CallsInv, CallOK
<1>2. call[c].op = "move" => call[c].from \in Visible /\ call[c].to \in Visible
  BY RouteAssumption DEF CallsInv, CallOK
<1>3. call[c].op = "write" => call[c].from = "tmp" /\ call[c].to = "incoming"
  BY DEF CallsInv, CallOK
<1> QED
  BY <1>1, <1>2, <1>3, StagesAssumption DEF Call, Names, Stages, Visible

(* A step that adds no name and tears no synced file. *)
LEMMA FewerNames ==
    ASSUME NamesInv, dir' \in [Msgs -> [Names -> Inodes \union {None}]],
           content' \in [Inodes -> {"partial", "full", "synced"}],
           \A k \in Msgs, o \in Names : dir'[k][o] = dir[k][o] \/ dir'[k][o] = None,
           \A i \in Inodes : content[i] = "synced" => content'[i] = "synced",
           \A c \in Callers : fd'[c].dst = fd[c].dst \/ fd'[c].dst = None,
           \A k \in Msgs : status'[k] = "new" => status[k] = "new"
    PROVE  NamesInv'
<1>1. FileTypes'
  BY DEF NamesInv, FileTypes
<1>2. NewHasNoFile'
  BY DEF NamesInv, NewHasNoFile
<1>3. SettledIsSynced'
  BY SettledNames DEF NamesInv, SettledIsSynced, Settled, FileTypes
<1>4. CopiesElsewhere'
  BY SettledNames DEF NamesInv, CopiesElsewhere, Settled, Names
<1> QED
  BY <1>1, <1>2, <1>3, <1>4 DEF NamesInv

(* A writer notices only what happens to its own message's names. *)
LEMMA WriterKept ==
    ASSUME NEW b \in Callers, WriterOK(b), pc'[b] = pc[b], call'[b] = call[b],
           call[b].op = "write" => call[b].msg \in Msgs,
           call[b].op = "write" /\ pc[b] \in EarlySteps =>
               \A n \in Names : dir'[call[b].msg][n] = dir[call[b].msg][n],
           call[b].op = "write" /\ pc[b] = "publish" =>
               content'[dir[call[b].msg]["tmpfile"]] = content[dir[call[b].msg]["tmpfile"]]
    PROVE  WriterOK(b)'
<1>1. "tmpfile" \in Names
  BY DEF Names
<1> QED
  BY <1>1 DEF WriterOK, EarlySteps, TmpSteps

LEMMA NamesStep ==
    ASSUME TypeOK, CallsInv, FilesInv, [Next]_vars
    PROVE  NamesInv'
<1> USE DEF FilesInv
<1>1. CASE Stays
  BY <1>1, FewerNames DEF Stays, NamesInv, FileTypes
<1>2. ASSUME NEW c \in Callers, CallerSteps(c) PROVE NamesInv'
  <2>1. ASSUME NEW m \in Msgs, BeginsWrite(c, m) PROVE NamesInv'
    BY <2>1, FewerNames DEF BeginsWrite, NamesInv, FileTypes, CallsInv, CallTypes
  <2>2. ASSUME NEW m \in Msgs, NEW r \in Route, BeginsMove(c, m, r[1], r[2]) PROVE NamesInv'
    BY <2>2, FewerNames DEF BeginsMove, NamesInv, FileTypes
  <2>3. ASSUME pc[c] # "idle"
        PROVE  /\ call[c].msg \in Msgs /\ call[c].from \in Names /\ call[c].to \in Names
               /\ call[c].from # "tmpfile" /\ call[c].to \notin {"tmp", "tmpfile"}
               /\ "tmp" \in Names /\ "tmpfile" \in Names
    BY <2>3, CallNames DEF Names, Stages
  <2>4. ASSUME NEW result \in {"acked", "failed"}, Return(c, result)
        PROVE  /\ \A b \in Callers : fd'[b].dst = fd[b].dst \/ fd'[b].dst = None
               /\ \A k \in Msgs : status'[k] = "new" => status[k] = "new"
    BY <2>4, ReturnEffect DEF CallsInv, NoFd
  <2>5. CASE Fails(c)
    <3>1. /\ dir' \in [Msgs -> [Names -> Inodes \union {None}]]
          /\ \A k \in Msgs, o \in Names : dir'[k][o] = dir[k][o] \/ dir'[k][o] = None
      <4>1. CASE dir' = dir
        BY <4>1 DEF NamesInv, FileTypes
      <4>2. CASE unlink(call[c].msg, "tmpfile")
        <5>1. call[c].msg \in Msgs /\ "tmpfile" \in Names /\ FileTypes
          BY <2>3, <2>5 DEF Fails, NamesInv
        <5>2. dir' = [dir EXCEPT ![call[c].msg]["tmpfile"] = None]
          BY <4>2 DEF unlink
        <5>3. /\ dir' \in [Msgs -> [Names -> Inodes \union {None}]]
              /\ \A k \in Msgs, o \in Names :
                    dir'[k][o] = IF k = call[c].msg /\ o = "tmpfile" THEN None ELSE dir[k][o]
          BY <5>1, <5>2, SetName
        <5> QED
          BY <5>3
      <4> QED
        BY <2>5, <4>1, <4>2 DEF Fails
    <3> QED
      BY <2>4, <2>5, <3>1, FewerNames DEF Fails, Error, NamesInv, FileTypes
  <2>6. CASE GoesOn(c)
    BY <2>6, FewerNames DEF GoesOn, NamesInv, FileTypes
  <2>14. CASE OpensSrc(c)
    <3>1. \A b \in Callers : fd'[b].dst = fd[b].dst
      BY <2>14 DEF OpensSrc, CallsInv, CallTypes
    <3> QED
      BY <2>14, <3>1, FewerNames DEF OpensSrc, NamesInv, FileTypes
  <2>7. CASE Removes(c)
    <3>1. /\ dir' \in [Msgs -> [Names -> Inodes \union {None}]]
          /\ \A k \in Msgs, o \in Names : dir'[k][o] = dir[k][o] \/ dir'[k][o] = None
      BY <2>3, <2>7, SetName DEF Removes, unlink, NamesInv
    <3> QED
      BY <2>4, <2>7, <3>1, FewerNames DEF Removes, Ok, NamesInv, FileTypes
  <2>8. CASE Creates(c)
    <3> DEFINE m == call[c].msg
    <3>1. m \in Msgs /\ "tmpfile" \in Names /\ status[m] # "new"
      BY <2>3, <2>8 DEF Creates, CallsInv, CallOK
    <3>2. PICK i \in Free : /\ dir' = [dir EXCEPT ![m]["tmpfile"] = i]
                            /\ content' = [content EXCEPT ![i] = "partial"]
      BY <2>8 DEF Creates
    <3>3. /\ dir' \in [Msgs -> [Names -> Inodes \union {None}]]
          /\ \A k \in Msgs, o \in Names :
                dir'[k][o] = IF k = m /\ o = "tmpfile" THEN i ELSE dir[k][o]
      BY <3>1, <3>2, SetName DEF NamesInv, Free
    <3>4. UNCHANGED <<fd, status>>
      BY <2>8 DEF Creates
    <3>5. FileTypes'
      BY <3>1, <3>2, <3>3 DEF NamesInv, FileTypes, Free
    <3>6. NewHasNoFile'
      BY <3>1, <3>3, <3>4 DEF NamesInv, NewHasNoFile
    <3>7. SettledIsSynced'
      BY <3>2, <3>3, SettledNames DEF NamesInv, SettledIsSynced, FileTypes, Settled, Free
    <3>8. CopiesElsewhere'
      <4> SUFFICES ASSUME NEW b \in Callers, NEW k \in Msgs, NEW o \in Settled \union {"tmpfile"},
                          dir'[k][o] # None
                   PROVE  fd[b].dst # dir'[k][o]
        BY <3>4 DEF CopiesElsewhere, Settled
      <4>1. dir'[k][o] = i \/ dir'[k][o] = dir[k][o]
        BY <3>1, <3>3, SettledNames
      <4> QED
        BY <4>1 DEF NamesInv, CopiesElsewhere, Free
    <3> QED
      BY <3>5, <3>6, <3>7, <3>8 DEF NamesInv
  <2>9. CASE Prepares(c)
    <3> DEFINE m == call[c].msg
    <3>1. m \in Msgs /\ "tmpfile" \in Names
      BY <2>3, <2>9 DEF Prepares
    <3>2. UNCHANGED <<dir, fd, status>>
      BY <2>9 DEF Prepares
    <3>3. PICK v \in {"full", "synced"} : content' = [content EXCEPT ![dir[m]["tmpfile"]] = v]
      BY <2>9 DEF Prepares
    <3>4. FileTypes'
      <4>1. content' \in [Inodes -> {"partial", "full", "synced"}]
        BY <3>3 DEF NamesInv, FileTypes
      <4> QED
        BY <3>2, <4>1 DEF NamesInv, FileTypes
    <3>5. NewHasNoFile'
      BY <3>2 DEF NamesInv, NewHasNoFile
    <3>6. SettledIsSynced'
      <4> SUFFICES ASSUME NEW k \in Msgs, NEW o \in Settled, dir[k][o] # None
                   PROVE  content'[dir[k][o]] = "synced"
        BY <3>2 DEF SettledIsSynced, Settled
      <4>1. dir[k][o] \in Inodes /\ dir[k][o] # dir[m]["tmpfile"]
        BY <3>1, SettledNames DEF NamesInv, FileTypes
      <4> QED
        BY <3>3, <4>1 DEF NamesInv, FileTypes, SettledIsSynced
    <3>7. CopiesElsewhere'
      BY <3>2 DEF NamesInv, CopiesElsewhere, Settled
    <3> QED
      BY <3>4, <3>5, <3>6, <3>7 DEF NamesInv
  <2>10. CASE Publishes(c)
    <3> DEFINE m == call[c].msg
    <3>1. m \in Msgs /\ "tmpfile" \in Names /\ "tmp" \in Names /\ "tmp" # "tmpfile"
      BY <2>3, <2>10 DEF Publishes
    <3>2. UNCHANGED <<content, fd, status>>
      BY <2>10 DEF Publishes
    <3>3. /\ dir' \in [Msgs -> [Names -> Inodes \union {None}]]
          /\ \A k \in Msgs, o \in Names :
                 dir'[k][o] = IF k # m THEN dir[k][o] ELSE IF o = "tmpfile" THEN None
                              ELSE IF o = "tmp" THEN dir[m]["tmpfile"] ELSE dir[k][o]
      BY <2>10, <3>1, MoveName DEF Publishes, NamesInv
    <3>4. content[dir[m]["tmpfile"]] = "synced" /\ status[m] # "new"
      BY <2>10 DEF Publishes, WriterOK, CallsInv, CallOK, TmpSteps
    <3>5. FileTypes'
      BY <3>1, <3>2, <3>3 DEF NamesInv, FileTypes
    <3>6. NewHasNoFile'
      BY <3>2, <3>3, <3>4 DEF NamesInv, NewHasNoFile
    <3>7. SettledIsSynced'
      BY <3>1, <3>2, <3>3, <3>4, SettledNames DEF NamesInv, SettledIsSynced, Settled
    <3>8. CopiesElsewhere'
      <4> SUFFICES ASSUME NEW b \in Callers, NEW k \in Msgs, NEW o \in Settled \union {"tmpfile"},
                          dir'[k][o] # None
                   PROVE  fd[b].dst # dir'[k][o]
        BY <3>2 DEF CopiesElsewhere, Settled
      <4>1. dir'[k][o] = dir[k]["tmpfile"] \/ dir'[k][o] = dir[k][o]
        BY <3>1, <3>3, SettledNames
      <4> QED
        BY <4>1 DEF NamesInv, CopiesElsewhere
    <3> QED
      BY <3>5, <3>6, <3>7, <3>8 DEF NamesInv
  <2>11. CASE Renames(c)
    <3> DEFINE m == call[c].msg
               from == call[c].from
               to == call[c].to
    <3>1. m \in Msgs /\ from \in Names /\ to \in Names /\ from # "tmpfile" /\ to \notin {"tmp", "tmpfile"}
      BY <2>3, <2>11 DEF Renames
    <3>2. /\ dir' \in [Msgs -> [Names -> Inodes \union {None}]]
          /\ \A k \in Msgs, o \in Names :
                 dir'[k][o] = IF k # m THEN dir[k][o] ELSE IF o = from THEN None
                              ELSE IF o = to THEN dir[m][from] ELSE dir[k][o]
      BY <2>11, <3>1, MoveName DEF Renames, NamesInv
    <3>3. /\ \A b \in Callers : fd'[b].dst = fd[b].dst \/ fd'[b].dst = None
          /\ \A k \in Msgs : status'[k] = "new" => status[k] = "new"
      BY <2>4, <2>11 DEF Renames, Ok
    <3>4. content' = content /\ dir[m][from] # None
      BY <2>11 DEF Renames
    <3>5. to \in Settled => from \in Settled
      <4>1. CASE call[c].op = "write"
        BY <4>1 DEF CallsInv, CallOK, Settled
      <4>2. CASE call[c].op = "move"
        <5>1. <<from, to>> \in Route
          BY <4>2 DEF CallsInv, CallOK
        <5> QED
          BY <3>1, <5>1, RenamedIntoClosed DEF Settled
      <4> QED
        BY <2>11, <4>1, <4>2, CallNames DEF Renames
    <3>6. FileTypes'
      BY <3>1, <3>2, <3>4 DEF NamesInv, FileTypes
    <3>7. NewHasNoFile'
      BY <3>1, <3>2, <3>3, <3>4 DEF NamesInv, NewHasNoFile
    <3>8. SettledIsSynced'
      <4> SUFFICES ASSUME NEW k \in Msgs, NEW o \in Settled, dir'[k][o] # None
                   PROVE  content[dir'[k][o]] = "synced"
        BY <3>4 DEF SettledIsSynced, Settled
      <4>1. o \in Names
        BY SettledNames
      <4>2. dir'[k][o] = dir[k][o] \/ (from \in Settled /\ dir'[k][o] = dir[k][from])
        BY <3>2, <3>5, <4>1
      <4> QED
        BY <4>2 DEF NamesInv, SettledIsSynced
    <3>9. CopiesElsewhere'
      <4> SUFFICES ASSUME NEW b \in Callers, NEW k \in Msgs, NEW o \in Settled \union {"tmpfile"},
                          dir'[k][o] # None
                   PROVE  fd'[b].dst # dir'[k][o]
        BY DEF CopiesElsewhere, Settled
      <4>1. fd'[b].dst # None => fd'[b].dst = fd[b].dst
        BY <3>3
      <4>2. o \in Names
        BY SettledNames DEF Names
      <4>3. dir'[k][o] = dir[k][o] \/ (from \in Settled /\ dir'[k][o] = dir[k][from])
        BY <3>1, <3>2, <3>5, <4>2
      <4> QED
        BY <4>1, <4>3 DEF NamesInv, CopiesElsewhere
    <3> QED
      BY <3>6, <3>7, <3>8, <3>9 DEF NamesInv
  <2>12. CASE Opens(c)
    <3> DEFINE m == call[c].msg
               from == call[c].from
               to == call[c].to
    <3>1. m \in Msgs /\ from \in Names /\ to \in Names /\ to # "tmpfile"
      BY <2>3, <2>12 DEF Opens
    <3>2. PICK i \in IF dir[m][to] = None THEN Free ELSE {dir[m][to]} :
             /\ dir' = [dir EXCEPT ![m][to] = i]
             /\ content' = [content EXCEPT ![i] = "partial"]
             /\ fd' = [fd EXCEPT ![c].dst = i]
      BY <2>12 DEF Opens
    <3>3. i \in Inodes /\ \A k \in Msgs, o \in Names : dir[k][o] = i => k = m /\ o = to
      BY <3>1, <3>2 DEF NamesInv, FileTypes, Free
    <3>4. /\ dir' \in [Msgs -> [Names -> Inodes \union {None}]]
          /\ \A k \in Msgs, o \in Names :
                dir'[k][o] = IF k = m /\ o = to THEN i ELSE dir[k][o]
      <4>1. FileTypes /\ i \in Inodes \union {None} /\ dir' = [dir EXCEPT ![m][to] = i]
        BY <3>2, <3>3 DEF NamesInv
      <4> HIDE DEF m, to
      <4> QED
        BY <3>1, <4>1, SetName
    <3>5. to \notin Settled
      <4>1. CASE call[c].op = "write"
        BY <2>3, <2>12, <4>1, RenamedIntoClosed DEF Opens, CallsInv, CallOK, HoldSteps, Settled
      <4>2. CASE call[c].op = "move"
        <5>1. <<from, to>> \in Route /\ Device[from] # Device[to] /\ to # "tmp"
          BY <2>3, <2>12, <4>2 DEF Opens, CallsInv, CallOK, HoldSteps
        <5> QED
          BY <5>1, RenamedIntoClosed DEF Settled
      <4> QED
        BY <2>12, <4>1, <4>2, CallNames DEF Opens
    <3>6. status' = status /\ status[m] # "new"
      BY <2>12 DEF Opens, HolderOK
    <3>7. FileTypes'
      BY <3>1, <3>2, <3>3, <3>4 DEF NamesInv, FileTypes
    <3>8. NewHasNoFile'
      BY <3>1, <3>4, <3>6 DEF NamesInv, NewHasNoFile
    <3>9. SettledIsSynced'
      BY <3>1, <3>2, <3>3, <3>4, <3>5, SettledNames DEF NamesInv, FileTypes, SettledIsSynced, Settled
    <3>10. CopiesElsewhere'
      <4> SUFFICES ASSUME NEW b \in Callers, NEW k \in Msgs, NEW o \in Settled \union {"tmpfile"},
                          dir'[k][o] # None
                   PROVE  fd'[b].dst # dir'[k][o]
        BY DEF CopiesElsewhere, Settled
      <4>1. dir'[k][o] = dir[k][o] /\ dir[k][o] # i /\ o \in Names
        BY <3>1, <3>3, <3>4, <3>5, SettledNames DEF Names
      <4>2. fd'[b].dst = IF b = c THEN i ELSE fd[b].dst
        BY <3>2 DEF CallsInv, CallTypes
      <4> QED
        BY <4>1, <4>2 DEF NamesInv, CopiesElsewhere
    <3> QED
      BY <3>7, <3>8, <3>9, <3>10 DEF NamesInv
  <2>13. CASE Copies(c)
    <3>1. UNCHANGED <<dir, fd, status>>
      BY <2>13 DEF Copies
    <3>2. PICK v \in {"partial", "full", "synced"} : content' = [content EXCEPT ![fd[c].dst] = v]
      <4>1. fd[c].dst \in Inodes
        BY <2>13 DEF Copies, CallsInv, CallOK, HoldSteps, CopySteps
      <4>2. CASE pc[c] = "copy"
        BY <2>13, <4>2 DEF Copies
      <4>3. CASE pc[c] = "syncCopy"
        BY <2>13, <4>1, <4>3 DEF Copies, NamesInv, FileTypes
      <4> QED
        BY <2>13, <4>2, <4>3 DEF Copies
    <3>3. FileTypes'
      <4>1. content' \in [Inodes -> {"partial", "full", "synced"}]
        BY <3>2 DEF NamesInv, FileTypes
      <4> QED
        BY <3>1, <4>1 DEF NamesInv, FileTypes
    <3>4. NewHasNoFile'
      BY <3>1 DEF NamesInv, NewHasNoFile
    <3>5. SettledIsSynced'
      BY <3>1, <3>2, SettledNames DEF NamesInv, FileTypes, SettledIsSynced, CopiesElsewhere, Settled
    <3>6. CopiesElsewhere'
      BY <3>1 DEF NamesInv, CopiesElsewhere, Settled
    <3> QED
      BY <3>3, <3>4, <3>5, <3>6 DEF NamesInv
  <2> QED
    BY <1>2, <2>1, <2>2, <2>5, <2>6, <2>7, <2>8, <2>9, <2>10, <2>11, <2>12, <2>13,
       <2>14 DEF CallerSteps
<1>3. ASSUME NEW m \in Msgs, NEW s \in Visible, Takes(m, s) PROVE NamesInv'
  <2>1. s \in Names
    BY DEF Names, Stages
  <2>2. /\ dir' \in [Msgs -> [Names -> Inodes \union {None}]]
        /\ \A k \in Msgs, o \in Names : dir'[k][o] = dir[k][o] \/ dir'[k][o] = None
    BY <1>3, <2>1, SetName DEF Takes, unlink, NamesInv
  <2> QED
    BY <1>3, <2>2, FewerNames DEF Takes, NamesInv, FileTypes
<1>4. CASE Crashes
  <2>1. /\ dir' \in [Msgs -> [Names -> Inodes \union {None}]]
        /\ content' \in [Inodes -> {"partial", "full", "synced"}]
        /\ \A k \in Msgs, o \in Names : dir'[k][o] = dir[k][o] \/ dir'[k][o] = None
        /\ \A i \in Inodes : content[i] = "synced" => content'[i] = "synced"
        /\ \A c \in Callers : fd'[c].dst = fd[c].dst \/ fd'[c].dst = None
        /\ \A k \in Msgs : status'[k] = "new" => status[k] = "new"
    BY <1>4 DEF Crashes, NamesInv, FileTypes, NoFd
  <2> QED
    BY <2>1, FewerNames
<1> QED
  BY <1>1, <1>2, <1>3, <1>4, StepCases

(* The message of a writer that has not come to its last step is hidden. *)
LEMMA EarlyIsHidden ==
    ASSUME CallsInv, FilesInv, NEW b \in Callers, call[b].op = "write", pc[b] \in EarlySteps
    PROVE  /\ call[b].msg \in Msgs /\ status[call[b].msg] = "writing"
           /\ \A s \in Visible : dir[call[b].msg][s] = None
<1>1. pc[b] # "idle"
  BY DEF EarlySteps, TmpSteps
<1>2. call[b].msg \in Msgs /\ status[call[b].msg] = "writing"
  BY <1>1, CallNames DEF CallsInv, CallOK
<1>3. \A s \in Visible : s \in Names /\ s # "tmp" /\ s # "tmpfile"
  BY StagesAssumption DEF Names, Stages
<1> QED
  BY <1>2, <1>3 DEF FilesInv, WriterOK, EarlySteps

LEMMA WritersStep ==
    ASSUME TypeOK, CallsInv, FilesInv, [Next]_vars, NEW b \in Callers
    PROVE  WriterOK(b)'
<1>1. WriterOK(b) /\ (call[b].op = "write" => call[b] \in Call /\ call[b].msg \in Msgs)
  BY DEF FilesInv, CallsInv, CallTypes, NoCall, Call
<1>2. CASE Stays
  BY <1>1, <1>2, WriterKept DEF Stays
<1>3. ASSUME NEW c \in Callers, CallerSteps(c) PROVE WriterOK(b)'
  <2>1. ASSUME NEW m \in Msgs, BeginsWrite(c, m) PROVE WriterOK(b)'
    <3>1. CASE b = c
      <4>1. pc'[b] = "create" /\ call'[b].msg = m /\ dir' = dir /\ status[m] = "new"
        BY <2>1, <3>1 DEF BeginsWrite, CallsInv, CallTypes
      <4> QED
        BY <4>1 DEF WriterOK, FilesInv, NamesInv, NewHasNoFile, TmpSteps
    <3>2. CASE b # c
      <4>1. pc'[b] = pc[b] /\ call'[b] = call[b] /\ dir' = dir /\ content' = content
        BY <2>1, <3>2 DEF BeginsWrite, CallsInv, CallTypes
      <4> QED
        BY <1>1, <4>1, WriterKept
    <3> QED
      BY <3>1, <3>2
  <2>2. ASSUME NEW m \in Msgs, NEW r \in Route, BeginsMove(c, m, r[1], r[2]) PROVE WriterOK(b)'
    <3>1. CASE b = c
      <4>1. call'[b].op = "move"
        BY <2>2, <3>1 DEF BeginsMove, CallsInv, CallTypes
      <4> QED
        BY <4>1 DEF WriterOK
    <3>2. CASE b # c
      <4>1. pc'[b] = pc[b] /\ call'[b] = call[b] /\ dir' = dir /\ content' = content
        BY <2>2, <3>2 DEF BeginsMove, CallsInv, CallTypes
      <4> QED
        BY <1>1, <4>1, WriterKept
    <3> QED
      BY <3>1, <3>2
  <2>3. ASSUME pc[c] # "idle"
        PROVE  /\ call[c].msg \in Msgs /\ call[c].from \in Names /\ call[c].to \in Visible
               /\ call[c].from # "tmpfile" /\ call[c].to \notin {"tmp", "tmpfile"}
               /\ "tmp" \in Names /\ "tmpfile" \in Names /\ call[c].to \in Names
               /\ call[c].op \in {"write", "move"}
               /\ call[c].op = "move" => call[c].from \in Visible
    BY <2>3, CallNames DEF Names, Stages
  <2>4. ASSUME NEW result, Return(c, result), b = c PROVE WriterOK(b)'
    BY <2>4, ReturnEffect DEF CallsInv, WriterOK, NoCall
  <2>5. ASSUME NEW result, Return(c, result), b # c PROVE pc'[b] = pc[b] /\ call'[b] = call[b]
    BY <2>5, ReturnEffect DEF CallsInv
  <2>6. ASSUME NEW l, Goto(c, l), call' = call
        PROVE  /\ b = c => pc'[b] = l /\ call'[b] = call[b]
               /\ b # c => pc'[b] = pc[b] /\ call'[b] = call[b]
    BY <2>6 DEF CallsInv, CallTypes
  (* a mover with the same message finds no file while the writer is early *)
  <2>7. ASSUME pc[c] # "idle", call[b].op = "write", pc[b] \in EarlySteps, b # c,
               dir[call[c].msg][call[c].from] # None
        PROVE  call[c].msg # call[b].msg
    <3> SUFFICES ASSUME call[c].msg = call[b].msg PROVE FALSE
      OBVIOUS
    <3>1. call[c].op # "write"
      BY <2>7 DEF CallsInv, Alone
    <3>2. call[c].from \in Visible
      BY <2>3, <2>7, <3>1
    <3> QED
      BY <2>7, <3>2, EarlyIsHidden
  <2>8. CASE Fails(c)
    <3>1. CASE b = c
      BY <2>4, <2>8, <3>1 DEF Fails, Error
    <3>2. CASE b # c
      <4>1. pc'[b] = pc[b] /\ call'[b] = call[b] /\ content' = content
        BY <2>5, <2>8, <3>2 DEF Fails, Error
      <4>2. CASE dir' = dir
        BY <1>1, <4>1, <4>2, WriterKept
      <4>3. CASE pc[c] \in TmpSteps /\ unlink(call[c].msg, "tmpfile")
        <5>1. call[c].op = "write" /\ call[c].msg \in Msgs /\ "tmpfile" \in Names
          BY <2>3, <2>8, <4>3 DEF Fails, CallsInv, CallOK
        <5>2. call[b].op = "write" => call[b].msg # call[c].msg
          BY <3>2, <5>1 DEF CallsInv, Alone
        <5>3. \A k \in Msgs, o \in Names : k # call[c].msg => dir'[k][o] = dir[k][o]
          BY <4>3, <5>1, SetName DEF unlink, FilesInv, NamesInv
        <5> QED
          BY <1>1, <4>1, <5>2, <5>3, WriterKept
      <4> QED
        BY <2>8, <4>2, <4>3 DEF Fails
    <3> QED
      BY <3>1, <3>2
  <2>9. CASE Creates(c) \/ Prepares(c) \/ Publishes(c)
    <3>1. pc[c] \in {"create"} \union TmpSteps /\ pc[c] # "idle" /\ call' = call
      BY <2>9 DEF Creates, Prepares, Publishes, TmpSteps
    <3>2. call[c].op = "write" /\ call[c].msg \in Msgs /\ "tmpfile" \in Names /\ "tmp" \in Names
      BY <2>3, <3>1 DEF CallsInv, CallOK
    <3>3. ASSUME NEW k \in Msgs, k # call[c].msg
          PROVE  /\ \A o \in Names : dir'[k][o] = dir[k][o]
                 /\ dir[k]["tmpfile"] # None => content'[dir[k]["tmpfile"]] = content[dir[k]["tmpfile"]]
      <4>1. CASE Creates(c)
        <5>1. PICK i \in Free : /\ dir' = [dir EXCEPT ![call[c].msg]["tmpfile"] = i]
                                /\ content' = [content EXCEPT ![i] = "partial"]
          BY <4>1 DEF Creates
        <5>2. i \in Inodes /\ dir[k]["tmpfile"] # i
          BY <3>2 DEF Free
        <5>3. \A o \in Names : dir'[k][o] = dir[k][o]
          BY <3>2, <3>3, <5>1, <5>2, SetName DEF FilesInv, NamesInv
        <5> QED
          BY <3>2, <5>1, <5>2, <5>3 DEF FilesInv, NamesInv, FileTypes
      <4>2. CASE Prepares(c)
        <5>1. PICK v : content' = [content EXCEPT ![dir[call[c].msg]["tmpfile"]] = v]
          BY <4>2 DEF Prepares
        <5>2. dir' = dir
          BY <4>2 DEF Prepares
        <5> QED
          BY <3>2, <3>3, <5>1, <5>2 DEF FilesInv, NamesInv, FileTypes
      <4>3. CASE Publishes(c)
        <5>1. \A o \in Names : dir'[k][o] = dir[k][o]
          BY <3>2, <3>3, <4>3, MoveName DEF Publishes, FilesInv, NamesInv
        <5> QED
          BY <4>3, <5>1 DEF Publishes
      <4> QED
        BY <2>9, <4>1, <4>2, <4>3
    <3>4. CASE b # c
      <4>1. pc'[b] = pc[b] /\ call'[b] = call[b]
        BY <2>6, <2>9, <3>4 DEF Creates, Prepares, Publishes
      <4>2. call[b].op = "write" => call[b].msg # call[c].msg
        BY <3>2, <3>4 DEF CallsInv, Alone
      <4>3. call[b].op = "write" /\ pc[b] = "publish" => dir[call[b].msg]["tmpfile"] # None
        BY <1>1 DEF WriterOK, TmpSteps
      <4> QED
        BY <1>1, <3>3, <4>1, <4>2, <4>3, WriterKept
    <3>5. CASE b = c
      <4> DEFINE m == call[c].msg
      <4>1. CASE Creates(c)
        <5>1. PICK i \in Free : /\ dir' = [dir EXCEPT ![m]["tmpfile"] = i]
                                /\ content' = [content EXCEPT ![i] = "partial"]
          BY <4>1 DEF Creates
        <5>2. i \in Inodes /\ i # None
          BY NoneAssumption DEF Free
        <5>3. dir'[m]["tmpfile"] = i /\ \A o \in Names \ {"tmpfile"} : dir'[m][o] = dir[m][o]
          BY <3>2, <5>1, <5>2, SetName DEF FilesInv, NamesInv
        <5>4. \A o \in Names : dir[m][o] = None
          BY <1>1, <3>2, <3>5, <4>1 DEF WriterOK, Creates
        <5>5. pc'[b] = "fill" /\ call'[b] = call[b]
          BY <2>6, <3>5, <4>1 DEF Creates
        <5> QED
          BY <3>5, <5>2, <5>3, <5>4, <5>5 DEF WriterOK
      <4>2. CASE Prepares(c)
        <5>1. dir' = dir /\ pc'[b] \in {"sync", "publish"} /\ call'[b] = call[b]
          BY <2>6, <3>5, <4>2 DEF Prepares
        <5>2. dir[m]["tmpfile"] # None /\ \A o \in Names \ {"tmpfile"} : dir[m][o] = None
          BY <1>1, <3>2, <3>5, <4>2 DEF WriterOK, Prepares, TmpSteps
        <5>3. pc'[b] = "publish" => content'[dir[m]["tmpfile"]] = "synced"
          <6>1. dir[m]["tmpfile"] \in Inodes
            BY <3>2, <5>2 DEF FilesInv, NamesInv, FileTypes
          <6>2. pc'[b] = "publish" => content' = [content EXCEPT ![dir[m]["tmpfile"]] = "synced"]
            BY <2>6, <3>5, <4>2 DEF Prepares
          <6> QED
            BY <6>1, <6>2 DEF FilesInv, NamesInv, FileTypes
        <5> QED
          BY <3>5, <5>1, <5>2, <5>3 DEF WriterOK
      <4>3. CASE Publishes(c)
        <5>1. pc'[b] = "stat" /\ call'[b] = call[b]
          BY <2>6, <3>5, <4>3 DEF Publishes
        <5>2. \A o \in Names \ {"tmpfile"} : dir[m][o] = None
          BY <1>1, <3>2, <3>5, <4>3 DEF WriterOK, Publishes, TmpSteps
        <5>3. dir'[m]["tmpfile"] = None /\ \A o \in Names \ {"tmp", "tmpfile"} : dir'[m][o] = dir[m][o]
          BY <3>2, <4>3, MoveName DEF Publishes, FilesInv, NamesInv
        <5> QED
          BY <3>5, <5>1, <5>2, <5>3 DEF WriterOK, TmpSteps
      <4> QED
        BY <2>9, <4>1, <4>2, <4>3
    <3> QED
      BY <3>4, <3>5
  <2>10. CASE GoesOn(c) \/ OpensSrc(c)
    <3>1. dir' = dir /\ content' = content
      BY <2>10 DEF GoesOn, OpensSrc
    <3>2. CASE b # c
      BY <1>1, <2>6, <2>10, <3>1, <3>2, WriterKept DEF GoesOn, OpensSrc
    <3>3. CASE b = c
      <4>1. pc'[b] \in {"rename", "open", "openDst"} /\ call'[b] = call[b]
        BY <2>6, <2>10, <3>3 DEF GoesOn, OpensSrc
      <4>2. pc[b] \in {"stat", "rename", "open"}
        BY <2>10, <3>3 DEF GoesOn, OpensSrc
      <4> QED
        BY <1>1, <3>1, <4>1, <4>2 DEF WriterOK, TmpSteps
    <3> QED
      BY <3>2, <3>3
  <2>11. CASE Renames(c)
    <3>1. CASE b = c
      BY <2>4, <2>11, <3>1 DEF Renames, Ok
    <3>2. CASE b # c
      <4>1. pc'[b] = pc[b] /\ call'[b] = call[b] /\ content' = content
        BY <2>5, <2>11, <3>2 DEF Renames, Ok
      <4>2. call[b].op = "write" /\ pc[b] \in EarlySteps => call[b].msg # call[c].msg
        BY <2>7, <2>11, <3>2 DEF Renames
      <4>3. \A k \in Msgs, o \in Names : k # call[c].msg => dir'[k][o] = dir[k][o]
        BY <2>3, <2>11, MoveName DEF Renames, FilesInv, NamesInv
      <4> QED
        BY <1>1, <4>1, <4>2, <4>3, WriterKept DEF EarlySteps
    <3> QED
      BY <3>1, <3>2
  <2>12. CASE Opens(c)
    <3>1. PICK i : /\ i \in IF dir[call[c].msg][call[c].to] = None THEN Free
                            ELSE {dir[call[c].msg][call[c].to]}
                   /\ dir' = [dir EXCEPT ![call[c].msg][call[c].to] = i]
                   /\ content' = [content EXCEPT ![i] = "partial"]
      BY <2>12 DEF Opens
    <3>2. /\ call[c].msg \in Msgs /\ call[c].to \in Names /\ call[c].to # "tmpfile" /\ "tmpfile" \in Names
      BY <2>3, <2>12 DEF Opens
    <3>3. i \in Inodes /\ \A k \in Msgs, o \in Names : dir[k][o] = i => k = call[c].msg /\ o = call[c].to
      BY <3>1, <3>2 DEF FilesInv, NamesInv, FileTypes, Free
    <3>4. \A k \in Msgs, o \in Names : k # call[c].msg => dir'[k][o] = dir[k][o]
      BY <3>1, <3>2, <3>3, SetName DEF FilesInv, NamesInv
    <3>5. CASE b # c
      <4>1. pc'[b] = pc[b] /\ call'[b] = call[b]
        BY <2>6, <2>12, <3>5 DEF Opens
      <4>2. call[b].op = "write" /\ pc[b] \in EarlySteps => call[b].msg # call[c].msg
        BY <2>12, <3>5 DEF Opens, FilesInv, HolderOK
      <4>3. call[b].op = "write" /\ pc[b] = "publish" =>
               content'[dir[call[b].msg]["tmpfile"]] = content[dir[call[b].msg]["tmpfile"]]
        <5> SUFFICES ASSUME call[b].op = "write", pc[b] = "publish"
                     PROVE  content'[dir[call[b].msg]["tmpfile"]] = content[dir[call[b].msg]["tmpfile"]]
          OBVIOUS
        <5>1. dir[call[b].msg]["tmpfile"] # None /\ call[b].msg \in Msgs
          BY <1>1 DEF WriterOK, TmpSteps
        <5>2. dir[call[b].msg]["tmpfile"] \in Inodes /\ dir[call[b].msg]["tmpfile"] # i
          BY <3>2, <3>3, <5>1 DEF FilesInv, NamesInv, FileTypes
        <5> QED
          BY <3>1, <5>2 DEF FilesInv, NamesInv, FileTypes
      <4> QED
        BY <1>1, <3>4, <4>1, <4>2, <4>3, WriterKept DEF EarlySteps
    <3>6. CASE b = c
      <4>1. pc'[b] = "copy"
        BY <2>6, <2>12, <3>6 DEF Opens
      <4> QED
        BY <4>1 DEF WriterOK, TmpSteps
    <3> QED
      BY <3>5, <3>6
  <2>13. CASE Copies(c)
    <3>1. dir' = dir
      BY <2>13 DEF Copies
    <3>2. PICK v : content' = [content EXCEPT ![fd[c].dst] = v]
      BY <2>13 DEF Copies
    <3>3. CASE b # c
      <4>1. pc'[b] = pc[b] /\ call'[b] = call[b]
        BY <2>6, <2>13, <3>3 DEF Copies
      <4>2. call[b].op = "write" /\ pc[b] = "publish" =>
               content'[dir[call[b].msg]["tmpfile"]] = content[dir[call[b].msg]["tmpfile"]]
        <5> SUFFICES ASSUME call[b].op = "write", pc[b] = "publish"
                     PROVE  content'[dir[call[b].msg]["tmpfile"]] = content[dir[call[b].msg]["tmpfile"]]
          OBVIOUS
        <5>1. dir[call[b].msg]["tmpfile"] # None /\ call[b].msg \in Msgs
          BY <1>1 DEF WriterOK, TmpSteps
        <5>2. "tmpfile" \in Names
          BY DEF Names
        <5>3. dir[call[b].msg]["tmpfile"] \in Inodes /\ dir[call[b].msg]["tmpfile"] # fd[c].dst
          BY <5>1, <5>2 DEF FilesInv, NamesInv, FileTypes, CopiesElsewhere
        <5> QED
          BY <3>2, <5>3 DEF FilesInv, NamesInv, FileTypes
      <4> QED
        BY <1>1, <3>1, <4>1, <4>2, WriterKept
    <3>4. CASE b = c
      <4>1. pc'[b] \in {"syncCopy", "removeSrc"}
        BY <2>6, <2>13, <3>4 DEF Copies
      <4> QED
        BY <4>1 DEF WriterOK, TmpSteps
    <3> QED
      BY <3>3, <3>4
  <2>14. CASE Removes(c)
    <3>1. CASE b = c
      BY <2>4, <2>14, <3>1 DEF Removes, Ok
    <3>2. CASE b # c
      <4>1. pc'[b] = pc[b] /\ call'[b] = call[b] /\ content' = content
        BY <2>5, <2>14, <3>2 DEF Removes, Ok
      <4>2. call[b].op = "write" /\ pc[b] \in EarlySteps => call[b].msg # call[c].msg
        BY <2>7, <2>14, <3>2 DEF Removes
      <4>3. \A k \in Msgs, o \in Names : k # call[c].msg => dir'[k][o] = dir[k][o]
        BY <2>3, <2>14, SetName DEF Removes, unlink, FilesInv, NamesInv
      <4> QED
        BY <1>1, <4>1, <4>2, <4>3, WriterKept DEF EarlySteps
    <3> QED
      BY <3>1, <3>2
  <2> QED
    BY <1>3, <2>1, <2>2, <2>8, <2>9, <2>10, <2>11, <2>12, <2>13, <2>14 DEF CallerSteps
<1>4. ASSUME NEW m \in Msgs, NEW s \in Visible, Takes(m, s) PROVE WriterOK(b)'
  <2>1. call[b].op = "write" /\ pc[b] \in EarlySteps => call[b].msg # m
    BY <1>4, EarlyIsHidden DEF Takes
  <2>2. s \in Names
    BY DEF Names, Stages
  <2>3. \A k \in Msgs, o \in Names : k # m => dir'[k][o] = dir[k][o]
    BY <1>4, <2>2, SetName DEF Takes, unlink, FilesInv, NamesInv
  <2>4. pc' = pc /\ call' = call /\ content' = content
    BY <1>4 DEF Takes
  <2> QED
    BY <1>1, <2>1, <2>3, <2>4, WriterKept DEF EarlySteps
<1>5. CASE Crashes
  BY <1>5 DEF Crashes, WriterOK, NoCall
<1> QED
  BY <1>2, <1>3, <1>4, <1>5, StepCases

(* A caller that holds a file open has just opened it, or has gone one     *)
(* step further, or somebody else took the step.                           *)
LEMMA HolderCases ==
    ASSUME TypeOK, CallsInv, [Next]_vars, NEW b \in Callers, pc'[b] \in HoldSteps
    PROVE  \/ OpensSrc(b)
           \/ Opens(b)
           \/ Copies(b)
           \/ pc'[b] = pc[b] /\ call'[b] = call[b] /\ fd'[b] = fd[b]
<1>1. CallTypes
  BY DEF CallsInv
<1>2. Stays \/ (\E m \in Msgs, s \in Visible : Takes(m, s)) => UNCHANGED <<pc, call, fd>>
  BY DEF Stays, Takes
<1>3. ~Crashes
  BY DEF Crashes, HoldSteps, CopySteps
<1>4. ASSUME NEW c \in Callers, CallerSteps(c), c # b
      PROVE  pc'[b] = pc[b] /\ call'[b] = call[b] /\ fd'[b] = fd[b]
  <2>1. CASE Fails(c) \/ Renames(c) \/ Removes(c)
    BY <1>1, <1>4, <2>1, ReturnEffect DEF Fails, Renames, Removes, Ok, Error
  <2>2. CASE OpensSrc(c) \/ Opens(c)
    BY <1>1, <1>4, <2>2 DEF OpensSrc, Opens, CallTypes
  <2>3. CASE Creates(c) \/ Prepares(c) \/ Publishes(c) \/ GoesOn(c) \/ Copies(c)
    BY <1>1, <1>4, <2>3 DEF Creates, Prepares, Publishes, GoesOn, Copies, CallTypes
  <2>4. CASE \E m \in Msgs : BeginsWrite(c, m) \/ \E r \in Route : BeginsMove(c, m, r[1], r[2])
    <3>1. /\ pc' = [pc EXCEPT ![c] = "create"] \/ pc' = [pc EXCEPT ![c] = "stat"]
          /\ fd' = fd
      BY <2>4 DEF BeginsWrite, BeginsMove
    <3>2. PICK v : call' = [call EXCEPT ![c] = v]
      BY <2>4 DEF BeginsWrite, BeginsMove
    <3> QED
      BY <1>1, <1>4, <3>1, <3>2 DEF CallTypes
  <2> QED
    BY <1>4, <2>1, <2>2, <2>3, <2>4 DEF CallerSteps
<1>5. ASSUME CallerSteps(b) PROVE OpensSrc(b) \/ Opens(b) \/ Copies(b)
  <2>1. ~Fails(b) /\ ~Renames(b) /\ ~Removes(b)
    BY <1>1, ReturnEffect DEF Fails, Renames, Removes, Ok, Error, HoldSteps, CopySteps
  <2>2. ~Creates(b) /\ ~Prepares(b) /\ ~Publishes(b) /\ ~GoesOn(b)
    BY <1>1 DEF Creates, Prepares, Publishes, GoesOn, CallTypes, HoldSteps, CopySteps
  <2>3. ~\E m \in Msgs : BeginsWrite(b, m) \/ \E r \in Route : BeginsMove(b, m, r[1], r[2])
    BY <1>1 DEF BeginsWrite, BeginsMove, CallTypes, HoldSteps, CopySteps
  <2> QED
    BY <1>5, <2>1, <2>2, <2>3 DEF CallerSteps
<1> QED
  BY <1>2, <1>3, <1>4, <1>5, StepCases

(* A caller goes from a late step to an early one by way of idle only. *)
LEMMA HoldersStep ==
    ASSUME TypeOK, CallsInv, FilesInv, [Next]_vars, NEW c \in Callers
    PROVE  HolderOK(c)'
<1> SUFFICES ASSUME pc'[c] = "openDst"
             PROVE  /\ status'[call'[c].msg] # "new"
                    /\ \A b \in Callers \ {c} :
                          call'[b].op = "write" /\ call'[b].msg = call'[c].msg => pc'[b] \notin EarlySteps
  BY DEF HolderOK, EarlySteps, TmpSteps
<1>1. CallTypes
  BY DEF CallsInv
<1>2. ASSUME NEW a \in Callers, NEW result \in {"acked", "failed"}, Return(a, result)
      PROVE  /\ pc'[a] = "idle"
             /\ \A b \in Callers \ {a} : pc'[b] = pc[b] /\ call'[b] = call[b]
             /\ \A k \in Msgs : status'[k] = "new" => status[k] = "new"
  BY <1>1, <1>2, ReturnEffect
<1>3. CASE pc[c] = "openDst" /\ call'[c] = call[c]
  <2>1. /\ call[c].msg \in Msgs /\ status[call[c].msg] # "new"
        /\ \A b \in Callers \ {c} :
              call[b].op = "write" /\ call[b].msg = call[c].msg => pc[b] \notin EarlySteps
    BY <1>3, CallNames DEF FilesInv, HolderOK
  <2>2. CASE Stays \/ \E m \in Msgs, s \in Visible : Takes(m, s)
    BY <1>3, <2>1, <2>2 DEF Stays, Takes
  <2>3. ~Crashes
    BY DEF Crashes
  <2>4. ASSUME NEW a \in Callers, CallerSteps(a)
        PROVE  /\ status'[call'[c].msg] # "new"
               /\ \A b \in Callers \ {c} :
                     call'[b].op = "write" /\ call'[b].msg = call'[c].msg => pc'[b] \notin EarlySteps
    <3>1. ASSUME NEW m \in Msgs, BeginsWrite(a, m) \/ \E r \in Route : BeginsMove(a, m, r[1], r[2])
          PROVE  /\ status'[call'[c].msg] # "new"
                 /\ \A b \in Callers \ {c} :
                       call'[b].op = "write" /\ call'[b].msg = call'[c].msg => pc'[b] \notin EarlySteps
      <4>1. CASE BeginsWrite(a, m)
        <5>1. /\ m # call[c].msg /\ status'[call[c].msg] = status[call[c].msg]
              /\ call'[a].msg = m /\ \A b \in Callers \ {a} : pc'[b] = pc[b] /\ call'[b] = call[b]
          BY <1>1, <2>1, <4>1 DEF BeginsWrite, CallTypes
        <5> QED
          BY <1>3, <2>1, <5>1
      <4>2. ASSUME NEW r \in Route, BeginsMove(a, m, r[1], r[2])
            PROVE  /\ status' = status /\ call'[a].op = "move"
                   /\ \A b \in Callers \ {a} : pc'[b] = pc[b] /\ call'[b] = call[b]
        BY <1>1, <4>2 DEF BeginsMove, CallTypes
      <4> QED
        BY <1>3, <2>1, <3>1, <4>1, <4>2
    <3>2. CASE Fails(a) \/ Renames(a) \/ Removes(a)
      BY <1>2, <1>3, <2>1, <3>2 DEF Fails, Renames, Removes, Ok, Error, EarlySteps, TmpSteps
    <3>3. CASE Creates(a) \/ Prepares(a) \/ Publishes(a) \/ GoesOn(a) \/ OpensSrc(a)
      <4>1. /\ pc[a] \in EarlySteps /\ status' = status /\ call' = call
            /\ \A b \in Callers \ {a} : pc'[b] = pc[b]
        BY <1>1, <3>3 DEF Creates, Prepares, Publishes, GoesOn, OpensSrc, CallTypes, EarlySteps, TmpSteps
      <4> QED
        BY <2>1, <4>1
    <3>4. CASE Opens(a) \/ Copies(a)
      <4>1. /\ pc'[a] \notin EarlySteps /\ status' = status /\ call' = call
            /\ \A b \in Callers \ {a} : pc'[b] = pc[b]
        BY <1>1, <3>4 DEF Opens, Copies, CallTypes, EarlySteps, TmpSteps
      <4> QED
        BY <2>1, <4>1
    <3> QED
      BY <2>4, <3>1, <3>2, <3>3, <3>4 DEF CallerSteps
  <2> QED
    BY <2>2, <2>3, <2>4, StepCases
<1>4. CASE OpensSrc(c)
  <2>1. /\ UNCHANGED <<call, status>> /\ pc[c] # "idle" /\ dir[call[c].msg][call[c].from] # None
        /\ \A b \in Callers \ {c} : pc'[b] = pc[b]
    BY <1>1, <1>4 DEF OpensSrc, CallTypes
  <2>2. /\ call[c].msg \in Msgs /\ call[c].from \in Names /\ call[c].op \in {"write", "move"}
        /\ call[c].op = "move" => call[c].from \in Visible
    BY <2>1, CallNames
  <2>3. status[call[c].msg] # "new"
    BY <2>1, <2>2 DEF FilesInv, NamesInv, NewHasNoFile
  <2>4. ASSUME NEW b \in Callers \ {c}, call[b].op = "write", call[b].msg = call[c].msg,
               pc[b] \in EarlySteps
        PROVE  FALSE
    <3>1. call[c].op = "move"
      BY <2>2, <2>4 DEF CallsInv, Alone
    <3> QED
      BY <2>1, <2>2, <2>4, <3>1, EarlyIsHidden
  <2> QED
    BY <2>1, <2>3, <2>4
<1>5. (pc[c] = "openDst" /\ call'[c] = call[c]) \/ OpensSrc(c)
  <2>1. ~Opens(c) /\ ~Copies(c)
    BY <1>1 DEF Opens, Copies, CallTypes
  <2> QED
    BY <2>1, HolderCases DEF HoldSteps
<1> QED
  BY <1>3, <1>4, <1>5

-----------------------------------------------------------------------------
(* Ages, the cleanup worker and the counters. *)

RestTypes ==
    /\ age \in [Inodes -> 0..MaxAge]
    /\ victim \in {None} \union (Msgs \X Visible)
    /\ ioErrors \in Nat /\ crashes \in Nat

LEMMA TypeParts == TypeOK <=> CallTypes /\ FileTypes /\ RestTypes
  BY DEF TypeOK, CallTypes, FileTypes, RestTypes

LEMMA RestStep ==
    ASSUME RestTypes, [Next]_vars
    PROVE  RestTypes'
<1> USE SpoolBoundsAssumption DEF RestTypes
<1>1. ASSUME NEW c \in Callers, CallerStep(c) PROVE RestTypes'
  <2> DEFINE Leaves ==
                /\ victim' = victim /\ crashes' = crashes
                /\ ioErrors' = ioErrors \/ IOError
                /\ \/ age' = age
                   \/ \E i : age' = [age EXCEPT ![i] = 0] \/ age' = [age EXCEPT ![i] = @]
  <2>1. ASSUME NEW m \in Msgs, BeginWrite(c, m) \/ \E r \in Route : BeginMove(c, m, r[1], r[2])
        PROVE  Leaves
    BY <2>1 DEF BeginWrite, BeginMove
  <2>2. ASSUME Create(c) \/ Fill(c) \/ Sync(c) PROVE Leaves
    BY <2>2 DEF Create, Fill, Sync, TmpFileStep
  <2>3. ASSUME Publish(c) \/ Stat(c) \/ Rename(c) PROVE Leaves
    BY <2>3 DEF Publish, Stat, Rename
  <2>5. ASSUME OpenSrc(c) \/ OpenDst(c) PROVE Leaves
    BY <2>5 DEF OpenSrc, OpenDst
  <2>6. ASSUME Copy(c) \/ SyncCopy(c) \/ RemoveSrc(c) PROVE Leaves
    BY <2>6 DEF Copy, SyncCopy, RemoveSrc
  <2>7. Leaves
    BY <1>1, <2>1, <2>2, <2>3, <2>5, <2>6 DEF CallerStep
  <2>4. age' \in [Inodes -> 0..MaxAge]
    BY <2>7
  <2> QED
    BY <2>4, <2>7 DEF IOError
<1>2. ASSUME NEW m \in Msgs, NEW s \in Deletes, Delete(m, s) PROVE RestTypes'
  BY <1>2 DEF Delete
<1>3. ASSUME NEW m \in Msgs, NEW s \in Visible, CleanupInspect(m, s) PROVE RestTypes'
  BY <1>3 DEF CleanupInspect
<1>4. ASSUME CleanupRemove PROVE RestTypes'
  BY <1>4 DEF CleanupRemove, IOError
<1>5. ASSUME Tick PROVE RestTypes'
  BY <1>5 DEF Tick
<1>6. ASSUME Crash PROVE RestTypes'
  BY <1>6 DEF Crash
<1>7. ASSUME UNCHANGED vars PROVE RestTypes'
  BY <1>7 DEF vars
<1> QED
  BY <1>1, <1>2, <1>3, <1>4, <1>5, <1>6, <1>7 DEF Next

SpoolInv == TypeOK /\ CallsInv /\ FilesInv

LEMMA SpoolInvHolds == Spec => []SpoolInv
<1>1. Init => SpoolInv
  <2> SUFFICES ASSUME Init PROVE SpoolInv
    OBVIOUS
  <2>1. CallTypes
    BY DEF Init, CallTypes, NoFd
  <2>2. FileTypes /\ RestTypes
    BY SpoolBoundsAssumption DEF Init, FileTypes, RestTypes
  <2>3. \A c \in Callers : CallOK(c) /\ WriterOK(c) /\ HolderOK(c)
    BY DEF Init, CallOK, WriterOK, HolderOK, NoCall, NoFd, TmpSteps, HoldSteps, CopySteps
  <2>4. Alone /\ NewHasNoFile
    BY DEF Init, Alone, NewHasNoFile, NoCall
  <2>5. SettledIsSynced /\ CopiesElsewhere
    BY SettledNames DEF Init, SettledIsSynced, CopiesElsewhere, Names
  <2> QED
    BY <2>1, <2>2, <2>3, <2>4, <2>5, TypeParts DEF SpoolInv, CallsInv, FilesInv, NamesInv
<1>2. SpoolInv /\ [Next]_vars => SpoolInv'
  <2> SUFFICES ASSUME SpoolInv, [Next]_vars PROVE SpoolInv'
    OBVIOUS
  <2>1. CallsInv' /\ NamesInv' /\ \A b \in Callers : WriterOK(b)' /\ HolderOK(b)'
    BY CallsStep, NamesStep, WritersStep, HoldersStep DEF SpoolInv
  <2>2. RestTypes'
    BY RestStep, TypeParts DEF SpoolInv
  <2>3. TypeOK'
    BY <2>1, <2>2 DEF CallsInv, NamesInv, CallTypes, FileTypes, RestTypes, TypeOK
  <2> QED
    BY <2>1, <2>3 DEF SpoolInv, FilesInv
<1> QED
  BY <1>1, <1>2, PTL DEF Spec

(* Names, files and calls stay well formed, and no file gets two names     *)
(* (TypeOK), in every interleaving of Write, Move, Delete and Cleanup.     *)
THEOREM TypeCorrect == Spec => []TypeOK
<1>1. SpoolInv => TypeOK
  BY DEF SpoolInv
<1> QED
  BY <1>1, SpoolInvHolds, PTL

(* A file in a stage that messages reach by renaming alone is complete     *)
(* whenever a reader looks, after a crash too: Write syncs the file before *)
(* its first rename and copyFile never writes to it.                       *)
THEOREM VisibleStaysComplete == Spec => []VisibleIsComplete
<1>1. SpoolInv => VisibleIsComplete
  BY DEF SpoolInv, FilesInv, NamesInv, SettledIsSynced, Settled, VisibleIsComplete
<1> QED
  BY <1>1, SpoolInvHolds, PTL

-----------------------------------------------------------------------------
(* What Cleanup is about to remove. *)

(* A file comes to tmp from Write's own file, and to the stages that are   *)
(* reached by renaming from tmp or one of them.                            *)
LEMMA SettledFrom ==
    ASSUME SpoolInv, [Next]_vars, NEW m \in Msgs, NEW n \in Settled, dir'[m][n] # None
    PROVE  \/ \E o \in Settled : dir[m][o] = dir'[m][n]
           \/ \E c \in Callers : Publishes(c) /\ call[c].msg = m /\ n = "tmp"
<1> USE DEF SpoolInv, FilesInv, NamesInv
<1>1. n \in Names /\ n # "tmpfile" /\ FileTypes
  BY SettledNames
<1>2. CASE dir'[m][n] = dir[m][n]
  BY <1>2
<1>3. ASSUME NEW k \in Msgs, NEW o \in Names, unlink(k, o) PROVE dir'[m][n] = dir[m][n]
  BY <1>1, <1>3, SetName DEF unlink
<1>4. ASSUME NEW c \in Callers, pc[c] # "idle"
      PROVE  /\ call[c].msg \in Msgs /\ call[c].from \in Names /\ call[c].to \in Names
             /\ call[c].to # "tmp" /\ "tmp" \in Names /\ "tmpfile" \in Names
             /\ call[c].op = "move" \/ (call[c].op = "write" /\ call[c].from = "tmp")
             /\ call[c].op = "move" => <<call[c].from, call[c].to>> \in Route
  BY <1>4, CallNames DEF Names, Stages, CallsInv, CallOK
<1>5. ASSUME NEW c \in Callers, Fails(c) \/ Removes(c) PROVE dir'[m][n] = dir[m][n]
  BY <1>3, <1>4, <1>5 DEF Fails, Removes
<1>6. ASSUME NEW c \in Callers, Creates(c) PROVE dir'[m][n] = dir[m][n]
  <2>1. PICK i \in Inodes : dir' = [dir EXCEPT ![call[c].msg]["tmpfile"] = i]
    BY <1>6 DEF Creates, Free
  <2> QED
    BY <1>1, <1>4, <1>6, <2>1, SetName DEF Creates
<1>7. ASSUME NEW c \in Callers, Publishes(c)
      PROVE  dir'[m][n] = dir[m][n] \/ (call[c].msg = m /\ n = "tmp")
  <2>1. \A k \in Msgs, o \in Names :
           dir'[k][o] = IF k # call[c].msg THEN dir[k][o] ELSE IF o = "tmpfile" THEN None
                        ELSE IF o = "tmp" THEN dir[call[c].msg]["tmpfile"] ELSE dir[k][o]
    <3>1. /\ call[c].msg \in Msgs /\ "tmp" \in Names /\ "tmpfile" \in Names
          /\ rename(call[c].msg, "tmpfile", "tmp")
      BY <1>4, <1>7 DEF Publishes
    <3> HIDE DEF SpoolInv, FilesInv, NamesInv
    <3> QED
      BY ONLY <1>1, <3>1, MoveName
  <2> QED
    BY <1>1, <2>1
<1>8. ASSUME NEW c \in Callers, Renames(c) PROVE \E o \in Settled : dir[m][o] = dir'[m][n]
  <2>1. /\ call[c].msg \in Msgs /\ call[c].to # "tmp"
        /\ \A k \in Msgs, o \in Names :
              dir'[k][o] = IF k # call[c].msg THEN dir[k][o] ELSE IF o = call[c].from THEN None
                           ELSE IF o = call[c].to THEN dir[call[c].msg][call[c].from] ELSE dir[k][o]
    <3>1. /\ call[c].msg \in Msgs /\ call[c].from \in Names /\ call[c].to \in Names
          /\ call[c].to # "tmp" /\ rename(call[c].msg, call[c].from, call[c].to)
      BY <1>4, <1>8 DEF Renames
    <3> HIDE DEF SpoolInv, FilesInv, NamesInv
    <3> QED
      BY ONLY <1>1, <3>1, MoveName
  <2>2. CASE call[c].msg = m /\ n = call[c].to
    <3>1. n \in RenamedInto
      BY <2>1, <2>2 DEF Settled
    <3>2. call[c].from \in Settled
      <4>1. CASE call[c].op = "move"
        BY <1>4, <1>8, <2>2, <3>1, <4>1, RenamedIntoClosed DEF Renames, Settled
      <4>2. CASE call[c].from = "tmp"
        BY <4>2 DEF Settled
      <4> QED
        BY <1>4, <1>8, <4>1, <4>2 DEF Renames
    <3> QED
      BY <1>1, <2>1, <2>2, <3>2
  <2>3. CASE ~(call[c].msg = m /\ n = call[c].to)
    BY <1>1, <2>1, <2>3
  <2> QED
    BY <2>2, <2>3
<1>9. ASSUME NEW c \in Callers, Opens(c) PROVE dir'[m][n] = dir[m][n]
  <2>1. pc[c] # "idle" /\ Device[call[c].from] # Device[call[c].to]
    BY <1>9 DEF Opens, CallsInv, CallOK, HoldSteps
  <2>2. call[c].to \notin Settled
    BY <1>4, <2>1, RenamedIntoClosed DEF Settled, CallsInv, CallOK
  <2>3. PICK i \in Inodes : dir' = [dir EXCEPT ![call[c].msg][call[c].to] = i]
    <3>1. dir[call[c].msg][call[c].to] \in Inodes \union {None}
      <4>1. call[c].msg \in Msgs /\ call[c].to \in Names
        BY <1>4, <2>1
      <4> QED
        BY <4>1 DEF FileTypes
    <3> DEFINE old == dir[call[c].msg][call[c].to]
    <3>2. PICK i \in IF old = None THEN Free ELSE {old} :
             dir' = [dir EXCEPT ![call[c].msg][call[c].to] = i]
      BY <1>9 DEF Opens
    <3>3. i \in Inodes
      BY <3>1, <3>2 DEF Free
    <3> QED
      BY <3>2, <3>3
  <2> QED
    BY <1>1, <1>4, <2>1, <2>2, <2>3, SetName
<1>10. ASSUME NEW c \in Callers, CallerSteps(c)
       PROVE  dir' = dir \/ Fails(c) \/ Removes(c) \/ Creates(c) \/ Publishes(c) \/ Renames(c)
              \/ Opens(c)
  BY <1>10 DEF CallerSteps, BeginsWrite, BeginsMove, Prepares, GoesOn, OpensSrc, Copies
<1>11. ASSUME NEW k \in Msgs, NEW s \in Visible, Takes(k, s) PROVE dir'[m][n] = dir[m][n]
  BY <1>3, <1>11 DEF Takes, Names, Stages
<1>12. Stays \/ Crashes => dir' = dir
  BY DEF Stays, Crashes
<1> QED
  BY <1>2, <1>5, <1>6, <1>7, <1>8, <1>9, <1>10, <1>11, <1>12, StepCases

(* Such a file is not written to again, so it only gets older. *)
LEMMA SettledAges ==
    ASSUME SpoolInv, [Next]_vars, NEW m \in Msgs, NEW n \in Settled, dir[m][n] # None
    PROVE  age'[dir[m][n]] >= age[dir[m][n]]
<1> DEFINE i == dir[m][n]
<1> USE DEF SpoolInv, FilesInv, NamesInv
<1>1. n \in Names /\ n # "tmpfile" /\ i \in Inodes
  BY SettledNames DEF FileTypes
<1>2. age \in [Inodes -> 0..MaxAge] /\ MaxAge \in Nat
  BY SpoolBoundsAssumption DEF TypeOK
<1>3. CASE age' = age
  BY <1>1, <1>2, <1>3
<1>4. ASSUME NEW j, j # i, NEW v, age' = [age EXCEPT ![j] = v] PROVE age'[i] >= age[i]
  BY <1>1, <1>2, <1>4
<1>5. i \notin Free
  BY <1>1 DEF Free
<1>6. ASSUME NEW c \in Callers, Create(c) PROVE age'[i] >= age[i]
  BY <1>3, <1>4, <1>5, <1>6 DEF Create
<1>7. ASSUME NEW c \in Callers, Fill(c) \/ Sync(c) PROVE age'[i] >= age[i]
  <2>1. pc[c] # "idle"
    BY <1>7 DEF Fill, Sync, TmpFileStep
  <2>2. dir[call[c].msg]["tmpfile"] # i
    BY <1>1, <2>1, CallNames DEF FileTypes, Names
  <2> QED
    BY <1>3, <1>4, <1>7, <2>2 DEF Fill, Sync, TmpFileStep
<1>8. ASSUME NEW c \in Callers, OpenDst(c) PROVE age'[i] >= age[i]
  <2>1. pc[c] # "idle" /\ Device[call[c].from] # Device[call[c].to]
    BY <1>8 DEF OpenDst, CallsInv, CallOK, HoldSteps
  <2>2. call[c].to \notin Settled /\ call[c].to \in Names /\ call[c].msg \in Msgs
    BY <2>1, CallNames, RenamedIntoClosed DEF Settled, CallsInv, CallOK, Names, Stages
  <2>3. dir[call[c].msg][call[c].to] # i
    BY <1>1, <2>2 DEF FileTypes
  <2> QED
    BY <1>3, <1>4, <1>5, <1>8, <2>3 DEF OpenDst
<1>9. ASSUME NEW c \in Callers, Copy(c) PROVE age'[i] >= age[i]
  <2>1. fd[c].dst # i
    BY DEF CopiesElsewhere
  <2> QED
    BY <1>3, <1>4, <1>9, <2>1 DEF Copy
<1>10. ASSUME NEW c \in Callers, CallerStep(c)
       PROVE  age' = age \/ Create(c) \/ Fill(c) \/ Sync(c) \/ OpenDst(c) \/ Copy(c)
  BY <1>10 DEF CallerStep, BeginWrite, BeginMove, Publish, Stat, Rename, OpenSrc, SyncCopy, RemoveSrc
<1>11. CASE Tick
  BY <1>1, <1>2, <1>11 DEF Tick
<1>12. (\E k \in Msgs, s \in Deletes : Delete(k, s)) \/ (\E k \in Msgs, s \in Visible : CleanupInspect(k, s))
       \/ CleanupRemove \/ Crash \/ UNCHANGED vars => age' = age
  BY DEF Delete, CleanupInspect, CleanupRemove, Crash, vars
<1> QED
  BY <1>3, <1>6, <1>7, <1>8, <1>9, <1>10, <1>11, <1>12 DEF Next

(* A message has one file there at most. *)
OneSettled ==
    \A m \in Msgs, n, o \in Settled : dir[m][n] # None /\ dir[m][o] # None => n = o

LEMMA OneSettledStep == ASSUME SpoolInv, SpoolInv', [Next]_vars, OneSettled PROVE OneSettled'
<1> SUFFICES ASSUME NEW m \in Msgs, NEW n \in Settled, NEW o \in Settled,
                    dir'[m][n] # None, dir'[m][o] # None
             PROVE  n = o
  BY DEF OneSettled, Settled
<1>1. CASE \E c \in Callers : Publishes(c) /\ call[c].msg = m
  <2>1. PICK c \in Callers : Publishes(c) /\ call[c].msg = m
    BY <1>1
  <2>2. \A x \in Names \ {"tmpfile"} : dir[m][x] = None
    BY <2>1 DEF Publishes, SpoolInv, CallsInv, CallOK, FilesInv, WriterOK, TmpSteps
  <2>3. \A x \in Names : x \notin {"tmp", "tmpfile"} => dir'[m][x] = dir[m][x]
    BY <2>1, MoveName DEF Publishes, Names, Stages, SpoolInv, FilesInv, NamesInv
  <2> QED
    BY <2>2, <2>3, SettledNames
<1>2. CASE ~\E c \in Callers : Publishes(c) /\ call[c].msg = m
  <2>1. PICK p \in Settled : dir[m][p] = dir'[m][n]
    BY <1>2, SettledFrom
  <2>2. PICK q \in Settled : dir[m][q] = dir'[m][o]
    BY <1>2, SettledFrom
  <2>3. p = q
    BY <2>1, <2>2 DEF OneSettled
  <2> QED
    BY <2>1, <2>2, <2>3, SettledNames DEF SpoolInv, FilesInv, NamesInv, FileTypes
<1> QED
  BY <1>1, <1>2

(* While Cleanup is about to remove a message, all files of it that may    *)
(* come to have that name are too old, and none of it is being written.    *)
VictimIsOld ==
    \A m \in Msgs, s \in RenamedInto : victim = <<m, s>> =>
        /\ status[m] # "new"
        /\ \A c \in Callers : pc[c] \in {"create"} \union TmpSteps => call[c].msg # m
        /\ \A n \in Settled : dir[m][n] # None => age[dir[m][n]] > Retention[s]

LEMMA VictimCases ==
    ASSUME [Next]_vars, victim' # None
    PROVE  victim' = victim \/ \E m \in Msgs, s \in Visible : CleanupInspect(m, s)
<1>1. ASSUME NEW c \in Callers, CallerStep(c) PROVE victim' = victim
  BY <1>1 DEF CallerStep, BeginWrite, BeginMove, Create, Fill, Sync, TmpFileStep, Publish, Stat, Rename,
              OpenSrc, OpenDst, Copy, SyncCopy, RemoveSrc
<1> QED
  BY <1>1 DEF Next, Delete, CleanupRemove, Tick, Crash, vars

LEMMA VictimStep ==
    ASSUME SpoolInv, SpoolInv', [Next]_vars, OneSettled, VictimIsOld
    PROVE  VictimIsOld'
<1> SUFFICES ASSUME NEW m \in Msgs, NEW s \in RenamedInto, victim' = <<m, s>>
             PROVE  /\ status'[m] # "new"
                    /\ \A c \in Callers : pc'[c] \in {"create"} \union TmpSteps => call'[c].msg # m
                    /\ \A n \in Settled : dir'[m][n] # None => age'[dir'[m][n]] > Retention[s]
  BY DEF VictimIsOld, RenamedInto, Settled
<1>1. s \in Visible /\ s \in Settled /\ s \in Names /\ s # "tmpfile"
  BY RenamedIntoClosed, SettledNames DEF Settled
<1>2. CASE \E k \in Msgs, t \in Visible : CleanupInspect(k, t)
  <2>1. CleanupInspect(m, s)
    BY <1>2 DEF CleanupInspect
  <2>2. dir[m][s] # None /\ age[dir[m][s]] > Retention[s] /\ UNCHANGED <<dir, age, pc, call, status>>
    BY <2>1 DEF CleanupInspect
  <2>3. status[m] # "new"
    BY <1>1, <2>2 DEF SpoolInv, FilesInv, NamesInv, NewHasNoFile
  <2>4. \A c \in Callers : pc[c] \in {"create"} \union TmpSteps => call[c].msg # m
    <3> SUFFICES ASSUME NEW c \in Callers, pc[c] \in {"create"} \union TmpSteps, call[c].msg = m
                 PROVE  FALSE
      OBVIOUS
    <3>1. call[c].op = "write" /\ WriterOK(c)
      BY DEF SpoolInv, CallsInv, CallOK, FilesInv
    <3> QED
      BY <1>1, <2>2, <3>1 DEF WriterOK
  <2> QED
    BY <1>1, <2>2, <2>3, <2>4 DEF OneSettled
<1>3. CASE victim' = victim
  <2>1. /\ status[m] # "new"
        /\ \A c \in Callers : pc[c] \in {"create"} \union TmpSteps => call[c].msg # m
        /\ \A n \in Settled : dir[m][n] # None => age[dir[m][n]] > Retention[s]
    BY <1>3 DEF VictimIsOld
  <2>2. CallTypes
    BY DEF SpoolInv, CallsInv
  <2>3. status'[m] # "new"
    <3>1. ASSUME NEW c \in Callers, NEW result \in {"acked", "failed"}, Return(c, result)
          PROVE  status'[m] # "new"
      BY <2>1, <2>2, <3>1, ReturnEffect
    <3>2. ASSUME NEW c \in Callers, NEW k \in Msgs, BeginsWrite(c, k) PROVE status'[m] # "new"
      BY <2>1, <2>2, <3>2 DEF BeginsWrite, CallTypes
    <3>3. ASSUME NEW c \in Callers, CallerSteps(c)
          PROVE  \/ status' = status \/ Return(c, "failed") \/ Return(c, "acked")
                 \/ \E k \in Msgs : BeginsWrite(c, k)
      BY <3>3 DEF CallerSteps, BeginsMove, Fails, Creates, Prepares, Publishes, GoesOn, Renames,
                  OpensSrc, Opens, Copies, Removes, Ok, Error
    <3> QED
      BY <2>1, <3>1, <3>2, <3>3, StepCases DEF SpoolInv, Stays, Takes, Crashes
  <2>4. ASSUME NEW c \in Callers, pc'[c] \in {"create"} \union TmpSteps PROVE call'[c].msg # m
    <3>1. ASSUME NEW b \in Callers, CallerSteps(b), b # c
          PROVE  pc'[c] = pc[c] /\ call'[c] = call[c]
      BY <2>2, <3>1 DEF CallerSteps, BeginsWrite, BeginsMove, Fails, Creates, Prepares, Publishes, GoesOn,
                        Renames, OpensSrc, Opens, Copies, Removes, Ok, Error, Return, CallTypes
    <3>2. ASSUME NEW k \in Msgs, BeginsWrite(c, k) PROVE call'[c].msg # m
      BY <2>1, <2>2, <3>2 DEF BeginsWrite, CallTypes
    <3>3. ASSUME CallerSteps(c)
          PROVE  \/ \E k \in Msgs : BeginsWrite(c, k)
                 \/ pc[c] \in {"create"} \union TmpSteps /\ call'[c] = call[c]
      BY <2>2, <2>4, <3>3
         DEF CallerSteps, BeginsMove, Fails, Creates, Prepares, Publishes, GoesOn,
             Renames, OpensSrc, Opens, Copies, Removes, Ok, Error, Return, CallTypes, TmpSteps
    <3>4. CASE Stays \/ \E k \in Msgs, t \in Visible : Takes(k, t)
      BY <2>1, <2>4, <3>4 DEF Stays, Takes
    <3>5. ~Crashes
      BY <2>4 DEF Crashes, TmpSteps
    <3> QED
      BY <2>1, <2>4, <3>1, <3>2, <3>3, <3>4, <3>5, StepCases DEF SpoolInv
  <2>5. ASSUME NEW n \in Settled, dir'[m][n] # None PROVE age'[dir'[m][n]] > Retention[s]
    <3>1. ~\E c \in Callers : Publishes(c) /\ call[c].msg = m
      BY <2>1 DEF Publishes, TmpSteps
    <3>2. PICK o \in Settled : dir[m][o] = dir'[m][n]
      BY <2>5, <3>1, SettledFrom
    <3>3. age[dir[m][o]] > Retention[s] /\ age'[dir[m][o]] >= age[dir[m][o]]
      BY <2>1, <2>5, <3>2, SettledAges
    <3>4. dir[m][o] \in Inodes
      BY <2>5, <3>2, SettledNames DEF SpoolInv, FilesInv, NamesInv, FileTypes
    <3>5. age[dir[m][o]] \in Int /\ age'[dir[m][o]] \in Int /\ Retention[s] \in Int
      BY <1>1, <3>4, RetentionAssumption, SpoolBoundsAssumption DEF SpoolInv, TypeOK, Stages
    <3> QED
      BY <3>2, <3>3, <3>5
  <2> QED
    BY <2>3, <2>4, <2>5
<1>4. victim' # None
  BY <1>1, NoneAssumption
<1> QED
  BY <1>2, <1>3, <1>4, VictimCases

(* Cleanup removes no file that is within the retention of its stage       *)
(* (CleanupTakesOld), although it looks at the age first and removes by    *)
(* name later, in every stage that is reached by renaming.                 *)
THEOREM CleanupTakesOldOnly == Spec => []CleanupTakesOld
<1> DEFINE Inv == OneSettled /\ VictimIsOld
<1>1. Init => Inv
  <2>1. Init => OneSettled
    BY SettledNames DEF Init, OneSettled
  <2>2. \A m \in Msgs, s \in RenamedInto : None # <<m, s>>
    BY NoneAssumption, RenamedIntoClosed
  <2> QED
    BY <2>1, <2>2 DEF Init, VictimIsOld
<1>2. SpoolInv /\ SpoolInv' /\ Inv /\ [Next]_vars => Inv'
  BY OneSettledStep, VictimStep
<1>3. Inv => CleanupTakesOld
  BY DEF VictimIsOld, CleanupTakesOld, Settled
<1> QED
  BY <1>1, <1>2, <1>3, SpoolInvHolds, PTL DEF Spec

-----------------------------------------------------------------------------
(* What a step does to the visible names of one message. *)

KeepsNames(m, S) == \A s \in S : dir'[m][s] = dir[m][s]

RenamesOf(c, m) ==
    /\ Renames(c) /\ call[c].msg = m
    /\ KeepsNames(m, Visible \ {call[c].from, call[c].to})
    /\ call[c].from \in Visible => dir'[m][call[c].from] = None
    /\ call[c].from # call[c].to => dir'[m][call[c].to] = dir[m][call[c].from]

OpensOf(c, m) ==
    /\ Opens(c) /\ call[c].msg = m
    /\ KeepsNames(m, Visible \ {call[c].to})
    /\ dir'[m][call[c].to] # None

RemovesOf(c, m) ==
    /\ Removes(c) /\ call[c].msg = m
    /\ KeepsNames(m, Visible \ {call[c].from})
    /\ call[c].from \in Visible => dir'[m][call[c].from] = None

TakesOf(m) ==
    \E s \in Visible : Takes(m, s) /\ KeepsNames(m, Visible \ {s}) /\ dir'[m][s] = None

LEMMA VisibleIsNamed == \A s \in Visible : s \in Names /\ s # "tmp" /\ s # "tmpfile"
  BY StagesAssumption DEF Names, Stages

LEMMA NameCases ==
    ASSUME SpoolInv, [Next]_vars, NEW m \in Msgs
    PROVE  \/ KeepsNames(m, Visible)
           \/ \E c \in Callers : RenamesOf(c, m) \/ OpensOf(c, m) \/ RemovesOf(c, m)
           \/ TakesOf(m)
<1>1. FileTypes
  BY DEF SpoolInv, FilesInv, NamesInv
<1>2. CASE dir' = dir
  BY <1>2 DEF KeepsNames
<1>3. ASSUME NEW c \in Callers, pc[c] # "idle"
      PROVE  /\ call[c].msg \in Msgs /\ call[c].from \in Names /\ call[c].to \in Visible
             /\ call[c].to \in Names /\ "tmpfile" \in Names /\ "tmp" \in Names
  BY <1>3, CallNames DEF SpoolInv, Names, Stages
<1>4. ASSUME NEW c \in Callers, pc[c] # "idle",
             NEW v \in Inodes \union {None}, dir' = [dir EXCEPT ![call[c].msg]["tmpfile"] = v]
      PROVE  KeepsNames(m, Visible)
  BY <1>1, <1>3, <1>4, SetName, VisibleIsNamed DEF KeepsNames
<1>5. ASSUME NEW c \in Callers, Creates(c) PROVE KeepsNames(m, Visible)
  <2>1. PICK i \in Inodes : dir' = [dir EXCEPT ![call[c].msg]["tmpfile"] = i]
    BY <1>5 DEF Creates, Free
  <2> QED
    BY <1>4, <1>5, <2>1 DEF Creates
<1>6. ASSUME NEW c \in Callers, Fails(c) PROVE KeepsNames(m, Visible)
  BY <1>2, <1>4, <1>6 DEF Fails, unlink, KeepsNames
<1>7. ASSUME NEW c \in Callers, Publishes(c) PROVE KeepsNames(m, Visible)
  <2>1. \A k \in Msgs, o \in Names \ {"tmp", "tmpfile"} : dir'[k][o] = dir[k][o]
    BY <1>1, <1>3, <1>7, MoveName DEF Publishes
  <2> QED
    BY <2>1, VisibleIsNamed DEF KeepsNames
<1>8. ASSUME NEW c \in Callers, Renames(c) PROVE KeepsNames(m, Visible) \/ RenamesOf(c, m)
  <2>1. \A k \in Msgs, o \in Names :
           dir'[k][o] = IF k # call[c].msg THEN dir[k][o] ELSE IF o = call[c].from THEN None
                        ELSE IF o = call[c].to THEN dir[call[c].msg][call[c].from] ELSE dir[k][o]
    BY <1>1, <1>3, <1>8, MoveName DEF Renames
  <2>2. call[c].to \in Names
    BY <1>3, <1>8 DEF Renames
  <2> QED
    BY <1>8, <2>1, <2>2, VisibleIsNamed DEF RenamesOf, KeepsNames
<1>9. ASSUME NEW c \in Callers, Opens(c) PROVE KeepsNames(m, Visible) \/ OpensOf(c, m)
  <2>1. call[c].msg \in Msgs /\ call[c].to \in Names
    BY <1>3, <1>9 DEF Opens
  <2>2. PICK i \in Inodes : dir' = [dir EXCEPT ![call[c].msg][call[c].to] = i]
    <3>1. PICK i \in IF dir[call[c].msg][call[c].to] = None THEN Free ELSE {dir[call[c].msg][call[c].to]} :
             dir' = [dir EXCEPT ![call[c].msg][call[c].to] = i]
      BY <1>9 DEF Opens
    <3>2. i \in Inodes
      BY <1>1, <2>1, <3>1 DEF Free, FileTypes
    <3> QED
      BY <3>1, <3>2
  <2>3. \A k \in Msgs, o \in Names :
           dir'[k][o] = IF k = call[c].msg /\ o = call[c].to THEN i ELSE dir[k][o]
    BY <1>1, <2>1, <2>2, SetName
  <2> QED
    BY <1>9, <2>1, <2>3, VisibleIsNamed, NoneAssumption DEF OpensOf, KeepsNames
<1>10. ASSUME NEW c \in Callers, Removes(c) PROVE KeepsNames(m, Visible) \/ RemovesOf(c, m)
  <2>1. call[c].msg \in Msgs /\ call[c].from \in Names
    BY <1>3, <1>10 DEF Removes
  <2>3. dir' = [dir EXCEPT ![call[c].msg][call[c].from] = None] /\ None \in Inodes \union {None}
    BY <1>10 DEF Removes, unlink
  <2>2. \A k \in Msgs, o \in Names :
           dir'[k][o] = IF k = call[c].msg /\ o = call[c].from THEN None ELSE dir[k][o]
    BY <1>1, <2>1, <2>3, SetName
  <2> QED
    BY <1>10, <2>1, <2>2, VisibleIsNamed DEF RemovesOf, KeepsNames
<1>11. ASSUME NEW k \in Msgs, NEW s \in Visible, Takes(k, s)
       PROVE  KeepsNames(m, Visible) \/ TakesOf(m)
  <2>1. \A l \in Msgs, o \in Names : dir'[l][o] = IF l = k /\ o = s THEN None ELSE dir[l][o]
    BY <1>1, <1>11, SetName, VisibleIsNamed DEF Takes, unlink
  <2> QED
    BY <1>11, <2>1, VisibleIsNamed DEF TakesOf, KeepsNames
<1> QED
  <2>1. Stays \/ Crashes => dir' = dir
    BY DEF Stays, Crashes
  <2>2. ASSUME NEW c \in Callers, CallerSteps(c)
        PROVE  \/ dir' = dir \/ Creates(c) \/ Fails(c) \/ Publishes(c) \/ Renames(c) \/ Opens(c)
               \/ Removes(c)
    BY <2>2 DEF CallerSteps, BeginsWrite, BeginsMove, Prepares, GoesOn, OpensSrc, Copies
  <2> QED
    BY <1>2, <1>5, <1>6, <1>7, <1>8, <1>9, <1>10, <1>11, <2>1, <2>2, StepCases DEF SpoolInv

(* What it does to the file of a visible name. *)
LEMMA ContentCases ==
    ASSUME SpoolInv, [Next]_vars, NEW m \in Msgs, NEW s \in Visible, dir[m][s] # None
    PROVE  \/ content'[dir[m][s]] = content[dir[m][s]]
           \/ content[dir[m][s]] = "full" /\ Crashes
           \/ \E c \in Callers :
                 \/ Opens(c) /\ call[c].msg = m /\ call[c].to = s
                 \/ Copies(c) /\ fd[c].dst = dir[m][s]
<1>1. FileTypes /\ dir[m][s] \in Inodes /\ s \in Names /\ s # "tmp" /\ s # "tmpfile"
  BY VisibleIsNamed DEF SpoolInv, FilesInv, NamesInv, FileTypes
<1>2. ASSUME NEW i, NEW v, content' = [content EXCEPT ![i] = v], dir[m][s] # i
      PROVE  content'[dir[m][s]] = content[dir[m][s]]
  BY <1>1, <1>2 DEF FileTypes
<1>3. ASSUME NEW c \in Callers, Creates(c) PROVE content'[dir[m][s]] = content[dir[m][s]]
  BY <1>1, <1>2, <1>3 DEF Creates, Free
<1>4. ASSUME NEW c \in Callers, Prepares(c) PROVE content'[dir[m][s]] = content[dir[m][s]]
  <2>1. call[c].msg \in Msgs /\ "tmpfile" \in Names
    BY <1>4, CallNames DEF Prepares, SpoolInv, Names
  <2>2. dir[m][s] # dir[call[c].msg]["tmpfile"]
    BY <1>1, <2>1 DEF FileTypes
  <2> QED
    BY <1>2, <1>4, <2>2 DEF Prepares
<1>5. ASSUME NEW c \in Callers, Opens(c)
      PROVE  content'[dir[m][s]] = content[dir[m][s]] \/ (call[c].msg = m /\ call[c].to = s)
  <2>1. call[c].msg \in Msgs /\ call[c].to \in Names
    BY <1>5, CallNames DEF Opens, SpoolInv, Names, Stages
  <2>2. PICK i : /\ content' = [content EXCEPT ![i] = "partial"]
                 /\ i \in Free \/ (i = dir[call[c].msg][call[c].to] /\ i # None)
    BY <1>5 DEF Opens
  <2>3. dir[m][s] # i \/ (call[c].msg = m /\ call[c].to = s)
    BY <1>1, <2>1, <2>2 DEF FileTypes, Free
  <2> QED
    BY <1>2, <2>2, <2>3
<1>6. ASSUME NEW c \in Callers, Copies(c)
      PROVE  content'[dir[m][s]] = content[dir[m][s]] \/ fd[c].dst = dir[m][s]
  BY <1>2, <1>6 DEF Copies
<1>7. ASSUME Crashes
      PROVE  content'[dir[m][s]] = content[dir[m][s]] \/ content[dir[m][s]] = "full"
  BY <1>1, <1>7 DEF Crashes
<1> QED
  <2>1. Stays \/ (\E k \in Msgs, n \in Visible : Takes(k, n)) => content' = content
    BY DEF Stays, Takes
  <2>2. ASSUME NEW c \in Callers, CallerSteps(c)
        PROVE  content' = content \/ Creates(c) \/ Prepares(c) \/ Opens(c) \/ Copies(c)
    BY <2>2 DEF CallerSteps, BeginsWrite, BeginsMove, Fails, Publishes, GoesOn, OpensSrc,
              Renames, Removes
  <2> QED
    BY <1>3, <1>4, <1>5, <1>6, <1>7, <2>1, <2>2, StepCases DEF SpoolInv

-----------------------------------------------------------------------------
(* One stage *)

LEMMA BelowClosed ==
    ASSUME NEW s \in Visible
    PROVE  /\ s \in Below(s)
           /\ \A r \in Route : r[1] \in Below(s) => r[2] \in Below(s)
  BY RouteAssumption DEF Below

(* Two stages that a message may be in at once. *)
Split(s, t) ==
    \E r \in Route :
        /\ Device[r[1]] # Device[r[2]]
        /\ {s, t} \subseteq Below(r[1]) /\ {s, t} \intersect Below(r[2]) # {}

LEMMA SplitFollows ==
    ASSUME NEW s \in Visible, NEW t \in Visible, NEW u \in Visible, <<s, u>> \in Route, Split(s, t)
    PROVE  Split(u, t) /\ Split(t, u)
<1>1. PICK r \in Route : /\ Device[r[1]] # Device[r[2]]
                         /\ s \in Below(r[1]) /\ t \in Below(r[1])
                         /\ s \in Below(r[2]) \/ t \in Below(r[2])
  BY DEF Split
<1>2. r[1] \in Visible /\ r[2] \in Visible
  BY RouteAssumption
<1>3. u \in Below(r[1]) /\ (s \in Below(r[2]) => u \in Below(r[2]))
  BY <1>1, <1>2, BelowClosed
<1> QED
  BY <1>1, <1>3 DEF Split

LEMMA SplitByCopy ==
    ASSUME NEW s \in Visible, NEW t \in Visible, <<s, t>> \in Route, Device[s] # Device[t]
    PROVE  Split(s, t) /\ Split(t, s)
<1>1. t \in Below(s) /\ s \in Below(s) /\ t \in Below(t)
  BY BelowClosed
<1> QED
  BY <1>1 DEF Split

(* Whoever has opened a message to copy it knows the other stages it is in. *)
HolderStages(c) ==
    pc[c] = "openDst" => \A x \in Visible : dir[call[c].msg][x] # None =>
        x = call[c].to \/ x = call[c].from \/ Split(call[c].from, x)

(* While it has, nobody else gives the message a new name. *)
LEMMA HolderIsAlone ==
    ASSUME SpoolInv, NEW c \in Callers, pc[c] = "openDst", NEW b \in Callers \ {c},
           call[b].msg = call[c].msg, pc[b] # "idle"
    PROVE  pc[b] # "openDst" /\ ~Renames(b)
<1>1. call[b].op \in {"write", "move"} /\ call[c].op \in {"write", "move"} /\ call[b].op # call[c].op
  BY CallNames DEF SpoolInv, CallsInv, Alone
<1>2. call[b].op = "write" => pc[b] \notin EarlySteps
  BY DEF SpoolInv, FilesInv, HolderOK
<1>3. CASE call[b].op = "write"
  BY <1>2, <1>3 DEF EarlySteps, Renames
<1>4. CASE call[b].op = "move"
  <2>1. call[c].op = "write" /\ pc[c] \in EarlySteps
    BY <1>1, <1>4 DEF EarlySteps
  <2>2. pc[b] # "openDst"
    BY <2>1 DEF SpoolInv, FilesInv, HolderOK
  <2>3. call[b].from \in Visible
    BY <1>4, CallNames DEF SpoolInv
  <2>4. dir[call[b].msg][call[b].from] = None
    BY <2>1, <2>3, EarlyIsHidden DEF SpoolInv
  <2> QED
    BY <2>2, <2>4 DEF Renames
<1> QED
  BY <1>1, <1>3, <1>4

LEMMA HolderStagesStep ==
    ASSUME SpoolInv, OneStage, [Next]_vars, NEW c \in Callers, HolderStages(c)
    PROVE  HolderStages(c)'
<1> SUFFICES ASSUME pc'[c] = "openDst", NEW x \in Visible, dir'[call'[c].msg][x] # None
             PROVE  x = call'[c].to \/ x = call'[c].from \/ Split(call'[c].from, x)
  BY DEF HolderStages, Split, Visible
<1>1. CASE OpensSrc(c)
  <2>1. dir' = dir /\ call' = call /\ dir[call[c].msg][call[c].from] # None /\ pc[c] = "open"
    BY <1>1 DEF OpensSrc
  <2>2. CASE call[c].op = "write"
    BY <2>1, <2>2, EarlyIsHidden DEF EarlySteps, SpoolInv
  <2>3. CASE call[c].op = "move"
    <3>1. call[c].msg \in Msgs /\ call[c].from \in Visible
      BY <2>1, <2>3, CallNames DEF SpoolInv
    <3>2. x # call[c].from => Split(call[c].from, x)
      BY <2>1, <3>1 DEF OneStage, Split
    <3> QED
      BY <2>1, <3>2
  <2> QED
    BY <2>1, <2>2, <2>3, CallNames DEF SpoolInv
<1>2. CASE pc'[c] = pc[c] /\ call'[c] = call[c] /\ ~OpensSrc(c)
  <2> DEFINE m == call[c].msg
  <2>1. m \in Msgs /\ pc[c] = "openDst"
    BY <1>2, CallNames DEF SpoolInv
  <2>2. ASSUME NEW b \in Callers, RenamesOf(b, m) PROVE FALSE
    <3>1. Renames(b) /\ call[b].msg = m /\ pc[b] = "rename"
      BY <2>2 DEF RenamesOf, Renames
    <3> QED
      BY <2>1, <3>1, HolderIsAlone
  <2>3. ASSUME NEW b \in Callers, OpensOf(b, m) PROVE FALSE
    <3>1. call[b].msg = m /\ pc[b] = "openDst" /\ pc' = [pc EXCEPT ![b] = "copy"]
      BY <2>3 DEF OpensOf, Opens
    <3>2. b # c
      BY <1>2, <2>1, <3>1 DEF SpoolInv, CallsInv, CallTypes
    <3> QED
      BY <2>1, <3>1, <3>2, HolderIsAlone
  <2>4. dir[m][x] # None
    BY <1>2, <2>1, <2>2, <2>3, NameCases DEF KeepsNames, RemovesOf, TakesOf
  <2> QED
    BY <1>2, <2>1, <2>4 DEF HolderStages
<1> QED
  <2>1. ~Opens(c) /\ ~Copies(c)
    BY DEF Opens, Copies, SpoolInv, CallsInv, CallTypes
  <2> QED
    BY <1>1, <1>2, <2>1, HolderCases DEF HoldSteps, SpoolInv

LEMMA OneStageStep ==
    ASSUME SpoolInv, OneStage, \A c \in Callers : HolderStages(c), [Next]_vars
    PROVE  OneStage'
<1> SUFFICES ASSUME NEW m \in Msgs, NEW s \in Visible, NEW t \in Visible,
                    s # t, dir'[m][s] # None, dir'[m][t] # None
             PROVE  Split(s, t)
  BY DEF OneStage, Split
<1>1. ASSUME NEW x \in Visible, NEW y \in Visible, x # y, dir[m][x] # None, dir[m][y] # None
      PROVE  Split(x, y)
  BY <1>1 DEF OneStage, Split
<1>2. ASSUME NEW c \in Callers, pc[c] \in {"rename", "openDst"}, call[c].msg = m,
             call[c].from \in Visible \/ \E x \in Visible : dir[m][x] # None
      PROVE  call[c].from \in Visible /\ call[c].to \in Visible /\ <<call[c].from, call[c].to>> \in Route
  <2>1. CASE call[c].op = "write"
    <3>1. pc[c] \in EarlySteps /\ call[c].from = "tmp"
      BY <1>2, <2>1 DEF EarlySteps, SpoolInv, CallsInv, CallOK
    <3> QED
      BY <1>2, <2>1, <3>1, EarlyIsHidden, VisibleIsNamed DEF SpoolInv
  <2>2. CASE call[c].op = "move"
    BY <1>2, <2>2, CallNames DEF SpoolInv, CallsInv, CallOK
  <2> QED
    BY <1>2, <2>1, <2>2, CallNames DEF SpoolInv
<1>3. CASE KeepsNames(m, Visible)
  BY <1>1, <1>3 DEF KeepsNames
<1>4. ASSUME NEW c \in Callers, RenamesOf(c, m) PROVE Split(s, t)
  <2>1. pc[c] = "rename" /\ call[c].msg = m /\ dir[m][call[c].from] # None
    BY <1>4 DEF RenamesOf, Renames
  <2>2. PICK x \in Visible : x # call[c].to /\ x # call[c].from /\ dir[m][x] # None
    BY <1>4 DEF RenamesOf, KeepsNames
  <2>3. call[c].from \in Visible /\ call[c].to \in Visible /\ <<call[c].from, call[c].to>> \in Route
    BY <1>2, <2>1, <2>2
  <2>4. s # call[c].from /\ t # call[c].from
    BY <1>4, <2>3 DEF RenamesOf
  <2>5. CASE s # call[c].to /\ t # call[c].to
    BY <1>1, <1>4, <2>4, <2>5 DEF RenamesOf, KeepsNames
  <2>6. CASE s = call[c].to
    <3>1. Split(call[c].from, t)
      BY <1>1, <1>4, <2>1, <2>3, <2>4, <2>6 DEF RenamesOf, KeepsNames
    <3> QED
      BY <2>3, <2>6, <3>1, SplitFollows
  <2>7. CASE t = call[c].to
    <3>1. Split(call[c].from, s)
      BY <1>1, <1>4, <2>1, <2>3, <2>4, <2>7 DEF RenamesOf, KeepsNames
    <3> QED
      BY <2>3, <2>7, <3>1, SplitFollows
  <2> QED
    BY <2>5, <2>6, <2>7
<1>5. ASSUME NEW c \in Callers, OpensOf(c, m) PROVE Split(s, t)
  <2>1. pc[c] = "openDst" /\ call[c].msg = m
    BY <1>5 DEF OpensOf, Opens
  <2>2. PICK z \in Visible : z # call[c].to /\ dir[m][z] # None
    BY <1>5 DEF OpensOf, KeepsNames
  <2>3. call[c].from \in Visible /\ call[c].to \in Visible /\ <<call[c].from, call[c].to>> \in Route
    BY <1>2, <2>1, <2>2
  <2>4. Device[call[c].from] # Device[call[c].to]
    BY <2>1 DEF SpoolInv, CallsInv, CallOK, HoldSteps
  <2>5. CASE s # call[c].to /\ t # call[c].to
    BY <1>1, <1>5, <2>5 DEF OpensOf, KeepsNames
  <2>6. ASSUME NEW x \in Visible, x # call[c].to, dir[m][x] # None
        PROVE  Split(call[c].to, x) /\ Split(x, call[c].to)
    <3>1. CASE x = call[c].from
      BY <2>3, <2>4, <3>1, SplitByCopy
    <3>2. CASE x # call[c].from
      <4>1. Split(call[c].from, x)
        BY <2>1, <2>6, <3>2 DEF HolderStages
      <4> QED
        BY <2>3, <4>1, SplitFollows
    <3> QED
      BY <3>1, <3>2
  <2> QED
    BY <1>5, <2>5, <2>6 DEF OpensOf, KeepsNames
<1>6. ASSUME NEW c \in Callers, RemovesOf(c, m) PROVE Split(s, t)
  BY <1>1, <1>6 DEF RemovesOf, KeepsNames
<1>7. CASE TakesOf(m)
  BY <1>1, <1>7 DEF TakesOf, KeepsNames
<1> QED
  BY <1>3, <1>4, <1>5, <1>6, <1>7, NameCases

(* A message is in two stages at once only behind a copy between devices   *)
(* whose source is still there (OneStage), whatever is mounted where; with *)
(* all stages on one device it never is.                                   *)
THEOREM StaysInOneStage == Spec => []OneStage
<1> DEFINE Stage == OneStage /\ \A c \in Callers : HolderStages(c)
<1>1. Init => Stage
  BY VisibleIsNamed DEF Init, OneStage, HolderStages
<1>2. SpoolInv /\ Stage /\ [Next]_vars => Stage'
  BY OneStageStep, HolderStagesStep
<1> QED
  BY <1>1, <1>2, SpoolInvHolds, PTL DEF Spec

-----------------------------------------------------------------------------
(* Messages that were not acknowledged *)

(* What a step does to the outcome of a Write. *)
LEMMA StatusCases ==
    ASSUME SpoolInv, [Next]_vars, NEW m \in Msgs
    PROVE  \/ status'[m] = status[m]
           \/ status[m] = "new" /\ status'[m] = "writing"
           \/ \E c \in Callers :
                 /\ call[c].op = "write" /\ call[c].msg = m /\ status[m] = "writing"
                 /\ \/ Fails(c) /\ status'[m] = "failed"
                    \/ (Renames(c) \/ Removes(c)) /\ status'[m] = "acked"
<1>1. CallTypes /\ \A c \in Callers : CallOK(c)
  BY DEF SpoolInv, CallsInv
<1>2. ASSUME NEW c \in Callers, NEW k \in Msgs, BeginsWrite(c, k)
      PROVE  status'[m] = status[m] \/ (status[m] = "new" /\ status'[m] = "writing")
  BY <1>1, <1>2 DEF BeginsWrite, CallTypes
<1>3. ASSUME NEW c \in Callers, NEW result, Return(c, result)
      PROVE  \/ status'[m] = status[m]
             \/ call[c].op = "write" /\ call[c].msg = m /\ status[m] = "writing" /\ status'[m] = result
  <2>1. status'[m] = IF call[c].op = "write" /\ m = call[c].msg THEN result ELSE status[m]
    BY <1>1, <1>3, ReturnEffect
  <2>2. call[c].op = "write" => status[call[c].msg] = "writing"
    BY <1>1 DEF CallOK
  <2> QED
    BY <2>1, <2>2
<1>4. ASSUME NEW c \in Callers, CallerSteps(c)
      PROVE  \/ status' = status \/ Fails(c) \/ Renames(c) \/ Removes(c)
             \/ \E k \in Msgs : BeginsWrite(c, k)
  BY <1>4 DEF CallerSteps, BeginsMove, Creates, Prepares, Publishes, GoesOn, OpensSrc, Opens,
              Copies
<1>5. Stays \/ Crashes \/ (\E k \in Msgs, s \in Visible : Takes(k, s)) => status' = status
  BY DEF Stays, Crashes, Takes
<1> QED
  BY <1>2, <1>3, <1>4, <1>5, StepCases DEF SpoolInv, Fails, Renames, Removes, Ok, Error

(* A message is in no stage, and nobody has it open, before its Write      *)
(* has returned nil.                                                       *)
Hidden ==
    /\ \A m \in Msgs : status[m] # "acked" => \A s \in Visible : dir[m][s] = None
    /\ \A c \in Callers : pc[c] = "openDst" => status[call[c].msg] = "acked"

(* Where Write ends with a rename, only movers copy. *)
LEMMA OnlyMoversCopy ==
    ASSUME WriteIsRename, SpoolInv, NEW c \in Callers, pc[c] \in {"open"} \union HoldSteps
    PROVE  /\ call[c].op = "move" /\ call[c].msg \in Msgs
           /\ call[c].from \in Visible /\ call[c].to \in Visible /\ call[c].from # call[c].to
           /\ <<call[c].from, call[c].to>> \in Route
<1>1. pc[c] # "idle" /\ Device[call[c].from] # Device[call[c].to]
  BY DEF HoldSteps, CopySteps, SpoolInv, CallsInv, CallOK
<1>2. call[c].op # "write"
  BY <1>1 DEF WriteIsRename, SpoolInv, CallsInv, CallOK
<1> QED
  BY <1>1, <1>2, CallNames DEF SpoolInv, CallsInv, CallOK

LEMMA HiddenStep ==
    ASSUME WriteIsRename, SpoolInv, Hidden, [Next]_vars
    PROVE  Hidden'
<1>1. ASSUME NEW m \in Msgs, status[m] = "acked" PROVE status'[m] = "acked"
  BY <1>1, StatusCases
<1>2. ASSUME NEW m \in Msgs, status'[m] # "acked", NEW s \in Visible PROVE dir'[m][s] = None
  <2>1. status[m] # "acked"
    BY <1>1, <1>2
  <2>2. \A x \in Visible : dir[m][x] = None
    BY <2>1 DEF Hidden
  <2>3. ASSUME NEW c \in Callers, RenamesOf(c, m) PROVE FALSE
    <3>1. /\ pc[c] = "rename" /\ call[c].msg = m /\ dir[m][call[c].from] # None
          /\ Return(c, "acked") /\ pc[c] # "idle"
      BY <2>3 DEF RenamesOf, Renames, Ok
    <3>2. call[c].op = "write"
      BY <2>2, <3>1, CallNames DEF SpoolInv
    <3> QED
      BY <1>2, <3>1, <3>2, ReturnEffect DEF SpoolInv, CallsInv
  <2>4. ASSUME NEW c \in Callers, OpensOf(c, m) PROVE FALSE
    BY <2>1, <2>4 DEF OpensOf, Opens, Hidden
  <2>5. ASSUME NEW c \in Callers, RemovesOf(c, m) PROVE dir'[m][s] = None
    BY <2>2, <2>5 DEF RemovesOf, KeepsNames
  <2>6. CASE TakesOf(m)
    BY <2>2, <2>6 DEF TakesOf, KeepsNames
  <2>7. CASE KeepsNames(m, Visible)
    BY <2>2, <2>7 DEF KeepsNames
  <2> QED
    BY <2>3, <2>4, <2>5, <2>6, <2>7, NameCases
<1>3. ASSUME NEW c \in Callers, pc'[c] = "openDst" PROVE status'[call'[c].msg] = "acked"
  <2>1. CASE OpensSrc(c)
    <3>1. /\ pc[c] \in {"open"} \union HoldSteps /\ call' = call
          /\ dir[call[c].msg][call[c].from] # None
      BY <2>1 DEF OpensSrc
    <3>2. call[c].msg \in Msgs /\ call[c].from \in Visible
      BY <3>1, OnlyMoversCopy
    <3> QED
      BY <1>1, <3>1, <3>2 DEF Hidden
  <2>2. CASE pc'[c] = pc[c] /\ call'[c] = call[c]
    <3>1. call[c].msg \in Msgs /\ status[call[c].msg] = "acked"
      BY <1>3, <2>2, CallNames DEF SpoolInv, Hidden
    <3> QED
      BY <1>1, <2>2, <3>1
  <2>3. ~Opens(c) /\ ~Copies(c)
    BY <1>3 DEF Opens, Copies, SpoolInv, CallsInv, CallTypes
  <2> QED
    BY <1>3, <2>1, <2>2, <2>3, HolderCases DEF HoldSteps, SpoolInv
<1> QED
  BY <1>2, <1>3 DEF Hidden, Visible

LEMMA HiddenHolds == ASSUME WriteIsRename PROVE Spec => []Hidden
<1>1. Init => Hidden
  BY VisibleIsNamed DEF Init, Hidden
<1>2. SpoolInv /\ Hidden /\ [Next]_vars => Hidden'
  BY HiddenStep
<1> QED
  BY <1>1, <1>2, SpoolInvHolds, PTL DEF Spec

(* Where Write ends with a rename, a message whose Write failed, or was    *)
(* cut short, is in no stage: the pipeline does not see what the client    *)
(* was told to send again (FailedIsInvisible).                             *)
THEOREM FailedStaysInvisible == ASSUME WriteIsRename PROVE Spec => []FailedIsInvisible
<1>1. Hidden => FailedIsInvisible
  BY DEF Hidden, FailedIsInvisible
<1> QED
  BY <1>1, HiddenHolds, PTL

-----------------------------------------------------------------------------
(* Messages that were acknowledged *)

(* The file a mover writes to has no name but the one it was opened with. *)
CopyIsTarget ==
    \A c \in Callers, m \in Msgs, n \in Names :
        pc[c] \in CopySteps /\ dir[m][n] = fd[c].dst => m = call[c].msg /\ n = call[c].to

(* A mover has its source and its copy under their names, and past the     *)
(* sync the copy is as good as the source.                                 *)
MoverOK(c) ==
    pc[c] \in HoldSteps /\ call[c].msg \notin removed =>
        /\ dir[call[c].msg][call[c].from] = fd[c].src
        /\ pc[c] \in CopySteps => dir[call[c].msg][call[c].to] = fd[c].dst
        /\ pc[c] = "syncCopy" /\ content[fd[c].src] = "synced" => content[fd[c].dst] # "partial"
        /\ pc[c] = "removeSrc" /\ content[fd[c].src] = "synced" => content[fd[c].dst] = "synced"

(* The message is whole in stage s, and in none of the stages A that lead  *)
(* there.                                                                  *)
KeptIn(m, s, A) ==
    /\ dir[m][s] # None /\ content[dir[m][s]] = "synced"
    /\ \A r \in Route : r[2] \in A \union {s} => r[1] \in A
    /\ \A a \in A : dir[m][a] = None

Kept ==
    \A m \in Msgs : status[m] = "acked" /\ m \notin removed =>
        \E s \in Visible, A \in SUBSET Visible : KeptIn(m, s, A)

KeptInv == CopyIsTarget /\ (\A c \in Callers : MoverOK(c)) /\ Kept

(* A mover of an unremoved message and the stages it works on. *)
LEMMA MoverFiles ==
    ASSUME WriteIsRename, SpoolInv, NEW c \in Callers, MoverOK(c), pc[c] \in HoldSteps,
           call[c].msg \notin removed
    PROVE  /\ call[c].msg \in Msgs /\ call[c].from \in Visible /\ call[c].to \in Visible
           /\ <<call[c].from, call[c].to>> \in Route
           /\ fd[c].src \in Inodes /\ dir[call[c].msg][call[c].from] = fd[c].src
           /\ pc[c] \in CopySteps =>
                 /\ fd[c].dst \in Inodes /\ fd[c].src # fd[c].dst
                 /\ dir[call[c].msg][call[c].to] = fd[c].dst
<1>1. /\ call[c].msg \in Msgs /\ call[c].from \in Visible /\ call[c].to \in Visible
      /\ <<call[c].from, call[c].to>> \in Route /\ call[c].from # call[c].to
  BY OnlyMoversCopy
<1>2. fd[c].src \in Inodes /\ (pc[c] \in CopySteps => fd[c].dst \in Inodes)
  BY DEF SpoolInv, CallsInv, CallOK
<1>3. /\ dir[call[c].msg][call[c].from] = fd[c].src
      /\ pc[c] \in CopySteps => dir[call[c].msg][call[c].to] = fd[c].dst
  BY DEF MoverOK
<1>4. call[c].from \in Names /\ call[c].to \in Names
  BY <1>1, VisibleIsNamed
<1>5. pc[c] \in CopySteps => fd[c].src # fd[c].dst
  BY <1>1, <1>2, <1>3, <1>4, NoneAssumption DEF SpoolInv, FilesInv, NamesInv, FileTypes
<1> QED
  BY <1>1, <1>2, <1>3, <1>5

(* Where a name comes from. *)
LEMMA NewNames ==
    ASSUME SpoolInv, [Next]_vars, NEW m \in Msgs, NEW n \in Names, dir'[m][n] # None
    PROVE  \/ dir'[m][n] = dir[m][n]
           \/ dir'[m][n] \in Free
           \/ dir'[m][n] = dir[m]["tmpfile"]
           \/ \E c \in Callers : Renames(c) /\ call[c].msg = m /\ dir'[m][n] = dir[m][call[c].from]
<1>1. FileTypes
  BY DEF SpoolInv, FilesInv, NamesInv
<1>2. ASSUME NEW c \in Callers, pc[c] # "idle"
      PROVE  /\ call[c].msg \in Msgs /\ call[c].from \in Names /\ call[c].to \in Names
             /\ "tmpfile" \in Names /\ "tmp" \in Names
  BY <1>2, CallNames DEF SpoolInv, Names, Stages
<1>3. ASSUME NEW k \in Msgs, NEW o \in Names, NEW v \in Inodes \union {None},
             dir' = [dir EXCEPT ![k][o] = v]
      PROVE  dir'[m][n] = dir[m][n] \/ (dir'[m][n] = v /\ m = k /\ n = o)
  BY <1>1, <1>3, SetName
<1>4. ASSUME NEW c \in Callers, Creates(c) PROVE dir'[m][n] = dir[m][n] \/ dir'[m][n] \in Free
  <2>1. PICK i \in Free : dir' = [dir EXCEPT ![call[c].msg]["tmpfile"] = i]
    BY <1>4 DEF Creates
  <2>2. i \in Inodes \union {None}
    BY DEF Free
  <2> QED
    BY <1>2, <1>3, <1>4, <2>1, <2>2 DEF Creates
<1>5. ASSUME NEW c \in Callers, Fails(c) PROVE dir'[m][n] = dir[m][n]
  BY <1>2, <1>3, <1>5 DEF Fails, unlink
<1>6. ASSUME NEW c \in Callers, Publishes(c)
      PROVE  dir'[m][n] = dir[m][n] \/ dir'[m][n] = dir[m]["tmpfile"]
  BY <1>1, <1>2, <1>6, MoveName DEF Publishes
<1>7. ASSUME NEW c \in Callers, Renames(c)
      PROVE  \/ dir'[m][n] = dir[m][n]
             \/ call[c].msg = m /\ dir'[m][n] = dir[m][call[c].from]
  BY <1>1, <1>2, <1>7, MoveName DEF Renames
<1>8. ASSUME NEW c \in Callers, Opens(c) PROVE dir'[m][n] = dir[m][n] \/ dir'[m][n] \in Free
  <2>1. PICK i \in IF dir[call[c].msg][call[c].to] = None THEN Free ELSE {dir[call[c].msg][call[c].to]} :
             dir' = [dir EXCEPT ![call[c].msg][call[c].to] = i]
    BY <1>8 DEF Opens
  <2>2. call[c].msg \in Msgs /\ call[c].to \in Names
    BY <1>2, <1>8 DEF Opens
  <2>3. i \in Inodes \union {None} /\ (i \in Free \/ i = dir[call[c].msg][call[c].to])
    BY <1>1, <2>1, <2>2 DEF Free, FileTypes
  <2> QED
    BY <1>3, <2>1, <2>2, <2>3
<1>9. ASSUME NEW c \in Callers, Removes(c) PROVE dir'[m][n] = dir[m][n]
  BY <1>2, <1>3, <1>9 DEF Removes, unlink
<1>10. ASSUME NEW k \in Msgs, NEW s \in Visible, Takes(k, s) PROVE dir'[m][n] = dir[m][n]
  BY <1>3, <1>10, VisibleIsNamed DEF Takes, unlink
<1> QED
  <2>1. Stays \/ Crashes => dir' = dir
    BY DEF Stays, Crashes
  <2>2. ASSUME NEW c \in Callers, CallerSteps(c)
        PROVE  \/ dir' = dir \/ Creates(c) \/ Fails(c) \/ Publishes(c) \/ Renames(c) \/ Opens(c)
               \/ Removes(c)
    BY <2>2 DEF CallerSteps, BeginsWrite, BeginsMove, Prepares, GoesOn, OpensSrc, Copies
  <2> QED
    BY <1>4, <1>5, <1>6, <1>7, <1>8, <1>9, <1>10, <2>1, <2>2, StepCases DEF SpoolInv

LEMMA CopyIsTargetStep ==
    ASSUME WriteIsRename, SpoolInv, CopyIsTarget, [Next]_vars
    PROVE  CopyIsTarget'
<1> SUFFICES ASSUME NEW b \in Callers, NEW m \in Msgs, NEW n \in Names,
                    pc'[b] \in CopySteps, dir'[m][n] = fd'[b].dst
             PROVE  m = call'[b].msg /\ n = call'[b].to
  BY DEF CopyIsTarget, CopySteps, Names, Stages, Visible
<1>1. FileTypes /\ CallTypes
  BY DEF SpoolInv, FilesInv, NamesInv, CallsInv
<1>2. CASE Opens(b)
  <2>1. call[b].msg \in Msgs /\ call[b].to \in Names
    BY <1>2, CallNames DEF Opens, SpoolInv, Names, Stages
  <2>2. PICK i \in IF dir[call[b].msg][call[b].to] = None THEN Free ELSE {dir[call[b].msg][call[b].to]} :
             /\ dir' = [dir EXCEPT ![call[b].msg][call[b].to] = i]
             /\ fd' = [fd EXCEPT ![b].dst = i]
    BY <1>2 DEF Opens
  <2>3. i \in Inodes /\ \A k \in Msgs, o \in Names : dir[k][o] = i => k = call[b].msg /\ o = call[b].to
    BY <1>1, <2>1, <2>2 DEF Free, FileTypes
  <2>4. fd'[b].dst = i /\ call' = call
    BY <1>1, <1>2, <2>2 DEF CallTypes, Opens
  <2>5. dir'[m][n] = IF m = call[b].msg /\ n = call[b].to THEN i ELSE dir[m][n]
    BY <1>1, <2>1, <2>2, <2>3, SetName
  <2> QED
    BY <2>3, <2>4, <2>5
<1>3. CASE Copies(b)
  BY <1>3 DEF Copies, CopyIsTarget, CopySteps
<1>4. CASE pc'[b] = pc[b] /\ call'[b] = call[b] /\ fd'[b] = fd[b]
  <2>1. /\ pc[b] \in CopySteps /\ fd[b].dst = dir'[m][n] /\ fd[b].dst \in Inodes
        /\ dir'[m][n] # None /\ dir'[m][n] \notin Free
    BY <1>4, NoneAssumption DEF SpoolInv, CallsInv, CallOK, Free
  <2>2. call[b].op = "move"
    BY <2>1, OnlyMoversCopy DEF HoldSteps
  <2>3. ASSUME NEW o \in {"tmp", "tmpfile"} PROVE dir[m][o] # fd[b].dst
    BY <2>1 DEF SpoolInv, FilesInv, NamesInv, CopiesElsewhere, Settled
  <2>4. ASSUME NEW c \in Callers, Renames(c), call[c].msg = m, dir'[m][n] = dir[m][call[c].from]
        PROVE  FALSE
    <3>1. pc[c] = "rename" /\ c # b /\ pc[c] # "idle"
      BY <2>1, <2>4 DEF Renames, CopySteps
    <3>2. call[c].from \in Names /\ call[c].op \in {"write", "move"}
      BY <3>1, CallNames DEF SpoolInv
    <3>3. call[c].op # "write"
      BY <2>1, <2>3, <2>4 DEF SpoolInv, CallsInv, CallOK
    <3>4. call[b].msg = m
      BY <2>1, <2>4, <3>2 DEF CopyIsTarget
    <3> QED
      BY <2>2, <2>4, <3>1, <3>2, <3>3, <3>4 DEF SpoolInv, CallsInv, Alone
  <2>5. dir'[m][n] = dir[m][n]
    BY <2>1, <2>3, <2>4, NewNames
  <2> QED
    BY <1>4, <2>1, <2>5 DEF CopyIsTarget
<1> QED
  <2>1. ~OpensSrc(b)
    BY <1>1 DEF OpensSrc, CallTypes, CopySteps
  <2> QED
    BY <1>2, <1>3, <1>4, <2>1, HolderCases DEF HoldSteps, SpoolInv

LEMMA RemovedGrows ==
    ASSUME SpoolInv, [Next]_vars
    PROVE  removed \subseteq removed'
<1>1. ASSUME NEW c \in Callers, CallerSteps(c) PROVE removed' = removed
  BY <1>1 DEF CallerSteps, BeginsWrite, BeginsMove, Fails, Creates, Prepares, Publishes, GoesOn,
              Renames, OpensSrc, Opens, Copies, Removes
<1> QED
  BY <1>1, StepCases DEF SpoolInv, Stays, Crashes, Takes

(* Two callers that copy work on different messages. *)
LEMMA OneMover ==
    ASSUME WriteIsRename, SpoolInv, NEW b \in Callers, pc[b] \in HoldSteps,
           NEW c \in Callers, pc[c] \in {"open"} \union HoldSteps, call[c].msg = call[b].msg
    PROVE  c = b
<1>1. call[b].op = "move" /\ call[c].op = "move"
  BY OnlyMoversCopy
<1> QED
  BY <1>1 DEF SpoolInv, CallsInv, Alone

LEMMA MoverStep ==
    ASSUME WriteIsRename, SpoolInv, CopyIsTarget, [Next]_vars, NEW b \in Callers, MoverOK(b)
    PROVE  MoverOK(b)'
<1> SUFFICES ASSUME pc'[b] \in HoldSteps, call'[b].msg \notin removed' PROVE MoverOK(b)'
  BY DEF MoverOK, HoldSteps, CopySteps
<1>1. FileTypes /\ CallTypes
  BY DEF SpoolInv, FilesInv, NamesInv, CallsInv
<1>5. CASE OpensSrc(b)
  <2>1. /\ pc'[b] = "openDst" /\ call' = call /\ dir' = dir
        /\ fd'[b].src = dir[call[b].msg][call[b].from]
    BY <1>1, <1>5 DEF OpensSrc, CallTypes
  <2> QED
    BY <2>1 DEF MoverOK, CopySteps
<1>2. CASE Opens(b)
  <2>1. pc[b] \in HoldSteps /\ pc[b] = "openDst" /\ call[b].msg \notin removed
    BY <1>2 DEF Opens, HoldSteps
  <2>2. /\ call[b].msg \in Msgs /\ call[b].to \in Names /\ call[b].from \in Names
        /\ call[b].from # call[b].to
    BY <2>1, OnlyMoversCopy, VisibleIsNamed
  <2>3. PICK i \in IF dir[call[b].msg][call[b].to] = None THEN Free ELSE {dir[call[b].msg][call[b].to]} :
             /\ dir' = [dir EXCEPT ![call[b].msg][call[b].to] = i]
             /\ fd' = [fd EXCEPT ![b].dst = i]
    BY <1>2 DEF Opens
  <2>4. i \in Inodes
    BY <1>1, <2>2, <2>3 DEF Free, FileTypes
  <2>5. fd'[b].dst = i /\ fd'[b].src = fd[b].src /\ call' = call /\ pc'[b] = "copy"
    BY <1>1, <1>2, <2>3 DEF CallTypes, Opens
  <2>6. /\ dir'[call[b].msg][call[b].to] = i
        /\ dir'[call[b].msg][call[b].from] = dir[call[b].msg][call[b].from]
    BY <1>1, <2>2, <2>3, <2>4, SetName
  <2>7. dir[call[b].msg][call[b].from] = fd[b].src
    BY <2>1 DEF MoverOK
  <2> QED
    BY <2>5, <2>6, <2>7 DEF MoverOK
<1>3. CASE Copies(b)
  <2>1. pc[b] \in CopySteps /\ pc[b] \in HoldSteps /\ UNCHANGED <<dir, call, fd, removed>>
    BY <1>3 DEF Copies, HoldSteps, CopySteps
  <2>2. /\ fd[b].src \in Inodes /\ fd[b].dst \in Inodes /\ fd[b].src # fd[b].dst
        /\ dir[call[b].msg][call[b].from] = fd[b].src
        /\ dir[call[b].msg][call[b].to] = fd[b].dst
    BY <2>1, MoverFiles
  <2>3. CASE pc[b] = "copy"
    <3>1. /\ content' = [content EXCEPT ![fd[b].dst] =
                IF content[fd[b].src] = "partial" THEN "partial" ELSE "full"]
          /\ pc'[b] = "syncCopy"
      BY <1>1, <1>3, <2>3 DEF Copies, CallTypes
    <3>2. content'[fd[b].src] = content[fd[b].src]
      BY <1>1, <2>2, <3>1 DEF FileTypes
    <3>3. content[fd[b].src] = "synced" => content'[fd[b].dst] # "partial"
      BY <1>1, <2>2, <3>1 DEF FileTypes
    <3> QED
      BY <2>1, <2>2, <3>1, <3>2, <3>3 DEF MoverOK
  <2>4. CASE pc[b] = "syncCopy"
    <3>1. /\ content' = [content EXCEPT ![fd[b].dst] = IF @ = "full" THEN "synced" ELSE @]
          /\ pc'[b] = "removeSrc"
      BY <1>1, <1>3, <2>4 DEF Copies, CallTypes
    <3>2. content'[fd[b].src] = content[fd[b].src]
      BY <1>1, <2>2, <3>1 DEF FileTypes
    <3>3. content[fd[b].dst] # "partial" => content'[fd[b].dst] = "synced"
      BY <1>1, <2>2, <3>1 DEF FileTypes
    <3>4. content[fd[b].src] = "synced" => content[fd[b].dst] # "partial"
      BY <2>1, <2>4 DEF MoverOK
    <3> QED
      BY <2>1, <2>2, <3>1, <3>2, <3>3, <3>4 DEF MoverOK
  <2> QED
    BY <1>3, <2>3, <2>4 DEF Copies
<1>4. ASSUME pc'[b] = pc[b] /\ call'[b] = call[b] /\ fd'[b] = fd[b], ~OpensSrc(b), ~Opens(b), ~Copies(b)
      PROVE  MoverOK(b)'
  <2> DEFINE m == call[b].msg
  <2>1. pc[b] \in HoldSteps /\ m \notin removed
    BY <1>4, RemovedGrows
  <2>2. /\ m \in Msgs /\ call[b].from \in Visible /\ call[b].to \in Visible
        /\ fd[b].src \in Inodes /\ dir[m][call[b].from] = fd[b].src
        /\ pc[b] \in CopySteps =>
              fd[b].dst \in Inodes /\ dir[m][call[b].to] = fd[b].dst
    BY <2>1, MoverFiles
  <2>3. KeepsNames(m, Visible)
    <3>1. ASSUME NEW c \in Callers, RenamesOf(c, m) PROVE FALSE
      <4>1. pc[c] = "rename" /\ call[c].msg = m /\ c # b /\ pc[c] # "idle" /\ pc[c] \in EarlySteps
        BY <2>1, <3>1 DEF RenamesOf, Renames, HoldSteps, CopySteps, EarlySteps
      <4>2. call[b].op = "move"
        BY <2>1, OnlyMoversCopy
      <4>3. call[c].op = "write"
        BY <4>1, <4>2, CallNames DEF SpoolInv, CallsInv, Alone
      <4> QED
        BY <2>2, <4>1, <4>3, EarlyIsHidden, NoneAssumption DEF SpoolInv
    <3>2. ASSUME NEW c \in Callers, OpensOf(c, m) PROVE FALSE
      BY <1>4, <2>1, <3>2, OneMover DEF OpensOf, Opens, HoldSteps
    <3>3. ASSUME NEW c \in Callers, RemovesOf(c, m) PROVE FALSE
      <4>1. c = b /\ Return(c, "acked")
        BY <2>1, <3>3, OneMover DEF RemovesOf, Removes, Ok, HoldSteps, CopySteps
      <4> QED
        BY <1>1, <4>1, ReturnEffect DEF HoldSteps, CopySteps
    <3>4. ~TakesOf(m)
      BY <1>4 DEF TakesOf, Takes
    <3> QED
      BY <2>2, <3>1, <3>2, <3>3, <3>4, NameCases
  <2>4. ASSUME NEW s \in Visible, dir[m][s] # None
        PROVE  content'[dir[m][s]] = content[dir[m][s]]
    <3>1. ~Crashes
      BY DEF Crashes, HoldSteps, CopySteps
    <3>2. ASSUME NEW c \in Callers, Opens(c), call[c].msg = m PROVE FALSE
      BY <1>4, <2>1, <3>2, OneMover DEF Opens, HoldSteps
    <3>3. ASSUME NEW c \in Callers, Copies(c), fd[c].dst = dir[m][s] PROVE FALSE
      <4>1. pc[c] \in CopySteps /\ s \in Names
        BY <3>3, VisibleIsNamed DEF Copies, CopySteps
      <4>2. call[c].msg = m
        BY <2>2, <3>3, <4>1 DEF CopyIsTarget
      <4> QED
        BY <1>4, <2>1, <3>3, <4>1, <4>2, OneMover DEF HoldSteps
    <3> QED
      BY <2>2, <2>4, <3>1, <3>2, <3>3, ContentCases
  <2>5. /\ content'[fd[b].src] = content[fd[b].src]
        /\ pc[b] \in CopySteps => content'[fd[b].dst] = content[fd[b].dst]
    BY <2>2, <2>4, NoneAssumption
  <2>6. /\ dir'[m][call[b].from] = fd[b].src
        /\ pc[b] \in CopySteps => dir'[m][call[b].to] = fd[b].dst
    BY <2>2, <2>3 DEF KeepsNames
  <2>7. pc[b] \in {"syncCopy", "removeSrc"} => pc[b] \in CopySteps
    BY DEF CopySteps
  <2> QED
    BY <1>4, <2>1, <2>5, <2>6, <2>7 DEF MoverOK
<1> QED
  BY <1>2, <1>3, <1>4, <1>5, HolderCases DEF SpoolInv

LEMMA KeptStep ==
    ASSUME WriteIsRename, SpoolInv, KeptInv, [Next]_vars
    PROVE  Kept'
<1> SUFFICES ASSUME NEW m \in Msgs, status'[m] = "acked", m \notin removed'
             PROVE  \E s \in Visible, A \in SUBSET Visible :
                       /\ dir'[m][s] # None /\ content'[dir'[m][s]] = "synced"
                       /\ \A r \in Route : r[2] \in A \union {s} => r[1] \in A
                       /\ \A a \in A : dir'[m][a] = None
  BY DEF Kept, KeptIn, Visible
<1>1. m \notin removed
  BY RemovedGrows
<1>2. CASE status[m] # "acked"
  <2>1. PICK c \in Callers : /\ call[c].op = "write" /\ call[c].msg = m
                             /\ Renames(c) \/ Removes(c)
    BY <1>2, StatusCases
  <2>2. ~Removes(c)
    BY <2>1, OnlyMoversCopy DEF Removes, HoldSteps, CopySteps
  <2>3. Renames(c) /\ pc[c] = "rename" /\ dir[m][call[c].from] # None /\ content' = content
    BY <2>1, <2>2 DEF Renames
  <2>4. call[c].from = "tmp" /\ call[c].to = "incoming"
    BY <2>1 DEF SpoolInv, CallsInv, CallOK
  <2>5. "tmp" \in Names /\ "incoming" \in Names /\ "incoming" \in Visible
    BY DEF Names, Stages, Visible
  <2>6. dir'[m]["incoming"] = dir[m]["tmp"]
    BY <2>1, <2>3, <2>4, <2>5, MoveName DEF Renames, SpoolInv, FilesInv, NamesInv
  <2>7. content[dir[m]["tmp"]] = "synced"
    BY <2>3, <2>4 DEF SpoolInv, FilesInv, NamesInv, SettledIsSynced, Settled
  <2> QED
    <3>1. \A r \in Route : r[2] \in {} \union {"incoming"} => r[1] \in {}
      BY RouteAssumption
    <3>2. dir'[m]["incoming"] # None /\ content'[dir'[m]["incoming"]] = "synced"
      BY <2>3, <2>4, <2>6, <2>7
    <3>3. {} \in SUBSET Visible /\ \A a \in {} : dir'[m][a] = None
      OBVIOUS
    <3> QED
      BY <2>5, <3>1, <3>2, <3>3
<1>3. CASE status[m] = "acked"
  <2>1. PICK s \in Visible, A \in SUBSET Visible : KeptIn(m, s, A)
    BY <1>1, <1>3 DEF KeptInv, Kept
  <2>2. /\ dir[m][s] # None /\ content[dir[m][s]] = "synced"
        /\ \A r \in Route : r[2] \in A \union {s} => r[1] \in A
        /\ \A a \in A : dir[m][a] = None
    BY <2>1 DEF KeptIn
  (* nobody moves a file to s or to a stage before s: there is none to move *)
  <2>3. ASSUME NEW c \in Callers, <<call[c].from, call[c].to>> \in Route,
               dir[m][call[c].from] # None
        PROVE  call[c].to \notin A \union {s} /\ call[c].from \notin A
    BY <2>2, <2>3
  <2>4. content'[dir[m][s]] = "synced"
    <3>1. ASSUME NEW c \in Callers, Opens(c), call[c].msg = m, call[c].to = s PROVE FALSE
      <4>1. <<call[c].from, call[c].to>> \in Route /\ dir[m][call[c].from] # None
        BY <1>1, <3>1, MoverFiles, NoneAssumption DEF Opens, HoldSteps, KeptInv
      <4> QED
        BY <2>3, <3>1, <4>1
    <3>2. ASSUME NEW c \in Callers, Copies(c), fd[c].dst = dir[m][s] PROVE FALSE
      <4>1. pc[c] \in CopySteps /\ pc[c] \in HoldSteps /\ s \in Names
        BY <3>2, VisibleIsNamed DEF Copies, HoldSteps, CopySteps
      <4>2. call[c].msg = m /\ call[c].to = s
        BY <3>2, <4>1 DEF KeptInv, CopyIsTarget
      <4>3. <<call[c].from, call[c].to>> \in Route /\ dir[m][call[c].from] # None
        BY <1>1, <4>1, <4>2, MoverFiles, NoneAssumption DEF KeptInv
      <4> QED
        BY <2>3, <4>2, <4>3
    <3> QED
      BY <2>2, <3>1, <3>2, ContentCases
  <2>5. CASE KeepsNames(m, Visible)
    BY <2>2, <2>4, <2>5 DEF KeepsNames
  (* the file in s goes to the next stage *)
  <2>6. ASSUME NEW c \in Callers, <<s, call[c].to>> \in Route, call[c].to \in Visible,
               dir'[m][call[c].to] # None, content'[dir'[m][call[c].to]] = "synced",
               \A a \in A \union {s} : dir'[m][a] = None
        PROVE  \E t \in Visible, B \in SUBSET Visible :
                  /\ dir'[m][t] # None /\ content'[dir'[m][t]] = "synced"
                  /\ \A r \in Route : r[2] \in B \union {t} => r[1] \in B
                  /\ \A a \in B : dir'[m][a] = None
    <3>1. \A r \in Route : r[2] = call[c].to => r[1] = s
      BY <2>6, RouteAssumption
    <3>2. \A r \in Route : r[2] \in (A \union {s}) \union {call[c].to} => r[1] \in A \union {s}
      BY <2>2, <3>1
    <3>3. A \union {s} \in SUBSET Visible
      OBVIOUS
    <3> QED
      BY <2>6, <3>2, <3>3
  <2>7. ASSUME NEW c \in Callers, RenamesOf(c, m)
        PROVE  \E t \in Visible, B \in SUBSET Visible :
                  /\ dir'[m][t] # None /\ content'[dir'[m][t]] = "synced"
                  /\ \A r \in Route : r[2] \in B \union {t} => r[1] \in B
                  /\ \A a \in B : dir'[m][a] = None
    <3>1. pc[c] = "rename" /\ pc[c] # "idle" /\ call[c].msg = m /\ dir[m][call[c].from] # None
      BY <2>7 DEF RenamesOf, Renames
    <3>2. call[c].op = "move"
      BY <1>3, <3>1, CallNames DEF SpoolInv, CallsInv, CallOK
    <3>3. <<call[c].from, call[c].to>> \in Route /\ call[c].from \in Visible /\ call[c].to \in Visible
      BY <3>1, <3>2, CallNames DEF SpoolInv, CallsInv, CallOK
    <3>4. call[c].to \notin A \union {s} /\ call[c].from \notin A
      BY <2>3, <3>1, <3>3
    <3>5. CASE call[c].from # s
      BY <2>2, <2>4, <2>7, <3>4, <3>5 DEF RenamesOf, KeepsNames
    <3>6. CASE call[c].from = s
      <4>1. dir'[m][call[c].to] = dir[m][s] /\ dir'[m][s] = None
        BY <2>7, <3>3, <3>4, <3>6 DEF RenamesOf
      <4>2. \A a \in A \union {s} : dir'[m][a] = None
        BY <2>2, <2>7, <3>4, <3>6, <4>1 DEF RenamesOf, KeepsNames
      <4> QED
        BY <2>2, <2>4, <2>6, <3>3, <3>6, <4>1, <4>2
    <3> QED
      BY <3>5, <3>6
  <2>8. ASSUME NEW c \in Callers, OpensOf(c, m)
        PROVE  \E t \in Visible, B \in SUBSET Visible :
                  /\ dir'[m][t] # None /\ content'[dir'[m][t]] = "synced"
                  /\ \A r \in Route : r[2] \in B \union {t} => r[1] \in B
                  /\ \A a \in B : dir'[m][a] = None
    <3>1. <<call[c].from, call[c].to>> \in Route /\ dir[m][call[c].from] # None
      BY <1>1, <2>8, MoverFiles, NoneAssumption DEF OpensOf, Opens, HoldSteps, KeptInv
    <3>2. call[c].to \notin A \union {s}
      BY <2>3, <3>1
    <3> QED
      BY <2>2, <2>4, <2>8, <3>2 DEF OpensOf, KeepsNames
  <2>9. ASSUME NEW c \in Callers, RemovesOf(c, m)
        PROVE  \E t \in Visible, B \in SUBSET Visible :
                  /\ dir'[m][t] # None /\ content'[dir'[m][t]] = "synced"
                  /\ \A r \in Route : r[2] \in B \union {t} => r[1] \in B
                  /\ \A a \in B : dir'[m][a] = None
    <3>1. /\ pc[c] = "removeSrc" /\ pc[c] \in CopySteps /\ pc[c] \in HoldSteps
          /\ call[c].msg = m /\ content' = content
      BY <2>9 DEF RemovesOf, Removes, HoldSteps, CopySteps
    <3>2. /\ call[c].from \in Visible /\ call[c].to \in Visible
          /\ <<call[c].from, call[c].to>> \in Route
          /\ fd[c].src # fd[c].dst /\ fd[c].src # None /\ fd[c].dst # None
          /\ dir[m][call[c].from] = fd[c].src /\ dir[m][call[c].to] = fd[c].dst
      BY <1>1, <3>1, MoverFiles, NoneAssumption DEF KeptInv
    <3>3. call[c].from \notin A
      BY <2>3, <3>2
    <3>4. CASE call[c].from # s
      BY <2>2, <2>4, <2>9, <3>3, <3>4 DEF RemovesOf, KeepsNames
    <3>5. CASE call[c].from = s
      <4>1. content[fd[c].dst] = "synced"
        BY <1>1, <2>2, <3>1, <3>2, <3>5 DEF KeptInv, MoverOK
      <4>2. dir'[m][call[c].to] = fd[c].dst /\ dir'[m][s] = None
        BY <2>9, <3>2, <3>5 DEF RemovesOf, KeepsNames
      <4>3. \A a \in A \union {s} : dir'[m][a] = None
        BY <2>2, <2>9, <3>5, <4>2 DEF RemovesOf, KeepsNames
      <4> QED
        BY <2>6, <3>1, <3>2, <3>5, <4>1, <4>2, <4>3
    <3> QED
      BY <3>4, <3>5
  <2>10. ~TakesOf(m)
    BY DEF TakesOf, Takes
  <2> QED
    BY <2>5, <2>7, <2>8, <2>9, <2>10, NameCases
<1> QED
  BY <1>2, <1>3

(* Where Write ends with a rename, an acknowledged message that neither    *)
(* Cleanup nor Delete took has a complete and durable file in some stage   *)
(* (AckedIsKept), through every crash, error and copy between devices.     *)
THEOREM AckedStaysKept == ASSUME WriteIsRename PROVE Spec => []AckedIsKept
<1>1. Init => KeptInv
  BY DEF Init, KeptInv, CopyIsTarget, MoverOK, Kept, HoldSteps, CopySteps
<1>2. SpoolInv /\ KeptInv /\ [Next]_vars => KeptInv'
  BY CopyIsTargetStep, MoverStep, KeptStep DEF KeptInv
<1>3. KeptInv => AckedIsKept
  BY DEF KeptInv, Kept, KeptIn, AckedIsKept
<1> QED
  BY <1>1, <1>2, <1>3, SpoolInvHolds, PTL DEF Spec

-----------------------------------------------------------------------------
(* The spool is atomic *)

In(m) == {s \in Visible : dir[m][s] # None}

(* Place(m), as a function of where the message is and whether it was      *)
(* removed.                                                                *)
PlaceOf(S, gone) ==
    IF S # {} THEN CHOOSE s \in S : \A r \in Route : r[2] = s => r[1] \notin S
    ELSE IF gone THEN "gone" ELSE "nowhere"

Crossing(s, t) == <<s, t>> \in Route /\ Device[s] # Device[t]

(* Only a message that was acknowledged is taken out. *)
RemovedWasAcked == \A m \in removed : status[m] = "acked"

LEMMA PlaceIs ==
    ASSUME NEW m \in Msgs
    PROVE  /\ Place(m) = PlaceOf(In(m), m \in removed)
           /\ Place(m)' = PlaceOf(In(m)', m \in removed')
  BY DEF Place, PlaceOf, In

(* A message that is being copied counts as being where it is copied from. *)
LEMMA PlaceOfCopied ==
    ASSUME CopiesAreLast, NEW S, NEW s \in S, NEW gone, \A t \in S \ {s} : Crossing(s, t)
    PROVE  PlaceOf(S, gone) = s
<1>1. \A r \in Route : r[2] = s => r[1] \notin S
  <2> SUFFICES ASSUME NEW r \in Route, r[2] = s, r[1] \in S PROVE FALSE
    OBVIOUS
  <2>1. r[1] # s
    BY RouteAssumption
  <2>2. PICK q \in Route : q[2] = r[1] /\ Device[q[1]] # Device[q[2]]
    <3>1. <<s, r[1]>> \in Route /\ Device[s] # Device[r[1]]
      BY <2>1 DEF Crossing
    <3> QED
      BY <3>1
  <2> QED
    BY <2>2 DEF CopiesAreLast
<1>2. ASSUME NEW t \in S, \A r \in Route : r[2] = t => r[1] \notin S, t # s PROVE FALSE
  <2>1. <<s, t>> \in Route
    BY <1>2 DEF Crossing
  <2> QED
    BY <1>2, <2>1
<1> QED
  BY <1>1, <1>2 DEF PlaceOf

LEMMA BelowCopied ==
    ASSUME CopiesAreLast, NEW r \in Route, Device[r[1]] # Device[r[2]]
    PROVE  Below(r[1]) \subseteq {r[1], r[2]}
<1>1. {r[1], r[2]} \in SUBSET Visible /\ r[1] \in {r[1], r[2]}
  BY RouteAssumption
<1>2. \A q \in Route : q[1] \in {r[1], r[2]} => q[2] \in {r[1], r[2]}
  BY DEF CopiesAreLast
<1> QED
  BY <1>1, <1>2 DEF Below

LEMMA TwoStages ==
    ASSUME CopiesAreLast, OneStage, NEW m \in Msgs, NEW s \in In(m), NEW t \in In(m), s # t
    PROVE  Crossing(s, t) \/ Crossing(t, s)
<1>1. PICK r \in Route : Device[r[1]] # Device[r[2]] /\ {s, t} \subseteq Below(r[1])
  BY DEF OneStage, In
<1>2. {s, t} \subseteq {r[1], r[2]}
  BY <1>1, BelowCopied
<1>3. r = <<r[1], r[2]>>
  BY RouteAssumption
<1> QED
  BY <1>1, <1>2, <1>3 DEF Crossing

(* Where a message is that is in the source of a route. *)
LEMMA InSource ==
    ASSUME CopiesAreLast, OneStage, NEW m \in Msgs, NEW s \in In(m), NEW t, <<s, t>> \in Route
    PROVE  /\ In(m) \subseteq {s, t}
           /\ ~Crossing(s, t) => In(m) = {s}
<1> SUFFICES ASSUME NEW u \in In(m), u # s PROVE u = t /\ Crossing(s, t)
  OBVIOUS
<1>1. CASE Crossing(s, u)
  BY <1>1 DEF CopiesAreLast, Crossing
<1>2. CASE Crossing(u, s)
  BY <1>2 DEF CopiesAreLast, Crossing
<1> QED
  BY <1>1, <1>2, TwoStages

(* Where a message is that is open to be copied. *)
LEMMA InHeld ==
    ASSUME CopiesAreLast, NEW c \in Callers, HolderStages(c), pc[c] = "openDst",
           Crossing(call[c].from, call[c].to)
    PROVE  In(call[c].msg) \subseteq {call[c].from, call[c].to}
<1> SUFFICES ASSUME NEW x \in In(call[c].msg), x # call[c].from, x # call[c].to PROVE FALSE
  OBVIOUS
<1>1. PICK r \in Route : Device[r[1]] # Device[r[2]] /\ {call[c].from, x} \subseteq Below(r[1])
  BY DEF HolderStages, Split, In
<1>2. {call[c].from, x} \subseteq {r[1], r[2]}
  BY <1>1, BelowCopied
<1>3. PICK q \in Route : q[1] = call[c].from /\ q[2] = call[c].to
  BY DEF Crossing
<1>4. r[1] = call[c].from /\ x = r[2]
  BY <1>1, <1>2, <1>3 DEF CopiesAreLast
<1>5. q = r
  BY <1>1, <1>3, <1>4 DEF CopiesAreLast
<1> QED
  BY <1>3, <1>4, <1>5

(* What a step does to the place of one message. *)
PlaceStep(m) ==
    \/ Place(m)' = Place(m)
    \/ Place(m) = "nowhere" /\ Place(m)' = "incoming"
    \/ \E to \in Visible : <<Place(m), to>> \in Route /\ Place(m)' = to
    \/ Place(m) \in Visible /\ Place(m)' = "gone"

AtomicInv ==
    /\ SpoolInv /\ OneStage /\ Hidden /\ KeptInv /\ RemovedWasAcked
    /\ \A c \in Callers : HolderStages(c)

(* The destination of a copy is opened. *)
LEMMA OpenPlace ==
    ASSUME WriteIsRename, CopiesAreLast, AtomicInv, [Next]_vars, NEW c \in Callers, Opens(c),
           NEW m, m = call[c].msg, NEW from, from = call[c].from, NEW to, to = call[c].to
    PROVE  Place(m)' = Place(m) \/ (Place(m) = "gone" /\ Place(m)' = to)
<1> USE DEF AtomicInv
<1>1. pc[c] = "openDst" /\ pc[c] \in HoldSteps /\ removed' = removed
  BY DEF Opens, HoldSteps
<1>2. m \in Msgs /\ from \in Visible /\ to \in Visible /\ from # to /\ Crossing(from, to)
  BY <1>1, OnlyMoversCopy DEF Crossing, SpoolInv, CallsInv, CallOK
<1>3. In(m) \subseteq {from, to}
  BY <1>1, <1>2, InHeld
<1>4. In(m)' = In(m) \union {to}
  <2>1. PICK i \in IF dir[m][to] = None THEN Free ELSE {dir[m][to]} : dir' = [dir EXCEPT ![m][to] = i]
    BY DEF Opens
  <2>2. FileTypes /\ to \in Names
    BY <1>2, VisibleIsNamed DEF SpoolInv, FilesInv, NamesInv
  <2>3. i \in Inodes /\ i # None
    BY <1>2, <2>1, <2>2, NoneAssumption DEF Free, FileTypes
  <2>4. \A o \in Names : dir'[m][o] = IF o = to THEN i ELSE dir[m][o]
    BY <1>2, <2>1, <2>2, <2>3, SetName
  <2> QED
    BY <1>2, <2>3, <2>4, VisibleIsNamed DEF In
<1>5. CASE from \in In(m)
  <2>1. In(m)' = {from, to}
    BY <1>3, <1>4, <1>5
  <2>2. Place(m)' = from
    BY <1>2, <2>1, PlaceIs, PlaceOfCopied
  <2>3. Place(m) = from
    BY <1>2, <1>3, <1>5, PlaceIs, PlaceOfCopied
  <2> QED
    BY <2>2, <2>3
<1>6. CASE In(m) = {to}
  <2>1. In(m)' = {to}
    BY <1>4, <1>6
  <2>2. Place(m)' = to
    BY <1>2, <2>1, PlaceIs, PlaceOfCopied
  <2>3. Place(m) = to
    BY <1>2, <1>6, PlaceIs, PlaceOfCopied
  <2> QED
    BY <2>2, <2>3
<1>7. CASE In(m) = {}
  <2>1. m \in removed
    BY <1>1, <1>2, <1>7, MoverFiles, NoneAssumption DEF KeptInv, In
  <2>2. Place(m) = "gone"
    BY <1>2, <1>7, <2>1, PlaceIs DEF PlaceOf
  <2>3. In(m)' = {to}
    BY <1>4, <1>7
  <2>4. Place(m)' = to
    BY <1>2, <2>3, PlaceIs, PlaceOfCopied
  <2> QED
    BY <2>2, <2>4
<1> QED
  BY <1>3, <1>5, <1>6, <1>7

LEMMA PlaceSteps ==
    ASSUME WriteIsRename, CopiesAreLast, AtomicInv, [Next]_vars, ~\E c \in Callers : Opens(c),
           NEW m \in Msgs
    PROVE  PlaceStep(m)
<1> USE DEF AtomicInv
<1>1. \A s \in Visible : (s \in In(m) <=> dir[m][s] # None) /\ (s \in In(m)' <=> dir'[m][s] # None)
  BY DEF In
<1>2. In(m) \subseteq Visible /\ In(m)' \subseteq Visible
  BY DEF In
<1>3. CASE KeepsNames(m, Visible)
  <2>1. In(m)' = In(m)
    BY <1>1, <1>2, <1>3 DEF KeepsNames
  <2>2. CASE In(m) # {}
    <3>1. ASSUME NEW S, S # {} PROVE PlaceOf(S, m \in removed) = PlaceOf(S, m \in removed')
      BY <3>1 DEF PlaceOf
    <3>2. PlaceOf(In(m), m \in removed) = PlaceOf(In(m)', m \in removed')
      BY <2>1, <2>2, <3>1
    <3> QED
      BY <3>2, PlaceIs DEF PlaceStep
  <2>3. CASE In(m) = {}
    <3>1. m \in removed' => m \in removed
      <4>1. ASSUME NEW c \in Callers, CallerSteps(c) PROVE removed' = removed
        BY <4>1 DEF CallerSteps, BeginsWrite, BeginsMove, Fails, Creates, Prepares, Publishes,
                    GoesOn, Renames, OpensSrc, Opens, Copies, Removes
      <4>2. ASSUME NEW k \in Msgs, NEW s \in Visible, Takes(k, s) PROVE m \in removed' => m \in removed
        BY <1>1, <2>3, <4>2 DEF Takes
      <4> QED
        BY <4>1, <4>2, StepCases DEF SpoolInv, Stays, Crashes
    <3>2. (m \in removed') = (m \in removed)
      BY <3>1, RemovedGrows
    <3> QED
      BY <2>1, <3>2, PlaceIs DEF PlaceStep
  <2> QED
    BY <2>2, <2>3
<1>4. ASSUME NEW c \in Callers, RenamesOf(c, m) PROVE PlaceStep(m)
  <2>1. /\ pc[c] = "rename" /\ pc[c] # "idle" /\ call[c].msg = m /\ dir[m][call[c].from] # None
        /\ Device[call[c].from] = Device[call[c].to]
    BY <1>4 DEF RenamesOf, Renames
  <2>2. CASE call[c].op = "write"
    <3>1. pc[c] \in EarlySteps /\ call[c].from = "tmp" /\ call[c].to = "incoming" /\ status[m] = "writing"
      BY <2>1, <2>2 DEF EarlySteps, SpoolInv, CallsInv, CallOK
    <3>2. In(m) = {} /\ m \notin removed
      BY <1>1, <1>2, <2>1, <2>2, <3>1, EarlyIsHidden DEF SpoolInv, RemovedWasAcked
    <3>3. In(m)' = {"incoming"}
      <4>1. "incoming" \in Visible
        BY DEF Visible
      <4> QED
        BY <1>1, <1>2, <1>4, <2>1, <3>1, <3>2, <4>1 DEF RenamesOf, KeepsNames
    <3>4. Place(m) = "nowhere"
      BY <3>2, PlaceIs DEF PlaceOf
    <3>5. Place(m)' = "incoming"
      BY <3>3, PlaceIs, PlaceOfCopied
    <3> QED
      BY <3>4, <3>5 DEF PlaceStep
  <2>3. CASE call[c].op = "move"
    <3>1. <<call[c].from, call[c].to>> \in Route /\ call[c].from \in Visible /\ call[c].to \in Visible
      BY <2>1, <2>3, CallNames DEF SpoolInv, CallsInv, CallOK
    <3>2. In(m) = {call[c].from} /\ call[c].from # call[c].to
      BY <1>1, <2>1, <3>1, InSource, RouteAssumption DEF Crossing
    <3>3. In(m)' = {call[c].to}
      BY <1>1, <1>2, <1>4, <2>1, <3>1, <3>2 DEF RenamesOf, KeepsNames
    <3>4. Place(m) = call[c].from /\ Place(m)' = call[c].to
      BY <3>2, <3>3, PlaceIs, PlaceOfCopied
    <3> QED
      BY <3>1, <3>4 DEF PlaceStep
  <2> QED
    BY <2>1, <2>2, <2>3, CallNames DEF SpoolInv
<1>6. ASSUME NEW c \in Callers, RemovesOf(c, m) PROVE PlaceStep(m)
  <2>1. /\ pc[c] \in CopySteps /\ pc[c] \in HoldSteps /\ call[c].msg = m /\ removed' = removed
        /\ dir[m][call[c].from] # None
    BY <1>6 DEF RemovesOf, Removes, HoldSteps, CopySteps
  <2>2. /\ call[c].from \in Visible /\ call[c].to \in Visible /\ call[c].from # call[c].to
        /\ Crossing(call[c].from, call[c].to)
    BY <2>1, OnlyMoversCopy DEF Crossing, SpoolInv, CallsInv, CallOK
  <2>3. call[c].from \in In(m) /\ In(m) \subseteq {call[c].from, call[c].to}
    BY <1>1, <2>1, <2>2, InSource DEF Crossing
  <2>4. In(m)' = In(m) \ {call[c].from}
    BY <1>1, <1>2, <1>6, <2>2 DEF RemovesOf, KeepsNames
  <2>5. Place(m) = call[c].from
    BY <2>2, <2>3, PlaceIs, PlaceOfCopied
  <2>6. CASE call[c].to \in In(m)
    <3>1. In(m)' = {call[c].to}
      BY <2>2, <2>3, <2>4, <2>6
    <3>2. Place(m)' = call[c].to
      BY <3>1, PlaceIs, PlaceOfCopied
    <3> QED
      BY <2>2, <2>5, <3>2 DEF PlaceStep, Crossing
  <2>7. CASE call[c].to \notin In(m)
    <3>1. In(m)' = {}
      BY <2>3, <2>4, <2>7
    <3>2. m \in removed
      BY <1>1, <2>1, <2>2, <2>7, MoverFiles, NoneAssumption DEF KeptInv
    <3>3. Place(m)' = "gone"
      BY <2>1, <3>1, <3>2, PlaceIs DEF PlaceOf
    <3> QED
      BY <2>2, <2>5, <3>3 DEF PlaceStep
  <2> QED
    BY <2>6, <2>7
<1>7. CASE TakesOf(m)
  <2>1. PICK s \in Visible : Takes(m, s) /\ KeepsNames(m, Visible \ {s}) /\ dir'[m][s] = None
    BY <1>7 DEF TakesOf
  <2>2. s \in In(m) /\ m \in removed' /\ In(m)' = In(m) \ {s}
    BY <1>1, <1>2, <2>1 DEF Takes, KeepsNames
  <2>3. CASE In(m) = {s}
    <3>1. Place(m) = s
      BY <2>3, PlaceIs, PlaceOfCopied
    <3>2. Place(m)' = "gone"
      BY <2>2, <2>3, PlaceIs DEF PlaceOf
    <3> QED
      BY <3>1, <3>2 DEF PlaceStep
  <2>4. CASE In(m) # {s}
    <3>1. PICK t \in In(m) : t # s
      BY <2>2, <2>4
    <3>2. CASE Crossing(s, t)
      <4>1. In(m) = {s, t}
        BY <2>2, <3>1, <3>2, InSource DEF Crossing
      <4>2. Place(m) = s
        BY <3>2, <4>1, PlaceIs, PlaceOfCopied
      <4>3. In(m)' = {t}
        BY <2>2, <3>1, <4>1
      <4>4. Place(m)' = t
        BY <4>3, PlaceIs, PlaceOfCopied
      <4> QED
        BY <1>2, <3>2, <4>2, <4>4 DEF PlaceStep, Crossing
    <3>3. CASE Crossing(t, s)
      <4>1. In(m) = {t, s}
        BY <2>2, <3>1, <3>3, InSource DEF Crossing
      <4>2. Place(m) = t
        BY <3>3, <4>1, PlaceIs, PlaceOfCopied
      <4>3. In(m)' = {t}
        BY <2>2, <3>1, <4>1
      <4>4. Place(m)' = t
        BY <4>3, PlaceIs, PlaceOfCopied
      <4> QED
        BY <4>2, <4>4 DEF PlaceStep
    <3> QED
      BY <2>2, <3>1, <3>2, <3>3, TwoStages
  <2> QED
    BY <2>3, <2>4
<1> QED
  BY <1>3, <1>4, <1>6, <1>7, NameCases DEF OpensOf

(* A step concerns one message. *)
LEMMA OneMessage ==
    ASSUME SpoolInv, [Next]_vars
    PROVE  \E m : \A k \in Msgs : k # m => dir'[k] = dir[k] /\ (k \in removed') = (k \in removed)
<1>1. dir \in [Msgs -> [Names -> Inodes \union {None}]]
  BY DEF SpoolInv, TypeOK
<1>2. ASSUME NEW c \in Callers, CallerSteps(c)
      PROVE  removed' = removed /\ \A k \in Msgs : k # call[c].msg => dir'[k] = dir[k]
  <2>1. CASE dir' = dir
    BY <1>2, <2>1 DEF CallerSteps, BeginsWrite, BeginsMove, Fails, Creates, Prepares, Publishes,
                      GoesOn, Renames, OpensSrc, Opens, Copies, Removes
  <2>2. CASE Creates(c) \/ Opens(c)
    BY <1>1, <2>2 DEF Creates, Opens
  <2>3. CASE Fails(c) \/ Removes(c)
    BY <1>1, <2>3 DEF Fails, Removes, unlink
  <2>4. CASE Publishes(c) \/ Renames(c)
    BY <1>1, <2>4 DEF Publishes, Renames, rename
  <2> QED
    BY <1>2, <2>1, <2>2, <2>3, <2>4 DEF CallerSteps, BeginsWrite, BeginsMove, Prepares, GoesOn, OpensSrc, Copies
<1>3. ASSUME NEW m \in Msgs, NEW s \in Visible, Takes(m, s)
      PROVE  \A k \in Msgs : k # m => dir'[k] = dir[k] /\ (k \in removed') = (k \in removed)
  BY <1>1, <1>3 DEF Takes, unlink
<1>4. Stays \/ Crashes => dir' = dir /\ removed' = removed
  BY DEF Stays, Crashes
<1> QED
  BY <1>2, <1>3, <1>4, StepCases DEF SpoolInv

(* Who has a message open, before and after the step. *)
LEMMA CopyingIs ==
    ASSUME NEW m
    PROVE  /\ \A x : x \in Copying(m) <=>
                 \E b \in Callers : pc[b] = "openDst" /\ call[b].msg = m /\ call[b].to = x
           /\ \A x : x \in Copying(m)' <=>
                 \E b \in Callers : pc'[b] = "openDst" /\ call'[b].msg = m /\ call'[b].to = x
  BY DEF Copying

Quiet == \A m \in Msgs : Copying(m)' = Copying(m)

(* A step that opens or closes nothing leaves that as it is. *)
LEMMA CopyingCases ==
    ASSUME SpoolInv, [Next]_vars
    PROVE  \/ Quiet
           \/ \E c \in Callers : OpensSrc(c) \/ (pc[c] = "openDst" /\ (Opens(c) \/ Fails(c)))
           \/ Crashes
<1>1. CallTypes
  BY DEF SpoolInv, CallsInv
<1>2. ASSUME \A b \in Callers : \/ pc'[b] = pc[b] /\ call'[b] = call[b]
                                \/ pc[b] # "openDst" /\ pc'[b] # "openDst"
      PROVE  Quiet
  <2> SUFFICES ASSUME NEW m \in Msgs PROVE Copying(m)' = Copying(m)
    BY DEF Quiet
  <2>1. ASSUME NEW x PROVE x \in Copying(m)' <=> x \in Copying(m)
    BY <1>2, CopyingIs
  <2> QED
    BY <2>1
<1>3. CASE Stays \/ \E m \in Msgs, s \in Visible : Takes(m, s)
  BY <1>2, <1>3 DEF Stays, Takes
<1>4. ASSUME NEW c \in Callers, CallerSteps(c), ~OpensSrc(c), pc[c] # "openDst" PROVE Quiet
  <2>1. pc'[c] # "openDst"
    BY <1>1, <1>4, HolderCases DEF HoldSteps, SpoolInv, Opens, Copies, CallTypes
  <2>2. ASSUME NEW b \in Callers \ {c} PROVE pc'[b] = pc[b] /\ call'[b] = call[b]
    <3>1. CASE Fails(c) \/ Renames(c) \/ Removes(c)
      BY <1>1, <2>2, <3>1, ReturnEffect DEF Fails, Renames, Removes, Ok, Error
    <3>2. CASE Creates(c) \/ Prepares(c) \/ Publishes(c) \/ GoesOn(c) \/ Copies(c)
      BY <1>1, <2>2, <3>2 DEF Creates, Prepares, Publishes, GoesOn, Copies, CallTypes
    <3>3. CASE \E m \in Msgs : BeginsWrite(c, m) \/ \E r \in Route : BeginsMove(c, m, r[1], r[2])
      <4>1. pc' = [pc EXCEPT ![c] = "create"] \/ pc' = [pc EXCEPT ![c] = "stat"]
        BY <3>3 DEF BeginsWrite, BeginsMove
      <4>2. PICK v : call' = [call EXCEPT ![c] = v]
        BY <3>3 DEF BeginsWrite, BeginsMove
      <4> QED
        BY <1>1, <2>2, <4>1, <4>2 DEF CallTypes
    <3>4. ~Opens(c)
      BY <1>4 DEF Opens
    <3> QED
      BY <1>4, <3>1, <3>2, <3>3, <3>4 DEF CallerSteps
  <2> QED
    BY <1>2, <1>4, <2>1, <2>2
<1>5. ASSUME NEW c \in Callers, CallerSteps(c), pc[c] = "openDst" PROVE Opens(c) \/ Fails(c)
  BY <1>5 DEF CallerSteps, BeginsWrite, BeginsMove, Creates, Prepares, Publishes, GoesOn, Renames,
              OpensSrc, Copies, Removes
<1> QED
  BY <1>3, <1>4, <1>5, StepCases DEF SpoolInv

(* A message nobody touches stays where it is. *)
LEMMA SamePlace ==
    ASSUME NEW k \in Msgs, dir'[k] = dir[k], (k \in removed') = (k \in removed)
    PROVE  Place(k)' = Place(k)
<1>1. In(k)' = In(k)
  BY DEF In
<1> QED
  BY <1>1, PlaceIs

LEMMA StepRefines ==
    ASSUME WriteIsRename, CopiesAreLast, AtomicInv, [Next]_vars
    PROVE  [Atomic!Next]_Atomic!vars
<1> USE DEF AtomicInv
<1> DEFINE place == [k \in Msgs |-> Place(k)]
           copying == [k \in Msgs |-> Copying(k)]
<1>1. CallTypes /\ \A c \in Callers : CallOK(c)
  BY DEF SpoolInv, CallsInv
<1>2. place' = [k \in Msgs |-> Place(k)'] /\ copying' = [k \in Msgs |-> Copying(k)']
  OBVIOUS
<1>3. ASSUME dir' = dir, removed' = removed PROVE place' = place
  <2>1. \A k \in Msgs : Place(k)' = Place(k)
    BY <1>3, SamePlace
  <2> QED
    BY <1>2, <2>1
(* one caller at most has a message open *)
<1>4. ASSUME NEW b \in Callers, NEW c \in Callers, pc[b] = "openDst", pc[c] \in {"open", "openDst"},
             call[b].msg = call[c].msg
      PROVE  b = c
  BY <1>4, OneMover DEF HoldSteps
<1>5. ASSUME NEW c \in Callers, OpensSrc(c) PROVE Atomic!Next
  <2>0. PICK m, to : m = call[c].msg /\ to = call[c].to
    OBVIOUS
  <2>1. /\ pc[c] = "open" /\ pc' = [pc EXCEPT ![c] = "openDst"] /\ call' = call
        /\ dir' = dir /\ removed' = removed /\ dir[m][call[c].from] # None
    BY <2>0, <1>5 DEF OpensSrc
  <2>2. /\ m \in Msgs /\ call[c].from \in Visible /\ to \in Visible
        /\ Crossing(call[c].from, to)
    BY <2>0, <1>1, <2>1, OnlyMoversCopy DEF Crossing, CallOK
  <2>3. place' = place
    BY <2>0, <1>3, <2>1
  <2>4. Place(m) = call[c].from
    <3>1. call[c].from \in In(m) /\ In(m) \subseteq {call[c].from, to}
      BY <2>0, <2>1, <2>2, InSource DEF Crossing, In
    <3> QED
      BY <2>0, <2>2, <3>1, PlaceIs, PlaceOfCopied
  <2>5. \A b \in Callers : pc'[b] = IF b = c THEN "openDst" ELSE pc[b]
    BY <2>0, <1>1, <2>1 DEF CallTypes
  <2>6. Copying(m) = {} /\ Copying(m)' = {to}
    <3>1. \A b \in Callers : ~(pc[b] = "openDst" /\ call[b].msg = m)
      BY <2>0, <1>4, <2>1
    <3>2. \A x : x \notin Copying(m)
      BY <2>0, <3>1, CopyingIs
    <3>3. \A x : x \in Copying(m)' <=> x = to
      BY <2>0, <2>1, <2>5, <3>1, CopyingIs
    <3> QED
      BY <2>0, <3>2, <3>3
  <2>7. ASSUME NEW k \in Msgs, k # m PROVE Copying(k)' = Copying(k)
    <3>1. \A x : x \in Copying(k)' <=> x \in Copying(k)
      BY <2>0, <2>1, <2>5, <2>7, CopyingIs
    <3> QED
      BY <2>0, <3>1
  <2>8. copying' = [copying EXCEPT ![m] = {to}] /\ copying[m] = {}
    BY <2>0, <1>2, <2>2, <2>6, <2>7
  <2>9. <<place[m], to>> \in {r \in Route : Device[r[1]] # Device[r[2]]}
    BY <2>0, <2>2, <2>4 DEF Crossing
  <2> HIDE DEF place, copying
  <2>10. Atomic!Open(m, to)
    BY <2>0, <2>3, <2>8, <2>9 DEF Atomic!Open, place, copying
  <2> QED
    BY <2>0, <2>2, <2>10 DEF Atomic!Next
(* a caller that is done with opening the destination *)
<1>6. ASSUME NEW c \in Callers, pc[c] = "openDst", pc'[c] # "openDst", call[c].msg \in Msgs,
             \A b \in Callers \ {c} : pc'[b] = pc[b] /\ call'[b] = call[b]
      PROVE  copying' = [copying EXCEPT ![call[c].msg] = {}] /\ call[c].to \in copying[call[c].msg]
  <2>0. PICK m : m = call[c].msg
    OBVIOUS
  <2>1. call[c].to \in Copying(m)
    BY <2>0, <1>6, CopyingIs
  <2>2. Copying(m)' = {}
    <3>1. \A b \in Callers : ~(pc'[b] = "openDst" /\ call'[b].msg = m)
      BY <2>0, <1>4, <1>6
    <3>2. \A x : x \notin Copying(m)'
      BY <2>0, <3>1, CopyingIs
    <3> QED
      BY <2>0, <3>2
  <2>3. ASSUME NEW k \in Msgs, k # m PROVE Copying(k)' = Copying(k)
    <3>1. \A x : x \in Copying(k)' <=> x \in Copying(k)
      BY <2>0, <1>6, <2>3, CopyingIs
    <3> QED
      BY <2>0, <3>1
  <2> QED
    BY <2>0, <1>2, <1>6, <2>1, <2>2, <2>3
<1>7. ASSUME NEW c \in Callers, pc[c] = "openDst", Fails(c) PROVE Atomic!Next
  <2>1. dir' = dir /\ removed' = removed
    BY <1>7 DEF Fails, TmpSteps
  <2>2. pc'[c] # "openDst" /\ \A b \in Callers \ {c} : pc'[b] = pc[b] /\ call'[b] = call[b]
    BY <1>1, <1>7, ReturnEffect DEF Fails, Error
  <2>3. call[c].msg \in Msgs /\ call[c].to \in Visible
    BY <1>7, CallNames DEF SpoolInv
  <2>4. copying' = [copying EXCEPT ![call[c].msg] = {}] /\ call[c].to \in copying[call[c].msg]
    BY <1>6, <1>7, <2>2, <2>3
  <2>5. place' = place
    BY <1>3, <2>1
  <2> HIDE DEF place, copying
  <2>6. Atomic!Close(call[c].msg, call[c].to)
    BY <2>4, <2>5 DEF Atomic!Close, place, copying
  <2> QED
    BY <2>3, <2>6 DEF Atomic!Next
<1>8. ASSUME NEW c \in Callers, Opens(c) PROVE Atomic!Next
  <2>0. PICK m : m = call[c].msg
    OBVIOUS
  <2>1. pc[c] = "openDst" /\ pc' = [pc EXCEPT ![c] = "copy"] /\ call' = call /\ removed' = removed
    BY <2>0, <1>8 DEF Opens
  <2>2. pc'[c] # "openDst" /\ \A b \in Callers \ {c} : pc'[b] = pc[b] /\ call'[b] = call[b]
    BY <2>0, <1>1, <2>1 DEF CallTypes
  <2>3. m \in Msgs /\ call[c].to \in Visible
    BY <2>0, <2>1, CallNames DEF SpoolInv
  <2>4. copying' = [copying EXCEPT ![m] = {}] /\ call[c].to \in copying[m]
    BY <2>0, <1>6, <2>1, <2>2, <2>3
  <2>5. ASSUME NEW k \in Msgs, k # m PROVE Place(k)' = Place(k)
    <3>1. dir'[k] = dir[k]
      BY <2>0, <1>8, <2>5 DEF Opens, SpoolInv, TypeOK
    <3> QED
      BY <2>0, <2>1, <3>1, SamePlace
  <2>6. Place(m)' = Place(m) \/ (Place(m) = "gone" /\ Place(m)' = call[c].to)
    BY <2>0, <1>8, <2>1, <2>3, OpenPlace
  <2>7. place' = place \/ (place[m] = "gone" /\ place' = [place EXCEPT ![m] = call[c].to])
    BY <2>0, <1>2, <2>3, <2>5, <2>6
  <2> HIDE DEF place, copying
  <2>8. Atomic!Close(m, call[c].to)
    BY <2>0, <2>4, <2>7 DEF Atomic!Close, place, copying
  <2> QED
    BY <2>0, <2>3, <2>8 DEF Atomic!Next
<1>9. CASE Crashes
  <2>1. dir' = dir /\ removed' = removed /\ \A b \in Callers : pc'[b] # "openDst"
    BY <1>9 DEF Crashes
  <2>2. ASSUME NEW k \in Msgs PROVE Copying(k)' = {}
    <3>1. \A x : x \notin Copying(k)'
      BY <2>1, CopyingIs
    <3> QED
      BY <3>1
  <2>3. copying' = [k \in Msgs |-> {}]
    BY <1>2, <2>2
  <2>4. place' = place
    BY <1>3, <2>1
  <2> HIDE DEF place, copying
  <2>5. Atomic!Abandon
    BY <2>3, <2>4 DEF Atomic!Abandon, place, copying
  <2> QED
    BY <2>5 DEF Atomic!Next
<1>10. ASSUME Quiet, ~\E c \in Callers : Opens(c) PROVE [Atomic!Next]_Atomic!vars
  <2>1. PICK m : \A k \in Msgs : k # m => dir'[k] = dir[k] /\ (k \in removed') = (k \in removed)
    BY OneMessage
  <2>2. ASSUME NEW k \in Msgs, k # m PROVE Place(k)' = Place(k)
    BY <2>1, <2>2, SamePlace
  <2>3. copying' = copying
    BY <1>2, <1>10 DEF Quiet
  <2>4. CASE m \notin Msgs \/ Place(m)' = Place(m)
    <3>1. place' = place
      BY <1>2, <2>2, <2>4
    <3> HIDE DEF place, copying
    <3> QED
      BY <2>3, <3>1 DEF Atomic!vars, place, copying
  <2>5. ASSUME m \in Msgs, Place(m)' # Place(m) PROVE Atomic!Next
    <3>1. place[m] = Place(m) /\ place' = [place EXCEPT ![m] = Place(m)']
      BY <1>2, <2>2, <2>5
    <3>2. PlaceStep(m)
      BY <1>10, <2>5, PlaceSteps
    <3> HIDE DEF place, copying
    <3>3. CASE Place(m) = "nowhere" /\ Place(m)' = "incoming"
      <4>1. Atomic!Accept(m)
        BY <2>3, <3>1, <3>3 DEF Atomic!Accept, place, copying
      <4> QED
        BY <2>5, <4>1 DEF Atomic!Next
    <3>4. ASSUME NEW to \in Visible, <<Place(m), to>> \in Route, Place(m)' = to PROVE Atomic!Next
      <4>1. Atomic!Advance(m, to)
        BY <2>3, <3>1, <3>4 DEF Atomic!Advance, place, copying
      <4> QED
        BY <2>5, <4>1 DEF Atomic!Next
    <3>5. CASE Place(m) \in Visible /\ Place(m)' = "gone"
      <4>1. Atomic!Drop(m)
        BY <2>3, <3>1, <3>5 DEF Atomic!Drop, place, copying
      <4> QED
        BY <2>5, <4>1 DEF Atomic!Next
    <3> QED
      BY <1>10, <2>5, <3>2, <3>3, <3>4, <3>5 DEF PlaceStep
  <2> QED
    BY <2>4, <2>5
<1> QED
  BY <1>5, <1>7, <1>8, <1>9, <1>10, CopyingCases

LEMMA RemovedStep ==
    ASSUME SpoolInv, Hidden, RemovedWasAcked, [Next]_vars
    PROVE  RemovedWasAcked'
<1> SUFFICES ASSUME NEW m \in removed' PROVE status'[m] = "acked"
  BY DEF RemovedWasAcked
<1>1. m \in Msgs /\ status[m] = "acked"
  <2>1. ASSUME NEW c \in Callers, CallerSteps(c) PROVE removed' = removed
    BY <2>1 DEF CallerSteps, BeginsWrite, BeginsMove, Fails, Creates, Prepares, Publishes, GoesOn,
                Renames, OpensSrc, Opens, Copies, Removes
  <2>2. ASSUME NEW k \in Msgs, NEW s \in Visible, Takes(k, s)
        PROVE  m \in removed \/ (m = k /\ status[k] = "acked")
    <3>1. status[k] = "acked"
      BY <2>2 DEF Takes, Hidden
    <3>2. m \in removed \union {k}
      BY <2>2 DEF Takes
    <3> QED
      BY <3>1, <3>2
  <2>3. removed \subseteq Msgs
    BY DEF SpoolInv, TypeOK
  <2> QED
    BY <2>1, <2>2, <2>3, StepCases DEF SpoolInv, Stays, Crashes, RemovedWasAcked
<1> QED
  BY <1>1, StatusCases

(* In the layouts WriteIsRename and CopiesAreLast describe the spool       *)
(* implements AtomicSpool: whatever interleaves, a message is seen to      *)
(* appear in incoming, to advance along a route and to leave in single     *)
(* steps, and to come back only where copyFile had it open when it left.   *)
THEOREM SpoolIsAtomic == ASSUME WriteIsRename, CopiesAreLast PROVE Spec => AtomicSpoolSpec
<1> DEFINE Rest == /\ KeptInv /\ OneStage /\ Hidden /\ RemovedWasAcked
                   /\ \A c \in Callers : HolderStages(c)
<1>1. Init => Rest
  BY VisibleIsNamed DEF Init, KeptInv, CopyIsTarget, MoverOK, Kept, HoldSteps, CopySteps, OneStage,
                        Hidden, RemovedWasAcked, HolderStages
<1>2. SpoolInv /\ Rest /\ [Next]_vars => Rest'
  BY CopyIsTargetStep, MoverStep, KeptStep, OneStageStep, HolderStagesStep, HiddenStep, RemovedStep
     DEF KeptInv
<1>3. Init => Atomic!Init
  <2> SUFFICES ASSUME Init PROVE Atomic!Init
    OBVIOUS
  <2>1. ASSUME NEW m \in Msgs PROVE Place(m) = "nowhere"
    <3>1. In(m) = {} /\ m \notin removed
      BY VisibleIsNamed DEF Init, In
    <3> QED
      BY <3>1, PlaceIs DEF PlaceOf
  <2>2. ASSUME NEW m \in Msgs PROVE Copying(m) = {}
    <3>1. \A x : x \notin Copying(m)
      BY CopyingIs DEF Init
    <3> QED
      BY <3>1
  <2> QED
    BY <2>1, <2>2 DEF Atomic!Init
<1>4. SpoolInv /\ Rest /\ [Next]_vars => [Atomic!Next]_Atomic!vars
  BY StepRefines DEF AtomicInv
<1> QED
  BY <1>1, <1>2, <1>3, <1>4, SpoolInvHolds, PTL DEF Spec, AtomicSpoolSpec, Atomic!Spec
=============================================================================
