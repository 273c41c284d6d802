------------------------------- MODULE Spool -------------------------------
(***************************************************************************)
(* The message spool (internal/spool/spool.go): one directory per stage,   *)
(* one file per message, no lock anywhere.  A call of Write or Move is a   *)
(* series of system calls that other calls, the cleanup worker, I/O errors *)
(* and crashes may come between, so each system call is an action.         *)
(*                                                                         *)
(* The file system is modelled by what POSIX says of it: a name refers to  *)
(* an inode, rename and unlink change names only, an open file keeps its   *)
(* inode, rename works within one device.  After a power failure what was  *)
(* not synced may be gone; names are assumed to survive in order (a        *)
(* journalling file system), as the code never syncs a directory.          *)
(***************************************************************************)
EXTENDS Integers

CONSTANTS
    Msgs,         \* message ids, a fresh uuid for each Write
    Callers,      \* goroutines that call Write, Move and Delete
    Inodes,       \* inodes of the file system
    Later,        \* the stages after incoming
    Route,        \* the <<from, to>> pairs the pipeline calls Move with
    Deletes,      \* the stages the pipeline calls Delete with
    Device,       \* Device[s]: the device stage s is mounted on
    Retention,    \* Retention[s], in ticks; 0: no policy for the stage
    MaxAge,       \* bound: file ages told apart
    MaxIOErrors,  \* bound: system calls that fail
    MaxCrashes,   \* bound: crashes of the process or the machine
    None          \* no inode, no name

Visible == {"incoming"} \union Later
Stages == {"tmp"} \union Visible

(* "tmpfile" is tmp/ID.eml.tmp, every other name STAGE/ID.eml. *)
Names == Stages \union {"tmpfile"}

ASSUME StagesAssumption == "tmp" \notin Visible /\ "tmpfile" \notin Stages
ASSUME RouteAssumption ==
    /\ Route \subseteq Visible \X Visible /\ Deletes \subseteq Visible
    \* the stages in the order of AllStages: each is entered from one other,
    \* and incoming from Write only
    /\ \A q, r \in Route : q[2] = r[2] => q[1] = r[1]
    /\ \A r \in Route : r[2] # "incoming" /\ r[1] # r[2]
ASSUME DeviceAssumption == DOMAIN Device = Stages
ASSUME RetentionAssumption == Retention \in [Stages -> Nat] /\ Retention["tmp"] = 0
ASSUME NoneAssumption == None \notin Inodes \union (Msgs \X Visible)
ASSUME SpoolBoundsAssumption == MaxAge \in Nat /\ MaxIOErrors \in Nat /\ MaxCrashes \in Nat

VARIABLES
    dir,        \* dir[m][n]: the inode that name n of message m refers to
    content,    \* content[i]: partial, full (in the page cache), synced
    age,        \* age[i]: time since the inode was last written
    pc,         \* pc[c]: the system call caller c makes next
    call,       \* call[c]: the arguments of its call
    fd,         \* fd[c]: the inodes copyFile holds open
    victim,     \* the name the cleanup worker is about to remove
    status,     \* ghost: status[m] = what became of Write(m)
    removed,    \* ghost: messages Cleanup or Delete took out
    ioErrors, crashes

vars == <<dir, content, age, pc, call, fd, victim, status, removed, ioErrors, crashes>>
disk == <<dir, content, age>>

NoFd == [src |-> None, dst |-> None]
NoCall == [op |-> "none", msg |-> None, from |-> "tmp", to |-> "tmp"]
Call == [op : {"write", "move"}, msg : Msgs, from : Stages, to : Stages]

(* One type invariant: names, inodes and the callers' progress. *)
TypeOK ==
    /\ dir \in [Msgs -> [Names -> Inodes \union {None}]]
    /\ content \in [Inodes -> {"partial", "full", "synced"}]
    /\ age \in [Inodes -> 0..MaxAge]
    /\ pc \in [Callers -> {"idle", "create", "fill", "sync", "publish",
                           "stat", "rename", "open", "openDst", "copy", "syncCopy",
                           "removeSrc"}]
    /\ call \in [Callers -> Call \union {NoCall}]
    /\ fd \in [Callers -> [src : Inodes \union {None}, dst : Inodes \union {None}]]
    /\ victim \in {None} \union (Msgs \X Visible)
    /\ status \in [Msgs -> {"new", "writing", "acked", "failed"}]
    /\ removed \subseteq Msgs
    /\ ioErrors \in Nat /\ crashes \in Nat
    \* no inode has two names
    /\ \A m, k \in Msgs, n, o \in Names :
          dir[m][n] = dir[k][o] /\ dir[m][n] # None => m = k /\ n = o

Free == {i \in Inodes : /\ \A m \in Msgs, n \in Names : dir[m][n] # i
                        /\ \A c \in Callers : fd[c].src # i /\ fd[c].dst # i}

-----------------------------------------------------------------------------
(* System calls and returns *)

unlink(m, n) == dir' = [dir EXCEPT ![m][n] = None]

rename(m, from, to) == dir' = [dir EXCEPT ![m][to] = dir[m][from], ![m][from] = None]

Goto(c, l) == pc' = [pc EXCEPT ![c] = l]

(* The call returns; Write's caller (Session.Data) acknowledges the        *)
(* message if and only if the result is nil.                               *)
Return(c, result) ==
    /\ Goto(c, "idle")
    /\ call' = [call EXCEPT ![c] = NoCall]
    /\ fd' = [fd EXCEPT ![c] = NoFd]
    /\ status' = IF call[c].op = "write" THEN [status EXCEPT ![call[c].msg] = result]
                                         ELSE status

Ok(c) == Return(c, "acked")
Error(c) == Return(c, "failed")

(* The system call fails. *)
IOError == ioErrors < MaxIOErrors /\ ioErrors' = ioErrors + 1

-----------------------------------------------------------------------------
(* Write *)

BeginWrite(c, m) ==
    /\ pc[c] = "idle"
    /\ status[m] = "new"
    /\ status' = [status EXCEPT ![m] = "writing"]
    /\ call' = [call EXCEPT ![c] = [op |-> "write", msg |-> m, from |-> "tmp", to |-> "incoming"]]
    /\ Goto(c, "create")
    /\ UNCHANGED <<disk, fd, victim, removed, ioErrors, crashes>>

(* OpenFile with O_CREATE|O_EXCL *)
Create(c) ==
    LET m == call[c].msg IN
    /\ pc[c] = "create"
    /\ \/ /\ dir[m]["tmpfile"] = None
          /\ \E i \in Free :
                /\ dir' = [dir EXCEPT ![m]["tmpfile"] = i]
                /\ content' = [content EXCEPT ![i] = "partial"]
                /\ age' = [age EXCEPT ![i] = 0]
          /\ Goto(c, "fill")
          /\ UNCHANGED <<call, fd, status, ioErrors>>
       \/ IOError /\ Error(c) /\ UNCHANGED disk
    /\ UNCHANGED <<victim, removed, crashes>>

(* os.Remove of the tmpfile after an error; its own error is not looked at. *)
RemoveTmpFile(m) == unlink(m, "tmpfile") \/ UNCHANGED dir

(* One of the steps on the open tmpfile; on an error the file is removed.  *)
(* Only writing changes the time of last modification.                     *)
TmpFileStep(c, from, result, to) ==
    LET m == call[c].msg IN
    /\ pc[c] = from
    /\ \/ /\ content' = [content EXCEPT ![dir[m]["tmpfile"]] = result]
          /\ age' = [age EXCEPT ![dir[m]["tmpfile"]] = IF from = "fill" THEN 0 ELSE @]
          /\ Goto(c, to)
          /\ UNCHANGED <<dir, call, fd, status, ioErrors>>
       \/ /\ IOError
          /\ RemoveTmpFile(m)
          /\ Error(c)
          /\ UNCHANGED <<content, age>>
    /\ UNCHANGED <<victim, removed, crashes>>

Fill(c) == TmpFileStep(c, "fill", "full", "sync")

(* A mistake: the file is not synced. *)
MutSyncForgotten(c) == TmpFileStep(c, "sync", "full", "publish")

Sync(c) == TmpFileStep(c, "sync", "synced", "publish")

(* A mistake: a hard link is made and the old name stays. *)
MutPublishKeepsTmp(c) ==
    LET m == call[c].msg IN
    /\ pc[c] = "publish"
    /\ dir' = [dir EXCEPT ![m]["tmp"] = dir[m]["tmpfile"]]
    /\ Goto(c, "stat")
    /\ UNCHANGED <<content, age, call, fd, status, ioErrors, victim, removed, crashes>>

(* Rename tmp/ID.eml.tmp to tmp/ID.eml, then go on with Move. *)
Publish(c) ==
    LET m == call[c].msg IN
    /\ pc[c] = "publish"
    /\ \/ /\ rename(m, "tmpfile", "tmp")
          /\ Goto(c, "stat")
          /\ UNCHANGED <<call, fd, status, ioErrors>>
       \/ IOError /\ RemoveTmpFile(m) /\ Error(c)
    /\ UNCHANGED <<content, age, victim, removed, crashes>>

-----------------------------------------------------------------------------
(* Move *)

(* A stage of the pipeline moves a message on.  Nothing in the repository  *)
(* calls Move or Delete but Write itself yet; of the callers to come it is *)
(* assumed that one of them moves a given message at a time.               *)
BeginMove(c, m, from, to) ==
    /\ pc[c] = "idle"
    /\ \A b \in Callers : call[b].op = "move" => call[b].msg # m
    /\ call' = [call EXCEPT ![c] = [op |-> "move", msg |-> m, from |-> from, to |-> to]]
    /\ Goto(c, "stat")
    /\ UNCHANGED <<disk, fd, victim, status, removed, ioErrors, crashes>>

Stat(c) ==
    LET src == dir[call[c].msg][call[c].from] IN
    /\ pc[c] = "stat"
    /\ \/ src # None /\ Goto(c, "rename") /\ UNCHANGED <<call, fd, status, ioErrors>>
       \/ src = None /\ Error(c) /\ UNCHANGED ioErrors
       \/ IOError /\ Error(c)
    /\ UNCHANGED <<disk, victim, removed, crashes>>

(* A mistake: something that may fail comes after the rename. *)
MutRenameThenError(c) ==
    LET m == call[c].msg
        from == call[c].from
        to == call[c].to
    IN
    /\ pc[c] = "rename"
    /\ dir[m][from] # None
    /\ rename(m, from, to)
    /\ \/ Ok(c) /\ UNCHANGED ioErrors
       \/ IOError /\ Error(c)
    /\ UNCHANGED <<content, age, victim, removed, crashes>>

(* A mistake: files are copied on one device too. *)
MutRenameAlwaysCopies(c) ==
    /\ pc[c] = "rename"
    /\ Goto(c, "open")
    /\ UNCHANGED <<disk, call, fd, status, victim, removed, ioErrors, crashes>>

(* A mistake: between devices the source is removed before the copy. *)
MutRenameRemovesFirst(c) ==
    LET m == call[c].msg
        from == call[c].from
        to == call[c].to
    IN
    /\ pc[c] = "rename"
    /\ dir[m][from] # None
    /\ \/ Device[from] = Device[to] /\ rename(m, from, to) /\ Ok(c)
       \/ /\ Device[from] # Device[to]
          /\ unlink(m, from)
          /\ Goto(c, "open")
          /\ UNCHANGED <<call, fd, status>>
    /\ UNCHANGED <<content, age, victim, removed, ioErrors, crashes>>

(* os.Rename; EXDEV leads to copyFile, any other error is returned. *)
Rename(c) ==
    LET m == call[c].msg
        from == call[c].from
        to == call[c].to
    IN
    /\ pc[c] = "rename"
    /\ \/ /\ dir[m][from] # None /\ Device[from] = Device[to]
          /\ rename(m, from, to)
          /\ Ok(c)
          /\ UNCHANGED ioErrors
       \/ /\ dir[m][from] # None /\ Device[from] # Device[to]
          /\ Goto(c, "open")
          /\ UNCHANGED <<dir, call, fd, status, ioErrors>>
       \/ dir[m][from] = None /\ Error(c) /\ UNCHANGED <<dir, ioErrors>>
       \/ IOError /\ Error(c) /\ UNCHANGED dir
    /\ UNCHANGED <<content, age, victim, removed, crashes>>

(* copyFile: open the source ... *)
OpenSrc(c) ==
    LET src == dir[call[c].msg][call[c].from] IN
    /\ pc[c] = "open"
    /\ \/ /\ src # None
          /\ fd' = [fd EXCEPT ![c].src = src]
          /\ Goto(c, "openDst")
          /\ UNCHANGED <<call, status, ioErrors>>
       \/ src = None /\ Error(c) /\ UNCHANGED ioErrors
       \/ IOError /\ Error(c)
    /\ UNCHANGED <<disk, victim, removed, crashes>>

(* ... then create or truncate the destination, whether or not the source  *)
(* still has its name.                                                     *)
OpenDst(c) ==
    LET m == call[c].msg
        old == dir[m][call[c].to]
    IN
    /\ pc[c] = "openDst"
    /\ \/ /\ \E i \in IF old = None THEN Free ELSE {old} :
                /\ dir' = [dir EXCEPT ![m][call[c].to] = i]
                /\ content' = [content EXCEPT ![i] = "partial"]
                /\ age' = [age EXCEPT ![i] = 0]
                /\ fd' = [fd EXCEPT ![c].dst = i]
          /\ Goto(c, "copy")
          /\ UNCHANGED <<call, status, ioErrors>>
       \/ IOError /\ Error(c) /\ UNCHANGED disk
    /\ UNCHANGED <<victim, removed, crashes>>

(* io.Copy: what the source holds by now; an error leaves a part of it. *)
Copy(c) ==
    /\ pc[c] = "copy"
    /\ \/ /\ content' = [content EXCEPT ![fd[c].dst] =
                IF content[fd[c].src] = "partial" THEN "partial" ELSE "full"]
          /\ age' = [age EXCEPT ![fd[c].dst] = 0]
          /\ Goto(c, "syncCopy")
          /\ UNCHANGED <<call, fd, status, ioErrors>>
       \/ IOError /\ Error(c) /\ UNCHANGED <<content, age>>
    /\ UNCHANGED <<dir, victim, removed, crashes>>

(* A mistake: the copy is not synced. *)
MutSyncCopyForgotten(c) ==
    /\ pc[c] = "syncCopy"
    /\ Goto(c, "removeSrc")
    /\ UNCHANGED <<disk, call, fd, status, victim, removed, ioErrors, crashes>>

SyncCopy(c) ==
    /\ pc[c] = "syncCopy"
    /\ \/ /\ content' = [content EXCEPT ![fd[c].dst] = IF @ = "full" THEN "synced" ELSE @]
          /\ Goto(c, "removeSrc")
          /\ UNCHANGED <<call, fd, status, ioErrors>>
       \/ IOError /\ Error(c) /\ UNCHANGED content
    /\ UNCHANGED <<dir, age, victim, removed, crashes>>

(* os.Remove of the source; its error becomes the error of the whole call. *)
RemoveSrc(c) ==
    LET m == call[c].msg
        from == call[c].from
    IN
    /\ pc[c] = "removeSrc"
    /\ \/ dir[m][from] # None /\ unlink(m, from) /\ Ok(c) /\ UNCHANGED ioErrors
       \/ dir[m][from] = None /\ Error(c) /\ UNCHANGED <<dir, ioErrors>>
       \/ IOError /\ Error(c) /\ UNCHANGED dir
    /\ UNCHANGED <<content, age, victim, removed, crashes>>

-----------------------------------------------------------------------------
(* Delete, Cleanup, time, crashes *)

Delete(m, s) ==
    /\ dir[m][s] # None
    /\ unlink(m, s)
    /\ removed' = removed \union {m}
    /\ UNCHANGED <<content, age, pc, call, fd, victim, status, ioErrors, crashes>>

(* A mistake: a file is removed when it reaches the retention of its stage. *)
MutCleanupInspectAtRetention(m, s) ==
    /\ victim = None
    /\ Retention[s] > 0
    /\ dir[m][s] # None
    /\ age[dir[m][s]] >= Retention[s]
    /\ victim' = <<m, s>>
    /\ UNCHANGED <<disk, pc, call, fd, status, removed, ioErrors, crashes>>

(* Cleanup finds a file older than the retention of its stage ... *)
CleanupInspect(m, s) ==
    /\ victim = None
    /\ Retention[s] > 0
    /\ dir[m][s] # None
    /\ age[dir[m][s]] > Retention[s]
    /\ victim' = <<m, s>>
    /\ UNCHANGED <<disk, pc, call, fd, status, removed, ioErrors, crashes>>

(* ... and removes whatever has that name by then; a failure is logged. *)
CleanupRemove ==
    /\ victim # None
    /\ \/ /\ dir[victim[1]][victim[2]] # None
          /\ unlink(victim[1], victim[2])
          /\ removed' = removed \union {victim[1]}
          /\ UNCHANGED ioErrors
       \/ dir[victim[1]][victim[2]] = None /\ UNCHANGED <<dir, removed, ioErrors>>
       \/ IOError /\ UNCHANGED <<dir, removed>>
    /\ victim' = None
    /\ UNCHANGED <<content, age, pc, call, fd, status, crashes>>

(* A unit of time passes. *)
Tick ==
    /\ \E m \in Msgs, n \in Names : dir[m][n] # None /\ age[dir[m][n]] < MaxAge
    /\ age' = [i \in Inodes |-> IF i \notin Free /\ age[i] < MaxAge THEN age[i] + 1 ELSE age[i]]
    /\ UNCHANGED <<dir, content, pc, call, fd, victim, status, removed, ioErrors, crashes>>

(* The process dies, or the machine does and some unsynced data with it.   *)
(* The program starts anew; nothing looks at what it left in tmp.          *)
Crash ==
    /\ crashes < MaxCrashes
    /\ crashes' = crashes + 1
    /\ \E torn \in SUBSET {i \in Inodes : content[i] = "full"} :
          content' = [i \in Inodes |-> IF i \in torn THEN "partial" ELSE content[i]]
    /\ pc' = [c \in Callers |-> "idle"]
    /\ call' = [c \in Callers |-> NoCall]
    /\ fd' = [c \in Callers |-> NoFd]
    /\ victim' = None
    /\ UNCHANGED <<dir, age, status, removed, ioErrors>>

Init ==
    /\ dir = [m \in Msgs |-> [n \in Names |-> None]]
    /\ content = [i \in Inodes |-> "partial"]
    /\ age = [i \in Inodes |-> 0]
    /\ pc = [c \in Callers |-> "idle"]
    /\ call = [c \in Callers |-> NoCall]
    /\ fd = [c \in Callers |-> NoFd]
    /\ victim = None
    /\ status = [m \in Msgs |-> "new"]
    /\ removed = {}
    /\ ioErrors = 0 /\ crashes = 0

CallerStep(c) ==
    \/ \E m \in Msgs : BeginWrite(c, m)
    \/ \E m \in Msgs, r \in Route : BeginMove(c, m, r[1], r[2])
    \/ Create(c) \/ Fill(c) \/ Sync(c) \/ Publish(c)
    \/ Stat(c) \/ Rename(c)
    \/ OpenSrc(c) \/ OpenDst(c) \/ Copy(c) \/ SyncCopy(c) \/ RemoveSrc(c)

Next ==
    \/ \E c \in Callers : CallerStep(c)
    \/ \E m \in Msgs, s \in Deletes : Delete(m, s)
    \/ \E m \in Msgs, s \in Visible : CleanupInspect(m, s)
    \/ CleanupRemove
    \/ Tick
    \/ Crash

Spec == Init /\ [][Next]_vars

-----------------------------------------------------------------------------
(* Properties *)

(* The stages that files reach by renaming alone, whatever is mounted      *)
(* where.                                                                  *)
RenamedInto == UNION {P \in SUBSET Visible :
    /\ "incoming" \in P => Device["tmp"] = Device["incoming"]
    /\ \A r \in Route : r[2] \in P => r[1] \in P /\ Device[r[1]] = Device[r[2]]}

(* Whatever a reader finds in those stages is a whole message, at any      *)
(* moment and after any crash: Write prepares the file in tmp and syncs it *)
(* before the first rename.                                                *)
VisibleIsComplete ==
    \A m \in Msgs, s \in RenamedInto : dir[m][s] # None => content[dir[m][s]] # "partial"

(* Cleanup tells a file's age first and removes by name later, when the    *)
(* name may be another file's: what has the name in those stages by then   *)
(* is too old all the same, as no message comes back to a stage it has     *)
(* left.  (A copy may, and starts at age 0.)                               *)
CleanupTakesOld ==
    \A m \in Msgs, s \in RenamedInto :
        victim = <<m, s>> /\ dir[m][s] # None => age[dir[m][s]] > Retention[s]

(* The layouts in which Write's last step is a rename: the default, where  *)
(* the stages are directories of one base path, is one of them.            *)
WriteIsRename == Device["tmp"] = Device["incoming"]

(* Those in which a message that was copied to another device goes no      *)
(* further, and could not have gone elsewhere.                             *)
CopiesAreLast ==
    \A q, r \in Route : Device[q[1]] # Device[q[2]] => r[1] # q[2] /\ (r[1] = q[1] => r = q)

(* An acknowledged message is never lost: unless Cleanup or Delete took    *)
(* it, a complete and durable copy is in some stage.                       *)
AckedIsKept ==
    \A m \in Msgs : status[m] = "acked" /\ m \notin removed =>
        \E s \in Visible : dir[m][s] # None /\ content[dir[m][s]] = "synced"

(* A message whose Write returned an error (the client is told 451 and     *)
(* will send it again) is not in the pipeline.                             *)
FailedIsInvisible ==
    \A m \in Msgs : status[m] = "failed" => \A s \in Visible : dir[m][s] = None

(* The stages that a message in stage s may come to, s included. *)
Below(s) == {t \in Visible : \A D \in SUBSET Visible :
    s \in D /\ (\A r \in Route : r[1] \in D => r[2] \in D) => t \in D}

(* A message is in two stages at once only if Move copied it from one      *)
(* device to another and has not removed the source: because it is still   *)
(* at it, or it failed or was interrupted, after which source and copy may *)
(* each be moved on.  On one device no message is ever in two stages.      *)
OneStage ==
    \A m \in Msgs, s, t \in Visible :
        s # t /\ dir[m][s] # None /\ dir[m][t] # None =>
            \E r \in Route :
                /\ Device[r[1]] # Device[r[2]]
                /\ {s, t} \subseteq Below(r[1]) /\ {s, t} \intersect Below(r[2]) # {}

(* Where AtomicSpool sees a message: a copy does not count while the file  *)
(* it was made from is there.                                              *)
Place(m) ==
    LET in == {s \in Visible : dir[m][s] # None} IN
    IF in # {} THEN CHOOSE s \in in : \A r \in Route : r[2] = s => r[1] \notin in
    ELSE IF m \in removed THEN "gone" ELSE "nowhere"

(* The stages that a Move has m open for, to copy it there. *)
Copying(m) == {call[c].to : c \in {b \in Callers : pc[b] = "openDst" /\ call[b].msg = m}}

Atomic == INSTANCE AtomicSpool WITH
    Copied <- {r \in Route : Device[r[1]] # Device[r[2]]},
    place <- [m \in Msgs |-> Place(m)],
    copying <- [m \in Msgs |-> Copying(m)]

(* The spool is atomic: messages appear in incoming, advance along the     *)
(* pipeline's routes and leave in single steps, and come back only where a *)
(* Move to another device had the file open when Cleanup or Delete took    *)
(* it, whatever calls, errors and crashes of Write, Move, Delete and       *)
(* Cleanup interleave, in the layouts WriteIsRename and CopiesAreLast      *)
(* describe.                                                               *)
AtomicSpoolSpec == Atomic!Spec
=============================================================================
