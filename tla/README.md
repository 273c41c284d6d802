# A verification project for submitter-smtp-daemon

TLA+ modules that model the control of the daemon, TLC configurations that
check them on small instances, and TLAPS proofs of all safety
properties these check, for every size of the instance. Paths below are relative to the
root of the repository.

## 1. The system

The daemon accepts mail from authenticated clients and is meant to deliver it.

| Part | Source | State it keeps | Operations | What is hard about it |
|---|---|---|---|---|
| SMTP sessions | `internal/smtpserver` | per session: authenticated, sender, recipients | NewSession, Auth (PLAIN, LOGIN), Mail, Rcpt, Data, Reset, Logout | any order of commands; sessions of one user run concurrently and share counters |
| Authentication | `internal/auth` | users in Redis, an allowlist of networks | Authenticate, IsAllowed, administration | Redis may fail |
| Rate limiter | `internal/ratelimit` | counters in Redis that expire, local buckets, number of open sessions | CheckIPConnection, CheckIPFailedAuth, CheckUserMessages, CheckUserRecipients, CheckGlobalMessages, cleanup | read, compare and add are separate commands; Redis outages; expiry |
| Spool | `internal/spool` | one directory per stage, one file per message | Write, Read, Move, Delete, List, Cleanup | system calls of several callers interleave with cleanup, I/O errors and crashes; stages may be on different devices |
| Delivery queue | `internal/queue`, `internal/db` | SQLite tables `messages`, `delivery_queue` | AddMessage, EnqueueDelivery, GetPendingDeliveries, UpdateDeliveryState | polled by many workers, rows are not claimed |
| Delivery workers | `internal/delivery` | batches in memory, `stopChan` | Start, Stop, the polling loop, one SMTP dialogue per delivery | races between workers, lost replies, silent MXs, crashes between sending and recording |
| Deduplication | `internal/dedup` | hashes in Redis, which expire | Check, Delete, Stats | GET and SET are separate commands; crashes between them |
| Event log | `internal/clickhouse` | a buffer of events | LogEvent, flush, Close | flushes run concurrently; Close waits a fixed time |
| TLS manager | `internal/tlsmgr` | map from domain to certificate | New, load, watch, GetCertificate, Reload, Close | files change while they are read; two loads may overlap |
| Configuration | `internal/config` | the settings | Load: defaults, file, environment, Validate | what passes Validate and is used without a look |
| Wiring | `cmd/outbound/main.go` | stop channels, goroutines of helpers and servers | start-up, shutdown | order of start-up; errors that are only logged; a shutdown that must end |
| Parser, database, metrics, logger | `internal/parser`, `db`, `metrics`, `logger` | none that other parts' control depends on | | |

How they interact: a session asks the limiter (NewSession, AUTH, MAIL, DATA),
the authenticator (AUTH) and hands the content to the spool (DATA); the spool's
cleanup and the limiter's cleanup run beside the sessions. Workers poll the
queue, read the message from the spool, talk to the MX and write the outcome to
the queue.

State of the repository at this commit: it is work in progress. It does not compile as
it is (`internal/delivery/worker.go:119` passes five arguments to a function
of six, `worker.go:201` declares an unused variable, `cmd/outbound/main.go:72`
calls `tlsmgr.New` with another signature, and `StartWatcher` and `CertCount`
of lines 76 and 80 do not exist), and `main.go` starts sessions,
spool, limiter, authentication and TLS, but no queue, workers, deduplication,
parser or event log. The modules model each component as its source reads,
with the obvious intent where the compiler would object (line 119 is a call
that marks the delivery as failed; `StartWatcher` is a call that starts the
watcher or fails, while `TlsManager` models the watcher that `New` starts).

## 2. The modules

| Module | Models | Kind |
|---|---|---|
| `DeliveryLifecycle` | what the README promises of a delivery | abstract specification |
| `Delivery` | `internal/queue/queue.go` (table `delivery_queue`) and `internal/delivery/worker.go` | detailed specification |
| `MCDelivery` | instances of `Delivery` | model checking |
| `AtomicSpool` | "atomic file-based message spooling" | abstract specification: one place per message, and whether it is open to be copied |
| `Spool` | `internal/spool/spool.go` over a POSIX file system | detailed specification |
| `MCSpool` | an instance of `Spool` | model checking |
| `Admission` | `NewSession`/`Logout` and `Limiter`: open sessions, rates, fallback | detailed specification |
| `MCAdmission` | an instance of `Admission` | model checking |
| `Submission` | `session.go`: AUTH, MAIL, RCPT, DATA, and the limits they share | detailed specification |
| `Pipeline` | what `worker.go` reads of the spool, `Cleanup` and retries | composition: its actions are those of `AtomicSpool` and `DeliveryLifecycle`, constrained |
| `EventLog` | `internal/clickhouse/client.go` | detailed specification |
| `TlsManager` | `internal/tlsmgr/manager.go` | detailed specification |
| `Dedup` | `internal/dedup/dedup.go` | detailed specification |
| `Daemon` | `cmd/outbound/main.go` and `internal/config/config.go` | detailed specification |
| `MCPipeline`, `MCEventLog`, `MCTlsManager`, `MCDedup`, `MCDaemon` | an instance of each | model checking |
| `DeliveryProofs`, `SpoolProofs`, `AdmissionProofs`, `SubmissionProofs`, `PipelineProofs`, `EventLogProofs`, `DedupProofs`, `DaemonProofs` | theorems about the module each is named after, `DaemonProofs` also about `TlsManager` | TLAPS proofs |

Operators whose names begin with `Mut` are mistakes a programmer could make in
the definition below them. None of them is used by a specification; each is
there to show that a property would notice.

### Delivery

`rows[d]` is the row of a delivery: state, attempts, and `wait`, which is
`next_attempt` minus the present time. A worker (`pc[w]`) polls a batch
(`Poll`: every answer `ORDER BY next_attempt LIMIT n` may give), keeps the
items in `batch[w]`, attempts the first (`Attempt`: spool, DNS and SMTP dialogue
in one step, the outcome chosen among `Replies`), and records the outcome
(`Record`, whose decision is `processDelivery` with the three
`updateDelivery...` functions). The steps between which other workers, `Crash`,
failing statements (`PollFails`, `RecordFails`), `Stop` and time (`Tick`) come
are exactly the points where the code holds nothing: there is no claim and no
transaction over a poll and an update. `copies` is a ghost that counts how often
an MX took the message.

### Spool

Names refer to inodes, as in the file system: rename and unlink change names,
an open file keeps its inode, rename fails across devices. Each system call of
`Write`, `Move` and `copyFile` is an action, and each may fail; `copyFile` opens its
source (`OpenSrc`) and its destination (`OpenDst`) in two steps, and the source may
lose its name between them. `Cleanup` looks
at a file in one step (`CleanupInspect`) and removes what has that name in
another (`CleanupRemove`). A crash loses any data that was not synced; names
are assumed to survive in order, as on a journalling file system, because the
code syncs no directory (a hazard listed in PROJECT.json). One mover per
message is assumed; nothing in the repository calls `Move` but `Write` itself.

`RenamedInto` are the stages that files reach by renames alone, all the way
from `tmp`; `VisibleIsComplete` is about these and holds for every assignment of
stages to devices, and so does `OneStage`, which says when two files exist: a
copy whose source is still there, and what became of the two when each was
moved on. `FailedIsInvisible` and `AckedIsKept` are about layouts in which `tmp`
and `incoming` share a device (`WriteIsRename`), as in the default, where all stages are
directories of one base path; otherwise a `Write` that fails in its copy leaves a
part in `incoming`. The refinement of `AtomicSpool` holds across devices too when
a message that has a file in two stages counts as being in the earlier one
(`Place`): it leaves that stage in the step in which the copy is complete and its
source is removed. One thing `AtomicSpool` has to admit: a message that `Cleanup` or
`Delete` removes while `copyFile` has its file open, and before the destination is
created, is gone and then comes back in the destination stage. `copying` says for
which messages this is possible (`Open`, `Close`), and all others that are gone stay gone; where
no route leads to another device (`Copied` is empty) none comes back. The refinement needs `CopiesAreLast` as well: a copied message that may be moved
on while its source is still there is in two places by any account.

`CleanupTakesOld` is about the two steps of `Cleanup`: what has the name when it is
removed is too old even if it is not the file that was looked at. It holds in the
stages of `RenamedInto`; a copy that arrives under the name starts at age 0 and may be removed.

### Admission

A connection goes from `none` to `checked` (counter compared, lock released),
to `allowed` (rate granted by Redis or by the local bucket) to `open`
(counted), and back. `redis` is the counter of one key with its time to live,
`bucket` the local one. `half` is a pipeline of which only INCR was executed.
The same counter-and-bucket pair serves logins and messages with other keys,
limits and windows.

### Submission

Sessions of one user, with the SASL exchanges step by step, transactions, and
`CheckUserRecipients` split at its Redis commands (`DataGet`, `DataCount`),
because sessions come between them. The reading of the content and the
`spool.Write` are steps that succeed or fail; `Spool` has the detail. Counters
may expire at any time.

### Pipeline

Composes the two abstract specifications (the spool's with all stages on one device): every step on the spool is a step of
`AtomicSpool` and every step on a row one of `DeliveryLifecycle`, which
`Spool` and (for one worker) `Delivery` are shown to implement. Added are the
three reads of `processDelivery`, each a step (`Read`), between which a
message may move, and each of which may fail on a file that is there (`ReadThen`: the
worker takes any error for a missing file; the ghost `unread` remembers it); the age of a file, which a rename leaves as it is, and
`Cleanup` going by it; and the retry schedule. The pipeline that moves
messages and enqueues deliveries does not exist in the repository: it is
external and may act at any time, but a delivery is enqueued at most `MaxLag`
after `Write`. `MaxLate` bounds how long after it is due an attempt ends.

### EventLog

`buffer` is appended to (`LogEvent`) and taken (`Flush`) under the mutex, so
these are steps; a batch that was taken is written event by event
(`WriteEvent`) outside of it. The goroutine of `LogEvent(e)` is named `e`. The
worker's `select` is `WorkerTick` or `WorkerStop`, whichever is ready.
`Close` closes the channel, stops the ticker and returns after a time in which
the worker may or may not have run; `Exit` may follow.

### TlsManager

A load reads the directory (`ReadDir`), and each file three times (`ReadCert`,
`ReadKey`, `ReadNames`), then replaces the map (`Install`) if it found anything.
`New`'s load and the watcher's are one after the other in `step["watcher"]`;
`Reload` runs beside them. Files may be replaced, half written or removed
between any two steps. The ghosts `unnoticed` and `overtaken` mark the two
ways in which a running manager is left with old certificates.

### Dedup

`Check` is `Begin`, `Get`, `Set`, `Return`. A command that fails may have been
executed. Keys go by expiry or `Delete`. A message may be checked again. SHA-256 is
taken to be injective.

### Daemon

A configuration is a function from settings to values, a file or an
environment a function on some of the settings, and loading is their overlay.
`main` is a sequence of steps (`pc`), each of which may go on, refuse, end
fatally or panic as the code does; beside it run the goroutines of the
listeners (`Listen`), of the health server and of the helpers. A listener has an IP, a
port and a mode. `main` starts one server after the other (`StartServer`) and does
not wait for them; `Listen` fails when the address overlaps that of a server
that is up (`Overlap`: same port, and same IP or one of the two stands for all
IPs, as for IPv4), and may fail for any other reason the system has (another process, a
privileged port, an IP of another host); a server that is up may fail as well
(`AcceptFails`). A signal before
`signal.Notify` kills the process, a later one is received by `main`. The
SMTP servers are never stopped by `main`, so `server` does not change during
the shutdown. `asked` is a ghost for what the operator asked for, stated
without reference to the order in which the code applies it.

## 3. Runs

| Run | Instance | Checks | Shows |
|---|---|---|---|
| `DeliveryPool` | 2 workers, 2 deliveries, 2 attempts, 1 crash, 1 failing statement | `TypeOK`, `NoFalseSuccess`, `SnapshotIsVersion`, `AttemptsBounded`, `StaleOverwriteOnly` | races cost repeated attempts and reopened rows, never an invented success; the attempts column tells every stale write apart |
| `DeliverySingle` | 1 worker, all replies and faults, delays 1 and 2 | `DuplicatesOnlyFromFaults`, `LifecycleSpec` | without a second worker the queue is what the README describes |
| `DeliveryLive` | 2 workers, 2 deliveries, batches of 2, silent MXs | `EventuallySettled`, `StopDrains` | deliveries settle for good and the pool drains |
| `DeliveryPermFail` | 2 workers, 1 delivery | `PermFailIsFinal` violated | a slow worker reopens a failed delivery |
| `SpoolDevices` | 1 message, 2 callers, 3 inodes, the last stage apart, 2 I/O errors, 1 crash | `TypeOK`, `VisibleIsComplete`, `AckedIsKept`, `FailedIsInvisible`, `CleanupTakesOld`, `OneStage`, `AtomicSpoolSpec` | the spool is durable and cleans up what is old; copying never loses an acknowledged message, and the spool is atomic but for a message that is removed while it is copied |
| `AdmissionLimits` | 5 connections, limits 2 and 2, window 3, outages | `TypeOK`, `CounterIsExact`, `OvershootBounded`, `SlidingWindowKept`, `FallbackBounded`, `QuietIsAdmitted` | by how much each limit can be exceeded, and that the counter never leaks |
| `SubmissionLimits` | 2 sessions (one allowlisted), null and other senders, 1 Redis error | `AcceptedIsEntitled`, `RecipientsBounded` | nothing is accepted without entitlement; the recipients' limit holds up to race and outage |
| `Pipeline` | 1 message, 8 stages, 4 attempts, delays 1 and 2, 1 crash, failing reads | `UnmovedIsFound`, `KeptForRetries`, `SpoolDrains` | a message is missed only when it moves under the reader or a read fails; how long files must be kept; nothing stays for ever |
| `EventLog` | 3 events, buffer of 2 | `ExactlyOnce`, `FullIsBeingFlushed`, `LeftoverIsLate`, `EarlyIsWritten` | concurrent flushes neither lose nor double events; what `Close` leaves |
| `TlsManager` | 2 files, 3 certificates for 2 names, 2 changes, 1 `Reload` | `HandshakesSucceed`, `StaleIsTransient`, `HotReload` | which races leave old certificates in use, and that no others do |
| `Dedup` | 3 callers, 3 messages, 2 bodies, 1 failure, 1 lapse, 1 crash | `DuplicateHasOriginal`, `UniqueBounded` | how many copies the GET/SET race lets through; nothing is dropped in favour of nothing |
| `Daemon` | 2 settings in the file, 1 in the environment, 7 lists of listeners, 2 signals | `NothingServesMisconfigured`, `ListenersServed`, `ShutdownEnds` | start-up and shutdown from any configuration |

Bounds, and why they are enough. Two workers are enough for every race of the
queue that concerns one stale item; `AttemptsBounded` is reached exactly in this
instance (5 attempts where 2 are permitted), and is proved for every other. Two attempts are the least for
which a retry and a last attempt differ. `MaxLate` only bounds how
long ago a due row is told to have become due. In the spool, two callers,
two errors and one crash put faults between any two system calls of two
interleaved calls on a message, and the instance has both kinds of move, a
rename (`tmp` to `incoming` to `parsed`) and a copy (`parsed` to `signed`);
three inodes are as many as two overlapping calls use. In `Admission` the
bounds `OvershootBounded` and `FallbackBounded` are both reached, and so is
Redis's limit on top of the latter: together nearly three budgets in one
window. In `Pipeline` messages do not influence each other, so one is enough;
the retention of the instance is exactly `LongestDelivery`, and removing files one
tick earlier violates `KeptForRetries`. In `EventLog` three events are one
more than the buffer holds, so that two flushes overlap with an append. In
`TlsManager` two of the certificates share a key, so that a file replaced
between two reads can yield a certificate under the other's names, and two
changes let a second change overtake the load of the first. In `Dedup` three
callers reach the bound of `UniqueBounded`. In `Daemon` two settings are as many as any check
of `Validate` or step of `main` relates, and the lists of listeners have two with one
address, two IPs on one port, and an IP beside all IPs. In `DeliveryLive` an MX may
fall silent while its worker has the other delivery in its batch; statements do not fail there
(a failed one leaves the row as it was, and they fail in the safety runs). `MaxInFlight`, `MaxCount`, `MaxAttempts` of
`Submission`, `MaxAge`, and the bounds on faults, changes and signals cap counters;
they appear in guards under these names. Workers, deliveries, callers, inodes,
connections and the two equal messages of `Dedup` are interchangeable, and
symmetry is used in the runs that check safety only.

Each module has a type invariant `TypeOK` (`TlsTypeOK` in `TlsManager`). It is part of the inductive invariant
of every module that is proved about; `DeliveryPool`, `SpoolDevices` and
`AdmissionLimits` check it as well.

Deadlock is checked in every run but `TlsManager`: there the files stop
changing, nobody has to call `Reload` or `Close`, and a manager with nothing
to do is a state in which the system may stay.

Fairness. Everywhere, goroutines that can run do run (weak fairness of
their steps) and time passes; nothing is assumed of clients, MXs,
administrators, signals or the external pipeline.

* `DeliveryLive`: besides, a `select` whose stop case is ready again and again
  takes it at some point (`WorkerExit`: strong fairness, because Go's `select`
  chooses at random while the ticker may be ready as well). `hang` is an
  outcome after which a worker takes no step, as `deliver()` has no deadline;
  this is why both properties speak of the workers that are left.
* `EventLog`: the flushing goroutines and the worker run; nobody has to
  call `Close`.
* `TlsManager`: loads go on and the watcher takes events; files need not change.
* `Daemon`: `main`, the listeners' goroutines and the timer of `shutdownCtx`
  go on; a request to the health server need not end.
* `Pipeline`: worker, clock and `Cleanup` go on, and the UPDATE of a delivery
  that is attempted again and again succeeds at some point (strong
  fairness of `Record`: a busy database is a passing condition). Nobody has to
  move or enqueue a message.

## 4. Theorems

`TLAPS` checks the proofs of eight modules, one per component and one for the
composition. They hold for every value of the constants, under the named
`ASSUME`s of the modules: a non-empty retry schedule, at least one attempt,
limits and windows of at least one, finite sets of connections, sessions and
callers, a pipeline in which every stage is entered from one other and `incoming`
from none, and bounds that are numbers. TLC evaluates all of them on the
instances of section 3. What a theorem assumes beyond that stands in its statement.

Each safety theorem has the same form: an invariant that implies the property, its
proof for `Init`, its proof for `[Next]_vars` with one step per action, and
the temporal conclusion. What follows is the part that is not routine, the
invariant.

### `DeliveryProofs` (any number of workers and deliveries)

* `TypeCorrect`: `TypeOK` is inductive by itself; it carries the link
  between a worker's position and its batch that the other proofs need.
* `AttemptsAreVersions` (`SnapshotIsVersion`), from `VersionInv`: types, the fact
  that rows not yet inserted have no attempts, and the property itself. An
  update raises the count of its row, so it makes every other item for that
  row strictly older; a poll copies the count of a row that is pending and due;
  time only makes rows more due.
* `OnlyStaleOverwrites` (`StaleOverwriteOnly`), an action property from
  `VersionInv`: an item that is not older than its row belongs to a pending row,
  so a settled row can only be met by an older item.
* `SuccessIsReal` (`NoFalseSuccess`), from `SuccessInv`, which adds
  `AcceptedCounted`: a worker about to record an acceptance has an item whose
  copy was counted. Without it the step from attempt to record is not inductive.
* `SingleWorkerRefinesLifecycle` (`LifecycleSpec`), for a pool of one. `SingleInv`
  adds to `VersionInv` that every item in the worker's batch still has the
  count of its row (`ExactItems`) and that no delivery is twice in a batch
  (`DistinctItems`; otherwise the first item's update would make the second one
  stale). Every step then maps to a step of `DeliveryLifecycle` or to a stutter.
* `SecondCopiesAreFaults` (`DuplicatesOnlyFromFaults`), for a pool of one.
  `CopiesInv` adds to `SingleInv` that a delivery that is neither delivered nor
  about to be recorded as such has no more copies than there were faults: the
  one copy without a fault is the one that ends the attempts.
* `OvershootIsBounded` (`AttemptsBounded`), for any finite pool that is not empty. No
  invariant about single workers is enough, since one stale item reopens a row for all
  the others. `BudgetInv` is a potential: once a delivery has come to its last
  attempt, the attempts it has used and the records still possible (`Left`) stay
  below the limit. The `Reopeners` are the workers whose item is old enough for
  `updateDeliveryTempFail` to write `temp_fail`; while the row is pending each other
  worker may record once, then one of the `k` reopeners reopens it and is none
  afterwards, because an item it reads later is not old enough. Adding this up
  gives the triangular number in the bound.

### `SpoolProofs` (any messages, callers, inodes, pipelines and layouts)

* `TypeCorrect`, `VisibleStaysComplete`, `CleanupTakesOldOnly` and `StaysInOneStage` hold for every
  assignment of stages to devices. `SpoolInv` consists of `CallsInv` (where a caller is says
  what it does: a copier works across devices, a message has one writer and one
  mover) and `FilesInv` (`SettledIsSynced`: a file in `tmp` or in a stage reached by
  renaming is synced; `CopiesElsewhere`: no copier writes to it; `WriterOK`: until
  its last step `Write` has one name, in `tmp`; `HolderOK`: who has a message open to copy it
  found a file, so its `Write` is past these steps, even if the file is gone by now).
  `StaysInOneStage` adds where the other files of a message that is open may be
  (`HolderStages`), since its own source may be gone when the copy is created.
* `CleanupTakesOldOnly` (`CleanupTakesOld`), from `OneSettled` (a message has one file among `tmp` and
  the stages reached by renaming) and `VictimIsOld`: not only the file with the victim's name is too
  old, but every file of that message that could be renamed to it, and none is being written.
* `FailedStaysInvisible` assumes `WriteIsRename` (`tmp` and `incoming` on one
  device). `Hidden` says that only acknowledged messages are in a stage.
* `AckedStaysKept` assumes `WriteIsRename`. A mover must not remove the last whole
  file, and a second mover, `Cleanup` or a crash may come in between. `KeptInv` says that a copier's
  target has no other name (`CopyIsTarget`), that past the sync its copy is as good
  as its source (`MoverOK`), and that some stage holds the whole message while
  every stage upstream of it is empty (`Kept`): only a mover out of that stage can take it
  from there, and that one has synced its copy.
* `SpoolIsAtomic` (`AtomicSpoolSpec`) assumes `WriteIsRename` and `CopiesAreLast` (a
  copied message is not moved further). All invariants above but `VictimIsOld` are used, and
  `RemovedWasAcked`; each step is mapped by what it does to the names of one message.

The proofs go over what a system call does to the files (`StepCases`), so that
each invariant is shown for a dozen effects and not for every action again.

### `AdmissionProofs` (any finite set of connections, limits, windows, faults)

* `TypeCorrect`, `CounterStaysExact` (`CounterIsExact`) and
  `OvershootStaysBounded` (`OvershootBounded`), from `CounterInv`: open sessions and
  running calls of `NewSession` together are within the limit and what may overlap.
* `QuietStaysAdmitted` (`QuietIsAdmitted`), an action property, from
  `ClocksAgree`: what a key or a bucket has left and the silence since it was last touched fit
  into one window.
* `SlidingWindowStaysKept` (`SlidingWindowKept`), from `RedisInv`: the count covers the
  admissions within the window and does not expire before the last of them is a window old.
* `FallbackStaysBounded` (`FallbackBounded`), from `BucketInv`: the admissions of
  the last bucket and of this one are apart, and the one that opened the last
  bucket has left the window when this one is opened.

  The number of admissions is the cardinality of a set of pairs (age, number), so that a tick
  is an injection and an admission adds one element.

### `SubmissionProofs` (any finite set of sessions, any limits)

* `OnlyEntitledAccepted` (`AcceptedIsEntitled`), from `Entitlement`: recipients are listed
  only after `MAIL` and by an authenticated session, and `Data` runs only with recipients.
* `RecipientsStayBounded` (`RecipientsBounded`), from `RecipientsInv`: every session
  between its GET and its INCRBY has a share of the room reserved, and the counter is behind
  by no more than the commands that failed.

### `PipelineProofs` (any messages, stages, schedule, retention)

* `UnmovedIsAlwaysFound` (`UnmovedIsFound`), from `SearchOK`: a file that has not moved
  since the search began, and that no read failed on, is in none of the stages already read.
* `FilesKeptForRetries` (`KeptForRetries`), from `OnTime`: a pending delivery is due no
  later than `Due[attempts]` after `Write`. That `Due` grows with the attempts is
  shown for every schedule by way of a least counterexample (`LeastNumber`), since the
  induction rules of the library cannot be instantiated.

### `EventLogProofs` (any events, any size of the buffer)

* `EventsKeptOnce` (`ExactlyOnce`), from `PlaceInv`: a logged event is once in the
  buffer, in one batch or in the output. `FullBufferIsTaken` (`FullIsBeingFlushed`) needs the
  types only. `LeftoversAreLate` (`LeftoverIsLate`), from `WorkerInv`: after the final flush
  took the buffer, only events logged after `Close` are in it.

### `DedupProofs` (any messages and bodies, any finite set of callers)

* `DuplicatesAreBacked` (`DuplicateHasOriginal`), from `StoredHasOriginal`: what is stored under
  a key is a message with that body that got through, or whose check a crash cut off.
* `RaceLetsFewThrough` (`UniqueBounded`), from `ClaimedIsStored`: a GET between
  the first SET and the expiry finds the key, so no caller is added to the race.

### `DaemonProofs` (any listeners, file, environment, directory, certificates)

* `TypeCorrect` and `MisconfiguredNeverServes` (`NothingServesMisconfigured`), from `DaemonInv`:
  how far `main` is says what is known of the configuration (`MainOK`), and no server is
  started before `main` has come to the listeners (`ServersOK`). `LoadsWhatWasAsked` shows for every file and
  environment that the order of the overlays is what the operator means by them (`Asked`).

* `HandshakesAlwaysSucceed` (`HandshakesSucceed`) about `TlsManager`, from `Stocked`:
  from the end of `New`'s load on the map is not empty, since a load that finds
  nothing replaces nothing.
* `StaleStaysTransient` (`StaleIsTransient`), from `UpToDate`: as long as nothing has changed
  since the latest load began, that load has found what the files read so far
  hold (`Accurate`), or it has been installed and an older load still
  running is marked as `behind`. That the last of several files for a name counts is
  carried along file by file (`FileDone`), so that no induction over the directory
  is needed. `TlsManager` has names of its own for its specification (`TlsSpec`) so
  that one module can extend it and `Daemon`.

### Only model-checked

* Liveness under fairness (`EventuallySettled`, `StopDrains`, `EarlyIsWritten`,
  `HotReload`, `ListenersServed`, `ShutdownEnds`, `SpoolDrains`), out of the prover's reach.
* `PermFailIsFinal`, which is false.

## 5. What was found

One run shows that the code differs from what the README says:
`DeliveryPermFail`, quoted in PROJECT.json (a worker with an old item turns
`perm_fail` back into `temp_fail`). The passing runs give the extent of others
as tight bounds or as the exceptions they name:

* a delivery can have more than `max_attempts` attempts (`AttemptsBounded`);
* more sessions than the global limit can be open (`OvershootBounded`);
* a user can exceed the recipients' limit with concurrent sessions, or when
  Redis fails, since `CheckUserRecipients` has no fallback (`RecipientsBounded`);
* a key whose EXPIRE was lost keeps a client out after any silence (the
  exception in `QuietIsAdmitted`);
* the worker looks for a message in `signed`, `modified` and `parsed`, later
  stages first, so a message that moves on meanwhile is missed, and
  `filtered` is not looked into at all; and any error of a read, a passing one too, counts as
  "not there" and ends in `perm_fail` (the exceptions in `UnmovedIsFound`);
* a message that `Cleanup` or `Delete` removes while a `Move` to another device has it
  open comes back in the next stage (`AtomicSpoolSpec`);
* files must be kept for `LongestDelivery` in every stage they pass, because
  their age counts from `Write`. `RetentionConfig` "defines how long to keep
  messages in each stage" (`config.go:126`), and its defaults are 1 h for the stages
  a message is read from, while the default retries take 13 h 21 min
  before the last attempt: a delivery that fails for an hour is given up;
* certificates changed between the first load and the watch, or removed, or
  reloaded by an overlapping `Reload`, stay in use until the next change
  (`Unmended`);
* copies of a message checked at the same time all get through, up to the
  number of callers (`UniqueBounded`), and a message whose check was cut off by a crash is
  a duplicate of itself when it is checked again (`DuplicateHasOriginal`);
* an empty `redis.addresses` and a negative `redis.pool_size` pass `Validate` and panic
  (`NewRedis`); listeners whose addresses overlap pass too, and one of them is served,
  in the mode of whichever goroutine came first (the exception in `ListenersServed`).

Seen while modelling, without a run of their own:

* README.md:355 lists "Permanent failure detection (5xx SMTP codes)", but every
  error path of `deliver()` returns code 0, so a 5xx refusal is retried like
  any other;
* README.md:394 describes "Failed auth attempts per hour", but `CheckIPFailedAuth`
  counts before the password is looked at, so right passwords use it up;
* README.md:393 describes "Connections per minute", but every request, refused
  ones included, renews the expiry of the counter, so a steady client below
  the limit is refused in the end;
* `spool.go:94` says "Write writes a message atomically to the spool", but with `tmp`
  on another device `Write` copies straight to `incoming`, and a copy that fails
  leaves a part there;
* README.md:666 shows `/readyz` reporting on Redis, ClickHouse and the
  database; the handler looks only at the number of certificates;
* the options `require_tls` and `require_auth` of a listener are read by nobody;
* the schema declares indexes inside `CREATE TABLE`, which SQLite does not accept, and
  `PRAGMA foreign_keys` is set on one connection of the pool.

Also: no statement writes the state
`delivering`; `MAIL FROM:<>` is accepted and every `RCPT` after it refused with
"MAIL command required first", since an empty sender stands for none;
an acknowledged message leaves `incoming` only by age in the daemon as wired;
the envelope is not stored with the message; `extractIP` gives every IPv6
client the empty address.

## 6. Not modelled

Parser, database set-up, metrics and logging hold no control that the
properties depend on: the parser is a pure function nobody calls, the
database module opens a file and runs a schema, and metrics and log lines are
written and never read. Passwords, network matching, DNS, SMTP replies and
message contents are data and are abstracted to their verdicts. The table
`messages` and the statistics of the queue are written or read by no modelled
control. The HTTP handlers of `main.go` only answer. go-smtp, Redis, SQLite,
fsnotify and the file system are external and modelled by how the code uses
them.

## 7. Plan

Done in this order: `Delivery` with its abstract specification and proofs (the
races of the queue are the heart of the system), `Spool`, `Admission`,
`Submission`, then `EventLog`, `TlsManager`, `Dedup`, `Daemon` and the composition
`Pipeline`; then the proofs of section 4, from the smallest module (`Dedup`) to
the refinement of `AtomicSpool`. What is left:

1. `Spool`: a layout with copies that are moved on, and what can be promised of it;
   `AckedIsKept` where `Write` itself copies.
2. The table `messages`, when something in the daemon begins to use it.
