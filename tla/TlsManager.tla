----------------------------- MODULE TlsManager -----------------------------
(***************************************************************************)
(* The certificate manager (internal/tlsmgr/manager.go): New loads the     *)
(* certificates of a directory and watches it, every write or create of a  *)
(* .pem file loads all of them again, and handshakes look certificates up  *)
(* by server name.                                                         *)
(*                                                                         *)
(* Loading reads the directory, then every file three times: for the       *)
(* certificate, for the key and for the names in it.  Files may change     *)
(* between any two reads, so each read is a step.  Files change by being   *)
(* written, renamed into place or removed; fsnotify, which is external,    *)
(* queues an event for each change after watcher.Add, in order, and loses  *)
(* none.  Reading itself is taken not to fail: a file that cannot be read  *)
(* is one that holds no certificate.                                       *)
(***************************************************************************)
EXTENDS Naturals, Sequences

CONSTANTS
    Files,        \* the .pem files, in the order of os.ReadDir
    Domains,      \* server names
    Certs,        \* certificates with their keys: what a file may hold
    Covers,       \* Covers[v]: the names in certificate v
    Key,          \* Key[v]: its key pair; a renewal may keep it
    Broken,       \* the content of a file that is not (yet) a certificate
    None,         \* no file, no certificate
    MaxChanges,   \* bound: changes of files
    MaxReloads    \* bound: calls of Reload

ASSUME CoversAssumption == Covers \in [Certs -> SUBSET Domains]
ASSUME KeyAssumption == DOMAIN Key = Certs
ASSUME ContentAssumption == Broken \notin Certs /\ None \notin Certs /\ Broken # None
ASSUME TlsBoundsAssumption == MaxChanges \in Nat /\ MaxReloads \in Nat

FileNames == {Files[i] : i \in DOMAIN Files}

ASSUME FilesAssumption == Files \in Seq(FileNames)

(* The goroutines that load: New's and then the watcher's, and Reload's. *)
Loaders == {"watcher", "reload"}
Other(l) == IF l = "watcher" THEN "reload" ELSE "watcher"

NoCerts == [d \in Domains |-> None]

VARIABLES
    disk,       \* disk[f]: what file f holds
    up,         \* loading, adding (the watch), running, failed, closed
    events,     \* how many wait in watcher.Events
    certs,      \* m.certs; None where there is no entry
    step,       \* step[l]: idle, or the next read of loadCertificates
    todo,       \* todo[l]: directory entries not yet done with, by position in Files
    newCerts,   \* newCerts[l]
    cert,       \* cert[l]: the certificate of the current file
    changes, reloads,
    unnoticed,  \* ghost: a file changed without an event since a load began
    behind,     \* behind[l], ghost: a load that began later has been installed
    first,      \* ghost: the loader that began first, when both are loading
    overtaken   \* ghost: an older load was installed over a newer one

memory == <<certs, step, todo, newCerts, cert>>
ghosts == <<unnoticed, behind, first, overtaken>>
tlsVars == <<disk, up, events, memory, changes, reloads, ghosts>>

(* One type invariant. *)
TlsTypeOK ==
    /\ disk \in [FileNames -> Certs \union {Broken, None}]
    /\ up \in {"loading", "adding", "running", "failed", "closed"}
    /\ events \in Nat /\ changes \in 0..MaxChanges /\ reloads \in 0..MaxReloads
    /\ certs \in [Domains -> Certs \union {None}]
    /\ step \in [Loaders -> {"idle", "readdir", "cert", "key", "names", "install"}]
    /\ todo \in [Loaders -> SUBSET DOMAIN Files]
    /\ newCerts \in [Loaders -> [Domains -> Certs \union {None}]]
    /\ cert \in [Loaders -> Certs \union {None}]
    /\ unnoticed \in BOOLEAN /\ overtaken \in BOOLEAN
    /\ behind \in [Loaders -> BOOLEAN] /\ first \in Loaders \union {None}
    \* a loader has a file at hand while it reads it, and a certificate after the first read
    /\ \A l \in Loaders :
          /\ step[l] \in {"cert", "key", "names"} <=> todo[l] # {}
          /\ step[l] \in {"key", "names"} <=> cert[l] # None

-----------------------------------------------------------------------------
(* loadCertificates *)

BeginLoad(l) == step' = [step EXCEPT ![l] = "readdir"]

Entries == {i \in DOMAIN Files : disk[Files[i]] # None}

(* os.ReadDir. *)
ReadDir(l) ==
    /\ step[l] = "readdir"
    /\ todo' = [todo EXCEPT ![l] = Entries]
    /\ newCerts' = [newCerts EXCEPT ![l] = NoCerts]
    /\ step' = [step EXCEPT ![l] = IF Entries = {} THEN "install" ELSE "cert"]
    /\ unnoticed' = FALSE
    /\ behind' = [behind EXCEPT ![l] = FALSE]
    /\ first' = IF step[Other(l)] \in {"idle", "readdir"} THEN l ELSE Other(l)
    /\ UNCHANGED <<disk, up, events, certs, cert, changes, reloads, overtaken>>

(* The entry at hand, and what its file holds at the moment. *)
Current(l) == CHOOSE i \in todo[l] : \A j \in todo[l] : i <= j
Now(l) == disk[Files[Current(l)]]

(* The loop goes on with the next file. *)
NextFile(l) ==
    /\ todo' = [todo EXCEPT ![l] = @ \ {Current(l)}]
    /\ cert' = [cert EXCEPT ![l] = None]
    /\ step' = [step EXCEPT ![l] = IF todo[l] = {Current(l)} THEN "install" ELSE "cert"]

(* The first of the two reads of tls.LoadX509KeyPair. *)
ReadCert(l) ==
    /\ step[l] = "cert"
    /\ \/ /\ Now(l) \in Certs
          /\ cert' = [cert EXCEPT ![l] = Now(l)]
          /\ step' = [step EXCEPT ![l] = "key"]
          /\ UNCHANGED todo
       \/ Now(l) \notin Certs /\ NextFile(l)
    /\ UNCHANGED <<disk, up, events, certs, newCerts, changes, reloads, ghosts>>

(* The second one; the key must belong to the certificate. *)
ReadKey(l) ==
    /\ step[l] = "key"
    /\ IF Now(l) \in Certs /\ Key[Now(l)] = Key[cert[l]]
       THEN step' = [step EXCEPT ![l] = "names"] /\ UNCHANGED <<todo, cert>>
       ELSE NextFile(l)
    /\ UNCHANGED <<disk, up, events, certs, newCerts, changes, reloads, ghosts>>

(* extractDomainsFromCert reads the file once more, and what it finds is   *)
(* where the certificate read before is registered.                        *)
ReadNames(l) ==
    /\ step[l] = "names"
    /\ newCerts' = [newCerts EXCEPT ![l] =
          [d \in Domains |-> IF Now(l) \in Certs /\ d \in Covers[Now(l)] THEN cert[l] ELSE @[d]]]
    /\ NextFile(l)
    /\ UNCHANGED <<disk, up, events, certs, changes, reloads, ghosts>>

(* The end of New's load: the manager goes on to watcher.Add or fails. *)
EndOfNew(l, result) ==
    up' = IF l = "watcher" /\ up = "loading" THEN result ELSE up

(* A mistake: an empty result replaces the certificates too. *)
MutInstallEmpty(l) ==
    /\ step[l] = "install"
    /\ certs' = newCerts[l]
    /\ EndOfNew(l, IF newCerts[l] = NoCerts THEN "failed" ELSE "adding")
    /\ step' = [step EXCEPT ![l] = "idle"]
    /\ UNCHANGED <<disk, events, todo, newCerts, cert, changes, reloads, ghosts>>

(* The map is replaced as a whole, unless no certificate was found. *)
Install(l) ==
    /\ step[l] = "install"
    /\ \/ /\ newCerts[l] # NoCerts
          /\ certs' = newCerts[l]
          /\ overtaken' = behind[l]
          /\ behind' = [behind EXCEPT ![Other(l)] =
                            @ \/ (step[Other(l)] # "idle" /\ first = Other(l))]
          /\ EndOfNew(l, "adding")
       \/ /\ newCerts[l] = NoCerts
          /\ EndOfNew(l, "failed")
          /\ UNCHANGED <<certs, overtaken, behind>>
    /\ step' = [step EXCEPT ![l] = "idle"]
    /\ first' = IF step[Other(l)] = "idle" THEN None ELSE Other(l)
    /\ UNCHANGED <<disk, events, todo, newCerts, cert, changes, reloads, unnoticed>>

LoadStep(l) == ReadDir(l) \/ ReadCert(l) \/ ReadKey(l) \/ ReadNames(l) \/ Install(l)

-----------------------------------------------------------------------------
(* New, watchCertificates, Reload, Close *)

(* watcher.Add, which may fail, and the start of the watching goroutine.   *)
(* It comes after the first load.                                          *)
AddWatch ==
    /\ up = "adding"
    /\ up' \in {"running", "failed"}
    /\ UNCHANGED <<disk, events, memory, changes, reloads, ghosts>>

(* A mistake: the watcher takes its events and loads nothing. *)
MutWatchDropsEvent ==
    /\ up = "running" /\ step["watcher"] = "idle"
    /\ events > 0
    /\ events' = events - 1
    /\ UNCHANGED <<disk, up, memory, changes, reloads, ghosts>>

(* An event for a .pem file; the watcher does nothing else until the load  *)
(* has ended.                                                              *)
WatchEvent ==
    /\ up \in {"running", "closed"} /\ step["watcher"] = "idle"
    /\ events > 0
    /\ events' = events - 1
    /\ BeginLoad("watcher")
    /\ UNCHANGED <<disk, up, certs, todo, newCerts, cert, changes, reloads, ghosts>>

Reload ==
    /\ up \in {"running", "closed"} /\ step["reload"] = "idle"
    /\ reloads < MaxReloads
    /\ reloads' = reloads + 1
    /\ BeginLoad("reload")
    /\ UNCHANGED <<disk, up, events, certs, todo, newCerts, cert, changes, ghosts>>

(* stopCh is closed and the watch ended.  A load that has begun is         *)
(* finished, and the watcher's select may still pick some of the events    *)
(* that wait before it picks stopCh.                                       *)
Close ==
    /\ up = "running"
    /\ up' = "closed"
    /\ events' \in 0..events
    /\ UNCHANGED <<disk, memory, changes, reloads, ghosts>>

(* The certificates a handshake for this server name may be given: the one *)
(* registered for it, or else any (the first of a range over a map).       *)
GetCertificate(sni) ==
    {v \in Certs : \E d \in Domains : certs[d] = v /\ (certs[sni] # None => d = sni)}

-----------------------------------------------------------------------------
(* The administrator *)

ChangeFile(f, c) ==
    /\ changes < MaxChanges
    /\ changes' = changes + 1
    /\ disk' = [disk EXCEPT ![f] = c]
    /\ UNCHANGED <<up, memory, reloads, behind, first, overtaken>>

(* A file is created, overwritten or renamed into place; while it is being *)
(* written it holds nothing useful.                                        *)
PutFile(f, c) ==
    /\ c # disk[f]
    /\ ChangeFile(f, c)
    /\ events' = IF up = "running" THEN events + 1 ELSE events
    /\ unnoticed' = (unnoticed \/ up # "running")

(* The watcher has no case for removals. *)
RemoveFile(f) ==
    /\ disk[f] # None
    /\ ChangeFile(f, None)
    /\ unnoticed' = TRUE
    /\ UNCHANGED events

TlsInit ==
    /\ disk \in [FileNames -> Certs \union {Broken, None}]
    /\ up = "loading"
    /\ events = 0
    /\ certs = NoCerts
    /\ step = [l \in Loaders |-> IF l = "watcher" THEN "readdir" ELSE "idle"]
    /\ todo = [l \in Loaders |-> {}]
    /\ newCerts = [l \in Loaders |-> NoCerts]
    /\ cert = [l \in Loaders |-> None]
    /\ changes = 0 /\ reloads = 0
    /\ unnoticed = FALSE /\ overtaken = FALSE
    /\ behind = [l \in Loaders |-> FALSE]
    /\ first = None

TlsNext ==
    \/ \E l \in Loaders : LoadStep(l)
    \/ AddWatch \/ WatchEvent \/ Reload \/ Close
    \/ \E f \in FileNames, c \in Certs \union {Broken} : PutFile(f, c)
    \/ \E f \in FileNames : RemoveFile(f)

(* Goroutines that can run do run; files need not change, and nobody has   *)
(* to call Reload or Close.                                                *)
TlsFairness ==
    /\ \A l \in Loaders : WF_tlsVars(LoadStep(l))
    /\ WF_tlsVars(AddWatch) /\ WF_tlsVars(WatchEvent)

TlsSpec == TlsInit /\ [][TlsNext]_tlsVars /\ TlsFairness

-----------------------------------------------------------------------------
(* Properties *)

(* Once New has succeeded every handshake is given a certificate, whatever *)
(* becomes of the files: a load that finds none leaves the old ones.       *)
HandshakesSucceed ==
    up \in {"running", "closed"} => \A sni \in Domains : GetCertificate(sni) # {}

(* What an undisturbed load of the present files would install: of several *)
(* files with a name the last one counts.                                  *)
OnDisk ==
    [d \in Domains |->
        LET with == {i \in DOMAIN Files : /\ disk[Files[i]] \in Certs
                                          /\ d \in Covers[disk[Files[i]]]}
        IN IF with = {} THEN None
           ELSE disk[Files[CHOOSE i \in with : \A j \in with : j <= i]]]

Fresh == OnDisk # NoCerts => certs = OnDisk

(* The three ways to be out of date with nothing under way to mend it: a   *)
(* change without an event (before the watch was added, or a removal), a   *)
(* call of Reload that overlaps a newer load, and Close.                   *)
Unmended == unnoticed \/ overtaken \/ up = "closed"

(* The certificates are out of date only while a load is running or an     *)
(* event is waiting; in particular a certificate that was registered for   *)
(* the names of its successor, because the file was replaced between two   *)
(* reads, is about to be replaced itself.                                  *)
StaleIsTransient ==
    up = "running" /\ ~Fresh =>
        Unmended \/ events > 0 \/ \E l \in Loaders : step[l] # "idle"

(* When files stop changing the certificates on disk come to be served     *)
(* without a restart.                                                      *)
HotReload == <>[](Fresh \/ Unmended \/ up = "failed")
=============================================================================
