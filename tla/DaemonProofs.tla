---------------------------- MODULE DaemonProofs ----------------------------
(***************************************************************************)
(* Proofs about module Daemon, for any lists of listeners, any file and    *)
(* any environment, however many settings they give; and about TlsManager, *)
(* the part of the daemon that outlives its start-up, for any directory    *)
(* and any certificates.                                                   *)
(***************************************************************************)
EXTENDS Daemon, TlsManager, WellFoundedInduction, TLAPS

USE DEF inputs, http

-----------------------------------------------------------------------------
(* Configuration *)

(* A file or an environment that gives values of Of(s) only. *)
Sound(g, Of(_)) == DOMAIN g \subseteq Settings /\ \A s \in DOMAIN g : g[s] \in Of(s)

LEMMA FileIsSound ==
    ASSUME NEW f \in Given(Values, MaxInFile) PROVE Sound(f, Values)
BY DEF Given, Sound

LEMMA EnvIsSound ==
    ASSUME NEW e \in Given(EnvValues, MaxInEnv) PROVE Sound(e, EnvValues)
BY DEF Given, Sound

(* A variable has a value of the setting, or one that is ignored. *)
LEMMA EnvValue ==
    ASSUME NEW s \in Settings, NEW v \in EnvValues(s)
    PROVE  v \in Values(s) <=> v # "not a number"
BY DEF EnvValues, Values, Settings, Plain

LEMMA DefaultValue ==
    /\ DOMAIN DefaultConfig = Settings
    /\ \A s \in Settings : DefaultConfig[s] \in Values(s)
BY ListenersAssumption DEF DefaultConfig, Values, Settings, Plain

(* Load makes what the operator asked for: a variable counts before the    *)
(* file, the file before the defaults, and every setting gets a value.     *)
LEMMA LoadsWhatWasAsked ==
    ASSUME NEW f, NEW e, Sound(f, Values), Sound(e, EnvValues)
    PROVE  /\ DOMAIN applyEnvOverrides(f, e) = Settings
           /\ \A s \in Settings : /\ applyEnvOverrides(f, e)[s] = Asked(f, e, s)
                                  /\ Asked(f, e, s) \in Values(s)
<1> DEFINE used == {s \in DOMAIN e : e[s] # "not a number"}
           u == [s \in used |-> e[s]]
           c == Over(f, DefaultConfig)
<1>1. DOMAIN c = Settings
  BY DefaultValue DEF Over, Sound
<1>2. \A s \in Settings : c[s] = IF s \in DOMAIN f THEN f[s] ELSE DefaultConfig[s]
  BY DefaultValue DEF Over, Sound
<1>3. applyEnvOverrides(f, e) = Over(u, c)
  BY DEF applyEnvOverrides
<1>4. DOMAIN u = used /\ used \subseteq Settings
  BY DEF Sound
<1> HIDE DEF c
<1>5. DOMAIN Over(u, c) = Settings
  BY <1>1, <1>4 DEF Over
<1>6. ASSUME NEW s \in Settings
      PROVE  Over(u, c)[s] = Asked(f, e, s) /\ Asked(f, e, s) \in Values(s)
  <2>1. Over(u, c)[s] = IF s \in used THEN e[s] ELSE c[s]
    BY <1>1, <1>4 DEF Over
  <2>2. s \in DOMAIN e => (e[s] \in Values(s) <=> e[s] # "not a number")
    BY EnvValue DEF Sound
  <2>3. s \in DOMAIN f => f[s] \in Values(s)
    BY DEF Sound
  <2> QED
    BY <1>2, <2>1, <2>2, <2>3, DefaultValue DEF Asked
<1> QED
  BY <1>3, <1>5, <1>6

-----------------------------------------------------------------------------
(* The invariant *)

(* Where main is when the configuration is loaded, when the Redis client   *)
(* is made, when all parts but the servers are, and when servers run.      *)
AfterListen == {"notify", "wait", "stop", "shutdown", "close", "exit", "exited"}
AfterIPAuth == {"health", "listen"} \union AfterListen
AfterRedis == {"tls", "watch", "spool", "limiter", "ipauth", "fatal"} \union AfterIPAuth
AfterLoad == {"redis", "panic"} \union AfterRedis

(* Until it is loaded, the configuration is still to be made from these. *)
InputsOK ==
    /\ \A s \in Settings : asked[s] \in Values(s)
    /\ pc = "load" => /\ Sound(file, Values)
                      /\ Sound(env, EnvValues)
                      /\ asked = [s \in Settings |-> Asked(file, env, s)]

(* What is loaded is what was asked for, and is valid. *)
Loaded == Validate(cfg) /\ \A s \in Settings : cfg[s] = asked[s]

(* Nothing that main looks at and Validate does not is missing. *)
RedisGiven == cfg["redis_addresses"] # "bad" /\ cfg["redis_pool_size"] # "bad"
Complete == RedisGiven /\ cfg["ip_allowlist"] # "bad"

(* How far main has come says what is known of the configuration. *)
MainOK ==
    /\ pc \in AfterLoad => Loaded
    /\ pc \in AfterRedis => RedisGiven
    /\ pc \in AfterIPAuth => Complete

(* Servers were started by main, on that configuration. *)
ServersOK ==
    \A i \in 1..MaxListeners :
        server[i] # "off" => /\ Loaded /\ Complete
                             /\ pc \in {"listen", "killed"} \union AfterListen

DaemonInv == TypeOK /\ InputsOK /\ MainOK /\ ServersOK

LEMMA InitOK == Init => DaemonInv
<1> SUFFICES ASSUME Init PROVE DaemonInv
  OBVIOUS
<1>1. TypeOK
  <2>1. 0 \in 0..MaxSignals
    BY DaemonBoundsAssumption
  <2> QED
    BY <2>1, DefaultValue DEF Init, TypeOK
<1>2. InputsOK
  <2>1. Sound(file, Values) /\ Sound(env, EnvValues)
    BY FileIsSound, EnvIsSound DEF Init
  <2> QED
    BY <2>1, LoadsWhatWasAsked DEF Init, InputsOK
<1>3. MainOK /\ ServersOK
  BY DEF Init, MainOK, ServersOK, AfterLoad, AfterRedis, AfterIPAuth, AfterListen
<1> QED
  BY <1>1, <1>2, <1>3 DEF DaemonInv

-----------------------------------------------------------------------------
(* The steps *)

(* A step of main or of a helper that touches neither the configuration    *)
(* nor the servers keeps the invariant when what is known of the           *)
(* configuration fits where main has come.                                 *)
LEMMA ConfigKept ==
    ASSUME DaemonInv, UNCHANGED <<inputs, cfg, server>>, TypeOK', pc' = "load" => pc = "load",
           pc' \in AfterLoad => pc \in AfterLoad,
           pc' \in AfterRedis => RedisGiven,
           pc' \in AfterIPAuth => Complete,
           pc \in {"listen", "killed"} \union AfterListen =>
               pc' \in {"listen", "killed"} \union AfterListen
    PROVE  DaemonInv'
<1>1. (Loaded' <=> Loaded) /\ (Complete' <=> Complete) /\ (RedisGiven' <=> RedisGiven)
  BY DEF Loaded, Complete, RedisGiven, Validate
<1>2. InputsOK'
  BY DEF DaemonInv, InputsOK
<1>3. MainOK'
  BY <1>1 DEF DaemonInv, MainOK
<1>4. ServersOK'
  BY <1>1 DEF DaemonInv, ServersOK
<1> QED
  BY <1>2, <1>3, <1>4 DEF DaemonInv

LEMMA LoadOK == ASSUME DaemonInv, Load PROVE DaemonInv'
<1>1. /\ DOMAIN cfg' = Settings
      /\ \A s \in Settings : cfg'[s] = asked[s] /\ asked[s] \in Values(s)
  BY LoadsWhatWasAsked DEF DaemonInv, InputsOK, Load
<1>2. \A i \in 1..MaxListeners : server[i] = "off"
  BY DEF DaemonInv, ServersOK, Load, AfterListen
<1>3. TypeOK'
  BY <1>1 DEF DaemonInv, TypeOK, Load, Ended
<1>4. InputsOK'
  BY DEF DaemonInv, InputsOK, Load
<1>5. MainOK'
  <2>1. pc' = "redis" => Loaded'
    BY <1>1 DEF Load, Loaded
  <2>2. pc' \in {"redis", "refused"}
    BY DEF Load
  <2> QED
    BY <2>1, <2>2 DEF MainOK, AfterLoad, AfterRedis, AfterIPAuth, AfterListen
<1>6. ServersOK'
  BY <1>2 DEF ServersOK, Load
<1> QED
  BY <1>3, <1>4, <1>5, <1>6 DEF DaemonInv

(* The parts that main builds before the servers, one after the other. *)
LEMMA BuildOK ==
    ASSUME DaemonInv,
           LoadFails \/ NewRedis \/ NewTls \/ StartWatcher \/ NewSpool \/ NewLimiter
           \/ NewIPAuth \/ StartHealth \/ Notify
    PROVE  DaemonInv'
<1>1. UNCHANGED <<inputs, cfg, server, stops, pending, signals, expired>>
  BY DEF LoadFails, NewRedis, NewTls, StartWatcher, NewSpool, NewLimiter, NewIPAuth,
         StartHealth, Notify, Continue
<1>2. \/ pc' = "refused" /\ pc = "load"
      \/ pc = "redis" /\ (pc' = "panic" \/ (pc' = "tls" /\ RedisGiven))
      \/ pc = "tls" /\ pc' \in {"watch", "fatal"}
      \/ pc = "watch" /\ pc' = "spool"
      \/ pc = "spool" /\ pc' \in {"limiter", "fatal"}
      \/ pc = "limiter" /\ pc' = "ipauth"
      \/ pc = "ipauth" /\ pc' = IF cfg["ip_allowlist"] = "bad" THEN "fatal" ELSE "health"
      \/ pc = "health" /\ pc' = "listen"
      \/ pc = "notify" /\ pc' = "wait"
  BY DEF LoadFails, NewRedis, NewTls, StartWatcher, NewSpool, NewLimiter, NewIPAuth,
         StartHealth, Notify, Continue, RedisGiven
<1>3. /\ helper' \in [Helpers -> {"off", "running", "stopped"}]
      /\ \A h \in Helpers : helper'[h] = "stopped" => helper[h] = "stopped"
  BY DEF LoadFails, NewRedis, NewTls, StartWatcher, NewSpool, NewLimiter, NewIPAuth,
         StartHealth, Notify, StartHelper, DaemonInv, TypeOK
<1>4. health' \in {"off", "starting", "serving", "failed", "closed"} /\ busy' \in BOOLEAN
  BY DEF LoadFails, NewRedis, NewTls, StartWatcher, NewSpool, NewLimiter, NewIPAuth,
         StartHealth, Notify, DaemonInv, TypeOK
<1>5. TypeOK'
  BY <1>1, <1>2, <1>3, <1>4 DEF DaemonInv, TypeOK, Ended
<1>6. MainOK
  BY DEF DaemonInv
<1> QED
  BY <1>1, <1>2, <1>5, <1>6, ConfigKept
     DEF MainOK, Complete, AfterLoad, AfterRedis, AfterIPAuth, AfterListen

(* Signals, shutdown, the helpers and the health server. *)
LEMMA RunOK ==
    ASSUME DaemonInv,
           Shutdown \/ Signal \/ Timeout \/ HealthListen \/ HealthRequest \/ HealthAnswer
           \/ \E h \in Helpers : HelperStops(h)
    PROVE  DaemonInv'
<1>1. UNCHANGED <<inputs, cfg, server>>
  BY DEF Shutdown, ReceiveSignal, StopHelpers, ShutdownHealth, ShutdownReturns, CloseRedis,
         Exit, Continue, Signal, Timeout, HealthListen, HealthRequest, HealthAnswer, HelperStops
<1>2. \/ pc' = pc
      \/ pc' = "killed"
      \/ pc \in AfterListen /\ pc' \in AfterListen
  BY DEF Shutdown, ReceiveSignal, StopHelpers, ShutdownHealth, ShutdownReturns, CloseRedis,
         Exit, Continue, Signal, Timeout, HealthListen, HealthRequest, HealthAnswer, HelperStops,
         AfterListen
<1>3. /\ stops' \in SUBSET Helpers
      /\ helper' \in [Helpers -> {"off", "running", "stopped"}]
      /\ \A h \in Helpers : helper'[h] = "stopped" => h \in stops'
  BY DEF Shutdown, ReceiveSignal, StopHelpers, ShutdownHealth, ShutdownReturns, CloseRedis,
         Exit, Continue, Signal, Timeout, HealthListen, HealthRequest, HealthAnswer, HelperStops,
         DaemonInv, TypeOK
<1>4. /\ health' \in {"off", "starting", "serving", "failed", "closed"} /\ busy' \in BOOLEAN
      /\ pending' \in BOOLEAN /\ expired' \in BOOLEAN
  BY DEF Shutdown, ReceiveSignal, StopHelpers, ShutdownHealth, ShutdownReturns, CloseRedis,
         Exit, Continue, Signal, Timeout, HealthListen, HealthRequest, HealthAnswer, HelperStops,
         DaemonInv, TypeOK
<1>5. signals' \in 0..MaxSignals
  <2>1. CASE signals' = signals
    BY <2>1 DEF DaemonInv, TypeOK
  <2>2. CASE Signal
    BY <2>2, DaemonBoundsAssumption DEF Signal, DaemonInv, TypeOK
  <2> QED
    BY <2>1, <2>2
       DEF Shutdown, ReceiveSignal, StopHelpers, ShutdownHealth, ShutdownReturns, CloseRedis,
           Exit, Continue, Timeout, HealthListen, HealthRequest, HealthAnswer, HelperStops
<1>6. TypeOK'
  BY <1>1, <1>2, <1>3, <1>4, <1>5 DEF DaemonInv, TypeOK, Ended, AfterListen
<1>7. MainOK
  BY DEF DaemonInv
<1> QED
  BY <1>1, <1>2, <1>6, <1>7, ConfigKept
     DEF MainOK, AfterLoad, AfterRedis, AfterIPAuth, AfterListen

(* main starts a goroutine for a listener. *)
LEMMA StartServerOK ==
    ASSUME DaemonInv, NEW i \in 1..MaxListeners, StartServer(i)
    PROVE  DaemonInv'
<1>1. /\ server' = [server EXCEPT ![i] = "starting"]
      /\ pc = "listen" /\ pc' \in {"listen", "notify"}
      /\ UNCHANGED <<inputs, cfg, helper, stops, http, pending, signals, expired>>
  BY DEF StartServer, LoopAt, GoServe
<1>2. (Loaded' <=> Loaded) /\ (Complete' <=> Complete) /\ (RedisGiven' <=> RedisGiven)
  BY <1>1 DEF Loaded, Complete, RedisGiven, Validate
<1>3. Loaded /\ Complete /\ RedisGiven
  BY <1>1 DEF DaemonInv, MainOK, AfterLoad, AfterRedis, AfterIPAuth
<1>4. TypeOK'
  BY <1>1 DEF DaemonInv, TypeOK, Ended
<1>5. InputsOK'
  BY <1>1 DEF DaemonInv, InputsOK
<1>6. MainOK'
  BY <1>1, <1>2, <1>3 DEF MainOK
<1>7. ServersOK'
  BY <1>1, <1>2, <1>3 DEF ServersOK, AfterListen
<1> QED
  BY <1>4, <1>5, <1>6, <1>7 DEF DaemonInv

(* The goroutine gets its address or does not, or fails later. *)
LEMMA ServeOK ==
    ASSUME DaemonInv, NEW i \in 1..MaxListeners, Listen(i) \/ AcceptFails(i)
    PROVE  DaemonInv'
<1>1. PICK s \in {"serving", "taken", "failed"} : server[i] # "off" /\ ServerBecomes(i, s)
  BY DEF Listen, AcceptFails
<1>2. /\ server' = [server EXCEPT ![i] = s]
      /\ UNCHANGED <<inputs, cfg, pc, helper, stops, http, pending, signals, expired>>
  BY <1>1 DEF ServerBecomes
<1>3. (Loaded' <=> Loaded) /\ (Complete' <=> Complete) /\ (RedisGiven' <=> RedisGiven)
  BY <1>2 DEF Loaded, Complete, RedisGiven, Validate
<1>4. TypeOK'
  BY <1>2 DEF DaemonInv, TypeOK
<1>5. InputsOK' /\ MainOK'
  BY <1>2, <1>3 DEF DaemonInv, InputsOK, MainOK
<1>6. ServersOK'
  BY <1>1, <1>2, <1>3 DEF DaemonInv, ServersOK, TypeOK
<1> QED
  BY <1>4, <1>5, <1>6 DEF DaemonInv

LEMMA StepOK == DaemonInv /\ [Next]_vars => DaemonInv'
<1> SUFFICES ASSUME DaemonInv, [Next]_vars PROVE DaemonInv'
  OBVIOUS
<1>1. CASE Startup
  BY <1>1, LoadOK, BuildOK, StartServerOK DEF Startup
<1>2. CASE LoadFails
  BY <1>2, BuildOK
<1>3. CASE \E i \in 1..MaxListeners : Listen(i) \/ AcceptFails(i)
  BY <1>3, ServeOK
<1>4. CASE Shutdown \/ Signal \/ Timeout \/ HealthListen \/ HealthRequest \/ HealthAnswer
           \/ \E h \in Helpers : HelperStops(h)
  BY <1>4, RunOK
<1>5. CASE UNCHANGED vars
  <2>1. TypeOK'
    BY <1>5 DEF vars, DaemonInv, TypeOK
  <2>2. MainOK
    BY DEF DaemonInv
  <2> QED
    BY <1>5, <2>1, <2>2, ConfigKept DEF vars, MainOK
<1> QED
  BY <1>1, <1>2, <1>3, <1>4, <1>5 DEF Next, Finished

LEMMA InvHolds == Spec => []DaemonInv
BY InitOK, StepOK, PTL DEF Spec

-----------------------------------------------------------------------------
(* The theorems *)

(* The state stays well formed: among others, every setting of the loaded  *)
(* configuration has one of its values, and no helper stops before its     *)
(* stop channel is closed.                                                 *)
THEOREM TypeCorrect == Spec => []TypeOK
BY InvHolds, PTL DEF DaemonInv

(* No server is started on a setting that is missing or out of range,      *)
(* whatever the file and the environment give: Load refuses it, or main    *)
(* ends before the loop over the listeners (Validate, applyEnvOverrides    *)
(* and main).                                                              *)
THEOREM MisconfiguredNeverServes == Spec => []NothingServesMisconfigured
<1>1. DaemonInv => NothingServesMisconfigured
  <2> SUFFICES ASSUME DaemonInv, NEW i \in 1..MaxListeners, server[i] # "off"
               PROVE  /\ \A s \in Plain : asked[s] = "bad" =>
                            s = "auth_redis_addresses" /\ asked["auth_redis_enabled"] = "false"
                      /\ asked["ip_allowlist"] # "bad"
    BY DEF NothingServesMisconfigured
  <2>1. Loaded /\ Complete
    BY DEF DaemonInv, ServersOK
  <2>2. \A s \in Settings : cfg[s] = asked[s]
    BY <2>1 DEF Loaded
  <2>3. cfg["auth_redis_enabled"] \in {"true", "false"}
    BY DEF DaemonInv, TypeOK, Values, Settings
  <2> QED
    BY <2>1, <2>2, <2>3 DEF Loaded, Complete, RedisGiven, Validate, Plain, Settings
<1> QED
  BY <1>1, InvHolds, PTL

-----------------------------------------------------------------------------
(* The certificate manager *)

(* From a successful New on there is a certificate. *)
Stocked == up \in {"adding", "running", "closed"} => certs # NoCerts

(* The files of S that hold a certificate for d. *)
Covering(S, d) == {i \in S : disk[Files[i]] \in Certs /\ d \in Covers[disk[Files[i]]]}

(* v is what the last of these files gives d. *)
IsLast(S, d, v) ==
    /\ Covering(S, d) = {} => v = None
    /\ \A i \in Covering(S, d) : (\A j \in Covering(S, d) : j <= i) => v = disk[Files[i]]

(* A load that has read the directory, and the files it is done with. *)
Loading(l) == step[l] \in {"cert", "key", "names", "install"}
Done(l) == Entries \ todo[l]

(* A load during which no file has changed: it has found, for every name,  *)
(* what the last of the files read so far gives it.                        *)
Accurate(l) ==
    /\ todo[l] \subseteq Entries
    /\ \A i \in Done(l), j \in todo[l] : i < j
    /\ \A d \in Domains : IsLast(Done(l), d, newCerts[l][d])
    /\ step[l] \in {"key", "names"} => cert[l] = Now(l)

(* No load that began later is running or was installed. *)
Newest(l) == Loading(l) /\ ~behind[l] /\ (Loading(Other(l)) => first = Other(l))

(* No change since the latest load began waits to be loaded or to be seen. *)
Noticed == ~unnoticed /\ events = 0 /\ step["watcher"] # "readdir" /\ up # "closed"

(* While nothing has changed either the newest load is about to install    *)
(* what is on disk, or that has been installed, and an older load that is  *)
(* still running will be known to have overtaken it.                       *)
UpToDate ==
    Noticed /\ OnDisk # NoCerts =>
        \/ \E l \in Loaders : Newest(l) /\ Accurate(l)
        \/ (certs = OnDisk \/ overtaken) /\ \A l \in Loaders : Loading(l) => behind[l]

TlsInv == TlsTypeOK /\ Stocked /\ UpToDate

(* A set of numbers has a least one. *)
LEMMA LeastNumber ==
    ASSUME NEW T \in SUBSET Nat, T # {}
    PROVE  \E x \in T : \A y \in T : x <= y
<1>1. PICK x \in T : \A y \in T : ~(<<y, x>> \in OpToRel(<, Nat))
  BY WFMin, NatLessThanWellFounded
<1>2. \A y \in T : ~(y < x)
  BY <1>1 DEF OpToRel
<1>3. \A y \in T : x \in Nat /\ y \in Nat
  OBVIOUS
<1> QED
  BY <1>2, <1>3

LEMMA Positions == Len(Files) \in Nat /\ DOMAIN Files = 1..Len(Files)
  BY FilesAssumption

(* Of any files there is a last one. *)
LEMMA GreatestPosition ==
    ASSUME NEW S \in SUBSET DOMAIN Files, S # {}
    PROVE  \E i \in S : \A j \in S : j <= i
<1> DEFINE T == {n \in Nat : \E i \in S : n = Len(Files) - i}
<1>1. \A i \in S : i \in Nat /\ Len(Files) - i \in T
  BY Positions
<1>2. PICK n \in T : \A k \in T : n <= k
  <2>1. T \in SUBSET Nat /\ T # {}
    BY <1>1
  <2> QED
    BY <2>1, LeastNumber
<1>3. PICK i \in S : n = Len(Files) - i
  BY <1>2
<1>4. ASSUME NEW j \in S PROVE j <= i
  <2>1. i \in Nat /\ j \in Nat /\ Len(Files) \in Nat
    BY <1>1, Positions
  <2>2. Len(Files) - i <= Len(Files) - j
    BY <1>1, <1>2, <1>3
  <2> QED
    BY <2>1, <2>2
<1> QED
  BY <1>4

(* The files are read in the order of the directory. *)
LEMMA CurrentIsLeast ==
    ASSUME TlsTypeOK, NEW l \in Loaders, todo[l] # {}
    PROVE  Current(l) \in todo[l] /\ \A j \in todo[l] : Current(l) <= j
<1>1. todo[l] \in SUBSET Nat
  BY Positions DEF TlsTypeOK
<1>2. \E i \in todo[l] : \A j \in todo[l] : i <= j
  BY <1>1, LeastNumber
<1> QED
  BY <1>2 DEF Current

LEMMA OtherLoader ==
    ASSUME NEW l \in Loaders
    PROVE  Other(l) \in Loaders /\ Other(l) # l /\ Loaders = {l, Other(l)}
  BY DEF Loaders, Other

(* Every step keeps the manager's state well formed. *)
LEMMA TlsTypeInductive == TlsTypeOK /\ [TlsNext]_tlsVars => TlsTypeOK'
<1> SUFFICES ASSUME TlsTypeOK, [TlsNext]_tlsVars PROVE TlsTypeOK'
  OBVIOUS
<1> USE DEF TlsTypeOK, memory, ghosts
<1>n. NoCerts \in [Domains -> Certs \union {None}]
  BY DEF NoCerts
<1>1. ASSUME NEW l \in Loaders, ReadDir(l) PROVE TlsTypeOK'
  <2>1. Entries \in SUBSET DOMAIN Files
    BY DEF Entries
  <2> QED
    BY <1>1, <1>n, <2>1, OtherLoader DEF ReadDir
<1>2. ASSUME NEW l \in Loaders, NextFile(l), step[l] \in {"cert", "key", "names"},
             newCerts' \in [Loaders -> [Domains -> Certs \union {None}]],
             UNCHANGED <<disk, up, events, certs, changes, reloads, ghosts>>
      PROVE  TlsTypeOK'
  <2>1. Current(l) \in todo[l]
    BY <1>2, CurrentIsLeast
  <2>2. todo' \in [Loaders -> SUBSET DOMAIN Files] /\ todo'[l] = todo[l] \ {Current(l)}
    BY <1>2 DEF NextFile
  <2>3. /\ step' \in [Loaders -> {"idle", "readdir", "cert", "key", "names", "install"}]
        /\ cert' \in [Loaders -> Certs \union {None}]
        /\ cert'[l] = None
        /\ step'[l] = IF todo'[l] = {} THEN "install" ELSE "cert"
        /\ \A k \in Loaders \ {l} : step'[k] = step[k] /\ cert'[k] = cert[k] /\ todo'[k] = todo[k]
    BY <1>2, <2>1, <2>2 DEF NextFile
  <2> QED
    BY <1>2, <2>2, <2>3
<1>3. ASSUME NEW l \in Loaders, ReadCert(l) PROVE TlsTypeOK'
  <2>1. CASE NextFile(l)
    BY <1>2, <1>3, <2>1 DEF ReadCert
  <2>2. CASE ~NextFile(l)
    <3>1. /\ Now(l) \in Certs /\ step[l] = "cert"
          /\ cert' = [cert EXCEPT ![l] = Now(l)] /\ step' = [step EXCEPT ![l] = "key"]
          /\ UNCHANGED <<todo, disk, up, events, certs, newCerts, changes, reloads, ghosts>>
      BY <1>3, <2>2 DEF ReadCert
    <3>2. /\ cert'[l] = Now(l) /\ Now(l) # None /\ step'[l] = "key"
          /\ \A k \in Loaders \ {l} : step'[k] = step[k] /\ cert'[k] = cert[k]
      BY <3>1, ContentAssumption
    <3> QED
      BY <3>1, <3>2
  <2> QED
    BY <2>1, <2>2
<1>4. ASSUME NEW l \in Loaders, ReadKey(l) PROVE TlsTypeOK'
  <2>1. CASE NextFile(l)
    BY <1>2, <1>4, <2>1 DEF ReadKey
  <2>2. CASE ~NextFile(l)
    BY <1>4, <2>2 DEF ReadKey
  <2> QED
    BY <2>1, <2>2
<1>5. ASSUME NEW l \in Loaders, ReadNames(l) PROVE TlsTypeOK'
  <2>1. newCerts' \in [Loaders -> [Domains -> Certs \union {None}]]
    BY <1>5 DEF ReadNames
  <2> QED
    BY <1>2, <1>5, <2>1 DEF ReadNames
<1>6. ASSUME NEW l \in Loaders, Install(l) PROVE TlsTypeOK'
  <2>1. Other(l) \in Loaders
    BY OtherLoader
  <2>2. /\ certs' \in [Domains -> Certs \union {None}]
        /\ behind' \in [Loaders -> BOOLEAN] /\ overtaken' \in BOOLEAN
        /\ first' \in Loaders \union {None}
        /\ up' \in {"loading", "adding", "running", "failed", "closed"}
    <3>1. up' \in {"loading", "adding", "running", "failed", "closed"}
      BY <1>6 DEF Install, EndOfNew
    <3>2. first' \in Loaders \union {None}
      BY <1>6, <2>1 DEF Install
    <3>3. CASE newCerts[l] # NoCerts
      <4>1. certs' = newCerts[l] /\ overtaken' = behind[l]
        BY <1>6, <3>3 DEF Install
      <4>2. behind' = [behind EXCEPT ![Other(l)] = @ \/ (step[Other(l)] # "idle" /\ first = Other(l))]
        BY <1>6, <3>3 DEF Install
      <4>3. (behind[Other(l)] \/ (step[Other(l)] # "idle" /\ first = Other(l))) \in BOOLEAN
        OBVIOUS
      <4> QED
        BY <3>1, <3>2, <4>1, <4>2, <4>3
    <3>4. CASE newCerts[l] = NoCerts
      BY <1>6, <3>1, <3>2, <3>4 DEF Install
    <3> QED
      BY <3>3, <3>4
  <2> QED
    BY <1>6, <2>2 DEF Install
<1>7. ASSUME AddWatch \/ Close PROVE TlsTypeOK'
  BY <1>7 DEF AddWatch, Close
<1>8. ASSUME WatchEvent \/ Reload PROVE TlsTypeOK'
  BY <1>8, TlsBoundsAssumption DEF WatchEvent, Reload, BeginLoad, Loaders
<1>9. ASSUME NEW f \in FileNames, RemoveFile(f) \/ \E c \in Certs \union {Broken} : PutFile(f, c)
      PROVE  TlsTypeOK'
  <2>1. /\ events' \in Nat /\ changes' \in 0..MaxChanges
    BY <1>9, TlsBoundsAssumption DEF RemoveFile, PutFile, ChangeFile
  <2>3. unnoticed' \in BOOLEAN
    BY <1>9 DEF RemoveFile, PutFile
  <2>2. PICK c \in Certs \union {Broken, None} : ChangeFile(f, c)
    BY <1>9 DEF RemoveFile, PutFile
  <2> QED
    BY <2>1, <2>2, <2>3 DEF ChangeFile
<1>10. CASE UNCHANGED tlsVars
  BY <1>10 DEF tlsVars
<1> QED
  BY <1>1, <1>3, <1>4, <1>5, <1>6, <1>7, <1>8, <1>9, <1>10 DEF TlsNext, LoadStep

(* A load that found nothing replaces nothing. *)
LEMMA StockedInductive == TlsTypeOK /\ Stocked /\ [TlsNext]_tlsVars => Stocked'
<1> SUFFICES ASSUME TlsTypeOK, Stocked, [TlsNext]_tlsVars PROVE Stocked'
  OBVIOUS
<1> USE DEF Stocked, memory
<1>1. ASSUME NEW l \in Loaders, Install(l) PROVE Stocked'
  BY <1>1 DEF Install, EndOfNew
<1>2. ASSUME NEW l \in Loaders, ReadDir(l) \/ ReadCert(l) \/ ReadKey(l) \/ ReadNames(l)
      PROVE  Stocked'
  BY <1>2 DEF ReadDir, ReadCert, ReadKey, ReadNames
<1>3. ASSUME AddWatch \/ Close \/ WatchEvent \/ Reload PROVE Stocked'
  BY <1>3 DEF AddWatch, Close, WatchEvent, Reload
<1>4. ASSUME NEW f \in FileNames, RemoveFile(f) \/ \E c \in Certs \union {Broken} : PutFile(f, c)
      PROVE  Stocked'
  BY <1>4 DEF RemoveFile, PutFile, ChangeFile
<1>5. CASE UNCHANGED tlsVars
  BY <1>5 DEF tlsVars
<1> QED
  BY <1>1, <1>2, <1>3, <1>4, <1>5 DEF TlsNext, LoadStep

LEMMA StockedSuffices == TlsTypeOK /\ Stocked => HandshakesSucceed
<1> SUFFICES ASSUME TlsTypeOK, Stocked, up \in {"running", "closed"}, NEW sni \in Domains
             PROVE  GetCertificate(sni) # {}
  BY DEF HandshakesSucceed
<1>1. PICK d \in Domains : certs[d] # None
  BY DEF Stocked, TlsTypeOK, NoCerts
<1>2. \A e \in Domains : certs[e] # None => certs[e] \in Certs
  BY DEF TlsTypeOK
<1>3. CASE certs[sni] # None
  BY <1>2, <1>3 DEF GetCertificate
<1>4. CASE certs[sni] = None
  BY <1>1, <1>2, <1>4 DEF GetCertificate
<1> QED
  BY <1>3, <1>4

(* A load that has kept up with the files has found what is on disk. *)
LEMMA AccurateIsComplete ==
    ASSUME TlsTypeOK, NEW l \in Loaders, Accurate(l), step[l] = "install"
    PROVE  newCerts[l] = OnDisk
<1> SUFFICES ASSUME NEW d \in Domains PROVE newCerts[l][d] = OnDisk[d]
  BY DEF TlsTypeOK, OnDisk
<1> DEFINE with == {i \in DOMAIN Files : disk[Files[i]] \in Certs /\ d \in Covers[disk[Files[i]]]}
<1>1. OnDisk[d] = IF with = {} THEN None
                  ELSE disk[Files[CHOOSE i \in with : \A j \in with : j <= i]]
  BY DEF OnDisk
<1>2. Covering(Done(l), d) = with
  <2>1. todo[l] = {}
    BY DEF TlsTypeOK
  <2> QED
    BY <2>1, ContentAssumption DEF Covering, Done, Entries
<1>3. IsLast(Done(l), d, newCerts[l][d])
  BY DEF Accurate
<1> HIDE DEF with
<1>4. CASE with = {}
  BY <1>1, <1>2, <1>3, <1>4 DEF IsLast
<1>5. CASE with # {}
  <2>1. with \in SUBSET DOMAIN Files
    BY DEF with
  <2>2. \E i \in with : \A j \in with : j <= i
    BY <1>5, <2>1, GreatestPosition
  <2> DEFINE m == CHOOSE i \in with : \A j \in with : j <= i
  <2>3. m \in with /\ \A j \in with : j <= m
    BY <2>2
  <2>4. OnDisk[d] = disk[Files[m]]
    BY <1>1, <1>5
  <2> HIDE DEF m
  <2> QED
    BY <1>2, <1>3, <2>3, <2>4 DEF IsLast
<1> QED
  BY <1>4, <1>5

(* Nothing that concerns this loader has changed. *)
LEMMA AccurateKept ==
    ASSUME NEW l \in Loaders, Accurate(l), UNCHANGED disk,
           UNCHANGED <<todo[l], newCerts[l], cert[l], step[l]>>
    PROVE  Accurate(l)'
  BY DEF Accurate, Done, Entries, IsLast, Covering, Now, Current

(* The loader is done with a file and has registered its certificate. *)
LEMMA FileDone ==
    ASSUME TlsTypeOK, NEW l \in Loaders, Accurate(l), step[l] \in {"cert", "key", "names"},
           NextFile(l), UNCHANGED disk,
           \A d \in Domains : newCerts'[l][d] =
               IF Now(l) \in Certs /\ d \in Covers[Now(l)] THEN Now(l) ELSE newCerts[l][d]
    PROVE  Accurate(l)'
<1> DEFINE c == Current(l)
<1>1. c \in todo[l] /\ \A j \in todo[l] : c <= j
  BY CurrentIsLeast DEF TlsTypeOK
<1>2. todo[l] \subseteq Entries /\ Entries \subseteq DOMAIN Files /\ UNCHANGED Entries
  BY DEF Accurate, Entries
<1>3. \A i \in Entries : i \in Int
  BY <1>2, Positions
<1>4. todo'[l] = todo[l] \ {c} /\ step'[l] \in {"cert", "install"}
  BY DEF NextFile, TlsTypeOK
<1>5. Done(l)' = Done(l) \union {c} /\ \A i \in Done(l) : i < c
  BY <1>1, <1>2, <1>4 DEF Done, Accurate
<1>6. Now(l) = disk[Files[c]]
  BY DEF Now
<1> HIDE DEF c
<1>7. \A i \in Done(l)', j \in todo'[l] : i < j
  BY <1>1, <1>2, <1>3, <1>4, <1>5 DEF Accurate
<1>8. ASSUME NEW d \in Domains PROVE IsLast(Done(l), d, newCerts[l][d])'
  <2> DEFINE Old == Covering(Done(l), d)
             New == Covering(Done(l), d)'
  <2>1. IsLast(Done(l), d, newCerts[l][d])
    BY DEF Accurate
  <2>2. CASE Now(l) \in Certs /\ d \in Covers[Now(l)]
    <3>1. New = Old \union {c}
      BY <1>5, <1>6, <2>2 DEF Covering
    <3>2. \A i \in New : i \in Int /\ (i # c => i < c)
      BY <1>1, <1>2, <1>3, <1>5 DEF Covering, Done
    <3>3. newCerts'[l][d] = disk'[Files[c]]
      BY <1>6, <2>2
    <3>4. \A i \in New : (\A j \in New : j <= i) => i = c
      BY <3>1, <3>2
    <3> QED
      BY <3>1, <3>3, <3>4 DEF IsLast
  <2>3. CASE ~(Now(l) \in Certs /\ d \in Covers[Now(l)])
    <3>1. New = Old
      BY <1>5, <1>6, <2>3 DEF Covering
    <3>2. newCerts'[l][d] = newCerts[l][d]
      BY <2>3
    <3> QED
      BY <2>1, <3>1, <3>2 DEF IsLast
  <2> QED
    BY <2>2, <2>3
<1> QED
  BY <1>2, <1>4, <1>7, <1>8 DEF Accurate

(* With the files as they were, the three reads of a file agree. *)
LEMMA ReadKeepsAccurate ==
    ASSUME TlsTypeOK, NEW l \in Loaders, Accurate(l), ReadCert(l) \/ ReadKey(l) \/ ReadNames(l)
    PROVE  Accurate(l)'
<1>1. UNCHANGED disk
  BY DEF ReadCert, ReadKey, ReadNames
<1>2. CASE ReadCert(l) /\ Now(l) \in Certs
  <2>1. /\ UNCHANGED <<todo, newCerts, disk>>
        /\ cert' = [cert EXCEPT ![l] = Now(l)]
    BY <1>2 DEF ReadCert
  <2>2. cert'[l] = Now(l) /\ Now(l)' = Now(l)
    BY <2>1 DEF TlsTypeOK, Now, Current
  <2> QED
    BY <2>1, <2>2 DEF Accurate, Done, Entries, IsLast, Covering
<1>3. CASE ReadCert(l) /\ Now(l) \notin Certs
  BY <1>1, <1>3, FileDone DEF ReadCert
<1>4. CASE ReadKey(l)
  <2>1. cert[l] = Now(l) /\ cert[l] # None
    BY <1>4 DEF Accurate, ReadKey, TlsTypeOK
  <2>2. cert[l] \in Certs
    BY <2>1 DEF TlsTypeOK
  <2>3. UNCHANGED <<todo, newCerts, disk, cert>>
    BY <1>4, <2>1, <2>2 DEF ReadKey
  <2>4. Now(l)' = Now(l)
    BY <2>3 DEF Now, Current
  <2> QED
    BY <2>1, <2>3, <2>4 DEF Accurate, Done, Entries, IsLast, Covering
<1>5. CASE ReadNames(l)
  <2>1. cert[l] = Now(l)
    BY <1>5 DEF Accurate, ReadNames
  <2>2. \A d \in Domains : newCerts'[l][d] =
            IF Now(l) \in Certs /\ d \in Covers[Now(l)] THEN Now(l) ELSE newCerts[l][d]
    BY <1>5, <2>1 DEF ReadNames, TlsTypeOK
  <2> QED
    BY <1>1, <1>5, <2>2, FileDone DEF ReadNames
<1> QED
  BY <1>2, <1>3, <1>4, <1>5

(* A load begins with nothing read, and is the newest. *)
LEMMA BeginsAccurate ==
    ASSUME TlsTypeOK, NEW l \in Loaders, ReadDir(l)
    PROVE  Newest(l)' /\ Accurate(l)'
<1>1. /\ UNCHANGED <<disk, cert>>
      /\ todo'[l] = Entries /\ newCerts'[l] = NoCerts /\ behind'[l] = FALSE
      /\ step'[l] \in {"cert", "install"} /\ step'[Other(l)] = step[Other(l)]
      /\ first' = IF step[Other(l)] \in {"idle", "readdir"} THEN l ELSE Other(l)
  BY OtherLoader DEF ReadDir, TlsTypeOK
<1>2. Newest(l)'
  BY <1>1 DEF Newest, Loading
<1>3. Entries' = Entries /\ Done(l)' = {}
  BY <1>1 DEF Entries, Done
<1>4. \A d \in Domains : IsLast(Done(l), d, newCerts[l][d])'
  BY <1>1, <1>3 DEF IsLast, Covering, NoCerts
<1> QED
  BY <1>1, <1>2, <1>3, <1>4 DEF Accurate

(* A change leaves an event or is marked, a load starts from what is on    *)
(* disk, and an installation is that of the newest load or is marked.      *)
LEMMA UpToDateInductive == TlsTypeOK /\ UpToDate /\ [TlsNext]_tlsVars => UpToDate'
<1> SUFFICES ASSUME TlsTypeOK, UpToDate, [TlsNext]_tlsVars PROVE UpToDate'
  OBVIOUS
<1> USE DEF memory, ghosts
<1>1. ASSUME NEW l \in Loaders, ReadDir(l) PROVE UpToDate'
  BY <1>1, BeginsAccurate DEF UpToDate
<1>2. ASSUME NEW l \in Loaders, ReadCert(l) \/ ReadKey(l) \/ ReadNames(l) PROVE UpToDate'
  <2>1. /\ UNCHANGED <<disk, up, events, certs, ghosts>>
        /\ Loading(l) /\ Loading(l)'
        /\ \A k \in Loaders \ {l} : UNCHANGED <<todo[k], newCerts[k], cert[k], step[k]>>
    BY <1>2 DEF ReadCert, ReadKey, ReadNames, NextFile, Loading, TlsTypeOK
  <2>2. \A k \in Loaders : UNCHANGED Loading(k) /\ (step'[k] = "readdir" <=> step[k] = "readdir")
    BY <2>1 DEF Loading
  <2>3. UNCHANGED Noticed /\ UNCHANGED OnDisk
    BY <2>1, <2>2 DEF Noticed, OnDisk, Loaders
  <2>4. \A k \in Loaders : UNCHANGED Newest(k)
    BY <2>1, <2>2, OtherLoader DEF Newest
  <2>5. \A k \in Loaders : Accurate(k) => Accurate(k)'
    BY <1>2, <2>1, AccurateKept, ReadKeepsAccurate
  <2> QED
    BY <2>1, <2>2, <2>3, <2>4, <2>5 DEF UpToDate
<1>3. ASSUME NEW l \in Loaders, Install(l) PROVE UpToDate'
  <2> SUFFICES ASSUME Noticed', OnDisk' # NoCerts
               PROVE  \/ \E k \in Loaders : Newest(k)' /\ Accurate(k)'
                      \/ /\ certs' = OnDisk' \/ overtaken'
                         /\ \A k \in Loaders : Loading(k)' => behind'[k]
    BY DEF UpToDate, NoCerts
  <2> DEFINE o == Other(l)
  <2>o. o \in Loaders /\ o # l /\ Loaders = {l, o} /\ Other(o) = l
    BY OtherLoader DEF Other, Loaders
  <2>1. /\ UNCHANGED <<disk, events, unnoticed, todo, newCerts, cert>>
        /\ step'[l] = "idle" /\ step'[o] = step[o] /\ step[l] = "install"
        /\ UNCHANGED OnDisk
    BY <1>3, <2>o DEF Install, TlsTypeOK, OnDisk
  <2>2. up # "closed"
    BY <1>3 DEF Install, EndOfNew, Noticed
  <2>3. Noticed /\ OnDisk # NoCerts
    BY <2>1, <2>2, <2>o DEF Noticed, Loaders, NoCerts
  <2>4. ~Loading(l)' /\ Loading(l) /\ (Loading(o)' <=> Loading(o))
    BY <2>1 DEF Loading
  <2>5. CASE newCerts[l] # NoCerts
    <3>1. certs' = newCerts[l] /\ overtaken' = behind[l]
      BY <1>3, <2>5 DEF Install
    <3>2. behind'[o] = (behind[o] \/ (step[o] # "idle" /\ first = o))
      BY <1>3, <2>5, <2>o DEF Install, TlsTypeOK
    <3>3. CASE Newest(l) /\ Accurate(l)
      <4>1. certs' = OnDisk'
        BY <2>1, <3>1, <3>3, AccurateIsComplete
      <4>2. Loading(o) => behind'[o]
        BY <3>2, <3>3 DEF Newest, Loading
      <4> QED
        BY <2>4, <2>o, <4>1, <4>2
    <3>4. CASE Newest(o) /\ Accurate(o)
      <4>1. first = l /\ ~behind[o]
        BY <2>4, <2>o, <3>4 DEF Newest
      <4>2. Newest(o)'
        BY <2>4, <2>o, <3>2, <3>4, <4>1 DEF Newest
      <4>3. Accurate(o)'
        BY <2>1, <2>o, <3>4, AccurateKept
      <4> QED
        BY <2>o, <4>2, <4>3
    <3>5. CASE \A k \in Loaders : Loading(k) => behind[k]
      BY <2>4, <2>o, <3>1, <3>2, <3>5
    <3> QED
      BY <2>3, <2>o, <3>3, <3>4, <3>5 DEF UpToDate
  <2>6. CASE newCerts[l] = NoCerts
    <3>1. UNCHANGED <<certs, overtaken, behind>>
      BY <1>3, <2>6 DEF Install
    <3>2. ~Accurate(l)
      BY <2>1, <2>3, <2>6, AccurateIsComplete
    <3>3. CASE Newest(o) /\ Accurate(o)
      <4>1. Newest(o)'
        BY <2>4, <2>o, <3>1, <3>3 DEF Newest
      <4>2. Accurate(o)'
        BY <2>1, <2>o, <3>3, AccurateKept
      <4> QED
        BY <2>o, <4>1, <4>2
    <3>4. CASE (certs = OnDisk \/ overtaken) /\ \A k \in Loaders : Loading(k) => behind[k]
      BY <2>1, <2>4, <2>o, <3>1, <3>4
    <3> QED
      BY <2>3, <2>o, <3>2, <3>3, <3>4 DEF UpToDate
  <2> QED
    BY <2>5, <2>6
<1>4. ASSUME WatchEvent PROVE UpToDate'
  <2>1. step'["watcher"] = "readdir"
    BY <1>4 DEF WatchEvent, BeginLoad, TlsTypeOK, Loaders
  <2> QED
    BY <2>1 DEF UpToDate, Noticed
<1>5. ASSUME Reload PROVE UpToDate'
  <2>1. /\ UNCHANGED <<disk, up, events, certs, ghosts, todo, newCerts, cert>>
        /\ step["reload"] = "idle" /\ step'["reload"] = "readdir" /\ step'["watcher"] = step["watcher"]
    BY <1>5 DEF Reload, BeginLoad, TlsTypeOK, Loaders
  <2>2. \A k \in Loaders : UNCHANGED Loading(k)
    BY <2>1 DEF Loading, Loaders
  <2>3. UNCHANGED Noticed /\ UNCHANGED OnDisk
    BY <2>1 DEF Noticed, OnDisk
  <2>4. \A k \in Loaders : UNCHANGED Newest(k)
    BY <2>1, <2>2, OtherLoader DEF Newest
  <2>5. \A k \in Loaders : Loading(k) /\ Accurate(k) => Accurate(k)'
    BY <2>1, AccurateKept DEF Loading, Loaders
  <2> QED
    BY <2>1, <2>2, <2>3, <2>4, <2>5 DEF UpToDate, Newest
<1>6. ASSUME NEW f \in FileNames, RemoveFile(f) \/ \E c \in Certs \union {Broken} : PutFile(f, c)
      PROVE  UpToDate'
  <2>1. unnoticed' \/ events' # 0
    <3>1. CASE RemoveFile(f)
      BY <3>1 DEF RemoveFile
    <3>2. ASSUME NEW c \in Certs \union {Broken}, PutFile(f, c) PROVE unnoticed' \/ events' # 0
      <4>1. CASE up = "running"
        <5>1. events \in Nat /\ events' = events + 1
          BY <3>2, <4>1 DEF PutFile, TlsTypeOK
        <5> QED
          BY <5>1
      <4>2. CASE up # "running"
        BY <3>2, <4>2 DEF PutFile
      <4> QED
        BY <4>1, <4>2
    <3> QED
      BY <1>6, <3>1, <3>2
  <2> QED
    BY <2>1 DEF UpToDate, Noticed
<1>7. ASSUME Close PROVE UpToDate'
  BY <1>7 DEF Close, UpToDate, Noticed
<1>8. CASE AddWatch \/ UNCHANGED tlsVars
  <2>1. UNCHANGED <<disk, events, memory, ghosts>> /\ (up' = up \/ up = "adding")
    BY <1>8 DEF AddWatch, tlsVars
  <2>2. Noticed' => Noticed
    BY <2>1 DEF Noticed
  <2>3. \A k \in Loaders : UNCHANGED Newest(k) /\ UNCHANGED Loading(k) /\ (Accurate(k) => Accurate(k)')
    BY <2>1, AccurateKept DEF Newest, Loading
  <2>4. UNCHANGED OnDisk
    BY <2>1 DEF OnDisk
  <2> QED
    BY <2>1, <2>2, <2>3, <2>4 DEF UpToDate
<1> QED
  BY <1>1, <1>2, <1>3, <1>4, <1>5, <1>6, <1>7, <1>8 DEF TlsNext, LoadStep

LEMMA TlsInvHolds == TlsSpec => []TlsInv
<1>1. TlsInit => TlsInv
  <2> SUFFICES ASSUME TlsInit PROVE TlsInv
    OBVIOUS
  <2>1. TlsTypeOK
    <3>1. \A l \in Loaders :
             step[l] \in {"idle", "readdir"} /\ todo[l] = {} /\ cert[l] = None /\ newCerts[l] = NoCerts
      BY DEF TlsInit
    <3>2. NoCerts \in [Domains -> Certs \union {None}]
      BY DEF NoCerts
    <3>3. /\ step \in [Loaders -> {"idle", "readdir", "cert", "key", "names", "install"}]
          /\ todo \in [Loaders -> SUBSET DOMAIN Files]
          /\ newCerts \in [Loaders -> [Domains -> Certs \union {None}]]
          /\ cert \in [Loaders -> Certs \union {None}] /\ behind \in [Loaders -> BOOLEAN]
      BY <3>2 DEF TlsInit
    <3>4. 0 \in 0..MaxChanges /\ 0 \in 0..MaxReloads
      BY TlsBoundsAssumption
    <3> QED
      BY <3>1, <3>2, <3>3, <3>4 DEF TlsInit, TlsTypeOK
  <2>2. Stocked /\ UpToDate
    BY DEF TlsInit, Stocked, UpToDate, Noticed, Loaders
  <2> QED
    BY <2>1, <2>2 DEF TlsInv
<1>2. TlsInv /\ [TlsNext]_tlsVars => TlsInv'
  BY TlsTypeInductive, StockedInductive, UpToDateInductive DEF TlsInv
<1> QED
  BY <1>1, <1>2, PTL DEF TlsSpec

(* After New has succeeded a handshake finds a certificate, whatever       *)
(* becomes of the files and however loads overlap (loadCertificates keeps  *)
(* the old map when it finds nothing, GetCertificate falls back to any).   *)
THEOREM HandshakesAlwaysSucceed == TlsSpec => []HandshakesSucceed
<1>1. TlsInv => HandshakesSucceed
  BY StockedSuffices DEF TlsInv
<1> QED
  BY <1>1, TlsInvHolds, PTL

(* For any directory, changes and overlapping loads, certificates that are *)
(* out of date with no load under way go back to a change without an       *)
(* event, to a Reload that overtook a newer load, or to Close.             *)
THEOREM StaleStaysTransient == TlsSpec => []StaleIsTransient
<1>1. TlsInv => StaleIsTransient
  <2> SUFFICES ASSUME TlsInv, up = "running", ~Fresh, ~Unmended, events = 0,
                      \A l \in Loaders : step[l] = "idle"
               PROVE  FALSE
    BY DEF StaleIsTransient, TlsInv, TlsTypeOK
  <2>1. Noticed /\ OnDisk # NoCerts /\ certs # OnDisk /\ ~overtaken
    BY DEF Noticed, Unmended, Fresh, Loaders
  <2>2. \A l \in Loaders : ~Loading(l)
    BY DEF Loading
  <2> QED
    BY <2>1, <2>2 DEF TlsInv, UpToDate, Newest
<1> QED
  BY <1>1, TlsInvHolds, PTL
=============================================================================
