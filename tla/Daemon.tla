------------------------------- MODULE Daemon -------------------------------
(***************************************************************************)
(* The process as a whole (cmd/outbound/main.go) and its configuration     *)
(* (internal/config/config.go): settings come from defaults, a file and    *)
(* the environment, main builds the parts one after the other, starts      *)
(* goroutines for the helpers, the health server and every listener, waits *)
(* for a signal and shuts down.                                            *)
(*                                                                         *)
(* A configuration is a function from settings to values.  A file or an    *)
(* environment sets some of them, so it is a function on a part of the     *)
(* settings.  Of most values only one thing matters: "bad" is the value    *)
(* that is empty, an empty list, or a number out of range.                 *)
(***************************************************************************)
EXTENDS Integers, Sequences, FiniteSets

CONSTANTS
    ListenerLists,  \* smtp.listeners: lists of [ip, port, mode], by a name
    MaxInFile,      \* bound: settings given in the file
    MaxInEnv,       \* bound: settings given in the environment
    MaxSignals      \* bound: SIGTERM or SIGINT sent to the process

Listener == [ip : STRING, port : Int, mode : STRING]

ASSUME ListenersAssumption ==
    /\ "default" \in DOMAIN ListenerLists
    /\ \A n \in DOMAIN ListenerLists :
          \A i \in DOMAIN ListenerLists[n] : ListenerLists[n][i] \in Listener
ASSUME DaemonBoundsAssumption == {MaxInFile, MaxInEnv, MaxSignals} \subseteq Nat

-----------------------------------------------------------------------------
(* Configuration *)

(* Settings that must have a value, or else are looked at without one. *)
Plain == {"hostname", "max_message_size", "auth_redis_addresses", "spool_base_path",
          "database_path", "clickhouse_database", "redis_addresses", "redis_pool_size"}

Values(s) ==
    CASE s = "listeners" -> DOMAIN ListenerLists
      [] s = "auth_redis_enabled" -> {"true", "false"}
      [] s = "ip_allowlist" -> {"disabled", "ok", "bad"}
      [] OTHER -> {"ok", "bad"}

Settings == Plain \union {"listeners", "auth_redis_enabled", "ip_allowlist"}

DefaultConfig ==
    [s \in Settings |->
        CASE s = "listeners" -> "default"
          [] s = "auth_redis_enabled" -> "true"
          [] s = "ip_allowlist" -> "disabled"
          [] OTHER -> "ok"]

(* The settings with a variable, and what it may do to them: an empty      *)
(* variable counts as none, a list that is split is never empty, and a     *)
(* size that is not a number is ignored.                                   *)
EnvValues(s) ==
    CASE s = "max_message_size" -> {"ok", "bad", "not a number"}
      [] s \in Plain \ {"clickhouse_database", "max_message_size", "redis_pool_size"} -> {"ok"}
      [] OTHER -> {}

(* What f sets, and what g has for the rest. *)
Over(f, g) == [s \in DOMAIN f \union DOMAIN g |-> IF s \in DOMAIN f THEN f[s] ELSE g[s]]

(* A mistake: the variables are applied before the file. *)
MutEnvFirst(f, e) == Over(f, Over(e, DefaultConfig))

(* yaml.Unmarshal of the file f over the defaults, then the variables e. *)
applyEnvOverrides(f, e) ==
    LET used == {s \in DOMAIN e : e[s] # "not a number"}
    IN Over([s \in used |-> e[s]], Over(f, DefaultConfig))

Modes == {"starttls", "implicit_tls", "plaintext"}

MaxPort == 65535

Validate(c) ==
    LET ls == ListenerLists[c["listeners"]] IN
    /\ c["hostname"] # "bad"
    /\ ls # <<>>
    /\ \A i \in DOMAIN ls : ls[i].port \in 1..MaxPort /\ ls[i].mode \in Modes
    /\ c["max_message_size"] # "bad"
    /\ c["auth_redis_enabled"] = "true" => c["auth_redis_addresses"] # "bad"
    /\ c["spool_base_path"] # "bad"
    /\ c["database_path"] # "bad"
    /\ c["clickhouse_database"] # "bad"

-----------------------------------------------------------------------------
VARIABLES
    file, env,    \* what the configuration is made from, until it is loaded
    asked,        \* ghost: the settings the operator asked for
    cfg,          \* cfg, once it is loaded
    pc,           \* where main is
    helper,       \* helper[h]: off, running or stopped
    stops,        \* the helpers whose stop channel is closed
    health,       \* the health server: off, starting, serving, failed, closed
    busy,         \* it is answering a request
    server,       \* server[i]: the server of listener i: off, starting, serving,
                  \* taken (its address is that of another server), failed
    pending,      \* a signal waits in sigChan, whose capacity is 1
    signals,      \* signals sent
    expired       \* shutdownCtx has timed out

inputs == <<file, env, asked>>
http == <<health, busy>>
vars == <<inputs, cfg, pc, helper, stops, http, server, pending, signals, expired>>

Helpers == {"tls watcher", "spool cleanup", "limiter cleanup"}

Ended == {"refused", "panic", "fatal", "killed", "exited"}

Alive == pc \notin Ended

MaxListeners == CHOOSE n \in {Len(ListenerLists[l]) : l \in DOMAIN ListenerLists} :
                    \A l \in DOMAIN ListenerLists : Len(ListenerLists[l]) <= n

listeners == ListenerLists[cfg["listeners"]]

(* One type invariant. *)
TypeOK ==
    /\ DOMAIN cfg = Settings /\ \A s \in Settings : cfg[s] \in Values(s)
    /\ pc \in {"load", "redis", "tls", "watch", "spool", "limiter", "ipauth", "health",
               "listen", "notify", "wait", "stop", "shutdown", "close", "exit"} \union Ended
    /\ helper \in [Helpers -> {"off", "running", "stopped"}]
    /\ stops \in SUBSET Helpers
    /\ health \in {"off", "starting", "serving", "failed", "closed"} /\ busy \in BOOLEAN
    /\ server \in [1..MaxListeners -> {"off", "starting", "serving", "taken", "failed"}]
    /\ pending \in BOOLEAN /\ expired \in BOOLEAN /\ signals \in 0..MaxSignals
    \* a helper that was stopped was told to
    /\ \A h \in Helpers : helper[h] = "stopped" => h \in stops

-----------------------------------------------------------------------------
(* Start-up *)

Load ==
    /\ pc = "load"
    /\ cfg' = applyEnvOverrides(file, env)
    /\ pc' = IF Validate(cfg') THEN "redis" ELSE "refused"
    /\ file' = <<>> /\ env' = <<>>
    /\ UNCHANGED <<asked, helper, stops, http, server, pending, signals, expired>>

(* The file is not there or is not YAML. *)
LoadFails ==
    /\ pc = "load"
    /\ pc' = "refused"
    /\ UNCHANGED <<inputs, cfg, helper, stops, http, server, pending, signals, expired>>

Continue(from, to) ==
    /\ pc = from
    /\ pc' = to
    /\ UNCHANGED <<inputs, cfg, stops, server, pending, signals, expired>>

(* cfg.Redis.Addresses[0] panics on an empty list, and redis.NewClient on  *)
(* a negative pool size; Validate looks at neither.  A Ping that fails is  *)
(* only logged.                                                            *)
NewRedis ==
    /\ Continue("redis", IF "bad" \in {cfg["redis_addresses"], cfg["redis_pool_size"]}
                         THEN "panic" ELSE "tls")
    /\ UNCHANGED <<helper, http>>

StartHelper(h) == helper' = [helper EXCEPT ![h] = "running"]

NewTls == \E to \in {"watch", "fatal"} : Continue("tls", to) /\ UNCHANGED <<helper, http>>

(* The daemon does without a watcher. *)
StartWatcher ==
    /\ Continue("watch", "spool")
    /\ StartHelper("tls watcher") \/ UNCHANGED helper
    /\ UNCHANGED http

NewSpool ==
    /\ \/ Continue("spool", "limiter") /\ StartHelper("spool cleanup")
       \/ Continue("spool", "fatal") /\ UNCHANGED helper
    /\ UNCHANGED http

NewLimiter ==
    /\ Continue("limiter", "ipauth")
    /\ StartHelper("limiter cleanup")
    /\ UNCHANGED http

NewIPAuth ==
    /\ Continue("ipauth", IF cfg["ip_allowlist"] = "bad" THEN "fatal" ELSE "health")
    /\ UNCHANGED <<helper, http>>

StartHealth ==
    /\ Continue("health", "listen")
    /\ health' = "starting"
    /\ UNCHANGED <<helper, busy>>

(* The loop over cfg.SMTP.Listeners has come to listener i. *)
LoopAt(i) ==
    /\ pc = "listen"
    /\ i \in DOMAIN listeners
    /\ \A j \in DOMAIN listeners : server[j] = "off" <=> j >= i

GoServe(i) ==
    /\ server' = [server EXCEPT ![i] = "starting"]
    /\ pc' = IF i = Len(listeners) THEN "notify" ELSE "listen"
    /\ UNCHANGED <<inputs, cfg, helper, stops, http, pending, signals, expired>>

(* A mistake: without the go statement the loop waits for ListenAndServe   *)
(* of the listener before, which returns on an error only.                 *)
MutStartServerInline(i) ==
    /\ LoopAt(i)
    /\ \A j \in 1..(i - 1) : server[j] \in {"taken", "failed"}
    /\ GoServe(i)

StartServer(i) == LoopAt(i) /\ GoServe(i)

Notify == Continue("notify", "wait") /\ UNCHANGED <<helper, http>>

-----------------------------------------------------------------------------
(* The goroutines *)

(* Two addresses overlap when they have the port in common, and the IP or  *)
(* one of them stands for all (IPv4).                                      *)
Overlap(a, b) ==
    a.port = b.port /\ (a.ip = b.ip \/ {a.ip, b.ip} \intersect {"", "0.0.0.0"} # {})

(* Another server of this daemon serves the address of listener i. *)
Occupied(i) ==
    /\ i \in DOMAIN listeners
    /\ \E j \in DOMAIN listeners \ {i} :
          server[j] = "serving" /\ Overlap(listeners[i], listeners[j])

ServerBecomes(i, s) ==
    /\ server' = [server EXCEPT ![i] = s]
    /\ UNCHANGED <<inputs, cfg, pc, helper, stops, http, pending, signals, expired>>

(* ListenAndServe.  The address may be taken by another listener, or the   *)
(* system may refuse it: another process has it, the port is a privileged  *)
(* one, the IP is not one of this host or not an IP at all.                *)
Listen(i) ==
    /\ Alive
    /\ server[i] = "starting"
    /\ \/ ~Occupied(i) /\ ServerBecomes(i, "serving")
       \/ Occupied(i) /\ ServerBecomes(i, "taken")
       \/ ServerBecomes(i, "failed")

(* Accept fails.  As with any error of ListenAndServe it is logged, and    *)
(* the daemon goes on without this server.                                 *)
AcceptFails(i) ==
    /\ Alive
    /\ server[i] = "serving"
    /\ ServerBecomes(i, "failed")

(* After Shutdown the health server does not start any more. *)
HealthListen ==
    /\ Alive
    /\ health = "starting"
    /\ health' \in {"serving", "failed"}
    /\ UNCHANGED <<inputs, cfg, pc, helper, stops, busy, server, pending, signals, expired>>

HealthRequest ==
    /\ Alive
    /\ health = "serving" /\ ~busy
    /\ busy' = TRUE
    /\ UNCHANGED <<inputs, cfg, pc, helper, stops, health, server, pending, signals, expired>>

HealthAnswer ==
    /\ Alive
    /\ busy
    /\ busy' = FALSE
    /\ UNCHANGED <<inputs, cfg, pc, helper, stops, health, server, pending, signals, expired>>

HelperStops(h) ==
    /\ Alive
    /\ helper[h] = "running" /\ h \in stops
    /\ helper' = [helper EXCEPT ![h] = "stopped"]
    /\ UNCHANGED <<inputs, cfg, pc, stops, http, server, pending, signals, expired>>

-----------------------------------------------------------------------------
(* Signals and shutdown *)

(* Before signal.Notify a signal ends the process at once, although the    *)
(* servers have been started by then; a second one in sigChan is lost.     *)
Signal ==
    /\ Alive
    /\ signals < MaxSignals
    /\ signals' = signals + 1
    /\ IF pc \in {"wait", "stop", "shutdown", "close", "exit"}
       THEN pending' = TRUE /\ UNCHANGED pc
       ELSE pc' = "killed" /\ UNCHANGED pending
    /\ UNCHANGED <<inputs, cfg, helper, stops, http, server, expired>>

(* sig := <-sigChan; the 30 seconds of shutdownCtx begin. *)
ReceiveSignal ==
    /\ pc = "wait" /\ pending
    /\ pending' = FALSE
    /\ pc' = "stop"
    /\ UNCHANGED <<inputs, cfg, helper, stops, http, server, signals, expired>>

(* The stop channels of all helpers are closed, whether or not they run. *)
StopHelpers ==
    /\ pc = "stop"
    /\ stops' = Helpers
    /\ pc' = "shutdown"
    /\ UNCHANGED <<inputs, cfg, helper, http, server, pending, signals, expired>>

Timeout ==
    /\ pc \in {"stop", "shutdown"} /\ ~expired
    /\ expired' = TRUE
    /\ UNCHANGED <<inputs, cfg, pc, helper, stops, http, server, pending, signals>>

(* Shutdown closes the health server's socket first and then waits. *)
ShutdownHealth ==
    /\ health # "closed"
    /\ health' = "closed"
    /\ Continue("shutdown", "shutdown")
    /\ UNCHANGED <<helper, busy>>

(* A mistake: Shutdown is called with a context that has no deadline. *)
MutShutdownNoDeadline ==
    /\ health = "closed" /\ ~busy
    /\ Continue("shutdown", "close")
    /\ UNCHANGED <<helper, http>>

ShutdownReturns ==
    /\ health = "closed" /\ (~busy \/ expired)
    /\ Continue("shutdown", "close")
    /\ UNCHANGED <<helper, http>>

(* The SMTP servers are not stopped: sessions go on until the process ends, *)
(* from here on without Redis.                                              *)
CloseRedis == Continue("close", "exit") /\ UNCHANGED <<helper, http>>

Exit == Continue("exit", "exited") /\ UNCHANGED <<helper, http>>

Finished == ~Alive /\ UNCHANGED vars

-----------------------------------------------------------------------------
(* What a file or an environment may give: values Of(s) for at most n of   *)
(* the settings s.                                                         *)
Given(Of(_), n) ==
    UNION {{g \in [S -> UNION {Of(s) : s \in S}] : \A s \in S : g[s] \in Of(s)} :
               S \in {T \in SUBSET Settings : Cardinality(T) <= n}}

(* A variable counts before the file, and the file before the defaults. *)
Asked(f, e, s) ==
    IF s \in DOMAIN e /\ e[s] \in Values(s) THEN e[s]
    ELSE IF s \in DOMAIN f THEN f[s]
    ELSE DefaultConfig[s]

Init ==
    /\ file \in Given(Values, MaxInFile)
    /\ env \in Given(EnvValues, MaxInEnv)
    /\ asked = [s \in Settings |-> Asked(file, env, s)]
    /\ cfg = DefaultConfig
    /\ pc = "load"
    /\ helper = [h \in Helpers |-> "off"]
    /\ stops = {}
    /\ health = "off" /\ busy = FALSE
    /\ server = [i \in 1..MaxListeners |-> "off"]
    /\ pending = FALSE /\ signals = 0 /\ expired = FALSE

Startup ==
    \/ Load \/ NewRedis \/ NewTls \/ StartWatcher \/ NewSpool \/ NewLimiter \/ NewIPAuth
    \/ StartHealth \/ Notify
    \/ \E i \in 1..MaxListeners : StartServer(i)

Shutdown ==
    \/ ReceiveSignal \/ StopHelpers \/ ShutdownHealth \/ ShutdownReturns \/ CloseRedis \/ Exit

Next ==
    \/ Startup \/ LoadFails \/ Shutdown
    \/ \E i \in 1..MaxListeners : Listen(i) \/ AcceptFails(i)
    \/ \E h \in Helpers : HelperStops(h)
    \/ HealthListen \/ HealthRequest \/ HealthAnswer
    \/ Signal \/ Timeout \/ Finished

(* Goroutines run and the clock goes on.  Nothing says that a request to   *)
(* the health server is ever finished (its client may stop reading), or    *)
(* that a signal comes.                                                    *)
Fairness ==
    /\ WF_vars(Startup) /\ WF_vars(Shutdown) /\ WF_vars(Timeout)
    /\ \A i \in 1..MaxListeners : WF_vars(Listen(i))

Spec == Init /\ [][Next]_vars /\ Fairness

-----------------------------------------------------------------------------
(* Properties *)

(* No server is started on a setting that is missing or out of range: the  *)
(* process is refused or panics first.  The addresses of the user database *)
(* matter only when it is enabled.                                         *)
NothingServesMisconfigured ==
    (\E i \in 1..MaxListeners : server[i] # "off") =>
        /\ \A s \in Plain : asked[s] = "bad" =>
              s = "auth_redis_addresses" /\ asked["auth_redis_enabled"] = "false"
        /\ asked["ip_allowlist"] # "bad"

(* main starts a server for every listener and waits for none of them: a   *)
(* listener comes to be served or is refused by the system, unless another *)
(* listener serves its address or the process ends.  Validate does not     *)
(* compare listeners, so of two that overlap one is served, in the mode of *)
(* whichever goroutine came first.                                         *)
ListenersServed ==
    \A i \in 1..MaxListeners :
        pc = "listen" /\ i \in DOMAIN listeners ~>
            ~Alive \/ server[i] \in {"serving", "failed"} \/ Occupied(i)

(* A daemon that was asked to stop ends, also when a request to the health *)
(* server never does and when the signal is repeated.                      *)
ShutdownEnds == pending ~> ~Alive
=============================================================================
