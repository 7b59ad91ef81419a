--------------------------- MODULE ServerLifecycle ---------------------------
(***************************************************************************)
(* The life of the admin-api process (internal/cmd; pkg/server/server.go:  *)
(* New, Start, startAPIServer): its configuration, connecting to Redis and *)
(* PostgreSQL, serving, and the shutdown after an interrupt.               *)
(*                                                                         *)
(* Three threads of control: main (New, then Start), the goroutine that    *)
(* serves (api), and the requests, of which only the number in flight      *)
(* matters here.  Without TLS the goroutine serves with Echo's own         *)
(* http.Server, with TLS with one that it creates for itself.              *)
(***************************************************************************)
EXTENDS EnvConfig, Integers, Sequences

CONSTANTS
  Setups,             \* the files and environments it may be started with
  MaxInFlight         \* bound of the model: requests served at the same time

\* Of a string and of a list every value makes sense; the numbers are numbers.
ASSUME SetupsAssumption == \A s \in Setups :
  /\ DOMAIN s = {"file", "env"}
  /\ s.file # NoFile => DOMAIN s.file = Settings /\ s.file.initial_conn_retry \in Int
  /\ DOMAIN s.env = Settings /\ s.env.initial_conn_retry \in Int \cup {Unset, Unparsable}
  /\ \A x \in Settings : s.env[x] = Unparsable => Kind[x] \in {"int", "bool", "duration"}
ASSUME BoundAssumption == MaxInFlight \in Nat

VARIABLES
  setup,         \* the file and the environment
  config,        \* what became of them
  main,          \* what the main goroutine does next
  attempt,       \* how many times it has pinged the database
  connected,     \* the database has answered
  opened,        \* the resources open
  cleanups,      \* the resources that have a cleanup: New collects them, Start runs them
  api,           \* the serving goroutine: "none", "starting", "serving", "returned"
  inFlight,      \* requests being served
  echoClosed,    \* e.Shutdown was called: Echo's server accepts nothing any more
  interrupted,   \* ctx is cancelled
  timer          \* the ten seconds of the shutdown: "off", "running", "over"

vars == <<setup, config, main, attempt, connected, opened, cleanups, api, inFlight, echoClosed, interrupted, timer>>
configVars == <<setup, config>>
servingVars == <<api, inFlight, echoClosed, timer>>

MainPcs == {"load_config", "ping_redis", "telemetry", "pool", "ping_db", "serve", "wait_interrupt",
            "shutdown", "wait_group", "cleanup", "stopped", "failed"}
Telemeters == {"tracer", "meter"}
Resources == {"redis", "pool"} \cup Telemeters

NoConfig == [s \in Settings |-> Unset]

Init ==
  /\ setup \in Setups /\ config = NoConfig
  /\ main = "load_config" /\ attempt = 0 /\ connected = FALSE /\ opened = {} /\ cleanups = <<>>
  /\ api = "none" /\ inFlight = 0 /\ echoClosed = FALSE
  /\ interrupted = FALSE /\ timer = "off"

-----------------------------------------------------------------------------
(* The configuration, then New.  A failure returns without closing what is  *)
(* open.                                                                    *)

LoadConfig ==
  /\ main = "load_config"
  /\ IF Loads(setup.file, setup.env)
     THEN main' = "ping_redis" /\ config' = loadFromEnvRecursive(setup.file, setup.env)
     ELSE main' = "failed" /\ UNCHANGED config
  /\ UNCHANGED <<setup, attempt, connected, opened, cleanups, interrupted, servingVars>>

\* The client's ping; with ctx cancelled it fails.
PingRedis ==
  /\ main = "ping_redis"
  /\ opened' = {"redis"}
  /\ \/ ~interrupted /\ main' = "telemetry" /\ cleanups' = <<"redis">>
     \/ main' = "failed" /\ UNCHANGED cleanups
  /\ UNCHANGED <<configVars, attempt, connected, interrupted, servingVars>>

\* initAdminServerConfig; its cleanups are handed over when it returns.
StartTelemetry ==
  /\ main = "telemetry"
  /\ \/ /\ ~config.telemetry_enabled /\ main' = "pool"
        /\ UNCHANGED <<opened, cleanups>>
     \/ /\ config.telemetry_enabled /\ main' = "pool"
        /\ opened' = opened \cup Telemeters /\ cleanups' = cleanups \o <<"tracer", "meter">>
     \/ /\ config.telemetry_enabled /\ main' = "failed"
        /\ opened' \in {opened, opened \cup {"tracer"}} /\ UNCHANGED cleanups
  /\ UNCHANGED <<configVars, attempt, connected, interrupted, servingVars>>

\* Mutant of OpenPool: no cleanup for the pool.
OpenPoolForgotten ==
  /\ main = "pool"
  /\ \/ main' = "ping_db" /\ opened' = opened \cup {"pool"} /\ UNCHANGED cleanups
     \/ main' = "failed" /\ UNCHANGED <<opened, cleanups>>
  /\ UNCHANGED <<configVars, attempt, connected, interrupted, servingVars>>

\* pgxpool.ParseConfig and NewWithConfig: connections are made later.
OpenPool ==
  /\ main = "pool"
  /\ \/ main' = "ping_db" /\ opened' = opened \cup {"pool"} /\ cleanups' = Append(cleanups, "pool")
     \/ main' = "failed" /\ UNCHANGED <<opened, cleanups>>
  /\ UNCHANGED <<configVars, attempt, connected, interrupted, servingVars>>

RetryCount == IF config.initial_conn_retry > 1 THEN config.initial_conn_retry ELSE 1

\* Mutant of PingDB: the result of the last attempt is not looked at.
PingDBForgets ==
  /\ main = "ping_db"
  /\ attempt' = attempt + 1
  /\ \/ ~interrupted /\ main' = "serve" /\ connected' = TRUE
     \/ main' = (IF attempt' < RetryCount THEN "ping_db" ELSE "serve") /\ UNCHANGED connected
  /\ UNCHANGED <<configVars, opened, cleanups, interrupted, servingVars>>

\* Mutant of PingDB: one attempt too many.
PingDBOnceMore ==
  /\ main = "ping_db"
  /\ attempt' = attempt + 1
  /\ \/ ~interrupted /\ main' = "serve" /\ connected' = TRUE
     \/ main' = (IF attempt' <= RetryCount THEN "ping_db" ELSE "failed") /\ UNCHANGED connected
  /\ UNCHANGED <<configVars, opened, cleanups, interrupted, servingVars>>

\* One turn of the retry loop; an interrupt makes every ping fail.
PingDB ==
  /\ main = "ping_db"
  /\ attempt' = attempt + 1
  /\ \/ ~interrupted /\ main' = "serve" /\ connected' = TRUE
     \/ main' = (IF attempt' < RetryCount THEN "ping_db" ELSE "failed") /\ UNCHANGED connected
  /\ UNCHANGED <<configVars, opened, cleanups, interrupted, servingVars>>

\* The service and the routes, then Start: the goroutine is started.
Serve ==
  /\ main = "serve"
  /\ \/ main' = "wait_interrupt" /\ api' = "starting"
     \/ main' = "failed" /\ UNCHANGED api
  /\ UNCHANGED <<configVars, attempt, connected, opened, cleanups, inFlight, echoClosed, interrupted, timer>>

-----------------------------------------------------------------------------
(* Start. *)

\* <-ctx.Done(), then e.Shutdown closes the listeners of Echo's server.
Interrupted ==
  /\ main = "wait_interrupt" /\ interrupted
  /\ main' = "shutdown" /\ timer' = "running" /\ echoClosed' = TRUE
  /\ UNCHANGED <<configVars, attempt, connected, opened, cleanups, api, inFlight, interrupted>>

\* The connections of Echo's server.  The server made for TLS is not Echo's.
EchoInFlight == IF config.tls_enabled THEN 0 ELSE inFlight

\* Mutant of Shutdown: the error is logged and the shutdown goes on.
ShutdownGoesOn ==
  /\ main = "shutdown"
  /\ EchoInFlight = 0 \/ timer = "over"
  /\ main' = "wait_group"
  /\ UNCHANGED <<configVars, attempt, connected, opened, cleanups, interrupted, servingVars>>

\* Mutant of Shutdown: a context without a timeout.
ShutdownWaits ==
  /\ main = "shutdown" /\ EchoInFlight = 0
  /\ main' = "wait_group"
  /\ UNCHANGED <<configVars, attempt, connected, opened, cleanups, interrupted, servingVars>>

\* e.Shutdown waits for the requests in flight, or fails when the time is over;
\* then Start returns at once.
Shutdown ==
  /\ main = "shutdown"
  /\ \/ EchoInFlight = 0 /\ main' = "wait_group"
     \/ EchoInFlight # 0 /\ timer = "over" /\ main' = "failed"
  /\ UNCHANGED <<configVars, attempt, connected, opened, cleanups, interrupted, servingVars>>

WaitGroup ==
  /\ main = "wait_group" /\ api = "returned"
  /\ main' = "cleanup"
  /\ UNCHANGED <<configVars, attempt, connected, opened, cleanups, interrupted, servingVars>>

\* The cleanups, in the order they were registered; then Start returns nil.
Cleanup ==
  /\ main = "cleanup"
  /\ IF cleanups = <<>>
     THEN main' = "stopped" /\ UNCHANGED <<opened, cleanups>>
     ELSE /\ opened' = opened \ {Head(cleanups)}
          /\ cleanups' = Tail(cleanups)
          /\ UNCHANGED main
  /\ UNCHANGED <<configVars, attempt, connected, interrupted, servingVars>>

Main ==
  \/ LoadConfig \/ PingRedis \/ StartTelemetry \/ OpenPool \/ PingDB \/ Serve
  \/ Interrupted \/ Shutdown \/ WaitGroup \/ Cleanup

-----------------------------------------------------------------------------
(* The serving goroutine, the requests, the signal and the timer. *)

MainVars == <<configVars, main, attempt, connected, opened, cleanups>>
Over == main \in {"stopped", "failed"}

\* startAPIServer up to its listener: the TLS files may be unreadable, the port
\* taken, or Echo's server closed already.
Listen ==
  /\ api = "starting" /\ ~Over
  /\ \/ api' = "serving" /\ (config.tls_enabled \/ ~echoClosed)
     \/ api' = "returned"
  /\ UNCHANGED <<MainVars, inFlight, echoClosed, interrupted, timer>>

\* e.Start returns ErrServerClosed as soon as e.Shutdown closed its listeners.
ServerClosed ==
  /\ api = "serving" /\ ~config.tls_enabled /\ echoClosed /\ ~Over
  /\ api' = "returned"
  /\ UNCHANGED <<MainVars, inFlight, echoClosed, interrupted, timer>>

RequestArrives ==
  /\ api = "serving" /\ (config.tls_enabled \/ ~echoClosed) /\ ~Over
  /\ inFlight < MaxInFlight
  /\ inFlight' = inFlight + 1
  /\ UNCHANGED <<MainVars, api, echoClosed, interrupted, timer>>

RequestEnds ==
  /\ inFlight > 0 /\ ~Over
  /\ inFlight' = inFlight - 1
  /\ UNCHANGED <<MainVars, api, echoClosed, interrupted, timer>>

\* SIGINT: signal.NotifyContext cancels the context; later ones do nothing.
Interrupt ==
  /\ ~interrupted /\ ~Over
  /\ interrupted' = TRUE
  /\ UNCHANGED <<MainVars, servingVars>>

TimeIsOver ==
  /\ timer = "running" /\ ~Over
  /\ timer' = "over"
  /\ UNCHANGED <<MainVars, api, inFlight, echoClosed, interrupted>>

Next ==
  \/ Main \/ Listen \/ ServerClosed
  \/ RequestArrives \/ RequestEnds \/ Interrupt \/ TimeIsOver

Spec == Init /\ [][Next]_vars

\* The two goroutines are scheduled and time passes.  Nothing is assumed of the
\* requests (a call of GitHub may take forever) nor of the signal.
FairSpec ==
  /\ Spec
  /\ WF_vars(Main) /\ WF_vars(Listen) /\ WF_vars(ServerClosed) /\ WF_vars(TimeIsOver)

-----------------------------------------------------------------------------
(* Properties. *)

TypeOK ==
  /\ setup \in Setups /\ DOMAIN config = Settings
  /\ main \in MainPcs /\ attempt \in Nat /\ (attempt > 1 => attempt <= config.initial_conn_retry) /\ connected \in BOOLEAN
  /\ opened \subseteq Resources /\ cleanups \in Seq(Resources)
  /\ api \in {"none", "starting", "serving", "returned"}
  /\ inFlight \in 0..MaxInFlight /\ echoClosed \in BOOLEAN /\ interrupted \in BOOLEAN
  /\ timer \in {"off", "running", "over"}

\* As long as the process serves a request, Redis and the database are open: a
\* shutdown that runs out of time leaves them open (Start returns before the
\* cleanups), and a cleanup starts only when no request can arrive any more.
NoUseAfterClose ==
  inFlight > 0 \/ api = "serving" => {"redis", "pool"} \subseteq opened

\* What the operator asked for: the environment, else the file.
Told(s) == IF setup.env[s] # Unset THEN setup.env[s] ELSE setup.file[s]

\* The server listens only after the database answered, and New gives up on it
\* only after the number of attempts the operator asked for, at least one,
\* wherever it was asked for and whenever the interrupt comes.
DatabaseFirst ==
  /\ api # "none" => connected
  /\ main = "failed" /\ attempt > 0 /\ ~connected => attempt >= Told("initial_conn_retry")

\* A file or a variable that makes no sense is never passed over: no resource is
\* opened, and nothing served, with less than the operator asked for.
BadConfigStops ==
  opened # {} \/ api # "none" =>
    setup.file # NoFile /\ \A s \in Settings : setup.env[s] # Unparsable

\* When Start returns nil everything is closed: the listener and every resource
\* that was opened, telemetry included.
StopsClean == main = "stopped" => opened = {} /\ api = "returned" /\ inFlight = 0

\* "Wait for interrupt signal to gracefully shut down the server with a timeout
\* of 10 seconds.": after an interrupt the process ends.
InterruptStops == interrupted ~> Over

\* "allowed_orgs: []  # Set via GITHUB_ALLOWED_ORGS env var": the organizations
\* of the running server are those of the environment, when it names any.
OrganizationsAsTold ==
  main \notin {"load_config", "failed"} => config.allowed_orgs = Told("allowed_orgs")
=============================================================================
