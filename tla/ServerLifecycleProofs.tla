------------------------ MODULE ServerLifecycleProofs ------------------------
(***************************************************************************)
(* Proofs about ServerLifecycle, for every file and environment, with and  *)
(* without TLS and telemetry, for every number of attempts and requests.   *)
(*                                                                         *)
(* The properties relate the ends of a run; the invariant follows main     *)
(* through it: what is loaded, what is open and has a cleanup, and why no  *)
(* request is left when the cleanups begin.                                *)
(***************************************************************************)
EXTENDS ServerLifecycle, SequenceTheorems, TLAPS

Early == {"load_config", "ping_redis", "telemetry", "pool"}
Connecting == Early \cup {"ping_db", "serve"}
Late == {"wait_group", "cleanup", "stopped"}

\* The configuration is what the operator asked for.
Loaded ==
  /\ Loads(setup.file, setup.env)
  /\ config = loadFromEnvRecursive(setup.file, setup.env)

ConfigFirst ==
  main \notin {"load_config", "failed"} \/ opened # {} \/ api # "none" \/ attempt > 0 => Loaded

Attempts ==
  /\ main \in Early => attempt = 0
  /\ main = "ping_db" => attempt = 0 \/ attempt < RetryCount
  /\ main \in {"serve", "wait_interrupt", "shutdown"} \cup Late => connected

\* What is open has a cleanup, and is open as long as it may be used.
Closable(o, c) == \A x \in o : \E i \in DOMAIN c : c[i] = x
Open ==
  /\ main # "failed" => Closable(opened, cleanups)
  /\ main \in {"telemetry", "pool"} => "redis" \in opened
  /\ main \in {"ping_db", "serve", "wait_interrupt", "shutdown", "wait_group"} => {"redis", "pool"} \subseteq opened
  /\ main = "failed" /\ api # "none" => {"redis", "pool"} \subseteq opened

\* Who serves, and when nobody does any more.
Serving ==
  /\ main \in Connecting => api = "none"
  /\ api = "none" => inFlight = 0
  /\ config.tls_enabled /\ api # "serving" => inFlight = 0
  /\ ~config.tls_enabled /\ main \in Late => inFlight = 0
  /\ main \in {"shutdown"} \cup Late => echoClosed
  /\ main \in {"cleanup", "stopped"} => api = "returned"

LInv ==
  TypeOK /\ ConfigFirst /\ Attempts /\ Open /\ Serving /\ DatabaseFirst /\ StopsClean

-----------------------------------------------------------------------------
LEMMA RetryAsTold ==
  ASSUME TypeOK, Loaded
  PROVE  /\ config.initial_conn_retry = Told("initial_conn_retry")
         /\ config.initial_conn_retry \in Int
<1>1. "initial_conn_retry" \in Settings /\ Kind["initial_conn_retry"] = "int"
  BY DEF Settings, Kind
<1>2. /\ setup.file # NoFile /\ setup.file.initial_conn_retry \in Int
      /\ setup.env.initial_conn_retry \in Int \cup {Unset, Unparsable}
  BY SetupsAssumption DEF TypeOK, Loaded, Loads
<1>3. setup.env["initial_conn_retry"] # Unparsable
  BY <1>1 DEF Loaded, Loads, Parses
<1>4. config["initial_conn_retry"] =
        IF setup.env["initial_conn_retry"] # Unset THEN setup.env["initial_conn_retry"]
        ELSE setup.file["initial_conn_retry"]
  BY <1>1 DEF Loaded, loadFromEnvRecursive
<1> QED BY <1>2, <1>3, <1>4 DEF Told

\* A setting that makes no sense has not been loaded.
LEMMA LoadedMakesSense ==
  ASSUME TypeOK, Loaded
  PROVE  setup.file # NoFile /\ \A s \in Settings : setup.env[s] # Unparsable
<1>1. ASSUME NEW s \in Settings PROVE setup.env[s] # Unparsable
  BY SetupsAssumption DEF TypeOK, Loaded, Loads, Parses
<1> QED BY <1>1 DEF Loaded, Loads

LEMMA ConfigDomain ==
  ASSUME NEW file, NEW env
  PROVE  DOMAIN loadFromEnvRecursive(file, env) = Settings
  BY DEF loadFromEnvRecursive

-----------------------------------------------------------------------------
LEMMA InitLInv == Init => LInv
<1> SUFFICES ASSUME Init PROVE LInv
  OBVIOUS
<1>1. TypeOK
  <2>1. cleanups \in Seq(Resources) /\ DOMAIN config = Settings
    BY EmptySeq DEF Init, NoConfig
  <2>2. inFlight \in 0..MaxInFlight /\ attempt \in Nat /\ ~(attempt > 1)
    BY BoundAssumption DEF Init
  <2>3. /\ setup \in Setups /\ main \in MainPcs /\ connected \in BOOLEAN /\ opened \subseteq Resources
        /\ api \in {"none", "starting", "serving", "returned"} /\ echoClosed \in BOOLEAN
        /\ interrupted \in BOOLEAN /\ timer \in {"off", "running", "over"}
    BY DEF Init, MainPcs
  <2> QED BY <2>1, <2>2, <2>3 DEF TypeOK
<1>2. ConfigFirst /\ Attempts /\ Open /\ Serving /\ DatabaseFirst /\ StopsClean
  BY DEF Init, ConfigFirst, Attempts, Open, Closable, Serving, Late, DatabaseFirst, StopsClean
<1> QED BY <1>1, <1>2 DEF LInv

\* The configuration, then New.
LEMMA LoadConfigLInv ==
  ASSUME LInv, LoadConfig
  PROVE  LInv'
<1>1. TypeOK'
  BY ConfigDomain DEF LInv, TypeOK, LoadConfig, servingVars, MainPcs, Attempts, Early
<1>2. Loads(setup.file, setup.env) => Loaded'
  BY DEF LoadConfig, Loaded, Loads
<1>3. api = "none" /\ inFlight = 0 /\ attempt = 0
  BY DEF LInv, LoadConfig, Serving, Attempts, Connecting, Early
<1>4. ConfigFirst'
  BY <1>2, <1>3 DEF LInv, LoadConfig, ConfigFirst, Loaded, Loads, servingVars
<1>5. Attempts' /\ Open' /\ Serving' /\ DatabaseFirst' /\ StopsClean'
  BY <1>3 DEF LInv, LoadConfig, Attempts, Open, Closable, Serving, DatabaseFirst, StopsClean,
       servingVars, Early, Connecting, Late
<1> QED BY <1>1, <1>4, <1>5 DEF LInv

LEMMA PingRedisLInv ==
  ASSUME LInv, PingRedis
  PROVE  LInv'
<1>1. main = "ping_redis" /\ api = "none" /\ inFlight = 0 /\ attempt = 0 /\ Loaded
  BY DEF LInv, PingRedis, Serving, Attempts, Connecting, Early, ConfigFirst
<1>2. cleanups' \in Seq(Resources) /\ (main' # "failed" => Closable(opened', cleanups'))
  <2> DEFINE c == <<"redis">>
  <2>1. c \in Seq(Resources) /\ 1 \in DOMAIN c /\ c[1] = "redis"
    BY DEF Resources
  <2>2. opened' = {"redis"} /\ (cleanups' = c \/ (main' = "failed" /\ cleanups' = cleanups))
    BY DEF PingRedis
  <2> HIDE DEF c
  <2> QED BY <2>1, <2>2 DEF LInv, TypeOK, Closable
<1>3. TypeOK'
  BY <1>2 DEF LInv, TypeOK, PingRedis, configVars, servingVars, MainPcs, Resources
<1>4. ConfigFirst'
  BY <1>1 DEF ConfigFirst, Loaded, Loads, PingRedis, configVars
<1>5. Attempts' /\ Open' /\ Serving' /\ DatabaseFirst' /\ StopsClean'
  BY <1>1, <1>2 DEF PingRedis, Attempts, Open, Serving, DatabaseFirst, StopsClean,
       configVars, servingVars, Early, Connecting, Late
<1> QED BY <1>3, <1>4, <1>5 DEF LInv

LEMMA StartTelemetryLInv ==
  ASSUME LInv, StartTelemetry
  PROVE  LInv'
<1>1. /\ main = "telemetry" /\ api = "none" /\ inFlight = 0 /\ attempt = 0 /\ Loaded
      /\ cleanups \in Seq(Resources) /\ opened \subseteq Resources
      /\ Closable(opened, cleanups) /\ "redis" \in opened
  BY DEF LInv, TypeOK, StartTelemetry, Serving, Attempts, Connecting, Early, ConfigFirst, Open
<1>2. opened' \subseteq Resources /\ "redis" \in opened'
  BY <1>1 DEF StartTelemetry, Resources, Telemeters
<1>3. cleanups' \in Seq(Resources) /\ (main' # "failed" => Closable(opened', cleanups'))
  <2> DEFINE more == <<"tracer", "meter">>
  <2>1. more \in Seq(Resources) /\ Len(more) = 2 /\ more[1] = "tracer" /\ more[2] = "meter"
    BY DEF Resources, Telemeters
  <2> HIDE DEF more
  <2> DEFINE c == cleanups \o more
  <2>2. /\ c \in Seq(Resources) /\ Len(c) = Len(cleanups) + 2
        /\ \A i \in 1..Len(cleanups) : c[i] = cleanups[i]
        /\ c[Len(cleanups) + 1] = "tracer" /\ c[Len(cleanups) + 2] = "meter"
    BY SMTT(30), <1>1, <2>1, ConcatProperties
  <2> HIDE DEF c
  <2>3. /\ DOMAIN cleanups \subseteq DOMAIN c
        /\ Len(cleanups) + 1 \in DOMAIN c /\ Len(cleanups) + 2 \in DOMAIN c
        /\ \A i \in DOMAIN cleanups : c[i] = cleanups[i]
    BY <1>1, <2>2
  <2>4. Closable(opened \cup Telemeters, c)
    BY <1>1, <2>2, <2>3 DEF Closable, Telemeters
  <2> QED BY <1>1, <2>2, <2>4 DEF StartTelemetry, c, more
<1>4. TypeOK'
  BY <1>2, <1>3 DEF LInv, TypeOK, StartTelemetry, configVars, servingVars, MainPcs
<1>5. ConfigFirst'
  BY <1>1 DEF ConfigFirst, Loaded, Loads, StartTelemetry, configVars
<1>6. Attempts' /\ Open' /\ Serving' /\ DatabaseFirst' /\ StopsClean'
  BY <1>1, <1>2, <1>3 DEF StartTelemetry, Attempts, Open, Serving, DatabaseFirst, StopsClean,
       configVars, servingVars, Early, Connecting, Late
<1> QED BY <1>4, <1>5, <1>6 DEF LInv

LEMMA OpenPoolLInv ==
  ASSUME LInv, OpenPool
  PROVE  LInv'
<1>1. /\ main = "pool" /\ api = "none" /\ inFlight = 0 /\ attempt = 0 /\ Loaded
      /\ cleanups \in Seq(Resources) /\ opened \subseteq Resources
      /\ Closable(opened, cleanups) /\ "redis" \in opened
  BY DEF LInv, TypeOK, OpenPool, Serving, Attempts, Connecting, Early, ConfigFirst, Open
<1>2. opened' \subseteq Resources /\ "redis" \in opened' /\ (main' = "ping_db" => "pool" \in opened')
  BY <1>1 DEF OpenPool, Resources
<1>3. cleanups' \in Seq(Resources) /\ (main' # "failed" => Closable(opened', cleanups'))
  <2> DEFINE c == Append(cleanups, "pool")
  <2>1. /\ c \in Seq(Resources) /\ Len(c) = Len(cleanups) + 1
        /\ \A i \in 1..Len(cleanups) : c[i] = cleanups[i]
        /\ c[Len(cleanups) + 1] = "pool"
    BY <1>1, AppendProperties DEF Resources
  <2> HIDE DEF c
  <2>2. /\ DOMAIN cleanups \subseteq DOMAIN c /\ Len(cleanups) + 1 \in DOMAIN c
        /\ \A i \in DOMAIN cleanups : c[i] = cleanups[i]
    BY <1>1, <2>1
  <2>3. Closable(opened \cup {"pool"}, c)
    BY <1>1, <2>1, <2>2 DEF Closable
  <2> QED BY <1>1, <2>1, <2>3 DEF OpenPool, c
<1>4. TypeOK'
  BY <1>2, <1>3 DEF LInv, TypeOK, OpenPool, configVars, servingVars, MainPcs
<1>5. ConfigFirst'
  BY <1>1 DEF ConfigFirst, Loaded, Loads, OpenPool, configVars
<1>6. Attempts' /\ Open' /\ Serving' /\ DatabaseFirst' /\ StopsClean'
  BY <1>1, <1>2, <1>3 DEF OpenPool, Attempts, Open, Serving, DatabaseFirst, StopsClean,
       configVars, servingVars, Early, Connecting, Late
<1> QED BY <1>4, <1>5, <1>6 DEF LInv

LEMMA PingDBLInv ==
  ASSUME LInv, PingDB
  PROVE  LInv'
<1>1. /\ main = "ping_db" /\ api = "none" /\ inFlight = 0 /\ Loaded
      /\ attempt \in Nat /\ (attempt = 0 \/ attempt < RetryCount) /\ attempt' = attempt + 1
      /\ Closable(opened, cleanups) /\ {"redis", "pool"} \subseteq opened
  BY DEF LInv, TypeOK, PingDB, Serving, Attempts, Connecting, ConfigFirst, Open
<1>2. /\ config.initial_conn_retry = Told("initial_conn_retry")
      /\ config.initial_conn_retry \in Int
  BY <1>1, RetryAsTold DEF LInv
<1>3. /\ RetryCount \in Int /\ RetryCount >= Told("initial_conn_retry")
      /\ (RetryCount > 1 => RetryCount = config.initial_conn_retry)
  BY <1>2 DEF RetryCount
<1>4. UNCHANGED <<setup, config, opened, cleanups, interrupted, api, inFlight, echoClosed, timer>>
  BY DEF PingDB, configVars, servingVars
<1>5. TypeOK'
  <2>1. attempt' \in Nat /\ (attempt' > 1 => attempt' <= config.initial_conn_retry)
    BY <1>1, <1>2, <1>3
  <2>2. main' \in MainPcs /\ connected' \in BOOLEAN
    BY DEF LInv, TypeOK, PingDB, MainPcs
  <2> QED BY <1>4, <2>1, <2>2 DEF LInv, TypeOK
<1>6. ConfigFirst'
  BY <1>1, <1>4 DEF ConfigFirst, Loaded, Loads
<1>7. RetryCount' = RetryCount /\ Told("initial_conn_retry")' = Told("initial_conn_retry")
  BY <1>4 DEF RetryCount, Told
<1>8. \/ main' = "serve" /\ connected'
      \/ main' = "ping_db" /\ attempt' < RetryCount /\ connected' = connected
      \/ main' = "failed" /\ ~(attempt' < RetryCount) /\ connected' = connected
  BY DEF PingDB
<1>9. Attempts' /\ Open' /\ Serving' /\ StopsClean'
  BY <1>1, <1>4, <1>7, <1>8 DEF Attempts, Open, Serving, StopsClean, Early, Connecting, Late
<1>10. DatabaseFirst'
  <2>1. main' = "failed" => attempt' >= Told("initial_conn_retry")
    BY <1>1, <1>2, <1>3, <1>8
  <2> QED BY <1>1, <1>4, <1>7, <2>1 DEF DatabaseFirst
<1> QED BY <1>5, <1>6, <1>9, <1>10 DEF LInv

LEMMA ServeLInv ==
  ASSUME LInv, Serve
  PROVE  LInv'
<1>1. /\ main = "serve" /\ api = "none" /\ inFlight = 0 /\ Loaded /\ connected
      /\ Closable(opened, cleanups) /\ {"redis", "pool"} \subseteq opened
  BY DEF LInv, Serve, Serving, Attempts, Connecting, ConfigFirst, Open
<1>2. UNCHANGED <<setup, config, attempt, connected, opened, cleanups, inFlight, echoClosed, interrupted, timer>>
  BY DEF Serve, configVars
<1>3. TypeOK'
  BY <1>2 DEF LInv, TypeOK, Serve, MainPcs
<1>4. ConfigFirst'
  BY <1>1, <1>2 DEF ConfigFirst, Loaded, Loads
<1>5. Attempts' /\ Open' /\ Serving' /\ DatabaseFirst' /\ StopsClean'
  BY <1>1, <1>2 DEF Serve, Attempts, Open, Serving, DatabaseFirst, StopsClean, Early, Connecting, Late
<1> QED BY <1>3, <1>4, <1>5 DEF LInv

\* From the interrupt to the cleanups.
LEMMA ShutdownLInv ==
  ASSUME LInv, Interrupted \/ Shutdown \/ WaitGroup
  PROVE  LInv'
<1>1. main \in {"wait_interrupt", "shutdown", "wait_group"} /\ Loaded /\ connected
  BY DEF LInv, Interrupted, Shutdown, WaitGroup, Attempts, Late, ConfigFirst
<1>2. /\ UNCHANGED <<setup, config, attempt, connected, opened, cleanups, api, inFlight, interrupted>>
  BY DEF Interrupted, Shutdown, WaitGroup, configVars, servingVars
<1>3. TypeOK'
  BY <1>2 DEF LInv, TypeOK, Interrupted, Shutdown, WaitGroup, servingVars, MainPcs
<1>4. ConfigFirst'
  BY <1>1, <1>2 DEF ConfigFirst, Loaded, Loads
<1>5. Attempts' /\ Open' /\ DatabaseFirst' /\ StopsClean'
  BY <1>1, <1>2 DEF LInv, Interrupted, Shutdown, WaitGroup, Attempts, Open, DatabaseFirst, StopsClean,
       Early, Connecting, Late
<1>6. Serving'
  BY <1>1, <1>2 DEF LInv, Interrupted, Shutdown, WaitGroup, EchoInFlight, Serving, servingVars,
       Early, Connecting, Late
<1> QED BY <1>3, <1>4, <1>5, <1>6 DEF LInv

LEMMA CleanupLInv ==
  ASSUME LInv, Cleanup
  PROVE  LInv'
<1>1. /\ main = "cleanup" /\ Loaded /\ connected /\ cleanups \in Seq(Resources)
      /\ opened \subseteq Resources /\ Closable(opened, cleanups)
  BY DEF LInv, TypeOK, Cleanup, Attempts, Late, ConfigFirst, Open
<1>2. UNCHANGED <<setup, config, attempt, connected, interrupted, api, inFlight, echoClosed, timer>>
  BY DEF Cleanup, configVars, servingVars
<1>3. api = "returned" /\ inFlight = 0 /\ echoClosed
  BY <1>1 DEF LInv, Serving, Late
<1>4. CASE cleanups = <<>>
  <2>1. opened = {} /\ opened' = {} /\ cleanups' = cleanups /\ main' = "stopped"
    BY <1>1, <1>4 DEF Cleanup, Closable
  <2>2. TypeOK'
    BY <1>2, <2>1 DEF LInv, TypeOK, MainPcs
  <2>3. ConfigFirst' /\ Attempts' /\ Open' /\ Serving' /\ DatabaseFirst' /\ StopsClean'
    BY <1>1, <1>2, <1>3, <2>1 DEF LInv, ConfigFirst, Loaded, Loads, Attempts, Open, Closable, Serving,
         DatabaseFirst, StopsClean, Early, Connecting, Late
  <2> QED BY <2>2, <2>3 DEF LInv
<1>5. CASE cleanups # <<>>
  <2> DEFINE t == Tail(cleanups)
  <2>1. opened' = opened \ {Head(cleanups)} /\ cleanups' = t /\ main' = main
    BY <1>5 DEF Cleanup
  <2>2. /\ t \in Seq(Resources) /\ Len(t) = Len(cleanups) - 1 /\ Head(cleanups) = cleanups[1]
        /\ \A i \in 1..Len(t) : t[i] = cleanups[i + 1]
    BY <1>1, <1>5, HeadTailProperties
  <2> HIDE DEF t
  <2>3. Closable(opened', t)
    <3> SUFFICES ASSUME NEW x \in opened' PROVE \E i \in DOMAIN t : t[i] = x
      BY DEF Closable
    <3>1. PICK i \in DOMAIN cleanups : cleanups[i] = x
      BY <1>1, <2>1 DEF Closable
    <3>2. i \in 1..Len(cleanups) /\ i # 1 /\ Len(cleanups) \in Nat
      BY <1>1, <2>1, <2>2, <3>1
    <3>3. i - 1 \in 1..Len(t) /\ (i - 1) + 1 = i
      BY <2>2, <3>2
    <3>4. t[i - 1] = x
      BY <2>2, <3>1, <3>3
    <3> QED BY <2>2, <3>3, <3>4
  <2>4. TypeOK'
    BY <1>1, <1>2, <2>1, <2>2 DEF LInv, TypeOK
  <2>5. ConfigFirst' /\ Attempts' /\ Open' /\ Serving' /\ DatabaseFirst' /\ StopsClean'
    BY <1>1, <1>2, <1>3, <2>1, <2>3 DEF LInv, ConfigFirst, Loaded, Loads, Attempts, Open, Serving,
         DatabaseFirst, StopsClean, Early, Connecting, Late
  <2> QED BY <2>4, <2>5 DEF LInv
<1> QED BY <1>4, <1>5

-----------------------------------------------------------------------------
\* Main stands still.
LEMMA ApiLInv ==
  ASSUME LInv, Listen \/ ServerClosed \/ RequestArrives \/ RequestEnds \/ Interrupt \/ TimeIsOver
  PROVE  LInv'
<1>1. UNCHANGED <<setup, config, main, attempt, connected, opened, cleanups>>
  BY DEF Listen, ServerClosed, RequestArrives, RequestEnds, Interrupt, TimeIsOver, MainVars, configVars
<1>2. main \notin {"stopped", "failed"}
  BY DEF Listen, ServerClosed, RequestArrives, RequestEnds, Interrupt, TimeIsOver, Over
<1>3. api = "none" => api' = "none"
  BY DEF Listen, ServerClosed, RequestArrives, RequestEnds, Interrupt, TimeIsOver, servingVars
<1>4. inFlight \in 0..MaxInFlight /\ inFlight' \in 0..MaxInFlight
  BY BoundAssumption DEF LInv, TypeOK, Listen, ServerClosed, RequestArrives, RequestEnds, Interrupt, TimeIsOver, servingVars
<1>5. TypeOK'
  BY <1>1, <1>4 DEF LInv, TypeOK, Listen, ServerClosed, RequestArrives, RequestEnds, Interrupt, TimeIsOver, servingVars
<1>6. ConfigFirst' /\ Attempts' /\ Open' /\ StopsClean'
  BY <1>1, <1>2, <1>3 DEF LInv, ConfigFirst, Loaded, Loads, Attempts, RetryCount, Open, StopsClean
<1>7. DatabaseFirst'
  BY <1>1, <1>2, <1>3 DEF LInv, DatabaseFirst, Told
<1>8. echoClosed' = echoClosed
  BY DEF Listen, ServerClosed, RequestArrives, RequestEnds, Interrupt, TimeIsOver, servingVars
<1>9. Serving'
  <2>1. CASE Listen
    BY <1>1, <1>8, <2>1 DEF LInv, Listen, Serving, Connecting, Early, Late
  <2>2. CASE ServerClosed
    BY <1>1, <1>8, <2>2 DEF LInv, ServerClosed, Serving, Connecting, Early, Late
  <2>3. CASE RequestArrives
    BY <1>1, <1>8, <2>3 DEF LInv, RequestArrives, Serving, Connecting, Early, Late
  <2>4. CASE RequestEnds
    BY <1>1, <1>4, <1>8, <2>4 DEF LInv, RequestEnds, Serving, Connecting, Early, Late
  <2>5. CASE Interrupt \/ TimeIsOver
    BY <1>1, <1>8, <2>5 DEF LInv, Interrupt, TimeIsOver, servingVars, Serving, Connecting, Early, Late
  <2> QED BY <2>1, <2>2, <2>3, <2>4, <2>5
<1> QED BY <1>5, <1>6, <1>7, <1>9 DEF LInv

LEMMA StepLInv == LInv /\ [Next]_vars => LInv'
<1> SUFFICES ASSUME LInv, [Next]_vars PROVE LInv'
  OBVIOUS
<1>1. CASE UNCHANGED vars
  BY <1>1 DEF vars, LInv, TypeOK, ConfigFirst, Loaded, Loads, Attempts, RetryCount, Open, Serving,
       DatabaseFirst, Told, StopsClean
<1>2. CASE Main
  BY <1>2, LoadConfigLInv, PingRedisLInv, StartTelemetryLInv, OpenPoolLInv, PingDBLInv, ServeLInv,
     ShutdownLInv, CleanupLInv DEF Main
<1>3. CASE Listen \/ ServerClosed \/ RequestArrives \/ RequestEnds \/ Interrupt \/ TimeIsOver
  BY <1>3, ApiLInv
<1> QED BY <1>1, <1>2, <1>3 DEF Next

\* The type invariant; in particular the database is never asked more often than
\* the configuration says.
THEOREM LifecycleTypes == Spec => []TypeOK
<1>1. LInv => TypeOK
  BY DEF LInv
<1> QED BY InitLInv, StepLInv, <1>1, PTL DEF Spec

\* While a request is served, or may arrive, Redis and the database are open,
\* with TLS and without, however many requests there are.
THEOREM OpenWhileServing == Spec => []NoUseAfterClose
<1>1. LInv => NoUseAfterClose
  <2> SUFFICES ASSUME LInv, inFlight > 0 \/ api = "serving" PROVE {"redis", "pool"} \subseteq opened
    BY DEF NoUseAfterClose
  <2>1. main \in MainPcs /\ inFlight \in Nat
    BY DEF LInv, TypeOK
  <2>2. main \notin Connecting /\ api # "none"
    BY <2>1 DEF LInv, Serving
  <2>3. main \notin {"cleanup", "stopped"}
    BY <2>1 DEF LInv, Serving, Late
  <2>4. main \in {"wait_interrupt", "shutdown", "wait_group", "failed"}
    BY <2>1, <2>2, <2>3 DEF MainPcs, Connecting, Early
  <2> QED BY <2>2, <2>4 DEF LInv, Open
<1> QED BY InitLInv, StepLInv, <1>1, PTL DEF Spec

\* The server listens only after the database answered, and gives up on it only
\* after the number of attempts the operator asked for.
THEOREM DatabaseAnswered == Spec => []DatabaseFirst
<1>1. LInv => DatabaseFirst
  BY DEF LInv
<1> QED BY InitLInv, StepLInv, <1>1, PTL DEF Spec

\* Nothing is opened or served on a file or an environment that makes no sense,
\* for every file and every environment.
THEOREM NonsenseStops == Spec => []BadConfigStops
<1>1. LInv => BadConfigStops
  BY LoadedMakesSense DEF LInv, ConfigFirst, BadConfigStops
<1> QED BY InitLInv, StepLInv, <1>1, PTL DEF Spec

\* When Start returns nil, every resource that was opened has been closed.
THEOREM CleanStop == Spec => []StopsClean
<1>1. LInv => StopsClean
  BY DEF LInv
<1> QED BY InitLInv, StepLInv, <1>1, PTL DEF Spec
===============================================================================
