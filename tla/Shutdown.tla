------------------------------- MODULE Shutdown -------------------------------
(* The start and the end of one process: main of index.js, AppInitializer,   *)
(* the hooks of lifecycle.js and GracefulShutdown.  A process loads its      *)
(* configuration, opens its core services, registers its hooks, listens, and *)
(* starts its business modules.  A signal or a fatal error stops the HTTP    *)
(* server, waits until the running tasks are drained, runs the other hooks   *)
(* in the order of their priority against a timer, and exits.  SIGUSR2 goes  *)
(* the same way without the hooks and starts the business modules again.     *)
(*                                                                           *)
(* A webhook request is one running task until it is answered; a task the    *)
(* processor recovered at its start has no request.                          *)
EXTENDS Naturals, Sequences

CONSTANTS
  MaxRequests,  \* open webhook requests at a time
  DrainTicks,   \* taskDrainTimeout, in checks of one second
  StallTicks,   \* checks without progress after which draining gives up (20)
  MaxCalls      \* bound on the requests to shut down

ASSUME ShutdownAssumption ==
  MaxRequests \in Nat /\ DrainTicks \in Nat /\ StallTicks \in Nat /\ MaxCalls \in Nat

VARIABLES
  boot,       \* the step main is at
  registered, \* registerShutdownHooks has run
  listening,  \* the HTTP server accepts connections
  requests,   \* open webhook requests, each a running task
  recovered,  \* running tasks that TaskManager.init recovered
  stage,      \* where shutdown() is; "no" when isShuttingDown is false
  reload,     \* reloadMode of that shutdown
  lastCount, quiet, ticks,  \* drainTasks: last count, checks without progress, checks
  hook,       \* the next hook of executeCleanupHooks
  cleaned,    \* hooks that ended without an error
  restart,    \* the timer that starts the business modules again is set
  exitCode,
  fatal,      \* history: an error that is not recoverable was raised
  gaveUp,     \* history: draining ended with tasks left
  early,      \* history: the shutdown began while modules were still to start
  calls

shutdownVars == <<boot, registered, listening, requests, recovered, stage,
                  reload, lastCount, quiet, ticks, hook, cleaned, restart, exitCode,
                  fatal, gaveUp, early, calls>>

bootVars  == <<boot, registered, recovered, restart>>
drainVars == <<lastCount, quiet, ticks>>
hookVars  == <<hook, cleaned>>
pastVars  == <<fatal, gaveUp, early, calls>>

\* The hooks by priority (30, 40, 50); those that touch nothing the model keeps are
\* left out; two stand for those that still need the cache.
Hooks == <<"instance-coordinator", "queue-service", "cache-service">>

Alive == stage # "exited"

ShutdownInit ==
  /\ boot = "config" /\ registered = FALSE /\ listening = FALSE
  /\ requests = 0 /\ recovered = 0
  /\ stage = "no" /\ reload = FALSE
  /\ lastCount = 0 /\ quiet = 0 /\ ticks = 0
  /\ hook = 1 /\ cleaned = {}
  /\ restart = FALSE /\ exitCode = 0
  /\ fatal = FALSE /\ gaveUp = FALSE /\ early = FALSE /\ calls = 0

-----------------------------------------------------------------------------
\* Requests to shut down

\* getTaskCountFn: processing plus waiting tasks.
TaskCount == requests + recovered

\* Mutant: the hook of the HTTP server waits for its turn among the others.
EnterShutdownOpen(reloadMode, unfinished) ==
  IF stage # "no"
  THEN UNCHANGED <<stage, reload, listening, drainVars, hookVars, gaveUp, early>>
  ELSE /\ stage' = IF registered THEN "drain" ELSE "hooks"
       /\ reload' = reloadMode /\ UNCHANGED listening
       /\ lastCount' = 0 /\ quiet' = 0 /\ ticks' = 0
       /\ hook' = (IF registered THEN 1 ELSE Len(Hooks) + 1) /\ cleaned' = {}
       /\ gaveUp' = FALSE /\ early' = unfinished

\* shutdown() up to its first await: a second request is ignored; otherwise the
\* HTTP server stops accepting, when it is there and its hook is registered.
\* Without hooks there is no task counter either, and nothing to wait for.
EnterShutdown(reloadMode, unfinished) ==
  IF stage # "no"
  THEN UNCHANGED <<stage, reload, listening, drainVars, hookVars, gaveUp, early>>
  ELSE /\ stage' = IF ~registered THEN "hooks" ELSE IF listening THEN "http" ELSE "drain"
       /\ reload' = reloadMode
       /\ listening' = (listening /\ ~registered)
       /\ lastCount' = 0 /\ quiet' = 0 /\ ticks' = 0
       /\ hook' = (IF registered THEN 1 ELSE Len(Hooks) + 1) /\ cleaned' = {}
       /\ gaveUp' = FALSE /\ early' = unfinished

\* Modules that main, or the restart after a reload, has still to start.
Unfinished == boot \notin {"up", "failed"} \/ restart

\* SIGTERM or SIGINT; within five minutes of the start the exit code becomes 125.
Signal ==
  /\ Alive /\ calls < MaxCalls
  /\ calls' = calls + 1
  /\ exitCode' \in {125, exitCode}
  /\ EnterShutdown(FALSE, Unfinished)
  /\ UNCHANGED <<bootVars, requests, fatal>>

\* SIGUSR2.
ReloadSignal ==
  /\ Alive /\ calls < MaxCalls
  /\ calls' = calls + 1
  /\ EnterShutdown(TRUE, Unfinished)
  /\ UNCHANGED <<bootVars, requests, exitCode, fatal>>

\* uncaughtException and unhandledRejection with an error that isRecoverableError
\* does not list; the listed ones change nothing.
FatalError ==
  /\ Alive /\ calls < MaxCalls
  /\ calls' = calls + 1
  /\ fatal' = TRUE /\ exitCode' = 1
  /\ EnterShutdown(FALSE, Unfinished)
  /\ UNCHANGED <<bootVars, requests>>

-----------------------------------------------------------------------------
\* main

\* initConfig and validateConfig.  A configuration that lacks what is needed starts
\* a shutdown and ends initialize(); main does not look at that and goes on, and
\* start() initializes a second time with the same result.
LoadConfig ==
  /\ Alive /\ boot = "config"
  /\ \/ boot' = "core" /\ UNCHANGED <<exitCode, stage, reload, listening, drainVars, hookVars, gaveUp, early>>
     \/ boot' = "http" /\ exitCode' = 1 /\ EnterShutdown(FALSE, TRUE)
     \/ boot' = "failed" /\ exitCode' = 1 /\ EnterShutdown(FALSE, restart)
  /\ UNCHANGED <<registered, recovered, restart, requests, fatal, calls>>

\* initializeCoreServices, then registerShutdownHooks; an error ends main.
OpenCore ==
  /\ Alive /\ boot = "core"
  /\ \/ /\ boot' = "http" /\ registered' = TRUE
        /\ UNCHANGED <<exitCode, stage, reload, listening, drainVars, hookVars, gaveUp, early>>
     \/ /\ boot' = "failed" /\ exitCode' = 1 /\ EnterShutdown(FALSE, restart)
        /\ UNCHANGED registered
  /\ UNCHANGED <<recovered, restart, requests, fatal, calls>>

\* HttpServer.start; an error ends main.
Listen ==
  /\ Alive /\ boot = "http"
  /\ \/ /\ boot' = "business" /\ listening' = TRUE
        /\ UNCHANGED <<exitCode, stage, reload, drainVars, hookVars, gaveUp, early>>
     \/ boot' = "failed" /\ exitCode' = 1 /\ EnterShutdown(FALSE, restart)
  /\ UNCHANGED <<registered, recovered, restart, requests, fatal, calls>>

\* startBusinessModules: coordinator, dispatcher and processor, each of which may
\* fail without an effect on the others; TaskManager.init may find stalled tasks.
StartBusiness ==
  /\ Alive /\ boot = "business"
  /\ boot' = "up"
  /\ recovered' \in {recovered, 1}
  /\ UNCHANGED <<registered, restart, listening, requests, stage, reload,
                 drainVars, hookVars, exitCode, pastVars>>

\* A second after a reload: startBusinessModules of a new AppInitializer, which
\* believes that none is running.
Restart ==
  /\ Alive /\ restart /\ boot \in {"up", "failed"}
  /\ restart' = FALSE /\ boot' = "business"
  /\ UNCHANGED <<registered, recovered, listening, requests, stage, reload,
                 drainVars, hookVars, exitCode, pastVars>>

-----------------------------------------------------------------------------
\* Work

AcceptWebhook ==
  /\ Alive /\ listening /\ requests < MaxRequests
  /\ requests' = requests + 1
  /\ UNCHANGED <<bootVars, listening, stage, reload, drainVars, hookVars,
                 exitCode, pastVars>>

AnswerWebhook ==
  /\ Alive /\ requests > 0
  /\ requests' = requests - 1
  /\ UNCHANGED <<bootVars, listening, stage, reload, drainVars, hookVars,
                 exitCode, pastVars>>

RecoveredEnds ==
  /\ Alive /\ recovered > 0
  /\ recovered' = recovered - 1
  /\ UNCHANGED <<boot, registered, restart, listening, requests, stage, reload,
                 drainVars, hookVars, exitCode, pastVars>>

-----------------------------------------------------------------------------
\* shutdown() after its first await

\* The hook of the HTTP server resolves when the last open request is answered; no
\* timer limits it.
ServerClosed ==
  /\ stage = "http" /\ requests = 0
  /\ stage' = "drain"
  /\ UNCHANGED <<bootVars, listening, requests, reload, drainVars, hookVars,
                 exitCode, pastVars>>

\* A check of drainTasks ends the draining when no task is left, when it has lasted
\* too long or when too many checks in a row have counted the same.
Drained == TaskCount = 0
GivesUp(quietNow, ticksNow) == ticksNow > DrainTicks \/ quietNow > StallTicks

DrainTick ==
  /\ stage = "drain"
  /\ LET quietNow == IF TaskCount = lastCount THEN quiet + 1 ELSE 0
         over     == ~Drained /\ GivesUp(quietNow, ticks + 1)
     IN /\ IF Drained \/ over
           THEN stage' = "hooks" /\ lastCount' = 0 /\ quiet' = 0 /\ ticks' = 0
           ELSE /\ stage' = "drain" /\ lastCount' = TaskCount
                /\ quiet' = quietNow /\ ticks' = ticks + 1
        /\ gaveUp' = (gaveUp \/ over)
  /\ UNCHANGED <<bootVars, listening, requests, reload, hookVars, exitCode,
                 fatal, early, calls>>

\* executeCleanupHooks: a hook ends, with or without an error, and the next one is
\* called.  After the timer has fired the loop goes on until the process is gone.
RunHook ==
  /\ stage \in {"hooks", "logs", "exiting"} /\ ~reload /\ hook <= Len(Hooks)
  /\ hook' = hook + 1
  /\ cleaned' \in {cleaned, cleaned \union {Hooks[hook]}}
  /\ UNCHANGED <<bootVars, listening, requests, stage, reload, drainVars, exitCode,
                 pastVars>>

HooksDone ==
  /\ stage = "hooks" /\ ~reload /\ hook > Len(Hooks)
  /\ stage' = "logs"
  /\ UNCHANGED <<bootVars, listening, requests, reload, drainVars, hookVars,
                 exitCode, pastVars>>

\* Thirty seconds after the hooks were begun.
HooksTimeout ==
  /\ stage = "hooks" /\ ~reload /\ hook <= Len(Hooks)
  /\ stage' = "logs" /\ exitCode' = 1
  /\ UNCHANGED <<bootVars, listening, requests, reload, drainVars, hookVars,
                 pastVars>>

\* In reload mode every hook is skipped, as none is registered with requiresCleanup;
\* the HTTP server stays closed.
ReloadDone ==
  /\ stage = "hooks" /\ reload
  /\ stage' = "no" /\ restart' = TRUE
  /\ UNCHANGED <<boot, registered, recovered, listening, requests, reload,
                 drainVars, hookVars, exitCode, pastVars>>

\* flushFinalLogs, then a second for the log collector, then process.exit.
LogsFlushed ==
  /\ stage = "logs"
  /\ stage' = "exiting"
  /\ UNCHANGED <<bootVars, listening, requests, reload, drainVars, hookVars,
                 exitCode, pastVars>>

Exit ==
  /\ stage = "exiting"
  /\ stage' = "exited"
  /\ UNCHANGED <<bootVars, listening, requests, reload, drainVars, hookVars,
                 exitCode, pastVars>>

-----------------------------------------------------------------------------
ShutdownNext ==
  \/ Signal \/ ReloadSignal \/ FatalError
  \/ LoadConfig \/ OpenCore \/ Listen \/ StartBusiness \/ Restart
  \/ AcceptWebhook \/ AnswerWebhook \/ RecoveredEnds
  \/ ServerClosed \/ DrainTick \/ RunHook \/ HooksDone \/ HooksTimeout \/ ReloadDone
  \/ LogsFlushed \/ Exit

\* Requests are answered and timers fire; recovered tasks and hooks may never end.
Progress ==
  ServerClosed \/ DrainTick \/ HooksDone \/ HooksTimeout \/ ReloadDone \/ LogsFlushed \/ Exit

ShutdownFairness == WF_shutdownVars(AnswerWebhook) /\ WF_shutdownVars(Progress)

ShutdownSpec == ShutdownInit /\ [][ShutdownNext]_shutdownVars /\ ShutdownFairness

-----------------------------------------------------------------------------
\* Properties

\* Every variable has its type.
ShutdownTypeOK ==
  /\ boot \in {"config", "core", "http", "business", "up", "failed"}
  /\ registered \in BOOLEAN /\ listening \in BOOLEAN
  /\ requests \in 0..MaxRequests /\ recovered \in 0..1
  /\ stage \in {"no", "http", "drain", "hooks", "logs", "exiting", "exited"}
  /\ reload \in BOOLEAN
  /\ lastCount \in 0..(MaxRequests + 1) /\ quiet \in 0..StallTicks
  /\ ticks \in 0..DrainTicks
  /\ hook \in 1..(Len(Hooks) + 1) /\ cleaned \subseteq {Hooks[i] : i \in DOMAIN Hooks}
  /\ restart \in BOOLEAN /\ exitCode \in {0, 1, 125}
  /\ fatal \in BOOLEAN /\ gaveUp \in BOOLEAN /\ early \in BOOLEAN
  /\ calls \in 0..MaxCalls

\* The cache is not closed under a running task, unless draining gave up or modules
\* were still being started when the shutdown began.
CacheOutlivesTasks ==
  "cache-service" \in cleaned /\ stage # "no" => TaskCount = 0 \/ gaveUp \/ early

\* The supervisor is told: a process that an unrecoverable error ended, or that ran
\* out of time, or that never came up, does not exit with 0.
FailureIsReported ==
  stage = "exited" /\ exitCode = 0
    => ~fatal /\ boot # "failed" /\ (registered => hook > Len(Hooks))

\* A shutdown comes to an end although tasks and hooks may hang: with the exit of the
\* process or, for a reload, with the process taking requests to stop again.
ShutdownEnds ==
  /\ (stage # "no" /\ ~reload) ~> (stage = "exited")
  /\ (stage # "no" /\ reload) ~> (stage = "no")

\* The shutdown ends, the cache outlives what needs it, a failure shows.
ShutdownHolds == [](ShutdownTypeOK /\ CacheOutlivesTasks /\ FailureIsReported) /\ ShutdownEnds

=============================================================================
