----------------------------- MODULE MCServices -----------------------------
(* Services that wait and that answer late, each with its own state: the     *)
(* circuit breaker of QstashQueue (three failures open it, two successes     *)
(* close it), the rate limiter of the queue, the flood control of Telegram,  *)
(* the providers of the cache, one queue whose callers share a publish, and  *)
(* a configuration that changes under the process; with the shutdown by      *)
(* dependencies, which no other file uses.  A behaviour is of one of them.   *)
EXTENDS CircuitBreaker

CONSTANTS Requests, Window, MinLimit, MaxLimit, StartLimit,
          Tasks, First, Low, High, MaxRetries, ShortWaits, LongWaits, MaxFloods,
          Ranks, Failures, MaxOutages, MaxSwitches,
          Queues, Callers, Keys, None,
          Values, Absent, Services, Reloads, MaxEdits, MaxErrors,
          Hooks, MaxSignals

VARIABLES part, limit, tokens, age, waiting, running, timer, drains,
          phase, retries, pause, concurrency, outcomes, settled, cooling,
          remote, recheck, told, shortened, floods,
          reach, conn, stage, primary, drop, failover, failed, check, probe, switch,
          outages, switches, rushed, degraded,
          processed, sharing, redis, accepted, dlq, stored, pub, lastId, faults,
          service, polling, source, fetch, current, env, reload, active, up, builder, alive,
          edits, errors,
          hooks, mode, place, waits, unended, stuck, heart, signals

RL == INSTANCE RateLimit
FC == INSTANCE FloodControl
CP == INSTANCE CacheProviders WITH phase <- stage, timer <- check

\* One key, a queue of one process, an entry in the list of dead letters.
QP == INSTANCE QueuePublish WITH
        inFlight <- sharing, UseRedis <- TRUE, RawClient <- FALSE, LocalLimit <- 1,
        MaxDlq <- 1, MaxFaults <- 1

CR == INSTANCE ConfigReload

\* h1 needs h2, which needs h3, though their priorities say otherwise; h4 has no part in it.
OS == INSTANCE OrderedShutdown WITH
        phase <- mode, running <- unended,
        Needs <- [h1 |-> <<"h2", "h4">>, h2 |-> <<"h3">>, h3 |-> <<>>, h4 |-> <<>>],
        Priorities <- [h1 |-> 10, h2 |-> 20, h3 |-> 20, h4 |-> 10]

rlVars == <<limit, tokens, age, waiting, running, timer, drains>>
fcVars == <<phase, retries, pause, concurrency, outcomes, settled, cooling,
            remote, recheck, told, shortened, floods>>
cpVars == <<reach, conn, stage, primary, drop, failover, failed, check, probe, switch,
            outages, switches, rushed, degraded>>
qpVars == <<processed, sharing, redis, accepted, dlq, stored, pub, lastId, faults>>
crVars == <<service, polling, source, fetch, current, env, reload, active, up, builder, alive,
            edits, errors>>
osVars == <<hooks, mode, place, waits, unended, stuck, heart, signals>>
allVars == <<part, breakerVars, rlVars, fcVars, cpVars, qpVars, crVars, osVars>>

ServicesInit ==
  /\ part \in {"breaker", "rate", "flood", "providers", "queue", "reload", "shutdown"}
  /\ BreakerInit /\ RL!RateInit /\ FC!FloodInit /\ QP!QueueInit /\ OS!OrderedInit
  /\ CR!ReloadInit /\ (part # "reload" => service = "cache" /\ ~polling /\ source = Absent)
  /\ CP!ProviderInit /\ (part # "providers" => reach = Ranks)

InBreaker(A) == part = "breaker" /\ A
                /\ UNCHANGED <<part, rlVars, fcVars, cpVars, qpVars, crVars, osVars>>
InRate(A)    == part = "rate" /\ A
                /\ UNCHANGED <<part, breakerVars, fcVars, cpVars, qpVars, crVars, osVars>>
InFlood(A)   == part = "flood" /\ A
                /\ UNCHANGED <<part, breakerVars, rlVars, cpVars, qpVars, crVars, osVars>>
InCache(A)   == part = "providers" /\ A
                /\ UNCHANGED <<part, breakerVars, rlVars, fcVars, qpVars, crVars, osVars>>
InQueue(A)   == part = "queue" /\ A
                /\ UNCHANGED <<part, breakerVars, rlVars, fcVars, cpVars, crVars, osVars>>
InReload(A)  == part = "reload" /\ A
                /\ UNCHANGED <<part, breakerVars, rlVars, fcVars, cpVars, qpVars, osVars>>
InShut(A)    == part = "shutdown" /\ A
                /\ UNCHANGED <<part, breakerVars, rlVars, fcVars, cpVars, qpVars, crVars>>

ServicesNext ==
  \/ InBreaker(BreakerNext) \/ InRate(RL!RateNext) \/ InFlood(FC!FloodNext)
  \/ InCache(CP!ProviderNext) \/ InQueue(QP!QueueNext) \/ InReload(CR!ReloadNext)
  \/ InShut(OS!OrderedNext)

\* What each service is owed: time passes, calls are made and end, microtasks and
\* timers run.  A task that has retried often enough no longer waits for its slot.
ServicesFairness ==
  /\ WF_allVars(InBreaker(CoolDown))
  /\ \A c \in Executions : WF_allVars(InBreaker(Execute(c))) /\ WF_allVars(InBreaker(Succeed(c)))
  /\ WF_allVars(InRate(RL!Tick)) /\ WF_allVars(InRate(RL!DrainMicrotask))
  /\ WF_allVars(InRate(RL!TimerFires))
  /\ WF_allVars(InFlood(FC!Second30))
  /\ \A t \in Tasks :
       /\ SF_allVars(InFlood(FC!Run(t)))
       /\ WF_allVars(InFlood(FC!CheckCooling(t))) /\ WF_allVars(InFlood(FC!Cooled(t)))
       /\ WF_allVars(InFlood(FC!Succeed(t))) /\ WF_allVars(InFlood(FC!Retry(t)))
  /\ WF_allVars(InCache(CP!Connect)) /\ WF_allVars(InCache(CP!Choose))
  /\ \A p \in Ranks :
       WF_allVars(InCache(CP!Opens(p))) /\ WF_allVars(InCache(CP!CloseBegins(p) \/ CP!CloseEnds(p)))
  /\ WF_allVars(InCache(CP!SimpleCheck \/ CP!SimpleCheckEnds))
  /\ \A c \in Callers : WF_allVars(InQueue(QP!Proceed(c)))
  /\ WF_allVars(InReload(CR!Fetch("timer"))) /\ WF_allVars(InReload(CR!Land("timer")))
  /\ WF_allVars(InReload(\E r \in Reloads : CR!Reloading(r)))
  /\ WF_allVars(InShut(OS!BeginHook \/ OS!GiveUpHook \/ OS!Complete))

ServicesSpec == ServicesInit /\ [][ServicesNext]_allVars /\ ServicesFairness

ProvidersHold == CP!ProvidersHold

\* What is kept up while the process changes under it: its configuration, and the order of a
\* shutdown.
ChangesHold == CR!ReloadHolds /\ OS!OrderedHolds

\* Every call of a limited service comes through, in turn to the queue's own limiter and past
\* a cooling time to Telegram, and every caller of a shared publish is answered.
CallsComeThrough == RL!RateHolds /\ FC!FloodHolds /\ QP!CallReturns

=============================================================================
