---------------------------- MODULE CacheProviders ----------------------------
(* Which provider CacheService works with: all are connected at once at the   *)
(* start, the first in the order of priority is taken and the others are let  *)
(* go; errors put the cache into failover mode, where it keeps to its memory  *)
(* until a check of recovery succeeds; enhancedFailover and switchToProvider  *)
(* take another one.  A connection is that of RedisCache (ioredis).           *)
EXTENDS Naturals

CONSTANTS
  Ranks,         \* the providers by priority, 1..N
  Failures,      \* maxFailuresBeforeFailover
  MaxOutages,    \* bound on providers that stop or start to answer
  MaxSwitches    \* bound on calls of enhancedFailover and switchToProvider

VARIABLES
  reach,         \* providers that answer
  conn,          \* connection of each
  phase,         \* new, connecting, ready
  primary,       \* primaryProvider, 0 for none
  drop,          \* providers to be disconnected once their connection stands
  failover,      \* isFailoverMode
  failed,        \* failureCount
  timer,         \* recoveryTimer: none, simple, enhanced
  probe,         \* provider that the callback of the timer waits for, 0 for none
  switch,        \* call under way, and the provider it connects
  outages, switches,
  rushed,        \* history: a provider was taken while a connection was being made or closed
  degraded       \* history: enhancedFailover found no other provider

providerVars == <<reach, conn, phase, primary, drop, failover, failed, timer, probe, switch,
                  outages, switches, rushed, degraded>>

Count == CHOOSE n \in Ranks : \A m \in Ranks : m <= n
NoSwitch == [kind |-> "none", to |-> 0]

ProviderInit ==
  /\ reach \in SUBSET Ranks
  /\ conn = [p \in Ranks |-> "off"] /\ phase = "new" /\ primary = 0 /\ drop = {}
  /\ failover = FALSE /\ failed = 0 /\ timer = "none" /\ probe = 0 /\ switch = NoSwitch
  /\ outages = 0 /\ switches = 0 /\ rushed = FALSE /\ degraded = FALSE

Outage(p) ==
  /\ outages < MaxOutages /\ outages' = outages + 1
  /\ reach' = IF p \in reach THEN reach \ {p} ELSE reach \union {p}
  /\ UNCHANGED <<conn, phase, primary, drop, failover, failed, timer, probe, switch, switches,
                 rushed, degraded>>

-----------------------------------------------------------------------------
\* initialize

rest == <<reach, failover, failed, timer, probe, switch, outages, switches, rushed, degraded>>

Connect ==
  /\ phase = "new" /\ phase' = "connecting"
  /\ conn' = [p \in Ranks |-> "opening"]
  /\ UNCHANGED <<rest, primary, drop>>

Opened(p) == IF p \in reach THEN "on" ELSE "refused"

Opens(p) ==
  /\ conn[p] = "opening"
  /\ conn' = [conn EXCEPT ![p] = Opened(p)]
  /\ drop' = IF p \in reach THEN drop ELSE drop \ {p}
  /\ UNCHANGED <<rest, phase, primary>>

\* The results are awaited in the order of priority.
Best == {p \in Ranks : conn[p] = "on" /\ \A q \in Ranks : q < p => conn[q] = "refused"}

\* Mutant: those whose connection does not stand yet are forgotten.
LetGoStanding(p) == {q \in Ranks : q > p /\ conn[q] = "on"}

LetGo(p) == {q \in Ranks : q > p /\ conn[q] # "refused"}

Choose ==
  /\ phase = "connecting"
  /\ \/ \E p \in Best : primary' = p /\ drop' = LetGo(p)
     \/ /\ \A p \in Ranks : conn[p] = "refused"
        /\ UNCHANGED <<primary, drop>>
  /\ phase' = "ready"
  /\ UNCHANGED <<rest, conn>>

\* disconnect.  The connection is forgotten when quit was answered; that may not come, and
\* the client then passes for connected for good.
CloseBegins(p) ==
  /\ p \in drop /\ conn[p] = "on"
  /\ conn' = [conn EXCEPT ![p] = "closing"] /\ drop' = drop \ {p}
  /\ UNCHANGED <<rest, phase, primary>>

CloseEnds(p) ==
  /\ conn[p] = "closing"
  /\ conn' = [conn EXCEPT ![p] = "off"]
  /\ UNCHANGED <<rest, phase, primary, drop>>

-----------------------------------------------------------------------------
\* Failover and recovery

Ready == phase = "ready"

\* _startRecoveryCheck, which leaves a timer that runs
Timer == IF timer = "none" THEN "simple" ELSE timer

\* _handleProviderFailure and _failover; an operation that succeeds resets nothing.
OperationFails ==
  /\ Ready /\ primary # 0 /\ primary \notin reach /\ ~failover
  /\ failed' = failed + 1
  /\ failover' = (failed + 1 >= Failures)
  /\ timer' = IF failover' THEN Timer ELSE timer
  /\ UNCHANGED <<reach, conn, phase, primary, drop, probe, switch, outages, switches, rushed,
                 degraded>>

\* A client that was closed answers no command; one that was refused goes on connecting.
Answers(p) == p \in reach /\ conn[p] \notin {"off", "closing"}

\* A round of _startRecoveryCheck.
SimpleCheck ==
  /\ timer = "simple" /\ failover /\ probe = 0 /\ primary # 0
  /\ probe' = primary
  /\ UNCHANGED <<reach, conn, phase, primary, drop, failover, failed, timer, switch, outages,
                 switches, rushed, degraded>>

\* Its end, also when the provider was changed or the mode was left meanwhile: whatever
\* timer there is by now is cleared.
SimpleCheckEnds ==
  /\ probe # 0 /\ probe' = 0
  /\ IF Answers(probe)
     THEN failover' = FALSE /\ failed' = 0 /\ timer' = "none"
     ELSE UNCHANGED <<failover, failed, timer>>
  /\ UNCHANGED <<reach, conn, phase, primary, drop, switch, outages, switches, rushed, degraded>>

\* What changes when a provider is taken.
Take(p) ==
  /\ primary' = p /\ failover' = FALSE /\ failed' = 0
  /\ rushed' = (rushed \/ drop # {} \/ \E q \in Ranks : conn[q] \in {"opening", "closing"})

\* A round of _startEnhancedRecoveryCheck: the first that answers, never the present one.
EnhancedCheck ==
  /\ timer = "enhanced" /\ (failover \/ Count > 1)
  /\ \E p \in Ranks :
       /\ p # primary /\ Answers(p)
       /\ \A q \in Ranks : q < p /\ q # primary => ~Answers(q)
       /\ Take(p)
  /\ timer' = "none"
  /\ UNCHANGED <<reach, conn, phase, drop, probe, switch, outages, switches, degraded>>

NewSwitch == Ready /\ switch = NoSwitch /\ switches < MaxSwitches /\ switches' = switches + 1

\* enhancedFailover takes the next one in the list.
EnhancedFailover ==
  /\ NewSwitch /\ Count > 1
  /\ switch' = [kind |-> "failover", to |-> (primary % Count) + 1]
  /\ UNCHANGED <<reach, conn, phase, primary, drop, failover, failed, timer, probe, outages,
                 rushed, degraded>>

SwitchToProvider(p) ==
  /\ NewSwitch
  /\ switch' = [kind |-> "switch", to |-> p]
  /\ UNCHANGED <<reach, conn, phase, primary, drop, failover, failed, timer, probe, outages,
                 rushed, degraded>>

\* connect returns at once when the connection stands, also when it is being closed.
SwitchConnects ==
  LET p == switch.to IN
    /\ switch # NoSwitch /\ conn[p] # "opening"
    /\ conn[p] \in {"on", "closing"} \/ p \in reach
    /\ conn' = [conn EXCEPT ![p] = IF @ = "closing" THEN @ ELSE "on"]
    /\ Take(p) /\ switch' = NoSwitch
    /\ UNCHANGED <<reach, phase, drop, timer, probe, outages, switches, degraded>>

\* Without another provider enhancedFailover leaves the cache to its memory.
SwitchFails ==
  LET p == switch.to IN
    /\ switch # NoSwitch /\ conn[p] \in {"off", "refused"} /\ p \notin reach
    /\ switch' = NoSwitch
    /\ IF switch.kind = "failover"
       THEN /\ failover' = TRUE /\ degraded' = TRUE
            /\ timer' = IF timer = "none" THEN "enhanced" ELSE timer
       ELSE UNCHANGED <<failover, degraded, timer>>
    /\ UNCHANGED <<reach, conn, phase, primary, drop, failed, probe, outages, switches, rushed>>

ResetFailureCount ==
  /\ Ready /\ switches < MaxSwitches /\ switches' = switches + 1
  /\ failed' = 0 /\ failover' = FALSE /\ timer' = "none"
  /\ UNCHANGED <<reach, conn, phase, primary, drop, probe, switch, outages, rushed, degraded>>

ProviderNext ==
  \/ Connect \/ Choose \/ OperationFails \/ SimpleCheck \/ SimpleCheckEnds \/ EnhancedCheck
  \/ EnhancedFailover \/ SwitchConnects \/ SwitchFails \/ ResetFailureCount
  \/ \E p \in Ranks : Outage(p) \/ Opens(p) \/ CloseBegins(p) \/ CloseEnds(p) \/ SwitchToProvider(p)

\* Attempts to connect end, what is to be closed begins to be, the timer comes round.
ProviderFairness ==
  /\ WF_providerVars(Connect) /\ WF_providerVars(Choose)
  /\ \A p \in Ranks : WF_providerVars(Opens(p)) /\ WF_providerVars(CloseBegins(p))
  /\ WF_providerVars(SimpleCheck \/ SimpleCheckEnds)

ProviderSpec == ProviderInit /\ [][ProviderNext]_providerVars /\ ProviderFairness

-----------------------------------------------------------------------------
\* Properties

\* Every variable has its type.
ProviderTypeOK ==
  /\ reach \subseteq Ranks /\ drop \subseteq Ranks
  /\ conn \in [Ranks -> {"off", "opening", "refused", "on", "closing"}]
  /\ phase \in {"new", "connecting", "ready"} /\ primary \in Ranks \union {0}
  /\ failover \in BOOLEAN /\ failed \in 0..Failures
  /\ timer \in {"none", "simple", "enhanced"} /\ probe \in Ranks \union {0}
  /\ switch \in [kind : {"none", "failover", "switch"}, to : Ranks \union {0}]
  /\ outages \in 0..MaxOutages /\ switches \in 0..MaxSwitches
  /\ rushed \in BOOLEAN /\ degraded \in BOOLEAN

\* In whatever order the connections come about, the provider that is taken at the start has
\* the highest priority of those that could be connected.
FirstIsTaken ==
  Ready /\ switches = 0 =>
    \A p \in Ranks : (primary = 0 \/ p < primary) => conn[p] = "refused"

\* The cache does not close the connection it works with, unless it took a provider while
\* connections were being made or closed.
InUseIsOpen == Ready /\ primary # 0 /\ ~rushed => conn[primary] \in {"on", "refused"}

\* Without a switch, the connections of the others are closed in the end, the slow ones too.
OthersAreClosed == <>[](switches = 0 => \A p \in Ranks : conn[p] = "on" => p = primary)

\* When all providers answer from some time on the cache leaves failover mode for good, unless
\* enhancedFailover left it to its memory or a closed connection was taken.
FailoverEnds == <>[](reach = Ranks) => <>[](failover => degraded \/ rushed)

\* The best provider is taken, the others are closed, and failover mode ends.
ProvidersHold ==
  [](ProviderTypeOK /\ FirstIsTaken /\ InUseIsOpen) /\ OthersAreClosed /\ FailoverEnds

=============================================================================
