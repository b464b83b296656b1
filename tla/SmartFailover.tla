----------------------------- MODULE SmartFailover -----------------------------
(* SmartFailover: requests go to the active one of several instances; a       *)
(* failure moves on to another one and tries again, checks of the health run  *)
(* beside it.  Everything between two awaits is one step.                     *)
EXTENDS Naturals, FiniteSets

CONSTANTS
  Servers, NoServer,
  Calling,       \* requests
  FailureThreshold, MaxRetries,
  MaxOutages,   \* bound on servers that stop or start to answer
  MaxRemovals

ASSUME FailoverAssumption ==
  /\ IsFiniteSet(Calling) /\ NoServer \notin Servers
  /\ FailureThreshold \in Nat /\ MaxRetries \in Nat
  /\ MaxOutages \in Nat /\ MaxRemovals \in Nat

VARIABLES
  registered,    \* the servers in the map, with the number of each registration
  health, failures, connections,
  activeOne,     \* activeInstance
  answers,       \* the servers that answer just now
  request,       \* where each request is, its server and its retries
  checking,      \* checks of the health under way, with the registration they began with
  outages, removals

failoverVars == <<registered, health, failures, connections, activeOne, answers, request,
                  checking, outages, removals>>

NotSent == [at |-> "idle", server |-> NoServer, tries |-> 0]

FailoverInit ==
  /\ registered = Servers
  /\ health = [s \in Servers |-> "healthy"]
  /\ failures = [s \in Servers |-> 0] /\ connections = [s \in Servers |-> 0]
  /\ activeOne = NoServer /\ answers = Servers
  /\ request = [q \in Calling |-> NotSent]
  /\ checking = {} /\ outages = 0 /\ removals = 0

Healthy == {s \in registered : health[s] = "healthy"}

\* _selectInstance, whose three strategies are a choice among the healthy
Selections == IF Healthy = {} THEN {NoServer} ELSE Healthy

\* getCurrentInstance
Current == IF activeOne \in Healthy THEN {activeOne} ELSE Selections

\* executeRequest up to its await
ExecuteRequest(q) ==
  /\ request[q].at = "idle"
  /\ \E s \in Current :
       IF s = NoServer
       THEN /\ request' = [request EXCEPT ![q].at = "refused"]
            /\ UNCHANGED <<activeOne, connections>>
       ELSE /\ activeOne' = s
            /\ connections' = [connections EXCEPT ![s] = @ + 1]
            /\ request' = [request EXCEPT ![q].at = "sent", ![q].server = s]
  /\ UNCHANGED <<registered, health, failures, answers, checking, outages, removals>>

Answered(q) ==
  LET s == request[q].server IN
    /\ request[q].at = "sent" /\ s \in answers
    /\ request' = [request EXCEPT ![q].at = "answered"]
    /\ connections' = [connections EXCEPT ![s] = @ - 1]
    /\ failures' = [failures EXCEPT ![s] = 0]
    /\ health' = [health EXCEPT ![s] = "healthy"]
    /\ UNCHANGED <<registered, activeOne, answers, checking, outages, removals>>

\* _recordFailure
Failures(s) == [failures EXCEPT ![s] = IF @ < FailureThreshold THEN @ + 1 ELSE @]
StatusAfter(s) == IF failures[s] + 1 >= FailureThreshold /\ s \in registered THEN "down"
                  ELSE health[s]

\* Mutant: the connection is given back only when the request is answered.
GivenBackNever(n) == n

GivenBack(n) == n - 1

LastTry(q) == request[q].tries >= MaxRetries

\* It fails or takes longer than its time-out; the failover is one step with it, also when
\* the active one has changed since the request was sent.
RequestFails(q) ==
  LET s == request[q].server
      after == [health EXCEPT ![s] = StatusAfter(s)]
      healthy == {t \in registered : after[t] = "healthy"}
  IN
    /\ request[q].at = "sent" /\ s \notin answers
    /\ connections' = [connections EXCEPT ![s] = GivenBack(@)]
    /\ failures' = Failures(s) /\ health' = after
    /\ IF LastTry(q)
       THEN request' = [request EXCEPT ![q].at = "failed"] /\ UNCHANGED activeOne
       ELSE /\ request' = [request EXCEPT ![q] = [NotSent EXCEPT !.tries = request[q].tries + 1]]
            /\ IF healthy = {} THEN UNCHANGED activeOne ELSE activeOne' \in healthy
    /\ UNCHANGED <<registered, answers, checking, outages, removals>>

-----------------------------------------------------------------------------
\* performHealthCheck, of each server every few seconds

CheckBegins(s) ==
  /\ s \in registered \ checking
  /\ checking' = checking \union {s}
  /\ UNCHANGED <<registered, health, failures, connections, activeOne, answers, request,
                 outages, removals>>

\* A server that fails its check is unhealthy, also when it was down before.
CheckEnds(s) ==
  /\ s \in checking /\ checking' = checking \ {s}
  /\ IF s \in answers
     THEN /\ failures' = [failures EXCEPT ![s] = 0]
          /\ health' = [health EXCEPT ![s] = "healthy"]
     ELSE /\ failures' = Failures(s)
          /\ health' = [health EXCEPT ![s] = "unhealthy"]
  /\ UNCHANGED <<registered, connections, activeOne, answers, request, outages, removals>>

\* After the checks the active one is exchanged if it is not healthy.
Exchange ==
  /\ activeOne # NoServer /\ activeOne \notin Healthy /\ Healthy # {}
  /\ activeOne' \in Healthy
  /\ UNCHANGED <<registered, health, failures, connections, answers, request, checking,
                 outages, removals>>

ActiveAfter(s) ==
  IF activeOne # s THEN {activeOne}
  ELSE IF Healthy \ {s} = {} THEN {NoServer} ELSE Healthy \ {s}

\* removeInstance; requests and checks of it go on.
RemoveInstance(s) ==
  /\ removals < MaxRemovals /\ removals' = removals + 1
  /\ s \in registered /\ registered' = registered \ {s}
  /\ activeOne' \in ActiveAfter(s)
  /\ UNCHANGED <<health, failures, connections, answers, request, checking, outages>>

ServerTurns(s) ==
  /\ outages < MaxOutages /\ outages' = outages + 1
  /\ answers' = IF s \in answers THEN answers \ {s} ELSE answers \union {s}
  /\ UNCHANGED <<registered, health, failures, connections, activeOne, request, checking, removals>>

FailoverNext ==
  \/ \E q \in Calling : ExecuteRequest(q) \/ Answered(q) \/ RequestFails(q)
  \/ \E s \in Servers : CheckBegins(s) \/ CheckEnds(s) \/ RemoveInstance(s) \/ ServerTurns(s)
  \/ Exchange

FailoverSpec == FailoverInit /\ [][FailoverNext]_failoverVars

-----------------------------------------------------------------------------
\* Properties

\* Every variable has its type.
FailoverTypeOK ==
  /\ registered \subseteq Servers /\ answers \subseteq Servers /\ checking \subseteq Servers
  /\ health \in [Servers -> {"healthy", "unhealthy", "down"}]
  /\ failures \in [Servers -> 0..FailureThreshold]
  /\ connections \in [Servers -> 0..Cardinality(Calling)]
  /\ activeOne \in Servers \union {NoServer}
  /\ request \in [Calling -> [at : {"idle", "sent", "answered", "failed", "refused"},
                               server : Servers \union {NoServer}, tries : 0..MaxRetries]]
  /\ outages \in 0..MaxOutages /\ removals \in 0..MaxRemovals

\* The number of connections the balancing goes by is that of the requests under way.
CountIsRequests ==
  \A s \in Servers : connections[s] = Cardinality({q \in Calling :
                       request[q].at = "sent" /\ request[q].server = s})

\* The active one is never one that was removed, whatever fails over while requests and
\* checks of the removed one are under way.
ActiveIsRegistered == activeOne \in registered \union {NoServer}

\* Requests go to a registered server and are counted there.
FailoverSafe == FailoverTypeOK /\ CountIsRequests /\ ActiveIsRegistered

=============================================================================
