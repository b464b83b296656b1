---------------------------- MODULE WebhookForward ----------------------------
(* A message of QStash on its way to a handler (WebhookRouter): it comes to   *)
(* any instance; one that finds that it is not the Telegram leader sends it   *)
(* on to the leader, once, and relays the answer.  QStash tries again until   *)
(* it is answered with 200 or has tried often enough.  The retry of a task by *)
(* its user is sent on the same way.                                          *)
EXTENDS Naturals, FiniteSets

CONSTANTS
  Hosts, NoHost,
  Tries,       \* attempts of QStash, 1..N
  MaxMoves,    \* bound on changes of the leader or of what is ready or listed
  MaxLosses    \* bound on answers that come too late

ASSUME RouteAssumption ==
  /\ Tries \subseteq Nat /\ IsFiniteSet(Tries)
  /\ MaxMoves \in Nat /\ MaxLosses \in Nat

VARIABLES
  leads,       \* the instance in the lock of the Telegram client
  ready, listed,
  front,       \* a request of QStash: its instance, where it is, the answer
  back,        \* the same for the request that was sent on
  acked,       \* QStash has its 200
  finished,    \* how often a handler finished the work
  moves, losses

routeVars == <<leads, ready, listed, front, back, acked, finished, moves, losses>>

NoRoute == [node |-> NoHost, at |-> "none", ok |-> FALSE]

RouteInit ==
  /\ leads \in Hosts
  /\ ready = Hosts /\ listed = Hosts
  /\ front = [a \in Tries |-> NoRoute] /\ back = [a \in Tries |-> NoRoute]
  /\ acked = FALSE /\ finished = 0 /\ moves = 0 /\ losses = 0

world == <<leads, ready, listed, moves>>

\* QStash sends the message to the load balancer when the attempt before has failed.
Deliver(a, n) ==
  /\ ~acked /\ front[a].at = "none"
  /\ \A b \in Tries : b < a => front[b].at = "over"
  /\ front' = [front EXCEPT ![a] = [node |-> n, at |-> "in", ok |-> FALSE]]
  /\ UNCHANGED <<world, back, acked, finished, losses>>

Answered(q, ok) == [q EXCEPT !.at = "answer", !.ok = ok]

\* What a handler may make of a message: TaskManager answers 503 "Not Leader" on every
\* instance but one, and elsewhere does the work or fails.
Outcomes(n) == IF n \notin ready THEN {"failed"}
               ELSE IF leads # n THEN {"not leader"} ELSE {"done", "failed"}

\* handleWebhook on the instance that QStash has reached
HandleFront(a) ==
  /\ front[a].at = "in"
  /\ \E outcome \in Outcomes(front[a].node) :
       /\ front' = [front EXCEPT ![a] = IF outcome = "not leader" THEN [@ EXCEPT !.at = "resolve"]
                                        ELSE Answered(@, outcome = "done")]
       /\ finished' = IF outcome = "done" THEN finished + 1 ELSE finished
  /\ UNCHANGED <<world, back, acked, losses>>

\* resolveTelegramLeaderBaseUrl: the holder of the lock, if it is listed with an address;
\* it may be this very instance by now.
SendOn(a) ==
  /\ front[a].at = "resolve"
  /\ IF leads \in listed
     THEN /\ back' = [back EXCEPT ![a] = [node |-> leads, at |-> "in", ok |-> FALSE]]
          /\ front' = [front EXCEPT ![a].at = "wait"]
     ELSE front' = [front EXCEPT ![a] = Answered(@, FALSE)] /\ UNCHANGED back
  /\ UNCHANGED <<world, acked, finished, losses>>

\* The leader's instance: a request that was sent on is not sent on again.
HandleBack(a) ==
  /\ back[a].at = "in"
  /\ \E outcome \in Outcomes(back[a].node) :
       /\ back' = [back EXCEPT ![a] = Answered(@, outcome = "done")]
       /\ finished' = IF outcome = "done" THEN finished + 1 ELSE finished
  /\ UNCHANGED <<world, front, acked, losses>>

\* Mutant: any answer of the leader is relayed as OK.
RelayedAlways(a) == TRUE

Relayed(a) == back[a].ok

\* handleWebhookForwarding
Relay(a) ==
  /\ front[a].at = "wait" /\ back[a].at = "answer"
  /\ front' = [front EXCEPT ![a] = Answered(@, Relayed(a))]
  /\ UNCHANGED <<world, back, acked, finished, losses>>

\* After 15 seconds the request that was sent on is given up; the leader goes on with it.
ForwardTimesOut(a) ==
  /\ losses < MaxLosses /\ losses' = losses + 1
  /\ front[a].at = "wait"
  /\ front' = [front EXCEPT ![a] = Answered(@, FALSE)]
  /\ UNCHANGED <<world, back, acked, finished>>

Acknowledge(a) ==
  /\ front[a].at = "answer"
  /\ acked' = (acked \/ front[a].ok)
  /\ front' = [front EXCEPT ![a].at = "over"]
  /\ UNCHANGED <<world, back, finished, losses>>

\* QStash has no answer in time, or it is lost.
AnswerLost(a) ==
  /\ losses < MaxLosses /\ losses' = losses + 1
  /\ front[a].at \in {"in", "resolve", "wait", "answer"}
  /\ front' = [front EXCEPT ![a].at = "over"]
  /\ UNCHANGED <<world, back, acked, finished>>

Moved == moves < MaxMoves /\ moves' = moves + 1

LeaderMoves(n) ==
  /\ Moved /\ n # leads /\ leads' = n
  /\ UNCHANGED <<ready, listed, front, back, acked, finished, losses>>

\* An instance starts, stops, or drops out of the list.
InstanceChanges(n) ==
  /\ Moved
  /\ \/ /\ ready' = IF n \in ready THEN ready \ {n} ELSE ready \union {n}
        /\ UNCHANGED listed
     \/ /\ listed' = IF n \in listed THEN listed \ {n} ELSE listed \union {n}
        /\ UNCHANGED ready
  /\ UNCHANGED <<leads, front, back, acked, finished, losses>>

RouteNext ==
  \/ \E a \in Tries : \/ \E n \in Hosts : Deliver(a, n)
                      \/ HandleFront(a) \/ SendOn(a) \/ HandleBack(a) \/ Relay(a)
                      \/ ForwardTimesOut(a) \/ Acknowledge(a) \/ AnswerLost(a)
  \/ \E n \in Hosts : LeaderMoves(n) \/ InstanceChanges(n)

RouteSpec == RouteInit /\ [][RouteNext]_routeVars

-----------------------------------------------------------------------------
\* Properties

Routes == [node : Hosts \union {NoHost},
           at : {"none", "in", "resolve", "wait", "answer", "over"}, ok : BOOLEAN]

\* Every variable has its type.
RouteTypeOK ==
  /\ leads \in Hosts /\ ready \subseteq Hosts /\ listed \subseteq Hosts
  /\ front \in [Tries -> Routes] /\ back \in [Tries -> Routes]
  /\ acked \in BOOLEAN /\ finished \in 0..(MaxLosses + 1)
  /\ moves \in 0..MaxMoves /\ losses \in 0..MaxLosses

\* A message that QStash takes as delivered was worked off on a leader, however the
\* leader moved while it was on its way.
AcknowledgedIsDone == acked => finished > 0

\* The work is done again only for an answer that was lost or came too late, once for each.
DoneAgainNeedsLoss == finished <= losses + 1

\* What QStash is told is done is done, and it is done again only after a loss.
RouteSafe == RouteTypeOK /\ AcknowledgedIsDone /\ DoneAgainNeedsLoss

=============================================================================
