---------------------------- MODULE TelegramLeader ----------------------------
(***************************************************************************)
(* One instance and its Telegram client: DispatcherManager takes and keeps *)
(* the lock telegram_client and starts the client, the watchdog and the    *)
(* recovery of the client service reconnect it or let it go, and shutdown  *)
(* stops both.  A reload (SIGUSR2) runs none of the stop hooks and         *)
(* replaces the manager only: the client lives on, and so do the calls of  *)
(* the manager that went.  The other instances are one competitor for the  *)
(* lock, which is a lease: InstanceLock has its protocol, here it may run  *)
(* out at any time.  A client is an object; one that the service has       *)
(* forgotten can still be in the hands of a call that waits.               *)
(***************************************************************************)
EXTENDS Integers, FiniteSets, TLAPS

CONSTANTS
  Clients,      \* client objects, used again when nobody refers to them
  None,         \* no client
  MaxRetries,   \* maxRetries of tryConnectClient
  MaxReconnect, \* MAX_CONNECTION_RETRIES
  Threshold,    \* failures until the watchdog reconnects
  MaxStartup,   \* calls of startTelegramClient that start makes, its retries included
  MaxCalls,     \* bound on calls of startTelegramClient at a time
  MaxReloads,   \* bound on reloads
  MaxFaults     \* bound on lost leases, dropped connections, failed calls, stops, reloads

ASSUME LeaderAssumption ==
  /\ None \notin Clients
  /\ MaxRetries \in Nat /\ MaxReconnect \in Nat /\ Threshold \in Nat \ {0} /\ MaxFaults \in Nat
  /\ MaxStartup \in Nat \ {0} /\ MaxReloads \in Nat /\ MaxCalls \in Nat

VARIABLES
  lock,       \* who holds telegram_client: "me", "other", "free"
  client,     \* telegramClient of the service
  connected,  \* the clients that are connected to Telegram
  handlers,   \* how often MessageHandler listens to that client
  inherited,  \* history: its listeners when the last reload replaced the manager
  now,        \* which DispatcherManager is the current one
  manager,    \* each one's stopped, active, starting, runtime, retries, armed, startup
  loop,       \* their calls of startTelegramClient
  dog,        \* the watchdog's timer, step and failures
  rec,        \* handleConnectionIssue: step and client
  breaker,    \* the circuit breaker of the service; half open it lets calls pass as closed
  off,        \* the last stop hook of the shutdown that has run
  faults

service == <<client, handlers, inherited>>

phase == <<now, off>>

vars == <<lock, client, connected, handlers, inherited, now, manager, loop, dog, rec,
          breaker, off, faults>>

\* The first call and the retries of start, the interval, and the retry that a
\* disconnection arms, of each manager
Kinds == {"startup", "interval", "reconnect"}

Loops == (0..MaxReloads) \X Kinds

Idle == [at |-> "idle", client |-> None, tries |-> 0]

NewManager == [stopped |-> FALSE, active |-> FALSE, starting |-> FALSE,
               runtime |-> None, retries |-> 0, armed |-> FALSE, startup |-> MaxStartup]

\* stop: its timers are cleared, its calls go on.
Stopped == [NewManager EXCEPT !.stopped = TRUE]

\* Another instance may take the lock before the first call.
Init ==
  /\ lock = "free"
  /\ client = None
  /\ connected = {}
  /\ handlers = 0 /\ inherited = 0
  /\ now = 0
  /\ manager = [g \in 0..MaxReloads |-> NewManager]
  /\ loop = [l \in Loops |-> Idle]
  /\ dog = [on |-> FALSE, at |-> "idle", failures |-> 0]
  /\ rec = Idle
  /\ breaker = "CLOSED"
  /\ off = "no"
  /\ faults = 0

Fault == faults < MaxFaults /\ faults' = faults + 1

-----------------------------------------------------------------------------
(* The client service *)

\* A client that was forgotten while it was connected makes room, too: that it may
\* stay so until the process ends is no matter of the properties.
Unused == Clients \ ({client, manager[now].runtime, rec.client} \cup {loop[l].client : l \in Loops})

\* getClient: the client, or a new one.  Making one goes through the breaker, which
\* lets it pass unless it is open and 60 seconds are not over, and closes.
GetClient(c) ==
  \/ client # None /\ c = client /\ UNCHANGED <<client, connected, breaker>>
  \/ /\ client = None /\ Unused # {}
     /\ c = CHOOSE u \in Unused : TRUE
     /\ client' = c
     /\ connected' = connected \ {c}
     /\ breaker' = "CLOSED"

GetClientFails == client = None /\ breaker = "OPEN" /\ UNCHANGED <<service, connected, breaker>>

\* MessageHandler comes to listen n times more; nobody listens to a new client.
Listeners(n) ==
  /\ handlers' = n + (IF client' = client THEN handlers ELSE 0)
  /\ inherited' = IF client' = client THEN inherited ELSE 0

Forget == client' = None /\ Listeners(0)

\* onFailure: the threshold depends on the kind of error.
BreakerFails == breaker' \in {breaker, "OPEN"}

BreakerTimer ==
  /\ breaker = "OPEN"
  /\ breaker' = "CLOSED"
  /\ UNCHANGED <<lock, service, connected, manager, loop, dog, rec, phase, faults>>

\* handleConnectionStatusChange, when a client says it is disconnected
Dropped(m) ==
  IF m.active /\ ~m.stopped
    THEN [m EXCEPT !.active = FALSE,
                   !.retries = IF @ < MaxReconnect THEN @ + 1 ELSE @,
                   !.armed = @ \/ m.retries < MaxReconnect]
    ELSE m

\* The event reaches the manager that has set its callback last.
Signalled(cs) ==
  IF cs \cap connected # {} THEN [manager EXCEPT ![now] = Dropped(manager[now])] ELSE manager

\* The clients cs are disconnected, with the event that follows.
Disconnect(cs) == connected' = connected \ cs /\ manager' = Signalled(cs)

-----------------------------------------------------------------------------
(* DispatcherManager.startTelegramClient *)

Goto(l, at) == loop' = [loop EXCEPT ![l].at = at]

Done(l) == loop' = [loop EXCEPT ![l] = Idle]

\* The manager of the call l
Own(l) == manager[l[1]]

\* The first of the calls that start makes
First(l) == l[2] = "startup" /\ Own(l).startup = MaxStartup - 1

\* The interval runs once that call has returned, whatever it returned.
Ticking ==
  LET l == <<now, "startup">> IN
  Own(l).startup < MaxStartup /\ (First(l) => loop[l].at \in {"idle", "ensuring"})

Due(l) ==
  \/ l[2] = "startup" /\ Own(l).startup > 0
  \/ l[2] = "interval" /\ Ticking
  \/ l[2] = "reconnect" /\ Own(l).armed

\* A timer fires; while the client is being started the call returns at once.
Begin(l) ==
  /\ l[1] = now /\ ~Own(l).stopped
  /\ loop[l].at = "idle" /\ Due(l)
  /\ Cardinality({k \in Loops : loop[k].at # "idle"}) < MaxCalls
  /\ manager' = CASE l[2] = "startup" -> [manager EXCEPT ![now].startup = @ - 1]
                  [] l[2] = "reconnect" -> [manager EXCEPT ![now].armed = FALSE]
                  [] OTHER -> manager
  /\ IF Own(l).starting THEN UNCHANGED loop ELSE Goto(l, "acquiring")
  /\ UNCHANGED <<lock, service, connected, dog, rec, breaker, phase, faults>>

\* Mutant of IsNew: it listens whenever it is called.
AlwaysNew(m, c) == TRUE

\* MessageHandler listens to a client that is new to the manager.
IsNew(m, c) == m.runtime # c

\* getClient has answered ensureTelegramRuntimeStarted.  The watchdog starts (its timer
\* of a second is left out), and start gives up its retries.  m are the managers by now.
Listen(l, m) ==
  /\ Done(l)
  /\ \E c \in Clients :
       /\ GetClient(c)
       /\ IF m[l[1]].stopped THEN Listeners(0) /\ manager' = m /\ UNCHANGED dog
          ELSE /\ manager' = [m EXCEPT ![l[1]].runtime = c,
                                      ![l[1]].startup = IF l[2] = "startup" THEN 0 ELSE @]
               /\ IF IsNew(m[l[1]], c) THEN Listeners(1) /\ dog' = [dog EXCEPT !.on = TRUE]
                  ELSE Listeners(0) /\ UNCHANGED dog

\* startTelegramClient has returned true: its caller calls ensureTelegramRuntimeStarted,
\* but for the retry after a disconnection.  getClient answers at once when there is a
\* client, otherwise the call waits for one to be made.
Returned(l, m) ==
  LET wanted == l[2] # "reconnect" /\ ~m[l[1]].stopped IN
  IF wanted /\ client # None THEN Listen(l, m)
  ELSE /\ IF wanted THEN Goto(l, "ensuring") ELSE Done(l)
       /\ manager' = m
       /\ UNCHANGED <<service, connected, breaker, dog>>

\* It throws when no client can be made; the first call of start has no retries then.
Ensure(l) ==
  /\ loop[l].at = "ensuring"
  /\ \/ Listen(l, manager)
     \/ /\ GetClientFails /\ Done(l)
        /\ manager' = IF First(l) THEN [manager EXCEPT ![l[1]].startup = 0] ELSE manager
        /\ UNCHANGED dog
  /\ UNCHANGED <<lock, rec, phase, faults>>

\* The next round of tryConnectClient
Try(l) ==
  IF Own(l).active THEN Returned(l, [manager EXCEPT ![l[1]].starting = FALSE])
  ELSE /\ UNCHANGED <<service, connected, breaker, dog>>
       /\ IF Own(l).stopped \/ loop[l].tries >= MaxRetries
            THEN Done(l) /\ manager' = [manager EXCEPT ![l[1]].starting = FALSE]
            ELSE /\ manager' = [manager EXCEPT ![l[1]].starting = TRUE]
                 /\ IF client = None THEN Goto(l, "making")
                    ELSE loop' = [loop EXCEPT ![l].at = "starting", ![l].client = client]

\* acquireLock succeeds: the lock was free, or this renews it.
Acquired(l) ==
  /\ loop[l].at = "acquiring"
  /\ lock \in {"free", "me"}
  /\ lock' = "me"
  /\ IF Own(l).active THEN Returned(l, manager) ELSE Try(l)
  /\ UNCHANGED <<rec, phase, faults>>

\* Another instance has the lock, or the cache fails: disconnectLostLockClient,
\* which may run into its time-out and leaves the client as it is then.
NotAcquired(l) ==
  /\ loop[l].at = "acquiring"
  /\ IF Own(l).active
       THEN /\ \/ lock = "other" /\ UNCHANGED faults /\ connected' = connected \ {client}
               \/ Fault /\ connected' \in {connected, connected \ {client}}
            /\ manager' = [Signalled(connected \ connected') EXCEPT ![l[1]].active = FALSE]
       ELSE ((lock = "other" /\ UNCHANGED faults) \/ Fault) /\ UNCHANGED <<connected, manager>>
  /\ Done(l)
  /\ UNCHANGED <<lock, service, dog, rec, breaker, phase>>

\* It has waited after an attempt that failed.
Attempt(l) ==
  /\ loop[l].at = "connecting"
  /\ Try(l)
  /\ UNCHANGED <<lock, rec, phase, faults>>

\* getClient has made a client, or another call has, or the breaker refuses.
Made(l) ==
  /\ loop[l].at = "making"
  /\ \/ \E c \in Clients :
          /\ GetClient(c) /\ Listeners(0)
          /\ IF Own(l).stopped
               THEN Done(l) /\ manager' = [manager EXCEPT ![l[1]].starting = FALSE]
               ELSE UNCHANGED manager /\ loop' = [loop EXCEPT ![l].at = "starting", ![l].client = c]
     \/ /\ GetClientFails /\ UNCHANGED manager
        /\ loop' = [loop EXCEPT ![l].at = "connecting", ![l].tries = @ + 1]
  /\ UNCHANGED <<lock, dog, rec, phase, faults>>

\* client.start has connected the client, whatever happened meanwhile ...
Started(l) ==
  /\ loop[l].at = "starting"
  /\ connected' = connected \cup {loop[l].client}
  /\ loop' = [loop EXCEPT ![l] = [Idle EXCEPT !.at = "saving"]]
  /\ UNCHANGED <<lock, service, manager, dog, rec, breaker, phase, faults>>

\* ... and saveSession has stored its session, or has failed to, which is only logged.
Saved(l) ==
  /\ loop[l].at = "saving"
  /\ Returned(l, [manager EXCEPT ![l[1]].active = TRUE, ![l[1]].starting = FALSE])
  /\ UNCHANGED <<lock, rec, phase, faults>>

\* client.start fails; when the session is in use elsewhere, the lock is checked and
\* the client of the service disconnected before the next attempt.
StartFails(l) ==
  /\ loop[l].at = "starting"
  /\ Fault
  /\ \/ /\ loop' = [loop EXCEPT ![l] = [Idle EXCEPT !.at = "connecting", !.tries = loop[l].tries + 1]]
        /\ \/ UNCHANGED <<connected, manager>>
           \/ lock = "me" /\ Disconnect({client})
     \/ /\ lock # "me"
        /\ Done(l)
        /\ manager' = [manager EXCEPT ![l[1]].active = FALSE, ![l[1]].starting = FALSE]
        /\ UNCHANGED connected
  /\ UNCHANGED <<lock, service, dog, rec, breaker, phase>>

-----------------------------------------------------------------------------
(* Watchdog and recovery *)

DogAt(at) == dog' = [dog EXCEPT !.at = at]

\* Mutant of Look: a standby has no need to look after anything.
LookOrSkip ==
  /\ dog.on /\ dog.at = "idle" /\ rec.at = "idle"
  /\ IF lock = "me" THEN DogAt("owner") ELSE UNCHANGED dog
  /\ UNCHANGED <<lock, service, connected, manager, loop, rec, breaker, phase, faults>>

\* A tick: does this instance own the lock?  An error that is not about limits counts
\* as no.
Look ==
  /\ dog.on /\ dog.at = "idle" /\ rec.at = "idle"
  /\ \/ DogAt(IF lock = "me" THEN "owner" ELSE "dropping") /\ UNCHANGED faults
     \/ Fault /\ DogAt("dropping")
  /\ UNCHANGED <<lock, service, connected, manager, loop, rec, breaker, phase>>

\* stopLocalClientIfPresent disconnects ...
DropClient ==
  /\ dog.at = "dropping"
  /\ DogAt("forgetting")
  /\ Disconnect({client})
  /\ UNCHANGED <<lock, service, loop, rec, breaker, phase, faults>>

\* ... and then forgets the client, whichever it is by now.
ForgetClient ==
  /\ dog.at = "forgetting"
  /\ Forget
  /\ dog' = [dog EXCEPT !.at = "idle", !.failures = 0]
  /\ UNCHANGED <<lock, connected, manager, loop, rec, breaker, phase, faults>>

\* Enough failures start handleConnectionIssue, which is not waited for; the next one
\* does so again.
Strike ==
  LET n == dog.failures + 1 IN
  /\ dog' = [dog EXCEPT !.at = "idle", !.failures = IF n >= Threshold THEN Threshold - 1 ELSE n]
  /\ rec' = IF n >= Threshold /\ breaker # "OPEN" THEN [Idle EXCEPT !.at = "checking"] ELSE rec

\* The owner looks after its client.
Check ==
  /\ dog.at = "owner"
  /\ \/ breaker = "OPEN" /\ DogAt("idle")
        /\ UNCHANGED <<service, connected, breaker, rec, faults>>
     \/ /\ breaker # "OPEN"
        /\ \E c \in Clients :
             /\ GetClient(c) /\ Listeners(0)
             /\ \/ c \notin connected /\ Strike /\ UNCHANGED faults
                \/ c \in connected /\ Fault /\ Strike
                \/ /\ c \in connected /\ UNCHANGED <<rec, faults>>
                   /\ dog' = [dog EXCEPT !.at = "idle", !.failures = 0]
  /\ UNCHANGED <<lock, manager, loop, phase>>

\* getMe says that the session is in use elsewhere: handleAuthKeyDuplicated
\* disconnects and forgets the client and gives up the lock.
Duplicated ==
  /\ dog.at = "owner" /\ client \in connected
  /\ Fault
  /\ DogAt("yielding")
  /\ Disconnect({client})
  /\ UNCHANGED <<lock, service, loop, rec, breaker, phase>>

Yield ==
  /\ dog.at = "yielding"
  /\ Forget
  /\ rec' = Idle
  /\ lock' = IF lock = "me" THEN "free" ELSE lock
  /\ DogAt("idle")
  /\ UNCHANGED <<connected, manager, loop, breaker, phase, faults>>

\* handleConnectionIssue checks the lease and gets the client, ...
RecCheck ==
  /\ rec.at = "checking"
  /\ IF lock = "me"
       THEN /\ \E c \in Clients : /\ GetClient(c) /\ Listeners(0)
                               /\ rec' = [Idle EXCEPT !.at = "leaving", !.client = c]
            /\ UNCHANGED manager
       ELSE /\ rec' = Idle
            /\ Disconnect({client})
            /\ Forget
            /\ UNCHANGED breaker
  /\ UNCHANGED <<lock, loop, dog, phase, faults>>

\* ... disconnects it and waits, ...
RecLeave ==
  /\ rec.at = "leaving"
  /\ Disconnect({rec.client})
  /\ rec' = [rec EXCEPT !.at = "waiting"]
  /\ UNCHANGED <<lock, service, loop, dog, breaker, phase, faults>>

\* ... and connects it again.
RecConnect ==
  /\ rec.at = "waiting"
  /\ \/ /\ connected' = connected \cup {rec.client}
        /\ dog' = [dog EXCEPT !.failures = 0]
        /\ breaker' = "CLOSED"
        /\ UNCHANGED faults
     \/ /\ Fault
        /\ BreakerFails
        /\ UNCHANGED <<connected, dog>>
  /\ rec' = Idle
  /\ UNCHANGED <<lock, service, manager, loop, phase>>

\* The breaker has opened before the connection is tried: execute throws.
RecRefused ==
  /\ rec.at = "waiting" /\ breaker = "OPEN"
  /\ rec' = Idle
  /\ UNCHANGED <<lock, service, connected, manager, loop, dog, breaker, phase, faults>>

-----------------------------------------------------------------------------
(* Shutdown and the world *)

\* The hook "dispatcher": stopDispatcher
StopDispatcher ==
  /\ off = "no" /\ off' = "dispatcher"
  /\ Fault
  /\ manager' = [manager EXCEPT ![now] = Stopped]
  /\ UNCHANGED <<lock, service, connected, now, loop, dog, rec, breaker>>

\* The hook "telegram-client": stopTelegramClientRuntime
StopRuntime ==
  /\ off = "dispatcher" /\ off' = "runtime"
  /\ dog' = [dog EXCEPT !.on = FALSE, !.failures = 0]
  /\ Disconnect({client})
  /\ Forget
  /\ lock' = IF lock = "me" THEN "free" ELSE lock
  /\ UNCHANGED <<now, loop, rec, breaker, faults>>

\* A reload: its shutdown skips these hooks, as register drops requiresCleanup, and a
\* second later startDispatcher stops the manager and starts a new one.  By then a
\* shutdown may have begun that does not know of it.
Reload ==
  /\ now < MaxReloads /\ now' = now + 1
  /\ Fault
  /\ manager' = [manager EXCEPT ![now] = Stopped]
  /\ inherited' = handlers
  /\ UNCHANGED <<lock, client, connected, handlers, loop, dog, rec, breaker, off>>

\* The lease runs out although its owner lives, and another instance may take it.
LeaseEnds ==
  /\ lock = "me" /\ Fault
  /\ lock' \in {"free", "other"}
  /\ UNCHANGED <<service, connected, manager, loop, dog, rec, breaker, phase>>

\* Another instance takes the lock, or leaves it.
OtherTakes ==
  /\ lock = "free" /\ Fault
  /\ lock' = "other"
  /\ UNCHANGED <<service, connected, manager, loop, dog, rec, breaker, phase>>

OtherLeaves ==
  /\ lock = "other"
  /\ lock' = "free"
  /\ UNCHANGED <<service, connected, manager, loop, dog, rec, breaker, phase, faults>>

\* The client reports an error, or the health monitor that no updates come.  (Two such
\* calls that overlap before either marks itself as reconnecting are one here.)
ErrorReported ==
  /\ rec.at = "idle" /\ client # None
  /\ Fault
  /\ BreakerFails
  /\ rec' = IF breaker' = "OPEN" THEN rec ELSE [Idle EXCEPT !.at = "checking"]
  /\ UNCHANGED <<lock, service, connected, manager, loop, dog, phase>>

\* A connection breaks, with its event and an error that counts.
ConnectionDrops(c) ==
  /\ c \in connected /\ Fault
  /\ Disconnect({c})
  /\ BreakerFails
  /\ UNCHANGED <<lock, service, loop, dog, rec, phase>>

Proceed(l) ==
  \/ Acquired(l) \/ NotAcquired(l) \/ Attempt(l) \/ Made(l) \/ Started(l) \/ StartFails(l)
  \/ Saved(l) \/ Ensure(l)

Tend == DropClient \/ ForgetClient \/ Check \/ Duplicated \/ Yield

Recover == RecCheck \/ RecLeave \/ RecConnect \/ RecRefused

Next ==
  \/ \E l \in Loops : Begin(l) \/ Proceed(l)
  \/ Look \/ Tend \/ Recover \/ BreakerTimer
  \/ StopDispatcher \/ StopRuntime \/ Reload
  \/ LeaseEnds \/ OtherTakes \/ OtherLeaves
  \/ ErrorReported \/ \E c \in Clients : ConnectionDrops(c)

\* Timers fire, calls to Telegram and to the cache end, and another instance that
\* has the lock and does not renew it any more loses it at last.
Fairness ==
  /\ \A l \in Loops : WF_vars(Begin(l)) /\ WF_vars(Proceed(l))
  /\ WF_vars(Look) /\ WF_vars(Tend) /\ WF_vars(Recover)
  /\ WF_vars(BreakerTimer) /\ WF_vars(StopRuntime)

LeaderSpec == Init /\ [][Next]_vars /\ Fairness

-----------------------------------------------------------------------------
(* Properties *)

Steps == {"idle", "acquiring", "connecting", "making", "starting", "saving", "ensuring",
          "checking", "leaving", "waiting"}

Work == [at : Steps, client : Clients \cup {None}, tries : 0..MaxRetries]

Managers == [stopped : BOOLEAN, active : BOOLEAN, starting : BOOLEAN,
             runtime : Clients \cup {None}, retries : 0..MaxReconnect, armed : BOOLEAN,
             startup : 0..MaxStartup]

Dogs == [on : BOOLEAN, at : {"idle", "owner", "dropping", "forgetting", "yielding"},
         failures : 0..(Threshold - 1)]

LeaderTypeOK ==
  /\ lock \in {"me", "other", "free"}
  /\ client \in Clients \cup {None}
  /\ connected \subseteq Clients
  /\ handlers \in Nat /\ inherited \in Nat
  /\ now \in 0..MaxReloads
  /\ manager \in [0..MaxReloads -> Managers]
  /\ loop \in [Loops -> Work]
  /\ dog \in Dogs
  /\ rec \in Work
  /\ breaker \in {"CLOSED", "OPEN"}
  /\ off \in {"no", "dispatcher", "runtime"}
  /\ faults \in 0..MaxFaults

\* An update of Telegram is handled once, although the calls of startTelegramClient
\* overlap and recovery changes the client; and once more for every reload that found
\* its client listened to: the listener of the manager that went stays on it.
HandledOnce == handlers <= 1 + inherited /\ inherited <= now

\* "Telegram runtime ownership is governed only by the telegram_client lease": the
\* client of an instance that has lost the lease, by whatever detour, does not stay
\* connected (a shutdown has its own property).  After a reload it may: a call of the
\* manager that went connects it, and no watchdog has been started yet.
StaleClientLeaves ==
  (client \in connected /\ lock = "other") ~>
     \/ client \notin connected \/ lock # "other" \/ off = "runtime"
     \/ now > 0 /\ ~dog.on

\* An instance that keeps the lock gets its client connected and listened to,
\* unless it shuts down.
LeaderServes ==
  lock = "me" ~> \/ lock # "me" \/ off # "no"
                 \/ client \in connected /\ handlers > 0

\* The variables have their types, and updates are handled once.
LeaderSafe == LeaderTypeOK /\ HandledOnce

\* An instance without the lock lets go of its client, one with it comes to serve.
LeaderMoves == StaleClientLeaves /\ LeaderServes

-----------------------------------------------------------------------------
(* That updates are handled once is proved for any number of clients, calls,  *)
(* retries, reloads and faults.  A manager remembers the client it listens to *)
(* and listens in one step with the look at that memory: a client that has    *)
(* got a listener since the last reload is the remembered one, or the manager *)
(* is stopped.  And of all the managers only the current one can be running,  *)
(* so that a call that outlives its manager never comes to listen.            *)

USE DEF service, phase

Generations == 0..MaxReloads

\* A client that is being started or reconnected is one, and an attempt is left;
\* no call is older than its manager.
WorkOK ==
  /\ \A l \in Loops : /\ loop[l].at = "starting" => loop[l].client \in Clients
                      /\ loop[l].at \in {"starting", "making"} => loop[l].tries < MaxRetries
                      /\ loop[l].at # "idle" => l[1] <= now
  /\ rec.at \in {"leaving", "waiting"} => rec.client \in Clients

ReplacedStopped == \A g \in Generations : g < now => manager[g].stopped

ListenerKnown ==
  /\ inherited <= now
  /\ \/ handlers = inherited
     \/ /\ handlers = inherited + 1
        /\ manager[now].stopped \/ manager[now].runtime = client

IInv == LeaderTypeOK /\ WorkOK /\ ReplacedStopped /\ ListenerKnown

LEMMA IdleIsWork == Idle \in Work /\ Idle.at = "idle"
  BY LeaderAssumption DEF Idle, Work, Steps

LEMMA NewIsManager == NewManager \in Managers /\ Stopped \in Managers /\ Stopped.stopped
<1>1. NewManager \in Managers
  BY LeaderAssumption DEF NewManager, Managers
<1> QED BY <1>1 DEF Stopped, Managers

LEMMA LoopParts ==
  ASSUME NEW l \in Loops
  PROVE  l[1] \in 0..MaxReloads /\ l[2] \in Kinds
  BY DEF Loops

LEMMA InitIInv == Init => IInv
<1> SUFFICES ASSUME Init  PROVE IInv
  OBVIOUS
<1>1. dog \in Dogs
  BY LeaderAssumption DEF Init, Dogs
<1>2. loop \in [Loops -> Work] /\ rec \in Work /\ manager \in [0..MaxReloads -> Managers]
  BY IdleIsWork, NewIsManager DEF Init
<1>3. now \in 0..MaxReloads /\ faults \in 0..MaxFaults
  BY LeaderAssumption DEF Init
<1>4. LeaderTypeOK
  BY <1>1, <1>2, <1>3 DEF Init, LeaderTypeOK
<1>5. WorkOK
  BY IdleIsWork DEF Init, WorkOK
<1>6. ReplacedStopped /\ ListenerKnown
  BY DEF Init, ReplacedStopped, ListenerKnown, Generations
<1> QED BY <1>4, <1>5, <1>6 DEF IInv

\* m are the managers, with other fields than these.
SameManagers(m) ==
  /\ m \in [0..MaxReloads -> Managers]
  /\ \A g \in 0..MaxReloads : m[g].stopped = manager[g].stopped /\ m[g].runtime = manager[g].runtime

ListenersKept ==
  \/ handlers' = 0 /\ inherited' = 0
  \/ handlers' = handlers /\ inherited' = inherited /\ client' = client

LEMMA OneManager ==
  ASSUME NEW m \in [0..MaxReloads -> Managers], NEW g \in 0..MaxReloads, NEW r \in Managers,
         NEW n, n = [m EXCEPT ![g] = r]
  PROVE  /\ n \in [0..MaxReloads -> Managers] /\ n[g] = r
         /\ \A k \in (0..MaxReloads) \ {g} : n[k] = m[k]
  OBVIOUS

\* One manager gets other fields than these.
LEMMA OneSame ==
  ASSUME NEW m, SameManagers(m), NEW g \in 0..MaxReloads, NEW r \in Managers,
         r.stopped = m[g].stopped, r.runtime = m[g].runtime, NEW n, n = [m EXCEPT ![g] = r]
  PROVE  SameManagers(n)
<1>1. m \in [0..MaxReloads -> Managers]
  BY DEF SameManagers
<1>2. /\ n \in [0..MaxReloads -> Managers] /\ n[g] = r
      /\ \A k \in (0..MaxReloads) \ {g} : n[k] = m[k]
  BY <1>1, OneManager
<1> QED BY <1>2 DEF SameManagers

LEMMA ManagersAre ==
  ASSUME IInv
  PROVE  /\ SameManagers(manager) /\ now \in 0..MaxReloads
         /\ \A g \in 0..MaxReloads : manager[g] \in Managers
  BY DEF IInv, LeaderTypeOK, SameManagers

LEMMA Flags ==
  ASSUME IInv, NEW g \in 0..MaxReloads, NEW a \in BOOLEAN, NEW b \in BOOLEAN
  PROVE  /\ SameManagers([manager EXCEPT ![g].starting = b])
         /\ SameManagers([manager EXCEPT ![g].active = a, ![g].starting = b])
<1> DEFINE r == [manager[g] EXCEPT !.starting = b]
           s == [manager[g] EXCEPT !.active = a, !.starting = b]
<1>1. manager[g] \in Managers /\ SameManagers(manager) /\ manager \in [0..MaxReloads -> Managers]
  BY ManagersAre DEF SameManagers
<1>2. /\ r \in Managers /\ r.stopped = manager[g].stopped /\ r.runtime = manager[g].runtime
      /\ s \in Managers /\ s.stopped = manager[g].stopped /\ s.runtime = manager[g].runtime
  BY <1>1 DEF Managers
<1>3. /\ [manager EXCEPT ![g].starting = b] = [manager EXCEPT ![g] = r]
      /\ [manager EXCEPT ![g].active = a, ![g].starting = b] = [manager EXCEPT ![g] = s]
  BY <1>1
<1> HIDE DEF r, s
<1>4. SameManagers([manager EXCEPT ![g] = r]) /\ SameManagers([manager EXCEPT ![g] = s])
  BY <1>1, <1>2, OneSame
<1> QED BY <1>3, <1>4

\* A status event leaves the listener and the stop of the manager alone.
LEMMA DroppedManager ==
  ASSUME NEW m \in Managers
  PROVE  /\ Dropped(m) \in Managers
         /\ Dropped(m).stopped = m.stopped /\ Dropped(m).runtime = m.runtime
<1> DEFINE n == IF m.retries < MaxReconnect THEN m.retries + 1 ELSE m.retries
           a == m.armed \/ m.retries < MaxReconnect
<1>1. n \in 0..MaxReconnect /\ a \in BOOLEAN
  BY LeaderAssumption DEF Managers
<1>2. Dropped(m) = m \/ Dropped(m) = [m EXCEPT !.active = FALSE, !.retries = n, !.armed = a]
  BY DEF Dropped
<1> HIDE DEF n, a
<1> QED BY <1>1, <1>2 DEF Managers

LEMMA SignalledSame ==
  ASSUME IInv, NEW cs
  PROVE  SameManagers(Signalled(cs))
<1>1. now \in 0..MaxReloads /\ manager[now] \in Managers /\ SameManagers(manager)
  BY ManagersAre
<1>2. /\ Dropped(manager[now]) \in Managers
      /\ Dropped(manager[now]).stopped = manager[now].stopped
      /\ Dropped(manager[now]).runtime = manager[now].runtime
  BY <1>1, DroppedManager
<1>3. Signalled(cs) \in {manager, [manager EXCEPT ![now] = Dropped(manager[now])]}
  BY DEF Signalled
<1>4. SameManagers([manager EXCEPT ![now] = Dropped(manager[now])])
  BY <1>1, <1>2, OneSame
<1> QED BY <1>1, <1>3, <1>4

LEMMA DisconnectKeeps ==
  ASSUME IInv, NEW cs, Disconnect(cs)
  PROVE  SameManagers(manager') /\ connected' \subseteq Clients
  BY SignalledSame DEF Disconnect, IInv, LeaderTypeOK

LEMMA GetClientKeeps ==
  ASSUME IInv, NEW c \in Clients, GetClient(c)
  PROVE  client' = c /\ connected' \subseteq Clients /\ breaker' \in {"CLOSED", "OPEN"}
  BY DEF GetClient, IInv, LeaderTypeOK

LEMMA NoMoreListeners ==
  ASSUME IInv, Listeners(0) \/ UNCHANGED service
  PROVE  ListenersKept /\ handlers' \in Nat /\ inherited' \in Nat
  BY DEF Listeners, ListenersKept, IInv, LeaderTypeOK

\* What the listeners come to, when the managers keep theirs
LEMMA ListenersStay ==
  ASSUME IInv, ListenersKept, SameManagers(manager'), now' = now
  PROVE  ReplacedStopped' /\ ListenerKnown'
<1>1. now \in 0..MaxReloads
  BY ManagersAre
<1>2. ReplacedStopped'
  BY DEF IInv, ReplacedStopped, SameManagers, Generations
<1>3. ListenerKnown'
  BY <1>1 DEF IInv, ListenerKnown, ListenersKept, SameManagers
<1> QED BY <1>2, <1>3

\* A step that leaves the loops alone
LEMMA OtherStep ==
  ASSUME IInv, LeaderTypeOK', loop' = loop, now' = now,
         rec'.at \in {"leaving", "waiting"} => rec'.client \in Clients,
         ListenersKept, SameManagers(manager')
  PROVE  IInv'
<1>1. WorkOK'
  BY DEF IInv, WorkOK
<1> QED BY <1>1, ListenersStay DEF IInv

\* A step of one of the loops
LEMMA LoopStep ==
  ASSUME IInv, LeaderTypeOK', NEW l \in Loops, \A k \in Loops \ {l} : loop'[k] = loop[k],
         rec' = rec, now' = now, l[1] <= now,
         loop'[l].at = "starting" => loop'[l].client \in Clients,
         loop'[l].at \in {"starting", "making"} => loop'[l].tries < MaxRetries,
         ListenersKept, SameManagers(manager')
  PROVE  IInv'
<1>1. WorkOK'
  BY DEF IInv, WorkOK
<1> QED BY <1>1, ListenersStay DEF IInv

-----------------------------------------------------------------------------
(* The steps of startTelegramClient *)

LEMMA LoopFields ==
  ASSUME IInv, NEW l \in Loops
  PROVE  /\ loop[l] \in Work /\ loop[l].client \in Clients \cup {None} /\ loop[l].tries \in 0..MaxRetries
         /\ l[1] \in 0..MaxReloads /\ manager[l[1]] \in Managers
         /\ loop[l].at # "idle" => l[1] <= now
  BY LoopParts, ManagersAre DEF IInv, LeaderTypeOK, Work, WorkOK

LEMMA FaultBound == ASSUME IInv, Fault  PROVE faults' \in 0..MaxFaults
  BY LeaderAssumption DEF Fault, IInv, LeaderTypeOK

\* A loop that is at another step
LEMMA LoopGoes ==
  ASSUME IInv, NEW l \in Loops, NEW w \in Work, loop' = [loop EXCEPT ![l] = w]
  PROVE  loop' \in [Loops -> Work] /\ loop'[l] = w /\ \A k \in Loops \ {l} : loop'[k] = loop[k]
  BY DEF IInv, LeaderTypeOK

LEMMA GotoFields ==
  ASSUME IInv, NEW l \in Loops, NEW at \in Steps, Goto(l, at)
  PROVE  /\ loop' \in [Loops -> Work] /\ \A k \in Loops \ {l} : loop'[k] = loop[k]
         /\ loop'[l].at = at /\ loop'[l].client = loop[l].client /\ loop'[l].tries = loop[l].tries
<1>1. loop \in [Loops -> Work] /\ loop[l] \in Work
  BY DEF IInv, LeaderTypeOK
<1>2. [loop[l] EXCEPT !.at = at] \in Work
  BY <1>1 DEF Work
<1>3. loop' = [loop EXCEPT ![l] = [loop[l] EXCEPT !.at = at]]
  BY <1>1 DEF Goto
<1> QED BY <1>1, <1>2, <1>3 DEF Work

LEMMA DoneFields ==
  ASSUME IInv, NEW l \in Loops, Done(l)
  PROVE  /\ loop' \in [Loops -> Work] /\ \A k \in Loops \ {l} : loop'[k] = loop[k]
         /\ loop'[l].at = "idle"
  BY IdleIsWork DEF Done, IInv, LeaderTypeOK

\* The client that it goes on with
LEMMA StartingFields ==
  ASSUME IInv, NEW l \in Loops, NEW c \in Clients,
         loop' = [loop EXCEPT ![l].at = "starting", ![l].client = c]
  PROVE  /\ loop' \in [Loops -> Work] /\ \A k \in Loops \ {l} : loop'[k] = loop[k]
         /\ loop'[l].at = "starting" /\ loop'[l].client = c /\ loop'[l].tries = loop[l].tries
<1>1. loop \in [Loops -> Work] /\ loop[l] \in Work
  BY DEF IInv, LeaderTypeOK
<1>2. [loop[l] EXCEPT !.at = "starting", !.client = c] \in Work
  BY <1>1 DEF Work, Steps
<1>3. loop' = [loop EXCEPT ![l] = [loop[l] EXCEPT !.at = "starting", !.client = c]]
  BY <1>1
<1> QED BY <1>1, <1>2, <1>3, LoopGoes DEF Work

LEMMA BeginIInv ==
  ASSUME IInv, NEW l \in Loops, Begin(l)
  PROVE  IInv'
<1>1. /\ l[1] = now /\ now \in 0..MaxReloads /\ manager[now] \in Managers
      /\ manager \in [0..MaxReloads -> Managers]
  BY ManagersAre DEF Begin, SameManagers
<1>2. SameManagers(manager')
  <2>1. CASE l[2] = "startup"
    <3>1. manager[now].startup - 1 \in 0..MaxStartup
      <4>1. Due(l) /\ manager[now].startup \in 0..MaxStartup
        BY <1>1 DEF Begin, Managers
      <4>2. manager[now].startup > 0
        BY <1>1, <2>1, <4>1 DEF Due, Own
      <4> QED BY <4>1, <4>2, LeaderAssumption
    <3> DEFINE r == [manager[now] EXCEPT !.startup = manager[now].startup - 1]
    <3>2. r \in Managers /\ r.stopped = manager[now].stopped /\ r.runtime = manager[now].runtime
      BY <1>1, <3>1 DEF Managers
    <3>3. manager' = [manager EXCEPT ![now] = r]
      BY <1>1, <2>1 DEF Begin
    <3> HIDE DEF r
    <3> QED BY <1>1, <3>2, <3>3, ManagersAre, OneSame
  <2>2. CASE l[2] = "reconnect"
    <3> DEFINE r == [manager[now] EXCEPT !.armed = FALSE]
    <3>1. r \in Managers /\ r.stopped = manager[now].stopped /\ r.runtime = manager[now].runtime
      BY <1>1 DEF Managers
    <3>2. manager' = [manager EXCEPT ![now] = r]
      BY <1>1, <2>2 DEF Begin
    <3> HIDE DEF r
    <3> QED BY <1>1, <3>1, <3>2, ManagersAre, OneSame
  <2>3. CASE l[2] \notin {"startup", "reconnect"}
    BY <2>3, ManagersAre DEF Begin
  <2> QED BY <2>1, <2>2, <2>3
<1>3. /\ loop' \in [Loops -> Work] /\ \A k \in Loops \ {l} : loop'[k] = loop[k]
      /\ loop'[l].at \in {"idle", "acquiring"}
  <2>1. CASE Goto(l, "acquiring")
    BY <2>1, GotoFields DEF Steps
  <2>2. CASE UNCHANGED loop
    BY <2>2 DEF Begin, IInv, LeaderTypeOK
  <2> QED BY <2>1, <2>2 DEF Begin
<1>4. ListenersKept /\ UNCHANGED <<lock, service, connected, dog, rec, breaker, phase, faults>>
  BY NoMoreListeners DEF Begin
<1>5. LeaderTypeOK'
  BY <1>2, <1>3, <1>4 DEF IInv, LeaderTypeOK, SameManagers
<1> QED BY <1>1, <1>2, <1>3, <1>4, <1>5, LoopStep

\* Only a call of the manager that is there comes to listen, to a client that this
\* manager does not know, and so one that has no listener since the last reload.
LEMMA ListenIInv ==
  ASSUME IInv, NEW l \in Loops, loop[l].at # "idle", NEW m, SameManagers(m), Listen(l, m),
         lock' \in {"me", "other", "free"}, UNCHANGED <<rec, phase, faults>>
  PROVE  IInv'
<1> DEFINE g == l[1]
<1>1. /\ g \in 0..MaxReloads /\ g <= now /\ now \in 0..MaxReloads
      /\ m \in [0..MaxReloads -> Managers] /\ m[g] \in Managers
  BY LoopFields, ManagersAre DEF SameManagers
<1>2. /\ loop' \in [Loops -> Work] /\ \A k \in Loops \ {l} : loop'[k] = loop[k]
      /\ loop'[l].at = "idle"
  BY DoneFields DEF Listen
<1>3. PICK c \in Clients :
        /\ GetClient(c)
        /\ IF m[g].stopped THEN Listeners(0) /\ manager' = m /\ UNCHANGED dog
           ELSE /\ manager' = [m EXCEPT ![g].runtime = c,
                                       ![g].startup = IF l[2] = "startup" THEN 0 ELSE @]
                /\ IF IsNew(m[g], c) THEN Listeners(1) /\ dog' = [dog EXCEPT !.on = TRUE]
                   ELSE Listeners(0) /\ UNCHANGED dog
  BY DEF Listen
<1>4. /\ client' = c /\ connected' \subseteq Clients /\ breaker' \in {"CLOSED", "OPEN"}
      /\ dog' \in Dogs
  BY <1>3, GetClientKeeps DEF IInv, LeaderTypeOK, Dogs
<1>5. CASE m[g].stopped
  <2>1. ListenersKept /\ handlers' \in Nat /\ inherited' \in Nat /\ manager' = m
    BY <1>3, <1>5, NoMoreListeners
  <2>2. LeaderTypeOK'
    BY <1>1, <1>2, <1>4, <2>1 DEF IInv, LeaderTypeOK
  <2> QED BY <1>1, <1>2, <2>1, <2>2, LoopStep
<1>6. CASE ~m[g].stopped
  <2>1. g = now /\ ~manager[now].stopped
    BY <1>1, <1>6 DEF IInv, ReplacedStopped, SameManagers, Generations
  <2> DEFINE k == IF l[2] = "startup" THEN 0 ELSE m[now].startup
             r == [m[now] EXCEPT !.runtime = c, !.startup = k]
  <2>2. k \in 0..MaxStartup
    BY <1>1, <2>1, LeaderAssumption DEF Managers
  <2>3. manager' = [m EXCEPT ![now] = r]
    BY <1>1, <1>3, <1>6, <2>1
  <2> HIDE DEF k
  <2>4. r \in Managers /\ r.stopped = m[now].stopped /\ r.runtime = c
    BY <1>1, <2>1, <2>2 DEF Managers
  <2> HIDE DEF r
  <2>5. /\ manager' \in [0..MaxReloads -> Managers] /\ manager'[now] = r
        /\ \A h \in (0..MaxReloads) \ {now} : manager'[h] = m[h]
    BY <1>1, <2>3, <2>4, OneManager
  <2>6. /\ handlers' \in Nat /\ inherited' \in Nat
        /\ inherited' <= now
        /\ handlers' = inherited' \/ handlers' = inherited' + 1
    <3>1. handlers \in Nat /\ inherited \in Nat /\ now \in Nat /\ inherited <= now
      BY <1>1 DEF IInv, LeaderTypeOK, ListenerKnown
    <3>2. CASE IsNew(m[g], c)
      <4>1. Listeners(1)
        BY <1>3, <1>6, <3>2
      <4>2. client' = client => handlers = inherited
        BY <1>1, <1>4, <2>1, <3>2 DEF IInv, ListenerKnown, IsNew, SameManagers
      <4> QED BY <3>1, <4>1, <4>2 DEF Listeners
    <3>3. CASE ~IsNew(m[g], c)
      <4>1. Listeners(0)
        BY <1>3, <1>6, <3>3
      <4>2. handlers = inherited \/ handlers = inherited + 1
        BY DEF IInv, ListenerKnown
      <4> QED BY <3>1, <4>1, <4>2 DEF Listeners
    <3> QED BY <3>2, <3>3
  <2>7. LeaderTypeOK'
    BY <1>2, <1>4, <2>5, <2>6 DEF IInv, LeaderTypeOK
  <2>8. WorkOK'
    BY <1>1, <1>2 DEF IInv, WorkOK
  <2>9. ReplacedStopped'
    BY <1>1, <2>5 DEF IInv, ReplacedStopped, SameManagers, Generations
  <2>10. ListenerKnown'
    BY <1>4, <2>4, <2>5, <2>6 DEF ListenerKnown
  <2> QED BY <2>7, <2>8, <2>9, <2>10 DEF IInv
<1> QED BY <1>5, <1>6

LEMMA ReturnedIInv ==
  ASSUME IInv, NEW l \in Loops, loop[l].at # "idle", NEW m, SameManagers(m), Returned(l, m),
         lock' \in {"me", "other", "free"}, UNCHANGED <<rec, phase, faults>>
  PROVE  IInv'
<1>1. CASE Listen(l, m)
  BY <1>1, ListenIInv
<1>2. CASE /\ Goto(l, "ensuring") \/ Done(l)
           /\ manager' = m /\ UNCHANGED <<service, connected, breaker, dog>>
  <2>1. /\ loop' \in [Loops -> Work] /\ \A k \in Loops \ {l} : loop'[k] = loop[k]
        /\ loop'[l].at \in {"ensuring", "idle"}
    BY <1>2, GotoFields, DoneFields DEF Steps
  <2>2. ListenersKept
    BY <1>2, NoMoreListeners
  <2>3. LeaderTypeOK'
    BY <1>2, <2>1 DEF IInv, LeaderTypeOK, SameManagers
  <2> QED BY <1>2, <2>1, <2>2, <2>3, LoopFields, LoopStep
<1> QED BY <1>1, <1>2 DEF Returned

LEMMA EnsureIInv ==
  ASSUME IInv, NEW l \in Loops, Ensure(l)
  PROVE  IInv'
<1>1. loop[l].at # "idle" /\ UNCHANGED <<lock, rec, phase, faults>>
  BY DEF Ensure
<1>2. CASE Listen(l, manager)
  BY <1>1, <1>2, ManagersAre, ListenIInv DEF IInv, LeaderTypeOK
<1>3. CASE /\ GetClientFails /\ Done(l) /\ UNCHANGED dog
           /\ manager' \in {manager, [manager EXCEPT ![l[1]].startup = 0]}
  <2> DEFINE r == [manager[l[1]] EXCEPT !.startup = 0]
  <2>1. l[1] \in 0..MaxReloads /\ manager[l[1]] \in Managers /\ SameManagers(manager)
    BY LoopFields, ManagersAre
  <2>2. r \in Managers /\ r.stopped = manager[l[1]].stopped /\ r.runtime = manager[l[1]].runtime
    BY <2>1, LeaderAssumption DEF Managers
  <2>3. manager' = manager \/ manager' = [manager EXCEPT ![l[1]] = r]
    BY <1>3, <2>1
  <2> HIDE DEF r
  <2>4. SameManagers(manager')
    BY <2>1, <2>2, <2>3, OneSame
  <2>5. ListenersKept
    BY <1>3, NoMoreListeners DEF GetClientFails
  <2>6. LeaderTypeOK'
    BY <1>1, <1>3, <2>4, DoneFields DEF GetClientFails, IInv, LeaderTypeOK, SameManagers
  <2> QED BY <1>1, <1>3, <2>4, <2>5, <2>6, LoopFields, DoneFields, LoopStep
<1> QED BY <1>2, <1>3 DEF Ensure

LEMMA TryIInv ==
  ASSUME IInv, NEW l \in Loops, loop[l].at # "idle", Try(l),
         lock' \in {"me", "other", "free"}, UNCHANGED <<rec, phase, faults>>
  PROVE  IInv'
<1>1. /\ loop[l] \in Work /\ l[1] \in 0..MaxReloads /\ l[1] <= now
      /\ SameManagers([manager EXCEPT ![l[1]].starting = TRUE])
      /\ SameManagers([manager EXCEPT ![l[1]].starting = FALSE])
  BY LoopFields, Flags
<1>2. CASE Own(l).active
  BY <1>1, <1>2, ReturnedIInv DEF Try
<1>3. CASE ~Own(l).active
  <2>1. /\ UNCHANGED <<service, connected, breaker, dog>> /\ SameManagers(manager')
    BY <1>1, <1>3 DEF Try
  <2>2. /\ loop' \in [Loops -> Work] /\ \A k \in Loops \ {l} : loop'[k] = loop[k]
        /\ loop'[l].at = "starting" => loop'[l].client \in Clients
        /\ loop'[l].at \in {"starting", "making"} => loop'[l].tries < MaxRetries
    <3>1. CASE Done(l)
      BY <3>1, DoneFields
    <3>2. CASE loop[l].tries < MaxRetries /\ Goto(l, "making")
      BY <3>2, GotoFields DEF Steps
    <3>3. CASE /\ loop[l].tries < MaxRetries /\ client \in Clients
               /\ loop' = [loop EXCEPT ![l].at = "starting", ![l].client = client]
      BY <3>3, StartingFields
    <3>4. client \in Clients \cup {None} /\ loop[l].tries \in Int /\ MaxRetries \in Int
      BY <1>1, LeaderAssumption DEF IInv, LeaderTypeOK, Work
    <3> QED BY <1>3, <3>1, <3>2, <3>3, <3>4 DEF Try
  <2>3. ListenersKept
    BY <2>1, NoMoreListeners
  <2>4. LeaderTypeOK'
    BY <2>1, <2>2 DEF IInv, LeaderTypeOK, SameManagers
  <2> QED BY <1>1, <2>1, <2>2, <2>3, <2>4, LoopStep
<1> QED BY <1>2, <1>3

LEMMA AcquiredIInv ==
  ASSUME IInv, NEW l \in Loops, Acquired(l)
  PROVE  IInv'
<1>1. loop[l].at # "idle" /\ lock' = "me" /\ UNCHANGED <<rec, phase, faults>>
  BY DEF Acquired
<1> QED BY <1>1, ManagersAre, ReturnedIInv, TryIInv DEF Acquired

LEMMA AttemptIInv ==
  ASSUME IInv, NEW l \in Loops, Attempt(l)
  PROVE  IInv'
  BY TryIInv DEF Attempt, IInv, LeaderTypeOK

LEMMA NotAcquiredIInv ==
  ASSUME IInv, NEW l \in Loops, NotAcquired(l)
  PROVE  IInv'
<1>1. Done(l) /\ faults' \in 0..MaxFaults /\ connected' \subseteq Clients /\ loop[l].at # "idle"
  BY FaultBound DEF NotAcquired, IInv, LeaderTypeOK
<1>2. SameManagers(manager')
  <2>1. CASE manager' = manager
    BY <2>1, ManagersAre
  <2>2. CASE manager' = [Signalled(connected \ connected') EXCEPT ![l[1]].active = FALSE]
    <3> DEFINE m == Signalled(connected \ connected')
               r == [m[l[1]] EXCEPT !.active = FALSE]
    <3>1. SameManagers(m)
      BY SignalledSame
    <3> HIDE DEF m
    <3>2. l[1] \in 0..MaxReloads /\ m \in [0..MaxReloads -> Managers] /\ m[l[1]] \in Managers
      BY <3>1, LoopFields DEF SameManagers
    <3>3. r \in Managers /\ r.stopped = m[l[1]].stopped /\ r.runtime = m[l[1]].runtime
      BY <3>2 DEF Managers
    <3>4. manager' = [m EXCEPT ![l[1]] = r]
      BY <2>2, <3>2 DEF m
    <3> HIDE DEF r
    <3> QED BY <3>1, <3>2, <3>3, <3>4, OneSame
  <2> QED BY <2>1, <2>2 DEF NotAcquired
<1>3. ListenersKept /\ UNCHANGED <<lock, service, dog, rec, breaker, phase>>
  BY NoMoreListeners DEF NotAcquired
<1>4. LeaderTypeOK'
  BY <1>1, <1>2, <1>3, DoneFields DEF IInv, LeaderTypeOK, SameManagers
<1> QED BY <1>1, <1>2, <1>3, <1>4, LoopFields, DoneFields, LoopStep

LEMMA MadeIInv ==
  ASSUME IInv, NEW l \in Loops, Made(l)
  PROVE  IInv'
<1>1. /\ loop[l] \in Work /\ l[1] \in 0..MaxReloads /\ l[1] <= now
      /\ loop[l].tries < MaxRetries /\ loop[l].tries \in Nat
      /\ UNCHANGED <<lock, dog, rec, phase, faults>>
  BY LoopFields DEF Made, IInv, WorkOK, Work
<1>2. ASSUME NEW c \in Clients, GetClient(c), Listeners(0), SameManagers(manager'),
             \/ Done(l)
             \/ loop' = [loop EXCEPT ![l].at = "starting", ![l].client = c]
      PROVE  IInv'
  <2>1. /\ loop' \in [Loops -> Work] /\ \A k \in Loops \ {l} : loop'[k] = loop[k]
        /\ loop'[l].at = "starting" => loop'[l].client \in Clients
        /\ loop'[l].at \in {"starting", "making"} => loop'[l].tries < MaxRetries
    BY <1>1, <1>2, DoneFields, StartingFields
  <2>2. ListenersKept /\ handlers' \in Nat /\ inherited' \in Nat
    BY <1>2, NoMoreListeners
  <2>3. LeaderTypeOK'
    BY <1>1, <1>2, <2>1, <2>2, GetClientKeeps DEF IInv, LeaderTypeOK, SameManagers
  <2> QED BY <1>1, <1>2, <2>1, <2>2, <2>3, LoopStep
<1>3. CASE /\ GetClientFails /\ UNCHANGED manager
           /\ loop' = [loop EXCEPT ![l].at = "connecting", ![l].tries = @ + 1]
  <2>1. /\ loop' \in [Loops -> Work] /\ \A k \in Loops \ {l} : loop'[k] = loop[k]
        /\ loop'[l].at = "connecting"
    <3> DEFINE w == [loop[l] EXCEPT !.at = "connecting", !.tries = loop[l].tries + 1]
    <3>1. loop[l].tries + 1 \in 0..MaxRetries
      BY <1>1, LeaderAssumption
    <3>2. w \in Work /\ w.at = "connecting"
      BY <1>1, <3>1 DEF Work, Steps
    <3>3. loop' = [loop EXCEPT ![l] = w]
      BY <1>3 DEF IInv, LeaderTypeOK
    <3> HIDE DEF w
    <3> QED BY <3>2, <3>3, LoopGoes
  <2>2. ListenersKept /\ SameManagers(manager')
    BY <1>3, NoMoreListeners, ManagersAre DEF GetClientFails
  <2>3. LeaderTypeOK'
    BY <1>1, <1>3, <2>1 DEF GetClientFails, IInv, LeaderTypeOK
  <2> QED BY <1>1, <2>1, <2>2, <2>3, LoopStep
<1>4. SameManagers(manager) /\ SameManagers([manager EXCEPT ![l[1]].starting = FALSE])
  BY <1>1, ManagersAre, Flags
<1> QED BY <1>2, <1>3, <1>4 DEF Made

LEMMA StartedIInv ==
  ASSUME IInv, NEW l \in Loops, Started(l)
  PROVE  IInv'
<1>1. /\ loop' \in [Loops -> Work] /\ \A k \in Loops \ {l} : loop'[k] = loop[k]
      /\ loop'[l].at = "saving"
  <2>1. [Idle EXCEPT !.at = "saving"] \in Work /\ [Idle EXCEPT !.at = "saving"].at = "saving"
    BY IdleIsWork DEF Idle, Work, Steps
  <2> QED BY <2>1, LoopGoes DEF Started
<1>2. SameManagers(manager') /\ ListenersKept /\ l[1] <= now
  BY ManagersAre, NoMoreListeners, LoopFields DEF Started
<1>3. connected' \subseteq Clients
  BY DEF Started, IInv, LeaderTypeOK, WorkOK
<1>4. LeaderTypeOK'
  BY <1>1, <1>3 DEF Started, IInv, LeaderTypeOK
<1> QED BY <1>1, <1>2, <1>4, LoopStep DEF Started

LEMMA SavedIInv ==
  ASSUME IInv, NEW l \in Loops, Saved(l)
  PROVE  IInv'
<1>1. /\ loop[l].at # "idle" /\ UNCHANGED <<lock, rec, phase, faults>>
      /\ SameManagers([manager EXCEPT ![l[1]].active = TRUE, ![l[1]].starting = FALSE])
  BY LoopFields, Flags DEF Saved
<1> QED BY <1>1, ReturnedIInv DEF Saved, IInv, LeaderTypeOK

LEMMA StartFailsIInv ==
  ASSUME IInv, NEW l \in Loops, StartFails(l)
  PROVE  IInv'
<1>1. /\ loop' \in [Loops -> Work] /\ \A k \in Loops \ {l} : loop'[k] = loop[k]
      /\ loop'[l].at \in {"connecting", "idle"}
  <2>1. CASE loop' = [loop EXCEPT ![l] = [Idle EXCEPT !.at = "connecting", !.tries = loop[l].tries + 1]]
    <3>1. loop[l].tries + 1 \in 0..MaxRetries
      BY LoopFields, LeaderAssumption DEF StartFails, IInv, WorkOK
    <3>2. [Idle EXCEPT !.at = "connecting", !.tries = loop[l].tries + 1] \in Work
      BY <3>1 DEF Idle, Work, Steps
    <3> QED BY <2>1, <3>2, LoopGoes DEF Idle
  <2>2. CASE Done(l)
    BY <2>2, DoneFields
  <2> QED BY <2>1, <2>2 DEF StartFails
<1>2. SameManagers(manager') /\ connected' \subseteq Clients
  <2>1. \/ Disconnect({client}) \/ UNCHANGED <<connected, manager>>
        \/ /\ manager' = [manager EXCEPT ![l[1]].active = FALSE, ![l[1]].starting = FALSE]
           /\ UNCHANGED connected
    BY DEF StartFails
  <2>2. connected \subseteq Clients /\ SameManagers(manager) /\ l[1] \in 0..MaxReloads
    BY ManagersAre, LoopFields DEF IInv, LeaderTypeOK
  <2>3. SameManagers([manager EXCEPT ![l[1]].active = FALSE, ![l[1]].starting = FALSE])
    BY <2>2, Flags
  <2> QED BY <2>1, <2>2, <2>3, DisconnectKeeps
<1>3. /\ faults' \in 0..MaxFaults /\ UNCHANGED <<lock, service, dog, rec, breaker, phase>>
      /\ ListenersKept /\ l[1] <= now
  BY FaultBound, NoMoreListeners, LoopFields DEF StartFails
<1>4. LeaderTypeOK'
  BY <1>1, <1>2, <1>3 DEF IInv, LeaderTypeOK, SameManagers
<1> QED BY <1>1, <1>2, <1>3, <1>4, LoopStep


-----------------------------------------------------------------------------
(* The watchdog, the recovery, the shutdown and the world *)

LEMMA DogGoes ==
  ASSUME IInv, NEW at \in {"idle", "owner", "dropping", "forgetting", "yielding"}, DogAt(at)
  PROVE  dog' \in Dogs
  BY DEF DogAt, IInv, LeaderTypeOK, Dogs

\* A step that leaves the loops and the reloads alone, from its parts
LEMMA PlainStep ==
  ASSUME IInv, loop' = loop, UNCHANGED phase, SameManagers(manager'), connected' \subseteq Clients,
         lock' \in {"me", "other", "free"}, client' \in Clients \cup {None},
         Listeners(0) \/ UNCHANGED service, dog' \in Dogs, rec' \in Work,
         rec'.at \in {"leaving", "waiting"} => rec'.client \in Clients,
         breaker' \in {"CLOSED", "OPEN"}, faults' \in 0..MaxFaults
  PROVE  IInv'
<1>1. ListenersKept /\ handlers' \in Nat /\ inherited' \in Nat
  BY NoMoreListeners
<1>2. LeaderTypeOK'
  BY <1>1 DEF IInv, LeaderTypeOK, SameManagers
<1> QED BY <1>1, <1>2, OtherStep

LEMMA LookIInv == ASSUME IInv, Look  PROVE IInv'
<1>1. dog' \in Dogs /\ faults' \in 0..MaxFaults
  BY DogGoes, FaultBound DEF Look, IInv, LeaderTypeOK
<1> QED BY <1>1, ManagersAre, PlainStep DEF Look, IInv, LeaderTypeOK, WorkOK

LEMMA DropClientIInv == ASSUME IInv, DropClient \/ Duplicated  PROVE IInv'
<1>1. /\ dog' \in Dogs /\ faults' \in 0..MaxFaults
      /\ UNCHANGED <<lock, service, loop, rec, breaker, phase>>
  BY DogGoes, FaultBound DEF DropClient, Duplicated, IInv, LeaderTypeOK
<1>2. SameManagers(manager') /\ connected' \subseteq Clients
  BY DisconnectKeeps DEF DropClient, Duplicated
<1> QED BY <1>1, <1>2, PlainStep DEF IInv, LeaderTypeOK, WorkOK

LEMMA RestedDog == ASSUME IInv, NEW on \in BOOLEAN, NEW at \in {dog.at, "idle"}
                   PROVE  /\ [dog EXCEPT !.at = at, !.failures = 0] \in Dogs
                          /\ [dog EXCEPT !.on = on, !.failures = 0] \in Dogs
                          /\ [dog EXCEPT !.failures = 0] \in Dogs
<1>1. 0 \in 0..(Threshold - 1) /\ dog \in Dogs
  BY LeaderAssumption DEF IInv, LeaderTypeOK
<1> QED BY <1>1 DEF Dogs

LEMMA ForgetClientIInv == ASSUME IInv, ForgetClient  PROVE IInv'
<1>1. dog' \in Dogs
  BY RestedDog DEF ForgetClient
<1> QED BY <1>1, ManagersAre, PlainStep DEF ForgetClient, Forget, IInv, LeaderTypeOK, WorkOK

LEMMA StrikeKeeps ==
  ASSUME IInv, Strike
  PROVE  /\ dog' \in Dogs /\ rec' \in Work
         /\ rec' = rec \/ rec'.at = "checking"
<1> DEFINE n == dog.failures + 1
           f == IF n >= Threshold THEN Threshold - 1 ELSE n
<1>1. f \in 0..(Threshold - 1)
  BY LeaderAssumption DEF IInv, LeaderTypeOK, Dogs
<1>2. dog' = [dog EXCEPT !.at = "idle", !.failures = f]
  BY DEF Strike
<1> HIDE DEF f
<1>3. dog' \in Dogs
  BY <1>1, <1>2 DEF IInv, LeaderTypeOK, Dogs
<1>4. [Idle EXCEPT !.at = "checking"] \in Work /\ [Idle EXCEPT !.at = "checking"].at = "checking"
  BY IdleIsWork DEF Idle, Work, Steps
<1>5. rec' \in {rec, [Idle EXCEPT !.at = "checking"]}
  BY DEF Strike
<1> QED BY <1>3, <1>4, <1>5 DEF IInv, LeaderTypeOK

LEMMA CheckIInv == ASSUME IInv, Check  PROVE IInv'
<1>1. UNCHANGED <<lock, manager, loop, phase>> /\ SameManagers(manager')
  BY ManagersAre DEF Check
<1>2. CASE DogAt("idle") /\ UNCHANGED <<service, connected, breaker, rec, faults>>
  BY <1>1, <1>2, DogGoes, PlainStep DEF IInv, LeaderTypeOK, WorkOK
<1>3. ASSUME NEW c \in Clients, GetClient(c), Listeners(0), faults' \in 0..MaxFaults, dog' \in Dogs,
             rec' \in Work, rec' = rec \/ rec'.at = "checking"
      PROVE  IInv'
  BY <1>1, <1>3, GetClientKeeps, PlainStep DEF IInv, LeaderTypeOK, WorkOK
<1>4. [dog EXCEPT !.at = "idle", !.failures = 0] \in Dogs /\ rec \in Work /\ faults \in 0..MaxFaults
  BY RestedDog DEF IInv, LeaderTypeOK
<1> QED BY <1>2, <1>3, <1>4, StrikeKeeps, FaultBound DEF Check

LEMMA YieldIInv == ASSUME IInv, Yield  PROVE IInv'
<1>1. dog' \in Dogs
  BY DogGoes DEF Yield
<1> QED BY <1>1, IdleIsWork, ManagersAre, PlainStep DEF Yield, Forget, IInv, LeaderTypeOK

\* A recovery that ends, starts or waits
LEMMA RecFields ==
  ASSUME IInv
  PROVE  /\ rec \in Work /\ Idle \in Work /\ Idle.at = "idle"
         /\ [Idle EXCEPT !.at = "checking"] \in Work /\ [Idle EXCEPT !.at = "checking"].at = "checking"
         /\ \A c \in Clients : /\ [Idle EXCEPT !.at = "leaving", !.client = c] \in Work
                               /\ [Idle EXCEPT !.at = "leaving", !.client = c].client = c
         /\ [rec EXCEPT !.at = "waiting"] \in Work /\ [rec EXCEPT !.at = "waiting"].client = rec.client
  BY IdleIsWork DEF IInv, LeaderTypeOK, Idle, Work, Steps

LEMMA RecCheckIInv == ASSUME IInv, RecCheck  PROVE IInv'
<1>1. CASE lock = "me"
  <2>1. PICK c \in Clients : /\ GetClient(c) /\ Listeners(0)
                             /\ rec' = [Idle EXCEPT !.at = "leaving", !.client = c]
    BY <1>1 DEF RecCheck
  <2>2. UNCHANGED <<manager, lock, loop, dog, phase, faults>>
    BY <1>1 DEF RecCheck
  <2>3. rec' \in Work /\ rec'.client \in Clients
    BY <2>1, RecFields
  <2> QED BY <2>1, <2>2, <2>3, GetClientKeeps, ManagersAre, PlainStep DEF IInv, LeaderTypeOK
<1>2. CASE lock # "me"
  <2>1. /\ rec' = Idle /\ Disconnect({client}) /\ Forget
        /\ UNCHANGED <<breaker, lock, loop, dog, phase, faults>>
    BY <1>2 DEF RecCheck
  <2> QED BY <2>1, DisconnectKeeps, RecFields, PlainStep DEF Forget, IInv, LeaderTypeOK
<1> QED BY <1>1, <1>2

LEMMA RecLeaveIInv == ASSUME IInv, RecLeave  PROVE IInv'
<1>1. /\ rec.client \in Clients /\ rec' = [rec EXCEPT !.at = "waiting"] /\ Disconnect({rec.client})
      /\ UNCHANGED <<lock, service, loop, dog, breaker, phase, faults>>
  BY DEF RecLeave, IInv, WorkOK
<1> QED BY <1>1, DisconnectKeeps, RecFields, PlainStep DEF IInv, LeaderTypeOK

LEMMA RecEndsIInv == ASSUME IInv, RecConnect \/ RecRefused  PROVE IInv'
<1>1. /\ rec' = Idle /\ UNCHANGED <<lock, service, manager, loop, phase>>
      /\ connected' \subseteq Clients /\ faults' \in 0..MaxFaults
      /\ dog' \in {dog, [dog EXCEPT !.failures = 0]} /\ breaker' \in {breaker, "CLOSED", "OPEN"}
  BY FaultBound DEF RecConnect, RecRefused, BreakerFails, IInv, LeaderTypeOK, WorkOK
<1>2. dog' \in Dogs
  BY <1>1, RestedDog DEF IInv, LeaderTypeOK
<1> QED BY <1>1, <1>2, RecFields, ManagersAre, PlainStep DEF IInv, LeaderTypeOK

\* A manager that is stopped stays so, and whoever listens is left to it.
LEMMA StopDispatcherIInv == ASSUME IInv, StopDispatcher  PROVE IInv'
<1>1. /\ now \in 0..MaxReloads /\ manager \in [0..MaxReloads -> Managers]
      /\ manager' = [manager EXCEPT ![now] = Stopped] /\ off' = "dispatcher"
      /\ UNCHANGED <<lock, service, connected, now, loop, dog, rec, breaker>>
      /\ faults' \in 0..MaxFaults
  BY FaultBound DEF StopDispatcher, IInv, LeaderTypeOK
<1>2. /\ manager' \in [0..MaxReloads -> Managers] /\ manager'[now].stopped
      /\ \A g \in (0..MaxReloads) \ {now} : manager'[g] = manager[g]
  BY <1>1, NewIsManager, OneManager
<1>3. LeaderTypeOK'
  BY <1>1, <1>2 DEF IInv, LeaderTypeOK
<1>4. WorkOK'
  BY <1>1 DEF IInv, WorkOK
<1>5. ReplacedStopped'
  BY <1>1, <1>2 DEF IInv, ReplacedStopped, Generations
<1>6. ListenerKnown'
  BY <1>1, <1>2 DEF IInv, ListenerKnown
<1> QED BY <1>3, <1>4, <1>5, <1>6 DEF IInv

LEMMA StopRuntimeIInv == ASSUME IInv, StopRuntime  PROVE IInv'
<1>1. dog' \in Dogs /\ lock' \in {"me", "other", "free"} /\ off' = "runtime"
      /\ UNCHANGED <<now, loop, rec, breaker, faults>>
  BY RestedDog DEF StopRuntime, IInv, LeaderTypeOK
<1>2. SameManagers(manager') /\ connected' \subseteq Clients
  BY DisconnectKeeps DEF StopRuntime
<1>3. client' = None /\ ListenersKept /\ handlers' \in Nat /\ inherited' \in Nat
  BY NoMoreListeners DEF StopRuntime, Forget
<1>4. LeaderTypeOK'
  BY <1>1, <1>2, <1>3 DEF IInv, LeaderTypeOK, SameManagers
<1> QED BY <1>1, <1>2, <1>3, <1>4, OtherStep DEF IInv, WorkOK

\* The new manager inherits the listeners, one more at most than there were reloads.
LEMMA ReloadIInv == ASSUME IInv, Reload  PROVE IInv'
<1>1. /\ now \in 0..MaxReloads /\ now \in Nat /\ manager \in [0..MaxReloads -> Managers]
      /\ now' = now + 1 /\ now' \in 0..MaxReloads
      /\ manager' = [manager EXCEPT ![now] = Stopped] /\ inherited' = handlers
      /\ UNCHANGED <<lock, client, connected, handlers, loop, dog, rec, breaker, off>>
      /\ faults' \in 0..MaxFaults
  BY FaultBound, LeaderAssumption DEF Reload, IInv, LeaderTypeOK
<1>2. /\ manager' \in [0..MaxReloads -> Managers] /\ manager'[now].stopped
      /\ \A g \in (0..MaxReloads) \ {now} : manager'[g] = manager[g]
  BY <1>1, NewIsManager, OneManager
<1>3. LeaderTypeOK'
  BY <1>1, <1>2 DEF IInv, LeaderTypeOK
<1>4. WorkOK'
  <2>1. \A l \in Loops : loop[l].at # "idle" => l[1] <= now + 1
    BY <1>1, LoopParts DEF IInv, WorkOK
  <2> QED BY <1>1, <2>1 DEF IInv, WorkOK
<1>5. ReplacedStopped'
  <2> SUFFICES ASSUME NEW g \in 0..MaxReloads, g < now + 1  PROVE manager'[g].stopped
    BY <1>1 DEF ReplacedStopped, Generations
  <2>1. CASE g = now
    BY <1>2, <2>1
  <2>2. CASE g < now
    BY <1>1, <1>2, <2>2 DEF IInv, ReplacedStopped, Generations
  <2> QED BY <1>1, <2>1, <2>2
<1>6. ListenerKnown'
  <2>1. handlers <= now + 1 /\ handlers \in Nat
    BY <1>1 DEF IInv, LeaderTypeOK, ListenerKnown
  <2> QED BY <1>1, <2>1 DEF ListenerKnown
<1> QED BY <1>3, <1>4, <1>5, <1>6 DEF IInv

LEMMA WorldIInv ==
  ASSUME IInv, \/ LeaseEnds \/ OtherTakes \/ OtherLeaves \/ ErrorReported \/ BreakerTimer
               \/ \E c \in Clients : ConnectionDrops(c)
  PROVE  IInv'
<1>1. /\ lock' \in {"me", "other", "free"} /\ breaker' \in {"CLOSED", "OPEN"}
      /\ faults' \in 0..MaxFaults /\ rec' \in {rec, [Idle EXCEPT !.at = "checking"]}
      /\ UNCHANGED <<service, loop, dog, phase>>
  BY FaultBound
  DEF LeaseEnds, OtherTakes, OtherLeaves, ErrorReported, BreakerTimer, ConnectionDrops, BreakerFails,
      IInv, LeaderTypeOK
<1>2. SameManagers(manager') /\ connected' \subseteq Clients
  BY DisconnectKeeps, ManagersAre
  DEF LeaseEnds, OtherTakes, OtherLeaves, ErrorReported, BreakerTimer, ConnectionDrops, IInv, LeaderTypeOK
<1> QED BY <1>1, <1>2, RecFields, PlainStep DEF IInv, LeaderTypeOK, WorkOK

LEMMA NextIInv == IInv /\ [Next]_vars => IInv'
<1> SUFFICES ASSUME IInv, [Next]_vars  PROVE IInv'
  OBVIOUS
<1>1. ASSUME NEW l \in Loops, Begin(l) \/ Proceed(l)  PROVE IInv'
  BY <1>1, BeginIInv, AcquiredIInv, NotAcquiredIInv, AttemptIInv, MadeIInv, StartedIInv,
     StartFailsIInv, SavedIInv, EnsureIInv DEF Proceed
<1>2. CASE Look \/ Tend \/ Recover
  BY <1>2, LookIInv, DropClientIInv, ForgetClientIInv, CheckIInv, YieldIInv, RecCheckIInv,
     RecLeaveIInv, RecEndsIInv DEF Tend, Recover
<1>3. CASE UNCHANGED vars
  BY <1>3 DEF vars, IInv, LeaderTypeOK, WorkOK, ReplacedStopped, ListenerKnown
<1> QED BY <1>1, <1>2, <1>3, StopDispatcherIInv, StopRuntimeIInv, ReloadIInv, WorldIInv DEF Next

\* Through every overlap of the calls of startTelegramClient, the watchdog, a recovery,
\* a shutdown and reloads, and whoever takes the lease meanwhile, MessageHandler listens
\* to the client of the service at most once more than it did when a reload replaced
\* the manager, and so at most once more than there have been reloads.
THEOREM LeaderIsSafe == LeaderSpec => []LeaderSafe
<1>1. IInv => LeaderSafe
  BY DEF IInv, ListenerKnown, LeaderSafe, HandledOnce, LeaderTypeOK
<1>2. LeaderSpec => []IInv
  BY InitIInv, NextIInv, PTL DEF LeaderSpec
<1> QED BY <1>1, <1>2, PTL

=============================================================================
