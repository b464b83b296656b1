--------------------------------- MODULE Inbox ---------------------------------
(* MessageHandler: an update of Telegram reaches the dispatcher of one       *)
(* instance once.  Telegram delivers an update again after a reconnect, and  *)
(* two instances may receive it while the client moves from one to the       *)
(* other.  An instance remembers the messages it has seen for ten minutes    *)
(* (processedMessages, at most 10000) and takes a lock of 60 seconds in the  *)
(* shared cache, which nobody releases.                                      *)
EXTENDS Integers, Sequences, FiniteSets

CONSTANTS
  Clients,     \* instances, whose Telegram client may receive
  Messages,    \* ids of messages and callback queries
  Copies,      \* how often Telegram may deliver one
  NoClient,
  Capacity,    \* maxSize of processedMessages
  MaxMishaps   \* bound on errors of the cache and deaths of instances

ASSUME InboxAssumption ==
  /\ NoClient \notin Clients /\ Copies \in Nat
  /\ Capacity \in Nat \ {0} /\ MaxMishaps \in Nat

Deliveries == Messages \X (1..Copies)
MsgOf(d) == d[1]

VARIABLES
  delivery,  \* where the handler of a delivery is, and on which instance
  processed, \* processedMessages of an instance, oldest first
  msgLock,   \* holder of msg_lock:<id>
  handled,   \* history: how often a message reached the dispatcher
  excused,   \* history: messages that were lost by an error or a death
  doubled,   \* history: messages whose lock ended, or whose check overlapped another
  mishaps

inboxVars == <<delivery, processed, msgLock, handled, excused, doubled, mishaps>>

InboxInit ==
  /\ delivery = [d \in Deliveries |-> [at |-> "none", node |-> NoClient]]
  /\ processed = [n \in Clients |-> <<>>]
  /\ msgLock = [m \in Messages |-> NoClient]
  /\ handled = [m \in Messages |-> 0]
  /\ excused = {} /\ doubled = {} /\ mishaps = 0

Has(n, m) == \E k \in DOMAIN processed[n] : processed[n][k] = m

\* The memory without a message, which it has at one place at most (the keys of a Map)
Without(n, m) ==
  LET place == CHOOSE k \in DOMAIN processed[n] : processed[n][k] = m IN
  IF Has(n, m)
  THEN [k \in 1..(Len(processed[n]) - 1) |->
          IF k < place THEN processed[n][k] ELSE processed[n][k + 1]]
  ELSE processed[n]

\* LRUCache: a message that is set or found moves to the end, and a full cache drops
\* its oldest one.
AtEnd(n, m) == Append(Without(n, m), m)

Remembered(n, m) == IF Len(AtEnd(n, m)) > Capacity THEN Tail(AtEnd(n, m)) ELSE AtEnd(n, m)

\* Messages that are pushed out while their lock is still there.
PushedOut(n, m) ==
  {x \in Messages : Has(n, x) /\ msgLock[x] # NoClient
                    /\ \A k \in DOMAIN Remembered(n, m) : Remembered(n, m)[k] # x}

Put(d, where) == delivery' = [delivery EXCEPT ![d].at = where]

-----------------------------------------------------------------------------
\* handleEvent up to the lock: a message of the bot itself and one that was seen is
\* dropped.
Receive(d, n) ==
  /\ delivery[d].at = "none"
  /\ delivery' = [delivery EXCEPT ![d] =
                    [at |-> IF Has(n, MsgOf(d)) THEN "dropped" ELSE "lock", node |-> n]]
  /\ processed' = [processed EXCEPT ![n] = IF Has(n, MsgOf(d)) THEN AtEnd(n, MsgOf(d)) ELSE @]
  /\ UNCHANGED <<msgLock, handled, excused, doubled, mishaps>>

\* Mutant: one lock for all messages.
MayTakeShared(d) == \A m \in Messages : msgLock[m] \in {NoClient, delivery[d].node}

\* acquireLock: the lock is taken when it is free or the own one; any error of the
\* cache reads like a lock that another instance holds.
MayTake(d) == msgLock[MsgOf(d)] \in {NoClient, delivery[d].node}

Take(d) ==
  LET n == delivery[d].node  m == MsgOf(d)
  IN /\ delivery[d].at = "lock" /\ MayTake(d)
     /\ msgLock' = [msgLock EXCEPT ![m] = n]
     /\ processed' = [processed EXCEPT ![n] = Remembered(n, m)]
     /\ Put(d, "work")
     /\ doubled' = doubled \union PushedOut(n, m) \union (IF Has(n, m) THEN {m} ELSE {})
     /\ UNCHANGED <<handled, excused, mishaps>>

\* Refused messages are remembered too.
Refuse(d) ==
  LET n == delivery[d].node  m == MsgOf(d)
  IN /\ delivery[d].at = "lock"
     /\ \/ ~MayTake(d) /\ UNCHANGED <<excused, mishaps>>
        \/ mishaps < MaxMishaps /\ mishaps' = mishaps + 1 /\ excused' = excused \union {m}
     /\ processed' = [processed EXCEPT ![n] = Remembered(n, m)]
     /\ Put(d, "dropped")
     /\ doubled' = doubled \union PushedOut(n, m)
     /\ UNCHANGED <<msgLock, handled>>

\* Dispatcher.handle is called; an error it throws is logged and the message is not
\* handled again.
Dispatch(d) ==
  /\ delivery[d].at = "work"
  /\ Put(d, "done")
  /\ handled' = [handled EXCEPT ![MsgOf(d)] = @ + 1]
  /\ UNCHANGED <<processed, msgLock, excused, doubled, mishaps>>

\* Ten minutes after it was seen a message is forgotten; its lock is gone by then.
Forget(n, m) ==
  /\ Has(n, m) /\ msgLock[m] = NoClient
  /\ processed' = [processed EXCEPT ![n] = Without(n, m)]
  /\ UNCHANGED <<delivery, msgLock, handled, excused, doubled, mishaps>>

\* The lock ends by its TTL; a delivery of the message that comes later may double it
\* on an instance that does not remember it.
LockEnds(m) ==
  /\ msgLock[m] # NoClient
  /\ msgLock' = [msgLock EXCEPT ![m] = NoClient]
  /\ doubled' = doubled \union {m}
  /\ UNCHANGED <<delivery, processed, handled, excused, mishaps>>

\* An instance dies with its memory and its handlers; its locks count as free.
NodeDies(n) ==
  /\ mishaps < MaxMishaps /\ mishaps' = mishaps + 1
  /\ processed' = [processed EXCEPT ![n] = <<>>]
  /\ LET lost == {d \in Deliveries : delivery[d].node = n /\ delivery[d].at \in {"lock", "work"}}
     IN /\ delivery' = [d \in Deliveries |->
                          IF d \in lost THEN [delivery[d] EXCEPT !.at = "dropped"] ELSE delivery[d]]
        /\ excused' = excused \union {MsgOf(d) : d \in lost}
  /\ msgLock' = [m \in Messages |-> IF msgLock[m] = n THEN NoClient ELSE msgLock[m]]
  /\ doubled' = doubled \union {m \in Messages : msgLock[m] = n}
  /\ UNCHANGED handled

InboxNext ==
  \/ \E d \in Deliveries : \/ \E n \in Clients : Receive(d, n)
                           \/ Take(d) \/ Refuse(d) \/ Dispatch(d)
  \/ \E n \in Clients : NodeDies(n) \/ \E m \in Messages : Forget(n, m)
  \/ \E m \in Messages : LockEnds(m)

InboxSpec == InboxInit /\ [][InboxNext]_inboxVars

-----------------------------------------------------------------------------
\* Properties

\* Every variable has its type.
InboxTypeOK ==
  /\ delivery \in [Deliveries -> [at : {"none", "lock", "work", "done", "dropped"},
                                  node : Clients \union {NoClient}]]
  /\ processed \in [Clients -> UNION {[1..k -> Messages] : k \in 0..Capacity}]
  /\ msgLock \in [Messages -> Clients \union {NoClient}]
  /\ handled \in [Messages -> 0..Copies]
  /\ excused \subseteq Messages /\ doubled \subseteq Messages
  /\ mishaps \in 0..MaxMishaps

\* A message reaches the dispatcher once, however often and wherever it is delivered;
\* twice only when its lock had ended, its holder had died or two deliveries to one
\* instance both found it unknown (the lock is the instance's own for the second).
DispatchedOnce == \A m \in Messages \ doubled : handled[m] <= 1

\* A delivered message is not lost between the instances: when every handler of it has
\* ended it was dispatched, unless an error of the cache or a death took it.
SomebodyDispatches ==
  \A m \in Messages \ excused :
    LET ended == {d \in Deliveries : MsgOf(d) = m /\ delivery[d].at # "none"}
    IN ended # {} /\ (\A d \in ended : delivery[d].at \in {"done", "dropped"})
         => handled[m] >= 1

\* No update is dispatched twice, none is lost for an instance that only looked at it.
InboxSafe == InboxTypeOK /\ DispatchedOnce /\ SomebodyDispatches

=============================================================================
