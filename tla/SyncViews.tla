----------------------------- MODULE SyncViews -----------------------------
(***************************************************************************)
(* The two views that instances keep of each other's data: one key of      *)
(* ConsistentCache, and one state of StateSynchronizer (src/services).     *)
(* Each is a copy in the process for 60 milliseconds, a value in the       *)
(* shared cache and events that reach other instances in any order or not  *)
(* at all.  A miss of the copy is null and not undefined: get then returns *)
(* null and does not look at the shared cache, unless it skips the copy.   *)
(* An event of ConsistentCache names the key with its prefix, which the    *)
(* receiver puts before it once more: it writes a copy that nobody reads.  *)
(***************************************************************************)
EXTENDS Integers, FiniteSets

CONSTANTS
  Peers,         \* instances
  NoPeer,        \* not an instance
  Writers,       \* calls that can be under way at the same time
  MaxVersions,   \* bound on the calls that send a version out (model checking only)
  MaxSets        \* bound on the sets and deletions among them (model checking only)

ASSUME SyncAssumption == NoPeer \notin Peers /\ MaxVersions \in Nat

VARIABLES
  shared,        \* the shared cache's value of the ConsistentCache key
  copy, stray,   \* of each instance: its copy, and the one under the doubled prefix
  state, stateCopy,  \* the same of the StateSynchronizer key
  events,        \* messages under way: [to, topic, action, value]
  writer,        \* the calls
  lockOwner,     \* the instance that holds the lock of sets, of deletions, of syncs
  versions,      \* versions of the data that were sent out so far
  overdue,        \* history: sets and deletions at work whose lock has ended
  disturbed      \* history: see CopiesAgree

cacheView == <<shared, copy, stray>>
lockView == <<lockOwner, overdue>>
stateView == <<state, stateCopy, disturbed>>
syncVars == <<cacheView, lockView, stateView, events, writer, versions>>

-----------------------------------------------------------------------------
Absent == 0

Versions == 0..MaxVersions

Ops == {"set", "delete", "restore", "sync"}

\* Names of locks: cache_write, cache_delete and sync_state
Locks == {"set", "delete", "sync"}

NoCall == [at |-> "free", op |-> "set", node |-> NoPeer,
         value |-> Absent, locked |-> FALSE]

SyncTypeOK ==
  /\ shared \in Versions /\ state \in Versions
  /\ copy \in [Peers -> Versions] /\ stray \in [Peers -> Versions]
  /\ stateCopy \in [Peers -> Versions]
  /\ writer \in [Writers -> [at : {"free", "lock", "cache", "publish", "keep", "unlock"},
                   op : Ops, node : Peers \cup {NoPeer}, value : Versions, locked : BOOLEAN]]
  /\ lockOwner \in [Locks -> Peers \cup {NoPeer}] /\ overdue \subseteq Writers
  /\ versions \in Versions /\ disturbed \in BOOLEAN

SyncInit ==
  /\ shared = Absent /\ state = Absent
  /\ copy = [n \in Peers |-> Absent] /\ stray = [n \in Peers |-> Absent]
  /\ stateCopy = [n \in Peers |-> Absent]
  /\ events = {} /\ writer = [w \in Writers |-> NoCall] /\ versions = 0
  /\ lockOwner = [op \in Locks |-> NoPeer] /\ overdue = {}
  /\ disturbed = FALSE

Doing(w, ops, label) == writer[w].op \in ops /\ writer[w].at = label

Goes(w, label) == writer' = [writer EXCEPT ![w].at = label]

Begin(w, n, op, value, locked, label) ==
  /\ writer[w].at = "free"
  /\ writer' = [writer EXCEPT ![w] =
       [at |-> label, op |-> op, node |-> n, value |-> value, locked |-> locked]]

NewVersion == versions < MaxVersions /\ versions' = versions + 1

\* A set or deletion has got its lock and has not given it back; it may have lost it
\* meanwhile.  (The field locked is the option lockKey, which a sync does not have.)
Holds(w, op) == writer[w].locked /\ writer[w].op = op /\ writer[w].at \in {"cache", "publish", "unlock"}

Holders(op) == {w \in Writers : Holds(w, op)}

\* Mutant of Grants: two instances find the lock free at once.
GrantsAny(n, op) == TRUE

\* acquireLock, which gives an instance the lock that it has.
Grants(n, op) == lockOwner[op] \in {n, NoPeer}

\* A lock ends under its holders, who are not told: its 30 seconds are over and nobody
\* renews it, its owner's row is not found and another instance may take it, or a provider
\* without compareAndSet let two instances write it.
LockEnds(op) ==
  /\ lockOwner[op] # NoPeer
  /\ lockOwner' = [lockOwner EXCEPT ![op] = NoPeer]
  /\ overdue' = overdue \cup Holders(op)
  /\ UNCHANGED <<cacheView, stateView, events, writer, versions>>

\* The end of a call.  releaseLock gives back whatever the instance has under the name,
\* the lock of another call of its own too; when it fails the lock stays until it ends.
Finishes(w) ==
  LET op == writer[w].op IN
  /\ writer' = [writer EXCEPT ![w] = NoCall]
  /\ \/ /\ writer[w].locked \/ op = "sync"
        /\ lockOwner[op] = writer[w].node
        /\ lockOwner' = [lockOwner EXCEPT ![op] = NoPeer]
        /\ overdue' = (overdue \cup Holders(op)) \ {w}
     \/ overdue' = overdue \ {w} /\ UNCHANGED lockOwner

\* set and delete, with or without the option lockKey
StartWrite(w, n, op, locked) ==
  /\ NewVersion /\ versions < MaxSets
  /\ Begin(w, n, op, versions + 1, locked, IF locked THEN "lock" ELSE "cache")
  /\ UNCHANGED <<cacheView, lockView, stateView, events>>

\* When the lock stays taken the write returns false.
LockWrite(w) ==
  LET n == writer[w].node  op == writer[w].op IN
  /\ Doing(w, {"set", "delete"}, "lock")
  /\ IF Grants(n, op)
     THEN lockOwner' = [lockOwner EXCEPT ![op] = n] /\ Goes(w, "cache")
     ELSE writer' = [writer EXCEPT ![w] = NoCall] /\ UNCHANGED lockOwner
  /\ UNCHANGED <<cacheView, overdue, stateView, events, versions>>

\* _writeWithSync and _deleteWithSync: the shared cache first (it may fail without a
\* word), the copy with it ...
Stored(w) == IF writer[w].op = "set" THEN writer[w].value ELSE Absent

WriteCache(w) ==
  /\ Doing(w, {"set", "delete"}, "cache")
  /\ shared' \in {shared, Stored(w)}
  /\ copy' = [copy EXCEPT ![writer[w].node] = Stored(w)]
  /\ Goes(w, "publish")
  /\ UNCHANGED <<stray, lockView, stateView, events, versions>>

Send(n, topic, action, value) ==
  events' = events \cup
    {[to |-> m, topic |-> topic, action |-> action, value |-> value] : m \in Peers \ {n}}

\* ... then the event, with the lock still held; it may be lost.
Broadcast(w) ==
  /\ Doing(w, {"set", "delete"}, "publish")
  /\ \/ Send(writer[w].node, "cache", writer[w].op, Stored(w))
     \/ UNCHANGED events
  /\ Goes(w, "unlock")
  /\ UNCHANGED <<cacheView, lockView, stateView, versions>>

EndWrite(w) ==
  /\ Doing(w, {"set", "delete"}, "unlock")
  /\ Finishes(w)
  /\ UNCHANGED <<cacheView, stateView, events, versions>>

\* get with skipCache asks CacheService, whose first level is the same process's copy under
\* the same key: the shared cache is read, and the copy filled, when there is no copy.
\* Without skipCache get, and getStateSnapshot, return the copy or null.
ReadShared(n) ==
  /\ copy[n] = Absent /\ shared # Absent
  /\ copy' = [copy EXCEPT ![n] = shared]
  /\ UNCHANGED <<shared, stray, lockView, stateView, events, writer, versions>>

\* The 60 milliseconds of the copies, clearLocalCache and restoreConsistency
ClearLocal(n) ==
  /\ copy[n] # Absent \/ stray[n] # Absent \/ stateCopy[n] # Absent
  /\ copy' = [copy EXCEPT ![n] = Absent] /\ stray' = [stray EXCEPT ![n] = Absent]
  /\ stateCopy' = [stateCopy EXCEPT ![n] = Absent]
  /\ UNCHANGED <<shared, lockView, state, disturbed, events, writer, versions>>

-----------------------------------------------------------------------------
\* No call on the state, and no event of one, is under way.
Quiet == (\A w \in Writers : writer[w].at = "free") /\ events = {}

\* restoreStateSnapshot (updateTaskState): shared cache and copy, then the event
StartRestore(w, n) ==
  /\ NewVersion
  /\ Begin(w, n, "restore", versions + 1, FALSE, "cache")
  /\ disturbed' = (disturbed \/ ~Quiet)
  /\ UNCHANGED <<cacheView, lockView, state, stateCopy, events>>

RestoreCache(w) ==
  /\ Doing(w, {"restore"}, "cache")
  /\ state' \in {state, writer[w].value}
  /\ stateCopy' = [stateCopy EXCEPT ![writer[w].node] = writer[w].value]
  /\ disturbed' = (disturbed \/ state' # writer[w].value)
  /\ Goes(w, "publish")
  /\ UNCHANGED <<cacheView, lockView, events, versions>>

\* syncUserState: it merges the local state with the states of others, which are
\* never found where it looks for them.  Under a lock, else it returns false; the local
\* state is the copy, and null when there is none.
StartSync(w, n) ==
  /\ NewVersion /\ Grants(n, "sync")
  /\ lockOwner' = [lockOwner EXCEPT !["sync"] = n]
  /\ Begin(w, n, "sync", stateCopy[n], FALSE, "publish")
  /\ disturbed' = TRUE
  /\ UNCHANGED <<cacheView, overdue, state, stateCopy, events>>

\* publishStateChange, with the value that was read or made before
PublishState(w) ==
  /\ Doing(w, {"restore", "sync"}, "publish")
  /\ \/ Send(writer[w].node, "state", "set", writer[w].value) /\ UNCHANGED disturbed
     \/ disturbed' = TRUE /\ UNCHANGED events
  /\ writer' = [writer EXCEPT ![w] = IF @.op = "sync" THEN [@ EXCEPT !.at = "keep"] ELSE NoCall]
  /\ UNCHANGED <<cacheView, lockView, state, stateCopy, versions>>

\* _setLocalState after the broadcast: what was read before may be old by now.
KeepState(w) ==
  /\ Doing(w, {"sync"}, "keep")
  /\ state' \in {state, writer[w].value}
  /\ stateCopy' = [stateCopy EXCEPT ![writer[w].node] = writer[w].value]
  /\ Finishes(w)
  /\ UNCHANGED <<cacheView, disturbed, events, versions>>

\* clearTaskState tells no other instance.
ClearState(n) ==
  /\ state # Absent
  /\ state' = Absent
  /\ stateCopy' = [stateCopy EXCEPT ![n] = Absent]
  /\ disturbed' = TRUE
  /\ UNCHANGED <<cacheView, lockView, events, writer, versions>>

-----------------------------------------------------------------------------
\* handleSyncEvent of StateSynchronizer and of ConsistentCache
HandleStateEvent(e) ==
  /\ e \in events /\ e.topic = "state"
  /\ events' = events \ {e}
  /\ stateCopy' = [stateCopy EXCEPT ![e.to] = e.value]
  /\ UNCHANGED <<cacheView, lockView, state, disturbed, writer, versions>>

HandleCacheEvent(e) ==
  /\ e \in events /\ e.topic = "cache"
  /\ events' = events \ {e}
  /\ stray' = [stray EXCEPT ![e.to] = e.value]
  /\ UNCHANGED <<shared, copy, lockView, stateView, writer, versions>>

LoseEvent(e) ==
  /\ e \in events
  /\ events' = events \ {e}
  /\ disturbed' = (disturbed \/ e.topic = "state")
  /\ UNCHANGED <<cacheView, lockView, state, stateCopy, writer, versions>>

\* The two views share nothing but the clock, the locks' service and the kinds of messages.
Passing ==
  \/ \E n \in Peers : ClearLocal(n)
  \/ \E op \in Locks : LockEnds(op)
  \/ \E e \in events : LoseEvent(e)

ValueNext ==
  \/ \E w \in Writers :
       \/ \E n \in Peers, op \in {"set", "delete"}, locked \in BOOLEAN : StartWrite(w, n, op, locked)
       \/ LockWrite(w) \/ WriteCache(w) \/ Broadcast(w) \/ EndWrite(w)
  \/ \E n \in Peers : ReadShared(n)
  \/ \E e \in events : HandleCacheEvent(e)
  \/ Passing

StateNext ==
  \/ \E w \in Writers :
       \/ \E n \in Peers : StartRestore(w, n) \/ StartSync(w, n)
       \/ RestoreCache(w) \/ PublishState(w) \/ KeepState(w)
  \/ \E n \in Peers : ClearState(n)
  \/ \E e \in events : HandleStateEvent(e)
  \/ Passing

SyncNext == ValueNext \/ StateNext

SyncSpec == SyncInit /\ [][SyncNext]_syncVars

-----------------------------------------------------------------------------
\* A set that was made under a lock stays in the shared cache until its event is out and
\* the lock is given back, as long as the lock has not ended under it, unless a write
\* without the lock, a deletion, a call that outlived its own lock or another call of the
\* same instance comes between: the locked sets of two instances mix their values and
\* events only after a lock has ended under one of them.
LockedAlone ==
  \A w \in Writers :
    /\ Holds(w, "set") /\ w \notin overdue /\ writer[w].at # "cache"
    /\ shared' # shared
    => \E v \in Writers \ {w} :
         /\ Doing(v, {"set", "delete"}, "cache")
         /\ \/ ~writer[v].locked \/ writer[v].op = "delete"
            \/ v \in overdue \/ writer[v].node = writer[w].node

LockedSetsAlone == [][LockedAlone]_syncVars

\* When all calls have ended and all events were handled, every copy of the state is what
\* the shared cache holds, unless restores overlapped, an event was lost, the cache failed,
\* the state was cleared or a periodic sync ran.
CopiesAgree == Quiet /\ ~disturbed => \A n \in Peers : stateCopy[n] \in {Absent, state}

\* Locked writes do not mix, and copies agree when nothing overlapped.
ViewsHold == [](SyncTypeOK /\ CopiesAgree) /\ LockedSetsAlone

=============================================================================
