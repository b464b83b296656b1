---------------------------- MODULE InstanceLock ----------------------------
(***************************************************************************)
(* One critical lock of InstanceCoordinator                                *)
(* (src/services/InstanceCoordinator.js): a key of the kinds that require  *)
(* an atomic cache (telegram_client, task:<id>, msg_lock:, task_recovery:) *)
(* held by an instance under a lease.  Taking, renewing and releasing the  *)
(* lock are each a read of the cache and a later compare-and-set or        *)
(* compare-and-delete, so all of them interleave; an entry also vanishes   *)
(* when its TTL ends.  The lock belongs to an instance, not to one of its  *)
(* threads of execution: w \in Workers is one asynchronous job that runs   *)
(* between acquireTaskLock and releaseTaskLock on instance Home[w].        *)
(***************************************************************************)
EXTENDS Integers, FiniteSets

CONSTANTS
  Instances,    \* instance ids; a restart may keep its id (INSTANCE_ID)
  Workers,      \* jobs that use the lock
  Home,         \* Workers -> Instances
  Nobody,       \* not an instance
  Ttl,          \* TASK_LOCK_TTL_SECONDS, in ticks
  MinStaleAge,  \* STALE_TASK_LOCK_RECOVERY_MIN_AGE_MS, in ticks
  MaxClock,     \* bound on the clock          (model checking only)
  MaxLeases     \* bound on the lease ids used (model checking only)

ASSUME InstanceLockAssumption ==
  /\ Home \in [Workers -> Instances]
  /\ Nobody \notin Instances
  /\ Ttl \in Nat /\ MinStaleAge \in Nat

VARIABLES
  entry,    \* the cache: the lock value and the time its TTL ends
  clock,    \* Date.now()
  leases,   \* number of lease ids generated so far
  pc,       \* where each worker is
  seen,     \* the lock value each worker read last
  value,    \* the lock value each worker is about to write
  timer,    \* taskLockRenewalTimers: instance -> lease being renewed, 0 if none
  renewal,  \* the renewal in flight on each instance: its lease, what it read
  granted,  \* history: the value each instance stored last and nobody removed
  used      \* history: the lease ids the cache has ever held

vars == <<entry, clock, leases, pc, seen, value, timer, renewal, granted, used>>

-----------------------------------------------------------------------------
NoLock == [owner |-> Nobody, acquiredAt |-> 0, lease |-> 0]

LockValue == [owner : Instances \cup {Nobody}, acquiredAt : Nat, lease : Nat]

\* What a read of the cache returns now
Current == IF clock < entry.expires THEN entry.lock ELSE NoLock

Stored(lock) == [lock |-> lock, expires |-> clock + Ttl]

Removed == [lock |-> NoLock, expires |-> 0]

NoRenewal == [lease |-> 0, read |-> NoLock]

\* _createLockValue: the lease id of a previous value of this instance is
\* reused, otherwise a new one is generated.
CreateLockValue(i, previous) ==
  [owner |-> i, acquiredAt |-> clock,
   lease |-> IF previous.owner = i THEN previous.lease ELSE leases + 1]

LeasesAfter(i, previous) == IF previous.owner = i THEN leases ELSE leases + 1

Store(i, lock) ==
  /\ entry' = Stored(lock)
  /\ granted' = [granted EXCEPT ![i] = lock]
  /\ used' = used \cup {lock.lease}

\* Mutants of Unchanged: an unconditional write, a comparison of the owners, and
\* one of the lease ids.
UnchangedIsIgnored(read) == TRUE

SameOwner(read) == Current.owner = read.owner

SameLease(read) == Current.lease = read.lease

\* The stored value is still the one that was read: compareAndSet ifEquals /
\* ifNotExists and deleteIfEquals, decided by the cache in one step.
Unchanged(read) == Current = read

Init ==
  /\ entry = Removed
  /\ clock = 0
  /\ leases = 0
  /\ pc = [w \in Workers |-> "idle"]
  /\ seen = [w \in Workers |-> NoLock]
  /\ value = [w \in Workers |-> NoLock]
  /\ timer = [i \in Instances |-> 0]
  /\ renewal = [i \in Instances |-> NoRenewal]
  /\ granted = [i \in Instances |-> NoLock]
  /\ used = {}

Tick ==
  /\ clock < MaxClock
  /\ clock' = clock + 1
  /\ UNCHANGED <<entry, leases, pc, seen, value, timer, renewal, granted, used>>

Goto(w, label) == pc' = [pc EXCEPT ![w] = label]

\* The worker's locals are dead: its call returned.
Leave(w, label) ==
  /\ Goto(w, label)
  /\ seen' = [seen EXCEPT ![w] = NoLock]
  /\ value' = [value EXCEPT ![w] = NoLock]

\* _tryAcquire, first half: read the lock and decide.  An unexpired lock of
\* another instance refuses; no lock, an expired one and one of this very
\* instance (whichever worker took it) go on to the compare-and-set.
TryAcquireRead(w) ==
  LET i == Home[w]
      heldByOther == /\ Current.owner \notin {Nobody, i}
                     /\ clock - Current.acquiredAt < Ttl
  IN
  /\ pc[w] = "idle"
  /\ ~heldByOther
  /\ LeasesAfter(i, Current) <= MaxLeases
  /\ seen' = [seen EXCEPT ![w] = Current]
  /\ value' = [value EXCEPT ![w] = CreateLockValue(i, Current)]
  /\ leases' = LeasesAfter(i, Current)
  /\ Goto(w, "set")
  /\ UNCHANGED <<entry, clock, timer, renewal, granted, used>>

\* _tryAcquire, second half: _setLockIfNotExists / _setLockIfEquals.  When the
\* answer is lost the cache has the value and the caller is told false.
TryAcquireSet(w) ==
  /\ pc[w] = "set"
  /\ Unchanged(seen[w])
  /\ Store(Home[w], value[w])
  /\ Leave(w, "acquired") \/ Leave(w, "idle")
  /\ UNCHANGED <<clock, leases, timer, renewal>>

\* The compare-and-set finds another value, or throws without effect.
TryAcquireFails(w) ==
  /\ pc[w] = "set"
  /\ Leave(w, "idle")
  /\ UNCHANGED <<entry, clock, leases, timer, renewal, granted, used>>

\* acquireTaskLock after acquireLock: read the lease and start its renewal,
\* which replaces the timer another worker of this instance may have started.
StartTaskLockRenewal(w) ==
  LET i == Home[w] IN
  /\ pc[w] = "acquired"
  /\ Current.owner = i
  /\ timer' = [timer EXCEPT ![i] = Current.lease]
  /\ Goto(w, "working")
  /\ UNCHANGED <<entry, clock, leases, seen, value, renewal, granted, used>>

\* The lease cannot be read or is gone: acquireTaskLock gives the lock back.
AcquireGivesUp(w) ==
  /\ pc[w] = "acquired"
  /\ Goto(w, "release")
  /\ UNCHANGED <<entry, clock, leases, seen, value, timer, renewal, granted, used>>

\* releaseTaskLock: stop the timer of the task, then releaseLock.
ReleaseTaskLock(w) ==
  /\ pc[w] = "working"
  /\ timer' = [timer EXCEPT ![Home[w]] = 0]
  /\ Goto(w, "release")
  /\ UNCHANGED <<entry, clock, leases, seen, value, renewal, granted, used>>

\* releaseLock reads the lock, and leaves it alone unless this instance has it.
ReleaseLockRead(w) ==
  /\ pc[w] = "release"
  /\ IF Current.owner = Home[w]
     THEN Goto(w, "delete") /\ seen' = [seen EXCEPT ![w] = Current]
     ELSE Goto(w, "idle") /\ UNCHANGED seen
  /\ UNCHANGED <<entry, clock, leases, value, timer, renewal, granted, used>>

\* releaseStaleTaskLock reads the lock of whatever owner and measures its age.
ReleaseStaleRead(w) ==
  /\ pc[w] = "idle"
  /\ Current # NoLock
  /\ clock - Current.acquiredAt >= MinStaleAge
  /\ seen' = [seen EXCEPT ![w] = Current]
  /\ Goto(w, "delete")
  /\ UNCHANGED <<entry, clock, leases, value, timer, renewal, granted, used>>

\* deleteIfEquals with the value that was read, for both of them
DeleteIfEquals(w) ==
  /\ pc[w] = "delete"
  /\ IF Unchanged(seen[w])
     THEN /\ entry' = Removed
          /\ granted' = [granted EXCEPT ![seen[w].owner] = NoLock]
     ELSE UNCHANGED <<entry, granted>>
  /\ Leave(w, "idle")
  /\ UNCHANGED <<clock, leases, timer, renewal, used>>

\* The interval of _startTaskLockRenewal fires.  clearInterval does not stop a
\* renewal in flight: from here on it no longer depends on its own timer.
RenewStart(i) ==
  /\ timer[i] # 0
  /\ renewal[i] = NoRenewal
  /\ renewal' = [renewal EXCEPT ![i].lease = timer[i]]
  /\ UNCHANGED <<entry, clock, leases, pc, seen, value, timer, granted, used>>

\* renewLock reads the lock.  When it is gone or under another lease, the
\* timer of the task is stopped, even one that another job started since.
RenewRead(i) ==
  /\ renewal[i].lease # 0
  /\ renewal[i].read = NoLock
  /\ IF Current.owner = i /\ Current.lease = renewal[i].lease
     THEN renewal' = [renewal EXCEPT ![i].read = Current] /\ UNCHANGED timer
     ELSE renewal' = [renewal EXCEPT ![i] = NoRenewal] /\ timer' = [timer EXCEPT ![i] = 0]
  /\ UNCHANGED <<entry, clock, leases, pc, seen, value, granted, used>>

\* ... and compares-and-sets it with a new acquiredAt and a fresh TTL.
RenewSet(i) ==
  /\ renewal[i].read # NoLock
  /\ Unchanged(renewal[i].read)
  /\ Store(i, CreateLockValue(i, renewal[i].read))
  /\ renewal' = [renewal EXCEPT ![i] = NoRenewal]
  /\ UNCHANGED <<clock, leases, pc, seen, value, timer>>

\* transient_cas_miss and transient_error.  Three in a row stop the timer; the
\* counter is abstracted, any failure may be the third one.
RenewFails(i) ==
  /\ renewal[i].lease # 0
  /\ renewal' = [renewal EXCEPT ![i] = NoRenewal]
  /\ timer' = [timer EXCEPT ![i] = 0] \/ UNCHANGED timer
  /\ UNCHANGED <<entry, clock, leases, pc, seen, value, granted, used>>

\* The process dies; the cache keeps its lock until the TTL ends.
Crash(i) ==
  LET mine == {w \in Workers : Home[w] = i} IN
  /\ \E w \in mine : pc[w] # "idle"
  /\ pc' = [w \in Workers |-> IF w \in mine THEN "idle" ELSE pc[w]]
  /\ seen' = [w \in Workers |-> IF w \in mine THEN NoLock ELSE seen[w]]
  /\ value' = [w \in Workers |-> IF w \in mine THEN NoLock ELSE value[w]]
  /\ timer' = [timer EXCEPT ![i] = 0]
  /\ renewal' = [renewal EXCEPT ![i] = NoRenewal]
  /\ UNCHANGED <<entry, clock, leases, granted, used>>

Next ==
  \/ Tick
  \/ \E w \in Workers :
       \/ TryAcquireRead(w)
       \/ TryAcquireSet(w)
       \/ TryAcquireFails(w)
       \/ StartTaskLockRenewal(w)
       \/ AcquireGivesUp(w)
       \/ ReleaseTaskLock(w)
       \/ ReleaseLockRead(w)
       \/ ReleaseStaleRead(w)
       \/ DeleteIfEquals(w)
  \/ \E i \in Instances :
       RenewStart(i) \/ RenewRead(i) \/ RenewSet(i) \/ RenewFails(i) \/ Crash(i)

Spec == Init /\ [][Next]_vars

-----------------------------------------------------------------------------
(* Properties *)

TypeOK ==
  /\ entry \in [lock : LockValue, expires : Nat]
  /\ clock \in Nat
  /\ leases \in Nat
  /\ pc \in [Workers -> {"idle", "set", "acquired", "working", "release", "delete"}]
  /\ seen \in [Workers -> LockValue]
  /\ value \in [Workers -> LockValue]
  /\ timer \in [Instances -> Nat]
  /\ renewal \in [Instances -> [lease : Nat, read : LockValue]]
  /\ granted \in [Instances -> LockValue]
  /\ used \in SUBSET Nat

\* The promise of the lease: from the moment an instance stored its value until
\* acquiredAt + ttl, unless somebody removes it through releaseLock or
\* releaseStaleTaskLock, the cache holds that very value, so that no two
\* instances are inside their leases at once.
LeaseHonoured ==
  \A i \in Instances :
    (granted[i] # NoLock /\ clock < granted[i].acquiredAt + Ttl) => Current = granted[i]

\* The lease id is a fencing token (it becomes claim_lease_id in D1): once it is
\* off the lock, released, expired or replaced, no late compare-and-set of its
\* former holder, neither an acquire nor a renewal in flight, brings it back.
LeaseNeverReturns ==
  [][(entry' # entry /\ entry'.lock # NoLock /\ entry'.lock.lease \in used)
       => entry'.lock.lease = Current.lease]_vars

\* Stale recovery races with a renewal: a lock whose holder stored it less than
\* MinStaleAge ago is only ever removed by its own instance.
FreshLockNotForced ==
  [][\A w \in Workers :
       (/\ pc[w] = "delete" /\ pc'[w] = "idle" /\ Current # NoLock
        /\ Home[w] # Current.owner /\ clock - Current.acquiredAt < MinStaleAge)
         => entry' = entry]_vars

\* The variables have their types, and a lease that runs is on the lock.
LeaseSafe == TypeOK /\ LeaseHonoured

\* No late write brings a lease back, no recovery takes away a fresh one.
LeaseSteps == LeaseNeverReturns /\ FreshLockNotForced

=============================================================================
