-------------------------- MODULE DistributedLock --------------------------
(***************************************************************************)
(* One key of DistributedLock (src/services/DistributedLock.js): a cache   *)
(* entry with a TTL that a job of an instance takes by compare-and-set,    *)
(* keeps alive with an interval timer, and gives back by a read and a      *)
(* compare-and-delete.  Compare-and-set goes to the shared cache; a read   *)
(* (cache.get) is answered from the instance's own first-level copy while  *)
(* there is one (src/services/CacheService.js).                            *)
(*                                                                         *)
(* A job is one call of acquire and what follows it.  The random version   *)
(* of the code is unique for each call, so the job itself stands for it.   *)
(***************************************************************************)
EXTENDS Integers, FiniteSets

CONSTANTS
  Instances,   \* instance ids
  Jobs,        \* calls of acquire
  None,        \* not a job
  MaxBeats,    \* bound on the renewals of one version (model checking only)
  MaxLapses    \* bound on the lock values that expire (model checking only)

ASSUME LockAssumption == None \notin Jobs /\ MaxBeats \in Nat

VARIABLES
  lock,     \* the shared entry: version and heartbeatCount
  lockL1,   \* first-level copy of each instance
  lapsed,   \* lock values whose expiresAt is over
  pc,       \* where each job is
  inst,     \* the instance a job runs on
  seen,     \* the lock value a job read last
  local,    \* this.locks of each instance: version whose timer can be cleared
  beating,  \* versions whose interval timer runs
  pulse,    \* what a timer callback in flight has read
  cleaner   \* what cleanupExpiredLocks of an instance is about to delete

lockVars == <<lock, lockL1, lapsed, pc, inst, seen, local, beating, pulse, cleaner>>

-----------------------------------------------------------------------------
Free == [job |-> None, beats |-> 0]

LockValue == [job : Jobs \cup {None}, beats : 0..MaxBeats]

LockTypeOK ==
  /\ lock \in LockValue
  /\ lockL1 \in [Instances -> LockValue]
  /\ lapsed \subseteq LockValue
  /\ pc \in [Jobs -> {"idle", "acquire", "contended", "steal", "held",
                      "release", "delete", "done"}]
  /\ inst \in [Jobs -> Instances]
  /\ seen \in [Jobs -> LockValue]
  /\ local \in [Instances -> Jobs \cup {None}]
  /\ beating \subseteq Jobs
  /\ pulse \in [Jobs -> LockValue]
  /\ cleaner \in [Instances -> LockValue]

LockInit ==
  /\ lock = Free
  /\ lockL1 = [i \in Instances |-> Free]
  /\ lapsed = {}
  /\ pc = [j \in Jobs |-> "idle"]
  /\ inst \in [Jobs -> Instances]
  /\ seen = [j \in Jobs |-> Free]
  /\ local = [i \in Instances |-> None]
  /\ beating = {}
  /\ pulse = [j \in Jobs |-> Free]
  /\ cleaner = [i \in Instances |-> Free]

\* isExpired
Expired(value) == value \in lapsed

\* cache.get: the copy of the instance unless it has ended, else the shared entry,
ReadsLock(i) == {lock, lockL1[i]} \ (IF lock = Free THEN {} ELSE {Free})

\* which then becomes the copy; a missing entry is not copied.
Copied(i, value) == lockL1' = [lockL1 EXCEPT ![i] = value]

Uncopied(i) == lockL1' = [lockL1 EXCEPT ![i] = Free]

Goto(j, label) == pc' = [pc EXCEPT ![j] = label]

\* The job leaves the lock's code with its locals dead.
Leave(j, label) == Goto(j, label) /\ seen' = [seen EXCEPT ![j] = Free]

\* cleanupLocalLock: whatever timer the instance has on record
TimersAfterCleanup(i) == beating \ {local[i]}

-----------------------------------------------------------------------------
Start(j) ==
  /\ pc[j] = "idle"
  /\ Goto(j, "acquire")
  /\ UNCHANGED <<lock, lockL1, lapsed, inst, seen, local, beating, pulse, cleaner>>

\* A stored version: success of acquire, and startHeartbeat.
Take(j) ==
  /\ lock' = [job |-> j, beats |-> 0]
  /\ Uncopied(inst[j])
  /\ local' = [local EXCEPT ![inst[j]] = j]
  /\ beating' = beating \cup {j}
  /\ Leave(j, "held")
  /\ UNCHANGED <<lapsed, inst, pulse, cleaner>>

\* compareAndSet ifNotExists
TryAcquire(j) ==
  /\ pc[j] = "acquire"
  /\ IF lock = Free
     THEN Take(j)
     ELSE /\ Goto(j, "contended")
          /\ UNCHANGED <<lock, lockL1, lapsed, inst, seen, local, beating, pulse,
                         cleaner>>

\* The lock is taken: look whether it is expired.  Otherwise wait and try
\* again, or give up after maxRetries (how many there are is left open).
Contend(j) ==
  /\ pc[j] = "contended"
  /\ \E existing \in ReadsLock(inst[j]) :
       /\ Copied(inst[j], existing)
       /\ IF existing # Free /\ Expired(existing)
          THEN Goto(j, "steal") /\ seen' = [seen EXCEPT ![j] = existing]
          ELSE \E next \in {"acquire", "done"} : Leave(j, next)
  /\ UNCHANGED <<lock, lapsed, inst, local, beating, pulse, cleaner>>

\* Mutant of Unchanged: the entry is overwritten whatever it holds.
UnchangedIsIgnored(value) == lock # Free

\* compareAndSet ifEquals, deleteIfEquals: decided by the shared cache
Unchanged(value) == lock = value

\* attemptLockSteal; a lost race is tried again or given up
Steal(j) ==
  /\ pc[j] = "steal"
  /\ IF Unchanged(seen[j])
     THEN Take(j)
     ELSE /\ \E next \in {"acquire", "done"} : Leave(j, next)
          /\ UNCHANGED <<lock, lockL1, lapsed, inst, local, beating, pulse, cleaner>>

\* A cache error in any attempt: retried or given up.
AcquireFails(j) ==
  /\ pc[j] \in {"acquire", "contended", "steal"}
  /\ Leave(j, "done")
  /\ UNCHANGED <<lock, lockL1, lapsed, inst, local, beating, pulse, cleaner>>

\* clearInterval(heartbeat) and this.locks.delete(taskId), whichever version
\* is on record there by now
HeartbeatStops(j) ==
  /\ beating' = beating \ {j}
  /\ local' = [local EXCEPT ![inst[j]] = None]

\* The interval fires: read, then renew by compare-and-set.
HeartbeatRead(j) ==
  /\ j \in beating /\ pulse[j] = Free
  /\ \E current \in ReadsLock(inst[j]) :
       /\ Copied(inst[j], current)
       /\ IF current.job = j
          THEN /\ pulse' = [pulse EXCEPT ![j] = current]
               /\ UNCHANGED <<beating, local>>
          ELSE HeartbeatStops(j) /\ UNCHANGED pulse
  /\ UNCHANGED <<lock, lapsed, pc, inst, seen, cleaner>>

\* The callback runs on although its interval may have been cleared meanwhile.
HeartbeatSet(j) ==
  /\ pulse[j] # Free
  /\ pulse' = [pulse EXCEPT ![j] = Free]
  /\ IF Unchanged(pulse[j])
     THEN /\ pulse[j].beats < MaxBeats
          /\ lock' = [pulse[j] EXCEPT !.beats = @ + 1]
          /\ Uncopied(inst[j])
          /\ UNCHANGED <<beating, local>>
     ELSE /\ HeartbeatStops(j)
          /\ UNCHANGED <<lock, lockL1>>
  /\ UNCHANGED <<lapsed, pc, inst, seen, cleaner>>

\* The value is not near its end, or the cache fails: the interval goes on.
HeartbeatFails(j) ==
  /\ pulse[j] # Free
  /\ pulse' = [pulse EXCEPT ![j] = Free]
  /\ UNCHANGED <<lock, lockL1, lapsed, pc, inst, seen, local, beating, cleaner>>

\* release compares the instance, not the version
OwnedBy(value, j) == value.job # None /\ inst[value.job] = inst[j]

ReleaseRead(j) ==
  /\ pc[j] = "release"
  /\ beating' = TimersAfterCleanup(inst[j])
  /\ local' = [local EXCEPT ![inst[j]] = None]
  /\ \E current \in ReadsLock(inst[j]) :
       /\ Copied(inst[j], current)
       /\ IF OwnedBy(current, j)
          THEN Goto(j, "delete") /\ seen' = [seen EXCEPT ![j] = current]
          ELSE Leave(j, "done")
  /\ UNCHANGED <<lock, lapsed, inst, pulse, cleaner>>

ReleaseDelete(j) ==
  /\ pc[j] = "delete"
  /\ Leave(j, "done")
  /\ Uncopied(inst[j])
  /\ lock' = IF Unchanged(seen[j]) THEN Free ELSE lock
  /\ UNCHANGED <<lapsed, inst, local, beating, pulse, cleaner>>

\* An error of the cache on the way: the lock stays until its TTL ends.
ReleaseFails(j) ==
  /\ pc[j] \in {"release", "delete"}
  /\ Leave(j, "done")
  /\ beating' = TimersAfterCleanup(inst[j])
  /\ local' = [local EXCEPT ![inst[j]] = None]
  /\ UNCHANGED <<lock, lockL1, lapsed, inst, pulse, cleaner>>

\* cleanupExpiredLocks, every minute
CleanerRead(i) ==
  /\ cleaner[i] = Free
  /\ \E value \in ReadsLock(i) :
       LET heartbeatHere == local[i] # None /\ inst[value.job] = i
       IN /\ Copied(i, value)
          /\ cleaner' = IF value # Free /\ Expired(value) /\ ~heartbeatHere
                        THEN [cleaner EXCEPT ![i] = value] ELSE cleaner
  /\ UNCHANGED <<lock, lapsed, pc, inst, seen, local, beating, pulse>>

\* cache.delete: unconditional
CleanerDelete(i) ==
  /\ cleaner[i] # Free
  /\ cleaner' = [cleaner EXCEPT ![i] = Free]
  /\ lock' = Free
  /\ Uncopied(i)
  /\ UNCHANGED <<lapsed, pc, inst, seen, local, beating, pulse>>

-----------------------------------------------------------------------------
\* The environment: time passes for the stored value ...
Lapse ==
  /\ lock # Free /\ lock \notin lapsed
  /\ Cardinality(lapsed) < MaxLapses \/ lock.job \notin beating
  /\ lapsed' = lapsed \cup {lock}
  /\ UNCHANGED <<lock, lockL1, pc, inst, seen, local, beating, pulse, cleaner>>

\* ... and the shared cache drops it.
Evict ==
  /\ lock \in lapsed
  /\ lock' = Free
  /\ UNCHANGED <<lockL1, lapsed, pc, inst, seen, local, beating, pulse, cleaner>>

LockStep ==
  \/ \E j \in Jobs :
       \/ TryAcquire(j) \/ Contend(j) \/ Steal(j) \/ AcquireFails(j)
       \/ HeartbeatRead(j) \/ HeartbeatSet(j) \/ HeartbeatFails(j)
       \/ ReleaseRead(j) \/ ReleaseDelete(j) \/ ReleaseFails(j)
  \/ \E i \in Instances : CleanerRead(i) \/ CleanerDelete(i)
  \/ Lapse \/ Evict

-----------------------------------------------------------------------------
\* The lock by itself: a job that holds it works for a while and gives it back.
Finish(j) ==
  /\ pc[j] = "held"
  /\ Goto(j, "release")
  /\ UNCHANGED <<lock, lockL1, lapsed, inst, seen, local, beating, pulse, cleaner>>

LockNext == (\E j \in Jobs : Start(j) \/ Finish(j)) \/ LockStep

LockSpec == LockInit /\ [][LockNext]_lockVars

\* A version that has not expired leaves the cache only by a release on its own
\* instance or by a clean-up that saw an expired one: no attempt to take the lock
\* and no late renewal of a former holder removes it.
LiveLockHonoured ==
  [][ LET taken   == lock # Free /\ ~Expired(lock) /\ lock'.job # lock.job
          release == \E j \in Jobs : pc[j] = "delete" /\ pc'[j] = "done"
                                     /\ inst[j] = inst[lock.job]
          cleanup == \E i \in Instances : cleaner[i] # Free /\ cleaner'[i] = Free
      IN taken => release \/ cleanup ]_lockVars

\* Who believes to hold the lock does hold it, as long as no value has expired:
\* two jobs are never at work at once, whatever is still in flight of an earlier
\* holder (its renewal, its release, a clean-up).
HolderIsStored == lapsed = {} => \A j \in Jobs : pc[j] = "held" => lock.job = j

\* A lock with a heartbeat has the holder that is stored, and only he lets go of it.
LockHolds == [](LockTypeOK /\ HolderIsStored) /\ LiveLockHonoured

=============================================================================
