----------------------------- MODULE MCRecords -----------------------------
(* Records in the shared cache and the processes that read and write them:   *)
(* one key of CacheService with two calls on two nodes, the queue of the     *)
(* batch processor with three batches, the two views that instances have of  *)
(* each other's data, and the lock with a heartbeat that two jobs take on    *)
(* one instance or on two.  A behaviour is of one of them.                   *)
EXTENDS CacheTiers, Batch, DistributedLock, SyncViews, TLC

CONSTANTS n1, n2, c1, c2

VARIABLE part

RecordsInit ==
  /\ part \in {"cache", "batch", "values", "states", "lock"}
  /\ CacheInit /\ BatchInit /\ SyncInit /\ LockInit
  /\ inst[CHOOSE j \in Jobs : TRUE] = CHOOSE i \in Instances : TRUE
  /\ part # "lock" => \A j, k \in Jobs : inst[j] = inst[k]

RecordsNext ==
  /\ UNCHANGED part
  /\ \/ part = "cache"  /\ CacheNext    /\ UNCHANGED <<batchVars, syncVars, lockVars>>
     \/ part = "batch"  /\ BatchNext    /\ UNCHANGED <<cacheVars, syncVars, lockVars>>
     \/ part = "values" /\ ValueNext /\ UNCHANGED <<cacheVars, batchVars, lockVars>>
     \/ part = "states" /\ StateNext /\ UNCHANGED <<cacheVars, batchVars, lockVars>>
     \/ part = "lock"   /\ LockNext     /\ UNCHANGED <<cacheVars, batchVars, syncVars>>

RecordsSpec == RecordsInit /\ [][RecordsNext]_<<part, cacheVars, batchVars, syncVars, lockVars>>

\* Calls and nodes are alike; of the lock's instances one is where the first job is.
Symmetry == Permutations({c1, c2}) \cup Permutations({n1, n2}) \cup Permutations(Writers)

=============================================================================
