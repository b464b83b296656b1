------------------------------- MODULE Batch -------------------------------
(***************************************************************************)
(* BatchProcessor of src/services/BatchProcessor.js: batches wait in the   *)
(* memory of the process, at most MaxActive of them are under way, and the *)
(* one that ends looks for the next.  The record of a batch is in the      *)
(* cache, whose writes may be lost and whose records may expire.           *)
(***************************************************************************)
EXTENDS Integers, Sequences, FiniteSets

CONSTANTS
  BatchIds,
  Urgent,        \* the batches of a higher priority
  Items,         \* 1..n: the items of every batch, cut at maxBatchSize
  Workers,       \* the workers of the pool of a batch
  MaxActive      \* maxConcurrentBatches

ASSUME BatchAssumption ==
  /\ IsFiniteSet(Items) /\ Items = 1..Cardinality(Items)
  /\ MaxActive \in Nat \ {0}

VARIABLES
  record,        \* what the cache holds of each batch: a status or "absent"
  queue,         \* batchQueue
  active,        \* activeBatches
  stage,         \* where the processing of each batch stands
  nextItem,      \* currentIndex of its pool of workers
  hands,         \* the item each worker of the batch has in hand, 0 if none
  handled,       \* how often the processor was done with each item
  wakes,         \* setTimeout calls of _processQueue that are pending
  dropped        \* history: batches that left activeBatches without a wake-up

batchVars == <<record, queue, active, stage, nextItem, hands, handled, wakes, dropped>>

-----------------------------------------------------------------------------
Statuses == {"absent", "pending", "processing", "completed", "failed"}

Steps == {"new", "created", "queued", "load", "lock", "read", "mark", "items", "save", "fail", "unlock", "ended"}

BatchTypeOK ==
  /\ record \in [BatchIds -> Statuses]
  /\ queue \in Seq(BatchIds) /\ active \subseteq BatchIds
  /\ stage \in [BatchIds -> Steps]
  /\ nextItem \in [BatchIds -> Nat]
  /\ hands \in [BatchIds -> [Workers -> Items \cup {0}]]
  /\ handled \in [BatchIds -> [Items -> Nat]]
  /\ wakes \in Nat /\ dropped \subseteq BatchIds

BatchInit ==
  /\ record = [b \in BatchIds |-> "absent"]
  /\ queue = <<>> /\ active = {} /\ stage = [b \in BatchIds |-> "new"]
  /\ nextItem = [b \in BatchIds |-> 1]
  /\ hands = [b \in BatchIds |-> [w \in Workers |-> 0]]
  /\ handled = [b \in BatchIds |-> [i \in Items |-> 0]]
  /\ wakes = 0 /\ dropped = {}

Go(b, step) == stage' = [stage EXCEPT ![b] = step]

\* The queue is sorted after each push: the urgent batches are its first ones, and a
\* batch comes behind those of its own priority, before those of a lower one.
UrgentOnes == CHOOSE p \in 0..Len(queue) :
                \A k \in DOMAIN queue : queue[k] \in Urgent <=> k <= p

Sorted(b) ==
  LET p == IF b \in Urgent THEN UrgentOnes ELSE Len(queue) IN
  [k \in 1..(Len(queue) + 1) |->
     IF k <= p THEN queue[k] ELSE IF k = p + 1 THEN b ELSE queue[k - 1]]

\* _processQueue over a queue
ProcessQueue(waiting, where) ==
  IF Cardinality(active) >= MaxActive \/ waiting = <<>>
  THEN queue' = waiting /\ stage' = where /\ UNCHANGED active
  ELSE /\ queue' = Tail(waiting)
       /\ active' = active \cup {Head(waiting)}
       /\ stage' = [where EXCEPT ![Head(waiting)] = "load"]

\* createBatch: the record is stored, the store may fail without a word ...
Create(b) ==
  /\ stage[b] = "new"
  /\ \E stored \in {"pending", "absent"} : record' = [record EXCEPT ![b] = stored]
  /\ Go(b, "created")
  /\ UNCHANGED <<queue, active, nextItem, hands, handled, wakes, dropped>>

\* ... and the batch queues up; _processQueue takes the first, if there is room.
Enqueue(b) ==
  /\ stage[b] = "created"
  /\ ProcessQueue(Sorted(b), [stage EXCEPT ![b] = "queued"])
  /\ UNCHANGED <<record, nextItem, hands, handled, wakes, dropped>>

\* Mutant of LeavesRoom: a batch that ends wakes nobody.
LeavesRoomAsleep == UNCHANGED wakes

\* A batch that was processed, or failed, or found its lock taken, wakes the queue.
LeavesRoom == wakes' = wakes + 1

Wake ==
  /\ wakes > 0
  /\ wakes' = wakes - 1
  /\ ProcessQueue(queue, stage)
  /\ UNCHANGED <<record, nextItem, hands, handled, dropped>>

\* _processBatchAsync: without a record (or a processor for its type) the batch is
\* dropped, and the queue is not looked at.
Load(b) ==
  /\ stage[b] = "load"
  /\ IF record[b] = "absent"
     THEN Go(b, "ended") /\ active' = active \ {b} /\ dropped' = dropped \cup {b}
     ELSE Go(b, "lock") /\ UNCHANGED <<active, dropped>>
  /\ UNCHANGED <<record, queue, nextItem, hands, handled, wakes>>

UnknownType(b) ==
  /\ stage[b] = "load" /\ record[b] # "absent"
  /\ Go(b, "ended") /\ active' = active \ {b} /\ dropped' = dropped \cup {b}
  /\ UNCHANGED <<record, queue, nextItem, hands, handled, wakes>>

\* processBatch
AcquireLock(b) ==
  /\ stage[b] = "lock"
  /\ Go(b, "read")
  /\ UNCHANGED <<record, queue, active, nextItem, hands, handled, wakes, dropped>>

LockTaken(b) ==
  /\ stage[b] = "lock"
  /\ Go(b, "ended") /\ active' = active \ {b}
  /\ LeavesRoom
  /\ UNCHANGED <<record, queue, nextItem, hands, handled, dropped>>

\* acquireLock throws before the try block: the caller's catch only clears the mark.
LockThrows(b) ==
  /\ stage[b] = "lock"
  /\ Go(b, "ended") /\ active' = active \ {b} /\ dropped' = dropped \cup {b}
  /\ UNCHANGED <<record, queue, nextItem, hands, handled, wakes>>

Reread(b) ==
  /\ stage[b] = "read"
  /\ Go(b, IF record[b] \in {"absent", "completed"} THEN "unlock" ELSE "mark")
  /\ UNCHANGED <<record, queue, active, nextItem, hands, handled, wakes, dropped>>

InProgress == "processing"

Mark(b) ==
  /\ stage[b] = "mark"
  /\ \E kept \in {InProgress, record[b]} : record' = [record EXCEPT ![b] = kept]
  /\ Go(b, "items")
  /\ UNCHANGED <<queue, active, nextItem, hands, handled, wakes, dropped>>

\* _processItemsInChunks: a worker takes the next item, and is done with it later.
TakeItem(b, w) ==
  /\ stage[b] = "items" /\ hands[b][w] = 0 /\ nextItem[b] \in Items
  /\ hands' = [hands EXCEPT ![b][w] = nextItem[b]]
  /\ nextItem' = [nextItem EXCEPT ![b] = @ + 1]
  /\ UNCHANGED <<record, queue, active, stage, handled, wakes, dropped>>

FinishItem(b, w) ==
  /\ stage[b] = "items" /\ hands[b][w] # 0
  /\ handled' = [handled EXCEPT ![b][hands[b][w]] = @ + 1]
  /\ hands' = [hands EXCEPT ![b][w] = 0]
  /\ UNCHANGED <<record, queue, active, stage, nextItem, wakes, dropped>>

\* All workers of the pool have returned.
PoolIsDone(b) == nextItem[b] \notin Items /\ \A w \in Workers : hands[b][w] = 0

AllItems(b) ==
  /\ stage[b] = "items" /\ PoolIsDone(b)
  /\ Go(b, "save")
  /\ UNCHANGED <<record, queue, active, nextItem, hands, handled, wakes, dropped>>

Save(b) ==
  /\ stage[b] = "save"
  /\ \E kept \in {"completed", record[b]} : record' = [record EXCEPT ![b] = kept]
  /\ Go(b, "unlock")
  /\ UNCHANGED <<queue, active, nextItem, hands, handled, wakes, dropped>>

\* A read or a write of the record throws: the batch is marked failed, if it is there.
Throws(b) ==
  /\ stage[b] \in {"read", "mark", "save"}
  /\ Go(b, "fail")
  /\ UNCHANGED <<record, queue, active, nextItem, hands, handled, wakes, dropped>>

MarkFailed(b) ==
  /\ stage[b] = "fail"
  /\ record' = [record EXCEPT ![b] = IF @ = "absent" THEN @ ELSE "failed"]
  /\ Go(b, "unlock")
  /\ UNCHANGED <<queue, active, nextItem, hands, handled, wakes, dropped>>

Unlock(b) ==
  /\ stage[b] = "unlock"
  /\ Go(b, "ended") /\ active' = active \ {b}
  /\ LeavesRoom
  /\ UNCHANGED <<record, queue, nextItem, hands, handled, dropped>>

\* The record's hour is over.
RecordExpires(b) ==
  /\ record[b] # "absent"
  /\ record' = [record EXCEPT ![b] = "absent"]
  /\ UNCHANGED <<queue, active, stage, nextItem, hands, handled, wakes, dropped>>

BatchNext ==
  \/ \E b \in BatchIds :
       \/ Create(b) \/ Enqueue(b) \/ Load(b) \/ UnknownType(b) \/ AcquireLock(b)
       \/ LockTaken(b) \/ LockThrows(b) \/ Reread(b) \/ Mark(b)
       \/ \E w \in Workers : TakeItem(b, w) \/ FinishItem(b, w)
       \/ AllItems(b) \/ Save(b) \/ Throws(b) \/ MarkFailed(b) \/ Unlock(b)
       \/ RecordExpires(b)
  \/ Wake

BatchSpec == BatchInit /\ [][BatchNext]_batchVars

-----------------------------------------------------------------------------
\* The queue never stalls, with batches waiting and nothing that will look at them,
\* unless a batch was dropped: its record was gone, its type unknown, or the lock
\* service threw.  (Then it waits for the next createBatch.)
StallNeedsDrop ==
  (queue # <<>> /\ active = {} /\ wakes = 0) => dropped # {}

\* A batch that is completed has had every item processed exactly once, whatever the
\* workers of its pool do in which order.
CompletedOnce ==
  \A b \in BatchIds :
    record[b] = "completed" => \A i \in Items : handled[b][i] = 1

\* A completed batch had every item processed once, and the queue goes on.
BatchSafe == BatchTypeOK /\ StallNeedsDrop /\ CompletedOnce

=============================================================================
