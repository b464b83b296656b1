---------------------------- MODULE QueuePublish ----------------------------
(***************************************************************************)
(* Publishing to QStash: QstashQueue._publishWithIdempotency with the sets *)
(* of messages that were published before (of the process, and in Redis),  *)
(* the publishes in flight that callers of the same process share, and the *)
(* dead letter queue with its copy in the cache and its manual retry.      *)
(* A key stands for a message id: the topic, task and queue attempt.       *)
(***************************************************************************)
EXTENDS Integers, Sequences, FiniteSets

CONSTANTS
  Queues,      \* QstashQueue objects: one per process
  Callers,     \* calls that can overlap
  Keys,        \* idempotency keys
  None,        \* no caller
  UseRedis,    \* QUEUE_USE_IDEMPOTENCY and a redisClient
  RawClient,   \* that is the provider's own client, not a wrapper around the cache
  LocalLimit,  \* processedMessagesLimit
  MaxDlq,      \* maxDeadLetterQueueSize
  MaxFaults    \* bound on failures of QStash, Redis, the cache and processes

ASSUME QueuePublishAssumption ==
  /\ IsFiniteSet(Callers) /\ None \notin Callers
  /\ LocalLimit \in Nat \ {0} /\ MaxDlq \in Nat /\ MaxFaults \in Nat

VARIABLES
  processed,  \* processedMessages of each queue, oldest first
  inFlight,   \* inFlightPublishes of each queue: the caller that publishes a key
  redis,      \* the keys that have a value in Redis
  accepted,   \* the keys QStash has ever taken a message for
  dlq,        \* deadLetterQueue of each queue, oldest first
  stored,     \* the entries that have a copy in the cache
  pub,        \* the calls in progress
  lastId,     \* the id of the last dead letter
  faults      \* how many faults are still to come at most

queueVars == <<processed, inFlight, redis, accepted, dlq, stored, pub, lastId, faults>>

Seen(q) == {processed[q][i] : i \in DOMAIN processed[q]}

NoPublish == [at |-> "idle", queue |-> None, key |-> None, entry |-> 0, index |-> 0,
           result |-> "none"]

\* The result of the last call stays readable.
Returned(result) == [NoPublish EXCEPT !.result = result]

QueueInit ==
  /\ processed = [q \in Queues |-> <<>>]
  /\ inFlight = [q \in Queues |-> [k \in Keys |-> None]]
  /\ redis = {}
  /\ accepted = {}
  /\ dlq = [q \in Queues |-> <<>>]
  /\ stored = {}
  /\ pub = [c \in Callers |-> NoPublish]
  /\ lastId = 0
  /\ faults = MaxFaults

Fault == faults > 0 /\ faults' = faults - 1

NoFault == UNCHANGED faults

\* The array without its i-th element, or as it is when it has none (splice)
Without(s, i) == IF i \in 1..Len(s) THEN SubSeq(s, 1, i - 1) \o SubSeq(s, i + 1, Len(s)) ELSE s

\* _addProcessedMessage: a Set in the order of insertion
Remember(q, k) ==
  processed' = [processed EXCEPT ![q] =
    IF k \in Seen(q) THEN @
    ELSE IF Len(@) = LocalLimit THEN Append(Tail(@), k) ELSE Append(@, k)]

Goto(c, at) == pub' = [pub EXCEPT ![c].at = at]

\* Where a call goes when its message is out, or was out before: a retry of a
\* dead letter still has to remove it.
Settled(e, result) ==
  IF e.entry # 0 /\ result # "failed" THEN [e EXCEPT !.at = "removing", !.result = result]
  ELSE Returned(result)

\* Mutant of Settle: a failure does not reach the callers that share the promise.
SettleFailsAlone(c, result) ==
  LET e == pub[c] IN
  /\ pub' = [d \in Callers |->
       IF \/ d = c
          \/ (/\ pub[d].at = "joined" /\ result # "failed"
              /\ pub[d].queue = e.queue /\ pub[d].key = e.key)
       THEN Settled(pub[d], result) ELSE pub[d]]
  /\ inFlight' = [inFlight EXCEPT ![e.queue][e.key] = None]

\* The promise of caller c settles: for c and for everyone who shares it.
Settle(c, result) ==
  LET e == pub[c] IN
  /\ pub' = [d \in Callers |->
       IF d = c \/ (pub[d].at = "joined" /\ pub[d].queue = e.queue /\ pub[d].key = e.key)
       THEN Settled(pub[d], result) ELSE pub[d]]
  /\ inFlight' = [inFlight EXCEPT ![e.queue][e.key] = None]

-----------------------------------------------------------------------------
(* _publishWithIdempotency *)

\* The local check.  entry and index: the dead letter that is being retried and
\* where it is in the array, 0 if only the cache has it.
BeginPublish(c, q, k, entry, index) ==
  LET e == [NoPublish EXCEPT !.queue = q, !.key = k, !.entry = entry, !.index = index] IN
  /\ pub[c].at = "idle"
  /\ pub' = [pub EXCEPT ![c] =
       IF k \in Seen(q) THEN Settled(e, "duplicate")
       ELSE [e EXCEPT !.at = IF UseRedis THEN "redis" ELSE "checked"]]
  /\ UNCHANGED <<processed, inFlight, redis, accepted, dlq, stored, lastId, faults>>

Publish(c, q, k) == BeginPublish(c, q, k, 0, 0)

\* retryDeadLetterMessage: findIndex, or a look into the cache
Retry(c, q) ==
  \/ \E i \in DOMAIN dlq[q] : BeginPublish(c, q, dlq[q][i].key, dlq[q][i].id, i)
  \/ \E m \in stored : (\A i \in DOMAIN dlq[q] : dlq[q][i] # m) /\ BeginPublish(c, q, m.key, m.id, 0)

RedisHit(c) ==
  LET e == pub[c] IN
  /\ e.at = "redis" /\ e.key \in redis
  /\ Remember(e.queue, e.key)
  /\ pub' = [pub EXCEPT ![c] = Settled(e, "duplicate")]
  /\ UNCHANGED <<inFlight, redis, accepted, dlq, stored, lastId, faults>>

\* No success record, or an error that is only logged
RedisMiss(c) ==
  LET e == pub[c] IN
  /\ e.at = "redis"
  /\ IF e.key \in redis THEN Fault ELSE NoFault
  /\ Goto(c, "checked")
  /\ UNCHANGED <<processed, inFlight, redis, accepted, dlq, stored, lastId>>

\* Somebody in this process is publishing the key: share the promise.
Join(c) ==
  LET e == pub[c] IN
  /\ e.at = "checked"
  /\ inFlight[e.queue][e.key] # None
  /\ Goto(c, "joined")
  /\ UNCHANGED <<processed, inFlight, redis, accepted, dlq, stored, lastId, faults>>

\* Mutant of Send: check and registration are two steps, the check is stale.
SendUnchecked(c) ==
  LET e == pub[c] IN
  /\ e.at = "checked"
  /\ inFlight' = [inFlight EXCEPT ![e.queue][e.key] = c]
  /\ Goto(c, "sending")
  /\ UNCHANGED <<processed, redis, accepted, dlq, stored, lastId, faults>>

\* From the check to the registration of the promise nothing is awaited.
Send(c) ==
  LET e == pub[c] IN
  /\ e.at = "checked"
  /\ inFlight[e.queue][e.key] = None
  /\ inFlight' = [inFlight EXCEPT ![e.queue][e.key] = c]
  /\ Goto(c, "sending")
  /\ UNCHANGED <<processed, redis, accepted, dlq, stored, lastId, faults>>

\* QStash takes the message (once per deduplicationId).
Accept(c) ==
  /\ pub[c].at = "sending"
  /\ accepted' = accepted \cup {pub[c].key}
  /\ Goto(c, "accepted")
  /\ UNCHANGED <<processed, inFlight, redis, dlq, stored, lastId, faults>>

\* Its answer comes in: _markIdempotencyProcessed
Answer(c) ==
  LET e == pub[c] IN
  /\ e.at = "accepted"
  /\ Remember(e.queue, e.key)
  /\ IF UseRedis THEN Goto(c, "marking") /\ UNCHANGED inFlight ELSE Settle(c, "ok")
  /\ UNCHANGED <<redis, accepted, dlq, stored, lastId, faults>>

\* _markRedisIdempotencyProcessed; an error is only logged.
Mark(c) ==
  /\ pub[c].at = "marking"
  /\ \/ redis' = redis \cup {pub[c].key} /\ NoFault
     \/ Fault /\ UNCHANGED redis
  /\ Settle(c, "ok")
  /\ UNCHANGED <<processed, accepted, dlq, stored, lastId>>

\* The breaker is open, QStash refuses, or its answer is lost three times.
SendFails(c) ==
  /\ pub[c].at \in {"sending", "accepted"}
  /\ Fault
  /\ Goto(c, "clearing")
  /\ UNCHANGED <<processed, inFlight, redis, accepted, dlq, stored, lastId>>

\* _clearIdempotencyKey: the del of the wrapper writes an empty string, with the
\* default TTL of the cache, and any value counts as a record.
Cleared(k) ==
  IF ~UseRedis THEN redis ELSE IF RawClient THEN redis \ {k} ELSE redis \cup {k}

\* _clearIdempotencyKey, and the entry in the dead letter queue (its id goes into
\* index, which a publish that has failed does not need any more)
Clear(c) ==
  LET e == pub[c] IN
  /\ e.at = "clearing"
  /\ \/ redis' = Cleared(e.key) /\ NoFault
     \/ UseRedis /\ Fault /\ UNCHANGED redis
  /\ lastId' = lastId + 1
  /\ dlq' = [dlq EXCEPT ![e.queue] = Append(@, [id |-> lastId + 1, key |-> e.key])]
  /\ pub' = [pub EXCEPT ![c].at = "persisting", ![c].index = lastId + 1]
  /\ UNCHANGED <<processed, inFlight, accepted, stored>>

\* cache.set keeps the entry or, when the provider fails or the cache has failed
\* over to memory, only says so: it does not throw.
Stores(m) ==
  \/ stored' = stored \cup {m} /\ NoFault
  \/ Fault /\ UNCHANGED stored

\* Mutant of Persist: the publish does not fail when its entry is kept.
PersistSwallows(c) ==
  LET e == pub[c] IN
  /\ e.at = "persisting"
  /\ Stores([id |-> e.index, key |-> e.key])
  /\ dlq' = [dlq EXCEPT ![e.queue] = IF Len(@) > MaxDlq THEN Tail(@) ELSE @]
  /\ Settle(c, "ok")
  /\ UNCHANGED <<processed, redis, accepted, lastId>>

\* _persistDeadLetterMessage; afterwards the queue is cut to its limit.
Persist(c) ==
  LET e == pub[c] IN
  /\ e.at = "persisting"
  /\ Stores([id |-> e.index, key |-> e.key])
  /\ dlq' = [dlq EXCEPT ![e.queue] = IF Len(@) > MaxDlq THEN Tail(@) ELSE @]
  /\ Settle(c, "failed")
  /\ UNCHANGED <<processed, redis, accepted, lastId>>

\* The rest of retryDeadLetterMessage: splice(index, 1) ...
Remove(c) ==
  LET e == pub[c] IN
  /\ e.at = "removing"
  /\ dlq' = [dlq EXCEPT ![e.queue] = Without(@, e.index)]
  /\ Goto(c, "deleting")
  /\ UNCHANGED <<processed, inFlight, redis, accepted, stored, lastId, faults>>

\* ... and _deletePersistentDeadLetterMessage, whose errors are only logged.
Delete(c) ==
  LET e == pub[c] IN
  /\ e.at = "deleting"
  /\ \/ stored' = {m \in stored : m.id # e.entry} /\ NoFault
     \/ Fault /\ UNCHANGED stored
  /\ pub' = [pub EXCEPT ![c] = Returned(e.result)]
  /\ UNCHANGED <<processed, inFlight, redis, accepted, dlq, lastId>>

-----------------------------------------------------------------------------
(* Environment *)

\* A process dies: its calls and its memory are gone.
QueueCrash(q) ==
  /\ Fault
  /\ pub' = [c \in Callers |-> IF pub[c].queue = q THEN NoPublish ELSE pub[c]]
  /\ processed' = [processed EXCEPT ![q] = <<>>]
  /\ inFlight' = [inFlight EXCEPT ![q] = [k \in Keys |-> None]]
  /\ dlq' = [dlq EXCEPT ![q] = <<>>]
  /\ UNCHANGED <<redis, accepted, stored, lastId>>

\* QUEUE_IDEMPOTENCY_TTL is over.
RecordExpires(k) ==
  /\ k \in redis
  /\ redis' = redis \ {k}
  /\ UNCHANGED <<processed, inFlight, accepted, dlq, stored, pub, lastId, faults>>

Proceed(c) ==
  \/ RedisHit(c) \/ RedisMiss(c) \/ Join(c) \/ Send(c) \/ Accept(c) \/ Answer(c) \/ Mark(c)
  \/ Clear(c) \/ Persist(c) \/ Remove(c) \/ Delete(c)

QueueNext ==
  \/ \E c \in Callers :
       \/ \E q \in Queues : (\E k \in Keys : Publish(c, q, k)) \/ Retry(c, q)
       \/ Proceed(c)
       \/ SendFails(c)
  \/ \E q \in Queues : QueueCrash(q)
  \/ \E k \in Keys : RecordExpires(k)

QueueSpec == QueueInit /\ [][QueueNext]_queueVars

\* A call that can run on does; the HTTP client and the cache answer.
QueueFairness == \A c \in Callers : WF_queueVars(Proceed(c))

FairQueueSpec == QueueSpec /\ QueueFairness

-----------------------------------------------------------------------------
(* Properties *)

CallType ==
  [at : {"idle", "redis", "checked", "joined", "sending", "accepted", "marking", "clearing",
         "persisting", "removing", "deleting"},
   queue : Queues \cup {None}, key : Keys \cup {None}, entry : Nat, index : Nat,
   result : {"none", "ok", "duplicate", "failed"}]

Letter == [id : Nat \ {0}, key : Keys]

QueueTypeOK ==
  /\ processed \in [Queues -> Seq(Keys)]
  /\ inFlight \in [Queues -> [Keys -> Callers \cup {None}]]
  /\ redis \subseteq Keys
  /\ accepted \subseteq Keys
  /\ dlq \in [Queues -> Seq(Letter)]
  /\ stored \subseteq Letter
  /\ pub \in [Callers -> CallType]
  /\ lastId \in Nat
  /\ faults \in 0..MaxFaults

\* "Marked as processed only after a successful publish, so that a failure does
\* not make a later retry look like a duplicate" (_publishWithIdempotency): with
\* any overlap of calls, processes, lost answers and crashes, a key that will be
\* answered as a duplicate is one whose message QStash has.
MarkedIsAccepted == (UNION {Seen(q) : q \in Queues}) \cup redis \subseteq accepted

\* A caller that is told "published" or "duplicate" (also through the promise of
\* another caller, or by a retry) can rely on it: requireDurableAck.
AckIsDurable ==
  [][\A c \in Callers :
       (pub[c].at # "idle" /\ pub'[c].at = "idle" /\ pub'[c].result \in {"ok", "duplicate"})
         => pub[c].key \in accepted]_queueVars

\* "Merges the concurrent publishes of one message" (inFlightPublishes): never
\* two requests for one key at once from one process.
OneRequestPerKey ==
  \A c, d \in Callers :
    (/\ c # d
     /\ {pub[c].at, pub[d].at} \subseteq {"sending", "accepted", "marking", "clearing", "persisting"})
      => pub[c].queue # pub[d].queue \/ pub[c].key # pub[d].key

\* The copy of a dead letter in the cache goes only when its message is out.
DeadLetterKept == [][\A m \in stored : m \in stored' \/ m.key \in accepted]_queueVars

\* Nobody waits for ever, whether for QStash or for the promise of another call.
CallReturns == \A c \in Callers : pub[c].at # "idle" ~> pub[c].at = "idle"

\* QSTASH_DLQ_SIZE is the "limit of the dead letter queue"
\* (docs/QUEUE_IDEMPOTENCY_GUIDE.md), however many publishes fail at once: only
\* the entries that are just being stored come on top of it.
DlqWithinLimit ==
  \A q \in Queues :
    Len(dlq[q]) <= MaxDlq + Cardinality({c \in Callers : pub[c].at = "persisting" /\ pub[c].queue = q})

\* What the sets of published messages and the dead letter queue hold, whatever overlaps.
QueueSafe == QueueTypeOK /\ MarkedIsAccepted /\ OneRequestPerKey /\ DlqWithinLimit

\* What no answer and no deletion may do.
QueueSteps == AckIsDurable /\ DeadLetterKept

=============================================================================
