----------------------------- MODULE MediaGroup -----------------------------
(***************************************************************************)
(* One media group of MediaGroupBuffer (src/services/MediaGroupBuffer.js): *)
(* messages that belong together are collected in a buffer in the shared   *)
(* cache and put in the queue as one batch by a flush that holds the       *)
(* group's DistributedLock.  A flush is started by a timer of the process, *)
(* a delayed queue event, the clean-up of stale buffers, a retry, a full   *)
(* buffer or a restart.                                                    *)
(*                                                                         *)
(* Reads of the cache (cache.get) are answered from the instance's own     *)
(* first-level copy while it has one; cache.set writes that copy too, and  *)
(* compareAndSet and delete drop it, but only when they succeed.           *)
(*                                                                         *)
(* The lock is taken as what DistributedLock.tla shows it to be: one job   *)
(* holds it, it may expire under that job, and a release takes it from any *)
(* job of the same instance.                                               *)
(***************************************************************************)
EXTENDS Integers, FiniteSets, TLAPS

CONSTANTS
  Instances,    \* instance ids
  Jobs,         \* flush attempts
  None,         \* not a job
  Messages,     \* message ids of the group
  Deliveries,   \* calls of add
  Carries,      \* Deliveries -> Messages
  Home,         \* Deliveries -> Instances
  MaxBatch,     \* maxBatchSize
  CasAttempts,  \* attempts of _addMessageToBuffer, 5 in the code
  MaxErrors,    \* failed flushes after which a group is given up, 3 in the code
  MaxEvents,    \* bound on the queue events in flight (model checking only)
  MaxIncidents  \* bound on expiries, restarts and empty fetches (model checking only)

ASSUME MediaGroupAssumption ==
  /\ None \notin Jobs
  /\ Carries \in [Deliveries -> Messages] /\ Home \in [Deliveries -> Instances]
  /\ CasAttempts \in Nat
  /\ MaxEvents \in Nat /\ MaxIncidents \in Nat

VARIABLES
  lock,       \* the job that holds the group's lock
  expired,    \* history: jobs that lost the lock to its TTL
  pc,         \* where each flush attempt is
  inst,       \* the instance it runs on
  buffer,     \* the shared buffer: its messages and errorCount
  bufL1,      \* first-level copy of each instance
  marked,     \* processed_messages markers ever set
  timer,      \* the shared timer key
  indexed,    \* the group is in the index
  flushTimer, \* localFlushTimers of each instance
  retryTimer, \* a flush to come of its own: after a failed one, or a restart
  events,     \* media_group_flush events in the queue
  add,        \* the calls of add
  stage,      \* where in _flushBufferWithLock a job that holds the lock is
  got,        \* the buffer value a job works with
  saved,      \* what persist of an instance has stored
  queued,     \* history: how often each message was put in the queue
  added,      \* history: messages that a call of add has found in the buffer or put there
  excused,    \* history: messages that may be missing, see LossNeedsRace
  doubt,      \* history: something happened that may double a message
  incidents

groupVars == <<buffer, bufL1, marked, timer, indexed, flushTimer, retryTimer, events,
               add, stage, got, saved, queued, added, excused, doubt, incidents>>
lockVars == <<lock, expired, pc, inst>>
vars == <<lockVars, groupVars>>

-----------------------------------------------------------------------------
NoBuffer == [msgs |-> {}, errors |-> 0]

\* A buffer may count past MaxErrors: the flush that gave the group up can stop before
\* it has deleted it, and the next one counts on.
Buffer == [msgs : SUBSET Messages, errors : Nat]

Call ==
  [at : {"idle", "mark", "append", "set", "blind", "schedule", "full", "done"},
   inst : Instances, tries : 0..CasAttempts, read : Buffer]

Stages == {"check", "read", "send", "clean", "untime", "failed", "rewrite"}

TypeOK ==
  /\ lock \in Jobs \cup {None} /\ expired \subseteq Jobs
  /\ pc \in [Jobs -> {"idle", "acquire", "held", "release", "done"}]
  /\ inst \in [Jobs -> Instances]
  /\ buffer \in Buffer /\ bufL1 \in [Instances -> Buffer]
  /\ marked \subseteq Messages
  /\ timer \in {"none", "armed", "due"} /\ indexed \in BOOLEAN
  /\ flushTimer \in [Instances -> BOOLEAN] /\ retryTimer \in [Instances -> BOOLEAN]
  /\ events \in 0..MaxEvents
  /\ add \in [Deliveries -> Call]
  /\ stage \in [Jobs -> Stages] /\ got \in [Jobs -> Buffer]
  /\ saved \in [Instances -> SUBSET Messages]
  /\ queued \in [Messages -> Nat]
  /\ added \subseteq Messages /\ excused \subseteq Messages
  /\ doubt \in BOOLEAN
  /\ incidents \in 0..MaxIncidents

Init ==
  /\ lock = None /\ expired = {}
  /\ pc = [j \in Jobs |-> "idle"] /\ inst \in [Jobs -> Instances]
  /\ buffer = NoBuffer /\ bufL1 = [i \in Instances |-> NoBuffer]
  /\ marked = {} /\ timer = "none" /\ indexed = FALSE
  /\ flushTimer = [i \in Instances |-> FALSE]
  /\ retryTimer = [i \in Instances |-> FALSE]
  /\ events = 0
  /\ add = [a \in Deliveries |->
              [at |-> "idle", inst |-> Home[a], tries |-> 0, read |-> NoBuffer]]
  /\ stage = [j \in Jobs |-> "check"] /\ got = [j \in Jobs |-> NoBuffer]
  /\ saved = [i \in Instances |-> {}]
  /\ queued = [m \in Messages |-> 0]
  /\ added = {} /\ excused = {} /\ doubt = FALSE /\ incidents = 0

\* cache.get, as ReadsLock: the copy unless it has ended, else the shared value
ReadsBuffer(i) == {buffer, bufL1[i]} \ (IF buffer = NoBuffer THEN {} ELSE {NoBuffer})

CopyBuffer(i, value) == bufL1' = [bufL1 EXCEPT ![i] = value]

DropBufferCopy(i) == bufL1' = [bufL1 EXCEPT ![i] = NoBuffer]

\* cache.set: the shared value and the own copy
SetBuffer(i, value) == buffer' = value /\ bufL1' = [bufL1 EXCEPT ![i] = value]

AddAt(a, label) == add' = [add EXCEPT ![a].at = label]

\* A message enters the buffer while a flush works on an earlier reading: that
\* flush will delete what it has not read.
BehindAFlush(m) ==
  \E j \in Jobs : /\ pc[j] = "held"
                  /\ \/ stage[j] = "send" /\ m \notin got[j].msgs
                     \/ stage[j] = "clean"

ExcusedIf(m, race) == excused' = IF race THEN excused \cup {m} ELSE excused

-----------------------------------------------------------------------------
\* add: _isMessageDuplicate reads the marker, which is there for a minute, ...
Deliver(a) ==
  /\ add[a].at = "idle"
  /\ \/ AddAt(a, "mark")
     \/ Carries[a] \in marked /\ AddAt(a, "done")
  /\ UNCHANGED <<lockVars, buffer, bufL1, marked, timer, indexed, flushTimer, retryTimer,
                 events, stage, got, saved, queued, excused, doubt, incidents, added>>

\* ... and sets it.
Mark(a) ==
  /\ add[a].at = "mark"
  /\ AddAt(a, "append")
  /\ marked' = marked \cup {Carries[a]}
  /\ doubt' = (doubt \/ Carries[a] \in marked)
  /\ UNCHANGED <<lockVars, buffer, bufL1, timer, indexed, flushTimer, retryTimer,
                 events, stage, got, saved, queued, excused, incidents, added>>

\* Where add goes on once the buffer holds n messages
AfterAppend(n) == IF n >= MaxBatch THEN "full" ELSE "schedule"

OutOfAttempts(a) == add[a].tries = CasAttempts

\* _addMessageToBuffer: read, ...
AppendRead(a) ==
  /\ add[a].at = "append"
  /\ \E value \in ReadsBuffer(add[a].inst) :
       LET last  == OutOfAttempts(a)
           there == Carries[a] \in value.msgs /\ ~last
       IN /\ CopyBuffer(add[a].inst, value)
          /\ add' = [add EXCEPT
               ![a].at = IF there THEN AfterAppend(Cardinality(value.msgs))
                         ELSE IF last THEN "blind" ELSE "set",
               ![a].read = IF there THEN NoBuffer ELSE value,
               ![a].tries = IF there \/ last THEN 0 ELSE @]
          /\ added' = IF there THEN added \cup {Carries[a]} ELSE added
  /\ UNCHANGED <<lockVars, buffer, marked, timer, indexed, flushTimer, retryTimer,
                 events, stage, got, saved, queued, excused, doubt, incidents>>

\* Mutant of WithMessage: the buffer starts again with the new message.
WithMessageOnly(value, m) == [msgs |-> {m}, errors |-> 0]

\* The next value of the buffer; the error count is not carried over.
WithMessage(value, m) == [msgs |-> value.msgs \cup {m}, errors |-> 0]

\* ... then compareAndSet, up to CasAttempts times, ...
AppendSet(a) ==
  LET i    == add[a].inst
      m    == Carries[a]
      next == WithMessage(add[a].read, m)
  IN
  /\ add[a].at = "set"
  /\ IF buffer = add[a].read
     THEN /\ buffer' = next
          /\ DropBufferCopy(i)
          /\ add' = [add EXCEPT ![a].at = AfterAppend(Cardinality(next.msgs)),
                                ![a].read = NoBuffer, ![a].tries = 0]
          /\ added' = added \cup {m}
          /\ ExcusedIf(m, BehindAFlush(m))
     ELSE /\ add' = [add EXCEPT ![a].at = "append", ![a].tries = @ + 1,
                                ![a].read = NoBuffer]
          /\ UNCHANGED <<buffer, bufL1, added, excused>>
  /\ UNCHANGED <<lockVars, marked, timer, indexed, flushTimer, retryTimer, events,
                 stage, got, saved, queued, doubt, incidents>>

\* ... and in the end a plain set over whatever the buffer has become.
AppendBlind(a) ==
  LET i    == add[a].inst
      m    == Carries[a]
      next == WithMessage(add[a].read, m)
  IN
  /\ add[a].at = "blind"
  /\ SetBuffer(i, next)
  /\ added' = added \cup {m}
  /\ add' = [add EXCEPT ![a].at = AfterAppend(Cardinality(next.msgs)), ![a].read = NoBuffer]
  /\ excused' = excused \cup (buffer.msgs \ next.msgs)
                        \cup (IF BehindAFlush(m) THEN {m} ELSE {})
  /\ doubt' = (doubt \/ ~ next.msgs \ {m} \subseteq buffer.msgs)
  /\ UNCHANGED <<lockVars, marked, timer, indexed, flushTimer, retryTimer, events,
                 stage, got, saved, queued, incidents>>

\* _startTimeoutTimer, _scheduleLocalFlush, _scheduleRemoteFlush (which may fail
\* without notice) and the entry in the index.  What they write only starts flushes,
\* so their awaits are one step.
Schedule(a) ==
  /\ add[a].at = "schedule"
  /\ AddAt(a, "done")
  /\ timer' = "armed" /\ indexed' = TRUE
  /\ flushTimer' = [flushTimer EXCEPT ![add[a].inst] = TRUE]
  /\ events' \in {events, events + 1} /\ events' <= MaxEvents
  /\ UNCHANGED <<lockVars, buffer, bufL1, marked, retryTimer, stage, got, saved, queued,
                 excused, doubt, incidents, added>>

-----------------------------------------------------------------------------
\* _attemptFlush: distributedLock.acquire, given up when another attempt holds it
Goto(j, label) == pc' = [pc EXCEPT ![j] = label]

Start(j) ==
  /\ pc[j] = "idle"
  /\ Goto(j, "acquire")
  /\ UNCHANGED <<lock, expired, inst>>

Acquire(j) ==
  /\ pc[j] = "acquire"
  /\ IF lock = None
     THEN Goto(j, "held") /\ lock' = j
     ELSE Goto(j, "done") /\ UNCHANGED lock
  /\ UNCHANGED <<expired, inst, groupVars>>

\* release, which knows the owner's instance only
Release(j) ==
  /\ pc[j] = "release"
  /\ Goto(j, "done")
  /\ lock' = IF lock # None /\ inst[lock] = inst[j] THEN None ELSE lock
  /\ UNCHANGED <<expired, inst, groupVars>>

\* The TTL ends although the holder renews it: a stalled process, or a dead one.
LockExpires ==
  /\ lock # None
  /\ pc[lock] # "done" => incidents < MaxIncidents
  /\ incidents' = IF pc[lock] # "done" THEN incidents + 1 ELSE incidents
  /\ lock' = None
  /\ expired' = expired \cup {lock}
  /\ UNCHANGED <<pc, inst, buffer, bufL1, marked, timer, indexed, flushTimer, retryTimer,
                 events, add, stage, got, saved, queued, excused, doubt, added>>

\* What starts a flush.  No guard asks for messages.
FullBatch(a, j) ==
  /\ add[a].at = "full" /\ inst[j] = add[a].inst
  /\ Start(j)
  /\ AddAt(a, "done")
  /\ flushTimer' = [flushTimer EXCEPT ![inst[j]] = FALSE]
  /\ UNCHANGED <<buffer, bufL1, marked, timer, indexed, retryTimer, events, stage, got,
                 saved, queued, excused, doubt, incidents, added>>

FlushTimerFires(j) ==
  /\ flushTimer[inst[j]]
  /\ Start(j)
  /\ flushTimer' = [flushTimer EXCEPT ![inst[j]] = FALSE]
  /\ UNCHANGED <<buffer, bufL1, marked, timer, indexed, retryTimer, events, add, stage, got,
                 saved, queued, excused, doubt, incidents, added>>

RetryTimerFires(j) ==
  /\ retryTimer[inst[j]]
  /\ Start(j)
  /\ retryTimer' = [retryTimer EXCEPT ![inst[j]] = FALSE]
  /\ UNCHANGED <<buffer, bufL1, marked, timer, indexed, flushTimer, events, add, stage, got,
                 saved, queued, excused, doubt, incidents, added>>

\* handleFlushEvent on any instance; before its time the event is sent again
HandleFlushEvent(j) ==
  /\ events > 0
  /\ timer # "armed"
  /\ Start(j)
  /\ events' = events - 1
  /\ UNCHANGED <<buffer, bufL1, marked, timer, indexed, flushTimer, retryTimer, add, stage,
                 got, saved, queued, excused, doubt, incidents, added>>

\* _cleanupStaleBuffers
FlushStale(j) ==
  /\ indexed /\ timer = "due"
  /\ Start(j)
  /\ UNCHANGED groupVars

\* The timer key is over, and later gone.  (The entry of the index ends a minute after it
\* was written, which only keeps FlushStale and persist from finding the group.)
TimerPasses ==
  /\ timer # "none"
  /\ timer' = IF timer = "armed" THEN "due" ELSE "none"
  /\ UNCHANGED <<lockVars, buffer, bufL1, marked, indexed, flushTimer, retryTimer, events,
                 add, stage, got, saved, queued, excused, doubt, incidents, added>>

-----------------------------------------------------------------------------
\* _flushBufferWithLock
StageIs(j, label) == stage' = [stage EXCEPT ![j] = label]

\* finally: drop the local timer, then release the lock
ToRelease(j) ==
  /\ Goto(j, "release")
  /\ flushTimer' = [flushTimer EXCEPT ![inst[j]] = FALSE]
  /\ StageIs(j, "check")
  /\ got' = [got EXCEPT ![j] = NoBuffer]
  /\ UNCHANGED <<lock, expired, inst>>

\* getLockStatus: held, and this attempt's version
StillLocked(j) == lock = j

CheckLock(j) ==
  /\ pc[j] = "held" /\ stage[j] = "check"
  /\ IF StillLocked(j)
     THEN StageIs(j, "read") /\ UNCHANGED <<lockVars, flushTimer, got>>
     ELSE ToRelease(j)
  /\ UNCHANGED <<buffer, bufL1, marked, timer, indexed, retryTimer, events, add, saved,
                 queued, excused, doubt, incidents, added>>

GetBuffer(j) ==
  /\ pc[j] = "held" /\ stage[j] = "read"
  /\ \E data \in ReadsBuffer(inst[j]) :
       /\ CopyBuffer(inst[j], data)
       /\ StageIs(j, IF data.msgs = {} THEN "clean" ELSE "send")
       /\ got' = [got EXCEPT ![j] = data]
       /\ doubt' = (doubt \/ data # buffer)
       /\ excused' = excused \cup (buffer.msgs \ data.msgs)
  /\ UNCHANGED <<lockVars, buffer, marked, timer, indexed, flushTimer, retryTimer, events,
                 add, saved, queued, incidents, added>>

Queued(msgs) ==
  queued' = [m \in Messages |-> IF m \in msgs THEN queued[m] + 1 ELSE queued[m]]

\* client.getMessages, which may find some of the messages gone or without media,
\* and TaskManager.addBatchTasks with the others
Send(j) ==
  /\ pc[j] = "held" /\ stage[j] = "send"
  /\ \E valid \in SUBSET got[j].msgs :
       /\ valid # got[j].msgs => incidents < MaxIncidents
       /\ incidents' = IF valid # got[j].msgs THEN incidents + 1 ELSE incidents
       /\ Queued(valid)
       /\ excused' = excused \cup (got[j].msgs \ valid)
  /\ StageIs(j, "clean")
  /\ UNCHANGED <<lockVars, buffer, bufL1, marked, timer, indexed, flushTimer, retryTimer,
                 events, add, got, saved, doubt, added>>

\* getMessages fails, or addBatchTasks does, maybe with some messages in the queue.
SendFails(j) ==
  /\ pc[j] = "held" /\ stage[j] = "send"
  /\ \E sent \in SUBSET got[j].msgs :
       /\ Queued(sent)
       /\ doubt' = (doubt \/ sent # {})
  /\ StageIs(j, "failed")
  /\ UNCHANGED <<lockVars, buffer, bufL1, marked, timer, indexed, flushTimer, retryTimer,
                 events, add, got, saved, excused, incidents, added>>

\* The catch block reads the buffer again ...
FailureRead(j) ==
  /\ pc[j] = "held" /\ stage[j] = "failed"
  /\ \E data \in ReadsBuffer(inst[j]) :
       /\ CopyBuffer(inst[j], data)
       /\ IF data = NoBuffer
          THEN ToRelease(j)
          ELSE /\ got' = [got EXCEPT ![j] = data]
               /\ StageIs(j, "rewrite")
               /\ UNCHANGED <<lockVars, flushTimer>>
  /\ UNCHANGED <<buffer, marked, timer, indexed, retryTimer, events, add, saved, queued,
                 excused, doubt, incidents, added>>

\* ... and writes it back with a higher count, and tries later or gives up.
FailureWrite(j) ==
  LET data == [got[j] EXCEPT !.errors = @ + 1] IN
  /\ pc[j] = "held" /\ stage[j] = "rewrite"
  /\ SetBuffer(inst[j], data)
  /\ excused' = excused \cup (buffer.msgs \ data.msgs)
                        \cup (IF data.errors < MaxErrors THEN {} ELSE data.msgs)
  /\ doubt' = (doubt \/ ~ data.msgs \subseteq buffer.msgs)
  /\ IF data.errors < MaxErrors
     THEN /\ retryTimer' = [retryTimer EXCEPT ![inst[j]] = TRUE]
          /\ ToRelease(j)
     ELSE /\ StageIs(j, "clean")
          /\ UNCHANGED <<lockVars, retryTimer, flushTimer, got>>
  /\ UNCHANGED <<marked, timer, indexed, events, add, saved, queued, incidents, added>>

Cleaned == NoBuffer

\* _cleanupBuffer: the buffer, whatever it holds by now, ...
CleanBuffer(j) ==
  /\ pc[j] = "held" /\ stage[j] = "clean"
  /\ buffer' = Cleaned
  /\ DropBufferCopy(inst[j])
  /\ StageIs(j, "untime")
  /\ UNCHANGED <<lockVars, marked, timer, indexed, flushTimer, retryTimer, events, add, got,
                 saved, queued, excused, doubt, incidents, added>>

\* ... then what starts a flush: the timers and the entry of the index.
CleanTimers(j) ==
  /\ pc[j] = "held" /\ stage[j] = "untime"
  /\ timer' = "none" /\ indexed' = FALSE
  /\ ToRelease(j)
  /\ UNCHANGED <<buffer, bufL1, marked, retryTimer, events, add, saved, queued, excused,
                 doubt, incidents, added>>

\* The buffer ends when nobody has written it for long: a minute after a plain
\* cache.set, an hour after a compareAndSet.  The copies have ends of their own.
BufferExpires ==
  /\ buffer # NoBuffer
  /\ incidents < MaxIncidents /\ incidents' = incidents + 1
  /\ buffer' = NoBuffer
  /\ excused' = excused \cup buffer.msgs
  /\ UNCHANGED <<lockVars, bufL1, marked, timer, indexed, flushTimer, retryTimer, events,
                 add, stage, got, saved, queued, doubt, added>>

-----------------------------------------------------------------------------
\* A restart of instance i: shutdown may get to persist; restore then flushes what is
\* indexed, adds what was stored without a look at the markers, and flushes again.
\* (The adding of one group is one step here.)
Restart(i) ==
  /\ incidents < MaxIncidents /\ incidents' = incidents + 1
  /\ \E data \in ReadsBuffer(i) \cup {NoBuffer} :
       saved' = [saved EXCEPT ![i] = IF indexed THEN data.msgs ELSE {}]
  /\ pc' = [j \in Jobs |-> IF inst[j] = i /\ pc[j] # "idle" THEN "done" ELSE pc[j]]
  /\ DropBufferCopy(i)
  /\ flushTimer' = [flushTimer EXCEPT ![i] = FALSE]
  /\ retryTimer' = [retryTimer EXCEPT ![i] = indexed]
  /\ add' = [a \in Deliveries |->
       IF add[a].inst = i /\ add[a].at # "idle"
       THEN [add[a] EXCEPT !.at = "done", !.read = NoBuffer] ELSE add[a]]
  /\ stage' = [j \in Jobs |-> IF inst[j] = i THEN "check" ELSE stage[j]]
  /\ got' = [j \in Jobs |-> IF inst[j] = i THEN NoBuffer ELSE got[j]]
  /\ UNCHANGED <<lock, expired, inst, buffer, marked, timer, indexed, events, queued,
                 excused, doubt, added>>

Restore(j) ==
  LET i == inst[j] IN
  /\ saved[i] # {}
  /\ Start(j)
  /\ saved' = [saved EXCEPT ![i] = {}]
  /\ buffer' = IF saved[i] \subseteq buffer.msgs THEN buffer
               ELSE [msgs |-> buffer.msgs \cup saved[i], errors |-> 0]
  /\ DropBufferCopy(i)
  /\ doubt' = TRUE
  /\ excused' = excused \cup {m \in saved[i] : BehindAFlush(m)}
  /\ UNCHANGED <<marked, timer, indexed, flushTimer, retryTimer, events, add, stage, got,
                 queued, incidents, added>>

Next ==
  \/ \E a \in Deliveries :
       \/ Deliver(a) \/ Mark(a) \/ AppendRead(a) \/ AppendSet(a) \/ AppendBlind(a)
       \/ Schedule(a)
       \/ \E j \in Jobs : FullBatch(a, j)
  \/ \E j \in Jobs :
       \/ FlushTimerFires(j) \/ RetryTimerFires(j) \/ HandleFlushEvent(j)
       \/ FlushStale(j) \/ Restore(j)
       \/ Acquire(j) \/ Release(j)
       \/ CheckLock(j) \/ GetBuffer(j) \/ Send(j) \/ SendFails(j)
       \/ FailureRead(j) \/ FailureWrite(j)
       \/ CleanBuffer(j) \/ CleanTimers(j)
  \/ \E i \in Instances : Restart(i)
  \/ TimerPasses
  \/ LockExpires
  \/ BufferExpires

Spec == Init /\ [][Next]_vars

-----------------------------------------------------------------------------
\* A message that any call of add has ever put in the buffer, or found in it, is there
\* or has been put in the queue, for good, unless it arrived behind the reading of a
\* flush that then deleted the buffer (_cleanupBuffer), was overwritten by a plain set
\* of an older value (_addMessageToBuffer after its attempts, the catch block), could
\* not be fetched, belongs to a group given up after its errors, or was in a buffer
\* that reached the end of its time with no flush.  Nothing else loses one.
LossNeedsRace ==
  \A m \in added :
    m \in buffer.msgs \cup excused \/ queued[m] > 0

\* A message gets into the queue twice only when the lock expired under a flush,
\* a flush read a copy or wrote an older value than the shared one, the message was
\* marked twice (two deliveries at once, or one after the marker's minute), a batch was
\* partly sent, or a restart restored it.
DoubledNeedsCause ==
  \A m \in Messages : queued[m] > 1 => expired # {} \/ doubt

\* No file of an album is lost or sent twice without the race or the failure that it takes.
GroupsKept == TypeOK /\ LossNeedsRace /\ DoubledNeedsCause

-----------------------------------------------------------------------------
(* The inductive invariant *)

\* A message that left the buffer for a reason: it is in the queue, or may be missing.
Accounted == excused \cup {m \in Messages : queued[m] > 0}

Kept == buffer.msgs \cup Accounted

\* Whoever has a message of the buffer in hand has one that is there or accounted for,
\* however old the reading.
NothingForgotten ==
  /\ \A i \in Instances : bufL1[i].msgs \cup saved[i] \subseteq Kept
  /\ \A a \in Deliveries : add[a].read.msgs \subseteq Kept
  /\ \A j \in Jobs : got[j].msgs \subseteq Kept
  /\ added \subseteq Kept

Sending == {j \in Jobs : pc[j] = "held" /\ stage[j] = "send"}

Cleaning == {j \in Jobs : pc[j] = "held" /\ stage[j] = "clean"}

\* What a flush is about to delete without having read it, or has dealt with
DeletesAccounted ==
  /\ \A j \in Sending : buffer.msgs \ got[j].msgs \subseteq Accounted
  /\ Cleaning # {} => buffer.msgs \subseteq Accounted

TriesLeft == \A a \in Deliveries : add[a].at = "set" => add[a].tries < CasAttempts

AtRest == \A j \in Jobs : pc[j] # "held" => stage[j] = "check"

\* As long as no lease ran out, a flush and its release have the lock.
HoldsLock == \A j \in Jobs : pc[j] \in {"held", "release"} => lock = j

Adding == {a \in Deliveries : add[a].at \in {"append", "set", "blind"}}

OneAdds ==
  /\ \A a, b \in Adding : Carries[a] = Carries[b] => a = b
  /\ \A a \in Adding : Carries[a] \in marked

\* Messages that have not been in the buffer
New == {m \in Messages : /\ m \notin buffer.msgs /\ queued[m] = 0
                         /\ \A j \in Sending : m \notin got[j].msgs}

AddsNew == (Messages \ marked) \cup {Carries[a] : a \in Adding} \subseteq New

\* A message that is in the queue is still in the buffer only between the enqueue and
\* the delete, with the lock held by the flush between them, alive or dead.
Deleting == \E j \in Jobs : lock = j /\ (pc[j] = "done" \/ j \in Cleaning)

QueuedOnce ==
  /\ \A m \in Messages : queued[m] <= 1
  /\ \A m \in buffer.msgs : queued[m] > 0 => Deleting
  /\ \A j \in Sending : \A m \in got[j].msgs : queued[m] = 0

Calm == expired = {} /\ ~doubt

IInv ==
  /\ TypeOK /\ TriesLeft /\ AtRest
  /\ NothingForgotten /\ DeletesAccounted
  /\ expired = {} => HoldsLock
  /\ Calm => OneAdds /\ AddsNew /\ QueuedOnce

-----------------------------------------------------------------------------
(* Types *)

LEMMA ReadsTyped ==
  ASSUME TypeOK, NEW i \in Instances
  PROVE  ReadsBuffer(i) \subseteq {buffer, bufL1[i]} /\ ReadsBuffer(i) \subseteq Buffer
BY DEF TypeOK, ReadsBuffer

LEMMA NoBufferTyped == NoBuffer \in Buffer
BY DEF NoBuffer, Buffer

LEMMA AddAtTyped ==
  ASSUME TypeOK, TriesLeft, NEW a \in Deliveries, NEW label,
         label \in {"mark", "append", "schedule", "full", "done"}, AddAt(a, label)
  PROVE  /\ add' \in [Deliveries -> Call]
         /\ TriesLeft'
BY DEF TypeOK, TriesLeft, AddAt, Call

LEMMA CallTyped ==
  ASSUME TypeOK, TriesLeft, NEW a \in Deliveries, NEW c, NEW label, NEW value, NEW n,
         c = [add[a] EXCEPT !.at = label, !.read = value, !.tries = n],
         label \in {"append", "set", "blind", "schedule", "full"},
         value \in Buffer, n \in 0..CasAttempts, label = "set" => n < CasAttempts,
         add' = [add EXCEPT ![a] = c]
  PROVE  add' \in [Deliveries -> Call] /\ TriesLeft'
<1>1. add[a] \in Call
  BY DEF TypeOK
<1>2. c \in Call /\ c.at = label /\ c.tries = n
  BY <1>1 DEF Call
<1>. QED  BY <1>2 DEF TypeOK, TriesLeft

LEMMA StartTyped ==
  ASSUME TypeOK, AtRest, NEW j \in Jobs, Start(j), stage' = stage
  PROVE  /\ lock' \in Jobs \cup {None} /\ expired' \subseteq Jobs
         /\ pc' \in [Jobs -> {"idle", "acquire", "held", "release", "done"}]
         /\ inst' \in [Jobs -> Instances]
         /\ AtRest'
BY DEF TypeOK, AtRest, Start, Goto

LEMMA ToReleaseTyped ==
  ASSUME TypeOK, AtRest, NEW j \in Jobs, ToRelease(j)
  PROVE  /\ lock' \in Jobs \cup {None} /\ expired' \subseteq Jobs
         /\ pc' \in [Jobs -> {"idle", "acquire", "held", "release", "done"}]
         /\ inst' \in [Jobs -> Instances]
         /\ flushTimer' \in [Instances -> BOOLEAN]
         /\ stage' \in [Jobs -> Stages] /\ got' \in [Jobs -> Buffer]
         /\ AtRest'
BY NoBufferTyped DEF TypeOK, AtRest, ToRelease, Goto, StageIs, Stages

LEMMA AddSteps ==
  ASSUME TypeOK, TriesLeft, AtRest, NEW a \in Deliveries,
         \/ Deliver(a) \/ Mark(a) \/ AppendRead(a) \/ AppendSet(a) \/ AppendBlind(a)
         \/ Schedule(a)
  PROVE  TypeOK' /\ TriesLeft' /\ AtRest'
<1>. USE MediaGroupAssumption
<1>. DEFINE m == Carries[a]
            i == add[a].inst
<1>0. i \in Instances /\ m \in Messages /\ add[a].read \in Buffer
  BY DEF TypeOK, Call
<1>1. CASE Deliver(a)
  <2>1. add' \in [Deliveries -> Call] /\ TriesLeft'
    BY <1>1, AddAtTyped DEF Deliver
  <2>. QED  BY <1>1, <2>1 DEF Deliver, TypeOK, AtRest, lockVars
<1>2. CASE Mark(a)
  <2>1. add' \in [Deliveries -> Call] /\ TriesLeft'
    BY <1>2, AddAtTyped DEF Mark
  <2>. QED  BY <1>0, <1>2, <2>1 DEF Mark, TypeOK, AtRest, lockVars
<1>3. CASE AppendRead(a)
  <2>1. PICK value \in ReadsBuffer(i) : AppendRead(a)!2!(value)
    BY <1>3 DEF AppendRead
  <2>2. value \in Buffer
    BY <1>0, <2>1, ReadsTyped
  <2>3. add' \in [Deliveries -> Call] /\ TriesLeft'
    <3>0. 0 \in 0..CasAttempts
      OBVIOUS
    <3>1. CASE m \in value.msgs /\ ~OutOfAttempts(a)
      <4>1. PICK label : label = AfterAppend(Cardinality(value.msgs))
        OBVIOUS
      <4>2. label \in {"schedule", "full"}
        BY <4>1 DEF AfterAppend
      <4>3. PICK c : c = [add[a] EXCEPT !.at = label, !.read = NoBuffer, !.tries = 0]
        OBVIOUS
      <4>4. add' = [add EXCEPT ![a] = c]
        BY <4>3, <2>1, <3>1, <4>1
      <4>. QED  BY <3>0, <4>2, <4>3, <4>4, NoBufferTyped, CallTyped
    <3>2. CASE OutOfAttempts(a)
      <4>1. PICK c : c = [add[a] EXCEPT !.at = "blind", !.read = value, !.tries = 0]
        OBVIOUS
      <4>2. add' = [add EXCEPT ![a] = c]
        BY <4>1, <2>1, <3>2
      <4>3. add[a] \in Call
        BY DEF TypeOK
      <4>4. c \in Call /\ c.at = "blind"
        BY <3>0, <4>1, <4>3, <2>2 DEF Call
      <4>. QED  BY <4>2, <4>4 DEF TypeOK, TriesLeft
    <3>3. CASE m \notin value.msgs /\ ~OutOfAttempts(a)
      <4>1. PICK n : n = add[a].tries
        OBVIOUS
      <4>2. n \in 0..CasAttempts /\ n < CasAttempts
        <5>1. add[a] \in Call
          BY DEF TypeOK
        <5>2. n \in 0..CasAttempts
          BY <4>1, <5>1 DEF Call
        <5>3. n # CasAttempts
          BY <3>3, <4>1 DEF OutOfAttempts
        <5>. QED  BY <5>2, <5>3
      <4>3. PICK label : label = "set"
        OBVIOUS
      <4>4. PICK c : c = [add[a] EXCEPT !.at = label, !.read = value, !.tries = n]
        OBVIOUS
      <4>5. add' = [add EXCEPT ![a] = c]
        BY <4>3, <4>4, <2>1, <3>3, <4>1
      <4>. QED  BY <4>2, <4>3, <4>4, <4>5, <2>2, CallTyped
    <3>. QED  BY <3>1, <3>2, <3>3
  <2>4. bufL1' \in [Instances -> Buffer]
    BY <2>1, <2>2 DEF TypeOK, CopyBuffer
  <2>5. added' \subseteq Messages
    BY <1>0, <2>1 DEF TypeOK
  <2>. QED  BY <1>3, <2>3, <2>4, <2>5 DEF AppendRead, TypeOK, AtRest, lockVars
<1>4. CASE AppendSet(a)
  <2>1. WithMessage(add[a].read, m) \in Buffer
    BY <1>0 DEF WithMessage, Buffer
  <2>2. add' \in [Deliveries -> Call] /\ TriesLeft'
    <3>1. CASE buffer = add[a].read
      <4>1. PICK label : label = AfterAppend(Cardinality(WithMessage(add[a].read, m).msgs))
        OBVIOUS
      <4>2. label \in {"schedule", "full"} /\ 0 \in 0..CasAttempts
        BY <4>1 DEF AfterAppend
      <4>3. PICK c : c = [add[a] EXCEPT !.at = label, !.read = NoBuffer, !.tries = 0]
        OBVIOUS
      <4>4. add' = [add EXCEPT ![a] = c]
        BY <4>3, <1>4, <3>1, <4>1 DEF AppendSet
      <4>. QED  BY <4>2, <4>3, <4>4, NoBufferTyped, CallTyped
    <3>2. CASE buffer # add[a].read
      <4>1. PICK n : n = add[a].tries + 1
        OBVIOUS
      <4>2. n \in 0..CasAttempts
        <5>1. add[a] \in Call /\ add[a].tries < CasAttempts
          BY <1>4 DEF AppendSet, TypeOK, TriesLeft
        <5>. QED  BY <4>1, <5>1 DEF Call
      <4>3. PICK c : c = [add[a] EXCEPT !.at = "append", !.read = NoBuffer, !.tries = n]
        OBVIOUS
      <4>4. add' = [add EXCEPT ![a] = c]
        BY <4>3, <1>4, <3>2, <4>1 DEF AppendSet
      <4>5. add[a] \in Call
        BY DEF TypeOK
      <4>6. c \in Call /\ c.at = "append"
        BY <4>2, <4>3, <4>5, NoBufferTyped DEF Call
      <4>. QED  BY <4>4, <4>6 DEF TypeOK, TriesLeft
    <3>. QED  BY <3>1, <3>2
  <2>3. buffer' \in Buffer /\ bufL1' \in [Instances -> Buffer] /\ excused' \subseteq Messages
    BY <1>0, <1>4, <2>1, NoBufferTyped DEF AppendSet, TypeOK, DropBufferCopy, ExcusedIf
  <2>4. added' \subseteq Messages
    BY <1>0, <1>4 DEF AppendSet, TypeOK
  <2>. QED  BY <1>4, <2>2, <2>3, <2>4 DEF AppendSet, TypeOK, AtRest, lockVars
<1>5. CASE AppendBlind(a)
  <2>1. WithMessage(add[a].read, m) \in Buffer
    BY <1>0 DEF WithMessage, Buffer
  <2>2. add' \in [Deliveries -> Call] /\ TriesLeft'
    <3>1. PICK label : label = AfterAppend(Cardinality(WithMessage(add[a].read, m).msgs))
      OBVIOUS
    <3>2. label \in {"schedule", "full"}
      BY <3>1 DEF AfterAppend
    <3>3. PICK c : c = [add[a] EXCEPT !.at = label, !.read = NoBuffer]
      OBVIOUS
    <3>4. c \in Call /\ c.at = label
      <4>1. add[a] \in Call
        BY DEF TypeOK
      <4>. QED  BY <3>2, <3>3, <4>1, NoBufferTyped DEF Call
    <3>5. add' = [add EXCEPT ![a] = c]
      BY <1>5, <3>1, <3>3 DEF AppendBlind
    <3>. QED  BY <3>2, <3>4, <3>5 DEF TypeOK, TriesLeft
  <2>3. buffer' \in Buffer /\ bufL1' \in [Instances -> Buffer]
    BY <1>0, <1>5, <2>1 DEF AppendBlind, TypeOK, SetBuffer
  <2>4. added' \subseteq Messages /\ excused' \subseteq Messages
    BY <1>0, <1>5 DEF AppendBlind, TypeOK, Buffer
  <2>. QED  BY <1>5, <2>2, <2>3, <2>4 DEF AppendBlind, TypeOK, AtRest, lockVars
<1>6. CASE Schedule(a)
  <2>1. add' \in [Deliveries -> Call] /\ TriesLeft'
    BY <1>6, AddAtTyped DEF Schedule
  <2>2. events' \in 0..MaxEvents
    BY <1>6 DEF Schedule, TypeOK
  <2>3. flushTimer' \in [Instances -> BOOLEAN]
    BY <1>6 DEF Schedule, TypeOK
  <2>. QED  BY <1>6, <2>1, <2>2, <2>3 DEF Schedule, TypeOK, AtRest, lockVars
<1>. QED  BY <1>1, <1>2, <1>3, <1>4, <1>5, <1>6

LEMMA StartSteps ==
  ASSUME TypeOK, TriesLeft, AtRest, NEW j \in Jobs,
         \/ \E a \in Deliveries : FullBatch(a, j)
         \/ FlushTimerFires(j) \/ RetryTimerFires(j) \/ HandleFlushEvent(j)
         \/ FlushStale(j) \/ Restore(j)
  PROVE  TypeOK' /\ TriesLeft' /\ AtRest'
<1>. USE MediaGroupAssumption
<1>0. inst[j] \in Instances
  BY DEF TypeOK
<1>1. ASSUME NEW a \in Deliveries, FullBatch(a, j) PROVE TypeOK' /\ TriesLeft' /\ AtRest'
  <2>1. add' \in [Deliveries -> Call] /\ TriesLeft'
    BY <1>1, AddAtTyped DEF FullBatch
  <2>2. flushTimer' \in [Instances -> BOOLEAN]
    BY <1>0, <1>1 DEF FullBatch, TypeOK
  <2>. QED  BY <1>1, <2>1, <2>2, StartTyped DEF FullBatch, TypeOK
<1>2. CASE FlushTimerFires(j)
  <2>1. flushTimer' \in [Instances -> BOOLEAN]
    BY <1>0, <1>2 DEF FlushTimerFires, TypeOK
  <2>. QED  BY <1>2, <2>1, StartTyped DEF FlushTimerFires, TypeOK, TriesLeft
<1>3. CASE RetryTimerFires(j)
  <2>1. retryTimer' \in [Instances -> BOOLEAN]
    BY <1>0, <1>3 DEF RetryTimerFires, TypeOK
  <2>. QED  BY <1>3, <2>1, StartTyped DEF RetryTimerFires, TypeOK, TriesLeft
<1>4. CASE HandleFlushEvent(j)
  <2>1. events' \in 0..MaxEvents
    BY <1>4 DEF HandleFlushEvent, TypeOK
  <2>. QED  BY <1>4, <2>1, StartTyped DEF HandleFlushEvent, TypeOK, TriesLeft
<1>5. CASE FlushStale(j)
  BY <1>5, StartTyped DEF FlushStale, TypeOK, TriesLeft, groupVars
<1>6. CASE Restore(j)
  <2>1. buffer' \in Buffer
    BY <1>0, <1>6 DEF Restore, TypeOK, Buffer
  <2>2. saved' \in [Instances -> SUBSET Messages] /\ bufL1' \in [Instances -> Buffer]
    BY <1>0, <1>6, NoBufferTyped DEF Restore, TypeOK, DropBufferCopy
  <2>3. excused' \subseteq Messages /\ doubt' \in BOOLEAN
    BY <1>0, <1>6 DEF Restore, TypeOK
  <2>. QED  BY <1>6, <2>1, <2>2, <2>3, StartTyped DEF Restore, TypeOK, TriesLeft
<1>. QED  BY <1>1, <1>2, <1>3, <1>4, <1>5, <1>6

LEMMA FlushSteps ==
  ASSUME TypeOK, TriesLeft, AtRest, NEW j \in Jobs,
         \/ Acquire(j) \/ Release(j) \/ CheckLock(j) \/ GetBuffer(j)
         \/ Send(j) \/ SendFails(j) \/ FailureRead(j) \/ FailureWrite(j)
         \/ CleanBuffer(j) \/ CleanTimers(j)
  PROVE  TypeOK' /\ TriesLeft' /\ AtRest'
<1>. USE MediaGroupAssumption
<1>0. inst[j] \in Instances /\ got[j] \in Buffer
  BY DEF TypeOK
<1>1. CASE Acquire(j)
  BY <1>1 DEF Acquire, Goto, TypeOK, TriesLeft, AtRest, groupVars
<1>2. CASE Release(j)
  BY <1>2 DEF Release, Goto, TypeOK, TriesLeft, AtRest, groupVars
<1>3. CASE CheckLock(j)
  <2>1. CASE StillLocked(j)
    BY <1>3, <2>1 DEF CheckLock, StageIs, Stages, TypeOK, TriesLeft, AtRest, lockVars
  <2>2. CASE ~StillLocked(j)
    BY <1>3, <2>2, ToReleaseTyped DEF CheckLock, TypeOK, TriesLeft
  <2>. QED  BY <2>1, <2>2
<1>4. CASE GetBuffer(j)
  <2>1. PICK data \in ReadsBuffer(inst[j]) : GetBuffer(j)!2!(data)
    BY <1>4 DEF GetBuffer
  <2>2. data \in Buffer /\ buffer.msgs \subseteq Messages
    BY <1>0, <2>1, ReadsTyped DEF TypeOK, Buffer
  <2>3. bufL1' \in [Instances -> Buffer] /\ got' \in [Jobs -> Buffer]
    BY <2>1, <2>2 DEF CopyBuffer, TypeOK
  <2>4. excused' \subseteq Messages /\ doubt' \in BOOLEAN
    BY <2>1, <2>2 DEF TypeOK
  <2>5. stage' \in [Jobs -> Stages] /\ pc' = pc /\ AtRest'
    BY <1>4, <2>1 DEF GetBuffer, StageIs, Stages, TypeOK, AtRest, lockVars
  <2>. QED  BY <1>4, <2>3, <2>4, <2>5 DEF GetBuffer, TypeOK, TriesLeft, lockVars
<1>5. CASE Send(j)
  <2>1. PICK valid \in SUBSET got[j].msgs : Send(j)!2!(valid)
    BY <1>5 DEF Send
  <2>2. got[j].msgs \subseteq Messages
    BY <1>0 DEF Buffer
  <2>3. queued' \in [Messages -> Nat]
    BY <2>1 DEF Queued, TypeOK
  <2>4. excused' \subseteq Messages /\ incidents' \in 0..MaxIncidents
    BY <2>1, <2>2 DEF TypeOK
  <2>5. stage' \in [Jobs -> Stages] /\ pc' = pc /\ AtRest'
    BY <1>5 DEF Send, StageIs, Stages, TypeOK, AtRest, lockVars
  <2>. QED  BY <1>5, <2>3, <2>4, <2>5 DEF Send, TypeOK, TriesLeft, lockVars
<1>6. CASE SendFails(j)
  <2>1. PICK sent \in SUBSET got[j].msgs : SendFails(j)!2!(sent)
    BY <1>6 DEF SendFails
  <2>2. queued' \in [Messages -> Nat] /\ doubt' \in BOOLEAN
    BY <2>1 DEF Queued, TypeOK
  <2>3. stage' \in [Jobs -> Stages] /\ pc' = pc /\ AtRest'
    BY <1>6 DEF SendFails, StageIs, Stages, TypeOK, AtRest, lockVars
  <2>. QED  BY <1>6, <2>2, <2>3 DEF SendFails, TypeOK, TriesLeft, lockVars
<1>7. CASE FailureRead(j)
  <2>1. PICK data \in ReadsBuffer(inst[j]) : FailureRead(j)!2!(data)
    BY <1>7 DEF FailureRead
  <2>2. data \in Buffer
    BY <1>0, <2>1, ReadsTyped
  <2>3. bufL1' \in [Instances -> Buffer]
    BY <2>1, <2>2 DEF CopyBuffer, TypeOK
  <2>4. CASE data = NoBuffer
    BY <1>7, <2>1, <2>3, <2>4, ToReleaseTyped DEF FailureRead, TypeOK, TriesLeft
  <2>5. CASE data # NoBuffer
    <3>1. got' \in [Jobs -> Buffer]
      BY <2>1, <2>2, <2>5 DEF TypeOK
    <3>2. stage' \in [Jobs -> Stages] /\ pc' = pc /\ AtRest'
      BY <1>7, <2>1, <2>5 DEF FailureRead, StageIs, Stages, TypeOK, AtRest, lockVars
    <3>. QED  BY <1>7, <2>1, <2>3, <2>5, <3>1, <3>2
              DEF FailureRead, TypeOK, TriesLeft, lockVars
  <2>. QED  BY <2>4, <2>5
<1>8. CASE FailureWrite(j)
  <2>. DEFINE data == [got[j] EXCEPT !.errors = @ + 1]
  <2>1. data \in Buffer
    BY <1>0 DEF Buffer
  <2>2. buffer' \in Buffer /\ bufL1' \in [Instances -> Buffer]
    BY <1>0, <1>8, <2>1 DEF FailureWrite, SetBuffer, TypeOK
  <2>3. excused' \subseteq Messages /\ doubt' \in BOOLEAN
    BY <1>8, <2>1 DEF FailureWrite, TypeOK, Buffer
  <2>4. CASE data.errors < MaxErrors
    <3>1. ToRelease(j) /\ retryTimer' \in [Instances -> BOOLEAN]
      BY <1>0, <1>8, <2>4 DEF FailureWrite, TypeOK
    <3>. QED  BY <1>8, <2>2, <2>3, <3>1, ToReleaseTyped DEF FailureWrite, TypeOK, TriesLeft
  <2>5. CASE ~(data.errors < MaxErrors)
    <3>1. /\ StageIs(j, "clean") /\ UNCHANGED <<lockVars, retryTimer, flushTimer, got>>
      BY <1>8, <2>5 DEF FailureWrite
    <3>2. stage' \in [Jobs -> Stages] /\ AtRest'
      BY <1>8, <3>1 DEF FailureWrite, StageIs, Stages, TypeOK, AtRest, lockVars
    <3>. QED  BY <1>8, <2>2, <2>3, <3>1, <3>2 DEF FailureWrite, TypeOK, TriesLeft, lockVars
  <2>. QED  BY <2>4, <2>5
<1>9. CASE CleanBuffer(j)
  <2>1. buffer' \in Buffer /\ bufL1' \in [Instances -> Buffer]
    BY <1>0, <1>9, NoBufferTyped DEF CleanBuffer, Cleaned, DropBufferCopy, TypeOK
  <2>2. stage' \in [Jobs -> Stages] /\ AtRest'
    BY <1>9 DEF CleanBuffer, StageIs, Stages, TypeOK, AtRest, lockVars
  <2>. QED  BY <1>9, <2>1, <2>2 DEF CleanBuffer, TypeOK, TriesLeft, lockVars
<1>10. CASE CleanTimers(j)
  BY <1>10, ToReleaseTyped DEF CleanTimers, TypeOK, TriesLeft
<1>. QED  BY <1>1, <1>2, <1>3, <1>4, <1>5, <1>6, <1>7, <1>8, <1>9, <1>10

LEMMA OtherSteps ==
  ASSUME TypeOK, TriesLeft, AtRest,
         (\E i \in Instances : Restart(i)) \/ TimerPasses \/ LockExpires \/ BufferExpires
         \/ UNCHANGED vars
  PROVE  TypeOK' /\ TriesLeft' /\ AtRest'
<1>. USE MediaGroupAssumption
<1>1. ASSUME NEW i \in Instances, Restart(i) PROVE TypeOK' /\ TriesLeft' /\ AtRest'
  <2>1. add' \in [Deliveries -> Call] /\ TriesLeft'
    <3>1. ASSUME NEW a \in Deliveries
          PROVE  add'[a] \in Call /\ (add'[a].at = "set" => add'[a].tries < CasAttempts)
      <4>1. add[a] \in Call
        BY DEF TypeOK
      <4>2. PICK c : c = [add[a] EXCEPT !.at = "done", !.read = NoBuffer]
        OBVIOUS
      <4>3. c \in Call /\ c.at = "done"
        BY <4>1, <4>2, NoBufferTyped DEF Call
      <4>4. add'[a] = c \/ add'[a] = add[a]
        BY <1>1, <4>2 DEF Restart
      <4>. QED  BY <4>1, <4>3, <4>4 DEF TriesLeft
    <3>2. add' = [a \in Deliveries |-> add'[a]]
      BY <1>1 DEF Restart
    <3>3. add' \in [Deliveries -> Call]
      BY <3>1, <3>2
    <3>. QED  BY <3>1, <3>3 DEF TriesLeft
  <2>2. PICK data \in ReadsBuffer(i) \cup {NoBuffer} :
          saved' = [saved EXCEPT ![i] = IF indexed THEN data.msgs ELSE {}]
    BY <1>1 DEF Restart
  <2>3. data.msgs \subseteq Messages
    BY <2>2, ReadsTyped, NoBufferTyped DEF Buffer
  <2>4. saved' \in [Instances -> SUBSET Messages]
    BY <2>2, <2>3 DEF TypeOK
  <2>5. bufL1' \in [Instances -> Buffer] /\ got' \in [Jobs -> Buffer]
    BY <1>1, NoBufferTyped DEF Restart, TypeOK, DropBufferCopy
  <2>6. /\ flushTimer' \in [Instances -> BOOLEAN] /\ retryTimer' \in [Instances -> BOOLEAN]
        /\ incidents' \in 0..MaxIncidents
    <3>1. flushTimer' \in [Instances -> BOOLEAN] /\ retryTimer' \in [Instances -> BOOLEAN]
      BY <1>1 DEF Restart, TypeOK
    <3>2. incidents \in 0..MaxIncidents /\ incidents < MaxIncidents /\ incidents' = incidents + 1
      BY <1>1 DEF Restart, TypeOK
    <3>. QED  BY <3>1, <3>2
  <2>7. /\ pc' \in [Jobs -> {"idle", "acquire", "held", "release", "done"}]
        /\ stage' \in [Jobs -> Stages]
        /\ AtRest'
    BY <1>1 DEF Restart, TypeOK, Stages, AtRest
  <2>. QED  BY <1>1, <2>1, <2>4, <2>5, <2>6, <2>7 DEF Restart, TypeOK
<1>2. CASE TimerPasses
  BY <1>2 DEF TimerPasses, TypeOK, TriesLeft, AtRest, lockVars
<1>3. CASE LockExpires
  BY <1>3 DEF LockExpires, TypeOK, TriesLeft, AtRest
<1>4. CASE UNCHANGED vars
  BY <1>4 DEF vars, lockVars, groupVars, TypeOK, TriesLeft, AtRest
<1>5. CASE BufferExpires
  <2>1. buffer' \in Buffer /\ excused' \subseteq Messages /\ incidents' \in 0..MaxIncidents
    BY <1>5, NoBufferTyped DEF BufferExpires, TypeOK, Buffer
  <2>. QED  BY <1>5, <2>1 DEF BufferExpires, TypeOK, TriesLeft, AtRest, lockVars
<1>. QED  BY <1>1, <1>2, <1>3, <1>4, <1>5

LEMMA TypeStep ==
  ASSUME TypeOK, TriesLeft, AtRest, [Next]_vars  PROVE TypeOK' /\ TriesLeft' /\ AtRest'
BY AddSteps, StartSteps, FlushSteps, OtherSteps DEF Next

-----------------------------------------------------------------------------
(* No message is forgotten *)

LEMMA KeptTyped == TypeOK => Kept \subseteq Messages
BY DEF TypeOK, Kept, Accounted, Buffer

\* A step that leaves the buffer and what became of its messages alone
LEMMA QuietKept ==
  ASSUME TypeOK, NothingForgotten, DeletesAccounted,
         UNCHANGED <<buffer, queued, excused>>,
         \A i \in Instances : bufL1'[i] \in {buffer, bufL1[i], NoBuffer}
                             /\ saved'[i] \subseteq Kept,
         \A a \in Deliveries :
           add'[a].read.msgs \subseteq Kept,
         \A j \in Jobs : got'[j].msgs \subseteq Kept, added' \subseteq Kept,
         Sending' \subseteq Sending, Cleaning' \subseteq Cleaning,
         \A j \in Sending' : got'[j] = got[j]
  PROVE  NothingForgotten' /\ DeletesAccounted'
<1>1. Accounted' = Accounted /\ Kept' = Kept
  BY DEF Accounted, Kept
<1>2. \A i \in Instances : bufL1'[i].msgs \subseteq Kept
  BY DEF NothingForgotten, Kept, NoBuffer
<1>3. NothingForgotten'
  BY <1>1, <1>2 DEF NothingForgotten
<1>4. DeletesAccounted'
  BY <1>1 DEF DeletesAccounted
<1>. QED  BY <1>3, <1>4

\* What a call or a flush keeps when its step is about something else
LEMMA HandsKept ==
  ASSUME TypeOK, NothingForgotten
  PROVE  /\ \A i \in Instances : bufL1[i] \in {buffer, bufL1[i], NoBuffer}
                                /\ bufL1[i].msgs \subseteq Kept /\ saved[i] \subseteq Kept
         /\ \A a \in Deliveries :
              add[a].read.msgs \subseteq Kept
         /\ \A j \in Jobs : got[j].msgs \subseteq Kept
         /\ added \subseteq Kept
         /\ NoBuffer.msgs \subseteq Kept /\ buffer.msgs \subseteq Kept
BY DEF NothingForgotten, NoBuffer, Kept

LEMMA ReadsKept ==
  ASSUME TypeOK, NothingForgotten, NEW i \in Instances, NEW data \in ReadsBuffer(i)
  PROVE  data \in {buffer, bufL1[i]} /\ data.msgs \subseteq Kept
BY ReadsTyped, HandsKept

\* The steps of add before and after the buffer, and the starts of a flush
LEMMA AddKept ==
  ASSUME TypeOK, AtRest, NothingForgotten, DeletesAccounted, NEW a \in Deliveries,
         Deliver(a) \/ Mark(a) \/ Schedule(a)
  PROVE  NothingForgotten' /\ DeletesAccounted'
<1>1. UNCHANGED <<buffer, queued, excused, added, bufL1, saved, got, stage, pc>>
  BY DEF Deliver, Mark, Schedule, lockVars
<1>2. \E label \in {"done", "mark", "append"} : AddAt(a, label)
  BY DEF Deliver, Mark, Schedule
<1>3. ASSUME NEW b \in Deliveries  PROVE add'[b].read = add[b].read
  BY <1>2 DEF AddAt, TypeOK, Call
<1>4. \A b \in Deliveries : add'[b].read.msgs \subseteq Kept
  BY <1>3, HandsKept
<1>5. /\ \A j \in Jobs : got'[j].msgs \subseteq Kept
     /\ Sending' = Sending /\ Cleaning' = Cleaning
     /\ \A j \in Sending' : got'[j] = got[j]
  BY <1>1, HandsKept DEF Sending, Cleaning
<1>6. \A i \in Instances : bufL1'[i] \in {buffer, bufL1[i], NoBuffer}
                         /\ saved'[i] \subseteq Kept
  BY <1>1, HandsKept
<1>7. added' \subseteq Kept
  BY <1>1, HandsKept
<1>. QED  BY <1>1, <1>4, <1>5, <1>6, <1>7, QuietKept

LEMMA AppendReadKept ==
  ASSUME TypeOK, AtRest, NothingForgotten, DeletesAccounted, NEW a \in Deliveries,
         AppendRead(a)
  PROVE  NothingForgotten' /\ DeletesAccounted'
<1>1. /\ UNCHANGED <<buffer, queued, excused, saved, got, stage, pc>>
  BY DEF AppendRead, lockVars
<1>2. PICK value \in ReadsBuffer(add[a].inst) : AppendRead(a)!2!(value)
  BY DEF AppendRead
<1>3. add[a] \in Call /\ add[a].inst \in Instances
  BY DEF TypeOK, Call
<1>4. value \in {buffer, bufL1[add[a].inst]} /\ value.msgs \subseteq Kept
  BY <1>2, <1>3, ReadsKept
<1>5. \A b \in Deliveries : add'[b].read.msgs \subseteq Kept
  <2>1. ASSUME NEW b \in Deliveries, b # a  PROVE add'[b].read.msgs \subseteq Kept
    BY <1>2, <2>1, HandsKept DEF TypeOK
  <2>2. add'[a].read \in {NoBuffer, value}
    BY <1>2, <1>3 DEF TypeOK, Call
  <2>3. add'[a].read.msgs \subseteq Kept
    BY <1>4, <2>2, HandsKept
  <2>. QED  BY <2>1, <2>3
<1>8. added' \subseteq Kept
  <2>1. added' = added \/ (added' = added \cup {Carries[a]} /\ Carries[a] \in value.msgs)
    BY <1>2
  <2>. QED  BY <1>4, <2>1, HandsKept
<1>6. /\ \A j \in Jobs : got'[j].msgs \subseteq Kept
     /\ Sending' = Sending /\ Cleaning' = Cleaning
     /\ \A j \in Sending' : got'[j] = got[j]
  BY <1>1, HandsKept DEF Sending, Cleaning
<1>7. \A i \in Instances : bufL1'[i] \in {buffer, bufL1[i], NoBuffer}
                         /\ saved'[i] \subseteq Kept
  BY <1>1, <1>2, <1>3, <1>4, HandsKept DEF CopyBuffer, TypeOK
<1>. QED  BY <1>1, <1>5, <1>6, <1>7, <1>8, QuietKept

\* When a message enters the buffer, a flush that will not read it is behind it.
LEMMA EntersKept ==
  ASSUME TypeOK, DeletesAccounted, NEW m \in Messages, Kept \subseteq Kept',
         Accounted \subseteq Accounted', UNCHANGED <<pc, stage, got>>,
         buffer'.msgs \subseteq Kept \cup {m}, m \in excused' \/ ~BehindAFlush(m)
  PROVE  DeletesAccounted'
<1>1. Sending' = Sending /\ Cleaning' = Cleaning
  BY DEF Sending, Cleaning
<1>2. ASSUME NEW j \in Sending
      PROVE  buffer'.msgs \ got'[j].msgs \subseteq Accounted'
  <2>1. Kept \ got[j].msgs \subseteq Accounted
    BY DEF DeletesAccounted, Kept
  <2>2. m \in got[j].msgs \/ m \in Accounted'
    BY DEF BehindAFlush, Sending, Accounted
  <2>. QED  BY <2>1, <2>2
<1>3. ASSUME Cleaning # {}  PROVE buffer'.msgs \subseteq Accounted'
  <2>1. Kept \subseteq Accounted
    BY <1>3 DEF DeletesAccounted, Kept
  <2>2. m \in Accounted'
    BY <1>3 DEF BehindAFlush, Cleaning, Accounted
  <2>. QED  BY <2>1, <2>2
<1>. QED  BY <1>1, <1>2, <1>3 DEF DeletesAccounted

\* What every step that writes the buffer has to show of the rest
LEMMA StillKept ==
  ASSUME Kept \subseteq Kept',
         \A i \in Instances : bufL1'[i].msgs \subseteq Kept' /\ saved'[i] \subseteq Kept,
         \A a \in Deliveries :
           add'[a].read.msgs \subseteq Kept,
         \A j \in Jobs : got'[j].msgs \subseteq Kept, added' \subseteq Kept'
  PROVE  NothingForgotten'
BY DEF NothingForgotten

LEMMA AppendSetKept ==
  ASSUME TypeOK, NothingForgotten, DeletesAccounted, NEW a \in Deliveries, AppendSet(a)
  PROVE  NothingForgotten' /\ DeletesAccounted'
<1>. DEFINE m == Carries[a]
<1>0. add[a] \in Call /\ add[a].inst \in Instances /\ m \in Messages
  BY MediaGroupAssumption DEF TypeOK, Call
<1>1. UNCHANGED <<queued, saved, got, stage, pc>>
  BY DEF AppendSet, lockVars
<1>2. \A b \in Deliveries \ {a} : add'[b] = add[b]
  BY <1>0 DEF AppendSet, TypeOK
<1>3. add'[a].read = NoBuffer
  BY <1>0 DEF AppendSet, TypeOK, Call
<1>4. CASE buffer = add[a].read
  <2>1. buffer'.msgs = buffer.msgs \cup {m} /\ excused \subseteq excused'
        /\ (m \in excused' \/ ~BehindAFlush(m))
    BY <1>4 DEF AppendSet, WithMessage, ExcusedIf
  <2>2. Accounted \subseteq Accounted' /\ Kept \subseteq Kept' /\ m \in Kept'
    BY <1>0, <1>1, <2>1 DEF Accounted, Kept
  <2>6. added' \subseteq Kept'
    BY <1>4, <2>2, HandsKept DEF AppendSet
  <2>3. DeletesAccounted'
    <3>1. buffer'.msgs \subseteq Kept \cup {m}
      BY <2>1 DEF Kept
    <3>. QED  BY <1>0, <1>1, <2>1, <2>2, <3>1, EntersKept
  <2>4. \A i \in Instances : bufL1'[i].msgs \subseteq Kept' /\ saved'[i] \subseteq Kept
    <3>1. \A i \in Instances : bufL1'[i] \in {bufL1[i], NoBuffer}
      BY <1>0, <1>4 DEF AppendSet, DropBufferCopy, TypeOK
    <3>. QED  BY <1>1, <2>2, <3>1, HandsKept
  <2>5. ASSUME NEW b \in Deliveries
        PROVE  add'[b].read.msgs \subseteq Kept
    <3>1. CASE b = a
      BY <1>3, <2>2, <3>1, HandsKept
    <3>2. CASE b # a
      BY <1>2, <2>2, <3>2, HandsKept
    <3>. QED  BY <3>1, <3>2
  <2>. QED  BY <1>1, <2>2, <2>3, <2>4, <2>5, <2>6, HandsKept, StillKept
<1>5. CASE buffer # add[a].read
  <2>1. UNCHANGED <<buffer, bufL1, excused, added>>
    BY <1>5 DEF AppendSet
  <2>2. \A b \in Deliveries : add'[b].read.msgs \subseteq Kept
    BY <1>2, <1>3, <2>1, HandsKept
  <2>3. /\ \A j \in Jobs : got'[j].msgs \subseteq Kept
        /\ Sending' = Sending /\ Cleaning' = Cleaning
        /\ \A j \in Sending' : got'[j] = got[j]
        /\ added' \subseteq Kept
    BY <1>1, <2>1, HandsKept DEF Sending, Cleaning
  <2>4. \A i \in Instances : bufL1'[i] \in {buffer, bufL1[i], NoBuffer}
                           /\ saved'[i] \subseteq Kept
    BY <1>1, <2>1, HandsKept
  <2>. QED  BY <1>1, <2>1, <2>2, <2>3, <2>4, QuietKept
<1>. QED  BY <1>4, <1>5

LEMMA AppendBlindKept ==
  ASSUME TypeOK, NothingForgotten, DeletesAccounted, NEW a \in Deliveries, AppendBlind(a)
  PROVE  NothingForgotten' /\ DeletesAccounted'
<1>. DEFINE m == Carries[a]
<1>0. add[a] \in Call /\ add[a].inst \in Instances /\ m \in Messages
  BY MediaGroupAssumption DEF TypeOK, Call
<1>1. UNCHANGED <<queued, saved, got, stage, pc>>
  BY DEF AppendBlind, lockVars
<1>2. \A b \in Deliveries \ {a} : add'[b] = add[b]
  BY <1>0 DEF AppendBlind, TypeOK
<1>3. add'[a].read = NoBuffer
  BY <1>0 DEF AppendBlind, TypeOK, Call
<1>4. /\ buffer'.msgs = add[a].read.msgs \cup {m}
      /\ buffer.msgs \ buffer'.msgs \subseteq excused' /\ excused \subseteq excused'
      /\ m \in excused' \/ ~BehindAFlush(m)
  BY DEF AppendBlind, WithMessage, SetBuffer
<1>5. Accounted \subseteq Accounted' /\ Kept \subseteq Kept' /\ m \in Kept'
  BY <1>0, <1>1, <1>4 DEF Accounted, Kept
<1>6. DeletesAccounted'
  <2>1. buffer'.msgs \subseteq Kept \cup {m}
    BY <1>4, HandsKept
  <2>. QED  BY <1>0, <1>1, <1>4, <1>5, <2>1, EntersKept
<1>7. \A i \in Instances : bufL1'[i].msgs \subseteq Kept' /\ saved'[i] \subseteq Kept
  <2>1. \A i \in Instances : bufL1'[i] \in {bufL1[i], buffer'}
    BY <1>0 DEF AppendBlind, SetBuffer, TypeOK
  <2>2. buffer'.msgs \subseteq Kept'
    BY DEF Kept
  <2>. QED  BY <1>1, <1>5, <2>1, <2>2, HandsKept
<1>8. ASSUME NEW b \in Deliveries
      PROVE  add'[b].read.msgs \subseteq Kept
  <2>1. CASE b = a
    BY <1>3, <1>5, <2>1, HandsKept
  <2>2. CASE b # a
    BY <1>2, <1>5, <2>2, HandsKept
  <2>. QED  BY <2>1, <2>2
<1>9. added' \subseteq Kept'
  BY <1>5, HandsKept DEF AppendBlind
<1>. QED  BY <1>1, <1>5, <1>6, <1>7, <1>8, <1>9, HandsKept, StillKept

LEMMA StartKept ==
  ASSUME TypeOK, AtRest, NothingForgotten, DeletesAccounted, NEW j \in Jobs,
         \/ \E a \in Deliveries : FullBatch(a, j)
         \/ FlushTimerFires(j) \/ RetryTimerFires(j) \/ HandleFlushEvent(j)
         \/ FlushStale(j)
  PROVE  NothingForgotten' /\ DeletesAccounted'
<1>1. UNCHANGED <<buffer, queued, excused, added, bufL1, saved, got, stage>> /\ Start(j)
  BY DEF FullBatch, FlushTimerFires, RetryTimerFires, HandleFlushEvent, FlushStale, groupVars
<1>2. /\ \A k \in Jobs : got'[k].msgs \subseteq Kept
      /\ Sending' \subseteq Sending /\ Cleaning' \subseteq Cleaning
      /\ \A k \in Sending' : got'[k] = got[k]
      /\ added' \subseteq Kept
  BY <1>1, HandsKept DEF Start, Goto, Sending, Cleaning, TypeOK
<1>3. ASSUME NEW b \in Deliveries  PROVE add'[b].read = add[b].read
  <2>1. CASE UNCHANGED add
    BY <2>1
  <2>2. ASSUME NEW a \in Deliveries, AddAt(a, "done")  PROVE add'[b].read = add[b].read
    BY <2>2 DEF AddAt, TypeOK, Call
  <2>. QED  BY <2>1, <2>2
            DEF FullBatch, FlushTimerFires, RetryTimerFires, HandleFlushEvent, FlushStale,
                groupVars
<1>4. \A b \in Deliveries : add'[b].read.msgs \subseteq Kept
  BY <1>3, HandsKept
<1>5. \A i \in Instances : bufL1'[i] \in {buffer, bufL1[i], NoBuffer}
                         /\ saved'[i] \subseteq Kept
  BY <1>1, HandsKept
<1>. QED  BY <1>1, <1>2, <1>4, <1>5, QuietKept

LEMMA RestoreKept ==
  ASSUME TypeOK, AtRest, NothingForgotten, DeletesAccounted, NEW j \in Jobs, Restore(j)
  PROVE  NothingForgotten' /\ DeletesAccounted'
<1>0. inst[j] \in Instances
  BY DEF TypeOK
<1>1. UNCHANGED <<queued, got, stage, add, added>> /\ Start(j) /\ excused \subseteq excused'
  BY DEF Restore
<1>2. Sending' \subseteq Sending /\ Cleaning' \subseteq Cleaning
  BY <1>1 DEF Start, Goto, Sending, Cleaning, TypeOK
<1>3. buffer'.msgs = buffer.msgs \cup saved[inst[j]]
  BY <1>0 DEF Restore, TypeOK, Buffer
<1>4. saved[inst[j]] \subseteq Kept
  BY <1>0, HandsKept
<1>5. Accounted \subseteq Accounted' /\ Kept \subseteq Kept' /\ buffer'.msgs \subseteq Kept
  BY <1>1, <1>3, <1>4 DEF Accounted, Kept
<1>6. DeletesAccounted'
  <2>1. ASSUME NEW k \in Sending  PROVE buffer'.msgs \ got'[k].msgs \subseteq Accounted'
    BY <1>1, <1>5 DEF DeletesAccounted, Kept
  <2>2. ASSUME Cleaning # {}  PROVE buffer'.msgs \subseteq Accounted'
    BY <1>5, <2>2 DEF DeletesAccounted, Kept
  <2>. QED  BY <1>2, <2>1, <2>2 DEF DeletesAccounted
<1>7. \A i \in Instances : bufL1'[i].msgs \subseteq Kept' /\ saved'[i] \subseteq Kept
  <2>1. \A i \in Instances : bufL1'[i] \in {bufL1[i], NoBuffer} /\ saved'[i] \subseteq saved[i]
    BY <1>0 DEF Restore, DropBufferCopy, TypeOK
  <2>. QED  BY <1>5, <2>1, HandsKept
<1>8. /\ \A b \in Deliveries : add'[b].read.msgs \subseteq Kept
     /\ added' \subseteq Kept'
  BY <1>1, <1>5, HandsKept
<1>. QED  BY <1>1, <1>5, <1>6, <1>7, <1>8, HandsKept, StillKept

LEMMA LockKept ==
  ASSUME TypeOK, AtRest, NothingForgotten, DeletesAccounted, NEW j \in Jobs,
         Acquire(j) \/ Release(j) \/ CheckLock(j) \/ CleanTimers(j)
  PROVE  NothingForgotten' /\ DeletesAccounted'
<1>1. UNCHANGED <<buffer, queued, excused, bufL1, saved, add, added>>
  BY DEF Acquire, Release, CheckLock, CleanTimers, groupVars
<1>2. /\ Sending' \subseteq Sending /\ Cleaning' \subseteq Cleaning
      /\ \A k \in Jobs : got'[k] \in {got[k], NoBuffer}
      /\ \A k \in Sending' : got'[k] = got[k]
  <2>1. CASE Acquire(j) \/ Release(j)
    BY <2>1 DEF Acquire, Release, Goto, Sending, Cleaning, TypeOK, AtRest, groupVars
  <2>2. CASE StageIs(j, "read") /\ UNCHANGED <<lockVars, flushTimer, got>>
    BY <2>2 DEF StageIs, Sending, Cleaning, TypeOK, lockVars
  <2>3. CASE ToRelease(j)
    BY <2>3 DEF ToRelease, StageIs, Goto, Sending, Cleaning, TypeOK
  <2>. QED  BY <2>1, <2>2, <2>3 DEF CheckLock, CleanTimers
<1>3. \A k \in Jobs : got'[k].msgs \subseteq Kept
  BY <1>2, HandsKept
<1>4. /\ \A b \in Deliveries : add'[b].read.msgs \subseteq Kept
      /\ \A i \in Instances : bufL1'[i] \in {buffer, bufL1[i], NoBuffer}
                             /\ saved'[i] \subseteq Kept
  BY <1>1, HandsKept
<1>5. added' \subseteq Kept
  BY <1>1, HandsKept
<1>. QED  BY <1>1, <1>2, <1>3, <1>4, <1>5, QuietKept

LEMMA GetBufferKept ==
  ASSUME TypeOK, AtRest, NothingForgotten, DeletesAccounted, NEW j \in Jobs, GetBuffer(j)
  PROVE  NothingForgotten' /\ DeletesAccounted'
<1>0. inst[j] \in Instances
  BY DEF TypeOK
<1>1. UNCHANGED <<buffer, queued, saved, add, added, pc>>
  BY DEF GetBuffer, lockVars
<1>2. PICK data \in ReadsBuffer(inst[j]) : GetBuffer(j)!2!(data)
  BY DEF GetBuffer
<1>3. data \in {buffer, bufL1[inst[j]]} /\ data.msgs \subseteq Kept
  BY <1>0, ReadsKept
<1>4. /\ Accounted \subseteq Accounted' /\ Kept \subseteq Kept'
      /\ buffer.msgs \ data.msgs \subseteq Accounted'
  BY <1>1, <1>2 DEF Accounted, Kept
<1>5. DeletesAccounted'
  <2>1. ASSUME NEW k \in Sending'  PROVE buffer'.msgs \ got'[k].msgs \subseteq Accounted'
    <3>1. CASE k = j
      <4>1. got'[k] = data
        BY <1>2, <3>1 DEF TypeOK
      <4>. QED  BY <1>1, <1>4, <4>1
    <3>2. CASE k # j
      <4>1. k \in Sending /\ got'[k] = got[k]
        BY <1>1, <1>2, <3>2 DEF Sending, StageIs, TypeOK
      <4>. QED  BY <1>1, <1>4, <4>1 DEF DeletesAccounted
    <3>. QED  BY <3>1, <3>2
  <2>2. ASSUME NEW k \in Cleaning'  PROVE buffer'.msgs \subseteq Accounted'
    <3>1. CASE k = j
      <4>1. data.msgs = {}
        BY <1>2, <3>1 DEF Cleaning, StageIs, TypeOK
      <4>. QED  BY <1>1, <1>4, <4>1
    <3>2. CASE k # j
      <4>1. k \in Cleaning
        BY <1>1, <1>2, <3>2 DEF Cleaning, StageIs, TypeOK
      <4>. QED  BY <1>1, <1>4, <4>1 DEF DeletesAccounted
    <3>. QED  BY <3>1, <3>2
  <2>. QED  BY <2>1, <2>2 DEF DeletesAccounted
<1>6. \A i \in Instances : bufL1'[i].msgs \subseteq Kept' /\ saved'[i] \subseteq Kept
  <2>1. \A i \in Instances : bufL1'[i] \in {bufL1[i], data}
    BY <1>0, <1>2 DEF CopyBuffer, TypeOK
  <2>. QED  BY <1>1, <1>3, <1>4, <2>1, HandsKept
<1>7. \A k \in Jobs : got'[k].msgs \subseteq Kept
  <2>1. \A k \in Jobs : got'[k] \in {got[k], data}
    BY <1>2 DEF TypeOK
  <2>. QED  BY <1>3, <2>1, HandsKept
<1>8. /\ \A b \in Deliveries : add'[b].read.msgs \subseteq Kept
     /\ added' \subseteq Kept'
  BY <1>1, <1>4, HandsKept
<1>. QED  BY <1>4, <1>5, <1>6, <1>7, <1>8, StillKept

LEMMA SendKept ==
  ASSUME TypeOK, AtRest, NothingForgotten, DeletesAccounted, NEW j \in Jobs,
         Send(j) \/ SendFails(j)
  PROVE  NothingForgotten' /\ DeletesAccounted'
<1>0. UNCHANGED <<buffer, bufL1, saved, got, add, added, pc>> /\ j \in Sending
  BY DEF Send, SendFails, lockVars, Sending
<1>1. /\ Accounted \subseteq Accounted'
      /\ Send(j) => got[j].msgs \subseteq Accounted'
  <2>1. got[j].msgs \subseteq Messages /\ excused \subseteq excused'
    BY DEF TypeOK, Buffer, Send, SendFails
  <2>2. \A m \in Messages : queued[m] > 0 => queued'[m] > 0
    <3>1. PICK valid \in SUBSET got[j].msgs : Queued(valid)
      BY DEF Send, SendFails
    <3>. QED  BY <3>1 DEF Queued, TypeOK
  <2>3. Accounted \subseteq Accounted'
    BY <2>1, <2>2 DEF Accounted
  <2>4. ASSUME Send(j)  PROVE got[j].msgs \subseteq Accounted'
    <3>1. PICK valid \in SUBSET got[j].msgs : Send(j)!2!(valid)
      BY <2>4 DEF Send
    <3>2. got[j].msgs \ valid \subseteq excused' /\ Queued(valid)
      BY <3>1
    <3>3. \A m \in Messages : m \in valid => queued'[m] > 0
      BY <3>2 DEF Queued, TypeOK
    <3>. QED  BY <2>1, <3>2, <3>3 DEF Accounted
  <2>. QED  BY <2>3, <2>4
<1>2. Kept \subseteq Kept'
  BY <1>0, <1>1 DEF Kept
<1>3. Sending' \subseteq Sending
  BY <1>0 DEF Send, SendFails, StageIs, Sending, TypeOK
<1>4. DeletesAccounted'
  <2>1. \A k \in Sending' : buffer'.msgs \ got'[k].msgs \subseteq Accounted'
    BY <1>0, <1>1, <1>3 DEF DeletesAccounted
  <2>2. ASSUME NEW k \in Cleaning'  PROVE buffer'.msgs \subseteq Accounted'
    <3>1. CASE k \in Cleaning
      BY <1>0, <1>1, <3>1 DEF DeletesAccounted
    <3>2. CASE k \notin Cleaning
      <4>1. Send(j)
        BY <1>0, <3>2 DEF Send, SendFails, StageIs, Cleaning, TypeOK
      <4>. QED  BY <1>0, <1>1, <4>1 DEF DeletesAccounted
    <3>. QED  BY <3>1, <3>2
  <2>. QED  BY <2>1, <2>2 DEF DeletesAccounted
<1>5. /\ \A i \in Instances : bufL1'[i].msgs \subseteq Kept' /\ saved'[i] \subseteq Kept
      /\ \A k \in Jobs : got'[k].msgs \subseteq Kept
      /\ \A b \in Deliveries : add'[b].read.msgs \subseteq Kept
      /\ added' \subseteq Kept'
  BY <1>0, <1>2, HandsKept
<1>. QED  BY <1>2, <1>4, <1>5, StillKept

LEMMA FailureReadKept ==
  ASSUME TypeOK, AtRest, NothingForgotten, DeletesAccounted, NEW j \in Jobs, FailureRead(j)
  PROVE  NothingForgotten' /\ DeletesAccounted'
<1>0. inst[j] \in Instances
  BY DEF TypeOK
<1>1. UNCHANGED <<buffer, queued, excused, saved, add, added>>
  BY DEF FailureRead
<1>2. PICK data \in ReadsBuffer(inst[j]) : FailureRead(j)!2!(data)
  BY DEF FailureRead
<1>3. data \in {buffer, bufL1[inst[j]]} /\ data.msgs \subseteq Kept
  BY <1>0, ReadsKept
<1>4. /\ Sending' \subseteq Sending /\ Cleaning' \subseteq Cleaning
      /\ \A k \in Jobs : got'[k] \in {got[k], data, NoBuffer}
      /\ \A k \in Sending' : got'[k] = got[k]
  <2>1. CASE data = NoBuffer
    BY <1>2, <2>1 DEF ToRelease, StageIs, Goto, Sending, Cleaning, TypeOK
  <2>2. CASE data # NoBuffer
    BY <1>2, <2>2 DEF StageIs, Sending, Cleaning, TypeOK, lockVars
  <2>. QED  BY <2>1, <2>2
<1>5. \A k \in Jobs : got'[k].msgs \subseteq Kept
  BY <1>3, <1>4, HandsKept
<1>6. \A i \in Instances : bufL1'[i] \in {buffer, bufL1[i], NoBuffer}
                         /\ saved'[i] \subseteq Kept
  BY <1>0, <1>1, <1>2, <1>3, HandsKept DEF CopyBuffer, TypeOK
<1>7. \A b \in Deliveries : add'[b].read.msgs \subseteq Kept
  BY <1>1, HandsKept
<1>8. added' \subseteq Kept
  BY <1>1, HandsKept
<1>. QED  BY <1>1, <1>4, <1>5, <1>6, <1>7, <1>8, QuietKept

LEMMA FailureWriteKept ==
  ASSUME TypeOK, AtRest, NothingForgotten, DeletesAccounted, NEW j \in Jobs, FailureWrite(j)
  PROVE  NothingForgotten' /\ DeletesAccounted'
<1>0. inst[j] \in Instances /\ got[j] \in Buffer
  BY DEF TypeOK
<1>1. UNCHANGED <<queued, saved, add, added>>
  BY DEF FailureWrite
<1>2. buffer'.msgs = got[j].msgs /\ \A i \in Instances : bufL1'[i] \in {bufL1[i], buffer'}
  BY <1>0 DEF FailureWrite, SetBuffer, Buffer, TypeOK
<1>3. /\ excused \subseteq excused' /\ buffer.msgs \ buffer'.msgs \subseteq excused'
      /\ \/ ToRelease(j)
         \/ StageIs(j, "clean") /\ UNCHANGED <<pc, got>> /\ buffer'.msgs \subseteq excused'
  BY <1>0 DEF FailureWrite, SetBuffer, lockVars
<1>4. /\ Accounted \subseteq Accounted' /\ Kept \subseteq Kept'
      /\ buffer'.msgs \subseteq Kept /\ buffer'.msgs \subseteq Kept'
  BY <1>1, <1>2, <1>3, HandsKept DEF Accounted, Kept
<1>5. /\ Sending' \subseteq Sending
      /\ \A k \in Jobs : got'[k] \in {got[k], NoBuffer}
      /\ \A k \in Sending' : got'[k] = got[k]
      /\ Cleaning' \subseteq Cleaning \/ buffer'.msgs \subseteq excused'
  <2>1. CASE ToRelease(j)
    BY <2>1 DEF ToRelease, StageIs, Goto, Sending, Cleaning, TypeOK
  <2>2. CASE StageIs(j, "clean") /\ UNCHANGED <<pc, got>> /\ buffer'.msgs \subseteq excused'
    BY <2>2 DEF StageIs, Sending, Cleaning, TypeOK
  <2>. QED  BY <1>3, <2>1, <2>2
<1>6. DeletesAccounted'
  <2>1. ASSUME NEW k \in Sending'  PROVE buffer'.msgs \ got'[k].msgs \subseteq Accounted'
    BY <1>4, <1>5 DEF DeletesAccounted, Kept
  <2>2. ASSUME Cleaning' # {}  PROVE buffer'.msgs \subseteq Accounted'
    BY <1>4, <1>5, <2>2 DEF DeletesAccounted, Kept, Accounted
  <2>. QED  BY <2>1, <2>2 DEF DeletesAccounted
<1>7. \A i \in Instances : bufL1'[i].msgs \subseteq Kept' /\ saved'[i] \subseteq Kept
  BY <1>1, <1>2, <1>4, HandsKept
<1>8. \A k \in Jobs : got'[k].msgs \subseteq Kept
  BY <1>5, HandsKept
<1>9. /\ \A b \in Deliveries : add'[b].read.msgs \subseteq Kept
     /\ added' \subseteq Kept'
  BY <1>1, <1>4, HandsKept
<1>. QED  BY <1>4, <1>6, <1>7, <1>8, <1>9, StillKept

LEMMA CleanBufferKept ==
  ASSUME TypeOK, AtRest, NothingForgotten, DeletesAccounted, NEW j \in Jobs, CleanBuffer(j)
  PROVE  NothingForgotten' /\ DeletesAccounted'
<1>0. inst[j] \in Instances
  BY DEF TypeOK
<1>1. UNCHANGED <<queued, excused, saved, add, added, got, pc>> /\ j \in Cleaning
  BY DEF CleanBuffer, lockVars, Cleaning
<1>2. buffer'.msgs = {} /\ \A i \in Instances : bufL1'[i] \in {bufL1[i], NoBuffer}
  BY <1>0 DEF CleanBuffer, Cleaned, NoBuffer, DropBufferCopy, TypeOK
<1>3. Accounted \subseteq Accounted' /\ Kept \subseteq Kept'
  BY <1>1 DEF DeletesAccounted, Accounted, Kept
<1>4. DeletesAccounted'
  BY <1>2 DEF DeletesAccounted
<1>5. /\ \A i \in Instances : bufL1'[i].msgs \subseteq Kept' /\ saved'[i] \subseteq Kept
      /\ \A k \in Jobs : got'[k].msgs \subseteq Kept
      /\ \A b \in Deliveries : add'[b].read.msgs \subseteq Kept
      /\ added' \subseteq Kept'
  BY <1>1, <1>2, <1>3, HandsKept
<1>. QED  BY <1>3, <1>4, <1>5, StillKept

LEMMA OtherKept ==
  ASSUME TypeOK, AtRest, NothingForgotten, DeletesAccounted,
         (\E i \in Instances : Restart(i)) \/ TimerPasses \/ LockExpires \/ BufferExpires
         \/ UNCHANGED vars
  PROVE  NothingForgotten' /\ DeletesAccounted'
<1>1. ASSUME NEW i \in Instances, Restart(i)  PROVE NothingForgotten' /\ DeletesAccounted'
  <2>1. UNCHANGED <<buffer, queued, excused, added>>
    BY <1>1 DEF Restart
  <2>2. PICK data \in ReadsBuffer(i) \cup {NoBuffer} :
          saved' = [saved EXCEPT ![i] = IF indexed THEN data.msgs ELSE {}]
    BY <1>1 DEF Restart
  <2>3. data.msgs \subseteq Kept
    BY <2>2, ReadsKept, HandsKept
  <2>4. \A k \in Instances : saved'[k] \subseteq Kept
    BY <2>2, <2>3, HandsKept DEF TypeOK
  <2>5. \A k \in Instances : bufL1'[k] \in {bufL1[k], NoBuffer}
    BY <1>1 DEF Restart, DropBufferCopy, TypeOK
  <2>6. ASSUME NEW b \in Deliveries
        PROVE  add'[b].read.msgs \subseteq Kept
    <3>1. add[b] \in Call
      BY DEF TypeOK
    <3>2. \/ add'[b] = add[b]
          \/ add'[b].read = NoBuffer /\ add'[b].at = "done"
      BY <1>1, <3>1 DEF Restart, Call
    <3>. QED  BY <3>2, HandsKept
  <2>7. /\ Sending' \subseteq Sending /\ Cleaning' \subseteq Cleaning
        /\ \A k \in Jobs : got'[k] \in {got[k], NoBuffer}
        /\ \A k \in Sending' : got'[k] = got[k]
    BY <1>1 DEF Restart, Sending, Cleaning, TypeOK
  <2>8. \A k \in Jobs : got'[k].msgs \subseteq Kept
    BY <2>7, HandsKept
  <2>9. added' \subseteq Kept
    BY <2>1, HandsKept
  <2>. QED  BY <2>1, <2>4, <2>5, <2>6, <2>7, <2>8, <2>9, QuietKept
<1>2. CASE TimerPasses \/ LockExpires \/ UNCHANGED vars
  <2>1. UNCHANGED <<buffer, queued, excused, added, bufL1, saved, add, got, stage, pc>>
    BY <1>2 DEF TimerPasses, LockExpires, vars, lockVars, groupVars
  <2>2. Sending' = Sending /\ Cleaning' = Cleaning
    BY <2>1 DEF Sending, Cleaning
  <2>. QED  BY <2>1, <2>2, HandsKept, QuietKept
<1>3. CASE BufferExpires
  <2>1. /\ UNCHANGED <<queued, added, bufL1, saved, add, got, stage, pc>>
        /\ buffer'.msgs = {} /\ excused' = excused \cup buffer.msgs
    BY <1>3 DEF BufferExpires, NoBuffer, lockVars
  <2>2. Kept' = Kept /\ Accounted \subseteq Accounted'
    BY <2>1 DEF Kept, Accounted
  <2>3. DeletesAccounted'
    BY <2>1 DEF DeletesAccounted
  <2>. QED  BY <2>1, <2>2, <2>3, HandsKept, StillKept
<1>. QED  BY <1>1, <1>2, <1>3

LEMMA KeptStep ==
  ASSUME TypeOK, AtRest, NothingForgotten, DeletesAccounted, [Next]_vars
  PROVE  NothingForgotten' /\ DeletesAccounted'
BY AddKept, AppendReadKept, AppendSetKept, AppendBlindKept, StartKept, RestoreKept, LockKept,
   GetBufferKept, SendKept, FailureReadKept, FailureWriteKept, CleanBufferKept, OtherKept
   DEF Next

-----------------------------------------------------------------------------
(* As long as no lease ran out, one flush works at a time *)

\* An add, a flush that works, and time change neither the lock nor what expired.
LEMMA LockAlone ==
  ASSUME \/ \E a \in Deliveries :
              \/ Deliver(a) \/ Mark(a) \/ AppendRead(a) \/ AppendSet(a) \/ AppendBlind(a)
              \/ Schedule(a)
         \/ \E j \in Jobs : GetBuffer(j) \/ Send(j) \/ SendFails(j) \/ CleanBuffer(j)
         \/ TimerPasses \/ BufferExpires \/ UNCHANGED vars
  PROVE  UNCHANGED <<lock, expired, pc>>
<1>1. ASSUME NEW a \in Deliveries,
             \/ Deliver(a) \/ Mark(a) \/ AppendRead(a) \/ AppendSet(a) \/ AppendBlind(a)
             \/ Schedule(a)
      PROVE  UNCHANGED <<lock, expired, pc>>
  BY <1>1 DEF Deliver, Mark, AppendRead, AppendSet, AppendBlind, Schedule, lockVars
<1>2. ASSUME NEW j \in Jobs, GetBuffer(j) \/ Send(j) \/ SendFails(j) \/ CleanBuffer(j)
      PROVE  UNCHANGED <<lock, expired, pc>>
  BY <1>2 DEF GetBuffer, Send, SendFails, CleanBuffer, lockVars
<1>3. CASE TimerPasses \/ BufferExpires \/ UNCHANGED vars
  BY <1>3 DEF TimerPasses, BufferExpires, vars, lockVars
<1>. QED  BY <1>1, <1>2, <1>3

LEMMA StartsFlush ==
  ASSUME NEW j \in Jobs,
         \/ \E a \in Deliveries : FullBatch(a, j)
         \/ FlushTimerFires(j) \/ RetryTimerFires(j) \/ HandleFlushEvent(j)
         \/ FlushStale(j) \/ Restore(j)
  PROVE  Start(j)
BY DEF FullBatch, FlushTimerFires, RetryTimerFires, HandleFlushEvent, FlushStale, Restore

LEMMA EndsFlush ==
  ASSUME NEW j \in Jobs, CheckLock(j) \/ FailureRead(j) \/ FailureWrite(j) \/ CleanTimers(j)
  PROVE  pc[j] = "held" /\ (UNCHANGED <<lock, expired, pc>> \/ ToRelease(j))
BY DEF CheckLock, FailureRead, FailureWrite, CleanTimers, lockVars

LEMMA ExpiredStays ==
  ASSUME TypeOK, [Next]_vars
  PROVE  expired \subseteq expired' /\ (LockExpires => expired' # {})
<1>1. CASE LockExpires
  BY <1>1 DEF LockExpires
<1>2. CASE UNCHANGED expired
  BY <1>2 DEF LockExpires
<1>3. ASSUME NEW j \in Jobs, Start(j) \/ ToRelease(j) \/ Acquire(j) \/ Release(j)
      PROVE  UNCHANGED expired
  BY <1>3 DEF Start, ToRelease, Acquire, Release
<1>4. ASSUME NEW i \in Instances, Restart(i)  PROVE UNCHANGED expired
  BY <1>4 DEF Restart
<1>. QED  BY <1>1, <1>2, <1>3, <1>4, LockAlone, StartsFlush, EndsFlush DEF Next

LEMMA LockStep ==
  ASSUME TypeOK, HoldsLock, [Next]_vars, ~LockExpires
  PROVE  HoldsLock'
<1>. USE MediaGroupAssumption
<1>1. CASE UNCHANGED <<lock, pc>>
  BY <1>1 DEF HoldsLock
<1>2. ASSUME NEW j \in Jobs, Start(j)  PROVE HoldsLock'
  BY <1>2 DEF Start, Goto, HoldsLock, TypeOK
<1>3. ASSUME NEW j \in Jobs, pc[j] = "held", ToRelease(j)  PROVE HoldsLock'
  BY <1>3 DEF ToRelease, Goto, HoldsLock, TypeOK
<1>4. ASSUME NEW j \in Jobs, Acquire(j)  PROVE HoldsLock'
  BY <1>4 DEF Acquire, Goto, HoldsLock, TypeOK
<1>5. ASSUME NEW j \in Jobs, Release(j)  PROVE HoldsLock'
  <2>1. lock = j /\ lock' = None /\ pc' = [pc EXCEPT ![j] = "done"]
    BY <1>5 DEF Release, Goto, HoldsLock
  <2>. QED  BY <2>1 DEF HoldsLock, TypeOK
<1>6. ASSUME NEW i \in Instances, Restart(i)  PROVE HoldsLock'
  BY <1>6 DEF Restart, HoldsLock, TypeOK
<1>. QED  BY <1>1, <1>2, <1>3, <1>4, <1>5, <1>6, LockAlone, StartsFlush, EndsFlush DEF Next

-----------------------------------------------------------------------------
(* No message is queued twice *)

\* A step that leaves the buffer, the queue and the markers alone, and starts no add
LEMMA QuietOnce ==
  ASSUME TypeOK, OneAdds, AddsNew, QueuedOnce,
         UNCHANGED <<buffer, queued, marked>>,
         Adding' \subseteq Adding, Sending' \subseteq Sending,
         \A j \in Sending' : got'[j] = got[j],
         Deleting => Deleting'
  PROVE  OneAdds' /\ AddsNew' /\ QueuedOnce'
<1>1. OneAdds'
  BY DEF OneAdds
<1>2. New \subseteq New'
  BY DEF New
<1>3. AddsNew'
  BY <1>2 DEF AddsNew
<1>4. QueuedOnce'
  BY DEF QueuedOnce
<1>. QED  BY <1>1, <1>3, <1>4

LEMMA AddOnce ==
  ASSUME TypeOK, OneAdds, AddsNew, QueuedOnce, NEW a \in Deliveries,
         Deliver(a) \/ AppendRead(a) \/ Schedule(a)
  PROVE  OneAdds' /\ AddsNew' /\ QueuedOnce'
<1>1. UNCHANGED <<buffer, queued, marked, got, stage, pc, lock>>
  BY DEF Deliver, AppendRead, Schedule, lockVars
<1>2. Adding' \subseteq Adding
  <2>1. \A b \in Deliveries \ {a} : add'[b] = add[b]
    BY DEF Deliver, AppendRead, Schedule, AddAt, TypeOK
  <2>2. a \in Adding \/ a \notin Adding'
    <3>1. add[a] \in Call
      BY DEF TypeOK
    <3>2. CASE AppendRead(a)
      BY <3>2 DEF AppendRead, Adding
    <3>3. CASE Deliver(a) \/ Schedule(a)
      <4>1. add'[a].at \in {"mark", "done"}
        BY <3>1, <3>3 DEF Deliver, Schedule, AddAt, TypeOK, Call
      <4>. QED  BY <4>1 DEF Adding
    <3>. QED  BY <3>2, <3>3
  <2>. QED  BY <2>1, <2>2 DEF Adding
<1>3. Sending' = Sending /\ Deleting' = Deleting /\ \A j \in Sending' : got'[j] = got[j]
  BY <1>1 DEF Sending, Deleting, Cleaning
<1>. QED  BY <1>1, <1>2, <1>3, QuietOnce

LEMMA MarkOnce ==
  ASSUME TypeOK, OneAdds, AddsNew, QueuedOnce, NEW a \in Deliveries, Mark(a), ~doubt'
  PROVE  OneAdds' /\ AddsNew' /\ QueuedOnce'
<1>. DEFINE m == Carries[a]
<1>1. /\ UNCHANGED <<buffer, queued, got, stage, pc, lock>>
      /\ m \in Messages \ marked /\ marked' = marked \cup {m}
  BY MediaGroupAssumption DEF Mark, lockVars
<1>2. Adding' = Adding \cup {a}
  BY DEF Mark, AddAt, TypeOK, Call, Adding
<1>3. Sending' = Sending /\ Deleting' = Deleting /\ \A j \in Sending' : got'[j] = got[j]
  BY <1>1 DEF Sending, Deleting, Cleaning
<1>4. OneAdds'
  BY <1>1, <1>2 DEF OneAdds
<1>5. New' = New /\ m \in New
  BY <1>1, <1>3 DEF New, AddsNew
<1>6. AddsNew'
  BY <1>1, <1>2, <1>5 DEF AddsNew
<1>7. QueuedOnce'
  BY <1>1, <1>3 DEF QueuedOnce
<1>. QED  BY <1>4, <1>6, <1>7

\* The buffer gets messages of its own and a new one, and its add is over.
LEMMA AppendOnce ==
  ASSUME TypeOK, OneAdds, AddsNew, QueuedOnce, NEW a \in Deliveries,
         AppendSet(a) \/ AppendBlind(a), ~doubt'
  PROVE  OneAdds' /\ AddsNew' /\ QueuedOnce'
<1>. DEFINE m == Carries[a]
<1>1. UNCHANGED <<queued, marked, got, stage, pc, lock>> /\ a \in Adding /\ m \in Messages
  BY MediaGroupAssumption DEF AppendSet, AppendBlind, lockVars, Adding
<1>2. Sending' = Sending /\ Deleting' = Deleting /\ \A j \in Sending' : got'[j] = got[j]
  BY <1>1 DEF Sending, Deleting, Cleaning
<1>3. \A b \in Deliveries \ {a} : add'[b] = add[b]
  BY DEF AppendSet, AppendBlind, TypeOK
<1>4. Adding' \subseteq Adding
  BY <1>1, <1>3 DEF Adding
<1>5. CASE UNCHANGED buffer
  BY <1>1, <1>2, <1>4, <1>5, QuietOnce
<1>6. CASE ~UNCHANGED buffer
  <2>1. buffer'.msgs \subseteq buffer.msgs \cup {m}
    <3>1. CASE AppendSet(a)
      BY <1>6, <3>1 DEF AppendSet, WithMessage
    <3>2. CASE AppendBlind(a)
      BY <3>2 DEF AppendBlind, SetBuffer, WithMessage
    <3>. QED  BY <3>1, <3>2
  <2>2. a \notin Adding'
    <3>1. add[a] \in Call /\ \A n : AfterAppend(n) \in {"schedule", "full"}
      BY DEF TypeOK, AfterAppend
    <3>2. add'[a].at \in {"schedule", "full"}
      BY <1>6, <3>1 DEF AppendSet, AppendBlind, TypeOK, Call
    <3>. QED  BY <3>2 DEF Adding
  <2>3. OneAdds'
    BY <1>1, <1>4 DEF OneAdds
  <2>4. New \ {m} \subseteq New'
    BY <1>1, <1>2, <2>1 DEF New
  <2>5. AddsNew'
    <3>1. m \in marked /\ \A b \in Adding' : b \in Adding /\ Carries[b] # m
      BY <1>1, <1>4, <2>2 DEF OneAdds
    <3>. QED  BY <1>1, <2>4, <3>1 DEF AddsNew
  <2>6. QueuedOnce'
    <3>1. queued[m] = 0
      BY <1>1 DEF AddsNew, New
    <3>. QED  BY <1>1, <1>2, <2>1, <3>1 DEF QueuedOnce
  <2>. QED  BY <2>3, <2>5, <2>6
<1>. QED  BY <1>5, <1>6

LEMMA StartOnce ==
  ASSUME TypeOK, OneAdds, AddsNew, QueuedOnce, NEW j \in Jobs,
         \/ \E a \in Deliveries : FullBatch(a, j)
         \/ FlushTimerFires(j) \/ RetryTimerFires(j) \/ HandleFlushEvent(j)
         \/ FlushStale(j)
  PROVE  OneAdds' /\ AddsNew' /\ QueuedOnce'
<1>1. UNCHANGED <<buffer, queued, marked, got, stage>> /\ Start(j)
  BY DEF FullBatch, FlushTimerFires, RetryTimerFires, HandleFlushEvent, FlushStale, groupVars
<1>2. Adding' \subseteq Adding
  <2>1. CASE UNCHANGED add
    BY <2>1 DEF Adding
  <2>2. ASSUME NEW a \in Deliveries, AddAt(a, "done")  PROVE Adding' \subseteq Adding
    BY <2>2 DEF AddAt, Adding, TypeOK, Call
  <2>. QED  BY <2>1, <2>2
            DEF FullBatch, FlushTimerFires, RetryTimerFires, HandleFlushEvent, FlushStale,
                groupVars
<1>3. Sending' \subseteq Sending /\ (Deleting => Deleting')
  BY <1>1 DEF Start, Goto, Sending, Deleting, Cleaning, TypeOK
<1>4. \A k \in Sending' : got'[k] = got[k]
  BY <1>1
<1>. QED  BY <1>1, <1>2, <1>3, <1>4, QuietOnce

LEMMA LockOnce ==
  ASSUME TypeOK, AtRest, HoldsLock, OneAdds, AddsNew, QueuedOnce, NEW j \in Jobs,
         Acquire(j) \/ Release(j) \/ CheckLock(j) \/ CleanTimers(j)
  PROVE  OneAdds' /\ AddsNew' /\ QueuedOnce'
<1>. USE MediaGroupAssumption
<1>1. UNCHANGED <<buffer, queued, marked, add>>
  BY DEF Acquire, Release, CheckLock, CleanTimers, groupVars
<1>2. Adding' = Adding
  BY <1>1 DEF Adding
<1>3. /\ Sending' \subseteq Sending /\ (Deleting => Deleting')
      /\ \A k \in Sending' : got'[k] = got[k]
  <2>1. CASE Acquire(j)
    BY <2>1 DEF Acquire, Goto, Sending, Deleting, Cleaning, TypeOK, AtRest, groupVars
  <2>2. CASE Release(j)
    <3>1. lock = j /\ ~Deleting
      BY <2>2 DEF Release, HoldsLock, Deleting, Cleaning
    <3>. QED  BY <2>2, <3>1 DEF Release, Goto, Sending, TypeOK, groupVars
  <2>3. CASE CheckLock(j) \/ CleanTimers(j)
    <3>1. ~Deleting
      BY <2>3 DEF CheckLock, CleanTimers, HoldsLock, Deleting, Cleaning
    <3>2. CASE StageIs(j, "read") /\ UNCHANGED <<lockVars, flushTimer, got>>
      BY <3>1, <3>2 DEF StageIs, Sending, TypeOK, lockVars
    <3>3. CASE ToRelease(j)
      BY <3>1, <3>3 DEF ToRelease, StageIs, Goto, Sending, TypeOK
    <3>. QED  BY <2>3, <3>2, <3>3 DEF CheckLock, CleanTimers
  <2>. QED  BY <2>1, <2>2, <2>3
<1>. QED  BY <1>1, <1>2, <1>3, QuietOnce

\* A flush that works keeps others from deleting.
LEMMA NobodyDeletes ==
  ASSUME HoldsLock, NEW j \in Jobs, pc[j] = "held"
  PROVE  Deleting => stage[j] = "clean"
BY DEF HoldsLock, Deleting, Cleaning

LEMMA GetBufferOnce ==
  ASSUME TypeOK, HoldsLock, OneAdds, AddsNew, QueuedOnce, NEW j \in Jobs, GetBuffer(j), ~doubt'
  PROVE  OneAdds' /\ AddsNew' /\ QueuedOnce'
<1>1. UNCHANGED <<buffer, queued, marked, add, pc, lock>>
  BY DEF GetBuffer, lockVars
<1>2. Adding' = Adding
  BY <1>1 DEF Adding
<1>3. got' = [got EXCEPT ![j] = buffer]
  BY DEF GetBuffer
<1>4. ~Deleting
  BY NobodyDeletes DEF GetBuffer
<1>5. \A m \in buffer.msgs : m \in Messages /\ queued[m] = 0
  BY <1>4 DEF QueuedOnce, TypeOK, Buffer
<1>6. \A k \in Sending' : k = j \/ k \in Sending
  BY <1>1 DEF GetBuffer, StageIs, Sending, TypeOK
<1>7. \A k \in Sending' : got'[k] = buffer \/ (k \in Sending /\ got'[k] = got[k])
  BY <1>3, <1>6 DEF TypeOK, Sending
<1>8. New \subseteq New'
  BY <1>1, <1>7 DEF New
<1>9. OneAdds' /\ AddsNew'
  BY <1>1, <1>2, <1>8 DEF OneAdds, AddsNew
<1>10. QueuedOnce'
  BY <1>1, <1>4, <1>5, <1>7 DEF QueuedOnce
<1>. QED  BY <1>9, <1>10

LEMMA SendOnce ==
  ASSUME TypeOK, HoldsLock, OneAdds, AddsNew, QueuedOnce, NEW j \in Jobs,
         Send(j) \/ SendFails(j), ~doubt'
  PROVE  OneAdds' /\ AddsNew' /\ QueuedOnce'
<1>1. UNCHANGED <<buffer, marked, got, add, pc, lock>> /\ j \in Sending
  BY DEF Send, SendFails, lockVars, Sending
<1>2. Adding' = Adding
  BY <1>1 DEF Adding
<1>3. lock = j /\ ~Deleting
  BY <1>1, NobodyDeletes DEF HoldsLock, Sending
<1>4. Sending' = {}
  BY <1>1, <1>3 DEF HoldsLock, Send, SendFails, StageIs, Sending, TypeOK
<1>5. PICK sent \in SUBSET got[j].msgs : Queued(sent) /\ (SendFails(j) => sent = {})
  BY DEF Send, SendFails
<1>6. \A m \in Messages : m \notin got[j].msgs => queued'[m] = queued[m]
  BY <1>5 DEF Queued
<1>7. \A m \in Messages : m \in got[j].msgs => queued'[m] <= 1
  BY <1>1, <1>5 DEF Queued, QueuedOnce, TypeOK
<1>8. New \subseteq New'
  BY <1>1, <1>4, <1>6 DEF New
<1>9. OneAdds' /\ AddsNew'
  BY <1>1, <1>2, <1>8 DEF OneAdds, AddsNew
<1>10. \A m \in buffer.msgs : queued'[m] > 0 => Deleting'
  <2>1. CASE Send(j)
    BY <1>1, <1>3, <2>1 DEF Send, StageIs, Deleting, Cleaning, Sending, TypeOK
  <2>2. CASE SendFails(j)
    <3>1. \A m \in Messages : queued'[m] = queued[m]
      BY <1>5, <2>2 DEF Queued
    <3>. QED  BY <1>3, <3>1 DEF QueuedOnce, TypeOK, Buffer
  <2>. QED  BY <2>1, <2>2
<1>11. QueuedOnce'
  BY <1>1, <1>4, <1>6, <1>7, <1>10 DEF QueuedOnce
<1>. QED  BY <1>9, <1>11

LEMMA FailureReadOnce ==
  ASSUME TypeOK, HoldsLock, OneAdds, AddsNew, QueuedOnce, NEW j \in Jobs, FailureRead(j)
  PROVE  OneAdds' /\ AddsNew' /\ QueuedOnce'
<1>1. UNCHANGED <<buffer, queued, marked, add>>
  BY DEF FailureRead
<1>2. Adding' = Adding
  BY <1>1 DEF Adding
<1>3. ~Deleting
  BY NobodyDeletes DEF FailureRead
<1>4. Sending' \subseteq Sending /\ \A k \in Sending' : got'[k] = got[k]
  <2>1. CASE ToRelease(j)
    BY <2>1 DEF ToRelease, StageIs, Goto, Sending, TypeOK
  <2>2. ASSUME NEW data, got' = [got EXCEPT ![j] = data], StageIs(j, "rewrite"),
               UNCHANGED <<lockVars, flushTimer>>
        PROVE  Sending' \subseteq Sending /\ \A k \in Sending' : got'[k] = got[k]
    BY <2>2 DEF StageIs, Sending, TypeOK, lockVars
  <2>. QED  BY <2>1, <2>2 DEF FailureRead
<1>. QED  BY <1>1, <1>2, <1>3, <1>4, QuietOnce

LEMMA FailureWriteOnce ==
  ASSUME TypeOK, HoldsLock, OneAdds, AddsNew, QueuedOnce, NEW j \in Jobs, FailureWrite(j),
         ~doubt'
  PROVE  OneAdds' /\ AddsNew' /\ QueuedOnce'
<1>1. UNCHANGED <<queued, marked, add>>
  BY DEF FailureWrite
<1>2. Adding' = Adding
  BY <1>1 DEF Adding
<1>3. ~Deleting
  BY NobodyDeletes DEF FailureWrite
<1>4. Sending' \subseteq Sending /\ \A k \in Sending' : got'[k] = got[k]
  <2>1. CASE ToRelease(j)
    BY <2>1 DEF ToRelease, StageIs, Goto, Sending, TypeOK
  <2>2. CASE StageIs(j, "clean") /\ UNCHANGED <<lockVars, retryTimer, flushTimer, got>>
    BY <2>2 DEF StageIs, Sending, TypeOK, lockVars
  <2>. QED  BY <2>1, <2>2 DEF FailureWrite
<1>5. buffer'.msgs \subseteq buffer.msgs
  BY DEF FailureWrite, SetBuffer, TypeOK, Buffer
<1>6. New \subseteq New'
  BY <1>1, <1>4, <1>5 DEF New
<1>7. OneAdds' /\ AddsNew'
  BY <1>1, <1>2, <1>6 DEF OneAdds, AddsNew
<1>8. QueuedOnce'
  BY <1>1, <1>3, <1>4, <1>5 DEF QueuedOnce
<1>. QED  BY <1>7, <1>8

LEMMA CleanBufferOnce ==
  ASSUME TypeOK, OneAdds, AddsNew, QueuedOnce, NEW j \in Jobs, CleanBuffer(j)
  PROVE  OneAdds' /\ AddsNew' /\ QueuedOnce'
<1>1. UNCHANGED <<queued, marked, add, got, pc>> /\ buffer'.msgs = {}
  BY DEF CleanBuffer, Cleaned, NoBuffer, lockVars
<1>2. Adding' = Adding
  BY <1>1 DEF Adding
<1>3. Sending' \subseteq Sending
  BY <1>1 DEF CleanBuffer, StageIs, Sending, TypeOK
<1>4. New \subseteq New'
  BY <1>1, <1>3 DEF New
<1>5. OneAdds' /\ AddsNew'
  BY <1>1, <1>2, <1>4 DEF OneAdds, AddsNew
<1>6. QueuedOnce'
  BY <1>1, <1>3 DEF QueuedOnce
<1>. QED  BY <1>5, <1>6

LEMMA OtherOnce ==
  ASSUME TypeOK, OneAdds, AddsNew, QueuedOnce,
         (\E i \in Instances : Restart(i)) \/ TimerPasses \/ BufferExpires
         \/ UNCHANGED vars
  PROVE  OneAdds' /\ AddsNew' /\ QueuedOnce'
<1>1. ASSUME NEW i \in Instances, Restart(i)  PROVE OneAdds' /\ AddsNew' /\ QueuedOnce'
  <2>1. UNCHANGED <<buffer, queued, marked, lock>>
    BY <1>1 DEF Restart
  <2>2. Adding' \subseteq Adding
    <3>1. ASSUME NEW b \in Deliveries
          PROVE  add'[b] = add[b] \/ add'[b].at = "done"
      <4>1. add[b] \in Call
        BY DEF TypeOK
      <4>. QED  BY <1>1, <4>1 DEF Restart, Call
    <3>. QED  BY <3>1 DEF Adding
  <2>3. Sending' \subseteq Sending /\ \A k \in Sending' : got'[k] = got[k]
    BY <1>1 DEF Restart, Sending, TypeOK
  <2>4. Deleting => Deleting'
    BY <1>1 DEF Restart, Deleting, Cleaning, TypeOK
  <2>. QED  BY <2>1, <2>2, <2>3, <2>4, QuietOnce
<1>2. CASE TimerPasses \/ UNCHANGED vars
  <2>1. UNCHANGED <<buffer, queued, marked, lock, add, got, stage, pc>>
    BY <1>2 DEF TimerPasses, vars, lockVars, groupVars
  <2>2. Adding' = Adding /\ Sending' = Sending /\ Deleting' = Deleting
    BY <2>1 DEF Adding, Sending, Deleting, Cleaning
  <2>. QED  BY <2>1, <2>2, QuietOnce
<1>3. CASE BufferExpires
  <2>1. UNCHANGED <<queued, marked, lock, add, got, stage, pc>> /\ buffer'.msgs = {}
    BY <1>3 DEF BufferExpires, NoBuffer, lockVars
  <2>2. Adding' = Adding /\ Sending' = Sending
    BY <2>1 DEF Adding, Sending
  <2>3. New \subseteq New'
    BY <2>1, <2>2 DEF New
  <2>4. OneAdds' /\ AddsNew'
    BY <2>1, <2>2, <2>3 DEF OneAdds, AddsNew
  <2>5. QueuedOnce'
    BY <2>1, <2>2 DEF QueuedOnce
  <2>. QED  BY <2>4, <2>5
<1>. QED  BY <1>1, <1>2, <1>3

LEMMA OnceStep ==
  ASSUME TypeOK, AtRest, HoldsLock, OneAdds, AddsNew, QueuedOnce, [Next]_vars, ~LockExpires,
         ~doubt'
  PROVE  OneAdds' /\ AddsNew' /\ QueuedOnce'
<1>1. ASSUME NEW j \in Jobs  PROVE ~Restore(j)
  BY DEF Restore
<1>. QED
  BY <1>1, AddOnce, MarkOnce, AppendOnce, StartOnce, LockOnce, GetBufferOnce, SendOnce,
     FailureReadOnce, FailureWriteOnce, CleanBufferOnce, OtherOnce
     DEF Next

LEMMA DoubtStays ==
  ASSUME TypeOK, [Next]_vars, ~doubt'  PROVE ~doubt
<1>1. ASSUME NEW a \in Deliveries,
             \/ Deliver(a) \/ Mark(a) \/ AppendRead(a) \/ AppendSet(a) \/ AppendBlind(a)
             \/ Schedule(a) \/ \E j \in Jobs : FullBatch(a, j)
      PROVE  doubt => doubt'
  BY <1>1 DEF Deliver, Mark, AppendRead, AppendSet, AppendBlind, Schedule, FullBatch
<1>2. ASSUME NEW j \in Jobs,
             \/ FlushTimerFires(j) \/ RetryTimerFires(j) \/ HandleFlushEvent(j)
             \/ FlushStale(j) \/ Restore(j) \/ Acquire(j) \/ Release(j)
      PROVE  doubt => doubt'
  BY <1>2 DEF FlushTimerFires, RetryTimerFires, HandleFlushEvent, FlushStale, Restore, Acquire,
              Release, groupVars
<1>3. ASSUME NEW j \in Jobs,
             \/ CheckLock(j) \/ GetBuffer(j) \/ Send(j) \/ SendFails(j) \/ FailureRead(j)
             \/ FailureWrite(j) \/ CleanBuffer(j) \/ CleanTimers(j)
      PROVE  doubt => doubt'
  BY <1>3 DEF CheckLock, GetBuffer, Send, SendFails, FailureRead, FailureWrite, CleanBuffer,
              CleanTimers
<1>4. ASSUME NEW i \in Instances, Restart(i)  PROVE doubt => doubt'
  BY <1>4 DEF Restart
<1>5. CASE TimerPasses \/ LockExpires \/ BufferExpires \/ UNCHANGED vars
  BY <1>5 DEF TimerPasses, LockExpires, BufferExpires, vars, groupVars
<1>. QED  BY <1>1, <1>2, <1>3, <1>4, <1>5 DEF Next

-----------------------------------------------------------------------------
LEMMA InitIInv == Init => IInv
<1>. SUFFICES ASSUME Init PROVE IInv
  OBVIOUS
<1>. USE MediaGroupAssumption
<1>1. TypeOK
  <2>1. add \in [Deliveries -> Call]
    BY NoBufferTyped DEF Init, Call
  <2>2. /\ bufL1 \in [Instances -> Buffer] /\ got \in [Jobs -> Buffer] /\ buffer \in Buffer
    BY NoBufferTyped DEF Init
  <2>3. /\ stage \in [Jobs -> Stages] /\ queued \in [Messages -> Nat]
        /\ pc \in [Jobs -> {"idle", "acquire", "held", "release", "done"}]
    BY DEF Init, Stages
  <2>4. /\ saved \in [Instances -> SUBSET Messages]
        /\ flushTimer \in [Instances -> BOOLEAN] /\ retryTimer \in [Instances -> BOOLEAN]
    BY DEF Init
  <2>5. events \in 0..MaxEvents /\ incidents \in 0..MaxIncidents
    BY DEF Init
  <2>. QED  BY <2>1, <2>2, <2>3, <2>4, <2>5 DEF Init, TypeOK
<1>2. TriesLeft /\ AtRest
  BY DEF Init, TriesLeft, AtRest
<1>3. Sending = {} /\ Cleaning = {} /\ Adding = {}
  BY DEF Init, Sending, Cleaning, Adding
<1>4. NothingForgotten /\ DeletesAccounted
  BY <1>3 DEF Init, NothingForgotten, DeletesAccounted, NoBuffer
<1>5. HoldsLock
  BY DEF Init, HoldsLock
<1>6. OneAdds /\ AddsNew /\ QueuedOnce
  BY <1>3 DEF Init, OneAdds, AddsNew, New, QueuedOnce, NoBuffer
<1>. QED  BY <1>1, <1>2, <1>4, <1>5, <1>6 DEF IInv

LEMMA NextIInv == IInv /\ [Next]_vars => IInv'
<1>. SUFFICES ASSUME IInv, [Next]_vars PROVE IInv'
  OBVIOUS
<1>1. TypeOK' /\ TriesLeft' /\ AtRest'
  BY TypeStep DEF IInv
<1>2. NothingForgotten' /\ DeletesAccounted'
  BY KeptStep DEF IInv
<1>3. expired' = {} => expired = {} /\ ~LockExpires
  BY ExpiredStays DEF IInv
<1>4. expired' = {} => HoldsLock'
  BY <1>3, LockStep DEF IInv
<1>5. Calm' => OneAdds' /\ AddsNew' /\ QueuedOnce'
  BY <1>3, DoubtStays, OnceStep DEF IInv, Calm
<1>. QED  BY <1>1, <1>2, <1>4, <1>5 DEF IInv

\* No file of an album is lost or sent twice without the race or the failure that it
\* takes: the types, LossNeedsRace and DoubledNeedsCause.
THEOREM GroupsAreKept == Spec => []GroupsKept
<1>1. IInv => GroupsKept
  <2>. SUFFICES ASSUME IInv PROVE GroupsKept
    OBVIOUS
  <2>1. LossNeedsRace
    BY DEF IInv, NothingForgotten, Kept, Accounted, LossNeedsRace
  <2>2. DoubledNeedsCause
    BY DEF IInv, TypeOK, Calm, QueuedOnce, DoubledNeedsCause
  <2>. QED  BY <2>1, <2>2 DEF IInv, GroupsKept
<1>. QED  BY <1>1, InitIInv, NextIInv, PTL DEF Spec

=============================================================================
