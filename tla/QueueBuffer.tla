----------------------------- MODULE QueueBuffer -----------------------------
(***************************************************************************)
(* The batch buffer of one QstashQueue: publishes that are not direct are  *)
(* collected and sent together, when there are batchSize of them or after  *)
(* batchTimeout.  Collecting and flushing exclude each other through       *)
(* bufferMutex, which serves its callers in the order they come.           *)
(***************************************************************************)
EXTENDS Integers, Sequences, FiniteSets, SequencesExt

CONSTANTS
  Callers,     \* publishes that can overlap
  Direct,      \* those that are forceDirect or best effort
  batchSize,
  maxBufferSize,
  MaxFaults    \* bound on failed publishes and on calls of clearBuffer and flush

VARIABLES
  call,        \* the state of each publish
  lock,        \* the holder of bufferMutex, then those who wait for it
  buffer,
  flushTimer,  \* none, set, or fired: the handle stays until a flush begins
  flush,       \* _flushInProgress and what it has to send
  microtasks,  \* queued calls of _flushBuffer
  deadLetters,
  faults

vars == <<call, lock, buffer, flushTimer, flush, microtasks, deadLetters, faults>>

\* The flush takes its turn at the mutex like a caller.
Flusher == "flusher"

NoFlush == [at |-> "none", batch |-> <<>>]

Init ==
  /\ call = [c \in Callers |-> "new"]
  /\ lock = <<>>
  /\ buffer = <<>>
  /\ flushTimer = "none"
  /\ flush = NoFlush
  /\ microtasks = 0
  /\ deadLetters = {}
  /\ faults = 0

Holds(x) == lock # <<>> /\ Head(lock) = x

Fault == faults < MaxFaults /\ faults' = faults + 1

\* The promise of publish c settles: the caller goes on, and so does the function
\* that runExclusive awaits, which gives the mutex back.
Settle(settled, result) ==
  /\ call' = [c \in Callers |-> IF c \in settled THEN result ELSE call[c]]
  /\ lock' = SelectSeq(lock, LAMBDA x : x \notin settled)

\* _publish: directly, or through the buffer
Publish(c) ==
  /\ call[c] = "new"
  /\ IF c \in Direct \/ batchSize <= 1
       THEN call' = [call EXCEPT ![c] = "sending"] /\ UNCHANGED lock
       ELSE call' = [call EXCEPT ![c] = "entering"] /\ lock' = Append(lock, c)
  /\ UNCHANGED <<buffer, flushTimer, flush, microtasks, deadLetters, faults>>

\* The direct publish ends.
Sent(c) ==
  /\ call[c] = "sending"
  /\ \/ Settle({c}, "ok") /\ UNCHANGED faults
     \/ Fault /\ Settle({c}, "failed")
  /\ UNCHANGED <<buffer, flushTimer, flush, microtasks, deadLetters>>

\* The 10 % that an overflow drops, at least one
Overflow == IF maxBufferSize \div 10 > 1 THEN maxBufferSize \div 10 ELSE 1

\* _addToBuffer in the mutex.  It returns the promise of the flush, so that the
\* mutex stays taken until that promise settles.
Collect(c) ==
  LET dropped == IF Len(buffer) >= maxBufferSize THEN SubSeq(buffer, 1, Overflow) ELSE <<>>
      kept    == SubSeq(buffer, Len(dropped) + 1, Len(buffer))
  IN
  /\ call[c] = "entering" /\ Holds(c)
  /\ buffer' = Append(kept, c)
  /\ deadLetters' = deadLetters \cup ToSet(dropped)
  /\ call' = [d \in Callers |->
       IF d = c THEN "buffered" ELSE IF d \in ToSet(dropped) THEN "failed" ELSE call[d]]
  /\ microtasks' = IF Len(buffer') >= batchSize THEN microtasks + 1 ELSE microtasks
  /\ flushTimer' = IF flushTimer = "none" THEN "set" ELSE flushTimer
  /\ UNCHANGED <<lock, flush, faults>>

\* _flushBuffer: a second one shares the promise of the first.
StartFlush ==
  IF flush.at # "none" \/ buffer = <<>> THEN UNCHANGED <<flush, lock>>
  ELSE flush' = [NoFlush EXCEPT !.at = "entering"] /\ lock' = Append(lock, Flusher)

TimerFires ==
  /\ flushTimer = "set"
  /\ flushTimer' = "fired"
  /\ StartFlush
  /\ UNCHANGED <<call, buffer, microtasks, deadLetters, faults>>

MicrotaskRuns ==
  /\ microtasks > 0
  /\ microtasks' = microtasks - 1
  /\ StartFlush
  /\ UNCHANGED <<call, buffer, flushTimer, deadLetters, faults>>

\* flush, and the flush that close waits for
Flush ==
  /\ Fault
  /\ StartFlush
  /\ UNCHANGED <<call, buffer, flushTimer, microtasks, deadLetters>>

\* The flush has the mutex: it takes the whole buffer.
TakeBatch ==
  /\ flush.at = "entering" /\ Holds(Flusher)
  /\ flush' = [NoFlush EXCEPT !.at = "sending", !.batch = buffer]
  /\ buffer' = <<>>
  /\ flushTimer' = "none"
  /\ UNCHANGED <<call, lock, microtasks, deadLetters, faults>>

\* _batchPublishSequential, with any of them refused, and the answers
SendBatch ==
  /\ flush.at = "sending"
  /\ \E failed \in SUBSET ToSet(flush.batch) :
       /\ IF failed = {} THEN UNCHANGED faults ELSE Fault
       /\ deadLetters' = deadLetters \cup failed
       /\ call' = [c \in Callers |->
            IF c \in failed THEN "failed" ELSE IF c \in ToSet(flush.batch) THEN "ok" ELSE call[c]]
       /\ lock' = SelectSeq(lock, LAMBDA x : x \notin ToSet(flush.batch) \cup {Flusher})
  /\ flush' = NoFlush
  /\ UNCHANGED <<buffer, flushTimer, microtasks>>

\* clearBuffer: refused during a flush
ClearBuffer ==
  /\ flush.at = "none"
  /\ Fault
  /\ Settle(ToSet(buffer), "failed")
  /\ buffer' = <<>>
  /\ flushTimer' = "none"
  /\ UNCHANGED <<flush, microtasks, deadLetters>>

Next ==
  \/ \E c \in Callers : Publish(c) \/ Sent(c) \/ Collect(c)
  \/ TimerFires \/ MicrotaskRuns \/ Flush
  \/ TakeBatch \/ SendBatch
  \/ ClearBuffer

Fairness ==
  /\ \A c \in Callers : WF_vars(Sent(c)) /\ WF_vars(Collect(c))
  /\ WF_vars(TimerFires) /\ WF_vars(MicrotaskRuns)
  /\ WF_vars(TakeBatch) /\ WF_vars(SendBatch)

FairSpec == Init /\ [][Next]_vars /\ Fairness

\* A publish that is buffered comes to an end when batchTimeout is over and the
\* flush has sent it or put it among the dead letters: the timer, and the
\* microtask that is there "to avoid a deadlock".
BufferedPublishSettles ==
  \A c \in Callers : call[c] = "buffered" ~> call[c] \in {"ok", "failed"}

=============================================================================
