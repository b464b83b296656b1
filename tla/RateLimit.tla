----------------------------- MODULE RateLimit -----------------------------
(***************************************************************************)
(* RateLimiter of src/utils/RateLimiter.js, which the queue publishes      *)
(* through: a bucket of tokens that is filled again when a window is over, *)
(* and a queue of waiting requests that a timer or a microtask drains.     *)
(* Time is counted from the last refill, so that it needs no bound.        *)
(***************************************************************************)
EXTENDS Integers, Sequences, SequencesExt

CONSTANTS
  Requests,      \* callers of execute, each with one request at a time
  Window,        \* windowMs in ticks of the clock
  MinLimit, MaxLimit, StartLimit  \* of maxRequests

VARIABLES
  limit,         \* maxRequests
  tokens,
  age,           \* time since lastRefill; from 2 * Window on, modulo Window
  waiting,       \* queue: the requests that wait, in order
  running,       \* the requests whose function runs
  timer,         \* what is left of the drain timer's time, NoTimer if there is none
  drains         \* microtasks that will drain the queue

rateVars == <<limit, tokens, age, waiting, running, timer, drains>>

-----------------------------------------------------------------------------
NoTimer == -1

Limits == MinLimit..MaxLimit

RateTypeOK ==
  /\ limit \in Limits /\ tokens \in 0..MaxLimit
  /\ age \in 0..(2 * Window - 1)
  /\ ToSet(waiting) \subseteq Requests /\ IsInjective(waiting)
  /\ running \subseteq Requests /\ ToSet(waiting) \cap running = {}
  /\ timer \in {NoTimer} \cup 0..Window
  /\ drains \in Nat

RateInit ==
  /\ limit = StartLimit /\ tokens = StartLimit /\ age = 0
  /\ waiting = <<>> /\ running = {} /\ timer = NoTimer /\ drains = 0

Free(r) == r \notin running /\ ~Contains(waiting, r)

\* _refillTokens: the tokens and the age that it leaves
Refilled == IF age < Window THEN tokens ELSE limit

RefilledAge == age % Window

\* _scheduleDrain with a queue, a number of tokens and an age: a timer that runs is
\* enough, tokens are used in a microtask, else a timer waits for the next window.
Schedule(queue, left, since) ==
  IF timer # NoTimer \/ queue = <<>> THEN UNCHANGED <<timer, drains>>
  ELSE IF left > 0 THEN drains' = drains + 1 /\ UNCHANGED timer
  ELSE timer' = Window - since /\ UNCHANGED drains

MayPass == Refilled > 0 /\ waiting = <<>>

\* acquire
AcquireNow(r) ==
  /\ Free(r) /\ MayPass
  /\ tokens' = Refilled - 1 /\ age' = RefilledAge
  /\ running' = running \cup {r}
  /\ UNCHANGED <<limit, waiting, timer, drains>>

AcquireLater(r) ==
  /\ Free(r) /\ ~MayPass
  /\ tokens' = Refilled /\ age' = RefilledAge
  /\ waiting' = Append(waiting, r)
  /\ Schedule(waiting', tokens', age')
  /\ UNCHANGED <<limit, running>>

\* execute after its function, with the adjustment of an adaptive limiter: the
\* success rate and the latency are abstracted to a choice.  It takes no tokens away.
Finish(r) ==
  /\ r \in running
  /\ running' = running \ {r}
  /\ limit' \in {limit, IF limit < MaxLimit THEN limit + 1 ELSE limit,
                 IF limit > MinLimit THEN limit - 1 ELSE limit}
  /\ UNCHANGED <<tokens, age, waiting, timer, drains>>

\* The timer for what is left of the window
NextWindow == Window - RefilledAge

\* _drainQueue: as many as there are tokens, then again if some still wait.
Drain(pendingTimer, pendingDrains) ==
  LET granted == IF Refilled < Len(waiting) THEN Refilled ELSE Len(waiting)
      left == SubSeq(waiting, granted + 1, Len(waiting))
  IN /\ tokens' = Refilled - granted /\ age' = RefilledAge
     /\ running' = running \cup {waiting[i] : i \in 1..granted}
     /\ waiting' = left
     /\ timer' = IF left = <<>> \/ pendingTimer # NoTimer THEN pendingTimer ELSE NextWindow
     /\ drains' = pendingDrains
     /\ UNCHANGED limit

DrainMicrotask == drains > 0 /\ Drain(timer, drains - 1)

TimerFires == timer = 0 /\ Drain(NoTimer, drains)

\* updateConfig refills at once, but leaves a timer that runs as it is.
UpdateConfig(max) ==
  /\ drains = 0  \* a macrotask of its own: the microtasks before it have run
  /\ limit' = max /\ tokens' = max /\ age' = 0
  /\ Schedule(waiting, max, 0)
  /\ UNCHANGED <<waiting, running>>

Tick ==
  /\ age' = IF age = 2 * Window - 1 THEN Window ELSE age + 1
  /\ timer' = IF timer > 0 THEN timer - 1 ELSE timer
  /\ UNCHANGED <<limit, tokens, waiting, running, drains>>

RateNext ==
  \/ \E r \in Requests : AcquireNow(r) \/ AcquireLater(r) \/ Finish(r)
  \/ DrainMicrotask \/ TimerFires \/ Tick
  \/ \E max \in Limits : UpdateConfig(max)

-----------------------------------------------------------------------------
\* No request gets a token while one that came before it still waits, whether the
\* token is taken at once, by a microtask, by the timer or after a new configuration.
InTurn ==
  [][\A r \in running' \ running, q \in ToSet(waiting) :
       (Free(r) \/ IndexFirstSubSeq(<<q>>, waiting) < IndexFirstSubSeq(<<r>>, waiting))
         => q \in running']_rateVars

\* Every request that waits gets its token: whatever resets the window, a timer or a
\* microtask is there that will drain the queue.
Served == \A r \in Requests : Contains(waiting, r) ~> ~Contains(waiting, r)

\* Every request that waits is served, in its turn.
RateHolds == []RateTypeOK /\ InTurn /\ Served

=============================================================================
