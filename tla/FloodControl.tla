---------------------------- MODULE FloodControl ----------------------------
(***************************************************************************)
(* The calls of one process to Telegram under src/utils/limiter.js:        *)
(* handle429Error around an auto-scaling limiter.  Before every attempt a  *)
(* call looks at the cooling time, which it may wait out; an answer 429    *)
(* sets it when the wait is long, and other processes set it through the   *)
(* cache.  Times are what is left of them, a tick is 30 seconds.           *)
(***************************************************************************)
EXTENDS Integers, FiniteSets, FiniteSetsExt

CONSTANTS
  Tasks,
  First, Low, High,    \* concurrency: at first, and the limits min and max
  MaxRetries,
  ShortWaits,          \* waits of up to 60 seconds, in ticks
  LongWaits,           \* longer ones
  MaxFloods            \* bound on the answers 429, lost connections and other errors
                       \* (model checking only)

VARIABLES
  phase,         \* of each task
  retries,       \* retryCount of each task
  pause,         \* what is left of its sleep
  concurrency,   \* of the limiter
  outcomes,      \* successCount > 0? errorCount > 0?
  settled,       \* is the interval since the last adjustment over?
  cooling,       \* globalCoolingUntil
  remote,        \* system:cooling_until in the cache
  recheck,       \* is the last look at the cache more than 30 seconds ago?
  told,          \* history: the longest wait this process was told of
  shortened,     \* history: a shorter wait replaced a longer one
  floods

floodVars == <<phase, retries, pause, concurrency, outcomes, settled, cooling,
               remote, recheck, told, shortened, floods>>

-----------------------------------------------------------------------------
Waits == ShortWaits \cup LongWaits

Phases == {"idle", "checking", "cooling", "queued", "running", "backoff"}

FloodTypeOK ==
  /\ phase \in [Tasks -> Phases]
  /\ retries \in [Tasks -> 0..MaxRetries]
  /\ pause \in [Tasks -> 0..Max(Waits)]
  /\ concurrency \in 1..High
  /\ outcomes \subseteq {"success", "error"} /\ settled \in BOOLEAN
  /\ cooling \in 0..Max(Waits) /\ remote \in 0..Max(Waits) /\ recheck \in BOOLEAN
  /\ told \in 0..Max(Waits) /\ shortened \in BOOLEAN /\ floods \in 0..MaxFloods

FloodInit ==
  /\ phase = [t \in Tasks |-> "idle"]
  /\ retries = [t \in Tasks |-> 0] /\ pause = [t \in Tasks |-> 0]
  /\ concurrency = First /\ outcomes = {} /\ settled = FALSE
  /\ cooling = 0 /\ remote = 0 /\ recheck = TRUE
  /\ told = 0 /\ shortened = FALSE /\ floods = 0

scaling == <<concurrency, outcomes, settled>>

waits == <<cooling, remote, recheck, told, shortened>>

Goes(t, where) == phase' = [phase EXCEPT ![t] = where]

Request(t) ==
  /\ phase[t] = "idle"
  /\ Goes(t, "checking")
  /\ retries' = [retries EXCEPT ![t] = 0]
  /\ UNCHANGED <<pause, scaling, waits, floods>>

Later(a, b) == IF a > b THEN a ELSE b

\* What the look at the cache makes of the cooling time: it is skipped while the own
\* time lasts, and for 30 seconds after the last one.
Checked == IF cooling = 0 /\ recheck THEN Later(cooling, remote) ELSE cooling

\* checkCooling: the call sleeps once, or goes on to the limiter.
CheckCooling(t) ==
  /\ phase[t] = "checking"
  /\ cooling' = Checked
  /\ recheck' = (recheck /\ cooling > 0)
  /\ told' = Later(told, Checked)
  /\ IF Checked > 0
     THEN Goes(t, "cooling") /\ pause' = [pause EXCEPT ![t] = Checked]
     ELSE Goes(t, "queued") /\ UNCHANGED pause
  /\ UNCHANGED <<retries, scaling, remote, shortened, floods>>

\* The cache fails: the look is tried again by the next call.
CheckFails(t) ==
  /\ phase[t] = "checking" /\ cooling = 0 /\ recheck
  /\ Goes(t, "queued")
  /\ UNCHANGED <<retries, pause, scaling, waits, floods>>

\* After its sleep the call does not look again.
Cooled(t) ==
  /\ phase[t] = "cooling" /\ pause[t] = 0
  /\ Goes(t, "queued")
  /\ UNCHANGED <<retries, pause, scaling, waits, floods>>

Running == {t \in Tasks : phase[t] = "running"}

\* The limiter's queue
Run(t) ==
  /\ phase[t] = "queued" /\ Cardinality(Running) < concurrency
  /\ Goes(t, "running")
  /\ UNCHANGED <<retries, pause, scaling, waits, floods>>

Lower(a, b) == IF a < b THEN a ELSE b

\* A factor of 0.8: down to 8 tenths, but not below min (which may raise it);
\* up to 12 tenths, rounded down, which keeps anything below 5 where it is.
ScaledDown(c) == Later(Low, (c * 8) \div 10)

ScaledUp(c) == Lower(High, (c * 12) \div 10)

\* adjustConcurrency, in the finally of a run: after an interval the success rate
\* decides, which is anything between 0 and 1 when both outcomes have occurred.
Adjust(outcome) ==
  LET seen == outcomes \cup {outcome} IN
  IF ~settled THEN outcomes' = seen /\ UNCHANGED <<concurrency, settled>>
  ELSE /\ settled' = FALSE /\ outcomes' = {}
       /\ \/ "success" \in seen /\ concurrency' = ScaledUp(concurrency)
          \/ "error" \in seen /\ concurrency' = ScaledDown(concurrency)
          \/ seen = {"success", "error"} /\ UNCHANGED concurrency

Succeed(t) ==
  /\ phase[t] = "running"
  /\ Adjust("success")
  /\ Goes(t, "idle")
  /\ UNCHANGED <<retries, pause, waits, floods>>

\* One attempt more, or the last one: the task ends with an error after its sleep.
Backoff(t, wait) ==
  /\ floods < MaxFloods /\ floods' = floods + 1
  /\ Adjust("error")
  /\ Goes(t, "backoff")
  /\ pause' = [pause EXCEPT ![t] = wait]

\* The own time is set before the sleep, over a longer one that may be there.
NotesWait(wait) == cooling' = wait

\* An answer 429; a long wait is stored, here and (if the cache works) for others.
Flood(t, wait) ==
  /\ phase[t] = "running"
  /\ Backoff(t, wait)
  /\ IF wait \in LongWaits
     THEN /\ NotesWait(wait)
          /\ remote' \in {remote, wait}
          /\ told' = Later(told, wait)
          /\ shortened' = (shortened \/ wait < cooling)
     ELSE UNCHANGED <<cooling, remote, told, shortened>>
  /\ UNCHANGED <<retries, recheck>>

Disconnected(t) ==
  /\ phase[t] = "running"
  /\ Backoff(t, 1)
  /\ UNCHANGED <<retries, waits>>

OtherError(t) ==
  /\ phase[t] = "running"
  /\ floods < MaxFloods /\ floods' = floods + 1
  /\ Adjust("error")
  /\ Goes(t, "idle")
  /\ UNCHANGED <<retries, pause, waits>>

Retry(t) ==
  /\ phase[t] = "backoff" /\ pause[t] = 0
  /\ retries' = [retries EXCEPT ![t] = @ + 1]
  /\ Goes(t, IF retries[t] + 1 < MaxRetries THEN "checking" ELSE "idle")
  /\ UNCHANGED <<pause, scaling, waits, floods>>

\* Another process stores its long wait.
RemoteFlood(wait) ==
  /\ floods < MaxFloods /\ floods' = floods + 1
  /\ remote' = wait
  /\ UNCHANGED <<phase, retries, pause, scaling, cooling, recheck, told, shortened>>

Less(n) == IF n = 0 THEN 0 ELSE n - 1

Second30 ==
  /\ pause' = [t \in Tasks |-> Less(pause[t])]
  /\ cooling' = Less(cooling) /\ remote' = Less(remote) /\ told' = Less(told)
  /\ shortened' = (shortened /\ told > 1)
  /\ recheck' = TRUE /\ settled' = TRUE
  /\ UNCHANGED <<phase, retries, concurrency, outcomes, floods>>

FloodNext ==
  \/ \E t \in Tasks :
       \/ Request(t) \/ CheckCooling(t) \/ CheckFails(t) \/ Cooled(t) \/ Run(t)
       \/ Succeed(t) \/ Disconnected(t) \/ OtherError(t) \/ Retry(t)
       \/ \E wait \in Waits : Flood(t, wait)
  \/ \E wait \in LongWaits : RemoteFlood(wait)
  \/ Second30

-----------------------------------------------------------------------------
\* A call that looks at the cooling time goes on only when the longest wait that its
\* process was told of is over, unless a shorter wait, told later, has replaced it.
\* (A call that has slept or queued meanwhile does not look again.)
CoolingHonoured ==
  [][\A t \in Tasks :
       (phase[t] = "checking" /\ phase'[t] = "queued") => told = 0 \/ shortened]_floodVars

\* A call ends, however the limiter has been scaled while it was waiting.
CallsEnd == \A t \in Tasks : phase[t] = "queued" ~> phase[t] = "idle"

\* The cooling time is kept, and every call gets out of it.
FloodHolds == []FloodTypeOK /\ CoolingHonoured /\ CallsEnd

=============================================================================
