--------------------------- MODULE CircuitBreaker ---------------------------
(***************************************************************************)
(* One breaker of src/services/CircuitBreaker.js and the calls that are in *)
(* flight through it.  execute checks the state, awaits the command and    *)
(* counts the outcome later, in whatever state the breaker is by then.     *)
(***************************************************************************)
EXTENDS Integers

CONSTANTS
  Executions,        \* executions that can be in flight at the same time
  FailureThreshold,
  SuccessThreshold,
  MaxSetbacks        \* bound on failing commands and forceOpen calls together

ASSUME CircuitBreakerAssumption ==
  /\ FailureThreshold \in Nat \ {0}
  /\ SuccessThreshold \in Nat \ {0}
  /\ MaxSetbacks \in Nat

VARIABLES
  breaker,       \* CLOSED, OPEN or HALF_OPEN
  failureCount,
  successCount,
  cooled,        \* Date.now() - lastFailureTime > timeout (a null time is long ago)
  inFlight,      \* the calls whose command is running
  streak,        \* history: failures counted since the last success or reset
  setbacks       \* how many commands may still fail

breakerVars == <<breaker, failureCount, successCount, cooled, inFlight, streak, setbacks>>

counters == <<failureCount, successCount>>

BreakerInit ==
  /\ breaker = "CLOSED"
  /\ failureCount = 0
  /\ successCount = 0
  /\ cooled = TRUE
  /\ inFlight = {}
  /\ streak = 0
  /\ setbacks = MaxSetbacks

\* execute: an open breaker whose timeout is over lets everybody through.
Execute(c) ==
  /\ c \notin inFlight
  /\ \/ breaker # "OPEN" /\ UNCHANGED breaker
     \/ breaker = "OPEN" /\ cooled /\ breaker' = "HALF_OPEN"
  /\ inFlight' = inFlight \cup {c}
  /\ UNCHANGED <<counters, cooled, streak, setbacks>>

\* Mutant of MayClose: the half-open breaker waits for one success too many.
MayCloseLate == breaker = "HALF_OPEN" /\ successCount >= SuccessThreshold

\* _onSuccess of the last success that a half-open breaker waits for
MayClose == breaker = "HALF_OPEN" /\ successCount + 1 >= SuccessThreshold

\* reset and _reset
Reset ==
  /\ breaker' = "CLOSED"
  /\ failureCount' = 0
  /\ successCount' = 0
  /\ cooled' = TRUE

\* Mutant of Succeed: the failures before a success are not forgotten.
SucceedRemembers(c) ==
  /\ c \in inFlight
  /\ inFlight' = inFlight \ {c}
  /\ streak' = 0
  /\ \/ MayClose /\ Reset
     \/ /\ breaker = "HALF_OPEN" /\ ~MayClose
        /\ successCount' = successCount + 1
        /\ UNCHANGED <<breaker, failureCount, cooled>>
     \/ breaker # "HALF_OPEN" /\ UNCHANGED <<breaker, counters, cooled>>
  /\ UNCHANGED setbacks

\* _onSuccess
Succeed(c) ==
  /\ c \in inFlight
  /\ inFlight' = inFlight \ {c}
  /\ streak' = 0
  /\ \/ MayClose /\ Reset
     \/ /\ breaker = "HALF_OPEN" /\ ~MayClose
        /\ successCount' = successCount + 1
        /\ UNCHANGED <<breaker, failureCount, cooled>>
     \/ /\ breaker # "HALF_OPEN"
        /\ failureCount' = 0
        /\ UNCHANGED <<breaker, successCount, cooled>>
  /\ UNCHANGED setbacks

\* A failure reopens a half-open breaker at once, and opens a closed one at the
\* threshold.
MustOpen == breaker = "HALF_OPEN" \/ failureCount + 1 >= FailureThreshold

\* _onFailure
Fail(c) ==
  /\ c \in inFlight
  /\ setbacks > 0
  /\ inFlight' = inFlight \ {c}
  /\ failureCount' = failureCount + 1
  /\ cooled' = FALSE
  /\ breaker' = IF MustOpen THEN "OPEN" ELSE breaker
  /\ streak' = streak + 1
  /\ setbacks' = setbacks - 1
  /\ UNCHANGED successCount

ForceOpen ==
  /\ setbacks > 0
  /\ breaker' = "OPEN"
  /\ cooled' = FALSE
  /\ setbacks' = setbacks - 1
  /\ UNCHANGED <<counters, inFlight, streak>>

ManualReset ==
  /\ Reset
  /\ streak' = 0
  /\ UNCHANGED <<inFlight, setbacks>>

\* Mutant of CoolDown: the time of the failure is not there to count from.
CoolDownWhileClosed ==
  /\ ~cooled /\ breaker = "CLOSED"
  /\ cooled' = TRUE
  /\ UNCHANGED <<breaker, counters, inFlight, streak, setbacks>>

\* The timeout since the last failure is over.
CoolDown ==
  /\ ~cooled
  /\ cooled' = TRUE
  /\ UNCHANGED <<breaker, counters, inFlight, streak, setbacks>>

BreakerNext ==
  \/ \E c \in Executions : Execute(c) \/ Succeed(c) \/ Fail(c)
  \/ ForceOpen \/ ManualReset \/ CoolDown

BreakerSpec == BreakerInit /\ [][BreakerNext]_breakerVars

-----------------------------------------------------------------------------
(* Properties *)

BreakerTypeOK ==
  /\ breaker \in {"CLOSED", "OPEN", "HALF_OPEN"}
  /\ failureCount \in Nat
  /\ successCount \in Nat
  /\ cooled \in BOOLEAN
  /\ inFlight \subseteq Executions
  /\ streak \in Nat
  /\ setbacks \in 0..MaxSetbacks

\* However late the outcomes of calls come in that were started while the
\* breaker was closed, open or half-open: what it counts never overshoots.  A
\* closed breaker is below its failure threshold and has no trial successes.
CountersInBounds ==
  /\ successCount < SuccessThreshold
  /\ breaker = "CLOSED" => failureCount < FailureThreshold /\ successCount = 0

\* It opens of itself only on FailureThreshold failures with no success between
\* them, or on a failure of the trial.
OpensOnFailures ==
  [][(breaker = "CLOSED" /\ breaker' = "OPEN" /\ inFlight' # inFlight)
       => streak' >= FailureThreshold]_breakerVars

\* When the service has recovered and calls keep coming, an open breaker closes.
Recovers == breaker = "OPEN" ~> breaker = "CLOSED"

\* The variables have their types, and the counters stay below their thresholds.
BreakerSafe == BreakerTypeOK /\ CountersInBounds

=============================================================================
