----------------------------- MODULE TaskStore -----------------------------
(***************************************************************************)
(* TaskRepository (src/repositories/TaskRepository.js) over D1.            *)
(*                                                                         *)
(* transitionStatus is not one step.  It reads the row, decides, sends an  *)
(* UPDATE guarded by the status it read (and by the claim, for a fenced    *)
(* caller), reads again when no row changed, and refreshes derived caches  *)
(* when one did.  Every one of these is an await on an HTTP API, so calls  *)
(* of any number of workers, users and recovery scans interleave in        *)
(* between, and the D1 client re-sends a statement whose answer was lost.  *)
(* A call slot c \in Calls is one such call in flight.                     *)
(***************************************************************************)
EXTENDS TaskStateMachine, Integers, FiniteSets

CONSTANTS
  Tasks,      \* task ids
  Calls,      \* call slots: calls of TaskRepository that can overlap
  Claims,     \* (claimed_by, claim_lease_id) pairs of telegram_client leases
  NoClaim,    \* both columns NULL
  Operations, \* the operations the callers of this instance use
  MaxSends,   \* D1Service._executePayload's maxAttempts
  MaxClock,   \* bound on the clock   (model checking only)
  MaxStamp    \* bound on updated_at  (model checking only)

\* refreshActiveTaskLiveness: no event, the status must be the caller's
Liveness == "liveness"

\* updateFileMetadata / updateSourceRef: no transition at all
Metadata == "metadata"

\* "plain": no claim options.  "claim": claimedBy/claimLeaseId are written.
\* "fence": requireClaim, the claim must match and is never written.
Modes == {"plain", "claim", "fence"}

\* What src/ calls: only the two webhooks (and claimTask) write a claim.
AllOperations ==
  [event : Events, mode : {"plain", "fence"}]
    \cup [event : {"start_download", "start_upload"}, mode : {"claim"}]
    \cup [event : {Liveness}, mode : {"plain", "fence"}]
    \cup [event : {Metadata}, mode : {"plain"}]

ASSUME TaskStoreAssumption ==
  /\ NoClaim \notin Claims
  /\ Operations \subseteq AllOperations
  /\ MaxSends \in Nat \ {0}
  /\ MaxClock \in Nat
  /\ MaxStamp \in Nat

VARIABLES
  rows,    \* D1: task -> status, updated_at and claim
  view,    \* the derived status caches (task_status:<id>, synchronizer, ...)
  clock,   \* Date.now()
  pc,      \* where each call is
  call,    \* the locals of each call
  result,  \* what each call last returned
  seen     \* history: the (status, claim) the task had since the call's read

vars == <<rows, view, clock, pc, call, result, seen>>

-----------------------------------------------------------------------------
(* The row and its columns *)

RowStatuses == Statuses \cup {"absent"}

AbsentRow == [status |-> "absent", stamp |-> 0, claim |-> NoClaim]

Row == [status : RowStatuses, stamp : Nat, claim : Claims \cup {NoClaim}]

ClaimFree == {"queued"} \cup TerminalStatuses

Larger(a, b) == IF a >= b THEN a ELSE b

\* TaskRepository._nextTransitionTimestamp: never the stamp that was read
NextTransitionTimestamp(row) == Larger(clock, row.stamp + 1)

\* Mutant of Transitioned: the claim columns are never reset to NULL.
TransitionedKeepsClaim(row, target, k, now) ==
  [status |-> target, stamp |-> now,
   claim  |-> IF k.mode = "claim" THEN k.claim ELSE row.claim]

\* TaskRepository._buildTransitionSql: which columns the UPDATE assigns
Transitioned(row, target, k, now) ==
  [status |-> target,
   stamp  |-> now,
   claim  |-> IF k.mode = "claim" THEN k.claim
              ELSE IF target \in ClaimFree THEN NoClaim ELSE row.claim]

\* Mutant of Matches: UPDATE ... WHERE id = ? without the status that was read
MatchesAnyStatus(row, k) == k.mode = "fence" => row.claim = k.claim

\* The WHERE clause: the status that was read and, if fenced, the claim
Matches(row, k) ==
  /\ row.status = k.cur
  /\ k.mode = "fence" => row.claim = k.claim

-----------------------------------------------------------------------------
(* Calls and their results *)

NoCall == [task |-> "none", event |-> "none", mode |-> "plain",
           claim |-> NoClaim, cur |-> "absent", stamp |-> 0, now |-> 0, sends |-> 0]

Outcomes == {"none", "changed", "raced", "blocked", "stale", "thrown"}

\* result.blocked === false
Succeeded(r) == r.outcome \in {"changed", "raced"}

NoResult == [outcome |-> "none", stamp |-> 0]

Observed(row) == [status |-> row.status, claim |-> row.claim]

\* Return to the caller; the locals are dead.
Finish(c, outcome, stamp) ==
  /\ pc' = [pc EXCEPT ![c] = "idle"]
  /\ call' = [call EXCEPT ![c] = NoCall]
  /\ result' = [result EXCEPT ![c] = [outcome |-> outcome, stamp |-> stamp]]

Return(c, outcome, stamp) ==
  /\ Finish(c, outcome, stamp)
  /\ seen' = [seen EXCEPT ![c] = {}]

\* A statement that changes the row of t; the calls in flight on t live through it.
SeenAfter(t, row) ==
  [c \in Calls |-> IF pc[c] # "idle" /\ call[c].task = t
                   THEN seen[c] \cup {Observed(row)} ELSE seen[c]]

WriteRow(t, row) ==
  /\ rows' = [rows EXCEPT ![t] = row]
  /\ seen' = SeenAfter(t, row)

-----------------------------------------------------------------------------
Init ==
  /\ rows = [t \in Tasks |-> AbsentRow]
  /\ view = [t \in Tasks |-> "absent"]
  /\ clock = 0
  /\ pc = [c \in Calls |-> "idle"]
  /\ call = [c \in Calls |-> NoCall]
  /\ result = [c \in Calls |-> NoResult]
  /\ seen = [c \in Calls |-> {}]

Tick ==
  /\ clock < MaxClock
  /\ clock' = clock + 1
  /\ UNCHANGED <<rows, view, pc, call, result, seen>>

\* TaskRepository.create / createBatch: one INSERT
Create(t) ==
  /\ rows[t] = AbsentRow
  /\ WriteRow(t, [status |-> "queued", stamp |-> clock, claim |-> NoClaim])
  /\ UNCHANGED <<view, clock, pc, call, result>>

\* TaskRepository.updateFileMetadata / updateSourceRef: neither checks the
\* status nor the claim, and updated_at becomes the plain wall clock.
UpdateMetadata(t) ==
  /\ \E op \in Operations : op.event = Metadata
  /\ rows[t] # AbsentRow
  /\ WriteRow(t, [rows[t] EXCEPT !.stamp = clock])
  /\ UNCHANGED <<view, clock, pc, call, result>>

\* A call starts: validation, _getCurrentTaskState, resolveTransition.
Begin(c, t, op, k) ==
  LET row == rows[t]
      now == NextTransitionTimestamp(row)
  IN
  /\ pc[c] = "idle"
  /\ op.event \in Events
  /\ op.mode = "plain" <=> k = NoClaim
  /\ now <= MaxStamp
  /\ \/ /\ row.status # "absent"
        /\ Allowed(row.status, op.event)
        /\ pc' = [pc EXCEPT ![c] = "update"]
        /\ call' = [call EXCEPT ![c] =
                      [task |-> t, event |-> op.event, mode |-> op.mode, claim |-> k,
                       cur |-> row.status, stamp |-> row.stamp, now |-> now, sends |-> 0]]
        /\ result' = [result EXCEPT ![c] = NoResult]
        /\ seen' = [seen EXCEPT ![c] = {Observed(row)}]
     \/ /\ row.status = "absent" \/ ~Allowed(row.status, op.event)
        /\ Return(c, "blocked", 0)
  /\ UNCHANGED <<rows, view, clock>>

\* refreshActiveTaskLiveness(taskId, status): the status must be the row's.
BeginLiveness(c, t, status, op, k) ==
  LET row == rows[t]
      now == NextTransitionTimestamp(row)
  IN
  /\ pc[c] = "idle"
  /\ op.event = Liveness
  /\ op.mode = "plain" <=> k = NoClaim
  /\ now <= MaxStamp
  /\ \/ /\ row.status = status
        /\ pc' = [pc EXCEPT ![c] = "update"]
        /\ call' = [call EXCEPT ![c] =
                      [task |-> t, event |-> Liveness, mode |-> op.mode, claim |-> k,
                       cur |-> status, stamp |-> row.stamp, now |-> now, sends |-> 0]]
        /\ result' = [result EXCEPT ![c] = NoResult]
        /\ seen' = [seen EXCEPT ![c] = {Observed(row)}]
     \/ /\ row.status # status
        /\ Return(c, "blocked", 0)
  /\ UNCHANGED <<rows, view, clock>>

\* The row the UPDATE of call k leaves behind
Updated(row, k) ==
  IF k.event = Liveness THEN [row EXCEPT !.stamp = k.now]
  ELSE Transitioned(row, TargetStatus[k.event], k, k.now)

\* The UPDATE is answered with changes = 1 ...
UpdateHits(c) ==
  LET k == call[c] IN
  /\ pc[c] = "update"
  /\ Matches(rows[k.task], k)
  /\ WriteRow(k.task, Updated(rows[k.task], k))
  /\ pc' = [pc EXCEPT ![c] = "sync"]
  /\ UNCHANGED <<view, clock, call, result>>

\* ... or with changes = 0 ...
UpdateMisses(c) ==
  /\ pc[c] = "update"
  /\ ~Matches(rows[call[c].task], call[c])
  /\ pc' = [pc EXCEPT ![c] = "reread"]
  /\ UNCHANGED <<rows, view, clock, call, result, seen>>

\* ... or the answer is lost: D1 has run the statement or not, and the client
\* sends it again until maxAttempts, then throws.
UpdateAnswerLost(c) ==
  LET k == call[c] IN
  /\ pc[c] = "update"
  /\ k.sends + 1 < MaxSends
  /\ \/ Matches(rows[k.task], k) /\ WriteRow(k.task, Updated(rows[k.task], k))
     \/ UNCHANGED <<rows, seen>>
  /\ call' = [call EXCEPT ![c].sends = k.sends + 1]
  /\ UNCHANGED <<view, clock, pc, result>>

\* The last answer is lost too: the call throws, its UPDATE may have been run.
UpdateThrows(c) ==
  LET k == call[c] IN
  /\ pc[c] = "update"
  /\ k.sends + 1 >= MaxSends
  /\ \/ /\ Matches(rows[k.task], k)
        /\ rows' = [rows EXCEPT ![k.task] = Updated(rows[k.task], k)]
        /\ seen' = [SeenAfter(k.task, Updated(rows[k.task], k)) EXCEPT ![c] = {}]
        /\ Finish(c, "thrown", 0)
     \/ /\ Return(c, "thrown", 0)
        /\ UNCHANGED rows
  /\ UNCHANGED <<view, clock>>

\* requiresFreshQueueAttempt
RequiresFreshQueueAttempt(k) == k.event = "retry" /\ k.cur = "queued"

\* Mutants of Verdict: a row that still has the status that was read counts as
\* a success, and every fenced miss is blamed on the claim.
VerdictUnchangedIsSuccess(latest, k) ==
  IF latest.status \in {k.cur, TargetStatus[k.event]}
  THEN [outcome |-> "raced", stamp |-> latest.stamp]
  ELSE [outcome |-> "blocked", stamp |-> 0]

VerdictBlamesClaim(latest, k) ==
  CASE latest.status = TargetStatus[k.event] -> [outcome |-> "raced", stamp |-> latest.stamp]
    [] latest.status # TargetStatus[k.event] ->
         [outcome |-> IF k.mode = "fence" THEN "stale" ELSE "blocked", stamp |-> 0]

\* No row changed: what transitionStatus reports after reading again.
Verdict(latest, k) ==
  LET racedToTarget == latest.status = TargetStatus[k.event]
      usable == /\ racedToTarget
                /\ RequiresFreshQueueAttempt(k) => latest.stamp >= k.now
  IN CASE usable -> [outcome |-> "raced", stamp |-> latest.stamp]
       [] /\ ~usable
          /\ ~(RequiresFreshQueueAttempt(k) /\ racedToTarget)
          /\ k.mode = "fence"
          /\ latest.status = k.cur
          /\ latest.claim # k.claim -> [outcome |-> "stale", stamp |-> 0]
       [] OTHER -> [outcome |-> "blocked", stamp |-> 0]

\* refreshActiveTaskLiveness blames the claim whenever it is fenced.
LivenessVerdict(k) ==
  [outcome |-> IF k.mode = "fence" THEN "stale" ELSE "blocked", stamp |-> 0]

Reread(c) ==
  LET k == call[c]
      v == IF k.event = Liveness THEN LivenessVerdict(k) ELSE Verdict(rows[k.task], k)
  IN
  /\ pc[c] = "reread"
  /\ Return(c, v.outcome, v.stamp)
  /\ UNCHANGED <<rows, view, clock>>

\* _syncDerivedTaskState, long after the UPDATE: a terminal status deletes the
\* derived views, an active one overwrites them with what this call wrote.
SyncDerivedTaskState(c) ==
  LET k == call[c]
      status == IF k.event = Liveness THEN k.cur ELSE TargetStatus[k.event]
  IN
  /\ pc[c] = "sync"
  /\ view' = [view EXCEPT ![k.task] = IF status \in TerminalStatuses THEN "absent" ELSE status]
  /\ Return(c, "changed", k.now)
  /\ UNCHANGED <<rows, clock>>

\* The 300 s TTL of the derived entries
ExpireView(t) ==
  /\ view[t] # "absent"
  /\ view' = [view EXCEPT ![t] = "absent"]
  /\ UNCHANGED <<rows, clock, pc, call, result, seen>>

\* The process of the call dies between two awaits: nothing is undone.
Crash(c) ==
  /\ pc[c] # "idle"
  /\ Return(c, "none", 0)
  /\ UNCHANGED <<rows, view, clock>>

CallStep(c) ==
  \/ \E t \in Tasks, op \in Operations, k \in Claims \cup {NoClaim} :
       \/ Begin(c, t, op, k)
       \/ \E status \in ActiveStatuses : BeginLiveness(c, t, status, op, k)
  \/ UpdateHits(c)
  \/ UpdateMisses(c)
  \/ UpdateAnswerLost(c)
  \/ UpdateThrows(c)
  \/ Reread(c)
  \/ SyncDerivedTaskState(c)
  \/ Crash(c)

Next ==
  \/ Tick
  \/ \E t \in Tasks : Create(t) \/ UpdateMetadata(t) \/ ExpireView(t)
  \/ \E c \in Calls : CallStep(c)

Spec == Init /\ [][Next]_vars

-----------------------------------------------------------------------------
(* Properties *)

TypeOK ==
  /\ rows \in [Tasks -> Row]
  /\ view \in [Tasks -> ActiveStatuses \cup {"absent"}]
  /\ clock \in Nat
  /\ pc \in [Calls -> {"idle", "update", "reread", "sync"}]
  /\ call \in [Calls ->
       [task : Tasks \cup {"none"}, event : Events \cup {Liveness, "none"},
        mode : Modes, claim : Claims \cup {NoClaim}, cur : RowStatuses,
        stamp : Nat, now : Nat, sends : Nat]]
  /\ result \in [Calls -> [outcome : Outcomes, stamp : Nat]]
  /\ seen \in [Calls -> SUBSET [status : RowStatuses, claim : Claims \cup {NoClaim}]]

\* A task that waits in the queue or has ended belongs to nobody: no fenced
\* write of its former worker can match it any more (_buildTransitionSql).
ClaimReleased ==
  \A t \in Tasks : rows[t].status \in ClaimFree => rows[t].claim = NoClaim

\* "should keep terminal states from being overwritten by stale work"
\* (TaskRepository.test.js): whatever a late UPDATE of another call does, a
\* completed or cancelled task stays so.  A failed one may only be revived by
\* a retry or by the stream fallback.
FinalStatuses ==
  [][\A t \in Tasks :
       /\ rows[t].status \in {"completed", "cancelled"} => rows'[t].status = rows[t].status
       /\ rows[t].status = "failed" => rows'[t].status \in {"failed", "queued", "downloading"}
    ]_vars

\* The step in which call c of transitionStatus reports to its caller
ReturnsTransition(c) ==
  pc[c] # "idle" /\ pc'[c] = "idle" /\ call[c].event \in Events

\* A call that reports success really saw the task in the event's target
\* status at some moment between its read and its return, even when another
\* call got there first or the answer of its own UPDATE was lost.
SuccessWasTrue ==
  [][\A c \in Calls :
       (ReturnsTransition(c) /\ Succeeded(result'[c]))
         => \E o \in seen[c] : o.status = TargetStatus[call[c].event]]_vars

\* A worker that is told that its claim lease no longer matches did lose it
\* (it will abandon a transfer that nobody else may have taken over).
StaleWasTrue ==
  [][\A c \in Calls :
       (ReturnsTransition(c) /\ result'[c].outcome = "stale")
         => \E o \in seen[c] : o.claim # call[c].claim]_vars

\* A retry of a task that was already queued reports success only with an
\* attempt newer than the one it read, so that the queue's idempotency key
\* differs from that of the message the task was first queued with.
RetryAttemptAdvances ==
  [][\A c \in Calls :
       (ReturnsTransition(c) /\ RequiresFreshQueueAttempt(call[c]) /\ Succeeded(result'[c]))
         => result'[c].stamp > call[c].stamp]_vars

-----------------------------------------------------------------------------
(* The interleaved, retried calls implement the atomic life cycle. *)

Lifecycle == INSTANCE TaskLifecycle WITH
  rows <- [t \in Tasks |-> Observed(rows[t])]

ImplementsLifecycle == Lifecycle!LifecycleSpec

\* The tables hold what they should, and no row that waits or has ended carries a claim.
StoreSafe == TypeOK /\ ClaimReleased

\* What a call tells its caller is so: success, a lost claim, a new attempt.
AnswersWereTrue == SuccessWasTrue /\ StaleWasTrue /\ RetryAttemptAdvances

=============================================================================
