--------------------------- MODULE TaskLifecycle ---------------------------
(***************************************************************************)
(* What the tasks table promises to everyone who reads it, with no SQL and *)
(* no concurrency in sight: a row is inserted once, as an unclaimed queued *)
(* task; after that it only moves along TASK_TRANSITIONS, one atomic step  *)
(* at a time; a claim is taken or kept while the task is being worked on,  *)
(* and is gone as soon as the task is queued again or has ended.           *)
(***************************************************************************)
EXTENDS TaskStateMachine

CONSTANTS
  Tasks,    \* task ids
  Claims,   \* (claimed_by, claim_lease_id) pairs: one per telegram_client lease
  NoClaim   \* both columns NULL

VARIABLE rows

ClaimFree == {"queued"} \cup TerminalStatuses

AbsentRow == [status |-> "absent", claim |-> NoClaim]

LifecycleInit == rows = [t \in Tasks |-> AbsentRow]

Insert(t) ==
  /\ rows[t] = AbsentRow
  /\ rows' = [rows EXCEPT ![t] = [status |-> "queued", claim |-> NoClaim]]

\* An event fires: the claim is dropped when work stops, and otherwise kept or
\* replaced by the worker that takes the task over.
Move(t, e, k) ==
  /\ Allowed(rows[t].status, e)
  /\ rows' = [rows EXCEPT ![t] =
                [status |-> TargetStatus[e],
                 claim  |-> IF TargetStatus[e] \in ClaimFree THEN NoClaim ELSE k]]
  /\ k \in Claims \cup {rows[t].claim}

LifecycleNext ==
  \E t \in Tasks :
    \/ Insert(t)
    \/ \E e \in Events, k \in Claims \cup {NoClaim} : Move(t, e, k)

LifecycleSpec == LifecycleInit /\ [][LifecycleNext]_rows

=============================================================================
