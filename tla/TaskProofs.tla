----------------------------- MODULE TaskProofs -----------------------------
(* Theorems about what a task leaves outside the process that handles it: its *)
(* row in the database (TaskStore), for any number of tasks, calls and        *)
(* claims, its message in the queue (QueuePublish), for any processes,        *)
(* callers, keys and limits, and its file that another instance stages and    *)
(* uploads (StreamTransfer), for any file, attempts, contexts and incidents.  *)
EXTENDS TaskStore, QueuePublish, StreamTransfer, SequenceTheorems, FiniteSetTheorems, TLAPS

-----------------------------------------------------------------------------
(* Facts about TASK_TRANSITIONS *)

\* Every event leads to a status, and never to an absent row.
LEMMA TargetIsStatus == ASSUME NEW e \in Events PROVE TargetStatus[e] \in Statuses
BY DEF Events, TargetStatus, Statuses

\* A terminal target is the only kind of target that is not an active status.
LEMMA TargetIsActive ==
  ASSUME NEW e \in Events, TargetStatus[e] \notin TerminalStatuses
  PROVE  TargetStatus[e] \in ActiveStatuses
BY DEF Events, TargetStatus, TerminalStatuses, ActiveStatuses

\* Events never apply to a row that does not exist.
LEMMA AbsentIsStuck == ASSUME NEW e \in Events PROVE ~Allowed("absent", e)
BY DEF Events, Allowed, AllowedFrom, ActiveStatuses

\* The statuses in which a worker starts are not those that drop the claim.
LEMMA StartsAreClaimed ==
  ASSUME NEW e \in {"start_download", "start_upload"}
  PROVE  TargetStatus[e] \notin ClaimFree
BY DEF TargetStatus, ClaimFree, TerminalStatuses

\* What the table allows in a status that a task has ended with
LEMMA EndedMoves ==
  ASSUME NEW e \in Events
  PROVE  /\ Allowed("completed", e) => TargetStatus[e] = "completed"
         /\ Allowed("cancelled", e) => TargetStatus[e] = "cancelled"
         /\ Allowed("failed", e) => TargetStatus[e] \in {"failed", "queued", "downloading"}
BY DEF Events, Allowed, AllowedFrom, TargetStatus, ActiveStatuses

-----------------------------------------------------------------------------
(* The inductive invariant *)

\* What holds of the locals of a call between its read and its return: it is
\* about a task, its event was allowed in the status that was read, only a start
\* may carry a claim to be written (AllOperations), and the updated_at it will
\* write is newer than the one it read.
InFlight(c) ==
  pc[c] # "idle" =>
    /\ call[c].task \in Tasks
    /\ call[c].event \in Events \cup {Liveness}
    /\ call[c].event \in Events => Allowed(call[c].cur, call[c].event)
    /\ call[c].event = Liveness => call[c].cur \in ActiveStatuses
    /\ call[c].mode = "claim" => /\ call[c].event \in {"start_download", "start_upload"}
                                 /\ call[c].claim \in Claims
    /\ call[c].now > call[c].stamp

CallsInFlight == \A c \in Calls : InFlight(c)

IInv == TypeOK /\ ClaimReleased /\ CallsInFlight

\* The new version of a row is a row again, when the call is in flight.
LEMMA UpdatedType ==
  ASSUME TypeOK, NEW c \in Calls, InFlight(c), pc[c] # "idle",
         NEW record \in Row
  PROVE  Updated(record, call[c]) \in Row
<1> DEFINE k == call[c]
<1>1. k.now \in Nat /\ k.claim \in Claims \cup {NoClaim}
  BY DEF TypeOK
<1>2. CASE k.event = Liveness
  BY <1>1, <1>2 DEF Updated, Row
<1>3. CASE k.event # Liveness
  <2>1. k.event \in Events
    BY <1>3 DEF InFlight
  <2>2. TargetStatus[k.event] \in RowStatuses
    BY <2>1, TargetIsStatus DEF RowStatuses
  <2>. QED  BY <1>1, <1>3, <2>2 DEF Updated, Transitioned, Row
<1>. QED  BY <1>2, <1>3

\* A row that has no claim when it need not have one keeps to that.
LEMMA UpdatedReleased ==
  ASSUME NEW c \in Calls, InFlight(c), pc[c] # "idle",
         NEW record \in Row, record.status \in ClaimFree => record.claim = NoClaim
  PROVE  LET new == Updated(record, call[c]) IN new.status \in ClaimFree => new.claim = NoClaim
<1>1. CASE call[c].event = Liveness
  BY <1>1 DEF Updated, Row
<1>2. CASE call[c].event # Liveness /\ call[c].mode = "claim"
  BY <1>2, StartsAreClaimed DEF InFlight, Updated, Transitioned
<1>3. CASE call[c].event # Liveness /\ call[c].mode # "claim"
  BY <1>3 DEF Updated, Transitioned
<1>. QED  BY <1>1, <1>2, <1>3

\* The initial state satisfies the invariant.
LEMMA InitIInv == Init => IInv
<1>. SUFFICES ASSUME Init PROVE IInv
  OBVIOUS
<1>1. TypeOK
  BY DEF Init, TypeOK, Row, RowStatuses, AbsentRow, NoCall, NoResult, Modes, Outcomes
<1>2. ClaimReleased
  BY DEF Init, ClaimReleased, AbsentRow
<1>3. CallsInFlight
  BY DEF Init, CallsInFlight, InFlight
<1>. QED  BY <1>1, <1>2, <1>3 DEF IInv

-----------------------------------------------------------------------------
(* Every step preserves it *)

PcType == {"idle", "update", "reread", "sync"}

StoreCallType ==
  [task : Tasks \cup {"none"}, event : Events \cup {Liveness, "none"},
   mode : Modes, claim : Claims \cup {NoClaim}, cur : RowStatuses,
   stamp : Nat, now : Nat, sends : Nat]

SeenType == SUBSET [status : RowStatuses, claim : Claims \cup {NoClaim}]

\* A statement that leaves a proper row behind keeps the table well-formed.
LEMMA WriteRowKeeps ==
  ASSUME IInv, NEW t \in Tasks, NEW record \in Row,
         record.status \in ClaimFree => record.claim = NoClaim,
         rows' = [rows EXCEPT ![t] = record]
  PROVE  rows' \in [Tasks -> Row] /\ ClaimReleased'
<1>1. rows \in [Tasks -> Row]
  BY DEF IInv, TypeOK
<1>2. \A u \in Tasks : rows'[u] = IF u = t THEN record ELSE rows[u]
  BY <1>1
<1>. QED  BY <1>1, <1>2 DEF IInv, ClaimReleased

\* The history variable stays what it is made of.
LEMMA HistoryKeeps ==
  ASSUME TypeOK, NEW t \in Tasks, NEW record \in Row
  PROVE  SeenAfter(t, record) \in [Calls -> SeenType]
<1>1. Observed(record) \in [status : RowStatuses, claim : Claims \cup {NoClaim}]
  BY DEF Row, Observed
<1>2. SeenAfter(t, record) \in [Calls -> SeenType]
  BY <1>1 DEF SeenAfter, TypeOK, SeenType
<1>. QED  BY <1>2

\* A call that returns leaves no locals behind.
LEMMA FinishKeeps ==
  ASSUME IInv, NEW c \in Calls, NEW outcome \in Outcomes, NEW stamp \in Nat,
         Finish(c, outcome, stamp)
  PROVE  /\ pc' \in [Calls -> PcType]
         /\ call' \in [Calls -> StoreCallType]
         /\ result' \in [Calls -> [outcome : Outcomes, stamp : Nat]]
         /\ CallsInFlight'
<1>1. pc \in [Calls -> PcType] /\ call \in [Calls -> StoreCallType]
  BY DEF IInv, TypeOK, PcType, StoreCallType
<1>2. NoCall \in StoreCallType
  BY DEF NoCall, StoreCallType, Modes, RowStatuses
<1>3. /\ pc' \in [Calls -> PcType]
      /\ call' \in [Calls -> StoreCallType]
      /\ result' \in [Calls -> [outcome : Outcomes, stamp : Nat]]
  BY <1>1, <1>2 DEF Finish, PcType, IInv, TypeOK
<1>4. \A d \in Calls : pc'[d] = "idle" \/ (pc'[d] = pc[d] /\ call'[d] = call[d])
  BY <1>1 DEF Finish
<1>5. CallsInFlight'
  BY <1>4 DEF IInv, CallsInFlight, InFlight
<1>. QED  BY <1>3, <1>5

\* A call that moves on with the locals it has stays in flight.
LEMMA GotoKeeps ==
  ASSUME IInv, NEW c \in Calls, pc[c] # "idle", NEW at \in PcType,
         pc' = [pc EXCEPT ![c] = at],
         call' = call \/ \E n \in Nat : call' = [call EXCEPT ![c].sends = n]
  PROVE  /\ pc' \in [Calls -> PcType]
         /\ call' \in [Calls -> StoreCallType]
         /\ CallsInFlight'
<1>1. pc \in [Calls -> PcType] /\ call \in [Calls -> StoreCallType]
  BY DEF IInv, TypeOK, PcType, StoreCallType
<1>2. pc' \in [Calls -> PcType]
  BY <1>1
<1>3. /\ call' \in [Calls -> StoreCallType]
      /\ \A d \in Calls : /\ call'[d].task = call[d].task
                          /\ call'[d].event = call[d].event
                          /\ call'[d].mode = call[d].mode
                          /\ call'[d].claim = call[d].claim
                          /\ call'[d].cur = call[d].cur
                          /\ call'[d].stamp = call[d].stamp
                          /\ call'[d].now = call[d].now
  BY <1>1 DEF StoreCallType
<1>4. \A d \in Calls : pc'[d] # "idle" => pc[d] # "idle"
  BY <1>1
<1>5. CallsInFlight'
  BY <1>3, <1>4 DEF IInv, CallsInFlight, InFlight
<1>. QED  BY <1>2, <1>3, <1>5

\* A call that starts has read a row whose status allows its event.
LEMMA BeginKeeps ==
  ASSUME IInv, NEW c \in Calls, NEW t \in Tasks, NEW op \in Operations,
         NEW k \in Claims \cup {NoClaim},
         Begin(c, t, op, k) \/ \E shown \in ActiveStatuses : BeginLiveness(c, t, shown, op, k)
  PROVE  IInv'
<1>1. rows[t] \in Row /\ clock \in Nat
  BY DEF IInv, TypeOK
<1>2. /\ NextTransitionTimestamp(rows[t]) \in Nat
      /\ NextTransitionTimestamp(rows[t]) > rows[t].stamp
  BY <1>1 DEF NextTransitionTimestamp, Larger, Row
<1>3. /\ op.mode \in Modes
      /\ op.mode = "claim" => op.event \in {"start_download", "start_upload"}
  BY TaskStoreAssumption DEF AllOperations, Modes
<1>4. CASE Return(c, "blocked", 0) /\ UNCHANGED <<rows, view, clock>>
  <2>1. Finish(c, "blocked", 0) /\ seen' = [seen EXCEPT ![c] = {}]
    BY <1>4 DEF Return
  <2>2. seen' \in [Calls -> SeenType]
    BY <2>1 DEF SeenType, IInv, TypeOK
  <2>. QED  BY <1>4, <2>1, <2>2, FinishKeeps
         DEF IInv, TypeOK, ClaimReleased, SeenType, PcType, StoreCallType, Outcomes
<1>5. ASSUME NEW event \in Events \cup {Liveness}, NEW cur \in RowStatuses,
             cur = rows[t].status,
             event \in Events => Allowed(cur, event),
             event = Liveness => cur \in ActiveStatuses,
             event = op.event,
             op.mode = "plain" <=> k = NoClaim,
             pc' = [pc EXCEPT ![c] = "update"],
             call' = [call EXCEPT ![c] =
                        [task |-> t, event |-> event, mode |-> op.mode, claim |-> k,
                         cur |-> cur, stamp |-> rows[t].stamp,
                         now |-> NextTransitionTimestamp(rows[t]), sends |-> 0]],
             result' = [result EXCEPT ![c] = NoResult],
             seen' = [seen EXCEPT ![c] = {Observed(rows[t])}],
             UNCHANGED <<rows, view, clock>>
      PROVE  IInv'
  <2> DEFINE new == [task |-> t, event |-> event, mode |-> op.mode, claim |-> k,
                     cur |-> cur, stamp |-> rows[t].stamp,
                     now |-> NextTransitionTimestamp(rows[t]), sends |-> 0]
  <2>1. new \in StoreCallType
    BY <1>1, <1>2, <1>3, <1>5 DEF StoreCallType, Row
  <2>2. /\ pc' \in [Calls -> PcType] /\ call' \in [Calls -> StoreCallType]
        /\ call'[c] = new
        /\ \A d \in Calls \ {c} : pc'[d] = pc[d] /\ call'[d] = call[d]
    BY <1>5, <2>1 DEF IInv, TypeOK, PcType, StoreCallType
  <2>3. result' \in [Calls -> [outcome : Outcomes, stamp : Nat]]
    BY <1>5 DEF IInv, TypeOK, NoResult, Outcomes
  <2>4. Observed(rows[t]) \in [status : RowStatuses, claim : Claims \cup {NoClaim}]
    BY <1>1 DEF Observed, Row
  <2>5. seen' \in [Calls -> SeenType]
    BY <1>5, <2>4 DEF IInv, TypeOK, SeenType
  <2>6. TypeOK'
    BY <1>5, <2>2, <2>3, <2>5 DEF IInv, TypeOK, PcType, StoreCallType, SeenType
  <2>7. CallsInFlight'
    <3>1. InFlight(c)'
      BY <1>2, <1>3, <1>5, <2>2 DEF InFlight
    <3>2. \A d \in Calls \ {c} : InFlight(d)'
      BY <2>2 DEF IInv, CallsInFlight, InFlight
    <3>. QED  BY <3>1, <3>2 DEF CallsInFlight
  <2>8. ClaimReleased'
    BY <1>5 DEF IInv, ClaimReleased
  <2>. QED  BY <2>6, <2>7, <2>8 DEF IInv
<1>6. CASE Begin(c, t, op, k)
  <2>1. rows[t].status \in RowStatuses
    BY <1>1 DEF Row
  <2>2. op.event \in Events /\ op.event # Liveness
    BY <1>6 DEF Begin, Events, Liveness
  <2>3. CASE rows[t].status # "absent" /\ Allowed(rows[t].status, op.event) /\ ~Return(c, "blocked", 0)
    BY <1>5, <1>6, <2>1, <2>2, <2>3 DEF Begin
  <2>4. CASE Return(c, "blocked", 0)
    BY <1>4, <1>6, <2>4 DEF Begin
  <2>. QED  BY <1>6, <2>3, <2>4 DEF Begin
<1>7. ASSUME NEW shown \in ActiveStatuses, BeginLiveness(c, t, shown, op, k) PROVE IInv'
  BY <1>1, <1>4, <1>5, <1>7 DEF BeginLiveness, Row, Events, Liveness
<1>. QED  BY <1>6, <1>7

\* The UPDATE of a call runs: well-formed rows stay well-formed.
LEMMA UpdateRowKeeps ==
  ASSUME IInv, NEW c \in Calls, pc[c] # "idle",
         rows' = [rows EXCEPT ![call[c].task] = Updated(rows[call[c].task], call[c])]
  PROVE  /\ rows' \in [Tasks -> Row] /\ ClaimReleased'
         /\ SeenAfter(call[c].task, Updated(rows[call[c].task], call[c])) \in [Calls -> SeenType]
<1> DEFINE t == call[c].task
           new == Updated(rows[t], call[c])
<1>1. InFlight(c) /\ t \in Tasks
  BY DEF IInv, CallsInFlight, InFlight
<1>2. rows[t] \in Row /\ (rows[t].status \in ClaimFree => rows[t].claim = NoClaim)
  BY <1>1 DEF IInv, TypeOK, ClaimReleased
<1>3. new \in Row
  BY <1>1, <1>2, UpdatedType DEF IInv
<1>4. new.status \in ClaimFree => new.claim = NoClaim
  BY <1>1, <1>2, UpdatedReleased
<1>. HIDE DEF new
<1>. QED  BY <1>1, <1>3, <1>4, WriteRowKeeps, HistoryKeeps DEF IInv, new

\* Every step preserves the invariant.
LEMMA NextIInv == IInv /\ [Next]_vars => IInv'
<1>. SUFFICES ASSUME IInv, [Next]_vars PROVE IInv'
  OBVIOUS
<1>. USE DEF PcType, StoreCallType, SeenType
<1>1. CASE Tick
  <2>1. clock' \in Nat
    BY <1>1 DEF Tick, IInv, TypeOK
  <2>. QED  BY <1>1, <2>1 DEF Tick, IInv, TypeOK, ClaimReleased, CallsInFlight, InFlight
<1>2. ASSUME NEW t \in Tasks, Create(t) PROVE IInv'
  <2> DEFINE new == [status |-> "queued", stamp |-> clock, claim |-> NoClaim]
  <2>1. new \in Row
    BY DEF IInv, TypeOK, Row, RowStatuses, Statuses
  <2>2. rows' \in [Tasks -> Row] /\ ClaimReleased'
    BY <1>2, <2>1, WriteRowKeeps DEF Create, WriteRow
  <2>3. seen' \in [Calls -> SeenType]
    BY <1>2, <2>1, HistoryKeeps DEF Create, WriteRow, IInv
  <2>. QED  BY <1>2, <2>2, <2>3 DEF Create, IInv, TypeOK, CallsInFlight, InFlight
<1>3. ASSUME NEW t \in Tasks, UpdateMetadata(t) PROVE IInv'
  <2> DEFINE new == [rows[t] EXCEPT !.stamp = clock]
  <2>1. new \in Row /\ new.status = rows[t].status /\ new.claim = rows[t].claim
    BY DEF IInv, TypeOK, Row
  <2>. HIDE DEF new
  <2>2. WriteRow(t, new) /\ UNCHANGED <<view, clock, pc, call, result>>
    BY <1>3 DEF UpdateMetadata, new
  <2>3. rows' \in [Tasks -> Row] /\ ClaimReleased'
    BY <2>1, <2>2, WriteRowKeeps DEF WriteRow, IInv, ClaimReleased
  <2>4. seen' \in [Calls -> SeenType]
    BY <2>1, <2>2, HistoryKeeps DEF WriteRow, IInv
  <2>. QED  BY <2>2, <2>3, <2>4 DEF IInv, TypeOK, CallsInFlight, InFlight
<1>4. ASSUME NEW t \in Tasks, ExpireView(t) PROVE IInv'
  <2>1. view' \in [Tasks -> ActiveStatuses \cup {"absent"}]
    BY <1>4 DEF ExpireView, IInv, TypeOK
  <2>. QED  BY <1>4, <2>1 DEF ExpireView, IInv, TypeOK, ClaimReleased, CallsInFlight, InFlight
<1>5. ASSUME NEW c \in Calls, UpdateHits(c) PROVE IInv'
  <2>1. pc[c] # "idle"
    BY <1>5 DEF UpdateHits
  <2>2. /\ rows' \in [Tasks -> Row] /\ ClaimReleased'
        /\ seen' \in [Calls -> SeenType]
    BY <1>5, <2>1, UpdateRowKeeps DEF UpdateHits, WriteRow
  <2>3. pc' \in [Calls -> PcType] /\ call' \in [Calls -> StoreCallType] /\ CallsInFlight'
    BY <1>5, <2>1, GotoKeeps DEF UpdateHits
  <2>. QED  BY <1>5, <2>2, <2>3 DEF UpdateHits, IInv, TypeOK
<1>6. ASSUME NEW c \in Calls, UpdateMisses(c) PROVE IInv'
  <2>1. pc[c] # "idle"
    BY <1>6 DEF UpdateMisses
  <2>2. pc' \in [Calls -> PcType] /\ call' \in [Calls -> StoreCallType] /\ CallsInFlight'
    BY <1>6, <2>1, GotoKeeps DEF UpdateMisses
  <2>. QED  BY <1>6, <2>2 DEF UpdateMisses, IInv, TypeOK, ClaimReleased
<1>7. ASSUME NEW c \in Calls, UpdateAnswerLost(c) PROVE IInv'
  <2>1. pc[c] # "idle" /\ pc' = [pc EXCEPT ![c] = pc[c]] /\ pc[c] \in PcType
    BY <1>7 DEF UpdateAnswerLost, IInv, TypeOK
  <2>2. /\ rows' \in [Tasks -> Row] /\ ClaimReleased'
        /\ seen' \in [Calls -> SeenType]
    BY <1>7, <2>1, UpdateRowKeeps DEF UpdateAnswerLost, WriteRow, IInv, TypeOK, ClaimReleased
  <2>3. call[c].sends + 1 \in Nat
    BY DEF IInv, TypeOK
  <2>4. pc' \in [Calls -> PcType] /\ call' \in [Calls -> StoreCallType] /\ CallsInFlight'
    BY <1>7, <2>1, <2>3, GotoKeeps DEF UpdateAnswerLost
  <2>. QED  BY <1>7, <2>2, <2>4 DEF UpdateAnswerLost, IInv, TypeOK
<1>8. ASSUME NEW c \in Calls, UpdateThrows(c) PROVE IInv'
  <2>1. pc[c] # "idle" /\ "thrown" \in Outcomes
    BY <1>8 DEF UpdateThrows, Outcomes
  <2>2. Finish(c, "thrown", 0)
    BY <1>8 DEF UpdateThrows, Return
  <2>3. /\ rows' \in [Tasks -> Row] /\ ClaimReleased'
        /\ seen' \in [Calls -> SeenType]
    <3>1. CASE rows' = rows /\ Return(c, "thrown", 0)
      BY <3>1 DEF Return, IInv, TypeOK, ClaimReleased
    <3>2. CASE ~(rows' = rows /\ Return(c, "thrown", 0))
      BY <1>8, <2>1, <3>2, UpdateRowKeeps DEF UpdateThrows
    <3>. QED  BY <3>1, <3>2
  <2>. QED  BY <1>8, <2>1, <2>2, <2>3, FinishKeeps DEF UpdateThrows, IInv, TypeOK
<1>9. ASSUME NEW c \in Calls, Reread(c) PROVE IInv'
  <2> DEFINE k == call[c]
             v == IF k.event = Liveness THEN LivenessVerdict(k) ELSE Verdict(rows[k.task], k)
  <2>1. v.outcome \in Outcomes /\ v.stamp \in Nat
    <3>1. rows[k.task] \in Row
      BY <1>9 DEF Reread, IInv, TypeOK, CallsInFlight, InFlight
    <3>. QED  BY <3>1 DEF LivenessVerdict, Verdict, Outcomes, Row
  <2>2. Return(c, v.outcome, v.stamp) /\ UNCHANGED <<rows, view, clock>>
    BY <1>9 DEF Reread
  <2>. HIDE DEF v
  <2>. QED  BY <2>1, <2>2, FinishKeeps DEF Return, IInv, TypeOK, ClaimReleased
<1>10. ASSUME NEW c \in Calls, SyncDerivedTaskState(c) PROVE IInv'
  <2> DEFINE k == call[c]
             shown == IF k.event = Liveness THEN k.cur ELSE TargetStatus[k.event]
  <2>1. Return(c, "changed", k.now) /\ UNCHANGED <<rows, clock>>
    BY <1>10 DEF SyncDerivedTaskState
  <2>2. "changed" \in Outcomes /\ k.now \in Nat
    BY DEF Outcomes, IInv, TypeOK
  <2>3. shown \notin TerminalStatuses => shown \in ActiveStatuses
    BY <1>10, TargetIsActive DEF SyncDerivedTaskState, IInv, CallsInFlight, InFlight
  <2>. HIDE DEF shown
  <2>4. view' = [view EXCEPT ![k.task] = IF shown \in TerminalStatuses THEN "absent" ELSE shown]
    BY <1>10 DEF SyncDerivedTaskState, shown
  <2>5. view' \in [Tasks -> ActiveStatuses \cup {"absent"}]
    BY <2>3, <2>4 DEF IInv, TypeOK
  <2>. QED  BY <2>1, <2>2, <2>5, FinishKeeps DEF Return, IInv, TypeOK, ClaimReleased
<1>11. ASSUME NEW c \in Calls, Crash(c) PROVE IInv'
  <2>1. "none" \in Outcomes
    BY DEF Outcomes
  <2>. QED  BY <1>11, <2>1, FinishKeeps DEF Crash, Return, IInv, TypeOK, ClaimReleased
<1>12. CASE UNCHANGED vars
  BY <1>12 DEF vars, IInv, TypeOK, ClaimReleased, CallsInFlight, InFlight
<1>. QED
  BY <1>1, <1>2, <1>3, <1>4, <1>5, <1>6, <1>7, <1>8, <1>9, <1>10, <1>11, <1>12, BeginKeeps
  DEF Next, CallStep

-----------------------------------------------------------------------------
(* What TaskRepository guarantees *)

\* The invariant holds all the time.
LEMMA AlwaysIInv == Spec => []IInv
BY InitIInv, NextIInv, PTL DEF Spec

\* Every variable keeps its type: in particular the derived status caches never
\* hold a terminal status, whatever order the calls synchronise them in.
THEOREM TypeCorrect == Spec => []TypeOK
BY AlwaysIInv, PTL DEF IInv

\* A queued or ended row carries no claim (_buildTransitionSql).
THEOREM ClaimAlwaysReleased == Spec => []ClaimReleased
BY AlwaysIInv, PTL DEF IInv

\* A row changes in an insertion, in a metadata write or in the UPDATE of a call
\* whose WHERE clause it matches.
LEMMA RowChanges ==
  ASSUME IInv, [Next]_vars, rows' # rows
  PROVE  \/ \E t \in Tasks :
              /\ rows[t] = AbsentRow
              /\ rows' = [rows EXCEPT ![t] = [status |-> "queued", stamp |-> clock, claim |-> NoClaim]]
         \/ \E t \in Tasks : rows' = [rows EXCEPT ![t] = [rows[t] EXCEPT !.stamp = clock]]
         \/ \E c \in Calls :
              /\ pc[c] = "update"
              /\ Matches(rows[call[c].task], call[c])
              /\ rows' = [rows EXCEPT ![call[c].task] = Updated(rows[call[c].task], call[c])]
<1>1. CASE \E t \in Tasks : Create(t)
  BY <1>1 DEF Create, WriteRow
<1>2. CASE \E t \in Tasks : UpdateMetadata(t)
  BY <1>2 DEF UpdateMetadata, WriteRow
<1>3. CASE \E c \in Calls : UpdateHits(c) \/ UpdateAnswerLost(c) \/ UpdateThrows(c)
  BY <1>3 DEF UpdateHits, UpdateAnswerLost, UpdateThrows, WriteRow
<1>4. CASE Tick \/ (\E t \in Tasks : ExpireView(t)) \/ UNCHANGED vars
  BY <1>4 DEF Tick, ExpireView, vars
<1>5. CASE \E c \in Calls : UpdateMisses(c) \/ Reread(c) \/ SyncDerivedTaskState(c) \/ Crash(c)
  BY <1>5 DEF UpdateMisses, Reread, SyncDerivedTaskState, Crash
<1>6. CASE \E c \in Calls, t \in Tasks, op \in Operations, k \in Claims \cup {NoClaim} :
            Begin(c, t, op, k) \/ \E shown \in ActiveStatuses : BeginLiveness(c, t, shown, op, k)
  BY <1>6 DEF Begin, BeginLiveness
<1>. QED  BY <1>1, <1>2, <1>3, <1>4, <1>5, <1>6 DEF Next, CallStep

\* In a status that a task has ended with, an UPDATE that matches the row leads
\* only to where TASK_TRANSITIONS leads from that status.
LEMMA UpdateOfEnded ==
  ASSUME IInv, NEW c \in Calls, pc[c] = "update",
         NEW record \in Row, Matches(record, call[c])
  PROVE  LET new == Updated(record, call[c]) IN
         /\ record.status \in {"completed", "cancelled"} => new.status = record.status
         /\ record.status = "failed" => new.status \in {"failed", "queued", "downloading"}
<1> DEFINE k == call[c]
<1>1. InFlight(c) /\ record.status = k.cur
  BY DEF IInv, CallsInFlight, Matches
<1>2. CASE k.event = Liveness
  BY <1>1, <1>2 DEF Updated, Row
<1>3. CASE k.event # Liveness
  <2>1. k.event \in Events /\ Allowed(record.status, k.event)
    BY <1>1, <1>3 DEF InFlight
  <2>2. Updated(record, k).status = TargetStatus[k.event]
    BY <1>3 DEF Updated, Transitioned
  <2>. QED  BY <2>1, <2>2, EndedMoves
<1>. QED  BY <1>2, <1>3

\* "should keep terminal states from being overwritten by stale work"
\* (TaskRepository.test.js): no late UPDATE takes a completed or cancelled task
\* anywhere else, for any number of overlapping calls.
THEOREM EndedIsFinal == Spec => FinalStatuses
<1>1. ASSUME IInv, [Next]_vars, NEW t \in Tasks
      PROVE  /\ rows[t].status \in {"completed", "cancelled"} => rows'[t].status = rows[t].status
             /\ rows[t].status = "failed" => rows'[t].status \in {"failed", "queued", "downloading"}
  <2>1. rows \in [Tasks -> Row]
    BY <1>1 DEF IInv, TypeOK
  <2>2. CASE rows' = rows
    BY <2>2
  <2>3. ASSUME NEW u \in Tasks, rows[u] = AbsentRow,
               rows' = [rows EXCEPT ![u] = [status |-> "queued", stamp |-> clock, claim |-> NoClaim]]
        PROVE  rows[t].status \notin {"completed", "cancelled", "failed"} \/ rows'[t] = rows[t]
    BY <2>1, <2>3 DEF AbsentRow
  <2>4. ASSUME NEW u \in Tasks, rows' = [rows EXCEPT ![u] = [rows[u] EXCEPT !.stamp = clock]]
        PROVE  rows'[t].status = rows[t].status
    BY <2>1, <2>4 DEF Row
  <2>5. ASSUME NEW c \in Calls, pc[c] = "update", Matches(rows[call[c].task], call[c]),
               rows' = [rows EXCEPT ![call[c].task] = Updated(rows[call[c].task], call[c])],
               rows'[t] # rows[t]
        PROVE  /\ rows[t].status \in {"completed", "cancelled"} => rows'[t].status = rows[t].status
               /\ rows[t].status = "failed" => rows'[t].status \in {"failed", "queued", "downloading"}
    <3>1. t = call[c].task /\ rows'[t] = Updated(rows[t], call[c]) /\ rows[t] \in Row
      BY <2>1, <2>5
    <3>. QED  BY <1>1, <2>5, <3>1, UpdateOfEnded
  <2>. QED  BY <1>1, <2>2, <2>3, <2>4, <2>5, RowChanges
<1>2. IInv /\ [Next]_vars =>
        [\A t \in Tasks :
           /\ rows[t].status \in {"completed", "cancelled"} => rows'[t].status = rows[t].status
           /\ rows[t].status = "failed" => rows'[t].status \in {"failed", "queued", "downloading"}]_vars
  BY <1>1
<1>. QED  BY <1>2, AlwaysIInv, PTL DEF Spec, FinalStatuses

-----------------------------------------------------------------------------
(* The calls implement the atomic life cycle. *)

\* What TaskLifecycle sees of the table
SeenRows == [t \in Tasks |-> Observed(rows[t])]

\* The UPDATE of a call is one move of the life cycle, or invisible to it.
LEMMA UpdateIsMove ==
  ASSUME IInv, NEW c \in Calls, pc[c] = "update",
         Matches(rows[call[c].task], call[c]),
         rows' = [rows EXCEPT ![call[c].task] = Updated(rows[call[c].task], call[c])]
  PROVE  Lifecycle!LifecycleNext \/ SeenRows' = SeenRows
<1> DEFINE k == call[c]
           t == k.task
<1>1. InFlight(c) /\ t \in Tasks /\ rows \in [Tasks -> Row] /\ k.claim \in Claims \cup {NoClaim}
  BY DEF IInv, TypeOK, CallsInFlight, InFlight
<1>2. CASE k.event = Liveness
  <2>1. Updated(rows[t], k) = [rows[t] EXCEPT !.stamp = k.now]
    BY <1>2 DEF Updated
  <2>2. Observed(Updated(rows[t], k)) = Observed(rows[t])
    BY <1>1, <2>1 DEF Observed, Row
  <2>. QED  BY <1>1, <2>2 DEF SeenRows
<1>3. CASE k.event # Liveness
  <2>1. k.event \in Events /\ Allowed(rows[t].status, k.event)
    BY <1>1, <1>3 DEF InFlight, Matches
  <2> DEFINE claim == IF k.mode = "claim" THEN k.claim ELSE rows[t].claim
             new == [status |-> TargetStatus[k.event],
                     claim  |-> IF TargetStatus[k.event] \in ClaimFree THEN NoClaim ELSE claim]
  <2>2. claim \in Claims \cup {NoClaim} /\ claim \in Claims \cup {rows[t].claim}
    BY <1>1 DEF Row, InFlight
  <2>3. Observed(Updated(rows[t], k)) = new
    BY <1>1, <1>3, StartsAreClaimed DEF Updated, Transitioned, Observed, InFlight
  <2>4. SeenRows' = [SeenRows EXCEPT ![t] = new]
    BY <1>1, <2>3 DEF SeenRows
  <2>5. SeenRows[t].status = rows[t].status /\ SeenRows[t].claim = rows[t].claim
    BY <1>1 DEF SeenRows, Observed
  <2>6. Lifecycle!Move(t, k.event, claim)
    BY <2>1, <2>2, <2>4, <2>5
    DEF Lifecycle!Move, Lifecycle!Allowed, Lifecycle!AllowedFrom, Lifecycle!TargetStatus,
        Lifecycle!ClaimFree, Lifecycle!TerminalStatuses, Lifecycle!ActiveStatuses,
        Allowed, AllowedFrom, TargetStatus, ClaimFree, TerminalStatuses, ActiveStatuses, SeenRows
  <2>. QED  BY <1>1, <2>1, <2>2, <2>6 DEF Lifecycle!LifecycleNext, Lifecycle!Events, Events
<1>. QED  BY <1>2, <1>3

\* The interleaved reads, guarded UPDATEs, lost answers and crashes of any number
\* of calls look, to everyone who reads status and claim, like atomic moves of the
\* life cycle that TASK_TRANSITIONS describes.
THEOREM Refinement == Spec => ImplementsLifecycle
<1>1. Init => Lifecycle!LifecycleInit
  BY DEF Init, Lifecycle!LifecycleInit, Lifecycle!AbsentRow, AbsentRow, Observed
<1>2. IInv /\ [Next]_vars => [Lifecycle!LifecycleNext]_SeenRows
  <2>. SUFFICES ASSUME IInv, [Next]_vars PROVE Lifecycle!LifecycleNext \/ SeenRows' = SeenRows
    OBVIOUS
  <2>1. rows \in [Tasks -> Row]
    BY DEF IInv, TypeOK
  <2>2. CASE rows' = rows
    BY <2>2 DEF SeenRows
  <2>3. ASSUME NEW t \in Tasks, rows[t] = AbsentRow,
               rows' = [rows EXCEPT ![t] = [status |-> "queued", stamp |-> clock, claim |-> NoClaim]]
        PROVE  Lifecycle!LifecycleNext
    <3>1. SeenRows[t] = [status |-> "absent", claim |-> NoClaim]
      BY <2>3 DEF SeenRows, Observed, AbsentRow
    <3>2. SeenRows' = [SeenRows EXCEPT ![t] = [status |-> "queued", claim |-> NoClaim]]
      BY <2>1, <2>3 DEF SeenRows, Observed
    <3>3. Lifecycle!Insert(t)
      BY <3>1, <3>2 DEF Lifecycle!Insert, Lifecycle!AbsentRow, SeenRows
    <3>. QED  BY <3>3 DEF Lifecycle!LifecycleNext
  <2>4. ASSUME NEW t \in Tasks, rows' = [rows EXCEPT ![t] = [rows[t] EXCEPT !.stamp = clock]]
        PROVE  SeenRows' = SeenRows
    <3>1. Observed([rows[t] EXCEPT !.stamp = clock]) = Observed(rows[t])
      BY <2>1 DEF Observed, Row
    <3>. QED  BY <2>1, <2>4, <3>1 DEF SeenRows
  <2>. QED  BY <2>2, <2>3, <2>4, RowChanges, UpdateIsMove
<1>. QED  BY <1>1, <1>2, AlwaysIInv, PTL DEF Spec, ImplementsLifecycle, Lifecycle!LifecycleSpec, SeenRows

-----------------------------------------------------------------------------
(* What a call reports to its caller really happened. *)

\* seen[c] holds what the task of call c is now, and the target of its event once
\* its UPDATE has changed the row.
Witnessed(c) ==
  pc[c] # "idle" =>
    /\ Observed(rows[call[c].task]) \in seen[c]
    /\ (pc[c] = "sync" /\ call[c].event \in Events)
         => \E o \in seen[c] : o.status = TargetStatus[call[c].event]

CallsWitnessed == \A c \in Calls : Witnessed(c)

\* A write of a row is seen by every call in flight on its task.
LEMMA WriteIsWitnessed ==
  ASSUME IInv, CallsWitnessed, NEW t \in Tasks, NEW record,
         rows' = [rows EXCEPT ![t] = record],
         NEW d \in Calls, seen'[d] = SeenAfter(t, record)[d],
         pc'[d] = pc[d], call'[d].task = call[d].task, call'[d].event = call[d].event
  PROVE  Witnessed(d)'
<1>1. rows \in [Tasks -> Row] /\ InFlight(d) /\ Witnessed(d)
  BY DEF IInv, TypeOK, CallsInFlight, CallsWitnessed
<1>2. CASE pc[d] # "idle" /\ call[d].task = t
  BY <1>1, <1>2 DEF Witnessed, SeenAfter
<1>3. CASE pc[d] # "idle" /\ call[d].task # t
  BY <1>1, <1>3 DEF Witnessed, SeenAfter, InFlight
<1>4. CASE pc[d] = "idle"
  BY <1>4 DEF Witnessed
<1>. QED  BY <1>2, <1>3, <1>4

\* A return leaves what the other calls have seen alone.
LEMMA ReturnIsWitnessed ==
  ASSUME IInv, CallsWitnessed, NEW c \in Calls, NEW outcome, NEW stamp,
         Return(c, outcome, stamp), UNCHANGED rows
  PROVE  CallsWitnessed'
<1>1. /\ pc \in [Calls -> {"idle", "update", "reread", "sync"}]
      /\ DOMAIN call = Calls /\ DOMAIN seen = Calls
  BY DEF IInv, TypeOK
<1>2. pc'[c] = "idle" /\ \A d \in Calls \ {c} : pc'[d] = pc[d] /\ call'[d] = call[d] /\ seen'[d] = seen[d]
  BY <1>1 DEF Return, Finish, IInv, TypeOK
<1>. QED  BY <1>2 DEF CallsWitnessed, Witnessed

\* Every step keeps the witnesses.
LEMMA NextWitnessed == IInv /\ CallsWitnessed /\ [Next]_vars => CallsWitnessed'
<1>. SUFFICES ASSUME IInv, CallsWitnessed, [Next]_vars PROVE CallsWitnessed'
  OBVIOUS
<1>0. /\ pc \in [Calls -> {"idle", "update", "reread", "sync"}]
      /\ call \in [Calls -> StoreCallType] /\ seen \in [Calls -> SeenType]
      /\ \A c \in Calls : InFlight(c)
  BY DEF IInv, TypeOK, StoreCallType, SeenType, CallsInFlight
<1>1. CASE \E t \in Tasks : Create(t) \/ UpdateMetadata(t)
  BY <1>1, WriteIsWitnessed DEF Create, UpdateMetadata, WriteRow, CallsWitnessed
<1>2. ASSUME NEW c \in Calls, UpdateHits(c) PROVE CallsWitnessed'
  <2> DEFINE k == call[c]
             new == Updated(rows[k.task], k)
  <2>1. k.task \in Tasks /\ k.event \in Events \cup {Liveness}
    BY <1>0, <1>2 DEF UpdateHits, InFlight
  <2>2. rows' = [rows EXCEPT ![k.task] = new] /\ seen' = SeenAfter(k.task, new) /\ call' = call
    BY <1>2 DEF UpdateHits, WriteRow
  <2>3. pc[c] # "idle" /\ pc' = [pc EXCEPT ![c] = "sync"]
    BY <1>2 DEF UpdateHits
  <2>4. k.event \in Events => new.status = TargetStatus[k.event]
    BY DEF Updated, Transitioned, Events, Liveness
  <2>5. rows'[k.task] = new /\ seen'[c] = seen[c] \cup {Observed(new)}
    BY <2>1, <2>2, <2>3 DEF IInv, TypeOK, SeenAfter
  <2>. HIDE DEF new
  <2>6. Witnessed(c)'
    BY <2>2, <2>4, <2>5 DEF Witnessed, Observed
  <2>7. \A d \in Calls \ {c} : Witnessed(d)'
    BY <1>0, <2>1, <2>2, <2>3, WriteIsWitnessed
  <2>. QED  BY <2>6, <2>7 DEF CallsWitnessed
<1>3. ASSUME NEW c \in Calls, UpdateAnswerLost(c) PROVE CallsWitnessed'
  <2>1. pc' = pc /\ \A d \in Calls : call'[d].task = call[d].task /\ call'[d].event = call[d].event
    BY <1>0, <1>3 DEF UpdateAnswerLost, StoreCallType
  <2>2. call[c].task \in Tasks
    BY <1>0, <1>3 DEF UpdateAnswerLost, InFlight
  <2>3. CASE UNCHANGED <<rows, seen>>
    BY <2>1, <2>3 DEF CallsWitnessed, Witnessed
  <2>4. CASE WriteRow(call[c].task, Updated(rows[call[c].task], call[c]))
    BY <2>1, <2>2, <2>4, WriteIsWitnessed DEF WriteRow, CallsWitnessed
  <2>. QED  BY <1>3, <2>3, <2>4 DEF UpdateAnswerLost
<1>4. ASSUME NEW c \in Calls, UpdateThrows(c) PROVE CallsWitnessed'
  <2> DEFINE t == call[c].task
             new == Updated(rows[t], call[c])
  <2>1. CASE Return(c, "thrown", 0) /\ UNCHANGED rows
    BY <2>1, ReturnIsWitnessed
  <2>2. CASE /\ rows' = [rows EXCEPT ![t] = new]
             /\ seen' = [SeenAfter(t, new) EXCEPT ![c] = {}]
             /\ Finish(c, "thrown", 0)
    <3>1. t \in Tasks
      BY <1>0, <1>4 DEF UpdateThrows, InFlight
    <3>. HIDE DEF new
    <3>2. \A d \in Calls \ {c} : pc'[d] = pc[d] /\ call'[d] = call[d] /\ seen'[d] = SeenAfter(t, new)[d]
      BY <1>0, <2>2 DEF Finish, SeenAfter
    <3>3. pc'[c] = "idle"
      BY <1>0, <2>2 DEF Finish
    <3>4. \A d \in Calls \ {c} : Witnessed(d)'
      BY <2>2, <3>1, <3>2, WriteIsWitnessed
    <3>. QED  BY <3>3, <3>4 DEF CallsWitnessed, Witnessed
  <2>. QED  BY <1>4, <2>1, <2>2 DEF UpdateThrows
<1>5. CASE \E c \in Calls : Reread(c) \/ SyncDerivedTaskState(c) \/ Crash(c)
  BY <1>5, ReturnIsWitnessed DEF Reread, SyncDerivedTaskState, Crash
<1>6. ASSUME NEW c \in Calls, UpdateMisses(c) PROVE CallsWitnessed'
  BY <1>0, <1>6 DEF UpdateMisses, CallsWitnessed, Witnessed
<1>7. ASSUME NEW c \in Calls, NEW t \in Tasks, NEW op \in Operations, NEW k \in Claims \cup {NoClaim},
             Begin(c, t, op, k) \/ \E shown \in ActiveStatuses : BeginLiveness(c, t, shown, op, k)
      PROVE  CallsWitnessed'
  <2>1. rows' = rows
    BY <1>7 DEF Begin, BeginLiveness
  <2>2. CASE Return(c, "blocked", 0)
    BY <2>1, <2>2, ReturnIsWitnessed
  <2>3. CASE ~Return(c, "blocked", 0)
    <3>1. pc'[c] = "update" /\ call'[c].task = t /\ seen'[c] = {Observed(rows[t])}
      BY <1>0, <1>7, <2>3 DEF Begin, BeginLiveness
    <3>2. \A d \in Calls \ {c} : pc'[d] = pc[d] /\ call'[d] = call[d] /\ seen'[d] = seen[d]
      BY <1>0, <1>7, <2>3 DEF Begin, BeginLiveness
    <3>. QED  BY <2>1, <3>1, <3>2 DEF CallsWitnessed, Witnessed
  <2>. QED  BY <2>2, <2>3
<1>8. CASE Tick \/ (\E t \in Tasks : ExpireView(t)) \/ UNCHANGED vars
  BY <1>8 DEF Tick, ExpireView, vars, CallsWitnessed, Witnessed
<1>. QED
  BY <1>1, <1>2, <1>3, <1>4, <1>5, <1>6, <1>7, <1>8 DEF Next, CallStep

\* What is true of the calls and of what they have seen, all the time
LEMMA AlwaysWitnessed == Spec => [](IInv /\ CallsWitnessed)
<1>1. Init => CallsWitnessed
  BY DEF Init, CallsWitnessed, Witnessed
<1>. QED  BY <1>1, InitIInv, NextIInv, NextWitnessed, PTL DEF Spec

\* The steps in which a call returns
LEMMA Returns ==
  ASSUME IInv, [Next]_vars, NEW c \in Calls, pc[c] # "idle", pc'[c] = "idle"
  PROVE  Reread(c) \/ SyncDerivedTaskState(c) \/ Crash(c) \/ UpdateThrows(c)
<1>1. pc \in [Calls -> {"idle", "update", "reread", "sync"}]
  BY DEF IInv, TypeOK
<1>2. ASSUME NEW d \in Calls, d # c, NEW at, pc' = [pc EXCEPT ![d] = at] PROVE FALSE
  BY <1>1, <1>2
<1>3. ASSUME NEW d \in Calls, Reread(d) \/ SyncDerivedTaskState(d) \/ Crash(d) \/ UpdateThrows(d)
      PROVE  d = c
  BY <1>2, <1>3 DEF Reread, SyncDerivedTaskState, Crash, UpdateThrows, Return, Finish
<1>4. ~\E d \in Calls : UpdateHits(d) \/ UpdateMisses(d) \/ UpdateAnswerLost(d)
  BY <1>1 DEF UpdateHits, UpdateMisses, UpdateAnswerLost
<1>5. ~\E d \in Calls, t \in Tasks, op \in Operations, k \in Claims \cup {NoClaim} :
         Begin(d, t, op, k) \/ \E shown \in ActiveStatuses : BeginLiveness(d, t, shown, op, k)
  BY <1>1 DEF Begin, BeginLiveness, Return, Finish
<1>6. ~(Tick \/ (\E t \in Tasks : Create(t) \/ UpdateMetadata(t) \/ ExpireView(t)) \/ UNCHANGED vars)
  BY DEF Tick, Create, UpdateMetadata, ExpireView, vars
<1>. QED  BY <1>3, <1>4, <1>5, <1>6 DEF Next, CallStep

\* What a call that returns puts into result, and how it got there
LEMMA ReportOf ==
  ASSUME IInv, [Next]_vars, NEW c \in Calls, ReturnsTransition(c)
  PROVE  \/ /\ pc[c] = "sync"
            /\ result'[c] = [outcome |-> "changed", stamp |-> call[c].now]
         \/ /\ pc[c] = "reread"
            /\ result'[c] = Verdict(rows[call[c].task], call[c])
         \/ result'[c].outcome \in {"none", "thrown"}
<1>1. DOMAIN result = Calls
  BY DEF IInv, TypeOK
<1>2. call[c].event # Liveness
  BY DEF ReturnsTransition, Events, Liveness
<1>3. CASE Reread(c)
  <2> DEFINE v == Verdict(rows[call[c].task], call[c])
  <2>1. v = [outcome |-> v.outcome, stamp |-> v.stamp]
    BY DEF Verdict
  <2>. HIDE DEF v
  <2>2. result' = [result EXCEPT ![c] = [outcome |-> v.outcome, stamp |-> v.stamp]]
    BY <1>2, <1>3 DEF Reread, Return, Finish, v
  <2>3. result'[c] = v
    BY <1>1, <2>1, <2>2
  <2>. QED  BY <1>3, <2>3 DEF Reread, v
<1>4. CASE SyncDerivedTaskState(c)
  BY <1>1, <1>4 DEF SyncDerivedTaskState, Return, Finish
<1>5. CASE Crash(c) \/ UpdateThrows(c)
  BY <1>1, <1>5 DEF Crash, UpdateThrows, Return, Finish
<1>. QED  BY <1>3, <1>4, <1>5, Returns DEF ReturnsTransition

\* A call reports success only if the task really was in the event's target
\* status at some moment of the call, whoever put it there and whatever answers
\* were lost (transitionStatus, racedToTarget).
THEOREM SuccessIsTrue == Spec => SuccessWasTrue
<1>1. ASSUME IInv, CallsWitnessed, [Next]_vars, NEW c \in Calls,
             ReturnsTransition(c), Succeeded(result'[c])
      PROVE  \E o \in seen[c] : o.status = TargetStatus[call[c].event]
  <2>1. Witnessed(c) /\ pc[c] # "idle" /\ call[c].event \in Events
    BY <1>1 DEF CallsWitnessed, ReturnsTransition
  <2>2. CASE pc[c] = "sync"
    BY <2>1, <2>2 DEF Witnessed
  <2>3. CASE result'[c] = Verdict(rows[call[c].task], call[c])
    <3>1. rows[call[c].task].status = TargetStatus[call[c].event]
      BY <1>1, <2>3 DEF Verdict, Succeeded
    <3>. QED  BY <2>1, <3>1 DEF Witnessed, Observed
  <2>4. CASE result'[c].outcome \in {"none", "thrown"}
    BY <1>1, <2>4 DEF Succeeded
  <2>. QED  BY <1>1, <2>2, <2>3, <2>4, ReportOf
<1>2. IInv /\ CallsWitnessed /\ [Next]_vars =>
        [\A c \in Calls :
           (ReturnsTransition(c) /\ Succeeded(result'[c]))
             => \E o \in seen[c] : o.status = TargetStatus[call[c].event]]_vars
  BY <1>1
<1>. QED  BY <1>2, AlwaysWitnessed, PTL DEF Spec, SuccessWasTrue

\* A worker is told that its claim lease no longer matches only if the row really
\* had another claim, or none, at some moment of the call.
THEOREM StaleIsTrue == Spec => StaleWasTrue
<1>1. ASSUME IInv, CallsWitnessed, [Next]_vars, NEW c \in Calls,
             ReturnsTransition(c), result'[c].outcome = "stale"
      PROVE  \E o \in seen[c] : o.claim # call[c].claim
  <2>1. Witnessed(c) /\ pc[c] # "idle"
    BY <1>1 DEF CallsWitnessed, ReturnsTransition
  <2>2. result'[c] = Verdict(rows[call[c].task], call[c])
    <3>1. result'[c] # [outcome |-> "changed", stamp |-> call[c].now]
      BY <1>1
    <3>2. result'[c].outcome \notin {"none", "thrown"}
      BY <1>1
    <3>. QED  BY <1>1, <3>1, <3>2, ReportOf
  <2>3. rows[call[c].task].claim # call[c].claim
    BY <1>1, <2>2 DEF Verdict
  <2>. QED  BY <2>1, <2>3 DEF Witnessed, Observed
<1>2. IInv /\ CallsWitnessed /\ [Next]_vars =>
        [\A c \in Calls :
           (ReturnsTransition(c) /\ result'[c].outcome = "stale")
             => \E o \in seen[c] : o.claim # call[c].claim]_vars
  BY <1>1
<1>. QED  BY <1>2, AlwaysWitnessed, PTL DEF Spec, StaleWasTrue

\* A successful retry of a queued task reports a newer attempt than the one that
\* was read, so that the queue's idempotency key is a new one too.
THEOREM RetryAdvances == Spec => RetryAttemptAdvances
<1>1. ASSUME IInv, [Next]_vars, NEW c \in Calls,
             ReturnsTransition(c), RequiresFreshQueueAttempt(call[c]), Succeeded(result'[c])
      PROVE  result'[c].stamp > call[c].stamp
  <2>1. /\ call[c].now > call[c].stamp /\ call[c].now \in Nat /\ call[c].stamp \in Nat
        /\ rows[call[c].task].stamp \in Nat
    BY <1>1 DEF IInv, TypeOK, CallsInFlight, InFlight, ReturnsTransition, Row
  <2>2. CASE result'[c] = [outcome |-> "changed", stamp |-> call[c].now]
    BY <2>1, <2>2
  <2>3. CASE result'[c] = Verdict(rows[call[c].task], call[c])
    <3>1. result'[c].stamp = rows[call[c].task].stamp /\ rows[call[c].task].stamp >= call[c].now
      BY <1>1, <2>3 DEF Verdict, Succeeded
    <3>. QED  BY <2>1, <3>1
  <2>4. CASE result'[c].outcome \in {"none", "thrown"}
    BY <1>1, <2>4 DEF Succeeded
  <2>. QED  BY <1>1, <2>2, <2>3, <2>4, ReportOf
<1>2. IInv /\ [Next]_vars =>
        [\A c \in Calls :
           (ReturnsTransition(c) /\ RequiresFreshQueueAttempt(call[c]) /\ Succeeded(result'[c]))
             => result'[c].stamp > call[c].stamp]_vars
  BY <1>1
<1>. QED  BY <1>2, AlwaysIInv, PTL DEF Spec, RetryAttemptAdvances

\* The tables keep their types, and no row that waits or has ended has a claim.
THEOREM StoreIsSafe == Spec => []StoreSafe
BY TypeCorrect, ClaimAlwaysReleased, PTL DEF StoreSafe

\* What a call reports (success, a lost claim, a new queue attempt) is so.
THEOREM AnswersAreTrue == Spec => AnswersWereTrue
BY SuccessIsTrue, StaleIsTrue, RetryAdvances DEF AnswersWereTrue

-----------------------------------------------------------------------------
(* QueuePublish: what is remembered or answered as published is with QStash,  *)
(* one process never sends a key twice at once, a dead letter leaves the      *)
(* cache only when its message is out, and the dead letter queue keeps its    *)
(* limit.  This is about a queue whose Redis client is the provider's own, or *)
(* that has none: the del of the cache's wrapper writes a record for a failed *)
(* message.                                                                   *)

-----------------------------------------------------------------------------
(* The inductive invariant *)

\* The stages at which a call holds the registration of its key
Publishing == {"sending", "accepted", "marking", "clearing", "persisting"}

\* A call has a queue and a key; QStash has its message from the acceptance on,
\* and from the send to the settling of its promise it is the registered one.
CallOK(c) ==
  /\ pub[c].at # "idle" => pub[c].queue \in Queues /\ pub[c].key \in Keys
  /\ pub[c].at \in {"accepted", "marking", "removing", "deleting"} => pub[c].key \in accepted
  /\ pub[c].at \in Publishing => inFlight[pub[c].queue][pub[c].key] = c
  /\ pub[c].at = "persisting" => pub[c].index # 0

\* m is a dead letter that has a copy in the cache, is in a queue, is retried by
\* a call, or is about to be stored by one.
IsLetter(m) ==
  \/ m \in stored
  \/ \E q \in Queues : \E i \in DOMAIN dlq[q] : m = dlq[q][i]
  \/ \E c \in Callers : m = [id |-> pub[c].entry, key |-> pub[c].key]
  \/ \E c \in Callers : pub[c].at = "persisting" /\ m = [id |-> pub[c].index, key |-> pub[c].key]

\* An id is one dead letter's, whatever copies there are of it.
LettersOK ==
  /\ \A m \in Letter : IsLetter(m) => m.id <= lastId
  /\ \A m, n \in Letter : IsLetter(m) /\ IsLetter(n) /\ m.id = n.id => m = n

QueueInv ==
  QueueTypeOK /\ MarkedIsAccepted /\ (\A c \in Callers : CallOK(c)) /\ LettersOK /\ DlqWithinLimit

-----------------------------------------------------------------------------
(* Lemmas about the operators of the model *)

\* splice leaves a sequence of the same elements, and no longer one.
LEMMA WithoutProperties ==
  ASSUME NEW S, NEW s \in Seq(S), NEW i \in Nat
  PROVE  /\ Without(s, i) \in Seq(S)
         /\ Len(Without(s, i)) <= Len(s)
         /\ \A j \in DOMAIN Without(s, i) : \E n \in DOMAIN s : Without(s, i)[j] = s[n]
<1>1. Len(s) \in Nat /\ DOMAIN s = 1..Len(s)
  BY LenProperties
<1>2. CASE i \in 1..Len(s)
  <2> DEFINE a == SubSeq(s, 1, i - 1)
             b == SubSeq(s, i + 1, Len(s))
  <2>1. /\ 1 \in Int /\ i - 1 \in Int /\ i + 1 \in Int /\ Len(s) \in Int
        /\ \A n \in 1..(i - 1) : s[n] \in S
        /\ \A n \in (i + 1)..Len(s) : s[n] \in S
    <3>1. \A n \in 1..Len(s) : s[n] \in S
      BY ElementOfSeq
    <3> QED BY <1>1, <1>2, <3>1
  <2>2. a \in Seq(S) /\ Len(a) = i - 1 /\ \A j \in 1..(i - 1) : a[j] = s[j]
    <3>1. /\ a \in Seq(S)
          /\ Len(a) = IF 1 <= i - 1 THEN (i - 1) - 1 + 1 ELSE 0
          /\ \A j \in 1 .. (i - 1) - 1 + 1 : a[j] = s[1 + j - 1]
      BY <2>1, SubSeqProperties, SMTT(30)
    <3>2. (IF 1 <= i - 1 THEN (i - 1) - 1 + 1 ELSE 0) = i - 1 /\ (i - 1) - 1 + 1 = i - 1
      BY <1>1, <1>2
    <3>3. \A j \in 1..(i - 1) : 1 + j - 1 = j
      OBVIOUS
    <3> HIDE DEF a
    <3> QED BY <3>1, <3>2, <3>3
  <2>3. b \in Seq(S) /\ Len(b) = Len(s) - i /\ \A j \in 1..(Len(s) - i) : b[j] = s[j + i]
    <3>1. /\ b \in Seq(S)
          /\ Len(b) = IF i + 1 <= Len(s) THEN Len(s) - (i + 1) + 1 ELSE 0
          /\ \A j \in 1 .. Len(s) - (i + 1) + 1 : b[j] = s[(i + 1) + j - 1]
      BY <2>1, SubSeqProperties, SMTT(30)
    <3> HIDE DEF b
    <3>2. ASSUME NEW j \in 1..(Len(s) - i)  PROVE b[j] = s[j + i]
      <4>1. j \in 1 .. Len(s) - (i + 1) + 1 /\ (i + 1) + j - 1 = j + i
        BY <1>1, <1>2
      <4> QED BY <3>1, <4>1
    <3>3. Len(b) = Len(s) - i
      <4>1. Len(b) = IF i + 1 <= Len(s) THEN Len(s) - (i + 1) + 1 ELSE 0
        BY <3>1
      <4>2. ASSUME NEW l \in Nat, i \in 1..l
            PROVE  (IF i + 1 <= l THEN l - (i + 1) + 1 ELSE 0) = l - i
        BY <4>2
      <4> QED BY <1>1, <1>2, <4>1, <4>2
    <3> QED BY <3>1, <3>2, <3>3
  <2>4. Without(s, i) = a \o b
    BY <1>2 DEF Without
  <2> HIDE DEF a, b
  <2> DEFINE c == a \o b
  <2>5. /\ c \in Seq(S) /\ Len(c) = Len(a) + Len(b)
        /\ \A j \in 1 .. Len(a) + Len(b) : c[j] = IF j <= Len(a) THEN a[j] ELSE b[j - Len(a)]
    BY <2>2, <2>3, ConcatProperties, Zenon
  <2>6. DOMAIN c = 1..Len(c)
    BY <2>5, LenProperties, Zenon
  <2> HIDE DEF c
  <2>7. Len(c) = Len(s) - 1
    BY <1>1, <1>2, <2>2, <2>3, <2>5
  <2>8. ASSUME NEW j \in 1..Len(c)  PROVE \E n \in DOMAIN s : c[j] = s[n]
    <3>1. CASE j <= i - 1
      <4>1. j \in 1..(i - 1) /\ j \in DOMAIN s /\ c[j] = a[j]
        BY <1>1, <1>2, <2>2, <2>3, <2>5, <2>7, <3>1
      <4> QED BY <2>2, <4>1
    <3>2. CASE ~(j <= i - 1)
      <4>1. /\ j - (i - 1) \in 1..(Len(s) - i) /\ j + 1 \in DOMAIN s /\ (j - (i - 1)) + i = j + 1
            /\ c[j] = b[j - (i - 1)]
        BY <1>1, <1>2, <2>2, <2>3, <2>5, <2>7, <3>2
      <4> QED BY <2>3, <4>1
    <3> QED BY <3>1, <3>2
  <2>9. c \in Seq(S) /\ Len(c) <= Len(s)
    BY <1>1, <2>5, <2>7
  <2>10. Without(s, i) = c
    BY <2>4 DEF c
  <2> QED BY <2>6, <2>8, <2>9, <2>10, Zenon
<1>3. CASE i \notin 1..Len(s)
  <2>1. Without(s, i) = s
    BY <1>3 DEF Without
  <2> QED BY <1>1, <2>1
<1> QED BY <1>2, <1>3

\* A queue that is cut by its first element keeps its other elements.
LEMMA TailProperties ==
  ASSUME NEW S, NEW s \in Seq(S), Len(s) # 0
  PROVE  /\ Tail(s) \in Seq(S)
         /\ Len(Tail(s)) = Len(s) - 1
         /\ \A j \in DOMAIN Tail(s) : j + 1 \in DOMAIN s /\ Tail(s)[j] = s[j + 1]
<1>1. s # <<>>
  BY EmptySeq
<1> QED BY <1>1, HeadTailProperties, LenProperties

\* _addProcessedMessage remembers the key, and no other one that is new.
LEMMA RememberProperties ==
  ASSUME processed \in [Queues -> Seq(Keys)], NEW q \in Queues, NEW k \in Keys, Remember(q, k)
  PROVE  /\ processed' \in [Queues -> Seq(Keys)]
         /\ \A p \in Queues : Seen(p)' \subseteq Seen(p) \cup {k}
<1> DEFINE s == processed[q]
           t == IF Len(s) = LocalLimit THEN Append(Tail(s), k) ELSE Append(s, k)
<1>1. s \in Seq(Keys)
  OBVIOUS
<1>2. t \in Seq(Keys) /\ \A j \in DOMAIN t : t[j] = k \/ \E n \in DOMAIN s : t[j] = s[n]
  <2>1. CASE Len(s) = LocalLimit
    <3> HIDE DEF s
    <3>1. Len(s) # 0
      BY <2>1, QueuePublishAssumption
    <3>2. /\ Tail(s) \in Seq(Keys)
          /\ \A j \in DOMAIN Tail(s) : \E n \in DOMAIN s : Tail(s)[j] = s[n]
      BY <1>1, <3>1, TailProperties
    <3>3. Len(Tail(s)) \in Nat /\ DOMAIN Tail(s) = 1..Len(Tail(s))
      BY <3>2, LenProperties
    <3> QED BY <2>1, <3>2, <3>3, AppendProperties, LenProperties
  <2>2. CASE Len(s) # LocalLimit
    <3>1. Len(s) \in Nat /\ DOMAIN s = 1..Len(s)
      BY <1>1, LenProperties
    <3> HIDE DEF s
    <3> QED BY <1>1, <2>2, <3>1, AppendProperties, LenProperties
  <2> QED BY <2>1, <2>2
<1> HIDE DEF t
<1>3. processed' = [processed EXCEPT ![q] = IF k \in Seen(q) THEN s ELSE t]
  BY DEF Remember, t
<1>4. ASSUME NEW p \in Queues  PROVE Seen(p)' \subseteq Seen(p) \cup {k}
  BY <1>2, <1>3 DEF Seen
<1> QED BY <1>2, <1>3, <1>4


\* The fields of a call
LEMMA CallFields ==
  ASSUME QueueTypeOK, NEW c \in Callers
  PROVE  /\ pub[c] \in CallType
         /\ pub[c].key \in Keys \cup {None} /\ pub[c].entry \in Nat /\ pub[c].index \in Nat
  BY DEF QueueTypeOK, CallType

\* A result that may be returned
Results == {"none", "ok", "duplicate", "failed"}

\* A call that ends keeps nothing but its result.
LEMMA ReturnedFields ==
  ASSUME NEW verdict \in Results
  PROVE  /\ Returned(verdict) \in CallType
         /\ Returned(verdict).at = "idle" /\ Returned(verdict).result = verdict
         /\ Returned(verdict).entry = 0
  BY DEF Returned, NoPublish, CallType, Results

\* A publish ends when its promise settles, a retry that was not in vain goes on.
LEMMA SettledFields ==
  ASSUME NEW e \in CallType, NEW verdict \in Results
  PROVE  /\ Settled(e, verdict) \in CallType
         /\ \/ Settled(e, verdict) = Returned(verdict)
            \/ /\ Settled(e, verdict) = [e EXCEPT !.at = "removing", !.result = verdict]
               /\ verdict # "failed"
  BY ReturnedFields DEF Settled, CallType, Results


-----------------------------------------------------------------------------
(* What steps of one kind keep of the invariant *)

\* Ids stay unique when there is no new letter.
LEMMA LettersKept ==
  ASSUME LettersOK, lastId' = lastId, \A m \in Letter : IsLetter(m)' => IsLetter(m)
  PROVE  LettersOK'
  BY DEF LettersOK

\* A call stays as it should be while it and the registration of its key do.
LEMMA CallKept ==
  ASSUME NEW c \in Callers, CallOK(c), pub'[c] = pub[c], accepted \subseteq accepted',
         pub[c].at \in Publishing =>
           inFlight'[pub[c].queue][pub[c].key] = inFlight[pub[c].queue][pub[c].key]
  PROVE  CallOK(c)'
  BY DEF CallOK

\* The calls that are about to store a dead letter of queue q
Persisting(q) == {c \in Callers : pub[c].at = "persisting" /\ pub[c].queue = q}

LEMMA PersistingIsFinite ==
  ASSUME NEW q
  PROVE  IsFiniteSet(Persisting(q)) /\ Cardinality(Persisting(q)) \in Nat
  BY QueuePublishAssumption, FS_Subset, FS_CardinalityType DEF Persisting

\* The limit of the dead letters holds on when no queue grows and no call has
\* stored its letter.
LEMMA DlqKept ==
  ASSUME QueueTypeOK, QueueTypeOK', DlqWithinLimit,
         \A q \in Queues : Len(dlq'[q]) <= Len(dlq[q]) /\ Persisting(q)' = Persisting(q)
  PROVE  DlqWithinLimit'
<1> SUFFICES ASSUME NEW q \in Queues
             PROVE  Len(dlq'[q]) <= MaxDlq + Cardinality(Persisting(q)')
  BY DEF DlqWithinLimit, Persisting
<1>1. Len(dlq[q]) \in Nat /\ Len(dlq'[q]) \in Nat
  BY LenProperties DEF QueueTypeOK
<1>2. Len(dlq[q]) <= MaxDlq + Cardinality(Persisting(q))
  BY DEF DlqWithinLimit, Persisting
<1> QED BY <1>1, <1>2, PersistingIsFinite, QueuePublishAssumption

\* A step of one call, which neither registers nor stores a dead letter: the
\* others stay as they are, and so do the ids.
LEMMA QueueCallStep ==
  ASSUME QueueInv, QueueTypeOK', MarkedIsAccepted', NEW c \in Callers, CallOK(c)',
         \A d \in Callers : d # c => pub'[d] = pub[d],
         pub[c].at # "persisting", pub'[c].at # "persisting",
         accepted \subseteq accepted', stored' \subseteq stored, lastId' = lastId,
         \A d \in Callers : d # c /\ pub[d].at \in Publishing =>
           inFlight'[pub[d].queue][pub[d].key] = inFlight[pub[d].queue][pub[d].key],
         \A q \in Queues : /\ Len(dlq'[q]) <= Len(dlq[q])
                           /\ \A i \in DOMAIN dlq'[q] : \E n \in DOMAIN dlq[q] : dlq'[q][i] = dlq[q][n],
         pub'[c].entry = 0 \/ IsLetter([id |-> pub'[c].entry, key |-> pub'[c].key])
  PROVE  QueueInv'
<1> USE DEF QueueInv
<1>1. ASSUME NEW d \in Callers  PROVE CallOK(d)'
  BY CallKept
<1>2. ASSUME NEW m \in Letter, IsLetter(m)'  PROVE IsLetter(m)
  <2>1. CASE m \in stored'
    BY <2>1 DEF IsLetter
  <2>2. CASE \E q \in Queues : \E i \in DOMAIN dlq'[q] : m = dlq'[q][i]
    BY <2>2 DEF IsLetter
  <2>3. ASSUME NEW d \in Callers, m = [id |-> pub'[d].entry, key |-> pub'[d].key]
        PROVE  IsLetter(m)
    <3>1. CASE d = c
      <4>1. m.id = pub'[c].entry /\ m.id # 0
        BY <2>3, <3>1 DEF Letter
      <4> QED BY <2>3, <3>1, <4>1
    <3>2. CASE d # c
      BY <2>3, <3>2 DEF IsLetter
    <3> QED BY <3>1, <3>2
  <2>4. ASSUME NEW d \in Callers, pub'[d].at = "persisting", m = [id |-> pub'[d].index, key |-> pub'[d].key]
        PROVE  IsLetter(m)
    BY <2>4 DEF IsLetter
  <2> QED BY <1>2, <2>1, <2>2, <2>3, <2>4 DEF IsLetter
<1>3. LettersOK'
  BY <1>2, LettersKept
<1>4. \A q \in Queues : Persisting(q)' = Persisting(q)
  BY DEF Persisting
<1>5. DlqWithinLimit'
  BY <1>4, DlqKept
<1> QED BY <1>1, <1>3, <1>5

\* The settling of a promise lets nobody store a letter but its own call.
LEMMA SettlePersisting ==
  ASSUME QueueTypeOK, NEW c \in Callers, NEW verdict \in {"ok", "failed"}, Settle(c, verdict), NEW q
  PROVE  Persisting(q)' = Persisting(q) \ {c}
<1>1. ASSUME NEW d \in Callers
      PROVE  \/ pub'[d] = pub[d] /\ d # c
             \/ pub'[d].at # "persisting" /\ (d = c \/ pub[d].at # "persisting")
  <2>1. pub[d] \in CallType /\ verdict \in Results
    BY DEF QueueTypeOK, Results
  <2>2. Settled(pub[d], verdict).at # "persisting"
    <3>1. CASE Settled(pub[d], verdict) = Returned(verdict)
      BY <2>1, <3>1, ReturnedFields
    <3>2. CASE Settled(pub[d], verdict) = [pub[d] EXCEPT !.at = "removing", !.result = verdict]
      BY <2>1, <3>2 DEF CallType
    <3> QED BY <2>1, <3>1, <3>2, SettledFields
  <2>3. \/ pub'[d] = pub[d] /\ d # c
        \/ pub'[d] = Settled(pub[d], verdict) /\ (d = c \/ pub[d].at = "joined")
    BY DEF Settle
  <2> QED BY <2>2, <2>3
<1> QED BY <1>1 DEF Persisting

\* The promise of a call settles: those who share it end or go on with it, and
\* its registration is gone, which is nobody else's.
LEMMA SettleStep ==
  ASSUME QueueInv, NEW c \in Callers, NEW verdict \in {"ok", "failed"}, Settle(c, verdict),
         pub[c].at \in Publishing, verdict = "ok" => pub[c].key \in accepted,
         accepted' = accepted, lastId' = lastId,
         processed' \in [Queues -> Seq(Keys)], redis' \subseteq Keys, faults' \in 0..MaxFaults,
         dlq' \in [Queues -> Seq(Letter)],
         \A q \in Queues : \A i \in DOMAIN dlq'[q] : \E n \in DOMAIN dlq[q] : dlq'[q][i] = dlq[q][n],
         \A m \in stored' : m \in Letter /\ IsLetter(m),
         MarkedIsAccepted', DlqWithinLimit'
  PROVE  QueueInv'
<1> DEFINE e == pub[c]
           Shares(d) == d = c \/ (pub[d].at = "joined" /\ pub[d].queue = e.queue /\ pub[d].key = e.key)
<1> USE DEF QueueInv
<1>0. verdict \in Results
  BY DEF Results
<1>1. /\ pub' = [d \in Callers |-> IF Shares(d) THEN Settled(pub[d], verdict) ELSE pub[d]]
      /\ inFlight' = [inFlight EXCEPT ![e.queue][e.key] = None]
  BY DEF Settle
<1>2. e.queue \in Queues /\ e.key \in Keys /\ inFlight[e.queue][e.key] = c
  BY DEF CallOK, Publishing
<1> HIDE DEF Shares
<1>3. \A d \in Callers : /\ Shares(d) \/ pub'[d] = pub[d]
                         /\ Shares(d) => pub'[d] = Settled(pub[d], verdict)
  BY <1>1
<1>4. ASSUME NEW d \in Callers  PROVE pub'[d] \in CallType
  <2>1. pub[d] \in CallType
    BY DEF QueueTypeOK
  <2>2. Settled(pub[d], verdict) \in CallType
    BY <1>0, <2>1, SettledFields
  <2> QED BY <1>3, <2>1, <2>2
<1>5. QueueTypeOK'
  <2>1. pub' \in [Callers -> CallType]
    BY <1>1, <1>4
  <2>2. inFlight' \in [Queues -> [Keys -> Callers \cup {None}]]
    BY <1>1, <1>2 DEF QueueTypeOK
  <2>3. stored' \subseteq Letter /\ accepted' \subseteq Keys /\ lastId' \in Nat
    BY DEF QueueTypeOK
  <2> QED BY <2>1, <2>2, <2>3 DEF QueueTypeOK
<1>6. ASSUME NEW d \in Callers, Shares(d)
      PROVE  \/ pub'[d].at = "idle" /\ pub'[d].entry = 0
             \/ /\ pub'[d].at = "removing" /\ verdict = "ok"
                /\ pub'[d].queue = e.queue /\ pub'[d].key = e.key /\ pub'[d].key = pub[d].key
                /\ pub'[d].entry = pub[d].entry
  <2>1. pub[d] \in CallType
    BY DEF QueueTypeOK
  <2>2. pub[d].queue = e.queue /\ pub[d].key = e.key
    BY <1>6 DEF Shares
  <2>3. CASE pub'[d] = Returned(verdict)
    BY <1>0, <2>3, ReturnedFields
  <2>4. CASE pub'[d] = [pub[d] EXCEPT !.at = "removing", !.result = verdict] /\ verdict # "failed"
    BY <2>1, <2>2, <2>4 DEF CallType
  <2>5. pub'[d] = Settled(pub[d], verdict)
    BY <1>3, <1>6
  <2> QED BY <1>0, <2>1, <2>3, <2>4, <2>5, SettledFields
<1>7. ASSUME NEW d \in Callers  PROVE CallOK(d)'
  <2>1. CASE Shares(d)
    BY <1>2, <1>6, <2>1 DEF CallOK, Publishing
  <2>2. CASE ~Shares(d)
    <3>1. d # c /\ pub'[d] = pub[d] /\ CallOK(d)
      BY <1>3, <2>2 DEF Shares
    <3>2. ASSUME pub[d].at \in Publishing
          PROVE  inFlight'[pub[d].queue][pub[d].key] = inFlight[pub[d].queue][pub[d].key]
      <4>1. /\ pub[d].queue \in Queues /\ pub[d].key \in Keys
            /\ inFlight[pub[d].queue][pub[d].key] = d
        BY <3>1, <3>2 DEF CallOK, Publishing
      <4>2. pub[d].queue # e.queue \/ pub[d].key # e.key
        BY <1>2, <3>1, <4>1
      <4> QED BY <1>1, <1>2, <4>1, <4>2 DEF QueueTypeOK
    <3> QED BY <3>1, <3>2, CallKept
  <2> QED BY <2>1, <2>2
<1>8. ASSUME NEW m \in Letter, IsLetter(m)'  PROVE IsLetter(m)
  <2>1. CASE m \in stored'
    BY <2>1
  <2>4. CASE \E q \in Queues : \E i \in DOMAIN dlq'[q] : m = dlq'[q][i]
    BY <2>4 DEF IsLetter
  <2>2. ASSUME NEW d \in Callers, m = [id |-> pub'[d].entry, key |-> pub'[d].key]
        PROVE  IsLetter(m)
    <3>1. pub'[d].entry # 0
      BY <2>2 DEF Letter
    <3>2. pub'[d].entry = pub[d].entry /\ pub'[d].key = pub[d].key
      BY <1>3, <1>6, <3>1
    <3> QED BY <2>2, <3>2 DEF IsLetter
  <2>3. ASSUME NEW d \in Callers, pub'[d].at = "persisting", m = [id |-> pub'[d].index, key |-> pub'[d].key]
        PROVE  IsLetter(m)
    <3>1. pub'[d] = pub[d]
      BY <1>3, <1>6, <2>3
    <3> QED BY <2>3, <3>1 DEF IsLetter
  <2> QED BY <1>8, <2>1, <2>2, <2>3, <2>4 DEF IsLetter
<1>9. LettersOK'
  BY <1>8, LettersKept
<1> QED BY <1>5, <1>7, <1>9


-----------------------------------------------------------------------------
(* The invariant is inductive *)

LEMMA InitQueueInv == QueueInit => QueueInv
<1> SUFFICES ASSUME QueueInit  PROVE QueueInv
  OBVIOUS
<1>1. /\ processed = [q \in Queues |-> <<>>] /\ dlq = [q \in Queues |-> <<>>]
      /\ inFlight = [q \in Queues |-> [k \in Keys |-> None]]
      /\ redis = {} /\ accepted = {} /\ stored = {} /\ lastId = 0 /\ faults = MaxFaults
      /\ pub = [c \in Callers |-> NoPublish]
      /\ NoPublish \in CallType /\ NoPublish.at = "idle" /\ NoPublish.entry = 0
  BY DEF QueueInit, NoPublish, CallType
<1>2. QueueTypeOK
  BY <1>1, EmptySeq, QueuePublishAssumption DEF QueueTypeOK
<1>3. MarkedIsAccepted
  BY <1>1 DEF MarkedIsAccepted, Seen
<1>4. \A c \in Callers : CallOK(c)
  BY <1>1 DEF CallOK, Publishing
<1>5. \A m \in Letter : ~IsLetter(m)
  BY <1>1 DEF IsLetter, Letter
<1>6. ASSUME NEW q \in Queues  PROVE Len(dlq[q]) <= MaxDlq + Cardinality(Persisting(q))
  BY <1>1, EmptySeq, PersistingIsFinite, QueuePublishAssumption
<1> QED BY <1>2, <1>3, <1>4, <1>5, <1>6 DEF QueueInv, LettersOK, DlqWithinLimit, Persisting

\* The dead letter that a call retries, or [id |-> 0, ...], stays the same.
LEMMA SameLetter ==
  ASSUME NEW c \in Callers, pub'[c].entry = pub[c].entry, pub'[c].key = pub[c].key
  PROVE  IsLetter([id |-> pub'[c].entry, key |-> pub'[c].key])
  BY DEF IsLetter

\* A call begins: a new message, or a dead letter that there is.
LEMMA BeginIInv ==
  ASSUME QueueInv, NEW c \in Callers, NEW q \in Queues, NEW k \in Keys,
         NEW entry \in Nat, NEW index \in Nat, BeginPublish(c, q, k, entry, index),
         entry = 0 \/ IsLetter([id |-> entry, key |-> k])
  PROVE  QueueInv'
<1> DEFINE e == [NoPublish EXCEPT !.queue = q, !.key = k, !.entry = entry, !.index = index]
           at == IF UseRedis THEN "redis" ELSE "checked"
<1> USE DEF QueueInv
<1>1. /\ pub[c].at = "idle"
      /\ pub' = [pub EXCEPT ![c] = IF k \in Seen(q) THEN Settled(e, "duplicate") ELSE [e EXCEPT !.at = at]]
      /\ UNCHANGED <<processed, inFlight, redis, accepted, dlq, stored, lastId, faults>>
  BY DEF BeginPublish
<1>2. /\ e \in CallType /\ e.queue = q /\ e.key = k /\ e.entry = entry
      /\ at \in {"redis", "checked"} /\ [e EXCEPT !.at = at] \in CallType
  BY DEF CallType, NoPublish
<1> HIDE DEF e, at
<1>3. pub \in [Callers -> CallType]
  BY DEF QueueTypeOK
<1>4. /\ pub'[c] \in CallType
      /\ \/ pub'[c].at = "idle" /\ pub'[c].entry = 0
         \/ /\ pub'[c].at \in {"redis", "checked", "removing"}
            /\ pub'[c].at = "removing" => k \in Seen(q)
            /\ pub'[c].queue = q /\ pub'[c].key = k /\ pub'[c].entry = entry
  <2>1. CASE k \in Seen(q)
    <3>1. pub'[c] = Settled(e, "duplicate") /\ "duplicate" \in Results
      BY <1>1, <1>3, <2>1 DEF Results
    <3>2. Settled(e, "duplicate") \in CallType
      BY <1>2, <3>1, SettledFields
    <3>3. CASE pub'[c] = Returned("duplicate")
      BY <3>1, <3>2, <3>3, ReturnedFields
    <3>4. CASE pub'[c] = [e EXCEPT !.at = "removing", !.result = "duplicate"]
      BY ZenonT(30), <1>2, <2>1, <3>1, <3>2, <3>4 DEF CallType
    <3> QED BY <1>2, <3>1, <3>3, <3>4, SettledFields
  <2>2. CASE k \notin Seen(q)
    BY <1>1, <1>2, <1>3, <2>2 DEF CallType
  <2> QED BY <2>1, <2>2
<1>5. QueueTypeOK'
  BY <1>1, <1>4 DEF QueueTypeOK
<1>6. MarkedIsAccepted' /\ (k \in Seen(q) => k \in accepted)
  BY <1>1 DEF MarkedIsAccepted, Seen
<1>7. CallOK(c)'
  BY <1>1, <1>4, <1>6 DEF CallOK, Publishing
<1>8. \A d \in Callers : d # c => pub'[d] = pub[d]
  BY <1>1
<1>9. pub'[c].entry = 0 \/ IsLetter([id |-> pub'[c].entry, key |-> pub'[c].key])
  BY <1>4
<1>10. \A p \in Queues : /\ Len(dlq'[p]) <= Len(dlq[p])
                         /\ \A i \in DOMAIN dlq'[p] : \E n \in DOMAIN dlq[p] : dlq'[p][i] = dlq[p][n]
  BY <1>1, LenProperties DEF QueueTypeOK
<1> QED BY <1>1, <1>4, <1>5, <1>6, <1>7, <1>8, <1>9, <1>10, QueueCallStep


\* A call looks at Redis, is registered, is taken by QStash or refused.
LEMMA OwnStepIInv ==
  ASSUME QueueInv, NEW c \in Callers, RedisMiss(c) \/ Join(c) \/ Send(c) \/ Accept(c) \/ SendFails(c)
  PROVE  QueueInv'
<1> DEFINE e == pub[c]
<1> USE DEF QueueInv
<1>1. PICK at \in {"checked", "joined", "sending", "accepted", "clearing"} :
        /\ pub' = [pub EXCEPT ![c].at = at]
        /\ e.at \in {"redis", "checked", "sending", "accepted"}
        /\ at = "accepted" => e.key \in accepted'
        /\ at \in Publishing => inFlight'[e.queue][e.key] = c
        /\ UNCHANGED <<processed, redis, dlq, stored, lastId>>
        /\ faults' \in 0..MaxFaults
        /\ accepted' \in {accepted, accepted \cup {e.key}}
        /\ inFlight' = inFlight \/ (/\ inFlight[e.queue][e.key] = None
                                    /\ inFlight' = [inFlight EXCEPT ![e.queue][e.key] = c])
  <2>1. e.at # "idle" => e.queue \in Queues /\ e.key \in Keys
    BY DEF CallOK
  <2>2. (Fault \/ NoFault) => faults' \in 0..MaxFaults
    BY QueuePublishAssumption DEF Fault, NoFault, QueueTypeOK
  <2>3. CASE RedisMiss(c)
    BY <2>2, <2>3 DEF RedisMiss, Goto, Publishing
  <2>4. CASE Join(c)
    BY <2>4 DEF Join, Goto, Publishing, QueueTypeOK
  <2>5. CASE Send(c)
    <3>1. inFlight'[e.queue][e.key] = c
      BY <2>1, <2>5 DEF Send, QueueTypeOK
    <3> QED BY <2>5, <3>1 DEF Send, Goto, Publishing, QueueTypeOK
  <2>6. CASE Accept(c)
    BY <2>6 DEF Accept, Goto, Publishing, QueueTypeOK, CallOK
  <2>7. CASE SendFails(c)
    BY <2>2, <2>7 DEF SendFails, Goto, Publishing, QueueTypeOK, CallOK
  <2> QED BY <2>3, <2>4, <2>5, <2>6, <2>7
<1>2. e \in CallType /\ e.queue \in Queues /\ e.key \in Keys
  BY <1>1 DEF QueueTypeOK, CallOK
<1>3. /\ pub'[c] \in CallType
      /\ pub'[c].at = at /\ pub'[c].queue = e.queue /\ pub'[c].key = e.key /\ pub'[c].entry = e.entry
      /\ \A d \in Callers : d # c => pub'[d] = pub[d]
  BY <1>1, <1>2 DEF QueueTypeOK, CallType
<1>4. QueueTypeOK'
  <2>1. pub' \in [Callers -> CallType]
    BY <1>1, <1>3 DEF QueueTypeOK
  <2>2. inFlight' \in [Queues -> [Keys -> Callers \cup {None}]]
    <3>1. CASE inFlight' = inFlight
      BY <3>1 DEF QueueTypeOK
    <3>2. CASE inFlight' = [inFlight EXCEPT ![e.queue][e.key] = c]
      BY <1>2, <3>2 DEF QueueTypeOK
    <3> QED BY <1>1, <3>1, <3>2
  <2> QED BY <1>1, <1>2, <2>1, <2>2 DEF QueueTypeOK
<1>5. MarkedIsAccepted'
  BY <1>1 DEF MarkedIsAccepted, Seen
<1>6. CallOK(c)'
  BY <1>1, <1>2, <1>3 DEF CallOK
<1>7. ASSUME NEW d \in Callers, d # c, pub[d].at \in Publishing
      PROVE  inFlight'[pub[d].queue][pub[d].key] = inFlight[pub[d].queue][pub[d].key]
  <2>1. pub[d].queue \in Queues /\ pub[d].key \in Keys /\ inFlight[pub[d].queue][pub[d].key] = d
    BY <1>7 DEF CallOK, Publishing
  <2>2. CASE inFlight' = inFlight
    BY <2>2
  <2>3. CASE /\ inFlight[e.queue][e.key] = None
             /\ inFlight' = [inFlight EXCEPT ![e.queue][e.key] = c]
    <3>1. e.queue # pub[d].queue \/ e.key # pub[d].key
      BY <2>1, <2>3, QueuePublishAssumption
    <3> QED BY <1>2, <2>1, <2>3, <3>1 DEF QueueTypeOK
  <2> QED BY <1>1, <2>2, <2>3
<1>8. \A q \in Queues : /\ Len(dlq'[q]) <= Len(dlq[q])
                        /\ \A i \in DOMAIN dlq'[q] : \E n \in DOMAIN dlq[q] : dlq'[q][i] = dlq[q][n]
  BY <1>1, LenProperties DEF QueueTypeOK
<1>9. IsLetter([id |-> pub'[c].entry, key |-> pub'[c].key])
  BY <1>3, SameLetter
<1> QED BY <1>1, <1>3, <1>4, <1>5, <1>6, <1>7, <1>8, <1>9, QueueCallStep

\* Redis has a success record: the key is remembered, too, and answered.
LEMMA RedisHitIInv ==
  ASSUME QueueInv, NEW c \in Callers, RedisHit(c)
  PROVE  QueueInv'
<1> DEFINE e == pub[c]
<1> USE DEF QueueInv
<1>1. /\ e.at = "redis" /\ e.key \in redis
      /\ Remember(e.queue, e.key)
      /\ pub' = [pub EXCEPT ![c] = Settled(e, "duplicate")]
      /\ UNCHANGED <<inFlight, redis, accepted, dlq, stored, lastId, faults>>
  BY DEF RedisHit
<1>2. e \in CallType /\ e.queue \in Queues /\ e.key \in Keys /\ e.key \in accepted
  BY <1>1 DEF QueueTypeOK, CallOK, MarkedIsAccepted
<1>3. /\ pub'[c] \in CallType
      /\ \/ pub'[c].at = "idle" /\ pub'[c].entry = 0
         \/ /\ pub'[c].at = "removing" /\ pub'[c].queue = e.queue
            /\ pub'[c].key = e.key /\ pub'[c].entry = e.entry
  <2>1. pub'[c] = Settled(e, "duplicate") /\ "duplicate" \in Results
    BY <1>1 DEF QueueTypeOK, Results
  <2>2. Settled(e, "duplicate") \in CallType
    BY <1>2, <2>1, SettledFields
  <2>3. CASE pub'[c] = Returned("duplicate")
    BY <2>1, <2>2, <2>3, ReturnedFields
  <2>4. CASE pub'[c] = [e EXCEPT !.at = "removing", !.result = "duplicate"]
    BY <1>2, <2>1, <2>2, <2>4 DEF CallType
  <2> QED BY <1>2, <2>1, <2>3, <2>4, SettledFields
<1>4. processed' \in [Queues -> Seq(Keys)] /\ \A p \in Queues : Seen(p)' \subseteq Seen(p) \cup {e.key}
  BY <1>1, <1>2, RememberProperties DEF QueueTypeOK
<1>5. QueueTypeOK' /\ MarkedIsAccepted'
  BY <1>1, <1>2, <1>3, <1>4 DEF QueueTypeOK, MarkedIsAccepted
<1>6. CallOK(c)'
  BY <1>1, <1>2, <1>3 DEF CallOK, Publishing
<1>7. pub'[c].entry = 0 \/ IsLetter([id |-> pub'[c].entry, key |-> pub'[c].key])
  BY <1>3, SameLetter
<1>8. \A q \in Queues : /\ Len(dlq'[q]) <= Len(dlq[q])
                        /\ \A i \in DOMAIN dlq'[q] : \E n \in DOMAIN dlq[q] : dlq'[q][i] = dlq[q][n]
  BY <1>1, LenProperties DEF QueueTypeOK
<1>9. \A d \in Callers : d # c => pub'[d] = pub[d]
  BY <1>1
<1> QED BY <1>1, <1>3, <1>5, <1>6, <1>7, <1>8, <1>9, QueueCallStep


\* The answer of QStash: the key is remembered, and the promise settles or the
\* record in Redis is to be written first.
LEMMA AnswerIInv ==
  ASSUME QueueInv, NEW c \in Callers, Answer(c)
  PROVE  QueueInv'
<1> DEFINE e == pub[c]
<1> USE DEF QueueInv
<1>1. /\ e.at = "accepted"
      /\ Remember(e.queue, e.key)
      /\ UNCHANGED <<redis, accepted, dlq, stored, lastId, faults>>
      /\ \/ pub' = [pub EXCEPT ![c].at = "marking"] /\ UNCHANGED inFlight
         \/ Settle(c, "ok")
  BY DEF Answer, Goto
<1>2. e \in CallType /\ e.queue \in Queues /\ e.key \in Keys /\ e.key \in accepted
  BY <1>1 DEF QueueTypeOK, CallOK
<1>3. processed' \in [Queues -> Seq(Keys)] /\ \A p \in Queues : Seen(p)' \subseteq Seen(p) \cup {e.key}
  BY <1>1, <1>2, RememberProperties DEF QueueTypeOK
<1>4. MarkedIsAccepted'
  BY <1>1, <1>2, <1>3 DEF MarkedIsAccepted
<1>5. /\ dlq \in [Queues -> Seq(Letter)]
      /\ \A q \in Queues : Len(dlq[q]) <= Len(dlq[q])
  BY LenProperties DEF QueueTypeOK
<1>6. CASE pub' = [pub EXCEPT ![c].at = "marking"] /\ UNCHANGED inFlight
  <2>1. /\ pub'[c] \in CallType /\ pub'[c].at = "marking"
        /\ pub'[c].queue = e.queue /\ pub'[c].key = e.key /\ pub'[c].entry = e.entry
        /\ \A d \in Callers : d # c => pub'[d] = pub[d]
    BY <1>2, <1>6 DEF QueueTypeOK, CallType
  <2>2. QueueTypeOK'
    BY <1>1, <1>3, <1>6, <2>1 DEF QueueTypeOK
  <2>3. CallOK(c)'
    BY <1>1, <1>2, <1>6, <2>1 DEF CallOK, Publishing
  <2>4. IsLetter([id |-> pub'[c].entry, key |-> pub'[c].key])
    BY <2>1, SameLetter
  <2> QED BY <1>1, <1>4, <1>5, <1>6, <2>1, <2>2, <2>3, <2>4, QueueCallStep
<1>7. CASE Settle(c, "ok")
  <2>1. \A q \in Queues : Persisting(q)' = Persisting(q)
    BY <1>1, <1>7, SettlePersisting DEF Persisting
  <2>2. DlqWithinLimit'
    BY <1>1, <2>1 DEF DlqWithinLimit, Persisting
  <2> QED BY <1>1, <1>2, <1>3, <1>4, <1>5, <1>7, <2>2, SettleStep DEF Publishing, QueueTypeOK, IsLetter
<1> QED BY <1>1, <1>6, <1>7


\* The record in Redis is written or fails, and the promise settles.
LEMMA MarkIInv ==
  ASSUME QueueInv, NEW c \in Callers, Mark(c)
  PROVE  QueueInv'
<1> DEFINE e == pub[c]
<1> USE DEF QueueInv
<1>1. /\ e.at = "marking" /\ e.key \in Keys /\ e.key \in accepted
      /\ redis' \in {redis, redis \cup {e.key}}
      /\ faults' \in 0..MaxFaults
      /\ Settle(c, "ok")
      /\ UNCHANGED <<processed, accepted, dlq, stored, lastId>>
  BY QueuePublishAssumption DEF Mark, Fault, NoFault, QueueTypeOK, CallOK
<1>2. MarkedIsAccepted'
  BY <1>1 DEF MarkedIsAccepted, Seen
<1>3. \A q \in Queues : Persisting(q)' = Persisting(q)
  BY <1>1, SettlePersisting DEF Persisting
<1>4. DlqWithinLimit'
  BY <1>1, <1>3 DEF DlqWithinLimit, Persisting
<1> QED BY <1>1, <1>2, <1>4, SettleStep DEF Publishing, QueueTypeOK, IsLetter

\* A message that failed becomes a dead letter with an id of its own.
LEMMA ClearIInv ==
  ASSUME QueueInv, RawClient \/ ~UseRedis, NEW c \in Callers, Clear(c)
  PROVE  QueueInv'
<1> DEFINE e == pub[c]
           new == [id |-> lastId + 1, key |-> e.key]
<1> USE DEF QueueInv
<1>1. /\ e.at = "clearing" /\ e \in CallType /\ e.queue \in Queues /\ e.key \in Keys
      /\ redis' \subseteq redis
      /\ lastId' = lastId + 1
      /\ dlq' = [dlq EXCEPT ![e.queue] = Append(@, new)]
      /\ pub' = [pub EXCEPT ![c].at = "persisting", ![c].index = lastId + 1]
      /\ faults' \in 0..MaxFaults
      /\ UNCHANGED <<processed, inFlight, accepted, stored>>
  BY QueuePublishAssumption DEF Clear, Cleared, Fault, NoFault, QueueTypeOK, CallOK
<1>2. lastId \in Nat /\ lastId' \in Nat /\ lastId + 1 # 0 /\ new \in Letter
  BY <1>1 DEF QueueTypeOK, Letter
<1>3. /\ pub'[c] \in CallType /\ pub'[c].at = "persisting" /\ pub'[c].queue = e.queue
      /\ pub'[c].key = e.key /\ pub'[c].entry = e.entry /\ pub'[c].index = lastId + 1
      /\ \A d \in Callers : d # c => pub'[d] = pub[d]
  BY <1>1, <1>2 DEF QueueTypeOK, CallType
<1> HIDE DEF new
<1>4. /\ dlq' \in [Queues -> Seq(Letter)]
      /\ \A q \in Queues :
           /\ Len(dlq'[q]) = Len(dlq[q]) + (IF q = e.queue THEN 1 ELSE 0)
           /\ \A i \in DOMAIN dlq'[q] : dlq'[q][i] = new \/ \E n \in DOMAIN dlq[q] : dlq'[q][i] = dlq[q][n]
  <2>1. ASSUME NEW q \in Queues
        PROVE  /\ dlq'[q] \in Seq(Letter)
               /\ Len(dlq'[q]) = Len(dlq[q]) + (IF q = e.queue THEN 1 ELSE 0)
               /\ \A i \in DOMAIN dlq'[q] :
                    dlq'[q][i] = new \/ \E n \in DOMAIN dlq[q] : dlq'[q][i] = dlq[q][n]
    <3>1. dlq[q] \in Seq(Letter)
      BY DEF QueueTypeOK
    <3>2. CASE q = e.queue
      <4>1. dlq'[q] = Append(dlq[q], new)
        BY <1>1, <3>2 DEF QueueTypeOK
      <4> QED BY <1>2, <3>1, <3>2, <4>1, AppendProperties, LenProperties
    <3>3. CASE q # e.queue
      BY <1>1, <3>1, <3>3, LenProperties DEF QueueTypeOK
    <3> QED BY <3>2, <3>3
  <2>2. dlq' = [q \in Queues |-> dlq'[q]]
    BY <1>1 DEF QueueTypeOK
  <2> QED BY <2>1, <2>2
<1>5. QueueTypeOK'
  BY <1>1, <1>2, <1>3, <1>4 DEF QueueTypeOK
<1>6. MarkedIsAccepted'
  BY <1>1 DEF MarkedIsAccepted, Seen
<1>7. ASSUME NEW d \in Callers  PROVE CallOK(d)'
  <2>1. CASE d = c
    BY <1>1, <1>2, <1>3, <2>1 DEF CallOK, Publishing
  <2>2. CASE d # c
    BY <1>1, <1>3, <2>2, CallKept
  <2> QED BY <2>1, <2>2
<1>8. ASSUME NEW m \in Letter, IsLetter(m)'  PROVE m = new \/ IsLetter(m)
  <2>1. CASE m \in stored'
    BY <1>1, <2>1 DEF IsLetter
  <2>2. ASSUME NEW q \in Queues, NEW i \in DOMAIN dlq'[q], m = dlq'[q][i]
        PROVE  m = new \/ IsLetter(m)
    <3>1. dlq'[q][i] = new \/ \E n \in DOMAIN dlq[q] : dlq'[q][i] = dlq[q][n]
      BY <1>4
    <3> QED BY <2>2, <3>1 DEF IsLetter
  <2>3. CASE \E d \in Callers : m = [id |-> pub'[d].entry, key |-> pub'[d].key]
    BY <1>3, <2>3 DEF IsLetter
  <2>4. CASE \E d \in Callers : pub'[d].at = "persisting" /\ m = [id |-> pub'[d].index, key |-> pub'[d].key]
    BY <1>3, <2>4 DEF IsLetter, new
  <2> QED BY <1>8, <2>1, <2>2, <2>3, <2>4 DEF IsLetter
<1>9. LettersOK'
  <2>1. new.id = lastId + 1 /\ \A m \in Letter : IsLetter(m) => m.id <= lastId /\ m.id # new.id
    BY <1>2 DEF LettersOK, new, Letter
  <2>2. ASSUME NEW m \in Letter, IsLetter(m)'  PROVE m.id <= lastId'
    BY <1>1, <1>2, <1>8, <2>1, <2>2 DEF Letter
  <2>3. ASSUME NEW m \in Letter, NEW n \in Letter, IsLetter(m)', IsLetter(n)', m.id = n.id  PROVE m = n
    BY <1>8, <2>1, <2>3 DEF LettersOK
  <2> QED BY <2>2, <2>3 DEF LettersOK
<1>10. ASSUME NEW q \in Queues  PROVE Len(dlq'[q]) <= MaxDlq + Cardinality(Persisting(q)')
  <2>1. Len(dlq[q]) \in Nat /\ Len(dlq[q]) <= MaxDlq + Cardinality(Persisting(q))
    BY LenProperties DEF QueueTypeOK, DlqWithinLimit, Persisting
  <2>2. CASE q = e.queue
    <3>1. c \notin Persisting(q) /\ Persisting(q)' = Persisting(q) \cup {c}
      BY <1>1, <1>3, <2>2 DEF Persisting
    <3>2. Cardinality(Persisting(q)') = Cardinality(Persisting(q)) + 1
      BY <3>1, PersistingIsFinite, FS_AddElement
    <3>3. Len(dlq'[q]) = Len(dlq[q]) + 1
      BY <1>4, <2>2
    <3> QED BY <2>1, <3>2, <3>3, PersistingIsFinite, QueuePublishAssumption
  <2>3. CASE q # e.queue
    <3>1. Persisting(q)' = Persisting(q)
      BY <1>1, <1>3, <2>3 DEF Persisting
    <3>2. dlq'[q] = dlq[q]
      BY <1>1, <2>3 DEF QueueTypeOK
    <3> QED BY <2>1, <3>1, <3>2
  <2> QED BY <2>2, <2>3
<1>11. DlqWithinLimit'
  BY <1>10 DEF DlqWithinLimit, Persisting
<1> QED BY <1>5, <1>6, <1>7, <1>9, <1>11


\* The letter is stored or not, the queue is cut, and the promise fails.
LEMMA PersistIInv ==
  ASSUME QueueInv, NEW c \in Callers, Persist(c)
  PROVE  QueueInv'
<1> DEFINE e == pub[c]
           new == [id |-> e.index, key |-> e.key]
           Cut(s) == IF Len(s) > MaxDlq THEN Tail(s) ELSE s
<1> USE DEF QueueInv
<1>1. /\ e.at = "persisting" /\ e.queue \in Queues /\ e.key \in Keys
      /\ stored' \subseteq stored \cup {new}
      /\ dlq' = [dlq EXCEPT ![e.queue] = Cut(@)]
      /\ faults' \in 0..MaxFaults
      /\ Settle(c, "failed")
      /\ UNCHANGED <<processed, redis, accepted, lastId>>
  BY QueuePublishAssumption DEF Persist, Stores, Fault, NoFault, QueueTypeOK, CallOK
<1>2. ASSUME NEW q \in Queues
      PROVE  /\ dlq[q] \in Seq(Letter) /\ Len(dlq[q]) \in Nat
             /\ Cut(dlq[q]) \in Seq(Letter)
             /\ Len(Cut(dlq[q])) = IF Len(dlq[q]) > MaxDlq THEN Len(dlq[q]) - 1 ELSE Len(dlq[q])
             /\ \A i \in DOMAIN Cut(dlq[q]) : \E n \in DOMAIN dlq[q] : Cut(dlq[q])[i] = dlq[q][n]
  <2>1. dlq[q] \in Seq(Letter) /\ Len(dlq[q]) \in Nat
    BY LenProperties DEF QueueTypeOK
  <2>2. CASE Len(dlq[q]) > MaxDlq
    <3>1. Len(dlq[q]) # 0 /\ Cut(dlq[q]) = Tail(dlq[q])
      BY <2>1, <2>2, QueuePublishAssumption
    <3> QED BY <2>1, <2>2, <3>1, TailProperties
  <2>3. CASE ~(Len(dlq[q]) > MaxDlq)
    BY <2>1, <2>3
  <2> QED BY <2>2, <2>3
<1> HIDE DEF Cut
<1>3. \A q \in Queues : (q = e.queue /\ dlq'[q] = Cut(dlq[q])) \/ (q # e.queue /\ dlq'[q] = dlq[q])
  BY <1>1 DEF QueueTypeOK
<1>4. dlq' \in [Queues -> Seq(Letter)]
  BY <1>1, <1>2 DEF QueueTypeOK
<1>5. ASSUME NEW q \in Queues, NEW i \in DOMAIN dlq'[q]
      PROVE  \E n \in DOMAIN dlq[q] : dlq'[q][i] = dlq[q][n]
  <2>1. CASE dlq'[q] = Cut(dlq[q])
    <3>1. \A j \in DOMAIN Cut(dlq[q]) : \E n \in DOMAIN dlq[q] : Cut(dlq[q])[j] = dlq[q][n]
      BY <1>2
    <3> QED BY <1>5, <2>1, <3>1, Zenon
  <2>2. CASE dlq'[q] = dlq[q]
    BY <1>5, <2>2
  <2> QED BY <1>3, <2>1, <2>2
<1>6. ASSUME NEW m \in stored'  PROVE m \in Letter /\ IsLetter(m)
  <2>1. CASE m \in stored
    BY <2>1 DEF QueueTypeOK, IsLetter
  <2>2. CASE m = new
    <3>1. IsLetter(m)
      BY <1>1, <2>2 DEF IsLetter
    <3>2. e.index # 0
      BY <1>1 DEF CallOK
    <3>3. e.index \in Nat
      BY CallFields
    <3> QED BY <1>1, <2>2, <3>1, <3>2, <3>3 DEF Letter
  <2> QED BY <1>1, <2>1, <2>2
<1>7. ASSUME NEW q \in Queues  PROVE Len(dlq'[q]) <= MaxDlq + Cardinality(Persisting(q)')
  <2>1. Len(dlq[q]) <= MaxDlq + Cardinality(Persisting(q))
    BY DEF DlqWithinLimit, Persisting
  <2>2. Persisting(q)' = Persisting(q) \ {c}
    BY <1>1, SettlePersisting
  <2>3. CASE q = e.queue
    <3>1. c \in Persisting(q)
      BY <1>1, <2>3 DEF Persisting
    <3>2. Cardinality(Persisting(q)') = Cardinality(Persisting(q)) - 1
      BY <2>2, <3>1, PersistingIsFinite, FS_RemoveElement
    <3>3. Cardinality(Persisting(q)') \in Nat
      BY <2>2, PersistingIsFinite, FS_RemoveElement, FS_CardinalityType
    <3>4. Len(dlq'[q]) = IF Len(dlq[q]) > MaxDlq THEN Len(dlq[q]) - 1 ELSE Len(dlq[q])
      BY <1>2, <1>3, <2>3
    <3> QED BY <1>2, <2>1, <3>2, <3>3, <3>4, PersistingIsFinite, QueuePublishAssumption
  <2>4. CASE q # e.queue
    <3>1. Persisting(q)' = Persisting(q)
      BY <2>2, <2>4 DEF Persisting
    <3> QED BY <1>3, <2>1, <2>4, <3>1
  <2> QED BY <2>3, <2>4
<1>8. DlqWithinLimit'
  BY <1>7 DEF DlqWithinLimit, Persisting
<1>9. MarkedIsAccepted'
  BY <1>1 DEF MarkedIsAccepted, Seen
<1> QED BY <1>1, <1>4, <1>5, <1>6, <1>8, <1>9, SettleStep DEF Publishing, QueueTypeOK


\* The end of a retry: the letter leaves the array, then the cache.
LEMMA RemoveIInv ==
  ASSUME QueueInv, NEW c \in Callers, Remove(c)
  PROVE  QueueInv'
<1> DEFINE e == pub[c]
<1> USE DEF QueueInv
<1>1. /\ e.at = "removing" /\ e \in CallType /\ e.index \in Nat /\ e.queue \in Queues
      /\ dlq' = [dlq EXCEPT ![e.queue] = Without(@, e.index)]
      /\ pub' = [pub EXCEPT ![c].at = "deleting"]
      /\ UNCHANGED <<processed, inFlight, redis, accepted, stored, lastId, faults>>
  BY CallFields DEF Remove, Goto, QueueTypeOK, CallOK
<1>2. ASSUME NEW q \in Queues
      PROVE  /\ dlq'[q] \in Seq(Letter)
             /\ Len(dlq'[q]) <= Len(dlq[q])
             /\ \A i \in DOMAIN dlq'[q] : \E n \in DOMAIN dlq[q] : dlq'[q][i] = dlq[q][n]
  <2>1. dlq[q] \in Seq(Letter) /\ Len(dlq[q]) \in Nat
    BY LenProperties DEF QueueTypeOK
  <2>2. CASE q = e.queue
    <3>1. dlq'[q] = Without(dlq[q], e.index)
      BY <1>1, <2>2 DEF QueueTypeOK
    <3> QED BY <1>1, <2>1, <3>1, WithoutProperties
  <2>3. CASE q # e.queue
    <3>1. dlq'[q] = dlq[q]
      BY <1>1, <2>3 DEF QueueTypeOK
    <3> QED BY <2>1, <3>1
  <2> QED BY <2>2, <2>3
<1>3. /\ pub'[c] \in CallType /\ pub'[c].at = "deleting"
      /\ pub'[c].queue = e.queue /\ pub'[c].key = e.key /\ pub'[c].entry = e.entry
      /\ \A d \in Callers : d # c => pub'[d] = pub[d]
  BY <1>1 DEF QueueTypeOK, CallType
<1>4. QueueTypeOK'
  <2>1. dlq' = [q \in Queues |-> dlq'[q]]
    BY <1>1 DEF QueueTypeOK
  <2>2. dlq' \in [Queues -> Seq(Letter)]
    BY <1>2, <2>1
  <2> QED BY <1>1, <1>3, <2>2 DEF QueueTypeOK
<1>5. MarkedIsAccepted'
  BY <1>1 DEF MarkedIsAccepted, Seen
<1>6. CallOK(c)'
  BY <1>1, <1>3 DEF CallOK, Publishing
<1>7. IsLetter([id |-> pub'[c].entry, key |-> pub'[c].key])
  BY <1>3, SameLetter
<1> QED BY <1>1, <1>2, <1>3, <1>4, <1>5, <1>6, <1>7, QueueCallStep

LEMMA DeleteIInv ==
  ASSUME QueueInv, NEW c \in Callers, Delete(c)
  PROVE  QueueInv'
<1> DEFINE e == pub[c]
<1> USE DEF QueueInv
<1>1. /\ e.at = "deleting" /\ e \in CallType /\ e.result \in Results
      /\ stored' \subseteq stored /\ faults' \in 0..MaxFaults
      /\ pub' = [pub EXCEPT ![c] = Returned(e.result)]
      /\ UNCHANGED <<processed, inFlight, redis, accepted, dlq, lastId>>
  BY QueuePublishAssumption DEF Delete, Fault, NoFault, QueueTypeOK, CallType, Results
<1>2. /\ pub'[c] \in CallType /\ pub'[c].at = "idle" /\ pub'[c].entry = 0
      /\ \A d \in Callers : d # c => pub'[d] = pub[d]
  BY <1>1, ReturnedFields DEF QueueTypeOK
<1>3. QueueTypeOK'
  BY <1>1, <1>2 DEF QueueTypeOK
<1>4. MarkedIsAccepted'
  BY <1>1 DEF MarkedIsAccepted, Seen
<1>5. CallOK(c)'
  BY <1>2 DEF CallOK, Publishing
<1>6. \A q \in Queues : /\ Len(dlq'[q]) <= Len(dlq[q])
                        /\ \A i \in DOMAIN dlq'[q] : \E n \in DOMAIN dlq[q] : dlq'[q][i] = dlq[q][n]
  BY <1>1, LenProperties DEF QueueTypeOK
<1> QED BY <1>1, <1>2, <1>3, <1>4, <1>5, <1>6, QueueCallStep

\* A process dies with its calls, its registrations and its dead letters.
LEMMA CrashIInv ==
  ASSUME QueueInv, NEW q \in Queues, QueueCrash(q)
  PROVE  QueueInv'
<1> USE DEF QueueInv
<1>1. /\ pub' = [c \in Callers |-> IF pub[c].queue = q THEN NoPublish ELSE pub[c]]
      /\ processed' = [processed EXCEPT ![q] = <<>>]
      /\ inFlight' = [inFlight EXCEPT ![q] = [k \in Keys |-> None]]
      /\ dlq' = [dlq EXCEPT ![q] = <<>>]
      /\ faults' \in 0..MaxFaults
      /\ UNCHANGED <<redis, accepted, stored, lastId>>
  BY QueuePublishAssumption DEF QueueCrash, Fault, QueueTypeOK
<1>2. NoPublish \in CallType /\ NoPublish.at = "idle" /\ NoPublish.entry = 0
  BY DEF NoPublish, CallType
<1>3. \A c \in Callers : pub'[c] = NoPublish \/ (pub'[c] = pub[c] /\ pub[c].queue # q)
  BY <1>1
<1>4. QueueTypeOK'
  <2>1. pub' \in [Callers -> CallType]
    BY <1>1, <1>2 DEF QueueTypeOK
  <2>2. <<>> \in Seq(Keys) /\ <<>> \in Seq(Letter)
    BY EmptySeq
  <2> QED BY <1>1, <2>1, <2>2 DEF QueueTypeOK
<1>5. MarkedIsAccepted'
  <2>1. \A p \in Queues : processed'[p] = processed[p] \/ processed'[p] = <<>>
    BY <1>1 DEF QueueTypeOK
  <2>2. \A p \in Queues : Seen(p)' \subseteq Seen(p)
    BY <2>1 DEF Seen
  <2> QED BY <1>1, <2>2 DEF MarkedIsAccepted
<1>6. ASSUME NEW c \in Callers  PROVE CallOK(c)'
  <2>1. CASE pub'[c] = NoPublish
    BY <1>2, <2>1 DEF CallOK, Publishing
  <2>2. CASE pub'[c] = pub[c] /\ pub[c].queue # q
    BY <1>1, <2>2, CallKept DEF QueueTypeOK
  <2> QED BY <1>3, <2>1, <2>2
<1>7. ASSUME NEW m \in Letter, IsLetter(m)'  PROVE IsLetter(m)
  <2>1. CASE m \in stored'
    BY <1>1, <2>1 DEF IsLetter
  <2>2. ASSUME NEW p \in Queues, NEW i \in DOMAIN dlq'[p], m = dlq'[p][i]
        PROVE  IsLetter(m)
    <3>1. dlq'[p] = dlq[p] \/ dlq'[p] = <<>>
      BY <1>1 DEF QueueTypeOK
    <3> QED BY <2>2, <3>1 DEF IsLetter
  <2>3. ASSUME NEW c \in Callers, m = [id |-> pub'[c].entry, key |-> pub'[c].key]
        PROVE  IsLetter(m)
    <3>1. pub'[c].entry # 0
      BY <2>3 DEF Letter
    <3> QED BY <1>2, <1>3, <2>3, <3>1 DEF IsLetter
  <2>4. ASSUME NEW c \in Callers, pub'[c].at = "persisting", m = [id |-> pub'[c].index, key |-> pub'[c].key]
        PROVE  IsLetter(m)
    BY <1>2, <1>3, <2>4 DEF IsLetter
  <2> QED BY <1>7, <2>1, <2>2, <2>3, <2>4 DEF IsLetter
<1>8. LettersOK'
  BY <1>1, <1>7, LettersKept
<1>9. ASSUME NEW p \in Queues  PROVE Len(dlq'[p]) <= MaxDlq + Cardinality(Persisting(p)')
  <2>1. Len(dlq[p]) <= MaxDlq + Cardinality(Persisting(p))
    BY DEF DlqWithinLimit, Persisting
  <2>2. CASE p = q
    <3>1. Len(dlq'[p]) = 0
      BY <1>1, <2>2, EmptySeq DEF QueueTypeOK
    <3>2. IsFiniteSet(Persisting(p)')
      BY QueuePublishAssumption, FS_Subset DEF Persisting
    <3>3. Cardinality(Persisting(p)') \in Nat
      BY <3>2, FS_CardinalityType
    <3> QED BY <3>1, <3>3, QueuePublishAssumption
  <2>3. CASE p # q
    <3>1. dlq'[p] = dlq[p] /\ Persisting(p)' = Persisting(p)
      BY <1>1, <1>2, <1>3, <2>3 DEF QueueTypeOK, Persisting
    <3> QED BY <2>1, <3>1
  <2> QED BY <2>2, <2>3
<1>10. DlqWithinLimit'
  BY <1>9 DEF DlqWithinLimit, Persisting
<1> QED BY <1>4, <1>5, <1>6, <1>8, <1>10

\* A dead letter that is in a queue or in the cache can be retried.
LEMMA RetryIInv ==
  ASSUME QueueInv, NEW c \in Callers, NEW q \in Queues, Retry(c, q)
  PROVE  QueueInv'
<1> USE DEF QueueInv
<1>1. ASSUME NEW m \in Letter, IsLetter(m), NEW i \in Nat, BeginPublish(c, q, m.key, m.id, i)
      PROVE  QueueInv'
  <2>1. m.key \in Keys /\ m.id \in Nat /\ [id |-> m.id, key |-> m.key] = m
    BY DEF Letter
  <2> QED BY <1>1, <2>1, BeginIInv
<1>2. ASSUME NEW i \in DOMAIN dlq[q], BeginPublish(c, q, dlq[q][i].key, dlq[q][i].id, i)
      PROVE  QueueInv'
  <2>1. dlq[q] \in Seq(Letter)
    BY DEF QueueTypeOK
  <2>2. i \in Nat /\ dlq[q][i] \in Letter
    BY <2>1, LenProperties, ElementOfSeq
  <2>3. IsLetter(dlq[q][i])
    BY DEF IsLetter
  <2> QED BY <1>1, <1>2, <2>2, <2>3
<1>3. ASSUME NEW m \in stored, BeginPublish(c, q, m.key, m.id, 0)
      PROVE  QueueInv'
  BY <1>1, <1>3 DEF QueueTypeOK, IsLetter
<1> QED BY <1>2, <1>3 DEF Retry

\* A record of a publish expires in Redis.
LEMMA ExpiresIInv ==
  ASSUME QueueInv, NEW k \in Keys, RecordExpires(k)
  PROVE  QueueInv'
<1> USE DEF QueueInv
<1>1. redis' \subseteq redis /\ UNCHANGED <<processed, inFlight, accepted, dlq, stored, pub, lastId, faults>>
  BY DEF RecordExpires
<1>2. QueueTypeOK' /\ MarkedIsAccepted'
  BY <1>1 DEF QueueTypeOK, MarkedIsAccepted, Seen
<1>3. \A c \in Callers : CallOK(c)'
  BY <1>1 DEF CallOK
<1>4. LettersOK'
  BY <1>1, LettersKept DEF IsLetter
<1>5. DlqWithinLimit'
  BY <1>1 DEF DlqWithinLimit
<1> QED BY <1>2, <1>3, <1>4, <1>5

\* The del of the cache's wrapper would leave a record of a message that failed.
LEMMA NextQueueInv ==
  ASSUME RawClient \/ ~UseRedis, QueueInv, [QueueNext]_queueVars
  PROVE  QueueInv'
<1>1. ASSUME NEW c \in Callers, NEW q \in Queues, NEW k \in Keys, Publish(c, q, k)
      PROVE  QueueInv'
  BY <1>1, BeginIInv DEF Publish
<1>2. ASSUME NEW c \in Callers, Proceed(c)  PROVE QueueInv'
  BY <1>2, RedisHitIInv, OwnStepIInv, AnswerIInv, MarkIInv, ClearIInv, PersistIInv, RemoveIInv,
     DeleteIInv DEF Proceed
<1>3. CASE UNCHANGED queueVars
  <2>1. QueueTypeOK'
    BY <1>3 DEF queueVars, QueueInv, QueueTypeOK
  <2>2. MarkedIsAccepted' /\ DlqWithinLimit'
    BY <1>3 DEF queueVars, QueueInv, MarkedIsAccepted, Seen, DlqWithinLimit
  <2>3. \A c \in Callers : CallOK(c)'
    BY <1>3 DEF queueVars, QueueInv, CallOK
  <2>4. LettersOK'
    BY <1>3, LettersKept DEF queueVars, QueueInv, IsLetter
  <2> QED BY <2>1, <2>2, <2>3, <2>4 DEF QueueInv
<1> QED BY <1>1, <1>2, <1>3, RetryIInv, OwnStepIInv, CrashIInv, ExpiresIInv DEF QueueNext

LEMMA AlwaysQueueInv ==
  ASSUME RawClient \/ ~UseRedis
  PROVE  QueueSpec => []QueueInv
  BY InitQueueInv, NextQueueInv, PTL DEF QueueSpec

-----------------------------------------------------------------------------
(* The theorems *)

\* Two publishes of one process hold the registrations of two keys.
LEMMA RegisteredOnce == QueueInv => OneRequestPerKey
  BY DEF QueueInv, CallOK, Publishing, OneRequestPerKey

\* With any overlap of calls, lost answers, faults of Redis and the cache, and
\* crashes: a key that is answered as a duplicate is one whose message QStash has,
\* one process has one request per key, and the dead letter queue keeps its limit
\* but for the entries that are being stored.
THEOREM QueueIsSafe ==
  ASSUME RawClient \/ ~UseRedis
  PROVE  QueueSpec => []QueueSafe
<1>1. QueueInv => QueueSafe
  BY RegisteredOnce DEF QueueInv, QueueSafe
<1> QED BY <1>1, AlwaysQueueInv, PTL

\* The result of a call that settles by itself or through another call's promise
LEMMA SettledAccepted ==
  ASSUME QueueInv, NEW c \in Callers, NEW d \in Callers, NEW verdict \in {"ok", "failed"}, Settle(c, verdict),
         verdict = "ok" => pub[c].key \in accepted,
         pub[d].at # "idle", pub'[d].at = "idle", pub'[d].result \in {"ok", "duplicate"}
  PROVE  pub[d].key \in accepted
<1>1. pub[d] \in CallType /\ verdict \in Results
  BY DEF QueueInv, QueueTypeOK, Results
<1>2. pub'[d] = Settled(pub[d], verdict) /\ pub[d].key = pub[c].key
  BY DEF Settle
<1>3. CASE Settled(pub[d], verdict) = Returned(verdict)
  BY <1>1, <1>2, <1>3, ReturnedFields
<1>4. CASE Settled(pub[d], verdict) = [pub[d] EXCEPT !.at = "removing", !.result = verdict]
  BY <1>1, <1>2, <1>4 DEF CallType
<1> QED BY <1>1, <1>3, <1>4, SettledFields

\* A caller that is told that its message is published, or was before, can rely
\* on it, also through the promise of another caller and at the end of a retry.
THEOREM AcknowledgedIsAccepted ==
  ASSUME RawClient \/ ~UseRedis
  PROVE  QueueSpec => AckIsDurable
<1> DEFINE Told == \A c \in Callers :
                      (pub[c].at # "idle" /\ pub'[c].at = "idle" /\ pub'[c].result \in {"ok", "duplicate"})
                        => pub[c].key \in accepted
<1>1. ASSUME QueueInv, [QueueNext]_queueVars  PROVE [Told]_queueVars
  <2> SUFFICES ASSUME QueueNext, NEW d \in Callers, pub[d].at # "idle", pub'[d].at = "idle",
                      pub'[d].result \in {"ok", "duplicate"}
               PROVE  pub[d].key \in accepted
    BY <1>1
  <2> USE DEF QueueInv
  <2>1. pub \in [Callers -> CallType] /\ pub[d] \in CallType /\ CallOK(d)
    BY <1>1 DEF QueueTypeOK
  <2>2. ASSUME NEW c \in Callers, NEW q \in Queues, (\E k \in Keys : Publish(c, q, k)) \/ Retry(c, q)
        PROVE  FALSE
    <3>1. pub[c].at = "idle" /\ \A b \in Callers : b # c => pub'[b] = pub[b]
      BY <2>1, <2>2 DEF Publish, Retry, BeginPublish
    <3> QED BY <3>1
  <2>3. ASSUME NEW c \in Callers, RedisHit(c)  PROVE pub[d].key \in accepted
    <3>1. d = c /\ pub[d].key \in redis
      BY <2>1, <2>3 DEF RedisHit
    <3> QED BY <1>1, <3>1 DEF MarkedIsAccepted
  <2>4. ASSUME NEW c \in Callers, RedisMiss(c) \/ Join(c) \/ Send(c) \/ Accept(c) \/ SendFails(c) \/ Remove(c)
        PROVE  FALSE
    <3>1. PICK at \in {"checked", "joined", "sending", "accepted", "clearing", "deleting"} :
            pub' = [pub EXCEPT ![c].at = at]
      BY <2>4 DEF RedisMiss, Join, Send, Accept, SendFails, Remove, Goto
    <3>2. pub'[d].at \in {pub[d].at, at}
      BY <2>1, <3>1 DEF CallType
    <3> QED BY <3>1, <3>2
  <2>5. ASSUME NEW c \in Callers, Answer(c)  PROVE pub[d].key \in accepted
    <3>1. pub[c].key \in accepted
      BY <1>1, <2>5 DEF Answer, CallOK
    <3>2. CASE pub' = [pub EXCEPT ![c].at = "marking"]
      BY <2>1, <3>2 DEF CallType
    <3>3. CASE Settle(c, "ok")
      BY <1>1, <3>1, <3>3, SettledAccepted
    <3> QED BY <2>5, <3>2, <3>3 DEF Answer, Goto
  <2>6. ASSUME NEW c \in Callers, Mark(c)  PROVE pub[d].key \in accepted
    <3>1. pub[c].key \in accepted /\ Settle(c, "ok")
      BY <1>1, <2>6 DEF Mark, CallOK
    <3> QED BY <1>1, <3>1, SettledAccepted
  <2>7. ASSUME NEW c \in Callers, Clear(c)  PROVE FALSE
    <3>1. pub' = [pub EXCEPT ![c].at = "persisting", ![c].index = lastId + 1]
      BY <2>7 DEF Clear
    <3>2. pub'[d].at \in {pub[d].at, "persisting"}
      BY <2>1, <3>1 DEF CallType
    <3> QED BY <3>2
  <2>8. ASSUME NEW c \in Callers, Persist(c)  PROVE pub[d].key \in accepted
    BY <1>1, <2>8, SettledAccepted DEF Persist
  <2>9. ASSUME NEW c \in Callers, Delete(c)  PROVE pub[d].key \in accepted
    <3>1. d = c /\ pub[d].at = "deleting"
      BY <2>1, <2>9 DEF Delete
    <3> QED BY <2>1, <3>1 DEF CallOK
  <2>10. ASSUME NEW q \in Queues, QueueCrash(q)  PROVE FALSE
    <3>1. pub'[d] \in {pub[d], NoPublish}
      BY <2>10 DEF QueueCrash
    <3> QED BY <3>1 DEF NoPublish
  <2>11. ASSUME NEW k \in Keys, RecordExpires(k)  PROVE FALSE
    BY <2>11 DEF RecordExpires
  <2> QED BY <1>1, <2>2, <2>3, <2>4, <2>5, <2>6, <2>7, <2>8, <2>9, <2>10, <2>11 DEF QueueNext, Proceed
<1> QED BY <1>1, AlwaysQueueInv, PTL DEF QueueSpec, AckIsDurable

\* The copy of a dead letter leaves the cache only when QStash has its message,
\* whichever process retried it and whatever else was stored in between.
THEOREM DeadLettersAreKept ==
  ASSUME RawClient \/ ~UseRedis
  PROVE  QueueSpec => DeadLetterKept
<1>1. ASSUME QueueInv, [QueueNext]_queueVars
      PROVE  [\A m \in stored : m \in stored' \/ m.key \in accepted]_queueVars
  <2> SUFFICES ASSUME QueueNext, NEW m \in stored, m \notin stored'  PROVE m.key \in accepted
    BY <1>1
  <2> USE DEF QueueInv
  <2>1. PICK c \in Callers : Delete(c)
    BY ZenonT(30) DEF QueueNext, Proceed, Publish, Retry, BeginPublish, RedisHit, RedisMiss, Join, Send, Accept,
           Answer, Mark, SendFails, Clear, Persist, Stores, Remove, QueueCrash, RecordExpires
  <2>2. m \in Letter /\ m.id = pub[c].entry /\ m.id # 0 /\ pub[c].key \in Keys /\ pub[c].key \in accepted
    BY <1>1, <2>1 DEF Delete, QueueTypeOK, CallOK, Letter
  <2> DEFINE n == [id |-> pub[c].entry, key |-> pub[c].key]
  <2>3. n \in Letter /\ IsLetter(n) /\ IsLetter(m)
    <3>1. pub[c].entry \in Nat \ {0}
      BY <1>1, <2>2, CallFields
    <3> QED BY <2>2, <3>1 DEF Letter, IsLetter
  <2>4. m = n
    BY <1>1, <2>2, <2>3 DEF LettersOK
  <2> QED BY <2>2, <2>4
<1> QED BY <1>1, AlwaysQueueInv, PTL DEF QueueSpec, DeadLetterKept

\* Both action properties of the queue.
THEOREM QueueStepsHold ==
  ASSUME RawClient \/ ~UseRedis
  PROVE  QueueSpec => QueueSteps
  BY AcknowledgedIsAccepted, DeadLettersAreKept DEF QueueSteps

-----------------------------------------------------------------------------
(* StreamTransfer: a file that is sent to another instance is uploaded once,  *)
(* whole, and who is told that it is, is told the truth                       *)

(* The inductive invariant *)

\* The first n chunks of the file, in their order
FirstChunks(n) == [k \in 1..n |-> k]

\* What can be staged or stored: the file as far as it has come
Beginnings == {FirstChunks(n) : n \in 0..Chunks}

\* Where an attempt can be
Steps == {"idle", "start", "own", "resume", "reset", "loop", "chunk", "wait",
          "givingUp", "abort", "fallingBack"} \cup Ended

\* The locals of an attempt: the next chunk, and how often it has been tried
AttType == [at : Steps, k : 1..(Chunks + 1), tries : 0..MaxChunkRetries]

\* The row of the task, and whether its owner is stored
RowTyped == row \in [status : Statuses, lease : Attempts \cup {0}] /\ owner \in BOOLEAN

\* The attempts and their requests; a chunk that is on its way may be tried again.
CallsTyped ==
  /\ att \in [Attempts -> AttType]
  /\ fails \in [1..Chunks -> 0..MaxChunkRetries]
  /\ net \subseteq Requests
  /\ \A a \in Attempts : att[a].at = "chunk" => att[a].tries < MaxChunkRetries

\* What is done under the task lock
BusyType == [req : Requests \cup {NoRequest}, c : 0..MaxContexts,
             step : {"free", "write", "last", "clear"}]

\* A receiving context, and the upload that works from it
CtxType ==
  [phase : {"none", "receiving", "finalizing", "completed", "failed", "cancelled"},
   last : 0..Chunks, lease : Attempts \cup {0}, cancelled : BOOLEAN,
   file : {"closed", "staging", "unlinked"},
   work : Working \cup {"none", "refused", "thrown", "saved", "report", "ended"}]

\* The state of the receiving instance, and the remote file
WorkerTyped ==
  /\ busy \in BusyType
  /\ ctx \in [1..MaxContexts -> CtxType]
  /\ active \in 0..MaxContexts
  /\ staging \in [chunks : Beginnings, torn : BOOLEAN]
  /\ remote \in Beginnings
  /\ status \in {"none", "uploading", "completed", "failed", "cancelled"}
  /\ late \subseteq 1..MaxContexts

\* What the history variables say
HistTyped == dropped \in BOOLEAN /\ strayed \in BOOLEAN /\ incidents \in 0..MaxIncidents

\* A chunk is handled under the task lock.
Writing == busy.step \in {"write", "last"}

\* What is done under the task lock has the context it found, or none any more.
BusyOK ==
  /\ busy.step = "free" => busy = Free
  /\ Writing => /\ busy.req \in Requests /\ busy.req.kind = "chunk"
                /\ busy.c \in 1..MaxContexts /\ active \in {0, busy.c}
                /\ ctx[busy.c].phase # "none"
  /\ busy.step = "last" => /\ busy.req.k = Chunks /\ ctx[busy.c].phase = "receiving"
                           /\ ctx[busy.c].last = Chunks
  /\ busy.step = "clear" => busy.req \in Requests /\ IsReset(busy.req) /\ active = 0

\* The phases a context ends in
Finished == {"completed", "failed", "cancelled"}

\* How far a context is, by its upload, its file and its chunks
CtxOK(c) ==
  /\ ctx[c].file = "staging" => /\ c = active /\ ctx[c].phase = "receiving"
                                /\ ctx[c].last = Len(staging.chunks) /\ ~staging.torn
  /\ ctx[c].phase = "receiving" /\ ctx[c].last = Chunks => busy.step = "last" /\ busy.c = c
  /\ ctx[c].phase \notin {"none", "receiving"} => ctx[c].last = Chunks
  /\ ctx[c].phase = "none" => ctx[c] = NoContext
  /\ ctx[c].work = "none" => ctx[c].phase \in {"none", "receiving"}
  /\ ctx[c].work \in Working \cup {"refused", "thrown"} => ctx[c].phase = "finalizing"
  /\ ctx[c].work \in {"saved", "report", "ended"} => ctx[c].phase \in Finished
  /\ ctx[c].work = "report" => ctx[c].phase = "failed"

\* The active context exists, and is finalizing only with the whole file.
ActiveOK ==
  active # 0 => /\ ctx[active].phase # "none"
                /\ ctx[active].phase = "finalizing" => Complete(staging)

\* The task is completed.
RowDone == row.status = "completed"

\* Who says the file is uploaded is right.
DoneOK ==
  \/ status = "completed"
  \/ \E a \in Attempts : att[a].at = "succeeded"
  \/ \E c \in 1..MaxContexts : ctx[c].phase = "completed" \/ ctx[c].work = "clean"
  => RowDone

\* Nothing more comes to the staging file, which is empty.
Over == active = 0 /\ staging.chunks = <<>> /\ ~staging.torn /\ RowDone

\* The upload of context c is at work, and nobody has cancelled it.
Uploading(c) == ctx[c].work \in Working /\ ~ctx[c].cancelled

\* Unless a clean-up has forgotten an upload: one upload, of the whole file
AloneOK ==
  ~dropped =>
    /\ \A c \in 1..MaxContexts : Uploading(c) => (c = active /\ Complete(staging)) \/ Over
    /\ \A c, d \in 1..MaxContexts : Uploading(c) /\ Uploading(d) => c = d
    /\ Writing /\ active = 0 => Over
    /\ RowDone \/ (\E c \in 1..MaxContexts : ctx[c].work = "complete") => Len(remote) = Chunks

\* The sender has been told, or is about to ask, whether the upload has ended.
Expects(a) == att[a].at = "wait" \/ (att[a].at = "loop" /\ att[a].k = Chunks + 1)

\* There is an upload under way, or an end that is stored for good.
Fed ==
  \/ active # 0 /\ ctx[active].phase # "receiving"
  \/ /\ active = 0 /\ RowDone
     /\ \/ HasResult(status)
        \/ \E c \in 1..MaxContexts : ctx[c].work \notin {"none", "ended"}

\* Without a clean-up or a stray retry, a sender that waits for the end of an upload
\* gets one, and no reset goes on beneath an attempt that sends.
FedOK ==
  ~strayed /\ ~dropped =>
    /\ \A a \in Attempts : Expects(a) => Fed
    /\ busy.step = "write" /\ active = 0 => Fed
    /\ busy.step = "clear" => \A a \in Attempts : att[a].at \notin {"loop", "chunk", "wait"}

\* The inductive invariant of StreamTransfer
StreamInv ==
  /\ RowTyped /\ CallsTyped /\ WorkerTyped /\ HistTyped
  /\ BusyOK /\ (\A c \in 1..MaxContexts : CtxOK(c)) /\ ActiveOK
  /\ DoneOK /\ AloneOK /\ FedOK

\* The assumption on the constants, taken apart
LEMMA StreamNumbers ==
  /\ Chunks \in Nat /\ Chunks > 0 /\ MaxContexts \in Nat /\ MaxChunkRetries \in Nat
  /\ MaxIncidents \in Nat /\ Attempts \subseteq Nat /\ 0 \notin Attempts
BY StreamAssumption DEF StreamAssumption

\* Only a completion completes a row.
LEMMA OnlyCompletes ==
  ASSUME NEW e \in Events, TargetStatus[e] = "completed" PROVE e = "complete"
BY DEF Events, TargetStatus

\* What is staged or stored is a sequence of as many chunks as its length says.
LEMMA BeginningFacts ==
  ASSUME NEW p \in Beginnings
  PROVE  /\ p \in Seq(Nat) /\ Len(p) \in 0..Chunks
         /\ p = FirstChunks(Len(p))
         /\ p \in UNION {[1..n -> 1..Chunks] : n \in 0..Chunks}
         /\ p = <<>> <=> Len(p) = 0
<1>1. PICK n \in 0..Chunks : p = FirstChunks(n)
  BY DEF Beginnings
<1>2. n \in Nat /\ n <= Chunks /\ Chunks \in Nat
  BY StreamNumbers
<1>3. p \in [1..n -> Nat]
  BY <1>1, <1>2 DEF FirstChunks
<1>4. p \in Seq(Nat) /\ Len(p) = n
  BY <1>2, <1>3, LenProperties, SeqDef
<1>5. p \in [1..n -> 1..Chunks]
  BY <1>1, <1>2 DEF FirstChunks
<1>6. p = <<>> <=> Len(p) = 0
  BY <1>4, EmptySeq
<1> QED
  BY <1>1, <1>2, <1>4, <1>5, <1>6

\* An empty staging file is a beginning of the file.
LEMMA NothingStaged == <<>> \in Beginnings /\ Len(<<>>) = 0
<1>1. <<>> = FirstChunks(0)
  BY DEF FirstChunks
<1> QED
  BY <1>1, StreamNumbers DEF Beginnings

\* The chunk that comes next makes one chunk more.
LEMMA NextChunk ==
  ASSUME NEW p \in Beginnings, NEW k \in 1..Chunks, k = Len(p) + 1
  PROVE  Append(p, k) \in Beginnings /\ Len(Append(p, k)) = k
<1>1. p \in Seq(Nat) /\ Len(p) \in Nat /\ p = FirstChunks(Len(p))
  BY BeginningFacts, StreamNumbers
<1>2. Append(p, k) \in Seq(Nat) /\ Len(Append(p, k)) = k
  BY <1>1, AppendProperties, StreamNumbers
<1>3. \A i \in 1..k : Append(p, k)[i] = i
  BY <1>1, AppendProperties, StreamNumbers DEF FirstChunks
<1>4. Append(p, k) = FirstChunks(k)
  BY <1>2, <1>3, LenProperties DEF FirstChunks
<1> QED
  BY <1>2, <1>4, StreamNumbers DEF Beginnings

\* A finished row stays finished, and only a completion finishes one.
LEMMA RowMoves ==
  ASSUME RowTyped, NEW e \in Events, NEW lease \in Attempts \cup {0}, FireEvent(e, lease)
  PROVE  /\ row' \in [status : Statuses, lease : Attempts \cup {0}]
         /\ RowDone => RowDone'
         /\ RowDone' /\ e # "complete" => RowDone
<1>1. CASE RowMatches(e, lease)
  <2>1. row' = [status |-> TargetStatus[e],
                lease |-> IF TargetStatus[e] \in TerminalStatuses THEN 0 ELSE lease]
    BY <1>1 DEF FireEvent, RowAfter
  <2>2. RowDone => TargetStatus[e] = "completed"
    BY <1>1, EndedMoves DEF RowMatches, RowDone
  <2> QED
    BY <2>1, <2>2, TargetIsStatus, OnlyCompletes DEF RowDone, RowTyped
<1>2. CASE ~RowMatches(e, lease)
  BY <1>2 DEF FireEvent, RowAfter, RowDone, RowTyped
<1> QED
  BY <1>1, <1>2

\* Nothing is opened or started anew for a finished row.
LEMMA DoneRefuses ==
  ASSUME NEW lease, Passes("start_stream_upload", lease) PROVE ~RowDone
BY DEF Passes, RowMatches, RowDone, Allowed, AllowedFrom

-----------------------------------------------------------------------------
\* An attempt that goes on keeps its type.
LEMMA GoesTyped ==
  ASSUME CallsTyped, NEW a \in Attempts, NEW at \in Steps \ {"chunk"},
         NEW k \in 1..(Chunks + 1), Goes(a, at, k)
  PROVE  /\ att' \in [Attempts -> AttType]
         /\ \A b \in Attempts : att'[b].at = "chunk" => att'[b].tries < MaxChunkRetries
         /\ att'[a] = [at |-> at, k |-> k, tries |-> 0]
         /\ \A b \in Attempts : b # a => att'[b] = att[b]
<1>1. [at |-> at, k |-> k, tries |-> 0] \in AttType
  BY StreamNumbers DEF AttType
<1> QED
  BY <1>1 DEF CallsTyped, Goes

\* What a failed request makes of its attempt
LEMMA FailsFacts ==
  ASSUME CallsTyped, NEW a \in Attempts, att[a].at \in {"resume", "reset", "chunk", "abort"},
         NEW others, others \subseteq Requests, Fails(a, others)
  PROVE  /\ CallsTyped'
         /\ att'[a].at \in {"reset", "fallingBack", "givingUp"}
         /\ \A b \in Attempts : b # a => att'[b] = att[b]
<1>1. PICK at \in {"reset", "fallingBack", "givingUp"} : Goes(a, at, 1)
  BY DEF Fails
<1>2. at \in Steps \ {"chunk"} /\ 1 \in 1..(Chunks + 1)
  BY StreamNumbers DEF Steps, Ended
<1>3. /\ att' \in [Attempts -> AttType]
      /\ \A b \in Attempts : att'[b].at = "chunk" => att'[b].tries < MaxChunkRetries
      /\ att'[a] = [at |-> at, k |-> 1, tries |-> 0]
      /\ \A b \in Attempts : b # a => att'[b] = att[b]
  BY <1>1, <1>2, GoesTyped
<1>4. [a |-> a, kind |-> "reset", k |-> 0] \in Requests
  BY StreamNumbers DEF Requests
<1>5. net' \subseteq Requests
  BY <1>4 DEF Fails
<1>6. fails' \in [1..Chunks -> 0..MaxChunkRetries]
  <2>1. CASE att[a].at = "chunk"
    <3>1. att[a].tries + 1 \in 0..MaxChunkRetries
      BY <2>1, StreamNumbers DEF CallsTyped, AttType
    <3> QED
      BY <2>1, <3>1 DEF Fails, CallsTyped
  <2>2. CASE att[a].at # "chunk"
    BY <2>2 DEF Fails, CallsTyped
  <2> QED
    BY <2>1, <2>2
<1> QED
  BY <1>3, <1>5, <1>6 DEF CallsTyped

\* Who awaits an answer is an attempt, at a step that asks for one.
LEMMA AwaitsFacts ==
  ASSUME NEW m \in Requests, Awaits(m)
  PROVE  m.a \in Attempts /\ att[m.a].at \in {"resume", "reset", "chunk", "abort"}
BY DEF Awaits, Requests

\* What an answer makes of the attempts
LEMMA AnswersFacts ==
  ASSUME CallsTyped, NEW m \in Requests, NEW at \in Steps \ {"chunk"},
         NEW k \in 1..(Chunks + 1), Answers(m, at, k)
  PROVE  /\ CallsTyped'
         /\ \A a \in Attempts : att'[a] = att[a]
              \/ (a = m.a /\ Awaits(m) /\ att'[a] = [at |-> at, k |-> k, tries |-> 0])
<1>1. net' \subseteq Requests
  BY DEF Answers, CallsTyped
<1>2. fails' \in [1..Chunks -> 0..MaxChunkRetries]
  <2>1. fails' = [fails EXCEPT ![m.k] = 0] \/ fails' = fails
    BY DEF Answers
  <2>2. 0 \in 0..MaxChunkRetries
    BY StreamNumbers
  <2> QED
    BY <2>1, <2>2 DEF CallsTyped
<1>3. CASE Awaits(m)
  <2>1. Goes(m.a, at, k) /\ m.a \in Attempts
    BY <1>3, AwaitsFacts DEF Answers
  <2> QED
    BY <1>1, <1>2, <1>3, <2>1, GoesTyped DEF CallsTyped
<1>4. CASE ~Awaits(m)
  BY <1>1, <1>2, <1>4 DEF Answers, CallsTyped
<1> QED
  BY <1>3, <1>4

\* What a refused request makes of the attempts
LEMMA RefusesFacts ==
  ASSUME CallsTyped, NEW m \in Requests, RefusesRequest(m)
  PROVE  /\ CallsTyped'
         /\ \A a \in Attempts :
              att'[a] = att[a] \/ att'[a].at \in {"reset", "fallingBack", "givingUp"}
<1>1. CASE Awaits(m)
  <2>1. Fails(m.a, net \ {m}) /\ m.a \in Attempts
        /\ att[m.a].at \in {"resume", "reset", "chunk", "abort"}
    BY <1>1, AwaitsFacts DEF RefusesRequest
  <2>2. net \ {m} \subseteq Requests
    BY DEF CallsTyped
  <2> QED
    BY <2>1, <2>2, FailsFacts
<1>2. CASE ~Awaits(m)
  BY <1>2 DEF RefusesRequest, CallsTyped
<1> QED
  BY <1>1, <1>2

\* The row and the attempts may move as they like, as far as the worker is concerned.
SenderMoves ==
  /\ UNCHANGED workerVars /\ dropped' = dropped /\ (strayed => strayed')
  /\ RowDone' = RowDone
  /\ \A a \in Attempts : att'[a].at = "succeeded" => att[a].at = "succeeded" \/ RowDone
  /\ ~strayed' =>
       /\ \A a \in Attempts : Expects(a)' => Expects(a) \/ Fed
       /\ busy.step = "clear" => \A a \in Attempts :
            att'[a].at \in {"loop", "chunk", "wait"} => att[a].at \in {"loop", "chunk", "wait"}

\* The part of the invariant that is about the receiving instance
WorkerInv ==
  /\ WorkerTyped /\ BusyOK /\ (\A c \in 1..MaxContexts : CtxOK(c)) /\ ActiveOK
  /\ DoneOK /\ AloneOK /\ FedOK

\* A step of the sender keeps that part.
LEMMA SenderKeeps == ASSUME StreamInv, SenderMoves PROVE WorkerInv'
<1>1. /\ busy' = busy /\ ctx' = ctx /\ active' = active /\ staging' = staging
      /\ remote' = remote /\ status' = status /\ late' = late
      /\ dropped' = dropped /\ RowDone' = RowDone
  BY DEF SenderMoves, workerVars
<1>2. WorkerTyped' /\ BusyOK' /\ ActiveOK'
  BY <1>1 DEF StreamInv, WorkerTyped, BusyOK, ActiveOK, Writing
<1>3. \A c \in 1..MaxContexts : CtxOK(c)'
  BY <1>1 DEF StreamInv, CtxOK
<1>4. DoneOK'
  BY <1>1 DEF StreamInv, DoneOK, SenderMoves
<1>5. AloneOK'
  <2>1. Over' = Over /\ Writing' = Writing /\ \A c : Uploading(c)' = Uploading(c)
    BY <1>1 DEF Over, Writing, Uploading
  <2> QED
    BY <1>1, <2>1 DEF StreamInv, AloneOK
<1>6. FedOK'
  <2>1. Fed' = Fed
    BY <1>1 DEF Fed
  <2>2. CASE strayed' \/ dropped
    BY <1>1, <2>2 DEF FedOK
  <2>3. CASE ~strayed' /\ ~dropped
    BY <1>1, <2>1, <2>3 DEF StreamInv, FedOK, SenderMoves
  <2> QED
    BY <2>2, <2>3
<1> QED
  BY <1>2, <1>3, <1>4, <1>5, <1>6 DEF WorkerInv

\* A step of the sender
AtSender == UNCHANGED workerVars /\ dropped' = dropped /\ (strayed => strayed') /\ RowDone' = RowDone

\* A step that takes one attempt on, to where it expects nothing new
LEMMA OneGoes ==
  ASSUME StreamInv, AtSender, NEW a \in Attempts, NEW at \in Steps \ {"chunk"},
         NEW k \in 1..(Chunks + 1), Goes(a, at, k),
         at = "succeeded" => RowDone,
         at \in {"loop", "wait"} => strayed' \/ att[a].at = "loop",
         at = "wait" \/ (at = "loop" /\ k = Chunks + 1) => strayed' \/ Expects(a) \/ Fed
  PROVE  WorkerInv'
<1>1. /\ att'[a] = [at |-> at, k |-> k, tries |-> 0]
      /\ \A b \in Attempts : b # a => att'[b] = att[b]
  BY GoesTyped DEF StreamInv
<1>2. \A b \in Attempts : b # a => Expects(b)' = Expects(b)
  BY <1>1 DEF Expects
<1>3. Expects(a)' => at = "wait" \/ (at = "loop" /\ k = Chunks + 1)
  BY <1>1 DEF Expects
<1>4. SenderMoves
  BY <1>1, <1>2, <1>3 DEF SenderMoves, AtSender
<1> QED
  BY <1>4, SenderKeeps

\* An attempt that goes on keeps its type, in a step that sends nothing.
LEMMA GoesKeeps ==
  ASSUME StreamInv, NEW a \in Attempts, NEW at \in Steps \ {"chunk"},
         NEW k \in 1..(Chunks + 1), Goes(a, at, k), fails' = fails, net' \subseteq Requests
  PROVE  CallsTyped'
BY GoesTyped DEF StreamInv, CallsTyped

\* An attempt that sends a request keeps its type.
LEMMA SendsTyped ==
  ASSUME CallsTyped, NEW a \in Attempts,
         NEW type \in {"resume", "resumeOwned", "chunk", "reset", "abort"},
         NEW k \in 0..Chunks, Sends(a, type, k)
  PROVE  net' \subseteq Requests
<1>1. [a |-> a, kind |-> type, k |-> k] \in Requests
  BY DEF Requests
<1> QED
  BY <1>1 DEF Sends, CallsTyped

\* The steps in which a sender moves by itself
LEMMA ClaimKeeps == ASSUME StreamInv, NEW a \in Attempts, Claim(a) PROVE StreamInv'
<1>1. row' = [status |-> "downloading", lease |-> a] /\ ~RowDone /\ ~RowDone'
  BY DEF Claim, RowDone, ActiveStatuses
<1>2. RowTyped' /\ HistTyped'
  BY <1>1 DEF Claim, RowTyped, HistTyped, StreamInv, Statuses
<1>3. Goes(a, "start", 1) /\ "start" \in Steps \ {"chunk"} /\ 1 \in 1..(Chunks + 1)
  BY StreamNumbers DEF Claim, Steps
<1>4. AtSender
  <2>1. RowDone' = RowDone
    BY <1>1 DEF RowDone
  <2> QED
    BY <2>1 DEF Claim, AtSender
<1>5. CallsTyped'
  BY <1>3, GoesKeeps DEF Claim, StreamInv, CallsTyped
<1>6. WorkerInv'
  BY <1>3, <1>4, OneGoes
<1> QED
  BY <1>2, <1>5, <1>6 DEF StreamInv, WorkerInv

LEMMA StartForwardingKeeps ==
  ASSUME StreamInv, NEW a \in Attempts, StartForwarding(a) PROVE StreamInv'
<1>1. "start_stream_upload" \in Events /\ "start_stream_upload" # "complete"
  BY DEF Events
<1>2. RowTyped' /\ RowDone' = RowDone
  BY <1>1, RowMoves DEF StartForwarding, RowTyped, StreamInv, RowDone
<1>3. PICK at \in {"own", "local"} : Goes(a, at, 1)
  BY DEF StartForwarding
<1>4. at \in Steps \ {"chunk"} /\ 1 \in 1..(Chunks + 1)
  BY StreamNumbers DEF Steps, Ended
<1>5. HistTyped' /\ AtSender
  BY <1>2 DEF StartForwarding, AtSender, StreamInv, HistTyped, histVars
<1>6. CallsTyped'
  BY <1>3, <1>4, GoesKeeps DEF StartForwarding, StreamInv, CallsTyped
<1>7. WorkerInv'
  BY <1>3, <1>4, <1>5, OneGoes
<1> QED
  BY <1>2, <1>5, <1>6, <1>7 DEF StreamInv, WorkerInv

LEMMA RegisterOwnerKeeps ==
  ASSUME StreamInv, NEW a \in Attempts, RegisterOwner(a) PROVE StreamInv'
<1>1. RowTyped' /\ HistTyped' /\ AtSender
  BY DEF RegisterOwner, AtSender, RowTyped, StreamInv, HistTyped, histVars, RowDone
<1>2. Goes(a, "resume", 1) /\ "resume" \in Steps \ {"chunk"} /\ 1 \in 1..(Chunks + 1)
      /\ 0 \in 0..Chunks
  BY StreamNumbers DEF RegisterOwner, Steps
<1>3. net' \subseteq Requests
  BY <1>2, SendsTyped DEF RegisterOwner, StreamInv
<1>4. CallsTyped'
  BY <1>2, <1>3, GoesKeeps DEF RegisterOwner
<1>5. WorkerInv'
  BY <1>1, <1>2, OneGoes
<1> QED
  BY <1>1, <1>4, <1>5 DEF StreamInv, WorkerInv

LEMMA SendChunkKeeps == ASSUME StreamInv, NEW a \in Attempts, SendChunk(a) PROVE StreamInv'
<1> DEFINE j == att[a].k
<1>1. RowTyped' /\ HistTyped' /\ AtSender
  BY DEF SendChunk, AtSender, RowTyped, StreamInv, HistTyped, RowDone
<1>2. j \in 1..Chunks /\ att[a].at = "loop"
  BY StreamNumbers DEF SendChunk, StreamInv, CallsTyped, AttType
<1>3. CASE PassedOver(j)
  <2>1. Goes(a, "loop", j + 1) /\ strayed' /\ net' = net /\ fails' = fails
    BY <1>3 DEF SendChunk
  <2>2. "loop" \in Steps \ {"chunk"} /\ j + 1 \in 1..(Chunks + 1)
    BY <1>2, StreamNumbers DEF Steps
  <2>3. CallsTyped'
    BY <2>1, <2>2, GoesKeeps DEF StreamInv, CallsTyped
  <2>4. WorkerInv'
    BY <1>1, <2>1, <2>2, OneGoes
  <2> QED
    BY <1>1, <2>3, <2>4 DEF StreamInv, WorkerInv
<1>4. CASE ~PassedOver(j)
  <2>1. att' = [att EXCEPT ![a] = [at |-> "chunk", k |-> j, tries |-> fails[j]]]
        /\ Sends(a, "chunk", j) /\ fails' = fails
    BY <1>4 DEF SendChunk
  <2>2. fails[j] \in 0..MaxChunkRetries /\ fails[j] < MaxChunkRetries
    BY <1>2, <1>4, StreamNumbers DEF PassedOver, StreamInv, CallsTyped
  <2>3. [at |-> "chunk", k |-> j, tries |-> fails[j]] \in AttType
    BY <1>2, <2>2, StreamNumbers DEF AttType, Steps
  <2>4. net' \subseteq Requests
    BY <1>2, <2>1, SendsTyped, StreamNumbers DEF StreamInv
  <2>5. CallsTyped'
    BY <2>1, <2>2, <2>3, <2>4 DEF StreamInv, CallsTyped
  <2>6. \A b \in Attempts : b # a => att'[b] = att[b]
    BY <2>1 DEF StreamInv, CallsTyped
  <2>7. att'[a].at = "chunk"
    BY <2>1 DEF StreamInv, CallsTyped
  <2>8. SenderMoves
    BY <1>1, <1>2, <2>6, <2>7 DEF SenderMoves, AtSender, Expects
  <2> QED
    BY <1>1, <2>5, <2>8, SenderKeeps DEF StreamInv, WorkerInv
<1> QED
  BY <1>3, <1>4

LEMMA AllSentKeeps == ASSUME StreamInv, NEW a \in Attempts, AllSent(a) PROVE StreamInv'
<1>1. RowTyped' /\ HistTyped' /\ AtSender
  BY DEF AllSent, AtSender, RowTyped, StreamInv, HistTyped, histVars, RowDone
<1>2. /\ Goes(a, "wait", Chunks + 1) /\ "wait" \in Steps \ {"chunk"} 
      /\ Chunks + 1 \in 1..(Chunks + 1)
  BY StreamNumbers DEF AllSent, Steps
<1>3. att[a].at = "loop" /\ Expects(a)
  BY StreamNumbers DEF AllSent, StreamInv, CallsTyped, AttType, Expects
<1>4. CallsTyped'
  BY <1>2, GoesKeeps DEF AllSent, StreamInv, CallsTyped
<1>5. WorkerInv'
  BY <1>1, <1>2, <1>3, OneGoes
<1> QED
  BY <1>1, <1>4, <1>5 DEF StreamInv, WorkerInv

LEMMA FindsCancelledKeeps ==
  ASSUME StreamInv, NEW a \in Attempts, FindsCancelled(a) PROVE StreamInv'
<1>1. RowTyped' /\ HistTyped' /\ AtSender
  BY DEF FindsCancelled, AtSender, RowTyped, StreamInv, HistTyped, histVars, RowDone
<1>2. Goes(a, "cancelled", 1) /\ "cancelled" \in Steps \ {"chunk"} /\ 1 \in 1..(Chunks + 1)
  BY StreamNumbers DEF FindsCancelled, Steps, Ended
<1>3. CallsTyped'
  BY <1>2, GoesKeeps DEF FindsCancelled, StreamInv, CallsTyped
<1>4. WorkerInv'
  BY <1>1, <1>2, OneGoes
<1> QED
  BY <1>1, <1>3, <1>4 DEF StreamInv, WorkerInv

\* What is shown as completed is: the context's end, or the one that is stored.
LEMMA ShownIsDone == ASSUME StreamInv, Shown = "completed" PROVE RowDone
<1>1. CASE active # 0
  <2>1. active \in 1..MaxContexts /\ ctx[active].phase = "completed"
    BY <1>1, StreamNumbers DEF Shown, StreamInv, WorkerTyped
  <2> QED
    BY <2>1 DEF StreamInv, DoneOK
<1>2. CASE active = 0
  BY <1>2 DEF Shown, StreamInv, DoneOK
<1> QED
  BY <1>1, <1>2

LEMMA PollKeeps == ASSUME StreamInv, NEW a \in Attempts, Poll(a) PROVE StreamInv'
<1>1. RowTyped' /\ HistTyped' /\ AtSender
  BY DEF Poll, AtSender, RowTyped, StreamInv, HistTyped, histVars, RowDone
<1>2. PICK at \in {"succeeded", "givingUp"} : Goes(a, at, 1) /\ (at = "succeeded" => RowDone)
  BY ShownIsDone DEF Poll
<1>3. at \in Steps \ {"chunk"} /\ 1 \in 1..(Chunks + 1)
  BY StreamNumbers DEF Steps, Ended
<1>4. CallsTyped'
  BY <1>2, <1>3, GoesKeeps DEF Poll, StreamInv, CallsTyped
<1>5. WorkerInv'
  BY <1>1, <1>2, <1>3, OneGoes
<1> QED
  BY <1>1, <1>4, <1>5 DEF StreamInv, WorkerInv

LEMMA WaitTimesOutKeeps ==
  ASSUME StreamInv, NEW a \in Attempts, WaitTimesOut(a) PROVE StreamInv'
<1>1. RowTyped' /\ HistTyped' /\ AtSender
  BY DEF WaitTimesOut, AtSender, RowTyped, StreamInv, HistTyped, histVars, RowDone
<1>2. Goes(a, "givingUp", 1) /\ "givingUp" \in Steps \ {"chunk"} /\ 1 \in 1..(Chunks + 1)
  BY StreamNumbers DEF WaitTimesOut, Steps
<1>3. CallsTyped'
  BY <1>2, GoesKeeps DEF WaitTimesOut, StreamInv, CallsTyped
<1>4. WorkerInv'
  BY <1>1, <1>2, OneGoes
<1> QED
  BY <1>1, <1>3, <1>4 DEF StreamInv, WorkerInv

\* No step makes more incidents than there may be.
LEMMA IncidentTyped == ASSUME HistTyped, Incident \/ incidents' = incidents
                       PROVE incidents' \in 0..MaxIncidents
BY StreamNumbers DEF HistTyped, Incident

LEMMA TimesOutKeeps == ASSUME StreamInv, NEW a \in Attempts, TimesOut(a) PROVE StreamInv'
<1>1. incidents' \in 0..MaxIncidents
  BY IncidentTyped DEF TimesOut, StreamInv
<1>2. RowTyped' /\ HistTyped' /\ AtSender
  BY <1>1 DEF TimesOut, AtSender, RowTyped, StreamInv, HistTyped, RowDone
<1>3. PICK others \in {net, {m \in net : m.a # a}} : Fails(a, others)
  BY DEF TimesOut
<1>4. others \subseteq Requests /\ att[a].at \in {"resume", "reset", "chunk", "abort"}
  BY <1>3 DEF TimesOut, StreamInv, CallsTyped
<1>5. /\ CallsTyped'
      /\ att'[a].at \in {"reset", "fallingBack", "givingUp"}
      /\ \A b \in Attempts : b # a => att'[b] = att[b]
  BY <1>3, <1>4, FailsFacts DEF StreamInv
<1>6. SenderMoves
  BY <1>2, <1>5 DEF SenderMoves, AtSender, Expects
<1> QED
  BY <1>2, <1>5, <1>6, SenderKeeps DEF StreamInv, WorkerInv

LEMMA GiveUpKeeps == ASSUME StreamInv, NEW a \in Attempts, GiveUp(a) PROVE StreamInv'
<1>1. RowTyped' /\ HistTyped' /\ AtSender
  BY DEF GiveUp, AtSender, RowTyped, StreamInv, HistTyped, histVars, RowDone
<1>2. Goes(a, "abort", 1) /\ "abort" \in Steps \ {"chunk"} /\ 1 \in 1..(Chunks + 1)
      /\ 0 \in 0..Chunks
  BY StreamNumbers DEF GiveUp, Steps
<1>3. net' \subseteq Requests
  BY <1>2, SendsTyped DEF GiveUp, StreamInv
<1>4. CallsTyped'
  BY <1>2, <1>3, GoesKeeps DEF GiveUp
<1>5. WorkerInv'
  BY <1>1, <1>2, OneGoes
<1> QED
  BY <1>1, <1>4, <1>5 DEF StreamInv, WorkerInv

LEMMA FallBackKeeps == ASSUME StreamInv, NEW a \in Attempts, FallBack(a) PROVE StreamInv'
<1>1. "reset_stream_download" \in Events /\ "reset_stream_download" # "complete"
  BY DEF Events
<1>2. RowTyped' /\ RowDone' = RowDone
  BY <1>1, RowMoves DEF FallBack, RowTyped, StreamInv, RowDone
<1>3. PICK at \in {"local", "rejected"} : Goes(a, at, 1)
  BY DEF FallBack
<1>4. at \in Steps \ {"chunk"} /\ 1 \in 1..(Chunks + 1)
  BY StreamNumbers DEF Steps, Ended
<1>5. HistTyped' /\ AtSender
  BY <1>2 DEF FallBack, AtSender, StreamInv, HistTyped, histVars
<1>6. CallsTyped'
  BY <1>3, <1>4, GoesKeeps DEF FallBack, StreamInv, CallsTyped
<1>7. WorkerInv'
  BY <1>3, <1>4, <1>5, OneGoes
<1> QED
  BY <1>2, <1>5, <1>6, <1>7 DEF StreamInv, WorkerInv

\* The user cancels, and the retries are forgotten: no attempt moves.
LEMMA AttemptsRest ==
  ASSUME StreamInv, AtSender, att' = att PROVE WorkerInv'
<1>1. \A a \in Attempts : Expects(a)' = Expects(a)
  BY DEF Expects
<1>2. SenderMoves
  BY <1>1 DEF SenderMoves, AtSender
<1> QED
  BY <1>2, SenderKeeps

LEMMA CancelTaskKeeps == ASSUME StreamInv, CancelTask PROVE StreamInv'
<1>1. ~RowDone /\ ~RowDone' /\ RowTyped'
  BY DEF CancelTask, RowDone, Allowed, AllowedFrom, ActiveStatuses, RowTyped, StreamInv, Statuses
<1>2. incidents' \in 0..MaxIncidents
  BY IncidentTyped DEF CancelTask, StreamInv
<1>3. HistTyped' /\ AtSender /\ CallsTyped'
  <2>1. RowDone' = RowDone
    BY <1>1 DEF RowDone
  <2> QED
    BY <1>2, <2>1 DEF CancelTask, AtSender, StreamInv, HistTyped, CallsTyped
<1>4. WorkerInv'
  BY <1>3, AttemptsRest DEF CancelTask
<1> QED
  BY <1>1, <1>3, <1>4 DEF StreamInv, WorkerInv

LEMMA ForgetRetriesKeeps == ASSUME StreamInv, ForgetRetries PROVE StreamInv'
<1>1. RowTyped' /\ HistTyped' /\ AtSender
  BY DEF ForgetRetries, AtSender, RowTyped, StreamInv, HistTyped, histVars, RowDone
<1>2. CallsTyped'
  BY StreamNumbers DEF ForgetRetries, StreamInv, CallsTyped
<1>3. WorkerInv'
  BY <1>1, AttemptsRest DEF ForgetRetries
<1> QED
  BY <1>1, <1>2, <1>3 DEF StreamInv, WorkerInv

\* A refused request makes no attempt expect anything.
LEMMA RefusesGain ==
  ASSUME CallsTyped, NEW m \in Requests, RefusesRequest(m)
  PROVE  /\ CallsTyped'
         /\ \A a \in Attempts : Expects(a)' => Expects(a)
         /\ \A a \in Attempts : att'[a].at \in {"succeeded", "loop", "chunk", "wait"}
                                  => att'[a] = att[a]
BY RefusesFacts DEF Expects

\* An answer makes no other attempt expect anything.
LEMMA AnswersGain ==
  ASSUME CallsTyped, NEW m \in Requests, NEW at \in Steps \ {"chunk", "succeeded"},
         NEW k \in 1..(Chunks + 1), Answers(m, at, k)
  PROVE  /\ CallsTyped'
         /\ \A a \in Attempts : Expects(a)' =>
              Expects(a) \/ at = "wait" \/ (at = "loop" /\ k = Chunks + 1)
         /\ \A a \in Attempts : att'[a].at = "succeeded" => att[a].at = "succeeded"
<1>1. /\ CallsTyped'
      /\ \A a \in Attempts : att'[a] = att[a]
              \/ (a = m.a /\ Awaits(m) /\ att'[a] = [at |-> at, k |-> k, tries |-> 0])
  BY AnswersFacts
<1> QED
  BY <1>1 DEF Expects

\* What is on its way is a request.
LEMMA NetTyped == ASSUME StreamInv, NEW m \in net PROVE m \in Requests
BY DEF StreamInv, CallsTyped

\* The task lock that is free
LEMMA BusyFree == Free.step = "free" /\ Free.c = 0 /\ Free.req = NoRequest /\ Free \in BusyType
BY StreamNumbers DEF Free, BusyType

-----------------------------------------------------------------------------
\* Requests that leave the worker as it is
LEMMA AdmitResumeKeeps ==
  ASSUME StreamInv, NEW m \in net, AdmitResume(m) PROVE StreamInv'
<1>1. RowTyped' /\ HistTyped' /\ AtSender
  BY DEF AdmitResume, AtSender, RowTyped, StreamInv, HistTyped, histVars, RowDone
<1>2. CASE owner
  <2>1. m \in Requests /\ [m EXCEPT !.kind = "resumeOwned"] \in Requests
    BY NetTyped DEF Requests
  <2>2. CallsTyped' /\ att' = att
    BY <1>2, <2>1 DEF AdmitResume, StreamInv, CallsTyped
  <2> QED
    BY <1>1, <2>2, AttemptsRest DEF StreamInv, WorkerInv
<1>3. CASE ~owner
  <2>1. m \in Requests /\ RefusesRequest(m)
    BY <1>3, NetTyped DEF AdmitResume
  <2>2. /\ CallsTyped'
        /\ \A a \in Attempts : Expects(a)' => Expects(a)
        /\ \A a \in Attempts : att'[a].at \in {"succeeded", "loop", "chunk", "wait"}
                                  => att'[a] = att[a]
    BY <2>1, RefusesGain DEF StreamInv
  <2>3. SenderMoves
    BY <1>1, <2>2 DEF SenderMoves, AtSender
  <2> QED
    BY <1>1, <2>2, <2>3, SenderKeeps DEF StreamInv, WorkerInv
<1> QED
  BY <1>2, <1>3

\* An answer given while nothing else is done under the task lock
LEMMA AnswerKeeps ==
  ASSUME StreamInv, AtSender, busy = Free, NEW m \in Requests,
         NEW at \in Steps \ {"chunk", "succeeded"}, NEW k \in 1..(Chunks + 1),
         Answers(m, at, k), at = "wait" \/ (at = "loop" /\ k = Chunks + 1) => Fed
  PROVE  CallsTyped' /\ WorkerInv'
<1>1. /\ CallsTyped'
      /\ \A a \in Attempts : Expects(a)' =>
              Expects(a) \/ at = "wait" \/ (at = "loop" /\ k = Chunks + 1)
      /\ \A a \in Attempts : att'[a].at = "succeeded" => att[a].at = "succeeded"
  BY AnswersGain DEF StreamInv
<1>2. SenderMoves
  BY <1>1, BusyFree DEF SenderMoves, AtSender
<1> QED
  BY <1>1, <1>2, SenderKeeps

LEMMA IgnoreResetKeeps ==
  ASSUME StreamInv, NEW m \in net, IgnoreReset(m) PROVE StreamInv'
<1>1. RowTyped' /\ HistTyped' /\ AtSender
  BY DEF IgnoreReset, AtSender, RowTyped, StreamInv, HistTyped, histVars, RowDone
<1>2. PICK at \in {"loop", "fallingBack"} : Answers(m, at, 1)
  BY DEF IgnoreReset, AfterReset
<1>3. at \in Steps \ {"chunk", "succeeded"} /\ 1 \in 1..(Chunks + 1) /\ 1 # Chunks + 1
  BY StreamNumbers DEF Steps
<1>4. m \in Requests /\ busy = Free
  BY NetTyped DEF IgnoreReset
<1>5. CallsTyped' /\ WorkerInv'
  BY <1>1, <1>2, <1>3, <1>4, AnswerKeeps
<1> QED
  BY <1>1, <1>5 DEF StreamInv, WorkerInv

LEMMA ResumeContextKeeps ==
  ASSUME StreamInv, NEW m \in net, ResumeContext(m) PROVE StreamInv'
<1>1. RowTyped' /\ HistTyped' /\ AtSender
  BY DEF ResumeContext, AtSender, RowTyped, StreamInv, HistTyped, histVars, RowDone
<1>2. m \in Requests /\ busy = Free /\ active \in 1..MaxContexts /\ active # 0
  BY NetTyped, StreamNumbers DEF ResumeContext, HasContext, StreamInv, WorkerTyped
<1>3. ctx[active] \in CtxType /\ CtxOK(active)
  BY <1>2 DEF StreamInv, WorkerTyped
<1>4. CASE ctx[active].phase \in {"finalizing", "completed"} \/ ctx[active].last = Chunks
  <2>1. Answers(m, "wait", 1)
    BY <1>4 DEF ResumeContext
  <2>2. ctx[active].phase # "receiving"
    BY <1>2, <1>3, <1>4, BusyFree DEF CtxOK
  <2>3. Fed
    BY <1>2, <2>2 DEF Fed
  <2>4. "wait" \in Steps \ {"chunk", "succeeded"} /\ 1 \in 1..(Chunks + 1)
    BY StreamNumbers DEF Steps
  <2>5. CallsTyped' /\ WorkerInv'
    BY <1>1, <1>2, <2>1, <2>3, <2>4, AnswerKeeps
  <2> QED
    BY <1>1, <2>5 DEF StreamInv, WorkerInv
<1>5. CASE ~(ctx[active].phase \in {"finalizing", "completed"} \/ ctx[active].last = Chunks)
  <2>1. Answers(m, "loop", ctx[active].last + 1)
    BY <1>5 DEF ResumeContext
  <2>2. ctx[active].last + 1 \in 1..(Chunks + 1) /\ ctx[active].last + 1 # Chunks + 1
    BY <1>3, <1>5, StreamNumbers DEF CtxType
  <2>3. "loop" \in Steps \ {"chunk", "succeeded"}
    BY DEF Steps
  <2>4. CallsTyped' /\ WorkerInv'
    BY <1>1, <1>2, <2>1, <2>2, <2>3, AnswerKeeps
  <2> QED
    BY <1>1, <2>4 DEF StreamInv, WorkerInv
<1> QED
  BY <1>4, <1>5

-----------------------------------------------------------------------------
(* A context is opened. *)

\* What is cut off or not, the chunks that are staged stay.
LEMMA NormalizedFacts ==
  ASSUME WorkerTyped
  PROVE  /\ Normalized(staging) \in [chunks : Beginnings, torn : BOOLEAN]
         /\ Normalized(staging).chunks = staging.chunks /\ ~Normalized(staging).torn
         /\ Complete(Normalized(staging)) <=> Len(staging.chunks) = Chunks
         /\ Len(staging.chunks) \in 0..Chunks
<1>1. staging.chunks \in Beginnings
  BY DEF WorkerTyped
<1> QED
  BY <1>1, BeginningFacts DEF Normalized, Complete, WorkerTyped

\* A context that is opened is receiving, and as far as the staging file.
LEMMA NewContextFacts ==
  ASSUME WorkerTyped, NEW a \in Attempts, NEW w, w = NewContext(a)
  PROVE  /\ w \in CtxType /\ w.lease = a /\ ~w.cancelled /\ w.last = Len(staging.chunks)
         /\ Len(staging.chunks) = Chunks =>
              w.phase = "finalizing" /\ w.file = "closed" /\ w.work = "check"
         /\ Len(staging.chunks) # Chunks =>
              w.phase = "receiving" /\ w.file = "staging" /\ w.work = "none"
<1>1. CASE Len(staging.chunks) = Chunks
  <2>1. PICK b \in BOOLEAN : b = FALSE
    OBVIOUS
  <2>2. w = [phase |-> "finalizing", last |-> Len(staging.chunks), lease |-> a,
             cancelled |-> b, file |-> "closed", work |-> "check"]
    BY <1>1, <2>1, NormalizedFacts DEF NewContext
  <2>3. Len(staging.chunks) \in 0..Chunks
    BY NormalizedFacts
  <2>4. w \in CtxType
    BY <2>1, <2>2, <2>3 DEF CtxType, Working
  <2>5. w.lease = a /\ w.cancelled = b /\ w.last = Len(staging.chunks)
    BY <2>2
  <2>6. ~w.cancelled
    BY <2>1, <2>5
  <2> QED
    BY <1>1, <2>2, <2>4, <2>5, <2>6
<1>2. CASE Len(staging.chunks) # Chunks
  <2>1. PICK b \in BOOLEAN : b = FALSE
    OBVIOUS
  <2>2. w = [phase |-> "receiving", last |-> Len(staging.chunks), lease |-> a,
             cancelled |-> b, file |-> "staging", work |-> "none"]
    BY <1>2, <2>1, NormalizedFacts DEF NewContext
  <2>3. Len(staging.chunks) \in 0..Chunks
    BY NormalizedFacts
  <2>4. w \in CtxType
    BY <2>1, <2>2, <2>3 DEF CtxType, Working
  <2>5. w.lease = a /\ w.cancelled = b /\ w.last = Len(staging.chunks)
    BY <2>2
  <2>6. ~w.cancelled
    BY <2>1, <2>5
  <2> QED
    BY <1>2, <2>2, <2>4, <2>5, <2>6
<1> QED
  BY <1>1, <1>2

\* A context is opened for attempt a, by a chunk m that it then takes, or to be uploaded.
Opens(a, m) ==
  /\ busy = Free /\ active = 0 /\ OpenContext(a) /\ ~RowDone /\ ~RowDone'
  /\ remote' = remote /\ status' = status /\ dropped' = dropped /\ strayed' = strayed
  /\ \A b \in Attempts : att'[b].at = "succeeded" => att[b].at = "succeeded"
  /\ \A b \in Attempts : Expects(b)' => Expects(b) \/ Len(staging.chunks) = Chunks
  /\ \/ busy' = Free
     \/ busy' = [req |-> m, c |-> Slot, step |-> "write"] /\ m.kind = "chunk"

\* A context is opened in a free slot.
LEMMA SlotFacts ==
  ASSUME WorkerTyped, FreeSlots # {}
  PROVE  Slot \in 1..MaxContexts /\ Slot # 0 /\ ctx[Slot].work \in {"none", "ended"}
<1>1. Slot \in FreeSlots
  BY DEF Slot
<1> QED
  BY <1>1, StreamNumbers DEF FreeSlots

\* The opening of a context keeps the part about the receiving instance.
LEMMA OpensKeeps ==
  ASSUME StreamInv, NEW a \in Attempts, NEW m \in Requests, Opens(a, m)
  PROVE  WorkerInv'
<1>1. PICK s \in 1..MaxContexts : s = Slot /\ s # 0 /\ ctx[s].work \in {"none", "ended"}
  BY SlotFacts DEF Opens, OpenContext, StreamInv
<1>2. PICK w : w = NewContext(a)
  OBVIOUS
<1>3. /\ w \in CtxType /\ w.lease = a /\ ~w.cancelled /\ w.last = Len(staging.chunks)
      /\ Len(staging.chunks) = Chunks =>
           w.phase = "finalizing" /\ w.file = "closed" /\ w.work = "check"
      /\ Len(staging.chunks) # Chunks =>
           w.phase = "receiving" /\ w.file = "staging" /\ w.work = "none"
  BY <1>2, NewContextFacts DEF StreamInv
<1>4. /\ active' = s /\ ctx' = [ctx EXCEPT ![s] = w]
      /\ staging' = Normalized(staging)
      /\ late' \subseteq 1..MaxContexts
  BY <1>1, <1>2 DEF Opens, OpenContext, StreamInv, WorkerTyped
<1>5. ctx' \in [1..MaxContexts -> CtxType] /\ ctx'[s] = w
      /\ \A c \in 1..MaxContexts : c # s => ctx'[c] = ctx[c]
  BY <1>3, <1>4 DEF StreamInv, WorkerTyped
<1>6. /\ staging' \in [chunks : Beginnings, torn : BOOLEAN]
      /\ staging'.chunks = staging.chunks /\ ~staging'.torn
      /\ Complete(staging') <=> Len(staging.chunks) = Chunks
  BY <1>4, NormalizedFacts DEF StreamInv
<1>7. /\ busy' \in BusyType
      /\ \/ busy' = Free
         \/ busy' = [req |-> m, c |-> s, step |-> "write"] /\ m.kind = "chunk"
  BY <1>1, BusyFree DEF Opens, BusyType
<1>8. WorkerTyped'
  BY <1>4, <1>5, <1>6, <1>7, StreamNumbers DEF Opens, WorkerTyped, StreamInv
<1>9. w.phase # "none"
  BY <1>3
<1>10. BusyOK'
  <2>1. CASE busy' = Free
    BY <2>1, BusyFree DEF BusyOK, Writing
  <2>2. CASE busy' = [req |-> m, c |-> s, step |-> "write"] /\ m.kind = "chunk"
    BY <1>4, <1>5, <1>9, <2>2 DEF BusyOK, Writing
  <2> QED
    BY <1>7, <2>1, <2>2
<1>11. ASSUME NEW c \in 1..MaxContexts PROVE CtxOK(c)'
  <2>1. CASE c = s
    BY <1>3, <1>4, <1>5, <1>6, <2>1 DEF CtxOK, Working, Finished
  <2>2. CASE c # s
    <3>1. CtxOK(c) /\ c # 0
      BY StreamNumbers DEF StreamInv
    <3>2. ctx[c].file # "staging" /\ ~(ctx[c].phase = "receiving" /\ ctx[c].last = Chunks)
      BY <3>1, BusyFree DEF CtxOK, Opens
    <3> QED
      BY <1>5, <2>2, <3>1, <3>2 DEF CtxOK
  <2> QED
    BY <2>1, <2>2
<1>12. ActiveOK'
  BY <1>3, <1>4, <1>5, <1>6 DEF ActiveOK
<1>13. DoneOK'
  <2>1. status # "completed" /\ (\A b \in Attempts : att[b].at # "succeeded")
        /\ \A c \in 1..MaxContexts : ctx[c].phase # "completed" /\ ctx[c].work # "clean"
    BY DEF StreamInv, DoneOK, Opens
  <2>2. \A c \in 1..MaxContexts : ctx'[c].phase # "completed" /\ ctx'[c].work # "clean"
    BY <1>3, <1>5, <2>1
  <2> QED
    BY <2>1, <2>2 DEF DoneOK, Opens
<1>14. AloneOK'
  <2> SUFFICES ASSUME ~dropped PROVE AloneOK'
    BY DEF AloneOK, Opens
  <2>1. ~Over /\ \A c \in 1..MaxContexts : c # 0
    BY StreamNumbers DEF Over, Opens
  <2>2. \A c \in 1..MaxContexts : ~Uploading(c)
    BY <2>1 DEF StreamInv, AloneOK, Opens
  <2>3. \A c \in 1..MaxContexts : Uploading(c)' => c = s /\ w.work = "check"
    BY <1>3, <1>5, <2>2 DEF Uploading, Working
  <2>4. \A c \in 1..MaxContexts : Uploading(c)' => c = active' /\ Complete(staging')
    BY <1>3, <1>4, <1>6, <2>3
  <2>5. (\E c \in 1..MaxContexts : ctx'[c].work = "complete") => Len(remote) = Chunks
    BY <1>3, <1>5 DEF StreamInv, AloneOK
  <2> QED
    BY <1>1, <1>4, <2>3, <2>4, <2>5 DEF AloneOK, Opens
<1>15. FedOK'
  <2> SUFFICES ASSUME ~dropped, ~strayed PROVE FedOK'
    BY DEF FedOK, Opens
  <2>1. ~Fed
    BY DEF Fed, Opens
  <2>2. \A b \in Attempts : ~Expects(b)
    BY <2>1 DEF StreamInv, FedOK
  <2>3. \A b \in Attempts : Expects(b)' => Fed'
    BY <1>1, <1>3, <1>4, <1>5, <2>2 DEF Opens, Fed
  <2>4. busy'.step # "clear"
    BY <1>7, BusyFree
  <2> QED
    BY <1>1, <1>4, <2>3, <2>4 DEF FedOK
<1> QED
  BY <1>8, <1>10, <1>11, <1>12, <1>13, <1>14, <1>15 DEF WorkerInv

\* The fields of a request
LEMMA AskedTyped == ASSUME NEW m \in Requests PROVE m.a \in Attempts /\ m.k \in 0..Chunks
BY DEF Requests

LEMMA TakeChunkKeeps ==
  ASSUME StreamInv, NEW m \in net, TakeChunk(m) PROVE StreamInv'
<1>1. m \in Requests /\ m.a \in Attempts /\ m.kind = "chunk" /\ busy = Free
  BY NetTyped, AskedTyped DEF TakeChunk
<1>2. CallsTyped' /\ HistTyped' /\ owner' = owner /\ att' = att /\ remote' = remote
      /\ status' = status /\ dropped' = dropped /\ strayed' = strayed
  BY DEF TakeChunk, histVars, HistTyped, CallsTyped, StreamInv
<1>3. \A a \in Attempts : Expects(a)' = Expects(a)
  BY <1>2 DEF Expects
<1>4. CASE active # 0
  <2>1. /\ busy' = [req |-> m, c |-> active, step |-> "write"]
        /\ row' = row /\ ctx' = ctx /\ active' = active /\ staging' = staging /\ late' = late
    BY <1>4 DEF TakeChunk
  <2>2. active \in 1..MaxContexts /\ active \in 0..MaxContexts
    BY <1>4, StreamNumbers DEF StreamInv, WorkerTyped
  <2>3. RowTyped' /\ RowDone' = RowDone
    BY <1>2, <2>1 DEF RowTyped, StreamInv, RowDone
  <2>4. WorkerTyped' /\ ActiveOK'
    BY <1>1, <1>2, <2>1, <2>2 DEF WorkerTyped, ActiveOK, StreamInv, BusyType
  <2>5. BusyOK'
    BY <1>1, <1>4, <2>1, <2>2 DEF BusyOK, Writing, StreamInv, ActiveOK
  <2>6. ASSUME NEW c \in 1..MaxContexts PROVE CtxOK(c)'
    <3>1. CtxOK(c) /\ ~(ctx[c].phase = "receiving" /\ ctx[c].last = Chunks)
      BY <1>1, BusyFree DEF StreamInv, CtxOK
    <3> QED
      BY <2>1, <3>1 DEF CtxOK
  <2>7. DoneOK'
    BY <1>2, <2>1, <2>3 DEF DoneOK, StreamInv
  <2>8. AloneOK'
    <3>1. Over' = Over /\ \A c : Uploading(c)' = Uploading(c)
      BY <2>1, <2>3 DEF Over, Uploading
    <3> QED
      BY <1>2, <1>4, <2>1, <2>3, <3>1 DEF AloneOK, StreamInv
  <2>9. FedOK'
    <3>1. Fed' = Fed
      BY <1>2, <2>1, <2>3 DEF Fed
    <3> QED
      BY <1>2, <1>3, <1>4, <2>1, <3>1 DEF FedOK, StreamInv
  <2> QED
    BY <1>2, <2>3, <2>4, <2>5, <2>6, <2>7, <2>8, <2>9 DEF StreamInv
<1>5. CASE active = 0
  <2>1. /\ Passes("start_stream_upload", m.a) /\ FireEvent("start_stream_upload", m.a)
        /\ OpenContext(m.a)
        /\ busy' = [req |-> m, c |-> Slot, step |-> "write"]
    BY <1>5 DEF TakeChunk
  <2>2. "start_stream_upload" \in Events /\ "start_stream_upload" # "complete"
    BY DEF Events
  <2>3. ~RowDone /\ ~RowDone' /\ RowTyped'
    BY <1>1, <1>2, <2>1, <2>2, DoneRefuses, RowMoves DEF StreamInv, RowTyped
  <2>4. Opens(m.a, m)
    BY <1>1, <1>2, <1>3, <1>5, <2>1, <2>3 DEF Opens
  <2> QED
    BY <1>1, <1>2, <2>3, <2>4, OpensKeeps DEF StreamInv, WorkerInv
<1> QED
  BY <1>4, <1>5

\* What is staged is cut to whole chunks while nobody writes to it.
Tidies ==
  /\ busy = Free /\ active = 0 /\ staging' = Normalized(staging)
  /\ UNCHANGED <<row, busy, ctx, active, remote, status, late, dropped, strayed>>
  /\ \A a \in Attempts : att'[a].at = "succeeded" => att[a].at = "succeeded"
  /\ \A a \in Attempts : Expects(a)' => Expects(a) \/ Fed

\* So does a step that only leaves the task lock or cuts the staging file.
LEMMA TidiesKeeps == ASSUME StreamInv, Tidies PROVE WorkerInv'
<1>1. /\ busy = Free /\ busy' = busy /\ ctx' = ctx /\ active' = 0 /\ active = 0
      /\ remote' = remote /\ status' = status /\ late' = late /\ row' = row
      /\ dropped' = dropped /\ strayed' = strayed
  BY DEF Tidies
<1>2. /\ staging' \in [chunks : Beginnings, torn : BOOLEAN]
      /\ staging'.chunks = staging.chunks /\ ~staging'.torn
  BY NormalizedFacts DEF Tidies, StreamInv
<1>3. WorkerTyped' /\ ActiveOK' /\ BusyOK'
  BY <1>1, <1>2, BusyFree DEF WorkerTyped, ActiveOK, BusyOK, Writing, StreamInv
<1>4. ASSUME NEW c \in 1..MaxContexts PROVE CtxOK(c)'
  <2>1. CtxOK(c) /\ c # 0
    BY StreamNumbers DEF StreamInv
  <2> QED
    BY <1>1, <2>1 DEF CtxOK
<1>5. RowDone' = RowDone /\ (Over => Over') /\ \A c : Uploading(c)' = Uploading(c)
  BY <1>1, <1>2 DEF RowDone, Over, Uploading
<1>6. DoneOK'
  BY <1>1, <1>5 DEF DoneOK, StreamInv, Tidies
<1>7. AloneOK'
  <2>1. \A c \in 1..MaxContexts : c # active
    BY <1>1, StreamNumbers
  <2> QED
    BY <1>1, <1>5, <2>1, BusyFree DEF AloneOK, StreamInv, Writing
<1>8. FedOK'
  <2>1. Fed' = Fed
    BY <1>1, <1>5 DEF Fed
  <2> QED
    BY <1>1, <2>1, BusyFree DEF FedOK, StreamInv, Tidies
<1> QED
  BY <1>3, <1>4, <1>6, <1>7, <1>8 DEF WorkerInv

LEMMA RefuseChunkKeeps ==
  ASSUME StreamInv, NEW m \in net, RefuseChunk(m) PROVE StreamInv'
<1>1. m \in Requests /\ RefusesRequest(m) /\ busy = Free
  BY NetTyped DEF RefuseChunk
<1>2. RowTyped' /\ HistTyped' /\ RowDone' = RowDone /\ row' = row /\ busy' = busy
      /\ dropped' = dropped /\ strayed' = strayed /\ ctx' = ctx /\ active' = active
      /\ remote' = remote /\ status' = status /\ late' = late
  BY DEF RefuseChunk, histVars, HistTyped, RowTyped, StreamInv, RowDone
<1>3. /\ CallsTyped'
      /\ \A a \in Attempts : Expects(a)' => Expects(a)
      /\ \A a \in Attempts : att'[a].at \in {"succeeded", "loop", "chunk", "wait"}
                                  => att'[a] = att[a]
  BY <1>1, RefusesGain DEF StreamInv
<1>4. CASE staging' = staging
  <2>1. SenderMoves
    BY <1>2, <1>3, <1>4 DEF SenderMoves, workerVars
  <2> QED
    BY <1>2, <1>3, <2>1, SenderKeeps DEF StreamInv, WorkerInv
<1>5. CASE active = 0 /\ staging' = Normalized(staging)
  <2>1. Tidies
    BY <1>1, <1>2, <1>3, <1>5 DEF Tidies
  <2> QED
    BY <1>2, <1>3, <2>1, TidiesKeeps DEF StreamInv, WorkerInv
<1> QED
  BY <1>4, <1>5 DEF RefuseChunk

LEMMA ResumeStagingKeeps ==
  ASSUME StreamInv, NEW m \in net, ResumeStaging(m) PROVE StreamInv'
<1> DEFINE whole == Complete(Normalized(staging))
<1>1. m \in Requests /\ m.a \in Attempts /\ busy = Free /\ active = 0
  BY NetTyped, AskedTyped DEF ResumeStaging, HasContext
<1>2. HistTyped' /\ owner' = owner /\ busy' = busy /\ remote' = remote
      /\ status' = status /\ dropped' = dropped /\ strayed' = strayed
  BY DEF ResumeStaging, histVars, HistTyped, StreamInv
<1>3. whole <=> Len(staging.chunks) = Chunks
  BY NormalizedFacts DEF StreamInv
<1>4. "wait" \in Steps \ {"chunk", "succeeded"} /\ "loop" \in Steps \ {"chunk", "succeeded"}
      /\ 1 \in 1..(Chunks + 1)
  BY StreamNumbers DEF Steps
<1>5. CASE /\ status = "completed" \/ ~whole
           /\ staging' = Normalized(staging)
           /\ IF status = "completed" THEN Answers(m, "wait", 1)
              ELSE Answers(m, "loop", Len(staging'.chunks) + 1)
           /\ UNCHANGED <<row, ctx, active, late>>
  <2>1. RowTyped' /\ RowDone' = RowDone
    BY <1>2, <1>5 DEF RowTyped, StreamInv, RowDone
  <2>2. CallsTyped'
        /\ (\A a \in Attempts : Expects(a)' => Expects(a) \/ Fed)
        /\ \A a \in Attempts : att'[a].at = "succeeded" => att[a].at = "succeeded"
    <3>1. CASE status = "completed"
      <4>1. Answers(m, "wait", 1)
        BY <1>5, <3>1
      <4>2. Fed
        BY <1>1, <3>1 DEF Fed, HasResult, StreamInv, DoneOK
      <4> QED
        BY <1>1, <1>4, <4>1, <4>2, AnswersGain DEF StreamInv
    <3>2. CASE status # "completed"
      <4>1. Answers(m, "loop", Len(staging.chunks) + 1)
        BY <1>5, <3>2 DEF Normalized
      <4>2. Len(staging.chunks) \in 0..Chunks /\ Len(staging.chunks) # Chunks
        BY <1>3, <1>5, <3>2, NormalizedFacts DEF StreamInv
      <4>3. Len(staging.chunks) + 1 \in 1..(Chunks + 1) /\ Len(staging.chunks) + 1 # Chunks + 1
        BY <4>2, StreamNumbers
      <4> QED
        BY <1>1, <1>4, <4>1, <4>3, AnswersGain DEF StreamInv
    <3> QED
      BY <3>1, <3>2
  <2>3. Tidies
    BY <1>1, <1>2, <1>5, <2>2 DEF Tidies
  <2> QED
    BY <1>2, <2>1, <2>2, <2>3, TidiesKeeps DEF StreamInv, WorkerInv
<1>6. CASE /\ status # "completed" /\ whole
           /\ Passes("start_stream_upload", m.a) /\ FireEvent("start_stream_upload", m.a)
           /\ OpenContext(m.a)
           /\ Answers(m, "wait", 1)
  <2>1. "start_stream_upload" \in Events /\ "start_stream_upload" # "complete"
    BY DEF Events
  <2>2. ~RowDone /\ ~RowDone' /\ RowTyped'
    BY <1>1, <1>2, <1>6, <2>1, DoneRefuses, RowMoves DEF StreamInv, RowTyped
  <2>3. CallsTyped' /\ \A a \in Attempts : att'[a].at = "succeeded" => att[a].at = "succeeded"
    BY <1>1, <1>4, <1>6, AnswersGain DEF StreamInv
  <2>4. Opens(m.a, m)
    BY <1>1, <1>2, <1>3, <1>6, <2>2, <2>3 DEF Opens
  <2> QED
    BY <1>1, <1>2, <2>2, <2>3, <2>4, OpensKeeps DEF StreamInv, WorkerInv
<1>7. CASE /\ status # "completed" /\ whole /\ ~Passes("start_stream_upload", m.a)
           /\ staging' = Normalized(staging)
           /\ RefusesRequest(m)
           /\ UNCHANGED <<row, ctx, active, late>>
  <2>1. RowTyped'
    BY <1>2, <1>7 DEF RowTyped, StreamInv
  <2>2. /\ CallsTyped'
        /\ \A a \in Attempts : Expects(a)' => Expects(a)
        /\ \A a \in Attempts : att'[a].at \in {"succeeded", "loop", "chunk", "wait"}
                                  => att'[a] = att[a]
    BY <1>1, <1>7, RefusesGain DEF StreamInv
  <2>3. Tidies
    BY <1>1, <1>2, <1>7, <2>2 DEF Tidies
  <2> QED
    BY <1>2, <2>1, <2>2, <2>3, TidiesKeeps DEF StreamInv, WorkerInv
<1> QED
  BY <1>5, <1>6, <1>7 DEF ResumeStaging

\* What a chunk under the lock finds
LEMMA WritingFacts ==
  ASSUME StreamInv, Writing, NEW c, c = busy.c
  PROVE  /\ busy.req \in Requests /\ busy.req.kind = "chunk" /\ c \in 1..MaxContexts /\ c # 0
         /\ active \in {0, c} /\ ctx[c] \in CtxType /\ ctx[c].phase # "none" /\ CtxOK(c)
         /\ busy.req.k \in 0..Chunks /\ ctx[c].last \in 0..Chunks
<1>1. busy.req \in Requests /\ busy.req.kind = "chunk" /\ c \in 1..MaxContexts
      /\ active \in {0, c} /\ ctx[c].phase # "none"
  BY DEF StreamInv, BusyOK
<1>2. c # 0 /\ ctx[c] \in CtxType
  BY <1>1, StreamNumbers DEF StreamInv, WorkerTyped
<1> QED
  BY <1>1, <1>2, AskedTyped DEF StreamInv, CtxType

\* The chunk that comes next finds its context receiving, with no upload.
LEMMA NextFacts ==
  ASSUME StreamInv, ComesNext, NEW c, c = busy.c
  PROVE  /\ Writing /\ ctx[c].phase = "receiving" /\ ctx[c].work = "none"
         /\ busy.req.k \in 1..Chunks /\ busy.req.k = ctx[c].last + 1
<1>1. Writing /\ busy.req.k > ctx[c].last /\ busy.req.k <= ctx[c].last + 1
  <2>1. Writing
    BY DEF ComesNext, Writing
  <2> QED
    BY <2>1, WritingFacts DEF ComesNext, AlreadyStaged
<1>2. ctx[c].last # Chunks /\ busy.req.k \in 1..Chunks /\ busy.req.k = ctx[c].last + 1
  BY <1>1, WritingFacts, StreamNumbers
<1>3. ctx[c].phase = "receiving"
  BY <1>1, <1>2, WritingFacts DEF CtxOK
<1>4. ctx[c].work = "none"
  BY <1>1, <1>3, WritingFacts DEF CtxOK, CtxType, Finished
<1> QED
  BY <1>1, <1>2, <1>3, <1>4

-----------------------------------------------------------------------------
\* A chunk is answered with nothing changed at the worker.
Releases ==
  /\ busy.step = "write" /\ busy' = Free
  /\ UNCHANGED <<row, ctx, active, staging, remote, status, late, dropped, strayed>>
  /\ \A a \in Attempts : att'[a].at = "succeeded" => att[a].at = "succeeded"
  /\ \A a \in Attempts : Expects(a)' => Expects(a) \/ (~strayed /\ ~dropped => Fed)

\* And one that only leaves the task lock
LEMMA ReleasesKeeps == ASSUME StreamInv, Releases PROVE WorkerInv'
<1>1. /\ busy.step = "write" /\ busy' = Free /\ ctx' = ctx /\ active' = active
      /\ staging' = staging /\ remote' = remote /\ status' = status /\ late' = late
      /\ row' = row /\ dropped' = dropped /\ strayed' = strayed
  BY DEF Releases
<1>2. WorkerTyped' /\ ActiveOK' /\ BusyOK'
  BY <1>1, BusyFree DEF WorkerTyped, ActiveOK, BusyOK, Writing, StreamInv
<1>3. \A c \in 1..MaxContexts : CtxOK(c)'
  BY <1>1 DEF StreamInv, CtxOK
<1>4. RowDone' = RowDone /\ Over' = Over /\ Fed' = Fed /\ \A c : Uploading(c)' = Uploading(c)
  BY <1>1 DEF RowDone, Over, Uploading, Fed
<1>5. DoneOK'
  BY <1>1, <1>4 DEF DoneOK, StreamInv, Releases
<1>6. AloneOK'
  BY <1>1, <1>4, BusyFree DEF AloneOK, StreamInv, Writing
<1>7. FedOK'
  BY <1>1, <1>4, BusyFree DEF FedOK, StreamInv, Releases
<1> QED
  BY <1>2, <1>3, <1>5, <1>6, <1>7 DEF WorkerInv

LEMMA AnswerDuplicateKeeps == ASSUME StreamInv, AnswerDuplicate PROVE StreamInv'
<1> DEFINE m == busy.req
           c == busy.c
<1>1. RowTyped' /\ HistTyped'
  BY DEF AnswerDuplicate, histVars, HistTyped, RowTyped, StreamInv
<1>2. /\ busy.step = "write" /\ Writing /\ m.k <= ctx[c].last /\ Answers(m, "loop", m.k + 1)
  BY DEF AnswerDuplicate, AlreadyStaged, Writing
<1>3. m \in Requests /\ m.k + 1 \in 1..(Chunks + 1) /\ "loop" \in Steps \ {"chunk", "succeeded"}
  BY <1>2, WritingFacts, StreamNumbers DEF Steps
<1>4. /\ CallsTyped'
      /\ \A a \in Attempts : Expects(a)' => Expects(a) \/ m.k + 1 = Chunks + 1
      /\ \A a \in Attempts : att'[a].at = "succeeded" => att[a].at = "succeeded"
  BY <1>2, <1>3, AnswersGain DEF StreamInv
<1>5. m.k + 1 = Chunks + 1 /\ ~strayed /\ ~dropped => Fed
  <2> HAVE m.k + 1 = Chunks + 1 /\ ~strayed /\ ~dropped
  <2>1. ctx[c].last = Chunks
    BY <1>2, WritingFacts, StreamNumbers
  <2>2. ctx[c].phase # "receiving"
    BY <1>2, <2>1, WritingFacts DEF CtxOK
  <2>3. CASE active = c
    BY <1>2, <2>2, <2>3, WritingFacts DEF Fed
  <2>4. CASE active = 0
    BY <1>2, <2>4 DEF StreamInv, FedOK
  <2> QED
    BY <1>2, <2>3, <2>4, WritingFacts
<1>6. Releases
  BY <1>2, <1>4, <1>5 DEF Releases, AnswerDuplicate, histVars
<1> QED
  BY <1>1, <1>4, <1>6, ReleasesKeeps DEF StreamInv, WorkerInv

LEMMA RefuseChunkGapKeeps == ASSUME StreamInv, RefuseChunkGap PROVE StreamInv'
<1>1. RowTyped' /\ HistTyped'
  BY DEF RefuseChunkGap, histVars, HistTyped, RowTyped, StreamInv
<1>2. Writing /\ RefusesRequest(busy.req)
  BY DEF RefuseChunkGap, Writing
<1>3. busy.req \in Requests
  BY <1>2, WritingFacts
<1>4. /\ CallsTyped'
      /\ \A a \in Attempts : Expects(a)' => Expects(a)
      /\ \A a \in Attempts : att'[a].at \in {"succeeded", "loop", "chunk", "wait"}
                                  => att'[a] = att[a]
  BY <1>2, <1>3, RefusesGain DEF StreamInv
<1>5. Releases
  BY <1>4 DEF Releases, RefuseChunkGap, histVars
<1> QED
  BY <1>1, <1>4, <1>5, ReleasesKeeps DEF StreamInv, WorkerInv

-----------------------------------------------------------------------------
\* What is staged with the chunk that comes next
LEMMA StagedFacts ==
  ASSUME StreamInv, WriteChunk, NEW c, c = busy.c, NEW j, j = busy.req.k
  PROVE  /\ staging' \in [chunks : Beginnings, torn : BOOLEAN]
         /\ ctx[c].file = "staging" => Len(staging'.chunks) = j /\ ~staging'.torn /\ c = active
         /\ ctx[c].file # "staging" => staging' = staging
<1>1. ComesNext /\ ctx[c].file # "closed"
  BY DEF WriteChunk
<1>2. Writing /\ j \in 1..Chunks /\ j = ctx[c].last + 1
  BY <1>1, NextFacts
<1>3. ctx[c] \in CtxType /\ CtxOK(c)
  BY <1>2, WritingFacts
<1>4. CASE ctx[c].file = "staging"
  <2>1. staging.chunks \in Beginnings /\ ctx[c].last = Len(staging.chunks) /\ ~staging.torn
        /\ c = active
    BY <1>3, <1>4 DEF CtxOK, StreamInv, WorkerTyped
  <2>2. Append(staging.chunks, j) \in Beginnings /\ Len(Append(staging.chunks, j)) = j
    BY <1>2, <2>1, NextChunk, StreamNumbers
  <2>3. staging' = [staging EXCEPT !.chunks = Append(staging.chunks, j)]
    BY <1>4 DEF WriteChunk
  <2> QED
    BY <1>4, <2>1, <2>2, <2>3 DEF StreamInv, WorkerTyped
<1>5. CASE ctx[c].file # "staging"
  BY <1>1, <1>3, <1>5 DEF WriteChunk, CtxType, StreamInv, WorkerTyped
<1> QED
  BY <1>4, <1>5

LEMMA WriteChunkKeeps == ASSUME StreamInv, WriteChunk PROVE StreamInv'
<1> DEFINE m == busy.req
<1>1. PICK c : c = busy.c
  OBVIOUS
<1>2. PICK j : j = busy.req.k
  OBVIOUS
<1>3. ComesNext /\ ctx[c].phase = "receiving" /\ ctx[c].file # "closed"
  BY <1>1 DEF WriteChunk
<1>4. /\ Writing /\ busy.step = "write" /\ ctx[c].work = "none"
      /\ j \in 1..Chunks /\ j = ctx[c].last + 1
  BY <1>1, <1>2, <1>3, NextFacts DEF ComesNext
<1>5. /\ m \in Requests /\ m.kind = "chunk" /\ c \in 1..MaxContexts /\ c # 0
      /\ active \in {0, c} /\ ctx[c] \in CtxType /\ CtxOK(c)
  BY <1>1, <1>4, WritingFacts
<1>6. /\ ctx' = [ctx EXCEPT ![c] = [ctx[c] EXCEPT !.last = j]]
      /\ active' = active /\ remote' = remote /\ status' = status /\ late' = late
      /\ row' = row /\ owner' = owner /\ dropped' = dropped /\ strayed' = strayed
  BY <1>1, <1>2 DEF WriteChunk, histVars, StreamInv, WorkerTyped
<1>7. RowTyped' /\ HistTyped' /\ RowDone' = RowDone
  BY <1>6 DEF WriteChunk, histVars, HistTyped, RowTyped, StreamInv, RowDone
<1>8. PICK w : w = [ctx[c] EXCEPT !.last = j]
  OBVIOUS
<1>9. /\ w \in CtxType /\ w.last = j /\ w.phase = "receiving" /\ w.work = "none"
      /\ w.file = ctx[c].file /\ w.cancelled = ctx[c].cancelled
  BY <1>3, <1>4, <1>5, <1>8, StreamNumbers DEF CtxType
<1>10. ctx' \in [1..MaxContexts -> CtxType] /\ ctx'[c] = w
       /\ \A d \in 1..MaxContexts : d # c => ctx'[d] = ctx[d]
  BY <1>5, <1>6, <1>8, <1>9 DEF StreamInv, WorkerTyped
<1>11. /\ staging' \in [chunks : Beginnings, torn : BOOLEAN]
       /\ ctx[c].file = "staging" => Len(staging'.chunks) = j /\ ~staging'.torn /\ c = active
       /\ ctx[c].file # "staging" => staging' = staging
  BY <1>1, <1>2, StagedFacts
<1>12. /\ CallsTyped'
       /\ \A a \in Attempts : Expects(a)' => Expects(a)
       /\ \A a \in Attempts : att'[a].at = "succeeded" => att[a].at = "succeeded"
       /\ \/ j = Chunks /\ busy' = [busy EXCEPT !.step = "last"]
          \/ j # Chunks /\ busy' = Free
  <2>1. CASE j = Chunks
    <3>1. busy' = [busy EXCEPT !.step = "last"] /\ att' = att /\ net' = net /\ fails' = fails
      BY <1>2, <2>1 DEF WriteChunk, IsLast
    <3> QED
      BY <2>1, <3>1 DEF CallsTyped, StreamInv, Expects
  <2>2. CASE j # Chunks
    <3>1. busy' = Free /\ Answers(m, "loop", j + 1)
      BY <1>2, <2>2 DEF WriteChunk, IsLast
    <3>2. j + 1 \in 1..(Chunks + 1) /\ j + 1 # Chunks + 1
          /\ "loop" \in Steps \ {"chunk", "succeeded"}
      BY <1>4, <2>2, StreamNumbers DEF Steps
    <3> QED
      BY <1>5, <2>2, <3>1, <3>2, AnswersGain DEF StreamInv
  <2> QED
    BY <2>1, <2>2
<1>13. busy' \in BusyType
  BY <1>12, BusyFree DEF StreamInv, WorkerTyped, BusyType
<1>14. WorkerTyped'
  BY <1>6, <1>10, <1>11, <1>13 DEF WorkerTyped, StreamInv
<1>15. j = Chunks => busy'.req = m /\ busy'.c = c /\ busy'.step = "last"
  BY <1>1, <1>12 DEF StreamInv, WorkerTyped, BusyType
<1>16. BusyOK'
  <2>1. CASE j = Chunks
    BY <1>2, <1>5, <1>6, <1>9, <1>10, <1>15, <2>1 DEF BusyOK, Writing
  <2>2. CASE j # Chunks
    BY <1>12, <2>2, BusyFree DEF BusyOK, Writing
  <2> QED
    BY <2>1, <2>2
<1>17. ASSUME NEW d \in 1..MaxContexts PROVE CtxOK(d)'
  <2>1. CASE d = c
    BY <1>6, <1>9, <1>10, <1>11, <1>15, <2>1 DEF CtxOK, Working, Finished
  <2>2. CASE d # c
    <3>1. CtxOK(d) /\ d # 0
      BY StreamNumbers DEF StreamInv
    <3>2. ctx[d].file # "staging" /\ ~(ctx[d].phase = "receiving" /\ ctx[d].last = Chunks)
      BY <1>4, <1>5, <2>2, <3>1 DEF CtxOK
    <3> QED
      BY <1>10, <2>2, <3>1, <3>2 DEF CtxOK
  <2> QED
    BY <2>1, <2>2
<1>18. active # 0 => active = c
  BY <1>5
<1>19. ActiveOK'
  BY <1>6, <1>9, <1>10, <1>18 DEF ActiveOK
<1>20. DoneOK'
  <2>1. \A d \in 1..MaxContexts : ctx'[d].phase = "completed" \/ ctx'[d].work = "clean"
          => ctx[d].phase = "completed" \/ ctx[d].work = "clean"
    BY <1>9, <1>10
  <2> QED
    BY <1>6, <1>7, <1>12, <2>1 DEF DoneOK, StreamInv
<1>21. AloneOK'
  <2> SUFFICES ASSUME ~dropped PROVE AloneOK'
    BY <1>6 DEF AloneOK
  <2>1. \A d \in 1..MaxContexts : Uploading(d)' => d # c /\ Uploading(d)
    BY <1>9, <1>10 DEF Uploading, Working
  <2>2. \A d \in 1..MaxContexts : ctx'[d].work = "complete" => ctx[d].work = "complete"
    BY <1>9, <1>10
  <2>3. active = 0 => Over /\ ctx[c].file # "staging"
    BY <1>4, <1>5 DEF StreamInv, AloneOK, CtxOK
  <2>4. active = 0 => Over'
    BY <1>6, <1>7, <1>11, <2>3 DEF Over
  <2>5. \A d \in 1..MaxContexts : Uploading(d)' => active = 0
    BY <1>18, <2>1 DEF StreamInv, AloneOK, Over
  <2>6. RowDone' \/ (\E d \in 1..MaxContexts : ctx'[d].work = "complete") => Len(remote') = Chunks
    BY <1>6, <1>7, <2>2 DEF StreamInv, AloneOK
  <2>7. \A d, e \in 1..MaxContexts : Uploading(d)' /\ Uploading(e)' => d = e
    BY <2>1 DEF StreamInv, AloneOK
  <2> QED
    BY <1>6, <2>4, <2>5, <2>6, <2>7 DEF AloneOK
<1>22. FedOK'
  <2> SUFFICES ASSUME ~dropped, ~strayed PROVE FedOK'
    BY <1>6 DEF FedOK
  <2>1. busy'.step \notin {"write", "clear"}
    BY <1>12, <1>15, BusyFree
  <2>2. ASSUME NEW a \in Attempts, Expects(a)' PROVE Fed'
    <3>1. Fed
      BY <1>12, <2>2 DEF StreamInv, FedOK
    <3>2. active = 0 /\ RowDone
      BY <1>3, <1>18, <3>1 DEF Fed
    <3>3. \A d \in 1..MaxContexts : ctx[d].work \notin {"none", "ended"} => ctx'[d] = ctx[d]
      BY <1>4, <1>10
    <3>4. HasResult(status) \/ \E d \in 1..MaxContexts : ctx'[d].work \notin {"none", "ended"}
      BY <3>1, <3>2, <3>3 DEF Fed
    <3> QED
      BY <1>6, <1>7, <3>2, <3>4 DEF Fed
  <2> QED
    BY <2>1, <2>2 DEF FedOK
<1> QED
  BY <1>7, <1>12, <1>14, <1>16, <1>17, <1>19, <1>20, <1>21, <1>22 DEF StreamInv

\* A write that fails takes its context, which is receiving, with it.
Abandons(c) ==
  /\ Writing /\ c = busy.c /\ ctx[c].phase = "receiving" /\ AbandonsContext(c)
  /\ staging' \in {staging, Torn(c)}
  /\ UNCHANGED <<remote, status, late, dropped, strayed>>

\* And the end of a context whose write failed
LEMMA AbandonsKeeps ==
  ASSUME StreamInv, NEW c, Abandons(c)
  PROVE  row' \in [status : Statuses, lease : Attempts \cup {0}] /\ CallsTyped' /\ WorkerInv'
<1>1. /\ busy.req \in Requests /\ c \in 1..MaxContexts /\ c # 0
      /\ active \in {0, c} /\ ctx[c] \in CtxType /\ CtxOK(c) /\ ctx[c].phase = "receiving"
  BY WritingFacts DEF Abandons
<1>2. ctx[c].work = "none"
  BY <1>1 DEF CtxOK, CtxType, Finished
<1>3. /\ busy' = Free /\ active' = 0 /\ ctx' = [ctx EXCEPT ![c] = NoContext]
      /\ FireEvent("fail", ctx[c].lease) /\ RefusesRequest(busy.req)
      /\ remote' = remote /\ status' = status /\ late' = late
      /\ dropped' = dropped /\ strayed' = strayed
  BY <1>2 DEF Abandons, AbandonsContext, Left
<1>4. "fail" \in Events /\ "fail" # "complete" /\ ctx[c].lease \in Attempts \cup {0}
  BY <1>1 DEF Events, CtxType
<1>5. /\ row' \in [status : Statuses, lease : Attempts \cup {0}]
      /\ RowDone => RowDone'
      /\ RowDone' => RowDone
  BY <1>3, <1>4, RowMoves DEF StreamInv
<1>6. /\ CallsTyped'
      /\ \A a \in Attempts : Expects(a)' => Expects(a)
      /\ \A a \in Attempts : att'[a].at \in {"succeeded", "loop", "chunk", "wait"}
                                  => att'[a] = att[a]
  BY <1>1, <1>3, RefusesGain DEF StreamInv
<1>7. NoContext \in CtxType /\ NoContext.phase = "none" /\ NoContext.file = "closed"
      /\ NoContext.work = "none" /\ NoContext.last = 0
  BY StreamNumbers DEF NoContext, CtxType
<1>8. ctx' \in [1..MaxContexts -> CtxType] /\ ctx'[c] = NoContext
      /\ \A d \in 1..MaxContexts : d # c => ctx'[d] = ctx[d]
  BY <1>1, <1>3, <1>7 DEF StreamInv, WorkerTyped
<1>9. /\ staging' \in [chunks : Beginnings, torn : BOOLEAN]
      /\ ctx[c].file # "staging" => staging' = staging
  BY DEF Abandons, Torn, StreamInv, WorkerTyped
<1>10. WorkerTyped'
  BY <1>3, <1>8, <1>9, BusyFree, StreamNumbers DEF WorkerTyped, StreamInv
<1>11. BusyOK' /\ ActiveOK'
  BY <1>3, BusyFree DEF BusyOK, ActiveOK, Writing
<1>12. ASSUME NEW d \in 1..MaxContexts PROVE CtxOK(d)'
  <2>1. CASE d = c
    BY <1>7, <1>8, <2>1, StreamNumbers DEF CtxOK, Working
  <2>2. CASE d # c
    <3>1. CtxOK(d) /\ d # 0
      BY StreamNumbers DEF StreamInv
    <3>2. ctx[d].file # "staging" /\ ~(ctx[d].phase = "receiving" /\ ctx[d].last = Chunks)
      BY <1>1, <2>2, <3>1 DEF CtxOK, Abandons
    <3> QED
      BY <1>8, <2>2, <3>1, <3>2 DEF CtxOK
  <2> QED
    BY <2>1, <2>2
<1>13. DoneOK'
  <2>1. \A d \in 1..MaxContexts : ctx'[d].phase = "completed" \/ ctx'[d].work = "clean"
          => ctx[d].phase = "completed" \/ ctx[d].work = "clean"
    BY <1>7, <1>8
  <2> QED
    BY <1>3, <1>5, <1>6, <2>1 DEF DoneOK, StreamInv
<1>14. AloneOK'
  <2> SUFFICES ASSUME ~dropped PROVE AloneOK'
    BY <1>3 DEF AloneOK
  <2>1. \A d \in 1..MaxContexts : Uploading(d)' => d # c /\ Uploading(d)
    BY <1>7, <1>8 DEF Uploading, Working
  <2>2. \A d \in 1..MaxContexts : ctx'[d].work = "complete" => ctx[d].work = "complete"
    BY <1>7, <1>8
  <2>3. \A d \in 1..MaxContexts : Uploading(d)' => Over /\ active = 0
    BY <1>1, <2>1, StreamNumbers DEF StreamInv, AloneOK, Over
  <2>4. Over => Over'
    BY <1>1, <1>3, <1>5, <1>9 DEF Over, CtxOK
  <2>5. RowDone' \/ (\E d \in 1..MaxContexts : ctx'[d].work = "complete") => Len(remote') = Chunks
    BY <1>3, <1>5, <2>2 DEF StreamInv, AloneOK
  <2>6. \A d, e \in 1..MaxContexts : Uploading(d)' /\ Uploading(e)' => d = e
    BY <2>1 DEF StreamInv, AloneOK
  <2> QED
    BY <1>3, <2>3, <2>4, <2>5, <2>6, BusyFree DEF AloneOK, Writing
<1>15. FedOK'
  <2> SUFFICES ASSUME ~dropped, ~strayed PROVE FedOK'
    BY <1>3 DEF FedOK
  <2>1. ASSUME NEW a \in Attempts, Expects(a)' PROVE Fed'
    <3>1. Fed
      BY <1>6, <2>1 DEF StreamInv, FedOK
    <3>2. active = 0 /\ RowDone
      BY <1>1, <3>1 DEF Fed
    <3>3. \A d \in 1..MaxContexts : ctx[d].work \notin {"none", "ended"} => ctx'[d] = ctx[d]
      BY <1>2, <1>8
    <3>4. HasResult(status) \/ \E d \in 1..MaxContexts : ctx'[d].work \notin {"none", "ended"}
      BY <3>1, <3>2, <3>3 DEF Fed
    <3> QED
      BY <1>3, <1>5, <3>2, <3>4 DEF Fed
  <2> QED
    BY <1>3, <2>1, BusyFree DEF FedOK
<1> QED
  BY <1>5, <1>6, <1>10, <1>11, <1>12, <1>13, <1>14, <1>15 DEF WorkerInv

LEMMA WriteFailsKeeps == ASSUME StreamInv, WriteFails PROVE StreamInv'
<1>1. PICK c : c = busy.c
  OBVIOUS
<1>2. Writing /\ ctx[c].phase = "receiving"
  BY <1>1, NextFacts DEF WriteFails
<1>3. Abandons(c) /\ owner' = owner
  BY <1>1, <1>2 DEF Abandons, WriteFails
<1>4. incidents' \in 0..MaxIncidents
  BY IncidentTyped DEF WriteFails, StreamInv
<1>5. RowTyped' /\ CallsTyped' /\ WorkerInv'
  BY <1>3, AbandonsKeeps DEF RowTyped, StreamInv
<1>6. HistTyped'
  BY <1>4 DEF HistTyped, WriteFails, StreamInv
<1> QED
  BY <1>5, <1>6 DEF StreamInv, WorkerInv

LEMMA LastChunkFailsKeeps == ASSUME StreamInv, LastChunkFails PROVE StreamInv'
<1>1. PICK c : c = busy.c
  OBVIOUS
<1>2. Writing /\ ctx[c].phase = "receiving"
  BY <1>1 DEF LastChunkFails, Writing, StreamInv, BusyOK
<1>3. Abandons(c) /\ owner' = owner
  BY <1>1, <1>2 DEF Abandons, LastChunkFails, histVars
<1>4. RowTyped' /\ CallsTyped' /\ WorkerInv'
  BY <1>3, AbandonsKeeps DEF RowTyped, StreamInv
<1>5. HistTyped'
  BY DEF HistTyped, LastChunkFails, StreamInv, histVars
<1> QED
  BY <1>4, <1>5 DEF StreamInv, WorkerInv

\* The last chunk hands the file, which is whole, to an upload.
LEMMA LastChunkKeeps == ASSUME StreamInv, LastChunk PROVE StreamInv'
<1> DEFINE m == busy.req
<1>1. PICK c : c = busy.c
  OBVIOUS
<1>2. Writing /\ busy.step = "last" /\ Complete(staging)
  BY DEF LastChunk, Writing
<1>3. /\ m \in Requests /\ c \in 1..MaxContexts /\ c # 0 /\ m.k = Chunks
      /\ active \in {0, c} /\ ctx[c] \in CtxType /\ CtxOK(c)
      /\ ctx[c].phase = "receiving" /\ ctx[c].last = Chunks
  BY <1>1, <1>2, WritingFacts DEF StreamInv, BusyOK
<1>4. PICK w : w = [ctx[c] EXCEPT !.file = "closed", !.phase = "finalizing", !.work = "check"]
  OBVIOUS
<1>5. w = [phase |-> "finalizing", last |-> ctx[c].last, lease |-> ctx[c].lease,
           cancelled |-> ctx[c].cancelled, file |-> "closed", work |-> "check"]
  BY <1>3, <1>4 DEF CtxType
<1>6. w \in CtxType
  BY <1>3, <1>5 DEF CtxType, Working
<1>7. w.phase = "finalizing" /\ w.last = Chunks /\ w.file = "closed" /\ w.work = "check"
      /\ w.cancelled = ctx[c].cancelled
  BY <1>3, <1>5
<1>8. ctx' = [ctx EXCEPT ![c] = w]
  <2>1. ctx' = [ctx EXCEPT ![c].file = "closed", ![c].phase = "finalizing", ![c].work = "check"]
    BY <1>1 DEF LastChunk
  <2> QED
    BY <1>3, <1>4, <2>1 DEF StreamInv, WorkerTyped
<1>9. ctx' \in [1..MaxContexts -> CtxType] /\ ctx'[c] = w
      /\ \A d \in 1..MaxContexts : d # c => ctx'[d] = ctx[d]
  BY <1>3, <1>6, <1>8 DEF StreamInv, WorkerTyped
<1>10. /\ busy' = Free /\ active' = active /\ staging' = staging /\ remote' = remote
       /\ status' = status /\ row' = row /\ owner' = owner /\ dropped' = dropped
       /\ strayed' = strayed /\ late' = late \cup {c}
       /\ Answers(m, "loop", Chunks + 1)
  BY <1>1, <1>3 DEF LastChunk, histVars
<1>11. RowTyped' /\ HistTyped' /\ RowDone' = RowDone
  BY <1>10 DEF LastChunk, histVars, HistTyped, RowTyped, StreamInv, RowDone
<1>12. CallsTyped' /\ \A a \in Attempts : att'[a].at = "succeeded" => att[a].at = "succeeded"
  <2>1. "loop" \in Steps \ {"chunk", "succeeded"} /\ Chunks + 1 \in 1..(Chunks + 1)
    BY StreamNumbers DEF Steps
  <2> QED
    BY <1>3, <1>10, <2>1, AnswersGain DEF StreamInv
<1>13. WorkerTyped'
  BY <1>3, <1>9, <1>10, BusyFree DEF WorkerTyped, StreamInv
<1>14. BusyOK'
  BY <1>10, BusyFree DEF BusyOK, Writing
<1>15. ASSUME NEW d \in 1..MaxContexts PROVE CtxOK(d)'
  <2>1. CASE d = c
    BY <1>7, <1>9, <2>1 DEF CtxOK, Working, Finished
  <2>2. CASE d # c
    <3>1. CtxOK(d) /\ d # 0
      BY StreamNumbers DEF StreamInv
    <3>2. ctx[d].file # "staging" /\ ~(ctx[d].phase = "receiving" /\ ctx[d].last = Chunks)
      BY <1>1, <1>3, <2>2, <3>1 DEF CtxOK
    <3> QED
      BY <1>9, <2>2, <3>1, <3>2 DEF CtxOK
  <2> QED
    BY <2>1, <2>2
<1>16. ActiveOK'
  BY <1>2, <1>3, <1>7, <1>9, <1>10 DEF ActiveOK, Complete
<1>17. DoneOK'
  <2>1. \A d \in 1..MaxContexts : ctx'[d].phase = "completed" \/ ctx'[d].work = "clean"
          => ctx[d].phase = "completed" \/ ctx[d].work = "clean"
    BY <1>7, <1>9
  <2> QED
    BY <1>10, <1>11, <1>12, <2>1 DEF DoneOK, StreamInv
<1>18. ~dropped => active = c
  <2>1. ~Over
    BY <1>2, StreamNumbers, NothingStaged DEF Over, Complete
  <2> QED
    BY <1>2, <1>3, <2>1 DEF StreamInv, AloneOK
<1>19. AloneOK'
  <2> SUFFICES ASSUME ~dropped PROVE AloneOK'
    BY <1>10 DEF AloneOK
  <2>1. \A d \in 1..MaxContexts : Uploading(d)' => d = c
    <3>1. \A d \in 1..MaxContexts : d # c /\ Uploading(d)' => Uploading(d)
      BY <1>9 DEF Uploading
    <3> QED
      BY <1>3, <1>18, <3>1 DEF StreamInv, AloneOK, Over
  <2>2. \A d \in 1..MaxContexts : ctx'[d].work = "complete" => ctx[d].work = "complete"
    BY <1>7, <1>9
  <2>3. RowDone' \/ (\E d \in 1..MaxContexts : ctx'[d].work = "complete") => Len(remote') = Chunks
    BY <1>10, <1>11, <2>2 DEF StreamInv, AloneOK
  <2>4. Complete(staging)' /\ ~Writing'
    BY <1>2, <1>10, BusyFree DEF Complete, Writing
  <2> QED
    BY <1>10, <1>18, <2>1, <2>3, <2>4 DEF AloneOK
<1>20. FedOK'
  <2> SUFFICES ASSUME ~dropped, ~strayed PROVE FedOK'
    BY <1>10 DEF FedOK
  <2>1. Fed'
    BY <1>3, <1>7, <1>9, <1>10, <1>18 DEF Fed
  <2> QED
    BY <1>10, <2>1, BusyFree DEF FedOK
<1> QED
  BY <1>11, <1>12, <1>13, <1>14, <1>15, <1>16, <1>17, <1>19, <1>20 DEF StreamInv

-----------------------------------------------------------------------------
\* What the first half of a reset leaves of the active context
LEMMA ResetContext ==
  ASSUME StreamInv, NEW m, BeginResetTask(m), NEW d \in 1..MaxContexts
  PROVE  /\ ctx'[d] \in CtxType
         /\ d # active => ctx'[d] = ctx[d]
         /\ d = active => \/ ctx'[d] = NoContext
                          \/ /\ ctx'[d].phase = ctx[d].phase /\ ctx'[d].last = ctx[d].last
                             /\ ctx'[d].work = ctx[d].work /\ ctx[d].work \notin {"none", "ended"}
                             /\ ctx'[d].file = "closed" /\ ctx'[d].cancelled
<1>1. ctx[d] \in CtxType
  BY DEF StreamInv, WorkerTyped
<1>2. NoContext \in CtxType /\ NoContext.work = "none"
  BY StreamNumbers DEF NoContext, CtxType
<1>3. CASE d # active
  BY <1>1, <1>3 DEF BeginResetTask
<1>4. CASE d = active
  <2>1. ctx'[d] = IF Left(d) = NoContext THEN NoContext ELSE [Left(d) EXCEPT !.cancelled = TRUE]
    BY <1>4 DEF BeginResetTask
  <2>2. CASE ctx[d].work \in {"none", "ended"}
    BY <1>2, <1>4, <2>1, <2>2 DEF Left
  <2>3. CASE ctx[d].work \notin {"none", "ended"}
    <3>1. PICK v : v = [ctx[d] EXCEPT !.file = "closed"]
      OBVIOUS
    <3>2. v \in CtxType /\ v.work = ctx[d].work /\ v.file = "closed" /\ v.last = ctx[d].last
          /\ v.phase = ctx[d].phase
      BY <1>1, <3>1 DEF CtxType
    <3>3. Left(d) = v /\ v # NoContext
      BY <1>2, <2>3, <3>1, <3>2 DEF Left
    <3>4. PICK b \in BOOLEAN : b = TRUE
      OBVIOUS
    <3>5. PICK w : w = [v EXCEPT !.cancelled = b]
      OBVIOUS
    <3>6. w \in CtxType /\ w.work = v.work /\ w.file = v.file /\ w.last = v.last
          /\ w.phase = v.phase /\ w.cancelled = b
      BY <3>2, <3>5 DEF CtxType
    <3>7. ctx'[d] = w
      BY <2>1, <3>3, <3>4, <3>5
    <3>8. w.cancelled
      BY <3>4, <3>6
    <3> QED
      BY <1>4, <2>3, <3>2, <3>6, <3>7, <3>8
  <2> QED
    BY <2>2, <2>3
<1> QED
  BY <1>3, <1>4

LEMMA BeginResetTaskKeeps ==
  ASSUME StreamInv, NEW m \in net, BeginResetTask(m) PROVE StreamInv'
<1>1. m \in Requests /\ m.a \in Attempts /\ busy = Free /\ IsReset(m)
  BY NetTyped, AskedTyped DEF BeginResetTask
<1>2. /\ busy' = [req |-> m, c |-> 0, step |-> "clear"] /\ active' = 0
      /\ staging' = staging /\ remote' = remote /\ status' = status /\ late' = late
      /\ row' = row /\ owner' = owner /\ att' = att /\ dropped' = dropped
  BY DEF BeginResetTask
<1>3. /\ RowTyped' /\ CallsTyped' /\ RowDone' = RowDone
      /\ \A a \in Attempts : Expects(a)' = Expects(a)
  BY <1>2 DEF BeginResetTask, RowTyped, CallsTyped, StreamInv, RowDone, Expects
<1>4. HistTyped'
  BY DEF HistTyped, BeginResetTask, StreamInv
<1>5. \A d \in 1..MaxContexts :
         /\ ctx'[d] \in CtxType
         /\ d # active => ctx'[d] = ctx[d]
         /\ d = active => \/ ctx'[d] = NoContext
                          \/ /\ ctx'[d].phase = ctx[d].phase /\ ctx'[d].last = ctx[d].last
                             /\ ctx'[d].work = ctx[d].work /\ ctx[d].work \notin {"none", "ended"}
                             /\ ctx'[d].file = "closed" /\ ctx'[d].cancelled
  BY ResetContext
<1>6. ctx' \in [1..MaxContexts -> CtxType]
  BY <1>5 DEF BeginResetTask
<1>7. WorkerTyped'
  BY <1>1, <1>2, <1>6, StreamNumbers DEF WorkerTyped, StreamInv, BusyType
<1>8. BusyOK' /\ ActiveOK'
  BY <1>1, <1>2 DEF BusyOK, ActiveOK, Writing
<1>9. NoContext.phase = "none" /\ NoContext.file = "closed" /\ NoContext.work = "none"
      /\ NoContext.last = 0
  BY DEF NoContext
<1>10. ASSUME NEW d \in 1..MaxContexts PROVE CtxOK(d)'
  <2>1. CtxOK(d) /\ d # 0 /\ ~(ctx[d].phase = "receiving" /\ ctx[d].last = Chunks)
    BY <1>1, StreamNumbers, BusyFree DEF StreamInv, CtxOK
  <2>2. CASE d # active
    BY <1>5, <2>1, <2>2 DEF CtxOK
  <2>3. CASE ctx'[d] = NoContext
    BY <1>9, <2>3, StreamNumbers DEF CtxOK, Working
  <2>4. CASE d = active /\ ctx'[d] # NoContext
    <3>1. /\ ctx'[d].phase = ctx[d].phase /\ ctx'[d].last = ctx[d].last
          /\ ctx'[d].work = ctx[d].work /\ ctx'[d].work \notin {"none", "ended"}
          /\ ctx'[d].file = "closed"
      BY <1>5, <2>4
    <3>2. ctx'[d].phase # "none"
      BY <1>9, <2>1, <3>1 DEF CtxOK
    <3> QED
      BY <2>1, <3>1, <3>2 DEF CtxOK
  <2> QED
    BY <2>2, <2>3, <2>4
<1>11. \A d \in 1..MaxContexts :
         /\ ctx'[d].phase = "completed" => ctx[d].phase = "completed"
         /\ ctx'[d].work \in {"none", ctx[d].work}
         /\ Uploading(d)' => d # active /\ Uploading(d)
  BY <1>5, <1>9 DEF Uploading, Working
<1>12. DoneOK'
  BY <1>2, <1>3, <1>11 DEF DoneOK, StreamInv
<1>13. AloneOK'
  <2> SUFFICES ASSUME ~dropped PROVE AloneOK'
    BY <1>2 DEF AloneOK
  <2>1. \A d \in 1..MaxContexts : Uploading(d)' => Over
    BY <1>11 DEF StreamInv, AloneOK
  <2>2. Over => Over'
    BY <1>2, <1>3 DEF Over
  <2>3. RowDone' \/ (\E d \in 1..MaxContexts : ctx'[d].work = "complete") => Len(remote') = Chunks
    BY <1>2, <1>3, <1>11 DEF StreamInv, AloneOK
  <2>4. ~Writing'
    BY <1>2 DEF Writing
  <2>5. \A d, e \in 1..MaxContexts : Uploading(d)' /\ Uploading(e)' => d = e
    BY <1>11 DEF StreamInv, AloneOK
  <2> QED
    BY <2>1, <2>2, <2>3, <2>4, <2>5 DEF AloneOK
<1>14. FedOK'
  <2> SUFFICES ASSUME ~dropped', ~strayed' PROVE FedOK'
    BY DEF FedOK
  <2>1. Awaits(m) /\ \A a \in Attempts \ {m.a} : att[a].at \in Ended \cup {"idle"}
    BY DEF BeginResetTask
  <2>2. att[m.a].at \in {"reset", "abort"}
    BY <1>1, <2>1 DEF Awaits, IsReset
  <2>3. \A a \in Attempts : att[a].at \notin {"loop", "chunk", "wait"}
    BY <2>1, <2>2 DEF Ended
  <2> QED
    BY <1>2, <1>3, <2>3 DEF FedOK, Expects
<1> QED
  BY <1>3, <1>4, <1>7, <1>8, <1>10, <1>12, <1>13, <1>14 DEF StreamInv

LEMMA EndResetTaskKeeps == ASSUME StreamInv, EndResetTask PROVE StreamInv'
<1> DEFINE m == busy.req
<1>1. busy.step = "clear" /\ m \in Requests /\ active = 0
  BY DEF EndResetTask, StreamInv, BusyOK
<1>2. /\ busy' = Free /\ active' = 0 /\ ctx' = ctx /\ staging' = EmptyStaging
      /\ remote' = remote /\ status' = "none" /\ late' = late /\ owner' = FALSE
      /\ row' = row /\ dropped' = dropped /\ strayed' = strayed
  BY <1>1 DEF EndResetTask, histVars
<1>3. RowTyped' /\ HistTyped' /\ RowDone' = RowDone
  <2>1. owner' \in BOOLEAN
    BY DEF EndResetTask
  <2> QED
    BY <1>2, <2>1 DEF EndResetTask, RowTyped, HistTyped, StreamInv, RowDone, histVars
<1>4. PICK at \in {"loop", "fallingBack"} : Answers(m, at, 1)
  BY DEF EndResetTask, AfterReset
<1>5. at \in Steps \ {"chunk", "succeeded"} /\ 1 \in 1..(Chunks + 1) /\ 1 # Chunks + 1
  BY StreamNumbers DEF Steps
<1>6. /\ CallsTyped'
      /\ \A a \in Attempts : Expects(a)' => Expects(a)
      /\ \A a \in Attempts : att'[a].at = "succeeded" => att[a].at = "succeeded"
  BY <1>1, <1>4, <1>5, AnswersGain DEF StreamInv
<1>7. EmptyStaging \in [chunks : Beginnings, torn : BOOLEAN] /\ EmptyStaging.chunks = <<>>
      /\ ~EmptyStaging.torn
  BY NothingStaged DEF EmptyStaging
<1>8. WorkerTyped'
  BY <1>2, <1>7, BusyFree, StreamNumbers DEF WorkerTyped, StreamInv
<1>9. BusyOK' /\ ActiveOK'
  BY <1>2, BusyFree DEF BusyOK, ActiveOK, Writing
<1>10. ASSUME NEW d \in 1..MaxContexts PROVE CtxOK(d)'
  <2>1. CtxOK(d) /\ d # 0
    BY StreamNumbers DEF StreamInv
  <2>2. ctx[d].file # "staging" /\ ~(ctx[d].phase = "receiving" /\ ctx[d].last = Chunks)
    BY <1>1, <2>1 DEF CtxOK
  <2> QED
    BY <1>2, <2>1, <2>2 DEF CtxOK
<1>11. DoneOK'
  BY <1>2, <1>3, <1>6 DEF DoneOK, StreamInv
<1>12. AloneOK'
  <2>1. (Over => Over') /\ \A d : Uploading(d)' = Uploading(d)
    BY <1>2, <1>3, <1>7 DEF Over, Uploading
  <2>2. \A d \in 1..MaxContexts : d # 0
    BY StreamNumbers
  <2> QED
    BY <1>1, <1>2, <1>3, <2>1, <2>2, BusyFree DEF AloneOK, StreamInv, Writing
<1>13. FedOK'
  <2> SUFFICES ASSUME ~dropped, ~strayed PROVE FedOK'
    BY <1>2 DEF FedOK
  <2>1. \A a \in Attempts : ~Expects(a)
    BY <1>1 DEF StreamInv, FedOK, Expects
  <2> QED
    BY <1>2, <1>6, <2>1, BusyFree DEF FedOK
<1> QED
  BY <1>3, <1>6, <1>8, <1>9, <1>10, <1>11, <1>12, <1>13 DEF StreamInv

\* An upload goes from one stage to the next, or its end is noted in the context.
WorkMoves(c, w) ==
  /\ UNCHANGED <<owner, att, fails, net, busy, active, staging, status, late, dropped, strayed>>
  /\ ctx' = [ctx EXCEPT ![c] = w] /\ ctx[c].phase = "finalizing"
  /\ w \in CtxType /\ w.last = ctx[c].last /\ w.cancelled = ctx[c].cancelled
  /\ w.file = ctx[c].file
  /\ \/ w.phase = "finalizing" /\ w.work \in Working \cup {"refused", "thrown"}
     \/ w.phase \in {"failed", "cancelled"} /\ w.work = "saved"
     \/ w.phase = "failed" /\ w.work = "report"
  /\ w.work \in Working => ctx[c].work \in Working
  /\ w.work = "clean" => RowDone'
  /\ remote' \in Beginnings
  /\ row' \in [status : Statuses, lease : Attempts \cup {0}] /\ (RowDone => RowDone')
  /\ ~dropped /\ (RowDone' \/ w.work = "complete" \/ \E d \in 1..MaxContexts : ctx[d].work = "complete")
       => Len(remote') = Chunks

\* And a step of an upload
LEMMA WorkMovesKeeps ==
  ASSUME StreamInv, NEW c \in 1..MaxContexts, NEW w, WorkMoves(c, w)
  PROVE  RowTyped' /\ CallsTyped' /\ WorkerInv'
<1>1. /\ busy' = busy /\ active' = active /\ staging' = staging /\ status' = status
      /\ late' = late /\ dropped' = dropped /\ strayed' = strayed /\ owner' = owner
      /\ att' = att /\ fails' = fails /\ net' = net
  BY DEF WorkMoves
<1>2. /\ w \in CtxType /\ w.last = ctx[c].last /\ w.cancelled = ctx[c].cancelled
      /\ w.file = ctx[c].file /\ ctx[c].phase = "finalizing"
      /\ w.phase \notin {"none", "receiving", "completed"} /\ w.work \notin {"none", "ended"}
  BY DEF WorkMoves, Working
<1>3. ctx' \in [1..MaxContexts -> CtxType] /\ ctx'[c] = w
      /\ \A d \in 1..MaxContexts : d # c => ctx'[d] = ctx[d]
  BY DEF StreamInv, WorkerTyped, WorkMoves
<1>4. RowTyped' /\ CallsTyped' /\ (RowDone => RowDone')
  BY <1>1 DEF StreamInv, RowTyped, CallsTyped, WorkMoves
<1>5. \A a \in Attempts : Expects(a)' = Expects(a)
  BY <1>1 DEF Expects
<1>6. WorkerTyped'
  BY <1>1, <1>3 DEF WorkerTyped, StreamInv, WorkMoves
<1>7. BusyOK'
  BY <1>1, <1>2, <1>3 DEF BusyOK, Writing, StreamInv
<1>8. ASSUME NEW d \in 1..MaxContexts PROVE CtxOK(d)'
  <2>1. CtxOK(d)
    BY DEF StreamInv
  <2>2. CASE d = c
    <3>1. ctx[d].last = Chunks /\ ctx[d].file # "staging"
      BY <1>2, <2>1, <2>2 DEF CtxOK
    <3>2. \/ w.phase = "finalizing" /\ w.work \in Working \cup {"refused", "thrown"}
          \/ w.phase \in {"failed", "cancelled"} /\ w.work = "saved"
          \/ w.phase = "failed" /\ w.work = "report"
      BY DEF WorkMoves
    <3> QED
      BY <1>2, <1>3, <2>2, <3>1, <3>2 DEF CtxOK, Working, Finished
  <2>3. CASE d # c
    BY <1>1, <1>3, <2>1, <2>3 DEF CtxOK
  <2> QED
    BY <2>2, <2>3
<1>9. ActiveOK'
  <2>1. active # 0 => active \in 1..MaxContexts
    BY StreamNumbers DEF StreamInv, WorkerTyped
  <2> QED
    BY <1>1, <1>2, <1>3, <2>1 DEF ActiveOK, StreamInv, Complete
<1>10. DoneOK'
  <2>1. \A d \in 1..MaxContexts : ctx'[d].phase = "completed" \/ ctx'[d].work = "clean"
          => ctx[d].phase = "completed" \/ ctx[d].work = "clean" \/ RowDone'
    BY <1>2, <1>3 DEF WorkMoves
  <2> QED
    BY <1>1, <1>4, <2>1 DEF DoneOK, StreamInv
<1>11. AloneOK'
  <2> SUFFICES ASSUME ~dropped PROVE AloneOK'
    BY <1>1 DEF AloneOK
  <2>1. \A d \in 1..MaxContexts : Uploading(d)' => Uploading(d)
    BY <1>2, <1>3 DEF Uploading, WorkMoves
  <2>2. Over => Over'
    BY <1>1, <1>4 DEF Over
  <2>3. RowDone' \/ (\E d \in 1..MaxContexts : ctx'[d].work = "complete") => Len(remote') = Chunks
    BY <1>3 DEF WorkMoves
  <2>4. Complete(staging)' = Complete(staging) /\ Writing' = Writing
    BY <1>1 DEF Complete, Writing
  <2> QED
    BY <1>1, <2>1, <2>2, <2>3, <2>4 DEF AloneOK, StreamInv
<1>12. FedOK'
  <2>1. Fed => Fed'
    <3>1. \A d \in 1..MaxContexts : ctx[d].work \notin {"none", "ended"}
                                     => ctx'[d].work \notin {"none", "ended"}
      BY <1>2, <1>3
    <3>2. active # 0 => active \in 1..MaxContexts
      BY StreamNumbers DEF StreamInv, WorkerTyped
    <3> QED
      BY <1>1, <1>2, <1>3, <1>4, <3>1, <3>2 DEF Fed
  <2> QED
    BY <1>1, <1>5, <2>1 DEF FedOK, StreamInv
<1> QED
  BY <1>4, <1>6, <1>7, <1>8, <1>9, <1>10, <1>11, <1>12 DEF WorkerInv

\* Another stage of the work of context c
LEMMA StageTyped ==
  ASSUME StreamInv, NEW c \in 1..MaxContexts, ctx[c].work \in Working \cup {"refused", "thrown"},
         NEW stage \in Working \cup {"refused", "thrown"}, NEW w,
         w = [ctx[c] EXCEPT !.work = stage]
  PROVE  /\ w \in CtxType /\ w.last = ctx[c].last /\ w.cancelled = ctx[c].cancelled
         /\ w.file = ctx[c].file /\ w.phase = "finalizing" /\ w.work = stage
         /\ ctx[c].phase = "finalizing" /\ ctx[c].lease \in Attempts \cup {0}
<1>1. ctx[c] \in CtxType /\ ctx[c].phase = "finalizing"
  BY DEF StreamInv, WorkerTyped, CtxOK
<1> QED
  BY <1>1 DEF CtxType

\* What a step has to show that moves the work of context c to a stage
LEMMA StageKeeps ==
  ASSUME StreamInv, NEW c \in 1..MaxContexts, ctx[c].work \in Working,
         NEW stage \in Working \cup {"refused", "thrown"}, Works(c, stage),
         UNCHANGED <<owner, att, fails, net, busy, active, staging, status, late, dropped, strayed>>,
         stage = "clean" => RowDone', remote' \in Beginnings,
         row' \in [status : Statuses, lease : Attempts \cup {0}], RowDone => RowDone',
         ~dropped /\ (RowDone' \/ stage = "complete" \/ \E d \in 1..MaxContexts : ctx[d].work = "complete")
           => Len(remote') = Chunks
  PROVE  RowTyped' /\ CallsTyped' /\ WorkerInv'
<1>1. PICK w : w = [ctx[c] EXCEPT !.work = stage]
  OBVIOUS
<1>2. /\ w \in CtxType /\ w.last = ctx[c].last /\ w.cancelled = ctx[c].cancelled
      /\ w.file = ctx[c].file /\ w.phase = "finalizing" /\ w.work = stage
      /\ ctx[c].phase = "finalizing"
  BY <1>1, StageTyped
<1>3. ctx' = [ctx EXCEPT ![c] = w]
  BY <1>1 DEF Works, StreamInv, WorkerTyped
<1>4. WorkMoves(c, w)
  BY <1>2, <1>3 DEF WorkMoves
<1> QED
  BY <1>4, WorkMovesKeeps

LEMMA CheckStagingKeeps ==
  ASSUME StreamInv, NEW c \in 1..MaxContexts, CheckStaging(c) PROVE StreamInv'
<1>1. PICK stage \in {"thrown", "upload"} : Works(c, stage)
  BY DEF CheckStaging
<1>2. stage \in Working \cup {"refused", "thrown"} /\ stage \notin {"clean", "complete"}
      /\ ctx[c].work \in Working
  BY DEF Working, CheckStaging
<1>3. /\ UNCHANGED <<owner, att, fails, net, busy, active, staging, status, late, dropped, strayed>>
      /\ remote' = remote /\ row' = row /\ RowDone' = RowDone /\ HistTyped'
  BY DEF CheckStaging, histVars, RowDone, HistTyped, StreamInv
<1>4. RowTyped' /\ CallsTyped' /\ WorkerInv'
  BY <1>1, <1>2, <1>3, StageKeeps DEF StreamInv, RowTyped, WorkerTyped, AloneOK
<1> QED
  BY <1>3, <1>4 DEF StreamInv, WorkerInv

\* Unless an upload has been forgotten, the one that goes through is of the whole file.
LEMMA UploadIsWhole ==
  ASSUME StreamInv, NEW c \in 1..MaxContexts, Upload(c), ~dropped
  PROVE  Len(staging.chunks) = Chunks
<1>1. Uploading(c) /\ staging.chunks # <<>>
  BY DEF Upload, Uploading, Working
<1> QED
  BY <1>1 DEF StreamInv, AloneOK, Over, Complete

LEMMA UploadKeeps ==
  ASSUME StreamInv, NEW c \in 1..MaxContexts, Upload(c) PROVE StreamInv'
<1>1. Works(c, "validate") /\ "validate" \in Working /\ ctx[c].work \in Working
  BY DEF Upload, Working
<1>2. /\ UNCHANGED <<owner, att, fails, net, busy, active, staging, status, late, dropped, strayed>>
      /\ remote' = staging.chunks /\ row' = row /\ RowDone' = RowDone /\ HistTyped'
  BY DEF Upload, histVars, RowDone, HistTyped, StreamInv
<1>3. remote' \in Beginnings /\ row' \in [status : Statuses, lease : Attempts \cup {0}]
  BY <1>2 DEF StreamInv, WorkerTyped, RowTyped
<1>4. ~dropped => Len(remote') = Chunks
  BY <1>2, UploadIsWhole
<1>5. RowTyped' /\ CallsTyped' /\ WorkerInv'
  BY <1>1, <1>2, <1>3, <1>4, StageKeeps
<1> QED
  BY <1>2, <1>5 DEF StreamInv, WorkerInv

LEMMA UploadFailsKeeps ==
  ASSUME StreamInv, NEW c \in 1..MaxContexts, UploadFails(c) PROVE StreamInv'
<1>1. Works(c, "thrown") /\ ctx[c].work \in Working
  BY DEF UploadFails, Working
<1>2. incidents' \in 0..MaxIncidents
  BY IncidentTyped DEF UploadFails, StreamInv
<1>3. /\ UNCHANGED <<owner, att, fails, net, busy, active, staging, status, late, dropped, strayed>>
      /\ remote' = remote /\ row' = row /\ RowDone' = RowDone /\ HistTyped'
  BY <1>2 DEF UploadFails, RowDone, HistTyped, StreamInv
<1>4. RowTyped' /\ CallsTyped' /\ WorkerInv'
  BY <1>1, <1>3, StageKeeps DEF StreamInv, RowTyped, WorkerTyped, AloneOK
<1> QED
  BY <1>3, <1>4 DEF StreamInv, WorkerInv

\* The row after the task failed
LEMMA FailedRow ==
  ASSUME StreamInv, NEW c \in 1..MaxContexts, FireEvent("fail", ctx[c].lease)
  PROVE  /\ row' \in [status : Statuses, lease : Attempts \cup {0}]
         /\ RowDone => RowDone'
         /\ RowDone' => RowDone
<1>1. "fail" \in Events /\ "fail" # "complete" /\ ctx[c].lease \in Attempts \cup {0}
  BY DEF Events, StreamInv, WorkerTyped, CtxType
<1> QED
  BY <1>1, RowMoves DEF StreamInv

LEMMA ValidateKeeps ==
  ASSUME StreamInv, NEW c \in 1..MaxContexts, Validate(c) PROVE StreamInv'
<1>1. PICK stage \in {"thrown", "complete", "refused"} :
        Works(c, stage) /\ (stage = "complete" => Len(remote) = Chunks)
  BY DEF Validate
<1>2. stage \in Working \cup {"refused", "thrown"} /\ stage # "clean" /\ ctx[c].work \in Working
  BY DEF Working, Validate
<1>3. /\ UNCHANGED <<owner, att, fails, net, busy, active, staging, status, late, dropped, strayed>>
      /\ remote' = remote /\ HistTyped'
  BY DEF Validate, histVars, HistTyped, StreamInv
<1>4. /\ row' \in [status : Statuses, lease : Attempts \cup {0}]
      /\ RowDone => RowDone'
      /\ RowDone' => RowDone
  <2>1. CASE row' = row
    BY <2>1 DEF StreamInv, RowTyped, RowDone
  <2>2. CASE FireEvent("fail", ctx[c].lease)
    BY <2>2, FailedRow
  <2> QED
    BY <2>1, <2>2 DEF Validate
<1>5. RowTyped' /\ CallsTyped' /\ WorkerInv'
  BY <1>1, <1>2, <1>3, <1>4, StageKeeps DEF StreamInv, WorkerTyped, AloneOK
<1> QED
  BY <1>3, <1>5 DEF StreamInv, WorkerInv

LEMMA CompleteTaskKeeps ==
  ASSUME StreamInv, NEW c \in 1..MaxContexts, CompleteTask(c) PROVE StreamInv'
<1>1. PICK stage \in {"clean", "refused"} :
        Works(c, stage) /\ (stage = "clean" => CompletionPasses(c))
  BY DEF CompleteTask
<1>2. stage \in Working \cup {"refused", "thrown"} /\ stage # "complete" /\ ctx[c].work \in Working
      /\ ctx[c].work = "complete"
  BY DEF Working, CompleteTask
<1>3. /\ UNCHANGED <<owner, att, fails, net, busy, active, staging, status, late, dropped, strayed>>
      /\ remote' = remote /\ HistTyped' /\ FireEvent("complete", ctx[c].lease)
  BY DEF CompleteTask, histVars, HistTyped, StreamInv
<1>4. /\ row' \in [status : Statuses, lease : Attempts \cup {0}]
      /\ RowDone => RowDone'
  <2>1. "complete" \in Events /\ ctx[c].lease \in Attempts \cup {0}
    BY DEF Events, StreamInv, WorkerTyped, CtxType
  <2> QED
    BY <1>3, <2>1, RowMoves DEF StreamInv
<1>5. CompletionPasses(c) => RowDone'
  BY <1>3 DEF CompletionPasses, Passes, FireEvent, RowAfter, RowDone, TargetStatus
<1>6. ~dropped => Len(remote) = Chunks
  BY <1>2 DEF StreamInv, AloneOK
<1>7. RowTyped' /\ CallsTyped' /\ WorkerInv'
  BY <1>1, <1>2, <1>3, <1>4, <1>5, <1>6, StageKeeps DEF StreamInv, WorkerTyped
<1> QED
  BY <1>3, <1>7 DEF StreamInv, WorkerInv

LEMMA NoteFailureKeeps ==
  ASSUME StreamInv, NEW c \in 1..MaxContexts, NoteFailure(c) PROVE StreamInv'
<1>1. ctx[c].work \in {"refused", "thrown"} /\ ctx[c] \in CtxType
      /\ ctx[c].phase = "finalizing"
  BY DEF NoteFailure, StreamInv, WorkerTyped, CtxOK
<1>2. PICK p \in {"cancelled", "failed"}, e \in {"report", "saved"} :
         /\ e = "report" => p = "failed"
         /\ ctx' = [ctx EXCEPT ![c].phase = p, ![c].work = e]
  BY DEF NoteFailure
<1>3. PICK w : w = [ctx[c] EXCEPT !.phase = p, !.work = e]
  OBVIOUS
<1>4. w = [phase |-> p, last |-> ctx[c].last, lease |-> ctx[c].lease,
           cancelled |-> ctx[c].cancelled, file |-> ctx[c].file, work |-> e]
  BY <1>1, <1>3 DEF CtxType
<1>5. w \in CtxType
  BY <1>1, <1>4 DEF CtxType
<1>6. ctx' = [ctx EXCEPT ![c] = w]
  BY <1>2, <1>3 DEF StreamInv, WorkerTyped
<1>7. /\ UNCHANGED <<owner, att, fails, net, busy, active, staging, status, late, dropped, strayed>>
      /\ remote' = remote /\ row' = row /\ RowDone' = RowDone /\ HistTyped'
  BY DEF NoteFailure, histVars, RowDone, HistTyped, StreamInv
<1>8. w.work = e /\ w.phase = p /\ w.last = ctx[c].last /\ w.cancelled = ctx[c].cancelled
      /\ w.file = ctx[c].file
  BY <1>4
<1>9. WorkMoves(c, w)
  <2>1. w.work \notin Working
    BY <1>8 DEF Working
  <2>2. remote' \in Beginnings /\ row' \in [status : Statuses, lease : Attempts \cup {0}]
    BY <1>7 DEF StreamInv, WorkerTyped, RowTyped
  <2>3. ~dropped /\ (RowDone' \/ w.work = "complete"
                     \/ \E d \in 1..MaxContexts : ctx[d].work = "complete") => Len(remote') = Chunks
    BY <1>7, <1>8 DEF StreamInv, AloneOK
  <2> QED
    BY <1>1, <1>2, <1>5, <1>6, <1>7, <1>8, <2>1, <2>2, <2>3 DEF WorkMoves
<1>10. RowTyped' /\ CallsTyped' /\ WorkerInv'
  BY <1>9, WorkMovesKeeps
<1> QED
  BY <1>7, <1>10 DEF StreamInv, WorkerInv

\* What the removal of the staging file makes of the contexts
LEMMA RemovedContext ==
  ASSUME StreamInv, NEW c \in 1..MaxContexts, RemoveStaging(c), NEW d \in 1..MaxContexts
  PROVE  /\ ctx'[d] \in CtxType /\ ctx'[d].file # "staging" /\ ctx'[d].last = ctx[d].last
         /\ ctx'[d].cancelled = ctx[d].cancelled
         /\ d # c => ctx'[d].phase = ctx[d].phase /\ ctx'[d].work = ctx[d].work
         /\ d = c => ctx'[d].phase = "completed" /\ ctx'[d].work = "saved"
         /\ ctx[d].phase = "none" => ctx'[d] = ctx[d]
<1>1. ctx[d] \in CtxType /\ CtxOK(d) /\ CtxOK(c) /\ ctx[c].phase = "finalizing"
  BY DEF StreamInv, WorkerTyped, RemoveStaging, CtxOK, Working
<1>2. CASE d = c
  <2>1. PICK w : w = [ctx[d] EXCEPT !.phase = "completed", !.work = "saved"]
    OBVIOUS
  <2>2. w = [phase |-> "completed", last |-> ctx[d].last, lease |-> ctx[d].lease,
             cancelled |-> ctx[d].cancelled, file |-> ctx[d].file, work |-> "saved"]
    BY <1>1, <2>1 DEF CtxType
  <2>3. w \in CtxType
    BY <1>1, <2>2 DEF CtxType
  <2>4. ctx'[d] = w
    BY <1>2, <2>1 DEF RemoveStaging
  <2>5. ctx[d].file # "staging"
    BY <1>1, <1>2 DEF CtxOK
  <2> QED
    BY <1>1, <1>2, <2>2, <2>3, <2>4, <2>5
<1>3. CASE d # c /\ ctx[d].file = "staging"
  <2>1. ctx'[d] = [ctx[d] EXCEPT !.file = "unlinked"]
    BY <1>3 DEF RemoveStaging
  <2>2. ctx[d].phase # "none"
    BY <1>1, <1>3 DEF CtxOK
  <2> QED
    BY <1>1, <1>3, <2>1, <2>2 DEF CtxType
<1>4. CASE d # c /\ ctx[d].file # "staging"
  BY <1>1, <1>4 DEF RemoveStaging
<1> QED
  BY <1>2, <1>3, <1>4

LEMMA RemoveStagingKeeps ==
  ASSUME StreamInv, NEW c \in 1..MaxContexts, RemoveStaging(c) PROVE StreamInv'
<1>1. /\ busy' = busy /\ active' = 0 /\ staging' = EmptyStaging /\ remote' = remote
      /\ status' = status /\ late' = late /\ row' = row /\ owner' = owner /\ att' = att
      /\ fails' = fails /\ net' = net /\ dropped' = dropped /\ strayed' = strayed
  BY DEF RemoveStaging, histVars
<1>2. \A d \in 1..MaxContexts :
         /\ ctx'[d] \in CtxType /\ ctx'[d].file # "staging" /\ ctx'[d].last = ctx[d].last
         /\ ctx'[d].cancelled = ctx[d].cancelled
         /\ d # c => ctx'[d].phase = ctx[d].phase /\ ctx'[d].work = ctx[d].work
         /\ d = c => ctx'[d].phase = "completed" /\ ctx'[d].work = "saved"
         /\ ctx[d].phase = "none" => ctx'[d] = ctx[d]
  BY RemovedContext
<1>3. RowDone /\ ctx[c].phase = "finalizing" /\ ctx[c].last = Chunks
  BY DEF StreamInv, DoneOK, RemoveStaging, CtxOK, Working
<1>4. RowTyped' /\ CallsTyped' /\ HistTyped' /\ RowDone'
  BY <1>1, <1>3 DEF RemoveStaging, histVars, RowTyped, CallsTyped, HistTyped, StreamInv, RowDone
<1>5. EmptyStaging \in [chunks : Beginnings, torn : BOOLEAN] /\ EmptyStaging.chunks = <<>>
      /\ ~EmptyStaging.torn
  BY NothingStaged DEF EmptyStaging
<1>6. ctx' \in [1..MaxContexts -> CtxType]
  BY <1>2 DEF RemoveStaging
<1>7. WorkerTyped'
  BY <1>1, <1>5, <1>6, StreamNumbers DEF WorkerTyped, StreamInv
<1>8. BusyOK' /\ ActiveOK'
  BY <1>1, <1>2, <1>3 DEF BusyOK, ActiveOK, Writing, StreamInv
<1>9. ASSUME NEW d \in 1..MaxContexts PROVE CtxOK(d)'
  <2>1. CtxOK(d)
    BY DEF StreamInv
  <2>2. CASE d = c
    BY <1>2, <1>3, <2>2 DEF CtxOK, Working, Finished
  <2>3. CASE d # c
    BY <1>1, <1>2, <2>1, <2>3 DEF CtxOK
  <2> QED
    BY <2>2, <2>3
<1>10. DoneOK'
  BY <1>4 DEF DoneOK
<1>11. AloneOK'
  <2>1. Over'
    BY <1>1, <1>4, <1>5 DEF Over
  <2>2. \A d \in 1..MaxContexts : Uploading(d)' => Uploading(d)
    BY <1>2 DEF Uploading, Working
  <2>3. ~dropped => Len(remote') = Chunks
    BY <1>1, <1>3 DEF StreamInv, AloneOK
  <2> QED
    BY <1>1, <2>1, <2>2, <2>3 DEF AloneOK, StreamInv
<1>12. FedOK'
  <2>1. Fed'
    BY <1>1, <1>2, <1>4 DEF Fed
  <2>2. \A a \in Attempts : att'[a] = att[a]
    BY <1>1
  <2> QED
    BY <1>1, <2>1, <2>2 DEF FedOK, StreamInv
<1> QED
  BY <1>4, <1>7, <1>8, <1>9, <1>10, <1>11, <1>12 DEF StreamInv

\* What the storing of an end makes of its context
LEMMA SavedContext ==
  ASSUME StreamInv, NEW c \in 1..MaxContexts, SaveEnd(c)
  PROVE  /\ ctx' \in [1..MaxContexts -> CtxType]
         /\ \A d \in 1..MaxContexts : d # c => ctx'[d] = ctx[d]
         /\ c \in {active, busy.c} =>
              /\ ctx'[c].phase = ctx[c].phase /\ ctx'[c].last = ctx[c].last
              /\ ctx'[c].file = ctx[c].file /\ ctx'[c].work = "ended"
         /\ c \notin {active, busy.c} => ctx'[c] = NoContext
<1>1. ctx[c] \in CtxType /\ NoContext \in CtxType
  BY StreamNumbers DEF StreamInv, WorkerTyped, NoContext, CtxType
<1>2. CASE c \in {active, busy.c}
  <2>1. PICK w : w = [ctx[c] EXCEPT !.work = "ended"]
    OBVIOUS
  <2>2. ctx' = [ctx EXCEPT ![c] = w]
    BY <1>2, <2>1 DEF SaveEnd, StreamInv, WorkerTyped
  <2>3. w \in CtxType /\ w.phase = ctx[c].phase /\ w.last = ctx[c].last /\ w.file = ctx[c].file
        /\ w.work = "ended"
    BY <1>1, <2>1 DEF CtxType
  <2> QED
    BY <1>2, <2>2, <2>3 DEF StreamInv, WorkerTyped
<1>3. CASE c \notin {active, busy.c}
  <2>1. ctx' = [ctx EXCEPT ![c] = NoContext]
    BY <1>3 DEF SaveEnd
  <2> QED
    BY <1>1, <1>3, <2>1 DEF StreamInv, WorkerTyped
<1> QED
  BY <1>2, <1>3

LEMMA SaveEndKeeps ==
  ASSUME StreamInv, NEW c \in 1..MaxContexts, SaveEnd(c) PROVE StreamInv'
<1>1. /\ busy' = busy /\ active' = active /\ staging' = staging /\ remote' = remote
      /\ late' = late /\ owner' = owner /\ att' = att /\ fails' = fails /\ net' = net
      /\ dropped' = dropped /\ strayed' = strayed /\ status' = ctx[c].phase
  BY DEF SaveEnd, histVars
<1>2. ctx[c].work \in {"saved", "report"} /\ ctx[c].phase \in Finished /\ ctx[c].last = Chunks
      /\ ctx[c].file # "staging"
  BY DEF SaveEnd, StreamInv, CtxOK, Finished
<1>3. /\ ctx' \in [1..MaxContexts -> CtxType]
      /\ \A d \in 1..MaxContexts : d # c => ctx'[d] = ctx[d]
      /\ c \in {active, busy.c} =>
           /\ ctx'[c].phase = ctx[c].phase /\ ctx'[c].last = ctx[c].last
           /\ ctx'[c].file = ctx[c].file /\ ctx'[c].work = "ended"
      /\ c \notin {active, busy.c} => ctx'[c] = NoContext
  BY SavedContext
<1>4. /\ row' \in [status : Statuses, lease : Attempts \cup {0}]
      /\ RowDone => RowDone'
      /\ RowDone' => RowDone
  <2>1. CASE row' = row
    BY <2>1 DEF StreamInv, RowTyped, RowDone
  <2>2. CASE FireEvent("fail", ctx[c].lease)
    BY <2>2, FailedRow
  <2> QED
    BY <2>1, <2>2 DEF SaveEnd
<1>5. RowTyped' /\ CallsTyped' /\ HistTyped' /\ \A a \in Attempts : Expects(a)' = Expects(a)
  BY <1>1, <1>4 DEF RowTyped, CallsTyped, StreamInv, Expects, HistTyped, SaveEnd, histVars
<1>6. WorkerTyped'
  BY <1>1, <1>2, <1>3 DEF WorkerTyped, StreamInv, Finished
<1>7. BusyOK'
  BY <1>1, <1>2, <1>3 DEF BusyOK, Writing, StreamInv, Finished
<1>8. NoContext.phase = "none" /\ NoContext.file = "closed" /\ NoContext.work = "none"
      /\ NoContext.last = 0
  BY DEF NoContext
<1>9. ASSUME NEW d \in 1..MaxContexts PROVE CtxOK(d)'
  <2>1. CtxOK(d)
    BY DEF StreamInv
  <2>2. CASE d = c /\ c \in {active, busy.c}
    BY <1>2, <1>3, <2>2 DEF CtxOK, Working, Finished
  <2>3. CASE d = c /\ c \notin {active, busy.c}
    BY <1>3, <1>8, <2>3, StreamNumbers DEF CtxOK, Working
  <2>4. CASE d # c
    BY <1>1, <1>3, <2>1, <2>4 DEF CtxOK
  <2> QED
    BY <2>2, <2>3, <2>4
<1>10. ActiveOK'
  <2>1. active # 0 => active \in 1..MaxContexts
    BY StreamNumbers DEF StreamInv, WorkerTyped
  <2> QED
    BY <1>1, <1>2, <1>3, <2>1 DEF ActiveOK, StreamInv, Finished, Complete
<1>11. \A d \in 1..MaxContexts :
         /\ ctx'[d].phase = "completed" => ctx[d].phase = "completed"
         /\ ctx'[d].work \in {"none", "ended", ctx[d].work}
         /\ Uploading(d)' => Uploading(d)
  BY <1>3, <1>8 DEF Uploading, Working
<1>12. DoneOK'
  BY <1>1, <1>4, <1>11 DEF DoneOK, StreamInv
<1>13. AloneOK'
  <2>1. Over' = Over /\ Complete(staging)' = Complete(staging) /\ Writing' = Writing
    <3>1. RowDone' = RowDone
      BY <1>4 DEF RowDone
    <3> QED
      BY <1>1, <3>1 DEF Over, Complete, Writing
  <2>2. \A d \in 1..MaxContexts : ctx'[d].work = "complete" => ctx[d].work = "complete"
    BY <1>11
  <2> QED
    BY <1>1, <1>4, <1>11, <2>1, <2>2 DEF AloneOK, StreamInv
<1>14. FedOK'
  <2>1. Fed => Fed'
    <3>1. active # 0 => active \in 1..MaxContexts
      BY StreamNumbers DEF StreamInv, WorkerTyped
    <3>2. HasResult(status')
      BY <1>1, <1>2 DEF HasResult, Finished
    <3> QED
      BY <1>1, <1>3, <1>4, <3>1, <3>2 DEF Fed
  <2> QED
    BY <1>1, <1>5, <2>1 DEF FedOK, StreamInv
<1> QED
  BY <1>5, <1>6, <1>7, <1>9, <1>10, <1>12, <1>13, <1>14 DEF StreamInv

LEMMA SaveUploadingKeeps ==
  ASSUME StreamInv, NEW c \in 1..MaxContexts, SaveUploading(c) PROVE StreamInv'
<1>1. /\ busy' = busy /\ ctx' = ctx /\ active' = active /\ staging' = staging
      /\ remote' = remote /\ row' = row /\ owner' = owner /\ att' = att /\ fails' = fails
      /\ net' = net /\ dropped' = dropped /\ status' = "uploading" /\ late' = late \ {c}
      /\ strayed' = (strayed \/ ctx[c].work \in {"none", "ended"})
  BY DEF SaveUploading
<1>2. RowTyped' /\ CallsTyped' /\ HistTyped' /\ RowDone' = RowDone
      /\ \A a \in Attempts : Expects(a)' = Expects(a)
  BY <1>1 DEF RowTyped, CallsTyped, StreamInv, Expects, HistTyped, SaveUploading, RowDone
<1>3. WorkerTyped' /\ BusyOK' /\ ActiveOK'
  BY <1>1 DEF WorkerTyped, BusyOK, ActiveOK, Writing, StreamInv
<1>4. \A d \in 1..MaxContexts : CtxOK(d)'
  BY <1>1 DEF CtxOK, StreamInv
<1>5. DoneOK'
  BY <1>1, <1>2 DEF DoneOK, StreamInv
<1>6. AloneOK'
  <2>1. Over' = Over /\ Writing' = Writing /\ \A d : Uploading(d)' = Uploading(d)
    BY <1>1, <1>2 DEF Over, Writing, Uploading
  <2> QED
    BY <1>1, <1>2, <2>1 DEF AloneOK, StreamInv
<1>7. FedOK'
  <2>1. ~strayed' => ~strayed /\ ctx[c].work \notin {"none", "ended"}
    BY <1>1
  <2>2. ctx[c].work \notin {"none", "ended"} /\ Fed => Fed'
    BY <1>1, <1>2 DEF Fed
  <2> QED
    BY <1>1, <1>2, <2>1, <2>2 DEF FedOK, StreamInv
<1> QED
  BY <1>2, <1>3, <1>4, <1>5, <1>6, <1>7 DEF StreamInv

\* A clean-up takes the active context out of the map, and closes its file.
LEMMA CleanedContext ==
  ASSUME StreamInv, CleanStaleStreams, NEW d \in 1..MaxContexts
  PROVE  /\ ctx'[d] \in CtxType
         /\ d # active => ctx'[d] = ctx[d]
         /\ d = active => \/ ctx'[d] = NoContext /\ busy.c # d
                          \/ /\ ctx'[d].phase = ctx[d].phase /\ ctx'[d].last = ctx[d].last
                             /\ ctx'[d].work = ctx[d].work /\ ctx'[d].file = "closed"
<1>1. ctx[d] \in CtxType /\ NoContext \in CtxType
  BY StreamNumbers DEF StreamInv, WorkerTyped, NoContext, CtxType
<1>2. PICK w : w = [ctx[d] EXCEPT !.file = "closed"]
  OBVIOUS
<1>3. w \in CtxType /\ w.phase = ctx[d].phase /\ w.last = ctx[d].last
      /\ w.work = ctx[d].work /\ w.file = "closed"
  BY <1>1, <1>2 DEF CtxType
<1>4. CASE d # active
  BY <1>1, <1>4 DEF CleanStaleStreams, StreamInv, WorkerTyped
<1>5. CASE d = active
  <2>1. ctx'[d] = IF busy.c = d THEN w ELSE Left(d)
    BY <1>2, <1>5 DEF CleanStaleStreams, StreamInv, WorkerTyped
  <2>2. Left(d) \in {NoContext, w}
    BY <1>2 DEF Left
  <2> QED
    BY <1>1, <1>3, <1>5, <2>1, <2>2
<1> QED
  BY <1>4, <1>5

LEMMA CleanStaleStreamsKeeps == ASSUME StreamInv, CleanStaleStreams PROVE StreamInv'
<1>1. /\ busy' = busy /\ active' = 0 /\ staging' = staging /\ remote' = remote
      /\ status' = status /\ late' = late /\ row' = row /\ owner' = owner /\ att' = att
      /\ fails' = fails /\ net' = net /\ strayed' = strayed /\ dropped' /\ active # 0
  BY DEF CleanStaleStreams
<1>2. \A d \in 1..MaxContexts :
         /\ ctx'[d] \in CtxType
         /\ d # active => ctx'[d] = ctx[d]
         /\ d = active => \/ ctx'[d] = NoContext /\ busy.c # d
                          \/ /\ ctx'[d].phase = ctx[d].phase /\ ctx'[d].last = ctx[d].last
                             /\ ctx'[d].work = ctx[d].work /\ ctx'[d].file = "closed"
  BY CleanedContext
<1>3. incidents' \in 0..MaxIncidents
  BY IncidentTyped DEF CleanStaleStreams, StreamInv
<1>4. RowTyped' /\ CallsTyped' /\ RowDone' = RowDone
  BY <1>1 DEF RowTyped, CallsTyped, StreamInv, RowDone
<1>5. HistTyped'
  <2>1. dropped' \in BOOLEAN
    BY DEF CleanStaleStreams
  <2> QED
    BY <1>1, <1>3, <2>1 DEF HistTyped, StreamInv
<1>6. ctx' \in [1..MaxContexts -> CtxType]
  BY <1>2 DEF CleanStaleStreams, StreamInv, WorkerTyped
<1>7. WorkerTyped' /\ ActiveOK'
  BY <1>1, <1>6, StreamNumbers DEF WorkerTyped, ActiveOK, StreamInv
<1>8. BusyOK'
  <2>1. Writing => /\ busy.req \in Requests /\ busy.req.kind = "chunk" /\ busy.c \in 1..MaxContexts
                   /\ active = busy.c /\ ctx[busy.c].phase # "none"
    BY <1>1 DEF StreamInv, BusyOK
  <2>2. Writing => ctx'[busy.c].phase = ctx[busy.c].phase /\ ctx'[busy.c].last = ctx[busy.c].last
    BY <1>2, <2>1
  <2>3. busy.step = "clear" => FALSE
    BY <1>1 DEF StreamInv, BusyOK
  <2> QED
    BY <1>1, <2>1, <2>2, <2>3 DEF BusyOK, Writing, StreamInv
<1>9. NoContext.phase = "none" /\ NoContext.file = "closed" /\ NoContext.work = "none"
      /\ NoContext.last = 0
  BY DEF NoContext
<1>10. ASSUME NEW d \in 1..MaxContexts PROVE CtxOK(d)'
  <2>1. CtxOK(d) /\ d # 0
    BY StreamNumbers DEF StreamInv
  <2>2. CASE d # active
    BY <1>1, <1>2, <2>1, <2>2 DEF CtxOK
  <2>3. CASE ctx'[d] = NoContext
    BY <1>9, <2>3, StreamNumbers DEF CtxOK, Working
  <2>4. CASE d = active /\ ctx'[d] # NoContext
    <3>1. /\ ctx'[d].phase = ctx[d].phase /\ ctx'[d].last = ctx[d].last
          /\ ctx'[d].work = ctx[d].work /\ ctx'[d].file = "closed"
      BY <1>2, <2>4
    <3>2. ctx'[d].phase # "none"
      BY <1>1, <2>4, <3>1 DEF StreamInv, ActiveOK
    <3> QED
      BY <1>1, <2>1, <3>1, <3>2 DEF CtxOK
  <2> QED
    BY <2>2, <2>3, <2>4
<1>11. DoneOK'
  <2>1. \A d \in 1..MaxContexts : ctx'[d].phase = "completed" \/ ctx'[d].work = "clean"
          => ctx[d].phase = "completed" \/ ctx[d].work = "clean"
    BY <1>2, <1>9
  <2> QED
    BY <1>1, <1>4, <2>1 DEF DoneOK, StreamInv
<1>12. AloneOK' /\ FedOK'
  BY <1>1 DEF AloneOK, FedOK
<1> QED
  BY <1>4, <1>5, <1>7, <1>8, <1>10, <1>11, <1>12 DEF StreamInv

\* Of a worker that dies the staging file remains, the uploaded file and the status.
LEMMA WorkerDiesKeeps == ASSUME StreamInv, WorkerDies PROVE StreamInv'
<1>1. /\ busy' = Free /\ active' = 0 /\ ctx' = [c \in 1..MaxContexts |-> NoContext]
      /\ remote' = remote /\ status' = status /\ late' = {} /\ row' = row /\ owner' = owner
      /\ att' = att /\ fails' = fails /\ net' \subseteq net /\ strayed' /\ dropped' = dropped
  BY DEF WorkerDies
<1>2. NoContext \in CtxType /\ NoContext.phase = "none" /\ NoContext.file = "closed"
      /\ NoContext.work = "none" /\ NoContext.last = 0
  BY StreamNumbers DEF NoContext, CtxType
<1>3. incidents' \in 0..MaxIncidents
  BY IncidentTyped DEF WorkerDies, StreamInv
<1>4. RowTyped' /\ CallsTyped' /\ RowDone' = RowDone
  BY <1>1 DEF RowTyped, CallsTyped, StreamInv, RowDone
<1>5. HistTyped'
  <2>1. strayed' \in BOOLEAN
    BY DEF WorkerDies
  <2> QED
    BY <1>1, <1>3, <2>1 DEF HistTyped, StreamInv
<1>6. staging' \in [chunks : Beginnings, torn : BOOLEAN]
  BY DEF WorkerDies, Torn, StreamInv, WorkerTyped
<1>7. WorkerTyped'
  BY <1>1, <1>2, <1>6, BusyFree, StreamNumbers DEF WorkerTyped, StreamInv
<1>8. BusyOK' /\ ActiveOK'
  BY <1>1, BusyFree DEF BusyOK, ActiveOK, Writing
<1>9. \A c \in 1..MaxContexts : ctx'[c] = NoContext
  BY <1>1
<1>10. \A c \in 1..MaxContexts : CtxOK(c)'
  BY <1>2, <1>9, StreamNumbers DEF CtxOK, Working
<1>11. DoneOK'
  BY <1>1, <1>2, <1>4, <1>9 DEF DoneOK, StreamInv
<1>12. AloneOK'
  BY <1>1, <1>2, <1>4, <1>9, BusyFree DEF AloneOK, StreamInv, Uploading, Working, Writing
<1>13. FedOK'
  BY <1>1 DEF FedOK
<1> QED
  BY <1>4, <1>5, <1>7, <1>8, <1>10, <1>11, <1>12, <1>13 DEF StreamInv

-----------------------------------------------------------------------------
\* The invariant holds at the start,
LEMMA StreamInvInit == StreamInit => StreamInv
<1> SUFFICES ASSUME StreamInit PROVE StreamInv
  OBVIOUS
<1>1. /\ row = [status |-> "queued", lease |-> 0] /\ owner = FALSE
      /\ att = [a \in Attempts |-> [at |-> "idle", k |-> 1, tries |-> 0]]
      /\ fails = [k \in 1..Chunks |-> 0] /\ net = {} /\ busy.step = "free" /\ busy = Free
      /\ ctx = [c \in 1..MaxContexts |-> NoContext] /\ active = 0 /\ staging = EmptyStaging
      /\ remote = <<>> /\ status = "none" /\ late = {}
      /\ dropped = FALSE /\ strayed = FALSE /\ incidents = 0
  BY DEF StreamInit, Free
<1>2. RowTyped
  BY DEF StreamInit, RowTyped, Statuses
<1>3. CallsTyped
  <2>1. [at |-> "idle", k |-> 1, tries |-> 0] \in AttType
    BY StreamNumbers DEF AttType, Steps
  <2>2. 0 \in 0..MaxChunkRetries
    BY StreamNumbers
  <2> QED
    BY <1>1, <2>1, <2>2 DEF CallsTyped
<1>4. HistTyped
  <2>1. dropped \in BOOLEAN /\ strayed \in BOOLEAN
    BY DEF StreamInit
  <2>2. incidents \in 0..MaxIncidents
    BY StreamNumbers DEF StreamInit
  <2> QED
    BY <2>1, <2>2 DEF HistTyped
<1>5. NoContext \in CtxType /\ NoContext.phase = "none" /\ NoContext.file = "closed"
      /\ NoContext.work = "none" /\ NoContext.last = 0
  BY StreamNumbers DEF NoContext, CtxType
<1>6. EmptyStaging \in [chunks : Beginnings, torn : BOOLEAN] /\ <<>> \in Beginnings
  BY NothingStaged DEF EmptyStaging
<1>7. WorkerTyped
  BY <1>1, <1>5, <1>6, BusyFree, StreamNumbers DEF WorkerTyped
<1>8. BusyOK /\ ActiveOK
  BY <1>1, BusyFree DEF BusyOK, ActiveOK, Writing
<1>9. \A c \in 1..MaxContexts : CtxOK(c)
  BY <1>1, <1>5, StreamNumbers DEF CtxOK, Working
<1>10. row.status = "queued" /\ ~RowDone
  BY <1>1 DEF RowDone
<1>11. DoneOK
  BY <1>1, <1>5 DEF DoneOK
<1>12. AloneOK
  BY <1>1, <1>5, <1>10, BusyFree DEF AloneOK, Uploading, Working, Writing
<1>13. FedOK
  BY <1>1, BusyFree DEF FedOK, Expects
<1> QED
  BY <1>2, <1>3, <1>4, <1>7, <1>8, <1>9, <1>11, <1>12, <1>13 DEF StreamInv

\* every step keeps it,
LEMMA StreamInvNext == ASSUME StreamInv, [StreamNext]_streamVars PROVE StreamInv'
<1>1. CASE UNCHANGED streamVars
  <2>1. UNCHANGED <<row, owner, att, fails, net, busy, ctx, active, staging, remote, status, late,
                    dropped, strayed, incidents>>
    BY <1>1 DEF streamVars, workerVars, histVars
  <2> QED
    BY <2>1 DEF StreamInv, RowTyped, CallsTyped, WorkerTyped, HistTyped, BusyOK, CtxOK, ActiveOK,
      DoneOK, AloneOK, FedOK, RowDone, Over, Uploading, Expects, Fed, Writing
<1>2. ASSUME NEW a \in Attempts,
             \/ Claim(a) \/ StartForwarding(a) \/ RegisterOwner(a) \/ SendChunk(a)
             \/ AllSent(a) \/ FindsCancelled(a) \/ Poll(a) \/ WaitTimesOut(a)
             \/ TimesOut(a) \/ GiveUp(a) \/ FallBack(a)
      PROVE  StreamInv'
  BY <1>2, ClaimKeeps, StartForwardingKeeps, RegisterOwnerKeeps, SendChunkKeeps, AllSentKeeps,
     FindsCancelledKeeps, PollKeeps, WaitTimesOutKeeps, TimesOutKeeps, GiveUpKeeps, FallBackKeeps
<1>3. CASE CancelTask \/ ForgetRetries
  BY <1>3, CancelTaskKeeps, ForgetRetriesKeeps
<1>4. ASSUME NEW m \in net,
             \/ TakeChunk(m) \/ RefuseChunk(m) \/ AdmitResume(m) \/ ResumeContext(m)
             \/ ResumeStaging(m) \/ BeginResetTask(m) \/ IgnoreReset(m)
      PROVE  StreamInv'
  BY <1>4, TakeChunkKeeps, RefuseChunkKeeps, AdmitResumeKeeps, ResumeContextKeeps,
     ResumeStagingKeeps, BeginResetTaskKeeps, IgnoreResetKeeps
<1>5. CASE AnswerDuplicate \/ RefuseChunkGap \/ WriteChunk \/ WriteFails \/ LastChunk
           \/ LastChunkFails \/ EndResetTask
  BY <1>5, AnswerDuplicateKeeps, RefuseChunkGapKeeps, WriteChunkKeeps, WriteFailsKeeps,
     LastChunkKeeps, LastChunkFailsKeeps, EndResetTaskKeeps
<1>6. ASSUME NEW c \in 1..MaxContexts,
             \/ CheckStaging(c) \/ Upload(c) \/ UploadFails(c) \/ Validate(c)
             \/ CompleteTask(c) \/ RemoveStaging(c) \/ NoteFailure(c) \/ SaveEnd(c)
             \/ SaveUploading(c)
      PROVE  StreamInv'
  BY <1>6, CheckStagingKeeps, UploadKeeps, UploadFailsKeeps, ValidateKeeps, CompleteTaskKeeps,
     RemoveStagingKeeps, NoteFailureKeeps, SaveEndKeeps, SaveUploadingKeeps
<1>7. CASE CleanStaleStreams \/ WorkerDies
  BY <1>7, CleanStaleStreamsKeeps, WorkerDiesKeeps
<1>8. CASE Terminated
  BY <1>1, <1>8 DEF Terminated
<1> QED
  BY <1>1, <1>2, <1>3, <1>4, <1>5, <1>6, <1>7, <1>8 DEF StreamNext

\* A set whose elements are all the same has at most one.
LEMMA AtMostOne ==
  ASSUME NEW S, \A x, y \in S : x = y
  PROVE  Cardinality(S) <= 1
<1>1. CASE S = {}
  BY <1>1, FS_EmptySet
<1>2. CASE S # {}
  <2>1. PICK x \in S : S = {x}
    BY <1>2
  <2>2. Cardinality({x}) = 1
    BY FS_Singleton
  <2> QED
    BY <2>1, <2>2
<1> QED
  BY <1>1, <1>2

\* and it implies what StreamSafe says.
LEMMA StreamInvSafe == StreamInv => StreamSafe
<1> SUFFICES ASSUME StreamInv PROVE StreamSafe
  OBVIOUS
<1>1. StreamTypeOK
  <2>1. staging.chunks \in UNION {[1..n -> 1..Chunks] : n \in 0..Chunks}
        /\ staging.torn \in BOOLEAN /\ remote \in UNION {[1..n -> 1..Chunks] : n \in 0..Chunks}
    BY BeginningFacts DEF StreamInv, WorkerTyped
  <2>2. att \in [Attempts -> AttType] /\ busy \in BusyType /\ ctx \in [1..MaxContexts -> CtxType]
    BY DEF StreamInv, CallsTyped, WorkerTyped
  <2> QED
    BY <2>1, <2>2 DEF StreamTypeOK, StreamInv, RowTyped, CallsTyped, WorkerTyped, HistTyped,
      AttType, Steps, BusyType, CtxType
<1>2. StagedInOrder
  <2>1. staging.chunks = FirstChunks(Len(staging.chunks))
    BY BeginningFacts DEF StreamInv, WorkerTyped
  <2>2. active # 0 => active \in 1..MaxContexts
    BY StreamNumbers DEF StreamInv, WorkerTyped
  <2>3. active # 0 /\ ctx[active].file = "staging"
          => ctx[active].last = Len(staging.chunks) /\ ~staging.torn
    BY <2>2 DEF StreamInv, CtxOK
  <2> QED
    BY <2>1, <2>3 DEF StagedInOrder, FirstChunks
<1>3. SuccessMeansCompleted
  BY DEF SuccessMeansCompleted, StreamInv, DoneOK, AloneOK, RowDone
<1>4. OneUpload
  <2> SUFFICES ASSUME ~dropped
               PROVE  Cardinality({c \in 1..MaxContexts :
                                     ctx[c].work \in Working /\ ~ctx[c].cancelled}) <= 1
    BY DEF OneUpload
  <2> DEFINE U == {c \in 1..MaxContexts : ctx[c].work \in Working /\ ~ctx[c].cancelled}
  <2>1. \A c, d \in U : c = d
    BY DEF StreamInv, AloneOK, Uploading
  <2> HIDE DEF U
  <2>2. Cardinality(U) <= 1
    BY <2>1, AtMostOne
  <2> QED
    BY <2>2 DEF U
<1>5. WaitIsFed
  <2> SUFFICES ASSUME NEW a \in Attempts, att[a].at = "wait", ~strayed, ~dropped
               PROVE  \/ HasResult(Shown)
                      \/ \E c \in 1..MaxContexts : ctx[c].work \notin {"none", "ended"}
    BY DEF WaitIsFed
  <2>1. Fed
    BY DEF StreamInv, FedOK, Expects
  <2>2. CASE active = 0
    BY <2>1, <2>2 DEF Fed, Shown
  <2>3. CASE active # 0
    <3>1. active \in 1..MaxContexts /\ ctx[active].phase \notin {"none", "receiving"}
      BY <2>1, <2>3, StreamNumbers DEF Fed, StreamInv, WorkerTyped, ActiveOK
    <3>2. ctx[active] \in CtxType /\ CtxOK(active)
      BY <3>1 DEF StreamInv, WorkerTyped
    <3>3. CASE ctx[active].phase = "finalizing"
      BY <3>1, <3>2, <3>3 DEF CtxOK, Finished
    <3>4. CASE ctx[active].phase # "finalizing"
      BY <2>3, <3>1, <3>2, <3>4 DEF CtxType, Shown, HasResult
    <3> QED
      BY <3>3, <3>4
  <2> QED
    BY <2>2, <2>3
<1> QED
  BY <1>1, <1>2, <1>3, <1>4, <1>5 DEF StreamSafe

\* The worker's staging file and the remote one are the chunks of the file in
\* their order; an attempt that tells its caller the file is uploaded finds the row
\* completed, and the whole file unless a clean-up forgot an upload; uploads never
\* overlap, and a wait for the result has something to wait for
\* (_handleIncomingResumableChunk, _completeResumableUpload, waitForFinalization).
THEOREM StreamsAreSafe == StreamSpec => []StreamSafe
<1>1. StreamInv /\ [StreamNext]_streamVars => StreamInv'
  BY StreamInvNext
<1> QED
  BY <1>1, StreamInvInit, StreamInvSafe, PTL DEF StreamSpec
=============================================================================
