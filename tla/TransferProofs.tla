--------------------------- MODULE TransferProofs ---------------------------
(* Theorems about a task's file on its way: the executions of its task       *)
(* (TaskProcessing), its direct transfer to the drive (DirectTransfer), its  *)
(* live stream through another instance (LiveStream), and the requests that  *)
(* go from one server to the next (SmartFailover), each for any values of    *)
(* its constants.  The four have no state in common.                         *)
EXTENDS TaskProcessing, DirectTransfer, LiveStream, SmartFailover, SequenceTheorems,
        FiniteSetTheorems, TLAPS

-----------------------------------------------------------------------------
(* TaskProcessing: the inductive invariant *)

RowType == [status : Statuses, claim : 0..MaxLeases]

AtType == Running \cup {"idle", "lock", "start", "cleanup", "release"}

ExecType ==
  [at : AtType, kind : Kinds, inst : Instances \cup {Nobody}, lease : 0..MaxLeases,
   seen : Statuses \cup {"none"}, event : Events \cup {"none"}, msg : BOOLEAN]

AgentType ==
  [at : {"idle", "add", "addFailed", "unlock", "retry", "cancel", "reset", "enqueue"},
   inst : Instances \cup {Nobody}, seen : Statuses \cup {"none"}, kind : Kinds]

\* From reading the lease to giving up the lock an execution has a lease, and
\* when it is about to write the row it has decided on an event.
ExecOK(e) ==
  /\ e \in ExecType
  /\ e.at # "idle" => e.inst \in Instances
  /\ e.at \in Running \cup {"lock", "start"} => e.lease # 0
  /\ e.at \in {"commit", "validated", "recover"} => e.event \in Events

ExecsOK == exec \in [Execs -> ExecType] /\ \A x \in Execs : ExecOK(exec[x])

AgentsOK ==
  /\ agent \in [Agents -> AgentType]
  /\ \A a \in Agents : agent[a].at # "idle" => agent[a].inst \in Instances

RowOK == row \in RowType /\ quiet \in BOOLEAN /\ ClaimMatchesStatus

EnvironmentOK ==
  /\ queue \in [Kinds -> 0..MaxMessages]
  /\ leader \in Instances \cup {Nobody}
  /\ lease \in 1..MaxLeases
  /\ lock \in Instances \cup {Nobody}
  /\ files \subseteq Instances
  /\ incidents \in 0..MaxIncidents

IInv == RowOK /\ ExecsOK /\ AgentsOK /\ EnvironmentOK

LEMMA IInvImplies == IInv => TypeOK /\ ClaimMatchesStatus
BY DEF IInv, RowOK, ExecsOK, AgentsOK, EnvironmentOK, TypeOK,
       RowType, ExecType, AgentType, AtType

-----------------------------------------------------------------------------
(* Writes of the row *)

\* What a write without a fence may do: a row that has no claim must not be
\* brought back to work by it.
Unfenced == {"retry", "reset_upload", "fail", "cancel"}

\* The two ways a row changes: a move that keeps or drops the claim, which is
\* only made for an unfenced event or by the holder of the claim, and a start
\* that replaces the claim.
Moved(event) ==
  /\ event \in Events
  /\ event \in Unfenced \/ row.claim # 0
  /\ Allowed(row.status, event)
  /\ row' = [status |-> TargetStatus[event],
             claim  |-> IF TargetStatus[event] \in ClaimFree THEN 0 ELSE row.claim]

Claimed(event) ==
  /\ event \in {"start_download", "start_upload"}
  /\ Allowed(row.status, event)
  /\ \E l \in 1..MaxLeases : row' = [status |-> TargetStatus[event], claim |-> l]

RowStep == (\E event \in Events : Moved(event) \/ Claimed(event)) \/ row' = row

LEMMA PlainMoves ==
  ASSUME NEW event \in Unfenced, Plain(event)
  PROVE  RowStep /\ (quiet \in BOOLEAN => quiet' \in BOOLEAN)
BY DEF Plain, Moved, RowStep, Unfenced, Events

LEMMA FencedMoves ==
  ASSUME NEW event \in Events, NEW l, l # 0, Fenced(event, l)
  PROVE  RowStep /\ (quiet \in BOOLEAN => quiet' \in BOOLEAN)
<1>1. CASE Outcome(event, l) = "changed"
  <2>1. Allowed(row.status, event) /\ row.claim = l
    BY <1>1 DEF Outcome, Holds
  <2>. QED  BY <1>1, <2>1 DEF Fenced, Plain, Moved, RowStep
<1>2. CASE Outcome(event, l) # "changed"
  BY <1>2 DEF Fenced, RowStep
<1>. QED  BY <1>1, <1>2

LEMMA ClaimingMoves ==
  ASSUME NEW event \in {"start_download", "start_upload"}, NEW l \in 1..MaxLeases,
         Allowed(row.status, event), Claiming(event, l)
  PROVE  RowStep /\ quiet' \in BOOLEAN
BY DEF Claiming, Claimed, RowStep, Events

\* Neither of them breaks the rule about claims.
LEMMA RowStepKeeps ==
  ASSUME RowOK, RowStep, quiet' \in BOOLEAN
  PROVE  RowOK'
<1>1. ASSUME NEW event \in Events, Moved(event) PROVE RowOK'
  <2>1. TargetStatus[event] \in Statuses
    BY DEF Events, TargetStatus, Statuses
  <2>2. row' \in RowType
    BY <1>1, <2>1, TaskProcessingAssumption DEF Moved, RowOK, RowType
  <2>3. CASE row.claim # 0
    BY <1>1, <2>2, <2>3 DEF Moved, RowOK, ClaimMatchesStatus, RowType
  <2>4. CASE row.claim = 0
    <3>1. event \in Unfenced /\ row.status \in ClaimFree
      BY <1>1, <2>4 DEF Moved, RowOK, ClaimMatchesStatus
    <3>2. TargetStatus[event] \in ClaimFree
      BY <1>1, <3>1 DEF Moved, Unfenced, Allowed, AllowedFrom, TargetStatus, ClaimFree,
                        TerminalStatuses, ActiveStatuses
    <3>. QED  BY <1>1, <2>2, <3>2 DEF Moved, RowOK, ClaimMatchesStatus
  <2>. QED  BY <2>3, <2>4
<1>2. ASSUME NEW event \in Events, Claimed(event) PROVE RowOK'
  BY <1>2 DEF Claimed, TargetStatus, RowOK, RowType, ClaimMatchesStatus, ClaimFree,
              TerminalStatuses, Statuses
<1>3. CASE row' = row
  BY <1>3 DEF RowOK, ClaimMatchesStatus
<1>. QED  BY <1>1, <1>2, <1>3 DEF RowStep

-----------------------------------------------------------------------------
(* Steps of an execution *)

\* Where an execution may go from where it is without deciding on an event.
MayGo(e, at) ==
  /\ e.at # "idle"
  /\ at \in AtType \ {"idle", "commit", "validated", "recover"}
  /\ e.at \in Running \cup {"lock", "start"} \/ at \in {"cleanup", "release"}

LEMMA ExecStep ==
  ASSUME ExecsOK, NEW x \in Execs, NEW new, ExecOK(new),
         exec' = [exec EXCEPT ![x] = new]
  PROVE  ExecsOK'
<1>1. new \in ExecType
  BY DEF ExecOK
<1>2. exec' \in [Execs -> ExecType]
  BY <1>1 DEF ExecsOK
<1>3. ASSUME NEW y \in Execs PROVE ExecOK(exec'[y])
  <2>1. CASE y = x
    BY <2>1 DEF ExecsOK
  <2>2. CASE y # x
    BY <2>2 DEF ExecsOK
  <2>. QED  BY <2>1, <2>2
<1>. QED  BY <1>2, <1>3 DEF ExecsOK, ExecOK

LEMMA IdleExecOK == ExecOK(IdleExec)
BY TaskProcessingAssumption DEF ExecOK, ExecType, AtType, IdleExec, Kinds, Running

LEMMA LeavingOK ==
  ASSUME NEW e \in ExecType, e.inst \in Instances
  PROVE  ExecOK(Leaving(e)) /\ ExecOK([Leaving(e) EXCEPT !.at = "cleanup"])
<1>1. IdleExec \in ExecType /\ "release" \in AtType
  BY IdleExecOK DEF ExecOK, AtType
<1>2. PICK k \in Kinds : Leaving(e) =
        [IdleExec EXCEPT !.at = "release", !.inst = e.inst, !.msg = e.msg, !.kind = k]
  <2>1. CASE e.msg
    BY <2>1 DEF ExecType, Leaving
  <2>2. CASE ~e.msg
    BY <1>1, <2>2 DEF ExecType, Leaving
  <2>. QED  BY <2>1, <2>2
<1>3. Leaving(e) \in ExecType /\ Leaving(e).at = "release" /\ Leaving(e).inst = e.inst
  BY <1>1, <1>2 DEF ExecType
<1>. QED  BY <1>3 DEF ExecOK, ExecType, AtType, Running

LEMMA GoKeeps ==
  ASSUME ExecsOK, NEW x \in Execs, NEW at, MayGo(exec[x], at)
  PROVE  /\ Goto(x, at) => ExecsOK'
         /\ Acknowledge(x, at) => ExecsOK'
         /\ exec' = [exec EXCEPT ![x].at = at, ![x].seen = "none"] => ExecsOK'
<1>1. ExecOK(exec[x]) /\ exec[x] \in ExecType
  BY DEF ExecsOK
<1>2. /\ ExecOK([exec[x] EXCEPT !.at = at])
      /\ ExecOK([exec[x] EXCEPT !.at = at, !.msg = FALSE])
      /\ ExecOK([exec[x] EXCEPT !.at = at, !.seen = "none"])
  BY ZenonT(30), <1>1 DEF ExecOK, ExecType, AtType, MayGo, Running
<1>3. Goto(x, at) => ExecsOK'
  <2>1. Goto(x, at) => exec' = [exec EXCEPT ![x] = [exec[x] EXCEPT !.at = at]]
    BY DEF Goto
  <2>. QED  BY <1>2, <2>1, ExecStep
<1>4. Acknowledge(x, at) => ExecsOK'
  <2>1. Acknowledge(x, at) =>
          exec' = [exec EXCEPT ![x] = [exec[x] EXCEPT !.at = at, !.msg = FALSE]]
    BY <1>1 DEF Acknowledge, ExecsOK
  <2>. QED  BY <1>2, <2>1, ExecStep
<1>5. exec' = [exec EXCEPT ![x].at = at, ![x].seen = "none"] => ExecsOK'
  <2>1. exec' = [exec EXCEPT ![x].at = at, ![x].seen = "none"] =>
          exec' = [exec EXCEPT ![x] = [exec[x] EXCEPT !.at = at, !.seen = "none"]]
    BY <1>1 DEF ExecsOK
  <2>. QED  BY <1>2, <2>1, ExecStep
<1>. QED  BY <1>3, <1>4, <1>5

LEMMA DecideKeeps ==
  ASSUME ExecsOK, NEW x \in Execs, exec[x].at \in Running,
         NEW at \in {"commit", "validated", "recover"}, NEW event \in Events,
         Decide(x, at, event)
  PROVE  ExecsOK'
<1>1. ExecOK(exec[x]) /\ exec[x] \in ExecType
  BY DEF ExecsOK
<1>2. ExecOK([exec[x] EXCEPT !.at = at, !.event = event])
  BY <1>1 DEF ExecOK, ExecType, AtType, Running
<1>3. exec' = [exec EXCEPT ![x] = [exec[x] EXCEPT !.at = at, !.event = event]]
  BY <1>1 DEF Decide, ExecsOK
<1>. QED  BY <1>2, <1>3, ExecStep

LEMMA LeaveKeeps ==
  ASSUME ExecsOK, NEW x \in Execs, exec[x].at # "idle"
  PROVE  (Leave(x) => ExecsOK') /\ (LeaveAcknowledged(x) => ExecsOK')
<1>1. exec[x] \in ExecType /\ exec[x].inst \in Instances
  BY DEF ExecsOK, ExecOK
<1>2. [exec[x] EXCEPT !.msg = FALSE] \in ExecType
      /\ [exec[x] EXCEPT !.msg = FALSE].inst \in Instances
  BY <1>1 DEF ExecType
<1>3. ExecOK(Leaving(exec[x])) /\ ExecOK(Leaving([exec[x] EXCEPT !.msg = FALSE]))
  BY <1>1, <1>2, LeavingOK
<1>4. Leave(x) => ExecsOK'
  BY <1>3, ExecStep DEF Leave
<1>5. LeaveAcknowledged(x) => ExecsOK'
  BY <1>3, ExecStep DEF LeaveAcknowledged
<1>. QED  BY <1>4, <1>5

LEMMA ConcludeKeeps ==
  ASSUME ExecsOK, NEW x \in Execs, exec[x].at \in Running,
         NEW at \in {"commit", "validated", "recover"}, NEW event \in Events,
         Conclude(x, at, event)
  PROVE  ExecsOK'
<1>1. exec[x].at # "idle"
  BY DEF Running
<1>. QED  BY <1>1, DecideKeeps, LeaveKeeps DEF Conclude

\* A handler that read the lease and the row
LEMMA HandleKeeps ==
  ASSUME IInv, NEW x \in Execs, NEW k \in Kinds, NEW i \in Instances, NEW m \in BOOLEAN,
         Handle(x, k, i, m)
  PROVE  ExecsOK'
<1>. DEFINE new == [IdleExec EXCEPT !.at = "lock", !.kind = k, !.inst = i, !.msg = m,
                                    !.lease = lease, !.seen = row.status]
<1>1. ExecOK(new)
  <2>1. IdleExec \in ExecType /\ "lock" \in AtType
    BY IdleExecOK DEF ExecOK, AtType
  <2>2. row.status \in Statuses /\ lease \in 0..MaxLeases /\ lease # 0
    BY TaskProcessingAssumption DEF IInv, RowOK, RowType, EnvironmentOK
  <2>3. new \in ExecType
    BY <2>1, <2>2 DEF ExecType
  <2>4. new.at = "lock" /\ new.inst = i /\ new.lease = lease
    BY <2>1 DEF ExecType
  <2>. QED  BY <2>2, <2>3, <2>4 DEF ExecOK, Running
<1>2. exec' = exec \/ exec' = [exec EXCEPT ![x] = new]
  BY DEF Handle
<1>3. CASE exec' = exec
  BY <1>3 DEF IInv, ExecsOK, ExecOK
<1>. QED  BY <1>1, <1>2, <1>3, ExecStep DEF IInv

\* After its transition an execution goes on, still with its lease, or leaves.
LEMMA AfterCommitOK ==
  ASSUME NEW e, ExecOK(e), e.at \in {"commit", "validated"}
  PROVE  ExecOK(AfterCommit(e))
<1>1. e \in ExecType /\ e.inst \in Instances /\ e.lease # 0
  BY DEF ExecOK, Running
<1>2. ExecOK(Leaving(e)) /\ ExecOK([Leaving(e) EXCEPT !.at = "cleanup"])
  BY <1>1, LeavingOK
<1>3. /\ ExecOK([e EXCEPT !.event = "fail"])
      /\ ExecOK([e EXCEPT !.at = "mtproto", !.event = "none"])
      /\ ExecOK([e EXCEPT !.at = "enqueue", !.event = "none"])
  BY <1>1 DEF ExecOK, ExecType, AtType, Running, Events
<1>. QED  BY <1>2, <1>3 DEF AfterCommit

LEMMA ProceedExecsOK ==
  ASSUME IInv, NEW x \in Execs, Proceed(x)
  PROVE  ExecsOK'
<1>. ExecsOK
  BY DEF IInv
<1>. USE DEF Running, AtType, MayGo, Events
<1>1. CASE AcquireLock(x)
  BY <1>1, GoKeeps DEF AcquireLock
<1>2. CASE LockBusy(x)
  BY <1>2, IdleExecOK, ExecStep DEF LockBusy
<1>3. CASE Start(x)
  BY <1>3, GoKeeps DEF Start
<1>4. CASE StartBlocked(x)
  BY <1>4, LeaveKeeps DEF StartBlocked
<1>5. CASE RepairUpload(x)
  BY <1>5, GoKeeps, LeaveKeeps DEF RepairUpload
<1>6. CASE Launch(x)
  <2>1. exec[x].kind \in {"download", "upload"}
    BY DEF ExecsOK, ExecOK, ExecType, Kinds
  <2>. QED  BY <1>6, <2>1, GoKeeps DEF Launch
<1>7. CASE UploadWithoutFile(x)
  BY <1>7, LeaveKeeps DEF UploadWithoutFile
<1>8. CASE NothingToDownload(x)
  BY <1>8, ConcludeKeeps DEF NothingToDownload
<1>9. CASE StartDirectTransfer(x)
  BY <1>9, GoKeeps, DecideKeeps, LeaveKeeps DEF StartDirectTransfer
<1>10. CASE DirectTransferDone(x)
  BY <1>10, DecideKeeps DEF DirectTransferDone
<1>11. CASE NoDirectTransfer(x)
  BY <1>11, GoKeeps DEF NoDirectTransfer
<1>12. CASE Downloaded(x)
  BY <1>12, ConcludeKeeps DEF Downloaded
<1>13. CASE Uploaded(x)
  BY <1>13, DecideKeeps, ConcludeKeeps DEF Uploaded
<1>14. CASE TransferFails(x)
  BY <1>14, DecideKeeps DEF TransferFails
<1>15. CASE Recover(x)
  BY <1>15, LeaveKeeps DEF Recover
<1>16. CASE Commit(x)
  <2>1. ExecOK(AfterCommit(exec[x]))
    BY <1>16, AfterCommitOK DEF Commit, ExecsOK
  <2>. QED  BY <1>16, <2>1, ExecStep DEF Commit
<1>17. CASE EnqueueUpload(x)
  BY <1>17, LeaveKeeps DEF EnqueueUpload
<1>18. CASE CleanUp(x)
  BY <1>18, GoKeeps DEF CleanUp
<1>19. CASE Release(x)
  BY <1>19, IdleExecOK, ExecStep DEF Release
<1>. QED  BY <1>1, <1>2, <1>3, <1>4, <1>5, <1>6, <1>7, <1>8, <1>9, <1>10, <1>11, <1>12,
             <1>13, <1>14, <1>15, <1>16, <1>17, <1>18, <1>19 DEF Proceed

\* The executions keep their part of the invariant in every step.
LEMMA NextExecsOK ==
  ASSUME IInv, Next
  PROVE  ExecsOK'
<1>. ExecsOK
  BY DEF IInv
<1>1. ASSUME NEW x \in Execs, NEW k \in Kinds, NEW i \in Instances, Deliver(x, k, i)
      PROVE  ExecsOK'
  BY <1>1, HandleKeeps DEF Deliver
<1>2. ASSUME NEW x \in Execs, TakeStaleLock(x) PROVE ExecsOK'
  BY <1>2, GoKeeps DEF TakeStaleLock, MayGo, AtType, Running
<1>3. ASSUME NEW x \in Execs, SetupFails(x) PROVE ExecsOK'
  BY <1>3, DecideKeeps, LeaveKeeps DEF SetupFails, Running, Events
<1>4. ASSUME NEW x \in Execs, Heartbeat(x) PROVE ExecsOK'
  <2>1. CASE UNCHANGED exec
    BY <2>1 DEF ExecsOK, ExecOK
  <2>2. CASE Decide(x, "commit", "fail") \/ Leave(x)
    BY <1>4, <2>2, DecideKeeps, LeaveKeeps DEF Heartbeat, Running, Events
  <2>. QED  BY <1>4, <2>1, <2>2 DEF Heartbeat
<1>5. ASSUME NEW x \in Execs, TransferInterrupted(x) PROVE ExecsOK'
  BY <1>5, DecideKeeps DEF TransferInterrupted, Running, Events
<1>14. ASSUME NEW x \in Execs, MediaUnreadable(x) PROVE ExecsOK'
  BY <1>14, LeaveKeeps DEF MediaUnreadable, Running
<1>6. ASSUME NEW x \in Execs, EnqueueUploadFails(x) PROVE ExecsOK'
  BY <1>6, DecideKeeps DEF EnqueueUploadFails, Running, Events
<1>7. ASSUME NEW a \in Agents, EnqueueFallsBack(a) PROVE ExecsOK'
  <2>1. CASE UNCHANGED exec
    BY <2>1 DEF ExecsOK, ExecOK
  <2>2. CASE \E x \in Execs : Handle(x, agent[a].kind, agent[a].inst, FALSE)
    <3>1. agent[a].kind \in Kinds /\ agent[a].inst \in Instances
      BY <1>7 DEF IInv, AgentsOK, AgentType, EnqueueFallsBack
    <3>. QED  BY <2>2, <3>1, HandleKeeps
  <2>. QED  BY <1>7, <2>1, <2>2 DEF EnqueueFallsBack
<1>8. ASSUME NEW i \in Instances, Crash(i) PROVE ExecsOK'
  BY <1>8, IdleExecOK DEF Crash, ExecsOK, ExecOK
<1>9. ASSUME UNCHANGED exec PROVE ExecsOK'
  BY <1>9 DEF ExecsOK, ExecOK
<1>10. ASSUME NEW a \in Agents, AgentProceeds(a) PROVE UNCHANGED exec
  BY <1>10 DEF AgentProceeds, AgentEnqueue, ScanReset, ScanDrops, AddMarkFailed, RetryUnlock,
               RetryTransition, CancelTransition
<1>11. ASSUME NEW i \in Instances,
              ScanRead(i) \/ RetryTask(i) \/ CancelTask(i) \/ LeaseTaken(i)
       PROVE  UNCHANGED exec
  BY <1>11 DEF ScanRead, RetryTask, CancelTask, Command, LeaseTaken
<1>12. ASSUME NEW k \in Kinds, Lose(k) \/ Redeliver(k) PROVE UNCHANGED exec
  BY <1>12 DEF Lose, Redeliver
<1>13. ASSUME GoesQuiet \/ GoesQuietEarly \/ FailureIsRetryable \/ AddEnqueueFails
                \/ LeaseLost \/ LockExpires \/ LockLost
       PROVE  UNCHANGED exec
  BY <1>13 DEF GoesQuiet, GoesQuietEarly, FailureIsRetryable, AddEnqueueFails, LeaseLost,
               LockExpires, LockLost
<1>. QED  BY <1>1, <1>2, <1>3, <1>4, <1>5, <1>6, <1>7, <1>8, <1>9, <1>10, <1>11, <1>12,
             <1>13, <1>14, ProceedExecsOK DEF Next

-----------------------------------------------------------------------------
(* Steps that write the row *)

\* What a step does to the row and to quiet
RowKept == RowStep /\ quiet' \in BOOLEAN

LEMMA ProceedRow ==
  ASSUME IInv, NEW x \in Execs, Proceed(x)
  PROVE  RowKept
<1>. ExecOK(exec[x]) /\ quiet \in BOOLEAN
  BY DEF IInv, RowOK, ExecsOK
<1>1. CASE Start(x)
  <2>1. StartEvent(exec[x].kind) \in {"start_download", "start_upload"}
    BY DEF StartEvent
  <2>2. exec[x].lease \in 1..MaxLeases
    BY <1>1, TaskProcessingAssumption DEF Start, ExecOK, ExecType
  <2>. QED  BY <1>1, <2>1, <2>2, ClaimingMoves DEF Start, RowKept
<1>2. CASE RepairUpload(x)
  <2>1. PICK event \in Unfenced : Plain(event)
    BY <1>2 DEF RepairUpload, Unfenced
  <2>. QED  BY <2>1, PlainMoves DEF RowKept
<1>3. CASE UploadWithoutFile(x) \/ Recover(x) \/ Commit(x)
  <2>1. PICK event \in Events : Fenced(event, exec[x].lease) /\ exec[x].lease # 0
    BY <1>3 DEF UploadWithoutFile, Recover, Commit, ExecOK, Events, Running
  <2>. QED  BY <2>1, FencedMoves DEF RowKept
<1>4. CASE StartDirectTransfer(x)
  <2>1. CASE Fenced("start_stream_upload", exec[x].lease)
    <3>1. exec[x].lease # 0
      BY <1>4 DEF StartDirectTransfer, ExecOK, Running
    <3>. QED  BY <2>1, <3>1, FencedMoves DEF RowKept, Events
  <2>. QED  BY <1>4, <2>1 DEF StartDirectTransfer, RowKept, RowStep
<1>5. CASE UNCHANGED <<row, quiet>>
  BY <1>5 DEF RowKept, RowStep
<1>. QED
  BY <1>1, <1>2, <1>3, <1>4, <1>5
     DEF Proceed, AcquireLock, LockBusy, StartBlocked, Launch, NothingToDownload,
         DirectTransferDone, NoDirectTransfer, Downloaded, Uploaded, TransferFails,
         EnqueueUpload, CleanUp, Release

LEMMA NextRow ==
  ASSUME IInv, Next
  PROVE  RowKept
<1>. quiet \in BOOLEAN /\ ExecsOK
  BY DEF IInv, RowOK
<1>1. CASE UNCHANGED <<row, quiet>>
  BY <1>1 DEF RowKept, RowStep
<1>2. CASE row' = row /\ quiet' = TRUE
  BY <1>2 DEF RowKept, RowStep
<1>3. ASSUME NEW event \in Unfenced, Plain(event) PROVE RowKept
  BY <1>3, PlainMoves DEF RowKept
<1>4. ASSUME NEW event \in Events, NEW l, l # 0, Fenced(event, l) PROVE RowKept
  BY <1>4, FencedMoves DEF RowKept
<1>5. ASSUME NEW x \in Execs, NEW k \in Kinds, NEW i \in Instances, Deliver(x, k, i)
      PROVE  RowKept
  BY <1>1, <1>5 DEF Deliver
<1>6. ASSUME NEW x \in Execs, SetupFails(x) PROVE RowKept
  <2>1. exec[x].lease # 0
    BY <1>6 DEF SetupFails, ExecsOK, ExecOK, Running
  <2>. QED  BY <1>1, <1>4, <1>6, <2>1 DEF SetupFails, Events
<1>7. ASSUME NEW x \in Execs, Heartbeat(x) PROVE RowKept
  <2>1. exec[x].lease # 0
    BY <1>7 DEF Heartbeat, ExecsOK, ExecOK, Running
  <2>2. PICK event \in HeartbeatEvents(exec[x]) : Fenced(event, exec[x].lease)
    BY <1>7 DEF Heartbeat
  <2>3. event \in Events
    BY DEF HeartbeatEvents, Events
  <2>. QED  BY <1>4, <2>1, <2>2, <2>3
<1>8. ASSUME NEW a \in Agents, EnqueueFallsBack(a) PROVE RowKept
  BY <1>1, <1>3, <1>8 DEF EnqueueFallsBack, Unfenced
<1>9. CASE ScanReset
  BY <1>3, <1>9 DEF ScanReset, ScanEvent, Unfenced
<1>10. CASE AddMarkFailed \/ RetryTransition \/ CancelTransition
  BY <1>3, <1>10 DEF AddMarkFailed, RetryTransition, CancelTransition, Unfenced
<1>11. ASSUME NEW a \in Agents, AgentEnqueue(a) \/ ScanDrops \/ RetryUnlock
       PROVE  RowKept
  BY <1>1, <1>11 DEF AgentEnqueue, ScanDrops, RetryUnlock
<1>12. ASSUME NEW i \in Instances,
              ScanRead(i) \/ RetryTask(i) \/ CancelTask(i) \/ LeaseTaken(i) \/ Crash(i)
       PROVE  RowKept
  BY <1>1, <1>12 DEF ScanRead, RetryTask, CancelTask, Command, LeaseTaken, Crash
<1>13. ASSUME NEW k \in Kinds, Lose(k) \/ Redeliver(k) PROVE RowKept
  BY <1>1, <1>13 DEF Lose, Redeliver
<1>14. CASE AddEnqueueFails \/ LeaseLost \/ LockExpires \/ LockLost
  BY <1>1, <1>14 DEF AddEnqueueFails, LeaseLost, LockExpires, LockLost
<1>15. CASE GoesQuiet \/ GoesQuietEarly \/ FailureIsRetryable
  BY <1>2, <1>15 DEF GoesQuiet, GoesQuietEarly, FailureIsRetryable
<1>16. ASSUME NEW a \in Agents, AgentProceeds(a) PROVE RowKept
  BY <1>1, <1>9, <1>10, <1>11, <1>16 DEF AgentProceeds
<1>17. ASSUME NEW x \in Execs,
              \/ TakeStaleLock(x) \/ TransferInterrupted(x) \/ MediaUnreadable(x)
              \/ EnqueueUploadFails(x)
       PROVE  RowKept
  BY <1>1, <1>17 DEF TakeStaleLock, TransferInterrupted, MediaUnreadable, EnqueueUploadFails
<1>. QED  BY <1>5, <1>6, <1>7, <1>8, <1>12, <1>13, <1>14, <1>15, <1>16, <1>17, ProceedRow
          DEF Next

-----------------------------------------------------------------------------
(* The scan, the user, and everything around the executions *)

\* The agents keep their part of the invariant in every step.
LEMMA NextAgentsOK ==
  ASSUME IInv, Next
  PROVE  AgentsOK'
<1>. AgentsOK
  BY DEF IInv
<1>. USE DEF AgentsOK, AgentType, Agents, Kinds, IdleAgent, AgentGoto, AgentDone
<1>1. CASE UNCHANGED agent
  BY <1>1
<1>2. ASSUME NEW a \in Agents, AgentDone(a) PROVE AgentsOK'
  BY <1>2
<1>3. ASSUME NEW x \in Execs, Proceed(x) PROVE AgentsOK'
  BY <1>1, <1>3
     DEF Proceed, AcquireLock, LockBusy, Start, StartBlocked, RepairUpload, Launch,
         UploadWithoutFile, NothingToDownload, StartDirectTransfer, DirectTransferDone,
         NoDirectTransfer, Downloaded, Uploaded, TransferFails, Recover, Commit,
         EnqueueUpload, CleanUp, Release
<1>4. ASSUME NEW x \in Execs, NEW k \in Kinds, NEW i \in Instances, Deliver(x, k, i)
      PROVE  AgentsOK'
  BY <1>1, <1>4 DEF Deliver
<1>5. ASSUME NEW x \in Execs,
             TakeStaleLock(x) \/ SetupFails(x) \/ Heartbeat(x) \/ TransferInterrupted(x)
               \/ MediaUnreadable(x) \/ EnqueueUploadFails(x)
      PROVE  AgentsOK'
  BY <1>1, <1>5 DEF TakeStaleLock, SetupFails, Heartbeat, TransferInterrupted, MediaUnreadable,
                    EnqueueUploadFails
<1>6. ASSUME NEW a \in Agents, AgentEnqueue(a) \/ EnqueueFallsBack(a) PROVE AgentsOK'
  BY <1>2, <1>6 DEF AgentEnqueue, EnqueueFallsBack
<1>7. CASE ScanReset
  BY <1>7 DEF ScanReset, Statuses
<1>8. CASE ScanDrops \/ AddMarkFailed \/ CancelTransition
  BY <1>2, <1>8 DEF ScanDrops, AddMarkFailed, CancelTransition
<1>9. CASE RetryUnlock
  BY <1>9 DEF RetryUnlock
<1>10. CASE RetryTransition
  BY <1>2, <1>10 DEF RetryTransition
<1>11. CASE AddEnqueueFails
  BY <1>11 DEF AddEnqueueFails
<1>12. ASSUME NEW i \in Instances, ScanRead(i) PROVE AgentsOK'
  <2>1. row.status \in Statuses
    BY DEF IInv, RowOK, RowType
  <2>. QED  BY <1>12, <2>1 DEF ScanRead
<1>13. ASSUME NEW i \in Instances, RetryTask(i) \/ CancelTask(i) PROVE AgentsOK'
  <2>1. PICK at \in {"unlock", "cancel"} : Command(i, at)
    BY <1>13 DEF RetryTask, CancelTask
  <2>. QED  BY <2>1 DEF Command
<1>14. ASSUME NEW i \in Instances, LeaseTaken(i) PROVE AgentsOK'
  BY <1>1, <1>14 DEF LeaseTaken
<1>15. ASSUME NEW i \in Instances, Crash(i) PROVE AgentsOK'
  BY <1>15 DEF Crash
<1>16. ASSUME NEW k \in Kinds, Lose(k) \/ Redeliver(k) PROVE AgentsOK'
  BY <1>1, <1>16 DEF Lose, Redeliver
<1>17. CASE GoesQuiet \/ GoesQuietEarly \/ FailureIsRetryable \/ LeaseLost \/ LockExpires
              \/ LockLost
  BY <1>1, <1>17 DEF GoesQuiet, GoesQuietEarly, FailureIsRetryable, LeaseLost, LockExpires,
                     LockLost
<1>18. ASSUME NEW a \in Agents, AgentProceeds(a) PROVE AgentsOK'
  BY <1>6, <1>7, <1>8, <1>9, <1>10, <1>18 DEF AgentProceeds
<1>. QED  BY <1>3, <1>4, <1>5, <1>6, <1>11, <1>12, <1>13, <1>14, <1>15, <1>16, <1>17, <1>18
          DEF Next

LEMMA EnqueueOK ==
  ASSUME queue \in [Kinds -> 0..MaxMessages], NEW k \in Kinds, Enqueue(k)
  PROVE  queue' \in [Kinds -> 0..MaxMessages]
<1>1. (IF queue[k] < MaxMessages THEN queue[k] + 1 ELSE queue[k]) \in 0..MaxMessages
  BY TaskProcessingAssumption
<1>. QED  BY <1>1 DEF Enqueue

LEMMA IncidentOK ==
  ASSUME incidents \in 0..MaxIncidents, NEW k, Incident(k)
  PROVE  incidents' \in 0..MaxIncidents
BY TaskProcessingAssumption DEF Incident

\* The queue, the leases, the lock and the files stay what they are.
LEMMA ProceedEnvironmentOK ==
  ASSUME IInv, NEW x \in Execs, Proceed(x)
  PROVE  EnvironmentOK'
<1>. EnvironmentOK /\ ExecOK(exec[x])
  BY DEF IInv, ExecsOK
<1>. USE DEF EnvironmentOK
<1>1. CASE UNCHANGED <<queue, leader, lease, lock, files, incidents>>
  BY <1>1
<1>2. CASE AcquireLock(x)
  BY <1>2 DEF AcquireLock, ExecOK
<1>3. CASE LockBusy(x)
  <2>1. exec[x].kind \in Kinds
    BY DEF ExecOK, ExecType
  <2>. QED  BY <1>3, <2>1, EnqueueOK DEF LockBusy
<1>4. CASE Downloaded(x)
  BY <1>4 DEF Downloaded, ExecOK
<1>5. CASE EnqueueUpload(x)
  BY <1>5, EnqueueOK DEF EnqueueUpload, Kinds
<1>6. CASE CleanUp(x)
  BY <1>6 DEF CleanUp
<1>7. CASE Release(x)
  <2>1. exec[x].kind \in Kinds
    BY DEF ExecOK, ExecType
  <2>. QED  BY <1>7, <2>1, EnqueueOK DEF Release
<1>. QED
  BY <1>1, <1>2, <1>3, <1>4, <1>5, <1>6, <1>7
     DEF Proceed, Start, StartBlocked, RepairUpload, Launch, UploadWithoutFile,
         NothingToDownload, StartDirectTransfer, DirectTransferDone, NoDirectTransfer,
         Uploaded, TransferFails, Recover, Commit

\* Redelivered messages are counted up to the bound.
LEMMA CrashEnvironmentOK ==
  ASSUME EnvironmentOK, NEW i \in Instances, Crash(i)
  PROVE  EnvironmentOK'
<1>. DEFINE dead == {x \in Execs : exec[x].inst = i}
            n(k) == queue[k] + Cardinality({x \in dead : exec[x].msg /\ exec[x].kind = k})
<1>1. queue' = [k \in Kinds |-> IF n(k) < MaxMessages THEN n(k) ELSE MaxMessages]
  BY DEF Crash
<1>2. incidents' \in 0..MaxIncidents
  BY IncidentOK DEF Crash, EnvironmentOK
<1>3. files' \subseteq Instances
  BY DEF Crash, EnvironmentOK
<1>4. ASSUME NEW k \in Kinds PROVE n(k) \in Nat
  <2>1. IsFiniteSet({x \in dead : exec[x].msg /\ exec[x].kind = k})
    BY TaskProcessingAssumption, FS_Subset
  <2>2. Cardinality({x \in dead : exec[x].msg /\ exec[x].kind = k}) \in Nat
    BY <2>1, FS_CardinalityType
  <2>. QED  BY <2>2 DEF EnvironmentOK
<1>5. queue' \in [Kinds -> 0..MaxMessages]
  BY <1>1, <1>4, TaskProcessingAssumption
<1>. QED  BY <1>2, <1>3, <1>5 DEF Crash, EnvironmentOK

LEMMA NextEnvironmentOK ==
  ASSUME IInv, Next
  PROVE  EnvironmentOK'
<1>. EnvironmentOK /\ ExecsOK /\ AgentsOK
  BY DEF IInv
<1>. USE DEF EnvironmentOK
<1>1. ASSUME NEW x \in Execs, NEW k \in Kinds, NEW i \in Instances, Deliver(x, k, i)
      PROVE  EnvironmentOK'
  <2>1. queue' \in [Kinds -> 0..MaxMessages]
    BY <1>1, TaskProcessingAssumption DEF Deliver
  <2>. QED  BY <1>1, <2>1 DEF Deliver
<1>2. ASSUME NEW x \in Execs, TakeStaleLock(x) PROVE EnvironmentOK'
  BY <1>2, IncidentOK DEF TakeStaleLock, ExecsOK, ExecOK, NoIncident
<1>3. ASSUME NEW x \in Execs, SetupFails(x) \/ TransferInterrupted(x) \/ MediaUnreadable(x)
      PROVE  EnvironmentOK'
  BY <1>3, IncidentOK DEF SetupFails, TransferInterrupted, MediaUnreadable
<1>4. ASSUME NEW x \in Execs, Heartbeat(x) PROVE EnvironmentOK'
  BY <1>4 DEF Heartbeat
<1>5. ASSUME NEW x \in Execs, EnqueueUploadFails(x) PROVE EnvironmentOK'
  BY <1>5, EnqueueOK, IncidentOK DEF EnqueueUploadFails, Kinds
<1>6. ASSUME NEW a \in Agents, AgentEnqueue(a) PROVE EnvironmentOK'
  <2>1. agent[a].kind \in Kinds
    BY DEF AgentsOK, AgentType
  <2>. QED  BY <1>6, <2>1, EnqueueOK DEF AgentEnqueue
<1>7. ASSUME NEW a \in Agents, EnqueueFallsBack(a) PROVE EnvironmentOK'
  BY <1>7, IncidentOK DEF EnqueueFallsBack
<1>8. CASE ScanReset
  BY <1>8, IncidentOK DEF ScanReset, NoIncident
<1>9. CASE ScanDrops \/ AddMarkFailed \/ RetryTransition \/ CancelTransition
  BY <1>9 DEF ScanDrops, AddMarkFailed, RetryTransition, CancelTransition
<1>10. CASE RetryUnlock
  BY <1>10 DEF RetryUnlock
<1>11. ASSUME NEW a \in Agents, AgentProceeds(a) PROVE EnvironmentOK'
  BY <1>6, <1>8, <1>9, <1>10, <1>11 DEF AgentProceeds
<1>12. ASSUME NEW i \in Instances, ScanRead(i) PROVE EnvironmentOK'
  BY <1>12 DEF ScanRead
<1>13. ASSUME NEW i \in Instances, RetryTask(i) \/ CancelTask(i) PROVE EnvironmentOK'
  BY <1>13, IncidentOK DEF RetryTask, CancelTask, Command
<1>14. ASSUME NEW i \in Instances, LeaseTaken(i) PROVE EnvironmentOK'
  BY <1>14, TaskProcessingAssumption DEF LeaseTaken
<1>15. ASSUME NEW k \in Kinds, Lose(k) \/ Redeliver(k) PROVE EnvironmentOK'
  <2>1. incidents' \in 0..MaxIncidents
    BY <1>15, IncidentOK DEF Lose, Redeliver
  <2>2. queue' \in [Kinds -> 0..MaxMessages]
    BY <1>15, TaskProcessingAssumption DEF Lose, Redeliver
  <2>. QED  BY <1>15, <2>1, <2>2 DEF Lose, Redeliver
<1>16. CASE GoesQuiet \/ GoesQuietEarly \/ FailureIsRetryable
  BY <1>16, IncidentOK DEF GoesQuiet, GoesQuietEarly, FailureIsRetryable
<1>17. CASE AddEnqueueFails
  BY <1>17, IncidentOK, EnqueueOK DEF AddEnqueueFails, Kinds
<1>18. CASE LeaseLost \/ LockExpires \/ LockLost
  BY <1>18, IncidentOK DEF LeaseLost, LockExpires, LockLost
<1>. QED  BY <1>1, <1>2, <1>3, <1>4, <1>5, <1>7, <1>11, <1>12, <1>13, <1>14, <1>15, <1>16,
             <1>17, <1>18, ProceedEnvironmentOK, CrashEnvironmentOK DEF Next

-----------------------------------------------------------------------------
(* The invariant is inductive *)

LEMMA InitIInv == Init => IInv
<1>. SUFFICES ASSUME Init PROVE IInv
  OBVIOUS
<1>1. RowOK
  <2>1. row = [status |-> "queued", claim |-> 0] /\ quiet = FALSE
    BY DEF Init
  <2>2. 0 \in 0..MaxLeases
    BY TaskProcessingAssumption
  <2>. QED  BY <2>1, <2>2 DEF RowOK, RowType, ClaimMatchesStatus, ClaimFree, Statuses
<1>2. ExecsOK
  BY IdleExecOK DEF Init, ExecsOK, ExecOK
<1>3. AgentsOK
  <2>1. IdleAgent \in AgentType /\ IdleAgent.at = "idle"
    BY DEF AgentType, IdleAgent, Kinds
  <2>2. PICK j \in Instances :
          agent = [a \in Agents |-> IF a = "user" THEN [IdleAgent EXCEPT !.at = "add", !.inst = j]
                                    ELSE IdleAgent]
    BY DEF Init
  <2>. QED  BY <2>1, <2>2 DEF AgentsOK, AgentType
<1>4. EnvironmentOK
  BY TaskProcessingAssumption DEF Init, EnvironmentOK
<1>. QED  BY <1>1, <1>2, <1>3, <1>4 DEF IInv

LEMMA NextIInv == IInv /\ [Next]_vars => IInv'
<1>1. ASSUME IInv, Next PROVE IInv'
  <2>1. RowOK'
    BY <1>1, NextRow, RowStepKeeps DEF IInv, RowKept
  <2>. QED  BY <1>1, <2>1, NextExecsOK, NextAgentsOK, NextEnvironmentOK DEF IInv
<1>2. ASSUME IInv, UNCHANGED vars PROVE IInv'
  BY <1>2 DEF vars, IInv, RowOK, ClaimMatchesStatus, ExecsOK, ExecOK, AgentsOK, EnvironmentOK
<1>. QED  BY <1>1, <1>2

LEMMA AlwaysIInv == Spec => []IInv
BY InitIInv, NextIInv, PTL DEF Spec

\* Types: in particular an execution, whenever it looks at it, has an instance,
\* a lease and an event that exist.
THEOREM TypeCorrect == Spec => []TypeOK
<1>1. IInv => TypeOK
  BY IInvImplies
<1>. QED  BY <1>1, AlwaysIInv, PTL

\* A row carries a claim exactly while it is worked on, so that a missing claim
\* really means that nobody works on the task (_canRecoverStaleTaskProcessingLock).
THEOREM RunningIsClaimed == Spec => []ClaimMatchesStatus
<1>1. IInv => ClaimMatchesStatus
  BY IInvImplies
<1>. QED  BY <1>1, AlwaysIInv, PTL

-----------------------------------------------------------------------------
(* What a step may do to the row *)

LEMMA EveryStepIsRowStep == IInv /\ [Next]_vars => RowStep
<1>1. IInv /\ Next => RowStep
  BY NextRow DEF RowKept
<1>2. UNCHANGED vars => RowStep
  BY DEF vars, RowStep
<1>. QED  BY <1>1, <1>2

\* No execution, scan or command, however late, revives a task that ended, but
\* by queueing a failed one again.
THEOREM EndedIsFinal == Spec => EndedStaysEnded
<1>. DEFINE Kept == /\ row.status \in {"completed", "cancelled"} => row'.status = row.status
                    /\ row.status = "failed" => row'.status \in {"failed", "queued"}
<1>1. ASSUME IInv, RowStep PROVE Kept
  <2>1. ASSUME NEW event \in Events, Moved(event) PROVE Kept
    <3>1. row.status = "failed" => event \in Unfenced
      BY <1>1, <2>1 DEF Moved, IInv, RowOK, ClaimMatchesStatus, ClaimFree, TerminalStatuses
    <3>2. row'.status = TargetStatus[event]
      BY <2>1 DEF Moved
    <3>. QED  BY <2>1, <3>1, <3>2
              DEF Moved, Unfenced, Events, Allowed, AllowedFrom, ActiveStatuses, TargetStatus
  <2>2. ASSUME NEW event \in Events, Claimed(event) PROVE Kept
    BY <2>2 DEF Claimed, Allowed, AllowedFrom, TargetStatus
  <2>3. CASE row' = row
    BY <2>3
  <2>. QED  BY <1>1, <2>1, <2>2, <2>3 DEF RowStep
<1>2. IInv /\ [Next]_vars => [Kept]_vars
  BY <1>1, EveryStepIsRowStep
<1>. QED  BY <1>2, AlwaysIInv, PTL DEF Spec, EndedStaysEnded

\* The variables keep their types, and the row has a claim exactly while it is
\* worked on.
THEOREM ProcessingIsSafe == Spec => []ProcessingSafe
<1>1. IInv => ProcessingSafe
  BY IInvImplies DEF ProcessingSafe
<1>. QED  BY <1>1, AlwaysIInv, PTL

-----------------------------------------------------------------------------
(* DirectTransfer: the inductive invariant *)

Attempting == 1..MaxAttempts

Piping == {"call", "attempt", "feed", "wait", "look", "tidy", "move"}

\* What is known of an attempt's rclone and of what it has stored: it ends only
\* in the attempt that waits for it, and once it is done its file is as long as
\* what was written to it.
PipeOK(t) ==
  LET d == dt[t] IN
  /\ d.at = "wait" => Mine(t) \in {"ended", "broken", "done"}
  /\ d.at \in {"look", "move", "tidy"} => Mine(t) = "done"
  /\ d.at \in {"look", "move"} \/ (d.at = "wait" /\ Mine(t) = "done")
       => stage[t][d.n] = d.sent
  /\ \A m \in Attempting : rclone[t][m] = "ended" => m = d.n /\ d.at = "wait"

\* What was written is the whole file, unless its source ended early.
SentOK(t) ==
  /\ dt[t].at \in {"wait", "look", "move"} => dt[t].sent = Size[t] \/ t \in short
  /\ dt[t].at \in Piping => ~dt[t].moved
  /\ dt[t].found => dt[t].at \in {"attempt", "existing", "skipped"}

\* A staging file is that of the attempt under way, or known to be left behind.
StageOK(t) ==
  \A m \in Attempting : stage[t][m] # 0 =>
    \/ <<t, m>> \in leftover
    \/ m = dt[t].n /\ dt[t].at \in {"wait", "look", "tidy", "move", "fail"} /\ ~dt[t].moved

\* A file that was found in its place was there, and is unless it was replaced.
SeenOK(t) ==
  dt[t].at \in {"tidy", "stored", "existing"} \/ (dt[t].at = "attempt" /\ dt[t].found)
    => final.len = Size[t] \/ t \in replaced

TransferOK(t) == PipeOK(t) /\ SentOK(t) /\ StageOK(t) /\ SeenOK(t)

DirectInv == DirectTypeOK /\ FinalIsWhole /\ \A t \in Transfers : TransferOK(t)

LEMMA InitDirectInv == DirectInit => DirectInv
BY DirectAssumption
   DEF DirectInit, DirectInv, DirectTypeOK, FinalIsWhole, TransferOK, PipeOK, SentOK, StageOK,
       SeenOK, NoFile, Closed, Why, Mine, Attempting, Piping

-----------------------------------------------------------------------------
(* What a step of one transfer leaves alone *)

LEMMA OtherTransfer ==
  ASSUME DirectTypeOK, NEW t \in Transfers, TransferStep(t), NEW u \in Transfers, u # t
  PROVE  /\ dt'[u] = dt[u] /\ stage'[u] = stage[u] /\ rclone'[u] = rclone[u]
         /\ short \subseteq short' /\ leftover \subseteq leftover'
         /\ u \in replaced' \/ (final' = final /\ u \notin replaced)
<1> USE DEF DirectTypeOK, MovesOn, FailsWith, Rclone, Mine
<1>1. CASE Call(t)  BY <1>1 DEF Call
<1>2. CASE FindExisting(t) \/ OpenRcat(t) \/ OpenRcatFails(t) \/ Feed(t)
  BY <1>2 DEF FindExisting, OpenRcat, OpenRcatFails, Feed
<1>3. CASE SourceEnds(t) \/ SourceFails(t) \/ RcloneBreaks(t) \/ PipeFails(t) \/ Cancelled(t)
  BY <1>3 DEF SourceEnds, SourceFails, RcloneBreaks, PipeFails, Cancelled
<1>4. CASE RcloneStores(t) \/ RcloneDies(t) \/ RcloneCompletes(t)
  BY <1>4 DEF RcloneStores, RcloneDies, RcloneCompletes
<1>5. CASE LookBeforeMove(t)  BY <1>5 DEF LookBeforeMove
<1>6. CASE TidyExisting(t) \/ DropStaging(t)  BY <1>6 DEF TidyExisting, DropStaging, Deletes
<1>7. CASE Move(t)  BY <1>7 DEF Move
<1>8. CASE MoveFails(t) \/ TryAgain(t) \/ Give(t)  BY <1>8 DEF MoveFails, TryAgain, Give
<1>9. CASE AwaitValidation(t)  BY <1>9 DEF AwaitValidation
<1> QED  BY <1>1, <1>2, <1>3, <1>4, <1>5, <1>6, <1>7, <1>8, <1>9 DEF TransferStep

LEMMA OtherKept ==
  ASSUME DirectInv, NEW t \in Transfers, TransferStep(t), NEW u \in Transfers, u # t
  PROVE  TransferOK(u)'
<1>1. /\ dt'[u] = dt[u] /\ stage'[u] = stage[u] /\ rclone'[u] = rclone[u]
      /\ short \subseteq short' /\ leftover \subseteq leftover'
      /\ u \in replaced' \/ (final' = final /\ u \notin replaced)
  BY OtherTransfer DEF DirectInv
<1>2. TransferOK(u)  BY DEF DirectInv
<1>3. PipeOK(u)'  BY <1>1, <1>2 DEF TransferOK, PipeOK, Mine
<1>4. SentOK(u)'  BY <1>1, <1>2 DEF TransferOK, SentOK
<1>5. StageOK(u)'  BY <1>1, <1>2 DEF TransferOK, StageOK
<1>6. SeenOK(u)'  BY <1>1, <1>2 DEF TransferOK, SeenOK
<1> QED  BY <1>3, <1>4, <1>5, <1>6 DEF TransferOK

-----------------------------------------------------------------------------
(* Types *)

Labels == {"call", "attempt", "feed", "wait", "look", "tidy", "move", "validate", "fail",
           "again"} \cup Closed

Records == [at : Labels, n : Attempting, sent : Nat, found : BOOLEAN, moved : BOOLEAN, why : Why]

RcloneStates == {"none", "reads", "ended", "done", "broken", "killed", "gone"}

LEMMA Typed ==
  DirectTypeOK <=>
    /\ final \in [by : Transfers \cup {None}, len : Nat]
    /\ stage \in [Transfers -> [Attempting -> Nat]]
    /\ rclone \in [Transfers -> [Attempting -> RcloneStates]]
    /\ dt \in [Transfers -> Records]
    /\ short \subseteq Transfers /\ replaced \subseteq Transfers
    /\ leftover \subseteq Transfers \X Attempting
    /\ troubles \in 0..MaxTroubles
BY DEF DirectTypeOK, Records, Labels, RcloneStates, Attempting

LEMMA RecordStep ==
  ASSUME DirectTypeOK, NEW t \in Transfers, TransferStep(t)
  PROVE  dt' \in [Transfers -> Records]
<1>0. dt \in [Transfers -> Records]  BY Typed
<1>1. ASSUME NEW label \in Labels, MovesOn(t, label)  PROVE dt' \in [Transfers -> Records]
  BY <1>0, <1>1 DEF MovesOn, Records
<1>2. ASSUME NEW why \in Why, FailsWith(t, why)  PROVE dt' \in [Transfers -> Records]
  BY ZenonT(30), <1>0, <1>2 DEF FailsWith, Records, Labels
<1>3. /\ {"feed", "wait", "look", "tidy", "move", "validate", "stored", "existing", "again",
         "cancelled", "failed", "fell back", "fail", "skipped", "attempt"} \subseteq Labels
      /\ {"source", "rclone", "cancelled"} \subseteq Why
  BY DEF Labels, Closed, Why
<1>4. CASE Call(t)
  <2>1. PICK label \in {"skipped", "attempt"}, found \in BOOLEAN :
          dt' = [dt EXCEPT ![t].at = label, ![t].found = found]
    BY <1>4 DEF Call
  <2> QED  BY <1>0, <1>3, <2>1 DEF Records
<1>5. CASE Feed(t)  BY <1>0, <1>5 DEF Records, Feed
<1>6. CASE Move(t)
  <2>1. CASE FailsWith(t, "rclone")  BY <1>3, <1>2, <2>1
  <2>2. CASE dt' = [dt EXCEPT ![t].at = "validate", ![t].moved = TRUE]
    BY <1>0, <1>3, <2>2 DEF Records
  <2> QED  BY <1>6, <2>1, <2>2 DEF Move
<1>7. CASE TryAgain(t)
  <2>1. dt[t].n + 1 \in Attempting /\ dt[t].found \in BOOLEAN
    BY <1>0, <1>7, DirectAssumption DEF TryAgain, MoreAttempts, Attempting, Records
  <2> QED  BY <1>0, <1>3, <1>7, <2>1 DEF TryAgain, Records, Why
<1>8. CASE FindExisting(t) \/ OpenRcat(t) \/ OpenRcatFails(t)
  BY <1>1, <1>2, <1>3, <1>8 DEF FindExisting, OpenRcat, OpenRcatFails
<1>9. CASE SourceEnds(t) \/ SourceFails(t) \/ RcloneBreaks(t) \/ PipeFails(t) \/ Cancelled(t)
  BY <1>0, <1>1, <1>2, <1>3, <1>9 DEF SourceEnds, SourceFails, RcloneBreaks, PipeFails, Cancelled
<1>10. CASE RcloneStores(t) \/ RcloneDies(t) \/ RcloneCompletes(t)
  BY <1>0, <1>1, <1>2, <1>3, <1>10 DEF RcloneStores, RcloneDies, RcloneCompletes
<1>11. CASE LookBeforeMove(t)  BY <1>1, <1>2, <1>3, <1>11 DEF LookBeforeMove
<1>12. CASE TidyExisting(t) \/ DropStaging(t)  BY <1>1, <1>3, <1>12 DEF TidyExisting, DropStaging
<1>13. CASE MoveFails(t) \/ Give(t)  BY <1>1, <1>2, <1>3, <1>13 DEF MoveFails, Give
<1>14. CASE AwaitValidation(t)  BY <1>1, <1>2, <1>3, <1>14 DEF AwaitValidation
<1> QED  BY <1>4, <1>5, <1>6, <1>7, <1>8, <1>9, <1>10, <1>11, <1>12, <1>13, <1>14 DEF TransferStep

\* The file under the final name is only changed by a move.
LEMMA FinalStep ==
  ASSUME NEW t \in Transfers, TransferStep(t)
  PROVE  Move(t) \/ UNCHANGED final
BY DEF TransferStep, Call, FindExisting, OpenRcat, OpenRcatFails, Feed, SourceEnds, SourceFails,
       RcloneBreaks, PipeFails, Cancelled, RcloneStores, RcloneDies, RcloneCompletes,
       LookBeforeMove, TidyExisting, MoveFails, AwaitValidation, DropStaging, TryAgain, Give

LEMMA DirectTypeStep ==
  ASSUME DirectTypeOK, NEW t \in Transfers, TransferStep(t)
  PROVE  DirectTypeOK'
<1>0. /\ stage \in [Transfers -> [Attempting -> Nat]]
      /\ rclone \in [Transfers -> [Attempting -> RcloneStates]]
      /\ dt \in [Transfers -> Records] /\ dt[t].n \in Attempting /\ dt[t].sent \in Nat
      /\ final \in [by : Transfers \cup {None}, len : Nat]
      /\ short \subseteq Transfers /\ replaced \subseteq Transfers
      /\ leftover \subseteq Transfers \X Attempting
      /\ troubles \in 0..MaxTroubles
  <2>1. dt \in [Transfers -> Records]  BY Typed
  <2> QED  BY <2>1, Typed DEF Records
<1>1. dt' \in [Transfers -> Records]  BY RecordStep
<1>2. troubles' \in 0..MaxTroubles
  <2>1. troubles' = troubles \/ Trouble
    BY DEF TransferStep, Call, FindExisting, OpenRcat, OpenRcatFails, Feed, SourceEnds,
           SourceFails, RcloneBreaks, PipeFails, Cancelled, RcloneStores, RcloneDies,
           RcloneCompletes, LookBeforeMove, TidyExisting, Move, MoveFails, AwaitValidation,
           DropStaging, TryAgain, Give, LooksUp, Deletes
  <2> QED  BY <1>0, <2>1, DirectAssumption DEF Trouble
<1>3. final' \in [by : Transfers \cup {None}, len : Nat]
  <2>1. CASE Move(t)  BY <1>0, <2>1 DEF Move
  <2> QED  BY <1>0, <2>1, FinalStep
<1>4. /\ short' \subseteq Transfers /\ replaced' \subseteq Transfers
      /\ leftover' \subseteq Transfers \X Attempting
  <2>1. short' \in {short, short \cup {t}}
    BY DEF TransferStep, Call, FindExisting, OpenRcat, OpenRcatFails, Feed, SourceEnds,
           SourceFails, RcloneBreaks, PipeFails, Cancelled, RcloneStores, RcloneDies,
           RcloneCompletes, LookBeforeMove, TidyExisting, Move, MoveFails, AwaitValidation,
           DropStaging, TryAgain, Give
  <2>2. replaced' \in {replaced, replaced \ {t}, replaced \cup (Transfers \ {t})}
    BY DEF TransferStep, Call, FindExisting, OpenRcat, OpenRcatFails, Feed, SourceEnds,
           SourceFails, RcloneBreaks, PipeFails, Cancelled, RcloneStores, RcloneDies,
           RcloneCompletes, LookBeforeMove, TidyExisting, Move, MoveFails, AwaitValidation,
           DropStaging, TryAgain, Give
  <2>3. leftover' = leftover \/ \E m \in Attempting : leftover' = leftover \cup {<<t, m>>}
    BY <1>0
       DEF TransferStep, Call, FindExisting, OpenRcat, OpenRcatFails, Feed, SourceEnds,
           SourceFails, RcloneBreaks, PipeFails, Cancelled, RcloneStores, RcloneDies,
           RcloneCompletes, LookBeforeMove, TidyExisting, Move, MoveFails, AwaitValidation,
           DropStaging, TryAgain, Give, Deletes, Attempting
  <2> QED  BY <1>0, <2>1, <2>2, <2>3
<1>5. stage' \in [Transfers -> [Attempting -> Nat]]
  <2>1. stage' = stage \/ \E m \in Attempting, len \in Nat : stage' = [stage EXCEPT ![t][m] = len]
    <3>1. CASE RcloneStores(t)  BY <1>0, <3>1 DEF RcloneStores, Attempting
    <3>2. CASE RcloneDies(t)  BY <1>0, <3>2 DEF RcloneDies, Attempting
    <3>3. CASE TidyExisting(t) \/ DropStaging(t)  BY <1>0, <3>3 DEF TidyExisting, DropStaging, Deletes
    <3>4. CASE Move(t)  BY <1>0, <3>4 DEF Move
    <3> QED
      BY <3>1, <3>2, <3>3, <3>4
         DEF TransferStep, Call, FindExisting, OpenRcat, OpenRcatFails, Feed, SourceEnds,
             SourceFails, RcloneBreaks, PipeFails, Cancelled, RcloneCompletes, LookBeforeMove,
             MoveFails, AwaitValidation, TryAgain, Give
  <2> QED  BY <1>0, <2>1
<1>6. rclone' \in [Transfers -> [Attempting -> RcloneStates]]
  <2>1. rclone' = rclone
        \/ \E m \in Attempting, state \in RcloneStates : rclone' = [rclone EXCEPT ![t][m] = state]
    <3>1. CASE RcloneStores(t) \/ RcloneDies(t)
      BY <3>1 DEF RcloneStores, RcloneDies, Attempting, RcloneStates
    <3>2. CASE DropStaging(t)
      <4> DEFINE state == IF Mine(t) \in {"reads", "ended"} THEN "killed" ELSE Mine(t)
      <4>1. state \in RcloneStates  BY <1>0 DEF Mine, RcloneStates
      <4>2. rclone' = [rclone EXCEPT ![t][dt[t].n] = state]
        BY <1>0, <3>2 DEF DropStaging, Mine
      <4> QED  BY <1>0, <4>1, <4>2
    <3> QED
      BY <1>0, <3>1, <3>2
         DEF TransferStep, Call, FindExisting, OpenRcat, OpenRcatFails, Feed, SourceEnds,
             SourceFails, RcloneBreaks, PipeFails, Cancelled, RcloneCompletes, LookBeforeMove,
             TidyExisting, Move, MoveFails, AwaitValidation, TryAgain, Give, Rclone, RcloneStates
  <2>2. CASE rclone' = rclone  BY <1>0, <2>2
  <2>3. ASSUME NEW m \in Attempting, NEW state \in RcloneStates,
               rclone' = [rclone EXCEPT ![t][m] = state]
        PROVE  rclone' \in [Transfers -> [Attempting -> RcloneStates]]
    BY <1>0, <2>3
  <2> QED  BY <2>1, <2>2, <2>3
<1> QED
  BY <1>1, <1>2, <1>3, <1>4, <1>5, <1>6
     DEF DirectTypeOK, Records, Labels, RcloneStates, Attempting

-----------------------------------------------------------------------------
(* What a step does to its own transfer *)

LEMMA MovesTo ==
  ASSUME DirectTypeOK, NEW t \in Transfers, NEW label, MovesOn(t, label)
  PROVE  /\ dt'[t].at = label /\ dt'[t].n = dt[t].n /\ dt'[t].sent = dt[t].sent
         /\ dt'[t].found = dt[t].found /\ dt'[t].moved = dt[t].moved
BY DEF DirectTypeOK, MovesOn

LEMMA FailsTo ==
  ASSUME DirectTypeOK, NEW t \in Transfers, NEW why, FailsWith(t, why)
  PROVE  /\ dt'[t].at = "fail" /\ dt'[t].n = dt[t].n /\ dt'[t].sent = dt[t].sent
         /\ dt'[t].found = dt[t].found /\ dt'[t].moved = dt[t].moved
BY DEF DirectTypeOK, FailsWith

LEMMA FieldTypes ==
  ASSUME DirectTypeOK, NEW t \in Transfers
  PROVE  /\ dt[t].at \in Labels /\ dt[t].n \in Attempting /\ dt[t].sent \in Nat
         /\ dt[t].found \in BOOLEAN /\ dt[t].moved \in BOOLEAN
         /\ rclone[t] \in [Attempting -> RcloneStates] /\ stage[t] \in [Attempting -> Nat]
         /\ final.len \in Nat
BY DEF DirectTypeOK, Attempting, Labels, RcloneStates

\* A step that only moves the transfer on, and changes no file
LEMMA FailedStep ==
  ASSUME DirectInv, NEW t \in Transfers, NEW why, FailsWith(t, why), ~dt[t].found,
         dt[t].at # "fail", Mine(t) # "ended", UNCHANGED <<stage, rclone, leftover>>
  PROVE  TransferOK(t)'
<1>1. DirectTypeOK /\ TransferOK(t)  BY DEF DirectInv
<1>2. /\ dt'[t].at = "fail" /\ dt'[t].n = dt[t].n /\ dt'[t].found = dt[t].found
      /\ dt'[t].moved = dt[t].moved
  BY <1>1, FailsTo
<1>3. PipeOK(t)'  BY <1>1, <1>2 DEF TransferOK, PipeOK, Mine
<1>4. SentOK(t)'  BY <1>1, <1>2 DEF TransferOK, SentOK, Piping
<1>5. StageOK(t)'  BY <1>1, <1>2 DEF TransferOK, StageOK
<1>6. SeenOK(t)'  BY <1>1, <1>2 DEF TransferOK, SeenOK
<1> QED  BY <1>3, <1>4, <1>5, <1>6 DEF TransferOK

LEMMA BeginOK ==
  ASSUME DirectInv, NEW t \in Transfers, Call(t) \/ FindExisting(t) \/ OpenRcat(t)
  PROVE  TransferOK(t)'
<1>0. DirectTypeOK /\ TransferOK(t)  BY DEF DirectInv
<1>1. CASE Call(t)
  <2>1. PICK seen \in {final, NoFile} :
          /\ LooksUp(seen)
          /\ dt' = [dt EXCEPT ![t].at = IF seen # NoFile /\ ~SizeMatches(t, seen) THEN "skipped"
                                        ELSE "attempt",
                              ![t].found = seen # NoFile]
    BY <1>1 DEF Call
  <2>2. /\ dt'[t].at = IF seen # NoFile /\ ~SizeMatches(t, seen) THEN "skipped" ELSE "attempt"
        /\ dt'[t].found = (seen # NoFile)
        /\ dt'[t].n = dt[t].n /\ dt'[t].moved = dt[t].moved
    BY <1>0, <2>1 DEF DirectTypeOK
  <2>3. dt[t].at = "call" /\ UNCHANGED <<final, stage, rclone, short, leftover>>
    BY <1>1 DEF Call, At
  <2>4. PipeOK(t)'  BY <1>0, <2>2, <2>3 DEF TransferOK, PipeOK, Mine
  <2>5. SentOK(t)'  BY <1>0, <2>2, <2>3 DEF TransferOK, SentOK, Piping
  <2>6. StageOK(t)'  BY <1>0, <2>2, <2>3 DEF TransferOK, StageOK
  <2>7. SeenOK(t)'
    BY <2>2, <2>3 DEF SeenOK, SizeMatches
  <2> QED  BY <2>4, <2>5, <2>6, <2>7 DEF TransferOK
<1>2. CASE FindExisting(t)
  <2>1. /\ dt[t].at = "attempt" /\ dt[t].found
        /\ UNCHANGED <<final, stage, rclone, short, replaced, leftover>>
        /\ dt'[t].at = "existing" /\ dt'[t].n = dt[t].n /\ dt'[t].found = dt[t].found
        /\ dt'[t].moved = dt[t].moved
    BY <1>0, <1>2, MovesTo DEF FindExisting, At
  <2>4. PipeOK(t)'  BY <1>0, <2>1 DEF TransferOK, PipeOK, Mine
  <2>5. SentOK(t)'  BY <1>0, <2>1 DEF TransferOK, SentOK, Piping
  <2>6. StageOK(t)'  BY <1>0, <2>1 DEF TransferOK, StageOK
  <2>7. SeenOK(t)'  BY <1>0, <2>1 DEF TransferOK, SeenOK
  <2> QED  BY <2>4, <2>5, <2>6, <2>7 DEF TransferOK
<1>3. CASE OpenRcat(t)
  <2>1. /\ dt[t].at = "attempt" /\ ~dt[t].found
        /\ UNCHANGED <<final, stage, short, replaced, leftover>>
        /\ dt'[t].at = "feed" /\ dt'[t].n = dt[t].n /\ dt'[t].found = dt[t].found
        /\ dt'[t].moved = dt[t].moved
    BY <1>0, <1>3, MovesTo DEF OpenRcat, At
  <2>2. \A m \in Attempting : rclone'[t][m] = "ended" => rclone[t][m] = "ended"
    BY <1>0, <1>3, FieldTypes DEF OpenRcat, Rclone, DirectTypeOK
  <2>4. PipeOK(t)'  BY <1>0, <2>1, <2>2 DEF TransferOK, PipeOK, Mine
  <2>5. SentOK(t)'  BY <1>0, <2>1 DEF TransferOK, SentOK, Piping
  <2>6. StageOK(t)'  BY <1>0, <2>1 DEF TransferOK, StageOK
  <2>7. SeenOK(t)'  BY <1>0, <2>1 DEF TransferOK, SeenOK
  <2> QED  BY <2>4, <2>5, <2>6, <2>7 DEF TransferOK
<1> QED  BY <1>1, <1>2, <1>3

LEMMA FeedOK ==
  ASSUME DirectInv, NEW t \in Transfers,
         Feed(t) \/ SourceEnds(t) \/ SourceFails(t) \/ PipeFails(t) \/ Cancelled(t)
           \/ OpenRcatFails(t)
  PROVE  TransferOK(t)'
<1>0. DirectTypeOK /\ TransferOK(t)  BY DEF DirectInv
<1>r. /\ dt[t].n \in Attempting /\ rclone[t] \in [Attempting -> RcloneStates]
      /\ rclone \in [Transfers -> [Attempting -> RcloneStates]]
  BY <1>0, FieldTypes, Typed
<1>1. CASE Feed(t)
  <2>1. /\ dt[t].at = "feed" /\ UNCHANGED <<final, stage, rclone, short, replaced, leftover>>
        /\ dt'[t].at = "feed" /\ dt'[t].n = dt[t].n /\ dt'[t].found = dt[t].found
        /\ dt'[t].moved = dt[t].moved
    BY <1>0, <1>1 DEF Feed, At, DirectTypeOK
  <2>4. PipeOK(t)'  BY <1>0, <2>1 DEF TransferOK, PipeOK, Mine
  <2>5. SentOK(t)'  BY <1>0, <2>1 DEF TransferOK, SentOK, Piping
  <2>6. StageOK(t)'  BY <1>0, <2>1 DEF TransferOK, StageOK
  <2>7. SeenOK(t)'  BY <1>0, <2>1 DEF TransferOK, SeenOK
  <2> QED  BY <2>4, <2>5, <2>6, <2>7 DEF TransferOK
<1>2. CASE SourceEnds(t)
  <2>1. /\ dt[t].at = "feed" /\ UNCHANGED <<final, stage, replaced, leftover>>
        /\ dt[t].sent = Size[t] \/ t \in short'
        /\ dt'[t].at = "wait" /\ dt'[t].n = dt[t].n /\ dt'[t].found = dt[t].found
        /\ dt'[t].moved = dt[t].moved /\ dt'[t].sent = dt[t].sent
    BY <1>0, <1>2, MovesTo DEF SourceEnds, At
  <2>2. /\ rclone'[t][dt[t].n] = "ended"
        /\ \A m \in Attempting : m # dt[t].n => rclone'[t][m] = rclone[t][m]
    BY <1>r, <1>2 DEF SourceEnds, Rclone
  <2>4. PipeOK(t)'  BY <1>0, <1>r, <2>1, <2>2 DEF TransferOK, PipeOK, Mine
  <2>5. SentOK(t)'  BY <1>0, <2>1 DEF TransferOK, SentOK, Piping
  <2>6. StageOK(t)'  BY <1>0, <2>1 DEF TransferOK, StageOK
  <2>7. SeenOK(t)'  BY <1>0, <2>1 DEF TransferOK, SeenOK
  <2> QED  BY <2>4, <2>5, <2>6, <2>7 DEF TransferOK
<1>3. CASE SourceFails(t)
  <2>1. /\ dt[t].at = "feed" /\ UNCHANGED <<final, stage, replaced, leftover>>
        /\ dt'[t].at = "fail" /\ dt'[t].n = dt[t].n /\ dt'[t].found = dt[t].found
        /\ dt'[t].moved = dt[t].moved /\ dt'[t].sent = dt[t].sent
    BY <1>0, <1>3, FailsTo DEF SourceFails, At
  <2>2. \A m \in Attempting : rclone'[t][m] = "ended" => rclone[t][m] = "ended"
    BY <1>r, <1>3 DEF SourceFails, Rclone
  <2>4. PipeOK(t)'  BY <1>0, <1>r, <2>1, <2>2 DEF TransferOK, PipeOK, Mine
  <2>5. SentOK(t)'  BY <1>0, <2>1 DEF TransferOK, SentOK, Piping
  <2>6. StageOK(t)'  BY <1>0, <2>1 DEF TransferOK, StageOK
  <2>7. SeenOK(t)'  BY <1>0, <2>1 DEF TransferOK, SeenOK
  <2> QED  BY <2>4, <2>5, <2>6, <2>7 DEF TransferOK
<1>4. ASSUME NEW why, FailsWith(t, why), dt[t].at \in {"attempt", "feed"}, ~dt[t].found,
             UNCHANGED <<stage, rclone, leftover>>
      PROVE  TransferOK(t)'
  <2>1. Mine(t) # "ended"  BY <1>0, <1>r, <1>4 DEF TransferOK, PipeOK, Mine
  <2> QED  BY <1>4, <2>1, FailedStep
<1>5. CASE PipeFails(t) \/ Cancelled(t)
  <2>1. dt[t].at = "feed" /\ UNCHANGED <<stage, rclone, leftover>>
        /\ \E why \in Why : FailsWith(t, why)
    BY <1>5 DEF PipeFails, Cancelled, At, Why
  <2>2. ~dt[t].found  BY <1>0, <2>1 DEF TransferOK, SentOK
  <2> QED  BY <1>4, <2>1, <2>2
<1>6. CASE OpenRcatFails(t)
  BY <1>4, <1>6 DEF OpenRcatFails, At
<1> QED  BY <1>1, <1>2, <1>3, <1>5, <1>6

LEMMA RcloneOK ==
  ASSUME DirectInv, NEW t \in Transfers, RcloneBreaks(t) \/ RcloneStores(t) \/ RcloneDies(t)
  PROVE  TransferOK(t)'
<1>0. DirectTypeOK /\ TransferOK(t)  BY DEF DirectInv
<1>r. /\ dt[t].n \in Attempting /\ rclone[t] \in [Attempting -> RcloneStates]
      /\ rclone \in [Transfers -> [Attempting -> RcloneStates]]
      /\ stage \in [Transfers -> [Attempting -> Nat]] /\ stage[t] \in [Attempting -> Nat]
  BY <1>0, FieldTypes, Typed
<1>s. UNCHANGED <<final, dt, short, replaced>>
  BY DEF RcloneBreaks, RcloneStores, RcloneDies
<1>t. SentOK(t)' /\ SeenOK(t)'
  <2>1. SentOK(t)'  BY <1>0, <1>s DEF TransferOK, SentOK
  <2>2. SeenOK(t)'  BY <1>0, <1>s DEF TransferOK, SeenOK
  <2> QED  BY <2>1, <2>2
<1>1. CASE RcloneBreaks(t)
  <2>1. /\ Mine(t) \in {"reads", "ended"} /\ UNCHANGED <<stage, leftover>>
        /\ rclone'[t][dt[t].n] = "broken"
        /\ \A m \in Attempting : m # dt[t].n => rclone'[t][m] = rclone[t][m]
    BY <1>r, <1>1 DEF RcloneBreaks, Rclone
  <2>4. PipeOK(t)'  BY <1>0, <1>r, <1>s, <2>1 DEF TransferOK, PipeOK, Mine
  <2>6. StageOK(t)'  BY <1>0, <1>s, <2>1 DEF TransferOK, StageOK
  <2> QED  BY <1>t, <2>4, <2>6 DEF TransferOK
<1>2. CASE RcloneStores(t)
  <2>1. PICK n \in Attempting :
          /\ rclone[t][n] = "ended"
          /\ rclone' = [rclone EXCEPT ![t][n] = "done"]
          /\ stage' = [stage EXCEPT ![t][n] = dt[t].sent]
    BY <1>2 DEF RcloneStores, Attempting
  <2>2. n = dt[t].n /\ dt[t].at = "wait" /\ leftover' = leftover
    BY <1>0, <1>2, <2>1 DEF TransferOK, PipeOK, RcloneStores
  <2>3. /\ rclone'[t][n] = "done" /\ stage'[t][n] = dt[t].sent
        /\ \A m \in Attempting : m # n => rclone'[t][m] = rclone[t][m] /\ stage'[t][m] = stage[t][m]
    BY <1>r, <2>1
  <2>4. PipeOK(t)'  BY <1>0, <1>r, <1>s, <2>1, <2>2, <2>3 DEF TransferOK, PipeOK, Mine
  <2>5. ~dt[t].moved  BY <1>0, <2>2 DEF TransferOK, SentOK, Piping
  <2>6. StageOK(t)'  BY <1>0, <1>s, <2>2, <2>3, <2>5 DEF TransferOK, StageOK
  <2> QED  BY <1>t, <2>4, <2>6 DEF TransferOK
<1>3. CASE RcloneDies(t)
  <2>1. PICK n \in Attempting :
          /\ rclone[t][n] = "killed"
          /\ rclone' = [rclone EXCEPT ![t][n] = "gone"]
          /\ \/ UNCHANGED <<stage, leftover, troubles>>
             \/ /\ Trouble
                /\ stage' = [stage EXCEPT ![t][n] = 1]
                /\ leftover' = leftover \cup {<<t, n>>}
    BY <1>3 DEF RcloneDies, Attempting
  <2>2. /\ rclone'[t][n] = "gone"
        /\ \A m \in Attempting : m # n => rclone'[t][m] = rclone[t][m] /\ stage'[t][m] = stage[t][m]
        /\ stage'[t][n] = stage[t][n] \/ <<t, n>> \in leftover'
        /\ leftover \subseteq leftover'
    BY <1>r, <2>1
  <2>3. dt[t].at \in {"look", "move", "wait", "tidy"} => n # dt[t].n
    BY <1>0, <2>1 DEF TransferOK, PipeOK, Mine
  <2>4. PipeOK(t)'
    BY <1>0, <1>r, <1>s, <2>1, <2>2, <2>3 DEF TransferOK, PipeOK, Mine
  <2>6. StageOK(t)'  BY <1>0, <1>s, <2>2 DEF TransferOK, StageOK
  <2> QED  BY <1>t, <2>4, <2>6 DEF TransferOK
<1> QED  BY <1>1, <1>2, <1>3

LEMMA CompletesOK ==
  ASSUME DirectInv, NEW t \in Transfers, RcloneCompletes(t)
  PROVE  TransferOK(t)'
<1>0. DirectTypeOK /\ TransferOK(t)  BY DEF DirectInv
<1>r. /\ dt[t].n \in Attempting /\ rclone[t] \in [Attempting -> RcloneStates]
      /\ rclone \in [Transfers -> [Attempting -> RcloneStates]]
  BY <1>0, FieldTypes, Typed
<1>1. dt[t].at = "wait" /\ UNCHANGED <<final, stage, short, replaced, leftover>>
  BY DEF RcloneCompletes, At
<1>2. CASE RcloneIsDone(t) /\ MovesOn(t, "look") /\ UNCHANGED rclone
  <2>1. /\ dt'[t].at = "look" /\ dt'[t].n = dt[t].n /\ dt'[t].found = dt[t].found
        /\ dt'[t].moved = dt[t].moved /\ dt'[t].sent = dt[t].sent /\ Mine(t) = "done"
    BY <1>0, <1>2, MovesTo DEF RcloneIsDone
  <2>4. PipeOK(t)'  BY <1>0, <1>r, <1>1, <1>2, <2>1 DEF TransferOK, PipeOK, Mine
  <2>5. SentOK(t)'  BY <1>0, <1>1, <2>1 DEF TransferOK, SentOK, Piping
  <2>6. StageOK(t)'  BY <1>0, <1>1, <2>1 DEF TransferOK, StageOK
  <2>7. SeenOK(t)'  BY <1>0, <1>1, <2>1 DEF TransferOK, SeenOK
  <2> QED  BY <2>4, <2>5, <2>6, <2>7 DEF TransferOK
<1>3. CASE FailsWith(t, "rclone") /\ ((Mine(t) = "broken" /\ UNCHANGED rclone)
                                      \/ Rclone(t, "killed"))
  <2>1. /\ dt'[t].at = "fail" /\ dt'[t].n = dt[t].n /\ dt'[t].found = dt[t].found
        /\ dt'[t].moved = dt[t].moved /\ dt'[t].sent = dt[t].sent
    BY <1>0, <1>3, FailsTo
  <2>2. \A m \in Attempting : rclone'[t][m] # "ended"
    BY <1>0, <1>r, <1>3 DEF TransferOK, PipeOK, Mine, Rclone
  <2>4. PipeOK(t)'  BY <2>1, <2>2 DEF PipeOK, Mine
  <2>5. SentOK(t)'  BY <1>0, <1>1, <2>1 DEF TransferOK, SentOK, Piping
  <2>6. StageOK(t)'  BY <1>0, <1>1, <2>1 DEF TransferOK, StageOK
  <2>7. SeenOK(t)'  BY <1>0, <1>1, <2>1 DEF TransferOK, SeenOK
  <2> QED  BY <2>4, <2>5, <2>6, <2>7 DEF TransferOK
<1> QED  BY <1>2, <1>3 DEF RcloneCompletes

LEMMA LookOK ==
  ASSUME DirectInv, NEW t \in Transfers, LookBeforeMove(t) \/ AwaitValidation(t)
  PROVE  TransferOK(t)'
<1>0. DirectTypeOK /\ TransferOK(t)  BY DEF DirectInv
<1>1. PICK seen \in {final, NoFile}, label \in {"move", "tidy", "stored", "fail"} :
        /\ dt'[t].at = label
        /\ dt[t].at \in {"look", "validate"}
        /\ label = "move" => dt[t].at = "look"
        /\ label = "tidy" => dt[t].at = "look" /\ SizeMatches(t, seen)
        /\ label = "stored" => dt[t].at = "validate" /\ SizeMatches(t, seen)
        /\ dt'[t].n = dt[t].n /\ dt'[t].found = dt[t].found /\ dt'[t].moved = dt[t].moved
        /\ dt'[t].sent = dt[t].sent
        /\ UNCHANGED <<final, stage, rclone, short, leftover>>
  <2>1. CASE LookBeforeMove(t)
    <3>1. PICK seen \in {final, NoFile} :
            CASE seen = NoFile -> MovesOn(t, "move")
              [] seen # NoFile /\ SizeMatches(t, seen) -> MovesOn(t, "tidy")
              [] OTHER -> FailsWith(t, "rclone")
      BY <2>1 DEF LookBeforeMove
    <3>2. dt[t].at = "look" /\ UNCHANGED <<final, stage, rclone, short, leftover>>
      BY <2>1 DEF LookBeforeMove, At
    <3>3. CASE seen = NoFile
      <4>1. MovesOn(t, "move")  BY <3>1, <3>3
      <4> QED  BY <1>0, <3>2, <4>1, MovesTo
    <3>4. CASE seen # NoFile /\ SizeMatches(t, seen)
      <4>1. MovesOn(t, "tidy")  BY <3>1, <3>4
      <4> QED  BY <1>0, <3>2, <3>4, <4>1, MovesTo
    <3>5. CASE seen # NoFile /\ ~SizeMatches(t, seen)
      <4>1. FailsWith(t, "rclone")  BY <3>1, <3>5
      <4> QED  BY <1>0, <3>2, <4>1, FailsTo
    <3> QED  BY <3>3, <3>4, <3>5
  <2>2. CASE AwaitValidation(t)
    BY <1>0, <2>2, MovesTo, FailsTo DEF AwaitValidation, At
  <2> QED  BY <2>1, <2>2
<1>2. ~dt[t].found /\ \A m \in Attempting : rclone[t][m] # "ended"
  BY <1>0, <1>1 DEF TransferOK, PipeOK, SentOK
<1>3. PipeOK(t)'  BY <1>0, <1>1, <1>2 DEF TransferOK, PipeOK, Mine
<1>4. SentOK(t)'  BY <1>0, <1>1, <1>2 DEF TransferOK, SentOK, Piping
<1>5. StageOK(t)'
  <2>1. dt[t].at = "validate" => \A m \in Attempting : stage[t][m] # 0 => <<t, m>> \in leftover
    BY <1>0 DEF TransferOK, StageOK
  <2>2. dt[t].at = "look" => ~dt[t].moved  BY <1>0 DEF TransferOK, SentOK, Piping
  <2> QED  BY <1>0, <1>1, <2>1, <2>2 DEF TransferOK, StageOK
<1>6. SeenOK(t)'
  <2>1. SizeMatches(t, seen) => final.len = Size[t]
    BY <1>1, DirectAssumption DEF SizeMatches, NoFile
  <2> QED  BY <1>1, <1>2, <2>1 DEF SeenOK
<1> QED  BY <1>3, <1>4, <1>5, <1>6 DEF TransferOK

LEMMA DeletesStage ==
  ASSUME DirectInv, NEW t \in Transfers, Deletes(t)
  PROVE  /\ \A m \in Attempting : m # dt[t].n => stage'[t][m] = stage[t][m]
         /\ stage'[t][dt[t].n] = 0 \/ <<t, dt[t].n>> \in leftover'
         /\ leftover \subseteq leftover'
<1>1. /\ dt[t].n \in Attempting /\ stage \in [Transfers -> [Attempting -> Nat]]
  BY FieldTypes, Typed DEF DirectInv
<1> QED  BY <1>1 DEF Deletes

LEMMA EndOK ==
  ASSUME DirectInv, NEW t \in Transfers,
         TidyExisting(t) \/ DropStaging(t) \/ TryAgain(t) \/ Give(t)
  PROVE  TransferOK(t)'
<1>0. DirectTypeOK /\ TransferOK(t)  BY DEF DirectInv
<1>r. /\ dt[t].n \in Attempting /\ rclone[t] \in [Attempting -> RcloneStates]
      /\ rclone \in [Transfers -> [Attempting -> RcloneStates]]
  BY <1>0, FieldTypes, Typed
<1>1. CASE TidyExisting(t)
  <2>1. /\ dt[t].at = "tidy" /\ UNCHANGED <<final, rclone, short, replaced>>
        /\ dt'[t].at = "existing" /\ dt'[t].n = dt[t].n /\ dt'[t].found = dt[t].found
        /\ dt'[t].moved = dt[t].moved /\ dt'[t].sent = dt[t].sent
    BY <1>0, <1>1, MovesTo DEF TidyExisting, At
  <2>2. /\ \A m \in Attempting : m # dt[t].n => stage'[t][m] = stage[t][m]
        /\ stage'[t][dt[t].n] = 0 \/ <<t, dt[t].n>> \in leftover'
        /\ leftover \subseteq leftover'
    BY <1>1, DeletesStage DEF TidyExisting
  <2>4. PipeOK(t)'  BY <1>0, <1>r, <2>1 DEF TransferOK, PipeOK, Mine
  <2>5. SentOK(t)'  BY <1>0, <2>1 DEF TransferOK, SentOK, Piping
  <2>6. StageOK(t)'  BY <1>0, <2>1, <2>2 DEF TransferOK, StageOK
  <2>7. SeenOK(t)'  BY <1>0, <2>1 DEF TransferOK, SeenOK
  <2> QED  BY <2>4, <2>5, <2>6, <2>7 DEF TransferOK
<1>2. CASE DropStaging(t)
  <2>1. /\ dt[t].at = "fail" /\ UNCHANGED <<final, short, replaced>>
        /\ dt'[t].at \in {"cancelled", "again"} /\ dt'[t].n = dt[t].n
        /\ dt'[t].found = dt[t].found /\ dt'[t].moved = dt[t].moved
    BY <1>0, <1>2, MovesTo DEF DropStaging, At
  <2>2. \A m \in Attempting : m # dt[t].n =>
          (stage'[t][m] # 0 => <<t, m>> \in leftover')
    <3>1. CASE dt[t].moved
      BY <1>0, <1>2, <3>1 DEF TransferOK, StageOK, DropStaging
    <3>2. CASE ~dt[t].moved
      <4>1. Deletes(t)  BY <1>2, <3>2 DEF DropStaging
      <4> QED  BY <1>0, <4>1, DeletesStage DEF TransferOK, StageOK
    <3> QED  BY <3>1, <3>2
  <2>3. stage'[t][dt[t].n] # 0 => <<t, dt[t].n>> \in leftover'
    <3>1. CASE dt[t].moved
      BY <1>0, <1>r, <1>2, <3>1 DEF TransferOK, StageOK, DropStaging
    <3>2. CASE ~dt[t].moved
      <4>1. Deletes(t)  BY <1>2, <3>2 DEF DropStaging
      <4> QED  BY <4>1, DeletesStage
    <3> QED  BY <3>1, <3>2
  <2>4. \A m \in Attempting : rclone'[t][m] = "ended" => rclone[t][m] = "ended"
    BY <1>r, <1>2 DEF DropStaging
  <2>5. PipeOK(t)'  BY <1>0, <2>1, <2>4 DEF TransferOK, PipeOK, Mine
  <2>6. SentOK(t)'  BY <1>0, <2>1 DEF TransferOK, SentOK, Piping
  <2>7. StageOK(t)'  BY <2>1, <2>2, <2>3 DEF StageOK
  <2>8. SeenOK(t)'  BY <1>0, <2>1 DEF TransferOK, SeenOK, SentOK
  <2> QED  BY <2>5, <2>6, <2>7, <2>8 DEF TransferOK
<1>3. CASE TryAgain(t)
  <2>1. /\ dt[t].at = "again" /\ UNCHANGED <<final, stage, rclone, short, replaced, leftover>>
        /\ dt'[t].at = "attempt" /\ ~dt'[t].moved /\ dt'[t].found = dt[t].found
    BY <1>0, <1>3 DEF TryAgain, At, DirectTypeOK
  <2>2. ~dt[t].found  BY <1>0, <2>1 DEF TransferOK, SentOK
  <2>3. PipeOK(t)'  BY <1>0, <2>1 DEF TransferOK, PipeOK, Mine
  <2>4. SentOK(t)'  BY <2>1, <2>2 DEF SentOK, Piping
  <2>5. StageOK(t)'  BY <1>0, <2>1 DEF TransferOK, StageOK
  <2>6. SeenOK(t)'  BY <2>1, <2>2 DEF SeenOK
  <2> QED  BY <2>3, <2>4, <2>5, <2>6 DEF TransferOK
<1>4. CASE Give(t)
  <2>1. /\ dt[t].at = "again" /\ UNCHANGED <<final, stage, rclone, short, replaced, leftover>>
        /\ dt'[t].at \in {"failed", "fell back"} /\ dt'[t].found = dt[t].found
    BY <1>0, <1>4, MovesTo DEF Give, At
  <2>3. PipeOK(t)'  BY <1>0, <2>1 DEF TransferOK, PipeOK, Mine
  <2>4. SentOK(t)'  BY <1>0, <2>1 DEF TransferOK, SentOK, Piping
  <2>5. StageOK(t)'  BY <1>0, <2>1 DEF TransferOK, StageOK
  <2>6. SeenOK(t)'  BY <2>1 DEF SeenOK
  <2> QED  BY <2>3, <2>4, <2>5, <2>6 DEF TransferOK
<1> QED  BY <1>1, <1>2, <1>3, <1>4

LEMMA MoveOK ==
  ASSUME DirectInv, NEW t \in Transfers, Move(t) \/ MoveFails(t)
  PROVE  TransferOK(t)' /\ FinalIsWhole'
<1>0. DirectTypeOK /\ FinalIsWhole /\ TransferOK(t)  BY DEF DirectInv
<1>r. /\ dt[t].n \in Attempting /\ stage \in [Transfers -> [Attempting -> Nat]]
  BY <1>0, FieldTypes, Typed
<1>1. /\ dt[t].at = "move" /\ UNCHANGED <<rclone, short, leftover>> /\ Mine(t) = "done"
      /\ ~dt[t].found /\ ~dt[t].moved
      /\ stage[t][dt[t].n] = Size[t] \/ t \in short
  BY <1>0 DEF Move, MoveFails, At, TransferOK, PipeOK, SentOK, Piping
<1>2. CASE Move(t)
  <2>1. \/ dt' = [dt EXCEPT ![t].at = "validate", ![t].moved = TRUE]
        \/ FailsWith(t, "rclone")
    BY <1>2 DEF Move
  <2>2. dt'[t].at \in {"validate", "fail"} /\ dt'[t].n = dt[t].n /\ ~dt'[t].found
    <3>1. CASE FailsWith(t, "rclone")  BY <1>0, <1>1, <3>1, FailsTo
    <3>2. CASE dt' = [dt EXCEPT ![t].at = "validate", ![t].moved = TRUE]
      BY <1>0, <1>1, <3>2 DEF DirectTypeOK
    <3> QED  BY <2>1, <3>1, <3>2
  <2>3. /\ stage'[t][dt[t].n] = 0
        /\ \A m \in Attempting : m # dt[t].n => stage'[t][m] = stage[t][m]
    BY <1>r, <1>2 DEF Move
  <2>4. PipeOK(t)'  BY <1>0, <1>1, <2>2 DEF TransferOK, PipeOK, Mine
  <2>5. SentOK(t)'  BY <2>2 DEF SentOK, Piping
  <2>6. StageOK(t)'  BY <1>0, <1>1, <2>2, <2>3 DEF TransferOK, StageOK
  <2>7. SeenOK(t)'  BY <2>2 DEF SeenOK
  <2>8. FinalIsWhole'  BY <1>1, <1>2 DEF Move, FinalIsWhole
  <2> QED  BY <2>4, <2>5, <2>6, <2>7, <2>8 DEF TransferOK
<1>3. CASE MoveFails(t)
  <2>1. Mine(t) # "ended" /\ dt[t].at # "fail" /\ UNCHANGED <<final, stage, rclone, leftover>>
    BY <1>1, <1>3 DEF MoveFails
  <2>2. FailsWith(t, "rclone")  BY <1>3 DEF MoveFails
  <2>3. TransferOK(t)'  BY <1>1, <2>1, <2>2, FailedStep
  <2>4. FinalIsWhole'  BY <1>0, <1>1, <2>1 DEF FinalIsWhole
  <2> QED  BY <2>3, <2>4
<1> QED  BY <1>2, <1>3

LEMMA NextDirectInv == DirectInv /\ [DirectNext]_directVars => DirectInv'
<1> SUFFICES ASSUME DirectInv, [DirectNext]_directVars  PROVE DirectInv'
  OBVIOUS
<1>1. ASSUME NEW t \in Transfers, TransferStep(t)  PROVE DirectInv'
  <2>1. DirectTypeOK'  BY <1>1, DirectTypeStep DEF DirectInv
  <2>2. TransferOK(t)'
    BY <1>1, BeginOK, FeedOK, RcloneOK, CompletesOK, LookOK, EndOK, MoveOK DEF TransferStep
  <2>3. \A u \in Transfers : TransferOK(u)'
    BY <1>1, <2>2, OtherKept
  <2>4. FinalIsWhole'
    <3>1. CASE Move(t)  BY <3>1, MoveOK
    <3>2. CASE UNCHANGED final
      <4>1. short \subseteq short'
        BY <1>1 DEF TransferStep, Call, FindExisting, OpenRcat, OpenRcatFails, Feed, SourceEnds,
             SourceFails, RcloneBreaks, PipeFails, Cancelled, RcloneStores, RcloneDies,
             RcloneCompletes, LookBeforeMove, TidyExisting, Move, MoveFails, AwaitValidation,
             DropStaging, TryAgain, Give
      <4> QED  BY <3>2, <4>1 DEF DirectInv, FinalIsWhole
    <3> QED  BY <1>1, <3>1, <3>2, FinalStep
  <2> QED  BY <2>1, <2>3, <2>4 DEF DirectInv
<1>2. CASE UNCHANGED directVars
  BY <1>2 DEF directVars, DirectInv, DirectTypeOK, FinalIsWhole, TransferOK, PipeOK, SentOK,
              StageOK, SeenOK, Mine
<1> QED  BY <1>1, <1>2 DEF DirectNext, AllClosed

(* A direct transfer leaves whole files under the final name, what it reported *)
(* as stored is there, and only staging files known as left behind remain.     *)
THEOREM DirectTransfersAreSafe == DirectSpec => []DirectSafe
<1>1. DirectInv => DirectSafe
  <2> SUFFICES ASSUME DirectInv  PROVE StoredIsThere /\ NothingLeftBehind
    BY DEF DirectInv, DirectSafe
  <2>1. StoredIsThere  BY DEF DirectInv, TransferOK, SeenOK, StoredIsThere
  <2>2. NothingLeftBehind
    BY DEF DirectInv, TransferOK, StageOK, NothingLeftBehind, Attempting, Closed
  <2> QED  BY <2>1, <2>2
<1> QED  BY <1>1, InitDirectInv, NextDirectInv, PTL DEF DirectSpec

-----------------------------------------------------------------------------
(* LiveStream: the inductive invariant *)

InOrder(len) == [k \in 1..len |-> k]

Whole == [chunks |-> InOrder(N), torn |-> FALSE]

Opened(p) == pipes[p].rclone # "none"

\* The context opened last
Latest(p) == Opened(p) /\ \A q \in Pipes : q > p => ~Opened(q)

OpenedInOrder == \A p, q \in Pipes : q < p /\ Opened(p) => Opened(q)

SenderOK == sender.post # NoPost => sender.k <= N

\* A chunk is written to the context opened last; one that is being given up has
\* not got the whole file, and one that is being reset has not stored it.
ServingOK ==
  /\ serving.step \in {"write", "remove"} => serving.post \in Posts
  /\ serving.step # "free" => serving.pipe \in Pipes /\ Latest(serving.pipe)
  /\ serving.step = "remove" => pipes[serving.pipe].last < N /\ pipes[serving.pipe].ended
  /\ serving.step = "reset" /\ ~crossed
       => pipes[serving.pipe].rclone = "broken" \/ pipes[serving.pipe].reported

CurrentOK ==
  current # 0 => /\ Latest(current) /\ ~pipes[current].reported
                 /\ pipes[current].rclone \in {"open", "stored", "broken"}

\* What was written to a context is a beginning of the file, and its handlers
\* follow the end of its rclone.
ContextOK(p) ==
  /\ pipes[p].out.chunks = InOrder(pipes[p].last)
  /\ ~Opened(p) => pipes[p] = NoPipe
  /\ pipes[p].handler \in {"finish", "complete"}
       => pipes[p].rclone = "closed" /\ ~pipes[p].reported
  /\ pipes[p].reported
       => /\ pipes[p].handler \in {"remove", "report", "done"}
          /\ pipes[p].rclone \in {"broken", "closed"}
  /\ pipes[p].handler # "none" => pipes[p].reported \/ pipes[p].rclone = "closed"
  /\ pipes[p].rclone = "closed" => pipes[p].handler # "none"
  /\ pipes[p].handler = "done" => task \in TerminalStatuses

\* As long as no two contexts crossed, only the one opened last can be at work, it
\* is in activeStreams while it waits for data, and the remote file is its own.
AloneOK(p) ==
  ~crossed =>
    /\ Lives(p) => Latest(p)
    /\ pipes[p].rclone = "open" /\ ~pipes[p].ended => current = p
    /\ pipes[p].rclone = "stored" \/ pipes[p].handler = "finish"
         => drive = pipes[p].out \/ (drive = Nothing /\ pipes[p].last < N)
    /\ pipes[p].handler = "complete" => drive = Whole /\ pipes[p].last = N

\* Once the row says completed nothing is at work that could write or remove the file.
CompletedOK ==
  task = "completed" /\ ~crossed =>
    /\ drive = Whole /\ current = 0
    /\ \A p \in Pipes : ~Lives(p)
    /\ \A p \in Pipes : Latest(p) => pipes[p].last = N /\ ~pipes[p].reported

ContextsOK == \A p \in Pipes : ContextOK(p)

AllAloneOK == \A p \in Pipes : AloneOK(p)

LiveInv == /\ LiveTypeOK /\ SenderOK /\ OpenedInOrder /\ ServingOK /\ CurrentOK
           /\ ContextsOK /\ AllAloneOK /\ CompletedOK

-----------------------------------------------------------------------------
(* Types *)

Rclones == {"none", "open", "stored", "broken", "closed"}

Handlers == {"none", "finish", "complete", "remove", "report", "done"}

PipeRecords ==
  [out : Files, last : 0..N, ended : BOOLEAN, rclone : Rclones, reported : BOOLEAN,
   handler : Handlers]

LEMMA InOrderOK ==
  ASSUME NEW len \in 0..N
  PROVE  /\ InOrder(len) \in UNION {[1..n -> 1..N] : n \in 0..(N + 1)}
         /\ \A torn \in BOOLEAN : [chunks |-> InOrder(len), torn |-> torn] \in Files
<1>1. len \in 0..(N + 1) /\ InOrder(len) \in [1..len -> 1..N]
  BY LiveAssumption DEF InOrder
<1>2. InOrder(len) \in UNION {[1..n -> 1..N] : n \in 0..(N + 1)}
  BY <1>1
<1> QED  BY <1>2 DEF Files

LEMMA AppendNext ==
  ASSUME NEW len \in Nat
  PROVE  Append(InOrder(len), len + 1) = InOrder(len + 1)
BY DEF InOrder

LEMMA NothingInOrder == Nothing.chunks = InOrder(0) /\ ~Nothing.torn /\ Nothing \in Files
<1>1. <<>> = InOrder(0)  BY DEF InOrder
<1>2. 0 \in 0..N  BY LiveAssumption
<1>3. Nothing = [chunks |-> InOrder(0), torn |-> FALSE]  BY <1>1 DEF Nothing
<1> QED  BY <1>1, <1>2, <1>3, InOrderOK DEF Nothing

LEMMA InitLiveInv == LiveInit => LiveInv
<1> SUFFICES ASSUME LiveInit  PROVE LiveInv
  OBVIOUS
<1>1. NoPipe \in PipeRecords
  BY NothingInOrder, LiveAssumption DEF NoPipe, PipeRecords, Rclones, Handlers
<1>2. /\ \A p \in Pipes : pipes[p] = NoPipe
      /\ pipes \in [Pipes -> PipeRecords]
  BY <1>1 DEF LiveInit
<1>3. LiveTypeOK
  <2>1. pipes \in [Pipes -> PipeRecords] /\ drive \in Files
    BY <1>2, NothingInOrder DEF LiveInit
  <2>2. task \in Statuses /\ owned \in BOOLEAN /\ crossed \in BOOLEAN /\ current = 0
        /\ upsets \in 0..MaxUpsets /\ posts \subseteq Posts
    <3>1. task = "downloading" /\ posts = {} /\ current = 0 /\ upsets = 0
      BY DEF LiveInit
    <3>2. owned \in BOOLEAN /\ crossed \in BOOLEAN  BY DEF LiveInit
    <3> QED  BY <3>1, <3>2, LiveAssumption DEF Statuses
  <2>3. sender \in [k : 1..(N + 1), post : Posts \cup {NoPost}, stopped : BOOLEAN]
    BY LiveAssumption DEF LiveInit
  <2>4. serving \in [post : Posts \cup {NoPost}, pipe : Pipes \cup {0},
                     step : {"free", "write", "remove", "reset"}]
    BY DEF LiveInit, Idle
  <2> QED  BY <2>1, <2>2, <2>3, <2>4 DEF LiveTypeOK, PipeRecords, Rclones, Handlers
<1>4. ContextsOK
  BY <1>2, NothingInOrder DEF ContextsOK, ContextOK, NoPipe, Opened
<1>5. AllAloneOK  BY <1>2 DEF AllAloneOK, AloneOK, NoPipe, Opened, Lives
<1>6. SenderOK /\ OpenedInOrder /\ ServingOK /\ CurrentOK /\ CompletedOK
  BY <1>2 DEF LiveInit, SenderOK, OpenedInOrder, ServingOK, CurrentOK, CompletedOK, Idle, Opened, NoPipe
<1> QED  BY <1>3, <1>4, <1>5, <1>6 DEF LiveInv

\* The ways a context changes
LEMMA PipeFields ==
  ASSUME LiveTypeOK, NEW p \in Pipes
  PROVE  /\ pipes \in [Pipes -> PipeRecords] /\ pipes[p].out \in Files /\ pipes[p].last \in 0..N
         /\ pipes[p].ended \in BOOLEAN /\ pipes[p].reported \in BOOLEAN
         /\ pipes[p].rclone \in Rclones
         /\ pipes[p].handler \in Handlers
BY DEF LiveTypeOK, PipeRecords, Rclones, Handlers

Others(p) == \A q \in Pipes : q # p => pipes'[q] = pipes[q]

\* The handlers of p do a step.
LEMMA HandsFields ==
  ASSUME LiveTypeOK, NEW p \in Pipes, NEW step, Hands(p, step)
  PROVE  /\ pipes'[p].out = pipes[p].out /\ pipes'[p].last = pipes[p].last
         /\ pipes'[p].ended = pipes[p].ended /\ pipes'[p].rclone = pipes[p].rclone
         /\ pipes'[p].reported = pipes[p].reported /\ pipes'[p].handler = step
         /\ Others(p)
BY PipeFields DEF Hands, LiveTypeOK, Others

\* Its rclone stores the file, or breaks down.
LEMMA RcloneFields ==
  ASSUME LiveTypeOK, NEW p \in Pipes, NEW state, pipes' = [pipes EXCEPT ![p].rclone = state]
  PROVE  /\ pipes'[p].out = pipes[p].out /\ pipes'[p].last = pipes[p].last
         /\ pipes'[p].ended = pipes[p].ended /\ pipes'[p].rclone = state
         /\ pipes'[p].reported = pipes[p].reported /\ pipes'[p].handler = pipes[p].handler
         /\ Others(p)
BY PipeFields DEF LiveTypeOK, Others

\* It is killed by a reset or a clean-up.
LEMMA KilledFields ==
  ASSUME LiveTypeOK, NEW p \in Pipes,
         pipes' = [pipes EXCEPT ![p].ended = TRUE,
                                ![p].rclone = IF @ = "open" THEN "broken" ELSE @]
  PROVE  /\ pipes'[p].out = pipes[p].out /\ pipes'[p].last = pipes[p].last
         /\ pipes'[p].ended
         /\ pipes'[p].rclone = IF pipes[p].rclone = "open" THEN "broken" ELSE pipes[p].rclone
         /\ pipes'[p].reported = pipes[p].reported /\ pipes'[p].handler = pipes[p].handler
         /\ Others(p)
BY PipeFields DEF LiveTypeOK, Others

LEMMA GivenUpFields ==
  ASSUME LiveTypeOK, NEW p \in Pipes, NEW torn \in BOOLEAN,
         \/ pipes' = [pipes EXCEPT ![p] = [GivenUp(@) EXCEPT !.out.torn = torn]]
         \/ pipes' = [pipes EXCEPT ![p] = GivenUp(@)]
  PROVE  /\ pipes'[p].out.chunks = pipes[p].out.chunks /\ pipes'[p].out.torn \in BOOLEAN
         /\ pipes'[p].last = pipes[p].last /\ pipes'[p].ended
         /\ pipes'[p].rclone = pipes[p].rclone
         /\ pipes'[p].reported = pipes[p].reported /\ pipes'[p].handler = pipes[p].handler
         /\ Others(p)
<1>1. pipes[p].out \in [chunks : UNION {[1..n -> 1..N] : n \in 0..(N + 1)}, torn : BOOLEAN]
  BY PipeFields DEF Files
<1>2. CASE pipes' = [pipes EXCEPT ![p] = [GivenUp(@) EXCEPT !.out.torn = torn]]
  BY <1>1, <1>2 DEF LiveTypeOK, Others, GivenUp
<1>3. CASE pipes' = [pipes EXCEPT ![p] = GivenUp(@)]
  BY <1>1, <1>3 DEF LiveTypeOK, Others, GivenUp
<1> QED  BY <1>2, <1>3

LEMMA OpenFields ==
  ASSUME LiveTypeOK, NEW p \in Pipes, pipes' = [pipes EXCEPT ![p] = [NoPipe EXCEPT !.rclone = "open"]]
  PROVE  /\ pipes'[p].out = Nothing /\ pipes'[p].last = 0 /\ ~pipes'[p].ended
         /\ pipes'[p].rclone = "open" /\ ~pipes'[p].reported /\ pipes'[p].handler = "none"
         /\ Others(p)
BY PipeFields DEF LiveTypeOK, Others, NoPipe

Senders == [k : 1..(N + 1), post : Posts \cup {NoPost}, stopped : BOOLEAN]

Servings == [post : Posts \cup {NoPost}, pipe : Pipes \cup {0},
             step : {"free", "write", "remove", "reset"}]

LEMMA LiveTyped ==
  LiveTypeOK <=>
    /\ task \in Statuses /\ owned \in BOOLEAN /\ sender \in Senders /\ posts \subseteq Posts
    /\ serving \in Servings /\ pipes \in [Pipes -> PipeRecords] /\ current \in Pipes \cup {0}
    /\ drive \in Files /\ crossed \in BOOLEAN /\ upsets \in 0..MaxUpsets
BY DEF LiveTypeOK, Senders, Servings, PipeRecords, Rclones, Handlers

\* The context that a step of the worker, of an rclone or of a handler may change
PipeStep(p) ==
  \/ Stores(p) \/ Dies(p) \/ ErrorEvent(p) \/ CloseEvent(p)
  \/ ValidateFile(p) \/ CompleteRow(p) \/ RemoveRemote(p) \/ FailRow(p)

LEMMA WritesNext ==
  ASSUME LiveInv, IsNext
  PROVE  /\ serving.pipe \in Pipes /\ serving.post \in Posts /\ serving.post.k \in 1..N
         /\ pipes[serving.pipe].last + 1 = serving.post.k
         /\ pipes[serving.pipe].last < N
<1>1. serving.step = "write" /\ serving.pipe \in Pipes /\ serving.post \in Posts
  BY DEF LiveInv, ServingOK, IsNext
<1>2. serving.post.k \in 1..N  BY <1>1 DEF Posts
<1>3. pipes[serving.pipe].last \in 0..N  BY <1>1, PipeFields DEF LiveInv
<1> QED  BY <1>1, <1>2, <1>3, LiveAssumption DEF IsNext, AlreadyWritten

LEMMA PipesType ==
  ASSUME LiveInv, LiveNext
  PROVE  pipes' \in [Pipes -> PipeRecords]
<1>0. LiveTypeOK /\ pipes \in [Pipes -> PipeRecords] /\ current \in Pipes \cup {0}
  BY LiveTyped DEF LiveInv
<1>v. /\ {"open", "stored", "broken", "closed"} \subseteq Rclones
      /\ {"finish", "complete", "remove", "report", "done"} \subseteq Handlers
  BY DEF Rclones, Handlers
<1>1. ASSUME NEW p \in Pipes, PipeStep(p)  PROVE pipes' \in [Pipes -> PipeRecords]
  <2>1. ASSUME NEW step \in {"complete", "remove", "report", "done"}, Hands(p, step)
        PROVE  pipes' \in [Pipes -> PipeRecords]
    BY <1>0, <1>v, <2>1 DEF Hands, PipeRecords
  <2>2. CASE Stores(p) \/ Dies(p)  BY <1>0, <1>v, <2>2 DEF Stores, Dies, PipeRecords
  <2>3. CASE ErrorEvent(p)  BY <1>0, <1>v, <2>3 DEF ErrorEvent, PipeRecords
  <2>4. CASE CloseEvent(p)
    <3> DEFINE handler == IF pipes[p].reported THEN pipes[p].handler
                          ELSE IF pipes[p].rclone = "stored" THEN "finish" ELSE "remove"
    <3>1. handler \in Handlers
      BY <1>0, <1>v, PipeFields
    <3>2. pipes' = [pipes EXCEPT ![p].rclone = "closed",
                                 ![p].reported = @ \/ pipes[p].rclone = "broken",
                                 ![p].handler = handler]
      BY <2>4 DEF CloseEvent
    <3> HIDE DEF handler
    <3>3. CASE pipes[p].rclone = "broken" \/ pipes[p].reported
      <4>1. pipes' = [pipes EXCEPT ![p].rclone = "closed", ![p].reported = TRUE, ![p].handler = handler]
        BY <3>2, <3>3
      <4> QED  BY ZenonT(30), <1>0, <1>v, <3>1, <4>1 DEF PipeRecords
    <3>4. CASE pipes[p].rclone # "broken" /\ ~pipes[p].reported
      <4>1. pipes' = [pipes EXCEPT ![p].rclone = "closed", ![p].reported = FALSE, ![p].handler = handler]
        BY <3>2, <3>4
      <4> QED  BY ZenonT(30), <1>0, <1>v, <3>1, <4>1 DEF PipeRecords
    <3> QED  BY <3>3, <3>4
  <2>5. CASE ValidateFile(p) \/ CompleteRow(p) \/ RemoveRemote(p) \/ FailRow(p)
    BY <2>1, <2>5 DEF ValidateFile, CompleteRow, RemoveRemote, FailRow
  <2> QED  BY <1>1, <2>2, <2>3, <2>4, <2>5 DEF PipeStep
<1>2. CASE WriteBody
  <2> DEFINE p == serving.pipe
             k == serving.post.k
  <2>1. /\ p \in Pipes /\ k \in 1..N /\ pipes[p].last + 1 = k
        /\ pipes' = [pipes EXCEPT ![p].out.chunks = Append(@, k), ![p].last = k,
                                  ![p].ended = (k = N)]
    BY <1>2, WritesNext DEF WriteBody
  <2>2. Append(pipes[p].out.chunks, k) = InOrder(k)
    <3>1. pipes[p].out.chunks = InOrder(pipes[p].last)  BY <2>1 DEF LiveInv, ContextsOK, ContextOK
    <3>2. pipes[p].last \in Nat  BY <1>0, <2>1, PipeFields, LiveAssumption
    <3>3. k = pipes[p].last + 1  BY <2>1
    <3> QED  BY <3>1, <3>2, <3>3, AppendNext
  <2>3. pipes[p].out \in Files  BY <1>0, <2>1, PipeFields
  <2>4. [pipes[p].out EXCEPT !.chunks = Append(@, k)] \in Files
    <3>1. k \in 0..N  BY <2>1, LiveAssumption
    <3>2. InOrder(k) \in UNION {[1..n -> 1..N] : n \in 0..(N + 1)}
      BY <3>1, InOrderOK
    <3> QED  BY <2>2, <2>3, <3>2 DEF Files
  <2> HIDE DEF p, k
  <2>5. pipes' = [pipes EXCEPT ![p].out = [pipes[p].out EXCEPT !.chunks = Append(@, k)],
                               ![p].last = k, ![p].ended = (k = N)]
    BY <1>0, <2>1 DEF PipeRecords, Files
  <2> QED  BY <1>0, <2>1, <2>4, <2>5, LiveAssumption DEF PipeRecords
<1>3. CASE WriteBreaks
  <2> DEFINE p == serving.pipe
  <2>1. p \in Pipes  BY <1>3, WritesNext DEF WriteBreaks
  <2>2. pipes[p].out \in Files  BY <1>0, <2>1, PipeFields
  <2>3. \/ \E torn \in BOOLEAN : pipes' = [pipes EXCEPT ![p] = [GivenUp(@) EXCEPT !.out.torn = torn]]
        \/ pipes' = [pipes EXCEPT ![p] = GivenUp(@)]
    BY <1>3 DEF WriteBreaks
  <2> HIDE DEF p
  <2>4. CASE pipes' = [pipes EXCEPT ![p] = GivenUp(@)]
    BY <1>0, <2>1, <2>4 DEF PipeRecords, GivenUp
  <2>5. ASSUME NEW torn \in BOOLEAN, pipes' = [pipes EXCEPT ![p] = [GivenUp(@) EXCEPT !.out.torn = torn]]
        PROVE  pipes' \in [Pipes -> PipeRecords]
    <3>1. [pipes[p].out EXCEPT !.torn = torn] \in Files  BY <2>2 DEF Files
    <3>2. pipes' = [pipes EXCEPT ![p].ended = TRUE, ![p].out = [pipes[p].out EXCEPT !.torn = torn]]
      BY <1>0, <2>1, <2>5 DEF PipeRecords, GivenUp
    <3> QED  BY <1>0, <2>1, <3>1, <3>2 DEF PipeRecords
  <2> QED  BY <2>3, <2>4, <2>5
<1>4. CASE BeginReset \/ CleanStale
  <2>1. current \in Pipes  BY <1>0, <1>4 DEF BeginReset, CleanStale
  <2>2. PICK state \in Rclones :
          pipes' = [pipes EXCEPT ![current].ended = TRUE, ![current].rclone = state]
    <3> DEFINE state == IF pipes[current].rclone = "open" THEN "broken" ELSE pipes[current].rclone
    <3>1. state \in Rclones  BY <1>0, <1>v, <2>1, PipeFields
    <3>2. pipes' = [pipes EXCEPT ![current].ended = TRUE, ![current].rclone = state]
      BY <1>0, <1>4, <2>1 DEF BeginReset, CleanStale, PipeRecords
    <3> QED  BY <3>1, <3>2
  <2> QED  BY <1>0, <2>1, <2>2 DEF PipeRecords
<1>5. ASSUME NEW m \in posts, OpenPipe(m)  PROVE pipes' \in [Pipes -> PipeRecords]
  <2>1. [NoPipe EXCEPT !.rclone = "open"] \in PipeRecords
    <3>1. NoPipe \in PipeRecords
      BY NothingInOrder, LiveAssumption DEF NoPipe, PipeRecords, Rclones, Handlers
    <3> QED  BY <1>v, <3>1 DEF PipeRecords
  <2> QED  BY <1>0, <1>5, <2>1 DEF OpenPipe
<1>6. CASE UNCHANGED pipes  BY <1>0, <1>6
<1> QED
  BY <1>1, <1>2, <1>3, <1>4, <1>5, <1>6
     DEF LiveNext, PipeStep, Post, PostTimesOut, Register, RefusePost, OpenFails, TakePost, AnswerAgain,
         RefuseGap, RemovePartial, EndReset, Quiet, liveVars

LEMMA UpsetBound == ASSUME LiveInv, Upset  PROVE upsets' \in 0..MaxUpsets
BY LiveAssumption DEF LiveInv, LiveTypeOK, Upset

\* What answers and failures do to the sender
LEMMA AcceptsType ==
  ASSUME LiveInv, NEW m \in Posts, Accepts(m)
  PROVE  sender' \in Senders /\ SenderOK' /\ posts' \subseteq Posts /\ upsets' \in 0..MaxUpsets
<1>0. sender \in Senders /\ SenderOK /\ m # NoPost /\ posts \subseteq Posts
  BY LiveAssumption, LiveTyped DEF LiveInv, Posts, NoPost
<1>1. sender.k \in 1..(N + 1)  BY <1>0 DEF Senders
<1>2. CASE sender.post = m
  <2>1. sender.k + 1 \in 1..(N + 1)  BY <1>0, <1>1, <1>2, LiveAssumption DEF SenderOK
  <2>2. sender' = [sender EXCEPT !.post = NoPost, !.k = @ + 1]  BY <1>2 DEF Accepts
  <2> QED  BY <1>0, <2>1, <2>2 DEF Senders, SenderOK, Accepts, LiveInv, LiveTypeOK
<1>3. CASE sender.post # m
  BY <1>0, <1>3 DEF Accepts, LiveInv, LiveTypeOK, SenderOK
<1> QED  BY <1>2, <1>3

LEMMA AfterFailureType ==
  ASSUME LiveInv, sender' \in AfterFailure
  PROVE  sender' \in Senders /\ SenderOK'
<1>1. sender \in Senders  BY LiveTyped DEF LiveInv
<1>2. 1 \in 1..(N + 1)  BY LiveAssumption
<1> QED  BY <1>1, <1>2 DEF AfterFailure, Senders, SenderOK

LEMMA RefusesType ==
  ASSUME LiveInv, NEW m, Refuses(m)
  PROVE  sender' \in Senders /\ SenderOK' /\ posts' \subseteq Posts /\ upsets' \in 0..MaxUpsets
<1>0. sender \in Senders /\ posts \subseteq Posts /\ upsets \in 0..MaxUpsets /\ SenderOK
  BY LiveTyped DEF LiveInv
<1>1. CASE sender.post = m /\ Upset /\ sender' \in AfterFailure
  BY <1>0, <1>1, UpsetBound, AfterFailureType DEF Refuses
<1>2. CASE sender' = [sender EXCEPT !.post = NoPost, !.stopped = TRUE] /\ UNCHANGED upsets
  BY <1>0, <1>2 DEF Refuses, Senders, SenderOK
<1>3. CASE UNCHANGED <<sender, upsets>>
  BY <1>0, <1>3 DEF Refuses, SenderOK
<1> QED  BY <1>1, <1>2, <1>3 DEF Refuses

LEMMA SenderStep ==
  ASSUME LiveInv, LiveNext
  PROVE  sender' \in Senders /\ SenderOK' /\ posts' \subseteq Posts /\ upsets' \in 0..MaxUpsets
<1> DEFINE Good == sender' \in Senders /\ SenderOK' /\ posts' \subseteq Posts
                   /\ upsets' \in 0..MaxUpsets
<1>0. sender \in Senders /\ posts \subseteq Posts /\ upsets \in 0..MaxUpsets /\ SenderOK
  BY LiveTyped DEF LiveInv
<1>1. CASE Post
  <2>1. sender.k \in 1..N /\ [k |-> sender.k, n |-> upsets] \in Posts
    BY <1>0, <1>1, LiveAssumption DEF Post, Senders, Posts
  <2> QED  BY <1>0, <1>1, <2>1 DEF Post, Senders, SenderOK
<1>2. CASE PostTimesOut
  BY <1>0, <1>2, UpsetBound, AfterFailureType DEF PostTimesOut
<1>3. ASSUME UNCHANGED <<sender, posts>>, upsets' \in 0..MaxUpsets  PROVE Good
  BY <1>0, <1>3 DEF SenderOK
<1>4. CASE AnswerAgain \/ WriteBody
  <2>1. serving.post \in Posts /\ Accepts(serving.post)
    BY <1>4, WritesNext DEF AnswerAgain, WriteBody, LiveInv, ServingOK
  <2> QED  BY <2>1, AcceptsType
<1>5. CASE RefuseGap \/ RemovePartial \/ \E m \in posts : RefusePost(m) \/ OpenFails(m)
  BY <1>5, RefusesType DEF RefuseGap, RemovePartial, RefusePost, OpenFails
<1>6. CASE Register \/ EndReset \/ Quiet \/ \E m \in posts : OpenPipe(m) \/ TakePost(m)
  BY <1>0, <1>3, <1>6 DEF Register, EndReset, Quiet, liveVars, OpenPipe, TakePost
<1>7. CASE WriteBreaks \/ BeginReset \/ CleanStale
  BY <1>0, <1>3, <1>7, UpsetBound DEF WriteBreaks, BeginReset, CleanStale
<1>8. ASSUME NEW p \in Pipes, PipeStep(p)  PROVE Good
  BY <1>0, <1>3, <1>8, UpsetBound
     DEF PipeStep, Stores, Dies, ErrorEvent, CloseEvent, ValidateFile, CompleteRow, RemoveRemote,
         FailRow
<1> QED
  BY <1>1, <1>2, <1>4, <1>5, <1>6, <1>7, <1>8 DEF LiveNext, PipeStep

LEMMA FireType ==
  ASSUME LiveInv, NEW event \in {"start_stream_upload", "complete", "fail"}, Fire(event)
  PROVE  /\ task' \in Statuses
         /\ task \in TerminalStatuses => task' = task
         /\ event \in {"complete", "fail"} => task' \in TerminalStatuses
         /\ task' = "completed" => task = "completed" \/ event = "complete"
BY DEF LiveInv, LiveTypeOK, Fire, Allowed, AllowedFrom, TargetStatus, Statuses, TerminalStatuses,
       ActiveStatuses

LEMMA TaskStep ==
  ASSUME LiveInv, LiveNext
  PROVE  /\ task' \in Statuses
         /\ task \in TerminalStatuses => task' = task
         /\ task' = "completed" => task = "completed" \/ \E p \in Pipes : CompleteRow(p)
<1>1. CASE UNCHANGED task  BY <1>1 DEF LiveInv, LiveTypeOK
<1>2. CASE \E m \in posts : OpenPipe(m) \/ OpenFails(m)
  BY <1>2, FireType DEF OpenPipe, OpenFails
<1>3. CASE \E p \in Pipes : CompleteRow(p)  BY <1>3, FireType DEF CompleteRow
<1>4. CASE \E p \in Pipes : FailRow(p)  BY <1>4, FireType DEF FailRow
<1> QED
  BY <1>1, <1>2, <1>3, <1>4
     DEF LiveNext, Post, PostTimesOut, Register, RefusePost, TakePost, AnswerAgain, RefuseGap,
         WriteBody, WriteBreaks, RemovePartial, BeginReset, EndReset, Stores, Dies, ErrorEvent,
         CloseEvent, ValidateFile, RemoveRemote, CleanStale, Quiet, liveVars

LEMMA LiveTypeStep ==
  ASSUME LiveInv, LiveNext
  PROVE  LiveTypeOK'
<1>0. /\ owned \in BOOLEAN /\ serving \in Servings /\ pipes \in [Pipes -> PipeRecords]
      /\ current \in Pipes \cup {0} /\ drive \in Files /\ crossed \in BOOLEAN
      /\ posts \subseteq Posts
  BY LiveTyped DEF LiveInv
<1>1. owned' \in BOOLEAN /\ crossed' \in BOOLEAN
  BY <1>0
     DEF LiveNext, Post, PostTimesOut, Register, RefusePost, OpenPipe, OpenFails, TakePost,
         AnswerAgain, RefuseGap, WriteBody, WriteBreaks, RemovePartial, BeginReset, EndReset,
         Stores, Dies, ErrorEvent, CloseEvent, ValidateFile, CompleteRow, RemoveRemote, FailRow,
         CleanStale, Quiet, liveVars
<1>2. current' \in Pipes \cup {0}
  BY <1>0
     DEF LiveNext, Post, PostTimesOut, Register, RefusePost, OpenPipe, OpenFails, TakePost,
         AnswerAgain, RefuseGap, WriteBody, WriteBreaks, RemovePartial, BeginReset, EndReset,
         Stores, Dies, ErrorEvent, CloseEvent, ValidateFile, CompleteRow, RemoveRemote, FailRow,
         CleanStale, Quiet, liveVars
<1>3. drive' \in Files
  <2>1. ASSUME NEW p \in Pipes, Stores(p)  PROVE drive' \in Files
    BY <2>1, PipeFields DEF Stores, LiveInv
  <2>2. drive' \in {drive, Nothing} \/ \E p \in Pipes : Stores(p)
    BY DEF LiveNext, Post, PostTimesOut, Register, RefusePost, OpenPipe, OpenFails, TakePost,
         AnswerAgain, RefuseGap, WriteBody, WriteBreaks, RemovePartial, BeginReset, EndReset,
         Dies, ErrorEvent, CloseEvent, ValidateFile, CompleteRow, RemoveRemote, FailRow,
         CleanStale, Quiet, liveVars
  <2> QED  BY <1>0, <2>1, <2>2, NothingInOrder
<1>4. serving' \in Servings
  <2>1. Idle \in Servings  BY DEF Idle, Servings
  <2>2. CASE \E m \in posts : OpenPipe(m) \/ TakePost(m)
    BY <1>0, <2>2 DEF OpenPipe, TakePost, Servings
  <2>3. CASE BeginReset  BY <1>0, <2>3 DEF BeginReset, Servings, Idle
  <2>4. CASE WriteBreaks  BY <1>0, <2>4 DEF WriteBreaks, Servings
  <2>5. serving' \in {serving, Idle} \/ BeginReset \/ WriteBreaks
        \/ \E m \in posts : OpenPipe(m) \/ TakePost(m)
    BY DEF LiveNext, Post, PostTimesOut, Register, RefusePost, OpenFails, AnswerAgain, RefuseGap,
         WriteBody, RemovePartial, EndReset, Stores, Dies, ErrorEvent, CloseEvent, ValidateFile,
         CompleteRow, RemoveRemote, FailRow, CleanStale, Quiet, liveVars
  <2> QED  BY <1>0, <2>1, <2>2, <2>3, <2>4, <2>5
<1> QED
  BY <1>1, <1>2, <1>3, <1>4, PipesType, SenderStep, TaskStep
     DEF LiveTypeOK, Senders, Servings, PipeRecords, Rclones, Handlers

-----------------------------------------------------------------------------
(* Which context is the latest *)

LEMMA LatestUnique ==
  ASSUME NEW p \in Pipes, NEW q \in Pipes, Latest(p), Latest(q)
  PROVE  p = q
<1>1. p \in Nat /\ q \in Nat  BY LiveAssumption
<1>2. ~(p > q) /\ ~(q > p)  BY DEF Latest
<1> QED  BY <1>1, <1>2

LEMMA SameOpened ==
  ASSUME LiveInv, \A q \in Pipes : pipes'[q].rclone = "none" <=> pipes[q].rclone = "none"
  PROVE  OpenedInOrder' /\ \A q \in Pipes : Latest(q)' <=> Latest(q)
<1>1. OpenedInOrder'  BY DEF LiveInv, OpenedInOrder, Opened
<1>2. \A q \in Pipes : Latest(q)' <=> Latest(q)  BY DEF Latest, Opened
<1> QED  BY <1>1, <1>2

\* A context that is at work while none has crossed another is the latest.
LEMMA AloneAtWork ==
  ASSUME LiveInv, ~crossed, NEW p \in Pipes, Lives(p), NEW q \in Pipes, Latest(q) \/ Lives(q)
  PROVE  p = q
<1>1. Latest(p) /\ (Lives(q) => Latest(q))  BY DEF LiveInv, AllAloneOK, AloneOK
<1> QED  BY <1>1, LatestUnique

Rest == OpenedInOrder /\ ServingOK /\ CurrentOK /\ ContextsOK /\ AllAloneOK /\ CompletedOK

\* Steps that touch neither a context nor the remote file
LEMMA PlainStep ==
  ASSUME LiveInv, LiveNext, UNCHANGED <<pipes, current, drive, crossed>>,
         ~ \E p \in Pipes : CompleteRow(p),
         serving' \in {serving, Idle} \/ \E m \in posts : TakePost(m)
  PROVE  Rest'
<1>1. OpenedInOrder' /\ \A q \in Pipes : Latest(q)' <=> Latest(q)  BY SameOpened
<1>2. /\ task \in TerminalStatuses => task' = task
      /\ task' = "completed" => task = "completed"
  BY TaskStep
<1>3. ServingOK'
  <2>1. CASE serving' = serving
    <3>1. ServingOK  BY DEF LiveInv
    <3>2. serving.step # "free" => Latest(serving.pipe)'  BY <1>1, <2>1, <3>1 DEF ServingOK
    <3> QED  BY <2>1, <3>1, <3>2 DEF ServingOK
  <2>2. CASE serving' = Idle  BY <2>2 DEF ServingOK, Idle
  <2>3. CASE \E m \in posts : TakePost(m)
    <3>1. PICK m \in posts : current # 0 /\ serving' = [post |-> m, pipe |-> current, step |-> "write"]
      BY <2>3 DEF TakePost
    <3>2. m \in Posts /\ current \in Pipes /\ Latest(current)
      BY <3>1 DEF LiveInv, LiveTypeOK, CurrentOK
    <3>3. Latest(current)'  BY <1>1, <3>2
    <3> QED  BY <3>1, <3>2, <3>3 DEF ServingOK
  <2> QED  BY <2>1, <2>2, <2>3
<1>4. CurrentOK'
  BY <1>1 DEF LiveInv, LiveTypeOK, CurrentOK
<1>5. ContextsOK'
  BY <1>2 DEF LiveInv, ContextsOK, ContextOK, Opened
<1>6. AllAloneOK'
  BY <1>1 DEF LiveInv, AllAloneOK, AloneOK, Lives
<1>7. CompletedOK'
  BY <1>1, <1>2 DEF LiveInv, CompletedOK, Lives
<1> QED  BY <1>1, <1>3, <1>4, <1>5, <1>6, <1>7 DEF Rest

LEMMA OpenPipeRest ==
  ASSUME LiveInv, LiveNext, NEW m \in posts, OpenPipe(m)
  PROVE  Rest'
<1>1. PICK p \in Pipes :
        /\ pipes[p] = NoPipe /\ \A q \in Pipes : q < p => pipes[q] # NoPipe
        /\ pipes' = [pipes EXCEPT ![p] = [NoPipe EXCEPT !.rclone = "open"]]
        /\ current' = p
        /\ serving' = [post |-> m, pipe |-> p, step |-> "write"]
  BY DEF OpenPipe
<1>2. /\ crossed' = (crossed \/ \E q \in Pipes : Lives(q)) /\ drive' = drive
      /\ task \notin TerminalStatuses
  BY DEF OpenPipe, Allowed, AllowedFrom, TerminalStatuses
<1>3. /\ pipes'[p].out = Nothing /\ pipes'[p].last = 0 /\ ~pipes'[p].ended
      /\ pipes'[p].rclone = "open" /\ ~pipes'[p].reported /\ pipes'[p].handler = "none"
      /\ Others(p)
  BY <1>1, OpenFields DEF LiveInv
<1>4. /\ p \in Nat /\ Pipes \subseteq Nat /\ ~Opened(p)
      /\ \A q \in Pipes : q < p => Opened(q)
  <2>1. \A q \in Pipes : ~Opened(q) => pipes[q] = NoPipe
    BY DEF LiveInv, ContextsOK, ContextOK
  <2>2. ~Opened(p)  BY <1>1 DEF Opened, NoPipe
  <2> QED  BY <1>1, <2>1, <2>2, LiveAssumption
<1>5. \A q \in Pipes : q > p => ~Opened(q)
  BY <1>4 DEF LiveInv, OpenedInOrder
<1>6. \A q \in Pipes : (Opened(q)' <=> Opened(q) \/ q = p)
  BY <1>3 DEF Opened, Others
<1>7. Latest(p)'
  <2>1. \A q \in Pipes : q > p => ~Opened(q)'  BY <1>4, <1>5, <1>6
  <2> QED  BY <1>6, <2>1 DEF Latest
<1>8. OpenedInOrder'
  <2> SUFFICES ASSUME NEW a \in Pipes, NEW b \in Pipes, b < a, Opened(a)'  PROVE Opened(b)'
    BY DEF OpenedInOrder
  <2>1. a = p => Opened(b)  BY <1>4
  <2>2. a # p => Opened(b)  BY <1>6 DEF LiveInv, OpenedInOrder
  <2> QED  BY <1>6, <2>1, <2>2
<1>9. ServingOK'
  <2>1. m \in Posts  BY DEF LiveInv, LiveTypeOK
  <2> QED  BY <1>1, <1>7, <2>1 DEF ServingOK
<1>10. CurrentOK'  BY <1>1, <1>3, <1>7 DEF CurrentOK
<1>11. \A q \in Pipes : ContextOK(q)'
  <2>1. ContextOK(p)'  BY <1>3, NothingInOrder DEF ContextOK, Opened
  <2>2. ASSUME NEW q \in Pipes, q # p  PROVE ContextOK(q)'
    <3>1. ContextOK(q) /\ pipes'[q] = pipes[q] /\ (task \in TerminalStatuses => task' = task)
      BY <1>3, <2>2, TaskStep DEF LiveInv, ContextsOK, Others
    <3> QED  BY <1>2, <3>1 DEF ContextOK, Opened
  <2> QED  BY <2>1, <2>2
<1>12. ASSUME ~crossed'  PROVE \A q \in Pipes : q # p => ~Lives(q)'
  BY <1>2, <1>3, <1>12 DEF Lives, Others
<1>13. \A q \in Pipes : AloneOK(q)'
  <2>1. AloneOK(p)'  BY <1>1, <1>3, <1>7 DEF AloneOK
  <2>2. ASSUME NEW q \in Pipes, q # p  PROVE AloneOK(q)'
    <3>1. ContextOK(q)'  BY <1>11
    <3> QED  BY <1>12, <2>2, <3>1 DEF AloneOK, ContextOK, Lives, Opened
  <2> QED  BY <2>1, <2>2
<1>14. task' # "completed"
  BY <1>2, TaskStep DEF OpenPipe, Fire, TargetStatus, TerminalStatuses
<1>15. CompletedOK'  BY <1>14 DEF CompletedOK
<1> QED  BY <1>8, <1>9, <1>10, <1>11, <1>13, <1>15 DEF Rest, ContextsOK, AllAloneOK

-----------------------------------------------------------------------------
(* Steps of one context *)

\* A context that has stored its file, or whose file is being looked at, is at work.
LEMMA AtWork ==
  ASSUME LiveInv, NEW p \in Pipes,
         \/ pipes[p].rclone \in {"open", "stored", "broken"}
         \/ pipes[p].handler \in {"finish", "complete", "remove", "report"}
  PROVE  Lives(p)
<1>1. Opened(p)  BY DEF LiveInv, ContextsOK, ContextOK, NoPipe, Opened
<1> QED  BY <1>1 DEF Lives, Opened

\* The other contexts keep what is known of them.
LEMMA OtherContexts ==
  ASSUME LiveInv, LiveNext, NEW p \in Pipes, Others(p),
         pipes'[p].rclone = "none" <=> pipes[p].rclone = "none",
         crossed => crossed',
         ~crossed => drive' = drive \/ Lives(p),
         ~crossed => current' = current \/ Lives(p) \/ Latest(p),
         ContextOK(p)', AloneOK(p)'
  PROVE  /\ OpenedInOrder' /\ ContextsOK' /\ AllAloneOK'
         /\ \A q \in Pipes : Latest(q)' <=> Latest(q)
<1>1. OpenedInOrder' /\ \A q \in Pipes : Latest(q)' <=> Latest(q)
  <2>1. \A q \in Pipes : pipes'[q].rclone = "none" <=> pipes[q].rclone = "none"  BY DEF Others
  <2> QED  BY <2>1, SameOpened
<1>2. ASSUME NEW q \in Pipes, q # p  PROVE ContextOK(q)'
  <2>1. ContextOK(q) /\ pipes'[q] = pipes[q] /\ (task \in TerminalStatuses => task' = task)
    BY <1>2, TaskStep DEF LiveInv, ContextsOK, Others
  <2> QED  BY <2>1 DEF ContextOK, Opened
<1>3. ASSUME NEW q \in Pipes, q # p  PROVE AloneOK(q)'
  <2> SUFFICES ASSUME ~crossed'  PROVE AloneOK(q)'
    BY DEF AloneOK
  <2>1. ~crossed /\ AloneOK(q) /\ pipes'[q] = pipes[q] /\ (Latest(q)' <=> Latest(q))
    BY <1>1, <1>3 DEF LiveInv, AllAloneOK, Others
  <2>2. CASE Lives(q)
    <3>1. ~Lives(p) /\ ~Latest(p)  BY <1>3, <2>1, <2>2, AloneAtWork
    <3>2. drive' = drive /\ current' = current  BY <2>1, <3>1
    <3> QED  BY <2>1, <3>2 DEF AloneOK, Lives
  <2>3. CASE ~Lives(q)
    <3>1. /\ pipes[q].rclone \notin {"open", "stored"}
          /\ pipes[q].handler \notin {"finish", "complete"}
      BY <2>3, AtWork
    <3> QED  BY <2>1, <2>3, <3>1 DEF AloneOK, Lives
  <2> QED  BY <2>2, <2>3
<1> QED  BY <1>1, <1>2, <1>3 DEF ContextsOK, AllAloneOK

LEMMA WriteBodyRest ==
  ASSUME LiveInv, LiveNext, WriteBody
  PROVE  Rest'
<1>1. PICK p \in Pipes, k \in 1..N :
      /\ p = serving.pipe /\ pipes[p].last + 1 = k /\ pipes[p].last < N
      /\ pipes[p].rclone = "open" /\ ~pipes[p].ended
      /\ pipes' = [pipes EXCEPT ![p].out.chunks = Append(@, k), ![p].last = k,
                                ![p].ended = (k = N)]
      /\ serving' = Idle /\ UNCHANGED <<task, current, drive, crossed>>
  BY WritesNext DEF WriteBody, Writable
<1>2. ContextOK(p) /\ AloneOK(p)  BY <1>1 DEF LiveInv, ContextsOK, AllAloneOK
<1>3. /\ pipes'[p].out.chunks = InOrder(k) /\ pipes'[p].out.torn = pipes[p].out.torn
      /\ pipes'[p].last = k /\ pipes'[p].ended = (k = N)
      /\ pipes'[p].rclone = pipes[p].rclone
      /\ pipes'[p].reported = pipes[p].reported /\ pipes'[p].handler = pipes[p].handler
      /\ Others(p)
  <2>1. LiveTypeOK  BY DEF LiveInv
  <2>2. pipes' = [pipes EXCEPT ![p].out.chunks = Append(@, k), ![p].last = k,
                               ![p].ended = (k = N)]
    BY <1>1
  <2>3. pipes[p].out \in [chunks : UNION {[1..n -> 1..N] : n \in 0..(N + 1)}, torn : BOOLEAN]
    BY <2>1, PipeFields DEF Files
  <2>4. /\ pipes'[p].out.chunks = Append(pipes[p].out.chunks, k)
        /\ pipes'[p].out.torn = pipes[p].out.torn
        /\ pipes'[p].last = k /\ pipes'[p].ended = (k = N)
        /\ pipes'[p].rclone = pipes[p].rclone
        /\ pipes'[p].reported = pipes[p].reported /\ pipes'[p].handler = pipes[p].handler
        /\ Others(p)
    BY <2>1, <2>2, <2>3 DEF LiveTypeOK, Others
  <2>5. Append(InOrder(pipes[p].last), k) = InOrder(k)
    <3>1. pipes[p].last \in Nat  BY <2>1, PipeFields, LiveAssumption
    <3> QED  BY <1>1, <3>1, AppendNext
  <2> QED  BY <1>2, <2>4, <2>5 DEF ContextOK
<1>4. Lives(p)  BY <1>1, AtWork
<1>5. ContextOK(p)'  BY <1>1, <1>2, <1>3 DEF ContextOK, Opened
<1>6. \A q \in Pipes : Latest(q)' <=> Latest(q)
  <2>1. \A q \in Pipes : pipes'[q].rclone = "none" <=> pipes[q].rclone = "none"
    BY <1>3 DEF Others
  <2> QED  BY <2>1, SameOpened
<1>7. AloneOK(p)'
  BY <1>1, <1>2, <1>3, <1>4, <1>6 DEF AloneOK, ContextOK
<1>8. OpenedInOrder' /\ ContextsOK' /\ AllAloneOK'
  BY <1>1, <1>3, <1>5, <1>7, OtherContexts
<1>9. ServingOK'  BY <1>1 DEF ServingOK, Idle
<1>10. CurrentOK'
  <2>1. CurrentOK /\ current \in Pipes \cup {0}  BY DEF LiveInv, LiveTypeOK
  <2>2. current # 0 => /\ pipes'[current].rclone = pipes[current].rclone
                       /\ pipes'[current].reported = pipes[current].reported
    BY <1>3, <2>1 DEF Others
  <2>3. current # 0 => Latest(current)'  BY <1>1, <1>6, <2>1 DEF CurrentOK
  <2> QED  BY <1>1, <2>1, <2>2, <2>3 DEF CurrentOK
<1>11. CompletedOK'
  <2>1. ~(task = "completed" /\ ~crossed)  BY <1>1, <1>4 DEF LiveInv, CompletedOK
  <2> QED  BY <1>1, <2>1 DEF CompletedOK
<1> QED  BY <1>8, <1>9, <1>10, <1>11 DEF Rest

LEMMA WriteBreaksRest ==
  ASSUME LiveInv, LiveNext, WriteBreaks
  PROVE  Rest'
<1>1. PICK p \in Pipes :
      /\ p = serving.pipe /\ pipes[p].last < N /\ serving.post \in Posts /\ Latest(p)
      /\ current' = 0 /\ serving' = [serving EXCEPT !.step = "remove"]
      /\ UNCHANGED <<task, drive, crossed>>
  BY WritesNext DEF WriteBreaks, LiveInv, ServingOK, IsNext
<1>2. ContextOK(p) /\ AloneOK(p)  BY <1>1 DEF LiveInv, ContextsOK, AllAloneOK
<1>3. /\ pipes'[p].out.chunks = pipes[p].out.chunks
      /\ pipes'[p].last = pipes[p].last /\ pipes'[p].ended
      /\ pipes'[p].rclone = pipes[p].rclone
      /\ pipes'[p].reported = pipes[p].reported /\ pipes'[p].handler = pipes[p].handler
      /\ Others(p)
      /\ pipes'[p].out = pipes[p].out \/ pipes[p].rclone = "open"
  <2>1. CASE pipes[p].rclone = "open"
    <3>1. PICK torn \in BOOLEAN :
            \/ pipes' = [pipes EXCEPT ![p] = [GivenUp(@) EXCEPT !.out.torn = torn]]
            \/ pipes' = [pipes EXCEPT ![p] = GivenUp(@)]
      BY <1>1 DEF WriteBreaks
    <3> QED  BY <1>1, <2>1, <3>1, GivenUpFields DEF LiveInv
  <2>2. CASE pipes[p].rclone # "open"
    <3>1. pipes' = [pipes EXCEPT ![p] = GivenUp(@)]
      BY <1>1, <2>2 DEF WriteBreaks, Writable
    <3>2. pipes'[p].out = pipes[p].out
      BY <1>1, <3>1, PipeFields DEF GivenUp, LiveInv, PipeRecords
    <3> QED  BY <1>1, <3>1, <3>2, GivenUpFields DEF LiveInv
  <2> QED  BY <2>1, <2>2
<1>s. serving'.pipe = p /\ serving'.step = "remove" /\ serving'.post = serving.post
  <2>1. serving \in Servings  BY LiveTyped DEF LiveInv
  <2> QED  BY <1>1, <2>1 DEF Servings
<1>5. ContextOK(p)'  BY <1>1, <1>2, <1>3 DEF ContextOK, Opened, NoPipe, Latest
<1>6. \A q \in Pipes : Latest(q)' <=> Latest(q)
  <2>1. \A q \in Pipes : pipes'[q].rclone = "none" <=> pipes[q].rclone = "none"
    BY <1>3 DEF Others
  <2> QED  BY <2>1, SameOpened
<1>7. AloneOK(p)'
  <2>1. pipes[p].rclone = "open" => pipes[p].handler # "finish"  BY <1>2 DEF ContextOK
  <2> QED  BY <1>1, <1>2, <1>3, <1>6, <2>1 DEF AloneOK, Lives
<1>8. OpenedInOrder' /\ ContextsOK' /\ AllAloneOK'
  BY <1>1, <1>3, <1>5, <1>7, OtherContexts
<1>9. ServingOK'
  <2>1. Latest(p)'  BY <1>1, <1>6
  <2> QED  BY <1>1, <1>3, <1>s, <2>1 DEF ServingOK
<1>10. CurrentOK'  BY <1>1 DEF CurrentOK
<1>11. CompletedOK'
  <2>1. pipes[p].last # N  BY <1>1, PipeFields, LiveAssumption DEF LiveInv
  <2>2. ~(task = "completed" /\ ~crossed)  BY <1>1, <2>1 DEF LiveInv, CompletedOK
  <2> QED  BY <1>1, <2>2 DEF CompletedOK
<1> QED  BY <1>8, <1>9, <1>10, <1>11 DEF Rest

\* Removing the remote file, at the end of a failed request or of a reset
LEMMA RemovalRest ==
  ASSUME LiveInv, LiveNext, RemovePartial \/ EndReset
  PROVE  Rest'
<1>1. /\ drive' = Nothing /\ serving' = Idle /\ UNCHANGED <<task, pipes, crossed>>
      /\ current' = current \/ (EndReset /\ current' = 0)
      /\ serving.step \in {"remove", "reset"} /\ (EndReset => serving.step = "reset")
      /\ (RemovePartial => serving.step = "remove")
  BY DEF RemovePartial, EndReset
<1>2. PICK p \in Pipes : p = serving.pipe /\ Latest(p)
  BY <1>1 DEF LiveInv, ServingOK
<1>3. OpenedInOrder' /\ \A q \in Pipes : Latest(q)' <=> Latest(q)
  BY <1>1, SameOpened
<1>4. \A q \in Pipes : ContextOK(q) /\ AloneOK(q) /\ CurrentOK
  BY DEF LiveInv, ContextsOK, AllAloneOK
<1>5. ContextsOK'
  BY <1>1, <1>4 DEF ContextsOK, ContextOK, Opened
<1>6. ASSUME ~crossed, NEW q \in Pipes, Lives(q)
      PROVE  /\ q = p
             /\ pipes[q].rclone \in {"open", "stored"} \/ pipes[q].handler \in {"finish", "complete"}
                  => serving.step = "remove" /\ pipes[q].last < N /\ pipes[q].ended
  <2>1. q = p  BY <1>2, <1>6, AloneAtWork
  <2>2. serving.step = "reset" => pipes[p].rclone = "broken" \/ pipes[p].reported
    BY <1>2, <1>6 DEF LiveInv, ServingOK
  <2>3. serving.step = "remove" => pipes[p].last < N /\ pipes[p].ended
    BY <1>2 DEF LiveInv, ServingOK
  <2>4. pipes[p].reported => /\ pipes[p].rclone \notin {"open", "stored"}
                             /\ pipes[p].handler \notin {"finish", "complete"}
    BY <1>4 DEF ContextOK
  <2>5. pipes[p].rclone = "broken" => pipes[p].handler \notin {"finish", "complete"}
    BY <1>4 DEF ContextOK
  <2> QED  BY <1>1, <2>1, <2>2, <2>3, <2>4, <2>5
<1>7. ASSUME NEW q \in Pipes  PROVE AloneOK(q)'
  <2> SUFFICES ASSUME ~crossed'  PROVE AloneOK(q)'
    BY DEF AloneOK
  <2>1. ~crossed /\ pipes' = pipes  BY <1>1
  <2>2. CASE Lives(q)
    <3>1. pipes[q].last < N => pipes[q].last # N  BY PipeFields, LiveAssumption DEF LiveInv
    <3> QED  BY <1>1, <1>3, <1>4, <1>6, <2>1, <2>2, <3>1 DEF AloneOK, Lives
  <2>3. CASE ~Lives(q)
    <3>1. /\ pipes[q].rclone \notin {"open", "stored"}
          /\ pipes[q].handler \notin {"finish", "complete"}
      BY <2>3, AtWork
    <3> QED  BY <2>1, <2>3, <3>1 DEF AloneOK, Lives
  <2> QED  BY <2>2, <2>3
<1>8. ServingOK'  BY <1>1 DEF ServingOK, Idle
<1>9. CurrentOK'
  BY <1>1, <1>3 DEF LiveInv, LiveTypeOK, CurrentOK
<1>10. CompletedOK'
  <2> SUFFICES ASSUME task = "completed", ~crossed  PROVE FALSE
    BY <1>1 DEF CompletedOK
  <2>1. pipes[p].last = N /\ ~pipes[p].reported /\ ~Lives(p)
    BY <1>2 DEF LiveInv, CompletedOK
  <2>2. serving.step = "remove" => pipes[p].last < N
    BY <1>2 DEF LiveInv, ServingOK
  <2>3. serving.step = "reset" => pipes[p].rclone = "broken" \/ pipes[p].reported
    BY <1>2 DEF LiveInv, ServingOK
  <2>4. ~(pipes[p].last < N)  BY <2>1, LiveAssumption
  <2> QED  BY <1>1, <2>1, <2>2, <2>3, <2>4, AtWork
<1> QED  BY <1>3, <1>5, <1>7, <1>8, <1>9, <1>10 DEF Rest, AllAloneOK

\* A context is killed, by a reset or by the clean-up.
LEMMA KillRest ==
  ASSUME LiveInv, LiveNext, BeginReset \/ CleanStale
  PROVE  Rest'
<1>1. PICK p \in Pipes :
        /\ p = current
        /\ pipes' = [pipes EXCEPT ![p].ended = TRUE,
                                  ![p].rclone = IF @ = "open" THEN "broken" ELSE @]
        /\ UNCHANGED <<task, drive>>
  BY DEF BeginReset, CleanStale, LiveInv, LiveTypeOK
<1>2. /\ pipes'[p].out = pipes[p].out /\ pipes'[p].last = pipes[p].last
      /\ pipes'[p].ended
      /\ pipes'[p].rclone = IF pipes[p].rclone = "open" THEN "broken" ELSE pipes[p].rclone
      /\ pipes'[p].reported = pipes[p].reported /\ pipes'[p].handler = pipes[p].handler
      /\ Others(p)
  <2>1. LiveTypeOK  BY DEF LiveInv
  <2> QED  BY <1>1, <2>1, KilledFields
<1>3. /\ Latest(p) /\ ~pipes[p].reported /\ pipes[p].rclone \in {"open", "stored", "broken"}
      /\ ContextOK(p) /\ AloneOK(p)
  BY <1>1, LiveAssumption DEF LiveInv, CurrentOK, ContextsOK, AllAloneOK
<1>4. /\ crossed => crossed'
      /\ current' = 0 \/ (BeginReset /\ current' = p)
      /\ \/ serving' = serving
         \/ serving'.step = "reset" /\ serving'.pipe = p
            /\ (~crossed' => pipes[p].rclone # "stored")
  <2>1. CASE CleanStale  BY <2>1 DEF CleanStale
  <2>2. CASE BeginReset
    <3>1. /\ crossed' = (crossed \/ pipes[p].rclone = "stored") /\ current' = current
          /\ serving' = [Idle EXCEPT !.pipe = p, !.step = "reset"]
      BY <1>1, <2>2 DEF BeginReset
    <3>2. serving'.step = "reset" /\ serving'.pipe = p  BY <3>1 DEF Idle
    <3> QED  BY <1>1, <2>2, <3>1, <3>2
  <2> QED  BY <2>1, <2>2
<1>5. \A q \in Pipes : Latest(q)' <=> Latest(q)
  <2>1. \A q \in Pipes : pipes'[q].rclone = "none" <=> pipes[q].rclone = "none"
    BY <1>2, <1>3 DEF Others
  <2> QED  BY <2>1, SameOpened
<1>6. ContextOK(p)'  BY <1>1, <1>2, <1>3 DEF ContextOK, Opened
<1>7. AloneOK(p)'
  BY <1>1, <1>2, <1>3, <1>4, <1>5 DEF AloneOK, ContextOK, Lives
<1>8. OpenedInOrder' /\ ContextsOK' /\ AllAloneOK'
  <2>1. pipes'[p].rclone = "none" <=> pipes[p].rclone = "none"  BY <1>2, <1>3
  <2> QED  BY <1>1, <1>2, <1>3, <1>4, <1>6, <1>7, <2>1, OtherContexts
<1>9. ServingOK'
  <2>1. CASE serving' = serving /\ serving.step # "free"
    <3>1. PICK s \in Pipes : s = serving.pipe /\ Latest(s)
      BY <2>1 DEF LiveInv, ServingOK
    <3>2. s = p  BY <1>3, <3>1, LatestUnique
    <3>3. ServingOK  BY DEF LiveInv
    <3>4. Latest(s)'  BY <1>5, <3>1
    <3> QED  BY <1>2, <1>4, <2>1, <3>1, <3>2, <3>3, <3>4 DEF ServingOK
  <2>2. CASE serving' = serving /\ serving.step = "free"
    BY <2>2 DEF ServingOK
  <2>3. CASE serving'.step = "reset" /\ serving'.pipe = p /\ (~crossed' => pipes[p].rclone # "stored")
    BY <1>2, <1>3, <1>5, <2>3 DEF ServingOK
  <2> QED  BY <1>4, <2>1, <2>2, <2>3
<1>10. CurrentOK'
  <2>1. CASE current' = 0  BY <2>1 DEF CurrentOK
  <2>2. CASE current' = p  BY <1>2, <1>3, <1>5, <2>2 DEF CurrentOK
  <2> QED  BY <1>4, <2>1, <2>2
<1>11. CompletedOK'
  <2>1. ~(task = "completed" /\ ~crossed)
    BY <1>1, LiveAssumption DEF LiveInv, CompletedOK
  <2> QED  BY <1>1, <1>4, <2>1 DEF CompletedOK
<1> QED  BY <1>8, <1>9, <1>10, <1>11 DEF Rest

\* A step of a context that is at work: its own part remains to be shown.
LEMMA WorkingRest ==
  ASSUME LiveInv, LiveNext, NEW p \in Pipes, Lives(p), Others(p), UNCHANGED <<serving, crossed>>,
         current' \in {current, 0},
         pipes'[p].rclone # "none", pipes'[p].last = pipes[p].last,
         pipes'[p].ended = pipes[p].ended,
         pipes[p].reported => pipes'[p].reported,
         pipes[p].rclone = "broken" => pipes'[p].rclone = "broken" \/ pipes'[p].reported,
         current' # 0 => \/ pipes'[p].rclone \in {"open", "stored", "broken"}
                            /\ pipes'[p].reported = pipes[p].reported
                         \/ current # p,
         ContextOK(p)', AloneOK(p)'
  PROVE  OpenedInOrder' /\ ServingOK' /\ CurrentOK' /\ ContextsOK' /\ AllAloneOK'
<1>0. pipes[p].rclone # "none"  BY DEF Lives
<1>1. /\ OpenedInOrder' /\ ContextsOK' /\ AllAloneOK'
      /\ \A q \in Pipes : Latest(q)' <=> Latest(q)
  BY <1>0, OtherContexts
<1>2. ServingOK'
  <2>1. CASE serving.step = "free"  BY <2>1 DEF ServingOK
  <2>2. CASE serving.step # "free"
    <3>1. PICK s \in Pipes : s = serving.pipe /\ Latest(s)
      BY <2>2 DEF LiveInv, ServingOK
    <3>2. Latest(s)'  BY <1>1, <3>1
    <3>3. /\ pipes'[s].last = pipes[s].last /\ pipes'[s].ended = pipes[s].ended
          /\ pipes[s].rclone = "broken" \/ pipes[s].reported
               => pipes'[s].rclone = "broken" \/ pipes'[s].reported
      BY DEF Others
    <3>4. ServingOK  BY DEF LiveInv
    <3> QED  BY <2>2, <3>1, <3>2, <3>3, <3>4 DEF ServingOK
  <2> QED  BY <2>1, <2>2
<1>3. CurrentOK'
  <2>1. CASE current' = 0  BY <2>1 DEF CurrentOK
  <2>2. CASE current' # 0
    <3>1. PICK c \in Pipes : c = current /\ current' = c
      BY <2>2 DEF LiveInv, LiveTypeOK
    <3>2. /\ Latest(c) /\ ~pipes[c].reported
          /\ pipes[c].rclone \in {"open", "stored", "broken"}
      BY <2>2, <3>1 DEF LiveInv, CurrentOK
    <3>3. Latest(c)'  BY <1>1, <3>2
    <3>4. ~pipes'[c].reported /\ pipes'[c].rclone \in {"open", "stored", "broken"}
      BY <2>2, <3>1, <3>2 DEF Others
    <3> QED  BY <3>1, <3>3, <3>4 DEF CurrentOK
  <2> QED  BY <2>1, <2>2
<1> QED  BY <1>1, <1>2, <1>3

LEMMA NotCompleted ==
  ASSUME LiveInv, NEW p \in Pipes, Lives(p)
  PROVE  ~(task = "completed" /\ ~crossed)
BY DEF LiveInv, CompletedOK

LEMMA RcloneRest ==
  ASSUME LiveInv, LiveNext, NEW p \in Pipes, Stores(p) \/ Dies(p)
  PROVE  Rest'
<1>1. PICK state \in {"stored", "broken"} :
        /\ pipes[p].rclone = "open" /\ pipes' = [pipes EXCEPT ![p].rclone = state]
        /\ UNCHANGED <<task, serving, current, crossed>>
        /\ state = "stored" => pipes[p].ended /\ drive' = pipes[p].out
        /\ state = "broken" => drive' = drive
  BY DEF Stores, Dies
<1>2. /\ pipes'[p].out = pipes[p].out /\ pipes'[p].last = pipes[p].last
      /\ pipes'[p].ended = pipes[p].ended /\ pipes'[p].rclone = state
      /\ pipes'[p].reported = pipes[p].reported /\ pipes'[p].handler = pipes[p].handler
      /\ Others(p)
  <2>1. LiveTypeOK  BY DEF LiveInv
  <2> QED  BY <1>1, <2>1, RcloneFields
<1>3. ContextOK(p) /\ AloneOK(p)  BY DEF LiveInv, ContextsOK, AllAloneOK
<1>4. Lives(p)  BY <1>1, AtWork
<1>5. Latest(p)' <=> Latest(p)
  <2>1. \A q \in Pipes : pipes'[q].rclone = "none" <=> pipes[q].rclone = "none"
    BY <1>1, <1>2 DEF Others
  <2> QED  BY <2>1, SameOpened
<1>6. ContextOK(p)'  BY <1>1, <1>2, <1>3 DEF ContextOK, Opened
<1>7. AloneOK(p)'  BY <1>1, <1>2, <1>3, <1>4, <1>5 DEF AloneOK, ContextOK, Lives
<1>8. OpenedInOrder' /\ ServingOK' /\ CurrentOK' /\ ContextsOK' /\ AllAloneOK'
  BY <1>1, <1>2, <1>4, <1>6, <1>7, WorkingRest
<1>9. CompletedOK'  BY <1>1, <1>4, NotCompleted DEF CompletedOK
<1> QED  BY <1>8, <1>9 DEF Rest

LEMMA EventRest ==
  ASSUME LiveInv, LiveNext, NEW p \in Pipes, ErrorEvent(p) \/ CloseEvent(p)
  PROVE  Rest'
<1>3. ContextOK(p) /\ AloneOK(p)  BY DEF LiveInv, ContextsOK, AllAloneOK
<1>t. LiveTypeOK /\ pipes[p].reported \in BOOLEAN  BY PipeFields DEF LiveInv
<1>1. /\ pipes[p].rclone \in {"stored", "broken"}
      /\ current' = 0 /\ UNCHANGED <<task, serving, drive, crossed>>
      /\ pipes'[p].out = pipes[p].out /\ pipes'[p].last = pipes[p].last
      /\ pipes'[p].ended = pipes[p].ended /\ Others(p)
      /\ pipes'[p].rclone \in {pipes[p].rclone, "closed"}
      /\ pipes'[p].reported <=> pipes[p].reported \/ pipes[p].rclone = "broken"
      /\ pipes'[p].rclone = "closed" \/ pipes[p].rclone = "broken"
      /\ pipes'[p].handler = IF pipes[p].reported THEN pipes[p].handler
                             ELSE IF pipes[p].rclone = "stored" THEN "finish" ELSE "remove"
  <2>1. CASE ErrorEvent(p)
    BY <1>t, <2>1 DEF ErrorEvent, LiveTypeOK, Others
  <2>2. CASE CloseEvent(p)
    BY <1>t, <2>2 DEF CloseEvent, LiveTypeOK, Others
  <2> QED  BY <2>1, <2>2
<1>4. Lives(p)  BY <1>1, AtWork
<1>5. Latest(p)' <=> Latest(p)
  <2>1. \A q \in Pipes : pipes'[q].rclone = "none" <=> pipes[q].rclone = "none"
    BY <1>1 DEF Others
  <2> QED  BY <2>1, SameOpened
<1>6. ContextOK(p)'  BY <1>1, <1>3 DEF ContextOK, Opened
<1>7. AloneOK(p)'  BY <1>1, <1>3, <1>4, <1>5 DEF AloneOK, ContextOK, Lives
<1>8. OpenedInOrder' /\ ServingOK' /\ CurrentOK' /\ ContextsOK' /\ AllAloneOK'
  BY <1>1, <1>4, <1>6, <1>7, WorkingRest
<1>9. CompletedOK'  BY <1>1, <1>4, NotCompleted DEF CompletedOK
<1> QED  BY <1>8, <1>9 DEF Rest

LEMMA HandlerRest ==
  ASSUME LiveInv, LiveNext, NEW p \in Pipes,
         ValidateFile(p) \/ CompleteRow(p) \/ RemoveRemote(p) \/ FailRow(p)
  PROVE  Rest'
<1>1. PICK step \in {"complete", "report", "done"} :
        /\ Hands(p, step) /\ UNCHANGED <<serving, current, crossed>>
        /\ \/ /\ ValidateFile(p) /\ pipes[p].handler = "finish" /\ step # "done"
              /\ step = "complete" => SizeFits(drive)
              /\ UNCHANGED <<drive, task>>
           \/ /\ CompleteRow(p) /\ pipes[p].handler = "complete" /\ step = "done"
              /\ Fire("complete") /\ drive' = drive
           \/ /\ RemoveRemote(p) /\ pipes[p].handler = "remove" /\ step = "report"
              /\ drive' = Nothing /\ task' = task
           \/ /\ FailRow(p) /\ pipes[p].handler = "report" /\ step = "done"
              /\ Fire("fail") /\ drive' = drive
  BY DEF ValidateFile, CompleteRow, RemoveRemote, FailRow
<1>2. /\ pipes'[p].out = pipes[p].out /\ pipes'[p].last = pipes[p].last
      /\ pipes'[p].ended = pipes[p].ended /\ pipes'[p].rclone = pipes[p].rclone
      /\ pipes'[p].reported = pipes[p].reported /\ pipes'[p].handler = step
      /\ Others(p)
  <2>1. LiveTypeOK  BY DEF LiveInv
  <2> QED  BY <1>1, <2>1, HandsFields
<1>3. ContextOK(p) /\ AloneOK(p)  BY DEF LiveInv, ContextsOK, AllAloneOK
<1>4. Lives(p) /\ pipes[p].rclone # "none"  BY <1>1, AtWork DEF Lives
<1>5. \A q \in Pipes : Latest(q)' <=> Latest(q)
  <2>1. \A q \in Pipes : pipes'[q].rclone = "none" <=> pipes[q].rclone = "none"
    BY <1>1, <1>2 DEF Others
  <2> QED  BY <2>1, SameOpened
<1>6. ContextOK(p)'
  <2>1. step = "done" => task' \in TerminalStatuses  BY <1>1, FireType
  <2> QED  BY <1>1, <1>2, <1>3, <2>1 DEF ContextOK, Opened
<1>7. AloneOK(p)'
  <2>1. ASSUME ~crossed, step = "complete"  PROVE drive' = Whole /\ pipes[p].last = N
    <3>1. SizeFits(drive) /\ drive' = drive /\ pipes[p].handler = "finish"  BY <1>1, <2>1
    <3>2. pipes[p].last \in Nat /\ pipes[p].out \in Files
      BY PipeFields, LiveAssumption DEF LiveInv
    <3>3. CASE drive = pipes[p].out
      <4>1. Len(InOrder(pipes[p].last)) = pipes[p].last  BY <3>2 DEF InOrder
      <4>2. pipes[p].last = N /\ drive.chunks = InOrder(N) /\ ~drive.torn
        BY <1>3, <3>1, <3>3, <4>1 DEF ContextOK, SizeFits
      <4> QED  BY <3>1, <3>2, <3>3, <4>2 DEF Whole, Files
    <3>4. CASE drive = Nothing
      <4>1. Len(<<>>) = 0  OBVIOUS
      <4> QED  BY <3>1, <3>4, <4>1, LiveAssumption DEF SizeFits, Nothing
    <3> QED  BY <1>3, <2>1, <3>1, <3>3, <3>4 DEF AloneOK
  <2>2. pipes[p].handler \in {"finish", "complete", "remove", "report"}
        => pipes[p].rclone \notin {"open", "stored"}
    BY <1>3 DEF ContextOK
  <2> QED  BY <1>1, <1>2, <1>3, <1>4, <1>5, <2>1, <2>2 DEF AloneOK, Lives
<1>8. OpenedInOrder' /\ ServingOK' /\ CurrentOK' /\ ContextsOK' /\ AllAloneOK'
  <2>1. current = p => pipes[p].rclone \in {"open", "stored", "broken"}
    BY LiveAssumption DEF LiveInv, CurrentOK
  <2> QED  BY <1>1, <1>2, <1>4, <1>6, <1>7, <2>1, WorkingRest
<1>9. CompletedOK'
  <2> SUFFICES ASSUME task' = "completed", ~crossed  PROVE CompletedOK'
    BY <1>1 DEF CompletedOK
  <2>1. CompleteRow(p) /\ pipes[p].handler = "complete" /\ step = "done" /\ drive' = drive
    BY <1>1, <1>4, FireType, NotCompleted
  <2>2. /\ drive = Whole /\ pipes[p].last = N /\ pipes[p].rclone = "closed"
        /\ ~pipes[p].reported /\ Latest(p)
    BY <1>3, <1>4, <2>1 DEF AloneOK, ContextOK
  <2>3. current = 0
    <3> SUFFICES ASSUME current # 0  PROVE FALSE
      OBVIOUS
    <3>1. current \in Pipes /\ Latest(current) /\ pipes[current].rclone # "closed"
      BY DEF LiveInv, LiveTypeOK, CurrentOK
    <3> QED  BY <2>2, <3>1, LatestUnique
  <2>4. \A q \in Pipes : ~Lives(q)'
    <3>1. ~Lives(p)'  BY <1>2, <2>1, <2>2 DEF Lives
    <3>2. ASSUME NEW q \in Pipes, q # p  PROVE ~Lives(q)'
      <4>1. ~Lives(q)  BY <1>4, <3>2, AloneAtWork
      <4> QED  BY <1>2, <3>2, <4>1 DEF Others, Lives
    <3> QED  BY <3>1, <3>2
  <2>5. \A q \in Pipes : Latest(q)' => q = p  BY <1>5, <2>2, LatestUnique
  <2> QED  BY <1>1, <1>2, <2>1, <2>2, <2>3, <2>4, <2>5 DEF CompletedOK
<1> QED  BY <1>8, <1>9 DEF Rest

LEMMA NextLiveInv == LiveInv /\ [LiveNext]_liveVars => LiveInv'
<1>1. ASSUME LiveInv, LiveNext  PROVE LiveInv'
  <2>1. LiveTypeOK' /\ SenderOK'  BY <1>1, LiveTypeStep, SenderStep
  <2>2. Rest'
    <3>1. ASSUME NEW p \in Pipes, PipeStep(p)  PROVE Rest'
      BY <1>1, <3>1, RcloneRest, EventRest, HandlerRest DEF PipeStep
    <3>2. CASE \/ Post \/ PostTimesOut \/ Register \/ AnswerAgain \/ RefuseGap \/ Quiet
               \/ \E m \in posts : RefusePost(m) \/ OpenFails(m) \/ TakePost(m)
      <4>1. CASE \E p \in Pipes : CompleteRow(p)  BY <3>1, <4>1 DEF PipeStep
      <4>2. CASE ~ \E p \in Pipes : CompleteRow(p)
        <5>1. UNCHANGED <<pipes, current, drive, crossed>>
          BY <3>2 DEF Post, PostTimesOut, Register, AnswerAgain, RefuseGap, Quiet, RefusePost,
                      OpenFails, TakePost, liveVars
        <5>2. serving' \in {serving, Idle} \/ \E m \in posts : TakePost(m)
          BY <3>2 DEF Post, PostTimesOut, Register, AnswerAgain, RefuseGap, Quiet, RefusePost,
                      OpenFails, liveVars
        <5> QED  BY <1>1, <4>2, <5>1, <5>2, PlainStep
      <4> QED  BY <4>1, <4>2
    <3>3. CASE \E m \in posts : OpenPipe(m)  BY <1>1, <3>3, OpenPipeRest
    <3>4. CASE WriteBody \/ WriteBreaks \/ RemovePartial \/ BeginReset \/ EndReset \/ CleanStale
      BY <1>1, <3>4, WriteBodyRest, WriteBreaksRest, RemovalRest, KillRest
    <3> QED  BY <1>1, <3>1, <3>2, <3>3, <3>4 DEF LiveNext, PipeStep
  <2> QED  BY <2>1, <2>2 DEF LiveInv, Rest
<1>2. ASSUME LiveInv, UNCHANGED liveVars  PROVE LiveInv'
  BY <1>2 DEF liveVars, LiveInv, LiveTypeOK, SenderOK, OpenedInOrder, ServingOK, CurrentOK, ContextsOK,
              ContextOK, AllAloneOK, AloneOK, CompletedOK, Lives, Latest, Opened
<1> QED  BY <1>1, <1>2

(* In the live mode an rclone is given the beginning of the file in order; as   *)
(* long as no context crossed another, a completed row is one of a whole file   *)
(* and an rclone that waits for data is in reach; and no end goes unreported.   *)
THEOREM LiveStreamsAreSafe == LiveSpec => []LiveSafe
<1>1. LiveInv => LiveSafe
  <2> SUFFICES ASSUME LiveInv  PROVE LiveSafe
    OBVIOUS
  <2>1. ASSUME NEW p \in Pipes
        PROVE  pipes[p].out.chunks = [k \in 1..Len(pipes[p].out.chunks) |-> k]
    <3>1. pipes[p].last \in Nat  BY PipeFields, LiveAssumption DEF LiveInv
    <3>2. Len(InOrder(pipes[p].last)) = pipes[p].last  BY <3>1 DEF InOrder
    <3> QED  BY <3>2 DEF LiveInv, ContextsOK, ContextOK, InOrder
  <2>2. PipedInOrder  BY <2>1 DEF PipedInOrder
  <2>3. CompletedIsWhole  BY DEF LiveInv, CompletedOK, CompletedIsWhole, Whole, InOrder
  <2>4. NoOrphan  BY DEF LiveInv, AllAloneOK, AloneOK, NoOrphan
  <2>5. EndIsReported
    BY PipeFields DEF LiveInv, ContextsOK, ContextOK, EndIsReported, Handlers
  <2> QED  BY <2>2, <2>3, <2>4, <2>5 DEF LiveInv, LiveSafe
<1> QED  BY <1>1, InitLiveInv, NextLiveInv, PTL DEF LiveSpec

-----------------------------------------------------------------------------
(* SmartFailover: the connections that are counted are the requests under     *)
(* way, and the active server is a registered one                             *)

\* The requests under way to server s, when the requests are as r says
Sent(r, s) == {q \in Calling : r[q].at = "sent" /\ r[q].server = s}

\* A request that is under way is with one of the servers.
SentToServer == \A q \in Calling : request[q].at = "sent" => request[q].server \in Servers

\* The inductive invariant: what is safe, and where the requests are
FailoverInv == FailoverSafe /\ SentToServer

\* The requests under way can be counted, and are no more than there are.
LEMMA SentCount ==
  ASSUME NEW r, NEW s
  PROVE  /\ IsFiniteSet(Sent(r, s)) /\ Cardinality(Sent(r, s)) \in Nat
         /\ Cardinality(Calling) \in Nat /\ Cardinality(Sent(r, s)) <= Cardinality(Calling)
<1>1. IsFiniteSet(Calling) /\ Sent(r, s) \subseteq Calling
  BY FailoverAssumption DEF FailoverAssumption, Sent
<1>2. IsFiniteSet(Sent(r, s)) /\ Cardinality(Sent(r, s)) <= Cardinality(Calling)
  BY <1>1, FS_Subset
<1> QED
  BY <1>1, <1>2, FS_CardinalityType

\* A request that is sent to a server is one more there, and no more elsewhere.
LEMMA OneMoreSent ==
  ASSUME NEW r, NEW new, NEW q \in Calling, r[q].at # "sent", new[q].at = "sent",
         \A p \in Calling \ {q} : new[p] = r[p], NEW s
  PROVE  Cardinality(Sent(new, s))
           = IF s = new[q].server THEN Cardinality(Sent(r, s)) + 1 ELSE Cardinality(Sent(r, s))
<1>1. IsFiniteSet(Sent(r, s))
  BY SentCount
<1>2. q \notin Sent(r, s)
  BY DEF Sent
<1>3. CASE s = new[q].server
  <2>1. Sent(new, s) = Sent(r, s) \cup {q}
    BY <1>3 DEF Sent
  <2>2. Cardinality(Sent(r, s) \cup {q}) = Cardinality(Sent(r, s)) + 1
    BY <1>1, <1>2, FS_AddElement
  <2> QED
    BY <1>3, <2>1, <2>2
<1>4. CASE s # new[q].server
  <2>1. Sent(new, s) = Sent(r, s)
    BY <1>4 DEF Sent
  <2> QED
    BY <1>4, <2>1
<1> QED
  BY <1>3, <1>4

\* A request that is answered or fails is one less where it was.
LEMMA OneLessSent ==
  ASSUME NEW r, NEW new, NEW q \in Calling, r[q].at = "sent", new[q].at # "sent",
         \A p \in Calling \ {q} : new[p] = r[p], NEW s
  PROVE  Cardinality(Sent(new, s))
           = IF s = r[q].server THEN Cardinality(Sent(r, s)) - 1 ELSE Cardinality(Sent(r, s))
<1>1. \A p \in Calling \ {q} : r[p] = new[p]
  OBVIOUS
<1>2. Cardinality(Sent(r, s))
        = IF s = r[q].server THEN Cardinality(Sent(new, s)) + 1 ELSE Cardinality(Sent(new, s))
  BY <1>1, OneMoreSent
<1>3. Cardinality(Sent(r, s)) \in Nat /\ Cardinality(Sent(new, s)) \in Nat
  BY SentCount
<1> QED
  BY <1>2, <1>3

\* The counts are right when they say how many requests are under way.
LEMMA CountsRight ==
  ASSUME NEW r, NEW n \in [Servers -> Nat], \A s \in Servers : n[s] = Cardinality(Sent(r, s))
  PROVE  n \in [Servers -> 0..Cardinality(Calling)]
<1>1. \A s \in Servers : n[s] \in 0..Cardinality(Calling)
  BY SentCount
<1> QED
  BY <1>1

\* What the invariant says of the counts, in these terms
LEMMA CountsFacts ==
  ASSUME FailoverInv
  PROVE  /\ connections \in [Servers -> Nat]
         /\ \A s \in Servers : connections[s] = Cardinality(Sent(request, s))
BY SentCount DEF FailoverInv, FailoverSafe, FailoverTypeOK, CountIsRequests, Sent

\* What can happen to a server that does not answer
LEMMA FailureTyped ==
  ASSUME FailoverInv, NEW s \in Servers
  PROVE  /\ Failures(s) \in [Servers -> 0..FailureThreshold]
         /\ StatusAfter(s) \in {"healthy", "unhealthy", "down"}
<1>1. failures[s] \in 0..FailureThreshold /\ failures \in [Servers -> 0..FailureThreshold]
      /\ FailureThreshold \in Nat
  BY FailoverAssumption DEF FailoverInv, FailoverSafe, FailoverTypeOK, FailoverAssumption
<1>2. (IF failures[s] < FailureThreshold THEN failures[s] + 1 ELSE failures[s])
        \in 0..FailureThreshold
  BY <1>1
<1>3. Failures(s) \in [Servers -> 0..FailureThreshold]
  BY <1>1, <1>2 DEF Failures
<1>4. health[s] \in {"healthy", "unhealthy", "down"}
  BY DEF FailoverInv, FailoverSafe, FailoverTypeOK
<1> QED
  BY <1>3, <1>4 DEF StatusAfter

\* What may be sent a request is registered.
LEMMA CurrentRegistered ==
  ASSUME NEW s \in Current, s # NoServer
  PROVE  s \in registered
BY DEF Current, Selections, Healthy

\* A request's own steps, as far as the rest of the state goes
RequestType == [at : {"idle", "sent", "answered", "failed", "refused"},
                server : Servers \union {NoServer}, tries : 0..MaxRetries]

\* A step of request q keeps the invariant when its new state and the counts fit.
LEMMA RequestKeeps ==
  ASSUME FailoverInv, NEW q \in Calling, NEW w \in RequestType,
         request' = [request EXCEPT ![q] = w], w.at = "sent" => w.server \in Servers,
         connections' \in [Servers -> Nat],
         \A s \in Servers : connections'[s] = Cardinality(Sent(request', s)),
         UNCHANGED <<registered, answers, checking, outages, removals>>,
         activeOne' \in registered \cup {activeOne, NoServer},
         health' \in [Servers -> {"healthy", "unhealthy", "down"}],
         failures' \in [Servers -> 0..FailureThreshold]
  PROVE  FailoverInv'
<1> USE DEF FailoverInv, FailoverSafe
<1>1. request \in [Calling -> RequestType] /\ request' \in [Calling -> RequestType]
  BY DEF FailoverTypeOK, RequestType
<1>2. connections' \in [Servers -> 0..Cardinality(Calling)]
  BY CountsRight
<1>3. ActiveIsRegistered'
  BY DEF ActiveIsRegistered
<1>4. activeOne' \in Servers \union {NoServer}
  BY DEF FailoverTypeOK
<1>5. FailoverTypeOK'
  BY <1>1, <1>2, <1>4 DEF FailoverTypeOK, RequestType
<1>6. CountIsRequests'
  BY DEF CountIsRequests, Sent
<1>7. SentToServer'
  BY <1>1 DEF SentToServer
<1> QED
  BY <1>3, <1>5, <1>6, <1>7

\* The step that sends a request counts it where it goes.
LEMMA ExecuteRequestKeeps ==
  ASSUME FailoverInv, NEW q \in Calling, ExecuteRequest(q) PROVE FailoverInv'
<1>1. PICK s \in Current :
        IF s = NoServer
        THEN /\ request' = [request EXCEPT ![q].at = "refused"]
             /\ UNCHANGED <<activeOne, connections>>
        ELSE /\ activeOne' = s
             /\ connections' = [connections EXCEPT ![s] = @ + 1]
             /\ request' = [request EXCEPT ![q].at = "sent", ![q].server = s]
  BY DEF ExecuteRequest
<1>2. /\ request[q].at = "idle" /\ request \in [Calling -> RequestType]
      /\ UNCHANGED <<registered, health, failures, answers, checking, outages, removals>>
      /\ health \in [Servers -> {"healthy", "unhealthy", "down"}]
      /\ failures \in [Servers -> 0..FailureThreshold] /\ registered \subseteq Servers
  BY DEF ExecuteRequest, FailoverInv, FailoverSafe, FailoverTypeOK, RequestType
<1>3. /\ connections \in [Servers -> Nat]
      /\ \A t \in Servers : connections[t] = Cardinality(Sent(request, t))
  BY CountsFacts
<1>4. CASE s = NoServer
  <2>1. PICK w : w = [request[q] EXCEPT !.at = "refused"]
    OBVIOUS
  <2>2. w \in RequestType /\ w.at = "refused"
    BY <1>2, <2>1 DEF RequestType
  <2>3. request' = [request EXCEPT ![q] = w] /\ connections' = connections
        /\ activeOne' = activeOne
    BY <1>1, <1>4, <2>1
  <2>4. \A t \in Servers : Sent(request', t) = Sent(request, t)
    BY <1>2, <2>2, <2>3 DEF Sent
  <2> QED
    BY <1>2, <1>3, <2>2, <2>3, <2>4, RequestKeeps
<1>5. CASE s # NoServer
  <2>1. s \in registered /\ s \in Servers
    BY <1>2, <1>5, CurrentRegistered
  <2>2. PICK w : w = [request[q] EXCEPT !.at = "sent", !.server = s]
    OBVIOUS
  <2>3. w \in RequestType /\ w.at = "sent" /\ w.server = s
    BY <1>2, <2>1, <2>2 DEF RequestType
  <2>4. request' = [request EXCEPT ![q] = w] /\ activeOne' = s
        /\ connections' = [connections EXCEPT ![s] = @ + 1]
    BY <1>1, <1>5, <2>2
  <2>5. request'[q] = w /\ \A p \in Calling \ {q} : request'[p] = request[p]
    BY <1>2, <2>4
  <2>6. ASSUME NEW t \in Servers PROVE connections'[t] = Cardinality(Sent(request', t))
    <3>1. Cardinality(Sent(request', t))
            = IF t = s THEN Cardinality(Sent(request, t)) + 1 ELSE Cardinality(Sent(request, t))
      BY <1>2, <2>3, <2>5, OneMoreSent
    <3> QED
      BY <1>3, <2>4, <3>1
  <2>7. connections' \in [Servers -> Nat]
    BY <1>3, <2>1, <2>4
  <2> QED
    BY <1>2, <2>1, <2>3, <2>4, <2>6, <2>7, RequestKeeps
<1> QED
  BY <1>4, <1>5

\* The end of a try gives its connection back, whatever becomes of the request.
LEMMA GivesBack ==
  ASSUME FailoverInv, NEW q \in Calling, request[q].at = "sent", NEW s, s = request[q].server,
         connections' = [connections EXCEPT ![s] = @ - 1],
         NEW w, request' = [request EXCEPT ![q] = w], w.at # "sent"
  PROVE  /\ connections' \in [Servers -> Nat] /\ s \in Servers
         /\ \A t \in Servers : connections'[t] = Cardinality(Sent(request', t))
<1>1. /\ connections \in [Servers -> Nat] /\ s \in Servers
      /\ \A t \in Servers : connections[t] = Cardinality(Sent(request, t))
  BY CountsFacts DEF FailoverInv, SentToServer
<1>2. request'[q].at # "sent" /\ \A p \in Calling \ {q} : request'[p] = request[p]
  BY DEF FailoverInv, FailoverSafe, FailoverTypeOK
<1>3. ASSUME NEW t \in Servers
      PROVE  connections'[t] = Cardinality(Sent(request', t)) /\ connections'[t] \in Nat
  <2>1. Cardinality(Sent(request', t))
          = IF t = request[q].server THEN Cardinality(Sent(request, t)) - 1
                                     ELSE Cardinality(Sent(request, t))
    <3>1. PICK old : old = request
      OBVIOUS
    <3>2. PICK new : new = request'
      OBVIOUS
    <3>3. /\ old[q].at = "sent" /\ new[q].at # "sent"
          /\ \A p \in Calling \ {q} : new[p] = old[p]
      BY <1>2, <3>1, <3>2
    <3>4. Cardinality(Sent(new, t))
            = IF t = old[q].server THEN Cardinality(Sent(old, t)) - 1
                                   ELSE Cardinality(Sent(old, t))
      BY <3>3, OneLessSent
    <3> QED
      BY <3>1, <3>2, <3>4
  <2>2. Cardinality(Sent(request', t)) \in Nat
    BY SentCount
  <2> QED
    BY <1>1, <2>1, <2>2
<1> QED
  BY <1>1, <1>3

\* An answer
LEMMA AnsweredKeeps ==
  ASSUME FailoverInv, NEW q \in Calling, Answered(q) PROVE FailoverInv'
<1>1. PICK s : s = request[q].server
  OBVIOUS
<1>2. PICK w : w = [request[q] EXCEPT !.at = "answered"]
  OBVIOUS
<1>3. /\ request[q].at = "sent" /\ request' = [request EXCEPT ![q] = w]
      /\ connections' = [connections EXCEPT ![s] = @ - 1]
      /\ failures' = [failures EXCEPT ![s] = 0] /\ health' = [health EXCEPT ![s] = "healthy"]
      /\ UNCHANGED <<registered, activeOne, answers, checking, outages, removals>>
  BY <1>1, <1>2 DEF Answered
<1>4. w \in RequestType /\ w.at = "answered"
  BY <1>2 DEF FailoverInv, FailoverSafe, FailoverTypeOK, RequestType
<1>5. /\ connections' \in [Servers -> Nat] /\ s \in Servers
      /\ \A t \in Servers : connections'[t] = Cardinality(Sent(request', t))
  BY <1>1, <1>3, <1>4, GivesBack
<1>6. health' \in [Servers -> {"healthy", "unhealthy", "down"}]
  BY <1>3 DEF FailoverInv, FailoverSafe, FailoverTypeOK
<1>7. failures' \in [Servers -> 0..FailureThreshold]
  <2>1. failures \in [Servers -> 0..FailureThreshold] /\ 0 \in 0..FailureThreshold
    BY FailoverAssumption DEF FailoverAssumption, FailoverInv, FailoverSafe, FailoverTypeOK
  <2> QED
    BY <1>3, <2>1
<1> QED
  BY <1>3, <1>4, <1>5, <1>6, <1>7, RequestKeeps

\* A failure, and the failover with it
LEMMA RequestFailsKeeps ==
  ASSUME FailoverInv, NEW q \in Calling, RequestFails(q) PROVE FailoverInv'
<1>1. PICK s : s = request[q].server
  OBVIOUS
<1>2. PICK after : after = [health EXCEPT ![s] = StatusAfter(s)]
  OBVIOUS
<1>3. /\ request[q].at = "sent" /\ failures' = Failures(s) /\ health' = after
      /\ connections' = [connections EXCEPT ![s] = @ - 1]
      /\ UNCHANGED <<registered, answers, checking, outages, removals>>
  BY <1>1, <1>2 DEF RequestFails, GivenBack
<1>4. PICK w : w = IF LastTry(q) THEN [request[q] EXCEPT !.at = "failed"]
                   ELSE [NotSent EXCEPT !.tries = request[q].tries + 1]
  OBVIOUS
<1>5. request' = [request EXCEPT ![q] = w] /\ activeOne' \in registered \cup {activeOne}
  BY <1>4 DEF RequestFails
<1>6. /\ request[q] \in RequestType /\ MaxRetries \in Nat
      /\ health \in [Servers -> {"healthy", "unhealthy", "down"}]
  BY FailoverAssumption DEF FailoverInv, FailoverSafe, FailoverTypeOK, RequestType, FailoverAssumption
<1>7. w \in RequestType /\ w.at # "sent"
  <2>1. CASE LastTry(q)
    BY <1>4, <1>6, <2>1 DEF RequestType
  <2>2. CASE ~LastTry(q)
    <3>1. w = [at |-> "idle", server |-> NoServer, tries |-> request[q].tries + 1]
      BY <1>4, <2>2 DEF NotSent
    <3>2. request[q].tries + 1 \in 0..MaxRetries
      BY <1>6, <2>2 DEF LastTry, RequestType
    <3> QED
      BY <3>1, <3>2 DEF RequestType
  <2> QED
    BY <2>1, <2>2
<1>8. /\ connections' \in [Servers -> Nat] /\ s \in Servers
      /\ \A t \in Servers : connections'[t] = Cardinality(Sent(request', t))
  BY <1>1, <1>3, <1>5, <1>7, GivesBack
<1>9. Failures(s) \in [Servers -> 0..FailureThreshold]
      /\ after \in [Servers -> {"healthy", "unhealthy", "down"}]
  BY <1>2, <1>6, <1>8, FailureTyped
<1> QED
  BY <1>3, <1>5, <1>7, <1>8, <1>9, RequestKeeps

\* A step that leaves the requests alone keeps the invariant when it keeps types.
LEMMA OthersKeep ==
  ASSUME FailoverInv, UNCHANGED <<connections, request>>,
         registered' \subseteq registered, answers' \subseteq Servers, checking' \subseteq Servers,
         health' \in [Servers -> {"healthy", "unhealthy", "down"}],
         failures' \in [Servers -> 0..FailureThreshold],
         activeOne' \in registered' \cup {NoServer},
         outages' \in 0..MaxOutages, removals' \in 0..MaxRemovals
  PROVE  FailoverInv'
<1>1. FailoverTypeOK'
  BY DEF FailoverInv, FailoverSafe, FailoverTypeOK
<1>2. CountIsRequests' /\ ActiveIsRegistered' /\ SentToServer'
  BY DEF FailoverInv, FailoverSafe, CountIsRequests, ActiveIsRegistered, SentToServer
<1> QED
  BY <1>1, <1>2 DEF FailoverInv, FailoverSafe

\* The steps of a server, and the exchange of the active one
LEMMA ServerKeeps ==
  ASSUME FailoverInv, NEW s \in Servers,
         CheckBegins(s) \/ CheckEnds(s) \/ RemoveInstance(s) \/ ServerTurns(s)
  PROVE  FailoverInv'
<1>1. /\ registered \subseteq Servers /\ answers \subseteq Servers /\ checking \subseteq Servers
      /\ health \in [Servers -> {"healthy", "unhealthy", "down"}]
      /\ failures \in [Servers -> 0..FailureThreshold]
      /\ activeOne \in registered \cup {NoServer}
      /\ outages \in 0..MaxOutages /\ removals \in 0..MaxRemovals
  BY DEF FailoverInv, FailoverSafe, FailoverTypeOK, ActiveIsRegistered
<1>2. FailureThreshold \in Nat /\ MaxOutages \in Nat /\ MaxRemovals \in Nat
  BY FailoverAssumption DEF FailoverAssumption
<1>3. CASE CheckBegins(s)
  BY <1>1, <1>3, OthersKeep DEF CheckBegins
<1>4. CASE CheckEnds(s)
  <2>1. health' \in [Servers -> {"healthy", "unhealthy", "down"}]
    BY <1>1, <1>4 DEF CheckEnds
  <2>2. failures' \in [Servers -> 0..FailureThreshold]
    BY <1>1, <1>2, <1>4, FailureTyped DEF CheckEnds
  <2> QED
    BY <1>1, <1>4, <2>1, <2>2, OthersKeep DEF CheckEnds
<1>5. CASE RemoveInstance(s)
  <2>1. activeOne' \in registered' \cup {NoServer}
    BY <1>1, <1>5 DEF RemoveInstance, ActiveAfter, Healthy
  <2>2. removals' \in 0..MaxRemovals /\ registered' \subseteq registered
    BY <1>1, <1>2, <1>5 DEF RemoveInstance
  <2> QED
    BY <1>1, <1>5, <2>1, <2>2, OthersKeep DEF RemoveInstance
<1>6. CASE ServerTurns(s)
  <2>1. outages' \in 0..MaxOutages
    BY <1>1, <1>2, <1>6 DEF ServerTurns
  <2>2. answers' \subseteq Servers
    BY <1>1, <1>6 DEF ServerTurns
  <2> QED
    BY <1>1, <1>6, <2>1, <2>2, OthersKeep DEF ServerTurns
<1> QED
  BY <1>3, <1>4, <1>5, <1>6

\* The first state
LEMMA FailoverInvInit == FailoverInit => FailoverInv
<1> SUFFICES ASSUME FailoverInit PROVE FailoverInv
  OBVIOUS
<1>1. /\ FailureThreshold \in Nat /\ MaxRetries \in Nat /\ MaxOutages \in Nat
      /\ MaxRemovals \in Nat /\ Cardinality(Calling) \in Nat
  BY SentCount, FailoverAssumption DEF FailoverAssumption
<1>2. \A q \in Calling : request[q].at = "idle"
  BY DEF FailoverInit, NotSent
<1>3. FailoverTypeOK
  <2>1. NotSent \in RequestType
    BY <1>1 DEF NotSent, RequestType
  <2>2. request \in [Calling -> RequestType]
    BY <2>1 DEF FailoverInit
  <2> QED
    BY <1>1, <2>2 DEF FailoverInit, FailoverTypeOK, RequestType
<1>4. CountIsRequests
  <2> SUFFICES ASSUME NEW s \in Servers
               PROVE  connections[s] = Cardinality({q \in Calling :
                        request[q].at = "sent" /\ request[q].server = s})
    BY DEF CountIsRequests
  <2>1. {q \in Calling : request[q].at = "sent" /\ request[q].server = s} = {}
    BY <1>2
  <2>2. connections[s] = 0
    BY DEF FailoverInit
  <2> QED
    BY <2>1, <2>2, FS_EmptySet
<1>5. ActiveIsRegistered /\ SentToServer
  BY <1>2 DEF FailoverInit, ActiveIsRegistered, SentToServer
<1> QED
  BY <1>3, <1>4, <1>5 DEF FailoverInv, FailoverSafe

\* Every step keeps the invariant.
LEMMA FailoverInvNext ==
  ASSUME FailoverInv, [FailoverNext]_failoverVars PROVE FailoverInv'
<1>1. CASE \E q \in Calling : ExecuteRequest(q) \/ Answered(q) \/ RequestFails(q)
  BY <1>1, ExecuteRequestKeeps, AnsweredKeeps, RequestFailsKeeps
<1>2. CASE \E s \in Servers : CheckBegins(s) \/ CheckEnds(s) \/ RemoveInstance(s) \/ ServerTurns(s)
  BY <1>2, ServerKeeps
<1>3. CASE Exchange
  <2>1. activeOne' \in registered' \cup {NoServer}
    BY <1>3 DEF Exchange, Healthy
  <2> QED
    BY <1>3, <2>1, OthersKeep DEF Exchange, FailoverInv, FailoverSafe, FailoverTypeOK
<1>4. CASE UNCHANGED failoverVars
  BY <1>4, OthersKeep DEF failoverVars, FailoverInv, FailoverSafe, FailoverTypeOK, ActiveIsRegistered
<1> QED
  BY <1>1, <1>2, <1>3, <1>4 DEF FailoverNext

\* The balancing goes by the true number of requests under way at each server, and the
\* active instance is never one that has been removed, however failures, failovers,
\* checks of the health and removals meet (executeRequest, _triggerFailover,
\* removeInstance).
THEOREM FailoverIsSafe == FailoverSpec => []FailoverSafe
<1>1. FailoverInv /\ [FailoverNext]_failoverVars => FailoverInv'
  BY FailoverInvNext
<1>2. FailoverInv => FailoverSafe
  BY DEF FailoverInv
<1> QED
  BY <1>1, <1>2, FailoverInvInit, PTL DEF FailoverSpec
=============================================================================
