--------------------------- MODULE TaskProcessing ---------------------------
(***************************************************************************)
(* The life of one task through TaskManager (src/processor/TaskManager.js  *)
(* and TaskManager/*.js): the QStash messages that carry it, the webhooks  *)
(* that claim it under the telegram_client lease and the task lock, the    *)
(* background executions that transfer the file and write the row through  *)
(* their claim fence, the recovery scan, the user, and what goes wrong in  *)
(* between.  transitionStatus is one atomic step here: TaskStore shows     *)
(* that the real one implements TaskLifecycle.                             *)
(***************************************************************************)
EXTENDS TaskStateMachine, Integers, FiniteSets

CONSTANTS
  Instances,    \* instance ids
  Execs,        \* webhook handlers and background executions that can overlap
  Nobody,       \* not an instance
  MaxMessages,  \* bound on the messages of one kind (model checking only)
  MaxLeases,    \* bound on telegram_client leases  (model checking only)
  Incidents,    \* the kinds of incidents: faults, unlucky races, user commands
  MaxIncidents  \* how many of them happen at most

ASSUME TaskProcessingAssumption ==
  /\ Nobody \notin Instances
  /\ IsFiniteSet(Execs)
  /\ MaxMessages \in Nat \ {0}
  /\ MaxLeases \in Nat \ {0}
  /\ Incidents \subseteq {"crash", "lease", "lock", "queue", "error", "race", "user"}
  /\ MaxIncidents \in Nat

VARIABLES
  row,       \* D1: status and claim (a telegram_client lease, 0 for NULL)
  quiet,     \* the row was not written for STALLED_RECOVERY_TIMEOUT_MS
  queue,     \* QStash: number of undelivered messages of each kind
  leader,    \* the instance that holds the telegram_client lock
  lease,     \* the last telegram_client lease that was handed out
  lock,      \* the instance that holds the lock task:<id>
  files,     \* the instances whose download directory has the whole file
  exec,      \* the executions in flight
  agent,     \* the scan and the user command in flight
  incidents  \* how many incidents are still to come at most

vars == <<row, quiet, queue, leader, lease, lock, files, exec, agent, incidents>>

Kinds == {"download", "upload"}

Agents == {"scan", "user"}

\* ACTIVE_STATUS_SET ...; statuses whose rows _buildTransitionSql unclaims
ClaimFree == {"queued"} \cup TerminalStatuses

IdleExec == [at |-> "idle", kind |-> "download", inst |-> Nobody, lease |-> 0,
             seen |-> "none", event |-> "none", msg |-> FALSE]

IdleAgent == [at |-> "idle", inst |-> Nobody, seen |-> "none", kind |-> "download"]

-----------------------------------------------------------------------------
(* Transitions of the row *)

\* Mutant of Plain: claimed_by and claim_lease_id are left alone.
PlainKeepsClaim(event) ==
  IF Allowed(row.status, event)
  THEN row' = [row EXCEPT !.status = TargetStatus[event]] /\ quiet' = FALSE
  ELSE UNCHANGED <<row, quiet>>

\* transitionStatus without claim options
Plain(event) ==
  IF Allowed(row.status, event)
  THEN /\ row' = [status |-> TargetStatus[event],
                  claim  |-> IF TargetStatus[event] \in ClaimFree THEN 0 ELSE row.claim]
       /\ quiet' = FALSE
  ELSE UNCHANGED <<row, quiet>>

\* transitionStatus with claimedBy / claimLeaseId, when it is allowed
Claiming(event, l) ==
  /\ row' = [status |-> TargetStatus[event], claim |-> l]
  /\ quiet' = FALSE

\* The WHERE clause of a fenced UPDATE
Holds(l) == row.claim = l

\* transitionStatus with requireClaim: what it reports ...
Outcome(event, l) ==
  CASE ~Allowed(row.status, event)                                       -> "blocked"
    [] Allowed(row.status, event) /\ Holds(l)                            -> "changed"
    [] Allowed(row.status, event) /\ ~Holds(l)
         /\ row.status = TargetStatus[event]                             -> "raced"
    [] Allowed(row.status, event) /\ ~Holds(l)
         /\ row.status # TargetStatus[event]                             -> "stale"

\* ... and what it does
Fenced(event, l) ==
  IF Outcome(event, l) = "changed" THEN Plain(event) ELSE UNCHANGED <<row, quiet>>

-----------------------------------------------------------------------------
(* Bookkeeping *)

Incident(kind) ==
  /\ kind \in Incidents
  /\ incidents > 0
  /\ incidents' = incidents - 1

NoIncident == UNCHANGED incidents

Enqueue(kind) ==
  queue' = [queue EXCEPT ![kind] = IF @ < MaxMessages THEN @ + 1 ELSE @]

\* Executions that hold the claim of the row and keep it alive by heartbeats
Running == {"setup", "download", "stream", "mtproto", "upload", "commit",
            "validated", "recover", "enqueue"}

Alive == \E x \in Execs : exec[x].at \in Running /\ exec[x].lease = row.claim

\* Executions between acquireTaskLock and releaseTaskLock
Locking(i) == \E x \in Execs : exec[x].inst = i /\ exec[x].at \notin {"idle", "lock"}

Goto(x, at) == exec' = [exec EXCEPT ![x].at = at]

\* Decide on the event of the last transition of an execution.
Decide(x, at, event) == exec' = [exec EXCEPT ![x].at = at, ![x].event = event]

\* The handler answers 200: the message is gone.
Acknowledge(x, at) == exec' = [exec EXCEPT ![x].at = at, ![x].msg = FALSE]

\* On to the release of the lock; the locals of the execution are dead.
Leaving(e) ==
  [IdleExec EXCEPT !.at = "release", !.inst = e.inst, !.msg = e.msg,
                   !.kind = IF e.msg THEN e.kind ELSE @]

Leave(x) == exec' = [exec EXCEPT ![x] = Leaving(@)]

LeaveAcknowledged(x) == exec' = [exec EXCEPT ![x] = Leaving([@ EXCEPT !.msg = FALSE])]

-----------------------------------------------------------------------------
\* addTask: the row is in D1 (TaskRepository.create), the message is not out.
Init ==
  \E i \in Instances :
    /\ row = [status |-> "queued", claim |-> 0]
    /\ quiet = FALSE
    /\ queue = [k \in Kinds |-> 0]
    /\ leader = i
    /\ lease = 1
    /\ lock = Nobody
    /\ files = {}
    /\ exec = [x \in Execs |-> IdleExec]
    /\ \E j \in Instances :
         agent = [a \in Agents |-> IF a = "user"
                    THEN [IdleAgent EXCEPT !.at = "add", !.inst = j] ELSE IdleAgent]
    /\ incidents = MaxIncidents

-----------------------------------------------------------------------------
(* The webhooks: setup *)

\* handleDownloadWebhook / handleUploadWebhook on instance i read the lease and
\* then the row; an instance that is not the leader answers 503.  msg: whether
\* QStash waits for the answer (the recovery scan calls the handlers directly).
Handle(x, kind, i, msg) ==
  /\ exec[x].at = "idle"
  /\ leader = i
  /\ exec' = IF row.status = "cancelled" THEN exec
             ELSE [exec EXCEPT ![x] =
                    [IdleExec EXCEPT !.at = "lock", !.kind = kind, !.inst = i, !.msg = msg,
                                     !.lease = lease, !.seen = row.status]]

Deliver(x, kind, i) ==
  /\ queue[kind] > 0
  /\ Handle(x, kind, i, TRUE)
  /\ queue' = [queue EXCEPT ![kind] = @ - 1]
  /\ UNCHANGED <<row, quiet, leader, lease, lock, files, agent, incidents>>

\* _acquireWebhookTaskLock: the lock belongs to the instance, so another
\* execution of the same instance does not stand in the way.
AcquireLock(x) ==
  LET e == exec[x] IN
  /\ e.at = "lock"
  /\ lock \in {Nobody, e.inst}
  /\ lock' = e.inst
  /\ Goto(x, "start")
  /\ UNCHANGED <<row, quiet, queue, leader, lease, files, agent, incidents>>

\* _canRecoverStaleTaskProcessingLock and releaseStaleTaskLock: a lock of more
\* than 120 s on a task that waits in a queue is taken from its owner.
TakeStaleLock(x) ==
  LET e == exec[x] IN
  /\ e.at = "lock"
  /\ lock \notin {Nobody, e.inst}
  /\ e.seen = "queued"
  /\ IF Locking(lock) THEN Incident("lock") ELSE NoIncident
  /\ lock' = e.inst
  /\ Goto(x, "start")
  /\ UNCHANGED <<row, quiet, queue, leader, lease, files, agent>>

\* TaskProcessingLockBusyError: 503, QStash will deliver the message again.
LockBusy(x) ==
  LET e == exec[x] IN
  /\ e.at = "lock"
  /\ lock \notin {Nobody, e.inst}
  /\ exec' = [exec EXCEPT ![x] = IdleExec]
  /\ IF e.msg THEN Enqueue(e.kind) ELSE UNCHANGED queue
  /\ UNCHANGED <<row, quiet, leader, lease, lock, files, agent, incidents>>

StartEvent(kind) == IF kind = "download" THEN "start_download" ELSE "start_upload"

\* The claim: START_DOWNLOAD / START_UPLOAD with the lease that was read first
Start(x) ==
  LET e == exec[x] IN
  /\ e.at = "start"
  /\ ~(e.kind = "download" /\ e.seen = "downloaded")
  /\ Allowed(row.status, StartEvent(e.kind))
  /\ Claiming(StartEvent(e.kind), e.lease)
  /\ exec' = [exec EXCEPT ![x].at = "setup", ![x].seen = "none"]
  /\ UNCHANGED <<queue, leader, lease, lock, files, agent, incidents>>

\* _resolveBlockedWebhookResult: 503 while the task is active, else 200
StartBlocked(x) ==
  LET e == exec[x] IN
  /\ e.at = "start"
  /\ ~(e.kind = "download" /\ e.seen = "downloaded")
  /\ ~Allowed(row.status, StartEvent(e.kind))
  /\ IF row.status \in ActiveStatuses THEN Leave(x) ELSE LeaveAcknowledged(x)
  /\ UNCHANGED <<row, quiet, queue, leader, lease, lock, files, agent, incidents>>

\* _enqueueDownloadedTaskForUpload: a download message finds the task already
\* downloaded; the transitions are not fenced.
RepairUpload(x) ==
  LET e == exec[x]
      event == IF e.inst \in files THEN "reset_upload" ELSE "retry"
  IN
  /\ e.at = "start"
  /\ e.kind = "download" /\ e.seen = "downloaded"
  /\ Plain(event)
  /\ CASE ~Allowed(row.status, event)                         -> LeaveAcknowledged(x)
       [] Allowed(row.status, event) /\ event = "retry"       -> Leave(x)
       [] Allowed(row.status, event) /\ event = "reset_upload" -> exec' = [exec EXCEPT ![x].at = "enqueue", ![x].seen = "none"]
  /\ UNCHANGED <<queue, leader, lease, lock, files, agent, incidents>>

\* The webhook answers 200 and leaves the rest to a background execution.
Launch(x) ==
  LET e == exec[x] IN
  /\ e.at = "setup"
  /\ e.kind = "upload" => e.inst \in files
  /\ Acknowledge(x, e.kind)
  /\ UNCHANGED <<row, quiet, queue, leader, lease, lock, files, agent, incidents>>

\* The file is on another instance: FAIL and 404, which QStash retries.
UploadWithoutFile(x) ==
  LET e == exec[x] IN
  /\ e.at = "setup" /\ e.kind = "upload"
  /\ e.inst \notin files
  /\ Fenced("fail", e.lease)
  /\ Leave(x)
  /\ UNCHANGED <<queue, leader, lease, lock, files, agent, incidents>>

\* The setup throws: the source is missing, or an error that is (not) retryable.
SetupFails(x) ==
  LET e == exec[x] IN
  /\ e.at = "setup"
  /\ Incident("error")
  /\ \/ Fenced("fail", e.lease) /\ Leave(x)
     \/ /\ Decide(x, "recover", IF e.kind = "upload" \/ row.status = "downloaded"
                                THEN "reset_upload" ELSE "retry")
        /\ UNCHANGED <<row, quiet>>
  /\ UNCHANGED <<queue, leader, lease, lock, files, agent>>

-----------------------------------------------------------------------------
(* The background executions *)

\* createHeartbeat: a transition to (or a liveness write in) the phase the
\* execution believes to be in.
HeartbeatEvents(e) ==
  CASE e.at = "download" -> {"start_download", "start_upload"}
    [] e.at = "mtproto"  -> {"start_download"}
    [] OTHER             -> {"start_upload"}

\* A lost claim throws, unless the row has the target status already and the
\* transition reports success.  What the throw does depends on who called: the
\* first download heartbeat and the progress of an upload only log it, the
\* MTProto download rethrows it as a failed download, the others end.
Heartbeat(x) ==
  LET e == exec[x] IN
  /\ e.at \in {"download", "mtproto", "stream", "upload"}
  /\ \E event \in HeartbeatEvents(e) :
       /\ Fenced(event, e.lease)
       /\ \/ UNCHANGED exec
          \/ /\ Outcome(event, e.lease) \in {"stale", "raced"}
             /\ IF e.at = "mtproto" THEN Decide(x, "commit", "fail") ELSE Leave(x)
  /\ UNCHANGED <<queue, leader, lease, lock, files, agent, incidents>>

\* assertClaimFenceCurrent
LeaseCurrent(e) == leader = e.inst /\ lease = e.lease

\* A phase ends with an event: first the lease is compared with the lock in the
\* cache, later the transition is fenced by the claim in the row.
Conclude(x, at, event) ==
  IF LeaseCurrent(exec[x]) THEN Decide(x, at, event) ELSE Leave(x)

\* _handleInstantTransfer and _handleLocalFile: nothing to download
NothingToDownload(x) ==
  LET e == exec[x] IN
  /\ e.at = "download"
  /\ \/ Conclude(x, "commit", "complete")
     \/ e.inst \in files /\ Conclude(x, "commit", "finish_download")
  /\ UNCHANGED <<row, quiet, queue, leader, lease, lock, files, agent, incidents>>

\* _handleDirectTransfer: streamed to the drive, if the state machine lets it
StartDirectTransfer(x) ==
  LET e == exec[x] IN
  /\ e.at = "download"
  /\ IF LeaseCurrent(e)
     THEN /\ Fenced("start_stream_upload", e.lease)
          /\ IF Outcome("start_stream_upload", e.lease) \in {"changed", "raced"}
             THEN Goto(x, "stream")
             ELSE Goto(x, "mtproto") \/ Decide(x, "commit", "fail")
     ELSE Leave(x) /\ UNCHANGED <<row, quiet>>
  /\ UNCHANGED <<queue, leader, lease, lock, files, agent, incidents>>

\* ... which completes the task without another look at the lease,
DirectTransferDone(x) ==
  /\ exec[x].at = "stream"
  /\ Decide(x, "commit", "complete") \/ Decide(x, "commit", "reset_stream_download")
  /\ UNCHANGED <<row, quiet, queue, leader, lease, lock, files, agent, incidents>>

\* ... or is not possible at all.
NoDirectTransfer(x) ==
  /\ exec[x].at = "download"
  /\ Goto(x, "mtproto")
  /\ UNCHANGED <<row, quiet, queue, leader, lease, lock, files, agent, incidents>>

\* _handleMTProtoDownload: the file is in the download directory
Downloaded(x) ==
  LET e == exec[x] IN
  /\ e.at = "mtproto"
  /\ files' = files \cup {e.inst}
  /\ Conclude(x, "commit", "finish_download")
  /\ UNCHANGED <<row, quiet, queue, leader, lease, lock, agent, incidents>>

\* uploadTask: the remote file was there before the upload (no lease check), or
\* the upload was validated or not.
Uploaded(x) ==
  /\ exec[x].at = "upload"
  /\ \/ Decide(x, "commit", "complete")
     \/ Conclude(x, "validated", "complete")
     \/ Conclude(x, "validated", "fail")
  /\ UNCHANGED <<row, quiet, queue, leader, lease, lock, files, agent, incidents>>

\* An error that is not retryable (handleTaskFailure, handleUploadFailure), or
\* the CANCELLED thrown by a heartbeat that finds the flag of cancelTask (which
\* the MTProto download turns into a failed download)
TransferFails(x) ==
  LET e == exec[x] IN
  /\ e.at \in {"download", "stream", "mtproto", "upload"}
  /\ \/ Decide(x, "commit", "fail")
     \/ /\ e.at \in {"stream", "upload"}
        /\ agent["user"].at = "cancel" /\ agent["user"].inst = e.inst
        /\ Decide(x, "commit", "cancel")
  /\ UNCHANGED <<row, quiet, queue, leader, lease, lock, files, agent, incidents>>

\* A retryable error of a download (_executeDownloadInBackground): the event is
\* chosen by a read of the row, and nothing is enqueued.
TransferInterrupted(x) ==
  /\ exec[x].at \in {"download", "stream", "mtproto"}
  /\ Incident("error")
  /\ Decide(x, "recover", IF row.status = "downloaded" THEN "reset_upload" ELSE "retry")
  /\ UNCHANGED <<row, quiet, queue, leader, lease, lock, files, agent>>

\* The medium of the message is not what it was when the task was made, and getMediaInfo
\* finds nothing in it: both phases end, without an error, and leave the row as it is.
MediaUnreadable(x) ==
  /\ exec[x].at \in {"download", "upload"}
  /\ Incident("error")
  /\ Leave(x)
  /\ UNCHANGED <<row, quiet, queue, leader, lease, lock, files, agent>>

\* _resetAfterRetryableInfrastructureError
Recover(x) ==
  LET e == exec[x] IN
  /\ e.at = "recover"
  /\ Fenced(e.event, e.lease)
  /\ Leave(x)
  /\ UNCHANGED <<queue, leader, lease, lock, files, agent, incidents>>

\* Where an execution goes after its transition: on, when it was not blocked.
\* Only a validated upload is followed by the removal of the local file.
AfterCommit(e) ==
  LET blocked == Outcome(e.event, e.lease) \notin {"changed", "raced"} IN
  CASE e.event = "reset_stream_download" ->
         IF blocked THEN [e EXCEPT !.event = "fail"] ELSE [e EXCEPT !.at = "mtproto", !.event = "none"]
    [] e.event = "finish_download" /\ ~blocked -> [e EXCEPT !.at = "enqueue", !.event = "none"]
    [] e.at = "validated" /\ ~blocked          -> [Leaving(e) EXCEPT !.at = "cleanup"]
    [] OTHER                                   -> Leaving(e)

Commit(x) ==
  LET e == exec[x] IN
  /\ e.at \in {"commit", "validated"}
  /\ Fenced(e.event, e.lease)
  /\ exec' = [exec EXCEPT ![x] = AfterCommit(e)]
  /\ UNCHANGED <<queue, leader, lease, lock, files, agent, incidents>>

\* enqueueUploadTask after FINISH_DOWNLOAD, or in _enqueueDownloadedTaskForUpload
EnqueueUpload(x) ==
  /\ exec[x].at = "enqueue"
  /\ Enqueue("upload")
  /\ LeaveAcknowledged(x)
  /\ UNCHANGED <<row, quiet, leader, lease, lock, files, agent, incidents>>

\* The queue does not take the message (or takes it and the answer is lost).
EnqueueUploadFails(x) ==
  /\ exec[x].at = "enqueue"
  /\ Incident("queue")
  /\ Enqueue("upload") \/ UNCHANGED queue
  /\ \/ Decide(x, "recover", IF row.status = "downloaded" THEN "reset_upload" ELSE "retry")
     \/ Decide(x, "commit", "fail")
  /\ UNCHANGED <<row, quiet, leader, lease, lock, files, agent>>

\* uploadTask unlinks the local file after the final status was reported.
CleanUp(x) ==
  LET e == exec[x] IN
  /\ e.at = "cleanup"
  /\ files' = files \ {e.inst}
  /\ Goto(x, "release")
  /\ UNCHANGED <<row, quiet, queue, leader, lease, lock, agent, incidents>>

\* releaseTaskLock: whatever execution of this instance took the lock.  A
\* handler that did not acknowledge its message leaves it to QStash.
Release(x) ==
  LET e == exec[x] IN
  /\ e.at = "release"
  /\ lock' = IF lock = e.inst THEN Nobody ELSE lock
  /\ IF e.msg THEN Enqueue(e.kind) ELSE UNCHANGED queue
  /\ exec' = [exec EXCEPT ![x] = IdleExec]
  /\ UNCHANGED <<row, quiet, leader, lease, files, agent, incidents>>

-----------------------------------------------------------------------------
(* Recovery scan and user commands *)

AgentGoto(a, at) == agent' = [agent EXCEPT ![a].at = at]

AgentDone(a) == agent' = [agent EXCEPT ![a] = IdleAgent]

\* The message that would take the task on is still on its way.
OnItsWay ==
  \E k \in Kinds :
    /\ row.status = (IF k = "download" THEN "queued" ELSE "downloaded")
    /\ \/ queue[k] > 0
       \/ \E x \in Execs : exec[x].kind = k /\ exec[x].at \in {"lock", "start"}
       \/ \E a \in Agents : agent[a].kind = k /\ agent[a].at \in {"add", "enqueue"}

\* Nobody has written the row for two minutes.  It is an incident when the
\* worker that should send heartbeats did not, or a message was that slow, and
\* when a failed task has an error message that makes it recoverable.
GoesQuiet ==
  /\ row.status \in ActiveStatuses
  /\ ~quiet /\ ~Alive /\ ~OnItsWay
  /\ quiet' = TRUE
  /\ UNCHANGED <<row, queue, leader, lease, lock, files, exec, agent, incidents>>

GoesQuietEarly ==
  /\ row.status \in ActiveStatuses
  /\ ~quiet /\ (Alive \/ OnItsWay)
  /\ Incident("race")
  /\ quiet' = TRUE
  /\ UNCHANGED <<row, queue, leader, lease, lock, files, exec, agent>>

FailureIsRetryable ==
  /\ row.status = "failed"
  /\ ~quiet
  /\ Incident("error")
  /\ quiet' = TRUE
  /\ UNCHANGED <<row, queue, leader, lease, lock, files, exec, agent>>

\* Mutant of ScanRead: findStalledTasks overlooks the tasks that are downloaded.
ScanReadTransfersOnly(i) ==
  /\ agent["scan"].at = "idle"
  /\ leader = i
  /\ quiet
  /\ row.status \in {"queued", "downloading", "uploading", "failed"}
  /\ agent' = [agent EXCEPT !["scan"] =
                 [IdleAgent EXCEPT !.at = "reset", !.inst = i, !.seen = row.status]]
  /\ UNCHANGED <<row, quiet, queue, leader, lease, lock, files, exec, incidents>>

\* _runStalledTaskRecovery on the leader: findStalledTasks,
\* which finds failed tasks too if their error message looks retryable.
ScanRead(i) ==
  /\ agent["scan"].at = "idle"
  /\ leader = i
  /\ quiet
  /\ row.status \in ActiveStatuses \cup {"failed"}
  /\ agent' = [agent EXCEPT !["scan"] =
                 [IdleAgent EXCEPT !.at = "reset", !.inst = i, !.seen = row.status]]
  /\ UNCHANGED <<row, quiet, queue, leader, lease, lock, files, exec, incidents>>

ScanEvent(s) ==
  IF s.seen \in {"downloaded", "uploading"} /\ s.inst \in files THEN "reset_upload" ELSE "retry"

\* _restoreBatchTasks: an unfenced transition chosen by the status that was
\* read.  That somebody took the task up in the meantime is an incident.
ScanReset ==
  LET s == agent["scan"]
      event == ScanEvent(s)
      raced == row.status # s.seen \/ Alive
  IN
  /\ s.at = "reset"
  /\ IF raced THEN Incident("race") ELSE NoIncident
  /\ Plain(event)
  /\ agent' = [agent EXCEPT !["scan"] =
       IF ~Allowed(row.status, event) THEN IdleAgent
       ELSE [s EXCEPT !.at = "enqueue", !.seen = "none",
                      !.kind = IF event = "retry" THEN "download" ELSE "upload"]]
  /\ UNCHANGED <<queue, leader, lease, lock, files, exec>>

\* The race did not happen: nothing that was read is used.
ScanDrops ==
  /\ agent["scan"].at = "reset"
  /\ row.status # agent["scan"].seen \/ Alive
  /\ AgentDone("scan")
  /\ UNCHANGED <<row, quiet, queue, leader, lease, lock, files, exec, incidents>>

\* _enqueueTask / _enqueueUploadTask of a scan, of retryTask and of addTask
AgentEnqueue(a) ==
  /\ agent[a].at \in {"enqueue", "add"}
  /\ Enqueue(agent[a].kind)
  /\ AgentDone(a)
  /\ UNCHANGED <<row, quiet, leader, lease, lock, files, exec, incidents>>

\* The queue is not available: the scan and retryTask call the webhook handler
\* of their own instance (which may not be the leader any more), and a scan
\* that meets an error that is not retryable fails the task.
EnqueueFallsBack(a) ==
  /\ agent[a].at = "enqueue"
  /\ Incident("queue")
  /\ \/ \E x \in Execs : Handle(x, agent[a].kind, agent[a].inst, FALSE) /\ UNCHANGED <<row, quiet>>
     \/ a = "scan" /\ Plain("fail") /\ UNCHANGED exec
     \/ UNCHANGED <<row, quiet, exec>>
  /\ AgentDone(a)
  /\ UNCHANGED <<queue, leader, lease, lock, files>>

\* addTask: an enqueue that throws, taken by QStash or not, fails the task.
AddEnqueueFails ==
  /\ agent["user"].at = "add"
  /\ Incident("queue")
  /\ Enqueue("download") \/ UNCHANGED queue
  /\ AgentGoto("user", "addFailed")
  /\ UNCHANGED <<row, quiet, leader, lease, lock, files, exec>>

AddMarkFailed ==
  /\ agent["user"].at = "addFailed"
  /\ Plain("fail")
  /\ AgentDone("user")
  /\ UNCHANGED <<queue, leader, lease, lock, files, exec, incidents>>

Command(i, at) ==
  /\ agent["user"].at = "idle"
  /\ Incident("user")
  /\ agent' = [agent EXCEPT !["user"] = [IdleAgent EXCEPT !.at = at, !.inst = i]]
  /\ UNCHANGED <<row, quiet, queue, leader, lease, lock, files, exec>>

\* retryTask: for a failed or queued task; drops the lock of this instance,
\* moves the row and enqueues.
RetryTask(i) == row.status \in {"failed", "queued"} /\ Command(i, "unlock")

RetryUnlock ==
  /\ agent["user"].at = "unlock"
  /\ lock' = IF lock = agent["user"].inst THEN Nobody ELSE lock
  /\ AgentGoto("user", "retry")
  /\ UNCHANGED <<row, quiet, queue, leader, lease, files, exec, incidents>>

RetryTransition ==
  /\ agent["user"].at = "retry"
  /\ Plain("retry")
  /\ IF Allowed(row.status, "retry") THEN AgentGoto("user", "enqueue") ELSE AgentDone("user")
  /\ UNCHANGED <<queue, leader, lease, lock, files, exec, incidents>>

\* cancelTask: first the flag in cancelledTaskIds of this instance (the agent
\* is at "cancel"), then the transition, then the flag is taken back.
CancelTask(i) == Command(i, "cancel")

CancelTransition ==
  /\ agent["user"].at = "cancel"
  /\ Plain("cancel")
  /\ AgentDone("user")
  /\ UNCHANGED <<queue, leader, lease, lock, files, exec, incidents>>

-----------------------------------------------------------------------------
(* Environment *)

LeaseLost ==
  /\ leader # Nobody
  /\ Incident("lease")
  /\ leader' = Nobody
  /\ UNCHANGED <<row, quiet, queue, lease, lock, files, exec, agent>>

LeaseTaken(i) ==
  /\ leader = Nobody
  /\ lease < MaxLeases
  /\ leader' = i
  /\ lease' = lease + 1
  /\ UNCHANGED <<row, quiet, queue, lock, files, exec, agent, incidents>>

\* The TTL of a lock nobody renews ends ...
LockExpires ==
  /\ lock # Nobody /\ ~Locking(lock)
  /\ lock' = Nobody
  /\ UNCHANGED <<row, quiet, queue, leader, lease, files, exec, agent, incidents>>

\* ... or the renewals of one in use fail.
LockLost ==
  /\ lock # Nobody /\ Locking(lock)
  /\ Incident("lock")
  /\ lock' = Nobody
  /\ UNCHANGED <<row, quiet, queue, leader, lease, files, exec, agent>>

\* QStash gives up on a message, or delivers it once more.
Lose(kind) ==
  /\ queue[kind] > 0
  /\ Incident("queue")
  /\ queue' = [queue EXCEPT ![kind] = @ - 1]
  /\ UNCHANGED <<row, quiet, leader, lease, lock, files, exec, agent>>

Redeliver(kind) ==
  /\ queue[kind] < MaxMessages
  /\ \E x \in Execs : exec[x].at # "idle" /\ exec[x].kind = kind
  /\ Incident("queue")
  /\ queue' = [queue EXCEPT ![kind] = @ + 1]
  /\ UNCHANGED <<row, quiet, leader, lease, lock, files, exec, agent>>

\* An instance restarts under the same id, with its download directory or not.
\* Messages it has not acknowledged are delivered again.
Crash(i) ==
  LET dead == {x \in Execs : exec[x].inst = i}
      unanswered(k) == Cardinality({x \in dead : exec[x].msg /\ exec[x].kind = k})
  IN
  /\ dead # {} \/ \E a \in Agents : agent[a].inst = i
  /\ Incident("crash")
  /\ exec' = [x \in Execs |-> IF x \in dead THEN IdleExec ELSE exec[x]]
  /\ agent' = [a \in Agents |-> IF agent[a].inst = i THEN IdleAgent ELSE agent[a]]
  /\ queue' = [k \in Kinds |-> IF queue[k] + unanswered(k) < MaxMessages
                               THEN queue[k] + unanswered(k) ELSE MaxMessages]
  /\ files' = files \/ files' = files \ {i}
  /\ UNCHANGED <<row, quiet, leader, lease, lock>>

-----------------------------------------------------------------------------
\* What an execution does next if nothing goes wrong
Proceed(x) ==
  \/ AcquireLock(x) \/ LockBusy(x) \/ Start(x) \/ StartBlocked(x)
  \/ RepairUpload(x) \/ Launch(x) \/ UploadWithoutFile(x)
  \/ NothingToDownload(x) \/ StartDirectTransfer(x) \/ DirectTransferDone(x)
  \/ NoDirectTransfer(x) \/ Downloaded(x) \/ Uploaded(x) \/ TransferFails(x)
  \/ Recover(x) \/ Commit(x) \/ EnqueueUpload(x) \/ CleanUp(x) \/ Release(x)

AgentProceeds(a) ==
  \/ AgentEnqueue(a)
  \/ a = "scan" /\ (ScanReset \/ ScanDrops)
  \/ a = "user" /\ (AddMarkFailed \/ RetryUnlock \/ RetryTransition \/ CancelTransition)

Next ==
  \/ \E x \in Execs :
       \/ \E k \in Kinds, i \in Instances : Deliver(x, k, i)
       \/ Proceed(x)
       \/ TakeStaleLock(x) \/ SetupFails(x) \/ Heartbeat(x)
       \/ TransferInterrupted(x) \/ MediaUnreadable(x) \/ EnqueueUploadFails(x)
  \/ \E a \in Agents : AgentProceeds(a) \/ EnqueueFallsBack(a)
  \/ \E i \in Instances :
       ScanRead(i) \/ RetryTask(i) \/ CancelTask(i) \/ LeaseTaken(i) \/ Crash(i)
  \/ \E k \in Kinds : Lose(k) \/ Redeliver(k)
  \/ GoesQuiet \/ GoesQuietEarly \/ FailureIsRetryable \/ AddEnqueueFails
  \/ LeaseLost \/ LockExpires \/ LockLost

Spec == Init /\ [][Next]_vars

\* Executions, commands and scans run on, timers fire, TTLs end, some instance
\* takes the free lease, and QStash delivers what it is not told to drop.
Fairness ==
  /\ \A x \in Execs : WF_vars(Proceed(x))
  /\ \A a \in Agents : WF_vars(AgentProceeds(a))
  /\ \A k \in Kinds : SF_vars(\E x \in Execs, i \in Instances : Deliver(x, k, i))
  /\ WF_vars(GoesQuiet)
  /\ WF_vars(LockExpires)
  /\ WF_vars(\E i \in Instances : LeaseTaken(i))
  /\ WF_vars(\E i \in Instances : ScanRead(i))

FairSpec == Spec /\ Fairness

\* Instances are alike, so the first leader may be given for model checking.
FirstLeader == CHOOSE i \in Instances : TRUE

FirstInit == Init /\ leader = FirstLeader

OneFirstLeader == FirstInit /\ [][Next]_vars /\ Fairness

-----------------------------------------------------------------------------
(* Properties *)

TypeOK ==
  /\ row \in [status : Statuses, claim : 0..MaxLeases]
  /\ quiet \in BOOLEAN
  /\ queue \in [Kinds -> 0..MaxMessages]
  /\ leader \in Instances \cup {Nobody}
  /\ lease \in 1..MaxLeases
  /\ lock \in Instances \cup {Nobody}
  /\ files \subseteq Instances
  /\ exec \in [Execs ->
       [at : Running \cup {"idle", "lock", "start", "cleanup", "release"}, kind : Kinds,
        inst : Instances \cup {Nobody}, lease : 0..MaxLeases,
        seen : Statuses \cup {"none"}, event : Events \cup {"none"}, msg : BOOLEAN]]
  /\ agent \in [Agents ->
       [at : {"idle", "add", "addFailed", "unlock", "retry", "cancel", "reset", "enqueue"},
        inst : Instances \cup {Nobody}, seen : Statuses \cup {"none"}, kind : Kinds]]
  /\ incidents \in 0..MaxIncidents

\* A row carries a claim exactly while it is worked on.  Every fence, and the
\* recovery of a stale lock (_canRecoverStaleTaskProcessingLock), reads a missing
\* claim as "nobody works on this": no interleaving of takeovers, unfenced resets
\* and late writes may leave a running task unclaimed or an idle one claimed.
ClaimMatchesStatus == row.claim = 0 <=> row.status \in ClaimFree

\* A second execution of a task may be at work beside the one that ended it, on the
\* same instance, with the same lease: the lock of downloadTask is re-entrant.  Whatever
\* it, redelivered messages, scans and late heartbeats write then, a task that completed
\* or was cancelled stays so, and a failed one is revived by being queued again only:
\* the table would let the fallback of a stream (RESET_STREAM_DOWNLOAD) take it back to
\* work, and what keeps the other execution from it is that ending the task took the
\* claim off the row.
EndedStaysEnded ==
  [][/\ row.status \in {"completed", "cancelled"} => row'.status = row.status
     /\ row.status = "failed" => row'.status \in {"failed", "queued"}]_vars

\* "Lossless recovery after an instance restart" (the head of TaskManager.js):
\* however often, within the budget of incidents, instances crash, leases and
\* locks move, messages get lost and workers are overtaken, a task that is
\* still to be done is completed, failed or cancelled in the end.
TaskEnds == row.status \in ActiveStatuses ~> row.status \in TerminalStatuses

\* The variables have their types, and the claim says whether the task is worked on.
ProcessingSafe == TypeOK /\ ClaimMatchesStatus

=============================================================================
