--------------------------- MODULE StreamTransfer ---------------------------
(***************************************************************************)
(* One task sent by the instance that downloads it to one worker that      *)
(* uploads it: StreamTransferService.js (the worker, and the sender's      *)
(* calls) with _handleStreamForwarding of TaskManager.download.js (the     *)
(* sender).  The sender always asks for the resumable mode: chunks are     *)
(* staged in a file of the worker, and the last one starts an upload of    *)
(* that file, which nobody awaits; the sender polls for its end.           *)
(*                                                                         *)
(* The worker answers requests for the task one at a time (_withTaskLock). *)
(* Outside that lock are its uploads, the clean-up of stale streams and    *)
(* its death.  A context of the worker is an object: it may be at work     *)
(* after it has left activeStreams.                                        *)
(*                                                                         *)
(* Each attempt at the task has a claim of its own.  A request that timed  *)
(* out for the sender may still reach the worker.  Row changes are those   *)
(* of TaskStore.tla, taken as one step.                                    *)
(***************************************************************************)
EXTENDS Integers, Sequences, FiniteSets, TaskStateMachine

CONSTANTS
  Chunks,               \* chunks of the file
  Attempts,        \* 1..n: claims of the task, also their numbers
  MaxContexts,     \* bound on the worker's contexts (model checking only)
  MaxChunkRetries, \* maxRetryAttempts, 3 in the code
  MaxIncidents     \* bound on time-outs, deaths, clean-ups, failures (model checking only)

ASSUME StreamAssumption ==
  /\ Chunks \in Nat \ {0} /\ Attempts \subseteq Nat \ {0}
  /\ MaxContexts \in Nat /\ MaxChunkRetries \in Nat /\ MaxIncidents \in Nat

VARIABLES
  row,       \* status and claim of the task
  owner,     \* the stream owner record names the worker
  att,       \* each attempt: where it is, its chunk, and the retries it read of it
  fails,     \* chunkRetryAttempts of the sender
  net,       \* requests on their way
  busy,      \* what the worker does under the task lock
  ctx,       \* the worker's context objects that are in use
  active,    \* activeStreams: the context of the task, or 0
  staging,   \* the staging file: its whole chunks, and a torn rest
  remote,    \* the uploaded file: its chunks
  status,    \* the finalization status in the cache
  late,      \* contexts whose status 'uploading' has yet to be stored
  dropped,   \* history: a clean-up took a context out of activeStreams
  strayed,   \* history: something after which a wait may be in vain, see WaitIsFed
  incidents

workerVars == <<busy, ctx, active, staging, remote, status, late>>
histVars == <<dropped, strayed, incidents>>
streamVars == <<row, owner, att, fails, net, workerVars, histVars>>

-----------------------------------------------------------------------------
NoRequest == [a |-> 0, kind |-> "none", k |-> 0]

NoContext == [phase |-> "none", last |-> 0, lease |-> 0, cancelled |-> FALSE,
              file |-> "closed", work |-> "none"]

Ended == {"succeeded", "local", "rejected", "cancelled"}

\* Uploads of the staging file under way
Working == {"check", "upload", "validate", "complete", "clean"}

Requests == [a : Attempts, kind : {"resume", "resumeOwned", "chunk", "reset", "abort"}, k : 0..Chunks]

StreamTypeOK ==
  /\ row \in [status : Statuses, lease : Attempts \cup {0}]
  /\ owner \in BOOLEAN
  /\ att \in [Attempts ->
       [at : {"idle", "start", "own", "resume", "reset", "loop", "chunk", "wait",
              "givingUp", "abort", "fallingBack"} \cup Ended,
        k : 1..(Chunks + 1), tries : 0..MaxChunkRetries]]
  /\ fails \in [1..Chunks -> 0..MaxChunkRetries]
  /\ net \subseteq Requests
  /\ busy \in [req : Requests \cup {NoRequest}, c : 0..MaxContexts,
               step : {"free", "write", "last", "clear"}]
  /\ ctx \in [1..MaxContexts ->
       [phase : {"none", "receiving", "finalizing", "completed", "failed", "cancelled"},
        last : 0..Chunks, lease : Attempts \cup {0}, cancelled : BOOLEAN, file : {"closed", "staging", "unlinked"},
        work : Working \cup {"none", "refused", "thrown", "saved", "report", "ended"}]]
  /\ active \in 0..MaxContexts
  /\ staging.chunks \in UNION {[1..n -> 1..Chunks] : n \in 0..Chunks} /\ staging.torn \in BOOLEAN
  /\ remote \in UNION {[1..n -> 1..Chunks] : n \in 0..Chunks}
  /\ status \in {"none", "uploading", "completed", "failed", "cancelled"}
  /\ late \subseteq 1..MaxContexts
  /\ dropped \in BOOLEAN /\ strayed \in BOOLEAN
  /\ incidents \in 0..MaxIncidents

EmptyStaging == [chunks |-> <<>>, torn |-> FALSE]

StreamInit ==
  /\ row = [status |-> "queued", lease |-> 0]
  /\ owner = FALSE
  /\ att = [a \in Attempts |-> [at |-> "idle", k |-> 1, tries |-> 0]]
  /\ fails = [k \in 1..Chunks |-> 0]
  /\ net = {}
  /\ busy = [req |-> NoRequest, c |-> 0, step |-> "free"]
  /\ ctx = [c \in 1..MaxContexts |-> NoContext]
  /\ active = 0
  /\ staging = EmptyStaging
  /\ remote = <<>> /\ status = "none" /\ late = {}
  /\ dropped = FALSE /\ strayed = FALSE /\ incidents = 0

-----------------------------------------------------------------------------
(* The row: transitionStatus with a claim and allowNoop.  The last three     *)
(* cases of its verdict are one here: blocked.                               *)

RowMatches(event, lease) == Allowed(row.status, event) /\ row.lease = lease

\* Not blocked: changed, or found in the target status whoever has the claim
Passes(event, lease) ==
  RowMatches(event, lease) \/ (Allowed(row.status, event) /\ row.status = TargetStatus[event])

RowAfter(event, lease) ==
  IF RowMatches(event, lease)
  THEN [status |-> TargetStatus[event],
        lease |-> IF TargetStatus[event] \in TerminalStatuses THEN 0 ELSE lease]
  ELSE row

FireEvent(event, lease) == row' = RowAfter(event, lease)

Incident == incidents < MaxIncidents /\ incidents' = incidents + 1

-----------------------------------------------------------------------------
(* The sender *)

Goes(a, at, k) == att' = [att EXCEPT ![a] = [at |-> at, k |-> k, tries |-> 0]]

Sends(a, kind, k) == net' = net \cup {[a |-> a, kind |-> kind, k |-> k]}

\* A claim: of a queued task, of one whose claim has lapsed, or of one that
\* failed and is tried again by its user.
Claim(a) ==
  /\ att[a].at = "idle" /\ \A b \in Attempts : b < a => att[b].at # "idle"
  /\ row.status \in ActiveStatuses \cup {"failed"}
  /\ row' = [status |-> "downloading", lease |-> a]
  /\ Goes(a, "start", 1)
  /\ strayed' = (strayed \/ \E b \in Attempts \ {a} : att[b].at \notin Ended \cup {"idle"})
  /\ UNCHANGED <<owner, fails, net, workerVars, dropped, incidents>>

\* assertClaimFenceCurrent and START_STREAM_UPLOAD; when blocked the file is
\* uploaded from here.
StartForwarding(a) ==
  /\ att[a].at = "start"
  /\ FireEvent("start_stream_upload", a)
  /\ Goes(a, IF RowMatches("start_stream_upload", a) THEN "own" ELSE "local", 1)
  /\ UNCHANGED <<owner, fails, net, workerVars, histVars>>

\* registerStreamOwner, then resumeTask asks the worker
RegisterOwner(a) ==
  /\ att[a].at = "own"
  /\ owner' = TRUE
  /\ Goes(a, "resume", 1) /\ Sends(a, "resume", 0)
  /\ UNCHANGED <<row, fails, workerVars, histVars>>

PassedOver(k) == fails[k] >= MaxChunkRetries

\* forwardChunk: a chunk that failed too often is passed over without an error
SendChunk(a) ==
  LET k == att[a].k IN
  /\ att[a].at = "loop" /\ k <= Chunks
  /\ IF PassedOver(k)
     THEN /\ Goes(a, "loop", k + 1) /\ strayed' = TRUE
          /\ UNCHANGED net
     ELSE /\ att' = [att EXCEPT ![a] = [at |-> "chunk", k |-> k, tries |-> fails[k]]]
          /\ Sends(a, "chunk", k)
          /\ UNCHANGED strayed
  /\ UNCHANGED <<row, owner, fails, workerVars, dropped, incidents>>

\* The iterator is at its end: waitForFinalization
AllSent(a) ==
  /\ att[a].at = "loop" /\ att[a].k > Chunks
  /\ Goes(a, "wait", Chunks + 1)
  /\ UNCHANGED <<row, owner, fails, net, workerVars, histVars>>

\* The user cancels; the loop finds out before the next chunk and leaves
\* everything as it is at the worker.
CancelTask ==
  /\ Allowed(row.status, "cancel") /\ row.status # "cancelled"
  /\ row' = [status |-> "cancelled", lease |-> 0]
  /\ Incident
  /\ UNCHANGED <<owner, att, fails, net, workerVars, dropped, strayed>>

FindsCancelled(a) ==
  /\ att[a].at = "loop" /\ att[a].k <= Chunks /\ row.status = "cancelled"
  /\ Goes(a, "cancelled", 1)
  /\ UNCHANGED <<row, owner, fails, net, workerVars, histVars>>

\* getTaskFullProgress: the context's finalizeState, else the stored status
Shown ==
  IF active # 0
  THEN CASE ctx[active].phase = "receiving" -> "none"
         [] ctx[active].phase = "finalizing" -> "uploading"
         [] OTHER -> ctx[active].phase
  ELSE status

\* _finalizationResultFromStatus
HasResult(shown) == shown \in {"completed", "failed", "cancelled"}

\* A wait that a resume began, with nothing left to send, leaves the owner registered.
Poll(a) ==
  /\ att[a].at = "wait" /\ HasResult(Shown)
  /\ IF Shown = "completed"
     THEN Goes(a, "succeeded", 1) /\ owner' = (att[a].k = 1 /\ owner)
     ELSE Goes(a, "givingUp", 1) /\ UNCHANGED owner
  /\ UNCHANGED <<row, fails, net, workerVars, histVars>>

\* The deadline of the wait
WaitTimesOut(a) ==
  /\ att[a].at = "wait" /\ ~HasResult(Shown)
  /\ Goes(a, "givingUp", 1)
  /\ UNCHANGED <<row, owner, fails, net, workerVars, histVars>>

\* The attempt still waits for the answer to m.
Awaits(m) == att[m.a].at = (IF m.kind = "resumeOwned" THEN "resume" ELSE m.kind)
             /\ (m.kind = "chunk" => att[m.a].k = m.k)

\* What a request that failed makes of its attempt: a failed resume is followed
\* by a reset and a start from the first chunk, anything else gives up.
Fails(a, others) ==
  LET k == att[a].k IN
  /\ CASE att[a].at = "resume" -> Goes(a, "reset", 1)
       [] att[a].at = "abort" -> Goes(a, "fallingBack", 1)
       [] OTHER -> Goes(a, "givingUp", 1)
  /\ net' = others \cup
       (IF att[a].at = "resume" THEN {[a |-> a, kind |-> "reset", k |-> 0]} ELSE {})
  /\ fails' = IF att[a].at = "chunk" THEN [fails EXCEPT ![k] = att[a].tries + 1] ELSE fails

\* No answer in time: the request is lost, or still on its way or at work.
TimesOut(a) ==
  /\ att[a].at \in {"resume", "reset", "chunk", "abort"}
  /\ IF \E m \in net : m.a = a /\ Awaits(m) THEN Incident ELSE UNCHANGED incidents
  /\ \E others \in {net, {m \in net : m.a # a}} : Fails(a, others)
  /\ UNCHANGED <<row, owner, workerVars, dropped, strayed>>

\* The catch of _handleStreamForwarding: reset the worker, ...
GiveUp(a) ==
  /\ att[a].at = "givingUp"
  /\ Goes(a, "abort", 1) /\ Sends(a, "abort", 0)
  /\ UNCHANGED <<row, owner, fails, workerVars, histVars>>

\* ... clear the owner, and go back to a download of one's own if the row allows.
FallBack(a) ==
  /\ att[a].at = "fallingBack"
  /\ owner' = FALSE
  /\ FireEvent("reset_stream_download", a)
  /\ Goes(a, IF Passes("reset_stream_download", a) THEN "local" ELSE "rejected", 1)
  /\ UNCHANGED <<fails, net, workerVars, histVars>>

\* cleanupStaleStreams of the sender, every minute: it has no context itself
ForgetRetries ==
  /\ \E k \in 1..Chunks : fails[k] >= MaxChunkRetries
  /\ fails' = [k \in 1..Chunks |-> IF fails[k] >= MaxChunkRetries THEN 0 ELSE fails[k]]
  /\ UNCHANGED <<row, owner, att, net, workerVars, histVars>>

-----------------------------------------------------------------------------
(* The worker: requests *)

\* The answer to m: the attempt goes on at label with chunk k, or it fails.
Answers(m, label, k) ==
  /\ IF Awaits(m) THEN Goes(m.a, label, k) ELSE UNCHANGED att
  /\ net' = net \ {m}
  /\ fails' = IF Awaits(m) /\ m.kind = "chunk" THEN [fails EXCEPT ![m.k] = 0] ELSE fails

RefusesRequest(m) ==
  IF Awaits(m) THEN Fails(m.a, net \ {m})
  ELSE net' = net \ {m} /\ UNCHANGED <<att, fails>>

Free == [req |-> NoRequest, c |-> 0, step |-> "free"]

\* _normalizeResumableProgress and truncate: whole chunks only
Normalized(file) == [chunks |-> file.chunks, torn |-> FALSE]

Complete(file) == Len(file.chunks) = Chunks /\ ~file.torn

\* _buildResumableContext, and _startResumableFinalization when all is there
NewContext(a) ==
  [phase |-> IF Complete(Normalized(staging)) THEN "finalizing" ELSE "receiving",
   last |-> Len(Normalized(staging).chunks), lease |-> a, cancelled |-> FALSE,
   file |-> IF Complete(Normalized(staging)) THEN "closed" ELSE "staging",
   work |-> IF Complete(Normalized(staging)) THEN "check" ELSE "none"]

\* Where a context that is created is kept: in place of one nobody uses any more
FreeSlots == {c \in 1..MaxContexts :
                ctx[c].work \in {"none", "ended"} /\ c \notin late \cup {active, busy.c}}

Slot == CHOOSE c \in FreeSlots : TRUE

OpenContext(a) ==
  /\ FreeSlots # {}
  /\ active' = Slot
  /\ ctx' = [ctx EXCEPT ![Slot] = NewContext(a)]
  /\ late' = IF Complete(Normalized(staging)) THEN late \cup {Slot} ELSE late
  /\ staging' = Normalized(staging)

\* handleIncomingChunk up to the body: the owner, the context or a new one
TakeChunk(m) ==
  /\ busy = Free /\ m \in net /\ m.kind = "chunk" /\ owner
  /\ IF active # 0
     THEN /\ busy' = [req |-> m, c |-> active, step |-> "write"]
          /\ UNCHANGED <<row, ctx, active, staging, late>>
     ELSE /\ Passes("start_stream_upload", m.a) /\ FireEvent("start_stream_upload", m.a)
          /\ OpenContext(m.a)
          /\ busy' = [req |-> m, c |-> Slot, step |-> "write"]
  /\ UNCHANGED <<owner, att, fails, net, remote, status, histVars>>

\* Not the owner, or the row refuses (then the staging file has been cut already)
RefuseChunk(m) ==
  /\ busy = Free /\ m \in net /\ m.kind = "chunk"
  /\ \/ ~owner /\ UNCHANGED staging
     \/ /\ owner /\ active = 0 /\ ~Passes("start_stream_upload", m.a)
        /\ staging' = Normalized(staging)
  /\ RefusesRequest(m)
  /\ UNCHANGED <<row, owner, busy, ctx, active, remote, status, late, histVars>>

\* "Duplicate chunk ignored"
AlreadyStaged(c, k) == k <= ctx[c].last

AnswerDuplicate ==
  LET m == busy.req IN
  /\ busy.step = "write" /\ AlreadyStaged(busy.c, m.k)
  /\ busy' = Free
  /\ Answers(m, "loop", m.k + 1)
  /\ UNCHANGED <<row, owner, ctx, active, staging, remote, status, late, histVars>>

RefuseChunkGap ==
  LET m == busy.req IN
  /\ busy.step = "write" /\ m.k > ctx[busy.c].last + 1
  /\ busy' = Free
  /\ RefusesRequest(m)
  /\ UNCHANGED <<row, owner, ctx, active, staging, remote, status, late, histVars>>

ComesNext == busy.step = "write" /\ ~AlreadyStaged(busy.c, busy.req.k)
          /\ busy.req.k <= ctx[busy.c].last + 1

\* The sender's isLast
IsLast(k) == k = Chunks

\* The whole body is appended.
WriteChunk ==
  LET c == busy.c
      m == busy.req
  IN
  /\ ComesNext /\ ctx[c].file # "closed" /\ ctx[c].phase = "receiving"
  /\ staging' = IF ctx[c].file = "unlinked" THEN staging
                ELSE [staging EXCEPT !.chunks = Append(@, m.k)]
  /\ ctx' = [ctx EXCEPT ![c].last = m.k]
  /\ IF IsLast(m.k)
     THEN busy' = [busy EXCEPT !.step = "last"] /\ UNCHANGED <<att, net, fails>>
     ELSE busy' = Free /\ Answers(m, "loop", m.k + 1)
  /\ UNCHANGED <<row, owner, active, remote, status, late, histVars>>

\* A context taken out of activeStreams: it goes on only if its upload does.
Left(c) == IF ctx[c].work \in {"none", "ended"} THEN NoContext
           ELSE [ctx[c] EXCEPT !.file = "closed"]

\* The catch: the context goes, the task fails.
AbandonsContext(c) ==
  /\ busy' = Free
  /\ active' = 0
  /\ ctx' = [ctx EXCEPT ![c] = Left(c)]
  /\ FireEvent("fail", ctx[c].lease)
  /\ RefusesRequest(busy.req)

\* Part of a chunk has been appended.
Torn(c) == IF ctx[c].file = "staging" THEN [staging EXCEPT !.torn = TRUE] ELSE staging

\* The request is cut off in its body (part of it may be in the file), or the
\* file has been closed.
WriteFails ==
  LET c == busy.c IN
  /\ ComesNext
  /\ \/ /\ ctx[c].file # "closed" /\ Incident
        /\ staging' \in {staging, Torn(c)}
     \/ /\ ctx[c].file = "closed" \/ ctx[c].phase # "receiving"
        /\ UNCHANGED <<staging, incidents>>
  /\ AbandonsContext(c)
  /\ UNCHANGED <<owner, remote, status, late, dropped, strayed>>

\* After the last chunk: close the file, compare its size, start the upload
LastChunk ==
  LET c == busy.c
      m == busy.req
  IN
  /\ busy.step = "last" /\ Complete(staging)
  /\ ctx' = [ctx EXCEPT ![c].file = "closed", ![c].phase = "finalizing", ![c].work = "check"]
  /\ late' = late \cup {c}
  /\ busy' = Free
  /\ Answers(m, "loop", m.k + 1)
  /\ UNCHANGED <<row, owner, active, staging, remote, status, histVars>>

LastChunkFails ==
  /\ busy.step = "last" /\ ~Complete(staging)
  /\ AbandonsContext(busy.c)
  /\ UNCHANGED <<owner, staging, remote, status, late, histVars>>

\* resumeTask of the worker: the owner is looked at before the lock is held, ...
AdmitResume(m) ==
  /\ m \in net /\ m.kind = "resume"
  /\ IF owner
     THEN /\ net' = (net \ {m}) \cup {[m EXCEPT !.kind = "resumeOwned"]}
          /\ UNCHANGED <<att, fails>>
     ELSE RefusesRequest(m)
  /\ UNCHANGED <<row, owner, workerVars, histVars>>

\* Mutant of HasContext: a resume opens a new context for what is staged.
HasContextOnlyReceiving == active # 0 /\ ctx[active].phase = "receiving"

HasContext == active # 0

\* ... then the context answers, whoever opened it, ...
ResumeContext(m) ==
  /\ busy = Free /\ m \in net /\ m.kind = "resumeOwned" /\ HasContext
  /\ IF ctx[active].phase \in {"finalizing", "completed"} \/ ctx[active].last = Chunks
     THEN Answers(m, "wait", 1)
     ELSE Answers(m, "loop", ctx[active].last + 1)
  /\ UNCHANGED <<row, owner, workerVars, histVars>>

\* ... or a stored end, or a whole staging file whose upload is started, or what
\* there is of it.
ResumeStaging(m) ==
  LET whole == Complete(Normalized(staging)) IN
  /\ busy = Free /\ m \in net /\ m.kind = "resumeOwned" /\ ~HasContext
  /\ \/ /\ status = "completed" \/ ~whole
        /\ staging' = Normalized(staging)
        /\ IF status = "completed" THEN Answers(m, "wait", 1)
           ELSE Answers(m, "loop", Len(staging'.chunks) + 1)
        /\ UNCHANGED <<row, ctx, active, late>>
     \/ /\ status # "completed" /\ whole
        /\ Passes("start_stream_upload", m.a) /\ FireEvent("start_stream_upload", m.a)
        /\ OpenContext(m.a)
        /\ Answers(m, "wait", 1)
     \/ /\ status # "completed" /\ whole /\ ~Passes("start_stream_upload", m.a)
        /\ staging' = Normalized(staging)
        /\ RefusesRequest(m)
        /\ UNCHANGED <<row, ctx, active, late>>
  /\ UNCHANGED <<owner, busy, remote, status, histVars>>

IsReset(m) == m.kind \in {"reset", "abort"}

AfterReset(m) == IF m.kind = "reset" THEN "loop" ELSE "fallingBack"

\* resetTask of the worker for the owner's sender: the context is cancelled, ...
BeginResetTask(m) ==
  /\ busy = Free /\ m \in net /\ IsReset(m) /\ owner
  /\ ctx' = [c \in 1..MaxContexts |->
               IF c # active THEN ctx[c]
               ELSE IF Left(c) = NoContext THEN NoContext
               ELSE [Left(c) EXCEPT !.cancelled = TRUE]]
  /\ strayed' = (strayed \/ ~Awaits(m) \/ \E a \in Attempts \ {m.a} : att[a].at \notin Ended \cup {"idle"})
  /\ active' = 0
  /\ busy' = [req |-> m, c |-> 0, step |-> "clear"]
  /\ UNCHANGED <<row, owner, att, fails, net, staging, remote, status, late,
                 dropped, incidents>>

\* ... and all that is stored for the task is removed.
EndResetTask ==
  /\ busy.step = "clear"
  /\ status' = "none" /\ owner' = FALSE /\ staging' = EmptyStaging
  /\ busy' = Free
  /\ Answers(busy.req, AfterReset(busy.req), 1)
  /\ UNCHANGED <<row, ctx, active, remote, late, histVars>>

\* Not its owner: answered 200 all the same
IgnoreReset(m) ==
  /\ busy = Free /\ m \in net /\ IsReset(m) /\ ~owner
  /\ Answers(m, AfterReset(m), 1)
  /\ UNCHANGED <<row, owner, workerVars, histVars>>

-----------------------------------------------------------------------------
(* The worker: the upload of the staging file, which no request waits for *)

Works(c, stage) == ctx' = [ctx EXCEPT ![c].work = stage]

\* _completeResumableUpload: still wanted, and the file is whole
CheckStaging(c) ==
  /\ ctx[c].work = "check"
  /\ Works(c, IF ctx[c].cancelled \/ ~Complete(staging) THEN "thrown" ELSE "upload")
  /\ UNCHANGED <<row, owner, att, fails, net, busy, active, staging, remote,
                 status, late, histVars>>

\* uploadLocalFileToRemote succeeds with the file as it is ...
Upload(c) ==
  /\ ctx[c].work = "upload" /\ ~ctx[c].cancelled /\ staging.chunks # <<>>
  /\ remote' = staging.chunks
  /\ Works(c, "validate")
  /\ UNCHANGED <<row, owner, att, fails, net, busy, active, staging, status,
                 late, histVars>>

\* ... or it is aborted, its file is gone, or rclone gives up.
UploadFails(c) ==
  /\ ctx[c].work = "upload"
  /\ IF ctx[c].cancelled \/ staging.chunks = <<>> THEN UNCHANGED incidents ELSE Incident
  /\ Works(c, "thrown")
  /\ UNCHANGED <<row, owner, att, fails, net, busy, active, staging, remote,
                 status, late, dropped, strayed>>

\* finishTask: the size of the remote file; a mismatch fails the task
Validate(c) ==
  /\ ctx[c].work = "validate"
  /\ IF ctx[c].cancelled THEN Works(c, "thrown") /\ UNCHANGED row
     ELSE IF Len(remote) = Chunks THEN Works(c, "complete") /\ UNCHANGED row
     ELSE Works(c, "refused") /\ FireEvent("fail", ctx[c].lease)
  /\ UNCHANGED <<owner, att, fails, net, busy, active, staging, remote,
                 status, late, histVars>>

CompletionPasses(c) == Passes("complete", ctx[c].lease)

CompleteTask(c) ==
  /\ ctx[c].work = "complete"
  /\ FireEvent("complete", ctx[c].lease)
  /\ Works(c, IF CompletionPasses(c) THEN "clean" ELSE "refused")
  /\ UNCHANGED <<owner, att, fails, net, busy, active, staging, remote,
                 status, late, histVars>>

\* The staging file is removed, and whatever context is in activeStreams.
RemoveStaging(c) ==
  /\ ctx[c].work = "clean"
  /\ staging' = EmptyStaging
  /\ active' = 0
  /\ ctx' = [d \in 1..MaxContexts |->
               IF d = c THEN [ctx[c] EXCEPT !.phase = "completed", !.work = "saved"]
               ELSE IF ctx[d].file = "staging" THEN [ctx[d] EXCEPT !.file = "unlinked"]
               ELSE ctx[d]]
  /\ UNCHANGED <<row, owner, att, fails, net, busy, remote, status, late, histVars>>

\* The end without completion is noted in the context ...
NoteFailure(c) ==
  /\ ctx[c].work \in {"refused", "thrown"}
  /\ ctx' = [ctx EXCEPT ![c].phase = IF ctx[c].work = "thrown" /\ ctx[c].cancelled
                                     THEN "cancelled" ELSE "failed",
                        ![c].work = IF ctx[c].work = "thrown" /\ ~ctx[c].cancelled
                                    THEN "report" ELSE "saved"]
  /\ UNCHANGED <<row, owner, att, fails, net, busy, active, staging, remote,
                 status, late, histVars>>

\* ... every end is stored, and an exception fails the task.
SaveEnd(c) ==
  /\ ctx[c].work \in {"saved", "report"}
  /\ status' = ctx[c].phase
  /\ IF ctx[c].work = "report" THEN FireEvent("fail", ctx[c].lease) ELSE UNCHANGED row
  /\ ctx' = [ctx EXCEPT ![c] = IF c \in {active, busy.c} THEN [@ EXCEPT !.work = "ended"] ELSE NoContext]
  /\ UNCHANGED <<owner, att, fails, net, busy, active, staging, remote, late, histVars>>

\* void _saveFinalizationStatus(uploading): it may be stored last.
SaveUploading(c) ==
  /\ c \in late
  /\ late' = late \ {c}
  /\ status' = "uploading"
  /\ strayed' = (strayed \/ ctx[c].work \in {"none", "ended"})
  /\ UNCHANGED <<row, owner, att, fails, net, busy, ctx, active, staging, remote,
                 dropped, incidents>>

\* cleanupStaleStreams: nothing came for five minutes, whether or not the upload
\* is under way.
CleanStaleStreams ==
  /\ active # 0 /\ Incident
  /\ ctx' = [ctx EXCEPT ![active] = IF busy.c = active THEN [@ EXCEPT !.file = "closed"]
                                     ELSE Left(active)]
  /\ active' = 0
  /\ dropped' = TRUE
  /\ UNCHANGED <<row, owner, att, fails, net, busy, staging, remote, status, late,
                 strayed>>

\* The worker dies: its staging file, the cache and the row survive.
WorkerDies ==
  /\ Incident
  /\ ctx' = [c \in 1..MaxContexts |-> NoContext]
  /\ active' = 0 /\ late' = {}
  /\ busy' = Free
  /\ net' = IF busy.req = NoRequest THEN net ELSE net \ {busy.req}
  /\ staging' \in {staging} \cup (IF ComesNext THEN {Torn(busy.c)} ELSE {})
  /\ strayed' = TRUE
  /\ UNCHANGED <<row, owner, att, fails, remote, status, dropped>>

Terminated ==
  /\ \A a \in Attempts : att[a].at \in Ended \/ (att[a].at = "idle" /\ row.status \in {"completed", "cancelled"})
  /\ UNCHANGED streamVars

StreamNext ==
  \/ \E a \in Attempts :
       \/ Claim(a) \/ StartForwarding(a) \/ RegisterOwner(a) \/ SendChunk(a)
       \/ AllSent(a) \/ FindsCancelled(a) \/ Poll(a) \/ WaitTimesOut(a)
       \/ TimesOut(a) \/ GiveUp(a) \/ FallBack(a)
  \/ CancelTask \/ ForgetRetries
  \/ \E m \in net :
       \/ TakeChunk(m) \/ RefuseChunk(m) \/ AdmitResume(m) \/ ResumeContext(m)
       \/ ResumeStaging(m) \/ BeginResetTask(m) \/ IgnoreReset(m)
  \/ AnswerDuplicate \/ RefuseChunkGap \/ WriteChunk \/ WriteFails \/ LastChunk
  \/ LastChunkFails \/ EndResetTask
  \/ \E c \in 1..MaxContexts :
       \/ CheckStaging(c) \/ Upload(c) \/ UploadFails(c) \/ Validate(c)
       \/ CompleteTask(c) \/ RemoveStaging(c) \/ NoteFailure(c) \/ SaveEnd(c)
       \/ SaveUploading(c)
  \/ CleanStaleStreams \/ WorkerDies
  \/ Terminated

StreamSpec == StreamInit /\ [][StreamNext]_streamVars

-----------------------------------------------------------------------------
(* Whatever is lost, repeated, cut off or continued after a restart, the     *)
(* staging file holds the first chunks of the file in their order, and a     *)
(* context that is receiving expects the one that comes next.                *)
StagedInOrder ==
  /\ staging.chunks = [k \in 1..Len(staging.chunks) |-> k]
  /\ active # 0 /\ ctx[active].file = "staging"
       => ctx[active].last = Len(staging.chunks) /\ ~staging.torn

(* An attempt that tells its caller the file is uploaded is right: the row   *)
(* is completed and the whole file is there, whichever attempt's upload that *)
(* was.  Only an upload that a clean-up of stale streams has forgotten may   *)
(* still store part of the file over it, when the staging file is filled     *)
(* anew.                                                                     *)
SuccessMeansCompleted ==
  \A a \in Attempts : att[a].at = "succeeded"
    => row.status = "completed" /\ (~dropped => Len(remote) = Chunks)

(* The staging file is uploaded by one upload at a time, if it has not been  *)
(* cancelled and no clean-up of stale streams has forgotten one that was     *)
(* under way (cleanupStaleStreams counts from the last chunk, however long   *)
(* the upload takes).                                                        *)
OneUpload ==
  ~dropped =>
    Cardinality({c \in 1..MaxContexts : ctx[c].work \in Working /\ ~ctx[c].cancelled}) <= 1

(* A sender that waits for the end of an upload waits for somebody: a        *)
(* context that is uploading, or an end that is stored.  The exceptions are  *)
(* a worker that died, a second attempt at the same task, a chunk that was   *)
(* passed over, and a status 'uploading' stored after the end.               *)
WaitIsFed ==
  \A a \in Attempts :
    att[a].at = "wait" /\ ~strayed /\ ~dropped
      => \/ HasResult(Shown)
         \/ \E c \in 1..MaxContexts : ctx[c].work \notin {"none", "ended"}

\* What is staged is a prefix of the file, and what is called a success is all of it, once.
StreamSafe == StreamTypeOK /\ StagedInOrder /\ SuccessMeansCompleted /\ OneUpload /\ WaitIsFed

=============================================================================
