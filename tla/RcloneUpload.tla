----------------------------- MODULE RcloneUpload -----------------------------
(* Uploads of one user's batches by rclone (CloudTool.uploadBatch) to a drive *)
(* that takes an obscured password.  Rows of older versions do not say, or    *)
(* say wrongly, whether the password they hold is obscured: the first use     *)
(* tries the candidates on the remote and stores the one that opens it.  An   *)
(* upload has three attempts, each with its configuration, its directory and  *)
(* its process; a user may cancel at any time.  rclone and the remote are     *)
(* external: what a process stores, logs and returns is open, but a process   *)
(* that returns zero and has logged no error has stored the batch.            *)
EXTENDS Naturals, Sequences

CONSTANTS
  Batches,      \* uploads that share the drive
  MaxAttempts,  \* attempts of an upload (three)
  MaxMishaps    \* bound on faults that pass, lost writes and failing commands

ASSUME UploadAssumption == MaxAttempts \in Nat \ {0} /\ MaxMishaps \in Nat

VARIABLES
  cred,      \* the row: what it says of its password, and what the password is
  right,     \* external: the password is that of the account
  up,        \* an upload: where it is, its attempt, the password it has
             \* read, the candidates left, whether one was refused
  result,    \* what uploadBatch has returned
  cancelled, \* isCancelled of the batch's tasks
  told,      \* its process has been told to stop
  logged,    \* its process has logged an error
  whole,     \* external: every file of the batch is on the remote
  accepted,  \* history: the remote has been opened with the password
  misled,    \* history: a candidate could not be tried
  mishaps

uploadVars == <<cred, right, up, result, cancelled, told, logged, whole, accepted, misled, mishaps>>

Formats == {"plain", "rclone_obscured", "legacy_unknown"}
Classes == {"transient", "auth", "other"}
Candidates == {"stored", "obscured"}

\* _getRcloneCredentialCandidateFactories
CandidatesAsLabelled(format) ==
  IF format = "plain" THEN <<"obscured">> ELSE <<"stored">>

CandidatesOf(format) ==
  IF format = "plain" THEN <<"obscured">> ELSE <<"stored", "obscured">>

UploadInit ==
  /\ cred \in [format : Formats, text : {"plain", "obscured"}]
  /\ cred.format = "plain" => cred.text = "plain"
  /\ right \in BOOLEAN
  /\ up = [b \in Batches |-> [at |-> "idle", attempt |-> 0, left |-> << >>,
                           text |-> "plain", refused |-> FALSE]]
  /\ result = [b \in Batches |-> "none"]
  /\ cancelled = [b \in Batches |-> FALSE] /\ told = cancelled /\ logged = cancelled
  /\ whole = [b \in Batches |-> FALSE]
  /\ accepted = FALSE /\ misled = FALSE /\ mishaps = 0

UploadAt(b, at) == up[b].at = at
UploadTo(b, at) == up' = [up EXCEPT ![b].at = at]

Mishap == mishaps < MaxMishaps /\ mishaps' = mishaps + 1

Returns(b, what) ==
  /\ up' = [up EXCEPT ![b] = [@ EXCEPT !.at = "done", !.left = << >>, !.refused = FALSE]]
  /\ result' = [result EXCEPT ![b] = what]

\* A failed attempt: the next one after a delay, if the failure is one that passes.
AttemptFails(b, class) ==
  IF class = "transient" /\ up[b].attempt < MaxAttempts
    THEN up' = [up EXCEPT ![b] = [@ EXCEPT !.at = "delay", !.left = << >>, !.refused = FALSE]]
         /\ UNCHANGED result
    ELSE Returns(b, class)

\* Does rclone, given this candidate, send the password that the account has?
Opens(b, candidate) == right /\ (candidate = "stored") = (up[b].text = "obscured")

-----------------------------------------------------------------------------
\* The attempt and its configuration

\* The first attempt, or the next after its delay: looks whether it is cancelled.
Begins(b) ==
  /\ up[b].at \in {"idle", "delay"}
  /\ IF cancelled[b]
       THEN Returns(b, "CANCELLED")
       ELSE up' = [up EXCEPT ![b].at = "config", ![b].attempt = @ + 1] /\ UNCHANGED result
  /\ UNCHANGED <<cred, right, cancelled, told, logged, whole, accepted, misled, mishaps>>

\* _getUserConfig: a verified password is taken as it is.
ReadsRow(b) ==
  /\ UploadAt(b, "config")
  /\ IF cred.format = "verified" THEN UploadTo(b, "mkdir")
     ELSE up' = [up EXCEPT ![b] = [@ EXCEPT !.at = "probe", !.left = CandidatesOf(cred.format),
                                           !.text = cred.text, !.refused = FALSE]]
  /\ UNCHANGED <<cred, right, result, cancelled, told, logged, whole, accepted, misled, mishaps>>

\* The remote is opened with the first candidate left: now it may be stored.
ProbeOpens(b) ==
  /\ UploadAt(b, "probe") /\ up[b].left # << >> /\ Opens(b, Head(up[b].left))
  /\ up' = [up EXCEPT ![b] = [@ EXCEPT !.at = "persist", !.left = << >>, !.refused = FALSE]]
  /\ accepted' = TRUE
  /\ UNCHANGED <<cred, right, result, cancelled, told, logged, whole, misled, mishaps>>

\* It is refused: the next one.
ProbeRefused(b) ==
  /\ UploadAt(b, "probe") /\ up[b].left # << >> /\ ~Opens(b, Head(up[b].left))
  /\ up' = [up EXCEPT ![b].left = Tail(@), ![b].refused = TRUE]
  /\ UNCHANGED <<cred, right, result, cancelled, told, logged, whole, accepted, misled, mishaps>>

\* It cannot be made, since rclone obscure fails: the next one.
ObscureFails(b) ==
  /\ UploadAt(b, "probe") /\ up[b].left # << >> /\ Head(up[b].left) = "obscured"
  /\ Mishap
  /\ up' = [up EXCEPT ![b].left = Tail(@)]
  /\ misled' = TRUE
  /\ UNCHANGED <<cred, right, result, cancelled, told, logged, whole, accepted>>

\* A failure that says nothing of the password ends the attempt.
OnFaultOpens(b, class) == UploadTo(b, "persist") /\ UNCHANGED result

OnFault(b, class) == AttemptFails(b, class)

ProbeFails(b) ==
  /\ UploadAt(b, "probe") /\ up[b].left # << >>
  /\ Mishap
  /\ \E class \in {"transient", "other"} : OnFault(b, class)
  /\ UNCHANGED <<cred, right, cancelled, told, logged, whole, accepted, misled>>

\* No candidate is left: a refusal counts before a candidate that could not be made.
AllRefused(b) ==
  /\ UploadAt(b, "probe") /\ up[b].left = << >>
  /\ IF up[b].refused THEN Returns(b, "auth")
     ELSE \E class \in {"transient", "other"} : AttemptFails(b, class)
  /\ UNCHANGED <<cred, right, cancelled, told, logged, whole, accepted, misled, mishaps>>

\* _persistVerifiedRclonePasswordConfig: a write that fails is only logged.
Verified == cred' = [format |-> "verified", text |-> "obscured"]

Persists(b) ==
  /\ UploadAt(b, "persist")
  /\ \/ Verified /\ UNCHANGED mishaps
     \/ Mishap /\ UNCHANGED cred
  /\ UploadTo(b, "mkdir")
  /\ UNCHANGED <<right, result, cancelled, told, logged, whole, accepted, misled>>

\* _ensureUploadDirectory; a directory that is not found is looked at once more from
\* the root, which may fail in its own way.
MakesDirectory(b) ==
  /\ UploadAt(b, "mkdir") /\ right
  /\ UploadTo(b, "spawn")
  /\ UNCHANGED <<cred, right, result, cancelled, told, logged, whole, accepted, misled, mishaps>>

DirectoryFails(b) ==
  /\ UploadAt(b, "mkdir")
  /\ IF right THEN Mishap /\ \E class \in {"transient", "other"} : AttemptFails(b, class)
     ELSE AttemptFails(b, "auth") /\ UNCHANGED mishaps
  /\ UNCHANGED <<cred, right, cancelled, told, logged, whole, accepted, misled>>

-----------------------------------------------------------------------------
\* The process

\* A cancellation that came while the configuration was read or the directory made is
\* seen when the handlers are attached.
ToldAtOutput(b) == FALSE

ToldAtOnce(b) == cancelled[b]

Spawns(b) ==
  /\ UploadAt(b, "spawn")
  /\ UploadTo(b, "run")
  /\ told' = [told EXCEPT ![b] = ToldAtOnce(b)]
  /\ logged' = [logged EXCEPT ![b] = FALSE]
  /\ UNCHANGED <<cred, right, result, cancelled, whole, accepted, misled, mishaps>>

\* A line of its log that speaks of an error.
LogsError(b) ==
  /\ UploadAt(b, "run") /\ ~logged[b] /\ ~told[b]
  /\ Mishap
  /\ logged' = [logged EXCEPT ![b] = TRUE]
  /\ UNCHANGED <<cred, right, up, result, cancelled, told, whole, accepted, misled>>

\* What the process leaves: all of the batch, unless it was stopped or met an error.
Leaves(b, all) ==
  /\ all \/ told[b] \/ logged[b] \/ whole[b]
  /\ whole' = [whole EXCEPT ![b] = @ \/ all]

\* 'close' with a zero code: a cancellation comes first, then errors in the log, which
\* may be ones that pass.
IgnoresLog(b) == FALSE

HasErrors(b) == logged[b]

Closes(b) ==
  /\ UploadAt(b, "run")
  /\ \E all \in BOOLEAN : Leaves(b, all)
  /\ IF cancelled[b] THEN Returns(b, "CANCELLED")
     ELSE IF HasErrors(b) THEN \E class \in {"transient", "other"} : AttemptFails(b, class)
     ELSE Returns(b, "success")
  /\ UNCHANGED <<cred, right, cancelled, told, logged, accepted, misled, mishaps>>

\* 'close' with another code
Breaks(b) ==
  /\ UploadAt(b, "run")
  /\ IF cancelled[b] THEN Returns(b, "CANCELLED") /\ UNCHANGED mishaps
     ELSE IF right THEN Mishap /\ \E class \in {"transient", "other"} : AttemptFails(b, class)
     ELSE AttemptFails(b, "auth") /\ UNCHANGED mishaps
  /\ UNCHANGED <<cred, right, cancelled, told, logged, whole, accepted, misled>>

\* 'error': the process was not started, or not stopped.  Nobody looks for a cancellation.
Errs(b) ==
  /\ UploadAt(b, "run")
  /\ Mishap
  /\ \E class \in {"transient", "other"} : AttemptFails(b, class)
  /\ UNCHANGED <<cred, right, cancelled, told, logged, whole, accepted, misled>>

-----------------------------------------------------------------------------

\* TaskManager.cancelTask: marks the task, and stops the process that it has.
Cancels(b) ==
  /\ ~cancelled[b] /\ result[b] = "none"
  /\ cancelled' = [cancelled EXCEPT ![b] = TRUE]
  /\ told' = [told EXCEPT ![b] = UploadAt(b, "run")]
  /\ UNCHANGED <<cred, right, up, result, logged, whole, accepted, misled, mishaps>>

\* External: the account gets another password.
PasswordChanges ==
  /\ right
  /\ right' = FALSE
  /\ UNCHANGED <<cred, up, result, cancelled, told, logged, whole, accepted, misled, mishaps>>

UploadNext ==
  \/ PasswordChanges
  \/ \E b \in Batches :
       \/ Begins(b) \/ ReadsRow(b) \/ ProbeOpens(b) \/ ProbeRefused(b) \/ ObscureFails(b)
       \/ ProbeFails(b) \/ AllRefused(b) \/ Persists(b) \/ MakesDirectory(b) \/ DirectoryFails(b)
       \/ Spawns(b) \/ LogsError(b) \/ Closes(b) \/ Breaks(b) \/ Errs(b) \/ Cancels(b)

UploadSpec == UploadInit /\ [][UploadNext]_uploadVars

-----------------------------------------------------------------------------

UploadPlaces == {"idle", "delay", "config", "probe", "persist", "mkdir", "spawn", "run", "done"}

\* Every variable has its type.
UploadTypeOK ==
  /\ cred \in [format : Formats \union {"verified"}, text : {"plain", "obscured"}]
  /\ right \in BOOLEAN /\ accepted \in BOOLEAN /\ misled \in BOOLEAN
  /\ \A b \in Batches :
       /\ up[b].at \in UploadPlaces /\ up[b].attempt \in 0 .. MaxAttempts
       /\ up[b].refused \in BOOLEAN
       /\ up[b].text \in {"plain", "obscured"}
       /\ Len(up[b].left) <= 2 /\ \A k \in 1 .. Len(up[b].left) : up[b].left[k] \in Candidates
  /\ result \in [Batches -> Classes \union {"none", "success", "CANCELLED"}]
  /\ cancelled \in [Batches -> BOOLEAN] /\ told \in [Batches -> BOOLEAN]
  /\ logged \in [Batches -> BOOLEAN] /\ whole \in [Batches -> BOOLEAN]
  /\ mishaps \in 0 .. MaxMishaps

\* An upload that succeeded has every file of its batch on the remote, whatever its
\* attempts before left there, and whatever rclone returned
\* (CloudTool._attachUploadProcessHandlers).
SuccessIsWhole == \A b \in Batches : result[b] = "success" => whole[b]

\* A user whose password is the account's is not told that it is wrong, whichever form
\* the row has and whatever it says of it, unless rclone could not obscure it; a
\* failure that passes is never taken for a refusal
\* (CloudTool._resolveVerifiedRclonePasswordConfig).
RightPasswordIsFound == right /\ ~misled => \A b \in Batches : result[b] # "auth"

\* A row says "verified" only after the remote was opened with its password, also when
\* two uploads try the candidates side by side
\* (CloudTool._persistVerifiedRclonePasswordConfig).
VerifiedWasAccepted == cred.format = "verified" => accepted

\* A process that runs for a cancelled batch has been told to stop, also when the
\* cancellation came before there was a process to stop
\* (CloudTool._spawnUploadBatchOnce, _attachUploadProcessHandlers).
CancelledIsTold == \A b \in Batches : UploadAt(b, "run") /\ cancelled[b] => told[b]

\* What is said of an upload and of the password that it used is so.
UploadSafe ==
  UploadTypeOK /\ SuccessIsWhole /\ RightPasswordIsFound /\ VerifiedWasAccepted /\ CancelledIsTold

=============================================================================
