----------------------------- MODULE DriveSession -----------------------------
(* The login of one user's Proton drive (ProtonDriveProvider) and the rclone *)
(* processes that use it (CloudTool).  A binding logs in with a password, and *)
(* a one-time code or a lasting secret where the account asks for one, and    *)
(* keeps the session that rclone was given.  A transfer reads the row, logs   *)
(* in when there is no session, writes a configuration of its own for rclone, *)
(* and when rclone ends takes the renewed session from there and writes it    *)
(* back with the rest of what it had read.  The server is external: a renewal *)
(* gives a new session and ends the old one.  The steps of the dialogue       *)
(* before its last answer are in Dialog; a user has one drive of the type,    *)
(* and another, of another type, may be the default one.                      *)
EXTENDS Naturals, FiniteSets

CONSTANTS
  Transfers,   \* transfers
  MaxBinds,    \* bound on dialogues
  MaxLogins,   \* bound on the sessions the server gives
  MaxLosses    \* bound on crashes and on lost writes

ASSUME SessionAssumption == MaxBinds \in Nat /\ MaxLogins \in Nat /\ MaxLosses \in Nat

VARIABLES
  form,      \* what the dialogue has gathered
  drive,     \* the drive's row: its status and its configuration
  default,   \* whether it is the user's default drive
  live,      \* external: the sessions that the server still takes
  issued,    \* external: the last session given
  job,       \* a transfer: where it is, whether it is an upload by connection string,
             \* its configuration, the session in rclone's file
  binds, failed,
  renewalLost  \* history: a renewal may have been lost

sessionVars == <<form, drive, default, live, issued, job, binds, failed, renewalLost>>

LoginKinds == {"password", "code", "secret"}
NoSession == 0
Blank == [kind |-> "password", code |-> FALSE, plain |-> TRUE, session |-> NoSession]
NoForm == [at |-> "none", conf |-> Blank]
NoRow == [active |-> FALSE, conf |-> Blank]
NoTransfer == [at |-> "rest", batch |-> FALSE, conf |-> Blank, file |-> NoSession]

HasSession(c) == c.session # NoSession

SessionInit ==
  /\ form = NoForm /\ drive = NoRow
  /\ default = TRUE
  /\ live = {} /\ issued = NoSession
  /\ job = [j \in Transfers |-> NoTransfer]
  /\ binds = 0 /\ failed = 0 /\ renewalLost = FALSE

UnderWay(j) == job[j].at # "rest"
JobTo(j, at) == job' = [job EXCEPT ![j].at = at]

\* prepareConfigForStorage: the secrets are obscured and the code is dropped.
StorageKeepsCode(c) == [c EXCEPT !.plain = FALSE]

Storage(c) == [c EXCEPT !.plain = FALSE, !.code = FALSE]

\* prepareConfigForRuntime: a code is for the request of the binding only.
Runtime(c) == [c EXCEPT !.code = c.code /\ c.plain /\ ~HasSession(c)]

\* The configuration that is written for rclone, and what is read there afterwards.
Given(c) == c.session
Harvest(j) == job[j].file

\* The server lets rclone in, and gives it a session.
Login == /\ issued < MaxLogins
         /\ issued' = issued + 1
         /\ live' = live \union {issued'}

\* updateConfigData: only the row of an active drive.
UpdatesAnyRow(c) == drive' = [active |-> TRUE, conf |-> c]

Updates(c) == drive' = IF drive.active THEN [drive EXCEPT !.conf = c] ELSE drive

-----------------------------------------------------------------------------
\* Binding

\* The answers up to the last: a code is asked for when the account has a second
\* factor, and a secret may be given besides.
Answers(kind) ==
  /\ form.at = "none" /\ binds < MaxBinds
  /\ binds' = binds + 1
  /\ form' = [at |-> "last", conf |-> [Blank EXCEPT !.kind = kind, !.code = kind # "password"]]
  /\ UNCHANGED <<drive, default, live, issued, job, failed, renewalLost>>

\* validateConfig: without a session that lasts, an account with a second factor is
\* not bound.
AcceptsLoginOnly(c) == TRUE

Accepts(c) == c.kind # "password" => HasSession(c)

\* The last answer: rclone logs in and writes its session to its configuration.
Validates ==
  /\ form.at = "last"
  /\ Login
  /\ form' = [at |-> "create", conf |-> [form.conf EXCEPT !.session = issued']]
  /\ UNCHANGED <<drive, default, job, binds, failed, renewalLost>>

\* rclone is let in and its configuration names no session: the final step has
\* failed, which ends the dialogue, or the drive is bound without.
ValidatesWithoutSession ==
  /\ form.at = "last"
  /\ form' = IF Accepts(form.conf) THEN [form EXCEPT !.at = "create"] ELSE NoForm
  /\ UNCHANGED <<drive, default, live, issued, job, binds, failed, renewalLost>>

LoginRefused ==
  /\ form.at = "last"
  /\ form' = NoForm
  /\ UNCHANGED <<drive, default, live, issued, job, binds, failed, renewalLost>>

\* DriveRepository.create: there is an active drive already, and the error leaves the
\* dialogue at its last answer; or the row is written.
Creates ==
  /\ form.at = "create"
  /\ IF drive.active
       THEN form' = [at |-> "last", conf |-> [form.conf EXCEPT !.session = NoSession]]
            /\ UNCHANGED <<drive, renewalLost>>
       ELSE form' = NoForm /\ drive' = [active |-> TRUE, conf |-> Storage(form.conf)]
            /\ renewalLost' = \E j \in Transfers : UnderWay(j)
  /\ UNCHANGED <<default, live, issued, job, binds, failed>>

Unbinds ==
  /\ drive.active
  /\ drive' = [drive EXCEPT !.active = FALSE]
  /\ UNCHANGED <<form, default, live, issued, job, binds, failed, renewalLost>>

\* setDefaultDrive, to this drive or to another.
SetsDefault ==
  /\ drive.active
  /\ default' = ~default
  /\ UNCHANGED <<form, drive, live, issued, job, binds, failed, renewalLost>>

-----------------------------------------------------------------------------
\* A transfer

\* _getUserConfig: the row of the default drive.
Starts(j, batch) ==
  /\ ~UnderWay(j) /\ drive.active /\ default
  /\ LET c == Runtime(drive.conf) IN
       job' = [job EXCEPT ![j] = [at |-> IF HasSession(c) THEN "run" ELSE "login",
                                  batch |-> batch, conf |-> c, file |-> Given(c)]]
  /\ UNCHANGED <<form, drive, default, live, issued, binds, failed, renewalLost>>

\* ensureRuntimeSession: a secret, or a password that is enough.
CanLogIn(c) == c.kind \in {"password", "secret"} \/ c.code

LogsIn(j) ==
  /\ job[j].at = "login" /\ CanLogIn(job[j].conf)
  /\ Login
  /\ job' = [job EXCEPT ![j].at = "keep", ![j].conf.session = issued', ![j].file = issued']
  /\ UNCHANGED <<form, drive, default, binds, failed, renewalLost>>

\* The login is refused or there is none to make: rclone is started all the same.
GoesWithout(j) ==
  /\ job[j].at = "login"
  /\ JobTo(j, "run")
  /\ UNCHANGED <<form, drive, default, live, issued, binds, failed, renewalLost>>

\* The session of that login is stored with the drive that was read.
Keeps(j) ==
  /\ job[j].at = "keep"
  /\ JobTo(j, "run")
  /\ Updates(Storage(job[j].conf))
  /\ UNCHANGED <<form, default, live, issued, binds, failed, renewalLost>>

\* An upload by connection string has no file that rclone could write to; and two
\* processes that share a session end it for each other.
LosesRenewal(j) == job[j].batch \/ \E k \in Transfers \ {j} : UnderWay(k)

\* rclone renews its session, or logs in again when it is no longer taken.
Renews(j) ==
  /\ job[j].at = "run"
  /\ job[j].file \in live \/ CanLogIn(job[j].conf)
  /\ issued < MaxLogins
  /\ issued' = issued + 1
  /\ live' = (live \ {job[j].file}) \union {issued'}
  /\ job' = [job EXCEPT ![j].file = issued']
  /\ renewalLost' = (renewalLost \/ LosesRenewal(j))
  /\ UNCHANGED <<form, drive, default, binds, failed>>

\* rclone ends, or is killed by its time-out.  finalize reads the session in the file.
HarvestsFirstOnly(j) == HasSession(job[j].conf)

HarvestsNothingNew(j) ==
  job[j].batch \/ Harvest(j) = NoSession \/ Harvest(j) = job[j].conf.session

Ends(j) ==
  /\ job[j].at = "run"
  /\ IF HarvestsNothingNew(j) THEN job' = [job EXCEPT ![j] = NoTransfer]
                              ELSE JobTo(j, "merge")
  /\ UNCHANGED <<form, drive, default, live, issued, binds, failed, renewalLost>>

\* mergeRuntimeSessionFromRemoteConfig looks for the user's default drive, which by
\* now may be another one.
Looks(j) ==
  /\ job[j].at = "merge"
  /\ IF drive.active /\ default THEN JobTo(j, "write") /\ UNCHANGED renewalLost
     ELSE job' = [job EXCEPT ![j] = NoTransfer] /\ renewalLost' = TRUE
  /\ UNCHANGED <<form, drive, default, live, issued, binds, failed>>

\* Written is the configuration that the transfer began with, and the new session.
WrittenBack(j) == Storage([job[j].conf EXCEPT !.session = Harvest(j)])

WritesBack(j) ==
  /\ job[j].at = "write"
  /\ Updates(WrittenBack(j))
  /\ job' = [job EXCEPT ![j] = NoTransfer]
  /\ UNCHANGED <<form, default, live, issued, binds, failed, renewalLost>>

\* D1 refuses the write, which is only logged; or the process dies.
Fails(j) ==
  /\ job[j].at \in {"keep", "write"} /\ failed < MaxLosses
  /\ failed' = failed + 1 /\ renewalLost' = TRUE
  /\ job' = [job EXCEPT ![j] = IF @.at = "keep" THEN [@ EXCEPT !.at = "run"] ELSE NoTransfer]
  /\ UNCHANGED <<form, drive, default, live, issued, binds>>

Dies ==
  /\ \E j \in Transfers : UnderWay(j)
  /\ failed < MaxLosses
  /\ failed' = failed + 1
  /\ renewalLost' = TRUE
  /\ job' = [j \in Transfers |-> NoTransfer]
  /\ UNCHANGED <<form, drive, default, live, issued, binds>>

SessionNext ==
  \/ \E kind \in LoginKinds : Answers(kind)
  \/ Validates \/ ValidatesWithoutSession \/ LoginRefused \/ Creates \/ Unbinds \/ SetsDefault \/ Dies
  \/ \E j \in Transfers : \/ \E batch \in BOOLEAN : Starts(j, batch)
                          \/ LogsIn(j) \/ GoesWithout(j) \/ Keeps(j) \/ Renews(j)
                          \/ Ends(j) \/ Looks(j) \/ WritesBack(j) \/ Fails(j)

SessionSpec == SessionInit /\ [][SessionNext]_sessionVars

-----------------------------------------------------------------------------

Sessions == 0 .. MaxLogins
Confs == [kind : LoginKinds, code : BOOLEAN, plain : BOOLEAN, session : Sessions]

\* Every variable has its type.
SessionTypeOK ==
  /\ form \in [at : {"none", "last", "create"}, conf : Confs]
  /\ drive \in [active : BOOLEAN, conf : Confs]
  /\ default \in BOOLEAN /\ renewalLost \in BOOLEAN
  /\ live \subseteq Sessions \ {NoSession} /\ issued \in Sessions
  /\ job \in [Transfers -> [at : {"rest", "login", "keep", "run", "merge", "write"},
                       batch : BOOLEAN, conf : Confs, file : Sessions]]
  /\ binds \in 0 .. MaxBinds /\ failed \in 0 .. MaxLosses

\* A one-time code reaches neither the row nor a transfer, whichever way the row was
\* written: by a binding, by a login at run time or by a write-back
\* (ProtonDriveProvider.prepareConfigForStorage, prepareConfigForRuntime).
NoCodeKept == ~drive.conf.code /\ \A j \in Transfers : ~job[j].conf.code

\* A drive that only a one-time code could log in again always has a session, so that
\* a transfer has something to begin with: no binding, login or write-back leaves it
\* without (validateConfig, mergeRuntimeSessionFromRemoteConfig).
LastingLogin == drive.active /\ drive.conf.kind = "code" => HasSession(drive.conf)

\* Between transfers the stored session of such a drive is one that the server takes,
\* unless rclone renewed it where nobody could see, side by side with another
\* transfer, after a binding under a transfer's feet, while another drive was the
\* default one, or a write or a process was lost (_openUserRemoteRuntime, finalize).
RenewalIsKept ==
  drive.active /\ drive.conf.kind = "code" /\ (\A j \in Transfers : ~UnderWay(j)) /\ ~renewalLost
    => drive.conf.session \in live

\* A transfer that ends after its drive was unbound does not bring it back
\* (DriveRepository.updateConfigData): only a binding does.
UnboundStays == [][~drive.active /\ drive'.active => form.at = "create"]_sessionVars

\* A drive's login lasts: no spent code, the newest session, and none after its removal.
SessionHolds == [](SessionTypeOK /\ NoCodeKept /\ LastingLogin /\ RenewalIsKept) /\ UnboundStays

=============================================================================
