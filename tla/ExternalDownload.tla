--------------------------- MODULE ExternalDownload ---------------------------
(* A task whose source is a link (TaskManager.external-download): it is       *)
(* resolved and checked before each of its redirects is followed, streamed to *)
(* a file with the suffix .part, renamed, and handed on with a fenced         *)
(* transition.  A claim may lapse while its execution still runs, so two      *)
(* executions of one process can use the same two names.                      *)
EXTENDS Naturals

CONSTANTS
  Execs,         \* executions 1..N, each with a claim of its own
  Chunks,        \* chunks of the file
  MaxRedirects

ASSUME ExternalAssumption == Execs \subseteq Nat \ {0} /\ Chunks \in Nat /\ MaxRedirects \in Nat

VARIABLES
  link,      \* status, lease, and whether the link is still in the source
  exec,      \* an execution: where it is, redirects so far, address it may dial
  partFile, localFile,   \* the file of which execution has the name, 0 for none
  length,    \* chunks in the file of each execution
  dialled,   \* history: kinds of addresses that were dialled
  dead,      \* history: executions that ended without an exception handler
  meddled      \* history: an execution without the claim removed or made a file

externalVars == <<link, exec, partFile, localFile, length, dialled, dead, meddled>>

Over == {"idle", "done", "failed", "stale", "dead"}

ExternalInit ==
  /\ link = [status |-> "queued", lease |-> 0, url |-> TRUE]
  /\ exec = [e \in Execs |-> [at |-> "idle", hops |-> 0, pinned |-> "none"]]
  /\ partFile = 0 /\ localFile = 0
  /\ length = [e \in Execs |-> 0]
  /\ dialled = {} /\ dead = {} /\ meddled = FALSE

Meddles(e) == meddled' = (meddled \/ link.lease # e)
Step(e, from, to) == exec[e].at = from /\ exec' = [exec EXCEPT ![e].at = to]

\* A queued task, or one whose claim has lapsed, whoever still works for it.
ClaimLink(e) ==
  /\ \A d \in Execs : d < e => exec[d].at # "idle"
  /\ link.status \in {"queued", "downloading"}
  /\ link' = [link EXCEPT !.status = "downloading", !.lease = e]
  /\ Step(e, "idle", IF link.url THEN "clear" ELSE "fail")
  /\ UNCHANGED <<partFile, localFile, length, dialled, dead, meddled>>

ClearPart(e) ==
  /\ Step(e, "clear", "look")
  /\ partFile' = 0 /\ Meddles(e)
  /\ UNCHANGED <<link, localFile, length, dialled, dead>>

-----------------------------------------------------------------------------
\* requestExternalUrl

Blocked(address) == address = "private"

\* assertUrlNetworkSafe: all that the name resolves to must be public.
LookUp(e) ==
  /\ exec[e].at = "look"
  /\ \E address \in {"public", "private"} :
       exec' = [exec EXCEPT ![e].pinned = address,
                            ![e].at = IF Blocked(address) THEN "fail" ELSE "dial"]
  /\ UNCHANGED <<link, partFile, localFile, length, dialled, dead, meddled>>

\* nodeRequestWithPinnedLookup
Dials(e) == {exec[e].pinned}

\* The answer is the file, or a redirect to be checked again, or useless.
Dial(e) ==
  /\ exec[e].at = "dial"
  /\ \E address \in Dials(e) : dialled' = dialled \union {address}
  /\ \/ exec' = [exec EXCEPT ![e].at = "create"]
     \/ exec' = [exec EXCEPT ![e].hops = @ + 1,
                             ![e].at = IF exec[e].hops < MaxRedirects THEN "look" ELSE "fail"]
     \/ exec' = [exec EXCEPT ![e].at = "fail"]
  /\ UNCHANGED <<link, partFile, localFile, length, dead, meddled>>

-----------------------------------------------------------------------------
\* The file

\* It must not be there (flag wx); the disk may be full before that.
CreatePart(e) ==
  /\ IF partFile = 0
     THEN /\ Step(e, "create", "stream") /\ partFile' = e
          /\ length' = [length EXCEPT ![e] = 0] /\ Meddles(e)
     ELSE Step(e, "create", "fail") /\ UNCHANGED <<partFile, length, meddled>>
  /\ UNCHANGED <<link, localFile, dialled, dead>>

Stream(e) ==
  /\ length[e] < Chunks
  /\ Step(e, "stream", IF length[e] + 1 = Chunks THEN "rename" ELSE "stream")
  /\ length' = [length EXCEPT ![e] = @ + 1]
  /\ UNCHANGED <<link, partFile, localFile, dialled, dead, meddled>>

\* The source ends too soon or is larger than the limit, or the heartbeat finds the
\* task cancelled.
StreamFails(e) ==
  /\ Step(e, "stream", "fail")
  /\ UNCHANGED <<link, partFile, localFile, length, dialled, dead, meddled>>

\* A name is renamed, whoever has made the file.
RenamePart(e) ==
  /\ IF partFile # 0
     THEN Step(e, "rename", "meta") /\ localFile' = partFile /\ partFile' = 0
     ELSE Step(e, "rename", "fail") /\ UNCHANGED <<partFile, localFile>>
  /\ UNCHANGED <<link, length, dialled, dead, meddled>>

\* updateFileMetadata and updateSourceRef, which are not fenced: the link is given up.
GiveUpLink(e) ==
  /\ Step(e, "meta", "finish")
  /\ link' = [link EXCEPT !.url = FALSE]
  /\ UNCHANGED <<partFile, localFile, length, dialled, dead, meddled>>

\* Mutant: the claim is not looked at.
FinishesUnfenced(e) == link.status = "downloading"

Finishes(e) == link.status = "downloading" /\ link.lease = e

\* assertClaimFenceCurrent and FINISH_DOWNLOAD; the upload is published after that.
HandOn(e) ==
  /\ Step(e, "finish", IF Finishes(e) THEN "done" ELSE "stale")
  /\ link' = IF Finishes(e) THEN [link EXCEPT !.status = "downloaded"] ELSE link
  /\ UNCHANGED <<partFile, localFile, length, dialled, dead, meddled>>

PartAfterFailure == 0

\* handleTaskFailure
AfterFailure(e) == IF Finishes(e) THEN "failed" ELSE link.status

\* The handler of exceptions: the file of that name goes, the link is given up, and the
\* task fails if it is still this execution's.
Fail(e) ==
  /\ Step(e, "fail", "failed")
  /\ partFile' = PartAfterFailure
  /\ link' = [status |-> AfterFailure(e), lease |-> link.lease, url |-> FALSE]
  /\ Meddles(e)
  /\ UNCHANGED <<localFile, length, dialled, dead>>

CancelLink ==
  /\ link.status \in {"queued", "downloading", "downloaded"}
  /\ link' = [link EXCEPT !.status = "cancelled", !.lease = 0]
  /\ UNCHANGED <<exec, partFile, localFile, length, dialled, dead, meddled>>

\* The process dies with all executions; the scan queues the task again.
ProcessDies ==
  /\ \E e \in Execs : exec[e].at \notin Over
  /\ dead' = dead \union {e \in Execs : exec[e].at \notin Over}
  /\ exec' = [e \in Execs |-> IF e \in dead' THEN [exec[e] EXCEPT !.at = "dead"] ELSE exec[e]]
  /\ link' = IF link.status = "downloading" THEN [link EXCEPT !.status = "queued"] ELSE link
  /\ UNCHANGED <<partFile, localFile, length, dialled, meddled>>

ExternalNext ==
  \/ \E e \in Execs :
       \/ ClaimLink(e) \/ ClearPart(e) \/ LookUp(e) \/ Dial(e) \/ CreatePart(e) \/ Stream(e)
       \/ StreamFails(e) \/ RenamePart(e) \/ GiveUpLink(e) \/ HandOn(e) \/ Fail(e)
  \/ CancelLink \/ ProcessDies

ExternalSpec == ExternalInit /\ [][ExternalNext]_externalVars

-----------------------------------------------------------------------------
\* Properties

Exec == [at : Over \union {"clear", "look", "dial", "create", "stream", "rename", "meta",
                           "finish", "fail"},
         hops : 0..(MaxRedirects + 1), pinned : {"none", "public", "private"}]

\* Every variable has its type.
ExternalTypeOK ==
  /\ link.status \in {"queued", "downloading", "downloaded", "failed", "cancelled"}
  /\ link.lease \in Execs \union {0} /\ link.url \in BOOLEAN
  /\ exec \in [Execs -> Exec]
  /\ partFile \in Execs \union {0} /\ localFile \in Execs \union {0}
  /\ length \in [Execs -> 0..Chunks]
  /\ dialled \subseteq {"public", "private"} /\ dead \subseteq Execs /\ meddled \in BOOLEAN

\* What is handed on to the upload is a whole file, also when an execution that lost its
\* claim renames what another one writes; except when it removed or made a file of the name.
HandedOnIsWhole ==
  ~meddled /\ link.status = "downloaded" => localFile # 0 /\ length[localFile] = Chunks

\* Only an address that was found public is dialled, at every redirect.
DialledIsChecked == dialled \subseteq {"public"}

\* When no execution is at work, and none has died, no part of a file is left over.
NoPartLeft ==
  dead = {} /\ (\A e \in Execs : exec[e].at \in Over) => partFile = 0

\* A file is whole and from a checked address, and leaves nothing behind.
LinkSafe == ExternalTypeOK /\ HandedOnIsWhole /\ DialledIsChecked /\ NoPartLeft

=============================================================================
