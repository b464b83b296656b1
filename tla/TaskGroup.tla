------------------------------- MODULE TaskGroup -------------------------------
(* The tasks of one media group: TaskManager adds them in one go, publishes  *)
(* one after the other, and the user may cancel them with one button from    *)
(* the moment the status message stands there, before their rows do.  The    *)
(* rows of a group are read through a copy of two minutes.  A scan puts rows *)
(* back that failed or stood still.  What a worker does is TaskProcessing;   *)
(* here it begins and ends.                                                  *)
EXTENDS Naturals, FiniteSets

CONSTANTS
  Tasks,      \* 1..N, in the order they are added
  Presses,    \* presses of the button to cancel
  MaxScans,   \* bound on scans
  MaxErrors   \* bound on statements, publishes and answers that fail

ASSUME GroupAssumption ==
  /\ Tasks # {} /\ IsFiniteSet(Tasks) /\ Tasks = 1..Cardinality(Tasks)
  /\ MaxScans \in Nat /\ MaxErrors \in Nat

VARIABLES
  row,        \* status of a task, "none" before its row is there
  sent,       \* tasks with a message in the queue
  listing,    \* tasks:msg:<id>:group in the cache: what it lists, or none
  adder,      \* addBatchTasks: where it is, and the next task to publish
  press,      \* a press: where it is, what it listed, cancelled and could not
  scan,       \* rows the scan has read, and those it has reset
  scans, faults,
  unanswered, \* history: the answer to createBatch was lost after it was executed
  unmarked    \* history: tasks that could not be marked failed, or were put back by a scan

groupVars == <<row, sent, listing, adder, press, scan, scans, faults, unanswered, unmarked>>

Ended == {"cancelled", "completed", "failed"}
NoListing == {0}
Idle == [at |-> "idle", list |-> {}, done |-> {}, left |-> {}]

GroupInit ==
  /\ row = [t \in Tasks |-> "none"] /\ sent = {}
  /\ listing = NoListing
  /\ adder = [at |-> "create", next |-> 1]
  /\ press = [p \in Presses |-> Idle]
  /\ scan = [read |-> {}, reset |-> {}]
  /\ scans = 0 /\ faults = 0 /\ unanswered = FALSE /\ unmarked = {}

GroupFault == faults < MaxErrors /\ faults' = faults + 1
Existing == {t \in Tasks : row[t] # "none"}

-----------------------------------------------------------------------------
\* addBatchTasks

\* createBatch: all rows or none, in one request of D1, which is sent again when its
\* answer is lost and then refused for the ids that are there.
CreateBatch ==
  /\ adder.at = "create"
  /\ \/ /\ row' = [t \in Tasks |-> "queued"]
        /\ adder' = [adder EXCEPT !.at = "publish"]
        /\ UNCHANGED <<faults, unanswered>>
     \/ /\ GroupFault /\ adder' = [adder EXCEPT !.at = "failed"]
        /\ UNCHANGED <<row, unanswered>>
     \/ /\ GroupFault /\ adder' = [adder EXCEPT !.at = "failed"]
        /\ row' = [t \in Tasks |-> "queued"] /\ unanswered' = TRUE
  /\ UNCHANGED <<sent, listing, press, scan, scans, unmarked>>

AfterPublish == IF adder.next = Cardinality(Tasks) THEN [adder EXCEPT !.at = "done"]
                ELSE [adder EXCEPT !.next = @ + 1]

\* One _enqueueTask after the other; the first that fails ends it.
Publish ==
  /\ adder.at = "publish"
  /\ \/ /\ sent' = sent \union {adder.next}
        /\ adder' = AfterPublish
        /\ UNCHANGED faults
     \/ GroupFault /\ adder' = [adder EXCEPT !.at = "mark"] /\ UNCHANGED sent
  /\ UNCHANGED <<row, listing, press, scan, scans, unanswered, unmarked>>

\* Mutant: only the tasks are marked that were not published.
ToMarkRest == {t \in Tasks : t >= adder.next}

\* All tasks are marked failed, also those that a worker has; one that ended stays.
ToMark == Tasks

MarkFailed ==
  /\ adder.at = "mark"
  /\ \E refused \in SUBSET ToMark :
       /\ IF refused = {} THEN UNCHANGED faults
          ELSE Cardinality(refused) = 1 /\ GroupFault
       /\ row' = [t \in Tasks |-> IF t \in ToMark \ refused /\ row[t] \notin Ended
                                  THEN "failed" ELSE row[t]]
       /\ unmarked' = unmarked \union refused
  /\ adder' = [adder EXCEPT !.at = "failed"]
  /\ UNCHANGED <<sent, listing, press, scan, scans, unanswered>>

-----------------------------------------------------------------------------
\* cancelTasksByMsgId, for a user who may

\* findByMsgId: the copy, or the rows, which are copied, also when there are none: a press that
\* comes before the rows makes the button useless for as long as the copy lasts.  The
\* boards of the group (_refreshGroupMonitor) and the webhooks read the same way.
ListGroup ==
  IF listing # NoListing THEN UNCHANGED <<listing>>
  ELSE listing' = Existing
Listed == IF listing # NoListing THEN listing ELSE Existing

Press(p) ==
  /\ press[p].at = "idle"
  /\ ListGroup
  /\ press' = [press EXCEPT ![p] = [Idle EXCEPT !.list = Listed,
                                     !.at = IF Listed = {} THEN "no" ELSE "cancel"]]
  /\ UNCHANGED <<row, sent, adder, scan, scans, faults, unanswered, unmarked>>

Monitor ==
  /\ listing = NoListing /\ ListGroup
  /\ UNCHANGED <<row, sent, adder, press, scan, scans, faults, unanswered, unmarked>>

\* The transitions of all tasks side by side; a task that completed or failed blocks its
\* own.
CancelOne(p, t) ==
  /\ press[p].at = "cancel" /\ t \in press[p].list \ (press[p].done \union press[p].left)
  /\ \/ /\ row[t] \notin {"completed", "failed"}
        /\ row' = [row EXCEPT ![t] = "cancelled"]
        /\ press' = [press EXCEPT ![p].done = @ \union {t}]
        /\ UNCHANGED faults
     \/ /\ row[t] \in {"completed", "failed"}
        /\ press' = [press EXCEPT ![p].left = @ \union {t}]
        /\ UNCHANGED <<row, faults>>
     \/ /\ GroupFault /\ press' = [press EXCEPT ![p].left = @ \union {t}]
        /\ UNCHANGED row
  /\ UNCHANGED <<sent, listing, adder, scan, scans, unanswered, unmarked>>

\* The answer is yes when one of them was cancelled.
Yes(p) == press[p].done # {}

Answer(p) ==
  /\ press[p].at = "cancel" /\ press[p].done \union press[p].left = press[p].list
  /\ press' = [press EXCEPT ![p].at = IF Yes(p) THEN "yes" ELSE "no"]
  /\ UNCHANGED <<row, sent, listing, adder, scan, scans, faults, unanswered, unmarked>>

CopyEnds ==
  /\ listing # NoListing
  /\ listing' = NoListing
  /\ UNCHANGED <<row, sent, adder, press, scan, scans, faults, unanswered, unmarked>>

-----------------------------------------------------------------------------
\* Workers and the scan

Start(t) ==
  /\ t \in sent /\ row[t] = "queued"
  /\ row' = [row EXCEPT ![t] = "running"]
  /\ UNCHANGED <<sent, listing, adder, press, scan, scans, faults, unanswered, unmarked>>

\* The worker's writes are fenced: a task that was marked, cancelled or put back is no
\* longer its own.
Complete(t) ==
  /\ row[t] = "running"
  /\ row' = [row EXCEPT ![t] = "completed"]
  /\ UNCHANGED <<sent, listing, adder, press, scan, scans, faults, unanswered, unmarked>>

\* findStalledTasks: active rows and those that failed when they were published.
Scan ==
  /\ scans < MaxScans /\ scan.read = {} /\ scan.reset = {}
  /\ scans' = scans + 1
  /\ scan' = [read |-> {t \in Tasks : row[t] \in {"queued", "running", "failed"}}, reset |-> {}]
  /\ UNCHANGED <<row, sent, listing, adder, press, faults, unanswered, unmarked>>

\* _restoreBatchTasks: row by row; one that was cancelled or completed meanwhile blocks.
\* A transition that throws ends the scan, and what was reset waits for the next one.
Restore(t) ==
  /\ t \in scan.read
  /\ \/ /\ row[t] \in {"queued", "running", "failed"}
        /\ row' = [row EXCEPT ![t] = "queued"]
        /\ scan' = [read |-> scan.read \ {t}, reset |-> scan.reset \union {t}]
        /\ unmarked' = unmarked \union {t}
        /\ UNCHANGED faults
     \/ /\ row[t] \in {"cancelled", "completed"}
        /\ scan' = [scan EXCEPT !.read = @ \ {t}]
        /\ UNCHANGED <<row, faults, unmarked>>
     \/ /\ GroupFault /\ scan' = [read |-> {}, reset |-> {}]
        /\ UNCHANGED <<row, unmarked>>
  /\ UNCHANGED <<sent, listing, adder, press, scans, unanswered>>

\* Then all are published; a task whose publish fails for good is marked failed.
Resend(t) ==
  /\ scan.read = {} /\ t \in scan.reset
  /\ scan' = [scan EXCEPT !.reset = @ \ {t}]
  /\ \/ sent' = sent \union {t} /\ UNCHANGED <<row, faults>>
     \/ /\ GroupFault /\ row' = IF row[t] \in Ended THEN row ELSE [row EXCEPT ![t] = "failed"]
        /\ UNCHANGED sent
  /\ UNCHANGED <<listing, adder, press, scans, unanswered, unmarked>>

GroupNext ==
  \/ CreateBatch \/ Publish \/ MarkFailed \/ Monitor \/ CopyEnds \/ Scan
  \/ \E p \in Presses : Press(p) \/ Answer(p) \/ \E t \in Tasks : CancelOne(p, t)
  \/ \E t \in Tasks : Start(t) \/ Complete(t) \/ Restore(t) \/ Resend(t)

GroupSpec == GroupInit /\ [][GroupNext]_groupVars

-----------------------------------------------------------------------------
\* Properties

\* Every variable has its type.
GroupTypeOK ==
  /\ row \in [Tasks -> {"none", "queued", "running"} \union Ended]
  /\ sent \subseteq Tasks /\ listing \in {NoListing} \union SUBSET Tasks
  /\ adder.at \in {"create", "publish", "mark", "done", "failed"} /\ adder.next \in Tasks
  /\ \A p \in Presses : /\ press[p].at \in {"idle", "cancel", "yes", "no"}
                        /\ press[p].list \subseteq Tasks
                        /\ press[p].done \subseteq Tasks /\ press[p].left \subseteq Tasks
  /\ scan.read \subseteq Tasks /\ scan.reset \subseteq Tasks
  /\ scans \in 0..MaxScans /\ faults \in 0..MaxErrors
  /\ unanswered \in BOOLEAN /\ unmarked \subseteq Tasks

\* When the user was told that the group could not be added, no task of it is waiting or
\* at work, whatever was published already; except one that could not be marked, one
\* that a scan has put back, and all of them when the answer of the insert was lost.
RefusedIsEnded ==
  adder.at = "failed" /\ ~unanswered =>
    \A t \in Tasks \ unmarked : row[t] \in Ended \union {"none"}

\* When a cancel is answered yes, each task of the group is cancelled, and stays so, but
\* for those that had completed or failed before or could not be written.
YesIsCancelled ==
  \A p \in Presses : press[p].at = "yes" =>
    /\ press[p].done # {}
    /\ press[p].done \union press[p].left = Tasks
    /\ \A t \in press[p].done : row[t] = "cancelled"

\* What the user is told of a cancelled group is so.
GroupSafe == GroupTypeOK /\ RefusedIsEnded /\ YesIsCancelled

=============================================================================
