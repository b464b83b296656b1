------------------------------- MODULE MCTask -------------------------------
(* The shared records a task depends on, each on a small instance: its row   *)
(* (taken over by another worker, or failing and queued again), and the      *)
(* message that brings it to a worker.  A behaviour is of one of them,       *)
(* chosen at first.                                                          *)
EXTENDS TaskStore, QueuePublish, TLC

CONSTANTS c1, c2, k1, k2

VARIABLE part

\* A worker with its heartbeat and one that takes the task over, and a user who
\* cancels it
TakeoverOperations ==
  {[event |-> "start_download",  mode |-> "claim"],
   [event |-> "finish_download", mode |-> "fence"],
   [event |-> Liveness,          mode |-> "fence"],
   [event |-> "complete",        mode |-> "fence"],
   [event |-> "cancel",          mode |-> "plain"]}

\* A worker that fails, recovery scans and users that queue the task again, and
\* writes of its metadata
RetryOperations ==
  {[event |-> "start_download", mode |-> "claim"],
   [event |-> "fail",           mode |-> "fence"],
   [event |-> "retry",          mode |-> "plain"],
   [event |-> Metadata,         mode |-> "plain"]}

\* The same rows with other operations, one claim and a clock that moves
Retries == INSTANCE TaskStore
             WITH Operations <- RetryOperations, Claims <- {k1}, MaxClock <- 1, MaxStamp <- 3

TaskInit ==
  /\ part \in {"takeover", "retries", "queue"}
  /\ Init /\ QueueInit

TaskNext ==
  /\ UNCHANGED part
  /\ \/ part = "takeover" /\ Next         /\ UNCHANGED queueVars
     \/ part = "retries"  /\ Retries!Next /\ UNCHANGED queueVars
     \/ part = "queue"    /\ QueueNext    /\ UNCHANGED vars

TaskSpec == TaskInit /\ [][TaskNext]_<<part, vars, queueVars>>

\* result and view feed no later step: states that differ only in them are one
\* state (each step that writes them is still checked against the action
\* properties).
TaskView == <<part, rows, clock, pc, call, seen, queueVars>>

\* Calls are interchangeable, and claims: the retries use one claim only, two of
\* their states that differ by the claims are equal.
Symmetry == Permutations({c1, c2}) \cup Permutations({k1, k2})

=============================================================================
