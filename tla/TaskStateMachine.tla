-------------------------- MODULE TaskStateMachine --------------------------
(***************************************************************************)
(* The task life cycle of src/domain/task-state-machine.js: the statuses a *)
(* row of the tasks table can have, the events, and the table that says    *)
(* from which statuses an event may fire and which status it leads to.     *)
(* Pure operators; every module about tasks is built on this table.        *)
(***************************************************************************)

Statuses == {"queued", "downloading", "downloaded", "uploading",
             "completed", "failed", "cancelled"}

TerminalStatuses == {"completed", "failed", "cancelled"}

ActiveStatuses == {"queued", "downloading", "downloaded", "uploading"}

Events == {"start_download", "finish_download", "start_upload",
           "start_stream_upload", "complete", "fail", "cancel", "retry",
           "reset_upload", "reset_stream_download", "reset_stalled"}

\* TASK_TRANSITIONS[event].to
TargetStatus ==
  [start_download        |-> "downloading",
   finish_download       |-> "downloaded",
   start_upload          |-> "uploading",
   start_stream_upload   |-> "uploading",
   complete              |-> "completed",
   fail                  |-> "failed",
   cancel                |-> "cancelled",
   retry                 |-> "queued",
   reset_upload          |-> "downloaded",
   reset_stream_download |-> "downloading",
   reset_stalled         |-> "queued"]

\* TASK_TRANSITIONS[event].from
AllowedFrom ==
  [start_download        |-> {"queued", "downloading"},
   finish_download       |-> {"downloading", "downloaded"},
   start_upload          |-> {"downloaded", "uploading"},
   start_stream_upload   |-> {"downloading", "uploading"},
   complete              |-> ActiveStatuses \cup {"completed"},
   fail                  |-> ActiveStatuses \cup {"failed"},
   cancel                |-> ActiveStatuses \cup {"cancelled"},
   retry                 |-> ActiveStatuses \cup {"failed"},
   reset_upload          |-> {"downloaded", "uploading"},
   reset_stream_download |-> {"downloading", "uploading", "failed"},
   reset_stalled         |-> {"downloading", "downloaded", "uploading"}]

\* TaskStateMachine.resolveTransition(currentStatus, event).allowed
Allowed(current, event) == current \in AllowedFrom[event]

\* TaskStateMachine.resolveTransition(currentStatus, event).idempotent
Idempotent(current, event) == current = TargetStatus[event]

(***************************************************************************)
(* The graph of the life cycle: an edge for every event.                   *)
(***************************************************************************)
Edges == UNION { AllowedFrom[e] \X {TargetStatus[e]} : e \in Events }

=============================================================================
