--------------------------- MODULE DirectTransfer ---------------------------
(***************************************************************************)
(* Files piped from Telegram through `rclone rcat` to the user's drive     *)
(* (DirectTransferService.js, called by _handleDirectTransfer of           *)
(* TaskManager.download.js).  A file is first stored under a staging name  *)
(* of its own, then moved to its final name.  The transfers of this module *)
(* are of one user and have the same final name: two tasks, or two claims  *)
(* of one task.                                                            *)
(*                                                                         *)
(* A file is as long as its chunks; files are compared by that length.     *)
(* rclone (external) stores what it has read when its input ends; one that *)
(* is killed by destroying its input may still store what it has.          *)
(***************************************************************************)
EXTENDS Integers, FiniteSets

CONSTANTS
  Transfers,      \* calls of transferTelegramMediaToRemote
  None,           \* not a transfer
  Size,           \* Transfers -> length of its file
  MaxAttempts,    \* maxAttempts of the configuration
  MaxTroubles     \* bound on stalls, failures and stale answers (model checking only)

ASSUME DirectAssumption ==
  /\ None \notin Transfers /\ Size \in [Transfers -> Nat \ {0}]
  /\ MaxAttempts \in Nat \ {0} /\ MaxTroubles \in Nat

VARIABLES
  final,      \* the file under the final name: whose, and its length
  stage,      \* each attempt's staging file: its length, 0 when there is none
  rclone,     \* each attempt's rclone
  dt,         \* each transfer: where it is, its attempt, chunks written, ...
  short,      \* history: transfers whose source ended before its file did
  replaced,   \* history: transfers after whose look another was moved in
  leftover,   \* history: attempts whose staging file a failure has left behind
  troubles

directVars == <<final, stage, rclone, dt, short, replaced, leftover, troubles>>

-----------------------------------------------------------------------------
NoFile == [by |-> None, len |-> 0]

Closed == {"stored", "existing", "skipped", "fell back", "failed", "cancelled"}

Why == {"none", "source", "rclone", "cancelled"}

DirectTypeOK ==
  /\ final \in [by : Transfers \cup {None}, len : Nat]
  /\ stage \in [Transfers -> [1..MaxAttempts -> Nat]]
  /\ rclone \in [Transfers -> [1..MaxAttempts ->
                  {"none", "reads", "ended", "done", "broken", "killed", "gone"}]]
  /\ dt \in [Transfers -> [at : {"call", "attempt", "feed", "wait", "look", "tidy",
                                 "move", "validate", "fail", "again"} \cup Closed,
                           n : 1..MaxAttempts, sent : Nat, found : BOOLEAN,
                           moved : BOOLEAN, why : Why]]
  /\ short \subseteq Transfers /\ replaced \subseteq Transfers
  /\ leftover \subseteq Transfers \X (1..MaxAttempts)
  /\ troubles \in 0..MaxTroubles

DirectInit ==
  /\ final = NoFile
  /\ stage = [t \in Transfers |-> [n \in 1..MaxAttempts |-> 0]]
  /\ rclone = [t \in Transfers |-> [n \in 1..MaxAttempts |-> "none"]]
  /\ dt = [t \in Transfers |-> [at |-> "call", n |-> 1, sent |-> 0, found |-> FALSE,
                                moved |-> FALSE, why |-> "none"]]
  /\ short = {} /\ replaced = {} /\ leftover = {} /\ troubles = 0

Trouble == troubles < MaxTroubles /\ troubles' = troubles + 1

At(t, label) == dt[t].at = label

MovesOn(t, label) == dt' = [dt EXCEPT ![t].at = label]

FailsWith(t, why) == dt' = [dt EXCEPT ![t].at = "fail", ![t].why = why]

Mine(t) == rclone[t][dt[t].n]

Rclone(t, state) == rclone' = [rclone EXCEPT ![t][dt[t].n] = state]

\* getRemoteFileInfo of the final name: a lookup that fails is answered like one
\* that finds nothing.
LooksUp(seen) ==
  \/ seen = final /\ UNCHANGED troubles
  \/ seen = NoFile /\ final # NoFile /\ Trouble

\* _isSizeMatch of what is found under the final name
SizeMatches(t, seen) == seen.len = Size[t]

-----------------------------------------------------------------------------
\* _handleDirectTransfer looks at the final name before it starts ...
Call(t) ==
  /\ At(t, "call")
  /\ \E seen \in {final, NoFile} :
       /\ LooksUp(seen)
       /\ dt' = [dt EXCEPT ![t].at = IF seen # NoFile /\ ~SizeMatches(t, seen) THEN "skipped"
                                     ELSE "attempt",
                           ![t].found = seen # NoFile]
  /\ replaced' = replaced \ {t}
  /\ UNCHANGED <<final, stage, rclone, short, leftover>>

\* ... and every attempt uses what was found then.
FindExisting(t) ==
  /\ At(t, "attempt") /\ dt[t].found
  /\ MovesOn(t, "existing")
  /\ UNCHANGED <<final, stage, rclone, short, replaced, leftover, troubles>>

\* createRcatStream
OpenRcat(t) ==
  /\ At(t, "attempt") /\ ~dt[t].found
  /\ MovesOn(t, "feed") /\ Rclone(t, "reads")
  /\ UNCHANGED <<final, stage, short, replaced, leftover, troubles>>

OpenRcatFails(t) ==
  /\ At(t, "attempt") /\ ~dt[t].found
  /\ Trouble /\ FailsWith(t, "rclone")
  /\ UNCHANGED <<final, stage, rclone, short, replaced, leftover>>

\* One chunk from the source into the pipe
Feed(t) ==
  /\ At(t, "feed") /\ dt[t].sent < Size[t] /\ Mine(t) = "reads"
  /\ dt' = [dt EXCEPT ![t].sent = @ + 1]
  /\ UNCHANGED <<final, stage, rclone, short, replaced, leftover, troubles>>

\* The iterator is done, with the whole file or too early, and stdin is ended.
SourceEnds(t) ==
  /\ At(t, "feed") /\ Mine(t) = "reads" /\ dt[t].sent > 0
  /\ IF dt[t].sent = Size[t] THEN UNCHANGED <<short, troubles>>
     ELSE short' = short \cup {t} /\ Trouble
  /\ MovesOn(t, "wait") /\ Rclone(t, "ended")
  /\ UNCHANGED <<final, stage, replaced, leftover>>

\* The source throws, or stalls: then rclone is killed at once.
SourceFails(t) ==
  /\ At(t, "feed") /\ Trouble
  /\ FailsWith(t, "source")
  /\ \/ UNCHANGED rclone
     \/ Mine(t) = "reads" /\ Rclone(t, "killed")
  /\ UNCHANGED <<final, stage, short, replaced, leftover>>

\* rclone breaks down while it is fed; the next write fails or stalls.
RcloneBreaks(t) ==
  /\ Mine(t) \in {"reads", "ended"} /\ Trouble
  /\ Rclone(t, "broken")
  /\ UNCHANGED <<final, stage, dt, short, replaced, leftover>>

PipeFails(t) ==
  /\ At(t, "feed") /\ Mine(t) = "broken"
  /\ FailsWith(t, "rclone")
  /\ UNCHANGED <<final, stage, rclone, short, replaced, leftover, troubles>>

\* isCancelled, before a chunk is written
Cancelled(t) ==
  /\ At(t, "feed") /\ Trouble
  /\ FailsWith(t, "cancelled")
  /\ UNCHANGED <<final, stage, rclone, short, replaced, leftover>>

\* rclone has read the end of its input: it stores the file and exits.
RcloneStores(t) ==
  /\ \E n \in 1..MaxAttempts :
       /\ rclone[t][n] = "ended"
       /\ rclone' = [rclone EXCEPT ![t][n] = "done"]
       /\ stage' = [stage EXCEPT ![t][n] = dt[t].sent]
  /\ UNCHANGED <<final, dt, short, replaced, leftover, troubles>>

\* A killed one exits; the end of its input may have reached it first.
RcloneDies(t) ==
  /\ \E n \in 1..MaxAttempts :
       /\ rclone[t][n] = "killed"
       /\ rclone' = [rclone EXCEPT ![t][n] = "gone"]
       /\ \/ UNCHANGED <<stage, leftover, troubles>>
          \/ /\ Trouble
             /\ stage' = [stage EXCEPT ![t][n] = 1]
             /\ leftover' = leftover \cup {<<t, n>>}
  /\ UNCHANGED <<final, dt, short, replaced>>

\* Mutant of RcloneIsDone: the end of the input is taken for the end of rclone.
RcloneIsDoneEarly(t) == Mine(t) \in {"ended", "done"}

RcloneIsDone(t) == Mine(t) = "done"

\* rcloneCompletion
RcloneCompletes(t) ==
  /\ At(t, "wait")
  /\ \/ RcloneIsDone(t) /\ MovesOn(t, "look") /\ UNCHANGED <<rclone, troubles>>
     \/ Mine(t) = "broken" /\ FailsWith(t, "rclone") /\ UNCHANGED <<rclone, troubles>>
     \/ /\ Mine(t) = "ended" /\ Trouble
        /\ FailsWith(t, "rclone") /\ Rclone(t, "killed")
  /\ UNCHANGED <<final, stage, short, replaced, leftover>>

\* The final name again, before the move
LookBeforeMove(t) ==
  /\ At(t, "look")
  /\ \E seen \in {final, NoFile} :
       /\ LooksUp(seen)
       /\ CASE seen = NoFile -> MovesOn(t, "move")
            [] seen # NoFile /\ SizeMatches(t, seen) -> MovesOn(t, "tidy")
            [] OTHER -> FailsWith(t, "rclone")
  /\ replaced' = replaced \ {t}
  /\ UNCHANGED <<final, stage, rclone, short, leftover>>

\* deleteRemoteFile of the staging name: done, or failed with a warning.
Deletes(t) ==
  \/ /\ stage' = [stage EXCEPT ![t][dt[t].n] = 0] /\ UNCHANGED <<leftover, troubles>>
  \/ /\ Trouble /\ UNCHANGED stage
     /\ leftover' = leftover \cup {<<t, dt[t].n>>}

\* "remote_completed_concurrently"
TidyExisting(t) ==
  /\ At(t, "tidy")
  /\ MovesOn(t, "existing") /\ Deletes(t)
  /\ UNCHANGED <<final, rclone, short, replaced>>

\* moveRemoteFile puts the file under the final name, whatever is there by now;
\* it may report a failure all the same.
Move(t) ==
  /\ At(t, "move")
  /\ final' = [by |-> t, len |-> stage[t][dt[t].n]]
  /\ stage' = [stage EXCEPT ![t][dt[t].n] = 0]
  /\ replaced' = replaced \cup (Transfers \ {t})
  /\ \/ dt' = [dt EXCEPT ![t].at = "validate", ![t].moved = TRUE] /\ UNCHANGED troubles
     \/ FailsWith(t, "rclone") /\ Trouble
  /\ UNCHANGED <<rclone, short, leftover>>

MoveFails(t) ==
  /\ At(t, "move") /\ Trouble
  /\ FailsWith(t, "rclone")
  /\ UNCHANGED <<final, stage, rclone, short, replaced, leftover>>

\* _waitForRemoteValidation: a file of the right size, or not (also when the drive
\* does not list it yet)
AwaitValidation(t) ==
  /\ At(t, "validate")
  /\ \E seen \in {final, NoFile} :
       /\ LooksUp(seen)
       /\ IF SizeMatches(t, seen) THEN MovesOn(t, "stored") /\ replaced' = replaced \ {t}
          ELSE FailsWith(t, "rclone") /\ UNCHANGED replaced
  /\ UNCHANGED <<final, stage, rclone, short, leftover>>

\* The catch: rclone is killed, and the staging file deleted if it has not been
\* moved.
DropStaging(t) ==
  /\ At(t, "fail")
  /\ IF dt[t].moved THEN UNCHANGED <<stage, leftover, troubles>> ELSE Deletes(t)
  /\ rclone' = [rclone EXCEPT ![t][dt[t].n] =
                  IF @ \in {"reads", "ended"} THEN "killed" ELSE @]
  /\ MovesOn(t, IF dt[t].why = "cancelled" THEN "cancelled" ELSE "again")
  /\ UNCHANGED <<final, short, replaced>>

MoreAttempts(t) == dt[t].n < MaxAttempts

\* The attempt loop: once more, if the failure is of a kind that may pass
TryAgain(t) ==
  /\ At(t, "again") /\ MoreAttempts(t)
  /\ dt' = [dt EXCEPT ![t] = [at |-> "attempt", n |-> dt[t].n + 1, sent |-> 0,
                              found |-> dt[t].found, moved |-> FALSE, why |-> "none"]]
  /\ UNCHANGED <<final, stage, rclone, short, replaced, leftover, troubles>>

\* It does not pass: the caller falls back to a local copy, or the task fails.
\* A failure of the source allows no fallback.
Give(t) ==
  /\ At(t, "again")
  /\ \/ MovesOn(t, "failed")
     \/ dt[t].why = "rclone" /\ MovesOn(t, "fell back")
  /\ UNCHANGED <<final, stage, rclone, short, replaced, leftover, troubles>>

AllClosed ==
  /\ \A t \in Transfers : dt[t].at \in Closed
  /\ UNCHANGED directVars

TransferStep(t) ==
  \/ Call(t) \/ FindExisting(t) \/ OpenRcat(t) \/ OpenRcatFails(t) \/ Feed(t)
  \/ SourceEnds(t) \/ SourceFails(t) \/ RcloneBreaks(t) \/ PipeFails(t)
  \/ Cancelled(t) \/ RcloneStores(t) \/ RcloneDies(t) \/ RcloneCompletes(t)
  \/ LookBeforeMove(t) \/ TidyExisting(t) \/ Move(t) \/ MoveFails(t)
  \/ AwaitValidation(t) \/ DropStaging(t) \/ TryAgain(t) \/ Give(t)

DirectNext == (\E t \in Transfers : TransferStep(t)) \/ AllClosed

DirectSpec == DirectInit /\ [][DirectNext]_directVars

-----------------------------------------------------------------------------
(* Under the final name there is nothing but whole files, unless a source    *)
(* ended early: then its short file is moved there first and found too short *)
(* afterwards, and stays.                                                    *)
FinalIsWhole == final # NoFile => final.len = Size[final.by] \/ final.by \in short

(* A transfer that reported its file as stored has it there, with the right  *)
(* length, unless another was moved to the same name after it looked: the    *)
(* look before the move and the move are two calls.                          *)
StoredIsThere ==
  \A t \in Transfers :
    dt[t].at \in {"stored", "existing"} => final.len = Size[t] \/ t \in replaced

(* Nothing is left under a staging name when the transfer is over and its    *)
(* rclone has exited, unless the deletion failed, or rclone stored what it   *)
(* had while it was being killed.                                            *)
NothingLeftBehind ==
  \A t \in Transfers, n \in 1..MaxAttempts :
    dt[t].at \in Closed /\ stage[t][n] # 0
      => <<t, n>> \in leftover

\* A file at its name is whole, what was reported is there, and no part stays behind.
DirectSafe == DirectTypeOK /\ FinalIsWhole /\ StoredIsThere /\ NothingLeftBehind

=============================================================================
