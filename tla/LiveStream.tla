----------------------------- MODULE LiveStream -----------------------------
(***************************************************************************)
(* The live mode of StreamTransferService.js, the one a request without    *)
(* x-stream-mode gets: the worker pipes the chunks of a file into `rclone  *)
(* rcat` as they come.  Chunks and resets of the task are answered one at  *)
(* a time (_withTaskLock); the handlers of rclone's 'error' and 'close'    *)
(* events and the clean-up of stale streams run outside that lock.         *)
(*                                                                         *)
(* The sender is any client that keeps to the protocol: it sends the next  *)
(* chunk when the last one was accepted; after a failure or a time-out it  *)
(* sends the same one again, starts over, or stops.  One claim of the task *)
(* is in force, and the size of the file is known to the worker.           *)
(***************************************************************************)
EXTENDS Integers, Sequences, FiniteSets, TaskStateMachine

CONSTANTS
  N,         \* chunks of the file
  Pipes,     \* 1..n: the stream contexts of the task, each with its rclone
  MaxUpsets  \* bound on time-outs, failures, resets and early clean-ups (model checking only)

ASSUME LiveAssumption == N \in Nat \ {0} /\ Pipes \subseteq Nat \ {0} /\ MaxUpsets \in Nat

VARIABLES
  task,     \* status of the row
  owned,    \* the stream owner record names the worker
  sender,   \* the next chunk, and the request whose answer is awaited
  posts,    \* requests on their way
  serving,  \* what is done under the task lock
  pipes,    \* the stream contexts
  current,  \* the one in activeStreams, or 0
  drive,    \* the remote file
  crossed,  \* history: a context was opened before the last one had ended, or
            \* one was reset after its rclone had stored the file
  upsets

liveVars == <<task, owned, sender, posts, serving, pipes, current, drive, crossed, upsets>>

-----------------------------------------------------------------------------
NoPost == [k |-> 0, n |-> 0]

Posts == [k : 1..N, n : 0..MaxUpsets]

Nothing == [chunks |-> <<>>, torn |-> FALSE]

Idle == [post |-> NoPost, pipe |-> 0, step |-> "free"]

NoPipe == [out |-> Nothing, last |-> 0, ended |-> FALSE, rclone |-> "none",
           reported |-> FALSE, handler |-> "none"]

Files == [chunks : UNION {[1..n -> 1..N] : n \in 0..(N + 1)}, torn : BOOLEAN]

LiveTypeOK ==
  /\ task \in Statuses /\ owned \in BOOLEAN
  /\ sender \in [k : 1..(N + 1), post : Posts \cup {NoPost}, stopped : BOOLEAN]
  /\ posts \subseteq Posts
  /\ serving \in [post : Posts \cup {NoPost}, pipe : Pipes \cup {0},
                  step : {"free", "write", "remove", "reset"}]
  /\ pipes \in [Pipes -> [out : Files, last : 0..N, ended : BOOLEAN,
                  rclone : {"none", "open", "stored", "broken", "closed"},
                  reported : BOOLEAN,
                  handler : {"none", "finish", "complete", "remove", "report", "done"}]]
  /\ current \in Pipes \cup {0}
  /\ drive \in Files
  /\ crossed \in BOOLEAN /\ upsets \in 0..MaxUpsets

LiveInit ==
  /\ task = "downloading" /\ owned = TRUE
  /\ sender = [k |-> 1, post |-> NoPost, stopped |-> FALSE]
  /\ posts = {} /\ serving = Idle
  /\ pipes = [p \in Pipes |-> NoPipe] /\ current = 0
  /\ drive = Nothing /\ crossed = FALSE /\ upsets = 0

Upset == upsets < MaxUpsets /\ upsets' = upsets + 1

Fire(event) == task' = IF Allowed(task, event) THEN TargetStatus[event] ELSE task

-----------------------------------------------------------------------------
(* The sender *)

Post ==
  LET m == [k |-> sender.k, n |-> upsets] IN
  /\ ~sender.stopped /\ sender.k <= N /\ sender.post = NoPost
  /\ sender' = [sender EXCEPT !.post = m] /\ posts' = posts \cup {m}
  /\ UNCHANGED <<task, owned, serving, pipes, current, drive, crossed, upsets>>

\* What the sender may do next when a request was not accepted
AfterFailure == {[sender EXCEPT !.post = NoPost],
                 [sender EXCEPT !.post = NoPost, !.k = 1],
                 [sender EXCEPT !.post = NoPost, !.stopped = TRUE]}

\* The 30 seconds of forwardChunk are over; the request may still arrive.
PostTimesOut ==
  /\ sender.post # NoPost /\ Upset
  /\ sender' \in AfterFailure
  /\ posts' \in {posts, posts \ {sender.post}}
  /\ UNCHANGED <<task, owned, serving, pipes, current, drive, crossed>>

\* registerStreamOwner, before a sender starts over
Register ==
  /\ ~owned /\ ~sender.stopped /\ sender.k = 1 /\ sender.post = NoPost
  /\ owned' = TRUE
  /\ UNCHANGED <<task, sender, posts, serving, pipes, current, drive, crossed, upsets>>

Accepts(m) ==
  /\ posts' = posts \ {m}
  /\ sender' = IF sender.post = m THEN [sender EXCEPT !.post = NoPost, !.k = @ + 1] ELSE sender
  /\ UNCHANGED upsets

\* A refusal is counted, so that senders do not start over for ever.
Refuses(m) ==
  /\ posts' = posts \ {m}
  /\ IF sender.post = m
     THEN \/ Upset /\ sender' \in AfterFailure
          \/ sender' = [sender EXCEPT !.post = NoPost, !.stopped = TRUE] /\ UNCHANGED upsets
     ELSE UNCHANGED <<sender, upsets>>

-----------------------------------------------------------------------------
(* The worker, under the task lock *)

Waiting(m) == serving = Idle /\ m \in posts

\* Not the owner (409), or the first chunk is missing (409), or the row refuses (500)
RefusePost(m) ==
  /\ Waiting(m)
  /\ ~owned \/ (current = 0 /\ (m.k # 1 \/ ~Allowed(task, "start_stream_upload")))
  /\ Refuses(m)
  /\ UNCHANGED <<task, owned, serving, pipes, current, drive, crossed>>

\* The rclone of p has yet to end, or its end has yet to be handled.
Lives(p) == pipes[p].rclone # "none"
            /\ (pipes[p].rclone # "closed" \/ pipes[p].handler # "done")

\* _initializeStreamContext, with createRcatStream
OpenPipe(m) ==
  /\ Waiting(m) /\ owned /\ current = 0 /\ m.k = 1
  /\ Allowed(task, "start_stream_upload") /\ Fire("start_stream_upload")
  /\ \E p \in Pipes :
       /\ pipes[p] = NoPipe /\ \A q \in Pipes : q < p => pipes[q] # NoPipe
       /\ pipes' = [pipes EXCEPT ![p] = [NoPipe EXCEPT !.rclone = "open"]]
       /\ current' = p
       /\ serving' = [post |-> m, pipe |-> p, step |-> "write"]
  /\ crossed' = (crossed \/ \E p \in Pipes : Lives(p))
  /\ UNCHANGED <<owned, sender, posts, drive, upsets>>

\* rclone cannot be started: the row says uploading, and there is no context.
OpenFails(m) ==
  /\ Waiting(m) /\ owned /\ current = 0 /\ m.k = 1
  /\ Allowed(task, "start_stream_upload") /\ Fire("start_stream_upload")
  /\ Refuses(m)
  /\ UNCHANGED <<owned, serving, pipes, current, drive, crossed>>

TakePost(m) ==
  /\ Waiting(m) /\ owned /\ current # 0
  /\ serving' = [post |-> m, pipe |-> current, step |-> "write"]
  /\ UNCHANGED <<task, owned, sender, posts, pipes, current, drive, crossed, upsets>>

AlreadyWritten(p, k) == k <= pipes[p].last

AnswerAgain ==
  /\ serving.step = "write" /\ AlreadyWritten(serving.pipe, serving.post.k)
  /\ Accepts(serving.post) /\ serving' = Idle
  /\ UNCHANGED <<task, owned, pipes, current, drive, crossed>>

RefuseGap ==
  /\ serving.step = "write" /\ serving.post.k > pipes[serving.pipe].last + 1
  /\ Refuses(serving.post) /\ serving' = Idle
  /\ UNCHANGED <<task, owned, pipes, current, drive, crossed>>

IsNext == serving.step = "write" /\ ~AlreadyWritten(serving.pipe, serving.post.k)
          /\ serving.post.k <= pipes[serving.pipe].last + 1

Writable(p) == pipes[p].rclone = "open" /\ ~pipes[p].ended

\* The body goes to rclone; after the last chunk its input is ended.
WriteBody ==
  LET p == serving.pipe
      k == serving.post.k IN
  /\ IsNext /\ Writable(p)
  /\ pipes' = [pipes EXCEPT ![p].out.chunks = Append(@, k), ![p].last = k,
                            ![p].ended = (k = N)]
  /\ Accepts(serving.post) /\ serving' = Idle
  /\ UNCHANGED <<task, owned, current, drive, crossed>>

\* Mutants of GivenUp: rclone's input stays open; the end counts as reported.
GivenUpOpen(pipe) == pipe
GivenUpReported(pipe) == [pipe EXCEPT !.ended = TRUE, !.reported = TRUE]

\* What the catch of handleIncomingChunk does to a context: end its input
GivenUp(pipe) == [pipe EXCEPT !.ended = TRUE]

\* The body breaks off, or rclone no longer reads: a part of it may be written.
WriteBreaks ==
  LET p == serving.pipe IN
  /\ IsNext
  /\ IF Writable(p)
     THEN /\ Upset
          /\ \E torn \in BOOLEAN : pipes' = [pipes EXCEPT ![p] = [GivenUp(@) EXCEPT !.out.torn = torn]]
     ELSE pipes' = [pipes EXCEPT ![p] = GivenUp(@)] /\ UNCHANGED upsets
  /\ current' = 0
  /\ serving' = [serving EXCEPT !.step = "remove"]
  /\ UNCHANGED <<task, owned, sender, posts, drive, crossed>>

\* _deletePartialRemoteFile, and the answer 500
RemovePartial ==
  /\ serving.step = "remove"
  /\ drive' = Nothing
  /\ Refuses(serving.post) /\ serving' = Idle
  /\ UNCHANGED <<task, owned, pipes, current, crossed>>

\* resetTask of a live stream: rclone is killed, ...
BeginReset ==
  /\ serving = Idle /\ owned /\ current # 0 /\ Upset
  /\ pipes' = [pipes EXCEPT ![current].ended = TRUE,
                            ![current].rclone = IF @ = "open" THEN "broken" ELSE @]
  /\ serving' = [Idle EXCEPT !.pipe = current, !.step = "reset"]
  /\ crossed' = (crossed \/ pipes[current].rclone = "stored")
  /\ UNCHANGED <<task, owned, sender, posts, current, drive>>

\* ... its file removed, and the context and the owner are forgotten.
EndReset ==
  /\ serving.step = "reset"
  /\ drive' = Nothing /\ current' = 0 /\ owned' = FALSE /\ serving' = Idle
  /\ UNCHANGED <<task, sender, posts, pipes, crossed, upsets>>

-----------------------------------------------------------------------------
(* rclone, and the handlers of its events *)

\* rcat reads its input to the end and stores what it read.
Stores(p) ==
  /\ pipes[p].rclone = "open" /\ pipes[p].ended
  /\ drive' = pipes[p].out
  /\ pipes' = [pipes EXCEPT ![p].rclone = "stored"]
  /\ UNCHANGED <<task, owned, sender, posts, serving, current, crossed, upsets>>

Dies(p) ==
  /\ pipes[p].rclone = "open" /\ Upset
  /\ pipes' = [pipes EXCEPT ![p].rclone = "broken"]
  /\ UNCHANGED <<task, owned, sender, posts, serving, current, drive, crossed>>

\* handleProcessError: the pipe broke.
ErrorEvent(p) ==
  /\ pipes[p].rclone = "broken" /\ ~pipes[p].reported
  /\ pipes' = [pipes EXCEPT ![p].reported = TRUE, ![p].handler = "remove"]
  /\ current' = 0
  /\ UNCHANGED <<task, owned, sender, posts, serving, drive, crossed, upsets>>

\* 'close': whatever context is in activeStreams is taken out.
CloseEvent(p) ==
  /\ pipes[p].rclone \in {"stored", "broken"}
  /\ pipes' = [pipes EXCEPT
       ![p].rclone = "closed",
       ![p].reported = @ \/ pipes[p].rclone = "broken",
       ![p].handler = IF pipes[p].reported THEN @
                      ELSE IF pipes[p].rclone = "stored" THEN "finish" ELSE "remove"]
  /\ current' = 0
  /\ UNCHANGED <<task, owned, sender, posts, serving, drive, crossed, upsets>>

Hands(p, step) == pipes' = [pipes EXCEPT ![p].handler = step]

\* getRemoteFileInfo's size against totalSize
SizeFits(file) == Len(file.chunks) = N /\ ~file.torn

ValidateFile(p) ==
  /\ pipes[p].handler = "finish"
  /\ Hands(p, IF SizeFits(drive) THEN "complete" ELSE "report")
  /\ UNCHANGED <<task, owned, sender, posts, serving, current, drive, crossed, upsets>>

CompleteRow(p) ==
  /\ pipes[p].handler = "complete"
  /\ Fire("complete") /\ Hands(p, "done")
  /\ UNCHANGED <<owned, sender, posts, serving, current, drive, crossed, upsets>>

RemoveRemote(p) ==
  /\ pipes[p].handler = "remove"
  /\ drive' = Nothing /\ Hands(p, "report")
  /\ UNCHANGED <<task, owned, sender, posts, serving, current, crossed, upsets>>

\* reportError
FailRow(p) ==
  /\ pipes[p].handler = "report"
  /\ Fire("fail") /\ Hands(p, "done")
  /\ UNCHANGED <<owned, sender, posts, serving, current, drive, crossed, upsets>>

\* cleanupStaleStreams: no chunk for five minutes.  A sender that stopped is
\* one cause; a slow one, or a long upload after the last chunk, another.
CleanStale ==
  /\ current # 0
  /\ IF sender.stopped THEN UNCHANGED upsets ELSE Upset
  /\ pipes' = [pipes EXCEPT ![current].ended = TRUE,
                            ![current].rclone = IF @ = "open" THEN "broken" ELSE @]
  /\ current' = 0
  /\ UNCHANGED <<task, owned, sender, posts, serving, drive, crossed>>

Quiet ==
  /\ posts = {} /\ serving = Idle
  /\ sender.stopped \/ sender.k > N \/ task \in TerminalStatuses
  /\ UNCHANGED liveVars

LiveNext ==
  \/ Post \/ PostTimesOut \/ Register
  \/ \E m \in posts : RefusePost(m) \/ OpenPipe(m) \/ OpenFails(m) \/ TakePost(m)
  \/ AnswerAgain \/ RefuseGap \/ WriteBody \/ WriteBreaks \/ RemovePartial
  \/ BeginReset \/ EndReset
  \/ \E p \in Pipes :
       \/ Stores(p) \/ Dies(p) \/ ErrorEvent(p) \/ CloseEvent(p)
       \/ ValidateFile(p) \/ CompleteRow(p) \/ RemoveRemote(p) \/ FailRow(p)
  \/ CleanStale \/ Quiet

LiveSpec == LiveInit /\ [][LiveNext]_liveVars

-----------------------------------------------------------------------------
(* What an rclone has been given is the beginning of the file, whatever was  *)
(* sent twice or arrived after its sender had given up on it.                *)
PipedInOrder ==
  \A p \in Pipes : pipes[p].out.chunks = [k \in 1..Len(pipes[p].out.chunks) |-> k]

(* The row says completed only of a file that is whole and still there.  Two *)
(* ways out of that: a context opened while an earlier rclone of the task    *)
(* was still to end (both write, and remove, the same remote name), and a    *)
(* reset that removes the file of an rclone that has ended by itself.        *)
CompletedIsWhole ==
  task = "completed" /\ ~crossed => drive = [chunks |-> [k \in 1..N |-> k], torn |-> FALSE]

(* An rclone that waits for data can be reached by the next chunk, by a      *)
(* reset and by the clean-up, which are all that can end it: it is the one   *)
(* in activeStreams.  The same exception: the 'close' of an earlier rclone   *)
(* takes a later context out.                                                *)
NoOrphan ==
  ~crossed => \A p \in Pipes : pipes[p].rclone = "open" /\ ~pipes[p].ended => current = p

(* No rclone ends unnoticed: when its end has been handled the row says how  *)
(* the task ended, and until then a handler is at it.                        *)
EndIsReported ==
  \A p \in Pipes :
    pipes[p].rclone = "closed"
      => pipes[p].handler \in {"finish", "complete", "remove", "report"}
         \/ task \in TerminalStatuses

\* The pipe gets the file in order, and its end is reported for what it was.
LiveSafe == LiveTypeOK /\ PipedInOrder /\ CompletedIsWhole /\ NoOrphan /\ EndIsReported

=============================================================================
