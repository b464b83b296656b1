--------------------------------- MODULE Dialog --------------------------------
(* The dialogues the dispatcher holds with one user: binding a drive in two  *)
(* steps (DriveConfigFlow), confirming an action with a button (an external  *)
(* link, an administrator's command, the retry of a page of failed tasks)    *)
(* and entering an upload path.  What the dialogue has come to is one        *)
(* session in the shared cache (SessionManager), which every handler reads,  *)
(* acts on and then replaces or deletes in calls of their own; the user's    *)
(* updates are handled side by side.  Every start of a dialogue has a        *)
(* number, which stands for the drive type, the nonce of the button and the  *)
(* content of its data.                                                      *)
EXTENDS Naturals, FiniteSets, TLAPS

CONSTANTS
  Handlers,    \* updates of the user that are handled at the same time
  MaxStarts,   \* bound on dialogues
  MaxUpdates   \* bound on updates

ASSUME DialogAssumption == MaxStarts \in Nat /\ MaxUpdates \in Nat

Dialogues == 1..MaxStarts

VARIABLES
  session,  \* the session: step, whose step, whose e-mail and whose nonce are in the data
  hand,     \* what a handler is doing, and the session it has read
  started,  \* dialogues started
  updates,
  bound,    \* history: drives created, by the dialogue whose type and whose data they have
  runs,     \* history: how often the action of a confirmation was carried out
  pressed,  \* history: confirmations whose button to go on was pressed
  over,     \* history: dialogues that were cancelled, declined or replaced
  torn      \* history: dialogues of a handler that wrote after another had written

dialogVars == <<session, hand, started, updates, bound, runs, pressed, over, torn>>

\* ver is not in the code: it counts the writes, to tell whether a handler acts on the
\* session as it is.
NoSession(v) == [step |-> "none", of |-> 0, data |-> 0, nonce |-> 0, ver |-> v]
New(step, f) == [step |-> step, of |-> f, data |-> 0,
                 nonce |-> IF step = "ask" THEN f ELSE 0, ver |-> session.ver + 1]
Free == [at |-> "free", of |-> 0, ses |-> NoSession(0)]

DialogInit ==
  /\ session = NoSession(0)
  /\ hand = [h \in Handlers |-> Free]
  /\ started = 0 /\ updates = 0
  /\ bound = {} /\ runs = [f \in Dialogues |-> 0] /\ pressed = {} /\ over = {} /\ torn = {}

Binding(s) == s.step \in {"first", "last"}

\* An update of the user reaches a handler.
Comes(h) == hand[h].at = "free" /\ updates < MaxUpdates /\ updates' = updates + 1

Goes(h, at) == hand' = [hand EXCEPT ![h].at = at]
Ends(h) == hand' = [hand EXCEPT ![h] = Free]

\* The session was written since the handler h read it.
Stale(h) == session.ver # hand[h].ses.ver
Noted(h) == torn' = IF Stale(h) THEN torn \union {hand[h].ses.of, session.of} ELSE torn

Cleared == session' = NoSession(session.ver + 1)

-----------------------------------------------------------------------------
\* Starting a dialogue: SessionManager.start replaces whatever session there is.

\* The buttons drive_bind_<type> (startBinding), remote_folder_set and
\* retry_failed_page_<page>.
Begin(h, step) ==
  /\ Comes(h) /\ started < MaxStarts
  /\ started' = started + 1
  /\ session' = New(step, started + 1)
  /\ over' = over \union {session.of}
  /\ UNCHANGED <<hand, bound, runs, pressed, torn>>

\* A text: the session is read first.  SessionManager.get may answer from the copy of its
\* process, which that process's writes replace: as long as one instance has the Telegram
\* client it sees what is stored.  (A session that another leader wrote is left out.)
Text(h) ==
  /\ Comes(h)
  /\ hand' = [hand EXCEPT ![h] = [at |-> "text", of |-> session.of, ses |-> session]]
  /\ UNCHANGED <<session, started, bound, runs, pressed, over, torn>>

\* A link or a command that asks for a confirmation; a session that is not of a binding
\* or of a path lets the text pass.  The link is probed before the session is started.
Ask(h) ==
  /\ hand[h].at = "text" /\ ~Binding(hand[h].ses) /\ hand[h].ses.step # "path"
  /\ started < MaxStarts
  /\ started' = started + 1
  /\ session' = New("ask", started + 1)
  /\ over' = over \union {session.of}
  /\ Ends(h)
  /\ UNCHANGED <<updates, bound, runs, pressed, torn>>

-----------------------------------------------------------------------------
\* _processInput and _handleRemoteFolderInput

\* A word that cancels clears the session, whatever it is by now.
CancelClears(h) == Cleared /\ Noted(h)

Cancel(h) ==
  /\ hand[h].at = "text" /\ (Binding(hand[h].ses) \/ hand[h].ses.step = "path")
  /\ CancelClears(h)
  /\ over' = over \union {hand[h].ses.of}
  /\ Ends(h)
  /\ UNCHANGED <<started, updates, bound, runs, pressed>>

\* The first answer is refused and the session stays, or the provider has a next step:
\* SessionManager.update reads the session anew, gives up when there is none ...
Answer(h) ==
  /\ hand[h].at = "text" /\ hand[h].ses.step = "first"
  /\ \/ Ends(h)
     \/ hand' = [hand EXCEPT ![h] = IF session.step = "none" THEN Free
                                    ELSE [at |-> "update", of |-> hand[h].ses.of, ses |-> session]]
  /\ UNCHANGED <<session, started, updates, bound, runs, pressed, over, torn>>

\* ... and merges the step and the data into it, of whatever dialogue it is.
Update(h) ==
  /\ hand[h].at = "update"
  /\ session' = [hand[h].ses EXCEPT !.step = "last", !.of = hand[h].of,
                                    !.data = hand[h].of, !.ver = session.ver + 1]
  /\ torn' = IF Stale(h) \/ hand[h].ses.of # hand[h].of
             THEN torn \union {hand[h].of, hand[h].ses.of, session.of} ELSE torn
  /\ Ends(h)
  /\ UNCHANGED <<started, updates, bound, runs, pressed, over>>

\* The last answer: the provider verifies the account, which takes its time.  Refused
\* or failed, the session is cleared; accepted, the drive is created ...
Refused(h) ==
  /\ hand[h].at = "text" /\ hand[h].ses.step = "last"
  /\ Cleared /\ Noted(h)
  /\ over' = over \union {hand[h].ses.of}
  /\ Ends(h)
  /\ UNCHANGED <<started, updates, bound, runs, pressed>>

CreateDrive(h) ==
  /\ hand[h].at = "text" /\ hand[h].ses.step = "last"
  /\ bound' = bound \union {[of |-> hand[h].ses.of, data |-> hand[h].ses.data,
                            wanted |-> hand[h].ses.of \notin over]}
  /\ Noted(h)
  /\ Goes(h, "clear")
  /\ UNCHANGED <<session, started, updates, runs, pressed, over>>

\* ... and then the session is cleared, as after a path was saved.
Finish(h) ==
  /\ hand[h].at = "clear"
  /\ Cleared /\ Noted(h)
  /\ Ends(h)
  /\ UNCHANGED <<started, updates, bound, runs, pressed, over>>

\* A path that is not valid is refused; a valid one is saved; a command leaves the
\* dialogue and is handled as if there had been none.
Path(h) ==
  /\ hand[h].at = "text" /\ hand[h].ses.step = "path"
  /\ \/ Ends(h) /\ UNCHANGED <<session, torn>>
     \/ Goes(h, "clear") /\ UNCHANGED <<session, torn>>
     \/ /\ Cleared /\ Noted(h)
        /\ hand' = [hand EXCEPT ![h] = [Free EXCEPT !.at = "text"]]
  /\ UNCHANGED <<started, updates, bound, runs, pressed, over>>

\* A text that no dialogue waits for, and that asks for nothing to be confirmed.
Pass(h) ==
  /\ hand[h].at = "text" /\ ~Binding(hand[h].ses) /\ hand[h].ses.step # "path"
  /\ Ends(h)
  /\ UNCHANGED <<session, started, updates, bound, runs, pressed, over, torn>>

-----------------------------------------------------------------------------
\* Buttons of a confirmation

\* Mutant: the nonce is not compared.
IsOfAny(s, f) == s.step = "ask"

\* A button is the session's when the session still waits for it and has its nonce.
IsOf(s, f) == s.step = "ask" /\ s.nonce = f

Press(h, f, answer) ==
  /\ Comes(h) /\ f <= started
  /\ hand' = [hand EXCEPT ![h] = IF IsOf(session, f)
                                 THEN [at |-> answer, of |-> f, ses |-> session] ELSE Free]
  /\ pressed' = IF answer = "confirm" THEN pressed \union {f} ELSE pressed
  /\ UNCHANGED <<session, started, bound, runs, over, torn>>

\* The session is cleared before the action is begun.
ClearFirst(h) == Cleared /\ Noted(h)

Confirm(h) ==
  /\ hand[h].at = "confirm"
  /\ ClearFirst(h)
  /\ Goes(h, "act")
  /\ UNCHANGED <<started, updates, bound, runs, pressed, over>>

Act(h) ==
  /\ hand[h].at = "act"
  /\ runs' = [runs EXCEPT ![hand[h].ses.nonce] = @ + 1]
  /\ Ends(h)
  /\ UNCHANGED <<session, started, updates, bound, pressed, over, torn>>

Decline(h) ==
  /\ hand[h].at = "decline"
  /\ Cleared /\ Noted(h)
  /\ over' = over \union {hand[h].ses.nonce}
  /\ Ends(h)
  /\ UNCHANGED <<started, updates, bound, runs, pressed>>

\* remote_folder_cancel, drive_unbind_all_execute, a ban by an administrator, a message
\* that cannot be sent after a drive was bound, and the end of the TTL: the session is
\* deleted without being read.
Drop ==
  /\ session.step # "none"
  /\ Cleared
  /\ over' = over \union {session.of}
  /\ UNCHANGED <<hand, started, updates, bound, runs, pressed, torn>>

DialogNext ==
  \/ Drop
  \/ \E h \in Handlers :
       \/ \E step \in {"first", "path", "ask"} : Begin(h, step)
       \/ Text(h) \/ Ask(h) \/ Cancel(h) \/ Answer(h) \/ Update(h) \/ Refused(h)
       \/ CreateDrive(h) \/ Finish(h) \/ Path(h) \/ Pass(h)
       \/ \E f \in Dialogues : \E answer \in {"confirm", "decline"} : Press(h, f, answer)
       \/ Confirm(h) \/ Act(h) \/ Decline(h)

DialogSpec == DialogInit /\ [][DialogNext]_dialogVars

-----------------------------------------------------------------------------
\* Properties

Sessions == [step : {"none", "first", "last", "ask", "path"}, of : 0..MaxStarts,
             data : 0..MaxStarts, nonce : 0..MaxStarts, ver : Nat]

Hands == [at : {"free", "text", "update", "clear", "confirm", "act", "decline"},
          of : 0..MaxStarts, ses : Sessions]

\* Every variable has its type.
DialogTypeOK ==
  /\ session \in Sessions /\ hand \in [Handlers -> Hands]
  /\ started \in 0..MaxStarts /\ updates \in 0..MaxUpdates
  /\ bound \subseteq [of : 0..MaxStarts, data : 0..MaxStarts, wanted : BOOLEAN]
  /\ runs \in [Dialogues -> Nat] /\ pressed \subseteq Dialogues
  /\ over \subseteq 0..MaxStarts /\ torn \subseteq 0..MaxStarts

\* An action that was to be confirmed is carried out once, after its own button was
\* pressed, and not after it was declined or replaced; unless two handlers of the user
\* had read the session before either cleared it.
ConfirmedOnce ==
  \A f \in Dialogues \ torn :
    runs[f] > 0 => runs[f] = 1 /\ f \in pressed /\ f \notin over

\* A drive is created with the data given in the dialogue of its own type, and for no
\* dialogue that was cancelled or replaced; unless a handler wrote a session that had changed since
\* it was read.
DriveIsWanted ==
  \A d \in bound : d.of \notin torn => d.data = d.of /\ d.wanted

\* What a user confirms is done once, and every drive that is made is still wanted.
DialogSafe == DialogTypeOK /\ ConfirmedOnce /\ DriveIsWanted

-----------------------------------------------------------------------------
(* That actions and drives are the user's is proved for any number of         *)
(* handlers, dialogues and updates.  A dialogue is of one sort for good,      *)
(* which no variable remembers: the invariant says that there are sorts that  *)
(* fit everything a handler may still write.  A write makes what the others   *)
(* have read stale, so that of a dialogue that is not torn one handler acts.  *)

Sorts == [Dialogues -> {"bind", "ask", "path"}]

\* A session, stored or read by a handler, is none or is of one of the n dialogues so far
\* and of its sort.
Fits(s, sort, n) ==
  \/ s.step = "none" /\ s.of = 0
  \/ /\ s.of \in 1..n
     /\ \/ s.step \in {"first", "last"} /\ sort[s.of] = "bind"
        \/ s.step = "path" /\ sort[s.of] = "path"
        \/ s.step = "ask" /\ sort[s.of] = "ask" /\ s.nonce = s.of

SessionOK(sort) ==
  /\ Fits(session, sort, started)
  /\ session.of \notin torn => session.of \notin over \/ session.of = 0
  /\ session.of \notin torn /\ session.step = "last" => session.data = session.of

\* What a handler has read is older than the session, or it is the session.
HandOK(h, sort) ==
  /\ Fits(hand[h].ses, sort, started)
  /\ hand[h].at # "free" => \/ hand[h].ses.ver < session.ver
                            \/ hand[h].ses = session
  /\ hand[h].at \in {"confirm", "act", "decline"} => hand[h].ses.step = "ask"
  /\ hand[h].at \in {"confirm", "act"} => hand[h].ses.of \in pressed
  /\ hand[h].at = "update" => hand[h].of \in 1..started /\ sort[hand[h].of] = "bind"

Acts(h, f) == hand[h].at = "act" /\ hand[h].ses.of = f

\* A handler that is to carry out an action is the only one, and the first.
ActOK(f) ==
  \A h \in Handlers : Acts(h, f) =>
    runs[f] = 0 /\ f \notin over /\ session.of # f /\ \A g \in Handlers : Acts(g, f) => g = h

RunOK(f, sort) ==
  runs[f] > 0 => /\ runs[f] = 1 /\ f \in pressed /\ f \notin over /\ session.of # f
                 /\ sort[f] = "ask" /\ f <= started

SortsOK(sort) ==
  /\ SessionOK(sort)
  /\ \A h \in Handlers : HandOK(h, sort)
  /\ \A f \in Dialogues \ torn : ActOK(f) /\ RunOK(f, sort)
  /\ over \subseteq 0..started
  /\ DriveIsWanted

IInv == DialogTypeOK /\ \E sort \in Sorts : SortsOK(sort)

-----------------------------------------------------------------------------
\* Lemmas about the helpers

LEMMA Typed ==
  ASSUME DialogTypeOK, NEW h \in Handlers
  PROVE  /\ Free \in Hands /\ NoSession(session.ver + 1) \in Sessions
         /\ NoSession(0) \in Sessions
         /\ hand[h] \in Hands /\ hand[h].ses \in Sessions /\ hand[h].of \in 0..MaxStarts
         /\ session.ver \in Nat /\ session.of \in 0..MaxStarts
         /\ hand[h].ses.of \in 0..MaxStarts /\ hand[h].ses.ver \in Nat
         /\ hand[h].ses.nonce \in 0..MaxStarts
  BY DialogAssumption DEF DialogTypeOK, Free, Hands, NoSession, Sessions

\* A new dialogue's session
LEMMA Started ==
  ASSUME DialogTypeOK, started < MaxStarts, NEW step \in {"first", "path", "ask"}
  PROVE  /\ New(step, started + 1) \in Sessions /\ started + 1 \in Dialogues
         /\ New(step, started + 1).step = step /\ New(step, started + 1).of = started + 1
         /\ New(step, started + 1).ver = session.ver + 1
         /\ step = "ask" => New(step, started + 1).nonce = started + 1
  BY DialogAssumption DEF DialogTypeOK, New, Sessions, Dialogues

LEMMA Cleaned ==
  ASSUME DialogTypeOK, Cleared
  PROVE  /\ session' \in Sessions /\ session'.step = "none" /\ session'.of = 0
         /\ session'.ver = session.ver + 1 /\ session'.ver > session.ver
  BY DialogAssumption DEF DialogTypeOK, Cleared, NoSession, Sessions

LEMMA HandSet ==
  ASSUME DialogTypeOK, NEW h \in Handlers, NEW x \in Hands, hand' = [hand EXCEPT ![h] = x]
  PROVE  /\ hand' \in [Handlers -> Hands] /\ hand'[h] = x
         /\ \A g \in Handlers \ {h} : hand'[g] = hand[g]
  BY DEF DialogTypeOK

LEMMA HandGoes ==
  ASSUME DialogTypeOK, NEW h \in Handlers, NEW at \in {"clear", "act"}, Goes(h, at)
  PROVE  /\ hand' \in [Handlers -> Hands]
         /\ hand'[h].at = at /\ hand'[h].ses = hand[h].ses /\ hand'[h].of = hand[h].of
         /\ \A g \in Handlers \ {h} : hand'[g] = hand[g]
<1> DEFINE x == [at |-> at, of |-> hand[h].of, ses |-> hand[h].ses]
<1>1. hand[h] \in Hands
  BY DEF DialogTypeOK
<1>2. x \in Hands /\ [hand[h] EXCEPT !.at = at] = x
  BY <1>1 DEF Hands
<1>3. hand' = [hand EXCEPT ![h] = x]
  BY <1>2 DEF Goes
<1> QED BY <1>2, <1>3, HandSet

LEMMA NotedTorn ==
  ASSUME DialogTypeOK, NEW h \in Handlers, Noted(h)
  PROVE  /\ torn' \subseteq 0..MaxStarts /\ torn \subseteq torn'
         /\ \/ session.ver = hand[h].ses.ver /\ torn' = torn
            \/ hand[h].ses.of \in torn' /\ session.of \in torn'
<1>1. session.of \in 0..MaxStarts /\ hand[h].ses.of \in 0..MaxStarts
  BY Typed
<1> QED BY <1>1 DEF Noted, Stale, DialogTypeOK

-----------------------------------------------------------------------------
\* Types

LEMMA TypeStep == ASSUME DialogTypeOK, [DialogNext]_dialogVars  PROVE DialogTypeOK'
<1>1. CASE UNCHANGED dialogVars
  BY <1>1 DEF dialogVars, DialogTypeOK
<1>2. CASE Drop
  <2>1. session' \in Sessions
    BY <1>2, Cleaned DEF Drop
  <2>2. over' \subseteq 0..MaxStarts
    BY <1>2 DEF Drop, DialogTypeOK, Sessions
  <2> QED BY <1>2, <2>1, <2>2 DEF Drop, DialogTypeOK
<1>3. ASSUME NEW h \in Handlers, NEW step \in {"first", "path", "ask"}, Begin(h, step)
      PROVE  DialogTypeOK'
  <2>1. session' \in Sessions /\ started' \in 0..MaxStarts /\ updates' \in 0..MaxUpdates
    BY <1>3, Started, DialogAssumption DEF Begin, Comes, DialogTypeOK, Dialogues
  <2>2. over' \subseteq 0..MaxStarts
    BY <1>3, Typed DEF Begin, DialogTypeOK
  <2> QED BY <1>3, <2>1, <2>2 DEF Begin, DialogTypeOK
<1>4. ASSUME NEW h \in Handlers, Text(h)  PROVE DialogTypeOK'
  <2> DEFINE x == [at |-> "text", of |-> session.of, ses |-> session]
  <2>1. x \in Hands /\ updates' \in 0..MaxUpdates
    BY <1>4, Typed, DialogAssumption DEF Text, Comes, DialogTypeOK, Hands
  <2>2. hand' = [hand EXCEPT ![h] = x]
    BY <1>4 DEF Text
  <2> HIDE DEF x
  <2>3. hand' \in [Handlers -> Hands]
    BY <2>1, <2>2, HandSet
  <2> QED BY <1>4, <2>1, <2>3 DEF Text, DialogTypeOK
<1>5. ASSUME NEW h \in Handlers, Ask(h)  PROVE DialogTypeOK'
  <2>1. session' \in Sessions /\ started' \in 0..MaxStarts
    BY <1>5, Started, DialogAssumption DEF Ask, DialogTypeOK, Dialogues
  <2>2. hand' \in [Handlers -> Hands]
    BY <1>5, Typed, HandSet DEF Ask, Ends
  <2>3. over' \subseteq 0..MaxStarts
    BY <1>5, Typed DEF Ask, DialogTypeOK
  <2> QED BY <1>5, <2>1, <2>2, <2>3 DEF Ask, DialogTypeOK
<1>6. ASSUME NEW h \in Handlers, Cancel(h) \/ Refused(h) \/ Decline(h) \/ Finish(h)
      PROVE  DialogTypeOK'
  <2>1. session' \in Sessions /\ hand' \in [Handlers -> Hands]
    BY <1>6, Cleaned, Typed, HandSet DEF Cancel, CancelClears, Refused, Decline, Finish, Ends
  <2>2. torn' \subseteq 0..MaxStarts
    BY <1>6, NotedTorn DEF Cancel, CancelClears, Refused, Decline, Finish
  <2>3. over' \subseteq 0..MaxStarts
    BY <1>6, Typed DEF Cancel, Refused, Decline, Finish, DialogTypeOK
  <2> QED BY <1>6, <2>1, <2>2, <2>3
          DEF Cancel, CancelClears, Refused, Decline, Finish, DialogTypeOK
<1>7. ASSUME NEW h \in Handlers, Answer(h)  PROVE DialogTypeOK'
  <2> DEFINE x == [at |-> "update", of |-> hand[h].ses.of, ses |-> session]
  <2>1. x \in Hands
    BY Typed DEF DialogTypeOK, Hands
  <2>2. \/ hand' = [hand EXCEPT ![h] = Free]
        \/ hand' = [hand EXCEPT ![h] = x]
    BY <1>7 DEF Answer, Ends
  <2> HIDE DEF x
  <2>3. hand' \in [Handlers -> Hands]
    BY <2>1, <2>2, Typed, HandSet
  <2> QED BY <1>7, <2>3 DEF Answer, DialogTypeOK
<1>8. ASSUME NEW h \in Handlers, Update(h)  PROVE DialogTypeOK'
  <2> DEFINE x == [step |-> "last", of |-> hand[h].of, data |-> hand[h].of,
                   nonce |-> hand[h].ses.nonce, ver |-> session.ver + 1]
  <2>1. hand[h].ses \in Sessions /\ hand[h].of \in 0..MaxStarts /\ session.ver \in Nat
    BY Typed
  <2>2. session' = x
    BY <1>8, <2>1 DEF Update, Sessions
  <2>3. session' \in Sessions
    BY <2>1, <2>2 DEF Sessions
  <2>4. torn' \subseteq 0..MaxStarts
    BY <1>8, Typed DEF Update, DialogTypeOK
  <2>5. hand' \in [Handlers -> Hands]
    BY <1>8, Typed, HandSet DEF Update, Ends
  <2> QED BY <1>8, <2>3, <2>4, <2>5 DEF Update, DialogTypeOK
<1>9. ASSUME NEW h \in Handlers, CreateDrive(h)  PROVE DialogTypeOK'
  <2>1. hand' \in [Handlers -> Hands] /\ torn' \subseteq 0..MaxStarts
    BY <1>9, HandGoes, NotedTorn DEF CreateDrive
  <2>2. bound' \subseteq [of : 0..MaxStarts, data : 0..MaxStarts, wanted : BOOLEAN]
    <3>1. hand[h].ses.of \in 0..MaxStarts /\ hand[h].ses.data \in 0..MaxStarts
      BY Typed DEF Sessions
    <3> DEFINE d == [of |-> hand[h].ses.of, data |-> hand[h].ses.data,
                     wanted |-> hand[h].ses.of \notin over]
    <3>2. d \in [of : 0..MaxStarts, data : 0..MaxStarts, wanted : BOOLEAN]
      <4>1. (hand[h].ses.of \notin over) \in BOOLEAN
        OBVIOUS
      <4> QED BY <3>1, <4>1
    <3>3. bound' = bound \union {d}
      BY <1>9 DEF CreateDrive
    <3> QED BY <3>2, <3>3 DEF DialogTypeOK
  <2> QED BY <1>9, <2>1, <2>2 DEF CreateDrive, DialogTypeOK
<1>10. ASSUME NEW h \in Handlers, Path(h)  PROVE DialogTypeOK'
  <2> DEFINE x == [at |-> "text", of |-> 0, ses |-> NoSession(0)]
  <2>1. x \in Hands /\ [Free EXCEPT !.at = "text"] = x
    BY Typed DEF Free, Hands
  <2> HIDE DEF x
  <2>2. hand' \in [Handlers -> Hands]
    BY <1>10, <2>1, Typed, HandSet, HandGoes DEF Path, Ends
  <2>3. session' \in Sessions /\ torn' \subseteq 0..MaxStarts
    BY <1>10, Cleaned, NotedTorn DEF Path, DialogTypeOK
  <2> QED BY <1>10, <2>2, <2>3 DEF Path, DialogTypeOK
<1>11. ASSUME NEW h \in Handlers, Pass(h)  PROVE DialogTypeOK'
  <2>1. hand' \in [Handlers -> Hands]
    BY <1>11, Typed, HandSet DEF Pass, Ends
  <2> QED BY <1>11, <2>1 DEF Pass, DialogTypeOK
<1>12. ASSUME NEW h \in Handlers, NEW f \in Dialogues, NEW answer \in {"confirm", "decline"},
              Press(h, f, answer)
       PROVE  DialogTypeOK'
  <2> DEFINE x == [at |-> answer, of |-> f, ses |-> session]
  <2>1. x \in Hands
    BY DialogAssumption DEF DialogTypeOK, Hands, Dialogues
  <2>2. \/ hand' = [hand EXCEPT ![h] = Free]
        \/ hand' = [hand EXCEPT ![h] = x]
    BY <1>12 DEF Press
  <2> HIDE DEF x
  <2>3. hand' \in [Handlers -> Hands]
    BY <2>1, <2>2, Typed, HandSet
  <2>4. updates' \in 0..MaxUpdates
    BY <1>12, DialogAssumption DEF Press, Comes, DialogTypeOK
  <2> QED BY <1>12, <2>3, <2>4 DEF Press, DialogTypeOK
<1>13. ASSUME NEW h \in Handlers, Confirm(h)  PROVE DialogTypeOK'
  <2>1. session' \in Sessions /\ torn' \subseteq 0..MaxStarts /\ hand' \in [Handlers -> Hands]
    BY <1>13, Cleaned, NotedTorn, HandGoes DEF Confirm, ClearFirst
  <2> QED BY <1>13, <2>1 DEF Confirm, DialogTypeOK
<1>14. ASSUME NEW h \in Handlers, Act(h)  PROVE DialogTypeOK'
  <2>1. hand' \in [Handlers -> Hands]
    BY <1>14, Typed, HandSet DEF Act, Ends
  <2>2. \A f \in Dialogues : runs[f] \in Nat /\ runs[f] + 1 \in Nat
    BY DEF DialogTypeOK
  <2>3. runs' \in [Dialogues -> Nat]
    BY <1>14, <2>2 DEF Act, DialogTypeOK
  <2> QED BY <1>14, <2>1, <2>3 DEF Act, DialogTypeOK
<1> QED BY <1>1, <1>2, <1>3, <1>4, <1>5, <1>6, <1>7, <1>8, <1>9, <1>10, <1>11, <1>12, <1>13,
           <1>14 DEF DialogNext

-----------------------------------------------------------------------------
\* Sorts

LEMMA InitIInv == DialogInit => IInv
<1> SUFFICES ASSUME DialogInit  PROVE IInv
  OBVIOUS
<1>1. NoSession(0) \in Sessions /\ Free \in Hands
  BY DialogAssumption DEF NoSession, Sessions, Free, Hands
<1>2. DialogTypeOK
  BY <1>1, DialogAssumption DEF DialogInit, DialogTypeOK, Dialogues
<1> DEFINE sort == [f \in Dialogues |-> "ask"]
<1>3. sort \in Sorts
  BY DEF Sorts
<1>4. SortsOK(sort)
  <2>1. SessionOK(sort) /\ \A h \in Handlers : HandOK(h, sort)
    BY DEF DialogInit, SessionOK, HandOK, Fits, Free, NoSession
  <2>2. \A f \in Dialogues : ActOK(f) /\ RunOK(f, sort)
    BY DEF DialogInit, ActOK, Acts, RunOK, Free
  <2> QED BY <2>1, <2>2 DEF SortsOK, DialogInit, DriveIsWanted
<1> QED BY <1>2, <1>3, <1>4 DEF IInv

\* Of a dialogue that is not torn the sort is known when a handler acts for it.
LEMMA ActsSort ==
  ASSUME NEW sort \in Sorts, SortsOK(sort), NEW h \in Handlers, NEW f \in Dialogues, Acts(h, f)
  PROVE  sort[f] = "ask" /\ f \in 1..started /\ f \in pressed
  BY DEF SortsOK, HandOK, Acts, Fits

\* What a handler relies on stays while it waits.
LEMMA HandKeeps ==
  ASSUME DialogTypeOK, DialogTypeOK', NEW sort \in Sorts, NEW sort2 \in Sorts, SortsOK(sort),
         started <= started', pressed \subseteq pressed',
         \A f \in 1..started : sort2[f] = sort[f],
         session' = session \/ session'.ver > session.ver,
         NEW h \in Handlers, hand'[h] = hand[h] \/ HandOK(h, sort2)'
  PROVE  HandOK(h, sort2)'
<1>1. CASE hand'[h] = hand[h]
  <2>1. HandOK(h, sort)
    BY DEF SortsOK
  <2>2. started \in Nat /\ started' \in Nat /\ session.ver \in Nat /\ session'.ver \in Nat
        /\ hand[h].ses.ver \in Nat
    BY Typed, DialogAssumption DEF DialogTypeOK, Sessions
  <2>3. Fits(hand[h].ses, sort2, started')
    BY <2>1, <2>2 DEF HandOK, Fits
  <2>4. hand[h].at # "free" => hand[h].ses.ver < session'.ver \/ hand[h].ses = session'
    BY <2>1, <2>2 DEF HandOK
  <2>5. hand[h].at = "update" => hand[h].of \in 1..started' /\ sort2[hand[h].of] = "bind"
    BY <2>1, <2>2 DEF HandOK
  <2> QED BY <1>1, <2>1, <2>3, <2>4, <2>5 DEF HandOK
<1> QED BY <1>1

\* A step by which no action is carried out or becomes due keeps what a handler relies
\* on, when it calls over and tears no more than it has to and brings no dialogue back.
LEMMA Keep ==
  ASSUME DialogTypeOK, DialogTypeOK', NEW sort \in Sorts, NEW sort2 \in Sorts, SortsOK(sort),
         started <= started', pressed \subseteq pressed', torn \subseteq torn', runs' = runs,
         \A f \in 1..started : sort2[f] = sort[f],
         session' = session \/ session'.ver > session.ver,
         \A h \in Handlers :
           hand'[h] = hand[h] \/ (HandOK(h, sort2)' /\ hand'[h].at # "act"),
         over' \subseteq 0..started',
         \A f \in over' \ torn' : f \in over \/ session.of = f,
         \/ session'.of \in {0, session.of} \/ session'.of > started
         \/ sort[session'.of] # "ask",
         SessionOK(sort2)', DriveIsWanted'
  PROVE  SortsOK(sort2)'
<1>1. ASSUME NEW h \in Handlers  PROVE HandOK(h, sort2)'
  BY HandKeeps
<1>2. ASSUME NEW f \in Dialogues \ torn', sort[f] = "ask", f \in 1..started,
             f \notin over, session.of # f
      PROVE  f \notin over' /\ session'.of # f
  <2>1. f # 0 /\ ~(f > started)
    BY <1>2, DialogAssumption DEF DialogTypeOK
  <2> QED BY <1>2, <2>1
<1>3. ASSUME NEW f \in Dialogues \ torn'  PROVE ActOK(f)'
  <2>1. \A h \in Handlers : Acts(h, f)' => Acts(h, f)
    BY DEF Acts
  <2>2. ActOK(f)
    BY <1>3 DEF SortsOK
  <2> QED BY <1>2, <1>3, <2>1, <2>2, ActsSort DEF ActOK
<1>4. ASSUME NEW f \in Dialogues \ torn'  PROVE RunOK(f, sort2)'
  <2>1. RunOK(f, sort)
    BY <1>4 DEF SortsOK
  <2>2. SUFFICES ASSUME runs[f] > 0  PROVE RunOK(f, sort2)'
    BY DEF RunOK
  <2>3. f \in 1..started /\ sort[f] = "ask" /\ f \notin over /\ session.of # f /\ f <= started'
    BY <2>1, <2>2 DEF RunOK, Dialogues, DialogTypeOK
  <2>4. f \notin over' /\ session'.of # f
    BY <1>2, <1>4, <2>3
  <2> QED BY <2>1, <2>2, <2>3, <2>4 DEF RunOK
<1> QED BY <1>1, <1>3, <1>4 DEF SortsOK

\* A handler that is done
LEMMA DoneOK ==
  ASSUME NEW h \in Handlers, DialogTypeOK, Ends(h), NEW sort
  PROVE  /\ HandOK(h, sort)' /\ hand'[h].at # "act"
         /\ \A g \in Handlers \ {h} : hand'[g] = hand[g]
<1>1. hand'[h] = Free /\ \A g \in Handlers \ {h} : hand'[g] = hand[g]
  BY Typed, HandSet DEF Ends
<1> QED BY <1>1 DEF HandOK, Fits, Free, NoSession

\* A handler only reads.
LEMMA Reads ==
  ASSUME DialogTypeOK, DialogTypeOK', NEW sort \in Sorts, SortsOK(sort), NEW h \in Handlers,
         UNCHANGED <<session, started, bound, runs, over, torn>>, pressed \subseteq pressed',
         HandOK(h, sort)', hand'[h].at # "act",
         \A g \in Handlers \ {h} : hand'[g] = hand[g]
  PROVE  SortsOK(sort)'
<1>1. SessionOK(sort)' /\ DriveIsWanted'
  BY DEF SortsOK, SessionOK, DriveIsWanted
<1>2. over' \subseteq 0..started' /\ started <= started'
  BY DEF SortsOK, DialogTypeOK
<1> QED BY <1>1, <1>2, Keep

\* A handler clears the session and calls over the dialogue it has read.
LEMMA Clears ==
  ASSUME DialogTypeOK, DialogTypeOK', NEW sort \in Sorts, SortsOK(sort), NEW h \in Handlers,
         Cleared, Noted(h), hand[h].at # "free",
         UNCHANGED <<started, bound, runs, pressed>>,
         over' = over \/ over' = over \union {hand[h].ses.of},
         HandOK(h, sort)', hand'[h].at # "act",
         \A g \in Handlers \ {h} : hand'[g] = hand[g]
  PROVE  SortsOK(sort)'
<1>1. session'.step = "none" /\ session'.of = 0 /\ session'.ver > session.ver
  BY Cleaned
<1>2. HandOK(h, sort)
  BY DEF SortsOK
<1>3. torn \subseteq torn' /\ (hand[h].ses = session \/ hand[h].ses.of \in torn')
  <2>1. session.ver \in Nat
    BY Typed
  <2> QED BY <1>2, <2>1, NotedTorn DEF HandOK
<1>4. SessionOK(sort)' /\ DriveIsWanted'
  BY <1>1, <1>3 DEF SortsOK, SessionOK, Fits, DriveIsWanted
<1>5. over' \subseteq 0..started'
  BY <1>2 DEF SortsOK, HandOK, Fits, DialogTypeOK
<1>6. \A f \in over' \ torn' : f \in over \/ session.of = f
  BY <1>3
<1>7. started <= started'
  BY DEF DialogTypeOK
<1> QED BY <1>1, <1>3, <1>4, <1>5, <1>6, <1>7, Keep

\* A dialogue is started, of its own sort.
LEMMA Starts ==
  ASSUME DialogTypeOK, DialogTypeOK', NEW sort \in Sorts, SortsOK(sort), started < MaxStarts,
         NEW step \in {"first", "path", "ask"},
         started' = started + 1, session' = New(step, started + 1),
         over' = over \union {session.of},
         UNCHANGED <<bound, runs, pressed, torn>>,
         \A g \in Handlers :
           hand'[g] = hand[g] \/ (hand'[g] = Free)
  PROVE  IInv'
<1> DEFINE k == IF step = "first" THEN "bind" ELSE step
<1>1. k \in {"bind", "path", "ask"}
  OBVIOUS
<1>2. /\ started + 1 \in Dialogues /\ session'.of = started + 1 /\ session'.step = step
      /\ session'.ver = session.ver + 1 /\ (step = "ask" => session'.nonce = started + 1)
  BY Started
<1>3. started \in Nat /\ session.ver \in Nat
  BY DialogAssumption DEF DialogTypeOK, Sessions
<1>4. PICK sort2 \in Sorts : /\ \A f \in 1..started : sort2[f] = sort[f]
                            /\ sort2[started + 1] = k
  <2> DEFINE new == [sort EXCEPT ![started + 1] = k]
  <2>1. new \in Sorts
    BY <1>1, <1>2 DEF Sorts
  <2>2. (\A f \in 1..started : new[f] = sort[f]) /\ new[started + 1] = k
    BY <1>2, <1>3 DEF Sorts
  <2> QED BY <2>1, <2>2
<1>5. \A g \in Handlers :
        hand'[g] = hand[g] \/ (HandOK(g, sort2)' /\ hand'[g].at # "act")
  BY DEF HandOK, Fits, Free, NoSession
<1>6. over \subseteq 0..started /\ session.of \in 0..started
  BY <1>3 DEF SortsOK, SessionOK, Fits
<1>7. Fits(session', sort2, started')
  BY <1>2, <1>3, <1>4 DEF Fits
<1>8. SessionOK(sort2)'
  <2>1. started + 1 \notin 0..started
    BY <1>3
  <2>2. started + 1 \notin over'
    BY <1>6, <2>1
  <2> QED BY <1>2, <1>7, <2>2 DEF SessionOK
<1>9. over' \subseteq 0..started' /\ started <= started'
  <2>1. started <= started + 1 /\ 0..started \subseteq 0..(started + 1)
    BY <1>3
  <2> QED BY <1>6, <2>1
<1>10. DriveIsWanted'
  BY DEF SortsOK, DriveIsWanted
<1>11. session'.ver > session.ver /\ session'.of > started
  BY <1>2, <1>3
<1>12. SortsOK(sort2)'
  <2>1. pressed \subseteq pressed' /\ torn \subseteq torn' /\ runs' = runs
    OBVIOUS
  <2>2. \A f \in over' \ torn' : f \in over \/ session.of = f
    OBVIOUS
  <2> QED BY <1>4, <1>5, <1>8, <1>9, <1>10, <1>11, <2>1, <2>2, Keep
<1> QED BY <1>4, <1>12 DEF IInv

-----------------------------------------------------------------------------
\* The steps

LEMMA StartsStep ==
  ASSUME DialogTypeOK, DialogTypeOK', NEW sort \in Sorts, SortsOK(sort), NEW h \in Handlers,
         Ask(h) \/ \E step \in {"first", "path", "ask"} : Begin(h, step)
  PROVE  IInv'
<1>1. \A g \in Handlers : hand'[g] = hand[g] \/ hand'[g] = Free
  BY HandSet, Typed DEF Ask, Begin, Ends
<1>2. PICK step \in {"first", "path", "ask"} :
        /\ started < MaxStarts /\ started' = started + 1
        /\ session' = New(step, started + 1) /\ over' = over \union {session.of}
        /\ UNCHANGED <<bound, runs, pressed, torn>>
  BY DEF Ask, Begin
<1> QED BY <1>1, <1>2, Starts

LEMMA ReadsStep ==
  ASSUME DialogTypeOK, DialogTypeOK', NEW sort \in Sorts, SortsOK(sort), NEW h \in Handlers,
         Text(h) \/ Answer(h) \/ Pass(h)
         \/ \E f \in Dialogues, answer \in {"confirm", "decline"} : Press(h, f, answer)
  PROVE  SortsOK(sort)'
<1>1. /\ UNCHANGED <<session, started, bound, runs, over, torn>> /\ pressed \subseteq pressed'
  BY DEF Text, Answer, Pass, Press
<1>2. SessionOK(sort) /\ HandOK(h, sort)
  BY DEF SortsOK
<1>3. CASE Ends(h)
  BY <1>1, <1>3, DoneOK, Reads
<1>4. CASE Text(h)
  <2> DEFINE x == [at |-> "text", of |-> session.of, ses |-> session]
  <2>1. x \in Hands
    BY Typed DEF DialogTypeOK, Hands
  <2>2. hand'[h] = x /\ \A g \in Handlers \ {h} : hand'[g] = hand[g]
    BY <1>4, <2>1, HandSet DEF Text
  <2>3. HandOK(h, sort)' /\ hand'[h].at # "act"
    BY <1>1, <1>2, <2>2 DEF HandOK, SessionOK
  <2> QED BY <1>1, <2>2, <2>3, Reads
<1>5. CASE Answer(h) /\ ~Ends(h) /\ session.step # "none"
  <2> DEFINE x == [at |-> "update", of |-> hand[h].ses.of, ses |-> session]
  <2>1. x \in Hands
    BY Typed DEF DialogTypeOK, Hands
  <2>2. hand'[h] = x /\ \A g \in Handlers \ {h} : hand'[g] = hand[g]
    BY <1>5, <2>1, HandSet DEF Answer
  <2>3. hand[h].ses.of \in 1..started /\ sort[hand[h].ses.of] = "bind"
    BY <1>2, <1>5 DEF Answer, HandOK, Fits
  <2>4. HandOK(h, sort)' /\ hand'[h].at # "act"
    BY <1>1, <1>2, <2>2, <2>3 DEF HandOK, SessionOK
  <2> QED BY <1>1, <2>2, <2>4, Reads
<1>6. ASSUME NEW f \in Dialogues, NEW answer \in {"confirm", "decline"}, Press(h, f, answer),
             IsOf(session, f)
      PROVE  SortsOK(sort)'
  <2> DEFINE x == [at |-> answer, of |-> f, ses |-> session]
  <2>1. x \in Hands
    BY DialogAssumption DEF DialogTypeOK, Hands, Dialogues
  <2>2. hand'[h] = x /\ \A g \in Handlers \ {h} : hand'[g] = hand[g]
    BY <1>6, <2>1, HandSet DEF Press
  <2>3. session.step = "ask" /\ session.of = f
    BY <1>2, <1>6 DEF IsOf, SessionOK, Fits
  <2>4. answer = "confirm" => f \in pressed'
    BY <1>6 DEF Press
  <2>5. HandOK(h, sort)' /\ hand'[h].at # "act"
    BY <1>1, <1>2, <2>2, <2>3, <2>4 DEF HandOK, SessionOK
  <2> QED BY <1>1, <2>2, <2>5, Reads
<1> QED BY <1>3, <1>4, <1>5, <1>6 DEF Answer, Pass, Press, Ends

LEMMA ClearsStep ==
  ASSUME DialogTypeOK, DialogTypeOK', NEW sort \in Sorts, SortsOK(sort), NEW h \in Handlers,
         Cancel(h) \/ Refused(h) \/ Finish(h) \/ Decline(h)
  PROVE  SortsOK(sort)'
<1>1. /\ Cleared /\ Noted(h) /\ hand[h].at # "free" /\ Ends(h)
      /\ UNCHANGED <<started, bound, runs, pressed>>
  BY DEF Cancel, CancelClears, Refused, Finish, Decline
<1>2. HandOK(h, sort)
  BY DEF SortsOK
<1>3. over' = over \/ over' = over \union {hand[h].ses.of}
  BY <1>2 DEF Cancel, Refused, Finish, Decline, HandOK, Fits
<1> QED BY <1>1, <1>3, DoneOK, Clears

LEMMA PathStep ==
  ASSUME DialogTypeOK, DialogTypeOK', NEW sort \in Sorts, SortsOK(sort), NEW h \in Handlers, Path(h)
  PROVE  SortsOK(sort)'
<1>1. hand[h].at = "text" /\ UNCHANGED <<started, bound, runs, pressed, over>> /\ HandOK(h, sort)
  BY DEF Path, SortsOK
<1>2. CASE Ends(h) /\ UNCHANGED <<session, torn>>
  BY <1>1, <1>2, DoneOK, Reads
<1>3. CASE Goes(h, "clear") /\ UNCHANGED <<session, torn>>
  <2>1. /\ hand'[h].at = "clear" /\ hand'[h].ses = hand[h].ses
        /\ \A g \in Handlers \ {h} : hand'[g] = hand[g]
    BY <1>3, HandGoes
  <2>2. HandOK(h, sort)'
    BY <1>1, <1>3, <2>1 DEF HandOK
  <2> QED BY <1>1, <1>3, <2>1, <2>2, Reads
<1>4. CASE Cleared /\ Noted(h) /\ hand' = [hand EXCEPT ![h] = [Free EXCEPT !.at = "text"]]
  <2> DEFINE x == [at |-> "text", of |-> 0, ses |-> NoSession(0)]
  <2>1. x \in Hands /\ [Free EXCEPT !.at = "text"] = x
    BY Typed DEF Free, Hands
  <2>2. hand'[h] = x /\ \A g \in Handlers \ {h} : hand'[g] = hand[g]
    BY <1>4, <2>1, HandSet
  <2>3. session'.ver = session.ver + 1 /\ session.ver \in Nat
    BY <1>4, Cleaned, Typed
  <2>4. HandOK(h, sort)' /\ hand'[h].at # "act"
    BY <2>2, <2>3 DEF HandOK, Fits, NoSession
  <2> QED BY <1>1, <1>4, <2>2, <2>4, Clears
<1> QED BY <1>2, <1>3, <1>4 DEF Path

\* The merged session is of the handler's dialogue, and with its data.
LEMMA UpdateStep ==
  ASSUME DialogTypeOK, DialogTypeOK', NEW sort \in Sorts, SortsOK(sort), NEW h \in Handlers,
         Update(h)
  PROVE  SortsOK(sort)'
<1>1. hand[h].at = "update" /\ HandOK(h, sort) /\ SessionOK(sort) /\ DriveIsWanted
  BY DEF Update, SortsOK
<1>2. hand[h].of \in 1..started /\ sort[hand[h].of] = "bind"
  BY <1>1 DEF HandOK
<1>3. /\ session'.step = "last" /\ session'.of = hand[h].of /\ session'.data = hand[h].of
      /\ session'.ver = session.ver + 1
  BY Typed DEF Update, Sessions
<1>4. torn \subseteq torn'
  BY DEF Update
<1>5. session.ver \in Nat /\ hand[h].ses.ver \in Nat
  BY Typed
<1>6. hand[h].of \notin torn' => hand[h].of \notin over
  <2>1. SUFFICES ASSUME hand[h].of \notin torn'  PROVE hand[h].of \notin over
    OBVIOUS
  <2>2. session.ver = hand[h].ses.ver /\ hand[h].ses.of = hand[h].of /\ torn' = torn
    BY <2>1 DEF Update, Stale
  <2>3. session.of = hand[h].of
    BY <1>1, <1>5, <2>2 DEF HandOK
  <2> QED BY <1>1, <1>2, <2>1, <2>2, <2>3 DEF SessionOK
<1>7. SessionOK(sort)'
  BY <1>2, <1>3, <1>6 DEF Update, SessionOK, Fits
<1>8. DriveIsWanted'
  BY <1>1, <1>4 DEF Update, DriveIsWanted
<1>9. \A g \in Handlers : hand'[g] = hand[g] \/ (HandOK(g, sort)' /\ hand'[g].at # "act")
  BY DoneOK DEF Update
<1>10. over' \subseteq 0..started' /\ started <= started' /\ over' = over
  BY DEF Update, SortsOK, DialogTypeOK
<1>11. session'.ver > session.ver /\ sort[session'.of] # "ask"
  BY <1>2, <1>3, <1>5
<1> QED BY <1>4, <1>7, <1>8, <1>9, <1>10, <1>11, Keep DEF Update

LEMMA CreateStep ==
  ASSUME DialogTypeOK, DialogTypeOK', NEW sort \in Sorts, SortsOK(sort), NEW h \in Handlers,
         CreateDrive(h)
  PROVE  SortsOK(sort)'
<1> DEFINE d == [of |-> hand[h].ses.of, data |-> hand[h].ses.data,
                 wanted |-> hand[h].ses.of \notin over]
<1>1. /\ hand[h].at = "text" /\ hand[h].ses.step = "last" /\ HandOK(h, sort) /\ SessionOK(sort)
      /\ DriveIsWanted /\ bound' = bound \union {d} /\ Noted(h)
      /\ UNCHANGED <<session, started, updates, runs, pressed, over>>
  BY DEF CreateDrive, SortsOK
<1>2. session.ver \in Nat /\ hand[h].ses.ver \in Nat
  BY Typed
<1>3. torn \subseteq torn' /\ (hand[h].ses.of \notin torn' => hand[h].ses = session)
  BY <1>1, <1>2, NotedTorn DEF HandOK
<1>4. d.of \notin torn' => d.data = d.of /\ d.wanted
  <2>1. SUFFICES ASSUME d.of \notin torn'  PROVE d.data = d.of /\ d.wanted
    OBVIOUS
  <2>2. hand[h].ses = session /\ session.of \notin torn
    BY <1>3, <2>1
  <2>3. session.data = session.of /\ session.of \notin over
    BY <1>1, <2>2 DEF SessionOK, Fits
  <2>4. hand[h].ses.of \notin over
    BY <2>2, <2>3
  <2>5. d.wanted
    BY <2>4, Zenon
  <2> QED BY <2>2, <2>3, <2>5
<1> HIDE DEF d
<1>5. DriveIsWanted'
  BY <1>1, <1>3, <1>4 DEF DriveIsWanted
<1>6. SessionOK(sort)'
  BY <1>1, <1>3 DEF SessionOK
<1>7. /\ hand'[h].at = "clear" /\ hand'[h].ses = hand[h].ses
      /\ \A g \in Handlers \ {h} : hand'[g] = hand[g]
  BY HandGoes DEF CreateDrive
<1>8. HandOK(h, sort)'
  BY <1>1, <1>7 DEF HandOK
<1>9. over' \subseteq 0..started' /\ started <= started'
  BY <1>1 DEF SortsOK, DialogTypeOK
<1> QED BY <1>1, <1>3, <1>5, <1>6, <1>7, <1>8, <1>9, Keep

\* Of a dialogue that is not torn, the session that is cleared is the one that was read:
\* no other handler acts, and none has.
LEMMA ConfirmStep ==
  ASSUME DialogTypeOK, DialogTypeOK', NEW sort \in Sorts, SortsOK(sort), NEW h \in Handlers,
         Confirm(h)
  PROVE  SortsOK(sort)'
<1>1. /\ hand[h].at = "confirm" /\ HandOK(h, sort) /\ SessionOK(sort) /\ DriveIsWanted
      /\ Cleared /\ Noted(h) /\ UNCHANGED <<started, updates, bound, runs, pressed, over>>
  BY DEF Confirm, ClearFirst, SortsOK
<1>2. /\ session'.step = "none" /\ session'.of = 0 /\ session'.ver = session.ver + 1
      /\ session.ver \in Nat /\ hand[h].ses.ver \in Nat
  BY <1>1, Cleaned, Typed
<1>3. /\ hand'[h].at = "act" /\ hand'[h].ses = hand[h].ses
      /\ \A g \in Handlers \ {h} : hand'[g] = hand[g]
  BY HandGoes DEF Confirm
<1>4. torn \subseteq torn' /\ (hand[h].ses.of \notin torn' => hand[h].ses = session)
  BY <1>1, <1>2, NotedTorn DEF HandOK
<1>5. SessionOK(sort)' /\ DriveIsWanted' /\ over' \subseteq 0..started'
  BY <1>1, <1>2, <1>4 DEF SessionOK, Fits, DriveIsWanted, SortsOK
<1>6. hand[h].ses.ver < session'.ver
  BY <1>1, <1>2 DEF HandOK
<1>7. HandOK(h, sort)'
  BY <1>1, <1>3, <1>6 DEF HandOK
<1>8. ASSUME NEW g \in Handlers  PROVE HandOK(g, sort)'
  <2>1. session'.ver > session.ver /\ started <= started' /\ pressed \subseteq pressed'
    BY <1>1, <1>2 DEF DialogTypeOK
  <2> QED BY <1>3, <1>7, <2>1, HandKeeps
<1>9. ASSUME NEW f \in Dialogues \ torn'  PROVE ActOK(f)'
  <2>1. ActOK(f) /\ RunOK(f, sort) /\ f # 0
    BY <1>4, <1>9 DEF SortsOK, Dialogues
  <2>2. CASE f = hand[h].ses.of
    <3>1. session.of = f /\ f \notin over
      BY <1>1, <1>4, <1>9, <2>1, <2>2 DEF SessionOK
    <3>2. runs[f] = 0
      BY <2>1, <3>1 DEF RunOK, DialogTypeOK
    <3>3. \A g \in Handlers : ~Acts(g, f)
      BY <2>1, <3>1 DEF ActOK
    <3>4. \A g \in Handlers : Acts(g, f)' => g = h
      BY <1>3, <3>3 DEF Acts
    <3> QED BY <1>1, <1>2, <2>1, <3>1, <3>2, <3>4 DEF ActOK
  <2>3. CASE f # hand[h].ses.of
    <3>1. \A g \in Handlers : Acts(g, f)' => Acts(g, f)
      BY <1>3, <2>3 DEF Acts
    <3> QED BY <1>1, <1>2, <2>1, <3>1 DEF ActOK
  <2> QED BY <2>2, <2>3
<1>10. ASSUME NEW f \in Dialogues \ torn'  PROVE RunOK(f, sort)'
  <2>1. RunOK(f, sort) /\ f # 0
    BY <1>4, <1>10 DEF SortsOK, Dialogues
  <2> QED BY <1>1, <1>2, <2>1 DEF RunOK
<1> QED BY <1>5, <1>8, <1>9, <1>10 DEF SortsOK

LEMMA ActStep ==
  ASSUME DialogTypeOK, DialogTypeOK', NEW sort \in Sorts, SortsOK(sort), NEW h \in Handlers, Act(h)
  PROVE  SortsOK(sort)'
<1> DEFINE n == hand[h].ses.of
<1>1. /\ hand[h].at = "act" /\ HandOK(h, sort)
      /\ UNCHANGED <<session, started, updates, bound, pressed, over, torn>>
  BY DEF Act, SortsOK
<1>2. hand[h].ses.nonce = n /\ n \in 1..started /\ Acts(h, n)
  BY <1>1 DEF HandOK, Fits, Acts
<1>3. n \in Dialogues /\ started \in Nat
  BY <1>2, DialogAssumption DEF DialogTypeOK, Dialogues
<1>4. runs' = [runs EXCEPT ![n] = runs[n] + 1]
  BY <1>2 DEF Act
<1>5. hand'[h] = Free /\ \A g \in Handlers \ {h} : hand'[g] = hand[g]
  BY Typed, HandSet DEF Act, Ends
<1>6. SessionOK(sort)' /\ DriveIsWanted' /\ over' \subseteq 0..started'
  BY <1>1 DEF SessionOK, DriveIsWanted, SortsOK
<1>7. ASSUME NEW g \in Handlers  PROVE HandOK(g, sort)'
  <2>1. hand'[g] = hand[g] \/ HandOK(g, sort)'
    BY <1>5, DoneOK DEF Act
  <2>2. started <= started' /\ pressed \subseteq pressed' /\ session' = session
    BY <1>1, <1>3
  <2> QED BY <2>1, <2>2, HandKeeps
<1>8. \A g \in Handlers, f \in Dialogues : Acts(g, f)' => g # h /\ Acts(g, f)
  BY <1>5 DEF Acts, Free
<1>9. ASSUME NEW f \in Dialogues \ torn'  PROVE ActOK(f)' /\ RunOK(f, sort)'
  <2>1. ActOK(f) /\ RunOK(f, sort)
    BY <1>1, <1>9 DEF SortsOK
  <2>2. CASE f = n
    <3>1. runs[f] = 0 /\ f \notin over /\ session.of # f /\ \A g \in Handlers : ~Acts(g, f)'
      BY <1>2, <1>8, <2>1, <2>2 DEF ActOK
    <3>2. runs'[f] = 1
      BY <1>3, <1>4, <2>2, <3>1 DEF DialogTypeOK
    <3>3. sort[f] = "ask" /\ f \in pressed
      BY <1>2, <1>3, <2>2, ActsSort
    <3>4. f <= started
      BY <1>2, <2>2
    <3> QED BY <1>1, <3>1, <3>2, <3>3, <3>4 DEF ActOK, RunOK
  <2>3. CASE f # n
    <3>1. runs'[f] = runs[f]
      BY <1>4, <2>3 DEF DialogTypeOK
    <3> QED BY <1>1, <1>8, <2>1, <3>1 DEF ActOK, RunOK
  <2> QED BY <2>2, <2>3
<1> QED BY <1>6, <1>7, <1>9 DEF SortsOK

LEMMA DropStep ==
  ASSUME DialogTypeOK, DialogTypeOK', NEW sort \in Sorts, SortsOK(sort), Drop  PROVE SortsOK(sort)'
<1>1. session'.step = "none" /\ session'.of = 0 /\ session'.ver > session.ver
  BY Cleaned DEF Drop
<1>2. SessionOK(sort)' /\ DriveIsWanted'
  BY <1>1 DEF Drop, SortsOK, SessionOK, Fits, DriveIsWanted
<1>3. over' \subseteq 0..started' /\ started <= started'
  BY DEF Drop, SortsOK, SessionOK, Fits, DialogTypeOK
<1> QED BY <1>1, <1>2, <1>3, Keep DEF Drop

LEMMA NextIInv == IInv /\ [DialogNext]_dialogVars => IInv'
<1> SUFFICES ASSUME IInv, [DialogNext]_dialogVars  PROVE IInv'
  OBVIOUS
<1>1. DialogTypeOK /\ DialogTypeOK'
  BY TypeStep DEF IInv
<1>2. PICK sort \in Sorts : SortsOK(sort)
  BY DEF IInv
<1>3. CASE UNCHANGED dialogVars
  BY <1>3 DEF dialogVars, IInv, DialogTypeOK, SortsOK, SessionOK, HandOK, ActOK, Acts, RunOK,
     DriveIsWanted
<1>4. CASE Drop
  BY <1>1, <1>2, <1>4, DropStep DEF IInv
<1>5. ASSUME NEW h \in Handlers,
             Ask(h) \/ \E step \in {"first", "path", "ask"} : Begin(h, step)
      PROVE  IInv'
  BY <1>1, <1>2, <1>5, StartsStep
<1>6. ASSUME NEW h \in Handlers,
             \/ Text(h) \/ Answer(h) \/ Pass(h) \/ Cancel(h) \/ Refused(h) \/ Finish(h)
             \/ Decline(h) \/ Path(h) \/ Update(h) \/ CreateDrive(h) \/ Confirm(h) \/ Act(h)
             \/ \E f \in Dialogues, answer \in {"confirm", "decline"} : Press(h, f, answer)
      PROVE  IInv'
  <2>1. SortsOK(sort)'
    BY <1>1, <1>2, <1>6, ReadsStep, ClearsStep, PathStep, UpdateStep, CreateStep, ConfirmStep,
       ActStep
  <2> QED BY <1>1, <2>1 DEF IInv
<1> QED BY <1>3, <1>4, <1>5, <1>6 DEF DialogNext

\* Whatever updates of a user are handled side by side, an action is carried out once
\* and only as it was confirmed, and a drive is made only as it was wanted, of every
\* dialogue whose session no two handlers wrote unseen.
THEOREM DialogIsSafe == DialogSpec => []DialogSafe
<1>1. IInv => DialogSafe
  BY DEF IInv, DialogSafe, SortsOK, ConfirmedOnce, RunOK
<1> QED BY InitIInv, NextIInv, <1>1, PTL DEF DialogSpec

=============================================================================
