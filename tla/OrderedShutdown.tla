---------------------------- MODULE OrderedShutdown ----------------------------
(* EnhancedGracefulShutdown: hooks with priorities that depend on each other, *)
(* sorted at every registration, and run one after the other with a time-out  *)
(* each and one for all, to end the process or to reload.                     *)
EXTENDS Naturals, FiniteSets, Sequences, SequencesExt

CONSTANTS
  Hooks,
  Needs,         \* hook |-> those it depends on, a sequence
  Priorities,    \* hook |-> priority
  MaxSignals

VARIABLES
  hooks,         \* shutdownHooks, in their order
  phase,         \* idle, or the mode of the shutdown under way, or exited
  place,         \* hooks that were begun in this shutdown
  waits,         \* the hook whose end is awaited
  running,       \* hooks whose function has not ended
  stuck,         \* isShuttingDown was left set
  heart,         \* the heartbeat that forces the exit is on
  signals

orderedVars == <<hooks, phase, place, waits, running, stuck, heart, signals>>

NoHook == "none"

-----------------------------------------------------------------------------
\* _sortHooksByPriorityAndDeps

NeedsOf(h, listed) == SelectSeq(Needs[h], LAMBDA d : d \in ToSet(listed))

RECURSIVE Visit(_, _, _)
Visit(h, listed, sorted) ==
  IF h \in ToSet(sorted) THEN sorted
  ELSE Append(FoldLeft(LAMBDA done, d : Visit(d, listed, done), sorted, NeedsOf(h, listed)), h)

\* The groups of equal priority from the lowest up, each in the order of the list.
ByPriority(listed) ==
  LET group(p) == SelectSeq(listed, LAMBDA h : Priorities[h] = p)
      ordered == SetToSortSeq({Priorities[h] : h \in ToSet(listed)}, <)
  IN FlattenSeq([i \in DOMAIN ordered |-> group(ordered[i])])

Sorted(listed) ==
  FoldLeft(LAMBDA done, h : Visit(h, listed, done), <<>>, ByPriority(listed))

-----------------------------------------------------------------------------

OrderedInit ==
  /\ hooks = <<>> /\ phase = "idle" /\ place = 0 /\ waits = NoHook /\ running = {}
  /\ stuck = FALSE /\ heart = FALSE /\ signals = 0

\* A hook that is registered during a shutdown is not run by it; that is left out.
Register(h) ==
  /\ phase = "idle" /\ h \notin ToSet(hooks)
  /\ hooks' = Sorted(Append(hooks, h))
  /\ UNCHANGED <<phase, place, waits, running, stuck, heart, signals>>

\* shutdown, which is ignored while one is under way
Begins(mode) ==
  IF phase = "idle" /\ ~stuck THEN phase' = mode /\ place' = 0 ELSE UNCHANGED <<phase, place>>

\* SIGTERM, SIGINT or a fatal error: the heartbeat is begun also when it is ignored.
Terminate ==
  /\ phase # "exited" /\ signals < MaxSignals /\ signals' = signals + 1
  /\ heart' = TRUE
  /\ Begins("exit")
  /\ UNCHANGED <<hooks, waits, running, stuck>>

\* SIGUSR2
Reload ==
  /\ phase # "exited" /\ signals < MaxSignals /\ signals' = signals + 1
  /\ Begins("reload")
  /\ UNCHANGED <<hooks, waits, running, stuck, heart>>

\* The loop of a shutdown that has failed begins no other hook.
BeginHook ==
  /\ phase \in {"exit", "reload"} /\ waits = NoHook /\ place < Len(hooks)
  /\ place' = place + 1
  /\ waits' = hooks[place + 1] /\ running' = running \union {hooks[place + 1]}
  /\ UNCHANGED <<hooks, phase, stuck, heart, signals>>

\* The function of a hook ends, well or with an error, awaited or not.
EndHook(h) ==
  /\ phase # "exited" /\ h \in running /\ running' = running \ {h}
  /\ waits' = IF waits = h THEN NoHook ELSE waits
  /\ UNCHANGED <<hooks, phase, place, stuck, heart, signals>>

\* After 5 seconds a hook is not waited for any longer.
GiveUpHook ==
  /\ phase # "exited" /\ waits # NoHook
  /\ waits' = NoHook
  /\ UNCHANGED <<hooks, phase, place, running, stuck, heart, signals>>

AllTried == place = Len(hooks) /\ waits = NoHook

\* The process ends, or goes on as if nothing had been asked of it.
Complete ==
  /\ phase \in {"exit", "reload"} /\ AllTried
  /\ phase' = IF phase = "exit" THEN "exited" ELSE "idle"
  /\ heart' = FALSE
  /\ UNCHANGED <<hooks, place, waits, running, stuck, signals>>

\* The 30 seconds for all are over: the process ends, except that of a reload, which keeps
\* isShuttingDown.
TimeOut ==
  /\ phase \in {"exit", "reload"}
  /\ heart' = FALSE
  /\ phase' = IF phase = "exit" THEN "exited" ELSE "idle"
  /\ stuck' = (phase = "reload")
  /\ UNCHANGED <<hooks, place, waits, running, signals>>

\* The heartbeat finds that the shutdown, whichever it is, has begun 30 seconds ago.
ForceExit ==
  /\ heart /\ phase # "exited" /\ (phase # "idle" \/ stuck)
  /\ phase' = "exited" /\ heart' = FALSE
  /\ UNCHANGED <<hooks, place, waits, running, stuck, signals>>

OrderedNext ==
  \/ \E h \in Hooks : Register(h) \/ EndHook(h)
  \/ Terminate \/ Reload \/ BeginHook \/ GiveUpHook \/ Complete \/ TimeOut \/ ForceExit

\* The loop goes on, and its time-out of a hook comes; no hook needs to end.
OrderedFairness == WF_orderedVars(BeginHook \/ GiveUpHook \/ Complete)

OrderedSpec == OrderedInit /\ [][OrderedNext]_orderedVars /\ OrderedFairness

-----------------------------------------------------------------------------
\* Properties

\* Every variable has its type.
OrderedTypeOK ==
  /\ ToSet(hooks) \subseteq Hooks /\ Len(hooks) = Cardinality(ToSet(hooks))
  /\ phase \in {"idle", "exit", "reload", "exited"} /\ place \in 0..Len(hooks)
  /\ waits \in Hooks \union {NoHook} /\ running \subseteq Hooks
  /\ stuck \in BOOLEAN /\ heart \in BOOLEAN /\ signals \in 0..MaxSignals

\* Whatever the order in which the hooks were registered and whatever their priorities, each
\* stands behind those that it depends on.
DependenciesFirst ==
  \A i, j \in DOMAIN hooks : hooks[j] \in ToSet(Needs[hooks[i]]) => j < i

\* A hook that never ends cannot hold the process.
ExitIsReached == phase = "exit" ~> phase = "exited"

\* Hooks stand behind what they depend on, and none of them can hold the process.
OrderedHolds == [](OrderedTypeOK /\ DependenciesFirst) /\ ExitIsReached

=============================================================================
