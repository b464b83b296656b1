------------------------------ MODULE MCLifecycle ------------------------------
(* The life of a process, from its configuration to its exit, and the list   *)
(* of the running instances with their timers.  A behaviour is of one of     *)
(* them.                                                                     *)
EXTENDS Shutdown

CONSTANTS Instances, Tunnelled, Ttl, Many, MaxStarts, MaxFails, MaxUrls

VARIABLES part, life, timers, interval, due, beat, row, leads, tunnel, orphan,
          starts, fails, urls

IR == INSTANCE InstanceRegistry

irVars  == <<life, timers, interval, due, beat, row, leads, tunnel, orphan,
             starts, fails, urls>>
allVars == <<part, shutdownVars, irVars>>

LifecycleInit ==
  /\ part \in {"process", "list"}
  /\ ShutdownInit /\ IR!RegistryInit

InProcess(A) == part = "process"  /\ A /\ UNCHANGED <<part, irVars>>
InList(A)    == part = "list"     /\ A /\ UNCHANGED <<part, shutdownVars>>

LifecycleNext ==
  \/ InProcess(ShutdownNext) \/ InList(IR!RegistryNext)

\* What each of them assumes, when the behaviour is of it.
LifecycleFairness ==
  /\ WF_allVars(InProcess(AnswerWebhook))
  /\ WF_allVars(InProcess(Progress))
  /\ WF_allVars(InList(IR!Beats))
  /\ \A i \in Instances : WF_allVars(InList(IR!Watch(i)))

LifecycleSpec == LifecycleInit /\ [][LifecycleNext]_allVars /\ LifecycleFairness

RegistryHolds == IR!RegistryHolds

=============================================================================
