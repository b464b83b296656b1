----------------------------- MODULE CacheTiers -----------------------------
(***************************************************************************)
(* One key of CacheService (src/services/CacheService.js) on several       *)
(* nodes: a first-level copy in each process (LocalCache), the shared      *)
(* provider, and a file copy in each process (CACHE_L3_ENABLED).  get,     *)
(* set, delete, compareAndSet and deleteIfEquals are calls of several      *)
(* steps with an await between them; a provider that fails often enough    *)
(* puts its node in failover mode, until a recovery check succeeds.        *)
(*                                                                         *)
(* The value is the number of the write that made it.  A provider is       *)
(* connected (memory-only mode is not modelled) and has the atomic         *)
(* operations.                                                             *)
(***************************************************************************)
EXTENDS Integers

CONSTANTS
  Nodes,
  NoNode,        \* not a node
  Calls,         \* calls that can be under way at the same time
  FailureLimit,  \* maxFailuresBeforeFailover
  MaxWrites,     \* bound on the writes         (model checking only)
  MaxTroubles    \* bound on provider errors    (model checking only)

ASSUME CacheAssumption == MaxWrites \in Nat /\ MaxTroubles \in Nat

VARIABLES
  l1, l2, l3,    \* the copy of each node, the provider's value, the file of each node
  failures,      \* failureCount
  failover,      \* isFailoverMode
  call,          \* the calls
  writes,        \* writes so far; the last one's number
  gone,          \* history: the number of the last removal
  wrote,         \* history: the last write of a node that was acknowledged
  excused,       \* history: nodes that may read something older
  troubles

cacheVars == <<l1, l2, l3, failures, failover, call, writes, gone, wrote, excused, troubles>>

-----------------------------------------------------------------------------
Nothing == 0

Value == 0..MaxWrites

Idle == [at |-> "idle", node |-> NoNode, kind |-> "get", value |-> Nothing,
         read |-> Nothing, alone |-> TRUE, floor |-> 0]

Kinds == {"get", "set", "delete", "compareAndSet", "deleteIfEquals"}

CallStates ==
  [at : {"idle", "shared", "file", "promote", "fill"}, node : Nodes \cup {NoNode},
   kind : Kinds, value : Value, read : Value, alone : BOOLEAN, floor : Value]

\* A call that is about to ask the provider.
Begun(n, kind, value, read, alone, floor) ==
  [at |-> "shared", node |-> n, kind |-> kind, value |-> value,
   read |-> read, alone |-> alone, floor |-> floor]

CacheTypeOK ==
  /\ l1 \in [Nodes -> Value] /\ l2 \in Value /\ l3 \in [Nodes -> Value]
  /\ failures \in [Nodes -> 0..MaxTroubles] /\ failover \in [Nodes -> BOOLEAN]
  /\ call \in [Calls -> CallStates]
  /\ writes \in Value /\ gone \in Value /\ wrote \in [Nodes -> Value]
  /\ excused \subseteq Nodes /\ troubles \in 0..MaxTroubles

CacheInit ==
  /\ l1 = [n \in Nodes |-> Nothing] /\ l2 = Nothing /\ l3 = [n \in Nodes |-> Nothing]
  /\ failures = [n \in Nodes |-> 0] /\ failover = [n \in Nodes |-> FALSE]
  /\ call = [c \in Calls |-> Idle]
  /\ writes = 0 /\ gone = 0 /\ wrote = [n \in Nodes |-> 0]
  /\ excused = {} /\ troubles = 0

\* Which write a value shows: what is missing shows the last removal.
Age(value) == IF value = Nothing THEN gone ELSE value

Writes(c) == call[c].at # "idle" /\ call[c].kind # "get"

Copy(n, value) == l1' = [l1 EXCEPT ![n] = value]

\* The call returns to its caller.
Answer(c) == call' = [call EXCEPT ![c] = Idle]

\* A write that was alone under way is acknowledged: its node knows of it.
Acknowledge(c) ==
  wrote' = IF call[c].alone THEN [wrote EXCEPT ![call[c].node] = call[c].value] ELSE wrote

-----------------------------------------------------------------------------
\* get: a first-level hit returns at once, with nothing to change.
StartGet(c, n) ==
  /\ call[c].at = "idle" /\ l1[n] = Nothing
  /\ call' = [call EXCEPT ![c] = Begun(n, "get", Nothing, Nothing, TRUE, wrote[n])]
  /\ UNCHANGED <<l1, l2, l3, failures, failover, writes, gone, wrote, excused, troubles>>

\* Every write gets the next number, and is alone until another one overlaps it.
Numbered(c, n, kind, expected) ==
  /\ call[c].at = "idle" /\ writes < MaxWrites
  /\ writes' = writes + 1
  /\ call' = [d \in Calls |->
       IF d = c
       THEN Begun(n, kind, writes + 1, expected, ~ \E e \in Calls : Writes(e), 0)
       ELSE IF Writes(d) THEN [call[d] EXCEPT !.alone = FALSE] ELSE call[d]]

\* Mutant of CopyFirst: the copy is left to the next get.
NoCopyFirst(n, value) == UNCHANGED l1

\* set writes the own copy first
CopyFirst(n, value) == Copy(n, value)

StartSet(c, n) ==
  /\ Numbered(c, n, "set", Nothing)
  /\ CopyFirst(n, writes + 1)
  /\ UNCHANGED <<l2, l3, failures, failover, gone, wrote, excused, troubles>>

StartDelete(c, n) ==
  /\ Numbered(c, n, "delete", Nothing)
  /\ Copy(n, Nothing)
  /\ gone' = writes + 1
  /\ UNCHANGED <<l2, l3, failures, failover, wrote, excused, troubles>>

\* A caller expects what it has read, from the copy or from the provider.
StartCompareAndSet(c, n) ==
  /\ \E expected \in {l1[n], l2} : Numbered(c, n, "compareAndSet", expected)
  /\ UNCHANGED <<l1, l2, l3, failures, failover, gone, wrote, excused, troubles>>

StartDeleteIfEquals(c, n) ==
  /\ \E expected \in {l1[n], l2} \ {Nothing} : Numbered(c, n, "deleteIfEquals", expected)
  /\ Copy(n, Nothing)
  /\ UNCHANGED <<l2, l3, failures, failover, gone, wrote, excused, troubles>>

-----------------------------------------------------------------------------
At(c, kind, label) == call[c].at = label /\ call[c].kind = kind

Moves(c, label) == call' = [call EXCEPT ![c].at = label]

\* get: the provider's answer; a miss goes on to the file.
GetShared(c) ==
  /\ At(c, "get", "shared")
  /\ call' = [call EXCEPT ![c].read = l2,
                          ![c].at = IF l2 = Nothing THEN "file" ELSE "fill"]
  /\ UNCHANGED <<l1, l2, l3, failures, failover, writes, gone, wrote, excused, troubles>>

GetFile(c) ==
  /\ At(c, "get", "file")
  /\ LET found == l3[call[c].node] IN
     IF found = Nothing THEN Answer(c)
     ELSE call' = [call EXCEPT ![c].at = "promote", ![c].read = found]
  /\ UNCHANGED <<l1, l2, l3, failures, failover, writes, gone, wrote, excused, troubles>>

\* A file copy is written to the provider, over what others have put there meanwhile;
\* an old one undoes their writes and removals.
GetPromote(c) ==
  /\ At(c, "get", "promote")
  /\ l2' = call[c].read
  /\ excused' = IF call[c].read < writes THEN Nodes ELSE excused
  /\ Moves(c, "fill")
  /\ UNCHANGED <<l1, l3, failures, failover, writes, gone, wrote, troubles>>

\* The copy is filled after an await: with an old value when the node has written since.
GetFill(c) ==
  LET n == call[c].node IN
  /\ At(c, "get", "fill")
  /\ Copy(n, call[c].read)
  /\ excused' = IF \/ Age(call[c].read) < wrote[n]
                   \/ \E d \in Calls : Writes(d) /\ call[d].node = n
                THEN excused \cup {n} ELSE excused
  /\ Answer(c)
  /\ UNCHANGED <<l2, l3, failures, failover, writes, gone, wrote, troubles>>

\* In failover mode set returns true with the copy alone written, ...
SetInFailover(c) ==
  LET n == call[c].node IN
  /\ At(c, "set", "shared") /\ failover[n]
  /\ Acknowledge(c)
  /\ excused' = excused \cup {n}
  /\ Answer(c)
  /\ UNCHANGED <<l1, l2, l3, failures, failover, writes, gone, troubles>>

\* ... else it writes the provider and then, as far as that works, the file.
SetShared(c) ==
  /\ At(c, "set", "shared") /\ ~failover[call[c].node]
  /\ l2' = call[c].value
  /\ Moves(c, "file")
  /\ UNCHANGED <<l1, l3, failures, failover, writes, gone, wrote, excused, troubles>>

SetFile(c) ==
  /\ At(c, "set", "file")
  /\ \E kept \in {call[c].value, l3[call[c].node]} : l3' = [l3 EXCEPT ![call[c].node] = kept]
  /\ Acknowledge(c)
  /\ Answer(c)
  /\ UNCHANGED <<l1, l2, failures, failover, writes, gone, excused, troubles>>

DeleteShared(c) ==
  /\ At(c, "delete", "shared")
  /\ l2' = Nothing
  /\ Moves(c, "file")
  /\ UNCHANGED <<l1, l3, failures, failover, writes, gone, wrote, excused, troubles>>

DeleteFile(c) ==
  /\ At(c, "delete", "file")
  /\ \E kept \in {Nothing, l3[call[c].node]} : l3' = [l3 EXCEPT ![call[c].node] = kept]
  /\ Acknowledge(c)
  /\ Answer(c)
  /\ UNCHANGED <<l1, l2, failures, failover, writes, gone, excused, troubles>>

DropsCopy(n) == Copy(n, Nothing)

\* compareAndSet and deleteIfEquals are decided by the provider, in failover mode
\* too.  One that is refused leaves the copy, which may be why it was refused.
CompareAndSet(c) ==
  LET n == call[c].node IN
  /\ At(c, "compareAndSet", "shared")
  /\ IF l2 = call[c].read
     THEN /\ l2' = call[c].value
          /\ DropsCopy(n)
          /\ Acknowledge(c)
     ELSE UNCHANGED <<l1, l2, wrote>>
  /\ Answer(c)
  /\ UNCHANGED <<l3, failures, failover, writes, gone, excused, troubles>>

DeleteIfEquals(c) ==
  /\ At(c, "deleteIfEquals", "shared")
  /\ Copy(call[c].node, Nothing)
  /\ IF l2 = call[c].read
     THEN l2' = Nothing /\ gone' = call[c].value /\ Acknowledge(c)
     ELSE UNCHANGED <<l2, gone, wrote>>
  /\ Answer(c)
  /\ UNCHANGED <<l3, failures, failover, writes, excused, troubles>>

\* The provider fails, maybe after it did what it was asked for.  get then returns
\* null, the others false.  Enough failures, however far apart, start failover mode.
ProviderFails(c) ==
  LET n == call[c].node IN
  /\ call[c].at \in {"shared", "promote"} /\ troubles < MaxTroubles
  /\ call[c].kind = "set" => ~failover[n]
  /\ troubles' = troubles + 1
  /\ failures' = [failures EXCEPT ![n] = @ + 1]
  /\ failover' = [failover EXCEPT ![n] = @ \/ failures[n] + 1 >= FailureLimit]
  /\ \/ UNCHANGED <<l2, gone>>
     \/ call[c].kind = "set" /\ l2' = call[c].value /\ UNCHANGED gone
     \/ call[c].kind = "compareAndSet" /\ l2 = call[c].read /\ l2' = call[c].value
        /\ UNCHANGED gone
     \/ call[c].kind = "deleteIfEquals" /\ l2 = call[c].read /\ l2' = Nothing
        /\ gone' = call[c].value
     \/ call[c].kind = "delete" /\ l2' = Nothing /\ UNCHANGED gone
  /\ Answer(c)
  /\ UNCHANGED <<l1, l3, writes, wrote, excused>>

-----------------------------------------------------------------------------
\* _startRecoveryCheck: the provider answers; the copies stay as they are.
Recover(n) ==
  /\ failover[n]
  /\ failover' = [failover EXCEPT ![n] = FALSE]
  /\ failures' = [failures EXCEPT ![n] = 0]
  /\ UNCHANGED <<l1, l2, l3, call, writes, gone, wrote, excused, troubles>>

\* The TTLs.  What the provider lets expire counts as a removal.
CopyExpires(n) ==
  /\ l1[n] # Nothing
  /\ Copy(n, Nothing)
  /\ UNCHANGED <<l2, l3, failures, failover, call, writes, gone, wrote, excused, troubles>>

SharedExpires ==
  /\ l2 # Nothing
  /\ l2' = Nothing
  /\ gone' = writes
  /\ UNCHANGED <<l1, l3, failures, failover, call, writes, wrote, excused, troubles>>

FileExpires(n) ==
  /\ l3[n] # Nothing
  /\ l3' = [l3 EXCEPT ![n] = Nothing]
  /\ UNCHANGED <<l1, l2, failures, failover, call, writes, gone, wrote, excused, troubles>>

CacheNext ==
  \/ \E c \in Calls :
       \/ \E n \in Nodes :
            \/ StartGet(c, n) \/ StartSet(c, n) \/ StartDelete(c, n)
            \/ StartCompareAndSet(c, n) \/ StartDeleteIfEquals(c, n)
       \/ GetShared(c) \/ GetFile(c) \/ GetPromote(c) \/ GetFill(c)
       \/ SetInFailover(c) \/ SetShared(c) \/ SetFile(c)
       \/ DeleteShared(c) \/ DeleteFile(c)
       \/ CompareAndSet(c) \/ DeleteIfEquals(c)
       \/ ProviderFails(c)
  \/ \E n \in Nodes : Recover(n) \/ CopyExpires(n) \/ FileExpires(n)
  \/ SharedExpires

CacheSpec == CacheInit /\ [][CacheNext]_cacheVars

-----------------------------------------------------------------------------
\* A node reads its own acknowledged writes, or something later, through the three
\* tiers, whatever the other nodes do: unless the write was made in failover mode, a
\* slow get filled the copy with what it had read before, or a node promoted an old
\* file copy to the provider.
ReadYourWrites ==
  [][\A n \in Nodes \ excused' :
       /\ l1[n] # Nothing => l1[n] >= wrote[n]
       /\ \A c \in Calls :
            (call[c].kind = "get" /\ call[c].node = n /\ troubles' = troubles
             /\ call[c].at # "idle" /\ call'[c].at = "idle")
              => Age(call[c].read) >= call[c].floor]_cacheVars

\* A node reads its own writes from well-typed tiers.
CacheHolds == []CacheTypeOK /\ ReadYourWrites

=============================================================================
