---------------------------- MODULE RecordsProofs ----------------------------
(* Theorems about what is kept in the shared cache: a key of CacheService     *)
(* (CacheTiers), a lock with a heartbeat (DistributedLock), and the views     *)
(* that instances have of each other's data (SyncViews); and about the login  *)
(* that a drive's row keeps: its session (DriveSession) and its password      *)
(* (RcloneUpload); and about what callers wait for: the queue of batches      *)
(* (Batch) and the circuit breaker (CircuitBreaker).                          *)
EXTENDS CacheTiers, DistributedLock, SyncViews, DriveSession, RcloneUpload, Batch,
        CircuitBreaker, SequenceTheorems, FiniteSetTheorems, TLAPS

-----------------------------------------------------------------------------
(* That a node reads its own writes is proved for any nodes and calls.  A     *)
(* write is acknowledged only when no other overlapped it, so that one under  *)
(* way is newer than all that were; from this it follows what the tiers and   *)
(* what a call has read cannot be older than.                                 *)

\* A get: its floor was acknowledged, and what it has read is as new.
ReadOK(c) ==
  LET n == call[c].node IN
  /\ call[c].floor <= wrote[n]
  /\ call[c].at = "file" => call[c].read = Nothing /\ (n \notin excused => gone >= call[c].floor)
  /\ call[c].at \in {"promote", "fill"} => call[c].read # Nothing
  /\ call[c].at = "fill" /\ n \notin excused => call[c].read >= call[c].floor

\* While a write is alone nothing else is written; it has dropped its own copy or put
\* its value there, and past the provider that has its value.
AloneOK(c) ==
  LET n == call[c].node IN
  /\ call[c].value = writes
  /\ \A d \in Calls : Writes(d) => d = c
  /\ n \notin excused =>
       /\ call[c].kind = "set" => l1[n] \in {Nothing, call[c].value}
       /\ call[c].kind = "delete" => l1[n] = Nothing
       /\ call[c].at = "file" => Age(l2) >= call[c].value
  /\ call[c].kind = "delete" => gone >= call[c].value

WriteOK(c) ==
  /\ call[c].value \in 1..writes
  /\ \A n \in Nodes : wrote[n] < call[c].value
  /\ call[c].kind = "delete" => \A n \in Nodes : gone >= wrote[n]
  /\ call[c].alone => AloneOK(c)

CallOK(c) ==
  call[c].at # "idle" =>
    /\ call[c].node \in Nodes
    /\ IF call[c].kind = "get" THEN ReadOK(c) ELSE WriteOK(c)

NodeOK(n) ==
  /\ failures[n] <= troubles /\ wrote[n] <= writes
  /\ n \notin excused => /\ l1[n] # Nothing => l1[n] >= wrote[n]
                         /\ Age(l2) >= wrote[n]

CacheInv == CacheTypeOK /\ (\A c \in Calls : CallOK(c)) /\ (\A n \in Nodes : NodeOK(n))

LEMMA InitCacheInv == CacheInit => CacheInv
BY CacheAssumption DEF CacheInit, CacheInv, CacheTypeOK, CallStates, Value, Nothing, Idle, Kinds,
   CallOK, NodeOK, Age

LEMMA NumberedTyped ==
  ASSUME CacheTypeOK, NEW c \in Calls, NEW n \in Nodes, NEW kind \in Kinds, NEW expected \in Value,
         Numbered(c, n, kind, expected)
  PROVE  call' \in [Calls -> CallStates] /\ writes' = writes + 1 /\ writes + 1 \in Value
<1> USE CacheAssumption DEF CacheTypeOK, Value
<1>1. writes' = writes + 1 /\ writes < MaxWrites /\ writes \in 0..MaxWrites
  BY DEF Numbered
<1>4. writes + 1 \in 0..MaxWrites
  BY <1>1
<1>2. ASSUME NEW alone \in BOOLEAN
      PROVE  Begun(n, kind, writes + 1, expected, alone, 0) \in CallStates
  BY <1>4 DEF Begun, CallStates
<1>3. \A d \in Calls : call[d] \in CallStates /\ [call[d] EXCEPT !.alone = FALSE] \in CallStates
  BY DEF CallStates
<1> QED BY <1>1, <1>2, <1>3, <1>4 DEF Numbered

LEMMA TypeStep == CacheInv /\ [CacheNext]_cacheVars => CacheTypeOK'
<1> SUFFICES ASSUME CacheInv, [CacheNext]_cacheVars  PROVE CacheTypeOK'
  OBVIOUS
<1> USE CacheAssumption DEF CacheTypeOK, CallStates, Value, Nothing, Kinds
<1>1. CacheTypeOK /\ (\A c \in Calls : CallOK(c)) /\ (\A n \in Nodes : NodeOK(n))
  BY DEF CacheInv
<1>2. ASSUME NEW c \in Calls, NEW n \in Nodes,
             StartGet(c, n) \/ StartSet(c, n) \/ StartDelete(c, n)
               \/ StartCompareAndSet(c, n) \/ StartDeleteIfEquals(c, n)
      PROVE  CacheTypeOK'
  <2>1. CASE StartGet(c, n)
    <3>1. Begun(n, "get", 0, 0, TRUE, wrote[n]) \in CallStates
      BY <1>1 DEF Begun
    <3>2. call' \in [Calls -> CallStates]
      BY <1>1, <2>1, <3>1 DEF StartGet
    <3> QED BY <1>1, <2>1, <3>2 DEF StartGet
  <2>2. CASE StartSet(c, n)
    <3>1. Numbered(c, n, "set", 0)
      BY <2>2 DEF StartSet
    <3>2. call' \in [Calls -> CallStates] /\ writes' = writes + 1 /\ writes + 1 \in Value
      BY <1>1, <3>1, NumberedTyped
    <3> QED BY <1>1, <2>2, <3>2 DEF StartSet, CopyFirst, Copy
  <2>3. CASE StartDelete(c, n)
    <3>1. Numbered(c, n, "delete", 0)
      BY <2>3 DEF StartDelete
    <3>2. call' \in [Calls -> CallStates] /\ writes' = writes + 1 /\ writes + 1 \in Value
      BY <1>1, <3>1, NumberedTyped
    <3> QED BY <1>1, <2>3, <3>2 DEF StartDelete, Copy
  <2>4. CASE StartCompareAndSet(c, n)
    <3>1. PICK expected \in {l1[n], l2} : Numbered(c, n, "compareAndSet", expected)
      BY <2>4 DEF StartCompareAndSet
    <3>2. call' \in [Calls -> CallStates] /\ writes' = writes + 1 /\ writes + 1 \in Value
      BY <1>1, <3>1, NumberedTyped
    <3> QED BY <1>1, <2>4, <3>2 DEF StartCompareAndSet
  <2>5. CASE StartDeleteIfEquals(c, n)
    <3>1. PICK expected \in {l1[n], l2} \ {0} : Numbered(c, n, "deleteIfEquals", expected)
      BY <2>5 DEF StartDeleteIfEquals
    <3>2. call' \in [Calls -> CallStates] /\ writes' = writes + 1 /\ writes + 1 \in Value
      BY <1>1, <3>1, NumberedTyped
    <3> QED BY <1>1, <2>5, <3>2 DEF StartDeleteIfEquals, Copy
  <2> QED BY <1>2, <2>1, <2>2, <2>3, <2>4, <2>5
<1>3. ASSUME NEW c \in Calls,
             \/ GetShared(c) \/ GetFile(c) \/ GetPromote(c) \/ GetFill(c)
             \/ SetInFailover(c) \/ SetShared(c) \/ SetFile(c)
             \/ DeleteShared(c) \/ DeleteFile(c)
             \/ CompareAndSet(c) \/ DeleteIfEquals(c) \/ ProviderFails(c)
      PROVE  CacheTypeOK'
  <2>0. Idle \in CallStates
    BY DEF Idle
  <2> USE DEF At, Moves, Answer, Acknowledge, Copy, DropsCopy
  <2>1. CASE GetShared(c)
    BY <1>1, <2>1 DEF GetShared
  <2>2. CASE GetFile(c)
    BY <1>1, <2>0, <2>2 DEF GetFile, CallOK
  <2>3. CASE GetPromote(c)
    BY <1>1, <2>3 DEF GetPromote
  <2>4. CASE GetFill(c)
    BY <1>1, <2>0, <2>4 DEF GetFill, CallOK
  <2>5. CASE SetInFailover(c)
    BY <1>1, <2>0, <2>5 DEF SetInFailover, CallOK
  <2>6. CASE SetShared(c)
    BY <1>1, <2>6 DEF SetShared
  <2>7. CASE SetFile(c)
    BY <1>1, <2>0, <2>7 DEF SetFile, CallOK
  <2>8. CASE DeleteShared(c)
    BY SMTT(30), <1>1, <2>8 DEF DeleteShared
  <2>9. CASE DeleteFile(c)
    BY <1>1, <2>0, <2>9 DEF DeleteFile, CallOK
  <2>10. CASE CompareAndSet(c)
    BY <1>1, <2>0, <2>10 DEF CompareAndSet, CallOK
  <2>11. CASE DeleteIfEquals(c)
    BY <1>1, <2>0, <2>11 DEF DeleteIfEquals, CallOK
  <2>12. CASE ProviderFails(c)
    <3>1. call[c].node \in Nodes /\ failures[call[c].node] + 1 \in 0..MaxTroubles
      BY <1>1, <2>12 DEF ProviderFails, CallOK, NodeOK
    <3>2. call' \in [Calls -> CallStates]
      BY <1>1, <2>0, <2>12 DEF ProviderFails
    <3>3. failures' \in [Nodes -> 0..MaxTroubles] /\ failover' \in [Nodes -> BOOLEAN]
      BY <1>1, <2>12, <3>1 DEF ProviderFails
    <3> QED BY <1>1, <2>12, <3>2, <3>3 DEF ProviderFails
  <2> QED BY <1>3, <2>1, <2>2, <2>3, <2>4, <2>5, <2>6, <2>7, <2>8, <2>9, <2>10, <2>11, <2>12
<1>4. ASSUME NEW n \in Nodes, Recover(n) \/ CopyExpires(n) \/ FileExpires(n)
      PROVE  CacheTypeOK'
  <2>1. CASE Recover(n)
    BY <1>1, <2>1 DEF Recover
  <2>2. CASE CopyExpires(n)
    BY <1>1, <2>2 DEF CopyExpires, Copy
  <2>3. CASE FileExpires(n)
    BY <1>1, <2>3 DEF FileExpires
  <2> QED BY <1>4, <2>1, <2>2, <2>3
<1>5. CASE SharedExpires
  BY <1>1, <1>5 DEF SharedExpires
<1>6. CASE UNCHANGED cacheVars
  BY <1>1, <1>6 DEF cacheVars
<1> QED BY <1>2, <1>3, <1>4, <1>5, <1>6 DEF CacheNext

-----------------------------------------------------------------------------
LEMMA CallFields ==
  ASSUME CacheTypeOK, NEW d \in Calls
  PROVE  /\ call[d].kind \in Kinds /\ call[d].at \in {"idle", "shared", "file", "promote", "fill"}
         /\ call[d].alone \in BOOLEAN
         /\ call[d].value \in Int /\ call[d].read \in Int /\ call[d].floor \in Int
         /\ call[d].value >= 0 /\ call[d].read >= 0 /\ call[d].floor >= 0
BY CacheAssumption DEF CacheTypeOK, CallStates, Value

\* What a step leaves of a call it does not belong to.  A step of another write may
\* acknowledge it and change the tiers, for then this call is not a write that is alone;
\* any other step leaves what was removed and what such a write has put into the tiers.
LEMMA OtherCall ==
  ASSUME CacheInv, CacheTypeOK', NEW d \in Calls,
         call'[d] = call[d], writes' = writes, excused \subseteq excused',
         \A e \in Calls : Writes(e)' => Writes(e),
         \A n \in Nodes : wrote'[n] >= wrote[n],
         gone' >= gone \/ \A n \in Nodes : gone' >= wrote[n],
         wrote' # wrote => ~Writes(d),
         \/ \E e \in Calls \ {d} : Writes(e)
         \/ /\ gone' >= gone \/ gone' >= writes
            /\ Writes(d) /\ call[d].node \notin excused' =>
                 /\ l1'[call[d].node] \in {l1[call[d].node], Nothing}
                 /\ Age(l2)' >= Age(l2) \/ Age(l2)' >= writes
  PROVE  CallOK(d)'
<1> USE CacheAssumption DEF Nothing
<1>1. CallOK(d) /\ CacheTypeOK /\ \A n \in Nodes : wrote[n] \in Int /\ wrote'[n] \in Int
  BY DEF CacheInv, CacheTypeOK, Value
<1>2. CASE call[d].at = "idle"
  BY <1>2 DEF CallOK
<1>3. CASE call[d].at # "idle" /\ call[d].kind = "get"
  <2>1. call[d].node \in Nodes /\ ReadOK(d)
    BY <1>1, <1>3 DEF CallOK
  <2>2. gone \in Int /\ gone' \in Int /\ call[d].floor \in Int /\ call[d].read \in Int
    BY <1>1, CallFields DEF CacheTypeOK, Value
  <2>3. ReadOK(d)'
    BY <1>1, <2>1, <2>2 DEF ReadOK
  <2> QED BY <1>3, <2>1, <2>3 DEF CallOK
<1>4. CASE Writes(d)
  <2>1. call[d].node \in Nodes /\ WriteOK(d)
    BY <1>1, <1>4 DEF CallOK, Writes
  <2>2. /\ gone \in Int /\ gone' \in Int /\ writes \in Int /\ call[d].value \in Int
        /\ Age(l2) \in Int /\ Age(l2)' \in Int
    BY <1>1, CallFields DEF CacheTypeOK, Value, Age
  <2>3. wrote' = wrote
    BY <1>4
  <2>4. /\ call[d].value \in 1..writes /\ \A n \in Nodes : wrote[n] < call[d].value
        /\ call[d].kind = "delete" => \A n \in Nodes : gone >= wrote[n]
    BY <2>1 DEF WriteOK
  <2>5. call[d].kind = "delete" => \A n \in Nodes : gone' >= wrote'[n]
    BY <1>1, <2>2, <2>3, <2>4
  <2>6. ASSUME call[d].alone
        PROVE  AloneOK(d)'
    <3>1. AloneOK(d)
      BY <2>1, <2>6 DEF WriteOK
    <3>2. \A e \in Calls : Writes(e)' => e = d
      BY <3>1 DEF AloneOK
    <3>3. /\ gone' >= gone \/ gone' >= writes
          /\ call[d].node \notin excused' =>
               /\ l1'[call[d].node] \in {l1[call[d].node], Nothing}
               /\ Age(l2)' >= Age(l2) \/ Age(l2)' >= writes
      BY <1>4, <3>1 DEF AloneOK
    <3>4. call[d].kind = "delete" => gone' >= call[d].value
      BY <2>2, <3>1, <3>3 DEF AloneOK
    <3>5. ASSUME call[d].node \notin excused'
          PROVE  /\ call[d].kind = "set" => l1'[call[d].node] \in {Nothing, call[d].value}
                 /\ call[d].kind = "delete" => l1'[call[d].node] = Nothing
                 /\ call[d].at = "file" => Age(l2)' >= call[d].value
      BY <2>2, <3>1, <3>3, <3>5 DEF AloneOK
    <3> QED BY <3>1, <3>2, <3>4, <3>5 DEF AloneOK
  <2> QED BY <1>4, <2>1, <2>3, <2>4, <2>5, <2>6 DEF CallOK, WriteOK, Writes
<1> QED BY <1>2, <1>3, <1>4 DEF Writes

\* A new write is newer than all that were acknowledged, and no other is alone any more.
LEMMA NumberedCalls ==
  ASSUME CacheInv, CacheTypeOK', NEW c \in Calls, NEW n \in Nodes,
         NEW kind \in Kinds \ {"get"}, NEW expected \in Value,
         Numbered(c, n, kind, expected), wrote' = wrote, excused' = excused,
         gone' \in {gone, writes + 1},
         kind = "set" => l1'[n] = writes + 1,
         kind = "delete" => l1'[n] = Nothing /\ gone' = writes + 1
  PROVE  \A d \in Calls : CallOK(d)'
<1> USE CacheAssumption DEF Nothing
<1>1. /\ CacheTypeOK /\ (\A d \in Calls : CallOK(d)) /\ (\A m \in Nodes : NodeOK(m))
      /\ writes \in Nat /\ gone \in Int /\ \A m \in Nodes : wrote[m] \in Int
  BY DEF CacheInv, CacheTypeOK, Value
<1>2. \A m \in Nodes : wrote[m] <= writes
  BY <1>1 DEF NodeOK
<1>3. CallOK(c)'
  <2>1. /\ call'[c] = Begun(n, kind, writes + 1, expected, ~ \E e \in Calls : Writes(e), 0)
        /\ writes' = writes + 1
    BY DEF Numbered
  <2>2. /\ call'[c].at = "shared" /\ call'[c].node = n /\ call'[c].kind = kind
        /\ call'[c].value = writes + 1
    BY <2>1 DEF Begun
  <2>6. \A alone : Begun(n, kind, writes + 1, expected, alone, 0).alone = alone
    BY DEF Begun
  <2>0. call'[c].alone = ~ \E e \in Calls : Writes(e)
    BY <2>1, <2>6, Zenon
  <2>3. ASSUME call'[c].alone  PROVE \A d \in Calls : Writes(d)' => d = c
    BY <2>0, <2>3, Zenon DEF Numbered, Writes
  <2>4. AloneOK(c)' \/ ~call'[c].alone
    BY <1>1, <2>1, <2>2, <2>3 DEF AloneOK
  <2>5. WriteOK(c)'
    BY <1>1, <1>2, <2>1, <2>2, <2>4 DEF WriteOK
  <2> QED BY <2>2, <2>5 DEF CallOK
<1>4. ASSUME NEW d \in Calls, d # c  PROVE CallOK(d)'
  <2>1. CASE Writes(d)
    <3>1. call'[d] = [call[d] EXCEPT !.alone = FALSE] /\ writes' = writes + 1
      BY <1>4, <2>1 DEF Numbered
    <3>2. /\ call'[d].node = call[d].node /\ call'[d].kind = call[d].kind
          /\ call'[d].at = call[d].at /\ call'[d].value = call[d].value
          /\ call'[d].alone = FALSE
      BY <1>1, <3>1 DEF CacheTypeOK, CallStates
    <3>3. call[d].node \in Nodes /\ WriteOK(d) /\ call[d].value \in Int
      BY <1>1, <2>1, CallFields DEF CallOK, Writes
    <3>4. WriteOK(d)'
      BY <1>1, <1>2, <3>1, <3>2, <3>3 DEF WriteOK
    <3> QED BY <2>1, <3>2, <3>3, <3>4 DEF CallOK, Writes
  <2>2. CASE ~Writes(d)
    <3>1. call'[d] = call[d]
      BY <1>4, <2>2 DEF Numbered
    <3>2. ASSUME call[d].at # "idle"
          PROVE  call[d].node \in Nodes /\ call[d].kind = "get" /\ ReadOK(d) /\ call[d].floor \in Int
      BY <1>1, <2>2, <3>2, CallFields DEF CallOK, Writes
    <3>3. ASSUME call[d].at # "idle"  PROVE ReadOK(d)'
      BY <1>1, <1>2, <3>1, <3>2, <3>3 DEF ReadOK
    <3> QED BY <3>1, <3>2, <3>3 DEF CallOK
  <2> QED BY <2>1, <2>2
<1> QED BY <1>3, <1>4

LEMMA StartStep ==
  ASSUME CacheInv, CacheTypeOK', NEW c \in Calls, NEW n \in Nodes,
         \/ StartGet(c, n) \/ StartSet(c, n) \/ StartDelete(c, n)
         \/ StartCompareAndSet(c, n) \/ StartDeleteIfEquals(c, n)
  PROVE  (\A d \in Calls : CallOK(d)') /\ (\A m \in Nodes : NodeOK(m)')
<1> USE CacheAssumption DEF Nothing, Kinds
<1>1. /\ CacheTypeOK /\ (\A d \in Calls : CallOK(d)) /\ (\A m \in Nodes : NodeOK(m))
      /\ writes \in Value /\ gone \in Value /\ l2 \in Value
      /\ \A m \in Nodes : wrote[m] \in Int /\ l1[m] \in Value
  BY DEF CacheInv, CacheTypeOK, Value
<1>2. CASE StartGet(c, n)
  <2>1. \A m \in Nodes : NodeOK(m)'
    BY <1>1, <1>2 DEF StartGet, NodeOK, Age
  <2>2. CallOK(c)'
    <3>1. call'[c] = Begun(n, "get", 0, 0, TRUE, wrote[n]) /\ wrote' = wrote
      BY <1>1, <1>2 DEF StartGet, CacheTypeOK
    <3> QED BY <1>1, <3>1 DEF Begun, CallOK, ReadOK
  <2>3. ASSUME NEW d \in Calls, d # c  PROVE CallOK(d)'
    <3>1. call'[d] = call[d]
      BY <1>1, <1>2, <2>3 DEF StartGet, CacheTypeOK
    <3>2. \A e \in Calls : Writes(e)' => Writes(e)
      BY <1>1, <1>2 DEF StartGet, CacheTypeOK, Writes, Begun
    <3>3. /\ writes' = writes /\ excused \subseteq excused' /\ wrote' = wrote
          /\ l1' = l1 /\ gone' >= gone /\ Age(l2)' >= Age(l2)
      BY <1>1, <1>2 DEF StartGet, Age, Value
    <3>4. CallOK(d) /\ (Writes(d) => call[d].node \in Nodes)
      BY <1>1 DEF CallOK, Writes
    <3> QED BY <1>1, <3>1, <3>2, <3>3, <3>4, OtherCall
  <2> QED BY <2>1, <2>2, <2>3
<1>3. CASE StartSet(c, n)
  <2>1. Numbered(c, n, "set", 0) /\ writes' = writes + 1 /\ l1' = [l1 EXCEPT ![n] = writes + 1]
    BY <1>3 DEF StartSet, Numbered, CopyFirst, Copy
  <2>2. \A m \in Nodes : NodeOK(m)'
    BY <1>1, <1>3, <2>1 DEF StartSet, NodeOK, Age, CacheTypeOK, Value
  <2>3. l1'[n] = writes + 1 /\ 0 \in Value
    BY <1>1, <2>1 DEF CacheTypeOK, Value
  <2> QED BY <1>3, <2>1, <2>2, <2>3, NumberedCalls DEF StartSet
<1>4. CASE StartDelete(c, n)
  <2>1. Numbered(c, n, "delete", 0) /\ writes' = writes + 1 /\ l1' = [l1 EXCEPT ![n] = 0]
    BY <1>4 DEF StartDelete, Numbered, Copy
  <2>2. \A m \in Nodes : NodeOK(m)'
    BY <1>1, <1>4, <2>1 DEF StartDelete, NodeOK, Age, CacheTypeOK, Value
  <2>3. l1'[n] = 0 /\ 0 \in Value
    BY <1>1, <2>1 DEF CacheTypeOK, Value
  <2> QED BY <1>4, <2>1, <2>2, <2>3, NumberedCalls DEF StartDelete
<1>5. CASE StartCompareAndSet(c, n)
  <2>1. PICK expected \in Value : Numbered(c, n, "compareAndSet", expected)
    BY <1>1, <1>5 DEF StartCompareAndSet
  <2>2. \A m \in Nodes : NodeOK(m)'
    BY <1>1, <1>5, <2>1 DEF StartCompareAndSet, Numbered, NodeOK, Age, CacheTypeOK, Value
  <2> QED BY <1>5, <2>1, <2>2, NumberedCalls DEF StartCompareAndSet
<1>6. CASE StartDeleteIfEquals(c, n)
  <2>1. PICK expected \in Value : Numbered(c, n, "deleteIfEquals", expected)
    BY <1>1, <1>6 DEF StartDeleteIfEquals
  <2>2. \A m \in Nodes : NodeOK(m)'
    BY <1>1, <1>6, <2>1 DEF StartDeleteIfEquals, Numbered, NodeOK, Age, CacheTypeOK, Value, Copy
  <2> QED BY <1>6, <2>1, <2>2, NumberedCalls DEF StartDeleteIfEquals
<1> QED BY <1>2, <1>3, <1>4, <1>5, <1>6

\* A write that is acknowledged was alone: no other call is a write.
LEMMA AcknowledgedAlone ==
  ASSUME CacheInv, NEW c \in Calls, Writes(c), Acknowledge(c)
  PROVE  /\ \A n \in Nodes : wrote[n] \in Int /\ wrote'[n] \in Int /\ wrote'[n] >= wrote[n]
         /\ call[c].node \in Nodes /\ WriteOK(c) /\ call[c].value \in Int
         /\ wrote' # wrote => /\ call[c].alone /\ AloneOK(c)
                              /\ wrote' = [wrote EXCEPT ![call[c].node] = call[c].value]
                              /\ \A d \in Calls : Writes(d) => d = c
<1> USE CacheAssumption
<1>1. /\ CallOK(c) /\ wrote \in [Nodes -> Value] /\ call[c].value \in Int
      /\ \A n \in Nodes : wrote[n] \in Int
  BY CallFields DEF CacheInv, CacheTypeOK, Value
<1>2. call[c].node \in Nodes /\ WriteOK(c)
  BY <1>1 DEF CallOK, Writes
<1>3. CASE call[c].alone
  <2>1. AloneOK(c)
    BY <1>2, <1>3 DEF WriteOK
  <2> QED BY <1>1, <1>2, <1>3, <2>1 DEF Acknowledge, WriteOK, AloneOK
<1>4. CASE ~call[c].alone
  BY <1>1, <1>2, <1>4 DEF Acknowledge
<1> QED BY <1>3, <1>4

LEMMA GetStep ==
  ASSUME CacheInv, CacheTypeOK', NEW c \in Calls,
         GetShared(c) \/ GetFile(c) \/ GetPromote(c) \/ GetFill(c)
  PROVE  (\A d \in Calls : CallOK(d)') /\ (\A m \in Nodes : NodeOK(m)')
<1> USE CacheAssumption DEF Nothing
<1>1. /\ CacheTypeOK /\ (\A d \in Calls : CallOK(d)) /\ (\A m \in Nodes : NodeOK(m))
      /\ writes \in Nat /\ gone \in Int /\ l2 \in Int
      /\ \A m \in Nodes : wrote[m] \in Int /\ l1[m] \in Int /\ l3[m] \in Int
  BY DEF CacheInv, CacheTypeOK, Value
<1>2. /\ call[c].node \in Nodes /\ ReadOK(c) /\ call[c].kind = "get" /\ call[c].at # "idle"
      /\ call[c].read \in Int /\ call[c].floor \in Int /\ ~Writes(c)
  BY <1>1, CallFields DEF GetShared, GetFile, GetPromote, GetFill, At, CallOK, Writes
<1>3. /\ writes' = writes /\ excused \subseteq excused' /\ wrote' = wrote /\ gone' = gone
      /\ failures' = failures /\ troubles' = troubles
      /\ \A d \in Calls \ {c} : call'[d] = call[d]
  BY <1>1 DEF GetShared, GetFile, GetPromote, GetFill, Moves, Answer, CacheTypeOK
<1>4. \A e \in Calls : Writes(e)' => Writes(e)
  BY <1>1, <1>2, <1>3 DEF GetShared, GetFile, GetPromote, GetFill, Moves, Answer, Writes,
     CacheTypeOK, CallStates, Idle
<1>5. ASSUME NEW d \in Calls, d # c, Writes(d) /\ call[d].node \notin excused'
      PROVE  /\ l1'[call[d].node] \in {l1[call[d].node], Nothing}
             /\ Age(l2)' >= Age(l2) \/ Age(l2)' >= writes
  <2>1. call[d].node \in Nodes
    BY <1>1, <1>5 DEF CallOK, Writes
  <2>2. CASE GetShared(c) \/ GetFile(c)
    BY <1>1, <2>2 DEF GetShared, GetFile, Age
  <2>3. CASE GetPromote(c)
    BY <1>1, <1>2, <1>5, <2>1, <2>3 DEF GetPromote, Age, At, ReadOK
  <2>4. CASE GetFill(c)
    BY <1>1, <1>2, <1>5, <2>1, <2>4 DEF GetFill, Age, Copy, CacheTypeOK
  <2> QED BY <2>2, <2>3, <2>4
<1>6. ASSUME NEW d \in Calls, d # c  PROVE CallOK(d)'
  BY <1>1, <1>3, <1>4, <1>5, <1>6, OtherCall
<1>7. CallOK(c)'
  <2>1. CASE GetShared(c)
    BY <1>1, <1>2, <2>1 DEF GetShared, CallOK, ReadOK, NodeOK, Age, At, CacheTypeOK, CallStates
  <2>2. CASE GetFile(c)
    BY <1>1, <1>2, <2>2 DEF GetFile, CallOK, ReadOK, At, Answer, Idle, CacheTypeOK, CallStates
  <2>3. CASE GetPromote(c)
    BY <1>1, <1>2, <2>3 DEF GetPromote, CallOK, ReadOK, NodeOK, At, Moves, CacheTypeOK, CallStates
  <2>4. CASE GetFill(c)
    BY <1>1, <2>4 DEF GetFill, CallOK, Answer, Idle, CacheTypeOK
  <2> QED BY <2>1, <2>2, <2>3, <2>4
<1>8. \A m \in Nodes : NodeOK(m)'
  <2>1. CASE GetShared(c) \/ GetFile(c)
    BY <1>1, <1>3, <2>1 DEF GetShared, GetFile, NodeOK, Age
  <2>2. CASE GetPromote(c)
    BY <1>1, <1>2, <1>3, <2>2 DEF GetPromote, NodeOK, Age, At, ReadOK
  <2>3. CASE GetFill(c)
    BY <1>1, <1>2, <1>3, <2>3 DEF GetFill, NodeOK, Age, At, ReadOK, Copy, CacheTypeOK
  <2> QED BY <2>1, <2>2, <2>3
<1> QED BY <1>6, <1>7, <1>8

\* A step of a write keeps the other calls, for it may be alone only if they are gets.
LEMMA WriteLeaves ==
  ASSUME CacheInv, CacheTypeOK', NEW c \in Calls, NEW d \in Calls, d # c, Writes(c),
         \A e \in Calls \ {c} : call'[e] = call[e],
         writes' = writes, excused \subseteq excused', Acknowledge(c) \/ wrote' = wrote,
         gone' = gone \/ gone' = call[c].value
  PROVE  CallOK(d)'
<1> USE CacheAssumption
<1>1. /\ CallOK(c) /\ call[c].value \in Int /\ gone \in Int
      /\ \A n \in Nodes : wrote[n] \in Int
  BY CallFields DEF CacheInv, CacheTypeOK, Value
<1>2. WriteOK(c)
  BY <1>1 DEF CallOK, Writes
<1>3. gone' >= gone \/ \A n \in Nodes : gone' >= wrote[n]
  BY <1>1, <1>2 DEF WriteOK
<1>4. /\ \A n \in Nodes : wrote'[n] >= wrote[n]
      /\ wrote' # wrote => ~Writes(d)
  BY <1>1, AcknowledgedAlone
<1>5. \A e \in Calls : Writes(e)' => Writes(e)
  BY DEF Writes
<1> QED BY <1>3, <1>4, <1>5, OtherCall

LEMMA WriteStep ==
  ASSUME CacheInv, CacheTypeOK', NEW c \in Calls,
         \/ SetInFailover(c) \/ SetShared(c) \/ SetFile(c) \/ DeleteShared(c) \/ DeleteFile(c)
         \/ CompareAndSet(c) \/ DeleteIfEquals(c)
  PROVE  (\A d \in Calls : CallOK(d)') /\ (\A m \in Nodes : NodeOK(m)')
<1> USE CacheAssumption DEF Nothing
<1>1. /\ CacheTypeOK /\ (\A d \in Calls : CallOK(d)) /\ (\A m \in Nodes : NodeOK(m))
      /\ writes \in Nat /\ gone \in Int /\ l2 \in Int
      /\ \A m \in Nodes : wrote[m] \in Int /\ l1[m] \in Int /\ l3[m] \in Int
  BY DEF CacheInv, CacheTypeOK, Value
<1>2. Writes(c)
  BY DEF SetInFailover, SetShared, SetFile, DeleteShared, DeleteFile, CompareAndSet,
     DeleteIfEquals, At, Writes
<1>3. /\ call[c].node \in Nodes /\ WriteOK(c) /\ call[c].value \in 1..writes
      /\ \A m \in Nodes : wrote[m] < call[c].value
  BY <1>1, <1>2 DEF CallOK, Writes, WriteOK
<1>4. /\ \A e \in Calls \ {c} : call'[e] = call[e]
      /\ writes' = writes /\ excused \subseteq excused' /\ failures' = failures /\ troubles' = troubles
      /\ Acknowledge(c) \/ wrote' = wrote
      /\ gone' = gone \/ gone' = call[c].value
  BY <1>1 DEF SetInFailover, SetShared, SetFile, DeleteShared, DeleteFile, CompareAndSet,
     DeleteIfEquals, Moves, Answer, CacheTypeOK
<1>5. ASSUME NEW d \in Calls, d # c  PROVE CallOK(d)'
  BY <1>2, <1>4, <1>5, WriteLeaves
<1>6. CallOK(c)'
  <2>1. CASE SetShared(c)
    BY <1>1, <1>2, <1>3, <2>1 DEF SetShared, At, Moves, CacheTypeOK, CallStates, CallOK, WriteOK,
       AloneOK, Writes, Age
  <2>2. CASE DeleteShared(c)
    BY <1>1, <1>2, <1>3, <2>2 DEF DeleteShared, At, Moves, CacheTypeOK, CallStates, CallOK, WriteOK,
       AloneOK, Writes, Age
  <2>3. CASE ~SetShared(c) /\ ~DeleteShared(c)
    BY <1>1, <2>3 DEF SetInFailover, SetFile, DeleteFile, CompareAndSet, DeleteIfEquals, Answer,
       Idle, CallOK, CacheTypeOK
  <2> QED BY <2>1, <2>2, <2>3
<1>7. ASSUME NEW m \in Nodes  PROVE NodeOK(m)'
  <2>1. \/ wrote'[m] = wrote[m]
        \/ /\ m = call[c].node /\ wrote'[m] = call[c].value /\ call[c].alone /\ AloneOK(c)
    BY <1>1, <1>2, <1>4, AcknowledgedAlone DEF CacheTypeOK
  <2>2. /\ wrote'[m] \in Int /\ wrote'[m] <= writes' /\ failures'[m] <= troubles'
    BY <1>1, <1>3, <1>4, <2>1 DEF NodeOK
  <2>3. CASE SetInFailover(c)
    BY <1>1, <1>3, <2>1, <2>2, <2>3 DEF SetInFailover, NodeOK, Age
  <2>4. CASE SetShared(c)
    BY <1>1, <1>3, <2>1, <2>2, <2>4 DEF SetShared, NodeOK, Age
  <2>5. CASE SetFile(c)
    BY <1>1, <1>3, <2>1, <2>2, <2>5 DEF SetFile, At, NodeOK, Age, AloneOK
  <2>6. CASE DeleteShared(c)
    BY <1>1, <1>3, <2>1, <2>2, <2>6 DEF DeleteShared, At, WriteOK, NodeOK, Age
  <2>7. CASE DeleteFile(c)
    BY <1>1, <1>3, <2>1, <2>2, <2>7 DEF DeleteFile, At, NodeOK, Age, AloneOK
  <2>8. CASE CompareAndSet(c)
    BY <1>1, <1>3, <2>1, <2>2, <2>8 DEF CompareAndSet, DropsCopy, Copy, CacheTypeOK, NodeOK, Age
  <2>9. CASE DeleteIfEquals(c)
    BY <1>1, <1>3, <2>1, <2>2, <2>9 DEF DeleteIfEquals, Copy, CacheTypeOK, NodeOK, Age
  <2> QED BY <2>3, <2>4, <2>5, <2>6, <2>7, <2>8, <2>9
<1> QED BY <1>5, <1>6, <1>7

LEMMA FailStep ==
  ASSUME CacheInv, CacheTypeOK', NEW c \in Calls, ProviderFails(c)
  PROVE  (\A d \in Calls : CallOK(d)') /\ (\A m \in Nodes : NodeOK(m)')
<1> USE CacheAssumption DEF Nothing
<1>1. /\ CacheTypeOK /\ (\A d \in Calls : CallOK(d)) /\ (\A m \in Nodes : NodeOK(m))
      /\ writes \in Nat /\ gone \in Int /\ l2 \in Int /\ troubles \in Int
      /\ \A m \in Nodes : wrote[m] \in Int /\ l1[m] \in Int /\ failures[m] \in Int
  BY DEF CacheInv, CacheTypeOK, Value
<1>2. /\ call[c].node \in Nodes /\ call[c].at # "idle" /\ l1' = l1 /\ wrote' = wrote
      /\ writes' = writes /\ excused' = excused /\ troubles' = troubles + 1
      /\ \A e \in Calls \ {c} : call'[e] = call[e]
  BY <1>1 DEF ProviderFails, CallOK, Answer, CacheTypeOK
<1>3. CallOK(c)'
  BY <1>1 DEF ProviderFails, Answer, Idle, CallOK, CacheTypeOK
<1>4. \A m \in Nodes : failures'[m] <= troubles'
  BY <1>1, <1>2 DEF ProviderFails, NodeOK, CacheTypeOK
<1>5. CASE call[c].kind = "get"
  <2>1. l2' = l2 /\ gone' = gone
    BY <1>5 DEF ProviderFails
  <2>2. \A e \in Calls : Writes(e)' => Writes(e)
    BY <1>2, <1>3, <1>5, <1>1 DEF Writes, ProviderFails, Answer, Idle, CacheTypeOK
  <2>3. ASSUME NEW d \in Calls, d # c  PROVE CallOK(d)'
    <3>1. Age(l2) \in Int /\ Age(l2)' = Age(l2)
      BY <1>1, <2>1 DEF Age
    <3> QED BY <1>1, <1>2, <2>1, <2>2, <2>3, <3>1, OtherCall
  <2>4. \A m \in Nodes : NodeOK(m)'
    BY <1>1, <1>2, <1>4, <2>1 DEF NodeOK, Age
  <2> QED BY <1>3, <2>3, <2>4
<1>6. CASE call[c].kind # "get"
  <2>1. Writes(c) /\ WriteOK(c) /\ \A m \in Nodes : wrote[m] < call[c].value
    BY <1>1, <1>2, <1>6 DEF Writes, CallOK, WriteOK
  <2>2. gone' = gone \/ gone' = call[c].value
    BY DEF ProviderFails
  <2>3. ASSUME NEW d \in Calls, d # c  PROVE CallOK(d)'
    BY <1>2, <2>1, <2>2, <2>3, WriteLeaves
  <2>4. \A m \in Nodes : NodeOK(m)'
    <3>1. \/ l2' = l2 /\ gone' = gone
          \/ l2' = call[c].value /\ gone' = gone
          \/ l2' = Nothing /\ (gone' = call[c].value \/ (gone' = gone /\ call[c].kind = "delete"))
      <4>1. \/ UNCHANGED <<l2, gone>>
            \/ l2' = call[c].value /\ UNCHANGED gone
            \/ l2' = Nothing /\ gone' = call[c].value
            \/ call[c].kind = "delete" /\ l2' = Nothing /\ UNCHANGED gone
        BY Zenon DEF ProviderFails
      <4> QED BY <4>1
    <3>2. call[c].value \in Int /\ call[c].value # 0 /\ (call[c].kind = "delete" => \A m \in Nodes : gone >= wrote[m])
      BY <1>1, <2>1, CallFields DEF WriteOK
    <3>3. ASSUME NEW m \in Nodes, m \notin excused  PROVE Age(l2)' >= wrote[m]
      <4>1. Age(l2) >= wrote[m] /\ wrote[m] < call[c].value /\ wrote[m] \in Int
        BY <1>1, <2>1, <3>3 DEF NodeOK
      <4> QED BY <1>1, <3>1, <3>2, <4>1 DEF Age
    <3> QED BY <1>1, <1>2, <1>4, <3>3 DEF NodeOK
  <2> QED BY <1>3, <2>3, <2>4
<1> QED BY <1>5, <1>6

LEMMA OwnStep ==
  ASSUME CacheInv, CacheTypeOK',
         (\E n \in Nodes : Recover(n) \/ CopyExpires(n) \/ FileExpires(n)) \/ SharedExpires
  PROVE  (\A d \in Calls : CallOK(d)') /\ (\A m \in Nodes : NodeOK(m)')
<1> USE CacheAssumption DEF Nothing
<1>1. /\ CacheTypeOK /\ (\A d \in Calls : CallOK(d)) /\ (\A m \in Nodes : NodeOK(m))
      /\ writes \in Nat /\ gone \in Int /\ l2 \in Int /\ troubles \in Int
      /\ \A m \in Nodes : wrote[m] \in Int /\ l1[m] \in Int /\ failures[m] \in Int
  BY DEF CacheInv, CacheTypeOK, Value
<1>2. /\ call' = call /\ writes' = writes /\ wrote' = wrote /\ excused' = excused
      /\ troubles' = troubles /\ gone' \in {gone, writes}
      /\ \A m \in Nodes : l1'[m] \in {l1[m], Nothing}
  BY <1>1 DEF Recover, CopyExpires, FileExpires, SharedExpires, Copy, CacheTypeOK
<1>3. \A m \in Nodes : wrote[m] <= writes
  BY <1>1 DEF NodeOK
<1>4. Age(l2)' = Age(l2) \/ Age(l2)' = writes
  BY DEF Recover, CopyExpires, FileExpires, SharedExpires, Age
<1>5. Age(l2) \in Int
  BY <1>1 DEF Age
<1>6. ASSUME NEW d \in Calls  PROVE CallOK(d)'
  <2>1. \A e \in Calls : Writes(e)' => Writes(e)
    BY <1>2 DEF Writes
  <2>2. \A m \in Nodes : wrote'[m] >= wrote[m]
    BY <1>1, <1>2
  <2>3. gone' >= gone \/ gone' >= writes
    BY <1>1, <1>2
  <2>4. gone' >= gone \/ \A m \in Nodes : gone' >= wrote[m]
    BY <1>1, <1>2, <1>3
  <2>5. Age(l2)' >= Age(l2) \/ Age(l2)' >= writes
    BY <1>1, <1>4, <1>5
  <2>6. Writes(d) => l1'[call[d].node] \in {l1[call[d].node], Nothing}
    BY <1>1, <1>2 DEF CallOK, Writes
  <2> QED BY <1>2, <2>1, <2>2, <2>3, <2>4, <2>5, <2>6, OtherCall
<1>7. ASSUME NEW m \in Nodes  PROVE NodeOK(m)'
  <2>1. failures'[m] <= troubles'
    BY <1>1, <1>2 DEF Recover, CopyExpires, FileExpires, SharedExpires, NodeOK, CacheTypeOK
  <2> QED BY <1>1, <1>2, <1>3, <1>4, <1>5, <2>1 DEF NodeOK
<1> QED BY <1>6, <1>7

LEMMA NextCacheInv == CacheInv /\ [CacheNext]_cacheVars => CacheInv'
<1> SUFFICES ASSUME CacheInv, [CacheNext]_cacheVars  PROVE CacheInv'
  OBVIOUS
<1>1. CacheTypeOK'
  BY TypeStep
<1>2. (\A d \in Calls : CallOK(d)') /\ (\A m \in Nodes : NodeOK(m)')
  <2>1. CASE CacheNext
    BY <1>1, <2>1, StartStep, GetStep, WriteStep, FailStep, OwnStep DEF CacheNext
  <2>2. CASE UNCHANGED cacheVars
    BY <2>2 DEF cacheVars, CacheInv, CallOK, ReadOK, WriteOK, AloneOK, NodeOK, Writes, Age
  <2> QED BY <2>1, <2>2
<1> QED BY <1>1, <1>2 DEF CacheInv

\* The invariant keeps every copy and every answer at least as new as the property asks.
LEMMA ReadStep ==
  ASSUME CacheInv, CacheTypeOK', CacheNext, NEW n \in Nodes \ excused'
  PROVE  /\ l1[n] # Nothing => l1[n] >= wrote[n]
         /\ \A c \in Calls :
              (call[c].kind = "get" /\ call[c].node = n /\ troubles' = troubles
               /\ call[c].at # "idle" /\ call'[c].at = "idle")
                => Age(call[c].read) >= call[c].floor
<1> USE DEF Nothing
<1>1. /\ CacheTypeOK /\ call \in [Calls -> CallStates] /\ NodeOK(n)
      /\ \A c \in Calls : CallOK(c)
  BY DEF CacheInv, CacheTypeOK
<1>2. excused \subseteq excused'
  BY DEF CacheNext, StartGet, StartSet, StartDelete, StartCompareAndSet, StartDeleteIfEquals,
     GetShared, GetFile, GetPromote, GetFill, SetInFailover, SetShared, SetFile, DeleteShared,
     DeleteFile, CompareAndSet, DeleteIfEquals, ProviderFails, Recover, CopyExpires, FileExpires,
     SharedExpires
<1>3. ASSUME NEW c \in Calls, call[c].kind = "get", call[c].node = n, troubles' = troubles,
             call[c].at # "idle", call'[c].at = "idle"
      PROVE  Age(call[c].read) >= call[c].floor
  <2>1. ASSUME NEW d \in Calls, NEW m \in Nodes,
               \/ StartGet(d, m) \/ StartSet(d, m) \/ StartDelete(d, m)
               \/ StartCompareAndSet(d, m) \/ StartDeleteIfEquals(d, m)
        PROVE  FALSE
    <3>1. call[d].at = "idle" /\ d # c
      BY <1>3, <2>1 DEF StartGet, StartSet, StartDelete, StartCompareAndSet, StartDeleteIfEquals,
         Numbered
    <3>2. call'[c] = call[c]
      BY <1>1, <1>3, <2>1, <3>1 DEF StartGet, StartSet, StartDelete, StartCompareAndSet,
         StartDeleteIfEquals, Numbered, Writes
    <3> QED BY <1>3, <3>2
  <2>2. ASSUME NEW d \in Calls, d # c, call' = [call EXCEPT ![d] = call'[d]]
        PROVE  FALSE
    BY <1>1, <1>3, <2>2
  <2>3. PICK d \in Calls :
          \/ GetShared(d) \/ GetFile(d) \/ GetPromote(d) \/ GetFill(d)
          \/ SetInFailover(d) \/ SetShared(d) \/ SetFile(d)
          \/ DeleteShared(d) \/ DeleteFile(d)
          \/ CompareAndSet(d) \/ DeleteIfEquals(d) \/ ProviderFails(d)
    BY <1>3, <2>1 DEF CacheNext, Recover, CopyExpires, FileExpires, SharedExpires
  <2>4. d = c
    <3>1. call' = [call EXCEPT ![d] = call'[d]]
      BY <1>1, <2>3 DEF GetShared, GetFile, GetPromote, GetFill, SetInFailover, SetShared, SetFile,
         DeleteShared, DeleteFile, CompareAndSet, DeleteIfEquals, ProviderFails, Moves, Answer
    <3> QED BY <2>2, <3>1
  <2>5. GetShared(c) \/ GetFile(c) \/ GetPromote(c) \/ GetFill(c)
    BY <1>3, <2>3, <2>4 DEF SetInFailover, SetShared, SetFile, DeleteShared, DeleteFile,
       CompareAndSet, DeleteIfEquals, ProviderFails, At, CacheInv, CacheTypeOK
  <2>6. call[c].at = "file" \/ call[c].at = "fill"
    BY <1>1, <1>3, <2>5 DEF GetShared, GetFile, GetPromote, GetFill, At, Moves, CallStates
  <2>7. ReadOK(c) /\ n \notin excused
    BY <1>1, <1>2, <1>3 DEF CallOK
  <2> QED BY <1>3, <2>6, <2>7 DEF ReadOK, Age
<1> QED BY <1>1, <1>2, <1>3 DEF NodeOK

\* Every node reads its own acknowledged writes, or something later, through the three
\* tiers (CacheService.get, set, delete, compareAndSet, deleteIfEquals), but for the
\* excused cases, with any nodes, any calls under way and any number of failures.
THEOREM CacheIsRead == CacheSpec => CacheHolds
<1>1. CacheSpec => []CacheInv
  BY InitCacheInv, NextCacheInv, PTL DEF CacheSpec
<1>2. CacheInv => CacheTypeOK
  BY DEF CacheInv
<1>3. CacheInv /\ CacheInv' /\ [CacheNext]_cacheVars =>
        [\A n \in Nodes \ excused' :
           /\ l1[n] # Nothing => l1[n] >= wrote[n]
           /\ \A c \in Calls :
                (call[c].kind = "get" /\ call[c].node = n /\ troubles' = troubles
                 /\ call[c].at # "idle" /\ call'[c].at = "idle")
                  => Age(call[c].read) >= call[c].floor]_cacheVars
  BY ReadStep, TypeStep
<1> QED BY <1>1, <1>2, <1>3, PTL DEF CacheSpec, CacheHolds, ReadYourWrites

-----------------------------------------------------------------------------
(* DistributedLock: while no value has expired, nobody takes the lock over    *)
(* and no clean-up is on its way, so that a job between its success and the   *)
(* end of its release is the one that is stored.                              *)

StealsExpired == \A j \in Jobs : pc[j] = "steal" => seen[j] \in lapsed

DeletesOwn == \A j \in Jobs : pc[j] = "delete" => OwnedBy(seen[j], j)

StoredUntilReleased ==
  lapsed = {} => /\ \A j \in Jobs : pc[j] \in {"held", "release", "delete"} => lock.job = j
                 /\ \A i \in Instances : cleaner[i] = Free

LockInv == LockTypeOK /\ StealsExpired /\ DeletesOwn /\ StoredUntilReleased

LEMMA InitLockInv == LockInit => LockInv
BY LockAssumption DEF LockInit, LockInv, LockTypeOK, LockValue, Free, StealsExpired, DeletesOwn,
   StoredUntilReleased

LEMMA FreeIsNobodys == Free \in LockValue /\ Free.job = None /\ \A j \in Jobs : Free.job # j
BY LockAssumption DEF Free, LockValue

LEMMA ReadIsValue ==
  ASSUME LockTypeOK, NEW i \in Instances
  PROVE  ReadsLock(i) \subseteq LockValue
BY DEF LockTypeOK, ReadsLock

\* A job that has taken the lock is the one that is stored.
LEMMA TakeKeeps ==
  ASSUME LockInv, NEW j \in Jobs, Take(j),
         lapsed = {} => \A k \in Jobs : pc[k] \notin {"held", "release", "delete"}
  PROVE  LockInv'
<1> USE LockAssumption, FreeIsNobodys
<1>1. /\ LockTypeOK /\ StealsExpired /\ DeletesOwn /\ StoredUntilReleased
  BY DEF LockInv
<1>2. [job |-> j, beats |-> 0] \in LockValue
  BY DEF LockValue
<1>3. /\ pc' = [pc EXCEPT ![j] = "held"] /\ seen' = [seen EXCEPT ![j] = Free]
      /\ lock' = [job |-> j, beats |-> 0] /\ lapsed' = lapsed /\ inst' = inst /\ cleaner' = cleaner
  BY DEF Take, Leave, Goto
<1>4. LockTypeOK'
  BY <1>1, <1>2, <1>3 DEF LockTypeOK, Take, Uncopied
<1>5. StealsExpired' /\ DeletesOwn'
  BY <1>1, <1>3 DEF LockTypeOK, StealsExpired, DeletesOwn, OwnedBy
<1>6. StoredUntilReleased'
  BY <1>1, <1>3 DEF LockTypeOK, StoredUntilReleased
<1> QED BY <1>4, <1>5, <1>6 DEF LockInv

LEMMA NextLockInv == LockInv /\ [LockNext]_lockVars => LockInv'
<1> SUFFICES ASSUME LockInv, [LockNext]_lockVars  PROVE LockInv'
  OBVIOUS
<1> USE LockAssumption, FreeIsNobodys DEF Goto, Leave, OwnedBy, HeartbeatStops, Copied, Uncopied
<1>1. /\ LockTypeOK /\ StealsExpired /\ DeletesOwn /\ StoredUntilReleased
  BY DEF LockInv
<1>2. \A i \in Instances : ReadsLock(i) \subseteq LockValue
  BY <1>1, ReadIsValue
<1>3. \A j \in Jobs : inst[j] \in Instances /\ seen[j] \in LockValue /\ pulse[j] \in LockValue
  BY <1>1 DEF LockTypeOK
<1> USE DEF LockInv, LockTypeOK, StealsExpired, DeletesOwn, StoredUntilReleased
<1>4. ASSUME NEW j \in Jobs, Start(j) \/ Finish(j) \/ AcquireFails(j)
      PROVE  LockInv'
  BY <1>1, <1>4 DEF Start, Finish, AcquireFails
<1>5. ASSUME NEW j \in Jobs, TryAcquire(j)
      PROVE  LockInv'
  <2>1. CASE lock = Free
    <3>1. lapsed = {} => \A k \in Jobs : pc[k] \notin {"held", "release", "delete"}
      BY <1>1, <2>1
    <3> QED BY <1>5, <2>1, <3>1, TakeKeeps DEF TryAcquire
  <2>2. CASE lock # Free
    BY <1>1, <1>5, <2>2 DEF TryAcquire
  <2> QED BY <2>1, <2>2
<1>6. ASSUME NEW j \in Jobs, Contend(j)
      PROVE  LockInv'
  BY <1>1, <1>2, <1>3, <1>6 DEF Contend, Expired
<1>7. ASSUME NEW j \in Jobs, Steal(j)
      PROVE  LockInv'
  <2>1. CASE Unchanged(seen[j])
    <3>1. lapsed # {}
      BY <1>1, <1>7 DEF Steal
    <3> QED BY <1>7, <2>1, <3>1, TakeKeeps DEF Steal
  <2>2. CASE ~Unchanged(seen[j])
    BY <1>1, <1>7, <2>2 DEF Steal
  <2> QED BY <2>1, <2>2
<1>8. ASSUME NEW j \in Jobs, HeartbeatRead(j)
      PROVE  LockInv'
  BY <1>1, <1>2, <1>3, <1>8 DEF HeartbeatRead
<1>9. ASSUME NEW j \in Jobs, HeartbeatSet(j)
      PROVE  LockInv'
  <2>1. CASE Unchanged(pulse[j])
    <3>1. pulse[j].beats + 1 \in 0..MaxBeats /\ pulse[j].job \in Jobs \cup {None}
      BY <1>3, <1>9, <2>1 DEF HeartbeatSet, LockValue
    <3>2. lock' \in LockValue /\ lock'.job = lock.job
      BY ZenonT(30), <1>3, <1>9, <2>1, <3>1 DEF HeartbeatSet, LockValue, Unchanged
    <3> QED BY <1>1, <1>3, <1>9, <2>1, <3>2 DEF HeartbeatSet
  <2>2. CASE ~Unchanged(pulse[j])
    BY <1>1, <1>3, <1>9, <2>2 DEF HeartbeatSet
  <2> QED BY <2>1, <2>2
<1>10. ASSUME NEW j \in Jobs, HeartbeatFails(j)
      PROVE  LockInv'
  BY <1>1, <1>10 DEF HeartbeatFails
<1>11. ASSUME NEW j \in Jobs, ReleaseRead(j)
      PROVE  LockInv'
  BY <1>1, <1>2, <1>3, <1>11 DEF ReleaseRead, TimersAfterCleanup
<1>12. ASSUME NEW j \in Jobs, ReleaseDelete(j)
      PROVE  LockInv'
  BY <1>1, <1>3, <1>12 DEF ReleaseDelete
<1>13. ASSUME NEW j \in Jobs, ReleaseFails(j)
      PROVE  LockInv'
  BY <1>1, <1>3, <1>13 DEF ReleaseFails, TimersAfterCleanup
<1>14. ASSUME NEW i \in Instances, CleanerRead(i) \/ CleanerDelete(i)
      PROVE  LockInv'
  BY <1>1, <1>2, <1>14 DEF CleanerRead, CleanerDelete, Expired
<1>15. CASE Lapse \/ Evict
  BY <1>1, <1>15 DEF Lapse, Evict
<1>16. CASE UNCHANGED lockVars
  BY <1>1, <1>16 DEF lockVars
<1> QED BY <1>4, <1>5, <1>6, <1>7, <1>8, <1>9, <1>10, <1>11, <1>12, <1>13, <1>14, <1>15, <1>16
        DEF LockNext, LockStep

\* A step that takes a live lock away is a release on its instance or a clean-up.
LEMMA LiveLockStep ==
  ASSUME LockInv, LockNext, lock # Free, ~Expired(lock), lock'.job # lock.job
  PROVE  \/ \E j \in Jobs : pc[j] = "delete" /\ pc'[j] = "done" /\ inst[j] = inst[lock.job]
         \/ \E i \in Instances : cleaner[i] # Free /\ cleaner'[i] = Free
<1>1. LockTypeOK /\ StealsExpired /\ DeletesOwn /\ lock' # lock
  BY DEF LockInv
<1>2. \/ \E j \in Jobs : TryAcquire(j) \/ Steal(j) \/ HeartbeatSet(j) \/ ReleaseDelete(j)
      \/ Evict \/ \E i \in Instances : CleanerDelete(i)
  <2>1. ASSUME NEW j \in Jobs,
               \/ Start(j) \/ Finish(j) \/ Contend(j) \/ AcquireFails(j) \/ HeartbeatRead(j)
               \/ HeartbeatFails(j) \/ ReleaseRead(j) \/ ReleaseFails(j)
        PROVE  FALSE
    BY <1>1, <2>1 DEF Start, Finish, Contend, AcquireFails, HeartbeatRead, HeartbeatFails,
       ReleaseRead, ReleaseFails
  <2>2. ~Lapse /\ \A i \in Instances : ~CleanerRead(i)
    BY <1>1 DEF Lapse, CleanerRead
  <2> QED BY <2>1, <2>2 DEF LockNext, LockStep
<1>3. ASSUME NEW j \in Jobs, TryAcquire(j)  PROVE FALSE
  BY <1>1, <1>3 DEF TryAcquire
<1>4. ASSUME NEW j \in Jobs, Steal(j)  PROVE FALSE
  BY <1>1, <1>4 DEF Steal, Unchanged, StealsExpired, Expired
<1>5. ASSUME NEW j \in Jobs, HeartbeatSet(j)  PROVE FALSE
  BY <1>1, <1>5 DEF HeartbeatSet, Unchanged, LockTypeOK, LockValue
<1>6. ASSUME NEW j \in Jobs, ReleaseDelete(j)
      PROVE  pc[j] = "delete" /\ pc'[j] = "done" /\ inst[j] = inst[lock.job]
  BY <1>1, <1>6 DEF ReleaseDelete, Unchanged, DeletesOwn, OwnedBy, Leave, Goto, LockTypeOK
<1>7. CASE Evict
  BY <1>7 DEF Evict, Expired
<1>8. CASE \E i \in Instances : CleanerDelete(i)
  BY <1>1, <1>8 DEF CleanerDelete, LockTypeOK
<1> QED BY <1>2, <1>3, <1>4, <1>5, <1>6, <1>7, <1>8

\* Two jobs are never at work under the lock at once while no value has expired, and a
\* live lock goes only by a release on its own instance or by a clean-up of
\* DistributedLock, with any number of instances, jobs, renewals and lapses.
THEOREM LockIsHonoured == LockSpec => LockHolds
<1>1. LockSpec => []LockInv
  BY InitLockInv, NextLockInv, PTL DEF LockSpec
<1>2. LockInv => LockTypeOK /\ HolderIsStored
  BY DEF LockInv, StoredUntilReleased, HolderIsStored
<1>3. LockInv /\ [LockNext]_lockVars =>
        [LET taken   == lock # Free /\ ~Expired(lock) /\ lock'.job # lock.job
             release == \E j \in Jobs : pc[j] = "delete" /\ pc'[j] = "done"
                                        /\ inst[j] = inst[lock.job]
             cleanup == \E i \in Instances : cleaner[i] # Free /\ cleaner'[i] = Free
         IN taken => release \/ cleanup]_lockVars
  BY LiveLockStep
<1> QED BY <1>1, <1>2, <1>3, PTL DEF LockSpec, LockHolds, LiveLockHonoured

-----------------------------------------------------------------------------
(* SyncViews: the inductive invariant *)

SyncEvents == [to : Peers, topic : {"cache", "state"}, action : Ops, value : Versions]

\* Calls of the StateSynchronizer that are under way, and its events
Restores(w) == writer[w].op \in {"restore", "sync"} /\ writer[w].at # "free"

StateEvents == {e \in events : e.topic = "state"}

\* A restore that has written the state and is about to tell the others
Announces(w) == Doing(w, {"restore"}, "publish")

WriterOK(w) ==
  writer[w].at # "free" =>
    /\ writer[w].node \in Peers
    /\ writer[w].at \in {"lock", "unlock"} => writer[w].op \in {"set", "delete"}

\* The lock of a call that holds one is its instance's until it ends under the call.
LocksOK ==
  \A w \in Writers, op \in {"set", "delete"} :
    Holds(w, op) /\ w \notin overdue => lockOwner[op] = writer[w].node

\* Nothing of the state was under way when a restore began.
RestoreOK(w) ==
  Restores(w) =>
    /\ writer[w].op = "restore" /\ writer[w].at \in {"cache", "publish"}
    /\ \A v \in Writers : Restores(v) => v = w
    /\ StateEvents = {}
    /\ writer[w].at = "publish" => state = writer[w].value

\* A copy that is not the state will be when the event on its way arrives, or the
\* restore under way has told the others.
CopyOK(n) ==
  \/ stateCopy[n] \in {Absent, state}
  \/ \E e \in StateEvents : e.to = n
  \/ \E w \in Writers : Announces(w) /\ writer[w].node # n

StateOK ==
  ~disturbed =>
    /\ \A w \in Writers : RestoreOK(w)
    /\ \A e \in StateEvents : e.value = state
    /\ \A n \in Peers : CopyOK(n)

SyncInv ==
  /\ SyncTypeOK /\ events \subseteq SyncEvents
  /\ \A w \in Writers : WriterOK(w)
  /\ LocksOK /\ StateOK

CallRecords ==
  [at : {"free", "lock", "cache", "publish", "keep", "unlock"},
   op : Ops, node : Peers \cup {NoPeer}, value : Versions, locked : BOOLEAN]

LEMMA InitSyncInv == SyncInit => SyncInv
<1> SUFFICES ASSUME SyncInit PROVE SyncInv
  OBVIOUS
<1>1. /\ Absent \in Versions /\ NoCall \in CallRecords /\ NoCall.at = "free"
  BY SyncAssumption DEF Absent, Versions, NoCall, CallRecords, Ops
<1>2. \A w \in Writers : writer[w] = NoCall  BY DEF SyncInit
<1>3. SyncTypeOK /\ events \subseteq SyncEvents
  <2>1. writer \in [Writers -> CallRecords]  BY <1>1 DEF SyncInit
  <2>2. 0 \in Versions  BY SyncAssumption DEF Versions
  <2> QED  BY <1>1, <2>1, <2>2 DEF SyncInit, SyncTypeOK, CallRecords
<1>4. \A w \in Writers : WriterOK(w) /\ RestoreOK(w)
  BY <1>1, <1>2 DEF WriterOK, RestoreOK, Restores
<1>5. LocksOK  BY <1>1, <1>2 DEF LocksOK, Holds
<1>6. StateOK  BY <1>4 DEF StateOK, StateEvents, CopyOK, SyncInit
<1> QED  BY <1>3, <1>4, <1>5, <1>6 DEF SyncInv

-----------------------------------------------------------------------------
(* What a step does to the calls *)

OtherCalls(w) == \A v \in Writers : v # w => writer'[v] = writer[v]

LEMMA GoesTo ==
  ASSUME SyncInv, NEW w \in Writers, NEW label \in {"lock", "cache", "publish", "keep", "unlock"},
         Goes(w, label)
  PROVE  /\ writer' \in [Writers -> CallRecords] /\ OtherCalls(w)
         /\ writer'[w].at = label /\ writer'[w].op = writer[w].op
         /\ writer'[w].node = writer[w].node /\ writer'[w].value = writer[w].value
         /\ writer'[w].locked = writer[w].locked
<1>1. writer \in [Writers -> CallRecords]  BY DEF SyncInv, SyncTypeOK, CallRecords
<1>2. writer' = [writer EXCEPT ![w] = [@ EXCEPT !.at = label]]  BY DEF Goes
<1>3. writer[w] \in CallRecords  BY <1>1
<1>4. [writer[w] EXCEPT !.at = label] \in CallRecords  BY <1>3 DEF CallRecords
<1> QED  BY <1>1, <1>2, <1>3, <1>4 DEF OtherCalls, CallRecords

LEMMA BeginsAs ==
  ASSUME SyncInv, NEW w \in Writers, NEW n \in Peers, NEW op \in Ops, NEW value \in Versions,
         NEW locked \in BOOLEAN, NEW label \in {"lock", "cache", "publish"},
         Begin(w, n, op, value, locked, label)
  PROVE  /\ writer' \in [Writers -> CallRecords] /\ OtherCalls(w)
         /\ writer[w].at = "free" /\ writer'[w].at = label /\ writer'[w].op = op
         /\ writer'[w].node = n /\ writer'[w].value = value /\ writer'[w].locked = locked
<1>1. writer \in [Writers -> CallRecords]  BY DEF SyncInv, SyncTypeOK, CallRecords
<1>2. [at |-> label, op |-> op, node |-> n, value |-> value, locked |-> locked] \in CallRecords
  BY DEF CallRecords
<1> QED  BY <1>1, <1>2 DEF OtherCalls, Begin

LEMMA EndsCall ==
  ASSUME SyncInv, NEW w \in Writers, writer' = [writer EXCEPT ![w] = NoCall]
  PROVE  /\ writer' \in [Writers -> CallRecords] /\ OtherCalls(w)
         /\ writer'[w].at = "free"
<1>1. writer \in [Writers -> CallRecords]  BY DEF SyncInv, SyncTypeOK, CallRecords
<1>2. NoCall \in CallRecords /\ NoCall.at = "free"
  BY SyncAssumption DEF NoCall, CallRecords, Ops, Versions, Absent
<1> QED  BY <1>1, <1>2 DEF OtherCalls

LEMMA SentEvents ==
  ASSUME SyncInv, NEW n \in Peers, NEW topic \in {"cache", "state"}, NEW action \in Ops,
         NEW value \in Versions, Send(n, topic, action, value)
  PROVE  events' \subseteq SyncEvents
BY DEF Send, SyncEvents, SyncInv

\* A set or a deletion at work, whose fields have their types
LEMMA Working ==
  ASSUME SyncInv, NEW w \in Writers, writer[w].at # "free"
  PROVE  /\ writer[w].node \in Peers /\ writer[w].op \in Ops /\ writer[w].value \in Versions
         /\ writer[w].locked \in BOOLEAN /\ Stored(w) \in Versions
<1>1. writer[w] \in CallRecords  BY DEF SyncInv, SyncTypeOK, CallRecords
<1>2. Absent \in Versions  BY SyncAssumption DEF Absent, Versions
<1> QED  BY <1>1, <1>2 DEF SyncInv, WriterOK, CallRecords, Stored

\* The end of a call that had a lock, or may have had one
LEMMA FinishesType ==
  ASSUME SyncInv, NEW w \in Writers, Finishes(w), writer[w].op \in Locks
  PROVE  /\ writer' \in [Writers -> CallRecords]
         /\ lockOwner' \in [Locks -> Peers \cup {NoPeer}] /\ overdue' \subseteq Writers
<1>1. writer' = [writer EXCEPT ![w] = NoCall]  BY DEF Finishes
<1>2. writer' \in [Writers -> CallRecords]  BY <1>1, EndsCall
<1> QED  BY <1>2 DEF Finishes, SyncInv, SyncTypeOK, Holders

-----------------------------------------------------------------------------
(* Types *)

LEMMA NextSyncType ==
  ASSUME SyncInv, SyncNext
  PROVE  SyncTypeOK' /\ (events \subseteq SyncEvents)'
<1> USE DEF SyncInv
<1>0. Absent \in Versions /\ \A v \in Versions : v < MaxVersions => v + 1 \in Versions
  BY SyncAssumption DEF Absent, Versions
<1>f. writer \in [Writers -> CallRecords]  BY DEF SyncTypeOK, CallRecords
<1> DEFINE Typed == /\ writer' \in [Writers -> CallRecords]
                    /\ (events \subseteq SyncEvents)'
                    /\ shared' \in Versions /\ state' \in Versions /\ copy' \in [Peers -> Versions]
                    /\ stray' \in [Peers -> Versions] /\ stateCopy' \in [Peers -> Versions]
                    /\ lockOwner' \in [Locks -> Peers \cup {NoPeer}] /\ overdue' \subseteq Writers
                    /\ versions' \in Versions /\ disturbed' \in BOOLEAN
<1>s. SUFFICES Typed
  BY DEF SyncTypeOK, CallRecords
<1> USE DEF cacheView, lockView, stateView, SyncTypeOK, Locks
<1>1. ASSUME NEW w \in Writers, NEW n \in Peers, NEW op \in {"set", "delete"},
             NEW locked \in BOOLEAN, StartWrite(w, n, op, locked)
      PROVE  Typed
  <2>1. versions + 1 \in Versions /\ versions' = versions + 1
    BY <1>0, <1>1 DEF StartWrite, NewVersion
  <2>2. writer' \in [Writers -> CallRecords]
    <3>1. op \in Ops  BY DEF Ops
    <3>2. \E label \in {"lock", "cache", "publish"} : Begin(w, n, op, versions + 1, locked, label)
      BY <1>1 DEF StartWrite
    <3> QED  BY <2>1, <3>1, <3>2, BeginsAs
  <2> QED  BY <1>1, <2>1, <2>2 DEF StartWrite
<1>2. ASSUME NEW w \in Writers, LockWrite(w)  PROVE Typed
  <2>1. writer[w].at # "free" /\ writer[w].op \in {"set", "delete"}  BY <1>2 DEF LockWrite, Doing
  <2>2. writer' \in [Writers -> CallRecords]
    BY <1>2, GoesTo, EndsCall DEF LockWrite
  <2> QED  BY <1>2, <2>1, <2>2, Working DEF LockWrite
<1>3. ASSUME NEW w \in Writers, WriteCache(w)  PROVE Typed
  <2>1. writer[w].at # "free"  BY <1>3 DEF WriteCache, Doing
  <2>2. writer' \in [Writers -> CallRecords]  BY <1>3, GoesTo DEF WriteCache
  <2> QED  BY <1>3, <2>1, <2>2, Working DEF WriteCache
<1>4. ASSUME NEW w \in Writers, Broadcast(w)  PROVE Typed
  <2>1. writer[w].at # "free"  BY <1>4 DEF Broadcast, Doing
  <2>2. writer' \in [Writers -> CallRecords]  BY <1>4, GoesTo DEF Broadcast
  <2>3. events' \subseteq SyncEvents  BY <1>4, <2>1, Working, SentEvents DEF Broadcast
  <2> QED  BY <1>4, <2>2, <2>3 DEF Broadcast
<1>5. ASSUME NEW w \in Writers, EndWrite(w)  PROVE Typed
  <2>1. Finishes(w) /\ writer[w].op \in Locks  BY <1>5 DEF EndWrite, Doing
  <2> QED  BY <1>5, <2>1, FinishesType DEF EndWrite
<1>6. ASSUME NEW n \in Peers, ReadShared(n)  PROVE Typed
  BY <1>6, <1>f DEF ReadShared
<1>7. ASSUME NEW n \in Peers, ClearLocal(n)  PROVE Typed
  BY <1>7, <1>f, <1>0 DEF ClearLocal
<1>8. ASSUME NEW w \in Writers, NEW n \in Peers, StartRestore(w, n)  PROVE Typed
  <2>1. versions + 1 \in Versions /\ versions' = versions + 1
    BY <1>0, <1>8 DEF StartRestore, NewVersion
  <2>2. writer' \in [Writers -> CallRecords]
    BY <1>8, <2>1, BeginsAs DEF StartRestore, Ops
  <2> QED  BY <1>8, <2>1, <2>2 DEF StartRestore, Quiet
<1>9. ASSUME NEW w \in Writers, RestoreCache(w)  PROVE Typed
  <2>1. writer[w].at # "free"  BY <1>9 DEF RestoreCache, Doing
  <2>2. writer' \in [Writers -> CallRecords]  BY <1>9, GoesTo DEF RestoreCache
  <2> QED  BY <1>9, <2>1, <2>2, Working DEF RestoreCache
<1>10. ASSUME NEW w \in Writers, NEW n \in Peers, StartSync(w, n)  PROVE Typed
  <2>1. writer' \in [Writers -> CallRecords]
    BY <1>10, BeginsAs DEF StartSync, Ops
  <2>2. versions' \in Versions  BY <1>0, <1>10 DEF StartSync, NewVersion
  <2> QED  BY <1>10, <2>1, <2>2 DEF StartSync
<1>11. ASSUME NEW w \in Writers, PublishState(w)  PROVE Typed
  <2>1. writer[w].at # "free"  BY <1>11 DEF PublishState, Doing
  <2>2. writer' \in [Writers -> CallRecords]
    <3>1. CASE writer[w].op = "sync"
      <4>1. Goes(w, "keep")  BY <1>11, <3>1 DEF PublishState, Goes
      <4> QED  BY <4>1, GoesTo
    <3>2. CASE writer[w].op # "sync"
      <4>1. writer' = [writer EXCEPT ![w] = NoCall]  BY <1>11, <3>2 DEF PublishState
      <4> QED  BY <4>1, EndsCall
    <3> QED  BY <3>1, <3>2
  <2>3. events' \subseteq SyncEvents
    BY <1>11, <2>1, Working, SentEvents DEF PublishState, Ops
  <2> QED  BY <1>11, <2>2, <2>3 DEF PublishState
<1>12. ASSUME NEW w \in Writers, KeepState(w)  PROVE Typed
  <2>1. Finishes(w) /\ writer[w].op \in Locks /\ writer[w].at # "free"
    BY <1>12 DEF KeepState, Doing
  <2> QED  BY <1>12, <2>1, FinishesType, Working DEF KeepState
<1>13. ASSUME NEW n \in Peers, ClearState(n)  PROVE Typed
  BY <1>13, <1>f, <1>0 DEF ClearState
<1>14. ASSUME NEW e \in events, HandleStateEvent(e) \/ HandleCacheEvent(e) \/ LoseEvent(e)
       PROVE  Typed
  <2>1. e.to \in Peers /\ e.value \in Versions /\ events' \subseteq SyncEvents
    BY <1>14 DEF SyncEvents, HandleStateEvent, HandleCacheEvent, LoseEvent
  <2> QED  BY <1>14, <2>1, <1>f DEF HandleStateEvent, HandleCacheEvent, LoseEvent
<1>15. ASSUME NEW op \in Locks, LockEnds(op)  PROVE Typed
  BY <1>15, <1>f DEF LockEnds, Holders
<1> QED
  BY <1>1, <1>2, <1>3, <1>4, <1>5, <1>6, <1>7, <1>8, <1>9, <1>10, <1>11, <1>12, <1>13, <1>14, <1>15
     DEF SyncNext, ValueNext, StateNext, Passing

-----------------------------------------------------------------------------
(* Calls and locks *)

LEMMA NextWriters ==
  ASSUME SyncInv, SyncNext
  PROVE  \A v \in Writers : WriterOK(v)'
<1> USE DEF SyncInv
<1>0. SUFFICES ASSUME NEW v \in Writers PROVE WriterOK(v)'
  OBVIOUS
<1>a. ASSUME NEW w \in Writers, OtherCalls(w), v # w  PROVE WriterOK(v)'
  BY <1>a DEF WriterOK, OtherCalls
<1>b. ASSUME UNCHANGED writer  PROVE WriterOK(v)'
  BY <1>b DEF WriterOK
<1>1. ASSUME NEW w \in Writers, NEW n \in Peers, NEW op \in {"set", "delete"},
             NEW locked \in BOOLEAN, StartWrite(w, n, op, locked)
      PROVE  WriterOK(v)'
  <2>1. versions + 1 \in Versions /\ op \in Ops
    BY <1>1, SyncAssumption DEF StartWrite, NewVersion, Versions, SyncTypeOK, Ops
  <2>2. \E label \in {"lock", "cache", "publish"} : Begin(w, n, op, versions + 1, locked, label)
    BY <1>1 DEF StartWrite
  <2>3. OtherCalls(w) /\ writer'[w].node \in Peers /\ writer'[w].op \in {"set", "delete"}
    BY <2>1, <2>2, BeginsAs
  <2> QED  BY <1>a, <2>3 DEF WriterOK
<1>2. ASSUME NEW w \in Writers, LockWrite(w) \/ WriteCache(w) \/ Broadcast(w) \/ EndWrite(w)
      PROVE  WriterOK(v)'
  <2>1. writer[w].op \in {"set", "delete"} /\ writer[w].at # "free" /\ writer[w].node \in Peers
    BY <1>2, Working DEF LockWrite, WriteCache, Broadcast, EndWrite, Doing
  <2>2. \/ \E label \in {"lock", "cache", "publish", "keep", "unlock"} : Goes(w, label)
        \/ writer' = [writer EXCEPT ![w] = NoCall]
    BY <1>2 DEF LockWrite, WriteCache, Broadcast, EndWrite, Finishes
  <2>3. /\ OtherCalls(w)
        /\ \/ writer'[w].at = "free"
           \/ writer'[w].op = writer[w].op /\ writer'[w].node = writer[w].node
    BY <2>2, GoesTo, EndsCall
  <2> QED  BY <1>a, <2>1, <2>3 DEF WriterOK
<1>3. ASSUME NEW w \in Writers, NEW n \in Peers, StartRestore(w, n) \/ StartSync(w, n)
      PROVE  WriterOK(v)'
  <2>1. stateCopy[n] \in Versions  BY DEF SyncTypeOK
  <2>2. StartRestore(w, n) => versions + 1 \in Versions
    BY SyncAssumption DEF StartRestore, NewVersion, Versions, SyncTypeOK
  <2>3. PICK value \in Versions, op \in Ops, label \in {"cache", "publish"}, locked \in BOOLEAN :
          Begin(w, n, op, value, locked, label) /\ locked = FALSE
    BY <1>3, <2>1, <2>2 DEF StartRestore, StartSync, Ops
  <2>4. OtherCalls(w) /\ writer'[w].node \in Peers /\ writer'[w].at \in {"cache", "publish"}
    BY <2>3, BeginsAs
  <2> QED  BY <1>a, <2>4 DEF WriterOK
<1>4. ASSUME NEW w \in Writers, RestoreCache(w) \/ PublishState(w) \/ KeepState(w)
      PROVE  WriterOK(v)'
  <2>1. writer[w].at # "free" /\ writer[w].node \in Peers
    BY <1>4, Working DEF RestoreCache, PublishState, KeepState, Doing
  <2>2. Goes(w, "publish") \/ Goes(w, "keep") \/ writer' = [writer EXCEPT ![w] = NoCall]
    BY <1>4 DEF RestoreCache, PublishState, KeepState, Goes, Finishes
  <2>3. /\ OtherCalls(w)
        /\ \/ writer'[w].at = "free"
           \/ writer'[w].at \in {"publish", "keep"} /\ writer'[w].node = writer[w].node
    BY <2>2, GoesTo, EndsCall
  <2> QED  BY <1>a, <2>1, <2>3 DEF WriterOK
<1>5. ASSUME NEW n \in Peers, ReadShared(n) \/ ClearLocal(n) \/ ClearState(n)  PROVE WriterOK(v)'
  BY <1>5, <1>b DEF ReadShared, ClearLocal, ClearState
<1>6. ASSUME NEW e \in events, HandleStateEvent(e) \/ HandleCacheEvent(e) \/ LoseEvent(e)
      PROVE  WriterOK(v)'
  BY <1>6, <1>b DEF HandleStateEvent, HandleCacheEvent, LoseEvent
<1>7. ASSUME NEW op \in Locks, LockEnds(op)  PROVE WriterOK(v)'
  BY <1>7, <1>b DEF LockEnds
<1> QED
  BY <1>1, <1>2, <1>3, <1>4, <1>5, <1>6, <1>7 DEF SyncNext, ValueNext, StateNext, Passing

\* A step that lets nobody in and takes no lock away
LEMMA SameLocks ==
  ASSUME SyncInv, UNCHANGED lockOwner,
         \A v \in Writers, op \in {"set", "delete"} :
           Holds(v, op)' /\ v \notin overdue' =>
             Holds(v, op) /\ v \notin overdue /\ writer'[v].node = writer[v].node
  PROVE  LocksOK'
BY DEF SyncInv, LocksOK

\* What a call may release another may have held.
LEMMA FinishesLocks ==
  ASSUME SyncInv, NEW w \in Writers, Finishes(w), writer[w].op \in Locks
  PROVE  LocksOK'
<1> DEFINE op == writer[w].op
<1>1. writer' = [writer EXCEPT ![w] = NoCall]  BY DEF Finishes
<1>2. OtherCalls(w) /\ \A o \in {"set", "delete"} : ~Holds(w, o)'
  BY <1>1, EndsCall DEF Holds
<1>3. ASSUME NEW v \in Writers, NEW o \in {"set", "delete"}, Holds(v, o)', v \notin overdue'
      PROVE  v # w /\ Holds(v, o) /\ writer'[v] = writer[v] /\ v \notin overdue
  <2>1. v # w  BY <1>2, <1>3
  <2>2. writer'[v] = writer[v]  BY <1>2, <2>1 DEF OtherCalls
  <2> QED  BY <1>3, <2>1, <2>2 DEF Finishes, Holds
<1>4. CASE UNCHANGED lockOwner  BY <1>3, <1>4, SameLocks
<1>5. CASE /\ lockOwner' = [lockOwner EXCEPT ![op] = NoPeer]
           /\ overdue' = (overdue \cup Holders(op)) \ {w}
  <2> SUFFICES ASSUME NEW v \in Writers, NEW o \in {"set", "delete"}, Holds(v, o)', v \notin overdue'
               PROVE  lockOwner'[o] = writer'[v].node
    BY DEF LocksOK
  <2>1. v # w /\ Holds(v, o) /\ writer'[v] = writer[v] /\ v \notin overdue  BY <1>3
  <2>2. o # op  BY <1>5, <2>1 DEF Holders
  <2>3. lockOwner'[o] = lockOwner[o]  BY <1>5, <2>2 DEF SyncInv, SyncTypeOK, Locks
  <2> QED  BY <2>1, <2>3 DEF SyncInv, LocksOK
<1> QED  BY <1>4, <1>5 DEF Finishes

LEMMA NextLocks ==
  ASSUME SyncInv, SyncNext
  PROVE  LocksOK'
<1> USE DEF SyncInv, cacheView, lockView
<1>a. ASSUME NEW w \in Writers, OtherCalls(w), UNCHANGED <<lockOwner, overdue>>,
             \A op \in {"set", "delete"} :
               Holds(w, op)' => Holds(w, op) /\ writer'[w].node = writer[w].node
      PROVE  LocksOK'
  <2>1. \A v \in Writers, op \in {"set", "delete"} :
          Holds(v, op)' => Holds(v, op) /\ writer'[v].node = writer[v].node
    BY <1>a DEF OtherCalls, Holds
  <2> QED  BY <1>a, <2>1, SameLocks
<1>b. ASSUME UNCHANGED <<lockOwner, overdue, writer>>  PROVE LocksOK'
  BY <1>b DEF LocksOK, Holds
<1>1. ASSUME NEW w \in Writers, NEW n \in Peers, NEW op \in {"set", "delete"},
             NEW locked \in BOOLEAN, StartWrite(w, n, op, locked)
      PROVE  LocksOK'
  <2>1. versions + 1 \in Versions /\ op \in Ops
    BY <1>1, SyncAssumption DEF StartWrite, NewVersion, Versions, SyncTypeOK, Ops
  <2>2. PICK label \in {"lock", "cache"} :
          Begin(w, n, op, versions + 1, locked, label) /\ (locked => label = "lock")
    BY <1>1 DEF StartWrite
  <2>3. /\ OtherCalls(w) /\ writer'[w].locked = locked /\ writer'[w].at = label
    BY <2>1, <2>2, BeginsAs
  <2>4. \A o \in {"set", "delete"} : ~Holds(w, o)'  BY <2>2, <2>3 DEF Holds
  <2>5. UNCHANGED <<lockOwner, overdue>>  BY <1>1 DEF StartWrite
  <2> QED  BY <1>a, <2>3, <2>4, <2>5
<1>2. ASSUME NEW w \in Writers, LockWrite(w)  PROVE LocksOK'
  <2> DEFINE n == writer[w].node
             op == writer[w].op
  <2>1. /\ op \in {"set", "delete"} /\ n \in Peers /\ writer[w].at = "lock"
        /\ overdue' = overdue
    BY <1>2, Working DEF LockWrite, Doing
  <2>2. CASE ~Grants(n, op)
    <3>1. writer' = [writer EXCEPT ![w] = NoCall] /\ UNCHANGED lockOwner
      BY <1>2, <2>2 DEF LockWrite
    <3>2. OtherCalls(w) /\ \A o \in {"set", "delete"} : ~Holds(w, o)'
      BY <3>1, EndsCall DEF Holds
    <3> QED  BY <1>a, <2>1, <3>1, <3>2
  <2>3. CASE Grants(n, op)
    <3>1. lockOwner' = [lockOwner EXCEPT ![op] = n] /\ Goes(w, "cache")
      BY <1>2, <2>3 DEF LockWrite
    <3>2. OtherCalls(w) /\ writer'[w].op = op /\ writer'[w].node = n  BY <3>1, GoesTo
    <3> SUFFICES ASSUME NEW v \in Writers, NEW o \in {"set", "delete"}, Holds(v, o)',
                        v \notin overdue
                 PROVE  lockOwner'[o] = writer'[v].node
      BY <2>1 DEF LocksOK
    <3>3. lockOwner'[op] = n /\ (o # op => lockOwner'[o] = lockOwner[o])
      BY <2>1, <3>1 DEF SyncTypeOK, Locks
    <3>4. CASE v = w
      <4>1. o = op  BY <3>2, <3>4 DEF Holds
      <4> QED  BY <3>2, <3>3, <3>4, <4>1
    <3>5. CASE v # w
      <4>1. writer'[v] = writer[v] /\ Holds(v, o)  BY <3>2, <3>5 DEF OtherCalls, Holds
      <4>2. lockOwner[o] = writer[v].node  BY <4>1 DEF LocksOK
      <4>3. writer[v].node \in Peers  BY <4>1, Working DEF Holds
      <4>4. o = op => lockOwner[o] = n  BY <2>3, <4>2, <4>3, SyncAssumption DEF Grants
      <4> QED  BY <3>3, <4>1, <4>2, <4>4
    <3> QED  BY <3>4, <3>5
  <2> QED  BY <2>2, <2>3
<1>3. ASSUME NEW w \in Writers, WriteCache(w) \/ Broadcast(w)  PROVE LocksOK'
  <2>1. /\ writer[w].at \in {"cache", "publish"} /\ UNCHANGED <<lockOwner, overdue>>
        /\ Goes(w, "publish") \/ Goes(w, "unlock")
    BY <1>3 DEF WriteCache, Broadcast, Doing
  <2>2. OtherCalls(w) /\ \A o \in {"set", "delete"} :
                           Holds(w, o)' => Holds(w, o) /\ writer'[w].node = writer[w].node
    BY <2>1, GoesTo DEF Holds
  <2> QED  BY <1>a, <2>1, <2>2
<1>4. ASSUME NEW w \in Writers, EndWrite(w) \/ KeepState(w)  PROVE LocksOK'
  <2>1. Finishes(w) /\ writer[w].op \in Locks
    BY <1>4 DEF EndWrite, KeepState, Doing, Locks
  <2> QED  BY <2>1, FinishesLocks
<1>5. ASSUME NEW w \in Writers, NEW n \in Peers, StartRestore(w, n)  PROVE LocksOK'
  <2>1. versions + 1 \in Versions
    BY <1>5, SyncAssumption DEF StartRestore, NewVersion, Versions, SyncTypeOK
  <2>2. OtherCalls(w) /\ writer'[w].locked = FALSE
    BY <1>5, <2>1, BeginsAs DEF StartRestore, Ops
  <2>3. UNCHANGED <<lockOwner, overdue>>  BY <1>5 DEF StartRestore
  <2> QED  BY <1>a, <2>2, <2>3 DEF Holds
<1>6. ASSUME NEW w \in Writers, NEW n \in Peers, StartSync(w, n)  PROVE LocksOK'
  <2>1. stateCopy[n] \in Versions  BY DEF SyncTypeOK
  <2>2. OtherCalls(w) /\ writer'[w].locked = FALSE
    BY <1>6, <2>1, BeginsAs DEF StartSync, Ops
  <2>3. /\ overdue' = overdue
        /\ \A o \in {"set", "delete"} : lockOwner'[o] = lockOwner[o]
    BY <1>6 DEF StartSync, SyncTypeOK, Locks
  <2>4. \A v \in Writers, o \in {"set", "delete"} :
          Holds(v, o)' => Holds(v, o) /\ writer'[v] = writer[v]
    BY <2>2 DEF OtherCalls, Holds
  <2> QED  BY <2>3, <2>4 DEF LocksOK
<1>7. ASSUME NEW w \in Writers, RestoreCache(w) \/ PublishState(w)  PROVE LocksOK'
  <2>1. writer[w].op \notin {"set", "delete"} /\ UNCHANGED <<lockOwner, overdue>>
    BY <1>7 DEF RestoreCache, PublishState, Doing
  <2>2. Goes(w, "publish") \/ Goes(w, "keep") \/ writer' = [writer EXCEPT ![w] = NoCall]
    BY <1>7 DEF RestoreCache, PublishState, Goes
  <2>3. OtherCalls(w) /\ (writer'[w].at = "free" \/ writer'[w].op = writer[w].op)
    BY <2>2, GoesTo, EndsCall
  <2>4. \A o \in {"set", "delete"} : ~Holds(w, o)'  BY <2>1, <2>3 DEF Holds
  <2> QED  BY <1>a, <2>1, <2>3, <2>4
<1>8. ASSUME NEW n \in Peers, ReadShared(n) \/ ClearLocal(n) \/ ClearState(n)  PROVE LocksOK'
  BY <1>8, <1>b DEF ReadShared, ClearLocal, ClearState
<1>9. ASSUME NEW e \in events, HandleStateEvent(e) \/ HandleCacheEvent(e) \/ LoseEvent(e)
      PROVE  LocksOK'
  BY <1>9, <1>b DEF HandleStateEvent, HandleCacheEvent, LoseEvent
<1>10. ASSUME NEW op \in Locks, LockEnds(op)  PROVE LocksOK'
  <2> SUFFICES ASSUME NEW v \in Writers, NEW o \in {"set", "delete"}, Holds(v, o), v \notin overdue'
               PROVE  lockOwner'[o] = writer[v].node
    BY <1>10 DEF LocksOK, LockEnds, Holds
  <2>1. o # op /\ v \notin overdue  BY <1>10 DEF LockEnds, Holders
  <2>2. lockOwner'[o] = lockOwner[o]  BY <1>10, <2>1 DEF LockEnds, SyncTypeOK, Locks
  <2> QED  BY <2>1, <2>2 DEF LocksOK
<1> QED
  BY <1>1, <1>2, <1>3, <1>4, <1>5, <1>6, <1>7, <1>8, <1>9, <1>10
     DEF SyncNext, ValueNext, StateNext, Passing

-----------------------------------------------------------------------------
(* The state and its copies *)

\* A step that touches no call, no event and no value of the state
LEMMA SameState ==
  ASSUME SyncInv, UNCHANGED <<state, stateCopy>>, disturbed => disturbed', StateEvents' = StateEvents,
         \A v \in Writers : (Restores(v) \/ Restores(v)') => writer'[v] = writer[v]
  PROVE  StateOK'
<1> SUFFICES ASSUME ~disturbed' PROVE StateOK'
  BY DEF StateOK
<1>1. StateOK /\ ~disturbed  BY DEF SyncInv
<1>2. \A v \in Writers : /\ Restores(v)' <=> Restores(v)
                         /\ Announces(v) => Restores(v) /\ Announces(v)'
  BY DEF Restores, Announces, Doing
<1>3. \A v \in Writers : RestoreOK(v)'
  <2> SUFFICES ASSUME NEW v \in Writers, Restores(v)' PROVE RestoreOK(v)'
    BY DEF RestoreOK
  <2>1. RestoreOK(v) /\ Restores(v) /\ writer'[v] = writer[v]  BY <1>1, <1>2 DEF StateOK
  <2> QED  BY <1>2, <2>1 DEF RestoreOK
<1>4. \A e \in StateEvents' : e.value = state'  BY <1>1 DEF StateOK
<1>5. \A n \in Peers : CopyOK(n)'
  <2> SUFFICES ASSUME NEW n \in Peers PROVE CopyOK(n)'
    OBVIOUS
  <2>1. CopyOK(n)  BY <1>1 DEF StateOK
  <2> QED  BY <1>2, <2>1 DEF CopyOK
<1> QED  BY <1>3, <1>4, <1>5 DEF StateOK

LEMMA PublishKeeps ==
  ASSUME SyncInv, NEW w \in Writers, PublishState(w)
  PROVE  StateOK'
<1> USE DEF SyncInv, cacheView, lockView
<1> SUFFICES ASSUME ~disturbed' PROVE StateOK'
  BY DEF StateOK
<1>1. /\ Send(writer[w].node, "state", "set", writer[w].value) /\ UNCHANGED disturbed
      /\ UNCHANGED <<state, stateCopy>> /\ Restores(w) /\ writer[w].at = "publish"
  BY DEF PublishState, Doing, Restores
<1>2. StateOK /\ ~disturbed /\ RestoreOK(w)  BY <1>1 DEF StateOK
<1>3. /\ writer[w].op = "restore" /\ StateEvents = {} /\ state = writer[w].value
      /\ \A v \in Writers : Restores(v) => v = w
  BY <1>1, <1>2 DEF RestoreOK
<1>4. OtherCalls(w) /\ writer'[w].at = "free"
  <2>1. writer' = [writer EXCEPT ![w] = NoCall]  BY <1>3 DEF PublishState
  <2> QED  BY <2>1, EndsCall
<1>5. \A v \in Writers : ~Restores(v)'  BY <1>3, <1>4 DEF OtherCalls, Restores
<1>6. \A e \in StateEvents' : e.value = state'  BY <1>1, <1>3 DEF Send, StateEvents
<1>7. ASSUME NEW n \in Peers  PROVE CopyOK(n)'
  <2>1. CASE n = writer[w].node
    <3>1. stateCopy[n] \in {Absent, state}
      <4>1. CopyOK(n)  BY <1>2 DEF StateOK
      <4>2. \A v \in Writers : Announces(v) => v = w  BY <1>3 DEF Announces, Doing, Restores
      <4> QED  BY <1>3, <2>1, <4>1, <4>2 DEF CopyOK
    <3> QED  BY <1>1, <3>1 DEF CopyOK
  <2>2. CASE n # writer[w].node
    <3>1. \E e \in StateEvents' : e.to = n
      <4> DEFINE sent == [to |-> n, topic |-> "state", action |-> "set", value |-> writer[w].value]
      <4>1. sent \in events' /\ sent.topic = "state" /\ sent.to = n  BY <1>1, <2>2 DEF Send
      <4> QED  BY <4>1 DEF StateEvents
    <3> QED  BY <3>1 DEF CopyOK
  <2> QED  BY <2>1, <2>2
<1> QED  BY <1>5, <1>6, <1>7 DEF StateOK, RestoreOK

LEMMA RestoreKeeps ==
  ASSUME SyncInv, NEW w \in Writers, RestoreCache(w)
  PROVE  StateOK'
<1> USE DEF SyncInv, cacheView, lockView
<1> SUFFICES ASSUME ~disturbed' PROVE StateOK'
  BY DEF StateOK
<1>1. /\ ~disturbed /\ state' = writer[w].value /\ events' = events /\ Goes(w, "publish")
      /\ stateCopy' = [stateCopy EXCEPT ![writer[w].node] = writer[w].value]
      /\ Restores(w) /\ writer[w].op = "restore"
  BY DEF RestoreCache, Doing, Restores
<1>2. StateOK /\ RestoreOK(w)  BY <1>1 DEF StateOK
<1>3. StateEvents = {} /\ \A v \in Writers : Restores(v) => v = w
  BY <1>1, <1>2 DEF RestoreOK
<1>4. /\ OtherCalls(w) /\ writer'[w].at = "publish" /\ writer'[w].op = "restore"
      /\ writer'[w].node = writer[w].node /\ writer'[w].value = writer[w].value
  BY <1>1, GoesTo
<1>5. StateEvents' = {}  BY <1>1, <1>3 DEF StateEvents
<1>6. \A v \in Writers : Restores(v)' => v = w  BY <1>3, <1>4 DEF OtherCalls, Restores
<1>7. \A v \in Writers : RestoreOK(v)'
  BY <1>1, <1>4, <1>5, <1>6 DEF RestoreOK
<1>8. ASSUME NEW n \in Peers  PROVE CopyOK(n)'
  <2>1. CASE n = writer[w].node
    BY <1>1, <2>1 DEF CopyOK, SyncTypeOK
  <2>2. CASE n # writer[w].node
    <3>1. Announces(w)' /\ writer'[w].node # n  BY <1>4, <2>2 DEF Announces, Doing
    <3> QED  BY <3>1 DEF CopyOK
  <2> QED  BY <2>1, <2>2
<1> QED  BY <1>5, <1>7, <1>8 DEF StateOK

LEMMA BeginsRestoreKeeps ==
  ASSUME SyncInv, NEW w \in Writers, NEW n \in Peers, StartRestore(w, n)
  PROVE  StateOK'
<1> USE DEF SyncInv, cacheView, lockView
<1> SUFFICES ASSUME ~disturbed' PROVE StateOK'
  BY DEF StateOK
<1>1. ~disturbed /\ Quiet /\ UNCHANGED <<state, stateCopy, events>>  BY DEF StartRestore
<1>2. StateOK /\ StateEvents = {} /\ \A v \in Writers : ~Restores(v) /\ ~Announces(v)
  BY <1>1 DEF StateOK, Quiet, StateEvents, Restores, Announces, Doing
<1>3. versions + 1 \in Versions
  BY SyncAssumption DEF StartRestore, NewVersion, Versions, SyncTypeOK
<1>4. OtherCalls(w) /\ writer'[w].at = "cache" /\ writer'[w].op = "restore"
  <2>1. PICK op \in Ops, locked \in BOOLEAN, label \in {"cache", "publish"} :
          Begin(w, n, op, versions + 1, locked, label) /\ op = "restore" /\ label = "cache"
    BY DEF StartRestore, Ops
  <2> QED  BY <1>3, <2>1, BeginsAs
<1>5. StateEvents' = {}  BY <1>1, <1>2 DEF StateEvents
<1>6. \A v \in Writers : Restores(v)' => v = w  BY <1>2, <1>4 DEF OtherCalls, Restores
<1>7. \A v \in Writers : RestoreOK(v)'  BY <1>4, <1>5, <1>6 DEF RestoreOK
<1>8. \A m \in Peers : CopyOK(m)'
  <2> SUFFICES ASSUME NEW m \in Peers PROVE CopyOK(m)'
    OBVIOUS
  <2>1. stateCopy[m] \in {Absent, state}  BY <1>1, <1>2 DEF StateOK, CopyOK
  <2> QED  BY <1>1, <2>1 DEF CopyOK
<1> QED  BY <1>5, <1>7, <1>8 DEF StateOK

LEMMA EventKeeps ==
  ASSUME SyncInv, NEW e \in events, HandleStateEvent(e)
  PROVE  StateOK'
<1> USE DEF SyncInv, cacheView, lockView
<1> SUFFICES ASSUME ~disturbed' PROVE StateOK'
  BY DEF StateOK
<1>1. /\ ~disturbed /\ e \in StateEvents /\ UNCHANGED <<state, writer>> /\ events' = events \ {e}
      /\ stateCopy' = [stateCopy EXCEPT ![e.to] = e.value]
  BY DEF HandleStateEvent, StateEvents
<1>2. StateOK /\ e.value = state /\ e.to \in Peers
  BY <1>1 DEF StateOK, SyncEvents
<1>3. \A v \in Writers : ~Restores(v)' /\ ~Restores(v)
  BY <1>1, <1>2 DEF StateOK, RestoreOK, Restores
<1>4. StateEvents' = StateEvents \ {e}  BY <1>1 DEF StateEvents
<1>5. ASSUME NEW n \in Peers  PROVE CopyOK(n)'
  <2>1. CASE n = e.to  BY <1>1, <1>2, <2>1 DEF CopyOK, SyncTypeOK
  <2>2. CASE n # e.to
    <3>1. stateCopy'[n] = stateCopy[n]  BY <1>1, <2>2 DEF SyncTypeOK
    <3>2. CopyOK(n) /\ \A w \in Writers : ~Announces(w)
      BY <1>1, <1>2, <1>3 DEF StateOK, Announces, Doing, Restores
    <3> QED  BY <1>1, <1>4, <2>2, <3>1, <3>2 DEF CopyOK
  <2> QED  BY <2>1, <2>2
<1> QED  BY <1>1, <1>2, <1>3, <1>4, <1>5 DEF StateOK, RestoreOK

LEMMA ClearKeeps ==
  ASSUME SyncInv, NEW n \in Peers, ClearLocal(n)
  PROVE  StateOK'
<1> USE DEF SyncInv
<1> SUFFICES ASSUME ~disturbed' PROVE StateOK'
  BY DEF StateOK
<1>1. /\ ~disturbed /\ UNCHANGED <<state, writer, events>>
      /\ stateCopy' = [stateCopy EXCEPT ![n] = Absent]
  BY DEF ClearLocal
<1>2. StateOK /\ StateEvents' = StateEvents  BY <1>1 DEF StateEvents
<1>3. \A v \in Writers : RestoreOK(v)'
  BY <1>1, <1>2 DEF StateOK, RestoreOK, Restores
<1>4. ASSUME NEW m \in Peers  PROVE CopyOK(m)'
  <2>1. CopyOK(m) /\ (stateCopy'[m] = stateCopy[m] \/ stateCopy'[m] = Absent)
    BY <1>1, <1>2 DEF StateOK, SyncTypeOK
  <2> QED  BY <1>1, <1>2, <2>1 DEF CopyOK, Announces, Doing
<1> QED  BY <1>1, <1>2, <1>3, <1>4 DEF StateOK

LEMMA NextState ==
  ASSUME SyncInv, SyncNext
  PROVE  StateOK'
<1> USE DEF SyncInv, stateView
<1>1. ASSUME NEW w \in Writers, NEW n \in Peers, NEW op \in {"set", "delete"},
             NEW locked \in BOOLEAN, StartWrite(w, n, op, locked)
      PROVE  StateOK'
  <2>1. versions + 1 \in Versions /\ op \in Ops
    BY <1>1, SyncAssumption DEF StartWrite, NewVersion, Versions, SyncTypeOK, Ops
  <2>2. \E label \in {"lock", "cache", "publish"} : Begin(w, n, op, versions + 1, locked, label)
    BY <1>1 DEF StartWrite
  <2>3. OtherCalls(w) /\ writer'[w].op = op /\ writer[w].at = "free"  BY <2>1, <2>2, BeginsAs
  <2>4. StateEvents' = StateEvents /\ UNCHANGED <<state, stateCopy, disturbed>>
    BY <1>1 DEF StartWrite, StateEvents
  <2>5. \A v \in Writers : (Restores(v) \/ Restores(v)') => writer'[v] = writer[v]
    BY <2>3 DEF OtherCalls, Restores
  <2> QED  BY <2>4, <2>5, SameState
<1>2. ASSUME NEW w \in Writers, LockWrite(w) \/ WriteCache(w) \/ Broadcast(w) \/ EndWrite(w)
      PROVE  StateOK'
  <2>1. /\ writer[w].op \in {"set", "delete"} /\ UNCHANGED <<state, stateCopy, disturbed>>
        /\ \/ \E label \in {"lock", "cache", "publish", "keep", "unlock"} : Goes(w, label)
           \/ writer' = [writer EXCEPT ![w] = NoCall]
    BY <1>2 DEF LockWrite, WriteCache, Broadcast, EndWrite, Finishes, Doing
  <2>2. OtherCalls(w) /\ (writer'[w].at = "free" \/ writer'[w].op = writer[w].op)
    BY <2>1, GoesTo, EndsCall
  <2>3. StateEvents' = StateEvents
    BY <1>2 DEF LockWrite, WriteCache, Broadcast, EndWrite, StateEvents, Send
  <2>4. \A v \in Writers : (Restores(v) \/ Restores(v)') => writer'[v] = writer[v]
    BY <2>1, <2>2 DEF OtherCalls, Restores
  <2> QED  BY <2>1, <2>3, <2>4, SameState
<1>3. ASSUME NEW n \in Peers, ReadShared(n)  PROVE StateOK'
  BY <1>3, SameState DEF ReadShared, StateEvents
<1>4. ASSUME NEW w \in Writers, NEW n \in Peers, StartSync(w, n)  PROVE StateOK'
  BY <1>4 DEF StartSync, StateOK
<1>5. ASSUME NEW w \in Writers, KeepState(w)  PROVE StateOK'
  <2>1. Restores(w) /\ writer[w].op = "sync"  BY <1>5 DEF KeepState, Doing, Restores
  <2>2. disturbed' = disturbed  BY <1>5 DEF KeepState
  <2> QED  BY <2>1, <2>2 DEF StateOK, RestoreOK
<1>6. ASSUME NEW n \in Peers, ClearState(n)  PROVE StateOK'
  BY <1>6 DEF ClearState, StateOK
<1>7. ASSUME NEW e \in events, HandleCacheEvent(e) \/ LoseEvent(e)  PROVE StateOK'
  <2>1. CASE e.topic # "state" \/ HandleCacheEvent(e)
    <3>1. /\ e.topic # "state" /\ events' = events \ {e} /\ UNCHANGED <<state, stateCopy, writer>>
          /\ disturbed' = disturbed \/ disturbed' = (disturbed \/ e.topic = "state")
      BY <1>7, <2>1 DEF HandleCacheEvent, LoseEvent
    <3>2. StateEvents' = StateEvents  BY <3>1 DEF StateEvents
    <3>3. disturbed => disturbed'  BY <3>1
    <3> QED  BY <3>1, <3>2, <3>3, SameState
  <2>2. CASE e.topic = "state" /\ LoseEvent(e)
    BY <2>2 DEF LoseEvent, StateOK
  <2> QED  BY <1>7, <2>1, <2>2
<1>8. ASSUME NEW op \in Locks, LockEnds(op)  PROVE StateOK'
  BY <1>8, SameState DEF LockEnds, StateEvents
<1> QED
  BY <1>1, <1>2, <1>3, <1>4, <1>5, <1>6, <1>7, <1>8, PublishKeeps, RestoreKeeps, BeginsRestoreKeeps,
     EventKeeps, ClearKeeps
     DEF SyncNext, ValueNext, StateNext, Passing

-----------------------------------------------------------------------------
(* The theorem *)

LEMMA NextSyncInv == SyncInv /\ [SyncNext]_syncVars => SyncInv'
<1> SUFFICES ASSUME SyncInv, [SyncNext]_syncVars PROVE SyncInv'
  OBVIOUS
<1>1. CASE SyncNext
  BY <1>1, NextSyncType, NextWriters, NextLocks, NextState DEF SyncInv
<1>2. CASE UNCHANGED syncVars
  <2>1. \A w \in Writers : WriterOK(w)' /\ (RestoreOK(w) => RestoreOK(w)')
    BY <1>2 DEF SyncInv, WriterOK, RestoreOK, Restores, StateEvents, syncVars, stateView
  <2>2. SyncTypeOK' /\ (events \subseteq SyncEvents)' /\ LocksOK'
    BY <1>2 DEF SyncInv, SyncTypeOK, LocksOK, Holds, syncVars, cacheView, lockView, stateView
  <2>3. StateOK'
    BY <1>2, <2>1 DEF SyncInv, StateOK, StateEvents, CopyOK, Announces, Doing, syncVars, stateView
  <2> QED  BY <2>1, <2>2, <2>3 DEF SyncInv
<1> QED  BY <1>1, <1>2

\* When all calls have ended and all events were handled nothing excuses a copy.
LEMMA SyncInvAgrees == SyncInv => SyncTypeOK /\ CopiesAgree
<1> SUFFICES ASSUME SyncInv, Quiet, ~disturbed, NEW n \in Peers
             PROVE  stateCopy[n] \in {Absent, state}
  BY DEF SyncInv, CopiesAgree
<1>1. CopyOK(n)  BY DEF SyncInv, StateOK
<1> QED  BY <1>1 DEF CopyOK, Quiet, StateEvents, Announces, Doing

LEMMA LockedSetStep == SyncInv /\ [SyncNext]_syncVars => LockedAlone
<1> SUFFICES ASSUME SyncInv, [SyncNext]_syncVars, NEW w \in Writers,
                    Holds(w, "set"), w \notin overdue, writer[w].at # "cache", shared' # shared
             PROVE  \E v \in Writers \ {w} :
                      /\ Doing(v, {"set", "delete"}, "cache")
                      /\ \/ ~writer[v].locked \/ writer[v].op = "delete"
                         \/ v \in overdue \/ writer[v].node = writer[w].node
  BY DEF LockedAlone
<1>1. PICK v \in Writers : WriteCache(v)
  BY DEF SyncNext, ValueNext, StateNext, Passing, StartWrite, LockWrite, Broadcast, EndWrite,
         ReadShared, ClearLocal, StartRestore, RestoreCache, StartSync, PublishState, KeepState,
         ClearState, HandleStateEvent, HandleCacheEvent, LoseEvent, LockEnds, syncVars, cacheView
<1>2. Doing(v, {"set", "delete"}, "cache") /\ v # w  BY <1>1 DEF WriteCache, Doing
<1>3. CASE writer[v].locked /\ writer[v].op = "set" /\ v \notin overdue
  <2>1. Holds(v, "set")  BY <1>2, <1>3 DEF Doing, Holds
  <2>2. lockOwner["set"] = writer[v].node /\ lockOwner["set"] = writer[w].node
    BY <1>3, <2>1 DEF SyncInv, LocksOK
  <2> QED  BY <1>2, <2>2
<1>4. CASE ~(writer[v].locked /\ writer[v].op = "set" /\ v \notin overdue)
  BY <1>2, <1>4 DEF Doing
<1> QED  BY <1>3, <1>4

(* ConsistentCache and StateSynchronizer: for any instances, calls under way and writes,   *)
(* a set made under a lock is not mixed with the locked set of another instance as long as *)
(* neither lock has ended under its call, and when no restore                              *)
(* overlapped, no event was lost and nothing was cleared or synchronized, all copies of    *)
(* the state agree with the shared cache once everything has ended.                        *)
THEOREM ViewsAreKept == SyncSpec => ViewsHold
<1>1. SyncSpec => []SyncInv
  BY InitSyncInv, NextSyncInv, PTL DEF SyncSpec
<1>2. SyncInv /\ [SyncNext]_syncVars => [LockedAlone]_syncVars  BY LockedSetStep
<1> QED  BY <1>1, <1>2, SyncInvAgrees, PTL DEF SyncSpec, ViewsHold, LockedSetsAlone

-----------------------------------------------------------------------------
(* DriveSession: the inductive invariant *)

\* The session of a binding that is about to be stored is taken, and nobody else has it.
FormOK ==
  /\ form.at = "last" => ~HasSession(form.conf)
  /\ form.at = "create" => Accepts(form.conf)
  /\ form.at = "create" /\ HasSession(form.conf) =>
       /\ form.conf.session \in live /\ form.conf.session # drive.conf.session
       /\ \A j \in Transfers : /\ form.conf.session # job[j].conf.session
                               /\ form.conf.session # job[j].file

\* The server's sessions are counted.
Counted ==
  /\ \A s \in live : s <= issued
  /\ form.conf.session <= issued /\ drive.conf.session <= issued
  /\ \A j \in Transfers : job[j].conf.session <= issued /\ job[j].file <= issued

\* A transfer that is to keep a login has made it without a code, and one that is to write
\* back has a new session in a file of its own.
TransferOK(j) ==
  /\ job[j].at = "rest" => job[j] = NoTransfer
  /\ job[j].at = "keep" => job[j].conf.kind # "code" /\ HasSession(job[j].conf)
  /\ job[j].at \in {"merge", "write"} =>
       /\ ~job[j].batch /\ job[j].file # NoSession
       /\ job[j].file # job[j].conf.session

\* A transfer that will write back a session that the server takes
Renewed(j) ==
  /\ UnderWay(j) /\ ~job[j].batch
  /\ job[j].file \in live /\ job[j].file # job[j].conf.session

\* As long as no renewal may have been lost: the transfers have the drive that is there,
\* and its session is taken, or one of them will bring the one that is.
RenewalComes ==
  ~renewalLost =>
    /\ \A j \in Transfers : UnderWay(j) =>
         /\ job[j].file = job[j].conf.session \/ job[j].file \in live
         /\ drive.active => job[j].conf.kind = drive.conf.kind
    /\ drive.active /\ drive.conf.kind = "code" =>
         drive.conf.session \in live \/ \E j \in Transfers : Renewed(j)

SessionInv ==
  /\ SessionTypeOK /\ NoCodeKept /\ LastingLogin
  /\ FormOK /\ Counted /\ RenewalComes
  /\ \A j \in Transfers : TransferOK(j)

JobRecords ==
  [at : {"rest", "login", "keep", "run", "merge", "write"}, batch : BOOLEAN, conf : Confs,
   file : Sessions]

\* What is stored of a configuration, what is taken from the row, and one with a session
LEMMA StorageIs ==
  ASSUME NEW c \in Confs
  PROVE  /\ Storage(c) \in Confs
         /\ Storage(c).kind = c.kind /\ Storage(c).code = FALSE /\ Storage(c).session = c.session
<1>1. PICK d \in Confs : /\ d = [c EXCEPT !.plain = FALSE]
                         /\ d.kind = c.kind /\ d.session = c.session
  <2>1. /\ [c EXCEPT !.plain = FALSE] \in Confs
        /\ [c EXCEPT !.plain = FALSE].kind = c.kind
        /\ [c EXCEPT !.plain = FALSE].session = c.session
    BY DEF Confs
  <2> QED  BY <2>1
<1>2. /\ [d EXCEPT !.code = FALSE] \in Confs
      /\ [d EXCEPT !.code = FALSE].kind = c.kind /\ [d EXCEPT !.code = FALSE].code = FALSE
      /\ [d EXCEPT !.code = FALSE].session = c.session
  BY <1>1 DEF Confs
<1>3. Storage(c) = [d EXCEPT !.code = FALSE]  BY <1>1 DEF Storage, Confs
<1> QED  BY <1>2, <1>3

LEMMA RuntimeIs ==
  ASSUME NEW c \in Confs, c.code = FALSE
  PROVE  /\ Runtime(c) \in Confs
         /\ Runtime(c).kind = c.kind /\ Runtime(c).code = FALSE /\ Runtime(c).session = c.session
<1>1. (c.code /\ c.plain /\ ~HasSession(c)) = FALSE  OBVIOUS
<1>2. Runtime(c) = [c EXCEPT !.code = FALSE]  BY <1>1 DEF Runtime
<1> QED  BY <1>2 DEF Confs

LEMMA SessionedIs ==
  ASSUME NEW c \in Confs, NEW s \in Sessions
  PROVE  /\ [c EXCEPT !.session = s] \in Confs
         /\ [c EXCEPT !.session = s].kind = c.kind /\ [c EXCEPT !.session = s].code = c.code
         /\ [c EXCEPT !.session = s].session = s
BY DEF Confs

LEMMA BlankIs ==
  /\ Blank \in Confs /\ Blank.kind = "password" /\ Blank.code = FALSE /\ Blank.session = 0
  /\ NoTransfer \in JobRecords /\ NoTransfer.at = "rest" /\ NoTransfer.file = 0
  /\ NoTransfer.conf = Blank
  /\ NoForm \in [at : {"none", "last", "create"}, conf : Confs]
  /\ NoForm.at = "none" /\ NoForm.conf = Blank
<1>1. 0 \in Sessions  BY SessionAssumption DEF Sessions
<1>2. Blank \in Confs /\ Blank.kind = "password" /\ Blank.code = FALSE /\ Blank.session = 0
  BY <1>1 DEF Blank, Confs, LoginKinds, NoSession
<1> QED  BY <1>1, <1>2 DEF NoTransfer, JobRecords, NoForm, NoSession

LEMMA SessionTyped ==
  ASSUME SessionTypeOK
  PROVE  /\ job \in [Transfers -> JobRecords]
         /\ form.at \in {"none", "last", "create"} /\ form.conf \in Confs
         /\ drive.active \in BOOLEAN /\ drive.conf \in Confs
         /\ \A c \in Confs : c.kind \in LoginKinds /\ c.code \in BOOLEAN /\ c.session \in Sessions
         /\ \A j \in Transfers : /\ job[j] \in JobRecords /\ job[j].conf \in Confs
                                 /\ job[j].batch \in BOOLEAN /\ job[j].file \in Sessions
                                 /\ job[j].at \in {"rest", "login", "keep", "run", "merge", "write"}
BY DEF SessionTypeOK, JobRecords, Confs

\* The record of a transfer after a step
LEMMA JobMoves ==
  ASSUME SessionTypeOK, NEW j \in Transfers, NEW r \in JobRecords, job' = [job EXCEPT ![j] = r]
  PROVE  /\ job' \in [Transfers -> JobRecords] /\ job'[j] = r
         /\ \A k \in Transfers \ {j} : job'[k] = job[k]
BY SessionTyped

LEMMA JobGoes ==
  ASSUME SessionTypeOK, NEW j \in Transfers,
         NEW at \in {"rest", "login", "keep", "run", "merge", "write"}, JobTo(j, at)
  PROVE  /\ job' \in [Transfers -> JobRecords] /\ job'[j].at = at
         /\ job'[j].batch = job[j].batch /\ job'[j].conf = job[j].conf
         /\ job'[j].file = job[j].file
         /\ \A k \in Transfers \ {j} : job'[k] = job[k]
BY SessionTyped DEF JobTo, JobRecords

\* The server gives a session that nobody has.
LEMMA LoginIsNew ==
  ASSUME SessionInv, issued' = issued + 1, issued < MaxLogins
  PROVE  /\ issued' \in Sessions \ {NoSession}
         /\ \A s \in Sessions : s <= issued => s <= issued' /\ s # issued'
<1>1. issued \in Nat /\ issued' \in 1 .. MaxLogins
  BY SessionAssumption DEF SessionInv, SessionTypeOK, Sessions
<1> QED  BY <1>1, SessionAssumption DEF Sessions, NoSession

LEMMA InitSessionInv == SessionInit => SessionInv
<1> SUFFICES ASSUME SessionInit PROVE SessionInv
  OBVIOUS
<1> USE DEF SessionInit
<1>1. /\ 0 \in Sessions /\ 0 \in 0 .. MaxBinds /\ 0 \in 0 .. MaxLosses
      /\ 0 <= 0
  BY SessionAssumption DEF Sessions
<1>2. drive \in [active : BOOLEAN, conf : Confs]  BY BlankIs DEF NoRow
<1>3. job \in [Transfers -> JobRecords]  BY BlankIs
<1>4. SessionTypeOK
  BY <1>1, <1>2, <1>3, BlankIs DEF SessionTypeOK, JobRecords, NoSession
<1>5. drive.active = FALSE /\ drive.conf = Blank  BY DEF NoRow
<1>6. \A j \in Transfers : job[j] = NoTransfer /\ ~UnderWay(j)  BY BlankIs DEF UnderWay
<1>7. NoCodeKept  BY <1>5, <1>6, BlankIs DEF NoCodeKept
<1>8. LastingLogin  BY <1>5 DEF LastingLogin
<1>9. FormOK  BY BlankIs DEF FormOK
<1>10. Counted  BY <1>1, <1>5, <1>6, BlankIs DEF Counted, NoSession
<1>11. RenewalComes  BY <1>5, <1>6 DEF RenewalComes
<1>12. \A j \in Transfers : TransferOK(j)  BY <1>6, BlankIs DEF TransferOK
<1> QED  BY <1>4, <1>7, <1>8, <1>9, <1>10, <1>11, <1>12 DEF SessionInv

-----------------------------------------------------------------------------
(* Transfers that go on, end or die without a word of the server or the row *)

LEMMA JobsGoOn ==
  ASSUME SessionInv, UNCHANGED <<form, drive, default, live, issued, binds>>,
         failed' \in 0 .. MaxLosses, renewalLost' \in BOOLEAN, job' \in [Transfers -> JobRecords],
         \A k \in Transfers : \/ job'[k] = NoTransfer
                              \/ /\ job'[k].conf = job[k].conf /\ job'[k].file = job[k].file
                                 /\ job'[k].batch = job[k].batch
                                 /\ TransferOK(k)',
         RenewalComes'
  PROVE  SessionInv'
<1>1. SessionTypeOK'  BY DEF SessionInv, SessionTypeOK, JobRecords
<1>2. NoCodeKept'  BY BlankIs DEF SessionInv, NoCodeKept
<1>3. LastingLogin' /\ Counted'
  <2>1. issued \in Nat  BY DEF SessionInv, SessionTypeOK, Sessions
  <2>2. \A k \in Transfers : job'[k].conf.session <= issued /\ job'[k].file <= issued
    BY <2>1, BlankIs DEF SessionInv, Counted
  <2> QED  BY <2>2 DEF SessionInv, LastingLogin, Counted
<1>4. FormOK'  BY BlankIs DEF SessionInv, FormOK, HasSession, NoSession
<1>5. \A k \in Transfers : TransferOK(k)'  BY BlankIs DEF TransferOK
<1> QED  BY <1>1, <1>2, <1>3, <1>4, <1>5 DEF SessionInv

LEMMA WithoutSession ==
  ASSUME SessionInv, NEW j \in Transfers, GoesWithout(j)
  PROVE  SessionInv'
<1>1. SessionTypeOK /\ job[j].at = "login" /\ JobTo(j, "run")  BY DEF SessionInv, GoesWithout
<1>2. UNCHANGED <<form, drive, default, live, issued, binds, failed, renewalLost>>
  BY DEF GoesWithout
<1>3. /\ job' \in [Transfers -> JobRecords] /\ job'[j].at = "run"
      /\ job'[j].batch = job[j].batch /\ job'[j].conf = job[j].conf
      /\ job'[j].file = job[j].file
      /\ \A k \in Transfers \ {j} : job'[k] = job[k]
  BY <1>1, JobGoes
<1>4. \A k \in Transfers : /\ job'[k].conf = job[k].conf /\ job'[k].file = job[k].file
                           /\ job'[k].batch = job[k].batch /\ UnderWay(k)' = UnderWay(k)
  BY <1>1, <1>3 DEF UnderWay
<1>5. \A k \in Transfers : TransferOK(k)'  BY <1>3 DEF SessionInv, TransferOK
<1>6. RenewalComes'  BY <1>2, <1>4 DEF SessionInv, RenewalComes, Renewed
<1>7. failed' \in 0 .. MaxLosses /\ renewalLost' \in BOOLEAN
  BY <1>2 DEF SessionInv, SessionTypeOK
<1> QED  BY <1>2, <1>3, <1>4, <1>5, <1>6, <1>7, JobsGoOn

LEMMA EndsSession ==
  ASSUME SessionInv, NEW j \in Transfers, Ends(j)
  PROVE  SessionInv'
<1>1. SessionTypeOK /\ job[j].at = "run"  BY DEF SessionInv, Ends
<1>2. UNCHANGED <<form, drive, default, live, issued, binds, failed, renewalLost>>
  BY DEF Ends
<1>3. failed' \in 0 .. MaxLosses /\ renewalLost' \in BOOLEAN
  BY <1>2 DEF SessionInv, SessionTypeOK
<1>4. CASE HarvestsNothingNew(j)
  <2>1. job' = [job EXCEPT ![j] = NoTransfer]  BY <1>4 DEF Ends
  <2>2. /\ job' \in [Transfers -> JobRecords] /\ job'[j] = NoTransfer
        /\ \A k \in Transfers \ {j} : job'[k] = job[k]
    BY <1>1, <2>1, BlankIs, JobMoves
  <2>3. ~Renewed(j)
    <3>1. NoSession \notin live  BY <1>1 DEF SessionTypeOK
    <3> QED  BY <1>4, <3>1 DEF Renewed, HarvestsNothingNew, Harvest
  <2>4. \A k \in Transfers : /\ UnderWay(k)' => k # j /\ UnderWay(k)
                             /\ Renewed(k) => Renewed(k)'
    BY <1>2, <2>2, <2>3, BlankIs DEF UnderWay, Renewed
  <2>5. RenewalComes'
    BY <1>2, <2>2, <2>4 DEF SessionInv, RenewalComes
  <2>6. \A k \in Transfers \ {j} : TransferOK(k)'  BY <2>2 DEF SessionInv, TransferOK
  <2> QED  BY <1>2, <1>3, <2>2, <2>5, <2>6, JobsGoOn
<1>5. CASE ~HarvestsNothingNew(j)
  <2>1. JobTo(j, "merge")  BY <1>5 DEF Ends
  <2>2. /\ job' \in [Transfers -> JobRecords] /\ job'[j].at = "merge"
        /\ job'[j].batch = job[j].batch /\ job'[j].conf = job[j].conf
        /\ job'[j].file = job[j].file
        /\ \A k \in Transfers \ {j} : job'[k] = job[k]
    BY <1>1, <2>1, JobGoes
  <2>3. \A k \in Transfers : /\ job'[k].conf = job[k].conf /\ job'[k].file = job[k].file
                             /\ job'[k].batch = job[k].batch /\ UnderWay(k)' = UnderWay(k)
    BY <1>1, <2>2 DEF UnderWay
  <2>4. \A k \in Transfers : TransferOK(k)'
    BY <1>5, <2>2 DEF SessionInv, TransferOK, HarvestsNothingNew, Harvest
  <2>5. RenewalComes'  BY <1>2, <2>3 DEF SessionInv, RenewalComes, Renewed
  <2> QED  BY <1>2, <1>3, <2>2, <2>3, <2>4, <2>5, JobsGoOn
<1> QED  BY <1>4, <1>5

LEMMA LooksSession ==
  ASSUME SessionInv, NEW j \in Transfers, Looks(j)
  PROVE  SessionInv'
<1>1. SessionTypeOK /\ job[j].at = "merge"  BY DEF SessionInv, Looks
<1>2. UNCHANGED <<form, drive, default, live, issued, binds, failed>>
  BY DEF Looks
<1>3. failed' \in 0 .. MaxLosses  BY <1>2 DEF SessionInv, SessionTypeOK
<1>4. CASE drive.active /\ default
  <2>1. JobTo(j, "write") /\ renewalLost' = renewalLost  BY <1>4 DEF Looks
  <2>2. /\ job' \in [Transfers -> JobRecords] /\ job'[j].at = "write"
        /\ job'[j].batch = job[j].batch /\ job'[j].conf = job[j].conf
        /\ job'[j].file = job[j].file
        /\ \A k \in Transfers \ {j} : job'[k] = job[k]
    BY <1>1, <2>1, JobGoes
  <2>3. \A k \in Transfers : /\ job'[k].conf = job[k].conf /\ job'[k].file = job[k].file
                             /\ job'[k].batch = job[k].batch /\ UnderWay(k)' = UnderWay(k)
    BY <1>1, <2>2 DEF UnderWay
  <2>4. \A k \in Transfers : TransferOK(k)'  BY <1>1, <2>2 DEF SessionInv, TransferOK
  <2>5. RenewalComes'  BY <1>2, <2>1, <2>3 DEF SessionInv, RenewalComes, Renewed
  <2>6. renewalLost' \in BOOLEAN  BY <1>1, <2>1 DEF SessionTypeOK
  <2> QED  BY <1>2, <1>3, <2>2, <2>3, <2>4, <2>5, <2>6, JobsGoOn
<1>5. CASE ~ (drive.active /\ default)
  <2>1. job' = [job EXCEPT ![j] = NoTransfer] /\ renewalLost' = TRUE  BY <1>5 DEF Looks
  <2>2. /\ job' \in [Transfers -> JobRecords] /\ job'[j] = NoTransfer
        /\ \A k \in Transfers \ {j} : job'[k] = job[k]
    BY <1>1, <2>1, BlankIs, JobMoves
  <2>3. RenewalComes'  BY <2>1 DEF RenewalComes
  <2>4. \A k \in Transfers \ {j} : TransferOK(k)'  BY <2>2 DEF SessionInv, TransferOK
  <2> QED  BY <1>2, <1>3, <2>1, <2>2, <2>3, <2>4, JobsGoOn
<1> QED  BY <1>4, <1>5

LEMMA FailsSession ==
  ASSUME SessionInv, NEW j \in Transfers, Fails(j)
  PROVE  SessionInv'
<1>1. SessionTypeOK /\ job[j].at \in {"keep", "write"} /\ job[j] \in JobRecords
  BY SessionTyped DEF SessionInv, Fails
<1>2. UNCHANGED <<form, drive, default, live, issued, binds>> /\ renewalLost' = TRUE
  BY DEF Fails
<1>3. failed' \in 0 .. MaxLosses
  BY <1>1, SessionAssumption DEF Fails, SessionTypeOK
<1>4. RenewalComes'  BY <1>2 DEF RenewalComes
<1>5. CASE job[j].at = "keep"
  <2>1. JobTo(j, "run")
    <3>1. job' = [job EXCEPT ![j] = [job[j] EXCEPT !.at = "run"]]  BY <1>5 DEF Fails
    <3> QED  BY <3>1 DEF JobTo
  <2>2. /\ job' \in [Transfers -> JobRecords] /\ job'[j].at = "run"
        /\ job'[j].batch = job[j].batch /\ job'[j].conf = job[j].conf
        /\ job'[j].file = job[j].file
        /\ \A k \in Transfers \ {j} : job'[k] = job[k]
    BY <1>1, <2>1, JobGoes
  <2>3. \A k \in Transfers : TransferOK(k)'  BY <2>2 DEF SessionInv, TransferOK
  <2> QED  BY <1>2, <1>3, <1>4, <2>2, <2>3, JobsGoOn
<1>6. CASE job[j].at = "write"
  <2>1. job' = [job EXCEPT ![j] = NoTransfer]  BY <1>6 DEF Fails
  <2>2. /\ job' \in [Transfers -> JobRecords] /\ job'[j] = NoTransfer
        /\ \A k \in Transfers \ {j} : job'[k] = job[k]
    BY <1>1, <2>1, BlankIs, JobMoves
  <2>3. \A k \in Transfers \ {j} : TransferOK(k)'  BY <2>2 DEF SessionInv, TransferOK
  <2> QED  BY <1>2, <1>3, <1>4, <2>2, <2>3, JobsGoOn
<1> QED  BY <1>1, <1>5, <1>6

LEMMA DiesSession ==
  ASSUME SessionInv, Dies
  PROVE  SessionInv'
<1>1. /\ UNCHANGED <<form, drive, default, live, issued, binds>> /\ renewalLost' = TRUE
      /\ job' = [j \in Transfers |-> NoTransfer]
  BY DEF Dies
<1>2. failed' \in 0 .. MaxLosses
  BY SessionAssumption DEF Dies, SessionInv, SessionTypeOK
<1>3. RenewalComes'  BY <1>1 DEF RenewalComes
<1>4. job' \in [Transfers -> JobRecords] /\ \A k \in Transfers : job'[k] = NoTransfer
  BY <1>1, BlankIs
<1> QED  BY <1>1, <1>2, <1>3, <1>4, JobsGoOn

-----------------------------------------------------------------------------
(* The dialogue: no transfer moves *)

LEMMA FormGoesOn ==
  ASSUME SessionInv, UNCHANGED <<drive, job, failed, renewalLost>>,
         default' \in BOOLEAN, binds' \in 0 .. MaxBinds,
         form' \in [at : {"none", "last", "create"}, conf : Confs],
         live \subseteq live', live' \subseteq Sessions \ {NoSession},
         issued' \in Sessions, issued <= issued', \A s \in live' : s <= issued',
         form'.conf.session <= issued', FormOK'
  PROVE  SessionInv'
<1>1. SessionTypeOK'  BY DEF SessionInv, SessionTypeOK
<1>2. NoCodeKept' /\ LastingLogin'  BY DEF SessionInv, NoCodeKept, LastingLogin
<1>3. Counted'
  <2>1. \A a \in Sessions : a <= issued => a <= issued'
    BY DEF SessionInv, SessionTypeOK, Sessions
  <2>2. /\ drive.conf.session \in Sessions
        /\ \A j \in Transfers : job[j].conf.session \in Sessions /\ job[j].file \in Sessions
    BY SessionTyped DEF SessionInv
  <2> QED  BY <2>1, <2>2 DEF SessionInv, Counted
<1>4. RenewalComes'
  <2>1. \A j \in Transfers : /\ UnderWay(j)' = UnderWay(j)
                             /\ Renewed(j) => Renewed(j)'
    BY DEF UnderWay, Renewed
  <2> QED  BY <2>1 DEF SessionInv, RenewalComes
<1>5. \A j \in Transfers : TransferOK(j)'  BY DEF SessionInv, TransferOK
<1> QED  BY <1>1, <1>2, <1>3, <1>4, <1>5 DEF SessionInv

LEMMA AnswersSession ==
  ASSUME SessionInv, NEW kind \in LoginKinds, Answers(kind)
  PROVE  SessionInv'
<1>1. /\ UNCHANGED <<drive, default, live, issued, job, failed, renewalLost>>
      /\ binds' \in 0 .. MaxBinds
  BY SessionAssumption DEF Answers, SessionInv, SessionTypeOK
<1>2. PICK code \in BOOLEAN : code = (kind # "password")  OBVIOUS
<1>3. PICK c \in Confs : c = [Blank EXCEPT !.kind = kind] /\ c.session = 0
  <2>1. [Blank EXCEPT !.kind = kind] \in Confs /\ [Blank EXCEPT !.kind = kind].session = 0
    BY BlankIs DEF Confs
  <2> QED  BY <2>1
<1>4. [c EXCEPT !.code = code] \in Confs /\ [c EXCEPT !.code = code].session = 0
  BY <1>3 DEF Confs
<1>5. [Blank EXCEPT !.kind = kind, !.code = code] = [c EXCEPT !.code = code]
  BY <1>3, BlankIs DEF Confs
<1>6. form' = [at |-> "last", conf |-> [c EXCEPT !.code = code]]
  BY <1>2, <1>5 DEF Answers
<1>7. /\ form' \in [at : {"none", "last", "create"}, conf : Confs]
      /\ form'.at = "last" /\ form'.conf.session = 0
  BY <1>4, <1>6
<1>8. FormOK'  BY <1>7 DEF FormOK, HasSession, NoSession
<1>9. /\ live' \subseteq Sessions \ {NoSession} /\ default' \in BOOLEAN /\ issued' \in Sessions
      /\ issued \in Nat /\ 0 <= issued
      /\ \A s \in live' : s <= issued'
  BY <1>1 DEF SessionInv, SessionTypeOK, Counted, Sessions
<1>10. issued <= issued' /\ form'.conf.session <= issued'  BY <1>1, <1>7, <1>9
<1> QED  BY <1>1, <1>7, <1>8, <1>9, <1>10, FormGoesOn

\* The dialogue goes on or ends, and the server is not asked, or has not answered.
LEMMA DialogueSession ==
  ASSUME SessionInv, ValidatesWithoutSession \/ LoginRefused \/ SetsDefault
  PROVE  SessionInv'
<1>1. UNCHANGED <<drive, live, issued, job, binds, failed, renewalLost>> /\ default' \in BOOLEAN
  BY DEF ValidatesWithoutSession, LoginRefused, SetsDefault, SessionInv, SessionTypeOK
<1>2. /\ live' \subseteq Sessions \ {NoSession} /\ issued' \in Sessions /\ binds' \in 0 .. MaxBinds
      /\ issued \in Nat /\ 0 <= issued /\ issued <= issued'
      /\ \A s \in live' : s <= issued'
      /\ form \in [at : {"none", "last", "create"}, conf : Confs]
      /\ form.conf.session <= issued'
  BY <1>1 DEF SessionInv, SessionTypeOK, Counted, Sessions
<1>3. CASE form' = form
  <2>1. FormOK'  BY <1>1, <1>3 DEF SessionInv, FormOK
  <2> QED  BY <1>1, <1>2, <1>3, <2>1, FormGoesOn
<1>4. CASE form' = NoForm
  <2>1. FormOK'  BY <1>4, BlankIs DEF FormOK
  <2>2. form'.conf.session <= issued'  BY <1>1, <1>2, <1>4, BlankIs
  <2> QED  BY <1>1, <1>2, <1>4, <2>1, <2>2, BlankIs, FormGoesOn
<1>5. CASE form' = [form EXCEPT !.at = "create"] /\ form.at = "last" /\ Accepts(form.conf)
  <2>1. /\ form' \in [at : {"none", "last", "create"}, conf : Confs]
        /\ form'.at = "create" /\ form'.conf = form.conf
    BY <1>2, <1>5
  <2>2. ~HasSession(form.conf)  BY <1>5 DEF SessionInv, FormOK
  <2>3. FormOK'  BY <1>5, <2>1, <2>2 DEF FormOK, Accepts, HasSession
  <2> QED  BY <1>1, <1>2, <2>1, <2>3, FormGoesOn
<1> QED  BY <1>3, <1>4, <1>5 DEF ValidatesWithoutSession, LoginRefused, SetsDefault

LEMMA ValidatesSession ==
  ASSUME SessionInv, Validates
  PROVE  SessionInv'
<1>1. /\ UNCHANGED <<drive, default, job, binds, failed, renewalLost>>
      /\ issued < MaxLogins /\ issued' = issued + 1 /\ live' = live \cup {issued'}
      /\ form' = [at |-> "create", conf |-> [form.conf EXCEPT !.session = issued']]
  BY DEF Validates, Login
<1>2. /\ issued' \in Sessions \ {NoSession}
      /\ \A s \in Sessions : s <= issued => s <= issued' /\ s # issued'
  BY <1>1, LoginIsNew
<1>3. PICK c \in Confs : /\ c = [form.conf EXCEPT !.session = issued'] /\ c.session = issued'
  <2>1. form.conf \in Confs  BY SessionTyped DEF SessionInv
  <2>2. PICK s \in Sessions : s = issued'  BY <1>2
  <2>3. [form.conf EXCEPT !.session = s] \in Confs /\ [form.conf EXCEPT !.session = s].session = s
    BY <2>1, SessionedIs
  <2> QED  BY <2>2, <2>3
<1>4. form' = [at |-> "create", conf |-> c]  BY <1>1, <1>3
<1>5. /\ form' \in [at : {"none", "last", "create"}, conf : Confs]
      /\ form'.conf.session = issued' /\ issued' # NoSession /\ issued' \in live'
      /\ form'.conf = c
  <2>1. form' \in [at : {"none", "last", "create"}, conf : Confs] /\ form'.conf = c
    BY <1>4
  <2>2. issued' # NoSession /\ issued' \in live'  BY <1>1, <1>2
  <2> QED  BY <1>3, <2>1, <2>2
<1>6. /\ default' \in BOOLEAN /\ binds' \in 0 .. MaxBinds
      /\ live' \subseteq Sessions \ {NoSession}
      /\ issued \in Sessions /\ issued \in Nat /\ issued <= issued' /\ issued' <= issued'
  BY <1>1, <1>2 DEF SessionInv, SessionTypeOK, Sessions
<1>7. \A s \in live' : s <= issued'
  BY <1>1, <1>2, <1>6 DEF SessionInv, SessionTypeOK, Counted
<1>8. /\ drive.conf.session \in Sessions /\ drive.conf.session <= issued
      /\ \A j \in Transfers : /\ job[j].conf.session \in Sessions /\ job[j].file \in Sessions
                              /\ job[j].conf.session <= issued /\ job[j].file <= issued
  BY SessionTyped DEF SessionInv, Counted
<1>9. FormOK'
  <2>1. HasSession(c)  BY <1>3, <1>5 DEF HasSession
  <2>2. form'.at = "create"  BY <1>4
  <2> QED  BY <1>1, <1>2, <1>5, <1>8, <2>1, <2>2 DEF FormOK, Accepts
<1>10. form'.conf.session <= issued'  BY <1>5, <1>6
<1> QED  BY <1>1, <1>2, <1>5, <1>6, <1>7, <1>9, <1>10, FormGoesOn

-----------------------------------------------------------------------------
(* The row is written *)

\* A step that leaves the server's sessions as they are, and where the row or the
\* dialogue or a transfer changes, but no session comes from nowhere.
LEMMA RowGoesOn ==
  ASSUME SessionInv, UNCHANGED <<default, live, issued, binds, failed>>,
         renewalLost' \in BOOLEAN,
         drive' \in [active : BOOLEAN, conf : Confs], drive'.conf.code = FALSE,
         drive'.conf.session <= issued, LastingLogin',
         form' \in [at : {"none", "last", "create"}, conf : Confs],
         form'.conf.session <= issued, FormOK', RenewalComes',
         job' \in [Transfers -> JobRecords],
         \A k \in Transfers : \/ job'[k] = NoTransfer
                              \/ /\ job'[k].conf = job[k].conf /\ job'[k].file = job[k].file
                                 /\ TransferOK(k)'
  PROVE  SessionInv'
<1>1. SessionTypeOK'  BY DEF SessionInv, SessionTypeOK, JobRecords
<1>2. NoCodeKept'  BY BlankIs DEF SessionInv, NoCodeKept
<1>3. Counted'
  <2>1. issued \in Nat  BY DEF SessionInv, SessionTypeOK, Sessions
  <2>2. \A k \in Transfers : job'[k].conf.session <= issued /\ job'[k].file <= issued
    BY <2>1, BlankIs DEF SessionInv, Counted
  <2> QED  BY <2>2 DEF SessionInv, Counted
<1>4. \A k \in Transfers : TransferOK(k)'  BY BlankIs DEF TransferOK
<1> QED  BY <1>1, <1>2, <1>3, <1>4 DEF SessionInv

LEMMA UnbindsSession ==
  ASSUME SessionInv, Unbinds
  PROVE  SessionInv'
<1>1. /\ UNCHANGED <<form, default, live, issued, job, binds, failed, renewalLost>>
      /\ SessionTypeOK
      /\ drive' = [drive EXCEPT !.active = FALSE]
  BY DEF SessionInv, Unbinds
<1>2. /\ drive' \in [active : BOOLEAN, conf : Confs] /\ drive'.active = FALSE
      /\ drive'.conf = drive.conf
  BY <1>1 DEF SessionTypeOK
<1>3. LastingLogin'  BY <1>2 DEF LastingLogin
<1>4. FormOK'  BY <1>1, <1>2 DEF SessionInv, FormOK
<1>5. RenewalComes'  BY <1>1, <1>2 DEF SessionInv, RenewalComes, UnderWay
<1>6. /\ drive.conf.code = FALSE /\ drive.conf.session <= issued /\ form.conf.session <= issued
      /\ renewalLost' \in BOOLEAN /\ form' \in [at : {"none", "last", "create"}, conf : Confs]
      /\ \A k \in Transfers : TransferOK(k)'
  BY <1>1, SessionTyped DEF SessionInv, SessionTypeOK, NoCodeKept, Counted, TransferOK
<1> QED  BY <1>1, <1>2, <1>3, <1>4, <1>5, <1>6, SessionTyped, RowGoesOn

LEMMA CreatesSession ==
  ASSUME SessionInv, Creates
  PROVE  SessionInv'
<1>1. /\ UNCHANGED <<default, live, issued, job, binds, failed>>
      /\ SessionTypeOK /\ form.at = "create" /\ form.conf \in Confs
  BY SessionTyped DEF SessionInv, Creates
<1>2. /\ job' \in [Transfers -> JobRecords] /\ \A k \in Transfers : TransferOK(k)'
      /\ issued \in Nat /\ 0 <= issued
  BY <1>1, SessionTyped DEF SessionInv, SessionTypeOK, TransferOK, Sessions
<1>3. CASE drive.active
  <2>1. UNCHANGED <<drive, renewalLost>>  BY <1>3 DEF Creates
  <2>2. 0 \in Sessions  BY SessionAssumption DEF Sessions
  <2>3. PICK c \in Confs : c = [form.conf EXCEPT !.session = 0] /\ c.session = 0
    BY <1>1, <2>2, SessionedIs
  <2>4. form' = [at |-> "last", conf |-> c]  BY <1>3, <2>3 DEF Creates, NoSession
  <2>5. /\ form' \in [at : {"none", "last", "create"}, conf : Confs]
        /\ form'.at = "last" /\ form'.conf.session = 0
    BY <2>3, <2>4
  <2>6. FormOK'  BY <2>5 DEF FormOK, HasSession, NoSession
  <2>7. LastingLogin' /\ RenewalComes'
    BY <1>1, <2>1 DEF SessionInv, LastingLogin, RenewalComes, UnderWay, Renewed
  <2>8. /\ drive.conf.code = FALSE /\ drive.conf.session <= issued
        /\ renewalLost' \in BOOLEAN /\ drive' \in [active : BOOLEAN, conf : Confs]
    BY <1>1, <2>1 DEF SessionInv, SessionTypeOK, NoCodeKept, Counted
  <2> QED  BY <1>1, <1>2, <2>1, <2>5, <2>6, <2>7, <2>8, RowGoesOn
<1>4. CASE ~drive.active
  <2>1. /\ form' = NoForm /\ drive' = [active |-> TRUE, conf |-> Storage(form.conf)]
        /\ renewalLost' = \E j \in Transfers : UnderWay(j)
    BY <1>4 DEF Creates
  <2>2. PICK c \in Confs : /\ c = Storage(form.conf) /\ c.kind = form.conf.kind
                           /\ c.code = FALSE /\ c.session = form.conf.session
    BY <1>1, StorageIs
  <2>3. drive' = [active |-> TRUE, conf |-> c]  BY <2>1, <2>2
  <2>4. /\ drive' \in [active : BOOLEAN, conf : Confs] /\ drive'.conf = c
    BY <2>3
  <2>5. /\ Accepts(form.conf)
        /\ HasSession(form.conf) => form.conf.session \in live
        /\ form.conf.session <= issued
    BY <1>1 DEF SessionInv, FormOK, Counted
  <2>6. c.kind = "code" => HasSession(c) /\ c.session \in live
    BY <2>2, <2>5 DEF Accepts, HasSession
  <2>7. LastingLogin'  BY <2>4, <2>6 DEF LastingLogin
  <2>8. RenewalComes'  BY <1>1, <2>1, <2>4, <2>6 DEF RenewalComes, UnderWay
  <2>9. FormOK' /\ form' \in [at : {"none", "last", "create"}, conf : Confs]
        /\ form'.conf.session <= issued
    BY <1>2, <2>1, BlankIs DEF FormOK
  <2>10. renewalLost' \in BOOLEAN  BY <2>1
  <2> QED  BY <1>1, <1>2, <2>2, <2>4, <2>5, <2>7, <2>8, <2>9, <2>10, RowGoesOn
<1> QED  BY <1>3, <1>4

LEMMA KeepsSession ==
  ASSUME SessionInv, NEW j \in Transfers, Keeps(j)
  PROVE  SessionInv'
<1>1. /\ UNCHANGED <<form, default, live, issued, binds, failed, renewalLost>>
      /\ job[j].at = "keep" /\ JobTo(j, "run") /\ Updates(Storage(job[j].conf))
      /\ SessionTypeOK /\ job[j].conf \in Confs
      /\ job[j].conf.kind # "code" /\ HasSession(job[j].conf)
  BY SessionTyped DEF SessionInv, Keeps, TransferOK
<1>2. /\ job' \in [Transfers -> JobRecords] /\ job'[j].at = "run"
      /\ job'[j].batch = job[j].batch /\ job'[j].conf = job[j].conf
      /\ job'[j].file = job[j].file
      /\ \A k \in Transfers \ {j} : job'[k] = job[k]
  BY <1>1, JobGoes
<1>3. \A k \in Transfers : /\ job'[k].conf = job[k].conf /\ job'[k].file = job[k].file
                           /\ job'[k].batch = job[k].batch /\ UnderWay(k)' = UnderWay(k)
                           /\ TransferOK(k)'
  BY <1>1, <1>2 DEF SessionInv, UnderWay, TransferOK
<1>4. PICK c \in Confs : /\ c = Storage(job[j].conf) /\ c.kind = job[j].conf.kind
                         /\ c.code = FALSE /\ c.session = job[j].conf.session
  BY <1>1, StorageIs
<1>5. /\ drive' \in [active : BOOLEAN, conf : Confs] /\ drive'.active = drive.active
      /\ ~drive.active => drive' = drive
      /\ drive.active => drive'.conf = c
  <2>1. CASE drive.active
    <3>1. drive' = [drive EXCEPT !.conf = c]  BY <1>1, <1>4, <2>1 DEF Updates
    <3> QED  BY <1>1, <2>1, <3>1 DEF SessionTypeOK
  <2>2. CASE ~drive.active
    <3>1. drive' = drive  BY <1>1, <2>2 DEF Updates
    <3> QED  BY <1>1, <2>2, <3>1 DEF SessionTypeOK
  <2> QED  BY <2>1, <2>2
<1>6. /\ drive'.conf.code = FALSE /\ drive'.conf.session <= issued
      /\ form.conf.session <= issued /\ renewalLost' \in BOOLEAN
      /\ form' \in [at : {"none", "last", "create"}, conf : Confs]
  BY <1>1, <1>4, <1>5, SessionTyped DEF SessionInv, SessionTypeOK, NoCodeKept, Counted
<1>7. LastingLogin'  BY <1>1, <1>4, <1>5 DEF LastingLogin
<1>8. FormOK'  BY <1>1, <1>3, <1>4, <1>5 DEF SessionInv, FormOK
<1>9. RenewalComes'
  <2>1. UnderWay(j)  BY <1>1 DEF UnderWay
  <2>2. ~renewalLost /\ drive.active => drive.conf.kind = c.kind
    BY <1>4, <2>1 DEF SessionInv, RenewalComes
  <2> QED  BY <1>1, <1>3, <1>4, <1>5, <2>2 DEF SessionInv, RenewalComes
<1> QED  BY <1>1, <1>2, <1>3, <1>5, <1>6, <1>7, <1>8, <1>9, RowGoesOn

LEMMA WritesBackSession ==
  ASSUME SessionInv, NEW j \in Transfers, WritesBack(j)
  PROVE  SessionInv'
<1>1. /\ UNCHANGED <<form, default, live, issued, binds, failed, renewalLost>>
      /\ job[j].at = "write" /\ job' = [job EXCEPT ![j] = NoTransfer] /\ Updates(WrittenBack(j))
      /\ SessionTypeOK /\ job[j].conf \in Confs /\ job[j].file \in Sessions
      /\ job[j].file # NoSession /\ job[j].file # job[j].conf.session
  BY SessionTyped DEF SessionInv, WritesBack, TransferOK
<1>2. /\ job' \in [Transfers -> JobRecords] /\ job'[j] = NoTransfer
      /\ \A k \in Transfers \ {j} : job'[k] = job[k]
  BY <1>1, BlankIs, JobMoves
<1>3. \A k \in Transfers \ {j} : TransferOK(k)'  BY <1>2 DEF SessionInv, TransferOK
<1>4. PICK c \in Confs : /\ c = WrittenBack(j) /\ c.kind = job[j].conf.kind
                         /\ c.code = FALSE /\ c.session = job[j].file
  <2>1. PICK d \in Confs : /\ d = [job[j].conf EXCEPT !.session = job[j].file]
                           /\ d.kind = job[j].conf.kind /\ d.session = job[j].file
    BY <1>1, SessionedIs
  <2>2. WrittenBack(j) = Storage(d)  BY <2>1 DEF WrittenBack, Harvest
  <2>3. /\ Storage(d) \in Confs /\ Storage(d).kind = d.kind
        /\ Storage(d).code = FALSE /\ Storage(d).session = d.session
    BY StorageIs
  <2> QED  BY <2>1, <2>2, <2>3
<1>5. /\ drive' \in [active : BOOLEAN, conf : Confs] /\ drive'.active = drive.active
      /\ ~drive.active => drive' = drive
      /\ drive.active => drive'.conf = c
  <2>1. CASE drive.active
    <3>1. drive' = [drive EXCEPT !.conf = c]  BY <1>1, <1>4, <2>1 DEF Updates
    <3> QED  BY <1>1, <2>1, <3>1 DEF SessionTypeOK
  <2>2. CASE ~drive.active
    <3>1. drive' = drive  BY <1>1, <2>2 DEF Updates
    <3> QED  BY <1>1, <2>2, <3>1 DEF SessionTypeOK
  <2> QED  BY <2>1, <2>2
<1>6. /\ drive'.conf.code = FALSE /\ drive'.conf.session <= issued
      /\ form.conf.session <= issued /\ renewalLost' \in BOOLEAN
      /\ form' \in [at : {"none", "last", "create"}, conf : Confs]
  BY <1>1, <1>4, <1>5, SessionTyped DEF SessionInv, SessionTypeOK, NoCodeKept, Counted
<1>7. LastingLogin'  BY <1>1, <1>4, <1>5 DEF SessionInv, LastingLogin, HasSession
<1>8. FormOK'
  <2>1. form.at = "create" /\ HasSession(form.conf) => form.conf.session # drive'.conf.session
    BY <1>4, <1>5 DEF SessionInv, FormOK
  <2> QED  BY <1>1, <1>2, <2>1, BlankIs DEF SessionInv, FormOK, HasSession, NoSession
<1>9. RenewalComes'
  <2>1. UnderWay(j)  BY <1>1 DEF UnderWay
  <2>2. ~renewalLost => /\ job[j].file \in live
                        /\ drive.active => drive.conf.kind = c.kind
    BY <1>1, <1>4, <2>1 DEF SessionInv, RenewalComes
  <2>3. \A k \in Transfers : UnderWay(k)' => k # j /\ UnderWay(k) /\ job'[k] = job[k]
    BY <1>2, BlankIs DEF UnderWay
  <2>4. ~renewalLost => \A k \in Transfers : UnderWay(k)' =>
          /\ job'[k].file = job'[k].conf.session \/ job'[k].file \in live
          /\ drive.active => job'[k].conf.kind = drive'.conf.kind
    BY <1>5, <2>2, <2>3 DEF SessionInv, RenewalComes
  <2> QED  BY <1>1, <1>4, <1>5, <2>2, <2>4 DEF RenewalComes
<1> QED  BY <1>1, <1>2, <1>3, <1>5, <1>6, <1>7, <1>8, <1>9, RowGoesOn

-----------------------------------------------------------------------------
(* A transfer begins, logs in and renews *)

\* A step of one transfer, in which the server may give it a new session in place of the
\* one in its file.
LEMMA TransferGoesOn ==
  ASSUME SessionInv, UNCHANGED <<form, drive, default, binds, failed>>, renewalLost' \in BOOLEAN,
         NEW j \in Transfers, NEW r \in JobRecords, job' = [job EXCEPT ![j] = r],
         r.conf.code = FALSE, TransferOK(j)',
         live' \subseteq Sessions \ {NoSession}, \A s \in live : s \in live' \/ s = job[j].file,
         issued' \in Sessions, issued <= issued', \A s \in live' : s <= issued',
         r.conf.session <= issued', r.file <= issued',
         form.at = "create" /\ HasSession(form.conf) =>
           form.conf.session # r.conf.session /\ form.conf.session # r.file,
         RenewalComes'
  PROVE  SessionInv'
<1>1. SessionTypeOK  BY DEF SessionInv
<1>2. /\ job' \in [Transfers -> JobRecords] /\ job'[j] = r
      /\ \A k \in Transfers \ {j} : job'[k] = job[k]
  BY <1>1, JobMoves
<1>3. SessionTypeOK'  BY <1>1, <1>2 DEF SessionTypeOK, JobRecords
<1>4. NoCodeKept' /\ LastingLogin'
  BY <1>2 DEF SessionInv, NoCodeKept, LastingLogin
<1>5. Counted'
  <2>1. \A a \in Sessions : a <= issued => a <= issued'
    BY <1>1 DEF SessionTypeOK, Sessions
  <2>2. /\ drive.conf.session \in Sessions /\ form.conf.session \in Sessions
        /\ \A k \in Transfers : job[k].conf.session \in Sessions /\ job[k].file \in Sessions
    BY <1>1, SessionTyped
  <2>3. \A k \in Transfers : job'[k].conf.session <= issued' /\ job'[k].file <= issued'
    BY <1>2, <2>1, <2>2 DEF SessionInv, Counted
  <2> QED  BY <2>1, <2>2, <2>3 DEF SessionInv, Counted
<1>6. FormOK'
  <2>1. form.at = "create" /\ HasSession(form.conf) =>
          /\ form.conf.session \in live' /\ form.conf.session # drive.conf.session
          /\ \A k \in Transfers : /\ form.conf.session # job'[k].conf.session
                                  /\ form.conf.session # job'[k].file
    BY <1>2 DEF SessionInv, FormOK
  <2> QED  BY <2>1 DEF SessionInv, FormOK
<1>7. \A k \in Transfers : TransferOK(k)'
  <2> SUFFICES ASSUME NEW k \in Transfers, k # j PROVE TransferOK(k)'
    OBVIOUS
  <2> QED  BY <1>2 DEF SessionInv, TransferOK
<1> QED  BY <1>3, <1>4, <1>5, <1>6, <1>7 DEF SessionInv

LEMMA StartsSession ==
  ASSUME SessionInv, NEW j \in Transfers, NEW batch \in BOOLEAN, Starts(j, batch)
  PROVE  SessionInv'
<1>1. /\ UNCHANGED <<form, drive, default, live, issued, binds, failed, renewalLost>>
      /\ ~UnderWay(j) /\ drive.active /\ SessionTypeOK
      /\ drive.conf \in Confs /\ drive.conf.code = FALSE
  BY SessionTyped DEF SessionInv, Starts, NoCodeKept
<1>2. PICK c \in Confs : /\ c = Runtime(drive.conf) /\ c.kind = drive.conf.kind
                         /\ c.code = FALSE /\ c.session = drive.conf.session
  BY <1>1, RuntimeIs
<1>3. PICK at \in {"run", "login"} : at = IF HasSession(c) THEN "run" ELSE "login"
  OBVIOUS
<1>4. c.session \in Sessions  BY <1>1, SessionTyped
<1>5. PICK r \in JobRecords : /\ r = [at |-> at, batch |-> batch, conf |-> c, file |-> c.session]
                              /\ r.at = at /\ r.conf = c /\ r.file = c.session
  <2>1. [at |-> at, batch |-> batch, conf |-> c, file |-> c.session] \in JobRecords
    BY <1>4 DEF JobRecords
  <2> QED  BY <2>1
<1>6. job' = [job EXCEPT ![j] = r]  BY <1>2, <1>3, <1>5 DEF Starts, Given
<1>7. job'[j] = r /\ \A k \in Transfers \ {j} : job'[k] = job[k]  BY <1>1, <1>6, JobMoves
<1>8. TransferOK(j)'  BY <1>5, <1>7 DEF TransferOK
<1>9. /\ drive.conf.session <= issued /\ issued \in Nat /\ issued <= issued
      /\ live \subseteq Sessions \ {NoSession} /\ issued' \in Sessions /\ renewalLost' \in BOOLEAN
      /\ \A s \in live : s <= issued
  BY <1>1 DEF SessionInv, Counted, SessionTypeOK, Sessions
<1>10. form.at = "create" /\ HasSession(form.conf) => form.conf.session # drive.conf.session
  BY DEF SessionInv, FormOK
<1>11. RenewalComes'
  <2>1. \A k \in Transfers : Renewed(k) => Renewed(k)'
    BY <1>1, <1>7 DEF Renewed, UnderWay
  <2>2. \A k \in Transfers \ {j} : UnderWay(k)' = UnderWay(k)  BY <1>7 DEF UnderWay
  <2> QED  BY <1>1, <1>2, <1>5, <1>7, <2>1, <2>2 DEF SessionInv, RenewalComes
<1> QED  BY <1>1, <1>2, <1>5, <1>6, <1>8, <1>9, <1>10, <1>11, TransferGoesOn

LEMMA LogsInSession ==
  ASSUME SessionInv, NEW j \in Transfers, LogsIn(j)
  PROVE  SessionInv'
<1>1. /\ UNCHANGED <<form, drive, default, binds, failed, renewalLost>>
      /\ job[j].at = "login" /\ CanLogIn(job[j].conf)
      /\ issued < MaxLogins /\ issued' = issued + 1 /\ live' = live \cup {issued'}
      /\ job' = [job EXCEPT ![j].at = "keep", ![j].conf.session = issued', ![j].file = issued']
  BY DEF LogsIn, Login
<1>2. /\ SessionTypeOK /\ job[j] \in JobRecords /\ job[j].conf \in Confs
      /\ job[j].conf.code = FALSE
  BY SessionTyped DEF SessionInv, NoCodeKept
<1>3. job[j].conf.kind # "code"  BY <1>1, <1>2 DEF CanLogIn
<1>4. PICK s \in Sessions : /\ s = issued' /\ s # NoSession
                            /\ \A x \in Sessions : x <= issued => x <= s /\ x # s
  BY <1>1, LoginIsNew
<1>5. PICK c \in Confs : /\ c = [job[j].conf EXCEPT !.session = s]
                         /\ c.kind = job[j].conf.kind /\ c.code = FALSE /\ c.session = s
  <2>1. /\ [job[j].conf EXCEPT !.session = s] \in Confs
        /\ [job[j].conf EXCEPT !.session = s].kind = job[j].conf.kind
        /\ [job[j].conf EXCEPT !.session = s].code = job[j].conf.code
        /\ [job[j].conf EXCEPT !.session = s].session = s
    BY <1>2, SessionedIs
  <2> QED  BY <1>2, <2>1
<1>6. PICK a \in JobRecords : a = [job[j] EXCEPT !.at = "keep"] /\ a.at = "keep" /\ a.conf = job[j].conf
  <2>1. /\ [job[j] EXCEPT !.at = "keep"] \in JobRecords
        /\ [job[j] EXCEPT !.at = "keep"].at = "keep"
        /\ [job[j] EXCEPT !.at = "keep"].conf = job[j].conf
    BY <1>2 DEF JobRecords
  <2> QED  BY <2>1
<1>7. PICK d \in JobRecords : d = [a EXCEPT !.conf = c] /\ d.at = "keep" /\ d.conf = c
  <2>1. /\ [a EXCEPT !.conf = c] \in JobRecords
        /\ [a EXCEPT !.conf = c].at = "keep" /\ [a EXCEPT !.conf = c].conf = c
    BY <1>6 DEF JobRecords
  <2> QED  BY <2>1
<1>8. PICK r \in JobRecords :
        r = [d EXCEPT !.file = s] /\ r.at = "keep" /\ r.conf = c /\ r.file = s
  <2>1. /\ [d EXCEPT !.file = s] \in JobRecords
        /\ [d EXCEPT !.file = s].at = "keep" /\ [d EXCEPT !.file = s].conf = c
        /\ [d EXCEPT !.file = s].file = s
    BY <1>7 DEF JobRecords
  <2> QED  BY <2>1
<1>9. job' = [job EXCEPT ![j] = r]
  <2>1. job \in [Transfers -> JobRecords]  BY <1>2, SessionTyped
  <2>2. [job EXCEPT ![j].at = "keep"] = [job EXCEPT ![j] = a]  BY <1>6
  <2>3. [[job EXCEPT ![j] = a] EXCEPT ![j].conf.session = s] = [job EXCEPT ![j] = d]
    <3>1. [[job EXCEPT ![j] = a] EXCEPT ![j].conf.session = s]
            = [job EXCEPT ![j] = [a EXCEPT !.conf.session = s]]
      BY <2>1
    <3>2. [a EXCEPT !.conf.session = s] = d
      BY <1>5, <1>6, <1>7 DEF JobRecords
    <3> QED  BY <3>1, <3>2
  <2>4. [[job EXCEPT ![j] = d] EXCEPT ![j].file = s] = [job EXCEPT ![j] = r]
    BY <1>8, <2>1
  <2> QED  BY <1>1, <1>4, <2>2, <2>3, <2>4
<1>10. job'[j] = r /\ \A k \in Transfers \ {j} : job'[k] = job[k]  BY <1>2, <1>9, JobMoves
<1>11. TransferOK(j)'  BY <1>3, <1>4, <1>5, <1>8, <1>10 DEF TransferOK, HasSession
<1>12. /\ live' \subseteq Sessions \ {NoSession} /\ renewalLost' \in BOOLEAN /\ issued' \in Sessions
       /\ issued \in Sessions /\ issued <= issued' /\ issued' <= issued'
       /\ \A x \in live' : x <= issued'
  <2>1. /\ issued \in Nat /\ issued \in Sessions
        /\ \A x \in live : x \in Sessions \ {NoSession} /\ x <= issued
    BY <1>2 DEF SessionInv, SessionTypeOK, Counted, Sessions
  <2> QED  BY <1>1, <1>2, <1>4, <2>1 DEF SessionTypeOK
<1>13. form.at = "create" /\ HasSession(form.conf) => form.conf.session # s
  <2>1. form.conf.session \in Sessions /\ form.conf.session <= issued
    BY <1>2, SessionTyped DEF SessionInv, Counted
  <2> QED  BY <1>4, <2>1
<1>14. RenewalComes'
  <2>1. UnderWay(j)  BY <1>1 DEF UnderWay
  <2>2. ~renewalLost /\ drive.active => drive.conf.kind # "code"
    BY <1>3, <2>1 DEF SessionInv, RenewalComes
  <2>3. \A k \in Transfers \ {j} : UnderWay(k)' = UnderWay(k)  BY <1>10 DEF UnderWay
  <2>4. ~renewalLost => \A k \in Transfers : UnderWay(k)' =>
          /\ job'[k].file = job'[k].conf.session \/ job'[k].file \in live'
          /\ drive.active => job'[k].conf.kind = drive.conf.kind
    <3> SUFFICES ASSUME ~renewalLost, NEW k \in Transfers, UnderWay(k)'
                 PROVE  /\ job'[k].file = job'[k].conf.session \/ job'[k].file \in live'
                        /\ drive.active => job'[k].conf.kind = drive.conf.kind
      OBVIOUS
    <3>1. CASE k = j  BY <1>5, <1>8, <1>10, <2>1, <3>1 DEF SessionInv, RenewalComes
    <3>2. CASE k # j
      <4>1. live \subseteq live'  BY <1>1
      <4> QED  BY <1>10, <2>3, <3>2, <4>1 DEF SessionInv, RenewalComes
    <3> QED  BY <3>1, <3>2
  <2>5. UNCHANGED <<drive, renewalLost>>  BY <1>1
  <2> QED  BY <2>2, <2>4, <2>5 DEF RenewalComes
<1> QED  BY <1>1, <1>4, <1>5, <1>8, <1>9, <1>11, <1>12, <1>13, <1>14, TransferGoesOn

LEMMA RenewsSession ==
  ASSUME SessionInv, NEW j \in Transfers, Renews(j)
  PROVE  SessionInv'
<1>1. /\ UNCHANGED <<form, drive, default, binds, failed>>
      /\ job[j].at = "run" /\ issued < MaxLogins /\ issued' = issued + 1
      /\ live' = (live \ {job[j].file}) \cup {issued'}
      /\ job' = [job EXCEPT ![j].file = issued']
      /\ renewalLost' = (renewalLost \/ LosesRenewal(j))
  BY DEF Renews
<1>2. /\ SessionTypeOK /\ job[j] \in JobRecords /\ job[j].conf \in Confs
      /\ job[j].conf.code = FALSE /\ job[j].conf.session \in Sessions
      /\ job[j].conf.session <= issued
  BY SessionTyped DEF SessionInv, NoCodeKept, Counted
<1>3. PICK s \in Sessions : /\ s = issued' /\ s # NoSession
                            /\ \A x \in Sessions : x <= issued => x <= s /\ x # s
  BY <1>1, LoginIsNew
<1>4. PICK r \in JobRecords : /\ r = [job[j] EXCEPT !.file = s] /\ r.at = "run"
                              /\ r.conf = job[j].conf /\ r.batch = job[j].batch /\ r.file = s
  <2>1. /\ [job[j] EXCEPT !.file = s] \in JobRecords
        /\ [job[j] EXCEPT !.file = s].at = "run"
        /\ [job[j] EXCEPT !.file = s].conf = job[j].conf
        /\ [job[j] EXCEPT !.file = s].batch = job[j].batch
        /\ [job[j] EXCEPT !.file = s].file = s
    BY <1>1, <1>2 DEF JobRecords
  <2> QED  BY <2>1
<1>5. job' = [job EXCEPT ![j] = r]  BY <1>1, <1>3, <1>4
<1>6. job'[j] = r /\ \A k \in Transfers \ {j} : job'[k] = job[k]  BY <1>2, <1>5, JobMoves
<1>7. TransferOK(j)'  BY <1>4, <1>6 DEF TransferOK
<1>8. /\ live' \subseteq Sessions \ {NoSession} /\ issued' \in Sessions
      /\ issued <= issued' /\ issued' <= issued' /\ \A x \in live' : x <= issued'
      /\ job[j].conf.session <= issued'
  <2>1. /\ issued \in Nat /\ issued \in Sessions
        /\ \A x \in live : x \in Sessions \ {NoSession} /\ x <= issued
    BY <1>2 DEF SessionInv, SessionTypeOK, Counted, Sessions
  <2> QED  BY <1>1, <1>2, <1>3, <2>1
<1>9. renewalLost' \in BOOLEAN
  BY <1>1
<1>10. form.at = "create" /\ HasSession(form.conf) =>
         form.conf.session # job[j].conf.session /\ form.conf.session # s
  <2>1. form.conf.session \in Sessions /\ form.conf.session <= issued
    BY <1>2, SessionTyped DEF SessionInv, Counted
  <2> QED  BY <1>3, <2>1 DEF SessionInv, FormOK
<1>11. RenewalComes'
  <2> SUFFICES ASSUME ~renewalLost' PROVE RenewalComes'
    BY DEF RenewalComes
  <2>1. ~renewalLost /\ ~job[j].batch /\ \A k \in Transfers \ {j} : ~UnderWay(k)
    BY <1>1 DEF LosesRenewal
  <2>2. UnderWay(j) /\ \A k \in Transfers \ {j} : ~UnderWay(k)'
    BY <1>1, <1>6, <2>1 DEF UnderWay
  <2>3. Renewed(j)'
    <3>1. s \in live' /\ s # job[j].conf.session  BY <1>1, <1>2, <1>3
    <3>2. /\ job'[j].file = s /\ job'[j].conf = job[j].conf /\ job'[j].batch = job[j].batch
          /\ job'[j].at = "run"
      BY <1>4, <1>6
    <3> QED  BY <2>1, <3>1, <3>2 DEF Renewed, UnderWay
  <2>4. drive.active => job[j].conf.kind = drive.conf.kind
    BY <2>1, <2>2 DEF SessionInv, RenewalComes
  <2>5. job'[j].file \in live' /\ job'[j].conf = job[j].conf
    <3>1. s \in live'  BY <1>1, <1>3
    <3> QED  BY <1>4, <1>6, <3>1
  <2> QED  BY <1>1, <2>2, <2>3, <2>4, <2>5 DEF RenewalComes
<1> QED
  <2>1. r.conf.code = FALSE /\ r.conf.session <= issued' /\ r.file <= issued'
    BY <1>2, <1>3, <1>4, <1>8
  <2>2. \A x \in live : x \in live' \/ x = job[j].file  BY <1>1
  <2> QED  BY <1>1, <1>4, <1>5, <1>7, <1>8, <1>9, <1>10, <1>11, <2>1, <2>2, TransferGoesOn

LEMMA NextSessionInv == SessionInv /\ [SessionNext]_sessionVars => SessionInv'
<1> SUFFICES ASSUME SessionInv, [SessionNext]_sessionVars PROVE SessionInv'
  OBVIOUS
<1>1. CASE \E kind \in LoginKinds : Answers(kind)  BY <1>1, AnswersSession
<1>2. CASE Validates \/ ValidatesWithoutSession \/ LoginRefused \/ SetsDefault
  BY <1>2, ValidatesSession, DialogueSession
<1>3. CASE Creates \/ Unbinds \/ Dies  BY <1>3, CreatesSession, UnbindsSession, DiesSession
<1>4. CASE \E j \in Transfers : \/ \E batch \in BOOLEAN : Starts(j, batch)
                                \/ LogsIn(j) \/ GoesWithout(j) \/ Keeps(j) \/ Renews(j)
  BY <1>4, StartsSession, LogsInSession, WithoutSession, KeepsSession, RenewsSession
<1>5. CASE \E j \in Transfers : Ends(j) \/ Looks(j) \/ WritesBack(j) \/ Fails(j)
  BY <1>5, EndsSession, LooksSession, WritesBackSession, FailsSession
<1>6. CASE UNCHANGED sessionVars
  BY <1>6 DEF sessionVars, SessionInv, SessionTypeOK, NoCodeKept, LastingLogin, FormOK, Counted,
              RenewalComes, Renewed, TransferOK, UnderWay
<1> QED  BY <1>1, <1>2, <1>3, <1>4, <1>5, <1>6 DEF SessionNext

\* The step of UnboundStays: only a binding makes a drive active.
LEMMA OnlyBindingActivates ==
  ASSUME SessionInv, [SessionNext]_sessionVars, ~drive.active, drive'.active
  PROVE  form.at = "create"
<1>1. CASE Creates  BY <1>1 DEF Creates
<1>2. CASE Unbinds  BY <1>2 DEF Unbinds
<1>3. CASE \E j \in Transfers : Keeps(j) \/ WritesBack(j)
  BY <1>3 DEF Keeps, WritesBack, Updates
<1>4. CASE UNCHANGED drive  BY <1>4
<1>5. [SessionNext]_sessionVars =>
        \/ Creates \/ Unbinds \/ UNCHANGED drive
        \/ \E j \in Transfers : Keeps(j) \/ WritesBack(j)
  BY DEF SessionNext, sessionVars, Answers, Validates, ValidatesWithoutSession, LoginRefused,
         SetsDefault, Dies, Starts, LogsIn, GoesWithout, Renews, Ends, Looks, Fails
<1> QED  BY <1>1, <1>2, <1>3, <1>4, <1>5

\* SessionHolds, for every number of transfers, dialogues, sessions and lapses: no spent code
\* is kept, a drive that only a code could log in again has a session, between transfers
\* one that the server takes unless its renewal may have been lost, and only a binding
\* makes a drive active.
THEOREM SessionIsKept == SessionSpec => SessionHolds
<1>1. SessionInv => SessionTypeOK /\ NoCodeKept /\ LastingLogin /\ RenewalIsKept
  <2>1. SessionInv => RenewalIsKept  BY DEF SessionInv, RenewalComes, RenewalIsKept, Renewed
  <2> QED  BY <2>1 DEF SessionInv
<1>2. SessionInv /\ [SessionNext]_sessionVars =>
        [~drive.active /\ drive'.active => form.at = "create"]_sessionVars
  BY OnlyBindingActivates
<1> QED
  BY <1>1, <1>2, InitSessionInv, NextSessionInv, PTL DEF SessionSpec, SessionHolds, UnboundStays

-----------------------------------------------------------------------------
(* RcloneUpload: the inductive invariant *)

\* What is left of the candidates for a password
Lefts == {<< >>, <<"obscured">>, <<"stored", "obscured">>}

UploadRecords ==
  [at : UploadPlaces, attempt : 0 .. MaxAttempts, left : Lefts, text : {"plain", "obscured"},
   refused : BOOLEAN]

\* Every variable has its type; a row that says that its password is plain is right, and
\* one that says verified has been.
UploadTyped ==
  /\ cred \in [format : Formats \cup {"verified"}, text : {"plain", "obscured"}]
  /\ cred.format = "plain" => cred.text = "plain"
  /\ cred.format = "verified" => accepted
  /\ right \in BOOLEAN /\ accepted \in BOOLEAN /\ misled \in BOOLEAN
  /\ up \in [Batches -> UploadRecords]
  /\ result \in [Batches -> Classes \cup {"none", "success", "CANCELLED"}]
  /\ cancelled \in [Batches -> BOOLEAN] /\ told \in [Batches -> BOOLEAN]
  /\ logged \in [Batches -> BOOLEAN] /\ whole \in [Batches -> BOOLEAN]
  /\ mishaps \in 0 .. MaxMishaps

\* One upload: it has an attempt to go when it waits for one; as long as the password is the
\* account's and each candidate could be tried, the one that opens is still to be tried.
UploadOK(b) ==
  /\ up[b].at = "idle" => up[b].attempt = 0
  /\ up[b].at = "delay" => up[b].attempt < MaxAttempts
  /\ up[b].at = "persist" => accepted
  /\ up[b].at = "probe" /\ right /\ ~misled =>
       /\ up[b].left # << >>
       /\ up[b].text = "obscured" => up[b].left = <<"stored", "obscured">>
  /\ told[b] => cancelled[b]
  /\ up[b].at = "run" /\ cancelled[b] => told[b]
  /\ result[b] = "success" => whole[b]
  /\ result[b] = "auth" => ~right \/ misled

UploadInv == UploadTyped /\ \A b \in Batches : UploadOK(b)

LEMMA LeftsShrink ==
  /\ \A l \in Lefts : l # << >> =>
       /\ Head(l) \in Candidates /\ Tail(l) \in Lefts
       /\ l = <<"stored", "obscured">> => Head(l) = "stored" /\ Tail(l) = <<"obscured">>
       /\ l = <<"obscured">> => Head(l) = "obscured"
       /\ Head(l) = "stored" => l = <<"stored", "obscured">>
  /\ <<"obscured">> # << >> /\ <<"stored", "obscured">> # << >>
  /\ <<"obscured">> # <<"stored", "obscured">>
  /\ \A format : CandidatesOf(format) \in Lefts \ {<< >>}
  /\ \A format : format # "plain" => CandidatesOf(format) = <<"stored", "obscured">>
BY DEF Lefts, Candidates, CandidatesOf

LEMMA LeftsAreShort ==
  \A l \in Lefts : Len(l) <= 2 /\ \A k \in 1 .. Len(l) : l[k] \in Candidates
<1>1. Len(<< >>) = 0 /\ Len(<<"obscured">>) = 1 /\ Len(<<"stored", "obscured">>) = 2
  OBVIOUS
<1>2. \A k \in 1 .. 0 : FALSE  OBVIOUS
<1>3. \A k \in 1 .. 1 : k = 1  OBVIOUS
<1>4. \A k \in 1 .. 2 : k = 1 \/ k = 2  OBVIOUS
<1>5. /\ <<"obscured">>[1] \in Candidates
      /\ <<"stored", "obscured">>[1] \in Candidates /\ <<"stored", "obscured">>[2] \in Candidates
  BY DEF Candidates
<1> SUFFICES ASSUME NEW l \in Lefts
             PROVE  Len(l) <= 2 /\ \A k \in 1 .. Len(l) : l[k] \in Candidates
  OBVIOUS
<1>6. CASE l = << >>  BY <1>1, <1>2, <1>6
<1>7. CASE l = <<"obscured">>  BY <1>1, <1>3, <1>5, <1>7
<1>8. CASE l = <<"stored", "obscured">>  BY <1>1, <1>4, <1>5, <1>8
<1> QED  BY <1>6, <1>7, <1>8 DEF Lefts

LEMMA UploadInvSafe == UploadInv => UploadSafe
<1> SUFFICES ASSUME UploadInv PROVE UploadSafe
  OBVIOUS
<1>1. \A b \in Batches : /\ up[b] \in UploadRecords
                         /\ up[b].at \in UploadPlaces /\ up[b].attempt \in 0 .. MaxAttempts
                         /\ up[b].refused \in BOOLEAN /\ up[b].text \in {"plain", "obscured"}
                         /\ up[b].left \in Lefts
  BY DEF UploadInv, UploadTyped, UploadRecords
<1>2. UploadTypeOK  BY <1>1, LeftsAreShort DEF UploadInv, UploadTyped, UploadTypeOK
<1>3. SuccessIsWhole /\ CancelledIsTold
  BY DEF UploadInv, UploadOK, SuccessIsWhole, CancelledIsTold, UploadAt
<1>4. RightPasswordIsFound  BY DEF UploadInv, UploadOK, RightPasswordIsFound
<1>5. VerifiedWasAccepted  BY DEF UploadInv, UploadTyped, VerifiedWasAccepted
<1> QED  BY <1>2, <1>3, <1>4, <1>5 DEF UploadSafe

LEMMA InitUploadInv == UploadInit => UploadInv
<1> SUFFICES ASSUME UploadInit PROVE UploadInv
  OBVIOUS
<1>1. [at |-> "idle", attempt |-> 0, left |-> << >>, text |-> "plain", refused |-> FALSE]
        \in UploadRecords
  <2>1. 0 \in 0 .. MaxAttempts  BY UploadAssumption
  <2>2. << >> \in Lefts  BY DEF Lefts
  <2> QED  BY <2>1, <2>2 DEF UploadRecords, UploadPlaces
<1>2. up \in [Batches -> UploadRecords]  BY <1>1 DEF UploadInit
<1>3. 0 \in 0 .. MaxMishaps  BY UploadAssumption
<1>4. cred.format \in Formats  BY DEF UploadInit
<1>5. UploadTyped  BY <1>2, <1>3, <1>4 DEF UploadInit, UploadTyped, Formats
<1>6. \A b \in Batches : UploadOK(b)  BY DEF UploadInit, UploadOK
<1> QED  BY <1>5, <1>6 DEF UploadInv

\* A step of one upload leaves the others as they are; a password does not become that of
\* the account, and what was tried stays so.
LEMMA OneUploadSteps ==
  ASSUME UploadInv, UploadTyped', NEW b \in Batches, UploadOK(b)',
         \A q \in Batches \ {b} :
           /\ up'[q] = up[q] /\ result'[q] = result[q] /\ cancelled'[q] = cancelled[q]
           /\ told'[q] = told[q] /\ (whole[q] => whole'[q]),
         right' => right, misled => misled', accepted => accepted'
  PROVE  UploadInv'
<1> SUFFICES ASSUME NEW q \in Batches, q # b PROVE UploadOK(q)'
  BY DEF UploadInv
<1>1. UploadOK(q)  BY DEF UploadInv
<1>2. /\ up'[q] = up[q] /\ result'[q] = result[q] /\ cancelled'[q] = cancelled[q]
      /\ told'[q] = told[q] /\ (whole[q] => whole'[q])
  OBVIOUS
<1> QED  BY <1>1, <1>2 DEF UploadOK

\* The record of an upload after a step
LEMMA UploadMoves ==
  ASSUME UploadTyped, NEW b \in Batches
  PROVE  /\ up[b] \in UploadRecords
         /\ up[b].at \in UploadPlaces /\ up[b].attempt \in 0 .. MaxAttempts
         /\ up[b].left \in Lefts /\ up[b].text \in {"plain", "obscured"}
         /\ up[b].refused \in BOOLEAN
         /\ \A r \in UploadRecords : up' = [up EXCEPT ![b] = r] =>
              /\ up' \in [Batches -> UploadRecords] /\ up'[b] = r
              /\ \A q \in Batches \ {b} : up'[q] = up[q]
BY DEF UploadTyped, UploadRecords

LEMMA UploadGoes ==
  ASSUME UploadTyped, NEW b \in Batches, NEW at \in UploadPlaces, UploadTo(b, at)
  PROVE  /\ up' \in [Batches -> UploadRecords]
         /\ up'[b].at = at /\ up'[b].attempt = up[b].attempt
         /\ up'[b].left = up[b].left /\ up'[b].text = up[b].text
         /\ \A q \in Batches \ {b} : up'[q] = up[q]
BY DEF UploadTyped, UploadTo, UploadRecords

LEMMA UploadSettles ==
  ASSUME UploadTyped, NEW b \in Batches, NEW at \in UploadPlaces,
         up' = [up EXCEPT ![b] = [@ EXCEPT !.at = at, !.left = << >>, !.refused = FALSE]]
  PROVE  /\ up' \in [Batches -> UploadRecords]
         /\ up'[b].at = at /\ up'[b].attempt = up[b].attempt
         /\ \A q \in Batches \ {b} : up'[q] = up[q]
<1>1. PICK u \in UploadRecords : u = up[b]  BY UploadMoves
<1>2. << >> \in Lefts  BY DEF Lefts
<1>3. PICK v \in UploadRecords : /\ v = [u EXCEPT !.at = at]
                                 /\ v.at = at /\ v.attempt = u.attempt
  <2>1. /\ [u EXCEPT !.at = at] \in UploadRecords
        /\ [u EXCEPT !.at = at].at = at /\ [u EXCEPT !.at = at].attempt = u.attempt
    BY <1>2 DEF UploadRecords
  <2> QED  BY <2>1
<1>4. PICK w \in UploadRecords : /\ w = [v EXCEPT !.left = << >>]
                                 /\ w.at = at /\ w.attempt = u.attempt
  <2>1. /\ [v EXCEPT !.left = << >>] \in UploadRecords
        /\ [v EXCEPT !.left = << >>].at = at /\ [v EXCEPT !.left = << >>].attempt = u.attempt
    BY <1>2, <1>3 DEF UploadRecords
  <2> QED  BY <2>1
<1>5. PICK x \in UploadRecords : /\ x = [w EXCEPT !.refused = FALSE]
                                 /\ x.at = at /\ x.attempt = u.attempt
  <2>1. /\ [w EXCEPT !.refused = FALSE] \in UploadRecords
        /\ [w EXCEPT !.refused = FALSE].at = at /\ [w EXCEPT !.refused = FALSE].attempt = u.attempt
    BY <1>4 DEF UploadRecords
  <2> QED  BY <2>1
<1>6. [u EXCEPT !.at = at, !.left = << >>, !.refused = FALSE] = x
  BY <1>3, <1>4, <1>5 DEF UploadRecords
<1>7. up' = [up EXCEPT ![b] = x]  BY <1>1, <1>6
<1> QED  BY <1>1, <1>5, <1>7, UploadMoves

\* An attempt that fails waits for the next, or is the last.
LEMMA AttemptEnds ==
  ASSUME UploadTyped, NEW b \in Batches, NEW class \in Classes, AttemptFails(b, class)
  PROVE  /\ up' \in [Batches -> UploadRecords]
         /\ up'[b].at \in {"delay", "done"}
         /\ up'[b].at = "delay" => up'[b].attempt < MaxAttempts
         /\ result' \in [Batches -> Classes \cup {"none", "success", "CANCELLED"}]
         /\ result'[b] \in {result[b], class}
         /\ \A q \in Batches \ {b} : up'[q] = up[q] /\ result'[q] = result[q]
<1>1. CASE class = "transient" /\ up[b].attempt < MaxAttempts
  <2>1. up' = [up EXCEPT ![b] = [@ EXCEPT !.at = "delay", !.left = << >>, !.refused = FALSE]]
        /\ UNCHANGED result
    BY <1>1 DEF AttemptFails
  <2>2. "delay" \in UploadPlaces  BY DEF UploadPlaces
  <2> QED  BY <1>1, <2>1, <2>2, UploadSettles DEF UploadTyped
<1>2. CASE ~ (class = "transient" /\ up[b].attempt < MaxAttempts)
  <2>1. /\ up' = [up EXCEPT ![b] = [@ EXCEPT !.at = "done", !.left = << >>, !.refused = FALSE]]
        /\ result' = [result EXCEPT ![b] = class]
    BY <1>2 DEF AttemptFails, Returns
  <2>2. "done" \in UploadPlaces  BY DEF UploadPlaces
  <2>3. up' \in [Batches -> UploadRecords] /\ up'[b].at = "done"
        /\ \A q \in Batches \ {b} : up'[q] = up[q]
    BY <2>1, <2>2, UploadSettles
  <2> QED  BY <2>1, <2>3 DEF UploadTyped
<1> QED  BY <1>1, <1>2

LEMMA UploadReturns ==
  ASSUME UploadTyped, NEW b \in Batches,
         NEW what \in Classes \cup {"none", "success", "CANCELLED"}, Returns(b, what)
  PROVE  /\ up' \in [Batches -> UploadRecords] /\ up'[b].at = "done"
         /\ result' \in [Batches -> Classes \cup {"none", "success", "CANCELLED"}]
         /\ result'[b] = what
         /\ \A q \in Batches \ {b} : up'[q] = up[q] /\ result'[q] = result[q]
<1>1. /\ up' = [up EXCEPT ![b] = [@ EXCEPT !.at = "done", !.left = << >>, !.refused = FALSE]]
      /\ result' = [result EXCEPT ![b] = what]
  BY DEF Returns
<1>2. "done" \in UploadPlaces  BY DEF UploadPlaces
<1>3. up' \in [Batches -> UploadRecords] /\ up'[b].at = "done"
      /\ \A q \in Batches \ {b} : up'[q] = up[q]
  BY <1>1, <1>2, UploadSettles
<1> QED  BY <1>1, <1>3 DEF UploadTyped

LEMMA MishapTyped == UploadTyped /\ Mishap => mishaps' \in 0 .. MaxMishaps
BY UploadAssumption DEF UploadTyped, Mishap

-----------------------------------------------------------------------------
(* The steps of an upload *)

LEMMA BeginsUpload ==
  ASSUME UploadInv, NEW b \in Batches, Begins(b)
  PROVE  UploadInv'
<1>1. UploadTyped /\ UploadOK(b) /\ up[b].at \in {"idle", "delay"}
  BY DEF UploadInv, Begins
<1>2. UNCHANGED <<cred, right, cancelled, told, logged, whole, accepted, misled, mishaps>>
  BY DEF Begins
<1>3. CASE cancelled[b]
  <2>1. Returns(b, "CANCELLED")  BY <1>3 DEF Begins
  <2>2. /\ up' \in [Batches -> UploadRecords] /\ up'[b].at = "done"
        /\ result' \in [Batches -> Classes \cup {"none", "success", "CANCELLED"}]
        /\ result'[b] = "CANCELLED"
        /\ \A q \in Batches \ {b} : up'[q] = up[q] /\ result'[q] = result[q]
    BY <1>1, <2>1, UploadReturns
  <2>3. UploadTyped'  BY <1>1, <1>2, <2>2 DEF UploadTyped
  <2>4. UploadOK(b)'  BY <1>1, <1>2, <2>2 DEF UploadOK
  <2> QED  BY <1>2, <2>2, <2>3, <2>4, OneUploadSteps
<1>4. CASE ~cancelled[b]
  <2>1. up' = [up EXCEPT ![b].at = "config", ![b].attempt = @ + 1] /\ UNCHANGED result
    BY <1>4 DEF Begins
  <2>2. PICK u \in UploadRecords : u = up[b]  BY <1>1, UploadMoves
  <2>3. PICK n \in 0 .. MaxAttempts : n = up[b].attempt + 1
    <3>1. up[b].attempt \in 0 .. MaxAttempts /\ up[b].attempt < MaxAttempts
      BY <1>1, UploadMoves, UploadAssumption DEF UploadOK
    <3> QED  BY <3>1, UploadAssumption
  <2>4. PICK v \in UploadRecords : v = [u EXCEPT !.at = "config"] /\ v.at = "config"
    <3>1. /\ [u EXCEPT !.at = "config"] \in UploadRecords
          /\ [u EXCEPT !.at = "config"].at = "config"
      BY DEF UploadRecords, UploadPlaces
    <3> QED  BY <3>1
  <2>5. PICK w \in UploadRecords : w = [v EXCEPT !.attempt = n] /\ w.at = "config"
    <3>1. /\ [v EXCEPT !.attempt = n] \in UploadRecords
          /\ [v EXCEPT !.attempt = n].at = "config"
      BY <2>4 DEF UploadRecords
    <3> QED  BY <3>1
  <2>6. up' = [up EXCEPT ![b] = w]
    <3>1. [up EXCEPT ![b].at = "config"] = [up EXCEPT ![b] = v]  BY <2>2, <2>4
    <3>2. up' = [[up EXCEPT ![b] = v] EXCEPT ![b].attempt = n]  BY <2>1, <2>3, <3>1
    <3>3. [[up EXCEPT ![b] = v] EXCEPT ![b].attempt = n] = [up EXCEPT ![b] = w]
      BY <1>1, <2>5 DEF UploadTyped
    <3> QED  BY <3>2, <3>3
  <2>7. up' \in [Batches -> UploadRecords] /\ up'[b].at = "config"
        /\ \A q \in Batches \ {b} : up'[q] = up[q]
    BY <1>1, <2>5, <2>6, UploadMoves
  <2>8. UploadTyped'  BY <1>1, <1>2, <2>1, <2>7 DEF UploadTyped
  <2>9. UploadOK(b)'  BY <1>1, <1>2, <2>1, <2>7 DEF UploadOK
  <2> QED  BY <1>2, <2>1, <2>7, <2>8, <2>9, OneUploadSteps
<1> QED  BY <1>3, <1>4

LEMMA ReadsUpload ==
  ASSUME UploadInv, NEW b \in Batches, ReadsRow(b)
  PROVE  UploadInv'
<1>1. UploadTyped /\ UploadOK(b)  BY DEF UploadInv
<1>2. UNCHANGED <<cred, right, result, cancelled, told, logged, whole, accepted, misled, mishaps>>
  BY DEF ReadsRow
<1>3. CASE cred.format = "verified"
  <2>1. UploadTo(b, "mkdir")  BY <1>3 DEF ReadsRow
  <2>2. up' \in [Batches -> UploadRecords] /\ up'[b].at = "mkdir"
        /\ \A q \in Batches \ {b} : up'[q] = up[q]
    BY <1>1, <2>1, UploadGoes DEF UploadPlaces
  <2>3. UploadTyped'  BY <1>1, <1>2, <2>2 DEF UploadTyped
  <2>4. UploadOK(b)'  BY <1>1, <1>2, <2>2 DEF UploadOK
  <2> QED  BY <1>2, <2>2, <2>3, <2>4, OneUploadSteps
<1>4. CASE cred.format # "verified"
  <2>1. up' = [up EXCEPT ![b] = [@ EXCEPT !.at = "probe", !.left = CandidatesOf(cred.format),
                                          !.text = cred.text, !.refused = FALSE]]
    BY <1>4 DEF ReadsRow
  <2>2. PICK u \in UploadRecords : u = up[b]  BY <1>1, UploadMoves
  <2>3. PICK l \in Lefts : /\ l = CandidatesOf(cred.format) /\ l # << >>
                           /\ cred.format # "plain" => l = <<"stored", "obscured">>
    BY LeftsShrink
  <2>4. PICK t \in {"plain", "obscured"} : t = cred.text  BY <1>1 DEF UploadTyped
  <2>5. PICK r \in UploadRecords :
          r = [u EXCEPT !.at = "probe"] /\ r.at = "probe"
    <3>1. /\ [u EXCEPT !.at = "probe"] \in UploadRecords
          /\ [u EXCEPT !.at = "probe"].at = "probe"
      BY DEF UploadRecords, UploadPlaces
    <3> QED  BY <3>1
  <2>6. PICK v \in UploadRecords : v = [r EXCEPT !.left = l] /\ v.at = "probe" /\ v.left = l
    <3>1. /\ [r EXCEPT !.left = l] \in UploadRecords
          /\ [r EXCEPT !.left = l].at = "probe" /\ [r EXCEPT !.left = l].left = l
      BY <2>5 DEF UploadRecords
    <3> QED  BY <3>1
  <2>7. PICK w \in UploadRecords :
          w = [v EXCEPT !.text = t] /\ w.at = "probe" /\ w.left = l /\ w.text = t
    <3>1. /\ [v EXCEPT !.text = t] \in UploadRecords /\ [v EXCEPT !.text = t].text = t
          /\ [v EXCEPT !.text = t].at = "probe" /\ [v EXCEPT !.text = t].left = l
      BY <2>6 DEF UploadRecords
    <3> QED  BY <3>1
  <2>8. PICK x \in UploadRecords :
          x = [w EXCEPT !.refused = FALSE] /\ x.at = "probe" /\ x.left = l /\ x.text = t
    <3>1. /\ [w EXCEPT !.refused = FALSE] \in UploadRecords
          /\ [w EXCEPT !.refused = FALSE].text = t
          /\ [w EXCEPT !.refused = FALSE].at = "probe" /\ [w EXCEPT !.refused = FALSE].left = l
      BY <2>7 DEF UploadRecords
    <3> QED  BY <3>1
  <2>9. [u EXCEPT !.at = "probe", !.left = l, !.text = t, !.refused = FALSE] = x
    BY <2>5, <2>6, <2>7, <2>8 DEF UploadRecords
  <2>10. up' = [up EXCEPT ![b] = x]  BY <2>1, <2>2, <2>3, <2>4, <2>9
  <2>11. up' \in [Batches -> UploadRecords] /\ up'[b] = x
         /\ \A q \in Batches \ {b} : up'[q] = up[q]
    BY <1>1, <2>10, UploadMoves
  <2>12. t = "obscured" => l = <<"stored", "obscured">>
    BY <1>1, <2>3, <2>4 DEF UploadTyped
  <2>13. UploadTyped'  BY <1>1, <1>2, <2>11 DEF UploadTyped
  <2>14. UploadOK(b)'  BY <1>1, <1>2, <2>3, <2>8, <2>11, <2>12 DEF UploadOK, ReadsRow, UploadAt
  <2> QED  BY <1>2, <2>11, <2>13, <2>14, OneUploadSteps
<1> QED  BY <1>3, <1>4

LEMMA OpensUpload ==
  ASSUME UploadInv, NEW b \in Batches, ProbeOpens(b)
  PROVE  UploadInv'
<1>1. UploadTyped /\ UploadOK(b)  BY DEF UploadInv
<1>2. UNCHANGED <<cred, right, result, cancelled, told, logged, whole, misled, mishaps>>
      /\ accepted'
  BY DEF ProbeOpens
<1>3. up' = [up EXCEPT ![b] = [@ EXCEPT !.at = "persist", !.left = << >>, !.refused = FALSE]]
  BY DEF ProbeOpens
<1>4. up' \in [Batches -> UploadRecords] /\ up'[b].at = "persist"
      /\ \A q \in Batches \ {b} : up'[q] = up[q]
  BY <1>1, <1>3, UploadSettles DEF UploadPlaces
<1>5. accepted' = TRUE  BY DEF ProbeOpens
<1>6. UploadTyped'  BY <1>1, <1>2, <1>4, <1>5 DEF UploadTyped
<1>7. UploadOK(b)'  BY <1>1, <1>2, <1>4 DEF UploadOK
<1> QED  BY <1>2, <1>4, <1>6, <1>7, OneUploadSteps

\* The candidate that comes first is put aside.
LEMMA NextCandidate ==
  ASSUME UploadTyped, NEW b \in Batches, up[b].left # << >>,
         \/ up' = [up EXCEPT ![b].left = Tail(@), ![b].refused = TRUE]
         \/ up' = [up EXCEPT ![b].left = Tail(@)]
  PROVE  /\ up' \in [Batches -> UploadRecords]
         /\ up'[b].at = up[b].at /\ up'[b].attempt = up[b].attempt
         /\ up'[b].left = Tail(up[b].left) /\ up'[b].text = up[b].text
         /\ \A q \in Batches \ {b} : up'[q] = up[q]
<1>1. PICK u \in UploadRecords : u = up[b]  BY UploadMoves
<1>2. PICK l \in Lefts : l = Tail(u.left)
  <2>1. u.left \in Lefts  BY <1>1, UploadMoves
  <2> QED  BY <1>1, <2>1, LeftsShrink
<1>3. PICK v \in UploadRecords : /\ v = [u EXCEPT !.left = l]
                                 /\ v.at = u.at /\ v.attempt = u.attempt
                                 /\ v.left = l /\ v.text = u.text
  <2>1. /\ [u EXCEPT !.left = l] \in UploadRecords
        /\ [u EXCEPT !.left = l].at = u.at /\ [u EXCEPT !.left = l].attempt = u.attempt
        /\ [u EXCEPT !.left = l].left = l /\ [u EXCEPT !.left = l].text = u.text
    BY DEF UploadRecords
  <2> QED  BY <2>1
<1>4. PICK w \in UploadRecords : /\ w = [v EXCEPT !.refused = TRUE]
                                 /\ w.at = u.at /\ w.attempt = u.attempt
                                 /\ w.left = l /\ w.text = u.text
  <2>1. /\ [v EXCEPT !.refused = TRUE] \in UploadRecords
        /\ [v EXCEPT !.refused = TRUE].at = u.at /\ [v EXCEPT !.refused = TRUE].attempt = u.attempt
        /\ [v EXCEPT !.refused = TRUE].left = l /\ [v EXCEPT !.refused = TRUE].text = u.text
    BY <1>3 DEF UploadRecords
  <2> QED  BY <2>1
<1>5. up' = [up EXCEPT ![b] = w] \/ up' = [up EXCEPT ![b] = v]
  <2>1. [up EXCEPT ![b].left = Tail(@)] = [up EXCEPT ![b] = v]
    BY <1>1, <1>2, <1>3
  <2>2. [up EXCEPT ![b].left = Tail(@), ![b].refused = TRUE]
          = [[up EXCEPT ![b] = v] EXCEPT ![b].refused = TRUE]
    BY <2>1
  <2>3. [[up EXCEPT ![b] = v] EXCEPT ![b].refused = TRUE] = [up EXCEPT ![b] = w]
    BY <1>4 DEF UploadTyped
  <2> QED  BY <2>1, <2>2, <2>3
<1>6. PICK r \in UploadRecords : /\ up' = [up EXCEPT ![b] = r]
                                 /\ r.at = u.at /\ r.attempt = u.attempt
                                 /\ r.left = l /\ r.text = u.text
  BY <1>3, <1>4, <1>5
<1>7. /\ up' \in [Batches -> UploadRecords] /\ up'[b] = r
      /\ \A q \in Batches \ {b} : up'[q] = up[q]
  BY <1>6, UploadMoves
<1> QED  BY <1>1, <1>2, <1>6, <1>7

LEMMA RefusedUpload ==
  ASSUME UploadInv, NEW b \in Batches, ProbeRefused(b) \/ ObscureFails(b)
  PROVE  UploadInv'
<1>1. /\ UploadTyped /\ UploadOK(b) /\ up[b].at = "probe" /\ up[b].left # << >>
      /\ up[b].left \in Lefts /\ up[b].text \in {"plain", "obscured"}
  BY UploadMoves DEF UploadInv, ProbeRefused, ObscureFails, UploadAt
<1>2. UNCHANGED <<cred, right, result, cancelled, told, logged, whole, accepted>>
  BY DEF ProbeRefused, ObscureFails
<1>3. /\ up' \in [Batches -> UploadRecords]
      /\ up'[b].at = up[b].at /\ up'[b].left = Tail(up[b].left) /\ up'[b].text = up[b].text
      /\ \A q \in Batches \ {b} : up'[q] = up[q]
  BY <1>1, NextCandidate DEF ProbeRefused, ObscureFails
<1>4. \/ misled' = misled /\ mishaps' = mishaps /\ ~Opens(b, Head(up[b].left))
      \/ misled' = TRUE /\ Mishap
  BY DEF ProbeRefused, ObscureFails
<1>5. mishaps' \in 0 .. MaxMishaps  BY <1>1, <1>4, MishapTyped DEF UploadTyped
<1>6. UploadTyped'  BY <1>1, <1>2, <1>3, <1>4, <1>5 DEF UploadTyped
<1>7. right /\ ~misled' =>
        /\ Tail(up[b].left) # << >>
        /\ up[b].text = "obscured" => Tail(up[b].left) = <<"stored", "obscured">>
  <2> SUFFICES ASSUME right, ~misled'
               PROVE  /\ up[b].text = "plain" /\ up[b].left = <<"stored", "obscured">>
    BY LeftsShrink
  <2>1. ~misled /\ ~Opens(b, Head(up[b].left))  BY <1>4
  <2>2. Head(up[b].left) \in Candidates  BY <1>1, LeftsShrink
  <2>3. up[b].text = "obscured" => up[b].left = <<"stored", "obscured">>
    BY <1>1, <2>1 DEF UploadOK
  <2>4. up[b].text # "obscured"
    <3>1. up[b].text = "obscured" => Head(up[b].left) = "stored"
      BY <1>1, <2>3, LeftsShrink
    <3> QED  BY <2>1, <3>1 DEF Opens
  <2>5. Head(up[b].left) = "stored"  BY <2>1, <2>4 DEF Opens
  <2> QED  BY <1>1, <2>4, <2>5, LeftsShrink
<1>8. UploadOK(b)'
  BY <1>1, <1>2, <1>3, <1>4, <1>7 DEF UploadOK
<1> QED  BY <1>2, <1>3, <1>4, <1>6, <1>8, OneUploadSteps

\* A step that fails ends the attempt.
LEMMA FailsUpload ==
  ASSUME UploadInv, NEW b \in Batches, NEW class \in Classes, AttemptFails(b, class),
         class = "auth" => ~right \/ misled,
         UNCHANGED <<cred, right, cancelled, told, logged, accepted, misled>>,
         mishaps' \in 0 .. MaxMishaps,
         whole' \in [Batches -> BOOLEAN], \A q \in Batches : whole[q] => whole'[q]
  PROVE  UploadInv'
<1>1. UploadTyped /\ UploadOK(b)  BY DEF UploadInv
<1>2. /\ up' \in [Batches -> UploadRecords]
      /\ up'[b].at \in {"delay", "done"}
      /\ up'[b].at = "delay" => up'[b].attempt < MaxAttempts
      /\ result' \in [Batches -> Classes \cup {"none", "success", "CANCELLED"}]
      /\ result'[b] \in {result[b], class}
      /\ \A q \in Batches \ {b} : up'[q] = up[q] /\ result'[q] = result[q]
  BY <1>1, AttemptEnds
<1>3. UploadTyped'  BY <1>1, <1>2 DEF UploadTyped
<1>4. class # "success"  BY DEF Classes
<1>5. UploadOK(b)'  BY <1>1, <1>2, <1>4 DEF UploadOK
<1> QED  BY <1>2, <1>3, <1>5, OneUploadSteps

LEMMA ClassesAre == "transient" \in Classes /\ "other" \in Classes /\ "auth" \in Classes
BY DEF Classes

\* A process that has ended, or an upload that has nothing left to try, returns.
LEMMA ReturnsUpload ==
  ASSUME UploadInv, NEW b \in Batches, NEW what \in {"auth", "success", "CANCELLED"},
         Returns(b, what),
         what = "auth" => ~right \/ misled, what = "success" => whole'[b],
         UNCHANGED <<cred, right, cancelled, told, logged, accepted, misled, mishaps>>,
         whole' \in [Batches -> BOOLEAN], \A q \in Batches : whole[q] => whole'[q]
  PROVE  UploadInv'
<1>1. UploadTyped /\ UploadOK(b)  BY DEF UploadInv
<1>2. what \in Classes \cup {"none", "success", "CANCELLED"}  BY DEF Classes
<1>3. /\ up' \in [Batches -> UploadRecords] /\ up'[b].at = "done"
      /\ result' \in [Batches -> Classes \cup {"none", "success", "CANCELLED"}]
      /\ result'[b] = what
      /\ \A q \in Batches \ {b} : up'[q] = up[q] /\ result'[q] = result[q]
  BY <1>1, <1>2, UploadReturns
<1>4. UploadTyped'  BY <1>1, <1>3 DEF UploadTyped
<1>5. UploadOK(b)'  BY <1>1, <1>3 DEF UploadOK
<1> QED  BY <1>3, <1>4, <1>5, OneUploadSteps

LEMMA ProbeFailsUpload ==
  ASSUME UploadInv, NEW b \in Batches, ProbeFails(b)
  PROVE  UploadInv'
<1>1. UploadTyped  BY DEF UploadInv
<1>2. /\ UNCHANGED <<cred, right, cancelled, told, logged, whole, accepted, misled>>
      /\ mishaps' \in 0 .. MaxMishaps
  BY <1>1, MishapTyped DEF ProbeFails
<1>3. PICK class \in {"transient", "other"} : AttemptFails(b, class)
  BY DEF ProbeFails, OnFault
<1>4. whole' \in [Batches -> BOOLEAN] /\ \A q \in Batches : whole[q] => whole'[q]
  BY <1>1, <1>2 DEF UploadTyped
<1> QED  BY <1>2, <1>3, <1>4, FailsUpload, ClassesAre

LEMMA AllRefusedUpload ==
  ASSUME UploadInv, NEW b \in Batches, AllRefused(b)
  PROVE  UploadInv'
<1>1. UploadTyped /\ UploadOK(b) /\ up[b].at = "probe" /\ up[b].left = << >>
  BY DEF UploadInv, AllRefused, UploadAt
<1>2. UNCHANGED <<cred, right, cancelled, told, logged, whole, accepted, misled, mishaps>>
  BY DEF AllRefused
<1>3. /\ ~right \/ misled
      /\ mishaps' \in 0 .. MaxMishaps
      /\ whole' \in [Batches -> BOOLEAN] /\ \A q \in Batches : whole[q] => whole'[q]
  BY <1>1, <1>2 DEF UploadTyped, UploadOK
<1>4. CASE up[b].refused
  <2>1. Returns(b, "auth")  BY <1>4 DEF AllRefused
  <2> QED  BY <1>2, <1>3, <2>1, ReturnsUpload
<1>5. CASE ~up[b].refused
  <2>1. PICK class \in {"transient", "other"} : AttemptFails(b, class)
    BY <1>5 DEF AllRefused
  <2> QED  BY <1>2, <1>3, <2>1, FailsUpload, ClassesAre
<1> QED  BY <1>4, <1>5

LEMMA PersistsUpload ==
  ASSUME UploadInv, NEW b \in Batches, Persists(b)
  PROVE  UploadInv'
<1>1. UploadTyped /\ UploadOK(b) /\ up[b].at = "persist" /\ accepted
  BY DEF UploadInv, Persists, UploadAt, UploadOK
<1>2. UNCHANGED <<right, result, cancelled, told, logged, whole, accepted, misled>>
  BY DEF Persists
<1>3. up' \in [Batches -> UploadRecords] /\ up'[b].at = "mkdir"
      /\ \A q \in Batches \ {b} : up'[q] = up[q]
  BY <1>1, UploadGoes DEF Persists, UploadPlaces
<1>4. \/ cred' = [format |-> "verified", text |-> "obscured"] /\ mishaps' = mishaps
      \/ cred' = cred /\ mishaps' \in 0 .. MaxMishaps
  BY <1>1, MishapTyped DEF Persists, Verified
<1>5. UploadTyped'  BY <1>1, <1>2, <1>3, <1>4 DEF UploadTyped
<1>6. UploadOK(b)'  BY <1>1, <1>2, <1>3 DEF UploadOK
<1> QED  BY <1>2, <1>3, <1>5, <1>6, OneUploadSteps

LEMMA DirectoryUpload ==
  ASSUME UploadInv, NEW b \in Batches, MakesDirectory(b)
  PROVE  UploadInv'
<1>1. UploadTyped /\ UploadOK(b)  BY DEF UploadInv
<1>2. UNCHANGED <<cred, right, result, cancelled, told, logged, whole, accepted, misled, mishaps>>
  BY DEF MakesDirectory
<1>3. up' \in [Batches -> UploadRecords] /\ up'[b].at = "spawn"
      /\ \A q \in Batches \ {b} : up'[q] = up[q]
  BY <1>1, UploadGoes DEF MakesDirectory, UploadPlaces
<1>4. UploadTyped'  BY <1>1, <1>2, <1>3 DEF UploadTyped
<1>5. UploadOK(b)'  BY <1>1, <1>2, <1>3 DEF UploadOK
<1> QED  BY <1>2, <1>3, <1>4, <1>5, OneUploadSteps

LEMMA DirectoryFailsUpload ==
  ASSUME UploadInv, NEW b \in Batches, DirectoryFails(b)
  PROVE  UploadInv'
<1>1. UploadTyped  BY DEF UploadInv
<1>2. UNCHANGED <<cred, right, cancelled, told, logged, whole, accepted, misled>>
  BY DEF DirectoryFails
<1>3. whole' \in [Batches -> BOOLEAN] /\ \A q \in Batches : whole[q] => whole'[q]
  BY <1>1, <1>2 DEF UploadTyped
<1>4. CASE right
  <2>1. PICK class \in {"transient", "other"} : AttemptFails(b, class)
    BY <1>4 DEF DirectoryFails
  <2>2. mishaps' \in 0 .. MaxMishaps  BY <1>1, <1>4, MishapTyped DEF DirectoryFails
  <2> QED  BY <1>2, <1>3, <2>1, <2>2, FailsUpload, ClassesAre
<1>5. CASE ~right
  <2>1. AttemptFails(b, "auth") /\ mishaps' \in 0 .. MaxMishaps
    BY <1>1, <1>5 DEF DirectoryFails, UploadTyped
  <2> QED  BY <1>2, <1>3, <1>5, <2>1, FailsUpload, ClassesAre
<1> QED  BY <1>4, <1>5

-----------------------------------------------------------------------------
(* The steps of its process, and of the user *)

LEMMA SpawnsUpload ==
  ASSUME UploadInv, NEW b \in Batches, Spawns(b)
  PROVE  UploadInv'
<1>1. UploadTyped /\ UploadOK(b)  BY DEF UploadInv
<1>2. UNCHANGED <<cred, right, result, cancelled, whole, accepted, misled, mishaps>>
  BY DEF Spawns
<1>3. up' \in [Batches -> UploadRecords] /\ up'[b].at = "run"
      /\ \A q \in Batches \ {b} : up'[q] = up[q]
  BY <1>1, UploadGoes DEF Spawns, UploadPlaces
<1>4. /\ told' \in [Batches -> BOOLEAN] /\ told'[b] = cancelled[b]
      /\ \A q \in Batches \ {b} : told'[q] = told[q]
  BY <1>1 DEF Spawns, ToldAtOnce, UploadTyped
<1>5. logged' \in [Batches -> BOOLEAN]  BY <1>1 DEF Spawns, UploadTyped
<1>6. UploadTyped'  BY <1>1, <1>2, <1>3, <1>4, <1>5 DEF UploadTyped
<1>7. UploadOK(b)'  BY <1>1, <1>2, <1>3, <1>4 DEF UploadOK
<1> QED  BY <1>2, <1>3, <1>4, <1>6, <1>7, OneUploadSteps

LEMMA LogsUpload ==
  ASSUME UploadInv, NEW b \in Batches, LogsError(b)
  PROVE  UploadInv'
<1>1. UploadTyped /\ UploadOK(b)  BY DEF UploadInv
<1>2. UNCHANGED <<cred, right, up, result, cancelled, told, whole, accepted, misled>>
  BY DEF LogsError
<1>3. mishaps' \in 0 .. MaxMishaps /\ logged' \in [Batches -> BOOLEAN]
  BY <1>1, MishapTyped DEF LogsError, UploadTyped
<1>4. UploadTyped'  BY <1>1, <1>2, <1>3 DEF UploadTyped
<1>5. UploadOK(b)'  BY <1>1, <1>2 DEF UploadOK
<1> QED  BY <1>2, <1>4, <1>5, OneUploadSteps

LEMMA ClosesUpload ==
  ASSUME UploadInv, NEW b \in Batches, Closes(b)
  PROVE  UploadInv'
<1>1. UploadTyped /\ UploadOK(b)  BY DEF UploadInv
<1>2. UNCHANGED <<cred, right, cancelled, told, logged, accepted, misled, mishaps>>
  BY DEF Closes
<1>3. PICK all \in BOOLEAN : Leaves(b, all)  BY DEF Closes
<1>4. /\ whole' \in [Batches -> BOOLEAN] /\ \A q \in Batches : whole[q] => whole'[q]
      /\ ~told[b] /\ ~logged[b] => whole'[b]
  <2>1. CASE all = TRUE  BY <1>1, <1>3, <2>1 DEF Leaves, UploadTyped
  <2>2. CASE all = FALSE  BY <1>1, <1>3, <2>2 DEF Leaves, UploadTyped
  <2> QED  BY <2>1, <2>2
<1>5. mishaps' \in 0 .. MaxMishaps  BY <1>1, <1>2 DEF UploadTyped
<1>6. CASE cancelled[b]
  <2>1. Returns(b, "CANCELLED")  BY <1>6 DEF Closes
  <2> QED  BY <1>2, <1>4, <2>1, ReturnsUpload
<1>7. CASE ~cancelled[b] /\ logged[b]
  <2>1. PICK class \in {"transient", "other"} : AttemptFails(b, class)
    BY <1>7 DEF Closes, HasErrors
  <2> QED  BY <1>2, <1>4, <1>5, <2>1, FailsUpload, ClassesAre
<1>8. CASE ~cancelled[b] /\ ~logged[b]
  <2>1. Returns(b, "success")  BY <1>8 DEF Closes, HasErrors
  <2>2. whole'[b]  BY <1>1, <1>4, <1>8 DEF UploadOK
  <2> QED  BY <1>2, <1>4, <2>1, <2>2, ReturnsUpload
<1> QED  BY <1>6, <1>7, <1>8

LEMMA BreaksUpload ==
  ASSUME UploadInv, NEW b \in Batches, Breaks(b)
  PROVE  UploadInv'
<1>1. UploadTyped  BY DEF UploadInv
<1>2. UNCHANGED <<cred, right, cancelled, told, logged, whole, accepted, misled>>
  BY DEF Breaks
<1>3. whole' \in [Batches -> BOOLEAN] /\ \A q \in Batches : whole[q] => whole'[q]
  BY <1>1, <1>2 DEF UploadTyped
<1>4. CASE cancelled[b]
  <2>1. Returns(b, "CANCELLED") /\ UNCHANGED mishaps  BY <1>4 DEF Breaks
  <2> QED  BY <1>2, <1>3, <2>1, ReturnsUpload
<1>5. CASE ~cancelled[b] /\ right
  <2>1. PICK class \in {"transient", "other"} : AttemptFails(b, class)
    BY <1>5 DEF Breaks
  <2>2. mishaps' \in 0 .. MaxMishaps  BY <1>1, <1>5, MishapTyped DEF Breaks
  <2> QED  BY <1>2, <1>3, <2>1, <2>2, FailsUpload, ClassesAre
<1>6. CASE ~cancelled[b] /\ ~right
  <2>1. AttemptFails(b, "auth") /\ mishaps' \in 0 .. MaxMishaps
    BY <1>1, <1>6 DEF Breaks, UploadTyped
  <2> QED  BY <1>2, <1>3, <1>6, <2>1, FailsUpload, ClassesAre
<1> QED  BY <1>4, <1>5, <1>6

LEMMA ErrsUpload ==
  ASSUME UploadInv, NEW b \in Batches, Errs(b)
  PROVE  UploadInv'
<1>1. UploadTyped  BY DEF UploadInv
<1>2. UNCHANGED <<cred, right, cancelled, told, logged, whole, accepted, misled>>
  BY DEF Errs
<1>3. whole' \in [Batches -> BOOLEAN] /\ \A q \in Batches : whole[q] => whole'[q]
  BY <1>1, <1>2 DEF UploadTyped
<1>4. PICK class \in {"transient", "other"} : AttemptFails(b, class)
  BY DEF Errs
<1>5. mishaps' \in 0 .. MaxMishaps  BY <1>1, MishapTyped DEF Errs
<1> QED  BY <1>2, <1>3, <1>4, <1>5, FailsUpload, ClassesAre

LEMMA CancelsUpload ==
  ASSUME UploadInv, NEW b \in Batches, Cancels(b)
  PROVE  UploadInv'
<1>1. UploadTyped /\ UploadOK(b)  BY DEF UploadInv
<1>2. UNCHANGED <<cred, right, up, result, logged, whole, accepted, misled, mishaps>>
  BY DEF Cancels
<1>3. /\ cancelled' \in [Batches -> BOOLEAN] /\ cancelled'[b]
      /\ told' \in [Batches -> BOOLEAN] /\ (up[b].at = "run" => told'[b])
      /\ \A q \in Batches \ {b} : cancelled'[q] = cancelled[q] /\ told'[q] = told[q]
  BY <1>1 DEF Cancels, UploadTyped, UploadAt
<1>4. UploadTyped'  BY <1>1, <1>2, <1>3 DEF UploadTyped
<1>5. UploadOK(b)'  BY <1>1, <1>2, <1>3 DEF UploadOK
<1> QED  BY <1>2, <1>3, <1>4, <1>5, OneUploadSteps

LEMMA PasswordUpload ==
  ASSUME UploadInv, PasswordChanges
  PROVE  UploadInv'
<1>1. /\ right' = FALSE
      /\ UNCHANGED <<cred, up, result, cancelled, told, logged, whole, accepted, misled, mishaps>>
  BY DEF PasswordChanges
<1>2. UploadTyped'  BY <1>1 DEF UploadInv, UploadTyped
<1>3. \A b \in Batches : UploadOK(b)'  BY <1>1 DEF UploadInv, UploadOK
<1> QED  BY <1>2, <1>3 DEF UploadInv

LEMMA NextUploadInv == UploadInv /\ [UploadNext]_uploadVars => UploadInv'
<1> SUFFICES ASSUME UploadInv, [UploadNext]_uploadVars PROVE UploadInv'
  OBVIOUS
<1>1. CASE PasswordChanges  BY <1>1, PasswordUpload
<1>2. CASE \E b \in Batches : Begins(b) \/ ReadsRow(b) \/ ProbeOpens(b)
  BY <1>2, BeginsUpload, ReadsUpload, OpensUpload
<1>3. CASE \E b \in Batches : ProbeRefused(b) \/ ObscureFails(b) \/ ProbeFails(b) \/ AllRefused(b)
  BY <1>3, RefusedUpload, ProbeFailsUpload, AllRefusedUpload
<1>4. CASE \E b \in Batches : Persists(b) \/ MakesDirectory(b) \/ DirectoryFails(b) \/ Spawns(b)
  BY <1>4, PersistsUpload, DirectoryUpload, DirectoryFailsUpload, SpawnsUpload
<1>5. CASE \E b \in Batches : LogsError(b) \/ Closes(b) \/ Breaks(b) \/ Errs(b) \/ Cancels(b)
  BY <1>5, LogsUpload, ClosesUpload, BreaksUpload, ErrsUpload, CancelsUpload
<1>6. CASE UNCHANGED uploadVars
  BY <1>6 DEF uploadVars, UploadInv, UploadTyped, UploadOK
<1> QED  BY <1>1, <1>2, <1>3, <1>4, <1>5, <1>6 DEF UploadNext

\* UploadSafe, for every number of uploads, attempts and mishaps: one that succeeds is whole,
\* the right password is not called wrong, a row that says verified has been, and a
\* process whose batch is cancelled has been told to stop.
THEOREM UploadIsSafe == UploadSpec => []UploadSafe
BY InitUploadInv, NextUploadInv, UploadInvSafe, PTL DEF UploadSpec

-----------------------------------------------------------------------------
(* Batch: the inductive invariant *)

\* The batches before and after their processing
Waiting == {"new", "created", "queued"}

\* A queue holds each batch once that waits there, the urgent ones first.
LineOK(line, where) ==
  /\ \A k \in DOMAIN line : where[line[k]] = "queued"
  /\ \A j, k \in DOMAIN line : line[j] = line[k] => j = k
  /\ \E p \in 0..Len(line) : \A k \in DOMAIN line : line[k] \in Urgent <=> k <= p

\* What is under way is in activeBatches.
ActiveOK(busy, where) ==
  /\ busy \subseteq BatchIds /\ IsFiniteSet(busy)
  /\ \A b \in BatchIds : b \in busy <=> where[b] \notin Waiting \union {"ended"}

\* While nothing was dropped, a batch waits only for those that are under way or for a
\* wake-up.
NoStall == dropped = {} /\ queue # <<>> => Cardinality(active) + wakes >= MaxActive

\* An item that was taken is in one hand, and not done, or done once.
PoolOK(b) ==
  /\ nextItem[b] >= 1
  /\ \A w \in Workers :
       hands[b][w] # 0 => hands[b][w] < nextItem[b] /\ handled[b][hands[b][w]] = 0
  /\ \A v, w \in Workers : hands[b][v] # 0 /\ hands[b][v] = hands[b][w] => v = w
  /\ \A i \in Items : i >= nextItem[b] => handled[b][i] = 0
  /\ \A i \in Items : i < nextItem[b] =>
       handled[b][i] = 1 \/ \E w \in Workers : hands[b][w] = i
  /\ stage[b] = "save" \/ record[b] = "completed" => \A i \in Items : handled[b][i] = 1
  /\ record[b] = "completed" => stage[b] \in {"unlock", "ended"}

BatchInv ==
  /\ BatchTypeOK /\ LineOK(queue, stage) /\ ActiveOK(active, stage) /\ NoStall
  /\ \A b \in BatchIds : PoolOK(b)

\* What the numbers of the items are
LEMMA ItemsAre ==
  /\ Items \subseteq Nat /\ 0 \notin Items /\ MaxActive \in Nat /\ MaxActive > 0
  /\ \A n \in Nat : n >= 1 /\ n \notin Items => \A i \in Items : i < n
<1>1. IsFiniteSet(Items) /\ Items = 1..Cardinality(Items) /\ MaxActive \in Nat \ {0}
  BY BatchAssumption DEF BatchAssumption
<1>2. PICK n \in Nat : n = Cardinality(Items)
  BY <1>1, FS_CardinalityType
<1>3. Items = 1..n
  BY <1>1, <1>2
<1>4. MaxActive \in Nat /\ MaxActive > 0
  BY <1>1
<1>5. Items \subseteq Nat /\ 0 \notin Items
  BY <1>2, <1>3
<1>6. ASSUME NEW k \in Nat, k >= 1, k \notin Items PROVE \A i \in Items : i < k
  <2>1. k \notin 1..n
    BY <1>3, <1>6
  <2>2. k > n
    BY <1>2, <1>6, <2>1
  <2>3. \A i \in 1..n : i < k
    BY <1>2, <1>6, <2>2
  <2> QED
    BY <1>3, <2>3
<1> QED
  BY <1>4, <1>5, <1>6

\* The first of the queue goes, and the others keep their order.
LEMMA TailLine ==
  ASSUME NEW s \in Seq(BatchIds), s # <<>>, NEW where \in [BatchIds -> Steps], LineOK(s, where)
  PROVE  /\ Head(s) \in BatchIds /\ where[Head(s)] = "queued"
         /\ Tail(s) \in Seq(BatchIds) /\ Len(Tail(s)) = Len(s) - 1
         /\ LineOK(Tail(s), [where EXCEPT ![Head(s)] = "load"])
<1>1. PICK h, t : h = Head(s) /\ t = Tail(s)
  OBVIOUS
<1>2. /\ Len(s) \in Nat /\ DOMAIN s = 1..Len(s)
      /\ \A k \in 1..Len(s) : s[k] \in BatchIds
  BY LenProperties
<1>3. Len(s) > 0
  BY <1>2, EmptySeq
<1>4. h = s[1] /\ t \in Seq(BatchIds) /\ Len(t) = Len(s) - 1 /\ \A k \in 1..Len(t) : t[k] = s[k + 1]
  BY <1>1, HeadTailProperties
<1>5. DOMAIN t = 1..Len(t)
  BY <1>4, LenProperties
<1>6. h \in BatchIds /\ where[h] = "queued"
  BY <1>2, <1>3, <1>4 DEF LineOK
<1>7. \A k \in 1..Len(t) : k + 1 \in 1..Len(s) /\ k + 1 # 1
  BY <1>2, <1>3, <1>4
<1>8. PICK new \in [BatchIds -> Steps] : new = [where EXCEPT ![h] = "load"]
  BY DEF Steps
<1>9. ASSUME NEW k \in DOMAIN t PROVE new[t[k]] = "queued"
  <2>1. t[k] = s[k + 1] /\ k + 1 \in DOMAIN s /\ k + 1 # 1 /\ 1 \in DOMAIN s
    BY <1>2, <1>3, <1>4, <1>5, <1>7, <1>9
  <2>2. where[t[k]] = "queued" /\ t[k] # h /\ t[k] \in BatchIds
    BY <1>2, <1>4, <2>1 DEF LineOK
  <2> QED
    BY <1>8, <2>2
<1>10. ASSUME NEW j \in DOMAIN t, NEW k \in DOMAIN t, t[j] = t[k] PROVE j = k
  <2>1. j + 1 \in DOMAIN s /\ k + 1 \in DOMAIN s /\ s[j + 1] = s[k + 1]
    BY <1>2, <1>4, <1>5, <1>7, <1>10
  <2>2. j + 1 = k + 1
    BY <2>1 DEF LineOK
  <2> QED
    BY <1>4, <1>5, <1>10, <2>2
<1>11. \E p \in 0..Len(t) : \A k \in DOMAIN t : t[k] \in Urgent <=> k <= p
  <2>1. PICK p \in 0..Len(s) : \A k \in DOMAIN s : s[k] \in Urgent <=> k <= p
    BY DEF LineOK
  <2>2. PICK q \in 0..Len(t) : q = (IF p = 0 THEN 0 ELSE p - 1)
    BY <1>2, <1>3, <1>4, <2>1
  <2>3. ASSUME NEW k \in DOMAIN t PROVE t[k] \in Urgent <=> k <= q
    <3>1. t[k] = s[k + 1] /\ k + 1 \in DOMAIN s /\ k \in 1..Len(t)
      BY <1>2, <1>4, <1>5, <1>7, <2>3
    <3>2. t[k] \in Urgent <=> k + 1 <= p
      BY <2>1, <3>1
    <3>3. k + 1 <= p <=> k <= q
      BY <1>2, <1>4, <2>1, <2>2, <3>1
    <3> QED
      BY <3>2, <3>3
  <2> QED
    BY <2>2, <2>3
<1>12. LineOK(t, new)
  BY <1>9, <1>10, <1>11 DEF LineOK
<1> QED
  BY <1>1, <1>4, <1>6, <1>8, <1>12

\* A batch that is sorted in: it is there, the others keep their order.
LEMMA SortedLine ==
  ASSUME queue \in Seq(BatchIds), NEW b \in BatchIds, stage \in [BatchIds -> Steps],
         LineOK(queue, stage), stage[b] = "created"
  PROVE  /\ Sorted(b) \in Seq(BatchIds) /\ Len(Sorted(b)) = Len(queue) + 1
         /\ LineOK(Sorted(b), [stage EXCEPT ![b] = "queued"])
<1>1. PICK q \in Seq(BatchIds) : q = queue
  OBVIOUS
<1>2. PICK l \in Nat : l = Len(q) /\ DOMAIN q = 1..l /\ \A k \in 1..l : q[k] \in BatchIds
  BY LenProperties
<1>3. PICK u \in 0..l : \A k \in 1..l : q[k] \in Urgent <=> k <= u
  BY <1>1, <1>2 DEF LineOK
<1>4. PICK v \in 0..l : v = UrgentOnes /\ \A k \in 1..l : q[k] \in Urgent <=> k <= v
  <2>1. \E x \in 0..l : \A k \in 1..l : q[k] \in Urgent <=> k <= x
    BY <1>3
  <2>2. UrgentOnes = CHOOSE x \in 0..l : \A k \in 1..l : q[k] \in Urgent <=> k <= x
    BY <1>1, <1>2 DEF UrgentOnes
  <2> QED
    BY <2>1, <2>2
<1>5. PICK p \in 0..l : p = IF b \in Urgent THEN v ELSE l
  BY <1>2, <1>4
<1>6. PICK s : s = [k \in 1..(l + 1) |-> IF k <= p THEN q[k] ELSE IF k = p + 1 THEN b ELSE q[k - 1]]
  OBVIOUS
<1>7. Sorted(b) = s
  BY <1>1, <1>2, <1>4, <1>5, <1>6 DEF Sorted
<1>8. ASSUME NEW k \in 1..(l + 1)
      PROVE  /\ k <= p => k \in 1..l /\ s[k] = q[k]
             /\ k = p + 1 => s[k] = b
             /\ k > p + 1 => k - 1 \in 1..l /\ s[k] = q[k - 1]
             /\ k <= p \/ k = p + 1 \/ k > p + 1
  BY <1>2, <1>5, <1>6, <1>8
<1>9. s \in Seq(BatchIds) /\ Len(s) = l + 1 /\ DOMAIN s = 1..(l + 1)
  <2>1. \A k \in 1..(l + 1) : s[k] \in BatchIds
    BY <1>2, <1>8
  <2>2. s \in [1..(l + 1) -> BatchIds] /\ l + 1 \in Nat
    BY <1>2, <1>6, <2>1
  <2>3. s \in Seq(BatchIds)
    BY <2>2, SeqDef
  <2>4. Len(s) \in Nat /\ DOMAIN s = 1..Len(s)
    BY <2>3, LenProperties
  <2>5. DOMAIN s = 1..(l + 1)
    BY <1>6
  <2>6. Len(s) = l + 1
    <3>1. PICK n \in Nat : n = Len(s) /\ DOMAIN s = 1..n
      BY <2>4
    <3>2. \A k \in Nat : k \in 1..n <=> k \in 1..(l + 1)
      BY <2>5, <3>1
    <3>3. l + 1 \in 1..n
      BY <1>2, <3>2
    <3>4. n \in Nat /\ l \in Nat
      BY <1>2, <3>1
    <3>5. n \in 1..(l + 1)
      BY <3>2, <3>3, <3>4
    <3>6. n = l + 1
      BY <3>3, <3>4, <3>5
    <3> QED
      BY <3>1, <3>6
  <2> QED
    BY <2>3, <2>5, <2>6
<1>10. PICK new \in [BatchIds -> Steps] : new = [stage EXCEPT ![b] = "queued"]
  BY DEF Steps
<1>11. /\ \A k \in 1..l : stage[q[k]] = "queued" /\ q[k] # b
       /\ \A j, k \in 1..l : q[j] = q[k] => j = k
  BY <1>1, <1>2 DEF LineOK
<1>12. ASSUME NEW k \in 1..(l + 1) PROVE new[s[k]] = "queued" /\ (k # p + 1 => s[k] # b)
  <2>1. \A j \in 1..l : q[j] \in BatchIds /\ new[q[j]] = "queued" /\ q[j] # b
    BY <1>2, <1>10, <1>11
  <2>2. new[b] = "queued"
    BY <1>10
  <2>3. CASE k <= p
    <3>1. k \in 1..l /\ s[k] = q[k]
      BY <1>8, <1>12, <2>3
    <3> QED
      BY <2>1, <3>1
  <2>4. CASE k = p + 1
    BY <1>8, <2>2, <2>4
  <2>5. CASE k > p + 1
    <3>1. k - 1 \in 1..l /\ s[k] = q[k - 1]
      BY <1>8, <1>12, <2>5
    <3> QED
      BY <2>1, <3>1
  <2> QED
    BY <1>8, <1>12, <2>3, <2>4, <2>5
<1>13. ASSUME NEW j \in 1..(l + 1), NEW k \in 1..(l + 1), s[j] = s[k] PROVE j = k
  <2>1. CASE j = p + 1
    <3>1. s[k] = b
      BY <1>8, <1>13, <2>1
    <3> QED
      BY <1>12, <1>13, <2>1, <3>1
  <2>2. CASE k = p + 1
    <3>1. s[j] = b
      BY <1>8, <1>13, <2>2
    <3> QED
      BY <1>12, <1>13, <2>2, <3>1
  <2>3. CASE j <= p /\ k <= p
    BY <1>8, <1>11, <1>13, <2>3
  <2>4. CASE j > p + 1 /\ k > p + 1
    <3>1. j - 1 = k - 1
      BY <1>8, <1>11, <1>13, <2>4
    <3> QED
      BY <1>13, <3>1
  <2>5. CASE j <= p /\ k > p + 1
    <3>1. j = k - 1
      BY <1>8, <1>11, <1>13, <2>5
    <3> QED
      BY <1>2, <1>5, <1>13, <2>5, <3>1
  <2>6. CASE k <= p /\ j > p + 1
    <3>1. k = j - 1
      BY <1>8, <1>11, <1>13, <2>6
    <3> QED
      BY <1>2, <1>5, <1>13, <2>6, <3>1
  <2> QED
    BY <1>8, <2>1, <2>2, <2>3, <2>4, <2>5, <2>6
<1>14. \E x \in 0..Len(s) : \A k \in DOMAIN s : s[k] \in Urgent <=> k <= x
  <2>1. PICK x \in 0..(l + 1) : x = IF b \in Urgent THEN v + 1 ELSE v
    BY <1>2, <1>4
  <2>2. ASSUME NEW k \in 1..(l + 1) PROVE s[k] \in Urgent <=> k <= x
    <3>1. CASE b \in Urgent
      <4>1. p = v /\ x = v + 1
        BY <1>5, <2>1, <3>1
      <4>2. CASE k <= p
        <5>1. s[k] \in Urgent <=> k <= v
          BY <1>4, <1>8, <4>2
        <5> QED
          BY <1>2, <1>4, <2>2, <4>1, <4>2, <5>1
      <4>3. CASE k = p + 1
        BY <1>8, <3>1, <4>1, <4>3
      <4>4. CASE k > p + 1
        <5>1. s[k] \in Urgent <=> k - 1 <= v
          BY <1>4, <1>8, <4>4
        <5> QED
          BY <1>2, <1>4, <2>2, <4>1, <4>4, <5>1
      <4> QED
        BY <1>8, <4>2, <4>3, <4>4
    <3>2. CASE b \notin Urgent
      <4>1. p = l /\ x = v
        BY <1>5, <2>1, <3>2
      <4>2. CASE k <= p
        BY <1>4, <1>8, <4>1, <4>2
      <4>3. CASE k = p + 1
        <5>1. s[k] \notin Urgent
          BY <1>8, <3>2, <4>3
        <5>2. ~(k <= x)
          BY <1>2, <1>4, <4>1, <4>3
        <5> QED
          BY <5>1, <5>2
      <4>4. CASE k > p + 1
        BY <1>2, <2>2, <4>1, <4>4
      <4> QED
        BY <1>8, <4>2, <4>3, <4>4
    <3> QED
      BY <3>1, <3>2
  <2> QED
    BY <1>9, <2>1, <2>2
<1>15. LineOK(s, new)
  BY <1>9, <1>12, <1>13, <1>14 DEF LineOK
<1> QED
  BY <1>1, <1>2, <1>7, <1>9, <1>10, <1>15

\* _processQueue takes the first of a queue that is in order, if there is room.
LEMMA ProcessQueueKeeps ==
  ASSUME NEW s \in Seq(BatchIds), NEW where \in [BatchIds -> Steps], LineOK(s, where),
         ActiveOK(active, where), ProcessQueue(s, where)
  PROVE  /\ queue' \in Seq(BatchIds) /\ stage' \in [BatchIds -> Steps]
         /\ LineOK(queue', stage') /\ ActiveOK(active', stage')
         /\ \A b \in BatchIds : stage'[b] = where[b]
                               \/ (where[b] = "queued" /\ stage'[b] = "load")
         /\ \/ Cardinality(active) >= MaxActive /\ active' = active
            \/ queue' = <<>>
            \/ Len(s) > 1 /\ Cardinality(active') = Cardinality(active) + 1
<1>1. CASE Cardinality(active) >= MaxActive \/ s = <<>>
  <2>1. queue' = s /\ stage' = where /\ active' = active
    BY <1>1 DEF ProcessQueue
  <2>2. LineOK(queue', stage')
    BY <2>1
  <2>3. ActiveOK(active', stage')
    BY <2>1
  <2>4. queue' \in Seq(BatchIds) /\ stage' \in [BatchIds -> Steps]
    BY <2>1
  <2>5. (Cardinality(active) >= MaxActive /\ active' = active) \/ queue' = <<>>
    BY <1>1, <2>1
  <2>6. \A b \in BatchIds : stage'[b] = where[b] \/ (where[b] = "queued" /\ stage'[b] = "load")
    BY <2>1
  <2> QED
    BY <2>2, <2>3, <2>4, <2>5, <2>6
<1>2. CASE ~(Cardinality(active) >= MaxActive \/ s = <<>>)
  <2>1. PICK h, new : h = Head(s) /\ new = [where EXCEPT ![h] = "load"]
    OBVIOUS
  <2>2. queue' = Tail(s) /\ active' = active \union {h} /\ stage' = new /\ s # <<>>
    BY <1>2, <2>1 DEF ProcessQueue
  <2>3. /\ h \in BatchIds /\ where[h] = "queued" /\ Tail(s) \in Seq(BatchIds)
        /\ Len(Tail(s)) = Len(s) - 1 /\ LineOK(Tail(s), new)
    BY <2>1, <2>2, TailLine
  <2>4. /\ new \in [BatchIds -> Steps] /\ new[h] = "load"
        /\ \A b \in BatchIds \ {h} : new[b] = where[b]
    BY <2>1, <2>3 DEF Steps
  <2>5. h \notin active /\ IsFiniteSet(active)
    BY <2>3 DEF ActiveOK, Waiting
  <2>6. /\ IsFiniteSet(active \union {h})
        /\ Cardinality(active \union {h}) = Cardinality(active) + 1
    BY <2>5, FS_AddElement
  <2>7. ActiveOK(active \union {h}, new)
    <3>1. ASSUME NEW b \in BatchIds
          PROVE  b \in active \union {h} <=> new[b] \notin Waiting \union {"ended"}
      <4>1. CASE b = h
        BY <2>4, <4>1 DEF Waiting
      <4>2. CASE b # h
        BY <2>4, <4>2 DEF ActiveOK
      <4> QED
        BY <4>1, <4>2
    <3> QED
      BY <2>3, <2>6, <3>1 DEF ActiveOK
  <2>8. Tail(s) = <<>> \/ Len(s) > 1
    <3>1. Len(s) \in Nat /\ Len(Tail(s)) \in Nat
      BY <2>3, LenProperties
    <3>2. Tail(s) # <<>> => Len(Tail(s)) # 0
      BY <2>3, EmptySeq
    <3> QED
      BY <2>3, <3>1, <3>2
  <2>9. LineOK(queue', stage')
    BY <2>2, <2>3
  <2>10. ActiveOK(active', stage')
    BY <2>2, <2>7
  <2>11. queue' \in Seq(BatchIds) /\ stage' \in [BatchIds -> Steps]
    BY <2>2, <2>3, <2>4
  <2>12. queue' = <<>> \/ (Len(s) > 1 /\ Cardinality(active') = Cardinality(active) + 1)
    BY <2>2, <2>6, <2>8
  <2>13. ASSUME NEW b \in BatchIds
         PROVE  stage'[b] = where[b] \/ (where[b] = "queued" /\ stage'[b] = "load")
    <3>1. stage'[b] = new[b]
      BY <2>2
    <3>2. CASE b = h
      BY <2>3, <2>4, <3>1, <3>2
    <3>3. CASE b # h
      BY <2>4, <3>1, <3>3
    <3> QED
      BY <3>2, <3>3
  <2> QED
    BY <2>9, <2>10, <2>11, <2>12, <2>13
<1> QED
  BY <1>1, <1>2

\* A pool that is left alone
LEMMA PoolStays ==
  ASSUME NEW b \in BatchIds, PoolOK(b),
         nextItem'[b] = nextItem[b], hands'[b] = hands[b], handled'[b] = handled[b],
         stage'[b] = "save" \/ record'[b] = "completed" => \A i \in Items : handled[b][i] = 1,
         record'[b] = "completed" => stage'[b] \in {"unlock", "ended"}
  PROVE  PoolOK(b)'
BY DEF PoolOK

\* The variables of a pool
PoolAlone == nextItem' = nextItem /\ hands' = hands /\ handled' = handled

\* A batch that goes a step on, outside the queue
LEMMA MoveKeeps ==
  ASSUME BatchInv, NEW b \in BatchIds, NEW step \in Steps,
         Go(b, step), stage[b] # "queued", step # "queued", queue' = queue, PoolAlone,
         record' \in [BatchIds -> Statuses], \A x \in BatchIds \ {b} : record'[x] = record[x],
         step = "save" \/ record'[b] = "completed" => \A i \in Items : handled[b][i] = 1,
         record'[b] = "completed" => step \in {"unlock", "ended"},
         active' = active \/ active' = active \ {b},
         b \in active' <=> step \notin Waiting \union {"ended"},
         wakes' \in Nat, dropped' \subseteq BatchIds, NoStall'
  PROVE  BatchInv'
<1>1. BatchTypeOK /\ LineOK(queue, stage) /\ ActiveOK(active, stage)
  BY DEF BatchInv
<1>2. /\ stage' \in [BatchIds -> Steps] /\ stage'[b] = step
      /\ \A x \in BatchIds \ {b} : stage'[x] = stage[x]
  BY <1>1 DEF Go, BatchTypeOK
<1>3. PICK q \in Seq(BatchIds) : q = queue
  BY <1>1 DEF BatchTypeOK
<1>4. DOMAIN q = 1..Len(q) /\ \A k \in 1..Len(q) : q[k] \in BatchIds
  BY LenProperties
<1>5. LineOK(queue', stage')
  <2>1. ASSUME NEW k \in DOMAIN q PROVE stage'[q[k]] = "queued"
    <3>1. q[k] \in BatchIds /\ stage[q[k]] = "queued"
      BY <1>1, <1>3, <1>4, <2>1 DEF LineOK
    <3> QED
      BY <1>2, <3>1
  <2> QED
    BY <1>1, <1>3, <2>1 DEF LineOK
<1>6. ActiveOK(active', stage')
  <2>1. IsFiniteSet(active) /\ active \subseteq BatchIds
    BY <1>1 DEF ActiveOK
  <2>2. IsFiniteSet(active') /\ active' \subseteq BatchIds
    BY <2>1, FS_RemoveElement
  <2>3. ASSUME NEW x \in BatchIds
        PROVE  x \in active' <=> stage'[x] \notin Waiting \union {"ended"}
    <3>1. CASE x = b
      BY <1>2, <3>1
    <3>2. CASE x # b
      BY <1>1, <1>2, <3>2 DEF ActiveOK
    <3> QED
      BY <3>1, <3>2
  <2> QED
    BY <2>2, <2>3 DEF ActiveOK
<1>7. BatchTypeOK'
  BY <1>1, <1>2, <1>6 DEF BatchTypeOK, PoolAlone, ActiveOK
<1>8. ASSUME NEW x \in BatchIds PROVE PoolOK(x)'
  <2>1. PoolOK(x)
    BY <1>8 DEF BatchInv
  <2>2. CASE x = b
    BY <1>2, <2>1, <2>2, PoolStays DEF PoolAlone
  <2>3. CASE x # b
    <3>1. stage'[x] = stage[x] /\ record'[x] = record[x]
      BY <1>2, <2>3
    <3>2. /\ stage[x] = "save" \/ record[x] = "completed" => \A i \in Items : handled[x][i] = 1
          /\ record[x] = "completed" => stage[x] \in {"unlock", "ended"}
      BY <2>1 DEF PoolOK
    <3> QED
      BY <2>1, <3>1, <3>2, PoolStays DEF PoolAlone
  <2> QED
    BY <2>2, <2>3
<1> QED
  BY <1>5, <1>6, <1>7, <1>8 DEF BatchInv

\* A batch that goes on while it is under way: nothing of the queue changes.
LEMMA OnTheWay ==
  ASSUME BatchInv, NEW b \in BatchIds, NEW step \in Steps \ {"new", "created", "queued", "ended"},
         stage[b] \notin {"new", "created", "queued", "ended"}, Go(b, step), PoolAlone,
         UNCHANGED <<queue, active, wakes, dropped>>,
         record' \in [BatchIds -> Statuses], \A x \in BatchIds \ {b} : record'[x] = record[x],
         step = "save" \/ record'[b] = "completed" => \A i \in Items : handled[b][i] = 1,
         record'[b] = "completed" => step \in {"unlock", "ended"}
  PROVE  BatchInv'
<1>1. BatchTypeOK /\ ActiveOK(active, stage) /\ NoStall
  BY DEF BatchInv
<1>2. b \in active
  BY <1>1 DEF ActiveOK, Waiting
<1>3. wakes' \in Nat /\ dropped' \subseteq BatchIds
  BY <1>1 DEF BatchTypeOK
<1>4. NoStall'
  BY <1>1 DEF NoStall
<1>5. step \in Steps /\ step \notin Waiting \union {"ended"} /\ step # "queued" /\ stage[b] # "queued"
  BY DEF Waiting
<1>6. queue' = queue /\ active' = active /\ b \in active'
  BY <1>2
<1> QED
  BY <1>3, <1>4, <1>5, <1>6, MoveKeeps

\* A batch that ends makes room, and wakes the queue or counts as dropped.
LEMMA EndKeeps ==
  ASSUME BatchInv, NEW b \in BatchIds, Go(b, "ended"), PoolAlone,
         stage[b] \notin {"new", "created", "queued", "ended"}, active' = active \ {b},
         UNCHANGED <<record, queue>>,
         \/ wakes' = wakes + 1 /\ dropped' = dropped
         \/ wakes' = wakes /\ dropped' = dropped \union {b}
  PROVE  BatchInv'
<1>1. BatchTypeOK /\ ActiveOK(active, stage) /\ NoStall /\ PoolOK(b)
  BY DEF BatchInv
<1>2. b \in active /\ IsFiniteSet(active)
  BY <1>1 DEF ActiveOK, Waiting
<1>3. wakes \in Nat /\ dropped \subseteq BatchIds
  BY <1>1 DEF BatchTypeOK
<1>4. wakes' \in Nat /\ dropped' \subseteq BatchIds
  BY <1>3
<1>5. Cardinality(active') = Cardinality(active) - 1 /\ Cardinality(active) \in Nat
  BY <1>2, FS_RemoveElement, FS_CardinalityType
<1>6. NoStall'
  <2> SUFFICES ASSUME dropped' = {}, queue' # <<>> PROVE Cardinality(active') + wakes' >= MaxActive
    BY DEF NoStall
  <2>1. dropped = {} /\ queue # <<>> /\ wakes' = wakes + 1
    OBVIOUS
  <2>2. Cardinality(active) + wakes >= MaxActive
    BY <1>1, <2>1 DEF NoStall
  <2> QED
    BY <1>3, <1>5, <2>1, <2>2, ItemsAre
<1>7. record' \in [BatchIds -> Statuses] /\ record' = record
  BY <1>1 DEF BatchTypeOK
<1>8. "ended" \in Steps /\ stage[b] # "queued" /\ b \notin active'
  BY DEF Steps
<1>9. record'[b] = "completed" => \A i \in Items : handled[b][i] = 1
  BY <1>1, <1>7 DEF PoolOK
<1>10. \A x \in BatchIds \ {b} : record'[x] = record[x]
  BY <1>7
<1>11. b \in active' <=> "ended" \notin Waiting \union {"ended"}
  BY <1>8
<1> QED
  BY <1>4, <1>6, <1>7, <1>8, <1>9, <1>10, <1>11, MoveKeeps

\* A record that is written, with any status
LEMMA Recorded ==
  ASSUME BatchTypeOK, NEW b \in BatchIds, NEW st \in Statuses, record' = [record EXCEPT ![b] = st]
  PROVE  /\ record' \in [BatchIds -> Statuses] /\ record'[b] = st
         /\ \A x \in BatchIds \ {b} : record'[x] = record[x]
BY DEF BatchTypeOK

-----------------------------------------------------------------------------
(* Batch: the steps *)

\* A batch is created, and queues up next.
LEMMA CreateKeeps == ASSUME BatchInv, NEW b \in BatchIds, Create(b) PROVE BatchInv'
<1>1. BatchTypeOK /\ ActiveOK(active, stage) /\ NoStall
  BY DEF BatchInv
<1>2. PICK st \in {"pending", "absent"} : record' = [record EXCEPT ![b] = st]
  BY DEF Create
<1>3. /\ stage[b] = "new" /\ Go(b, "created") /\ PoolAlone
      /\ UNCHANGED <<queue, active, wakes, dropped>>
  BY DEF Create, PoolAlone
<1>4. /\ record' \in [BatchIds -> Statuses] /\ record'[b] # "completed"
      /\ \A x \in BatchIds \ {b} : record'[x] = record[x]
  BY <1>1, <1>2, Recorded DEF Statuses
<1>5. wakes' \in Nat /\ dropped' \subseteq BatchIds
  BY <1>1, <1>3 DEF BatchTypeOK
<1>6. NoStall'
  BY <1>1, <1>3 DEF NoStall
<1>7. b \notin active /\ "created" \in Waiting /\ "created" \in Steps
  BY <1>1, <1>3 DEF ActiveOK, Waiting, Steps
<1>8. queue' = queue /\ active' = active /\ stage[b] # "queued"
  BY <1>3
<1> QED
  BY <1>3, <1>4, <1>5, <1>6, <1>7, <1>8, MoveKeeps

\* A batch that queues up, or a wake-up: the queue has one more at most, and if it has any
\* left, no room was free or the room was taken.
LEMMA EnqueueKeeps == ASSUME BatchInv, NEW b \in BatchIds, Enqueue(b) PROVE BatchInv'
<1>1. BatchTypeOK /\ LineOK(queue, stage) /\ ActiveOK(active, stage) /\ NoStall
  BY DEF BatchInv
<1>2. PICK s, where : s = Sorted(b) /\ where = [stage EXCEPT ![b] = "queued"]
  OBVIOUS
<1>3. stage[b] = "created" /\ ProcessQueue(s, where) /\ PoolAlone /\ UNCHANGED <<record, wakes, dropped>>
  BY <1>2 DEF Enqueue, PoolAlone
<1>4. queue \in Seq(BatchIds) /\ stage \in [BatchIds -> Steps]
  BY <1>1 DEF BatchTypeOK
<1>5. s \in Seq(BatchIds) /\ Len(s) = Len(queue) + 1 /\ LineOK(s, where)
  BY <1>1, <1>2, <1>3, <1>4, SortedLine
<1>6. /\ where \in [BatchIds -> Steps] /\ where[b] = "queued"
      /\ \A x \in BatchIds \ {b} : where[x] = stage[x]
  BY <1>2, <1>4 DEF Steps
<1>7. ActiveOK(active, where)
  <2>1. ASSUME NEW x \in BatchIds PROVE x \in active <=> where[x] \notin Waiting \union {"ended"}
    <3>1. CASE x = b
      BY <1>1, <1>3, <1>6, <3>1 DEF ActiveOK, Waiting
    <3>2. CASE x # b
      BY <1>1, <1>6, <3>2 DEF ActiveOK
    <3> QED
      BY <3>1, <3>2
  <2> QED
    BY <1>1, <2>1 DEF ActiveOK
<1>8. /\ queue' \in Seq(BatchIds) /\ stage' \in [BatchIds -> Steps]
      /\ LineOK(queue', stage') /\ ActiveOK(active', stage')
      /\ \A x \in BatchIds : stage'[x] = where[x]
                            \/ (where[x] = "queued" /\ stage'[x] = "load")
      /\ \/ Cardinality(active) >= MaxActive /\ active' = active
         \/ queue' = <<>>
         \/ Len(s) > 1 /\ Cardinality(active') = Cardinality(active) + 1
  BY <1>3, <1>5, <1>6, <1>7, ProcessQueueKeeps
<1>9. BatchTypeOK'
  BY <1>1, <1>3, <1>8 DEF BatchTypeOK, PoolAlone, ActiveOK
<1>10. NoStall'
  <2> SUFFICES ASSUME dropped = {}, queue' # <<>> PROVE Cardinality(active') + wakes >= MaxActive
    BY <1>3 DEF NoStall
  <2>1. wakes \in Nat /\ Cardinality(active) \in Nat /\ MaxActive \in Nat
    BY <1>1, ItemsAre, FS_CardinalityType DEF BatchTypeOK, ActiveOK
  <2>2. CASE Cardinality(active) >= MaxActive /\ active' = active
    BY <2>1, <2>2
  <2>3. CASE Len(s) > 1 /\ Cardinality(active') = Cardinality(active) + 1
    <3>1. Len(queue) \in Nat
      BY <1>4, LenProperties
    <3>2. queue # <<>>
      BY <1>4, <1>5, <2>3, <3>1, EmptySeq
    <3>3. Cardinality(active) + wakes >= MaxActive
      BY <1>1, <3>2 DEF NoStall
    <3> QED
      BY <2>1, <2>3, <3>3
  <2> QED
    BY <1>8, <2>2, <2>3
<1>11. ASSUME NEW x \in BatchIds PROVE PoolOK(x)'
  <2>1. PoolOK(x)
    BY <1>11 DEF BatchInv
  <2>2. stage'[x] = stage[x] \/ (stage[x] \in {"created", "queued"} /\ stage'[x] \in {"queued", "load"})
    BY <1>3, <1>6, <1>8, <1>11
  <2>3. /\ stage[x] = "save" \/ record[x] = "completed" => \A i \in Items : handled[x][i] = 1
        /\ record[x] = "completed" => stage[x] \in {"unlock", "ended"}
    BY <2>1 DEF PoolOK
  <2>4. record'[x] = record[x]
    BY <1>3
  <2> QED
    BY <1>3, <2>1, <2>2, <2>3, <2>4, PoolStays DEF PoolAlone
<1> QED
  BY <1>8, <1>9, <1>10, <1>11 DEF BatchInv

\* A wake-up takes its own place in the count, or a free one.
LEMMA WakeKeeps == ASSUME BatchInv, Wake PROVE BatchInv'
<1>1. BatchTypeOK /\ LineOK(queue, stage) /\ ActiveOK(active, stage) /\ NoStall
  BY DEF BatchInv
<1>2. PICK s, where : s = queue /\ where = stage
  OBVIOUS
<1>3. /\ wakes > 0 /\ wakes' = wakes - 1 /\ ProcessQueue(s, where) /\ PoolAlone
      /\ UNCHANGED <<record, dropped>>
  BY <1>2 DEF Wake, PoolAlone
<1>4. s \in Seq(BatchIds) /\ where \in [BatchIds -> Steps] /\ wakes \in Nat
  BY <1>1, <1>2 DEF BatchTypeOK
<1>5. LineOK(s, where) /\ ActiveOK(active, where)
  BY <1>1, <1>2
<1>6. /\ queue' \in Seq(BatchIds) /\ stage' \in [BatchIds -> Steps]
      /\ LineOK(queue', stage') /\ ActiveOK(active', stage')
      /\ \A x \in BatchIds : stage'[x] = where[x]
                            \/ (where[x] = "queued" /\ stage'[x] = "load")
      /\ \/ Cardinality(active) >= MaxActive /\ active' = active
         \/ queue' = <<>>
         \/ Len(s) > 1 /\ Cardinality(active') = Cardinality(active) + 1
  BY <1>3, <1>4, <1>5, ProcessQueueKeeps
<1>7. wakes' \in Nat
  BY <1>3, <1>4
<1>8. BatchTypeOK'
  BY <1>1, <1>3, <1>6, <1>7 DEF BatchTypeOK, PoolAlone, ActiveOK
<1>9. NoStall'
  <2> SUFFICES ASSUME dropped = {}, queue' # <<>> PROVE Cardinality(active') + wakes' >= MaxActive
    BY <1>3 DEF NoStall
  <2>1. wakes \in Nat /\ Cardinality(active) \in Nat /\ MaxActive \in Nat
    BY <1>1, ItemsAre, FS_CardinalityType DEF BatchTypeOK, ActiveOK
  <2>2. CASE Cardinality(active) >= MaxActive /\ active' = active
    BY <1>7, <2>1, <2>2
  <2>3. CASE Len(s) > 1 /\ Cardinality(active') = Cardinality(active) + 1
    <3>1. queue # <<>>
      BY <1>2, <1>4, <2>3, EmptySeq
    <3>2. Cardinality(active) + wakes >= MaxActive
      BY <1>1, <3>1 DEF NoStall
    <3> QED
      BY <1>3, <2>1, <2>3, <3>2
  <2> QED
    BY <1>6, <2>2, <2>3
<1>10. ASSUME NEW x \in BatchIds PROVE PoolOK(x)'
  <2>1. PoolOK(x)
    BY <1>10 DEF BatchInv
  <2>2. stage'[x] = stage[x] \/ (stage[x] = "queued" /\ stage'[x] = "load")
    BY <1>2, <1>6, <1>10
  <2>3. /\ stage[x] = "save" \/ record[x] = "completed" => \A i \in Items : handled[x][i] = 1
        /\ record[x] = "completed" => stage[x] \in {"unlock", "ended"}
    BY <2>1 DEF PoolOK
  <2>4. record'[x] = record[x]
    BY <1>3
  <2> QED
    BY <1>3, <2>1, <2>2, <2>3, <2>4, PoolStays DEF PoolAlone
<1> QED
  BY <1>6, <1>8, <1>9, <1>10 DEF BatchInv

\* The steps that end a batch: a lost record, an unknown type, a lock that is taken or
\* that cannot be asked for, and the regular end
LEMMA EndsKeep ==
  ASSUME BatchInv, NEW b \in BatchIds,
         \/ Load(b) /\ record[b] = "absent"
         \/ UnknownType(b) \/ LockTaken(b) \/ LockThrows(b) \/ Unlock(b)
  PROVE  BatchInv'
<1>1. /\ Go(b, "ended") /\ active' = active \ {b} /\ PoolAlone /\ UNCHANGED <<record, queue>>
      /\ stage[b] \in {"load", "lock", "unlock"}
  BY DEF Load, UnknownType, LockTaken, LockThrows, Unlock, PoolAlone
<1>2. \/ wakes' = wakes + 1 /\ dropped' = dropped
      \/ wakes' = wakes /\ dropped' = dropped \union {b}
  BY DEF Load, UnknownType, LockTaken, LockThrows, Unlock, LeavesRoom
<1> QED
  BY <1>1, <1>2, EndKeeps

\* The steps between, that leave the record alone
LEMMA WayKeeps ==
  ASSUME BatchInv, NEW b \in BatchIds,
         \/ Load(b) /\ record[b] # "absent"
         \/ AcquireLock(b) \/ Reread(b) \/ Throws(b)
  PROVE  BatchInv'
<1>1. BatchTypeOK /\ PoolOK(b)
  BY DEF BatchInv
<1>2. PICK step \in {"lock", "read", "unlock", "mark", "fail"} :
        /\ Go(b, step)
        /\ step \in {"lock", "read", "mark", "fail"} => record[b] # "completed"
  <2>1. CASE Load(b) /\ record[b] # "absent"
    BY <1>1, <2>1 DEF Load, PoolOK
  <2>2. CASE AcquireLock(b)
    BY <1>1, <2>2 DEF AcquireLock, PoolOK
  <2>3. CASE Reread(b)
    <3>1. CASE record[b] \in {"absent", "completed"}
      BY <2>3, <3>1 DEF Reread
    <3>2. CASE record[b] \notin {"absent", "completed"}
      BY <2>3, <3>2 DEF Reread
    <3> QED
      BY <3>1, <3>2
  <2>4. CASE Throws(b)
    BY <1>1, <2>4 DEF Throws, PoolOK
  <2> QED
    BY <2>1, <2>2, <2>3, <2>4
<1>3. /\ PoolAlone /\ UNCHANGED <<queue, active, wakes, dropped>> /\ record' = record
      /\ stage[b] \in {"load", "lock", "read", "mark", "save"}
  BY DEF Load, AcquireLock, Reread, Throws, PoolAlone
<1>4. /\ record' \in [BatchIds -> Statuses] /\ step # "save"
      /\ \A x \in BatchIds \ {b} : record'[x] = record[x]
  BY <1>1, <1>2, <1>3 DEF BatchTypeOK
<1>5. /\ record'[b] = "completed" => \A i \in Items : handled[b][i] = 1
      /\ record'[b] = "completed" => step \in {"unlock", "ended"}
  BY <1>1, <1>2, <1>3 DEF PoolOK
<1>6. step \in Steps \ {"new", "created", "queued", "ended"}
  BY <1>2 DEF Steps
<1>7. stage[b] \notin {"new", "created", "queued", "ended"}
  BY <1>3
<1> QED
  BY <1>2, <1>3, <1>4, <1>5, <1>6, <1>7, OnTheWay

\* The record says that the work is going on, or stays as it was.
LEMMA MarkKeeps == ASSUME BatchInv, NEW b \in BatchIds, Mark(b) PROVE BatchInv'
<1>1. BatchTypeOK /\ PoolOK(b)
  BY DEF BatchInv
<1>2. /\ stage[b] = "mark" /\ Go(b, "items") /\ PoolAlone
      /\ UNCHANGED <<queue, active, wakes, dropped>>
  BY DEF Mark, PoolAlone
<1>3. PICK st \in {"processing", record[b]} : record' = [record EXCEPT ![b] = st]
  BY DEF Mark, InProgress
<1>4. st \in Statuses /\ st # "completed"
  BY <1>1, <1>2, <1>3 DEF BatchTypeOK, PoolOK, Statuses
<1>5. /\ record' \in [BatchIds -> Statuses] /\ record'[b] # "completed"
      /\ \A x \in BatchIds \ {b} : record'[x] = record[x]
  BY <1>1, <1>3, <1>4, Recorded
<1>6. "items" \in Steps \ {"new", "created", "queued", "ended"} /\ "items" # "save"
  BY DEF Steps
<1> QED
  BY <1>2, <1>5, <1>6, OnTheWay

\* All workers have returned: each item was taken, and is in nobody's hand.
LEMMA AllItemsKeeps == ASSUME BatchInv, NEW b \in BatchIds, AllItems(b) PROVE BatchInv'
<1>1. BatchTypeOK /\ PoolOK(b)
  BY DEF BatchInv
<1>2. /\ stage[b] = "items" /\ Go(b, "save") /\ PoolAlone /\ PoolIsDone(b)
      /\ UNCHANGED <<queue, active, wakes, dropped>> /\ record' = record
  BY DEF AllItems, PoolAlone
<1>3. nextItem[b] \in Nat /\ nextItem[b] >= 1 /\ nextItem[b] \notin Items
  BY <1>1, <1>2 DEF BatchTypeOK, PoolOK, PoolIsDone
<1>4. ASSUME NEW i \in Items PROVE handled[b][i] = 1
  <2>1. i < nextItem[b] /\ i # 0
    BY <1>3, ItemsAre
  <2> QED
    BY <1>1, <1>2, <2>1 DEF PoolOK, PoolIsDone
<1>5. record'[b] # "completed"
  BY <1>1, <1>2 DEF PoolOK
<1>6. record' \in [BatchIds -> Statuses] /\ \A x \in BatchIds \ {b} : record'[x] = record[x]
  BY <1>1, <1>2 DEF BatchTypeOK
<1>7. "save" \in Steps \ {"new", "created", "queued", "ended"}
  BY DEF Steps
<1> QED
  BY <1>2, <1>4, <1>5, <1>6, <1>7, OnTheWay

\* The record says completed after all items, or stays as it was.
LEMMA SaveKeeps == ASSUME BatchInv, NEW b \in BatchIds, Save(b) PROVE BatchInv'
<1>1. BatchTypeOK /\ PoolOK(b)
  BY DEF BatchInv
<1>2. /\ stage[b] = "save" /\ Go(b, "unlock") /\ PoolAlone
      /\ UNCHANGED <<queue, active, wakes, dropped>>
  BY DEF Save, PoolAlone
<1>3. PICK st \in {"completed", record[b]} : record' = [record EXCEPT ![b] = st]
  BY DEF Save
<1>4. st \in Statuses
  BY <1>1, <1>3 DEF BatchTypeOK, Statuses
<1>5. record' \in [BatchIds -> Statuses] /\ \A x \in BatchIds \ {b} : record'[x] = record[x]
  BY <1>1, <1>3, <1>4, Recorded
<1>6. \A i \in Items : handled[b][i] = 1
  BY <1>1, <1>2 DEF PoolOK
<1>7. "unlock" \in Steps \ {"new", "created", "queued", "ended"}
  BY DEF Steps
<1> QED
  BY <1>2, <1>5, <1>6, <1>7, OnTheWay

\* A batch that failed was not completed.
LEMMA MarkFailedKeeps == ASSUME BatchInv, NEW b \in BatchIds, MarkFailed(b) PROVE BatchInv'
<1>1. BatchTypeOK /\ PoolOK(b)
  BY DEF BatchInv
<1>2. /\ stage[b] = "fail" /\ Go(b, "unlock") /\ PoolAlone
      /\ UNCHANGED <<queue, active, wakes, dropped>>
  BY DEF MarkFailed, PoolAlone
<1>3. PICK st \in {"absent", "failed"} : record' = [record EXCEPT ![b] = st]
  BY DEF MarkFailed
<1>4. /\ record' \in [BatchIds -> Statuses] /\ record'[b] # "completed"
      /\ \A x \in BatchIds \ {b} : record'[x] = record[x]
  BY <1>1, <1>3, Recorded DEF Statuses
<1>5. "unlock" \in Steps \ {"new", "created", "queued", "ended"} /\ "unlock" # "save"
  BY DEF Steps
<1> QED
  BY <1>2, <1>4, <1>5, OnTheWay

\* An item changes hands in the pool of one batch.
LEMMA PoolSteps ==
  ASSUME BatchInv, NEW b \in BatchIds, UNCHANGED <<record, queue, active, stage, wakes, dropped>>,
         nextItem' \in [BatchIds -> Nat], hands' \in [BatchIds -> [Workers -> Items \cup {0}]],
         handled' \in [BatchIds -> [Items -> Nat]],
         \A x \in BatchIds \ {b} : /\ nextItem'[x] = nextItem[x] /\ hands'[x] = hands[x]
                                  /\ handled'[x] = handled[x],
         PoolOK(b)'
  PROVE  BatchInv'
<1>1. BatchTypeOK /\ LineOK(queue, stage) /\ ActiveOK(active, stage) /\ NoStall
  BY DEF BatchInv
<1>2. BatchTypeOK'
  BY <1>1 DEF BatchTypeOK
<1>3. LineOK(queue', stage') /\ ActiveOK(active', stage') /\ NoStall'
  BY <1>1 DEF NoStall
<1>4. ASSUME NEW x \in BatchIds \ {b} PROVE PoolOK(x)'
  <2>1. PoolOK(x)
    BY <1>4 DEF BatchInv
  <2>2. /\ stage[x] = "save" \/ record[x] = "completed" => \A i \in Items : handled[x][i] = 1
        /\ record[x] = "completed" => stage[x] \in {"unlock", "ended"}
    BY <2>1 DEF PoolOK
  <2>3. stage'[x] = stage[x] /\ record'[x] = record[x]
    OBVIOUS
  <2> QED
    BY <1>4, <2>1, <2>2, <2>3, PoolStays
<1> QED
  BY <1>2, <1>3, <1>4 DEF BatchInv

\* A free worker takes the next item, which nobody has had.
LEMMA TakeItemKeeps ==
  ASSUME BatchInv, NEW b \in BatchIds, NEW w \in Workers, TakeItem(b, w) PROVE BatchInv'
<1>1. BatchTypeOK /\ PoolOK(b)
  BY DEF BatchInv
<1>2. PICK n \in Items : n = nextItem[b]
  BY DEF TakeItem
<1>3. PICK old \in [Workers -> Items \cup {0}] : old = hands[b]
  BY <1>1 DEF BatchTypeOK
<1>4. PICK new : new = [old EXCEPT ![w] = n]
  OBVIOUS
<1>5. n \in Nat /\ n # 0 /\ Items \subseteq Nat
  BY <1>2, ItemsAre
<1>6. /\ new \in [Workers -> Items \cup {0}] /\ new[w] = n
      /\ \A v \in Workers \ {w} : new[v] = old[v]
  BY <1>2, <1>3, <1>4
<1>7. /\ stage[b] = "items" /\ old[w] = 0 /\ handled' = handled
      /\ UNCHANGED <<record, queue, active, stage, wakes, dropped>>
  BY <1>3 DEF TakeItem
<1>8. /\ hands' \in [BatchIds -> [Workers -> Items \cup {0}]] /\ hands'[b] = new
      /\ \A x \in BatchIds \ {b} : hands'[x] = hands[x]
  <2>1. hands \in [BatchIds -> [Workers -> Items \cup {0}]]
    BY <1>1 DEF BatchTypeOK
  <2>2. hands' = [hands EXCEPT ![b] = new]
    BY <1>2, <1>3, <1>4 DEF TakeItem
  <2> QED
    BY <1>6, <2>1, <2>2
<1>9. /\ nextItem' \in [BatchIds -> Nat] /\ nextItem'[b] = n + 1
      /\ \A x \in BatchIds \ {b} : nextItem'[x] = nextItem[x]
  <2>1. nextItem \in [BatchIds -> Nat]
    BY <1>1 DEF BatchTypeOK
  <2>2. nextItem' = [nextItem EXCEPT ![b] = n + 1]
    BY <1>2 DEF TakeItem
  <2> QED
    BY <1>5, <2>1, <2>2
<1>10. PICK done \in [Items -> Nat] : done = handled[b]
  BY <1>1 DEF BatchTypeOK
<1>11. /\ \A v \in Workers : old[v] # 0 => old[v] < n /\ done[old[v]] = 0
       /\ \A u, v \in Workers : old[u] # 0 /\ old[u] = old[v] => u = v
       /\ \A i \in Items : i >= n => done[i] = 0
       /\ \A i \in Items : i < n => done[i] = 1 \/ \E v \in Workers : old[v] = i
       /\ record[b] # "completed"
  BY <1>1, <1>2, <1>3, <1>7, <1>10 DEF PoolOK
<1>12. done[n] = 0
  BY <1>2, <1>5, <1>11
<1>13. ASSUME NEW v \in Workers, new[v] # 0 PROVE new[v] < n + 1 /\ done[new[v]] = 0
  <2>1. CASE v = w
    BY <1>5, <1>6, <1>12, <2>1
  <2>2. CASE v # w
    <3>1. new[v] = old[v] /\ old[v] \in Items /\ old[v] < n /\ done[old[v]] = 0
      BY <1>3, <1>6, <1>11, <1>13, <2>2
    <3>2. PICK x \in Nat : x = old[v] /\ x < n
      BY <1>5, <3>1
    <3>3. x < n + 1
      BY <1>5, <3>2
    <3> QED
      BY <3>1, <3>2, <3>3
  <2> QED
    BY <2>1, <2>2
<1>14. ASSUME NEW u \in Workers, NEW v \in Workers, new[u] # 0, new[u] = new[v] PROVE u = v
  <2>1. \A x \in Workers \ {w} : new[x] # n
    <3>1. ASSUME NEW x \in Workers \ {w}, new[x] = n PROVE FALSE
      <4>1. old[x] = n /\ n < n
        BY <1>5, <1>6, <1>11, <3>1
      <4> QED
        BY <1>5, <4>1
    <3> QED
      BY <3>1
  <2>2. CASE u = w \/ v = w
    BY <1>6, <1>14, <2>1, <2>2
  <2>3. CASE u # w /\ v # w
    BY <1>6, <1>11, <1>14, <2>3
  <2> QED
    BY <2>2, <2>3
<1>15. ASSUME NEW i \in Items, i < n + 1 PROVE done[i] = 1 \/ \E v \in Workers : new[v] = i
  <2>1. CASE i = n
    BY <1>6, <2>1
  <2>2. CASE i # n
    <3>1. i < n
      BY <1>5, <1>15, <2>2
    <3>2. CASE \E v \in Workers : old[v] = i
      <4>1. PICK v \in Workers : old[v] = i
        BY <3>2
      <4>2. v # w
        BY <1>7, <4>1, ItemsAre
      <4> QED
        BY <1>6, <4>1, <4>2
    <3> QED
      BY <1>11, <3>1, <3>2
  <2> QED
    BY <2>1, <2>2
<1>16. \A i \in Items : i >= n + 1 => done[i] = 0
  BY <1>5, <1>11
<1>17. n + 1 >= 1
  BY <1>5
<1>18. /\ nextItem'[b] = n + 1 /\ hands'[b] = new /\ handled'[b] = done
       /\ stage'[b] = "items" /\ record'[b] # "completed"
  BY <1>7, <1>8, <1>9, <1>10, <1>11
<1>19. PoolOK(b)'
  BY <1>13, <1>14, <1>15, <1>16, <1>17, <1>18 DEF PoolOK
<1>20. /\ handled' \in [BatchIds -> [Items -> Nat]]
       /\ \A x \in BatchIds \ {b} : handled'[x] = handled[x]
  BY <1>1, <1>7 DEF BatchTypeOK
<1> QED
  BY <1>7, <1>8, <1>9, <1>19, <1>20, PoolSteps

\* A worker is done with its item, which no other has in hand.
LEMMA FinishItemKeeps ==
  ASSUME BatchInv, NEW b \in BatchIds, NEW w \in Workers, FinishItem(b, w) PROVE BatchInv'
<1>1. BatchTypeOK /\ PoolOK(b)
  BY DEF BatchInv
<1>2. PICK old \in [Workers -> Items \cup {0}] : old = hands[b]
  BY <1>1 DEF BatchTypeOK
<1>3. PICK h \in Items : h = old[w]
  BY <1>2 DEF FinishItem
<1>4. PICK done \in [Items -> Nat] : done = handled[b]
  BY <1>1 DEF BatchTypeOK
<1>5. PICK n \in Nat : n = nextItem[b]
  BY <1>1 DEF BatchTypeOK
<1>6. Items \subseteq Nat /\ 0 \notin Items
  BY ItemsAre
<1>7. /\ stage[b] = "items" /\ nextItem' = nextItem
      /\ UNCHANGED <<record, queue, active, stage, wakes, dropped>>
  BY DEF FinishItem
<1>8. /\ n >= 1
      /\ \A v \in Workers : old[v] # 0 => old[v] < n /\ done[old[v]] = 0
      /\ \A u, v \in Workers : old[u] # 0 /\ old[u] = old[v] => u = v
      /\ \A i \in Items : i >= n => done[i] = 0
      /\ \A i \in Items : i < n => done[i] = 1 \/ \E v \in Workers : old[v] = i
      /\ record[b] # "completed"
  BY <1>1, <1>2, <1>4, <1>5, <1>7 DEF PoolOK
<1>9. h # 0 /\ h < n /\ done[h] = 0
  BY <1>3, <1>6, <1>8
<1>10. PICK new \in [Workers -> Items \cup {0}] : new = [old EXCEPT ![w] = 0]
  BY <1>2
<1>11. new[w] = 0 /\ \A v \in Workers \ {w} : new[v] = old[v]
  BY <1>2, <1>10
<1>12. PICK more \in [Items -> Nat] : more = [done EXCEPT ![h] = done[h] + 1]
  <2>1. PICK k \in Nat : k = done[h] + 1
    BY <1>4
  <2>2. [done EXCEPT ![h] = k] \in [Items -> Nat]
    BY <1>4
  <2> QED
    BY <2>1, <2>2
<1>13. more[h] = 1 /\ \A i \in Items \ {h} : more[i] = done[i]
  BY <1>3, <1>4, <1>9, <1>12
<1>14. /\ hands' \in [BatchIds -> [Workers -> Items \cup {0}]] /\ hands'[b] = new
       /\ \A x \in BatchIds \ {b} : hands'[x] = hands[x]
  <2>1. hands \in [BatchIds -> [Workers -> Items \cup {0}]]
    BY <1>1 DEF BatchTypeOK
  <2>2. hands' = [hands EXCEPT ![b] = new]
    BY <1>2, <1>10 DEF FinishItem
  <2> QED
    BY <1>10, <2>1, <2>2
<1>15. /\ handled' \in [BatchIds -> [Items -> Nat]] /\ handled'[b] = more
       /\ \A x \in BatchIds \ {b} : handled'[x] = handled[x]
  <2>1. handled \in [BatchIds -> [Items -> Nat]]
    BY <1>1 DEF BatchTypeOK
  <2>2. handled' = [handled EXCEPT ![b] = more]
    BY <1>2, <1>3, <1>4, <1>12 DEF FinishItem
  <2> QED
    BY <1>12, <2>1, <2>2
<1>16. ASSUME NEW v \in Workers, new[v] # 0 PROVE new[v] < n /\ more[new[v]] = 0
  <2>1. v # w /\ new[v] = old[v] /\ old[v] \in Items
    BY <1>2, <1>11, <1>16
  <2>2. old[v] # h
    BY <1>3, <1>8, <1>9, <2>1
  <2> QED
    BY <1>8, <1>13, <1>16, <2>1, <2>2
<1>17. ASSUME NEW u \in Workers, NEW v \in Workers, new[u] # 0, new[u] = new[v] PROVE u = v
  <2>1. u # w /\ v # w
    BY <1>11, <1>17
  <2> QED
    BY <1>8, <1>11, <1>17, <2>1
<1>18. ASSUME NEW i \in Items, i >= n PROVE more[i] = 0
  <2>1. i # h
    BY <1>3, <1>5, <1>6, <1>9, <1>18
  <2> QED
    BY <1>8, <1>13, <1>18, <2>1
<1>19. ASSUME NEW i \in Items, i < n PROVE more[i] = 1 \/ \E v \in Workers : new[v] = i
  <2>1. CASE i = h
    BY <1>13, <2>1
  <2>2. CASE i # h
    <3>1. CASE \E v \in Workers : old[v] = i
      <4>1. PICK v \in Workers : old[v] = i
        BY <3>1
      <4>2. v # w
        BY <1>3, <2>2, <4>1
      <4> QED
        BY <1>11, <4>1, <4>2
    <3> QED
      BY <1>8, <1>13, <1>19, <2>2, <3>1
  <2> QED
    BY <2>1, <2>2
<1>20. /\ nextItem'[b] = n /\ hands'[b] = new /\ handled'[b] = more
       /\ stage'[b] = "items" /\ record'[b] # "completed"
  BY <1>5, <1>7, <1>8, <1>14, <1>15
<1>21. n >= 1
  BY <1>8
<1>22. PoolOK(b)'
  BY <1>16, <1>17, <1>18, <1>19, <1>20, <1>21 DEF PoolOK
<1>23. nextItem' \in [BatchIds -> Nat] /\ \A x \in BatchIds \ {b} : nextItem'[x] = nextItem[x]
  BY <1>1, <1>7 DEF BatchTypeOK
<1> QED
  BY <1>7, <1>14, <1>15, <1>22, <1>23, PoolSteps

\* A record that is gone says nothing.
LEMMA RecordExpiresKeeps == ASSUME BatchInv, NEW b \in BatchIds, RecordExpires(b) PROVE BatchInv'
<1>1. BatchTypeOK /\ LineOK(queue, stage) /\ ActiveOK(active, stage) /\ NoStall
  BY DEF BatchInv
<1>2. PoolAlone /\ UNCHANGED <<queue, active, stage, wakes, dropped>>
  BY DEF RecordExpires, PoolAlone
<1>3. PICK st \in Statuses : st = "absent" /\ record' = [record EXCEPT ![b] = st]
  BY DEF RecordExpires, Statuses
<1>4. /\ record' \in [BatchIds -> Statuses] /\ record'[b] = "absent"
      /\ \A x \in BatchIds \ {b} : record'[x] = record[x]
  BY <1>1, <1>3, Recorded
<1>5. BatchTypeOK'
  BY <1>1, <1>2, <1>4 DEF BatchTypeOK, PoolAlone
<1>6. LineOK(queue', stage') /\ ActiveOK(active', stage') /\ NoStall'
  BY <1>1, <1>2 DEF NoStall
<1>7. ASSUME NEW x \in BatchIds PROVE PoolOK(x)'
  <2>1. PoolOK(x)
    BY <1>7 DEF BatchInv
  <2>2. record'[x] = "completed" => record[x] = "completed"
    BY <1>4
  <2>3. /\ stage[x] = "save" \/ record[x] = "completed" => \A i \in Items : handled[x][i] = 1
        /\ record[x] = "completed" => stage[x] \in {"unlock", "ended"}
    BY <2>1 DEF PoolOK
  <2> QED
    BY <1>2, <2>1, <2>2, <2>3, PoolStays DEF PoolAlone
<1> QED
  BY <1>5, <1>6, <1>7 DEF BatchInv

-----------------------------------------------------------------------------
(* Batch: the theorem *)

LEMMA BatchStarts == BatchInit => BatchInv
<1> SUFFICES ASSUME BatchInit PROVE BatchInv
  OBVIOUS
<1>1. PICK s \in Seq(BatchIds) : queue = s /\ Len(s) = 0 /\ DOMAIN s = {}
  <2>1. PICK s : s = <<>>
    OBVIOUS
  <2>2. s \in Seq(BatchIds) /\ Len(s) = 0 /\ DOMAIN s = {}
    BY <2>1
  <2>3. queue = s
    BY <2>1 DEF BatchInit
  <2> QED
    BY <2>2, <2>3
<1>2. BatchTypeOK
  <2>1. hands \in [BatchIds -> [Workers -> Items \cup {0}]] /\ handled \in [BatchIds -> [Items -> Nat]]
    BY DEF BatchInit
  <2> QED
    BY <1>1, <2>1 DEF BatchInit, BatchTypeOK, Statuses, Steps
<1>3. LineOK(queue, stage)
  BY <1>1 DEF LineOK
<1>4. ActiveOK(active, stage)
  BY FS_EmptySet DEF BatchInit, ActiveOK, Waiting
<1>5. NoStall
  BY DEF BatchInit, NoStall
<1>6. ASSUME NEW b \in BatchIds PROVE PoolOK(b)
  <2>1. /\ nextItem[b] = 1 /\ stage[b] = "new" /\ record[b] = "absent"
        /\ (\A w \in Workers : hands[b][w] = 0) /\ \A i \in Items : handled[b][i] = 0
    BY DEF BatchInit
  <2>2. \A i \in Items : ~(i < 1)
    BY ItemsAre
  <2> QED
    BY <2>1, <2>2 DEF PoolOK
<1> QED
  BY <1>2, <1>3, <1>4, <1>5, <1>6 DEF BatchInv

LEMMA BatchSteps == BatchInv /\ [BatchNext]_batchVars => BatchInv'
<1> SUFFICES ASSUME BatchInv, [BatchNext]_batchVars PROVE BatchInv'
  OBVIOUS
<1>1. CASE \E b \in BatchIds : Create(b) \/ Enqueue(b)
  BY <1>1, CreateKeeps, EnqueueKeeps
<1>2. CASE \E b \in BatchIds : Load(b) \/ UnknownType(b) \/ LockTaken(b) \/ LockThrows(b) \/ Unlock(b)
  BY <1>2, EndsKeep, WayKeeps
<1>3. CASE \E b \in BatchIds : AcquireLock(b) \/ Reread(b) \/ Throws(b)
  BY <1>3, WayKeeps
<1>4. CASE \E b \in BatchIds : Mark(b) \/ AllItems(b) \/ Save(b) \/ MarkFailed(b)
  BY <1>4, MarkKeeps, AllItemsKeeps, SaveKeeps, MarkFailedKeeps
<1>5. CASE \E b \in BatchIds, w \in Workers : TakeItem(b, w) \/ FinishItem(b, w)
  BY <1>5, TakeItemKeeps, FinishItemKeeps
<1>6. CASE \E b \in BatchIds : RecordExpires(b)
  BY <1>6, RecordExpiresKeeps
<1>7. CASE Wake
  BY <1>7, WakeKeeps
<1>8. CASE UNCHANGED batchVars
  <2>1. \A x : PoolOK(x)' = PoolOK(x)
    BY <1>8 DEF batchVars, PoolOK
  <2>2. BatchTypeOK' = BatchTypeOK /\ NoStall' = NoStall /\ queue' = queue /\ stage' = stage
        /\ active' = active
    BY <1>8 DEF batchVars, BatchTypeOK, NoStall
  <2> QED
    BY <2>1, <2>2 DEF BatchInv
<1> QED
  BY <1>1, <1>2, <1>3, <1>4, <1>5, <1>6, <1>7, <1>8 DEF BatchNext

LEMMA BatchInvSuffices == BatchInv => BatchSafe
<1> SUFFICES ASSUME BatchInv PROVE BatchSafe
  OBVIOUS
<1>1. BatchTypeOK /\ NoStall
  BY DEF BatchInv
<1>2. StallNeedsDrop
  <2> SUFFICES ASSUME queue # <<>>, active = {}, wakes = 0, dropped = {} PROVE FALSE
    BY DEF StallNeedsDrop
  <2>1. Cardinality(active) = 0
    BY FS_EmptySet
  <2>2. Cardinality(active) + wakes >= MaxActive
    BY <1>1 DEF NoStall
  <2> QED
    BY <2>1, <2>2, ItemsAre
<1>3. CompletedOnce
  BY DEF CompletedOnce, BatchInv, PoolOK
<1> QED
  BY <1>1, <1>2, <1>3 DEF BatchSafe

\* BatchProcessor, for any batches, workers, items and number of batches at once: the queue
\* does not stall unless a batch was dropped, and a batch that is completed has had every
\* item processed once.
THEOREM BatchesAreSafe == BatchSpec => []BatchSafe
<1>1. BatchSpec => []BatchInv
  BY BatchStarts, BatchSteps, PTL DEF BatchSpec
<1> QED
  BY <1>1, BatchInvSuffices, PTL

-----------------------------------------------------------------------------
(* CircuitBreaker, for any thresholds and any number of calls *)

\* While the breaker is closed, failureCount is the number of failures in a row.
CountsStreak == breaker = "CLOSED" => streak = failureCount

BreakerInv == BreakerTypeOK /\ CountersInBounds /\ CountsStreak

LEMMA BreakerStarts == BreakerInit => BreakerInv
BY CircuitBreakerAssumption
   DEF BreakerInit, BreakerInv, BreakerTypeOK, CountersInBounds, CountsStreak

LEMMA BreakerSteps == BreakerInv /\ [BreakerNext]_breakerVars => BreakerInv'
<1>. SUFFICES ASSUME BreakerInv, [BreakerNext]_breakerVars PROVE BreakerInv'
  OBVIOUS
<1>. USE CircuitBreakerAssumption
     DEF BreakerInv, BreakerTypeOK, CountersInBounds, CountsStreak, counters
<1>1. ASSUME NEW c \in Executions, Execute(c) PROVE BreakerInv'
  BY <1>1 DEF Execute
<1>2. ASSUME NEW c \in Executions, Succeed(c) PROVE BreakerInv'
  <2>1. CASE MayClose /\ Reset
    BY <1>2, <2>1 DEF Succeed, Reset
  <2>2. CASE breaker = "HALF_OPEN" /\ ~MayClose
    BY <1>2, <2>2 DEF Succeed, MayClose
  <2>3. CASE breaker # "HALF_OPEN"
    BY <1>2, <2>3 DEF Succeed, MayClose
  <2>. QED  BY <1>2, <2>1, <2>2, <2>3 DEF Succeed
<1>3. ASSUME NEW c \in Executions, Fail(c) PROVE BreakerInv'
  <2>1. setbacks' \in 0..MaxSetbacks
    BY <1>3 DEF Fail
  <2>2. BreakerTypeOK'
    <3>1. breaker' \in {"CLOSED", "OPEN", "HALF_OPEN"} /\ inFlight' \subseteq Executions
      BY <1>3 DEF Fail
    <3>2. failureCount' \in Nat /\ streak' \in Nat /\ successCount' \in Nat
      BY <1>3 DEF Fail
    <3>3. cooled' \in BOOLEAN
      BY <1>3 DEF Fail
    <3>. QED  BY <2>1, <3>1, <3>2, <3>3
  <2>3. breaker' = "CLOSED" => breaker = "CLOSED" /\ failureCount' < FailureThreshold
    BY <1>3 DEF Fail, MustOpen
  <2>. QED  BY <1>3, <2>2, <2>3 DEF Fail
<1>4. CASE ForceOpen
  <2>1. setbacks' \in 0..MaxSetbacks
    BY <1>4 DEF ForceOpen
  <2>. QED  BY <1>4, <2>1 DEF ForceOpen
<1>5. CASE ManualReset
  BY <1>5 DEF ManualReset, Reset
<1>6. CASE CoolDown
  BY <1>6 DEF CoolDown
<1>7. CASE UNCHANGED breakerVars
  BY <1>7 DEF breakerVars
<1>. QED  BY <1>1, <1>2, <1>3, <1>4, <1>5, <1>6, <1>7 DEF BreakerNext

LEMMA BreakerAlways == BreakerSpec => []BreakerInv
BY BreakerStarts, BreakerSteps, PTL DEF BreakerSpec

\* Whatever outcomes come in late, the variables have their types, a closed
\* breaker is below its threshold, and no breaker holds more trial successes than
\* it needs to close.
THEOREM BreakerAlwaysSafe == BreakerSpec => []BreakerSafe
BY BreakerAlways, PTL DEF BreakerInv, BreakerSafe

\* Of itself a closed breaker opens only on FailureThreshold failures in a row.
THEOREM OpensOnFailuresOnly == BreakerSpec => OpensOnFailures
<1>. DEFINE Justified == (breaker = "CLOSED" /\ breaker' = "OPEN" /\ inFlight' # inFlight)
                           => streak' >= FailureThreshold
<1>1. ASSUME BreakerInv, BreakerNext PROVE Justified
  <2>1. ASSUME NEW c \in Executions, Fail(c) PROVE Justified
    BY <1>1, <2>1, CircuitBreakerAssumption
       DEF Fail, MustOpen, BreakerInv, BreakerTypeOK, CountsStreak
  <2>2. ASSUME NEW c \in Executions, Execute(c) \/ Succeed(c) PROVE Justified
    BY <2>2 DEF Execute, Succeed, Reset
  <2>3. CASE ForceOpen \/ ManualReset \/ CoolDown
    BY <2>3 DEF ForceOpen, ManualReset, CoolDown
  <2>. QED  BY <1>1, <2>1, <2>2, <2>3 DEF BreakerNext
<1>2. BreakerInv /\ [BreakerNext]_breakerVars => [Justified]_breakerVars
  BY <1>1
<1>. QED  BY <1>2, BreakerAlways, PTL DEF BreakerSpec, OpensOnFailures

=============================================================================
