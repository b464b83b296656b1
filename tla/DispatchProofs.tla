--------------------------- MODULE DispatchProofs ---------------------------
(* Theorems about what an update or a message meets before and around its     *)
(* handler, for any instances, calls, bounds and times.                       *)
(*   - InstanceLock: a lease that runs is on the lock, so two instances are   *)
(*     never inside their leases at once; a lease that has left the lock      *)
(*     never comes back; and no recovery removes a lock that was stored less  *)
(*     than its minimum age ago.                                              *)
(*   - AccessGuard: a changed role or mode is in force everywhere after the   *)
(*     life of a copy.                                                        *)
(*   - WebhookForward: what is acknowledged was done, and done again only     *)
(*     after a loss.                                                          *)
(*   - ExternalDownload: what is handed on is whole and from a checked        *)
(*     address, and nothing is left behind.                                   *)
(*   - TaskGroup: what the user is told of a refused or cancelled group is so. *)
(*   - Drives: the shared copies of a user's drives say what D1 says, but for *)
(*     those that the code itself leaves wrong.                               *)
(*   - Inbox: one instance dispatches a message, however often and wherever   *)
(*     it is delivered.                                                       *)
EXTENDS InstanceLock, AccessGuard, WebhookForward, ExternalDownload, TaskGroup, Drives,
        Inbox, SequenceTheorems, FiniteSetTheorems, TLAPS


-----------------------------------------------------------------------------
(* The inductive invariant *)

\* The cache holds a lock of some instance, from the past, for its whole TTL.
EntryOK ==
  entry.lock # NoLock =>
    /\ entry.lock.owner \in Instances
    /\ entry.lock.acquiredAt <= clock
    /\ entry.lock.acquiredAt + Ttl <= entry.expires
    /\ entry.lock.lease \in used

\* What was read was once in the cache, and what an instance renews or was
\* granted is its own.
ReadsOK ==
  /\ \A w \in Workers : seen[w] # NoLock => seen[w].lease \in used
  /\ \A i \in Instances : renewal[i].read # NoLock => renewal[i].read.owner = i
  /\ \A i \in Instances : granted[i] # NoLock => granted[i].owner = i

\* The reasons for which worker w is about to write or to delete still hold:
\* nothing but time can have passed for the value that it read.
DecisionOK(w) ==
  /\ pc[w] = "set" =>
       /\ value[w].owner = Home[w]
       /\ value[w].acquiredAt <= clock
       /\ seen[w].owner \in {Nobody, Home[w]} \/ seen[w].acquiredAt + Ttl <= clock
  /\ pc[w] = "delete" => seen[w].owner = Home[w] \/ seen[w].acquiredAt + MinStaleAge <= clock

\* Worker w is about to write under a lease id that it has generated.
Generated(w) == pc[w] = "set" /\ seen[w].owner # Home[w]

\* A generated id is nobody else's, and was never in the cache.
LeaseIdsOK ==
  /\ used \subseteq 1..leases
  /\ \A w \in Workers :
       pc[w] = "set" /\ seen[w].owner = Home[w] => value[w].lease = seen[w].lease
  /\ \A w \in Workers : Generated(w) => value[w].lease \in (1..leases) \ used
  /\ \A v, w \in Workers :
       Generated(v) /\ Generated(w) /\ v # w => value[v].lease # value[w].lease

IInv ==
  TypeOK /\ EntryOK /\ ReadsOK /\ (\A w \in Workers : DecisionOK(w)) /\ LeaseIdsOK /\ LeaseHonoured


USE InstanceLockAssumption

-----------------------------------------------------------------------------
(* Lemmas about the cache and its locks *)

\* NoLock is a lock value of no instance.
LEMMA NoLockIsNobodys == NoLock \in LockValue /\ NoLock.owner = Nobody /\ NoLock.owner \notin Instances
  BY DEF NoLock, LockValue

\* A read returns a lock value, and one of an instance is what the entry holds.
LEMMA CurrentIsEntry ==
  ASSUME TypeOK, EntryOK
  PROVE  /\ Current \in LockValue
         /\ Current # NoLock =>
              /\ Current = entry.lock /\ clock < entry.expires
              /\ Current.owner \in Instances
              /\ Current.acquiredAt <= clock
              /\ Current.acquiredAt + Ttl <= entry.expires
              /\ Current.lease \in used
         /\ Current.owner # Nobody => Current # NoLock
  BY NoLockIsNobodys DEF TypeOK, EntryOK, Current

\* An instance inside its lease is the owner of what a read returns.
LEMMA GrantedIsCurrent ==
  ASSUME IInv, NEW i \in Instances, granted[i] # NoLock, clock < granted[i].acquiredAt + Ttl
  PROVE  Current = granted[i] /\ Current.owner = i
  BY DEF IInv, LeaseHonoured, ReadsOK

\* A lock value that CreateLockValue builds is the instance's, from now; its
\* lease id is that of the previous value or the next one.
LEMMA CreatedLock ==
  ASSUME TypeOK, NEW i \in Instances, NEW previous \in LockValue
  PROVE  /\ CreateLockValue(i, previous) \in LockValue
         /\ CreateLockValue(i, previous) # NoLock
         /\ CreateLockValue(i, previous).owner = i
         /\ CreateLockValue(i, previous).acquiredAt = clock
         /\ CreateLockValue(i, previous).lease =
              IF previous.owner = i THEN previous.lease ELSE leases + 1
         /\ LeasesAfter(i, previous) \in Nat
         /\ leases <= LeasesAfter(i, previous)
  BY DEF TypeOK, LockValue, CreateLockValue, LeasesAfter, NoLock

\* Time and writes leave alone what is not theirs: a decision stands while its
\* worker's variables do and the clock does not go back.
LEMMA DecisionStands ==
  ASSUME TypeOK, NEW w \in Workers, DecisionOK(w), clock' \in Nat, clock <= clock',
         pc'[w] = pc[w], seen'[w] = seen[w], value'[w] = value[w]
  PROVE  DecisionOK(w)'
  BY DEF TypeOK, LockValue, DecisionOK

\* An idle, acquired, working or releasing worker has decided nothing.
LEMMA NoDecision ==
  ASSUME NEW w \in Workers, pc'[w] \notin {"set", "delete"}
  PROVE  DecisionOK(w)' /\ ~Generated(w)'
  BY DEF DecisionOK, Generated


-----------------------------------------------------------------------------
(* The invariant is inductive: one lemma for the steps of a worker, one for   *)
(* those of a renewal, and the rest in NextIInv                               *)

LEMMA InitIInv == Init => IInv
  BY NoLockIsNobodys
  DEF Init, IInv, TypeOK, LockValue, NoLock, Removed, NoRenewal, EntryOK, ReadsOK, DecisionOK,
      Generated, LeaseIdsOK, LeaseHonoured

\* The first half of tryAcquire.
LEMMA TryAcquireReadIInv ==
  ASSUME IInv, NEW w \in Workers, TryAcquireRead(w)
  PROVE  IInv'
<1> DEFINE i == Home[w]
<1> USE DEF IInv
<1>1. /\ i \in Instances /\ Current \in LockValue
      /\ pc' = [pc EXCEPT ![w] = "set"]
      /\ seen' = [seen EXCEPT ![w] = Current]
      /\ value' = [value EXCEPT ![w] = CreateLockValue(i, Current)]
      /\ leases' = LeasesAfter(i, Current)
      /\ UNCHANGED <<entry, clock, timer, renewal, granted, used>>
  BY CurrentIsEntry DEF TryAcquireRead, Goto
<1>2. TypeOK'
  BY <1>1, CreatedLock DEF TypeOK
<1>3. EntryOK' /\ LeaseHonoured'
  BY <1>1 DEF EntryOK, LeaseHonoured, Current
<1>4. ReadsOK'
  BY <1>1, CurrentIsEntry DEF ReadsOK, TypeOK
<1>5. ASSUME NEW v \in Workers  PROVE DecisionOK(v)'
  <2>1. CASE v = w
    <3>1. Current.owner \in {Nobody, i} \/ ~(clock - Current.acquiredAt < Ttl)
      BY DEF TryAcquireRead
    <3>2. Current.acquiredAt \in Nat /\ clock \in Nat
      BY <1>1 DEF LockValue, TypeOK
    <3>3. Current.owner \in {Nobody, i} \/ Current.acquiredAt + Ttl <= clock
      BY <3>1, <3>2
    <3> QED BY <1>1, <2>1, <3>3, <3>2, CreatedLock DEF DecisionOK, TypeOK
  <2>2. CASE v # w
    BY <1>1, <2>2, DecisionStands DEF TypeOK
  <2> QED BY <2>1, <2>2
<1>6. LeaseIdsOK'
  <2>1. used' \subseteq 1..leases'
    BY <1>1, CreatedLock DEF LeaseIdsOK, TypeOK
  <2>2. ASSUME NEW v \in Workers, pc'[v] = "set", seen'[v].owner = Home[v]
        PROVE  value'[v].lease = seen'[v].lease
    BY <1>1, <2>2, CreatedLock DEF LeaseIdsOK, TypeOK
  <2>3. ~Generated(w)' \/ (value'[w].lease = leases + 1 /\ leases' = leases + 1)
    BY <1>1, CreatedLock DEF Generated, TypeOK, LeasesAfter
  <2>4. ASSUME NEW v \in Workers, v # w, Generated(v)'
        PROVE  Generated(v) /\ value'[v] = value[v] /\ value[v].lease \in (1..leases) \ used
    BY <1>1, <2>4 DEF LeaseIdsOK, Generated, TypeOK
  <2>5. leases \in Nat /\ leases' \in Nat /\ leases <= leases' /\ leases + 1 \notin used
    BY <1>1, CreatedLock DEF LeaseIdsOK, TypeOK
  <2>6. ASSUME NEW v \in Workers, Generated(v)'  PROVE value'[v].lease \in (1..leases') \ used'
    <3>1. CASE v = w
      BY <2>6, <3>1, <2>3, <2>5, <1>1
    <3>2. CASE v # w
      BY <2>6, <3>2, <2>4, <2>5, <1>1
    <3> QED BY <3>1, <3>2
  <2>7. ASSUME NEW u \in Workers, NEW v \in Workers, Generated(u)', Generated(v)', u # v
        PROVE  value'[u].lease # value'[v].lease
    <3>1. CASE u = w
      BY <2>7, <3>1, <2>3, <2>4, <2>5
    <3>2. CASE v = w
      BY <2>7, <3>2, <2>3, <2>4, <2>5
    <3>3. CASE u # w /\ v # w
      BY <2>7, <3>3, <2>4 DEF LeaseIdsOK
    <3> QED BY <3>1, <3>2, <3>3
  <2> QED BY <2>1, <2>2, <2>6, <2>7 DEF LeaseIdsOK
<1> QED BY <1>2, <1>3, <1>4, <1>5, <1>6

\* The second half: the lock was free, the instance's own or expired when it
\* was read, and it still is what was read, so nobody else is inside a lease.
LEMMA TryAcquireSetIInv ==
  ASSUME IInv, NEW w \in Workers, TryAcquireSet(w)
  PROVE  IInv'
<1> DEFINE i == Home[w]
           lock == value[w]
<1> USE DEF IInv
<1>1. /\ i \in Instances /\ lock \in LockValue /\ Current \in LockValue
      /\ pc[w] = "set" /\ Current = seen[w]
      /\ lock.owner = i /\ lock.acquiredAt <= clock /\ lock # NoLock
      /\ seen[w].owner \in {Nobody, i} \/ seen[w].acquiredAt + Ttl <= clock
  BY CurrentIsEntry, NoLockIsNobodys DEF TryAcquireSet, Unchanged, TypeOK, DecisionOK
<1>2. /\ entry' = [lock |-> lock, expires |-> clock + Ttl]
      /\ granted' = [granted EXCEPT ![i] = lock]
      /\ used' = used \cup {lock.lease}
      /\ pc' = [pc EXCEPT ![w] = "acquired"] \/ pc' = [pc EXCEPT ![w] = "idle"]
      /\ seen' = [seen EXCEPT ![w] = NoLock]
      /\ value' = [value EXCEPT ![w] = NoLock]
      /\ UNCHANGED <<clock, leases, timer, renewal>>
  BY DEF TryAcquireSet, Store, Stored, Leave, Goto
<1>3. TypeOK'
  <2>1. lock.lease \in Nat /\ clock + Ttl \in Nat
    BY <1>1 DEF TypeOK, LockValue
  <2> QED BY <1>1, <1>2, <2>1, NoLockIsNobodys DEF TypeOK
<1>4. EntryOK'
  BY <1>1, <1>2 DEF EntryOK, TypeOK, LockValue
<1>5. ReadsOK'
  BY <1>1, <1>2 DEF ReadsOK, TypeOK
<1>6. ASSUME NEW v \in Workers  PROVE DecisionOK(v)'
  <2>1. CASE v = w
    BY <1>2, <2>1, NoDecision DEF TypeOK
  <2>2. CASE v # w
    BY <1>2, <2>2, DecisionStands DEF TypeOK
  <2> QED BY <2>1, <2>2
<1>7. LeaseIdsOK'
  <2>1. CASE Generated(w)
    BY ZenonT(30), <1>1, <1>2, <2>1 DEF LeaseIdsOK, Generated, TypeOK
  <2>2. CASE ~Generated(w)
    <3>1. lock.lease = seen[w].lease /\ seen[w].lease \in used
      BY <1>1, <2>2, NoLockIsNobodys DEF LeaseIdsOK, Generated, ReadsOK
    <3>2. used' = used
      BY <1>2, <3>1
    <3> QED BY ZenonT(30), <1>1, <1>2, <3>2 DEF LeaseIdsOK, Generated, TypeOK
  <2> QED BY <2>1, <2>2
<1>8. ASSUME NEW j \in Instances, granted'[j] # NoLock, clock' < granted'[j].acquiredAt + Ttl
      PROVE  Current' = granted'[j]
  <2>1. CASE j = i
    BY <1>1, <1>2, <2>1, <1>8 DEF TypeOK, LockValue, Current
  <2>2. CASE j # i
    <3>1. granted[j] # NoLock /\ clock < granted[j].acquiredAt + Ttl
      BY <1>2, <1>8, <2>2 DEF TypeOK
    <3>2. Current = granted[j] /\ Current.owner = j
      BY <3>1, GrantedIsCurrent
    <3>3. j # Nobody
      OBVIOUS
    <3>4. seen[w].acquiredAt + Ttl <= clock
      BY <1>1, <2>2, <3>2, <3>3
    <3> QED BY <1>1, <3>1, <3>2, <3>4 DEF TypeOK, LockValue
  <2> QED BY <2>1, <2>2
<1>9. LeaseHonoured'
  BY <1>8 DEF LeaseHonoured
<1> QED BY <1>3, <1>4, <1>5, <1>6, <1>7, <1>9


\* deleteIfEquals: the instance whose value it removes has no lease any more.
LEMMA DeleteIfEqualsIInv ==
  ASSUME IInv, NEW w \in Workers, DeleteIfEquals(w)
  PROVE  IInv'
<1> USE DEF IInv
<1>1. /\ pc[w] = "delete" /\ seen[w] \in LockValue
      /\ pc' = [pc EXCEPT ![w] = "idle"]
      /\ seen' = [seen EXCEPT ![w] = NoLock]
      /\ value' = [value EXCEPT ![w] = NoLock]
      /\ UNCHANGED <<clock, leases, timer, renewal, used>>
  BY DEF DeleteIfEquals, Leave, Goto, TypeOK
<1>2. \/ UNCHANGED <<entry, granted>>
      \/ /\ Current = seen[w]
         /\ entry' = [lock |-> NoLock, expires |-> 0]
         /\ granted' = [granted EXCEPT ![seen[w].owner] = NoLock]
  BY DEF DeleteIfEquals, Unchanged, Removed
<1>3. TypeOK'
  BY <1>1, <1>2, NoLockIsNobodys DEF TypeOK
<1>4. EntryOK' /\ ReadsOK'
  BY <1>1, <1>2 DEF EntryOK, ReadsOK, TypeOK
<1>5. ASSUME NEW v \in Workers  PROVE DecisionOK(v)'
  <2>1. CASE v = w
    BY <1>1, <2>1, NoDecision DEF TypeOK
  <2>2. CASE v # w
    BY <1>1, <2>2, DecisionStands DEF TypeOK
  <2> QED BY <2>1, <2>2
<1>6. LeaseIdsOK'
  BY <1>1 DEF LeaseIdsOK, Generated, TypeOK
<1>7. ASSUME NEW j \in Instances, granted'[j] # NoLock, clock' < granted'[j].acquiredAt + Ttl
      PROVE  Current' = granted'[j]
  <2>1. CASE UNCHANGED <<entry, granted>>
    BY <1>1, <1>7, <2>1 DEF LeaseHonoured, Current
  <2>2. CASE Current = seen[w] /\ granted' = [granted EXCEPT ![seen[w].owner] = NoLock]
    <3>1. j # seen[w].owner /\ granted'[j] = granted[j]
      BY <1>7, <2>2 DEF TypeOK
    <3>2. Current.owner = j
      BY <1>1, <1>7, <3>1, GrantedIsCurrent
    <3> QED BY <2>2, <3>1, <3>2
  <2> QED BY <1>2, <2>1, <2>2
<1>8. LeaseHonoured'
  BY <1>7 DEF LeaseHonoured
<1> QED BY <1>3, <1>4, <1>5, <1>6, <1>8

\* The steps of a worker that leave the cache alone and decide at most to
\* delete: the invariant is about nothing else that they change.
LEMMA WorkerStepIInv ==
  ASSUME IInv, NEW w \in Workers,
         \/ TryAcquireFails(w) \/ StartTaskLockRenewal(w) \/ AcquireGivesUp(w)
         \/ ReleaseTaskLock(w) \/ ReleaseLockRead(w) \/ ReleaseStaleRead(w)
  PROVE  IInv'
<1> USE DEF IInv
<1>1. UNCHANGED <<entry, clock, leases, renewal, granted, used>>
  BY DEF TryAcquireFails, StartTaskLockRenewal, AcquireGivesUp, ReleaseTaskLock, ReleaseLockRead,
         ReleaseStaleRead
<1>2. /\ \E label \in {"idle", "working", "release", "delete"} : pc' = [pc EXCEPT ![w] = label]
      /\ \E read \in {NoLock, seen[w], Current} : seen' = [seen EXCEPT ![w] = read]
      /\ \E lock \in {NoLock, value[w]} : value' = [value EXCEPT ![w] = lock]
      /\ timer' \in [Instances -> Nat]
  <2>1. Current.lease \in Nat /\ Home[w] \in Instances
    BY CurrentIsEntry DEF LockValue
  <2>2. seen = [seen EXCEPT ![w] = seen[w]] /\ value = [value EXCEPT ![w] = value[w]]
    BY DEF TypeOK
  <2>3. CASE TryAcquireFails(w)
    BY <2>3 DEF TryAcquireFails, Leave, Goto, TypeOK
  <2>4. CASE StartTaskLockRenewal(w) \/ AcquireGivesUp(w) \/ ReleaseTaskLock(w)
    BY <2>1, <2>2, <2>4 DEF StartTaskLockRenewal, AcquireGivesUp, ReleaseTaskLock, Goto, TypeOK
  <2>5. CASE ReleaseLockRead(w) \/ ReleaseStaleRead(w)
    BY <2>2, <2>5 DEF ReleaseLockRead, ReleaseStaleRead, Goto, TypeOK
  <2> QED BY <2>3, <2>4, <2>5
<1>3. TypeOK'
  BY <1>1, <1>2, NoLockIsNobodys, CurrentIsEntry DEF TypeOK
<1>4. EntryOK' /\ LeaseHonoured'
  BY <1>1 DEF EntryOK, LeaseHonoured, Current
<1>5. ReadsOK'
  BY <1>1, <1>2, CurrentIsEntry DEF ReadsOK, TypeOK
<1>6. pc'[w] = "delete" =>
        seen'[w] = Current /\ (Current.owner = Home[w] \/ Current.acquiredAt + MinStaleAge <= clock)
  <2>1. clock \in Nat /\ Current.acquiredAt \in Nat
    BY CurrentIsEntry DEF TypeOK, LockValue
  <2> QED BY <2>1 DEF TryAcquireFails, StartTaskLockRenewal, AcquireGivesUp, ReleaseTaskLock,
                      ReleaseLockRead, ReleaseStaleRead, Leave, Goto, TypeOK
<1>7. ASSUME NEW v \in Workers  PROVE DecisionOK(v)'
  <2>1. CASE v = w
    BY <1>1, <1>2, <1>6, <2>1 DEF DecisionOK, TypeOK
  <2>2. CASE v # w
    BY <1>1, <1>2, <2>2, DecisionStands DEF TypeOK
  <2> QED BY <2>1, <2>2
<1>8. LeaseIdsOK'
  <2>1. pc'[w] # "set"
    BY <1>2 DEF TypeOK
  <2> QED BY <1>1, <1>2, <2>1 DEF LeaseIdsOK, Generated, TypeOK
<1> QED BY <1>3, <1>4, <1>5, <1>7, <1>8

\* A renewal stores the instance's own lock again, with the lease it has.
LEMMA RenewSetIInv ==
  ASSUME IInv, NEW i \in Instances, RenewSet(i)
  PROVE  IInv'
<1> DEFINE read == renewal[i].read
           lock == CreateLockValue(i, read)
<1> USE DEF IInv
<1>1. /\ read # NoLock /\ read \in LockValue /\ Current = read
      /\ entry' = [lock |-> lock, expires |-> clock + Ttl]
      /\ granted' = [granted EXCEPT ![i] = lock]
      /\ used' = used \cup {lock.lease}
      /\ renewal' = [renewal EXCEPT ![i] = [lease |-> 0, read |-> NoLock]]
      /\ UNCHANGED <<clock, leases, pc, seen, value, timer>>
  BY DEF RenewSet, Unchanged, Store, Stored, NoRenewal, TypeOK
<1>2. /\ read.owner = i /\ read.lease \in used
      /\ lock \in LockValue /\ lock # NoLock /\ lock.owner = i /\ lock.acquiredAt = clock
      /\ lock.lease = read.lease /\ used' = used
  BY <1>1, CreatedLock, CurrentIsEntry DEF ReadsOK
<1>3. TypeOK'
  <2>1. clock + Ttl \in Nat
    BY DEF TypeOK
  <2> QED BY <1>1, <1>2, <2>1, NoLockIsNobodys DEF TypeOK
<1>4. EntryOK'
  BY <1>1, <1>2 DEF EntryOK, TypeOK
<1>5. ReadsOK'
  BY <1>1, <1>2 DEF ReadsOK, TypeOK
<1>6. ASSUME NEW v \in Workers  PROVE DecisionOK(v)'
  BY <1>1, DecisionStands DEF TypeOK
<1>7. LeaseIdsOK'
  BY <1>1, <1>2 DEF LeaseIdsOK, Generated
<1>8. ASSUME NEW j \in Instances, granted'[j] # NoLock, clock' < granted'[j].acquiredAt + Ttl
      PROVE  Current' = granted'[j]
  <2>1. CASE j = i
    BY <1>1, <1>2, <2>1, <1>8 DEF TypeOK, Current
  <2>2. CASE j # i
    BY <1>1, <1>2, <1>8, <2>2, GrantedIsCurrent DEF TypeOK
  <2> QED BY <2>1, <2>2
<1>9. LeaseHonoured'
  BY <1>8 DEF LeaseHonoured
<1> QED BY <1>3, <1>4, <1>5, <1>6, <1>7, <1>9


LEMMA NextIInv ==
  ASSUME IInv, [Next]_vars
  PROVE  IInv'
<1> USE DEF IInv
<1>1. CASE Tick
  <2>1. clock' = clock + 1 /\ UNCHANGED <<entry, leases, pc, seen, value, timer, renewal, granted, used>>
    BY <1>1 DEF Tick
  <2>2. TypeOK'
    BY <2>1 DEF TypeOK
  <2>3. EntryOK' /\ ReadsOK' /\ LeaseIdsOK'
    BY <2>1 DEF EntryOK, ReadsOK, LeaseIdsOK, Generated, TypeOK, LockValue
  <2>4. ASSUME NEW w \in Workers  PROVE DecisionOK(w)'
    BY <2>1, DecisionStands DEF TypeOK
  <2>5. ASSUME NEW j \in Instances, granted[j] # NoLock, clock + 1 < granted[j].acquiredAt + Ttl
        PROVE  Current' = granted[j]
    <3>1. clock \in Nat /\ granted[j].acquiredAt \in Nat /\ entry.expires \in Nat
      BY DEF TypeOK, LockValue
    <3>2. Current = granted[j]
      BY <2>5, <3>1, GrantedIsCurrent
    <3>3. Current = entry.lock /\ granted[j].acquiredAt + Ttl <= entry.expires
      BY <2>5, <3>2, CurrentIsEntry
    <3>4. clock' < entry'.expires /\ entry' = entry
      BY <2>1, <2>5, <3>1, <3>3
    <3> QED BY <3>2, <3>3, <3>4 DEF Current
  <2> QED BY <2>1, <2>2, <2>3, <2>4, <2>5 DEF LeaseHonoured
<1>2. CASE \E w \in Workers : TryAcquireRead(w)
  BY <1>2, TryAcquireReadIInv
<1>3. CASE \E w \in Workers : TryAcquireSet(w)
  BY <1>3, TryAcquireSetIInv
<1>4. CASE \E w \in Workers : DeleteIfEquals(w)
  BY <1>4, DeleteIfEqualsIInv
<1>5. CASE \E w \in Workers :
             \/ TryAcquireFails(w) \/ StartTaskLockRenewal(w) \/ AcquireGivesUp(w)
             \/ ReleaseTaskLock(w) \/ ReleaseLockRead(w) \/ ReleaseStaleRead(w)
  BY <1>5, WorkerStepIInv
<1>6. CASE \E i \in Instances : RenewSet(i)
  BY <1>6, RenewSetIInv
<1>7. ASSUME NEW i \in Instances, RenewStart(i) \/ RenewRead(i) \/ RenewFails(i)
      PROVE  IInv'
  <2>1. UNCHANGED <<entry, clock, leases, pc, seen, value, granted, used>>
    BY <1>7 DEF RenewStart, RenewRead, RenewFails
  <2>2. TypeOK' /\ ReadsOK'
    <3>1. Current \in LockValue /\ NoRenewal \in [lease : Nat, read : LockValue] /\ NoRenewal.read = NoLock
      BY CurrentIsEntry, NoLockIsNobodys DEF NoRenewal
    <3>2. CASE RenewStart(i)
      BY <2>1, <3>1, <3>2 DEF RenewStart, TypeOK, ReadsOK
    <3>3. CASE RenewRead(i)
      <4>1. CASE Current.owner = i /\ renewal' = [renewal EXCEPT ![i].read = Current] /\ UNCHANGED timer
        BY <2>1, <3>1, <4>1 DEF TypeOK, ReadsOK
      <4>2. CASE renewal' = [renewal EXCEPT ![i] = NoRenewal] /\ timer' = [timer EXCEPT ![i] = 0]
        BY <2>1, <3>1, <4>2 DEF TypeOK, ReadsOK
      <4> QED BY <3>3, <4>1, <4>2 DEF RenewRead
    <3>4. CASE RenewFails(i)
      BY <2>1, <3>1, <3>4 DEF RenewFails, TypeOK, ReadsOK
    <3> QED BY <1>7, <3>2, <3>3, <3>4
  <2> QED BY <2>1, <2>2 DEF EntryOK, DecisionOK, LeaseIdsOK, Generated, LeaseHonoured, Current
<1>8. ASSUME NEW i \in Instances, Crash(i)
      PROVE  IInv'
  <2>1. UNCHANGED <<entry, clock, leases, granted, used>>
    BY <1>8 DEF Crash
  <2>2. TypeOK'
    BY <1>8, NoLockIsNobodys DEF Crash, TypeOK, NoRenewal
  <2>3. ReadsOK'
    BY <1>8 DEF Crash, TypeOK, ReadsOK, NoRenewal
  <2>4. \A w \in Workers :
          \/ pc'[w] = "idle"
          \/ pc'[w] = pc[w] /\ seen'[w] = seen[w] /\ value'[w] = value[w]
    BY <1>8 DEF Crash
  <2>5. \A w \in Workers : DecisionOK(w)'
    BY <2>1, <2>4 DEF DecisionOK
  <2>6. LeaseIdsOK'
    BY <2>1, <2>4 DEF LeaseIdsOK, Generated
  <2> QED BY <2>1, <2>2, <2>3, <2>5, <2>6 DEF EntryOK, LeaseHonoured, Current
<1>9. CASE UNCHANGED vars
  BY <1>9 DEF vars, TypeOK, EntryOK, ReadsOK, DecisionOK, LeaseIdsOK, Generated, LeaseHonoured, Current
<1> QED BY <1>1, <1>2, <1>3, <1>4, <1>5, <1>6, <1>7, <1>8, <1>9 DEF Next

LEMMA AlwaysIInv == Spec => []IInv
  BY InitIInv, NextIInv, PTL DEF Spec

-----------------------------------------------------------------------------
(* The theorems *)

\* Whatever jobs acquire, renew, release, force or lose the lock at the same
\* time: from storing its value to the end of its TTL an instance finds exactly
\* that value in the cache, unless it was removed on purpose.
THEOREM LeasesAreHonoured == Spec => []LeaseSafe
<1>1. IInv => LeaseSafe
  BY DEF IInv, LeaseSafe
<1> QED BY <1>1, AlwaysIInv, PTL

\* i is inside the lease that it stored and nobody removed.
InsideLease(i) == granted[i] # NoLock /\ clock < granted[i].acquiredAt + Ttl

\* What the lock is for: two instances are never inside their leases at once
\* (the critical lock kinds of InstanceCoordinator).
THEOREM OneInstanceInsideLease ==
  Spec => [](\A i, j \in Instances : InsideLease(i) /\ InsideLease(j) => i = j)
<1>1. IInv => \A i, j \in Instances : InsideLease(i) /\ InsideLease(j) => i = j
  BY GrantedIsCurrent DEF InsideLease
<1> QED BY <1>1, AlwaysIInv, PTL

\* A step that changes the entry and leaves a lock in it is a compare-and-set of
\* a worker or of a renewal.
LEMMA StoringSteps ==
  ASSUME IInv, Next, entry' # entry, entry'.lock # NoLock
  PROVE  \/ \E w \in Workers : TryAcquireSet(w) /\ entry'.lock = value[w]
         \/ \E i \in Instances :
              RenewSet(i) /\ entry'.lock = CreateLockValue(i, renewal[i].read)
<1>1. ASSUME NEW w \in Workers, DeleteIfEquals(w)  PROVE FALSE
  BY <1>1 DEF DeleteIfEquals, Removed
<1> QED BY <1>1 DEF Next, Tick, TryAcquireRead, TryAcquireSet, TryAcquireFails, StartTaskLockRenewal,
        AcquireGivesUp, ReleaseTaskLock, ReleaseLockRead, ReleaseStaleRead, RenewStart, RenewRead,
        RenewSet, RenewFails, Crash, Store, Stored

\* A lease id that has left the lock never comes back, although an acquire or a
\* renewal of its former holder may be on its way to the cache.
THEOREM LeasesNeverReturn == Spec => LeaseNeverReturns
<1>1. ASSUME IInv, [Next]_vars
      PROVE  [entry' # entry /\ entry'.lock # NoLock /\ entry'.lock.lease \in used
                => entry'.lock.lease = Current.lease]_vars
  <2> USE DEF IInv
  <2> SUFFICES ASSUME Next, entry' # entry, entry'.lock # NoLock, entry'.lock.lease \in used
               PROVE  entry'.lock.lease = Current.lease
    BY <1>1
  <2>1. ASSUME NEW w \in Workers, TryAcquireSet(w), entry'.lock = value[w]
        PROVE  entry'.lock.lease = Current.lease
    <3>1. pc[w] = "set" /\ Current = seen[w]
      BY <2>1 DEF TryAcquireSet, Unchanged
    <3>2. ~Generated(w)
      BY <1>1, <2>1 DEF LeaseIdsOK
    <3> QED BY <1>1, <2>1, <3>1, <3>2 DEF LeaseIdsOK, Generated
  <2>2. ASSUME NEW i \in Instances, RenewSet(i), entry'.lock = CreateLockValue(i, renewal[i].read)
        PROVE  entry'.lock.lease = Current.lease
    <3>1. renewal[i].read = Current /\ renewal[i].read.owner = i /\ renewal[i].read \in LockValue
      BY <1>1, <2>2 DEF RenewSet, Unchanged, ReadsOK, TypeOK
    <3> QED BY <1>1, <2>2, <3>1, CreatedLock
  <2> QED BY <1>1, <2>1, <2>2, StoringSteps
<1> QED BY <1>1, AlwaysIInv, PTL DEF Spec, LeaseNeverReturns

\* Stale recovery and the release of another job never remove the lock of
\* another instance that was stored less than MinStaleAge ago, even when it was
\* renewed between their read and their delete.
THEOREM FreshLocksAreNotForced == Spec => FreshLockNotForced
<1>1. ASSUME IInv, [Next]_vars
      PROVE  [\A w \in Workers :
                (/\ pc[w] = "delete" /\ pc'[w] = "idle" /\ Current # NoLock
                 /\ Home[w] # Current.owner /\ clock - Current.acquiredAt < MinStaleAge)
                   => entry' = entry]_vars
  <2> SUFFICES ASSUME Next, NEW w \in Workers, pc[w] = "delete", pc'[w] = "idle",
                      Home[w] # Current.owner, clock - Current.acquiredAt < MinStaleAge, entry' # entry
               PROVE  FALSE
    BY <1>1
  <2>1. pc \in [Workers -> {"idle", "set", "acquired", "working", "release", "delete"}]
    BY <1>1 DEF IInv, TypeOK
  <2>2. DeleteIfEquals(w) /\ Current = seen[w]
    <3>1. ASSUME NEW v \in Workers, TryAcquireSet(v) \/ DeleteIfEquals(v)  PROVE v = w
      BY <2>1, <3>1 DEF TryAcquireSet, DeleteIfEquals, Leave, Goto
    <3>2. ASSUME NEW v \in Workers, TryAcquireSet(v)  PROVE FALSE
      BY <3>1, <3>2 DEF TryAcquireSet
    <3>3. ASSUME NEW i \in Instances, RenewSet(i)  PROVE FALSE
      BY <3>3 DEF RenewSet
    <3> QED BY <3>1, <3>2, <3>3
            DEF Next, Tick, TryAcquireRead, TryAcquireFails, StartTaskLockRenewal, AcquireGivesUp,
                ReleaseTaskLock, ReleaseLockRead, ReleaseStaleRead, RenewStart, RenewRead, RenewFails,
                Crash, DeleteIfEquals, Unchanged
  <2>3. Current.acquiredAt + MinStaleAge <= clock
    BY <1>1, <2>2 DEF IInv, DecisionOK
  <2> QED BY <1>1, <2>3, CurrentIsEntry DEF IInv, TypeOK, LockValue
<1> QED BY <1>1, AlwaysIInv, PTL DEF Spec, FreshLockNotForced

\* Both action properties of the lock.
THEOREM LeaseStepsHold == Spec => LeaseSteps
  BY LeasesNeverReturn, FreshLocksAreNotForced DEF LeaseSteps

-----------------------------------------------------------------------------
(* AccessGuard: the inductive invariant *)

\* Once time has passed since a change nobody is about to write or to copy another
\* value, and a copy that is not in force is as old as the time since.
ForceOK ==
  since > 0 =>
    /\ \A n \in Nodes : writer[n] = GuardIdle
    /\ \A c \in Nodes \X Readers : reader[c] \in {GuardIdle, stored}
    /\ \A n \in Nodes : Live(n) /\ copy[n].value # stored => copy[n].age >= since

\* What an instance has copied, has read or is about to copy is not behind its own change.
OwnOK(n) ==
  /\ own[n] <= stored
  /\ Live(n) => copy[n].value # GuardIdle /\ copy[n].value >= own[n]
  /\ \A r \in Readers : reader[<<n, r>>] # GuardIdle => reader[<<n, r>>] >= own[n]
  /\ writer[n] # GuardIdle => writer[n] >= own[n] /\ writer[n] <= stored

GuardInv == GuardTypeOK /\ stored = changes /\ ForceOK /\ \A n \in Nodes : OwnOK(n)

LEMMA InitGuardInv == GuardInit => GuardInv
BY GuardAssumption
   DEF GuardInit, GuardInv, GuardTypeOK, ForceOK, OwnOK, NoCopy, GuardIdle, Values, Live

Copied == [value : Values \cup {GuardIdle}, age : 0..CopyTtl]

LEMMA GuardFields ==
  /\ 0 \in Values /\ NoCopy \in Copied /\ NoCopy.value = GuardIdle /\ NoCopy.age = 0
  /\ \A v \in Values \cup {GuardIdle} :
       LET fresh == [value |-> v, age |-> 0]
       IN fresh \in Copied /\ fresh.value = v /\ fresh.age = 0
  /\ \A v \in Values : v \in Nat /\ v # GuardIdle
BY GuardAssumption DEF Copied, NoCopy, Values, GuardIdle

LEMMA ReadGuard ==
  ASSUME GuardInv, NEW n \in Nodes, NEW r \in Readers, Read(n, r)
  PROVE  GuardInv'
<1> USE GuardAssumption DEF GuardInv, GuardTypeOK
<1>1. /\ reader' = [reader EXCEPT ![<<n, r>>] = stored] /\ stored \in Values
      /\ UNCHANGED <<kind, stored, copy, writer, own, since, changes>>
  BY DEF Read
<1>2. GuardTypeOK'  BY <1>1
<1>3. ForceOK'  BY <1>1 DEF ForceOK, Live
<1>4. \A m \in Nodes : OwnOK(m)'
  <2> SUFFICES ASSUME NEW m \in Nodes PROVE OwnOK(m)'
    OBVIOUS
  <2>1. OwnOK(m)  OBVIOUS
  <2>2. \A q \in Readers : reader'[<<m, q>>] \in {reader[<<m, q>>], stored}  BY <1>1
  <2> QED  BY <1>1, <2>1, <2>2 DEF OwnOK, Live
<1> QED  BY <1>1, <1>2, <1>3, <1>4

\* A copy is made, dropped or read in vain by a call that had read a value.
LEMMA FillGuard ==
  ASSUME GuardInv, NEW n \in Nodes, NEW r \in Readers, Fill(n, r) \/ ReadFails(n, r)
  PROVE  GuardInv'
<1> USE GuardAssumption, GuardFields DEF GuardInv, GuardTypeOK
<1> DEFINE v == reader[<<n, r>>]
<1>1. /\ reader' = [reader EXCEPT ![<<n, r>>] = GuardIdle] /\ v # GuardIdle /\ v \in Values
      /\ UNCHANGED <<kind, stored, writer, own, since, changes>>
      /\ copy' = copy \/ copy' = [copy EXCEPT ![n] = [value |-> v, age |-> 0]]
  BY DEF Fill, ReadFails
<1>2. copy \in [Nodes -> Copied] /\ [value |-> v, age |-> 0] \in Copied
  BY <1>1 DEF Copied
<1>3. copy' \in [Nodes -> Copied]
  BY <1>1, <1>2
<1>4. GuardTypeOK'  BY <1>1, <1>3 DEF Copied
<1>5. \A m \in Nodes : copy'[m] = copy[m] \/ (m = n /\ copy'[m].value = v /\ copy'[m].age = 0)
  BY <1>1, <1>2
<1>6. ForceOK'
  <2> SUFFICES ASSUME since > 0 PROVE ForceOK'
    BY <1>1 DEF ForceOK
  <2>1. v = stored  BY <1>1 DEF ForceOK
  <2> QED  BY <1>1, <1>5, <2>1 DEF ForceOK, Live
<1>7. \A m \in Nodes : OwnOK(m)'
  <2> SUFFICES ASSUME NEW m \in Nodes PROVE OwnOK(m)'
    OBVIOUS
  <2>1. OwnOK(m) /\ (m = n => v >= own[m])  BY <1>1 DEF OwnOK
  <2>2. \A q \in Readers : reader'[<<m, q>>] \in {reader[<<m, q>>], GuardIdle}  BY <1>1
  <2> QED  BY <1>1, <1>5, <2>1, <2>2 DEF OwnOK, Live
<1> QED  BY <1>1, <1>4, <1>6, <1>7

LEMMA WriteGuard ==
  ASSUME GuardInv, NEW n \in Nodes, Write(n)
  PROVE  GuardInv'
<1> USE GuardAssumption, GuardFields DEF GuardInv, GuardTypeOK
<1>1. /\ stored' = stored + 1 /\ changes' = stored + 1 /\ stored + 1 \in Values /\ since' = 0
      /\ writer' = [writer EXCEPT ![n] = stored + 1]
      /\ UNCHANGED <<kind, copy, reader, own>>
  BY DEF Write, Values
<1>2. GuardTypeOK'  BY <1>1
<1>3. ForceOK'  BY <1>1 DEF ForceOK
<1>4. \A m \in Nodes : OwnOK(m)'
  <2> SUFFICES ASSUME NEW m \in Nodes PROVE OwnOK(m)'
    OBVIOUS
  <2>1. OwnOK(m) /\ own[m] \in Values /\ stored \in Values  OBVIOUS
  <2>2. writer'[m] \in {writer[m], stored + 1}  BY <1>1
  <2> QED  BY <1>1, <2>1, <2>2 DEF OwnOK, Live, Values
<1> QED  BY <1>1, <1>2, <1>3, <1>4

LEMMA SettleGuard ==
  ASSUME GuardInv, NEW n \in Nodes, Settle(n)
  PROVE  GuardInv'
<1> USE GuardAssumption, GuardFields DEF GuardInv, GuardTypeOK
<1> DEFINE v == writer[n]
<1>1. /\ v # GuardIdle /\ v \in Values /\ since' = 0
      /\ own' = [own EXCEPT ![n] = IF Undisturbed(n) THEN v ELSE @]
      /\ writer' = [writer EXCEPT ![n] = GuardIdle]
      /\ copy' = [copy EXCEPT ![n] = IF kind = "role" THEN NoCopy ELSE [value |-> v, age |-> 0]]
      /\ UNCHANGED <<kind, stored, reader, changes>>
  BY DEF Settle, Finished
<1>2. copy' \in [Nodes -> Copied]
  <2>1. copy \in [Nodes -> Copied] /\ [value |-> v, age |-> 0] \in Copied
    BY <1>1 DEF Copied
  <2> QED  BY <1>1, <2>1
<1>3. GuardTypeOK'  BY <1>1, <1>2 DEF Copied
<1>4. ForceOK'  BY <1>1 DEF ForceOK
<1>5. ASSUME NEW m \in Nodes, m # n  PROVE OwnOK(m)'
  <2>1. /\ OwnOK(m) /\ copy'[m] = copy[m] /\ writer'[m] = writer[m] /\ own'[m] = own[m]
    BY <1>1, <1>5
  <2> QED  BY <1>1, <2>1 DEF OwnOK, Live
<1>6. OwnOK(n)'
  <2>1. OwnOK(n) /\ v >= own[n] /\ writer'[n] = GuardIdle /\ v <= stored
    BY <1>1 DEF OwnOK
  <2>2. copy'[n] = NoCopy \/ (copy'[n].value = v /\ v # GuardIdle)
    BY <1>1
  <2>3. CASE own'[n] = own[n]  BY <1>1, <2>1, <2>2, <2>3 DEF OwnOK, Live
  <2>4. CASE Undisturbed(n) /\ own'[n] = v
    <3>1. \A r \in Readers : reader'[<<n, r>>] # GuardIdle => reader'[<<n, r>>] = v
      BY <1>1, <2>4 DEF Undisturbed
    <3> QED  BY <1>1, <2>1, <2>2, <2>4, <3>1 DEF OwnOK, Live
  <2> QED  BY <1>1, <2>3, <2>4
<1> QED  BY <1>1, <1>3, <1>4, <1>5, <1>6

LEMMA TimeGuard ==
  ASSUME GuardInv, GuardTick
  PROVE  GuardInv'
<1> USE GuardAssumption, GuardFields DEF GuardInv, GuardTypeOK
<1>1. /\ \A c \in Nodes \X Readers : reader[c] = GuardIdle
      /\ \A m \in Nodes : writer[m] = GuardIdle
      /\ since' = IF since > CopyTtl THEN since ELSE since + 1
      /\ UNCHANGED <<kind, stored, reader, writer, own, changes>>
  BY DEF GuardTick
<1>2. ASSUME NEW m \in Nodes
      PROVE  /\ copy'[m] \in Copied
             /\ \/ copy'[m] = NoCopy
                \/ Live(m) /\ copy'[m].value = copy[m].value /\ copy'[m].age = copy[m].age + 1
  <2>1. copy[m] \in Copied  BY DEF Copied
  <2>2. copy'[m] = IF Live(m) /\ copy[m].age + 1 < CopyTtl
                   THEN [copy[m] EXCEPT !.age = @ + 1] ELSE NoCopy
    BY DEF GuardTick
  <2> QED  BY SMTT(30), <2>1, <2>2 DEF Copied
<1>3. copy' \in [Nodes -> Copied]
  <2>1. copy' = [m \in Nodes |-> copy'[m]]  BY DEF GuardTick
  <2> QED  BY <1>2, <2>1
<1>4. GuardTypeOK'  BY <1>1, <1>3 DEF Copied
<1>5. ForceOK'
  <2>1. ASSUME NEW m \in Nodes, Live(m)', copy'[m].value # stored
        PROVE  copy'[m].age >= since'
    <3>1. Live(m) /\ copy'[m].value = copy[m].value /\ copy'[m].age = copy[m].age + 1
      BY <1>2, <2>1 DEF Live
    <3>2. copy[m].age \in 0..CopyTtl  OBVIOUS
    <3> QED  BY <1>1, <2>1, <3>1, <3>2 DEF ForceOK
  <2> QED  BY <1>1, <2>1 DEF ForceOK
<1>6. \A m \in Nodes : OwnOK(m)'
  BY <1>1, <1>2 DEF OwnOK, Live
<1> QED  BY <1>1, <1>4, <1>5, <1>6

LEMMA NextGuardInv == GuardInv /\ [GuardNext]_guardVars => GuardInv'
<1> SUFFICES ASSUME GuardInv, [GuardNext]_guardVars PROVE GuardInv'
  OBVIOUS
<1>1. CASE UNCHANGED guardVars
  BY <1>1 DEF guardVars, GuardInv, GuardTypeOK, ForceOK, OwnOK, Live
<1>2. CASE GuardNext
  BY <1>1, <1>2, ReadGuard, FillGuard, WriteGuard, SettleGuard, TimeGuard DEF GuardNext, FromCopy
<1> QED  BY <1>1, <1>2

\* A copy is younger than the time since the change, or it is in force.
LEMMA GuardInvSafe == GuardInv => GuardSafe
<1> SUFFICES ASSUME GuardInv PROVE InForceAfterTtl /\ OwnChangeHolds
  BY DEF GuardInv, GuardSafe
<1>1. \A n \in Nodes : copy[n].age \in 0..CopyTtl  BY DEF GuardInv, GuardTypeOK
<1>2. since \in Nat  BY GuardAssumption DEF GuardInv, GuardTypeOK
<1>3. InForceAfterTtl
  BY <1>1, <1>2, GuardAssumption DEF GuardInv, ForceOK, InForceAfterTtl
<1>4. OwnChangeHolds  BY DEF GuardInv, OwnOK, OwnChangeHolds
<1> QED  BY <1>3, <1>4

(* _globalGuard: for any instances, calls, changes and life of a copy, a changed role or   *)
(* mode is in force everywhere when one life of a copy has passed since, and the           *)
(* instance that made it does not go back behind it, unless a call of its own was under    *)
(* way.                                                                                    *)
THEOREM GuardIsSafe == GuardSpec => []GuardSafe
<1>1. GuardSpec => []GuardInv
  BY InitGuardInv, NextGuardInv, PTL DEF GuardSpec
<1> QED  BY <1>1, GuardInvSafe, PTL

-----------------------------------------------------------------------------
(* WebhookForward: the inductive invariant *)

\* An attempt that is under way
Open(a) == front[a].at \in {"in", "resolve", "wait", "answer"}

\* An attempt whose work is done, and QStash has still to be told
Carries(a) ==
  \/ front[a].at = "answer" /\ front[a].ok
  \/ front[a].at = "wait" /\ back[a].at = "answer" /\ back[a].ok

\* Attempts that were given up while the leader goes on with them
Orphans == {a \in Tries : back[a].at = "in" /\ front[a].at # "wait"}

\* One attempt after the other, and none after an acknowledgement
InTurn ==
  /\ \A a, b \in Tries : a < b /\ front[b].at # "none" => front[a].at = "over"
  /\ acked => \A a \in Tries : ~Open(a)

AttemptOK(a) ==
  /\ front[a].at = "wait" => back[a].at \in {"in", "answer"}
  /\ back[a].at = "in" => front[a].at \in {"wait", "answer", "over"}
  /\ front[a].at \in {"none", "in", "resolve", "wait"} => ~front[a].ok
  /\ back[a].at = "in" => ~back[a].ok
  /\ front[a].ok \/ back[a].ok => finished > 0

\* Each time the work was done is that of a loss, but for the one that was acknowledged
\* or is about to be; an orphan will be such a time.
Told == IF acked \/ \E a \in Tries : Carries(a) THEN 1 ELSE 0

CountOK == finished + Cardinality(Orphans) <= losses + Told

RouteInv ==
  /\ RouteTypeOK /\ AcknowledgedIsDone /\ InTurn /\ CountOK
  /\ \A a \in Tries : AttemptOK(a)

LEMMA OrphansCount ==
  ASSUME RouteInv
  PROVE  /\ IsFiniteSet(Orphans) /\ Cardinality(Orphans) \in Nat
         /\ \A a \in Tries \ Orphans : Cardinality(Orphans \cup {a}) = Cardinality(Orphans) + 1
         /\ \A a \in Orphans : Cardinality(Orphans \ {a}) = Cardinality(Orphans) - 1
<1>1. IsFiniteSet(Orphans)  BY RouteAssumption, FS_Subset DEF Orphans
<1> QED  BY <1>1, FS_CardinalityType, FS_AddElement, FS_RemoveElement

LEMMA InitRouteInv == RouteInit => RouteInv
<1> SUFFICES ASSUME RouteInit PROVE RouteInv
  OBVIOUS
<1> USE RouteAssumption DEF RouteInit
<1>1. NoRoute \in Routes /\ NoRoute.at = "none" /\ NoRoute.ok = FALSE  BY DEF NoRoute, Routes
<1>2. \A a \in Tries : front[a] = NoRoute /\ back[a] = NoRoute  OBVIOUS
<1>3. RouteTypeOK
  <2>1. 0 \in 0..(MaxLosses + 1) /\ 0 \in 0..MaxMoves /\ 0 \in 0..MaxLosses  OBVIOUS
  <2>2. front \in [Tries -> Routes] /\ back \in [Tries -> Routes]  BY <1>1
  <2> QED  BY <2>1, <2>2 DEF RouteTypeOK
<1>4. InTurn /\ AcknowledgedIsDone  BY <1>1, <1>2 DEF InTurn, Open, AcknowledgedIsDone
<1>5. \A a \in Tries : AttemptOK(a)  BY <1>1, <1>2 DEF AttemptOK
<1>6. CountOK
  <2>1. Orphans = {}  BY <1>1, <1>2 DEF Orphans
  <2>2. Told \in {0, 1}  BY DEF Told
  <2> QED  BY <2>1, <2>2, FS_EmptySet DEF CountOK
<1> QED  BY <1>3, <1>4, <1>5, <1>6 DEF RouteInv

-----------------------------------------------------------------------------
(* What a step may do to the attempts *)

LEMMA AnsweredAs ==
  ASSUME NEW q \in Routes, NEW ok \in BOOLEAN
  PROVE  /\ Answered(q, ok) \in Routes /\ Answered(q, ok).at = "answer"
         /\ Answered(q, ok).node = q.node /\ (Answered(q, ok).ok <=> ok)
<1>1. CASE ok = TRUE   BY <1>1 DEF Answered, Routes
<1>2. CASE ok = FALSE  BY <1>2 DEF Answered, Routes
<1> QED  BY <1>1, <1>2

LEMMA FrontMoved ==
  ASSUME front \in [Tries -> Routes], NEW a \in Tries, NEW label \in {"resolve", "wait", "over"},
         front' = [front EXCEPT ![a].at = label]
  PROVE  /\ front' \in [Tries -> Routes] /\ front'[a].at = label
         /\ front'[a].ok = front[a].ok
         /\ \A b \in Tries : b # a => front'[b] = front[b]
<1>1. [front[a] EXCEPT !.at = label] \in Routes  BY DEF Routes
<1>2. front'[a] = [front[a] EXCEPT !.at = label]  OBVIOUS
<1>3. front' = [front EXCEPT ![a] = [front[a] EXCEPT !.at = label]]  OBVIOUS
<1>4. front'[a].at = label /\ front'[a].ok = front[a].ok  BY <1>2 DEF Routes
<1> QED  BY <1>1, <1>3, <1>4

LEMMA FrontAnswered ==
  ASSUME front \in [Tries -> Routes], NEW a \in Tries, NEW ok \in BOOLEAN,
         front' = [front EXCEPT ![a] = Answered(@, ok)]
  PROVE  /\ front' \in [Tries -> Routes] /\ front'[a].at = "answer" /\ (front'[a].ok <=> ok)
         /\ \A b \in Tries : b # a => front'[b] = front[b]
<1>1. front'[a] = Answered(front[a], ok) /\ front[a] \in Routes  OBVIOUS
<1> QED  BY <1>1, AnsweredAs

LEMMA BackAnswered ==
  ASSUME back \in [Tries -> Routes], NEW a \in Tries, NEW ok \in BOOLEAN,
         back' = [back EXCEPT ![a] = Answered(@, ok)]
  PROVE  /\ back' \in [Tries -> Routes] /\ back'[a].at = "answer" /\ (back'[a].ok <=> ok)
         /\ \A b \in Tries : b # a => back'[b] = back[b]
<1>1. back'[a] = Answered(back[a], ok) /\ back[a] \in Routes  OBVIOUS
<1> QED  BY <1>1, AnsweredAs

OtherTries(a) == \A b \in Tries : b # a => front'[b] = front[b] /\ back'[b] = back[b]

\* At most one attempt is under way.
LEMMA OneOpen ==
  ASSUME RouteInv, NEW a \in Tries, Open(a)
  PROVE  ~acked /\ \A b \in Tries : Open(b) => b = a
<1>1. InTurn /\ \A b \in Tries : b \in Nat  BY RouteAssumption DEF RouteInv
<1> QED  BY <1>1 DEF InTurn, Open

LEMMA TurnKept ==
  ASSUME RouteInv, NEW a \in Tries, Open(a), OtherTries(a), front'[a].at # "none",
         acked' => acked \/ ~Open(a)'
  PROVE  InTurn'
<1>1. ~acked /\ \A b \in Tries : Open(b) => b = a  BY OneOpen
<1>2. InTurn /\ \A b \in Tries : b \in Nat  BY RouteAssumption DEF RouteInv
<1>3. ASSUME NEW b \in Tries, NEW c \in Tries, b < c, front'[c].at # "none"
      PROVE  front'[b].at = "over"
  <2>1. front[c].at # "none"  BY <1>3 DEF OtherTries, Open
  <2>2. front[b].at = "over"  BY <1>2, <1>3, <2>1 DEF InTurn
  <2>3. b # a  BY <2>2 DEF Open
  <2> QED  BY <2>2, <2>3 DEF OtherTries
<1>4. acked' => \A b \in Tries : ~Open(b)'
  BY <1>1 DEF OtherTries, Open
<1> QED  BY <1>3, <1>4 DEF InTurn

\* Only an attempt that is under way carries an answer.
LEMMA ToldOf ==
  ASSUME RouteInv, NEW a \in Tries, Open(a)
  PROVE  /\ Carries(a) => Told = 1
         /\ ~Carries(a) => Told = 0
         /\ OtherTries(a) => (Told' = IF acked' \/ Carries(a)' THEN 1 ELSE 0)
<1>1. ~acked /\ \A b \in Tries : Carries(b) => b = a  BY OneOpen DEF Carries, Open
<1>2. OtherTries(a) => \A b \in Tries : Carries(b)' => b = a
  BY <1>1 DEF OtherTries, Carries
<1> QED  BY <1>1, <1>2 DEF Told

LEMMA ToldBinary == /\ Told \in Nat /\ Told <= 1 /\ (Told = 0 \/ Told = 1)
                    /\ Told' \in Nat /\ Told' <= 1 /\ (Told' = 0 \/ Told' = 1)
BY DEF Told

-----------------------------------------------------------------------------
(* The steps *)

RouteType ==
  /\ leads \in Hosts /\ ready \subseteq Hosts /\ listed \subseteq Hosts
  /\ front \in [Tries -> Routes] /\ back \in [Tries -> Routes]
  /\ acked \in BOOLEAN /\ finished \in Nat
  /\ moves \in 0..MaxMoves /\ losses \in 0..MaxLosses

\* The bound on how often the work was done follows from the count.
LEMMA RouteFrom ==
  ASSUME RouteType', AcknowledgedIsDone', InTurn', CountOK', \A a \in Tries : AttemptOK(a)'
  PROVE  RouteInv'
<1>1. IsFiniteSet(Orphans')  BY RouteAssumption, FS_Subset DEF Orphans
<1>2. Cardinality(Orphans') \in Nat  BY <1>1, FS_CardinalityType
<1>3. finished' \in 0..(MaxLosses + 1)
  BY <1>2, ToldBinary, RouteAssumption DEF RouteType, CountOK
<1> QED  BY <1>3 DEF RouteInv, RouteType, RouteTypeOK

LEMMA RouteTyped == RouteInv => RouteType /\ front \in [Tries -> Routes] /\ back \in [Tries -> Routes]
BY RouteAssumption DEF RouteInv, RouteTypeOK, RouteType

LEMMA RouteCounts ==
  ASSUME RouteInv
  PROVE  /\ finished \in Nat /\ losses \in Nat /\ MaxLosses \in Nat
         /\ Cardinality(Orphans) \in Nat /\ finished + Cardinality(Orphans) <= losses + Told
         /\ acked => finished > 0
<1>1. RouteType /\ CountOK /\ AcknowledgedIsDone  BY RouteTyped DEF RouteInv
<1> QED  BY <1>1, OrphansCount, RouteAssumption DEF RouteType, CountOK, AcknowledgedIsDone

LEMMA CountKept ==
  ASSUME RouteInv, Told = 0 \/ Told' = Told, finished' = finished, losses' = losses,
         Orphans' = Orphans \/ \E a \in Orphans : Orphans' = Orphans \ {a}
  PROVE  CountOK'
<1>1. Cardinality(Orphans') \in Nat /\ Cardinality(Orphans') <= Cardinality(Orphans)
  <2>1. CASE Orphans' = Orphans  BY <2>1, RouteCounts
  <2>2. ASSUME NEW a \in Orphans, Orphans' = Orphans \ {a}
        PROVE  /\ Cardinality(Orphans') \in Nat
               /\ Cardinality(Orphans') <= Cardinality(Orphans)
    <3>1. IsFiniteSet(Orphans') /\ Cardinality(Orphans') = Cardinality(Orphans) - 1
      BY <2>2, OrphansCount, FS_RemoveElement
    <3> QED  BY <3>1, RouteCounts, FS_CardinalityType
  <2> QED  BY <2>1, <2>2
<1>2. Told <= Told'  BY ToldBinary
<1>3. finished + Cardinality(Orphans') <= losses + Told'
  BY <1>1, <1>2, RouteCounts, ToldBinary
<1> QED  BY <1>3 DEF CountOK

LEMMA FinishedCounts ==
  ASSUME finished \in Nat, NEW outcome, outcome = "done" => finished' = finished + 1,
         outcome # "done" => finished' = finished
  PROVE  /\ finished' \in Nat /\ finished' >= finished
         /\ outcome = "done" => finished' > 0
<1>1. CASE outcome = "done"  BY <1>1
<1>2. CASE outcome # "done"
  <2>1. finished' = finished  BY <1>2
  <2>2. finished' \in Nat  BY <2>1
  <2> QED  BY <1>2, <2>1, <2>2
<1> QED  BY <1>1, <1>2

LEMMA DeliverRoute ==
  ASSUME RouteInv, NEW a \in Tries, NEW n \in Hosts, Deliver(a, n)
  PROVE  RouteInv'
<1> USE RouteTyped DEF RouteType
<1> DEFINE q == [node |-> n, at |-> "in", ok |-> FALSE]
<1>1. /\ front' = [front EXCEPT ![a] = q] /\ q \in Routes /\ q.at = "in" /\ q.ok = FALSE
      /\ ~acked /\ front[a].at = "none" /\ \A b \in Tries : b < a => front[b].at = "over"
      /\ UNCHANGED <<leads, ready, listed, moves, back, acked, finished, losses>>
  BY DEF Deliver, Routes, world
<1>2. RouteType'  BY <1>1
<1>3. AcknowledgedIsDone'  BY <1>1 DEF AcknowledgedIsDone
<1>4. OtherTries(a) /\ front'[a] = q  BY <1>1 DEF OtherTries
<1>5. InTurn'
  <2>1. InTurn /\ \A b \in Tries : b \in Nat  BY RouteAssumption DEF RouteInv
  <2> QED  BY <1>1, <1>4, <2>1 DEF InTurn, OtherTries
<1>6. \A b \in Tries : AttemptOK(b)'
  <2> SUFFICES ASSUME NEW b \in Tries PROVE AttemptOK(b)'
    OBVIOUS
  <2>1. AttemptOK(b)  BY DEF RouteInv
  <2> QED  BY <1>1, <1>4, <2>1 DEF AttemptOK, OtherTries
<1>7. CountOK'
  <2>1. AttemptOK(a)  BY DEF RouteInv
  <2>2. Orphans' = Orphans  BY <1>1, <1>4, <2>1 DEF Orphans, AttemptOK, OtherTries
  <2>3. \A b \in Tries : Carries(b) => Carries(b)'  BY <1>1, <1>4 DEF Carries, OtherTries
  <2>4. Told <= Told'  BY <1>1, <2>3 DEF Told
  <2> QED
    BY <1>1, <2>2, <2>4, ToldBinary, OrphansCount, RouteCounts DEF CountOK
<1> QED  BY <1>2, <1>3, <1>5, <1>6, <1>7, RouteFrom

\* The instance that QStash has reached does the work, fails, or is not the leader.
LEMMA HandleFrontRoute ==
  ASSUME RouteInv, NEW a \in Tries, HandleFront(a)
  PROVE  RouteInv'
<1>t. RouteType  BY RouteTyped
<1>1. PICK outcome \in {"done", "failed", "not leader"} :
        /\ front[a].at = "in"
        /\ front' = [front EXCEPT ![a] = IF outcome = "not leader" THEN [@ EXCEPT !.at = "resolve"]
                                         ELSE Answered(@, outcome = "done")]
        /\ finished' = IF outcome = "done" THEN finished + 1 ELSE finished
        /\ UNCHANGED <<leads, ready, listed, moves, back, acked, losses>>
  BY DEF HandleFront, Outcomes, world
<1>2. AttemptOK(a) /\ ~front[a].ok /\ front[a] \in Routes /\ Open(a) /\ ~Carries(a)
  BY <1>t, <1>1 DEF RouteInv, RouteType, AttemptOK, Open, Carries
<1>3. /\ front' \in [Tries -> Routes] /\ OtherTries(a) /\ back' = back
      /\ outcome = "not leader" => front'[a].at = "resolve" /\ ~front'[a].ok
      /\ outcome # "not leader" => front'[a].at = "answer" /\ (front'[a].ok <=> outcome = "done")
  <2>1. CASE outcome = "not leader"
    <3>1. front' = [front EXCEPT ![a].at = "resolve"]  BY <1>1, <2>1
    <3> QED  BY <1>t, <1>1, <1>2, <2>1, <3>1, FrontMoved DEF OtherTries, RouteType
  <2>2. CASE outcome # "not leader"
    <3>1. front' = [front EXCEPT ![a] = Answered(@, outcome = "done")]  BY <1>1, <2>2
    <3>2. (outcome = "done") \in BOOLEAN  OBVIOUS
    <3> QED  BY <1>t, <1>1, <2>2, <3>1, <3>2, FrontAnswered DEF OtherTries, RouteType
  <2> QED  BY <2>1, <2>2
<1>0. /\ finished' \in Nat /\ finished' >= finished /\ (outcome = "done" => finished' = finished + 1)
      /\ outcome # "done" => finished' = finished
      /\ outcome = "done" => finished' > 0
      /\ losses' = losses
  <2>1. outcome = "done" => finished' = finished + 1  BY <1>1
  <2>2. outcome # "done" => finished' = finished  BY <1>1
  <2>3. losses' = losses  BY <1>1
  <2> QED  BY <2>1, <2>2, <2>3, RouteCounts, FinishedCounts
<1>4. RouteType'  BY <1>t, <1>0, <1>1, <1>3 DEF RouteType
<1>5. AcknowledgedIsDone'  BY <1>0, <1>1, RouteCounts DEF AcknowledgedIsDone
<1>6. InTurn'  BY <1>1, <1>2, <1>3, TurnKept
<1>7. \A b \in Tries : AttemptOK(b)'
  <2> SUFFICES ASSUME NEW b \in Tries PROVE AttemptOK(b)'
    OBVIOUS
  <2>1. AttemptOK(b)  BY DEF RouteInv
  <2> QED  BY <1>0, <1>1, <1>2, <1>3, <2>1, RouteCounts DEF AttemptOK, OtherTries
<1>8. CountOK'
  <2>1. Orphans' = Orphans  BY <1>1, <1>2, <1>3 DEF Orphans, AttemptOK, OtherTries
  <2>2. Told = 0 /\ (outcome = "done" => Told' = 1)
    BY <1>2, <1>3, ToldOf DEF Carries
  <2>3. CASE outcome = "done"
    BY <1>0, <2>1, <2>2, <2>3, RouteCounts DEF CountOK
  <2>4. CASE outcome # "done"
    <3>1. finished' = finished /\ losses' = losses  BY <1>0, <2>4
    <3> QED  BY <2>1, <2>2, <3>1, CountKept
  <2> QED  BY <2>3, <2>4
<1> QED  BY <1>4, <1>5, <1>6, <1>7, <1>8, RouteFrom

LEMMA SendOnRoute ==
  ASSUME RouteInv, NEW a \in Tries, SendOn(a)
  PROVE  RouteInv'
<1> USE RouteTyped DEF RouteType
<1> DEFINE q == [node |-> leads, at |-> "in", ok |-> FALSE]
<1>1. /\ front[a].at = "resolve"
      /\ UNCHANGED <<leads, ready, listed, moves, acked, finished, losses>>
  BY DEF SendOn, world
<1>2. /\ AttemptOK(a) /\ ~front[a].ok /\ front[a] \in Routes /\ Open(a) /\ ~Carries(a)
      /\ q \in Routes /\ q.at = "in" /\ q.ok = FALSE
  BY <1>1 DEF RouteInv, AttemptOK, Open, Carries, Routes
<1>3. /\ front' \in [Tries -> Routes] /\ back' \in [Tries -> Routes] /\ OtherTries(a)
      /\ \/ front'[a].at = "wait" /\ ~front'[a].ok /\ back'[a] = q
         \/ front'[a].at = "answer" /\ ~front'[a].ok /\ back'[a] = back[a]
  <2>1. CASE leads \in listed
    <3>1. back' = [back EXCEPT ![a] = q] /\ front' = [front EXCEPT ![a].at = "wait"]
      BY <2>1 DEF SendOn
    <3>2. back' \in [Tries -> Routes] /\ back'[a] = q /\ \A b \in Tries : b # a => back'[b] = back[b]
      BY <1>2, <3>1
    <3> QED  BY <1>2, <3>1, <3>2, FrontMoved DEF OtherTries
  <2>2. CASE leads \notin listed
    <3>1. front' = [front EXCEPT ![a] = Answered(front[a], FALSE)] /\ back' = back
      BY <2>2 DEF SendOn
    <3>2. /\ Answered(front[a], FALSE) \in Routes /\ Answered(front[a], FALSE).at = "answer"
          /\ ~Answered(front[a], FALSE).ok
      BY <1>2 DEF Answered, Routes
    <3> QED  BY <3>1, <3>2 DEF OtherTries
  <2> QED  BY <2>1, <2>2
<1>4. RouteType'  BY <1>1, <1>3
<1>5. AcknowledgedIsDone'  BY <1>1 DEF RouteInv, AcknowledgedIsDone
<1>6. InTurn'  BY <1>1, <1>2, <1>3, TurnKept
<1>7. \A b \in Tries : AttemptOK(b)'
  <2> SUFFICES ASSUME NEW b \in Tries PROVE AttemptOK(b)'
    OBVIOUS
  <2>1. AttemptOK(b)  BY DEF RouteInv
  <2> QED  BY <1>1, <1>2, <1>3, <2>1 DEF AttemptOK, OtherTries
<1>8. CountOK'
  <2>1. Orphans' = Orphans  BY <1>1, <1>2, <1>3 DEF Orphans, AttemptOK, OtherTries
  <2>2. Told = 0  BY <1>2, ToldOf
  <2> QED
    BY <1>1, <2>1, <2>2, ToldBinary, OrphansCount, RouteCounts DEF CountOK
<1> QED  BY <1>4, <1>5, <1>6, <1>7, <1>8, RouteFrom

\* The leader's instance: one whose caller has given up is an orphan no longer.
LEMMA HandleBackRoute ==
  ASSUME RouteInv, NEW a \in Tries, HandleBack(a)
  PROVE  RouteInv'
<1>t. RouteType  BY RouteTyped
<1>1. PICK outcome \in {"done", "failed", "not leader"} :
        /\ back[a].at = "in"
        /\ back' = [back EXCEPT ![a] = Answered(@, outcome = "done")]
        /\ finished' = IF outcome = "done" THEN finished + 1 ELSE finished
        /\ UNCHANGED <<leads, ready, listed, moves, front, acked, losses>>
  BY DEF HandleBack, Outcomes, world
<1>2. AttemptOK(a)  BY DEF RouteInv
<1>3. /\ back' \in [Tries -> Routes] /\ back'[a].at = "answer"
      /\ (back'[a].ok <=> outcome = "done") /\ OtherTries(a) /\ front' = front
  <2>1. (outcome = "done") \in BOOLEAN  OBVIOUS
  <2> QED  BY <1>t, <1>1, <2>1, BackAnswered DEF OtherTries, RouteType
<1>0. /\ finished' \in Nat /\ finished' >= finished /\ (outcome = "done" => finished' = finished + 1)
      /\ outcome # "done" => finished' = finished
      /\ outcome = "done" => finished' > 0
      /\ losses' = losses
  <2>1. outcome = "done" => finished' = finished + 1  BY <1>1
  <2>2. outcome # "done" => finished' = finished  BY <1>1
  <2>3. losses' = losses  BY <1>1
  <2> QED  BY <2>1, <2>2, <2>3, RouteCounts, FinishedCounts
<1>4. RouteType'  BY <1>t, <1>0, <1>1, <1>3 DEF RouteType
<1>5. AcknowledgedIsDone'  BY <1>0, <1>1, RouteCounts DEF AcknowledgedIsDone
<1>6. InTurn'  BY <1>1 DEF RouteInv, InTurn, Open
<1>7. \A b \in Tries : AttemptOK(b)'
  <2> SUFFICES ASSUME NEW b \in Tries PROVE AttemptOK(b)'
    OBVIOUS
  <2>1. AttemptOK(b)  BY DEF RouteInv
  <2> QED  BY <1>0, <1>1, <1>2, <1>3, <2>1, RouteCounts DEF AttemptOK, OtherTries
<1>8. CountOK'
  <2>1. CASE front[a].at = "wait"
    <3>1. Orphans' = Orphans  BY <1>1, <1>3, <2>1 DEF Orphans, OtherTries
    <3>2. Open(a) /\ ~Carries(a) /\ (outcome = "done" => Carries(a)')
      BY <1>1, <1>3, <2>1 DEF Open, Carries
    <3>3. Told = 0 /\ (outcome = "done" => Told' = 1)  BY <1>3, <3>2, ToldOf
    <3>4. CASE outcome = "done"
      BY <1>0, <3>1, <3>3, <3>4, RouteCounts DEF CountOK
    <3>5. CASE outcome # "done"
      <4>1. finished' = finished /\ losses' = losses  BY <1>0, <3>5
      <4> QED  BY <3>1, <3>3, <4>1, CountKept
    <3> QED  BY <3>4, <3>5
  <2>2. CASE front[a].at # "wait"
    <3>1. a \in Orphans /\ Orphans' = Orphans \ {a}
      BY <1>1, <1>3, <2>2 DEF Orphans, OtherTries
    <3>2. \A b \in Tries : Carries(b)' <=> Carries(b)
      BY <1>1, <1>3, <2>2 DEF Carries, OtherTries
    <3>3. Told' = Told  BY <1>1, <3>2 DEF Told
    <3>5. Cardinality(Orphans') = Cardinality(Orphans) - 1
      BY <3>1, OrphansCount
    <3>4. CASE outcome = "done"
      BY <1>0, <3>3, <3>4, <3>5, ToldBinary, RouteCounts DEF CountOK
    <3>6. CASE outcome # "done"
      <4>1. finished' = finished /\ losses' = losses  BY <1>0, <3>6
      <4> QED  BY <3>1, <3>3, <4>1, CountKept
    <3> QED  BY <3>4, <3>6
  <2> QED  BY <2>1, <2>2
<1> QED  BY <1>4, <1>5, <1>6, <1>7, <1>8, RouteFrom

LEMMA RelayRoute ==
  ASSUME RouteInv, NEW a \in Tries, Relay(a)
  PROVE  RouteInv'
<1> USE RouteTyped DEF RouteType
<1>1. /\ front[a].at = "wait" /\ back[a].at = "answer"
      /\ front' = [front EXCEPT ![a] = Answered(@, back[a].ok)]
      /\ UNCHANGED <<leads, ready, listed, moves, back, acked, finished, losses>>
  BY DEF Relay, Relayed, world
<1>2. AttemptOK(a) /\ back[a].ok \in BOOLEAN /\ Open(a)
  BY <1>1 DEF RouteInv, Open, Routes
<1>3. /\ front' \in [Tries -> Routes] /\ front'[a].at = "answer"
      /\ (front'[a].ok <=> back[a].ok) /\ OtherTries(a) /\ back' = back
  BY <1>1, <1>2, FrontAnswered DEF OtherTries
<1>4. RouteType'  BY <1>1, <1>3
<1>5. AcknowledgedIsDone'  BY <1>1 DEF RouteInv, AcknowledgedIsDone
<1>6. InTurn'  BY <1>1, <1>2, <1>3, TurnKept
<1>7. \A b \in Tries : AttemptOK(b)'
  <2> SUFFICES ASSUME NEW b \in Tries PROVE AttemptOK(b)'
    OBVIOUS
  <2>1. AttemptOK(b)  BY DEF RouteInv
  <2> QED  BY <1>1, <1>2, <1>3, <2>1 DEF AttemptOK, OtherTries
<1>8. CountOK'
  <2>1. Orphans' = Orphans  BY <1>1, <1>3 DEF Orphans, OtherTries
  <2>2. Carries(a)' <=> Carries(a)  BY <1>1, <1>3 DEF Carries
  <2>3. Told' = Told  BY <1>1, <1>2, <1>3, <2>2, ToldOf, OneOpen
  <2> QED
    BY <1>1, <2>1, <2>3, ToldBinary, OrphansCount, RouteCounts DEF CountOK
<1> QED  BY <1>4, <1>5, <1>6, <1>7, <1>8, RouteFrom

\* An answer that comes too late, or is lost, counts for the work that was done or may be.
LEMMA LossRoute ==
  ASSUME RouteInv, NEW a \in Tries, ForwardTimesOut(a) \/ AnswerLost(a)
  PROVE  RouteInv'
<1> USE RouteTyped DEF RouteType
<1>1. /\ Open(a) /\ losses < MaxLosses /\ losses' = losses + 1
      /\ UNCHANGED <<leads, ready, listed, moves, back, acked, finished>>
      /\ \/ front[a].at = "wait" /\ front' = [front EXCEPT ![a] = Answered(@, FALSE)]
         \/ front' = [front EXCEPT ![a].at = "over"]
  BY DEF ForwardTimesOut, AnswerLost, Open, world
<1>2. AttemptOK(a) /\ front[a] \in Routes  BY DEF RouteInv
<1>3. /\ front' \in [Tries -> Routes] /\ OtherTries(a) /\ back' = back
      /\ \/ front[a].at = "wait" /\ front'[a].at = "answer" /\ ~front'[a].ok
         \/ front'[a].at = "over" /\ (front'[a].ok <=> front[a].ok)
  <2>1. CASE front' = [front EXCEPT ![a].at = "over"]
    BY <1>1, <2>1, FrontMoved DEF OtherTries
  <2>2. CASE front[a].at = "wait" /\ front' = [front EXCEPT ![a] = Answered(@, FALSE)]
    <3>1. PICK ok \in BOOLEAN : ok = FALSE /\ front' = [front EXCEPT ![a] = Answered(@, ok)]
      BY <2>2
    <3>2. /\ front' \in [Tries -> Routes] /\ front'[a].at = "answer" /\ (front'[a].ok <=> ok)
          /\ \A b \in Tries : b # a => front'[b] = front[b]
      BY <3>1, FrontAnswered
    <3> QED  BY <1>1, <2>2, <3>1, <3>2 DEF OtherTries
  <2> QED  BY <1>1, <2>1, <2>2
<1>4. RouteType'
  <2>1. losses' \in 0..MaxLosses  BY <1>1, RouteTyped, RouteAssumption DEF RouteType
  <2> QED  BY <1>1, <1>3, <2>1
<1>5. AcknowledgedIsDone'  BY <1>1 DEF RouteInv, AcknowledgedIsDone
<1>6. InTurn'  BY <1>1, <1>2, <1>3, TurnKept
<1>7. \A b \in Tries : AttemptOK(b)'
  <2> SUFFICES ASSUME NEW b \in Tries PROVE AttemptOK(b)'
    OBVIOUS
  <2>1. AttemptOK(b)  BY DEF RouteInv
  <2> QED  BY <1>1, <1>2, <1>3, <2>1 DEF AttemptOK, OtherTries, Open
<1>8. CountOK'
  <2>1. CASE back[a].at = "in" /\ front[a].at = "wait"
    <3>1. a \notin Orphans /\ Orphans' = Orphans \cup {a}
      BY <1>1, <1>3, <2>1 DEF Orphans, OtherTries
    <3>2. Told = 0  BY <1>1, <2>1, ToldOf DEF Carries
    <3> QED
      BY <1>1, <3>1, <3>2, ToldBinary, OrphansCount, RouteCounts DEF CountOK
  <2>2. CASE ~(back[a].at = "in" /\ front[a].at = "wait")
    <3>1. Orphans' = Orphans
      BY <1>1, <1>2, <1>3, <2>2 DEF Orphans, OtherTries, AttemptOK, Open
    <3> QED
      BY <1>1, <3>1, ToldBinary, OrphansCount, RouteCounts DEF CountOK
  <2> QED  BY <2>1, <2>2
<1> QED  BY <1>4, <1>5, <1>6, <1>7, <1>8, RouteFrom

LEMMA AcknowledgeRoute ==
  ASSUME RouteInv, NEW a \in Tries, Acknowledge(a)
  PROVE  RouteInv'
<1> USE RouteTyped DEF RouteType
<1>1. /\ front[a].at = "answer" /\ (acked' <=> acked \/ front[a].ok) /\ acked' \in BOOLEAN
      /\ front' = [front EXCEPT ![a].at = "over"]
      /\ UNCHANGED <<leads, ready, listed, moves, back, finished, losses>>
  <2>1. front[a].ok \in BOOLEAN  BY DEF Routes
  <2> QED  BY <2>1 DEF Acknowledge, world
<1>2. AttemptOK(a) /\ front[a] \in Routes /\ Open(a)  BY <1>1 DEF RouteInv, Open
<1>3. /\ front' \in [Tries -> Routes] /\ OtherTries(a) /\ back' = back
      /\ front'[a].at = "over" /\ (front'[a].ok <=> front[a].ok)
  BY <1>1, <1>2, FrontMoved DEF OtherTries
<1>4. RouteType'  BY <1>1, <1>3
<1>5. AcknowledgedIsDone'  BY <1>1, <1>2 DEF RouteInv, AcknowledgedIsDone, AttemptOK
<1>6. InTurn'
  <2>1. ~Open(a)'  BY <1>3 DEF Open
  <2> QED  BY <1>2, <1>3, <2>1, TurnKept
<1>7. \A b \in Tries : AttemptOK(b)'
  <2> SUFFICES ASSUME NEW b \in Tries PROVE AttemptOK(b)'
    OBVIOUS
  <2>1. AttemptOK(b)  BY DEF RouteInv
  <2> QED  BY <1>1, <1>2, <1>3, <2>1 DEF AttemptOK, OtherTries
<1>8. CountOK'
  <2>1. Orphans' = Orphans  BY <1>1, <1>3 DEF Orphans, OtherTries
  <2>2. (Carries(a) <=> front[a].ok) /\ ~Carries(a)'  BY <1>1, <1>3 DEF Carries
  <2>3. Told' = Told  BY <1>1, <1>2, <1>3, <2>2, ToldOf, OneOpen
  <2> QED
    BY <1>1, <2>1, <2>3, ToldBinary, OrphansCount, RouteCounts DEF CountOK
<1> QED  BY <1>4, <1>5, <1>6, <1>7, <1>8, RouteFrom

\* The leader moves, an instance starts or stops.
LEMMA WorldRoute ==
  ASSUME RouteInv, UNCHANGED <<front, back, acked, finished, losses>>, RouteType'
  PROVE  RouteInv'
<1>1. Orphans' = Orphans /\ Told' = Told  BY DEF Orphans, Told, Carries
<1>2. CountOK'  BY <1>1 DEF RouteInv, CountOK
<1> QED  BY <1>2, RouteFrom DEF RouteInv, AcknowledgedIsDone, InTurn, Open, AttemptOK

LEMMA NextRouteInv == RouteInv /\ [RouteNext]_routeVars => RouteInv'
<1> SUFFICES ASSUME RouteInv, [RouteNext]_routeVars PROVE RouteInv'
  OBVIOUS
<1>1. CASE UNCHANGED routeVars
  BY <1>1, RouteTyped, WorldRoute DEF routeVars, RouteType
<1>2. CASE \E n \in Hosts : LeaderMoves(n) \/ InstanceChanges(n)
  <2>1. moves' \in 0..MaxMoves /\ UNCHANGED <<front, back, acked, finished, losses>>
    BY <1>2, RouteTyped, RouteAssumption DEF LeaderMoves, InstanceChanges, Moved, RouteType
  <2>2. leads' \in Hosts /\ ready' \subseteq Hosts /\ listed' \subseteq Hosts
    BY <1>2, RouteTyped DEF LeaderMoves, InstanceChanges, RouteType
  <2> QED  BY <2>1, <2>2, RouteTyped, WorldRoute DEF RouteType
<1> QED
  BY <1>1, <1>2, DeliverRoute, HandleFrontRoute, SendOnRoute, HandleBackRoute, RelayRoute,
     LossRoute, AcknowledgeRoute DEF RouteNext

LEMMA RouteInvSafe == RouteInv => RouteSafe
<1> SUFFICES ASSUME RouteInv PROVE DoneAgainNeedsLoss
  BY DEF RouteInv, RouteSafe
<1> QED
  BY OrphansCount, ToldBinary, RouteTyped, RouteAssumption
     DEF RouteInv, CountOK, DoneAgainNeedsLoss, RouteType

(* WebhookRouter: for any instances, attempts, moves of the leader and losses, a message   *)
(* that QStash takes as delivered was worked off by the leader of that moment, and the     *)
(* work is done at most once more than answers were lost or late.                          *)
THEOREM RouteIsSafe == RouteSpec => []RouteSafe
<1>1. RouteSpec => []RouteInv
  BY InitRouteInv, NextRouteInv, PTL DEF RouteSpec
<1> QED  BY <1>1, RouteInvSafe, PTL

-----------------------------------------------------------------------------
(* ExternalDownload: the inductive invariant *)

\* Before the file is made, its redirects; after its last chunk, its length
DownloadOK(e) ==
  /\ exec[e].at = "dial" => exec[e].pinned = "public"
  /\ exec[e].at \in {"idle", "clear", "look", "dial"} => exec[e].hops <= MaxRedirects
  /\ exec[e].at \in {"rename", "meta", "finish", "done", "stale"} => length[e] = Chunks
  /\ e \in dead => exec[e].at = "dead"

\* Without a death the maker of a part is still at it, or about to remove it.
PartOK ==
  partFile # 0 /\ dead = {} => exec[partFile].at \in {"stream", "rename", "fail"}

\* As long as only the holder of the claim makes and removes files, the part is its own
\* when it has made one; it has renamed it whole, and nobody can replace that.
HolderOK(e) ==
  ~meddled /\ link.lease = e =>
    /\ exec[e].at \in {"look", "dial", "create", "stream", "rename"} => partFile \in {0, e}
    /\ exec[e].at \in {"meta", "finish"} => partFile = 0 /\ localFile = e

DownloadedOK ==
  ~meddled /\ link.status = "downloaded" =>
    /\ link.lease \in Execs /\ exec[link.lease].at = "done"
    /\ localFile = link.lease /\ partFile = 0

LinkRecords ==
  [status : {"queued", "downloading", "downloaded", "failed", "cancelled"},
   lease : Execs \cup {0}, url : BOOLEAN]

LinkInv ==
  /\ ExternalTypeOK /\ link \in LinkRecords /\ DialledIsChecked /\ PartOK /\ DownloadedOK
  /\ \A e \in Execs : DownloadOK(e) /\ HolderOK(e)

Places == Over \cup {"clear", "look", "dial", "create", "stream", "rename", "meta", "finish", "fail"}

ExternalType ==
  /\ link \in LinkRecords /\ exec \in [Execs -> Exec]
  /\ partFile \in Execs \cup {0} /\ localFile \in Execs \cup {0}
  /\ length \in [Execs -> 0..Chunks]
  /\ dialled \subseteq {"public"} /\ dead \subseteq Execs /\ meddled \in BOOLEAN

LEMMA ExternalTyped == LinkInv => ExternalType
BY DEF LinkInv, ExternalTypeOK, DialledIsChecked, ExternalType

LEMMA LinkFrom ==
  ASSUME ExternalType', PartOK', DownloadedOK', \A e \in Execs : DownloadOK(e)' /\ HolderOK(e)'
  PROVE  LinkInv'
<1>1. ExternalTypeOK'  BY DEF ExternalType, ExternalTypeOK, LinkRecords
<1> QED  BY <1>1 DEF LinkInv, ExternalType, DialledIsChecked

LEMMA ExecFields ==
  ASSUME NEW q \in Exec
  PROVE  /\ q = [at |-> q.at, hops |-> q.hops, pinned |-> q.pinned]
         /\ q.at \in Places /\ q.hops \in 0..(MaxRedirects + 1)
         /\ q.pinned \in {"none", "public", "private"}
BY DEF Exec, Places

LEMMA Stepped ==
  ASSUME exec \in [Execs -> Exec], NEW e \in Execs, NEW from, NEW to \in Places,
         Step(e, from, to)
  PROVE  /\ exec' \in [Execs -> Exec] /\ exec[e].at = from /\ exec'[e].at = to
         /\ exec'[e].hops = exec[e].hops /\ exec'[e].pinned = exec[e].pinned
         /\ \A d \in Execs : d # e => exec'[d] = exec[d]
<1>1. exec[e] \in Exec  OBVIOUS
<1>2. [exec[e] EXCEPT !.at = to] \in Exec  BY <1>1 DEF Exec, Places
<1>3. exec' = [exec EXCEPT ![e] = [exec[e] EXCEPT !.at = to]] /\ exec[e].at = from
  BY DEF Step
<1>4. exec'[e] = [exec[e] EXCEPT !.at = to]  BY <1>3
<1>5. /\ [exec[e] EXCEPT !.at = to].at = to
      /\ [exec[e] EXCEPT !.at = to].hops = exec[e].hops
      /\ [exec[e] EXCEPT !.at = to].pinned = exec[e].pinned
  BY <1>1 DEF Exec
<1> QED  BY <1>2, <1>3, <1>4, <1>5

OtherExecs(e) == \A d \in Execs : d # e => exec'[d] = exec[d]

LEMMA InitLinkInv == ExternalInit => LinkInv
<1> SUFFICES ASSUME ExternalInit PROVE LinkInv
  OBVIOUS
<1> USE ExternalAssumption DEF ExternalInit
<1>1. [at |-> "idle", hops |-> 0, pinned |-> "none"] \in Exec  BY DEF Exec, Over
<1>2. link \in LinkRecords  BY DEF LinkRecords
<1>3. exec \in [Execs -> Exec] /\ length \in [Execs -> 0..Chunks]
  <2>1. 0 \in 0..Chunks  OBVIOUS
  <2> QED  BY <1>1, <2>1
<1>7. ExternalType  BY <1>2, <1>3 DEF ExternalType
<1>4. ExternalTypeOK  BY <1>7 DEF ExternalType, ExternalTypeOK, LinkRecords
<1>5. \A e \in Execs : exec[e].at = "idle" /\ exec[e].hops = 0 /\ link.lease # e  OBVIOUS
<1>6. \A e \in Execs : DownloadOK(e) /\ HolderOK(e)
  <2>1. 0 <= MaxRedirects  OBVIOUS
  <2> QED  BY <1>5, <2>1 DEF DownloadOK, HolderOK
<1> QED  BY <1>7, <1>4, <1>6 DEF LinkInv, ExternalType, DialledIsChecked, PartOK, DownloadedOK

-----------------------------------------------------------------------------
(* The steps of an execution before its file is renamed *)

\* Steps between two places before the renaming, which leave the two names alone.
LEMMA WorkKeeps ==
  ASSUME LinkInv, NEW e \in Execs, ExternalType', OtherExecs(e),
         exec[e].at \in {"look", "dial", "create", "stream", "rename"},
         exec'[e].at \in {"look", "dial", "create", "stream", "rename", "fail"},
         exec[e].at \in {"stream", "rename"} => exec'[e].at \in {"stream", "rename", "fail"},
         UNCHANGED <<link, partFile, localFile, dead>>,
         meddled => meddled',
         \A d \in Execs : d # e => length'[d] = length[d],
         DownloadOK(e)'
  PROVE  LinkInv'
<1>1. PartOK /\ DownloadedOK /\ \A d \in Execs : DownloadOK(d) /\ HolderOK(d)  BY DEF LinkInv
<1>2. PartOK'
  <2>1. partFile # 0 => partFile \in Execs  BY ExternalTyped DEF ExternalType
  <2>2. CASE partFile = e  BY <1>1, <2>2 DEF PartOK
  <2>3. CASE partFile # e  BY <1>1, <2>1, <2>3 DEF PartOK, OtherExecs
  <2> QED  BY <2>2, <2>3
<1>3. DownloadedOK'
  <2>1. exec[e].at # "done"  OBVIOUS
  <2> QED  BY <1>1, <2>1 DEF DownloadedOK, OtherExecs
<1>4. \A d \in Execs : DownloadOK(d)'
  BY <1>1 DEF DownloadOK, OtherExecs
<1>5. \A d \in Execs : HolderOK(d)'
  <2> SUFFICES ASSUME NEW d \in Execs PROVE HolderOK(d)'
    OBVIOUS
  <2>1. CASE d = e  BY <1>1, <2>1 DEF HolderOK
  <2>2. CASE d # e  BY <1>1, <2>2 DEF HolderOK, OtherExecs
  <2> QED  BY <2>1, <2>2
<1> QED  BY <1>2, <1>3, <1>4, <1>5, LinkFrom

LEMMA LookUpLink ==
  ASSUME LinkInv, NEW e \in Execs, LookUp(e)
  PROVE  LinkInv'
<1>1. ExternalType /\ DownloadOK(e) /\ exec[e] \in Exec
  BY ExternalTyped DEF LinkInv, ExternalType
<1>2. PICK address \in {"public", "private"} :
        /\ exec[e].at = "look"
        /\ exec' = [exec EXCEPT ![e].pinned = address,
                                ![e].at = IF address = "private" THEN "fail" ELSE "dial"]
        /\ UNCHANGED <<link, partFile, localFile, length, dialled, dead, meddled>>
  BY DEF LookUp, Blocked
<1>3. PICK to \in {"fail", "dial"} : to = IF address = "private" THEN "fail" ELSE "dial"
  OBVIOUS
<1> DEFINE q == [at |-> to, hops |-> exec[e].hops, pinned |-> address]
<1>4. q \in Exec  BY <1>1, ExecFields DEF Exec
<1>5. exec' = [exec EXCEPT ![e] = q]  BY <1>1, <1>2, <1>3 DEF ExternalType, Exec
<1>6. exec' \in [Execs -> Exec] /\ exec'[e] = q /\ OtherExecs(e)
  BY <1>1, <1>4, <1>5 DEF ExternalType, OtherExecs
<1>7. ExternalType'  BY <1>1, <1>2, <1>6 DEF ExternalType
<1>8. DownloadOK(e)'
  BY <1>1, <1>2, <1>3, <1>6 DEF DownloadOK
<1> QED  BY <1>2, <1>3, <1>6, <1>7, <1>8, WorkKeeps

LEMMA RedirectedTo ==
  ASSUME NEW q \in Exec, NEW hops, NEW to
  PROVE  [q EXCEPT !.hops = hops, !.at = to] = [at |-> to, hops |-> hops, pinned |-> q.pinned]
<1>1. [q EXCEPT !.hops = hops] = [at |-> q.at, hops |-> hops, pinned |-> q.pinned]  BY DEF Exec
<1>2. [[at |-> q.at, hops |-> hops, pinned |-> q.pinned] EXCEPT !.at = to]
        = [at |-> to, hops |-> hops, pinned |-> q.pinned]
  OBVIOUS
<1>3. [q EXCEPT !.hops = hops, !.at = to] = [[q EXCEPT !.hops = hops] EXCEPT !.at = to]
  OBVIOUS
<1> QED  BY <1>1, <1>2, <1>3

\* Only what was looked up and found public is dialled.
LEMMA DialLink ==
  ASSUME LinkInv, NEW e \in Execs, Dial(e)
  PROVE  LinkInv'
<1>1. ExternalType /\ DownloadOK(e) /\ exec[e] \in Exec
  BY ExternalTyped DEF LinkInv, ExternalType
<1>2. /\ exec[e].at = "dial" /\ exec[e].pinned = "public" /\ exec[e].hops <= MaxRedirects
      /\ dialled' = dialled \cup {"public"}
      /\ UNCHANGED <<link, partFile, localFile, length, dead, meddled>>
  BY <1>1 DEF Dial, Dials, DownloadOK
<1>3. PICK to \in {"create", "look", "fail"} :
        \E hops \in 0..(MaxRedirects + 1) :
          /\ exec' = [exec EXCEPT ![e] = [at |-> to, hops |-> hops, pinned |-> "public"]]
          /\ to = "look" => hops <= MaxRedirects
  <2>1. exec[e].hops \in Nat /\ exec[e].hops + 1 \in 0..(MaxRedirects + 1)
        /\ exec[e].hops \in 0..(MaxRedirects + 1)
        /\ (exec[e].hops < MaxRedirects => exec[e].hops + 1 <= MaxRedirects)
    BY <1>1, <1>2, ExecFields, ExternalAssumption
  <2>2. CASE exec' = [exec EXCEPT ![e] = [@ EXCEPT !.at = "create"]]
    <3>1. [exec[e] EXCEPT !.at = "create"] = [at |-> "create", hops |-> exec[e].hops, pinned |-> "public"]
      BY <1>1, <1>2 DEF Exec
    <3>2. exec' = [exec EXCEPT ![e] = [at |-> "create", hops |-> exec[e].hops, pinned |-> "public"]]
      BY <2>2, <3>1
    <3> QED  BY <2>1, <3>2
  <2>3. CASE exec' = [exec EXCEPT ![e] = [@ EXCEPT !.at = "fail"]]
    <3>1. [exec[e] EXCEPT !.at = "fail"] = [at |-> "fail", hops |-> exec[e].hops, pinned |-> "public"]
      BY <1>1, <1>2 DEF Exec
    <3>2. exec' = [exec EXCEPT ![e] = [at |-> "fail", hops |-> exec[e].hops, pinned |-> "public"]]
      BY <2>3, <3>1
    <3> QED  BY <2>1, <3>2
  <2>4. ASSUME NEW to \in {"look", "fail"},
               to = IF exec[e].hops < MaxRedirects THEN "look" ELSE "fail",
               exec' = [exec EXCEPT ![e].hops = @ + 1, ![e].at = to]
        PROVE  /\ exec' = [exec EXCEPT ![e] =
                             [at |-> to, hops |-> exec[e].hops + 1, pinned |-> "public"]]
               /\ to = "look" => exec[e].hops + 1 <= MaxRedirects
    <3>1. PICK n : n = exec[e].hops + 1
      OBVIOUS
    <3>2. [exec[e] EXCEPT !.hops = n, !.at = to] = [at |-> to, hops |-> n, pinned |-> exec[e].pinned]
      BY <1>1, RedirectedTo
    <3>3. exec' = [exec EXCEPT ![e] = [exec[e] EXCEPT !.hops = n, !.at = to]]
      BY <1>1, <2>4, <3>1 DEF ExternalType
    <3>4. exec' = [exec EXCEPT ![e] = [at |-> to, hops |-> n, pinned |-> "public"]]
      BY <1>2, <3>2, <3>3
    <3> QED  BY <2>1, <2>4, <3>1, <3>4
  <2>5. \/ exec' = [exec EXCEPT ![e] = [@ EXCEPT !.at = "create"]]
        \/ exec' = [exec EXCEPT ![e] = [@ EXCEPT !.at = "fail"]]
        \/ \E to \in {"look", "fail"} :
             /\ to = IF exec[e].hops < MaxRedirects THEN "look" ELSE "fail"
             /\ exec' = [exec EXCEPT ![e].hops = @ + 1, ![e].at = to]
    BY DEF Dial
  <2> QED  BY <2>1, <2>2, <2>3, <2>4, <2>5
<1>4. PICK hops \in 0..(MaxRedirects + 1) :
        /\ exec' = [exec EXCEPT ![e] = [at |-> to, hops |-> hops, pinned |-> "public"]]
        /\ to = "look" => hops <= MaxRedirects
  BY <1>3
<1> DEFINE q == [at |-> to, hops |-> hops, pinned |-> "public"]
<1>5. q \in Exec  BY <1>4 DEF Exec
<1>6. exec' \in [Execs -> Exec] /\ exec'[e] = q /\ OtherExecs(e)
  BY <1>1, <1>4, <1>5 DEF ExternalType, OtherExecs
<1>7. ExternalType'  BY <1>1, <1>2, <1>6 DEF ExternalType
<1>8. DownloadOK(e)'  BY <1>1, <1>2, <1>4, <1>6 DEF DownloadOK
<1> QED  BY <1>2, <1>3, <1>6, <1>7, <1>8, WorkKeeps

LEMMA StreamLink ==
  ASSUME LinkInv, NEW e \in Execs, Stream(e) \/ StreamFails(e)
  PROVE  LinkInv'
<1>1. ExternalType /\ length[e] \in 0..Chunks /\ DownloadOK(e)
  BY ExternalTyped DEF LinkInv, ExternalType
<1>2. PICK to \in {"rename", "stream", "fail"} : Step(e, "stream", to)
  BY DEF Stream, StreamFails
<1>3. /\ exec' \in [Execs -> Exec] /\ exec[e].at = "stream" /\ exec'[e].at = to
      /\ OtherExecs(e)
  <2>1. to \in Places  BY DEF Places
  <2> QED  BY <1>1, <1>2, <2>1, Stepped DEF ExternalType, OtherExecs
<1>4. UNCHANGED <<link, partFile, localFile, dialled, dead, meddled>>
  BY DEF Stream, StreamFails
<1>5. /\ length' \in [Execs -> 0..Chunks] /\ \A d \in Execs : d # e => length'[d] = length[d]
      /\ exec'[e].at = "rename" => length'[e] = Chunks
  <2>1. CASE StreamFails(e)
    <3>1. Step(e, "stream", "fail") /\ length' = length  BY <2>1 DEF StreamFails
    <3>2. exec'[e].at = "fail"  BY <1>1, <3>1, Stepped DEF Places, ExternalType
    <3> QED  BY <1>1, <3>1, <3>2 DEF ExternalType
  <2>2. CASE Stream(e)
    <3>1. length[e] < Chunks /\ length' = [length EXCEPT ![e] = @ + 1]  BY <2>2 DEF Stream
    <3>2. length[e] + 1 \in 0..Chunks  BY <1>1, <3>1, ExternalAssumption
    <3>3. /\ length' \in [Execs -> 0..Chunks] /\ length'[e] = length[e] + 1
          /\ \A d \in Execs : d # e => length'[d] = length[d]
      BY <1>1, <3>1, <3>2 DEF ExternalType
    <3>4. PICK next \in {"rename", "stream"} :
            Step(e, "stream", next) /\ (next = "rename" => length[e] + 1 = Chunks)
      BY <2>2 DEF Stream
    <3>5. exec'[e].at = next
      BY <1>1, <3>4, Stepped DEF Places, ExternalType
    <3> QED  BY <3>3, <3>4, <3>5
  <2> QED  BY <2>1, <2>2
<1>6. ExternalType'  BY <1>1, <1>3, <1>4, <1>5 DEF ExternalType
<1>7. DownloadOK(e)'  BY <1>1, <1>3, <1>4, <1>5 DEF DownloadOK
<1> QED  BY <1>3, <1>4, <1>5, <1>6, <1>7, WorkKeeps

LEMMA CreatePartLink ==
  ASSUME LinkInv, NEW e \in Execs, CreatePart(e)
  PROVE  LinkInv'
<1>1. ExternalType /\ e # 0 /\ \A d \in Execs : DownloadOK(d) /\ HolderOK(d)
  BY ExternalTyped, ExternalAssumption DEF LinkInv
<1>2. PICK to \in {"stream", "fail"} : Step(e, "create", to)
  BY DEF CreatePart
<1>3. /\ exec' \in [Execs -> Exec] /\ exec[e].at = "create" /\ exec'[e].at = to
      /\ OtherExecs(e)
  <2>1. to \in Places  BY DEF Places
  <2> QED  BY <1>1, <1>2, <2>1, Stepped DEF ExternalType, OtherExecs
<1>4. UNCHANGED <<link, localFile, dialled, dead>>  BY DEF CreatePart
<1>5. DownloadOK(e)'  BY <1>1, <1>3, <1>4 DEF DownloadOK
<1>6. CASE partFile # 0
  <2>1. UNCHANGED <<partFile, length, meddled>>  BY <1>6 DEF CreatePart
  <2>2. ExternalType'  BY <1>1, <1>3, <1>4, <2>1 DEF ExternalType
  <2> QED  BY <1>3, <1>4, <1>5, <2>1, <2>2, WorkKeeps
<1>7. CASE partFile = 0
  <2>1. /\ to = "stream" /\ partFile' = e /\ length' = [length EXCEPT ![e] = 0]
        /\ (meddled' <=> meddled \/ link.lease # e) /\ meddled' \in BOOLEAN
    <3>1. Step(e, "create", "stream")  BY <1>7 DEF CreatePart
    <3>2. exec'[e].at = "stream"  BY <1>1, <3>1, Stepped DEF Places, ExternalType
    <3> QED  BY <1>1, <1>3, <1>7, <3>2 DEF CreatePart, Meddles, ExternalType
  <2>2. length' \in [Execs -> 0..Chunks] /\ \A d \in Execs : d # e => length'[d] = length[d]
    <3>1. 0 \in 0..Chunks  BY ExternalAssumption
    <3> QED  BY <1>1, <2>1, <3>1 DEF ExternalType
  <2>3. ExternalType'  BY <1>1, <1>3, <1>4, <2>1, <2>2 DEF ExternalType
  <2>4. PartOK'  BY <1>3, <2>1 DEF PartOK
  <2>5. DownloadedOK'
    <3>1. DownloadedOK  BY DEF LinkInv
    <3> QED  BY <1>3, <1>4, <2>1, <3>1 DEF DownloadedOK
  <2>6. \A d \in Execs : DownloadOK(d)'  BY <1>1, <1>3, <1>4, <1>5, <2>2 DEF DownloadOK, OtherExecs
  <2>7. \A d \in Execs : HolderOK(d)'  BY <1>3, <1>4, <2>1 DEF HolderOK
  <2> QED  BY <2>3, <2>4, <2>5, <2>6, <2>7, LinkFrom
<1> QED  BY <1>6, <1>7

-----------------------------------------------------------------------------
(* The other steps *)

\* What has its name from the file of the holder of the claim is that file.
LEMMA RenamePartLink ==
  ASSUME LinkInv, NEW e \in Execs, RenamePart(e)
  PROVE  LinkInv'
<1>1. /\ ExternalType /\ DownloadedOK /\ PartOK
      /\ \A d \in Execs : DownloadOK(d) /\ HolderOK(d)
  BY ExternalTyped DEF LinkInv
<1>2. PICK to \in {"meta", "fail"} : Step(e, "rename", to)
  BY DEF RenamePart
<1>3. /\ exec' \in [Execs -> Exec] /\ exec[e].at = "rename" /\ exec'[e].at = to
      /\ OtherExecs(e)
  <2>1. to \in Places  BY DEF Places
  <2> QED  BY <1>1, <1>2, <2>1, Stepped DEF ExternalType, OtherExecs
<1>4. UNCHANGED <<link, length, dialled, dead, meddled>>  BY DEF RenamePart
<1>5. DownloadOK(e)'  BY <1>1, <1>3, <1>4 DEF DownloadOK
<1>6. CASE partFile = 0
  <2>1. UNCHANGED <<partFile, localFile>> /\ Step(e, "rename", "fail")
    BY <1>6 DEF RenamePart
  <2>2. exec'[e].at = "fail"  BY <1>1, <2>1, Stepped DEF Places, ExternalType
  <2>3. ExternalType'  BY <1>1, <1>3, <1>4, <2>1 DEF ExternalType
  <2> QED  BY <1>3, <1>4, <1>5, <2>1, <2>2, <2>3, WorkKeeps
<1>7. CASE partFile # 0
  <2>1. localFile' = partFile /\ partFile' = 0  BY <1>7 DEF RenamePart
  <2>2. ExternalType'  BY <1>1, <1>3, <1>4, <2>1 DEF ExternalType
  <2>3. PartOK'  BY <2>1 DEF PartOK
  <2>4. DownloadedOK'  BY <1>1, <1>4, <1>7 DEF DownloadedOK
  <2>5. \A d \in Execs : DownloadOK(d)'  BY <1>1, <1>3, <1>4, <1>5 DEF DownloadOK, OtherExecs
  <2>6. \A d \in Execs : HolderOK(d)'
    <3> SUFFICES ASSUME NEW d \in Execs PROVE HolderOK(d)'
      OBVIOUS
    <3>1. CASE d = e  BY <1>1, <1>3, <1>4, <1>7, <2>1, <3>1 DEF HolderOK
    <3>2. CASE d # e  BY <1>1, <1>3, <1>4, <1>7, <2>1, <3>2 DEF HolderOK, OtherExecs
    <3> QED  BY <3>1, <3>2
  <2> QED  BY <2>2, <2>3, <2>4, <2>5, <2>6, LinkFrom
<1> QED  BY <1>6, <1>7

LEMMA ClearPartLink ==
  ASSUME LinkInv, NEW e \in Execs, ClearPart(e)
  PROVE  LinkInv'
<1>1. ExternalType /\ DownloadedOK /\ \A d \in Execs : DownloadOK(d) /\ HolderOK(d)
  BY ExternalTyped DEF LinkInv
<1>2. /\ exec' \in [Execs -> Exec] /\ exec[e].at = "clear" /\ exec'[e].at = "look"
      /\ exec'[e].hops = exec[e].hops /\ OtherExecs(e)
  <2>1. Step(e, "clear", "look") /\ "look" \in Places  BY DEF ClearPart, Places
  <2> QED  BY <1>1, <2>1, Stepped DEF ExternalType, OtherExecs
<1>3. /\ UNCHANGED <<link, localFile, length, dialled, dead>> /\ partFile' = 0
      /\ (meddled' <=> meddled \/ link.lease # e) /\ meddled' \in BOOLEAN
  BY <1>1 DEF ClearPart, Meddles, ExternalType
<1>4. ExternalType'  BY <1>1, <1>2, <1>3 DEF ExternalType
<1>5. PartOK'  BY <1>3 DEF PartOK
<1>6. DownloadedOK'  BY <1>1, <1>2, <1>3 DEF DownloadedOK
<1>7. \A d \in Execs : DownloadOK(d)'  BY <1>1, <1>2, <1>3 DEF DownloadOK, OtherExecs
<1>8. \A d \in Execs : HolderOK(d)'  BY <1>2, <1>3 DEF HolderOK
<1> QED  BY <1>4, <1>5, <1>6, <1>7, <1>8, LinkFrom

LEMMA ClaimLinkLink ==
  ASSUME LinkInv, NEW e \in Execs, ClaimLink(e)
  PROVE  LinkInv'
<1>1. ExternalType /\ PartOK /\ \A d \in Execs : DownloadOK(d) /\ HolderOK(d)
  BY ExternalTyped DEF LinkInv
<1>2. PICK to \in {"clear", "fail"} : Step(e, "idle", to)
  BY DEF ClaimLink
<1>3. /\ exec' \in [Execs -> Exec] /\ exec[e].at = "idle" /\ exec'[e].at = to
      /\ exec'[e].hops = exec[e].hops /\ OtherExecs(e)
  <2>1. to \in Places  BY DEF Places
  <2> QED  BY <1>1, <1>2, <2>1, Stepped DEF ExternalType, OtherExecs
<1>4. /\ UNCHANGED <<partFile, localFile, length, dialled, dead, meddled>>
      /\ link' = [link EXCEPT !.status = "downloading", !.lease = e]
  BY DEF ClaimLink
<1>5. link' \in LinkRecords /\ link'.status = "downloading" /\ link'.lease = e
  BY <1>1, <1>4 DEF LinkRecords, ExternalType
<1>6. ExternalType'  BY <1>1, <1>3, <1>4, <1>5 DEF ExternalType
<1>7. PartOK'
  <2>1. partFile # 0 => partFile \in Execs  BY <1>1 DEF ExternalType
  <2> QED  BY <1>1, <1>3, <1>4, <2>1 DEF PartOK, OtherExecs
<1>8. DownloadedOK'  BY <1>5 DEF DownloadedOK
<1>9. \A d \in Execs : DownloadOK(d)'  BY <1>1, <1>3, <1>4 DEF DownloadOK, OtherExecs
<1>10. \A d \in Execs : HolderOK(d)'  BY <1>3, <1>5 DEF HolderOK
<1> QED  BY <1>6, <1>7, <1>8, <1>9, <1>10, LinkFrom

LEMMA GiveUpLinkLink ==
  ASSUME LinkInv, NEW e \in Execs, GiveUpLink(e)
  PROVE  LinkInv'
<1>1. ExternalType /\ PartOK /\ DownloadedOK /\ \A d \in Execs : DownloadOK(d) /\ HolderOK(d)
  BY ExternalTyped DEF LinkInv
<1>2. /\ exec' \in [Execs -> Exec] /\ exec[e].at = "meta" /\ exec'[e].at = "finish"
      /\ OtherExecs(e)
  <2>1. Step(e, "meta", "finish") /\ "finish" \in Places  BY DEF GiveUpLink, Places
  <2> QED  BY <1>1, <2>1, Stepped DEF ExternalType, OtherExecs
<1>3. /\ UNCHANGED <<partFile, localFile, length, dialled, dead, meddled>>
      /\ link' \in LinkRecords /\ link'.status = link.status /\ link'.lease = link.lease
  BY <1>1 DEF GiveUpLink, LinkRecords, ExternalType
<1>4. ExternalType'  BY <1>1, <1>2, <1>3 DEF ExternalType
<1>5. PartOK'
  <2>1. partFile # 0 => partFile \in Execs  BY <1>1 DEF ExternalType
  <2> QED  BY <1>1, <1>2, <1>3, <2>1 DEF PartOK, OtherExecs
<1>6. DownloadedOK'  BY <1>1, <1>2, <1>3 DEF DownloadedOK, OtherExecs
<1>7. \A d \in Execs : DownloadOK(d)'  BY <1>1, <1>2, <1>3 DEF DownloadOK, OtherExecs
<1>8. \A d \in Execs : HolderOK(d)'  BY <1>1, <1>2, <1>3 DEF HolderOK, OtherExecs
<1> QED  BY <1>4, <1>5, <1>6, <1>7, <1>8, LinkFrom

\* Only the holder of the claim hands its file on.
LEMMA HandOnLink ==
  ASSUME LinkInv, NEW e \in Execs, HandOn(e)
  PROVE  LinkInv'
<1>1. ExternalType /\ PartOK /\ DownloadedOK /\ \A d \in Execs : DownloadOK(d) /\ HolderOK(d)
  BY ExternalTyped DEF LinkInv
<1>2. PICK to \in {"done", "stale"} :
        /\ Step(e, "finish", to)
        /\ to = "done" <=> Finishes(e)
  BY DEF HandOn
<1>3. /\ exec' \in [Execs -> Exec] /\ exec[e].at = "finish" /\ exec'[e].at = to
      /\ OtherExecs(e)
  <2>1. to \in Places  BY DEF Places, Over
  <2> QED  BY <1>1, <1>2, <2>1, Stepped DEF ExternalType, OtherExecs
<1>4. UNCHANGED <<partFile, localFile, length, dialled, dead, meddled>>
  BY DEF HandOn
<1>5. /\ link' \in LinkRecords /\ link'.lease = link.lease
      /\ Finishes(e) => link'.status = "downloaded"
      /\ ~Finishes(e) => link'.status = link.status
  BY <1>1 DEF HandOn, LinkRecords, ExternalType
<1>6. ExternalType'  BY <1>1, <1>3, <1>4, <1>5 DEF ExternalType
<1>7. PartOK'
  <2>1. partFile # 0 => partFile \in Execs  BY <1>1 DEF ExternalType
  <2> QED  BY <1>1, <1>3, <1>4, <2>1 DEF PartOK, OtherExecs
<1>8. DownloadedOK'
  <2>1. CASE Finishes(e)
    <3>1. link.lease = e /\ to = "done"  BY <1>2, <2>1 DEF Finishes
    <3> QED  BY <1>1, <1>3, <1>4, <1>5, <3>1 DEF DownloadedOK, HolderOK
  <2>2. CASE ~Finishes(e)
    BY <1>1, <1>3, <1>4, <1>5, <2>2 DEF DownloadedOK, OtherExecs
  <2> QED  BY <2>1, <2>2
<1>9. \A d \in Execs : DownloadOK(d)'  BY <1>1, <1>3, <1>4 DEF DownloadOK, OtherExecs
<1>10. \A d \in Execs : HolderOK(d)'  BY <1>1, <1>3, <1>4, <1>5 DEF HolderOK, OtherExecs
<1> QED  BY <1>6, <1>7, <1>8, <1>9, <1>10, LinkFrom

LEMMA FailLink ==
  ASSUME LinkInv, NEW e \in Execs, Fail(e)
  PROVE  LinkInv'
<1>1. ExternalType /\ DownloadedOK /\ \A d \in Execs : DownloadOK(d) /\ HolderOK(d)
  BY ExternalTyped DEF LinkInv
<1>2. /\ exec' \in [Execs -> Exec] /\ exec[e].at = "fail" /\ exec'[e].at = "failed"
      /\ OtherExecs(e)
  <2>1. Step(e, "fail", "failed") /\ "failed" \in Places  BY DEF Fail, Places, Over
  <2> QED  BY <1>1, <2>1, Stepped DEF ExternalType, OtherExecs
<1>3. /\ UNCHANGED <<localFile, length, dialled, dead>> /\ partFile' = 0
      /\ (meddled' <=> meddled \/ link.lease # e) /\ meddled' \in BOOLEAN
  BY <1>1 DEF Fail, PartAfterFailure, Meddles, ExternalType
<1>4. /\ link' \in LinkRecords /\ link'.lease = link.lease
      /\ link'.status = "downloaded" => link.status = "downloaded"
  <2>1. AfterFailure(e) \in {"failed", link.status}  BY DEF AfterFailure
  <2>2. link' = [status |-> AfterFailure(e), lease |-> link.lease, url |-> FALSE]
    BY DEF Fail
  <2>3. link.status \in {"queued", "downloading", "downloaded", "failed", "cancelled"}
        /\ link.lease \in Execs \cup {0}
    BY <1>1 DEF ExternalType, LinkRecords
  <2> QED  BY <2>1, <2>2, <2>3 DEF LinkRecords
<1>5. ExternalType'  BY <1>1, <1>2, <1>3, <1>4 DEF ExternalType
<1>6. PartOK'  BY <1>3 DEF PartOK
<1>7. DownloadedOK'  BY <1>1, <1>2, <1>3, <1>4 DEF DownloadedOK
<1>8. \A d \in Execs : DownloadOK(d)'  BY <1>1, <1>2, <1>3 DEF DownloadOK, OtherExecs
<1>9. \A d \in Execs : HolderOK(d)'  BY <1>2, <1>3, <1>4 DEF HolderOK
<1> QED  BY <1>5, <1>6, <1>7, <1>8, <1>9, LinkFrom

LEMMA CancelLinkLink ==
  ASSUME LinkInv, CancelLink
  PROVE  LinkInv'
<1>1. ExternalType /\ PartOK /\ \A d \in Execs : DownloadOK(d) /\ d # 0
  BY ExternalTyped, ExternalAssumption DEF LinkInv
<1>2. /\ UNCHANGED <<exec, partFile, localFile, length, dialled, dead, meddled>>
      /\ link' = [link EXCEPT !.status = "cancelled", !.lease = 0]
  BY DEF CancelLink
<1>3. link' \in LinkRecords /\ link'.status = "cancelled" /\ link'.lease = 0
  BY <1>1, <1>2 DEF LinkRecords, ExternalType
<1>4. ExternalType'  BY <1>1, <1>2, <1>3 DEF ExternalType
<1>5. PartOK' /\ DownloadedOK'  BY <1>1, <1>2, <1>3 DEF PartOK, DownloadedOK
<1>6. \A d \in Execs : DownloadOK(d)' /\ HolderOK(d)'
  BY <1>1, <1>2, <1>3 DEF DownloadOK, HolderOK
<1> QED  BY <1>4, <1>5, <1>6, LinkFrom

\* A death takes every execution that is under way, and leaves what it has written.
LEMMA ProcessDiesLink ==
  ASSUME LinkInv, ProcessDies
  PROVE  LinkInv'
<1>1. ExternalType /\ DownloadedOK /\ \A d \in Execs : DownloadOK(d) /\ HolderOK(d)
  BY ExternalTyped DEF LinkInv
<1>2. /\ dead' # {} /\ dead' \subseteq Execs
      /\ dead' = dead \cup {d \in Execs : exec[d].at \notin Over}
      /\ \A d \in Execs : exec[d].at \notin Over => d \in dead'
      /\ exec' = [d \in Execs |-> IF d \in dead' THEN [exec[d] EXCEPT !.at = "dead"] ELSE exec[d]]
      /\ UNCHANGED <<partFile, localFile, length, dialled, meddled>>
  BY <1>1 DEF ProcessDies, ExternalType
<1>3. \A d \in Execs : /\ [exec[d] EXCEPT !.at = "dead"] \in Exec
                       /\ [exec[d] EXCEPT !.at = "dead"].at = "dead"
  <2> TAKE d \in Execs
  <2>1. exec[d] \in Exec  BY <1>1 DEF ExternalType
  <2> QED  BY <2>1 DEF Exec, Over
<1>4. /\ exec' \in [Execs -> Exec]
      /\ \A d \in Execs : \/ d \in dead' /\ exec'[d].at = "dead"
                          \/ d \notin dead' /\ exec'[d] = exec[d] /\ exec[d].at \in Over
  <2>1. \A d \in Execs : d \in dead' => exec'[d] = [exec[d] EXCEPT !.at = "dead"]  BY <1>2
  <2>2. \A d \in Execs : d \notin dead' => exec'[d] = exec[d]  BY <1>2
  <2>3. \A d \in Execs : exec'[d] \in Exec  BY ZenonT(30), <1>1, <1>3, <2>1, <2>2 DEF ExternalType
  <2> QED  BY <1>2, <1>3, <2>1, <2>2, <2>3
<1>5. /\ link' \in LinkRecords /\ link'.lease = link.lease
      /\ link'.status = "downloaded" => link.status = "downloaded"
  BY <1>1 DEF ProcessDies, LinkRecords, ExternalType
<1>6. ExternalType'  BY <1>1, <1>2, <1>4, <1>5 DEF ExternalType
<1>7. PartOK'  BY <1>2 DEF PartOK
<1>9. \A d \in Execs : DownloadOK(d)'  BY <1>1, <1>2, <1>4 DEF DownloadOK
<1>10. \A d \in Execs : HolderOK(d)'  BY <1>4 DEF HolderOK, Over
<1>8. DownloadedOK'
  <2>1. \A d \in Execs : exec[d].at = "done" => exec'[d].at = "done"
    BY <1>1, <1>2, <1>4 DEF DownloadOK, Over
  <2> QED  BY <1>1, <1>2, <1>5, <2>1 DEF DownloadedOK
<1> QED  BY <1>6, <1>7, <1>8, <1>9, <1>10, LinkFrom

LEMMA NextLinkInv == LinkInv /\ [ExternalNext]_externalVars => LinkInv'
<1> SUFFICES ASSUME LinkInv, [ExternalNext]_externalVars PROVE LinkInv'
  OBVIOUS
<1>1. CASE UNCHANGED externalVars
  BY <1>1 DEF externalVars, LinkInv, ExternalTypeOK, LinkRecords, DialledIsChecked, PartOK,
              DownloadedOK, DownloadOK, HolderOK
<1> QED
  BY <1>1, ClaimLinkLink, ClearPartLink, LookUpLink, DialLink, CreatePartLink, StreamLink,
     RenamePartLink, GiveUpLinkLink, HandOnLink, FailLink, CancelLinkLink, ProcessDiesLink
     DEF ExternalNext

LEMMA LinkInvSafe == LinkInv => LinkSafe
<1> SUFFICES ASSUME LinkInv PROVE HandedOnIsWhole /\ NoPartLeft
  BY DEF LinkInv, LinkSafe
<1>1. \A e \in Execs : DownloadOK(e) /\ e # 0  BY ExternalAssumption DEF LinkInv
<1>2. HandedOnIsWhole
  BY <1>1 DEF LinkInv, DownloadedOK, DownloadOK, HandedOnIsWhole
<1>3. NoPartLeft
  <2>1. partFile # 0 => partFile \in Execs  BY ExternalTyped DEF ExternalType
  <2> QED  BY <2>1 DEF LinkInv, PartOK, NoPartLeft, Over
<1> QED  BY <1>2, <1>3

(* TaskManager.external-download: for any executions, chunks and number of redirects, only *)
(* an address that was found public is dialled, what is handed on is a whole file as long  *)
(* as nobody else has removed or made it, and without a death nothing is left behind.      *)
THEOREM LinkIsSafe == ExternalSpec => []LinkSafe
<1>1. ExternalSpec => []LinkInv
  BY InitLinkInv, NextLinkInv, PTL DEF ExternalSpec
<1> QED  BY <1>1, LinkInvSafe, PTL
-----------------------------------------------------------------------------
(* TaskGroup: the inductive invariant *)

\* The rows are there all or none, and whatever was read of them or is to be done to
\* them by a press or a scan is of all of them.
AllOrNone ==
  /\ Existing \in {{}, Tasks}
  /\ adder.at = "create" => Existing = {}
  /\ adder.at \in {"publish", "mark", "done"} => Existing = Tasks
  /\ listing \in {NoListing, {}, Tasks} /\ (listing = Tasks => Existing = Tasks)

\* What a press has listed and done so far
PressOK(p) ==
  /\ press[p].list \in {{}, Tasks} /\ (press[p].list = Tasks => Existing = Tasks)
  /\ press[p].at = "cancel" => press[p].list = Tasks
  /\ press[p].at = "yes" => press[p].done # {} /\ press[p].done \cup press[p].left = Tasks
  /\ \A t \in press[p].done : row[t] = "cancelled"

ScanOK == scan.read \cup scan.reset # {} => Existing = Tasks

PressRecords ==
  [at : {"idle", "cancel", "yes", "no"}, list : SUBSET Tasks, done : SUBSET Tasks, left : SUBSET Tasks]

RowStatuses == {"none", "queued", "running"} \cup Ended

GroupInv ==
  /\ GroupTypeOK /\ RefusedIsEnded /\ AllOrNone /\ ScanOK
  /\ press \in [Presses -> PressRecords]
  /\ adder \in [at : {"create", "publish", "mark", "done", "failed"}, next : Tasks]
  /\ scan \in [read : SUBSET Tasks, reset : SUBSET Tasks]
  /\ \A p \in Presses : PressOK(p)

GroupType ==
  /\ row \in [Tasks -> RowStatuses] /\ sent \subseteq Tasks
  /\ adder \in [at : {"create", "publish", "mark", "done", "failed"}, next : Tasks]
  /\ press \in [Presses -> PressRecords]
  /\ scan \in [read : SUBSET Tasks, reset : SUBSET Tasks]
  /\ scans \in 0..MaxScans /\ faults \in 0..MaxErrors
  /\ unanswered \in BOOLEAN /\ unmarked \subseteq Tasks

LEMMA GroupTyped == GroupInv => GroupType
BY DEF GroupInv, GroupTypeOK, GroupType, RowStatuses

LEMMA GroupFrom ==
  ASSUME GroupType, AllOrNone, ScanOK, RefusedIsEnded, \A p \in Presses : PressOK(p)
  PROVE  GroupInv
<1>1. listing \in {NoListing} \cup SUBSET Tasks  BY DEF AllOrNone
<1>2. \A p \in Presses : press[p] \in PressRecords  BY DEF GroupType
<1>3. \A p \in Presses : /\ press[p].at \in {"idle", "cancel", "yes", "no"}
                         /\ press[p].list \subseteq Tasks
                         /\ press[p].done \subseteq Tasks /\ press[p].left \subseteq Tasks
  BY <1>2 DEF PressRecords
<1>4. GroupTypeOK  BY <1>1, <1>3 DEF GroupType, GroupTypeOK, RowStatuses
<1> QED  BY <1>4 DEF GroupInv, GroupType

LEMMA GroupAfter ==
  ASSUME GroupType', AllOrNone', ScanOK', RefusedIsEnded', \A p \in Presses : PressOK(p)'
  PROVE  GroupInv'
<1>1. listing' \in {NoListing} \cup SUBSET Tasks  BY DEF AllOrNone
<1>2. \A p \in Presses : press'[p] \in PressRecords  BY DEF GroupType
<1>3. \A p \in Presses : /\ press'[p].at \in {"idle", "cancel", "yes", "no"}
                         /\ press'[p].list \subseteq Tasks
                         /\ press'[p].done \subseteq Tasks /\ press'[p].left \subseteq Tasks
  BY <1>2 DEF PressRecords
<1>4. GroupTypeOK'  BY <1>1, <1>3 DEF GroupType, GroupTypeOK, RowStatuses
<1> QED  BY <1>4 DEF GroupInv, GroupType

LEMMA TasksAreNumbered ==
  /\ Tasks # {} /\ Cardinality(Tasks) \in Nat /\ 1 \in Tasks
  /\ \A n \in Tasks : n \in Nat /\ (n # Cardinality(Tasks) => n + 1 \in Tasks)
  /\ NoListing # {} /\ NoListing # Tasks
<1>1. Cardinality(Tasks) \in Nat  BY GroupAssumption, FS_CardinalityType
<1>2. Tasks = 1..Cardinality(Tasks) /\ Tasks # {}  BY GroupAssumption
<1> QED  BY <1>1, <1>2 DEF NoListing

LEMMA InitGroupInv == GroupInit => GroupInv
<1> SUFFICES ASSUME GroupInit PROVE GroupInv
  OBVIOUS
<1> USE GroupAssumption, TasksAreNumbered DEF GroupInit
<1>1. Idle \in PressRecords  BY DEF Idle, PressRecords
<1>2. row \in [Tasks -> RowStatuses]  BY DEF RowStatuses
<1>3. GroupType
  <2>1. press \in [Presses -> PressRecords]  BY <1>1
  <2>2. 0 \in 0..MaxScans /\ 0 \in 0..MaxErrors  OBVIOUS
  <2>3. adder \in [at : {"create", "publish", "mark", "done", "failed"}, next : Tasks]  OBVIOUS
  <2>4. scan \in [read : SUBSET Tasks, reset : SUBSET Tasks]  OBVIOUS
  <2> QED  BY <1>2, <2>1, <2>2, <2>3, <2>4 DEF GroupType
<1>4. Existing = {}  BY DEF Existing
<1>5. AllOrNone /\ ScanOK /\ RefusedIsEnded  BY <1>4 DEF AllOrNone, ScanOK, RefusedIsEnded
<1>6. \A p \in Presses : PressOK(p)  BY <1>1 DEF PressOK, Idle
<1> QED  BY <1>3, <1>5, <1>6, GroupFrom

-----------------------------------------------------------------------------
(* The steps of workers and of the scan *)

\* Rows that are there, of which a cancelled one stays so and an ended one ends.
RowsGoOn ==
  /\ row' \in [Tasks -> RowStatuses] /\ Existing = Tasks
  /\ \A t \in Tasks : /\ row'[t] # "none"
                      /\ row[t] = "cancelled" => row'[t] = "cancelled"
                      /\ row[t] \in Ended /\ t \notin unmarked' => row'[t] \in Ended

LEMMA RowsStep ==
  ASSUME GroupInv, RowsGoOn, GroupType', unmarked \subseteq unmarked',
         UNCHANGED <<listing, adder, press, unanswered>>
  PROVE  GroupInv'
<1>1. Existing' = Tasks  BY DEF RowsGoOn, Existing
<1>2. AllOrNone'
  <2>1. adder.at # "create"  BY TasksAreNumbered DEF GroupInv, AllOrNone, RowsGoOn
  <2> QED  BY <1>1, <2>1 DEF GroupInv, AllOrNone
<1>3. ScanOK'  BY <1>1 DEF ScanOK
<1>4. RefusedIsEnded'
  <2>1. \A t \in Tasks \ unmarked : row[t] \in Ended \cup {"none"} => row[t] \in Ended
    BY DEF RowsGoOn, Existing
  <2> QED  BY <2>1 DEF GroupInv, RefusedIsEnded, RowsGoOn
<1>5. \A p \in Presses : PressOK(p)'
  <2> SUFFICES ASSUME NEW p \in Presses PROVE PressOK(p)'
    OBVIOUS
  <2>1. PressOK(p) /\ press[p].done \subseteq Tasks  BY DEF GroupInv, GroupTypeOK
  <2> QED  BY <1>1, <2>1 DEF PressOK, RowsGoOn
<1> QED  BY <1>2, <1>3, <1>4, <1>5, GroupAfter

LEMMA WorkerGroup ==
  ASSUME GroupInv, NEW t \in Tasks, Start(t) \/ Complete(t)
  PROVE  GroupInv'
<1>1. GroupType  BY GroupTyped
<1>2. PICK status \in {"running", "completed"} :
        /\ row' = [row EXCEPT ![t] = status] /\ row[t] \in {"queued", "running"}
        /\ UNCHANGED <<sent, listing, adder, press, scan, scans, faults, unanswered, unmarked>>
  BY DEF Start, Complete
<1>3. GroupType'  BY <1>1, <1>2 DEF GroupType, RowStatuses, Ended
<1>4. Existing = Tasks
  <2>1. t \in Existing  BY <1>2 DEF Existing
  <2> QED  BY <2>1 DEF GroupInv, AllOrNone
<1>5. RowsGoOn
  BY <1>1, <1>2, <1>3, <1>4 DEF RowsGoOn, GroupType, Existing, Ended
<1> QED  BY <1>2, <1>3, <1>5, RowsStep

LEMMA GroupFaultType ==
  ASSUME GroupType, GroupFault
  PROVE  faults' \in 0..MaxErrors
BY GroupAssumption DEF GroupType, GroupFault

LEMMA RestoreGroup ==
  ASSUME GroupInv, NEW t \in Tasks, Restore(t)
  PROVE  GroupInv'
<1>1. GroupType /\ t \in scan.read /\ scan.read \subseteq Tasks /\ scan.reset \subseteq Tasks
  BY GroupTyped DEF GroupType, Restore
<1>2. UNCHANGED <<sent, listing, adder, press, scans, unanswered>>  BY DEF Restore
<1>3. Existing = Tasks  BY <1>1 DEF GroupInv, ScanOK
<1>4. scan' \in [read : SUBSET Tasks, reset : SUBSET Tasks]
  BY <1>1 DEF Restore, GroupType
<1>5. faults' \in 0..MaxErrors  BY <1>1, GroupFaultType DEF Restore, GroupType
<1>6. /\ unmarked \subseteq unmarked' /\ unmarked' \subseteq Tasks
      /\ \/ row' = [row EXCEPT ![t] = "queued"] /\ t \in unmarked' /\ row[t] # "cancelled"
         \/ row' = row
  BY <1>1 DEF Restore, GroupType
<1>7. GroupType'  BY <1>1, <1>2, <1>4, <1>5, <1>6 DEF GroupType, RowStatuses
<1>8. RowsGoOn  BY <1>1, <1>3, <1>6, <1>7 DEF RowsGoOn, GroupType, Existing
<1> QED  BY <1>2, <1>6, <1>7, <1>8, RowsStep

LEMMA ResendGroup ==
  ASSUME GroupInv, NEW t \in Tasks, Resend(t)
  PROVE  GroupInv'
<1>1. GroupType /\ t \in scan.reset  BY GroupTyped DEF Resend
<1>2. UNCHANGED <<listing, adder, press, scans, unanswered, unmarked>>  BY DEF Resend
<1>3. Existing = Tasks  BY <1>1 DEF GroupInv, ScanOK
<1>4. scan' \in [read : SUBSET Tasks, reset : SUBSET Tasks]  BY <1>1 DEF Resend, GroupType
<1>5. faults' \in 0..MaxErrors /\ sent' \subseteq Tasks
  BY <1>1, GroupFaultType DEF Resend, GroupType
<1>6. \/ row' = row
      \/ row' = [row EXCEPT ![t] = "failed"] /\ row[t] \notin Ended
  BY DEF Resend
<1>7. GroupType'  BY <1>1, <1>2, <1>4, <1>5, <1>6 DEF GroupType, RowStatuses, Ended
<1>8. RowsGoOn  BY <1>1, <1>3, <1>6, <1>7 DEF RowsGoOn, GroupType, Existing, Ended
<1> QED  BY <1>2, <1>7, <1>8, RowsStep

LEMMA ScanGroup ==
  ASSUME GroupInv, Scan
  PROVE  GroupInv'
<1>1. GroupType  BY GroupTyped
<1>2. /\ UNCHANGED <<row, sent, listing, adder, press, faults, unanswered, unmarked>>
      /\ scans' \in 0..MaxScans
      /\ scan' = [read |-> {t \in Tasks : row[t] \in {"queued", "running", "failed"}}, reset |-> {}]
  BY <1>1, GroupAssumption DEF Scan, GroupType
<1>3. GroupType'  BY <1>1, <1>2 DEF GroupType
<1>4. Existing' = Existing  BY <1>2 DEF Existing
<1>5. ScanOK'
  <2>1. scan'.read \subseteq Existing /\ scan'.reset = {}  BY <1>2 DEF Existing
  <2> QED  BY <1>4, <2>1 DEF ScanOK, GroupInv, AllOrNone
<1>6. AllOrNone' /\ RefusedIsEnded' /\ \A p \in Presses : PressOK(p)'
  BY <1>2, <1>4 DEF GroupInv, AllOrNone, RefusedIsEnded, PressOK
<1> QED  BY <1>3, <1>5, <1>6, GroupAfter

-----------------------------------------------------------------------------
(* The steps of addBatchTasks *)

LEMMA CreateGroup ==
  ASSUME GroupInv, CreateBatch
  PROVE  GroupInv'
<1>1. GroupType /\ adder.at = "create" /\ Existing = {}
  BY GroupTyped DEF GroupInv, AllOrNone, CreateBatch
<1>2. UNCHANGED <<sent, listing, press, scan, scans, unmarked>>  BY DEF CreateBatch
<1>3. \/ row' = [t \in Tasks |-> "queued"] /\ adder'.at = "publish"
      \/ row' = row /\ adder'.at = "failed"
      \/ /\ row' = [t \in Tasks |-> "queued"] /\ adder'.at = "failed"
         /\ unanswered'
  BY <1>1 DEF CreateBatch, GroupType
<1>4. adder' \in [at : {"create", "publish", "mark", "done", "failed"}, next : Tasks]
  BY <1>1 DEF CreateBatch, GroupType
<1>5. row' \in [Tasks -> RowStatuses]  BY <1>1, <1>3 DEF GroupType, RowStatuses
<1>6. faults' \in 0..MaxErrors /\ unanswered' \in BOOLEAN
  BY <1>1, GroupFaultType DEF CreateBatch, GroupType
<1>7. GroupType'  BY <1>1, <1>2, <1>4, <1>5, <1>6 DEF GroupType
<1>8. \/ row' = row /\ Existing' = {} /\ adder'.at = "failed"
      \/ Existing' = Tasks /\ adder'.at \in {"publish", "failed"}
  BY <1>1, <1>3 DEF Existing
<1>9. AllOrNone'  BY <1>1, <1>2, <1>8, TasksAreNumbered DEF GroupInv, AllOrNone
<1>10. ScanOK'
  BY <1>1, <1>2, TasksAreNumbered DEF GroupInv, ScanOK
<1>11. RefusedIsEnded'
  <2>1. \A t \in Tasks : row[t] = "none"  BY <1>1 DEF Existing
  <2> QED  BY <1>1, <1>3, <2>1 DEF RefusedIsEnded
<1>12. \A p \in Presses : PressOK(p)'
  <2> SUFFICES ASSUME NEW p \in Presses PROVE PressOK(p)'
    OBVIOUS
  <2>1. PressOK(p) /\ press[p].done \subseteq Tasks /\ press[p].list # Tasks
    BY <1>1, TasksAreNumbered DEF GroupInv, GroupTypeOK, PressOK
  <2>2. press[p].done = {}
    <3>1. \A t \in Tasks : row[t] = "none"  BY <1>1 DEF Existing
    <3> QED  BY <2>1, <3>1 DEF PressOK
  <2> QED  BY <1>2, <2>1, <2>2 DEF PressOK
<1> QED  BY <1>7, <1>9, <1>10, <1>11, <1>12, GroupAfter

LEMMA PublishGroup ==
  ASSUME GroupInv, Publish
  PROVE  GroupInv'
<1>1. /\ GroupType /\ adder.at = "publish" /\ Existing = Tasks
      /\ adder \in [at : {"create", "publish", "mark", "done", "failed"}, next : Tasks]
  BY GroupTyped DEF GroupInv, AllOrNone, Publish
<1>2. UNCHANGED <<row, listing, press, scan, scans, unanswered, unmarked>>  BY DEF Publish
<1>3. /\ adder' \in [at : {"create", "publish", "mark", "done", "failed"}, next : Tasks]
      /\ adder'.at \in {"publish", "done", "mark"}
  <2>1. CASE adder' = AfterPublish
    <3>1. CASE adder.next = Cardinality(Tasks)  BY <1>1, <2>1, <3>1 DEF AfterPublish
    <3>2. CASE adder.next # Cardinality(Tasks)
      <4>1. adder.next + 1 \in Tasks  BY <1>1, <3>2, TasksAreNumbered
      <4> QED  BY <1>1, <2>1, <3>2, <4>1 DEF AfterPublish
    <3> QED  BY <3>1, <3>2
  <2>2. CASE adder' = [adder EXCEPT !.at = "mark"]  BY <1>1, <2>2
  <2> QED  BY <2>1, <2>2 DEF Publish
<1>4. faults' \in 0..MaxErrors /\ sent' \subseteq Tasks
  <2>1. adder.next \in Tasks  BY <1>1
  <2> QED  BY <1>1, <2>1, GroupFaultType DEF Publish, GroupType
<1>5. GroupType'  BY <1>1, <1>2, <1>3, <1>4 DEF GroupType
<1>6. Existing' = Existing  BY <1>2 DEF Existing
<1>7. AllOrNone' /\ ScanOK' /\ RefusedIsEnded' /\ \A p \in Presses : PressOK(p)'
  BY <1>1, <1>2, <1>3, <1>6 DEF GroupInv, AllOrNone, ScanOK, RefusedIsEnded, PressOK
<1> QED  BY <1>5, <1>7, GroupAfter

LEMMA MarkGroup ==
  ASSUME GroupInv, MarkFailed
  PROVE  GroupInv'
<1>1. GroupType /\ adder.at = "mark" /\ Existing = Tasks
  BY GroupTyped DEF GroupInv, AllOrNone, MarkFailed
<1>2. UNCHANGED <<sent, listing, press, scan, scans, unanswered>>  BY DEF MarkFailed
<1>3. PICK refused \in SUBSET Tasks :
        /\ IF refused = {} THEN UNCHANGED faults
           ELSE Cardinality(refused) = 1 /\ GroupFault
        /\ row' = [t \in Tasks |-> IF t \in Tasks \ refused /\ row[t] \notin Ended
                                   THEN "failed" ELSE row[t]]
        /\ unmarked' = unmarked \cup refused
  BY DEF MarkFailed, ToMark
<1>4. \A t \in Tasks : /\ row'[t] \in RowStatuses /\ row'[t] # "none"
                       /\ t \notin refused => row'[t] \in Ended
                       /\ row[t] = "cancelled" => row'[t] = "cancelled"
  BY <1>1, <1>3 DEF GroupType, Existing, RowStatuses, Ended
<1>5. row' \in [Tasks -> RowStatuses]  BY <1>3, <1>4
<1>6. adder' \in [at : {"create", "publish", "mark", "done", "failed"}, next : Tasks]
      /\ adder'.at = "failed"
  BY <1>1 DEF MarkFailed, GroupType
<1>7. faults' \in 0..MaxErrors  BY <1>1, <1>3, GroupFaultType DEF GroupType
<1>8. GroupType'  BY <1>1, <1>2, <1>3, <1>5, <1>6, <1>7 DEF GroupType
<1>9. Existing' = Tasks  BY <1>4 DEF Existing
<1>10. AllOrNone' /\ ScanOK'  BY <1>1, <1>2, <1>6, <1>9 DEF GroupInv, AllOrNone, ScanOK
<1>11. RefusedIsEnded'  BY <1>3, <1>4 DEF RefusedIsEnded
<1>12. \A p \in Presses : PressOK(p)'
  <2> SUFFICES ASSUME NEW p \in Presses PROVE PressOK(p)'
    OBVIOUS
  <2>1. PressOK(p) /\ press[p].done \subseteq Tasks  BY DEF GroupInv, GroupTypeOK
  <2> QED  BY <1>2, <1>4, <1>9, <2>1 DEF PressOK
<1> QED  BY <1>8, <1>10, <1>11, <1>12, GroupAfter

-----------------------------------------------------------------------------
(* The button, and the copy of the rows *)

\* What is read of the group is all of it, or nothing.
LEMMA GroupListed ==
  ASSUME GroupInv
  PROVE  /\ Listed \in {{}, Tasks} /\ (Listed = Tasks => Existing = Tasks)
         /\ ListGroup => listing' \in {{}, Tasks} /\ (listing' = Tasks => Existing = Tasks)
BY TasksAreNumbered DEF GroupInv, AllOrNone, Listed, ListGroup

LEMMA MonitorGroup ==
  ASSUME GroupInv, Monitor \/ CopyEnds
  PROVE  GroupInv'
<1>1. /\ UNCHANGED <<row, sent, adder, press, scan, scans, faults, unanswered, unmarked>>
      /\ listing' \in {NoListing, {}, Tasks} /\ (listing' = Tasks => Existing = Tasks)
  BY GroupListed, TasksAreNumbered DEF Monitor, CopyEnds
<1>2. GroupType'  BY <1>1, GroupTyped DEF GroupType
<1>3. Existing' = Existing  BY <1>1 DEF Existing
<1>4. AllOrNone' /\ ScanOK' /\ RefusedIsEnded' /\ \A p \in Presses : PressOK(p)'
  BY <1>1, <1>3 DEF GroupInv, AllOrNone, ScanOK, RefusedIsEnded, PressOK
<1> QED  BY <1>2, <1>4, GroupAfter

\* A press takes a step: the rows it has cancelled stay so, and the others go on.
LEMMA PressMoves ==
  ASSUME GroupInv, NEW p \in Presses, NEW r \in PressRecords,
         press' = [press EXCEPT ![p] = r], PressOK(p)'
  PROVE  /\ press' \in [Presses -> PressRecords]
         /\ UNCHANGED <<row>> => \A q \in Presses : Existing' = Existing => PressOK(q)'
         /\ \A q \in Presses \ {p} : press'[q] = press[q]
BY DEF GroupInv, PressOK

LEMMA PressGroup ==
  ASSUME GroupInv, NEW p \in Presses, Press(p)
  PROVE  GroupInv'
<1>1. /\ UNCHANGED <<row, sent, adder, scan, scans, faults, unanswered, unmarked>>
      /\ ListGroup
      /\ press' = [press EXCEPT ![p] = [Idle EXCEPT !.list = Listed,
                                         !.at = IF Listed = {} THEN "no" ELSE "cancel"]]
  BY DEF Press
<1>2. /\ Listed \in {{}, Tasks} /\ (Listed = Tasks => Existing = Tasks)
      /\ listing' \in {NoListing, {}, Tasks} /\ (listing' = Tasks => Existing = Tasks)
  BY <1>1, GroupListed, TasksAreNumbered DEF GroupInv, AllOrNone, ListGroup
<1>3. Existing' = Existing  BY <1>1 DEF Existing
<1>4. PICK r \in PressRecords :
        /\ press' = [press EXCEPT ![p] = r] /\ r.list = Listed /\ r.done = {}
        /\ r.at = IF Listed = {} THEN "no" ELSE "cancel"
  <2>1. PICK at \in {"no", "cancel"} : at = IF Listed = {} THEN "no" ELSE "cancel"
    OBVIOUS
  <2>2. PICK told \in SUBSET Tasks : told = Listed  BY <1>2
  <2>3. [Idle EXCEPT !.list = told, !.at = at]
          = [at |-> at, list |-> told, done |-> {}, left |-> {}]
    <3>1. [Idle EXCEPT !.list = told]
            = [at |-> "idle", list |-> told, done |-> {}, left |-> {}]
      BY DEF Idle
    <3>2. [Idle EXCEPT !.list = told, !.at = at] = [[Idle EXCEPT !.list = told] EXCEPT !.at = at]
      BY DEF Idle
    <3>3. [[at |-> "idle", list |-> told, done |-> {}, left |-> {}] EXCEPT !.at = at]
            = [at |-> at, list |-> told, done |-> {}, left |-> {}]
      OBVIOUS
    <3> QED  BY <3>1, <3>2, <3>3
  <2>4. [at |-> at, list |-> told, done |-> {}, left |-> {}] \in PressRecords
    BY DEF PressRecords
  <2> QED  BY <1>1, <2>1, <2>2, <2>3, <2>4
<1>5. press'[p] = r  BY <1>4 DEF GroupInv
<1>6. PressOK(p)'  BY <1>2, <1>3, <1>4, <1>5 DEF PressOK
<1>7. press' \in [Presses -> PressRecords] /\ \A q \in Presses : PressOK(q)'
  BY <1>1, <1>3, <1>4, <1>6, PressMoves
<1>8. GroupType'  BY <1>1, <1>7, GroupTyped DEF GroupType
<1>9. AllOrNone' /\ ScanOK' /\ RefusedIsEnded'
  BY <1>1, <1>2, <1>3 DEF GroupInv, AllOrNone, ScanOK, RefusedIsEnded
<1> QED  BY <1>7, <1>8, <1>9, GroupAfter

LEMMA CancelGroup ==
  ASSUME GroupInv, NEW p \in Presses, NEW t \in Tasks, CancelOne(p, t)
  PROVE  GroupInv'
<1>1. /\ UNCHANGED <<sent, listing, adder, scan, scans, unanswered, unmarked>>
      /\ press[p].at = "cancel" /\ press[p] \in PressRecords /\ GroupType
  BY GroupTyped DEF CancelOne, GroupInv
<1>2. press[p].list = Tasks /\ Existing = Tasks  BY <1>1 DEF GroupInv, PressOK
<1>3. \/ /\ row[t] \notin {"completed", "failed"} /\ row' = [row EXCEPT ![t] = "cancelled"]
         /\ press' = [press EXCEPT ![p].done = @ \cup {t}]
      \/ row' = row /\ press' = [press EXCEPT ![p].left = @ \cup {t}]
  BY DEF CancelOne
<1>4. faults' \in 0..MaxErrors  BY <1>1, GroupFaultType DEF CancelOne, GroupType
<1>5. /\ row' \in [Tasks -> RowStatuses] /\ Existing' = Tasks
      /\ \A s \in Tasks : /\ row[s] = "cancelled" => row'[s] = "cancelled"
                          /\ row[s] \in Ended => row'[s] \in Ended
  BY <1>1, <1>2, <1>3 DEF GroupType, RowStatuses, Ended, Existing
<1>6. PICK r \in PressRecords :
        /\ press' = [press EXCEPT ![p] = r] /\ r.at = "cancel" /\ r.list = Tasks
        /\ \/ r.done = press[p].done
           \/ r.done = press[p].done \cup {t} /\ row'[t] = "cancelled"
  BY <1>1, <1>2, <1>3 DEF PressRecords, GroupType
<1>7. press' \in [Presses -> PressRecords] /\ press'[p] = r
  BY <1>1, <1>6 DEF GroupType
<1>8. \A q \in Presses : PressOK(q)'
  <2> SUFFICES ASSUME NEW q \in Presses PROVE PressOK(q)'
    OBVIOUS
  <2>1. PressOK(q) /\ press[q].done \subseteq Tasks  BY DEF GroupInv, GroupTypeOK
  <2>2. \A s \in press[q].done : row'[s] = "cancelled"  BY <1>5, <2>1 DEF PressOK
  <2>3. CASE q = p  BY <1>2, <1>5, <1>6, <1>7, <2>2, <2>3 DEF PressOK
  <2>4. CASE q # p
    <3>1. press'[q] = press[q]  BY <1>1, <1>6, <2>4 DEF GroupType
    <3> QED  BY <1>2, <1>5, <2>1, <2>2, <3>1 DEF PressOK
  <2> QED  BY <2>3, <2>4
<1>9. GroupType'  BY <1>1, <1>4, <1>5, <1>7 DEF GroupType
<1>10. AllOrNone' /\ ScanOK'  BY <1>1, <1>2, <1>5 DEF GroupInv, AllOrNone, ScanOK
<1>11. RefusedIsEnded'
  <2>1. \A s \in Tasks : row[s] # "none"  BY <1>2 DEF Existing
  <2> QED  BY <1>1, <1>5, <2>1 DEF GroupInv, RefusedIsEnded
<1> QED  BY <1>8, <1>9, <1>10, <1>11, GroupAfter

LEMMA AnswerGroup ==
  ASSUME GroupInv, NEW p \in Presses, Answer(p)
  PROVE  GroupInv'
<1>1. /\ UNCHANGED <<row, sent, listing, adder, scan, scans, faults, unanswered, unmarked>>
      /\ press[p].at = "cancel" /\ press[p].done \cup press[p].left = press[p].list
      /\ press[p] \in PressRecords /\ PressOK(p)
  BY DEF Answer, GroupInv
<1>2. PICK at \in {"yes", "no"} :
        /\ at = "yes" => press[p].done # {}
        /\ press' = [press EXCEPT ![p].at = at]
  BY DEF Answer, Yes
<1>3. Existing' = Existing  BY <1>1 DEF Existing
<1>4. PICK r \in PressRecords :
        /\ press' = [press EXCEPT ![p] = r] /\ r.list = press[p].list
        /\ r.done = press[p].done /\ r.left = press[p].left /\ r.at = at
  <2>1. /\ [press[p] EXCEPT !.at = at] \in PressRecords
        /\ press' = [press EXCEPT ![p] = [press[p] EXCEPT !.at = at]]
    BY <1>1, <1>2 DEF PressRecords
  <2> QED  BY <1>1, <2>1 DEF PressRecords
<1>5. press'[p] = r  BY <1>4 DEF GroupInv
<1>6. PressOK(p)'  BY <1>1, <1>2, <1>3, <1>4, <1>5 DEF PressOK
<1>7. press' \in [Presses -> PressRecords] /\ \A q \in Presses : PressOK(q)'
  BY <1>1, <1>3, <1>4, <1>6, PressMoves
<1>8. GroupType'  BY <1>1, <1>7, GroupTyped DEF GroupType
<1>9. AllOrNone' /\ ScanOK' /\ RefusedIsEnded'
  BY <1>1, <1>3 DEF GroupInv, AllOrNone, ScanOK, RefusedIsEnded
<1> QED  BY <1>7, <1>8, <1>9, GroupAfter

LEMMA NextGroupInv == GroupInv /\ [GroupNext]_groupVars => GroupInv'
<1> SUFFICES ASSUME GroupInv, [GroupNext]_groupVars PROVE GroupInv'
  OBVIOUS
<1>1. CASE CreateBatch \/ Publish \/ MarkFailed
  BY <1>1, CreateGroup, PublishGroup, MarkGroup
<1>2. CASE Monitor \/ CopyEnds \/ Scan  BY <1>2, MonitorGroup, ScanGroup
<1>3. CASE \E p \in Presses : Press(p) \/ Answer(p) \/ \E t \in Tasks : CancelOne(p, t)
  BY <1>3, PressGroup, AnswerGroup, CancelGroup
<1>4. CASE \E t \in Tasks : Start(t) \/ Complete(t) \/ Restore(t) \/ Resend(t)
  BY <1>4, WorkerGroup, RestoreGroup, ResendGroup
<1>5. CASE UNCHANGED groupVars
  BY <1>5 DEF groupVars, GroupInv, GroupTypeOK, RefusedIsEnded, AllOrNone, ScanOK, PressOK,
              Existing
<1> QED  BY <1>1, <1>2, <1>3, <1>4, <1>5 DEF GroupNext

\* GroupSafe, for every number of tasks, presses, scans and failures: a group whose adding
\* failed leaves no task to wait or at work, and one whose cancel is answered yes has each
\* of its tasks cancelled but for those that had ended or could not be written.
THEOREM GroupIsSafe == GroupSpec => []GroupSafe
<1>1. GroupInv => GroupSafe
  <2>1. GroupInv => YesIsCancelled  BY DEF GroupInv, PressOK, YesIsCancelled
  <2> QED  BY <2>1 DEF GroupInv, GroupSafe
<1> QED  BY <1>1, InitGroupInv, NextGroupInv, PTL DEF GroupSpec

-----------------------------------------------------------------------------
(* Drives: the inductive invariant *)

\* Where a call can be, of which kind it is there, and what it has found there.
CallShape(c) ==
  /\ c.at = "fill" => c.kind \in {"list", "one", "delete"}
  /\ c.at = "migrate one" => c.kind \in {"one", "delete"}
  /\ c.at \in {"migrate one", "fill"} /\ c.kind # "list" => Active(c.got[c.t])
  /\ c.at = "put" => c.kind = "create"
  /\ c.at = "copies" => c.kind \in Changes

\* What a call is about to copy, with no write since it has read, is what the rows say.
CallFresh(c) ==
  ~c.late =>
    /\ c.at \in {"migrate", "migrate one", "fill"} => c.got = Selected
    /\ c.at = "put" => c.got[c.t] = rows[c.t] /\ Active(rows[c.t])
    /\ c.at = "put ids" => c.todo = AllActive

\* A call that will still drop the list and the ids, and the copy of drive t
Pending(c) ==
  \/ c.at \in {"put", "copies"}
  \/ c.kind = "wipe" /\ c.at \in {"write", "ids", "put ids"}
PendingFor(c, t) ==
  \/ c.at = "put" /\ c.t = t
  \/ /\ c.at = "copies"
     /\ \/ c.kind \in {"delete", "config"} /\ t = c.t
        \/ c.kind = "wipe" /\ Active(c.got[t])
        \/ c.kind = "default" /\ t \in c.todo

\* A copy that is not excused is right, or a call is still to drop it.
ListOK ==
  list # NoList /\ "list" \notin stale => list = Selected \/ \E q \in Procs : Pending(op[q])
IdsOK ==
  actives # NoIds /\ "actives" \notin stale =>
    actives = AllActive \/ \E q \in Procs : Pending(op[q])
DriveCopyOK(t) ==
  t \notin stale /\ byId[t] # Unknown =>
    (byId[t] = rows[t] /\ Active(rows[t])) \/ \E q \in Procs : PendingFor(op[q], t)

CopiesOK == ListOK /\ IdsOK /\ \A t \in Types : DriveCopyOK(t)

DrivesType ==
  /\ rows \in [Types -> DriveRows]
  /\ list = NoList \/ list \in [Types -> DriveRows]
  /\ byId \in [Types -> DriveRows \cup {Unknown}]
  /\ actives = NoIds \/ actives \subseteq Types
  /\ op \in [Procs -> Calls]
  /\ writes \in 0..MaxWrites /\ misses \in 0..MaxMisses
  /\ stale \subseteq Types \cup {"list", "actives"}

DrivesInv ==
  /\ DrivesType /\ CopiesOK
  /\ \A p \in Procs : CallShape(op[p]) /\ CallFresh(op[p])

CallPlaces ==
  {"rest", "read", "migrate", "migrate one", "fill", "write", "put", "copies", "ids", "put ids"}
CallKinds == Changes \cup {"none", "one", "list", "all"}

LEMMA RowIs ==
  ASSUME NEW S, NEW V, NEW D, NEW O, NEW r \in [st : S, ver : V, def : D, old : O], NEW s
  PROVE  /\ [r EXCEPT !.st = s] = [st |-> s, ver |-> r.ver, def |-> r.def, old |-> r.old]
         /\ [r EXCEPT !.old = s] = [st |-> r.st, ver |-> r.ver, def |-> r.def, old |-> s]
         /\ [r EXCEPT !.def = s] = [st |-> r.st, ver |-> r.ver, def |-> s, old |-> r.old]
         /\ [r EXCEPT !.ver = s] = [st |-> r.st, ver |-> s, def |-> r.def, old |-> r.old]
OBVIOUS

LEMMA NoneIs == None = [st |-> "none", ver |-> 0, def |-> FALSE, old |-> FALSE]
BY DEF None

LEMMA DriveValues ==
  /\ None \in DriveRows /\ Unknown \notin DriveRows /\ NoDrives \in [Types -> DriveRows]
  /\ Unknown.st = "unknown" /\ None.st = "none" /\ None.old = FALSE /\ None.def = FALSE
<1>1. 0 \in 0..MaxWrites  BY DrivesAssumption
<1>2. None \in [st : {"none"}, ver : {0}, def : {FALSE}, old : {FALSE}]  BY NoneIs
<1>3. /\ Unknown = [st |-> "unknown", ver |-> None.ver, def |-> None.def, old |-> None.old]
      /\ None.ver = 0 /\ None.def = FALSE /\ None.old = FALSE /\ None.st = "none"
  <2>1. PICK n \in [st : {"none"}, ver : {0}, def : {FALSE}, old : {FALSE}] : n = None  BY <1>2
  <2>2. [n EXCEPT !.st = "unknown"] = [st |-> "unknown", ver |-> n.ver, def |-> n.def, old |-> n.old]
    OBVIOUS
  <2> QED  BY <2>1, <2>2, NoneIs DEF Unknown
<1>4. None \in DriveRows /\ Unknown \notin DriveRows /\ Unknown.st = "unknown"
  BY <1>1, <1>3, NoneIs DEF DriveRows
<1> QED  BY <1>3, <1>4 DEF NoDrives

LEMMA RestingCall ==
  /\ AtRest \in Calls /\ AtRest.at = "rest" /\ AtRest.kind = "none" /\ AtRest.t \in Types
  /\ CallShape(AtRest) /\ CallFresh(AtRest)
<1>1. (CHOOSE t \in Types : TRUE) \in Types  BY DrivesAssumption
<1>2. 0 \in 0..MaxWrites  BY DrivesAssumption
<1>3. AtRest \in Calls /\ AtRest.at = "rest" /\ AtRest.kind = "none" /\ AtRest.t \in Types
  BY <1>1, <1>2, DriveValues DEF AtRest, Calls
<1> QED  BY <1>3 DEF CallShape, CallFresh

LEMMA SelectedIsTyped ==
  ASSUME rows \in [Types -> DriveRows]
  PROVE  Selected \in [Types -> DriveRows] /\ AllActive \subseteq Types
BY DriveValues DEF Selected, AllActive

LEMMA DrivesInitInv == DrivesInit => DrivesInv
<1> SUFFICES ASSUME DrivesInit  PROVE DrivesInv  OBVIOUS
<1>1. rows \in [Types -> DriveRows]
  <2>1. PICK r : r = [None EXCEPT !.st = "active", !.old = TRUE] /\ r \in DriveRows
    <3>1. PICK n \in DriveRows : n = None  BY DriveValues
    <3>2. [n EXCEPT !.st = "active", !.old = TRUE] \in DriveRows  BY DEF DriveRows
    <3> QED  BY <3>1, <3>2
  <2> QED  BY <2>1, DriveValues DEF DrivesInit
<1>2. byId \in [Types -> DriveRows \cup {Unknown}] /\ \A t \in Types : byId[t] = Unknown
  BY DEF DrivesInit, NoList
<1>3. DrivesType  BY <1>1, <1>2, RestingCall, DrivesAssumption DEF DrivesInit, DrivesType
<1>4. CopiesOK  BY <1>2 DEF DrivesInit, CopiesOK, ListOK, IdsOK, DriveCopyOK
<1> QED  BY <1>3, <1>4, RestingCall DEF DrivesInv, DrivesInit

-----------------------------------------------------------------------------
(* Drives: the steps of a call *)

\* The call p becomes v, and the rows stay: the others know what they knew.
LEMMA OneCall ==
  ASSUME DrivesInv, NEW p \in Procs, NEW v \in Calls, CallShape(v), CallFresh(v),
         rows' = rows, op' = [op EXCEPT ![p] = v]
  PROVE  /\ op' \in [Procs -> Calls] /\ op'[p] = v
         /\ \A q \in Procs \ {p} : op'[q] = op[q]
         /\ \A q \in Procs : CallShape(op[q])' /\ CallFresh(op[q])'
<1>1. /\ op' \in [Procs -> Calls] /\ op'[p] = v
      /\ \A q \in Procs \ {p} : op'[q] = op[q]
  BY DEF DrivesInv, DrivesType
<1>2. Selected' = Selected /\ AllActive' = AllActive  BY DEF Selected, AllActive
<1>3. \A c : CallFresh(c) => CallFresh(c)'  BY <1>2 DEF CallFresh
<1> QED  BY <1>1, <1>3 DEF DrivesInv

\* The call moves on and leaves all copies as they are.
LEMMA CallMoves ==
  ASSUME DrivesInv, NEW p \in Procs, NEW v \in Calls, CallShape(v), CallFresh(v),
         Pending(op[p]) => Pending(v),
         \A t \in Types : PendingFor(op[p], t) => PendingFor(v, t),
         op' = [op EXCEPT ![p] = v], UNCHANGED <<rows, list, byId, actives, misses, stale>>,
         writes' \in 0..MaxWrites
  PROVE  DrivesInv'
<1>1. /\ op' \in [Procs -> Calls] /\ op'[p] = v
      /\ \A q \in Procs \ {p} : op'[q] = op[q]
      /\ \A q \in Procs : CallShape(op[q])' /\ CallFresh(op[q])'
  BY OneCall
<1>2. DrivesType'  BY <1>1 DEF DrivesInv, DrivesType
<1>3. Selected' = Selected /\ AllActive' = AllActive  BY DEF Selected, AllActive
<1>4. \A q \in Procs : Pending(op[q]) => Pending(op'[q])  BY <1>1
<1>5. \A q \in Procs, t \in Types : PendingFor(op[q], t) => PendingFor(op'[q], t)  BY <1>1
<1>6. ListOK' /\ IdsOK'  BY <1>3, <1>4 DEF DrivesInv, CopiesOK, ListOK, IdsOK
<1>7. \A t \in Types : DriveCopyOK(t)'  BY <1>5 DEF DrivesInv, CopiesOK, DriveCopyOK
<1>8. (\A q \in Procs : CallShape(op[q]) /\ CallFresh(op[q]))'  BY <1>1
<1> QED  BY <1>2, <1>6, <1>7, <1>8 DEF DrivesInv, CopiesOK

\* Another call's write makes what a call has read old, and nothing else.
LEMMA AgedIs ==
  ASSUME op \in [Procs -> Calls], NEW q \in Procs
  PROVE  /\ Aged(q) \in Calls /\ (Aged(q).late \/ Aged(q).at = "rest")
         /\ Aged(q).at = op[q].at /\ Aged(q).kind = op[q].kind /\ Aged(q).t = op[q].t
         /\ Aged(q).got = op[q].got /\ Aged(q).todo = op[q].todo
<1>1. CASE op[q] = AtRest  BY <1>1, RestingCall DEF Aged
<1>2. CASE op[q] # AtRest
  <2>1. PICK c \in Calls : c = op[q]  OBVIOUS
  <2>2. PICK d : d = [c EXCEPT !.late = TRUE]  OBVIOUS
  <2>3. d = [kind |-> c.kind, t |-> c.t, ver |-> c.ver, at |-> c.at, got |-> c.got,
             todo |-> c.todo, late |-> TRUE]
    BY <2>2 DEF Calls
  <2>4. d \in Calls /\ d.late  BY <2>3 DEF Calls
  <2>5. Aged(q) = d  BY <1>2, <2>1, <2>2 DEF Aged
  <2> QED  BY <2>1, <2>3, <2>4, <2>5
<1> QED  BY <1>1, <1>2

\* The call p becomes v and writes rows.
LEMMA RowsWritten ==
  ASSUME DrivesInv, NEW p \in Procs, NEW v \in Calls, CallShape(v), CallFresh(v)',
         op' = [q \in Procs |-> IF q = p THEN v ELSE Aged(q)]
  PROVE  /\ op' \in [Procs -> Calls] /\ op'[p] = v
         /\ (\A q \in Procs : CallShape(op[q]) /\ CallFresh(op[q]))'
         /\ \A q \in Procs \ {p} : /\ Pending(op[q]) => Pending(op'[q])
                                   /\ \A t \in Types : PendingFor(op[q], t) => PendingFor(op'[q], t)
<1>1. op \in [Procs -> Calls] /\ \A q \in Procs : CallShape(op[q])
  BY DEF DrivesInv, DrivesType
<1>2. op'[p] = v /\ \A q \in Procs \ {p} : op'[q] = Aged(q)  OBVIOUS
<1>3. op' \in [Procs -> Calls]  BY <1>1, AgedIs
<1>4. ASSUME NEW q \in Procs, q # p
      PROVE  /\ (CallShape(op[q]) /\ CallFresh(op[q]))'
             /\ Pending(op[q]) => Pending(op'[q])
             /\ \A t \in Types : PendingFor(op[q], t) => PendingFor(op'[q], t)
  <2>1. PICK a : a = Aged(q)  OBVIOUS
  <2>2. /\ op'[q] = a /\ (a.late \/ a.at = "rest")
        /\ a.at = op[q].at /\ a.kind = op[q].kind /\ a.t = op[q].t
        /\ a.got = op[q].got /\ a.todo = op[q].todo
    BY <1>1, <1>2, <1>4, <2>1, AgedIs
  <2>3. CallShape(a)  BY <1>1, <2>2 DEF CallShape
  <2>4. (CallShape(op[q]) /\ CallFresh(op[q]))'  BY <2>2, <2>3 DEF CallShape, CallFresh
  <2> QED  BY <2>2, <2>4 DEF Pending, PendingFor
<1>5. (CallShape(op[p]) /\ CallFresh(op[p]))'  BY <1>2 DEF CallShape, CallFresh
<1> QED  BY <1>2, <1>3, <1>4, <1>5

-----------------------------------------------------------------------------
(* Drives: calls that begin, read, and end *)

LEMMA DrivesParts ==
  ASSUME DrivesInv
  PROVE  /\ DrivesType /\ CopiesOK
         /\ \A q \in Procs : op[q] \in Calls /\ CallShape(op[q]) /\ CallFresh(op[q])
BY DEF DrivesInv, DrivesType

LEMMA ChangesAre == Changes = {"create", "delete", "wipe", "default", "config"}
BY DEF Changes

\* A call that is over
LEMMA CallEnds ==
  ASSUME DrivesInv, NEW p \in Procs, Done(p), op[p].at \notin {"write", "put", "copies", "ids", "put ids"},
         UNCHANGED <<rows, list, byId, actives, writes, misses, stale>>
  PROVE  DrivesInv'
<1>1. ~Pending(op[p]) /\ \A t \in Types : ~PendingFor(op[p], t)  BY DEF Pending, PendingFor
<1>2. PICK v : v = AtRest  OBVIOUS
<1>3. v \in Calls /\ CallShape(v) /\ CallFresh(v) /\ op' = [op EXCEPT ![p] = v]
  BY <1>2, RestingCall DEF Done
<1>4. writes' \in 0..MaxWrites  BY DrivesParts DEF DrivesType
<1> QED  BY <1>1, <1>3, <1>4, CallMoves

\* A call that only moves to another place
LEMMA CallGoes ==
  ASSUME DrivesInv, NEW p \in Procs, NEW at \in CallPlaces, To(p, at),
         at \notin {"migrate", "migrate one", "fill", "put", "put ids"},
         at = "copies" => op[p].kind \in Changes,
         op[p].at \notin {"put", "copies"},
         op[p].kind = "wipe" => at \in {"write", "ids", "copies"},
         UNCHANGED <<rows, list, byId, actives, writes, misses, stale>>
  PROVE  DrivesInv'
<1>1. PICK c \in Calls : c = op[p] /\ CallShape(c)  BY DrivesParts
<1>2. PICK v : v = [c EXCEPT !.at = at]  OBVIOUS
<1>3. v = [kind |-> c.kind, t |-> c.t, ver |-> c.ver, at |-> at, got |-> c.got,
           todo |-> c.todo, late |-> c.late]
  BY <1>2 DEF Calls
<1>4. v \in Calls  BY <1>3 DEF Calls, CallPlaces
<1>5. CallShape(v) /\ CallFresh(v)  BY <1>1, <1>3 DEF CallShape, CallFresh
<1>6. Pending(op[p]) => Pending(v)  BY <1>1, <1>3 DEF Pending
<1>7. \A t \in Types : ~PendingFor(op[p], t)  BY DEF PendingFor
<1>8. op' = [op EXCEPT ![p] = v]  BY <1>1, <1>2 DEF To
<1>9. writes' \in 0..MaxWrites  BY DrivesParts DEF DrivesType
<1> QED  BY <1>4, <1>5, <1>6, <1>7, <1>8, <1>9, CallMoves

LEMMA BeginInv ==
  ASSUME DrivesInv, NEW p \in Procs, NEW what \in CallKinds \ {"none"}, NEW t \in Types,
         Begin(p, what, t)
  PROVE  DrivesInv'
<1>1. writes' \in 0..MaxWrites
  BY DrivesParts, DrivesAssumption DEF Begin, DrivesType
<1>2. op[p] = AtRest  BY DEF Begin
<1>3. PICK c \in Calls : c = AtRest  BY RestingCall
<1>4. PICK w : w = writes'  OBVIOUS
<1>5. PICK v : v = [c EXCEPT !.kind = what, !.t = t, !.at = "read", !.ver = w]  OBVIOUS
<1>6. v = [kind |-> what, t |-> t, ver |-> w, at |-> "read", got |-> c.got, todo |-> c.todo,
           late |-> c.late]
  BY <1>5 DEF Calls
<1>7. v \in Calls  BY <1>1, <1>4, <1>6 DEF Calls, CallKinds
<1>8. CallShape(v) /\ CallFresh(v)  BY <1>6 DEF CallShape, CallFresh
<1>9. ~Pending(op[p]) /\ \A u \in Types : ~PendingFor(op[p], u)
  BY <1>2, RestingCall DEF Pending, PendingFor
<1>10. op' = [op EXCEPT ![p] = v]  BY <1>3, <1>4, <1>5 DEF Begin
<1> QED  BY <1>1, <1>7, <1>8, <1>9, <1>10, CallMoves DEF Begin

LEMMA ReadRowsInv ==
  ASSUME DrivesInv, NEW p \in Procs, ReadRows(p)
  PROVE  DrivesInv'
<1>1. PICK c \in Calls : c = op[p] /\ c.at = "read" /\ c.kind \in {"list", "wipe", "default"}
  BY DrivesParts DEF ReadRows, At
<1>2. PICK s, ids : /\ s = Selected /\ ids = AllActive
                    /\ s \in [Types -> DriveRows] /\ ids \subseteq Types
  BY DrivesParts, SelectedIsTyped DEF DrivesType
<1>3. PICK place : place = IF \E t \in ids : rows[t].old THEN "migrate" ELSE Goal(c.kind)
  OBVIOUS
<1>4. place \in {"migrate", "fill", "write"} /\ (place = "fill" => c.kind = "list")
  BY <1>3 DEF Goal
<1>5. PICK v : v = [c EXCEPT !.got = s, !.late = FALSE, !.todo = ids, !.at = place]  OBVIOUS
<1>6. v = [kind |-> c.kind, t |-> c.t, ver |-> c.ver, at |-> place, got |-> s, todo |-> ids,
           late |-> FALSE]
  BY <1>5 DEF Calls
<1>7. v \in Calls  BY <1>2, <1>4, <1>6 DEF Calls
<1>8. CallShape(v) /\ CallFresh(v)  BY <1>1, <1>2, <1>4, <1>6 DEF CallShape, CallFresh
<1>9. ~Pending(op[p]) /\ \A u \in Types : ~PendingFor(op[p], u)
  BY <1>1 DEF Pending, PendingFor
<1>10. op' = [op EXCEPT ![p] = v]  BY <1>1, <1>2, <1>3, <1>5 DEF ReadRows
<1>11. writes' \in 0..MaxWrites  BY DrivesParts DEF ReadRows, DrivesType
<1> QED  BY <1>7, <1>8, <1>9, <1>10, <1>11, CallMoves DEF ReadRows

LEMMA FoundRowInv ==
  ASSUME DrivesInv, NEW p \in Procs, FoundRow(p)
  PROVE  DrivesInv'
<1>1. PICK c \in Calls : c = op[p] /\ c.at = "read" /\ c.kind \in {"one", "delete"}
  BY DrivesParts DEF FoundRow, At
<1>2. CASE ~Active(rows[c.t])  BY <1>1, <1>2, CallEnds DEF FoundRow
<1>3. CASE Active(rows[c.t])
  <2>1. PICK s : s = Selected /\ s \in [Types -> DriveRows] /\ Active(s[c.t])
    <3>1. c.t \in Types /\ rows \in [Types -> DriveRows]  BY <1>1, DrivesParts DEF DrivesType, Calls
    <3>2. Selected[c.t] = rows[c.t]  BY <1>3, <3>1 DEF Selected
    <3> QED  BY <1>3, <3>1, <3>2, SelectedIsTyped
  <2>2. PICK place : place = IF rows[c.t].old THEN "migrate one" ELSE "fill"  OBVIOUS
  <2>3. PICK v : v = [c EXCEPT !.got = s, !.late = FALSE, !.at = place]  OBVIOUS
  <2>4. v = [kind |-> c.kind, t |-> c.t, ver |-> c.ver, at |-> place, got |-> s, todo |-> c.todo,
             late |-> FALSE]
    BY <2>3 DEF Calls
  <2>5. v \in Calls  BY <2>1, <2>2, <2>4 DEF Calls
  <2>6. CallShape(v) /\ CallFresh(v)  BY <1>1, <2>1, <2>2, <2>4 DEF CallShape, CallFresh
  <2>7. ~Pending(op[p]) /\ \A u \in Types : ~PendingFor(op[p], u)
    BY <1>1 DEF Pending, PendingFor
  <2>8. op' = [op EXCEPT ![p] = v]  BY <1>1, <1>3, <2>1, <2>2, <2>3 DEF FoundRow
  <2>9. writes' \in 0..MaxWrites  BY DrivesParts DEF FoundRow, DrivesType
  <2> QED  BY <2>5, <2>6, <2>7, <2>8, <2>9, CallMoves DEF FoundRow
<1> QED  BY <1>2, <1>3

LEMMA ReadIdsInv ==
  ASSUME DrivesInv, NEW p \in Procs, ReadIds(p)
  PROVE  DrivesInv'
<1>1. PICK c \in Calls : /\ c = op[p]
                         /\ c.at = "ids" \/ (c.at = "read" /\ c.kind = "all")
  BY DrivesParts DEF ReadIds, At
<1>2. PICK ids : ids = AllActive /\ ids \subseteq Types
  BY DrivesParts, SelectedIsTyped DEF DrivesType
<1>3. PICK v : v = [c EXCEPT !.todo = ids, !.at = "put ids", !.late = FALSE]  OBVIOUS
<1>4. v = [kind |-> c.kind, t |-> c.t, ver |-> c.ver, at |-> "put ids", got |-> c.got,
           todo |-> ids, late |-> FALSE]
  BY <1>3 DEF Calls
<1>5. v \in Calls  BY <1>2, <1>4 DEF Calls
<1>6. CallShape(v) /\ CallFresh(v)  BY <1>2, <1>4 DEF CallShape, CallFresh
<1>7. (Pending(op[p]) => Pending(v)) /\ \A u \in Types : ~PendingFor(op[p], u)
  BY <1>1, <1>4 DEF Pending, PendingFor
<1>8. op' = [op EXCEPT ![p] = v]  BY <1>1, <1>2, <1>3 DEF ReadIds
<1>9. writes' \in 0..MaxWrites  BY DrivesParts DEF ReadIds, DrivesType
<1> QED  BY <1>5, <1>6, <1>7, <1>8, <1>9, CallMoves DEF ReadIds

LEMMA CreateLooksInv ==
  ASSUME DrivesInv, NEW p \in Procs, CreateLooks(p)
  PROVE  DrivesInv'
<1>1. PICK c \in Calls : c = op[p] /\ c.at = "read" /\ c.kind = "create"
  BY DrivesParts DEF CreateLooks, At
<1>2. CASE Active(rows[c.t])  BY <1>1, <1>2, CallEnds DEF CreateLooks
<1>3. CASE ~Active(rows[c.t])
  <2>1. PICK s : s = [c.got EXCEPT ![c.t] = rows[c.t]] /\ s \in [Types -> DriveRows]
    <3>1. c.t \in Types /\ c.got \in [Types -> DriveRows] /\ rows \in [Types -> DriveRows]
      BY <1>1, DrivesParts DEF DrivesType, Calls
    <3>2. [c.got EXCEPT ![c.t] = rows[c.t]] \in [Types -> DriveRows]  BY <3>1
    <3> QED  BY <3>2
  <2>2. PICK v : v = [c EXCEPT !.got = s, !.at = "write"]  OBVIOUS
  <2>3. v = [kind |-> c.kind, t |-> c.t, ver |-> c.ver, at |-> "write", got |-> s, todo |-> c.todo,
             late |-> c.late]
    BY <2>2 DEF Calls
  <2>4. v \in Calls  BY <2>1, <2>3 DEF Calls
  <2>5. CallShape(v) /\ CallFresh(v)  BY <1>1, <2>3 DEF CallShape, CallFresh
  <2>6. ~Pending(op[p]) /\ \A u \in Types : ~PendingFor(op[p], u)
    BY <1>1 DEF Pending, PendingFor
  <2>7. op' = [op EXCEPT ![p] = v]
    <3>1. op' = [op EXCEPT ![p].got[c.t] = rows[c.t], ![p].at = "write"]
      BY <1>1, <1>3 DEF CreateLooks
    <3>2. op'[p] = [c EXCEPT !.got[c.t] = rows[c.t], !.at = "write"]  BY <1>1, <3>1, DrivesParts DEF DrivesType
    <3> QED  BY <1>1, <2>1, <2>2, <3>1, <3>2
  <2>8. writes' \in 0..MaxWrites  BY DrivesParts DEF CreateLooks, DrivesType
  <2> QED  BY <2>4, <2>5, <2>6, <2>7, <2>8, CallMoves DEF CreateLooks
<1> QED  BY <1>2, <1>3

-----------------------------------------------------------------------------
(* Drives: calls that fill and drop copies *)

SharedTyped ==
  /\ list = NoList \/ list \in [Types -> DriveRows]
  /\ actives = NoIds \/ actives \subseteq Types
  /\ byId \in [Types -> DriveRows \cup {Unknown}]
  /\ writes \in 0..MaxWrites /\ misses \in 0..MaxMisses
  /\ stale \subseteq Types \cup {"list", "actives"}

\* While the call c becomes v and the rows stay, a copy is left alone by a call that goes on
\* having to drop it or had not to, or is right, if it is there.
ListFollows(c, v) ==
  \/ list' = list /\ ("list" \in stale => "list" \in stale') /\ (Pending(c) => Pending(v))
  \/ list' # NoList /\ "list" \notin stale' => list' = Selected
IdsFollow(c, v) ==
  \/ actives' = actives /\ ("actives" \in stale => "actives" \in stale') /\ (Pending(c) => Pending(v))
  \/ actives' # NoIds /\ "actives" \notin stale' => actives' = AllActive
DriveFollows(c, v, t) ==
  \/ byId'[t] = byId[t] /\ (t \in stale => t \in stale') /\ (PendingFor(c, t) => PendingFor(v, t))
  \/ t \notin stale' /\ byId'[t] # Unknown => byId'[t] = rows[t] /\ Active(rows[t])

LEMMA CopiesFollow ==
  ASSUME DrivesInv, NEW p \in Procs, NEW v \in Calls, CallShape(v), CallFresh(v),
         rows' = rows, op' = [op EXCEPT ![p] = v], SharedTyped',
         ListFollows(op[p], v), IdsFollow(op[p], v), \A t \in Types : DriveFollows(op[p], v, t)
  PROVE  DrivesInv'
<1>1. /\ op' \in [Procs -> Calls] /\ op'[p] = v
      /\ \A q \in Procs \ {p} : op'[q] = op[q]
      /\ \A q \in Procs : CallShape(op[q])' /\ CallFresh(op[q])'
  BY OneCall
<1>2. DrivesType'  BY <1>1, DrivesParts DEF DrivesType, SharedTyped
<1>3. Selected' = Selected /\ AllActive' = AllActive  BY DEF Selected, AllActive
<1>4. ListOK'
  <2>1. CASE list' = list /\ ("list" \in stale => "list" \in stale') /\ (Pending(op[p]) => Pending(v))
    <3>1. \A q \in Procs : Pending(op[q]) => Pending(op'[q])  BY <1>1, <2>1
    <3> QED  BY <1>3, <2>1, <3>1 DEF DrivesInv, CopiesOK, ListOK
  <2>2. CASE list' # NoList /\ "list" \notin stale' => list' = Selected  BY <1>3, <2>2 DEF ListOK
  <2> QED  BY <2>1, <2>2 DEF ListFollows
<1>5. IdsOK'
  <2>1. CASE /\ actives' = actives /\ ("actives" \in stale => "actives" \in stale')
             /\ Pending(op[p]) => Pending(v)
    <3>1. \A q \in Procs : Pending(op[q]) => Pending(op'[q])  BY <1>1, <2>1
    <3> QED  BY <1>3, <2>1, <3>1 DEF DrivesInv, CopiesOK, IdsOK
  <2>2. CASE actives' # NoIds /\ "actives" \notin stale' => actives' = AllActive
    BY <1>3, <2>2 DEF IdsOK
  <2> QED  BY <2>1, <2>2 DEF IdsFollow
<1>6. ASSUME NEW t \in Types  PROVE DriveCopyOK(t)'
  <2>1. CASE /\ byId'[t] = byId[t] /\ (t \in stale => t \in stale')
             /\ PendingFor(op[p], t) => PendingFor(v, t)
    <3>1. \A q \in Procs : PendingFor(op[q], t) => PendingFor(op'[q], t)  BY <1>1, <2>1
    <3> QED  BY <2>1, <3>1 DEF DrivesInv, CopiesOK, DriveCopyOK
  <2>2. CASE t \notin stale' /\ byId'[t] # Unknown => byId'[t] = rows[t] /\ Active(rows[t])
    BY <2>2 DEF DriveCopyOK
  <2> QED  BY <2>1, <2>2 DEF DriveFollows
<1>7. (\A q \in Procs : CallShape(op[q]) /\ CallFresh(op[q]))'  BY <1>1
<1> QED  BY <1>2, <1>4, <1>5, <1>6, <1>7 DEF DrivesInv, CopiesOK

LEMMA FillListInv ==
  ASSUME DrivesInv, NEW p \in Procs, FillList(p)
  PROVE  DrivesInv'
<1>1. PICK c \in Calls : /\ c = op[p] /\ c.at = "fill" /\ c.kind = "list"
                         /\ CallFresh(c) /\ c.got \in [Types -> DriveRows]
  BY DrivesParts DEF FillList, At, Calls
<1>2. CASE ~ \E t \in Types : Active(c.got[t])  BY <1>1, <1>2, CallEnds DEF FillList
<1>3. CASE \E t \in Types : Active(c.got[t])
  <2>1. /\ list' = c.got /\ stale' = IF c.late THEN stale \cup {"list"} ELSE stale \ {"list"}
        /\ UNCHANGED <<rows, byId, actives, writes, misses>>
    BY <1>1, <1>3 DEF FillList, Filled
  <2>2. PICK v : v = AtRest  OBVIOUS
  <2>3. v \in Calls /\ CallShape(v) /\ CallFresh(v) /\ op' = [op EXCEPT ![p] = v]
    BY <2>2, RestingCall DEF FillList, Done
  <2>4. ~Pending(op[p]) /\ \A t \in Types : ~PendingFor(op[p], t)
    BY <1>1 DEF Pending, PendingFor
  <2>5. "list" \notin stale' => list' = Selected  BY <1>1, <2>1 DEF CallFresh
  <2>6. \A t \in Types : t # "list"  BY DrivesAssumption
  <2>7. SharedTyped'  BY <1>1, <2>1, DrivesParts DEF DrivesType, SharedTyped
  <2>8. ListFollows(op[p], v)  BY <2>5 DEF ListFollows
  <2>9. IdsFollow(op[p], v)  BY <2>1, <2>4 DEF IdsFollow
  <2>10. \A t \in Types : DriveFollows(op[p], v, t)  BY <2>1, <2>4, <2>6 DEF DriveFollows
  <2> QED  BY <2>1, <2>3, <2>7, <2>8, <2>9, <2>10, CopiesFollow
<1> QED  BY <1>2, <1>3

LEMMA FillOneInv ==
  ASSUME DrivesInv, NEW p \in Procs, FillOne(p)
  PROVE  DrivesInv'
<1>1. PICK c \in Calls :
        /\ c = op[p] /\ c.at = "fill" /\ c.kind \in {"one", "delete"}
        /\ CallFresh(c) /\ CallShape(c) /\ c.got \in [Types -> DriveRows] /\ c.t \in Types
  BY DrivesParts DEF FillOne, At, Calls
<1>2. PICK t : t = c.t  OBVIOUS
<1>3. /\ byId' = [byId EXCEPT ![t] = c.got[t]]
      /\ stale' = IF c.late THEN stale \cup {t} ELSE stale \ {t}
      /\ UNCHANGED <<rows, list, actives, writes, misses>>
  BY <1>1, <1>2 DEF FillOne, Filled
<1>4. ~Pending(op[p]) /\ \A u \in Types : ~PendingFor(op[p], u)
  BY <1>1 DEF Pending, PendingFor
<1>5. t \notin stale' => byId'[t] = rows[t] /\ Active(rows[t])
  <2>1. Active(c.got[t])  BY <1>1, <1>2 DEF CallShape
  <2>2. ~c.late => c.got[t] = Selected[t]  BY <1>1 DEF CallFresh
  <2>3. ~c.late => c.got[t] = rows[t]
    BY <1>1, <1>2, <2>1, <2>2, DriveValues DEF Selected, Active
  <2> QED  BY <1>1, <1>2, <1>3, <2>1, <2>3, DrivesParts DEF DrivesType
<1>6. t # "list" /\ t # "actives" /\ t \in Types  BY <1>1, <1>2, DrivesAssumption
<1>7. byId' \in [Types -> DriveRows \cup {Unknown}]  BY <1>1, <1>2, <1>3, DrivesParts DEF DrivesType
<1>8. \E v \in Calls : CallShape(v) /\ CallFresh(v) /\ op' = [op EXCEPT ![p] = v]
  <2>1. CASE c.kind = "one"
    BY <1>1, <2>1, RestingCall DEF FillOne, Done
  <2>2. CASE c.kind # "one"
    <3>1. PICK v : v = [c EXCEPT !.at = "write"]  OBVIOUS
    <3>2. v = [kind |-> c.kind, t |-> c.t, ver |-> c.ver, at |-> "write", got |-> c.got,
               todo |-> c.todo, late |-> c.late]
      BY <3>1 DEF Calls
    <3>3. v \in Calls  BY <3>2 DEF Calls
    <3>4. CallShape(v) /\ CallFresh(v)  BY <3>2 DEF CallShape, CallFresh
    <3>5. op' = [op EXCEPT ![p] = v]  BY <1>1, <2>2, <3>1 DEF FillOne, To
    <3> QED  BY <3>3, <3>4, <3>5
  <2> QED  BY <2>1, <2>2
<1>9. PICK v \in Calls : CallShape(v) /\ CallFresh(v) /\ op' = [op EXCEPT ![p] = v]  BY <1>8
<1>10. \A u \in Types : DriveFollows(op[p], v, u)
  BY <1>3, <1>4, <1>5, DrivesParts DEF DrivesType, DriveFollows
<1>11. SharedTyped'  BY <1>3, <1>6, <1>7, DrivesParts DEF DrivesType, SharedTyped
<1>12. ListFollows(op[p], v) /\ IdsFollow(op[p], v)
  BY <1>3, <1>4, <1>6 DEF ListFollows, IdsFollow
<1> QED  BY <1>3, <1>9, <1>10, <1>11, <1>12, CopiesFollow

LEMMA CreatePutsInv ==
  ASSUME DrivesInv, NEW p \in Procs, CreatePuts(p)
  PROVE  DrivesInv'
<1>1. PICK c \in Calls :
        /\ c = op[p] /\ c.at = "put" /\ c.kind = "create"
        /\ CallFresh(c) /\ c.got \in [Types -> DriveRows] /\ c.t \in Types
  BY DrivesParts DEF CreatePuts, Calls, CallShape
<1>2. PICK t : t = c.t  OBVIOUS
<1>3. /\ byId' = [byId EXCEPT ![t] = c.got[t]]
      /\ stale' = IF c.late THEN stale \cup {t} ELSE stale \ {t}
      /\ UNCHANGED <<rows, list, actives, writes, misses>>
  BY <1>1, <1>2 DEF CreatePuts, Filled
<1>4. PICK v : v = [c EXCEPT !.at = "copies"]  OBVIOUS
<1>5. v = [kind |-> c.kind, t |-> c.t, ver |-> c.ver, at |-> "copies", got |-> c.got,
           todo |-> c.todo, late |-> c.late]
  BY <1>4 DEF Calls
<1>6. v \in Calls  BY <1>5 DEF Calls
<1>7. CallShape(v) /\ CallFresh(v) /\ Pending(v)
  BY <1>1, <1>5, ChangesAre DEF CallShape, CallFresh, Pending
<1>8. op' = [op EXCEPT ![p] = v]  BY <1>1, <1>4 DEF CreatePuts, To
<1>9. \A u \in Types \ {t} : ~PendingFor(op[p], u)  BY <1>1, <1>2 DEF PendingFor
<1>10. t \notin stale' => byId'[t] = rows[t] /\ Active(rows[t])
  BY <1>1, <1>2, <1>3, DrivesParts DEF DrivesType, CallFresh
<1>11. byId' \in [Types -> DriveRows \cup {Unknown}]  BY <1>1, <1>2, <1>3, DrivesParts DEF DrivesType
<1>12. t # "list" /\ t # "actives" /\ t \in Types  BY <1>1, <1>2, DrivesAssumption
<1>13. \A u \in Types : DriveFollows(op[p], v, u)
  BY <1>3, <1>9, <1>10, DrivesParts DEF DrivesType, DriveFollows
<1>14. SharedTyped'  BY <1>3, <1>11, <1>12, DrivesParts DEF DrivesType, SharedTyped
<1>15. ListFollows(op[p], v) /\ IdsFollow(op[p], v)
  BY <1>3, <1>7, <1>12 DEF ListFollows, IdsFollow
<1> QED  BY <1>3, <1>6, <1>7, <1>8, <1>13, <1>14, <1>15, CopiesFollow

LEMMA PutIdsInv ==
  ASSUME DrivesInv, NEW p \in Procs, PutIds(p)
  PROVE  DrivesInv'
<1>1. PICK c \in Calls : c = op[p] /\ c.at = "put ids" /\ CallFresh(c) /\ c.todo \subseteq Types
  BY DrivesParts DEF PutIds, Calls
<1>2. PICK v \in Calls : /\ CallShape(v) /\ CallFresh(v) /\ op' = [op EXCEPT ![p] = v]
                         /\ Pending(op[p]) => Pending(v)
  <2>1. CASE c.kind = "wipe"
    <3>1. PICK v : v = [c EXCEPT !.at = "copies"]  OBVIOUS
    <3>2. v = [kind |-> c.kind, t |-> c.t, ver |-> c.ver, at |-> "copies", got |-> c.got,
               todo |-> c.todo, late |-> c.late]
      BY <3>1 DEF Calls
    <3>3. v \in Calls  BY <3>2 DEF Calls
    <3>4. CallShape(v) /\ CallFresh(v) /\ Pending(v)
      BY <2>1, <3>2, ChangesAre DEF CallShape, CallFresh, Pending
    <3>5. op' = [op EXCEPT ![p] = v]  BY <1>1, <2>1, <3>1 DEF PutIds, To
    <3> QED  BY <3>3, <3>4, <3>5
  <2>2. CASE c.kind # "wipe"
    <3>1. ~Pending(op[p])  BY <1>1, <2>2 DEF Pending
    <3> QED  BY <1>1, <2>2, <3>1, RestingCall DEF PutIds, Done
  <2> QED  BY <2>1, <2>2
<1>3. \A u \in Types : ~PendingFor(op[p], u)  BY <1>1 DEF PendingFor
<1>4. /\ \/ UNCHANGED <<actives, stale>>
         \/ /\ actives' = c.todo
            /\ stale' = IF c.late THEN stale \cup {"actives"} ELSE stale \ {"actives"}
      /\ UNCHANGED <<rows, list, byId, writes, misses>>
  BY <1>1 DEF PutIds, Filled
<1>5. IdsFollow(op[p], v)  BY <1>1, <1>2, <1>4 DEF CallFresh, IdsFollow
<1>6. \A u \in Types : u # "actives"  BY DrivesAssumption
<1>7. \A u \in Types : DriveFollows(op[p], v, u)  BY <1>3, <1>4, <1>6 DEF DriveFollows
<1>8. ListFollows(op[p], v)  BY <1>2, <1>4 DEF ListFollows
<1>9. SharedTyped'  BY <1>1, <1>4, DrivesParts DEF DrivesType, SharedTyped
<1> QED  BY <1>2, <1>4, <1>5, <1>7, <1>8, <1>9, CopiesFollow

LEMMA ClearInv ==
  ASSUME DrivesInv, NEW p \in Procs, NEW kept, Clear(p, kept)
  PROVE  DrivesInv'
<1>1. PICK c \in Calls : c = op[p] /\ c.at = "copies" /\ c.kind \in Changes
  BY DrivesParts DEF Clear, CallShape
<1>2. PICK all : all = {"list"} \cup DroppedIds(p) \cup {"actives"}  OBVIOUS
<1>3. \A t \in Types : PendingFor(op[p], t) => t \in all
  BY <1>1, <1>2 DEF PendingFor, DroppedIds
<1>4. all \subseteq Types \cup {"list", "actives"}
  BY <1>1, <1>2, ChangesAre DEF DroppedIds, Calls
<1>5. /\ kept \subseteq all /\ stale' = (stale \ all) \cup kept
      /\ list' = IF "list" \in kept THEN list ELSE NoList
      /\ actives' = IF "actives" \in kept THEN actives ELSE NoIds
      /\ byId' = [t \in Types |-> IF t \in all \ kept THEN Unknown ELSE byId[t]]
      /\ kept # {} => misses < MaxMisses
      /\ misses' = IF kept = {} THEN misses ELSE misses + 1
      /\ UNCHANGED <<rows, writes>>
  BY <1>2 DEF Clear
<1>6. PICK v \in Calls : CallShape(v) /\ CallFresh(v) /\ op' = [op EXCEPT ![p] = v]
  <2>1. CASE c.kind \in {"config", "wipe"}  BY <1>1, <2>1, RestingCall DEF Clear, Done
  <2>2. CASE c.kind \notin {"config", "wipe"}
    <3>1. PICK v : v = [c EXCEPT !.at = "ids"]  OBVIOUS
    <3>2. v = [kind |-> c.kind, t |-> c.t, ver |-> c.ver, at |-> "ids", got |-> c.got,
               todo |-> c.todo, late |-> c.late]
      BY <3>1 DEF Calls
    <3>3. v \in Calls  BY <3>2 DEF Calls
    <3>4. CallShape(v) /\ CallFresh(v)  BY <3>2 DEF CallShape, CallFresh
    <3>5. op' = [op EXCEPT ![p] = v]  BY <1>1, <2>2, <3>1 DEF Clear, To
    <3> QED  BY <3>3, <3>4, <3>5
  <2> QED  BY <2>1, <2>2
<1>7. misses' \in 0..MaxMisses  BY <1>5, DrivesParts, DrivesAssumption DEF DrivesType
<1>8. byId' \in [Types -> DriveRows \cup {Unknown}]  BY <1>5, DrivesParts DEF DrivesType
<1>9. stale' \subseteq Types \cup {"list", "actives"}  BY <1>4, <1>5, DrivesParts DEF DrivesType
<1>10. SharedTyped'  BY <1>5, <1>7, <1>8, <1>9, DrivesParts DEF DrivesType, SharedTyped
<1>11. ListFollows(op[p], v) /\ IdsFollow(op[p], v)  BY <1>5 DEF ListFollows, IdsFollow
<1>12. \A t \in Types : DriveFollows(op[p], v, t)  BY <1>3, <1>5 DEF DriveFollows
<1> QED  BY <1>5, <1>6, <1>10, <1>11, <1>12, CopiesFollow


-----------------------------------------------------------------------------
(* Drives: calls that write a row *)

\* A copy that a write makes wrong is dropped with it, by the writer later, or excused.
LEMMA CopiesAfterWrite ==
  ASSUME DrivesInv, NEW p \in Procs, NEW v \in Calls, CallShape(v), CallFresh(v)',
         op' = [q \in Procs |-> IF q = p THEN v ELSE Aged(q)],
         rows' \in [Types -> DriveRows],
         byId' \in [Types -> DriveRows \cup {Unknown}],
         stale' \subseteq Types \cup {"list", "actives"},
         UNCHANGED <<writes, misses>>,
         list' = NoList \/ (list' = list /\ Pending(v)),
         actives' = NoIds \/ (actives' = actives /\ Pending(v)),
         \A t \in Types :
           \/ byId'[t] = Unknown \/ t \in stale' \/ PendingFor(v, t)
           \/ /\ byId'[t] = byId[t] /\ rows'[t] = rows[t] /\ (t \in stale => t \in stale')
              /\ ~PendingFor(op[p], t)
  PROVE  DrivesInv'
<1>1. /\ op' \in [Procs -> Calls] /\ op'[p] = v
      /\ (\A q \in Procs : CallShape(op[q]) /\ CallFresh(op[q]))'
      /\ \A q \in Procs \ {p} : \A t \in Types : PendingFor(op[q], t) => PendingFor(op'[q], t)
  BY RowsWritten
<1>2. DrivesType'  BY <1>1, DrivesParts DEF DrivesType
<1>3. Pending(v) => \E q \in Procs : Pending(op'[q])  BY <1>1
<1>4. ListOK' /\ IdsOK'  BY <1>3 DEF ListOK, IdsOK
<1>5. ASSUME NEW t \in Types  PROVE DriveCopyOK(t)'
  <2>1. CASE byId'[t] = Unknown \/ t \in stale'  BY <2>1 DEF DriveCopyOK
  <2>2. CASE PendingFor(v, t)
    <3>1. \E q \in Procs : PendingFor(op'[q], t)  BY <1>1, <2>2
    <3> QED  BY <3>1 DEF DriveCopyOK
  <2>3. CASE /\ byId'[t] = byId[t] /\ rows'[t] = rows[t] /\ (t \in stale => t \in stale')
             /\ ~PendingFor(op[p], t)
    <3>1. (\E q \in Procs : PendingFor(op[q], t)) => \E q \in Procs : PendingFor(op'[q], t)
      BY <1>1, <2>3
    <3> QED  BY <2>3, <3>1, DrivesParts DEF CopiesOK, DriveCopyOK
  <2> QED  BY <2>1, <2>2, <2>3
<1> QED  BY <1>1, <1>2, <1>4, <1>5 DEF DrivesInv, CopiesOK

\* A row after a write
LEMMA RowsTyped ==
  ASSUME NEW f \in [Types -> DriveRows], NEW t \in Types
  PROVE  /\ [f EXCEPT ![t].st = "deleted", ![t].def = FALSE] \in [Types -> DriveRows]
         /\ \A n \in 0..MaxWrites : [f EXCEPT ![t].ver = n, ![t].old = FALSE] \in [Types -> DriveRows]
         /\ \A b \in BOOLEAN : [f[t] EXCEPT !.def = b] \in DriveRows
         /\ [f EXCEPT ![t].old = FALSE] \in [Types -> DriveRows]
<1>1. PICK r \in DriveRows : r = f[t]  OBVIOUS
<1>2. /\ [r EXCEPT !.st = "deleted", !.def = FALSE] \in DriveRows
      /\ \A n \in 0..MaxWrites : [r EXCEPT !.ver = n, !.old = FALSE] \in DriveRows
      /\ \A b \in BOOLEAN : [r EXCEPT !.def = b] \in DriveRows
      /\ [r EXCEPT !.old = FALSE] \in DriveRows
  BY DEF DriveRows
<1> QED  BY <1>1, <1>2

\* A row that is deleted, or written again
LEMMA DeletedRow ==
  ASSUME NEW f \in [Types -> DriveRows], NEW t \in Types
  PROVE  [f EXCEPT ![t].st = "deleted", ![t].def = FALSE] \in [Types -> DriveRows]
BY RowsTyped

LEMMA RewrittenRow ==
  ASSUME NEW f \in [Types -> DriveRows], NEW t \in Types, NEW n \in 0..MaxWrites
  PROVE  [f EXCEPT ![t].ver = n, ![t].old = FALSE] \in [Types -> DriveRows]
BY RowsTyped

\* The writer of a row that drops its copies next
LEMMA WrittenCall ==
  ASSUME DrivesInv, NEW p \in Procs, NEW new, Written(p, new), op[p].kind \in Changes
  PROVE  \E v \in Calls :
           /\ CallShape(v) /\ CallFresh(v)' /\ Pending(v) /\ rows' = new
           /\ op' = [q \in Procs |-> IF q = p THEN v ELSE Aged(q)]
           /\ v.at = "copies" /\ v.kind = op[p].kind /\ v.t = op[p].t /\ v.todo = op[p].todo
<1>1. PICK c \in Calls : c = op[p]  BY DrivesParts
<1>2. PICK v : v = [c EXCEPT !.at = "copies", !.late = FALSE]  OBVIOUS
<1>3. v = [kind |-> c.kind, t |-> c.t, ver |-> c.ver, at |-> "copies", got |-> c.got,
           todo |-> c.todo, late |-> FALSE]
  BY <1>2 DEF Calls
<1>4. v \in Calls  BY <1>3 DEF Calls
<1>5. CallShape(v) /\ CallFresh(v)' /\ Pending(v)
  BY <1>1, <1>3 DEF CallShape, CallFresh, Pending
<1>6. rows' = new /\ op' = [q \in Procs |-> IF q = p THEN v ELSE Aged(q)]
  BY <1>1, <1>2 DEF Written
<1> QED  BY <1>1, <1>3, <1>4, <1>5, <1>6

LEMMA DeleteWritesInv ==
  ASSUME DrivesInv, NEW p \in Procs, DeleteWrites(p)
  PROVE  DrivesInv'
<1>1. PICK c \in Calls : c = op[p] /\ c.at = "write" /\ c.kind = "delete" /\ c.t \in Types
  BY DrivesParts DEF DeleteWrites, At, Calls
<1>2. PICK new : /\ Written(p, new)
                 /\ new = IF rows[c.t].st = "none" THEN rows
                          ELSE [rows EXCEPT ![c.t].st = "deleted", ![c.t].def = FALSE]
  BY <1>1 DEF DeleteWrites
<1>3. new \in [Types -> DriveRows] /\ \A u \in Types \ {c.t} : new[u] = rows[u]
  <2>1. rows \in [Types -> DriveRows]  BY DrivesParts DEF DrivesType
  <2>2. [rows EXCEPT ![c.t].st = "deleted", ![c.t].def = FALSE] \in [Types -> DriveRows]
    <3>1. PICK t \in Types : t = c.t  BY <1>1
    <3>2. [rows EXCEPT ![t].st = "deleted", ![t].def = FALSE] \in [Types -> DriveRows]  BY <2>1, DeletedRow
    <3> QED  BY <3>1, <3>2
  <2>3. \A u \in Types \ {c.t} : new[u] = rows[u]  BY <1>2, <2>1
  <2> QED  BY <1>2, <2>1, <2>2, <2>3
<1>4. PICK v \in Calls :
           /\ CallShape(v) /\ CallFresh(v)' /\ Pending(v) /\ rows' = new
           /\ op' = [q \in Procs |-> IF q = p THEN v ELSE Aged(q)]
           /\ v.at = "copies" /\ v.kind = op[p].kind /\ v.t = op[p].t /\ v.todo = op[p].todo
  BY <1>1, <1>2, ChangesAre, WrittenCall
<1>5. PendingFor(v, c.t)  BY <1>1, <1>4 DEF PendingFor
<1>6. \A u \in Types : ~PendingFor(op[p], u)  BY <1>1 DEF PendingFor
<1>7. UNCHANGED <<list, byId, actives, writes, misses, stale>>  BY DEF DeleteWrites
<1> QED  BY <1>3, <1>4, <1>5, <1>6, <1>7, DrivesParts, CopiesAfterWrite DEF DrivesType

LEMMA ConfigWritesInv ==
  ASSUME DrivesInv, NEW p \in Procs, ConfigWrites(p)
  PROVE  DrivesInv'
<1>1. PICK c \in Calls : /\ c = op[p] /\ c.at = "read" /\ c.kind = "config"
                         /\ c.t \in Types /\ c.ver \in 0..MaxWrites
  BY DrivesParts DEF ConfigWrites, At, Calls
<1>2. PICK new : /\ Written(p, new)
                 /\ new = IF Active(rows[c.t])
                          THEN [rows EXCEPT ![c.t].ver = c.ver, ![c.t].old = FALSE] ELSE rows
  BY <1>1 DEF ConfigWrites
<1>3. new \in [Types -> DriveRows] /\ \A u \in Types \ {c.t} : new[u] = rows[u]
  <2>1. rows \in [Types -> DriveRows]  BY DrivesParts DEF DrivesType
  <2>2. [rows EXCEPT ![c.t].ver = c.ver, ![c.t].old = FALSE] \in [Types -> DriveRows]
    <3>1. PICK t \in Types : t = c.t  BY <1>1
    <3>2. PICK n \in 0..MaxWrites : n = c.ver  BY <1>1
    <3>3. [rows EXCEPT ![t].ver = n, ![t].old = FALSE] \in [Types -> DriveRows]  BY <2>1, RewrittenRow
    <3> QED  BY <3>1, <3>2, <3>3
  <2>3. \A u \in Types \ {c.t} : new[u] = rows[u]  BY <1>2, <2>1
  <2> QED  BY <1>2, <2>1, <2>2, <2>3
<1>4. PICK v \in Calls :
           /\ CallShape(v) /\ CallFresh(v)' /\ Pending(v) /\ rows' = new
           /\ op' = [q \in Procs |-> IF q = p THEN v ELSE Aged(q)]
           /\ v.at = "copies" /\ v.kind = op[p].kind /\ v.t = op[p].t /\ v.todo = op[p].todo
  BY <1>1, <1>2, ChangesAre, WrittenCall
<1>5. PendingFor(v, c.t)  BY <1>1, <1>4 DEF PendingFor
<1>6. \A u \in Types : ~PendingFor(op[p], u)  BY <1>1 DEF PendingFor
<1>7. UNCHANGED <<list, byId, actives, writes, misses, stale>>  BY DEF ConfigWrites
<1> QED  BY <1>3, <1>4, <1>5, <1>6, <1>7, DrivesParts, CopiesAfterWrite DEF DrivesType

LEMMA DefaultWritesInv ==
  ASSUME DrivesInv, NEW p \in Procs, DefaultWrites(p)
  PROVE  DrivesInv'
<1>1. PICK c \in Calls : c = op[p] /\ c.at = "write" /\ c.kind = "default" /\ c.todo \subseteq Types
  BY DrivesParts DEF DefaultWrites, At, Calls
<1>2. PICK new : /\ Written(p, new)
                 /\ new = [t \in Types |-> IF Active(rows[t]) THEN [rows[t] EXCEPT !.def = (t = c.t)]
                                           ELSE rows[t]]
  BY <1>1 DEF DefaultWrites
<1>3. new \in [Types -> DriveRows]
  <2>1. ASSUME NEW t \in Types  PROVE new[t] \in DriveRows
    <3>1. PICK b \in BOOLEAN : b = (t = c.t)  OBVIOUS
    <3>2. new[t] = IF Active(rows[t]) THEN [rows[t] EXCEPT !.def = b] ELSE rows[t]
      BY <1>2, <3>1
    <3>3. rows \in [Types -> DriveRows]  BY DrivesParts DEF DrivesType
    <3>4. [rows[t] EXCEPT !.def = b] \in DriveRows  BY <3>1, <3>3, RowsTyped
    <3> QED  BY <3>2, <3>3, <3>4
  <2> QED  BY <1>2, <2>1
<1>4. PICK v \in Calls :
           /\ CallShape(v) /\ CallFresh(v)' /\ Pending(v) /\ rows' = new
           /\ op' = [q \in Procs |-> IF q = p THEN v ELSE Aged(q)]
           /\ v.at = "copies" /\ v.kind = op[p].kind /\ v.t = op[p].t /\ v.todo = op[p].todo
  BY <1>1, <1>2, ChangesAre, WrittenCall
<1>5. \A u \in c.todo : PendingFor(v, u)  BY <1>1, <1>4 DEF PendingFor
<1>6. \A u \in Types : ~PendingFor(op[p], u)  BY <1>1 DEF PendingFor
<1>7. /\ stale' = stale \cup {t \in Types \ c.todo : rows'[t] # rows[t]}
      /\ UNCHANGED <<list, byId, actives, writes, misses>>
  BY <1>1 DEF DefaultWrites
<1>8. \A u \in Types : \/ u \in stale' \/ PendingFor(v, u)
                       \/ /\ byId'[u] = byId[u] /\ rows'[u] = rows[u] /\ (u \in stale => u \in stale')
                          /\ ~PendingFor(op[p], u)
  BY <1>5, <1>6, <1>7
<1>9. stale' \subseteq Types \cup {"list", "actives"}  BY <1>7, DrivesParts DEF DrivesType
<1> QED  BY <1>3, <1>4, <1>7, <1>8, <1>9, DrivesParts, CopiesAfterWrite DEF DrivesType

LEMMA WipeOneInv ==
  ASSUME DrivesInv, NEW p \in Procs, NEW t \in Types, WipeOne(p, t)
  PROVE  DrivesInv'
<1>1. PICK c \in Calls : c = op[p] /\ c.at = "write" /\ c.kind = "wipe" /\ c.todo \subseteq Types
  BY DrivesParts DEF WipeOne, At, Calls
<1>2. PICK v : v = [c EXCEPT !.todo = @ \ {t}]  OBVIOUS
<1>3. v = [kind |-> c.kind, t |-> c.t, ver |-> c.ver, at |-> c.at, got |-> c.got,
           todo |-> c.todo \ {t}, late |-> c.late]
  BY <1>2 DEF Calls
<1>4. v \in Calls  BY <1>1, <1>3 DEF Calls
<1>5. CallShape(v) /\ CallFresh(v)' /\ Pending(v)
  BY <1>1, <1>3 DEF CallShape, CallFresh, Pending
<1>6. /\ rows' = [rows EXCEPT ![t].st = "deleted", ![t].def = FALSE]
      /\ byId' = [byId EXCEPT ![t] = Unknown] /\ stale' = stale \ {t}
      /\ UNCHANGED <<list, actives, writes, misses>>
  BY DEF WipeOne
<1>7. rows' \in [Types -> DriveRows] /\ \A u \in Types \ {t} : rows'[u] = rows[u]
  <2>1. rows \in [Types -> DriveRows]  BY DrivesParts DEF DrivesType
  <2>2. [rows EXCEPT ![t].st = "deleted", ![t].def = FALSE] \in [Types -> DriveRows]  BY <2>1, DeletedRow
  <2>3. \A u \in Types \ {t} : rows'[u] = rows[u]  BY <1>6, <2>1
  <2> QED  BY <1>6, <2>2, <2>3
<1>8. byId'[t] = Unknown /\ (\A u \in Types \ {t} : byId'[u] = byId[u])
        /\ byId' \in [Types -> DriveRows \cup {Unknown}]
  BY <1>6, DrivesParts DEF DrivesType
<1>9. op' = [q \in Procs |-> IF q = p THEN v ELSE Aged(q)]  BY <1>1, <1>2 DEF WipeOne
<1>10. \A u \in Types : ~PendingFor(op[p], u)  BY <1>1 DEF PendingFor
<1> QED  BY <1>4, <1>5, <1>6, <1>7, <1>8, <1>9, <1>10, DrivesParts, CopiesAfterWrite DEF DrivesType


LEMMA CreateWritesInv ==
  ASSUME DrivesInv, NEW p \in Procs, CreateWrites(p)
  PROVE  DrivesInv'
<1>1. PICK c \in Calls : /\ c = op[p] /\ c.at = "write" /\ c.kind = "create"
                         /\ c.t \in Types /\ c.ver \in 0..MaxWrites /\ c.got \in [Types -> DriveRows]
  BY DrivesParts DEF CreateWrites, At, Calls
<1>2. PICK t : t = c.t  OBVIOUS
<1>3. (\A u \in Types : ~PendingFor(op[p], u)) /\ ~Pending(op[p])
  BY <1>1 DEF PendingFor, Pending
<1>4. rows \in [Types -> DriveRows] /\ t \in Types  BY <1>1, <1>2, DrivesParts DEF DrivesType
<1>5. UNCHANGED <<list, byId, actives, writes, misses, stale>>  BY DEF CreateWrites
<1>6. CASE c.got[t].st = "none" /\ Active(rows[t])
  <2>1. op' = [op EXCEPT ![p] = AtRest] /\ rows' = rows
    BY <1>1, <1>2, <1>6 DEF CreateWrites, Done
  <2>2. writes' \in 0..MaxWrites  BY <1>5, DrivesParts DEF DrivesType
  <2> QED  BY <1>3, <1>5, <2>1, <2>2, RestingCall, CallMoves
<1>7. CASE ~(c.got[t].st = "none" /\ Active(rows[t]))
  <2>1. PICK made : made = Created(p)  OBVIOUS
  <2>2. made \in DriveRows /\ Active(made)
    <3>1. PICK n \in [st : {"none"}, ver : {0}, def : {FALSE}, old : {FALSE}] : n = None
      BY NoneIs
    <3>2. PICK w : w = [n EXCEPT !.st = "active", !.ver = c.ver]  OBVIOUS
    <3>3. w = [st |-> "active", ver |-> c.ver, def |-> n.def, old |-> n.old]  BY <3>1, <3>2
    <3>4. made = [st |-> "active", ver |-> c.ver, def |-> FALSE, old |-> FALSE]
      BY <1>1, <2>1, <3>1, <3>2, <3>3 DEF Created
    <3> QED  BY <1>1, <3>4 DEF DriveRows, Active
  <2>3. PICK new : /\ rows' = new
                   /\ new = IF Active(rows[t]) THEN rows ELSE [rows EXCEPT ![t] = made]
    BY <1>1, <1>2, <1>7, <2>1 DEF CreateWrites
  <2>4. /\ new \in [Types -> DriveRows] /\ \A u \in Types \ {t} : new[u] = rows[u]
        /\ ~Active(rows[t]) => new[t] = made
    BY <1>4, <2>2, <2>3
  <2>5. PICK s : s = [c.got EXCEPT ![t] = made] /\ s \in [Types -> DriveRows]
    <3>1. [c.got EXCEPT ![t] = made] \in [Types -> DriveRows]  BY <1>1, <1>2, <2>2
    <3> QED  BY <3>1
  <2>6. PICK late \in BOOLEAN : late = Active(rows[t])  BY DEF Active
  <2>7. PICK v : v = [c EXCEPT !.at = "put", !.got[t] = made, !.late = late]  OBVIOUS
  <2>8. v = [kind |-> c.kind, t |-> c.t, ver |-> c.ver, at |-> "put", got |-> s, todo |-> c.todo,
             late |-> late]
    BY <2>5, <2>7 DEF Calls
  <2>9. v \in Calls  BY <2>5, <2>6, <2>8 DEF Calls
  <2>10. s[t] = made  BY <1>1, <1>2, <2>5
  <2>11. CallShape(v) /\ Pending(v) /\ PendingFor(v, t)
    BY <1>1, <1>2, <2>8 DEF CallShape, Pending, PendingFor
  <2>12. CallFresh(v)'
    <3>1. ~late => s[t] = new[t] /\ Active(new[t])  BY <2>2, <2>4, <2>6, <2>10
    <3>2. ~late => s[t] = rows'[t] /\ Active(rows'[t])  BY <2>3, <3>1
    <3>3. ~v.late => v.got[v.t] = rows'[v.t] /\ Active(rows'[v.t])  BY <1>2, <2>8, <3>2
    <3> QED  BY <2>8, <3>3 DEF CallFresh
  <2>13. op' = [q \in Procs |-> IF q = p THEN v ELSE Aged(q)]
    <3>1. [c EXCEPT !.at = "put", !.got[t] = made, !.late = Active(rows[t])] = v
      BY <2>6, <2>7
    <3> QED  BY <1>1, <1>2, <1>7, <2>1, <3>1 DEF CreateWrites
  <2> QED
    BY <1>3, <1>5, <2>3, <2>4, <2>9, <2>11, <2>12, <2>13, DrivesParts, CopiesAfterWrite DEF DrivesType
<1> QED  BY <1>6, <1>7

\* A row of the old format is rewritten as it was read.
LEMMA RowMigrated ==
  ASSUME rows \in [Types -> DriveRows], NEW t \in Types, NEW got \in [Types -> DriveRows],
         rows' = IF Active(rows[t]) THEN [rows EXCEPT ![t].ver = got[t].ver, ![t].old = FALSE] ELSE rows
  PROVE  /\ rows' \in [Types -> DriveRows] /\ \A u \in Types \ {t} : rows'[u] = rows[u]
         /\ [got EXCEPT ![t].old = FALSE] \in [Types -> DriveRows]
         /\ Active(got[t]) => Active([got EXCEPT ![t].old = FALSE][t])
         /\ got = Selected /\ Active(rows[t]) => [got EXCEPT ![t].old = FALSE] = Selected'
<1>1. got[t].ver \in 0..MaxWrites  BY DEF DriveRows
<1>2. [rows EXCEPT ![t].ver = got[t].ver, ![t].old = FALSE] \in [Types -> DriveRows]
  <2>1. PICK n \in 0..MaxWrites : n = got[t].ver  BY <1>1
  <2>2. [rows EXCEPT ![t].ver = n, ![t].old = FALSE] \in [Types -> DriveRows]  BY RewrittenRow
  <2> QED  BY <2>1, <2>2
<1>3. rows' \in [Types -> DriveRows] /\ \A u \in Types \ {t} : rows'[u] = rows[u]
  BY <1>2
<1>4. PICK s : s = [got EXCEPT ![t].old = FALSE]  OBVIOUS
<1>5. s \in [Types -> DriveRows]  BY <1>4, RowsTyped
<1>6. PICK r \in DriveRows : r = got[t]  OBVIOUS
<1>7. /\ s[t] = [st |-> r.st, ver |-> r.ver, def |-> r.def, old |-> FALSE]
      /\ \A u \in Types \ {t} : s[u] = got[u]
  <2>1. PICK b : b = FALSE  OBVIOUS
  <2>2. [r EXCEPT !.old = b] = [st |-> r.st, ver |-> r.ver, def |-> r.def, old |-> b]
    BY DEF DriveRows
  <2>3. s[t] = [r EXCEPT !.old = b] /\ \A u \in Types \ {t} : s[u] = got[u]
    BY <1>4, <1>6, <2>1
  <2> QED  BY <2>1, <2>2, <2>3
<1>8. Active(got[t]) => Active(s[t])  BY <1>6, <1>7 DEF Active
<1>9. ASSUME got = Selected, Active(rows[t])  PROVE s = Selected'
  <2>1. r = rows[t]  BY <1>6, <1>9 DEF Selected
  <2>2. rows'[t] = [st |-> r.st, ver |-> r.ver, def |-> r.def, old |-> FALSE]
    <3>1. PICK n, b : n = r.ver /\ b = FALSE  OBVIOUS
    <3>2. PICK w : w = [r EXCEPT !.ver = n, !.old = b]  OBVIOUS
    <3>3. w = [st |-> r.st, ver |-> n, def |-> r.def, old |-> b]  BY <3>2 DEF DriveRows
    <3>4. rows'[t] = w  BY <1>6, <1>9, <2>1, <3>1, <3>2
    <3> QED  BY <3>1, <3>3, <3>4
  <2>3. rows'[t] = s[t] /\ Active(rows'[t])  BY <1>7, <1>9, <2>1, <2>2 DEF Active
  <2>4. Selected' = [u \in Types |-> IF Active(rows'[u]) THEN rows'[u] ELSE None]  BY DEF Selected, Active
  <2>5. \A u \in Types : Selected'[u] = s[u]  BY <1>3, <1>7, <1>9, <2>3, <2>4 DEF Selected
  <2> QED  BY <1>5, <2>4, <2>5
<1> QED  BY <1>3, <1>4, <1>5, <1>8, <1>9


LEMMA MigrateInv ==
  ASSUME DrivesInv, NEW p \in Procs, NEW t \in Types, Migrate(p, t)
  PROVE  DrivesInv'
<1>1. PICK c \in Calls : /\ c = op[p] /\ c.at = "migrate" /\ c.got \in [Types -> DriveRows]
                         /\ CallFresh(c)
  BY DrivesParts DEF Migrate, Calls
<1>2. rows \in [Types -> DriveRows]  BY DrivesParts DEF DrivesType
<1>3. rows' = IF Active(rows[t]) THEN [rows EXCEPT ![t].ver = c.got[t].ver, ![t].old = FALSE] ELSE rows
  BY <1>1 DEF Migrate
<1>4. PICK s : s = [c.got EXCEPT ![t].old = FALSE]  OBVIOUS
<1>5. /\ rows' \in [Types -> DriveRows] /\ \A u \in Types \ {t} : rows'[u] = rows[u]
      /\ s \in [Types -> DriveRows]
      /\ c.got = Selected /\ Active(rows[t]) => s = Selected'
  BY <1>1, <1>2, <1>3, <1>4, RowMigrated
<1>6. PICK place \in {"migrate", "fill", "write"} :
        /\ place = "fill" => c.kind = "list"
        /\ place = IF \E u \in Types \ {t} : c.got[u].old THEN "migrate" ELSE Goal(c.kind)
  <2>1. PICK place : place = IF \E u \in Types \ {t} : c.got[u].old THEN "migrate" ELSE Goal(c.kind)
    OBVIOUS
  <2> QED  BY <2>1 DEF Goal
<1>7. PICK late \in BOOLEAN : /\ late = (c.late \/ rows'[t].ver # rows[t].ver \/ ~Active(rows[t]))
  BY DEF Active
<1>8. PICK v : v = [c EXCEPT !.got[t].old = FALSE, !.late = late, !.at = place]  OBVIOUS
<1>9. v = [kind |-> c.kind, t |-> c.t, ver |-> c.ver, at |-> place, got |-> s, todo |-> c.todo,
           late |-> late]
  BY <1>4, <1>8 DEF Calls
<1>10. v \in Calls  BY <1>5, <1>7, <1>9 DEF Calls
<1>11. CallShape(v)  BY <1>9, <1>6 DEF CallShape
<1>12. CallFresh(v)'
  <2>1. ~late => c.got = Selected /\ Active(rows[t])  BY <1>1, <1>7 DEF CallFresh
  <2>2. ~v.late => v.got = Selected'  BY <1>5, <1>9, <2>1
  <2> QED  BY <1>9, <2>2 DEF CallFresh
<1>13. op' = [q \in Procs |-> IF q = p THEN v ELSE Aged(q)]
  <2>1. op' = [q \in Procs |->
                 IF q # p THEN Aged(q)
                 ELSE [c EXCEPT !.got[t].old = FALSE,
                                !.late = c.late \/ rows'[t].ver # rows[t].ver \/ ~Active(rows[t]),
                                !.at = IF \E u \in Types \ {t} : c.got[u].old
                                       THEN "migrate" ELSE Goal(c.kind)]]
    BY <1>1 DEF Migrate
  <2>2. [c EXCEPT !.got[t].old = FALSE,
                  !.late = c.late \/ rows'[t].ver # rows[t].ver \/ ~Active(rows[t]),
                  !.at = IF \E u \in Types \ {t} : c.got[u].old THEN "migrate" ELSE Goal(c.kind)] = v
    BY <1>6, <1>7, <1>8
  <2> QED  BY <2>1, <2>2
<1>14. /\ list' = NoList /\ actives' = NoIds /\ byId' = [byId EXCEPT ![t] = Unknown]
       /\ stale' = stale \ {"list", "actives", t} /\ UNCHANGED <<writes, misses>>
  BY DEF Migrate
<1>15. /\ byId'[t] = Unknown /\ (\A u \in Types \ {t} : byId'[u] = byId[u])
       /\ byId' \in [Types -> DriveRows \cup {Unknown}]
  BY <1>14, DrivesParts DEF DrivesType
<1>16. \A u \in Types : u # "list" /\ u # "actives" /\ ~PendingFor(op[p], u)
  BY <1>1, DrivesAssumption DEF PendingFor
<1>17. \A u \in Types : \/ byId'[u] = Unknown
                        \/ /\ byId'[u] = byId[u] /\ rows'[u] = rows[u] /\ (u \in stale => u \in stale')
                           /\ ~PendingFor(op[p], u)
  BY <1>5, <1>14, <1>15, <1>16
<1>18. stale' \subseteq Types \cup {"list", "actives"}  BY <1>14, DrivesParts DEF DrivesType
<1> QED
  BY <1>5, <1>10, <1>11, <1>12, <1>13, <1>14, <1>15, <1>17, <1>18, CopiesAfterWrite

LEMMA MigrateOneInv ==
  ASSUME DrivesInv, NEW p \in Procs, MigrateOne(p)
  PROVE  DrivesInv'
<1>1. PICK c \in Calls : /\ c = op[p] /\ c.at = "migrate one" /\ c.got \in [Types -> DriveRows]
                         /\ CallFresh(c) /\ CallShape(c) /\ c.t \in Types
  BY DrivesParts DEF MigrateOne, Calls
<1>2. rows \in [Types -> DriveRows]  BY DrivesParts DEF DrivesType
<1>3. PICK t \in Types : t = c.t  BY <1>1
<1>4. rows' = IF Active(rows[t]) THEN [rows EXCEPT ![t].ver = c.got[t].ver, ![t].old = FALSE] ELSE rows
  BY <1>1, <1>3 DEF MigrateOne
<1>5. PICK s : s = [c.got EXCEPT ![t].old = FALSE]  OBVIOUS
<1>6. /\ rows' \in [Types -> DriveRows] /\ \A u \in Types \ {t} : rows'[u] = rows[u]
      /\ s \in [Types -> DriveRows] /\ (Active(c.got[t]) => Active(s[t]))
      /\ c.got = Selected /\ Active(rows[t]) => s = Selected'
  BY <1>1, <1>2, <1>4, <1>5, RowMigrated
<1>7. PICK late \in BOOLEAN : /\ late = (c.late \/ rows'[t].ver # rows[t].ver \/ ~Active(rows[t]))
  BY DEF Active
<1>8. PICK v : v = [c EXCEPT !.got[t].old = FALSE, !.at = "fill", !.late = late]  OBVIOUS
<1>9. v = [kind |-> c.kind, t |-> c.t, ver |-> c.ver, at |-> "fill", got |-> s, todo |-> c.todo,
           late |-> late]
  BY <1>5, <1>8 DEF Calls
<1>10. v \in Calls  BY <1>6, <1>7, <1>9 DEF Calls
<1>11. CallShape(v)
  <2>1. c.kind \in {"one", "delete"}  BY <1>1 DEF CallShape
  <2>2. Active(v.got[v.t])  BY <1>1, <1>3, <1>6, <1>9, <2>1 DEF CallShape
  <2> QED  BY <1>9, <2>1, <2>2 DEF CallShape
<1>12. CallFresh(v)'
  <2>1. ~late => c.got = Selected /\ Active(rows[t])  BY <1>1, <1>7 DEF CallFresh
  <2>2. ~v.late => v.got = Selected'  BY <1>6, <1>9, <2>1
  <2> QED  BY <1>9, <2>2 DEF CallFresh
<1>13. op' = [q \in Procs |-> IF q = p THEN v ELSE Aged(q)]
  <2>1. op' = [q \in Procs |->
                 IF q # p THEN Aged(q)
                 ELSE [c EXCEPT !.got[t].old = FALSE, !.at = "fill",
                                !.late = c.late \/ rows'[t].ver # rows[t].ver \/ ~Active(rows[t])]]
    BY <1>1, <1>3 DEF MigrateOne
  <2>2. [c EXCEPT !.got[t].old = FALSE, !.at = "fill",
                  !.late = c.late \/ rows'[t].ver # rows[t].ver \/ ~Active(rows[t])] = v
    BY <1>7, <1>8
  <2> QED  BY <2>1, <2>2
<1>14. /\ list' = NoList /\ actives' = NoIds /\ byId' = [byId EXCEPT ![t] = Unknown]
       /\ stale' = stale \ {"list", "actives", t} /\ UNCHANGED <<writes, misses>>
  BY <1>1, <1>3 DEF MigrateOne
<1>15. /\ byId'[t] = Unknown /\ (\A u \in Types \ {t} : byId'[u] = byId[u])
       /\ byId' \in [Types -> DriveRows \cup {Unknown}]
  BY <1>14, DrivesParts DEF DrivesType
<1>16. \A u \in Types : u # "list" /\ u # "actives" /\ ~PendingFor(op[p], u)
  BY <1>1, DrivesAssumption DEF PendingFor
<1>17. \A u \in Types : \/ byId'[u] = Unknown
                        \/ /\ byId'[u] = byId[u] /\ rows'[u] = rows[u] /\ (u \in stale => u \in stale')
                           /\ ~PendingFor(op[p], u)
  BY <1>6, <1>14, <1>15, <1>16
<1>18. stale' \subseteq Types \cup {"list", "actives"}  BY <1>14, DrivesParts DEF DrivesType
<1> QED
  BY <1>6, <1>10, <1>11, <1>12, <1>13, <1>14, <1>15, <1>17, <1>18, CopiesAfterWrite


\* A call that answers from a copy, or goes on after it
LEMMA FoundCopyInv ==
  ASSUME DrivesInv, NEW p \in Procs, FoundCopy(p) \/ Wiped(p)
  PROVE  DrivesInv'
<1>1. CASE FoundCopy(p)
  <2>1. op[p].at = "read" /\ op[p].kind \in {"one", "delete"}  BY <1>1 DEF FoundCopy, At
  <2>2. UNCHANGED <<rows, list, byId, actives, writes, misses, stale>>  BY <1>1 DEF FoundCopy
  <2>3. CASE op[p].kind = "one"
    <3>1. Done(p)  BY <1>1, <2>3 DEF FoundCopy
    <3> QED  BY <2>1, <2>2, <3>1, CallEnds
  <2>4. CASE op[p].kind # "one"
    <3>1. To(p, "write")  BY <1>1, <2>4 DEF FoundCopy
    <3>2. "write" \in CallPlaces  BY DEF CallPlaces
    <3> QED  BY <2>1, <2>2, <3>1, <3>2, CallGoes
  <2> QED  BY <2>3, <2>4
<1>2. CASE Wiped(p)
  <2>1. op[p].at = "write" /\ op[p].kind = "wipe" /\ op[p].kind \in Changes
    BY <1>2, ChangesAre DEF Wiped, At
  <2>2. UNCHANGED <<rows, list, byId, actives, writes, misses, stale>>  BY <1>2 DEF Wiped
  <2>3. PICK at : at = IF \E t \in Types : Active(op[p].got[t]) THEN "ids" ELSE "copies"  OBVIOUS
  <2>4. To(p, at) /\ at \in CallPlaces /\ at \in {"ids", "copies"}
    BY <1>2, <2>3 DEF Wiped, CallPlaces
  <2> QED  BY <2>1, <2>2, <2>4, CallGoes
<1> QED  BY <1>1, <1>2

LEMMA AnsweredInv ==
  ASSUME DrivesInv, NEW p \in Procs, ListCopied(p) \/ DefaultLooks(p) \/ IdsCopied(p)
  PROVE  DrivesInv'
<1>1. op[p].at = "read" /\ Done(p) /\ UNCHANGED <<rows, list, byId, actives, writes, misses, stale>>
  BY DEF ListCopied, DefaultLooks, IdsCopied, At
<1> QED  BY <1>1, CallEnds

LEMMA DrivesStep == DrivesInv /\ [DrivesNext]_driveVars => DrivesInv'
<1> SUFFICES ASSUME DrivesInv, [DrivesNext]_driveVars  PROVE DrivesInv'  OBVIOUS
<1>1. CASE UNCHANGED driveVars
  <2>1. UNCHANGED <<rows, list, byId, actives, op, writes, misses, stale>>  BY <1>1 DEF driveVars
  <2>2. Selected' = Selected /\ AllActive' = AllActive  BY <2>1 DEF Selected, AllActive
  <2>3. DrivesType'  BY <2>1, DrivesParts DEF DrivesType
  <2>4. CopiesOK'  BY <2>1, <2>2, DrivesParts DEF CopiesOK, ListOK, IdsOK, DriveCopyOK
  <2>5. (\A q \in Procs : CallShape(op[q]) /\ CallFresh(op[q]))'
    BY <2>1, <2>2, DrivesParts DEF CallShape, CallFresh
  <2> QED  BY <2>3, <2>4, <2>5 DEF DrivesInv
<1>2. CASE DrivesNext
  <2>1. PICK p \in Procs :
       \/ \E t \in Types : \/ \E what \in {"create", "delete", "default", "config", "one"} :
                                Begin(p, what, t)
                           \/ Migrate(p, t) \/ WipeOne(p, t)
       \/ \E what \in {"wipe", "list", "all"} : Begin(p, what, AtRest.t)
       \/ ListCopied(p) \/ ReadRows(p) \/ FillList(p) \/ FoundCopy(p) \/ FoundRow(p)
       \/ MigrateOne(p) \/ FillOne(p) \/ CreateLooks(p) \/ CreateWrites(p) \/ CreatePuts(p)
       \/ DeleteWrites(p) \/ Wiped(p) \/ DefaultLooks(p) \/ DefaultWrites(p) \/ ConfigWrites(p)
       \/ \E kept \in {{}} \cup {{k} : k \in {"list", "actives"} \cup Types} : Clear(p, kept)
       \/ ReadIds(p) \/ IdsCopied(p) \/ PutIds(p)
    BY <1>2 DEF DrivesNext
  <2>2. ASSUME NEW t \in Types, NEW what \in CallKinds \ {"none"}, Begin(p, what, t)  PROVE DrivesInv'
    BY <2>2, BeginInv
  <2>3. {"create", "delete", "default", "config", "one", "wipe", "list", "all"} \subseteq
          CallKinds \ {"none"}
    BY ChangesAre DEF CallKinds
  <2>4. ASSUME NEW t \in Types, Migrate(p, t) \/ WipeOne(p, t)  PROVE DrivesInv'
    BY <2>4, MigrateInv, WipeOneInv
  <2>5. CASE ReadRows(p) \/ FillList(p) \/ FoundRow(p) \/ MigrateOne(p) \/ FillOne(p) \/ CreateLooks(p)
    BY <2>5, ReadRowsInv, FillListInv, FoundRowInv, MigrateOneInv, FillOneInv, CreateLooksInv
  <2>6. CASE CreateWrites(p) \/ CreatePuts(p) \/ DeleteWrites(p) \/ DefaultWrites(p) \/ ConfigWrites(p)
    BY <2>6, CreateWritesInv, CreatePutsInv, DeleteWritesInv, DefaultWritesInv, ConfigWritesInv
  <2>7. ASSUME NEW kept, Clear(p, kept)  PROVE DrivesInv'  BY <2>7, ClearInv
  <2>8. CASE ReadIds(p) \/ PutIds(p) \/ FoundCopy(p) \/ Wiped(p) \/ ListCopied(p) \/ DefaultLooks(p)
               \/ IdsCopied(p)
    BY <2>8, ReadIdsInv, PutIdsInv, FoundCopyInv, AnsweredInv
  <2> QED  BY <2>1, <2>2, <2>3, <2>4, <2>5, <2>6, <2>7, <2>8, RestingCall
<1> QED  BY <1>1, <1>2

\* What the invariant says when no call that writes is under way
LEMMA DrivesInvSafe == DrivesInv => DrivesSafe
<1> SUFFICES ASSUME DrivesInv  PROVE DrivesSafe  OBVIOUS
<1>1. DrivesTypeOK  BY DrivesParts DEF DrivesType, DrivesTypeOK
<1>2. ASSUME \A p \in Procs : op[p].kind \notin Changes
      PROVE  \A p \in Procs : ~Pending(op[p]) /\ \A t \in Types : ~PendingFor(op[p], t)
  BY <1>2, DrivesParts, ChangesAre DEF Pending, PendingFor, CallShape
<1>3. CopiesAreRows
  BY <1>2, DrivesParts DEF CopiesOK, ListOK, IdsOK, DriveCopyOK, CopiesAreRows
<1> QED  BY <1>1, <1>3 DEF DrivesSafe

\* DriveRepository, for any number of calls, types, writes and lost deletions: when no call
\* that writes is under way, the user's list, each drive and the ids in the shared cache
\* say what D1 says, but for the copies that the code itself leaves wrong (stale).
THEOREM DrivesAreSafe == DrivesSpec => []DrivesSafe
<1>1. DrivesSpec => []DrivesInv  BY DrivesInitInv, DrivesStep, PTL DEF DrivesSpec
<1> QED  BY <1>1, DrivesInvSafe, PTL

-----------------------------------------------------------------------------
(* Inbox: a message is dispatched once.                                       *)

\* What can be found in a memory
In(s, x) == \E k \in DOMAIN s : s[k] = x

\* A delivery of the message is past the lock and not yet with the dispatcher.
AtWork(m) == \E d \in Deliveries : MsgOf(d) = m /\ delivery[d].at = "work"

\* The copies of a message that have reached the dispatcher
DoneCopies(m) == {c \in 1..Copies : delivery[<<m, c>>].at = "done"}

\* Every handler runs on an instance, and each time the dispatcher was called is a copy.
HandlersOK ==
  /\ \A d \in Deliveries : delivery[d].at \in {"lock", "work"} => delivery[d].node \in Clients
  /\ \A m \in Messages : handled[m] = Cardinality(DoneCopies(m))

\* One handler has worked on the message, or has it in hand; then the message has a
\* lock, whose holder remembers the message.
OneHandler(m) ==
  /\ handled[m] <= 1
  /\ AtWork(m) => handled[m] = 0
  /\ \A d, e \in Deliveries :
       MsgOf(d) = m /\ delivery[d].at = "work" /\ MsgOf(e) = m /\ delivery[e].at = "work" => d = e
  /\ AtWork(m) \/ handled[m] = 1 => msgLock[m] # NoClient
  /\ msgLock[m] # NoClient => Has(msgLock[m], m)

\* Who knows the message, or is refused, leaves it to one that works on it or has done.
Covered(m) ==
  \/ \E n \in Clients : Has(n, m)
  \/ msgLock[m] # NoClient
  \/ \E d \in Deliveries : MsgOf(d) = m /\ delivery[d].at = "dropped"
  => AtWork(m) \/ handled[m] >= 1

InboxInv ==
  /\ InboxTypeOK /\ HandlersOK
  /\ \A m \in Messages \ doubled : OneHandler(m)
  /\ \A m \in Messages \ excused : Covered(m)

\* What a memory is: a sequence of messages, as long as its capacity at most
LEMMA MemoryFacts ==
  ASSUME InboxTypeOK, NEW n \in Clients
  PROVE  processed[n] \in Seq(Messages) /\ Len(processed[n]) \in 0..Capacity
<1>1. PICK k \in 0..Capacity : processed[n] \in [1..k -> Messages]
  <2>1. processed \in [Clients -> UNION {[1..k -> Messages] : k \in 0..Capacity}]
    BY DEF InboxTypeOK
  <2>2. processed[n] \in UNION {[1..k -> Messages] : k \in 0..Capacity}
    BY <2>1
  <2> QED
    BY <2>2
<1>2. k \in Nat
  BY <1>1, InboxAssumption DEF InboxAssumption
<1>3. processed[n] \in Seq(Messages)
  BY <1>1, <1>2, SeqDef
<1>4. Len(processed[n]) \in Nat /\ DOMAIN processed[n] = 1..Len(processed[n])
  BY <1>3, LenProperties
<1>5. Len(processed[n]) = k
  <2>1. 1..k = 1..Len(processed[n])
    BY <1>1, <1>4
  <2> QED
    BY <1>2, <1>4, <2>1
<1> QED
  BY <1>1, <1>3, <1>5

\* A sequence that is short enough may be a memory.
LEMMA MayBeMemory ==
  ASSUME NEW s \in Seq(Messages), Len(s) <= Capacity
  PROVE  s \in UNION {[1..k -> Messages] : k \in 0..Capacity}
<1>1. Len(s) \in Nat /\ s \in [1..Len(s) -> Messages]
  BY LenProperties
<1>2. Len(s) \in 0..Capacity
  BY <1>1, InboxAssumption DEF InboxAssumption
<1> QED
  BY <1>1, <1>2

\* What is taken out of a memory leaves the other messages there.
LEMMA WithoutFacts ==
  ASSUME NEW n, NEW m \in Messages, processed[n] \in Seq(Messages)
  PROVE  /\ Without(n, m) \in Seq(Messages)
         /\ Len(Without(n, m)) = IF Has(n, m) THEN Len(processed[n]) - 1 ELSE Len(processed[n])
         /\ \A x : Has(n, x) /\ x # m => In(Without(n, m), x)
         /\ \A x : In(Without(n, m), x) => Has(n, x)
<1>1. /\ Len(processed[n]) \in Nat /\ DOMAIN processed[n] = 1..Len(processed[n])
      /\ \A k \in 1..Len(processed[n]) : processed[n][k] \in Messages
  BY LenProperties
<1>2. CASE ~Has(n, m)
  <2>1. Without(n, m) = processed[n]
    BY <1>2 DEF Without
  <2> QED
    BY <1>2, <2>1 DEF In, Has
<1>3. CASE Has(n, m)
  <2>1. PICK s : s = processed[n]
    OBVIOUS
  <2>2. PICK l : l = Len(s)
    OBVIOUS
  <2>3. PICK place \in 1..l : place = (CHOOSE k \in DOMAIN s : s[k] = m) /\ s[place] = m
    BY <1>1, <1>3, <2>1, <2>2 DEF Has
  <2>4. PICK w : w = [k \in 1..(l - 1) |-> IF k < place THEN s[k] ELSE s[k + 1]]
    OBVIOUS
  <2>5. Without(n, m) = w
    BY <1>3, <2>1, <2>2, <2>3, <2>4 DEF Without
  <2>6. l \in Nat /\ l > 0 /\ DOMAIN s = 1..l /\ l - 1 \in Nat
        /\ \A k \in 1..l : s[k] \in Messages
    BY <1>1, <2>1, <2>2, <2>3
  <2>7. w \in [1..(l - 1) -> Messages]
    <3>1. \A k \in 1..(l - 1) : (IF k < place THEN s[k] ELSE s[k + 1]) \in Messages
      BY <2>6
    <3> QED
      BY <2>4, <3>1
  <2>8. w \in Seq(Messages)
    BY <2>6, <2>7, SeqDef
  <2>9. Len(w) = l - 1 /\ DOMAIN w = 1..(l - 1)
    <3>1. Len(w) \in Nat /\ DOMAIN w = 1..Len(w)
      BY <2>8, LenProperties
    <3>2. DOMAIN w = 1..(l - 1)
      BY <2>4
    <3> QED
      BY <2>6, <3>1, <3>2
  <2>10. ASSUME NEW x, Has(n, x), x # m PROVE In(w, x)
    <3>1. PICK k \in 1..l : s[k] = x
      BY <2>1, <2>6, <2>10 DEF Has
    <3>2. k # place
      BY <2>3, <2>10, <3>1
    <3>3. CASE k < place
      <4>1. k \in 1..(l - 1) /\ w[k] = x
        BY <2>3, <2>4, <2>6, <3>1, <3>3
      <4> QED
        BY <2>9, <4>1 DEF In
    <3>4. CASE k > place
      <4>1. k - 1 \in 1..(l - 1) /\ ~(k - 1 < place) /\ (k - 1) + 1 = k
        BY <2>3, <2>6, <3>1, <3>4
      <4>2. w[k - 1] = x
        BY <2>4, <3>1, <4>1
      <4> QED
        BY <2>9, <4>1, <4>2 DEF In
    <3> QED
      BY <2>3, <2>6, <3>1, <3>2, <3>3, <3>4
  <2>11. ASSUME NEW x, In(w, x) PROVE Has(n, x)
    <3>1. PICK k \in 1..(l - 1) : w[k] = x
      BY <2>9, <2>11 DEF In
    <3>2. k \in 1..l /\ k + 1 \in 1..l /\ (s[k] = x \/ s[k + 1] = x)
      BY <2>4, <2>6, <3>1
    <3> QED
      BY <2>1, <2>6, <3>2 DEF Has
  <2> QED
    BY <1>3, <2>1, <2>2, <2>5, <2>8, <2>9, <2>10, <2>11
<1> QED
  BY <1>2, <1>3

\* A message that is moved to the end is there, and so are the others.
LEMMA AtEndFacts ==
  ASSUME NEW n, NEW m \in Messages, processed[n] \in Seq(Messages)
  PROVE  /\ AtEnd(n, m) \in Seq(Messages) /\ AtEnd(n, m) # <<>>
         /\ Len(AtEnd(n, m)) = IF Has(n, m) THEN Len(processed[n]) ELSE Len(processed[n]) + 1
         /\ AtEnd(n, m)[Len(AtEnd(n, m))] = m
         /\ \A x : Has(n, x) => In(AtEnd(n, m), x)
         /\ \A x : In(AtEnd(n, m), x) => Has(n, x) \/ x = m
<1>1. PICK w : w = Without(n, m)
  OBVIOUS
<1>2. /\ w \in Seq(Messages)
      /\ Len(w) = IF Has(n, m) THEN Len(processed[n]) - 1 ELSE Len(processed[n])
      /\ \A x : Has(n, x) /\ x # m => In(w, x)
      /\ \A x : In(w, x) => Has(n, x)
  BY <1>1, WithoutFacts
<1>3. PICK s : s = AtEnd(n, m)
  OBVIOUS
<1>4. /\ s \in Seq(Messages) /\ s # <<>> /\ Len(s) = Len(w) + 1
      /\ (\A k \in 1..Len(w) : s[k] = w[k]) /\ s[Len(w) + 1] = m
  BY <1>1, <1>2, <1>3, AppendProperties DEF AtEnd
<1>5. /\ Len(w) \in Nat /\ DOMAIN w = 1..Len(w) /\ DOMAIN s = 1..(Len(w) + 1)
      /\ Len(processed[n]) \in Nat
  BY <1>2, <1>4, LenProperties
<1>6. Len(s) = IF Has(n, m) THEN Len(processed[n]) ELSE Len(processed[n]) + 1
  BY <1>2, <1>4, <1>5
<1>7. ASSUME NEW x, Has(n, x) PROVE In(s, x)
  <2>1. CASE x = m
    BY <1>4, <1>5, <2>1 DEF In
  <2>2. CASE x # m
    <3>1. PICK k \in 1..Len(w) : w[k] = x
      BY <1>2, <1>5, <1>7, <2>2 DEF In
    <3>2. k \in 1..(Len(w) + 1) /\ s[k] = x
      BY <1>4, <1>5, <3>1
    <3> QED
      BY <1>5, <3>2 DEF In
  <2> QED
    BY <2>1, <2>2
<1>8. ASSUME NEW x, In(s, x) PROVE Has(n, x) \/ x = m
  <2>1. PICK k \in 1..(Len(w) + 1) : s[k] = x
    BY <1>5, <1>8 DEF In
  <2>2. CASE k = Len(w) + 1
    BY <1>4, <2>1, <2>2
  <2>3. CASE k # Len(w) + 1
    <3>1. k \in 1..Len(w)
      BY <1>5, <2>1, <2>3
    <3>2. In(w, x)
      BY <1>4, <1>5, <2>1, <3>1 DEF In
    <3> QED
      BY <1>2, <3>2
  <2> QED
    BY <2>2, <2>3
<1> QED
  BY <1>3, <1>4, <1>6, <1>7, <1>8

\* What is remembered is there, and pushes nothing else in.
LEMMA RememberedFacts ==
  ASSUME InboxTypeOK, NEW n \in Clients, NEW m \in Messages
  PROVE  /\ Remembered(n, m) \in UNION {[1..k -> Messages] : k \in 0..Capacity}
         /\ In(Remembered(n, m), m)
         /\ \A x : In(Remembered(n, m), x) => Has(n, x) \/ x = m
<1>1. PICK s : s = AtEnd(n, m)
  OBVIOUS
<1>2. processed[n] \in Seq(Messages) /\ Len(processed[n]) \in 0..Capacity
      /\ Capacity \in Nat /\ Capacity > 0
  BY MemoryFacts, InboxAssumption DEF InboxAssumption
<1>3. /\ s \in Seq(Messages) /\ s # <<>> /\ Len(s) <= Capacity + 1
      /\ s[Len(s)] = m /\ (\A x : In(s, x) => Has(n, x) \/ x = m)
  BY <1>1, <1>2, AtEndFacts
<1>4. Len(s) \in Nat /\ DOMAIN s = 1..Len(s) /\ Len(s) > 0
  <2>1. Len(s) \in Nat /\ DOMAIN s = 1..Len(s)
    BY <1>3, LenProperties
  <2> QED
    BY <1>3, <2>1, EmptySeq
<1>5. CASE Len(s) > Capacity
  <2>1. PICK t : t = Tail(s)
    OBVIOUS
  <2>2. t \in Seq(Messages) /\ Len(t) = Len(s) - 1 /\ \A k \in 1..Len(t) : t[k] = s[k + 1]
    BY <1>3, <2>1, HeadTailProperties
  <2>3. DOMAIN t = 1..Len(t)
    BY <2>2, LenProperties
  <2>4. Len(t) \in 1..Len(t) /\ Len(t) + 1 = Len(s) /\ Len(t) <= Capacity
    BY <1>2, <1>3, <1>4, <1>5, <2>2
  <2>5. In(t, m)
    BY <1>3, <2>2, <2>3, <2>4 DEF In
  <2>6. ASSUME NEW x, In(t, x) PROVE In(s, x)
    <3>1. PICK k \in 1..Len(t) : t[k] = x
      BY <2>3, <2>6 DEF In
    <3>2. k + 1 \in 1..Len(s) /\ s[k + 1] = x
      BY <1>4, <2>2, <2>4, <3>1
    <3> QED
      BY <1>4, <3>2 DEF In
  <2>7. Remembered(n, m) = t
    BY <1>1, <1>5, <2>1 DEF Remembered
  <2>8. t \in UNION {[1..k -> Messages] : k \in 0..Capacity}
    BY <2>2, <2>4, MayBeMemory
  <2> QED
    BY <1>3, <2>5, <2>6, <2>7, <2>8
<1>6. CASE ~(Len(s) > Capacity)
  <2>1. Remembered(n, m) = s
    BY <1>1, <1>6 DEF Remembered
  <2>4. Len(s) <= Capacity
    BY <1>2, <1>4, <1>6
  <2>2. s \in UNION {[1..k -> Messages] : k \in 0..Capacity}
    BY <1>3, <2>4, MayBeMemory
  <2>3. In(s, m)
    BY <1>3, <1>4 DEF In
  <2> QED
    BY <1>3, <2>1, <2>2, <2>3
<1> QED
  BY <1>5, <1>6

\* A memory that is replaced: who has a message then
LEMMA MemoryNext ==
  ASSUME InboxTypeOK, NEW n \in Clients,
         NEW s \in UNION {[1..k -> Messages] : k \in 0..Capacity},
         processed' = [processed EXCEPT ![n] = s]
  PROVE  /\ processed' \in [Clients -> UNION {[1..k -> Messages] : k \in 0..Capacity}]
         /\ \A y : Has(n, y)' <=> In(s, y)
         /\ \A x \in Clients \ {n} : \A y : Has(x, y)' <=> Has(x, y)
<1>1. processed \in [Clients -> UNION {[1..k -> Messages] : k \in 0..Capacity}]
  BY DEF InboxTypeOK
<1>2. processed' \in [Clients -> UNION {[1..k -> Messages] : k \in 0..Capacity}]
  BY <1>1
<1>3. processed'[n] = s /\ \A x \in Clients \ {n} : processed'[x] = processed[x]
  BY <1>1
<1> QED
  BY <1>2, <1>3 DEF Has, In

\* A message is on its way as one of its copies.
LEMMA DeliveryFacts ==
  ASSUME InboxTypeOK, NEW d \in Deliveries
  PROVE  /\ MsgOf(d) \in Messages /\ d[2] \in 1..Copies /\ d = <<MsgOf(d), d[2]>>
         /\ delivery[d].at \in {"none", "lock", "work", "done", "dropped"}
         /\ delivery[d].node \in Clients \union {NoClient}
<1>1. MsgOf(d) \in Messages /\ d[2] \in 1..Copies /\ d = <<MsgOf(d), d[2]>>
  BY DEF Deliveries, MsgOf
<1>2. delivery[d] \in [at : {"none", "lock", "work", "done", "dropped"},
                       node : Clients \union {NoClient}]
  BY DEF InboxTypeOK
<1> QED
  BY <1>1, <1>2

\* A handler that comes a step further: the others are where they were.
LEMMA DeliveryNext ==
  ASSUME InboxTypeOK, NEW d \in Deliveries,
         NEW where \in {"none", "lock", "work", "done", "dropped"},
         NEW n \in Clients \union {NoClient},
         delivery' = [delivery EXCEPT ![d] = [at |-> where, node |-> n]]
  PROVE  /\ delivery' \in [Deliveries -> [at : {"none", "lock", "work", "done", "dropped"},
                                           node : Clients \union {NoClient}]]
         /\ delivery'[d].at = where /\ delivery'[d].node = n
         /\ \A e \in Deliveries \ {d} : delivery'[e] = delivery[e]
<1>1. delivery \in [Deliveries -> [at : {"none", "lock", "work", "done", "dropped"},
                                   node : Clients \union {NoClient}]]
  BY DEF InboxTypeOK
<1> QED
  BY <1>1

\* Put, as a record that is replaced
LEMMA PutFacts ==
  ASSUME InboxTypeOK, NEW d \in Deliveries, NEW where, Put(d, where)
  PROVE  delivery' = [delivery EXCEPT ![d] = [at |-> where, node |-> delivery[d].node]]
<1>1. delivery \in [Deliveries -> [at : {"none", "lock", "work", "done", "dropped"},
                                   node : Clients \union {NoClient}]]
  BY DEF InboxTypeOK
<1>2. PICK old : old = delivery[d]
  OBVIOUS
<1>3. old \in [at : {"none", "lock", "work", "done", "dropped"}, node : Clients \union {NoClient}]
  BY <1>1, <1>2
<1>4. [old EXCEPT !.at = where] = [at |-> where, node |-> old.node]
  BY <1>3
<1> QED
  BY <1>2, <1>4 DEF Put

\* Copies that are counted
LEMMA CountFacts ==
  ASSUME NEW S \in SUBSET (1..Copies)
  PROVE  /\ IsFiniteSet(S) /\ Cardinality(S) \in 0..Copies
         /\ \A c \in (1..Copies) \ S : Cardinality(S \union {c}) = Cardinality(S) + 1
<1>1. Copies \in Nat /\ 1 \in Int /\ Copies \in Int
  BY InboxAssumption DEF InboxAssumption
<1>2. IsFiniteSet(1..Copies) /\ Cardinality(1..Copies) = Copies
  <2>1. IsFiniteSet(1..Copies)
        /\ Cardinality(1..Copies) = IF 1 > Copies THEN 0 ELSE Copies - 1 + 1
    BY <1>1, FS_Interval
  <2> QED
    BY <1>1, <2>1
<1>3. IsFiniteSet(S) /\ Cardinality(S) <= Cardinality(1..Copies)
  BY <1>2, FS_Subset
<1>4. Cardinality(S) \in Nat
  BY <1>3, FS_CardinalityType
<1>5. Cardinality(S) \in 0..Copies
  BY <1>1, <1>2, <1>3, <1>4
<1>6. ASSUME NEW c \in (1..Copies) \ S PROVE Cardinality(S \union {c}) = Cardinality(S) + 1
  BY <1>3, <1>6, FS_AddElement
<1> QED
  BY <1>3, <1>5, <1>6

\* A handler that neither reaches nor leaves the dispatcher changes no count.
LEMMA HandlersStay ==
  ASSUME InboxTypeOK, HandlersOK, NEW d \in Deliveries,
         delivery[d].at # "done", delivery'[d].at # "done",
         \A e \in Deliveries \ {d} : delivery'[e] = delivery[e],
         delivery'[d].at \in {"lock", "work"} => delivery'[d].node \in Clients,
         handled' = handled
  PROVE  HandlersOK'
<1>1. ASSUME NEW m \in Messages PROVE DoneCopies(m)' = DoneCopies(m)
  <2>1. ASSUME NEW c \in 1..Copies
        PROVE  delivery'[<<m, c>>].at = "done" <=> delivery[<<m, c>>].at = "done"
    <3>1. <<m, c>> \in Deliveries
      BY <1>1, <2>1 DEF Deliveries
    <3> QED
      BY <3>1
  <2> QED
    BY <2>1 DEF DoneCopies
<1>2. \A m \in Messages : handled'[m] = Cardinality(DoneCopies(m)')
  BY <1>1 DEF HandlersOK
<1>3. \A e \in Deliveries : delivery'[e].at \in {"lock", "work"} => delivery'[e].node \in Clients
  BY DEF HandlersOK
<1> QED
  BY <1>2, <1>3 DEF HandlersOK

-----------------------------------------------------------------------------
(* Inbox: the steps *)

\* A delivery comes in: a message that the memory knows is dropped, and stays covered.
LEMMA ReceiveKeeps ==
  ASSUME InboxInv, NEW d \in Deliveries, NEW n \in Clients, Receive(d, n)
  PROVE  InboxInv'
<1>1. PICK m \in Messages : m = MsgOf(d)
  BY DeliveryFacts DEF InboxInv
<1>2. InboxTypeOK /\ HandlersOK
  BY DEF InboxInv
<1>3. PICK where : where = IF Has(n, m) THEN "dropped" ELSE "lock"
  OBVIOUS
<1>4. where \in {"lock", "dropped"} /\ (where = "dropped" => Has(n, m))
  BY <1>3
<1>5. delivery' = [delivery EXCEPT ![d] = [at |-> where, node |-> n]]
  BY <1>1, <1>3 DEF Receive
<1>6. /\ delivery' \in [Deliveries -> [at : {"none", "lock", "work", "done", "dropped"},
                                       node : Clients \union {NoClient}]]
      /\ delivery'[d].at = where /\ delivery'[d].node = n
      /\ \A e \in Deliveries \ {d} : delivery'[e] = delivery[e]
  BY <1>2, <1>4, <1>5, DeliveryNext
<1>7. PICK s : s = IF Has(n, m) THEN AtEnd(n, m) ELSE processed[n]
  OBVIOUS
<1>8. /\ s \in UNION {[1..k -> Messages] : k \in 0..Capacity}
      /\ \A y : In(s, y) <=> Has(n, y)
  <2>1. processed[n] \in Seq(Messages) /\ Len(processed[n]) \in 0..Capacity
    BY <1>2, MemoryFacts
  <2>2. CASE Has(n, m)
    <3>1. s \in Seq(Messages) /\ Len(s) = Len(processed[n])
          /\ \A y : In(s, y) <=> Has(n, y)
      BY <1>7, <2>1, <2>2, AtEndFacts
    <3>2. Len(s) <= Capacity
      BY <2>1, <3>1, InboxAssumption DEF InboxAssumption
    <3> QED
      BY <3>1, <3>2, MayBeMemory
  <2>3. CASE ~Has(n, m)
    <3>1. s = processed[n]
      BY <1>7, <2>3
    <3> QED
      BY <1>2, <3>1 DEF InboxTypeOK, In, Has
  <2> QED
    BY <2>2, <2>3
<1>9. processed' = [processed EXCEPT ![n] = s]
  BY <1>1, <1>7 DEF Receive
<1>10. /\ processed' \in [Clients -> UNION {[1..k -> Messages] : k \in 0..Capacity}]
       /\ \A x \in Clients : \A y : Has(x, y)' <=> Has(x, y)
  BY <1>2, <1>8, <1>9, MemoryNext
<1>11. /\ delivery[d].at = "none" /\ msgLock' = msgLock /\ handled' = handled
       /\ excused' = excused /\ doubled' = doubled /\ mishaps' = mishaps
  BY DEF Receive
<1>12. InboxTypeOK'
  BY <1>2, <1>6, <1>10, <1>11 DEF InboxTypeOK
<1>13. HandlersOK'
  BY <1>2, <1>4, <1>6, <1>11, HandlersStay
<1>14. \A e \in Deliveries : delivery'[e].at = "work" <=> delivery[e].at = "work"
  BY <1>4, <1>6, <1>11
<1>15. ASSUME NEW y \in Messages \ doubled PROVE OneHandler(y)'
  <2>1. OneHandler(y)
    BY <1>15 DEF InboxInv
  <2>2. AtWork(y)' <=> AtWork(y)
    BY <1>14 DEF AtWork
  <2>3. msgLock[y] # NoClient => msgLock[y] \in Clients
    BY <1>2, <1>15 DEF InboxTypeOK
  <2>4. ASSUME msgLock[y] # NoClient PROVE Has(msgLock[y], y)'
    <3>1. PICK x \in Clients : x = msgLock[y]
      BY <2>3, <2>4
    <3>2. Has(x, y)'
      BY <1>10, <2>1, <2>4, <3>1 DEF OneHandler
    <3> QED
      BY <1>11, <3>1, <3>2 DEF Has
  <2> QED
    BY <1>11, <1>14, <2>1, <2>2, <2>4 DEF OneHandler
<1>16. ASSUME NEW y \in Messages \ excused PROVE Covered(y)'
  <2>1. Covered(y)
    BY <1>16 DEF InboxInv
  <2>2. AtWork(y)' <=> AtWork(y)
    BY <1>14 DEF AtWork
  <2>3. ASSUME NEW e \in Deliveries, MsgOf(e) = y, delivery'[e].at = "dropped"
        PROVE  Has(n, y) \/ delivery[e].at = "dropped"
    BY <1>1, <1>4, <1>6, <2>3
  <2> QED
    BY <1>10, <1>11, <2>1, <2>2, <2>3 DEF Covered
<1> QED
  BY <1>11, <1>12, <1>13, <1>15, <1>16 DEF InboxInv

\* The lock is taken for a message that nobody works on: were the lock the own one, the
\* instance would know the message, and the message counts as doubled.
LEMMA TakeKeeps ==
  ASSUME InboxInv, NEW d \in Deliveries, Take(d)
  PROVE  InboxInv'
<1>1. PICK m \in Messages : m = MsgOf(d)
  BY DeliveryFacts DEF InboxInv
<1>2. InboxTypeOK /\ HandlersOK
  BY DEF InboxInv
<1>3. PICK n \in Clients : n = delivery[d].node
  BY <1>2 DEF Take, HandlersOK
<1>4. /\ delivery[d].at = "lock" /\ msgLock[m] \in {NoClient, n}
      /\ msgLock' = [msgLock EXCEPT ![m] = n] /\ handled' = handled
      /\ excused' = excused /\ mishaps' = mishaps
  BY <1>1, <1>3 DEF Take, MayTake
<1>5. delivery' = [delivery EXCEPT ![d] = [at |-> "work", node |-> n]]
  BY <1>2, <1>3, PutFacts DEF Take
<1>6. /\ delivery' \in [Deliveries -> [at : {"none", "lock", "work", "done", "dropped"},
                                       node : Clients \union {NoClient}]]
      /\ delivery'[d].at = "work" /\ delivery'[d].node = n
      /\ \A e \in Deliveries \ {d} : delivery'[e] = delivery[e]
  BY <1>2, <1>5, DeliveryNext
<1>7. PICK s : s = Remembered(n, m)
  OBVIOUS
<1>8. /\ s \in UNION {[1..k -> Messages] : k \in 0..Capacity} /\ In(s, m)
      /\ \A x : In(s, x) => Has(n, x) \/ x = m
  BY <1>2, <1>7, RememberedFacts
<1>9. processed' = [processed EXCEPT ![n] = s]
  BY <1>1, <1>3, <1>7 DEF Take
<1>10. /\ processed' \in [Clients -> UNION {[1..k -> Messages] : k \in 0..Capacity}]
       /\ \A y : Has(n, y)' <=> In(s, y)
       /\ \A x \in Clients \ {n} : \A y : Has(x, y)' <=> Has(x, y)
  BY <1>2, <1>8, <1>9, MemoryNext
<1>11. doubled' = doubled \union PushedOut(n, m) \union (IF Has(n, m) THEN {m} ELSE {})
  BY <1>1, <1>3 DEF Take
<1>12. /\ doubled' \subseteq Messages /\ (\A y \in Messages \ doubled' : y \notin doubled)
       /\ (Has(n, m) => m \in doubled')
       /\ \A y \in Messages \ doubled' : Has(n, y) /\ msgLock[y] # NoClient => In(s, y)
  <2>1. PushedOut(n, m) \subseteq Messages
    BY DEF PushedOut
  <2>2. doubled \subseteq Messages
    BY <1>2 DEF InboxTypeOK
  <2>3. ASSUME NEW y \in Messages, y \notin PushedOut(n, m), Has(n, y), msgLock[y] # NoClient
        PROVE  In(s, y)
    BY <1>7, <2>3 DEF PushedOut, In
  <2> QED
    BY <1>11, <2>1, <2>2, <2>3
<1>13. /\ msgLock' \in [Messages -> Clients \union {NoClient}] /\ msgLock'[m] = n
       /\ \A y \in Messages \ {m} : msgLock'[y] = msgLock[y]
  <2>1. msgLock \in [Messages -> Clients \union {NoClient}]
    BY <1>2 DEF InboxTypeOK
  <2> QED
    BY <1>4, <2>1
<1>14. InboxTypeOK'
  BY <1>2, <1>4, <1>6, <1>10, <1>12, <1>13 DEF InboxTypeOK
<1>15. HandlersOK'
  BY <1>2, <1>4, <1>6, HandlersStay
<1>16. ASSUME NEW y \in Messages \ {m} PROVE AtWork(y)' <=> AtWork(y)
  <2>1. \A e \in Deliveries : MsgOf(e) = y => delivery'[e] = delivery[e]
    BY <1>1, <1>6, <1>16
  <2> QED
    BY <2>1 DEF AtWork
<1>17. n # NoClient
  BY InboxAssumption DEF InboxAssumption
<1>18. ASSUME NEW y \in Messages \ doubled' PROVE OneHandler(y)'
  <2>1. OneHandler(y) /\ handled'[y] = handled[y]
    BY <1>4, <1>12, <1>18 DEF InboxInv
  <2>2. CASE y = m
    <3>1. ~Has(n, m)
      BY <1>12, <1>18, <2>2
    <3>2. msgLock[m] = NoClient
      BY <1>4, <1>17, <2>1, <2>2, <3>1 DEF OneHandler
    <3>3. ~AtWork(m) /\ handled[m] # 1 /\ handled[m] <= 1
      BY <2>1, <2>2, <3>2 DEF OneHandler
    <3>4. handled[m] = 0
      <4>1. handled[m] \in 0..Copies
        BY <1>2 DEF InboxTypeOK
      <4> QED
        BY <3>3, <4>1, InboxAssumption DEF InboxAssumption
    <3>5. \A e \in Deliveries : MsgOf(e) = m /\ delivery'[e].at = "work" => e = d
      BY <1>6, <3>3 DEF AtWork
    <3>6. Has(n, m)'
      BY <1>8, <1>10
    <3>7. Has(msgLock[m], m)'
      BY <1>13, <3>6 DEF Has
    <3> QED
      BY <1>13, <1>17, <2>1, <2>2, <3>4, <3>5, <3>7 DEF OneHandler
  <2>3. CASE y # m
    <3>1. AtWork(y)' <=> AtWork(y)
      BY <1>16, <1>18, <2>3
    <3>2. \A e \in Deliveries : MsgOf(e) = y => delivery'[e] = delivery[e]
      BY <1>1, <1>6, <2>3
    <3>3. msgLock'[y] = msgLock[y] /\ (msgLock[y] # NoClient => msgLock[y] \in Clients)
      BY <1>2, <1>13, <1>18, <2>3 DEF InboxTypeOK
    <3>4. ASSUME msgLock[y] # NoClient PROVE Has(msgLock[y], y)'
      <4>1. PICK x \in Clients : x = msgLock[y]
        BY <3>3, <3>4
      <4>2. Has(x, y)
        BY <2>1, <3>4, <4>1 DEF OneHandler
      <4>3. Has(x, y)'
        BY <1>10, <1>12, <1>18, <3>4, <4>1, <4>2
      <4> QED
        BY <3>3, <4>1, <4>3 DEF Has
    <3> QED
      BY <2>1, <3>1, <3>2, <3>3, <3>4 DEF OneHandler, Has
  <2> QED
    BY <2>2, <2>3
<1>19. ASSUME NEW y \in Messages \ excused PROVE Covered(y)'
  <2>1. CASE y = m
    <3>1. AtWork(m)'
      BY <1>1, <1>6 DEF AtWork
    <3> QED
      BY <2>1, <3>1 DEF Covered
  <2>2. CASE y # m
    <3>1. Covered(y) /\ (AtWork(y)' <=> AtWork(y)) /\ msgLock'[y] = msgLock[y]
      BY <1>13, <1>16, <1>19, <2>2 DEF InboxInv
    <3>2. \A x \in Clients : Has(x, y)' => Has(x, y)
      BY <1>8, <1>10, <2>2
    <3>3. \A e \in Deliveries : MsgOf(e) = y => delivery'[e] = delivery[e]
      BY <1>1, <1>6, <2>2
    <3> QED
      BY <1>4, <3>1, <3>2, <3>3 DEF Covered
  <2> QED
    BY <2>1, <2>2
<1> QED
  BY <1>4, <1>14, <1>15, <1>18, <1>19 DEF InboxInv

\* Who is refused leaves the message to the holder of its lock, or an error excuses it.
LEMMA RefuseKeeps ==
  ASSUME InboxInv, NEW d \in Deliveries, Refuse(d)
  PROVE  InboxInv'
<1>1. PICK m \in Messages : m = MsgOf(d)
  BY DeliveryFacts DEF InboxInv
<1>2. InboxTypeOK /\ HandlersOK
  BY DEF InboxInv
<1>3. PICK n \in Clients : n = delivery[d].node
  BY <1>2 DEF Refuse, HandlersOK
<1>4. /\ delivery[d].at = "lock" /\ msgLock' = msgLock /\ handled' = handled
      /\ mishaps' \in 0..MaxMishaps /\ excused \subseteq excused' /\ excused' \subseteq Messages
      /\ (m \notin excused' => msgLock[m] # NoClient)
  <2>1. mishaps' = mishaps \/ (mishaps < MaxMishaps /\ mishaps' = mishaps + 1)
    BY DEF Refuse
  <2>2. mishaps' \in 0..MaxMishaps
    BY <1>2, <2>1, InboxAssumption DEF InboxTypeOK, InboxAssumption
  <2> QED
    BY <1>1, <1>2, <2>2 DEF Refuse, MayTake, InboxTypeOK
<1>5. delivery' = [delivery EXCEPT ![d] = [at |-> "dropped", node |-> n]]
  BY <1>2, <1>3, PutFacts DEF Refuse
<1>6. /\ delivery' \in [Deliveries -> [at : {"none", "lock", "work", "done", "dropped"},
                                       node : Clients \union {NoClient}]]
      /\ delivery'[d].at = "dropped" /\ delivery'[d].node = n
      /\ \A e \in Deliveries \ {d} : delivery'[e] = delivery[e]
  BY <1>2, <1>5, DeliveryNext
<1>7. PICK s : s = Remembered(n, m)
  OBVIOUS
<1>8. /\ s \in UNION {[1..k -> Messages] : k \in 0..Capacity} /\ In(s, m)
      /\ \A x : In(s, x) => Has(n, x) \/ x = m
  BY <1>2, <1>7, RememberedFacts
<1>9. processed' = [processed EXCEPT ![n] = s]
  BY <1>1, <1>3, <1>7 DEF Refuse
<1>10. /\ processed' \in [Clients -> UNION {[1..k -> Messages] : k \in 0..Capacity}]
       /\ \A y : Has(n, y)' <=> In(s, y)
       /\ \A x \in Clients \ {n} : \A y : Has(x, y)' <=> Has(x, y)
  BY <1>2, <1>8, <1>9, MemoryNext
<1>11. doubled' = doubled \union PushedOut(n, m)
  BY <1>1, <1>3 DEF Refuse
<1>12. /\ doubled' \subseteq Messages /\ (\A y \in Messages \ doubled' : y \notin doubled)
       /\ \A y \in Messages \ doubled' : Has(n, y) /\ msgLock[y] # NoClient => In(s, y)
  <2>1. PushedOut(n, m) \subseteq Messages
    BY DEF PushedOut
  <2>2. doubled \subseteq Messages
    BY <1>2 DEF InboxTypeOK
  <2>3. ASSUME NEW y \in Messages, y \notin PushedOut(n, m), Has(n, y), msgLock[y] # NoClient
        PROVE  In(s, y)
    BY <1>7, <2>3 DEF PushedOut, In
  <2> QED
    BY <1>11, <2>1, <2>2, <2>3
<1>13. InboxTypeOK'
  BY <1>2, <1>4, <1>6, <1>10, <1>12 DEF InboxTypeOK
<1>14. HandlersOK'
  BY <1>2, <1>4, <1>6, HandlersStay
<1>15. \A e \in Deliveries : delivery'[e].at = "work" <=> delivery[e].at = "work"
  BY <1>4, <1>6
<1>16. ASSUME NEW y \in Messages PROVE AtWork(y)' <=> AtWork(y)
  BY <1>15 DEF AtWork
<1>17. ASSUME NEW y \in Messages \ doubled' PROVE OneHandler(y)'
  <2>1. OneHandler(y) /\ (AtWork(y)' <=> AtWork(y))
    BY <1>12, <1>16, <1>17 DEF InboxInv
  <2>2. ASSUME msgLock[y] # NoClient PROVE Has(msgLock[y], y)'
    <3>1. PICK x \in Clients : x = msgLock[y]
      BY <1>2, <1>17, <2>2 DEF InboxTypeOK
    <3>2. Has(x, y)
      BY <2>1, <2>2, <3>1 DEF OneHandler
    <3>3. Has(x, y)'
      BY <1>10, <1>12, <1>17, <2>2, <3>2
    <3> QED
      BY <1>4, <3>1, <3>3 DEF Has
  <2> QED
    BY <1>4, <1>15, <2>1, <2>2 DEF OneHandler
<1>18. ASSUME NEW y \in Messages \ excused' PROVE Covered(y)'
  <2>1. Covered(y) /\ (AtWork(y)' <=> AtWork(y))
    BY <1>4, <1>16, <1>18 DEF InboxInv
  <2>2. y = m => msgLock[y] # NoClient
    BY <1>4, <1>18
  <2>3. \A x \in Clients : Has(x, y)' => Has(x, y) \/ y = m
    BY <1>8, <1>10
  <2>4. \A e \in Deliveries : MsgOf(e) = y /\ delivery'[e].at = "dropped"
                             => delivery[e].at = "dropped" \/ y = m
    BY <1>1, <1>6
  <2> QED
    BY <1>4, <2>1, <2>2, <2>3, <2>4 DEF Covered
<1> QED
  BY <1>13, <1>14, <1>17, <1>18 DEF InboxInv

\* The one handler of the message is done: one copy more is counted.
LEMMA DispatchKeeps ==
  ASSUME InboxInv, NEW d \in Deliveries, Dispatch(d)
  PROVE  InboxInv'
<1>1. PICK m \in Messages : m = MsgOf(d)
  BY DeliveryFacts DEF InboxInv
<1>2. InboxTypeOK /\ HandlersOK
  BY DEF InboxInv
<1>3. PICK n \in Clients : n = delivery[d].node
  BY <1>2 DEF Dispatch, HandlersOK
<1>4. /\ delivery[d].at = "work" /\ msgLock' = msgLock /\ processed' = processed
      /\ handled' = [handled EXCEPT ![m] = handled[m] + 1]
      /\ excused' = excused /\ doubled' = doubled /\ mishaps' = mishaps
  BY <1>1 DEF Dispatch
<1>5. delivery' = [delivery EXCEPT ![d] = [at |-> "done", node |-> n]]
  BY <1>2, <1>3, PutFacts DEF Dispatch
<1>6. /\ delivery' \in [Deliveries -> [at : {"none", "lock", "work", "done", "dropped"},
                                       node : Clients \union {NoClient}]]
      /\ delivery'[d].at = "done" /\ delivery'[d].node = n
      /\ \A e \in Deliveries \ {d} : delivery'[e] = delivery[e]
  BY <1>2, <1>5, DeliveryNext
<1>7. /\ handled'[m] = handled[m] + 1 /\ (\A y \in Messages \ {m} : handled'[y] = handled[y])
      /\ DOMAIN handled' = Messages /\ handled' = [y \in Messages |-> handled'[y]]
      /\ \A y \in Messages : handled[y] \in 0..Copies
  <2>1. handled \in [Messages -> 0..Copies]
    BY <1>2 DEF InboxTypeOK
  <2> QED
    BY <1>4, <2>1
<1>8. PICK c \in 1..Copies : c = d[2] /\ d = <<m, c>>
  BY <1>1, <1>2, DeliveryFacts
<1>9. DoneCopies(m)' = DoneCopies(m) \union {c} /\ c \notin DoneCopies(m)
  <2>1. ASSUME NEW k \in 1..Copies
        PROVE  delivery'[<<m, k>>].at = "done" <=> (delivery[<<m, k>>].at = "done" \/ k = c)
    <3>1. <<m, k>> \in Deliveries /\ (<<m, k>> = d <=> k = c)
      BY <1>8 DEF Deliveries
    <3> QED
      BY <1>6, <3>1
  <2>2. c \notin DoneCopies(m)
    BY <1>4, <1>8 DEF DoneCopies
  <2> QED
    BY <2>1, <2>2 DEF DoneCopies
<1>10. handled'[m] = Cardinality(DoneCopies(m)') /\ handled'[m] \in 0..Copies
  <2>1. PICK S \in SUBSET (1..Copies) : S = DoneCopies(m)
    BY DEF DoneCopies
  <2>2. Cardinality(S \union {c}) = Cardinality(S) + 1
    BY <1>9, <2>1, CountFacts
  <2>3. S \union {c} \in SUBSET (1..Copies)
    OBVIOUS
  <2>4. Cardinality(S \union {c}) \in 0..Copies
    BY <2>3, CountFacts
  <2>5. handled[m] = Cardinality(S)
    BY <1>2, <2>1 DEF HandlersOK
  <2> QED
    BY <1>7, <1>9, <2>1, <2>2, <2>4, <2>5
<1>11. ASSUME NEW y \in Messages \ {m} PROVE handled'[y] = Cardinality(DoneCopies(y)')
  <2>1. \A k \in 1..Copies : <<y, k>> \in Deliveries /\ <<y, k>> # d
    BY <1>8, <1>11 DEF Deliveries
  <2>2. \A k \in 1..Copies : delivery'[<<y, k>>] = delivery[<<y, k>>]
    BY <1>6, <2>1
  <2>3. DoneCopies(y)' = DoneCopies(y)
    BY <2>2 DEF DoneCopies
  <2> QED
    BY <1>2, <1>7, <1>11, <2>3 DEF HandlersOK
<1>12. handled' \in [Messages -> 0..Copies]
  BY <1>7, <1>10
<1>13. InboxTypeOK'
  BY <1>2, <1>4, <1>6, <1>12 DEF InboxTypeOK
<1>14. HandlersOK'
  <2>1. \A y \in Messages : handled'[y] = Cardinality(DoneCopies(y)')
    BY <1>10, <1>11
  <2>2. \A e \in Deliveries : delivery'[e].at \in {"lock", "work"} => delivery'[e].node \in Clients
    BY <1>2, <1>6 DEF HandlersOK
  <2> QED
    BY <2>1, <2>2 DEF HandlersOK
<1>15. \A x, y : Has(x, y)' <=> Has(x, y)
  BY <1>4 DEF Has
<1>16. ASSUME NEW y \in Messages \ {m} PROVE AtWork(y)' <=> AtWork(y)
  <2>1. \A e \in Deliveries : MsgOf(e) = y => delivery'[e] = delivery[e]
    BY <1>1, <1>6, <1>16
  <2> QED
    BY <2>1 DEF AtWork
<1>17. ASSUME NEW y \in Messages \ doubled PROVE OneHandler(y)'
  <2>1. OneHandler(y)
    BY <1>17 DEF InboxInv
  <2>2. msgLock'[y] # NoClient => Has(msgLock[y], y)'
    BY <1>4, <2>1 DEF OneHandler, Has
  <2>3. CASE y = m
    <3>1. AtWork(m)
      BY <1>1, <1>4 DEF AtWork
    <3>2. handled[m] = 0 /\ msgLock[m] # NoClient
      BY <2>1, <2>3, <3>1 DEF OneHandler
    <3>3. \A e \in Deliveries : MsgOf(e) = m /\ delivery[e].at = "work" => e = d
      BY <1>1, <1>4, <2>1, <2>3 DEF OneHandler
    <3>4. \A e \in Deliveries : MsgOf(e) = m => delivery'[e].at # "work"
      BY <1>6, <3>3
    <3>5. ~AtWork(m)'
      BY <3>4 DEF AtWork
    <3>6. handled'[m] <= 1
      BY <1>7, <3>2
    <3> QED
      BY <1>4, <2>2, <2>3, <3>2, <3>4, <3>5, <3>6 DEF OneHandler
  <2>4. CASE y # m
    <3>1. \A e \in Deliveries : MsgOf(e) = y => delivery'[e] = delivery[e]
      BY <1>1, <1>6, <2>4
    <3>2. (AtWork(y)' <=> AtWork(y)) /\ handled'[y] = handled[y]
      BY <1>7, <1>16, <1>17, <2>4
    <3> QED
      BY <1>4, <2>1, <2>2, <3>1, <3>2 DEF OneHandler
  <2> QED
    BY <2>3, <2>4
<1>18. ASSUME NEW y \in Messages \ excused PROVE Covered(y)'
  <2>1. CASE y = m
    <3>1. handled'[m] >= 1
      BY <1>7
    <3> QED
      BY <2>1, <3>1 DEF Covered
  <2>2. CASE y # m
    <3>1. \A e \in Deliveries : MsgOf(e) = y => delivery'[e] = delivery[e]
      BY <1>1, <1>6, <2>2
    <3>2. Covered(y) /\ (AtWork(y)' <=> AtWork(y)) /\ handled'[y] = handled[y]
      BY <1>7, <1>16, <1>18, <2>2 DEF InboxInv
    <3> QED
      BY <1>4, <1>15, <3>1, <3>2 DEF Covered
  <2> QED
    BY <2>1, <2>2
<1> QED
  BY <1>4, <1>13, <1>14, <1>17, <1>18 DEF InboxInv

\* What has no lock may be forgotten.
LEMMA ForgetKeeps ==
  ASSUME InboxInv, NEW n \in Clients, NEW m \in Messages, Forget(n, m)
  PROVE  InboxInv'
<1>1. InboxTypeOK /\ HandlersOK
  BY DEF InboxInv
<1>2. /\ Has(n, m) /\ msgLock[m] = NoClient /\ delivery' = delivery /\ msgLock' = msgLock
      /\ handled' = handled /\ excused' = excused /\ doubled' = doubled /\ mishaps' = mishaps
  BY DEF Forget
<1>3. PICK s : s = Without(n, m)
  OBVIOUS
<1>4. /\ s \in UNION {[1..k -> Messages] : k \in 0..Capacity}
      /\ \A x : Has(n, x) /\ x # m => In(s, x)
      /\ \A x : In(s, x) => Has(n, x)
  <2>1. processed[n] \in Seq(Messages) /\ Len(processed[n]) \in 0..Capacity
    BY <1>1, MemoryFacts
  <2>2. /\ s \in Seq(Messages) /\ Len(s) = Len(processed[n]) - 1
        /\ \A x : Has(n, x) /\ x # m => In(s, x)
        /\ \A x : In(s, x) => Has(n, x)
    BY <1>2, <1>3, <2>1, WithoutFacts
  <2>3. Len(s) <= Capacity
    BY <2>1, <2>2, InboxAssumption DEF InboxAssumption
  <2> QED
    BY <2>2, <2>3, MayBeMemory
<1>5. processed' = [processed EXCEPT ![n] = s]
  BY <1>3 DEF Forget
<1>6. /\ processed' \in [Clients -> UNION {[1..k -> Messages] : k \in 0..Capacity}]
      /\ \A y : Has(n, y)' <=> In(s, y)
      /\ \A x \in Clients \ {n} : \A y : Has(x, y)' <=> Has(x, y)
  BY <1>1, <1>4, <1>5, MemoryNext
<1>7. InboxTypeOK'
  BY <1>1, <1>2, <1>6 DEF InboxTypeOK
<1>8. \A y : DoneCopies(y)' = DoneCopies(y) /\ (AtWork(y)' <=> AtWork(y))
  BY <1>2 DEF DoneCopies, AtWork
<1>9. HandlersOK'
  BY <1>1, <1>2, <1>8 DEF HandlersOK
<1>10. ASSUME NEW y \in Messages \ doubled PROVE OneHandler(y)'
  <2>1. OneHandler(y)
    BY <1>10 DEF InboxInv
  <2>2. ASSUME msgLock[y] # NoClient PROVE Has(msgLock[y], y)'
    <3>1. PICK x \in Clients : x = msgLock[y]
      BY <1>1, <1>10, <2>2 DEF InboxTypeOK
    <3>2. Has(x, y) /\ y # m
      BY <1>2, <2>1, <2>2, <3>1 DEF OneHandler
    <3>3. Has(x, y)'
      BY <1>4, <1>6, <3>2
    <3> QED
      BY <1>2, <3>1, <3>3 DEF Has
  <2> QED
    BY <1>2, <1>8, <2>1, <2>2 DEF OneHandler
<1>11. ASSUME NEW y \in Messages \ excused PROVE Covered(y)'
  <2>1. Covered(y)
    BY <1>11 DEF InboxInv
  <2>2. \A x \in Clients : Has(x, y)' => Has(x, y)
    BY <1>4, <1>6
  <2> QED
    BY <1>2, <1>8, <2>1, <2>2 DEF Covered
<1> QED
  BY <1>2, <1>7, <1>9, <1>10, <1>11 DEF InboxInv

\* From the end of its lock on a message counts as doubled.
LEMMA LockEndsKeeps ==
  ASSUME InboxInv, NEW m \in Messages, LockEnds(m)
  PROVE  InboxInv'
<1>1. InboxTypeOK /\ HandlersOK
  BY DEF InboxInv
<1>2. /\ delivery' = delivery /\ processed' = processed /\ handled' = handled
      /\ excused' = excused /\ mishaps' = mishaps /\ doubled' = doubled \union {m}
      /\ msgLock' = [msgLock EXCEPT ![m] = NoClient]
  BY DEF LockEnds
<1>3. /\ msgLock' \in [Messages -> Clients \union {NoClient}] /\ msgLock'[m] = NoClient
      /\ \A y \in Messages \ {m} : msgLock'[y] = msgLock[y]
  <2>1. msgLock \in [Messages -> Clients \union {NoClient}]
    BY <1>1 DEF InboxTypeOK
  <2> QED
    BY <1>2, <2>1
<1>4. InboxTypeOK'
  BY <1>1, <1>2, <1>3 DEF InboxTypeOK
<1>5. /\ \A y : DoneCopies(y)' = DoneCopies(y) /\ (AtWork(y)' <=> AtWork(y))
      /\ \A x, y : Has(x, y)' <=> Has(x, y)
  BY <1>2 DEF DoneCopies, AtWork, Has
<1>6. HandlersOK'
  BY <1>1, <1>2, <1>5 DEF HandlersOK
<1>7. ASSUME NEW y \in Messages \ doubled' PROVE OneHandler(y)'
  <2>1. y \in Messages /\ y # m /\ y \notin doubled
    BY <1>2, <1>7
  <2>2. OneHandler(y) /\ msgLock'[y] = msgLock[y]
    BY <1>3, <2>1 DEF InboxInv
  <2>3. msgLock[y] # NoClient => Has(msgLock[y], y)'
    BY <1>2, <2>2 DEF OneHandler, Has
  <2> QED
    BY <1>2, <1>5, <2>2, <2>3 DEF OneHandler
<1>8. ASSUME NEW y \in Messages \ excused PROVE Covered(y)'
  <2>1. Covered(y) /\ (msgLock'[y] # NoClient => msgLock[y] # NoClient)
    BY <1>3, <1>8 DEF InboxInv
  <2> QED
    BY <1>2, <1>5, <2>1 DEF Covered
<1> QED
  BY <1>2, <1>4, <1>6, <1>7, <1>8 DEF InboxInv

\* A death takes the memory, the handlers and the locks of one instance.
LEMMA NodeDiesKeeps ==
  ASSUME InboxInv, NEW n \in Clients, NodeDies(n)
  PROVE  InboxInv'
<1>1. InboxTypeOK /\ HandlersOK
  BY DEF InboxInv
<1>2. PICK lost : lost = {d \in Deliveries : delivery[d].node = n /\ delivery[d].at \in {"lock", "work"}}
  OBVIOUS
<1>3. /\ delivery' = [d \in Deliveries |->
                        IF d \in lost THEN [delivery[d] EXCEPT !.at = "dropped"] ELSE delivery[d]]
      /\ excused' = excused \union {MsgOf(d) : d \in lost}
  BY <1>2 DEF NodeDies
<1>4. /\ processed' = [processed EXCEPT ![n] = <<>>] /\ handled' = handled
      /\ msgLock' = [m \in Messages |-> IF msgLock[m] = n THEN NoClient ELSE msgLock[m]]
      /\ doubled' = doubled \union {m \in Messages : msgLock[m] = n}
  BY DEF NodeDies
<1>5. mishaps' \in 0..MaxMishaps
  <2>1. mishaps < MaxMishaps /\ mishaps' = mishaps + 1
    BY DEF NodeDies
  <2> QED
    BY <1>1, <2>1, InboxAssumption DEF InboxTypeOK, InboxAssumption
<1>6. ASSUME NEW d \in lost
      PROVE  d \in Deliveries /\ delivery[d].at \in {"lock", "work"}
             /\ delivery'[d] = [at |-> "dropped", node |-> delivery[d].node]
             /\ delivery'[d].at = "dropped"
  <2>1. d \in Deliveries /\ delivery[d].at \in {"lock", "work"}
    BY <1>2, <1>6
  <2>2. PICK old : old = delivery[d]
    OBVIOUS
  <2>3. old \in [at : {"none", "lock", "work", "done", "dropped"}, node : Clients \union {NoClient}]
    BY <1>1, <2>1, <2>2 DEF InboxTypeOK
  <2>4. delivery'[d] = [old EXCEPT !.at = "dropped"]
    BY <1>3, <1>6, <2>1, <2>2
  <2>5. [old EXCEPT !.at = "dropped"] = [at |-> "dropped", node |-> old.node]
    BY <2>3
  <2>6. delivery'[d] = [at |-> "dropped", node |-> delivery[d].node]
    BY <2>2, <2>4, <2>5
  <2>7. delivery'[d].at = "dropped"
    BY <2>6
  <2> QED
    BY <2>1, <2>6, <2>7
<1>7. \A d \in Deliveries \ lost : delivery'[d] = delivery[d]
  BY <1>3
<1>8. delivery' \in [Deliveries -> [at : {"none", "lock", "work", "done", "dropped"},
                                    node : Clients \union {NoClient}]]
  <2>1. ASSUME NEW d \in Deliveries
        PROVE  delivery'[d] \in [at : {"none", "lock", "work", "done", "dropped"},
                                 node : Clients \union {NoClient}]
    <3>1. CASE d \in lost
      <4>1. PICK w \in Clients \union {NoClient} : w = delivery[d].node
        BY <1>1, DeliveryFacts
      <4>2. delivery'[d] = [at |-> "dropped", node |-> w]
        BY <1>6, <3>1, <4>1
      <4> QED
        BY <4>1, <4>2
    <3>2. CASE d \notin lost
      BY <1>1, <1>7, <3>2 DEF InboxTypeOK
    <3> QED
      BY <3>1, <3>2
  <2>2. delivery' = [d \in Deliveries |-> delivery'[d]]
    BY <1>3
  <2> QED
    BY <2>1, <2>2
<1>9. /\ processed' \in [Clients -> UNION {[1..k -> Messages] : k \in 0..Capacity}]
      /\ \A y : ~Has(n, y)'
      /\ \A x \in Clients \ {n} : \A y : Has(x, y)' <=> Has(x, y)
  <2>1. PICK s : s = <<>>
    OBVIOUS
  <2>2. s \in Seq(Messages) /\ Len(s) = 0 /\ DOMAIN s = {}
    BY <2>1
  <2>3. s \in UNION {[1..k -> Messages] : k \in 0..Capacity}
    <3>1. Len(s) <= Capacity
      BY <2>2, InboxAssumption DEF InboxAssumption
    <3> QED
      BY <2>2, <3>1, MayBeMemory
  <2>4. processed' = [processed EXCEPT ![n] = s]
    BY <1>4, <2>1
  <2>5. \A y : ~In(s, y)
    BY <2>2 DEF In
  <2> QED
    BY <1>1, <2>3, <2>4, <2>5, MemoryNext
<1>10. /\ msgLock' \in [Messages -> Clients \union {NoClient}]
       /\ \A y \in Messages : msgLock'[y] = IF msgLock[y] = n THEN NoClient ELSE msgLock[y]
  <2>1. msgLock \in [Messages -> Clients \union {NoClient}]
    BY <1>1 DEF InboxTypeOK
  <2> QED
    BY <1>4, <2>1
<1>11. /\ excused' \subseteq Messages /\ doubled' \subseteq Messages
       /\ excused \subseteq excused' /\ \A d \in lost : MsgOf(d) \in excused'
  <2>1. \A d \in lost : MsgOf(d) \in Messages
    BY <1>1, <1>6, DeliveryFacts
  <2> QED
    BY <1>1, <1>3, <1>4, <2>1 DEF InboxTypeOK
<1>12. InboxTypeOK'
  BY <1>1, <1>4, <1>5, <1>8, <1>9, <1>10, <1>11 DEF InboxTypeOK
<1>13. HandlersOK'
  <2>1. ASSUME NEW m \in Messages PROVE DoneCopies(m)' = DoneCopies(m)
    <3>1. ASSUME NEW c \in 1..Copies
          PROVE  delivery'[<<m, c>>].at = "done" <=> delivery[<<m, c>>].at = "done"
      <4>1. PICK d \in Deliveries : d = <<m, c>>
        BY <2>1, <3>1 DEF Deliveries
      <4>2. CASE d \in lost
        BY <1>6, <4>1, <4>2
      <4>3. CASE d \notin lost
        BY <1>7, <4>1, <4>3
      <4> QED
        BY <4>2, <4>3
    <3> QED
      BY <3>1 DEF DoneCopies
  <2>2. \A m \in Messages : handled'[m] = Cardinality(DoneCopies(m)')
    BY <1>1, <1>4, <2>1 DEF HandlersOK
  <2>3. \A e \in Deliveries : delivery'[e].at \in {"lock", "work"} => delivery'[e].node \in Clients
    BY <1>1, <1>6, <1>7 DEF HandlersOK
  <2> QED
    BY <2>2, <2>3 DEF HandlersOK
<1>14. \A e \in Deliveries : delivery'[e].at = "work" => delivery[e].at = "work"
  BY <1>6, <1>7
<1>15. ASSUME NEW y \in Messages \ doubled' PROVE OneHandler(y)'
  <2>1. y \in Messages /\ y \notin doubled /\ msgLock[y] # n
    BY <1>4, <1>15
  <2>2. OneHandler(y) /\ msgLock'[y] = msgLock[y]
    BY <1>10, <2>1 DEF InboxInv
  <2>3. AtWork(y)' => AtWork(y)
    BY <1>14 DEF AtWork
  <2>4. ASSUME msgLock[y] # NoClient PROVE Has(msgLock[y], y)'
    <3>1. PICK x \in Clients : x = msgLock[y]
      BY <1>1, <2>1, <2>4 DEF InboxTypeOK
    <3>2. Has(x, y) /\ x # n
      BY <2>1, <2>2, <2>4, <3>1 DEF OneHandler
    <3>3. Has(x, y)'
      BY <1>9, <3>1, <3>2
    <3> QED
      BY <2>2, <3>1, <3>3 DEF Has
  <2> QED
    BY <1>4, <1>14, <2>2, <2>3, <2>4 DEF OneHandler
<1>16. ASSUME NEW y \in Messages \ excused' PROVE Covered(y)'
  <2>1. y \in Messages /\ y \notin excused /\ \A d \in lost : MsgOf(d) # y
    BY <1>11, <1>16
  <2>2. Covered(y)
    BY <2>1 DEF InboxInv
  <2>3. \A e \in Deliveries : MsgOf(e) = y => delivery'[e] = delivery[e]
    BY <1>7, <2>1
  <2>4. AtWork(y)' <=> AtWork(y)
    BY <2>3 DEF AtWork
  <2>5. \A x \in Clients : Has(x, y)' => Has(x, y)
    BY <1>9
  <2>6. msgLock'[y] # NoClient => msgLock[y] # NoClient
    BY <1>10, <2>1
  <2> QED
    BY <1>4, <2>2, <2>3, <2>4, <2>5, <2>6 DEF Covered
<1> QED
  BY <1>12, <1>13, <1>15, <1>16 DEF InboxInv

-----------------------------------------------------------------------------
(* Inbox: the theorem *)

LEMMA InboxStarts == InboxInit => InboxInv
<1> SUFFICES ASSUME InboxInit PROVE InboxInv
  OBVIOUS
<1>1. Copies \in Nat /\ Capacity \in Nat /\ MaxMishaps \in Nat
  BY InboxAssumption DEF InboxAssumption
<1>2. <<>> \in UNION {[1..k -> Messages] : k \in 0..Capacity}
  <2>1. PICK s : s = <<>>
    OBVIOUS
  <2>2. s \in Seq(Messages) /\ Len(s) = 0
    BY <2>1
  <2>3. Len(s) <= Capacity
    BY <1>1, <2>2
  <2> QED
    BY <2>1, <2>2, <2>3, MayBeMemory
<1>3. InboxTypeOK
  <2>1. delivery \in [Deliveries -> [at : {"none", "lock", "work", "done", "dropped"},
                                     node : Clients \union {NoClient}]]
    BY DEF InboxInit
  <2>2. processed \in [Clients -> UNION {[1..k -> Messages] : k \in 0..Capacity}]
    BY <1>2 DEF InboxInit
  <2>3. handled \in [Messages -> 0..Copies] /\ mishaps \in 0..MaxMishaps
    BY <1>1 DEF InboxInit
  <2> QED
    BY <2>1, <2>2, <2>3 DEF InboxInit, InboxTypeOK
<1>4. \A d \in Deliveries : delivery[d].at = "none"
  BY DEF InboxInit
<1>5. \A m \in Messages : DoneCopies(m) = {} /\ ~AtWork(m) /\ handled[m] = 0
  BY <1>4 DEF InboxInit, DoneCopies, AtWork, Deliveries
<1>6. \A n \in Clients, m \in Messages : ~Has(n, m)
  BY DEF InboxInit, Has
<1>7. \A m \in Messages : msgLock[m] = NoClient
  BY DEF InboxInit
<1>8. HandlersOK
  BY <1>4, <1>5, FS_EmptySet DEF HandlersOK
<1>9. \A m \in Messages : OneHandler(m)
  BY <1>4, <1>5, <1>7 DEF OneHandler
<1>10. \A m \in Messages : Covered(m)
  BY <1>4, <1>6, <1>7 DEF Covered
<1> QED
  BY <1>3, <1>8, <1>9, <1>10 DEF InboxInv

LEMMA InboxSteps == InboxInv /\ [InboxNext]_inboxVars => InboxInv'
<1> SUFFICES ASSUME InboxInv, [InboxNext]_inboxVars PROVE InboxInv'
  OBVIOUS
<1>1. CASE \E d \in Deliveries, n \in Clients : Receive(d, n)
  BY <1>1, ReceiveKeeps
<1>2. CASE \E d \in Deliveries : Take(d)
  BY <1>2, TakeKeeps
<1>3. CASE \E d \in Deliveries : Refuse(d)
  BY <1>3, RefuseKeeps
<1>4. CASE \E d \in Deliveries : Dispatch(d)
  BY <1>4, DispatchKeeps
<1>5. CASE \E n \in Clients, m \in Messages : Forget(n, m)
  BY <1>5, ForgetKeeps
<1>6. CASE \E m \in Messages : LockEnds(m)
  BY <1>6, LockEndsKeeps
<1>7. CASE \E n \in Clients : NodeDies(n)
  BY <1>7, NodeDiesKeeps
<1>8. CASE UNCHANGED inboxVars
  <2>1. \A m : AtWork(m)' = AtWork(m) /\ DoneCopies(m)' = DoneCopies(m)
               /\ OneHandler(m)' = OneHandler(m) /\ Covered(m)' = Covered(m)
    BY <1>8 DEF inboxVars, AtWork, DoneCopies, OneHandler, Covered, Has
  <2>2. InboxTypeOK' = InboxTypeOK /\ HandlersOK' = HandlersOK
    BY <1>8, <2>1 DEF inboxVars, InboxTypeOK, HandlersOK
  <2> QED
    BY <1>8, <2>1, <2>2 DEF inboxVars, InboxInv
<1> QED
  BY <1>1, <1>2, <1>3, <1>4, <1>5, <1>6, <1>7, <1>8 DEF InboxNext

\* A message that was received and whose handlers have all ended was dispatched, and
\* a message is dispatched once.
LEMMA InboxInvSuffices == InboxInv => InboxSafe
<1> SUFFICES ASSUME InboxInv PROVE InboxSafe
  OBVIOUS
<1>1. InboxTypeOK /\ HandlersOK
  BY DEF InboxInv
<1>2. DispatchedOnce
  BY DEF DispatchedOnce, InboxInv, OneHandler
<1>3. ASSUME NEW m \in Messages \ excused, NEW d \in Deliveries, MsgOf(d) = m, delivery[d].at # "none",
             \A e \in Deliveries : MsgOf(e) = m /\ delivery[e].at # "none"
                                  => delivery[e].at \in {"done", "dropped"}
      PROVE  handled[m] >= 1
  <2>1. ~AtWork(m)
    BY <1>3 DEF AtWork
  <2>2. CASE delivery[d].at = "dropped"
    BY <1>3, <2>1, <2>2 DEF InboxInv, Covered
  <2>3. CASE delivery[d].at = "done"
    <3>1. PICK c \in 1..Copies : d = <<m, c>>
      BY <1>1, <1>3, DeliveryFacts
    <3>2. PICK S \in SUBSET (1..Copies) : S = DoneCopies(m)
      BY DEF DoneCopies
    <3>3. c \in S
      BY <2>3, <3>1, <3>2 DEF DoneCopies
    <3>4. IsFiniteSet(S) /\ Cardinality(S) \in 0..Copies /\ S # {}
      BY <3>3, CountFacts
    <3>5. Cardinality(S) # 0
      BY <3>4, FS_EmptySet
    <3>6. handled[m] = Cardinality(S)
      BY <1>1, <1>3, <3>2 DEF HandlersOK
    <3> QED
      BY <3>4, <3>5, <3>6, InboxAssumption DEF InboxAssumption
  <2> QED
    BY <1>3, <2>2, <2>3
<1>4. SomebodyDispatches
  BY <1>3 DEF SomebodyDispatches
<1> QED
  BY <1>1, <1>2, <1>4 DEF InboxSafe

\* However often and wherever Telegram delivers a message, one instance dispatches it.
THEOREM InboxIsSafe == InboxSpec => []InboxSafe
<1>1. InboxSpec => []InboxInv
  BY InboxStarts, InboxSteps, PTL DEF InboxSpec
<1> QED
  BY <1>1, InboxInvSuffices, PTL

=============================================================================
