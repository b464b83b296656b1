------------------------------ MODULE AccessGuard ------------------------------
(* What _globalGuard of the dispatcher lets pass: the role of a user         *)
(* (AuthGuard, rows in D1) and the access mode (SettingsRepository, in the   *)
(* shared cache), each behind a copy that every instance keeps for a time.   *)
(* A role is written to its row and the copy of the writer's instance is     *)
(* dropped; a mode is written to the cache and to that copy.  A behaviour is *)
(* of one of the two settings; values are numbers, every change is a new     *)
(* one.                                                                      *)
EXTENDS Naturals

CONSTANTS
  Nodes,       \* instances
  Readers,     \* calls of getRole or of SettingsRepository.get, per instance
  CopyTtl,     \* life of a copy, in ticks (5 minutes for a role, 30 for the mode)
  MaxChanges   \* bound on changes of the setting

ASSUME GuardAssumption == CopyTtl \in Nat /\ MaxChanges \in Nat

VARIABLES
  kind,     \* "role" or "mode"
  stored,   \* the row, or the value in the shared cache
  copy,     \* of an instance: value and age, NoCopy for none
  reader,   \* GuardIdle, or what a call has read and not yet copied
  writer,   \* of an instance: GuardIdle, or the value written that is to reach the copy
  own,      \* history: the last value an instance stored while no call of its own
            \* was under way that had read an older one
  since,    \* ticks since the last step of a change
  changes

guardVars == <<kind, stored, copy, reader, writer, own, since, changes>>

GuardIdle == MaxChanges + 1
NoCopy == [value |-> GuardIdle, age |-> 0]
Values == 0..MaxChanges

GuardInit ==
  /\ kind \in {"role", "mode"} /\ stored = 0
  /\ copy = [n \in Nodes |-> NoCopy]
  /\ reader = [r \in Nodes \X Readers |-> GuardIdle]
  /\ writer = [n \in Nodes |-> GuardIdle]
  /\ own = [n \in Nodes |-> 0] /\ since = 0 /\ changes = 0

Live(n) == copy[n] # NoCopy

-----------------------------------------------------------------------------
\* getRole, get: a live copy answers, and its age stays; otherwise the value is read ...
Read(n, r) ==
  /\ reader[<<n, r>>] = GuardIdle /\ ~Live(n)
  /\ reader' = [reader EXCEPT ![<<n, r>>] = stored]
  /\ UNCHANGED <<kind, stored, copy, writer, own, since, changes>>

\* Mutant: the copy is refreshed by every use.
FromCopyRenewed(n) ==
  /\ Live(n) /\ copy[n].age > 0
  /\ copy' = [copy EXCEPT ![n].age = 0]
  /\ UNCHANGED <<kind, stored, reader, writer, own, since, changes>>

FromCopy(n) == Live(n) /\ UNCHANGED guardVars

\* ... and copied, also when it was changed or another call copied it meanwhile.
Fill(n, r) ==
  /\ reader[<<n, r>>] # GuardIdle
  /\ copy' = [copy EXCEPT ![n] = [value |-> reader[<<n, r>>], age |-> 0]]
  /\ reader' = [reader EXCEPT ![<<n, r>>] = GuardIdle]
  /\ UNCHANGED <<kind, stored, writer, own, since, changes>>

\* An error of D1 loses the event; one of the cache yields the default, which is
\* "public" and is not copied.
ReadFails(n, r) ==
  /\ reader[<<n, r>>] # GuardIdle
  /\ reader' = [reader EXCEPT ![<<n, r>>] = GuardIdle]
  /\ UNCHANGED <<kind, stored, copy, writer, own, since, changes>>

-----------------------------------------------------------------------------
\* setRole, removeRole, set: the value is stored ...
Write(n) ==
  /\ writer[n] = GuardIdle /\ changes < MaxChanges
  /\ changes' = changes + 1 /\ stored' = changes + 1
  /\ writer' = [writer EXCEPT ![n] = changes + 1]
  /\ since' = 0
  /\ UNCHANGED <<kind, copy, reader, own>>

\* ... and then the copy of this instance is dropped (role) or replaced (mode).
Undisturbed(n) == \A r \in Readers : reader[<<n, r>>] \in {GuardIdle, writer[n]}

Finished(n) ==
  /\ writer[n] # GuardIdle
  /\ own' = [own EXCEPT ![n] = IF Undisturbed(n) THEN writer[n] ELSE @]
  /\ writer' = [writer EXCEPT ![n] = GuardIdle]
  /\ since' = 0
  /\ UNCHANGED <<kind, stored, reader, changes>>

Settle(n) ==
  /\ Finished(n)
  /\ copy' = [copy EXCEPT ![n] = IF kind = "role" THEN NoCopy
                                 ELSE [value |-> writer[n], age |-> 0]]

\* Time passes; calls and changes are quicker.
GuardTick ==
  /\ \A c \in DOMAIN reader : reader[c] = GuardIdle
  /\ \A n \in Nodes : writer[n] = GuardIdle
  /\ copy' = [n \in Nodes |-> IF Live(n) /\ copy[n].age + 1 < CopyTtl
                              THEN [copy[n] EXCEPT !.age = @ + 1] ELSE NoCopy]
  /\ since' = IF since > CopyTtl THEN since ELSE since + 1
  /\ UNCHANGED <<kind, stored, reader, writer, own, changes>>

GuardNext ==
  \/ GuardTick
  \/ \E n \in Nodes : \/ \E r \in Readers : Read(n, r) \/ Fill(n, r) \/ ReadFails(n, r)
                      \/ FromCopy(n) \/ Write(n) \/ Settle(n)

GuardSpec == GuardInit /\ [][GuardNext]_guardVars

-----------------------------------------------------------------------------
\* Properties

\* Every variable has its type.
GuardTypeOK ==
  /\ kind \in {"role", "mode"} /\ stored \in Values
  /\ copy \in [Nodes -> [value : Values \union {GuardIdle}, age : 0..CopyTtl]]
  /\ reader \in [Nodes \X Readers -> Values \union {GuardIdle}]
  /\ writer \in [Nodes -> Values \union {GuardIdle}]
  /\ own \in [Nodes -> Values] /\ since \in 0..(CopyTtl + 1) /\ changes \in Values

\* A ban, a new role or a new access mode is in force everywhere when one life of a copy
\* has passed since the change, also when reads, copies and other changes overlapped it.
InForceAfterTtl == since > CopyTtl => \A n \in Nodes : Live(n) => copy[n].value = stored

\* The instance that made a change does not go back behind it, unless a call of its own
\* had read the older value and copied it afterwards.
OwnChangeHolds == \A n \in Nodes : Live(n) => copy[n].value >= own[n]

\* A role or a mode that was changed is in force: here at once, elsewhere after the TTL.
GuardSafe == GuardTypeOK /\ InForceAfterTtl /\ OwnChangeHolds

=============================================================================
