-------------------------------- MODULE Drives --------------------------------
(* The drives of one user (DriveRepository): rows in D1, at most one active  *)
(* for each type, and what is derived from them: the user's list and each    *)
(* drive in the shared cache, and the list of active ids.  A call writes its  *)
(* row first and then drops or replaces the copies, each step an await of    *)
(* its own; a read fills the copies it missed.  A list that an instance      *)
(* keeps for 60 seconds spares it reads and is left out, and an older row of *)
(* a type, deleted before, is not told apart from the last one.              *)
EXTENDS Naturals

CONSTANTS
  Types,       \* types of drives
  Procs,       \* calls of the repository
  MaxWrites,   \* bound on calls that write
  MaxMisses    \* bound on copies that cannot be deleted

ASSUME DrivesAssumption ==
  /\ Types # {} /\ Types \intersect {"list", "actives"} = {}
  /\ MaxWrites \in Nat /\ MaxMisses \in Nat

VARIABLES
  rows,      \* status, config, and whether it is the default and of the old format
  list,      \* the user's list in the shared cache
  byId,      \* a drive in the shared cache
  actives,   \* ids in the shared cache
  op,        \* a call: what it is, where, what it has read, what it must still delete
  writes, misses,
  stale      \* history: copies filled by a call that had read before the last write,
             \* that could not be deleted, or that the writer of a row did not know of

driveVars == <<rows, list, byId, actives, op, writes, misses, stale>>

None == [st |-> "none", ver |-> 0, def |-> FALSE, old |-> FALSE]
\* No copy.
Unknown == [None EXCEPT !.st = "unknown"]
NoList == [t \in Types |-> Unknown]
NoIds == {"unknown"}
Active(r) == r.st = "active"
AllActive == {t \in Types : Active(rows[t])}
\* What a SELECT of the active rows yields.
Selected == [t \in Types |-> IF Active(rows[t]) THEN rows[t] ELSE None]
NoDrives == [t \in Types |-> None]
AtRest == [kind |-> "none", at |-> "rest", t |-> CHOOSE t \in Types : TRUE, ver |-> 0,
           got |-> NoDrives, todo |-> {}, late |-> FALSE]

Changes == {"create", "delete", "wipe", "default", "config"}

DrivesInit ==
  /\ rows \in [Types -> {None, [None EXCEPT !.st = "active", !.old = TRUE]}]
  /\ list = NoList /\ byId = NoList /\ actives = NoIds
  /\ op = [p \in Procs |-> AtRest]
  /\ writes = 0 /\ misses = 0 /\ stale = {}

At(p, kinds, at) == op[p].kind \in kinds /\ op[p].at = at
To(p, at) == op' = [op EXCEPT ![p].at = at]
Done(p) == op' = [op EXCEPT ![p] = AtRest]

Aged(q) == IF op[q] = AtRest THEN AtRest ELSE [op[q] EXCEPT !.late = TRUE]

\* A row is written: what the other calls have read is old from now on.
Written(p, new) ==
  /\ rows' = new
  /\ op' = [q \in Procs |-> IF q = p THEN [op[p] EXCEPT !.at = "copies", !.late = FALSE]
                            ELSE Aged(q)]
Filled(p, copies) == stale' = IF op[p].late THEN stale \union copies ELSE stale \ copies

Begin(p, kind, t) ==
  /\ op[p] = AtRest
  /\ kind \in Changes => writes < MaxWrites
  /\ writes' = IF kind \in Changes THEN writes + 1 ELSE writes
  /\ op' = [op EXCEPT ![p] = [AtRest EXCEPT !.kind = kind, !.t = t, !.at = "read",
                                           !.ver = writes']]
  /\ UNCHANGED <<rows, list, byId, actives, misses, stale>>

-----------------------------------------------------------------------------
\* Reads

\* findByUserId: the shared list, and without it the rows.
ListCopied(p) ==
  /\ At(p, {"list"}, "read")
  /\ list # NoList
  /\ Done(p)
  /\ UNCHANGED <<rows, list, byId, actives, writes, misses, stale>>

\* What a call does with the drives that it has read.
Goal(kind) == IF kind = "list" THEN "fill" ELSE "write"

\* _findDriveInD1, also with skipCache and for the calls that need the ids; a row of
\* the old format is rewritten first, as it was read.  setDefaultDrive looks before
\* whether its drive is there.
ReadRows(p) ==
  /\ At(p, {"list", "wipe", "default"}, "read")
  /\ op[p].kind = "list" => list = NoList
  /\ op[p].kind = "default" => Active(rows[op[p].t])
  /\ op' = [op EXCEPT ![p].got = Selected, ![p].late = FALSE, ![p].todo = AllActive,
                      ![p].at = IF \E t \in AllActive : rows[t].old THEN "migrate"
                                ELSE Goal(op[p].kind)]
  /\ UNCHANGED <<rows, list, byId, actives, writes, misses, stale>>

\* _migrateLegacyPasswordFormat writes the config it has read to the row, if that is
\* active, and drops the copies.
Migrate(p, t) ==
  LET r == op[p].got[t]
      new == IF Active(rows[t]) THEN [rows EXCEPT ![t].ver = r.ver, ![t].old = FALSE] ELSE rows
  IN /\ op[p].at = "migrate" /\ r.old
     /\ rows' = new
     /\ op' = [q \in Procs |->
                 IF q # p THEN Aged(q)
                 ELSE [op[p] EXCEPT !.got[t].old = FALSE,
                                    !.late = @ \/ new[t].ver # rows[t].ver \/ ~Active(rows[t]),
                                    !.at = IF \E u \in Types \ {t} : op[p].got[u].old
                                           THEN "migrate" ELSE Goal(op[p].kind)]]
     /\ list' = NoList /\ actives' = NoIds /\ byId' = [byId EXCEPT ![t] = Unknown]
     /\ stale' = stale \ {"list", "actives", t}
     /\ UNCHANGED <<writes, misses>>

\* An empty list is not copied.
FillList(p) ==
  /\ At(p, {"list"}, "fill")
  /\ IF \E t \in Types : Active(op[p].got[t])
     THEN /\ list' = op[p].got
          /\ Filled(p, {"list"})
     ELSE UNCHANGED <<list, stale>>
  /\ Done(p)
  /\ UNCHANGED <<rows, byId, actives, writes, misses>>

\* findById; delete goes on with what it has found.
FoundCopy(p) ==
  /\ At(p, {"one", "delete"}, "read") /\ byId[op[p].t] # Unknown
  /\ IF op[p].kind = "one" THEN Done(p) ELSE To(p, "write")
  /\ UNCHANGED <<rows, list, byId, actives, writes, misses, stale>>

FoundRow(p) ==
  /\ At(p, {"one", "delete"}, "read") /\ byId[op[p].t] = Unknown
  /\ IF Active(rows[op[p].t])
     THEN op' = [op EXCEPT ![p].got = Selected, ![p].late = FALSE,
                           ![p].at = IF rows[op[p].t].old THEN "migrate one" ELSE "fill"]
     ELSE Done(p)
  /\ UNCHANGED <<rows, list, byId, actives, writes, misses, stale>>

MigrateOne(p) ==
  LET t == op[p].t
      new == IF Active(rows[t]) THEN [rows EXCEPT ![t].ver = op[p].got[t].ver, ![t].old = FALSE]
             ELSE rows
  IN /\ op[p].at = "migrate one"
     /\ rows' = new
     /\ op' = [q \in Procs |->
                 IF q # p THEN Aged(q)
                 ELSE [op[p] EXCEPT !.got[t].old = FALSE, !.at = "fill",
                                    !.late = @ \/ new[t].ver # rows[t].ver \/ ~Active(rows[t])]]
     /\ list' = NoList /\ actives' = NoIds /\ byId' = [byId EXCEPT ![t] = Unknown]
     /\ stale' = stale \ {"list", "actives", t}
     /\ UNCHANGED <<writes, misses>>

FillOne(p) ==
  /\ At(p, {"one", "delete"}, "fill")
  /\ byId' = [byId EXCEPT ![op[p].t] = op[p].got[op[p].t]]
  /\ Filled(p, {op[p].t})
  /\ IF op[p].kind = "one" THEN Done(p) ELSE To(p, "write")
  /\ UNCHANGED <<rows, list, actives, writes, misses>>

-----------------------------------------------------------------------------
\* Writes

\* create: no row of the type may be active.
CreateLooks(p) ==
  /\ At(p, {"create"}, "read")
  /\ IF Active(rows[op[p].t]) THEN Done(p)
     ELSE op' = [op EXCEPT ![p].got[op[p].t] = rows[op[p].t], ![p].at = "write"]
  /\ UNCHANGED <<rows, list, byId, actives, writes, misses, stale>>

Created(p) == [None EXCEPT !.st = "active", !.ver = op[p].ver]

\* A deleted row is revived if it still is one, and the call goes on if not; an insert
\* next to an active row is refused by the index.
CreateWrites(p) ==
  LET t == op[p].t IN
  /\ At(p, {"create"}, "write")
  /\ IF op[p].got[t].st = "none" /\ Active(rows[t])
     THEN Done(p) /\ UNCHANGED rows
     ELSE /\ rows' = IF Active(rows[t]) THEN rows ELSE [rows EXCEPT ![t] = Created(p)]
          /\ op' = [q \in Procs |->
                      IF q # p THEN Aged(q)
                      ELSE [op[p] EXCEPT !.at = "put", !.got[t] = Created(p), !.late = Active(rows[t])]]
  /\ UNCHANGED <<list, byId, actives, writes, misses, stale>>

CreatePuts(p) ==
  /\ op[p].at = "put"
  /\ byId' = [byId EXCEPT ![op[p].t] = op[p].got[op[p].t]]
  /\ Filled(p, {op[p].t})
  /\ To(p, "copies")
  /\ UNCHANGED <<rows, list, actives, writes, misses>>

DeleteWrites(p) ==
  /\ At(p, {"delete"}, "write")
  /\ Written(p, IF rows[op[p].t].st = "none" THEN rows
                ELSE [rows EXCEPT ![op[p].t].st = "deleted", ![op[p].t].def = FALSE])
  /\ UNCHANGED <<list, byId, actives, writes, misses, stale>>

\* deleteByUserId: row by row, each with its copy.
WipeOne(p, t) ==
  /\ At(p, {"wipe"}, "write") /\ t \in op[p].todo
  /\ rows' = [rows EXCEPT ![t].st = "deleted", ![t].def = FALSE]
  /\ byId' = [byId EXCEPT ![t] = Unknown] /\ stale' = stale \ {t}
  /\ op' = [q \in Procs |-> IF q = p THEN [op[p] EXCEPT !.todo = @ \ {t}]
                            ELSE Aged(q)]
  /\ UNCHANGED <<list, actives, writes, misses>>

\* Then the ids are written anew, if there was a drive, and dropped with the list.
Wiped(p) ==
  /\ At(p, {"wipe"}, "write") /\ op[p].todo = {}
  /\ To(p, IF \E t \in Types : Active(op[p].got[t]) THEN "ids" ELSE "copies")
  /\ UNCHANGED <<rows, list, byId, actives, writes, misses, stale>>

\* setDefaultDrive of a drive that is not there throws.
DefaultLooks(p) ==
  /\ At(p, {"default"}, "read") /\ ~Active(rows[op[p].t])
  /\ Done(p)
  /\ UNCHANGED <<rows, list, byId, actives, writes, misses, stale>>

\* The drives whose copies will be dropped were read before the update: one that was
\* bound and made the default since then loses that, and its copy keeps it.
DefaultWrites(p) ==
  /\ At(p, {"default"}, "write")
  /\ Written(p, [t \in Types |-> IF Active(rows[t]) THEN [rows[t] EXCEPT !.def = (t = op[p].t)]
                                 ELSE rows[t]])
  /\ stale' = stale \union {t \in Types \ op[p].todo : rows'[t] # rows[t]}
  /\ UNCHANGED <<list, byId, actives, writes, misses>>

\* updateConfigData and updateRemoteFolder.
ConfigWrites(p) ==
  /\ At(p, {"config"}, "read")
  /\ Written(p, IF Active(rows[op[p].t])
                THEN [rows EXCEPT ![op[p].t].ver = op[p].ver, ![op[p].t].old = FALSE] ELSE rows)
  /\ UNCHANGED <<list, byId, actives, writes, misses, stale>>

-----------------------------------------------------------------------------
\* Copies

\* Mutant: a drive's own copy is forgotten.
DroppedIdsNone(p) == {}

\* The drives whose copies a call drops; create has just put its own.
DroppedIds(p) ==
  CASE op[p].kind = "create" -> {}
    [] op[p].kind \in {"delete", "config"} -> {op[p].t}
    [] op[p].kind = "wipe" -> {t \in Types : Active(op[p].got[t])}
    [] op[p].kind = "default" -> op[p].todo

\* clearUserDriveCache ignores what cannot be deleted; updateRemoteFolder leaves the list
\* of ids.
Clear(p, kept) ==
  LET all == {"list"} \union DroppedIds(p) \union {"actives"}
  IN /\ op[p].at = "copies"
     /\ kept \subseteq all /\ (kept # {} => misses < MaxMisses)
     /\ misses' = IF kept = {} THEN misses ELSE misses + 1
     /\ list' = IF "list" \in kept THEN list ELSE NoList
     /\ actives' = IF "actives" \in kept THEN actives ELSE NoIds
     /\ byId' = [t \in Types |-> IF t \in all \ kept THEN Unknown ELSE byId[t]]
     /\ stale' = (stale \ all) \union kept
     /\ IF op[p].kind \in {"config", "wipe"} THEN Done(p) ELSE To(p, "ids")
     /\ UNCHANGED <<rows, writes>>

\* _updateActiveDrivesList, and findAll without a copy: the ids are read ...
ReadIds(p) ==
  /\ op[p].at = "ids" \/ (At(p, {"all"}, "read") /\ actives = NoIds)
  /\ op' = [op EXCEPT ![p].todo = AllActive, ![p].at = "put ids", ![p].late = FALSE]
  /\ UNCHANGED <<rows, list, byId, actives, writes, misses, stale>>

IdsCopied(p) ==
  /\ At(p, {"all"}, "read") /\ actives # NoIds
  /\ Done(p)
  /\ UNCHANGED <<rows, list, byId, actives, writes, misses, stale>>

\* ... and written; findAll does not copy an empty list.
PutIds(p) ==
  /\ op[p].at = "put ids"
  /\ IF op[p].kind = "all" /\ op[p].todo = {} THEN UNCHANGED <<actives, stale>>
     ELSE actives' = op[p].todo /\ Filled(p, {"actives"})
  /\ IF op[p].kind = "wipe" THEN To(p, "copies") ELSE Done(p)
  /\ UNCHANGED <<rows, list, byId, writes, misses>>

DrivesNext ==
  \/ \E p \in Procs :
       \/ \E t \in Types : \/ \E kind \in {"create", "delete", "default", "config", "one"} :
                                Begin(p, kind, t)
                           \/ Migrate(p, t) \/ WipeOne(p, t)
       \/ \E kind \in {"wipe", "list", "all"} : Begin(p, kind, AtRest.t)
       \/ ListCopied(p) \/ ReadRows(p) \/ FillList(p) \/ FoundCopy(p) \/ FoundRow(p)
       \/ MigrateOne(p) \/ FillOne(p) \/ CreateLooks(p) \/ CreateWrites(p) \/ CreatePuts(p)
       \/ DeleteWrites(p) \/ Wiped(p) \/ DefaultLooks(p) \/ DefaultWrites(p) \/ ConfigWrites(p)
       \/ \E kept \in {{}} \union {{k} : k \in {"list", "actives"} \union Types} : Clear(p, kept)
       \/ ReadIds(p) \/ IdsCopied(p) \/ PutIds(p)

DrivesSpec == DrivesInit /\ [][DrivesNext]_driveVars

-----------------------------------------------------------------------------
\* Properties

DriveRows == [st : {"none", "active", "deleted"}, ver : 0..MaxWrites, def : BOOLEAN, old : BOOLEAN]

Calls ==
  [kind : Changes \union {"none", "one", "list", "all"}, t : Types, ver : 0..MaxWrites,
   at : {"rest", "read", "migrate", "migrate one", "fill", "write", "put", "copies", "ids", "put ids"},
   got : [Types -> DriveRows], todo : SUBSET Types, late : BOOLEAN]

\* Every variable has its type.
DrivesTypeOK ==
  /\ rows \in [Types -> DriveRows]
  /\ list = NoList \/ list \in [Types -> DriveRows]
  /\ \A t \in Types : byId[t] = Unknown \/ byId[t] \in DriveRows
  /\ actives = NoIds \/ actives \subseteq Types
  /\ op \in [Procs -> Calls]
  /\ writes \in 0..MaxWrites /\ misses \in 0..MaxMisses
  /\ stale \subseteq Types \union {"list", "actives"}

\* Between the calls that write, the shared copies say what the rows say: the list, each
\* drive and the ids; except a copy that could not be deleted, that a call filled which
\* had read before the last write, or that setDefaultDrive did not know of.
CopiesAreRows ==
  (\A p \in Procs : op[p].kind \notin Changes) =>
    /\ list # NoList /\ "list" \notin stale => list = Selected
    /\ \A t \in Types \ stale : byId[t] # Unknown => byId[t] = rows[t] /\ Active(rows[t])
    /\ actives # NoIds /\ "actives" \notin stale => actives = AllActive

\* Copies of a user's drives say what D1 says, with the exceptions they name.
DrivesSafe == DrivesTypeOK /\ CopiesAreRows

=============================================================================
