-------------------------------- MODULE Schema --------------------------------
(* Migrations of the database (database/schema.js): instances that start run *)
(* them under a lock in the database, one statement of D1 at a time.  One     *)
(* table that is rebuilt is followed: its rows, the temporary table they are  *)
(* copied to and the backup.  The nine migrations are three for a table: the  *)
(* initial schema, the first one that names it and a later one.               *)
EXTENDS Naturals, FiniteSets, TLAPS

CONSTANTS
  Runners,     \* processes that migrate
  Rows,        \* rows of the table
  MaxFaults,   \* bound on crashes and on statements that fail
  MaxSlow      \* bound on locks that end before their holder does

ASSUME SchemaAssumption ==
  /\ "free" \notin Runners /\ "dead" \notin Runners
  /\ Rows # {} /\ MaxFaults \in Nat /\ MaxSlow \in Nat

VARIABLES
  table,       \* which table is followed
  main, temp, backup,
  written,     \* rows of the table so far
  recorded,    \* schema_migrations
  migLock,     \* schema_migration_lock
  at, version, applied,   \* where a runner is
  late,        \* history: rows written after the copy of a rebuild
  slow, failures

schemaVars == <<table, main, temp, backup, written, recorded, migLock, at, version, applied,
                late, slow, failures>>

Absent == [here |-> FALSE, new |-> FALSE, rows |-> {}]
Empty  == [here |-> TRUE, new |-> TRUE, rows |-> {}]
Versions == 1..3

SchemaInit ==
  /\ table \in {"tasks", "drives", "roles"}
  /\ written \in {{}, {CHOOSE r \in Rows : TRUE}}
  /\ main = [here |-> TRUE, new |-> FALSE, rows |-> written]
  /\ temp = Absent /\ backup = Absent
  /\ recorded = {} /\ migLock = "free"
  /\ at = [r \in Runners |-> "down"]
  /\ version = [r \in Runners |-> 1] /\ applied = [r \in Runners |-> {}]
  /\ late = {} /\ slow = 0 /\ failures = 0

Goes(r, place) == at' = [at EXCEPT ![r] = place]
tables == <<main, temp, backup>>
rest == <<table, written, late, slow, failures>>

-----------------------------------------------------------------------------
\* The lock

LockIsFree == migLock = "free"

\* acquireMigrationLock: of two inserts that are ignored when a row is there, one stays.
Acquire(r) ==
  /\ at[r] = "down" /\ LockIsFree
  /\ migLock' = r /\ Goes(r, "read")
  /\ UNCHANGED <<tables, recorded, version, applied, rest>>

\* A lock ends after 120 seconds; nobody renews it.
LockEnds ==
  /\ migLock # "free"
  /\ IF migLock = "dead" THEN UNCHANGED slow ELSE slow < MaxSlow /\ slow' = slow + 1
  /\ migLock' = "free"
  /\ UNCHANGED <<tables, recorded, at, version, applied, table, written, late, failures>>

Released(r) == IF migLock = r THEN "free" ELSE migLock

-----------------------------------------------------------------------------
\* migrateDatabaseSchema

ReadApplied(r) ==
  /\ at[r] = "read"
  /\ applied' = [applied EXCEPT ![r] = recorded]
  /\ version' = [version EXCEPT ![r] = 1]
  /\ Goes(r, "next")
  /\ UNCHANGED <<tables, recorded, migLock, rest>>

Rebuilds(v) ==
  CASE table = "tasks" -> v = 2
    [] table = "drives" -> v \in {2, 3}
    [] table = "roles" -> v \in {1, 2}

\* shouldRun and what apply does first.  Without the table, the rebuild of the tasks
\* counts as done, drives cannot be altered, and the rest create the table.
Plan(v) ==
  IF main.here THEN IF Rebuilds(v) /\ ~main.new THEN "clean" ELSE "record"
  ELSE CASE table = "tasks" /\ v = 2 -> "record"
         [] table = "drives" /\ v # 1 -> "refused"
         [] OTHER -> "create main"

Choose(r) ==
  /\ at[r] = "next" /\ version[r] \in Versions
  /\ IF version[r] \in applied[r]
     THEN version' = [version EXCEPT ![r] = @ + 1] /\ UNCHANGED at
     ELSE Goes(r, Plan(version[r])) /\ UNCHANGED version
  /\ UNCHANGED <<tables, recorded, migLock, applied, rest>>

\* CREATE TABLE IF NOT EXISTS
CreateMain(r) ==
  /\ at[r] = "create main"
  /\ main' = IF main.here THEN main ELSE Empty
  /\ Goes(r, "record")
  /\ UNCHANGED <<temp, backup, recorded, migLock, version, applied, rest>>

RecordVersion(r) ==
  /\ at[r] = "record"
  /\ recorded' = recorded \union {version[r]}
  /\ version' = [version EXCEPT ![r] = @ + 1]
  /\ Goes(r, "next")
  /\ UNCHANGED <<tables, migLock, applied, rest>>

\* assertDatabaseSchemaCurrent, and the lock is given back.
Finish(r) ==
  /\ at[r] = "next" /\ version[r] \notin Versions
  /\ Goes(r, IF main.here /\ main.new /\ recorded = Versions THEN "ready" ELSE "down")
  /\ migLock' = Released(r)
  /\ UNCHANGED <<tables, recorded, version, applied, rest>>

\* An error, or the process dies; dead processes give no lock back.
Stops(r, dies) ==
  /\ at[r] \notin {"down", "ready"}
  /\ Goes(r, "down")
  /\ migLock' = IF dies /\ migLock = r THEN "dead" ELSE Released(r)
  /\ UNCHANGED <<tables, recorded, version, applied, table, written, late, slow>>

Fault(r, dies) ==
  /\ failures < MaxFaults /\ failures' = failures + 1
  /\ Stops(r, dies)

-----------------------------------------------------------------------------
\* rebuildTableForD1: statement by statement

Statement(r, place, next) == at[r] = place /\ Goes(r, next)
Others == <<recorded, migLock, version, applied, rest>>

\* Mutant: a temporary table takes the table's place also while that is there.
PromotesTempFirst == temp.here

PromotesTemp == ~main.here /\ temp.here

\* cleanupTableRebuildArtifacts
Clean(r) ==
  \/ /\ PromotesTemp
     /\ Statement(r, "clean", IF backup.here THEN "drop old" ELSE "record")
     /\ main' = temp /\ temp' = Absent /\ UNCHANGED <<backup, Others>>
  \/ /\ ~PromotesTemp /\ ~main.here /\ backup.here
     /\ Statement(r, "clean", "drop temp")
     /\ main' = backup /\ backup' = Absent /\ UNCHANGED <<temp, Others>>
  \/ /\ ~PromotesTemp /\ main.here
     /\ Statement(r, "clean", "drop temp")
     /\ backup' = Absent /\ UNCHANGED <<main, temp, Others>>

DropTemp(r) ==
  /\ Statement(r, "drop temp", "create")
  /\ temp' = Absent
  /\ UNCHANGED <<main, backup, Others>>

CreateTemp(r) ==
  /\ ~temp.here /\ Statement(r, "create", "copy")
  /\ temp' = Empty
  /\ UNCHANGED <<main, backup, Others>>

CopyRows(r) ==
  /\ temp.here /\ main.here /\ temp.rows \intersect main.rows = {}
  /\ Statement(r, "copy", "drop backup")
  /\ temp' = [temp EXCEPT !.rows = @ \union main.rows]
  /\ UNCHANGED <<main, backup, Others>>

DropBackup(r) ==
  /\ Statement(r, "drop backup", "rename main")
  /\ backup' = Absent
  /\ UNCHANGED <<main, temp, Others>>

RenameMain(r) ==
  /\ main.here /\ ~backup.here /\ Statement(r, "rename main", "rename temp")
  /\ backup' = main /\ main' = Absent
  /\ UNCHANGED <<temp, Others>>

RenameTemp(r) ==
  /\ temp.here /\ ~main.here /\ Statement(r, "rename temp", "drop old")
  /\ main' = temp /\ temp' = Absent
  /\ UNCHANGED <<backup, Others>>

DropOld(r) ==
  /\ backup.here /\ Statement(r, "drop old", "record")
  /\ backup' = Absent
  /\ UNCHANGED <<main, temp, Others>>

\* A statement that D1 refuses ends the migration.
Refused(r) ==
  /\ \/ at[r] = "refused"
     \/ at[r] = "clean" /\ ~main.here /\ ~temp.here /\ ~backup.here
     \/ at[r] = "create" /\ temp.here
     \/ at[r] = "copy" /\ ~(temp.here /\ main.here /\ temp.rows \intersect main.rows = {})
     \/ at[r] = "rename main" /\ ~(main.here /\ ~backup.here)
     \/ at[r] = "rename temp" /\ ~(temp.here /\ ~main.here)
     \/ at[r] = "drop old" /\ ~backup.here
  /\ Stops(r, FALSE)
  /\ UNCHANGED failures

\* Another instance, which runs already, writes a row.
AppWrites(w) ==
  /\ main.here /\ w \notin written
  /\ main' = [main EXCEPT !.rows = @ \union {w}]
  /\ written' = written \union {w}
  /\ late' = IF \E r \in Runners : at[r] \in {"drop backup", "rename main"}
             THEN late \union {w} ELSE late
  /\ UNCHANGED <<table, temp, backup, recorded, migLock, at, version, applied, slow, failures>>

SchemaNext ==
  \/ \E r \in Runners :
       \/ Acquire(r) \/ ReadApplied(r) \/ Choose(r) \/ CreateMain(r) \/ RecordVersion(r)
       \/ Finish(r) \/ Refused(r) \/ \E dies \in BOOLEAN : Fault(r, dies)
       \/ Clean(r) \/ DropTemp(r) \/ CreateTemp(r) \/ CopyRows(r) \/ DropBackup(r)
       \/ RenameMain(r) \/ RenameTemp(r) \/ DropOld(r)
  \/ LockEnds
  \/ \E w \in Rows : AppWrites(w)

SchemaSpec == SchemaInit /\ [][SchemaNext]_schemaVars

-----------------------------------------------------------------------------
\* Properties

Places == {"down", "read", "next", "refused", "create main", "clean", "drop temp", "create", "copy",
           "drop backup", "rename main", "rename temp", "drop old", "record", "ready"}

Tables == [here : BOOLEAN, new : BOOLEAN, rows : SUBSET Rows]

\* Every variable has its type.
SchemaTypeOK ==
  /\ main \in Tables /\ temp \in Tables /\ backup \in Tables
  /\ written \subseteq Rows /\ late \subseteq written /\ recorded \subseteq Versions
  /\ migLock \in Runners \union {"free", "dead"}
  /\ at \in [Runners -> Places]
  /\ version \in [Runners -> 1..4] /\ applied \in [Runners -> SUBSET Versions]
  /\ slow \in 0..MaxSlow /\ failures \in 0..MaxFaults

\* However a migration is cut off and begun again, a row of the table stays in one of
\* its three tables; except a row that another instance wrote behind the copy, and
\* except when a lock ended under its holder.
RowsExist == slow = 0 => written \ late \subseteq main.rows \union temp.rows \union backup.rows

\* A migration keeps the rows of its table, wherever it stops and whoever goes on.
SchemaSafe == SchemaTypeOK /\ RowsExist

-----------------------------------------------------------------------------
(* That rows exist is proved for any instances, rows, crashes and refused     *)
(* statements.  While no lock ends under its holder, one runner at a time is  *)
(* between its first and its last statement, and what it has done to the      *)
(* tables so far tells where the rows are, also for the one that goes on.     *)

Resting == {"down", "ready"}

Rebuilding == {"clean", "drop temp", "create", "copy", "drop backup", "rename main"}

\* The rows that a migration has to keep
Needed == written \ late

\* The old table has all rows; after a crash between two renames a new, empty one may
\* be in its place, and the rows are in the others.
RowsPlaced ==
  /\ main.here \/ main.rows = {}
  /\ main.here /\ ~main.new => Needed \subseteq main.rows
  /\ Needed \subseteq main.rows \union temp.rows \union backup.rows

\* What a runner relies on at the statement it has come to
PlaceOK(r) ==
  /\ at[r] \in Rebuilding => main.here /\ ~main.new
  /\ at[r] \in {"drop backup", "rename main"} => Needed \subseteq temp.rows
  /\ at[r] = "rename temp" => ~main.here /\ Needed \subseteq temp.rows
  /\ at[r] = "drop old" => main.here /\ Needed \subseteq main.rows

HoldsLock(r) == at[r] \notin Resting => migLock = r

VersionOK(r) == at[r] \notin Resting \union {"read", "next"} => version[r] \in Versions

IInv ==
  /\ SchemaTypeOK
  /\ \A r \in Runners : VersionOK(r)
  /\ slow = 0 => RowsPlaced /\ \A r \in Runners : HoldsLock(r) /\ PlaceOK(r)

LEMMA InitIInv == SchemaInit => IInv
<1> SUFFICES ASSUME SchemaInit  PROVE IInv
  OBVIOUS
<1>1. written \subseteq Rows
  BY SchemaAssumption DEF SchemaInit
<1>2. SchemaTypeOK
  BY <1>1, SchemaAssumption DEF SchemaInit, SchemaTypeOK, Tables, Absent, Places, Versions
<1>3. RowsPlaced
  BY <1>1 DEF SchemaInit, RowsPlaced, Needed, Absent
<1> QED BY <1>2, <1>3 DEF SchemaInit, IInv, HoldsLock, PlaceOK, VersionOK, Resting, Rebuilding

\* A step of a runner that holds the lock or takes it: the others rest meanwhile.
LEMMA RunnerStep ==
  ASSUME IInv, SchemaTypeOK', NEW r \in Runners, VersionOK(r)', slow' = slow,
         \A s \in Runners \ {r} : at'[s] = at[s] /\ version'[s] = version[s],
         slow = 0 => /\ at[r] \notin Resting \/ migLock = "free"
                     /\ RowsPlaced' /\ PlaceOK(r)' /\ HoldsLock(r)'
  PROVE  IInv'
<1>1. ASSUME NEW s \in Runners  PROVE VersionOK(s)'
  BY DEF IInv, VersionOK
<1>2. ASSUME slow = 0, NEW s \in Runners, s # r  PROVE HoldsLock(s)' /\ PlaceOK(s)'
  <2>1. at[s] \in Resting
    BY <1>2, SchemaAssumption DEF IInv, HoldsLock
  <2> QED BY <1>2, <2>1 DEF HoldsLock, PlaceOK, Resting, Rebuilding
<1> QED BY <1>1, <1>2 DEF IInv

\* A runner that goes to another place
LEMMA GoesTo ==
  ASSUME IInv, NEW r \in Runners, NEW place \in Places, Goes(r, place)
  PROVE  /\ at' \in [Runners -> Places] /\ at'[r] = place
         /\ \A s \in Runners \ {r} : at'[s] = at[s]
  BY DEF Goes, IInv, SchemaTypeOK

LEMMA AcquireIInv == ASSUME IInv, NEW r \in Runners, Acquire(r)  PROVE IInv'
<1>1. /\ at' \in [Runners -> Places] /\ at'[r] = "read"
      /\ \A s \in Runners \ {r} : at'[s] = at[s]
  BY GoesTo DEF Acquire, Places
<1>2. SchemaTypeOK'
  BY <1>1 DEF Acquire, tables, rest, IInv, SchemaTypeOK
<1>3. RowsPlaced' = RowsPlaced
  BY DEF Acquire, tables, rest, RowsPlaced, Needed
<1>4. PlaceOK(r)' /\ HoldsLock(r)' /\ VersionOK(r)'
  BY <1>1 DEF Acquire, PlaceOK, HoldsLock, VersionOK, Resting, Rebuilding
<1> QED BY <1>1, <1>2, <1>3, <1>4, RunnerStep DEF Acquire, LockIsFree, rest, IInv

LEMMA LockEndsIInv == ASSUME IInv, LockEnds  PROVE IInv'
<1>0. slow' \in 0..MaxSlow
  BY SchemaAssumption DEF LockEnds, IInv, SchemaTypeOK
<1>1. SchemaTypeOK'
  BY <1>0 DEF LockEnds, tables, IInv, SchemaTypeOK
<1>2. \A r \in Runners : VersionOK(r)'
  BY DEF LockEnds, IInv, VersionOK
<1>3. ASSUME slow' = 0  PROVE slow = 0 /\ migLock = "dead"
  BY <1>3 DEF LockEnds, IInv, SchemaTypeOK
<1>4. ASSUME slow' = 0
      PROVE  RowsPlaced' /\ \A r \in Runners : HoldsLock(r)' /\ PlaceOK(r)'
  <2>1. UNCHANGED <<main, temp, backup, written, late, at>>
    BY DEF LockEnds, tables
  <2>2. \A r \in Runners : at[r] \in Resting
    BY <1>3, <1>4, SchemaAssumption DEF IInv, HoldsLock
  <2> QED BY <1>3, <1>4, <2>1, <2>2 DEF IInv, RowsPlaced, Needed, HoldsLock, PlaceOK
<1> QED BY <1>1, <1>2, <1>4 DEF IInv

\* A runner reads, chooses, records, or goes to a place from which no row is in danger.
LEMMA QuietStep ==
  ASSUME IInv, NEW r \in Runners, at[r] \notin Resting,
         UNCHANGED <<main, temp, backup, written, late, slow>>, SchemaTypeOK',
         \A s \in Runners \ {r} : at'[s] = at[s] /\ version'[s] = version[s],
         at'[r] \in Resting \/ migLock' = migLock,
         \/ at'[r] \in Resting \union {"next"}
         \/ /\ at'[r] \in {at[r], "refused", "create main", "clean", "record"}
            /\ version'[r] \in Versions
            /\ at'[r] = "clean" => main.here /\ ~main.new
            /\ at'[r] # "read"
  PROVE  IInv'
<1>1. RowsPlaced' = RowsPlaced
  BY DEF RowsPlaced, Needed
<1>2. VersionOK(r)'
  BY DEF VersionOK, Resting
<1>3. ASSUME slow = 0  PROVE PlaceOK(r)' /\ HoldsLock(r)'
  BY <1>3 DEF IInv, PlaceOK, HoldsLock, Resting, Rebuilding, Needed
<1> QED BY <1>1, <1>2, <1>3, RunnerStep DEF IInv

LEMMA ReadAppliedIInv == ASSUME IInv, NEW r \in Runners, ReadApplied(r)  PROVE IInv'
<1>1. /\ at' \in [Runners -> Places] /\ at'[r] = "next"
      /\ \A s \in Runners \ {r} : at'[s] = at[s]
  BY GoesTo DEF ReadApplied, Places
<1>2. version' \in [Runners -> 1..4] /\ \A s \in Runners \ {r} : version'[s] = version[s]
  BY DEF ReadApplied, IInv, SchemaTypeOK
<1>3. applied' \in [Runners -> SUBSET Versions]
  BY DEF ReadApplied, IInv, SchemaTypeOK
<1>4. SchemaTypeOK'
  BY <1>1, <1>2, <1>3 DEF ReadApplied, tables, rest, IInv, SchemaTypeOK
<1> QED BY <1>1, <1>2, <1>4, QuietStep DEF ReadApplied, tables, rest, Resting

LEMMA ChooseIInv == ASSUME IInv, NEW r \in Runners, Choose(r)  PROVE IInv'
<1>1. CASE version[r] \in applied[r]
  <2>1. at' = at /\ version' = [version EXCEPT ![r] = version[r] + 1]
    BY <1>1 DEF Choose
  <2>2. version[r] \in 1..3 /\ at[r] = "next"
    BY DEF Choose, Versions
  <2>3. version' \in [Runners -> 1..4] /\ \A s \in Runners \ {r} : version'[s] = version[s]
    BY <2>1, <2>2 DEF IInv, SchemaTypeOK
  <2>4. SchemaTypeOK'
    BY <2>1, <2>3 DEF Choose, tables, rest, IInv, SchemaTypeOK
  <2> QED BY <2>1, <2>2, <2>3, <2>4, QuietStep DEF Choose, tables, rest, Resting
<1>2. CASE version[r] \notin applied[r]
  <2> DEFINE place == Plan(version[r])
  <2>1. /\ place \in {"clean", "record", "refused", "create main"}
        /\ place = "clean" => main.here /\ ~main.new
    BY DEF Plan
  <2> HIDE DEF place
  <2>2. /\ at' \in [Runners -> Places] /\ at'[r] = place
        /\ \A s \in Runners \ {r} : at'[s] = at[s]
    BY <1>2, <2>1, GoesTo DEF Choose, Places, place
  <2>3. SchemaTypeOK'
    BY <1>2, <2>2 DEF Choose, tables, rest, IInv, SchemaTypeOK
  <2> QED BY <1>2, <2>1, <2>2, <2>3, QuietStep DEF Choose, tables, rest, Resting
<1> QED BY <1>1, <1>2

LEMMA RecordIInv == ASSUME IInv, NEW r \in Runners, RecordVersion(r)  PROVE IInv'
<1>1. /\ at' \in [Runners -> Places] /\ at'[r] = "next"
      /\ \A s \in Runners \ {r} : at'[s] = at[s]
  BY GoesTo DEF RecordVersion, Places
<1>2. version[r] \in 1..3
  BY DEF RecordVersion, IInv, VersionOK, Resting, Versions
<1>3. version' \in [Runners -> 1..4] /\ \A s \in Runners \ {r} : version'[s] = version[s]
  BY <1>2 DEF RecordVersion, IInv, SchemaTypeOK
<1>4. SchemaTypeOK'
  BY <1>1, <1>2, <1>3 DEF RecordVersion, tables, rest, IInv, SchemaTypeOK, Versions
<1> QED BY <1>1, <1>3, <1>4, QuietStep DEF RecordVersion, tables, rest, Resting

\* A runner that is done or that stops gives back the lock, unless it dies with it.
LEMMA RestStep ==
  ASSUME IInv, NEW r \in Runners, at[r] \notin Resting, NEW place \in Resting, Goes(r, place),
         migLock' \in Runners \union {"free", "dead"}, failures' \in 0..MaxFaults,
         UNCHANGED <<tables, recorded, version, applied, table, written, late, slow>>
  PROVE  IInv'
<1>1. /\ at' \in [Runners -> Places] /\ at'[r] = place
      /\ \A s \in Runners \ {r} : at'[s] = at[s]
  BY GoesTo DEF Resting, Places
<1>2. SchemaTypeOK'
  BY <1>1 DEF tables, IInv, SchemaTypeOK
<1> QED BY <1>1, <1>2, QuietStep DEF tables

LEMMA FinishIInv == ASSUME IInv, NEW r \in Runners, Finish(r)  PROVE IInv'
<1> DEFINE place == IF main.here /\ main.new /\ recorded = Versions THEN "ready" ELSE "down"
<1>1. place \in Resting /\ Goes(r, place) /\ at[r] \notin Resting
  BY DEF Finish, Resting
<1>2. migLock' \in Runners \union {"free", "dead"}
  BY DEF Finish, Released, IInv, SchemaTypeOK
<1>3. failures' \in 0..MaxFaults
  BY DEF Finish, rest, IInv, SchemaTypeOK
<1> HIDE DEF place
<1> QED BY <1>1, <1>2, <1>3, RestStep DEF Finish, rest

LEMMA StopsIInv ==
  ASSUME IInv, NEW r \in Runners, NEW dies \in BOOLEAN, Stops(r, dies), failures' \in 0..MaxFaults
  PROVE  IInv'
<1>1. migLock' \in Runners \union {"free", "dead"}
  BY DEF Stops, Released, IInv, SchemaTypeOK
<1> QED BY <1>1, RestStep DEF Stops, Resting

LEMMA FaultIInv ==
  ASSUME IInv, NEW r \in Runners, NEW dies \in BOOLEAN, Fault(r, dies)  PROVE IInv'
<1>1. failures' \in 0..MaxFaults
  BY SchemaAssumption DEF Fault, IInv, SchemaTypeOK
<1> QED BY <1>1, StopsIInv DEF Fault

LEMMA RefusedIInv == ASSUME IInv, NEW r \in Runners, Refused(r)  PROVE IInv'
<1>1. failures' \in 0..MaxFaults
  BY DEF Refused, IInv, SchemaTypeOK
<1> QED BY <1>1, StopsIInv DEF Refused

-----------------------------------------------------------------------------
\* The statements of a rebuild

\* A statement changes the tables; what is left of a step is where the rows are then.
LEMMA TableStep ==
  ASSUME IInv, NEW r \in Runners, NEW place \in Places \ {"read"}, at[r] \notin Resting \union {"read", "next"},
         Goes(r, place), UNCHANGED Others,
         main' \in Tables, temp' \in Tables, backup' \in Tables,
         slow = 0 => RowsPlaced' /\ (at'[r] = place => PlaceOK(r)')
  PROVE  IInv'
<1>1. /\ at' \in [Runners -> Places] /\ at'[r] = place
      /\ \A s \in Runners \ {r} : at'[s] = at[s]
  BY GoesTo
<1>2. SchemaTypeOK'
  BY <1>1 DEF Others, rest, IInv, SchemaTypeOK
<1>3. VersionOK(r)'
  BY DEF VersionOK, IInv, Others
<1>4. slow = 0 => HoldsLock(r)'
  BY DEF HoldsLock, IInv, Others, Resting
<1> QED BY <1>1, <1>2, <1>3, <1>4, RunnerStep DEF Others, rest

LEMMA TablesTyped == Absent \in Tables /\ Empty \in Tables
  BY DEF Absent, Empty, Tables

LEMMA CreateMainIInv == ASSUME IInv, NEW r \in Runners, CreateMain(r)  PROVE IInv'
<1>1. UNCHANGED <<temp, backup>> /\ UNCHANGED Others /\ Goes(r, "record") /\ at[r] = "create main"
  BY DEF CreateMain, Others, rest
<1>2. main' \in Tables /\ temp' \in Tables /\ backup' \in Tables
  BY <1>1, TablesTyped DEF CreateMain, IInv, SchemaTypeOK
<1>3. ASSUME slow = 0  PROVE RowsPlaced'
  BY <1>1, <1>3 DEF CreateMain, Empty, IInv, RowsPlaced, Needed, Others, rest
<1>4. at'[r] = "record" => PlaceOK(r)'
  BY DEF PlaceOK, Rebuilding
<1> QED BY <1>1, <1>2, <1>3, <1>4, TableStep DEF Places, Resting

LEMMA CleanIInv == ASSUME IInv, NEW r \in Runners, Clean(r)  PROVE IInv'
<1>1. PICK place \in {"drop old", "record", "drop temp"} :
        /\ Goes(r, place) /\ at[r] = "clean" /\ UNCHANGED Others
        /\ main' \in {main, temp, backup} /\ temp' \in {temp, Absent}
        /\ backup' \in {backup, Absent}
        /\ main.here => main' = main /\ temp' = temp /\ place = "drop temp"
  BY DEF Clean, Statement, Others, rest, PromotesTemp
<1>2. main' \in Tables /\ temp' \in Tables /\ backup' \in Tables
  BY <1>1, TablesTyped DEF IInv, SchemaTypeOK
<1>3. ASSUME slow = 0
      PROVE  RowsPlaced' /\ (at'[r] = place => PlaceOK(r)')
  <2>1. main.here /\ ~main.new /\ Needed \subseteq main.rows
    BY <1>1, <1>3 DEF IInv, PlaceOK, RowsPlaced, Rebuilding
  <2>2. main' = main /\ place = "drop temp" /\ Needed' = Needed
    BY <1>1, <2>1 DEF Others, rest, Needed
  <2>3. RowsPlaced'
    BY <2>1, <2>2 DEF RowsPlaced
  <2>4. at'[r] = place => PlaceOK(r)'
    BY <2>1, <2>2 DEF PlaceOK, Rebuilding
  <2> QED BY <2>3, <2>4
<1> QED BY <1>1, <1>2, <1>3, TableStep DEF Places, Resting

\* Dropping and creating temporary tables and backups while the old table is whole
LEMMA DropTempIInv == ASSUME IInv, NEW r \in Runners, DropTemp(r)  PROVE IInv'
<1>1. /\ Goes(r, "create") /\ at[r] = "drop temp" /\ UNCHANGED Others
      /\ main' = main /\ backup' = backup /\ temp' = Absent
  BY DEF DropTemp, Statement, Others, rest
<1>2. main' \in Tables /\ temp' \in Tables /\ backup' \in Tables
  BY <1>1, TablesTyped DEF IInv, SchemaTypeOK
<1>3. ASSUME slow = 0
      PROVE  RowsPlaced' /\ (at'[r] = "create" => PlaceOK(r)')
  BY <1>1, <1>3 DEF IInv, PlaceOK, RowsPlaced, Rebuilding, Needed, Others, rest
<1> QED BY <1>1, <1>2, <1>3, TableStep DEF Places, Resting

LEMMA CreateTempIInv == ASSUME IInv, NEW r \in Runners, CreateTemp(r)  PROVE IInv'
<1>1. /\ Goes(r, "copy") /\ at[r] = "create" /\ UNCHANGED Others
      /\ main' = main /\ backup' = backup /\ temp' = Empty
  BY DEF CreateTemp, Statement, Others, rest
<1>2. main' \in Tables /\ temp' \in Tables /\ backup' \in Tables
  BY <1>1, TablesTyped DEF IInv, SchemaTypeOK
<1>3. ASSUME slow = 0
      PROVE  RowsPlaced' /\ (at'[r] = "copy" => PlaceOK(r)')
  BY <1>1, <1>3 DEF IInv, PlaceOK, RowsPlaced, Rebuilding, Needed, Others, rest
<1> QED BY <1>1, <1>2, <1>3, TableStep DEF Places, Resting

LEMMA CopyRowsIInv == ASSUME IInv, NEW r \in Runners, CopyRows(r)  PROVE IInv'
<1>1. /\ Goes(r, "drop backup") /\ at[r] = "copy" /\ UNCHANGED Others
      /\ main' = main /\ backup' = backup
      /\ temp' = [temp EXCEPT !.rows = temp.rows \union main.rows]
  BY DEF CopyRows, Statement, Others, rest
<1>2. /\ main' \in Tables /\ temp' \in Tables /\ backup' \in Tables
      /\ main.rows \subseteq temp'.rows
  BY <1>1 DEF IInv, SchemaTypeOK, Tables
<1>3. ASSUME slow = 0
      PROVE  RowsPlaced' /\ (at'[r] = "drop backup" => PlaceOK(r)')
  BY <1>1, <1>2, <1>3 DEF IInv, PlaceOK, RowsPlaced, Rebuilding, Needed, Others, rest
<1> QED BY <1>1, <1>2, <1>3, TableStep DEF Places, Resting

LEMMA DropBackupIInv == ASSUME IInv, NEW r \in Runners, DropBackup(r)  PROVE IInv'
<1>1. /\ Goes(r, "rename main") /\ at[r] = "drop backup" /\ UNCHANGED Others
      /\ main' = main /\ temp' = temp /\ backup' = Absent
  BY DEF DropBackup, Statement, Others, rest
<1>2. main' \in Tables /\ temp' \in Tables /\ backup' \in Tables
  BY <1>1, TablesTyped DEF IInv, SchemaTypeOK
<1>3. ASSUME slow = 0
      PROVE  RowsPlaced' /\ (at'[r] = "rename main" => PlaceOK(r)')
  BY <1>1, <1>3 DEF IInv, PlaceOK, RowsPlaced, Rebuilding, Needed, Others, rest
<1> QED BY <1>1, <1>2, <1>3, TableStep DEF Places, Resting

LEMMA RenameMainIInv == ASSUME IInv, NEW r \in Runners, RenameMain(r)  PROVE IInv'
<1>1. /\ Goes(r, "rename temp") /\ at[r] = "rename main" /\ UNCHANGED Others
      /\ main' = Absent /\ temp' = temp /\ backup' = main
  BY DEF RenameMain, Statement, Others, rest
<1>2. main' \in Tables /\ temp' \in Tables /\ backup' \in Tables
  BY <1>1, TablesTyped DEF IInv, SchemaTypeOK
<1>3. ASSUME slow = 0
      PROVE  RowsPlaced' /\ (at'[r] = "rename temp" => PlaceOK(r)')
  BY <1>1, <1>3 DEF IInv, PlaceOK, RowsPlaced, Rebuilding, Needed, Others, rest, Absent
<1> QED BY <1>1, <1>2, <1>3, TableStep DEF Places, Resting

LEMMA RenameTempIInv == ASSUME IInv, NEW r \in Runners, RenameTemp(r)  PROVE IInv'
<1>1. /\ Goes(r, "drop old") /\ at[r] = "rename temp" /\ UNCHANGED Others
      /\ main' = temp /\ temp' = Absent /\ backup' = backup /\ temp.here
  BY DEF RenameTemp, Statement, Others, rest
<1>2. main' \in Tables /\ temp' \in Tables /\ backup' \in Tables
  BY <1>1, TablesTyped DEF IInv, SchemaTypeOK
<1>3. ASSUME slow = 0
      PROVE  RowsPlaced' /\ (at'[r] = "drop old" => PlaceOK(r)')
  BY <1>1, <1>3 DEF IInv, PlaceOK, RowsPlaced, Rebuilding, Needed, Others, rest
<1> QED BY <1>1, <1>2, <1>3, TableStep DEF Places, Resting

LEMMA DropOldIInv == ASSUME IInv, NEW r \in Runners, DropOld(r)  PROVE IInv'
<1>1. /\ Goes(r, "record") /\ at[r] = "drop old" /\ UNCHANGED Others
      /\ main' = main /\ temp' = temp /\ backup' = Absent
  BY DEF DropOld, Statement, Others, rest
<1>2. main' \in Tables /\ temp' \in Tables /\ backup' \in Tables
  BY <1>1, TablesTyped DEF IInv, SchemaTypeOK
<1>3. ASSUME slow = 0
      PROVE  RowsPlaced' /\ (at'[r] = "record" => PlaceOK(r)')
  BY <1>1, <1>3 DEF IInv, PlaceOK, RowsPlaced, Rebuilding, Needed, Others, rest
<1> QED BY <1>1, <1>2, <1>3, TableStep DEF Places, Resting

\* A row that another instance writes is in the table, and behind a copy it is not one
\* the migration has to keep.
LEMMA AppWritesIInv == ASSUME IInv, NEW w \in Rows, AppWrites(w)  PROVE IInv'
<1>1. /\ main' = [main EXCEPT !.rows = main.rows \union {w}] /\ main.here
      /\ main' \in Tables /\ main'.here /\ main'.new = main.new
      /\ main'.rows = main.rows \union {w}
  BY DEF AppWrites, IInv, SchemaTypeOK, Tables
<1>2. /\ written' = written \union {w} /\ late' \in {late, late \union {w}}
      /\ UNCHANGED <<temp, backup, recorded, migLock, at, version, applied, slow, failures>>
  BY DEF AppWrites
<1>3. SchemaTypeOK'
  BY <1>1, <1>2 DEF IInv, SchemaTypeOK
<1>4. \A r \in Runners : VersionOK(r)' /\ HoldsLock(r)' = HoldsLock(r)
  BY <1>2 DEF IInv, VersionOK, HoldsLock
<1>5. Needed' \subseteq Needed \union {w}
  BY <1>2 DEF Needed
<1>6. ASSUME slow = 0  PROVE RowsPlaced'
  BY <1>1, <1>2, <1>5, <1>6 DEF IInv, RowsPlaced
<1>7. ASSUME slow = 0, NEW r \in Runners  PROVE PlaceOK(r)'
  <2>1. at[r] \in {"drop backup", "rename main"} => Needed' \subseteq Needed
    BY DEF AppWrites, Needed
  <2>2. PlaceOK(r)
    BY <1>7 DEF IInv
  <2> QED BY <1>1, <1>2, <1>5, <2>1, <2>2 DEF PlaceOK
<1> QED BY <1>2, <1>3, <1>4, <1>6, <1>7 DEF IInv

LEMMA NextIInv == IInv /\ [SchemaNext]_schemaVars => IInv'
<1> SUFFICES ASSUME IInv, [SchemaNext]_schemaVars  PROVE IInv'
  OBVIOUS
<1>1. CASE UNCHANGED schemaVars
  BY <1>1 DEF schemaVars, IInv, SchemaTypeOK, VersionOK, RowsPlaced, Needed, HoldsLock, PlaceOK
<1>2. CASE LockEnds
  BY <1>2, LockEndsIInv
<1>3. ASSUME NEW w \in Rows, AppWrites(w)  PROVE IInv'
  BY <1>3, AppWritesIInv
<1>4. ASSUME NEW r \in Runners, NEW dies \in BOOLEAN, Fault(r, dies)  PROVE IInv'
  BY <1>4, FaultIInv
<1>5. ASSUME NEW r \in Runners,
             \/ Acquire(r) \/ ReadApplied(r) \/ Choose(r) \/ CreateMain(r) \/ RecordVersion(r)
             \/ Finish(r) \/ Refused(r) \/ Clean(r) \/ DropTemp(r) \/ CreateTemp(r)
             \/ CopyRows(r) \/ DropBackup(r) \/ RenameMain(r) \/ RenameTemp(r) \/ DropOld(r)
      PROVE  IInv'
  BY <1>5, AcquireIInv, ReadAppliedIInv, ChooseIInv, CreateMainIInv, RecordIInv, FinishIInv,
     RefusedIInv, CleanIInv, DropTempIInv, CreateTempIInv, CopyRowsIInv, DropBackupIInv,
     RenameMainIInv, RenameTempIInv, DropOldIInv
<1> QED BY <1>1, <1>2, <1>3, <1>4, <1>5 DEF SchemaNext

\* However many instances migrate, die and are refused, and in whatever order, as long
\* as no lock ends under its holder no row is lost that was not written behind a copy.
THEOREM SchemaIsSafe == SchemaSpec => []SchemaSafe
<1>1. IInv => SchemaSafe
  BY DEF IInv, SchemaSafe, RowsExist, RowsPlaced, Needed
<1> QED BY InitIInv, NextIInv, <1>1, PTL DEF SchemaSpec

=============================================================================
