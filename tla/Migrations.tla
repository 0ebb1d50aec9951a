------------------------------ MODULE Migrations ------------------------------
(***************************************************************************)
(* internal/db/db.go and schema.go: several processes open one database    *)
(* and bring its schema to the current version.  The server and every CLI  *)
(* command do so on start-up (Open, then Migrate), and an editor may start *)
(* the server while "max-context index" runs.                              *)
(*                                                                         *)
(* The schema is the set of its tables and of the columns that migrations  *)
(* add, and the shape of the search tables and of the triggers that fill   *)
(* them.  Indexes are left out.  A migration is one transaction: it takes  *)
(* effect as a whole or not at all, so a process that dies in it leaves    *)
(* nothing of it.                                                          *)
(***************************************************************************)
EXTENDS Naturals

CONSTANTS
  Procs,      \* processes that use the database
  Off,        \* the state of a process that does not run
  MaxStarts   \* bound: how many times a process starts

ASSUME StartsAssumption == MaxStarts \in Nat

(* A process that does not run is in none of the states of a running one.  *)
ASSUME OffAssumption == Off \notin {"opened", "migrating", "running", "failed"}

schemaVersion == 9

(* What each migration creates IF NOT EXISTS, and which columns it adds:   *)
(* ALTER TABLE ADD COLUMN has no IF NOT EXISTS.                            *)
MigrationV1 == [creates |-> {"_meta", "functions", "calls", "types", "imports",
                             "file_summaries", "changes"}, adds |-> {}]
MigrationV2 == [creates |-> {},
                adds |-> {"calls.resolution", "calls.receiver_name", "functions.kind",
                          "functions.receiver_type", "functions.package"}]
MigrationV3 == [creates |-> {}, adds |-> {"functions.return_type"}]
MigrationV4 == [creates |-> {"struct_fields", "package_vars"}, adds |-> {}]
MigrationV5 == [creates |-> {"class_bases"}, adds |-> {}]
MigrationV6 == [creates |-> {}, adds |-> {}]
MigrationV7 == [creates |-> {"index_errors"}, adds |-> {}]
MigrationV8 == [creates |-> {"documents", "documents_fts"}, adds |-> {}]
MigrationV9 == [creates |-> {},
                adds |-> {"functions.name_parts", "types.name_parts", "types.start_line"}]

Migration == <<MigrationV1, MigrationV2, MigrationV3, MigrationV4, MigrationV5,
               MigrationV6, MigrationV7, MigrationV8, MigrationV9>>

(* What a database has on which migrations 1 to v ran.                     *)
Objects(v) == UNION {Migration[i].creates \cup Migration[i].adds : i \in 1..v}

(* The search tables: V1 creates them, V9 drops them and creates them      *)
(* again with a column for the parts of a name.  The triggers: V6 creates  *)
(* them if they do not exist, V9 drops them and creates them again.        *)
FtsAfter(v, fts) ==
  CASE v = 1 -> IF fts = "none" THEN "plain" ELSE fts
    [] v = 9 -> "parts"
    [] OTHER -> fts

(* Mutant of TriggersAfter: V9 creates its triggers IF NOT EXISTS, too.    *)
TriggersKept(v, triggers) ==
  IF v \in {6, 9} /\ triggers = "none" THEN "plain" ELSE triggers

TriggersAfter(v, triggers) ==
  CASE v = 6 -> IF triggers = "none" THEN "plain" ELSE triggers
    [] v = 9 -> "parts"
    [] OTHER -> triggers

(* The shapes on a database on which migrations 1 to v ran.                *)
FtsAt(v) == IF v = 0 THEN "none" ELSE IF v < 9 THEN "plain" ELSE "parts"
TriggersAt(v) == IF v < 6 THEN "none" ELSE IF v < 9 THEN "plain" ELSE "parts"

(* Mutant of Rebuilds: the new search tables are left empty by V9.         *)
RebuildsOnce(v) == v = 6

(* Both end with a rebuild of the search tables from the content tables.   *)
Rebuilds(v) == v \in {6, 9}

-----------------------------------------------------------------------------
VARIABLES
  schema,  \* version: the row of _meta; objects; fts and triggers: their shape
  rows,    \* whether functions and types have rows
  synced,  \* whether the search tables list exactly those rows
  pc,      \* per process: Off, "opened", "migrating", "running" or "failed"
  next,    \* per process, the migration that the loop of Migrate runs next
  starts   \* how many times a process was started

vars == <<schema, rows, synced, pc, next, starts>>

(* A database left by an earlier release: all migrations up to some        *)
(* version.  Before V6 a release rebuilt the search tables after its       *)
(* transaction and could die in between.                                   *)
Init ==
  /\ \E v \in 0..schemaVersion :
       /\ schema = [version |-> v, objects |-> Objects(v),
                    fts |-> FtsAt(v), triggers |-> TriggersAt(v)]
       /\ rows \in IF v = 0 THEN {FALSE} ELSE BOOLEAN
       /\ synced \in IF rows /\ v < 6 THEN BOOLEAN ELSE {TRUE}
  /\ pc = [p \in Procs |-> Off]
  /\ next = [p \in Procs |-> 0]
  /\ starts = 0

Uses(p) == pc[p] \in {"opened", "migrating", "running"}
Contended(p) == \E q \in Procs \ {p} : Uses(q)

Become(p, state) == pc' = [pc EXCEPT ![p] = state]

(* Open: the file and its pragmas.  Setting the journal mode needs a lock, *)
(* before the busy timeout is set.                                         *)
Open(p) ==
  /\ pc[p] = Off
  /\ starts < MaxStarts
  /\ starts' = starts + 1
  /\ Become(p, "opened")
  /\ UNCHANGED <<schema, rows, synced, next>>

OpenFails(p) ==
  /\ pc[p] = Off
  /\ starts < MaxStarts
  /\ Contended(p)
  /\ starts' = starts + 1
  /\ Become(p, "failed")
  /\ UNCHANGED <<schema, rows, synced, next>>

(* Migrate reads the version once, in no transaction; a database without   *)
(* _meta has version 0.                                                    *)
GetSchemaVersion(p) ==
  /\ pc[p] = "opened"
  /\ IF schema.version >= schemaVersion
     THEN Become(p, "running") /\ UNCHANGED next
     ELSE Become(p, "migrating") /\ next' = [next EXCEPT ![p] = schema.version + 1]
  /\ UNCHANGED <<schema, rows, synced, starts>>

Duplicate(v) == Migration[v].adds \cap schema.objects # {}

(* Mutant of RunMigration: the version is recorded although V2 to V9 fail. *)
RunMigrationIgnoringErrors(p) ==
  LET v == next[p]
  IN  /\ pc[p] = "migrating"
      /\ schema' = [schema EXCEPT !.version = v]
      /\ UNCHANGED synced
      /\ next' = [next EXCEPT ![p] = v + 1]
      /\ Become(p, IF v = schemaVersion THEN "running" ELSE "migrating")
      /\ UNCHANGED <<rows, starts>>

(* Mutant of RunMigration: the recorded version is the next one to run.    *)
RunMigrationRecordingNext(p) ==
  LET v == next[p]
  IN  /\ pc[p] = "migrating"
      /\ ~Duplicate(v)
      /\ schema' = [schema EXCEPT !.version = v + 1,
                                  !.objects = @ \cup Migration[v].creates \cup Migration[v].adds]
      /\ next' = [next EXCEPT ![p] = v + 1]
      /\ Become(p, IF v = schemaVersion THEN "running" ELSE "migrating")
      /\ UNCHANGED <<rows, synced, starts>>

(* runMigration: the migration and its version number in one transaction.  *)
(* The version is the loop's, whatever the database holds by now.          *)
RunMigration(p) ==
  LET v == next[p]
  IN  /\ pc[p] = "migrating"
      /\ ~Duplicate(v)
      /\ schema' = [version  |-> v,
                    objects  |-> schema.objects \cup Migration[v].creates \cup Migration[v].adds,
                    fts      |-> FtsAfter(v, schema.fts),
                    triggers |-> TriggersAfter(v, schema.triggers)]
      /\ synced' = IF Rebuilds(v) THEN TRUE
                   ELSE IF FtsAfter(v, schema.fts) # schema.fts THEN ~rows ELSE synced
      /\ next' = [next EXCEPT ![p] = v + 1]
      /\ Become(p, IF v = schemaVersion THEN "running" ELSE "migrating")
      /\ UNCHANGED <<rows, starts>>

(* "duplicate column name": rolled back, and the process gives up.         *)
RunMigrationFails(p) ==
  /\ pc[p] = "migrating"
  /\ Duplicate(next[p])
  /\ Become(p, "failed")
  /\ UNCHANGED <<schema, rows, synced, next, starts>>

(* Another connection holds the write lock past the busy timeout, or has   *)
(* committed since this transaction's first read.                          *)
Busy(p) ==
  /\ pc[p] \in {"opened", "migrating"}
  /\ Contended(p)
  /\ Become(p, "failed")
  /\ UNCHANGED <<schema, rows, synced, next, starts>>

(* A process that has migrated indexes: its inserts reach the search       *)
(* tables through the triggers, if these have the shape of the tables.     *)
Index(p) ==
  /\ pc[p] = "running"
  /\ rows' = TRUE
  /\ synced' = (synced /\ schema.triggers = schema.fts)
  /\ UNCHANGED <<schema, pc, next, starts>>

(* A process ends: killed in any state, finished, or after its failure.    *)
Exit(p) ==
  /\ pc[p] # Off
  /\ Become(p, Off)
  /\ next' = [next EXCEPT ![p] = 0]
  /\ UNCHANGED <<schema, rows, synced, starts>>

Next ==
  \E p \in Procs :
    \/ Open(p) \/ OpenFails(p) \/ GetSchemaVersion(p)
    \/ RunMigration(p) \/ RunMigrationFails(p) \/ Busy(p)
    \/ Index(p) \/ Exit(p)

Spec == Init /\ [][Next]_vars

-----------------------------------------------------------------------------
(* Properties.                                                             *)

(* Every variable has its type.                                            *)
TypeOK ==
  /\ schema.version \in 0..schemaVersion
  /\ schema.objects \subseteq Objects(schemaVersion)
  /\ schema.fts \in {"none", "plain", "parts"}
  /\ schema.triggers \in {"none", "plain", "parts"}
  /\ rows \in BOOLEAN /\ synced \in BOOLEAN
  /\ pc \in [Procs -> {Off, "opened", "migrating", "running", "failed"}]
  /\ next \in [Procs -> 0..(schemaVersion + 1)]
  /\ starts \in Nat

(* A process whose Migrate returned without an error, and any process next *)
(* to it, works on the complete current schema, whoever ran, lost or       *)
(* repeated which migration.                                               *)
RunningMeansCurrent ==
  \A p \in Procs : pc[p] = "running" => schema.objects = Objects(schemaVersion)

(* The triggers always fit the search tables: otherwise every insert into  *)
(* functions or types would fail or leave the search tables behind.        *)
TriggersFit == schema.triggers # "none" => schema.triggers = schema.fts

(* Once a process runs, the search tables list exactly the rows, those of  *)
(* an interrupted earlier release included.                                *)
SearchComplete == (\E p \in Procs : pc[p] = "running") => synced

(* No process has to fail for what is recorded: the migrations that the    *)
(* recorded version calls for can all still be run.                        *)
UpgradeCanFinish ==
  (\A p \in Procs : pc[p] # "migrating") =>
    \A v \in (schema.version + 1)..schemaVersion : ~Duplicate(v)
=============================================================================
