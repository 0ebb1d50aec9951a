-------------------------- MODULE Migrations_proofs --------------------------
(***************************************************************************)
(* The inductive invariant of Migrations and what follows from it, for any *)
(* set of processes and any number of starts.                              *)
(***************************************************************************)
EXTENDS Migrations, TLAPS

(* The database has a level: the migrations 1 to l have run, in this order *)
(* and each of them at least once.  The recorded version may be lower (a   *)
(* process repeated an old migration), but no process is further than one  *)
(* step ahead of the level.                                                *)
AtLevel(l) ==
  /\ schema.objects = Objects(l)
  /\ schema.version <= l
  /\ schema.fts = FtsAt(l)
  /\ schema.triggers = TriggersAt(l)
  /\ l >= 6 => synced

ProcessesAtLevel(l) ==
  \A p \in Procs :
    /\ pc[p] = "migrating" => next[p] \in 1..schemaVersion /\ next[p] <= l + 1
    /\ pc[p] = "running" => l = schemaVersion

Shape == DOMAIN schema = {"version", "objects", "fts", "triggers"}

Inv ==
  /\ Shape
  /\ schema.version \in Nat
  /\ rows \in BOOLEAN /\ synced \in BOOLEAN
  /\ pc \in [Procs -> {Off, "opened", "migrating", "running", "failed"}]
  /\ next \in [Procs -> 0..(schemaVersion + 1)]
  /\ starts \in Nat
  /\ \E l \in 0..schemaVersion : AtLevel(l) /\ ProcessesAtLevel(l)

(* Repeating a migration adds nothing; the next one leads to the next      *)
(* level.                                                                  *)
LEMMA ObjectsRepeat ==
  ASSUME NEW l \in 0..schemaVersion, NEW v \in 1..l
  PROVE  Objects(l) \cup Migration[v].creates \cup Migration[v].adds = Objects(l)
BY DEF Objects

LEMMA ObjectsNext ==
  ASSUME NEW l \in 0..(schemaVersion - 1)
  PROVE  Objects(l) \cup Migration[l + 1].creates \cup Migration[l + 1].adds = Objects(l + 1)
<1>1. 1..(l + 1) = (1..l) \cup {l + 1}
  BY DEF schemaVersion
<1>2. QED
  BY <1>1 DEF Objects

LEMMA ObjectsGrow ==
  ASSUME NEW l \in 0..schemaVersion
  PROVE  Objects(l) \subseteq Objects(schemaVersion)
BY DEF Objects, schemaVersion

LEMMA InitInv == Init => Inv
<1> SUFFICES ASSUME Init PROVE Inv
  OBVIOUS
<1>1. PICK v \in 0..schemaVersion :
        /\ schema = [version |-> v, objects |-> Objects(v),
                     fts |-> FtsAt(v), triggers |-> TriggersAt(v)]
        /\ rows \in IF v = 0 THEN {FALSE} ELSE BOOLEAN
        /\ synced \in IF rows /\ v < 6 THEN BOOLEAN ELSE {TRUE}
  BY DEF Init
<1>a. v >= 6 => synced
  <2>1. CASE v < 6
    BY <2>1 DEF schemaVersion
  <2>2. CASE ~(v < 6)
    BY <2>2, <1>1
  <2>3. QED
    BY <2>1, <2>2
<1>b. rows \in BOOLEAN /\ synced \in BOOLEAN
  <2>1. rows \in BOOLEAN
    BY <1>1, Zenon
  <2>2. synced \in BOOLEAN
    BY <1>1, Zenon
  <2>3. QED
    BY <2>1, <2>2
<1>c. /\ schema.version = v /\ schema.objects = Objects(v)
      /\ schema.fts = FtsAt(v) /\ schema.triggers = TriggersAt(v)
      /\ DOMAIN schema = {"version", "objects", "fts", "triggers"}
  <2>1. schema = [version |-> v, objects |-> Objects(v),
                  fts |-> FtsAt(v), triggers |-> TriggersAt(v)]
    BY <1>1
  <2>2. QED
    BY <2>1
<1>2. AtLevel(v)
  BY <1>a, <1>c DEF AtLevel, schemaVersion
<1>3. ProcessesAtLevel(v)
  BY OffAssumption DEF Init, ProcessesAtLevel
<1>4. Shape /\ schema.version \in Nat
  BY <1>c DEF Shape, schemaVersion
<1>5. QED
  BY <1>b, <1>2, <1>3, <1>4 DEF Inv, Init, schemaVersion

(* What a successful migration does to the level.                          *)
LEMMA RunMigrationLevel ==
  ASSUME Inv, NEW p \in Procs, RunMigration(p),
         NEW l \in 0..schemaVersion, AtLevel(l), ProcessesAtLevel(l)
  PROVE  \E k \in 0..schemaVersion :
           AtLevel(k)' /\ k >= l /\ next[p] <= k
<1>0. PICK v \in 1..schemaVersion : v = next[p]
  BY DEF RunMigration, ProcessesAtLevel
<1>1. v \in 1..schemaVersion /\ v <= l + 1
  BY <1>0 DEF RunMigration, ProcessesAtLevel
<1>2. schema' = [version  |-> v,
                 objects  |-> schema.objects \cup Migration[v].creates \cup Migration[v].adds,
                 fts      |-> FtsAfter(v, schema.fts),
                 triggers |-> TriggersAfter(v, schema.triggers)]
  BY <1>0 DEF RunMigration
<1>3. synced' = IF Rebuilds(v) THEN TRUE
                ELSE IF FtsAfter(v, schema.fts) # schema.fts THEN ~rows ELSE synced
  BY <1>0 DEF RunMigration
<1>4. CASE v <= l
  <2>1. Objects(l) \cup Migration[v].creates \cup Migration[v].adds = Objects(l)
    <3>1. v \in 1..l
      BY <1>1, <1>4 DEF schemaVersion
    <3>2. QED
      BY <3>1, ObjectsRepeat
  <2>2. FtsAfter(v, FtsAt(l)) = FtsAt(l) /\ TriggersAfter(v, TriggersAt(l)) = TriggersAt(l)
    BY <1>1, <1>4 DEF FtsAfter, FtsAt, TriggersAfter, TriggersAt, schemaVersion
  <2>3. l >= 6 => synced'
    BY <1>3, <2>2 DEF AtLevel
  <2>4. AtLevel(l)'
    BY <1>1, <1>2, <1>4, <2>1, <2>2, <2>3 DEF AtLevel
  <2>5. QED
    BY <1>0, <1>4, <2>4 DEF schemaVersion
<1>5. CASE v = l + 1
  <2>1. l \in 0..(schemaVersion - 1)
    BY <1>1, <1>5 DEF schemaVersion
  <2>2. Objects(l) \cup Migration[v].creates \cup Migration[v].adds = Objects(v)
    BY <1>5, <2>1, ObjectsNext
  <2>3. FtsAfter(v, FtsAt(l)) = FtsAt(v) /\ TriggersAfter(v, TriggersAt(l)) = TriggersAt(v)
    BY <1>1, <1>5, <2>1 DEF FtsAfter, FtsAt, TriggersAfter, TriggersAt, schemaVersion
  <2>4. v >= 6 => synced'
    <3>1. CASE v \in {6, 9}
      BY <3>1, <1>3 DEF Rebuilds
    <3>2. CASE v \notin {6, 9} /\ v >= 6
      <4>1. l >= 6 /\ FtsAfter(v, schema.fts) = schema.fts
        BY <3>2, <1>5, <2>1 DEF FtsAfter, schemaVersion
      <4>2. QED
        BY <4>1, <3>2, <1>3 DEF AtLevel
    <3>3. QED
      BY <3>1, <3>2
  <2>5. AtLevel(v)'
    BY <1>1, <1>2, <2>2, <2>3, <2>4 DEF AtLevel, schemaVersion
  <2>6. QED
    BY <1>0, <1>1, <1>5, <2>1, <2>5 DEF schemaVersion
<1>6. QED
  BY <1>1, <1>4, <1>5 DEF schemaVersion

LEMMA NextInv == Inv /\ [Next]_vars => Inv'
<1> SUFFICES ASSUME Inv, [Next]_vars PROVE Inv'
  OBVIOUS
<1>0. PICK l \in 0..schemaVersion : AtLevel(l) /\ ProcessesAtLevel(l)
  BY DEF Inv
<1>1. ASSUME NEW p \in Procs, Open(p) PROVE Inv'
  BY <1>0, <1>1, OffAssumption DEF Inv, Open, Become, Shape, AtLevel, ProcessesAtLevel
<1>2. ASSUME NEW p \in Procs, OpenFails(p) PROVE Inv'
  BY <1>0, <1>2, OffAssumption DEF Inv, OpenFails, Become, Shape, AtLevel, ProcessesAtLevel
<1>3. ASSUME NEW p \in Procs, GetSchemaVersion(p) PROVE Inv'
  <2>1. AtLevel(l)' /\ Shape' /\ (schema.version \in Nat)'
    BY <1>0, <1>3 DEF GetSchemaVersion, AtLevel, Inv, Shape
  <2>2. ProcessesAtLevel(l)'
    BY <1>0, <1>3 DEF GetSchemaVersion, Become, AtLevel, ProcessesAtLevel, Inv, schemaVersion
  <2>3. pc' \in [Procs -> {Off, "opened", "migrating", "running", "failed"}]
        /\ next' \in [Procs -> 0..(schemaVersion + 1)]
    BY <1>3 DEF GetSchemaVersion, Become, Inv, schemaVersion
  <2>4. QED
    BY <1>3, <2>1, <2>2, <2>3 DEF Inv, GetSchemaVersion
<1>4. ASSUME NEW p \in Procs, RunMigration(p) PROVE Inv'
  <2>1. PICK k \in 0..schemaVersion : AtLevel(k)' /\ k >= l /\ next[p] <= k
    BY <1>0, <1>4, RunMigrationLevel
  <2>2. next[p] \in 1..schemaVersion
    BY <1>0, <1>4 DEF RunMigration, ProcessesAtLevel
  <2>3. ProcessesAtLevel(k)'
    BY <1>0, <1>4, <2>1, <2>2 DEF RunMigration, Become, ProcessesAtLevel, Inv, schemaVersion
  <2>4. pc' \in [Procs -> {Off, "opened", "migrating", "running", "failed"}]
        /\ next' \in [Procs -> 0..(schemaVersion + 1)]
    BY <1>4, <2>2 DEF RunMigration, Become, Inv, schemaVersion
  <2>5. Shape' /\ (schema.version \in Nat)'
    BY <1>4, <2>2 DEF RunMigration, Shape, schemaVersion
  <2>6. synced' \in BOOLEAN /\ rows' \in BOOLEAN /\ starts' \in Nat
    BY <1>4 DEF RunMigration, Inv
  <2>7. QED
    BY <2>1, <2>3, <2>4, <2>5, <2>6 DEF Inv
<1>5. ASSUME NEW p \in Procs, RunMigrationFails(p) PROVE Inv'
  BY <1>0, <1>5 DEF Inv, RunMigrationFails, Become, Shape, AtLevel, ProcessesAtLevel
<1>6. ASSUME NEW p \in Procs, Busy(p) PROVE Inv'
  BY <1>0, <1>6 DEF Inv, Busy, Become, Shape, AtLevel, ProcessesAtLevel
<1>7. ASSUME NEW p \in Procs, Index(p) PROVE Inv'
  <2>1. l = schemaVersion
    BY <1>0, <1>7 DEF Index, ProcessesAtLevel
  <2>2. synced'
    <3>1. synced
      BY <1>0, <2>1 DEF AtLevel, schemaVersion
    <3>2. schema.triggers = schema.fts
      BY <1>0, <2>1 DEF AtLevel, FtsAt, TriggersAt, schemaVersion
    <3>3. QED
      BY <1>7, <3>1, <3>2, Zenon DEF Index
  <2>3. QED
    BY <1>0, <1>7, <2>2 DEF Inv, Index, Shape, AtLevel, ProcessesAtLevel
<1>8. ASSUME NEW p \in Procs, Exit(p) PROVE Inv'
  BY <1>0, <1>8, OffAssumption DEF Inv, Exit, Become, Shape, AtLevel, ProcessesAtLevel, schemaVersion
<1>9. CASE UNCHANGED vars
  BY <1>0, <1>9 DEF Inv, vars, Shape, AtLevel, ProcessesAtLevel
<1>10. QED
  BY <1>1, <1>2, <1>3, <1>4, <1>5, <1>6, <1>7, <1>8, <1>9 DEF Next

LEMMA InvImplies == Inv => TypeOK /\ RunningMeansCurrent /\ TriggersFit /\ SearchComplete
<1> SUFFICES ASSUME Inv PROVE TypeOK /\ RunningMeansCurrent /\ TriggersFit /\ SearchComplete
  OBVIOUS
<1>0. PICK l \in 0..schemaVersion : AtLevel(l) /\ ProcessesAtLevel(l)
  BY DEF Inv
<1>1. TypeOK
  <2>1. schema.objects \subseteq Objects(schemaVersion)
    BY <1>0, ObjectsGrow DEF AtLevel
  <2>2. schema.version \in 0..schemaVersion
    BY <1>0 DEF AtLevel, Inv, schemaVersion
  <2>3. schema.fts \in {"none", "plain", "parts"} /\ schema.triggers \in {"none", "plain", "parts"}
    BY <1>0 DEF AtLevel, FtsAt, TriggersAt
  <2>4. QED
    BY <2>1, <2>2, <2>3 DEF TypeOK, Inv
<1>2. RunningMeansCurrent
  BY <1>0 DEF RunningMeansCurrent, AtLevel, ProcessesAtLevel
<1>3. TriggersFit
  BY <1>0 DEF TriggersFit, AtLevel, FtsAt, TriggersAt
<1>4. SearchComplete
  BY <1>0 DEF SearchComplete, AtLevel, ProcessesAtLevel, schemaVersion
<1>5. QED
  BY <1>1, <1>2, <1>3, <1>4

-----------------------------------------------------------------------------
LEMMA SpecInv == Spec => []Inv
BY InitInv, NextInv, PTL DEF Spec

(* Types, for any number of processes.                                     *)
THEOREM MigrationsTypeOK == Spec => []TypeOK
BY SpecInv, InvImplies, PTL

(* However many processes race through Migrate, die in it or repeat what   *)
(* others did: one whose Migrate returned works on the complete schema.    *)
THEOREM MigratedIsCurrent == Spec => []RunningMeansCurrent
BY SpecInv, InvImplies, PTL

(* The triggers and the search tables change shape together.               *)
THEOREM MigratedTriggersFit == Spec => []TriggersFit
BY SpecInv, InvImplies, PTL

(* The search tables are complete from the first process that runs.        *)
THEOREM MigratedSearchComplete == Spec => []SearchComplete
BY SpecInv, InvImplies, PTL
=============================================================================
