------------------------------ MODULE CallGraph ------------------------------
(***************************************************************************)
(* internal/indexer/indexer.go: the call graph in the database, kept up to *)
(* date by incremental transactions (IndexFile) and rebuilt by full ones   *)
(* (Index), and the resolver that the worker keeps between them.           *)
(*                                                                         *)
(* Freshness covers what happens while a request travels and is served;    *)
(* here serving a request is one transaction, and requests may be served   *)
(* in any order (debounce timers fire in any order).  The disk may differ  *)
(* from the index in every file whose request is still queued.             *)
(***************************************************************************)
EXTENDS Resolver

CONSTANTS
  Scope,     \* the package (Go) or module (Python, TypeScript) of each file
  Sources,   \* per file, the contents it may have
  Full,      \* the request for a full reindex
  Cold,      \* the worker's resolver while it has none
  MaxEdits,  \* bound: how many times a file changes
  MaxFulls,  \* bound: how many full reindexes are requested
  MaxFails,  \* bound: how many requests fail for reasons outside this model
  MaxCli,    \* bound: how often "max-context index" runs in another process
  MaxRestarts \* bound: how often the server stops or crashes and is started again

ASSUME BoundAssumption ==
  /\ IsFiniteSet(Files) /\ Full \notin Files
  /\ MaxEdits \in Nat
  /\ MaxFulls \in Nat
  /\ MaxFails \in Nat
  /\ MaxCli \in Nat
  /\ MaxRestarts \in Nat

(* A source has its functions and its call sites in the order of their     *)
(* lines; a call site names the function it is in by its position, 0 for   *)
(* module level; bases pairs a class with a class it inherits from.  A     *)
(* file that does not exist defines and calls nothing.                     *)
Absent == [funcs |-> <<>>, facts |-> {}, classes |-> {}, bases |-> <<>>, interfaces |-> {},
           calls |-> <<>>]

ASSUME CallsAssumption ==
  \A f \in Files : \A s \in Sources[f] :
    /\ Len(s.funcs) \in Nat /\ Len(s.calls) \in Nat
    /\ \A i \in 1..Len(s.calls) : s.calls[i].in \in 0..Len(s.funcs)

ASSUME BasesAssumption ==
  \A f \in Files : \A s \in Sources[f] : s.bases \in Seq([class : STRING, base : STRING])

VARIABLES
  disk,    \* per file, its source
  queue,   \* the requests waiting for the worker
  missed,  \* requests that a restart or a foreign index has undone
  db,      \* the tables: funcs, facts, classes, bases, interfaces, calls
  cache,   \* the worker's resolver, or Cold
  errors,  \* the keys of index_errors
  gen,     \* how many transactions have inserted functions
  cli,     \* a run of "max-context index": its stage and the files it has
           \* found, and the requests that failed after its transaction
  loose,   \* edges of a resolver that another process had left behind were
           \* committed on a connection that does not check foreign keys
  budget   \* edits, full requests, failures, foreign runs and restarts so far

vars == <<disk, queue, missed, db, cache, errors, gen, cli, loose, budget>>

EmptyDb == [funcs |-> {}, facts |-> {}, classes |-> {}, bases |-> {}, interfaces |-> {},
            calls |-> {}]

NoCli == [stage |-> "none", files |-> {}, failed |-> {}]

Init ==
  /\ disk = [f \in Files |-> Absent]
  /\ queue = {}
  /\ missed = {}
  /\ db = EmptyDb
  /\ cache = Cold
  /\ errors = {}
  /\ gen = 1
  /\ cli = NoCli
  /\ loose = FALSE
  /\ budget = [edits |-> 0, fulls |-> 0, fails |-> 0, cli |-> 0, restarts |-> 0]

-----------------------------------------------------------------------------
(* What a transaction does to the tables.                                  *)

Elements(s) == {s[i] : i \in 1..Len(s)}

Ids(d) == {Id(x) : x \in d.funcs}

(* Rows that source s of file f yields in transaction g.                   *)
FuncRows(f, s, g) ==
  {[gen |-> g, file |-> f, pos |-> i, scope |-> Scope[f],
    name |-> s.funcs[i].name, recv |-> s.funcs[i].recv, ret |-> s.funcs[i].ret] :
   i \in 1..Len(s.funcs)}
FactRows(f, s) == {[file |-> f, owner |-> x.owner, name |-> x.name, type |-> x.type] : x \in s.facts}
ClassRows(f, s) == {[file |-> f, name |-> n] : n \in s.classes}
BaseRows(f, s, g) ==
  {[gen |-> g, file |-> f, pos |-> i, class |-> s.bases[i].class, base |-> s.bases[i].base] :
   i \in 1..Len(s.bases)}
InterfaceRows(f, s) == {[file |-> f, name |-> i.name, methods |-> i.methods] : i \in s.interfaces}

InsertDefinitions(d, f, s, g) ==
  [d EXCEPT !.funcs = @ \cup FuncRows(f, s, g),
            !.facts = @ \cup FactRows(f, s),
            !.classes = @ \cup ClassRows(f, s),
            !.bases = @ \cup BaseRows(f, s, g),
            !.interfaces = @ \cup InterfaceRows(f, s)]

(* insertCall and insertInterfaceDispatchEdges, for every call site inside *)
(* a function: the edge that ResolveCall finds, and one more edge for      *)
(* every implementation of an interface method.                            *)
Row(f, g, c, callee, marker) ==
  [file |-> f, caller |-> <<g, f, c.in>>, name |-> c.callee, line |-> c.line,
   callee |-> callee, marker |-> marker]

(* Mutant of CallRows: a call without a target is not stored.              *)
LinkedCallRows(r, f, s, g) ==
  LET inside == {c \in Elements(s.calls) : c.in # 0}
      res(c) == ResolveCall(r, c, Scope[f], f)
  IN  {Row(f, g, c, res(c).callee, res(c).marker) : c \in {x \in inside : res(x).callee # NoId}}

CallRows(r, f, s, g) ==
  LET inside == {c \in Elements(s.calls) : c.in # 0}
      primary(c) == LET res == ResolveCall(r, c, Scope[f], f)
                    IN  Row(f, g, c, res.callee, res.marker)
      dispatch(c) == {Row(f, g, c, Id(d), "interface-dispatch") :
                        d \in InterfaceMethodImpls(r, c.via, c.callee)}
  IN  {primary(c) : c \in inside}
      \cup UNION {dispatch(c) : c \in {x \in inside : x.kind = "var"}}

(* Mutant of Unlink: edges of other files keep pointing into f.            *)
UnlinkNothing(d, f) == IF f \in Files THEN d ELSE EmptyDb

(* Edges into file f lose their target and are marked stale.               *)
Unlink(d, f) ==
  [d EXCEPT !.calls =
     {IF \E x \in OfFile(d.funcs, f) : Id(x) = c.callee
      THEN [c EXCEPT !.callee = NoId, !.marker = "stale"] ELSE c : c \in @}]

DeleteCalls(d, f) == [d EXCEPT !.calls = OfOthers(@, f)]

DeleteDefinitions(d, f) ==
  [d EXCEPT !.funcs = OfOthers(@, f), !.facts = OfOthers(@, f),
            !.classes = OfOthers(@, f), !.bases = OfOthers(@, f),
            !.interfaces = OfOthers(@, f)]

(* reresolveStaleEdges: each stale row is matched, by line and callee      *)
(* name, with the first such call site of what its file holds on disk NOW, *)
(* and takes over that call site's target; without a match it stays        *)
(* unresolved.                                                             *)
CallSites(s, c) == {i \in 1..Len(s.calls) : s.calls[i].line = c.line /\ s.calls[i].callee = c.name}
FirstSite(s, c) == {i \in CallSites(s, c) : \A j \in CallSites(s, c) : i <= j}

(* Mutant of Reresolved: the call site is found by its line alone.         *)
ReresolvedByLine(r, c) ==
  LET s == disk[c.file]
      sites == {i \in 1..Len(s.calls) : s.calls[i].line = c.line}
      res == IF sites = {} THEN NoLink("unresolved")
             ELSE ResolveCall(r, s.calls[CHOOSE i \in sites : TRUE], Scope[c.file], c.file)
  IN  [c EXCEPT !.callee = res.callee, !.marker = res.marker]

Reresolved(r, c) ==
  LET s == disk[c.file]
      res == IF FirstSite(s, c) = {} THEN NoLink("unresolved")
             ELSE ResolveCall(r, s.calls[Only(FirstSite(s, c))], Scope[c.file], c.file)
  IN  [c EXCEPT !.callee = res.callee, !.marker = res.marker]

ReresolveStaleEdges(d, r) ==
  [d EXCEPT !.calls = {IF c.marker = "stale" THEN Reresolved(r, c) ELSE c : c \in @}]

(* Rows of calls with an end that does not exist.                          *)
Broken(d) ==
  {c \in d.calls : c.caller \notin Ids(d) \/ (c.callee # NoId /\ c.callee \notin Ids(d))}

-----------------------------------------------------------------------------
(* IndexFile.                                                              *)

Deleted(f) == DeleteDefinitions(DeleteCalls(Unlink(db, f), f), f)

Inserted(f) == InsertDefinitions(Deleted(f), f, disk[f], gen)

ResolverForIndexFile(f) ==
  IF cache = Cold THEN NewResolver(Inserted(f))
                  ELSE AddFile(RemoveFile(cache, f), Inserted(f), f)

Linked(f) ==
  LET d == Inserted(f)
      r == ResolverForIndexFile(f)
  IN  ReresolveStaleEdges([d EXCEPT !.calls = @ \cup CallRows(r, f, disk[f], gen)], r)

(* PRAGMA foreign_keys=ON checks every statement: none may break a row.    *)
Accepted(f) == Broken(Deleted(f)) \cup Broken(Linked(f)) \subseteq Broken(db)

(* A rebuild by another process has left the resolver behind.              *)
Outdated == cache # Cold /\ cache.defs # db.funcs

(* The pragma is set once, on one connection of the pool (db.go:34-49);    *)
(* the transaction may be given that one or one that checks nothing.       *)
Committed(f) ==
  \E checked \in BOOLEAN :
    /\ checked => Accepted(f)
    /\ loose' = (loose \/ (~checked /\ Outdated))

IndexFile(f) ==
  /\ f \in queue
  /\ Committed(f)
  /\ db' = Linked(f)
  /\ cache' = ResolverForIndexFile(f)
  /\ errors' = errors \ {f}
  /\ missed' = missed \ {f}
  /\ queue' = queue \ {f}
  /\ gen' = gen + 1
  /\ UNCHANGED <<disk, cli, budget>>

(* Mutant of RollBack: the delta stays in the resolver.                    *)
RollBackKeepingDelta(f) ==
  /\ cache' = IF f = Full THEN Cold ELSE ResolverForIndexFile(f)
  /\ errors' = errors \cup {f}
  /\ queue' = queue \ {f}
  /\ cli' = IF cli.stage = "indexed" THEN [cli EXCEPT !.failed = @ \cup {f}] ELSE cli
  /\ UNCHANGED <<disk, missed, db, gen, loose>>

(* Any error rolls the transaction back, drops the resolver and is         *)
(* recorded: a foreign key that a connection checks and that does not      *)
(* hold, or a failure of the file system or the database.                  *)
RollBack(f) ==
  /\ cache' = Cold
  /\ errors' = errors \cup {f}
  /\ queue' = queue \ {f}
  /\ cli' = IF cli.stage = "indexed" THEN [cli EXCEPT !.failed = @ \cup {f}] ELSE cli
  /\ UNCHANGED <<disk, missed, db, gen, loose>>

IndexFileRefused(f) ==
  /\ f \in queue
  /\ ~Accepted(f)
  /\ RollBack(f)
  /\ UNCHANGED budget

IndexFileFails(f) ==
  /\ f \in queue
  /\ budget.fails < MaxFails
  /\ budget' = [budget EXCEPT !.fails = @ + 1]
  /\ RollBack(f)

(* Index: every table but the type facts (struct_fields, package_vars) and *)
(* class_bases is emptied, then every file of the scan is parsed and       *)
(* inserted.                                                               *)
Rebuilt(d, scanned) ==
  LET base == [funcs |-> UNION {FuncRows(f, disk[f], gen) : f \in scanned},
               facts |-> d.facts \cup UNION {FactRows(f, disk[f]) : f \in scanned},
               classes |-> UNION {ClassRows(f, disk[f]) : f \in scanned},
               bases |-> d.bases \cup UNION {BaseRows(f, disk[f], gen) : f \in scanned},
               interfaces |-> UNION {InterfaceRows(f, disk[f]) : f \in scanned},
               calls |-> {}]
      r == NewResolver(base)
  IN  [base EXCEPT !.calls = UNION {CallRows(r, f, disk[f], gen) : f \in scanned}]

(* Mutant of IndexAll: ids start again.                                    *)
IndexAllReusingIds ==
  /\ Full \in queue
  /\ db' = Rebuilt(db, Files)
  /\ cache' = Cold
  /\ errors' = {}
  /\ missed' = {}
  /\ queue' = queue \ {Full}
  /\ loose' = FALSE
  /\ UNCHANGED <<disk, gen, cli, budget>>

IndexAll ==
  /\ Full \in queue
  /\ db' = Rebuilt(db, Files)
  /\ cache' = Cold
  /\ errors' = {}
  /\ missed' = {}
  /\ queue' = queue \ {Full}
  /\ gen' = gen + 1
  /\ loose' = FALSE
  /\ UNCHANGED <<disk, cli, budget>>

IndexAllFails ==
  /\ Full \in queue
  /\ budget.fails < MaxFails
  /\ budget' = [budget EXCEPT !.fails = @ + 1]
  /\ RollBack(Full)

(* "max-context index" in another process: it looks for the files, then    *)
(* rebuilds the database, then empties index_errors.  A file that appears  *)
(* after the scan and is served before the transaction is thrown out, and  *)
(* a failure after the transaction is forgotten with those before it.      *)
CliScan ==
  /\ cli.stage = "none"
  /\ budget.cli < MaxCli
  /\ budget' = [budget EXCEPT !.cli = @ + 1]
  /\ cli' = [NoCli EXCEPT !.stage = "scanned", !.files = {f \in Files : disk[f] # Absent}]
  /\ UNCHANGED <<disk, queue, missed, db, cache, errors, gen, loose>>

CliIndex ==
  /\ cli.stage = "scanned"
  /\ db' = Rebuilt(db, cli.files)
  /\ missed' = {f \in Files \ cli.files : disk[f] # Absent}
  /\ gen' = gen + 1
  /\ cli' = [NoCli EXCEPT !.stage = "indexed"]
  /\ loose' = FALSE
  /\ UNCHANGED <<disk, queue, cache, errors, budget>>

CliClear ==
  /\ cli.stage = "indexed"
  /\ errors' = {}
  /\ missed' = missed \cup (cli.failed \cap errors)
  /\ cli' = NoCli
  /\ UNCHANGED <<disk, queue, db, cache, gen, loose, budget>>

-----------------------------------------------------------------------------
(* The server stops, in whatever transaction it is, and is started again:  *)
(* the requests are lost, and nothing is indexed at start-up.              *)
Restart ==
  /\ budget.restarts < MaxRestarts
  /\ budget' = [budget EXCEPT !.restarts = @ + 1]
  /\ missed' = missed \cup queue
  /\ queue' = {}
  /\ cache' = Cold
  /\ UNCHANGED <<disk, db, errors, gen, cli, loose>>

(* The environment: a file is written, perhaps with what it held, or       *)
(* deleted, and its request queued; a full reindex is requested.           *)

Edit(f) ==
  /\ budget.edits < MaxEdits
  /\ budget' = [budget EXCEPT !.edits = @ + 1]
  /\ \E s \in Sources[f] \cup {Absent} : disk' = [disk EXCEPT ![f] = s]
  /\ queue' = queue \cup {f}
  /\ UNCHANGED <<missed, db, cache, errors, gen, cli, loose>>

RequestFull ==
  /\ budget.fulls < MaxFulls
  /\ Full \notin queue
  /\ budget' = [budget EXCEPT !.fulls = @ + 1]
  /\ queue' = queue \cup {Full}
  /\ UNCHANGED <<disk, missed, db, cache, errors, gen, cli, loose>>

Next ==
  \/ \E f \in Files : IndexFile(f) \/ IndexFileRefused(f) \/ IndexFileFails(f) \/ Edit(f)
  \/ IndexAll \/ IndexAllFails \/ Restart \/ RequestFull
  \/ CliScan \/ CliIndex \/ CliClear

Spec == Init /\ [][Next]_vars

-----------------------------------------------------------------------------
(* Properties.                                                             *)

(* Every variable has its type; the next transaction's ids are all new.    *)
TypeOK ==
  /\ \A f \in Files : disk[f] \in Sources[f] \cup {Absent}
  /\ queue \subseteq Files \cup {Full}
  /\ missed \subseteq Files \cup {Full}
  /\ errors \subseteq Files \cup {Full}
  /\ gen \in Nat \ {0}
  /\ DOMAIN db = DOMAIN EmptyDb
  /\ \A d \in db.funcs \cup db.bases : d.gen \in 1..gen - 1
  /\ cli.stage \in {"none", "scanned", "indexed"}
  /\ loose \in BOOLEAN

(* The request for f, if there was one, has been served.                   *)
Settled(f) == f \notin queue \cup missed \cup errors

(* Every edge starts in a function of its own file and ends in an existing *)
(* function of the name that is called, whatever was deleted, renamed or   *)
(* rebuilt since the edge was resolved, and although no connection need    *)
(* check it.  The one exception is what loose records: after another       *)
(* process has rebuilt the database, an unchecked transaction of the       *)
(* worker's old resolver may leave edges without an end - and even those   *)
(* never end in another function than the one that was called.             *)
EdgesAreSound ==
  \A c \in db.calls :
    /\ c.caller[2] = c.file /\ c.caller \in Ids(db)
    /\ c.marker # "stale"
    /\ c.callee # NoId =>
         /\ c.callee \in Ids(db) \/ loose
         /\ \A d \in db.funcs :
              Id(d) = c.callee /\ c.marker # "import-symbol" => d.name = c.name

(* The resolver maintained by deltas is the resolver that a full scan of   *)
(* the database would build, after any sequence of changes, deletions,     *)
(* rebuilds and rolled-back transactions.                                  *)
Lookups(r) == [r EXCEPT !.bases = [c \in {x.class : x \in r.bases} |-> BaseNames(r, c)]]

CacheMatchesDb ==
  budget.cli = 0 /\ cache # Cold => Lookups(cache) = Lookups(NewResolver(db))

(* The order of the statements never makes the database refuse a file: an  *)
(* edit of a function that others call reaches the index.                  *)
NeverRefused == budget.cli = 0 /\ budget.fails = 0 => errors = {}

(* The edges of a file whose request has been served are those of its      *)
(* current call sites, one per call site at least, none left over,         *)
(* whatever the worker and an index command did in which order.            *)
CallSitesMatch ==
  \A f \in Files : Settled(f) =>
    {<<c.caller[3], c.line, c.name>> : c \in OfFile(db.calls, f)}
      = {<<c.in, c.line, c.callee>> : c \in {x \in Elements(disk[f].calls) : x.in # 0}}

-----------------------------------------------------------------------------
(* What the repository says of the incremental and of the full path. Edges *)
(* are compared as its tests compare them: without ids.                    *)

Quiet == queue \cup missed \cup errors = {}

CalleeFile(c) == IF c.callee = NoId THEN None ELSE c.callee[2]
View(d) == {[file |-> c.file, caller |-> c.caller[3], name |-> c.name,
             target |-> CalleeFile(c), marker |-> c.marker] : c \in d.calls}

(* Saving a file as it was loses no interface-dispatch edge: only "edges   *)
(* whose target was renamed or deleted become unresolved".                 *)
Definitions(d) ==
  <<{[file |-> x.file, pos |-> x.pos, name |-> x.name, recv |-> x.recv] : x \in d.funcs},
    d.interfaces>>

DispatchEdges(d) == {c \in View(d) : c.marker = "interface-dispatch"}

DispatchSurvivesSave ==
  [][Quiet' /\ Definitions(db)' = Definitions(db)
       => DispatchEdges(db) \subseteq DispatchEdges(db)']_db

(* "Edges whose target was renamed or deleted become unresolved - never a  *)
(* dangling id" (HARDENING_NOTES.md).                                      *)
NeverDangling == \A c \in db.calls : c.callee # NoId => c.callee \in Ids(db)

(* removeFile: "After this the resolver is exactly as if the file had      *)
(* never been indexed."                                                    *)
RemovalIsExact ==
  budget.cli = 0 /\ cache # Cold =>
    \A f \in Files : Lookups(RemoveFile(cache, f)) = Lookups(NewResolver(DeleteDefinitions(db, f)))
=============================================================================
