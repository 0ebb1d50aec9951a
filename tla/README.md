# Verification of max-context

max-context keeps an index of a source tree in SQLite (functions, types, call
graph, documents) and answers questions about it over MCP. Its value rests on
one claim: the index says what the files say, or admits that it does not. This
directory models the parts of the program that have to keep that claim — the
pipeline that indexes, the database it shares with other processes, the session
that answers from it, and the set-up that points agents at it — checks them with
TLC on small instances, and proves the central safety properties with TLAPS for
every value of the constants.

## 1. Inventory

```
 editor, git, hook ──► file system ──► fsnotify ──► watcher ──chan(100)──► RunWorker ──► SQLite ──► MCP tools ──► client
                                        events      debounce               Index / IndexFile     functions, calls, …
                                                    senders                + ResolverCache       index_errors
```

| Component (source) | State it keeps | Operations | Talks to |
|---|---|---|---|
| watcher (`internal/watcher/watcher.go`) | fsnotify watches, map of debounce timers, blocked sender goroutines, `done` | run, handle, debounce and its callback, send, stop | receives kernel events; sends paths, or `""` for everything, on the channel |
| worker (`internal/indexer/indexer.go` RunWorker, `internal/artifacts/health.go`) | the request in hand, `index_errors`, last-index times | receive, skip, IndexFile, IndexDocFile, Index, record and clear failures | channel, file system, database |
| transactions (`indexer.go` Index, IndexFile) | all tables | delete, parse, insert, link, re-link edges of other files, commit or roll back | database, resolver, parser |
| resolver (`internal/indexer/resolver.go`) | lookup tables by name, provenance per file, retained between requests in ResolverCache | NewResolver, removeFile, addFileFromDB, ResolveCall, interfaceMethodImpls, Invalidate | rows of the transaction |
| scanner (`scanner.go`, `docs.go`) | ignore patterns | Scan, Match | file system |
| commands (`cmd/max-context/main.go`) | none | index, watch, serve, status, setup | starts the above; `index` is a second process on the same database |
| database (`internal/db`) | schema version, pragmas per connection | Open, Migrate, prepared queries, full-text search | SQLite |
| query tools (`internal/tools`) | calls of query_codebase in this process | get_definition, query_codebase, get_call_chain, get_impact, get_architecture | database, read only; `git diff` |
| MCP server (`internal/mcp`) | none between requests | Serve, route, handle, recover | stdin, stdout, the tools |
| setup (`internal/setup`) | configuration, instruction and command files of nine harnesses | Run, apply, the merges per format, guidance | file system, the user's own edits |
| artifacts, config, gitdiff, hooks, parser | files they write | see `PROJECT.json` | file system |
| `experiments`, `internal/bench` | agent loop, MCP client | evaluation only | the server |

What is hard about it:

* **Concurrency.** Three kinds of goroutine in the watcher share a timer map and
  a bounded channel; the worker reads a file, later commits what it read, and
  the file changes in between. Go's `Timer.Reset` re-arms a timer whose callback
  is already waiting for the mutex, so a callback may run twice.
* **Failure.** Reads, parses and commits fail one file at a time; the report of
  a failure can itself fail; the kernel drops events when its queue overflows.
* **Ordering.** A call is resolved against what is indexed at that moment; the
  ids it is linked to are replaced on every save of the target's file.
* **Stale derived state.** The resolver is maintained by deltas inside a
  transaction that may roll back, and another process may rebuild the database
  under it.
* **Answers from a moving database.** A tool call reads in several statements
  and no transaction; the worker may commit between any two. Results are fetched
  with limits, deduplicated and trimmed in several places, and an answer that
  claims to be definitive must not owe that to a trim.
* **Repetition and interruption.** Migrations and set-up run again, run twice at
  once, or stop half way.

What would make each component correct, in a sentence:

* watcher: no accepted change is lost, nothing is left running after stop;
* worker: a file whose index is out of date is on its way or reported; old
  content never replaces newer content;
* transactions: the database never refuses an edit; edges never dangle;
* resolver: the maintained tables equal those of a full scan;
* query tools: a bounded search finds what is in bounds and nothing else; only a
  unique name is called definitive; an impact concerns the files that changed;
* server: every request gets exactly one answer, whatever comes between;
* migrations: two processes, or a killed one, leave a usable schema;
* setup: what the user wrote survives, success means installed, repeating it
  changes nothing.

`PROJECT.json` lists every component with its status, and every hazard with the
line where it bites.

## 2. Modules

| Module | Models | Correspondence |
|---|---|---|
| `ReindexChannel` | the Go channel of `main.go:225` | `ch`, `Put` (a send that waits for room), `Get` |
| `Watcher` | `watcher.go` | `events`: fsnotify's queue. `pend`: the timer map. `orphans`: armed timers no longer in the map. `callbacks`: timer goroutines waiting for the mutex. `senders`: goroutines blocked in `send`. Actions `HandleFile`, `HandleDir`, `HandleQueueFile`, `FirePending`, `FireOrphan`, `Callback`, `Send`, `Abandon`, `Stop` |
| `IndexWorker` | `RunWorker` and what it calls, content abstracted to versions | `disk[f]`, `snap[f]` (what was read), `index[f]` (what is committed), `stage` of the request in hand. The size check, the read and the commit are separate actions; so are the scan and the load of each file of a full reindex |
| `Freshness` | the wiring of `runMCPServer` and the environment | starts on any disk and any database, as `runMCPServer` does; adds edits, a directory that is made or renamed or moved away (watched or not), queue-file writes, cancellation; `unseen`, a history of the files whose last change the watcher was not told of; `Fairness`; the properties |
| `EventualIndex` | the abstract promise | `stale`, `owed`, `flagged`, `unseen`; staleness only while one of the others. A file changes and the system is told (`Change`), or is not (`Slip`) |
| `Freshness_proofs` | – | theorems about `Freshness`: its invariants; that it implements `EventualIndex` |
| `Resolver` | `resolver.go` | a table is the set of its entries, each with its file (the list of base classes, which forgets the file, by a count); `RemoveFile`, `AddFile`, `NewResolver`, `ResolveCall`, `InterfaceMethodImpls` are pure operators |
| `CallGraph` | the transactions of `Index` and `IndexFile` over the tables `functions`, `calls`, `struct_fields`, `package_vars`, classes, `class_bases` and interfaces | `db`, `cache` (ResolverCache), `queue`, `errors`, `cli` (the `index` command of another process: its scan, its transaction, its clearing of failures); ids are ⟨transaction, file, position⟩, which is the order in which AUTOINCREMENT hands them out. A transaction of the worker's is on a connection that checks foreign keys or on one that does not (`Committed`); `loose` remembers that an unchecked one used a resolver that another process had left behind. Actions `IndexFile`, `IndexFileRefused` (a foreign key fails), `IndexFileFails`, `IndexAll`, `IndexAllFails`, `CliScan`, `CliIndex`, `CliClear`, `Restart`, `Edit`, `RequestFull` |
| `CallGraph_proofs`, `CallEdges_proofs` | – | theorems about `CallGraph` and `Resolver`: the worker's resolver; the rows of `calls` |
| `Migrations` | `schema.go` and the start of every process | the schema by its `_meta` version, objects, shapes of the search tables and triggers; a process reads the version once (`ReadVersion`) and then commits one migration after the other, is refused (`duplicate column name`), is killed, or starts anew; rows and whether the search tables list them |
| `Migrations_proofs` | – | theorems about `Migrations` |
| `Setup` | `internal/setup` | the table of harnesses as in the source; a run takes one harness after the other from its `queue`, and of each the steps in `todo`, one per file; a file is what setup and its promises tell apart (absent, cut off, not parseable, its servers, its user text, further YAML documents). Actions `Run`, `NextHarness`, `TakeStep`, `StepFails`, `Finish`, `ReadFails`, `WriteFails`, `Kill`, `Edit` |
| `Setup_proofs` | – | theorems about `Setup` |
| `CallSearch` | the searches of `get_impact.go` and `get_call_chain.go` | pure operators on one state of the tables: `walks` (the recursive SELECT), `collect`, `Combined`, `Capped`; `queryCallChain`, `capNodes`; reachability by layers as the reference |
| `SymbolSearch` | `query_codebase.go`, `get_definition.go`, `fts.go`, `result_policy.go` | which rows a search matches, how many it fetches, what is definitive, ambiguous or empty, and the loop guard |
| `Session` | `internal/mcp` and the handlers of `internal/tools` over the tables of `CallGraph` | `line` (on stdin), `work` (the tool call in progress: its next statement and what it has read), `reply` (what the last step wrote), `calls` (`callCount`). One action per statement; `IncrementalWork`, `FullWork` and `Outside` step in between |
| `Session_proofs` | – | theorems about `Session`: requests and answers, the loop guard, the composition with `CallGraph` |
| `Answers_proofs` | – | theorems about what `Session` calls definitive |
| `Searches_proofs` | – | theorems about the searches of the call graph that `Session` answers with |
| `MCFreshness`, `MCCallGraph`, `MCSession` | – | starts after a stop of the server and from a current index, and what the documentation says of the cases in which the watcher is told nothing; the small packages of source that `CallGraph` and `Session` are run on; the client's lines |

`Freshness` and `CallGraph` divide the write path between them. `Freshness` asks *whether and
when* a file reaches the index and abstracts rows to versions; `CallGraph` asks
*what* a transaction does to rows and takes a request as one step. Requests are
served in any order in `CallGraph`, which is what debouncing allows. `Session`
is composed with `CallGraph`: it takes its transactions as they are and reads
what they commit. `Migrations` and `Setup` run before all of this and share no
state with it but the existence of the tables.

Operators whose comment begins with "Mutant of" are faulty variants of the
definition that follows them. `PROJECT.json` pairs each property with one: with
the variant in place of the definition, TLC finds the property violated.

## 3. Runs

Passing:

| Run | Question | Bounds |
|---|---|---|
| `Freshness_safety` | Is a file whose last change was reported always on its way or flagged when it is stale, by an inductive invariant too? Does the pipeline implement `EventualIndex`? | 2 files, one in a directory that comes and goes; a restart after changes that nobody saw; 3 changes, 1 full request, 1 failure, event queue of 2 that overflows, channel of 1 |
| `Freshness_faults` | With every fault on, does older content ever replace newer? | a document, a file that `.gitignore` hides in a directory that comes and goes, 3 changes, 1 full request, 1 failure, event queue of 1, cancellation |
| `Freshness_live` | Is every change in the end accounted for, is every full request served, does everything end after stop? | a document, and a code file in a directory that comes and goes; 2 changes, 1 full request, 1 failure, cancellation at any time |
| `CallGraph_safety` | Are edges sound, the cache exact, every edit accepted and every served file's edges its own, on connections that check foreign keys and on others? | a Go package of 3 files with 2 contents each (or absent), 4 edits, 1 full reindex, 1 failure, 1 restart |
| `CallGraph_modules` | The same where every file is a scope of its own, with imports and inheritance (once a cycle), and a second process rebuilds the database | 3 modules, 4 edits, 1 foreign index run in three steps |
| `Migrations_safety` | Does a process whose `Migrate` returned work on the complete schema, with triggers that fit and search tables that list every row? | 2 processes, 3 starts, kills at any time, any earlier release's database |
| `Setup_safety` | Is what the user has kept, is success complete, is a repeat a no-op? | all harnesses, one of each kind and an unknown one; 2 runs, 1 edit of the user's, 1 failed read, failed or cut-off write, or kill |
| `Session_safety` | Is every request answered once and does every call return? Do searches end? Do definitions, impacts and call chains say what the tables say, or belong to a call that was overtaken by a commit? | 2 files, 1 edit, 1 full reindex, 1 mishap (failed statement, panic, failed request or restart), 6 calls of `query_codebase`, `MaxNodes` 3, pool of 1 per result and at least 2 |

The bounds are the smallest at which the interesting cases meet. A channel of
one request with two files makes senders block and overtake one another; the
program's 100 only makes that rarer. Two edits of one file are needed for a
change between read and commit; a third re-arms a timer whose callback is already
waiting, or meets the full reindex that the second has not reached. Directories
come and go within the same three changes: made, handled, moved away. The runs
begin with part of what `Init` allows, to keep them small (`RestartInit`,
`CleanInit`); that the properties hold from every start, flagged or without a watch,
is what the theorems say. In
`CallGraph` four writes allow: target, caller, target changed, target deleted or
changed back. Two processes and three starts are what a race needs and one
process that starts after it. A second run of setup after a first that failed,
with one edit before or between, is every pair of states the merges distinguish.
The sharper warning of the loop guard starts with the sixth call; the project of
`MCSession` has a cycle of two, a self-call, two calls of one function, an
unresolved call and a test file, so that walks meet a function again and three
nodes are fewer than there are; its edit makes a unique name ambiguous and moves
every function to another place in its file, so that reused ids would be seen.

Runs in which TLC finds a statement of the repository violated:

| Run | Statement | What the code does |
|---|---|---|
| `Freshness_unreadable` | "a bad single-file reindex must not silently leave the index out of date" (`indexer.go:119`), "a clean full index clears any prior per-file failures" (`main.go:133`) | the parse pool of `Index` skips a file it cannot read, after its rows were deleted, and the reindex then counts as clean and clears all failures |
| `CallGraph_dispatch` | "edges whose target was renamed or deleted become unresolved" (`indexer.go:713`) | an interface-dispatch row is re-resolved as if it were the primary row of its call site, so saving an implementation unchanged loses the row |
| `CallGraph_bases` | "After this the resolver is exactly as if the file had never been indexed" (`resolver.go:299`) | `removeStrOnce` takes the first entry of `bases[class]` with the name, whichever file it came from: where two files declare a class of one name with a base in common, undoing one changes the order of the other's bases, and with it which ancestor is nearest |
| `Migrations_race` | "Migrate ensures the database schema is at the current version" (`internal/db/schema.go:11`) | `Migrate` reads the version once. Of two processes on an old database the slower one repeats an idempotent migration, sets the version back and fails on the next `ADD COLUMN`; from then on every start fails |

Further configurations, outside the runs above. Each takes a module of the runs
with other constants, and `tlc -config X.cfg` finds its one property violated by
what the code does:

| Configuration | Statement | What the code does |
|---|---|---|
| `Freshness_record` | "a bad single-file reindex must not silently leave the index out of date" (`indexer.go:119`) | `RecordIndexError` discards the error of its own INSERT (`health.go:70`): a request and its record fail together, and the file is stale in a healthy index |
| `Freshness_moved` | "File watcher keeps the index current within 2 seconds of changes" (`README.md:46`) | a directory, watched from the start or later, that is renamed or moved away yields an event that names the directory; `handle` drops it for want of a known extension (`watcher.go:158-191`), and its files keep their rows |
| `Freshness_newfolder` | "newly-created folders are covered without a restart" (`docs/PIPELINE.md:118`) | what a new directory holds before its watch is added (`watcher.go:168`) is never reported |
| `Freshness_gitignored` | "mirroring what Scan() would have excluded on a full index" (`indexer.go:37`) | `RunWorker` does not consult `.gitignore`, `Scan` does: saving such a file indexes it |
| `Freshness_oversize` | the same | a file that grows over the size limit keeps its old rows (`indexer.go:103`) |
| `CallGraph_pool` | "never a dangling id" (`HARDENING_NOTES.md:32`) | `applyPragmas` turns foreign keys on for one connection of the pool (`db.go:34-49`). After the `index` command has rebuilt the database, the server's cached resolver names rows that are gone, and a transaction on another connection commits edges to them |
| `Setup_readerror` | "safe on a file the user also edits by hand" (`setup.go:44`) | `appendWithMarkers` and `ensureGitignore` take a file that they cannot read for a missing one and overwrite it (`setup.go:46`, `setup.go:77`) |
| `Setup_documents` | "preserve what is there" (`yamlconfig.go:14`) | of a YAML file with several documents the first is read and written back, the others are lost |
| `Setup_inline` | "a new table appended at the end is always valid" (`tomlconfig.go:18`) | after an inline table of servers it is not: the file does not parse any more |

Other divergences met while modelling:

* `run` discards fsnotify's errors, the overflow of the event queue among them. The
  files whose events were dropped are in `unseen`, and a full reindex that somebody
  asks for is what brings them back.
* Two files that declare an interface of one name: `removeFile` drops the merged
  method set (its comment calls this the single-declaration assumption);
  `CacheMatchesDb` fails.
* `Index` does not empty `struct_fields`, `package_vars` and `class_bases`, which
  `docs/PIPELINE.md:138` lists among the tables it truncates: facts of files that
  changed while no server ran stay, and make lookups ambiguous or wrong.
  `Rebuilt` keeps them.
* The `index` command scans before its transaction and clears `index_errors` after
  it (`main.go:130-133`). A new file that the server indexes in between is thrown
  out, a failure that the server records in between is forgotten, and nothing
  tells either. `CliIndex` and `CliClear` put such files into `missed`, and
  `CallSitesMatch` is stated of the others.
* A call whose target is indexed after it stays unresolved until its own file is
  saved, so the incremental graph is not always that of a full reindex, which
  `resolver_cache_test.go:44` expects of a sequence of edits.
* `AGENTS.md` is shared by the harnesses, and `appendWithMarkers` writes its block
  once (`setup.go:54`): after `setup all` a harness without an MCP server reads
  "with the max-context MCP tools" there, while its guidance file names the
  command line. `guidance.go:82-83` says that the two never disagree.
* `get_impact` applies its limit to rows of the recursive query, of which one
  function may have many, so an answer may lack functions and not be flagged;
  `docs/PIPELINE.md:396` says "capped at maxImpactNodes = 1000 with a truncated
  flag". `ImpactNearestFirst` states what does hold: what is left out is never
  nearer than what is reported.
* A file reindexed between the first statement of `get_impact` and its walk gives
  an answer that names the file's symbols and reports no impact, without a
  warning: the ids it walks from are gone. `ImpactConcernsChange` states that it
  is at least never the impact of something else.

## 4. Fairness

`Freshness!FairSpec` assumes weak fairness of: the event loop taking the next
event; each file's timer expiring and its callback running; each request's
blocked sender proceeding; `stop`; the worker. Go schedules every runnable
goroutine, and the runtime serves goroutines blocked on a channel in the order in
which they arrived, which justifies fairness per request. The worker's fairness
is for its next step whatever it is: a step that fails is a step. Nothing obliges
the environment to edit, to ask for a reindex or to cancel. In production the
context is never cancelled (`context.Background()`); cancellation is there for
the tests' use of the API and for the promise that `stop` makes.

`Session!SessionSpec` assumes weak fairness of the server's goroutine
(`ServerStep`): the read loop and the handler it calls are one goroutine that
waits only for stdin and for statements, and a statement returns, at the latest
with an error when the busy timeout ends. Neither the client nor the worker is
obliged to do anything.

## 5. Proofs

`Freshness_proofs` proves, for any set of files, any channel capacity, any
number of senders and all bounds:

* `TypeCorrect`: `Spec => []TypeOK`, which includes that the channel never holds
  more than its capacity.
* `VersionsOrdered` and `NeverRegresses`: `Spec => []VersionInv` and
  `Spec => IndexNeverRegresses`, with every fault. The inductive invariant orders
  the three versions of a file, `index <= snap <= disk`; it needs the stage of
  the worker, because a snapshot means something only between read and commit.
* `StalenessInvariant` and `StalenessIsNeverSilent`: `Spec => []StalenessInv` and
  `Spec => []NoSilentStaleness`, under `NoFaults` (the event queue may overflow; no
  other injected fault, no file that `.gitignore` hides), from any disk and any
  database at the start. The property is about the files outside `unseen`: those whose
  last change the watcher was told of. In `unseen` are the files that changed while
  no server ran, in a directory that has no watch, together with the directory they
  are in (any directory that is renamed or moved away, watched or not), or while the
  event queue was full; a full reindex takes them out of it. Of those the code knows
  nothing, and `Freshness_moved` and `Freshness_newfolder` show two ways in which they
  stay stale. `NoSilentStaleness` is not inductive: in a state where the
  worker has read an outdated version and nothing is queued, the commit would
  leave the file stale and silent. `SnapshotInv` excludes that state: what the
  worker has read is current, or a request for the file is still in front of it.
  Its proof is the heart of the matter: an edit queues an event, and every step
  of the watcher hands the change on (event to timer, timer to callback, callback
  to sender, sender to channel) until the worker takes it, at which point its old
  snapshot is gone.

`NoFaults` is an assumption of the theorems, not of the specification; section 3
says what happens without it. Each step lemma has one case per action.

`Freshness_proofs` also proves `PipelineKeepsPromise`: under `NoFaults` and without
cancellation, directories that come and go included, `Spec => KeepsPromise`, where
`KeepsPromise` is the specification of `EventualIndex` with staleness, debt and
flags read off the pipeline's state. The invariants above carry
it: a step of the watcher moves a change from one place to the next, so what is
owed stays owed; a change that nobody reports is a `Slip`, which may also void what
the worker has just read; the worker's receipt is where a debt begins to be paid, and its
commit or its record of a failure is where it ends.

`CallGraph_proofs` proves `CacheIsExact`: `Spec => []CacheMatchesDb`, for any set of
files and contents and any sequence of edits, deletions, rollbacks, full reindexes
and restarts, under the assumption `SingleDeclaration` (no two files declare an
interface of one name, which the comment of `removeFile` says it assumes, or a class
of one name with bases, which it does not say; `CallGraph_bases` shows that it
must), which the contents of both passing runs satisfy. Section 3 says what happens without it. The argument:
`IndexFile` changes rows of one file only (`OthersUntouched`), and for such a change
`removeFile` followed by `addFileFromDB` gives what `NewResolver` would
(`DeltaIsExact`); linking changes only `calls`, which the resolver does not read.
The merged method sets are the delicate table: provenance deletes a name whole,
which is right only if no other file contributed to it, hence `Sourced` in the
inductive invariant `CacheInv`. The list of base classes is given up by value: that the
right entries go is an argument by counting (`BasesSplit`), for which `CacheInv` also
says that the rows are finitely many. `CacheMatchesDb` says nothing once another process
has rebuilt the database: the resolver's ids are then outdated, which a connection
that checks foreign keys refuses and another does not (`CallGraph_pool`).

`CallEdges_proofs` proves the other invariants of `CallGraph`, for any files, contents and
resolver, other processes included, from two assumptions on a source: its functions
and call sites can be counted, and a call site inside a function names one of them
(`CallsAssumption`).

* `EdgesAlwaysSound`: `Spec => []EdgesAreSound`. Whatever branch of `ResolveCall` is
  taken, it links to a function of the name that is called or to an imported symbol
  (`ResolveCallResolves`). That such a link stays good needs `IdsInv`: the ids in the
  database *and in the resolver* are of past transactions, and one id is one function.
  Without it a resolver that outlived a foreign rebuild could name an id that now belongs
  to another function. In a transaction of `f`, `Unlink` marks every row into `f`,
  `ReresolveStaleEdges` leaves no row marked, and the remaining rows are untouched
  (`OldRow`). Nothing is assumed of foreign keys: a transaction may be on a connection of
  the pool that does not check them. That both ends exist is proved for a checked one
  from the check, and for an unchecked one from the resolver: unless it is `Outdated`,
  which takes a rebuild by another process (`OriginInv`), it knows only functions that are
  there. Where both happen, `loose` becomes true until the next rebuild, and
  `EdgesAreSound` grants such edges a missing end; never another function.
* `NeverRefusedAnywhere`: `Spec => []NeverRefused`. As long as no other process rebuilds,
  the functions that the resolver knows are those of the database, so what it links to
  exists and a connection that checks has nothing to refuse, and what `Unlink` leaves points to other files only (`UnlinkedEnds`).
* `CallSitesAlwaysMatch`: `Spec => []CallSitesMatch`. The inductive invariant `SitesInv`
  says of the window between an index command's transaction and its last statement what
  `CallSitesMatch` does not: an error recorded before the transaction is made up for, and
  only one recorded after it still counts (`Outstanding`).
* `CallGraphTypeOK`: `Spec => []TypeOK`, which includes that the next ids are new.

`Migrations_proofs` proves, for any number of processes and starts and from any
earlier release's database, `MigrationsTypeOK`, `MigratedIsCurrent`,
`MigratedTriggersFit` and `MigratedSearchComplete`. The version row is no help,
because a slow process may set it back. The inductive invariant says instead that
the database has a level: the objects, the search tables and the triggers are
those which the migrations up to that level leave, and no process has more than
the next one in hand.
A repeated migration is refused or changes nothing, so the level only grows.

`Session_proofs` proves, for any client, project and number of calls, from the one
assumption that `Nothing` is neither a message nor a tool call in progress:

* `AnsweredExactlyOnce`: `SessionSpec => ExactlyOneAnswer`, and `SessionTypeCorrect`:
  `SessionSpec => []SessionTypeOK`. The 24 actions of the server are first shown to be
  of four kinds (`Begins`, `GoesOn`, `Answers`, `Discards`; `ServerSteps`), and the
  argument goes on about those. What makes it inductive is `LineInv`: a call in
  progress belongs to a request that is still on stdin.
* `SearchEnds`: `SessionSpec => []LoopGuardEndsSearch`. `CountInv` relates the handler's counter
  to the calls the client has sent: it is one behind exactly while a call is on
  stdin and no handler has begun it. Refused, failed and panicking calls count too.
* `SessionEdgesSound`: a session takes the steps of `CallGraph` and no others
  (`SessionTakesSteps`), so the invariants proved there hold while a client is served. No
  other process takes part in a session, so every edge has both its ends:
  `SessionSpec => [](EdgesAreSound /\ ~loose)`.

`Answers_proofs` proves `DefinitiveIsTheOnlyBest`: `SessionSpec => []DefinitiveIsUnique`, for
any client, project and number of concurrent commits. An answer is judged when it is
written, but what it rests on was read several statements earlier. `FoundInv` says what
a call has in hand at every stage: as long as no commit and no failed statement came
between, it has found exactly the rows that the tables have for the names asked for, or
the search fetched fewer than matched, which the property excludes by name
(`Overflows`). `SearchTables` may then take any choice of rows up to the limit, and the
proof is that it has no choice when the limit is not reached. Besides `NothingApart` the
theorem uses two facts: a word is among the words it is a prefix of
(`WordsAssumption`), and the limit of a query is at least one, which the handler's clamp
sees to (`QueriesAssumption`).

`Searches_proofs` proves three theorems about `get_impact` and `get_call_chain`. They need
that the depths and limits are clamped (`GraphSearchAssumption`), that names are ordered
(`NamesAssumption`, which stands for the collation of `ORDER BY`) and that `MaxNodes` is
positive; they hold for any number of rows, any depth, and call graphs with cycles and
duplicate rows.

* `ImpactStaysWithTheChange`: `SessionSpec => []ImpactConcernsChange`, whatever is committed
  while the call is at work. The ids a walk starts from were read one statement
  earlier. `SeedsInv` says that they are of past generations, and that a function in the
  tables which has one of them is the one that was read; a commit hands out ids of the
  current generation only (`NewFuncs`). So an id in hand may dangle but never comes
  to mean another function.
* `ImpactFindsNearest`: `SessionSpec => ImpactNearestFirst`. What a walk collects is a list
  sorted by distance and cut off at the limit, so what is left out is never nearer than
  what is kept (`CollectedNearestFirst`); that the depths in it are distances
  follows from `LayersAreEnds`, which relates the rows of the recursive SELECT to
  reachability by layers. `RowsInv` supplies that there are finitely many rows, without
  which "the first so many" would mean nothing.
* `ChainNamesAllInReach`: `SessionSpec => ChainIsComplete`. The layers of the breadth-first
  search are the layers of reachability (`ReachedLayers`), and a row of `calls` joins to
  functions that exist (`EndsKnown`), for which `EdgesAlwaysSound`'s invariant is needed.

In both action properties the step is first shown to be the one statement that reads
(`StagesAreServed`), since a request's stage decides which action may serve it.

The operators of the searches are recursive functions over numbers or over the subsets
of a finite set. The library's induction theorems cannot be used, because they take an
operator as a parameter; `NatMin`, `CountedInduction` and `SubsetInduction` state induction
about a *set* of numbers or subsets instead, and `CountedRecursion` and `SubsetRecursion`
that such a function exists, which is what a recursive definition must be shown before
its equation may be used.

`Setup_proofs` proves, for any number of runs, edits and failures, `SetupTypeOK`
(`Spec => []TypeOK`), `SuccessIsComplete` (`Spec => []SuccessMeansInstalled`),
`UserContentStays` (`Spec => KeepsUserContent`) and `RepeatChangesNothing`
(`Spec => RepeatIsNoOp`). Success: every configuration that the report does
not list as skipped parses and names the server, opencode's lists the guidance, no file of
setup's own is missing, `AGENTS.md` has a block; except that a TOML file whose servers are
inline no longer parses, and a file of setup's own that was cut off while it was written
counts as there. User content: no step in which the file system obeys changes a user's
servers, keys or text; a write that is cut off and a read that fails (`ReadFails`) do lose
it, and of a YAML file it is the first document's that stays. The inductive invariant has four parts. `FilesInv` and `RunInv` give
the types. `DoneInv` carries the argument: while a run is going on and nobody else has
touched a file, every step of its target is still ahead, or its file is as the step
leaves it and taking the step again would change nothing. The difficulty is that the steps
share files: `AGENTS.md` belongs to several harnesses, and one configuration file is both merged
into and given the path of an instruction file. `StableStays` shows that a step leaves
alone what another step of the same file has finished, a step that begins anew after a
failed read included (`AnewProgress`), with one exception, a merge that
comes after the listing in its file; `PlanInv` says that a merge is always the first step
of its harness, so the exception does not occur. Of the table of harnesses only its shape is used
(`TableOK`): which kind of step goes with which kind of file.

Model-checked only: the liveness properties (`EventuallyAccounted`, `TouchIsServed`,
`StopReleases`, `ServerReturns`), because liveness under fairness is outside the prover's
reach; and, naturally, the violations of section 3. Every other property of a passing run
is stated by a theorem. The theorems are about every state of the model; that the
model's operators mean what the source means is argued by the correspondence of
section 2 and by the mutants.

## 6. What is left out, and why

* Scan is one instant. A walk takes time, but a file that appears during it also
  has an event of its own, so only the attribution changes.
* Which names pass the watcher's filters is fixed by the constant `Files`.
* Rows equal in everything the model tells apart are one element of a set, so
  two identical call sites on one line are one row.
* Rows that no resolution and no property reads: imports, summaries and documents
  in `CallGraph`. Which names a language predeclares and which import roots a file
  stands for are the constants `Builtins` and `Roots`.
* In `Session`: ranking (a search that matches more than it fetches may return
  any choice of that size), snippets, statistics and the wording of answers. How
  a name is split into words is the constant `NameParts`, what is near a term is
  `Nearby`. A write to stdout that fails is logged and forgotten by the code. The
  commit of another process looks to a reader like one of the worker's, so
  `CliIndex` is not part of it.
* That rows of a new transaction have new ids rests on AUTOINCREMENT in
  `schema.go`; `ImpactConcernsChange` fails without it.
* In `Setup`: the texts themselves. A file holds the user's text or not, and a
  block of ours of one style or another.
* Status, page rank, summaries and configuration: computations and formatting
  without shared state. The parser: what a language's grammar extracts is the
  constant `Sources`. The evaluation harness.
* Of the pragmas, `CallGraph` lets `foreign_keys` be off on a transaction's connection
  (`Committed`); that a connection lacks the busy timeout is one of the failures of a
  transaction. `journal_mode` is a property of the file.
* A watch that cannot be added (`watcher.go:108` drops the error) is modelled for the
  directory of `Nested` files: it may start without one, and `HandleDir` may leave it
  without one. The directories of the other files are taken to be watched, and
  `watcher.New` to succeed; without them the server runs on without a watcher.
* A directory that is moved away keeps fsnotify's watch, so later changes at its new
  place may cause requests for files that are gone. They are skipped or find nothing,
  and are left out.
* The server indexes nothing when it starts (`main.go:209-237`), so `Init` allows any disk
  and any rows, and the files that differ are in `unseen`. No property says that they are
  brought up to date: nothing in the code does.
* No property covers a file of setup's own that is cut off: `writeFileIfAbsent` keeps what
  exists, and the next run reports it as there.

## 7. Plan

Done so far: the pipeline and its refinement, the call graph, its resolver and cache, the
migrations, set-up, the searches and the session, and proofs of all their safety
properties. What is left, in this order:

1. `TwoProcesses`: the lock of the command `index` and the server on one database, with
   a busy timeout per connection.
2. `AgentLoop` and `McpClient` of the evaluation harness: timeouts and late
   answers.

Abstract specifications worth stating: `EventualIndex` (done), and above
`CallGraph` an abstract call graph in which an edge is a function of the files
indexed so far.
