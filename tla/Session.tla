------------------------------- MODULE Session -------------------------------
(***************************************************************************)
(* internal/mcp (server, router, handler) and the handlers of              *)
(* internal/tools: one client's session with the server, while the         *)
(* indexing worker of CallGraph commits to the same database.              *)
(*                                                                         *)
(* The server takes one line from stdin at a time and answers it before it *)
(* takes the next.  A tool call reads the database in several statements;  *)
(* each sees the last commit before it, and the worker may commit between  *)
(* any two of them.                                                        *)
(***************************************************************************)
EXTENDS CallGraph, CallSearch, SymbolSearch

CONSTANTS
  Lines,       \* what the client may send
  GitChanges,  \* what "git diff" may answer: Fails or a sequence of files
  Fails,
  Nothing,
  MaxCalls,    \* bound: calls of query_codebase in one session
  Project,     \* the files when the server starts for the first time
  MaxMishaps   \* bound: failed statements, panics, failed requests, restarts

ASSUME SessionAssumption ==
  /\ MaxCalls \in Nat /\ MaxMishaps \in Nat
  /\ Nothing \notin Lines
  /\ Project = [f \in Files |-> Project[f]]
  /\ \A f \in Files : Project[f] \in Sources[f] \cup {Absent}

VARIABLES
  alive,     \* the server process is running
  line,      \* the line on stdin that is not yet answered or dropped
  work,      \* the tool call in progress
  reply,     \* the message that the last step wrote to stdout
  calls,     \* callCount of QueryCodebaseHandler
  asked,     \* how many calls of query_codebase the client has sent
  summary,   \* .max-context/summary.md and architecture.md exist
  hiccups    \* failed statements and panics so far

session == <<alive, line, work, reply, calls, asked, hiccups>>

(* The server starts for the first time: the project is there, nothing is  *)
(* indexed, and no index is requested yet.                                 *)
SessionInit ==
  /\ disk = Project
  /\ queue = {}
  /\ missed = {}
  /\ db = EmptyDb
  /\ cache = Cold
  /\ errors = {}
  /\ gen = 1
  /\ cli = NoCli
  /\ loose = FALSE
  /\ budget = [edits |-> 0, fulls |-> 0, fails |-> 0, cli |-> 0, restarts |-> 0]
  /\ alive = TRUE
  /\ line = Nothing
  /\ work = Nothing
  /\ reply = Nothing
  /\ calls = 0
  /\ asked = 0
  /\ summary = FALSE
  /\ hiccups = 0

-----------------------------------------------------------------------------
(* Messages.  A line has a kind: "blank", "garbage" (no JSON), "overlong"  *)
(* (more than maxMessageBytes), "eof" or "request"; a request has a        *)
(* method, maybe an id, and for tools/call a tool and its arguments, which *)
(* may be "unreadable".                                                    *)

NoArgs == [none |-> TRUE]
Unreadable == [unreadable |-> TRUE]
Methods_ == {"initialize", "tools/list", "tools/call", "resources/list", "resources/read", "ping"}
Tools == {"get_definition", "query_codebase", "get_call_chain", "get_impact", "get_architecture"}

(* Mutant of isNotification: the method alone decides.                     *)
isNotificationByMethod(l) == l.method = "notifications/initialized"

isNotification(l) == ~l.hasId \/ l.method = "notifications/initialized"

(* A call of query_codebase; as a notification it is none.                 *)
IsQuery(l) ==
  /\ l.kind = "request" /\ ~isNotification(l)
  /\ l.method = "tools/call" /\ l.tool = "query_codebase"

(* A readable query has words for terms, and its limit is clamped.         *)
ASSUME QueriesAssumption ==
  \A l \in Lines :
    IsQuery(l) /\ l.args # Unreadable
      => Terms(l.args) \subseteq DOMAIN Prefixed /\ l.args.limit \in Nat \ {0}

(* The depth and the limit of a readable search of the graph are clamped.  *)
IsGraphSearch(l) ==
  /\ l.kind = "request" /\ l.method = "tools/call"
  /\ l.tool \in {"get_call_chain", "get_impact"} /\ l.args # Unreadable

ASSUME GraphSearchAssumption ==
  \A l \in Lines :
    IsGraphSearch(l) => /\ l.args.depth \in Nat \ {0}
                        /\ l.tool = "get_call_chain" => l.args.limit \in Nat \ {0}

(* Every name that a source defines or calls has its place.                *)
ASSUME NamesAssumption ==
  \A f \in Files : \A s \in Sources[f] :
    /\ \A i \in 1..Len(s.funcs) : NamePlace[s.funcs[i].name] \in Nat
    /\ \A i \in 1..Len(s.calls) : NamePlace[s.calls[i].callee] \in Nat

Result(l, what) == [to |-> l, kind |-> "result", body |-> [what |-> what]]
RpcError(l, code) == [to |-> l, kind |-> "error", body |-> [code |-> code]]
ToolError(l, code) == [to |-> l, kind |-> "toolError", body |-> [code |-> code]]

(* Mutant of Respond: the call in progress is not over.                    *)
RespondKeepingWork(r) ==
  /\ reply' = r
  /\ line' = Nothing
  /\ UNCHANGED work

(* The answer leaves; the server turns to the next line.                   *)
Respond(r) ==
  /\ reply' = r
  /\ line' = Nothing
  /\ work' = Nothing

Warning == errors # {}   \* stalenessInfo

-----------------------------------------------------------------------------
(* The client sends a line when it has read the answer to the last one.    *)
Send(l) ==
  /\ alive
  /\ line = Nothing
  /\ IsQuery(l) => asked < MaxCalls
  /\ asked' = IF IsQuery(l) THEN asked + 1 ELSE asked
  /\ line' = l
  /\ reply' = Nothing
  /\ UNCHANGED <<alive, work, calls, hiccups>>

(* Serve: what is no request.                                              *)
DropBlank ==
  /\ line.kind = "blank"
  /\ line' = Nothing
  /\ UNCHANGED <<alive, work, reply, calls, hiccups>>

AnswerGarbage ==
  /\ line.kind = "garbage"
  /\ Respond(RpcError(Nothing, "ParseError"))
  /\ UNCHANGED <<alive, calls, hiccups>>

Stop ==
  /\ line.kind \in {"eof", "overlong"}
  /\ alive' = FALSE
  /\ line' = Nothing
  /\ reply' = IF line.kind = "overlong" THEN RpcError(Nothing, "ParseError") ELSE reply
  /\ UNCHANGED <<work, calls, hiccups>>

DropNotification ==
  /\ line.kind = "request"
  /\ isNotification(line)
  /\ line' = Nothing
  /\ UNCHANGED <<alive, work, reply, calls, hiccups>>

-----------------------------------------------------------------------------
(* handleMethod.                                                           *)

handleResourcesRead(l) ==
  CASE l.args = Unreadable -> RpcError(l, "InvalidParams")
    [] l.args = [uri |-> "project"] /\ summary -> Result(l, "text")
    [] OTHER -> RpcError(l, "ResourceNotFound")

(* Every method but a call of a known tool is answered at once.            *)
Plain(l) ==
  CASE l.method \notin Methods_ -> RpcError(l, "MethodNotFound")
    [] l.method = "resources/read" -> handleResourcesRead(l)
    [] l.method = "tools/call" ->
         IF l.tool = None THEN RpcError(l, "InvalidParams") ELSE RpcError(l, "MethodNotFound")
    [] OTHER -> Result(l, l.method)

IsRequest == line.kind = "request" /\ ~isNotification(line) /\ work = Nothing
IsToolCall(tool) == IsRequest /\ line.method = "tools/call" /\ line.tool = tool

handleMethod ==
  /\ IsRequest
  /\ line.method = "tools/call" => line.tool \notin Tools
  /\ Respond(Plain(line))
  /\ UNCHANGED <<alive, calls, hiccups>>

(* handleToolsCall turns the error of a handler into a tool result.        *)
InvalidArguments ==
  /\ \E tool \in {"get_definition", "get_call_chain", "get_impact"} : IsToolCall(tool)
  /\ line.args = Unreadable
  /\ Respond(ToolError(line, "InvalidParams"))
  /\ UNCHANGED <<alive, calls, hiccups>>

(* A tool call in progress: its next statement (stage) and what it has     *)
(* read.  torn tells whether the database has changed since it began, and  *)
(* failed whether one of its statements has failed; no code reads them.    *)
Begin(stage, data) == work' = [stage |-> stage, torn |-> FALSE, failed |-> FALSE, data |-> data]
GoOn(stage, data) == work' = [work EXCEPT !.stage = stage, !.data = data]
At(tool, stage) == work # Nothing /\ line.tool = tool /\ work.stage = stage

Start(tool, stage, data) ==
  /\ IsToolCall(tool)
  /\ line.args # Unreadable
  /\ Begin(stage, data)
  /\ UNCHANGED <<alive, line, reply, calls, hiccups>>

Read(stage, data) ==
  /\ GoOn(stage, data)
  /\ UNCHANGED <<alive, line, reply, calls, hiccups>>

Answer(body) ==
  /\ Respond([to |-> line, kind |-> "answer", body |-> body])
  /\ UNCHANGED <<alive, calls, hiccups>>

-----------------------------------------------------------------------------
(* get_definition: functions, then types.                                  *)

ReadDefinitions ==
  \/ Start("get_definition", "functions", [hits |-> {}])
  \/ /\ At("get_definition", "functions")
     /\ Read("types", [hits |-> {FunctionHit(x) : x \in {y \in db.funcs : y.name = line.args.symbol}}])
  \/ /\ At("get_definition", "types")
     /\ Read("health", [hits |-> work.data.hits \cup {h \in TypeHits(db) : h.name = line.args.symbol}])

AnswerDefinition ==
  /\ At("get_definition", "health")
  /\ Answer([payload |-> DefinitionPayload(work.data.hits), warned |-> Warning])

-----------------------------------------------------------------------------
(* query_codebase: functions, types and documents, perhaps once more with  *)
(* the expanded query, then suggestions.                                   *)

InScope(q, table) == q.scope \in {"all", table}

(* Mutant of CountCall: only calls with good arguments count.              *)
CountCallValid ==
  /\ IsToolCall("query_codebase")
  /\ IF line.args = Unreadable
     THEN Respond(ToolError(line, "InvalidParams")) /\ UNCHANGED calls
     ELSE /\ calls' = calls + 1
          /\ Begin("functions", [found |-> {}, expanded |-> FALSE])
          /\ UNCHANGED <<line, reply>>
  /\ UNCHANGED <<alive, hiccups>>

CountCall ==
  /\ IsToolCall("query_codebase")
  /\ calls' = calls + 1
  /\ IF line.args = Unreadable
     THEN Respond(ToolError(line, "InvalidParams"))
     ELSE /\ Begin("functions", [found |-> {}, expanded |-> FALSE])
          /\ UNCHANGED <<line, reply>>
  /\ UNCHANGED <<alive, hiccups>>

Reads(table, stage, rows, limit) ==
  /\ At("query_codebase", table)
  /\ IF InScope(line.args, table)
     THEN \E hits \in Fetches(rows, limit) :
            Read(stage, [work.data EXCEPT !.found = @ \cup hits])
     ELSE Read(stage, work.data)

SearchTables ==
  LET q == line.args
      expanded == work.data.expanded
  IN  \/ Reads("functions", "types", FunctionMatches(db, q, expanded), fetchLimit(q))
      \/ Reads("types", "docs", TypeMatches(db, q, expanded), fetchLimit(q))
      \/ Reads("docs", "decide", DocumentMatches(q, expanded), docLimit(q))

(* Mutant of Expand: the retry does not know that it is one.               *)
ExpandAgain ==
  /\ At("query_codebase", "decide")
  /\ work.data.found = {} /\ ~work.data.expanded /\ Expandable(line.args)
  /\ Read("functions", work.data)

Expand ==
  /\ At("query_codebase", "decide")
  /\ work.data.found = {} /\ ~work.data.expanded /\ Expandable(line.args)
  /\ Read("functions", [work.data EXCEPT !.expanded = TRUE])

(* nearbyTerms: some name shares a piece with a term.                      *)
Suggested(q) ==
  \E t \in Terms(q) : \E x \in db.funcs \cup db.classes \cup db.interfaces : x.name \in Nearby[t]

AnswerQuery ==
  /\ At("query_codebase", "decide")
  /\ work.data.found = {} => work.data.expanded \/ ~Expandable(line.args)
  /\ LET found == work.data.found
         p == SearchPayload(line.args, found, found = {} /\ Suggested(line.args))
     IN  Answer([payload |-> Guarded(p, calls), warned |-> Warning])

(* classifyFTSError, after the statement on functions has failed.          *)
AnswerUnsearchable ==
  /\ At("query_codebase", "classify")
  /\ Respond(ToolError(line, IF db.funcs # {} THEN "IndexBusy" ELSE "IndexNotReady"))
  /\ UNCHANGED <<alive, calls, hiccups>>

-----------------------------------------------------------------------------
(* get_call_chain: callers, then callees.                                  *)

(* An unknown direction is none.                                           *)
InChain(a, dir) == a.direction \in {dir, "both"}

Chain(dir) ==
  LET a == line.args
  IN  capNodes(queryCallChain(db, a.name, a.depth, dir, a.level), a.limit)

EmptyChain == [kept |-> <<>>, total |-> 0]

TraceChain ==
  \/ Start("get_call_chain", "callers", [callers |-> EmptyChain, callees |-> EmptyChain])
  \/ /\ At("get_call_chain", "callers")
     /\ Read("callees", IF InChain(line.args, "callers") THEN [work.data EXCEPT !.callers = Chain("callers")]
                        ELSE work.data)
  \/ /\ At("get_call_chain", "callees")
     /\ Read("health", IF InChain(line.args, "callees") THEN [work.data EXCEPT !.callees = Chain("callees")]
                       ELSE work.data)

AnswerChain ==
  /\ At("get_call_chain", "health")
  /\ Answer([chain |-> work.data, warned |-> Warning])

-----------------------------------------------------------------------------
(* get_impact: the functions of each changed file, then the walks.         *)

StartImpact ==
  /\ IsToolCall("get_impact")
  /\ line.args # Unreadable
  /\ \E files \in IF line.args.files = <<>> THEN GitChanges ELSE {line.args.files} :
       IF files = Fails
       THEN Respond(ToolError(line, "InvalidParams"))
       ELSE /\ Begin("seeds", [files |-> files, seeds |-> {}, changed |-> {},
                               up |-> <<>>, down |-> <<>>])
            /\ UNCHANGED <<line, reply>>
  /\ UNCHANGED <<alive, calls, hiccups>>

SymbolsInFile ==
  /\ At("get_impact", "seeds")
  /\ work.data.files # <<>>
  /\ LET rows == OfFile(db.funcs, Head(work.data.files))
     IN  Read("seeds", [work.data EXCEPT !.files = Tail(@),
                                         !.seeds = @ \cup {Id(x) : x \in rows},
                                         !.changed = @ \cup {x.name : x \in rows}])

(* An unknown direction is up, against the calls.                          *)
InImpact(a, dir) ==
  IF dir = "callers" THEN a.direction # "callees" ELSE a.direction \in {"callees", "both"}

Walk(dir) ==
  LET a == line.args
  IN  collect(db, work.data.seeds, a.depth, dir, a.level, a.tests)

WalkUp ==
  /\ At("get_impact", "seeds")
  /\ work.data.files = <<>>
  /\ Read("down", IF InImpact(line.args, "callers") THEN [work.data EXCEPT !.up = Walk("callers")]
                  ELSE work.data)

WalkDown ==
  /\ At("get_impact", "down")
  /\ Read("health", IF InImpact(line.args, "callees") THEN [work.data EXCEPT !.down = Walk("callees")]
                    ELSE work.data)

AnswerImpact ==
  /\ At("get_impact", "health")
  /\ LET nodes == Combined(work.data.up, work.data.down, line.args.direction)
     IN  Answer([changed |-> work.data.changed, nodes |-> Capped(nodes),
                 truncated |-> Len(nodes) > MaxNodes, warned |-> Warning])

-----------------------------------------------------------------------------
(* get_architecture: two files and the index health.                       *)
AnswerArchitecture ==
  /\ IsToolCall("get_architecture")
  /\ IF summary THEN Answer([text |-> "architecture", warned |-> Warning])
     ELSE Respond(ToolError(line, "IndexNotReady")) /\ UNCHANGED <<alive, calls, hiccups>>

-----------------------------------------------------------------------------
(* A statement fails.  Symbol searches go on without its rows, except that *)
(* query_codebase gives up when the first search of functions fails; graph *)
(* searches answer with an error.                                          *)
AfterFailure ==
  CASE line.tool = "get_definition" ->
         [work EXCEPT !.stage = IF @ = "functions" THEN "types" ELSE "health", !.failed = TRUE]
    [] line.tool = "query_codebase" ->
         [work EXCEPT !.stage = IF @ = "types" THEN "docs"
                                ELSE IF @ = "functions" /\ ~work.data.expanded THEN "classify"
                                ELSE "decide",
                      !.failed = TRUE]

MayFail == hiccups + budget.fails + budget.restarts < MaxMishaps

(* The stage has a statement to run for these arguments.                   *)
Reading ==
  LET a == line.args
  IN  CASE line.tool = "get_definition" -> work.stage \in {"functions", "types"}
        [] line.tool = "query_codebase" ->
             work.stage \in {"functions", "types", "docs"} /\ InScope(a, work.stage)
        [] line.tool = "get_call_chain" ->
             work.stage # "health" /\ InChain(a, work.stage)
        [] line.tool = "get_impact" ->
             \/ work.stage = "seeds" /\ work.data.files # <<>>
             \/ work.stage = "seeds" /\ work.data.seeds # {} /\ InImpact(a, "callers")
             \/ work.stage = "down" /\ work.data.seeds # {} /\ InImpact(a, "callees")

StatementFails ==
  /\ MayFail
  /\ work # Nothing
  /\ Reading
  /\ hiccups' = hiccups + 1
  /\ IF line.tool \in {"get_definition", "query_codebase"}
     THEN work' = AfterFailure /\ UNCHANGED <<line, reply>>
     ELSE Respond(ToolError(line, "InternalError"))
  /\ UNCHANGED <<alive, calls>>

(* Handler.Call recovers from a panic of the handler.                      *)
HandlerPanics ==
  /\ MayFail
  /\ work # Nothing
  /\ hiccups' = hiccups + 1
  /\ Respond(ToolError(line, "InternalError"))
  /\ UNCHANGED <<alive, calls>>

ServerStep ==
  \/ /\ alive /\ line # Nothing /\ work = Nothing
     /\ \/ DropBlank \/ AnswerGarbage \/ Stop \/ DropNotification
        \/ handleMethod \/ InvalidArguments \/ CountCall \/ StartImpact \/ AnswerArchitecture
        \/ ReadDefinitions \/ TraceChain
  \/ /\ alive /\ work # Nothing
     /\ \/ ReadDefinitions \/ AnswerDefinition
        \/ SearchTables \/ Expand \/ AnswerQuery \/ AnswerUnsearchable
        \/ TraceChain \/ AnswerChain
        \/ SymbolsInFile \/ WalkUp \/ WalkDown \/ AnswerImpact
        \/ StatementFails \/ HandlerPanics

Client == \E l \in Lines : Send(l)

-----------------------------------------------------------------------------
(* The database under the session: the worker's transactions while the     *)
(* server runs, and edits at any time.  To a reader a commit of another    *)
(* process is one of the worker's.                                         *)

Tear ==
  /\ work' = IF work = Nothing \/ db' = db THEN work ELSE [work EXCEPT !.torn = TRUE]
  /\ reply' = Nothing
  /\ UNCHANGED <<alive, line, calls, asked, hiccups>>

IncrementalWork ==
  /\ alive
  /\ \E f \in Files : IndexFile(f) \/ (MayFail /\ IndexFileFails(f))
  /\ Tear
  /\ UNCHANGED summary

(* After a full index, failed or not, the artifacts are written.           *)
FullWork ==
  /\ alive
  /\ IndexAll \/ (MayFail /\ IndexAllFails)
  /\ Tear
  /\ summary' = TRUE

Outside ==
  /\ (\E f \in Files : Edit(f)) \/ RequestFull
  /\ reply' = Nothing
  /\ UNCHANGED <<alive, line, work, calls, asked, hiccups, summary>>

(* A new process: a new pipe, a new count.                                 *)
NewSession ==
  /\ MayFail
  /\ Restart
  /\ alive' = TRUE
  /\ line' = Nothing
  /\ work' = Nothing
  /\ reply' = Nothing
  /\ calls' = 0
  /\ asked' = 0
  /\ UNCHANGED <<summary, hiccups>>

SessionNext ==
  \/ Client /\ UNCHANGED <<vars, summary>>
  \/ ServerStep /\ UNCHANGED <<asked, vars, summary>>
  \/ IncrementalWork \/ FullWork \/ Outside \/ NewSession

allVars == <<vars, session, summary>>

(* The server's goroutine is scheduled.                                    *)
SessionSpec ==
  /\ SessionInit
  /\ [][SessionNext]_allVars
  /\ WF_allVars(ServerStep /\ UNCHANGED <<asked, vars, summary>>)

-----------------------------------------------------------------------------
(* Properties.                                                             *)

(* Every variable has its type, and a tool call in progress belongs to the *)
(* line that is on stdin.                                                  *)
SessionTypeOK ==
  /\ TypeOK
  /\ alive \in BOOLEAN /\ summary \in BOOLEAN
  /\ calls \in 0..asked /\ asked \in 0..MaxCalls
  /\ hiccups \in 0..MaxMishaps
  /\ line \in Lines \cup {Nothing}
  /\ work # Nothing => alive /\ line # Nothing /\ line.tool \in Tools
  /\ reply # Nothing => reply.to \in Lines \cup {Nothing}

(* A request that has an id leaves the server with its answer, and with no *)
(* other; a notification, whatever its method or id, leaves without one: "a *)
(* message [that] must not be answered" (router.go).                       *)
MustBeAnswered(l) ==
  l.kind = "request" /\ l.hasId /\ l.method # "notifications/initialized"

ExactlyOneAnswer ==
  [][line # Nothing /\ line.kind = "request" /\ line' = Nothing /\ alive' /\ UNCHANGED budget
       => IF MustBeAnswered(line) THEN reply' # Nothing /\ reply'.to = line
                                  ELSE reply' = reply]_<<line, reply>>

(* Whatever the client sends, bad lines, failing statements and panicking  *)
(* handlers included, the server comes back for the next line or stops.    *)
ServerReturns == line # Nothing ~> line = Nothing

(* From the fourth call of query_codebase that the client sends in a       *)
(* session on, no answer sends the agent back to search, whatever became   *)
(* of the earlier calls: refused, failed, panicked.  It is definitive, or  *)
(* it tells the agent to switch; and it says so in the sharper form from   *)
(* the sixth on.  Before the fourth no answer warns.                       *)
LoopGuardEndsSearch ==
  reply # Nothing /\ reply.kind = "answer" /\ reply.to.tool = "query_codebase"
    => LET p == reply.body.payload
       IN  /\ asked < 4 <=> p.level = None
           /\ asked >= 6 <=> p.level = "stop_searching"
           /\ asked >= 4 => p.action \in {"answer_now", "switch_tools_or_answer"}
           /\ p.status = "definitive" <=> p.action = "answer_now"

(* Unless a commit or a failed statement came between, a definitive answer *)
(* names the one definition of highest priority that the index has for the *)
(* names asked for, and an agent is told so whenever there is one - however *)
(* few results it asked for, as long as no table has more matches than     *)
(* query_codebase fetches.                                                 *)
Candidates(d, l) ==
  IF l.tool = "get_definition"
  THEN {h \in {FunctionHit(x) : x \in d.funcs} \cup TypeHits(d) : h.name = l.args.symbol}
  ELSE LET q == l.args
           found(expanded) ==
             (IF InScope(q, "functions") THEN FunctionMatches(d, q, expanded) ELSE {})
             \cup (IF InScope(q, "types") THEN TypeMatches(d, q, expanded) ELSE {})
           docs == IF InScope(q, "docs") THEN DocumentMatches(q, FALSE) ELSE {}
       IN  {h \in found(found(FALSE) \cup docs = {}) :
              h.name \in Terms(q) \/ (Len(q.terms) > 1 /\ h.name = q.joined)}

Overflows(d, l) ==
  /\ l.tool = "query_codebase"
  /\ \E expanded \in BOOLEAN :
       \/ ~FetchesAll(FunctionMatches(d, l.args, expanded), fetchLimit(l.args))
       \/ ~FetchesAll(TypeMatches(d, l.args, expanded), fetchLimit(l.args))

SymbolAnswer == /\ reply # Nothing /\ reply.kind = "answer"
                /\ reply.to.tool \in {"get_definition", "query_codebase"}

DefinitiveIsUnique ==
  [][work # Nothing /\ SymbolAnswer' /\ ~work.torn /\ ~work.failed /\ ~Overflows(db, line)
       => LET p == reply'.body.payload
              hits == Candidates(db, line)
              best == {h \in hits : ~\E k \in hits :
                         definitionPriority(k.kind) < definitionPriority(h.kind)}
          IN  /\ p.status = "definitive" <=> Cardinality(best) = 1
              /\ p.status = "definitive" => p.canonical \in best]_reply

(* Each walk of get_impact, on the tables as the walk finds them, reports  *)
(* functions at their distance from the changed ones, nearest first, and   *)
(* leaves out none that the limit on rows does not cut off: duplicates and *)
(* cycles in the graph neither hide a function nor move it away.           *)
ImpactNearestFirst ==
  [][LET a == line.args
         nearest(dir, nodes) ==
           NearestFirst(db, work.data.seeds, a.depth, dir, a.level, a.tests, nodes)
     IN  work # Nothing /\ work' # Nothing /\ line.tool = "get_impact" /\ work.stage # work'.stage
           => /\ work'.stage = "down" /\ InImpact(a, "callers")
                   => nearest("callers", work'.data.up)
              /\ work'.stage = "health" /\ InImpact(a, "callees")
                   => nearest("callees", work'.data.down)]_work

(* Whatever is reindexed between the statements that read the changed      *)
(* functions and the walks from their ids, no function is reported on      *)
(* account of another than the changed ones.                               *)
ImpactConcernsChange ==
  reply # Nothing /\ reply.kind = "answer" /\ reply.to.tool = "get_impact"
    => \A i \in DOMAIN reply.body.nodes : reply.body.nodes[i].via \in reply.body.changed

(* Each direction of get_call_chain names every function within reach in   *)
(* the tables it reads, cycles or not, unless the answer says that it is   *)
(* capped; then it has as many as were asked for, the nearest ones.        *)
ChainIsComplete ==
  [][LET a == line.args
         complete(dir, chain) == ChainComplete(db, a.name, a.depth, dir, a.level, a.limit, chain)
     IN  work # Nothing /\ work' # Nothing /\ line.tool = "get_call_chain" /\ work.stage # work'.stage
           => /\ work'.stage = "callees" /\ InChain(a, "callers")
                   => complete("callers", work'.data.callers)
              /\ work'.stage = "health" /\ InChain(a, "callees")
                   => complete("callees", work'.data.callees)]_work
=============================================================================
