---------------------------- MODULE Answers_proofs ----------------------------
(***************************************************************************)
(* Theorems about what the answers of a session say: a symbol that is      *)
(* called definitive is the only one of its priority that the index has.   *)
(***************************************************************************)
EXTENDS Session_proofs

-----------------------------------------------------------------------------
(* DefinitiveIsUnique.  What a search has found so far, while the tables   *)
(* stay as they are and no statement fails, is what they have.             *)

FunctionsNamed(d, name) == {FunctionHit(x) : x \in {y \in d.funcs : y.name = name}}

DefinitionsFound(d, l, w) ==
  /\ w.stage \in {"functions", "types", "health"}
  /\ w.stage = "types" => w.data.hits = FunctionsNamed(d, l.args.symbol)
  /\ w.stage = "health" => w.data.hits = Candidates(d, l)

FunctionsFound(d, q, e) == IF InScope(q, "functions") THEN FunctionMatches(d, q, e) ELSE {}
TypesFound(d, q, e) == IF InScope(q, "types") THEN TypeMatches(d, q, e) ELSE {}
DocumentsFound(q, e) == IF InScope(q, "docs") THEN DocumentMatches(q, e) ELSE {}

NothingFound(d, q) ==
  FunctionsFound(d, q, FALSE) \cup TypesFound(d, q, FALSE) \cup DocumentsFound(q, FALSE) = {}

AllFound(d, q, e, found) ==
  \E docs \in SUBSET DocumentsFound(q, e) :
    /\ docs = {} => DocumentsFound(q, e) = {}
    /\ found = FunctionsFound(d, q, e) \cup TypesFound(d, q, e) \cup docs

MatchesFound(d, q, w) ==
  LET e == w.data.expanded
  IN  /\ e => NothingFound(d, q)
      /\ w.stage = "functions" => w.data.found = {}
      /\ w.stage = "types" => w.data.found = FunctionsFound(d, q, e)
      /\ w.stage = "docs" => w.data.found = FunctionsFound(d, q, e) \cup TypesFound(d, q, e)
      /\ w.stage = "decide" => AllFound(d, q, e, w.data.found)

QueryInProgress(l, w) ==
  /\ l.args # Unreadable
  /\ DOMAIN w.data = {"found", "expanded"} /\ w.data.expanded \in BOOLEAN
  /\ w.stage \in {"functions", "types", "docs", "decide"}

FoundSoFar(d, l, w) ==
  /\ l.tool = "get_definition" => DefinitionsFound(d, l, w)
  /\ l.tool = "query_codebase" =>
       QueryInProgress(l, w) /\ (~Overflows(d, l) => MatchesFound(d, l.args, w))

FoundInv == work # Nothing /\ ~work.torn /\ ~work.failed => FoundSoFar(db, line, work)

LEMMA DefinitionsAreFound ==
  ASSUME NothingApart, LineInv, FoundInv, work # Nothing, ReadDefinitions, UNCHANGED db
  PROVE  FoundInv'
<1>1. CASE /\ At("get_definition", "functions")
           /\ Read("types", [hits |-> FunctionsNamed(db, line.args.symbol)])
  BY <1>1, ReadResult DEF At, FoundInv, FoundSoFar, DefinitionsFound
<1>2. CASE /\ At("get_definition", "types")
           /\ Read("health", [hits |-> work.data.hits \cup {h \in TypeHits(db) : h.name = line.args.symbol}])
  <2>1. ASSUME ~work.torn, ~work.failed
        PROVE  work.data.hits \cup {h \in TypeHits(db) : h.name = line.args.symbol} = Candidates(db, line)
    <3>1. work.data.hits = FunctionsNamed(db, line.args.symbol)
      BY <1>2, <2>1 DEF At, FoundInv, FoundSoFar, DefinitionsFound
    <3>2. \A x : FunctionHit(x).name = x.name
      BY DEF FunctionHit, Hit
    <3>3. FunctionsNamed(db, line.args.symbol)
            = {h \in {FunctionHit(x) : x \in db.funcs} : h.name = line.args.symbol}
      BY <3>2 DEF FunctionsNamed
    <3>4. QED
      BY <1>2, <3>1, <3>3 DEF At, Candidates
  <2>2. /\ work'.stage = "health" /\ work'.torn = work.torn /\ work'.failed = work.failed
        /\ work'.data.hits = work.data.hits \cup {h \in TypeHits(db) : h.name = line.args.symbol}
        /\ line' = line
    BY <1>2, ReadResult
  <2>3. line.tool = "get_definition"
    BY <1>2 DEF At
  <2>4. QED
    BY <2>1, <2>2, <2>3 DEF FoundInv, FoundSoFar, DefinitionsFound
<1>3. QED
  BY <1>1, <1>2 DEF ReadDefinitions, Start, IsToolCall, IsRequest, FunctionsNamed

(* What one statement of a search adds.                                    *)
Adds(table, stage, rows, limit) ==
  /\ work.stage = table /\ work'.stage = stage
  /\ work'.data.expanded = work.data.expanded /\ DOMAIN work'.data = DOMAIN work.data
  /\ \E hits \in IF InScope(line.args, table) THEN Fetches(rows, limit) ELSE {{}} :
       work'.data.found = work.data.found \cup hits

LEMMA ReadsAdd ==
  ASSUME NothingApart, LineInv, DOMAIN work.data = {"found", "expanded"},
         NEW table, NEW stage, NEW rows, NEW limit, Reads(table, stage, rows, limit)
  PROVE  Adds(table, stage, rows, limit)
<1>1. CASE InScope(line.args, table)
  <2>1. PICK hits \in Fetches(rows, limit) : Read(stage, [work.data EXCEPT !.found = @ \cup hits])
    BY <1>1 DEF Reads
  <2> DEFINE d == [work.data EXCEPT !.found = @ \cup hits]
  <2>2. /\ DOMAIN d = DOMAIN work.data
        /\ d.found = work.data.found \cup hits /\ d.expanded = work.data.expanded
    OBVIOUS
  <2> HIDE DEF d
  <2>3. work'.stage = stage /\ work'.data = d
    BY <2>1, ReadResult DEF Reads, At, d
  <2>4. QED
    BY <1>1, <2>2, <2>3 DEF Adds, Reads, At
<1>2. CASE ~InScope(line.args, table)
  <2>1. work'.stage = stage /\ work'.data = work.data
    BY <1>2, ReadResult DEF Reads, At
  <2>2. QED
    BY <1>2, <2>1 DEF Adds, Reads, At
<1>3. QED
  BY <1>1, <1>2

LEMMA FetchedAll ==
  ASSUME NEW rows, NEW n, FetchesAll(rows, n), NEW hits \in Fetches(rows, n)
  PROVE  hits = rows
BY DEF Fetches

(* However many documents match: at least one of them is fetched.          *)
LEMMA FetchedSome ==
  ASSUME NEW rows, NEW n \in Nat \ {0}, NEW hits \in Fetches(rows, n)
  PROVE  hits \subseteq rows /\ (hits = {} => rows = {})
<1>1. CASE FetchesAll(rows, n)
  BY <1>1 DEF Fetches
<1>2. CASE ~FetchesAll(rows, n)
  <2>1. hits \in SUBSET rows /\ Cardinality(hits) = n
    BY <1>2 DEF Fetches
  <2>2. Cardinality({}) = 0
    BY FS_EmptySet
  <2>3. QED
    BY <2>1, <2>2
<1>3. QED
  BY <1>1, <1>2

LEMMA ReadableQuery ==
  ASSUME LineInv, work # Nothing, line.tool = "query_codebase", line.args # Unreadable
  PROVE  /\ Terms(line.args) \subseteq DOMAIN Prefixed
         /\ docLimit(line.args) \in Nat \ {0}
<1>1. line \in Lines /\ IsQuery(line)
  BY DEF LineInv, IsToolRequest, IsQuery
<1>2. Terms(line.args) \subseteq DOMAIN Prefixed /\ line.args.limit \in Nat \ {0}
  BY <1>1, QueriesAssumption
<1>3. QED
  BY <1>2 DEF docLimit

LEMMA MatchesAreFound ==
  ASSUME NothingApart, LineInv, FoundInv, SearchTables, UNCHANGED db
  PROVE  FoundInv'
<1> DEFINE q == line.args
           e == work.data.expanded
<1>1. /\ work # Nothing /\ line.tool = "query_codebase"
      /\ line' = line /\ work'.torn = work.torn /\ work'.failed = work.failed
  BY ReadResult DEF SearchTables, Reads, At
<1> SUFFICES ASSUME ~work.torn, ~work.failed
             PROVE  /\ QueryInProgress(line, work')
                    /\ ~Overflows(db, line) => MatchesFound(db, q, work')
  BY <1>1 DEF FoundInv, FoundSoFar
<1>2. QueryInProgress(line, work) /\ (~Overflows(db, line) => MatchesFound(db, q, work))
  BY <1>1 DEF FoundInv, FoundSoFar
<1>3. CASE Adds("functions", "types", FunctionMatches(db, q, e), fetchLimit(q))
  <2>1. QueryInProgress(line, work')
    BY <1>2, <1>3 DEF QueryInProgress, Adds
  <2>2. ASSUME ~Overflows(db, line) PROVE MatchesFound(db, q, work')
    <3>1. FetchesAll(FunctionMatches(db, q, e), fetchLimit(q))
      BY <1>1, <1>2, <2>2 DEF Overflows, QueryInProgress
    <3>2. work'.data.found = work.data.found \cup FunctionsFound(db, q, e)
      BY <1>3, <3>1, FetchedAll DEF Adds, FunctionsFound
    <3>3. QED
      BY <1>2, <1>3, <2>2, <3>2 DEF Adds, MatchesFound
  <2>3. QED
    BY <2>1, <2>2
<1>4. CASE Adds("types", "docs", TypeMatches(db, q, e), fetchLimit(q))
  <2>1. QueryInProgress(line, work')
    BY <1>2, <1>4 DEF QueryInProgress, Adds
  <2>2. ASSUME ~Overflows(db, line) PROVE MatchesFound(db, q, work')
    <3>1. FetchesAll(TypeMatches(db, q, e), fetchLimit(q))
      BY <1>1, <1>2, <2>2 DEF Overflows, QueryInProgress
    <3>2. work'.data.found = work.data.found \cup TypesFound(db, q, e)
      BY <1>4, <3>1, FetchedAll DEF Adds, TypesFound
    <3>3. QED
      BY <1>2, <1>4, <2>2, <3>2 DEF Adds, MatchesFound
  <2>3. QED
    BY <2>1, <2>2
<1>5. CASE Adds("docs", "decide", DocumentMatches(q, e), docLimit(q))
  <2>1. QueryInProgress(line, work')
    BY <1>2, <1>5 DEF QueryInProgress, Adds
  <2>2. ASSUME ~Overflows(db, line) PROVE MatchesFound(db, q, work')
    <3>1. PICK docs \in IF InScope(q, "docs") THEN Fetches(DocumentMatches(q, e), docLimit(q)) ELSE {{}} :
            work'.data.found = work.data.found \cup docs
      BY <1>5 DEF Adds
    <3>2. docs \subseteq DocumentsFound(q, e) /\ (docs = {} => DocumentsFound(q, e) = {})
      BY <1>1, <1>2, FetchedSome, ReadableQuery DEF DocumentsFound, QueryInProgress
    <3>3. AllFound(db, q, e, work'.data.found)
      BY <1>2, <1>5, <2>2, <3>1, <3>2 DEF Adds, MatchesFound, AllFound
    <3>4. QED
      BY <1>2, <1>5, <2>2, <3>3 DEF Adds, MatchesFound
  <2>3. QED
    BY <2>1, <2>2
<1>6. QED
  BY <1>2, <1>3, <1>4, <1>5, ReadsAdd DEF SearchTables, QueryInProgress

LEMMA ExpandedFindsNothing ==
  ASSUME NothingApart, LineInv, FoundInv, Expand, UNCHANGED db
  PROVE  FoundInv'
<1> DEFINE q == line.args
           d == [work.data EXCEPT !.expanded = TRUE]
<1>1. /\ work # Nothing /\ line.tool = "query_codebase" /\ work.stage = "decide"
      /\ work.data.found = {} /\ ~work.data.expanded
  BY DEF Expand, At
<1>2. /\ line' = line /\ work'.torn = work.torn /\ work'.failed = work.failed
      /\ work'.stage = "functions" /\ work'.data = d
  BY ReadResult DEF Expand, At
<1> SUFFICES ASSUME ~work.torn, ~work.failed
             PROVE  /\ QueryInProgress(line, work')
                    /\ ~Overflows(db, line) => MatchesFound(db, q, work')
  BY <1>1, <1>2 DEF FoundInv, FoundSoFar
<1>3. QueryInProgress(line, work) /\ (~Overflows(db, line) => MatchesFound(db, q, work))
  BY <1>1 DEF FoundInv, FoundSoFar
<1>4. DOMAIN d = {"found", "expanded"} /\ d.expanded = TRUE /\ d.found = {}
  BY <1>1, <1>3 DEF QueryInProgress
<1> HIDE DEF d
<1>5. QueryInProgress(line, work')
  BY <1>2, <1>3, <1>4 DEF QueryInProgress
<1>6. ASSUME ~Overflows(db, line) PROVE MatchesFound(db, q, work')
  <2>1. work.data.expanded = FALSE
    BY <1>1, <1>3 DEF QueryInProgress
  <2>2. AllFound(db, q, FALSE, {})
    BY <1>1, <1>3, <1>6, <2>1 DEF MatchesFound
  <2>3. NothingFound(db, q)
    BY <2>2 DEF AllFound, NothingFound
  <2>4. QED
    BY <1>2, <1>4, <2>3 DEF MatchesFound
<1>7. QED
  BY <1>5, <1>6

LEMMA FoundAtFirst ==
  ASSUME line # Nothing, work = Nothing, UNCHANGED <<db, line>>,
         \/ DropBlank \/ AnswerGarbage \/ Stop \/ DropNotification
         \/ handleMethod \/ InvalidArguments \/ CountCall \/ StartImpact \/ AnswerArchitecture
         \/ ReadDefinitions \/ TraceChain
  PROVE  FoundInv'
<1>1. CASE work' = Nothing
  BY <1>1 DEF FoundInv
<1>2. CASE line.tool \notin {"get_definition", "query_codebase"}
  BY <1>2 DEF FoundInv, FoundSoFar
<1>3. CASE ReadDefinitions
  BY <1>3 DEF ReadDefinitions, At, Start, Begin, IsToolCall, FoundInv, FoundSoFar, DefinitionsFound
<1>4. CASE CountCall /\ work' # Nothing
  <2>1. /\ line.tool = "query_codebase" /\ line.args # Unreadable
        /\ work'.stage = "functions" /\ work'.data = [found |-> {}, expanded |-> FALSE]
    <3>1. line.tool = "query_codebase"
      BY <1>4 DEF CountCall, IsToolCall
    <3>2. line.args # Unreadable
      BY <1>4 DEF CountCall, Respond
    <3>3. Begin("functions", [found |-> {}, expanded |-> FALSE])
      BY <1>4, <3>2 DEF CountCall
    <3>4. QED
      BY <3>1, <3>2, <3>3 DEF Begin
  <2>2. QueryInProgress(line, work') /\ MatchesFound(db, line.args, work')
    BY <2>1 DEF QueryInProgress, MatchesFound
  <2>3. QED
    BY <2>1, <2>2 DEF FoundInv, FoundSoFar
<1>5. QED
  BY <1>1, <1>2, <1>3, <1>4
     DEF DropBlank, AnswerGarbage, Stop, DropNotification, handleMethod, InvalidArguments, Respond,
         StartImpact, AnswerArchitecture, Answer, TraceChain, At, Start, IsToolCall

LEMMA FoundAfterFailure ==
  ASSUME LineInv, work # Nothing, work' = AfterFailure,
         line.tool \in {"get_definition", "query_codebase"}
  PROVE  work'.failed
<1>1. \A stage : [work EXCEPT !.stage = stage, !.failed = TRUE].failed
  BY DEF LineInv, InProgress
<1>2. CASE line.tool = "get_definition"
  BY <1>1, <1>2 DEF AfterFailure
<1>3. CASE line.tool = "query_codebase"
  BY <1>1, <1>3 DEF AfterFailure
<1>4. QED
  BY <1>2, <1>3

LEMMA FoundOnTheWay ==
  ASSUME NothingApart, LineInv, FoundInv, work # Nothing, UNCHANGED db,
         \/ ReadDefinitions \/ AnswerDefinition
         \/ SearchTables \/ Expand \/ AnswerQuery \/ AnswerUnsearchable
         \/ TraceChain \/ AnswerChain
         \/ SymbolsInFile \/ WalkUp \/ WalkDown \/ AnswerImpact
         \/ StatementFails \/ HandlerPanics
  PROVE  FoundInv'
<1>1. CASE work' = Nothing
  BY <1>1 DEF FoundInv
<1>2. CASE line.tool \notin {"get_definition", "query_codebase"} /\ line' = line
  BY <1>2 DEF FoundInv, FoundSoFar
<1>3. CASE ReadDefinitions
  BY <1>3, DefinitionsAreFound
<1>4. CASE SearchTables
  BY <1>4, MatchesAreFound
<1>5. CASE Expand
  BY <1>5, ExpandedFindsNothing
<1>6. CASE StatementFails
  BY <1>1, <1>2, <1>6, FoundAfterFailure DEF StatementFails, Respond, FoundInv
<1>7. CASE TraceChain
  BY <1>2, <1>7 DEF TraceChain, At, Start, IsToolCall, IsRequest, Read
<1>8. CASE SymbolsInFile
  BY <1>2, <1>8 DEF SymbolsInFile, At, Read
<1>9. CASE WalkUp \/ WalkDown
  BY <1>2, <1>9 DEF WalkUp, WalkDown, At, Read
<1>10. CASE \/ AnswerDefinition \/ AnswerQuery \/ AnswerUnsearchable \/ AnswerChain \/ AnswerImpact
            \/ HandlerPanics
  BY <1>1, <1>10
     DEF AnswerDefinition, AnswerQuery, AnswerUnsearchable, AnswerChain, AnswerImpact, HandlerPanics,
         Answer, Respond
<1>11. QED
  BY <1>3, <1>4, <1>5, <1>6, <1>7, <1>8, <1>9, <1>10

LEMMA FoundKept ==
  ASSUME NothingApart, LineInv, FoundInv, [SessionNext]_allVars
  PROVE  FoundInv'
<1>1. CASE work' = Nothing
  BY <1>1 DEF FoundInv
<1>2. CASE UNCHANGED <<db, line, work>>
  BY <1>2 DEF FoundInv
<1>3. CASE ServerStep /\ UNCHANGED vars
  <2>1. UNCHANGED db
    BY <1>3 DEF vars
  <2>2. CASE alive /\ work # Nothing
    BY <1>3, <2>1, <2>2, FoundOnTheWay DEF ServerStep
  <2>3. CASE work = Nothing /\ line' = line
    BY <1>3, <2>1, <2>3, FoundAtFirst DEF ServerStep
  <2>4. CASE work = Nothing /\ line' # line
    BY <1>1, <1>3, <2>4, ServerSteps DEF Begins, GoesOn, Answers, Discards
  <2>5. QED
    BY <1>3, <2>2, <2>3, <2>4 DEF ServerStep
<1>4. CASE IncrementalWork \/ FullWork \/ Outside
  <2>1. CASE work = Nothing
    BY <1>1, <1>4, <2>1, ElsewhereSteps DEF Elsewhere
  <2>2. CASE work # Nothing
    BY <1>2, <1>4, <2>2, OthersTear DEF FoundInv
  <2>3. QED
    BY <2>1, <2>2
<1>5. QED
  BY <1>1, <1>2, <1>3, <1>4 DEF SessionNext, Client, Send, LineInv, NewSession, allVars, vars, session

-----------------------------------------------------------------------------
(* What the answer makes of it.                                            *)

Kinds == {"class", "interface", "function", "method"}

LEMMA BestHits ==
  ASSUME NEW hits, \A h \in hits : h.kind \in Kinds
  PROVE  Best(hits) = {h \in hits : ~\E k \in hits :
                         definitionPriority(k.kind) < definitionPriority(h.kind)}
<1>1. \A k \in Kinds : definitionPriority(k) \in Nat
  BY DEF Kinds, definitionPriority
<1>2. QED
  BY <1>1 DEF Best

LEMMA HitKinds ==
  ASSUME NEW d
  PROVE  /\ \A x : FunctionHit(x).kind \in Kinds
         /\ \A h \in TypeHits(d) : h.kind \in Kinds
         /\ \A q, e : \A h \in FunctionMatches(d, q, e) \cup TypeMatches(d, q, e) : h.kind \in Kinds
         /\ \A q, e : \A h \in DocumentMatches(q, e) : h.kind = "document"
<1>1. \A n, f, p, k : Hit(n, f, p, k).kind = k
  BY DEF Hit
<1>2. \A x : FunctionHit(x).kind \in Kinds
  BY <1>1 DEF FunctionHit, Kinds
<1>3. \A h \in TypeHits(d) : h.kind \in Kinds
  BY <1>1 DEF TypeHits, Kinds
<1>4. \A q, e : \A h \in FunctionMatches(d, q, e) \cup TypeMatches(d, q, e) : h.kind \in Kinds
  BY <1>2, <1>3 DEF FunctionMatches, TypeMatches
<1>5. \A q, e : \A h \in DocumentMatches(q, e) : h.kind = "document"
  BY <1>1 DEF DocumentMatches
<1>6. QED
  BY <1>2, <1>3, <1>4, <1>5

LEMMA CandidateKinds ==
  ASSUME NEW d, NEW l
  PROVE  \A h \in Candidates(d, l) : h.kind \in Kinds
<1>1. CASE l.tool = "get_definition"
  BY <1>1, HitKinds DEF Candidates
<1>2. CASE l.tool # "get_definition"
  <2>1. \A h \in Candidates(d, l) : \E e :
          h \in FunctionMatches(d, l.args, e) \cup TypeMatches(d, l.args, e)
    BY <1>2 DEF Candidates
  <2>2. QED
    BY <2>1, HitKinds
<1>3. QED
  BY <1>1, <1>2

(* The verdict of DefinitiveIsUnique, on the hits that a payload is made   *)
(* of.                                                                     *)
Verdict(p, hits) ==
  /\ p.status = "definitive" <=> Cardinality(Best(hits)) = 1
  /\ p.status = "definitive" => p.canonical \in Best(hits)

LEMMA CanonicalIsBest ==
  ASSUME NEW hits, HasCanonical(hits)
  PROVE  Canonical(hits) \in Best(hits)
<1>1. Best(hits) # {}
  BY FS_EmptySet DEF HasCanonical
<1>2. QED
  BY <1>1 DEF Canonical

LEMMA PayloadParts ==
  ASSUME NEW status, NEW action, NEW canonical, NEW others, NEW total
  PROVE  LET p == Payload(status, action, canonical, others, total)
         IN  p.status = status /\ p.canonical = canonical
BY DEF Payload

LEMMA NoHitsNoBest ==
  ASSUME NEW status, NEW action, NEW canonical, NEW others, NEW total, status # "definitive"
  PROVE  Verdict(Payload(status, action, canonical, others, total), {})
<1>1. Best({}) = {}
  BY DEF Best
<1>2. QED
  BY <1>1, FS_EmptySet, PayloadParts DEF Verdict

LEMMA DefinitionVerdict ==
  ASSUME NEW hits
  PROVE  Verdict(DefinitionPayload(hits), hits)
<1>1. CASE hits = {}
  BY <1>1, NoHitsNoBest DEF DefinitionPayload
<1>2. CASE hits # {} /\ HasCanonical(hits)
  <2> DEFINE p == DefinitivePayload(hits)
  <2>1. DOMAIN p = Fields /\ p.status = "definitive" /\ p.canonical = Canonical(hits)
    BY PayloadForm, PayloadParts DEF DefinitivePayload
  <2> HIDE DEF p
  <2> DEFINE r == [p EXCEPT !.total = Cardinality(hits)]
  <2>2. r.status = "definitive" /\ r.canonical = Canonical(hits)
    BY <2>1 DEF Fields
  <2> HIDE DEF r
  <2>3. DefinitionPayload(hits) = r
    BY <1>2 DEF DefinitionPayload, p, r
  <2>4. QED
    BY <1>2, <2>2, <2>3, CanonicalIsBest DEF Verdict, HasCanonical
<1>3. CASE hits # {} /\ ~HasCanonical(hits)
  <2>1. DefinitionPayload(hits) = AmbiguousPayload(hits)
    BY <1>3 DEF DefinitionPayload
  <2>2. AmbiguousPayload(hits).status = "ambiguous"
    BY PayloadParts DEF AmbiguousPayload
  <2>3. QED
    BY <1>3, <2>1, <2>2 DEF Verdict, HasCanonical
<1>4. QED
  BY <1>1, <1>2, <1>3

LEMMA SearchVerdict ==
  ASSUME NEW q, NEW results, NEW suggested
  PROVE  Verdict(SearchPayload(q, results, suggested), Definite(q, results))
<1> DEFINE exact == Definite(q, results)
           p == SearchPayload(q, results, suggested)
<1>0. exactNameMatches(q, results) = exact
  BY DEF exactNameMatches
<1>1. CASE exact = {}
  <2>1. PICK total : \/ p = Payload("partial", "retry_with_suggestion", NoHit, {}, total)
                     \/ p = Payload("partial", "call_query_codebase", NoHit, {}, total)
                     \/ p = Payload("partial", "call_get_impact_or_get_call_chain", NoHit, {}, total)
                     \/ p = Payload("partial", "inspect_top_result", NoHit, {}, total)
    BY <1>0, <1>1 DEF SearchPayload
  <2> HIDE DEF p
  <2>2. QED
    BY <1>1, <2>1, NoHitsNoBest DEF p
<1>2. CASE exact # {} /\ HasCanonical(exact)
  <2>1. p = DefinitivePayload(exact)
    BY <1>0, <1>2 DEF SearchPayload
  <2>2. p.status = "definitive" /\ p.canonical = Canonical(exact)
    BY <2>1, PayloadParts DEF DefinitivePayload
  <2>3. QED
    BY <1>2, <2>2, CanonicalIsBest DEF Verdict, HasCanonical
<1>3. CASE exact # {} /\ ~HasCanonical(exact)
  <2>1. p = AmbiguousPayload(exact)
    BY <1>0, <1>3 DEF SearchPayload
  <2>2. p.status = "ambiguous"
    BY <2>1, PayloadParts DEF AmbiguousPayload
  <2>3. QED
    BY <1>3, <2>2 DEF Verdict, HasCanonical
<1>4. QED
  BY <1>1, <1>2, <1>3

(* The loop guard leaves the verdict alone: it makes a search that is not  *)
(* definitive partial.                                                     *)
LEMMA GuardedVerdict ==
  ASSUME NEW p, DOMAIN p = Fields, NEW hits, Verdict(p, hits), NEW n
  PROVE  Verdict(Guarded(p, n), hits)
<1>1. CASE n < nudgeAfter
  BY <1>1 DEF Guarded
<1>2. CASE ~(n < nudgeAfter) /\ p.status = "definitive"
  <2> DEFINE g == [p EXCEPT !.level = loopGuardLevel(n)]
  <2>1. g.status = p.status /\ g.canonical = p.canonical
    BY DEF Fields
  <2> HIDE DEF g
  <2>2. Guarded(p, n) = g
    BY <1>2 DEF Guarded, g
  <2>3. QED
    BY <2>1, <2>2 DEF Verdict
<1>3. CASE ~(n < nudgeAfter) /\ p.status # "definitive"
  <2> DEFINE a == [p EXCEPT !.level = loopGuardLevel(n)]
             b == [a EXCEPT !.status = "partial"]
             g == [b EXCEPT !.action = "switch_tools_or_answer"]
  <2>1. DOMAIN a = Fields
    OBVIOUS
  <2>2. DOMAIN b = Fields /\ b.status = "partial"
    <3> HIDE DEF a
    <3> QED BY <2>1 DEF Fields
  <2>3. g.status = "partial"
    <3> HIDE DEF b
    <3> QED BY <2>2 DEF Fields
  <2>4. Guarded(p, n) = g
    BY <1>3 DEF Guarded
  <2> HIDE DEF a, b, g
  <2>5. QED
    BY <1>3, <2>3, <2>4 DEF Verdict
<1>4. QED
  BY <1>1, <1>2, <1>3

-----------------------------------------------------------------------------
(* What was found is what there is.                                        *)

(* A query that cannot be expanded finds nothing when its terms are sought *)
(* as they are, if it finds nothing when the last may be a prefix.         *)
LEMMA PrefixFindsMore ==
  ASSUME NEW q, Terms(q) \subseteq DOMAIN Prefixed, ~Expandable(q), NEW text, Found(q, TRUE, text)
  PROVE  Found(q, FALSE, text)
<1>1. \A i \in 1..Len(q.terms) : NameParts[q.terms[i]] = {}
  BY DEF Expandable, Terms
<1>2. Len(q.terms) > 0 /\ \A i \in 1..Len(q.terms) : q.terms[i] \in text
  BY <1>1 DEF Found
<1>3. \A i \in 1..Len(q.terms) : q.terms[i] \in Prefixed[q.terms[i]]
  BY WordsAssumption DEF Terms
<1>4. QED
  BY <1>2, <1>3 DEF Found

LEMMA DefiniteAreCandidates ==
  ASSUME NEW d, NEW l, l.tool = "query_codebase", Terms(l.args) \subseteq DOMAIN Prefixed,
         NEW e \in BOOLEAN, NEW found, AllFound(d, l.args, e, found), e => NothingFound(d, l.args),
         found = {} => e \/ ~Expandable(l.args)
  PROVE  Definite(l.args, found) = Candidates(d, l)
<1> DEFINE q == l.args
           symbols(x) == FunctionsFound(d, q, x) \cup TypesFound(d, q, x)
           named(h) == h.name \in Terms(q) \/ (Len(q.terms) > 1 /\ h.name = q.joined)
<1>1. PICK docs \in SUBSET DocumentsFound(q, e) :
        /\ docs = {} => DocumentsFound(q, e) = {}
        /\ found = symbols(e) \cup docs
  BY DEF AllFound
<1>2. Definite(q, found) = {h \in symbols(e) : named(h)}
  <2>1. \A h \in docs : h.kind = "document"
    BY HitKinds DEF DocumentsFound
  <2>2. \A h \in symbols(e) : h.kind # "document"
    BY HitKinds DEF FunctionsFound, TypesFound, Kinds
  <2>3. QED
    BY <1>1, <2>1, <2>2 DEF Definite
<1>3. Candidates(d, l) = {h \in symbols(NothingFound(d, q)) : named(h)}
  BY DEF Candidates, FunctionsFound, TypesFound, DocumentsFound, NothingFound
<1>4. CASE e
  BY <1>2, <1>3, <1>4
<1>5. CASE ~e /\ found # {}
  BY <1>1, <1>2, <1>3, <1>5 DEF NothingFound
<1>6. CASE ~e /\ found = {}
  <2>1. ~Expandable(q)
    BY <1>6
  <2>2. symbols(TRUE) \subseteq symbols(FALSE)
    BY <2>1, PrefixFindsMore DEF FunctionsFound, TypesFound, FunctionMatches, TypeMatches
  <2>3. QED
    BY <1>1, <1>2, <1>3, <1>6, <2>2 DEF NothingFound
<1>7. QED
  BY <1>4, <1>5, <1>6

LEMMA AnswerVerdict ==
  ASSUME NothingApart, LineInv, FoundInv, work # Nothing, ~work.torn, ~work.failed,
         ~Overflows(db, line), AnswerDefinition \/ AnswerQuery
  PROVE  Verdict(reply'.body.payload, Candidates(db, line))
<1>1. CASE AnswerDefinition
  <2>1. line.tool = "get_definition" /\ work.stage = "health"
    BY <1>1 DEF AnswerDefinition, At
  <2>2. reply'.body.payload = DefinitionPayload(work.data.hits)
    BY <1>1 DEF AnswerDefinition, Answer, Respond
  <2>3. work.data.hits = Candidates(db, line)
    BY <2>1 DEF FoundInv, FoundSoFar, DefinitionsFound
  <2>4. QED
    BY <2>2, <2>3, DefinitionVerdict
<1>2. CASE AnswerQuery
  <2> DEFINE q == line.args
             found == work.data.found
             e == work.data.expanded
             p == SearchPayload(q, found, found = {} /\ Suggested(q))
  <2>1. line.tool = "query_codebase" /\ work.stage = "decide" /\ (found = {} => e \/ ~Expandable(q))
    BY <1>2 DEF AnswerQuery, At
  <2>2. reply'.body.payload = Guarded(p, calls)
    BY <1>2 DEF AnswerQuery, Answer, Respond
  <2>3. QueryInProgress(line, work) /\ MatchesFound(db, q, work)
    BY <2>1 DEF FoundInv, FoundSoFar
  <2>4. Definite(q, found) = Candidates(db, line)
    <3>1. Terms(q) \subseteq DOMAIN Prefixed
      BY <2>1, <2>3, ReadableQuery DEF QueryInProgress
    <3>2. /\ e \in BOOLEAN /\ AllFound(db, q, e, found) /\ (e => NothingFound(db, q))
      BY <2>1, <2>3 DEF QueryInProgress, MatchesFound
    <3>3. QED
      BY <2>1, <3>1, <3>2, DefiniteAreCandidates
  <2>5. DOMAIN p = Fields
    BY SearchPayloadForm
  <2>6. Verdict(p, Candidates(db, line))
    BY <2>4, SearchVerdict
  <2>7. QED
    <3> HIDE DEF p
    <3> QED BY <2>2, <2>5, <2>6, GuardedVerdict
<1>3. QED
  BY <1>1, <1>2

LEMMA SymbolAnswersComeFrom ==
  ASSUME NothingApart, LineInv, SessionNext, work # Nothing, reply' # reply, SymbolAnswer'
  PROVE  AnswerDefinition \/ AnswerQuery
<1>1. ServerStep
  <2>1. ~Client
    BY DEF Client, Send, LineInv
  <2>2. ~(IncrementalWork \/ FullWork \/ Outside)
    BY ElsewhereSteps DEF Elsewhere, SymbolAnswer
  <2>3. ~NewSession
    BY DEF NewSession, SymbolAnswer
  <2>4. QED
    BY <2>1, <2>2, <2>3 DEF SessionNext
<1>2. ASSUME NEW r, Respond(r) PROVE reply' = r
  BY <1>2 DEF Respond
<1>3. \A code : ToolError(line, code).kind # "answer"
  BY DEF ToolError
<1>4. ~(AnswerUnsearchable \/ StatementFails \/ HandlerPanics)
  BY <1>2, <1>3 DEF AnswerUnsearchable, StatementFails, HandlerPanics, SymbolAnswer
<1>5. ~(AnswerChain \/ AnswerImpact)
  <2>1. ASSUME NEW body, Answer(body) PROVE reply'.to = line
    BY <2>1 DEF Answer, Respond
  <2>2. AnswerChain \/ AnswerImpact => reply'.to = line
    BY <2>1 DEF AnswerChain, AnswerImpact
  <2>3. QED
    BY <2>2 DEF AnswerChain, AnswerImpact, At, SymbolAnswer
<1>6. ~(ReadDefinitions \/ SearchTables \/ Expand \/ TraceChain \/ SymbolsInFile \/ WalkUp \/ WalkDown)
  BY DEF ReadDefinitions, SearchTables, Reads, Expand, TraceChain, SymbolsInFile, WalkUp, WalkDown,
         Read, Start
<1>7. QED
  BY <1>1, <1>4, <1>5, <1>6 DEF ServerStep

(* Unless a commit or a failed statement came between, the symbol that an  *)
(* answer calls definitive is the one definition of highest priority that  *)
(* the index has for the names asked for, and an answer calls it so        *)
(* whenever there is exactly one - in one table or in several, found at    *)
(* the first attempt or with the expanded query.                           *)
THEOREM DefinitiveIsTheOnlyBest ==
  ASSUME NothingApart
  PROVE  SessionSpec => DefinitiveIsUnique
<1> DEFINE Step_ ==
      work # Nothing /\ SymbolAnswer' /\ ~work.torn /\ ~work.failed /\ ~Overflows(db, line)
        => LET p == reply'.body.payload
               hits == Candidates(db, line)
               best == {h \in hits : ~\E k \in hits :
                          definitionPriority(k.kind) < definitionPriority(h.kind)}
           IN  /\ p.status = "definitive" <=> Cardinality(best) = 1
               /\ p.status = "definitive" => p.canonical \in best
<1>1. SessionInit => LineInv /\ FoundInv
  BY DEF SessionInit, LineInv, FoundInv
<1>2. LineInv /\ FoundInv /\ [SessionNext]_allVars => (LineInv /\ FoundInv)'
  BY LineKept, FoundKept
<1>3. LineInv /\ FoundInv /\ [SessionNext]_allVars => [Step_]_reply
  <2> SUFFICES ASSUME LineInv, FoundInv, SessionNext, reply' # reply,
                      work # Nothing, SymbolAnswer', ~work.torn, ~work.failed, ~Overflows(db, line)
               PROVE  LET p == reply'.body.payload
                          hits == Candidates(db, line)
                          best == {h \in hits : ~\E k \in hits :
                                     definitionPriority(k.kind) < definitionPriority(h.kind)}
                      IN  /\ p.status = "definitive" <=> Cardinality(best) = 1
                          /\ p.status = "definitive" => p.canonical \in best
    BY DEF allVars, session
  <2>1. Verdict(reply'.body.payload, Candidates(db, line))
    BY SymbolAnswersComeFrom, AnswerVerdict
  <2>2. QED
    BY <2>1, BestHits, CandidateKinds DEF Verdict
<1>4. QED
  BY <1>1, <1>2, <1>3, PTL DEF SessionSpec, DefinitiveIsUnique
=============================================================================
