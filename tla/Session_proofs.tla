---------------------------- MODULE Session_proofs ----------------------------
(***************************************************************************)
(* Theorems about a session, for any client, any project and any number of *)
(* calls: every request is answered once, and the loop guard ends a search *)
(* whatever became of the calls it counts.                                 *)
(***************************************************************************)
EXTENDS Session, CallEdges_proofs

Message(r) == DOMAIN r = {"to", "kind", "body"}
InProgress(w) == DOMAIN w = {"stage", "torn", "failed", "data"}

(* Nothing is neither a message nor a tool call.                           *)
NothingApart == ~Message(Nothing) /\ ~InProgress(Nothing)

LEMMA Somethings ==
  ASSUME NothingApart, NEW x, Message(x) \/ InProgress(x)
  PROVE  x # Nothing
BY DEF NothingApart

-----------------------------------------------------------------------------
(* What a step of the server does, as far as the protocol goes.            *)

IsToolRequest(l) ==
  l.kind = "request" /\ ~isNotification(l) /\ l.method = "tools/call" /\ l.tool \in Tools

(* The next line is on stdin, unread or in the hands of a tool.            *)
LineInv ==
  /\ line \in Lines \cup {Nothing}
  /\ work # Nothing => alive /\ line # Nothing /\ IsToolRequest(line) /\ InProgress(work)

(* A tool is called.                                                       *)
Begins ==
  /\ work = Nothing /\ line # Nothing /\ IsToolRequest(line) /\ alive
  /\ InProgress(work')
  /\ calls' = IF IsQuery(line) THEN calls + 1 ELSE calls
  /\ UNCHANGED <<line, reply, alive>>

(* It has run one of its statements.                                       *)
GoesOn ==
  /\ work # Nothing
  /\ InProgress(work')
  /\ UNCHANGED <<line, reply, alive, calls>>

(* An answer of query_codebase that comes from a search.                   *)
SearchAnswer ==
  work # Nothing
  /\ \E q, found, suggested :
       reply'.body.payload = Guarded(SearchPayload(q, found, suggested), calls)

(* The request gets its answer.                                            *)
Answers ==
  /\ line # Nothing /\ line.kind = "request" /\ ~isNotification(line) /\ alive
  /\ Message(reply') /\ reply'.to = line
  /\ reply'.kind = "answer" /\ line.tool = "query_codebase" => SearchAnswer
  /\ calls' = IF work = Nothing /\ IsQuery(line) THEN calls + 1 ELSE calls
  /\ line' = Nothing /\ work' = Nothing /\ alive' = alive

(* No request: the line is dropped or refused, or ends the session.        *)
Discards ==
  /\ line # Nothing /\ work = Nothing
  /\ line.kind # "request" \/ isNotification(line)
  /\ line' = Nothing /\ work' = Nothing /\ calls' = calls
  /\ alive' \in {alive, FALSE}
  /\ \/ reply' = reply
     \/ /\ line.kind # "request"
        /\ Message(reply') /\ reply'.to = Nothing /\ reply'.kind = "error"

LEMMA ReadGoesOn ==
  ASSUME LineInv, work # Nothing, NEW stage, NEW data, Read(stage, data)
  PROVE  GoesOn
<1> DEFINE w == [work EXCEPT !.stage = stage]
<1>1. InProgress(w)
  BY DEF LineInv, InProgress
<1>2. InProgress([w EXCEPT !.data = data])
  <2> HIDE DEF w
  <2> QED BY <1>1 DEF InProgress
<1>3. work' = [w EXCEPT !.data = data] /\ UNCHANGED <<line, reply, alive, calls>>
  BY DEF Read, GoOn
<1>4. QED
  BY <1>2, <1>3 DEF GoesOn

LEMMA StartBegins ==
  ASSUME NEW tool \in Tools, tool # "query_codebase", NEW stage, NEW data,
         Start(tool, stage, data), line # Nothing, alive
  PROVE  Begins
<1>1. InProgress(work')
  BY DEF Start, Begin, InProgress
<1>2. QED
  BY <1>1 DEF Start, IsToolCall, IsRequest, IsToolRequest, IsQuery, Begins

(* Any message to the request on stdin but an answer to a search.          *)
LEMMA RespondAnswers ==
  ASSUME line # Nothing, line.kind = "request", ~isNotification(line), alive,
         NEW r, Respond(r), Message(r), r.to = line,
         r.kind = "answer" => line.tool # "query_codebase",
         calls' = IF work = Nothing /\ IsQuery(line) THEN calls + 1 ELSE calls,
         alive' = alive
  PROVE  Answers
BY DEF Respond, Answers

LEMMA Messages ==
  ASSUME NEW l, NEW x
  PROVE  /\ Message(Result(l, x)) /\ Result(l, x).to = l /\ Result(l, x).kind = "result"
         /\ Message(RpcError(l, x)) /\ RpcError(l, x).to = l /\ RpcError(l, x).kind = "error"
         /\ Message(ToolError(l, x)) /\ ToolError(l, x).to = l /\ ToolError(l, x).kind = "toolError"
BY DEF Message, Result, RpcError, ToolError

LEMMA PlainMessage ==
  ASSUME NEW l
  PROVE  Message(Plain(l)) /\ Plain(l).to = l /\ Plain(l).kind \in {"result", "error"}
<1>1. \E x : handleResourcesRead(l) = Result(l, x) \/ handleResourcesRead(l) = RpcError(l, x)
  <2>1. CASE l.args = Unreadable
    BY <2>1 DEF handleResourcesRead
  <2>2. CASE l.args # Unreadable /\ l.args = [uri |-> "project"] /\ summary
    BY <2>2 DEF handleResourcesRead
  <2>3. CASE l.args # Unreadable /\ ~(l.args = [uri |-> "project"] /\ summary)
    BY <2>3 DEF handleResourcesRead
  <2>4. QED
    BY <2>1, <2>2, <2>3
<1>2. \E x : Plain(l) = Result(l, x) \/ Plain(l) = RpcError(l, x)
  <2>1. CASE l.method \notin Methods_
    BY <2>1 DEF Plain, Methods_
  <2>2. CASE l.method = "resources/read"
    <3>1. l.method \in Methods_
      BY <2>2 DEF Methods_
    <3>2. QED
      BY <1>1, <2>2, <3>1 DEF Plain
  <2>3. CASE l.method = "tools/call"
    <3>1. l.method \in Methods_
      BY <2>3 DEF Methods_
    <3>2. \E code : Plain(l) = RpcError(l, code)
      <4>1. CASE l.tool = None
        BY <2>3, <3>1, <4>1 DEF Plain
      <4>2. CASE l.tool # None
        BY <2>3, <3>1, <4>2 DEF Plain
      <4>3. QED
        BY <4>1, <4>2
    <3>3. QED
      BY <3>2
  <2>4. CASE l.method \in Methods_ \ {"resources/read", "tools/call"}
    BY <2>4 DEF Plain
  <2>5. QED
    BY <2>1, <2>2, <2>3, <2>4
<1>3. QED
  BY <1>2, Messages

-----------------------------------------------------------------------------
(* Every step of the server is one of these.                               *)

LEMMA FirstSteps ==
  ASSUME LineInv, alive, line # Nothing, work = Nothing,
         \/ DropBlank \/ AnswerGarbage \/ Stop \/ DropNotification
         \/ handleMethod \/ InvalidArguments \/ CountCall \/ StartImpact \/ AnswerArchitecture
         \/ ReadDefinitions \/ TraceChain
  PROVE  Begins \/ Answers \/ Discards
<1>1. CASE DropBlank
  BY <1>1 DEF DropBlank, Discards
<1>2. CASE AnswerGarbage
  BY <1>2, Messages DEF AnswerGarbage, Respond, Discards
<1>3. CASE Stop
  <2>1. line.kind # "request" /\ (reply' = reply \/ reply' = RpcError(Nothing, "ParseError"))
    BY <1>3 DEF Stop
  <2>2. alive' \in {alive, FALSE}
    BY <1>3 DEF Stop
  <2>3. line' = Nothing /\ work' = work /\ calls' = calls
    BY <1>3 DEF Stop
  <2>4. \/ reply' = reply
        \/ Message(reply') /\ reply'.to = Nothing /\ reply'.kind = "error"
    BY <2>1, Messages
  <2>5. work' = Nothing
    BY <2>3
  <2>6. QED
    BY <2>1, <2>2, <2>3, <2>4, <2>5, Zenon DEF Discards
<1>4. CASE DropNotification
  BY <1>4 DEF DropNotification, Discards
<1>5. CASE handleMethod
  <2>1. ~IsQuery(line)
    BY <1>5 DEF handleMethod, IsQuery, Tools
  <2>2. QED
    BY <1>5, <2>1, PlainMessage, RespondAnswers DEF handleMethod, IsRequest
<1>6. CASE InvalidArguments
  <2>1. ~IsQuery(line)
    BY <1>6 DEF InvalidArguments, IsToolCall, IsQuery
  <2>2. QED
    BY <1>6, <2>1, Messages, RespondAnswers DEF InvalidArguments, IsToolCall, IsRequest
<1>7. CASE CountCall
  <2>1. IsToolRequest(line) /\ IsQuery(line) /\ calls' = calls + 1 /\ alive' = alive
    BY <1>7 DEF CountCall, IsToolCall, IsRequest, IsToolRequest, IsQuery, Tools
  <2>2. CASE line.args = Unreadable
    <3>1. Respond(ToolError(line, "InvalidParams"))
      BY <1>7, <2>2 DEF CountCall
    <3>2. QED
      BY <2>1, <3>1, Messages, RespondAnswers DEF IsToolRequest
  <2>3. CASE line.args # Unreadable
    <3>1. Begin("functions", [found |-> {}, expanded |-> FALSE]) /\ UNCHANGED <<line, reply>>
      BY <1>7, <2>3 DEF CountCall
    <3>2. InProgress(work')
      BY <3>1 DEF Begin, InProgress
    <3>3. QED
      BY <2>1, <3>1, <3>2 DEF Begins
  <2>4. QED
    BY <2>2, <2>3
<1>8. CASE StartImpact
  <2>1. /\ IsToolRequest(line) /\ ~IsQuery(line) /\ line.tool # "query_codebase"
        /\ calls' = calls /\ alive' = alive
    BY <1>8 DEF StartImpact, IsToolCall, IsRequest, IsToolRequest, IsQuery, Tools
  <2>2. CASE Respond(ToolError(line, "InvalidParams"))
    BY <2>1, <2>2, Messages, RespondAnswers DEF IsToolRequest
  <2>3. CASE \E data : Begin("seeds", data) /\ UNCHANGED <<line, reply>>
    <3>1. InProgress(work')
      BY <2>3 DEF Begin, InProgress
    <3>2. QED
      BY <2>1, <2>3, <3>1 DEF Begins
  <2>4. QED
    BY <1>8, <2>2, <2>3 DEF StartImpact
<1>9. CASE AnswerArchitecture
  <2>1. /\ IsToolRequest(line) /\ ~IsQuery(line) /\ line.tool # "query_codebase"
    BY <1>9 DEF AnswerArchitecture, IsToolCall, IsRequest, IsToolRequest, IsQuery, Tools
  <2>2. PICK r : Respond(r) /\ Message(r) /\ r.to = line
    <3>1. CASE summary
      BY <1>9, <3>1 DEF AnswerArchitecture, Answer, Message
    <3>2. CASE ~summary
      BY <1>9, <3>2, Messages DEF AnswerArchitecture
    <3>3. QED
      BY <3>1, <3>2
  <2>3. UNCHANGED <<alive, calls>>
    BY <1>9 DEF AnswerArchitecture, Answer
  <2>4. QED
    BY <2>1, <2>2, <2>3, RespondAnswers DEF IsToolRequest
<1>10. CASE ReadDefinitions
  <2>1. Start("get_definition", "functions", [hits |-> {}])
    BY <1>10 DEF ReadDefinitions, At
  <2>2. QED
    BY <2>1, StartBegins DEF Tools
<1>11. CASE TraceChain
  <2>1. \E data : Start("get_call_chain", "callers", data)
    BY <1>11 DEF TraceChain, At
  <2>2. QED
    BY <2>1, StartBegins DEF Tools
<1>12. QED
  BY <1>1, <1>2, <1>3, <1>4, <1>5, <1>6, <1>7, <1>8, <1>9, <1>10, <1>11

LEMMA AnswerAnswers ==
  ASSUME LineInv, work # Nothing, NEW body, Answer(body), line.tool # "query_codebase"
  PROVE  Answers
<1> DEFINE r == [to |-> line, kind |-> "answer", body |-> body]
<1>1. Message(r) /\ r.to = line
  BY DEF Message
<1>2. Respond(r) /\ UNCHANGED <<alive, calls>>
  BY DEF Answer
<1>3. QED
  <2> HIDE DEF r
  <2> QED BY <1>1, <1>2, RespondAnswers DEF LineInv, IsToolRequest

LEMMA ErrorAnswers ==
  ASSUME LineInv, work # Nothing, NEW code, Respond(ToolError(line, code)), UNCHANGED <<alive, calls>>
  PROVE  Answers
BY Messages, RespondAnswers DEF LineInv, IsToolRequest

(* A failed statement of a search of symbols: the call goes on.            *)
LEMMA AfterFailureGoesOn ==
  ASSUME LineInv, work # Nothing, line.tool \in {"get_definition", "query_codebase"}
  PROVE  InProgress(AfterFailure)
<1>1. \A stage : InProgress([work EXCEPT !.stage = stage, !.failed = TRUE])
  BY DEF LineInv, InProgress
<1>2. CASE line.tool = "get_definition"
  BY <1>1, <1>2 DEF AfterFailure
<1>3. CASE line.tool = "query_codebase"
  BY <1>1, <1>3 DEF AfterFailure
<1>4. QED
  BY <1>2, <1>3

LEMMA LaterSteps ==
  ASSUME LineInv, alive, work # Nothing,
         \/ ReadDefinitions \/ AnswerDefinition
         \/ SearchTables \/ Expand \/ AnswerQuery \/ AnswerUnsearchable
         \/ TraceChain \/ AnswerChain
         \/ SymbolsInFile \/ WalkUp \/ WalkDown \/ AnswerImpact
         \/ StatementFails \/ HandlerPanics
  PROVE  GoesOn \/ Answers
<1>1. CASE \E stage, data : Read(stage, data)
  BY <1>1, ReadGoesOn
<1>2. CASE ReadDefinitions
  BY <1>1, <1>2 DEF ReadDefinitions, Start, IsToolCall, IsRequest
<1>3. CASE SearchTables
  <2>1. \E table, stage, rows, limit : Reads(table, stage, rows, limit)
    BY <1>3 DEF SearchTables
  <2>2. QED
    BY <1>1, <2>1 DEF Reads
<1>4. CASE Expand
  BY <1>1, <1>4 DEF Expand
<1>5. CASE TraceChain
  BY <1>1, <1>5 DEF TraceChain, Start, IsToolCall, IsRequest
<1>6. CASE SymbolsInFile
  BY <1>1, <1>6 DEF SymbolsInFile
<1>7. CASE WalkUp \/ WalkDown
  BY <1>1, <1>7 DEF WalkUp, WalkDown
<1>8. CASE AnswerDefinition
  BY <1>8, AnswerAnswers DEF AnswerDefinition, At
<1>9. CASE AnswerChain
  BY <1>9, AnswerAnswers DEF AnswerChain, At
<1>10. CASE AnswerImpact
  BY <1>10, AnswerAnswers DEF AnswerImpact, At
<1>11. CASE AnswerQuery
  <2>1. PICK q, found, suggested, warned :
          Answer([payload |-> Guarded(SearchPayload(q, found, suggested), calls), warned |-> warned])
    BY <1>11 DEF AnswerQuery
  <2> DEFINE body == [payload |-> Guarded(SearchPayload(q, found, suggested), calls),
                      warned |-> warned]
  <2>2. body.payload = Guarded(SearchPayload(q, found, suggested), calls)
    OBVIOUS
  <2> HIDE DEF body
  <2>3. /\ reply' = [to |-> line, kind |-> "answer", body |-> body]
        /\ line' = Nothing /\ work' = Nothing /\ UNCHANGED <<alive, calls>>
    BY <2>1 DEF Answer, Respond, body
  <2>4. Message(reply') /\ reply'.to = line /\ reply'.body = body
    BY <2>3 DEF Message
  <2>5. QED
    BY <2>2, <2>3, <2>4 DEF Answers, SearchAnswer, LineInv, IsToolRequest
<1>12. CASE AnswerUnsearchable
  BY <1>12, ErrorAnswers DEF AnswerUnsearchable
<1>13. CASE StatementFails
  <2>1. CASE line.tool \in {"get_definition", "query_codebase"}
    BY <1>13, <2>1, AfterFailureGoesOn DEF StatementFails, GoesOn
  <2>2. CASE line.tool \notin {"get_definition", "query_codebase"}
    BY <1>13, <2>2, ErrorAnswers DEF StatementFails
  <2>3. QED
    BY <2>1, <2>2
<1>14. CASE HandlerPanics
  BY <1>14, ErrorAnswers DEF HandlerPanics
<1>15. QED
  BY <1>2, <1>3, <1>4, <1>5, <1>6, <1>7, <1>8, <1>9, <1>10, <1>11, <1>12, <1>13, <1>14

LEMMA ServerSteps ==
  ASSUME LineInv, ServerStep
  PROVE  Begins \/ GoesOn \/ Answers \/ Discards
BY FirstSteps, LaterSteps DEF ServerStep

-----------------------------------------------------------------------------
(* The session's other steps.                                              *)

(* The worker and the environment leave the session alone, except that the *)
(* last answer has been read and that a commit tears a call in progress.   *)
Elsewhere ==
  /\ UNCHANGED <<alive, line, calls, asked, hiccups>>
  /\ reply' = Nothing
  /\ work' = work \/ (work # Nothing /\ InProgress(work'))

LEMMA ElsewhereSteps ==
  ASSUME LineInv, IncrementalWork \/ FullWork \/ Outside
  PROVE  Elsewhere
<1>1. CASE Tear
  <2>1. work # Nothing => InProgress([work EXCEPT !.torn = TRUE])
    BY DEF LineInv, InProgress
  <2>2. QED
    BY <1>1, <2>1 DEF Tear, Elsewhere
<1>2. CASE Outside
  BY <1>2 DEF Outside, Elsewhere
<1>3. QED
  BY <1>1, <1>2 DEF IncrementalWork, FullWork

(* A session takes the steps of the call graph and no others.              *)
LEMMA SessionTakesSteps ==
  ASSUME SessionNext
  PROVE  [Next]_vars
BY DEF SessionNext, IncrementalWork, FullWork, Outside, NewSession, Next

LEMMA LineKept ==
  ASSUME NothingApart, LineInv, [SessionNext]_allVars
  PROVE  LineInv'
<1>1. ASSUME NEW l \in Lines, Send(l) PROVE LineInv'
  BY <1>1 DEF Send, LineInv
<1>2. CASE ServerStep
  <2>1. CASE Begins
    BY <2>1 DEF Begins, LineInv, IsToolRequest, isNotification
  <2>2. CASE GoesOn
    BY <2>2 DEF GoesOn, LineInv, IsToolRequest, isNotification
  <2>3. CASE Answers
    BY <2>3 DEF Answers, LineInv
  <2>4. CASE Discards
    BY <2>4 DEF Discards, LineInv
  <2>5. QED
    BY <1>2, <2>1, <2>2, <2>3, <2>4, ServerSteps
<1>3. CASE Elsewhere
  BY <1>3 DEF Elsewhere, LineInv, IsToolRequest, isNotification
<1>4. CASE NewSession
  BY <1>4 DEF NewSession, LineInv
<1>5. CASE UNCHANGED allVars
  BY <1>5 DEF allVars, session, LineInv, IsToolRequest, isNotification, InProgress
<1>6. QED
  BY <1>1, <1>2, <1>3, <1>4, <1>5, ElsewhereSteps DEF SessionNext, Client

-----------------------------------------------------------------------------
(* The steps of a tool call that is in progress.                           *)

LEMMA ReadResult ==
  ASSUME NothingApart, LineInv, work # Nothing, NEW stage, NEW data, Read(stage, data)
  PROVE  /\ work' # Nothing /\ work'.stage = stage /\ work'.data = data
         /\ work'.torn = work.torn /\ work'.failed = work.failed
         /\ UNCHANGED <<line, reply>>
<1> DEFINE w == [work EXCEPT !.stage = stage]
<1>1. InProgress(w) /\ w.stage = stage /\ w.torn = work.torn /\ w.failed = work.failed
  BY DEF LineInv, InProgress
<1>2. work' = [w EXCEPT !.data = data] /\ UNCHANGED <<line, reply>>
  BY DEF Read, GoOn
<1> HIDE DEF w
<1>3. /\ work'.stage = stage /\ work'.data = data
      /\ work'.torn = work.torn /\ work'.failed = work.failed
  BY <1>1, <1>2 DEF InProgress
<1>4. work' # Nothing
  BY ReadGoesOn, Somethings DEF GoesOn
<1>5. QED
  BY <1>2, <1>3, <1>4

(* The commits of other processes reach the tables only by tearing.        *)
LEMMA OthersTear ==
  ASSUME LineInv, work # Nothing, IncrementalWork \/ FullWork \/ Outside
  PROVE  \/ UNCHANGED <<db, work, line>>
         \/ work'.torn /\ UNCHANGED line
<1>1. CASE Tear
  <2>1. [work EXCEPT !.torn = TRUE].torn
    BY DEF LineInv, InProgress
  <2>2. QED
    BY <1>1, <2>1 DEF Tear
<1>2. CASE Outside
  BY <1>2 DEF Outside, Edit, RequestFull
<1>3. QED
  BY <1>1, <1>2 DEF IncrementalWork, FullWork

-----------------------------------------------------------------------------
(* ExactlyOneAnswer.                                                       *)

BudgetInv ==
  /\ {"fails", "restarts"} \subseteq DOMAIN budget
  /\ budget.fails \in Nat /\ budget.restarts \in Nat

LEMMA BudgetKept ==
  ASSUME BudgetInv, [Next]_vars
  PROVE  BudgetInv'
<1>1. CASE UNCHANGED budget
  BY <1>1 DEF BudgetInv
<1>2. ASSUME NEW field \in {"edits", "fulls", "fails", "cli", "restarts"},
             budget' = [budget EXCEPT ![field] = @ + 1]
      PROVE  BudgetInv'
  BY <1>2 DEF BudgetInv
<1>3. QED
  BY <1>1, <1>2
     DEF Next, vars, IndexFile, IndexFileRefused, IndexFileFails, IndexAll, IndexAllFails, Edit,
         Restart, RequestFull, CliScan, CliIndex, CliClear

LEMMA RestartIsSeen ==
  ASSUME BudgetInv, Restart
  PROVE  budget' # budget
<1>1. budget'.restarts = budget.restarts + 1
  BY DEF BudgetInv, Restart
<1>2. QED
  BY <1>1 DEF BudgetInv

LEMMA StepAnswersOnce ==
  ASSUME NothingApart, LineInv, BudgetInv, SessionNext,
         line # Nothing, line.kind = "request", line' = Nothing, alive', UNCHANGED budget
  PROVE  IF MustBeAnswered(line) THEN reply' # Nothing /\ reply'.to = line ELSE reply' = reply
<1>1. ServerStep
  <2>1. ~Client
    BY DEF Client, Send
  <2>2. ~(IncrementalWork \/ FullWork \/ Outside)
    BY ElsewhereSteps DEF Elsewhere
  <2>3. ~NewSession
    BY RestartIsSeen DEF NewSession
  <2>4. QED
    BY <2>1, <2>2, <2>3 DEF SessionNext
<1>2. CASE Answers
  <2>1. MustBeAnswered(line)
    BY <1>2 DEF Answers, isNotification, MustBeAnswered
  <2>2. QED
    BY <1>2, <2>1, Somethings DEF Answers
<1>3. CASE Discards
  <2>1. ~MustBeAnswered(line)
    BY <1>3 DEF Discards, isNotification, MustBeAnswered
  <2>2. QED
    BY <1>3, <2>1 DEF Discards
<1>4. ~Begins /\ ~GoesOn
  BY DEF Begins, GoesOn
<1>5. QED
  BY <1>1, <1>2, <1>3, <1>4, ServerSteps

(* A request that has an id gets exactly one answer, and a notification    *)
(* none, whatever statement fails, whichever handler panics and whatever   *)
(* is committed meanwhile.                                                 *)
THEOREM AnsweredExactlyOnce ==
  ASSUME NothingApart
  PROVE  SessionSpec => ExactlyOneAnswer
<1> DEFINE I == LineInv /\ BudgetInv
<1>1. SessionInit => I
  BY DEF SessionInit, LineInv, BudgetInv
<1>2. I /\ [SessionNext]_allVars => I'
  <2>1. [SessionNext]_allVars => [Next]_vars
    BY SessionTakesSteps DEF allVars
  <2>2. QED
    BY <2>1, LineKept, BudgetKept
<1>3. I /\ [SessionNext]_allVars =>
        [line # Nothing /\ line.kind = "request" /\ line' = Nothing /\ alive' /\ UNCHANGED budget
           => IF MustBeAnswered(line) THEN reply' # Nothing /\ reply'.to = line
                                      ELSE reply' = reply]_<<line, reply>>
  BY StepAnswersOnce DEF allVars, session
<1>4. QED
  BY <1>1, <1>2, <1>3, PTL DEF SessionSpec, ExactlyOneAnswer

-----------------------------------------------------------------------------
(* LoopGuardEndsSearch.                                                    *)

(* The call on stdin that the handler has not counted yet.                 *)
Pending == line # Nothing /\ work = Nothing /\ IsQuery(line)

CountInv ==
  /\ asked \in Nat
  /\ Pending => asked > 0
  /\ calls = IF Pending THEN asked - 1 ELSE asked

Fields == {"status", "action", "canonical", "others", "total", "level"}

LEMMA PayloadForm ==
  ASSUME NEW status, NEW action, NEW canonical, NEW others, NEW total
  PROVE  LET p == Payload(status, action, canonical, others, total)
         IN  DOMAIN p = Fields /\ p.level = None /\ p.status = status /\ p.action = action
BY DEF Payload, Fields

LEMMA SearchPayloadForm ==
  ASSUME NEW q, NEW found, NEW suggested
  PROVE  LET p == SearchPayload(q, found, suggested)
         IN  /\ DOMAIN p = Fields
             /\ p.level = None
             /\ (p.status = "definitive") = (p.action = "answer_now")
<1> DEFINE p == SearchPayload(q, found, suggested)
<1>1. \E status, action, canonical, others, total :
        /\ p = Payload(status, action, canonical, others, total)
        /\ (status = "definitive") = (action = "answer_now")
  <2>1. CASE exactNameMatches(q, found) # {} /\ HasCanonical(exactNameMatches(q, found))
    <3>1. p = DefinitivePayload(exactNameMatches(q, found))
      BY <2>1 DEF SearchPayload
    <3>2. QED
      BY <3>1 DEF DefinitivePayload
  <2>2. CASE exactNameMatches(q, found) # {} /\ ~HasCanonical(exactNameMatches(q, found))
    <3>1. p = AmbiguousPayload(exactNameMatches(q, found))
      BY <2>2 DEF SearchPayload
    <3>2. QED
      BY <3>1 DEF AmbiguousPayload
  <2>3. CASE exactNameMatches(q, found) = {}
    <3>1. PICK total : \/ p = Payload("partial", "retry_with_suggestion", NoHit, {}, total)
                       \/ p = Payload("partial", "call_query_codebase", NoHit, {}, total)
                       \/ p = Payload("partial", "call_get_impact_or_get_call_chain", NoHit, {}, total)
                       \/ p = Payload("partial", "inspect_top_result", NoHit, {}, total)
      BY <2>3 DEF SearchPayload
    <3> HIDE DEF p
    <3>2. PICK action : p = Payload("partial", action, NoHit, {}, total) /\ action # "answer_now"
      BY <3>1
    <3>3. QED
      BY <3>2
  <2>4. QED
    BY <2>1, <2>2, <2>3
<1>2. QED
  <2> HIDE DEF p
  <2>1. DOMAIN p = Fields /\ p.level = None /\ (p.status = "definitive") = (p.action = "answer_now")
    BY <1>1, PayloadForm
  <2>2. QED
    BY <2>1 DEF p

(* What LoopGuardEndsSearch asks of the payload of the n-th call.          *)
EndsSearch(p, n) ==
  /\ (n < 4) = (p.level = None)
  /\ (n >= 6) = (p.level = "stop_searching")
  /\ n >= 4 => p.action \in {"answer_now", "switch_tools_or_answer"}
  /\ (p.status = "definitive") = (p.action = "answer_now")

LEMMA GuardedEndsSearch ==
  ASSUME NEW q, NEW found, NEW suggested, NEW n \in Nat
  PROVE  EndsSearch(Guarded(SearchPayload(q, found, suggested), n), n)
<1> DEFINE p == SearchPayload(q, found, suggested)
<1>1. DOMAIN p = Fields /\ p.level = None /\ (p.status = "definitive") = (p.action = "answer_now")
  BY SearchPayloadForm
<1> HIDE DEF p
<1>2. CASE n < nudgeAfter
  <2>1. Guarded(p, n) = p /\ n < 4
    BY <1>2 DEF Guarded, nudgeAfter
  <2>2. QED
    BY <1>1, <2>1 DEF EndsSearch, None, p
<1>3. CASE ~(n < nudgeAfter)
  <2>1. n >= 4
    BY <1>3 DEF nudgeAfter
  <2>2. loopGuardLevel(n) \in {"warning", "stop_searching"} /\ (n >= 6) = (loopGuardLevel(n) = "stop_searching")
    BY DEF loopGuardLevel
  <2>3. CASE p.status = "definitive"
    <3> DEFINE g == [p EXCEPT !.level = loopGuardLevel(n)]
    <3>1. g.level = loopGuardLevel(n) /\ g.status = p.status /\ g.action = p.action
      BY <1>1 DEF Fields
    <3>2. Guarded(p, n) = g
      BY <1>3, <2>3 DEF Guarded
    <3> HIDE DEF g
    <3>3. QED
      BY <1>1, <2>1, <2>2, <2>3, <3>1, <3>2 DEF EndsSearch, None, p
  <2>4. CASE p.status # "definitive"
    <3> DEFINE a == [p EXCEPT !.level = loopGuardLevel(n)]
               b == [a EXCEPT !.status = "partial"]
               g == [b EXCEPT !.action = "switch_tools_or_answer"]
    <3>1. DOMAIN a = Fields /\ a.level = loopGuardLevel(n)
      BY <1>1 DEF Fields
    <3>2. DOMAIN b = Fields /\ b.level = loopGuardLevel(n) /\ b.status = "partial"
      <4> HIDE DEF a
      <4> QED BY <3>1 DEF Fields
    <3>3. g.level = loopGuardLevel(n) /\ g.status = "partial" /\ g.action = "switch_tools_or_answer"
      <4> HIDE DEF b
      <4> QED BY <3>2 DEF Fields
    <3>4. Guarded(p, n) = g
      BY <1>3, <2>4 DEF Guarded
    <3> HIDE DEF a, b, g
    <3>5. QED
      BY <2>1, <2>2, <3>3, <3>4 DEF EndsSearch, None, p
  <2>5. QED
    BY <2>3, <2>4
<1>4. QED
  BY <1>2, <1>3 DEF p

LoopInv ==
  /\ LineInv
  /\ CountInv
  /\ reply # Nothing /\ reply.kind = "answer" /\ reply.to.tool = "query_codebase"
       => EndsSearch(reply.body.payload, asked)

LEMMA LoopKept ==
  ASSUME NothingApart, LoopInv, [SessionNext]_allVars
  PROVE  LoopInv'
<1>0. LineInv'
  BY LineKept DEF LoopInv
<1> DEFINE Safe == reply # Nothing /\ reply.kind = "answer" /\ reply.to.tool = "query_codebase"
                     => EndsSearch(reply.body.payload, asked)
<1>1. ASSUME UNCHANGED <<reply, asked>> PROVE Safe'
  BY <1>1 DEF LoopInv, EndsSearch
<1>2. ASSUME NEW l \in Lines, Send(l) PROVE LoopInv'
  <2>1. ~Pending /\ (Pending' = IsQuery(l))
    BY <1>2, SessionAssumption DEF Send, Pending, LoopInv, LineInv, IsQuery, isNotification
  <2>2. CountInv'
    BY <1>2, <2>1 DEF Send, LoopInv, CountInv
  <2>3. QED
    BY <1>0, <1>2, <2>2 DEF Send, LoopInv
<1>3. CASE ServerStep /\ UNCHANGED asked
  <2>1. CASE Begins
    <3>1. ~Pending' /\ (Pending <=> IsQuery(line))
      BY <2>1, Somethings DEF Begins, Pending
    <3>2. CountInv'
      <4>1. CASE IsQuery(line)
        BY <1>3, <2>1, <3>1, <4>1 DEF Begins, LoopInv, CountInv
      <4>2. CASE ~IsQuery(line)
        BY <1>3, <2>1, <3>1, <4>2 DEF Begins, LoopInv, CountInv
      <4>3. QED
        BY <4>1, <4>2
    <3>3. QED
      BY <1>0, <1>1, <1>3, <2>1, <3>2 DEF Begins, LoopInv
  <2>2. CASE GoesOn
    <3>1. ~Pending' /\ ~Pending
      BY <2>2, Somethings DEF GoesOn, Pending
    <3>2. CountInv'
      BY <1>3, <2>2, <3>1 DEF GoesOn, LoopInv, CountInv
    <3>3. QED
      BY <1>0, <1>1, <1>3, <2>2, <3>2 DEF GoesOn, LoopInv
  <2>3. CASE Answers
    <3>1. ~Pending' /\ (Pending <=> work = Nothing /\ IsQuery(line))
      BY <2>3 DEF Answers, Pending
    <3>2. CountInv'
      <4>1. CASE Pending
        BY <1>3, <2>3, <3>1, <4>1 DEF Answers, LoopInv, CountInv
      <4>2. CASE ~Pending
        BY <1>3, <2>3, <3>1, <4>2 DEF Answers, LoopInv, CountInv
      <4>3. QED
        BY <4>1, <4>2
    <3>3. ASSUME reply'.kind = "answer", reply'.to.tool = "query_codebase"
          PROVE  EndsSearch(reply'.body.payload, asked')
      <4>1. SearchAnswer
        BY <2>3, <3>3 DEF Answers
      <4>2. calls = asked /\ asked' = asked /\ calls \in Nat
        BY <1>3, <4>1 DEF SearchAnswer, LoopInv, CountInv, Pending
      <4>3. QED
        BY <4>1, <4>2, GuardedEndsSearch DEF SearchAnswer
    <3>4. QED
      BY <1>0, <3>2, <3>3 DEF LoopInv
  <2>4. CASE Discards
    <3>1. ~Pending' /\ ~Pending
      BY <2>4 DEF Discards, Pending, IsQuery
    <3>2. CountInv'
      BY <1>3, <2>4, <3>1 DEF Discards, LoopInv, CountInv
    <3>3. Safe'
      BY <1>1, <1>3, <2>4 DEF Discards
    <3>4. QED
      BY <1>0, <3>2, <3>3 DEF LoopInv
  <2>5. QED
    BY <1>3, <2>1, <2>2, <2>3, <2>4, ServerSteps DEF LoopInv
<1>4. CASE Elsewhere
  <2>1. Pending' = Pending
    BY <1>4, Somethings DEF Elsewhere, Pending, IsQuery, isNotification
  <2>2. CountInv'
    BY <1>4, <2>1 DEF Elsewhere, LoopInv, CountInv
  <2>3. QED
    BY <1>0, <1>4, <2>2 DEF Elsewhere, LoopInv
<1>5. CASE NewSession
  BY <1>0, <1>5 DEF NewSession, LoopInv, CountInv, Pending
<1>6. CASE UNCHANGED allVars
  <2>1. Pending' = Pending
    BY <1>6 DEF allVars, session, Pending, IsQuery, isNotification
  <2>2. CountInv' /\ Safe'
    BY <1>1, <1>6, <2>1 DEF allVars, session, LoopInv, CountInv
  <2>3. QED
    BY <1>0, <2>2 DEF LoopInv
<1>7. QED
  BY <1>2, <1>3, <1>4, <1>5, <1>6, ElsewhereSteps DEF SessionNext, Client, LoopInv

(* From the fourth call of query_codebase on no answer sends the agent     *)
(* back to search, and from the sixth on it says so more sharply, whatever *)
(* became of the calls before.                                             *)
THEOREM SearchEnds ==
  ASSUME NothingApart
  PROVE  SessionSpec => []LoopGuardEndsSearch
<1>1. SessionInit => LoopInv
  BY DEF SessionInit, LoopInv, LineInv, CountInv, Pending
<1>2. LoopInv /\ [SessionNext]_allVars => LoopInv'
  BY LoopKept
<1>3. LoopInv => LoopGuardEndsSearch
  BY DEF LoopInv, LoopGuardEndsSearch, EndsSearch
<1>4. QED
  BY <1>1, <1>2, <1>3, PTL DEF SessionSpec

-----------------------------------------------------------------------------
(* SessionTypeOK.                                                          *)

ReplyInv == reply # Nothing => reply.to \in Lines \cup {Nothing}

MishapInv == hiccups \in 0..MaxMishaps

SessionTypeInv ==
  /\ TypeInv /\ BudgetInv /\ LoopInv
  /\ alive \in BOOLEAN /\ summary \in BOOLEAN
  /\ asked <= MaxCalls
  /\ MishapInv
  /\ ReplyInv

(* Only a failed statement and a panic count as mishaps of a session.      *)
LEMMA MishapsCounted ==
  ASSUME ServerStep
  PROVE  hiccups' = hiccups \/ (MayFail /\ hiccups' = hiccups + 1)
<1>1. CASE StatementFails \/ HandlerPanics
  BY <1>1 DEF StatementFails, HandlerPanics
<1>2. CASE \/ DropBlank \/ AnswerGarbage \/ Stop \/ DropNotification \/ handleMethod
           \/ InvalidArguments \/ CountCall \/ StartImpact \/ AnswerArchitecture
  BY <1>2 DEF DropBlank, AnswerGarbage, Stop, DropNotification, handleMethod, InvalidArguments,
              CountCall, StartImpact, AnswerArchitecture, Answer
<1>3. CASE ReadDefinitions \/ TraceChain
  BY <1>3 DEF ReadDefinitions, TraceChain, Start, Read
<1>4. CASE SearchTables \/ Expand
  BY <1>4 DEF SearchTables, Reads, Expand, Read
<1>5. CASE SymbolsInFile \/ WalkUp \/ WalkDown
  BY <1>5 DEF SymbolsInFile, WalkUp, WalkDown, Read
<1>6. CASE \/ AnswerDefinition \/ AnswerQuery \/ AnswerUnsearchable \/ AnswerChain \/ AnswerImpact
  BY <1>6 DEF AnswerDefinition, AnswerQuery, AnswerUnsearchable, AnswerChain, AnswerImpact, Answer
<1>7. QED
  BY <1>1, <1>2, <1>3, <1>4, <1>5, <1>6 DEF ServerStep

LEMMA MishapKept ==
  ASSUME BudgetInv, LineInv, MishapInv, [SessionNext]_allVars
  PROVE  MishapInv'
<1>1. CASE UNCHANGED hiccups
  BY <1>1 DEF MishapInv
<1>2. CASE ServerStep
  <2>1. MayFail => hiccups < MaxMishaps
    BY SessionAssumption DEF MayFail, BudgetInv, MishapInv
  <2>2. QED
    BY <1>2, <2>1, MishapsCounted, SessionAssumption DEF MishapInv
<1>3. QED
  BY <1>1, <1>2, ElsewhereSteps
     DEF SessionNext, Client, Send, Elsewhere, NewSession, allVars, session

LEMMA ReplyKept ==
  ASSUME LineInv, ReplyInv, [SessionNext]_allVars
  PROVE  ReplyInv'
<1>1. CASE UNCHANGED reply \/ reply' = Nothing
  BY <1>1 DEF ReplyInv
<1>2. CASE ServerStep
  <2>1. reply' = reply \/ reply'.to \in {line, Nothing}
    BY <1>2, ServerSteps DEF Begins, GoesOn, Answers, Discards
  <2>2. QED
    BY <1>1, <2>1 DEF LineInv, ReplyInv
<1>3. QED
  BY <1>1, <1>2, ElsewhereSteps
     DEF SessionNext, Client, Send, Elsewhere, NewSession, allVars, session

LEMMA SessionTypeKept ==
  ASSUME NothingApart, SessionTypeInv, [SessionNext]_allVars
  PROVE  SessionTypeInv'
<1>1. [Next]_vars
  BY SessionTakesSteps DEF allVars
<1>2. TypeInv' /\ BudgetInv' /\ LoopInv'
  BY <1>1, NextKeepsType, BudgetKept, LoopKept DEF SessionTypeInv
<1>3. MishapInv' /\ ReplyInv'
  BY MishapKept, ReplyKept DEF SessionTypeInv, LoopInv
<1>4. alive' \in BOOLEAN
  <2>1. ServerStep => alive' \in {alive, FALSE}
    BY ServerSteps DEF Begins, GoesOn, Answers, Discards, SessionTypeInv, LoopInv
  <2>2. QED
    BY <2>1, ElsewhereSteps
       DEF SessionNext, Client, Send, Elsewhere, NewSession, allVars, session, SessionTypeInv, LoopInv
<1>5. summary' \in BOOLEAN
  BY DEF SessionNext, IncrementalWork, FullWork, Outside, NewSession, allVars, SessionTypeInv
<1>6. asked' <= MaxCalls
  <2>1. ASSUME NEW l \in Lines, Send(l) PROVE asked' <= MaxCalls
    <3>1. CASE IsQuery(l)
      BY <2>1, <3>1, SessionAssumption DEF Send, SessionTypeInv, LoopInv, CountInv
    <3>2. CASE ~IsQuery(l)
      BY <2>1, <3>2 DEF Send, SessionTypeInv
    <3>3. QED
      BY <3>1, <3>2
  <2>2. CASE UNCHANGED asked
    BY <2>2 DEF SessionTypeInv
  <2>3. CASE NewSession
    BY <2>3, SessionAssumption DEF NewSession
  <2>4. QED
    BY <2>1, <2>2, <2>3, ElsewhereSteps
       DEF SessionNext, Client, Elsewhere, allVars, session, SessionTypeInv, LoopInv
<1>7. QED
  BY <1>2, <1>3, <1>4, <1>5, <1>6 DEF SessionTypeInv

(* The invariants of the call graph hold under a session too: it starts    *)
(* with other files, and takes no other steps.                             *)
LEMMA SessionStartsTyped ==
  ASSUME SessionInit
  PROVE  SessionTypeInv
<1>1. DiskOK
  BY SessionAssumption DEF SessionInit, DiskOK
<1>2. EdgesInv
  BY <1>1 DEF SessionInit, EdgesInv, EmptyDb, HasTables, CliOK, NoCli, OriginInv, Outdated, IdsInv,
              CacheDefs, Unique, RowsOK, PastCallees, EdgesAreSound
<1>3. TypeInv
  <2>1. /\ DOMAIN db = DOMAIN EmptyDb /\ db.funcs = {} /\ db.bases = {}
        /\ gen = 1 /\ cli.stage = "none" /\ cli.failed = {}
    BY DEF SessionInit, EmptyDb, NoCli
  <2>2. loose \in BOOLEAN
    BY DEF SessionInit
  <2>3. QED
    BY <1>1, <1>2, <2>1, <2>2 DEF SessionInit, TypeInv, TypeOK, DiskOK
<1>4. BudgetInv
  BY DEF SessionInit, BudgetInv
<1>5. LoopInv
  BY DEF SessionInit, LoopInv, LineInv, CountInv, Pending
<1>6. alive \in BOOLEAN /\ summary \in BOOLEAN
  BY DEF SessionInit
<1>7. asked <= MaxCalls /\ MishapInv
  BY SessionAssumption DEF SessionInit, MishapInv
<1>8. ReplyInv
  BY DEF SessionInit, ReplyInv
<1>9. QED
  BY <1>3, <1>4, <1>5, <1>6, <1>7, <1>8 DEF SessionTypeInv

(* Every variable keeps its type; a tool call in progress is the one that  *)
(* the line on stdin asks for.                                             *)
THEOREM SessionTypeCorrect ==
  ASSUME NothingApart
  PROVE  SessionSpec => []SessionTypeOK
<1>1. SessionTypeInv /\ [SessionNext]_allVars => SessionTypeInv'
  BY SessionTypeKept
<1>2. SessionTypeInv => SessionTypeOK
  <2>1. SessionTypeInv => calls \in 0..asked /\ asked \in 0..MaxCalls
    <3>1. CASE Pending
      BY <3>1, SessionAssumption DEF SessionTypeInv, LoopInv, CountInv
    <3>2. CASE ~Pending
      BY <3>2, SessionAssumption DEF SessionTypeInv, LoopInv, CountInv
    <3>3. QED
      BY <3>1, <3>2
  <2>2. QED
    BY <2>1 DEF SessionTypeInv, TypeInv, LoopInv, LineInv, IsToolRequest, MishapInv, ReplyInv,
                SessionTypeOK
<1>3. QED
  BY <1>1, <1>2, SessionStartsTyped, PTL DEF SessionSpec

(* No other process rebuilds the database under a session: no transaction  *)
(* leaves an edge without an end.                                          *)
NothingLoose == EdgesInv /\ budget.cli = 0

LEMMA NothingComesLoose ==
  ASSUME NothingLoose, [SessionNext]_allVars
  PROVE  NothingLoose'
<1>1. [Next]_vars
  BY SessionTakesSteps DEF allVars
<1>2. EdgesInv'
  BY <1>1, NextKeepsEdges DEF NothingLoose
<1>3. "cli" \in DOMAIN budget
  BY DEF NothingLoose, EdgesInv, OriginInv
<1>4. \/ UNCHANGED budget
      \/ \E field \in {"edits", "fulls", "fails", "restarts"} :
           budget' = [budget EXCEPT ![field] = @ + 1]
  BY DEF SessionNext, IncrementalWork, FullWork, Outside, NewSession, IndexFile, IndexFileFails,
         IndexAll, IndexAllFails, Edit, RequestFull, Restart, allVars, vars
<1>5. QED
  BY <1>2, <1>3, <1>4 DEF NothingLoose

(* While a client is being answered, too, every edge stays sound, and ends *)
(* in a function that exists.                                              *)
THEOREM SessionEdgesSound == SessionSpec => [](EdgesAreSound /\ ~loose)
<1>1. SessionInit => NothingLoose
  <2>1. SessionInit => EdgesInv
    BY SessionStartsTyped DEF SessionTypeInv, TypeInv
  <2>2. SessionInit => budget.cli = 0
    BY DEF SessionInit
  <2>3. QED
    BY <2>1, <2>2 DEF NothingLoose
<1>2. NothingLoose /\ [SessionNext]_allVars => NothingLoose'
  BY NothingComesLoose
<1>3. NothingLoose => EdgesAreSound /\ ~loose
  <2>1. NothingLoose => EdgesAreSound
    BY DEF NothingLoose, EdgesInv
  <2>2. NothingLoose => ~loose
    BY DEF NothingLoose, EdgesInv, OriginInv
  <2>3. QED
    BY <2>1, <2>2
<1>4. QED
  BY <1>1, <1>2, <1>3, PTL DEF SessionSpec
=============================================================================
