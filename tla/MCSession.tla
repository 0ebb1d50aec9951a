------------------------------ MODULE MCSession ------------------------------
(***************************************************************************)
(* A small project for Session: an engine with a cycle of calls and a test *)
(* file that drives it; and a client that sends lines of every kind.       *)
(***************************************************************************)
EXTENDS Session

Func(name) == [name |-> name, recv |-> None, ret |-> None]
Method(type, name) == [name |-> name, recv |-> type, ret |-> None]
Call(line_, in, kind, callee, via) ==
  [line |-> line_, in |-> in, kind |-> kind, callee |-> callee, via |-> via,
   owner |-> None, origin |-> None, root |-> None]
Source(funcs, calls_) == [Absent EXCEPT !.funcs = funcs, !.calls = calls_]

FilesMC == {"engine", "test"}
RankMC == [f \in FilesMC |-> IF f = "engine" THEN 1 ELSE 2]
ScopeMC == [f \in FilesMC |-> "app"]
InterfaceNamesMC == {}
BuiltinsMC == [f \in FilesMC |-> {"len"}]
RootsMC == [f \in FilesMC |-> {"app"}]
TestFilesMC == {"test"}

(* Engine has a method Stop, and two functions that call each other; later *)
(* other functions come first, one of them named Stop too.                 *)
Engine1 == [Source(<<Method("Engine", "Stop"), Func("Helper"), Func("Start")>>,
                   <<Call(1, 2, "bare", "Start", None), Call(2, 3, "bare", "Helper", None)>>)
            EXCEPT !.classes = {"Engine"}]
Engine2 == [Source(<<Func("Print"), Func("Stop"), Method("Engine", "Stop")>>,
                   <<Call(1, 1, "bare", "Stop", None)>>) EXCEPT !.classes = {"Engine"}]

(* Drive calls the method, Helper twice, itself, and something unknown.    *)
Test1 == Source(<<Func("Drive")>>,
                <<Call(1, 1, "var", "Stop", "Engine"), Call(2, 1, "bare", "Helper", None),
                  Call(3, 1, "bare", "Helper", None), Call(4, 1, "bare", "Drive", None),
                  Call(5, 1, "bare", "Print", None)>>)

SourcesMC == [f \in FilesMC |-> IF f = "engine" THEN {Engine1, Engine2} ELSE {Test1}]
ProjectMC == [f \in FilesMC |-> IF f = "engine" THEN Engine1 ELSE Test1]

Names == {"Stop", "Helper", "Start", "Drive", "Print", "Engine", "StopEngine", "Hel", "Guide"}
NamePlaceMC ==
  [n \in Names |-> CASE n = "Drive" -> 1 [] n = "Helper" -> 2 [] n = "Print" -> 3
                     [] n = "Start" -> 4 [] OTHER -> 5]
NamePartsMC == [n \in Names |-> IF n = "StopEngine" THEN {"Stop", "engine"} ELSE {}]
PrefixedMC == [n \in Names |-> IF n = "Hel" THEN {"Hel", "Helper"} ELSE {n}]
NearbyMC == [n \in Names |-> CASE n = "StopEngine" -> {"Stop", "StopEngine"}
                                [] n = "Hel" -> {"Hel", "Helper"}
                                [] OTHER -> {n}]
DocumentsMC == {[name |-> "Guide", words |-> {"Guide", "Stop"}]}

-----------------------------------------------------------------------------
Request(method, tool, args) ==
  [kind |-> "request", method |-> method, hasId |-> TRUE, tool |-> tool, args |-> args]
Tool(tool, args) == Request("tools/call", tool, args)
Other(kind) == [kind |-> kind]

Query(terms, scope, limit) ==
  [terms |-> terms, joined |-> None, form |-> "plain", scope |-> scope, limit |-> limit,
   intent |-> "search"]
ChainArgs(name, direction, limit, level) ==
  [name |-> name, depth |-> 2, direction |-> direction, limit |-> limit, level |-> level]
ImpactArgs(files, direction, tests, level) ==
  [files |-> files, depth |-> 2, direction |-> direction, tests |-> tests, level |-> level]

Protocol ==
  {Other("blank"), Other("garbage"), Other("overlong"), Other("eof"),
   [Request("notifications/initialized", None, NoArgs) EXCEPT !.hasId = FALSE],
   Request("notifications/initialized", None, NoArgs),
   [Tool("query_codebase", Query(<<"Stop">>, "all", 1)) EXCEPT !.hasId = FALSE],
   Request("ping", None, NoArgs), Request("completion/complete", None, NoArgs),
   Request("resources/read", None, [uri |-> "project"]), Tool("grep", NoArgs)}

Symbols ==
  {Tool("get_definition", Unreadable),
   Tool("get_definition", [symbol |-> "Stop"]),
   Tool("query_codebase", Unreadable),
   Tool("query_codebase", Query(<<"Stop">>, "all", 1)),
   Tool("query_codebase", [Query(<<"StopEngine">>, "all", 2) EXCEPT !.intent = "impact"]),
   Tool("query_codebase", [Query(<<"Drive", "Hel">>, "functions", 1) EXCEPT !.form = "punctuated"])}

Graph ==
  {Tool("get_call_chain", ChainArgs("Drive", "both", 2, None)),
   Tool("get_call_chain", ChainArgs("Stop", "callers", 1, "same-package")),
   Tool("get_impact", ImpactArgs(<<"engine">>, "both", TRUE, None)),
   Tool("get_impact", ImpactArgs(<<"engine", "test">>, "callers", FALSE, "receiver-typed")),
   Tool("get_impact", [ImpactArgs(<<>>, "callees", TRUE, None) EXCEPT !.depth = 1]),
   Tool("get_architecture", NoArgs)}

LinesMC == Protocol \cup Symbols \cup Graph
GitChangesMC == {Fails, <<"test">>}
=============================================================================
