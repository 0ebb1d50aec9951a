---------------------------- MODULE MCCallGraph ----------------------------
(***************************************************************************)
(* Small packages for CallGraph: an engine with methods, a caller, and a   *)
(* third file whose contents come and go.                                  *)
(***************************************************************************)
EXTENDS CallGraph

Func(name) == [name |-> name, recv |-> None, ret |-> None]
Method(type, name) == [name |-> name, recv |-> type, ret |-> None]
Maker(name, type) == [name |-> name, recv |-> None, ret |-> type]

Call(line, in, kind, callee, via) ==
  [line |-> line, in |-> in, kind |-> kind, callee |-> callee, via |-> via,
   owner |-> None, origin |-> None, root |-> None]

Source(funcs, calls) == [Absent EXCEPT !.funcs = funcs, !.calls = calls]

FilesMC == {"engine", "caller", "more"}
RankMC == [f \in FilesMC |-> IF f = "caller" THEN 1 ELSE IF f = "engine" THEN 2 ELSE 3]
ScopeMC == [f \in FilesMC |-> "app"]
InterfaceNamesMC == {"Stopper"}
BuiltinsMC == [f \in FilesMC |-> {"len", "open"}]
RootsMC == [f \in FilesMC |-> IF f = "engine" THEN {"conn"} ELSE {"app"}]

(* The engine: one method; two methods and a constructor.                  *)
Engine1 == [Source(<<Method("Engine", "Stop")>>, <<>>) EXCEPT !.classes = {"Engine"}]
Engine2 == [Source(<<Maker("Make", "Engine"), Method("Engine", "Stop"), Method("Engine", "Halt")>>, <<>>)
            EXCEPT !.classes = {"Engine"}]

(* The caller: a method call through a parameter; the same line now calls  *)
(* a plain function, and the method is called through a variable and       *)
(* through a constructor; a module-level call.                             *)
Caller1 == Source(<<Func("Drive")>>, <<Call(1, 1, "var", "Stop", "Engine")>>)
Caller2 == Source(<<Func("Drive")>>,
                  <<Call(1, 1, "bare", "Helper", None),
                    Call(2, 1, "maybe-global", "Stop", "eng"),
                    Call(3, 1, "from-callee", "Halt", "Make"),
                    Call(4, 0, "bare", "Helper", None)>>)

(* The third file: a helper and a variable; an interface, a second         *)
(* implementation of it and a call through it.                             *)
More1 == [Source(<<Func("Helper")>>, <<Call(1, 1, "bare", "Drive", None)>>)
          EXCEPT !.facts = {[owner |-> "app", name |-> "eng", type |-> "Engine"]}]
More2 == [Source(<<Method("Moped", "Stop"), Func("Halt")>>,
                 <<Call(1, 2, "var", "Stop", "Stopper")>>)
          EXCEPT !.interfaces = {[name |-> "Stopper", methods |-> {"Stop"}]}]

SourcesMC ==
  [f \in FilesMC |-> CASE f = "engine" -> {Engine1, Engine2}
                       [] f = "caller" -> {Caller1, Caller2}
                       [] f = "more" -> {More1, More2}]

(* Python and JavaScript modules, each a scope of its own: a connection    *)
(* class with a factory, a client that holds a connection in a field and   *)
(* calls the factory under an alias, a script without types.  A connection *)
(* inherits from a channel of the script, which once, by mistake, inherits *)
(* from the connection.                                                    *)
ModuleScopeMC == [f \in FilesMC |-> f]

Class(name, base) == [class |-> name, base |-> base]

Conn1 == [Source(<<Method("Conn", "send"), Maker("make", "Conn")>>, <<>>)
          EXCEPT !.classes = {"Conn"}, !.bases = <<Class("Conn", "Codec"), Class("Conn", "Channel")>>]
Conn2 == [Source(<<Maker("make", "Conn"), Maker("open", "Conn")>>, <<>>)
          EXCEPT !.classes = {"Conn"}, !.bases = <<Class("Conn", "Channel")>>]
Client1 == [Source(<<Method("Client", "run")>>,
                   <<[Call(1, 1, "field", "send", "conn") EXCEPT !.owner = "Client"],
                     [Call(2, 1, "bare", "mk", None) EXCEPT !.origin = "make", !.root = "conn"],
                     Call(3, 1, "bare", "Conn", None)>>)
            EXCEPT !.facts = {[owner |-> "Client", name |-> "conn", type |-> "Conn"]}]
Client2 == Source(<<Method("Client", "run")>>,
                  <<Call(1, 1, "import", "open", "engine"),
                    Call(2, 1, "from-callee", "send", "Conn"),
                    Call(3, 1, "bare", "open", None),
                    [Call(4, 1, "bare", "mk", None) EXCEPT !.origin = "make", !.root = "urllib"],
                    Call(5, 1, "unknown", "send", None)>>)
Script1 == [Source(<<Func("make"), Func("main"), Method("Channel", "send")>>,
                   <<Call(1, 2, "untyped", "make", None)>>)
            EXCEPT !.classes = {"Channel"}]
Script2 == [Source(<<Func("main")>>, <<Call(1, 1, "untyped", "make", None)>>)
            EXCEPT !.facts = {[owner |-> "Client", name |-> "conn", type |-> "Pool"]},
                   !.bases = <<Class("Channel", "Conn")>>]

ModuleSourcesMC ==
  [f \in FilesMC |-> CASE f = "engine" -> {Conn1, Conn2}
                       [] f = "caller" -> {Client1, Client2}
                       [] f = "more" -> {Script1, Script2}]

(* Two modules that each have a class Client, with a base in common.       *)
Client(first, second) ==
  [Absent EXCEPT !.classes = {"Client"},
                 !.bases = <<Class("Client", first), Class("Client", second)>>]

TwoClientsMC ==
  [f \in FilesMC |->
     CASE f = "engine" -> {Client("Base", "Mixin")}
       [] f = "caller" -> {Client("Other", "Base")}
       [] f = "more" -> {}]
=============================================================================
