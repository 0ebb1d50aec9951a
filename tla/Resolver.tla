------------------------------- MODULE Resolver -------------------------------
(***************************************************************************)
(* internal/indexer/resolver.go: from the definitions in the database to   *)
(* the function that a call site calls, and the in-memory tables that the  *)
(* worker keeps between incremental reindexes.                             *)
(*                                                                         *)
(* A table keyed by names is modelled by the set of its entries; every     *)
(* entry carries its file, which is the provenance removeFile replays.     *)
(* Only the list of base classes forgets which file an entry came from.    *)
(***************************************************************************)
EXTENDS Naturals, FiniteSets, Sequences

CONSTANTS
  Files,       \* paths of code files
  Rank,        \* the position of each file in the scan's walk
  InterfaceNames,
  Builtins,    \* per file, the predeclared functions of its language
  Roots        \* fileRepoRoots: per file, the import roots it stands for

None == "none"   \* an empty string or a NULL in the code

(* Rows of the database that resolution reads: functions; the type facts   *)
(* (struct_fields: owner is the struct; package_vars: owner is the scope); *)
(* class and struct names; base classes; interfaces.  Ids are handed out   *)
(* by AUTOINCREMENT: they grow with the transaction (gen), within it with  *)
(* the file's place in the walk and the row's place in the file.           *)
Id(d) == <<d.gen, d.file, d.pos>>

NoId == <<0, None, 0>>   \* no callee: the id 0 in the code

Earlier(d, e) ==
  \/ d.gen < e.gen
  \/ d.gen = e.gen /\ Rank[d.file] < Rank[e.file]
  \/ d.gen = e.gen /\ d.file = e.file /\ d.pos < e.pos

(* NewResolver: all tables from the rows of the database.  The methods of  *)
(* interfaces with the same name are merged, whatever package they are of. *)
NewResolver(db) ==
  [defs      |-> db.funcs,
   facts     |-> db.facts,
   classes   |-> db.classes,
   bases     |-> db.bases,
   fileBases |-> db.bases,
   methods   |-> [n \in InterfaceNames |->
                    UNION {i.methods : i \in {j \in db.interfaces : j.name = n}}],
   declares  |-> {<<i.file, i.name>> : i \in {j \in db.interfaces : j.methods # {}}}]

OfOthers(rows, f) == {x \in rows : x.file # f}
OfFile(rows, f) == {x \in rows : x.file = f}

(* The entries of bases are by the class only, so removeStrOnce takes the  *)
(* first entry with the file's class and base, whichever file it came      *)
(* from: an entry stays if it is not among the first as many of its kind   *)
(* as the file has.                                                        *)
SameBase(x, y) == x.class = y.class /\ x.base = y.base
RemainingBases(r, f) ==
  {x \in r.bases :
     Cardinality({y \in OfFile(r.fileBases, f) : SameBase(x, y)})
       < Cardinality({y \in r.bases : SameBase(x, y) /\ (y = x \/ Earlier(y, x))})}

(* Mutant of RemoveFile: the file's type facts stay.                       *)
RemoveFileButFacts(r, f) ==
  [r EXCEPT !.defs = OfOthers(@, f), !.classes = OfOthers(@, f),
            !.bases = RemainingBases(r, f), !.fileBases = OfOthers(@, f),
            !.methods = [n \in InterfaceNames |->
                           IF <<f, n>> \in r.declares THEN {} ELSE @[n]],
            !.declares = {p \in @ : p[1] # f}]

RemoveFile(r, f) ==
  [defs      |-> OfOthers(r.defs, f),
   facts     |-> OfOthers(r.facts, f),
   classes   |-> OfOthers(r.classes, f),
   bases     |-> RemainingBases(r, f),
   fileBases |-> OfOthers(r.fileBases, f),
   methods   |-> [n \in InterfaceNames |->
                    IF <<f, n>> \in r.declares THEN {} ELSE r.methods[n]],
   declares  |-> {p \in r.declares : p[1] # f}]

AddFile(r, db, f) ==
  LET mine == OfFile(db.interfaces, f)
  IN [defs      |-> r.defs \cup OfFile(db.funcs, f),
      facts     |-> r.facts \cup OfFile(db.facts, f),
      classes   |-> r.classes \cup OfFile(db.classes, f),
      bases     |-> r.bases \cup OfFile(db.bases, f),
      fileBases |-> r.fileBases \cup OfFile(db.bases, f),
      methods   |-> [n \in InterfaceNames |->
                       r.methods[n] \cup UNION {i.methods : i \in {j \in mine : j.name = n}}],
      declares  |-> r.declares \cup {<<f, i.name>> : i \in {j \in mine : j.methods # {}}}]

-----------------------------------------------------------------------------
(* Lookups.                                                                *)

Sole(S) == Cardinality(S) = 1
Only(S) == CHOOSE x \in S : TRUE
First(S) == {d \in S : \A e \in S \ {d} : Earlier(d, e)}   \* it alone, or nothing

PlainDefs(r, scope, name) ==
  {d \in r.defs : d.recv = None /\ d.scope = scope /\ d.name = name}
TopDefs(r, name) == {d \in r.defs : d.recv = None /\ d.name = name}
Methods(r, type, name) == {d \in r.defs : d.recv = type /\ type # None /\ d.name = name}
IsClassName(r, name) == \E c \in r.classes : c.name = name

(* importInRepo: a relative import, or a root that some indexed function's *)
(* file stands for.                                                        *)
importInRepo(r, root) == root = None \/ \E d \in r.defs : root \in Roots[d.file]

(* r.bases[class], in the order in which its entries were appended.        *)
BaseNames(r, class) ==
  LET rows == {x \in r.bases : x.class = class}
      at(i) == CHOOSE x \in rows : Cardinality({y \in rows : Earlier(y, x)}) = i - 1
  IN  [i \in 1..Cardinality(rows) |-> at(i).base]

(* A type and its ancestors, breadth first, each once.                     *)
Lineage(r, type) ==
  LET visit[waiting \in Seq(STRING), visited \in Seq(STRING)] ==
        IF waiting = <<>> THEN visited
        ELSE LET t == Head(waiting)
             IN  IF \E i \in DOMAIN visited : visited[i] = t THEN visit[Tail(waiting), visited]
                 ELSE visit[Tail(waiting) \o BaseNames(r, t), Append(visited, t)]
  IN  visit[<<type>>, <<>>]

(* "Ambiguous -> no link": a fact counts only while all the rows for its   *)
(* key agree.                                                              *)
FactsFor(r, owner, name) ==
  {x.type : x \in {y \in r.facts : y.owner = owner /\ y.name = name}}

(* recomputeReturnType: the first definition that has a return type.       *)
ReturnTypes(r, scope, name) ==
  {d.ret : d \in First({d \in PlainDefs(r, scope, name) : d.ret # None})}

(* interfaceMethodImpls: the methods named name of the types that have all *)
(* the methods of the interface.                                           *)
MethodNames(r, type) == {d.name : d \in {e \in r.defs : e.recv = type}}
Implementers(r, iface) ==
  {t \in {d.recv : d \in r.defs} \ {None, iface} : r.methods[iface] \subseteq MethodNames(r, t)}
InterfaceMethodImpls(r, iface, name) ==
  IF iface \in InterfaceNames /\ name \in r.methods[iface]
  THEN {d \in r.defs : d.recv \in Implementers(r, iface) /\ d.name = name}
  ELSE {}

-----------------------------------------------------------------------------
(* ResolveCall: the callee's id, or NoId, and the confidence marker.       *)

Link(d, marker) == [callee |-> Id(d), marker |-> marker]
NoLink(marker) == [callee |-> NoId, marker |-> marker]

(* methodOnType, on the one type in types, if there is one: the method of  *)
(* the nearest ancestor that has exactly one of that name.                 *)
OnType(r, types, name) ==
  LET line == Lineage(r, Only(types))
      having == {i \in DOMAIN line : Sole(Methods(r, line[i], name))}
      nearest == {i \in having : \A j \in having : i <= j}
  IN  IF Sole(types) /\ nearest # {}
      THEN Link(Only(Methods(r, line[Only(nearest)], name)), "receiver-typed")
      ELSE NoLink("unresolved")

ResolveBare(r, c, scope, f) ==
  LET inScope == PlainDefs(r, scope, c.callee)
      imported == TopDefs(r, c.origin)
  IN  IF c.callee \in Builtins[f] THEN NoLink("builtin")
      ELSE IF IsClassName(r, c.callee) THEN NoLink("constructor")
      ELSE IF Sole(inScope)
           THEN Link(Only(inScope),
                     IF Only(inScope).file = f THEN "same-file" ELSE "same-package")
      ELSE IF c.origin # None /\ importInRepo(r, c.root) /\ Sole(imported)
           THEN Link(Only(imported), "import-symbol")
      ELSE NoLink("unresolved")

ResolveCall(r, c, scope, f) ==
  CASE c.kind = "import" ->
         LET defs == PlainDefs(r, c.via, c.callee)
         IN  IF Sole(defs) THEN Link(Only(defs), "cross-package") ELSE NoLink("import-qualified")
    [] c.kind = "var" -> OnType(r, {c.via}, c.callee)
    [] c.kind = "from-callee" ->
         OnType(r, IF IsClassName(r, c.via) THEN {c.via} ELSE ReturnTypes(r, scope, c.via), c.callee)
    [] c.kind = "field" -> OnType(r, FactsFor(r, c.owner, c.via), c.callee)
    [] c.kind = "maybe-global" -> OnType(r, FactsFor(r, scope, c.via), c.callee)
    [] c.kind = "bare" -> ResolveBare(r, c, scope, f)
    [] c.kind = "untyped" ->
         LET first == First({d \in r.defs : d.name = c.callee})
         IN  IF first # {} THEN Link(Only(first), "name-global") ELSE NoLink("name-global")
    [] OTHER -> NoLink("unresolved")
=============================================================================
