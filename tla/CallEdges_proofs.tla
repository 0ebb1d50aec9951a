--------------------------- MODULE CallEdges_proofs ---------------------------
(***************************************************************************)
(* The rows of the table calls: that edges stay sound, that the foreign    *)
(* keys never refuse a file, and that a file's rows are those of its       *)
(* current call sites.                                                     *)
(***************************************************************************)
EXTENDS CallGraph_proofs

-----------------------------------------------------------------------------
(* What ResolveCall returns.                                               *)

LEMMA OnlyIsIn ==
  ASSUME NEW S, S # {}
  PROVE  Only(S) \in S
BY DEF Only

LEMMA SoleIsIn ==
  ASSUME NEW S, Sole(S)
  PROVE  Only(S) \in S
<1>1. S # {}
  BY FS_EmptySet DEF Sole
<1>2. QED
  BY <1>1, OnlyIsIn

(* A resolution of a call of name by resolver r: no target, or one of that *)
(* name, an imported symbol excepted; and never the mark of a stale edge.  *)
Resolves(r, name, res) ==
  /\ res.marker # "stale"
  /\ \/ res.callee = NoId
     \/ \E d \in r.defs : Id(d) = res.callee /\ (res.marker # "import-symbol" => d.name = name)

LEMMA NoLinkResolves ==
  ASSUME NEW r, NEW name, NEW marker, marker # "stale"
  PROVE  Resolves(r, name, NoLink(marker))
BY DEF Resolves, NoLink

LEMMA LinkResolves ==
  ASSUME NEW r, NEW name, NEW marker, marker # "stale", NEW d \in r.defs,
         marker # "import-symbol" => d.name = name
  PROVE  Resolves(r, name, Link(d, marker))
BY DEF Resolves, Link

LEMMA OnTypeResolves ==
  ASSUME NEW r, NEW types, NEW name
  PROVE  Resolves(r, name, OnType(r, types, name))
<1> DEFINE line == Lineage(r, Only(types))
           having == {i \in DOMAIN line : Sole(Methods(r, line[i], name))}
           nearest == {i \in having : \A j \in having : i <= j}
           found == Only(Methods(r, line[Only(nearest)], name))
<1>1. CASE Sole(types) /\ nearest # {}
  <2> HIDE DEF line
  <2>1. Only(nearest) \in nearest
    BY <1>1, OnlyIsIn
  <2>2. Sole(Methods(r, line[Only(nearest)], name))
    BY <2>1
  <2> HIDE DEF nearest
  <2>3. found \in Methods(r, line[Only(nearest)], name)
    BY <2>2, SoleIsIn
  <2>4. found \in r.defs /\ found.name = name
    BY <2>3 DEF Methods
  <2>5. OnType(r, types, name) = Link(found, "receiver-typed")
    BY <1>1 DEF OnType, line, nearest
  <2> HIDE DEF found
  <2>6. QED
    BY <2>4, <2>5, LinkResolves
<1>2. CASE ~(Sole(types) /\ nearest # {})
  <2>1. OnType(r, types, name) = NoLink("unresolved")
    BY <1>2 DEF OnType
  <2>2. QED
    BY <2>1, NoLinkResolves
<1>3. QED
  BY <1>1, <1>2

LEMMA PlainResolves ==
  ASSUME NEW r, NEW scope, NEW name, Sole(PlainDefs(r, scope, name)),
         NEW marker, marker # "stale"
  PROVE  Resolves(r, name, Link(Only(PlainDefs(r, scope, name)), marker))
<1>1. Only(PlainDefs(r, scope, name)) \in PlainDefs(r, scope, name)
  BY SoleIsIn
<1>2. /\ Only(PlainDefs(r, scope, name)) \in r.defs
      /\ Only(PlainDefs(r, scope, name)).name = name
  BY <1>1 DEF PlainDefs
<1>3. QED
  BY <1>2, LinkResolves

LEMMA ResolveBareResolves ==
  ASSUME NEW r, NEW c, NEW scope, NEW f
  PROVE  Resolves(r, c.callee, ResolveBare(r, c, scope, f))
<1> DEFINE inScope == PlainDefs(r, scope, c.callee)
           imported == TopDefs(r, c.origin)
           res == ResolveBare(r, c, scope, f)
<1>1. CASE c.callee \in Builtins[f]
  BY <1>1, NoLinkResolves DEF ResolveBare
<1>2. CASE c.callee \notin Builtins[f] /\ IsClassName(r, c.callee)
  BY <1>2, NoLinkResolves DEF ResolveBare
<1>3. CASE c.callee \notin Builtins[f] /\ ~IsClassName(r, c.callee) /\ Sole(inScope)
  <2>1. PICK marker \in {"same-file", "same-package"} : res = Link(Only(inScope), marker)
    BY <1>3 DEF ResolveBare
  <2>2. QED
    BY <1>3, <2>1, PlainResolves
<1>4. CASE /\ c.callee \notin Builtins[f] /\ ~IsClassName(r, c.callee) /\ ~Sole(inScope)
           /\ c.origin # None /\ importInRepo(r, c.root) /\ Sole(imported)
  <2>1. Only(imported) \in imported
    BY <1>4, SoleIsIn
  <2>2. Only(imported) \in r.defs
    BY <2>1 DEF TopDefs
  <2>3. res = Link(Only(imported), "import-symbol")
    BY <1>4 DEF ResolveBare
  <2> HIDE DEF imported
  <2>4. QED
    BY <2>2, <2>3, LinkResolves
<1>5. CASE /\ c.callee \notin Builtins[f] /\ ~IsClassName(r, c.callee) /\ ~Sole(inScope)
           /\ ~(c.origin # None /\ importInRepo(r, c.root) /\ Sole(imported))
  BY <1>5, NoLinkResolves DEF ResolveBare
<1>6. QED
  BY <1>1, <1>2, <1>3, <1>4, <1>5

LEMMA ResolveCallResolves ==
  ASSUME NEW r, NEW c, NEW scope, NEW f
  PROVE  Resolves(r, c.callee, ResolveCall(r, c, scope, f))
<1> DEFINE res == ResolveCall(r, c, scope, f)
           defs == PlainDefs(r, c.via, c.callee)
           named == {d \in r.defs : d.name = c.callee}
           first == First(named)
<1>1. CASE c.kind = "import"
  <2>1. CASE Sole(defs)
    <3>1. res = Link(Only(defs), "cross-package")
      BY <1>1, <2>1 DEF ResolveCall
    <3>2. QED
      BY <2>1, <3>1, PlainResolves
  <2>2. CASE ~Sole(defs)
    <3>1. res = NoLink("import-qualified")
      BY <1>1, <2>2 DEF ResolveCall
    <3>2. QED
      BY <3>1, NoLinkResolves
  <2>3. QED
    BY <2>1, <2>2
<1>2. CASE c.kind \in {"var", "from-callee", "field", "maybe-global"}
  <2>1. \E types : res = OnType(r, types, c.callee)
    <3>1. CASE c.kind = "var"
      BY <3>1 DEF ResolveCall
    <3>2. CASE c.kind = "from-callee"
      BY <3>2 DEF ResolveCall
    <3>3. CASE c.kind = "field"
      BY <3>3 DEF ResolveCall
    <3>4. CASE c.kind = "maybe-global"
      BY <3>4 DEF ResolveCall
    <3>5. QED
      BY <1>2, <3>1, <3>2, <3>3, <3>4
  <2>2. QED
    BY <2>1, OnTypeResolves
<1>3. CASE c.kind = "bare"
  <2>1. res = ResolveBare(r, c, scope, f)
    BY <1>3 DEF ResolveCall
  <2>2. QED
    BY <2>1, ResolveBareResolves
<1>4. CASE c.kind = "untyped"
  <2>1. CASE first # {}
    <3>1. res = Link(Only(first), "name-global")
      BY <1>4, <2>1 DEF ResolveCall
    <3>2. Only(first) \in first
      BY <2>1, OnlyIsIn
    <3>3. Only(first) \in r.defs /\ Only(first).name = c.callee
      BY <3>2 DEF First
    <3> HIDE DEF first
    <3>4. QED
      BY <3>1, <3>3, LinkResolves
  <2>2. CASE first = {}
    <3>1. res = NoLink("name-global")
      BY <1>4, <2>2 DEF ResolveCall
    <3>2. QED
      BY <3>1, NoLinkResolves
  <2>3. QED
    BY <2>1, <2>2
<1>5. CASE c.kind \notin {"import", "var", "from-callee", "field", "maybe-global", "bare", "untyped"}
  <2>1. res = NoLink("unresolved")
    BY <1>5 DEF ResolveCall
  <2>2. QED
    BY <2>1, NoLinkResolves
<1>6. QED
  BY <1>1, <1>2, <1>3, <1>4, <1>5

LEMMA DispatchResolves ==
  ASSUME NEW r, NEW iface, NEW name, NEW d \in InterfaceMethodImpls(r, iface, name)
  PROVE  d \in r.defs /\ d.name = name
BY DEF InterfaceMethodImpls

-----------------------------------------------------------------------------
(* Rows of calls.                                                          *)

RowOK(c) == DOMAIN c = {"file", "caller", "name", "line", "callee", "marker"}

Resolution(c) == [callee |-> c.callee, marker |-> c.marker]

(* Row e is where, and calls what, row c is and calls.                     *)
SamePlace(e, c) ==
  e.file = c.file /\ e.caller = c.caller /\ e.name = c.name /\ e.line = c.line

Relinked(r, c) == IF c.marker = "stale" THEN Reresolved(r, c) ELSE c

(* Row c with another target.                                              *)
Redirected(c, callee, marker) == [c EXCEPT !.callee = callee, !.marker = marker]

LEMMA RedirectedRow ==
  ASSUME NEW c, RowOK(c), NEW callee, NEW marker
  PROVE  /\ RowOK(Redirected(c, callee, marker))
         /\ SamePlace(Redirected(c, callee, marker), c)
         /\ Redirected(c, callee, marker).callee = callee
         /\ Redirected(c, callee, marker).marker = marker
<1> DEFINE d == [c EXCEPT !.callee = callee]
           e == [d EXCEPT !.marker = marker]
<1>1. RowOK(d) /\ SamePlace(d, c) /\ d.callee = callee
  BY DEF RowOK, SamePlace
<1>2. RowOK(e) /\ SamePlace(e, d) /\ e.callee = d.callee /\ e.marker = marker
  <2> HIDE DEF d
  <2> QED BY <1>1 DEF RowOK, SamePlace
<1>3. Redirected(c, callee, marker) = e
  BY DEF Redirected
<1>4. QED
  <2> HIDE DEF d, e
  <2> QED BY <1>1, <1>2, <1>3 DEF SamePlace

IntoFile(c, f) == \E x \in OfFile(db.funcs, f) : Id(x) = c.callee

Unlinked(c, f) == IF IntoFile(c, f) THEN Redirected(c, NoId, "stale") ELSE c

LEMMA UnlinkedRow ==
  ASSUME NEW c, RowOK(c), NEW f
  PROVE  RowOK(Unlinked(c, f)) /\ SamePlace(Unlinked(c, f), c)
<1>1. CASE IntoFile(c, f)
  BY <1>1, RedirectedRow DEF Unlinked
<1>2. CASE ~IntoFile(c, f)
  BY <1>2 DEF Unlinked, SamePlace
<1>3. QED
  BY <1>1, <1>2

LEMMA ReresolvedRow ==
  ASSUME NEW c, RowOK(c), NEW r
  PROVE  /\ RowOK(Reresolved(r, c)) /\ SamePlace(Reresolved(r, c), c)
         /\ Resolves(r, c.name, Resolution(Reresolved(r, c)))
<1> DEFINE s == disk[c.file]
           site == s.calls[Only(FirstSite(s, c))]
           res == IF FirstSite(s, c) = {} THEN NoLink("unresolved")
                  ELSE ResolveCall(r, site, Scope[c.file], c.file)
           e == Reresolved(r, c)
<1>1. e = Redirected(c, res.callee, res.marker)
  BY DEF Reresolved, Redirected
<1>2. Resolves(r, c.name, res)
  <2>1. CASE FirstSite(s, c) = {}
    BY <2>1, NoLinkResolves
  <2>2. CASE FirstSite(s, c) # {}
    <3>1. Only(FirstSite(s, c)) \in FirstSite(s, c)
      BY <2>2, OnlyIsIn
    <3>2. site.callee = c.name
      BY <3>1 DEF FirstSite, CallSites
    <3>3. Resolves(r, site.callee, ResolveCall(r, site, Scope[c.file], c.file))
      BY ResolveCallResolves
    <3>4. res = ResolveCall(r, site, Scope[c.file], c.file)
      BY <2>2
    <3> HIDE DEF site, res
    <3>5. QED
      BY <3>2, <3>3, <3>4
  <2>3. QED
    BY <2>1, <2>2
<1> HIDE DEF res, e
<1>3. RowOK(e) /\ SamePlace(e, c) /\ e.callee = res.callee /\ e.marker = res.marker
  BY <1>1, RedirectedRow
<1>4. QED
  BY <1>2, <1>3 DEF Resolves, Resolution, e

LEMMA NewRow ==
  ASSUME NEW r, NEW f, NEW s, NEW g, NEW e \in CallRows(r, f, s, g)
  PROVE  /\ RowOK(e)
         /\ Resolves(r, e.name, Resolution(e))
         /\ e.file = f
         /\ \E c \in Elements(s.calls) :
              /\ c.in # 0
              /\ e.caller = <<g, f, c.in>> /\ e.name = c.callee /\ e.line = c.line
<1> DEFINE inside == {c \in Elements(s.calls) : c.in # 0}
           res(c) == ResolveCall(r, c, Scope[f], f)
           dispatch(c) == {Row(f, g, c, Id(d), "interface-dispatch") :
                             d \in InterfaceMethodImpls(r, c.via, c.callee)}
<1>1. PICK c \in inside : e = Row(f, g, c, res(c).callee, res(c).marker) \/ e \in dispatch(c)
  BY DEF CallRows
<1>2. PICK callee, marker :
        e = Row(f, g, c, callee, marker)
        /\ Resolves(r, c.callee, [callee |-> callee, marker |-> marker])
  <2>1. CASE e = Row(f, g, c, res(c).callee, res(c).marker)
    <3>1. Resolves(r, c.callee, res(c))
      BY ResolveCallResolves
    <3>2. Resolves(r, c.callee, [callee |-> res(c).callee, marker |-> res(c).marker])
      <4> HIDE DEF res
      <4> QED BY <3>1 DEF Resolves
    <3>3. QED
      BY <2>1, <3>2
  <2>2. CASE e \in dispatch(c)
    <3>1. PICK d \in InterfaceMethodImpls(r, c.via, c.callee) :
            e = Row(f, g, c, Id(d), "interface-dispatch")
      BY <2>2
    <3>2. d \in r.defs /\ d.name = c.callee
      BY DispatchResolves
    <3>3. Resolves(r, c.callee, [callee |-> Id(d), marker |-> "interface-dispatch"])
      BY <3>2 DEF Resolves
    <3>4. QED
      BY <3>1, <3>3
  <2>3. QED
    BY <1>1, <2>1, <2>2
<1>3. /\ e.file = f /\ e.caller = <<g, f, c.in>> /\ e.name = c.callee /\ e.line = c.line
      /\ e.callee = callee /\ e.marker = marker
      /\ e = [file |-> f, caller |-> <<g, f, c.in>>, name |-> c.callee, line |-> c.line,
              callee |-> callee, marker |-> marker]
  BY <1>2 DEF Row
<1>4. RowOK(e)
  BY <1>3 DEF RowOK
<1>5. Resolves(r, e.name, Resolution(e))
  BY <1>2, <1>3 DEF Resolution
<1>6. QED
  BY <1>1, <1>3, <1>4, <1>5

-----------------------------------------------------------------------------
(* The rows that IndexFile leaves.                                         *)

RowsOK == \A c \in db.calls : RowOK(c)

LEMMA InsertedCalls ==
  ASSUME HasTables(db), RowsOK, NEW f
  PROVE  Inserted(f).calls = {Unlinked(c, f) : c \in OfOthers(db.calls, f)}
<1> DEFINE d1 == Unlink(db, f)
           d2 == DeleteCalls(d1, f)
           d3 == DeleteDefinitions(d2, f)
           d4 == InsertDefinitions(d3, f, disk[f], gen)
<1>1. d1.calls = {Unlinked(c, f) : c \in db.calls} /\ "calls" \in DOMAIN d1
  BY DEF Unlink, Unlinked, Redirected, IntoFile, HasTables
<1>2. d2.calls = OfOthers(d1.calls, f)
  <2> HIDE DEF d1
  <2> QED BY <1>1 DEF DeleteCalls
<1>3. d3.calls = d2.calls
  <2> HIDE DEF d2
  <2> QED BY DEF DeleteDefinitions
<1>4. d4.calls = d3.calls
  <2> HIDE DEF d3
  <2> QED BY DEF InsertDefinitions
<1>5. \A c \in db.calls : Unlinked(c, f).file = c.file
  BY UnlinkedRow DEF RowsOK, SamePlace
<1>6. Inserted(f) = d4
  BY DEF Inserted, Deleted
<1>7. QED
  <2> HIDE DEF d1, d2, d3, d4
  <2> QED BY <1>1, <1>2, <1>3, <1>4, <1>5, <1>6 DEF OfOthers

LEMMA LinkedCalls ==
  ASSUME HasTables(db), RowsOK, NEW f
  PROVE  LET r == ResolverForIndexFile(f)
         IN  Linked(f).calls = {Relinked(r, Unlinked(c, f)) : c \in OfOthers(db.calls, f)}
                                 \cup CallRows(r, f, disk[f], gen)
<1> DEFINE d == Inserted(f)
           r == ResolverForIndexFile(f)
           new == CallRows(r, f, disk[f], gen)
           e == [d EXCEPT !.calls = @ \cup new]
<1>1. "calls" \in DOMAIN d
  BY InsertedTables DEF HasTables
<1>2. e.calls = d.calls \cup new /\ "calls" \in DOMAIN e
  <2> HIDE DEF d, new
  <2> QED BY <1>1
<1>3. ReresolveStaleEdges(e, r).calls = {Relinked(r, c) : c \in e.calls}
  <2> HIDE DEF e, r
  <2> QED BY <1>2 DEF ReresolveStaleEdges, Relinked
<1>4. \A c \in new : Relinked(r, c) = c
  <2> TAKE c \in new
  <2>1. c.marker # "stale"
    BY NewRow DEF Resolves, Resolution
  <2>2. QED
    BY <2>1 DEF Relinked
<1>5. d.calls = {Unlinked(c, f) : c \in OfOthers(db.calls, f)}
  BY InsertedCalls
<1>6. Linked(f) = ReresolveStaleEdges(e, r)
  BY DEF Linked
<1>7. Linked(f).calls = {Relinked(r, Unlinked(c, f)) : c \in OfOthers(db.calls, f)} \cup new
  <2> HIDE DEF d, r, new, e
  <2> QED BY <1>2, <1>3, <1>4, <1>5, <1>6
<1>8. QED
  BY <1>7
-----------------------------------------------------------------------------
(* Ids.                                                                    *)

CacheDefs == IF cache = Cold THEN {} ELSE cache.defs

Unique(rows) == \A x, y \in rows : Id(x) = Id(y) => x = y

(* The ids in the database and in the resolver are of past transactions,   *)
(* and an id that both have is of the same function.                       *)
IdsInv ==
  /\ gen \in Nat \ {0}
  /\ \A x \in db.funcs \cup CacheDefs : x.gen \in 1..gen - 1
  /\ Unique(db.funcs \cup CacheDefs)

LEMMA FuncRow ==
  ASSUME NEW f, NEW s, NEW g, NEW x \in FuncRows(f, s, g)
  PROVE  x.file = f /\ x.gen = g /\ x.pos \in 1..Len(s.funcs)
BY DEF FuncRows

LEMMA FuncRowByPlace ==
  ASSUME NEW f, NEW s, NEW g,
         NEW x \in FuncRows(f, s, g), NEW y \in FuncRows(f, s, g), x.pos = y.pos
  PROVE  x = y
BY DEF FuncRows

LEMMA FuncRowAt ==
  ASSUME NEW f, NEW s, NEW g, NEW i \in 1..Len(s.funcs)
  PROVE  \E x \in FuncRows(f, s, g) : Id(x) = <<g, f, i>>
<1> DEFINE x == [gen |-> g, file |-> f, pos |-> i, scope |-> Scope[f],
                 name |-> s.funcs[i].name, recv |-> s.funcs[i].recv, ret |-> s.funcs[i].ret]
<1>1. x \in FuncRows(f, s, g)
  BY DEF FuncRows
<1>2. Id(x) = <<g, f, i>>
  BY DEF Id
<1>3. QED
  BY <1>1, <1>2

LEMMA SameId ==
  ASSUME NEW x, NEW y, Id(x) = Id(y)
  PROVE  x.gen = y.gen /\ x.file = y.file /\ x.pos = y.pos
BY DEF Id

LEMMA LinkedFuncs ==
  ASSUME HasTables(db), NEW f
  PROVE  /\ HasTables(Linked(f))
         /\ Linked(f).funcs = OfOthers(db.funcs, f) \cup FuncRows(f, disk[f], gen)
BY LinkedTables, InsertedTables DEF SameDefinitions

(* What the resolver of IndexFile may resolve to: functions of the tables  *)
(* that are committed, and whatever it remembers of other files.           *)
LEMMA ResolverDefs ==
  ASSUME HasTables(db), NEW f
  PROVE  /\ \A x \in ResolverForIndexFile(f).defs :
              x \in Linked(f).funcs \/ x \in OfOthers(CacheDefs, f)
         /\ (cache # Cold => cache.defs = db.funcs)
              => ResolverForIndexFile(f).defs = Linked(f).funcs
<1> DEFINE r == ResolverForIndexFile(f)
           d == Inserted(f)
<1>1. d.funcs = Linked(f).funcs
  BY LinkedTables DEF SameDefinitions
<1>2. CASE cache = Cold
  <2>1. r.defs = d.funcs
    BY <1>2 DEF ResolverForIndexFile, NewResolver
  <2>2. QED
    BY <1>1, <1>2, <2>1
<1>3. CASE cache # Cold
  <2>1. r.defs = OfOthers(cache.defs, f) \cup OfFile(d.funcs, f)
    BY <1>3 DEF ResolverForIndexFile, AddFile, RemoveFile
  <2>2. OfOthers(d.funcs, f) = OfOthers(db.funcs, f)
    BY OthersUntouched
  <2> HIDE DEF r, d
  <2>3. \A x \in r.defs : x \in d.funcs \/ x \in OfOthers(CacheDefs, f)
    BY <1>3, <2>1 DEF CacheDefs, OfFile
  <2>4. ASSUME cache.defs = db.funcs PROVE r.defs = d.funcs
    BY <2>1, <2>2, <2>4, RowsSplit
  <2>5. QED
    BY <1>1, <1>3, <2>3, <2>4 DEF r
<1>4. QED
  BY <1>2, <1>3

LEMMA LinkedIdsUnique ==
  ASSUME HasTables(db), IdsInv, NEW f
  PROVE  /\ Unique(Linked(f).funcs \cup ResolverForIndexFile(f).defs)
         /\ \A x \in Linked(f).funcs \cup ResolverForIndexFile(f).defs : x.gen \in 1..gen
<1> DEFINE old == OfOthers(db.funcs, f) \cup OfOthers(CacheDefs, f)
           new == FuncRows(f, disk[f], gen)
<1>1. Linked(f).funcs \cup ResolverForIndexFile(f).defs \subseteq old \cup new
  BY LinkedFuncs, ResolverDefs
<1>2. Unique(old \cup new)
  <2> SUFFICES ASSUME NEW x \in old \cup new, NEW y \in old \cup new, Id(x) = Id(y)
               PROVE  x = y
    BY DEF Unique
  <2>1. CASE x \in old /\ y \in old
    BY <2>1 DEF IdsInv, Unique, OfOthers
  <2>2. CASE x \in new /\ y \in new
    BY <2>2, SameId, FuncRowByPlace
  <2>3. CASE x \in old /\ y \in new
    <3>1. x.file # f
      BY <2>3 DEF OfOthers
    <3>2. y.file = f
      BY <2>3, FuncRow
    <3>3. QED
      BY <3>1, <3>2, SameId
  <2>4. CASE x \in new /\ y \in old
    <3>1. y.file # f
      BY <2>4 DEF OfOthers
    <3>2. x.file = f
      BY <2>4, FuncRow
    <3>3. QED
      BY <3>1, <3>2, SameId
  <2>5. QED
    BY <2>1, <2>2, <2>3, <2>4
<1>3. \A x \in old \cup new : x.gen \in 1..gen
  <2>1. \A x \in old : x.gen \in 1..gen
    BY DEF IdsInv, OfOthers
  <2>2. \A x \in new : x.gen \in 1..gen
    BY FuncRow DEF IdsInv
  <2>3. QED
    BY <2>1, <2>2
<1>4. QED
  <2> HIDE DEF old, new
  <2> QED BY <1>1, <1>2, <1>3 DEF Unique

-----------------------------------------------------------------------------
(* EdgesAreSound.                                                          *)

(* The row c starts and is marked as it should be in the tables d, and     *)
(* ends in no other function than the one it calls.                        *)
Sound(c, d) ==
  /\ c.caller[2] = c.file /\ c.caller \in Ids(d)
  /\ c.marker # "stale"
  /\ c.callee # NoId => \A x \in d.funcs :
                          Id(x) = c.callee /\ c.marker # "import-symbol" => x.name = c.name

Ended(c, d) == c.callee = NoId \/ c.callee \in Ids(d)

LEMMA SoundRows ==
  EdgesAreSound <=> \A c \in db.calls : Sound(c, db) /\ (Ended(c, db) \/ loose)
BY DEF EdgesAreSound, Sound, Ended

(* A row that has just been resolved is sound.                             *)
LEMMA ResolvedIsSound ==
  ASSUME NEW r, NEW c, Resolves(r, c.name, Resolution(c)),
         NEW d, Unique(d.funcs \cup r.defs),
         c.caller[2] = c.file, c.caller \in Ids(d)
  PROVE  Sound(c, d)
<1>1. c.marker # "stale"
  BY DEF Resolves, Resolution
<1>2. ASSUME c.callee # NoId, c.marker # "import-symbol", NEW x \in d.funcs, Id(x) = c.callee
      PROVE  x.name = c.name
  <2>1. PICK y \in r.defs : Id(y) = c.callee /\ y.name = c.name
    BY <1>2 DEF Resolves, Resolution
  <2>2. x = y
    BY <1>2, <2>1 DEF Unique
  <2>3. QED
    BY <2>1, <2>2
<1>3. QED
  BY <1>1, <1>2 DEF Sound

(* A row of another file, after the transaction of f: as it was, and not   *)
(* into f; or resolved anew.                                               *)
LEMMA OldRow ==
  ASSUME NEW c, RowOK(c), Sound(c, db), NEW f, NEW r
  PROVE  LET e == Relinked(r, Unlinked(c, f))
         IN  /\ RowOK(e) /\ SamePlace(e, c)
             /\ (e = c /\ ~IntoFile(c, f)) \/ Resolves(r, e.name, Resolution(e))
<1> DEFINE u == Unlinked(c, f)
           e == Relinked(r, u)
<1>1. RowOK(u) /\ SamePlace(u, c)
  BY UnlinkedRow
<1>2. CASE IntoFile(c, f)
  <2>1. u.marker = "stale"
    BY <1>2, RedirectedRow DEF Unlinked
  <2>2. e = Reresolved(r, u)
    BY <2>1 DEF Relinked
  <2> HIDE DEF u, e
  <2>3. RowOK(e) /\ SamePlace(e, u) /\ Resolves(r, u.name, Resolution(e))
    BY <1>1, <2>2, ReresolvedRow
  <2>4. RowOK(e) /\ SamePlace(e, c) /\ Resolves(r, e.name, Resolution(e))
    BY <1>1, <2>3 DEF SamePlace
  <2>5. QED
    BY <2>4 DEF e, u
<1>3. CASE ~IntoFile(c, f)
  <2>1. u = c
    BY <1>3 DEF Unlinked
  <2>2. e = c
    BY <2>1 DEF Relinked, Sound
  <2>3. QED
    BY <1>3, <2>2 DEF SamePlace
<1>4. QED
  BY <1>2, <1>3

(* The function that a call site names as its own is one of its content.   *)
LEMMA SiteInFunction ==
  ASSUME DiskOK, NEW f \in Files, NEW c \in Elements(disk[f].calls), c.in # 0, NEW g
  PROVE  \E x \in FuncRows(f, disk[f], g) : Id(x) = <<g, f, c.in>>
<1> DEFINE s == disk[f]
<1>1. PICK i \in 1..Len(s.calls) : c = s.calls[i]
  BY DEF Elements
<1>2. s # Absent
  BY <1>1 DEF Absent
<1>3. s \in Sources[f]
  BY <1>2 DEF DiskOK
<1>4. Len(s.funcs) \in Nat /\ c.in \in 0..Len(s.funcs)
  BY <1>1, <1>3, CallsAssumption
<1>5. c.in \in 1..Len(s.funcs)
  BY <1>4
<1>6. QED
  BY <1>5, FuncRowAt

(* No row ends in a function of a transaction that is yet to come.         *)
PastCallees == \A c \in db.calls : c.callee = NoId \/ c.callee[1] \in 1..gen - 1

(* A row that has just been resolved by r ends in a function that r knows. *)
LEMMA ResolvedIsPast ==
  ASSUME NEW r, NEW e, Resolves(r, e.name, Resolution(e)), NEW g,
         \A x \in r.defs : x.gen \in 1..g
  PROVE  e.callee = NoId \/ e.callee[1] \in 1..g
BY DEF Resolves, Resolution, Id

(* The rows of a transaction, whatever checks it.                          *)
LEMMA LinkedIsSound ==
  ASSUME HasTables(db), DiskOK, IdsInv, RowsOK, PastCallees, EdgesAreSound, NEW f \in Files
  PROVE  \A e \in Linked(f).calls :
           /\ RowOK(e) /\ Sound(e, Linked(f))
           /\ e.callee = NoId \/ e.callee[1] \in 1..gen
<1> DEFINE r == ResolverForIndexFile(f)
           d == Linked(f)
<1> SUFFICES ASSUME NEW e \in d.calls
             PROVE  RowOK(e) /\ Sound(e, d) /\ (e.callee = NoId \/ e.callee[1] \in 1..gen)
  OBVIOUS
<1>1. Unique(d.funcs \cup r.defs) /\ \A x \in r.defs : x.gen \in 1..gen
  BY LinkedIdsUnique
<1>2. d.calls = {Relinked(r, Unlinked(c, f)) : c \in OfOthers(db.calls, f)}
                  \cup CallRows(r, f, disk[f], gen)
  BY LinkedCalls
<1>3. d.funcs = OfOthers(db.funcs, f) \cup FuncRows(f, disk[f], gen)
  BY LinkedFuncs
<1> HIDE DEF r, d
<1>4. CASE e \in CallRows(r, f, disk[f], gen)
  <2>1. /\ RowOK(e) /\ Resolves(r, e.name, Resolution(e)) /\ e.file = f
        /\ \E s \in Elements(disk[f].calls) : s.in # 0 /\ e.caller = <<gen, f, s.in>>
    BY <1>4, NewRow
  <2>2. e.caller \in Ids(d) /\ e.caller[2] = e.file
    BY <1>3, <2>1, SiteInFunction DEF Ids
  <2>3. QED
    BY <1>1, <2>1, <2>2, ResolvedIsSound, ResolvedIsPast
<1>5. CASE e \in {Relinked(r, Unlinked(c, f)) : c \in OfOthers(db.calls, f)}
  <2>1. PICK c \in OfOthers(db.calls, f) : e = Relinked(r, Unlinked(c, f))
    BY <1>5
  <2>2. RowOK(c) /\ Sound(c, db) /\ c.file # f /\ (c.callee = NoId \/ c.callee[1] \in 1..gen - 1)
    BY <2>1, SoundRows DEF OfOthers, RowsOK, PastCallees
  <2>3. /\ RowOK(e) /\ SamePlace(e, c)
        /\ (e = c /\ ~IntoFile(c, f)) \/ Resolves(r, e.name, Resolution(e))
    BY <2>1, <2>2, OldRow
  <2>4. e.caller[2] = e.file
    BY <2>2, <2>3 DEF SamePlace, Sound
  <2>5. e.caller \in Ids(d)
    <3>1. PICK x \in db.funcs : Id(x) = c.caller
      BY <2>2 DEF Sound, Ids
    <3>2. x.file = c.file
      BY <2>2, <3>1 DEF Sound, Id
    <3>3. x \in d.funcs
      BY <1>3, <2>2, <3>2 DEF OfOthers
    <3>4. QED
      BY <2>3, <3>1, <3>3 DEF SamePlace, Ids
  <2>6. CASE Resolves(r, e.name, Resolution(e))
    BY <1>1, <2>3, <2>4, <2>5, <2>6, ResolvedIsSound, ResolvedIsPast
  <2>7. CASE e = c /\ ~IntoFile(c, f)
    <3>1. ASSUME c.callee # NoId, NEW x \in d.funcs, Id(x) = c.callee PROVE x \in db.funcs
      <4>1. x.gen = c.callee[1]
        BY <3>1 DEF Id
      <4>2. x.gen # gen
        BY <2>2, <3>1, <4>1 DEF IdsInv
      <4>3. QED
        BY <1>3, <4>2, FuncRow DEF OfOthers
    <3>2. Sound(e, d)
      BY <2>2, <2>4, <2>5, <2>7, <3>1 DEF Sound
    <3>3. e.callee = NoId \/ e.callee[1] \in 1..gen
      BY <2>2, <2>7 DEF IdsInv
    <3>4. QED
      BY <2>3, <3>2, <3>3
  <2>8. QED
    BY <2>3, <2>6, <2>7
<1>6. QED
  BY <1>2, <1>4, <1>5

LEMMA RebuiltRows ==
  ASSUME NEW d, NEW scanned
  PROVE  LET e == Rebuilt(d, scanned)
         IN  /\ HasTables(e)
             /\ e.funcs = UNION {FuncRows(f, disk[f], gen) : f \in scanned}
             /\ \E r : /\ r.defs = e.funcs
                       /\ e.calls = UNION {CallRows(r, f, disk[f], gen) : f \in scanned}
<1> DEFINE base == [funcs |-> UNION {FuncRows(f, disk[f], gen) : f \in scanned},
                    facts |-> d.facts \cup UNION {FactRows(f, disk[f]) : f \in scanned},
                    classes |-> UNION {ClassRows(f, disk[f]) : f \in scanned},
                    bases |-> d.bases \cup UNION {BaseRows(f, disk[f], gen) : f \in scanned},
                    interfaces |-> UNION {InterfaceRows(f, disk[f]) : f \in scanned},
                    calls |-> {}]
           r == NewResolver(base)
           rows == UNION {CallRows(r, f, disk[f], gen) : f \in scanned}
           e == [base EXCEPT !.calls = rows]
<1>1. Rebuilt(d, scanned) = e
  BY DEF Rebuilt
<1>2. HasTables(base) /\ base.funcs = UNION {FuncRows(f, disk[f], gen) : f \in scanned}
  BY DEF HasTables
<1>3. r.defs = base.funcs
  <2> HIDE DEF base
  <2> QED BY DEF NewResolver
<1>4. HasTables(e) /\ e.funcs = base.funcs /\ e.calls = rows
  <2> HIDE DEF base, rows
  <2> QED BY <1>2 DEF HasTables
<1>5. QED
  <2> HIDE DEF base, r, e
  <2> QED BY <1>1, <1>2, <1>3, <1>4

LEMMA RebuiltIsSound ==
  ASSUME DiskOK, gen \in Nat \ {0}, NEW d, NEW scanned \in SUBSET Files
  PROVE  LET e == Rebuilt(d, scanned)
         IN  /\ HasTables(e)
             /\ Unique(e.funcs)
             /\ \A x \in e.funcs : x.gen = gen
             /\ \A c \in e.calls : /\ RowOK(c) /\ Sound(c, e) /\ Ended(c, e)
                                   /\ c.callee = NoId \/ c.callee[1] = gen
<1> DEFINE e == Rebuilt(d, scanned)
<1>1. HasTables(e) /\ e.funcs = UNION {FuncRows(f, disk[f], gen) : f \in scanned}
  BY RebuiltRows
<1>2. PICK r : r.defs = e.funcs
                 /\ e.calls = UNION {CallRows(r, f, disk[f], gen) : f \in scanned}
  BY RebuiltRows
<1> HIDE DEF e
<1>3. Unique(e.funcs)
  <2> SUFFICES ASSUME NEW x \in e.funcs, NEW y \in e.funcs, Id(x) = Id(y)
               PROVE  x = y
    BY DEF Unique
  <2>1. PICK f \in scanned : x \in FuncRows(f, disk[f], gen)
    BY <1>1
  <2>2. PICK g \in scanned : y \in FuncRows(g, disk[g], gen)
    BY <1>1
  <2>3. x.file = f /\ y.file = g
    BY <2>1, <2>2, FuncRow
  <2>4. QED
    BY <2>1, <2>2, <2>3, SameId, FuncRowByPlace
<1>4. \A x \in e.funcs : x.gen = gen
  BY <1>1, FuncRow
<1>5. ASSUME NEW c \in e.calls
      PROVE  RowOK(c) /\ Sound(c, e) /\ Ended(c, e) /\ (c.callee = NoId \/ c.callee[1] = gen)
  <2>1. PICK f \in scanned : c \in CallRows(r, f, disk[f], gen)
    BY <1>2
  <2>2. /\ RowOK(c) /\ Resolves(r, c.name, Resolution(c)) /\ c.file = f
        /\ \E s \in Elements(disk[f].calls) : s.in # 0 /\ c.caller = <<gen, f, s.in>>
    BY <2>1, NewRow
  <2>3. c.caller[2] = c.file
    BY <2>2
  <2>4. c.caller \in Ids(e)
    BY <1>1, <2>2, SiteInFunction DEF Ids
  <2>5. c.callee = NoId \/ \E x \in e.funcs : Id(x) = c.callee
    BY <1>2, <2>2 DEF Resolves, Resolution
  <2>6. Unique(e.funcs \cup r.defs)
    BY <1>2, <1>3
  <2>7. Sound(c, e)
    BY <2>2, <2>3, <2>4, <2>6, ResolvedIsSound
  <2>8. Ended(c, e) /\ (c.callee = NoId \/ c.callee[1] = gen)
    BY <1>4, <2>5 DEF Ended, Ids, Id
  <2>9. QED
    BY <2>2, <2>7, <2>8
<1>6. QED
  BY <1>1, <1>3, <1>4, <1>5 DEF e

LEMMA DeletedTables ==
  ASSUME HasTables(db), RowsOK, NEW f
  PROVE  /\ Deleted(f).funcs = OfOthers(db.funcs, f)
         /\ Deleted(f).calls = {Unlinked(c, f) : c \in OfOthers(db.calls, f)}
<1> DEFINE d1 == Unlink(db, f)
           d2 == DeleteCalls(d1, f)
           d3 == DeleteDefinitions(d2, f)
<1>1. /\ d1.calls = {Unlinked(c, f) : c \in db.calls} /\ d1.funcs = db.funcs
      /\ {"calls", "funcs"} \subseteq DOMAIN d1
  BY DEF Unlink, Unlinked, Redirected, IntoFile, HasTables
<1>2. d2.calls = OfOthers(d1.calls, f) /\ d2.funcs = d1.funcs /\ "funcs" \in DOMAIN d2
  <2> HIDE DEF d1
  <2> QED BY <1>1 DEF DeleteCalls
<1>3. d3.calls = d2.calls /\ d3.funcs = OfOthers(d2.funcs, f)
  <2> HIDE DEF d2
  <2> QED BY <1>2 DEF DeleteDefinitions
<1>4. \A c \in db.calls : Unlinked(c, f).file = c.file
  BY UnlinkedRow DEF RowsOK, SamePlace
<1>5. Deleted(f) = d3
  BY DEF Deleted
<1>6. QED
  <2> HIDE DEF d1, d2, d3
  <2> QED BY <1>1, <1>2, <1>3, <1>4, <1>5 DEF OfOthers

(* What is left of a sound row of another file after its targets in f have *)
(* gone from it: both its ends are of other files.                         *)
LEMMA UnlinkedEnds ==
  ASSUME NEW c, RowOK(c), Sound(c, db), Ended(c, db), NEW f, c.file # f, NEW d,
         \A x \in OfOthers(db.funcs, f) : x \in d.funcs
  PROVE  /\ Unlinked(c, f).caller \in Ids(d)
         /\ Unlinked(c, f).callee = NoId \/ Unlinked(c, f).callee \in Ids(d)
<1>1. PICK x \in db.funcs : Id(x) = c.caller
  BY DEF Sound, Ids
<1>2. x.file = c.file
  BY <1>1 DEF Sound, Id
<1>3. c.caller \in Ids(d)
  BY <1>1, <1>2 DEF OfOthers, Ids
<1>4. Unlinked(c, f).caller = c.caller
  BY UnlinkedRow DEF SamePlace
<1>5. CASE IntoFile(c, f)
  <2>1. Unlinked(c, f).callee = NoId
    BY <1>5, RedirectedRow DEF Unlinked
  <2>2. QED
    BY <1>3, <1>4, <2>1
<1>6. CASE ~IntoFile(c, f)
  <2>1. Unlinked(c, f) = c
    BY <1>6 DEF Unlinked
  <2>2. c.callee = NoId \/ c.callee \in Ids(d)
    BY <1>6 DEF Ended, IntoFile, OfFile, OfOthers, Ids
  <2>3. QED
    BY <1>3, <2>1, <2>2
<1>7. QED
  BY <1>5, <1>6

(* A resolver that knows the functions of the tables breaks no row.        *)
LEMMA UpToDateBreaksNothing ==
  ASSUME HasTables(db), DiskOK, RowsOK, EdgesAreSound, ~loose, ~Outdated, NEW f \in Files
  PROVE  Broken(Deleted(f)) = {} /\ Broken(Linked(f)) = {}
<1> DEFINE r == ResolverForIndexFile(f)
           d == Linked(f)
<1>1. \A c \in OfOthers(db.calls, f) : RowOK(c) /\ Sound(c, db) /\ Ended(c, db) /\ c.file # f
  BY SoundRows DEF RowsOK, OfOthers
<1>2. Broken(Deleted(f)) = {}
  <2>1. /\ Deleted(f).funcs = OfOthers(db.funcs, f)
        /\ Deleted(f).calls = {Unlinked(c, f) : c \in OfOthers(db.calls, f)}
    BY DeletedTables
  <2>2. \A c \in OfOthers(db.calls, f) :
          /\ Unlinked(c, f).caller \in Ids(Deleted(f))
          /\ Unlinked(c, f).callee = NoId \/ Unlinked(c, f).callee \in Ids(Deleted(f))
    BY <1>1, <2>1, UnlinkedEnds
  <2>3. QED
    BY <2>1, <2>2 DEF Broken
<1>3. r.defs = d.funcs
  BY ResolverDefs DEF Outdated
<1>4. d.funcs = OfOthers(db.funcs, f) \cup FuncRows(f, disk[f], gen)
  BY LinkedFuncs
<1>5. d.calls = {Relinked(r, Unlinked(c, f)) : c \in OfOthers(db.calls, f)}
                  \cup CallRows(r, f, disk[f], gen)
  BY LinkedCalls
<1> HIDE DEF r, d
<1>6. \A e : Resolves(r, e.name, Resolution(e)) => e.callee = NoId \/ e.callee \in Ids(d)
  BY <1>3 DEF Resolves, Resolution, Ids
<1>7. ASSUME NEW e \in CallRows(r, f, disk[f], gen)
      PROVE  e.caller \in Ids(d) /\ (e.callee = NoId \/ e.callee \in Ids(d))
  <2>1. /\ Resolves(r, e.name, Resolution(e))
        /\ \E s \in Elements(disk[f].calls) : s.in # 0 /\ e.caller = <<gen, f, s.in>>
    BY NewRow
  <2>2. e.caller \in Ids(d)
    BY <1>4, <2>1, SiteInFunction DEF Ids
  <2>3. QED
    BY <1>6, <2>1, <2>2
<1>8. ASSUME NEW c \in OfOthers(db.calls, f)
      PROVE  LET e == Relinked(r, Unlinked(c, f))
             IN  e.caller \in Ids(d) /\ (e.callee = NoId \/ e.callee \in Ids(d))
  <2> DEFINE e == Relinked(r, Unlinked(c, f))
  <2>1. /\ SamePlace(e, c)
        /\ (e = c /\ ~IntoFile(c, f)) \/ Resolves(r, e.name, Resolution(e))
    BY <1>1, OldRow
  <2>2. SamePlace(Unlinked(c, f), c)
    BY <1>1, UnlinkedRow
  <2>3. /\ Unlinked(c, f).caller \in Ids(d)
        /\ Unlinked(c, f).callee = NoId \/ Unlinked(c, f).callee \in Ids(d)
    BY <1>1, <1>4, UnlinkedEnds
  <2>4. ~IntoFile(c, f) => Unlinked(c, f) = c
    BY DEF Unlinked
  <2> HIDE DEF e
  <2>5. e.caller \in Ids(d)
    BY <2>1, <2>2, <2>3 DEF SamePlace
  <2>6. e.callee = NoId \/ e.callee \in Ids(d)
    BY <1>6, <2>1, <2>3, <2>4
  <2>7. QED
    BY <2>5, <2>6 DEF e
<1>9. Broken(d) = {}
  BY <1>5, <1>7, <1>8 DEF Broken
<1>10. QED
  BY <1>2, <1>9 DEF d

CliOK == DOMAIN cli = {"stage", "files", "failed"} /\ cli.files \subseteq Files

(* As long as no other process rebuilds the database, the resolver is up   *)
(* to date, and no transaction escapes the foreign keys to any effect.     *)
OriginInv ==
  /\ "cli" \in DOMAIN budget /\ budget.cli \in Nat
  /\ cli.stage # "none" => budget.cli > 0
  /\ budget.cli = 0 => ~loose /\ ~Outdated

EdgesInv ==
  /\ HasTables(db) /\ DiskOK /\ CliOK /\ OriginInv
  /\ IdsInv
  /\ RowsOK /\ PastCallees
  /\ EdgesAreSound

LEMMA InitEdges == Init => EdgesInv
BY DEF Init, EdgesInv, EmptyDb, HasTables, DiskOK, CliOK, NoCli, OriginInv, Outdated, IdsInv,
       CacheDefs, Unique, RowsOK, PastCallees, EdgesAreSound

LEMMA IndexFileKeepsEdges ==
  ASSUME EdgesInv, NEW f \in Files, IndexFile(f)
  PROVE  EdgesInv'
<1>1. db' = Linked(f) /\ cache' = ResolverForIndexFile(f) /\ gen' = gen + 1
      /\ UNCHANGED <<disk, cli, budget>>
  BY DEF IndexFile
<1>2. HasTables(db')
  BY <1>1, LinkedFuncs DEF EdgesInv
<1>3. IdsInv'
  <2>1. CacheDefs' \subseteq ResolverForIndexFile(f).defs
    BY <1>1 DEF CacheDefs
  <2>2. /\ Unique(db'.funcs \cup ResolverForIndexFile(f).defs)
        /\ \A x \in db'.funcs \cup ResolverForIndexFile(f).defs : x.gen \in 1..gen
    BY <1>1, LinkedIdsUnique DEF EdgesInv
  <2>3. QED
    BY <1>1, <2>1, <2>2 DEF EdgesInv, IdsInv, Unique
<1>4. \A c \in db'.calls :
        RowOK(c) /\ Sound(c, db') /\ (c.callee = NoId \/ c.callee[1] \in 1..gen)
  BY <1>1, LinkedIsSound DEF EdgesInv
<1>5. ASSUME ~loose' PROVE \A c \in db'.calls : Ended(c, db')
  <2>1. PICK checked \in BOOLEAN :
          (checked => Accepted(f)) /\ ~loose /\ (checked \/ ~Outdated)
    BY <1>5 DEF IndexFile, Committed
  <2>2. Broken(db) = {}
    BY <2>1, SoundRows DEF EdgesInv, Broken, Sound, Ended
  <2>3. Broken(Linked(f)) = {}
    <3>1. CASE checked
      BY <2>1, <2>2, <3>1 DEF Accepted
    <3>2. CASE ~Outdated
      BY <2>1, <3>2, UpToDateBreaksNothing DEF EdgesInv
    <3>3. QED
      BY <2>1, <3>1, <3>2
  <2>4. QED
    BY <1>1, <2>3 DEF Broken, Ended
<1>6. OriginInv'
  <2>1. budget.cli = 0 => ~loose'
    BY DEF IndexFile, Committed, EdgesInv, OriginInv
  <2>2. ~Outdated => ~Outdated'
    BY <1>1, ResolverDefs DEF EdgesInv, Outdated
  <2>3. QED
    BY <1>1, <2>1, <2>2 DEF EdgesInv, OriginInv
<1>7. RowsOK' /\ PastCallees' /\ EdgesAreSound'
  <2>1. gen' - 1 = gen
    BY <1>1 DEF EdgesInv, IdsInv
  <2>2. QED
    BY <1>4, <1>5, <2>1 DEF RowsOK, PastCallees, EdgesAreSound, Sound, Ended, Ids
<1>8. QED
  BY <1>1, <1>2, <1>3, <1>6, <1>7 DEF EdgesInv, DiskOK, CliOK

LEMMA RebuildKeepsEdges ==
  ASSUME EdgesInv, NEW scanned \in SUBSET Files, db' = Rebuilt(db, scanned), gen' = gen + 1,
         CacheDefs' \in {{}, CacheDefs}
  PROVE  HasTables(db') /\ IdsInv' /\ RowsOK' /\ PastCallees' /\ EdgesAreSound'
<1>1. /\ HasTables(db')
      /\ Unique(db'.funcs)
      /\ \A x \in db'.funcs : x.gen = gen
      /\ \A c \in db'.calls : /\ RowOK(c) /\ Sound(c, db') /\ Ended(c, db')
                              /\ c.callee = NoId \/ c.callee[1] = gen
  BY RebuiltIsSound DEF EdgesInv, IdsInv
<1>2. \A x \in CacheDefs' : x \in CacheDefs /\ x.gen \in 1..gen - 1
  BY DEF EdgesInv, IdsInv
<1>3. Unique(db'.funcs \cup CacheDefs')
  <2> SUFFICES ASSUME NEW x \in db'.funcs \cup CacheDefs', NEW y \in db'.funcs \cup CacheDefs',
                      Id(x) = Id(y)
               PROVE  x = y
    BY DEF Unique
  <2>1. x.gen = y.gen
    BY SameId
  <2>2. x \in db'.funcs <=> y \in db'.funcs
    BY <1>1, <1>2, <2>1 DEF EdgesInv, IdsInv
  <2>3. QED
    BY <1>1, <1>2, <2>2 DEF EdgesInv, IdsInv, Unique
<1>4. IdsInv'
  BY <1>1, <1>2, <1>3 DEF EdgesInv, IdsInv, Unique
<1>5. RowsOK' /\ EdgesAreSound'
  BY <1>1 DEF RowsOK, EdgesAreSound, Sound, Ended, Ids
<1>6. PastCallees'
  BY <1>1 DEF PastCallees, EdgesInv, IdsInv
<1>7. QED
  BY <1>1, <1>4, <1>5, <1>6

LEMMA NextKeepsOrigin ==
  ASSUME EdgesInv, [Next]_vars
  PROVE  OriginInv'
<1> USE DEF EdgesInv, OriginInv
<1>1. ASSUME NEW f \in Files, IndexFile(f) PROVE OriginInv'
  BY <1>1, IndexFileKeepsEdges
<1>2. ASSUME cli.stage # "none" \/ cli'.stage = "none", budget'.cli = budget.cli,
             "cli" \in DOMAIN budget', loose' = loose \/ ~loose', Outdated' => Outdated
      PROVE  OriginInv'
  BY <1>2
<1>3. ASSUME NEW f, RollBack(f), budget' = budget \/ budget' = [budget EXCEPT !.fails = @ + 1]
      PROVE  OriginInv'
  <2>1. cli.stage # "none" \/ cli'.stage = "none"
    BY <1>3 DEF RollBack, CliOK
  <2>2. ~Outdated' /\ loose' = loose
    BY <1>3 DEF RollBack, Outdated
  <2>3. QED
    BY <1>2, <1>3, <2>1, <2>2
<1>4. ASSUME UNCHANGED <<db, cache, loose, cli>>,
             \E field \in {"edits", "fulls"} : budget' = [budget EXCEPT ![field] = @ + 1]
      PROVE  OriginInv'
  BY <1>2, <1>4 DEF Outdated
<1>5. CASE IndexAll
  BY <1>2, <1>5 DEF IndexAll, Outdated
<1>6. CASE CliScan
  BY <1>6 DEF CliScan
<1>7. CASE CliIndex
  BY <1>7 DEF CliIndex, NoCli
<1>8. CASE CliClear
  BY <1>8 DEF CliClear, NoCli, Outdated
<1>9. CASE Restart
  BY <1>2, <1>9 DEF Restart, Outdated
<1>10. CASE UNCHANGED vars
  BY <1>10 DEF vars, Outdated
<1>11. ASSUME NEW f \in Files, Edit(f) PROVE OriginInv'
  BY <1>4, <1>11 DEF Edit
<1>12. CASE RequestFull
  BY <1>4, <1>12 DEF RequestFull
<1>13. QED
  BY <1>1, <1>3, <1>5, <1>6, <1>7, <1>8, <1>9, <1>10, <1>11, <1>12
     DEF Next, IndexFileRefused, IndexFileFails, IndexAllFails

LEMMA NextKeepsEdges ==
  ASSUME EdgesInv, [Next]_vars
  PROVE  EdgesInv'
<1>0. OriginInv'
  BY NextKeepsOrigin
<1>1. ASSUME NEW f \in Files, IndexFile(f) PROVE EdgesInv'
  BY <1>1, IndexFileKeepsEdges
<1>2. ASSUME UNCHANGED <<db, gen, loose>>, CacheDefs' = CacheDefs \/ CacheDefs' = {}, DiskOK', CliOK'
      PROVE  EdgesInv'
  BY <1>0, <1>2 DEF EdgesInv, IdsInv, Unique, RowsOK, PastCallees, EdgesAreSound, Ids
<1>3. ASSUME NEW f, RollBack(f) PROVE EdgesInv'
  <2>1. CacheDefs' = {} /\ UNCHANGED <<disk, db, gen, loose>>
    BY <1>3 DEF RollBack, CacheDefs
  <2>2. CliOK'
    <3>1. CASE cli.stage = "indexed"
      BY <1>3, <3>1 DEF RollBack, EdgesInv, CliOK
    <3>2. CASE cli.stage # "indexed"
      BY <1>3, <3>2 DEF RollBack, EdgesInv, CliOK
    <3>3. QED
      BY <3>1, <3>2
  <2>3. QED
    BY <1>2, <2>1, <2>2 DEF EdgesInv, DiskOK
<1>4. ASSUME NEW f \in Files, Edit(f) PROVE EdgesInv'
  <2>1. DiskOK'
    BY <1>4 DEF EdgesInv, Edit, DiskOK
  <2>2. UNCHANGED <<db, cache, gen, cli, loose>>
    BY <1>4 DEF Edit
  <2>3. QED
    BY <1>2, <2>1, <2>2 DEF EdgesInv, CliOK, CacheDefs
<1>5. CASE IndexAll
  <2>1. /\ db' = Rebuilt(db, Files) /\ gen' = gen + 1 /\ CacheDefs' = {}
        /\ UNCHANGED <<disk, cli>>
    BY <1>5 DEF IndexAll, CacheDefs
  <2>2. HasTables(db') /\ IdsInv' /\ RowsOK' /\ PastCallees' /\ EdgesAreSound'
    BY <2>1, RebuildKeepsEdges
  <2>3. QED
    BY <1>0, <2>1, <2>2 DEF EdgesInv, DiskOK, CliOK
<1>6. CASE CliIndex
  <2>1. /\ db' = Rebuilt(db, cli.files) /\ gen' = gen + 1 /\ CacheDefs' = CacheDefs
        /\ cli' = [NoCli EXCEPT !.stage = "indexed"] /\ UNCHANGED disk
    BY <1>6 DEF CliIndex, CacheDefs
  <2>2. HasTables(db') /\ IdsInv' /\ RowsOK' /\ PastCallees' /\ EdgesAreSound'
    BY <2>1, RebuildKeepsEdges DEF EdgesInv, CliOK
  <2>3. CliOK'
    BY <2>1 DEF CliOK, NoCli
  <2>4. QED
    BY <1>0, <2>1, <2>2, <2>3 DEF EdgesInv, DiskOK
<1>7. ASSUME UNCHANGED <<disk, db, cache, gen, loose>>, CliOK' PROVE EdgesInv'
  BY <1>2, <1>7 DEF EdgesInv, DiskOK, CacheDefs
<1>8. CASE CliScan
  <2>1. CliOK'
    BY <1>8 DEF CliScan, CliOK, NoCli
  <2>2. QED
    BY <1>7, <1>8, <2>1 DEF CliScan
<1>9. CASE CliClear
  <2>1. CliOK'
    BY <1>9 DEF CliClear, CliOK, NoCli
  <2>2. QED
    BY <1>7, <1>9, <2>1 DEF CliClear
<1>10. CASE RequestFull \/ UNCHANGED vars
  <2>1. CliOK'
    BY <1>10 DEF EdgesInv, CliOK, RequestFull, vars
  <2>2. QED
    BY <1>7, <1>10, <2>1 DEF RequestFull, vars
<1>11. CASE Restart
  <2>1. CacheDefs' = {} /\ UNCHANGED <<disk, db, gen, cli, loose>>
    BY <1>11 DEF Restart, CacheDefs
  <2>2. QED
    BY <1>2, <2>1 DEF EdgesInv, DiskOK, CliOK
<1>12. QED
  BY <1>1, <1>3, <1>4, <1>5, <1>6, <1>8, <1>9, <1>10, <1>11
     DEF Next, IndexFileRefused, IndexFileFails, IndexAllFails

LEMMA EdgesInvariant == Spec => []EdgesInv
<1>1. EdgesInv /\ [Next]_vars => EdgesInv'
  BY NextKeepsEdges
<1>2. QED
  BY <1>1, InitEdges, PTL DEF Spec

(* Whatever is edited, deleted, rolled back, rebuilt by this process or by *)
(* another, in whatever order and whether or not the connections check     *)
(* foreign keys: every edge starts in a function of its file and ends in   *)
(* no other function than the one that is called; and it ends in one that  *)
(* exists, unless another process has rebuilt the database and an          *)
(* unchecked transaction has followed with the resolver of before.         *)
THEOREM EdgesAlwaysSound == Spec => []EdgesAreSound
<1>1. EdgesInv => EdgesAreSound
  BY DEF EdgesInv
<1>2. QED
  BY <1>1, EdgesInvariant, PTL
-----------------------------------------------------------------------------
(* NeverRefused.                                                           *)

RefusalInv ==
  /\ EdgesInv
  /\ "fails" \in DOMAIN budget /\ budget.fails \in Nat
  /\ NeverRefused

LEMMA AlwaysAccepted ==
  ASSUME RefusalInv, budget.cli = 0, NEW f \in Files
  PROVE  Accepted(f)
BY UpToDateBreaksNothing DEF RefusalInv, EdgesInv, OriginInv, Accepted

LEMMA NextKeepsRefusal ==
  ASSUME RefusalInv, [Next]_vars
  PROVE  RefusalInv'
<1>0. EdgesInv'
  BY NextKeepsEdges DEF RefusalInv
<1>1. ASSUME UNCHANGED budget, errors' \subseteq errors \/ budget.cli # 0 PROVE RefusalInv'
  BY <1>0, <1>1 DEF RefusalInv, NeverRefused
<1>2. ASSUME NEW f \in Files, IndexFile(f) PROVE RefusalInv'
  BY <1>1, <1>2 DEF IndexFile
<1>3. ASSUME NEW f \in Files, IndexFileRefused(f) PROVE RefusalInv'
  BY <1>1, <1>3, AlwaysAccepted DEF IndexFileRefused
<1>4. ASSUME budget' = [budget EXCEPT !.fails = @ + 1] PROVE RefusalInv'
  BY <1>0, <1>4 DEF RefusalInv, NeverRefused
<1>5. ASSUME UNCHANGED errors,
             \E field \in {"edits", "fulls", "cli", "restarts"} :
               budget' = [budget EXCEPT ![field] = @ + 1]
      PROVE  RefusalInv'
  <2>1. /\ "fails" \in DOMAIN budget' /\ budget'.fails = budget.fails
        /\ budget'.cli = 0 => budget.cli = 0
    BY <1>5 DEF RefusalInv, EdgesInv, OriginInv
  <2>2. QED
    BY <1>0, <1>5, <2>1 DEF RefusalInv, NeverRefused
<1>6. CASE IndexAll \/ CliIndex \/ CliClear \/ UNCHANGED vars
  BY <1>1, <1>6 DEF IndexAll, CliIndex, CliClear, vars
<1>7. CASE CliScan \/ Restart \/ RequestFull
  BY <1>5, <1>7 DEF CliScan, Restart, RequestFull
<1>8. ASSUME NEW f \in Files, Edit(f) PROVE RefusalInv'
  BY <1>5, <1>8 DEF Edit
<1>9. QED
  BY <1>2, <1>3, <1>4, <1>6, <1>7, <1>8 DEF Next, IndexFileFails, IndexAllFails

(* As long as no other process rebuilds the database and nothing else      *)
(* fails, the foreign keys accept every transaction, whatever was edited   *)
(* in which order.                                                         *)
THEOREM NeverRefusedAnywhere == Spec => []NeverRefused
<1>1. Init => RefusalInv
  BY InitEdges DEF Init, RefusalInv, NeverRefused
<1>2. RefusalInv /\ [Next]_vars => RefusalInv'
  BY NextKeepsRefusal
<1>3. RefusalInv => NeverRefused
  BY DEF RefusalInv
<1>4. QED
  BY <1>1, <1>2, <1>3, PTL DEF Spec

-----------------------------------------------------------------------------
(* CallSitesMatch.                                                         *)

Place(c) == <<c.caller[3], c.line, c.name>>

Places(rows) == {Place(c) : c \in rows}

(* The calls inside the functions of a source.                             *)
Wanted(s) == {<<c.in, c.line, c.callee>> : c \in {x \in Elements(s.calls) : x.in # 0}}

Current(f) == Places(OfFile(db.calls, f)) = Wanted(disk[f])

LEMMA CallRowsPlaces ==
  ASSUME NEW r, NEW f, NEW s, NEW g
  PROVE  Places(CallRows(r, f, s, g)) = Wanted(s)
<1>1. ASSUME NEW e \in CallRows(r, f, s, g) PROVE Place(e) \in Wanted(s)
  <2>1. PICK c \in Elements(s.calls) :
          c.in # 0 /\ e.caller = <<g, f, c.in>> /\ e.name = c.callee /\ e.line = c.line
    BY NewRow
  <2>2. Place(e) = <<c.in, c.line, c.callee>>
    BY <2>1 DEF Place
  <2>3. QED
    BY <2>1, <2>2 DEF Wanted
<1>2. ASSUME NEW c \in Elements(s.calls), c.in # 0
      PROVE  \E e \in CallRows(r, f, s, g) : Place(e) = <<c.in, c.line, c.callee>>
  <2> DEFINE res == ResolveCall(r, c, Scope[f], f)
             e == Row(f, g, c, res.callee, res.marker)
  <2>1. e \in CallRows(r, f, s, g)
    BY <1>2 DEF CallRows
  <2>2. Place(e) = <<c.in, c.line, c.callee>>
    <3> HIDE DEF res
    <3> QED BY DEF Place, Row
  <2>3. QED
    BY <2>1, <2>2
<1>3. QED
  BY <1>1, <1>2 DEF Places, Wanted

(* The transaction of f brings the rows of f up to date and leaves those   *)
(* of the other files where they are.                                      *)
LEMMA LinkedPlaces ==
  ASSUME HasTables(db), RowsOK, EdgesAreSound, NEW f
  PROVE  /\ Places(OfFile(Linked(f).calls, f)) = Wanted(disk[f])
         /\ \A g : g # f => Places(OfFile(Linked(f).calls, g)) = Places(OfFile(db.calls, g))
<1> DEFINE r == ResolverForIndexFile(f)
           new == CallRows(r, f, disk[f], gen)
           moved(c) == Relinked(r, Unlinked(c, f))
           calls == Linked(f).calls
<1>1. calls = {moved(c) : c \in OfOthers(db.calls, f)} \cup new
  BY LinkedCalls
<1>2. ASSUME NEW c \in OfOthers(db.calls, f)
      PROVE  moved(c).file = c.file /\ c.file # f /\ Place(moved(c)) = Place(c)
  <2>1. c \in db.calls /\ c.file # f
    BY DEF OfOthers
  <2>2. RowOK(c) /\ Sound(c, db)
    BY <2>1, SoundRows DEF RowsOK
  <2>3. SamePlace(moved(c), c)
    BY <2>2, OldRow
  <2> HIDE DEF moved
  <2>4. QED
    BY <2>1, <2>3 DEF SamePlace, Place
<1>3. \A e \in new : e.file = f
  BY NewRow
<1>4. Places(new) = Wanted(disk[f])
  BY CallRowsPlaces
<1> HIDE DEF r, new, moved, calls
<1>5. OfFile(calls, f) = new
  BY <1>1, <1>2, <1>3 DEF OfFile
<1>6. ASSUME NEW g, g # f
      PROVE  Places(OfFile(calls, g)) = Places(OfFile(db.calls, g))
  <2>1. OfFile(calls, g) = {moved(c) : c \in OfFile(db.calls, g)}
    BY <1>1, <1>2, <1>3, <1>6 DEF OfFile, OfOthers
  <2>2. \A c \in OfFile(db.calls, g) : Place(moved(c)) = Place(c)
    BY <1>2, <1>6 DEF OfFile, OfOthers
  <2>3. QED
    BY <2>1, <2>2 DEF Places
<1>7. QED
  BY <1>4, <1>5, <1>6 DEF calls

(* A rebuild leaves the rows of the scanned files, and no others.          *)
LEMMA RebuiltPlaces ==
  ASSUME NEW d, NEW scanned, NEW f
  PROVE  Places(OfFile(Rebuilt(d, scanned).calls, f)) = IF f \in scanned THEN Wanted(disk[f]) ELSE {}
<1> DEFINE calls == Rebuilt(d, scanned).calls
<1>1. PICK r : calls = UNION {CallRows(r, g, disk[g], gen) : g \in scanned}
  BY RebuiltRows
<1>2. \A g : \A e \in CallRows(r, g, disk[g], gen) : e.file = g
  BY NewRow
<1> HIDE DEF calls
<1>3. CASE f \in scanned
  <2>1. OfFile(calls, f) = CallRows(r, f, disk[f], gen)
    BY <1>1, <1>2, <1>3 DEF OfFile
  <2>2. QED
    BY <1>3, <2>1, CallRowsPlaces DEF calls
<1>4. CASE f \notin scanned
  <2>1. OfFile(calls, f) = {}
    BY <1>1, <1>2, <1>4 DEF OfFile
  <2>2. QED
    BY <1>4, <2>1 DEF Places, calls
<1>5. QED
  BY <1>3, <1>4

LEMMA AbsentWantsNothing == Wanted(Absent) = {}
<1>1. Elements(Absent.calls) = {}
  BY DEF Elements, Absent
<1>2. QED
  BY <1>1 DEF Wanted

(* The files that something is still to be done about.  Between the        *)
(* transaction of an index command and its last statement, a recorded      *)
(* error counts only if it is of a request that failed in between: the     *)
(* transaction has made up for the others.                                 *)
Outstanding ==
  queue \cup missed \cup (IF cli.stage = "indexed" THEN cli.failed \cap errors ELSE errors)

SitesInv ==
  /\ EdgesInv
  /\ \A f \in Files : f \notin Outstanding => Current(f)

LEMMA IndexFileKeepsSites ==
  ASSUME SitesInv, NEW f \in Files, IndexFile(f), NEW g \in Files, g \notin Outstanding'
  PROVE  Current(g)'
<1>1. /\ db' = Linked(f) /\ disk' = disk
      /\ queue' = queue \ {f} /\ missed' = missed \ {f} /\ errors' = errors \ {f} /\ cli' = cli
  BY DEF IndexFile
<1>2. /\ Places(OfFile(db'.calls, f)) = Wanted(disk[f])
      /\ \A h : h # f => Places(OfFile(db'.calls, h)) = Places(OfFile(db.calls, h))
  BY <1>1, LinkedPlaces DEF SitesInv, EdgesInv
<1>3. CASE g = f
  BY <1>1, <1>2, <1>3 DEF Current
<1>4. CASE g # f
  <2>1. g \notin Outstanding
    BY <1>1, <1>4 DEF Outstanding
  <2>2. QED
    BY <1>1, <1>2, <1>4, <2>1 DEF Current, SitesInv
<1>5. QED
  BY <1>3, <1>4

LEMMA CliIndexKeepsSites ==
  ASSUME SitesInv, CliIndex, NEW g \in Files, g \notin Outstanding'
  PROVE  Current(g)'
<1>1. /\ db' = Rebuilt(db, cli.files) /\ disk' = disk
      /\ missed' = {f \in Files \ cli.files : disk[f] # Absent}
  BY DEF CliIndex
<1>2. Places(OfFile(db'.calls, g)) = IF g \in cli.files THEN Wanted(disk[g]) ELSE {}
  BY <1>1, RebuiltPlaces
<1>3. CASE g \in cli.files
  BY <1>1, <1>2, <1>3 DEF Current
<1>4. CASE g \notin cli.files
  <2>1. disk[g] = Absent
    BY <1>1, <1>4 DEF Outstanding
  <2>2. QED
    BY <1>1, <1>2, <1>4, <2>1, AbsentWantsNothing DEF Current
<1>5. QED
  BY <1>3, <1>4

LEMMA NextKeepsSites ==
  ASSUME SitesInv, [Next]_vars
  PROVE  SitesInv'
<1>0. EdgesInv'
  BY NextKeepsEdges DEF SitesInv
<1> SUFFICES ASSUME NEW g \in Files, g \notin Outstanding' PROVE Current(g)'
  BY <1>0 DEF SitesInv
<1>1. ASSUME NEW f \in Files, IndexFile(f) PROVE Current(g)'
  BY <1>1, IndexFileKeepsSites
<1>2. ASSUME g \notin Outstanding, UNCHANGED <<db, disk[g]>> PROVE Current(g)'
  BY <1>2 DEF SitesInv, Current
<1>3. ASSUME NEW f, RollBack(f) PROVE Current(g)'
  <2>1. g \notin Outstanding
    <3>1. CASE cli.stage = "indexed"
      <4>1. cli'.stage = "indexed" /\ cli'.failed = cli.failed \cup {f}
        BY <1>3, <3>1 DEF RollBack, SitesInv, EdgesInv, CliOK
      <4>2. QED
        BY <1>3, <3>1, <4>1 DEF RollBack, Outstanding
    <3>2. CASE cli.stage # "indexed"
      BY <1>3, <3>2 DEF RollBack, Outstanding
    <3>3. QED
      BY <3>1, <3>2
  <2>2. QED
    BY <1>2, <1>3, <2>1 DEF RollBack
<1>4. ASSUME NEW f \in Files, Edit(f) PROVE Current(g)'
  <2>1. g # f /\ g \notin Outstanding
    BY <1>4 DEF Edit, Outstanding
  <2>2. disk'[g] = disk[g]
    BY <1>4, <2>1 DEF Edit, SitesInv, EdgesInv, DiskOK
  <2>3. QED
    BY <1>2, <1>4, <2>1, <2>2 DEF Edit
<1>5. CASE IndexAll
  <2>1. db' = Rebuilt(db, Files) /\ disk' = disk
    BY <1>5 DEF IndexAll
  <2>2. QED
    BY <2>1, RebuiltPlaces DEF Current
<1>6. CASE CliIndex
  BY <1>6, CliIndexKeepsSites
<1>7. CASE CliScan
  <2>1. cli.stage = "none" /\ cli'.stage = "scanned"
    BY <1>7 DEF CliScan, NoCli
  <2>2. g \notin Outstanding
    BY <1>7, <2>1 DEF CliScan, Outstanding
  <2>3. QED
    BY <1>2, <1>7, <2>2 DEF CliScan
<1>8. CASE CliClear
  <2>1. g \notin Outstanding
    BY <1>8 DEF CliClear, Outstanding
  <2>2. QED
    BY <1>2, <1>8, <2>1 DEF CliClear
<1>9. CASE Restart \/ RequestFull \/ UNCHANGED vars
  <2>1. g \notin Outstanding
    BY <1>9 DEF Restart, RequestFull, vars, Outstanding
  <2>2. QED
    BY <1>2, <1>9, <2>1 DEF Restart, RequestFull, vars
<1>10. QED
  BY <1>1, <1>3, <1>4, <1>5, <1>6, <1>7, <1>8, <1>9
     DEF Next, IndexFileRefused, IndexFileFails, IndexAllFails

(* Whatever the worker, a restarted server and an index command of another *)
(* process do in which order: a file that nothing is outstanding about has *)
(* the rows of the calls it contains.                                      *)
THEOREM CallSitesAlwaysMatch == Spec => []CallSitesMatch
<1>1. Init => SitesInv
  <2>1. ASSUME Init PROVE \A f \in Files : Current(f)
    <3>1. db.calls = {} /\ \A f \in Files : disk[f] = Absent
      BY <2>1 DEF Init, EmptyDb
    <3>2. QED
      BY <3>1, AbsentWantsNothing DEF Current, Places, OfFile
  <2>2. QED
    BY <2>1, InitEdges DEF SitesInv
<1>2. SitesInv /\ [Next]_vars => SitesInv'
  BY NextKeepsSites
<1>3. SitesInv => CallSitesMatch
  <2> SUFFICES ASSUME SitesInv, NEW f \in Files, Settled(f) PROVE Current(f)
    BY DEF CallSitesMatch, Current, Places, Place, Wanted
  <2>1. f \notin Outstanding
    BY DEF Settled, Outstanding
  <2>2. QED
    BY <2>1 DEF SitesInv
<1>4. QED
  BY <1>1, <1>2, <1>3, PTL DEF Spec

-----------------------------------------------------------------------------
(* TypeOK.                                                                 *)

Requests == Files \cup {Full}

TypeInv ==
  /\ EdgesInv
  /\ TypeOK
  /\ cli.failed \subseteq Requests

LEMMA BaseRowsGen ==
  ASSUME NEW f, NEW s, NEW g, NEW x \in BaseRows(f, s, g)
  PROVE  x.gen = g
BY DEF BaseRows

(* A rebuild keeps the rows of class_bases and adds new ones.              *)
LEMMA RebuiltBases ==
  ASSUME NEW d, NEW scanned
  PROVE  Rebuilt(d, scanned).bases = d.bases \cup UNION {BaseRows(f, disk[f], gen) : f \in scanned}
<1> DEFINE base == [funcs |-> UNION {FuncRows(f, disk[f], gen) : f \in scanned},
                    facts |-> d.facts \cup UNION {FactRows(f, disk[f]) : f \in scanned},
                    classes |-> UNION {ClassRows(f, disk[f]) : f \in scanned},
                    bases |-> d.bases \cup UNION {BaseRows(f, disk[f], gen) : f \in scanned},
                    interfaces |-> UNION {InterfaceRows(f, disk[f]) : f \in scanned},
                    calls |-> {}]
           rows == UNION {CallRows(NewResolver(base), f, disk[f], gen) : f \in scanned}
<1>1. Rebuilt(d, scanned) = [base EXCEPT !.calls = rows]
  BY DEF Rebuilt
<1>2. base.bases = d.bases \cup UNION {BaseRows(f, disk[f], gen) : f \in scanned}
  OBVIOUS
<1>3. [base EXCEPT !.calls = rows].bases = base.bases
  <2> HIDE DEF base, rows
  <2> QED OBVIOUS
<1>4. QED
  BY <1>1, <1>2, <1>3

(* A transaction of generation gen keeps the generations in order.         *)
LEMMA GenerationsGrow ==
  ASSUME TypeInv, EdgesInv', gen' = gen + 1, UNCHANGED disk,
         \/ \E f \in Files : db' = Linked(f)
         \/ \E scanned \in SUBSET Files : db' = Rebuilt(db, scanned)
  PROVE  \A d \in db'.funcs \cup db'.bases : d.gen \in 1..gen' - 1
<1>1. \A d \in db'.funcs : d.gen \in 1..gen' - 1
  BY DEF EdgesInv, IdsInv
<1>2. \A d \in db.bases : d.gen \in 1..gen - 1
  BY DEF TypeInv, TypeOK
<1>3. gen \in Nat \ {0}
  BY DEF TypeInv, TypeOK
<1>4. \A d \in db'.bases : d \in db.bases \/ d.gen = gen
  <2>1. ASSUME NEW f \in Files, db' = Linked(f)
        PROVE  \A d \in db'.bases : d \in db.bases \/ d.gen = gen
    <3>1. db'.bases = OfOthers(db.bases, f) \cup BaseRows(f, disk[f], gen)
      BY <2>1, LinkedTables, InsertedTables DEF SameDefinitions, TypeInv, EdgesInv
    <3>2. QED
      BY <3>1, BaseRowsGen DEF OfOthers
  <2>2. ASSUME NEW scanned \in SUBSET Files, db' = Rebuilt(db, scanned)
        PROVE  \A d \in db'.bases : d \in db.bases \/ d.gen = gen
    BY <2>2, RebuiltBases, BaseRowsGen
  <2>3. QED
    BY <2>1, <2>2
<1>5. QED
  BY <1>1, <1>2, <1>3, <1>4

LEMMA NextKeepsType ==
  ASSUME TypeInv, [Next]_vars
  PROVE  TypeInv'
<1>0. EdgesInv'
  BY NextKeepsEdges DEF TypeInv
<1>1. /\ \A f \in Files : disk'[f] \in Sources[f] \cup {Absent}
      /\ gen' \in Nat \ {0} /\ DOMAIN db' = DOMAIN EmptyDb
  BY <1>0 DEF EdgesInv, DiskOK, IdsInv, HasTables, EmptyDb
<1>2. \A d \in db'.funcs \cup db'.bases : d.gen \in 1..gen' - 1
  <2>1. CASE UNCHANGED <<db, gen>>
    BY <2>1 DEF TypeInv, TypeOK
  <2>2. CASE \E f \in Files : IndexFile(f)
    BY <1>0, <2>2, GenerationsGrow DEF IndexFile
  <2>3. CASE IndexAll
    BY <1>0, <2>3, GenerationsGrow DEF IndexAll
  <2>4. CASE CliIndex
    BY <1>0, <2>4, GenerationsGrow DEF CliIndex, TypeInv, EdgesInv, CliOK
  <2>5. QED
    BY <2>1, <2>2, <2>3, <2>4
       DEF Next, vars, IndexFileRefused, IndexFileFails, IndexAllFails, RollBack, Edit,
           Restart, RequestFull, CliScan, CliClear
<1>3. queue' \subseteq Requests /\ errors' \subseteq Requests
  BY DEF Next, vars, IndexFile, IndexFileRefused, IndexFileFails, IndexAll, IndexAllFails, RollBack,
         Edit, Restart, RequestFull, CliScan, CliIndex, CliClear, TypeInv, TypeOK, Requests
<1>4. missed' \subseteq Requests
  BY DEF Next, vars, IndexFile, IndexFileRefused, IndexFileFails, IndexAll, IndexAllFails, RollBack,
         Edit, Restart, RequestFull, CliScan, CliIndex, CliClear, TypeInv, TypeOK, Requests
<1>5. cli'.stage \in {"none", "scanned", "indexed"} /\ cli'.failed \subseteq Requests
  <2>1. CASE UNCHANGED cli
    BY <2>1 DEF TypeInv, TypeOK
  <2>2. ASSUME NEW f \in Requests, RollBack(f)
        PROVE  cli'.stage \in {"none", "scanned", "indexed"} /\ cli'.failed \subseteq Requests
    BY <2>2 DEF RollBack, TypeInv, TypeOK, EdgesInv, CliOK
  <2>3. CASE CliScan \/ CliIndex \/ CliClear
    <3>1. CASE CliScan
      BY <3>1 DEF CliScan, NoCli
    <3>2. CASE CliIndex
      BY <3>2 DEF CliIndex, NoCli
    <3>3. CASE CliClear
      BY <3>3 DEF CliClear, NoCli
    <3>4. QED
      BY <2>3, <3>1, <3>2, <3>3
  <2>4. QED
    BY <2>1, <2>2, <2>3
       DEF Next, vars, IndexFile, IndexFileRefused, IndexFileFails, IndexAll, IndexAllFails, Edit,
           Restart, RequestFull, Requests
<1>6. loose' \in BOOLEAN
  BY DEF Next, vars, IndexFile, Committed, IndexFileRefused, IndexFileFails, IndexAll, IndexAllFails,
         RollBack, Edit, Restart, RequestFull, CliScan, CliIndex, CliClear, TypeInv, TypeOK
<1>7. QED
  BY <1>0, <1>1, <1>2, <1>3, <1>4, <1>5, <1>6 DEF TypeInv, TypeOK, Requests

(* Every variable keeps its type, and the ids of the next transaction are  *)
(* new.                                                                    *)
THEOREM CallGraphTypeOK == Spec => []TypeOK
<1>1. Init => TypeInv
  <2> SUFFICES ASSUME Init PROVE TypeInv
    OBVIOUS
  <2>1. EdgesInv
    BY InitEdges
  <2>2. /\ \A f \in Files : disk[f] \in Sources[f] \cup {Absent}
        /\ DOMAIN db = DOMAIN EmptyDb /\ db.funcs = {} /\ db.bases = {}
        /\ gen = 1 /\ cli.stage = "none" /\ cli.failed = {}
    BY DEF Init, EmptyDb, NoCli
  <2>3. loose \in BOOLEAN
    BY DEF Init
  <2>4. QED
    BY <2>1, <2>2, <2>3 DEF Init, TypeInv, TypeOK
<1>2. TypeInv /\ [Next]_vars => TypeInv'
  BY NextKeepsType
<1>3. TypeInv => TypeOK
  BY DEF TypeInv
<1>4. QED
  BY <1>1, <1>2, <1>3, PTL DEF Spec
=============================================================================
