-------------------------- MODULE CallGraph_proofs --------------------------
(***************************************************************************)
(* Theorems about the call graph's transactions and the resolver that the  *)
(* worker keeps between them, for every set of files and every content.    *)
(***************************************************************************)
EXTENDS CallGraph, FiniteSetTheorems, TLAPS

(* "An interface name lives in one file" (removeFile, in resolver.go), and *)
(* so do the base classes of a class, of which the code says nothing.      *)
SingleDeclaration ==
  \A f, g \in Files : \A s \in Sources[f], t \in Sources[g] :
    /\ \A i \in s.interfaces, j \in t.interfaces : i.name = j.name => f = g
    /\ \A i \in DOMAIN s.bases, j \in DOMAIN t.bases :
         s.bases[i].class = t.bases[j].class => f = g

(* Database d has the six tables.                                          *)
HasTables(d) == DOMAIN d = {"funcs", "facts", "classes", "bases", "interfaces", "calls"}

(* Two rows for one interface or class name are rows of one file.          *)
DeclaredOnce(d) ==
  /\ \A i, j \in d.interfaces : i.name = j.name => i.file = j.file
  /\ \A x, y \in d.bases : x.class = y.class => x.file = y.file

-----------------------------------------------------------------------------
(* The resolver's tables.                                                  *)

(* A table without f's rows, and f's rows, make the table.                 *)
LEMMA RowsSplit ==
  ASSUME NEW old, NEW new, NEW f, OfOthers(new, f) = OfOthers(old, f)
  PROVE  OfOthers(old, f) \cup OfFile(new, f) = new
BY DEF OfOthers, OfFile

MethodsNamed(rows, n) == UNION {i.methods : i \in {j \in rows : j.name = n}}

LEMMA MethodsSplit ==
  ASSUME NEW old, NEW new, NEW f, NEW n, OfOthers(new, f) = OfOthers(old, f),
         \A i, j \in old : i.name = j.name => i.file = j.file
  PROVE  (IF \E i \in old : i.methods # {} /\ i.file = f /\ i.name = n
          THEN {} ELSE MethodsNamed(old, n))
           \cup MethodsNamed(OfFile(new, f), n)
         = MethodsNamed(new, n)
<1> DEFINE declares == \E i \in old : i.methods # {} /\ i.file = f /\ i.name = n
<1>1. ASSUME NEW i \in new, i.name = n, i.file # f
      PROVE  i \in old /\ ~declares
  <2>1. i \in OfOthers(old, f)
    BY <1>1 DEF OfOthers
  <2>2. QED
    BY <1>1, <2>1 DEF OfOthers
<1>2. ASSUME NEW i \in old, i.name = n, ~declares, i.methods # {}
      PROVE  i \in new
  <2>1. i \in OfOthers(old, f)
    BY <1>2 DEF OfOthers
  <2>2. QED
    BY <2>1 DEF OfOthers
<1>3. ASSUME NEW m \in MethodsNamed(new, n)
      PROVE  \/ ~declares /\ m \in MethodsNamed(old, n)
             \/ m \in MethodsNamed(OfFile(new, f), n)
  <2>1. PICK i \in new : i.name = n /\ m \in i.methods
    BY <1>3 DEF MethodsNamed
  <2>2. CASE i.file = f
    BY <2>1, <2>2 DEF MethodsNamed, OfFile
  <2>3. CASE i.file # f
    BY <1>1, <2>1, <2>3 DEF MethodsNamed
  <2>4. QED
    BY <2>2, <2>3
<1>4. ASSUME NEW m \in MethodsNamed(old, n), ~declares
      PROVE  m \in MethodsNamed(new, n)
  <2>1. PICK i \in old : i.name = n /\ m \in i.methods
    BY <1>4 DEF MethodsNamed
  <2>2. i \in new
    BY <1>2, <1>4, <2>1
  <2>3. QED
    BY <2>1, <2>2 DEF MethodsNamed
<1>5. MethodsNamed(OfFile(new, f), n) \subseteq MethodsNamed(new, n)
  BY DEF MethodsNamed, OfFile
<1>6. QED
  BY <1>3, <1>4, <1>5

(* If every class has its bases in one file, counting them off from the    *)
(* front removes the rows of that file.                                    *)
LEMMA BasesSplit ==
  ASSUME NEW old, IsFiniteSet(old), NEW f, NEW r, r.bases = old, r.fileBases = old,
         \A x, y \in old : x.class = y.class => x.file = y.file
  PROVE  RemainingBases(r, f) = OfOthers(old, f)
<1> DEFINE own(x) == {y \in OfFile(old, f) : SameBase(x, y)}
           upTo(x) == {y \in old : SameBase(x, y) /\ (y = x \/ Earlier(y, x))}
<1>1. \A x \in old : /\ IsFiniteSet(own(x)) /\ Cardinality(own(x)) \in Nat
                    /\ IsFiniteSet(upTo(x)) /\ Cardinality(upTo(x)) \in Nat
  <2> TAKE x \in old
  <2>1. own(x) \in SUBSET old /\ upTo(x) \in SUBSET old
    BY DEF OfFile
  <2> HIDE DEF own, upTo
  <2>2. QED
    BY <2>1, FS_Subset, FS_CardinalityType
<1>2. ASSUME NEW x \in old, x.file = f
      PROVE  ~(Cardinality(own(x)) < Cardinality(upTo(x)))
  <2>1. upTo(x) \in SUBSET own(x)
    BY <1>2 DEF OfFile, SameBase
  <2> HIDE DEF own, upTo
  <2>2. Cardinality(upTo(x)) <= Cardinality(own(x))
    BY <1>1, <2>1, FS_Subset
  <2>3. QED
    BY <1>1, <2>2
<1>3. ASSUME NEW x \in old, x.file # f
      PROVE  Cardinality(own(x)) < Cardinality(upTo(x))
  <2>1. own(x) = {}
    BY <1>3 DEF OfFile, SameBase
  <2>2. x \in upTo(x)
    BY DEF SameBase
  <2> HIDE DEF own, upTo
  <2>3. Cardinality(own(x)) = 0
    BY <2>1, FS_EmptySet
  <2>4. Cardinality(upTo(x)) # 0
    BY <1>1, <2>2, FS_EmptySet
  <2>5. QED
    BY <1>1, <2>3, <2>4
<1>4. RemainingBases(r, f) = {x \in old : Cardinality(own(x)) < Cardinality(upTo(x))}
  BY DEF RemainingBases
<1>5. QED
  <2> HIDE DEF own, upTo
  <2> QED BY <1>2, <1>3, <1>4 DEF OfOthers

(* removeFile followed by addFileFromDB: if only f's rows have changed and *)
(* every interface was declared in one file, the result is what a scan of  *)
(* the whole database would build.                                         *)
LEMMA DeltaIsExact ==
  ASSUME NEW old, NEW new, NEW f, DeclaredOnce(old), IsFiniteSet(old.bases),
         OfOthers(new.funcs, f) = OfOthers(old.funcs, f),
         OfOthers(new.facts, f) = OfOthers(old.facts, f),
         OfOthers(new.classes, f) = OfOthers(old.classes, f),
         OfOthers(new.bases, f) = OfOthers(old.bases, f),
         OfOthers(new.interfaces, f) = OfOthers(old.interfaces, f)
  PROVE  AddFile(RemoveFile(NewResolver(old), f), new, f) = NewResolver(new)
<1> DEFINE r == NewResolver(old)
           a == AddFile(RemoveFile(r, f), new, f)
           declaring(rows) == {j \in rows : j.methods # {}}
           mine == OfFile(new.interfaces, f)
<1>1. /\ a.defs = new.funcs
      /\ a.facts = new.facts
      /\ a.classes = new.classes
  <2>1. r.defs = old.funcs /\ r.facts = old.facts /\ r.classes = old.classes
    BY DEF NewResolver
  <2>2. /\ a.defs = OfOthers(r.defs, f) \cup OfFile(new.funcs, f)
        /\ a.facts = OfOthers(r.facts, f) \cup OfFile(new.facts, f)
        /\ a.classes = OfOthers(r.classes, f) \cup OfFile(new.classes, f)
    BY DEF AddFile, RemoveFile
  <2>3. QED
    <3> HIDE DEF r, a
    <3> QED BY <2>1, <2>2, RowsSplit
<1>b. a.bases = new.bases /\ a.fileBases = new.bases
  <2>1. r.bases = old.bases /\ r.fileBases = old.bases
    BY DEF NewResolver
  <2>2. RemainingBases(r, f) = OfOthers(old.bases, f)
    <3> HIDE DEF r
    <3> QED BY <2>1, BasesSplit DEF DeclaredOnce
  <2>3. /\ a.bases = RemainingBases(r, f) \cup OfFile(new.bases, f)
        /\ a.fileBases = OfOthers(r.fileBases, f) \cup OfFile(new.bases, f)
    BY DEF AddFile, RemoveFile
  <2>4. QED
    <3> HIDE DEF r, a
    <3> QED BY <2>1, <2>2, <2>3, RowsSplit
<1>2. r.declares = {<<i.file, i.name>> : i \in declaring(old.interfaces)}
  BY DEF NewResolver
<1>3. \A n : <<f, n>> \in r.declares
               <=> \E i \in old.interfaces : i.methods # {} /\ i.file = f /\ i.name = n
  BY <1>2
<1>4. \A n \in InterfaceNames : a.methods[n] = MethodsNamed(new.interfaces, n)
  <2> TAKE n \in InterfaceNames
  <2>1. r.methods[n] = MethodsNamed(old.interfaces, n)
    BY DEF NewResolver, MethodsNamed
  <2>2. a.methods[n] = (IF <<f, n>> \in r.declares THEN {} ELSE r.methods[n])
                         \cup MethodsNamed(mine, n)
    BY DEF AddFile, RemoveFile, MethodsNamed
  <2>3. (IF \E i \in old.interfaces : i.methods # {} /\ i.file = f /\ i.name = n
         THEN {} ELSE MethodsNamed(old.interfaces, n)) \cup MethodsNamed(mine, n)
        = MethodsNamed(new.interfaces, n)
    BY MethodsSplit DEF DeclaredOnce
  <2>4. QED
    BY <1>3, <2>1, <2>2, <2>3
<1>5. a.declares = {p \in r.declares : p[1] # f}
                     \cup {<<f, i.name>> : i \in declaring(mine)}
  BY DEF AddFile, RemoveFile
<1>6. a.declares = {<<i.file, i.name>> : i \in declaring(new.interfaces)}
  <2>1. {p \in r.declares : p[1] # f}
          = {<<i.file, i.name>> : i \in {j \in declaring(new.interfaces) : j.file # f}}
    <3>1. {j \in declaring(new.interfaces) : j.file # f}
            = {j \in declaring(old.interfaces) : j.file # f}
      BY DEF OfOthers
    <3>2. QED
      BY <1>2, <3>1
  <2>2. {<<f, i.name>> : i \in declaring(mine)}
          = {<<i.file, i.name>> : i \in {j \in declaring(new.interfaces) : j.file = f}}
    BY DEF OfFile
  <2>3. QED
    BY <1>5, <2>1, <2>2
<1>7. a = [defs |-> new.funcs, facts |-> new.facts, classes |-> new.classes,
           bases |-> new.bases, fileBases |-> new.bases,
           methods |-> [n \in InterfaceNames |-> MethodsNamed(new.interfaces, n)],
           declares |-> {<<i.file, i.name>> : i \in declaring(new.interfaces)}]
  <2>1. a = [defs |-> a.defs, facts |-> a.facts, classes |-> a.classes,
             bases |-> a.bases, fileBases |-> a.fileBases,
             methods |-> a.methods, declares |-> a.declares]
    BY DEF AddFile
  <2>2. a.methods = [n \in InterfaceNames |-> a.methods[n]]
    BY DEF AddFile
  <2>3. a.methods = [n \in InterfaceNames |-> MethodsNamed(new.interfaces, n)]
    BY <1>4, <2>2
  <2>4. QED
    BY <1>1, <1>b, <1>6, <2>1, <2>3
<1>8. QED
  BY <1>7 DEF NewResolver, MethodsNamed

-----------------------------------------------------------------------------
(* What transactions make of the tables.                                   *)

(* Every interface and every base class in d is declared by a content that *)
(* its file may have.                                                      *)
Sourced(d) ==
  /\ \A i \in d.interfaces :
       i.file \in Files /\ \E s \in Sources[i.file] : \E k \in s.interfaces : k.name = i.name
  /\ \A x \in d.bases :
       x.file \in Files /\ \E s \in Sources[x.file] :
                            \E i \in DOMAIN s.bases : s.bases[i].class = x.class

LEMMA SourcedOnce ==
  ASSUME SingleDeclaration, NEW d, Sourced(d)
  PROVE  DeclaredOnce(d)
BY DEF SingleDeclaration, Sourced, DeclaredOnce

DiskOK == /\ disk = [f \in Files |-> disk[f]]
          /\ \A f \in Files : disk[f] \in Sources[f] \cup {Absent}

(* Databases that differ at most in their calls.                           *)
SameDefinitions(d, e) ==
  /\ HasTables(e)
  /\ e.funcs = d.funcs
  /\ e.facts = d.facts
  /\ e.classes = d.classes
  /\ e.bases = d.bases
  /\ e.interfaces = d.interfaces

LEMMA CallsOnly ==
  ASSUME NEW d, HasTables(d), NEW c
  PROVE  SameDefinitions(d, [d EXCEPT !.calls = c])
BY DEF SameDefinitions, HasTables

LEMMA InsertedTables ==
  ASSUME HasTables(db), NEW f
  PROVE  /\ HasTables(Inserted(f))
         /\ Inserted(f).funcs = OfOthers(db.funcs, f) \cup FuncRows(f, disk[f], gen)
         /\ Inserted(f).facts = OfOthers(db.facts, f) \cup FactRows(f, disk[f])
         /\ Inserted(f).classes = OfOthers(db.classes, f) \cup ClassRows(f, disk[f])
         /\ Inserted(f).bases = OfOthers(db.bases, f) \cup BaseRows(f, disk[f], gen)
         /\ Inserted(f).interfaces = OfOthers(db.interfaces, f) \cup InterfaceRows(f, disk[f])
<1> DEFINE d1 == Unlink(db, f)
           d2 == DeleteCalls(d1, f)
           d3 == DeleteDefinitions(d2, f)
           d4 == InsertDefinitions(d3, f, disk[f], gen)
<1>1. SameDefinitions(db, d1)
  BY CallsOnly DEF Unlink
<1>2. SameDefinitions(d1, d2)
  <2>1. HasTables(d1)
    BY <1>1 DEF SameDefinitions
  <2>2. QED
    <3> HIDE DEF d1
    <3> QED BY <2>1, CallsOnly DEF DeleteCalls
<1>3. /\ HasTables(d3)
      /\ d3.funcs = OfOthers(d2.funcs, f)
      /\ d3.facts = OfOthers(d2.facts, f)
      /\ d3.classes = OfOthers(d2.classes, f)
      /\ d3.bases = OfOthers(d2.bases, f)
      /\ d3.interfaces = OfOthers(d2.interfaces, f)
  <2>1. HasTables(d2)
    BY <1>2 DEF SameDefinitions
  <2>2. d3 = [d2 EXCEPT !.funcs = OfOthers(d2.funcs, f), !.facts = OfOthers(d2.facts, f),
                        !.classes = OfOthers(d2.classes, f),
                        !.bases = OfOthers(d2.bases, f),
                        !.interfaces = OfOthers(d2.interfaces, f)]
    BY <2>1 DEF DeleteDefinitions, HasTables
  <2>3. QED
    <3> HIDE DEF d2, d3
    <3>1. HasTables(d3)
      BY <2>1, <2>2 DEF HasTables
    <3>2. d3.funcs = OfOthers(d2.funcs, f) /\ d3.facts = OfOthers(d2.facts, f)
      BY <2>1, <2>2 DEF HasTables
    <3>3. d3.classes = OfOthers(d2.classes, f) /\ d3.interfaces = OfOthers(d2.interfaces, f)
      BY <2>1, <2>2 DEF HasTables
    <3>4. d3.bases = OfOthers(d2.bases, f)
      BY <2>1, <2>2 DEF HasTables
    <3>5. QED
      BY <3>1, <3>2, <3>3, <3>4
<1>4. /\ HasTables(d4)
      /\ d4.funcs = d3.funcs \cup FuncRows(f, disk[f], gen)
      /\ d4.facts = d3.facts \cup FactRows(f, disk[f])
      /\ d4.classes = d3.classes \cup ClassRows(f, disk[f])
      /\ d4.bases = d3.bases \cup BaseRows(f, disk[f], gen)
      /\ d4.interfaces = d3.interfaces \cup InterfaceRows(f, disk[f])
  <2>1. d4 = [d3 EXCEPT !.funcs = d3.funcs \cup FuncRows(f, disk[f], gen),
                        !.facts = d3.facts \cup FactRows(f, disk[f]),
                        !.classes = d3.classes \cup ClassRows(f, disk[f]),
                        !.bases = d3.bases \cup BaseRows(f, disk[f], gen),
                        !.interfaces = d3.interfaces \cup InterfaceRows(f, disk[f])]
    <3> HIDE DEF d3
    <3> QED BY <1>3 DEF InsertDefinitions, HasTables
  <2>2. QED
    <3> HIDE DEF d3, d4
    <3>1. HasTables(d4)
      BY <1>3, <2>1 DEF HasTables
    <3>2. /\ d4.funcs = d3.funcs \cup FuncRows(f, disk[f], gen)
          /\ d4.facts = d3.facts \cup FactRows(f, disk[f])
      BY <1>3, <2>1 DEF HasTables
    <3>3. /\ d4.classes = d3.classes \cup ClassRows(f, disk[f])
          /\ d4.interfaces = d3.interfaces \cup InterfaceRows(f, disk[f])
      BY <1>3, <2>1 DEF HasTables
    <3>4. d4.bases = d3.bases \cup BaseRows(f, disk[f], gen)
      BY <1>3, <2>1 DEF HasTables
    <3>5. QED
      BY <3>1, <3>2, <3>3, <3>4
<1>5. Inserted(f) = d4
  BY DEF Inserted, Deleted
<1>6. QED
  <2> HIDE DEF d1, d2, d3, d4
  <2> QED BY <1>1, <1>2, <1>3, <1>4, <1>5 DEF SameDefinitions

LEMMA LinkedTables ==
  ASSUME HasTables(db), NEW f
  PROVE  SameDefinitions(Inserted(f), Linked(f))
<1> DEFINE d == Inserted(f)
           r == ResolverForIndexFile(f)
           e == [d EXCEPT !.calls = @ \cup CallRows(r, f, disk[f], gen)]
<1>1. HasTables(d)
  BY InsertedTables
<1>2. SameDefinitions(d, e)
  <2> HIDE DEF d, r
  <2> QED BY <1>1, CallsOnly
<1>3. SameDefinitions(e, ReresolveStaleEdges(e, r))
  <2>1. HasTables(e)
    BY <1>2 DEF SameDefinitions
  <2>2. QED
    <3> HIDE DEF e, r
    <3> QED BY <2>1, CallsOnly DEF ReresolveStaleEdges
<1>4. Linked(f) = ReresolveStaleEdges(e, r)
  BY DEF Linked
<1>5. QED
  <2> HIDE DEF d, r, e
  <2>1. SameDefinitions(d, ReresolveStaleEdges(e, r))
    BY <1>2, <1>3 DEF SameDefinitions
  <2>2. QED
    BY <1>4, <2>1 DEF d

(* Only f's rows differ.                                                   *)
LEMMA OthersUntouched ==
  ASSUME HasTables(db), NEW f
  PROVE  /\ OfOthers(Inserted(f).funcs, f) = OfOthers(db.funcs, f)
         /\ OfOthers(Inserted(f).facts, f) = OfOthers(db.facts, f)
         /\ OfOthers(Inserted(f).classes, f) = OfOthers(db.classes, f)
         /\ OfOthers(Inserted(f).bases, f) = OfOthers(db.bases, f)
         /\ OfOthers(Inserted(f).interfaces, f) = OfOthers(db.interfaces, f)
<1>1. OfOthers(Inserted(f).funcs, f) = OfOthers(db.funcs, f)
  <2>1. \A x \in FuncRows(f, disk[f], gen) : x.file = f
    BY DEF FuncRows
  <2>2. Inserted(f).funcs = OfOthers(db.funcs, f) \cup FuncRows(f, disk[f], gen)
    BY InsertedTables
  <2>3. QED
    BY <2>1, <2>2 DEF OfOthers
<1>2. OfOthers(Inserted(f).facts, f) = OfOthers(db.facts, f)
  <2>1. \A x \in FactRows(f, disk[f]) : x.file = f
    BY DEF FactRows
  <2>2. Inserted(f).facts = OfOthers(db.facts, f) \cup FactRows(f, disk[f])
    BY InsertedTables
  <2>3. QED
    BY <2>1, <2>2 DEF OfOthers
<1>3. OfOthers(Inserted(f).classes, f) = OfOthers(db.classes, f)
  <2>1. \A x \in ClassRows(f, disk[f]) : x.file = f
    BY DEF ClassRows
  <2>2. Inserted(f).classes = OfOthers(db.classes, f) \cup ClassRows(f, disk[f])
    BY InsertedTables
  <2>3. QED
    BY <2>1, <2>2 DEF OfOthers
<1>4. OfOthers(Inserted(f).interfaces, f) = OfOthers(db.interfaces, f)
  <2>1. \A x \in InterfaceRows(f, disk[f]) : x.file = f
    BY DEF InterfaceRows
  <2>2. Inserted(f).interfaces = OfOthers(db.interfaces, f) \cup InterfaceRows(f, disk[f])
    BY InsertedTables
  <2>3. QED
    BY <2>1, <2>2 DEF OfOthers
<1>5. OfOthers(Inserted(f).bases, f) = OfOthers(db.bases, f)
  <2>1. \A x \in BaseRows(f, disk[f], gen) : x.file = f
    BY DEF BaseRows
  <2>2. Inserted(f).bases = OfOthers(db.bases, f) \cup BaseRows(f, disk[f], gen)
    BY InsertedTables
  <2>3. QED
    BY <2>1, <2>2 DEF OfOthers
<1>6. QED
  BY <1>1, <1>2, <1>3, <1>4, <1>5

(* The resolver that IndexFile links with is a scan of the transaction's   *)
(* tables, and of the tables it commits.                                   *)
LEMMA ResolverIsExact ==
  ASSUME HasTables(db), DeclaredOnce(db), IsFiniteSet(db.bases),
         cache # Cold => cache = NewResolver(db), NEW f
  PROVE  ResolverForIndexFile(f) = NewResolver(Linked(f))
<1>1. NewResolver(Linked(f)) = NewResolver(Inserted(f))
  BY LinkedTables DEF SameDefinitions, NewResolver
<1>2. CASE cache = Cold
  BY <1>1, <1>2 DEF ResolverForIndexFile
<1>3. CASE cache # Cold
  BY <1>1, <1>3, DeltaIsExact, OthersUntouched DEF ResolverForIndexFile
<1>4. QED
  BY <1>2, <1>3

LEMMA SourcedRows ==
  ASSUME DiskOK, NEW f \in Files, NEW i \in InterfaceRows(f, disk[f])
  PROVE  i.file = f /\ \E s \in Sources[f] : \E k \in s.interfaces : k.name = i.name
<1>1. PICK k \in disk[f].interfaces : i = [file |-> f, name |-> k.name, methods |-> k.methods]
  BY DEF InterfaceRows
<1>2. disk[f] # Absent
  BY <1>1 DEF Absent
<1>3. QED
  BY <1>1, <1>2 DEF DiskOK

LEMMA SourcedBaseRows ==
  ASSUME DiskOK, NEW f \in Files, NEW x \in BaseRows(f, disk[f], gen)
  PROVE  x.file = f /\ \E s \in Sources[f] : \E i \in DOMAIN s.bases : s.bases[i].class = x.class
<1>1. PICK i \in 1..Len(disk[f].bases) :
        x = [gen |-> gen, file |-> f, pos |-> i,
             class |-> disk[f].bases[i].class, base |-> disk[f].bases[i].base]
  BY DEF BaseRows
<1>2. disk[f] # Absent
  BY <1>1 DEF Absent
<1>3. disk[f] \in Sources[f]
  BY <1>2 DEF DiskOK
<1>4. i \in DOMAIN disk[f].bases
  BY <1>1, <1>3, BasesAssumption
<1>5. QED
  BY <1>1, <1>3, <1>4

(* There are finitely many files.                                          *)
LEMMA FilesFinite == IsFiniteSet(Files)
BY BoundAssumption

LEMMA FiniteImage ==
  ASSUME NEW S, IsFiniteSet(S), NEW f, f = [x \in S |-> f[x]]
  PROVE  IsFiniteSet({f[x] : x \in S})
<1> DEFINE T == {f[x] : x \in S}
<1>1. f \in Surjection(S, T)
  BY DEF Surjection
<1>2. QED
  <2>1. T = {f[x] : x \in S}
    OBVIOUS
  <2> HIDE DEF T
  <2>2. IsFiniteSet(T)
    BY <1>1, FS_Surjection
  <2>3. QED
    BY <2>1, <2>2

LEMMA FiniteBaseRows ==
  ASSUME DiskOK, NEW f \in Files
  PROVE  IsFiniteSet(BaseRows(f, disk[f], gen))
<1> DEFINE s == disk[f]
           row == [i \in 1..Len(s.bases) |->
                     [gen |-> gen, file |-> f, pos |-> i,
                      class |-> s.bases[i].class, base |-> s.bases[i].base]]
<1>1. Len(s.bases) \in Nat
  <2>1. CASE s = Absent
    BY <2>1 DEF Absent
  <2>2. CASE s \in Sources[f]
    BY <2>2, BasesAssumption
  <2>3. QED
    BY <2>1, <2>2 DEF DiskOK
<1>2. IsFiniteSet(1..Len(s.bases))
  BY <1>1, FS_Interval
<1>3. BaseRows(f, s, gen) = {row[i] : i \in 1..Len(s.bases)}
  BY DEF BaseRows
<1>4. row = [i \in 1..Len(s.bases) |-> row[i]]
  OBVIOUS
<1>5. QED
  <2> HIDE DEF row
  <2> QED BY <1>2, <1>3, <1>4, FiniteImage

-----------------------------------------------------------------------------
(* The cached resolver.                                                    *)

(* CacheMatchesDb speaks of lookups; the tables themselves are equal, as   *)
(* long as no interface or class name is declared in two files: replaying  *)
(* provenance is exact only then.                                          *)
CacheIsScan == budget.cli = 0 /\ cache # Cold => cache = NewResolver(db)

CacheInv ==
  /\ HasTables(db)
  /\ Sourced(db)
  /\ IsFiniteSet(db.bases)
  /\ DiskOK
  /\ budget = [edits |-> budget.edits, fulls |-> budget.fulls, fails |-> budget.fails,
               cli |-> budget.cli, restarts |-> budget.restarts]
  /\ budget.cli \in Nat
  /\ cli.stage # "none" => budget.cli > 0
  /\ cli.files \subseteq Files
  /\ cli = [stage |-> cli.stage, files |-> cli.files, failed |-> cli.failed]
  /\ CacheIsScan

LEMMA IndexFileKeepsCacheInv ==
  ASSUME SingleDeclaration, CacheInv, NEW f \in Files, IndexFile(f)
  PROVE  CacheInv'
<1> USE DEF CacheInv
<1>1. HasTables(db')
  BY LinkedTables DEF SameDefinitions, IndexFile
<1>2. Sourced(db')
  <2>1. /\ db'.interfaces = OfOthers(db.interfaces, f) \cup InterfaceRows(f, disk[f])
        /\ db'.bases = OfOthers(db.bases, f) \cup BaseRows(f, disk[f], gen)
    BY LinkedTables, InsertedTables DEF SameDefinitions, IndexFile
  <2>2. \A i \in db'.interfaces :
          i.file \in Files /\ \E s \in Sources[i.file] : \E k \in s.interfaces : k.name = i.name
    BY <2>1, SourcedRows DEF Sourced, OfOthers
  <2>3. \A x \in db'.bases :
          x.file \in Files /\ \E s \in Sources[x.file] :
                               \E i \in DOMAIN s.bases : s.bases[i].class = x.class
    BY <2>1, SourcedBaseRows DEF Sourced, OfOthers
  <2>4. QED
    BY <2>2, <2>3 DEF Sourced
<1>3. IsFiniteSet(db'.bases)
  <2>1. db'.bases = OfOthers(db.bases, f) \cup BaseRows(f, disk[f], gen)
    BY LinkedTables, InsertedTables DEF SameDefinitions, IndexFile
  <2>2. IsFiniteSet(OfOthers(db.bases, f))
    BY FS_Subset DEF OfOthers
  <2>3. QED
    BY <2>1, <2>2, FiniteBaseRows, FS_Union
<1>4. CacheIsScan'
  <2> SUFFICES ASSUME budget.cli = 0 PROVE cache' = NewResolver(db')
    BY DEF CacheIsScan, IndexFile
  <2>1. QED
    BY ResolverIsExact, SourcedOnce DEF CacheIsScan, IndexFile
<1>5. QED
  BY <1>1, <1>2, <1>3, <1>4 DEF IndexFile, DiskOK

LEMMA RebuildKeepsTables ==
  ASSUME DiskOK, HasTables(db), Sourced(db), IsFiniteSet(db.bases), NEW scanned \in SUBSET Files
  PROVE  /\ HasTables(Rebuilt(db, scanned))
         /\ Sourced(Rebuilt(db, scanned))
         /\ IsFiniteSet(Rebuilt(db, scanned).bases)
<1> DEFINE newBases == UNION {BaseRows(f, disk[f], gen) : f \in scanned}
           base == [funcs |-> UNION {FuncRows(f, disk[f], gen) : f \in scanned},
                    facts |-> db.facts \cup UNION {FactRows(f, disk[f]) : f \in scanned},
                    classes |-> UNION {ClassRows(f, disk[f]) : f \in scanned},
                    bases |-> db.bases \cup newBases,
                    interfaces |-> UNION {InterfaceRows(f, disk[f]) : f \in scanned},
                    calls |-> {}]
           c == UNION {CallRows(NewResolver(base), f, disk[f], gen) : f \in scanned}
<1>1. HasTables(base)
  BY DEF HasTables
<1>2. Rebuilt(db, scanned) = [base EXCEPT !.calls = c]
  BY DEF Rebuilt
<1>3. /\ base.interfaces = UNION {InterfaceRows(f, disk[f]) : f \in scanned}
      /\ base.bases = db.bases \cup newBases
  OBVIOUS
<1>4. /\ HasTables(Rebuilt(db, scanned))
      /\ Rebuilt(db, scanned).interfaces = UNION {InterfaceRows(f, disk[f]) : f \in scanned}
      /\ Rebuilt(db, scanned).bases = db.bases \cup newBases
  <2> HIDE DEF base, c
  <2> QED BY <1>1, <1>2, <1>3, CallsOnly DEF SameDefinitions
<1>5. Sourced(Rebuilt(db, scanned))
  <2>1. \A i \in Rebuilt(db, scanned).interfaces :
          i.file \in Files /\ \E s \in Sources[i.file] : \E k \in s.interfaces : k.name = i.name
    BY <1>4, SourcedRows
  <2>2. \A x \in newBases :
          x.file \in Files /\ \E s \in Sources[x.file] :
                               \E i \in DOMAIN s.bases : s.bases[i].class = x.class
    BY SourcedBaseRows
  <2>3. QED
    <3> HIDE DEF newBases
    <3> QED BY <1>4, <2>1, <2>2 DEF Sourced
<1>6. IsFiniteSet(newBases)
  <2> DEFINE rows == [f \in scanned |-> BaseRows(f, disk[f], gen)]
  <2>1. IsFiniteSet(scanned)
    BY FilesFinite, FS_Subset
  <2>2. rows = [f \in scanned |-> rows[f]]
    OBVIOUS
  <2>3. IsFiniteSet({rows[f] : f \in scanned})
    <3> HIDE DEF rows
    <3> QED BY <2>1, <2>2, FiniteImage
  <2>4. \A T \in {rows[f] : f \in scanned} : IsFiniteSet(T)
    BY FiniteBaseRows
  <2>5. newBases = UNION {rows[f] : f \in scanned}
    OBVIOUS
  <2>6. QED
    <3> HIDE DEF rows, newBases
    <3> QED BY <2>3, <2>4, <2>5, FS_UNION
<1>7. IsFiniteSet(Rebuilt(db, scanned).bases)
  <2> HIDE DEF newBases
  <2> QED BY <1>4, <1>6, FS_Union
<1>8. QED
  BY <1>4, <1>5, <1>7

(* Under the single-declaration assumption of removeFile, extended to      *)
(* classes with bases, and as long as no other process rebuilds the        *)
(* database, the resolver that the worker maintains by deltas is at every  *)
(* moment the one a full scan of the database would build: for every set   *)
(* of files and contents, any number of edits, deletions, failed           *)
(* transactions, full reindexes and restarts.                              *)
THEOREM CacheIsExact == ASSUME SingleDeclaration PROVE Spec => []CacheMatchesDb
<1>1. Init => CacheInv
  BY FS_EmptySet DEF Init, CacheInv, EmptyDb, HasTables, Sourced, DiskOK, CacheIsScan, NoCli
<1>2. CacheInv /\ [Next]_vars => CacheInv'
  <2> SUFFICES ASSUME CacheInv, [Next]_vars PROVE CacheInv'
    OBVIOUS
  <2>1. ASSUME NEW f \in Files, IndexFile(f) PROVE CacheInv'
    BY <2>1, SingleDeclaration, IndexFileKeepsCacheInv
  <2>2. ASSUME NEW f, RollBack(f), budget' = budget \/ budget' = [budget EXCEPT !.fails = @ + 1]
        PROVE CacheInv'
    BY <2>2 DEF CacheInv, RollBack, DiskOK, CacheIsScan
  <2>3. ASSUME NEW f \in Files, Edit(f) PROVE CacheInv'
    <3>1. DiskOK'
      BY <2>3 DEF CacheInv, Edit, DiskOK
    <3>2. QED
      BY <2>3, <3>1 DEF CacheInv, Edit, CacheIsScan
  <2>4. CASE IndexAll
    <3>1. HasTables(db') /\ Sourced(db') /\ IsFiniteSet(db'.bases)
      BY <2>4, RebuildKeepsTables DEF CacheInv, IndexAll
    <3>2. QED
      BY <2>4, <3>1 DEF CacheInv, IndexAll, DiskOK, CacheIsScan
  <2>5. CASE CliScan
    <3>1. /\ cli' = [stage |-> "scanned", files |-> {f \in Files : disk[f] # Absent},
                     failed |-> {}]
          /\ budget' = [budget EXCEPT !.cli = @ + 1]
          /\ UNCHANGED <<disk, db, cache>>
      BY <2>5 DEF CliScan, NoCli
    <3>2. /\ cli' = [stage |-> cli'.stage, files |-> cli'.files, failed |-> cli'.failed]
          /\ cli'.files \subseteq Files
      BY <3>1
    <3>3. /\ budget' = [edits |-> budget'.edits, fulls |-> budget'.fulls,
                        fails |-> budget'.fails, cli |-> budget'.cli,
                        restarts |-> budget'.restarts]
          /\ budget'.cli \in Nat /\ budget'.cli > 0
      BY <3>1 DEF CacheInv
    <3>4. QED
      BY <3>1, <3>2, <3>3 DEF CacheInv, DiskOK, CacheIsScan
  <2>6. CASE CliIndex
    <3>1. HasTables(db') /\ Sourced(db') /\ IsFiniteSet(db'.bases)
      BY <2>6, RebuildKeepsTables DEF CacheInv, CliIndex
    <3>2. QED
      BY <2>6, <3>1 DEF CacheInv, CliIndex, DiskOK, CacheIsScan, NoCli
  <2>7. CASE CliClear
    BY <2>7 DEF CacheInv, CliClear, DiskOK, CacheIsScan, NoCli
  <2>8. CASE Restart \/ RequestFull
    BY <2>8 DEF CacheInv, Restart, RequestFull, DiskOK, CacheIsScan
  <2>9. CASE UNCHANGED vars
    BY <2>9 DEF CacheInv, vars, DiskOK, CacheIsScan
  <2>10. QED
    BY <2>1, <2>2, <2>3, <2>4, <2>5, <2>6, <2>7, <2>8, <2>9
       DEF Next, IndexFileRefused, IndexFileFails, IndexAllFails
<1>3. CacheInv => CacheMatchesDb
  BY DEF CacheInv, CacheIsScan, CacheMatchesDb
<1>4. QED
  BY <1>1, <1>2, <1>3, PTL DEF Spec
=============================================================================
