--------------------------- MODULE Searches_proofs ---------------------------
(***************************************************************************)
(* Theorems about the searches of the call graph that a session makes, for *)
(* any graph, depth and limit, and whatever the worker commits between the *)
(* statements of a call: get_impact reports what concerns the change and   *)
(* the nearest of it, get_call_chain all that is within reach.             *)
(*                                                                         *)
(* The searches are defined by recursion over numbers and over the subsets *)
(* of the rows; the lemmas on both are here.                               *)
(***************************************************************************)
EXTENDS Session_proofs, WellFoundedInduction

-----------------------------------------------------------------------------
(* Induction and recursion over numbers and over the subsets of a finite   *)
(* set.                                                                    *)

(* Every nonempty set of numbers has a least one.                          *)
LEMMA NatMin ==
  ASSUME NEW T, T \subseteq Nat, T # {}
  PROVE  \E x \in T : \A y \in T : x <= y
<1> DEFINE R == {p \in Nat \X Nat : p[1] < p[2]}
<1>1. IsWellFoundedOn(R, Nat)
  BY NatLessThanWellFounded DEF OpToRel
<1>2. PICK x \in T : \A y \in T : ~(<<y, x>> \in R)
  <2> HIDE DEF R
  <2> QED BY <1>1, WFMin
<1>3. ASSUME NEW y \in T PROVE x <= y
  <2>1. <<y, x>> \in Nat \X Nat
    OBVIOUS
  <2>2. ~(<<y, x>>[1] < <<y, x>>[2])
    BY <1>2, <2>1
  <2>3. QED
    BY <2>2
<1>4. QED
  BY <1>3

(* Induction, for a set in the place of a predicate.                       *)
LEMMA NatSetInduction ==
  ASSUME NEW N, 0 \in N, \A n \in Nat : n \in N => n + 1 \in N
  PROVE  Nat \subseteq N
<1> SUFFICES ASSUME Nat \ N # {} PROVE FALSE
  OBVIOUS
<1>1. PICK x \in Nat \ N : \A y \in Nat \ N : x <= y
  BY NatMin
<1>2. x # 0 /\ x - 1 \in Nat
  BY <1>1
<1>3. x - 1 \in N
  BY <1>1, <1>2
<1>4. QED
  BY <1>1, <1>2, <1>3

(* The same, up to n.                                                      *)
LEMMA CountedInduction ==
  ASSUME NEW n \in Nat, NEW N, 0 \in N, \A k \in 1..n : k - 1 \in N => k \in N
  PROVE  0..n \subseteq N
<1> DEFINE M == {k \in Nat : k <= n => k \in N}
<1>1. Nat \subseteq M
  <2>1. 0 \in M
    OBVIOUS
  <2>2. ASSUME NEW k \in Nat, k \in M PROVE k + 1 \in M
    <3>1. CASE k + 1 <= n
      <4>1. k + 1 \in 1..n /\ (k + 1) - 1 = k /\ k \in N
        BY <2>2, <3>1
      <4>2. QED
        BY <4>1
    <3>2. CASE ~(k + 1 <= n)
      BY <3>2
    <3>3. QED
      BY <3>1, <3>2
  <2>3. QED
    <3> HIDE DEF M
    <3> QED BY <2>1, <2>2, NatSetInduction
<1>2. QED
  BY <1>1

(* A function on 0..n that is defined by recursion exists.                 *)
Ascends(n, V, a, step) ==
  n \in Nat /\ a \in V /\ \A k \in 1..n : \A v \in V : step[k][v] \in V

Counts(h, n, V, a, step) ==
  /\ h \in [0..n -> V]
  /\ h = [k \in 0..n |-> IF k = 0 THEN a ELSE step[k][h[k - 1]]]

(* Such a function exists for every first value and step.                  *)
LEMMA CountedRecursion ==
  ASSUME NEW n, NEW V, NEW a, NEW step, Ascends(n, V, a, step)
  PROVE  \E h : Counts(h, n, V, a, step)
<1> USE DEF Ascends
<1> DEFINE upTo(h, m) == \A k \in 0..m : h[k] = IF k = 0 THEN a ELSE step[k][h[k - 1]]
           N == {m \in Nat : m <= n => \E h \in [0..n -> V] : upTo(h, m)}
<1>1. 0 \in N
  <2> DEFINE h == [k \in 0..n |-> a]
  <2>1. h \in [0..n -> V] /\ upTo(h, 0)
    OBVIOUS
  <2>2. QED
    BY <2>1
<1>2. ASSUME NEW m \in Nat, m \in N PROVE m + 1 \in N
  <2> SUFFICES ASSUME m + 1 <= n PROVE \E h \in [0..n -> V] : upTo(h, m + 1)
    OBVIOUS
  <2>1. PICK h \in [0..n -> V] : upTo(h, m)
    BY <1>2
  <2> DEFINE g == [k \in 0..n |-> IF k = 0 THEN a ELSE step[k][h[k - 1]]]
  <2>2. g \in [0..n -> V]
    OBVIOUS
  <2>3. ASSUME NEW k \in 0..m + 1 PROVE g[k] = IF k = 0 THEN a ELSE step[k][g[k - 1]]
    <3>1. CASE k = 0
      BY <3>1
    <3>2. CASE k # 0
      <4>1. k \in 0..n /\ k - 1 \in 0..n /\ k - 1 \in 0..m
        BY <3>2
      <4>2. h[k - 1] = g[k - 1]
        BY <2>1, <4>1
      <4>3. QED
        BY <3>2, <4>1, <4>2
    <3>3. QED
      BY <3>1, <3>2
  <2>4. QED
    BY <2>2, <2>3
<1>3. n \in N
  <2> HIDE DEF N
  <2> QED BY <1>1, <1>2, NatSetInduction
<1>4. PICK h \in [0..n -> V] : upTo(h, n)
  BY <1>3
<1>5. h = [k \in 0..n |-> IF k = 0 THEN a ELSE step[k][h[k - 1]]]
  BY <1>4
<1>6. QED
  BY <1>5 DEF Counts

(* What holds of a set when it holds of its proper subsets holds of every  *)
(* finite one.                                                             *)
LEMMA SubsetInduction ==
  ASSUME NEW S, IsFiniteSet(S), NEW N,
         \A T \in SUBSET S : (\A U \in SUBSET T : U # T => U \in N) => T \in N
  PROVE  SUBSET S \subseteq N
<1> SUFFICES ASSUME NEW B \in SUBSET S, B \notin N PROVE FALSE
  OBVIOUS
<1> DEFINE sizes == {n \in Nat : \E T \in SUBSET S : T \notin N /\ Cardinality(T) = n}
<1>1. Cardinality(B) \in sizes
  BY FS_Subset, FS_CardinalityType
<1>2. PICK n \in sizes : \A m \in sizes : n <= m
  <2>1. sizes \subseteq Nat /\ sizes # {}
    BY <1>1
  <2> HIDE DEF sizes
  <2>2. QED
    BY <2>1, NatMin
<1>3. PICK T \in SUBSET S : T \notin N /\ Cardinality(T) = n
  BY <1>2
<1>4. ASSUME NEW U \in SUBSET T, U # T PROVE U \in N
  <2>1. IsFiniteSet(T) /\ IsFiniteSet(U) /\ Cardinality(U) <= Cardinality(T)
    BY FS_Subset
  <2>2. Cardinality(U) \in Nat /\ Cardinality(U) # n
    BY <1>3, <1>4, <2>1, FS_Subset, FS_CardinalityType
  <2>3. ~(n <= Cardinality(U))
    BY <1>2, <1>3, <2>1, <2>2
  <2>4. U \in SUBSET S
    OBVIOUS
  <2>5. QED
    BY <1>2, <2>2, <2>3, <2>4
<1>5. QED
  BY <1>3, <1>4

(* So does a function on the subsets that goes on with a smaller one until *)
(* it meets one to stop at.                                                *)
Descends(S, stops, rest, V, a, step) ==
  /\ IsFiniteSet(S) /\ {} \in stops
  /\ \A T \in SUBSET S : T \notin stops => rest[T] \in SUBSET T /\ rest[T] # T
  /\ a \in V
  /\ \A T \in SUBSET S : \A v \in V : T \notin stops => step[T][v] \in V

Recursive(h, S, stops, rest, V, a, step) ==
  /\ h \in [SUBSET S -> V]
  /\ h = [T \in SUBSET S |-> IF T \in stops THEN a ELSE step[T][h[rest[T]]]]

(* Such a function exists, too.                                            *)
LEMMA SubsetRecursion ==
  ASSUME NEW S, NEW stops, NEW rest, NEW V, NEW a, NEW step, Descends(S, stops, rest, V, a, step)
  PROVE  \E h : Recursive(h, S, stops, rest, V, a, step)
<1> USE DEF Descends
<1> DEFINE at(h, T) == h[T] = IF T \in stops THEN a ELSE step[T][h[rest[T]]]
           N == {n \in Nat : \E h \in [SUBSET S -> V] :
                   \A T \in SUBSET S : Cardinality(T) <= n => at(h, T)}
<1>0. ASSUME NEW T \in SUBSET S
      PROVE  /\ Cardinality(T) \in Nat
             /\ T \notin stops =>
                  /\ rest[T] \in SUBSET S
                  /\ Cardinality(rest[T]) \in Nat /\ Cardinality(rest[T]) < Cardinality(T)
  <2>1. IsFiniteSet(T) /\ Cardinality(T) \in Nat
    BY FS_Subset, FS_CardinalityType
  <2>2. ASSUME T \notin stops
        PROVE  /\ rest[T] \in SUBSET S
               /\ Cardinality(rest[T]) \in Nat /\ Cardinality(rest[T]) < Cardinality(T)
    <3>1. rest[T] \in SUBSET T /\ rest[T] # T
      BY <2>2
    <3>2. IsFiniteSet(rest[T]) /\ Cardinality(rest[T]) <= Cardinality(T)
          /\ Cardinality(rest[T]) # Cardinality(T)
      BY <2>1, <3>1, FS_Subset
    <3>3. Cardinality(rest[T]) \in Nat
      BY <3>2, FS_CardinalityType
    <3>4. QED
      BY <2>1, <3>1, <3>2, <3>3
  <2>3. QED
    BY <2>1, <2>2
<1>1. 0 \in N
  <2> DEFINE h == [T \in SUBSET S |-> a]
  <2>1. ASSUME NEW T \in SUBSET S, Cardinality(T) <= 0 PROVE at(h, T)
    <3>1. T = {}
      BY <1>0, <2>1, FS_Subset, FS_EmptySet
    <3>2. QED
      BY <3>1
  <2>2. h \in [SUBSET S -> V]
    OBVIOUS
  <2> HIDE DEF h
  <2>3. QED
    BY <2>1, <2>2
<1>2. ASSUME NEW n \in Nat, n \in N PROVE n + 1 \in N
  <2>1. PICK h \in [SUBSET S -> V] : \A T \in SUBSET S : Cardinality(T) <= n => at(h, T)
    BY <1>2
  <2> DEFINE g == [T \in SUBSET S |-> IF T \in stops THEN a ELSE step[T][h[rest[T]]]]
  <2>2. g \in [SUBSET S -> V]
    BY <1>0
  <2>3. ASSUME NEW T \in SUBSET S, Cardinality(T) <= n + 1 PROVE at(g, T)
    <3>1. CASE T \in stops
      BY <3>1
    <3>2. CASE T \notin stops
      <4>1. rest[T] \in SUBSET S /\ Cardinality(rest[T]) <= n
        BY <1>0, <2>3, <3>2
      <4>2. at(h, rest[T])
        BY <2>1, <4>1
      <4>3. g[rest[T]] = h[rest[T]]
        BY <4>1, <4>2
      <4>4. QED
        BY <3>2, <4>3
    <3>3. QED
      BY <3>1, <3>2
  <2> HIDE DEF g
  <2>4. QED
    BY <2>2, <2>3
<1>3. Cardinality(S) \in N
  <2>1. Cardinality(S) \in Nat
    BY FS_CardinalityType
  <2> HIDE DEF N
  <2>2. QED
    BY <1>1, <1>2, <2>1, NatSetInduction
<1>4. PICK h \in [SUBSET S -> V] : \A T \in SUBSET S : at(h, T)
  <2>1. PICK h \in [SUBSET S -> V] : \A T \in SUBSET S : Cardinality(T) <= Cardinality(S) => at(h, T)
    BY <1>3
  <2>2. \A T \in SUBSET S : Cardinality(T) <= Cardinality(S)
    BY FS_Subset
  <2>3. QED
    BY <2>1, <2>2
<1>5. h = [T \in SUBSET S |-> IF T \in stops THEN a ELSE step[T][h[rest[T]]]]
  BY <1>4
<1>6. QED
  BY <1>5 DEF Recursive

-----------------------------------------------------------------------------
(* Lists of rows.                                                          *)

(* Rows that ORDER BY depth, name can compare.                             *)
Sortable(rows) == \A x \in rows : x.depth \in Nat /\ NamePlace[x.name] \in Nat

(* FirstRow is one of the rows, and none comes before it.                  *)
LEMMA FirstRowIsFirst ==
  ASSUME NEW T, T # {}, Sortable(T)
  PROVE  FirstRow(T) \in T /\ \A y \in T : ~ByDepthAndName(y, FirstRow(T))
<1>1. PICK a \in T : \A y \in T : a.depth <= y.depth
  <2> DEFINE D == {x.depth : x \in T}
  <2>1. D \subseteq Nat /\ D # {}
    BY DEF Sortable
  <2>2. PICK m \in D : \A k \in D : m <= k
    <3> HIDE DEF D
    <3> QED BY <2>1, NatMin
  <2>3. QED
    BY <2>2
<1> DEFINE U == {x \in T : x.depth = a.depth}
           P == {NamePlace[x.name] : x \in U}
<1>2. PICK b \in U : \A y \in U : NamePlace[b.name] <= NamePlace[y.name]
  <2>1. P \subseteq Nat /\ P # {}
    BY DEF Sortable
  <2>2. PICK m \in P : \A k \in P : m <= k
    <3> HIDE DEF P
    <3> QED BY <2>1, NatMin
  <2>3. QED
    BY <2>2
<1>3. ASSUME NEW y \in T PROVE ~ByDepthAndName(y, b)
  <2>1. /\ y.depth \in Nat /\ b.depth \in Nat /\ a.depth \in Nat
        /\ NamePlace[y.name] \in Nat /\ NamePlace[b.name] \in Nat
    BY DEF Sortable
  <2>2. b.depth = a.depth /\ a.depth <= y.depth
    BY <1>1
  <2>3. y.depth = b.depth => NamePlace[b.name] <= NamePlace[y.name]
    BY <1>2, <2>2
  <2>4. QED
    BY <2>1, <2>2, <2>3 DEF ByDepthAndName
<1>4. \E x \in T : \A y \in T : ~ByDepthAndName(y, x)
  BY <1>3
<1>5. QED
  BY <1>4, Zenon DEF FirstRow

(* Ordered goes on with what is left of the rows.                          *)
Orders(from, rows, key) ==
  /\ from \in [SUBSET rows -> Seq(rows)]
  /\ Ordered(rows, key) = from[rows]
  /\ \A T \in SUBSET rows :
       from[T] = IF T = {} THEN <<>>
                 ELSE <<FirstRow(T)>> \o from[{x \in T : \E f \in key : x[f] # FirstRow(T)[f]}]

(* The recursive function in Ordered is defined.                           *)
LEMMA OrderedGoesOn ==
  ASSUME NEW rows, IsFiniteSet(rows), Sortable(rows), NEW key
  PROVE  \E from : Orders(from, rows, key)
<1> DEFINE left == [T \in SUBSET rows |-> {x \in T : \E f \in key : x[f] # FirstRow(T)[f]}]
           step == [T \in SUBSET rows |-> [s \in Seq(rows) |-> <<FirstRow(T)>> \o s]]
           body(h) == [T \in SUBSET rows |-> IF T \in {{}} THEN <<>> ELSE step[T][h[left[T]]]]
           real(h) == [T \in SUBSET rows |->
                         IF T = {} THEN <<>>
                         ELSE <<FirstRow(T)>> \o h[{x \in T : \E f \in key : x[f] # FirstRow(T)[f]}]]
<1>1. ASSUME NEW T \in SUBSET rows, T \notin {{}}
      PROVE  FirstRow(T) \in T /\ left[T] \in SUBSET T /\ left[T] # T
  <2>1. Sortable(T)
    BY DEF Sortable
  <2>2. FirstRow(T) \in T
    BY <1>1, <2>1, FirstRowIsFirst
  <2>3. QED
    BY <2>2
<1>2. ASSUME NEW T \in SUBSET rows, NEW s \in Seq(rows), T \notin {{}}
      PROVE  step[T][s] \in Seq(rows)
  <2>1. FirstRow(T) \in rows
    BY <1>1, <1>2
  <2>2. QED
    BY <2>1
<1>3. PICK h \in [SUBSET rows -> Seq(rows)] : h = body(h)
  <2> DEFINE stops == {{}}
             lists == Seq(rows)
  <2>1. <<>> \in lists /\ {} \in stops
    OBVIOUS
  <2>2. \A T \in SUBSET rows : T \notin stops => left[T] \in SUBSET T /\ left[T] # T
    BY <1>1
  <2>3. \A T \in SUBSET rows : \A s \in lists : T \notin stops => step[T][s] \in lists
    BY <1>2
  <2> HIDE DEF left, step, stops, lists
  <2>4. Descends(rows, stops, left, lists, <<>>, step)
    BY <2>1, <2>2, <2>3 DEF Descends
  <2>5. \E h : Recursive(h, rows, stops, left, lists, <<>>, step)
    BY <2>4, SubsetRecursion
  <2>6. QED
    BY <2>5 DEF Recursive, stops, lists
<1>4. body(h) = real(h)
  <2>1. ASSUME NEW T \in SUBSET rows, T # {}
        PROVE  step[T][h[left[T]]] = <<FirstRow(T)>> \o h[left[T]]
    <3>1. left[T] \in SUBSET rows
      BY <1>1, <2>1
    <3>2. h[left[T]] \in Seq(rows)
      BY <3>1
    <3>3. QED
      BY <3>2
  <2>2. ASSUME NEW T \in SUBSET rows
        PROVE  left[T] = {x \in T : \E f \in key : x[f] # FirstRow(T)[f]}
    OBVIOUS
  <2> HIDE DEF left, step
  <2>3. QED
    BY <2>1, <2>2
<1> HIDE DEF body
<1> DEFINE from == CHOOSE g : g = real(g)
<1>5. from = real(from)
  BY <1>3, <1>4, Zenon
<1>6. Ordered(rows, key) = from[rows]
  BY DEF Ordered
<1> HIDE DEF from
<1>7. from \in [SUBSET rows -> Seq(rows)]
  <2> DEFINE N == {T \in SUBSET rows : from[T] \in Seq(rows)}
  <2>1. ASSUME NEW T \in SUBSET rows, \A U \in SUBSET T : U # T => U \in N PROVE T \in N
    <3>1. CASE T = {}
      <4>1. from[T] = <<>> /\ <<>> \in Seq(rows)
        BY <1>5, <3>1
      <4>2. QED
        BY <4>1, Zenon
    <3>2. CASE T # {}
      <4>1. FirstRow(T) \in T /\ left[T] \in SUBSET T /\ left[T] # T
        BY <1>1, <3>2
      <4>2. from[left[T]] \in Seq(rows)
        BY <2>1, <4>1
      <4>3. from[T] = <<FirstRow(T)>> \o from[left[T]]
        BY <1>5, <3>2
      <4>4. <<FirstRow(T)>> \o from[left[T]] \in Seq(rows)
        BY <4>1, <4>2
      <4>5. QED
        BY <4>3, <4>4, Zenon
    <3>3. QED
      BY <3>1, <3>2
  <2>2. SUBSET rows \subseteq N
    <3> HIDE DEF N
    <3> QED BY <2>1, SubsetInduction
  <2>3. QED
    BY <1>5, <2>2
<1>8. QED
  BY <1>5, <1>6, <1>7 DEF Orders

(* Ordered lists each key once, and first what comes first.                *)
InOrder(s, key) ==
  \A i, j \in DOMAIN s :
    i < j => ~ByDepthAndName(s[j], s[i]) /\ \E f \in key : s[i][f] # s[j][f]

(* Entry i of s is there for row x, which has the same key.                *)
Stands(s, i, x, key) ==
  (\A f \in key : x[f] = s[i][f]) /\ ~ByDepthAndName(x, s[i])

(* What Ordered returns.                                                   *)
LEMMA OrderedRows ==
  ASSUME NEW rows, IsFiniteSet(rows), Sortable(rows), NEW key
  PROVE  LET s == Ordered(rows, key)
         IN  /\ s \in Seq(rows)
             /\ InOrder(s, key)
             /\ \A x \in rows : \E i \in DOMAIN s : Stands(s, i, x, key)
<1>0. PICK from : Orders(from, rows, key)
  BY OrderedGoesOn
<1>1. /\ from \in [SUBSET rows -> Seq(rows)]
      /\ Ordered(rows, key) = from[rows]
      /\ \A T \in SUBSET rows :
           from[T] = IF T = {} THEN <<>>
                     ELSE <<FirstRow(T)>> \o from[{x \in T : \E f \in key : x[f] # FirstRow(T)[f]}]
  BY <1>0 DEF Orders
<1> DEFINE good(T) == /\ \A i \in DOMAIN from[T] : from[T][i] \in T
                      /\ InOrder(from[T], key)
                      /\ \A x \in T : \E i \in DOMAIN from[T] : Stands(from[T], i, x, key)
           N == {T \in SUBSET rows : good(T)}
<1>2. ASSUME NEW T \in SUBSET rows, \A U \in SUBSET T : U # T => U \in N PROVE T \in N
  <2>1. CASE T = {}
    <3>1. from[T] = <<>>
      BY <1>1, <2>1
    <3>2. QED
      BY <2>1, <3>1 DEF InOrder
  <2>2. CASE T # {}
    <3> DEFINE first == FirstRow(T)
               left == {x \in T : \E f \in key : x[f] # first[f]}
               s == from[left]
    <3>1. first \in T /\ \A y \in T : ~ByDepthAndName(y, first)
      <4>1. Sortable(T)
        BY DEF Sortable
      <4>2. QED
        BY <2>2, <4>1, FirstRowIsFirst
    <3>2. left \in SUBSET T /\ left # T
      BY <3>1
    <3>3. good(left) /\ s \in Seq(rows)
      <4>1. left \in N /\ left \in SUBSET rows
        BY <1>2, <3>2
      <4>2. s \in Seq(rows)
        BY <1>1, <4>1
      <4> HIDE DEF good
      <4>3. QED
        BY <4>1, <4>2
    <3> DEFINE t == <<first>> \o s
    <3>4. from[T] = t
      BY <1>1, <2>2
    <3> HIDE DEF first
    <3>5. /\ s \in Seq(rows) /\ Len(s) \in Nat /\ DOMAIN s = 1..Len(s)
          /\ DOMAIN t = 1..Len(s) + 1 /\ t[1] = first
          /\ \A i \in 1..Len(s) : t[i + 1] = s[i]
      <4> HIDE DEF s
      <4> QED BY <3>1, <3>3
    <3> HIDE DEF s, t
    <3>6. ASSUME NEW i \in DOMAIN t, i # 1 PROVE i - 1 \in DOMAIN s /\ t[i] = s[i - 1] /\ t[i] \in left
      <4>1. i - 1 \in 1..Len(s) /\ (i - 1) + 1 = i
        BY <3>5, <3>6
      <4>2. t[i] = s[i - 1]
        BY <3>5, <4>1
      <4>3. QED
        BY <3>3, <3>5, <4>1, <4>2 DEF s
    <3>7. ASSUME NEW i \in DOMAIN t PROVE t[i] \in T
      BY <3>1, <3>2, <3>5, <3>6
    <3>8. InOrder(t, key)
      <4> SUFFICES ASSUME NEW i \in DOMAIN t, NEW j \in DOMAIN t, i < j
                   PROVE  ~ByDepthAndName(t[j], t[i]) /\ \E f \in key : t[i][f] # t[j][f]
        BY DEF InOrder
      <4>1. i \in Nat /\ j \in Nat /\ j # 1
        BY <3>5
      <4>2. CASE i = 1
        <5>1. t[i] = first /\ t[j] \in left /\ t[j] \in T
          BY <3>5, <3>6, <3>7, <4>1, <4>2
        <5>2. \E f \in key : t[i][f] # t[j][f]
          BY <5>1
        <5>3. QED
          BY <3>1, <5>1, <5>2
      <4>3. CASE i # 1
        <5>1. /\ i - 1 \in DOMAIN s /\ j - 1 \in DOMAIN s /\ i - 1 < j - 1
              /\ t[i] = s[i - 1] /\ t[j] = s[j - 1]
          BY <3>6, <4>1, <4>3
        <5>2. InOrder(s, key)
          BY <3>3 DEF s
        <5>3. QED
          BY <5>1, <5>2 DEF InOrder
      <4>4. QED
        BY <4>2, <4>3
    <3>9. ASSUME NEW x \in T PROVE \E i \in DOMAIN t : Stands(t, i, x, key)
      <4>1. CASE x \in left
        <5>1. PICK i \in DOMAIN s : Stands(s, i, x, key)
          BY <3>3, <4>1 DEF s
        <5>2. i + 1 \in DOMAIN t /\ t[i + 1] = s[i]
          BY <3>5
        <5>3. Stands(t, i + 1, x, key)
          BY <5>1, <5>2 DEF Stands
        <5>4. QED
          BY <5>2, <5>3
      <4>2. CASE x \notin left
        <5>1. \A f \in key : x[f] = first[f]
          BY <4>2
        <5>2. 1 \in DOMAIN t /\ t[1] = first
          BY <3>5
        <5>3. Stands(t, 1, x, key)
          BY <3>1, <5>1, <5>2 DEF Stands
        <5>4. QED
          BY <5>2, <5>3
      <4>3. QED
        BY <4>1, <4>2
    <3>10. good(T)
      BY <3>4, <3>7, <3>8, <3>9
    <3>11. QED
      BY <3>10
  <2>3. QED
    BY <2>1, <2>2
<1>3. good(rows)
  <2>1. SUBSET rows \subseteq N
    <3> HIDE DEF N
    <3> QED BY <1>2, SubsetInduction
  <2>2. QED
    BY <2>1
<1>4. from[rows] \in Seq(rows)
  BY <1>1
<1>5. QED
  BY <1>1, <1>3, <1>4

(* Limited goes on with the rows but the first until there are as many     *)
(* left as it is to leave out.                                             *)
Limits(first, rows, n) ==
  /\ first \in [SUBSET rows -> SUBSET rows]
  /\ Limited(rows, n) = first[rows]
  /\ \A T \in SUBSET rows :
       first[T] = IF T = {} \/ Cardinality(T) + n <= Cardinality(rows) THEN {}
                  ELSE {FirstRow(T)} \cup first[T \ {FirstRow(T)}]

(* The recursive function in Limited is defined.                           *)
LEMMA LimitedGoesOn ==
  ASSUME NEW rows, IsFiniteSet(rows), Sortable(rows), NEW n
  PROVE  \E first : Limits(first, rows, n)
<1> DEFINE stops == {T \in SUBSET rows : T = {} \/ Cardinality(T) + n <= Cardinality(rows)}
           left == [T \in SUBSET rows |-> T \ {FirstRow(T)}]
           step == [T \in SUBSET rows |-> [U \in SUBSET rows |-> {FirstRow(T)} \cup U]]
           body(h) == [T \in SUBSET rows |-> IF T \in stops THEN {} ELSE step[T][h[left[T]]]]
           real(h) == [T \in SUBSET rows |->
                         IF T = {} \/ Cardinality(T) + n <= Cardinality(rows) THEN {}
                         ELSE {FirstRow(T)} \cup h[T \ {FirstRow(T)}]]
<1>1. ASSUME NEW T \in SUBSET rows, T # {}
      PROVE  FirstRow(T) \in T /\ left[T] \in SUBSET T /\ left[T] # T
  <2>1. Sortable(T)
    BY DEF Sortable
  <2>2. FirstRow(T) \in T
    BY <1>1, <2>1, FirstRowIsFirst
  <2>3. QED
    BY <2>2
<1>2. ASSUME NEW T \in SUBSET rows, NEW U \in SUBSET rows, T # {}
      PROVE  step[T][U] \in SUBSET rows
  <2>1. FirstRow(T) \in rows
    BY <1>1, <1>2
  <2>2. QED
    BY <2>1
<1>3. PICK h \in [SUBSET rows -> SUBSET rows] : h = body(h)
  <2> DEFINE sets == SUBSET rows
  <2>1. {} \in sets /\ {} \in stops
    OBVIOUS
  <2>2. \A T \in SUBSET rows : T \notin stops => left[T] \in SUBSET T /\ left[T] # T
    BY <1>1
  <2>3. \A T \in SUBSET rows : \A U \in sets : T \notin stops => step[T][U] \in sets
    BY <1>2
  <2> HIDE DEF left, step, stops, sets
  <2>4. Descends(rows, stops, left, sets, {}, step)
    BY <2>1, <2>2, <2>3 DEF Descends
  <2>5. \E h : Recursive(h, rows, stops, left, sets, {}, step)
    BY <2>4, SubsetRecursion
  <2>6. QED
    BY <2>5 DEF Recursive, sets
<1>4. body(h) = real(h)
  <2>1. ASSUME NEW T \in SUBSET rows, T # {}
        PROVE  step[T][h[left[T]]] = {FirstRow(T)} \cup h[T \ {FirstRow(T)}]
    <3>1. left[T] \in SUBSET rows /\ left[T] = T \ {FirstRow(T)}
      BY <1>1, <2>1
    <3>2. h[left[T]] \in SUBSET rows
      BY <3>1
    <3>3. QED
      BY <3>1, <3>2
  <2>2. ASSUME NEW T \in SUBSET rows
        PROVE  T \in stops <=> T = {} \/ Cardinality(T) + n <= Cardinality(rows)
    OBVIOUS
  <2> HIDE DEF left, step, stops
  <2>3. QED
    BY <2>1, <2>2
<1> HIDE DEF body
<1> DEFINE first == CHOOSE g : g = real(g)
<1>5. first = real(first)
  BY <1>3, <1>4, Zenon
<1>6. Limited(rows, n) = first[rows]
  BY DEF Limited
<1> HIDE DEF first
<1>7. first \in [SUBSET rows -> SUBSET rows]
  <2> DEFINE N == {T \in SUBSET rows : first[T] \in SUBSET rows}
  <2>1. ASSUME NEW T \in SUBSET rows, \A U \in SUBSET T : U # T => U \in N PROVE T \in N
    <3>1. CASE T \in stops
      BY <1>5, <3>1
    <3>2. CASE T \notin stops
      <4>0. T # {}
        BY <3>2
      <4>1. FirstRow(T) \in T /\ left[T] \in SUBSET T /\ left[T] # T /\ left[T] = T \ {FirstRow(T)}
        BY <1>1, <4>0
      <4>2. first[left[T]] \in SUBSET rows
        BY <2>1, <4>1
      <4>3. first[T] = {FirstRow(T)} \cup first[left[T]]
        BY <1>5, <3>2, <4>1
      <4>4. QED
        BY <4>1, <4>2, <4>3
    <3>3. QED
      BY <3>1, <3>2
  <2>2. SUBSET rows \subseteq N
    <3> HIDE DEF N
    <3> QED BY <2>1, SubsetInduction
  <2>3. QED
    BY <1>5, <2>2
<1>8. QED
  BY <1>5, <1>6, <1>7 DEF Limits

(* Limited takes n rows, none of which comes after one that it leaves out. *)
LEMMA LimitedRows ==
  ASSUME NEW rows, IsFiniteSet(rows), Sortable(rows), NEW n \in Nat
  PROVE  LET kept == Limited(rows, n)
         IN  /\ kept \subseteq rows
             /\ \A x \in kept : \A y \in rows \ kept : ~ByDepthAndName(y, x)
             /\ kept = rows \/ Cardinality(kept) = n
<1>0. PICK first : Limits(first, rows, n)
  BY LimitedGoesOn
<1>1. /\ first \in [SUBSET rows -> SUBSET rows]
      /\ Limited(rows, n) = first[rows]
      /\ \A T \in SUBSET rows :
           first[T] = IF T = {} \/ Cardinality(T) + n <= Cardinality(rows) THEN {}
                      ELSE {FirstRow(T)} \cup first[T \ {FirstRow(T)}]
  BY <1>0 DEF Limits
<1> DEFINE all == Cardinality(rows)
           good(T) == /\ first[T] \subseteq T
                      /\ \A x \in first[T] : \A y \in T \ first[T] : ~ByDepthAndName(y, x)
                      /\ Cardinality(T) + n >= all =>
                           first[T] = T \/ Cardinality(first[T]) = (Cardinality(T) + n) - all
           N == {T \in SUBSET rows : good(T)}
<1>2. all \in Nat
  BY FS_CardinalityType
<1>3. ASSUME NEW T \in SUBSET rows, \A U \in SUBSET T : U # T => U \in N PROVE T \in N
  <2>0. IsFiniteSet(T) /\ Cardinality(T) \in Nat
    BY FS_Subset, FS_CardinalityType
  <2>1. CASE T = {}
    BY <1>1, <2>1
  <2>2. CASE T # {} /\ Cardinality(T) + n <= all
    <3>1. first[T] = {}
      BY <1>1, <2>2
    <3>2. Cardinality(first[T]) = 0
      BY <3>1, FS_EmptySet
    <3>3. Cardinality(T) + n >= all => Cardinality(first[T]) = (Cardinality(T) + n) - all
      BY <1>2, <2>0, <2>2, <3>2
    <3> HIDE DEF all
    <3>4. QED
      BY <3>1, <3>3
  <2>3. CASE T # {} /\ ~(Cardinality(T) + n <= all)
    <3> DEFINE f == FirstRow(T)
               left == T \ {f}
               k == first[left]
    <3>1. f \in T /\ \A y \in T : ~ByDepthAndName(y, f)
      <4>1. Sortable(T)
        BY DEF Sortable
      <4>2. QED
        BY <2>3, <4>1, FirstRowIsFirst
    <3>2. good(left)
      BY <1>3, <3>1
    <3>3. first[T] = {f} \cup k
      BY <1>1, <2>3
    <3>4. Cardinality(left) = Cardinality(T) - 1
      BY <2>0, <3>1, FS_RemoveElement
    <3>5. IsFiniteSet(k) /\ Cardinality(k) \in Nat /\ f \notin k /\ k \subseteq T
      <4>1. IsFiniteSet(left)
        BY <2>0, FS_Subset
      <4>2. QED
        BY <3>2, <4>1, FS_Subset, FS_CardinalityType
    <3>6. Cardinality({f} \cup k) = Cardinality(k) + 1
      <4>1. Cardinality(k \cup {f}) = Cardinality(k) + 1
        BY <3>5, FS_AddElement
      <4>2. k \cup {f} = {f} \cup k
        OBVIOUS
      <4>3. QED
        BY <4>1, <4>2
    <3>7. {f} \cup left = T
      BY <3>1
    <3>8. \A x \in {f} \cup k : \A y \in T \ ({f} \cup k) : ~ByDepthAndName(y, x)
      BY <3>1, <3>2
    <3>9. {f} \cup k = T \/ Cardinality({f} \cup k) = (Cardinality(T) + n) - all
      <4>1. Cardinality(left) + n >= all
        BY <1>2, <2>0, <2>3, <3>4
      <4>2. k = left \/ Cardinality(k) = (Cardinality(left) + n) - all
        BY <3>2, <4>1
      <4>3. CASE k = left
        BY <3>7, <4>3
      <4>4. CASE Cardinality(k) = (Cardinality(left) + n) - all
        <5> HIDE DEF k, left, all
        <5> QED BY <1>2, <2>0, <3>4, <3>5, <3>6, <4>4
      <4>5. QED
        BY <4>2, <4>3, <4>4
    <3> HIDE DEF k, f
    <3>10. QED
      BY <3>1, <3>3, <3>5, <3>8, <3>9
  <2>4. QED
    BY <2>1, <2>2, <2>3
<1>4. good(rows)
  <2>1. SUBSET rows \subseteq N
    <3> HIDE DEF N
    <3> QED BY <1>3, SubsetInduction
  <2>2. QED
    BY <2>1
<1>5. Cardinality(first[rows]) = (all + n) - all => Cardinality(first[rows]) = n
  BY <1>2
<1>6. all + n >= all
  BY <1>2
<1> HIDE DEF all
<1>7. QED
  BY <1>1, <1>4, <1>5, <1>6 DEF all

(* Picked has entries of s at positions in I, and no others.               *)
PickedSoFar(p, s, I, S) ==
  p \in Seq(S) /\ \A j \in DOMAIN p : \E i \in DOMAIN s : i \in I /\ p[j] = s[i]

(* What Picked returns.                                                    *)
LEMMA PickedEntries ==
  ASSUME NEW S, NEW s \in Seq(S), NEW I
  PROVE  PickedSoFar(Picked(s, I), s, I, S)
<1> DEFINE n == Len(s)
           step == [k \in 1..n |-> [p \in Seq(S) |-> IF k \in I THEN Append(p, s[k]) ELSE p]]
           body(h) == [k \in 0..n |-> IF k = 0 THEN <<>> ELSE step[k][h[k - 1]]]
           real(h) == [k \in 0..n |->
                         IF k = 0 THEN <<>>
                         ELSE IF k \in I THEN Append(h[k - 1], s[k]) ELSE h[k - 1]]
<1>0. n \in Nat /\ DOMAIN s = 1..n /\ \A k \in 1..n : s[k] \in S
  OBVIOUS
<1>1. PICK h \in [0..n -> Seq(S)] : h = body(h)
  <2>1. ASSUME NEW k \in 1..n, NEW p \in Seq(S) PROVE step[k][p] \in Seq(S)
    <3>1. Append(p, s[k]) \in Seq(S)
      BY <1>0
    <3>2. QED
      BY <3>1
  <2>2. <<>> \in Seq(S)
    OBVIOUS
  <2> DEFINE V == Seq(S)
  <2> HIDE DEF step, n, V
  <2>3. Ascends(n, V, <<>>, step)
    BY <1>0, <2>1, <2>2 DEF Ascends, V
  <2>4. \E g : Counts(g, n, V, <<>>, step)
    BY <2>3, CountedRecursion
  <2>5. QED
    BY <2>4 DEF Counts, V
<1>2. body(h) = real(h)
  <2>1. ASSUME NEW k \in 0..n, k # 0
        PROVE  step[k][h[k - 1]] = IF k \in I THEN Append(h[k - 1], s[k]) ELSE h[k - 1]
    <3>1. k \in 1..n /\ k - 1 \in 0..n
      BY <1>0, <2>1
    <3>2. h[k - 1] \in Seq(S)
      BY <3>1
    <3>3. QED
      BY <3>1, <3>2
  <2> HIDE DEF step, n
  <2>2. QED
    BY <2>1
<1> HIDE DEF body
<1> DEFINE upTo == CHOOSE g : g = real(g)
<1>3. upTo = real(upTo)
  BY <1>1, <1>2, Zenon
<1>4. Picked(s, I) = upTo[n]
  BY DEF Picked
<1> HIDE DEF upTo, n
<1>5. 0..n \subseteq {k \in 0..n : PickedSoFar(upTo[k], s, I, S)}
  <2> DEFINE N == {k \in 0..n : PickedSoFar(upTo[k], s, I, S)}
  <2>1. 0 \in N
    <3>1. upTo[0] = <<>> /\ 0 \in 0..n
      BY <1>0, <1>3
    <3>2. PickedSoFar(<<>>, s, I, S)
      BY DEF PickedSoFar
    <3>3. QED
      BY <3>1, <3>2
  <2>2. ASSUME NEW k \in 1..n, k - 1 \in N PROVE k \in N
    <3> DEFINE p == upTo[k - 1]
    <3>1. PickedSoFar(p, s, I, S)
      BY <2>2
    <3>2. k \in 0..n /\ k # 0
      BY <1>0
    <3>3. upTo[k] = IF k \in I THEN Append(p, s[k]) ELSE p
      BY <1>3, <3>2
    <3>4. CASE k \in I
      <4>1. Append(p, s[k]) \in Seq(S)
        BY <1>0, <3>1 DEF PickedSoFar
      <4>2. ASSUME NEW j \in DOMAIN Append(p, s[k])
            PROVE  \E i \in DOMAIN s : i \in I /\ Append(p, s[k])[j] = s[i]
        <5>1. p \in Seq(S)
          BY <3>1 DEF PickedSoFar
        <5> HIDE DEF p
        <5>2. j \in DOMAIN p \/ j = Len(p) + 1
          BY <4>2, <5>1
        <5>3. CASE j \in DOMAIN p
          <6>1. Append(p, s[k])[j] = p[j]
            BY <5>1, <5>3
          <6>2. QED
            BY <3>1, <5>3, <6>1 DEF PickedSoFar
        <5>4. CASE j = Len(p) + 1
          <6>1. Append(p, s[k])[j] = s[k]
            BY <5>1, <5>4
          <6>2. QED
            BY <1>0, <3>4, <6>1
        <5>5. QED
          BY <5>2, <5>3, <5>4
      <4>3. upTo[k] = Append(p, s[k])
        BY <3>3, <3>4
      <4> HIDE DEF p
      <4>4. QED
        BY <3>2, <4>1, <4>2, <4>3 DEF PickedSoFar
    <3>5. CASE k \notin I
      BY <3>1, <3>2, <3>3, <3>5
    <3>6. QED
      BY <3>4, <3>5
  <2> HIDE DEF N
  <2>3. 0..n \subseteq N
    BY <1>0, <2>1, <2>2, CountedInduction
  <2>4. QED
    BY <2>3 DEF N
<1>6. n \in 0..n
  BY <1>0
<1>7. QED
  BY <1>4, <1>5, <1>6

(* What AtMost returns.                                                    *)
LEMMA AtMostEntries ==
  ASSUME NEW S, NEW s \in Seq(S), NEW n \in Nat
  PROVE  /\ AtMost(s, n) \in Seq(S)
         /\ DOMAIN AtMost(s, n) = {i \in DOMAIN s : i <= n}
         /\ \A i \in DOMAIN AtMost(s, n) : AtMost(s, n)[i] = s[i]
         /\ Len(AtMost(s, n)) = IF Len(s) <= n THEN Len(s) ELSE n
BY DEF AtMost

-----------------------------------------------------------------------------
(* Layers.                                                                 *)

LEMMA LayerSteps ==
  ASSUME NEW edges, NEW dir, NEW ids, NEW n \in Nat
  PROVE  /\ Layer(edges, dir, ids, 0) = ids
         /\ Layer(edges, dir, ids, n + 1) = Step(edges, dir, Layer(edges, dir, ids, n))
<1> DEFINE all == ids \cup {Far(c, dir) : c \in edges}
           V == SUBSET all
           layers(m) == CHOOSE h : h = [k \in 0..m |-> IF k = 0 THEN ids ELSE Step(edges, dir, h[k - 1])]
<1>1. ASSUME NEW m \in Nat
      PROVE  layers(m) = [k \in 0..m |-> IF k = 0 THEN ids ELSE Step(edges, dir, layers(m)[k - 1])]
  <2> DEFINE step == [k \in 1..m |-> [U \in V |-> Step(edges, dir, U)]]
             body(h) == [k \in 0..m |-> IF k = 0 THEN ids ELSE step[k][h[k - 1]]]
             real(h) == [k \in 0..m |-> IF k = 0 THEN ids ELSE Step(edges, dir, h[k - 1])]
  <2>1. ASSUME NEW k \in 1..m, NEW U \in V PROVE step[k][U] = Step(edges, dir, U) /\ step[k][U] \in V
    <3>1. Step(edges, dir, U) \in V
      BY DEF Step
    <3> HIDE DEF V
    <3>2. QED
      BY <3>1
  <2>2. ids \in V
    OBVIOUS
  <2> HIDE DEF step, V
  <2>3. PICK h \in [0..m -> V] : h = body(h)
    <3>1. Ascends(m, V, ids, step)
      BY <2>1, <2>2 DEF Ascends
    <3>2. \E g : Counts(g, m, V, ids, step)
      BY <3>1, CountedRecursion
    <3>3. QED
      BY <3>2 DEF Counts
  <2>4. body(h) = real(h)
    <3>1. ASSUME NEW k \in 0..m, k # 0 PROVE step[k][h[k - 1]] = Step(edges, dir, h[k - 1])
      <4>1. k \in 1..m /\ k - 1 \in 0..m
        BY <3>1
      <4>2. QED
        BY <2>1, <4>1
    <3>2. QED
      BY <3>1
  <2>5. \E g : g = real(g)
    BY <2>3, <2>4
  <2>6. QED
    BY <2>5, Zenon
<1>2. ASSUME NEW m \in Nat PROVE Layer(edges, dir, ids, m) = layers(m)[m]
  BY DEF Layer
<1> HIDE DEF layers
<1>3. \A k \in 0..n : layers(n + 1)[k] = layers(n)[k]
  <2> DEFINE N == {k \in 0..n : layers(n + 1)[k] = layers(n)[k]}
             here == layers(n)
             next == layers(n + 1)
  <2>1. ASSUME NEW k \in 0..n
        PROVE  /\ here[k] = IF k = 0 THEN ids ELSE Step(edges, dir, here[k - 1])
               /\ next[k] = IF k = 0 THEN ids ELSE Step(edges, dir, next[k - 1])
    <3>1. /\ here = [i \in 0..n |-> IF i = 0 THEN ids ELSE Step(edges, dir, here[i - 1])]
          /\ next = [i \in 0..n + 1 |-> IF i = 0 THEN ids ELSE Step(edges, dir, next[i - 1])]
      BY <1>1
    <3>2. k \in 0..n + 1
      OBVIOUS
    <3> HIDE DEF here, next
    <3>3. QED
      BY <3>1, <3>2
  <2> HIDE DEF here, next
  <2>2. 0 \in {k \in 0..n : next[k] = here[k]}
    BY <2>1
  <2>3. ASSUME NEW k \in 1..n, k - 1 \in {i \in 0..n : next[i] = here[i]}
        PROVE  k \in {i \in 0..n : next[i] = here[i]}
    <3>1. k \in 0..n /\ k # 0
      OBVIOUS
    <3>2. QED
      BY <2>1, <2>3, <3>1
  <2>4. 0..n \subseteq {k \in 0..n : next[k] = here[k]}
    BY <2>2, <2>3, CountedInduction
  <2>5. QED
    BY <2>4 DEF here, next
<1>4. Layer(edges, dir, ids, n + 1) = Step(edges, dir, Layer(edges, dir, ids, n))
  <2> DEFINE next == layers(n + 1)
  <2>1. next = [k \in 0..n + 1 |-> IF k = 0 THEN ids ELSE Step(edges, dir, next[k - 1])]
    BY <1>1
  <2>2. n + 1 \in 0..n + 1 /\ n + 1 # 0 /\ (n + 1) - 1 = n /\ n \in 0..n
    OBVIOUS
  <2> HIDE DEF next
  <2>3. next[n + 1] = Step(edges, dir, next[n])
    BY <2>1, <2>2
  <2>4. next[n] = layers(n)[n]
    BY <1>3, <2>2 DEF next
  <2>5. QED
    BY <1>2, <2>3, <2>4 DEF next
<1>5. Layer(edges, dir, ids, 0) = ids
  <2> DEFINE none == layers(0)
  <2>1. none = [k \in 0..0 |-> IF k = 0 THEN ids ELSE Step(edges, dir, none[k - 1])]
    BY <1>1
  <2> HIDE DEF none
  <2>2. none[0] = ids
    BY <2>1
  <2>3. QED
    BY <1>2, <2>2 DEF none
<1>6. QED
  BY <1>4, <1>5

-----------------------------------------------------------------------------
(* The rows in the database are finitely many, and their names have their  *)
(* places.                                                                 *)

Placed(rows) == \A x \in rows : NamePlace[x.name] \in Nat

RowsInv ==
  /\ IsFiniteSet(db.funcs) /\ IsFiniteSet(CacheDefs) /\ IsFiniteSet(db.calls)
  /\ Placed(db.funcs) /\ Placed(db.calls)

(* A file's source has finitely many functions and calls, whose names have *)
(* their places.                                                           *)
LEMMA SourceParts ==
  ASSUME DiskOK, NEW f \in Files
  PROVE  /\ Len(disk[f].funcs) \in Nat /\ Len(disk[f].calls) \in Nat
         /\ \A i \in 1..Len(disk[f].funcs) : NamePlace[disk[f].funcs[i].name] \in Nat
         /\ \A i \in 1..Len(disk[f].calls) : NamePlace[disk[f].calls[i].callee] \in Nat
<1>1. CASE disk[f] = Absent
  BY <1>1 DEF Absent
<1>2. CASE disk[f] \in Sources[f]
  BY <1>2, CallsAssumption, NamesAssumption
<1>3. QED
  BY <1>1, <1>2 DEF DiskOK

(* So has what is inserted for a file,                                     *)
LEMMA FuncRowsFinite ==
  ASSUME DiskOK, NEW f \in Files, NEW g
  PROVE  IsFiniteSet(FuncRows(f, disk[f], g)) /\ Placed(FuncRows(f, disk[f], g))
<1> DEFINE s == disk[f]
           row == [i \in 1..Len(s.funcs) |->
                     [gen |-> g, file |-> f, pos |-> i, scope |-> Scope[f], name |-> s.funcs[i].name,
                      recv |-> s.funcs[i].recv, ret |-> s.funcs[i].ret]]
<1>1. FuncRows(f, s, g) = {row[i] : i \in 1..Len(s.funcs)}
  BY DEF FuncRows
<1>2. \A i \in 1..Len(s.funcs) : row[i].name = s.funcs[i].name
  OBVIOUS
<1>3. row = [i \in 1..Len(s.funcs) |-> row[i]]
  OBVIOUS
<1> HIDE DEF row
<1>4. IsFiniteSet(FuncRows(f, s, g))
  <2>1. IsFiniteSet(1..Len(s.funcs))
    <3>1. Len(s.funcs) \in Int
      BY SourceParts
    <3> HIDE DEF s
    <3>2. QED
      BY <3>1, FS_Interval
  <2>2. QED
    BY <1>1, <1>3, <2>1, FiniteImage
<1>5. Placed(FuncRows(f, s, g))
  BY <1>1, <1>2, SourceParts DEF Placed
<1>6. QED
  BY <1>4, <1>5

(* calls included.                                                         *)
LEMMA CallRowsFinite ==
  ASSUME DiskOK, NEW f \in Files, NEW g, NEW r, IsFiniteSet(r.defs)
  PROVE  IsFiniteSet(CallRows(r, f, disk[f], g)) /\ Placed(CallRows(r, f, disk[f], g))
<1> DEFINE s == disk[f]
           inside == {c \in Elements(s.calls) : c.in # 0}
           targets(c) == InterfaceMethodImpls(r, c.via, c.callee)
           edges(c) == {Row(f, g, c, Id(d), "interface-dispatch") : d \in targets(c)}
           primary == [c \in inside |->
                         Row(f, g, c, ResolveCall(r, c, Scope[f], f).callee,
                             ResolveCall(r, c, Scope[f], f).marker)]
           typed == {x \in inside : x.kind = "var"}
           dispatch == [c \in typed |-> edges(c)]
<1>1. IsFiniteSet(inside)
  <2> DEFINE at == [i \in 1..Len(s.calls) |-> s.calls[i]]
  <2>1. Elements(s.calls) = {at[i] : i \in 1..Len(s.calls)}
    BY DEF Elements
  <2>2. at = [i \in 1..Len(s.calls) |-> at[i]]
    OBVIOUS
  <2> HIDE DEF at
  <2>3. IsFiniteSet(1..Len(s.calls))
    BY SourceParts, FS_Interval
  <2>4. IsFiniteSet(Elements(s.calls))
    BY <2>1, <2>2, <2>3, FiniteImage
  <2>5. QED
    BY <2>4, FS_Subset
<1>2. IsFiniteSet({primary[c] : c \in inside})
  <2>1. primary = [c \in inside |-> primary[c]]
    OBVIOUS
  <2> HIDE DEF primary, inside
  <2>2. QED
    BY <1>1, <2>1, FiniteImage
<1>3. ASSUME NEW c PROVE IsFiniteSet(edges(c))
  <2> DEFINE edge == [d \in targets(c) |-> Row(f, g, c, Id(d), "interface-dispatch")]
  <2>1. targets(c) \subseteq r.defs
    BY DispatchResolves
  <2>2. edges(c) = {edge[d] : d \in targets(c)} /\ edge = [d \in targets(c) |-> edge[d]]
    OBVIOUS
  <2> HIDE DEF edge, targets
  <2>3. IsFiniteSet({edge[d] : d \in targets(c)})
    BY <2>1, <2>2, FS_Subset, FiniteImage
  <2>4. QED
    BY <2>2, <2>3
<1>4. IsFiniteSet(UNION {dispatch[c] : c \in typed})
  <2>1. dispatch = [c \in typed |-> dispatch[c]]
    OBVIOUS
  <2>2. IsFiniteSet(typed)
    BY <1>1, FS_Subset
  <2>3. \A T \in {dispatch[c] : c \in typed} : IsFiniteSet(T)
    BY <1>3
  <2> HIDE DEF dispatch, typed
  <2>4. IsFiniteSet({dispatch[c] : c \in typed})
    BY <2>1, <2>2, FiniteImage
  <2>5. QED
    BY <2>3, <2>4, FS_UNION
<1>5. CallRows(r, f, s, g) = {primary[c] : c \in inside} \cup UNION {dispatch[c] : c \in typed}
  <2>1. \A c \in typed : dispatch[c] = edges(c)
    OBVIOUS
  <2>2. {dispatch[c] : c \in typed} = {edges(c) : c \in typed}
    <3> HIDE DEF typed, edges, dispatch
    <3> QED BY <2>1
  <2>3. \A c \in inside : primary[c] = Row(f, g, c, ResolveCall(r, c, Scope[f], f).callee,
                                          ResolveCall(r, c, Scope[f], f).marker)
    OBVIOUS
  <2>4. {primary[c] : c \in inside} = {Row(f, g, c, ResolveCall(r, c, Scope[f], f).callee,
                                          ResolveCall(r, c, Scope[f], f).marker) : c \in inside}
    <3> HIDE DEF inside, primary
    <3> QED BY <2>3
  <2> HIDE DEF dispatch, primary
  <2>5. QED
    BY <2>2, <2>4, Zenon DEF CallRows
<1>6. IsFiniteSet(CallRows(r, f, s, g))
  <2> DEFINE A == {primary[c] : c \in inside}
             B == UNION {dispatch[c] : c \in typed}
  <2>1. IsFiniteSet(A) /\ IsFiniteSet(B) /\ CallRows(r, f, s, g) = A \cup B
    BY <1>2, <1>4, <1>5
  <2> HIDE DEF A, B
  <2>2. QED
    BY <2>1, FS_Union
<1>7. ASSUME NEW e \in CallRows(r, f, s, g) PROVE NamePlace[e.name] \in Nat
  <2>1. PICK c \in Elements(s.calls) : e.name = c.callee
    BY <1>7, NewRow
  <2>2. QED
    BY <2>1, SourceParts DEF Elements
<1>8. QED
  BY <1>6, <1>7 DEF Placed

(* An incremental index keeps the rows finite and their names placed,      *)
LEMMA IndexFileKeepsRows ==
  ASSUME EdgesInv, RowsInv, NEW f \in Files, IndexFile(f)
  PROVE  RowsInv'
<1> DEFINE r == ResolverForIndexFile(f)
           kept == OfOthers(db.calls, f)
<1>0. db' = Linked(f) /\ cache' = r /\ HasTables(db) /\ DiskOK /\ RowsOK /\ EdgesAreSound
  BY DEF IndexFile, EdgesInv
<1>1. db'.funcs = OfOthers(db.funcs, f) \cup FuncRows(f, disk[f], gen)
  BY <1>0, LinkedFuncs
<1>2. IsFiniteSet(db'.funcs) /\ Placed(db'.funcs)
  <2>1. IsFiniteSet(OfOthers(db.funcs, f)) /\ Placed(OfOthers(db.funcs, f))
    BY FS_Subset DEF RowsInv, OfOthers, Placed
  <2>2. QED
    BY <1>0, <1>1, <2>1, FuncRowsFinite, FS_Union DEF Placed
<1>3. IsFiniteSet(r.defs)
  <2>1. IsFiniteSet(db'.funcs \cup CacheDefs)
    BY <1>2, FS_Union DEF RowsInv
  <2>2. r.defs \subseteq db'.funcs \cup CacheDefs
    BY <1>0, ResolverDefs DEF OfOthers
  <2>3. QED
    BY <2>1, <2>2, FS_Subset
<1>4. IsFiniteSet(CacheDefs')
  BY <1>0, <1>3, FS_EmptySet DEF CacheDefs
<1>5. db'.calls = {Relinked(r, Unlinked(c, f)) : c \in kept} \cup CallRows(r, f, disk[f], gen)
  BY <1>0, LinkedCalls
<1>6. IsFiniteSet({Relinked(r, Unlinked(c, f)) : c \in kept})
  <2> DEFINE again == [c \in kept |-> Relinked(r, Unlinked(c, f))]
  <2>1. IsFiniteSet(kept)
    BY FS_Subset DEF RowsInv, OfOthers
  <2>2. again = [c \in kept |-> again[c]]
    OBVIOUS
  <2>3. {Relinked(r, Unlinked(c, f)) : c \in kept} = {again[c] : c \in kept}
    OBVIOUS
  <2>4. IsFiniteSet({again[c] : c \in kept})
    <3> HIDE DEF again, kept
    <3> QED BY <2>1, <2>2, FiniteImage
  <2>5. QED
    BY <2>3, <2>4
<1>7. Placed({Relinked(r, Unlinked(c, f)) : c \in kept})
  <2> SUFFICES ASSUME NEW c \in kept PROVE NamePlace[Relinked(r, Unlinked(c, f)).name] \in Nat
    BY DEF Placed
  <2>1. RowOK(c) /\ Sound(c, db)
    BY <1>0, SoundRows DEF OfOthers, RowsOK
  <2>2. Relinked(r, Unlinked(c, f)).name = c.name
    BY <2>1, OldRow DEF SamePlace
  <2>3. QED
    BY <2>2 DEF RowsInv, Placed, OfOthers
<1>8. IsFiniteSet(CallRows(r, f, disk[f], gen)) /\ Placed(CallRows(r, f, disk[f], gen))
  BY <1>0, <1>3, CallRowsFinite
<1>9. IsFiniteSet(db'.calls) /\ Placed(db'.calls)
  <2> HIDE DEF r
  <2> QED BY <1>5, <1>6, <1>7, <1>8, FS_Union DEF Placed
<1>10. QED
  BY <1>2, <1>4, <1>9 DEF RowsInv, Placed

(* and so does a full one.                                                 *)
LEMMA RebuildKeepsRows ==
  ASSUME EdgesInv, NEW scanned \in SUBSET Files
  PROVE  LET d == Rebuilt(db, scanned)
         IN  IsFiniteSet(d.funcs) /\ IsFiniteSet(d.calls) /\ Placed(d.funcs) /\ Placed(d.calls)
<1> DEFINE d == Rebuilt(db, scanned)
           funcs == [f \in scanned |-> FuncRows(f, disk[f], gen)]
<1>1. IsFiniteSet(scanned) /\ DiskOK
  BY FilesFinite, FS_Subset DEF EdgesInv
<1>2. d.funcs = UNION {funcs[f] : f \in scanned}
  BY RebuiltRows
<1>3. PICK r : r.defs = d.funcs /\ d.calls = UNION {CallRows(r, f, disk[f], gen) : f \in scanned}
  BY RebuiltRows
<1> HIDE DEF d
<1>4. IsFiniteSet(d.funcs) /\ Placed(d.funcs)
  <2>1. funcs = [f \in scanned |-> funcs[f]]
    OBVIOUS
  <2>2. \A T \in {funcs[f] : f \in scanned} : IsFiniteSet(T) /\ Placed(T)
    BY <1>1, FuncRowsFinite
  <2> HIDE DEF funcs
  <2>3. IsFiniteSet({funcs[f] : f \in scanned})
    BY <1>1, <2>1, FiniteImage
  <2>4. QED
    BY <1>2, <2>2, <2>3, FS_UNION DEF Placed
<1>5. IsFiniteSet(d.calls) /\ Placed(d.calls)
  <2> DEFINE calls_ == [f \in scanned |-> CallRows(r, f, disk[f], gen)]
  <2>1. calls_ = [f \in scanned |-> calls_[f]] /\ d.calls = UNION {calls_[f] : f \in scanned}
    BY <1>3
  <2>2. \A T \in {calls_[f] : f \in scanned} : IsFiniteSet(T) /\ Placed(T)
    BY <1>1, <1>3, <1>4, CallRowsFinite
  <2> HIDE DEF calls_
  <2>3. IsFiniteSet({calls_[f] : f \in scanned})
    BY <1>1, <2>1, FiniteImage
  <2>4. QED
    BY <2>1, <2>2, <2>3, FS_UNION DEF Placed
<1>6. QED
  BY <1>4, <1>5 DEF d

(* RowsInv is inductive.                                                   *)
LEMMA NextKeepsRows ==
  ASSUME EdgesInv, RowsInv, [Next]_vars
  PROVE  RowsInv'
<1>1. ASSUME NEW f \in Files, IndexFile(f) PROVE RowsInv'
  BY <1>1, IndexFileKeepsRows
<1>2. CASE db' = db /\ (CacheDefs' = CacheDefs \/ CacheDefs' = {})
  BY <1>2, FS_EmptySet DEF RowsInv, Placed
<1>3. ASSUME NEW scanned \in SUBSET Files, db' = Rebuilt(db, scanned),
             CacheDefs' = CacheDefs \/ CacheDefs' = {}
      PROVE  RowsInv'
  BY <1>3, RebuildKeepsRows, FS_EmptySet DEF RowsInv, Placed
<1>4. CASE IndexAll \/ CliIndex
  <2>1. CASE IndexAll
    <3>1. CacheDefs' = {}
      BY <2>1 DEF IndexAll, CacheDefs
    <3>2. QED
      BY <1>3, <2>1, <3>1 DEF IndexAll
  <2>2. CASE CliIndex
    <3>1. CacheDefs' = CacheDefs /\ cli.files \in SUBSET Files
      BY <2>2 DEF CliIndex, CacheDefs, EdgesInv, CliOK
    <3>2. QED
      BY <1>3, <2>2, <3>1 DEF CliIndex
  <2>3. QED
    BY <1>4, <2>1, <2>2
<1>5. ASSUME NEW f, RollBack(f) PROVE RowsInv'
  <2>1. db' = db /\ CacheDefs' = {}
    BY <1>5 DEF RollBack, CacheDefs
  <2>2. QED
    BY <1>2, <2>1
<1>6. CASE Restart
  <2>1. db' = db /\ CacheDefs' = {}
    BY <1>6 DEF Restart, CacheDefs
  <2>2. QED
    BY <1>2, <2>1
<1>7. CASE UNCHANGED <<db, cache>>
  BY <1>2, <1>7 DEF CacheDefs
<1>8. QED
  BY <1>1, <1>4, <1>5, <1>6, <1>7
     DEF Next, vars, IndexFileRefused, IndexFileFails, IndexAllFails, Edit, RequestFull, CliScan, CliClear

-----------------------------------------------------------------------------
(* The walks of get_impact.                                                *)

LEMMA FunctionsFinite ==
  ASSUME NEW n \in Nat, NEW S, IsFiniteSet(S)
  PROVE  IsFiniteSet([1..n -> S])
<1> DEFINE A == [1..n -> S]
           B == SUBSET ((1..n) \X S)
           graph == [f \in A |-> {<<i, f[i]>> : i \in 1..n}]
<1>1. IsFiniteSet(B)
  <2>1. IsFiniteSet(1..n)
    BY FS_Interval
  <2>2. IsFiniteSet((1..n) \X S)
    BY <2>1, FS_Product
  <2>3. QED
    BY <2>2, FS_SUBSET
<1>2. graph \in [A -> B]
  <2>1. ASSUME NEW f \in A PROVE {<<i, f[i]>> : i \in 1..n} \in B
    OBVIOUS
  <2> HIDE DEF A, B
  <2>2. QED
    BY <2>1
<1>3. ASSUME NEW f \in A, NEW g \in A, graph[f] = graph[g] PROVE f = g
  <2>1. ASSUME NEW i \in 1..n PROVE f[i] = g[i]
    <3>1. <<i, f[i]>> \in graph[f]
      OBVIOUS
    <3>2. <<i, f[i]>> \in {<<j, g[j]>> : j \in 1..n}
      BY <1>3, <3>1
    <3>3. QED
      BY <3>2
  <2>2. QED
    BY <2>1
<1>4. graph \in Injection(A, B)
  <2> HIDE DEF A, B, graph
  <2> QED BY <1>2, <1>3 DEF Injection, IsInjective
<1>5. QED
  <2> HIDE DEF A, B, graph
  <2>1. IsFiniteSet(A)
    BY <1>1, <1>4, FS_Injection
  <2>2. QED
    BY <2>1 DEF A

(* A walk begins at a seed and ends at a function of the index.            *)
IsWalk(w, d, seeds, depth, dir, level) ==
  /\ Len(w) \in 1..depth /\ w \in [1..Len(w) -> ImpactEdges(d, dir, level)]
  /\ Near(w[1], dir) \in seeds \cap RowIds(d)
  /\ \A i \in 1..Len(w) - 1 : Near(w[i + 1], dir) = Far(w[i], dir)
  /\ Far(w[Len(w)], dir) \in RowIds(d)

(* The walks are finitely many: that is why a search with cycles ends.     *)
LEMMA WalksAreWalks ==
  ASSUME NEW d, NEW seeds, NEW depth \in Nat, NEW dir, NEW level, IsFiniteSet(d.calls)
  PROVE  /\ IsFiniteSet(walks(d, seeds, depth, dir, level))
         /\ \A w : w \in walks(d, seeds, depth, dir, level)
                     <=> IsWalk(w, d, seeds, depth, dir, level)
<1> DEFINE edges == ImpactEdges(d, dir, level)
           start == seeds \cap RowIds(d)
           of == [n \in 1..depth |-> WalksOf(n, edges, start, dir)]
<1>1. IsFiniteSet(edges)
  BY FS_Subset DEF ImpactEdges
<1>2. walks(d, seeds, depth, dir, level) = UNION {of[n] : n \in 1..depth}
  BY DEF walks
<1>3. ASSUME NEW n \in 1..depth PROVE IsFiniteSet(of[n])
  <2>1. of[n] \in SUBSET [1..n -> edges]
    BY DEF WalksOf
  <2>2. IsFiniteSet([1..n -> edges])
    BY <1>1, FunctionsFinite
  <2> HIDE DEF of, edges
  <2>3. QED
    BY <2>1, <2>2, FS_Subset
<1>4. IsFiniteSet(UNION {of[n] : n \in 1..depth})
  <2>1. IsFiniteSet(1..depth)
    BY FS_Interval
  <2>2. of = [n \in 1..depth |-> of[n]]
    OBVIOUS
  <2> HIDE DEF of
  <2>3. IsFiniteSet({of[n] : n \in 1..depth})
    BY <2>1, <2>2, FiniteImage
  <2>4. QED
    BY <1>3, <2>3, FS_UNION
<1>5. ASSUME NEW n \in Nat, NEW w \in [1..n -> edges] PROVE Len(w) = n
  <2>1. w \in Seq(edges)
    BY <1>5
  <2>2. QED
    BY <1>5, <2>1
<1>6. ASSUME NEW w, w \in walks(d, seeds, depth, dir, level)
      PROVE  IsWalk(w, d, seeds, depth, dir, level)
  <2>1. PICK n \in 1..depth : w \in of[n]
    BY <1>2, <1>6
  <2>2. w \in [1..n -> edges] /\ Near(w[1], dir) \in start
        /\ \A i \in 1..n - 1 : Near(w[i + 1], dir) = Far(w[i], dir)
    BY <2>1 DEF WalksOf
  <2>3. Len(w) = n
    BY <1>5, <2>2
  <2>4. Far(w[n], dir) \in RowIds(d)
    BY <2>2 DEF ImpactEdges
  <2>5. QED
    BY <2>2, <2>3, <2>4 DEF IsWalk
<1>7. ASSUME NEW w, IsWalk(w, d, seeds, depth, dir, level)
      PROVE  w \in walks(d, seeds, depth, dir, level)
  <2>1. Len(w) \in 1..depth /\ w \in of[Len(w)]
    BY <1>7 DEF IsWalk, WalksOf
  <2>2. QED
    BY <1>2, <2>1
<1>8. QED
  BY <1>2, <1>4, <1>6, <1>7

(* The row of an id.                                                       *)
LEMMA RowOfId ==
  ASSUME NEW d, NEW id \in RowIds(d)
  PROVE  RowOf(d, id) \in d.funcs /\ Id(RowOf(d, id)) = id
BY DEF RowIds, RowOf

(* The rows that the walks give.                                           *)
ImpactRows(d, seeds, depth, dir, level) ==
  {impactedNode(d, w, dir) : w \in walks(d, seeds, depth, dir, level)}

(* A node is a function of the index and names a seed as its cause.        *)
LEMMA ImpactNode ==
  ASSUME NEW d, NEW seeds, NEW depth \in Nat, NEW dir, NEW level, NEW w,
         IsWalk(w, d, seeds, depth, dir, level)
  PROVE  LET x == impactedNode(d, w, dir)
         IN  /\ x.id = Far(w[Len(w)], dir) /\ x.id \in RowIds(d)
             /\ x.name = RowOf(d, x.id).name /\ x.file = RowOf(d, x.id).file
             /\ x.depth = Len(w) /\ x.depth \in 1..depth
             /\ \E y \in d.funcs : Id(y) \in seeds /\ x.via = y.name
<1> DEFINE x == impactedNode(d, w, dir)
           end == RowOf(d, Far(w[Len(w)], dir))
           first == RowOf(d, Near(w[1], dir))
<1>1. end \in d.funcs /\ Id(end) = Far(w[Len(w)], dir)
  BY RowOfId DEF IsWalk
<1>2. first \in d.funcs /\ Id(first) \in seeds
  BY RowOfId DEF IsWalk
<1>3. x = [id |-> Id(end), name |-> end.name, file |-> end.file, depth |-> Len(w),
           via |-> first.name, walk |-> w]
  BY DEF impactedNode
<1>4. /\ x.id = Id(end) /\ x.name = end.name /\ x.file = end.file /\ x.depth = Len(w)
      /\ x.via = first.name
  BY <1>3
<1> HIDE DEF x, end, first
<1>5. x.id = Far(w[Len(w)], dir) /\ end = RowOf(d, x.id)
  BY <1>1, <1>4 DEF end
<1>6. QED
  BY <1>1, <1>2, <1>4, <1>5 DEF IsWalk, x

(* The rows of the walks are finitely many and can be put in order.        *)
LEMMA ImpactRowsSort ==
  ASSUME NEW d, NEW seeds, NEW depth \in Nat, NEW dir, NEW level,
         IsFiniteSet(d.calls), Placed(d.funcs)
  PROVE  /\ IsFiniteSet(ImpactRows(d, seeds, depth, dir, level))
         /\ Sortable(ImpactRows(d, seeds, depth, dir, level))
<1> DEFINE W == walks(d, seeds, depth, dir, level)
           node == [w \in W |-> impactedNode(d, w, dir)]
<1>1. IsFiniteSet(W) /\ \A w \in W : IsWalk(w, d, seeds, depth, dir, level)
  BY WalksAreWalks
<1>2. ImpactRows(d, seeds, depth, dir, level) = {node[w] : w \in W} /\ node = [w \in W |-> node[w]]
  BY DEF ImpactRows
<1>3. ASSUME NEW w \in W
      PROVE  node[w].depth \in Nat /\ NamePlace[node[w].name] \in Nat
  <2>1. /\ node[w].depth \in 1..depth /\ node[w].id \in RowIds(d)
        /\ node[w].name = RowOf(d, node[w].id).name
    BY <1>1, ImpactNode
  <2>2. RowOf(d, node[w].id) \in d.funcs
    BY <2>1, RowOfId
  <2>3. QED
    BY <2>1, <2>2 DEF Placed
<1> HIDE DEF node, W
<1>4. IsFiniteSet({node[w] : w \in W})
  BY <1>1, <1>2, FiniteImage
<1>5. QED
  BY <1>2, <1>3, <1>4 DEF Sortable

-----------------------------------------------------------------------------
(* ImpactConcernsChange.                                                   *)

(* A list of nodes that are all there on account of names.                 *)
Via(names, nodes) == \E S : nodes \in Seq(S) /\ \A x \in S : x.via \in names

(* A function that has a seed for its id has one of the names.             *)
SeedsNamed(d, seeds, names) == \A x \in d.funcs : Id(x) \in seeds => x.name \in names

(* Every node that collect returns is there on account of a seed.          *)
LEMMA CollectConcerns ==
  ASSUME NEW d, NEW seeds, NEW depth \in Nat, NEW dir, NEW level, NEW tests, NEW names,
         IsFiniteSet(d.calls), Placed(d.funcs), SeedsNamed(d, seeds, names)
  PROVE  Via(names, collect(d, seeds, depth, dir, level, tests))
<1> DEFINE rows == ImpactRows(d, seeds, depth, dir, level)
           kept == Limited(rows, MaxNodes + 1)
           wanted == {n \in kept : tests \/ n.file \notin TestFiles}
<1>1. IsFiniteSet(rows) /\ Sortable(rows)
  BY ImpactRowsSort
<1>2. \A x \in rows : x.via \in names
  <2>1. ASSUME NEW w, w \in walks(d, seeds, depth, dir, level)
        PROVE  impactedNode(d, w, dir).via \in names
    BY <2>1, WalksAreWalks, ImpactNode DEF SeedsNamed
  <2>2. QED
    BY <2>1 DEF ImpactRows
<1>3. collect(d, seeds, depth, dir, level, tests) = Ordered(wanted, {"id"})
  BY DEF collect, ImpactRows
<1> HIDE DEF rows
<1>4. kept \subseteq rows
  BY <1>1, SearchAssumption, LimitedRows
<1> HIDE DEF kept
<1>5. wanted \in SUBSET rows /\ Sortable(wanted)
  BY <1>1, <1>4 DEF Sortable
<1>6. IsFiniteSet(wanted)
  BY <1>1, <1>5, FS_Subset
<1> HIDE DEF wanted
<1>7. Ordered(wanted, {"id"}) \in Seq(wanted)
  BY <1>5, <1>6, OrderedRows
<1>8. QED
  BY <1>2, <1>3, <1>5, <1>7 DEF Via

(* Combining two walks and capping the result adds no node.                *)
LEMMA CappedConcern ==
  ASSUME NEW names, NEW up, NEW down, NEW dir, Via(names, up), Via(names, down)
  PROVE  LET nodes == Capped(Combined(up, down, dir))
         IN  \A i \in DOMAIN nodes : nodes[i].via \in names
<1>1. PICK S : up \in Seq(S) /\ \A x \in S : x.via \in names
  BY DEF Via
<1>2. PICK T : down \in Seq(T) /\ \A x \in T : x.via \in names
  BY DEF Via
<1> DEFINE U == S \cup T
           all == up \o down
<1>3. all \in Seq(U) /\ \A x \in U : x.via \in names
  <2>1. up \in Seq(U) /\ down \in Seq(U)
    BY <1>1, <1>2
  <2>2. QED
    BY <1>1, <1>2, <2>1
<1>4. PICK I : Combined(up, down, dir) = Picked(all, I)
  BY DEF Combined
<1> HIDE DEF all, U
<1>5. Picked(all, I) \in Seq(U)
  BY <1>3, PickedEntries DEF PickedSoFar
<1>6. /\ DOMAIN Capped(Picked(all, I)) \subseteq DOMAIN Picked(all, I)
      /\ \A i \in DOMAIN Capped(Picked(all, I)) : Capped(Picked(all, I))[i] = Picked(all, I)[i]
  BY <1>5, AtMostEntries, SearchAssumption DEF Capped
<1>7. \A i \in DOMAIN Picked(all, I) : Picked(all, I)[i].via \in names
  BY <1>3, <1>5
<1>8. QED
  BY <1>4, <1>6, <1>7

(* While get_impact is at work, every row that has an id of a seed is of a *)
(* changed function: rows that come later have ids of their own.           *)
SeedsOK(d, g, w) ==
  /\ DOMAIN w.data = {"files", "seeds", "changed", "up", "down"}
  /\ w.stage \in {"seeds", "down", "health"}
  /\ \A id \in w.data.seeds : id[1] \in 1..g - 1
  /\ SeedsNamed(d, w.data.seeds, w.data.changed)
  /\ Via(w.data.changed, w.data.up) /\ Via(w.data.changed, w.data.down)

SeedsInv ==
  work # Nothing /\ line.tool = "get_impact" => line.args # Unreadable /\ SeedsOK(db, gen, work)

ConcernInv ==
  /\ LineInv /\ EdgesInv /\ RowsInv /\ SeedsInv
  /\ ImpactConcernsChange

(* What a transaction brings in is of its own generation.                  *)
LEMMA NewFuncs ==
  ASSUME EdgesInv, [Next]_vars
  PROVE  /\ gen \in Nat /\ gen' \in Nat /\ gen <= gen'
         /\ \A x \in db'.funcs : x \in db.funcs \/ x.gen = gen
<1>1. ASSUME NEW f \in Files, db' = Linked(f) PROVE \A x \in db'.funcs : x \in db.funcs \/ x.gen = gen
  BY <1>1, LinkedFuncs, FuncRow DEF EdgesInv, OfOthers
<1>2. ASSUME NEW scanned, db' = Rebuilt(db, scanned) PROVE \A x \in db'.funcs : x.gen = gen
  BY <1>2, RebuiltRows, FuncRow
<1>3. gen \in Nat
  BY DEF EdgesInv, IdsInv
<1>4. db' = db \/ (\E f \in Files : db' = Linked(f)) \/ (\E scanned : db' = Rebuilt(db, scanned))
  BY DEF Next, vars, IndexFile, IndexFileRefused, IndexFileFails, RollBack, IndexAll, IndexAllFails,
         Edit, Restart, RequestFull, CliScan, CliIndex, CliClear
<1>5. gen' = gen \/ gen' = gen + 1
  BY DEF Next, vars, IndexFile, IndexFileRefused, IndexFileFails, RollBack, IndexAll, IndexAllFails,
         Edit, Restart, RequestFull, CliScan, CliIndex, CliClear
<1>6. QED
  BY <1>1, <1>2, <1>3, <1>4, <1>5

(* No commit gives an id that was read as a seed to another function.      *)
LEMMA SeedsStay ==
  ASSUME EdgesInv, [Next]_vars, NEW w, SeedsOK(db, gen, w)
  PROVE  SeedsOK(db', gen', w)
<1>1. /\ gen \in Nat /\ gen' \in Nat /\ gen <= gen'
      /\ \A x \in db'.funcs : x \in db.funcs \/ x.gen = gen
  BY NewFuncs
<1>2. \A id \in w.data.seeds : id[1] \in 1..gen' - 1
  BY <1>1 DEF SeedsOK
<1>3. ASSUME NEW x \in db'.funcs, Id(x) \in w.data.seeds PROVE x.name \in w.data.changed
  <2>1. Id(x)[1] = x.gen
    BY DEF Id
  <2>2. x.gen # gen
    BY <1>1, <1>3, <2>1 DEF SeedsOK
  <2>3. QED
    BY <1>1, <1>3, <2>2 DEF SeedsOK, SeedsNamed
<1>4. QED
  BY <1>2, <1>3 DEF SeedsOK, SeedsNamed

(* More changed names excuse the same nodes.                               *)
LEMMA WiderVia ==
  ASSUME NEW names, NEW more, NEW nodes, Via(names, nodes)
  PROVE  Via(names \cup more, nodes)
BY DEF Via

(* Reading the functions of a changed file adds seeds with their names.    *)
LEMMA SymbolsAreSeeds ==
  ASSUME NothingApart, LineInv, EdgesInv, SeedsInv, SymbolsInFile
  PROVE  SeedsOK(db, gen, work')
<1> DEFINE rows == OfFile(db.funcs, Head(work.data.files))
           ids == {Id(x) : x \in rows}
           names == {x.name : x \in rows}
           d == [work.data EXCEPT !.files = Tail(@), !.seeds = @ \cup ids, !.changed = @ \cup names]
<1>1. SeedsOK(db, gen, work) /\ work # Nothing
  BY DEF SymbolsInFile, At, SeedsInv
<1>2. /\ d.seeds = work.data.seeds \cup ids /\ d.changed = work.data.changed \cup names
      /\ d.up = work.data.up /\ d.down = work.data.down /\ DOMAIN d = DOMAIN work.data
  BY <1>1 DEF SeedsOK
<1>3. work'.stage = "seeds" /\ work'.data = d
  BY ReadResult DEF SymbolsInFile, At
<1>4. ASSUME NEW x \in rows PROVE Id(x)[1] \in 1..gen - 1
  BY DEF EdgesInv, IdsInv, OfFile, Id
<1>5. ASSUME NEW x \in db.funcs, Id(x) \in ids PROVE x.name \in names
  <2>1. PICK y \in rows : Id(y) = Id(x)
    BY <1>5
  <2>2. x = y
    BY <2>1 DEF EdgesInv, IdsInv, Unique, OfFile
  <2>3. QED
    BY <2>2
<1> HIDE DEF d, names
<1>6. Via(d.changed, d.up) /\ Via(d.changed, d.down)
  <2>1. Via(work.data.changed, work.data.up) /\ Via(work.data.changed, work.data.down)
    BY <1>1 DEF SeedsOK
  <2>2. /\ Via(work.data.changed \cup names, work.data.up)
        /\ Via(work.data.changed \cup names, work.data.down)
    BY <2>1, WiderVia, Zenon
  <2>3. QED
    BY <1>2, <2>2, Zenon
<1>7. SeedsNamed(db, d.seeds, d.changed)
  BY <1>1, <1>2, <1>5 DEF SeedsOK, SeedsNamed
<1>8. \A id \in d.seeds : id[1] \in 1..gen - 1
  BY <1>1, <1>2, <1>4 DEF SeedsOK
<1>9. QED
  BY <1>1, <1>2, <1>3, <1>6, <1>7, <1>8 DEF SeedsOK

(* The depth and the limit of a search are clamped.                        *)
LEMMA ReadableSearch ==
  ASSUME LineInv, work # Nothing, line.tool \in {"get_impact", "get_call_chain"},
         line.args # Unreadable
  PROVE  /\ line.args.depth \in Nat \ {0}
         /\ line.tool = "get_call_chain" => line.args.limit \in Nat \ {0}
<1>1. line \in Lines /\ IsGraphSearch(line)
  BY DEF LineInv, IsToolRequest, IsGraphSearch
<1>2. QED
  BY <1>1, GraphSearchAssumption

(* A walk reports only what its seeds account for.                         *)
LEMMA WalksConcern ==
  ASSUME NothingApart, LineInv, RowsInv, SeedsInv, WalkUp \/ WalkDown
  PROVE  SeedsOK(db, gen, work')
<1>0. work # Nothing /\ line.tool = "get_impact"
  BY DEF WalkUp, WalkDown, At
<1>1. SeedsOK(db, gen, work) /\ line.args.depth \in Nat
  BY <1>0, ReadableSearch DEF SeedsInv
<1>2. ASSUME NEW dir PROVE Via(work.data.changed, Walk(dir))
  BY <1>1, CollectConcerns DEF Walk, SeedsOK, RowsInv
<1>3. CASE WalkUp
  <2> DEFINE d == [work.data EXCEPT !.up = Walk("callers")]
  <2>1. work'.stage = "down" /\ work'.data \in {work.data, d}
    BY <1>3, ReadResult DEF WalkUp, At
  <2>2. /\ DOMAIN d = DOMAIN work.data /\ d.up = Walk("callers") /\ d.down = work.data.down
        /\ d.seeds = work.data.seeds /\ d.changed = work.data.changed
    BY <1>1 DEF SeedsOK
  <2> HIDE DEF d
  <2>3. QED
    BY <1>1, <1>2, <2>1, <2>2 DEF SeedsOK
<1>4. CASE WalkDown
  <2> DEFINE d == [work.data EXCEPT !.down = Walk("callees")]
  <2>1. work'.stage = "health" /\ work'.data \in {work.data, d}
    BY <1>4, ReadResult DEF WalkDown, At
  <2>2. /\ DOMAIN d = DOMAIN work.data /\ d.down = Walk("callees") /\ d.up = work.data.up
        /\ d.seeds = work.data.seeds /\ d.changed = work.data.changed
    BY <1>1 DEF SeedsOK
  <2> HIDE DEF d
  <2>3. QED
    BY <1>1, <1>2, <2>1, <2>2 DEF SeedsOK
<1>5. QED
  BY <1>3, <1>4

(* A call of get_impact begins without seeds.                              *)
LEMMA ImpactBegins ==
  ASSUME StartImpact, work' # Nothing, work = Nothing
  PROVE  line.args # Unreadable /\ SeedsOK(db, gen, work')
<1>1. PICK files :
        Begin("seeds", [files |-> files, seeds |-> {}, changed |-> {}, up |-> <<>>, down |-> <<>>])
  BY DEF StartImpact, Respond
<1> DEFINE d == [files |-> files, seeds |-> {}, changed |-> {}, up |-> <<>>, down |-> <<>>]
<1>2. /\ DOMAIN d = {"files", "seeds", "changed", "up", "down"}
      /\ d.seeds = {} /\ d.changed = {} /\ d.up = <<>> /\ d.down = <<>>
  OBVIOUS
<1>3. Via({}, <<>>)
  <2>1. ASSUME NEW S, S = {} PROVE Via({}, <<>>)
    <3>1. <<>> \in Seq(S) /\ \A x \in S : x.via \in {}
      BY <2>1
    <3>2. QED
      BY <3>1 DEF Via
  <2>2. QED
    BY <2>1
<1> HIDE DEF d
<1>4. work'.stage = "seeds" /\ work'.data = d
  BY <1>1 DEF Begin, d
<1>5. QED
  BY <1>2, <1>3, <1>4 DEF SeedsOK, SeedsNamed, StartImpact

(* The answer has the nodes of both walks.                                 *)
LEMMA AnswersConcern ==
  ASSUME LineInv, SeedsInv, AnswerImpact
  PROVE  ImpactConcernsChange'
<1> DEFINE nodes == Capped(Combined(work.data.up, work.data.down, line.args.direction))
<1>1. work # Nothing /\ line.tool = "get_impact"
  BY DEF AnswerImpact, At
<1>2. PICK truncated, warned :
        Answer([changed |-> work.data.changed, nodes |-> nodes, truncated |-> truncated, warned |-> warned])
  BY DEF AnswerImpact
<1> HIDE DEF nodes
<1>3. reply'.body.changed = work.data.changed /\ reply'.body.nodes = nodes
  BY <1>2 DEF Answer, Respond
<1>4. \A i \in DOMAIN nodes : nodes[i].via \in work.data.changed
  BY <1>1, CappedConcern DEF SeedsInv, SeedsOK, nodes
<1>5. QED
  BY <1>3, <1>4 DEF ImpactConcernsChange

(* No other step answers a call of get_impact.                             *)
LEMMA ImpactAnswersComeFrom ==
  ASSUME LineInv, ServerStep, reply' # reply, reply' # Nothing,
         reply'.kind = "answer", reply'.to.tool = "get_impact"
  PROVE  AnswerImpact
<1>1. ASSUME NEW r, Respond(r) PROVE reply' = r
  BY <1>1 DEF Respond
<1>2. \A code : ToolError(line, code).kind # "answer" /\ RpcError(Nothing, code).kind # "answer"
  BY DEF ToolError, RpcError
<1>3. Plain(line).kind # "answer"
  BY PlainMessage
<1>4. ASSUME NEW body, Answer(body) PROVE line.tool = "get_impact"
  BY <1>4 DEF Answer, Respond
<1>5. ~(AnswerGarbage \/ Stop \/ handleMethod \/ InvalidArguments)
  BY <1>1, <1>2, <1>3 DEF AnswerGarbage, Stop, handleMethod, InvalidArguments
<1>6. ~CountCall
  BY <1>1, <1>2 DEF CountCall
<1>7. ~StartImpact
  BY <1>1, <1>2 DEF StartImpact
<1>8. ~AnswerArchitecture
  BY <1>1, <1>2, <1>4 DEF AnswerArchitecture, IsToolCall
<1>9. ~(AnswerUnsearchable \/ StatementFails \/ HandlerPanics)
  BY <1>1, <1>2 DEF AnswerUnsearchable, StatementFails, HandlerPanics
<1>10. ~(AnswerDefinition \/ AnswerQuery \/ AnswerChain)
  BY <1>4 DEF AnswerDefinition, AnswerQuery, AnswerChain, At
<1>11. ~(DropBlank \/ DropNotification \/ ReadDefinitions \/ SearchTables \/ Expand \/ TraceChain
         \/ SymbolsInFile \/ WalkUp \/ WalkDown)
  BY DEF DropBlank, DropNotification, ReadDefinitions, SearchTables, Reads, Expand, TraceChain,
         SymbolsInFile, WalkUp, WalkDown, Read, Start
<1>12. QED
  BY <1>5, <1>6, <1>7, <1>8, <1>9, <1>10, <1>11 DEF ServerStep

(* These steps lead a call of get_impact from stage to stage.              *)
LEMMA ImpactSteps ==
  ASSUME work # Nothing, work' # Nothing, line.tool = "get_impact", ServerStep
  PROVE  SymbolsInFile \/ WalkUp \/ WalkDown
<1>1. \A body : ~Answer(body)
  BY DEF Answer, Respond
<1>2. \A r : ~Respond(r)
  BY DEF Respond
<1>3. ~StatementFails /\ ~HandlerPanics /\ ~AnswerUnsearchable
  BY <1>2 DEF StatementFails, HandlerPanics, AnswerUnsearchable
<1>4. ~(AnswerDefinition \/ AnswerQuery \/ AnswerChain \/ AnswerImpact)
  BY <1>1 DEF AnswerDefinition, AnswerQuery, AnswerChain, AnswerImpact
<1>5. ~(ReadDefinitions \/ SearchTables \/ Expand \/ TraceChain)
  BY DEF ReadDefinitions, SearchTables, Reads, Expand, TraceChain, At, Start, IsToolCall, IsRequest
<1>6. QED
  BY <1>3, <1>4, <1>5 DEF ServerStep

(* SeedsInv is kept by the steps of a call in progress,                    *)
LEMMA SeedsOnTheWay ==
  ASSUME NothingApart, ConcernInv, work # Nothing, ServerStep, UNCHANGED <<db, gen>>
  PROVE  SeedsInv'
<1>1. CASE work' = Nothing
  BY <1>1 DEF SeedsInv
<1>2. CASE work' # Nothing /\ line.tool = "get_impact"
  <2>0. LineInv /\ EdgesInv /\ RowsInv /\ SeedsInv /\ line.args # Unreadable /\ line' = line
    <3>1. LineInv /\ EdgesInv /\ RowsInv /\ SeedsInv
      BY DEF ConcernInv
    <3>2. line' = line
      BY <1>2, <3>1, ServerSteps DEF Begins, GoesOn, Answers, Discards
    <3>3. QED
      BY <1>2, <3>1, <3>2 DEF SeedsInv
  <2>1. SymbolsInFile \/ WalkUp \/ WalkDown
    BY <1>2, ImpactSteps
  <2>2. SeedsOK(db, gen, work')
    BY <2>0, <2>1, SymbolsAreSeeds, WalksConcern
  <2>3. QED
    BY <2>0, <2>2 DEF SeedsInv
<1>3. CASE work' # Nothing /\ line.tool # "get_impact"
  <2>1. line' = line
    BY <1>3, ServerSteps DEF ConcernInv, Begins, GoesOn, Answers, Discards
  <2>2. QED
    BY <1>3, <2>1 DEF SeedsInv
<1>4. QED
  BY <1>1, <1>2, <1>3

(* and by the steps that begin one or answer at once.                      *)
LEMMA SeedsAtFirst ==
  ASSUME NothingApart, ConcernInv, work = Nothing, ServerStep, UNCHANGED <<db, gen>>
  PROVE  SeedsInv'
<1>1. CASE work' = Nothing
  BY <1>1 DEF SeedsInv
<1>2. CASE StartImpact
  <2>1. CASE work' # Nothing
    <3>1. line' = line
      BY <1>2, <2>1 DEF StartImpact, Respond
    <3>2. QED
      BY <1>2, <2>1, <3>1, ImpactBegins DEF SeedsInv
  <2>2. QED
    BY <1>1, <2>1
<1>3. CASE \/ CountCall \/ ReadDefinitions \/ TraceChain
  <2>1. line.tool # "get_impact" /\ (work' = Nothing \/ line' = line)
    BY <1>3 DEF CountCall, ReadDefinitions, TraceChain, Start, At, IsToolCall, Respond
  <2>2. QED
    BY <1>1, <2>1 DEF SeedsInv
<1>4. CASE \/ DropBlank \/ AnswerGarbage \/ Stop \/ DropNotification
           \/ handleMethod \/ InvalidArguments \/ AnswerArchitecture
  BY <1>1, <1>4 DEF DropBlank, AnswerGarbage, Stop, DropNotification, handleMethod, InvalidArguments,
                    AnswerArchitecture, Answer, Respond
<1>5. QED
  BY <1>2, <1>3, <1>4 DEF ServerStep

(* Commits of other processes leave a call what it has read.               *)
LEMMA OthersKeepData ==
  ASSUME LineInv, work # Nothing, IncrementalWork \/ FullWork \/ Outside
  PROVE  work'.data = work.data /\ work'.stage = work.stage
<1>1. CASE Tear
  <2>1. /\ [work EXCEPT !.torn = TRUE].data = work.data
        /\ [work EXCEPT !.torn = TRUE].stage = work.stage
    BY DEF LineInv, InProgress
  <2>2. QED
    BY <1>1, <2>1 DEF Tear
<1>2. QED
  BY <1>1 DEF IncrementalWork, FullWork, Outside

(* ConcernInv is inductive.                                                *)
LEMMA ConcernKept ==
  ASSUME NothingApart, ConcernInv, [SessionNext]_allVars
  PROVE  ConcernInv'
<1>1. LineInv /\ EdgesInv /\ RowsInv /\ SeedsInv /\ ImpactConcernsChange /\ [Next]_vars
  BY SessionTakesSteps DEF ConcernInv, allVars
<1>2. LineInv' /\ EdgesInv' /\ RowsInv'
  BY <1>1, LineKept, NextKeepsEdges, NextKeepsRows
<1>3. CASE ServerStep /\ UNCHANGED vars
  <2>1. UNCHANGED <<db, gen>>
    BY <1>3 DEF vars
  <2>2. SeedsInv'
    BY <1>3, <2>1, SeedsAtFirst, SeedsOnTheWay
  <2>3. ImpactConcernsChange'
    <3>1. CASE reply' = reply
      BY <1>1, <3>1 DEF ImpactConcernsChange
    <3>2. CASE reply' # reply
      BY <1>1, <1>3, <3>2, ImpactAnswersComeFrom, AnswersConcern DEF ImpactConcernsChange
    <3>3. QED
      BY <3>1, <3>2
  <2>4. QED
    BY <1>2, <2>2, <2>3 DEF ConcernInv
<1>4. CASE IncrementalWork \/ FullWork \/ Outside
  <2>1. Elsewhere
    BY <1>1, <1>4, ElsewhereSteps
  <2>2. ImpactConcernsChange'
    BY <2>1 DEF Elsewhere, ImpactConcernsChange
  <2>3. SeedsInv'
    <3>1. CASE work = Nothing
      BY <2>1, <3>1 DEF Elsewhere, SeedsInv
    <3>2. CASE work # Nothing /\ line.tool = "get_impact"
      <4>1. SeedsOK(db', gen', work)
        BY <1>1, <3>2, SeedsStay DEF SeedsInv
      <4>2. work'.data = work.data /\ work'.stage = work.stage
        BY <1>1, <1>4, <3>2, OthersKeepData
      <4>3. SeedsOK(db', gen', work')
        BY <4>1, <4>2 DEF SeedsOK
      <4>4. QED
        BY <1>1, <2>1, <3>2, <4>3 DEF Elsewhere, SeedsInv
    <3>3. CASE line.tool # "get_impact"
      BY <2>1, <3>3 DEF Elsewhere, SeedsInv
    <3>4. QED
      BY <3>1, <3>2, <3>3
  <2>4. QED
    BY <1>2, <2>2, <2>3 DEF ConcernInv
<1>5. CASE NewSession
  <2>1. SeedsInv' /\ ImpactConcernsChange'
    BY <1>5 DEF NewSession, SeedsInv, ImpactConcernsChange
  <2>2. QED
    BY <1>2, <2>1 DEF ConcernInv
<1>6. ASSUME NEW l \in Lines, Send(l), UNCHANGED <<vars, summary>> PROVE ConcernInv'
  <2>1. work' = Nothing /\ reply' \in {reply, Nothing}
    BY <1>1, <1>6 DEF Send, LineInv
  <2>2. SeedsInv' /\ ImpactConcernsChange'
    BY <1>1, <2>1 DEF SeedsInv, ImpactConcernsChange
  <2>3. QED
    BY <1>2, <2>2 DEF ConcernInv
<1>7. CASE UNCHANGED allVars
  <2>1. SeedsInv' /\ ImpactConcernsChange'
    BY <1>1, <1>7 DEF allVars, vars, session, SeedsInv, ImpactConcernsChange
  <2>2. QED
    BY <1>2, <2>1 DEF ConcernInv
<1>8. QED
  BY <1>3, <1>4, <1>5, <1>6, <1>7 DEF SessionNext, Client

(* It holds at first.                                                      *)
LEMMA SessionStartsConcerned == SessionInit => ConcernInv
<1> SUFFICES ASSUME SessionInit PROVE ConcernInv
  OBVIOUS
<1>1. EdgesInv
  BY SessionStartsTyped DEF SessionTypeInv, TypeInv
<1>2. RowsInv
  <2>1. db.funcs = {} /\ db.calls = {} /\ CacheDefs = {}
    BY DEF SessionInit, EmptyDb, CacheDefs
  <2>2. QED
    BY <2>1, FS_EmptySet DEF RowsInv, Placed
<1>3. LineInv /\ SeedsInv /\ ImpactConcernsChange
  BY DEF SessionInit, LineInv, SeedsInv, ImpactConcernsChange
<1>4. QED
  BY <1>1, <1>2, <1>3 DEF ConcernInv

(* Whatever is reindexed while get_impact is at work, no function is       *)
(* reported on account of another than the changed ones.                   *)
THEOREM ImpactStaysWithTheChange ==
  ASSUME NothingApart
  PROVE  SessionSpec => []ImpactConcernsChange
<1>1. SessionInit => ConcernInv
  BY SessionStartsConcerned
<1>2. ConcernInv /\ [SessionNext]_allVars => ConcernInv'
  BY ConcernKept
<1>3. ConcernInv => ImpactConcernsChange
  BY DEF ConcernInv
<1>4. QED
  BY <1>1, <1>2, <1>3, PTL DEF SessionSpec

-----------------------------------------------------------------------------
(* ImpactNearestFirst.                                                     *)

(* A function is in the n-th layer when a walk of n edges ends in it.      *)
LEMMA LayersAreEnds ==
  ASSUME NEW d, NEW seeds, NEW depth \in Nat, NEW dir, NEW level, NEW n \in 1..depth, NEW id
  PROVE  id \in Layer(ImpactEdges(d, dir, level), dir, seeds \cap RowIds(d), n)
           <=> \E w : IsWalk(w, d, seeds, depth, dir, level) /\ Len(w) = n /\ Far(w[n], dir) = id
<1> DEFINE edges == ImpactEdges(d, dir, level)
           start == seeds \cap RowIds(d)
           L(k) == Layer(edges, dir, start, k)
           walk(w, k) == /\ w \in [1..k -> edges] /\ Near(w[1], dir) \in start
                         /\ \A i \in 1..k - 1 : Near(w[i + 1], dir) = Far(w[i], dir)
           N == {k \in 0..depth :
                   k # 0 => \A x : x \in L(k) <=> \E w : walk(w, k) /\ Far(w[k], dir) = x}
<1>1. L(0) = start /\ \A k \in Nat : L(k + 1) = Step(edges, dir, L(k))
  BY LayerSteps
<1>2. \A k \in Nat : \A x : x \in L(k + 1) <=> \E c \in edges : Near(c, dir) \in L(k) /\ Far(c, dir) = x
  <2> HIDE DEF L, edges
  <2> QED BY <1>1 DEF Step
<1> HIDE DEF L
<1>3. ASSUME NEW k \in 1..depth, k - 1 \in N PROVE k \in N
  <2>1. CASE k = 1
    <3>1. ASSUME NEW c \in edges, Near(c, dir) \in start
          PROVE  walk([i \in 1..1 |-> c], 1) /\ Far([i \in 1..1 |-> c][1], dir) = Far(c, dir)
      BY <3>1
    <3>2. ASSUME NEW w, walk(w, 1) PROVE w[1] \in edges /\ Near(w[1], dir) \in start
      BY <3>2
    <3>3. \A x : x \in L(1) <=> \E c \in edges : Near(c, dir) \in start /\ Far(c, dir) = x
      <4>1. 0 \in Nat /\ 0 + 1 = 1
        OBVIOUS
      <4> HIDE DEF edges, start
      <4>2. QED
        BY <1>1, <1>2, <4>1
    <3>4. ASSUME NEW x PROVE x \in L(1) <=> \E w : walk(w, 1) /\ Far(w[1], dir) = x
      <4> HIDE DEF edges, start, walk
      <4>1. CASE x \in L(1)
        <5>1. PICK c \in edges : Near(c, dir) \in start /\ Far(c, dir) = x
          BY <3>3, <4>1
        <5>2. QED
          BY <3>1, <4>1, <5>1
      <4>2. ASSUME NEW w, walk(w, 1), Far(w[1], dir) = x PROVE x \in L(1)
        BY <3>2, <3>3, <4>2
      <4>3. QED
        BY <4>1, <4>2
    <3>5. QED
      BY <2>1, <3>4
  <2>2. CASE k # 1
    <3> DEFINE m == k - 1
    <3>0. m \in Nat /\ m \in 1..depth /\ k = m + 1 /\ m # 0
      BY <2>2
    <3>1. \A x : x \in L(m) <=> \E w : walk(w, m) /\ Far(w[m], dir) = x
      BY <1>3, <3>0
    <3>2. ASSUME NEW w, walk(w, m), NEW c \in edges, Near(c, dir) = Far(w[m], dir)
          PROVE  \E v : walk(v, k) /\ Far(v[k], dir) = Far(c, dir)
      <4> DEFINE v == [i \in 1..k |-> IF i = k THEN c ELSE w[i]]
      <4>1. v \in [1..k -> edges]
        <5> HIDE DEF edges
        <5> QED BY <3>0, <3>2
      <4>2. v[1] = w[1] /\ v[k] = c /\ \A i \in 1..m : v[i] = w[i]
        BY <3>0
      <4>3. ASSUME NEW i \in 1..k - 1 PROVE Near(v[i + 1], dir) = Far(v[i], dir)
        <5>1. CASE i = m
          BY <3>0, <3>2, <4>2, <5>1
        <5>2. CASE i # m
          <6>1. i \in 1..m - 1 /\ i \in 1..m /\ i + 1 \in 1..m
            BY <3>0, <5>2
          <6> HIDE DEF v
          <6>2. QED
            BY <3>2, <4>2, <6>1
        <5>3. QED
          BY <5>1, <5>2
      <4> HIDE DEF v
      <4>4. walk(v, k)
        BY <3>2, <4>1, <4>2, <4>3
      <4>5. QED
        <5> HIDE DEF walk
        <5> QED BY <4>2, <4>4
    <3>3. ASSUME NEW v, walk(v, k)
          PROVE  \E w : walk(w, m) /\ Near(v[k], dir) = Far(w[m], dir) /\ v[k] \in edges
      <4> DEFINE w == [i \in 1..m |-> v[i]]
      <4>1. w \in [1..m -> edges] /\ v[k] \in edges
        <5> HIDE DEF edges
        <5> QED BY <3>0, <3>3
      <4>2. w[1] = v[1] /\ \A i \in 1..m : w[i] = v[i]
        BY <3>0
      <4>3. ASSUME NEW i \in 1..m - 1 PROVE Near(w[i + 1], dir) = Far(w[i], dir)
        <5>1. i \in 1..k - 1 /\ i \in 1..m /\ i + 1 \in 1..m
          BY <3>0
        <5> HIDE DEF w
        <5>2. QED
          BY <3>3, <4>2, <5>1
      <4>4. Near(v[k], dir) = Far(w[m], dir)
        <5>1. m \in 1..k - 1 /\ m \in 1..m
          BY <3>0
        <5> HIDE DEF w
        <5>2. QED
          BY <3>0, <3>3, <4>2, <5>1
      <4> HIDE DEF w
      <4>5. walk(w, m)
        BY <3>3, <4>1, <4>2, <4>3
      <4>6. QED
        <5> HIDE DEF walk
        <5> QED BY <4>1, <4>4, <4>5
    <3>4. ASSUME NEW x PROVE x \in L(k) <=> \E v : walk(v, k) /\ Far(v[k], dir) = x
      <4> HIDE DEF edges, start, walk
      <4>1. CASE x \in L(k)
        <5>1. PICK c \in edges : Near(c, dir) \in L(m) /\ Far(c, dir) = x
          BY <1>2, <3>0, <4>1
        <5>2. PICK w : walk(w, m) /\ Far(w[m], dir) = Near(c, dir)
          BY <3>1, <5>1
        <5>3. QED
          BY <3>2, <4>1, <5>1, <5>2
      <4>2. ASSUME NEW v, walk(v, k), Far(v[k], dir) = x PROVE x \in L(k)
        <5>1. Near(v[k], dir) \in L(m) /\ v[k] \in edges
          BY <3>1, <3>3, <4>2
        <5>2. QED
          BY <1>2, <3>0, <4>2, <5>1
      <4>3. QED
        BY <4>1, <4>2
    <3>5. QED
      <4> HIDE DEF walk
      <4> QED BY <3>4
  <2>3. QED
    BY <2>1, <2>2
<1>4. 0 \in N
  OBVIOUS
<1>5. 0..depth \subseteq N
  <2> HIDE DEF N
  <2> QED BY <1>3, <1>4, CountedInduction
<1>6. id \in L(n) <=> \E w : walk(w, n) /\ Far(w[n], dir) = id
  <2>1. n \in N /\ n # 0
    BY <1>5
  <2> HIDE DEF walk
  <2>2. QED
    BY <2>1
<1>7. ASSUME NEW w PROVE walk(w, n) <=> IsWalk(w, d, seeds, depth, dir, level) /\ Len(w) = n
  <2>1. ASSUME walk(w, n) PROVE Len(w) = n
    <3>1. w \in Seq(edges)
      BY <2>1
    <3>2. QED
      BY <2>1, <3>1
  <2>2. ASSUME walk(w, n) PROVE Far(w[n], dir) \in RowIds(d)
    BY <2>2 DEF ImpactEdges
  <2>3. QED
    <3> HIDE DEF edges
    <3> QED BY <2>1, <2>2 DEF IsWalk, edges
<1>8. QED
  <2> HIDE DEF walk
  <2> QED BY <1>6, <1>7 DEF L

(* Whatever the tables and the seeds, collect lists the nearest functions. *)
LEMMA CollectedNearestFirst ==
  ASSUME NEW d, NEW seeds, NEW depth \in Nat, NEW dir, NEW level, NEW tests,
         IsFiniteSet(d.calls), Placed(d.funcs)
  PROVE  NearestFirst(d, seeds, depth, dir, level, tests, collect(d, seeds, depth, dir, level, tests))
<1> DEFINE edges == ImpactEdges(d, dir, level)
           start == seeds \cap RowIds(d)
           W == walks(d, seeds, depth, dir, level)
           rows == ImpactRows(d, seeds, depth, dir, level)
           kept == Limited(rows, MaxNodes + 1)
           wanted == {x \in kept : tests \/ x.file \notin TestFiles}
           nodes == Ordered(wanted, {"id"})
           within(n) == {id \in UNION {Layer(edges, dir, start, k) : k \in 1..n} :
                           tests \/ id[2] \notin TestFiles}
           listed == {nodes[i].id : i \in DOMAIN nodes}
<1>1. IsFiniteSet(rows) /\ Sortable(rows)
  BY ImpactRowsSort
<1>2. /\ kept \subseteq rows
      /\ \A x \in kept : \A y \in rows \ kept : ~ByDepthAndName(y, x)
      /\ kept = rows \/ Cardinality(kept) = MaxNodes + 1
  <2> HIDE DEF rows
  <2>1. MaxNodes + 1 \in Nat
    BY SearchAssumption
  <2>2. QED
    BY <1>1, <2>1, LimitedRows
<1>3. /\ nodes \in Seq(wanted) /\ InOrder(nodes, {"id"})
      /\ \A x \in wanted : \E i \in DOMAIN nodes : Stands(nodes, i, x, {"id"})
  <2>1. wanted \in SUBSET rows
    BY <1>2
  <2>2. IsFiniteSet(wanted) /\ Sortable(wanted)
    <3> HIDE DEF wanted, rows
    <3> QED BY <1>1, <2>1, FS_Subset DEF Sortable
  <2> HIDE DEF wanted
  <2>3. QED
    BY <2>2, OrderedRows
(* The row of a function at a distance, and the distance of a row.         *)
<1>4. ASSUME NEW x \in rows
      PROVE  /\ x.depth \in 1..depth /\ x.id \in Layer(edges, dir, start, x.depth)
             /\ x.file = x.id[2]
  <2>1. PICK w \in W : x = impactedNode(d, w, dir)
    BY DEF ImpactRows
  <2>2. IsWalk(w, d, seeds, depth, dir, level)
    BY WalksAreWalks
  <2>3. /\ x.depth = Len(w) /\ x.depth \in 1..depth /\ x.id = Far(w[Len(w)], dir)
        /\ x.id \in RowIds(d) /\ x.file = RowOf(d, x.id).file
    BY <2>1, <2>2, ImpactNode
  <2>4. x.file = x.id[2]
    BY <2>3, RowOfId DEF Id
  <2>5. x.id \in Layer(edges, dir, start, x.depth)
    BY <2>2, <2>3, LayersAreEnds
  <2>6. QED
    BY <2>3, <2>4, <2>5
<1>5. ASSUME NEW k \in 1..depth, NEW id \in Layer(edges, dir, start, k)
      PROVE  \E x \in rows : x.id = id /\ x.depth = k
  <2>1. PICK w : IsWalk(w, d, seeds, depth, dir, level) /\ Len(w) = k /\ Far(w[k], dir) = id
    BY LayersAreEnds
  <2>2. w \in W
    BY <2>1, WalksAreWalks
  <2>3. impactedNode(d, w, dir).id = id /\ impactedNode(d, w, dir).depth = k
    BY <2>1, ImpactNode
  <2>4. QED
    BY <2>2, <2>3 DEF ImpactRows
<1>6. Cardinality(rows) <= Cardinality(W)
  <2> DEFINE node == [w \in W |-> impactedNode(d, w, dir)]
  <2>1. rows = {node[w] : w \in W}
    BY DEF ImpactRows
  <2>2. IsFiniteSet(W)
    BY WalksAreWalks
  <2>3. node \in [W -> rows] /\ \A x \in rows : \E w \in W : node[w] = x
    BY <2>1
  <2> HIDE DEF W, rows, node
  <2>4. node \in Surjection(W, rows)
    BY <2>3 DEF Surjection
  <2>5. QED
    BY <2>2, <2>4, FS_Surjection
<1>7. kept # rows => Cardinality(W) > MaxNodes + 1
  <2> HIDE DEF rows, kept, W
  <2> SUFFICES ASSUME kept # rows PROVE Cardinality(W) > MaxNodes + 1
    OBVIOUS
  <2>1. Cardinality(kept) = MaxNodes + 1 /\ kept \in SUBSET rows
    BY <1>2
  <2>2. Cardinality(kept) <= Cardinality(rows) /\ Cardinality(kept) # Cardinality(rows)
    BY <1>1, <2>1, FS_Subset
  <2>3. Cardinality(rows) \in Nat /\ Cardinality(W) \in Nat
    <3>1. IsFiniteSet(W)
      BY WalksAreWalks DEF W
    <3>2. QED
      BY <1>1, <3>1, FS_CardinalityType
  <2>4. QED
    BY <1>6, <2>1, <2>2, <2>3, SearchAssumption
<1> HIDE DEF rows, W, kept
<1>8. ASSUME NEW x \in wanted
      PROVE  /\ x \in rows /\ x \in kept /\ x.depth \in 1..depth
             /\ x.id \in within(x.depth)
  <2>1. x \in kept /\ x \in rows /\ (tests \/ x.file \notin TestFiles)
    BY <1>2
  <2>2. /\ x.depth \in 1..depth /\ x.id \in Layer(edges, dir, start, x.depth)
        /\ x.file = x.id[2]
    BY <1>4, <2>1
  <2>3. x.depth \in 1..x.depth
    BY <2>2
  <2>4. x.id \in UNION {Layer(edges, dir, start, k) : k \in 1..x.depth}
    BY <2>2, <2>3
  <2>5. QED
    BY <2>1, <2>2, <2>4
<1>9. ASSUME NEW n \in 0..depth, NEW id \in within(n)
      PROVE  \E x \in rows : /\ x.id = id /\ x.depth \in 1..n
                             /\ x \in kept => x \in wanted
  <2>1. PICK k \in 1..n : id \in Layer(edges, dir, start, k)
    OBVIOUS
  <2>2. k \in 1..depth
    OBVIOUS
  <2>3. PICK x \in rows : x.id = id /\ x.depth = k
    BY <1>5, <2>1, <2>2
  <2>4. x.file = id[2]
    BY <1>4, <2>3
  <2>5. QED
    BY <2>3, <2>4
<1> HIDE DEF wanted, edges, start, within
<1>10. ASSUME NEW i \in DOMAIN nodes PROVE nodes[i] \in wanted
  BY <1>3
<1>11. ASSUME NEW i \in DOMAIN nodes, NEW j \in DOMAIN nodes, i < j
       PROVE  nodes[i].id # nodes[j].id /\ nodes[i].depth <= nodes[j].depth
  <2>1. ~ByDepthAndName(nodes[j], nodes[i]) /\ nodes[i].id # nodes[j].id
    BY <1>3, <1>11 DEF InOrder
  <2>2. nodes[i].depth \in 1..depth /\ nodes[j].depth \in 1..depth
    BY <1>8, <1>10
  <2>3. QED
    BY <2>1, <2>2 DEF ByDepthAndName
<1>12. ASSUME NEW x \in wanted
       PROVE  \E i \in DOMAIN nodes : nodes[i].id = x.id /\ nodes[i].depth <= x.depth
  <2>1. PICK i \in DOMAIN nodes : Stands(nodes, i, x, {"id"})
    BY <1>3
  <2>2. nodes[i].id = x.id /\ ~ByDepthAndName(x, nodes[i])
    BY <2>1 DEF Stands
  <2>3. x.depth \in 1..depth /\ nodes[i].depth \in 1..depth
    BY <1>8, <1>10
  <2>4. QED
    BY <2>2, <2>3 DEF ByDepthAndName
<1>13. ASSUME NEW i \in DOMAIN nodes, NEW id \in within(nodes[i].depth - 1)
       PROVE  \E j \in DOMAIN nodes : nodes[j].id = id /\ nodes[j].depth < nodes[i].depth
  <2>1. nodes[i].depth \in 1..depth /\ nodes[i] \in kept
    BY <1>8, <1>10
  <2>2. PICK x \in rows : x.id = id /\ x.depth \in 1..nodes[i].depth - 1 /\ (x \in kept => x \in wanted)
    <3>1. nodes[i].depth - 1 \in 0..depth
      BY <2>1
    <3>2. QED
      BY <1>9, <3>1
  <2>3. ByDepthAndName(x, nodes[i])
    BY <2>1, <2>2 DEF ByDepthAndName
  <2>4. x \in wanted
    BY <1>2, <2>1, <2>2, <2>3
  <2>5. PICK j \in DOMAIN nodes : nodes[j].id = x.id /\ nodes[j].depth <= x.depth
    BY <1>12, <2>4
  <2>6. nodes[j].depth \in 1..depth
    BY <1>8, <1>10
  <2>7. QED
    BY <2>1, <2>2, <2>5, <2>6
<1>14. ASSUME NEW i \in DOMAIN nodes
       PROVE  /\ nodes[i].depth \in 1..depth
              /\ nodes[i].id \in within(nodes[i].depth) \ within(nodes[i].depth - 1)
              /\ within(nodes[i].depth - 1) \subseteq listed
  <2>1. nodes[i].depth \in 1..depth /\ nodes[i].id \in within(nodes[i].depth)
    BY <1>8, <1>10
  <2>2. within(nodes[i].depth - 1) \subseteq listed
    BY <1>13
  <2>3. nodes[i].id \notin within(nodes[i].depth - 1)
    <3> SUFFICES ASSUME nodes[i].id \in within(nodes[i].depth - 1) PROVE FALSE
      OBVIOUS
    <3>1. PICK j \in DOMAIN nodes : nodes[j].id = nodes[i].id /\ nodes[j].depth < nodes[i].depth
      BY <1>13
    <3>2. j # i /\ j \in Nat /\ i \in Nat
      BY <1>3, <2>1, <3>1
    <3>3. j < i \/ i < j
      BY <3>2
    <3>4. QED
      BY <1>11, <3>1, <3>3
  <2>4. QED
    BY <2>1, <2>2, <2>3
<1>15. within(depth) \subseteq listed \/ Cardinality(W) > MaxNodes + 1
  <2> SUFFICES ASSUME kept = rows, NEW id \in within(depth) PROVE id \in listed
    BY <1>7
  <2>1. PICK x \in rows : x.id = id /\ (x \in kept => x \in wanted)
    BY <1>9
  <2>2. x \in wanted
    BY <2>1
  <2>3. PICK i \in DOMAIN nodes : nodes[i].id = x.id
    BY <1>12, <2>2
  <2>4. QED
    BY <2>1, <2>3
<1>16. collect(d, seeds, depth, dir, level, tests) = nodes
  BY DEF collect, ImpactRows, wanted, kept, rows
<1> HIDE DEF nodes
<1>17. NearestFirst(d, seeds, depth, dir, level, tests, nodes)
  BY <1>11, <1>14, <1>15 DEF NearestFirst, within, edges, start, W
<1>18. QED
  BY <1>16, <1>17

(* A call goes from stage to stage by steps of the server.                 *)
LEMMA StagesAreServed ==
  ASSUME LineInv, [SessionNext]_allVars, work # Nothing, work' # Nothing, work.stage # work'.stage
  PROVE  ServerStep
<1>1. ~Client
  BY DEF Client, Send, LineInv
<1>2. ~NewSession
  BY DEF NewSession
<1>3. ~UNCHANGED work
  OBVIOUS
<1>4. ~Tear
  <2>1. [work EXCEPT !.torn = TRUE].stage = work.stage
    BY DEF LineInv, InProgress
  <2>2. QED
    BY <2>1 DEF Tear
<1>5. QED
  BY <1>1, <1>2, <1>3, <1>4 DEF SessionNext, IncrementalWork, FullWork, Outside, allVars, session

(* Each walk reads the tables and lists the nearest functions in them.     *)
LEMMA WalksAreNearest ==
  ASSUME NothingApart, ConcernInv, [SessionNext]_allVars, work # Nothing, work' # Nothing,
         line.tool = "get_impact", work.stage # work'.stage
  PROVE  LET a == line.args
             nearest(dir, nodes) ==
               NearestFirst(db, work.data.seeds, a.depth, dir, a.level, a.tests, nodes)
         IN  /\ work'.stage = "down" /\ InImpact(a, "callers") => nearest("callers", work'.data.up)
             /\ work'.stage = "health" /\ InImpact(a, "callees") => nearest("callees", work'.data.down)
<1>1. LineInv /\ RowsInv /\ SeedsInv
  BY DEF ConcernInv
<1>2. SeedsOK(db, gen, work) /\ line.args.depth \in Nat
  BY <1>1, ReadableSearch DEF SeedsInv
<1>3. ASSUME NEW dir
      PROVE  NearestFirst(db, work.data.seeds, line.args.depth, dir, line.args.level, line.args.tests,
                          Walk(dir))
  BY <1>1, <1>2, CollectedNearestFirst DEF Walk, RowsInv
<1>4. SymbolsInFile \/ WalkUp \/ WalkDown
  BY <1>1, StagesAreServed, ImpactSteps
<1>5. CASE SymbolsInFile
  BY <1>1, <1>5, ReadResult DEF SymbolsInFile, At
<1>6. CASE WalkUp /\ InImpact(line.args, "callers")
  <2>1. work'.data = [work.data EXCEPT !.up = Walk("callers")] /\ work'.stage = "down"
    BY <1>1, <1>6, ReadResult DEF WalkUp
  <2>2. work'.data.up = Walk("callers")
    BY <1>2, <2>1 DEF SeedsOK
  <2>3. QED
    BY <1>3, <2>1, <2>2
<1>7. CASE WalkDown /\ InImpact(line.args, "callees")
  <2>1. work'.data = [work.data EXCEPT !.down = Walk("callees")] /\ work'.stage = "health"
    BY <1>1, <1>7, ReadResult DEF WalkDown
  <2>2. work'.data.down = Walk("callees")
    BY <1>2, <2>1 DEF SeedsOK
  <2>3. QED
    BY <1>3, <2>1, <2>2
<1>8. (WalkUp => work'.stage = "down") /\ (WalkDown => work'.stage = "health")
  BY <1>1, ReadResult DEF WalkUp, WalkDown
<1>9. QED
  BY <1>4, <1>5, <1>6, <1>7, <1>8

(* Each walk of get_impact reports functions at their distance from the    *)
(* changed ones, nearest first, and leaves out none that the limit on rows *)
(* does not cut off, whatever duplicates and cycles there are.             *)
THEOREM ImpactFindsNearest ==
  ASSUME NothingApart
  PROVE  SessionSpec => ImpactNearestFirst
<1> DEFINE Step_ ==
      LET a == line.args
          nearest(dir, nodes) ==
            NearestFirst(db, work.data.seeds, a.depth, dir, a.level, a.tests, nodes)
      IN  work # Nothing /\ work' # Nothing /\ line.tool = "get_impact" /\ work.stage # work'.stage
            => /\ work'.stage = "down" /\ InImpact(a, "callers")
                    => nearest("callers", work'.data.up)
               /\ work'.stage = "health" /\ InImpact(a, "callees")
                    => nearest("callees", work'.data.down)
<1>1. SessionInit => ConcernInv
  BY SessionStartsConcerned
<1>2. ConcernInv /\ [SessionNext]_allVars => ConcernInv'
  BY ConcernKept
<1>3. ConcernInv /\ [SessionNext]_allVars => [Step_]_work
  BY WalksAreNearest
<1>4. QED
  BY <1>1, <1>2, <1>3, PTL DEF SessionSpec, ImpactNearestFirst

-----------------------------------------------------------------------------
(* ChainIsComplete.                                                        *)

(* A call is made by a function of the index, and made to one or to none.  *)
EndsKnown(d) ==
  /\ NoId \notin RowIds(d)
  /\ \A c \in d.calls : c.caller \in RowIds(d) /\ c.callee \in RowIds(d) \cup {NoId}

(* The edges that a chain may take, where it starts, and where it goes on. *)
ChainEdges(d, level) == {c \in d.calls : edgeFilter(c, level)}
Named(d, name) == {Id(x) : x \in {y \in d.funcs : y.name = name}}
From(d, level, dir, ids) == {c \in ChainEdges(d, level) : Near(c, dir) \in ids}

(* What queryCallChain has reached after so many steps.                    *)
Reaches(reached, d, name, depth, dir, level) ==
  /\ DOMAIN reached = 0..depth
  /\ reached[0] = Named(d, name)
  /\ \A n \in 1..depth :
       reached[n] = {Far(c, dir) : c \in From(d, level, dir, reached[n - 1])} \ {NoId}

ChainRows(reached, d, depth, dir, level) ==
  UNION {{callChainNode(d, c, dir, n) : c \in From(d, level, dir, reached[n - 1])} : n \in 1..depth}

ChainKey == {"name", "file", "line", "depth", "resolution"}

(* queryCallChain puts in order the rows of what it has reached.           *)
LEMMA ChainReaches ==
  ASSUME NEW d, NEW name, NEW depth \in Nat, NEW dir, NEW level
  PROVE  \E reached : /\ Reaches(reached, d, name, depth, dir, level)
                      /\ queryCallChain(d, name, depth, dir, level)
                           = Ordered(ChainRows(reached, d, depth, dir, level), ChainKey)
<1> DEFINE edges == {c \in d.calls : edgeFilter(c, level)}
           roots == {Id(x) : x \in {y \in d.funcs : y.name = name}}
           V == SUBSET (roots \cup {Far(c, dir) : c \in edges})
           next(U) == {Far(c, dir) : c \in {e \in edges : Near(e, dir) \in U}} \ {NoId}
           step == [k \in 1..depth |-> [U \in V |-> next(U)]]
           body(h) == [n \in 0..depth |-> IF n = 0 THEN roots ELSE step[n][h[n - 1]]]
           real(h) == [n \in 0..depth |-> IF n = 0 THEN roots ELSE next(h[n - 1])]
<1>1. ASSUME NEW k \in 1..depth, NEW U \in V PROVE step[k][U] = next(U) /\ step[k][U] \in V
  <2>1. next(U) \in V
    <3> HIDE DEF edges, roots
    <3> QED OBVIOUS
  <2> HIDE DEF V, next
  <2>2. QED
    BY <2>1
<1>2. roots \in V
  OBVIOUS
<1>3. PICK h \in [0..depth -> V] : h = body(h)
  <2> HIDE DEF step, V, roots
  <2>1. Ascends(depth, V, roots, step)
    BY <1>1, <1>2 DEF Ascends
  <2>2. \E g : Counts(g, depth, V, roots, step)
    BY <2>1, CountedRecursion
  <2>3. QED
    BY <2>2 DEF Counts
<1>4. body(h) = real(h)
  <2>1. ASSUME NEW k \in 0..depth, k # 0 PROVE step[k][h[k - 1]] = next(h[k - 1])
    <3>1. k \in 1..depth /\ k - 1 \in 0..depth
      BY <2>1
    <3>2. h[k - 1] \in V
      BY <3>1
    <3>3. QED
      BY <1>1, <3>1, <3>2
  <2> HIDE DEF step, next, roots
  <2>2. QED
    BY <2>1
<1> DEFINE reached == CHOOSE g : g = real(g)
<1>5. reached = real(reached)
  <2>1. \E g : g = real(g)
    BY <1>3, <1>4
  <2>2. QED
    BY <2>1, Zenon
<1>6. queryCallChain(d, name, depth, dir, level)
        = Ordered(UNION {{callChainNode(d, c, dir, n) : c \in {e \in edges : Near(e, dir) \in reached[n - 1]}} :
                           n \in 1..depth}, ChainKey)
  BY DEF queryCallChain, ChainKey
<1> HIDE DEF reached
<1>7. Reaches(reached, d, name, depth, dir, level)
  <2>1. DOMAIN reached = 0..depth
    BY <1>5
  <2>2. \A n \in 0..depth : reached[n] = IF n = 0 THEN roots ELSE next(reached[n - 1])
    <3> HIDE DEF roots, next
    <3> QED BY <1>5
  <2>3. reached[0] = roots /\ \A n \in 1..depth : reached[n] = next(reached[n - 1])
    <3> HIDE DEF roots, next
    <3> QED BY <2>2
  <2>4. QED
    BY <2>1, <2>3 DEF Reaches, Named, From, ChainEdges
<1>8. ASSUME NEW n
      PROVE  {e \in edges : Near(e, dir) \in reached[n - 1]} = From(d, level, dir, reached[n - 1])
  BY DEF From, ChainEdges
<1> DEFINE walked(n) == {callChainNode(d, c, dir, n) : c \in {e \in edges : Near(e, dir) \in reached[n - 1]}}
           seen(n) == {callChainNode(d, c, dir, n) : c \in From(d, level, dir, reached[n - 1])}
<1>9. ASSUME NEW n PROVE walked(n) = seen(n)
  <2> HIDE DEF edges
  <2> QED BY <1>8, Zenon
<1>10. {walked(n) : n \in 1..depth} = {seen(n) : n \in 1..depth}
  <2> HIDE DEF walked, seen
  <2> QED BY <1>9
<1>11. ChainRows(reached, d, depth, dir, level) = UNION {walked(n) : n \in 1..depth}
  <2>1. ChainRows(reached, d, depth, dir, level) = UNION {seen(n) : n \in 1..depth}
    BY DEF ChainRows
  <2> HIDE DEF walked, seen
  <2>2. QED
    BY <1>10, <2>1
<1>12. queryCallChain(d, name, depth, dir, level)
         = Ordered(ChainRows(reached, d, depth, dir, level), ChainKey)
  <2>1. queryCallChain(d, name, depth, dir, level)
          = Ordered(UNION {walked(n) : n \in 1..depth}, ChainKey)
    BY <1>6, Zenon
  <2> HIDE DEF walked
  <2>2. QED
    BY <1>11, <2>1
<1>13. QED
  BY <1>7, <1>12, Zenon

(* It has reached the functions of the layers.                             *)
LEMMA ReachedLayers ==
  ASSUME NEW d, NEW name, NEW depth \in Nat, NEW dir, NEW level, NEW reached,
         Reaches(reached, d, name, depth, dir, level), EndsKnown(d), dir \in {"callers", "callees"}
  PROVE  \A n \in 0..depth :
           reached[n] = Layer(ChainEdges(d, level), dir, Named(d, name), n) \cap RowIds(d)
<1> DEFINE L(n) == Layer(ChainEdges(d, level), dir, Named(d, name), n)
           known(n) == L(n) \subseteq RowIds(d) \cup {NoId} /\ (dir = "callers" => NoId \notin L(n))
           N == {n \in 0..depth : known(n) /\ reached[n] = L(n) \cap RowIds(d)}
<1>1. L(0) = Named(d, name) /\ \A n \in Nat : L(n + 1) = Step(ChainEdges(d, level), dir, L(n))
  BY LayerSteps
<1> HIDE DEF L
<1>2. 0 \in N
  <2>1. Named(d, name) \subseteq RowIds(d)
    BY DEF Named, RowIds
  <2>2. NoId \notin Named(d, name)
    BY <2>1 DEF EndsKnown
  <2>3. QED
    BY <1>1, <2>1, <2>2 DEF Reaches
<1>3. ASSUME NEW n \in 1..depth, n - 1 \in N PROVE n \in N
  <2>1. L(n) = {Far(c, dir) : c \in From(d, level, dir, L(n - 1))}
    <3>1. n - 1 \in Nat /\ (n - 1) + 1 = n
      OBVIOUS
    <3>2. L(n) = Step(ChainEdges(d, level), dir, L(n - 1))
      BY <1>1, <3>1
    <3>3. QED
      BY <3>2 DEF Step, From
  <2>2. known(n - 1) /\ reached[n - 1] = L(n - 1) \cap RowIds(d)
    BY <1>3
  <2>3. ASSUME NEW c \in d.calls
        PROVE  /\ Far(c, dir) \in RowIds(d) \cup {NoId} /\ Near(c, dir) \in RowIds(d) \cup {NoId}
               /\ dir = "callers" => Far(c, dir) # NoId
               /\ dir = "callees" => Near(c, dir) # NoId
    BY DEF EndsKnown, Near, Far
  <2>4. known(n)
    BY <2>1, <2>3 DEF From, ChainEdges
  <2>5. From(d, level, dir, L(n - 1)) = From(d, level, dir, reached[n - 1])
    BY <2>2, <2>3 DEF From, ChainEdges
  <2>6. reached[n] = {Far(c, dir) : c \in From(d, level, dir, L(n - 1))} \ {NoId}
    BY <2>5 DEF Reaches
  <2>7. reached[n] = L(n) \cap RowIds(d)
    <3>1. reached[n] = L(n) \ {NoId}
      BY <2>1, <2>6
    <3>2. QED
      BY <2>4, <3>1 DEF EndsKnown
  <2>8. QED
    BY <2>4, <2>7
<1>4. 0..depth \subseteq N
  <2> HIDE DEF N
  <2> QED BY <1>2, <1>3, CountedInduction
<1>5. QED
  BY <1>4 DEF L

(* A row, and what the answer is to name of it.                            *)
ChainRow(x, d, ids, dir, level, n) ==
  \E c \in From(d, level, dir, ids) : x = callChainNode(d, c, dir, n)

Target(x) == [name |-> x.name, file |-> x.file, line |-> x.line]

Targets(rows, m) == {Target(x) : x \in {y \in rows : y.depth <= m}}

(* A row has the depth of its step, and its name has a place.              *)
LEMMA ChainRowNode ==
  ASSUME NEW d, Placed(d.funcs), Placed(d.calls), NEW ids, NEW dir, NEW level, NEW n,
         NEW x, ChainRow(x, d, ids, dir, level, n)
  PROVE  x.depth = n /\ NamePlace[x.name] \in Nat
<1>1. PICK c \in From(d, level, dir, ids) : x = callChainNode(d, c, dir, n)
  BY DEF ChainRow
<1> DEFINE id == Far(c, dir)
           there == id \in RowIds(d)
<1>2. x.depth = n /\ x.name = IF there THEN RowOf(d, id).name ELSE c.name
  BY <1>1 DEF callChainNode
<1>3. c \in d.calls
  BY DEF From, ChainEdges
<1>4. there => RowOf(d, id) \in d.funcs
  BY RowOfId
<1>5. NamePlace[x.name] \in Nat
  BY <1>2, <1>3, <1>4 DEF Placed
<1>6. QED
  BY <1>2, <1>5

(* The rows, by the steps that found them.                                 *)
LEMMA ChainRowsAre ==
  ASSUME NEW reached, NEW d, NEW depth, NEW dir, NEW level, NEW x
  PROVE  x \in ChainRows(reached, d, depth, dir, level)
           <=> \E n \in 1..depth : ChainRow(x, d, reached[n - 1], dir, level, n)
BY DEF ChainRows, ChainRow

(* The rows are finitely many and can be put in order.                     *)
LEMMA ChainRowsSort ==
  ASSUME NEW d, IsFiniteSet(d.calls), Placed(d.funcs), Placed(d.calls),
         NEW reached, NEW depth \in Nat, NEW dir, NEW level
  PROVE  /\ IsFiniteSet(ChainRows(reached, d, depth, dir, level))
         /\ Sortable(ChainRows(reached, d, depth, dir, level))
<1> DEFINE rows == ChainRows(reached, d, depth, dir, level)
           at(n) == {callChainNode(d, c, dir, n) : c \in From(d, level, dir, reached[n - 1])}
           all == [n \in 1..depth |-> at(n)]
<1>1. ASSUME NEW n PROVE IsFiniteSet(at(n))
  <2> DEFINE edges == From(d, level, dir, reached[n - 1])
             node == [c \in edges |-> callChainNode(d, c, dir, n)]
  <2>1. IsFiniteSet(edges)
    BY FS_Subset DEF From, ChainEdges
  <2>2. node = [c \in edges |-> node[c]] /\ at(n) = {node[c] : c \in edges}
    OBVIOUS
  <2> HIDE DEF node, edges, at
  <2>3. QED
    BY <2>1, <2>2, FiniteImage
<1>2. rows = UNION {all[n] : n \in 1..depth} /\ all = [n \in 1..depth |-> all[n]]
  BY DEF ChainRows
<1>3. \A n \in 1..depth : IsFiniteSet(all[n])
  BY <1>1
<1>4. IsFiniteSet(rows)
  <2> HIDE DEF rows, all
  <2>1. IsFiniteSet(1..depth)
    BY FS_Interval
  <2>2. IsFiniteSet({all[n] : n \in 1..depth})
    BY <1>2, <2>1, FiniteImage
  <2>3. QED
    BY <1>2, <1>3, <2>2, FS_UNION
<1>5. ASSUME NEW x \in rows PROVE x.depth \in Nat /\ NamePlace[x.name] \in Nat
  <2>1. PICK n \in 1..depth : ChainRow(x, d, reached[n - 1], dir, level, n)
    BY ChainRowsAre
  <2>2. QED
    BY <2>1, ChainRowNode
<1>6. QED
  BY <1>4, <1>5 DEF Sortable

(* The rows of at most m steps are the targets within m steps.             *)
LEMMA TargetsAreRows ==
  ASSUME NEW d, NEW name, NEW depth \in Nat, NEW dir \in {"callers", "callees"}, NEW level,
         NEW reached, Reaches(reached, d, name, depth, dir, level), EndsKnown(d),
         Placed(d.funcs), Placed(d.calls), NEW m \in 0..depth
  PROVE  ChainTargets(d, name, m, dir, level)
           = Targets(ChainRows(reached, d, depth, dir, level), m)
<1> DEFINE rows == ChainRows(reached, d, depth, dir, level)
           near(n) == Layer(ChainEdges(d, level), dir, Named(d, name), n - 1) \cap RowIds(d)
           T == ChainTargets(d, name, m, dir, level)
<1>1. ASSUME NEW t
      PROVE  t \in T <=> \E n \in 1..m : \E x : ChainRow(x, d, near(n), dir, level, n) /\ t = Target(x)
  <2> DEFINE targets(n) == {Target(x) : x \in {callChainNode(d, c, dir, n) : c \in From(d, level, dir, near(n))}}
  <2>1. T = UNION {targets(n) : n \in 1..m}
    BY DEF ChainTargets, ChainEdges, Named, From, Target
  <2>2. ASSUME NEW n
        PROVE  t \in targets(n) <=> \E x : ChainRow(x, d, near(n), dir, level, n) /\ t = Target(x)
    BY DEF ChainRow
  <2> HIDE DEF targets, T, near
  <2>3. QED
    BY <2>1, <2>2
<1>2. \A n \in 1..depth : near(n) = reached[n - 1]
  BY ReachedLayers
<1> HIDE DEF near, T
<1>3. ASSUME NEW t \in T PROVE \E x \in rows : x.depth <= m /\ t = Target(x)
  <2>0. PICK n \in 1..m : \E x : ChainRow(x, d, near(n), dir, level, n) /\ t = Target(x)
    BY <1>1, <1>3
  <2>1. PICK x : ChainRow(x, d, near(n), dir, level, n) /\ t = Target(x)
    BY <2>0
  <2>2. n \in 1..depth /\ ChainRow(x, d, reached[n - 1], dir, level, n)
    BY <1>2, <2>1
  <2>3. QED
    BY <2>1, <2>2, ChainRowsAre, ChainRowNode
<1>4. ASSUME NEW x \in rows, x.depth <= m PROVE Target(x) \in T
  <2>1. PICK n \in 1..depth : ChainRow(x, d, reached[n - 1], dir, level, n)
    BY ChainRowsAre
  <2>2. x.depth = n /\ n \in 1..m
    BY <1>4, <2>1, ChainRowNode
  <2>3. ChainRow(x, d, near(n), dir, level, n)
    BY <1>2, <2>1
  <2>4. QED
    BY <1>1, <2>2, <2>3
<1> HIDE DEF rows
<1>5. T = Targets(rows, m)
  BY <1>3, <1>4 DEF Targets
<1>6. QED
  BY <1>5 DEF T, rows

(* Both directions of get_call_chain name every function within reach, or  *)
(* the nearest ones.                                                       *)
LEMMA TracedChainIsComplete ==
  ASSUME NEW d, IsFiniteSet(d.calls), Placed(d.funcs), Placed(d.calls), EndsKnown(d),
         NEW name, NEW depth \in Nat, NEW dir \in {"callers", "callees"}, NEW level,
         NEW limit \in Nat \ {0}
  PROVE  ChainComplete(d, name, depth, dir, level, limit,
                       capNodes(queryCallChain(d, name, depth, dir, level), limit))
<1>1. PICK reached : /\ Reaches(reached, d, name, depth, dir, level)
                     /\ queryCallChain(d, name, depth, dir, level)
                          = Ordered(ChainRows(reached, d, depth, dir, level), ChainKey)
  BY ChainReaches
<1> DEFINE rows == ChainRows(reached, d, depth, dir, level)
           s == queryCallChain(d, name, depth, dir, level)
           kept == AtMost(s, limit)
           chain == capNodes(s, limit)
           listed(m) == {Target(kept[i]) : i \in {j \in DOMAIN kept : kept[j].depth <= m}}
<1>2. /\ s \in Seq(rows)
      /\ InOrder(s, ChainKey)
      /\ \A x \in rows : \E i \in DOMAIN s : Stands(s, i, x, ChainKey)
  BY <1>1, ChainRowsSort, OrderedRows
<1>3. ASSUME NEW x \in rows PROVE x.depth \in 1..depth
  <2>1. PICK n \in 1..depth : ChainRow(x, d, reached[n - 1], dir, level, n)
    BY ChainRowsAre
  <2>2. QED
    BY <2>1, ChainRowNode
<1>4. ASSUME NEW m \in 0..depth
      PROVE  ChainTargets(d, name, m, dir, level) = Targets(rows, m)
  BY <1>1, TargetsAreRows
<1> HIDE DEF rows, s
<1>5. /\ kept \in Seq(rows)
      /\ DOMAIN kept = {i \in DOMAIN s : i <= limit}
      /\ \A i \in DOMAIN kept : kept[i] = s[i]
      /\ Len(kept) = IF Len(s) <= limit THEN Len(s) ELSE limit
  BY <1>2, AtMostEntries
<1>6. chain = [kept |-> kept, total |-> Len(s)]
  BY DEF capNodes
<1> HIDE DEF kept, chain
<1>7. ASSUME NEW i \in DOMAIN s PROVE s[i] \in rows
  BY <1>2
<1>8. ASSUME NEW m \in 0..depth, \A i \in DOMAIN s : s[i].depth <= m => i \in DOMAIN kept
      PROVE  listed(m) = ChainTargets(d, name, m, dir, level)
  <2>1. ASSUME NEW i \in DOMAIN kept, kept[i].depth <= m
        PROVE  \E x \in rows : x.depth <= m /\ Target(kept[i]) = Target(x)
    BY <1>5, <1>7, <2>1
  <2>2. ASSUME NEW x \in rows, x.depth <= m
        PROVE  \E i \in DOMAIN kept : kept[i].depth <= m /\ Target(kept[i]) = Target(x)
    <3>1. PICK i \in DOMAIN s : Stands(s, i, x, ChainKey)
      BY <1>2
    <3>2. /\ x.name = s[i].name /\ x.file = s[i].file /\ x.line = s[i].line
          /\ x.depth = s[i].depth
      BY <3>1 DEF Stands, ChainKey
    <3>3. i \in DOMAIN kept /\ kept[i] = s[i]
      BY <1>5, <1>8, <2>2, <3>2
    <3>4. QED
      BY <2>2, <3>2, <3>3 DEF Target
  <2>3. listed(m) = Targets(rows, m)
    BY <2>1, <2>2 DEF Targets
  <2>4. QED
    BY <1>4, <2>3
<1> DEFINE deepest == IF Len(s) > Len(kept) THEN kept[Len(kept)].depth - 1 ELSE depth
<1>9. deepest \in 0..depth /\ \A i \in DOMAIN s : s[i].depth <= deepest => i \in DOMAIN kept
  <2>0. Len(s) \in Nat /\ DOMAIN s = 1..Len(s)
    BY <1>2
  <2>1. CASE Len(s) <= limit
    <3>1. deepest = depth /\ DOMAIN kept = DOMAIN s
      BY <1>5, <2>0, <2>1
    <3>2. QED
      BY <3>1
  <2>2. CASE ~(Len(s) <= limit)
    <3>1. Len(kept) = limit /\ limit \in DOMAIN s /\ limit \in DOMAIN kept /\ kept[limit] = s[limit]
      BY <1>5, <2>0, <2>2
    <3>2. deepest = s[limit].depth - 1
      BY <2>0, <2>2, <3>1
    <3>3. s[limit].depth \in 1..depth
      BY <1>3, <1>7, <3>1
    <3> HIDE DEF deepest
    <3>4. ASSUME NEW i \in DOMAIN s, s[i].depth <= deepest PROVE i <= limit
      <4>1. s[i].depth \in 1..depth /\ s[i].depth < s[limit].depth
        BY <1>3, <1>7, <3>2, <3>3, <3>4
      <4>2. ByDepthAndName(s[i], s[limit])
        BY <4>1 DEF ByDepthAndName
      <4>3. ~(limit < i)
        BY <1>2, <3>1, <4>2 DEF InOrder
      <4>4. QED
        BY <2>0, <4>3
    <3>5. QED
      BY <1>5, <3>2, <3>3, <3>4
  <2>3. QED
    BY <2>1, <2>2
<1>10. listed(deepest) = ChainTargets(d, name, deepest, dir, level)
  <2> HIDE DEF deepest, listed
  <2> QED BY <1>8, <1>9
<1>11. Len(s) > Len(kept) => Len(kept) = limit
  BY <1>2, <1>5
<1>12. ChainComplete(d, name, depth, dir, level, limit, chain)
  BY <1>6, <1>10, <1>11 DEF ChainComplete, Target
<1>13. QED
  BY <1>12 DEF chain, s

(* Sound edges have known ends, and no id in use is NoId.                  *)
LEMMA EndsAreKnown ==
  ASSUME NothingLoose
  PROVE  EndsKnown(db)
<1>1. NoId \notin RowIds(db)
  BY DEF NothingLoose, EdgesInv, IdsInv, RowIds, Id, NoId
<1>2. ASSUME NEW c \in db.calls
      PROVE  c.caller \in RowIds(db) /\ c.callee \in RowIds(db) \cup {NoId}
  BY SoundRows DEF NothingLoose, EdgesInv, OriginInv, Sound, Ended, Ids, RowIds
<1>3. QED
  BY <1>1, <1>2 DEF EndsKnown

(* What a call of get_call_chain in progress has.                          *)
ChainInv ==
  work # Nothing /\ line.tool = "get_call_chain" =>
    line.args # Unreadable /\ DOMAIN work.data = {"callers", "callees"}

(* These steps lead a call of get_call_chain from stage to stage.          *)
LEMMA ChainSteps ==
  ASSUME work # Nothing, work' # Nothing, line.tool = "get_call_chain", ServerStep
  PROVE  TraceChain
<1>1. \A body : ~Answer(body)
  BY DEF Answer, Respond
<1>2. \A r : ~Respond(r)
  BY DEF Respond
<1>3. ~StatementFails /\ ~HandlerPanics /\ ~AnswerUnsearchable
  BY <1>2 DEF StatementFails, HandlerPanics, AnswerUnsearchable
<1>4. ~(AnswerDefinition \/ AnswerQuery \/ AnswerChain \/ AnswerImpact)
  BY <1>1 DEF AnswerDefinition, AnswerQuery, AnswerChain, AnswerImpact
<1>5. ~(ReadDefinitions \/ SearchTables \/ Expand \/ SymbolsInFile \/ WalkUp \/ WalkDown)
  BY DEF ReadDefinitions, SearchTables, Reads, Expand, SymbolsInFile, WalkUp, WalkDown,
         At, Start, IsToolCall, IsRequest
<1>6. QED
  BY <1>3, <1>4, <1>5 DEF ServerStep

(* What they read.                                                         *)
LEMMA TracesOnTheWay ==
  ASSUME NothingApart, LineInv, ChainInv, work # Nothing, line.tool = "get_call_chain", TraceChain
  PROVE  /\ line' = line /\ DOMAIN work'.data = {"callers", "callees"}
         /\ work'.stage = "callees" =>
              work'.data.callers = IF InChain(line.args, "callers") THEN Chain("callers")
                                   ELSE work.data.callers
         /\ work'.stage \in {"callees", "health"}
         /\ work'.stage = "health" =>
              work'.data.callees = IF InChain(line.args, "callees") THEN Chain("callees")
                                   ELSE work.data.callees
<1>0. DOMAIN work.data = {"callers", "callees"}
  BY DEF ChainInv
<1> DEFINE up == IF InChain(line.args, "callers") THEN [work.data EXCEPT !.callers = Chain("callers")]
                 ELSE work.data
           down == IF InChain(line.args, "callees") THEN [work.data EXCEPT !.callees = Chain("callees")]
                   ELSE work.data
<1>1. Read("callees", up) \/ Read("health", down)
  BY DEF TraceChain, Start, IsToolCall, IsRequest
<1>2. /\ DOMAIN up = {"callers", "callees"}
      /\ up.callers = IF InChain(line.args, "callers") THEN Chain("callers") ELSE work.data.callers
  BY <1>0
<1>3. /\ DOMAIN down = {"callers", "callees"}
      /\ down.callees = IF InChain(line.args, "callees") THEN Chain("callees") ELSE work.data.callees
  BY <1>0
<1> HIDE DEF up, down
<1>4. CASE Read("callees", up)
  BY <1>2, <1>4, ReadResult
<1>5. CASE Read("health", down)
  BY <1>3, <1>5, ReadResult
<1>6. QED
  BY <1>1, <1>4, <1>5

(* ChainInv is kept by the steps that begin a call or answer at once,      *)
LEMMA TracesAtFirst ==
  ASSUME work = Nothing, ServerStep
  PROVE  ChainInv'
<1>1. CASE work' = Nothing
  BY <1>1 DEF ChainInv
<1>2. CASE TraceChain
  <2>1. /\ line.args # Unreadable /\ line' = line
        /\ Begin("callers", [callers |-> EmptyChain, callees |-> EmptyChain])
    BY <1>2 DEF TraceChain, Start, At
  <2>2. DOMAIN work'.data = {"callers", "callees"}
    BY <2>1 DEF Begin
  <2>3. QED
    BY <2>1, <2>2 DEF ChainInv
<1>3. CASE CountCall \/ ReadDefinitions \/ StartImpact
  <2>1. line.tool # "get_call_chain" /\ (work' = Nothing \/ line' = line)
    BY <1>3 DEF CountCall, ReadDefinitions, StartImpact, Start, At, IsToolCall, Respond
  <2>2. QED
    BY <1>1, <2>1 DEF ChainInv
<1>4. CASE \/ DropBlank \/ AnswerGarbage \/ Stop \/ DropNotification
           \/ handleMethod \/ InvalidArguments \/ AnswerArchitecture
  BY <1>1, <1>4 DEF DropBlank, AnswerGarbage, Stop, DropNotification, handleMethod, InvalidArguments,
                    AnswerArchitecture, Answer, Respond
<1>5. QED
  BY <1>2, <1>3, <1>4 DEF ServerStep

(* and by all others.                                                      *)
LEMMA ChainKept ==
  ASSUME NothingApart, LineInv, ChainInv, [SessionNext]_allVars
  PROVE  ChainInv'
<1>1. CASE ServerStep /\ work = Nothing
  BY <1>1, TracesAtFirst
<1>2. CASE ServerStep /\ work # Nothing
  <2>1. CASE work' = Nothing
    BY <2>1 DEF ChainInv
  <2>2. CASE work' # Nothing /\ line.tool = "get_call_chain"
    BY <1>2, <2>2, ChainSteps, TracesOnTheWay DEF ChainInv
  <2>3. CASE work' # Nothing /\ line.tool # "get_call_chain"
    <3>1. line' = line
      BY <1>2, <2>3, ServerSteps DEF Begins, GoesOn, Answers, Discards
    <3>2. QED
      BY <2>3, <3>1 DEF ChainInv
  <2>4. QED
    BY <2>1, <2>2, <2>3
<1>3. CASE IncrementalWork \/ FullWork \/ Outside
  <2>1. Elsewhere
    BY <1>3, ElsewhereSteps
  <2>2. CASE work = Nothing
    BY <2>1, <2>2 DEF Elsewhere, ChainInv
  <2>3. CASE work # Nothing
    <3>1. work'.data = work.data /\ line' = line
      BY <1>3, <2>1, <2>3, OthersKeepData DEF Elsewhere
    <3>2. QED
      BY <2>3, <3>1 DEF ChainInv
  <2>4. QED
    BY <2>2, <2>3
<1>4. CASE NewSession
  BY <1>4 DEF NewSession, ChainInv
<1>5. ASSUME NEW l \in Lines, Send(l) PROVE ChainInv'
  <2>1. work' = Nothing
    BY <1>5 DEF Send, LineInv
  <2>2. QED
    BY <2>1 DEF ChainInv
<1>6. CASE UNCHANGED allVars
  BY <1>6 DEF allVars, session, ChainInv
<1>7. QED
  BY <1>1, <1>2, <1>3, <1>4, <1>5, <1>6 DEF SessionNext, Client

(* Each direction is traced in the tables as they are at that step.        *)
LEMMA ChainsAreComplete ==
  ASSUME NothingApart, NothingLoose, ConcernInv, ChainInv, [SessionNext]_allVars,
         work # Nothing, work' # Nothing, line.tool = "get_call_chain", work.stage # work'.stage
  PROVE  LET a == line.args
             complete(dir, chain) == ChainComplete(db, a.name, a.depth, dir, a.level, a.limit, chain)
         IN  /\ work'.stage = "callees" /\ InChain(a, "callers") => complete("callers", work'.data.callers)
             /\ work'.stage = "health" /\ InChain(a, "callees") => complete("callees", work'.data.callees)
<1>1. LineInv /\ EdgesInv /\ RowsInv
  BY DEF ConcernInv
<1>2. line.args.depth \in Nat /\ line.args.limit \in Nat \ {0}
  BY <1>1, ReadableSearch DEF ChainInv
<1>3. ASSUME NEW dir \in {"callers", "callees"}
      PROVE  ChainComplete(db, line.args.name, line.args.depth, dir, line.args.level, line.args.limit,
                           Chain(dir))
  BY <1>1, <1>2, EndsAreKnown, TracedChainIsComplete DEF Chain, RowsInv
<1>4. TraceChain
  BY <1>1, StagesAreServed, ChainSteps
<1>5. QED
  BY <1>1, <1>3, <1>4, TracesOnTheWay

(* Each direction of get_call_chain names every function within reach, or  *)
(* has as many as were asked for, the nearest ones, and is said to be      *)
(* capped.                                                                 *)
THEOREM ChainNamesAllInReach ==
  ASSUME NothingApart
  PROVE  SessionSpec => ChainIsComplete
<1> DEFINE Step_ ==
      LET a == line.args
          complete(dir, chain) == ChainComplete(db, a.name, a.depth, dir, a.level, a.limit, chain)
      IN  work # Nothing /\ work' # Nothing /\ line.tool = "get_call_chain" /\ work.stage # work'.stage
            => /\ work'.stage = "callees" /\ InChain(a, "callers")
                    => complete("callers", work'.data.callers)
               /\ work'.stage = "health" /\ InChain(a, "callees")
                    => complete("callees", work'.data.callees)
<1> DEFINE I == ConcernInv /\ ChainInv /\ NothingLoose
<1>1. SessionInit => I
  BY SessionStartsConcerned DEF SessionInit, ChainInv, ConcernInv, NothingLoose
<1>2. I /\ [SessionNext]_allVars => I'
  BY ConcernKept, ChainKept, NothingComesLoose DEF ConcernInv
<1>3. I /\ [SessionNext]_allVars => [Step_]_work
  BY ChainsAreComplete
<1>4. QED
  BY <1>1, <1>2, <1>3, PTL DEF SessionSpec, ChainIsComplete
=============================================================================
