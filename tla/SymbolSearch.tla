----------------------------- MODULE SymbolSearch -----------------------------
(***************************************************************************)
(* internal/tools: query_codebase.go, result_policy.go, get_definition.go  *)
(* and fts.go: which symbols a search finds, and what the answer tells the *)
(* agent to do next.                                                       *)
(*                                                                         *)
(* Names that differ in case only are one name here, as they are for the   *)
(* code's comparisons.  The ranking by bm25 is the database's: when more   *)
(* rows match than are fetched, any of them may be the ones fetched.       *)
(***************************************************************************)
EXTENDS Resolver, Sequences

CONSTANTS
  NameParts,   \* per name or word, the words it is composed of, or {}
  Prefixed,    \* per word, the words that begin with it, itself included
  Nearby,      \* per word, the names that have its first three letters in them
  Documents,   \* indexed documents: name (title) and words
  PoolFactor,  \* 8 in the code: rows fetched per requested result
  PoolFloor    \* 30 in the code: rows fetched at least

ASSUME WordsAssumption == \A w \in DOMAIN Prefixed : w \in Prefixed[w]

(* A query has its terms, the name they spell when joined (or None), its   *)
(* form ("plain": an FTS expression as it is; "punctuated": not one), its  *)
(* scope, the number of results and the detected intent.                   *)
Terms(q) == {q.terms[i] : i \in 1..Len(q.terms)}

-----------------------------------------------------------------------------
(* Rows and matching.                                                      *)

definitionPriority(kind) ==
  CASE kind \in {"class", "interface"} -> 0
    [] kind = "function" -> 1
    [] kind = "method" -> 2

Hit(name, file, line, kind) == [name |-> name, file |-> file, line |-> line, kind |-> kind]

FunctionHit(x) ==
  Hit(x.name, x.file, x.pos, IF x.recv = None THEN "function" ELSE "method")
TypeHits(d) ==
  {Hit(x.name, x.file, 0, "class") : x \in d.classes}
  \cup {Hit(x.name, x.file, 0, "interface") : x \in d.interfaces}

(* The text of a function: its name, the parts of it, its file, and, in    *)
(* its code, what it calls.                                                *)
FunctionText(d, x) ==
  {x.name, x.file} \cup NameParts[x.name] \cup {c.name : c \in {e \in d.calls : e.caller = Id(x)}}
TypeText(h) == {h.name, h.file} \cup NameParts[h.name]

(* ftsSearch: the terms ANDed; a query that is no FTS expression is        *)
(* sanitised, its last term becoming a prefix, and finds nothing when it   *)
(* has no terms.  ftsSearchPrebuilt, after expandFTSQuery: a term may also *)
(* be matched by all its parts.                                            *)
Found(q, expanded, text) ==
  LET n == Len(q.terms)
      whole(i) == IF q.form = "punctuated" /\ i = n /\ ~expanded
                  THEN Prefixed[q.terms[i]] \cap text # {}
                  ELSE q.terms[i] \in text
      parts(i) == NameParts[q.terms[i]]
  IN  n > 0 /\ \A i \in 1..n : whole(i) \/ (expanded /\ parts(i) # {} /\ parts(i) \subseteq text)

Expandable(q) == \E t \in Terms(q) : NameParts[t] # {}

FunctionMatches(d, q, expanded) ==
  {FunctionHit(x) : x \in {y \in d.funcs : Found(q, expanded, FunctionText(d, y))}}
TypeMatches(d, q, expanded) == {h \in TypeHits(d) : Found(q, expanded, TypeText(h))}
DocumentMatches(q, expanded) ==
  {Hit(x.name, x.name, 0, "document") : x \in {y \in Documents : Found(q, expanded, y.words)}}

fetchLimit(q) == IF q.limit * PoolFactor < PoolFloor THEN PoolFloor ELSE q.limit * PoolFactor
docLimit(q) == IF q.scope = "all" /\ q.limit > 3 THEN 3 ELSE q.limit

(* LIMIT n: everything, or any n of them.                                  *)
FetchesAll(rows, n) == Cardinality(rows) <= n
Fetches(rows, n) ==
  IF FetchesAll(rows, n) THEN {rows} ELSE {s \in SUBSET rows : Cardinality(s) = n}

-----------------------------------------------------------------------------
(* The answer.                                                             *)

Shown(q, results) == IF Cardinality(results) > q.limit THEN q.limit ELSE Cardinality(results)

Definite(q, results) ==
  {h \in results : /\ h.kind # "document"
                   /\ h.name \in Terms(q) \/ (Len(q.terms) > 1 /\ h.name = q.joined)}

(* Mutant of exactNameMatches: exact matches are sought among the results  *)
(* that are returned, and the database ranked them last.                   *)
exactNameMatchesTrimmed(q, results) ==
  LET shown == CHOOSE s \in SUBSET results :
                 /\ Cardinality(s) = Shown(q, results)
                 /\ results \ Definite(q, results) \subseteq s \/ Definite(q, s) = {}
  IN  Definite(q, shown)

exactNameMatches(q, results) == Definite(q, results)

Best(hits) == {h \in hits : \A k \in hits : definitionPriority(h.kind) <= definitionPriority(k.kind)}

(* canonicalSearchResult and canonicalDefinitionHit: there is one when no  *)
(* other hit has its priority.                                             *)
HasCanonical(hits) == Cardinality(Best(hits)) = 1
Canonical(hits) == CHOOSE h \in Best(hits) : TRUE

NoHit == Hit(None, None, 0, None)
Payload(status, action, canonical, others, total) ==
  [status |-> status, action |-> action, canonical |-> canonical, others |-> others,
   total |-> total, level |-> None]

DefinitivePayload(hits) ==
  Payload("definitive", "answer_now", Canonical(hits), hits \ Best(hits), 1)
AmbiguousPayload(hits) ==
  Payload("ambiguous", "inspect_relevant_file", NoHit, hits, Cardinality(hits))

SearchPayload(q, results, suggested) ==
  LET exact == exactNameMatches(q, results)
      total == Shown(q, results)
      partial(action) == Payload("partial", action, NoHit, {}, total)
  IN  IF exact # {}
      THEN IF HasCanonical(exact) THEN DefinitivePayload(exact) ELSE AmbiguousPayload(exact)
      ELSE IF suggested THEN partial("retry_with_suggestion")
      ELSE IF total = 0 THEN partial("call_query_codebase")
      ELSE IF q.intent = "impact" THEN partial("call_get_impact_or_get_call_chain")
      ELSE partial("inspect_top_result")

DefinitionPayload(hits) ==
  IF hits = {} THEN Payload("partial", "call_query_codebase", NoHit, {}, 0)
  ELSE IF HasCanonical(hits) THEN [DefinitivePayload(hits) EXCEPT !.total = Cardinality(hits)]
  ELSE AmbiguousPayload(hits)

nudgeAfter == 4
loopGuardLevel(n) == IF n >= 6 THEN "stop_searching" ELSE "warning"

(* The loop guard, for the n-th call of the session.                       *)
Guarded(p, n) ==
  IF n < nudgeAfter THEN p
  ELSE IF p.status = "definitive" THEN [p EXCEPT !.level = loopGuardLevel(n)]
  ELSE [p EXCEPT !.level = loopGuardLevel(n), !.status = "partial",
                 !.action = "switch_tools_or_answer"]
=============================================================================
