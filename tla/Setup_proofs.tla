------------------------------ MODULE Setup_proofs ------------------------------
(***************************************************************************)
(* What setup promises, for any list of targets and any number of runs,    *)
(* edits and faults.  Of the table of harnesses only TableOK is used, so   *)
(* that the proofs stand for a table with more of them.                    *)
(***************************************************************************)
EXTENDS Setup, SequenceTheorems, TLAPS

Harnesses == ToSet(harnesses)

-----------------------------------------------------------------------------
(* The table.                                                              *)

(* What a harness of the table is.                                         *)
HarnessOK(h) ==
  /\ h.config \in {"JSON", "TOML", "YAML", None}
  /\ h.commands \in BOOLEAN /\ h.instructions \in BOOLEAN /\ h.agentsMD \in BOOLEAN
  /\ h.extra \in Seq(ToSet(vscodeHooks))
  /\ h.instructions => h.config # None

LEMMA TableOK ==
  /\ \A h \in Harnesses : HarnessOK(h)
  /\ \A h \in Harnesses : h.name \notin {"project", None}
  /\ \A g, h \in Harnesses : g.name = h.name => g = h
  /\ harnesses \in Seq(Harnesses)
<1>1. harnesses = [i \in 1..9 |-> harnesses[i]]
  BY DEF harnesses
<1>2. harnesses \in Seq(Harnesses) /\ DOMAIN harnesses = 1..9
  <2> HIDE DEF harnesses
  <2>1. DOMAIN harnesses = 1..9
    BY <1>1
  <2>2. \A i \in 1..9 : harnesses[i] \in Harnesses
    BY <2>1 DEF Harnesses, ToSet
  <2>3. [i \in 1..9 |-> harnesses[i]] \in Seq(Harnesses)
    BY <2>2, IsASeq
  <2>4. QED
    BY <1>1, <2>1, <2>3
<1>3. <<>> \in Seq(ToSet(vscodeHooks)) /\ vscodeHooks \in Seq(ToSet(vscodeHooks))
  BY DEF ToSet, vscodeHooks
<1>4. \A i \in 1..9 : \/ i = 1 \/ i = 2 \/ i = 3 \/ i = 4 \/ i = 5
                      \/ i = 6 \/ i = 7 \/ i = 8 \/ i = 9
  OBVIOUS
<1>5. /\ HarnessOK(harnesses[1]) /\ HarnessOK(harnesses[2]) /\ HarnessOK(harnesses[3])
      /\ HarnessOK(harnesses[4]) /\ HarnessOK(harnesses[5]) /\ HarnessOK(harnesses[6])
      /\ HarnessOK(harnesses[7]) /\ HarnessOK(harnesses[8]) /\ HarnessOK(harnesses[9])
  BY <1>3 DEF HarnessOK, harnesses, Harness, None
<1>6. /\ harnesses[1].name = "claude-code" /\ harnesses[2].name = "vscode"
      /\ harnesses[3].name = "codex" /\ harnesses[4].name = "antigravity"
      /\ harnesses[5].name = "cursor" /\ harnesses[6].name = "windsurf"
      /\ harnesses[7].name = "opencode" /\ harnesses[8].name = "hermes"
      /\ harnesses[9].name = "pi"
  BY DEF harnesses, Harness
<1>7. \A h \in Harnesses : \E i \in 1..9 : h = harnesses[i]
  BY <1>2 DEF Harnesses, ToSet
<1>8. \A h \in Harnesses : HarnessOK(h)
  BY <1>4, <1>5, <1>7
<1>9. ASSUME NEW g \in Harnesses, NEW h \in Harnesses, g.name = h.name PROVE g = h
  <2>1. PICK i \in 1..9 : g = harnesses[i]
    BY <1>7
  <2>2. PICK j \in 1..9 : h = harnesses[j]
    BY <1>7
  <2>3. i = j
    BY <1>4, <1>6, <1>9, <2>1, <2>2
  <2>4. QED
    BY <2>1, <2>2, <2>3
<1>10. \A h \in Harnesses : h.name \notin {"project", None}
  BY <1>4, <1>6, <1>7 DEF None
<1>11. QED
  BY <1>2, <1>8, <1>9, <1>10

-----------------------------------------------------------------------------
(* The steps of a harness, and those of a target.                          *)

StepsOf(h) == ToSet(apply(h))
TargetSteps(t) == {IgnoreIndex} \cup UNION {StepsOf(h) : h \in ToSet(Chosen(t))}
AllSteps == {IgnoreIndex} \cup UNION {StepsOf(h) : h \in Harnesses}

LEMMA ToSetConcat ==
  ASSUME NEW S, NEW s \in Seq(S), NEW t \in Seq(S)
  PROVE  /\ s \o t \in Seq(S)
         /\ ToSet(s \o t) = ToSet(s) \cup ToSet(t)
<1>1. s \o t \in Seq(S) /\ Len(s \o t) = Len(s) + Len(t)
  OBVIOUS
<1>2. \A i \in 1..Len(s \o t) : (s \o t)[i] = IF i <= Len(s) THEN s[i] ELSE t[i - Len(s)]
  OBVIOUS
<1>3. ToSet(s \o t) \subseteq ToSet(s) \cup ToSet(t)
  BY <1>1, <1>2 DEF ToSet
<1>4. ASSUME NEW i \in 1..Len(s) PROVE s[i] \in ToSet(s \o t)
  BY <1>1, <1>2 DEF ToSet
<1>5. ASSUME NEW i \in 1..Len(t) PROVE t[i] \in ToSet(s \o t)
  <2>1. Len(s) + i \in 1..Len(s \o t) /\ (s \o t)[Len(s) + i] = t[i]
    BY <1>1, <1>2
  <2>2. QED
    BY <1>1, <2>1 DEF ToSet
<1>6. ToSet(s) \subseteq ToSet(s \o t)
  BY <1>4 DEF ToSet
<1>7. ToSet(t) \subseteq ToSet(s \o t)
  BY <1>5 DEF ToSet
<1>8. QED
  BY <1>1, <1>3, <1>6, <1>7

LEMMA SeqOfToSet ==
  ASSUME NEW S, NEW s \in Seq(S)
  PROVE  s \in Seq(ToSet(s))
<1>1. DOMAIN s = 1..Len(s) /\ Len(s) \in Nat /\ s = [i \in 1..Len(s) |-> s[i]]
  OBVIOUS
<1>2. \A i \in 1..Len(s) : s[i] \in ToSet(s)
  BY <1>1 DEF ToSet
<1>3. [i \in 1..Len(s) |-> s[i]] \in Seq(ToSet(s))
  BY <1>1, <1>2, IsASeq
<1>4. QED
  BY <1>1, <1>3

LEMMA OneOrNone ==
  ASSUME NEW S, NEW x \in S, NEW b \in BOOLEAN
  PROVE  /\ (IF b THEN <<x>> ELSE <<>>) \in Seq(S)
         /\ \A y : y \in ToSet(IF b THEN <<x>> ELSE <<>>) <=> b /\ y = x
<1>1. ToSet(<<x>>) = {x}
  BY DEF ToSet
<1>2. ToSet(<<>>) = {}
  BY DEF ToSet
<1>3. CASE b
  BY <1>1, <1>3
<1>4. CASE ~b
  BY <1>2, <1>4
<1>5. QED
  BY <1>3, <1>4

LEMMA ToSetTail ==
  ASSUME NEW S, NEW s \in Seq(S), s # <<>>
  PROVE  /\ Tail(s) \in Seq(S) /\ Head(s) \in S
         /\ ToSet(s) = {Head(s)} \cup ToSet(Tail(s))
<1>1. Len(s) >= 1 /\ Tail(s) \in Seq(S) /\ Len(Tail(s)) = Len(s) - 1 /\ Head(s) = s[1]
  OBVIOUS
<1>2. \A i \in 1..Len(s) - 1 : Tail(s)[i] = s[i + 1]
  OBVIOUS
<1>3. ToSet(s) \subseteq {Head(s)} \cup ToSet(Tail(s))
  <2> SUFFICES ASSUME NEW i \in 1..Len(s) PROVE s[i] \in {Head(s)} \cup ToSet(Tail(s))
    BY DEF ToSet
  <2>1. CASE i = 1
    BY <2>1, <1>1
  <2>2. CASE i # 1
    <3>1. i - 1 \in 1..Len(s) - 1 /\ Tail(s)[i - 1] = s[i]
      BY <2>2, <1>1, <1>2
    <3>2. DOMAIN Tail(s) = 1..Len(s) - 1
      BY <1>1
    <3>3. QED
      BY <3>1, <3>2 DEF ToSet
  <2>3. QED
    BY <2>1, <2>2
<1>4. ToSet(Tail(s)) \subseteq ToSet(s)
  BY <1>1, <1>2 DEF ToSet
<1>5. Head(s) \in ToSet(s)
  BY <1>1 DEF ToSet
<1>6. Head(s) \in S
  BY <1>1
<1>7. QED
  BY <1>1, <1>3, <1>4, <1>5, <1>6

(* The files that a harness has for itself besides its configuration.      *)
LEMMA OwnedAre ==
  ASSUME NEW h \in Harnesses
  PROVE  /\ OwnedBy(h) \in Seq(OwnedFiles)
         /\ \A f \in ToSet(OwnedBy(h)) : f[1] = h.name /\ f[2] # "config"
<1> DEFINE roles == {"guidance"} \cup ToSet(Commands) \cup ToSet(vscodeHooks)
<1>1. HarnessOK(h)
  BY TableOK
<1>2. <<"guidance">> \in Seq(roles) /\ Commands \in Seq(roles) /\ <<>> \in Seq(roles)
  BY DEF Commands, ToSet
<1>3. h.extra \in Seq(roles)
  BY <1>1, SeqMonotonic DEF HarnessOK
<1>4. Roles(h) \in Seq(roles)
  <2> HIDE DEF roles
  <2>1. (IF h.commands THEN Commands ELSE <<>>) \in Seq(roles)
    BY <1>2
  <2>2. <<"guidance">> \o (IF h.commands THEN Commands ELSE <<>>) \in Seq(roles)
    BY <1>2, <2>1, ConcatProperties
  <2>3. QED
    BY <1>3, <2>2, ConcatProperties DEF Roles
<1>5. \A r \in roles : r # "config"
  BY DEF Commands, vscodeHooks, ToSet
<1>6. \A i \in 1..Len(OwnedBy(h)) : OwnedBy(h)[i] = <<h.name, Roles(h)[i]>> /\ Roles(h)[i] \in roles
  BY <1>4 DEF OwnedBy
<1>7. OwnedBy(h) \in Seq(OwnedFiles)
  <2>1. Len(Roles(h)) \in Nat
    BY <1>4
  <2>2. \A i \in 1..Len(Roles(h)) : OwnedBy(h)[i] \in OwnedFiles
    BY <2>1 DEF OwnedFiles, ToSet, OwnedBy, Harnesses
  <2>3. [i \in 1..Len(Roles(h)) |-> OwnedBy(h)[i]] \in Seq(OwnedFiles)
    BY <2>1, <2>2, IsASeq
  <2>4. QED
    BY <2>3 DEF OwnedBy
<1>8. ASSUME NEW f \in ToSet(OwnedBy(h)) PROVE f[1] = h.name /\ f[2] # "config"
  <2>1. PICK i \in 1..Len(OwnedBy(h)) : f = OwnedBy(h)[i]
    BY <1>7 DEF ToSet
  <2> HIDE DEF roles
  <2>2. QED
    BY <2>1, <1>5, <1>6
<1>9. QED
  BY <1>7, <1>8

(* The steps that apply makes of them.                                     *)
Makes(h, s) ==
  \/ h.config # None /\ s = Step("merge", ConfigOf(h), h)
  \/ \E f \in ToSet(OwnedBy(h)) : s = Step("write", f, h)
  \/ h.instructions /\ s = Step("list", ConfigOf(h), h)
  \/ h.agentsMD /\ s = Step("append", AgentsMD, h)

(* A merge comes first, if there is one.                                   *)
MergeFirst(s) == \A i \in 2..Len(s) : s[i].do # "merge"

LEMMA MergeStaysFirst ==
  ASSUME NEW S, NEW s \in Seq(S), NEW t \in Seq(S),
         MergeFirst(s), \A y \in ToSet(t) : y.do # "merge"
  PROVE  MergeFirst(s \o t)
<1> SUFFICES ASSUME NEW i \in 2..Len(s \o t) PROVE (s \o t)[i].do # "merge"
  BY DEF MergeFirst
<1>1. /\ Len(s \o t) = Len(s) + Len(t)
      /\ (s \o t)[i] = IF i <= Len(s) THEN s[i] ELSE t[i - Len(s)]
  OBVIOUS
<1>2. CASE i <= Len(s)
  BY <1>1, <1>2 DEF MergeFirst
<1>3. CASE ~(i <= Len(s))
  <2>1. i - Len(s) \in DOMAIN t /\ (s \o t)[i] = t[i - Len(s)]
    BY <1>1, <1>3
  <2>2. t[i - Len(s)] \in ToSet(t)
    BY <2>1 DEF ToSet
  <2>3. QED
    BY <2>1, <2>2
<1>4. QED
  BY <1>2, <1>3

LEMMA ApplyMakes ==
  ASSUME NEW h \in Harnesses
  PROVE  /\ apply(h) \in Seq(StepsOf(h))
         /\ \A s : s \in StepsOf(h) <=> Makes(h, s)
         /\ MergeFirst(apply(h))
<1> DEFINE U == {Step("merge", ConfigOf(h), h), Step("list", ConfigOf(h), h),
                 Step("append", AgentsMD, h)}
                   \cup {Step("write", f, h) : f \in ToSet(OwnedBy(h))}
           merge == IF h.config # None THEN <<Step("merge", ConfigOf(h), h)>> ELSE <<>>
           write == [i \in 1..Len(OwnedBy(h)) |-> Step("write", OwnedBy(h)[i], h)]
           list == IF h.instructions THEN <<Step("list", ConfigOf(h), h)>> ELSE <<>>
           append == IF h.agentsMD THEN <<Step("append", AgentsMD, h)>> ELSE <<>>
<1>0. HarnessOK(h)
  BY TableOK
<1>a. /\ Step("merge", ConfigOf(h), h) \in U
      /\ Step("list", ConfigOf(h), h) \in U
      /\ Step("append", AgentsMD, h) \in U
      /\ \A f \in ToSet(OwnedBy(h)) : Step("write", f, h) \in U
  OBVIOUS
<1> HIDE DEF U
<1>1. /\ merge \in Seq(U)
      /\ \A s : s \in ToSet(merge) <=> h.config # None /\ s = Step("merge", ConfigOf(h), h)
  <2> DEFINE some == h.config # None
             m == Step("merge", ConfigOf(h), h)
  <2>1. some \in BOOLEAN /\ m \in U
    BY <1>a
  <2> HIDE DEF some, m
  <2>2. /\ (IF some THEN <<m>> ELSE <<>>) \in Seq(U)
        /\ \A s : s \in ToSet(IF some THEN <<m>> ELSE <<>>) <=> some /\ s = m
    BY <2>1, OneOrNone
  <2>3. QED
    BY <2>2 DEF some, m
<1>2. /\ list \in Seq(U)
      /\ \A s : s \in ToSet(list) <=> h.instructions /\ s = Step("list", ConfigOf(h), h)
  BY <1>0, <1>a, OneOrNone DEF HarnessOK
<1>3. /\ append \in Seq(U)
      /\ \A s : s \in ToSet(append) <=> h.agentsMD /\ s = Step("append", AgentsMD, h)
  BY <1>0, <1>a, OneOrNone DEF HarnessOK
<1>4. /\ write \in Seq(U)
      /\ ToSet(write) = {Step("write", f, h) : f \in ToSet(OwnedBy(h))}
  <2>1. Len(OwnedBy(h)) \in Nat /\ DOMAIN OwnedBy(h) = 1..Len(OwnedBy(h))
    BY OwnedAre
  <2>2. \A i \in 1..Len(OwnedBy(h)) : write[i] \in U
    BY <1>a, <2>1 DEF ToSet
  <2>3. write \in Seq(U)
    BY <2>1, <2>2, IsASeq
  <2>4. ToSet(write) = {Step("write", f, h) : f \in ToSet(OwnedBy(h))}
    BY <2>1 DEF ToSet
  <2>5. QED
    BY <2>3, <2>4
<1> HIDE DEF merge, write, list, append
<1>b. merge \in Seq(U) /\ write \in Seq(U) /\ list \in Seq(U) /\ append \in Seq(U)
  BY <1>1, <1>2, <1>3, <1>4
<1>5. /\ merge \o write \in Seq(U)
      /\ ToSet(merge \o write) = ToSet(merge) \cup ToSet(write)
  BY <1>b, ToSetConcat
<1>6. /\ (merge \o write) \o list \in Seq(U)
      /\ ToSet((merge \o write) \o list) = ToSet(merge \o write) \cup ToSet(list)
  <2> DEFINE two == merge \o write
  <2>1. two \in Seq(U)
    BY <1>5
  <2> HIDE DEF two
  <2>2. two \o list \in Seq(U) /\ ToSet(two \o list) = ToSet(two) \cup ToSet(list)
    BY <1>b, <2>1, ToSetConcat
  <2>3. QED
    BY <2>2 DEF two
<1> DEFINE first == (merge \o write) \o list
<1>7. /\ first \o append \in Seq(U)
      /\ ToSet(first \o append) = ToSet(first) \cup ToSet(append)
  <2>1. first \in Seq(U)
    BY <1>6
  <2> HIDE DEF first
  <2>2. QED
    BY <1>b, <2>1, ToSetConcat
<1>8. apply(h) = ((merge \o write) \o list) \o append
  BY DEF apply, merge, write, list, append
<1>9. StepsOf(h) = ToSet(merge) \cup ToSet(write) \cup ToSet(list) \cup ToSet(append)
  BY <1>5, <1>6, <1>7, <1>8 DEF StepsOf
<1>10. apply(h) \in Seq(StepsOf(h))
  <2>1. apply(h) \in Seq(U)
    BY <1>7, <1>8
  <2>2. apply(h) \in Seq(ToSet(apply(h)))
    BY <2>1, SeqOfToSet
  <2>3. QED
    BY <2>2 DEF StepsOf
<1>11. ASSUME NEW s PROVE s \in StepsOf(h) <=> Makes(h, s)
  <2>1. s \in ToSet(write) <=> \E f \in ToSet(OwnedBy(h)) : s = Step("write", f, h)
    BY <1>4
  <2>2. QED
    BY <1>1, <1>2, <1>3, <1>9, <2>1 DEF Makes
<1>12. MergeFirst(apply(h))
  <2>1. MergeFirst(merge)
    BY DEF MergeFirst, merge
  <2>2. MergeFirst(merge \o write)
    <3>1. \A y \in ToSet(write) : y.do # "merge"
      BY <1>4 DEF Step
    <3>2. QED
      BY <1>b, <2>1, <3>1, MergeStaysFirst
  <2>3. MergeFirst(first)
    <3>1. \A y \in ToSet(list) : y.do # "merge"
      BY <1>2 DEF Step
    <3>2. QED
      BY <1>5, <1>b, <2>2, <3>1, MergeStaysFirst
  <2>4. MergeFirst(first \o append)
    <3>1. \A y \in ToSet(append) : y.do # "merge"
      BY <1>3 DEF Step
    <3>2. first \in Seq(U)
      BY <1>6
    <3> HIDE DEF first
    <3>3. QED
      BY <1>b, <2>3, <3>1, <3>2, MergeStaysFirst
  <2>5. QED
    BY <1>8, <2>4
<1>13. QED
  BY <1>10, <1>11, <1>12

-----------------------------------------------------------------------------
(* The inductive invariant.                                                *)

Configs ==
  [kind : {"absent", "empty", "broken", "doc"},
   servers : {"missing", "wrong", "inline", "map"},
   names : SUBSET {"other", serverName},
   list : {"missing", "wrong", "list"},
   paths : SUBSET {"other", "guidance"},
   user : BOOLEAN,
   more : BOOLEAN]

(* A configuration without content lists nothing.                          *)
Blank(c) ==
  c.kind \in {"absent", "empty"} =>
    c.servers = "missing" /\ c.names = {} /\ c.paths = {} /\ ~c.user

Styles == {"MCP", "CLI", ".max-context/"}
Texts == [exists : BOOLEAN, user : BOOLEAN, ours : {<<>>} \cup {<<x>> : x \in Styles}]
Owned == {"absent", "ours", "users", "torn"}

FilesInv ==
  /\ fs = [f \in ConfigFiles \cup OwnedFiles \cup SharedFiles |-> fs[f]]
  /\ \A f \in ConfigFiles : fs[f] \in Configs /\ Blank(fs[f])
  /\ \A f \in OwnedFiles : fs[f] \in Owned
  /\ \A f \in SharedFiles : fs[f] \in Texts

RunInv ==
  /\ target \in Targets \cup {None} /\ settled \in Targets \cup {None}
  /\ disturbed \in BOOLEAN
  /\ outcome \in {"none", "running", "ok", "error", "killed"}
  /\ skipped \subseteq ConfigFiles
  /\ count \in [runs : Nat, edits : Nat, faults : Nat]

(* A run has only steps of its target left, and a merge only in front of   *)
(* all other steps of its harness.                                         *)
PlanInv ==
  /\ todo \in Seq(AllSteps) /\ queue \in Seq(Harnesses)
  /\ Running => /\ ToSet(todo) \subseteq TargetSteps(target)
                /\ ToSet(queue) \subseteq ToSet(Chosen(target))
  /\ \A s \in ToSet(todo) : s.do = "merge" => todo = apply(s.h)

(* What is not in front of the run is done, and cannot change any more.    *)
Pending(s) == s \in ToSet(todo) \/ \E h \in ToSet(queue) : s \in StepsOf(h)
Stable(s) == Result(s) = fs[s.file]

(* The configuration names the server; inline in TOML, it need not parse.  *)
Serves(c) == (c.kind = "doc" /\ serverName \in c.names) \/ c.servers = "inline"

(* What a step has installed: c is the content of its file, k the skipped  *)
(* files.                                                                  *)
InstalledIn(s, c, k) ==
  CASE s.do = "merge" -> s.file \notin k => Serves(c)
    [] s.do = "list" -> s.file \notin k => "guidance" \in c.paths
    [] s.do = "write" -> c # "absent"
    [] s.do = "append" -> c.ours # <<>>
    [] OTHER -> TRUE
Installed(s) == InstalledIn(s, fs[s.file], skipped)

DoneInv ==
  /\ Running /\ ~disturbed =>
       \A s \in TargetSteps(target) : Pending(s) \/ (Stable(s) /\ Installed(s))
  /\ outcome = "ok" => Known(target)
  /\ outcome = "ok" /\ settled = target => \A s \in TargetSteps(target) : Installed(s)
  /\ settled # None => Known(settled) /\ \A s \in TargetSteps(settled) : Stable(s)

Inv == FilesInv /\ RunInv /\ PlanInv /\ DoneInv

-----------------------------------------------------------------------------
(* What each kind of step does to its file: it keeps the type and what is  *)
(* the user's, and a second time it does nothing.                          *)

Formats == {"JSON", "TOML", "YAML"}

Extended(c, more) ==
  [c EXCEPT !.servers = "map", !.names = @ \cup {serverName}, !.more = more]

LEMMA ExtendedIs ==
  ASSUME NEW c \in Configs, NEW more \in BOOLEAN
  PROVE  LET e == Extended(c, more)
         IN  /\ e \in Configs
             /\ e.kind = c.kind /\ e.servers = "map" /\ e.names = c.names \cup {serverName}
             /\ e.paths = c.paths /\ e.user = c.user
<1> DEFINE n == c.names \cup {serverName}
           e == Extended(c, more)
<1>1. n \in SUBSET {"other", serverName}
  BY DEF Configs
<1>2. e = [c EXCEPT !.servers = "map", !.names = n, !.more = more]
  BY DEF Extended
<1> HIDE DEF n, e
<1>3. /\ e \in Configs
      /\ e.kind = c.kind /\ e.servers = "map" /\ e.names = n
      /\ e.paths = c.paths /\ e.user = c.user
  BY <1>1, <1>2 DEF Configs
<1>4. QED
  BY <1>3 DEF n, e

LEMMA MergeCases ==
  ASSUME NEW c \in Configs, Blank(c), NEW format \in Formats
  PROVE  \/ c.kind \in {"absent", "empty"} /\ Merged(format, c) = Config("doc", "map", {serverName}, FALSE)
         \/ /\ c.kind = "doc" /\ c.servers = "inline" /\ format = "TOML"
            /\ Merged(format, c) = [c EXCEPT !.kind = "broken"]
         \/ /\ c.kind \notin {"absent", "empty"}
            /\ Refused(c) \/ serverName \in c.names
            /\ Merged(format, c) = c
         \/ /\ c.kind = "doc" /\ ~Refused(c) /\ serverName \notin c.names
            /\ ~(c.servers = "inline" /\ format = "TOML")
            /\ \E more \in BOOLEAN : Merged(format, c) = Extended(c, more)
<1>1. ASSUME c.kind \in {"absent", "empty"}
      PROVE  mergeMCPConfigEntry(c) = Config("doc", "map", {serverName}, FALSE)
  BY <1>1 DEF mergeMCPConfigEntry, Blank, Refused
<1>2. ASSUME c.kind \notin {"absent", "empty"}, Refused(c) \/ serverName \in c.names
      PROVE  mergeMCPConfigEntry(c) = c
  BY <1>2 DEF mergeMCPConfigEntry
<1>3. ASSUME c.kind \notin {"absent", "empty"}, ~(Refused(c) \/ serverName \in c.names)
      PROVE  /\ c.kind = "doc"
             /\ mergeMCPConfigEntry(c) = Extended(c, c.more)
  <2>1. c.kind = "doc"
    BY <1>3 DEF Refused, Configs
  <2>2. mergeMCPConfigEntry(c) = [c EXCEPT !.servers = "map", !.names = @ \cup {serverName}]
    BY <1>3 DEF mergeMCPConfigEntry
  <2>3. [c EXCEPT !.servers = "map", !.names = @ \cup {serverName}] = Extended(c, c.more)
    BY DEF Extended, Configs
  <2>4. QED
    BY <2>1, <2>2, <2>3
<1>4. mergeYAMLConfig(c) = IF mergeMCPConfigEntry(c) = c THEN c
                           ELSE [mergeMCPConfigEntry(c) EXCEPT !.more = FALSE]
  BY DEF mergeYAMLConfig
<1>5. c.more \in BOOLEAN
  BY DEF Configs
<1>6. CASE format = "YAML"
  <2>1. Merged(format, c) = mergeYAMLConfig(c)
    BY <1>6 DEF Merged
  <2>2. CASE c.kind \in {"absent", "empty"}
    <3> DEFINE new == Config("doc", "map", {serverName}, FALSE)
    <3>1. new \in Configs /\ new.more = FALSE /\ new.kind = "doc"
      BY DEF Config, Configs
    <3> HIDE DEF new
    <3>2. [new EXCEPT !.more = FALSE] = new
      BY <3>1 DEF Configs
    <3>3. mergeMCPConfigEntry(c) = new
      BY <1>1, <2>2 DEF new
    <3>4. Merged(format, c) = new
      BY <1>4, <2>1, <2>2, <3>1, <3>2, <3>3
    <3>5. QED
      BY <2>2, <3>4 DEF new
  <2>3. CASE c.kind \notin {"absent", "empty"} /\ (Refused(c) \/ serverName \in c.names)
    BY <1>2, <1>4, <2>1, <2>3
  <2>4. CASE c.kind \notin {"absent", "empty"} /\ ~(Refused(c) \/ serverName \in c.names)
    <3>1. Extended(c, c.more) # c
      BY <1>5, <2>4, ExtendedIs
    <3>2. [Extended(c, c.more) EXCEPT !.more = FALSE] = Extended(c, FALSE)
      BY DEF Extended, Configs
    <3>3. Merged(format, c) = Extended(c, FALSE)
      BY <1>3, <1>4, <2>1, <2>4, <3>1, <3>2
    <3>4. QED
      BY <1>3, <1>6, <2>4, <3>3
  <2>5. QED
    BY <2>2, <2>3, <2>4
<1>7. CASE format = "JSON"
  <2>1. Merged(format, c) = mergeMCPConfigEntry(c)
    BY <1>7 DEF Merged
  <2>2. QED
    BY <1>1, <1>2, <1>3, <1>5, <1>7, <2>1
<1>8. CASE format = "TOML"
  <2>1. Merged(format, c) = mergeTOMLConfig(c)
    BY <1>8 DEF Merged
  <2>2. QED
    BY <1>1, <1>2, <1>3, <1>5, <1>8, <2>1 DEF mergeTOMLConfig
<1>9. QED
  BY <1>6, <1>7, <1>8 DEF Formats

LEMMA MergedIs ==
  ASSUME NEW c \in Configs, Blank(c), NEW format \in Formats
  PROVE  LET m == Merged(format, c)
         IN  /\ m \in Configs /\ Blank(m)
             /\ Merged(format, m) = m
             /\ Refused(c) \/ Serves(m)
             /\ Serves(c) => Serves(m)
             /\ m.user = c.user
             /\ m.names \ {serverName} = c.names \ {serverName}
             /\ m.paths = c.paths
<1> DEFINE m == Merged(format, c)
<1>1. CASE c.kind \in {"absent", "empty"} /\ m = Config("doc", "map", {serverName}, FALSE)
  <2>1. m \in Configs /\ Blank(m) /\ m.kind = "doc" /\ m.servers = "map" /\ m.names = {serverName}
        /\ m.user = FALSE /\ m.paths = {}
    BY <1>1 DEF Configs, Config, Blank
  <2> HIDE DEF m
  <2>2. Merged(format, m) = m
    BY <2>1, MergeCases
  <2>3. QED
    BY <1>1, <2>1, <2>2 DEF Blank, Serves, m
<1>2. CASE c.kind = "doc" /\ c.servers = "inline" /\ m = [c EXCEPT !.kind = "broken"]
  <2>1. m \in Configs /\ Blank(m) /\ m.kind = "broken" /\ m.servers = "inline" /\ m.names = c.names
        /\ m.user = c.user /\ m.paths = c.paths
    BY <1>2 DEF Configs, Blank
  <2> HIDE DEF m
  <2>2. Merged(format, m) = m
    BY <2>1, MergeCases
  <2>3. QED
    BY <1>2, <2>1, <2>2 DEF m, Serves
<1>3. CASE m = c /\ c.kind \notin {"absent", "empty"} /\ (Refused(c) \/ serverName \in c.names)
  <2>1. Refused(c) \/ Serves(c)
    BY <1>3 DEF Refused, Serves, Configs
  <2>2. QED
    BY <1>3, <2>1
<1>4. CASE c.kind = "doc" /\ \E more \in BOOLEAN : m = Extended(c, more)
  <2>1. m \in Configs /\ Blank(m) /\ m.kind = "doc" /\ m.servers = "map"
        /\ m.names = c.names \cup {serverName} /\ m.user = c.user /\ m.paths = c.paths
    <3>1. PICK more \in BOOLEAN : m = Extended(c, more)
      BY <1>4
    <3> HIDE DEF m
    <3>2. QED
      BY <1>4, <3>1, ExtendedIs DEF Blank
  <2> HIDE DEF m
  <2>2. Merged(format, m) = m
    BY <2>1, MergeCases
  <2>3. QED
    BY <1>4, <2>1, <2>2 DEF m, Serves
<1>5. QED
  BY <1>1, <1>2, <1>3, <1>4, MergeCases

LEMMA ListedIs ==
  ASSUME NEW c \in Configs, Blank(c)
  PROVE  LET l == Listed(c)
         IN  /\ l \in Configs /\ Blank(l)
             /\ Listed(l) = l
             /\ l.user = c.user /\ l.names = c.names
             /\ Serves(c) => Serves(l)
             /\ Unlistable(c) \/ "guidance" \in l.paths
             /\ "guidance" \in c.paths => "guidance" \in l.paths
             /\ l.paths \ {"guidance"} = c.paths \ {"guidance"}
             /\ \A format \in Formats : Merged(format, c) = c => Merged(format, l) = l
<1> DEFINE l == Listed(c)
<1>1. CASE l = c /\ (Unlistable(c) \/ "guidance" \in c.paths)
  BY <1>1
<1>2. CASE c.kind = "doc" /\ l = [c EXCEPT !.list = "list", !.paths = @ \cup {"guidance"}]
  <2>1. l \in Configs /\ l.kind = "doc" /\ l.servers = c.servers /\ l.names = c.names
        /\ l.user = c.user /\ l.paths = c.paths \cup {"guidance"} /\ l.list = "list"
    <3> DEFINE p == c.paths \cup {"guidance"}
    <3>1. p \in SUBSET {"other", "guidance"}
      BY DEF Configs
    <3>2. l = [c EXCEPT !.list = "list", !.paths = p]
      BY <1>2
    <3> HIDE DEF l, p
    <3>3. l \in Configs /\ l.kind = "doc" /\ l.servers = c.servers /\ l.names = c.names
          /\ l.user = c.user /\ l.paths = p /\ l.list = "list"
      BY <1>2, <3>1, <3>2 DEF Configs
    <3>4. QED
      BY <3>3 DEF p
  <2>2. Listed(l) = l /\ Blank(l)
    BY <2>1 DEF Listed, Blank
  <2>3. ASSUME NEW format \in Formats, Merged(format, c) = c PROVE Merged(format, l) = l
    <3>1. CASE c.servers = "inline" /\ format = "TOML"
      <4>1. Merged(format, c) = [c EXCEPT !.kind = "broken"]
        BY <1>2, <3>1 DEF Merged, mergeTOMLConfig
      <4>2. [c EXCEPT !.kind = "broken"].kind = "broken"
        BY DEF Configs
      <4>3. QED
        BY <1>2, <2>3, <4>1, <4>2
    <3>2. CASE ~(c.servers = "inline" /\ format = "TOML")
      <4>1. Refused(c) \/ serverName \in c.names
        <5> SUFFICES ASSUME ~Refused(c), serverName \notin c.names PROVE FALSE
          OBVIOUS
        <5>1. PICK more \in BOOLEAN : Merged(format, c) = Extended(c, more)
          BY <1>2, <3>2, MergeCases
        <5>2. Extended(c, more).names = c.names \cup {serverName}
          BY ExtendedIs
        <5>3. QED
          BY <2>3, <5>1, <5>2
      <4>2. Refused(l) \/ serverName \in l.names
        BY <1>2, <2>1, <4>1 DEF Refused
      <4> HIDE DEF l
      <4>3. QED
        BY <2>1, <2>2, <3>2, <4>2, MergeCases
    <3>3. QED
      BY <3>1, <3>2
  <2>4. Serves(c) => Serves(l)
    BY <1>2, <2>1 DEF Serves
  <2> HIDE DEF l
  <2>5. QED
    BY <2>1, <2>2, <2>3, <2>4 DEF l
<1>3. QED
  BY <1>1, <1>2 DEF Listed, Unlistable

LEMMA AppendedIs ==
  ASSUME NEW t \in Texts, NEW style \in Styles
  PROVE  LET a == Appended(t, style)
         IN  /\ a \in Texts /\ a.ours # <<>> /\ a.user = t.user
             /\ \A other : Appended(a, other) = a
  BY DEF Appended, Texts, Text

-----------------------------------------------------------------------------
(* Steps and files.                                                        *)

LEMMA FilesDiffer ==
  /\ ConfigFiles \cap OwnedFiles = {}
  /\ (ConfigFiles \cup OwnedFiles) \cap SharedFiles = {}
  /\ AgentsMD # Gitignore
<1>1. \A f \in ConfigFiles : f[2] = "config"
  BY DEF ConfigFiles, ConfigOf
<1>2. \A f \in OwnedFiles : f[2] # "config"
  BY OwnedAre DEF OwnedFiles, Harnesses
<1>3. \A f \in SharedFiles : f[2] # "config"
  BY DEF SharedFiles, AgentsMD, Gitignore
<1>4. \A f \in OwnedFiles : f[1] # "project"
  <2>1. \A h \in Harnesses : h.name # "project"
    BY TableOK
  <2>2. QED
    BY <2>1, OwnedAre DEF OwnedFiles, Harnesses
<1>5. \A f \in SharedFiles : f[1] = "project"
  BY DEF SharedFiles, AgentsMD, Gitignore
<1>6. QED
  BY <1>1, <1>2, <1>3, <1>4, <1>5 DEF AgentsMD, Gitignore

(* The kind of a step fixes the kind of its file.                          *)
StepKind(s) ==
  \/ /\ s.do = "merge" /\ s.file \in ConfigFiles /\ s.h \in Harnesses
     /\ s.file = ConfigOf(s.h) /\ s.h.config \in Formats
  \/ s.do = "write" /\ s.file \in OwnedFiles
  \/ s.do = "list" /\ s.file \in ConfigFiles /\ s.h \in Harnesses /\ s.file = ConfigOf(s.h)
  \/ s.do = "append" /\ s.file = AgentsMD
  \/ s.do = "ignore" /\ s.file = Gitignore

LEMMA StepsAreKinds ==
  ASSUME NEW s \in AllSteps
  PROVE  StepKind(s)
<1>1. CASE s = IgnoreIndex
  BY <1>1 DEF StepKind, IgnoreIndex, Step
<1>2. ASSUME NEW h \in Harnesses, Makes(h, s) PROVE StepKind(s)
  <2>1. HarnessOK(h)
    BY TableOK
  <2>2. h.config # None => ConfigOf(h) \in ConfigFiles /\ h.config \in Formats
    BY <2>1 DEF ConfigFiles, HarnessOK, Harnesses, Formats
  <2>3. ToSet(OwnedBy(h)) \subseteq OwnedFiles
    BY DEF OwnedFiles, Harnesses
  <2>4. CASE h.config # None /\ s = Step("merge", ConfigOf(h), h)
    BY <2>2, <2>4 DEF StepKind, Step
  <2>5. CASE \E f \in ToSet(OwnedBy(h)) : s = Step("write", f, h)
    BY <2>3, <2>5 DEF StepKind, Step
  <2>6. CASE h.instructions /\ s = Step("list", ConfigOf(h), h)
    BY <2>1, <2>2, <2>6 DEF StepKind, Step, HarnessOK
  <2>7. CASE h.agentsMD /\ s = Step("append", AgentsMD, h)
    BY <2>7 DEF StepKind, Step
  <2>8. QED
    BY <1>2, <2>4, <2>5, <2>6, <2>7 DEF Makes
<1>3. QED
  BY <1>1, <1>2, ApplyMakes DEF AllSteps

(* What an append and an ensureGitignore add to a text.                    *)
Style(s) == IF s.do = "append" THEN guidanceStyle(s.h) ELSE ".max-context/"

LEMMA StyleIs ==
  ASSUME NEW s, s.do \in {"append", "ignore"}
  PROVE  Style(s) \in Styles /\ \A x : Outcome(s, x) = Appended(x, Style(s))
<1>1. guidanceStyle(s.h) \in Styles
  BY DEF guidanceStyle, Styles
<1>2. CASE s.do = "append"
  <2>1. Style(s) = guidanceStyle(s.h)
    BY <1>2 DEF Style
  <2>2. \A x : Outcome(s, x) = Appended(x, guidanceStyle(s.h))
    BY <1>2 DEF Outcome
  <2>3. QED
    BY <1>1, <2>1, <2>2
<1>3. CASE s.do = "ignore"
  BY <1>3 DEF Outcome, Style, Styles
<1>4. QED
  BY <1>2, <1>3

ContentOK(f, c) ==
  /\ f \in ConfigFiles => c \in Configs /\ Blank(c)
  /\ f \in OwnedFiles => c \in Owned
  /\ f \in SharedFiles => c \in Texts

(* What a step leaves is right for its file and keeps the user's part.     *)
PartOf(f, c) ==
  IF f \in ConfigFiles THEN <<c.user, c.names \ {serverName}, c.paths \ {"guidance"}>>
  ELSE IF f \in OwnedFiles THEN <<c = "users">>
  ELSE <<c.user>>

LEMMA OutcomeOK ==
  ASSUME NEW s \in AllSteps, NEW c, ContentOK(s.file, c)
  PROVE  /\ ContentOK(s.file, Outcome(s, c))
         /\ PartOf(s.file, Outcome(s, c)) = PartOf(s.file, c)
         /\ Outcome(s, Outcome(s, c)) = Outcome(s, c)
<1> DEFINE o == Outcome(s, c)
<1>0. StepKind(s)
  BY StepsAreKinds
<1>1. CASE s.do = "merge"
  <2>1. /\ s.file \in ConfigFiles /\ s.file \notin OwnedFiles /\ s.file \notin SharedFiles
        /\ s.h.config \in Formats
    BY <1>0, <1>1, FilesDiffer DEF StepKind
  <2>2. /\ c \in Configs /\ Blank(c) /\ \A x : Outcome(s, x) = Merged(s.h.config, x)
    BY <1>1, <2>1 DEF ContentOK, Outcome
  <2>3. QED
    BY <2>1, <2>2, MergedIs DEF ContentOK, PartOf
<1>2. CASE s.do = "list"
  <2>1. s.file \in ConfigFiles /\ s.file \notin OwnedFiles /\ s.file \notin SharedFiles
    BY <1>0, <1>2, FilesDiffer DEF StepKind
  <2>2. c \in Configs /\ Blank(c) /\ \A x : Outcome(s, x) = Listed(x)
    BY <1>2, <2>1 DEF ContentOK, Outcome
  <2>3. QED
    BY <2>1, <2>2, ListedIs DEF ContentOK, PartOf
<1>3. CASE s.do = "write"
  <2>1. s.file \in OwnedFiles /\ s.file \notin ConfigFiles /\ s.file \notin SharedFiles
    BY <1>0, <1>3, FilesDiffer DEF StepKind
  <2>2. c \in Owned /\ \A x : Outcome(s, x) = IF x = "absent" THEN "ours" ELSE x
    BY <1>3, <2>1 DEF ContentOK, Outcome
  <2>3. QED
    BY <2>1, <2>2 DEF ContentOK, PartOf, Owned
<1>4. CASE s.do \in {"append", "ignore"}
  <2>1. s.file \in SharedFiles /\ s.file \notin ConfigFiles /\ s.file \notin OwnedFiles
    BY <1>0, <1>4, FilesDiffer DEF StepKind, SharedFiles
  <2>2. Style(s) \in Styles /\ \A x : Outcome(s, x) = Appended(x, Style(s))
    BY <1>4, StyleIs
  <2>3. c \in Texts
    BY <2>1 DEF ContentOK
  <2>4. QED
    BY <2>1, <2>2, <2>3, AppendedIs DEF ContentOK, PartOf
<1>5. QED
  BY <1>0, <1>1, <1>2, <1>3, <1>4 DEF StepKind

(* A step leaves alone what another step has done: of all pairs, only a    *)
(* merge after the list of the same file could change anything.            *)
LEMMA StableStays ==
  ASSUME NEW s \in AllSteps, NEW r \in AllSteps, s.file = r.file,
         NEW c, ContentOK(s.file, c), Outcome(r, c) = c,
         s.do = "merge" => r.do # "list"
  PROVE  Outcome(r, Outcome(s, c)) = Outcome(s, c)
<1>0. StepKind(s) /\ StepKind(r)
  BY StepsAreKinds
<1>1. CASE s.do = "merge"
  <2>1. r.do = "merge" /\ r.h = s.h
    BY <1>0, <1>1, FilesDiffer, TableOK DEF StepKind, ConfigOf, SharedFiles
  <2>2. \A x : Outcome(r, x) = Outcome(s, x)
    BY <1>1, <2>1 DEF Outcome
  <2>3. QED
    BY <2>2, OutcomeOK
<1>2. CASE s.do = "list"
  <2>1. r.do \in {"merge", "list"} /\ s.file \in ConfigFiles
    BY <1>0, <1>2, FilesDiffer DEF StepKind, SharedFiles
  <2>2. Outcome(s, c) = Listed(c) /\ c \in Configs /\ Blank(c)
    BY <1>2, <2>1 DEF Outcome, ContentOK
  <2>3. CASE r.do = "list"
    <3>1. Outcome(r, Listed(c)) = Listed(Listed(c))
      BY <2>3 DEF Outcome
    <3>2. QED
      BY <2>2, <3>1, ListedIs
  <2>4. CASE r.do = "merge"
    <3>1. r.h.config \in Formats /\ \A x : Outcome(r, x) = Merged(r.h.config, x)
      BY <1>0, <2>4 DEF Outcome, StepKind
    <3>2. QED
      BY <2>2, <3>1, ListedIs
  <2>5. QED
    BY <2>1, <2>3, <2>4
<1>3. CASE s.do = "write"
  <2>1. r.do = "write"
    BY <1>0, <1>3, FilesDiffer DEF StepKind, SharedFiles
  <2>2. \A x : Outcome(r, x) = Outcome(s, x)
    BY <1>3, <2>1 DEF Outcome
  <2>3. QED
    BY <2>2, OutcomeOK
<1>4. CASE s.do \in {"append", "ignore"}
  <2>1. r.do \in {"append", "ignore"} /\ s.file \in SharedFiles
    BY <1>0, <1>4, FilesDiffer DEF StepKind, SharedFiles
  <2>2. c \in Texts
    BY <2>1 DEF ContentOK
  <2>3. Style(s) \in Styles /\ Outcome(s, c) = Appended(c, Style(s))
    BY <1>4, StyleIs
  <2>4. \A x : Outcome(r, x) = Appended(x, Style(r))
    BY <2>1, StyleIs
  <2>5. \A other : Appended(Appended(c, Style(s)), other) = Appended(c, Style(s))
    BY <2>2, <2>3, AppendedIs
  <2>6. QED
    BY <2>3, <2>4, <2>5
<1>5. QED
  BY <1>0, <1>1, <1>2, <1>3, <1>4 DEF StepKind

LEMMA InstalledStays ==
  ASSUME NEW s \in AllSteps, NEW r \in AllSteps, s.file = r.file,
         NEW c, ContentOK(s.file, c), NEW k, NEW l, k \subseteq l, InstalledIn(r, c, k)
  PROVE  InstalledIn(r, Outcome(s, c), l)
<1>0. StepKind(s) /\ StepKind(r)
  BY StepsAreKinds
<1>1. CASE r.do = "merge"
  <2>1. s.do \in {"merge", "list"} /\ s.file \in ConfigFiles
    BY <1>0, <1>1, FilesDiffer DEF StepKind, SharedFiles
  <2>2. c \in Configs /\ Blank(c)
    BY <2>1 DEF ContentOK
  <2>3. r.file \notin l => Serves(c)
    BY <1>1 DEF InstalledIn
  <2>4. CASE s.do = "merge"
    <3>1. s.h.config \in Formats /\ Outcome(s, c) = Merged(s.h.config, c)
      BY <1>0, <2>4 DEF StepKind, Outcome
    <3>2. QED
      BY <1>1, <2>2, <2>3, <3>1, MergedIs DEF InstalledIn
  <2>5. CASE s.do = "list"
    <3>1. Outcome(s, c) = Listed(c)
      BY <2>5 DEF Outcome
    <3>2. QED
      BY <1>1, <2>2, <2>3, <3>1, ListedIs DEF InstalledIn
  <2>6. QED
    BY <2>1, <2>4, <2>5
<1>2. CASE r.do = "write"
  <2>1. s.do = "write"
    BY <1>0, <1>2, FilesDiffer DEF StepKind, SharedFiles
  <2>2. QED
    BY <1>2, <2>1 DEF InstalledIn, Outcome
<1>3. CASE r.do = "append"
  <2>1. s.do = "append"
    BY <1>0, <1>3, FilesDiffer DEF StepKind, SharedFiles
  <2>2. c.ours # <<>>
    BY <1>3 DEF InstalledIn
  <2>3. Outcome(s, c) = c
    BY <2>1, <2>2 DEF Outcome, Appended
  <2>4. QED
    BY <1>3, <2>2, <2>3 DEF InstalledIn
<1>4. CASE r.do = "list"
  <2>1. s.do \in {"merge", "list"} /\ s.file \in ConfigFiles
    BY <1>0, <1>4, FilesDiffer DEF StepKind, SharedFiles
  <2>2. c \in Configs /\ Blank(c)
    BY <2>1 DEF ContentOK
  <2>3. r.file \notin l => "guidance" \in c.paths
    BY <1>4 DEF InstalledIn
  <2>4. CASE s.do = "merge"
    <3>1. s.h.config \in Formats /\ Outcome(s, c) = Merged(s.h.config, c)
      BY <1>0, <2>4 DEF StepKind, Outcome
    <3>2. Outcome(s, c).paths = c.paths
      BY <2>2, <3>1, MergedIs
    <3>3. QED
      BY <1>4, <2>3, <3>2 DEF InstalledIn
  <2>5. CASE s.do = "list"
    <3>1. Outcome(s, c) = Listed(c)
      BY <2>5 DEF Outcome
    <3>2. "guidance" \in c.paths => "guidance" \in Outcome(s, c).paths
      BY <2>2, <3>1, ListedIs
    <3>3. QED
      BY <1>4, <2>3, <3>2 DEF InstalledIn
  <2>6. QED
    BY <2>1, <2>4, <2>5
<1>5. CASE r.do = "ignore"
  BY <1>5 DEF InstalledIn
<1>6. QED
  BY <1>0, <1>1, <1>2, <1>3, <1>4, <1>5 DEF StepKind

LEMMA StepInstalls ==
  ASSUME NEW s \in AllSteps, ContentOK(s.file, fs[s.file]),
         NEW k, k = IF Skips(s) THEN skipped \cup {s.file} ELSE skipped
  PROVE  InstalledIn(s, Outcome(s, fs[s.file]), k)
<1> DEFINE c == fs[s.file]
<1>0. StepKind(s)
  BY StepsAreKinds
<1>1. CASE s.do = "merge"
  <2>1. s.h.config \in Formats /\ Outcome(s, c) = Merged(s.h.config, c) /\ s.file \in ConfigFiles
    BY <1>0, <1>1 DEF StepKind, Outcome
  <2>2. c \in Configs /\ Blank(c)
    BY <2>1 DEF ContentOK
  <2>3. Refused(c) => s.file \in k
    BY <1>1 DEF Skips
  <2>4. Refused(c) \/ Serves(Merged(s.h.config, c))
    BY <2>1, <2>2, MergedIs
  <2>5. QED
    BY <1>1, <2>1, <2>3, <2>4 DEF InstalledIn
<1>2. CASE s.do = "write"
  BY <1>2 DEF InstalledIn, Outcome
<1>3. CASE s.do = "append"
  <2>1. s.file \in SharedFiles
    BY <1>0, <1>3 DEF StepKind, SharedFiles
  <2>2. c \in Texts
    BY <2>1 DEF ContentOK
  <2>3. Outcome(s, c).ours # <<>>
    <3>1. Style(s) \in Styles /\ Outcome(s, c) = Appended(c, Style(s))
      BY <1>3, StyleIs
    <3>2. QED
      BY <2>2, <3>1, AppendedIs
  <2>4. QED
    BY <1>3, <2>3 DEF InstalledIn
<1>4. CASE s.do = "list"
  <2>1. s.file \in ConfigFiles /\ Outcome(s, c) = Listed(c)
    BY <1>0, <1>4 DEF StepKind, Outcome
  <2>2. c \in Configs /\ Blank(c)
    BY <2>1 DEF ContentOK
  <2>3. Unlistable(c) => s.file \in k
    BY <1>4 DEF Skips
  <2>4. Unlistable(c) \/ "guidance" \in Listed(c).paths
    BY <2>2, ListedIs
  <2>5. QED
    BY <1>4, <2>1, <2>3, <2>4 DEF InstalledIn
<1>5. CASE s.do = "ignore"
  BY <1>5 DEF InstalledIn
<1>6. QED
  BY <1>0, <1>1, <1>2, <1>3, <1>4, <1>5 DEF StepKind

-----------------------------------------------------------------------------
(* Targets.                                                                *)

LEMMA ChosenAre ==
  ASSUME NEW t
  PROVE  /\ Chosen(t) \in Seq(Harnesses) /\ ToSet(Chosen(t)) \subseteq Harnesses
         /\ TargetSteps(t) \subseteq AllSteps
         /\ t = All => TargetSteps(t) = AllSteps
         /\ Known(t) => t # None
<1>1. harnesses \in Seq(Harnesses) /\ <<>> \in Seq(Harnesses) /\ ToSet(<<>>) = {}
  BY TableOK DEF ToSet
<1>2. CASE t = All
  BY <1>1, <1>2 DEF Chosen, TargetSteps, AllSteps, Harnesses, All, None
<1>3. CASE t # All /\ Known(t)
  <2>1. PICK i \in 1..Len(harnesses) : t = harnesses[i].name
    BY <1>3 DEF Known, HarnessNames
  <2>2. harnesses[i] \in Harnesses
    BY <1>1, <2>1 DEF Harnesses, ToSet
  <2>3. lookupHarness(t) \in Harnesses
    BY <2>1, <2>2 DEF lookupHarness, Harnesses
  <2>4. Chosen(t) = <<lookupHarness(t)>>
    BY <1>3 DEF Chosen
  <2>5. ToSet(<<lookupHarness(t)>>) = {lookupHarness(t)}
    BY DEF ToSet
  <2>6. <<lookupHarness(t)>> \in Seq(Harnesses)
    BY <2>3
  <2>7. t # None
    BY <2>1, <2>2, TableOK
  <2>8. QED
    BY <1>3, <2>3, <2>4, <2>5, <2>6, <2>7 DEF TargetSteps, AllSteps
<1>4. CASE t # All /\ ~Known(t)
  BY <1>1, <1>4 DEF Chosen, TargetSteps, AllSteps
<1>5. QED
  BY <1>2, <1>3, <1>4

(* The merge and the list of one file are steps of the same harness.       *)
LEMMA MergeAndList ==
  ASSUME NEW s \in AllSteps, NEW r \in AllSteps, s.file = r.file,
         s.do = "merge", r.do = "list"
  PROVE  /\ r \in StepsOf(s.h)
         /\ \A t : r \in TargetSteps(t) => s \in TargetSteps(t)
<1>1. s # IgnoreIndex /\ r # IgnoreIndex
  <2>1. IgnoreIndex.do = "ignore"
    BY DEF IgnoreIndex, Step
  <2>2. QED
    BY <2>1
<1>2. PICK h \in Harnesses : s \in StepsOf(h)
  BY <1>1 DEF AllSteps
<1>3. s = Step("merge", ConfigOf(h), h)
  BY <1>2, ApplyMakes DEF Makes, Step
<1>4. \A g \in Harnesses : r \in StepsOf(g) => g = h
  <2> SUFFICES ASSUME NEW g \in Harnesses, r \in StepsOf(g) PROVE g = h
    OBVIOUS
  <2>1. r = Step("list", ConfigOf(g), g)
    BY ApplyMakes DEF Makes, Step
  <2>2. g.name = h.name
    BY <1>3, <2>1 DEF Step, ConfigOf
  <2>3. QED
    BY <2>2, TableOK
<1>5. s.h = h /\ r \in StepsOf(h)
  BY <1>1, <1>3, <1>4 DEF AllSteps, Step
<1>6. ASSUME NEW t, r \in TargetSteps(t) PROVE s \in TargetSteps(t)
  <2>1. PICK g \in ToSet(Chosen(t)) : r \in StepsOf(g)
    BY <1>1, <1>6 DEF TargetSteps
  <2>2. g = h
    BY <1>4, <2>1, ChosenAre
  <2>3. QED
    BY <1>2, <2>1, <2>2 DEF TargetSteps
<1>7. QED
  BY <1>5, <1>6

-----------------------------------------------------------------------------
(* The files.                                                              *)

Files == ConfigFiles \cup OwnedFiles \cup SharedFiles

LEMMA FilesAre == FilesInv <=> /\ fs = [f \in Files |-> fs[f]]
                              /\ \A f \in Files : ContentOK(f, fs[f])
BY DEF FilesInv, Files, ContentOK

LEMMA FileChanges ==
  ASSUME FilesInv, NEW f \in Files, NEW c, ContentOK(f, c),
         fs' = [fs EXCEPT ![f] = c]
  PROVE  /\ FilesInv'
         /\ fs'[f] = c
         /\ \A g \in Files \ {f} : fs'[g] = fs[g]
<1>1. /\ fs = [g \in Files |-> fs[g]]
      /\ \A g \in Files : ContentOK(g, fs[g])
  BY FilesAre
<1>2. /\ fs' = [g \in Files |-> fs'[g]] /\ fs'[f] = c
      /\ \A g \in Files \ {f} : fs'[g] = fs[g]
  BY <1>1
<1>3. \A g \in Files : ContentOK(g, fs'[g])
  BY <1>1, <1>2
<1>4. FilesInv'
  BY <1>2, <1>3 DEF FilesInv, Files, ContentOK
<1>5. QED
  BY <1>2, <1>4

LEMMA StepFile ==
  ASSUME NEW s \in AllSteps
  PROVE  s.file \in Files
BY StepsAreKinds DEF StepKind, Files, SharedFiles

LEMMA TruncatedOK ==
  ASSUME NEW s \in AllSteps
  PROVE  ContentOK(s.file, Truncated(s))
<1>0. StepKind(s)
  BY StepsAreKinds
<1>1. CASE s.do \in {"merge", "list"}
  <2>1. s.file \in ConfigFiles /\ s.file \notin OwnedFiles /\ s.file \notin SharedFiles
    BY <1>0, <1>1, FilesDiffer DEF StepKind
  <2>2. Truncated(s) = EmptyConfig
    BY <1>1 DEF Truncated
  <2>3. EmptyConfig \in Configs /\ Blank(EmptyConfig)
    BY DEF EmptyConfig, Config, Configs, Blank
  <2>4. QED
    BY <2>1, <2>2, <2>3 DEF ContentOK
<1>2. CASE s.do = "write"
  <2>1. s.file \in OwnedFiles /\ s.file \notin ConfigFiles /\ s.file \notin SharedFiles
    BY <1>0, <1>2, FilesDiffer DEF StepKind
  <2>2. QED
    BY <1>2, <2>1 DEF ContentOK, Owned, Truncated
<1>3. CASE s.do \in {"append", "ignore"}
  <2>1. s.file \in SharedFiles /\ s.file \notin ConfigFiles /\ s.file \notin OwnedFiles
    BY <1>0, <1>3, FilesDiffer DEF StepKind, SharedFiles
  <2>2. Truncated(s) = Text(TRUE, FALSE, <<>>)
    BY <1>3 DEF Truncated
  <2>3. Text(TRUE, FALSE, <<>>) \in Texts
    BY DEF Text, Texts
  <2>4. QED
    BY <2>1, <2>2, <2>3 DEF ContentOK
<1>4. QED
  BY <1>0, <1>1, <1>2, <1>3 DEF StepKind

(* A file of setup's that cannot be read is written as if it were missing. *)
LEMMA AnewOK ==
  ASSUME NEW s \in AllSteps, s.file \notin ConfigFiles
  PROVE  ContentOK(s.file, Outcome(s, Nothing(s.file)))
<1>1. CASE s.file \in OwnedFiles
  BY <1>1, FilesDiffer, OutcomeOK DEF ContentOK, Nothing, Owned
<1>2. CASE s.file \in SharedFiles
  <2>1. Nothing(s.file) = Text(FALSE, FALSE, <<>>) /\ s.file \notin OwnedFiles
    BY <1>2, FilesDiffer DEF Nothing
  <2>2. Text(FALSE, FALSE, <<>>) \in Texts
    BY DEF Text, Texts
  <2>3. ContentOK(s.file, Nothing(s.file))
    BY <2>1, <2>2 DEF ContentOK
  <2>4. QED
    BY <2>3, OutcomeOK
<1>3. QED
  BY <1>1, <1>2, StepFile DEF Files

(* Written so, it is done, for every other step on it too.                 *)
LEMMA AnewDone ==
  ASSUME NEW s \in AllSteps, NEW r \in AllSteps, r.file = s.file, s.file \notin ConfigFiles,
         NEW k
  PROVE  LET o == Outcome(s, Nothing(s.file))
         IN  Outcome(r, o) = o /\ InstalledIn(r, o, k)
<1> DEFINE o == Outcome(s, Nothing(s.file))
<1>0. StepKind(s) /\ StepKind(r)
  BY StepsAreKinds
<1>1. CASE s.do = "write"
  <2>1. r.do = "write" /\ s.file \in OwnedFiles
    BY <1>0, <1>1, FilesDiffer DEF StepKind, SharedFiles
  <2>2. o = "ours"
    BY <1>1, <2>1 DEF Outcome, Nothing
  <2> HIDE DEF o
  <2>3. Outcome(r, o) = o /\ InstalledIn(r, o, k)
    BY <2>1, <2>2 DEF Outcome, InstalledIn
  <2>4. QED
    BY <2>3 DEF o
<1>2. CASE s.do \in {"append", "ignore"}
  <2>1. r.do \in {"append", "ignore"} /\ s.file \in SharedFiles /\ s.file \notin OwnedFiles
    BY <1>0, <1>2, FilesDiffer DEF StepKind, SharedFiles
  <2>2. Nothing(s.file) \in Texts
    BY <2>1 DEF Nothing, Text, Texts
  <2>3. Style(s) \in Styles /\ o = Appended(Nothing(s.file), Style(s))
    BY <1>2, StyleIs
  <2> HIDE DEF o
  <2>4. o.ours # <<>> /\ \A other : Appended(o, other) = o
    BY <2>2, <2>3, AppendedIs
  <2>5. \A x : Outcome(r, x) = Appended(x, Style(r))
    BY <2>1, StyleIs
  <2>6. InstalledIn(r, o, k)
    BY <2>1, <2>4 DEF InstalledIn
  <2>7. QED
    BY <2>4, <2>5, <2>6 DEF o
<1>3. QED
  BY <1>0, <1>1, <1>2 DEF StepKind

LEMMA UserConfigsOK ==
  ASSUME NEW f, NEW c \in UserConfigs(f)
  PROVE  c \in Configs /\ Blank(c)
<1> DEFINE basic == Config("doc", "map", {"other"}, TRUE)
<1>1. /\ AbsentConfig \in Configs /\ Blank(AbsentConfig)
      /\ Config("broken", "missing", {}, TRUE) \in Configs
      /\ Config("doc", "missing", {}, TRUE) \in Configs
      /\ Config("doc", "wrong", {}, TRUE) \in Configs
      /\ Config("doc", "inline", {"other"}, TRUE) \in Configs
      /\ basic \in Configs
  BY DEF AbsentConfig, Config, Configs, Blank
<1>m. [basic EXCEPT !.more = TRUE] \in Configs /\ [basic EXCEPT !.more = TRUE].kind = "doc"
  BY DEF Config, Configs
<1>2. /\ [basic EXCEPT !.list = "wrong"] \in Configs
      /\ [basic EXCEPT !.list = "wrong"].kind = "doc"
  BY DEF Config, Configs
<1>3. /\ [basic EXCEPT !.list = "list", !.paths = {"other"}] \in Configs
      /\ [basic EXCEPT !.list = "list", !.paths = {"other"}].kind = "doc"
  BY DEF Config, Configs
<1>4. \/ c = AbsentConfig
      \/ c \in {Config("broken", "missing", {}, TRUE), Config("doc", "missing", {}, TRUE),
                Config("doc", "wrong", {}, TRUE), Config("doc", "inline", {"other"}, TRUE), basic}
      \/ c \in {[basic EXCEPT !.more = TRUE], [basic EXCEPT !.list = "wrong"],
                [basic EXCEPT !.list = "list", !.paths = {"other"}]}
  BY DEF UserConfigs
<1>5. \A x : x.kind \in {"broken", "doc"} => Blank(x)
  BY DEF Blank
<1>6. CASE c = AbsentConfig
  BY <1>1, <1>6
<1>7. CASE c \in {Config("broken", "missing", {}, TRUE), Config("doc", "missing", {}, TRUE),
                  Config("doc", "wrong", {}, TRUE), Config("doc", "inline", {"other"}, TRUE), basic}
  <2>1. c.kind \in {"broken", "doc"}
    BY <1>7 DEF Config
  <2>2. Blank(c)
    BY <1>5, <2>1
  <2>3. c \in Configs
    BY <1>1, <1>7
  <2>4. QED
    BY <2>2, <2>3
<1>8. CASE c \in {[basic EXCEPT !.more = TRUE], [basic EXCEPT !.list = "wrong"],
                  [basic EXCEPT !.list = "list", !.paths = {"other"}]}
  <2> HIDE DEF basic
  <2>1. c.kind = "doc" /\ c \in Configs
    BY <1>m, <1>2, <1>3, <1>8
  <2>2. QED
    BY <1>5, <2>1
<1>9. QED
  BY <1>4, <1>6, <1>7, <1>8

-----------------------------------------------------------------------------
(* The steps of a run.                                                     *)

(* What is left in front of a run is a step of the table.                  *)
LEMMA HeadIsStep ==
  ASSUME Inv, Working
  PROVE  /\ Head(todo) \in AllSteps /\ Tail(todo) \in Seq(AllSteps)
         /\ ToSet(todo) = {Head(todo)} \cup ToSet(Tail(todo))
         /\ Head(todo) \in TargetSteps(target)
         /\ ContentOK(Head(todo).file, fs[Head(todo).file])
         /\ Head(todo).file \in Files
<1>1. todo \in Seq(AllSteps) /\ todo # <<>> /\ ToSet(todo) \subseteq TargetSteps(target)
  BY DEF Inv, PlanInv, Working
<1>2. /\ Head(todo) \in AllSteps /\ Tail(todo) \in Seq(AllSteps)
      /\ ToSet(todo) = {Head(todo)} \cup ToSet(Tail(todo))
  BY <1>1, ToSetTail
<1>3. Head(todo).file \in Files
  BY <1>2, StepFile
<1>4. ContentOK(Head(todo).file, fs[Head(todo).file])
  BY <1>3, FilesAre DEF Inv
<1>5. QED
  BY <1>1, <1>2, <1>3, <1>4

(* Only the step in front can be a merge.                                  *)
LEMMA NoLaterMerge ==
  ASSUME Inv, Working, NEW s \in ToSet(Tail(todo))
  PROVE  s.do # "merge"
<1> SUFFICES ASSUME s.do = "merge" PROVE FALSE
  OBVIOUS
<1>1. todo \in Seq(AllSteps) /\ todo # <<>>
  BY DEF Inv, PlanInv, Working
<1>2. PICK i \in 1..Len(Tail(todo)) : s = Tail(todo)[i]
  BY <1>1 DEF ToSet
<1>3. i + 1 \in 2..Len(todo) /\ todo[i + 1] = s
  BY <1>1, <1>2
<1>4. s \in ToSet(todo) /\ s \in AllSteps
  BY <1>1, <1>3 DEF ToSet
<1>5. todo = apply(s.h)
  BY <1>4 DEF Inv, PlanInv
<1>6. s.h \in Harnesses
  BY <1>4, StepsAreKinds DEF StepKind
<1>7. MergeFirst(apply(s.h))
  BY <1>6, ApplyMakes
<1>8. QED
  BY <1>3, <1>5, <1>7 DEF MergeFirst

(* A step leaves its content in its file and every other file alone.       *)
LEMMA StepChanges ==
  ASSUME Inv, TakeStep
  PROVE  LET s == Head(todo)
         IN  /\ FilesInv'
             /\ fs'[s.file] = Outcome(s, fs[s.file])
             /\ \A g \in Files \ {s.file} : fs'[g] = fs[g]
<1> DEFINE s == Head(todo)
<1>1. Working /\ fs' = [fs EXCEPT ![s.file] = Result(s)]
  BY DEF TakeStep
<1>2. /\ s \in AllSteps /\ ContentOK(s.file, fs[s.file]) /\ s.file \in Files
  BY <1>1, HeadIsStep
<1>3. Result(s) = Outcome(s, fs[s.file])
  BY DEF Result
<1>4. ContentOK(s.file, Outcome(s, fs[s.file]))
  BY <1>2, OutcomeOK
<1> HIDE DEF s
<1>5. QED
  BY <1>1, <1>2, <1>3, <1>4, FileChanges DEF Inv, s

Done(r) == Stable(r) /\ Installed(r)

(* So does a step that finds a file unreadable and writes it anew.         *)
LEMMA AnewChanges ==
  ASSUME Inv, ReadFails, Head(todo).file \notin ConfigFiles
  PROVE  LET s == Head(todo)
         IN  /\ FilesInv'
             /\ fs'[s.file] = Outcome(s, Nothing(s.file))
             /\ \A g \in Files \ {s.file} : fs'[g] = fs[g]
<1> DEFINE s == Head(todo)
           o == Outcome(s, Nothing(s.file))
<1>1. Working /\ fs' = [fs EXCEPT ![s.file] = o]
  BY DEF ReadFails
<1>2. s \in AllSteps /\ s.file \in Files
  BY <1>1, HeadIsStep
<1>3. ContentOK(s.file, o)
  BY <1>2, AnewOK
<1> HIDE DEF s, o
<1>4. QED
  BY <1>1, <1>2, <1>3, FileChanges DEF Inv, s, o

LEMMA StepDone ==
  ASSUME Inv, TakeStep, NEW s, s = Head(todo)
  PROVE  Done(s)'
<1> DEFINE o == Outcome(s, fs[s.file])
<1>1. Working /\ skipped' = IF Skips(s) THEN skipped \cup {s.file} ELSE skipped
  BY DEF TakeStep
<1>2. s \in AllSteps /\ ContentOK(s.file, fs[s.file])
  BY <1>1, HeadIsStep
<1>3. fs'[s.file] = o
  BY StepChanges
<1>4. Outcome(s, o) = o
  BY <1>2, OutcomeOK
<1>5. InstalledIn(s, o, skipped')
  BY <1>1, <1>2, StepInstalls
<1>6. QED
  <2>1. \A r : Stable(r)' <=> Outcome(r, fs'[r.file]) = fs'[r.file]
    BY DEF Stable, Result
  <2>2. \A r : Installed(r)' <=> InstalledIn(r, fs'[r.file], skipped')
    BY DEF Installed
  <2>3. QED
    BY <1>3, <1>4, <1>5, <2>1, <2>2 DEF Done

(* What another step has done, or what this one finds done, stays so.      *)
LEMMA StableRemains ==
  ASSUME Inv, TakeStep, NEW r \in AllSteps, Stable(r),
         Head(todo).do = "merge" /\ r.do = "list" /\ r.file = Head(todo).file
           => Stable(Head(todo))
  PROVE  Stable(r)'
<1> DEFINE s == Head(todo)
<1>1. Working
  BY DEF TakeStep
<1>2. /\ s \in AllSteps /\ ContentOK(s.file, fs[s.file])
      /\ r.file \in Files
  BY <1>1, HeadIsStep, StepFile
<1>3. Outcome(r, fs[r.file]) = fs[r.file]
  BY DEF Stable, Result
<1>4. /\ fs'[s.file] = Outcome(s, fs[s.file])
      /\ \A g \in Files \ {s.file} : fs'[g] = fs[g]
  BY StepChanges
<1>5. Stable(r)' <=> Outcome(r, fs'[r.file]) = fs'[r.file]
  BY DEF Stable, Result
<1> HIDE DEF s
<1>6. CASE r.file # s.file
  BY <1>2, <1>3, <1>4, <1>5, <1>6
<1>7. CASE r.file = s.file /\ s.do = "merge" /\ r.do = "list"
  <2>1. Outcome(s, fs[s.file]) = fs[s.file]
    BY <1>7 DEF Stable, Result, s
  <2>2. QED
    BY <1>3, <1>4, <1>5, <1>7, <2>1
<1>8. CASE r.file = s.file /\ ~(s.do = "merge" /\ r.do = "list")
  <2>1. Outcome(r, Outcome(s, fs[s.file])) = Outcome(s, fs[s.file])
    BY <1>2, <1>3, <1>8, StableStays
  <2>2. QED
    BY <1>4, <1>5, <1>8, <2>1
<1>9. QED
  BY <1>6, <1>7, <1>8

LEMMA InstalledRemains ==
  ASSUME Inv, TakeStep, NEW r \in AllSteps, Installed(r)
  PROVE  Installed(r)'
<1> DEFINE s == Head(todo)
<1>1. Working /\ skipped \subseteq skipped'
  BY DEF TakeStep
<1>2. /\ s \in AllSteps /\ ContentOK(s.file, fs[s.file])
      /\ r.file \in Files
  BY <1>1, HeadIsStep, StepFile
<1>3. InstalledIn(r, fs[r.file], skipped)
  BY DEF Installed
<1>4. /\ fs'[s.file] = Outcome(s, fs[s.file])
      /\ \A g \in Files \ {s.file} : fs'[g] = fs[g]
  BY StepChanges
<1>5. Installed(r)' <=> InstalledIn(r, fs'[r.file], skipped')
  BY DEF Installed
<1> HIDE DEF s
<1>6. CASE r.file # s.file
  <2>1. fs'[r.file] = fs[r.file]
    BY <1>2, <1>4, <1>6
  <2>2. InstalledIn(r, fs[r.file], skipped')
    BY <1>1, <1>3 DEF InstalledIn
  <2>3. QED
    BY <1>5, <2>1, <2>2
<1>7. CASE r.file = s.file
  <2>1. InstalledIn(r, Outcome(s, fs[s.file]), skipped')
    BY <1>1, <1>2, <1>3, <1>7, InstalledStays
  <2>2. QED
    BY <1>4, <1>5, <1>7, <2>1
<1>8. QED
  BY <1>6, <1>7

-----------------------------------------------------------------------------
(* The invariant is inductive: first its parts about files and plans.      *)

LEMMA InitInv == Init => Inv
<1> SUFFICES ASSUME Init PROVE Inv
  OBVIOUS
<1>1. FilesInv
  <2>1. fs = [f \in Files |-> fs[f]]
    BY DEF Init, Files
  <2>2. ASSUME NEW f \in Files PROVE ContentOK(f, fs[f])
    <3>1. CASE f \in ConfigFiles
      <4>1. fs[f] = AbsentConfig /\ f \notin OwnedFiles /\ f \notin SharedFiles
        BY <3>1, FilesDiffer DEF Init
      <4>2. AbsentConfig \in Configs /\ Blank(AbsentConfig)
        BY DEF AbsentConfig, Config, Configs, Blank
      <4>3. QED
        BY <4>1, <4>2 DEF ContentOK
    <3>2. CASE f \in OwnedFiles
      <4>1. fs[f] = "absent" /\ f \notin ConfigFiles /\ f \notin SharedFiles
        BY <3>2, FilesDiffer DEF Init
      <4>2. QED
        BY <4>1 DEF ContentOK, Owned
    <3>3. CASE f \in SharedFiles
      <4>1. fs[f] = Text(FALSE, FALSE, <<>>) /\ f \notin ConfigFiles /\ f \notin OwnedFiles
        BY <3>3, FilesDiffer DEF Init
      <4>2. Text(FALSE, FALSE, <<>>) \in Texts
        BY DEF Text, Texts
      <4>3. QED
        BY <4>1, <4>2 DEF ContentOK
    <3>4. QED
      BY <3>1, <3>2, <3>3 DEF Files
  <2>3. QED
    BY <2>1, <2>2, FilesAre
<1>2. RunInv
  BY DEF Init, RunInv, None
<1>3. PlanInv
  <2>1. ToSet(<<>>) = {}
    BY DEF ToSet
  <2>2. QED
    BY <2>1 DEF Init, PlanInv, Running
<1>4. DoneInv
  BY DEF Init, DoneInv, Running, None
<1>5. QED
  BY <1>1, <1>2, <1>3, <1>4 DEF Inv

LEMMA FilesNext == Inv /\ [Next]_vars => FilesInv'
<1> SUFFICES ASSUME Inv, [Next]_vars PROVE FilesInv'
  OBVIOUS
<1>0. FilesInv
  BY DEF Inv
<1>1. CASE UNCHANGED fs
  BY <1>0, <1>1 DEF FilesInv
<1>2. ASSUME Working, fs' = [fs EXCEPT ![Head(todo).file] = Truncated(Head(todo))]
      PROVE  FilesInv'
  <2> DEFINE s == Head(todo)
  <2>1. s \in AllSteps /\ s.file \in Files
    BY <1>2, HeadIsStep
  <2>2. ContentOK(s.file, Truncated(s))
    BY <2>1, TruncatedOK
  <2> HIDE DEF s
  <2>3. QED
    BY <1>0, <1>2, <2>1, <2>2, FileChanges DEF s
<1>3. CASE TakeStep
  BY <1>3, StepChanges
<1>4. CASE WriteFails
  <2>1. Working /\ fs' \in {fs, [fs EXCEPT ![Head(todo).file] = Truncated(Head(todo))]}
    BY <1>4 DEF WriteFails
  <2>2. QED
    BY <1>1, <1>2, <2>1
<1>5. CASE Kill
  <2>1. Working /\ (UNCHANGED fs \/ fs' = [fs EXCEPT ![Head(todo).file] = Truncated(Head(todo))])
    BY <1>5 DEF Kill
  <2>2. QED
    BY <1>1, <1>2, <2>1
<1>6. CASE Edit
  <2>1. CASE \E f \in ConfigFiles : \E c \in UserConfigs(f) : fs' = [fs EXCEPT ![f] = c]
    <3>0. PICK f \in ConfigFiles : \E c \in UserConfigs(f) : fs' = [fs EXCEPT ![f] = c]
      BY <2>1
    <3>1. PICK c \in UserConfigs(f) : fs' = [fs EXCEPT ![f] = c]
      BY <3>0
    <3>2. c \in Configs /\ Blank(c)
      BY <3>1, UserConfigsOK
    <3>3. ContentOK(f, c) /\ f \in Files
      BY <3>2, FilesDiffer DEF ContentOK, Files
    <3>4. QED
      BY <1>0, <3>1, <3>3, FileChanges
  <2>2. CASE \E f \in OwnedFiles : \E c \in {"absent", "users"} : fs' = [fs EXCEPT ![f] = c]
    <3>1. PICK f \in OwnedFiles, c \in {"absent", "users"} : fs' = [fs EXCEPT ![f] = c]
      BY <2>2
    <3>2. ContentOK(f, c) /\ f \in Files
      BY FilesDiffer DEF ContentOK, Files, Owned
    <3>3. QED
      BY <1>0, <3>1, <3>2, FileChanges
  <2>3. CASE \E f \in SharedFiles : fs' = [fs EXCEPT ![f] = Text(TRUE, TRUE, fs[f].ours)]
    <3>1. PICK f \in SharedFiles : fs' = [fs EXCEPT ![f] = Text(TRUE, TRUE, fs[f].ours)]
      BY <2>3
    <3>2. fs[f] \in Texts
      BY <1>0 DEF FilesInv
    <3>3. Text(TRUE, TRUE, fs[f].ours) \in Texts
      BY <3>2 DEF Text, Texts
    <3>4. ContentOK(f, Text(TRUE, TRUE, fs[f].ours)) /\ f \in Files
      BY <3>3, FilesDiffer DEF ContentOK, Files
    <3>5. QED
      BY <1>0, <3>1, <3>4, FileChanges
  <2>4. QED
    BY <1>6, <2>1, <2>2, <2>3 DEF Edit
<1>7. CASE ReadFails
  BY <1>1, <1>7, AnewChanges DEF ReadFails
<1>8. QED
  BY <1>1, <1>3, <1>4, <1>5, <1>6, <1>7 DEF Next, vars, Run, NextHarness, StepFails, Finish

LEMMA RunNext == Inv /\ [Next]_vars => RunInv'
<1> SUFFICES ASSUME Inv, [Next]_vars PROVE RunInv'
  OBVIOUS
<1>0. RunInv
  BY DEF Inv
<1>1. ASSUME NEW t \in Targets, Run(t) PROVE RunInv'
  <2>1. count' \in [runs : Nat, edits : Nat, faults : Nat]
    BY <1>0, <1>1 DEF RunInv, Run
  <2>2. disturbed' \in BOOLEAN /\ skipped' \subseteq ConfigFiles
    BY <1>1 DEF Run
  <2>3. target' \in Targets /\ settled' = settled /\ outcome' = "running"
    BY <1>1 DEF Run
  <2>4. QED
    BY <1>0, <2>1, <2>2, <2>3 DEF RunInv
<1>2. CASE NextHarness
  BY <1>0, <1>2 DEF RunInv, NextHarness
<1>3. CASE TakeStep
  <2>1. Working
    BY <1>3 DEF TakeStep
  <2>2. Skips(Head(todo)) => Head(todo).file \in ConfigFiles
    <3>1. StepKind(Head(todo))
      BY <2>1, HeadIsStep, StepsAreKinds
    <3>2. QED
      BY <3>1 DEF StepKind, Skips
  <2>3. QED
    BY <1>0, <1>3, <2>2 DEF RunInv, TakeStep
<1>4. CASE StepFails
  BY <1>0, <1>4 DEF RunInv, StepFails, GiveUp
<1>5. CASE Finish
  <2>1. settled' = target \/ settled' = None
    BY <1>5 DEF Finish
  <2>2. outcome' = "ok" \/ outcome' = "error"
    BY <1>5 DEF Finish
  <2>3. target' = target /\ skipped' = skipped /\ count' = count
    BY <1>5 DEF Finish
  <2>4. disturbed' \in BOOLEAN
    BY <1>0, <1>5 DEF Finish, RunInv
  <2>5. QED
    BY <1>0, <2>1, <2>2, <2>3, <2>4 DEF RunInv
<1>6. CASE WriteFails
  <2>1. count' \in [runs : Nat, edits : Nat, faults : Nat]
    BY <1>0, <1>6 DEF RunInv, WriteFails, Fault
  <2>2. /\ target' = target /\ settled' = None /\ skipped' = skipped
        /\ outcome' \in {outcome, "error"}
    BY <1>6 DEF WriteFails, GiveUp
  <2>3. disturbed' \in BOOLEAN
    BY <1>0, <1>6 DEF WriteFails, GiveUp, RunInv
  <2>4. QED
    BY <1>0, <2>1, <2>2, <2>3 DEF RunInv
<1>7. CASE Kill
  <2>1. count' \in [runs : Nat, edits : Nat, faults : Nat]
    BY <1>0, <1>7 DEF RunInv, Kill, Fault
  <2>2. UNCHANGED <<target, skipped, disturbed>> /\ settled' = None /\ outcome' = "killed"
    BY <1>7 DEF Kill, GiveUp
  <2>3. QED
    BY <1>0, <2>1, <2>2 DEF RunInv
<1>8. CASE Edit
  BY <1>0, <1>8 DEF RunInv, Edit
<1>9. CASE UNCHANGED vars
  BY <1>0, <1>9 DEF RunInv, vars
<1>10. CASE ReadFails
  <2>1. count' \in [runs : Nat, edits : Nat, faults : Nat]
    BY <1>0, <1>10 DEF RunInv, ReadFails, Fault
  <2>2. UNCHANGED <<target, skipped, disturbed>> /\ settled' = None /\ outcome' \in {outcome, "error"}
    BY <1>10 DEF ReadFails, GiveUp
  <2>3. QED
    BY <1>0, <2>1, <2>2 DEF RunInv
<1>11. QED
  BY <1>1, <1>2, <1>3, <1>4, <1>5, <1>6, <1>7, <1>8, <1>9, <1>10 DEF Next

LEMMA PlanNext == Inv /\ [Next]_vars => PlanInv'
<1> SUFFICES ASSUME Inv, [Next]_vars PROVE PlanInv'
  OBVIOUS
<1>0. PlanInv
  BY DEF Inv
<1>a. ASSUME todo' = <<>>, queue' = <<>> PROVE PlanInv'
  <2>1. ToSet(<<>>) = {}
    BY DEF ToSet
  <2>2. QED
    BY <1>a, <2>1 DEF PlanInv
<1>b. ASSUME Working, todo' = Tail(todo), UNCHANGED <<queue, target, outcome>> PROVE PlanInv'
  <2>1. /\ todo' \in Seq(AllSteps) /\ ToSet(todo') \subseteq ToSet(todo)
        /\ \A s \in ToSet(todo') : s.do # "merge"
    BY <1>b, HeadIsStep, NoLaterMerge
  <2>2. QED
    BY <1>0, <1>b, <2>1 DEF PlanInv, Running
<1>c. ASSUME UNCHANGED <<todo, queue, target, outcome>> PROVE PlanInv'
  BY <1>0, <1>c DEF PlanInv, Running
<1>1. ASSUME NEW t \in Targets, Run(t) PROVE PlanInv'
  <2>1. todo' = <<IgnoreIndex>> /\ queue' = Chosen(t) /\ target' = t
    BY <1>1 DEF Run
  <2>2. IgnoreIndex \in AllSteps /\ IgnoreIndex \in TargetSteps(t)
    BY DEF AllSteps, TargetSteps
  <2>3. todo' \in Seq(AllSteps) /\ ToSet(todo') = {IgnoreIndex}
    BY <2>1, <2>2 DEF ToSet
  <2>4. IgnoreIndex.do = "ignore"
    BY DEF IgnoreIndex, Step
  <2>5. QED
    BY <2>1, <2>2, <2>3, <2>4, ChosenAre DEF PlanInv
<1>2. CASE NextHarness
  <2> DEFINE h == Head(queue)
  <2>1. /\ todo' = apply(h) /\ queue' = Tail(queue) /\ queue # <<>>
        /\ Running /\ target' = target
    BY <1>2 DEF NextHarness
  <2>2. /\ h \in Harnesses /\ queue' \in Seq(Harnesses)
        /\ ToSet(queue) = {h} \cup ToSet(queue')
    BY <1>0, <2>1, ToSetTail DEF PlanInv
  <2>3. /\ apply(h) \in Seq(StepsOf(h)) /\ \A s : s \in StepsOf(h) <=> Makes(h, s)
    BY <2>2, ApplyMakes
  <2>4. StepsOf(h) \subseteq AllSteps /\ StepsOf(h) \subseteq TargetSteps(target)
    BY <1>0, <2>1, <2>2 DEF AllSteps, TargetSteps, PlanInv
  <2>5. ToSet(todo') = StepsOf(h) /\ todo' \in Seq(AllSteps)
    BY <2>1, <2>3, <2>4, SeqMonotonic DEF StepsOf
  <2>6. ASSUME NEW s \in ToSet(todo'), s.do = "merge" PROVE todo' = apply(s.h)
    <3>1. Makes(h, s)
      BY <2>3, <2>5
    <3>2. s.h = h
      BY <2>6, <3>1 DEF Makes, Step
    <3>3. QED
      BY <2>1, <3>2
  <2> HIDE DEF h
  <2>7. QED
    BY <1>0, <2>1, <2>2, <2>4, <2>5, <2>6 DEF PlanInv
<1>3. CASE TakeStep
  BY <1>3, <1>b DEF TakeStep
<1>4. CASE StepFails
  BY <1>4, <1>a DEF StepFails, GiveUp
<1>5. CASE Finish
  BY <1>5, <1>a DEF Finish
<1>6. CASE WriteFails
  BY <1>6, <1>a, <1>b DEF WriteFails, GiveUp
<1>7. CASE Kill
  BY <1>7, <1>a DEF Kill, GiveUp
<1>8. CASE Edit
  BY <1>8, <1>c DEF Edit
<1>9. CASE UNCHANGED vars
  BY <1>9, <1>c DEF vars
<1>10. CASE ReadFails
  BY <1>10, <1>a, <1>b DEF ReadFails, GiveUp
<1>11. QED
  BY <1>1, <1>2, <1>3, <1>4, <1>5, <1>6, <1>7, <1>8, <1>9, <1>10 DEF Next

-----------------------------------------------------------------------------
(* The invariant is inductive: what is done stays done.                    *)

(* Every step of the run's target is still to come or done.                *)
Progress == \A s \in TargetSteps(target) : Pending(s) \/ Done(s)

LEMMA DoneIs ==
  DoneInv <=> /\ Running /\ ~disturbed => Progress
              /\ outcome = "ok" => Known(target)
              /\ outcome = "ok" /\ settled = target =>
                   \A s \in TargetSteps(target) : Installed(s)
              /\ settled # None => /\ Known(settled)
                                   /\ \A s \in TargetSteps(settled) : Stable(s)
BY DEF DoneInv, Progress, Done

(* A step of an undisturbed run makes its own part of the target done, and *)
(* undoes nothing.                                                         *)
LEMMA ProgressStays ==
  ASSUME Inv, TakeStep, Progress
  PROVE  Progress'
<1>1. /\ Working /\ target' = target /\ queue' = queue /\ todo' = Tail(todo)
  BY DEF TakeStep
<1> SUFFICES ASSUME NEW r \in TargetSteps(target) PROVE Pending(r)' \/ Done(r)'
  BY <1>1 DEF Progress
<1>2. ToSet(todo) = {Head(todo)} \cup ToSet(todo') /\ Head(todo) \in AllSteps
  BY <1>1, HeadIsStep
<1>3. CASE r = Head(todo)
  BY <1>3, StepDone
<1>4. CASE Pending(r) /\ r # Head(todo)
  BY <1>1, <1>2, <1>4 DEF Pending
<1>5. CASE Done(r) /\ ~Pending(r)
  <2>1. r \in AllSteps
    BY ChosenAre
  <2>2. ~(Head(todo).do = "merge" /\ r.do = "list" /\ r.file = Head(todo).file)
    <3> SUFFICES ASSUME Head(todo).do = "merge", r.do = "list", r.file = Head(todo).file
                 PROVE  FALSE
      OBVIOUS
    <3>1. r \in StepsOf(Head(todo).h)
      BY <1>2, <2>1, MergeAndList
    <3>2. todo = apply(Head(todo).h)
      BY <1>2 DEF Inv, PlanInv
    <3>3. r \in ToSet(todo)
      BY <3>1, <3>2 DEF StepsOf
    <3>4. QED
      BY <1>5, <3>3 DEF Pending
  <2>3. Stable(r)'
    BY <1>5, <2>1, <2>2, StableRemains DEF Done
  <2>4. Installed(r)'
    BY <1>5, <2>1, InstalledRemains DEF Done
  <2>5. QED
    BY <2>3, <2>4 DEF Done
<1>6. QED
  BY <1>3, <1>4, <1>5 DEF Progress

(* The same when it finds its file unreadable.                             *)
LEMMA AnewProgress ==
  ASSUME Inv, ReadFails, Head(todo).file \notin ConfigFiles, Progress
  PROVE  Progress'
<1> DEFINE s == Head(todo)
<1>1. /\ Working /\ UNCHANGED <<target, queue, skipped>> /\ todo' = Tail(todo)
  BY DEF ReadFails
<1> SUFFICES ASSUME NEW r \in TargetSteps(target) PROVE Pending(r)' \/ Done(r)'
  BY <1>1 DEF Progress
<1>2. ToSet(todo) = {s} \cup ToSet(todo') /\ s \in AllSteps /\ s.file \in Files
  BY <1>1, HeadIsStep
<1>3. r \in AllSteps /\ r.file \in Files
  BY ChosenAre, StepFile
<1>4. Done(r)' <=> /\ Outcome(r, fs'[r.file]) = fs'[r.file]
                   /\ InstalledIn(r, fs'[r.file], skipped')
  BY DEF Done, Stable, Result, Installed
<1>5. /\ fs'[s.file] = Outcome(s, Nothing(s.file))
      /\ \A g \in Files \ {s.file} : fs'[g] = fs[g]
  BY AnewChanges
<1>6. CASE r.file = s.file
  BY <1>2, <1>3, <1>4, <1>5, <1>6, AnewDone
<1>7. CASE r.file # s.file /\ Pending(r)
  <2>1. r # s
    BY <1>7
  <2>2. QED
    BY <1>1, <1>2, <1>7, <2>1 DEF Pending
<1>8. CASE r.file # s.file /\ Done(r)
  <2>1. fs'[r.file] = fs[r.file]
    BY <1>3, <1>5, <1>8
  <2>2. Outcome(r, fs[r.file]) = fs[r.file] /\ InstalledIn(r, fs[r.file], skipped)
    BY <1>8 DEF Done, Stable, Result, Installed
  <2>3. QED
    BY <1>1, <1>4, <2>1, <2>2
<1>9. QED
  BY <1>6, <1>7, <1>8 DEF Progress

(* What the last good run left stays as it is whatever a later run does.   *)
LEMMA SettledStays ==
  ASSUME Inv, TakeStep, NEW t, \A s \in TargetSteps(t) : Stable(s)
  PROVE  \A s \in TargetSteps(t) : Stable(s)'
<1> SUFFICES ASSUME NEW r \in TargetSteps(t) PROVE Stable(r)'
  OBVIOUS
<1>1. Working
  BY DEF TakeStep
<1>2. r \in AllSteps /\ Head(todo) \in AllSteps
  BY <1>1, ChosenAre, HeadIsStep
<1>3. Head(todo).do = "merge" /\ r.do = "list" /\ r.file = Head(todo).file
        => Stable(Head(todo))
  BY <1>2, MergeAndList
<1>4. QED
  BY <1>2, <1>3, StableRemains

LEMMA DoneNext == Inv /\ [Next]_vars => DoneInv'
<1> SUFFICES ASSUME Inv, [Next]_vars PROVE DoneInv'
  OBVIOUS
<1> DEFINE Settled == \A s \in TargetSteps(settled) : Stable(s)
           Complete == \A s \in TargetSteps(target) : Installed(s)
<1>0. /\ Running /\ ~disturbed => Progress
      /\ outcome = "ok" => Known(target)
      /\ outcome = "ok" /\ settled = target => Complete
      /\ settled # None => Known(settled) /\ Settled
  BY DoneIs DEF Inv
<1>a. DoneInv' <=> /\ Running' /\ ~disturbed' => Progress'
                   /\ outcome' = "ok" => Known(target)'
                   /\ outcome' = "ok" /\ settled' = target' => Complete'
                   /\ settled' # None => Known(settled)' /\ Settled'
  BY DEF DoneInv, Progress, Done
<1>b. \A t : Known(t) => t # None
  BY ChosenAre
<1>c. ASSUME outcome' \in {"error", "killed"}, settled' = None PROVE DoneInv'
  BY <1>a, <1>c DEF Running
<1>1. ASSUME NEW t \in Targets, Run(t) PROVE DoneInv'
  <2>1. /\ target' = t /\ todo' = <<IgnoreIndex>> /\ queue' = Chosen(t)
        /\ outcome' = "running" /\ fs' = fs /\ settled' = settled
    BY <1>1 DEF Run
  <2>2. IgnoreIndex \in ToSet(todo')
    BY <2>1 DEF ToSet
  <2>3. Progress'
    BY <2>1, <2>2 DEF Progress, Pending, TargetSteps
  <2>4. Settled => Settled'
    BY <2>1 DEF Stable, Result
  <2>5. QED
    BY <1>0, <1>a, <2>1, <2>3, <2>4
<1>2. CASE NextHarness
  <2>1. /\ todo = <<>> /\ queue # <<>> /\ todo' = apply(Head(queue)) /\ queue' = Tail(queue)
        /\ UNCHANGED <<fs, target, outcome, skipped, disturbed, settled, count>>
    BY <1>2 DEF NextHarness
  <2>2. ToSet(queue) = {Head(queue)} \cup ToSet(queue')
    BY <2>1, ToSetTail DEF Inv, PlanInv
  <2>3. \A s : Pending(s) => Pending(s)'
    <3>1. ToSet(todo) = {} /\ ToSet(todo') = StepsOf(Head(queue))
      BY <2>1 DEF StepsOf, ToSet
    <3>2. QED
      BY <2>2, <3>1 DEF Pending
  <2>4. /\ \A s : Stable(s)' <=> Stable(s)
        /\ \A s : Installed(s)' <=> Installed(s)
    BY <2>1 DEF Stable, Result, Installed
  <2>5. Progress => Progress'
    <3> SUFFICES ASSUME Progress, NEW r \in TargetSteps(target)
                 PROVE  Pending(r)' \/ Done(r)'
      BY <2>1 DEF Progress
    <3>1. Pending(r) \/ (Stable(r) /\ Installed(r))
      BY DEF Progress, Done
    <3>2. QED
      BY <2>3, <2>4, <3>1 DEF Done
  <2>6. QED
    BY <1>0, <1>a, <2>1, <2>4, <2>5 DEF Running
<1>3. CASE TakeStep
  <2>1. UNCHANGED <<target, outcome, disturbed, settled>> /\ Running
    BY <1>3 DEF TakeStep, Working
  <2>2. Progress => Progress'
    BY <1>3, ProgressStays
  <2>3. Settled => Settled'
    BY <1>3, <2>1, SettledStays
  <2>4. QED
    BY <1>0, <1>a, <2>1, <2>2, <2>3 DEF Running
<1>4. CASE StepFails
  BY <1>4, <1>c DEF StepFails, GiveUp
<1>5. CASE Finish
  <2>1. /\ Running /\ todo = <<>> /\ queue = <<>>
        /\ outcome' = IF Known(target) THEN "ok" ELSE "error"
        /\ settled' = IF Known(target) /\ ~disturbed THEN target ELSE None
        /\ UNCHANGED <<fs, target, skipped>>
    BY <1>5 DEF Finish
  <2>2. \A s : ~Pending(s)
    BY <2>1 DEF Pending, ToSet
  <2>3. /\ \A s : Stable(s)' <=> Stable(s)
        /\ \A s : Installed(s)' <=> Installed(s)
    BY <2>1 DEF Stable, Result, Installed
  <2>4. CASE Known(target) /\ ~disturbed
    <3>1. settled' = target /\ target' = target
      BY <2>1, <2>4
    <3>2. \A s \in TargetSteps(target) : Stable(s) /\ Installed(s)
      BY <1>0, <2>1, <2>2, <2>4 DEF Progress, Done
    <3>3. Settled' /\ Complete'
      BY <2>3, <3>1, <3>2
    <3>4. QED
      BY <1>a, <2>1, <2>4, <3>1, <3>3 DEF Running
  <2>5. CASE ~(Known(target) /\ ~disturbed)
    <3>1. settled' = None /\ (outcome' = "ok" => Known(target))
      BY <2>1, <2>5
    <3>2. QED
      BY <1>a, <1>b, <2>1, <3>1 DEF Running
  <2>6. QED
    BY <2>4, <2>5
<1>6. CASE WriteFails
  <2>1. CASE settled' = None /\ outcome' = "error"
    BY <1>c, <2>1
  <2>2. CASE settled' = None /\ outcome' = "running" /\ disturbed'
    BY <1>a, <2>2
  <2>3. QED
    BY <1>6, <2>1, <2>2 DEF WriteFails, GiveUp, Working, Running
<1>7. CASE Kill
  BY <1>7, <1>c DEF Kill, GiveUp
<1>8. CASE Edit
  <2>1. disturbed' = TRUE /\ settled' = None /\ UNCHANGED <<target, outcome>>
    BY <1>8 DEF Edit
  <2>2. QED
    BY <1>0, <1>a, <1>b, <2>1
<1>9. CASE UNCHANGED vars
  BY <1>0, <1>9, <1>a DEF vars, Running, Progress, Pending, Done, Stable, Installed, Result
<1>10. CASE ReadFails
  <2>1. CASE Head(todo).file \in ConfigFiles
    BY <1>10, <1>c, <2>1 DEF ReadFails, GiveUp
  <2>2. CASE Head(todo).file \notin ConfigFiles
    <3>1. UNCHANGED <<target, outcome, disturbed>> /\ settled' = None /\ Running
      BY <1>10, <2>2 DEF ReadFails, Working
    <3>2. Progress => Progress'
      BY <1>10, <2>2, AnewProgress
    <3>3. QED
      BY <1>0, <1>a, <1>b, <3>1, <3>2 DEF Running
  <2>3. QED
    BY <2>1, <2>2
<1>11. QED
  BY <1>1, <1>2, <1>3, <1>4, <1>5, <1>6, <1>7, <1>8, <1>9, <1>10 DEF Next

LEMMA SpecInv == Spec => []Inv
<1>1. Inv /\ [Next]_vars => Inv'
  BY FilesNext, RunNext, PlanNext, DoneNext DEF Inv
<1>2. QED
  BY InitInv, <1>1, PTL DEF Spec

-----------------------------------------------------------------------------
(* Every variable has its type, and AGENTS.md and .gitignore hold at most  *)
(* one block of setup's, however often setup is run.                       *)
THEOREM SetupTypeOK == Spec => []TypeOK
<1>1. Inv => TypeOK
  <2> SUFFICES ASSUME Inv PROVE TypeOK
    OBVIOUS
  <2>1. ASSUME NEW f \in ConfigFiles
        PROVE  /\ fs[f].kind \in {"absent", "empty", "broken", "doc"}
               /\ fs[f].servers \in {"missing", "wrong", "inline", "map"}
               /\ fs[f].names \subseteq {"other", serverName}
    BY DEF Inv, FilesInv, Configs
  <2>2. \A f \in OwnedFiles : fs[f] \in {"absent", "ours", "users", "torn"}
    BY DEF Inv, FilesInv, Owned
  <2>3. ASSUME NEW f \in SharedFiles PROVE Len(fs[f].ours) <= 1
    <3>1. fs[f].ours \in {<<>>} \cup {<<x>> : x \in Styles}
      BY DEF Inv, FilesInv, Texts
    <3>2. CASE fs[f].ours = <<>>
      BY <3>2
    <3>3. CASE \E x \in Styles : fs[f].ours = <<x>>
      <4>1. PICK x \in Styles : fs[f].ours = <<x>>
        BY <3>3
      <4>2. Len(<<x>>) = 1
        OBVIOUS
      <4>3. QED
        BY <4>1, <4>2
    <3>4. QED
      BY <3>1, <3>2, <3>3
  <2>4. QED
    BY <2>1, <2>2, <2>3 DEF Inv, RunInv, TypeOK
<1>2. QED
  BY SpecInv, <1>1, PTL

(* A run that reports success, undisturbed, whatever earlier runs, faults  *)
(* and edits left half done: a configuration that its report does not list *)
(* as skipped parses and names the server, unless it is a TOML file with   *)
(* the servers inline, and opencode's lists the guidance; a file of setup's*)
(* is there, if only in part where an earlier run was cut off while it     *)
(* wrote it; AGENTS.md has a block (setup.go, Run).                        *)
THEOREM SuccessIsComplete == Spec => []SuccessMeansInstalled
<1>1. Inv => SuccessMeansInstalled
  <2> SUFFICES ASSUME Inv, outcome = "ok", settled = target,
                      NEW h \in ToSet(Chosen(target))
               PROVE  /\ h.config # None /\ ConfigOf(h) \notin skipped =>
                           Serves(fs[ConfigOf(h)])
                      /\ h.instructions /\ ConfigOf(h) \notin skipped =>
                           "guidance" \in fs[ConfigOf(h)].paths
                      /\ \A f \in ToSet(OwnedBy(h)) : fs[f] # "absent"
                      /\ h.agentsMD => fs[AgentsMD].ours # <<>>
    BY DEF SuccessMeansInstalled, Serves
  <2>1. \A s \in StepsOf(h) : Installed(s)
    BY DEF Inv, DoneInv, TargetSteps
  <2>2. \A s : Makes(h, s) => Installed(s)
    <3>1. h \in Harnesses
      BY ChosenAre
    <3>2. QED
      BY <2>1, <3>1, ApplyMakes
  <2>3. ASSUME h.config # None, ConfigOf(h) \notin skipped
        PROVE  Serves(fs[ConfigOf(h)])
    <3>1. Installed(Step("merge", ConfigOf(h), h))
      BY <2>2, <2>3 DEF Makes
    <3>2. QED
      BY <2>3, <3>1 DEF Installed, InstalledIn, Step
  <2>4. ASSUME h.instructions, ConfigOf(h) \notin skipped
        PROVE  "guidance" \in fs[ConfigOf(h)].paths
    <3>1. Installed(Step("list", ConfigOf(h), h))
      BY <2>2, <2>4 DEF Makes
    <3>2. QED
      BY <2>4, <3>1 DEF Installed, InstalledIn, Step
  <2>5. ASSUME NEW f \in ToSet(OwnedBy(h)) PROVE fs[f] # "absent"
    <3>1. Installed(Step("write", f, h))
      BY <2>2 DEF Makes
    <3>2. QED
      BY <3>1 DEF Installed, InstalledIn, Step
  <2>6. ASSUME h.agentsMD PROVE fs[AgentsMD].ours # <<>>
    <3>1. Installed(Step("append", AgentsMD, h))
      BY <2>2, <2>6 DEF Makes
    <3>2. QED
      BY <3>1 DEF Installed, InstalledIn, Step
  <2>7. QED
    BY <2>3, <2>4, <2>5, <2>6
<1>2. QED
  BY SpecInv, <1>1, PTL

(* No step of setup's own in which the file system obeys changes what the  *)
(* user has in a file: the servers and paths listed besides setup's in its *)
(* first document, the text around its lines, a file the user has          *)
(* rewritten (mergeMCPConfigEntry, appendWithMarkers, writeFileIfAbsent).  *)
THEOREM UserContentStays == Spec => KeepsUserContent
<1> DEFINE Kept == \A f \in DOMAIN fs : UserPart(f)' = UserPart(f)
<1>1. \A f : UserPart(f) = PartOf(f, fs[f])
  BY DEF UserPart, PartOf
<1>2. ASSUME Inv, [Next]_vars, count'.edits = count.edits, count'.faults = count.faults
      PROVE  Kept
  <2>1. CASE UNCHANGED fs
    BY <2>1 DEF UserPart
  <2>2. CASE TakeStep
    <3> DEFINE s == Head(todo)
    <3>1. DOMAIN fs = Files
      BY FilesAre, <1>2 DEF Inv
    <3>2. /\ fs'[s.file] = Outcome(s, fs[s.file])
          /\ \A g \in Files \ {s.file} : fs'[g] = fs[g]
      BY <1>2, <2>2, StepChanges
    <3>3. PartOf(s.file, Outcome(s, fs[s.file])) = PartOf(s.file, fs[s.file])
      BY <1>2, <2>2, HeadIsStep, OutcomeOK DEF TakeStep
    <3>4. \A f : UserPart(f)' = PartOf(f, fs'[f])
      BY DEF UserPart, PartOf
    <3> HIDE DEF s
    <3>5. QED
      BY <1>1, <3>1, <3>2, <3>3, <3>4
  <2>3. ~Edit /\ ~WriteFails /\ ~ReadFails /\ ~Kill
    <3>1. count \in [runs : Nat, edits : Nat, faults : Nat]
      BY <1>2 DEF Inv, RunInv
    <3>2. ~Edit
      <4> SUFFICES ASSUME Edit PROVE FALSE
        OBVIOUS
      <4>1. count' = [count EXCEPT !.edits = count.edits + 1]
        BY DEF Edit
      <4>2. QED
        BY <1>2, <3>1, <4>1
    <3>3. ~Fault
      BY <1>2, <3>1 DEF Fault
    <3>4. QED
      BY <3>2, <3>3 DEF WriteFails, ReadFails, Kill
  <2> HIDE DEF Kept
  <2>4. QED
    BY <1>2, <2>1, <2>2, <2>3 DEF Next, vars, Run, NextHarness, StepFails, Finish
<1>3. Inv /\ [Next]_vars =>
        [count'.edits = count.edits /\ count'.faults = count.faults => Kept]_vars
  BY <1>2
<1>4. QED
  BY SpecInv, <1>3, PTL DEF Spec, KeepsUserContent

(* Once a run has ended well, and until somebody else touches a file,      *)
(* repeating it, or running setup for a target that it included, changes   *)
(* no file at all.                                                         *)
THEOREM RepeatChangesNothing == Spec => RepeatIsNoOp
<1>1. ASSUME Inv, [Next]_vars, Running, settled \in {target, All}, settled' # None
      PROVE  UNCHANGED fs
  <2>1. CASE TakeStep
    <3> DEFINE s == Head(todo)
    <3>1. Working /\ settled' = settled /\ fs' = [fs EXCEPT ![s.file] = Result(s)]
      BY <2>1 DEF TakeStep
    <3>2. s \in TargetSteps(settled)
      BY <1>1, <3>1, HeadIsStep, ChosenAre
    <3>3. Stable(s)
      BY <1>1, <3>1, <3>2 DEF Inv, DoneInv
    <3>4. fs = [f \in Files |-> fs[f]]
      BY <1>1, FilesAre DEF Inv
    <3> HIDE DEF s
    <3>5. QED
      BY <3>1, <3>3, <3>4 DEF Stable
  <2>2. ~Edit /\ ~WriteFails /\ ~ReadFails /\ ~Kill
    BY <1>1 DEF Edit, WriteFails, ReadFails, Kill, GiveUp
  <2>3. QED
    BY <1>1, <2>1, <2>2 DEF Next, vars, Run, NextHarness, StepFails, Finish
<1>2. Inv /\ [Next]_vars =>
        [Running /\ settled \in {target, All} /\ settled' # None => UNCHANGED fs]_vars
  BY <1>1
<1>3. QED
  BY SpecInv, <1>2, PTL DEF Spec, RepeatIsNoOp
=============================================================================
