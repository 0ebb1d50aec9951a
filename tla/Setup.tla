-------------------------------- MODULE Setup --------------------------------
(***************************************************************************)
(* internal/setup: "max-context setup <target>" writes and merges files of *)
(* the agent harnesses, one after the other.  A run stops at the first     *)
(* error, may be killed, and is repeated by the user, who edits the same   *)
(* files by hand.                                                          *)
(*                                                                         *)
(* Of a file only what setup and its promises tell apart is kept: whether  *)
(* a configuration parses, which servers and instruction files it lists,   *)
(* whether there is text of the user's in it.  JSON, TOML and YAML differ  *)
(* in two points: a TOML table may be written inline, and a YAML file may  *)
(* hold several documents.                                                 *)
(***************************************************************************)
EXTENDS Naturals, Sequences, SequencesExt

CONSTANTS
  Targets,   \* the targets that are asked for
  MaxRuns,   \* bound: how often setup is run
  MaxEdits,  \* bound: how many changes the user makes
  MaxFaults  \* bound: how many reads and writes fail and runs are killed

ASSUME SetupBounds == MaxRuns \in Nat /\ MaxEdits \in Nat /\ MaxFaults \in Nat

None == "none"
All == "all"
serverName == "max-context"

(* The table of harnesses, in its order.                                   *)
Harness(name, config, commands, extra) ==
  [name |-> name, config |-> config, commands |-> commands, extra |-> extra,
   instructions |-> FALSE, agentsMD |-> TRUE]

vscodeHooks == <<"hooks.json", "session-start.sh", "pre-compact.sh">>

harnesses ==
  <<Harness("claude-code", "JSON", TRUE, <<>>),
    Harness("vscode", "JSON", TRUE, vscodeHooks),
    Harness("codex", "TOML", FALSE, <<>>),
    Harness("antigravity", None, FALSE, <<>>),
    Harness("cursor", "JSON", TRUE, <<>>),
    Harness("windsurf", None, TRUE, <<>>),
    [Harness("opencode", "JSON", FALSE, <<>>) EXCEPT !.instructions = TRUE, !.agentsMD = FALSE],
    Harness("hermes", "YAML", FALSE, <<>>),
    Harness("pi", None, FALSE, <<>>)>>

HarnessNames == {harnesses[i].name : i \in 1..Len(harnesses)}
lookupHarness(name) == CHOOSE h \in ToSet(harnesses) : h.name = name

Commands == <<"reindex", "index", "status">>

(* The style of a harness' guidance, and of its line in AGENTS.md.         *)
guidanceStyle(h) == IF h.config # None THEN "MCP" ELSE "CLI"

-----------------------------------------------------------------------------
(* Files are named by harness and role; two are shared.                    *)
ConfigOf(h) == <<h.name, "config">>
Roles(h) == <<"guidance">> \o (IF h.commands THEN Commands ELSE <<>>) \o h.extra
OwnedBy(h) == [i \in 1..Len(Roles(h)) |-> <<h.name, Roles(h)[i]>>]
AgentsMD == <<"project", "AGENTS.md">>
Gitignore == <<"project", ".gitignore">>

ConfigFiles == {ConfigOf(h) : h \in {x \in ToSet(harnesses) : x.config # None}}
OwnedFiles == UNION {ToSet(OwnedBy(h)) : h \in ToSet(harnesses)}
SharedFiles == {AgentsMD, Gitignore}

(* A configuration: whether it parses; the map of servers ("missing",      *)
(* "wrong" for another type, "inline" in TOML, "map") and its names; the   *)
(* array of instruction files; whether the user has put anything in it;    *)
(* whether more documents follow, in YAML, after the first.                *)
Config(kind, servers, names, user) ==
  [kind |-> kind, servers |-> servers, names |-> names,
   list |-> "missing", paths |-> {}, user |-> user, more |-> FALSE]

AbsentConfig == Config("absent", "missing", {}, FALSE)
EmptyConfig == Config("empty", "missing", {}, FALSE)

(* What the user may leave in a configuration.                             *)
UserConfigs(file) ==
  {AbsentConfig,
   Config("broken", "missing", {}, TRUE),
   Config("doc", "missing", {}, TRUE),
   Config("doc", "wrong", {}, TRUE),
   Config("doc", "map", {"other"}, TRUE)}
  \cup (IF file[1] = "codex" THEN {Config("doc", "inline", {"other"}, TRUE)} ELSE {})
  \cup (IF file[1] = "hermes"
        THEN {[Config("doc", "map", {"other"}, TRUE) EXCEPT !.more = TRUE]} ELSE {})
  \cup (IF file[1] = "opencode"
        THEN {[Config("doc", "map", {"other"}, TRUE) EXCEPT !.list = "wrong"],
              [Config("doc", "map", {"other"}, TRUE) EXCEPT !.list = "list", !.paths = {"other"}]}
        ELSE {})

(* Text files: whether they exist, hold text of the user's, and what       *)
(* max-context has added, a line of .gitignore or blocks of AGENTS.md.     *)
Text(exists, user, ours) == [exists |-> exists, user |-> user, ours |-> ours]

VARIABLES
  fs,       \* the content of every file
  todo,     \* what is left of the run's current harness
  queue,    \* the harnesses that the run has not begun
  target,   \* the target of the run, or None
  outcome,  \* of the last run: "none", "running", "ok", "error" or "killed"
  skipped,  \* the configurations that the run's report lists as skipped
  disturbed,\* whether anything else than setup's own steps happened during the run
  settled,  \* the target of the last run if it ended well, undisturbed until now
  count     \* runs, edits and faults so far

vars == <<fs, todo, queue, target, outcome, skipped, disturbed, settled, count>>

Init ==
  /\ fs = [f \in ConfigFiles \cup OwnedFiles \cup SharedFiles |->
             IF f \in ConfigFiles THEN AbsentConfig
             ELSE IF f \in OwnedFiles THEN "absent" ELSE Text(FALSE, FALSE, <<>>)]
  /\ todo = <<>>
  /\ queue = <<>>
  /\ target = None
  /\ outcome = "none"
  /\ skipped = {}
  /\ disturbed = FALSE
  /\ settled = None
  /\ count = [runs |-> 0, edits |-> 0, faults |-> 0]

-----------------------------------------------------------------------------
(* What a run does, in its order: for each harness chosen, the steps of    *)
(* apply, writeCommands and writeVSCodeHooks.                              *)
Step(do, file, h) == [do |-> do, file |-> file, h |-> h]

apply(h) ==
  (IF h.config # None THEN <<Step("merge", ConfigOf(h), h)>> ELSE <<>>)
  \o [i \in 1..Len(OwnedBy(h)) |-> Step("write", OwnedBy(h)[i], h)]
  \o (IF h.instructions THEN <<Step("list", ConfigOf(h), h)>> ELSE <<>>)
  \o (IF h.agentsMD THEN <<Step("append", AgentsMD, h)>> ELSE <<>>)

Known(t) == t = All \/ t \in HarnessNames
Chosen(t) == IF t = All THEN harnesses
             ELSE IF Known(t) THEN <<lookupHarness(t)>> ELSE <<>>

IgnoreIndex == Step("ignore", Gitignore, Harness(None, None, FALSE, <<>>))

(* Merging the server into a configuration.                                *)
Refused(c) == c.kind = "broken" \/ c.servers = "wrong"

(* Mutant of mergeMCPConfigEntry: a file that exists is left alone.        *)
WrittenIfAbsent(c) ==
  IF c.kind \in {"absent", "empty"} THEN Config("doc", "map", {serverName}, FALSE) ELSE c

(* Mutant of mergeMCPConfigEntry: what does not parse counts as empty.     *)
MergedOverBroken(c) ==
  IF c.kind # "doc" THEN Config("doc", "map", {serverName}, FALSE)
  ELSE IF c.servers = "wrong" \/ serverName \in c.names THEN c
  ELSE [c EXCEPT !.servers = "map", !.names = @ \cup {serverName}]

mergeMCPConfigEntry(c) ==
  CASE c.kind \in {"absent", "empty"} -> Config("doc", "map", {serverName}, FALSE)
    [] Refused(c) \/ serverName \in c.names -> c
    [] OTHER -> [c EXCEPT !.servers = "map", !.names = @ \cup {serverName}]

(* The same decisions on the nodes of the first document, which is written *)
(* back alone.                                                             *)
mergeYAMLConfig(c) ==
  LET d == mergeMCPConfigEntry(c) IN IF d = c THEN c ELSE [d EXCEPT !.more = FALSE]

(* The new table is appended to the text; if the file writes its servers   *)
(* inline, it does not parse any more.                                     *)
mergeTOMLConfig(c) ==
  IF c.kind = "doc" /\ c.servers = "inline" THEN [c EXCEPT !.kind = "broken"]
                                           ELSE mergeMCPConfigEntry(c)

Merged(format, c) ==
  CASE format = "JSON" -> mergeMCPConfigEntry(c)
    [] format = "YAML" -> mergeYAMLConfig(c)
    [] format = "TOML" -> mergeTOMLConfig(c)

(* addInstructionsPath, on a file that exists.                             *)
Unlistable(c) == c.kind # "doc" \/ c.list = "wrong"
Listed(c) ==
  IF Unlistable(c) \/ "guidance" \in c.paths THEN c
  ELSE [c EXCEPT !.list = "list", !.paths = @ \cup {"guidance"}]

(* Mutant of Appended: the marker is not looked for.                       *)
AppendedAgain(t, style) == Text(TRUE, t.user, t.ours \o <<style>>)

(* appendWithMarkers and ensureGitignore.                                  *)
Appended(t, style) == IF t.ours # <<>> THEN t ELSE Text(TRUE, t.user, <<style>>)

(* What the step makes of a file that it finds as c.                       *)
Outcome(s, c) ==
  CASE s.do = "merge" -> Merged(s.h.config, c)
    [] s.do = "write" -> IF c = "absent" THEN "ours" ELSE c
    [] s.do = "list" -> Listed(c)
    [] s.do = "append" -> Appended(c, guidanceStyle(s.h))
    [] s.do = "ignore" -> Appended(c, ".max-context/")

Result(s) == Outcome(s, fs[s.file])

Skips(s) == \/ s.do = "merge" /\ Refused(fs[s.file])
            \/ s.do = "list" /\ Unlistable(fs[s.file])

(* A write truncates the file before it writes.                            *)
Truncated(s) ==
  CASE s.do \in {"merge", "list"} -> EmptyConfig
    [] s.do = "write" -> "torn"
    [] OTHER -> Text(TRUE, FALSE, <<>>)

-----------------------------------------------------------------------------
Running == outcome = "running"
Working == Running /\ todo # <<>>

Run(t) ==
  /\ ~Running
  /\ count.runs < MaxRuns
  /\ count' = [count EXCEPT !.runs = @ + 1]
  /\ target' = t
  /\ todo' = <<IgnoreIndex>>
  /\ queue' = Chosen(t)
  /\ outcome' = "running"
  /\ skipped' = {}
  /\ disturbed' = FALSE
  /\ UNCHANGED <<fs, settled>>

NextHarness ==
  /\ Running
  /\ todo = <<>>
  /\ queue # <<>>
  /\ todo' = apply(Head(queue))
  /\ queue' = Tail(queue)
  /\ UNCHANGED <<fs, target, outcome, skipped, disturbed, settled, count>>

Finish ==
  /\ Running
  /\ todo = <<>>
  /\ queue = <<>>
  /\ outcome' = IF Known(target) THEN "ok" ELSE "error"
  /\ settled' = IF Known(target) /\ ~disturbed THEN target ELSE None
  /\ UNCHANGED <<fs, todo, queue, target, skipped, disturbed, count>>

(* Only the error of addInstructionsPath when the file is gone does not    *)
(* come from a write.                                                      *)
Gone(s) == s.do = "list" /\ fs[s.file].kind = "absent"

TakeStep ==
  /\ Working
  /\ ~Gone(Head(todo))
  /\ LET s == Head(todo)
     IN  /\ fs' = [fs EXCEPT ![s.file] = Result(s)]
         /\ skipped' = IF Skips(s) THEN skipped \cup {s.file} ELSE skipped
  /\ todo' = Tail(todo)
  /\ UNCHANGED <<queue, target, outcome, disturbed, settled, count>>

GiveUp(end) ==
  /\ todo' = <<>>
  /\ queue' = <<>>
  /\ outcome' = end
  /\ settled' = None
  /\ UNCHANGED <<target, skipped, disturbed>>

StepFails ==
  /\ Working
  /\ Gone(Head(todo))
  /\ GiveUp("error")
  /\ UNCHANGED <<fs, count>>

Fault ==
  /\ count.faults < MaxFaults
  /\ count' = [count EXCEPT !.faults = @ + 1]

Writes(s) == Result(s) # fs[s.file]

(* The file cannot be opened, or the disk is full and leaves it empty.     *)
(* The error of ensureGitignore is dropped, any other ends the run.        *)
WriteFails ==
  /\ Working
  /\ Fault
  /\ LET s == Head(todo)
     IN  /\ Writes(s)
         /\ fs' \in {fs, [fs EXCEPT ![s.file] = Truncated(s)]}
         /\ IF s.do = "ignore"
            THEN /\ todo' = Tail(todo)
                 /\ disturbed' = TRUE
                 /\ settled' = None
                 /\ UNCHANGED <<queue, target, outcome, skipped>>
            ELSE GiveUp("error")

(* The file cannot be read.  For a configuration that ends the run; any    *)
(* other file is taken for a missing one, and overwritten.                 *)
Nothing(f) == IF f \in OwnedFiles THEN "absent" ELSE Text(FALSE, FALSE, <<>>)

ReadFails ==
  /\ Working
  /\ Fault
  /\ LET s == Head(todo)
     IN  IF s.file \in ConfigFiles
         THEN GiveUp("error") /\ UNCHANGED fs
         ELSE /\ fs' = [fs EXCEPT ![s.file] = Outcome(s, Nothing(s.file))]
              /\ todo' = Tail(todo)
              /\ settled' = None
              /\ UNCHANGED <<queue, target, outcome, skipped, disturbed>>

(* Killed between two steps, or between truncating a file and writing it.  *)
Kill ==
  /\ Working
  /\ Fault
  /\ \/ UNCHANGED fs
     \/ /\ Writes(Head(todo))
        /\ fs' = [fs EXCEPT ![Head(todo).file] = Truncated(Head(todo))]
  /\ GiveUp("killed")

(* The user rewrites a configuration, edits or deletes a file, writes      *)
(* AGENTS.md or .gitignore; other programs may do so while setup runs.     *)
Edit ==
  /\ count.edits < MaxEdits
  /\ count' = [count EXCEPT !.edits = @ + 1]
  /\ disturbed' = TRUE
  /\ settled' = None
  /\ \/ \E f \in ConfigFiles : \E c \in UserConfigs(f) : fs' = [fs EXCEPT ![f] = c]
     \/ \E f \in OwnedFiles : \E c \in {"absent", "users"} : fs' = [fs EXCEPT ![f] = c]
     \/ \E f \in SharedFiles :
          fs' = [fs EXCEPT ![f] = Text(TRUE, TRUE, @.ours)]
  /\ UNCHANGED <<todo, queue, target, outcome, skipped>>

Next == \/ \E t \in Targets : Run(t)
        \/ NextHarness \/ TakeStep \/ StepFails \/ Finish \/ WriteFails \/ ReadFails \/ Kill \/ Edit

Spec == Init /\ [][Next]_vars

-----------------------------------------------------------------------------
(* Properties.                                                             *)

(* Every variable has its type; AGENTS.md never has more than one block.   *)
TypeOK ==
  /\ \A f \in ConfigFiles :
       /\ fs[f].kind \in {"absent", "empty", "broken", "doc"}
       /\ fs[f].servers \in {"missing", "wrong", "inline", "map"}
       /\ fs[f].names \subseteq {"other", serverName}
  /\ \A f \in OwnedFiles : fs[f] \in {"absent", "ours", "users", "torn"}
  /\ \A f \in SharedFiles : Len(fs[f].ours) <= 1
  /\ target \in Targets \cup {None}
  /\ settled \in Targets \cup {None}
  /\ disturbed \in BOOLEAN
  /\ outcome \in {"none", "running", "ok", "error", "killed"}
  /\ skipped \subseteq ConfigFiles

(* What the user has in a file.                                            *)
UserPart(f) ==
  IF f \in ConfigFiles THEN <<fs[f].user, fs[f].names \ {serverName}, fs[f].paths \ {"guidance"}>>
  ELSE IF f \in OwnedFiles THEN <<fs[f] = "users">>
  ELSE <<fs[f].user>>

(* Setup keeps the servers, keys and text that it finds, also in a file    *)
(* that it cannot parse, whatever the user changes between its steps.      *)
(* Outside of it are the steps in which the file system fails - a write    *)
(* that is cut off loses the file, and a file that cannot be read is       *)
(* overwritten - and the documents of a YAML file after the first.         *)
KeepsUserContent ==
  [][count'.edits = count.edits /\ count'.faults = count.faults
       => \A f \in DOMAIN fs : UserPart(f)' = UserPart(f)]_vars

(* After a run that ended well, if nobody touched anything since, running  *)
(* it again, or for any target it included, changes no file.               *)
RepeatIsNoOp ==
  [][Running /\ settled \in {target, All} /\ settled' # None => UNCHANGED fs]_vars

(* A run that ends well, undisturbed, has installed everything, whatever   *)
(* earlier runs and the user left: each configuration that the report does *)
(* not list as skipped parses and names the server, and opencode's lists   *)
(* the guidance; no file is missing; AGENTS.md has a block.  Two things it *)
(* does not promise: a TOML file whose user writes the servers inline no   *)
(* longer parses, and a file of setup's own counts as there even if an     *)
(* earlier run was cut off while it wrote it.                              *)
SuccessMeansInstalled ==
  outcome = "ok" /\ settled = target =>
    \A h \in ToSet(Chosen(target)) :
      LET c == fs[ConfigOf(h)]
      IN  /\ h.config # None /\ ConfigOf(h) \notin skipped =>
               (c.kind = "doc" /\ serverName \in c.names) \/ c.servers = "inline"
          /\ h.instructions /\ ConfigOf(h) \notin skipped => "guidance" \in c.paths
          /\ \A f \in ToSet(OwnedBy(h)) : fs[f] # "absent"
          /\ h.agentsMD => fs[AgentsMD].ours # <<>>

-----------------------------------------------------------------------------
(* What comments of the code say that it does not do.                      *)

(* appendWithMarkers: "safe on a file the user also edits by hand": as     *)
(* long as the run goes on, AGENTS.md keeps the user's text.               *)
SafeToEditByHand ==
  [][count'.edits = count.edits /\ Running'
       => UserPart(AgentsMD)' = UserPart(AgentsMD)]_vars

(* mergeYAMLConfig: "with the same guarantees as the JSON path: preserve   *)
(* what is there", every document of the file.                             *)
YAMLIsPreserved ==
  [][count'.edits = count.edits /\ count'.faults = count.faults
       => \A f \in ConfigFiles : fs[f].more => fs'[f].more]_vars

(* mergeTOMLConfig: "a new table appended at the end is always valid".     *)
AppendedTableIsValid ==
  [][count'.edits = count.edits /\ count'.faults = count.faults
       => \A f \in ConfigFiles : fs[f].kind = "doc" => fs'[f].kind = "doc"]_vars
=============================================================================
