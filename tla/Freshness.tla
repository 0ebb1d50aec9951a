------------------------------ MODULE Freshness ------------------------------
(***************************************************************************)
(* The write pipeline of the max-context server: the file system, the      *)
(* watcher and the indexing worker, composed as main.go composes them,     *)
(* with a channel between the last two.                                    *)
(***************************************************************************)
EXTENDS Watcher, IndexWorker

CONSTANTS
  Nested,      \* files in a directory that is made, moved or not watched
  EventCap,    \* what the kernel queues before it drops events (overflow fault)
  MaxEdits,    \* bound: how many file-system changes happen
  MaxTouches,  \* bound: how often .reindex-queue is written
  MayCancel    \* may the context be cancelled?

ASSUME EnvAssumption ==
  /\ Nested \subseteq Files
  /\ EventCap \in Nat
  /\ MaxEdits \in Nat
  /\ MaxTouches \in Nat
  /\ MayCancel \in BOOLEAN

VARIABLES
  edits,    \* how many changes have happened
  touches,  \* how many full reindexes have been asked for
  unseen    \* history: the files whose last change the watcher was not told of

envVars == <<edits, touches, unseen>>
vars == <<ch, watcherVars, workerVars, envVars>>

(* What changed while no server ran is not reported to anybody.            *)
Init ==
  /\ ChannelInit
  /\ WatcherInit
  /\ WorkerInit
  /\ Nested = {} => subdir = "missing"
  /\ subdir = "missing" => \A f \in Nested : disk[f].kind = "absent"
  /\ unseen = {f \in Files : ~Fresh(f)}
  /\ edits = 0
  /\ touches = 0

-----------------------------------------------------------------------------
(* The environment: editors, hooks, the kernel.                            *)

Unwatched(f) == f \in Nested /\ subdir # "watched"

EventQueueFull == "overflow" \in Faults /\ Len(events) >= EventCap

(* Will the watcher be told of a change of f?  Not when nobody watches its *)
(* directory, nor when the event queue is full (run discards the error     *)
(* that says so).                                                          *)
Reported(f) == ~Unwatched(f) /\ ~EventQueueFull

(* A file is written, replaced or deleted.                                 *)
Edit(f) ==
  /\ edits < MaxEdits
  /\ edits' = edits + 1
  /\ f \in Nested => subdir # "missing"
  /\ \E k \in Kinds :
       /\ k = "oversize" => "oversize" \in Faults
       /\ k = "absent" => disk[f].kind # "absent"
       /\ disk' = [disk EXCEPT ![f] = [ver |-> @.ver + 1, kind |-> k]]
  /\ events' = IF Reported(f) THEN Append(events, f) ELSE events
  /\ unseen' = IF Reported(f) THEN unseen \ {f} ELSE unseen \cup {f}
  /\ UNCHANGED <<ch, subdir, pend, orphans, callbacks, senders, cancelled, done,
                 workVars, storeVars, touches>>

(* A directory is created, or moved into the project.                      *)
MakeDir ==
  /\ Nested # {}
  /\ edits < MaxEdits
  /\ subdir = "missing"
  /\ edits' = edits + 1
  /\ subdir' = "unwatched"
  /\ events' = IF EventQueueFull THEN events ELSE Append(events, Dir)
  /\ UNCHANGED <<ch, pend, orphans, callbacks, senders, cancelled, done,
                 workerVars, touches, unseen>>

(* The directory, watched or not, is renamed or moved out of the project:  *)
(* its files go with it, and the only event names the directory, which     *)
(* handle discards for want of a known extension.                          *)
MoveDirAway ==
  /\ Nested # {}
  /\ edits < MaxEdits
  /\ subdir # "missing"
  /\ edits' = edits + 1
  /\ subdir' = "missing"
  /\ disk' = [f \in Files |->
                IF f \in Nested /\ disk[f].kind # "absent"
                THEN [ver |-> disk[f].ver + 1, kind |-> "absent"]
                ELSE disk[f]]
  /\ unseen' = unseen \cup {f \in Nested : disk[f].kind # "absent"}
  /\ UNCHANGED <<ch, events, pend, orphans, callbacks, senders, cancelled, done,
                 workVars, storeVars, touches>>

(* A hook or a user writes .max-context/.reindex-queue: the full reindex   *)
(* will look at every file, told of its change or not.                     *)
TouchQueue ==
  /\ touches < MaxTouches
  /\ touches' = touches + 1
  /\ events' = IF EventQueueFull THEN events ELSE Append(events, Full)
  /\ unseen' = IF EventQueueFull THEN unseen ELSE {}
  /\ UNCHANGED <<ch, subdir, pend, orphans, callbacks, senders, cancelled, done,
                 workerVars, edits>>

Cancel ==
  /\ MayCancel
  /\ ~cancelled
  /\ cancelled' = TRUE
  /\ UNCHANGED <<ch, events, subdir, pend, orphans, callbacks, senders, done,
                 workerVars, envVars>>

(* RunWorker returns when it is between requests.                          *)
WorkerExit ==
  /\ cancelled
  /\ stage = "idle"
  /\ stage' = "exited"
  /\ UNCHANGED <<ch, watcherVars, disk, job, listed, snap, storeVars, envVars>>

Environment == (\E f \in Files : Edit(f)) \/ MakeDir \/ MoveDirAway \/ TouchQueue \/ Cancel

WatcherStep == WatcherNext /\ UNCHANGED <<workerVars, envVars>>

WorkerStep == WorkerNext /\ UNCHANGED <<watcherVars, envVars>>

Next == Environment \/ WatcherStep \/ WorkerStep \/ WorkerExit

(* The scheduler runs every goroutine that can run, an armed timer fires,  *)
(* and of the goroutines blocked in send the runtime serves the one that   *)
(* has waited longest.  Nothing obliges anyone to edit, touch or cancel.   *)
Fairness ==
  /\ WF_vars((HandleDir \/ HandleQueueFile \/ \E f \in Files : HandleFile(f))
             /\ UNCHANGED <<workerVars, envVars>>)
  /\ \A f \in Files :
       /\ WF_vars(FirePending(f) /\ UNCHANGED <<workerVars, envVars>>)
       /\ WF_vars(FireOrphan(f) /\ UNCHANGED <<workerVars, envVars>>)
       /\ WF_vars(Callback(f) /\ UNCHANGED <<workerVars, envVars>>)
  /\ \A x \in Requests :
       WF_vars((Send(x) \/ Abandon(x)) /\ UNCHANGED <<workerVars, envVars>>)
  /\ WF_vars(Stop /\ UNCHANGED <<workerVars, envVars>>)
  /\ WF_vars(WorkerStep)
  /\ WF_vars(WorkerExit)

Spec == Init /\ [][Next]_vars

FairSpec == Spec /\ Fairness

-----------------------------------------------------------------------------
(* Properties.                                                             *)

(* Every variable has its type.                                            *)
TypeOK ==
  /\ ch \in Seq(Requests)
  /\ Len(ch) <= Cap
  /\ WatcherTypeOK
  /\ WorkerTypeOK
  /\ edits \in Nat
  /\ touches \in Nat
  /\ unseen \subseteq Files

(* Request x is on its way to the worker.                                  *)
Queued(x) == InWatcher(x) \/ Holds(ch, x)

(* The running job will still look at the current content of f.            *)
WillRead(f) ==
  \/ job = f /\ stage \in {"check", "read"}
  \/ job = Full /\ (stage = "scan" \/ (stage = "load" /\ f \in listed /\ snap[f] = Unread))

(* The running job has read the current content of f and not committed it. *)
HasRead(f) ==
  /\ snap[f] = disk[f]
  /\ (job = f /\ stage = "write") \/ (job = Full /\ stage = "load")

(* Something in the pipeline is still going to bring f up to date.         *)
Noted(f) == Queued(f) \/ Queued(Full) \/ WillRead(f) \/ HasRead(f)

(* The index says the truth about f, or work for f is under way, or        *)
(* index_errors names f.                                                   *)
Accounted(f) == Fresh(f) \/ Noted(f) \/ Flagged(f)

(* A file whose last change the watcher was told of is never both stale    *)
(* and forgotten: it differs from its index only while it is on its way    *)
(* through the pipeline or reported in index_errors (what send's comment   *)
(* says dropping requests had broken: "silently left those files stale in  *)
(* an index that reports itself healthy").  Nothing is said of the files   *)
(* in unseen: those changed while no server ran, in a directory that is    *)
(* not watched, with their directory, or when the event queue was full.    *)
NoSilentStaleness == ~cancelled => \A f \in Files \ unseen : Accounted(f)

(* No commit replaces the rows of a file by rows of an older version of    *)
(* it, however requests, reads and edits interleave.                       *)
IndexNeverRegresses == [][\A f \in Files : index'[f].ver >= index[f].ver]_index

(* Once the edits stop, every file whose last change was reported becomes  *)
(* and stays either fresh or flagged: no event, timer, blocked send or     *)
(* request is stuck for ever.                                              *)
EventuallyAccounted ==
  <>[](cancelled \/ \A f \in Files \ unseen : Fresh(f) \/ Flagged(f))

(* Every write of .reindex-queue makes the worker start a full reindex,    *)
(* also when the channel is full at the time, unless the server is told    *)
(* to stop.                                                                *)
TouchIsServed == Queued(Full) ~> (job = Full \/ cancelled)

(* A stopped watcher releases every timer, callback and blocked sender,    *)
(* even if nobody ever reads the channel again.                            *)
StopReleases == cancelled ~> [](WatcherQuiet)

-----------------------------------------------------------------------------
(* The strengthening that makes NoSilentStaleness inductive.               *)

(* What the code accounts for by itself.  With the other faults, and with  *)
(* files that .gitignore hides from Scan but not from RunWorker, it does   *)
(* not: Freshness_unreadable and the configurations beside it show how.    *)
NoFaults == Faults \subseteq {"overflow"} /\ GitIgnored = {}

(* How a job's progress, its snapshot and the disk fit together.           *)
JobInv ==
  /\ done => cancelled
  /\ \A f \in Files : disk[f].kind # "oversize"
  /\ \A f \in Files : snap[f].kind \in {"file", "absent", "unread"}
  /\ stage = "load" => /\ job = Full
                       /\ \A f \in Files \ listed : snap[f].kind = "absent"
  /\ stage = "write" => job \in Files /\ snap[job].kind # "unread"
  /\ stage \notin {"write", "load"} => \A f \in Files : snap[f].kind = "unread"

(* What the worker has read of a file is current, or a change that         *)
(* outdates it is still in front of the worker.                            *)
SnapshotInv ==
  ~cancelled => \A f \in Files \ unseen :
                   snap[f].kind # "unread" => snap[f] = disk[f] \/ Queued(f) \/ Queued(Full)

StalenessInv == JobInv /\ SnapshotInv /\ NoSilentStaleness

(* The strengthening for IndexNeverRegresses: index, snapshot and disk are *)
(* successive versions of a file.                                          *)
VersionInv ==
  /\ \A f \in Files :
       /\ index[f].ver <= disk[f].ver
       /\ snap[f].kind \in Kinds => /\ index[f].ver <= snap[f].ver
                                    /\ snap[f].ver <= disk[f].ver
  /\ stage = "load" => \A f \in Files \ listed : snap[f].kind \in Kinds
  /\ stage \in {"scan", "load"} => job = Full
  /\ stage = "write" => job \in Files /\ snap[job].kind # "unread"

-----------------------------------------------------------------------------
(* The abstract promise, and what each of its variables is here.           *)
Stale == {f \in Files : ~Fresh(f)}
Owed == {f \in Files : Noted(f)}
FlaggedFiles == {f \in Files : Flagged(f)}

Promise == INSTANCE EventualIndex
             WITH stale <- Stale, owed <- Owed, flagged <- FlaggedFiles

(* The pipeline implements the promise: every step of it is a change that  *)
(* is seen or one that is not, a request, a step of serving, or invisible. *)
KeepsPromise == Promise!Spec
=============================================================================
