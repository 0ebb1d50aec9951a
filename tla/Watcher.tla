------------------------------- MODULE Watcher -------------------------------
(***************************************************************************)
(* internal/watcher/watcher.go: operating-system file events in, debounced *)
(* reindex requests out.                                                   *)
(*                                                                         *)
(* The goroutines are: run, which handles one fsnotify event after         *)
(* another; one callback for every debounce timer that fires; and one      *)
(* sender for every request that is waiting for room in the channel.       *)
(*                                                                         *)
(* A file's debounce timer is in the pending map from the moment debounce  *)
(* creates it to the moment a callback for the file deletes the entry.     *)
(* Reset re-arms the timer in the map even when that timer has fired and   *)
(* its callback is still waiting for the mutex, so one timer may run its   *)
(* callback twice, and the second run may delete the map entry of a timer  *)
(* created meanwhile.  Such a timer is still armed and still fires: it is  *)
(* counted in orphans.                                                     *)
(***************************************************************************)
EXTENDS ReindexChannel

CONSTANT Dir   \* the event "a directory was created"

ASSUME DirAssumption == Dir \notin Files /\ Dir # Full

Events == Requests \cup {Dir}

VARIABLES
  events,     \* fsnotify's undelivered events, oldest first (Full: the queue file)
  subdir,     \* the directory that comes and goes: missing, unwatched, watched
  pend,       \* per file, the timer in the pending map: none, armed or fired
  orphans,    \* per file, how many armed timers are no longer in the map
  callbacks,  \* per file, how many timer callbacks have yet to take the mutex
  senders,    \* per request, how many goroutines are blocked in send
  cancelled,  \* has the context been cancelled?
  done        \* has stop closed the done channel?

watcherVars == <<events, subdir, pend, orphans, callbacks, senders, cancelled, done>>

(* Start: what addRecursive finds is watched, as far as the watches can be *)
(* added (their errors are dropped, too).                                  *)
WatcherInit ==
  /\ events = <<>>
  /\ subdir \in {"missing", "unwatched", "watched"}
  /\ pend = [f \in Files |-> "none"]
  /\ orphans = [f \in Files |-> 0]
  /\ callbacks = [f \in Files |-> 0]
  /\ senders = [x \in Requests |-> 0]
  /\ cancelled = FALSE
  /\ done = FALSE

(* One more or one fewer goroutine for x.                                  *)
Inc(bag, x) == [bag EXCEPT ![x] = @ + 1]
Dec(bag, x) == [bag EXCEPT ![x] = @ - 1]

NextEvent(e) == /\ ~done
                /\ events # <<>>
                /\ e = Head(events)
                /\ events' = Tail(events)

(* handle, on an event of a watched file: start the file's timer, or reset *)
(* the one in the pending map.  Either way the map now holds an armed timer.*)
HandleFile(f) ==
  /\ NextEvent(f)
  /\ pend' = [pend EXCEPT ![f] = "armed"]
  /\ UNCHANGED <<subdir, orphans, callbacks, senders, cancelled, done, ch>>

(* handle, on the creation of a directory: watch it, if it still exists.   *)
(* Files already in it are not reported, and the error of a watch that     *)
(* cannot be added is dropped.                                             *)
HandleDir ==
  /\ NextEvent(Dir)
  /\ subdir' \in IF subdir = "missing" THEN {subdir} ELSE {subdir, "watched"}
  /\ UNCHANGED <<pend, orphans, callbacks, senders, cancelled, done, ch>>

(* handle, on .max-context/.reindex-queue: remove the file and hand the    *)
(* full-reindex request to a goroutine of its own.                         *)
HandleQueueFile ==
  /\ NextEvent(Full)
  /\ senders' = Inc(senders, Full)
  /\ UNCHANGED <<subdir, pend, orphans, callbacks, cancelled, done, ch>>

(* A debounce timer expires and its callback starts.                       *)
FirePending(f) ==
  /\ pend[f] = "armed"
  /\ pend' = [pend EXCEPT ![f] = "fired"]
  /\ callbacks' = Inc(callbacks, f)
  /\ UNCHANGED <<events, subdir, orphans, senders, cancelled, done, ch>>

FireOrphan(f) ==
  /\ orphans[f] > 0
  /\ orphans' = Dec(orphans, f)
  /\ callbacks' = Inc(callbacks, f)
  /\ UNCHANGED <<events, subdir, pend, senders, cancelled, done, ch>>

(* A callback takes the mutex, deletes the file's map entry, whichever     *)
(* timer it holds, releases the mutex and calls send.                      *)
Callback(f) ==
  /\ callbacks[f] > 0
  /\ callbacks' = Dec(callbacks, f)
  /\ pend' = [pend EXCEPT ![f] = "none"]
  /\ orphans' = IF pend[f] = "armed" THEN Inc(orphans, f) ELSE orphans
  /\ senders' = Inc(senders, f)
  /\ UNCHANGED <<events, subdir, cancelled, done, ch>>

(* send: the select's two cases.                                           *)
Send(x) ==
  /\ senders[x] > 0
  /\ senders' = Dec(senders, x)
  /\ Put(x)
  /\ UNCHANGED <<events, subdir, pend, orphans, callbacks, cancelled, done>>

(* Mutant of Abandon: a send that does not listen to done.                 *)
AbandonNever(x) == FALSE /\ x \in Requests /\ UNCHANGED <<watcherVars, ch>>

Abandon(x) ==
  /\ done
  /\ senders[x] > 0
  /\ senders' = Dec(senders, x)
  /\ UNCHANGED <<events, subdir, pend, orphans, callbacks, cancelled, done, ch>>

(* run sees the cancelled context and its deferred stop closes done.       *)
Stop ==
  /\ cancelled
  /\ ~done
  /\ done' = TRUE
  /\ UNCHANGED <<events, subdir, pend, orphans, callbacks, senders, cancelled, ch>>

WatcherNext ==
  \/ \E f \in Files : HandleFile(f) \/ FirePending(f) \/ FireOrphan(f) \/ Callback(f)
  \/ HandleDir
  \/ HandleQueueFile
  \/ \E x \in Requests : Send(x) \/ Abandon(x)
  \/ Stop

WatcherTypeOK ==
  /\ events \in Seq(Events)
  /\ subdir \in {"missing", "unwatched", "watched"}
  /\ pend \in [Files -> {"none", "armed", "fired"}]
  /\ orphans \in [Files -> Nat]
  /\ callbacks \in [Files -> Nat]
  /\ senders \in [Requests -> Nat]
  /\ cancelled \in BOOLEAN
  /\ done \in BOOLEAN

(* Work for request x that the watcher has accepted and not yet handed to  *)
(* the worker.                                                             *)
InWatcher(x) ==
  \/ Holds(events, x)
  \/ x \in Files /\ (pend[x] = "armed" \/ orphans[x] > 0 \/ callbacks[x] > 0)
  \/ senders[x] > 0

(* Every timer, callback and sender is gone.                               *)
WatcherQuiet ==
  /\ \A f \in Files : pend[f] = "none" /\ orphans[f] = 0 /\ callbacks[f] = 0
  /\ \A x \in Requests : senders[x] = 0
=============================================================================
