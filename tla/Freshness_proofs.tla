-------------------------- MODULE Freshness_proofs --------------------------
(***************************************************************************)
(* Theorems about the write pipeline, for every set of files, every        *)
(* channel capacity, every number of edits, requests and failures.         *)
(***************************************************************************)
EXTENDS Freshness, TLAPS

USE CapAssumption, FullAssumption, DirAssumption, WorkerAssumption, EnvAssumption

(* What the channel and the event queue hold after a send and a receive.   *)
LEMMA HoldsAppend ==
  ASSUME NEW S, NEW s \in Seq(S), NEW e \in S, NEW x
  PROVE  Holds(Append(s, e), x) <=> Holds(s, x) \/ x = e
<1>1. /\ Len(Append(s, e)) = Len(s) + 1
      /\ Append(s, e)[Len(s) + 1] = e
      /\ \A i \in 1..Len(s) : Append(s, e)[i] = s[i]
      /\ Len(s) \in Nat
  OBVIOUS
<1>2. 1..(Len(s) + 1) = 1..Len(s) \cup {Len(s) + 1}
  BY <1>1
<1>3. QED
  BY <1>1, <1>2 DEF Holds

LEMMA HoldsTail ==
  ASSUME NEW S, NEW s \in Seq(S), s # <<>>, NEW x
  PROVE  Holds(s, x) <=> x = Head(s) \/ Holds(Tail(s), x)
<1>1. /\ Len(s) \in Nat \ {0}
      /\ Len(Tail(s)) = Len(s) - 1
      /\ Head(s) = s[1]
      /\ \A i \in 1..(Len(s) - 1) : Tail(s)[i] = s[i + 1]
  OBVIOUS
<1>2. ASSUME NEW i \in 1..Len(s), s[i] = x, i # 1
      PROVE  Holds(Tail(s), x)
  <2>1. i - 1 \in 1..(Len(s) - 1) /\ Tail(s)[i - 1] = x
    BY <1>1, <1>2
  <2>2. QED
    BY <1>1, <2>1 DEF Holds
<1>3. ASSUME NEW i \in 1..(Len(s) - 1), Tail(s)[i] = x
      PROVE  Holds(s, x)
  <2>1. i + 1 \in 1..Len(s) /\ s[i + 1] = x
    BY <1>1, <1>3
  <2>2. QED
    BY <2>1 DEF Holds
<1>4. QED
  BY <1>1, <1>2, <1>3 DEF Holds

(* Starting or ending one goroutine keeps a bag of goroutines a bag.       *)
LEMMA BagTypes ==
  ASSUME NEW D, NEW bag \in [D -> Nat], NEW x \in D
  PROVE  /\ Inc(bag, x) \in [D -> Nat]
         /\ bag[x] > 0 => Dec(bag, x) \in [D -> Nat]
BY DEF Inc, Dec

(* A file's path and the empty string are requests.                        *)
LEMMA RequestMembers == Full \in Requests /\ \A f \in Files : f \in Requests
BY DEF Requests

-----------------------------------------------------------------------------
(* Every watcher step keeps the types of the watcher and of the channel.   *)
LEMMA WatcherTypes ==
  ASSUME TypeOK, WatcherStep
  PROVE  TypeOK'
<1> USE DEF TypeOK, WatcherTypeOK, WorkerTypeOK, workerVars, envVars, NextEvent
<1>1. ASSUME NEW f \in Files, HandleFile(f) PROVE TypeOK'
  BY <1>1 DEF HandleFile, WatcherStep
<1>2. ASSUME NEW f \in Files, FirePending(f) PROVE TypeOK'
  BY <1>2, BagTypes DEF FirePending, WatcherStep
<1>3. ASSUME NEW f \in Files, FireOrphan(f) PROVE TypeOK'
  <2>1. orphans' \in [Files -> Nat] /\ callbacks' \in [Files -> Nat]
    BY <1>3, BagTypes DEF FireOrphan
  <2>2. QED
    BY <1>3, <2>1 DEF FireOrphan, WatcherStep
<1>4. ASSUME NEW f \in Files, Callback(f) PROVE TypeOK'
  <2>1. orphans' \in [Files -> Nat] /\ callbacks' \in [Files -> Nat]
    BY <1>4, BagTypes DEF Callback
  <2>2. senders' \in [Requests -> Nat]
    BY <1>4, BagTypes, RequestMembers DEF Callback
  <2>3. QED
    BY <1>4, <2>1, <2>2 DEF Callback, WatcherStep
<1>5. CASE HandleDir
  BY <1>5 DEF HandleDir, WatcherStep
<1>6. CASE HandleQueueFile
  <2>1. senders' \in [Requests -> Nat]
    BY <1>6, BagTypes, RequestMembers DEF HandleQueueFile
  <2>2. QED
    BY <1>6, <2>1 DEF HandleQueueFile, WatcherStep
<1>7. ASSUME NEW x \in Requests, Send(x) PROVE TypeOK'
  <2>1. senders' \in [Requests -> Nat]
    BY <1>7, BagTypes DEF Send
  <2>2. ch' \in Seq(Requests) /\ Len(ch') <= Cap
    BY <1>7 DEF Send, Put
  <2>3. QED
    BY <1>7, <2>1, <2>2 DEF Send, WatcherStep
<1>8. ASSUME NEW x \in Requests, Abandon(x) PROVE TypeOK'
  <2>1. senders' \in [Requests -> Nat]
    BY <1>8, BagTypes DEF Abandon
  <2>2. QED
    BY <1>8, <2>1 DEF Abandon, WatcherStep
<1>9. CASE Stop
  BY <1>9 DEF Stop, WatcherStep
<1>10. QED
  BY <1>1, <1>2, <1>3, <1>4, <1>5, <1>6, <1>7, <1>8, <1>9 DEF WatcherStep, WatcherNext

(* Ending a request, with or without a recorded failure, keeps the types.  *)
LEMMA DoneTypes ==
  ASSUME Done
  PROVE  /\ job' \in Requests \cup {"none"}
         /\ stage' \in Stages
         /\ listed' \in SUBSET Files
         /\ snap' \in [Files -> Disk \cup {Unread, Unreadable}]
BY DEF Done, Stages

LEMMA FailTypes ==
  ASSUME TypeOK, WorkerStep, NEW key \in Files \cup {FullKey}, Fail(key)
  PROVE  TypeOK'
BY DoneTypes DEF Fail, TypeOK, WatcherTypeOK, WorkerTypeOK, watcherVars, envVars, WorkerStep

(* The index entry made from a snapshot, and one that has lost its rows.    *)
LEMMA RowsTypes ==
  ASSUME NEW d \in Disk \cup {Unread, Unreadable}
  PROVE  RowsOf(d) \in [ver : Nat, rows : BOOLEAN]
<1>1. d.ver \in Nat
  BY DEF Disk, Unread, Unreadable
<1>2. QED
  BY <1>1 DEF RowsOf

LEMMA RowsGoneTypes ==
  ASSUME NEW r \in [ver : Nat, rows : BOOLEAN]
  PROVE  [r EXCEPT !.rows = FALSE] \in [ver : Nat, rows : BOOLEAN]
OBVIOUS

LEMMA WorkerTypes ==
  ASSUME TypeOK, WorkerStep
  PROVE  TypeOK'
<1> USE DEF TypeOK, WatcherTypeOK, WorkerTypeOK, watcherVars, envVars
<1>1. ASSUME NEW x \in Requests, Receive(x) PROVE TypeOK'
  <2>1. ch' \in Seq(Requests) /\ Len(ch') <= Cap
    BY <1>1 DEF Receive, Get
  <2>2. QED
    BY <1>1, <2>1 DEF Receive, WorkerStep, Stages
<1>2. ASSUME NEW f \in Files, SkipFile(f) PROVE TypeOK'
  BY <1>2, DoneTypes DEF SkipFile, WorkerStep
<1>3. ASSUME NEW f \in Files, AcceptFile(f) PROVE TypeOK'
  BY <1>3 DEF AcceptFile, WorkerStep, Stages
<1>4. ASSUME NEW f \in Files, ReadFile(f) PROVE TypeOK'
  BY <1>4 DEF ReadFile, WorkerStep, Stages
<1>5. ASSUME NEW f \in Files, ReadFileFails(f) PROVE TypeOK'
  BY <1>5, FailTypes DEF ReadFileFails
<1>6. ASSUME NEW f \in Files, ReadDocFails(f) PROVE TypeOK'
  BY <1>6 DEF ReadDocFails, WorkerStep, Stages
<1>7. ASSUME NEW f \in Files, CommitFile(f) PROVE TypeOK'
  <2>1. RowsOf(snap[f]) \in [ver : Nat, rows : BOOLEAN]
    <3>1. snap[f] \in Disk \cup {Unread, Unreadable}
      OBVIOUS
    <3>2. QED
      BY <3>1, RowsTypes
  <2>2. [index[f] EXCEPT !.rows = FALSE] \in [ver : Nat, rows : BOOLEAN]
    <3>1. index[f] \in [ver : Nat, rows : BOOLEAN]
      OBVIOUS
    <3>2. QED
      BY <3>1, RowsGoneTypes
  <2>3. index' \in [Files -> [ver : Nat, rows : BOOLEAN]]
    BY <1>7, <2>1, <2>2 DEF CommitFile
  <2>4. QED
    BY <1>7, <2>3, DoneTypes DEF CommitFile, WorkerStep
<1>8. ASSUME NEW f \in Files, CommitFileFails(f) PROVE TypeOK'
  BY <1>8, FailTypes DEF CommitFileFails
<1>9. CASE Scan
  BY <1>9 DEF Scan, WorkerStep, Stages
<1>10. ASSUME NEW f \in Files, LoadFile(f) PROVE TypeOK'
  BY <1>10 DEF LoadFile, WorkerStep
<1>11. ASSUME NEW f \in Files, LoadFileFails(f) PROVE TypeOK'
  BY <1>11 DEF LoadFileFails, WorkerStep
<1>12. CASE CommitFull
  <2>1. index' \in [Files -> [ver : Nat, rows : BOOLEAN]]
    BY <1>12 DEF CommitFull, RowsOf, Disk, Unread, Unreadable
  <2>2. QED
    BY <1>12, <2>1, DoneTypes DEF CommitFull, WorkerStep
<1>13. CASE FullFails
  BY <1>13, FailTypes DEF FullFails
<1>14. QED
  BY <1>1, <1>2, <1>3, <1>4, <1>5, <1>6, <1>7, <1>8, <1>9, <1>10, <1>11, <1>12, <1>13
     DEF WorkerStep, WorkerNext

(* The environment's steps keep the types.                                 *)
LEMMA EnvironmentTypes ==
  ASSUME TypeOK, Environment \/ WorkerExit
  PROVE  TypeOK'
<1> USE DEF TypeOK, WatcherTypeOK, WorkerTypeOK
<1>1. ASSUME NEW e \in Events PROVE Append(events, e) \in Seq(Events)
  OBVIOUS
<1>2. Dir \in Events /\ Full \in Events /\ Files \subseteq Events
  BY DEF Events, Requests
<1>3. ASSUME NEW f \in Files, Edit(f) PROVE TypeOK'
  <2>1. disk' \in [Files -> Disk]
    BY <1>3 DEF Edit, Disk
  <2>2. events' \in Seq(Events)
    BY <1>1, <1>2, <1>3 DEF Edit
  <2>3. QED
    BY <1>3, <2>1, <2>2 DEF Edit, workVars, storeVars
<1>4. CASE MakeDir
  <2>1. events' \in Seq(Events)
    BY <1>1, <1>2, <1>4 DEF MakeDir
  <2>2. QED
    BY <1>4, <2>1 DEF MakeDir, workerVars
<1>5. CASE MoveDirAway
  <2>1. disk' \in [Files -> Disk]
    BY <1>5 DEF MoveDirAway, Disk, Kinds
  <2>2. QED
    BY <1>5, <2>1 DEF MoveDirAway, workVars, storeVars
<1>6. CASE TouchQueue
  BY <1>1, <1>2, <1>6 DEF TouchQueue, workerVars
<1>7. CASE Cancel
  BY <1>7 DEF Cancel, workerVars, envVars
<1>8. CASE WorkerExit
  BY <1>8 DEF WorkerExit, watcherVars, storeVars, envVars, Stages
<1>9. QED
  BY <1>3, <1>4, <1>5, <1>6, <1>7, <1>8 DEF Environment

(* Type correctness of the whole pipeline.                                 *)
THEOREM TypeCorrect == Spec => []TypeOK
<1>1. Init => TypeOK
  <2> SUFFICES ASSUME Init PROVE TypeOK
    OBVIOUS
  <2>1. ch \in Seq(Requests) /\ Len(ch) <= Cap
    BY DEF Init, ChannelInit
  <2>2. WatcherTypeOK
    <3>1. cancelled \in BOOLEAN /\ done \in BOOLEAN
      BY Zenon DEF Init, WatcherInit
    <3>2. events \in Seq(Events)
      BY DEF Init, WatcherInit
    <3>3. /\ pend \in [Files -> {"none", "armed", "fired"}]
          /\ orphans \in [Files -> Nat]
          /\ callbacks \in [Files -> Nat]
      BY DEF Init, WatcherInit
    <3>4. senders \in [Requests -> Nat]
      BY DEF Init, WatcherInit
    <3>5. QED
      BY <3>1, <3>2, <3>3, <3>4 DEF Init, WatcherInit, WatcherTypeOK
  <2>3. WorkerTypeOK
    BY DEF Init, WorkerInit, WorkerTypeOK, Disk, Kinds, Stages
  <2>4. QED
    BY <2>1, <2>2, <2>3 DEF Init, TypeOK
<1>2. TypeOK /\ [Next]_vars => TypeOK'
  <2>1. CASE UNCHANGED vars
    BY <2>1 DEF vars, watcherVars, workerVars, envVars, TypeOK, WatcherTypeOK, WorkerTypeOK
  <2>2. QED
    BY <2>1, WatcherTypes, WorkerTypes, EnvironmentTypes DEF Next
<1>3. QED
  BY <1>1, <1>2, PTL DEF Spec

-----------------------------------------------------------------------------
(* Index, snapshot and disk hold successive versions of every file.        *)

(* Ending a request leaves nothing read, and no job at a later stage.      *)
LEMMA DoneVersions ==
  ASSUME VersionInv, Done, UNCHANGED <<disk, index>>
  PROVE  VersionInv'
BY DEF Done, VersionInv, Unread, Kinds

LEMMA WorkerVersions ==
  ASSUME TypeOK, VersionInv, WorkerStep
  PROVE  VersionInv' /\ \A f \in Files : index'[f].ver >= index[f].ver
<1> USE DEF TypeOK, WorkerTypeOK
<1>a. \A d \in Disk : d.ver \in Nat /\ d.kind \in Kinds
  BY DEF Disk
<1>b. \A f \in Files : index[f].ver \in Nat /\ disk[f].ver \in Nat /\ disk[f].kind \in Kinds
  BY <1>a
<1>c. \A f \in Files : snap[f].kind \in Kinds => snap[f] \in Disk /\ snap[f].ver \in Nat
  BY <1>a DEF Unread, Unreadable, Kinds
<1>d. \A f \in Files : snap[f] = Unread \/ snap[f] = Unreadable \/ snap[f].kind \in Kinds
  BY <1>a
<1>1. ASSUME Done, UNCHANGED <<disk, index>>
      PROVE  VersionInv' /\ \A f \in Files : index'[f].ver >= index[f].ver
  BY <1>b, <1>1, DoneVersions
<1>2. ASSUME NEW x \in Requests, Receive(x)
      PROVE  VersionInv' /\ \A f \in Files : index'[f].ver >= index[f].ver
  BY <1>2, <1>b DEF Receive, VersionInv
<1>3. ASSUME NEW f \in Files, AcceptFile(f)
      PROVE  VersionInv' /\ \A g \in Files : index'[g].ver >= index[g].ver
  BY <1>3, <1>b DEF AcceptFile, VersionInv
<1>4. ASSUME NEW f \in Files, ReadFile(f)
      PROVE  VersionInv' /\ \A g \in Files : index'[g].ver >= index[g].ver
  BY <1>4, <1>b DEF ReadFile, VersionInv, Kinds
<1>5. ASSUME NEW f \in Files, ReadDocFails(f)
      PROVE  VersionInv' /\ \A g \in Files : index'[g].ver >= index[g].ver
  BY <1>5, <1>b DEF ReadDocFails, VersionInv, Unreadable, Kinds
<1>6. CASE Scan
  <2>1. \A f \in Files : snap'[f] = Unread \/ snap'[f] = disk[f]
    BY <1>6 DEF Scan
  <2>2. \A f \in Files \ listed' : snap'[f] = disk[f]
    BY <1>6 DEF Scan
  <2>3. QED
    BY <1>6, <1>b, <2>1, <2>2 DEF Scan, VersionInv, Unread, Kinds
<1>7. ASSUME NEW f \in Files, LoadFile(f)
      PROVE  VersionInv' /\ \A g \in Files : index'[g].ver >= index[g].ver
  BY <1>7, <1>b DEF LoadFile, VersionInv, Kinds
<1>8. ASSUME NEW f \in Files, LoadFileFails(f)
      PROVE  VersionInv' /\ \A g \in Files : index'[g].ver >= index[g].ver
  BY <1>8, <1>b DEF LoadFileFails, VersionInv, Unreadable, Kinds
<1>9. ASSUME NEW f \in Files, CommitFile(f)
      PROVE  VersionInv' /\ \A g \in Files : index'[g].ver >= index[g].ver
  <2>1. snap[f] = Unreadable \/ snap[f].kind \in Kinds
    BY <1>9, <1>d DEF CommitFile, VersionInv, Unread
  <2>2. /\ index'[f].ver >= index[f].ver
        /\ index'[f].ver <= disk[f].ver
    BY <1>9, <1>b, <1>c, <2>1 DEF CommitFile, VersionInv, RowsOf, Unreadable, Kinds
  <2>3. \A g \in Files : g # f => index'[g] = index[g]
    BY <1>9 DEF CommitFile
  <2>4. \A g \in Files : index'[g].ver >= index[g].ver /\ index'[g].ver <= disk'[g].ver
    BY <1>9, <1>b, <2>2, <2>3 DEF CommitFile, VersionInv
  <2>5. QED
    BY <1>9, <2>4 DEF CommitFile, Done, VersionInv, Unread, Kinds
<1>10. CASE CommitFull
  <2>1. ASSUME NEW g \in Files
        PROVE  index'[g].ver >= index[g].ver /\ index'[g].ver <= disk[g].ver
    <3>1. CASE g \in listed /\ snap[g] # Unreadable
      <4>1. snap[g].kind \in Kinds
        BY <1>10, <1>d, <3>1 DEF CommitFull
      <4>2. QED
        BY <1>10, <1>b, <1>c, <3>1, <4>1 DEF CommitFull, VersionInv, RowsOf
    <3>2. CASE g \in listed /\ snap[g] = Unreadable
      BY <1>10, <1>b, <3>2 DEF CommitFull, VersionInv
    <3>3. CASE g \notin listed
      BY <1>10, <1>b, <1>c, <3>3 DEF CommitFull, VersionInv
    <3>4. QED
      BY <3>1, <3>2, <3>3
  <2>2. QED
    BY <1>10, <2>1 DEF CommitFull, Done, VersionInv, Unread, Kinds
<1>11. QED
  BY <1>1, <1>2, <1>3, <1>4, <1>5, <1>6, <1>7, <1>8, <1>9, <1>10
     DEF WorkerStep, WorkerNext, SkipFile, ReadFileFails, CommitFileFails, FullFails, Fail

(* Nobody but the worker touches its snapshot or the index; a change only  *)
(* raises a file's version.                                                *)
LEMMA OtherVersions ==
  ASSUME TypeOK, VersionInv, WatcherStep \/ Environment \/ WorkerExit
  PROVE  VersionInv' /\ UNCHANGED index
<1> USE DEF TypeOK, WorkerTypeOK
<1>1. CASE WatcherStep
  BY <1>1 DEF WatcherStep, workerVars, VersionInv
<1>2. ASSUME UNCHANGED <<job, stage, listed, snap, index>>,
             \A f \in Files : disk'[f].ver \in Nat /\ disk'[f].ver >= disk[f].ver
      PROVE  VersionInv' /\ UNCHANGED index
  <2>1. \A f \in Files : index[f].ver \in Nat /\ disk[f].ver \in Nat
    BY DEF Disk
  <2>2. \A f \in Files : snap[f].kind \in Kinds => snap[f].ver \in Nat
    BY DEF Disk, Unread, Unreadable, Kinds
  <2>3. QED
    BY <1>2, <2>1, <2>2 DEF VersionInv
<1>3. \A f \in Files : disk[f].ver \in Nat
  BY DEF Disk
<1>4. ASSUME NEW f \in Files, Edit(f) PROVE VersionInv' /\ UNCHANGED index
  BY <1>2, <1>3, <1>4 DEF Edit, workVars, storeVars
<1>5. CASE MakeDir
  BY <1>2, <1>3, <1>5 DEF MakeDir, workerVars
<1>6. CASE MoveDirAway
  BY <1>2, <1>3, <1>6 DEF MoveDirAway, workVars, storeVars
<1>7. CASE TouchQueue
  BY <1>2, <1>3, <1>7 DEF TouchQueue, workerVars
<1>8. CASE Cancel
  BY <1>2, <1>3, <1>8 DEF Cancel, workerVars
<1>9. CASE WorkerExit
  BY <1>9 DEF WorkerExit, storeVars, VersionInv
<1>10. QED
  BY <1>1, <1>4, <1>5, <1>6, <1>7, <1>8, <1>9 DEF Environment

(* The rows of a file are never newer than what the worker last read of    *)
(* it, and that is never newer than the file.                              *)
THEOREM VersionsOrdered == Spec => []VersionInv
<1>1. Init => VersionInv
  BY DEF Init, WorkerInit, VersionInv, Unread, Kinds
<1>2. TypeOK /\ VersionInv /\ [Next]_vars => VersionInv'
  <2>1. CASE UNCHANGED vars
    BY <2>1 DEF vars, workerVars, VersionInv
  <2>2. QED
    BY <2>1, WorkerVersions, OtherVersions DEF Next
<1>3. QED
  BY <1>1, <1>2, TypeCorrect, PTL DEF Spec

(* No interleaving of edits, reads and requests lets a commit put an older *)
(* version of a file in place of a newer one.                              *)
THEOREM NeverRegresses == Spec => IndexNeverRegresses
<1>1. TypeOK /\ VersionInv /\ [Next]_vars
        => [\A f \in Files : index'[f].ver >= index[f].ver]_index
  <2>1. CASE UNCHANGED vars
    BY <2>1 DEF vars, workerVars
  <2>2. QED
    BY <2>1, WorkerVersions, OtherVersions DEF Next
<1>2. QED
  BY <1>1, TypeCorrect, VersionsOrdered, PTL DEF Spec, IndexNeverRegresses

-----------------------------------------------------------------------------
(* Requests in the pipeline.                                               *)

(* Whatever the watcher or the environment does before a cancellation, a   *)
(* request in the pipeline stays there until the worker receives it.       *)
LEMMA QueuedStays ==
  ASSUME TypeOK, WatcherStep \/ Environment, ~done, NEW x \in Requests, Queued(x)
  PROVE  Queued(x)'
<1> USE DEF TypeOK, WatcherTypeOK
<1>1. ASSUME NEW e \in Events, NextEvent(e), Holds(events, x)
      PROVE  x = e \/ Holds(events', x)
  BY <1>1, HoldsTail DEF NextEvent
<1>2. Files \subseteq Events /\ Full \in Events /\ Dir \in Events /\ Dir # x
  BY DEF Events, Requests
<1>3. ASSUME NEW f \in Files, HandleFile(f) PROVE Queued(x)'
  <2>1. x = f \/ Queued(x)'
    BY <1>1, <1>2, <1>3 DEF HandleFile, Queued, InWatcher
  <2>2. CASE x = f
    BY <1>3, <2>2 DEF HandleFile, Queued, InWatcher
  <2>3. QED
    BY <2>1, <2>2
<1>4. ASSUME NEW f \in Files, FirePending(f) PROVE Queued(x)'
  BY <1>4 DEF FirePending, Inc, Queued, InWatcher
<1>5. ASSUME NEW f \in Files, FireOrphan(f) PROVE Queued(x)'
  <2>1. callbacks'[f] > 0 /\ \A g \in Files : callbacks[g] > 0 => callbacks'[g] > 0
    BY <1>5 DEF FireOrphan, Inc
  <2>2. x # f => orphans'[x] = orphans[x]
    BY <1>5 DEF FireOrphan, Dec
  <2>3. QED
    BY <1>5, <2>1, <2>2 DEF FireOrphan, Queued, InWatcher
<1>6. ASSUME NEW f \in Files, Callback(f) PROVE Queued(x)'
  <2>1. senders'[f] > 0 /\ \A y \in Requests : senders[y] > 0 => senders'[y] > 0
    BY <1>6, RequestMembers DEF Callback, Inc
  <2>2. x # f => UNCHANGED <<pend[x], orphans[x], callbacks[x]>>
    BY <1>6 DEF Callback, Inc, Dec
  <2>3. QED
    BY <1>6, <2>1, <2>2 DEF Callback, Queued, InWatcher
<1>7. CASE HandleDir
  BY <1>1, <1>2, <1>7 DEF HandleDir, Queued, InWatcher
<1>8. CASE HandleQueueFile
  <2>1. senders'[Full] > 0 /\ \A y \in Requests : senders[y] > 0 => senders'[y] > 0
    BY <1>8, RequestMembers DEF HandleQueueFile, Inc
  <2>2. QED
    BY <1>1, <1>2, <1>8, <2>1 DEF HandleQueueFile, Queued, InWatcher
<1>9. ASSUME NEW y \in Requests, Send(y) PROVE Queued(x)'
  <2>1. \A z \in Requests : Holds(ch', z) <=> Holds(ch, z) \/ z = y
    BY <1>9, HoldsAppend DEF Send, Put
  <2>2. x # y => senders'[x] = senders[x]
    BY <1>9 DEF Send, Dec
  <2>3. QED
    BY <1>9, <2>1, <2>2 DEF Send, Queued, InWatcher
<1>10. CASE Stop
  BY <1>10 DEF Stop, Queued, InWatcher
<1>11. ASSUME UNCHANGED <<ch, pend, orphans, callbacks, senders>>,
              events' = events \/ \E e \in Events : events' = Append(events, e)
       PROVE  Queued(x)'
  <2>1. \A e \in Events : Holds(events, x) => Holds(Append(events, e), x)
    BY HoldsAppend
  <2>2. Holds(events, x) => Holds(events', x)
    BY <1>11, <2>1
  <2>3. QED
    BY <1>11, <2>2 DEF Queued, InWatcher
<1>12. CASE Environment
  <2>1. ASSUME NEW f \in Files, Edit(f) PROVE Queued(x)'
    BY <1>2, <1>11, <2>1 DEF Edit
  <2>2. CASE MakeDir
    BY <1>2, <1>11, <2>2 DEF MakeDir
  <2>3. CASE MoveDirAway
    BY <1>11, <2>3 DEF MoveDirAway
  <2>4. CASE TouchQueue
    BY <1>2, <1>11, <2>4 DEF TouchQueue
  <2>5. CASE Cancel
    BY <1>11, <2>5 DEF Cancel
  <2>6. QED
    BY <1>12, <2>1, <2>2, <2>3, <2>4, <2>5 DEF Environment
<1>13. QED
  BY <1>3, <1>4, <1>5, <1>6, <1>7, <1>8, <1>9, <1>10, <1>12
     DEF WatcherStep, WatcherNext, Abandon

(* The worker takes a request out of the pipeline only by receiving it.    *)
LEMMA QueuedByWorker ==
  ASSUME TypeOK, WorkerStep, NEW x \in Requests, Queued(x)
  PROVE  Queued(x)' \/ Receive(x)
<1>1. ASSUME NEW y \in Requests, Receive(y), Holds(ch, x)
      PROVE  x = y \/ Holds(ch', x)
  BY <1>1, HoldsTail DEF Receive, Get, TypeOK
<1>2. CASE \E y \in Requests : Receive(y)
  BY <1>1, <1>2 DEF WorkerStep, watcherVars, Queued, InWatcher
<1>3. CASE ch' = ch
  BY <1>3 DEF WorkerStep, watcherVars, Queued, InWatcher
<1>4. QED
  BY <1>2, <1>3 DEF WorkerStep, WorkerNext, SkipFile, AcceptFile, ReadFile, ReadFileFails,
     ReadDocFails, CommitFile, CommitFileFails, Scan, LoadFile, LoadFileFails, CommitFull,
     FullFails, Fail

-----------------------------------------------------------------------------
(* Staleness is never silent, as long as the environment injects no fault. *)

(* Between requests nothing is read, so the job invariant holds again.     *)
LEMMA DoneJob ==
  ASSUME JobInv, Done, UNCHANGED <<disk, watcherVars>>
  PROVE  JobInv' /\ \A f \in Files : snap'[f].kind = "unread"
BY DEF JobInv, Done, watcherVars, Unread

LEMMA WorkerJob ==
  ASSUME NoFaults, TypeOK, JobInv, WorkerStep
  PROVE  JobInv'
<1> USE DEF TypeOK, WorkerTypeOK
<1>a. UNCHANGED <<disk, watcherVars>>
  BY DEF WorkerStep, WorkerNext, Receive, SkipFile, AcceptFile, ReadFile, ReadFileFails,
     ReadDocFails, CommitFile, CommitFileFails, Scan, LoadFile, LoadFileFails, CommitFull,
     FullFails, Fail
<1>b. \A f \in Files : disk[f].kind \in {"file", "absent"}
  BY DEF JobInv, Disk, Kinds
<1>1. CASE Done
  BY <1>1, <1>a, DoneJob
<1>2. ASSUME NEW x \in Requests, Receive(x) PROVE JobInv'
  BY <1>2, <1>a DEF Receive, JobInv, watcherVars
<1>3. ASSUME NEW f \in Files, AcceptFile(f) PROVE JobInv'
  BY <1>3, <1>a DEF AcceptFile, JobInv, watcherVars
<1>4. ASSUME NEW f \in Files, ReadFile(f) PROVE JobInv'
  BY <1>4, <1>a, <1>b DEF ReadFile, JobInv, watcherVars
<1>5. CASE Scan
  <2>1. listed' = {f \in Files : disk[f].kind = "file"}
    BY <1>5 DEF Scan, NoFaults
  <2>2. \A f \in Files : snap'[f] = IF f \in listed' THEN Unread ELSE disk[f]
    BY <1>5 DEF Scan
  <2>a. Unread.kind = "unread"
    BY DEF Unread
  <2>b. \A f \in Files : snap'[f] = Unread \/ snap'[f] = disk[f]
    BY <2>2
  <2>3. \A f \in Files : snap'[f].kind \in {"file", "absent", "unread"}
    BY <1>b, <2>a, <2>b
  <2>4. \A f \in Files \ listed' : snap'[f].kind = "absent"
    BY <1>b, <2>1, <2>2
  <2>5. stage' = "load" /\ job' = Full
    BY <1>5 DEF Scan
  <2>6. QED
    BY <1>a, <2>3, <2>4, <2>5 DEF JobInv, watcherVars
<1>6. ASSUME NEW f \in Files, LoadFile(f) PROVE JobInv'
  BY <1>6, <1>a, <1>b DEF LoadFile, JobInv, watcherVars
<1>7. QED
  BY <1>1, <1>2, <1>3, <1>4, <1>5, <1>6
     DEF WorkerStep, WorkerNext, SkipFile, ReadFileFails, ReadDocFails, CommitFile,
         CommitFileFails, LoadFileFails, CommitFull, FullFails, Fail, NoFaults

LEMMA OtherJob ==
  ASSUME NoFaults, TypeOK, JobInv, WatcherStep \/ Environment \/ WorkerExit
  PROVE  JobInv'
<1>1. CASE WatcherStep
  <2>1. done' => cancelled'
    BY <1>1 DEF WatcherStep, WatcherNext, HandleFile, FirePending, FireOrphan, Callback,
       HandleDir, HandleQueueFile, Send, Abandon, Stop, JobInv
  <2>2. QED
    BY <1>1, <2>1 DEF WatcherStep, workerVars, JobInv
<1>2. ASSUME NEW f \in Files, Edit(f) PROVE JobInv'
  <2>1. \A g \in Files : disk'[g].kind # "oversize"
    BY <1>2 DEF Edit, NoFaults, JobInv, TypeOK, WorkerTypeOK
  <2>2. QED
    BY <1>2, <2>1 DEF Edit, workVars, JobInv
<1>3. CASE MoveDirAway
  <2>1. \A g \in Files : disk'[g].kind # "oversize"
    BY <1>3 DEF MoveDirAway, JobInv
  <2>2. QED
    BY <1>3, <2>1 DEF MoveDirAway, workVars, JobInv
<1>4. CASE MakeDir \/ TouchQueue
  BY <1>4 DEF MakeDir, TouchQueue, workerVars, JobInv
<1>5. CASE Cancel
  BY <1>5 DEF Cancel, workerVars, JobInv
<1>6. CASE WorkerExit
  BY <1>6 DEF WorkerExit, watcherVars, storeVars, JobInv
<1>7. QED
  BY <1>1, <1>2, <1>3, <1>4, <1>5, <1>6 DEF Environment

(* A step of the watcher or of the environment.                            *)
LEMMA OtherStaleness ==
  ASSUME NoFaults, TypeOK, StalenessInv, WatcherStep \/ Environment \/ WorkerExit
  PROVE  SnapshotInv' /\ NoSilentStaleness'
<1> SUFFICES ASSUME ~cancelled', NEW f \in Files, f \notin unseen'
             PROVE  /\ snap'[f].kind # "unread"
                         => snap'[f] = disk'[f] \/ Queued(f)' \/ Queued(Full)'
                    /\ Fresh(f)' \/ Noted(f)' \/ Flagged(f)'
  BY DEF SnapshotInv, NoSilentStaleness, Accounted
<1>2. ~WorkerExit /\ ~Cancel /\ ~cancelled
  BY DEF WorkerExit, Cancel, watcherVars, WatcherStep, WatcherNext, HandleFile, FirePending,
     FireOrphan, Callback, HandleDir, HandleQueueFile, Send, Abandon, Stop, Environment,
     Edit, MakeDir, MoveDirAway, TouchQueue
<1>3. ~done
  BY <1>2 DEF StalenessInv, JobInv
<1>4. \A x \in Requests : Queued(x) => Queued(x)'
  BY <1>2, <1>3, QueuedStays
<1>5. f \notin unseen => /\ snap[f].kind # "unread"
                              => snap[f] = disk[f] \/ Queued(f) \/ Queued(Full)
                         /\ Fresh(f) \/ Noted(f) \/ Flagged(f)
  BY <1>2 DEF StalenessInv, SnapshotInv, NoSilentStaleness, Accounted
<1>6. CASE f \notin unseen /\ UNCHANGED <<disk[f], job, stage, listed, snap, index, errors>>
  <2>1. (WillRead(f) => WillRead(f)') /\ (HasRead(f) => HasRead(f)')
    BY <1>6 DEF WillRead, HasRead
  <2>2. (Fresh(f) => Fresh(f)') /\ (Flagged(f) => Flagged(f)')
    BY <1>6 DEF Fresh, Flagged
  <2>3. QED
    BY <1>4, <1>5, <1>6, <2>1, <2>2, RequestMembers DEF Noted
<1>a. f \in Events /\ Full \in Events /\ events \in Seq(Events)
  BY DEF Events, Requests, TypeOK, WatcherTypeOK
<1>7. CASE Edit(f)
  <2>1. events' = Append(events, f)
    BY <1>7 DEF Edit
  <2>2. Holds(events', f)
    BY <2>1, <1>a, HoldsAppend
  <2>3. Queued(f)'
    BY <2>2 DEF Queued, InWatcher
  <2>4. QED
    BY <2>3 DEF Noted
<1>8. ASSUME NEW g \in Files, g # f, Edit(g)
      PROVE  f \notin unseen /\ UNCHANGED <<disk[f], job, stage, listed, snap, index, errors>>
  BY <1>8 DEF Edit, workVars, storeVars, TypeOK, WorkerTypeOK
<1>9. CASE MoveDirAway
  BY <1>6, <1>9 DEF MoveDirAway, workVars, storeVars, TypeOK, WorkerTypeOK
<1>b. CASE TouchQueue
  <2>1. CASE EventQueueFull
    BY <1>6, <1>b, <2>1 DEF TouchQueue, workerVars
  <2>2. CASE ~EventQueueFull
    <3>1. Holds(events', Full)
      BY <1>a, <1>b, <2>2, HoldsAppend DEF TouchQueue
    <3>2. Queued(Full)'
      BY <3>1 DEF Queued, InWatcher
    <3>3. QED
      BY <3>2 DEF Noted
  <2>3. QED
    BY <2>1, <2>2
<1>c. CASE MakeDir
  BY <1>6, <1>c DEF MakeDir, workerVars
<1>d. CASE WatcherStep
  BY <1>6, <1>d DEF WatcherStep, workerVars, envVars
<1>10. QED
  BY <1>2, <1>6, <1>7, <1>8, <1>9, <1>b, <1>c, <1>d DEF Environment

(* What an index built from a snapshot says.                               *)
LEMMA RowsOfFile ==
  ASSUME NEW d
  PROVE  /\ RowsOf(d).ver = d.ver
         /\ RowsOf(d).rows <=> d.kind \in {"file", "oversize"}
<1>1. RowsOf(d).rows = (d.kind \in {"file", "oversize"})
  BY DEF RowsOf
<1>2. RowsOf(d).ver = d.ver
  BY DEF RowsOf
<1>3. QED
  BY <1>1, <1>2, Zenon

(* A step of the worker: what it stops doing for a file is done, or        *)
(* reported.                                                               *)
LEMMA WorkerStaleness ==
  ASSUME NoFaults, TypeOK, StalenessInv, WorkerStep
  PROVE  SnapshotInv' /\ NoSilentStaleness'
<1> SUFFICES ASSUME ~cancelled', NEW f \in Files \ unseen
             PROVE  /\ snap'[f].kind # "unread"
                         => snap'[f] = disk'[f] \/ Queued(f)' \/ Queued(Full)'
                    /\ Fresh(f)' \/ Noted(f)' \/ Flagged(f)'
  BY DEF SnapshotInv, NoSilentStaleness, Accounted, WorkerStep, envVars
<1> USE DEF TypeOK, WorkerTypeOK
<1>1. f \in Files /\ ~cancelled /\ f \in Requests
  BY RequestMembers DEF WorkerStep, watcherVars
<1>2. UNCHANGED disk
  BY DEF WorkerStep, WorkerNext, Receive, SkipFile, AcceptFile, ReadFile, ReadFileFails,
     ReadDocFails, CommitFile, CommitFileFails, Scan, LoadFile, LoadFileFails, CommitFull,
     FullFails, Fail
<1>3. /\ snap[f].kind # "unread" => snap[f] = disk[f] \/ Queued(f) \/ Queued(Full)
      /\ Fresh(f) \/ Noted(f) \/ Flagged(f)
  BY <1>1 DEF StalenessInv, SnapshotInv, NoSilentStaleness, Accounted
<1>4. JobInv
  BY DEF StalenessInv
<1>5. disk[f].kind \in {"file", "absent"} /\ disk[f] # Unread /\ disk[f] # Unreadable
  BY <1>1, <1>4 DEF JobInv, Disk, Kinds, Unread, Unreadable
<1>6. /\ Queued(f) => Queued(f)' \/ Receive(f)
      /\ Queued(Full) => Queued(Full)' \/ Receive(Full)
  BY <1>1, QueuedByWorker, RequestMembers
<1>7. f # Full /\ f # FullKey /\ "record" \notin Faults /\ GitIgnored = {}
  BY <1>1 DEF NoFaults
<1>8. ASSUME stage # "idle" PROVE (Queued(f) => Queued(f)') /\ (Queued(Full) => Queued(Full)')
  BY <1>6, <1>8 DEF Receive
<1>9. ASSUME Done PROVE snap'[f].kind = "unread"
  BY <1>1, <1>9 DEF Done, Unread
<1>10. ASSUME NEW x \in Requests, Receive(x)
       PROVE  /\ snap'[f].kind # "unread" => snap'[f] = disk'[f] \/ Queued(f)' \/ Queued(Full)'
              /\ Fresh(f)' \/ Noted(f)' \/ Flagged(f)'
  <2>1. snap'[f].kind = "unread"
    BY <1>1, <1>4, <1>10 DEF Receive, JobInv
  <2>2. (Fresh(f) => Fresh(f)') /\ (Flagged(f) => Flagged(f)')
    BY <1>10 DEF Receive, Fresh, Flagged
  <2>3. ~WillRead(f) /\ ~HasRead(f)
    BY <1>10 DEF Receive, WillRead, HasRead
  <2>4. (Receive(f) => WillRead(f)') /\ (Receive(Full) => WillRead(f)')
    BY <1>7 DEF Receive, WillRead
  <2>5. QED
    BY <1>3, <1>6, <2>1, <2>2, <2>3, <2>4 DEF Noted
<1>11. ASSUME NEW g \in Files, AcceptFile(g)
       PROVE  /\ snap'[f].kind # "unread" => snap'[f] = disk'[f] \/ Queued(f)' \/ Queued(Full)'
              /\ Fresh(f)' \/ Noted(f)' \/ Flagged(f)'
  <2>1. snap'[f].kind = "unread"
    BY <1>1, <1>4, <1>11 DEF AcceptFile, JobInv
  <2>2. (Fresh(f) => Fresh(f)') /\ (Flagged(f) => Flagged(f)')
    BY <1>11 DEF AcceptFile, Fresh, Flagged
  <2>3. (WillRead(f) => WillRead(f)') /\ ~HasRead(f)
    BY <1>7, <1>11 DEF AcceptFile, WillRead, HasRead
  <2>4. QED
    BY <1>3, <1>8, <1>11, <2>1, <2>2, <2>3 DEF Noted, AcceptFile
<1>12. ASSUME NEW g \in Files, ReadFile(g)
       PROVE  /\ snap'[f].kind # "unread" => snap'[f] = disk'[f] \/ Queued(f)' \/ Queued(Full)'
              /\ Fresh(f)' \/ Noted(f)' \/ Flagged(f)'
  <2>1. snap'[f] = disk[f] \/ snap'[f] = snap[f]
    BY <1>1, <1>12 DEF ReadFile
  <2>2. (Fresh(f) => Fresh(f)') /\ (Flagged(f) => Flagged(f)')
    BY <1>12 DEF ReadFile, Fresh, Flagged
  <2>3. (WillRead(f) => HasRead(f)') /\ ~HasRead(f)
    BY <1>1, <1>7, <1>12 DEF ReadFile, WillRead, HasRead
  <2>4. QED
    BY <1>2, <1>3, <1>8, <1>12, <2>1, <2>2, <2>3 DEF Noted, ReadFile
<1>13. ASSUME NEW g \in Files, ReadFileFails(g) \/ CommitFileFails(g)
       PROVE  /\ snap'[f].kind # "unread" => snap'[f] = disk'[f] \/ Queued(f)' \/ Queued(Full)'
              /\ Fresh(f)' \/ Noted(f)' \/ Flagged(f)'
  <2>1. snap'[f].kind = "unread"
    BY <1>9, <1>13 DEF ReadFileFails, CommitFileFails, Fail
  <2>2. errors' = errors \cup {g} /\ index' = index
    BY <1>7, <1>13 DEF ReadFileFails, CommitFileFails, Fail
  <2>3. (Fresh(f) => Fresh(f)') /\ (Flagged(f) => Flagged(f)')
    BY <1>2, <2>2 DEF Fresh, Flagged
  <2>4. CASE g = f
    BY <2>1, <2>2, <2>4 DEF Flagged
  <2>5. CASE g # f
    <3>1. ~WillRead(f) /\ ~HasRead(f)
      BY <1>13, <2>5 DEF ReadFileFails, CommitFileFails, WillRead, HasRead
    <3>2. QED
      BY <1>3, <1>8, <1>13, <2>1, <2>3, <3>1 DEF Noted, ReadFileFails, CommitFileFails
  <2>6. QED
    BY <2>4, <2>5
<1>14. ASSUME NEW g \in Files, CommitFile(g)
       PROVE  /\ snap'[f].kind # "unread" => snap'[f] = disk'[f] \/ Queued(f)' \/ Queued(Full)'
              /\ Fresh(f)' \/ Noted(f)' \/ Flagged(f)'
  <2>1. snap'[f].kind = "unread"
    BY <1>9, <1>14 DEF CommitFile
  <2>2. CASE g = f
    <3>1. snap[f].kind \in {"file", "absent"} /\ snap[f] # Unreadable
      BY <1>1, <1>4, <1>14, <2>2 DEF CommitFile, JobInv, Unreadable
    <3>2. index'[f] = RowsOf(snap[f])
      BY <1>1, <1>14, <2>2, <3>1 DEF CommitFile
    <3>3. snap[f] = disk[f] => Fresh(f)'
      BY <1>2, <1>5, <1>7, <3>2, RowsOfFile DEF Fresh
    <3>4. QED
      BY <1>3, <1>8, <1>14, <2>1, <3>1, <3>3 DEF Noted, CommitFile
  <2>3. CASE g # f
    <3>1. ~WillRead(f) /\ ~HasRead(f)
      BY <1>14, <2>3 DEF CommitFile, WillRead, HasRead
    <3>2. index'[f] = index[f]
      BY <1>1, <1>14, <2>3 DEF CommitFile
    <3>3. (Fresh(f) => Fresh(f)') /\ (Flagged(f) => Flagged(f)')
      BY <1>2, <1>14, <2>3, <3>2 DEF CommitFile, Fresh, Flagged
    <3>4. QED
      BY <1>3, <1>8, <1>14, <2>1, <3>1, <3>3 DEF Noted, CommitFile
  <2>4. QED
    BY <2>2, <2>3
<1>15. CASE Scan
  <2>1. listed' = {g \in Files : disk[g].kind = "file"}
    BY <1>7, <1>15 DEF Scan
  <2>2. snap'[f] = IF f \in listed' THEN Unread ELSE disk[f]
    BY <1>1, <1>15 DEF Scan
  <2>3. WillRead(f)' \/ HasRead(f)'
    BY <1>1, <1>2, <1>15, <2>2 DEF Scan, WillRead, HasRead
  <2>4. snap'[f].kind # "unread" => snap'[f] = disk'[f]
    BY <1>2, <2>2 DEF Unread
  <2>5. QED
    BY <2>3, <2>4 DEF Noted
<1>16. ASSUME NEW g \in Files, LoadFile(g)
       PROVE  /\ snap'[f].kind # "unread" => snap'[f] = disk'[f] \/ Queued(f)' \/ Queued(Full)'
              /\ Fresh(f)' \/ Noted(f)' \/ Flagged(f)'
  <2>1. (Fresh(f) => Fresh(f)') /\ (Flagged(f) => Flagged(f)')
    BY <1>16 DEF LoadFile, Fresh, Flagged
  <2>2. CASE g = f
    <3>1. snap'[f] = disk'[f]
      BY <1>1, <1>16, <2>2 DEF LoadFile
    <3>2. HasRead(f)'
      BY <1>16, <3>1 DEF LoadFile, HasRead
    <3>3. QED
      BY <3>1, <3>2 DEF Noted
  <2>3. CASE g # f
    <3>1. snap'[f] = snap[f]
      BY <1>1, <1>16, <2>3 DEF LoadFile
    <3>2. (WillRead(f) => WillRead(f)') /\ (HasRead(f) => HasRead(f)')
      BY <1>16, <3>1 DEF LoadFile, WillRead, HasRead
    <3>3. QED
      BY <1>2, <1>3, <1>8, <1>16, <2>1, <3>1, <3>2 DEF Noted, LoadFile
  <2>4. QED
    BY <2>2, <2>3
<1>17. CASE CommitFull
  <2>1. snap'[f].kind = "unread"
    BY <1>9, <1>17 DEF CommitFull
  <2>2. snap[f].kind \in {"file", "absent"} /\ (f \notin listed => snap[f].kind = "absent")
    BY <1>1, <1>4, <1>17 DEF CommitFull, JobInv, Disk, Kinds, Unreadable
  <2>3. snap[f] # Unreadable
    BY <2>2 DEF Unreadable
  <2>4. /\ index'[f].rows <=> snap[f].kind = "file"
        /\ (snap[f].kind = "file" => index'[f].ver = snap[f].ver)
    <3>1. CASE f \in listed
      <4>1. index'[f] = RowsOf(snap[f])
        BY <1>1, <1>17, <2>3, <3>1 DEF CommitFull
      <4>2. QED
        BY <2>2, <4>1, RowsOfFile
    <3>2. CASE f \notin listed
      <4>1. index'[f] = [ver |-> snap[f].ver, rows |-> FALSE]
        BY <1>1, <1>17, <3>2 DEF CommitFull
      <4>2. ~index'[f].rows
        BY <4>1
      <4>3. snap[f].kind # "file"
        BY <2>2, <3>2
      <4>4. QED
        BY <4>2, <4>3
    <3>3. QED
      BY <3>1, <3>2
  <2>5. snap[f] = disk[f] => Fresh(f)'
    BY <1>2, <1>7, <2>4 DEF Fresh
  <2>6. QED
    BY <1>3, <1>8, <1>17, <2>1, <2>2, <2>5 DEF Noted, CommitFull
<1>18. CASE FullFails
  <2>1. snap'[f].kind = "unread"
    BY <1>9, <1>18 DEF FullFails, Fail
  <2>2. Flagged(f)'
    BY <1>7, <1>18 DEF FullFails, Fail, Flagged
  <2>3. QED
    BY <2>1, <2>2
<1>19. \A g \in Files : ~SkipFile(g) /\ ~ReadDocFails(g) /\ ~LoadFileFails(g)
  BY <1>4 DEF SkipFile, ReadDocFails, LoadFileFails, NoFaults, JobInv
<1>20. QED
  BY <1>10, <1>11, <1>12, <1>13, <1>14, <1>15, <1>16, <1>17, <1>18, <1>19
     DEF WorkerStep, WorkerNext

(* The strengthening holds in every reachable state: what was read is      *)
(* current or a request that outdates it is queued, so a commit can only   *)
(* make a file fresh or leave work for it in the pipeline.                 *)
THEOREM StalenessInvariant == ASSUME NoFaults PROVE Spec => []StalenessInv
<1>1. Init => StalenessInv
  <2> SUFFICES ASSUME Init PROVE StalenessInv
    OBVIOUS
  <2>1. JobInv
    <3>1. \A f \in Files : disk[f].kind # "oversize"
      BY DEF Init, WorkerInit, NoFaults
    <3>2. QED
      BY <3>1 DEF Init, WatcherInit, WorkerInit, JobInv, Unread
  <2>2. SnapshotInv
    BY DEF Init, WorkerInit, SnapshotInv, Unread
  <2>3. NoSilentStaleness
    BY DEF Init, NoSilentStaleness, Accounted
  <2>4. QED
    BY <2>1, <2>2, <2>3 DEF StalenessInv
<1>2. TypeOK /\ StalenessInv /\ [Next]_vars => StalenessInv'
  <2> SUFFICES ASSUME TypeOK, StalenessInv, [Next]_vars PROVE StalenessInv'
    OBVIOUS
  <2>1. CASE WorkerStep
    BY <2>1, NoFaults, WorkerJob, WorkerStaleness DEF StalenessInv
  <2>2. CASE WatcherStep \/ Environment \/ WorkerExit
    BY <2>2, NoFaults, OtherJob, OtherStaleness DEF StalenessInv
  <2>3. CASE UNCHANGED vars
    <3>1. JobInv'
      BY <2>3 DEF vars, watcherVars, workerVars, StalenessInv, JobInv
    <3>2. \A x \in Requests : Queued(x)' <=> Queued(x)
      BY <2>3 DEF vars, watcherVars, Queued, InWatcher
    <3>3. SnapshotInv'
      BY <2>3, <3>2, RequestMembers
         DEF vars, watcherVars, workerVars, envVars, StalenessInv, SnapshotInv
    <3>4. NoSilentStaleness'
      BY <2>3, <3>2, RequestMembers
         DEF vars, watcherVars, workerVars, envVars, StalenessInv, NoSilentStaleness,
             Accounted, Fresh, Noted, Flagged, WillRead, HasRead
    <3>5. QED
      BY <3>1, <3>3, <3>4 DEF StalenessInv
  <2>4. QED
    BY <2>1, <2>2, <2>3 DEF Next
<1>3. QED
  BY <1>1, <1>2, TypeCorrect, PTL DEF Spec

(* For every set of files and every bound, from any disk and database: a   *)
(* file whose last change was reported to the watcher and whose index is   *)
(* out of date is on its way through the pipeline, or in index_errors.     *)
THEOREM StalenessIsNeverSilent == ASSUME NoFaults PROVE Spec => []NoSilentStaleness
<1>1. StalenessInv => NoSilentStaleness
  BY DEF StalenessInv
<1>2. QED
  BY <1>1, StalenessInvariant, PTL

-----------------------------------------------------------------------------
(* The write pipeline implements EventualIndex: an edit that is reported   *)
(* is a Change, one that is not and a move of the directory are a Slip, a  *)
(* write of the queue file is a RequestAll, and every step of the watcher  *)
(* or the worker a Serve.                                                  *)

(* If nobody may cancel, the context stays uncancelled.                    *)
Undisturbed == ~cancelled

LEMMA AlwaysUndisturbed ==
  ASSUME MayCancel = FALSE
  PROVE  Spec => []Undisturbed
<1>1. Init => Undisturbed
  BY DEF Init, WatcherInit, Undisturbed
<1>2. Undisturbed /\ [Next]_vars => Undisturbed'
  <2> SUFFICES ASSUME Undisturbed, [Next]_vars PROVE Undisturbed'
    OBVIOUS
  <2> USE DEF Undisturbed
  <2>1. CASE WatcherStep
    BY <2>1 DEF WatcherStep, WatcherNext, HandleFile, FirePending, FireOrphan, Callback,
       HandleDir, HandleQueueFile, Send, Abandon, Stop
  <2>2. CASE WorkerStep \/ WorkerExit \/ UNCHANGED vars
    BY <2>2 DEF WorkerStep, WorkerExit, vars, watcherVars
  <2>3. CASE Environment
    BY <2>3 DEF Environment, Edit, MakeDir, MoveDirAway, TouchQueue, Cancel
  <2>4. QED
    BY <2>1, <2>2, <2>3 DEF Next
<1>3. QED
  BY <1>1, <1>2, PTL DEF Spec

-----------------------------------------------------------------------------
(* No request comes from nowhere.                                          *)

(* The watcher only hands requests on.                                     *)
LEMMA QueuedBefore ==
  ASSUME TypeOK, WatcherStep, NEW x \in Requests, Queued(x)'
  PROVE  Queued(x)
<1> USE DEF TypeOK, WatcherTypeOK
<1>1. ASSUME NEW e \in Events, NextEvent(e)
      PROVE  Holds(events, e) /\ (Holds(events', x) => Holds(events, x))
  BY <1>1, HoldsTail DEF NextEvent
<1>2. Files \subseteq Events /\ Full \in Events /\ Dir \in Events
  BY DEF Events, Requests
<1>3. ASSUME NEW f \in Files, HandleFile(f) PROVE Queued(x)
  <2>1. x \in Files /\ x # f => pend'[x] = pend[x]
    BY <1>3 DEF HandleFile
  <2>2. QED
    BY <1>1, <1>2, <1>3, <2>1 DEF HandleFile, Queued, InWatcher
<1>4. ASSUME NEW f \in Files, FirePending(f) PROVE Queued(x)
  <2>1. x \in Files /\ x # f => pend'[x] = pend[x] /\ callbacks'[x] = callbacks[x]
    BY <1>4 DEF FirePending, Inc
  <2>2. QED
    BY <1>4, <2>1 DEF FirePending, Queued, InWatcher
<1>5. ASSUME NEW f \in Files, FireOrphan(f) PROVE Queued(x)
  <2>1. x \in Files /\ x # f => orphans'[x] = orphans[x] /\ callbacks'[x] = callbacks[x]
    BY <1>5 DEF FireOrphan, Inc, Dec
  <2>2. QED
    BY <1>5, <2>1 DEF FireOrphan, Queued, InWatcher
<1>6. ASSUME NEW f \in Files, Callback(f) PROVE Queued(x)
  <2>1. x # f => /\ senders'[x] = senders[x]
                 /\ x \in Files => UNCHANGED <<pend[x], orphans[x], callbacks[x]>>
    BY <1>6 DEF Callback, Inc, Dec
  <2>2. QED
    BY <1>6, <2>1 DEF Callback, Queued, InWatcher
<1>7. CASE HandleDir
  BY <1>1, <1>2, <1>7 DEF HandleDir, Queued, InWatcher
<1>8. CASE HandleQueueFile
  <2>1. x # Full => senders'[x] = senders[x]
    BY <1>8 DEF HandleQueueFile, Inc
  <2>2. QED
    BY <1>1, <1>2, <1>8, <2>1 DEF HandleQueueFile, Queued, InWatcher
<1>9. ASSUME NEW y \in Requests, Send(y) PROVE Queued(x)
  <2>1. Holds(ch', x) => Holds(ch, x) \/ x = y
    BY <1>9, HoldsAppend DEF Send, Put
  <2>2. x # y => senders'[x] = senders[x]
    BY <1>9 DEF Send, Dec
  <2>3. QED
    BY <1>9, <2>1, <2>2 DEF Send, Queued, InWatcher
<1>10. ASSUME NEW y \in Requests, Abandon(y) PROVE Queued(x)
  <2>1. x # y => senders'[x] = senders[x]
    BY <1>10 DEF Abandon, Dec
  <2>2. QED
    BY <1>10, <2>1 DEF Abandon, Queued, InWatcher
<1>11. CASE Stop
  BY <1>11 DEF Stop, Queued, InWatcher
<1>12. QED
  BY <1>3, <1>4, <1>5, <1>6, <1>7, <1>8, <1>9, <1>10, <1>11 DEF WatcherStep, WatcherNext

(* The worker only takes requests, and what it takes was there.            *)
LEMMA QueuedBeforeWorker ==
  ASSUME TypeOK, WorkerStep, NEW x \in Requests
  PROVE  (Queued(x)' => Queued(x)) /\ (Receive(x) => Queued(x))
<1>1. ASSUME NEW y \in Requests, Receive(y)
      PROVE  Holds(ch, y) /\ (Holds(ch', x) => Holds(ch, x))
  BY <1>1, HoldsTail DEF Receive, Get, TypeOK
<1>2. CASE \E y \in Requests : Receive(y)
  BY <1>1, <1>2 DEF WorkerStep, watcherVars, Queued, InWatcher
<1>3. CASE ch' = ch /\ ~Receive(x)
  BY <1>3 DEF WorkerStep, watcherVars, Queued, InWatcher
<1>4. QED
  BY <1>2, <1>3 DEF WorkerStep, WorkerNext, SkipFile, AcceptFile, ReadFile, ReadFileFails,
     ReadDocFails, CommitFile, CommitFileFails, Scan, LoadFile, LoadFileFails, CommitFull,
     FullFails, Fail

-----------------------------------------------------------------------------
(* Steps of the pipeline are steps of serving.                             *)

(* Serve, file by file.                                                    *)
LEMMA ServedByFile ==
  ASSUME UNCHANGED unseen,
         \A f \in Files :
           /\ Noted(f)' => Noted(f)
           /\ f \notin unseen => /\ Fresh(f) => Fresh(f)' \/ Noted(f)
                                 /\ Flagged(f) => Flagged(f)' \/ Noted(f)
                                 /\ Fresh(f)' \/ Noted(f)' \/ Flagged(f)'
  PROVE  Promise!Serve
BY DEF Promise!Serve, Promise!Honest, Stale, Owed, FlaggedFiles

LEMMA WatcherServes ==
  ASSUME TypeOK, StalenessInv', Undisturbed', WatcherStep
  PROVE  Promise!Serve
<1>a. UNCHANGED unseen
  BY DEF WatcherStep, envVars
<1>1. ASSUME NEW f \in Files
      PROVE  /\ Noted(f)' => Noted(f)
             /\ f \notin unseen => /\ Fresh(f) => Fresh(f)' \/ Noted(f)
                                   /\ Flagged(f) => Flagged(f)' \/ Noted(f)
                                   /\ Fresh(f)' \/ Noted(f)' \/ Flagged(f)'
  <2>1. UNCHANGED <<disk, job, stage, listed, snap, index, errors>>
    BY DEF WatcherStep, workerVars
  <2>2. (Queued(f)' => Queued(f)) /\ (Queued(Full)' => Queued(Full))
    BY QueuedBefore, RequestMembers
  <2>3. (WillRead(f)' => WillRead(f)) /\ (HasRead(f)' => HasRead(f))
    BY <2>1 DEF WillRead, HasRead
  <2>4. (Fresh(f) => Fresh(f)') /\ (Flagged(f) => Flagged(f)')
    BY <2>1 DEF Fresh, Flagged
  <2>5. f \notin unseen => Fresh(f)' \/ Noted(f)' \/ Flagged(f)'
    BY <1>a DEF StalenessInv, NoSilentStaleness, Accounted, Undisturbed
  <2>6. QED
    BY <2>2, <2>3, <2>4, <2>5 DEF Noted
<1>2. QED
  BY <1>a, <1>1, ServedByFile

(* A file the worker is about to commit is owed: it is current, or a       *)
(* request for its newer version is queued.                                *)
LEMMA ReadIsNoted ==
  ASSUME TypeOK, StalenessInv, Undisturbed, NEW f \in Files \ unseen,
         (job = f /\ stage = "write") \/ (job = Full /\ stage = "load")
  PROVE  Noted(f)
<1>1. snap[f].kind = "unread" \/ snap[f] = disk[f] \/ Queued(f) \/ Queued(Full)
  BY DEF StalenessInv, SnapshotInv, Undisturbed
<1>2. CASE snap[f] = disk[f] \/ Queued(f) \/ Queued(Full)
  BY <1>2 DEF Noted, HasRead
<1>3. CASE snap[f].kind = "unread"
  <2>1. job = Full /\ stage = "load" /\ f \in listed
    BY <1>3 DEF StalenessInv, JobInv
  <2>2. snap[f] = Unread
    <3>1. snap[f] \in Disk \cup {Unread, Unreadable}
      BY DEF TypeOK, WorkerTypeOK
    <3>2. \A d \in Disk : d.kind # "unread"
      BY DEF Disk, Kinds
    <3>3. Unreadable.kind # "unread"
      BY DEF Unreadable
    <3>4. QED
      BY <1>3, <3>1, <3>2, <3>3
  <2>3. QED
    BY <2>1, <2>2 DEF Noted, WillRead
<1>4. QED
  BY <1>1, <1>2, <1>3

LEMMA WorkerServes ==
  ASSUME NoFaults, TypeOK, StalenessInv, StalenessInv', Undisturbed, Undisturbed',
         WorkerStep
  PROVE  Promise!Serve
<1> SUFFICES ASSUME NEW f \in Files
             PROVE  /\ Noted(f)' => Noted(f)
                    /\ f \notin unseen => /\ Fresh(f) => Fresh(f)' \/ Noted(f)
                                          /\ Flagged(f) => Flagged(f)' \/ Noted(f)
                                          /\ Fresh(f)' \/ Noted(f)' \/ Flagged(f)'
  BY ServedByFile DEF WorkerStep, envVars
<1>1. f \notin unseen => Fresh(f)' \/ Noted(f)' \/ Flagged(f)'
  BY DEF StalenessInv, NoSilentStaleness, Accounted, Undisturbed, WorkerStep, envVars
<1>2. UNCHANGED disk
  BY DEF WorkerStep, WorkerNext, Receive, SkipFile, AcceptFile, ReadFile, ReadFileFails,
     ReadDocFails, CommitFile, CommitFileFails, Scan, LoadFile, LoadFileFails, CommitFull,
     FullFails, Fail
<1>3. f # Full /\ f # FullKey /\ f \in Requests
  BY FullAssumption, WorkerAssumption, RequestMembers
<1>4. /\ Queued(f)' => Queued(f)
      /\ Queued(Full)' => Queued(Full)
      /\ Receive(f) => Queued(f)
      /\ Receive(Full) => Queued(Full)
  BY QueuedBeforeWorker, RequestMembers
<1>5. ASSUME UNCHANGED <<index, errors>>
      PROVE  (Fresh(f) => Fresh(f)') /\ (Flagged(f) => Flagged(f)')
  BY <1>2, <1>5 DEF Fresh, Flagged
<1>6. ASSUME Done PROVE ~WillRead(f)' /\ ~HasRead(f)'
  BY <1>6 DEF Done, WillRead, HasRead
<1>7. ASSUME NEW key, Fail(key) PROVE Fresh(f) => Fresh(f)'
  BY <1>2, <1>7 DEF Fail, Fresh
<1>8. ASSUME NEW key, Fail(key) PROVE Flagged(f) => Flagged(f)'
  BY <1>8 DEF Fail, Flagged
<1>9. ASSUME NEW x \in Requests, Receive(x) PROVE Noted(f)' => Noted(f)
  <2>1. ~HasRead(f)' /\ (WillRead(f)' => x = f \/ x = Full)
    BY <1>9 DEF Receive, WillRead, HasRead
  <2>2. QED
    BY <1>4, <1>9, <2>1 DEF Noted
<1>10. ASSUME NEW g \in Files, AcceptFile(g) PROVE Noted(f)' => Noted(f)
  <2>1. ~HasRead(f)' /\ (WillRead(f)' => WillRead(f))
    BY <1>3, <1>10 DEF AcceptFile, WillRead, HasRead
  <2>2. QED
    BY <1>4, <2>1 DEF Noted
<1>11. ASSUME NEW g \in Files, ReadFile(g) PROVE Noted(f)' => Noted(f)
  <2>1. ~WillRead(f)' /\ (HasRead(f)' => WillRead(f))
    BY <1>3, <1>11 DEF ReadFile, WillRead, HasRead
  <2>2. QED
    BY <1>4, <2>1 DEF Noted
<1>12. CASE Scan
  <2>1. WillRead(f)
    BY <1>12 DEF Scan, WillRead
  <2>2. QED
    BY <1>1, <1>5, <1>12, <2>1 DEF Noted, Scan
<1>13. ASSUME NEW g \in Files, LoadFile(g) PROVE Noted(f)' => Noted(f)
  <2>1. (WillRead(f)' => WillRead(f)) /\ (HasRead(f)' => HasRead(f) \/ WillRead(f))
    BY <1>2, <1>3, <1>13 DEF LoadFile, WillRead, HasRead, TypeOK, WorkerTypeOK
  <2>2. QED
    BY <1>4, <2>1 DEF Noted
<1>14. ASSUME NEW g \in Files, CommitFile(g)
       PROVE  /\ Noted(f)' => Noted(f)
              /\ f \notin unseen => /\ Fresh(f) => Fresh(f)' \/ Noted(f)
                                    /\ Flagged(f) => Flagged(f)' \/ Noted(f)
  <2>1. Noted(f)' => Noted(f)
    BY <1>4, <1>6, <1>14 DEF Noted, CommitFile
  <2>2. CASE g = f
    BY <1>14, <2>1, <2>2, ReadIsNoted DEF CommitFile
  <2>3. CASE g # f
    <3>1. index'[f] = index[f]
      BY <1>14, <2>3 DEF CommitFile, TypeOK, WorkerTypeOK
    <3>2. (Fresh(f) => Fresh(f)') /\ (Flagged(f) => Flagged(f)')
      BY <1>2, <1>14, <2>3, <3>1, WorkerAssumption DEF CommitFile, Fresh, Flagged
    <3>3. QED
      BY <2>1, <3>2
  <2>4. QED
    BY <2>2, <2>3
<1>15. ASSUME CommitFull
       PROVE  /\ Noted(f)' => Noted(f)
              /\ f \notin unseen => Noted(f)
  <2>1. Noted(f)' => Noted(f)
    BY <1>4, <1>6, <1>15 DEF Noted, CommitFull
  <2>2. QED
    BY <1>15, <2>1, ReadIsNoted DEF CommitFull
<1>16. ASSUME NEW key, Fail(key) PROVE Noted(f)' => Noted(f)
  BY <1>4, <1>6, <1>16 DEF Noted, Fail
<1>17. \A g \in Files : ~SkipFile(g) /\ ~ReadDocFails(g) /\ ~LoadFileFails(g)
  BY DEF SkipFile, ReadDocFails, LoadFileFails, NoFaults, StalenessInv, JobInv
<1>18. QED
  <2>1. CASE \E x \in Requests : Receive(x)
    BY <1>1, <1>5, <1>9, <2>1 DEF Receive
  <2>2. CASE \E g \in Files : AcceptFile(g) \/ ReadFile(g) \/ LoadFile(g)
    BY <1>1, <1>5, <1>10, <1>11, <1>13, <2>2 DEF AcceptFile, ReadFile, LoadFile
  <2>3. CASE FullFails \/ \E g \in Files : ReadFileFails(g) \/ CommitFileFails(g)
    BY <1>1, <1>7, <1>8, <1>16, <2>3 DEF FullFails, ReadFileFails, CommitFileFails
  <2>4. CASE Scan \/ CommitFull \/ \E g \in Files : CommitFile(g)
    BY <1>1, <1>12, <1>14, <1>15, <2>4
  <2>5. QED
    BY <1>17, <2>1, <2>2, <2>3, <2>4 DEF WorkerStep, WorkerNext

-----------------------------------------------------------------------------
(* Steps of the environment.                                               *)

LEMMA EditChanges ==
  ASSUME TypeOK, NEW g \in Files, Edit(g), Reported(g)
  PROVE  Promise!Change(g)
<1>1. events' = Append(events, g)
  BY DEF Edit
<1>2. \A x \in Requests : Holds(events', x) <=> Holds(events, x) \/ x = g
  <2>1. g \in Events /\ events \in Seq(Events)
    BY DEF Events, Requests, TypeOK, WatcherTypeOK
  <2>2. QED
    BY <1>1, <2>1, HoldsAppend
<1>3. \A x \in Requests : Queued(x)' <=> Queued(x) \/ x = g
  BY <1>2 DEF Edit, Queued, InWatcher
<1>4. UNCHANGED <<job, stage, listed, snap, index, errors>>
  BY DEF Edit, workVars, storeVars
<1>5. ASSUME NEW f \in Files, f # g
      PROVE  (Noted(f)' <=> Noted(f)) /\ (Fresh(f)' <=> Fresh(f))
  <2>1. disk'[f] = disk[f]
    BY <1>5 DEF Edit, TypeOK, WorkerTypeOK
  <2>2. (WillRead(f)' <=> WillRead(f)) /\ (HasRead(f)' <=> HasRead(f))
    BY <1>4, <2>1 DEF WillRead, HasRead
  <2>3. (Queued(f)' <=> Queued(f)) /\ (Queued(Full)' <=> Queued(Full))
    BY <1>3, <1>5, FullAssumption, RequestMembers
  <2>4. Fresh(f)' <=> Fresh(f)
    BY <1>4, <2>1 DEF Fresh
  <2>5. QED
    BY <2>2, <2>3, <2>4 DEF Noted
<1>6. Noted(g)'
  BY <1>3, RequestMembers DEF Noted
<1>7. Owed' = Owed \cup {g}
  BY <1>5, <1>6 DEF Owed
<1>8. Stale \ {g} \subseteq Stale' /\ Stale' \subseteq Stale \cup {g}
  BY <1>5 DEF Stale
<1>9. FlaggedFiles' = FlaggedFiles
  BY <1>4 DEF FlaggedFiles, Flagged
<1>10. QED
  BY <1>7, <1>8, <1>9 DEF Promise!Change, Edit

(* A change that goes unreported: no request comes or goes, and what has   *)
(* been read of the changed files is no longer what they hold.             *)
LEMMA ChangeSlips ==
  ASSUME NEW S \in SUBSET Files,
         UNCHANGED <<ch, events, pend, orphans, callbacks, senders,
                     job, stage, listed, snap, index, errors>>,
         \A f \in Files \ S : disk'[f] = disk[f],
         \A f \in S : snap[f] # disk'[f],
         unseen' = unseen \cup S
  PROVE  Promise!Slip(S)
<1>1. \A x \in Requests : Queued(x)' <=> Queued(x)
  BY DEF Queued, InWatcher
<1>2. ASSUME NEW f \in Files
      PROVE  (Noted(f)' => Noted(f)) /\ (f \notin S => (Noted(f)' <=> Noted(f)))
  <2>1. (WillRead(f)' <=> WillRead(f)) /\ (HasRead(f)' => HasRead(f))
    BY DEF WillRead, HasRead
  <2>2. f \notin S => (HasRead(f)' <=> HasRead(f))
    BY DEF HasRead
  <2>3. (Queued(f)' <=> Queued(f)) /\ (Queued(Full)' <=> Queued(Full))
    BY <1>1, RequestMembers
  <2>4. QED
    BY <2>1, <2>2, <2>3 DEF Noted
<1>3. Owed' \subseteq Owed /\ Owed \ Owed' \subseteq S
  BY <1>2 DEF Owed
<1>4. Stale \ S \subseteq Stale' /\ Stale' \subseteq Stale \cup S
  BY DEF Stale, Fresh
<1>5. FlaggedFiles' = FlaggedFiles
  BY DEF FlaggedFiles, Flagged
<1>6. QED
  BY <1>3, <1>4, <1>5 DEF Promise!Slip

(* Versions only grow, so nothing that was read equals a later content.    *)
LEMMA NewerIsUnread ==
  ASSUME TypeOK, VersionInv, NEW f \in Files, disk'[f].ver = disk[f].ver + 1,
         disk'[f].kind \in Kinds
  PROVE  snap[f] # disk'[f]
<1>1. disk[f].ver \in Nat
  BY DEF TypeOK, WorkerTypeOK, Disk
<1>2. snap[f].kind \in Kinds => snap[f].ver <= disk[f].ver /\ snap[f].ver \in Nat
  BY DEF VersionInv, TypeOK, WorkerTypeOK, Disk, Unread, Unreadable, Kinds
<1>3. QED
  BY <1>1, <1>2

LEMMA EditSlips ==
  ASSUME TypeOK, VersionInv, NEW g \in Files, Edit(g), ~Reported(g)
  PROVE  Promise!Slip({g})
<1>1. disk'[g].ver = disk[g].ver + 1 /\ disk'[g].kind \in Kinds
  BY DEF Edit, TypeOK, WorkerTypeOK
<1>2. \A f \in Files \ {g} : disk'[f] = disk[f]
  BY DEF Edit, TypeOK, WorkerTypeOK
<1>3. UNCHANGED <<ch, events, pend, orphans, callbacks, senders,
                  job, stage, listed, snap, index, errors>>
  BY DEF Edit, workVars, storeVars
<1>4. unseen' = unseen \cup {g}
  BY DEF Edit
<1>5. QED
  BY <1>1, <1>2, <1>3, <1>4, NewerIsUnread, ChangeSlips

LEMMA MoveSlips ==
  ASSUME TypeOK, VersionInv, MoveDirAway
  PROVE  Promise!Slip({f \in Nested : disk[f].kind # "absent"})
<1> DEFINE S == {f \in Nested : disk[f].kind # "absent"}
<1>1. S \in SUBSET Files
  BY EnvAssumption
<1>2. \A f \in S : disk'[f].ver = disk[f].ver + 1 /\ disk'[f].kind \in Kinds
  BY <1>1 DEF MoveDirAway, Kinds
<1>3. \A f \in Files \ S : disk'[f] = disk[f]
  BY DEF MoveDirAway
<1>4. \A f \in S : snap[f] # disk'[f]
  BY <1>1, <1>2, NewerIsUnread
<1>5. UNCHANGED <<ch, events, pend, orphans, callbacks, senders,
                  job, stage, listed, snap, index, errors>>
  BY DEF MoveDirAway, workVars, storeVars
<1>6. unseen' = unseen \cup S
  BY DEF MoveDirAway
<1> HIDE DEF S
<1>7. Promise!Slip(S)
  BY <1>1, <1>3, <1>4, <1>5, <1>6, ChangeSlips
<1>8. QED
  BY <1>7 DEF S

LEMMA TouchRequestsAll ==
  ASSUME TypeOK, TouchQueue, ~EventQueueFull
  PROVE  Promise!RequestAll
<1>1. events' = Append(events, Full)
  BY DEF TouchQueue
<1>2. Holds(events', Full)
  <2>1. Full \in Events /\ events \in Seq(Events)
    BY DEF Events, Requests, TypeOK, WatcherTypeOK
  <2>2. QED
    BY <1>1, <2>1, HoldsAppend
<1>3. Queued(Full)'
  BY <1>2 DEF Queued, InWatcher
<1>4. Owed' = Files
  BY <1>3 DEF Owed, Noted
<1>5. Stale' = Stale /\ FlaggedFiles' = FlaggedFiles
  BY DEF TouchQueue, workerVars, Stale, FlaggedFiles, Fresh, Flagged
<1>6. QED
  BY <1>4, <1>5 DEF Promise!RequestAll, TouchQueue

(* With no fault but a full event queue, and no cancellation, what a       *)
(* reader of the index may rely on is EventualIndex and nothing less: from *)
(* any disk and database, every behaviour of watcher, channel and worker   *)
(* is a behaviour of it.                                                   *)
THEOREM PipelineKeepsPromise ==
  ASSUME NoFaults, MayCancel = FALSE
  PROVE  Spec => KeepsPromise
<1>1. Init => Promise!Init
  <2> SUFFICES ASSUME Init PROVE Promise!Init
    OBVIOUS
  <2>1. unseen = Stale
    BY DEF Init, Stale
  <2>2. \A x \in Requests : ~Queued(x)
    BY DEF Init, ChannelInit, WatcherInit, Queued, InWatcher, Holds
  <2>3. \A f \in Files : ~WillRead(f) /\ ~HasRead(f)
    BY DEF Init, WorkerInit, WillRead, HasRead
  <2>4. \A f \in Files : ~Noted(f)
    BY <2>2, <2>3, RequestMembers DEF Noted
  <2>5. QED
    BY <2>1, <2>4 DEF Promise!Init, Promise!Honest, Stale, Owed, FlaggedFiles
<1>2. /\ TypeOK /\ VersionInv /\ StalenessInv /\ StalenessInv'
      /\ Undisturbed /\ Undisturbed' /\ [Next]_vars
      => [Promise!Next]_(Promise!vars)
  <2> SUFFICES ASSUME TypeOK, VersionInv, StalenessInv, StalenessInv', Undisturbed,
                      Undisturbed', [Next]_vars
               PROVE  [Promise!Next]_(Promise!vars)
    OBVIOUS
  <2>1. CASE WatcherStep
    BY <2>1, WatcherServes DEF Promise!Next
  <2>2. CASE WorkerStep
    BY <2>2, NoFaults, WorkerServes DEF Promise!Next
  <2>3. ASSUME NEW f \in Files, Edit(f) PROVE Promise!Next
    BY <2>3, EditChanges, EditSlips DEF Promise!Next
  <2>4. CASE MoveDirAway
    <3>1. {f \in Nested : disk[f].kind # "absent"} \in SUBSET Files
      BY EnvAssumption
    <3>2. QED
      BY <2>4, <3>1, MoveSlips DEF Promise!Next
  <2>5. CASE TouchQueue /\ ~EventQueueFull
    BY <2>5, TouchRequestsAll DEF Promise!Next
  <2>6. CASE Cancel \/ WorkerExit
    BY <2>6 DEF Cancel, WorkerExit, Undisturbed
  <2>7. CASE \/ UNCHANGED vars
             \/ MakeDir
             \/ TouchQueue /\ EventQueueFull
    <3>1. UNCHANGED <<ch, pend, orphans, callbacks, senders, unseen,
                      disk, job, stage, listed, snap, index, errors>>
      BY <2>7 DEF vars, watcherVars, workerVars, envVars, MakeDir, TouchQueue
    <3>2. \A x \in Requests : Holds(events', x) <=> Holds(events, x)
      <4>1. CASE events' = events
        BY <4>1
      <4>2. CASE events' = Append(events, Dir)
        <5>1. Dir \in Events /\ events \in Seq(Events) /\ Dir \notin Requests
          BY DEF Events, Requests, TypeOK, WatcherTypeOK
        <5>2. QED
          BY <4>2, <5>1, HoldsAppend
      <4>3. QED
        BY <2>7, <4>1, <4>2 DEF vars, watcherVars, MakeDir, TouchQueue
    <3>3. \A x \in Requests : Queued(x)' <=> Queued(x)
      BY <3>1, <3>2 DEF Queued, InWatcher
    <3>4. \A f \in Files : /\ Fresh(f)' <=> Fresh(f)
                           /\ Flagged(f)' <=> Flagged(f)
                           /\ Noted(f)' <=> Noted(f)
      BY <3>1, <3>3, RequestMembers DEF Fresh, Flagged, Noted, WillRead, HasRead
    <3>5. QED
      BY <3>1, <3>4 DEF Promise!vars, Stale, Owed, FlaggedFiles
  <2>8. QED
    BY <2>1, <2>2, <2>3, <2>4, <2>5, <2>6, <2>7 DEF Next, Environment
<1>3. QED
  BY <1>1, <1>2, TypeCorrect, VersionsOrdered, StalenessInvariant, AlwaysUndisturbed, PTL
     DEF Spec, KeepsPromise, Promise!Spec
=============================================================================
