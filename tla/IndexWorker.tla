----------------------------- MODULE IndexWorker -----------------------------
(***************************************************************************)
(* internal/indexer RunWorker: the one goroutine that takes requests from  *)
(* the channel and brings the index database up to date, and the           *)
(* index_errors table in which it reports what it could not index.         *)
(*                                                                         *)
(* This module abstracts what a row says: index[f] names the version of    *)
(* file f whose rows the database holds.  A request is not one step: the   *)
(* size check, the read of the file and the commit are separated by        *)
(* everything other goroutines and editors do meanwhile.                   *)
(***************************************************************************)
EXTENDS ReindexChannel

CONSTANTS
  Docs,        \* files indexed as plain text (IndexDocFile)
  GitIgnored,  \* files .gitignore hides from Scan; RunWorker does not consult it
  FullKey,     \* the "<full-index>" key of index_errors
  Faults,      \* the faults the environment may inject, see FaultKinds
  MaxFails     \* bound: how many requests may fail

(* read:   a file that exists cannot be read or parsed                     *)
(* record: the database is locked when the worker records a failure        *)
FaultKinds == {"read", "record", "overflow", "oversize"}

ASSUME WorkerAssumption ==
  /\ Docs \subseteq Files
  /\ GitIgnored \subseteq Files
  /\ FullKey \notin Files
  /\ Faults \subseteq FaultKinds
  /\ MaxFails \in Nat

VARIABLES
  disk,    \* per file, its version and whether it is a file, oversize or absent
  job,     \* the request being served, or "none"
  stage,   \* how far the worker is with it
  listed,  \* full reindex: the files Scan returned
  snap,    \* per file, what the worker has read
  index,   \* per file, the version the database holds, and whether it has rows
  errors,  \* the keys of index_errors
  fails    \* how many requests have failed

workVars == <<job, stage, listed, snap>>
storeVars == <<index, errors, fails>>
workerVars == <<disk, job, stage, listed, snap, index, errors, fails>>

Kinds == {"file", "oversize", "absent"}
Disk == [ver : Nat, kind : Kinds]
Unread == [ver |-> 0, kind |-> "unread"]
Unreadable == [ver |-> 0, kind |-> "unreadable"]
Stages == {"idle", "check", "read", "write", "scan", "load", "exited"}

(* The server starts on the disk and the database it finds, with no index  *)
(* run of its own: what an earlier process left may be current (version 2) *)
(* or outdated (version 1), with the failures that process recorded.       *)
WorkerInit ==
  /\ disk \in [Files -> [ver : {2}, kind : {k \in Kinds : k = "oversize" => k \in Faults}]]
  /\ job = "none"
  /\ stage = "idle"
  /\ listed = {}
  /\ snap = [f \in Files |-> Unread]
  /\ index \in [Files -> [ver : 1..2, rows : BOOLEAN]]
  /\ \A f \in Files : index[f] = [ver |-> 2, rows |-> TRUE] => disk[f].kind # "absent"
  /\ errors \in SUBSET (Files \cup {FullKey})
  /\ fails = 0

(* The version an index built from d records, and whether d yields rows.   *)
(* The size is checked before the file is read: a file read whole is       *)
(* indexed whole, oversize or not.                                         *)
RowsOf(d) == [ver |-> d.ver, rows |-> d.kind \in {"file", "oversize"}]

Done == /\ job' = "none"
        /\ stage' = "idle"
        /\ listed' = {}
        /\ snap' = [f \in Files |-> Unread]

(* Mutants of Fail: the failure goes unreported; the worker gives up.      *)
FailSilently(key) ==
  /\ fails < MaxFails
  /\ fails' = fails + 1
  /\ Done
  /\ UNCHANGED <<disk, index, errors, ch>>

FailAndExit(key) ==
  /\ fails < MaxFails
  /\ fails' = fails + 1
  /\ errors' = errors \cup {key}
  /\ job' = "none"
  /\ stage' = "exited"
  /\ listed' = {}
  /\ snap' = [f \in Files |-> Unread]
  /\ UNCHANGED <<disk, index, ch>>

(* Report a failure under key and go on to the next request.  The Exec     *)
(* that records it discards its own error.                                 *)
Fail(key) ==
  /\ fails < MaxFails
  /\ fails' = fails + 1
  /\ \/ errors' = errors \cup {key}
     \/ /\ "record" \in Faults
        /\ errors' = errors
  /\ Done
  /\ UNCHANGED <<disk, index, ch>>

Receive(x) ==
  /\ stage = "idle"
  /\ Get(x)
  /\ job' = x
  /\ stage' = IF x = Full THEN "scan" ELSE "check"
  /\ UNCHANGED <<disk, listed, snap, index, errors, fails>>

(* skipsFile: a file over the size limit is dropped here, rows untouched.  *)
SkipFile(f) ==
  /\ job = f
  /\ stage = "check"
  /\ disk[f].kind = "oversize"
  /\ Done
  /\ UNCHANGED <<disk, index, errors, fails, ch>>

AcceptFile(f) ==
  /\ job = f
  /\ stage = "check"
  /\ disk[f].kind # "oversize"
  /\ stage' = "read"
  /\ UNCHANGED <<disk, job, listed, snap, index, errors, fails, ch>>

(* Mutant of ReadFile: what the file holds is not looked at.               *)
ReadFileBlind(f) ==
  /\ job = f
  /\ stage = "read"
  /\ stage' = "write"
  /\ UNCHANGED <<disk, job, listed, snap, index, errors, fails, ch>>

(* IndexFile and IndexDocFile: a file that is gone is a deletion.          *)
ReadFile(f) ==
  /\ job = f
  /\ stage = "read"
  /\ snap' = [snap EXCEPT ![f] = disk[f]]
  /\ stage' = "write"
  /\ UNCHANGED <<disk, job, listed, index, errors, fails, ch>>

(* Any other read error, or a parse error, fails the request...            *)
ReadFileFails(f) ==
  /\ job = f
  /\ f \notin Docs
  /\ stage = "read"
  /\ Fail(f)

(* ... except that a document that cannot be read loses its row instead.   *)
ReadDocFails(f) ==
  /\ job = f
  /\ f \in Docs
  /\ "read" \in Faults
  /\ stage = "read"
  /\ snap' = [snap EXCEPT ![f] = Unreadable]
  /\ stage' = "write"
  /\ UNCHANGED <<disk, job, listed, index, errors, fails, ch>>

(* Mutant of CommitFile: a success clears the failures of other files too. *)
CommitFileClearingAll(f) ==
  /\ job = f
  /\ stage = "write"
  /\ index' = [index EXCEPT ![f] = RowsOf(snap[f])]
  /\ errors' = {}
  /\ Done
  /\ UNCHANGED <<disk, fails, ch>>

(* The transaction replaces the file's rows; the failure entry goes.       *)
CommitFile(f) ==
  /\ job = f
  /\ stage = "write"
  /\ index' = [index EXCEPT ![f] = IF snap[f] = Unreadable
                                   THEN [@ EXCEPT !.rows = FALSE]
                                   ELSE RowsOf(snap[f])]
  /\ errors' = errors \ {f}
  /\ Done
  /\ UNCHANGED <<disk, fails, ch>>

(* A database error, or a failed commit, rolls the transaction back.       *)
CommitFileFails(f) ==
  /\ job = f
  /\ stage = "write"
  /\ Fail(f)

(* Index: Scan lists the files whose size and name pass ...                *)
Scan ==
  /\ job = Full
  /\ stage = "scan"
  /\ listed' = {f \in Files \ GitIgnored : disk[f].kind = "file"}
  /\ snap' = [f \in Files |-> IF f \in listed' THEN Unread ELSE disk[f]]
  /\ stage' = "load"
  /\ UNCHANGED <<disk, job, index, errors, fails, ch>>

(* ... the parse pool reads each of them, in any order; a file that has    *)
(* been deleted since yields nothing ...                                   *)
LoadFile(f) ==
  /\ job = Full
  /\ stage = "load"
  /\ f \in listed
  /\ snap[f] = Unread
  /\ snap' = [snap EXCEPT ![f] = disk[f]]
  /\ UNCHANGED <<disk, job, stage, listed, index, errors, fails, ch>>

(* ... and one that cannot be read or parsed is skipped ...                *)
LoadFileFails(f) ==
  /\ "read" \in Faults
  /\ job = Full
  /\ stage = "load"
  /\ f \in listed
  /\ snap[f] = Unread
  /\ snap' = [snap EXCEPT ![f] = Unreadable]
  /\ UNCHANGED <<disk, job, stage, listed, index, errors, fails, ch>>

(* Mutant of CommitFull: the parse pool is not waited for.                 *)
CommitFullEarly ==
  /\ job = Full
  /\ stage = "load"
  /\ index' = [f \in Files |->
                 IF f \in listed
                 THEN RowsOf(snap[f])
                 ELSE [ver |-> snap[f].ver, rows |-> FALSE]]
  /\ errors' = {}
  /\ Done
  /\ UNCHANGED <<disk, fails, ch>>

(* ... then the transaction replaces every row and RunWorker clears every  *)
(* recorded failure.                                                       *)
CommitFull ==
  /\ job = Full
  /\ stage = "load"
  /\ \A f \in listed : snap[f] # Unread
  /\ index' = [f \in Files |->
                 IF f \in listed /\ snap[f] # Unreadable
                 THEN RowsOf(snap[f])
                 ELSE [ver |-> IF f \in listed THEN index[f].ver ELSE snap[f].ver,
                       rows |-> FALSE]]
  /\ errors' = {}
  /\ Done
  /\ UNCHANGED <<disk, fails, ch>>

(* Scan, a database error or the cancelled context ends it early.          *)
FullFails ==
  /\ job = Full
  /\ stage \in {"scan", "load"}
  /\ Fail(FullKey)

WorkerNext ==
  \/ \E x \in Requests : Receive(x)
  \/ \E f \in Files :
       \/ SkipFile(f) \/ AcceptFile(f)
       \/ ReadFile(f) \/ ReadFileFails(f) \/ ReadDocFails(f)
       \/ CommitFile(f) \/ CommitFileFails(f)
       \/ LoadFile(f) \/ LoadFileFails(f)
  \/ Scan \/ CommitFull \/ FullFails

WorkerTypeOK ==
  /\ disk \in [Files -> Disk]
  /\ job \in Requests \cup {"none"}
  /\ stage \in Stages
  /\ listed \in SUBSET Files
  /\ snap \in [Files -> Disk \cup {Unread, Unreadable}]
  /\ index \in [Files -> [ver : Nat, rows : BOOLEAN]]
  /\ errors \in SUBSET (Files \cup {FullKey})
  /\ fails \in Nat

(* What an index of the current disk would hold for f.                     *)
Fresh(f) ==
  LET wanted == disk[f].kind = "file" /\ f \notin GitIgnored
  IN  /\ index[f].rows <=> wanted
      /\ wanted => index[f].ver = disk[f].ver

(* index_errors says that f may be out of date.                            *)
Flagged(f) == f \in errors \/ FullKey \in errors
=============================================================================
