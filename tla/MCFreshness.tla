---------------------------- MODULE MCFreshness ----------------------------
(***************************************************************************)
(* Model checking Freshness: the constants come from the .cfg files.  This *)
(* module adds starts with less of a past, and what the documentation says *)
(* of situations in which the watcher is told nothing (checked by the      *)
(* configurations that README calls further).                              *)
(***************************************************************************)
EXTENDS Freshness

(* The server was down: a file may have changed, come or gone meanwhile,   *)
(* and nothing is flagged.  Directories are watched, and the one that      *)
(* comes and goes holds nothing new.                                       *)
RestartInit ==
  /\ Init
  /\ subdir # "unwatched"
  /\ errors = {}
  /\ unseen \cap Nested = {}

RestartSpec == RestartInit /\ [][Next]_vars

(* The server starts on an index that is current and healthy, and watches  *)
(* every directory there is.                                               *)
CleanInit ==
  /\ Init
  /\ subdir # "unwatched"
  /\ unseen = {}
  /\ errors = {}
  /\ \A f \in Files : index[f].ver = disk[f].ver

CleanSpec == CleanInit /\ [][Next]_vars

CleanFairSpec == CleanSpec /\ Fairness

(* docs/PIPELINE.md: "newly-created folders are covered without a restart".*)
(* Once handle has watched a new directory, each of its files is fresh, in *)
(* the pipeline or flagged.                                                *)
NewFoldersCovered == subdir = "watched" => \A f \in Nested : Accounted(f)

(* README: "File watcher keeps the index current within 2 seconds of       *)
(* changes".  So it is after a directory has been moved or renamed.        *)
MovedFilesAccounted == subdir = "missing" => \A f \in Nested : Accounted(f)

(* skipsFile: "mirroring what Scan() would have excluded on a full index". *)
(* When the pipeline is empty and nothing is flagged, the incremental path *)
(* has left rows only for files that Scan would list.                      *)
MirrorsScan ==
  (stage = "idle" /\ errors = {} /\ \A x \in Requests : ~Queued(x))
  => \A f \in Files : index[f].rows => disk[f].kind = "file" /\ f \notin GitIgnored
=============================================================================
