---------------------------- MODULE EventualIndex ----------------------------
(***************************************************************************)
(* What the write side of max-context promises a reader of the index,      *)
(* without any of its machinery.  A file is stale when the index differs   *)
(* from it, owed while the system still has work to do for it, flagged     *)
(* while the health report names it, and unseen when its last change went  *)
(* unreported.  Staleness is allowed only while it is one of these.        *)
(***************************************************************************)
CONSTANT Files

VARIABLES stale, owed, flagged, unseen

vars == <<stale, owed, flagged, unseen>>

(* Staleness is never silent: not for a change that was reported.          *)
Honest == stale \subseteq owed \cup flagged \cup unseen

Init == Honest /\ owed = {} /\ flagged \cup unseen \subseteq Files

(* A file changes, perhaps back to what the index holds, and the system is *)
(* told.                                                                   *)
Change(f) ==
  /\ owed' = owed \cup {f}
  /\ stale \ {f} \subseteq stale' /\ stale' \subseteq stale \cup {f}
  /\ unseen' = unseen \ {f}
  /\ UNCHANGED flagged

(* Files change and the system is not told; what it has read of them does  *)
(* not count as work for them any longer.                                  *)
Slip(S) ==
  /\ owed' \subseteq owed /\ owed \ owed' \subseteq S
  /\ stale \ S \subseteq stale' /\ stale' \subseteq stale \cup S
  /\ unseen' = unseen \cup S
  /\ UNCHANGED flagged

(* Somebody asks for everything to be indexed again.                       *)
RequestAll ==
  /\ owed' = Files
  /\ unseen' = {}
  /\ UNCHANGED <<stale, flagged>>

(* The system works off what it owes.  Apart from unseen files, serving    *)
(* may disturb only files it owes, takes a flag away only from a file that *)
(* is owed, and stops owing a stale file only by flagging it.              *)
Serve ==
  /\ owed' \subseteq owed
  /\ stale' \subseteq stale \cup owed \cup unseen
  /\ flagged' \subseteq Files
  /\ flagged \ flagged' \subseteq owed \cup unseen
  /\ Honest'
  /\ UNCHANGED unseen

Next ==
  \/ RequestAll
  \/ Serve
  \/ \E f \in Files : Change(f)
  \/ \E S \in SUBSET Files : Slip(S)

Spec == Init /\ [][Next]_vars
=============================================================================
