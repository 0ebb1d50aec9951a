--------------------------- MODULE ReindexChannel ---------------------------
(***************************************************************************)
(* The channel between the watcher and the indexing worker: a Go channel   *)
(* of strings with a fixed buffer (make(chan string, 100) in main.go).  It *)
(* carries exactly two kinds of request: a relative path, "reindex this    *)
(* file", and the empty string, "rebuild everything".                      *)
(***************************************************************************)
EXTENDS Naturals, Sequences

CONSTANTS
  Files,   \* the files of the project that the watcher's filter lets through
  Full,    \* the empty string: the request for a full reindex
  Cap      \* the capacity of the channel's buffer

ASSUME CapAssumption == Cap \in Nat \ {0}

ASSUME FullAssumption == Full \notin Files

Requests == Files \cup {Full}

VARIABLE ch   \* the requests in the buffer, oldest first

(* Does sequence s hold x?                                                 *)
Holds(s, x) == \E i \in 1..Len(s) : s[i] = x

ChannelInit == ch = <<>>

(* Mutants of Put: a send with a default case drops the request when the   *)
(* buffer is full; a buffer without a limit.                               *)
PutOrDrop(x) == ch' = IF Len(ch) < Cap THEN Append(ch, x) ELSE ch
PutUnbounded(x) == ch' = Append(ch, x)

(* A send completes only when the buffer has room; until then the sending  *)
(* goroutine waits.                                                        *)
Put(x) == /\ Len(ch) < Cap
          /\ ch' = Append(ch, x)

(* The worker's receive takes the oldest request.                          *)
Get(x) == /\ ch # <<>>
          /\ x = Head(ch)
          /\ ch' = Tail(ch)
=============================================================================
