----------------------------- MODULE BlobSweep -----------------------------
(***************************************************************************)
(* AudioBlobs beside the daily sweep of its objects: the task lists the    *)
(* keys under blobs/ with the dates of their last writes, then reads which *)
(* of them a row names, then deletes the old ones that none does.          *)
(*                                                                         *)
(* The task's first phase, rows that count no reference, finds none        *)
(* (NoRowToCollect).                                                       *)
(***************************************************************************)
EXTENDS AudioBlobs

VARIABLES
  old,     \* the keys last written more than _MIN_AGE_HOURS ago
  listed,  \* the old keys that a running sweep has listed
  orphans  \* those of them that it is going to delete

sweepVars == <<old, listed, orphans>>

SweepInit == Init /\ old = {} /\ listed = {} /\ orphans = {}

\* A session that has stored content c and not committed its row.
Writing(s, c) == tx[s].content = c /\ (tx[s].stage = "stored" \/ tx[s].new)

\* This step stores content c, perhaps under a key that is there.
Stores(c) ==
  \E s \in Session : /\ tx[s].content = c
                     /\ tx[s].stage = "missing" /\ tx'[s].stage = "stored"

\* A session goes on; what it stores is not old.
SessionStep ==
  /\ Next
  /\ old' = {c \in old \cap object' : ~Stores(c)}
  /\ UNCHANGED <<listed, orphans>>

\* No session lasts as long as it takes a key to become old.
Ages(c) ==
  /\ c \in object \ old
  /\ \A s \in Session : ~Writing(s, c)
  /\ old' = old \cup {c}
  /\ UNCHANGED <<vars, listed, orphans>>

SweepList ==
  /\ listed = {} /\ orphans = {}
  /\ old # {}
  /\ listed' = old
  /\ UNCHANGED <<vars, old, orphans>>

SweepRead ==
  /\ listed # {}
  /\ orphans' = {c \in listed : ~row[c].live}
  /\ listed' = {}
  /\ UNCHANGED <<vars, old>>

\* A failing delete is logged.
SweepDelete(c) ==
  /\ c \in orphans
  /\ object' \in {object, object \ {c}}
  /\ old' = old \cap object'
  /\ orphans' = orphans \ {c}
  /\ UNCHANGED <<row, track, status, lock, tx, listed>>

SweepDies ==
  /\ listed \cup orphans # {}
  /\ listed' = {} /\ orphans' = {}
  /\ UNCHANGED <<vars, old>>

SweepNext ==
  \/ SessionStep
  \/ \E c \in Content : Ages(c) \/ SweepDelete(c)
  \/ SweepList \/ SweepRead \/ SweepDies

SweepSpec == SweepInit /\ [][SweepNext]_<<vars, sweepVars>>

-----------------------------------------------------------------------------

\* "The worker is safety-gated by a minimum-age window so we never delete an
\* object that a concurrent transcode is in the middle of writing"
\* (audio_blob_gc_worker.py:12-13).
SweepSparesWrites ==
  [][\A s \in Session, c \in orphans \ orphans' :
       Writing(s, c) /\ c \in object => c \in object']_<<vars, sweepVars>>
=============================================================================
