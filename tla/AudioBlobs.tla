----------------------------- MODULE AudioBlobs -----------------------------
(***************************************************************************)
(* Content-addressed audio: a row of audio_blobs and an object in S3 for   *)
(* each content, shared by the tracks that link to the row and counted in  *)
(* ref_count.                                                              *)
(*                                                                         *)
(* A session is one transaction at READ COMMITTED. It loads a track and    *)
(* looks a blob up without a lock, and flushes literal values computed     *)
(* from what it loaded; only a release locks the row of the blob and reads *)
(* ref_count under that lock. What a session does to S3 happens at once    *)
(* and stays when the transaction is rolled back.                          *)
(***************************************************************************)
EXTENDS Naturals, FiniteSets

CONSTANTS
  Content,   \* audio contents, by their SHA-256
  Track,     \* rows of tracks, inserted once each
  Imported,  \* the tracks that an import creates, linked to the raw file
  Raw,       \* [Imported -> Content]: the raw file of an imported track
  Mp3,       \* [Track -> Content]: what transcoding makes of the source
  Session,   \* concurrent requests and tasks
  None,      \* no track, no content, no session
  RowBound,  \* rows per content, one after the other
  RefBound   \* bound on ref_count

ASSUME TrackAssumption == /\ Imported \subseteq Track
                          /\ Raw \in [Imported -> Content]
                          /\ Mp3 \in [Track -> Content]
ASSUME NoneAssumption  == None \notin Track \cup Content \cup Session
ASSUME BoundAssumption == RowBound \in Nat \ {0} /\ RefBound \in Nat \ {0}

VARIABLES
  row,     \* [Content -> Row]: the table audio_blobs
  object,  \* the contents with a key under blobs/ in S3
  track,   \* [Track -> TrackRow]: the table tracks
  status,  \* [Track -> Status]: whether the row is there, and is_active
  lock,    \* [Content -> Session \cup {None}]: locks held between two steps
  tx       \* [Session -> Tx]

vars == <<row, object, track, status, lock, tx>>

\* id tells successive rows of a content apart.
Row == [live : BOOLEAN, id : 0..RowBound, ref : 0..RefBound]

\* link is blob_id, which the foreign key sets to NULL with the row; freed is
\* blob_ref_freed; key is file_key if it is the key of a content.
TrackRow == [link : Content \cup {None}, freed : BOOLEAN,
             key : Content \cup {None}]

Status == {"absent", "active", "hidden", "deleted"}

Operation == {"none", "dedup", "import", "transcode", "hide", "delete"}

Stage == {"idle", "missing", "stored", "ready", "loaded", "purging", "keyless"}

\* trk and linkId: the track and the id it links to, as loaded; row: the blob's
\* row as looked up; new: this session has inserted it.
Tx == [op : Operation, stage : Stage, track : Track \cup {None},
       content : Content \cup {None}, trk : TrackRow, linkId : 0..RowBound,
       row : Row, new : BOOLEAN]

NoRow    == [live |-> FALSE, id |-> 0, ref |-> 0]
NoTrack  == [link |-> None, freed |-> FALSE, key |-> None]
NoTx     == [op |-> "none", stage |-> "idle", track |-> None, content |-> None,
             trk |-> NoTrack, linkId |-> 0, row |-> NoRow, new |-> FALSE]

Present(t) == status[t] \in {"active", "hidden"}

\* The tracks that count as references to content c.
Users(c) == {t \in Track : Present(t) /\ track[t].link = c /\ ~track[t].freed}

TypeOK ==
  /\ row \in [Content -> Row]
  /\ object \subseteq Content
  /\ track \in [Track -> TrackRow]
  /\ status \in [Track -> Status]
  /\ lock \in [Content -> Session \cup {None}]
  /\ tx \in [Session -> Tx]
  /\ \A t \in Track : track[t].link # None => row[track[t].link].live

Init ==
  /\ row = [c \in Content |-> NoRow]
  /\ object = {}
  /\ track = [t \in Track |-> NoTrack]
  /\ status = [t \in Track |-> "absent"]
  /\ lock = [c \in Content |-> None]
  /\ tx = [s \in Session |-> NoTx]

-----------------------------------------------------------------------------
(***************************************************************************)
(* Looking a blob up, or creating it                                       *)
(***************************************************************************)

\* finalize_from_s3 for a source without a blob: the track waits for its
\* transcode, its file_key is the raw upload.
upload(t) ==
  /\ t \notin Imported
  /\ status[t] = "absent"
  /\ \A s \in Session : tx[s].track # t
  /\ status' = [status EXCEPT ![t] = "active"]
  /\ UNCHANGED <<row, object, track, lock, tx>>

\* What each way to attach a blob starts from: an upload whose source has a blob
\* already, an import, a transcode of a track that exists.
Attaches(op, t) ==
  \/ /\ op = "dedup"
     /\ t \notin Imported
     /\ status[t] = "absent" /\ \A s \in Session : tx[s].track # t
     /\ row[Mp3[t]].live
  \/ /\ op = "import"
     /\ t \in Imported
     /\ status[t] = "absent" /\ \A s \in Session : tx[s].track # t
  \/ /\ op = "transcode"
     /\ Present(t)

LinkId(t) == IF track[t].link = None THEN 0 ELSE row[track[t].link].id

\* The select of get_or_create_from_file, after the session loaded the track.
BeginAttach(s, t, op) ==
  /\ tx[s].stage = "idle"
  /\ Attaches(op, t)
  /\ LET c == IF op = "import" THEN Raw[t] ELSE Mp3[t]
     IN  tx' = [tx EXCEPT ![s] =
           [op |-> op, track |-> t, content |-> c, new |-> FALSE, row |-> row[c],
            stage |-> IF row[c].live THEN "ready" ELSE "missing",
            trk |-> IF op = "transcode" THEN track[t] ELSE NoTrack,
            linkId |-> LinkId(t)]]
  /\ UNCHANGED <<row, object, track, status, lock>>

put_cas_audio(s) ==
  /\ tx[s].stage = "missing"
  /\ object' = object \cup {tx[s].content}
  /\ tx' = [tx EXCEPT ![s].stage = "stored"]
  /\ UNCHANGED <<row, track, status, lock>>

\* The insert, which others see at the commit; who inserts the same content
\* meanwhile waits.
Insert(s) ==
  LET c == tx[s].content
  IN  /\ tx[s].stage = "stored"
      /\ ~row[c].live /\ lock[c] = None
      /\ row[c].id < RowBound
      /\ lock' = [lock EXCEPT ![c] = s]
      /\ tx' = [tx EXCEPT ![s].stage = "ready", ![s].new = TRUE,
                          ![s].row = [live |-> TRUE, id |-> row[c].id + 1,
                                      ref |-> 0]]
      /\ UNCHANGED <<row, object, track, status>>

\* The unique constraint: another session's row is there, it is selected.
LoseRace(s) ==
  LET c == tx[s].content
  IN  /\ tx[s].stage = "stored"
      /\ row[c].live /\ lock[c] = None
      /\ tx' = [tx EXCEPT ![s].stage = "ready", ![s].row = row[c]]
      /\ UNCHANGED <<row, object, track, status, lock>>

-----------------------------------------------------------------------------
(***************************************************************************)
(* Releasing a blob                                                        *)
(***************************************************************************)

\* try_release_for_track returns at once for a track that the session loaded
\* without a link or freed, and when the row has gone.
Releasable(x) ==
  /\ x.trk.link # None /\ ~x.trk.freed
  /\ row[x.trk.link].live /\ row[x.trk.link].id = x.linkId

\* Variant: the count is trusted.
RemainingByCount(d, t) == row[d].ref - 1

\* The references left: a count that reaches zero is checked against the other
\* tracks, and corrected.
Remaining(d, t) ==
  IF row[d].ref > 1 THEN row[d].ref - 1 ELSE Cardinality(Users(d) \ {t})

\* set_track_visibility, an accepted complaint, submit of the last complaint
\* (which all act on an active track), hard_delete_one.
BeginRelease(s, t, op) ==
  /\ tx[s].stage = "idle"
  /\ \/ op = "hide" /\ status[t] = "active"
     \/ op = "delete" /\ Present(t)
  /\ tx' = [tx EXCEPT ![s] = [NoTx EXCEPT !.op = op, !.stage = "loaded",
                                !.track = t, !.trk = track[t],
                                !.linkId = LinkId(t)]]
  /\ UNCHANGED <<row, object, track, status, lock>>

\* A transcode that finds its track linked to another blob releases that one.
Releases(x) ==
  \/ x.stage = "loaded"
  \/ x.stage = "ready" /\ x.op = "transcode" /\ x.trk.link # x.content

\* _purge_blob_row under the lock of the row; a failing delete is logged.
Purge(s) ==
  LET x == tx[s]
      d == x.trk.link
  IN  /\ Releases(x) /\ Releasable(x)
      /\ lock[d] = None
      /\ Remaining(d, x.track) = 0
      /\ object' \in {object, object \ {d}}
      /\ lock' = [lock EXCEPT ![d] = s]
      /\ tx' = [tx EXCEPT ![s].stage = "purging"]
      /\ UNCHANGED <<row, track, status>>

\* The session released the blob that its track linked to, or need not.
Purged(x)  == x.stage = "purging"
Counted(x) == ~Purged(x) /\ Releases(x) /\ Releasable(x)
CanCommitRelease(x) ==
  Counted(x) => /\ lock[x.trk.link] = None
                /\ Remaining(x.trk.link, x.track) > 0

\* The rows after the release, and the tracks after the foreign key.
ReleasedRows(x) ==
  [c \in Content |->
     IF x.trk.link # c THEN row[c]
     ELSE IF Purged(x) THEN [row[c] EXCEPT !.live = FALSE, !.ref = 0]
     ELSE IF Counted(x) THEN [row[c] EXCEPT !.ref = Remaining(c, x.track)]
     ELSE row[c]]

\* Variant: the other tracks keep their link to the deleted row.
UnlinkedSelf(x) ==
  [t \in Track |-> IF Purged(x) /\ t = x.track
                     THEN [track[t] EXCEPT !.link = None]
                     ELSE track[t]]

Unlinked(x) ==
  [t \in Track |-> IF Purged(x) /\ track[t].link = x.trk.link
                     THEN [track[t] EXCEPT !.link = None]
                     ELSE track[t]]

Unlock(s) == [c \in Content |-> IF lock[c] = s THEN None ELSE lock[c]]

CommitHide(s) ==
  LET x == tx[s]
  IN  /\ x.op = "hide" /\ x.stage \in {"loaded", "purging"}
      /\ Present(x.track)
      /\ CanCommitRelease(x)
      /\ row' = ReleasedRows(x)
      /\ track' = [Unlinked(x) EXCEPT
                     ![x.track].freed = Purged(x) \/ Counted(x) \/ @]
      /\ status' = [status EXCEPT ![x.track] = "hidden"]
      /\ lock' = Unlock(s)
      /\ tx' = [tx EXCEPT ![s] = NoTx]
      /\ UNCHANGED object

\* hard_delete_one deletes the object of file_key for a track that has no link
\* after its release, read afresh.
DeleteKey(s) ==
  LET x == tx[s]
  IN  /\ x.op = "delete" /\ x.stage = "loaded" /\ ~Releasable(x)
      /\ Present(x.track)
      /\ track[x.track].link = None /\ track[x.track].key # None
      /\ object' = object \ {track[x.track].key}
      /\ tx' = [tx EXCEPT ![s].stage = "keyless"]
      /\ UNCHANGED <<row, track, status, lock>>

CommitDelete(s) ==
  LET x == tx[s]
  IN  /\ x.op = "delete"
      /\ \/ x.stage \in {"purging", "keyless"}
         \/ /\ x.stage = "loaded" /\ CanCommitRelease(x)
            /\ Releasable(x) \/ track[x.track].link # None
                             \/ track[x.track].key = None
      /\ Present(x.track)
      /\ row' = ReleasedRows(x)
      /\ track' = [Unlinked(x) EXCEPT ![x.track] = NoTrack]
      /\ status' = [status EXCEPT ![x.track] = "deleted"]
      /\ lock' = Unlock(s)
      /\ tx' = [tx EXCEPT ![s] = NoTx]
      /\ UNCHANGED object

\* set_track_visibility back, the restore endpoints: the blob is not acquired
\* again.
show(t) ==
  /\ status[t] = "hidden"
  /\ status' = [status EXCEPT ![t] = "active"]
  /\ UNCHANGED <<row, object, track, lock, tx>>

-----------------------------------------------------------------------------
(***************************************************************************)
(* Attaching                                                               *)
(***************************************************************************)

\* attach_playback_blob returns at once for a track that holds the blob.
Attached(x) == x.trk.link = x.content /\ ~x.trk.freed

\* attach_pending_tracks, after a transcode: the tracks of the same source
\* without a blob.
Pending(x) ==
  {t \in Track \ (Imported \cup {x.track}) :
     /\ x.op = "transcode"
     /\ Present(t) /\ Mp3[t] = x.content /\ Unlinked(x)[t].link = None}

\* Variant: the pending tracks are linked without being counted.
AcquireOne(x) == x.row.ref + (IF Attached(x) THEN 0 ELSE 1)

\* Variant: the first user of a new row is not counted.
AcquireFromZero(x) == IF x.new THEN Cardinality(Pending(x))
                      ELSE x.row.ref + (IF Attached(x) THEN 0 ELSE 1)

\* The literal ref_count that the session flushes.
Acquire(x) ==
  x.row.ref + (IF Attached(x) THEN 0 ELSE 1) + Cardinality(Pending(x))

\* The columns of the track that the flush writes are those whose value differs
\* from the loaded one; a release in this session has written freed before.
Linked(x, cur) ==
  LET c == x.content
  IN  IF x.op # "transcode" THEN [NoTrack EXCEPT !.link = c, !.key = c]
      ELSE IF Attached(x) THEN cur
      ELSE [cur EXCEPT !.link  = IF x.trk.link = c THEN @ ELSE c,
                       !.key   = IF x.trk.key = c THEN @ ELSE c,
                       !.freed = IF x.trk.freed \/ Purged(x) \/ Counted(x)
                                   THEN FALSE ELSE @]

\* The flush of a row, or of a track, that was deleted meanwhile raises, and so
\* does a link to a row that has gone: then only Abort remains.
CommitAttach(s) ==
  LET x == tx[s]
      c == x.content
      writes == Acquire(x) # x.row.ref \/ x.new
  IN  /\ x.op \in {"dedup", "import", "transcode"}
      /\ x.stage \in {"ready", "purging"}
      /\ x.op = "transcode" => Present(x.track)
      /\ CanCommitRelease(x)
      /\ IF x.new THEN TRUE
         ELSE writes => row[c].live /\ row[c].id = x.row.id /\ lock[c] = None
      /\ Acquire(x) <= RefBound
      /\ row' = IF writes
                  THEN [ReleasedRows(x) EXCEPT
                          ![c] = [x.row EXCEPT !.ref = Acquire(x)]]
                  ELSE ReleasedRows(x)
      /\ track' = [t \in Track |->
                     IF t = x.track THEN Linked(x, Unlinked(x)[t])
                     ELSE IF t \in Pending(x)
                       THEN [track[t] EXCEPT !.link = c, !.key = c, !.freed = FALSE]
                     ELSE Unlinked(x)[t]]
      /\ status' = IF x.op = "transcode" THEN status
                   ELSE [status EXCEPT ![x.track] = "active"]
      /\ lock' = Unlock(s)
      /\ tx' = [tx EXCEPT ![s] = NoTx]
      /\ UNCHANGED object

\* The process dies, a statement raises, a deadlock is broken.
Abort(s) ==
  /\ tx[s].stage # "idle"
  /\ lock' = Unlock(s)
  /\ tx' = [tx EXCEPT ![s] = NoTx]
  /\ UNCHANGED <<row, object, track, status>>

-----------------------------------------------------------------------------

Attaching(s) ==
  \/ \E t \in Track, op \in {"dedup", "import", "transcode"} : BeginAttach(s, t, op)
  \/ put_cas_audio(s) \/ Insert(s) \/ LoseRace(s) \/ CommitAttach(s)

Releasing(s) ==
  \/ \E t \in Track, op \in {"hide", "delete"} : BeginRelease(s, t, op)
  \/ Purge(s) \/ CommitHide(s) \/ DeleteKey(s) \/ CommitDelete(s)

Next ==
  \/ \E s \in Session : Attaching(s) \/ Releasing(s) \/ Abort(s)
  \/ \E t \in Track : upload(t) \/ show(t)

Spec == Init /\ [][Next]_vars

-----------------------------------------------------------------------------
(***************************************************************************)
(* Safety                                                                  *)
(***************************************************************************)

\* The daily collector's first class of debris, rows with ref_count <= 0, never
\* arises: whatever stale counts sessions flush and wherever they die, a
\* committed row counts a reference.
NoRowToCollect == \A c \in Content : row[c].live => row[c].ref > 0

\* "If ref_count drifts low but another Track still points at the blob, releasing
\* one track must not delete storage" (test_audio_blob_service.py:308): only a
\* session that handles a track takes away its counted link.
SharedBlobKept ==
  [][\A t \in Track, c \in Content :
       t \in Users(c) /\ track'[t].link = None
         => \E s \in Session : tx[s].track = t /\ tx'[s] # tx[s]]_vars

\* A session commits what it computed from a track or a blob that has changed
\* since it was loaded.
Overtaken ==
  \E s \in Session :
    /\ tx'[s] # tx[s]
    /\ \/ /\ tx[s].op \in {"transcode", "hide", "delete"}
          /\ \/ tx[s].trk # track[tx[s].track]
             \/ tx[s].linkId # LinkId(tx[s].track)
       \/ /\ tx[s].op \in {"dedup", "import", "transcode"}
          /\ ~tx[s].new
          /\ tx[s].row # row[tx[s].content]

Exact == \A c \in Content : row[c].live => row[c].ref = Cardinality(Users(c))

\* Counts that are exact stay so, in every step that is not overtaken: pending
\* tracks, replaced blobs, hidden, shown and deleted tracks are all accounted
\* for.
CountsStayExact == [][Exact /\ ~Overtaken => Exact']_vars

-----------------------------------------------------------------------------
(***************************************************************************)
(* What the tests say                                                      *)
(***************************************************************************)

\* The same sentence, of the stored object: a session that gives a track up does
\* not delete an object that another track counts on.
StorageKept ==
  [][\A s \in Session, c \in Content :
       /\ tx[s].op \in {"hide", "delete"} /\ tx'[s] # tx[s]
       /\ c \in object \ object'
       => Users(c) \subseteq {tx[s].track}]_vars

=============================================================================
