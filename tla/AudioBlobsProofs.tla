-------------------------- MODULE AudioBlobsProofs --------------------------
(***************************************************************************)
(* No committed row counts nothing, and no release takes a shared blob from*)
(* another track, for every number of contents, tracks and sessions.       *)
(***************************************************************************)
EXTENDS AudioBlobs, FiniteSetTheorems, TLAPS

\* What is asked of the constants: RefBound is no bound on what tracks there are.
Sizes == IsFiniteSet(Track) /\ Cardinality(Track) <= RefBound

AttachOps == {"dedup", "import", "transcode"}

\* What a session may have loaded and done at each stage.
SessionSound(x) ==
  /\ x.stage # "idle" => x.track \in Track /\ x.op # "none"
  /\ x.stage \in {"missing", "stored", "ready"} => x.op \in AttachOps
  /\ x.stage \in {"loaded", "keyless"} => x.op \in {"hide", "delete"}
  /\ x.op \in AttachOps => /\ x.content \in Content /\ x.track \in Track
                           /\ x.stage # "idle"
  /\ x.op \in {"dedup", "import"} => x.trk = NoTrack
  /\ x.op = "transcode" => x.content = Mp3[x.track]
  /\ x.stage \in {"missing", "stored"} => x.trk.link # x.content
  /\ x.new => /\ x.op \in AttachOps /\ x.stage \in {"ready", "purging"}
              /\ x.row.ref = 0 /\ x.trk.link # x.content
  /\ x.op \in AttachOps /\ x.stage \in {"ready", "purging"}
       => x.row.live /\ (x.new \/ x.row.ref > 0)
  /\ x.stage = "purging" => x.trk.link \in Content /\ x.trk.link # x.content
  /\ x.op \in {"hide", "delete"} => x.content = None

SessionsSound == \A s \in Session : SessionSound(tx[s])

\* An inserted and a purged row stay locked until the commit.
LocksHeld ==
  \A s \in Session :
    /\ tx[s].new => lock[tx[s].content] = s
    /\ tx[s].stage = "purging" => lock[tx[s].trk.link] = s

\* While a row is being purged, nobody counts on it but the track whose release
\* purges it.
PurgesAlone ==
  \A s \in Session : tx[s].stage = "purging" => Users(tx[s].trk.link) \subseteq {tx[s].track}

AbsentUnlinked == \A t \in Track : ~Present(t) => track[t].link = None

\* A track is created by one session, which is the only one to handle it.
CreatesAlone ==
  \A s \in Session :
    tx[s].op \in {"dedup", "import"} =>
      /\ status[tx[s].track] = "absent"
      /\ \A p \in Session : p # s => tx[p].track # tx[s].track

\* A track that was linked to its own transcode is linked to nothing else later.
StaysTranscoded ==
  \A s \in Session :
    tx[s].op = "transcode" /\ tx[s].trk.link = tx[s].content =>
      track[tx[s].track].link \in {None, tx[s].content}

IInv == /\ TypeOK /\ NoRowToCollect /\ SessionsSound /\ LocksHeld /\ PurgesAlone
        /\ AbsentUnlinked /\ CreatesAlone /\ StaysTranscoded

----------------------------------------------------------------------------
(* Types and counting.                                                     *)

LEMMA Nothing ==
  /\ NoRow \in Row /\ ~NoRow.live
  /\ NoTrack \in TrackRow /\ NoTrack.link = None
  /\ NoTx \in Tx /\ SessionSound(NoTx) /\ ~NoTx.new
  /\ NoTx.op = "none" /\ NoTx.stage = "idle" /\ NoTx.track = None
<1>1. NoRow \in Row /\ ~NoRow.live
  BY BoundAssumption DEF NoRow, Row
<1>2. NoTrack \in TrackRow /\ NoTrack.link = None
  BY DEF NoTrack, TrackRow
<1>3. /\ ~NoTx.new /\ NoTx.op = "none" /\ NoTx.stage = "idle" /\ NoTx.track = None
      /\ NoTx.row = NoRow /\ NoTx.trk = NoTrack /\ NoTx.content = None /\ NoTx.linkId = 0
  BY DEF NoTx
<1>4. NoTx \in Tx
  BY <1>1, <1>2, BoundAssumption DEF NoTx, Tx, Operation, Stage
<1>5. SessionSound(NoTx)
  BY <1>3 DEF SessionSound, AttachOps
<1> QED BY <1>1, <1>2, <1>3, <1>4, <1>5

LEMMA Counting ==
  ASSUME Sizes, NEW S \in SUBSET Track
  PROVE  /\ Cardinality(S) \in 0..RefBound
         /\ Cardinality(S) = 0 <=> S = {}
<1>1. /\ IsFiniteSet(S) /\ Cardinality(S) <= Cardinality(Track)
      /\ Cardinality(S) \in Nat /\ Cardinality(Track) \in Nat
  BY FS_Subset, FS_CardinalityType DEF Sizes
<1>2. Cardinality(S) = 0 <=> S = {}
  BY <1>1, FS_EmptySet
<1> QED BY <1>1, <1>2, BoundAssumption DEF Sizes

\* What a release leaves is a count.
LEMMA RemainingType ==
  ASSUME Sizes, TypeOK, NEW c \in Content, NEW t
  PROVE  Remaining(c, t) \in 0..RefBound
<1>1. row[c].ref \in 0..RefBound
  BY DEF TypeOK, Row
<1>2. Users(c) \ {t} \subseteq Track
  BY DEF Users
<1>3. Cardinality(Users(c) \ {t}) \in 0..RefBound
  BY <1>2, Counting
<1> QED BY <1>1, <1>3, BoundAssumption DEF Remaining

----------------------------------------------------------------------------
(* Steps of a session before its commit.                                   *)

\* Session s goes on to y, and no row, track or status changes.
LEMMA StepKeeps ==
  ASSUME IInv, NEW s \in Session, NEW y \in Tx, tx' = [tx EXCEPT ![s] = y],
         UNCHANGED <<row, track, status>>, object' \subseteq Content,
         lock' \in [Content -> Session \cup {None}],
         \A c \in Content, p \in Session \ {s} : lock[c] = p => lock'[c] = p,
         SessionSound(y),
         y.new => lock'[y.content] = s,
         y.stage = "purging" => /\ lock'[y.trk.link] = s
                                /\ Users(y.trk.link) \subseteq {y.track},
         y.op \in {"dedup", "import"} =>
           /\ status[y.track] = "absent"
           /\ \A p \in Session : p # s => tx[p].track # y.track,
         \A p \in Session \ {s} : tx[p].op \in {"dedup", "import"} => tx[p].track # y.track,
         y.op = "transcode" /\ y.trk.link = y.content =>
           track[y.track].link \in {None, y.content}
  PROVE  IInv'
<1>1. /\ tx'[s] = y /\ \A p \in Session \ {s} : tx'[p] = tx[p]
      /\ tx' \in [Session -> Tx]
  BY DEF IInv, TypeOK
<1>2. TypeOK' /\ NoRowToCollect' /\ AbsentUnlinked'
  BY <1>1 DEF IInv, TypeOK, NoRowToCollect, AbsentUnlinked, Present
<1>3. SessionsSound'
  BY <1>1 DEF IInv, SessionsSound
<1>4. LocksHeld'
  <2> SUFFICES ASSUME NEW p \in Session, p # s
               PROVE  /\ tx[p].new => lock'[tx[p].content] = p
                      /\ tx[p].stage = "purging" => lock'[tx[p].trk.link] = p
    BY <1>1 DEF LocksHeld
  <2>1. /\ tx[p].new => tx[p].content \in Content /\ lock[tx[p].content] = p
        /\ tx[p].stage = "purging" => tx[p].trk.link \in Content /\ lock[tx[p].trk.link] = p
    BY DEF IInv, SessionsSound, SessionSound, LocksHeld
  <2> QED BY <2>1
<1>5. \A c : Users(c)' = Users(c)
  BY DEF Users, Present
<1>6. PurgesAlone'
  BY <1>1, <1>5 DEF IInv, PurgesAlone
<1>7. CreatesAlone'
  BY <1>1 DEF IInv, CreatesAlone
<1>8. StaysTranscoded'
  BY <1>1 DEF IInv, StaysTranscoded
<1> QED BY <1>2, <1>3, <1>4, <1>6, <1>7, <1>8 DEF IInv

\* The same for a session that keeps its operation and what it has loaded.
LEMMA SameKeeps ==
  ASSUME IInv, NEW s \in Session, NEW y \in Tx, tx' = [tx EXCEPT ![s] = y],
         y.op = tx[s].op, y.track = tx[s].track, y.content = tx[s].content,
         y.trk = tx[s].trk,
         UNCHANGED <<row, track, status>>, object' \subseteq Content,
         lock' \in [Content -> Session \cup {None}],
         \A c \in Content, p \in Session \ {s} : lock[c] = p => lock'[c] = p,
         SessionSound(y),
         y.new => lock'[y.content] = s,
         y.stage = "purging" => /\ lock'[y.trk.link] = s
                                /\ Users(y.trk.link) \subseteq {y.track}
  PROVE  IInv'
<1>1. y.op \in {"dedup", "import"} =>
        /\ status[y.track] = "absent"
        /\ \A p \in Session : p # s => tx[p].track # y.track
  BY DEF IInv, CreatesAlone
<1>2. \A p \in Session \ {s} : tx[p].op \in {"dedup", "import"} => tx[p].track # y.track
  BY DEF IInv, CreatesAlone
<1>3. y.op = "transcode" /\ y.trk.link = y.content =>
        track[y.track].link \in {None, y.content}
  BY DEF IInv, StaysTranscoded
<1> QED BY <1>1, <1>2, <1>3, StepKeeps

LEMMA LoadedType ==
  ASSUME IInv, NEW t \in Track
  PROVE  track[t] \in TrackRow /\ LinkId(t) \in 0..RowBound
<1>1. track[t] \in TrackRow
  BY DEF IInv, TypeOK
<1>2. track[t].link # None => row[track[t].link] \in Row
  BY <1>1 DEF IInv, TypeOK, TrackRow
<1> QED BY <1>1, <1>2, BoundAssumption DEF LinkId, Row

LEMMA BeginAttachStep ==
  ASSUME IInv, NEW s \in Session, NEW t \in Track, NEW op \in AttachOps,
         BeginAttach(s, t, op)
  PROVE  IInv'
<1> DEFINE c == IF op = "import" THEN Raw[t] ELSE Mp3[t]
           y == [op |-> op, track |-> t, content |-> c, new |-> FALSE, row |-> row[c],
                 stage |-> IF row[c].live THEN "ready" ELSE "missing",
                 trk |-> IF op = "transcode" THEN track[t] ELSE NoTrack,
                 linkId |-> LinkId(t)]
<1>1. /\ tx' = [tx EXCEPT ![s] = y] /\ Attaches(op, t)
      /\ UNCHANGED <<row, object, track, status, lock>>
  BY DEF BeginAttach
<1>2. c \in Content
  BY <1>1, TrackAssumption DEF Attaches
<1>3. /\ row[c] \in Row
      /\ row[c].live => row[c].ref > 0
      /\ track[t] \in TrackRow /\ LinkId(t) \in 0..RowBound
  BY <1>2, LoadedType DEF IInv, TypeOK, NoRowToCollect
<1>4. /\ y.op = op /\ y.track = t /\ y.content = c /\ ~y.new /\ y.row = row[c]
      /\ y.stage = (IF row[c].live THEN "ready" ELSE "missing")
      /\ y.trk = (IF op = "transcode" THEN track[t] ELSE NoTrack)
  OBVIOUS
<1>5. y \in Tx
  <2>1. y.trk \in TrackRow
    BY <1>3, <1>4, Nothing
  <2> QED BY <1>2, <1>3, <2>1 DEF Tx, Operation, Stage, AttachOps
<1>6. y.trk.link = c => row[c].live
  BY <1>2, <1>4, Nothing, NoneAssumption DEF IInv, TypeOK
<1>7. SessionSound(y)
  BY <1>2, <1>3, <1>4, <1>6 DEF SessionSound, AttachOps
<1>8. op \in {"dedup", "import"} =>
        status[t] = "absent" /\ \A p \in Session : tx[p].track # t
  BY <1>1 DEF Attaches
<1>9. \A p \in Session \ {s} : tx[p].op \in {"dedup", "import"} => tx[p].track # t
  BY <1>1, <1>8 DEF IInv, CreatesAlone, Attaches, Present, AttachOps
<1>10. object' \subseteq Content /\ lock' \in [Content -> Session \cup {None}]
  BY <1>1 DEF IInv, TypeOK
<1>11. /\ ~(y.stage = "purging")
       /\ y.op = "transcode" /\ y.trk.link = y.content => track[y.track].link = y.content
  BY <1>4
<1> HIDE DEF y
<1> QED BY <1>1, <1>4, <1>5, <1>7, <1>8, <1>9, <1>10, <1>11, StepKeeps

LEMMA PutStep ==
  ASSUME IInv, NEW s \in Session, put_cas_audio(s)
  PROVE  IInv'
<1> DEFINE y == [tx[s] EXCEPT !.stage = "stored"]
<1>1. /\ tx[s] \in Tx /\ SessionSound(tx[s]) /\ tx[s].stage = "missing"
      /\ tx' = [tx EXCEPT ![s] = y] /\ UNCHANGED <<row, track, status, lock>>
      /\ object' = object \cup {tx[s].content}
  BY DEF put_cas_audio, IInv, TypeOK, SessionsSound
<1>2. /\ y \in Tx /\ y.stage = "stored" /\ y.op = tx[s].op /\ y.track = tx[s].track
      /\ y.content = tx[s].content /\ y.trk = tx[s].trk /\ y.row = tx[s].row /\ y.new = tx[s].new
  BY <1>1 DEF Tx, Stage
<1>3. SessionSound(y) /\ ~y.new
  BY <1>1, <1>2 DEF SessionSound, AttachOps
<1>4. object' \subseteq Content /\ lock' \in [Content -> Session \cup {None}]
  BY <1>1 DEF IInv, TypeOK, SessionSound, AttachOps
<1> HIDE DEF y
<1> QED BY <1>1, <1>2, <1>3, <1>4, SameKeeps

\* The session that inserts a row holds it until it commits.
LEMMA InsertStep ==
  ASSUME IInv, NEW s \in Session, Insert(s)
  PROVE  IInv'
<1> DEFINE c == tx[s].content
           r == [live |-> TRUE, id |-> row[c].id + 1, ref |-> 0]
           y == [tx[s] EXCEPT !.stage = "ready", !.new = TRUE, !.row = r]
<1>1. /\ tx[s] \in Tx /\ SessionSound(tx[s]) /\ tx[s].stage = "stored"
      /\ lock[c] = None /\ row[c].id < RowBound
      /\ UNCHANGED <<row, object, track, status>> /\ lock' = [lock EXCEPT ![c] = s]
  BY DEF Insert, IInv, TypeOK, SessionsSound
<1>2. tx' = [tx EXCEPT ![s] = y]
  BY DEF Insert, IInv, TypeOK
<1>3. c \in Content /\ tx[s].trk.link # c
  BY <1>1 DEF SessionSound, AttachOps
<1>4. r \in Row
  BY <1>1, <1>3, BoundAssumption DEF IInv, TypeOK, Row
<1>5. /\ y \in Tx /\ y.stage = "ready" /\ y.op = tx[s].op /\ y.track = tx[s].track
      /\ y.content = c /\ y.trk = tx[s].trk /\ y.row = r /\ y.new
  BY <1>1, <1>4 DEF Tx, Stage
<1>6. SessionSound(y)
  BY <1>1, <1>3, <1>5 DEF SessionSound, AttachOps
<1>7. /\ lock' \in [Content -> Session \cup {None}] /\ lock'[c] = s
      /\ \A d \in Content, p \in Session \ {s} : lock[d] = p => lock'[d] = p
      /\ object' \subseteq Content
  BY <1>1, <1>3, NoneAssumption DEF IInv, TypeOK
<1> HIDE DEF y
<1> QED BY <1>1, <1>2, <1>5, <1>6, <1>7, SameKeeps

LEMMA LoseRaceStep ==
  ASSUME IInv, NEW s \in Session, LoseRace(s)
  PROVE  IInv'
<1> DEFINE c == tx[s].content
           y == [tx[s] EXCEPT !.stage = "ready", !.row = row[c]]
<1>1. /\ tx[s] \in Tx /\ SessionSound(tx[s]) /\ tx[s].stage = "stored" /\ row[c].live
      /\ UNCHANGED <<row, object, track, status, lock>>
  BY DEF LoseRace, IInv, TypeOK, SessionsSound
<1>2. tx' = [tx EXCEPT ![s] = y]
  BY DEF LoseRace, IInv, TypeOK
<1>3. c \in Content /\ row[c] \in Row /\ row[c].ref > 0
  BY <1>1 DEF SessionSound, AttachOps, IInv, TypeOK, NoRowToCollect
<1>4. /\ y \in Tx /\ y.stage = "ready" /\ y.op = tx[s].op /\ y.track = tx[s].track
      /\ y.content = c /\ y.trk = tx[s].trk /\ y.row = row[c] /\ y.new = tx[s].new
  BY <1>1, <1>3 DEF Tx, Stage
<1>5. SessionSound(y) /\ ~y.new
  BY <1>1, <1>3, <1>4 DEF SessionSound, AttachOps
<1>6. object' \subseteq Content /\ lock' \in [Content -> Session \cup {None}]
  BY <1>1 DEF IInv, TypeOK
<1> HIDE DEF y
<1> QED BY <1>1, <1>2, <1>4, <1>5, <1>6, SameKeeps

LEMMA BeginReleaseStep ==
  ASSUME IInv, NEW s \in Session, NEW t \in Track, NEW op \in {"hide", "delete"},
         BeginRelease(s, t, op)
  PROVE  IInv'
<1> DEFINE y == [NoTx EXCEPT !.op = op, !.stage = "loaded", !.track = t,
                             !.trk = track[t], !.linkId = LinkId(t)]
<1>1. /\ tx' = [tx EXCEPT ![s] = y] /\ Present(t)
      /\ UNCHANGED <<row, object, track, status, lock>>
  BY DEF BeginRelease, Present
<1>2. track[t] \in TrackRow /\ LinkId(t) \in 0..RowBound
  BY LoadedType
<1>3. /\ y \in Tx /\ y.stage = "loaded" /\ y.op = op /\ y.track = t /\ ~y.new
      /\ y.trk = track[t]
  BY <1>2, Nothing DEF Tx, Operation, Stage
<1>4. SessionSound(y)
  BY <1>3, Nothing DEF SessionSound, AttachOps, NoTx
<1>5. \A p \in Session \ {s} : tx[p].op \in {"dedup", "import"} => tx[p].track # t
  BY <1>1 DEF IInv, CreatesAlone, Present
<1>6. object' \subseteq Content /\ lock' \in [Content -> Session \cup {None}]
  BY <1>1 DEF IInv, TypeOK
<1> HIDE DEF y
<1> QED BY <1>1, <1>3, <1>4, <1>5, <1>6, StepKeeps

LEMMA PurgeStep ==
  ASSUME Sizes, IInv, NEW s \in Session, Purge(s)
  PROVE  IInv'
<1> DEFINE x == tx[s]
           d == x.trk.link
           y == [x EXCEPT !.stage = "purging"]
<1>1. /\ x \in Tx /\ SessionSound(x) /\ Releases(x) /\ Releasable(x)
      /\ lock[d] = None /\ Remaining(d, x.track) = 0
      /\ object' \in {object, object \ {d}} /\ lock' = [lock EXCEPT ![d] = s]
      /\ tx' = [tx EXCEPT ![s] = y] /\ UNCHANGED <<row, track, status>>
  BY DEF Purge, IInv, TypeOK, SessionsSound
<1>2. d \in Content
  BY <1>1 DEF Releasable, Tx, TrackRow
<1>3. Users(d) \subseteq {x.track}
  <2>1. row[d].ref \in Nat
    BY <1>2 DEF IInv, TypeOK, Row
  <2>2. Cardinality(Users(d) \ {x.track}) = 0
    BY <1>1, <2>1 DEF Remaining
  <2>3. Users(d) \ {x.track} \in SUBSET Track
    BY DEF Users
  <2> HIDE DEF d, x
  <2>4. Users(d) \ {x.track} = {}
    BY <2>2, <2>3, Counting
  <2> QED BY <2>4
<1>4. /\ y \in Tx /\ y.stage = "purging" /\ y.op = x.op /\ y.track = x.track
      /\ y.content = x.content /\ y.trk = x.trk /\ y.row = x.row /\ y.new = x.new
  BY <1>1 DEF Tx, Stage
<1>5. SessionSound(y)
  <2>1. CASE x.stage = "loaded"
    <3>1. x.op \in {"hide", "delete"} /\ ~x.new
      BY <1>1, <2>1 DEF SessionSound, AttachOps
    <3> HIDE DEF y
    <3>2. d # x.content
      BY <1>1, <1>2, <3>1, NoneAssumption DEF SessionSound
    <3> QED BY <1>1, <1>2, <1>4, <2>1, <3>1, <3>2 DEF SessionSound, AttachOps
  <2>2. CASE x.stage = "ready" /\ x.op = "transcode" /\ d # x.content
    BY <1>1, <1>2, <1>4, <2>2 DEF SessionSound, AttachOps
  <2> QED BY <1>1, <2>1, <2>2 DEF Releases
<1>6. /\ lock' \in [Content -> Session \cup {None}] /\ lock'[d] = s
      /\ \A c \in Content, p \in Session \ {s} : lock[c] = p => lock'[c] = p
      /\ object' \subseteq Content
  BY <1>1, <1>2, NoneAssumption DEF IInv, TypeOK
<1>7. y.new => lock'[y.content] = s
  BY <1>1, <1>2, <1>4, <1>6 DEF IInv, LocksHeld, SessionSound, AttachOps
<1> HIDE DEF y
<1> QED BY <1>1, <1>3, <1>4, <1>5, <1>6, <1>7, SameKeeps

LEMMA DeleteKeyStep ==
  ASSUME IInv, NEW s \in Session, DeleteKey(s)
  PROVE  IInv'
<1> DEFINE y == [tx[s] EXCEPT !.stage = "keyless"]
<1>1. /\ tx[s] \in Tx /\ SessionSound(tx[s]) /\ tx[s].stage = "loaded" /\ tx[s].op = "delete"
      /\ tx' = [tx EXCEPT ![s] = y] /\ UNCHANGED <<row, track, status, lock>>
      /\ object' \subseteq object
  BY DEF DeleteKey, IInv, TypeOK, SessionsSound
<1>2. /\ y \in Tx /\ y.stage = "keyless" /\ y.op = tx[s].op /\ y.track = tx[s].track
      /\ y.content = tx[s].content /\ y.trk = tx[s].trk /\ y.row = tx[s].row /\ y.new = tx[s].new
  BY <1>1 DEF Tx, Stage
<1>3. SessionSound(y) /\ ~y.new
  BY <1>1, <1>2 DEF SessionSound, AttachOps
<1>4. object' \subseteq Content /\ lock' \in [Content -> Session \cup {None}]
  BY <1>1 DEF IInv, TypeOK
<1> HIDE DEF y
<1> QED BY <1>1, <1>2, <1>3, <1>4, SameKeeps

----------------------------------------------------------------------------
(* Commits.                                                                *)

\* Session s ends. Its commit may relink the track it handles, and pending
\* tracks to their own transcode; it counts nothing on a row that another
\* session holds.
LEMMA CommitKeeps ==
  ASSUME IInv, NEW s \in Session, tx' = [tx EXCEPT ![s] = NoTx], lock' = Unlock(s),
         object' = object, NoRowToCollect',
         row' \in [Content -> Row], track' \in [Track -> TrackRow],
         status' \in [Track -> Status],
         \A t \in Track : track'[t].link # None => row'[track'[t].link].live,
         AbsentUnlinked',
         \A t \in Track : status'[t] # status[t] => t = tx[s].track,
         \A d \in Content, t \in Track :
           lock[d] \in Session \ {s} /\ t \in Users(d)' => t \in Users(d),
         \A t \in Track :
           \/ track'[t].link \in {None, track[t].link, Mp3[t]}
           \/ t = tx[s].track /\ tx[s].op \in {"dedup", "import"}
  PROVE  IInv'
<1>1. /\ tx'[s] = NoTx /\ \A p \in Session \ {s} : tx'[p] = tx[p]
      /\ tx' \in [Session -> Tx]
  BY Nothing DEF IInv, TypeOK
<1>2. TypeOK'
  BY <1>1 DEF IInv, TypeOK, Unlock
<1>3. SessionsSound'
  BY <1>1, Nothing DEF IInv, SessionsSound
<1>4. LocksHeld'
  <2> SUFFICES ASSUME NEW p \in Session, p # s
               PROVE  /\ tx[p].new => lock'[tx[p].content] = p
                      /\ tx[p].stage = "purging" => lock'[tx[p].trk.link] = p
    BY <1>1, Nothing DEF LocksHeld
  <2>1. /\ tx[p].new => tx[p].content \in Content /\ lock[tx[p].content] = p
        /\ tx[p].stage = "purging" => tx[p].trk.link \in Content /\ lock[tx[p].trk.link] = p
    BY DEF IInv, SessionsSound, SessionSound, LocksHeld
  <2> QED BY <2>1 DEF Unlock
<1>5. PurgesAlone'
  <2> SUFFICES ASSUME NEW p \in Session, p # s, tx[p].stage = "purging",
                      NEW t \in Track, t \in Users(tx[p].trk.link)'
               PROVE  t = tx[p].track
    <3>1. \A d : Users(d)' \subseteq Track
      BY DEF Users
    <3> QED BY <1>1, <3>1, Nothing DEF PurgesAlone
  <2>1. tx[p].trk.link \in Content /\ lock[tx[p].trk.link] = p
    BY DEF IInv, SessionsSound, SessionSound, LocksHeld
  <2>2. t \in Users(tx[p].trk.link)
    BY <2>1
  <2> QED BY <2>2 DEF IInv, PurgesAlone
<1>6. CreatesAlone'
  <2> SUFFICES ASSUME NEW p \in Session, p # s, tx[p].op \in {"dedup", "import"}
               PROVE  /\ status'[tx[p].track] = "absent"
                      /\ \A q \in Session : q # p => tx'[q].track # tx[p].track
    BY <1>1, Nothing DEF CreatesAlone
  <2>1. tx[p].track \in Track /\ tx[p].track # None
    BY NoneAssumption DEF IInv, SessionsSound, SessionSound, AttachOps
  <2>2. /\ status[tx[p].track] = "absent"
        /\ \A q \in Session : q # p => tx[q].track # tx[p].track
    BY DEF IInv, CreatesAlone
  <2> QED BY <1>1, <2>1, <2>2, Nothing
<1>7. StaysTranscoded'
  <2> SUFFICES ASSUME NEW p \in Session, p # s, tx[p].op = "transcode",
                      tx[p].trk.link = tx[p].content
               PROVE  track'[tx[p].track].link \in {None, tx[p].content}
    BY <1>1, Nothing DEF StaysTranscoded
  <2>1. tx[p].track \in Track /\ tx[p].content = Mp3[tx[p].track]
    BY DEF IInv, SessionsSound, SessionSound, AttachOps
  <2>2. track[tx[p].track].link \in {None, tx[p].content}
    BY DEF IInv, StaysTranscoded
  <2>3. ~(tx[s].op \in {"dedup", "import"} /\ tx[p].track = tx[s].track)
    BY DEF IInv, CreatesAlone
  <2> QED BY <2>1, <2>2, <2>3
<1> QED BY <1>2, <1>3, <1>4, <1>5, <1>6, <1>7 DEF IInv

\* A row that a release leaves counts a reference; only a purged one goes.
LEMMA Released ==
  ASSUME Sizes, IInv, NEW s \in Session, CanCommitRelease(tx[s])
  PROVE  /\ ReleasedRows(tx[s]) \in [Content -> Row]
         /\ \A c \in Content :
              /\ ReleasedRows(tx[s])[c].live => row[c].live /\ ReleasedRows(tx[s])[c].ref > 0
              /\ row[c].live /\ ~ReleasedRows(tx[s])[c].live
                   => Purged(tx[s]) /\ c = tx[s].trk.link
<1> DEFINE x == tx[s]
           r == ReleasedRows(x)
<1> SUFFICES ASSUME NEW c \in Content
             PROVE  /\ r[c] \in Row
                    /\ r[c].live => row[c].live /\ r[c].ref > 0
                    /\ row[c].live /\ ~r[c].live => Purged(x) /\ c = x.trk.link
  BY DEF ReleasedRows
<1>1. row[c] \in Row /\ (row[c].live => row[c].ref > 0)
  BY DEF IInv, TypeOK, NoRowToCollect
<1>2. r[c] = IF x.trk.link # c THEN row[c]
             ELSE IF Purged(x) THEN [row[c] EXCEPT !.live = FALSE, !.ref = 0]
             ELSE IF Counted(x) THEN [row[c] EXCEPT !.ref = Remaining(c, x.track)]
             ELSE row[c]
  BY DEF ReleasedRows
<1>3. Remaining(c, x.track) \in 0..RefBound
  BY RemainingType DEF IInv
<1>4. Counted(x) /\ x.trk.link = c => Remaining(c, x.track) > 0
  BY DEF CanCommitRelease
<1> HIDE DEF r, x
<1>5. CASE x.trk.link = c /\ Purged(x)
  <2>1. r[c] = [row[c] EXCEPT !.live = FALSE, !.ref = 0]
    BY <1>2, <1>5
  <2>2. row[c].id \in 0..RowBound
        /\ r[c] = [live |-> FALSE, id |-> row[c].id, ref |-> 0]
    BY <1>1, <2>1 DEF Row
  <2>3. 0 \in 0..RefBound
    BY BoundAssumption
  <2>4. r[c] \in Row /\ r[c].live = FALSE
    BY <2>2, <2>3 DEF Row
  <2> QED BY <1>5, <2>4
<1>6. CASE x.trk.link = c /\ ~Purged(x) /\ Counted(x)
  <2>1. r[c] = [row[c] EXCEPT !.ref = Remaining(c, x.track)]
    BY <1>2, <1>6
  <2> QED BY <1>1, <1>3, <1>4, <1>6, <2>1 DEF Row
<1>7. CASE ~(x.trk.link = c /\ (Purged(x) \/ Counted(x)))
  BY <1>1, <1>2, <1>7
<1> QED BY <1>5, <1>6, <1>7

LEMMA UnlinkedType ==
  ASSUME IInv, NEW s \in Session, NEW t \in Track
  PROVE  /\ Unlinked(tx[s])[t] \in TrackRow
         /\ Unlinked(tx[s])[t].freed = track[t].freed
         /\ \/ Unlinked(tx[s])[t].link = None
            \/ /\ Unlinked(tx[s])[t].link = track[t].link
               /\ ~(Purged(tx[s]) /\ track[t].link = tx[s].trk.link)
<1>1. track[t] \in TrackRow
  BY DEF IInv, TypeOK
<1>2. CASE Purged(tx[s]) /\ track[t].link = tx[s].trk.link
  <2>1. Unlinked(tx[s])[t] = [track[t] EXCEPT !.link = None]
    BY <1>2 DEF Unlinked
  <2> QED BY <1>1, <2>1 DEF TrackRow
<1>3. CASE ~(Purged(tx[s]) /\ track[t].link = tx[s].trk.link)
  <2>1. Unlinked(tx[s])[t] = track[t]
    BY <1>3 DEF Unlinked
  <2> QED BY <1>1, <1>3, <2>1
<1> QED BY <1>2, <1>3

\* What a release leaves linked is there.
LEMMA StillLive ==
  ASSUME Sizes, IInv, NEW s \in Session, CanCommitRelease(tx[s]), NEW t \in Track,
         Unlinked(tx[s])[t].link # None
  PROVE  /\ Unlinked(tx[s])[t].link = track[t].link /\ track[t].link \in Content
         /\ ReleasedRows(tx[s])[track[t].link].live
<1>1. /\ Unlinked(tx[s])[t].link = track[t].link
      /\ ~(Purged(tx[s]) /\ track[t].link = tx[s].trk.link)
  BY UnlinkedType
<1>2. track[t].link \in Content /\ row[track[t].link].live
  BY <1>1 DEF IInv, TypeOK, TrackRow
<1> QED BY <1>1, <1>2, Released

LEMMA AbortStep ==
  ASSUME IInv, NEW s \in Session, Abort(s)
  PROVE  IInv'
<1>1. /\ tx' = [tx EXCEPT ![s] = NoTx] /\ lock' = Unlock(s)
      /\ UNCHANGED <<row, object, track, status>>
  BY DEF Abort
<1>2. NoRowToCollect' /\ AbsentUnlinked' /\ \A d : Users(d)' = Users(d)
  BY <1>1 DEF IInv, NoRowToCollect, AbsentUnlinked, Present, Users
<1>3. /\ row' \in [Content -> Row] /\ track' \in [Track -> TrackRow]
      /\ status' \in [Track -> Status]
      /\ \A t \in Track : track'[t].link # None => row'[track'[t].link].live
  BY <1>1 DEF IInv, TypeOK
<1> QED BY <1>1, <1>2, <1>3, CommitKeeps

LEMMA CommitHideStep ==
  ASSUME Sizes, IInv, NEW s \in Session, CommitHide(s)
  PROVE  IInv'
<1> DEFINE x == tx[s]
           u == x.track
           f == Purged(x) \/ Counted(x) \/ Unlinked(x)[u].freed
<1>1. /\ x.op = "hide" /\ x.stage \in {"loaded", "purging"} /\ Present(u)
      /\ CanCommitRelease(x) /\ row' = ReleasedRows(x)
      /\ track' = [Unlinked(x) EXCEPT ![u].freed = Purged(x) \/ Counted(x) \/ @]
      /\ status' = [status EXCEPT ![u] = "hidden"]
      /\ lock' = Unlock(s) /\ tx' = [tx EXCEPT ![s] = NoTx] /\ object' = object
  BY DEF CommitHide
<1>2. u \in Track
  BY <1>1 DEF IInv, SessionsSound, SessionSound
<1>3. \A t \in Track : /\ track'[t] \in TrackRow /\ track'[t].link = Unlinked(x)[t].link
                       /\ ~track'[t].freed => ~track[t].freed
  <2> TAKE t \in Track
  <2>1. Unlinked(x)[t] \in TrackRow /\ Unlinked(x)[t].freed = track[t].freed
    BY UnlinkedType
  <2>2. CASE t = u
    <3>1. track'[t] = [Unlinked(x)[t] EXCEPT !.freed = f]
      BY <1>1, <2>2 DEF Unlinked
    <3>2. f \in BOOLEAN
      BY <2>1, <2>2 DEF TrackRow, Purged, Counted, Releases, Releasable
    <3>3. /\ track'[t] \in TrackRow /\ track'[t].link = Unlinked(x)[t].link
          /\ track'[t].freed = f
      <4> HIDE DEF f
      <4> QED BY <2>1, <3>1, <3>2 DEF TrackRow
    <3> QED BY <2>1, <2>2, <3>3
  <2>3. CASE t # u
    <3>1. track'[t] = Unlinked(x)[t]
      BY <1>1, <2>3 DEF Unlinked
    <3> QED BY <2>1, <3>1
  <2> QED BY <2>2, <2>3
<1>4. track' \in [Track -> TrackRow] /\ status' \in [Track -> Status]
  <2>1. DOMAIN track' = Track /\ track' = [t \in Track |-> track'[t]]
    BY <1>1 DEF Unlinked
  <2> QED BY <1>1, <1>3, <2>1 DEF IInv, TypeOK, Status
<1>5. \A t \in Track : track'[t].link # None => row'[track'[t].link].live
  BY <1>1, <1>3, StillLive
<1>6. row' \in [Content -> Row] /\ NoRowToCollect'
  BY <1>1, Released DEF NoRowToCollect
<1>7. \A t \in Track : /\ status'[t] # status[t] => t = u
                       /\ Present(t)' <=> Present(t)
  BY <1>1, <1>2 DEF IInv, TypeOK, Present
<1>8. \A t \in Track : track'[t].link \in {None, track[t].link}
  BY <1>3, UnlinkedType
<1>9. AbsentUnlinked'
  BY <1>7, <1>8 DEF IInv, AbsentUnlinked
<1>10. \A d \in Content, t \in Track : t \in Users(d)' => t \in Users(d)
  BY <1>3, <1>7, <1>8, NoneAssumption DEF Users
<1> QED BY <1>1, <1>4, <1>5, <1>6, <1>7, <1>8, <1>9, <1>10, CommitKeeps

LEMMA CommitDeleteStep ==
  ASSUME Sizes, IInv, NEW s \in Session, CommitDelete(s)
  PROVE  IInv'
<1> DEFINE x == tx[s]
           u == x.track
<1>1. /\ x.op = "delete" /\ Present(u) /\ row' = ReleasedRows(x)
      /\ track' = [Unlinked(x) EXCEPT ![u] = NoTrack]
      /\ status' = [status EXCEPT ![u] = "deleted"]
      /\ lock' = Unlock(s) /\ tx' = [tx EXCEPT ![s] = NoTx] /\ object' = object
      /\ x.stage \in {"purging", "keyless", "loaded"}
      /\ x.stage = "loaded" => CanCommitRelease(x)
  BY DEF CommitDelete
<1>2. u \in Track
  BY <1>1 DEF IInv, SessionsSound, SessionSound
<1>3. CanCommitRelease(x)
  BY <1>1 DEF CanCommitRelease, Counted, Purged, Releases
<1>4. \A t \in Track : track'[t] = IF t = u THEN NoTrack ELSE Unlinked(x)[t]
  BY <1>1 DEF Unlinked
<1>5. track' \in [Track -> TrackRow] /\ status' \in [Track -> Status]
  <2>1. track' = [t \in Track |-> track'[t]]
    BY <1>1 DEF Unlinked
  <2> QED BY <1>1, <1>4, <2>1, UnlinkedType, Nothing DEF IInv, TypeOK, Status
<1>6. \A t \in Track : track'[t].link # None => row'[track'[t].link].live
  BY <1>1, <1>3, <1>4, StillLive, Nothing
<1>7. row' \in [Content -> Row] /\ NoRowToCollect'
  BY <1>1, <1>3, Released DEF NoRowToCollect
<1>8. \A t \in Track : /\ status'[t] # status[t] => t = u
                       /\ Present(t)' => Present(t) /\ t # u
                       /\ t # u => (Present(t)' <=> Present(t))
  BY <1>1, <1>2 DEF IInv, TypeOK, Present
<1>9. \A t \in Track : track'[t].link \in {None, track[t].link}
  BY <1>4, UnlinkedType, Nothing
<1>10. AbsentUnlinked'
  BY <1>4, <1>8, <1>9, Nothing DEF IInv, AbsentUnlinked
<1>11. \A d \in Content, t \in Track : t \in Users(d)' => t \in Users(d)
  BY <1>4, <1>8, <1>9, UnlinkedType, NoneAssumption DEF Users
<1> QED BY <1>1, <1>5, <1>6, <1>7, <1>8, <1>9, <1>10, <1>11, CommitKeeps

LEMMA Recount ==
  ASSUME NEW r \in Row, NEW a \in 0..RefBound
  PROVE  /\ [r EXCEPT !.ref = a] \in Row
         /\ r.live => [r EXCEPT !.ref = a].live
         /\ [r EXCEPT !.ref = a].ref = a
BY DEF Row

\* What the flush of an attach writes to the counted row.
LEMMA Acquired ==
  ASSUME Sizes, IInv, NEW s \in Session, tx[s].op \in AttachOps,
         tx[s].stage \in {"ready", "purging"}, Acquire(tx[s]) <= RefBound
  PROVE  /\ [tx[s].row EXCEPT !.ref = Acquire(tx[s])] \in Row
         /\ [tx[s].row EXCEPT !.ref = Acquire(tx[s])].live
         /\ [tx[s].row EXCEPT !.ref = Acquire(tx[s])].ref > 0
         /\ Acquire(tx[s]) = tx[s].row.ref => Attached(tx[s]) /\ Pending(tx[s]) = {}
<1> DEFINE x == tx[s]
           n == Cardinality(Pending(x))
           a == Acquire(x)
<1>1. /\ x.row \in Row /\ x.row.live /\ (x.new \/ x.row.ref > 0)
      /\ x.new => x.row.ref = 0 /\ x.trk.link # x.content
  BY DEF IInv, TypeOK, SessionsSound, SessionSound, Tx
<1>2. n \in 0..RefBound /\ (n = 0 <=> Pending(x) = {})
  <2>1. Pending(x) \in SUBSET Track
    BY DEF Pending
  <2> QED BY <2>1, Counting
<1>3. a = x.row.ref + (IF Attached(x) THEN 0 ELSE 1) + n
  BY DEF Acquire
<1>4. x.row.ref \in Nat
  BY <1>1, BoundAssumption DEF Row
<1>5. x.new => ~Attached(x)
  BY <1>1 DEF Attached
<1>6. n \in Nat /\ a \in Nat
  BY <1>2, <1>3, <1>4, BoundAssumption
<1>7. a > 0 /\ (a = x.row.ref => Attached(x) /\ n = 0)
  <2> HIDE DEF n, a, x
  <2> QED BY <1>1, <1>3, <1>4, <1>5, <1>6
<1>8. a \in 0..RefBound
  BY <1>6, BoundAssumption
<1>9. /\ [x.row EXCEPT !.ref = a] \in Row
      /\ [x.row EXCEPT !.ref = a].live /\ [x.row EXCEPT !.ref = a].ref = a
  BY <1>1, <1>8, Recount
<1> HIDE DEF n, a
<1> QED BY <1>2, <1>7, <1>9 DEF a, n

\* The link of a track after an attach that handles it.
LEMMA LinkedType ==
  ASSUME IInv, NEW s \in Session, tx[s].op \in AttachOps,
         NEW cur \in TrackRow, cur.link \in {None, track[tx[s].track].link}
  PROVE  /\ Linked(tx[s], cur) \in TrackRow
         /\ \/ Linked(tx[s], cur) = cur /\ tx[s].op = "transcode"
            \/ /\ ~Attached(tx[s])
               /\ Linked(tx[s], cur).link \in {None, tx[s].content}
<1> DEFINE x == tx[s]
           c == x.content
           f == IF x.trk.freed \/ Purged(x) \/ Counted(x) THEN FALSE ELSE cur.freed
           k == IF x.trk.key = c THEN cur.key ELSE c
           l == IF x.trk.link = c THEN cur.link ELSE c
<1>1. c \in Content /\ (x.op \in {"dedup", "import"} => x.trk = NoTrack)
  BY DEF IInv, SessionsSound, SessionSound
<1>2. CASE x.op # "transcode"
  <2>1. Linked(x, cur) = [NoTrack EXCEPT !.link = c, !.key = c]
    BY <1>2 DEF Linked
  <2>2. Linked(x, cur) \in TrackRow /\ Linked(x, cur).link = c
    BY <1>1, <2>1 DEF NoTrack, TrackRow
  <2>3. ~Attached(x)
    BY <1>1, <1>2, Nothing, NoneAssumption DEF Attached, AttachOps
  <2> QED BY <2>2, <2>3
<1>3. CASE x.op = "transcode" /\ Attached(x)
  BY <1>3 DEF Linked
<1>4. CASE x.op = "transcode" /\ ~Attached(x)
  <2>1. Linked(x, cur) = [cur EXCEPT !.link = l, !.key = k, !.freed = f]
    BY <1>4 DEF Linked
  <2>2. k \in Content \cup {None} /\ f \in BOOLEAN /\ l \in {None, c}
    BY <1>1, <1>4 DEF TrackRow, IInv, StaysTranscoded
  <2> HIDE DEF l, k, f
  <2>3. Linked(x, cur) \in TrackRow /\ Linked(x, cur).link = l
    BY <1>1, <2>1, <2>2 DEF TrackRow
  <2> QED BY <1>4, <2>2, <2>3
<1> QED BY <1>2, <1>3, <1>4

LEMMA CommitAttachStep ==
  ASSUME Sizes, IInv, NEW s \in Session, CommitAttach(s)
  PROVE  IInv'
<1> DEFINE x == tx[s]
           c == x.content
           u == x.track
           w == Acquire(x) # x.row.ref \/ x.new
           b == [x.row EXCEPT !.ref = Acquire(x)]
<1>1. /\ x.op \in AttachOps /\ x.stage \in {"ready", "purging"}
      /\ x.op = "transcode" => Present(u)
      /\ CanCommitRelease(x)
      /\ w => x.new \/ lock[c] = None
      /\ Acquire(x) <= RefBound
      /\ row' = IF w THEN [ReleasedRows(x) EXCEPT ![c] = b] ELSE ReleasedRows(x)
      /\ track' = [t \in Track |->
                     IF t = u THEN Linked(x, Unlinked(x)[t])
                     ELSE IF t \in Pending(x)
                       THEN [track[t] EXCEPT !.link = c, !.key = c, !.freed = FALSE]
                     ELSE Unlinked(x)[t]]
      /\ status' = IF x.op = "transcode" THEN status
                   ELSE [status EXCEPT ![u] = "active"]
      /\ lock' = Unlock(s) /\ tx' = [tx EXCEPT ![s] = NoTx] /\ object' = object
  BY DEF CommitAttach, AttachOps
<1>2. /\ u \in Track /\ c \in Content
      /\ x.op = "transcode" => c = Mp3[u]
      /\ x.new => lock[c] = s
  BY <1>1 DEF IInv, SessionsSound, SessionSound, LocksHeld
<1>3. b \in Row /\ b.live /\ b.ref > 0 /\ (~w => Attached(x) /\ Pending(x) = {})
  BY <1>1, Acquired
<1>4. \A t \in Pending(x) : t # u /\ x.op = "transcode" /\ Present(t) /\ c = Mp3[t]
  BY DEF Pending
<1> HIDE DEF b, w
<1>5. \A d \in Content : row'[d] = IF w /\ d = c THEN b ELSE ReleasedRows(x)[d]
  BY <1>1, <1>2 DEF ReleasedRows
<1>6. row' \in [Content -> Row] /\ NoRowToCollect'
  <2>1. \A d \in Content : row'[d] \in Row /\ (row'[d].live => row'[d].ref > 0)
    BY <1>1, <1>3, <1>5, Released
  <2>2. row' = [d \in Content |-> row'[d]]
    BY <1>1 DEF ReleasedRows
  <2> QED BY <2>1, <2>2 DEF NoRowToCollect
<1>7. \A t \in Track :
        /\ track'[t] \in TrackRow
        /\ \/ track'[t] = Unlinked(x)[t] /\ (t = u => x.op = "transcode")
           \/ /\ w /\ t \in Pending(x) \cup {u}
              /\ track'[t].link \in {None, c}
  <2> TAKE t \in Track
  <2>1. Unlinked(x)[t] \in TrackRow /\ Unlinked(x)[t].link \in {None, track[t].link}
    BY UnlinkedType
  <2>2. CASE t = u
    <3>1. track'[t] = Linked(x, Unlinked(x)[t])
      BY <1>1, <2>2
    <3> QED BY <1>1, <1>3, <2>1, <2>2, <3>1, LinkedType
  <2>3. CASE t # u /\ t \in Pending(x)
    <3>1. track'[t] = [track[t] EXCEPT !.link = c, !.key = c, !.freed = FALSE]
      BY <1>1, <2>3
    <3>2. track[t] \in TrackRow
      BY DEF IInv, TypeOK
    <3>3. track'[t] \in TrackRow /\ track'[t].link = c
      BY <1>2, <3>1, <3>2 DEF TrackRow
    <3> QED BY <1>3, <2>3, <3>3
  <2>4. CASE t # u /\ t \notin Pending(x)
    BY <1>1, <2>1, <2>4
  <2> QED BY <2>2, <2>3, <2>4
<1>8. track' \in [Track -> TrackRow] /\ status' \in [Track -> Status]
  <2>1. track' = [t \in Track |-> track'[t]]
    BY <1>1
  <2> QED BY <1>1, <1>7, <2>1 DEF IInv, TypeOK, Status
<1>9. \A t \in Track : track'[t].link # None => row'[track'[t].link].live
  <2> SUFFICES ASSUME NEW t \in Track, track'[t].link # None
               PROVE  row'[track'[t].link].live
    OBVIOUS
  <2>1. CASE track'[t] = Unlinked(x)[t]
    <3>1. track'[t].link \in Content /\ ReleasedRows(x)[track'[t].link].live
      <4>1. CanCommitRelease(x) /\ Unlinked(x)[t].link # None
        BY <1>1, <2>1
      <4> QED BY <2>1, <4>1, StillLive
    <3> QED BY <1>3, <1>5, <3>1
  <2>2. CASE w /\ track'[t].link = c
    BY <1>2, <1>3, <1>5, <2>2
  <2> QED BY <1>7, <2>1, <2>2
<1>10. \A t \in Track : /\ status'[t] # status[t] => t = u
                        /\ t \in Pending(x) \cup {u} => Present(t)'
                        /\ t # u \/ x.op = "transcode" => (Present(t)' <=> Present(t))
  BY <1>1, <1>2, <1>4 DEF IInv, TypeOK, Present
<1>11. AbsentUnlinked'
  <2> SUFFICES ASSUME NEW t \in Track, ~Present(t)'
               PROVE  track'[t].link = None
    BY DEF AbsentUnlinked
  <2>1. track'[t] = Unlinked(x)[t] /\ ~Present(t)
    BY <1>7, <1>10
  <2> QED BY <2>1, UnlinkedType DEF IInv, AbsentUnlinked
<1>12. \A d \in Content, t \in Track :
         lock[d] \in Session \ {s} /\ t \in Users(d)' => t \in Users(d)
  <2> SUFFICES ASSUME NEW d \in Content, NEW t \in Track, lock[d] \in Session \ {s},
                      t \in Users(d)'
               PROVE  t \in Users(d)
    OBVIOUS
  <2>1. track'[t].link = d /\ ~track'[t].freed /\ Present(t)'
    BY DEF Users
  <2>2. ~(w /\ d = c)
    BY <1>1, <1>2, NoneAssumption
  <2>3. track'[t] = Unlinked(x)[t] /\ (t = u => x.op = "transcode")
    BY <1>7, <2>1, <2>2, NoneAssumption
  <2> QED BY <1>10, <2>1, <2>3, UnlinkedType, NoneAssumption DEF Users
<1>13. \A t \in Track :
         \/ track'[t].link \in {None, track[t].link, Mp3[t]}
         \/ t = u /\ x.op \in {"dedup", "import"}
  <2> TAKE t \in Track
  <2>1. Unlinked(x)[t].link \in {None, track[t].link}
    BY UnlinkedType
  <2>2. t \in Pending(x) \cup {u} => c = Mp3[t] \/ (t = u /\ x.op \in {"dedup", "import"})
    BY <1>1, <1>2, <1>4 DEF AttachOps
  <2> HIDE DEF x, c, u
  <2> QED BY <1>7, <2>1, <2>2
<1> QED BY <1>1, <1>6, <1>8, <1>9, <1>10, <1>11, <1>12, <1>13, CommitKeeps

----------------------------------------------------------------------------
(* The steps of tracks, and the theorems.                                  *)

\* An upload starts, or a hidden track is shown.
LEMMA TrackStep ==
  ASSUME IInv, NEW t \in Track, upload(t) \/ show(t)
  PROVE  IInv'
<1>1. /\ UNCHANGED <<row, object, track, lock, tx>>
      /\ status' = [status EXCEPT ![t] = "active"]
      /\ Present(t) \/ (track[t].link = None /\ \A s \in Session : tx[s].track # t)
      /\ status[t] # "absent" \/ \A s \in Session : tx[s].track # t
  BY DEF upload, show, Present, IInv, AbsentUnlinked
<1>2. TypeOK' /\ NoRowToCollect' /\ SessionsSound' /\ LocksHeld' /\ StaysTranscoded'
  BY <1>1 DEF IInv, TypeOK, Status, NoRowToCollect, SessionsSound, LocksHeld, StaysTranscoded
<1>3. \A q \in Track : /\ Present(q)' <=> (Present(q) \/ q = t)
                       /\ q # t => status'[q] = status[q]
  BY <1>1 DEF IInv, TypeOK, Present
<1>4. AbsentUnlinked'
  BY <1>1, <1>3 DEF IInv, AbsentUnlinked
<1>5. PurgesAlone'
  <2> SUFFICES ASSUME NEW s \in Session, tx[s].stage = "purging",
                      NEW q \in Track, q \in Users(tx[s].trk.link)'
               PROVE  q = tx[s].track
    <3>1. \A d : Users(d)' \subseteq Track
      BY DEF Users
    <3> QED BY <1>1, <3>1 DEF PurgesAlone
  <2>1. tx[s].trk.link \in Content
    BY DEF IInv, SessionsSound, SessionSound
  <2>2. q \in Users(tx[s].trk.link)
    BY <1>1, <1>3, <2>1, NoneAssumption DEF Users
  <2> QED BY <2>2 DEF IInv, PurgesAlone
<1>6. CreatesAlone'
  <2> SUFFICES ASSUME NEW s \in Session, tx[s].op \in {"dedup", "import"}
               PROVE  /\ status'[tx[s].track] = "absent"
                      /\ \A p \in Session : p # s => tx[p].track # tx[s].track
    BY <1>1 DEF CreatesAlone
  <2>1. /\ status[tx[s].track] = "absent" /\ tx[s].track \in Track
        /\ \A p \in Session : p # s => tx[p].track # tx[s].track
    BY DEF IInv, CreatesAlone, SessionsSound, SessionSound, AttachOps
  <2> QED BY <1>1, <1>3, <2>1
<1> QED BY <1>2, <1>4, <1>5, <1>6 DEF IInv

LEMMA InitHolds == Init => IInv
<1> SUFFICES ASSUME Init PROVE IInv
  OBVIOUS
<1>1. TypeOK /\ NoRowToCollect /\ AbsentUnlinked
  BY Nothing DEF Init, TypeOK, NoRowToCollect, AbsentUnlinked, Status
<1>2. SessionsSound /\ LocksHeld /\ PurgesAlone /\ CreatesAlone /\ StaysTranscoded
  BY Nothing DEF Init, SessionsSound, LocksHeld, PurgesAlone, CreatesAlone, StaysTranscoded
<1> QED BY <1>1, <1>2 DEF IInv

LEMMA Inductive == ASSUME Sizes PROVE IInv /\ [Next]_vars => IInv'
<1> SUFFICES ASSUME IInv, [Next]_vars PROVE IInv'
  OBVIOUS
<1>1. ASSUME NEW s \in Session, Attaching(s) PROVE IInv'
  BY <1>1, BeginAttachStep, PutStep, InsertStep, LoseRaceStep, CommitAttachStep
     DEF Attaching, AttachOps
<1>2. ASSUME NEW s \in Session, Releasing(s) PROVE IInv'
  BY <1>2, BeginReleaseStep, PurgeStep, CommitHideStep, DeleteKeyStep, CommitDeleteStep
     DEF Releasing
<1>3. CASE UNCHANGED vars
  <2>1. \A d : Users(d)' = Users(d)
    BY <1>3 DEF vars, Users, Present
  <2>2. TypeOK' /\ NoRowToCollect' /\ SessionsSound' /\ LocksHeld'
    BY <1>3 DEF vars, IInv, TypeOK, NoRowToCollect, SessionsSound, LocksHeld
  <2>3. PurgesAlone' /\ AbsentUnlinked' /\ CreatesAlone' /\ StaysTranscoded'
    BY <1>3, <2>1 DEF vars, IInv, PurgesAlone, AbsentUnlinked, Present, CreatesAlone, StaysTranscoded
  <2> QED BY <2>2, <2>3 DEF IInv
<1> QED BY <1>1, <1>2, <1>3, AbortStep, TrackStep DEF Next

THEOREM Invariance == ASSUME Sizes PROVE Spec => []IInv
BY InitHolds, Inductive, PTL DEF Spec

\* Types, and the foreign key: a track's link is to a row that is there, whatever
\* row a session purged meanwhile.
THEOREM TypeCorrect == ASSUME Sizes PROVE Spec => []TypeOK
<1>1. IInv => TypeOK
  BY DEF IInv
<1> QED BY <1>1, Invariance, PTL

\* A committed row counts a reference: audio_blob_gc_worker finds no row with
\* ref_count <= 0, however many sessions overwrite each other's counts.
THEOREM NothingToCollect == ASSUME Sizes PROVE Spec => []NoRowToCollect
<1>1. IInv => NoRowToCollect
  BY DEF IInv
<1> QED BY <1>1, Invariance, PTL

\* A commit takes a counted link away from no track but the one it handles: the
\* row was locked when nobody else counted on it, and nobody could since.
LEMMA CommitSpares ==
  ASSUME IInv, NEW s \in Session, CommitHide(s) \/ CommitDelete(s) \/ CommitAttach(s),
         NEW t \in Track, NEW c \in Content, t \in Users(c), track'[t].link = None
  PROVE  tx[s].track = t /\ tx'[s] # tx[s]
<1>1. tx' = [tx EXCEPT ![s] = NoTx] /\ tx[s].op # "none"
  BY DEF CommitHide, CommitDelete, CommitAttach
<1>2. tx'[s] # tx[s]
  BY <1>1, Nothing DEF IInv, TypeOK
<1>3. track[t].link = c /\ c # None
  BY NoneAssumption DEF Users
<1>4. CASE Unlinked(tx[s])[t].link = None
  <2>1. Purged(tx[s]) /\ track[t].link = tx[s].trk.link
    BY <1>3, <1>4 DEF Unlinked
  <2> QED BY <1>2, <1>3, <2>1 DEF IInv, PurgesAlone, Purged
<1>5. CASE Unlinked(tx[s])[t].link # None /\ t # tx[s].track
  <2>1. \/ track'[t] = Unlinked(tx[s])[t]
        \/ tx[s].op \in AttachOps
             /\ track'[t] = [track[t] EXCEPT !.link = tx[s].content,
                               !.key = tx[s].content, !.freed = FALSE]
    BY <1>5 DEF CommitHide, CommitDelete, CommitAttach, AttachOps, Unlinked
  <2>2. tx[s].op \in AttachOps => tx[s].content # None
    BY NoneAssumption DEF IInv, SessionsSound, SessionSound
  <2>3. track[t] \in TrackRow
    BY DEF IInv, TypeOK
  <2> QED BY <1>5, <2>1, <2>2, <2>3 DEF TrackRow
<1> QED BY <1>2, <1>4, <1>5

THEOREM SharedBlobsKept == ASSUME Sizes PROVE Spec => SharedBlobKept
<1> DEFINE A == \A t \in Track, c \in Content :
                  t \in Users(c) /\ track'[t].link = None
                    => \E s \in Session : tx[s].track = t /\ tx'[s] # tx[s]
<1>1. IInv /\ [Next]_vars => [A]_vars
  <2> SUFFICES ASSUME IInv, Next, NEW t \in Track, NEW c \in Content,
                      t \in Users(c), track'[t].link = None
               PROVE  \E s \in Session : tx[s].track = t /\ tx'[s] # tx[s]
    OBVIOUS
  <2>1. track[t].link # None
    BY NoneAssumption DEF Users
  <2>2. PICK s \in Session : CommitHide(s) \/ CommitDelete(s) \/ CommitAttach(s)
    BY <2>1 DEF Next, Attaching, Releasing, upload, show, BeginAttach, put_cas_audio,
                Insert, LoseRace, BeginRelease, Purge, DeleteKey, Abort
  <2> QED BY <2>2, CommitSpares
<1> QED BY <1>1, Invariance, PTL DEF Spec, SharedBlobKept

----------------------------------------------------------------------------
(* The counts. What a session inserted or saw of its track's row, besides. *)

LoadedSound(x) ==
  /\ x.new => ~row[x.content].live /\ x.row.id = row[x.content].id + 1
  /\ x.trk.link # None => x.linkId <= row[x.trk.link].id
  /\ x.stage = "keyless" => ~Releasable(x)

LoadsSound == \A s \in Session : LoadedSound(tx[s])

Commits(s) == CommitHide(s) \/ CommitDelete(s) \/ CommitAttach(s)

\* The rows of one content follow each other: a row that goes does not come back,
\* its successor has the next id.
Succeeds(c) ==
  \/ row'[c].id = row[c].id /\ (row'[c].live => row[c].live)
  \/ row'[c].id = row[c].id + 1

\* What a commit starts from.
LEMMA AtCommit ==
  ASSUME IInv, NEW s \in Session, Commits(s)
  PROVE  /\ tx[s] \in Tx /\ SessionSound(tx[s]) /\ tx[s].track \in Track
         /\ tx[s].op \in AttachOps \cup {"hide", "delete"}
         /\ tx[s].op \notin {"dedup", "import"} => Present(tx[s].track)
         /\ CanCommitRelease(tx[s])
         /\ tx' = [tx EXCEPT ![s] = NoTx] /\ tx'[s] = NoTx /\ tx'[s] # tx[s]
         /\ \A p \in Session \ {s} : tx'[p] = tx[p]
         /\ tx[s].op \in {"hide", "delete"} => row' = ReleasedRows(tx[s])
<1>1. /\ tx' = [tx EXCEPT ![s] = NoTx]
      /\ tx[s].op \in AttachOps \cup {"hide", "delete"}
      /\ tx[s].stage \in {"loaded", "purging", "keyless", "ready"}
      /\ tx[s].op \notin {"dedup", "import"} => Present(tx[s].track)
      /\ tx[s].op \in {"hide", "delete"} => row' = ReleasedRows(tx[s])
      /\ CanCommitRelease(tx[s]) \/ tx[s].stage \in {"purging", "keyless"}
  BY DEF Commits, CommitHide, CommitDelete, CommitAttach, AttachOps
<1>2. CanCommitRelease(tx[s])
  BY <1>1 DEF CanCommitRelease, Counted, Purged, Releases
<1>3. tx[s] \in Tx /\ SessionSound(tx[s]) /\ tx[s].track \in Track
  BY <1>1 DEF IInv, TypeOK, SessionsSound, SessionSound
<1>4. tx'[s] = NoTx /\ \A p \in Session \ {s} : tx'[p] = tx[p]
  BY <1>1, Nothing DEF IInv, TypeOK
<1> QED BY <1>1, <1>2, <1>3, <1>4, Nothing DEF AttachOps

\* A release changes the row that it holds, or that nobody holds.
LEMMA ReleasedSucceeds ==
  ASSUME IInv, NEW s \in Session, CanCommitRelease(tx[s]), NEW c \in Content
  PROVE  /\ ReleasedRows(tx[s])[c].id = row[c].id
         /\ ReleasedRows(tx[s])[c].live => row[c].live
         /\ lock[c] \in Session \ {s} => ReleasedRows(tx[s])[c] = row[c]
<1>1. row[c] \in Row
  BY DEF IInv, TypeOK
<1>2. ReleasedRows(tx[s])[c] =
        IF tx[s].trk.link # c THEN row[c]
        ELSE IF Purged(tx[s]) THEN [row[c] EXCEPT !.live = FALSE, !.ref = 0]
        ELSE IF Counted(tx[s]) THEN [row[c] EXCEPT !.ref = Remaining(c, tx[s].track)]
        ELSE row[c]
  BY DEF ReleasedRows
<1>3. Purged(tx[s]) => lock[tx[s].trk.link] = s
  BY DEF IInv, LocksHeld, Purged
<1>4. Counted(tx[s]) => lock[tx[s].trk.link] = None
  BY DEF CanCommitRelease
<1>5. CASE tx[s].trk.link = c /\ (Purged(tx[s]) \/ Counted(tx[s]))
  BY <1>1, <1>2, <1>3, <1>4, <1>5, NoneAssumption DEF Row
<1>6. CASE ~(tx[s].trk.link = c /\ (Purged(tx[s]) \/ Counted(tx[s])))
  BY <1>2, <1>6
<1> QED BY <1>5, <1>6

LEMMA CommitSucceeds ==
  ASSUME Sizes, IInv, LoadsSound, NEW s \in Session, Commits(s), NEW c \in Content
  PROVE  Succeeds(c) /\ (lock[c] \in Session \ {s} => row'[c] = row[c])
<1> DEFINE x == tx[s]
           b == [x.row EXCEPT !.ref = Acquire(x)]
           w == (Acquire(x) # x.row.ref \/ x.new) /\ c = x.content
<1>1. /\ SessionSound(x) /\ CanCommitRelease(x) /\ x \in Tx
      /\ x.op \in {"hide", "delete"} => row' = ReleasedRows(x)
      /\ x.op \in AttachOps \cup {"hide", "delete"}
  BY AtCommit
<1>2. /\ ReleasedRows(x)[c].id = row[c].id
      /\ ReleasedRows(x)[c].live => row[c].live
      /\ lock[c] \in Session \ {s} => ReleasedRows(x)[c] = row[c]
  BY <1>1, ReleasedSucceeds
<1>3. CASE row'[c] = ReleasedRows(x)[c]
  BY <1>2, <1>3 DEF Succeeds
<1>4. CASE row'[c] # ReleasedRows(x)[c]
  <2>1. CommitAttach(s) /\ x.op \in AttachOps
    BY <1>1, <1>4 DEF Commits, CommitHide, CommitDelete, AttachOps
  <2>2. /\ row' = IF Acquire(x) # x.row.ref \/ x.new
                   THEN [ReleasedRows(x) EXCEPT ![x.content] = b] ELSE ReleasedRows(x)
        /\ ~x.new /\ (Acquire(x) # x.row.ref)
             => row[x.content].live /\ row[x.content].id = x.row.id /\ lock[x.content] = None
    BY <2>1 DEF CommitAttach
  <2>3. w /\ row'[c] = b
    BY <1>4, <2>2 DEF ReleasedRows
  <2>4. b.id = x.row.id
    BY <1>1 DEF Tx, Row
  <2>5. row[c].id \in Nat
    BY BoundAssumption DEF IInv, TypeOK, Row
  <2> HIDE DEF b
  <2>6. CASE x.new
    <3>1. x.row.id = row[c].id + 1 /\ lock[c] = s
      BY <2>3, <2>6 DEF LoadsSound, LoadedSound, IInv, LocksHeld
    <3> QED BY <2>3, <2>4, <2>5, <3>1 DEF Succeeds
  <2>7. CASE ~x.new
    BY <2>2, <2>3, <2>4, <2>7, NoneAssumption DEF Succeeds
  <2> QED BY <2>6, <2>7
<1> QED BY <1>3, <1>4

\* What another session has loaded outlives a commit.
LEMMA CommitLoads ==
  ASSUME Sizes, IInv, LoadsSound, NEW s \in Session, Commits(s)
  PROVE  LoadsSound'
<1> SUFFICES ASSUME NEW p \in Session PROVE LoadedSound(tx[p])'
  BY DEF LoadsSound
<1>1. tx'[s] = NoTx /\ (p # s => tx'[p] = tx[p])
  BY AtCommit
<1>2. CASE p = s
  BY <1>1, <1>2, Nothing DEF LoadedSound, NoTx
<1>3. CASE p # s
  <2>1. /\ LoadedSound(tx[p]) /\ tx'[p] = tx[p] /\ tx[p] \in Tx
        /\ tx[p].new => tx[p].content \in Content /\ lock[tx[p].content] = p
    BY <1>1, <1>3
       DEF LoadsSound, IInv, TypeOK, SessionsSound, SessionSound, LocksHeld
  <2>2. tx[p].new => row'[tx[p].content] = row[tx[p].content]
    BY <1>3, <2>1, CommitSucceeds
  <2>3. ASSUME tx[p].trk.link # None
        PROVE  /\ tx[p].linkId <= row'[tx[p].trk.link].id
               /\ tx[p].stage = "keyless" => ~Releasable(tx[p])'
    <3> DEFINE d == tx[p].trk.link
    <3>1. d \in Content /\ tx[p].linkId \in Nat /\ tx[p].linkId <= row[d].id
      BY <2>1, <2>3, BoundAssumption DEF Tx, TrackRow, LoadedSound
    <3>2. row[d].id \in Nat
      BY <3>1, BoundAssumption DEF IInv, TypeOK, Row
    <3>3. Succeeds(d)
      BY <3>1, CommitSucceeds
    <3>4. tx[p].stage = "keyless" =>
            tx[p].trk.freed \/ ~row[d].live \/ row[d].id # tx[p].linkId
      BY <2>1, <2>3 DEF LoadedSound, Releasable
    <3>5. ~Releasable(tx[p])' <=>
            tx[p].trk.freed \/ ~row'[d].live \/ row'[d].id # tx[p].linkId
      BY <2>1, <2>3 DEF Releasable
    <3> HIDE DEF d
    <3> QED BY <3>1, <3>2, <3>3, <3>4, <3>5 DEF Succeeds, d
  <2>4. tx[p].trk.link = None => ~Releasable(tx[p])'
    BY <2>1 DEF Releasable
  <2>5. (tx[p].new => ~row'[tx[p].content].live
                        /\ tx[p].row.id = row'[tx[p].content].id + 1)
    BY <2>1, <2>2 DEF LoadedSound
  <2> QED BY <2>1, <2>3, <2>4, <2>5 DEF LoadedSound
<1> QED BY <1>2, <1>3

\* A session that goes on while no row changes.
LEMMA MoveLoads ==
  ASSUME IInv, LoadsSound, NEW s \in Session, NEW y, tx' = [tx EXCEPT ![s] = y],
         UNCHANGED row, LoadedSound(y)
  PROVE  LoadsSound'
<1> SUFFICES ASSUME NEW p \in Session PROVE LoadedSound(tx[p])'
  BY DEF LoadsSound
<1>1. tx'[p] = IF p = s THEN y ELSE tx[p]
  BY DEF IInv, TypeOK
<1>2. LoadedSound(tx'[p])
  BY <1>1 DEF LoadsSound
<1> QED BY <1>2 DEF LoadedSound, Releasable

LEMMA StepLoads ==
  ASSUME Sizes, IInv, LoadsSound, [Next]_vars
  PROVE  LoadsSound'
<1>1. ASSUME NEW s \in Session, Commits(s) PROVE LoadsSound'
  BY <1>1, CommitLoads
<1>2. ASSUME NEW s \in Session, NEW t \in Track, NEW op \in AttachOps, BeginAttach(s, t, op)
      PROVE  LoadsSound'
  <2> DEFINE c == IF op = "import" THEN Raw[t] ELSE Mp3[t]
             y == [op |-> op, track |-> t, content |-> c, new |-> FALSE, row |-> row[c],
                   stage |-> IF row[c].live THEN "ready" ELSE "missing",
                   trk |-> IF op = "transcode" THEN track[t] ELSE NoTrack,
                   linkId |-> LinkId(t)]
  <2>1. tx' = [tx EXCEPT ![s] = y] /\ UNCHANGED row
    BY <1>2 DEF BeginAttach
  <2>2. /\ ~y.new /\ y.stage # "keyless" /\ y.linkId = LinkId(t)
        /\ y.trk = (IF op = "transcode" THEN track[t] ELSE NoTrack)
    OBVIOUS
  <2> HIDE DEF y
  <2>3. y.trk.link # None => y.linkId <= row[y.trk.link].id
    <3>1. LinkId(t) \in Nat
      BY LoadedType, BoundAssumption
    <3>2. y.trk.link # None => y.linkId = row[y.trk.link].id
      BY <2>2, Nothing DEF LinkId
    <3> QED BY <2>2, <3>1, <3>2
  <2> QED BY <2>1, <2>2, <2>3, MoveLoads DEF LoadedSound
<1>3. ASSUME NEW s \in Session, NEW t \in Track, NEW op \in {"hide", "delete"},
             BeginRelease(s, t, op)
      PROVE  LoadsSound'
  <2> DEFINE y == [NoTx EXCEPT !.op = op, !.stage = "loaded", !.track = t,
                               !.trk = track[t], !.linkId = LinkId(t)]
  <2>1. tx' = [tx EXCEPT ![s] = y] /\ UNCHANGED row
    BY <1>3 DEF BeginRelease
  <2>2. ~y.new /\ y.stage # "keyless" /\ y.linkId = LinkId(t) /\ y.trk = track[t]
    BY DEF NoTx
  <2> HIDE DEF y
  <2>3. y.trk.link # None => y.linkId <= row[y.trk.link].id
    <3>1. LinkId(t) \in Nat
      BY LoadedType, BoundAssumption
    <3>2. y.trk.link # None => y.linkId = row[y.trk.link].id
      BY <2>2 DEF LinkId
    <3> QED BY <2>2, <3>1, <3>2
  <2> QED BY <2>1, <2>2, <2>3, MoveLoads DEF LoadedSound
<1>4. ASSUME NEW s \in Session, put_cas_audio(s) \/ Purge(s) PROVE LoadsSound'
  <2>1. PICK stage \in {"stored", "purging"} :
          tx' = [tx EXCEPT ![s] = [tx[s] EXCEPT !.stage = stage]]
    BY <1>4 DEF put_cas_audio, Purge, IInv, TypeOK
  <2> DEFINE y == [tx[s] EXCEPT !.stage = stage]
  <2>2. /\ y.stage = stage /\ y.new = tx[s].new /\ y.content = tx[s].content
        /\ y.row = tx[s].row /\ y.trk = tx[s].trk /\ y.linkId = tx[s].linkId
    BY DEF IInv, TypeOK, Tx
  <2>3. LoadedSound(tx[s]) /\ UNCHANGED row
    BY <1>4 DEF LoadsSound, put_cas_audio, Purge
  <2> HIDE DEF y
  <2>4. LoadedSound(y)
    BY <2>2, <2>3 DEF LoadedSound
  <2> QED BY <2>1, <2>3, <2>4, MoveLoads DEF y
<1>5. ASSUME NEW s \in Session, Insert(s) PROVE LoadsSound'
  <2> DEFINE c == tx[s].content
             r == [live |-> TRUE, id |-> row[c].id + 1, ref |-> 0]
             y == [tx[s] EXCEPT !.stage = "ready", !.new = TRUE, !.row = r]
  <2>1. tx' = [tx EXCEPT ![s] = y] /\ ~row[c].live /\ UNCHANGED row
    BY <1>5 DEF Insert, IInv, TypeOK
  <2>2. /\ y.stage = "ready" /\ y.content = c /\ y.row.id = row[c].id + 1
        /\ y.trk = tx[s].trk /\ y.linkId = tx[s].linkId
    BY DEF IInv, TypeOK, Tx
  <2>3. LoadedSound(tx[s])
    BY DEF LoadsSound
  <2> HIDE DEF y
  <2>4. LoadedSound(y)
    BY <2>1, <2>2, <2>3 DEF LoadedSound
  <2> QED BY <2>1, <2>4, MoveLoads
<1>6. ASSUME NEW s \in Session, LoseRace(s) PROVE LoadsSound'
  <2> DEFINE c == tx[s].content
             y == [tx[s] EXCEPT !.stage = "ready", !.row = row[c]]
  <2>1. tx' = [tx EXCEPT ![s] = y] /\ UNCHANGED row /\ tx[s].stage = "stored"
    BY <1>6 DEF LoseRace, IInv, TypeOK
  <2>2. /\ y.stage = "ready" /\ y.new = tx[s].new
        /\ y.trk = tx[s].trk /\ y.linkId = tx[s].linkId
    BY DEF IInv, TypeOK, Tx
  <2>3. LoadedSound(tx[s]) /\ ~tx[s].new
    BY <2>1 DEF LoadsSound, IInv, SessionsSound, SessionSound
  <2> HIDE DEF y
  <2>4. LoadedSound(y)
    BY <2>2, <2>3 DEF LoadedSound
  <2> QED BY <2>1, <2>4, MoveLoads
<1>7. ASSUME NEW s \in Session, DeleteKey(s) PROVE LoadsSound'
  <2> DEFINE y == [tx[s] EXCEPT !.stage = "keyless"]
  <2>1. tx' = [tx EXCEPT ![s] = y] /\ UNCHANGED row /\ ~Releasable(tx[s])
    BY <1>7 DEF DeleteKey, IInv, TypeOK
  <2>2. /\ y.new = tx[s].new /\ y.content = tx[s].content
        /\ y.row = tx[s].row /\ y.trk = tx[s].trk /\ y.linkId = tx[s].linkId
    BY DEF IInv, TypeOK, Tx
  <2>3. LoadedSound(tx[s])
    BY DEF LoadsSound
  <2> HIDE DEF y
  <2>4. LoadedSound(y)
    BY <2>1, <2>2, <2>3 DEF LoadedSound, Releasable
  <2> QED BY <2>1, <2>4, MoveLoads
<1>8. ASSUME NEW s \in Session, Abort(s) PROVE LoadsSound'
  <2>1. LoadedSound(NoTx)
    BY Nothing DEF LoadedSound, NoTx
  <2> QED BY <1>8, <2>1, MoveLoads DEF Abort
<1>9. CASE UNCHANGED <<row, tx>>
  BY <1>9 DEF LoadsSound, LoadedSound, Releasable
<1>10. \/ UNCHANGED <<row, tx>>
       \/ \E s \in Session :
            \/ Commits(s) \/ put_cas_audio(s) \/ Purge(s) \/ Insert(s) \/ LoseRace(s)
            \/ DeleteKey(s) \/ Abort(s)
            \/ \E t \in Track, op \in AttachOps : BeginAttach(s, t, op)
            \/ \E t \in Track, op \in {"hide", "delete"} : BeginRelease(s, t, op)
  BY DEF Next, vars, Attaching, Releasing, upload, show, Commits, AttachOps
<1> QED BY <1>1, <1>2, <1>3, <1>4, <1>5, <1>6, <1>7, <1>8, <1>9, <1>10

LEMMA LoadsInvariance == ASSUME Sizes PROVE Spec => [](IInv /\ LoadsSound)
<1>1. Init => IInv /\ LoadsSound
  <2>1. LoadedSound(NoTx)
    BY Nothing DEF LoadedSound, NoTx
  <2> QED BY <2>1, InitHolds DEF Init, LoadsSound
<1>2. IInv /\ LoadsSound /\ [Next]_vars => (IInv /\ LoadsSound)'
  BY Inductive, StepLoads
<1> QED BY <1>1, <1>2, PTL DEF Spec

\* Sets of tracks have sizes that add up.
LEMMA Sums ==
  ASSUME Sizes, NEW S \in SUBSET Track, NEW T \in SUBSET Track, NEW t
  PROVE  /\ Cardinality(S) \in Nat
         /\ t \in S => Cardinality(S \ {t}) = Cardinality(S) - 1
         /\ t \notin S => Cardinality(S \cup {t}) = Cardinality(S) + 1 /\ S \ {t} = S
         /\ S \cap T = {} => Cardinality(S \cup T) = Cardinality(S) + Cardinality(T)
<1>1. IsFiniteSet(S) /\ IsFiniteSet(T)
  BY FS_Subset DEF Sizes
<1>2. Cardinality(S) \in Nat /\ Cardinality(T) \in Nat
  BY <1>1, FS_CardinalityType
<1>3. t \in S => Cardinality(S \ {t}) = Cardinality(S) - 1
  BY <1>1, FS_RemoveElement
<1>4. t \notin S => Cardinality(S \cup {t}) = Cardinality(S) + 1
  BY <1>1, FS_AddElement
<1>5. ASSUME S \cap T = {} PROVE Cardinality(S \cup T) = Cardinality(S) + Cardinality(T)
  <2>1. Cardinality(S \cup T) = Cardinality(S) + Cardinality(T) - Cardinality(S \cap T)
    BY <1>1, FS_Union
  <2>2. Cardinality(S \cap T) = 0
    BY <1>5, FS_EmptySet
  <2> QED BY <1>2, <2>1, <2>2
<1> QED BY <1>2, <1>3, <1>4, <1>5

\* What a step that is not overtaken commits was computed from the present state.
Current(x) ==
  /\ x.op \in {"transcode", "hide", "delete"} =>
       x.trk = track[x.track] /\ x.linkId = LinkId(x.track)
  /\ x.op \in AttachOps /\ ~x.new => x.row = row[x.content]

LEMMA NotOvertaken ==
  ASSUME IInv, NEW s \in Session, Commits(s), ~Overtaken
  PROVE  Current(tx[s])
<1>1. tx'[s] # tx[s]
  BY AtCommit
<1> QED BY <1>1 DEF Overtaken, Current, AttachOps

\* The row a session releases counts, then, the other tracks; all other rows count
\* no less than before.
LEMMA ReleasedExact ==
  ASSUME Sizes, IInv, Exact, NEW s \in Session, CanCommitRelease(tx[s]), Current(tx[s]),
         tx[s].track \in Track, Present(tx[s].track),
         tx[s].op \in {"transcode", "hide", "delete"},
         Purged(tx[s]) \/ Releases(tx[s]) \/ ~Releasable(tx[s]),
         NEW c \in Content, ReleasedRows(tx[s])[c].live
  PROVE  ReleasedRows(tx[s])[c].ref = Cardinality(Users(c) \ {tx[s].track})
<1> DEFINE x == tx[s]
           u == x.track
           U == Users(c)
<1>1. /\ x.trk = track[u] /\ x.linkId = LinkId(u)
      /\ row[c] \in Row /\ row[c].live /\ row[c].ref = Cardinality(U)
  BY Released DEF Current, Exact, IInv, TypeOK
<1>2. ReleasedRows(x)[c] =
        IF x.trk.link # c THEN row[c]
        ELSE IF Purged(x) THEN [row[c] EXCEPT !.live = FALSE, !.ref = 0]
        ELSE IF Counted(x) THEN [row[c] EXCEPT !.ref = Remaining(c, u)]
        ELSE row[c]
  BY DEF ReleasedRows
<1>3. U \in SUBSET Track /\ Cardinality(U) \in Nat
  BY Sums DEF Users
<1>4. CASE x.trk.link # c
  <2>1. u \notin U
    BY <1>1, <1>4 DEF Users
  <2>2. U \ {u} = U
    BY <2>1
  <2> QED BY <1>1, <1>2, <1>4, <2>2
<1>5. CASE x.trk.link = c
  <2>1. ~Purged(x)
    <3>1. Purged(x) => ReleasedRows(x)[c] = [row[c] EXCEPT !.live = FALSE, !.ref = 0]
      BY <1>2, <1>5
    <3>2. [row[c] EXCEPT !.live = FALSE, !.ref = 0].live = FALSE
      BY <1>1 DEF Row
    <3> QED BY <3>1, <3>2
  <2>2. Releasable(x) <=> ~track[u].freed
    <3>1. c # None /\ track[u].link = c /\ x.linkId = row[c].id
      BY <1>1, <1>5, NoneAssumption DEF LinkId
    <3> QED BY <1>1, <3>1 DEF Releasable
  <2>3. u \in U <=> ~track[u].freed
    BY <1>1, <1>5 DEF Users
  <2>4. CASE Counted(x)
    <3>1. ReleasedRows(x)[c] = [row[c] EXCEPT !.ref = Remaining(c, u)]
      BY <1>2, <1>5, <2>1, <2>4
    <3>2. ReleasedRows(x)[c].ref = Remaining(c, u)
      BY <1>1, <3>1 DEF Row
    <3>3. u \in U
      BY <2>2, <2>3, <2>4 DEF Counted
    <3>4. Cardinality(U \ {u}) = Cardinality(U) - 1
      BY <1>3, <3>3, Sums
    <3>5. Remaining(c, u) = IF row[c].ref > 1 THEN row[c].ref - 1 ELSE Cardinality(U \ {u})
      BY DEF Remaining
    <3>6. Remaining(c, u) = Cardinality(U \ {u})
      <4> HIDE DEF U, u
      <4> QED BY <1>1, <3>4, <3>5
    <3> QED BY <3>2, <3>6
  <2>5. CASE ~Counted(x)
    <3>1. u \notin U
      BY <2>1, <2>2, <2>3, <2>5 DEF Counted
    <3>2. ReleasedRows(x)[c] = row[c]
      BY <1>2, <1>5, <2>1, <2>5
    <3>3. U \ {u} = U
      BY <3>1
    <3> QED BY <1>1, <3>2, <3>3
  <2> QED BY <2>4, <2>5
<1> QED BY <1>4, <1>5

\* Hiding and deleting a track end its use, and that of no other.
LEMMA GivesUpExact ==
  ASSUME Sizes, IInv, LoadsSound, Exact, ~Overtaken,
         NEW s \in Session, CommitHide(s) \/ CommitDelete(s)
  PROVE  Exact'
<1> DEFINE x == tx[s]
           u == x.track
<1>1. /\ x \in Tx /\ u \in Track /\ Present(u) /\ CanCommitRelease(x)
      /\ x.op \in {"hide", "delete"} /\ row' = ReleasedRows(x)
      /\ Current(x) /\ SessionSound(x)
  BY AtCommit, NotOvertaken DEF Commits, CommitHide, CommitDelete
<1>2. x.stage \in {"loaded", "purging", "keyless"}
  BY DEF CommitHide, CommitDelete
<1>3. Purged(x) \/ Releases(x) \/ ~Releasable(x)
  BY <1>2 DEF Purged, Releases, LoadsSound, LoadedSound
<1> SUFFICES ASSUME NEW c \in Content, row'[c].live
             PROVE  row'[c].ref = Cardinality(Users(c)')
  BY DEF Exact
<1>4. row'[c].ref = Cardinality(Users(c) \ {u})
  BY <1>1, <1>3, ReleasedExact
<1>5. Purged(x) => c # x.trk.link
  <2>1. row[c] \in Row
    BY DEF IInv, TypeOK
  <2>2. Purged(x) /\ c = x.trk.link => row'[c] = [row[c] EXCEPT !.live = FALSE, !.ref = 0]
    BY <1>1 DEF ReleasedRows
  <2> QED BY <2>1, <2>2 DEF Row
<1>6. \A t \in Track \ {u} : track'[t] = Unlinked(x)[t] /\ status'[t] = status[t]
  <2>1. CASE CommitDelete(s)
    BY <2>1 DEF CommitDelete, Unlinked, IInv, TypeOK
  <2>2. CASE CommitHide(s)
    BY <2>2 DEF CommitHide, Unlinked, IInv, TypeOK
  <2> QED BY <2>1, <2>2
<1>7. ASSUME NEW t \in Track \ {u} PROVE t \in Users(c)' <=> t \in Users(c)
  <2>1. /\ Unlinked(x)[t].freed = track[t].freed
        /\ \/ Unlinked(x)[t].link = track[t].link
           \/ Purged(x) /\ track[t].link = x.trk.link /\ Unlinked(x)[t].link = None
    BY NoneAssumption DEF Unlinked, IInv, TypeOK, TrackRow
  <2>2. Unlinked(x)[t].link = c <=> track[t].link = c
    BY <1>5, <2>1, NoneAssumption
  <2> QED BY <1>6, <2>1, <2>2 DEF Users, Present
<1>8. u \notin Users(c)'
  <2>1. CASE CommitDelete(s)
    <3>1. track'[u] = NoTrack
      BY <1>1, <2>1 DEF CommitDelete, Unlinked
    <3> QED BY <3>1, Nothing, NoneAssumption DEF Users
  <2>2. CASE CommitHide(s)
    <3>1. track'[u] = [Unlinked(x)[u] EXCEPT
                         !.freed = Purged(x) \/ Counted(x) \/ Unlinked(x)[u].freed]
      BY <1>1, <2>2 DEF CommitHide, Unlinked
    <3>2. Unlinked(x)[u] \in TrackRow /\ Unlinked(x)[u].freed = track[u].freed
      BY <1>1, UnlinkedType
    <3>3. track'[u].link = Unlinked(x)[u].link
          /\ track'[u].freed = (Purged(x) \/ Counted(x) \/ Unlinked(x)[u].freed)
      BY <3>1, <3>2 DEF TrackRow
    <3>4. CASE Purged(x) \/ Counted(x)
      BY <3>3, <3>4 DEF Users
    <3>5. CASE ~Purged(x) /\ ~Counted(x)
      <4>1. ~Releasable(x)
        BY <1>2, <2>2, <3>5 DEF CommitHide, Counted, Purged, Releases
      <4>2. x.trk = track[u] /\ x.linkId = LinkId(u)
        BY <1>1 DEF Current
      <4>3. track[u].link # None => row[track[u].link].live
        BY <1>1 DEF IInv, TypeOK
      <4>4. track[u].link = None \/ track[u].freed
        BY <4>1, <4>2, <4>3 DEF Releasable, LinkId
      <4>5. Unlinked(x)[u].link \in {None, track[u].link}
        BY <1>1, UnlinkedType
      <4> QED BY <3>2, <3>3, <4>4, <4>5, NoneAssumption DEF Users
    <3> QED BY <3>4, <3>5
  <2> QED BY <2>1, <2>2
<1>9. Users(c)' = Users(c) \ {u}
  <2>1. Users(c)' \subseteq Track /\ Users(c) \subseteq Track
    BY DEF Users
  <2> QED BY <1>7, <1>8, <2>1
<1> QED BY <1>4, <1>9

\* What a commit that attaches starts from, when it is not overtaken.
LEMMA AtAttach ==
  ASSUME IInv, NEW s \in Session, CommitAttach(s), ~Overtaken
  PROVE  /\ tx[s] \in Tx /\ SessionSound(tx[s]) /\ Current(tx[s]) /\ CanCommitRelease(tx[s])
         /\ tx[s].track \in Track /\ tx[s].content \in Content
         /\ tx[s].op \in AttachOps /\ tx[s].stage \in {"ready", "purging"}
         /\ tx[s].op = "transcode" => /\ Present(tx[s].track)
                                      /\ tx[s].trk = track[tx[s].track]
         /\ tx[s].op # "transcode" => /\ ~Present(tx[s].track)
                                      /\ tx[s].trk = NoTrack /\ ~Purged(tx[s])
         /\ Purged(tx[s]) => tx[s].trk.link \in Content /\ tx[s].trk.link # tx[s].content
<1>1. tx[s].op \in AttachOps /\ tx[s].stage \in {"ready", "purging"}
  BY DEF CommitAttach, AttachOps
<1>2. /\ tx[s] \in Tx /\ SessionSound(tx[s]) /\ CanCommitRelease(tx[s]) /\ Current(tx[s])
      /\ tx[s].track \in Track
      /\ tx[s].op = "transcode" => Present(tx[s].track)
  BY AtCommit, NotOvertaken DEF Commits
<1>3. tx[s].op # "transcode" => ~Present(tx[s].track)
  BY <1>1 DEF IInv, CreatesAlone, Present, AttachOps
<1>4. tx[s].op # "transcode" => tx[s].trk = NoTrack /\ ~Purged(tx[s])
  BY <1>1, <1>2, Nothing, NoneAssumption DEF SessionSound, AttachOps, Purged
<1> QED BY <1>1, <1>2, <1>3, <1>4 DEF SessionSound, Current, Purged

\* The track it attaches uses the content afterwards, and nothing else.
LEMMA AttachesOwn ==
  ASSUME IInv, NEW s \in Session, CommitAttach(s), ~Overtaken
  PROVE  /\ track'[tx[s].track].link = tx[s].content /\ ~track'[tx[s].track].freed
         /\ status'[tx[s].track] \in {"active", "hidden"}
<1> DEFINE x == tx[s]
           c == x.content
           u == x.track
           cur == Unlinked(x)[u]
           l == IF x.trk.link = c THEN cur.link ELSE c
           k == IF x.trk.key = c THEN cur.key ELSE c
           f == IF x.trk.freed \/ Purged(x) \/ Counted(x) THEN FALSE ELSE cur.freed
<1>1. /\ u \in Track /\ c \in Content /\ track[u] \in TrackRow /\ cur \in TrackRow
      /\ cur.freed = track[u].freed
  BY AtAttach, UnlinkedType DEF IInv, TypeOK
<1>2. status'[u] \in {"active", "hidden"}
  BY <1>1, AtAttach DEF CommitAttach, Present, IInv, TypeOK
<1>3. track'[u] = Linked(x, cur)
  BY <1>1 DEF CommitAttach
<1>4. CASE x.op # "transcode"
  <2>1. track'[u] = [NoTrack EXCEPT !.link = c, !.key = c]
    BY <1>3, <1>4 DEF Linked
  <2> QED BY <1>2, <2>1 DEF NoTrack
<1>5. CASE x.op = "transcode"
  <2>1. /\ x.trk = track[u]
        /\ x.trk.link = c => cur.link = c
    BY <1>1, <1>5, AtAttach, UnlinkedType DEF Unlinked
  <2>2. CASE Attached(x)
    BY <1>1, <1>2, <1>3, <1>5, <2>1, <2>2 DEF Linked, Attached
  <2>3. CASE ~Attached(x)
    <3>1. track'[u] = [cur EXCEPT !.link = l, !.key = k, !.freed = f]
      BY <1>3, <1>5, <2>3 DEF Linked
    <3>2. l = c
      BY <2>1
    <3>3. f = FALSE
      BY <1>1, <2>1 DEF TrackRow
    <3> HIDE DEF l, k, f, cur
    <3>4. track'[u].link = l /\ track'[u].freed = f
      BY <1>1, <3>1 DEF TrackRow
    <3> QED BY <1>2, <3>2, <3>3, <3>4
  <2> QED BY <2>2, <2>3
<1> QED BY <1>4, <1>5

\* It adds its track and the pending ones to the users of its content, and takes
\* its track from the users of the rows that stay.
LEMMA AttachUsers ==
  ASSUME IInv, NEW s \in Session, CommitAttach(s), ~Overtaken, NEW e \in Content,
         Purged(tx[s]) => e # tx[s].trk.link
  PROVE  /\ e = tx[s].content =>
              Users(e)' = (Users(e) \cup {tx[s].track}) \cup Pending(tx[s])
         /\ e # tx[s].content => Users(e)' = Users(e) \ {tx[s].track}
         /\ Pending(tx[s]) \subseteq Track
         /\ Pending(tx[s]) \cap (Users(e) \cup {tx[s].track}) = {}
<1> DEFINE x == tx[s]
           c == x.content
           u == x.track
           P == Pending(x)
<1>1. u \in Track /\ c \in Content
  BY AtAttach
<1>2. ASSUME NEW t \in Track
      PROVE  /\ Unlinked(x)[t].freed = track[t].freed
             /\ Unlinked(x)[t].link = e <=> track[t].link = e
  <2>1. /\ Unlinked(x)[t].freed = track[t].freed
        /\ \/ Unlinked(x)[t].link = track[t].link
           \/ Purged(x) /\ track[t].link = x.trk.link /\ Unlinked(x)[t].link = None
    BY NoneAssumption DEF Unlinked, IInv, TypeOK, TrackRow
  <2> QED BY <2>1, NoneAssumption
<1>3. P \subseteq Track /\ u \notin P /\ (P # {} => x.op = "transcode")
  BY DEF Pending
<1>4. ASSUME NEW t \in P
      PROVE  t \notin Users(e) /\ (t \in Users(e)' <=> e = c)
  <2>1. /\ t \in Track /\ t # u /\ Present(t) /\ Unlinked(x)[t].link = None
        /\ x.op = "transcode"
    BY DEF Pending
  <2>2. track[t].link # e
    BY <1>2, <2>1, NoneAssumption
  <2>3. track'[t] = [track[t] EXCEPT !.link = c, !.key = c, !.freed = FALSE] /\ status' = status
    BY <2>1 DEF CommitAttach
  <2>4. track'[t].link = c /\ ~track'[t].freed
    BY <2>1, <2>3 DEF IInv, TypeOK, TrackRow
  <2> QED BY <2>1, <2>2, <2>3, <2>4 DEF Users, Present
<1>5. ASSUME NEW t \in Track, t \notin P, t # u
      PROVE  t \in Users(e)' <=> t \in Users(e)
  <2>1. track'[t] = Unlinked(x)[t] /\ status'[t] = status[t]
    BY <1>5 DEF CommitAttach, IInv, TypeOK
  <2> QED BY <1>2, <2>1 DEF Users, Present
<1>6. u \in Users(e)' <=> e = c
  BY <1>1, AttachesOwn DEF Users, Present
<1>7. Users(e) \subseteq Track /\ Users(e)' \subseteq Track
  BY DEF Users
<1>8. P \cap (Users(e) \cup {u}) = {}
  BY <1>3, <1>4
<1>9. CASE e = c
  <2>1. Users(e)' = (Users(e) \cup {u}) \cup P
    <3> HIDE DEF P, u
    <3> QED BY <1>1, <1>3, <1>4, <1>5, <1>6, <1>7, <1>9
  <2> QED BY <1>3, <1>8, <1>9, <2>1
<1>10. CASE e # c
  <2>1. Users(e)' = Users(e) \ {u}
    <3> HIDE DEF P, u
    <3> QED BY <1>1, <1>3, <1>4, <1>5, <1>6, <1>7, <1>10
  <2> QED BY <1>3, <1>8, <1>10, <2>1
<1> QED BY <1>9, <1>10

\* The rows that the attach does not count on lose its track, if they counted it.
LEMMA AttachOthers ==
  ASSUME Sizes, IInv, Exact, NEW s \in Session, CommitAttach(s), ~Overtaken,
         NEW e \in Content, e # tx[s].content, ReleasedRows(tx[s])[e].live
  PROVE  ReleasedRows(tx[s])[e].ref = Cardinality(Users(e) \ {tx[s].track})
<1> DEFINE x == tx[s]
           u == x.track
<1>1. x.stage \in {"ready", "purging"} /\ u \in Track
  BY AtAttach
<1>2. CASE x.op = "transcode" /\ x.trk.link # x.content
  BY <1>1, <1>2, AtAttach, ReleasedExact DEF Purged, Releases
<1>3. CASE ~(x.op = "transcode" /\ x.trk.link # x.content)
  <2>1. x.trk.link # e /\ u \notin Users(e)
    BY <1>3, AtAttach, Nothing, NoneAssumption DEF Users
  <2>2. ReleasedRows(x)[e] = row[e] /\ Users(e) \ {u} = Users(e)
    BY <2>1 DEF ReleasedRows
  <2> QED BY <2>2 DEF Exact
<1> QED BY <1>2, <1>3

\* The row it counts on counted the users there were, and counts those there are.
LEMMA AttachCounted ==
  ASSUME Sizes, IInv, LoadsSound, Exact, NEW s \in Session, CommitAttach(s), ~Overtaken
  PROVE  row'[tx[s].content].ref =
           Cardinality((Users(tx[s].content) \cup {tx[s].track}) \cup Pending(tx[s]))
<1> DEFINE x == tx[s]
           c == x.content
           u == x.track
           P == Pending(x)
           U == Users(c)
           a == Acquire(x)
<1>1. /\ x \in Tx /\ x.row \in Row /\ SessionSound(x) /\ c \in Content /\ u \in Track
      /\ x.op \in AttachOps /\ x.stage \in {"ready", "purging"} /\ Current(x)
      /\ a <= RefBound
  BY AtAttach DEF Tx, CommitAttach
<1>2. /\ U \in SUBSET Track /\ P \in SUBSET Track /\ U \cup {u} \in SUBSET Track
      /\ P \cap (U \cup {u}) = {}
  BY <1>1, AtAttach, AttachUsers DEF Users
<1>3. /\ Cardinality(U) \in Nat /\ Cardinality(P) \in Nat
      /\ u \in U => U \cup {u} = U
      /\ u \notin U => Cardinality(U \cup {u}) = Cardinality(U) + 1
      /\ Cardinality((U \cup {u}) \cup P) = Cardinality(U \cup {u}) + Cardinality(P)
  <2>1. (U \cup {u}) \cap P = {}
    BY <1>2
  <2> HIDE DEF U, P, u
  <2>2. Cardinality((U \cup {u}) \cup P) = Cardinality(U \cup {u}) + Cardinality(P)
    BY <1>2, <2>1, Sums
  <2>3. /\ Cardinality(U) \in Nat /\ Cardinality(P) \in Nat
        /\ u \notin U => Cardinality(U \cup {u}) = Cardinality(U) + 1
    BY <1>2, Sums
  <2>4. u \in U => U \cup {u} = U
    OBVIOUS
  <2> QED BY <2>2, <2>3, <2>4
<1>4. Attached(x) <=> u \in U
  BY <1>1, AtAttach, Nothing, NoneAssumption DEF Attached, Users
<1>5. x.row.ref = Cardinality(U)
  <2>1. CASE x.new
    <3>1. x.row.ref = 0 /\ ~row[c].live
      BY <1>1, <2>1 DEF SessionSound, LoadsSound, LoadedSound
    <3>2. U = {}
      BY <1>1, <3>1, NoneAssumption DEF Users, IInv, TypeOK
    <3> QED BY <1>2, <3>1, <3>2, FS_EmptySet
  <2>2. CASE ~x.new
    BY <1>1, <2>2 DEF Current, Exact, SessionSound
  <2> QED BY <2>1, <2>2
<1>6. a = x.row.ref + (IF Attached(x) THEN 0 ELSE 1) + Cardinality(P)
  BY DEF Acquire
<1>7. a = Cardinality((U \cup {u}) \cup P)
  <2>1. CASE Attached(x)
    <3>1. a = Cardinality(U) + Cardinality(P)
      <4>1. a = x.row.ref + 0 + Cardinality(P)
        BY <1>6, <2>1
      <4> HIDE DEF U, P, a, x
      <4> QED BY <1>3, <1>5, <4>1
    <3> QED BY <1>3, <1>4, <2>1, <3>1
  <2>2. CASE ~Attached(x)
    <3>1. a = Cardinality(U) + 1 + Cardinality(P)
      BY <1>5, <1>6, <2>2
    <3> QED BY <1>3, <1>4, <2>2, <3>1
  <2> QED BY <2>1, <2>2
<1>8. row'[c].ref = a
  <2>1. CASE a # x.row.ref \/ x.new
    <3>1. row' = [ReleasedRows(x) EXCEPT ![c] = [x.row EXCEPT !.ref = a]]
      BY <2>1 DEF CommitAttach
    <3>2. row'[c] = [x.row EXCEPT !.ref = a]
      BY <1>1, <3>1 DEF ReleasedRows
    <3> HIDE DEF a
    <3> QED BY <1>1, <3>2 DEF Row
  <2>2. CASE ~(a # x.row.ref \/ x.new)
    <3>1. row' = ReleasedRows(x) /\ Attached(x) /\ x.row = row[c]
      BY <1>1, <2>2, Acquired DEF CommitAttach, Current
    <3>2. ~Purged(x) /\ ~Counted(x)
      BY <1>1, <3>1, AtAttach DEF Attached, Purged, Counted, Releases
    <3>3. row'[c] = row[c]
      BY <1>1, <3>1, <3>2 DEF ReleasedRows
    <3> QED BY <2>2, <3>1, <3>3
  <2> QED BY <2>1, <2>2
<1> QED BY <1>7, <1>8

LEMMA AttachExact ==
  ASSUME Sizes, IInv, LoadsSound, Exact, NEW s \in Session, CommitAttach(s), ~Overtaken
  PROVE  Exact'
<1> DEFINE x == tx[s]
<1> SUFFICES ASSUME NEW c \in Content, row'[c].live
             PROVE  row'[c].ref = Cardinality(Users(c)')
  BY DEF Exact
<1>1. Purged(x) => x.trk.link \in Content /\ x.trk.link # x.content
  BY AtAttach
<1>2. CASE c = x.content
  <2>1. Users(c)' = (Users(c) \cup {x.track}) \cup Pending(x)
    BY <1>1, <1>2, AttachUsers
  <2> QED BY <1>2, <2>1, AttachCounted
<1>3. CASE c # x.content
  <2>1. row'[c] = ReleasedRows(x)[c]
    BY <1>3 DEF CommitAttach, ReleasedRows
  <2>2. Purged(x) => c # x.trk.link
    <3>1. row[c] \in Row
      BY DEF IInv, TypeOK
    <3>2. Purged(x) /\ c = x.trk.link => row'[c] = [row[c] EXCEPT !.live = FALSE, !.ref = 0]
      BY <2>1 DEF ReleasedRows
    <3> QED BY <3>1, <3>2 DEF Row
  <2>3. Users(c)' = Users(c) \ {x.track}
    BY <1>3, <2>2, AttachUsers
  <2> QED BY <1>3, <2>1, <2>3, AttachOthers
<1> QED BY <1>2, <1>3

LEMMA StepExact ==
  ASSUME Sizes, IInv, LoadsSound, Exact, ~Overtaken, [Next]_vars
  PROVE  Exact'
<1>1. ASSUME NEW s \in Session, CommitHide(s) \/ CommitDelete(s) PROVE Exact'
  BY <1>1, GivesUpExact
<1>2. ASSUME NEW s \in Session, CommitAttach(s) PROVE Exact'
  BY <1>2, AttachExact
<1>3. ASSUME NEW t \in Track, upload(t) PROVE Exact'
  <2>1. track[t].link = None /\ UNCHANGED <<row, track>>
        /\ \A q \in Track \ {t} : status'[q] = status[q]
    BY <1>3 DEF upload, IInv, TypeOK, AbsentUnlinked, Present
  <2>2. ASSUME NEW c \in Content PROVE Users(c)' = Users(c)
    BY <2>1, NoneAssumption DEF Users, Present
  <2> QED BY <2>1, <2>2 DEF Exact
<1>4. ASSUME NEW t \in Track, show(t) PROVE Exact'
  <2>1. UNCHANGED <<row, track>> /\ \A q \in Track : Present(q)' <=> Present(q)
    BY <1>4 DEF show, IInv, TypeOK, Present
  <2>2. ASSUME NEW c \in Content PROVE Users(c)' = Users(c)
    BY <2>1 DEF Users
  <2> QED BY <2>1, <2>2 DEF Exact
<1>5. CASE UNCHANGED <<row, track, status>>
  <2>1. ASSUME NEW c \in Content PROVE Users(c)' = Users(c)
    BY <1>5 DEF Users, Present
  <2> QED BY <1>5, <2>1 DEF Exact
<1>6. \/ UNCHANGED <<row, track, status>>
      \/ \E s \in Session : CommitHide(s) \/ CommitDelete(s) \/ CommitAttach(s)
      \/ \E t \in Track : upload(t) \/ show(t)
  BY DEF Next, vars, Attaching, Releasing, BeginAttach, put_cas_audio, Insert, LoseRace,
         BeginRelease, Purge, DeleteKey, Abort
<1> QED BY <1>1, <1>2, <1>3, <1>4, <1>5, <1>6

\* Exact counts stay exact: a session that commits what it computed from the
\* present rows counts every track that links to a blob, the pending ones, the
\* replaced links and the hidden tracks included, as often as it links.
THEOREM CountsKept == ASSUME Sizes PROVE Spec => CountsStayExact
<1>1. IInv /\ LoadsSound /\ [Next]_vars => [Exact /\ ~Overtaken => Exact']_vars
  BY StepExact
<1> QED BY <1>1, LoadsInvariance, PTL DEF Spec, CountsStayExact
=============================================================================
