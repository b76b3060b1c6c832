---------------------------- MODULE IntakeProofs ----------------------------
(***************************************************************************)
(* The two ways in which audio comes in. What an upload of chunks becomes, *)
(* for every number of uploads, requests and chunks: one track, of a whole *)
(* file that stays while it is needed. What an import has counted and      *)
(* decided, for every number of jobs, users, tracks, dispatchers, requests,*)
(* tasks and faults: the second half of the module.                        *)
(***************************************************************************)
EXTENDS ChunkedUpload, ImportQueue, FiniteSetTheorems, TLAPS

\* Request q is the one that has assembled upload u.
Owns(q, u) ==
  req[q].upload = u /\ req[q].at \in {"scan", "finalize", "commit"}

\* A request in this state still counts on the assembled object.
NeedsFile(r) == r.at \in {"scan", "finalize"} \/ (r.at = "commit" /\ r.fresh)

\* The count of the chunks that complete has compared was that of all chunks;
\* a task was kicked only by who goes on to commit.
StagesSound ==
  \A q \in Request : /\ At(q, "assemble") => req[q].parts = Chunk
                     /\ req[q].fresh => At(q, "commit")

\* Whatever becomes of an upload comes after the store has assembled it.
AssembledFirst ==
  \A u \in Upload :
    multi[u].state # "completed" => /\ object[u] = NoFile
                                    /\ created[u] = 0
                                    /\ \A q \in Request : ~Owns(q, u)

\* One request assembled it, and commits its track at the end.
SoleOwner ==
  \A u \in Upload, p, q \in Request : Owns(p, u) /\ Owns(q, u) => p = q

OwnerFirst == \A u \in Upload, q \in Request : Owns(q, u) => created[u] = 0

\* A track exists once it was created.
TrackCreated == \A u \in Upload : created[u] = 0 => track[u] = "none"

FileThere ==
  \A u \in Upload, q \in Request : Owns(q, u) /\ NeedsFile(req[q]) => object[u] # NoFile

IInv == /\ TypeOK /\ StagesSound /\ AssembledFirst /\ SoleOwner /\ OwnerFirst
        /\ TrackCreated /\ FileThere
        /\ AssembledComplete /\ OneTrackPerUpload /\ RawFileKept

----------------------------------------------------------------------------

LEMMA IdleType == ASSUME Upload # {} PROVE Idle \in RequestRec /\ Idle.at = "idle" /\ ~Idle.fresh
<1>1. 1 \in Chunk
  BY ExpectedAssumption DEF Chunk
<1> QED BY <1>1 DEF Idle, RequestRec

\* A set of as many chunks as are expected is the set of them all.
LEMMA CountedAll ==
  ASSUME NEW parts \in SUBSET Chunk, Cardinality(parts) = Expected
  PROVE  parts = Chunk
<1>1. IsFiniteSet(Chunk) /\ Cardinality(Chunk) = Expected
  <2>1. 1 \in Int /\ Expected \in Int /\ ~(1 > Expected)
    BY ExpectedAssumption
  <2>2. /\ IsFiniteSet(1..Expected)
        /\ Cardinality(1..Expected) = IF 1 > Expected THEN 0 ELSE Expected - 1 + 1
    BY <2>1, FS_Interval
  <2>3. Cardinality(1..Expected) = Expected
    BY <2>1, <2>2
  <2> QED BY <2>2, <2>3 DEF Chunk
<1> QED BY <1>1, FS_Subset

LEMMA InitHolds == ASSUME Upload # {}, Init PROVE IInv
<1>1. \A q \in Request : req[q] = Idle /\ req[q].at = "idle" /\ ~req[q].fresh
  BY IdleType DEF Init
<1>2. TypeOK
  BY IdleType DEF Init, TypeOK, Row, Multipart, TrackStatus, TaskState
<1>3. \A q \in Request, u \in Upload : ~Owns(q, u)
  BY <1>1 DEF Owns
<1>4. StagesSound
  BY <1>1 DEF StagesSound, At
<1>5. AssembledFirst /\ SoleOwner /\ OwnerFirst /\ TrackCreated /\ FileThere
  BY <1>3 DEF Init, AssembledFirst, SoleOwner, OwnerFirst, TrackCreated, FileThere
<1>6. AssembledComplete /\ OneTrackPerUpload /\ RawFileKept
  BY DEF Init, AssembledComplete, OneTrackPerUpload, RawFileKept
<1> QED BY <1>2, <1>4, <1>5, <1>6 DEF IInv

----------------------------------------------------------------------------
(* Types.                                                                  *)

LEMMA EndType ==
  ASSUME Upload # {}, TypeOK, NEW q \in Request, End(q)
  PROVE  req' \in [Request -> RequestRec]
  BY IdleType DEF End, TypeOK

LEMMA GotoType ==
  ASSUME TypeOK, NEW q \in Request,
         NEW stage \in {"write", "scan", "finalize", "commit", "settle"}, Goto(q, stage)
  PROVE  req' \in [Request -> RequestRec]
  BY DEF Goto, TypeOK, RequestRec

LEMMA BeginType ==
  ASSUME TypeOK, NEW q \in Request, NEW u \in Upload, NEW c \in Chunk,
         NEW stage \in {"opened", "put", "assemble", "abort"}, Begin(q, u, c, stage)
  PROVE  req' \in [Request -> RequestRec]
  BY DEF Begin, TypeOK, RequestRec, Row

LEMMA AbortType ==
  ASSUME TypeOK, NEW uploads \in SUBSET Upload, AbortMultipart(uploads)
  PROVE  /\ multi' \in [Upload -> Multipart]
         /\ \A u \in Upload : multi'[u].state = "completed" <=> multi[u].state = "completed"
<1> PICK gone \in SUBSET uploads :
       multi' = [u \in Upload |-> IF u \in gone /\ multi[u].state = "open"
                                  THEN [multi[u] EXCEPT !.state = "aborted"]
                                  ELSE multi[u]]
  BY DEF AbortMultipart
<1> QED BY DEF TypeOK, Multipart

LEMMA SettleType ==
  ASSUME TypeOK, NEW u \in Upload, NEW status \in {"active", "error"}, Settle(u, status)
  PROVE  /\ track' \in [Upload -> TrackStatus]
         /\ \A v \in Upload : track'[v] = "none" <=> track[v] = "none"
         /\ \A v \in Upload : v # u => track'[v] = track[v]
         /\ track[u] # "none" => track'[u] = status
  BY DEF Settle, TypeOK, TrackStatus

----------------------------------------------------------------------------
(* Two kinds of steps.                                                     *)

\* A step that leaves the tracks and objects alone and hands no request an
\* upload it did not own.
LEMMA QuietKeeps ==
  ASSUME IInv, TypeOK', UNCHANGED <<object, created, track>>,
         \A u \in Upload : multi'[u].state = "completed" <=> multi[u].state = "completed",
         \A q \in Request, u \in Upload : Owns(q, u)' => Owns(q, u),
         \A q \in Request : NeedsFile(req'[q]) => NeedsFile(req[q]),
         StagesSound'
  PROVE  IInv'
<1>1. AssembledFirst' /\ SoleOwner' /\ OwnerFirst' /\ FileThere'
  BY DEF IInv, AssembledFirst, SoleOwner, OwnerFirst, FileThere
<1>2. TrackCreated' /\ AssembledComplete' /\ OneTrackPerUpload' /\ RawFileKept'
  BY DEF IInv, TrackCreated, AssembledComplete, OneTrackPerUpload, RawFileKept
<1> QED BY <1>1, <1>2 DEF IInv

\* A step of the owner that drops the object it no longer needs.
LEMMA DropKeeps ==
  ASSUME IInv, TypeOK', NEW p \in Request, NEW u \in Upload, Owns(p, u),
         object' = [object EXCEPT ![u] = NoFile], UNCHANGED <<multi, created, track>>,
         \A q \in Request \ {p} : req'[q] = req[q],
         ~NeedsFile(req'[p]), ~At(p, "assemble")', ~req'[p].fresh,
         \A v \in Upload : Owns(p, v)' => Owns(p, v)
  PROVE  IInv'
<1>1. /\ \A v \in Upload \ {u} : object'[v] = object[v]
      /\ object'[u] = NoFile
  BY DEF IInv, TypeOK
<1>2. \A q \in Request, v \in Upload : Owns(q, v)' => Owns(q, v)
  BY DEF Owns
<1>3. StagesSound'
  BY DEF IInv, StagesSound, At
<1>4. AssembledFirst' /\ SoleOwner' /\ OwnerFirst'
  BY <1>1, <1>2 DEF IInv, AssembledFirst, SoleOwner, OwnerFirst
<1>5. FileThere'
  <2> SUFFICES ASSUME NEW v \in Upload, NEW q \in Request, Owns(q, v)', NeedsFile(req'[q])
               PROVE  object'[v] # NoFile
    BY DEF FileThere
  <2>1. q # p /\ Owns(q, v) /\ NeedsFile(req[q])
    BY <1>2
  <2>2. v # u
    BY <2>1 DEF IInv, SoleOwner
  <2> QED BY <1>1, <2>1, <2>2 DEF IInv, FileThere
<1>6. track[u] = "none"
  BY DEF IInv, OwnerFirst, TrackCreated
<1>7. TrackCreated' /\ AssembledComplete' /\ OneTrackPerUpload'
  BY <1>1 DEF IInv, TrackCreated, AssembledComplete, OneTrackPerUpload
<1>8. RawFileKept'
  BY <1>1, <1>6 DEF IInv, RawFileKept
<1> QED BY <1>3, <1>4, <1>5, <1>7, <1>8 DEF IInv

----------------------------------------------------------------------------
(* Requests.                                                               *)

\* A request that begins owns nothing yet; complete begins with all chunks.
LEMMA BeginStep ==
  ASSUME IInv, NEW q \in Request, NEW u \in Upload, NEW c \in Chunk,
         CreateMultipart(q, u) \/ ChunkLoad(q, u, c) \/ CompleteLoad(q, u) \/ CancelLoad(q, u)
  PROVE  IInv'
<1>1. 1 \in Chunk
  BY ExpectedAssumption DEF Chunk
<1>2. PICK d \in Chunk, stage \in {"opened", "put", "assemble", "abort"} :
        /\ Begin(q, u, d, stage)
        /\ stage = "assemble" => AllChunks(u)
  BY <1>1 DEF CreateMultipart, ChunkLoad, CompleteLoad, CancelLoad
<1>3. /\ UNCHANGED <<row, expired, object, track, created, task, cleanup, acked>>
      /\ multi' \in [Upload -> Multipart]
      /\ \A v \in Upload : multi'[v].state = "completed" <=> multi[v].state = "completed"
  BY DEF CreateMultipart, ChunkLoad, CompleteLoad, CancelLoad, IInv, TypeOK, Multipart
<1>4. req' \in [Request -> RequestRec]
  BY <1>2, BeginType DEF IInv
<1>5. TypeOK'
  BY <1>3, <1>4 DEF IInv, TypeOK
<1>6. /\ \A p \in Request \ {q} : req'[p] = req[p]
      /\ req'[q].at = stage /\ req'[q].parts = row[u].parts /\ ~req'[q].fresh
  BY <1>2 DEF Begin, IInv, TypeOK
<1>7. StagesSound'
  <2>1. stage = "assemble" => row[u].parts = Chunk
    BY <1>2, CountedAll DEF AllChunks, IInv, TypeOK, Row
  <2> QED BY <1>6, <2>1 DEF StagesSound, At, IInv
<1>8. \A p \in Request, v \in Upload : Owns(p, v)' => Owns(p, v)
  BY <1>6 DEF Owns
<1>9. \A p \in Request : NeedsFile(req'[p]) => NeedsFile(req[p])
  BY <1>6 DEF NeedsFile
<1> QED BY <1>3, <1>5, <1>7, <1>8, <1>9, QuietKeeps

\* A request that ends, or goes on to another stage.
LEMMA MoveKeeps ==
  ASSUME IInv, TypeOK', NEW q \in Request, UNCHANGED <<object, created, track>>,
         \A u \in Upload : multi'[u].state = "completed" <=> multi[u].state = "completed",
         \/ End(q) /\ Upload # {}
         \/ Goto(q, "write") /\ At(q, "put")
         \/ Goto(q, "settle") /\ At(q, "abort")
         \/ Goto(q, "finalize") /\ At(q, "scan")
         \/ Goto(q, "commit") /\ At(q, "finalize")
         \/ /\ req' = [req EXCEPT ![q].at = "commit", ![q].fresh = TRUE]
            /\ At(q, "finalize")
  PROVE  IInv'
<1>1. /\ \A p \in Request \ {q} : req'[p] = req[p]
      /\ req'[q].at \in {"idle", "write", "settle", "finalize", "commit"}
      /\ req'[q].at \in {"finalize", "commit"}
           => /\ req'[q].upload = req[q].upload
              /\ req[q].at \in {"scan", "finalize"}
      /\ req'[q].fresh => req'[q].at = "commit"
  BY IdleType DEF End, Goto, At, IInv, StagesSound, TypeOK, RequestRec
<1>2. StagesSound'
  BY <1>1 DEF IInv, StagesSound, At
<1>3. \A p \in Request, u \in Upload : Owns(p, u)' => Owns(p, u)
  BY <1>1 DEF Owns
<1>4. \A p \in Request : NeedsFile(req'[p]) => NeedsFile(req[p])
  BY <1>1 DEF NeedsFile
<1> QED BY <1>2, <1>3, <1>4, QuietKeeps

LEMMA PlainStep ==
  ASSUME IInv, Upload # {}, NEW q \in Request,
         \/ Crash(q) \/ InitCommit(q) \/ UploadPart(q) \/ ChunkCommit(q)
         \/ Clean(q) \/ Reject(q) \/ CancelAbort(q) \/ CancelCommit(q)
  PROVE  IInv'
<1>1. TypeOK
  BY DEF IInv
<1>2. req[q].upload \in Upload /\ req[q].chunk \in Chunk /\ req[q].parts \subseteq Chunk
  BY <1>1 DEF TypeOK, RequestRec
<1>3. CASE Crash(q) \/ Reject(q)
  <2>1. End(q) /\ UNCHANGED <<row, expired, multi, object, track, created, task, cleanup, acked>>
    BY <1>3 DEF Crash, Reject
  <2>2. TypeOK'
    BY <1>1, <2>1, EndType DEF TypeOK
  <2> QED BY <2>1, <2>2, MoveKeeps
<1>4. CASE InitCommit(q) \/ ChunkCommit(q) \/ CancelCommit(q)
  <2>1. /\ End(q) /\ UNCHANGED <<expired, multi, object, track, created, task, cleanup>>
        /\ row' \in [Upload -> Row] /\ acked' \in [Upload -> SUBSET Chunk]
    <3>1. CASE InitCommit(q)
      BY <1>1, <1>2, <3>1 DEF InitCommit, TypeOK, Row
    <3>2. CASE ChunkCommit(q)
      <4>1. Parts(q) \subseteq Chunk
        BY <1>2 DEF Parts
      <4> QED BY <1>1, <1>2, <3>2, <4>1 DEF ChunkCommit, TypeOK, Row
    <3>3. CASE CancelCommit(q)
      BY <1>1, <1>2, <3>3 DEF CancelCommit, TypeOK, Row
    <3> QED BY <1>4, <3>1, <3>2, <3>3
  <2>2. TypeOK'
    BY <1>1, <2>1, EndType DEF TypeOK
  <2> QED BY <2>1, <2>2, MoveKeeps
<1>5. CASE UploadPart(q)
  <2>1. /\ UNCHANGED <<row, expired, object, track, created, task, cleanup, acked>>
        /\ End(q) \/ (At(q, "put") /\ Goto(q, "write"))
        /\ multi' \in [Upload -> Multipart]
        /\ \A u \in Upload : multi'[u].state = "completed" <=> multi[u].state = "completed"
    <3> DEFINE u == req[q].upload
    <3>1. CASE multi[u].state = "open"
      <4>1. multi[u].parts \cup {req[q].chunk} \subseteq Chunk
        BY <1>1, <1>2 DEF TypeOK, Multipart
      <4>2. multi' = [multi EXCEPT ![u].parts = multi[u].parts \cup {req[q].chunk}]
        BY <1>5, <3>1 DEF UploadPart
      <4>3. multi' \in [Upload -> Multipart]
        <5>1. multi[u] \in Multipart
          BY <1>1, <1>2 DEF TypeOK
        <5>2. [multi[u] EXCEPT !.parts = multi[u].parts \cup {req[q].chunk}] \in Multipart
          BY <4>1, <5>1 DEF Multipart
        <5>3. multi' = [multi EXCEPT ![u] =
                          [multi[u] EXCEPT !.parts = multi[u].parts \cup {req[q].chunk}]]
          BY <4>2
        <5> QED BY <1>1, <5>2, <5>3 DEF TypeOK
      <4>4. \A v \in Upload : multi'[v].state = multi[v].state
        BY <1>1, <4>2 DEF TypeOK, Multipart
      <4> QED BY <1>5, <3>1, <4>3, <4>4 DEF UploadPart
    <3>2. CASE multi[u].state # "open"
      BY <1>1, <1>5, <3>2, SMTT(30) DEF UploadPart, TypeOK, Multipart
    <3> QED BY <3>1, <3>2
  <2>2. req' \in [Request -> RequestRec]
    BY <1>1, <2>1, EndType, GotoType
  <2>3. TypeOK'
    BY <1>1, <2>1, <2>2 DEF TypeOK
  <2> QED BY <2>1, <2>3, MoveKeeps
<1>6. CASE Clean(q)
  <2>1. /\ At(q, "scan") /\ Goto(q, "finalize")
        /\ UNCHANGED <<row, expired, multi, object, track, created, task, cleanup, acked>>
    BY <1>6 DEF Clean
  <2>2. TypeOK'
    BY <1>1, <2>1, GotoType DEF TypeOK
  <2> QED BY <2>1, <2>2, MoveKeeps
<1>7. CASE CancelAbort(q)
  <2>1. /\ At(q, "abort") /\ Goto(q, "settle") /\ AbortMultipart({req[q].upload})
        /\ UNCHANGED <<row, expired, object, track, created, task, cleanup, acked>>
    BY <1>7 DEF CancelAbort
  <2>2. /\ multi' \in [Upload -> Multipart]
        /\ \A u \in Upload : multi'[u].state = "completed" <=> multi[u].state = "completed"
    BY <1>1, <1>2, <2>1, AbortType
  <2>3. TypeOK'
    BY <1>1, <2>1, <2>2, GotoType DEF TypeOK
  <2> QED BY <2>1, <2>2, <2>3, MoveKeeps
<1> QED BY <1>3, <1>4, <1>5, <1>6, <1>7

----------------------------------------------------------------------------
(* complete.                                                               *)

\* The store assembles an upload once: whoever does it owns it alone.
LEMMA AssembleStep ==
  ASSUME IInv, Upload # {}, NEW q \in Request, Assemble(q) PROVE IInv'
<1> DEFINE u == req[q].upload
<1>1. TypeOK /\ u \in Upload
  BY DEF IInv, TypeOK, RequestRec
<1>2. CASE ~Assembles(q)
  <2>1. /\ End(q)
        /\ UNCHANGED <<row, expired, multi, object, track, created, task, cleanup, acked>>
    BY <1>2 DEF Assemble
  <2>2. TypeOK'
    BY <1>1, <2>1, EndType DEF TypeOK
  <2> QED BY <2>1, <2>2, MoveKeeps
<1>3. CASE Assembles(q)
  <2>1. /\ At(q, "assemble") /\ Goto(q, "scan")
        /\ multi' = [multi EXCEPT ![u].state = "completed"]
        /\ object' = [object EXCEPT ![u] = req[q].parts]
        /\ UNCHANGED <<row, expired, track, created, task, cleanup, acked>>
    BY <1>3 DEF Assemble
  <2>2. multi[u].state # "completed"
    BY <1>3 DEF Assembles
  <2>3. req[q].parts = Chunk /\ Chunk # NoFile
    BY <2>1, NoFileAssumption DEF IInv, StagesSound
  <2>4. /\ object'[u] = Chunk
        /\ \A v \in Upload \ {u} : object'[v] = object[v] /\ multi'[v] = multi[v]
        /\ multi'[u].state = "completed"
        /\ \A p \in Request \ {q} : req'[p] = req[p]
        /\ req'[q].at = "scan" /\ req'[q].upload = u /\ ~req'[q].fresh
    BY <1>1, <2>1, <2>3 DEF IInv, StagesSound, At, Goto, TypeOK, Multipart, RequestRec
  <2>5. TypeOK'
    <3>1. req' \in [Request -> RequestRec]
      BY <1>1, <2>1, GotoType
    <3>2. multi' \in [Upload -> Multipart] /\ object' \in [Upload -> {NoFile} \cup SUBSET Chunk]
      BY <1>1, <2>1, <2>3 DEF TypeOK, Multipart
    <3> QED BY <1>1, <2>1, <3>1, <3>2 DEF TypeOK
  <2>6. /\ created[u] = 0 /\ \A p \in Request : ~Owns(p, u)
        /\ \A p \in Request, v \in Upload :
             Owns(p, v)' => IF v = u THEN p = q ELSE Owns(p, v) /\ p # q
    BY <1>1, <2>2, <2>4 DEF IInv, AssembledFirst, Owns
  <2>7. StagesSound' /\ TrackCreated' /\ OneTrackPerUpload'
    BY <2>1, <2>4 DEF IInv, StagesSound, At, TrackCreated, OneTrackPerUpload
  <2>8. AssembledFirst' /\ SoleOwner' /\ OwnerFirst'
    BY <2>1, <2>4, <2>6 DEF IInv, AssembledFirst, SoleOwner, OwnerFirst
  <2>9. FileThere' /\ AssembledComplete' /\ RawFileKept'
    BY <2>1, <2>3, <2>4, <2>6 DEF IInv, FileThere, AssembledComplete, RawFileKept
  <2> QED BY <2>5, <2>7, <2>8, <2>9 DEF IInv
<1> QED BY <1>2, <1>3

\* The owner drops what was blocked, and what is known already.
LEMMA BlockedStep ==
  ASSUME IInv, Upload # {}, NEW q \in Request, Blocked(q) PROVE IInv'
<1>1. /\ TypeOK /\ At(q, "scan") /\ End(q)
      /\ UNCHANGED <<row, expired, multi, track, created, task, cleanup, acked>>
      /\ req[q].upload \in Upload
  BY DEF IInv, Blocked, TypeOK, RequestRec
<1>2. req' \in [Request -> RequestRec]
  BY <1>1, EndType
<1>3. CASE UNCHANGED object
  <2>1. TypeOK'
    BY <1>1, <1>2, <1>3 DEF TypeOK
  <2> QED BY <1>1, <1>3, <2>1, MoveKeeps
<1>4. CASE object' = [object EXCEPT ![req[q].upload] = NoFile]
  <2>1. TypeOK'
    BY <1>1, <1>2, <1>4 DEF TypeOK
  <2>2. /\ \A p \in Request \ {q} : req'[p] = req[p]
        /\ req'[q].at = "idle" /\ ~req'[q].fresh
    BY <1>1, IdleType DEF End, TypeOK
  <2>3. ~NeedsFile(req'[q]) /\ ~At(q, "assemble")' /\ \A v \in Upload : ~Owns(q, v)'
    BY <2>2 DEF NeedsFile, At, Owns
  <2>4. Owns(q, req[q].upload)
    BY <1>1 DEF Owns, At
  <2> QED BY <1>1, <1>4, <2>1, <2>2, <2>3, <2>4, DropKeeps
<1> QED BY <1>3, <1>4 DEF Blocked

LEMMA FinalizeStep ==
  ASSUME IInv, Upload # {}, NEW q \in Request, Finalize(q) PROVE IInv'
<1> DEFINE u == req[q].upload
<1>1. /\ TypeOK /\ At(q, "finalize") /\ u \in Upload
      /\ UNCHANGED <<row, expired, multi, track, created, cleanup, acked>>
  BY DEF IInv, Finalize, TypeOK, RequestRec
<1>2. CASE /\ task' = [task EXCEPT ![u] = "queued"]
           /\ req' = [req EXCEPT ![q].at = "commit", ![q].fresh = TRUE]
           /\ UNCHANGED object
  <2>1. task' \in [Upload -> TaskState] /\ req' \in [Request -> RequestRec]
    <3>1. \A p \in Request : req'[p] = IF p = q THEN [req[q] EXCEPT !.at = "commit", !.fresh = TRUE]
                                                ELSE req[p]
      BY <1>1, <1>2 DEF TypeOK
    <3>2. req[q] \in RequestRec
      BY <1>1 DEF TypeOK
    <3>3. [req[q] EXCEPT !.at = "commit", !.fresh = TRUE] \in RequestRec
      BY <3>2 DEF RequestRec
    <3>4. req' \in [Request -> RequestRec]
      BY <1>1, <1>2, <3>1, <3>3 DEF TypeOK
    <3> QED BY <1>1, <1>2, <3>4 DEF TypeOK, TaskState
  <2>2. TypeOK'
    BY <1>1, <1>2, <2>1 DEF TypeOK
  <2> QED BY <1>1, <1>2, <2>2, MoveKeeps
<1>3. CASE Goto(q, "commit") /\ UNCHANGED <<task, object>>
  <2>1. TypeOK'
    BY <1>1, <1>3, GotoType DEF TypeOK
  <2> QED BY <1>1, <1>3, <2>1, MoveKeeps
<1>4. CASE Goto(q, "commit") /\ UNCHANGED task /\ object' = [object EXCEPT ![u] = NoFile]
  <2>1. req' \in [Request -> RequestRec]
    BY <1>1, <1>4, GotoType
  <2>2. TypeOK'
    BY <1>1, <1>4, <2>1 DEF TypeOK
  <2>3. /\ \A p \in Request \ {q} : req'[p] = req[p]
        /\ req'[q].at = "commit" /\ ~req'[q].fresh /\ req'[q].upload = u
    BY <1>1, <1>4 DEF Goto, At, IInv, StagesSound, TypeOK, RequestRec
  <2>4. /\ ~NeedsFile(req'[q]) /\ ~At(q, "assemble")'
        /\ Owns(q, u) /\ \A v \in Upload : Owns(q, v)' => Owns(q, v)
    BY <1>1, <2>3 DEF NeedsFile, At, Owns
  <2> QED BY <1>1, <1>4, <2>2, <2>3, <2>4, DropKeeps
<1> QED BY <1>2, <1>3, <1>4 DEF Finalize

\* The owner commits the first track of its upload.
LEMMA CommitStep ==
  ASSUME IInv, Upload # {}, NEW q \in Request, CompleteCommit(q) PROVE IInv'
<1> DEFINE u == req[q].upload
<1>1. /\ TypeOK /\ At(q, "commit") /\ u \in Upload /\ End(q)
      /\ row' = [row EXCEPT ![u].status = "completed"]
      /\ track' = [track EXCEPT ![u] = IF req[q].fresh THEN "processing" ELSE "active"]
      /\ created' = [created EXCEPT ![u] = created[u] + 1]
      /\ UNCHANGED <<expired, multi, object, task, cleanup, acked>>
  BY DEF IInv, CompleteCommit, TypeOK, RequestRec
<1>2. Owns(q, u) /\ created[u] = 0
  BY <1>1 DEF Owns, At, IInv, OwnerFirst
<1>3. /\ \A p \in Request \ {q} : req'[p] = req[p]
      /\ req'[q].at = "idle" /\ ~req'[q].fresh
  BY <1>1, IdleType DEF End, TypeOK
<1>4. \A p \in Request, v \in Upload : Owns(p, v)' => v # u /\ Owns(p, v) /\ p # q
  BY <1>2, <1>3 DEF Owns, IInv, SoleOwner
<1>5. /\ created'[u] = 1 /\ track'[u] = IF req[q].fresh THEN "processing" ELSE "active"
      /\ \A v \in Upload \ {u} : created'[v] = created[v] /\ track'[v] = track[v]
  BY <1>1, <1>2 DEF TypeOK
<1>6. TypeOK'
  <2>1. req' \in [Request -> RequestRec]
    BY <1>1, EndType
  <2>2. row' \in [Upload -> Row]
    BY <1>1 DEF TypeOK, Row
  <2>3. track' \in [Upload -> TrackStatus] /\ created' \in [Upload -> Nat]
    BY <1>1 DEF TypeOK, TrackStatus
  <2> QED BY <1>1, <2>1, <2>2, <2>3 DEF TypeOK
<1>7. StagesSound' /\ SoleOwner' /\ OwnerFirst'
  BY <1>3, <1>4, <1>5 DEF IInv, StagesSound, At, SoleOwner, OwnerFirst
<1>8. AssembledFirst'
  <2>1. multi[u].state = "completed"
    BY <1>1, <1>2 DEF IInv, AssembledFirst
  <2> QED BY <1>1, <1>4, <1>5, <2>1 DEF IInv, AssembledFirst
<1>9. FileThere' /\ AssembledComplete'
  <2>1. \A p \in Request : p # q => req'[p] = req[p]
    BY <1>3
  <2> QED BY <1>1, <1>4, <2>1 DEF IInv, FileThere, AssembledComplete
<1>10. TrackCreated' /\ OneTrackPerUpload'
  BY <1>5 DEF IInv, TrackCreated, OneTrackPerUpload
<1>11. RawFileKept'
  <2>1. req[q].fresh => object[u] # NoFile
    BY <1>1, <1>2 DEF IInv, FileThere, NeedsFile, At
  <2> QED BY <1>1, <1>5, <2>1 DEF IInv, RawFileKept
<1> QED BY <1>6, <1>7, <1>8, <1>9, <1>10, <1>11 DEF IInv

----------------------------------------------------------------------------
(* The task, the clock and the cleanup.                                    *)

\* The task writes the track only if it is there; a raw file goes with an
\* active track.
LEMMA TaskStep ==
  ASSUME IInv, NEW u \in Upload, TaskBegins(u) \/ TaskEnds(u) PROVE IInv'
<1>1. /\ TypeOK /\ task[u] # "none"
      /\ UNCHANGED <<row, expired, multi, created, req, cleanup, acked>>
  BY DEF IInv, TaskBegins, TaskEnds
<1>2. /\ track' \in [Upload -> TrackStatus]
      /\ \A v \in Upload : track'[v] = "none" <=> track[v] = "none"
      /\ \A v \in Upload : v # u => track'[v] = track[v]
      /\ track'[u] = "processing" => track[u] = "processing"
  <2>1. CASE \E status \in {"active", "error"} : Settle(u, status)
    BY <1>1, <2>1, SettleType
  <2>2. CASE UNCHANGED track
    BY <1>1, <2>2 DEF TypeOK
  <2> QED BY <2>1, <2>2 DEF TaskBegins, TaskEnds
<1>3. \/ UNCHANGED object
      \/ object' = [object EXCEPT ![u] = NoFile] /\ track'[u] = "active"
  BY DEF TaskBegins, TaskEnds, DropsRaw
<1>4. /\ \A v \in Upload : object'[v] \in {object[v], NoFile}
      /\ \A v \in Upload : object'[v] # object[v] => v = u /\ track'[u] = "active"
      /\ object' \in [Upload -> {NoFile} \cup SUBSET Chunk]
  BY <1>1, <1>3 DEF TypeOK
<1>5. TypeOK'
  <2>1. task' \in [Upload -> TaskState]
    BY <1>1 DEF TaskBegins, TaskEnds, TypeOK, TaskState
  <2> QED BY <1>1, <1>2, <1>4, <2>1 DEF TypeOK
<1>6. StagesSound' /\ SoleOwner' /\ OwnerFirst' /\ OneTrackPerUpload' /\ TrackCreated'
  BY <1>1, <1>2 DEF IInv, StagesSound, At, SoleOwner, Owns, OwnerFirst, OneTrackPerUpload,
                    TrackCreated
<1>7. AssembledFirst' /\ AssembledComplete'
  BY <1>1, <1>4 DEF IInv, AssembledFirst, Owns, AssembledComplete
<1>8. FileThere'
  <2> SUFFICES ASSUME NEW v \in Upload, NEW q \in Request, Owns(q, v), NeedsFile(req[q])
               PROVE  object'[v] # NoFile
    BY <1>1 DEF FileThere, Owns
  <2>1. object[v] # NoFile /\ track[v] = "none"
    BY DEF IInv, FileThere, OwnerFirst, TrackCreated
  <2> QED BY <1>2, <1>4, <2>1
<1>9. RawFileKept'
  <2>1. \A v \in Upload : track'[v] = "processing" => track[v] = "processing" /\ object'[v] = object[v]
    BY <1>2, <1>4
  <2> QED BY <2>1 DEF IInv, RawFileKept
<1> QED BY <1>5, <1>6, <1>7, <1>8, <1>9 DEF IInv

\* Time and the cleanup touch rows, and multipart uploads that are not completed.
LEMMA CleanupStep ==
  ASSUME IInv,
         \/ \E u \in Upload : Expire(u)
         \/ CleanupLoad \/ CleanupCommit \/ CleanupDies
         \/ UNCHANGED vars
  PROVE  IInv'
<1>1. TypeOK /\ Orphans \subseteq Upload
  BY DEF IInv, TypeOK, Orphans
<1>2. UNCHANGED <<object, track, created, task, req, acked>>
  BY DEF Expire, CleanupLoad, CleanupCommit, CleanupDies, vars
<1>3. /\ multi' \in [Upload -> Multipart]
      /\ \A u \in Upload : multi'[u].state = "completed" <=> multi[u].state = "completed"
  <2>1. CASE CleanupLoad
    BY <1>1, <2>1, AbortType DEF CleanupLoad
  <2>2. CASE ~CleanupLoad
    BY <1>1, <2>2 DEF Expire, CleanupCommit, CleanupDies, vars, TypeOK
  <2> QED BY <2>1, <2>2
<1>4. row' \in [Upload -> Row] /\ expired' \subseteq Upload /\ cleanup' \subseteq Upload
  BY <1>1 DEF Expire, CleanupLoad, CleanupCommit, CleanupDies, vars, TypeOK, Row
<1>5. TypeOK'
  BY <1>1, <1>2, <1>3, <1>4 DEF TypeOK
<1>6. StagesSound'
  BY <1>2 DEF IInv, StagesSound, At
<1>7. \A q \in Request, u \in Upload : Owns(q, u)' => Owns(q, u)
  BY <1>2 DEF Owns
<1> QED BY <1>2, <1>3, <1>5, <1>6, <1>7, QuietKeeps

----------------------------------------------------------------------------

LEMMA NextKeeps == ASSUME Upload # {}, IInv, [Next]_vars PROVE IInv'
<1>1. CASE \E q \in Request : RequestStep(q) \/ Crash(q)
  BY <1>1, PlainStep, AssembleStep, BlockedStep, FinalizeStep, CommitStep DEF RequestStep
<1>2. CASE \E q \in Request, u \in Upload :
             CreateMultipart(q, u) \/ CompleteLoad(q, u) \/ CancelLoad(q, u)
  <2>1. 1 \in Chunk
    BY ExpectedAssumption DEF Chunk
  <2> QED BY <1>2, <2>1, BeginStep
<1>3. CASE \E q \in Request, u \in Upload, c \in Chunk : ChunkLoad(q, u, c)
  BY <1>3, BeginStep
<1>4. CASE \E u \in Upload : TaskBegins(u) \/ TaskEnds(u)
  BY <1>4, TaskStep
<1>5. CASE \/ \E u \in Upload : Expire(u)
           \/ CleanupLoad \/ CleanupCommit \/ CleanupDies
           \/ UNCHANGED vars
  BY <1>5, CleanupStep
<1> QED BY <1>1, <1>2, <1>3, <1>4, <1>5 DEF Next

\* The invariant, with the types, holds throughout.
LEMMA Inductive == ASSUME Upload # {} PROVE Spec => []IInv
<1>1. Init => IInv
  BY InitHolds
<1>2. IInv /\ [Next]_vars => IInv'
  BY NextKeeps
<1> QED BY <1>1, <1>2, PTL DEF Spec

\* The rows, the store, the tracks and the requests have their types.
THEOREM TypeCorrect == ASSUME Upload # {} PROVE Spec => []TypeOK
<1>1. IInv => TypeOK
  BY DEF IInv
<1> QED BY <1>1, Inductive, PTL

\* What complete assembles has all chunks: a row that has lost some is not as
\* long as the count it is compared with.
THEOREM FilesAreWhole == ASSUME Upload # {} PROVE Spec => []AssembledComplete
<1>1. IInv => AssembledComplete
  BY DEF IInv
<1> QED BY <1>1, Inductive, PTL

\* An upload becomes one track: the request that the store let assemble it is the
\* only one that goes on to commit.
THEOREM BecomesOneTrack == ASSUME Upload # {} PROVE Spec => []OneTrackPerUpload
<1>1. IInv => OneTrackPerUpload
  BY DEF IInv
<1> QED BY <1>1, Inductive, PTL

\* A track in processing has its raw file: no task deletes it before the track is
\* committed, for it has no track to set to active.
THEOREM FileStays == ASSUME Upload # {} PROVE Spec => []RawFileKept
<1>1. IInv => RawFileKept
  BY DEF IInv
<1> QED BY <1>1, Inductive, PTL

----------------------------------------------------------------------------
(* Library imports.                                                        *)

\* What is asked of the constants.
Sizes ==
  /\ IsFiniteSet(Job) /\ Job \subseteq Nat \ {0}
  /\ Selections \subseteq Nat \ {0} /\ Selections # {}
  /\ \E n \in Nat : \A m \in Selections : m <= n
  /\ LeaseCheckEvery \in Nat \ {0}
  /\ GlobalCap \in Nat /\ UserCap \in Nat
  /\ RunBound \in Nat /\ RequestBound \in Nat /\ FaultBound \in Nat

\* A task and a request have a job, a task has items left while it imports.
WorkKnown ==
  /\ \A r \in Run : /\ run[r].at # "off" => run[r].job \in Job
                    /\ run[r].at \in {"loop", "work"} => run[r].todo # {}
  /\ \A q \in JobRequest : jobReq[q].at # "idle" => jobReq[q].job \in Job
  /\ \A d \in Dispatcher : /\ disp[d].failed # 0 => disp[d].failed \in disp[d].kick
                           /\ disp[d].at = "kick" => disp[d].kick # {}

\* A row without a selection has no lease, and no task writes such a row.
LeasesSelected ==
  /\ \A j \in Job : job[j].selected = 0 => job[j].lease = 0
  /\ \A q \in JobRequest : jobReq[q].loaded.selected = 0 => jobReq[q].loaded.lease = 0
  /\ \A r \in Run : run[r].at \in {"seed", "lease", "commit"} => run[r].selected # 0

\* A job that was never started has no task, and has counted nothing.
ReadyUntouched ==
  \A j \in Job : job[j].status = "ready" => job[j].counted = 0 /\ RunsOf(j) = {}

\* The items a task has committed since it compared the lease bound the late ones.
LateBy(x) ==
  IF x.at \in {"seed", "lease"} THEN x.late = 0 /\ x.seen = 0
  ELSE IF x.at = "loop"
    THEN x.late <= (IF x.seen = 0 THEN 0 ELSE ((x.seen - 1) % LeaseCheckEvery) + 1)
  ELSE IF x.at = "work" THEN x.seen > 0 /\ x.late <= (x.seen - 1) % LeaseCheckEvery
  ELSE x.late <= LeaseCheckEvery

\* A task that works late does not get its lease back.
LateSound ==
  \A j \in Job : "reselected" \notin history[j] =>
    \A r \in RunsOf(j) :
      /\ LateBy(run[r])
      /\ run[r].at \in {"loop", "work"} /\ run[r].late > 0 => job[j].lease # r

Undisturbed(j) == history[j] \cap {"overlapped", "restarted"} = {}

\* The only task of a job has the counter that the row has, and pending items.
CountSound ==
  \A j \in Job : Undisturbed(j) =>
    /\ job[j].counted = Cardinality(Decided(j)) + Cardinality(Recounted(j))
    /\ \A r, p \in RunsOf(j) : r = p
    /\ \A r \in RunsOf(j) :
         /\ run[r].at \in {"loop", "work"} => run[r].counted = job[j].counted
         /\ run[r].at \in {"lease", "loop", "work"} =>
              run[r].todo \subseteq {i \in Index : item[j][i] = "pending"}

Wanted(j) == history[j] \cap {"reselected", "cancelled", "overdue"} = {}

\* History remembers the requests that end a job.
EndsRecorded ==
  /\ \A j \in flag : "cancelled" \in history[j]
  /\ \A q \in JobRequest : /\ jobReq[q].at = "cancel" => "cancelled" \in history[jobReq[q].job]
                           /\ jobReq[q].at = "poll" => "overdue" \in history[jobReq[q].job]

\* Every task, every request and the row agree on the selection.
SelectionKept(j) ==
  /\ job[j].selected = 0 => job[j].status = "ready" /\ RunsOf(j) = {}
  /\ \A r \in RunsOf(j) : run[r].selected = job[j].selected
  /\ \A q \in JobRequest : jobReq[q].at = "start" /\ jobReq[q].job = j
       => jobReq[q].loaded.selected \in {0, job[j].selected}
  /\ \A d \in Dispatcher : j \in disp[d].kick => job[j].selected # 0

\* The selection has its rows, and no others have one.
Seeded(j) == \A i \in Index : i <= job[j].selected => item[j][i] # "none"

Pending(j) == {i \in Index : item[j][i] = "pending"}

\* What is still pending is the work of every task that has looked.
PendingKnown(j) ==
  /\ \A i \in Index : item[j][i] # "none" => i <= job[j].selected
  /\ \A r \in RunsOf(j) : run[r].at # "seed" =>
       /\ Seeded(j) /\ Pending(j) \subseteq run[r].todo
       /\ \A i \in run[r].todo : i <= job[j].selected
       /\ run[r].at \in {"finish", "commit", "clear"} => run[r].todo = {}
  /\ job[j].status = "done" => Seeded(j) /\ Pending(j) = {}

CompleteSound == \A j \in Job : Wanted(j) => SelectionKept(j) /\ PendingKnown(j)

ImportInv == /\ ImportTypes /\ WorkKnown /\ LeasesSelected /\ ReadyUntouched /\ LateSound
             /\ CountSound /\ EndsRecorded /\ CompleteSound

----------------------------------------------------------------------------
(* Numbers.                                                                *)

LEMMA Divided ==
  ASSUME NEW n \in Nat, NEW e \in Nat \ {0}
  PROVE  /\ n \div e \in Nat /\ n % e \in 0..(e - 1)
         /\ n = e * (n \div e) + (n % e)
OBVIOUS

LEMMA Product == ASSUME NEW e \in Nat, NEW d \in Nat PROVE e * d \in Nat
OBVIOUS

LEMMA Distribute ==
  ASSUME NEW e \in Int, NEW a \in Int, NEW b \in Int
  PROVE  e * (a + b) = e * a + e * b
OBVIOUS

LEMMA NextMultiple ==
  ASSUME NEW e \in Nat, NEW a \in Nat, NEW b \in Nat, a < b
  PROVE  e * b >= e * a + e
<1>1. PICK d \in Nat : b = (a + 1) + d
  <2>1. b - (a + 1) \in Nat /\ b = (a + 1) + (b - (a + 1))
    OBVIOUS
  <2> QED BY <2>1
<1>2. e * b = e * (a + 1) + e * d /\ e * (a + 1) = e * a + e
  BY <1>1, Distribute
<1>3. e * d \in Nat /\ e * a \in Nat
  BY Product
<1> QED BY <1>2, <1>3

\* A number has one remainder.
LEMMA Remainder ==
  ASSUME NEW e \in Nat \ {0}, NEW q \in Nat, NEW p \in Nat,
         NEW r \in 0..(e - 1), NEW s \in 0..(e - 1), e * q + r = e * p + s
  PROVE  r = s
<1>1. e * q \in Nat /\ e * p \in Nat
  BY Product
<1>2. CASE q < p
  <2>1. e * p >= e * q + e
    BY <1>2, NextMultiple
  <2> QED BY <1>1, <2>1
<1>3. CASE p < q
  <2>1. e * q >= e * p + e
    BY <1>3, NextMultiple
  <2> QED BY <1>1, <2>1
<1>4. CASE p = q
  BY <1>1, <1>4
<1> QED BY <1>2, <1>3, <1>4

\* Up to the next multiple the remainders follow each other.
LEMMA NextRemainder ==
  ASSUME NEW n \in Nat, NEW e \in Nat \ {0}, (n + 1) % e # 0
  PROVE  (n + 1) % e = (n % e) + 1
<1> DEFINE q == n \div e
           r == n % e
           p == (n + 1) \div e
           s == (n + 1) % e
<1>1. /\ q \in Nat /\ r \in 0..(e - 1) /\ n = e * q + r
      /\ p \in Nat /\ s \in 0..(e - 1) /\ n + 1 = e * p + s
  <2>1. q \in Nat /\ r \in 0..(e - 1) /\ n = e * q + r
    BY Divided
  <2>2. p \in Nat /\ s \in 0..(e - 1) /\ n + 1 = e * p + s
    <3>1. n + 1 \in Nat
      OBVIOUS
    <3> QED BY <3>1, Divided
  <2> QED BY <2>1, <2>2
<1>2. s # 0
  OBVIOUS
<1> HIDE DEF q, r, p, s
<1>3. e * q \in Nat /\ e * p \in Nat /\ e * (q + 1) \in Nat /\ e * (q + 1) = e * q + e
  BY <1>1, Product, Distribute
<1>4. r + 1 # e
  <2>1. r + 1 = e => e * (q + 1) + 0 = e * p + s
    BY <1>1, <1>3
  <2>2. r + 1 = e => s = 0
    BY <1>1, <2>1, Remainder
  <2> QED BY <1>2, <2>2
<1>5. s = r + 1
  <2>1. r + 1 \in 0..(e - 1) /\ e * q + (r + 1) = e * p + s
    BY <1>1, <1>3, <1>4
  <2> QED BY <1>1, <2>1, Remainder
<1> QED BY <1>5 DEF r, s

----------------------------------------------------------------------------
(* Types.                                                                  *)

LEMMA Nothing ==
  ASSUME Sizes
  PROVE  /\ NewJob \in JobRow /\ NewJob.status = "ready" /\ NewJob.selected = 0
         /\ NewJob.lease = 0 /\ NewJob.counted = 0
         /\ NoRun \in RunRec /\ NoRun.at = "off" /\ NoRun.late = 0 /\ NoRun.seen = 0
         /\ NoDisp \in DispRec /\ NoDisp.at = "idle" /\ NoDisp.kick = {}
         /\ NoDisp.failed = 0
         /\ NoReq \in ReqRec /\ NoReq.at = "idle" /\ NoReq.loaded = NewJob
<1>1. /\ NewJob \in JobRow /\ NewJob.status = "ready" /\ NewJob.selected = 0
      /\ NewJob.lease = 0 /\ NewJob.counted = 0
  BY DEF NewJob, JobRow, Status
<1>2. NoRun \in RunRec /\ NoRun.at = "off" /\ NoRun.late = 0 /\ NoRun.seen = 0
  BY DEF NoRun, RunRec, Status
<1>3. /\ NoDisp \in DispRec /\ NoDisp.at = "idle" /\ NoDisp.kick = {}
      /\ NoDisp.failed = 0
  BY DEF NoDisp, DispRec
<1>4. NoReq \in ReqRec /\ NoReq.at = "idle" /\ NoReq.loaded = NewJob
  BY <1>1 DEF NoReq, ReqRec
<1> QED BY <1>1, <1>2, <1>3, <1>4

LEMMA Indices ==
  ASSUME Sizes
  PROVE  Index \subseteq Nat \ {0} /\ IsFiniteSet(Index) /\ Run \subseteq Nat \ {0}
<1>1. Index \subseteq Nat \ {0} /\ Run \subseteq Nat \ {0}
  BY DEF Index, Run, Sizes
<1>2. PICK n \in Nat : \A m \in Selections : m <= n
  BY DEF Sizes
<1>3. Index \subseteq 1..n
  BY <1>2 DEF Index, Sizes
<1>4. IsFiniteSet(1..n)
  BY FS_Interval
<1> QED BY <1>1, <1>3, <1>4, FS_Subset

LEMMA Counts ==
  ASSUME Sizes
  PROVE  /\ Cardinality(Importing) \in Nat
         /\ \A u : Cardinality(ImportingOf(u)) \in Nat
         /\ \A j : IsFiniteSet(Decided(j)) /\ Cardinality(Decided(j)) \in Nat
         /\ \A j : IsFiniteSet(Recounted(j)) /\ Cardinality(Recounted(j)) \in Nat
<1>1. Importing \subseteq Job /\ \A u : ImportingOf(u) \subseteq Job
  BY DEF Importing, ImportingOf
<1>2. \A j : Decided(j) \subseteq Index /\ Recounted(j) \subseteq Index
  BY DEF Decided, Recounted
<1> QED BY <1>1, <1>2, Indices, FS_Subset, FS_CardinalityType DEF Sizes

----------------------------------------------------------------------------
(* What the actions do, in kinds.                                          *)

Sound == ImportTypes /\ WorkKnown

\* Requests end or go on to a stage at which nothing they loaded matters.
ReqsSettle ==
  \A q \in JobRequest :
    \/ jobReq'[q] = jobReq[q]
    \/ /\ jobReq'[q].at \notin {"start", "cancel", "poll"}
       /\ jobReq'[q].loaded \in {NewJob, jobReq[q].loaded}

KicksSettle == \A d \in Dispatcher : disp'[d].kick \subseteq disp[d].kick

Quiet == UNCHANGED <<job, item, flag, run, history>> /\ ReqsSettle /\ KicksSettle

JobsBut(j) == \A k \in Job \ {j} : job'[k] = job[k]

\* Only the status of job j changes.
Restatus(j, s) ==
  /\ job'[j].status = s
  /\ job'[j].selected = job[j].selected /\ job'[j].lease = job[j].lease
  /\ job'[j].counted = job[j].counted
  /\ JobsBut(j)
  /\ UNCHANGED <<item, flag, run, history>> /\ ReqsSettle /\ KicksSettle

\* JobRequest q has loaded job j for the given stage, and recorded events.
Loaded(q, j, stage, events) ==
  /\ jobReq'[q].at = stage /\ jobReq'[q].job = j
  /\ jobReq'[q].loaded = (IF stage = "start" THEN job[j] ELSE NewJob)
  /\ \A p \in JobRequest \ {q} : jobReq'[p] = jobReq[p]
  /\ UNCHANGED <<job, item, run, disp>>
  /\ flag' \subseteq flag \cup (IF "cancelled" \in events THEN {j} ELSE {})
  /\ history'[j] = history[j] \cup events
  /\ \A k \in Job \ {j} : history'[k] = history[k]

RunsBut(r) == \A p \in Run \ {r} : run'[p] = run[p]

LEMMA StatusSet ==
  ASSUME ImportTypes, NEW j \in Job, NEW s \in Status, SetStatus(j, s)
  PROVE  /\ job' \in [Job -> JobRow] /\ JobsBut(j)
         /\ job'[j].status = s /\ job'[j].selected = job[j].selected
         /\ job'[j].lease = job[j].lease /\ job'[j].counted = job[j].counted
<1> DEFINE y == [job[j] EXCEPT !.status = s]
<1>1. job' = [job EXCEPT ![j] = y] /\ job[j] \in JobRow
  BY DEF SetStatus, ImportTypes
<1>2. /\ y \in JobRow /\ y.status = s /\ y.selected = job[j].selected
      /\ y.lease = job[j].lease /\ y.counted = job[j].counted
  BY <1>1 DEF JobRow
<1> HIDE DEF y
<1> QED BY <1>1, <1>2 DEF ImportTypes, JobsBut

LEMMA FaultType ==
  ASSUME Sizes, ImportTypes, NEW kind, Fault(kind) \/ UNCHANGED budget
  PROVE  budget' \in Budget
<1>1. budget \in Budget /\ FaultBound \in Nat
  BY DEF ImportTypes, Sizes
<1>2. CASE Fault(kind)
  BY <1>1, <1>2 DEF Fault, Budget
<1> QED BY <1>1, <1>2

LEMMA PutType ==
  ASSUME ImportTypes, NEW j \in Job, Put(j) \/ UNCHANGED msgs
  PROVE  msgs' \in [Job -> Nat]
BY DEF ImportTypes, Put

LEMMA TakingType ==
  ASSUME ImportTypes, NEW j \in Job, Taking(j)
  PROVE  msgs' \in [Job -> Nat]
BY DEF ImportTypes, Taking

LEMMA ReqSet ==
  ASSUME Sound, NEW q \in JobRequest, NEW y \in ReqRec, jobReq' = [jobReq EXCEPT ![q] = y],
         y.at # "idle" => y.job \in Job
  PROVE  /\ jobReq' \in [JobRequest -> ReqRec] /\ jobReq'[q] = y
         /\ \A p \in JobRequest \ {q} : jobReq'[p] = jobReq[p]
         /\ \A p \in JobRequest : jobReq'[p].at # "idle" => jobReq'[p].job \in Job
         /\ /\ y.at \notin {"start", "cancel", "poll"}
            /\ y.loaded \in {NewJob, jobReq[q].loaded}
            => ReqsSettle
BY DEF Sound, ImportTypes, WorkKnown, ReqsSettle

\* A request that ends.
LEMMA ReqEnds ==
  ASSUME Sizes, Sound, NEW q \in JobRequest, jobReq' = [jobReq EXCEPT ![q] = NoReq]
  PROVE  /\ jobReq' \in [JobRequest -> ReqRec] /\ ReqsSettle /\ jobReq'[q] = NoReq
         /\ \A p \in JobRequest \ {q} : jobReq'[p] = jobReq[p]
         /\ \A p \in JobRequest : jobReq'[p].at # "idle" => jobReq'[p].job \in Job
BY ReqSet, Nothing

LEMMA RunSet ==
  ASSUME Sound, NEW r \in Run, NEW y \in RunRec, run' = [run EXCEPT ![r] = y],
         y.at # "off" => y.job \in Job, y.at \in {"loop", "work"} => y.todo # {}
  PROVE  /\ run' \in [Run -> RunRec] /\ run'[r] = y /\ RunsBut(r)
         /\ \A p \in Run : /\ run'[p].at # "off" => run'[p].job \in Job
                           /\ run'[p].at \in {"loop", "work"} => run'[p].todo # {}
BY DEF Sound, ImportTypes, WorkKnown, RunsBut

LEMMA DispSet ==
  ASSUME Sound, NEW d \in Dispatcher, NEW y \in DispRec, disp' = [disp EXCEPT ![d] = y],
         y.failed # 0 => y.failed \in y.kick, y.at = "kick" => y.kick # {}
  PROVE  /\ disp' \in [Dispatcher -> DispRec] /\ disp'[d] = y
         /\ \A e \in Dispatcher \ {d} : disp'[e] = disp[e]
         /\ \A e \in Dispatcher : /\ disp'[e].failed # 0 => disp'[e].failed \in disp'[e].kick
                                  /\ disp'[e].at = "kick" => disp'[e].kick # {}
         /\ y.kick \subseteq disp[d].kick => KicksSettle
BY DEF Sound, ImportTypes, WorkKnown, KicksSettle

\* What is left of the types when the parts that change are typed.
LEMMA Types ==
  ASSUME Sound,
         job' \in [Job -> JobRow], item' \in [Job -> [Index -> ItemStatus]],
         flag' \subseteq Job, msgs' \in [Job -> Nat], budget' \in Budget,
         history' \in [Job -> SUBSET Event],
         \/ UNCHANGED run
         \/ /\ run' \in [Run -> RunRec]
            /\ \A p \in Run : /\ run'[p].at # "off" => run'[p].job \in Job
                              /\ run'[p].at \in {"loop", "work"} => run'[p].todo # {},
         \/ UNCHANGED jobReq
         \/ /\ jobReq' \in [JobRequest -> ReqRec]
            /\ \A p \in JobRequest : jobReq'[p].at # "idle" => jobReq'[p].job \in Job,
         \/ UNCHANGED disp
         \/ /\ disp' \in [Dispatcher -> DispRec]
            /\ \A e \in Dispatcher :
                 /\ disp'[e].failed # 0 => disp'[e].failed \in disp'[e].kick
                 /\ disp'[e].at = "kick" => disp'[e].kick # {}
  PROVE  Sound'
BY DEF Sound, ImportTypes, WorkKnown

\* A request loads its job, and history notes what it is about to do.
LEMMA LoadKind ==
  ASSUME Sizes, Sound, NEW q \in JobRequest, NEW j \in Job,
         NEW stage \in {"start", "cancel", "poll"}, NEW events \in SUBSET Event,
         Load(q, j, stage),
         flag' \in {flag, flag \cup (IF "cancelled" \in events THEN {j} ELSE {})},
         history' = [history EXCEPT ![j] = @ \cup events],
         UNCHANGED <<job, item, msgs, run, disp>>
  PROVE  Sound' /\ Loaded(q, j, stage, events)
<1> DEFINE y == [at |-> stage, job |-> j, loaded |-> IF stage = "start" THEN job[j] ELSE NewJob]
<1>1. /\ jobReq' = [jobReq EXCEPT ![q] = y] /\ budget' = [budget EXCEPT !.requests = @ - 1]
      /\ budget.requests > 0
  BY DEF Load
<1>2. y \in ReqRec /\ y.at = stage /\ y.job = j
  BY Nothing DEF ReqRec, Sound, ImportTypes
<1>3. y.loaded = IF stage = "start" THEN job[j] ELSE NewJob
  OBVIOUS
<1> HIDE DEF y
<1>4. /\ jobReq' \in [JobRequest -> ReqRec] /\ jobReq'[q] = y
      /\ \A p \in JobRequest \ {q} : jobReq'[p] = jobReq[p]
      /\ \A p \in JobRequest : jobReq'[p].at # "idle" => jobReq'[p].job \in Job
  BY <1>1, <1>2, ReqSet
<1>5. budget' \in Budget
  BY <1>1 DEF Sound, ImportTypes, Budget, Sizes
<1>6. /\ history' \in [Job -> SUBSET Event] /\ history'[j] = history[j] \cup events
      /\ \A k \in Job \ {j} : history'[k] = history[k]
  BY DEF Sound, ImportTypes
<1>7. flag' \subseteq Job
  BY DEF Sound, ImportTypes
<1>8. Sound'
  BY <1>4, <1>5, <1>6, <1>7, Types DEF Sound, ImportTypes
<1> QED BY <1>2, <1>3, <1>4, <1>6, <1>8 DEF Loaded

LEMMA Loads ==
  ASSUME Sizes, Sound, NEW q \in JobRequest, NEW j \in Job
  PROVE  /\ StartLoad(q, j) => Sound' /\ Loaded(q, j, "start", {})
         /\ CancelJobLoad(q, j) => Sound' /\ Loaded(q, j, "cancel", {"cancelled"})
         /\ PollLoad(q, j) => Sound' /\ Loaded(q, j, "poll", {"overdue"})
<1>1. ASSUME StartLoad(q, j) PROVE Sound' /\ Loaded(q, j, "start", {})
  <2>1. history' = [history EXCEPT ![j] = @ \cup {}]
    BY <1>1 DEF StartLoad, Sound, ImportTypes
  <2> QED BY <1>1, <2>1, LoadKind DEF StartLoad
<1>2. ASSUME CancelJobLoad(q, j) PROVE Sound' /\ Loaded(q, j, "cancel", {"cancelled"})
  BY <1>2, LoadKind DEF CancelJobLoad, Record, Event
<1>3. ASSUME PollLoad(q, j) PROVE Sound' /\ Loaded(q, j, "poll", {"overdue"})
  BY <1>3, LoadKind DEF PollLoad, Record, Event
<1> QED BY <1>1, <1>2, <1>3

\* JobRequest q starts the job with n tracks.
Started(q, n) ==
  LET j == jobReq[q].job
      x == jobReq[q].loaded
  IN /\ j \in Job /\ n \in Selections /\ jobReq[q].at = "start"
     /\ job'[j].status \in {job[j].status, "queued", "importing"}
     /\ job'[j].selected = Flush(job[j].selected, x.selected, n)
     /\ job'[j].lease = (IF n = x.selected THEN job[j].lease ELSE x.lease)
     /\ job'[j].counted = Flush(job[j].counted, x.counted, 0)
     /\ job'[j].status = "ready" => job[j].status = "ready" /\ x.status # "ready"
     /\ job'[j].status \in {"done", "ready"} => job'[j].status = job[j].status
     /\ JobsBut(j)
     /\ history'[j] = history[j] \cup Restarts(j, x, n)
     /\ \A k \in Job \ {j} : history'[k] = history[k]
     /\ ReqsSettle /\ jobReq'[q].at # "start"
     /\ \A p \in JobRequest \ {q} : jobReq'[p] = jobReq[p]
     /\ UNCHANGED <<item, flag, run, disp>>

LEMMA StartWriteKind ==
  ASSUME Sizes, Sound, NEW q \in JobRequest, StartWrite(q)
  PROVE  Sound' /\ \E n \in Selections : Started(q, n)
<1> DEFINE j == jobReq[q].job
           x == jobReq[q].loaded
           full == \/ Cardinality(Importing) >= GlobalCap
                   \/ Cardinality(ImportingOf(UserOf[j])) >= UserCap
           s == IF full THEN "queued" ELSE "importing"
           z == IF full THEN NoReq ELSE [NoReq EXCEPT !.at = "kick", !.job = j]
<1>1. /\ jobReq[q].at = "start" /\ j \in Job /\ job[j] \in JobRow /\ x \in JobRow
      /\ history[j] \in SUBSET Event
  BY DEF StartWrite, Sound, ImportTypes, WorkKnown, ReqRec
<1>2. PICK n \in Selections :
        /\ job' = [job EXCEPT ![j] =
             [status   |-> Flush(@.status, x.status, s),
              selected |-> Flush(@.selected, x.selected, n),
              lease    |-> IF n = x.selected THEN @.lease ELSE x.lease,
              counted  |-> Flush(@.counted, x.counted, 0)]]
        /\ history' = [history EXCEPT ![j] = @ \cup Restarts(j, x, n)]
  BY DEF StartWrite
<1> DEFINE y == [status   |-> Flush(job[j].status, x.status, s),
                 selected |-> Flush(job[j].selected, x.selected, n),
                 lease    |-> IF n = x.selected THEN job[j].lease ELSE x.lease,
                 counted  |-> Flush(job[j].counted, x.counted, 0)]
<1>3. job' = [job EXCEPT ![j] = y] /\ jobReq' = [jobReq EXCEPT ![q] = z]
      /\ UNCHANGED <<item, flag, msgs, run, disp, budget>>
  BY <1>2 DEF StartWrite
<1>4. s \in {"queued", "importing"}
  OBVIOUS
<1>5. z \in ReqRec /\ (z.at # "idle" => z.job \in Job) /\ z.loaded = NewJob
      /\ z.at \in {"idle", "kick"}
  BY <1>1, Nothing DEF ReqRec, NoReq
<1> HIDE DEF s, z
<1>6. y \in JobRow
  BY <1>1, <1>2, <1>4 DEF JobRow, Flush, Status
<1>7. /\ y.status = Flush(job[j].status, x.status, s)
      /\ y.selected = Flush(job[j].selected, x.selected, n)
      /\ y.lease = (IF n = x.selected THEN job[j].lease ELSE x.lease)
      /\ y.counted = Flush(job[j].counted, x.counted, 0)
  OBVIOUS
<1>8. /\ y.status \in {job[j].status, "queued", "importing"}
      /\ y.status = "ready" => job[j].status = "ready" /\ x.status # "ready"
      /\ y.status \in {"done", "ready"} => y.status = job[j].status
  BY <1>4, <1>7 DEF Flush
<1> HIDE DEF y
<1>9. /\ job' \in [Job -> JobRow] /\ job'[j] = y /\ JobsBut(j)
  BY <1>1, <1>3, <1>6 DEF Sound, ImportTypes, JobsBut
<1>10. /\ history' \in [Job -> SUBSET Event] /\ history'[j] = history[j] \cup Restarts(j, x, n)
       /\ \A k \in Job \ {j} : history'[k] = history[k]
  <2>1. Restarts(j, x, n) \subseteq Event
    BY DEF Restarts, Event
  <2> QED BY <1>1, <1>2, <2>1 DEF Sound, ImportTypes
<1>11. /\ jobReq' \in [JobRequest -> ReqRec] /\ jobReq'[q] = z
       /\ \A p \in JobRequest \ {q} : jobReq'[p] = jobReq[p]
       /\ \A p \in JobRequest : jobReq'[p].at # "idle" => jobReq'[p].job \in Job
       /\ ReqsSettle
  BY <1>3, <1>5, ReqSet
<1>12. Sound'
  BY <1>3, <1>9, <1>10, <1>11, Types DEF Sound, ImportTypes
<1>13. Started(q, n)
  BY <1>1, <1>3, <1>5, <1>7, <1>8, <1>9, <1>10, <1>11 DEF Started
<1> QED BY <1>12, <1>13

LEMMA StartKickKind ==
  ASSUME Sizes, Sound, NEW q \in JobRequest, StartKick(q)
  PROVE  Sound' /\ Quiet
<1>1. /\ jobReq[q].at = "kick" /\ jobReq[q].job \in Job /\ jobReq[q] \in ReqRec
      /\ UNCHANGED <<job, item, flag, run, disp, history>>
      /\ Put(jobReq[q].job) \/ UNCHANGED msgs
      /\ Fault("redis") \/ UNCHANGED budget
      /\ \/ jobReq' = [jobReq EXCEPT ![q] = NoReq]
         \/ jobReq' = [jobReq EXCEPT ![q].at = "failed"]
  BY DEF StartKick, Sound, ImportTypes, WorkKnown
<1>2. msgs' \in [Job -> Nat] /\ budget' \in Budget
  BY <1>1, PutType, FaultType DEF Sound
<1>3. /\ jobReq' \in [JobRequest -> ReqRec] /\ ReqsSettle
      /\ \A p \in JobRequest : jobReq'[p].at # "idle" => jobReq'[p].job \in Job
  <2>1. CASE jobReq' = [jobReq EXCEPT ![q] = NoReq]
    BY <2>1, ReqEnds
  <2>2. CASE jobReq' = [jobReq EXCEPT ![q].at = "failed"]
    <3> DEFINE y == [jobReq[q] EXCEPT !.at = "failed"]
    <3>1. jobReq' = [jobReq EXCEPT ![q] = y]
      BY <2>2 DEF Sound, ImportTypes
    <3>2. y \in ReqRec /\ y.at = "failed" /\ y.job = jobReq[q].job /\ y.loaded = jobReq[q].loaded
      BY <1>1 DEF ReqRec
    <3> HIDE DEF y
    <3> QED BY <1>1, <3>1, <3>2, ReqSet
  <2> QED BY <1>1, <2>1, <2>2
<1>4. Sound'
  BY <1>1, <1>2, <1>3, Types DEF Sound, ImportTypes
<1> QED BY <1>1, <1>3, <1>4 DEF Quiet, KicksSettle

LEMMA StartFailedKind ==
  ASSUME Sizes, Sound, NEW q \in JobRequest, StartFailed(q)
  PROVE  /\ Sound'
         /\ Quiet \/ \E j \in Job : job[j].status = "importing" /\ Restatus(j, "queued")
<1> DEFINE j == jobReq[q].job
<1>1. /\ j \in Job /\ jobReq' = [jobReq EXCEPT ![q] = NoReq]
      /\ UNCHANGED <<item, flag, msgs, run, disp, budget, history>>
  BY DEF StartFailed, Sound, WorkKnown
<1>2. /\ jobReq' \in [JobRequest -> ReqRec] /\ ReqsSettle
      /\ \A p \in JobRequest : jobReq'[p].at # "idle" => jobReq'[p].job \in Job
  BY <1>1, ReqEnds
<1>3. CASE job[j].status = "importing"
  <2>1. SetStatus(j, "queued")
    BY <1>3 DEF StartFailed
  <2>2. /\ job' \in [Job -> JobRow] /\ JobsBut(j)
        /\ job'[j].status = "queued" /\ job'[j].selected = job[j].selected
        /\ job'[j].lease = job[j].lease /\ job'[j].counted = job[j].counted
    BY <1>1, <2>1, StatusSet DEF Sound, Status
  <2>3. Sound'
    BY <1>1, <1>2, <2>2, Types DEF Sound, ImportTypes
  <2>4. Restatus(j, "queued")
    BY <1>1, <1>2, <2>2 DEF Restatus, KicksSettle
  <2> QED BY <1>1, <1>3, <2>3, <2>4
<1>4. CASE job[j].status # "importing"
  <2>1. UNCHANGED job
    BY <1>4 DEF StartFailed
  <2>2. Sound'
    BY <1>1, <1>2, <2>1, Types DEF Sound, ImportTypes
  <2> QED BY <1>1, <1>2, <2>1, <2>2 DEF Quiet, KicksSettle
<1> QED BY <1>3, <1>4

LEMMA CancelCommitKind ==
  ASSUME Sizes, Sound, NEW q \in JobRequest, CancelJobCommit(q)
  PROVE  /\ Sound' /\ jobReq[q].at = "cancel" /\ jobReq[q].job \in Job
         /\ Restatus(jobReq[q].job, "cancelled")
<1> DEFINE j == jobReq[q].job
<1>1. /\ j \in Job /\ jobReq[q].at = "cancel" /\ SetStatus(j, "cancelled")
      /\ jobReq' = [jobReq EXCEPT ![q] = NoReq]
      /\ UNCHANGED <<item, flag, msgs, run, disp, budget, history>>
  BY DEF CancelJobCommit, Sound, WorkKnown
<1>2. /\ jobReq' \in [JobRequest -> ReqRec] /\ ReqsSettle
      /\ \A p \in JobRequest : jobReq'[p].at # "idle" => jobReq'[p].job \in Job
  BY <1>1, ReqEnds
<1>3. /\ job' \in [Job -> JobRow] /\ JobsBut(j)
      /\ job'[j].status = "cancelled" /\ job'[j].selected = job[j].selected
      /\ job'[j].lease = job[j].lease /\ job'[j].counted = job[j].counted
  BY <1>1, StatusSet DEF Sound, Status
<1>4. Sound'
  BY <1>1, <1>2, <1>3, Types DEF Sound, ImportTypes
<1> QED BY <1>1, <1>2, <1>3, <1>4 DEF Restatus, KicksSettle

\* A job that expires loses its selection.
Failed(j) ==
  /\ job'[j].status = "failed" /\ job'[j].selected = 0 /\ job'[j].lease = 0
  /\ job'[j].counted = job[j].counted
  /\ JobsBut(j)
  /\ UNCHANGED <<item, flag, run, history, disp>> /\ ReqsSettle

LEMMA PollFailKind ==
  ASSUME Sizes, Sound, NEW q \in JobRequest, PollFail(q)
  PROVE  Sound' /\ jobReq[q].at = "poll" /\ jobReq[q].job \in Job /\ Failed(jobReq[q].job)
<1> DEFINE j == jobReq[q].job
           y == [job[j] EXCEPT !.status = "failed", !.selected = 0, !.lease = 0]
<1>1. /\ j \in Job /\ jobReq[q].at = "poll" /\ job' = [job EXCEPT ![j] = y]
      /\ jobReq' = [jobReq EXCEPT ![q] = NoReq] /\ job[j] \in JobRow
      /\ UNCHANGED <<item, flag, msgs, run, disp, budget, history>>
  BY DEF PollFail, Sound, ImportTypes, WorkKnown
<1>2. /\ jobReq' \in [JobRequest -> ReqRec] /\ ReqsSettle
      /\ \A p \in JobRequest : jobReq'[p].at # "idle" => jobReq'[p].job \in Job
  BY <1>1, ReqEnds
<1>3. /\ y \in JobRow /\ y.status = "failed" /\ y.selected = 0 /\ y.lease = 0
      /\ y.counted = job[j].counted
  BY <1>1 DEF JobRow, Status
<1> HIDE DEF y
<1>4. job' \in [Job -> JobRow] /\ JobsBut(j) /\ job'[j] = y
  BY <1>1, <1>3 DEF Sound, ImportTypes, JobsBut
<1>5. Sound'
  BY <1>1, <1>2, <1>4, Types DEF Sound, ImportTypes
<1> QED BY <1>1, <1>2, <1>3, <1>4, <1>5 DEF Failed

LEMMA RequestKinds ==
  ASSUME Sizes, Sound, NEW q \in JobRequest, JobRequestStep(q)
  PROVE  /\ Sound'
         /\ \/ \E n \in Selections : Started(q, n)
            \/ Quiet
            \/ \E j \in Job : job[j].status = "importing" /\ Restatus(j, "queued")
            \/ /\ jobReq[q].at = "cancel" /\ jobReq[q].job \in Job
               /\ Restatus(jobReq[q].job, "cancelled")
            \/ jobReq[q].at = "poll" /\ jobReq[q].job \in Job /\ Failed(jobReq[q].job)
<1>1. CASE StartWrite(q)
  BY <1>1, StartWriteKind
<1>2. CASE StartKick(q)
  BY <1>2, StartKickKind
<1>3. CASE StartFailed(q)
  BY <1>3, StartFailedKind
<1>4. CASE CancelJobCommit(q)
  BY <1>4, CancelCommitKind
<1>5. CASE PollFail(q)
  BY <1>5, PollFailKind
<1> QED BY <1>1, <1>2, <1>3, <1>4, <1>5 DEF JobRequestStep

\* The queued jobs in P are promoted, and may be kicked.
Promoted(P) ==
  /\ P \subseteq Queued
  /\ \A k \in P : /\ job'[k].status = "importing" /\ job'[k].selected = job[k].selected
                  /\ job'[k].lease = job[k].lease /\ job'[k].counted = job[k].counted
  /\ \A k \in Job \ P : job'[k] = job[k]
  /\ \A d \in Dispatcher : disp'[d].kick \subseteq disp[d].kick \cup P
  /\ UNCHANGED <<item, flag, run, jobReq, history>>

LEMMA SweepKind ==
  ASSUME Sizes, Sound, NEW d \in Dispatcher, NEW j \in Job, Sweep(d, j)
  PROVE  Sound' /\ job[j].status = "importing" /\ Restatus(j, "queued")
<1>1. /\ job[j].status = "importing" /\ SetStatus(j, "queued")
      /\ Fault("slow") \/ UNCHANGED budget
      /\ UNCHANGED <<item, flag, msgs, run, disp, jobReq, history>>
  BY DEF Sweep, Stuck
<1>2. /\ job' \in [Job -> JobRow] /\ JobsBut(j)
      /\ job'[j].status = "queued" /\ job'[j].selected = job[j].selected
      /\ job'[j].lease = job[j].lease /\ job'[j].counted = job[j].counted
  BY <1>1, StatusSet DEF Sound, Status
<1>3. budget' \in Budget
  BY <1>1, FaultType DEF Sound
<1>4. Sound'
  BY <1>1, <1>2, <1>3, Types DEF Sound, ImportTypes
<1> QED BY <1>1, <1>2, <1>4 DEF Restatus, KicksSettle, ReqsSettle

LEMMA CountKind ==
  ASSUME Sizes, Sound, NEW d \in Dispatcher, Count(d)
  PROVE  Sound' /\ Quiet
<1> DEFINE n == GlobalCap - Cardinality(Importing)
           m == [u \in User |-> Cardinality(ImportingOf(u))]
           y == [disp[d] EXCEPT !.at = "counted", !.slots = n, !.mine = m]
<1>1. /\ disp' = [disp EXCEPT ![d] = y] /\ disp[d] \in DispRec
      /\ Cardinality(Importing) < GlobalCap /\ disp[d].at = "idle"
      /\ UNCHANGED <<job, item, flag, msgs, run, jobReq, budget, history>>
  BY DEF Count, Sound, ImportTypes
<1>2. n \in Nat /\ m \in [User -> Nat]
  BY <1>1, Counts DEF Sizes
<1> HIDE DEF n, m
<1>3. /\ y \in DispRec /\ y.at = "counted" /\ y.kick = disp[d].kick
      /\ y.failed = disp[d].failed
  BY <1>1, <1>2 DEF DispRec
<1> HIDE DEF y
<1>4. y.failed # 0 => y.failed \in y.kick
  BY <1>3 DEF Sound, WorkKnown
<1>5. /\ disp' \in [Dispatcher -> DispRec] /\ KicksSettle
      /\ \A e \in Dispatcher : /\ disp'[e].failed # 0 => disp'[e].failed \in disp'[e].kick
                               /\ disp'[e].at = "kick" => disp'[e].kick # {}
  BY <1>1, <1>3, <1>4, DispSet
<1>6. Sound'
  BY <1>1, <1>5, Types DEF Sound, ImportTypes
<1> QED BY <1>1, <1>5, <1>6 DEF Quiet, ReqsSettle

LEMMA PromoteKind ==
  ASSUME Sizes, Sound, NEW d \in Dispatcher, Promote(d)
  PROVE  Sound' /\ \E P \in SUBSET Queued : Promoted(P)
<1>1. PICK P \in SUBSET Queued :
        /\ job' = [j \in Job |-> IF j \in P THEN [job[j] EXCEPT !.status = "importing"]
                                ELSE job[j]]
        /\ disp' = [disp EXCEPT ![d] = IF P = {} THEN NoDisp
                      ELSE [NoDisp EXCEPT !.at = "kick", !.kick = P]]
        /\ UNCHANGED <<item, flag, msgs, run, jobReq, budget, history>>
  BY DEF Promote
<1> DEFINE y == IF P = {} THEN NoDisp ELSE [NoDisp EXCEPT !.at = "kick", !.kick = P]
<1>2. P \subseteq Job
  BY DEF Queued
<1>3. y \in DispRec /\ y.kick = P /\ y.failed = 0
  BY <1>2, Nothing DEF DispRec
<1> HIDE DEF y
<1>4. /\ disp' \in [Dispatcher -> DispRec] /\ disp'[d] = y
      /\ \A e \in Dispatcher \ {d} : disp'[e] = disp[e]
      /\ \A e \in Dispatcher : /\ disp'[e].failed # 0 => disp'[e].failed \in disp'[e].kick
                               /\ disp'[e].at = "kick" => disp'[e].kick # {}
  <2>1. y.at = "kick" => y.kick # {}
    BY <1>3, Nothing DEF y
  <2> QED BY <1>1, <1>3, <2>1, DispSet DEF y
<1>5. ASSUME NEW k \in P
      PROVE  /\ job'[k] \in JobRow
             /\ job'[k].status = "importing" /\ job'[k].selected = job[k].selected
             /\ job'[k].lease = job[k].lease /\ job'[k].counted = job[k].counted
  <2>1. job'[k] = [job[k] EXCEPT !.status = "importing"] /\ job[k] \in JobRow
    BY <1>1, <1>2 DEF Sound, ImportTypes
  <2> QED BY <2>1 DEF JobRow, Status
<1>6. \A k \in Job \ P : job'[k] = job[k]
  BY <1>1
<1>7. job' \in [Job -> JobRow]
  <2>1. \A k \in Job : job'[k] \in JobRow
    BY <1>5, <1>6 DEF Sound, ImportTypes
  <2>2. job' = [k \in Job |-> job'[k]]
    BY <1>1
  <2> QED BY <2>1, <2>2
<1>8. Sound'
  BY <1>1, <1>4, <1>7, Types DEF Sound, ImportTypes
<1>9. Promoted(P)
  BY <1>1, <1>3, <1>4, <1>5, <1>6 DEF Promoted
<1> QED BY <1>8, <1>9

\* The kicks that are left after one.
LEMMA KickedKind ==
  ASSUME Sizes, Sound, NEW d \in Dispatcher, NEW j \in disp[d].kick, Kicked(d, j)
  PROVE  /\ disp' \in [Dispatcher -> DispRec] /\ KicksSettle
         /\ \A e \in Dispatcher : /\ disp'[e].failed # 0 => disp'[e].failed \in disp'[e].kick
                                  /\ disp'[e].at = "kick" => disp'[e].kick # {}
<1> DEFINE z == [disp[d] EXCEPT !.kick = @ \ {j}, !.failed = 0]
           y == IF disp[d].kick = {j} THEN NoDisp ELSE z
<1>1. disp' = [disp EXCEPT ![d] = y] /\ disp[d] \in DispRec
  <2>1. disp[d] \in DispRec
    BY DEF Sound, ImportTypes
  <2>2. disp' = [disp EXCEPT ![d] = y]
    BY DEF Kicked
  <2> QED BY <2>1, <2>2
<1>2. z \in DispRec /\ z.kick = disp[d].kick \ {j} /\ z.failed = 0
  BY <1>1 DEF DispRec
<1>3. /\ y \in DispRec /\ y.kick \subseteq disp[d].kick /\ y.failed = 0
      /\ y.at = "kick" => y.kick # {}
  <2>1. CASE disp[d].kick = {j}
    BY <2>1, Nothing
  <2>2. CASE disp[d].kick # {j}
    BY <1>2, <2>2
  <2> QED BY <2>1, <2>2
<1> HIDE DEF y
<1> QED BY <1>1, <1>3, DispSet

LEMMA KickKind ==
  ASSUME Sizes, Sound, NEW d \in Dispatcher, Kick(d)
  PROVE  Sound' /\ Quiet
<1>1. PICK j \in disp[d].kick :
        \/ Put(j) /\ Kicked(d, j) /\ UNCHANGED budget
        \/ /\ Fault("redis")
           /\ Put(j) \/ UNCHANGED msgs
           /\ disp' = [disp EXCEPT ![d].failed = j]
  BY DEF Kick
<1>2. /\ disp[d] \in DispRec /\ j \in Job /\ disp[d].at = "kick"
      /\ UNCHANGED <<job, item, flag, run, jobReq, history>>
  BY DEF Kick, Sound, ImportTypes, DispRec
<1>3. msgs' \in [Job -> Nat] /\ budget' \in Budget
  BY <1>1, <1>2, PutType, FaultType DEF Sound
<1>4. /\ disp' \in [Dispatcher -> DispRec] /\ KicksSettle
      /\ \A e \in Dispatcher : /\ disp'[e].failed # 0 => disp'[e].failed \in disp'[e].kick
                               /\ disp'[e].at = "kick" => disp'[e].kick # {}
  <2>1. CASE Kicked(d, j)
    BY <2>1, KickedKind
  <2>2. CASE disp' = [disp EXCEPT ![d].failed = j]
    <3> DEFINE y == [disp[d] EXCEPT !.failed = j]
    <3>1. disp' = [disp EXCEPT ![d] = y]
      BY <2>2 DEF Sound, ImportTypes
    <3>2. y \in DispRec /\ y.kick = disp[d].kick /\ y.failed = j /\ y.at = "kick"
      BY <1>2 DEF DispRec
    <3> HIDE DEF y
    <3> QED BY <3>1, <3>2, DispSet
  <2> QED BY <1>1, <2>1, <2>2
<1>5. Sound'
  BY <1>2, <1>3, <1>4, Types DEF Sound, ImportTypes
<1> QED BY <1>2, <1>4, <1>5 DEF Quiet, ReqsSettle

LEMMA RequeueKind ==
  ASSUME Sizes, Sound, NEW d \in Dispatcher, Requeue(d)
  PROVE  Sound' /\ \E j \in Job : j \in disp[d].kick /\ Restatus(j, "queued")
<1> DEFINE j == disp[d].failed
<1>1. /\ j \in disp[d].kick /\ j \in Job /\ SetStatus(j, "queued") /\ Kicked(d, j)
      /\ UNCHANGED <<item, flag, msgs, run, jobReq, budget, history>>
  BY DEF Requeue, Sound, ImportTypes, WorkKnown, DispRec
<1>2. /\ job' \in [Job -> JobRow] /\ JobsBut(j)
      /\ job'[j].status = "queued" /\ job'[j].selected = job[j].selected
      /\ job'[j].lease = job[j].lease /\ job'[j].counted = job[j].counted
  BY <1>1, StatusSet DEF Sound, Status
<1>3. /\ disp' \in [Dispatcher -> DispRec] /\ KicksSettle
      /\ \A e \in Dispatcher : /\ disp'[e].failed # 0 => disp'[e].failed \in disp'[e].kick
                               /\ disp'[e].at = "kick" => disp'[e].kick # {}
  BY <1>1, KickedKind
<1>4. Sound'
  BY <1>1, <1>2, <1>3, Types DEF Sound, ImportTypes
<1>5. Restatus(j, "queued")
  BY <1>1, <1>2, <1>3 DEF Restatus, ReqsSettle
<1> QED BY <1>1, <1>4, <1>5

LEMMA DispatcherDiesKind ==
  ASSUME Sizes, Sound, NEW d \in Dispatcher, DispatcherDies(d)
  PROVE  Sound' /\ Quiet
<1>1. /\ disp' = [disp EXCEPT ![d] = NoDisp] /\ Fault("crash")
      /\ UNCHANGED <<job, item, flag, msgs, run, jobReq, history>>
  BY DEF DispatcherDies
<1>2. budget' \in Budget
  BY <1>1, FaultType DEF Sound
<1>3. /\ disp' \in [Dispatcher -> DispRec] /\ KicksSettle
      /\ \A e \in Dispatcher : /\ disp'[e].failed # 0 => disp'[e].failed \in disp'[e].kick
                               /\ disp'[e].at = "kick" => disp'[e].kick # {}
  BY <1>1, Nothing, DispSet
<1>4. Sound'
  BY <1>1, <1>2, <1>3, Types DEF Sound, ImportTypes
<1> QED BY <1>1, <1>3, <1>4 DEF Quiet, ReqsSettle

LEMMA DispatcherKinds ==
  ASSUME Sizes, Sound, NEW d \in Dispatcher, DispatcherStep(d) \/ DispatcherDies(d)
  PROVE  /\ Sound'
         /\ \/ Quiet
            \/ \E P \in SUBSET Queued : Promoted(P)
            \/ \E j \in Job : j \in disp[d].kick /\ Restatus(j, "queued")
<1>1. CASE Count(d)
  BY <1>1, CountKind
<1>2. CASE Promote(d)
  BY <1>2, PromoteKind
<1>3. CASE Kick(d)
  BY <1>3, KickKind
<1>4. CASE Requeue(d)
  BY <1>4, RequeueKind
<1>5. CASE DispatcherDies(d)
  BY <1>5, DispatcherDiesKind
<1> QED BY <1>1, <1>2, <1>3, <1>4, <1>5 DEF DispatcherStep

----------------------------------------------------------------------------
(* What the tasks do.                                                      *)

\* Task r begins on job j.
Begun(j, r) ==
  /\ run[r].at = "off" /\ run'[r].at = "seed" /\ run'[r].job = j
  /\ run'[r].selected = job[j].selected /\ run'[r].late = 0 /\ run'[r].seen = 0
  /\ job[j].selected # 0 /\ job[j].status = "importing" /\ RunsBut(r)
  /\ history'[j] = history[j] \cup (IF RunsOf(j) = {} THEN {} ELSE {"overlapped"})
  /\ \A k \in Job \ {j} : history'[k] = history[k]
  /\ UNCHANGED <<job, item, flag, disp, jobReq>>

\* Task r ends, having changed nothing but its flag.
Stopped(r) ==
  /\ run'[r] = NoRun /\ RunsBut(r)
  /\ flag' \subseteq flag /\ UNCHANGED <<job, item, disp, jobReq, history>>

\* The next state of task r, with what it has loaded and found.
GoesTo(r, stage, selected, counted, todo, seen, late) ==
  /\ run'[r].at = stage /\ run'[r].job = run[r].job
  /\ run'[r].selected = selected /\ run'[r].counted = counted
  /\ run'[r].todo = todo /\ run'[r].seen = seen /\ run'[r].late = late
  /\ RunsBut(r)

LEMMA StopKind ==
  ASSUME Sizes, Sound, NEW r \in Run, Stop(r),
         flag' \in {flag, flag \ {run[r].job}}, Fault("crash") \/ UNCHANGED budget,
         UNCHANGED <<job, item, msgs, disp, jobReq, history>>
  PROVE  Sound' /\ Stopped(r)
<1>1. /\ run' \in [Run -> RunRec] /\ run'[r] = NoRun /\ RunsBut(r)
      /\ \A p \in Run : /\ run'[p].at # "off" => run'[p].job \in Job
                        /\ run'[p].at \in {"loop", "work"} => run'[p].todo # {}
  BY RunSet, Nothing DEF Stop
<1>2. flag' \subseteq Job /\ flag' \subseteq flag
  BY DEF Sound, ImportTypes
<1>3. budget' \in Budget
  BY FaultType DEF Sound
<1>4. Sound'
  BY <1>1, <1>2, <1>3, Types DEF Sound, ImportTypes
<1> QED BY <1>1, <1>2, <1>4 DEF Stopped

LEMMA BeginKind ==
  ASSUME Sizes, Sound, NEW j \in Job, BeginImport(j)
  PROVE  Sound' /\ \E r \in Run : Begun(j, r)
<1>1. PICK r \in FreshLeases :
        run' = [run EXCEPT ![r] =
            [NoRun EXCEPT !.at = "seed", !.job = j, !.status = "importing",
                          !.selected = job[j].selected]]
  BY DEF BeginImport
<1> DEFINE y == [NoRun EXCEPT !.at = "seed", !.job = j, !.status = "importing",
                              !.selected = job[j].selected]
<1>2. /\ r \in Run /\ run[r].at = "off" /\ job[j] \in JobRow
      /\ job[j].selected # 0 /\ job[j].status = "importing" /\ Taking(j)
      /\ UNCHANGED <<job, item, flag, disp, jobReq, budget>>
  BY DEF FreshLeases, BeginImport, Sound, ImportTypes
<1>3. /\ y \in RunRec /\ y.at = "seed" /\ y.job = j /\ y.selected = job[j].selected
      /\ y.late = 0 /\ y.seen = 0
  BY <1>2, Nothing DEF RunRec, JobRow, Status
<1> HIDE DEF y
<1>4. /\ run' \in [Run -> RunRec] /\ run'[r] = y /\ RunsBut(r)
      /\ \A p \in Run : /\ run'[p].at # "off" => run'[p].job \in Job
                        /\ run'[p].at \in {"loop", "work"} => run'[p].todo # {}
  BY <1>1, <1>2, <1>3, RunSet DEF y
<1>5. /\ history' \in [Job -> SUBSET Event]
      /\ history'[j] = history[j] \cup (IF RunsOf(j) = {} THEN {} ELSE {"overlapped"})
      /\ \A k \in Job \ {j} : history'[k] = history[k]
  <2>1. CASE RunsOf(j) = {}
    BY <2>1 DEF BeginImport, Sound, ImportTypes
  <2>2. CASE RunsOf(j) # {}
    <3>1. history' = [history EXCEPT ![j] = @ \cup {"overlapped"}]
      BY <2>2 DEF BeginImport, Record
    <3> QED BY <2>2, <3>1 DEF Sound, ImportTypes, Event
  <2> QED BY <2>1, <2>2
<1>6. msgs' \in [Job -> Nat]
  BY <1>2, TakingType DEF Sound
<1>7. Sound'
  BY <1>2, <1>4, <1>5, <1>6, Types DEF Sound, ImportTypes
<1>8. Begun(j, r)
  BY <1>2, <1>3, <1>4, <1>5 DEF Begun
<1> QED BY <1>2, <1>7, <1>8

LEMMA DeliverKinds ==
  ASSUME Sizes, Sound, NEW j \in Job, Deliver(j) \/ MessageLost(j)
  PROVE  /\ Sound'
         /\ \/ Quiet
            \/ /\ job[j].status = "importing" /\ job[j].selected = 0
               /\ Restatus(j, "done")
            \/ \E r \in Run : Begun(j, r)
<1>1. CASE Skip(j) \/ MessageLost(j)
  <2>1. /\ UNCHANGED <<job, item, flag, run, disp, jobReq, history>>
        /\ Taking(j) /\ (Fault("crash") \/ UNCHANGED budget)
    BY <1>1 DEF Skip, MessageLost
  <2>2. msgs' \in [Job -> Nat] /\ budget' \in Budget
    BY <2>1, TakingType, FaultType DEF Sound
  <2>3. Sound'
    BY <2>1, <2>2, Types DEF Sound, ImportTypes
  <2> QED BY <2>1, <2>3 DEF Quiet, ReqsSettle, KicksSettle
<1>2. CASE NothingSelected(j)
  <2>1. /\ UNCHANGED <<item, flag, run, disp, jobReq, budget, history>> /\ Taking(j)
        /\ job[j].status = "importing" /\ job[j].selected = 0 /\ SetStatus(j, "done")
    BY <1>2 DEF NothingSelected
  <2>2. /\ job' \in [Job -> JobRow] /\ JobsBut(j)
        /\ job'[j].status = "done" /\ job'[j].selected = job[j].selected
        /\ job'[j].lease = job[j].lease /\ job'[j].counted = job[j].counted
    BY <2>1, StatusSet DEF Sound, Status
  <2>3. msgs' \in [Job -> Nat]
    BY <2>1, TakingType DEF Sound
  <2>4. Sound'
    BY <2>1, <2>2, <2>3, Types DEF Sound, ImportTypes
  <2>5. Restatus(j, "done")
    BY <2>1, <2>2 DEF Restatus, ReqsSettle, KicksSettle
  <2> QED BY <2>1, <2>4, <2>5
<1>3. CASE BeginImport(j)
  BY <1>3, BeginKind
<1> QED BY <1>1, <1>2, <1>3 DEF Deliver

\* What a task that works is.
LEMMA AtWork ==
  ASSUME Sound, NEW r \in Run, run[r].at # "off"
  PROVE  /\ run[r] \in RunRec /\ run[r].job \in Job /\ job[run[r].job] \in JobRow
         /\ item[run[r].job] \in [Index -> ItemStatus] /\ run[r].todo \subseteq Index
         /\ run[r].late \in Nat /\ run[r].seen \in Nat /\ run[r].counted \in Nat
BY DEF Sound, ImportTypes, WorkKnown, RunRec

\* A task goes on to y.
LEMMA Goes ==
  ASSUME Sound, NEW r \in Run, run[r].at # "off", NEW y \in RunRec,
         run' = [run EXCEPT ![r] = y], y.job = run[r].job,
         y.at \in {"loop", "work"} => y.todo # {}
  PROVE  /\ run' \in [Run -> RunRec]
         /\ \A p \in Run : /\ run'[p].at # "off" => run'[p].job \in Job
                           /\ run'[p].at \in {"loop", "work"} => run'[p].todo # {}
         /\ GoesTo(r, y.at, y.selected, y.counted, y.todo, y.seen, y.late)
BY AtWork, RunSet DEF GoesTo

\* The rows are there for the selection of task r.
Sown(r) ==
  LET j == run[r].job
  IN /\ run[r].at = "seed"
     /\ \A i \in Index : item'[j][i] =
          (IF i <= run[r].selected /\ item[j][i] = "none" THEN "pending" ELSE item[j][i])
     /\ \A k \in Job \ {j} : item'[k] = item[k]
     /\ \/ run'[r] = NoRun /\ RunsBut(r)
        \/ GoesTo(r, "lease", run[r].selected, run[r].counted,
                  {i \in Index : item'[j][i] = "pending"}, run[r].seen, run[r].late)
     /\ UNCHANGED <<job, flag, disp, jobReq, history>>

LEMMA SeedKind ==
  ASSUME Sizes, Sound, NEW r \in Run, Seed(r)
  PROVE  Sound' /\ Sown(r)
<1> DEFINE j == run[r].job
           rows == SeedPending(j, run[r].selected)
           todo == {i \in Index : rows[i] = "pending"}
           y == [run[r] EXCEPT !.at = "lease", !.todo = todo]
<1>1. /\ run[r].at = "seed" /\ item' = [item EXCEPT ![j] = rows]
      /\ UNCHANGED <<job, flag, msgs, disp, jobReq, budget, history>>
      /\ \/ Stop(r)
         \/ run' = [run EXCEPT ![r].at = "lease", ![r].todo = todo]
  BY DEF Seed, RunAt, Todo
<1>2. run[r] \in RunRec /\ j \in Job /\ item[j] \in [Index -> ItemStatus]
  BY <1>1, AtWork
<1>3. rows \in [Index -> ItemStatus]
  BY <1>2 DEF SeedPending, ItemStatus
<1>4. \A i \in Index : rows[i] =
        (IF i <= run[r].selected /\ item[j][i] = "none" THEN "pending" ELSE item[j][i])
  BY DEF SeedPending
<1> HIDE DEF rows
<1>5. /\ item' \in [Job -> [Index -> ItemStatus]] /\ item'[j] = rows
      /\ \A k \in Job \ {j} : item'[k] = item[k]
  BY <1>1, <1>2, <1>3 DEF Sound, ImportTypes
<1>6. CASE Stop(r)
  <2>1. /\ run' \in [Run -> RunRec] /\ run'[r] = NoRun /\ RunsBut(r)
        /\ \A p \in Run : /\ run'[p].at # "off" => run'[p].job \in Job
                          /\ run'[p].at \in {"loop", "work"} => run'[p].todo # {}
    BY <1>6, RunSet, Nothing DEF Stop
  <2>2. Sound'
    BY <1>1, <1>5, <2>1, Types DEF Sound, ImportTypes
  <2> QED BY <1>1, <1>4, <1>5, <2>1, <2>2 DEF Sown
<1>7. CASE run' = [run EXCEPT ![r].at = "lease", ![r].todo = todo]
  <2>1. run' = [run EXCEPT ![r] = y]
    BY <1>7 DEF Sound, ImportTypes
  <2>2. todo \subseteq Index
    OBVIOUS
  <2>3. /\ y \in RunRec /\ y.at = "lease" /\ y.job = j /\ y.selected = run[r].selected
        /\ y.counted = run[r].counted /\ y.todo = todo /\ y.seen = run[r].seen
        /\ y.late = run[r].late
    <3> HIDE DEF todo
    <3> QED BY <1>2, <2>2 DEF RunRec
  <2> HIDE DEF y, todo
  <2>4. /\ run' \in [Run -> RunRec]
        /\ \A p \in Run : /\ run'[p].at # "off" => run'[p].job \in Job
                          /\ run'[p].at \in {"loop", "work"} => run'[p].todo # {}
        /\ GoesTo(r, y.at, y.selected, y.counted, y.todo, y.seen, y.late)
    BY <1>1, <2>1, <2>3, Goes
  <2>5. Sound'
    BY <1>1, <1>5, <2>4, Types DEF Sound, ImportTypes
  <2>6. todo = {i \in Index : item'[j][i] = "pending"}
    BY <1>5 DEF todo
  <2>7. GoesTo(r, "lease", run[r].selected, run[r].counted,
               {i \in Index : item'[j][i] = "pending"}, run[r].seen, run[r].late)
    BY <2>3, <2>4, <2>6
  <2>8. \A i \in Index : item'[j][i] =
          (IF i <= run[r].selected /\ item[j][i] = "none" THEN "pending" ELSE item[j][i])
    BY <1>4, <1>5
  <2> QED BY <1>1, <1>5, <2>5, <2>7, <2>8 DEF Sown
<1> QED BY <1>1, <1>6, <1>7

\* Task r takes the job over.
TookLease(r) ==
  LET j == run[r].job
  IN /\ run[r].at = "lease"
     /\ job'[j].lease = r /\ job'[j].selected = run[r].selected
     /\ job'[j].status = job[j].status /\ job'[j].counted = job[j].counted
     /\ JobsBut(j)
     /\ GoesTo(r, Continue(run[r].todo), run[r].selected, job[j].counted, run[r].todo,
               run[r].seen, run[r].late)
     /\ UNCHANGED <<item, flag, disp, jobReq, history>>

LEMMA ContinueType ==
  ASSUME NEW S
  PROVE  /\ Continue(S) \in {"loop", "finish"} /\ (Continue(S) = "loop" => S # {})
         /\ Continue(S) = "finish" => S = {}
BY DEF Continue

LEMMA TakeLeaseKind ==
  ASSUME Sizes, Sound, NEW r \in Run, TakeLease(r)
  PROVE  Sound' /\ TookLease(r)
<1> DEFINE j == run[r].job
           x == [job[j] EXCEPT !.lease = r, !.selected = run[r].selected]
           a == Continue(run[r].todo)
           n == job[j].counted
           y == [run[r] EXCEPT !.at = a, !.counted = n]
<1>1. /\ run[r].at = "lease"
      /\ UNCHANGED <<item, flag, msgs, disp, jobReq, budget, history>>
  BY DEF TakeLease, RunAt
<1>2. run[r] \in RunRec /\ j \in Job /\ job[j] \in JobRow
  BY <1>1, AtWork
<1>3. job' = [job EXCEPT ![j] = x] /\ run' = [run EXCEPT ![r] = y]
  BY <1>2 DEF TakeLease, Sound, ImportTypes
<1>4. /\ x \in JobRow /\ x.lease = r /\ x.selected = run[r].selected
      /\ x.status = job[j].status /\ x.counted = job[j].counted
  BY <1>2 DEF JobRow, RunRec
<1>5. /\ y \in RunRec /\ y.at = a /\ y.job = j
      /\ y.selected = run[r].selected /\ y.counted = n
      /\ y.todo = run[r].todo /\ y.seen = run[r].seen /\ y.late = run[r].late
  <2>1. n \in Nat /\ a \in {"loop", "finish"}
    BY <1>2, ContinueType DEF JobRow
  <2> HIDE DEF n, a
  <2> QED BY <1>2, <2>1 DEF RunRec
<1> HIDE DEF x, y
<1>6. job' \in [Job -> JobRow] /\ job'[j] = x /\ JobsBut(j)
  BY <1>2, <1>3, <1>4 DEF Sound, ImportTypes, JobsBut
<1>7. /\ run' \in [Run -> RunRec]
      /\ \A p \in Run : /\ run'[p].at # "off" => run'[p].job \in Job
                        /\ run'[p].at \in {"loop", "work"} => run'[p].todo # {}
      /\ GoesTo(r, y.at, y.selected, y.counted, y.todo, y.seen, y.late)
  <2>1. y.at \in {"loop", "work"} => y.todo # {}
    BY <1>5, ContinueType
  <2> QED BY <1>1, <1>3, <1>5, <2>1, Goes
<1>8. Sound'
  BY <1>1, <1>6, <1>7, Types DEF Sound, ImportTypes
<1> QED BY <1>1, <1>4, <1>5, <1>6, <1>7, <1>8 DEF TookLease

\* Task r sees the flag.
SawCancel(r) ==
  LET j == run[r].job
  IN /\ run[r].at = "loop" /\ j \in flag
     /\ job'[j].status = "cancelled" /\ job'[j].selected = job[j].selected
     /\ job'[j].lease = job[j].lease /\ job'[j].counted = job[j].counted
     /\ JobsBut(j)
     /\ GoesTo(r, "finish", run[r].selected, run[r].counted, run[r].todo,
               run[r].seen, run[r].late)
     /\ UNCHANGED <<item, flag, disp, jobReq, history>>

LEMMA SeesCancelKind ==
  ASSUME Sizes, Sound, NEW r \in Run, SeesCancel(r)
  PROVE  Sound' /\ SawCancel(r)
<1> DEFINE j == run[r].job
           y == [run[r] EXCEPT !.at = "finish"]
<1>1. /\ run[r].at = "loop" /\ j \in flag /\ SetStatus(j, "cancelled")
      /\ UNCHANGED <<item, flag, msgs, disp, jobReq, budget, history>>
      /\ run' = [run EXCEPT ![r] = y]
  BY DEF SeesCancel, RunAt, Sound, ImportTypes
<1>2. run[r] \in RunRec /\ j \in Job
  BY <1>1, AtWork
<1>3. /\ y \in RunRec /\ y.at = "finish" /\ y.job = j /\ y.selected = run[r].selected
      /\ y.counted = run[r].counted /\ y.todo = run[r].todo /\ y.seen = run[r].seen
      /\ y.late = run[r].late
  BY <1>2 DEF RunRec
<1> HIDE DEF y
<1>4. /\ job' \in [Job -> JobRow] /\ JobsBut(j)
      /\ job'[j].status = "cancelled" /\ job'[j].selected = job[j].selected
      /\ job'[j].lease = job[j].lease /\ job'[j].counted = job[j].counted
  BY <1>1, <1>2, StatusSet DEF Sound, Status
<1>5. /\ run' \in [Run -> RunRec]
      /\ \A p \in Run : /\ run'[p].at # "off" => run'[p].job \in Job
                        /\ run'[p].at \in {"loop", "work"} => run'[p].todo # {}
      /\ GoesTo(r, y.at, y.selected, y.counted, y.todo, y.seen, y.late)
  BY <1>1, <1>3, Goes
<1>6. Sound'
  BY <1>1, <1>4, <1>5, Types DEF Sound, ImportTypes
<1> QED BY <1>1, <1>3, <1>4, <1>5, <1>6 DEF SawCancel

\* Task r takes its next item, having compared the lease if that was due.
TookItem(r) ==
  LET j == run[r].job
      n == IF LeaseDue(r) THEN job[j].counted ELSE run[r].counted
  IN /\ run[r].at = "loop" /\ (LeaseDue(r) => job[j].lease = r)
     /\ GoesTo(r, "work", run[r].selected, n, run[r].todo, run[r].seen + 1, run[r].late)
     /\ UNCHANGED <<job, item, flag, disp, jobReq, history>>

LEMMA NoCancelFault ==
  ASSUME Sizes, ImportTypes, NEW j, NoCancel(j)
  PROVE  budget' \in Budget
BY FaultType DEF NoCancel

LEMMA TakeItemKind ==
  ASSUME Sizes, Sound, NEW r \in Run, TakeItem(r)
  PROVE  Sound' /\ TookItem(r)
<1> DEFINE j == run[r].job
           n == IF LeaseDue(r) THEN job[j].counted ELSE run[r].counted
           m == run[r].seen + 1
           y == [run[r] EXCEPT !.at = "work", !.seen = m, !.counted = n]
<1>1. /\ run[r].at = "loop" /\ (LeaseDue(r) => job[j].lease = r) /\ NoCancel(j)
      /\ UNCHANGED <<job, item, flag, msgs, disp, jobReq, history>>
  BY DEF TakeItem, RunAt
<1>2. /\ run[r] \in RunRec /\ j \in Job /\ n \in Nat /\ m \in Nat /\ run[r].todo # {}
  BY <1>1, AtWork DEF JobRow, Sound, WorkKnown
<1>3. run' = [run EXCEPT ![r] = y]
  BY <1>2 DEF TakeItem, Sound, ImportTypes
<1> HIDE DEF n, m
<1>4. /\ y \in RunRec /\ y.at = "work" /\ y.job = j /\ y.selected = run[r].selected
      /\ y.counted = n /\ y.todo = run[r].todo /\ y.seen = m /\ y.late = run[r].late
  BY <1>2 DEF RunRec
<1> HIDE DEF y
<1>5. /\ run' \in [Run -> RunRec]
      /\ \A p \in Run : /\ run'[p].at # "off" => run'[p].job \in Job
                        /\ run'[p].at \in {"loop", "work"} => run'[p].todo # {}
      /\ GoesTo(r, y.at, y.selected, y.counted, y.todo, y.seen, y.late)
  BY <1>1, <1>2, <1>3, <1>4, Goes
<1>6. budget' \in Budget
  BY <1>1, NoCancelFault DEF Sound
<1>7. Sound'
  BY <1>1, <1>5, <1>6, Types DEF Sound, ImportTypes
<1>8. GoesTo(r, "work", run[r].selected, n, run[r].todo, m, run[r].late)
  BY <1>4, <1>5
<1> QED BY <1>1, <1>7, <1>8 DEF TookItem, n, m

\* Task r decides item i.
Decides(r, i) ==
  LET j == run[r].job
      left == run[r].todo \ {i}
  IN /\ run[r].at = "work" /\ i \in run[r].todo
     /\ job'[j].counted \in {run[r].counted + Times(item'[j][i]),
                             job[j].counted + Times(item'[j][i])}
     /\ job'[j].status = job[j].status /\ job'[j].selected = job[j].selected
     /\ job'[j].lease = job[j].lease
     /\ JobsBut(j)
     /\ item'[j][i] \in {"decided", "recounted"}
     /\ \A k \in Index \ {i} : item'[j][k] = item[j][k]
     /\ \A k \in Job \ {j} : item'[k] = item[k]
     /\ GoesTo(r, Continue(left), run[r].selected, job'[j].counted, left, run[r].seen,
               run[r].late + (IF job[j].lease = r THEN 0 ELSE 1))
     /\ UNCHANGED <<flag, disp, jobReq, history>>

LEMMA DecideKind ==
  ASSUME Sizes, Sound, NEW r \in Run, NEW n \in Nat,
         n \in {run[r].counted, job[run[r].job].counted}, Decide(r, n)
  PROVE  Sound' /\ \E i \in Index : Decides(r, i)
<1> DEFINE j == run[r].job
<1>1. PICK i \in run[r].todo, outcome \in {"decided", "recounted"} :
        /\ IF outcome = "recounted" THEN Fault("raise") ELSE UNCHANGED budget
        /\ job' = [job EXCEPT ![j].counted = n + Times(outcome)]
        /\ item' = [item EXCEPT ![j][i] = outcome]
        /\ run' = [run EXCEPT ![r].at = Continue(run[r].todo \ {i}),
                              ![r].todo = run[r].todo \ {i},
                              ![r].counted = n + Times(outcome),
                              ![r].late = @ + (IF job[j].lease = r THEN 0 ELSE 1)]
  BY DEF Decide
<1> DEFINE left == run[r].todo \ {i}
           a == Continue(left)
           c == n + Times(outcome)
           l == run[r].late + (IF job[j].lease = r THEN 0 ELSE 1)
           x == [job[j] EXCEPT !.counted = c]
           y == [run[r] EXCEPT !.at = a, !.todo = left, !.counted = c, !.late = l]
<1>2. /\ run[r].at = "work" /\ UNCHANGED <<flag, msgs, disp, jobReq, history>>
  BY DEF Decide, RunAt
<1>3. /\ run[r] \in RunRec /\ j \in Job /\ job[j] \in JobRow /\ i \in Index
      /\ left \subseteq Index /\ c \in Nat /\ l \in Nat
      /\ item[j] \in [Index -> ItemStatus]
  BY <1>1, <1>2, AtWork DEF Times
<1>4. a \in {"loop", "finish"} /\ (a = "loop" => left # {})
  BY ContinueType
<1>5. run' = [run EXCEPT ![r] = y]
  BY <1>1 DEF Sound, ImportTypes
<1>6. job' = [job EXCEPT ![j] = x]
  BY <1>1, <1>3 DEF Sound, ImportTypes
<1> HIDE DEF a, c, l, left
<1>7. /\ y \in RunRec /\ y.at = a /\ y.job = j /\ y.selected = run[r].selected
      /\ y.counted = c /\ y.todo = left /\ y.seen = run[r].seen /\ y.late = l
  BY <1>3, <1>4 DEF RunRec
<1>8. /\ x \in JobRow /\ x.status = job[j].status /\ x.selected = job[j].selected
      /\ x.lease = job[j].lease /\ x.counted = c
  BY <1>3 DEF JobRow
<1> HIDE DEF x, y
<1>9. /\ run' \in [Run -> RunRec]
      /\ \A p \in Run : /\ run'[p].at # "off" => run'[p].job \in Job
                        /\ run'[p].at \in {"loop", "work"} => run'[p].todo # {}
      /\ GoesTo(r, y.at, y.selected, y.counted, y.todo, y.seen, y.late)
  BY <1>2, <1>4, <1>5, <1>7, Goes
<1>10. job' \in [Job -> JobRow] /\ job'[j] = x /\ JobsBut(j)
  BY <1>3, <1>6, <1>8 DEF Sound, ImportTypes, JobsBut
<1>11. /\ item' \in [Job -> [Index -> ItemStatus]] /\ item'[j][i] = outcome
       /\ \A k \in Index \ {i} : item'[j][k] = item[j][k]
       /\ \A k \in Job \ {j} : item'[k] = item[k]
  <2> DEFINE rows == [item[j] EXCEPT ![i] = outcome]
  <2>1. item' = [item EXCEPT ![j] = rows]
    BY <1>1 DEF Sound, ImportTypes
  <2>2. /\ rows \in [Index -> ItemStatus] /\ rows[i] = outcome
        /\ \A k \in Index \ {i} : rows[k] = item[j][k]
    BY <1>3 DEF ItemStatus
  <2> HIDE DEF rows
  <2> QED BY <1>3, <2>1, <2>2 DEF Sound, ImportTypes
<1>12. Sound'
  <2>1. budget' \in Budget
    BY <1>1, FaultType DEF Sound, ImportTypes
  <2> QED BY <1>2, <1>9, <1>10, <1>11, <2>1, Types DEF Sound, ImportTypes
<1>13. GoesTo(r, a, run[r].selected, c, left, run[r].seen, l)
  BY <1>7, <1>9
<1>14. c \in {run[r].counted + Times(item'[j][i]), job[j].counted + Times(item'[j][i])}
  BY <1>11 DEF c
<1>15. Decides(r, i)
  <2>1. job'[j].counted = c
    BY <1>8, <1>10
  <2>2. i \in run[r].todo
    BY <1>1
  <2>3. GoesTo(r, Continue(left), run[r].selected, job'[j].counted, left, run[r].seen, l)
    BY <1>13, <2>1 DEF a
  <2>4. item'[j][i] \in {"decided", "recounted"}
    BY <1>11
  <2> QED BY <1>2, <1>8, <1>10, <1>11, <1>14, <2>1, <2>2, <2>3, <2>4
          DEF Decides, left, l
<1> QED BY <1>3, <1>12, <1>15

\* Task r has done its items and has the lease still.
LoadedEnd(r) ==
  LET j == run[r].job
  IN /\ run[r].at = "finish" /\ job[j].lease = r
     /\ GoesTo(r, "commit", job[j].selected, run[r].counted, run[r].todo, run[r].seen,
               run[r].late)
     /\ UNCHANGED <<job, item, flag, disp, jobReq, history>>

LEMMA FinishLoadKind ==
  ASSUME Sizes, Sound, NEW r \in Run, FinishLoad(r)
  PROVE  Sound' /\ (Stopped(r) \/ LoadedEnd(r))
<1> DEFINE j == run[r].job
           s == job[j].status
           n == job[j].selected
           y == [run[r] EXCEPT !.at = "commit", !.status = s, !.selected = n]
<1>1. /\ run[r].at = "finish"
      /\ UNCHANGED <<job, item, flag, msgs, disp, jobReq, budget, history>>
  BY DEF FinishLoad, RunAt
<1>2. CASE job[j].lease # r
  <2>1. Stop(r)
    BY <1>2 DEF FinishLoad
  <2> QED BY <1>1, <2>1, StopKind
<1>3. CASE job[j].lease = r
  <2>1. /\ run[r] \in RunRec /\ j \in Job /\ s \in Status /\ n \in {0} \cup Selections
    BY <1>1, AtWork DEF JobRow
  <2>2. run' = [run EXCEPT ![r] = y]
    BY <1>3 DEF FinishLoad, Sound, ImportTypes
  <2> HIDE DEF s, n
  <2>3. /\ y \in RunRec /\ y.at = "commit" /\ y.job = j /\ y.selected = n
        /\ y.counted = run[r].counted /\ y.todo = run[r].todo /\ y.seen = run[r].seen
        /\ y.late = run[r].late
    BY <2>1 DEF RunRec
  <2> HIDE DEF y
  <2>4. /\ run' \in [Run -> RunRec]
        /\ \A p \in Run : /\ run'[p].at # "off" => run'[p].job \in Job
                          /\ run'[p].at \in {"loop", "work"} => run'[p].todo # {}
        /\ GoesTo(r, y.at, y.selected, y.counted, y.todo, y.seen, y.late)
    BY <1>1, <2>2, <2>3, Goes
  <2>5. Sound'
    BY <1>1, <2>4, Types DEF Sound, ImportTypes
  <2>6. GoesTo(r, "commit", n, run[r].counted, run[r].todo, run[r].seen, run[r].late)
    BY <2>3, <2>4
  <2> QED BY <1>1, <1>3, <2>5, <2>6 DEF LoadedEnd, n
<1> QED BY <1>2, <1>3

\* Task r commits the end.
CommittedEnd(r) ==
  LET j == run[r].job
  IN /\ run[r].at = "commit"
     /\ job'[j].status \in {job[j].status, "done", "cancelled"}
     /\ \/ job'[j].lease = job[j].lease /\ job'[j].selected = job[j].selected
        \/ job'[j].lease = r /\ job'[j].selected = run[r].selected
     /\ job'[j].counted = job[j].counted
     /\ JobsBut(j)
     /\ GoesTo(r, "clear", run[r].selected, run[r].counted, run[r].todo, run[r].seen,
               run[r].late)
     /\ UNCHANGED <<item, flag, disp, jobReq, history>>

LEMMA FinishCommitKind ==
  ASSUME Sizes, Sound, NEW r \in Run, FinishCommit(r)
  PROVE  Sound' /\ CommittedEnd(r)
<1> DEFINE j == run[r].job
           s == Flush(job[j].status, run[r].status, Outcome(run[r].status))
           x == [job[j] EXCEPT !.status = s, !.lease = r, !.selected = run[r].selected]
           y == [run[r] EXCEPT !.at = "clear"]
<1>1. /\ run[r].at = "commit" /\ run' = [run EXCEPT ![r] = y]
      /\ UNCHANGED <<item, flag, msgs, disp, jobReq, budget, history>>
      /\ \/ SetStatus(j, s)
         \/ job' = [job EXCEPT ![j].status = s, ![j].lease = r,
                               ![j].selected = run[r].selected]
  BY DEF FinishCommit, RunAt, Sound, ImportTypes
<1>2. run[r] \in RunRec /\ j \in Job /\ job[j] \in JobRow
  BY <1>1, AtWork
<1>3. s \in Status /\ s \in {job[j].status, "done", "cancelled"}
  BY <1>2 DEF Flush, Outcome, JobRow, Status
<1>4. /\ y \in RunRec /\ y.at = "clear" /\ y.job = j /\ y.selected = run[r].selected
      /\ y.counted = run[r].counted /\ y.todo = run[r].todo /\ y.seen = run[r].seen
      /\ y.late = run[r].late
  BY <1>2 DEF RunRec
<1> HIDE DEF s, y
<1>5. /\ run' \in [Run -> RunRec]
      /\ \A p \in Run : /\ run'[p].at # "off" => run'[p].job \in Job
                        /\ run'[p].at \in {"loop", "work"} => run'[p].todo # {}
      /\ GoesTo(r, y.at, y.selected, y.counted, y.todo, y.seen, y.late)
  BY <1>1, <1>4, Goes
<1>6. /\ job' \in [Job -> JobRow] /\ JobsBut(j) /\ job'[j].status = s
      /\ job'[j].counted = job[j].counted
      /\ \/ job'[j].lease = job[j].lease /\ job'[j].selected = job[j].selected
         \/ job'[j].lease = r /\ job'[j].selected = run[r].selected
  <2>1. CASE SetStatus(j, s)
    BY <1>2, <1>3, <2>1, StatusSet DEF Sound
  <2>2. CASE job' = [job EXCEPT ![j].status = s, ![j].lease = r,
                                ![j].selected = run[r].selected]
    <3>1. job' = [job EXCEPT ![j] = x]
      BY <1>2, <2>2 DEF Sound, ImportTypes
    <3>2. /\ x \in JobRow /\ x.status = s /\ x.lease = r
          /\ x.selected = run[r].selected /\ x.counted = job[j].counted
      BY <1>2, <1>3 DEF JobRow, RunRec
    <3> HIDE DEF x
    <3> QED BY <1>2, <3>1, <3>2 DEF Sound, ImportTypes, JobsBut
  <2> QED BY <1>1, <2>1, <2>2
<1>7. Sound'
  BY <1>1, <1>5, <1>6, Types DEF Sound, ImportTypes
<1> QED BY <1>1, <1>3, <1>4, <1>5, <1>6, <1>7 DEF CommittedEnd

\* What a step of a task is.
LEMMA RunKinds ==
  ASSUME Sizes, Sound, NEW r \in Run, RunStep(r) \/ RunDies(r)
  PROVE  /\ Sound'
         /\ \/ Stopped(r) \/ Sown(r) \/ TookLease(r) \/ SawCancel(r) \/ TookItem(r)
            \/ LoadedEnd(r) \/ CommittedEnd(r)
            \/ \E i \in Index : Decides(r, i)
<1>1. CASE Seed(r)
  BY <1>1, SeedKind
<1>2. CASE TakeLease(r)
  BY <1>2, TakeLeaseKind
<1>3. CASE SeesCancel(r)
  BY <1>3, SeesCancelKind
<1>4. CASE LoseLease(r)
  <2>1. /\ Stop(r) /\ NoCancel(run[r].job)
        /\ UNCHANGED <<job, item, flag, msgs, disp, jobReq, history>>
    BY <1>4 DEF LoseLease
  <2>2. /\ run' \in [Run -> RunRec] /\ run'[r] = NoRun /\ RunsBut(r)
        /\ \A p \in Run : /\ run'[p].at # "off" => run'[p].job \in Job
                          /\ run'[p].at \in {"loop", "work"} => run'[p].todo # {}
    BY <2>1, RunSet, Nothing DEF Stop
  <2>3. budget' \in Budget
    BY <2>1, NoCancelFault DEF Sound
  <2>4. Sound'
    BY <2>1, <2>2, <2>3, Types DEF Sound, ImportTypes
  <2> QED BY <2>1, <2>2, <2>4 DEF Stopped
<1>5. CASE TakeItem(r)
  BY <1>5, TakeItemKind
<1>6. CASE DecideStale(r)
  <2>1. run[r].at = "work" /\ Decide(r, run[r].counted)
    BY <1>6 DEF DecideStale, Decide, RunAt
  <2>2. run[r].counted \in Nat
    BY <2>1, AtWork
  <2> QED BY <2>1, <2>2, DecideKind
<1>7. CASE DecideFresh(r)
  <2>1. run[r].at = "work" /\ Decide(r, job[run[r].job].counted)
    BY <1>7 DEF DecideFresh, Decide, RunAt
  <2>2. job[run[r].job].counted \in Nat
    BY <2>1, AtWork DEF JobRow
  <2> QED BY <2>1, <2>2, DecideKind
<1>8. CASE FinishLoad(r)
  BY <1>8, FinishLoadKind
<1>9. CASE FinishCommit(r)
  BY <1>9, FinishCommitKind
<1>10. CASE ClearFlag(r)
  BY <1>10, StopKind DEF ClearFlag
<1>11. CASE RunDies(r)
  BY <1>11, StopKind DEF RunDies
<1> QED BY <1>1, <1>2, <1>3, <1>4, <1>5, <1>6, <1>7, <1>8, <1>9, <1>10, <1>11 DEF RunStep

----------------------------------------------------------------------------
(* Every step is of one of these kinds.                                    *)

RequestKind ==
  \E q \in JobRequest :
    \/ \E j \in Job : \/ Loaded(q, j, "start", {})
                      \/ Loaded(q, j, "cancel", {"cancelled"})
                      \/ Loaded(q, j, "poll", {"overdue"})
    \/ \E n \in Selections : Started(q, n)
    \/ /\ jobReq[q].at = "cancel" /\ jobReq[q].job \in Job
       /\ Restatus(jobReq[q].job, "cancelled")
    \/ jobReq[q].at = "poll" /\ jobReq[q].job \in Job /\ Failed(jobReq[q].job)

JobKind ==
  \/ \E P \in SUBSET Queued : Promoted(P)
  \/ \E j \in Job :
       \/ /\ job[j].status = "importing" \/ \E d \in Dispatcher : j \in disp[d].kick
          /\ Restatus(j, "queued")
       \/ job[j].status = "importing" /\ job[j].selected = 0 /\ Restatus(j, "done")
       \/ \E r \in Run : Begun(j, r)

TaskKind ==
  \E r \in Run :
    \/ Stopped(r) \/ Sown(r) \/ TookLease(r) \/ SawCancel(r) \/ TookItem(r)
    \/ LoadedEnd(r) \/ CommittedEnd(r)
    \/ \E i \in Index : Decides(r, i)

LEMMA Kinds ==
  ASSUME Sizes, Sound, [ImportNext]_importVars
  PROVE  Sound' /\ (Quiet \/ RequestKind \/ JobKind \/ TaskKind)
<1>1. CASE UNCHANGED importVars
  BY <1>1 DEF importVars, Sound, ImportTypes, WorkKnown, Quiet, ReqsSettle, KicksSettle
<1>2. ASSUME NEW q \in JobRequest, JobRequestStep(q)
      PROVE  Sound' /\ (Quiet \/ RequestKind \/ JobKind)
  BY <1>2, RequestKinds DEF RequestKind, JobKind
<1>3. ASSUME NEW q \in JobRequest, NEW j \in Job,
             StartLoad(q, j) \/ CancelJobLoad(q, j) \/ PollLoad(q, j)
      PROVE  Sound' /\ RequestKind
  BY <1>3, Loads DEF RequestKind
<1>4. ASSUME NEW d \in Dispatcher, DispatcherStep(d) \/ DispatcherDies(d)
      PROVE  Sound' /\ (Quiet \/ JobKind)
  BY <1>4, DispatcherKinds DEF JobKind
<1>5. ASSUME NEW d \in Dispatcher, NEW j \in Job, Sweep(d, j)
      PROVE  Sound' /\ JobKind
  BY <1>5, SweepKind DEF JobKind
<1>6. ASSUME NEW j \in Job, Deliver(j) \/ MessageLost(j)
      PROVE  Sound' /\ (Quiet \/ JobKind)
  BY <1>6, DeliverKinds DEF JobKind
<1>7. ASSUME NEW r \in Run, RunStep(r) \/ RunDies(r)
      PROVE  Sound' /\ TaskKind
  BY <1>7, RunKinds DEF TaskKind
<1> QED BY <1>1, <1>2, <1>3, <1>4, <1>5, <1>6, <1>7 DEF ImportNext

\* A task that goes on stays with its job, and so do the others.
LEMMA GoesRuns ==
  ASSUME Sound, NEW r \in Run, run[r].at # "off", NEW stage, stage # "off",
         NEW selected, NEW counted, NEW todo, NEW seen, NEW late,
         GoesTo(r, stage, selected, counted, todo, seen, late), NEW k \in Job
  PROVE  /\ RunsOf(k)' = RunsOf(k)
         /\ \A p \in RunsOf(k) : p # r => run'[p] = run[p]
         /\ r \in RunsOf(k) <=> run[r].job = k
BY DEF GoesTo, RunsBut, RunsOf

LEMMA StopRuns ==
  ASSUME Sizes, NEW r \in Run, Stopped(r), NEW k \in Job
  PROVE  RunsOf(k)' = RunsOf(k) \ {r} /\ \A p \in RunsOf(k)' : run'[p] = run[p]
BY Nothing DEF Stopped, RunsBut, RunsOf

LEMMA BeginRuns ==
  ASSUME NEW j \in Job, NEW r \in Run, Begun(j, r), NEW k \in Job
  PROVE  /\ RunsOf(k)' = (IF k = j THEN RunsOf(k) \cup {r} ELSE RunsOf(k))
         /\ \A p \in RunsOf(k) : run'[p] = run[p]
         /\ r \notin RunsOf(k)
BY DEF Begun, RunsBut, RunsOf

LEMMA SameRuns ==
  ASSUME UNCHANGED run, NEW k \in Job
  PROVE  RunsOf(k)' = RunsOf(k)
BY DEF RunsOf

----------------------------------------------------------------------------
(* The lease and the selection.                                            *)

LEMMA LeasesStaySelected ==
  ASSUME Sizes, Sound, LeasesSelected, Quiet \/ RequestKind \/ JobKind \/ TaskKind
  PROVE  LeasesSelected'
<1> USE DEF LeasesSelected
<1>1. CASE Quiet
  BY <1>1, Nothing DEF Quiet, ReqsSettle
<1>2. CASE RequestKind
  <2>1. PICK q \in JobRequest :
          \/ \E j \in Job : \/ Loaded(q, j, "start", {})
                            \/ Loaded(q, j, "cancel", {"cancelled"})
                            \/ Loaded(q, j, "poll", {"overdue"})
          \/ \E n \in Selections : Started(q, n)
          \/ /\ jobReq[q].at = "cancel" /\ jobReq[q].job \in Job
             /\ Restatus(jobReq[q].job, "cancelled")
          \/ jobReq[q].at = "poll" /\ jobReq[q].job \in Job /\ Failed(jobReq[q].job)
    BY <1>2 DEF RequestKind
  <2>2. ASSUME NEW j \in Job, NEW stage, NEW events, Loaded(q, j, stage, events)
        PROVE  LeasesSelected'
    BY <2>2, Nothing DEF Loaded
  <2>3. ASSUME NEW n \in Selections, Started(q, n)
        PROVE  LeasesSelected'
    <3>1. n # 0
      BY DEF Sizes
    <3>2. ASSUME NEW p \in JobRequest
          PROVE  jobReq'[p].loaded.selected = 0 => jobReq'[p].loaded.lease = 0
      BY <2>3, Nothing DEF Started, ReqsSettle
    <3>3. ASSUME NEW k \in Job PROVE job'[k].selected = 0 => job'[k].lease = 0
      BY <2>3, <3>1 DEF Started, JobsBut, Flush
    <3> QED BY <2>3, <3>2, <3>3 DEF Started
  <2>4. CASE /\ jobReq[q].at = "cancel" /\ jobReq[q].job \in Job
             /\ Restatus(jobReq[q].job, "cancelled")
    BY <2>4, Nothing DEF Restatus, JobsBut, ReqsSettle
  <2>5. CASE jobReq[q].at = "poll" /\ jobReq[q].job \in Job /\ Failed(jobReq[q].job)
    BY <2>5, Nothing DEF Failed, JobsBut, ReqsSettle
  <2> QED BY <2>1, <2>2, <2>3, <2>4, <2>5
<1>3. CASE JobKind
  <2>1. ASSUME NEW P \in SUBSET Queued, Promoted(P) PROVE LeasesSelected'
    BY <2>1 DEF Promoted
  <2>2. ASSUME NEW j \in Job, NEW s, Restatus(j, s) PROVE LeasesSelected'
    BY <2>2, Nothing DEF Restatus, JobsBut, ReqsSettle
  <2>3. ASSUME NEW j \in Job, NEW r \in Run, Begun(j, r) PROVE LeasesSelected'
    BY <2>3 DEF Begun, RunsBut
  <2> QED BY <1>3, <2>1, <2>2, <2>3 DEF JobKind
<1>4. CASE TaskKind
  <2> SUFFICES ASSUME NEW r \in Run,
                      \/ Stopped(r) \/ Sown(r) \/ TookLease(r) \/ SawCancel(r) \/ TookItem(r)
                      \/ LoadedEnd(r) \/ CommittedEnd(r)
                      \/ \E i \in Index : Decides(r, i)
               PROVE  LeasesSelected'
    BY <1>4 DEF TaskKind
  <2>1. CASE Stopped(r)
    BY <2>1, Nothing DEF Stopped, RunsBut
  <2>2. CASE Sown(r)
    BY <2>2, Nothing DEF Sown, GoesTo, RunsBut
  <2>3. CASE TookLease(r)
    <3>1. Continue(run[r].todo) \in {"loop", "finish"}
      BY ContinueType
    <3> QED BY <2>3, <3>1 DEF TookLease, GoesTo, RunsBut, JobsBut
  <2>4. CASE SawCancel(r)
    BY <2>4 DEF SawCancel, GoesTo, RunsBut, JobsBut
  <2>5. CASE TookItem(r)
    BY <2>5 DEF TookItem, GoesTo, RunsBut
  <2>6. CASE LoadedEnd(r)
    <3>1. run[r].job \in Job /\ r # 0
      BY <2>6, AtWork, Indices DEF LoadedEnd
    <3> QED BY <2>6, <3>1 DEF LoadedEnd, GoesTo, RunsBut
  <2>7. CASE CommittedEnd(r)
    BY <2>7 DEF CommittedEnd, GoesTo, RunsBut, JobsBut
  <2>8. ASSUME NEW i \in Index, Decides(r, i) PROVE LeasesSelected'
    <3>1. Continue(run[r].todo \ {i}) \in {"loop", "finish"}
      BY ContinueType
    <3> QED BY <2>8, <3>1 DEF Decides, GoesTo, RunsBut, JobsBut
  <2> QED BY <2>1, <2>2, <2>3, <2>4, <2>5, <2>6, <2>7, <2>8
<1> QED BY <1>1, <1>2, <1>3, <1>4

----------------------------------------------------------------------------
(* A job that was never started, and what ends jobs.                       *)

\* A job is not made ready, and gets a task only while it is importing.
LEMMA ReadyStaysUntouched ==
  ASSUME Sizes, Sound, ReadyUntouched, Quiet \/ RequestKind \/ JobKind \/ TaskKind
  PROVE  ReadyUntouched'
<1> SUFFICES ASSUME NEW k \in Job, job'[k].status = "ready"
             PROVE  job'[k].counted = 0 /\ RunsOf(k)' = {}
  BY DEF ReadyUntouched
<1>1. job[k].status = "ready" => job[k].counted = 0 /\ RunsOf(k) = {}
  BY DEF ReadyUntouched
<1>2. ASSUME job'[k].status = job[k].status, job'[k].counted = job[k].counted,
             RunsOf(k)' \subseteq RunsOf(k)
      PROVE  job'[k].counted = 0 /\ RunsOf(k)' = {}
  BY <1>1, <1>2
<1>3. ASSUME NEW j \in Job, NEW s, s # "ready", Restatus(j, s)
      PROVE  job'[k].counted = 0 /\ RunsOf(k)' = {}
  BY <1>1, <1>3, SameRuns DEF Restatus, JobsBut
<1>4. CASE Quiet
  BY <1>2, <1>4, SameRuns DEF Quiet
<1>5. CASE RequestKind
  <2>1. PICK q \in JobRequest :
          \/ \E j \in Job : \/ Loaded(q, j, "start", {})
                            \/ Loaded(q, j, "cancel", {"cancelled"})
                            \/ Loaded(q, j, "poll", {"overdue"})
          \/ \E n \in Selections : Started(q, n)
          \/ /\ jobReq[q].at = "cancel" /\ jobReq[q].job \in Job
             /\ Restatus(jobReq[q].job, "cancelled")
          \/ jobReq[q].at = "poll" /\ jobReq[q].job \in Job /\ Failed(jobReq[q].job)
    BY <1>5 DEF RequestKind
  <2>2. ASSUME NEW j \in Job, NEW stage, NEW events, Loaded(q, j, stage, events)
        PROVE  job'[k].counted = 0 /\ RunsOf(k)' = {}
    BY <1>2, <2>2, SameRuns DEF Loaded
  <2>3. ASSUME NEW n \in Selections, Started(q, n)
        PROVE  job'[k].counted = 0 /\ RunsOf(k)' = {}
    <3>1. /\ job[k].status = "ready"
          /\ (job'[k] = job[k] \/ job'[k].counted \in {0, job[k].counted})
      BY <2>3 DEF Started, JobsBut, Flush
    <3>2. RunsOf(k)' = RunsOf(k)
      BY <2>3, SameRuns DEF Started
    <3> QED BY <1>1, <3>1, <3>2
  <2>4. CASE jobReq[q].at = "poll" /\ jobReq[q].job \in Job /\ Failed(jobReq[q].job)
    <3>1. job'[k] = job[k] /\ RunsOf(k)' = RunsOf(k)
      BY <2>4, SameRuns DEF Failed, JobsBut
    <3> QED BY <1>2, <3>1
  <2> QED BY <1>3, <2>1, <2>2, <2>3, <2>4
<1>6. CASE JobKind
  <2>1. ASSUME NEW P \in SUBSET Queued, Promoted(P)
        PROVE  job'[k].counted = 0 /\ RunsOf(k)' = {}
    <3>1. job'[k] = job[k] /\ RunsOf(k)' = RunsOf(k)
      BY <2>1, SameRuns DEF Promoted
    <3> QED BY <1>2, <3>1
  <2>2. ASSUME NEW j \in Job, NEW r \in Run, Begun(j, r)
        PROVE  job'[k].counted = 0 /\ RunsOf(k)' = {}
    <3>1. UNCHANGED job /\ job[j].status = "importing"
      BY <2>2 DEF Begun
    <3>2. RunsOf(k)' = RunsOf(k)
      BY <2>2, <3>1, BeginRuns
    <3> QED BY <1>2, <3>1, <3>2
  <2> QED BY <1>3, <1>6, <2>1, <2>2 DEF JobKind
<1>7. CASE TaskKind
  <2> SUFFICES ASSUME NEW r \in Run,
                      \/ Stopped(r) \/ Sown(r) \/ TookLease(r) \/ SawCancel(r) \/ TookItem(r)
                      \/ LoadedEnd(r) \/ CommittedEnd(r)
                      \/ \E i \in Index : Decides(r, i)
               PROVE  job'[k].counted = 0 /\ RunsOf(k)' = {}
    BY <1>7 DEF TaskKind
  <2>1. ASSUME run[r].at # "off"
        PROVE  r \in RunsOf(k) <=> run[r].job = k
    BY <2>1 DEF RunsOf
  <2>2. CASE Stopped(r)
    BY <1>2, <2>2, StopRuns DEF Stopped
  <2>3. ASSUME run[r].at # "off", NEW stage, stage # "off",
               NEW selected, NEW counted, NEW todo, NEW seen, NEW late,
               GoesTo(r, stage, selected, counted, todo, seen, late),
               JobsBut(run[r].job),
               job'[run[r].job].status \in {job[run[r].job].status, "done", "cancelled"}
        PROVE  job'[k].counted = 0 /\ RunsOf(k)' = {}
    <3>1. RunsOf(k)' = RunsOf(k)
      BY <2>3, GoesRuns
    <3>2. CASE run[r].job = k
      BY <1>1, <2>1, <2>3, <3>2
    <3>3. CASE run[r].job # k
      BY <1>2, <2>3, <3>1, <3>3 DEF JobsBut
    <3> QED BY <3>2, <3>3
  <2>4. CASE Sown(r)
    <3>1. CASE run'[r] = NoRun /\ RunsBut(r)
      <4>1. RunsOf(k)' \subseteq RunsOf(k)
        BY <3>1, Nothing DEF RunsBut, RunsOf
      <4> QED BY <1>2, <2>4, <4>1 DEF Sown
    <3>2. CASE ~(run'[r] = NoRun /\ RunsBut(r))
      BY <2>3, <2>4, <3>2 DEF Sown, JobsBut
    <3> QED BY <3>1, <3>2
  <2>5. CASE TookLease(r)
    BY <2>3, <2>5, ContinueType DEF TookLease
  <2>6. CASE SawCancel(r)
    BY <2>3, <2>6 DEF SawCancel
  <2>7. CASE TookItem(r)
    BY <2>3, <2>7 DEF TookItem, JobsBut
  <2>8. CASE LoadedEnd(r)
    BY <2>3, <2>8 DEF LoadedEnd, JobsBut
  <2>9. CASE CommittedEnd(r)
    BY <2>3, <2>9 DEF CommittedEnd
  <2>10. ASSUME NEW i \in Index, Decides(r, i)
         PROVE  job'[k].counted = 0 /\ RunsOf(k)' = {}
    BY <2>3, <2>10, ContinueType DEF Decides
  <2> QED BY <2>2, <2>4, <2>5, <2>6, <2>7, <2>8, <2>9, <2>10
<1> QED BY <1>4, <1>5, <1>6, <1>7

\* What history notes stays, and each kind adds what it is about to do.
LEMMA EndsStayRecorded ==
  ASSUME Sizes, Sound, EndsRecorded, Quiet \/ RequestKind \/ JobKind \/ TaskKind
  PROVE  EndsRecorded' /\ \A k \in Job : history[k] \subseteq history'[k]
<1>1. ASSUME flag' \subseteq flag, ReqsSettle, \A k \in Job : history[k] \subseteq history'[k]
      PROVE  EndsRecorded'
  <2>1. \A p \in JobRequest : jobReq'[p].at \in {"cancel", "poll"} =>
           jobReq'[p] = jobReq[p] /\ jobReq[p].job \in Job
    BY <1>1 DEF ReqsSettle, Sound, WorkKnown
  <2>2. flag \subseteq Job
    BY DEF Sound, ImportTypes
  <2> QED BY <1>1, <2>1, <2>2 DEF EndsRecorded
<1>2. ASSUME flag' \subseteq flag, UNCHANGED jobReq,
             \A k \in Job : history[k] \subseteq history'[k]
      PROVE  EndsRecorded'
  BY <1>1, <1>2 DEF ReqsSettle
<1>3. CASE Quiet
  BY <1>1, <1>3 DEF Quiet
<1>4. CASE RequestKind
  <2>1. PICK q \in JobRequest :
          \/ \E j \in Job : \/ Loaded(q, j, "start", {})
                            \/ Loaded(q, j, "cancel", {"cancelled"})
                            \/ Loaded(q, j, "poll", {"overdue"})
          \/ \E n \in Selections : Started(q, n)
          \/ /\ jobReq[q].at = "cancel" /\ jobReq[q].job \in Job
             /\ Restatus(jobReq[q].job, "cancelled")
          \/ jobReq[q].at = "poll" /\ jobReq[q].job \in Job /\ Failed(jobReq[q].job)
    BY <1>4 DEF RequestKind
  <2>2. ASSUME NEW j \in Job, NEW stage, NEW events, Loaded(q, j, stage, events),
               stage = "cancel" => "cancelled" \in events,
               stage = "poll" => "overdue" \in events
        PROVE  EndsRecorded' /\ \A k \in Job : history[k] \subseteq history'[k]
    <3>1. \A k \in Job : history[k] \subseteq history'[k]
      BY <2>2 DEF Loaded
    <3>2. \A k \in flag' : "cancelled" \in history'[k]
      <4>1. flag \subseteq Job
        BY DEF Sound, ImportTypes
      <4> QED BY <2>2, <3>1, <4>1 DEF Loaded, EndsRecorded
    <3>3. ASSUME NEW p \in JobRequest
          PROVE  /\ jobReq'[p].at = "cancel" => "cancelled" \in history'[jobReq'[p].job]
                 /\ jobReq'[p].at = "poll" => "overdue" \in history'[jobReq'[p].job]
      <4>1. CASE p = q
        BY <2>2, <4>1 DEF Loaded
      <4>2. CASE p # q
        <5>1. jobReq'[p] = jobReq[p] /\ (jobReq[p].at # "idle" => jobReq[p].job \in Job)
          BY <2>2, <4>2 DEF Loaded, Sound, WorkKnown
        <5> QED BY <3>1, <5>1 DEF EndsRecorded
      <4> QED BY <4>1, <4>2
    <3> QED BY <3>1, <3>2, <3>3 DEF EndsRecorded
  <2>3. ASSUME NEW n \in Selections, Started(q, n)
        PROVE  EndsRecorded' /\ \A k \in Job : history[k] \subseteq history'[k]
    <3>1. \A k \in Job : history[k] \subseteq history'[k]
      BY <2>3 DEF Started
    <3> QED BY <1>1, <2>3, <3>1 DEF Started
  <2>4. CASE /\ jobReq[q].at = "cancel" /\ jobReq[q].job \in Job
             /\ Restatus(jobReq[q].job, "cancelled")
    BY <1>1, <2>4 DEF Restatus
  <2>5. CASE jobReq[q].at = "poll" /\ jobReq[q].job \in Job /\ Failed(jobReq[q].job)
    BY <1>1, <2>5 DEF Failed
  <2> QED BY <2>1, <2>2, <2>3, <2>4, <2>5
<1>5. CASE JobKind
  <2>1. ASSUME NEW P \in SUBSET Queued, Promoted(P)
        PROVE  EndsRecorded' /\ \A k \in Job : history[k] \subseteq history'[k]
    BY <1>2, <2>1 DEF Promoted
  <2>2. ASSUME NEW j \in Job, NEW s, Restatus(j, s)
        PROVE  EndsRecorded' /\ \A k \in Job : history[k] \subseteq history'[k]
    BY <1>1, <2>2 DEF Restatus
  <2>3. ASSUME NEW j \in Job, NEW r \in Run, Begun(j, r)
        PROVE  EndsRecorded' /\ \A k \in Job : history[k] \subseteq history'[k]
    <3>1. \A k \in Job : history[k] \subseteq history'[k]
      BY <2>3 DEF Begun
    <3> QED BY <1>2, <2>3, <3>1 DEF Begun
  <2> QED BY <1>5, <2>1, <2>2, <2>3 DEF JobKind
<1>6. CASE TaskKind
  <2>1. flag' \subseteq flag /\ UNCHANGED <<jobReq, history>>
    BY <1>6 DEF TaskKind, Stopped, Sown, TookLease, SawCancel, TookItem, LoadedEnd,
                CommittedEnd, Decides
  <2> QED BY <1>2, <2>1
<1> QED BY <1>3, <1>4, <1>5, <1>6

----------------------------------------------------------------------------
(* What a task does after it has lost its lease.                           *)

\* What LateSound says of task r and job k.
LateOf(k, r) ==
  LateBy(run[r]) /\ (run[r].at \in {"loop", "work"} /\ run[r].late > 0 => job[k].lease # r)

LEMMA LateDivided ==
  ASSUME Sizes, NEW n \in Nat
  PROVE  n % LeaseCheckEvery \in Nat /\ (n % LeaseCheckEvery) + 1 <= LeaseCheckEvery
<1>1. LeaseCheckEvery \in Nat \ {0}
  BY DEF Sizes
<1>2. n % LeaseCheckEvery \in 0..(LeaseCheckEvery - 1)
  BY <1>1, Divided
<1> DEFINE m == n % LeaseCheckEvery
<1> HIDE DEF m
<1>3. m \in 0..(LeaseCheckEvery - 1) => m \in Nat /\ m + 1 <= LeaseCheckEvery
  BY <1>1
<1> QED BY <1>2, <1>3 DEF m

\* Between two comparisons the late items count like the items seen.
LEMMA LateTaken ==
  ASSUME Sizes, NEW seen \in Nat, NEW late \in Nat,
         late <= (IF seen = 0 THEN 0 ELSE ((seen - 1) % LeaseCheckEvery) + 1),
         seen % LeaseCheckEvery = 0 => late = 0
  PROVE  late <= seen % LeaseCheckEvery
<1>1. LeaseCheckEvery \in Nat \ {0}
  BY DEF Sizes
<1>2. CASE seen % LeaseCheckEvery = 0
  BY <1>2
<1>3. CASE seen % LeaseCheckEvery # 0 /\ seen # 0
  <2> DEFINE n == seen - 1
  <2>1. n \in Nat /\ n + 1 = seen
    BY <1>3
  <2>2. late <= (n % LeaseCheckEvery) + 1
    BY <1>3
  <2> HIDE DEF n
  <2>3. (n + 1) % LeaseCheckEvery # 0
    BY <1>3, <2>1
  <2>4. (n + 1) % LeaseCheckEvery = (n % LeaseCheckEvery) + 1
    BY <1>1, <2>1, <2>3, NextRemainder
  <2> QED BY <2>1, <2>2, <2>4
<1>4. CASE seen = 0
  <2>1. late = 0 /\ seen % LeaseCheckEvery \in Nat
    BY <1>4, LateDivided
  <2> QED BY <2>1
<1> QED BY <1>2, <1>3, <1>4

\* A task goes on, and the other tasks of its job find no new lease of theirs.
LEMMA LateGoes ==
  ASSUME Sizes, Sound, NEW k \in Job, NEW r \in Run, run[r].at # "off",
         \A p \in RunsOf(k) : LateOf(k, p),
         NEW stage, stage # "off", NEW selected, NEW counted, NEW todo, NEW seen, NEW late,
         GoesTo(r, stage, selected, counted, todo, seen, late),
         job'[k].lease \in {job[k].lease, 0, r},
         run[r].job = k => LateOf(k, r)'
  PROVE  \A p \in RunsOf(k)' : LateOf(k, p)'
<1>1. /\ RunsOf(k)' = RunsOf(k)
      /\ \A p \in RunsOf(k) : p # r => run'[p] = run[p]
      /\ r \in RunsOf(k) <=> run[r].job = k
  BY GoesRuns
<1>2. ASSUME NEW p \in RunsOf(k), p # r PROVE LateOf(k, p)'
  <2>1. run'[p] = run[p] /\ p # 0 /\ LateOf(k, p)
    BY <1>1, <1>2, Indices DEF RunsOf
  <2> QED BY <1>2, <2>1 DEF LateOf, LateBy
<1> QED BY <1>1, <1>2

LEMMA LateStays ==
  ASSUME Sizes, NEW k \in Job, \A p \in RunsOf(k) : LateOf(k, p),
         RunsOf(k)' \subseteq RunsOf(k), \A p \in RunsOf(k)' : run'[p] = run[p],
         job'[k].lease \in {job[k].lease, 0}
  PROVE  \A p \in RunsOf(k)' : LateOf(k, p)'
<1>1. ASSUME NEW p \in RunsOf(k)' PROVE LateOf(k, p)'
  <2>1. p \in RunsOf(k) /\ run'[p] = run[p] /\ p # 0
    BY <1>1, Indices DEF RunsOf
  <2> QED BY <2>1 DEF LateOf, LateBy
<1> QED BY <1>1

\* One lemma for each step of the task itself.
LEMMA LateTakeLease ==
  ASSUME Sizes, Sound, NEW k \in Job, NEW r \in Run, TookLease(r), run[r].job = k,
         LateOf(k, r)
  PROVE  LateOf(k, r)'
<1>1. run[r].late = 0 /\ run[r].seen = 0 /\ run'[r].late = 0 /\ run'[r].seen = 0
      /\ run'[r].at \in {"loop", "finish"}
  BY ContinueType DEF TookLease, GoesTo, LateOf, LateBy
<1>2. LeaseCheckEvery \in Nat /\ ~(0 > 0)
  BY DEF Sizes
<1>3. 0 <= LeaseCheckEvery
  BY <1>2
<1> QED BY <1>1, <1>2, <1>3 DEF LateOf, LateBy

LEMMA LateTakeItem ==
  ASSUME Sizes, Sound, NEW k \in Job, NEW r \in Run, TookItem(r), run[r].job = k,
         LateOf(k, r)
  PROVE  LateOf(k, r)'
<1> DEFINE n == run[r].seen
           l == run[r].late
<1>1. /\ run[r].at = "loop" /\ (LeaseDue(r) => job[k].lease = r)
      /\ run'[r].at = "work" /\ run'[r].seen = n + 1 /\ run'[r].late = l
      /\ UNCHANGED job
  BY DEF TookItem, GoesTo
<1>2. n \in Nat /\ l \in Nat
  BY <1>1, AtWork
<1>3. /\ l <= (IF n = 0 THEN 0 ELSE ((n - 1) % LeaseCheckEvery) + 1)
      /\ l > 0 => job[k].lease # r
  BY <1>1 DEF LateOf, LateBy
<1>4. n % LeaseCheckEvery = 0 => l = 0
  BY <1>1, <1>2, <1>3 DEF LeaseDue
<1> HIDE DEF n, l
<1>5. l <= n % LeaseCheckEvery
  BY <1>2, <1>3, <1>4, LateTaken
<1>6. n + 1 > 0 /\ (n + 1) - 1 = n
  BY <1>2
<1> QED BY <1>1, <1>3, <1>5, <1>6 DEF LateOf, LateBy

LEMMA LateDecides ==
  ASSUME Sizes, Sound, NEW k \in Job, NEW r \in Run, NEW i \in Index, Decides(r, i),
         run[r].job = k, LateOf(k, r)
  PROVE  LateOf(k, r)'
<1> DEFINE n == run[r].seen
           l == run[r].late
           a == Continue(run[r].todo \ {i})
           h == l + (IF job[k].lease = r THEN 0 ELSE 1)
<1>1. /\ run[r].at = "work" /\ run'[r].at = a /\ run'[r].seen = n /\ run'[r].late = h
      /\ job'[k].lease = job[k].lease
  BY DEF Decides, GoesTo
<1>2. n \in Nat /\ l \in Nat
  BY <1>1, AtWork
<1>3. /\ n > 0 /\ l <= (n - 1) % LeaseCheckEvery
      /\ l > 0 => job[k].lease # r
  BY <1>1 DEF LateOf, LateBy
<1>4. a \in {"loop", "finish"}
  BY ContinueType
<1>5. h <= l + 1 /\ h \in Nat /\ (h > 0 => job[k].lease # r)
  BY <1>2, <1>3
<1> HIDE DEF n, l, a, h
<1> DEFINE m == (n - 1) % LeaseCheckEvery
<1>6. m \in Nat /\ m + 1 <= LeaseCheckEvery /\ l <= m
  <2>1. n - 1 \in Nat
    BY <1>2, <1>3
  <2> QED BY <1>3, <2>1, LateDivided
<1>7. (IF n = 0 THEN 0 ELSE m + 1) = m + 1
  BY <1>2, <1>3
<1> HIDE DEF m
<1>8. h <= m + 1 /\ h <= LeaseCheckEvery
  <2>1. LeaseCheckEvery \in Nat
    BY DEF Sizes
  <2> QED BY <1>2, <1>5, <1>6, <2>1
<1>9. h <= (IF n = 0 THEN 0 ELSE ((n - 1) % LeaseCheckEvery) + 1)
  BY <1>7, <1>8 DEF m
<1> QED BY <1>1, <1>4, <1>5, <1>8, <1>9 DEF LateOf, LateBy

\* The end of the work: what was allowed in the loop is allowed after it.
LEMMA LateEnds ==
  ASSUME Sizes, Sound, NEW k \in Job, NEW r \in Run, LateOf(k, r),
         run[r].at \in {"loop", "finish", "commit"}, run'[r].late = run[r].late,
         run'[r].at \in {"finish", "commit", "clear"}
  PROVE  LateOf(k, r)'
<1> DEFINE n == run[r].seen
           l == run[r].late
<1>1. n \in Nat /\ l \in Nat /\ LeaseCheckEvery \in Nat
  BY AtWork DEF Sizes
<1>2. l <= LeaseCheckEvery
  <2>1. CASE run[r].at = "loop" /\ n # 0
    <3>1. l <= ((n - 1) % LeaseCheckEvery) + 1
      BY <2>1 DEF LateOf, LateBy
    <3>2. n - 1 \in Nat
      BY <1>1, <2>1
    <3> DEFINE m == (n - 1) % LeaseCheckEvery
    <3>3. m \in Nat /\ m + 1 <= LeaseCheckEvery /\ l <= m + 1
      BY <3>1, <3>2, LateDivided
    <3> HIDE DEF m, n, l
    <3> QED BY <1>1, <3>3
  <2>2. CASE run[r].at = "loop" /\ n = 0
    <3>1. l <= 0
      BY <2>2 DEF LateOf, LateBy
    <3> HIDE DEF n, l
    <3> QED BY <1>1, <3>1
  <2>3. CASE run[r].at # "loop"
    BY <2>3 DEF LateOf, LateBy
  <2> QED BY <2>1, <2>2, <2>3
<1> QED BY <1>2 DEF LateOf, LateBy

LEMMA LateTask ==
  ASSUME Sizes, Sound, NEW k \in Job, \A p \in RunsOf(k) : LateOf(k, p), TaskKind
  PROVE  \A p \in RunsOf(k)' : LateOf(k, p)'
<1> SUFFICES ASSUME NEW r \in Run,
                    \/ Stopped(r) \/ Sown(r) \/ TookLease(r) \/ SawCancel(r) \/ TookItem(r)
                    \/ LoadedEnd(r) \/ CommittedEnd(r)
                    \/ \E i \in Index : Decides(r, i)
             PROVE  \A p \in RunsOf(k)' : LateOf(k, p)'
  BY DEF TaskKind
<1>1. run[r].at # "off" /\ run[r].job = k => LateOf(k, r)
  BY DEF RunsOf
<1>2. CASE Stopped(r)
  BY <1>2, StopRuns, LateStays DEF Stopped
<1>3. CASE Sown(r)
  <2>1. CASE run'[r] = NoRun /\ RunsBut(r)
    <3>1. RunsOf(k)' \subseteq RunsOf(k) /\ \A p \in RunsOf(k)' : run'[p] = run[p]
      BY <2>1, Nothing DEF RunsBut, RunsOf
    <3> QED BY <1>3, <3>1, LateStays DEF Sown
  <2>2. CASE ~(run'[r] = NoRun /\ RunsBut(r))
    <3>1. run[r].at = "seed" /\ UNCHANGED job
          /\ GoesTo(r, "lease", run[r].selected, run[r].counted,
                    {i \in Index : item'[run[r].job][i] = "pending"}, run[r].seen, run[r].late)
      BY <1>3, <2>2 DEF Sown
    <3>2. run[r].job = k => LateOf(k, r)'
      BY <1>1, <3>1 DEF GoesTo, LateOf, LateBy
    <3> QED BY <3>1, <3>2, LateGoes
  <2> QED BY <2>1, <2>2
<1>4. CASE TookLease(r)
  <2>1. job'[k].lease \in {job[k].lease, 0, r}
    BY <1>4 DEF TookLease, JobsBut
  <2>2. run[r].job = k => LateOf(k, r)'
    BY <1>1, <1>4, LateTakeLease DEF TookLease
  <2> QED BY <1>4, <2>1, <2>2, LateGoes, ContinueType DEF TookLease
<1>5. CASE SawCancel(r)
  <2>1. job'[k].lease \in {job[k].lease, 0, r}
    BY <1>5 DEF SawCancel, JobsBut
  <2>2. run[r].job = k => LateOf(k, r)'
    BY <1>1, <1>5, LateEnds DEF SawCancel, GoesTo
  <2> QED BY <1>5, <2>1, <2>2, LateGoes DEF SawCancel
<1>6. CASE TookItem(r)
  <2>1. run[r].job = k => LateOf(k, r)'
    BY <1>1, <1>6, LateTakeItem DEF TookItem
  <2>2. job'[k].lease \in {job[k].lease, 0, r}
    BY <1>6 DEF TookItem
  <2> QED BY <1>6, <2>1, <2>2, LateGoes DEF TookItem
<1>7. CASE LoadedEnd(r)
  <2>1. run[r].job = k => LateOf(k, r)'
    BY <1>1, <1>7, LateEnds DEF LoadedEnd, GoesTo
  <2>2. job'[k].lease \in {job[k].lease, 0, r}
    BY <1>7 DEF LoadedEnd
  <2> QED BY <1>7, <2>1, <2>2, LateGoes DEF LoadedEnd
<1>8. CASE CommittedEnd(r)
  <2>1. job'[k].lease \in {job[k].lease, 0, r}
    BY <1>8 DEF CommittedEnd, JobsBut
  <2>2. run[r].job = k => LateOf(k, r)'
    BY <1>1, <1>8, LateEnds DEF CommittedEnd, GoesTo
  <2> QED BY <1>8, <2>1, <2>2, LateGoes DEF CommittedEnd
<1>9. ASSUME NEW i \in Index, Decides(r, i) PROVE \A p \in RunsOf(k)' : LateOf(k, p)'
  <2>1. job'[k].lease \in {job[k].lease, 0, r}
    BY <1>9 DEF Decides, JobsBut
  <2>2. run[r].job = k => LateOf(k, r)'
    BY <1>1, <1>9, LateDecides DEF Decides
  <2> QED BY <1>9, <2>1, <2>2, LateGoes, ContinueType DEF Decides
<1> QED BY <1>2, <1>3, <1>4, <1>5, <1>6, <1>7, <1>8, <1>9

LEMMA LateStaysSound ==
  ASSUME Sizes, Sound, LeasesSelected, LateSound,
         \A k \in Job : history[k] \subseteq history'[k],
         Quiet \/ RequestKind \/ JobKind \/ TaskKind
  PROVE  LateSound'
<1> SUFFICES ASSUME NEW k \in Job, "reselected" \notin history'[k]
             PROVE  \A p \in RunsOf(k)' : LateOf(k, p)'
  BY DEF LateSound, LateOf
<1>1. \A p \in RunsOf(k) : LateOf(k, p)
  BY DEF LateSound, LateOf
<1>2. ASSUME UNCHANGED run, job'[k].lease \in {job[k].lease, 0}
      PROVE  \A p \in RunsOf(k)' : LateOf(k, p)'
  BY <1>1, <1>2, SameRuns, LateStays
<1>3. ASSUME NEW j \in Job, NEW s, Restatus(j, s)
      PROVE  \A p \in RunsOf(k)' : LateOf(k, p)'
  BY <1>2, <1>3 DEF Restatus, JobsBut
<1>4. CASE Quiet
  BY <1>2, <1>4 DEF Quiet
<1>5. CASE RequestKind
  <2>1. PICK q \in JobRequest :
          \/ \E j \in Job : \/ Loaded(q, j, "start", {})
                            \/ Loaded(q, j, "cancel", {"cancelled"})
                            \/ Loaded(q, j, "poll", {"overdue"})
          \/ \E n \in Selections : Started(q, n)
          \/ /\ jobReq[q].at = "cancel" /\ jobReq[q].job \in Job
             /\ Restatus(jobReq[q].job, "cancelled")
          \/ jobReq[q].at = "poll" /\ jobReq[q].job \in Job /\ Failed(jobReq[q].job)
    BY <1>5 DEF RequestKind
  <2>2. ASSUME NEW j \in Job, NEW stage, NEW events, Loaded(q, j, stage, events)
        PROVE  \A p \in RunsOf(k)' : LateOf(k, p)'
    BY <1>2, <2>2 DEF Loaded
  <2>3. ASSUME NEW n \in Selections, Started(q, n)
        PROVE  \A p \in RunsOf(k)' : LateOf(k, p)'
    <3>1. jobReq[q].job = k /\ n # jobReq[q].loaded.selected => jobReq[q].loaded.lease = 0
      <4>1. jobReq[q].job = k => "reselected" \notin Restarts(k, jobReq[q].loaded, n)
        BY <2>3 DEF Started
      <4>2. jobReq[q].job = k => jobReq[q].loaded.selected \in {0, n}
        BY <4>1 DEF Restarts
      <4> QED BY <4>2 DEF LeasesSelected
    <3>2. job'[k].lease \in {job[k].lease, 0}
      BY <2>3, <3>1 DEF Started, JobsBut
    <3> QED BY <1>2, <2>3, <3>2 DEF Started
  <2>4. CASE jobReq[q].at = "poll" /\ jobReq[q].job \in Job /\ Failed(jobReq[q].job)
    BY <1>2, <2>4 DEF Failed, JobsBut
  <2> QED BY <1>3, <2>1, <2>2, <2>3, <2>4
<1>6. CASE JobKind
  <2>1. ASSUME NEW P \in SUBSET Queued, Promoted(P)
        PROVE  \A p \in RunsOf(k)' : LateOf(k, p)'
    <3>1. job'[k].lease = job[k].lease
      BY <2>1 DEF Promoted
    <3> QED BY <1>2, <2>1, <3>1 DEF Promoted
  <2>2. ASSUME NEW j \in Job, NEW r \in Run, Begun(j, r)
        PROVE  \A p \in RunsOf(k)' : LateOf(k, p)'
    <3>1. LateOf(k, r)'
      <4>1. run'[r].at = "seed" /\ run'[r].late = 0 /\ run'[r].seen = 0 
        BY <2>2 DEF Begun
      <4> QED BY <4>1 DEF LateOf, LateBy
    <3>2. ASSUME NEW p \in RunsOf(k)', p # r PROVE LateOf(k, p)'
      <4>1. p \in RunsOf(k) /\ run'[p] = run[p] /\ UNCHANGED job
        BY <2>2, <3>2, BeginRuns DEF Begun
      <4> QED BY <1>1, <4>1 DEF LateOf, LateBy
    <3> QED BY <3>1, <3>2
  <2> QED BY <1>3, <1>6, <2>1, <2>2 DEF JobKind
<1>7. CASE TaskKind
  BY <1>1, <1>7, LateTask
<1> QED BY <1>4, <1>5, <1>6, <1>7

----------------------------------------------------------------------------
(* The counter.                                                            *)

\* What CountSound says of task r and of job k.
CountedBy(k, r) ==
  /\ run[r].at \in {"loop", "work"} => run[r].counted = job[k].counted
  /\ run[r].at \in {"lease", "loop", "work"} =>
       run[r].todo \subseteq {i \in Index : item[k][i] = "pending"}

\* The number of times that items of job k were counted.
TimesCounted(k) == Cardinality(Decided(k)) + Cardinality(Recounted(k))

CountOf(k) == /\ job[k].counted = TimesCounted(k)
              /\ \A r, p \in RunsOf(k) : r = p
              /\ \A r \in RunsOf(k) : CountedBy(k, r)

\* The job is not counted anew, and its tasks are the same or fewer.
LEMMA CountStays ==
  ASSUME NEW k \in Job, CountOf(k), job'[k].counted = job[k].counted,
         item'[k] = item[k], RunsOf(k)' \subseteq RunsOf(k),
         \A p \in RunsOf(k)' : run'[p] = run[p]
  PROVE  CountOf(k)'
<1>1. TimesCounted(k)' = TimesCounted(k)
  BY DEF TimesCounted, Decided, Recounted
<1> QED BY <1>1 DEF CountOf, CountedBy

\* The only task of the job goes on.
LEMMA CountGoes ==
  ASSUME Sound, NEW k \in Job, CountOf(k), NEW r \in Run, run[r].at # "off",
         NEW stage, stage # "off", NEW selected, NEW counted, NEW todo, NEW seen, NEW late,
         GoesTo(r, stage, selected, counted, todo, seen, late),
         IF run[r].job = k
         THEN job'[k].counted = TimesCounted(k)' /\ CountedBy(k, r)'
         ELSE job'[k].counted = job[k].counted /\ item'[k] = item[k]
  PROVE  CountOf(k)'
<1>1. /\ RunsOf(k)' = RunsOf(k)
      /\ \A p \in RunsOf(k) : p # r => run'[p] = run[p]
      /\ r \in RunsOf(k) <=> run[r].job = k
  BY GoesRuns
<1>2. CASE run[r].job = k
  <2>1. \A p \in RunsOf(k) : p = r
    BY <1>1, <1>2 DEF CountOf
  <2>2. job'[k].counted = TimesCounted(k)' /\ CountedBy(k, r)'
    BY <1>2
  <2>3. \A p \in RunsOf(k)' : p = r
    BY <1>1, <2>1
  <2>4. \A p \in RunsOf(k)' : CountedBy(k, p)'
    BY <2>2, <2>3
  <2> QED BY <2>2, <2>3, <2>4 DEF CountOf
<1>3. CASE run[r].job # k
  <2>1. \A p \in RunsOf(k)' : run'[p] = run[p]
    BY <1>1, <1>3
  <2> QED BY <1>1, <1>3, <2>1, CountStays
<1> QED BY <1>2, <1>3

\* An item is decided once.
LEMMA DecidesOne ==
  ASSUME Sizes, Sound, NEW k \in Job, CountOf(k), NEW r \in Run, NEW i \in Index,
         Decides(r, i), run[r].job = k
  PROVE  job'[k].counted = TimesCounted(k)' /\ CountedBy(k, r)'
<1>1. /\ run[r].at = "work" /\ i \in run[r].todo /\ r \in RunsOf(k)
      /\ job'[k].counted \in {run[r].counted + Times(item'[k][i]),
                              job[k].counted + Times(item'[k][i])}
      /\ item'[k][i] \in {"decided", "recounted"} /\ \A h \in Index \ {i} : item'[k][h] = item[k][h]
      /\ run'[r].counted = job'[k].counted /\ run'[r].todo = run[r].todo \ {i}
  BY DEF Decides, GoesTo, RunsOf
<1>2. CountedBy(k, r) /\ job[k].counted = TimesCounted(k)
  BY <1>1 DEF CountOf
<1>3. run[r].counted = job[k].counted /\ item[k][i] = "pending"
  BY <1>1, <1>2 DEF CountedBy
<1>4. /\ Decided(k)' = Decided(k) \cup {i} /\ i \notin Decided(k)
      /\ Recounted(k)' = Recounted(k) \cup (IF item'[k][i] = "recounted" THEN {i} ELSE {})
      /\ i \notin Recounted(k)
  BY <1>1, <1>3 DEF Decided, Recounted
<1>5. /\ IsFiniteSet(Decided(k)) /\ Cardinality(Decided(k)) \in Nat
      /\ IsFiniteSet(Recounted(k)) /\ Cardinality(Recounted(k)) \in Nat
  BY Counts
<1>6. /\ Cardinality(Decided(k) \cup {i}) = Cardinality(Decided(k)) + 1
      /\ Cardinality(Recounted(k) \cup {i}) = Cardinality(Recounted(k)) + 1
  BY <1>4, <1>5, FS_AddElement
<1>7. job'[k].counted = TimesCounted(k)'
  <2>1. job'[k].counted = TimesCounted(k) + Times(item'[k][i])
    BY <1>1, <1>2, <1>3
  <2>2. CASE item'[k][i] = "recounted"
    <3>1. Recounted(k)' = Recounted(k) \cup {i}
      BY <1>4, <2>2
    <3> QED BY <1>4, <1>5, <1>6, <2>1, <2>2, <3>1 DEF TimesCounted, Times
  <2>3. CASE item'[k][i] # "recounted"
    <3>1. Recounted(k)' = Recounted(k) \cup {}
      BY <1>4, <2>3
    <3>2. Recounted(k)' = Recounted(k)
      BY <3>1
    <3> QED BY <1>4, <1>5, <1>6, <2>1, <2>3, <3>2 DEF TimesCounted, Times
  <2> QED BY <2>2, <2>3
<1>8. run'[r].todo \subseteq {h \in Index : item'[k][h] = "pending"}
  BY <1>1, <1>2 DEF CountedBy
<1> QED BY <1>1, <1>7, <1>8 DEF CountedBy

LEMMA CountTask ==
  ASSUME Sizes, Sound, NEW k \in Job, CountOf(k), TaskKind
  PROVE  CountOf(k)'
<1> SUFFICES ASSUME NEW r \in Run,
                    \/ Stopped(r) \/ Sown(r) \/ TookLease(r) \/ SawCancel(r) \/ TookItem(r)
                    \/ LoadedEnd(r) \/ CommittedEnd(r)
                    \/ \E i \in Index : Decides(r, i)
             PROVE  CountOf(k)'
  BY DEF TaskKind
<1>1. run[r].at # "off" /\ run[r].job = k => CountedBy(k, r)
  BY DEF RunsOf, CountOf
<1>2. job[k].counted = TimesCounted(k)
  BY DEF CountOf
<1>3. item'[k] = item[k] => TimesCounted(k)' = TimesCounted(k)
  BY DEF TimesCounted, Decided, Recounted
<1>4. CASE Stopped(r)
  BY <1>4, StopRuns, CountStays DEF Stopped
<1>5. CASE Sown(r)
  <2>1. UNCHANGED job /\ run[r].at = "seed"
        /\ (run[r].job # k => item'[k] = item[k])
    BY <1>5 DEF Sown
  <2>2. ASSUME run[r].job = k PROVE TimesCounted(k)' = TimesCounted(k)
    <3>1. \A i \in Index : item'[k][i] \in {"decided", "recounted"}
                            <=> item[k][i] \in {"decided", "recounted"}
      BY <1>5, <2>2 DEF Sown
    <3>2. \A i \in Index : item'[k][i] = "recounted" <=> item[k][i] = "recounted"
      BY <1>5, <2>2 DEF Sown
    <3>3. Decided(k)' = Decided(k)
      BY <3>1 DEF Decided
    <3>4. Recounted(k)' = Recounted(k)
      BY <3>2 DEF Recounted
    <3> QED BY <3>3, <3>4 DEF TimesCounted
  <2>3. CASE run'[r] = NoRun /\ RunsBut(r)
    <3>1. RunsOf(k)' = RunsOf(k) \ {r} /\ \A p \in RunsOf(k)' : run'[p] = run[p]
      BY <2>3, Nothing DEF RunsBut, RunsOf
    <3>2. CASE run[r].job # k
      BY <2>1, <3>1, <3>2, CountStays
    <3>3. CASE run[r].job = k
      <4>1. r \in RunsOf(k)
        BY <2>1, <3>3 DEF RunsOf
      <4>2. RunsOf(k)' = {}
        BY <3>1, <4>1 DEF CountOf
      <4> QED BY <1>2, <2>1, <2>2, <3>3, <4>2 DEF CountOf
    <3> QED BY <3>2, <3>3
  <2>4. CASE ~(run'[r] = NoRun /\ RunsBut(r))
    <3>1. GoesTo(r, "lease", run[r].selected, run[r].counted,
                 {i \in Index : item'[run[r].job][i] = "pending"}, run[r].seen, run[r].late)
      BY <1>5, <2>4 DEF Sown
    <3>2. run[r].job = k => CountedBy(k, r)'
      BY <3>1 DEF GoesTo, CountedBy
    <3> QED BY <1>2, <2>1, <2>2, <3>1, <3>2, CountGoes
  <2> QED BY <2>3, <2>4
<1>6. CASE TookLease(r)
  <2>1. Continue(run[r].todo) \in {"loop", "finish"}
    BY ContinueType
  <2>2. job'[k].counted = job[k].counted /\ item'[k] = item[k]
    BY <1>6 DEF TookLease, JobsBut
  <2>3. run[r].job = k => CountedBy(k, r)'
    BY <1>1, <1>6, <2>1, <2>2 DEF TookLease, GoesTo, CountedBy
  <2> QED BY <1>2, <1>3, <1>6, <2>1, <2>2, <2>3, CountGoes DEF TookLease
<1>7. CASE SawCancel(r)
  <2>1. job'[k].counted = job[k].counted /\ item'[k] = item[k]
    BY <1>7 DEF SawCancel, JobsBut
  <2>2. run[r].job = k => CountedBy(k, r)'
    BY <1>7 DEF SawCancel, GoesTo, CountedBy
  <2> QED BY <1>2, <1>3, <1>7, <2>1, <2>2, CountGoes DEF SawCancel
<1>8. CASE TookItem(r)
  <2>1. job'[k].counted = job[k].counted /\ item'[k] = item[k]
    BY <1>8 DEF TookItem
  <2>2. run[r].job = k => CountedBy(k, r)'
    BY <1>1, <1>8 DEF TookItem, GoesTo, CountedBy
  <2> QED BY <1>2, <1>3, <1>8, <2>1, <2>2, CountGoes DEF TookItem
<1>9. CASE LoadedEnd(r)
  <2>1. job'[k].counted = job[k].counted /\ item'[k] = item[k]
    BY <1>9 DEF LoadedEnd
  <2>2. run[r].job = k => CountedBy(k, r)'
    BY <1>9 DEF LoadedEnd, GoesTo, CountedBy
  <2> QED BY <1>2, <1>3, <1>9, <2>1, <2>2, CountGoes DEF LoadedEnd
<1>10. CASE CommittedEnd(r)
  <2>1. job'[k].counted = job[k].counted /\ item'[k] = item[k]
    BY <1>10 DEF CommittedEnd, JobsBut
  <2>2. run[r].job = k => CountedBy(k, r)'
    BY <1>10 DEF CommittedEnd, GoesTo, CountedBy
  <2> QED BY <1>2, <1>3, <1>10, <2>1, <2>2, CountGoes DEF CommittedEnd
<1>11. ASSUME NEW i \in Index, Decides(r, i) PROVE CountOf(k)'
  <2>1. run[r].job # k => job'[k].counted = job[k].counted /\ item'[k] = item[k]
    BY <1>11 DEF Decides, JobsBut
  <2>2. run[r].job = k => job'[k].counted = TimesCounted(k)' /\ CountedBy(k, r)'
    BY <1>11, DecidesOne
  <2> QED BY <1>11, <2>1, <2>2, CountGoes, ContinueType DEF Decides
<1> QED BY <1>4, <1>5, <1>6, <1>7, <1>8, <1>9, <1>10, <1>11

LEMMA CountStaysSound ==
  ASSUME Sizes, Sound, ReadyUntouched, CountSound,
         \A k \in Job : history[k] \subseteq history'[k],
         Quiet \/ RequestKind \/ JobKind \/ TaskKind
  PROVE  CountSound'
<1> SUFFICES ASSUME NEW k \in Job, Undisturbed(k)'
             PROVE  CountOf(k)'
  BY DEF CountSound, CountOf, CountedBy, TimesCounted
<1>1. CountOf(k) /\ history'[k] \cap {"overlapped", "restarted"} = {}
  BY DEF CountSound, CountOf, CountedBy, Undisturbed, TimesCounted
<1>2. ASSUME UNCHANGED <<run, item>>, job'[k].counted = job[k].counted
      PROVE  CountOf(k)'
  BY <1>1, <1>2, SameRuns, CountStays
<1>3. ASSUME NEW j \in Job, NEW s, Restatus(j, s)
      PROVE  CountOf(k)'
  BY <1>2, <1>3 DEF Restatus, JobsBut
<1>4. CASE Quiet
  BY <1>2, <1>4 DEF Quiet
<1>5. CASE RequestKind
  <2>1. PICK q \in JobRequest :
          \/ \E j \in Job : \/ Loaded(q, j, "start", {})
                            \/ Loaded(q, j, "cancel", {"cancelled"})
                            \/ Loaded(q, j, "poll", {"overdue"})
          \/ \E n \in Selections : Started(q, n)
          \/ /\ jobReq[q].at = "cancel" /\ jobReq[q].job \in Job
             /\ Restatus(jobReq[q].job, "cancelled")
          \/ jobReq[q].at = "poll" /\ jobReq[q].job \in Job /\ Failed(jobReq[q].job)
    BY <1>5 DEF RequestKind
  <2>2. ASSUME NEW j \in Job, NEW stage, NEW events, Loaded(q, j, stage, events)
        PROVE  CountOf(k)'
    BY <1>2, <2>2 DEF Loaded
  <2>3. ASSUME NEW n \in Selections, Started(q, n)
        PROVE  CountOf(k)'
    <3>1. ASSUME jobReq[q].job = k PROVE job'[k].counted = job[k].counted
      <4>1. "restarted" \notin Restarts(k, jobReq[q].loaded, n)
        BY <1>1, <2>3, <3>1 DEF Started
      <4>2. jobReq[q].loaded = job[k] /\ job[k].status = "ready"
        BY <4>1 DEF Restarts
      <4>3. job[k].counted = 0
        BY <4>2 DEF ReadyUntouched
      <4> QED BY <2>3, <3>1, <4>2, <4>3 DEF Started, Flush
    <3>2. job'[k].counted = job[k].counted
      BY <2>3, <3>1 DEF Started, JobsBut
    <3> QED BY <1>2, <2>3, <3>2 DEF Started
  <2>4. CASE jobReq[q].at = "poll" /\ jobReq[q].job \in Job /\ Failed(jobReq[q].job)
    BY <1>2, <2>4 DEF Failed, JobsBut
  <2> QED BY <1>3, <2>1, <2>2, <2>3, <2>4
<1>6. CASE JobKind
  <2>1. ASSUME NEW P \in SUBSET Queued, Promoted(P) PROVE CountOf(k)'
    <3>1. job'[k].counted = job[k].counted
      BY <2>1 DEF Promoted
    <3> QED BY <1>2, <2>1, <3>1 DEF Promoted
  <2>2. ASSUME NEW j \in Job, NEW r \in Run, Begun(j, r) PROVE CountOf(k)'
    <3>1. UNCHANGED <<job, item>> /\ run'[r].at = "seed"
      BY <2>2 DEF Begun
    <3>2. CASE k # j
      BY <1>1, <2>2, <3>1, <3>2, BeginRuns, CountStays
    <3>3. CASE k = j
      <4>1. RunsOf(k) = {}
        BY <1>1, <2>2, <3>3 DEF Begun
      <4>2. RunsOf(k)' = {r}
        BY <2>2, <3>3, <4>1, BeginRuns
      <4>3. CountedBy(k, r)'
        BY <3>1 DEF CountedBy
      <4>4. TimesCounted(k)' = TimesCounted(k)
        BY <3>1 DEF TimesCounted, Decided, Recounted
      <4> QED BY <1>1, <3>1, <4>2, <4>3, <4>4 DEF CountOf
    <3> QED BY <3>2, <3>3
  <2> QED BY <1>3, <1>6, <2>1, <2>2 DEF JobKind
<1>7. CASE TaskKind
  BY <1>1, <1>7, CountTask
<1> QED BY <1>4, <1>5, <1>6, <1>7

----------------------------------------------------------------------------
(* Completeness.                                                           *)

\* The parts of CompleteSound: what the row of job k says, who is about to start or
\* kick it, and what task r knows.
RowOf(k) ==
  /\ job[k].selected = 0 => job[k].status = "ready" /\ RunsOf(k) = {}
  /\ \A i \in Index : item[k][i] # "none" => i <= job[k].selected
  /\ job[k].status = "done" => Seeded(k) /\ Pending(k) = {}

AskedOf(k) ==
  /\ \A q \in JobRequest : jobReq[q].at = "start" /\ jobReq[q].job = k
       => jobReq[q].loaded.selected \in {0, job[k].selected}
  /\ \A d \in Dispatcher : k \in disp[d].kick => job[k].selected # 0

KnownBy(k, r) ==
  /\ run[r].selected = job[k].selected
  /\ run[r].at # "seed" =>
       /\ Seeded(k) /\ Pending(k) \subseteq run[r].todo
       /\ \A i \in run[r].todo : i <= job[k].selected
       /\ run[r].at \in {"finish", "commit", "clear"} => run[r].todo = {}

CompleteOf(k) == RowOf(k) /\ AskedOf(k) /\ \A r \in RunsOf(k) : KnownBy(k, r)

LEMMA CompleteParts ==
  ASSUME NEW k \in Job
  PROVE  CompleteOf(k) <=> SelectionKept(k) /\ PendingKnown(k)
BY DEF CompleteOf, RowOf, AskedOf, KnownBy, SelectionKept, PendingKnown

LEMMA AskedStays ==
  ASSUME NEW k \in Job, AskedOf(k), job'[k].selected = job[k].selected,
         ReqsSettle, KicksSettle
  PROVE  AskedOf(k)'
<1>1. \A p \in JobRequest : jobReq'[p].at = "start" => jobReq'[p] = jobReq[p]
  BY DEF ReqsSettle
<1>2. \A d \in Dispatcher : disp'[d].kick \subseteq disp[d].kick
  BY DEF KicksSettle
<1> QED BY <1>1, <1>2 DEF AskedOf

\* The selection and the rows stay, tasks stay or end, and a job that nobody selected
\* anything for stays as it is.
LEMMA CompleteStays ==
  ASSUME NEW k \in Job, CompleteOf(k), job'[k].selected = job[k].selected,
         item'[k] = item[k], RunsOf(k)' \subseteq RunsOf(k),
         \A p \in RunsOf(k)' : run'[p] = run[p],
         \/ job'[k].status = job[k].status
         \/ job'[k].status # "done" /\ job[k].selected # 0,
         AskedOf(k)'
  PROVE  CompleteOf(k)'
<1>1. (Seeded(k)' <=> Seeded(k)) /\ Pending(k)' = Pending(k)
  BY DEF Seeded, Pending
<1>2. RowOf(k)'
  BY <1>1 DEF CompleteOf, RowOf
<1>3. \A p \in RunsOf(k)' : KnownBy(k, p)'
  BY <1>1 DEF CompleteOf, KnownBy
<1> QED BY <1>2, <1>3 DEF CompleteOf

\* A task of job k goes on, and what the others know stays true.
LEMMA CompleteGoes ==
  ASSUME Sound, NEW k \in Job, CompleteOf(k), NEW r \in Run, run[r].at # "off",
         run[r].job = k, NEW stage, stage # "off", NEW selected, NEW counted, NEW todo,
         NEW seen, NEW late, GoesTo(r, stage, selected, counted, todo, seen, late),
         job'[k].selected = job[k].selected, UNCHANGED <<jobReq, disp>>,
         \A i \in Index : item'[k][i] # "none" => i <= job[k].selected,
         Seeded(k) => Seeded(k)' /\ Pending(k)' \subseteq Pending(k),
         job'[k].status = "done" => Seeded(k)' /\ Pending(k)' = {},
         KnownBy(k, r)'
  PROVE  CompleteOf(k)'
<1>1. /\ RunsOf(k)' = RunsOf(k)
      /\ \A p \in RunsOf(k) : p # r => run'[p] = run[p]
      /\ r \in RunsOf(k)
  BY GoesRuns
<1>2. job[k].selected # 0
  BY <1>1 DEF CompleteOf, RowOf
<1>3. RowOf(k)'
  BY <1>2 DEF RowOf
<1>4. AskedOf(k)'
  BY DEF CompleteOf, AskedOf
<1>5. ASSUME NEW p \in RunsOf(k), p # r PROVE KnownBy(k, p)'
  <2>1. run'[p] = run[p] /\ KnownBy(k, p)
    BY <1>1, <1>5 DEF CompleteOf
  <2> QED BY <2>1 DEF KnownBy
<1>6. \A p \in RunsOf(k)' : KnownBy(k, p)'
  BY <1>1, <1>5
<1> QED BY <1>3, <1>4, <1>6 DEF CompleteOf

\* A step of a task of another job.
LEMMA CompleteOther ==
  ASSUME Sizes, Sound, NEW k \in Job, CompleteOf(k), NEW r \in Run, run[r].job # k,
         \/ Stopped(r) \/ Sown(r) \/ TookLease(r) \/ SawCancel(r) \/ TookItem(r)
         \/ LoadedEnd(r) \/ CommittedEnd(r)
         \/ \E i \in Index : Decides(r, i)
  PROVE  CompleteOf(k)'
<1>1. job'[k] = job[k] /\ item'[k] = item[k] /\ UNCHANGED <<jobReq, disp>>
  BY DEF Stopped, Sown, TookLease, SawCancel, TookItem, LoadedEnd, CommittedEnd,
         Decides, JobsBut
<1>2. RunsBut(r) /\ (run'[r].job = run[r].job \/ run'[r] = NoRun)
  BY DEF Stopped, Sown, TookLease, SawCancel, TookItem, LoadedEnd, CommittedEnd,
         Decides, GoesTo
<1>3. RunsOf(k)' \subseteq RunsOf(k) /\ \A p \in RunsOf(k)' : run'[p] = run[p]
  BY <1>2, Nothing DEF RunsBut, RunsOf
<1>4. AskedOf(k)'
  BY <1>1 DEF CompleteOf, AskedOf
<1> QED BY <1>1, <1>3, <1>4, CompleteStays

\* Rows for the selection change nothing where they are.
LEMMA CompleteSown ==
  ASSUME Sizes, Sound, NEW k \in Job, CompleteOf(k), NEW r \in Run, run[r].job = k, Sown(r)
  PROVE  CompleteOf(k)'
<1>1. /\ run[r].at = "seed" /\ UNCHANGED <<job, disp, jobReq>>
      /\ \A i \in Index : item'[k][i] =
           (IF i <= run[r].selected /\ item[k][i] = "none" THEN "pending" ELSE item[k][i])
  BY DEF Sown
<1>2. r \in RunsOf(k) /\ run[r].selected = job[k].selected /\ job[k].selected # 0
  BY <1>1 DEF RunsOf, CompleteOf, KnownBy, RowOf
<1>3. Seeded(k)' /\ \A i \in Index : item'[k][i] # "none" => i <= job[k].selected
  BY <1>1, <1>2 DEF Seeded, CompleteOf, RowOf
<1>4. Seeded(k) => Pending(k)' = Pending(k)
  <2>1. Seeded(k) => \A i \in Index : item'[k][i] = item[k][i]
    BY <1>1, <1>2 DEF Seeded
  <2> QED BY <2>1 DEF Pending
<1>5. job'[k].status = "done" => Seeded(k)' /\ Pending(k)' = {}
  BY <1>1, <1>3, <1>4 DEF CompleteOf, RowOf
<1>6. CASE run'[r] = NoRun /\ RunsBut(r)
  <2>1. RunsOf(k)' \subseteq RunsOf(k) /\ \A p \in RunsOf(k)' : run'[p] = run[p]
    BY <1>6, Nothing DEF RunsBut, RunsOf
  <2>2. \A p \in RunsOf(k)' : KnownBy(k, p)'
    BY <1>1, <1>3, <1>4, <2>1 DEF CompleteOf, KnownBy
  <2>3. RowOf(k)'
    BY <1>1, <1>2, <1>3, <1>5 DEF RowOf
  <2>4. AskedOf(k)'
    BY <1>1 DEF CompleteOf, AskedOf
  <2> QED BY <2>2, <2>3, <2>4 DEF CompleteOf
<1>7. CASE ~(run'[r] = NoRun /\ RunsBut(r))
  <2>1. GoesTo(r, "lease", run[r].selected, run[r].counted,
               {i \in Index : item'[k][i] = "pending"}, run[r].seen, run[r].late)
    BY <1>7 DEF Sown
  <2>2. KnownBy(k, r)'
    <3>1. Pending(k)' = run'[r].todo /\ run'[r].at = "lease"
          /\ run'[r].selected = run[r].selected
      BY <2>1 DEF Pending, GoesTo
    <3>2. \A i \in run'[r].todo : i \in Index /\ item'[k][i] # "none"
      BY <2>1 DEF GoesTo
    <3> QED BY <1>1, <1>2, <1>3, <3>1, <3>2 DEF KnownBy
  <2> QED BY <1>1, <1>3, <1>4, <1>5, <2>1, <2>2, CompleteGoes
<1> QED BY <1>6, <1>7

\* A task goes on without touching the rows.
LEMMA CompleteWalks ==
  ASSUME Sound, NEW k \in Job, CompleteOf(k), NEW r \in Run, run[r].job = k,
         run[r].at \in {"lease", "loop", "work", "finish", "commit"},
         NEW stage, stage \notin {"off", "seed"}, NEW selected, NEW counted, NEW seen, NEW late,
         GoesTo(r, stage, selected, counted, run[r].todo, seen, late),
         selected = job[k].selected, job'[k].selected = job[k].selected,
         stage \in {"finish", "commit", "clear"} => run[r].todo = {},
         \/ job'[k].status = job[k].status
         \/ run[r].todo = {},
         UNCHANGED <<item, jobReq, disp>>
  PROVE  CompleteOf(k)'
<1>1. r \in RunsOf(k)
  BY DEF RunsOf
<1>2. KnownBy(k, r)
  BY <1>1 DEF CompleteOf
<1>3. (Seeded(k)' <=> Seeded(k)) /\ Pending(k)' = Pending(k)
  BY DEF Seeded, Pending
<1>4. KnownBy(k, r)'
  BY <1>2, <1>3 DEF KnownBy, GoesTo
<1>5. job'[k].status = "done" => Seeded(k)' /\ Pending(k)' = {}
  <2>1. run[r].todo = {} => Seeded(k) /\ Pending(k) = {}
    BY <1>2 DEF KnownBy
  <2> QED BY <1>3, <2>1 DEF CompleteOf, RowOf
<1>6. \A i \in Index : item'[k][i] # "none" => i <= job[k].selected
  BY DEF CompleteOf, RowOf
<1> QED BY <1>3, <1>4, <1>5, <1>6, CompleteGoes

LEMMA CompleteDecides ==
  ASSUME Sound, NEW k \in Job, CompleteOf(k), NEW r \in Run, run[r].job = k,
         NEW i \in Index, Decides(r, i)
  PROVE  CompleteOf(k)'
<1> DEFINE left == run[r].todo \ {i}
           a == Continue(left)
<1>1. /\ run[r].at = "work" /\ i \in run[r].todo
      /\ job'[k].status = job[k].status /\ job'[k].selected = job[k].selected
      /\ item'[k][i] \in {"decided", "recounted"} /\ \A h \in Index \ {i} : item'[k][h] = item[k][h]
      /\ UNCHANGED <<disp, jobReq>> /\ r \in RunsOf(k)
      /\ run'[r].at = a /\ run'[r].selected = run[r].selected /\ run'[r].todo = left
  BY DEF Decides, RunsOf, GoesTo
<1>2. KnownBy(k, r)
  BY <1>1 DEF CompleteOf
<1>3. Seeded(k)' /\ Pending(k)' = Pending(k) \ {i}
  BY <1>1, <1>2 DEF KnownBy, Seeded, Pending
<1>4. \A h \in Index : item'[k][h] # "none" => h <= job[k].selected
  <2>1. i <= job[k].selected
    BY <1>1, <1>2 DEF KnownBy
  <2> QED BY <1>1, <2>1 DEF CompleteOf, RowOf
<1>5. KnownBy(k, r)'
  <2>1. a \in {"loop", "finish"} /\ (a = "finish" => left = {})
    BY ContinueType
  <2> QED BY <1>1, <1>2, <1>3, <2>1 DEF KnownBy
<1>6. job'[k].status = "done" => Seeded(k)' /\ Pending(k)' = {}
  BY <1>1, <1>3 DEF CompleteOf, RowOf
<1>7. GoesTo(r, a, run[r].selected, job'[k].counted, left, run[r].seen,
             run[r].late + (IF job[k].lease = r THEN 0 ELSE 1))
  BY DEF Decides
<1>8. a # "off"
  BY ContinueType
<1> HIDE DEF a
<1> QED BY <1>1, <1>3, <1>4, <1>5, <1>6, <1>7, <1>8, CompleteGoes

LEMMA CompleteTask ==
  ASSUME Sizes, Sound, EndsRecorded, NEW k \in Job, CompleteOf(k), TaskKind,
         "cancelled" \notin history'[k]
  PROVE  CompleteOf(k)'
<1> SUFFICES ASSUME NEW r \in Run,
                    \/ Stopped(r) \/ Sown(r) \/ TookLease(r) \/ SawCancel(r) \/ TookItem(r)
                    \/ LoadedEnd(r) \/ CommittedEnd(r)
                    \/ \E i \in Index : Decides(r, i)
             PROVE  CompleteOf(k)'
  BY DEF TaskKind
<1>1. CASE run[r].job # k
  BY <1>1, CompleteOther
<1> SUFFICES ASSUME run[r].job = k PROVE CompleteOf(k)'
  BY <1>1
<1>2. run[r].at # "off" => KnownBy(k, r)
  BY DEF RunsOf, CompleteOf
<1>3. CASE Stopped(r)
  <2>1. AskedOf(k)'
    BY <1>3 DEF Stopped, CompleteOf, AskedOf
  <2> QED BY <1>3, <2>1, StopRuns, CompleteStays DEF Stopped
<1>4. CASE Sown(r)
  BY <1>4, CompleteSown
<1>5. CASE TookLease(r)
  <2>1. /\ Continue(run[r].todo) \in {"loop", "finish"}
        /\ Continue(run[r].todo) = "finish" => run[r].todo = {}
    BY ContinueType
  <2>2. run[r].selected = job[k].selected
    BY <1>2, <1>5 DEF KnownBy, TookLease
  <2> QED BY <1>5, <2>1, <2>2, CompleteWalks DEF TookLease
<1>6. CASE SawCancel(r)
  BY <1>6 DEF SawCancel, EndsRecorded
<1>7. CASE TookItem(r)
  <2>1. run[r].selected = job[k].selected
    BY <1>2, <1>7 DEF KnownBy, TookItem
  <2>2. PICK n, m : GoesTo(r, "work", run[r].selected, n, run[r].todo, m, run[r].late)
    BY <1>7 DEF TookItem
  <2>3. /\ job'[k].selected = job[k].selected /\ job'[k].status = job[k].status
        /\ run[r].at = "loop" /\ UNCHANGED <<item, jobReq, disp>>
    BY <1>7 DEF TookItem
  <2> DEFINE stage == "work"
  <2>4. stage \notin {"off", "seed", "finish", "commit", "clear"}
        /\ GoesTo(r, stage, run[r].selected, n, run[r].todo, m, run[r].late)
    BY <2>2
  <2> HIDE DEF stage
  <2> QED BY <2>1, <2>3, <2>4, CompleteWalks
<1>8. CASE LoadedEnd(r)
  <2> DEFINE n == job[k].selected
  <2>1. run[r].todo = {}
    BY <1>2, <1>8 DEF KnownBy, LoadedEnd
  <2>2. /\ run[r].at = "finish" /\ UNCHANGED <<job, item, jobReq, disp>>
        /\ GoesTo(r, "commit", n, run[r].counted, run[r].todo, run[r].seen, run[r].late)
    BY <1>8 DEF LoadedEnd
  <2>3. n = job[k].selected
    OBVIOUS
  <2> HIDE DEF n
  <2> QED BY <2>1, <2>2, <2>3, CompleteWalks
<1>9. CASE CommittedEnd(r)
  <2>1. run[r].todo = {} /\ run[r].selected = job[k].selected
    BY <1>2, <1>9 DEF KnownBy, CommittedEnd
  <2> QED BY <1>9, <2>1, CompleteWalks DEF CommittedEnd
<1>10. ASSUME NEW i \in Index, Decides(r, i) PROVE CompleteOf(k)'
  BY <1>10, CompleteDecides
<1> QED BY <1>3, <1>4, <1>5, <1>6, <1>7, <1>8, <1>9, <1>10

LEMMA CompleteStaysSound ==
  ASSUME Sizes, Sound, EndsRecorded, CompleteSound,
         \A k \in Job : history[k] \subseteq history'[k],
         Quiet \/ RequestKind \/ JobKind \/ TaskKind
  PROVE  CompleteSound'
<1> SUFFICES ASSUME NEW k \in Job, Wanted(k)' PROVE CompleteOf(k)'
  BY CompleteParts DEF CompleteSound, CompleteOf, RowOf, AskedOf, KnownBy, SelectionKept,
                       PendingKnown
<1>1. /\ CompleteOf(k) /\ history'[k] \cap {"reselected", "cancelled", "overdue"} = {}
      /\ history[k] \subseteq history'[k]
  BY CompleteParts DEF CompleteSound, Wanted
<1>2. ASSUME UNCHANGED <<run, item>>, job'[k].selected = job[k].selected,
             \/ job'[k].status = job[k].status
             \/ job'[k].status # "done" /\ job[k].selected # 0,
             ReqsSettle, KicksSettle
      PROVE  CompleteOf(k)'
  BY <1>1, <1>2, AskedStays, SameRuns, CompleteStays DEF CompleteOf
<1>3. ASSUME NEW j \in Job, NEW s, Restatus(j, s),
             k = j => s # "done" /\ job[k].selected # 0
      PROVE  CompleteOf(k)'
  <2>1. CASE k = j
    BY <1>2, <1>3, <2>1 DEF Restatus
  <2>2. CASE k # j
    BY <1>2, <1>3, <2>2 DEF Restatus, JobsBut
  <2> QED BY <2>1, <2>2
<1>4. job[k].status # "ready" => job[k].selected # 0
  BY <1>1 DEF CompleteOf, RowOf
<1>5. CASE Quiet
  BY <1>2, <1>5 DEF Quiet
<1>6. CASE RequestKind
  <2>1. PICK q \in JobRequest :
          \/ \E j \in Job : \/ Loaded(q, j, "start", {})
                            \/ Loaded(q, j, "cancel", {"cancelled"})
                            \/ Loaded(q, j, "poll", {"overdue"})
          \/ \E n \in Selections : Started(q, n)
          \/ /\ jobReq[q].at = "cancel" /\ jobReq[q].job \in Job
             /\ Restatus(jobReq[q].job, "cancelled")
          \/ jobReq[q].at = "poll" /\ jobReq[q].job \in Job /\ Failed(jobReq[q].job)
    BY <1>6 DEF RequestKind
  <2>2. ASSUME NEW j \in Job, NEW stage, NEW events, Loaded(q, j, stage, events)
        PROVE  CompleteOf(k)'
    <3>1. UNCHANGED <<job, item, run, disp>>
      BY <2>2 DEF Loaded
    <3>2. AskedOf(k)'
      <4>1. ASSUME NEW p \in JobRequest, jobReq'[p].at = "start", jobReq'[p].job = k
            PROVE  jobReq'[p].loaded.selected \in {0, job[k].selected}
        <5>1. CASE p = q
          BY <2>2, <4>1, <5>1 DEF Loaded
        <5>2. CASE p # q
          BY <1>1, <2>2, <4>1, <5>2 DEF Loaded, CompleteOf, AskedOf
        <5> QED BY <5>1, <5>2
      <4> QED BY <1>1, <3>1, <4>1 DEF CompleteOf, AskedOf
    <3> QED BY <1>1, <3>1, <3>2, SameRuns, CompleteStays
  <2>3. ASSUME NEW n \in Selections, Started(q, n)
        PROVE  CompleteOf(k)'
    <3>1. /\ UNCHANGED <<item, run, disp>> /\ ReqsSettle /\ KicksSettle /\ n # 0
          /\ RunsOf(k)' = RunsOf(k)
      BY <2>3, SameRuns DEF Started, KicksSettle, Sizes
    <3>2. CASE jobReq[q].job # k
      <4>1. job'[k] = job[k]
        BY <2>3, <3>2 DEF Started, JobsBut
      <4> QED BY <1>2, <3>1, <4>1
    <3>3. CASE jobReq[q].job = k
      <4>1. "reselected" \notin Restarts(k, jobReq[q].loaded, n)
        BY <1>1, <2>3, <3>3 DEF Started
      <4>2. {job[k].selected, jobReq[q].loaded.selected} \subseteq {0, n}
        BY <4>1 DEF Restarts
      <4>3. jobReq[q].loaded.selected \in {0, job[k].selected}
        BY <1>1, <2>3, <3>3 DEF CompleteOf, AskedOf, Started
      <4>4. job'[k].selected = n
        BY <2>3, <3>1, <3>3, <4>2, <4>3 DEF Started, Flush
      <4>5. CASE job[k].selected = n
        <5>1. \/ job'[k].status = job[k].status
              \/ job'[k].status # "done" /\ job[k].selected # 0
          BY <2>3, <3>1, <3>3, <4>5 DEF Started
        <5> QED BY <1>2, <3>1, <4>4, <4>5, <5>1
      <4>6. CASE job[k].selected = 0
        <5>1. job[k].status = "ready" /\ RunsOf(k) = {} 
          BY <1>1, <4>6 DEF CompleteOf, RowOf
        <5>2. \A i \in Index : item[k][i] = "none"
          <6>1. \A i \in Index : ~(i <= 0)
            BY Indices
          <6> QED BY <1>1, <4>6, <6>1 DEF CompleteOf, RowOf
        <5>3. job'[k].status # "done"
          BY <2>3, <3>3, <5>1 DEF Started
        <5>4. RowOf(k)'
          BY <3>1, <4>4, <5>2, <5>3 DEF RowOf
        <5>5. AskedOf(k)'
          <6>1. ASSUME NEW p \in JobRequest, jobReq'[p].at = "start", jobReq'[p].job = k
                PROVE  jobReq'[p].loaded.selected \in {0, n}
            <7>1. jobReq'[p] = jobReq[p]
              BY <3>1, <6>1 DEF ReqsSettle
            <7> QED BY <1>1, <4>6, <6>1, <7>1 DEF CompleteOf, AskedOf
          <6> QED BY <3>1, <4>4, <6>1 DEF AskedOf
        <5> QED BY <3>1, <5>1, <5>4, <5>5 DEF CompleteOf
      <4> QED BY <4>2, <4>5, <4>6
    <3> QED BY <3>2, <3>3
  <2>4. CASE /\ jobReq[q].at = "cancel" /\ jobReq[q].job \in Job
             /\ Restatus(jobReq[q].job, "cancelled")
    <3>1. jobReq[q].job # k
      BY <1>1, <2>4 DEF EndsRecorded
    <3>2. job'[k] = job[k] /\ UNCHANGED <<run, item>> /\ ReqsSettle /\ KicksSettle
      BY <2>4, <3>1 DEF Restatus, JobsBut
    <3> QED BY <1>2, <3>2
  <2>5. CASE jobReq[q].at = "poll" /\ jobReq[q].job \in Job /\ Failed(jobReq[q].job)
    <3>1. jobReq[q].job # k
      BY <1>1, <2>5 DEF EndsRecorded
    <3>2. job'[k] = job[k] /\ UNCHANGED <<run, item>> /\ ReqsSettle /\ KicksSettle
      BY <2>5, <3>1 DEF Failed, JobsBut, KicksSettle
    <3> QED BY <1>2, <3>2
  <2> QED BY <2>1, <2>2, <2>3, <2>4, <2>5
<1>7. CASE JobKind
  <2>1. ASSUME NEW P \in SUBSET Queued, Promoted(P) PROVE CompleteOf(k)'
    <3>1. /\ UNCHANGED <<item, run, jobReq>> /\ RunsOf(k)' = RunsOf(k)
          /\ job'[k].selected = job[k].selected
          /\ \A d \in Dispatcher : disp'[d].kick \subseteq disp[d].kick \cup P
      BY <2>1, SameRuns DEF Promoted
    <3>2. k \in P => job[k].selected # 0
      BY <1>4 DEF Queued
    <3>3. \/ job'[k].status = job[k].status
          \/ job'[k].status # "done" /\ job[k].selected # 0
      BY <2>1, <3>2 DEF Promoted
    <3>4. AskedOf(k)'
      BY <1>1, <3>1, <3>2 DEF CompleteOf, AskedOf
    <3> QED BY <1>1, <3>1, <3>3, <3>4, CompleteStays
  <2>2. ASSUME NEW j \in Job, Restatus(j, "queued"),
               job[j].status = "importing" \/ \E d \in Dispatcher : j \in disp[d].kick
        PROVE  CompleteOf(k)'
    <3>1. k = j => job[k].selected # 0
      BY <1>1, <1>4, <2>2 DEF CompleteOf, AskedOf
    <3> QED BY <1>3, <2>2, <3>1
  <2>3. ASSUME NEW j \in Job, Restatus(j, "done"), job[j].status = "importing",
               job[j].selected = 0
        PROVE  CompleteOf(k)'
    BY <1>3, <1>4, <2>3
  <2>4. ASSUME NEW j \in Job, NEW r \in Run, Begun(j, r) PROVE CompleteOf(k)'
    <3>1. /\ UNCHANGED <<job, item, disp, jobReq>> /\ run'[r].at = "seed"
          /\ run'[r].selected = job[j].selected /\ job[j].selected # 0
      BY <2>4 DEF Begun
    <3>2. /\ RunsOf(k)' = (IF k = j THEN RunsOf(k) \cup {r} ELSE RunsOf(k))
          /\ \A p \in RunsOf(k) : run'[p] = run[p]
      BY <2>4, BeginRuns
    <3>3. AskedOf(k)'
      BY <1>1, <3>1 DEF CompleteOf, AskedOf
    <3>4. CASE k # j
      BY <1>1, <3>1, <3>2, <3>3, <3>4, CompleteStays
    <3>5. CASE k = j
      <4>1. (Seeded(k)' <=> Seeded(k)) /\ Pending(k)' = Pending(k)
        BY <3>1 DEF Seeded, Pending
      <4>2. RowOf(k)'
        BY <1>1, <3>1, <3>5, <4>1 DEF CompleteOf, RowOf
      <4>3. KnownBy(k, r)'
        BY <3>1, <3>5 DEF KnownBy
      <4>4. \A p \in RunsOf(k) : KnownBy(k, p)'
        BY <1>1, <3>1, <3>2, <4>1 DEF CompleteOf, KnownBy
      <4> QED BY <3>2, <3>3, <3>5, <4>2, <4>3, <4>4 DEF CompleteOf
    <3> QED BY <3>4, <3>5
  <2> QED BY <1>7, <2>1, <2>2, <2>3, <2>4 DEF JobKind
<1>8. CASE TaskKind
  BY <1>1, <1>8, CompleteTask
<1> QED BY <1>5, <1>6, <1>7, <1>8

----------------------------------------------------------------------------

LEMMA Starts == ASSUME Sizes, ImportInit PROVE ImportInv
<1>1. /\ job = [j \in Job |-> NewJob] /\ item = [j \in Job |-> [i \in Index |-> "none"]]
      /\ flag = {} /\ msgs = [j \in Job |-> 0] /\ run = [r \in Run |-> NoRun]
      /\ disp = [d \in Dispatcher |-> NoDisp] /\ jobReq = [q \in JobRequest |-> NoReq]
      /\ budget = [requests |-> RequestBound, faults |-> FaultBound]
      /\ history = [j \in Job |-> {}]
  BY DEF ImportInit
<1>2. ImportTypes
  <2>1. budget \in Budget
    BY <1>1 DEF Budget, Sizes
  <2>2. item \in [Job -> [Index -> ItemStatus]]
    BY <1>1 DEF ItemStatus
  <2> QED BY <1>1, <2>1, <2>2, Nothing DEF ImportTypes
<1>3. \A r \in Run : run[r].at = "off"
  BY <1>1, Nothing
<1>4. \A j \in Job : RunsOf(j) = {} /\ job[j] = NewJob /\ history[j] = {}
  BY <1>1, <1>3 DEF RunsOf
<1>5. WorkKnown
  BY <1>1, <1>3, Nothing DEF WorkKnown
<1>6. LeasesSelected /\ ReadyUntouched /\ LateSound /\ EndsRecorded
  BY <1>1, <1>3, <1>4, Nothing DEF LeasesSelected, ReadyUntouched, LateSound, EndsRecorded
<1>7. CountSound
  <2>1. \A j \in Job : Decided(j) = {} /\ Recounted(j) = {}
    BY <1>1 DEF Decided, Recounted
  <2> QED BY <1>4, <2>1, Nothing, FS_EmptySet DEF CountSound
<1>8. CompleteSound
  <2>1. \A j \in Job : SelectionKept(j)
    BY <1>1, <1>4, Nothing DEF SelectionKept
  <2>2. \A j \in Job : PendingKnown(j)
    BY <1>1, <1>4, Nothing DEF PendingKnown
  <2> QED BY <2>1, <2>2 DEF CompleteSound
<1> QED BY <1>2, <1>5, <1>6, <1>7, <1>8 DEF ImportInv

LEMMA ImportInductive == ASSUME Sizes, ImportInv, [ImportNext]_importVars PROVE ImportInv'
<1>1. Sound
  BY DEF ImportInv, Sound
<1>2. Sound' /\ (Quiet \/ RequestKind \/ JobKind \/ TaskKind)
  BY <1>1, Kinds
<1>3. EndsRecorded' /\ \A k \in Job : history[k] \subseteq history'[k]
  BY <1>1, <1>2, EndsStayRecorded DEF ImportInv
<1>4. LeasesSelected' /\ ReadyUntouched'
  BY <1>1, <1>2, LeasesStaySelected, ReadyStaysUntouched DEF ImportInv
<1>5. LateSound' /\ CountSound' /\ CompleteSound'
  BY <1>1, <1>2, <1>3, LateStaysSound, CountStaysSound, CompleteStaysSound DEF ImportInv
<1> QED BY <1>2, <1>3, <1>4, <1>5 DEF ImportInv, Sound

\* The invariant is one.
THEOREM ImportInvariance == ASSUME Sizes PROVE ImportSpec => []ImportInv
<1>1. ImportInit => ImportInv
  BY Starts
<1>2. ImportInv /\ [ImportNext]_importVars => ImportInv'
  BY ImportInductive
<1> QED BY <1>1, <1>2, PTL DEF ImportSpec

LEMMA LateBounded == ASSUME Sizes, ImportInv PROVE LateItemsBounded
<1> SUFFICES ASSUME NEW j \in Job, "reselected" \notin history[j], NEW r \in RunsOf(j)
             PROVE  run[r].late <= LeaseCheckEvery
  BY DEF LateItemsBounded
<1> DEFINE n == run[r].seen
           l == run[r].late
           m == (n - 1) % LeaseCheckEvery
<1>1. r \in Run /\ LateBy(run[r]) /\ n \in Nat /\ l \in Nat /\ LeaseCheckEvery \in Nat
  BY AtWork DEF ImportInv, Sound, LateSound, RunsOf, Sizes
<1>2. n > 0 => m \in Nat /\ m + 1 <= LeaseCheckEvery
  BY <1>1, LateDivided
<1>3. \/ l = 0 \/ l <= 0 \/ l <= LeaseCheckEvery
      \/ n > 0 /\ (l <= m + 1 \/ l <= m)
  BY <1>1 DEF LateBy
<1> HIDE DEF n, l, m
<1>4. l <= LeaseCheckEvery
  BY <1>1, <1>2, <1>3
<1> QED BY <1>4 DEF l

LEMMA DoneComplete == ASSUME ImportInv PROVE DoneIsComplete
<1>1. ASSUME NEW j \in Job, job[j].status = "done",
             history[j] \cap {"reselected", "cancelled", "overdue"} = {}
      PROVE  \A i \in Index : item[j][i] # "pending"
  <2>1. PendingKnown(j)
    BY <1>1 DEF ImportInv, CompleteSound, Wanted
  <2>2. Pending(j) = {}
    BY <1>1, <2>1 DEF PendingKnown
  <2> QED BY <2>2 DEF Pending
<1> QED BY <1>1 DEF DoneIsComplete

\* Rows of jobs and items, messages, tasks, dispatchers and requests of imports keep
\* their types.
THEOREM ImportTypesKept == ASSUME Sizes PROVE ImportSpec => []ImportTypes
<1>1. ImportInv => ImportTypes
  BY DEF ImportInv
<1> QED BY <1>1, ImportInvariance, PTL

\* The counters exceed the number of decided items by the items counted twice and by
\* nothing else, unless tasks overlapped or the job was restarted.
THEOREM CountersStayExact == ASSUME Sizes PROVE ImportSpec => []CountersExact
<1>1. ImportInv => CountersExact
  BY DEF ImportInv, CountSound, Undisturbed, CountersExact
<1> QED BY <1>1, ImportInvariance, PTL

\* A job that is done has no pending item, unless somebody cancelled it, let it expire
\* or chose other tracks.
THEOREM DoneJobsComplete == ASSUME Sizes PROVE ImportSpec => []DoneIsComplete
<1>1. ImportInv => DoneIsComplete
  BY DoneComplete
<1> QED BY <1>1, ImportInvariance, PTL

\* A task that lost its lease imports no more than LeaseCheckEvery items after that.
THEOREM ZombiesBounded == ASSUME Sizes PROVE ImportSpec => []LateItemsBounded
<1>1. ImportInv => LateItemsBounded
  BY LateBounded
<1> QED BY <1>1, ImportInvariance, PTL
=============================================================================
