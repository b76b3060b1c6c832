--------------------------- MODULE ChunkedUpload ---------------------------
(***************************************************************************)
(* Chunked uploads: a row of upload_sessions beside a multipart upload of  *)
(* the object store, requests that open a session, put chunks, complete    *)
(* and cancel it, the hourly cleanup, and the transcoding task of the      *)
(* track that a completed session becomes.                                 *)
(*                                                                         *)
(* A request reads its row once, talks to the store, and writes by id; the *)
(* session is committed after the handler returned and rolled back when it *)
(* raised. What was done in the store, or put into the broker, stays done. *)
(***************************************************************************)
EXTENDS Naturals, FiniteSets

CONSTANTS
  Upload,    \* upload ids
  Request,   \* concurrent HTTP requests
  Expected,  \* expected_chunks
  Crashes,   \* whether processes die and connections break in mid-request
  NoFile     \* the absence of an object

ASSUME CrashesAssumption  == Crashes \in BOOLEAN
ASSUME ExpectedAssumption == Expected \in Nat \ {0}

VARIABLES
  row,      \* [Upload -> Row]: the table upload_sessions
  expired,  \* the uploads whose expires_at has passed
  multi,    \* [Upload -> Multipart]: multipart uploads in the store
  object,   \* [Upload -> NoFile or the chunks of the assembled object]
  track,    \* [Upload -> TrackStatus]: the committed track of an upload
  created,  \* [Upload -> Nat]: how many tracks were committed for it
  task,     \* [Upload -> TaskState]: its transcoding task
  req,      \* [Request -> RequestRec]
  cleanup,  \* the uploads that a running cleanup has selected
  acked     \* [Upload -> SUBSET Chunk]: chunks whose request succeeded

vars == <<row, expired, multi, object, track, created, task, req, cleanup, acked>>

Chunk == 1..Expected

ASSUME NoFileAssumption == \A parts \in SUBSET Chunk : parts # NoFile

\* parts and completed_chunks are written together, from one list of chunks.
Row == [status : {"none", "active", "completed", "cancelled", "expired"},
        parts  : SUBSET Chunk]

Multipart == [state : {"none", "open", "completed", "aborted"}, parts : SUBSET Chunk]

TrackStatus == {"none", "processing", "active", "error"}
TaskState   == {"none", "queued", "working"}

\* fresh: the track that complete is about to commit needs transcoding.
RequestRec == [at : {"idle", "opened", "put", "write", "assemble", "scan",
                     "finalize", "commit", "abort", "settle"},
               upload : Upload, chunk : Chunk, parts : SUBSET Chunk, fresh : BOOLEAN]

Idle == [at |-> "idle", upload |-> CHOOSE u \in Upload : TRUE, chunk |-> 1,
         parts |-> {}, fresh |-> FALSE]

TypeOK ==
  /\ row \in [Upload -> Row]
  /\ expired \subseteq Upload
  /\ multi \in [Upload -> Multipart]
  /\ object \in [Upload -> {NoFile} \cup SUBSET Chunk]
  /\ track \in [Upload -> TrackStatus]
  /\ created \in [Upload -> Nat]
  /\ task \in [Upload -> TaskState]
  /\ req \in [Request -> RequestRec]
  /\ cleanup \subseteq Upload
  /\ acked \in [Upload -> SUBSET Chunk]

Init ==
  /\ row = [u \in Upload |-> [status |-> "none", parts |-> {}]]
  /\ expired = {}
  /\ multi = [u \in Upload |-> [state |-> "none", parts |-> {}]]
  /\ object = [u \in Upload |-> NoFile]
  /\ track = [u \in Upload |-> "none"]
  /\ created = [u \in Upload |-> 0]
  /\ task = [u \in Upload |-> "none"]
  /\ req = [q \in Request |-> Idle]
  /\ cleanup = {}
  /\ acked = [u \in Upload |-> {}]

----------------------------------------------------------------------------
(* Requests: common parts.                                                 *)

At(q, stage)   == req[q].at = stage
Goto(q, stage) == req' = [req EXCEPT ![q].at = stage]
End(q)         == req' = [req EXCEPT ![q] = Idle]

\* _load_active
Active(u) == row[u].status = "active" /\ u \notin expired

Begin(q, u, c, stage) ==
  /\ At(q, "idle")
  /\ req' = [req EXCEPT ![q] = [at |-> stage, upload |-> u, chunk |-> c,
                                parts |-> row[u].parts, fresh |-> FALSE]]

\* A session whose request dies is rolled back.
Crash(q) ==
  /\ Crashes
  /\ ~At(q, "idle")
  /\ End(q)
  /\ UNCHANGED <<row, expired, multi, object, track, created, task, cleanup, acked>>

----------------------------------------------------------------------------
(* init.                                                                   *)

CreateMultipart(q, u) ==
  /\ multi[u].state = "none"
  /\ Begin(q, u, 1, "opened")
  /\ multi' = [multi EXCEPT ![u].state = "open"]
  /\ UNCHANGED <<row, expired, object, track, created, task, cleanup, acked>>

InitCommit(q) ==
  /\ At(q, "opened")
  /\ row' = [row EXCEPT ![req[q].upload].status = "active"]
  /\ End(q)
  /\ UNCHANGED <<expired, multi, object, track, created, task, cleanup, acked>>

Expire(u) ==
  /\ row[u].status # "none" /\ u \notin expired
  /\ expired' = expired \cup {u}
  /\ UNCHANGED <<row, multi, object, track, created, task, req, cleanup, acked>>

----------------------------------------------------------------------------
(* upload_chunk.                                                           *)

ChunkLoad(q, u, c) ==
  /\ Active(u)
  /\ Begin(q, u, c, "put")
  /\ UNCHANGED <<row, expired, multi, object, track, created, task, cleanup, acked>>

\* The lists are those of the row as loaded; the store refuses a part of a
\* multipart upload that has ended.
UploadPart(q) ==
  LET u == req[q].upload
  IN /\ At(q, "put")
     /\ IF multi[u].state = "open"
        THEN /\ multi' = [multi EXCEPT ![u].parts = @ \cup {req[q].chunk}]
             /\ Goto(q, "write")
        ELSE End(q) /\ UNCHANGED multi
     /\ UNCHANGED <<row, expired, object, track, created, task, cleanup, acked>>

\* Mutant: the number of the part is taken for the index of the chunk.
PartsByNumber(q) == req[q].parts \cup {req[q].chunk + 1}

Parts(q) == req[q].parts \cup {req[q].chunk}

ChunkCommit(q) ==
  LET u == req[q].upload
  IN /\ At(q, "write")
     /\ row' = [row EXCEPT ![u].parts = Parts(q)]
     /\ acked' = [acked EXCEPT ![u] = @ \cup {req[q].chunk}]
     /\ End(q)
     /\ UNCHANGED <<expired, multi, object, track, created, task, cleanup>>

----------------------------------------------------------------------------
(* complete.                                                               *)

\* Mutant: an index taken for a count.
AllButOne(u) == Cardinality(row[u].parts) >= Expected - 1

AllChunks(u) == Cardinality(row[u].parts) = Expected

CompleteLoad(q, u) ==
  /\ Active(u) /\ AllChunks(u)
  /\ Begin(q, u, 1, "assemble")
  /\ UNCHANGED <<row, expired, multi, object, track, created, task, cleanup, acked>>

\* Mutant: a multipart upload that has been completed counts as assembled.
AssemblesAgain(q) ==
  LET m == multi[req[q].upload]
  IN m.state \in {"open", "completed"} /\ req[q].parts \subseteq m.parts

Assembles(q) ==
  LET m == multi[req[q].upload] IN m.state = "open" /\ req[q].parts \subseteq m.parts

\* complete_multipart_upload works once; an error of the store is an exception.
Assemble(q) ==
  LET u == req[q].upload
  IN /\ At(q, "assemble")
     /\ IF Assembles(q)
        THEN /\ multi' = [multi EXCEPT ![u].state = "completed"]
             /\ object' = [object EXCEPT ![u] = req[q].parts]
             /\ Goto(q, "scan")
        ELSE End(q) /\ UNCHANGED <<multi, object>>
     /\ UNCHANGED <<row, expired, track, created, task, cleanup, acked>>

Clean(q) ==
  /\ At(q, "scan")
  /\ Goto(q, "finalize")
  /\ UNCHANGED <<row, expired, multi, object, track, created, task, cleanup, acked>>

\* The object is deleted, errors ignored; the status written is rolled back by
\* the exception that follows.
Blocked(q) ==
  /\ At(q, "scan")
  /\ \/ object' = [object EXCEPT ![req[q].upload] = NoFile]
     \/ UNCHANGED object
  /\ End(q)
  /\ UNCHANGED <<row, expired, multi, track, created, task, cleanup, acked>>

\* A file that is no audio, or too much for the quota, is an exception, and so is
\* a broker that fails after a task was kicked.
Reject(q) ==
  /\ req[q].at \in {"finalize", "commit"}
  /\ End(q)
  /\ UNCHANGED <<row, expired, multi, object, track, created, task, cleanup, acked>>

\* finalize_from_s3: a file that is known already needs no object, any other is
\* left to the transcoding task, which is kicked before the track is committed.
Finalize(q) ==
  LET u == req[q].upload
  IN /\ At(q, "finalize")
     /\ \/ /\ \/ object' = [object EXCEPT ![u] = NoFile]
              \/ UNCHANGED object
           /\ Goto(q, "commit") /\ UNCHANGED task
        \/ /\ task' = [task EXCEPT ![u] = "queued"]
           /\ req' = [req EXCEPT ![q].at = "commit", ![q].fresh = TRUE]
           /\ UNCHANGED object
     /\ UNCHANGED <<row, expired, multi, track, created, cleanup, acked>>

CompleteCommit(q) ==
  LET u == req[q].upload
  IN /\ At(q, "commit")
     /\ row' = [row EXCEPT ![u].status = "completed"]
     /\ track' = [track EXCEPT ![u] = IF req[q].fresh THEN "processing" ELSE "active"]
     /\ created' = [created EXCEPT ![u] = @ + 1]
     /\ End(q)
     /\ UNCHANGED <<expired, multi, object, task, cleanup, acked>>

----------------------------------------------------------------------------
(* transcode_and_upload.                                                   *)

Settle(u, status) ==
  track' = [track EXCEPT ![u] = IF @ = "none" THEN @ ELSE status]

TaskBegins(u) ==
  /\ task[u] = "queued"
  /\ IF object[u] = NoFile
     THEN task' = [task EXCEPT ![u] = "none"] /\ Settle(u, "error")
     ELSE task' = [task EXCEPT ![u] = "working"] /\ UNCHANGED track
  /\ UNCHANGED <<row, expired, multi, object, created, req, cleanup, acked>>

\* Mutant: the raw object goes whatever became of the task.
DropsAlways(u) == TRUE

\* The raw object is deleted when the transcoding went well, which it does
\* not without its track.
DropsRaw(u) == track'[u] = "active"

TaskEnds(u) ==
  /\ task[u] = "working"
  /\ task' = [task EXCEPT ![u] = "none"]
  /\ \E status \in {"active", "error"} : Settle(u, status)
  /\ \/ DropsRaw(u) /\ object' = [object EXCEPT ![u] = NoFile]
     \/ UNCHANGED object
  /\ UNCHANGED <<row, expired, multi, created, req, cleanup, acked>>

----------------------------------------------------------------------------
(* cancel, and cleanup_upload_sessions_task.                               *)

\* Errors of the store are logged.
AbortMultipart(uploads) ==
  \E gone \in SUBSET uploads :
    multi' = [u \in Upload |-> IF u \in gone /\ multi[u].state = "open"
                               THEN [multi[u] EXCEPT !.state = "aborted"] ELSE multi[u]]

CancelLoad(q, u) ==
  /\ row[u].status = "active"
  /\ Begin(q, u, 1, "abort")
  /\ UNCHANGED <<row, expired, multi, object, track, created, task, cleanup, acked>>

CancelAbort(q) ==
  /\ At(q, "abort")
  /\ AbortMultipart({req[q].upload})
  /\ Goto(q, "settle")
  /\ UNCHANGED <<row, expired, object, track, created, task, cleanup, acked>>

CancelCommit(q) ==
  /\ At(q, "settle")
  /\ row' = [row EXCEPT ![req[q].upload].status = "cancelled"]
  /\ End(q)
  /\ UNCHANGED <<expired, multi, object, track, created, task, cleanup, acked>>

Orphans == {u \in expired : row[u].status = "active"}

CleanupLoad ==
  /\ cleanup = {} /\ Orphans # {}
  /\ cleanup' = Orphans
  /\ AbortMultipart(Orphans)
  /\ UNCHANGED <<row, expired, object, track, created, task, req, acked>>

CleanupCommit ==
  /\ cleanup # {}
  /\ row' = [u \in Upload |-> IF u \in cleanup
                              THEN [row[u] EXCEPT !.status = "expired"] ELSE row[u]]
  /\ cleanup' = {}
  /\ UNCHANGED <<expired, multi, object, track, created, task, req, acked>>

CleanupDies ==
  /\ cleanup # {}
  /\ cleanup' = {}
  /\ UNCHANGED <<row, expired, multi, object, track, created, task, req, acked>>

----------------------------------------------------------------------------

RequestStep(q) == \/ InitCommit(q) \/ UploadPart(q) \/ ChunkCommit(q)
                  \/ Assemble(q) \/ Clean(q) \/ Blocked(q)
                  \/ Reject(q) \/ Finalize(q) \/ CompleteCommit(q)
                  \/ CancelAbort(q) \/ CancelCommit(q)

Next ==
  \/ \E q \in Request : RequestStep(q) \/ Crash(q)
  \/ \E q \in Request, u \in Upload :
       CreateMultipart(q, u) \/ CompleteLoad(q, u) \/ CancelLoad(q, u)
  \/ \E q \in Request, u \in Upload, c \in Chunk : ChunkLoad(q, u, c)
  \/ \E u \in Upload : Expire(u) \/ TaskBegins(u) \/ TaskEnds(u)
  \/ CleanupLoad \/ CleanupCommit \/ CleanupDies

Spec == Init /\ [][Next]_vars

\* Time passes, and one of the hourly cleanups gets through.
Fairness ==
  /\ \A u \in Upload : WF_vars(Expire(u))
  /\ WF_vars(CleanupLoad) /\ SF_vars(CleanupCommit)

FairSpec == Spec /\ Fairness

----------------------------------------------------------------------------
(* Properties.                                                             *)

\* An assembled file has all its chunks, although the rows lose some of them and
\* complete compares numbers only.
AssembledComplete == \A u \in Upload : object[u] # NoFile => object[u] = Chunk

\* However often and however concurrently complete is called, an upload becomes
\* one track: the store consumes a multipart upload once.
OneTrackPerUpload == \A u \in Upload : created[u] <= 1

\* A track that waits for its transcoding has its raw file, although the task
\* may run before the track is committed.
RawFileKept == \A u \in Upload : track[u] = "processing" => object[u] # NoFile

\* An active session ends, whatever requests, the store and the cleanup do.
SessionsEnd == \A u \in Upload : row[u].status = "active" ~> row[u].status # "active"

\* A chunk whose request succeeded is recorded in its active session.
AckedChunksKept == \A u \in Upload : row[u].status = "active" => acked[u] \subseteq row[u].parts
=============================================================================
