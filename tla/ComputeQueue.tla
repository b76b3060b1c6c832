---------------------------- MODULE ComputeQueue ----------------------------
(***************************************************************************)
(* The persistent compute-job queue: one row of compute_jobs per           *)
(* idempotency key, leased by remote workers over HTTP, recovered by a     *)
(* reaper loop that every Taskiq worker process runs, and steered by       *)
(* administrators.                                                         *)
(*                                                                         *)
(* Every handler is a database transaction at READ COMMITTED that loads    *)
(* rows with a plain SELECT and later flushes the columns it changed with  *)
(* UPDATE ... WHERE id = ?; nothing re-checks the status on that flush.    *)
(* So a handler is two steps: one that loads (Begin..., ReapSelect,        *)
(* ReapPending) and one that flushes and commits (Commit..., ReapCommit).  *)
(* Only claim_next selects with FOR UPDATE SKIP LOCKED and repeats the     *)
(* status in its WHERE clause: its select and update are one step.         *)
(*                                                                         *)
(* Time is abstract: a lease is "running" or "expired", and                *)
(* next_attempt_at is "later", "due", or "stale" (due for longer than the  *)
(* threshold of the local fallback).                                       *)
(***************************************************************************)
EXTENDS Naturals, FiniteSets

CONSTANTS
  Job,            \* idempotency keys; each one is of a job type of its own
  Worker,         \* registered remote workers
  Request,        \* concurrent HTTP requests the API serves
  Reaper,         \* Taskiq worker processes, each with a reaper loop
  None,           \* SQL NULL
  LocalJob,       \* jobs of a PREFER_WORKER type that has a local handler
  RaisingJob,     \* those among them whose local handler raises every time
  FallbackAfter,  \* the rule's fallback_to_local_after_attempts
  MaxAttempts,    \* max_attempts of the rows
  ReapLimit,      \* REAP_BATCH_LIMIT: rows that a select of the reaper returns
  AdminOps,       \* the administrative operations in use
  ClaimBound,     \* bound of the model: claims of one row
  RowBound        \* bound of the model: rows inserted for one key

AllAdminOps == {"route", "release", "purge", "pause", "drain", "revoke", "hold"}

ASSUME JobAssumption      == LocalJob \subseteq Job /\ RaisingJob \subseteq LocalJob
ASSUME NoneAssumption     == None \notin Worker
ASSUME HandlerAssumption  == Request \cap Reaper = {}
ASSUME AttemptsAssumption == /\ MaxAttempts \in Nat \ {0}
                             /\ FallbackAfter \in Nat \ {0}
ASSUME LimitAssumption    == ReapLimit \in Nat \ {0}
ASSUME AdminAssumption    == AdminOps \subseteq AllAdminOps
ASSUME BoundAssumption    == ClaimBound \in Nat /\ RowBound \in Nat

VARIABLES
  row,       \* [Job -> Row]: the table compute_jobs
  txn,       \* [Handler -> Txn]: the open transaction of each handler
  standing,  \* [Worker -> Standing]: what compute_workers says of a worker
  paused     \* the paused job types (the Redis hash bgjob:paused_tasks)

vars == <<row, txn, standing, paused>>

Handler == Request \cup Reaper

Status == {"absent", "pending", "claimed", "succeeded", "failed", "cancelled"}
Lease  == {"none", "running", "expired"}
Wait   == {"later", "due", "stale"}

Row == [id       : Nat,                    \* which insert made the row
        status   : Status,
        attempts : Nat,
        by       : Worker \cup {None},     \* claimed_by
        lease    : Lease,                  \* claim_deadline_at
        wait     : Wait,                   \* next_attempt_at
        pinned   : Worker \cup {None}]     \* pinned_worker_id

Kind == {"idle", "claim", "result", "fail", "route", "release",
         "reap_expired", "reap_pending"}

Txn == [kind   : Kind,
        who    : Worker \cup {None},
        jobs   : SUBSET Job,
        loaded : [Job -> Row]]

Standing == {"ok", "held", "revoked"}

NoRow == [id |-> 0, status |-> "absent", attempts |-> 0, by |-> None,
          lease |-> "none", wait |-> "later", pinned |-> None]

NoTxn == [kind |-> "idle", who |-> None, jobs |-> {},
          loaded |-> [j \in Job |-> NoRow]]

Terminal == {"succeeded", "failed"}     \* TERMINAL_STATUSES
Active   == {"pending", "claimed"}

TypeOK ==
  /\ row \in [Job -> Row]
  /\ txn \in [Handler -> Txn]
  /\ standing \in [Worker -> Standing]
  /\ paused \subseteq Job

Init ==
  /\ row = [j \in Job |-> NoRow]
  /\ txn = [h \in Handler |-> NoTxn]
  /\ standing = [w \in Worker |-> "ok"]
  /\ paused = {}

-----------------------------------------------------------------------------
(***************************************************************************)
(* Transactions                                                            *)
(***************************************************************************)

\* What a transaction holds after loading the rows of S.
Load(kind, who, S) ==
  [kind |-> kind, who |-> who, jobs |-> S,
   loaded |-> [j \in Job |-> IF j \in S THEN row[j] ELSE NoRow]]

\* The ORM writes a column when its new value differs from the loaded one.
Column(old, new, cur) == IF new = old THEN cur ELSE new

\* UPDATE compute_jobs SET <changed columns> WHERE id = old.id
Flush(old, new, cur) ==
  [id       |-> cur.id,
   status   |-> Column(old.status, new.status, cur.status),
   attempts |-> Column(old.attempts, new.attempts, cur.attempts),
   by       |-> Column(old.by, new.by, cur.by),
   lease    |-> Column(old.lease, new.lease, cur.lease),
   wait     |-> Column(old.wait, new.wait, cur.wait),
   pinned   |-> Column(old.pinned, new.pinned, cur.pinned)]

\* The flush of a row that was deleted meanwhile matches nothing and raises.
StillThere(h) ==
  \A j \in txn[h].jobs : /\ row[j].status # "absent"
                         /\ row[j].id = txn[h].loaded[j].id

\* Flush every loaded row j as new[j] and commit.
Commit(h, new) ==
  /\ StillThere(h)
  /\ row' = [j \in Job |->
               IF j \in txn[h].jobs THEN Flush(txn[h].loaded[j], new[j], row[j])
                                    ELSE row[j]]
  /\ txn' = [txn EXCEPT ![h] = NoTxn]

\* A rollback: the process dies, the client goes away, a local handler or the
\* flush raises, or persist_result rejects the body (422: only audited).
Abort(h) ==
  /\ txn[h].kind # "idle"
  /\ txn' = [txn EXCEPT ![h] = NoTxn]
  /\ UNCHANGED <<row, standing, paused>>

-----------------------------------------------------------------------------
(***************************************************************************)
(* What the services do to a loaded row                                    *)
(***************************************************************************)

mark_succeeded(r) == [r EXCEPT !.status = "succeeded", !.lease = "none"]

mark_terminal_failed(r) ==
  [r EXCEPT !.status = "failed", !.by = None, !.lease = "none"]

\* Variant: the deadline is left in place.
RequeueKeepingDeadline(r) ==
  [r EXCEPT !.status = "pending", !.wait = "later", !.by = None]

requeue_with_policy_backoff(r) ==
  [r EXCEPT !.status = "pending", !.wait = "later", !.by = None,
            !.lease = "none"]

FallsBack(j, r) == j \in LocalJob /\ r.attempts >= FallbackAfter

\* Variant: one attempt too many.
ExhaustedTooLate(r) == r.attempts > MaxAttempts

Exhausted(r) == r.attempts >= MaxAttempts

handle_worker_failure(j, r, deadTrack) ==
  CASE deadTrack                     -> mark_terminal_failed(r)
    [] ~deadTrack /\ FallsBack(j, r) -> mark_succeeded(r)
    [] OTHER                         -> IF Exhausted(r)
                                          THEN mark_terminal_failed(r)
                                          ELSE requeue_with_policy_backoff(r)

\* No local handler the transaction has to run raises.
HandlersReturn(h) ==
  \A j \in txn[h].jobs \cap RaisingJob :
    txn[h].loaded[j].status = "claimed" /\ ~FallsBack(j, txn[h].loaded[j])

\* The reaper treats what it loaded as claimed as a worker failure, and runs
\* the local handler of what it loaded as pending.
Reaped(j, r) == IF r.status = "claimed" THEN handle_worker_failure(j, r, FALSE)
                                        ELSE mark_succeeded(r)

-----------------------------------------------------------------------------
(***************************************************************************)
(* Producers                                                               *)
(***************************************************************************)

\* enqueue: a repeated key returns the existing row, whatever its status; of
\* two racing inserts the unique constraint lets one through and the other
\* caller re-reads, so select and insert are one step. A paused type is no
\* bar: dispatch_compute_job looks before it calls enqueue, other producers
\* do not.
enqueue(j) ==
  /\ row[j].status = "absent"
  /\ row[j].id < RowBound
  /\ \E wait \in {"later", "due"} :     \* delay_seconds
       row' = [row EXCEPT ![j] = [NoRow EXCEPT !.id = row[j].id + 1,
                                               !.status = "pending",
                                               !.wait = wait]]
  /\ UNCHANGED <<txn, standing, paused>>

-----------------------------------------------------------------------------
(***************************************************************************)
(* Worker requests                                                         *)
(***************************************************************************)

\* POST /jobs/claim up to the reads of the paused types and of the worker. If
\* Redis fails, no type reads as paused.
BeginClaim(h, w) ==
  /\ txn[h].kind = "idle"
  /\ standing[w] = "ok"
  /\ \E seen \in {paused, {}} :
       txn' = [txn EXCEPT ![h] = [NoTxn EXCEPT !.kind = "claim", !.who = w,
                                                !.jobs = Job \ seen]]
  /\ UNCHANGED <<row, standing, paused>>

\* Variant: the row is not checked again when it is updated.
EligibleUnchecked(h) ==
  {j \in txn[h].jobs : /\ row[j].status \in Active
                       /\ row[j].wait \in {"due", "stale"}
                       /\ row[j].pinned \in {None, txn[h].who}}

Eligible(h) ==
  {j \in txn[h].jobs : /\ row[j].status = "pending"
                       /\ row[j].wait \in {"due", "stale"}
                       /\ row[j].pinned \in {None, txn[h].who}}

\* The locking select, the update and the commit. Any eligible row may be the
\* one: the order by priority is left open, as SKIP LOCKED may pass over the
\* first rows.
claim_next(h, j) ==
  /\ txn[h].kind = "claim"
  /\ j \in Eligible(h)
  /\ row[j].attempts < ClaimBound
  /\ row' = [row EXCEPT ![j] = [row[j] EXCEPT !.status = "claimed",
                                               !.pinned = None,
                                               !.by = txn[h].who,
                                               !.lease = "running",
                                               !.attempts = row[j].attempts + 1]]
  /\ txn' = [txn EXCEPT ![h] = NoTxn]
  /\ UNCHANGED <<standing, paused>>

\* 204: nothing to claim.
ClaimEmpty(h) ==
  /\ txn[h].kind = "claim"
  /\ Eligible(h) = {}
  /\ txn' = [txn EXCEPT ![h] = NoTxn]
  /\ UNCHANGED <<row, standing, paused>>

\* Variant: a settled job is not refused.
ReportableByFormerOwner(w, j) == row[j].by = w

\* 404 unless claimed_by is the caller, 409 unless claimed; the deadline is not
\* looked at.
Reportable(w, j) == row[j].by = w /\ row[j].status = "claimed"

\* POST /jobs/{id}/result or /fail up to the guards. An error body on /result
\* goes the way of /fail.
BeginReport(h, w, j, kind) ==
  /\ txn[h].kind = "idle"
  /\ standing[w] # "revoked"             \* verify_worker_hmac_request
  /\ Reportable(w, j)
  /\ txn' = [txn EXCEPT ![h] = Load(kind, w, {j})]
  /\ UNCHANGED <<row, standing, paused>>

CommitResult(h) ==
  /\ txn[h].kind = "result"
  /\ Commit(h, [j \in Job |-> mark_succeeded(txn[h].loaded[j])])
  /\ UNCHANGED <<standing, paused>>

\* A local handler that raises ends in Abort instead.
CommitFail(h, deadTrack) ==
  /\ txn[h].kind = "fail"
  /\ ~deadTrack => HandlersReturn(h)
  /\ Commit(h, [j \in Job |->
                  handle_worker_failure(j, txn[h].loaded[j], deadTrack)])
  /\ UNCHANGED <<standing, paused>>

-----------------------------------------------------------------------------
(***************************************************************************)
(* The reaper                                                              *)
(***************************************************************************)

\* Variant: the deadline is compared the wrong way round.
RunningClaims ==
  {j \in Job : row[j].status = "claimed" /\ row[j].lease = "running"}

ExpiredClaims ==
  {j \in Job : row[j].status = "claimed" /\ row[j].lease = "expired"}

\* What SELECT ... ORDER BY <age> LIMIT 100 may return of S: how old rows are is not
\* kept, so which of them are the oldest is left open.
Oldest(S) == {T \in SUBSET S : \/ T = S /\ Cardinality(S) <= ReapLimit
                               \/ Cardinality(T) = ReapLimit}

\* Pending rows that have been due for a minute, local ones or not. What the session
\* has handled it has settled or put off.
OverdueRows(p) ==
  {j \in Job \ txn[p].jobs : row[j].status = "pending" /\ row[j].wait \in {"due", "stale"}}

\* Variant: only rows that workers have failed before.
StaleAfterFailures(window) ==
  {j \in LocalJob \cap window : row[j].wait = "stale" /\ row[j].attempts >= FallbackAfter}

\* The loop passes over the other rows of the window, which stay in it.
StalePending(window) == {j \in LocalJob \cap window : row[j].wait = "stale"}

\* A row counts as overdue a minute after it is due.
Windows(p) ==
  UNION {Oldest(S) : S \in {T \in SUBSET OverdueRows(p) : StalePending(OverdueRows(p)) \subseteq T}}

\* reap_once: the select of expired claims.
ReapSelect(p) ==
  /\ txn[p].kind = "idle"
  /\ \E S \in Oldest(ExpiredClaims) :
       txn' = [txn EXCEPT ![p] = Load("reap_expired", None, S)]
  /\ UNCHANGED <<row, standing, paused>>

\* The expired claims are handled (in memory and flushed, not committed), then
\* overdue pending rows are selected. Rows the session already holds are not loaded
\* again.
ReapPending(p) ==
  /\ txn[p].kind = "reap_expired"
  /\ HandlersReturn(p)
  /\ \E window \in Windows(p) :
       LET stale == StalePending(window)
       IN  txn' = [txn EXCEPT ![p] =
                     [kind   |-> "reap_pending",
                      who    |-> None,
                      jobs   |-> txn[p].jobs \cup stale,
                      loaded |-> [j \in Job |-> IF j \in stale THEN row[j]
                                                              ELSE txn[p].loaded[j]]]]
  /\ UNCHANGED <<row, standing, paused>>

\* The stale pending rows run their local handlers; one commit ends the pass.
ReapCommit(p) ==
  /\ txn[p].kind = "reap_pending"
  /\ HandlersReturn(p)
  /\ Commit(p, [j \in Job |-> Reaped(j, txn[p].loaded[j])])
  /\ UNCHANGED <<standing, paused>>

-----------------------------------------------------------------------------
(***************************************************************************)
(* Administration                                                          *)
(***************************************************************************)

\* update_generic_compute_job_routing up to its guards.
BeginRouting(h, j, pin, kind) ==
  /\ kind \in AdminOps
  /\ txn[h].kind = "idle"
  /\ row[j].status \notin Terminal \cup {"absent"}
  /\ pin # None => standing[pin] # "revoked"
  /\ txn' = [txn EXCEPT ![h] = Load(kind, pin, {j})]
  /\ UNCHANGED <<row, standing, paused>>

Routed(r, pin, release) ==
  IF release /\ r.status = "claimed"
    THEN [r EXCEPT !.pinned = pin, !.status = "pending", !.by = None,
                   !.lease = "none"]
    ELSE [r EXCEPT !.pinned = pin]

CommitRouting(h) ==
  /\ txn[h].kind \in {"route", "release"}
  /\ Commit(h, [j \in Job |-> Routed(txn[h].loaded[j], txn[h].who,
                                      txn[h].kind = "release")])
  /\ UNCHANGED <<standing, paused>>

\* purge_compute_jobs_endpoint: one DELETE by status and age.
purge(j) ==
  /\ "purge" \in AdminOps
  /\ row[j].status \in {"pending", "failed", "succeeded"}
  /\ row' = [row EXCEPT ![j] = [NoRow EXCEPT !.id = row[j].id]]
  /\ UNCHANGED <<txn, standing, paused>>

pause_task(j) ==
  /\ "pause" \in AdminOps
  /\ paused' = paused \cup {j}
  /\ UNCHANGED <<row, txn, standing>>

resume_task(j) ==
  /\ {"pause", "drain"} \cap AdminOps # {}
  /\ paused' = paused \ {j}
  /\ UNCHANGED <<row, txn, standing>>

\* The values drain_task writes; next_attempt_at is a NOT NULL column.
Drained(r) == [r EXCEPT !.status = "cancelled", !.wait = "null", !.lease = "none"]

\* Variant: the column may be NULL.
Nullable(r) == TRUE

NotNull(r) == r.wait # "null"

\* The pause endpoint with drain=true: pause, then one UPDATE of the active
\* rows of the type. A statement that breaks a constraint changes nothing.
pause_and_drain(j) ==
  /\ "drain" \in AdminOps
  /\ paused' = paused \cup {j}
  /\ row' = IF row[j].status \in Active /\ NotNull(Drained(row[j]))
              THEN [row EXCEPT ![j] = Drained(@)]
              ELSE row
  /\ UNCHANGED <<txn, standing>>

\* Revoking a worker leaves its compute jobs to their leases.
revoke_worker(w) ==
  /\ "revoke" \in AdminOps
  /\ standing[w] # "revoked"
  /\ standing' = [standing EXCEPT ![w] = "revoked"]
  /\ UNCHANGED <<row, txn, paused>>

pause_worker_claims(w) ==
  /\ "hold" \in AdminOps
  /\ standing[w] # "revoked"
  /\ standing' = [standing EXCEPT ![w] = "held"]
  /\ UNCHANGED <<row, txn, paused>>

\* By an administrator, or because claims_paused_until has passed.
resume_worker_claims(w) ==
  /\ standing[w] = "held"
  /\ standing' = [standing EXCEPT ![w] = "ok"]
  /\ UNCHANGED <<row, txn, paused>>

-----------------------------------------------------------------------------
(***************************************************************************)
(* The clock                                                               *)
(***************************************************************************)

LeaseExpires(j) ==
  /\ row[j].lease = "running"
  /\ row' = [row EXCEPT ![j].lease = "expired"]
  /\ UNCHANGED <<txn, standing, paused>>

WaitElapses(j) ==
  /\ row[j].status \in Active
  /\ \/ /\ row[j].wait = "later"
        /\ row' = [row EXCEPT ![j].wait = "due"]
     \/ /\ row[j].wait = "due"
        /\ j \in LocalJob                  \* read for these types only
        /\ row' = [row EXCEPT ![j].wait = "stale"]
  /\ UNCHANGED <<txn, standing, paused>>

-----------------------------------------------------------------------------

WorkerRequest(h) ==
  \/ \E w \in Worker : BeginClaim(h, w)
  \/ \E j \in Job : claim_next(h, j)
  \/ ClaimEmpty(h)
  \/ \E w \in Worker, j \in Job, kind \in {"result", "fail"} :
       BeginReport(h, w, j, kind)
  \/ CommitResult(h)
  \/ \E deadTrack \in BOOLEAN : CommitFail(h, deadTrack)

RoutingRequest(h) ==
  \/ \E j \in Job, pin \in Worker \cup {None}, kind \in {"route", "release"} :
       BeginRouting(h, j, pin, kind)
  \/ CommitRouting(h)

ReaperPass(p) == ReapSelect(p) \/ ReapPending(p) \/ ReapCommit(p)

Administration ==
  \/ \E j \in Job : purge(j) \/ pause_task(j) \/ resume_task(j) \/ pause_and_drain(j)
  \/ \E w \in Worker : \/ revoke_worker(w)
                       \/ pause_worker_claims(w)
                       \/ resume_worker_claims(w)

Clock == \E j \in Job : LeaseExpires(j) \/ WaitElapses(j)

Next ==
  \/ \E j \in Job : enqueue(j)
  \/ \E h \in Request : WorkerRequest(h) \/ RoutingRequest(h)
  \/ \E p \in Reaper : ReaperPass(p)
  \/ \E h \in Handler : Abort(h)
  \/ Administration
  \/ Clock

Spec == Init /\ [][Next]_vars

-----------------------------------------------------------------------------
(***************************************************************************)
(* Safety                                                                  *)
(***************************************************************************)

Consistent(r) ==
  /\ r.status \in {"absent", "pending", "failed"} => r.by = None /\ r.lease = "none"
  /\ r.status = "claimed" => r.by # None /\ r.lease # "none" /\ r.wait # "later"

\* However the blind flushes of workers, reapers and administrators overlap, a
\* claimed row names its worker and carries a deadline (so that the reaper can
\* find it), and a row given back names nobody (so that its former worker gets
\* 404): claimed_by, claim_deadline_at and status never drift apart.
ClaimFieldsAgree == \A j \in Job : Consistent(row[j])

BecomesOwned(j) ==
  row'[j].status = "claimed" /\ <<row'[j].status, row'[j].by>> # <<row[j].status, row[j].by>>

\* Nothing but claim_next makes a worker the owner of a row: it does so when
\* the row is pending at that moment and counts the attempt, and no flush of a
\* stale copy ever takes an attempt back.
OneOwnerPerAttempt ==
  [][\A j \in Job :
       row'[j].id = row[j].id /\ row'[j].status # "absent" =>
         IF BecomesOwned(j)
           THEN /\ row[j].status = "pending"
                /\ row'[j].attempts = row[j].attempts + 1
           ELSE row'[j].attempts = row[j].attempts]_vars

-----------------------------------------------------------------------------
(***************************************************************************)
(* Handlers that do not overlap                                            *)
(***************************************************************************)

\* What the transaction loaded is still what the table says.
Fresh(h) ==
  \A j \in txn[h].jobs :
    LET old == txn[h].loaded[j]
    IN  <<row[j].id, row[j].status, row[j].by, row[j].attempts>>
          = <<old.id, old.status, old.by, old.attempts>>

Flushes(h) ==
  /\ txn[h].kind \in Kind \ {"idle", "claim"}
  /\ txn'[h].kind = "idle"
  /\ row' # row

\* The behaviours in which no handler flushes over a row that changed after it
\* was loaded.
SerialNext == Next /\ \A h \in Handler : Flushes(h) => Fresh(h)

SerialSpec == Init /\ [][SerialNext]_vars

Lifecycle == INSTANCE JobLifecycle
               WITH state <- [j \in Job |-> row[j].status],
                    owner <- [j \in Job |-> row[j].by]

\* Without overlapping flushes the queue keeps the promise of JobLifecycle: a
\* settled job stays settled, and only pending jobs are leased.
ImplementsLifecycle == Lifecycle!Spec

\* Without overlapping flushes, and without releases by administrators, no row
\* is handed out more than max_attempts times before it settles.
AttemptsBounded == \A j \in Job : row[j].attempts <= MaxAttempts

-----------------------------------------------------------------------------
(***************************************************************************)
(* Liveness                                                                *)
(***************************************************************************)

Clockwork == \A j \in Job : WF_vars(LeaseExpires(j)) /\ WF_vars(WaitElapses(j))

\* The pass of a reaper that cannot reach its commit.
PassRaises(p) == ~(HandlersReturn(p) /\ StillThere(p)) /\ Abort(p)

\* run_forever starts pass after pass and survives the exceptions of a pass; a
\* worker process may be restarted in the middle of passes, not of all of them.
ReapersRun ==
  \A p \in Reaper : /\ WF_vars(ReapSelect(p))
                    /\ SF_vars(ReapPending(p))
                    /\ SF_vars(ReapCommit(p))
                    /\ WF_vars(PassRaises(p))

FairSpec == Spec /\ Clockwork /\ ReapersRun

\* A lease that expires ends: the worker's late report, the reaper or an
\* administrator takes the row out of the expired claim. Jobs whose own handler
\* raises are exempt; they must not keep the others waiting.
ExpiredClaimsEnd ==
  \A j \in Job \ RaisingJob :
    row[j].status = "claimed" /\ row[j].lease = "expired"
      ~> ~(row[j].status = "claimed" /\ row[j].lease = "expired")

\* Pending rows that no pass of the reaper takes out of its window.
LeftInWindow == {j \in Job \ LocalJob : row[j].status = "pending"
                                       /\ row[j].wait \in {"due", "stale"}}

\* A job of a PREFER_WORKER type settles even if no worker ever reports: it is
\* claimed until it falls back, or ages until the reaper runs it. What can keep it
\* waiting for ever is a full window of older rows that only a worker can take.
LocalJobsSettle ==
  \A j \in LocalJob :
    \/ []<>(row[j].status \notin Active)
    \/ []<>(Cardinality(LeftInWindow) >= ReapLimit)

-----------------------------------------------------------------------------
(***************************************************************************)
(* What the documentation says                                             *)
(***************************************************************************)

\* "compute_jobs matching job_type == task_name AND status in (pending, claimed)
\* are set directly to cancelled" (task_pause_service.py:144).
DrainCancels ==
  [][\A j \in Job : pause_and_drain(j) => row'[j].status \notin Active]_vars

=============================================================================
