--------------------------- MODULE LyricsCascade ---------------------------
(***************************************************************************)
(* Lyrics jobs and their cascade of tiers: a catalog search and a paid     *)
(* recognition, each a Taskiq task, and remote workers that claim jobs over*)
(* HTTP. When a tier fails or finds nothing the job moves to the next one. *)
(*                                                                         *)
(* A session loads the row of a job, decides, kicks the task of the next   *)
(* tier and commits afterwards; it writes the attributes whose value       *)
(* differs from the one it loaded, without asking whether they still have  *)
(* that value. A task keeps its session open while it works.               *)
(***************************************************************************)
EXTENDS Naturals, Sequences

CONSTANTS
  Job,         \* ids of rows of lyrics_jobs
  Worker,      \* registered remote workers
  Request,     \* concurrent HTTP requests
  Reaper,      \* runs of the lease reaper
  Executor,    \* Taskiq worker processes, each executing one task at a time
  Plan,        \* the tiers in the order in which they are tried
  None,        \* SQL NULL
  AdminOps,    \* the administrative operations in use
  Faults,      \* which faults occur: "rollback", "crash", "return"
  FaultBound   \* bound on faults

TaskTier == {"catalog", "speechkit"}
Tier     == TaskTier \cup {"remote"}

ASSUME JobAssumption     == Job # {}
ASSUME PlanAssumption    == /\ Plan \in Seq(Tier)
                            /\ \A i, k \in DOMAIN Plan : Plan[i] = Plan[k] => i = k
ASSUME NoneAssumption    == None \notin Worker \cup Tier
ASSUME HandlerAssumption == Request \cap Reaper = {} /\ (Request \cup Reaper) \cap Executor = {}
ASSUME BoundAssumption   == FaultBound \in Nat

Handler == Request \cup Reaper \cup Executor

VARIABLES
  row,      \* [Job -> Row]: the table lyrics_jobs
  revoked,  \* the workers whose row says so
  msgs,     \* [Job -> [TaskTier -> Nat]]: tasks kicked and not begun
  tx,       \* [Handler -> Tx]: the open sessions
  faults,   \* faults that may still come
  paid,     \* [Job -> Nat]: how often the paid task was kicked
  excuses   \* [Job -> SUBSET Excuse]: what has happened to a job

vars == <<row, revoked, msgs, tx, faults, paid, excuses>>

Status   == {"absent", "queued", "running", "done", "failed", "cancelled"}
Finished == {"done", "failed", "cancelled"}

\* worker is routed_to_worker, lease is deadline_at, tried the tiers in
\* tier_attempts; profile is a function of the tier.
Row == [status : Status, tier : Tier \cup {None}, worker : Worker \cup {None},
        pinned : Worker \cup {None}, lease : {"none", "running", "expired"},
        tried : SUBSET Tier]

\* working: a task that has not yet come to its end; ready: flushed, the next
\* task kicked, not committed.
Tx == [at : {"idle", "working", "ready"},
       kind : {"none", "start", "result", "advance", "route", "cancel", "catalog", "speechkit"},
       job : Job, seen : BOOLEAN, loaded : Row, new : Row]

\* overtaken: a commit over a row that had changed since it was loaded; revived:
\* such a commit by a session that had found the job finished;
\* concurrent: a paid task kicked while another session had kicked a task;
\* early: a task that began before the session that kicked it committed.
Excuse == {"overtaken", "revived", "concurrent", "early", "rollback", "crash", "return"}

NoRow == [status |-> "absent", tier |-> None, worker |-> None, pinned |-> None,
          lease |-> "none", tried |-> {}]
NoTx  == [at |-> "idle", kind |-> "none", job |-> CHOOSE j \in Job : TRUE,
          seen |-> FALSE, loaded |-> NoRow, new |-> NoRow]

TypeOK ==
  /\ row \in [Job -> Row]
  /\ revoked \subseteq Worker
  /\ msgs \in [Job -> [TaskTier -> Nat]]
  /\ tx \in [Handler -> Tx]
  /\ faults \in 0..FaultBound
  /\ paid \in [Job -> Nat]
  /\ excuses \in [Job -> SUBSET Excuse]

Init ==
  /\ row = [j \in Job |-> NoRow]
  /\ revoked = {}
  /\ msgs = [j \in Job |-> [t \in TaskTier |-> 0]]
  /\ tx = [h \in Handler |-> NoTx]
  /\ faults = FaultBound
  /\ paid = [j \in Job |-> 0]
  /\ excuses = [j \in Job |-> {}]

----------------------------------------------------------------------------
(* What sessions have in common.                                           *)

At(h, stage) == tx[h].at = stage
End(h)       == tx' = [tx EXCEPT ![h] = NoTx]

Fault(kind) == kind \in Faults /\ faults > 0 /\ faults' = faults - 1

Excused(j, whys) == excuses' = [excuses EXCEPT ![j] = @ \cup whys]

Ready(h, kind, j, new) ==
  tx' = [tx EXCEPT ![h] = [at |-> "ready", kind |-> kind, job |-> j, seen |-> TRUE,
                           loaded |-> row[j], new |-> new]]

\* The sessions that moved the job to another tier and have not committed.
Advancing(j) == {h \in Handler : /\ At(h, "ready") /\ tx[h].job = j
                                 /\ tx[h].new.tried # tx[h].loaded.tried}

----------------------------------------------------------------------------
(* _advance_to_next_tier and _dispatch_to_tier.                            *)

Left(tried) == {i \in DOMAIN Plan : Plan[i] \notin tried}

\* Every tier but the catalog may refuse: the track is gone, the budget spent.
Refuses(i) == Plan[i] # "catalog"

\* Where the job may go: to Plan[i], or past the end of the plan.
Targets(tried) == {i \in Left(tried) \cup {Len(Plan) + 1} :
                     \A k \in Left(tried) : k < i => Refuses(k)}

Past(tried, i) == {k \in Left(tried) : k <= i}

\* Mutant: tier_attempts begins anew with every dispatch.
LastTried(tried, past) == {Plan[k] : k \in past}

AllTried(tried, past) == tried \cup {Plan[k] : k \in past}

\* A tier that refuses is dispatched to as well; end is the status when none is
\* left.
Moved(old, i, end) ==
  LET past == Past(old.tried, i)
  IN [status |-> IF i \in DOMAIN Plan THEN "queued" ELSE end,
      tier   |-> IF past = {} THEN old.tier
                 ELSE Plan[CHOOSE k \in past : \A l \in past : l <= k],
      worker |-> IF past = {} THEN old.worker ELSE None,
      pinned |-> IF past = {} THEN old.pinned ELSE None,
      lease  |-> IF past = {} THEN old.lease ELSE "none",
      tried  |-> AllTried(old.tried, past)]

\* Mutant: the paid tier is thought to be polled for like the remote one.
HasTaskUnpaid(i) == i \in DOMAIN Plan /\ Plan[i] = "catalog"

HasTask(i) == i \in DOMAIN Plan /\ Plan[i] \in TaskTier

\* The task of the tier is kicked before the commit.
Kick(j, i) ==
  /\ msgs' = IF HasTask(i) THEN [msgs EXCEPT ![j][Plan[i]] = @ + 1] ELSE msgs
  /\ IF i \in DOMAIN Plan /\ Plan[i] = "speechkit"
     THEN /\ paid' = [paid EXCEPT ![j] = @ + 1]
          /\ Excused(j, IF Advancing(j) # {} THEN {"concurrent"} ELSE {})
     ELSE UNCHANGED <<paid, excuses>>

----------------------------------------------------------------------------
(* The end of a session.                                                   *)

Flush(now, loaded, new) == IF new = loaded THEN now ELSE new

\* Who closes the last entry of tier_attempts, unless it is closed, or appends one
\* writes the whole list.
LeavesAttempts(t) ==
  \/ t.kind = "cancel"
  \/ t.kind = "route" /\ t.loaded.status = "queued"
  \/ t.new.tried = t.loaded.tried /\ t.loaded.status \in {"done", "failed"}

Flushed(now, t) ==
  [status |-> Flush(now.status, t.loaded.status, t.new.status),
   tier   |-> Flush(now.tier, t.loaded.tier, t.new.tier),
   worker |-> Flush(now.worker, t.loaded.worker, t.new.worker),
   pinned |-> Flush(now.pinned, t.loaded.pinned, t.new.pinned),
   lease  |-> Flush(now.lease, t.loaded.lease, t.new.lease),
   tried  |-> IF LeavesAttempts(t) THEN now.tried ELSE t.new.tried]

\* The passing of a deadline changes nothing in the row.
Overtaken(h) ==
  LET loaded == tx[h].loaded
  IN [row[tx[h].job] EXCEPT !.lease = loaded.lease] # loaded

Commit(h) ==
  LET j == tx[h].job
  IN /\ At(h, "ready")
     /\ row' = [row EXCEPT ![j] = Flushed(@, tx[h])]
     /\ Excused(j, IF ~Overtaken(h) THEN {}
                   ELSE IF tx[h].loaded.status \in Finished THEN {"overtaken", "revived"}
                   ELSE {"overtaken"})
     /\ End(h)
     /\ UNCHANGED <<revoked, msgs, faults, paid>>

\* The request is cancelled, the reaper dies or the database fails.
Rollback(h) ==
  /\ h \notin Executor /\ ~At(h, "idle")
  /\ Fault("rollback")
  /\ Excused(tx[h].job, {"rollback"})
  /\ End(h)
  /\ UNCHANGED <<row, revoked, msgs, paid>>

----------------------------------------------------------------------------
(* trigger_auto_generation, enqueue_background_lyrics: start_cascade.      *)

Start(h, j) ==
  /\ At(h, "idle")
  /\ row[j].status = "absent"
  /\ \A o \in Handler : At(o, "idle") \/ tx[o].job # j
  /\ msgs[j] = [t \in TaskTier |-> 0]
  /\ \E skipped \in SUBSET {"catalog"} : \E i \in Targets(skipped) :
       /\ Ready(h, "start", j, Moved([NoRow EXCEPT !.tried = skipped], i, "failed"))
       /\ Kick(j, i)
  /\ UNCHANGED <<row, revoked, faults>>

----------------------------------------------------------------------------
(* Remote workers: claim_next_job, job_result, job_fail.                   *)

\* Mutant: the deadline is left to the first heartbeat.
ClaimedWithoutLease(old, w) == [old EXCEPT !.status = "running", !.worker = w, !.pinned = None]

Claimed(old, w) ==
  [old EXCEPT !.status = "running", !.worker = w, !.pinned = None, !.lease = "running"]

\* The select locks the row and the update asks for its status again.
Claim(w, j) ==
  /\ w \notin revoked
  /\ row[j].status = "queued" /\ row[j].tier = "remote"
  /\ row[j].pinned \in {None, w}
  /\ row' = [row EXCEPT ![j] = Claimed(@, w)]
  /\ UNCHANGED <<revoked, msgs, tx, faults, paid, excuses>>

Result(h, w, j) ==
  /\ At(h, "idle") /\ w \notin revoked
  /\ row[j].worker = w /\ row[j].status \in {"running", "queued"}
  /\ Ready(h, "result", j, [row[j] EXCEPT !.status = "done"])
  /\ UNCHANGED <<row, revoked, msgs, faults, paid, excuses>>

Advance(h, j) ==
  \E i \in Targets(row[j].tried) :
    /\ Ready(h, "advance", j, Moved(row[j], i, "failed"))
    /\ Kick(j, i)

\* A failure is taken whatever the status of the job is.
Fail(h, w, j) ==
  /\ At(h, "idle") /\ w \notin revoked
  /\ row[j].worker = w
  /\ Advance(h, j)
  /\ UNCHANGED <<row, revoked, faults>>

\* Time only matters to running jobs.
LeaseExpires(j) ==
  /\ row[j].status = "running" /\ row[j].lease = "running"
  /\ row' = [row EXCEPT ![j].lease = "expired"]
  /\ UNCHANGED <<revoked, msgs, tx, faults, paid, excuses>>

\* Mutant: the jobs of a revoked worker are left to its revocation.
ExpiredOfOthers(j) == /\ row[j].status = "running" /\ row[j].lease = "expired"
                      /\ row[j].worker \notin revoked

Expired(j) == row[j].status = "running" /\ row[j].lease = "expired"

\* reap_once; the jobs of one pass have nothing to do with one another.
Reap(p, j) ==
  /\ At(p, "idle")
  /\ Expired(j)
  /\ Advance(p, j)
  /\ UNCHANGED <<row, revoked, faults>>

----------------------------------------------------------------------------
(* The tasks: catalog_only_lyrics_task, speechkit_lyrics_task.             *)

\* Mutant: a message is delivered once too often.
DeliveredAgain(j, t) == msgs[j][t] >= 0

Delivered(j, t) == msgs[j][t] > 0

\* A task that does not find the row works without it.
Receive(e, j, t) ==
  /\ At(e, "idle")
  /\ Delivered(j, t)
  /\ msgs' = [msgs EXCEPT ![j][t] = @ - 1]
  /\ tx' = [tx EXCEPT ![e] = [at |-> "working", kind |-> t, job |-> j,
                              seen |-> row[j].status # "absent",
                              loaded |-> row[j], new |-> row[j]]]
  /\ Excused(j, IF Advancing(j) # {} THEN {"early"} ELSE {})
  /\ UNCHANGED <<row, revoked, faults, paid>>

\* Lyrics found, or a miss that ends the job.
TaskFinds(e) ==
  /\ At(e, "working")
  /\ IF tx[e].seen
     THEN tx' = [tx EXCEPT ![e].at = "ready", ![e].new = [@ EXCEPT !.status = "done"]]
     ELSE End(e)
  /\ UNCHANGED <<row, revoked, msgs, faults, paid, excuses>>

\* Nothing found, no timing or an exception. A catalog miss that no tier takes
\* on is done, not failed.
TaskMisses(e) ==
  /\ At(e, "working")
  /\ IF tx[e].seen
     THEN \E i \in Targets(tx[e].loaded.tried),
             end \in {"failed"} \cup (IF tx[e].kind = "catalog" THEN {"done"} ELSE {}) :
            /\ tx' = [tx EXCEPT ![e].at = "ready", ![e].new = Moved(tx[e].loaded, i, end)]
            /\ Kick(tx[e].job, i)
     ELSE End(e) /\ UNCHANGED <<msgs, paid, excuses>>
  /\ UNCHANGED <<row, revoked, faults>>

\* The track is inactive or its audio cannot be had: the job is left as it is.
TaskReturns(e) ==
  /\ At(e, "working")
  /\ Fault("return")
  /\ Excused(tx[e].job, {"return"})
  /\ End(e)
  /\ UNCHANGED <<row, revoked, msgs, paid>>

TaskDies(e) ==
  /\ e \in Executor /\ ~At(e, "idle")
  /\ Fault("crash")
  /\ Excused(tx[e].job, {"crash"})
  /\ End(e)
  /\ UNCHANGED <<row, revoked, msgs, paid>>

----------------------------------------------------------------------------
(* Administrators.                                                         *)

\* update_lyrics_job_routing: a running job is taken from its worker.
Route(h, j, pin) ==
  /\ "route" \in AdminOps
  /\ At(h, "idle") /\ pin \notin revoked
  /\ \/ row[j].status = "queued"
     \/ row[j].status = "running" /\ row[j].worker # None
  /\ Ready(h, "route", j,
       IF row[j].status = "queued" THEN [row[j] EXCEPT !.pinned = pin]
       ELSE [row[j] EXCEPT !.status = "queued", !.worker = None, !.pinned = pin,
                           !.lease = "none"])
  /\ UNCHANGED <<row, revoked, msgs, faults, paid, excuses>>

\* cancel_lyrics_job_for_admin
Cancel(h, j) ==
  /\ "cancel" \in AdminOps
  /\ At(h, "idle")
  /\ row[j].status \in {"queued", "running"}
  /\ Ready(h, "cancel", j, [row[j] EXCEPT !.status = "cancelled"])
  /\ UNCHANGED <<row, revoked, msgs, faults, paid, excuses>>

Revoke(w) ==
  /\ "revoke" \in AdminOps
  /\ w \notin revoked
  /\ revoked' = revoked \cup {w}
  /\ UNCHANGED <<row, msgs, tx, faults, paid, excuses>>

\* fallback_jobs_for_revoked_worker, after the worker's row was committed.
Fallback(h, w, j) ==
  /\ At(h, "idle") /\ w \in revoked
  /\ row[j].worker = w /\ row[j].status = "running"
  /\ Advance(h, j)
  /\ UNCHANGED <<row, revoked, faults>>

----------------------------------------------------------------------------

TaskStep(e) == TaskFinds(e) \/ TaskMisses(e)

Next ==
  \/ \E h \in Handler : Commit(h) \/ Rollback(h)
  \/ \E h \in Request, j \in Job : Start(h, j) \/ Cancel(h, j)
  \/ \E h \in Request, j \in Job, pin \in Worker \cup {None} : Route(h, j, pin)
  \/ \E h \in Request, w \in Worker, j \in Job :
       Result(h, w, j) \/ Fail(h, w, j) \/ Fallback(h, w, j)
  \/ \E w \in Worker, j \in Job : Claim(w, j)
  \/ \E w \in Worker : Revoke(w)
  \/ \E j \in Job : LeaseExpires(j)
  \/ \E p \in Reaper, j \in Job : Reap(p, j)
  \/ \E e \in Executor, j \in Job, t \in TaskTier : Receive(e, j, t)
  \/ \E e \in Executor : TaskStep(e) \/ TaskReturns(e) \/ TaskDies(e)

Spec == Init /\ [][Next]_vars

\* Tasks are received and end, sessions come to their commit and leases, which nobody
\* extends, expire. Nothing in the repository runs the reaper: the interval of its
\* module is one that an operator or a schedule of theirs may keep.
Fairness ==
  /\ \A h \in Handler \ Executor : WF_vars(Commit(h))
  /\ \A e \in Executor : WF_vars(TaskStep(e) \/ Commit(e))
  /\ \A j \in Job :
       /\ WF_vars(LeaseExpires(j))
       /\ SF_vars(\E e \in Executor, t \in TaskTier : Receive(e, j, t))

FairSpec == Spec /\ Fairness

----------------------------------------------------------------------------
(* Properties.                                                             *)

\* A running job has a worker and a deadline, whatever was flushed over it, unless
\* a session that had found it finished put it back to work over a newer row: the
\* reaper looks for jobs with a deadline only.
RunningHasLease ==
  \A j \in Job :
    row[j].status = "running" =>
      \/ row[j].worker # None /\ row[j].lease # "none"
      \/ "revived" \in excuses[j]

Works(h, j) == ~At(h, "idle") /\ tx[h].job = j

\* A job that waits for a task has one: in the list, at work or about to commit.
\* Nothing else would ever look at it.
NoJobForgotten ==
  \A j \in Job :
    row[j].status = "queued" /\ row[j].tier \in TaskTier =>
      \/ msgs[j][row[j].tier] > 0
      \/ \E e \in Executor : Works(e, j)
      \/ excuses[j] \cap {"overtaken", "early", "crash", "return"} # {}

\* The paid recognition is asked for once, unless sessions got into each other's
\* way or a session kicked the task and did not commit.
PaidOnce ==
  \A j \in Job :
    paid[j] <= 1 \/ excuses[j] \cap {"overtaken", "concurrent", "early", "rollback", "crash"} # {}

Waits(j) == \/ row[j].status \in Finished \cup {"absent"}
            \/ row[j].status = "queued" /\ row[j].tier = "remote"
            \/ excuses[j] # {}

\* Somebody runs the reaper as often as a job is there for it.
ReaperIsRun(j) == SF_vars(\E p \in Reaper : Reap(p, j))

\* A job that neither ends nor waits for a worker to claim it has a worker whose
\* lease is over, again and again, and where the reaper is run every job ends or
\* waits for a worker, again and again.
JobsMoveOn ==
  \A j \in Job :
    /\ []<>(Waits(j) \/ Expired(j))
    /\ ReaperIsRun(j) => []<>Waits(j)
=============================================================================
