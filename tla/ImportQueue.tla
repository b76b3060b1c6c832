---------------------------- MODULE ImportQueue ----------------------------
(***************************************************************************)
(* Library imports: rows of import_jobs that wait for one of a few slots,  *)
(* the dispatcher in every worker process that promotes them and takes     *)
(* back the ones that show no progress, the tasks that import the selected *)
(* tracks one by one, and the requests that start, cancel and poll.        *)
(*                                                                         *)
(* No step locks a job for longer than one statement: a session loads the  *)
(* row, works, and writes the attributes whose value differs from the one  *)
(* it loaded. A task identifies itself by a lease in tracks_data, which it *)
(* compares with its own every LeaseCheckEvery items and at the end.       *)
(***************************************************************************)
EXTENDS Naturals, FiniteSets

CONSTANTS
  Job,             \* ids of rows of import_jobs, positive, in the order of created_at
  UserOf,          \* [Job -> user]
  Dispatcher,      \* worker processes, each with a dispatcher loop
  JobRequest,      \* concurrent HTTP requests
  Selections,      \* how many tracks a user may select, at least one
  LeaseCheckEvery, \* import_lease_check_every_n_items
  GlobalCap,       \* import_max_concurrent_jobs
  UserCap,         \* import_per_user_max_concurrent
  RunBound,        \* bound on the leases in use
  RequestBound,    \* bound on requests
  Faults,          \* which faults occur: "redis", a call to Redis fails;
                   \* "crash", a task or a message dies with its process;
                   \* "slow", a job is swept whose task is only slow;
                   \* "raise", a call raises after an item was counted
  FaultBound       \* bound on faults

VARIABLES
  job,     \* [Job -> JobRow]: the table import_jobs
  item,    \* [Job -> [Index -> ItemStatus]]: the table import_job_items
  flag,    \* the jobs whose cancel flag is set in Redis
  msgs,    \* [Job -> Nat]: tasks scheduled and not begun
  run,     \* [Run -> RunRec]: the tasks at work
  disp,    \* [Dispatcher -> DispRec]
  jobReq,  \* [JobRequest -> ReqRec]
  budget,  \* the requests and the faults that may still come
  history  \* [Job -> SUBSET Event]: what has happened to a job

importVars == <<job, item, flag, msgs, run, disp, jobReq, budget, history>>

Index == UNION {1..n : n \in Selections}
Run   == 1..RunBound
User  == {UserOf[j] : j \in Job}

Status == {"ready", "queued", "importing", "done", "cancelled", "failed"}

\* lease 0: none; selected 0: tracks_data holds no selection; counted is
\* completed_tracks + failed_tracks.
JobRow == [status : Status, selected : {0} \cup Selections,
           lease : {0} \cup Run, counted : Nat]

\* decided: done, deduped, failed or skipped; recounted: failed, but counted as
\* completed before.
ItemStatus == {"none", "pending", "decided", "recounted"}

\* status, selected and counted: as loaded; late: items it committed although
\* the job carried another lease.
RunRec == [at : {"off", "seed", "lease", "loop", "work", "finish", "commit",
                 "clear"},
           job : {0} \cup Job, status : Status, selected : {0} \cup Selections,
           counted : Nat, todo : SUBSET Index, seen : Nat, late : Nat]

\* mine: active jobs per user as counted; kick: promoted and not yet kicked;
\* failed: the promoted job whose kick raised, or 0.
DispRec == [at : {"idle", "counted", "kick"}, slots : Nat,
            mine : [User -> Nat], kick : SUBSET Job, failed : {0} \cup Job]

ReqRec == [at : {"idle", "start", "kick", "failed", "cancel", "poll"},
           job : {0} \cup Job, loaded : JobRow]

Budget == [requests : 0..RequestBound, faults : 0..FaultBound]

\* reselected: a request chose other tracks than the job had, or than it had loaded.
Event == {"overlapped", "restarted", "reselected", "cancelled", "overdue"}

NewJob  == [status |-> "ready", selected |-> 0, lease |-> 0, counted |-> 0]
NoRun   == [at |-> "off", job |-> 0, status |-> "ready", selected |-> 0,
            counted |-> 0, todo |-> {}, seen |-> 0, late |-> 0]
NoDisp  == [at |-> "idle", slots |-> 0, mine |-> [u \in User |-> 0],
            kick |-> {}, failed |-> 0]
NoReq   == [at |-> "idle", job |-> 0, loaded |-> NewJob]

ImportTypes ==
  /\ job \in [Job -> JobRow]
  /\ item \in [Job -> [Index -> ItemStatus]]
  /\ flag \subseteq Job
  /\ msgs \in [Job -> Nat]
  /\ run \in [Run -> RunRec]
  /\ disp \in [Dispatcher -> DispRec]
  /\ jobReq \in [JobRequest -> ReqRec]
  /\ budget \in Budget
  /\ history \in [Job -> SUBSET Event]

ImportInit ==
  /\ job = [j \in Job |-> NewJob]
  /\ item = [j \in Job |-> [i \in Index |-> "none"]]
  /\ flag = {}
  /\ msgs = [j \in Job |-> 0]
  /\ run = [r \in Run |-> NoRun]
  /\ disp = [d \in Dispatcher |-> NoDisp]
  /\ jobReq = [q \in JobRequest |-> NoReq]
  /\ budget = [requests |-> RequestBound, faults |-> FaultBound]
  /\ history = [j \in Job |-> {}]

----------------------------------------------------------------------------
(* What a session writes.                                                  *)

\* The unit of work writes an attribute only if it differs from what it loaded.
Flush(now, loaded, new) == IF new = loaded THEN now ELSE new

SetStatus(j, s) == job' = [job EXCEPT ![j].status = s]

Record(j, e) == history' = [history EXCEPT ![j] = @ \cup {e}]

Fault(kind) == /\ kind \in Faults /\ budget.faults > 0
               /\ budget' = [budget EXCEPT !.faults = @ - 1]

RunsOf(j) == {r \in Run : run[r].at # "off" /\ run[r].job = j}

Importing == {j \in Job : job[j].status = "importing"}
ImportingOf(u) == {j \in Importing : UserOf[j] = u}

Put(j) == msgs' = [msgs EXCEPT ![j] = @ + 1]

First(i, S) == i \in S /\ \A k \in S : i <= k

----------------------------------------------------------------------------
(* Requests.                                                               *)

Startable   == {"ready", "importing", "queued"}
Cancellable == {"importing", "ready", "queued"}

\* A request begins by loading the row of its job; start compares with it later.
Load(q, j, stage) ==
  /\ jobReq[q].at = "idle"
  /\ budget.requests > 0
  /\ budget' = [budget EXCEPT !.requests = @ - 1]
  /\ jobReq' = [jobReq EXCEPT ![q] =
       [at |-> stage, job |-> j, loaded |-> IF stage = "start" THEN job[j] ELSE NewJob]]

StartLoad(q, j) ==
  /\ job[j].status \in Startable
  /\ Load(q, j, "start")
  /\ UNCHANGED <<job, item, flag, msgs, run, disp, history>>

Restarts(j, loaded, n) ==
  (IF loaded.status = "ready" /\ job[j] = loaded THEN {} ELSE {"restarted"})
  \cup (IF {job[j].selected, loaded.selected} \subseteq {0, n} THEN {} ELSE {"reselected"})

\* Under the advisory lock of the user: count, decide, write, commit. The
\* selection, written before the count, makes the job count itself if it is
\* importing already.
StartWrite(q) ==
  LET j      == jobReq[q].job
      loaded == jobReq[q].loaded
      full   == \/ Cardinality(Importing) >= GlobalCap
                \/ Cardinality(ImportingOf(UserOf[j])) >= UserCap
      next   == IF full THEN "queued" ELSE "importing"
  IN /\ jobReq[q].at = "start"
     /\ \E n \in Selections :
          /\ job' = [job EXCEPT ![j] =
               [status   |-> Flush(@.status, loaded.status, next),
                selected |-> Flush(@.selected, loaded.selected, n),
                lease    |-> IF n = loaded.selected THEN @.lease ELSE loaded.lease,
                counted  |-> Flush(@.counted, loaded.counted, 0)]]
          /\ history' = [history EXCEPT ![j] = @ \cup Restarts(j, loaded, n)]
     /\ jobReq' = [jobReq EXCEPT ![q] =
          IF full THEN NoReq ELSE [NoReq EXCEPT !.at = "kick", !.job = j]]
     /\ UNCHANGED <<item, flag, msgs, run, disp, budget>>

\* A kick either schedules the task, or raises, having scheduled it or not.
StartKick(q) ==
  /\ jobReq[q].at = "kick"
  /\ \/ Put(jobReq[q].job) /\ jobReq' = [jobReq EXCEPT ![q] = NoReq] /\ UNCHANGED budget
     \/ /\ Fault("redis")
        /\ Put(jobReq[q].job) \/ UNCHANGED msgs
        /\ jobReq' = [jobReq EXCEPT ![q].at = "failed"]
  /\ UNCHANGED <<job, item, flag, run, disp, history>>

StartFailed(q) ==
  LET j == jobReq[q].job
  IN /\ jobReq[q].at = "failed"
     /\ IF job[j].status = "importing" THEN SetStatus(j, "queued") ELSE UNCHANGED job
     /\ jobReq' = [jobReq EXCEPT ![q] = NoReq]
     /\ UNCHANGED <<item, flag, msgs, run, disp, budget, history>>

\* The flag is set before the row is committed, and errors of Redis are ignored.
CancelJobLoad(q, j) ==
  /\ job[j].status \in Cancellable
  /\ Load(q, j, "cancel")
  /\ flag' = flag \cup {j}
  /\ Record(j, "cancelled")
  /\ UNCHANGED <<job, item, msgs, run, disp>>

CancelJobCommit(q) ==
  /\ jobReq[q].at = "cancel"
  /\ SetStatus(jobReq[q].job, "cancelled")
  /\ jobReq' = [jobReq EXCEPT ![q] = NoReq]
  /\ UNCHANGED <<item, flag, msgs, run, disp, budget, history>>

\* A status request finds a job queued that was created long ago.
PollLoad(q, j) ==
  /\ job[j].status = "queued"
  /\ Load(q, j, "poll")
  /\ Record(j, "overdue")
  /\ UNCHANGED <<job, item, flag, msgs, run, disp>>

PollFail(q) ==
  LET j == jobReq[q].job
  IN /\ jobReq[q].at = "poll"
     /\ job' = [job EXCEPT ![j] =
          [@ EXCEPT !.status = "failed", !.selected = 0, !.lease = 0]]
     /\ jobReq' = [jobReq EXCEPT ![q] = NoReq]
     /\ UNCHANGED <<item, flag, msgs, run, disp, budget, history>>

----------------------------------------------------------------------------
(* The dispatcher.                                                         *)

Alive(j) == msgs[j] > 0 \/ RunsOf(j) # {}

\* Mutant: a job that no task ever took is never stuck.
StuckWithLease(j) == job[j].status = "importing" /\ job[j].lease # 0

Stuck(j) == job[j].status = "importing"

\* A job without progress is queued again; one whose task is only slow as well.
Sweep(d, j) ==
  /\ disp[d].at = "idle"
  /\ Stuck(j)
  /\ IF Alive(j) THEN Fault("slow") ELSE UNCHANGED budget
  /\ SetStatus(j, "queued")
  /\ UNCHANGED <<item, flag, msgs, run, disp, jobReq, history>>

Queued == {j \in Job : job[j].status = "queued"}

Count(d) ==
  /\ disp[d].at = "idle"
  /\ Cardinality(Importing) < GlobalCap
  /\ Queued # {}
  /\ disp' = [disp EXCEPT ![d] =
       [@ EXCEPT !.at = "counted",
                 !.slots = GlobalCap - Cardinality(Importing),
                 !.mine = [u \in User |-> Cardinality(ImportingOf(u))]]]
  /\ UNCHANGED <<job, item, flag, msgs, run, jobReq, budget, history>>

\* The jobs taken, oldest first, while there are slots and the user is below
\* the cap. The rows are locked until the commit, which this step includes.
Taken(d, P) ==
  \A j \in Queued :
    j \in P <=>
      LET older == {k \in P : k < j}
      IN /\ Cardinality(older) < disp[d].slots
         /\ Cardinality({k \in older : UserOf[k] = UserOf[j]})
              + disp[d].mine[UserOf[j]] < UserCap

Promote(d) ==
  /\ disp[d].at = "counted"
  /\ \E P \in SUBSET Queued :
       /\ Taken(d, P)
       /\ job' = [j \in Job |-> IF j \in P THEN [job[j] EXCEPT !.status = "importing"]
                                ELSE job[j]]
       /\ disp' = [disp EXCEPT ![d] = IF P = {} THEN NoDisp
                     ELSE [NoDisp EXCEPT !.at = "kick", !.kick = P]]
  /\ UNCHANGED <<item, flag, msgs, run, jobReq, budget, history>>

\* kick_for_job for the next promoted job, after a failed one was put back.
Kicked(d, j) ==
  disp' = [disp EXCEPT ![d] =
             IF disp[d].kick = {j} THEN NoDisp
             ELSE [disp[d] EXCEPT !.kick = @ \ {j}, !.failed = 0]]

Kick(d) ==
  /\ disp[d].at = "kick" /\ disp[d].failed = 0
  /\ \E j \in disp[d].kick :
       \/ Put(j) /\ Kicked(d, j) /\ UNCHANGED budget
       \/ /\ Fault("redis")
          /\ Put(j) \/ UNCHANGED msgs
          /\ disp' = [disp EXCEPT ![d].failed = j]
  /\ UNCHANGED <<job, item, flag, run, jobReq, history>>

Requeue(d) ==
  /\ disp[d].at = "kick" /\ disp[d].failed # 0
  /\ SetStatus(disp[d].failed, "queued")
  /\ Kicked(d, disp[d].failed)
  /\ UNCHANGED <<item, flag, msgs, run, jobReq, budget, history>>

\* The process dies with the kicks it owes.
DispatcherDies(d) ==
  /\ disp[d].at # "idle"
  /\ Fault("crash")
  /\ disp' = [disp EXCEPT ![d] = NoDisp]
  /\ UNCHANGED <<job, item, flag, msgs, run, jobReq, history>>

----------------------------------------------------------------------------
(* The task of a job: process_import_job and its external counterpart.     *)

Taking(j) == msgs[j] > 0 /\ msgs' = [msgs EXCEPT ![j] = @ - 1]

Skip(j) ==
  /\ Taking(j)
  /\ job[j].status # "importing"
  /\ UNCHANGED <<job, item, flag, run, disp, jobReq, budget, history>>

NothingSelected(j) ==
  /\ Taking(j)
  /\ job[j].status = "importing" /\ job[j].selected = 0
  /\ SetStatus(j, "done")
  /\ UNCHANGED <<item, flag, run, disp, jobReq, budget, history>>

\* A lease is unique: no task, no row and no loaded copy has it.
FreshLeases == {r \in Run : /\ run[r].at = "off"
                            /\ \A j \in Job : job[j].lease # r
                            /\ \A q \in JobRequest : jobReq[q].loaded.lease # r}

BeginImport(j) ==
  /\ Taking(j)
  /\ job[j].status = "importing" /\ job[j].selected # 0
  /\ \E r \in FreshLeases :
       /\ First(r, FreshLeases)
       /\ run' = [run EXCEPT ![r] =
            [NoRun EXCEPT !.at = "seed", !.job = j, !.status = "importing",
                          !.selected = job[j].selected]]
  /\ IF RunsOf(j) = {} THEN UNCHANGED history ELSE Record(j, "overlapped")
  /\ UNCHANGED <<job, item, flag, disp, jobReq, budget>>

RunAt(r, stage) == run[r].at = stage
Stop(r) == run' = [run EXCEPT ![r] = NoRun]
Continue(todo) == IF todo = {} THEN "finish" ELSE "loop"

\* Mutant: ON CONFLICT DO UPDATE, which opens decided items again.
SeedAll(j, n) == [i \in Index |-> IF i <= n THEN "pending" ELSE item[j][i]]

\* Rows for the selection, where there is none yet.
SeedPending(j, n) ==
  [i \in Index |-> IF i <= n /\ item[j][i] = "none" THEN "pending" ELSE item[j][i]]

\* Mutant: resume behind the counter.
TodoAfterCounter(j, rows) == {i \in Index : rows[i] = "pending" /\ i > job[j].counted}

Todo(j, rows) == {i \in Index : rows[i] = "pending"}

\* The pending rows are the work. An index beyond the selection raises, and the
\* task ends.
Seed(r) ==
  LET j == run[r].job
      rows == SeedPending(j, run[r].selected)
      todo == Todo(j, rows)
  IN /\ RunAt(r, "seed")
     /\ item' = [item EXCEPT ![j] = rows]
     /\ IF \E i \in todo : i > run[r].selected THEN Stop(r)
        ELSE run' = [run EXCEPT ![r].at = "lease", ![r].todo = todo]
     /\ UNCHANGED <<job, flag, msgs, disp, jobReq, budget, history>>

\* tracks_data is written as a whole, with the selection that was loaded.
TakeLease(r) ==
  LET j == run[r].job
  IN /\ RunAt(r, "lease")
     /\ job' = [job EXCEPT ![j].lease = r, ![j].selected = run[r].selected]
     /\ run' = [run EXCEPT ![r].at = Continue(run[r].todo),
                           ![r].counted = job[j].counted]
     /\ UNCHANGED <<item, flag, msgs, disp, jobReq, budget, history>>

SeesCancel(r) ==
  LET j == run[r].job
  IN /\ RunAt(r, "loop")
     /\ j \in flag
     /\ SetStatus(j, "cancelled")
     /\ run' = [run EXCEPT ![r].at = "finish"]
     /\ UNCHANGED <<item, flag, msgs, disp, jobReq, budget, history>>

\* Mutant: the lease is compared before the first item only.
LeaseDueOnce(r) == run[r].seen = 0

LeaseDue(r) == run[r].seen % LeaseCheckEvery = 0

\* A flag that cannot be read counts as not set.
NoCancel(j) == IF j \in flag THEN Fault("redis") ELSE UNCHANGED budget

LoseLease(r) ==
  /\ RunAt(r, "loop")
  /\ NoCancel(run[r].job)
  /\ LeaseDue(r) /\ job[run[r].job].lease # r
  /\ Stop(r)
  /\ UNCHANGED <<job, item, flag, msgs, disp, jobReq, history>>

TakeItem(r) ==
  LET j == run[r].job
  IN /\ RunAt(r, "loop")
     /\ NoCancel(j)
     /\ LeaseDue(r) => job[j].lease = r
     /\ run' = [run EXCEPT ![r].at = "work", ![r].seen = @ + 1,
                  ![r].counted = IF LeaseDue(r) THEN job[j].counted ELSE @]
     /\ UNCHANGED <<job, item, flag, msgs, disp, jobReq, history>>

\* How often an item is counted, as completed and as failed.
Times(outcome) == IF outcome = "recounted" THEN 2 ELSE 1

\* The first item left is decided and counted. from is the value of the counter the
\* task had loaded. A call that raises once the item is counted and marked done
\* enters the handler that counts it again and marks it failed: in the same commit,
\* or, in the external task, in a second one that this step includes.
Decide(r, from) ==
  LET j == run[r].job
  IN /\ RunAt(r, "work")
     /\ \E i \in run[r].todo, outcome \in {"decided", "recounted"} :
          LET left == run[r].todo \ {i}
              counted == from + Times(outcome)
          IN /\ First(i, run[r].todo)
             /\ IF outcome = "recounted" THEN Fault("raise") ELSE UNCHANGED budget
             /\ job' = [job EXCEPT ![j].counted = counted]
             /\ item' = [item EXCEPT ![j][i] = outcome]
             /\ run' = [run EXCEPT ![r].at = Continue(left), ![r].todo = left,
                  ![r].counted = counted,
                  ![r].late = @ + (IF job[j].lease = r THEN 0 ELSE 1)]
     /\ UNCHANGED <<flag, msgs, disp, jobReq, history>>

DecideStale(r) == Decide(r, run[r].counted)
DecideFresh(r) == Decide(r, job[run[r].job].counted)

FinishLoad(r) ==
  LET j == run[r].job
  IN /\ RunAt(r, "finish")
     /\ IF job[j].lease # r THEN Stop(r)
        ELSE run' = [run EXCEPT ![r].at = "commit", ![r].status = job[j].status,
                                ![r].selected = job[j].selected]
     /\ UNCHANGED <<job, item, flag, msgs, disp, jobReq, budget, history>>

\* Mutant: a status the table has no use for.
OutcomeCompleted(s) == IF s = "cancelled" THEN "cancelled" ELSE "completed"

Outcome(s) == IF s = "cancelled" THEN "cancelled" ELSE "done"

\* The external task writes tracks_data as a whole once more.
FinishCommit(r) ==
  LET j == run[r].job
      s == Flush(job[j].status, run[r].status, Outcome(run[r].status))
  IN /\ RunAt(r, "commit")
     /\ \/ SetStatus(j, s)
        \/ job' = [job EXCEPT ![j].status = s, ![j].lease = r,
                              ![j].selected = run[r].selected]
     /\ run' = [run EXCEPT ![r].at = "clear"]
     /\ UNCHANGED <<item, flag, msgs, disp, jobReq, budget, history>>

ClearFlag(r) ==
  /\ RunAt(r, "clear")
  /\ flag' = flag \ {run[r].job}
  /\ Stop(r)
  /\ UNCHANGED <<job, item, msgs, disp, jobReq, budget, history>>

RunDies(r) ==
  /\ ~RunAt(r, "off")
  /\ Fault("crash")
  /\ Stop(r)
  /\ UNCHANGED <<job, item, flag, msgs, disp, jobReq, history>>

\* An external task waits in the memory of the process that scheduled it.
MessageLost(j) ==
  /\ Taking(j)
  /\ Fault("crash")
  /\ UNCHANGED <<job, item, flag, run, disp, jobReq, history>>

----------------------------------------------------------------------------

JobRequestStep(q) == \/ StartWrite(q) \/ StartKick(q) \/ StartFailed(q)
                     \/ CancelJobCommit(q) \/ PollFail(q)

DispatcherStep(d) == Count(d) \/ Promote(d) \/ Kick(d) \/ Requeue(d)

Deliver(j) == Skip(j) \/ NothingSelected(j) \/ BeginImport(j)

RunStep(r) == \/ Seed(r) \/ TakeLease(r)
              \/ SeesCancel(r) \/ LoseLease(r) \/ TakeItem(r)
              \/ DecideStale(r) \/ DecideFresh(r)
              \/ FinishLoad(r) \/ FinishCommit(r) \/ ClearFlag(r)

ImportNext ==
  \/ \E q \in JobRequest : JobRequestStep(q)
  \/ \E q \in JobRequest, j \in Job : StartLoad(q, j) \/ CancelJobLoad(q, j) \/ PollLoad(q, j)
  \/ \E d \in Dispatcher : DispatcherStep(d) \/ DispatcherDies(d)
  \/ \E d \in Dispatcher, j \in Job : Sweep(d, j)
  \/ \E j \in Job : Deliver(j) \/ MessageLost(j)
  \/ \E r \in Run : RunStep(r) \/ RunDies(r)

ImportSpec == ImportInit /\ [][ImportNext]_importVars

\* What was begun goes on: requests, tasks and the broker, and the dispatchers. A
\* loop that sweeps for ever finds a dead job old enough at some time.
ImportFairness ==
  /\ WF_importVars(\/ \E q \in JobRequest : JobRequestStep(q)
                   \/ \E j \in Job : Deliver(j)
                   \/ \E r \in Run : RunStep(r))
  /\ WF_importVars(\E d \in Dispatcher : DispatcherStep(d))
  /\ \A j \in Job : SF_importVars(\E d \in Dispatcher : ~Alive(j) /\ Sweep(d, j))

FairImportSpec == ImportSpec /\ ImportFairness

----------------------------------------------------------------------------
(* Properties.                                                             *)

Decided(j)   == {i \in Index : item[j][i] \in {"decided", "recounted"}}
Recounted(j) == {i \in Index : item[j][i] = "recounted"}

\* The counters shown to the user, completed and failed together, exceed the number
\* of decided items by the items that failed after they were counted as completed,
\* and by nothing else, through crashes and resumptions, unless two tasks of the job
\* overlapped or it was restarted.
CountersExact ==
  \A j \in Job : history[j] \cap {"overlapped", "restarted"} = {} =>
    job[j].counted = Cardinality(Decided(j)) + Cardinality(Recounted(j))

\* A job that is done has decided all its items, whoever did, unless a request
\* had asked for its end or for other tracks before.
DoneIsComplete ==
  \A j \in Job :
    /\ job[j].status = "done"
    /\ history[j] \cap {"reselected", "cancelled", "overdue"} = {}
    => \A i \in Index : item[j][i] # "pending"

\* A task that lost its lease imports at most LeaseCheckEvery more items. A request
\* for other tracks writes back the lease that it has loaded, and with it the task
\* may go on.
LateItemsBounded ==
  \A j \in Job : "reselected" \notin history[j] =>
    \A r \in RunsOf(j) : run[r].late <= LeaseCheckEvery

\* A started import ends.
EveryImportEnds ==
  \A j \in Job : job[j].status \in {"queued", "importing"} ~>
                 job[j].status \in {"done", "cancelled", "failed"}
=============================================================================
