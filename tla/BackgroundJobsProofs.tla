------------------------ MODULE BackgroundJobsProofs ------------------------
(***************************************************************************)
(* Proofs about BackgroundJobs, for any number of jobs, processes and      *)
(* administrators, any mix of operations, with crashes and failing calls.  *)
(***************************************************************************)
EXTENDS BackgroundJobs, TLAPS

\* Idle processes, and only they, execute no job.
IdleHasNoJob == \A w \in Worker : exec[w].stage = "idle" <=> exec[w].job = None

\* Job j is in at most one place: with its producer, in the list, in an
\* execution, or asleep before a retry.
Placed(j) ==
  /\ queue[j] <= 1
  /\ \A w \in Worker : delayed[w][j] <= 1
  /\ call[j] \in {"none", "inserted"} =>
       queue[j] = 0 /\ \A w \in Worker : exec[w].job # j /\ delayed[w][j] = 0
  /\ queue[j] = 1 => \A w \in Worker : exec[w].job # j /\ delayed[w][j] = 0
  /\ \A w, v \in Worker :
       exec[w].job = j => delayed[v][j] = 0 /\ (exec[v].job = j => v = w)
  /\ \A w, v \in Worker : delayed[w][j] = 1 /\ delayed[v][j] = 1 => v = w

Placement == IdleHasNoJob /\ \A j \in Job : Placed(j)

\* Job j is in some place.
Due(j) ==
  \/ call[j] = "inserted" \/ queue[j] = 1
  \/ \E w \in Worker : exec[w].job = j \/ delayed[w][j] = 1

\* Nothing is left to run of a settled job.
Ended == \A j \in Job : row[j].status \in {"done", "failed_terminal"} => ~Due(j)

\* An execution of job j is still to be received.
Waiting(j) ==
  call[j] # "over" \/ queue[j] = 1 \/ \E w \in Worker : delayed[w][j] = 1

\* Whatever will count an attempt starts from a row with attempts left, and what
\* an execution loaded still is the number of attempts when it ends, unless the
\* row was purged.
Budget ==
  /\ \A j \in Job :
       /\ row[j].attempts <= MaxAttempts
       /\ row[j].status = "absent" => row[j].attempts = 0
       /\ Waiting(j) => row[j].attempts < MaxAttempts
  /\ \A w \in Worker :
       /\ exec[w].stage = "received" => row[exec[w].job].attempts < MaxAttempts
       /\ exec[w].stage = "pre" => exec[w].loaded.attempts < MaxAttempts
       /\ exec[w].stage = "error" =>
            \/ row[exec[w].job].status = "absent"
            \/ row[exec[w].job].attempts = exec[w].loaded.attempts

Late == {"body", "returned", "post", "raised", "error"}

\* What the row of an execution can be at its stage: only pre_execute makes a row
\* running, and only a recorded failure makes it queued again.
WorkerSound(w) ==
  LET s == row[exec[w].job].status
  IN  /\ exec[w].stage \in {"received", "pre"} => s # "running"
      /\ exec[w].stage = "pre" /\ s = "queued" => exec[w].loaded.status = "queued"
      /\ exec[w].stage = "error" /\ exec[w].loaded.status = "queued" => s # "running"
      /\ exec[w].stage \in Late /\ ~Faults => s # "queued"

\* A cancellation loads active rows.
AdminSound(a) ==
  admin[a].stage \in {"cancel", "cancel_active"} =>
    \A j \in admin[a].jobs : admin[a].loaded[j].status \in Active

StagesSound ==
  /\ \A j \in Job : /\ call[j] = "none" => row[j].status = "absent"
                    /\ row[j].status = "running" => ~Waiting(j)
  /\ \A w \in Worker : WorkerSound(w)
  /\ \A a \in Admin : AdminSound(a)

Hooks == {"pre", "post", "error"}

\* A hook's copy of the status is that of the row, unless the row was cancelled or
\* purged since.
CopyGood(w) ==
  exec[w].stage \in Hooks =>
    row[exec[w].job].status \in {exec[w].loaded.status, "absent"} \cup Cancelled

CopiesGood == \A w \in Worker : CopyGood(w)

IInv == TypeOK /\ Placement /\ Ended /\ Budget /\ StagesSound /\ CopiesGood

-----------------------------------------------------------------------------
(***************************************************************************)
(* Types                                                                   *)
(***************************************************************************)

LEMMA NoRowType == NoRow \in Row
BY DEF NoRow, Row, Status

LEMMA NoExecType == NoExec \in Exec
BY NoRowType DEF NoExec, Exec, ExecStage

LEMMA NoReqType == NoReq \in Req
BY NoRowType DEF NoReq, Req, ReqStage

\* What the hooks make of a row is a row.
LEMMA HookTypes ==
  ASSUME NEW r \in Row, NEW flagged \in BOOLEAN
  PROVE  Started(r, flagged) \in Row /\ Returned(r) \in Row /\ Failed(r) \in Row
<1>1. \A x \in Status, n \in Nat : [r EXCEPT !.status = x, !.attempts = n] \in Row
  BY DEF Row
<1>2. Started(r, flagged) \in Row
  <2>1. r.attempts + 1 \in Nat
    BY DEF Row
  <2>2. [r EXCEPT !.status = "running", !.attempts = r.attempts + 1] \in Row
    BY <1>1, <2>1 DEF Status
  <2>3. [r EXCEPT !.status = "cancelled"] \in Row
    BY DEF Row, Status
  <2>4. QED
    BY <2>2, <2>3, Zenon DEF Started
<1>3. \A x \in Status : [r EXCEPT !.status = x] \in Row
  BY DEF Row
<1>4. Returned(r) \in Row /\ Failed(r) \in Row
  BY <1>3 DEF Returned, Failed, Status
<1>5. QED
  BY <1>2, <1>4

LEMMA FlushType ==
  ASSUME NEW old \in Row, NEW new \in Row, NEW cur \in Row
  PROVE  Flush(old, new, cur) \in Row
BY DEF Flush, Column, Row

\* An execution that moves to another stage is an execution.
LEMMA ExecTypes ==
  ASSUME NEW e \in Exec, NEW stage \in ExecStage, NEW r \in Row
  PROVE  /\ [e EXCEPT !.stage = stage] \in Exec
         /\ [e EXCEPT !.stage = stage, !.loaded = r] \in Exec
BY DEF Exec

\* The table after a hook's flush.
LEMMA FlushedType ==
  ASSUME TypeOK, NEW j \in Job, NEW old \in Row, NEW new \in Row
  PROVE  Flushed(j, old, new) \in [Job -> Row]
<1>1. Flush(old, new, row[j]) \in Row
  BY FlushType DEF TypeOK
<1>2. QED
  BY <1>1 DEF Flushed, TypeOK

\* A process that executes something executes a job.
LEMMA BusyJob ==
  ASSUME TypeOK, IdleHasNoJob, NEW w \in Worker, exec[w].stage # "idle"
  PROVE  exec[w] \in Exec /\ exec[w].job \in Job /\ exec[w].loaded \in Row
BY DEF TypeOK, IdleHasNoJob, Exec

LEMMA HookLoadType ==
  ASSUME TypeOK, IdleHasNoJob, NEW w \in Worker, NEW from \in ExecStage \ {"idle"},
         NEW to \in ExecStage, NEW next \in Exec, HookLoad(w, from, to, next)
  PROVE  TypeOK'
<1>1. exec[w] \in Exec /\ row[exec[w].job] \in Row
  BY BusyJob DEF HookLoad, TypeOK
<1>2. [exec[w] EXCEPT !.stage = to, !.loaded = row[exec[w].job]] \in Exec
  BY <1>1, ExecTypes
<1>3. exec' \in [Worker -> Exec]
  BY <1>2 DEF HookLoad, TypeOK
<1>4. QED
  BY <1>3 DEF HookLoad, TypeOK

LEMMA ProducerTypes == ASSUME TypeOK, Producer PROVE TypeOK'
<1>1. ASSUME NEW j \in Job, enqueue(j) PROVE TypeOK'
  BY <1>1 DEF enqueue, TypeOK, Row, Status, CallStage
<1>2. ASSUME NEW j \in Job, kiq(j) PROVE TypeOK'
  BY <1>2 DEF kiq, TypeOK, CallStage
<1>3. ASSUME NEW j \in Job, KiqFails(j) PROVE TypeOK'
  BY <1>3 DEF KiqFails, TypeOK, CallStage
<1>4. QED
  BY <1>1, <1>2, <1>3 DEF Producer

LEMMA HookTypeSteps ==
  ASSUME TypeOK, IdleHasNoJob, NEW w \in Worker, Middleware(w)
  PROVE  TypeOK'
<1> USE NoExecType
<1>1. CASE PreLoad(w)
  <2>1. [exec[w] EXCEPT !.stage = "body"] \in Exec
    BY ExecTypes DEF TypeOK, ExecStage
  <2>2. QED
    BY <1>1, <2>1, HookLoadType DEF PreLoad, ExecStage
<1>2. CASE PostLoad(w)
  BY <1>2, HookLoadType DEF PostLoad, ExecStage
<1>3. CASE ErrorLoad(w)
  BY <1>3, HookLoadType DEF ErrorLoad, ExecStage
<1>4. CASE PreCommit(w)
  <2>1. /\ exec[w] \in Exec /\ exec[w].job \in Job /\ exec[w].loaded \in Row
    BY <1>4, BusyJob DEF PreCommit
  <2>2. \A flagged \in BOOLEAN :
          Flushed(exec[w].job, exec[w].loaded, Started(exec[w].loaded, flagged))
            \in [Job -> Row]
    BY <2>1, HookTypes, FlushedType
  <2>3. row' \in [Job -> Row]
    BY <1>4, <2>2 DEF PreCommit
  <2>4. [exec[w] EXCEPT !.stage = "body"] \in Exec
    BY <2>1, ExecTypes DEF ExecStage
  <2>5. exec' \in [Worker -> Exec]
    BY <1>4, <2>4 DEF PreCommit, TypeOK
  <2>6. QED
    BY <1>4, <2>3, <2>5 DEF PreCommit, TypeOK
<1>5. CASE PostCommit(w)
  <2>1. /\ exec[w].job \in Job /\ exec[w].loaded \in Row
    BY <1>5, BusyJob DEF PostCommit
  <2>2. row' \in [Job -> Row]
    BY <1>5, <2>1, HookTypes, FlushedType DEF PostCommit
  <2>3. QED
    BY <1>5, <2>2 DEF PostCommit, TypeOK
<1>6. CASE ErrorCommit(w)
  <2>1. /\ exec[w].job \in Job /\ exec[w].loaded \in Row
    BY <1>6, BusyJob DEF ErrorCommit
  <2>2. row' \in [Job -> Row]
    BY <1>6, <2>1, HookTypes, FlushedType DEF ErrorCommit
  <2>3. delayed' \in [Worker -> [Job -> Nat]]
    BY <1>6, <2>1 DEF ErrorCommit, TypeOK
  <2>4. QED
    BY <1>6, <2>2, <2>3 DEF ErrorCommit, TypeOK
<1>7. QED
  BY <1>1, <1>2, <1>3, <1>4, <1>5, <1>6 DEF Middleware

LEMMA WorkerTypes ==
  ASSUME TypeOK, IdleHasNoJob, NEW w \in Worker, WorkerStep(w)
  PROVE  TypeOK'
<1> USE NoExecType
<1>1. ASSUME NEW j \in Job, Receive(w, j) PROVE TypeOK'
  <2>1. [stage |-> "received", job |-> j, loaded |-> NoRow] \in Exec
    BY NoRowType DEF Exec, ExecStage
  <2>2. queue' \in [Job -> Nat]
    BY <1>1 DEF Receive, TypeOK
  <2>3. QED
    BY <1>1, <2>1, <2>2 DEF Receive, TypeOK
<1>2. ASSUME NEW j \in Job, Rekick(w, j) PROVE TypeOK'
  <2>1. delayed' \in [Worker -> [Job -> Nat]]
    BY <1>2 DEF Rekick, TypeOK
  <2>2. queue' \in [Job -> Nat]
    BY <1>2 DEF Rekick, TypeOK
  <2>3. QED
    BY <1>2, <2>1, <2>2 DEF Rekick, TypeOK
<1>3. ASSUME NEW how \in {"returned", "raised"}, BodyEnds(w, how) PROVE TypeOK'
  <2>1. exec[w] \in Exec /\ how \in ExecStage /\ NoRow \in Row
    BY NoRowType DEF TypeOK, ExecStage
  <2>2. [exec[w] EXCEPT !.stage = how] \in Exec
    BY <2>1, ExecTypes
  <2>3. QED
    BY <1>3, <2>2 DEF BodyEnds, TypeOK
<1>4. CASE HookFails(w)
  <2>1. [exec[w] EXCEPT !.stage = "body"] \in Exec
    BY ExecTypes DEF TypeOK, ExecStage
  <2>2. QED
    BY <1>4, <2>1 DEF HookFails, TypeOK
<1>5. CASE Crash(w)
  BY <1>5 DEF Crash, TypeOK
<1>6. QED
  BY <1>1, <1>2, <1>3, <1>4, <1>5, HookTypeSteps DEF WorkerStep

LEMMA AdminTypes ==
  ASSUME TypeOK, NEW a \in Admin, AdminStep(a)
  PROVE  TypeOK'
<1> USE NoReqType
<1>0. admin[a] \in Req /\ NoRow \in Row
  BY NoRowType DEF TypeOK
<1>1. ASSUME NEW S \in SUBSET Job, CancelLoad(a, S) PROVE TypeOK'
  <2>1. \A stage \in ReqStage : NewRequest(stage, S) \in Req
    BY <1>0 DEF NewRequest, Req, TypeOK
  <2>2. admin' \in [Admin -> Req]
    BY <1>1, <2>1 DEF CancelLoad, TypeOK, ReqStage
  <2>3. QED
    BY <1>1, <2>2 DEF CancelLoad, TypeOK
<1>2. CASE CancelCommit(a)
  <2>1. \A j \in Job : /\ admin[a].loaded[j] \in Row
                       /\ ToCancel(admin[a].stage, admin[a].loaded[j]) \in Row
    BY <1>0 DEF Req, ToCancel, Row, Status
  <2>2. row' \in [Job -> Row]
    BY <1>2, <2>1, FlushType DEF CancelCommit, TypeOK
  <2>3. admin' \in [Admin -> Req]
    <3>1. \A S, T \in SUBSET Job :
            /\ [NoReq EXCEPT !.stage = "signal", !.jobs = S] \in Req
            /\ [NoReq EXCEPT !.stage = "unqueue", !.jobs = S, !.purging = T] \in Req
      BY DEF Req, ReqStage
    <3>2. /\ admin[a].jobs \in SUBSET Job
          /\ {j \in admin[a].jobs : admin[a].loaded[j].status = "queued"}
               \in SUBSET Job
      BY <1>0 DEF Req
    <3>3. QED
      BY <1>2, <3>1, <3>2 DEF CancelCommit, TypeOK
  <2>4. QED
    BY <1>2, <2>2, <2>3 DEF CancelCommit, TypeOK
<1>3. CASE Unqueue(a)
  <2>1. queue' \in [Job -> Nat]
    BY <1>3 DEF Unqueue, Remove, TypeOK
  <2>2. [admin[a] EXCEPT !.stage = "signal", !.purging = {}] \in Req
    BY <1>0 DEF Req, ReqStage
  <2>3. admin' \in [Admin -> Req]
    BY <1>3, <2>2 DEF Unqueue, TypeOK
  <2>4. QED
    BY <1>3, <2>1, <2>3 DEF Unqueue, TypeOK
<1>4. CASE DrainLoad(a)
  <2>1. \A S \in SUBSET Job :
          [NoReq EXCEPT !.stage = "signal", !.jobs = S] \in Req
    BY DEF Req, ReqStage
  <2>2. admin' \in [Admin -> Req]
    BY <1>4, <2>1 DEF DrainLoad, TypeOK
  <2>3. QED
    BY <1>4, <2>2 DEF DrainLoad, TypeOK
<1>5. ASSUME NEW j \in Job, signal_cancel(a, j) PROVE TypeOK'
  <2>1. [admin[a] EXCEPT !.jobs = admin[a].jobs \ {j}] \in Req
    BY <1>0 DEF Req
  <2>2. admin' \in [Admin -> Req]
    BY <1>5, <2>1 DEF signal_cancel, TypeOK
  <2>3. QED
    BY <1>5, <2>2 DEF signal_cancel, TypeOK
<1>6. CASE RequestDies(a)
  BY <1>6 DEF RequestDies, TypeOK
<1>7. QED
  BY <1>1, <1>2, <1>3, <1>4, <1>5, <1>6 DEF AdminStep

LEMMA TypeStep == ASSUME TypeOK, IdleHasNoJob, [Next]_vars PROVE TypeOK'
<1>1. ASSUME NEW j \in Job, purge(j) \/ FlagExpires(j) PROVE TypeOK'
  BY <1>1, NoRowType DEF purge, FlagExpires, TypeOK
<1>2. CASE UNCHANGED vars
  BY <1>2 DEF vars, TypeOK
<1>3. QED
  BY <1>1, <1>2, ProducerTypes, WorkerTypes, AdminTypes DEF Next

-----------------------------------------------------------------------------
(***************************************************************************)
(* Placement: the ways in which a step moves jobs between places           *)
(***************************************************************************)

\* Nobody moves.
LEMMA NobodyMoves ==
  ASSUME Placement, UNCHANGED <<call, queue, delayed, exec>>
  PROVE  Placement'
BY DEF Placement, IdleHasNoJob, Placed

\* An execution goes on with its job.
LEMMA ExecutionGoesOn ==
  ASSUME TypeOK, Placement, NEW w \in Worker, NEW e, e.job = exec[w].job,
         e.stage # "idle", exec[w].stage # "idle",
         exec' = [exec EXCEPT ![w] = e], UNCHANGED <<call, queue, delayed>>
  PROVE  Placement'
<1>1. \A v \in Worker : exec'[v] = IF v = w THEN e ELSE exec[v]
  BY DEF TypeOK
<1>2. \A v \in Worker : exec'[v].job = exec[v].job
  BY <1>1
<1>3. IdleHasNoJob'
  BY <1>1 DEF Placement, IdleHasNoJob
<1>4. ASSUME NEW j \in Job PROVE Placed(j)'
  BY <1>2 DEF Placement, Placed
<1>5. QED
  BY <1>3, <1>4 DEF Placement

\* An execution ends.
LEMMA ExecutionEnds ==
  ASSUME TypeOK, Placement, NEW w \in Worker,
         exec' = [exec EXCEPT ![w] = NoExec], UNCHANGED <<call, queue, delayed>>
  PROVE  Placement'
<1>1. \A v \in Worker : exec'[v] = IF v = w THEN NoExec ELSE exec[v]
  BY DEF TypeOK
<1>2. \A v \in Worker : exec'[v].job = IF v = w THEN None ELSE exec[v].job
  BY <1>1 DEF NoExec
<1>3. IdleHasNoJob'
  BY <1>1 DEF Placement, IdleHasNoJob, NoExec
<1>4. ASSUME NEW j \in Job PROVE Placed(j)'
  <2>1. \A v \in Worker : exec'[v].job = j => exec[v].job = j
    BY <1>2, NoneAssumption
  <2>2. QED
    BY <2>1 DEF Placement, Placed
<1>5. QED
  BY <1>3, <1>4 DEF Placement

\* An execution ends and leaves a retry asleep in its process.
LEMMA ExecutionSleeps ==
  ASSUME TypeOK, Placement, NEW w \in Worker, NEW j \in Job, exec[w].job = j,
         exec' = [exec EXCEPT ![w] = NoExec],
         delayed' = [delayed EXCEPT ![w][j] = @ + 1], UNCHANGED <<call, queue>>
  PROVE  Placement'
<1>1. \A v \in Worker : exec'[v] = IF v = w THEN NoExec ELSE exec[v]
  BY DEF TypeOK
<1>2. \A v \in Worker : exec'[v].job = IF v = w THEN None ELSE exec[v].job
  BY <1>1 DEF NoExec
<1>3. \A v \in Worker, k \in Job :
        delayed'[v][k] = IF v = w /\ k = j THEN delayed[v][k] + 1 ELSE delayed[v][k]
  BY DEF TypeOK
<1>4. IdleHasNoJob'
  BY <1>1 DEF Placement, IdleHasNoJob, NoExec
<1>5. ASSUME NEW k \in Job PROVE Placed(k)'
  <2>1. \A v \in Worker : exec'[v].job = k => exec[v].job = k
    BY <1>2, NoneAssumption
  <2>2. CASE k # j
    BY <1>3, <2>1, <2>2 DEF Placement, Placed
  <2>3. CASE k = j
    <3>0. Placed(k) /\ exec[w].job = k
      BY <2>3 DEF Placement
    <3>1. /\ queue[k] = 0 /\ call[k] \notin {"none", "inserted"}
          /\ \A v \in Worker : delayed[v][k] = 0 /\ (exec[v].job = k => v = w)
      <4>1. queue[k] \in Nat
        BY DEF TypeOK
      <4>2. QED
        BY <3>0, <4>1 DEF Placed
    <3>2. \A v \in Worker : exec'[v].job # k
      BY <1>2, <2>1, <3>1, NoneAssumption
    <3>3. \A v \in Worker : delayed'[v][k] = IF v = w THEN 1 ELSE 0
      BY <1>3, <2>3, <3>1
    <3>4. QED
      BY <3>1, <3>2, <3>3 DEF Placed
  <2>4. QED
    BY <2>2, <2>3
<1>6. QED
  BY <1>4, <1>5 DEF Placement

LEMMA ProducerPlaces == ASSUME TypeOK, Placement, Producer PROVE Placement'
<1>1. ASSUME NEW j \in Job, enqueue(j) PROVE Placement'
  BY <1>1 DEF enqueue, Placement, IdleHasNoJob, Placed, TypeOK
<1>2. ASSUME NEW j \in Job, kiq(j) PROVE Placement'
  <2>1. \A k \in Job : /\ call'[k] = IF k = j THEN "over" ELSE call[k]
                       /\ queue'[k] = IF k = j THEN queue[k] + 1 ELSE queue[k]
    BY <1>2 DEF kiq, TypeOK
  <2>2. ASSUME NEW k \in Job PROVE Placed(k)'
    BY <1>2, <2>1 DEF kiq, Placement, Placed
  <2>3. IdleHasNoJob'
    BY <1>2 DEF kiq, Placement, IdleHasNoJob
  <2>4. QED
    BY <2>2, <2>3 DEF Placement
<1>3. ASSUME NEW j \in Job, KiqFails(j) PROVE Placement'
  BY <1>3 DEF KiqFails, Placement, IdleHasNoJob, Placed, TypeOK
<1>4. QED
  BY <1>1, <1>2, <1>3 DEF Producer

\* A hook loads: the execution goes on, or ends if there is no row.
LEMMA HookLoadPlaces ==
  ASSUME TypeOK, Placement, NEW w \in Worker, NEW from \in ExecStage \ {"idle"},
         NEW to \in ExecStage \ {"idle"}, NEW next,
         next = NoExec \/ next = [exec[w] EXCEPT !.stage = "body"],
         HookLoad(w, from, to, next)
  PROVE  Placement'
<1>1. exec[w].stage # "idle" /\ exec[w] \in Exec
  BY DEF HookLoad, TypeOK
<1>2. CASE row[exec[w].job].status # "absent"
  <2> DEFINE e == [exec[w] EXCEPT !.stage = to, !.loaded = row[exec[w].job]]
  <2>1. e.job = exec[w].job /\ e.stage # "idle"
    BY <1>1 DEF Exec
  <2>2. exec' = [exec EXCEPT ![w] = e]
    BY <1>2 DEF HookLoad
  <2>3. QED
    BY <1>1, <2>1, <2>2, ExecutionGoesOn DEF HookLoad
<1>3. CASE row[exec[w].job].status = "absent" /\ next # NoExec
  <2> DEFINE e == [exec[w] EXCEPT !.stage = "body"]
  <2>1. e.job = exec[w].job /\ e.stage # "idle"
    BY <1>1 DEF Exec
  <2>2. exec' = [exec EXCEPT ![w] = e]
    BY <1>3 DEF HookLoad
  <2>3. QED
    BY <1>1, <2>1, <2>2, ExecutionGoesOn DEF HookLoad
<1>4. CASE row[exec[w].job].status = "absent" /\ next = NoExec
  BY <1>4, ExecutionEnds DEF HookLoad
<1>5. QED
  BY <1>2, <1>3, <1>4

LEMMA MiddlewarePlaces ==
  ASSUME TypeOK, Placement, NEW w \in Worker, Middleware(w)
  PROVE  Placement'
<1>1. CASE PreLoad(w)
  BY <1>1, HookLoadPlaces DEF PreLoad, ExecStage
<1>2. CASE PostLoad(w)
  BY <1>2, HookLoadPlaces DEF PostLoad, ExecStage
<1>3. CASE ErrorLoad(w)
  BY <1>3, HookLoadPlaces DEF ErrorLoad, ExecStage
<1>4. CASE PreCommit(w)
  <2> DEFINE e == [exec[w] EXCEPT !.stage = "body"]
  <2>1. e.job = exec[w].job /\ e.stage # "idle"
    BY DEF TypeOK, Exec
  <2>2. exec' = [exec EXCEPT ![w] = e]
    BY <1>4 DEF PreCommit
  <2>3. QED
    BY <1>4, <2>1, <2>2, ExecutionGoesOn DEF PreCommit
<1>5. CASE PostCommit(w)
  BY <1>5, ExecutionEnds DEF PostCommit
<1>6. CASE ErrorCommit(w)
  <2>1. exec[w].job \in Job
    BY <1>6, BusyJob DEF ErrorCommit, Placement
  <2>2. CASE row[exec[w].job].status # "absent" /\ Rekicks(exec[w].loaded)
    BY <1>6, <2>1, <2>2, ExecutionSleeps DEF ErrorCommit
  <2>3. CASE ~(row[exec[w].job].status # "absent" /\ Rekicks(exec[w].loaded))
    BY <1>6, <2>3, ExecutionEnds DEF ErrorCommit
  <2>4. QED
    BY <2>2, <2>3
<1>7. QED
  BY <1>1, <1>2, <1>3, <1>4, <1>5, <1>6 DEF Middleware

LEMMA WorkerPlaces ==
  ASSUME TypeOK, Placement, NEW w \in Worker, WorkerStep(w)
  PROVE  Placement'
<1>1. ASSUME NEW j \in Job, Receive(w, j) PROVE Placement'
  <2>1. \A v \in Worker :
          /\ exec'[v].job = IF v = w THEN j ELSE exec[v].job
          /\ exec'[v].stage = IF v = w THEN "received" ELSE exec[v].stage
    BY <1>1 DEF Receive, TypeOK
  <2>2. \A k \in Job : queue'[k] = IF k = j THEN queue[k] - 1 ELSE queue[k]
    BY <1>1 DEF Receive, TypeOK
  <2>3. IdleHasNoJob'
    BY <2>1, NoneAssumption DEF Placement, IdleHasNoJob
  <2>4. /\ queue[j] = 1 /\ call[j] \notin {"none", "inserted"}
        /\ \A v \in Worker : exec[v].job # j /\ delayed[v][j] = 0
    BY <1>1 DEF Receive, Placement, Placed, TypeOK
  <2>5. exec[w].job = None
    BY <1>1 DEF Receive, Placement, IdleHasNoJob
  <2>6. ASSUME NEW k \in Job PROVE Placed(k)'
    <3>1. CASE k = j
      BY <1>1, <2>1, <2>2, <2>4, <3>1 DEF Receive, Placed
    <3>2. CASE k # j
      <4>1. \A v \in Worker : exec'[v].job = k => exec[v].job = k
        BY <2>1, <3>2
      <4>2. QED
        BY <1>1, <2>2, <3>2, <4>1 DEF Receive, Placement, Placed
    <3>3. QED
      BY <3>1, <3>2
  <2>7. QED
    BY <2>3, <2>6 DEF Placement
<1>2. ASSUME NEW j \in Job, Rekick(w, j) PROVE Placement'
  <2>1. \A v \in Worker, k \in Job :
          delayed'[v][k] = IF v = w /\ k = j THEN delayed[v][k] - 1
                                            ELSE delayed[v][k]
    BY <1>2 DEF Rekick, TypeOK
  <2>2. \A k \in Job : queue'[k] = queue[k] \/ (k = j /\ queue'[k] = queue[k] + 1)
    BY <1>2 DEF Rekick, TypeOK
  <2>0. /\ Placed(j) /\ queue[j] \in Nat
        /\ \A v \in Worker : delayed[v][j] \in {0, 1}
    <3>1. \A v \in Worker : delayed[v][j] \in Nat /\ delayed[v][j] <= 1
      BY DEF Placement, Placed, TypeOK
    <3>2. Placed(j) /\ queue[j] \in Nat
      BY DEF Placement, TypeOK
    <3>3. QED
      BY <3>1, <3>2
  <2>3. /\ queue[j] = 0 /\ call[j] \notin {"none", "inserted"}
        /\ delayed[w][j] = 1
        /\ \A v \in Worker : exec[v].job # j /\ (delayed[v][j] = 1 => v = w)
    <3>1. delayed[w][j] = 1
      BY <1>2, <2>0 DEF Rekick
    <3>2. QED
      BY <2>0, <3>1 DEF Placed
  <2>4. \A v \in Worker : delayed'[v][j] = 0
    BY <2>0, <2>1, <2>3
  <2>5. ASSUME NEW k \in Job PROVE Placed(k)'
    <3>1. CASE k = j
      BY <1>2, <2>2, <2>3, <2>4, <3>1 DEF Rekick, Placed
    <3>2. CASE k # j
      BY <1>2, <2>1, <2>2, <3>2 DEF Rekick, Placement, Placed
    <3>3. QED
      BY <3>1, <3>2
  <2>6. QED
    BY <1>2, <2>5 DEF Rekick, Placement, IdleHasNoJob
<1>3. ASSUME NEW how \in {"returned", "raised"}, BodyEnds(w, how) PROVE Placement'
  <2> DEFINE e == [exec[w] EXCEPT !.stage = how]
  <2>1. e.job = exec[w].job /\ e.stage # "idle"
    BY DEF TypeOK, Exec
  <2>2. exec' = [exec EXCEPT ![w] = e]
    BY <1>3 DEF BodyEnds
  <2>3. QED
    BY <1>3, <2>1, <2>2, ExecutionGoesOn DEF BodyEnds
<1>4. CASE HookFails(w)
  <2> DEFINE e == [exec[w] EXCEPT !.stage = "body"]
  <2>1. e.job = exec[w].job /\ e.stage # "idle"
    BY DEF TypeOK, Exec
  <2>2. \/ exec' = [exec EXCEPT ![w] = e]
        \/ exec' = [exec EXCEPT ![w] = NoExec]
    BY <1>4 DEF HookFails
  <2>3. exec[w].stage # "idle"
    BY <1>4 DEF HookFails
  <2>4. QED
    BY <1>4, <2>1, <2>2, <2>3, ExecutionGoesOn, ExecutionEnds DEF HookFails
<1>5. CASE Crash(w)
  <2>1. \A v \in Worker :
          /\ exec'[v].job = IF v = w THEN None ELSE exec[v].job
          /\ exec'[v].stage = IF v = w THEN "idle" ELSE exec[v].stage
    BY <1>5 DEF Crash, TypeOK, NoExec
  <2>2. \A v \in Worker, k \in Job :
          delayed'[v][k] = IF v = w THEN 0 ELSE delayed[v][k]
    BY <1>5 DEF Crash, TypeOK
  <2>3. IdleHasNoJob'
    BY <2>1 DEF Placement, IdleHasNoJob
  <2>4. ASSUME NEW k \in Job PROVE Placed(k)'
    <3>1. \A v \in Worker : exec'[v].job = k => exec[v].job = k
      BY <2>1, NoneAssumption
    <3>2. QED
      BY <1>5, <2>2, <3>1 DEF Crash, Placement, Placed
  <2>5. QED
    BY <2>3, <2>4 DEF Placement
<1>6. QED
  BY <1>1, <1>2, <1>3, <1>4, <1>5, MiddlewarePlaces DEF WorkerStep

LEMMA AdminPlaces ==
  ASSUME TypeOK, Placement, NEW a \in Admin, AdminStep(a)
  PROVE  Placement'
<1>1. CASE Unqueue(a)
  <2>1. \A k \in Job : queue'[k] \in {0, queue[k]}
    BY <1>1 DEF Unqueue, Remove
  <2>2. \A k \in Job : Placed(k)'
    BY <1>1, <2>1 DEF Unqueue, Placement, Placed
  <2>3. QED
    BY <1>1, <2>2 DEF Unqueue, Placement, IdleHasNoJob
<1>2. CASE ~Unqueue(a)
  BY <1>2, NobodyMoves
     DEF AdminStep, CancelLoad, CancelCommit, DrainLoad, signal_cancel, RequestDies
<1>3. QED
  BY <1>1, <1>2

LEMMA PlacementStep == ASSUME TypeOK, Placement, [Next]_vars PROVE Placement'
<1>1. ASSUME NEW j \in Job, purge(j) \/ FlagExpires(j) PROVE Placement'
  BY <1>1, NobodyMoves DEF purge, FlagExpires
<1>2. CASE UNCHANGED vars
  BY <1>2, NobodyMoves DEF vars
<1>3. QED
  BY <1>1, <1>2, ProducerPlaces, WorkerPlaces, AdminPlaces DEF Next

-----------------------------------------------------------------------------
(***************************************************************************)
(* Settled jobs stay settled                                               *)
(***************************************************************************)

Settled == {"done", "failed_terminal"}

\* Nothing becomes settled and nothing becomes due.
LEMMA NothingSettles ==
  ASSUME Ended,
         \A j \in Job : row'[j].status \in Settled => row[j].status \in Settled,
         \A j \in Job : Due(j)' => Due(j)
  PROVE  Ended'
BY DEF Ended, Settled

\* Only an execution of j can have been due while it lasted.
LEMMA SoleExecution ==
  ASSUME Placement, NEW w \in Worker, NEW j \in Job, exec[w].job = j
  PROVE  /\ call[j] \notin {"none", "inserted"} /\ queue[j] # 1
         /\ \A v \in Worker : delayed[v][j] # 1 /\ (exec[v].job = j => v = w)
BY DEF Placement, Placed

\* The statuses that a flush leaves.
LEMMA FlushedStatus ==
  ASSUME TypeOK, NEW j \in Job, NEW old \in Row, NEW new \in Row, NEW k \in Job
  PROVE  /\ k # j => Flushed(j, old, new)[k] = row[k]
         /\ Flushed(j, old, new)[k].status \in {row[k].status, new.status}
         /\ new.attempts = old.attempts
              => Flushed(j, old, new)[k].attempts = row[k].attempts
         /\ Flushed(j, old, new)[k].attempts \in {row[k].attempts, new.attempts}
         /\ row[k].status = "absent" => Flushed(j, old, new)[k] = row[k]
BY DEF Flushed, Flush, Column, TypeOK, Row

LEMMA MiddlewareEnded ==
  ASSUME TypeOK, Placement, Ended, NEW w \in Worker, Middleware(w)
  PROVE  Ended'
<1>0. \/ exec[w].stage = "idle"
      \/ exec[w] \in Exec /\ exec[w].job \in Job /\ exec[w].loaded \in Row
  BY BusyJob DEF Placement
<1>1. ASSUME NEW from \in ExecStage \ {"idle"}, NEW to \in ExecStage \ {"idle"},
             NEW next, next = NoExec \/ next = [exec[w] EXCEPT !.stage = "body"],
             HookLoad(w, from, to, next)
      PROVE  Ended'
  <2>1. \A v \in Worker : exec'[v].job \in {exec[v].job, None}
    BY <1>1 DEF HookLoad, TypeOK, Exec, NoExec
  <2>2. \A j \in Job : Due(j)' => Due(j)
    BY <1>1, <2>1, NoneAssumption DEF HookLoad, Due
  <2>3. QED
    BY <1>1, <2>2, NothingSettles DEF HookLoad
<1>2. CASE PreCommit(w)
  <2>1. exec[w].job \in Job /\ exec[w].loaded \in Row
    BY <1>0, <1>2 DEF PreCommit
  <2>2. \A flagged \in BOOLEAN :
          /\ Started(exec[w].loaded, flagged) \in Row
          /\ Started(exec[w].loaded, flagged).status \in {"cancelled", "running"}
    <3>1. \A flagged \in BOOLEAN : Started(exec[w].loaded, flagged) \in Row
      BY <2>1, HookTypes
    <3>2. /\ [exec[w].loaded EXCEPT !.status = "cancelled"].status = "cancelled"
          /\ [exec[w].loaded EXCEPT !.status = "running",
                !.attempts = exec[w].loaded.attempts + 1].status = "running"
      BY <2>1 DEF Row
    <3>3. QED
      BY <3>1, <3>2, Zenon DEF Started
  <2>3. PICK flagged \in BOOLEAN :
          row' = Flushed(exec[w].job, exec[w].loaded, Started(exec[w].loaded, flagged))
    BY <1>2 DEF PreCommit
  <2>4. \A j \in Job : row'[j].status \in {row[j].status, "cancelled", "running"}
    BY <2>1, <2>2, <2>3, FlushedStatus
  <2>5. \A v \in Worker : exec'[v].job = exec[v].job
    BY <1>2 DEF PreCommit, TypeOK, Exec
  <2>6. \A j \in Job : Due(j)' => Due(j)
    BY <1>2, <2>5 DEF PreCommit, Due
  <2>7. QED
    BY <2>4, <2>6, NothingSettles DEF Settled
<1>3. ASSUME PostCommit(w) \/ ErrorCommit(w) PROVE Ended'
  <2>0. PICK j \in Job : j = exec[w].job
    BY <1>0, <1>3 DEF PostCommit, ErrorCommit
  <2>1. exec[w].job = j /\ exec[w].loaded \in Row
    BY <1>0, <1>3, <2>0 DEF PostCommit, ErrorCommit
  <2>2. \A k \in Job : k # j => row'[k] = row[k]
    <3>1. /\ Returned(exec[w].loaded) \in Row
          /\ Failed(exec[w].loaded) \in Row
      BY <2>1, HookTypes
    <3>2. PICK r \in Row : row' = Flushed(j, exec[w].loaded, r)
      BY <1>3, <2>1, <3>1 DEF PostCommit, ErrorCommit
    <3>3. QED
      BY <2>1, <3>2, FlushedStatus
  <2>3. \A v \in Worker : exec'[v].job = IF v = w THEN None ELSE exec[v].job
    BY <1>3 DEF PostCommit, ErrorCommit, TypeOK, NoExec
  <2>4. \A v \in Worker, k \in Job : k # j => delayed'[v][k] = delayed[v][k]
    <3>1. \/ delayed' = delayed
          \/ delayed' = [delayed EXCEPT ![w][j] = delayed[w][j] + 1]
      BY <1>3, <2>1 DEF PostCommit, ErrorCommit
    <3>2. QED
      BY <3>1 DEF TypeOK
  <2>5. call' = call /\ queue' = queue
    BY <1>3 DEF PostCommit, ErrorCommit
  <2>6. ASSUME NEW k \in Job, k # j, row'[k].status \in Settled
        PROVE  ~Due(k)'
    BY <2>2, <2>3, <2>4, <2>5, <2>6, NoneAssumption DEF Ended, Due, Settled
  <2>7. CASE delayed' = delayed
    <3>1. /\ call[j] # "inserted" /\ queue[j] # 1
          /\ \A v \in Worker : delayed[v][j] # 1 /\ (exec[v].job = j => v = w)
      BY <2>1, SoleExecution
    <3>2. \A v \in Worker : exec'[v].job # j
      BY <2>1, <2>3, <3>1, NoneAssumption
    <3>3. ~Due(j)'
      BY <2>5, <2>7, <3>1, <3>2 DEF Due
    <3>4. ASSUME NEW k \in Job, row'[k].status \in Settled PROVE ~Due(k)'
      BY <2>6, <3>3, <3>4
    <3>5. QED
      BY <3>4 DEF Ended, Settled
  <2>8. CASE delayed' # delayed
    <3>1. Rekicks(exec[w].loaded) /\ ErrorCommit(w)
      BY <1>3, <2>8 DEF PostCommit, ErrorCommit
    <3>2. Failed(exec[w].loaded) \in Row /\ Failed(exec[w].loaded).status = "queued"
      BY <2>1, <3>1, HookTypes DEF Failed, Rekicks, Row
    <3>3. row'[j].status \in {row[j].status, "queued"}
      BY <2>1, <3>1, <3>2, FlushedStatus DEF ErrorCommit
    <3>4. Due(j)
      BY <2>1 DEF Due
    <3>5. row'[j].status \notin Settled
      BY <2>1, <3>3, <3>4 DEF Ended, Settled
    <3>6. QED
      BY <2>6, <3>5 DEF Ended, Settled
  <2>9. QED
    BY <2>7, <2>8
<1>4. QED
  <2>1. PreLoad(w) \/ PostLoad(w) \/ ErrorLoad(w) => Ended'
    BY <1>1 DEF PreLoad, PostLoad, ErrorLoad, ExecStage
  <2>2. QED
    BY <1>2, <1>3, <2>1 DEF Middleware

LEMMA EndedStep ==
  ASSUME TypeOK, Placement, Ended, [Next]_vars
  PROVE  Ended'
<1>1. ASSUME NEW j \in Job, enqueue(j) PROVE Ended'
  <2>1. row'[j].status = "queued" /\ \A k \in Job : k # j => row'[k] = row[k]
    BY <1>1 DEF enqueue, TypeOK
  <2>2. \A k \in Job : k # j => call'[k] = call[k]
    BY <1>1 DEF enqueue, TypeOK
  <2>3. QED
    BY <1>1, <2>1, <2>2 DEF enqueue, Ended, Due
<1>2. ASSUME NEW j \in Job, kiq(j) \/ KiqFails(j) PROVE Ended'
  <2>1. \A k \in Job : Due(k)' => Due(k)
    BY <1>2 DEF kiq, KiqFails, Due, TypeOK
  <2>2. QED
    BY <1>2, <2>1, NothingSettles DEF kiq, KiqFails
<1>3. ASSUME NEW w \in Worker, NEW j \in Job, Receive(w, j) PROVE Ended'
  <2>1. \A v \in Worker : exec'[v].job = IF v = w THEN j ELSE exec[v].job
    BY <1>3 DEF Receive, TypeOK
  <2>2. \A k \in Job : queue'[k] = IF k = j THEN queue[k] - 1 ELSE queue[k]
    BY <1>3 DEF Receive, TypeOK
  <2>3. queue[j] = 1
    BY <1>3 DEF Receive, Placement, Placed, TypeOK
  <2>4. \A k \in Job : Due(k)' => Due(k)
    BY <1>3, <2>1, <2>2, <2>3 DEF Receive, Due
  <2>5. QED
    BY <1>3, <2>4, NothingSettles DEF Receive
<1>4. ASSUME NEW w \in Worker, NEW j \in Job, Rekick(w, j) PROVE Ended'
  <2>1. \A v \in Worker, k \in Job :
          delayed'[v][k] = IF v = w /\ k = j THEN delayed[v][k] - 1
                                            ELSE delayed[v][k]
    BY <1>4 DEF Rekick, TypeOK
  <2>2. \A k \in Job : k # j => queue'[k] = queue[k]
    BY <1>4 DEF Rekick, TypeOK
  <2>3. delayed[w][j] = 1 /\ delayed'[w][j] = 0
    BY <1>4, <2>1 DEF Rekick, Placement, Placed, TypeOK
  <2>4. \A k \in Job : Due(k)' => Due(k)
    BY <1>4, <2>1, <2>2, <2>3 DEF Rekick, Due
  <2>5. QED
    BY <1>4, <2>4, NothingSettles DEF Rekick
<1>5. ASSUME NEW w \in Worker, NEW how \in {"returned", "raised"}, BodyEnds(w, how)
      PROVE  Ended'
  <2>1. \A v \in Worker : exec'[v].job = exec[v].job
    BY <1>5 DEF BodyEnds, TypeOK, Exec
  <2>2. QED
    BY <1>5, <2>1 DEF BodyEnds, Ended, Due
<1>6. ASSUME NEW w \in Worker, HookFails(w) PROVE Ended'
  <2>1. \A v \in Worker : exec'[v].job \in {exec[v].job, None}
    BY <1>6 DEF HookFails, TypeOK, Exec, NoExec
  <2>2. QED
    BY <1>6, <2>1, NoneAssumption DEF HookFails, Ended, Due
<1>7. ASSUME NEW w \in Worker, Crash(w) PROVE Ended'
  <2>1. \A v \in Worker : exec'[v].job \in {exec[v].job, None}
    BY <1>7 DEF Crash, TypeOK, NoExec
  <2>2. \A v \in Worker, k \in Job : delayed'[v][k] \in {delayed[v][k], 0}
    BY <1>7 DEF Crash, TypeOK
  <2>3. QED
    BY <1>7, <2>1, <2>2, NoneAssumption DEF Crash, Ended, Due
<1>8. ASSUME NEW a \in Admin, CancelCommit(a) PROVE Ended'
  <2>1. \A j \in Job :
          row'[j].status \in {row[j].status, "cancelled", "cancelling"}
    BY <1>8 DEF CancelCommit, Flush, Column, ToCancel, TypeOK, Req, Row
  <2>2. QED
    BY <1>8, <2>1 DEF CancelCommit, Ended, Due
<1>9. ASSUME NEW a \in Admin, Unqueue(a) PROVE Ended'
  <2>1. \A k \in Job : queue'[k] \in {0, queue[k]}
    BY <1>9 DEF Unqueue, Remove
  <2>2. QED
    BY <1>9, <2>1 DEF Unqueue, Ended, Due
<1>10. ASSUME NEW j \in Job, purge(j) PROVE Ended'
  <2>1. \A k \in Job : row'[k] = row[k] \/ row'[k].status = "absent"
    BY <1>10 DEF purge, TypeOK, NoRow
  <2>2. QED
    BY <1>10, <2>1 DEF purge, Ended, Due
<1>11. CASE UNCHANGED <<row, call, queue, delayed, exec>>
  BY <1>11 DEF Ended, Due
<1>12. QED
  <2>1. CASE Producer
    BY <1>1, <1>2, <2>1 DEF Producer
  <2>2. ASSUME NEW w \in Worker, WorkerStep(w) PROVE Ended'
    BY <1>3, <1>4, <1>5, <1>6, <1>7, <2>2, MiddlewareEnded DEF WorkerStep
  <2>3. ASSUME NEW a \in Admin, AdminStep(a) PROVE Ended'
    BY <1>8, <1>9, <1>11, <2>3
       DEF AdminStep, CancelLoad, DrainLoad, signal_cancel, RequestDies
  <2>4. ASSUME NEW j \in Job, FlagExpires(j) PROVE Ended'
    BY <1>11, <2>4 DEF FlagExpires
  <2>5. QED
    BY <1>10, <1>11, <2>1, <2>2, <2>3, <2>4 DEF Next, vars

-----------------------------------------------------------------------------
(***************************************************************************)
(* The budget of attempts                                                  *)
(***************************************************************************)

\* Every process at work has a job of the table.
LEMMA WorkHasAJob ==
  ASSUME TypeOK, Placement
  PROVE  \A w \in Worker : exec[w].stage # "idle" => exec[w].job \in Job
BY BusyJob DEF Placement

\* No attempts are written, nothing new waits and nothing new will count one.
LEMMA BudgetKept ==
  ASSUME TypeOK, Placement, Budget,
         \A j \in Job : /\ row'[j].attempts = row[j].attempts
                        /\ row'[j].status = "absent" <=> row[j].status = "absent",
         \A j \in Job : Waiting(j)' => Waiting(j),
         \A w \in Worker : \/ exec'[w] = exec[w]
                           \/ exec'[w].stage \notin {"received", "pre", "error"}
  PROVE  Budget'
<1>1. \A j \in Job :
        /\ row'[j].attempts <= MaxAttempts
        /\ row'[j].status = "absent" => row'[j].attempts = 0
        /\ Waiting(j)' => row'[j].attempts < MaxAttempts
  BY DEF Budget
<1>2. ASSUME NEW w \in Worker
      PROVE  /\ exec'[w].stage = "received" => row'[exec'[w].job].attempts < MaxAttempts
             /\ exec'[w].stage = "pre" => exec'[w].loaded.attempts < MaxAttempts
             /\ exec'[w].stage = "error" =>
                  \/ row'[exec'[w].job].status = "absent"
                  \/ row'[exec'[w].job].attempts = exec'[w].loaded.attempts
  <2>1. CASE exec'[w] = exec[w]
    BY <2>1, WorkHasAJob DEF Budget
  <2>2. CASE exec'[w].stage \notin {"received", "pre", "error"}
    BY <2>2
  <2>3. QED
    BY <2>1, <2>2
<1>3. QED
  BY <1>1, <1>2 DEF Budget

\* One row j changes, and no process is to execute it.
LEMMA RowSet ==
  ASSUME TypeOK, Placement, Budget, NEW j \in Job,
         \A k \in Job : k # j => row'[k] = row[k] /\ (Waiting(k)' => Waiting(k)),
         row'[j].attempts = 0, exec' = exec,
         \A w \in Worker : exec[w].job = j => row'[j].status = "absent"
  PROVE  Budget'
<1>1. 0 < MaxAttempts /\ 0 <= MaxAttempts
  BY AttemptsAssumption
<1>2. \A k \in Job :
        /\ row'[k].attempts <= MaxAttempts
        /\ row'[k].status = "absent" => row'[k].attempts = 0
        /\ Waiting(k)' => row'[k].attempts < MaxAttempts
  BY <1>1 DEF Budget
<1>3. ASSUME NEW w \in Worker
      PROVE  /\ exec'[w].stage = "received" => row'[exec'[w].job].attempts < MaxAttempts
             /\ exec'[w].stage = "pre" => exec'[w].loaded.attempts < MaxAttempts
             /\ exec'[w].stage = "error" =>
                  \/ row'[exec'[w].job].status = "absent"
                  \/ row'[exec'[w].job].attempts = exec'[w].loaded.attempts
  BY <1>1, WorkHasAJob DEF Budget
<1>4. QED
  BY <1>2, <1>3 DEF Budget

\* A hook of process w commits: what it does to the row of its job.
LEMMA HookBudget ==
  ASSUME TypeOK, Placement, Budget, NEW w \in Worker, NEW j \in Job,
         exec[w].job = j,
         \A v \in Worker : v # w => exec'[v] = exec[v],
         exec'[w].stage \notin {"received", "pre", "error"},
         \A k \in Job : k # j => row'[k] = row[k] /\ (Waiting(k)' => Waiting(k)),
         row'[j].attempts <= MaxAttempts,
         row'[j].status = "absent" => row'[j].attempts = 0,
         Waiting(j)' => row'[j].attempts < MaxAttempts
  PROVE  Budget'
<1>1. \A k \in Job :
        /\ row'[k].attempts <= MaxAttempts
        /\ row'[k].status = "absent" => row'[k].attempts = 0
        /\ Waiting(k)' => row'[k].attempts < MaxAttempts
  BY DEF Budget
<1>2. ASSUME NEW v \in Worker
      PROVE  /\ exec'[v].stage = "received" => row'[exec'[v].job].attempts < MaxAttempts
             /\ exec'[v].stage = "pre" => exec'[v].loaded.attempts < MaxAttempts
             /\ exec'[v].stage = "error" =>
                  \/ row'[exec'[v].job].status = "absent"
                  \/ row'[exec'[v].job].attempts = exec'[v].loaded.attempts
  <2>1. CASE v = w
    BY <2>1
  <2>2. CASE v # w
    <3>1. exec'[v] = exec[v] /\ exec[v].job # j
      BY <2>2, SoleExecution
    <3>2. QED
      BY <3>1, WorkHasAJob DEF Budget
  <2>3. QED
    BY <2>1, <2>2
<1>3. QED
  BY <1>1, <1>2 DEF Budget

LEMMA ProducerBudget == ASSUME TypeOK, Placement, Budget, Producer PROVE Budget'
<1>1. ASSUME NEW j \in Job, enqueue(j) PROVE Budget'
  <2>1. row'[j].attempts = 0 /\ \A k \in Job : k # j => row'[k] = row[k]
    BY <1>1 DEF enqueue, TypeOK
  <2>2. \A k \in Job : k # j => (Waiting(k)' => Waiting(k))
    BY <1>1 DEF enqueue, Waiting, TypeOK
  <2>3. \A w \in Worker : exec[w].job # j
    BY <1>1 DEF enqueue, Placement, Placed
  <2>4. QED
    BY <1>1, <2>1, <2>2, <2>3, RowSet DEF enqueue
<1>2. ASSUME NEW j \in Job, kiq(j) \/ KiqFails(j) PROVE Budget'
  <2>1. \A k \in Job : Waiting(k)' => Waiting(k)
    BY <1>2 DEF kiq, KiqFails, Waiting, TypeOK
  <2>2. QED
    BY <1>2, <2>1, BudgetKept DEF kiq, KiqFails
<1>3. QED
  BY <1>1, <1>2 DEF Producer

LEMMA MiddlewareBudget ==
  ASSUME TypeOK, Placement, Budget, NEW w \in Worker, Middleware(w)
  PROVE  Budget'
<1>1. exec[w].stage # "idle"
  BY DEF Middleware, HookLoad, PreLoad, PreCommit, PostLoad, PostCommit,
         ErrorLoad, ErrorCommit
<1>2. PICK j \in Job : j = exec[w].job
  BY <1>1, WorkHasAJob
<1>3. exec[w] \in Exec /\ exec[w].loaded \in Row /\ row[j] \in Row
  BY <1>1, BusyJob DEF Placement, TypeOK
<1>4. ASSUME NEW from, NEW to, NEW next, HookLoad(w, from, to, next)
      PROVE  /\ \A k \in Job : Waiting(k)' => Waiting(k)
             /\ \A v \in Worker : v # w => exec'[v] = exec[v]
             /\ row[j].status = "absent" => exec'[w] = next
             /\ row[j].status # "absent" =>
                  /\ exec'[w].stage = to /\ exec'[w].loaded = row[j]
                  /\ exec'[w].job = j
  BY <1>2, <1>3, <1>4 DEF HookLoad, Waiting, TypeOK, Exec
<1>5. ASSUME NEW from, NEW to, NEW next, HookLoad(w, from, to, next),
             next.stage \notin {"received", "pre", "error"},
             \/ to = "post"
             \/ to = "pre" /\ row[j].attempts < MaxAttempts
             \/ to = "error"
      PROVE  Budget'
  <2>. row' = row
    BY <1>5 DEF HookLoad
  <2>0. /\ \A k \in Job : Waiting(k)' => Waiting(k)
        /\ \A v \in Worker : v # w => exec'[v] = exec[v]
        /\ row[j].status = "absent" => exec'[w] = next
        /\ row[j].status # "absent" =>
             /\ exec'[w].stage = to /\ exec'[w].loaded = row[j]
             /\ exec'[w].job = j
    BY <1>4, <1>5
  <2>1. CASE row[j].status = "absent" \/ to = "post"
    <3>1. exec'[w].stage \notin {"received", "pre", "error"}
      BY <1>5, <2>0, <2>1
    <3>2. QED
      BY <2>0, <3>1, BudgetKept
  <2>2. CASE row[j].status # "absent" /\ to \in {"pre", "error"}
    <3>1. \A k \in Job :
            /\ row'[k].attempts <= MaxAttempts
            /\ row'[k].status = "absent" => row'[k].attempts = 0
            /\ Waiting(k)' => row'[k].attempts < MaxAttempts
      BY <2>0 DEF Budget
    <3>2. ASSUME NEW v \in Worker
          PROVE  /\ exec'[v].stage = "received"
                      => row'[exec'[v].job].attempts < MaxAttempts
                 /\ exec'[v].stage = "pre" => exec'[v].loaded.attempts < MaxAttempts
                 /\ exec'[v].stage = "error" =>
                      \/ row'[exec'[v].job].status = "absent"
                      \/ row'[exec'[v].job].attempts = exec'[v].loaded.attempts
      <4>1. CASE v = w
        BY <1>5, <2>0, <2>2, <4>1
      <4>2. CASE v # w
        BY <2>0, <4>2 DEF Budget
      <4>3. QED
        BY <4>1, <4>2
    <3>3. QED
      BY <3>1, <3>2 DEF Budget
  <2>3. QED
    BY <1>5, <2>1, <2>2
<1>6. CASE PreLoad(w)
  <2>1. [exec[w] EXCEPT !.stage = "body"].stage = "body"
    BY <1>3 DEF Exec
  <2>2. row[j].attempts < MaxAttempts
    BY <1>2, <1>6 DEF PreLoad, HookLoad, Budget
  <2>3. QED
    BY <1>5, <1>6, <2>1, <2>2 DEF PreLoad
<1>7. CASE PostLoad(w)
  BY <1>5, <1>7 DEF PostLoad, NoExec
<1>8. CASE ErrorLoad(w)
  BY <1>5, <1>8 DEF ErrorLoad, NoExec
<1>9. CASE PreCommit(w)
  <2>1. PICK flagged \in BOOLEAN :
          row' = Flushed(j, exec[w].loaded, Started(exec[w].loaded, flagged))
    BY <1>2, <1>9 DEF PreCommit
  <2>2. exec[w].loaded.attempts < MaxAttempts /\ exec[w].loaded.attempts \in Nat
    BY <1>3, <1>9 DEF PreCommit, Budget, Row
  <2>3. PICK r \in Row : /\ row' = Flushed(j, exec[w].loaded, r)
                         /\ r.status # "absent" /\ r.attempts <= MaxAttempts
    <3>1. Started(exec[w].loaded, flagged) \in Row
      BY <1>3, HookTypes
    <3>2. /\ [exec[w].loaded EXCEPT !.status = "cancelled"].status # "absent"
          /\ [exec[w].loaded EXCEPT !.status = "cancelled"].attempts <= MaxAttempts
          /\ [exec[w].loaded EXCEPT !.status = "running",
                !.attempts = exec[w].loaded.attempts + 1].status # "absent"
          /\ [exec[w].loaded EXCEPT !.status = "running",
                !.attempts = exec[w].loaded.attempts + 1].attempts <= MaxAttempts
      BY <1>3, <2>2, AttemptsAssumption DEF Row
    <3>3. \/ Started(exec[w].loaded, flagged)
               = [exec[w].loaded EXCEPT !.status = "cancelled"]
          \/ Started(exec[w].loaded, flagged)
               = [exec[w].loaded EXCEPT !.status = "running",
                    !.attempts = exec[w].loaded.attempts + 1]
      BY Zenon DEF Started
    <3>4. /\ Started(exec[w].loaded, flagged).status # "absent"
          /\ Started(exec[w].loaded, flagged).attempts <= MaxAttempts
      BY <3>2, <3>3, Zenon
    <3>5. QED
      BY <2>1, <3>1, <3>4
  <2>4. /\ \A k \in Job : k # j => row'[k] = row[k]
        /\ row'[j].attempts <= MaxAttempts
        /\ row'[j].status = "absent" => row'[j].attempts = 0
    BY <1>3, <2>3, FlushedStatus DEF Budget
  <2>5. /\ \A v \in Worker : v # w => exec'[v] = exec[v]
        /\ exec'[w].stage = "body"
    BY <1>3, <1>9 DEF PreCommit, TypeOK, Exec
  <2>6. \A k \in Job : Waiting(k)' => Waiting(k)
    BY <1>9 DEF PreCommit, Waiting
  <2>7. ~Waiting(j)
    BY <1>2, SoleExecution DEF Waiting, TypeOK, CallStage
  <2>8. QED
    BY <1>2, <2>4, <2>5, <2>6, <2>7, HookBudget
<1>10. ASSUME NEW r \in Row, row' = Flushed(j, exec[w].loaded, r),
              r.status # "absent", r.attempts = exec[w].loaded.attempts
       PROVE  \A k \in Job : /\ row'[k].attempts = row[k].attempts
                             /\ row'[k].status = "absent" <=> row[k].status = "absent"
  BY <1>3, <1>10, FlushedStatus
<1>11. CASE PostCommit(w)
  <2>1. /\ Returned(exec[w].loaded) \in Row
        /\ Returned(exec[w].loaded).status # "absent"
        /\ Returned(exec[w].loaded).attempts = exec[w].loaded.attempts
    BY <1>3, HookTypes DEF Returned, Row
  <2>2. \A k \in Job : Waiting(k)' => Waiting(k)
    BY <1>11 DEF PostCommit, Waiting
  <2>3. \A v \in Worker : exec'[v] = exec[v] \/ exec'[v].stage = "idle"
    BY <1>11 DEF PostCommit, TypeOK, NoExec
  <2>4. row' = Flushed(j, exec[w].loaded, Returned(exec[w].loaded))
    BY <1>2, <1>11 DEF PostCommit
  <2>5. QED
    <3>1. \A k \in Job : /\ row'[k].attempts = row[k].attempts
                         /\ row'[k].status = "absent" <=> row[k].status = "absent"
      BY <1>10, <2>1, <2>4
    <3>2. QED
      BY <2>2, <2>3, <3>1, BudgetKept
<1>12. CASE ErrorCommit(w)
  <2>1. /\ Failed(exec[w].loaded) \in Row
        /\ Failed(exec[w].loaded).status # "absent"
        /\ Failed(exec[w].loaded).attempts = exec[w].loaded.attempts
    BY <1>3, HookTypes DEF Failed, Row
  <2>2. row' = Flushed(j, exec[w].loaded, Failed(exec[w].loaded))
    BY <1>2, <1>12 DEF ErrorCommit
  <2>3. \A k \in Job : /\ row'[k].attempts = row[k].attempts
                       /\ row'[k].status = "absent" <=> row[k].status = "absent"
    BY <1>10, <2>1, <2>2
  <2>4. \A k \in Job : k # j => row'[k] = row[k]
    BY <1>3, <2>1, <2>2, FlushedStatus
  <2>5. /\ \A v \in Worker : v # w => exec'[v] = exec[v]
        /\ exec'[w].stage = "idle"
    BY <1>12 DEF ErrorCommit, TypeOK, NoExec
  <2>6. \A k \in Job : k # j => (Waiting(k)' => Waiting(k))
    <3>1. \A v \in Worker, k \in Job : k # j => delayed'[v][k] = delayed[v][k]
      <4>1. \/ delayed' = delayed
            \/ delayed' = [delayed EXCEPT ![w][j] = delayed[w][j] + 1]
        BY <1>2, <1>12 DEF ErrorCommit
      <4>2. QED
        BY <4>1 DEF TypeOK
    <3>2. QED
      BY <1>12, <3>1 DEF ErrorCommit, Waiting
  <2>7. Waiting(j)' => row'[j].attempts < MaxAttempts
    <3>1. ~Waiting(j)
      BY <1>2, SoleExecution DEF Waiting, TypeOK, CallStage
    <3>2. CASE delayed' = delayed
      BY <1>12, <3>1, <3>2 DEF ErrorCommit, Waiting
    <3>3. CASE delayed' # delayed
      <4>1. row[j].status # "absent" /\ RetriesLeft(exec[w].loaded)
        BY <1>2, <1>12, <3>3 DEF ErrorCommit, Rekicks
      <4>2. row[j].attempts = exec[w].loaded.attempts
        BY <1>2, <1>12, <4>1 DEF ErrorCommit, Budget
      <4>3. QED
        BY <1>2, <2>3, <4>1, <4>2 DEF RetriesLeft
    <3>4. QED
      BY <3>2, <3>3
  <2>8. row'[j].attempts <= MaxAttempts
        /\ (row'[j].status = "absent" => row'[j].attempts = 0)
    BY <1>2, <2>3 DEF Budget
  <2>9. QED
    BY <1>2, <2>4, <2>5, <2>6, <2>7, <2>8, HookBudget
<1>13. QED
  BY <1>6, <1>7, <1>8, <1>9, <1>11, <1>12 DEF Middleware

LEMMA WorkerBudget ==
  ASSUME TypeOK, Placement, Budget, NEW w \in Worker, WorkerStep(w)
  PROVE  Budget'
<1>1. ASSUME NEW j \in Job, Receive(w, j) PROVE Budget'
  <2>1. \A v \in Worker :
          exec'[v] = IF v = w THEN [stage |-> "received", job |-> j, loaded |-> NoRow]
                              ELSE exec[v]
    BY <1>1 DEF Receive, TypeOK
  <2>2. \A k \in Job : queue'[k] = IF k = j THEN queue[k] - 1 ELSE queue[k]
    BY <1>1 DEF Receive, TypeOK
  <2>3. queue[j] = 1
    BY <1>1 DEF Receive, Placement, Placed, TypeOK
  <2>4. \A k \in Job : Waiting(k)' => Waiting(k)
    BY <1>1, <2>2, <2>3 DEF Receive, Waiting
  <2>5. row' = row /\ row[j].attempts < MaxAttempts
    BY <1>1, <2>3 DEF Receive, Budget, Waiting
  <2>6. \A k \in Job :
          /\ row'[k].attempts <= MaxAttempts
          /\ row'[k].status = "absent" => row'[k].attempts = 0
          /\ Waiting(k)' => row'[k].attempts < MaxAttempts
    BY <2>4, <2>5 DEF Budget
  <2>7. ASSUME NEW v \in Worker
        PROVE  /\ exec'[v].stage = "received"
                    => row'[exec'[v].job].attempts < MaxAttempts
               /\ exec'[v].stage = "pre" => exec'[v].loaded.attempts < MaxAttempts
               /\ exec'[v].stage = "error" =>
                    \/ row'[exec'[v].job].status = "absent"
                    \/ row'[exec'[v].job].attempts = exec'[v].loaded.attempts
    <3>1. CASE v = w
      BY <2>1, <2>5, <3>1
    <3>2. CASE v # w
      BY <2>1, <2>5, <3>2 DEF Budget
    <3>3. QED
      BY <3>1, <3>2
  <2>8. QED
    BY <2>6, <2>7 DEF Budget
<1>2. ASSUME NEW j \in Job, Rekick(w, j) PROVE Budget'
  <2>1. \A v \in Worker, k \in Job :
          delayed'[v][k] = IF v = w /\ k = j THEN delayed[v][k] - 1
                                            ELSE delayed[v][k]
    BY <1>2 DEF Rekick, TypeOK
  <2>2. \A k \in Job : k # j => queue'[k] = queue[k]
    BY <1>2 DEF Rekick, TypeOK
  <2>3. delayed[w][j] = 1
    BY <1>2 DEF Rekick, Placement, Placed, TypeOK
  <2>4. \A k \in Job : Waiting(k)' => Waiting(k)
    BY <1>2, <2>1, <2>2, <2>3 DEF Rekick, Waiting
  <2>5. QED
    BY <1>2, <2>4, BudgetKept DEF Rekick
<1>3. ASSUME NEW how \in {"returned", "raised"}, BodyEnds(w, how) PROVE Budget'
  <2>1. \A v \in Worker : exec'[v] = exec[v] \/ exec'[v].stage = how
    BY <1>3 DEF BodyEnds, TypeOK, Exec
  <2>2. \A k \in Job : Waiting(k)' => Waiting(k)
    BY <1>3 DEF BodyEnds, Waiting
  <2>3. QED
    BY <1>3, <2>1, <2>2, BudgetKept DEF BodyEnds
<1>4. CASE HookFails(w)
  <2>1. \A v \in Worker : exec'[v] = exec[v] \/ exec'[v].stage \in {"body", "idle"}
    BY <1>4 DEF HookFails, TypeOK, Exec, NoExec
  <2>2. \A k \in Job : Waiting(k)' => Waiting(k)
    BY <1>4 DEF HookFails, Waiting
  <2>3. QED
    BY <1>4, <2>1, <2>2, BudgetKept DEF HookFails
<1>5. CASE Crash(w)
  <2>1. \A v \in Worker : exec'[v] = exec[v] \/ exec'[v].stage = "idle"
    BY <1>5 DEF Crash, TypeOK, NoExec
  <2>2. \A v \in Worker, k \in Job : delayed'[v][k] \in {delayed[v][k], 0}
    BY <1>5 DEF Crash, TypeOK
  <2>3. \A k \in Job : Waiting(k)' => Waiting(k)
    BY <1>5, <2>2 DEF Crash, Waiting
  <2>4. QED
    BY <1>5, <2>1, <2>3, BudgetKept DEF Crash
<1>6. QED
  BY <1>1, <1>2, <1>3, <1>4, <1>5, MiddlewareBudget DEF WorkerStep

LEMMA BudgetStep == ASSUME TypeOK, Placement, Budget, [Next]_vars PROVE Budget'
<1>1. ASSUME NEW a \in Admin, CancelCommit(a) PROVE Budget'
  <2>1. \A j \in Job :
          /\ row'[j].attempts = row[j].attempts
          /\ row'[j].status = "absent" <=> row[j].status = "absent"
    BY <1>1 DEF CancelCommit, Flush, Column, ToCancel, TypeOK, Req, Row
  <2>2. \A k \in Job : Waiting(k)' => Waiting(k)
    BY <1>1 DEF CancelCommit, Waiting
  <2>3. QED
    BY <1>1, <2>1, <2>2, BudgetKept DEF CancelCommit
<1>2. ASSUME NEW a \in Admin, Unqueue(a) PROVE Budget'
  <2>1. \A k \in Job : queue'[k] \in {0, queue[k]}
    BY <1>2 DEF Unqueue, Remove
  <2>2. \A k \in Job : Waiting(k)' => Waiting(k)
    BY <1>2, <2>1 DEF Unqueue, Waiting
  <2>3. QED
    BY <1>2, <2>2, BudgetKept DEF Unqueue
<1>3. ASSUME NEW j \in Job, purge(j) PROVE Budget'
  <2>1. /\ \A k \in Job : k # j => row'[k] = row[k]
        /\ row'[j].status = "absent" /\ row'[j].attempts = 0
    BY <1>3 DEF purge, TypeOK, NoRow
  <2>2. \A k \in Job : Waiting(k)' => Waiting(k)
    BY <1>3 DEF purge, Waiting
  <2>3. QED
    BY <1>3, <2>1, <2>2, RowSet DEF purge
<1>4. CASE UNCHANGED <<row, call, queue, delayed, exec>>
  <2>1. \A k \in Job : Waiting(k)' => Waiting(k)
    BY <1>4 DEF Waiting
  <2>2. QED
    BY <1>4, <2>1, BudgetKept
<1>5. ASSUME NEW a \in Admin, AdminStep(a) PROVE Budget'
  BY <1>1, <1>2, <1>4, <1>5
     DEF AdminStep, CancelLoad, DrainLoad, signal_cancel, RequestDies
<1>6. ASSUME NEW j \in Job, FlagExpires(j) PROVE Budget'
  BY <1>4, <1>6 DEF FlagExpires
<1>7. QED
  BY <1>3, <1>4, <1>5, <1>6, ProducerBudget, WorkerBudget DEF Next, vars

-----------------------------------------------------------------------------
(***************************************************************************)
(* The lifecycle                                                           *)
(***************************************************************************)

\* The status that a flush leaves.
LEMMA FlushedExactly ==
  ASSUME TypeOK, NEW j \in Job, NEW old \in Row, NEW new \in Row
  PROVE  Flushed(j, old, new)[j].status =
           IF row[j].status = "absent" \/ new.status = old.status THEN row[j].status
           ELSE new.status
BY DEF Flushed, Flush, Column, TypeOK, Row

\* The statuses that the hooks write.
LEMMA HookStatus ==
  ASSUME NEW r \in Row
  PROVE  /\ \A flagged \in BOOLEAN :
              Started(r, flagged).status =
                IF r.status \in Cancelled \/ flagged THEN "cancelled" ELSE "running"
         /\ Returned(r).status = IF r.status \in Cancelled THEN "cancelled" ELSE "done"
         /\ Failed(r).status = IF r.status \in Cancelled THEN "cancelled"
                               ELSE IF RetriesLeft(r) THEN "queued" ELSE "failed_terminal"
<1>1. /\ [r EXCEPT !.status = "cancelled"].status = "cancelled"
      /\ [r EXCEPT !.status = "running", !.attempts = r.attempts + 1].status = "running"
      /\ \A x \in Status : [r EXCEPT !.status = x].status = x
  BY DEF Row
<1>2. \A flagged \in BOOLEAN :
        Started(r, flagged).status =
          IF r.status \in Cancelled \/ flagged THEN "cancelled" ELSE "running"
  BY <1>1, Zenon DEF Started
<1>3. /\ Returned(r).status = IF r.status \in Cancelled THEN "cancelled" ELSE "done"
      /\ Failed(r).status = IF r.status \in Cancelled THEN "cancelled"
                            ELSE IF RetriesLeft(r) THEN "queued" ELSE "failed_terminal"
  BY <1>1 DEF Returned, Failed, Status
<1>4. QED
  BY <1>2, <1>3

\* Rows that are only cancelled or purged, and executions that stand still or are
\* sound afterwards.
LEMMA StagesKept ==
  ASSUME TypeOK, Placement, StagesSound,
         \A j \in Job : \/ row'[j].status = row[j].status
                        \/ /\ row[j].status # "absent"
                           /\ row'[j].status \in {"absent", "cancelled", "cancelling"},
         \A j \in Job : Waiting(j)' => Waiting(j),
         \A j \in Job : call'[j] = "none" => call[j] = "none",
         \A w \in Worker : exec'[w] = exec[w] \/ WorkerSound(w)',
         \A a \in Admin : admin'[a] = admin[a] \/ AdminSound(a)'
  PROVE  StagesSound'
<1>1. ASSUME NEW j \in Job
      PROVE  /\ call'[j] = "none" => row'[j].status = "absent"
             /\ row'[j].status = "running" => ~Waiting(j)'
  BY DEF StagesSound
<1>2. ASSUME NEW w \in Worker, exec'[w] = exec[w]
      PROVE  WorkerSound(w)'
  <2>1. exec[w].stage # "idle" => exec[w].job \in Job
    BY WorkHasAJob
  <2>2. WorkerSound(w)
    BY DEF StagesSound
  <2>3. CASE exec[w].stage = "idle"
    BY <1>2, <2>3 DEF WorkerSound, Late
  <2>4. CASE exec[w].stage # "idle"
    BY <1>2, <2>1, <2>2, <2>4 DEF WorkerSound
  <2>5. QED
    BY <2>3, <2>4
<1>3. ASSUME NEW a \in Admin, admin'[a] = admin[a]
      PROVE  AdminSound(a)'
  BY <1>3 DEF StagesSound, AdminSound
<1>4. QED
  BY <1>1, <1>2, <1>3 DEF StagesSound

\* An execution that flushes the row of its job, which no other execution has.
LEMMA StagesFlushed ==
  ASSUME TypeOK, Placement, StagesSound, NEW w \in Worker, NEW j \in Job,
         exec[w].job = j, call' = call, admin' = admin,
         \A k \in Job : k # j => row'[k] = row[k] /\ (Waiting(k)' => Waiting(k)),
         row[j].status = "absent" => row'[j].status = "absent",
         row'[j].status = "running" => ~Waiting(j)',
         \A v \in Worker : v # w => exec'[v] = exec[v],
         WorkerSound(w)'
  PROVE  StagesSound'
<1>1. ASSUME NEW k \in Job
      PROVE  /\ call'[k] = "none" => row'[k].status = "absent"
             /\ row'[k].status = "running" => ~Waiting(k)'
  BY DEF StagesSound
<1>2. ASSUME NEW v \in Worker, v # w
      PROVE  WorkerSound(v)'
  <2>1. WorkerSound(v) /\ exec'[v] = exec[v]
    BY <1>2 DEF StagesSound
  <2>2. exec[v].job # j
    BY <1>2, SoleExecution
  <2>3. CASE exec[v].stage = "idle"
    BY <2>1, <2>3 DEF WorkerSound, Late
  <2>4. CASE exec[v].stage # "idle"
    <3>1. row'[exec[v].job] = row[exec[v].job]
      BY <2>2, <2>4, WorkHasAJob
    <3>2. QED
      BY <2>1, <3>1 DEF WorkerSound
  <2>5. QED
    BY <2>3, <2>4
<1>3. \A a \in Admin : AdminSound(a)'
  BY DEF StagesSound, AdminSound
<1>4. QED
  BY <1>1, <1>2, <1>3 DEF StagesSound

\* No execution is sound whatever the rows are.
LEMMA IdleSound ==
  ASSUME NEW w \in Worker, exec'[w] = NoExec
  PROVE  WorkerSound(w)'
BY DEF WorkerSound, NoExec, Late

LEMMA MiddlewareStages ==
  ASSUME TypeOK, Placement, StagesSound, NEW w \in Worker, Middleware(w)
  PROVE  StagesSound'
<1>0. /\ \/ exec[w].stage = "idle"
         \/ exec[w] \in Exec /\ exec[w].job \in Job /\ exec[w].loaded \in Row
      /\ WorkerSound(w)
  BY BusyJob DEF Placement, StagesSound
<1>1. ASSUME NEW from \in ExecStage \ {"idle"}, NEW to \in ExecStage \ {"idle"},
             NEW next, HookLoad(w, from, to, next),
             \/ from = "received" /\ to = "pre" /\ next = [exec[w] EXCEPT !.stage = "body"]
             \/ from \in Late /\ to \in {"post", "error"} /\ next = NoExec
      PROVE  StagesSound'
  <2>1. exec[w].stage = from /\ exec[w] \in Exec /\ exec[w].job \in Job
    BY <1>0, <1>1 DEF HookLoad
  <2>2. exec' = [exec EXCEPT ![w] =
                   IF row[exec[w].job].status = "absent" THEN next
                   ELSE [exec[w] EXCEPT !.stage = to, !.loaded = row[exec[w].job]]]
    BY <1>1 DEF HookLoad
  <2>3. UNCHANGED <<row, call, queue, delayed, flag, admin>>
    BY <1>1 DEF HookLoad
  <2>4. \A j \in Job : Waiting(j)' => Waiting(j)
    BY <2>3 DEF Waiting
  <2>5. \A v \in Worker : v # w => exec'[v] = exec[v]
    BY <2>2 DEF TypeOK
  <2>6. WorkerSound(w)'
    <3>1. CASE row[exec[w].job].status = "absent"
      <4>1. exec'[w] = next
        BY <2>2, <3>1 DEF TypeOK
      <4>2. CASE next = NoExec
        BY <4>1, <4>2, IdleSound
      <4>3. CASE next = [exec[w] EXCEPT !.stage = "body"]
        <5>1. exec'[w].stage = "body" /\ exec'[w].job = exec[w].job
          BY <2>1, <4>1, <4>3 DEF Exec
        <5>2. QED
          BY <2>3, <3>1, <5>1 DEF WorkerSound
      <4>4. QED
        BY <1>1, <4>2, <4>3
    <3>2. CASE row[exec[w].job].status # "absent"
      <4>1. exec'[w] = [exec[w] EXCEPT !.stage = to, !.loaded = row[exec[w].job]]
        BY <2>2, <3>2 DEF TypeOK
      <4>2. /\ exec'[w].stage = to /\ exec'[w].job = exec[w].job
            /\ exec'[w].loaded = row[exec[w].job]
        BY <2>1, <4>1 DEF Exec
      <4>3. QED
        BY <1>0, <1>1, <2>1, <2>3, <4>2 DEF WorkerSound, Late
    <3>3. QED
      BY <3>1, <3>2
  <2>7. QED
    BY <2>3, <2>4, <2>5, <2>6, StagesKept
<1>2. CASE PreCommit(w)
  <2>0. PICK j \in Job : j = exec[w].job
    BY <1>0, <1>2 DEF PreCommit
  <2>1. exec[w].stage = "pre" /\ exec[w].loaded \in Row /\ exec[w] \in Exec
    BY <1>0, <1>2 DEF PreCommit
  <2>2. PICK flagged \in BOOLEAN :
          row' = Flushed(j, exec[w].loaded, Started(exec[w].loaded, flagged))
    BY <1>2, <2>0 DEF PreCommit
  <2>3. Started(exec[w].loaded, flagged) \in Row
    BY <2>1, HookTypes
  <2>4. Started(exec[w].loaded, flagged).status \in {"cancelled", "running"}
    BY <2>1, HookStatus
  <2>5. /\ \A k \in Job : k # j => row'[k] = row[k]
        /\ row'[j].status =
             IF row[j].status = "absent"
                \/ Started(exec[w].loaded, flagged).status = exec[w].loaded.status
             THEN row[j].status ELSE Started(exec[w].loaded, flagged).status
    BY <2>1, <2>2, <2>3, FlushedStatus, FlushedExactly
  <2>6. UNCHANGED <<call, queue, delayed, flag, admin>>
        /\ exec' = [exec EXCEPT ![w].stage = "body"]
    BY <1>2 DEF PreCommit
  <2>7. \A k \in Job : Waiting(k)' => Waiting(k)
    BY <2>6 DEF Waiting
  <2>8. ~Waiting(j)
    BY <2>0, SoleExecution DEF Waiting, TypeOK, CallStage
  <2>9. /\ \A v \in Worker : v # w => exec'[v] = exec[v]
        /\ exec'[w].stage = "body" /\ exec'[w].job = j
    BY <2>0, <2>1, <2>6 DEF TypeOK, Exec
  <2>10. row'[j].status # "queued"
    BY <1>0, <2>0, <2>1, <2>4, <2>5 DEF WorkerSound
  <2>11. WorkerSound(w)'
    BY <2>9, <2>10 DEF WorkerSound
  <2>12. QED
    BY <2>0, <2>5, <2>6, <2>7, <2>8, <2>9, <2>11, StagesFlushed
<1>3. CASE PostCommit(w)
  <2>0. PICK j \in Job : j = exec[w].job
    BY <1>0, <1>3 DEF PostCommit
  <2>1. exec[w].loaded \in Row
    BY <1>0, <1>3 DEF PostCommit
  <2>2. row' = Flushed(j, exec[w].loaded, Returned(exec[w].loaded))
    BY <1>3, <2>0 DEF PostCommit
  <2>3. Returned(exec[w].loaded) \in Row
        /\ Returned(exec[w].loaded).status \in {"cancelled", "done"}
    BY <2>1, HookTypes, HookStatus
  <2>4. /\ \A k \in Job : k # j => row'[k] = row[k]
        /\ row'[j].status \in {row[j].status, "cancelled", "done"}
        /\ row[j].status = "absent" => row'[j].status = "absent"
    BY <2>1, <2>2, <2>3, FlushedStatus
  <2>5. UNCHANGED <<call, queue, delayed, flag, admin>>
        /\ exec' = [exec EXCEPT ![w] = NoExec]
    BY <1>3 DEF PostCommit
  <2>6. \A k \in Job : Waiting(k)' => Waiting(k)
    BY <2>5 DEF Waiting
  <2>7. (\A v \in Worker : v # w => exec'[v] = exec[v]) /\ exec'[w] = NoExec
    BY <2>5 DEF TypeOK
  <2>8. WorkerSound(w)'
    BY <2>7, IdleSound
  <2>9. row'[j].status = "running" => ~Waiting(j)'
    BY <2>4, <2>6 DEF StagesSound
  <2>10. QED
    BY <2>0, <2>4, <2>5, <2>6, <2>7, <2>8, <2>9, StagesFlushed
<1>4. CASE ErrorCommit(w)
  <2>0. PICK j \in Job : j = exec[w].job
    BY <1>0, <1>4 DEF ErrorCommit
  <2>1. exec[w].loaded \in Row /\ exec[w].stage = "error"
    BY <1>0, <1>4 DEF ErrorCommit
  <2>2. row' = Flushed(j, exec[w].loaded, Failed(exec[w].loaded))
    BY <1>4, <2>0 DEF ErrorCommit
  <2>3. Failed(exec[w].loaded) \in Row
        /\ Failed(exec[w].loaded).status \in {"cancelled", "queued", "failed_terminal"}
    BY <2>1, HookTypes, HookStatus
  <2>4. /\ \A k \in Job : k # j => row'[k] = row[k]
        /\ row'[j].status =
             IF row[j].status = "absent"
                \/ Failed(exec[w].loaded).status = exec[w].loaded.status
             THEN row[j].status ELSE Failed(exec[w].loaded).status
    BY <2>1, <2>2, <2>3, FlushedStatus, FlushedExactly
  <2>5. UNCHANGED <<call, queue, flag, admin>> /\ exec' = [exec EXCEPT ![w] = NoExec]
    BY <1>4 DEF ErrorCommit
  <2>6. (\A v \in Worker : v # w => exec'[v] = exec[v]) /\ exec'[w] = NoExec
    BY <2>5 DEF TypeOK
  <2>7. WorkerSound(w)'
    BY <2>6, IdleSound
  <2>8. \/ delayed' = delayed
        \/ /\ delayed' = [delayed EXCEPT ![w][j] = delayed[w][j] + 1]
           /\ Rekicks(exec[w].loaded)
    BY <1>4, <2>0 DEF ErrorCommit
  <2>9. \A v \in Worker, k \in Job : k # j => delayed'[v][k] = delayed[v][k]
    BY <2>8 DEF TypeOK
  <2>10. \A k \in Job : k # j => (Waiting(k)' => Waiting(k))
    BY <2>5, <2>9 DEF Waiting
  <2>11. row'[j].status = "running" => ~Waiting(j)'
    <3>1. CASE delayed' = delayed
      BY <2>3, <2>4, <2>5, <3>1 DEF StagesSound, Waiting
    <3>2. CASE Rekicks(exec[w].loaded)
      <4>1. Failed(exec[w].loaded).status = "queued"
        BY <2>1, <3>2, HookStatus DEF Rekicks
      <4>2. QED
        BY <1>0, <2>0, <2>1, <2>4, <4>1 DEF WorkerSound
    <3>3. QED
      BY <2>8, <3>1, <3>2
  <2>12. QED
    BY <2>0, <2>4, <2>5, <2>6, <2>7, <2>10, <2>11, StagesFlushed
<1>5. QED
  <2>1. PreLoad(w) \/ PostLoad(w) \/ ErrorLoad(w) => StagesSound'
    BY <1>1 DEF PreLoad, PostLoad, ErrorLoad, ExecStage, Late
  <2>2. QED
    BY <1>2, <1>3, <1>4, <2>1 DEF Middleware

LEMMA ProducerStages ==
  ASSUME TypeOK, Placement, StagesSound, Producer
  PROVE  StagesSound'
<1>1. ASSUME NEW j \in Job, enqueue(j) PROVE StagesSound'
  <2>1. /\ row'[j].status = "queued" /\ call'[j] = "inserted"
        /\ \A k \in Job : k # j => row'[k] = row[k] /\ call'[k] = call[k]
    BY <1>1 DEF enqueue, TypeOK
  <2>2. UNCHANGED <<queue, delayed, exec, admin>>
    BY <1>1 DEF enqueue
  <2>3. ASSUME NEW k \in Job
        PROVE  /\ call'[k] = "none" => row'[k].status = "absent"
               /\ row'[k].status = "running" => ~Waiting(k)'
    BY <2>1, <2>2 DEF StagesSound, Waiting
  <2>4. ASSUME NEW w \in Worker PROVE WorkerSound(w)'
    <3>1. exec[w].job # j
      BY <1>1 DEF enqueue, Placement, Placed
    <3>2. exec[w].stage # "idle" => row'[exec[w].job] = row[exec[w].job]
      BY <2>1, <3>1, WorkHasAJob
    <3>3. WorkerSound(w)
      BY DEF StagesSound
    <3>4. QED
      BY <2>2, <3>2, <3>3 DEF WorkerSound, Late
  <2>5. \A a \in Admin : AdminSound(a)'
    BY <2>2 DEF StagesSound, AdminSound
  <2>6. QED
    BY <2>3, <2>4, <2>5 DEF StagesSound
<1>2. ASSUME NEW j \in Job, kiq(j) \/ KiqFails(j) PROVE StagesSound'
  <2>1. \A k \in Job : Waiting(k)' => Waiting(k)
    BY <1>2 DEF kiq, KiqFails, Waiting, TypeOK
  <2>2. \A k \in Job : call'[k] = "none" => call[k] = "none"
    BY <1>2 DEF kiq, KiqFails, TypeOK
  <2>3. UNCHANGED <<row, exec, admin>>
    BY <1>2 DEF kiq, KiqFails
  <2>4. QED
    BY <2>1, <2>2, <2>3, StagesKept
<1>3. QED
  BY <1>1, <1>2 DEF Producer

LEMMA WorkerStages ==
  ASSUME TypeOK, Placement, StagesSound, NEW w \in Worker, WorkerStep(w)
  PROVE  StagesSound'
<1>0. WorkerSound(w)
  BY DEF StagesSound
<1>1. ASSUME NEW j \in Job, Receive(w, j) PROVE StagesSound'
  <2>1. \A k \in Job : queue'[k] = IF k = j THEN queue[k] - 1 ELSE queue[k]
    BY <1>1 DEF Receive, TypeOK
  <2>2. queue[j] = 1
    BY <1>1 DEF Receive, Placement, Placed, TypeOK
  <2>3. \A k \in Job : Waiting(k)' => Waiting(k)
    BY <1>1, <2>1, <2>2 DEF Receive, Waiting
  <2>4. UNCHANGED <<row, call, admin>>
    BY <1>1 DEF Receive
  <2>5. /\ \A v \in Worker : v # w => exec'[v] = exec[v]
        /\ exec'[w].stage = "received" /\ exec'[w].job = j
    BY <1>1 DEF Receive, TypeOK
  <2>6. row[j].status # "running"
    BY <2>2 DEF StagesSound, Waiting
  <2>7. WorkerSound(w)'
    BY <2>4, <2>5, <2>6 DEF WorkerSound, Late
  <2>8. QED
    BY <2>3, <2>4, <2>5, <2>7, StagesKept
<1>2. ASSUME NEW j \in Job, Rekick(w, j) PROVE StagesSound'
  <2>1. \A v \in Worker, k \in Job :
          delayed'[v][k] = IF v = w /\ k = j THEN delayed[v][k] - 1
                                            ELSE delayed[v][k]
    BY <1>2 DEF Rekick, TypeOK
  <2>2. \A k \in Job : k # j => queue'[k] = queue[k]
    BY <1>2 DEF Rekick, TypeOK
  <2>3. delayed[w][j] = 1
    BY <1>2 DEF Rekick, Placement, Placed, TypeOK
  <2>4. \A k \in Job : Waiting(k)' => Waiting(k)
    BY <1>2, <2>1, <2>2, <2>3 DEF Rekick, Waiting
  <2>5. UNCHANGED <<row, call, exec, admin>>
    BY <1>2 DEF Rekick
  <2>6. QED
    BY <2>4, <2>5, StagesKept
<1>3. ASSUME NEW how \in {"returned", "raised"}, BodyEnds(w, how) PROVE StagesSound'
  <2>1. /\ \A v \in Worker : v # w => exec'[v] = exec[v]
        /\ exec[w].stage = "body" /\ exec'[w].stage = how
        /\ exec'[w].job = exec[w].job
    BY <1>3 DEF BodyEnds, TypeOK, Exec
  <2>2. UNCHANGED <<row, call, queue, delayed, admin>>
    BY <1>3 DEF BodyEnds
  <2>3. \A k \in Job : Waiting(k)' => Waiting(k)
    BY <2>2 DEF Waiting
  <2>4. WorkerSound(w)'
    BY <1>0, <2>1, <2>2 DEF WorkerSound, Late
  <2>5. QED
    BY <2>1, <2>2, <2>3, <2>4, StagesKept
<1>4. CASE HookFails(w)
  <2>1. /\ \A v \in Worker : v # w => exec'[v] = exec[v]
        /\ exec'[w].stage = "body" \/ exec'[w] = NoExec
    BY <1>4 DEF HookFails, TypeOK, Exec
  <2>2. UNCHANGED <<row, call, queue, delayed, admin>> /\ Faults
    BY <1>4 DEF HookFails
  <2>3. \A k \in Job : Waiting(k)' => Waiting(k)
    BY <2>2 DEF Waiting
  <2>4. WorkerSound(w)'
    BY <2>1, <2>2, IdleSound DEF WorkerSound
  <2>5. QED
    BY <2>1, <2>2, <2>3, <2>4, StagesKept
<1>5. CASE Crash(w)
  <2>1. (\A v \in Worker : v # w => exec'[v] = exec[v]) /\ exec'[w] = NoExec
    BY <1>5 DEF Crash, TypeOK
  <2>2. \A v \in Worker, k \in Job : delayed'[v][k] \in {delayed[v][k], 0}
    BY <1>5 DEF Crash, TypeOK
  <2>3. UNCHANGED <<row, call, queue, admin>>
    BY <1>5 DEF Crash
  <2>4. \A k \in Job : Waiting(k)' => Waiting(k)
    BY <2>2, <2>3 DEF Waiting
  <2>5. QED
    BY <2>1, <2>3, <2>4, IdleSound, StagesKept
<1>6. QED
  BY <1>1, <1>2, <1>3, <1>4, <1>5, MiddlewareStages DEF WorkerStep

\* The statuses that a cancellation leaves.
LEMMA CancelStatus ==
  ASSUME TypeOK, NEW a \in Admin, CancelCommit(a), NEW j \in Job
  PROVE  \/ row'[j] = row[j]
         \/ /\ j \in admin[a].jobs /\ row[j].status # "absent"
            /\ \E s \in {"cancelled", "cancelling"} :
                 /\ row'[j].status = IF s = admin[a].loaded[j].status
                                       THEN row[j].status ELSE s
                 /\ s = "cancelled" => admin[a].loaded[j].status = "queued"
<1>1. row[j] \in Row /\ admin[a].loaded[j] \in Row
  BY DEF TypeOK, Req
<1>2. CASE j \notin admin[a].jobs \/ row' = row
  BY <1>2 DEF CancelCommit, TypeOK
<1>3. CASE j \in admin[a].jobs /\ row' # row
  <2> DEFINE old == admin[a].loaded[j]
             new == ToCancel(admin[a].stage, old)
  <2>1. row'[j] = Flush(old, new, row[j]) /\ row[j].status # "absent"
    BY <1>3 DEF CancelCommit
  <2>2. /\ new.status \in {"cancelled", "cancelling"}
        /\ new.status = "cancelled" => old.status = "queued"
    BY <1>1 DEF ToCancel, Row
  <2>3. row'[j].status = IF new.status = old.status THEN row[j].status ELSE new.status
    BY <2>1 DEF Flush, Column
  <2>4. QED
    BY <1>3, <2>1, <2>2, <2>3
<1>4. QED
  BY <1>2, <1>3

LEMMA AdminStages ==
  ASSUME TypeOK, Placement, StagesSound, NEW a \in Admin, AdminStep(a)
  PROVE  StagesSound'
<1>1. ASSUME UNCHANGED <<call, delayed, exec>>,
             \A j \in Job : \/ row'[j].status = row[j].status
                            \/ /\ row[j].status # "absent"
                               /\ row'[j].status \in {"cancelled", "cancelling"},
             \A j \in Job : queue'[j] \in {0, queue[j]},
             \A b \in Admin : b # a => admin'[b] = admin[b],
             AdminSound(a)'
      PROVE  StagesSound'
  <2>1. \A k \in Job : Waiting(k)' => Waiting(k)
    BY <1>1 DEF Waiting
  <2>2. QED
    BY <1>1, <2>1, StagesKept
<1>2. ASSUME NEW S \in SUBSET Job, CancelLoad(a, S) PROVE StagesSound'
  <2>1. /\ \A b \in Admin : b # a => admin'[b] = admin[b]
        /\ admin'[a].jobs = S
        /\ \A j \in S : admin'[a].loaded[j] = row[j]
        /\ \A j \in S : row[j].status \in Active
    BY <1>2 DEF CancelLoad, NewRequest, TypeOK
  <2>2. AdminSound(a)'
    BY <2>1 DEF AdminSound
  <2>3. QED
    BY <1>1, <1>2, <2>1, <2>2 DEF CancelLoad
<1>3. CASE CancelCommit(a)
  <2>1. \A j \in Job : \/ row'[j].status = row[j].status
                       \/ /\ row[j].status # "absent"
                          /\ row'[j].status \in {"cancelled", "cancelling"}
    BY <1>3, CancelStatus
  <2>2. /\ \A b \in Admin : b # a => admin'[b] = admin[b]
        /\ admin'[a].stage \in {"idle", "signal", "unqueue"}
    BY <1>3 DEF CancelCommit, NoReq, TypeOK
  <2>3. AdminSound(a)'
    BY <2>2 DEF AdminSound
  <2>4. QED
    BY <1>1, <1>3, <2>1, <2>2, <2>3 DEF CancelCommit
<1>4. CASE Unqueue(a)
  <2>1. /\ \A b \in Admin : b # a => admin'[b] = admin[b]
        /\ admin'[a].stage = "signal"
    BY <1>4 DEF Unqueue, TypeOK, Req
  <2>2. \A j \in Job : queue'[j] \in {0, queue[j]}
    BY <1>4 DEF Unqueue, Remove
  <2>3. AdminSound(a)'
    BY <2>1 DEF AdminSound
  <2>4. QED
    BY <1>1, <1>4, <2>1, <2>2, <2>3 DEF Unqueue
<1>5. CASE DrainLoad(a) \/ RequestDies(a) \/ \E j \in Job : signal_cancel(a, j)
  <2>1. /\ \A b \in Admin : b # a => admin'[b] = admin[b]
        /\ admin'[a].stage \in {"idle", "signal"}
    <3>1. CASE DrainLoad(a)
      BY <3>1 DEF DrainLoad, NoReq, TypeOK
    <3>2. CASE RequestDies(a)
      BY <3>2 DEF RequestDies, NoReq, TypeOK
    <3>3. ASSUME NEW j \in Job, signal_cancel(a, j)
          PROVE  /\ \A b \in Admin : b # a => admin'[b] = admin[b]
                 /\ admin'[a].stage \in {"idle", "signal"}
      <4>1. [admin[a] EXCEPT !.jobs = admin[a].jobs \ {j}].stage = "signal"
        BY <3>3 DEF signal_cancel, TypeOK, Req
      <4>2. NoReq.stage = "idle"
        BY DEF NoReq
      <4>3. QED
        BY <3>3, <4>1, <4>2 DEF signal_cancel, TypeOK
    <3>4. QED
      BY <1>5, <3>1, <3>2, <3>3
  <2>2. AdminSound(a)'
    BY <2>1 DEF AdminSound
  <2>3. QED
    BY <1>1, <1>5, <2>1, <2>2 DEF DrainLoad, RequestDies, signal_cancel
<1>6. QED
  BY <1>2, <1>3, <1>4, <1>5 DEF AdminStep

LEMMA StagesStep ==
  ASSUME TypeOK, Placement, StagesSound, [Next]_vars
  PROVE  StagesSound'
<1>1. ASSUME NEW j \in Job, purge(j) PROVE StagesSound'
  <2>1. \A k \in Job : \/ row'[k].status = row[k].status
                       \/ row[k].status # "absent" /\ row'[k].status = "absent"
    BY <1>1 DEF purge, TypeOK, NoRow, Terminal
  <2>2. UNCHANGED <<call, queue, delayed, exec, admin>>
    BY <1>1 DEF purge
  <2>3. \A k \in Job : Waiting(k)' => Waiting(k)
    BY <2>2 DEF Waiting
  <2>4. QED
    BY <2>1, <2>2, <2>3, StagesKept
<1>2. CASE UNCHANGED <<row, call, queue, delayed, exec, admin>>
  <2>1. \A k \in Job : Waiting(k)' => Waiting(k)
    BY <1>2 DEF Waiting
  <2>2. QED
    BY <1>2, <2>1, StagesKept
<1>3. ASSUME NEW j \in Job, FlagExpires(j) PROVE StagesSound'
  BY <1>2, <1>3 DEF FlagExpires
<1>4. QED
  BY <1>1, <1>2, <1>3, ProducerStages, WorkerStages, AdminStages DEF Next, vars

-----------------------------------------------------------------------------
(***************************************************************************)
(* Copies                                                                  *)
(***************************************************************************)

\* A process changes no other execution and no other job's row, and what it has in a
\* hook then is an execution as it was or a copy just made.
LEMMA WorkerWrites ==
  ASSUME TypeOK, Placement, NEW w \in Worker, WorkerStep(w)
  PROVE  /\ \A v \in Worker : v # w => exec'[v] = exec[v]
         /\ \A k \in Job : k # exec[w].job => row'[k] = row[k]
         /\ exec'[w].stage \in Hooks =>
              /\ row' = row
              /\ \/ exec'[w] = exec[w]
                 \/ /\ exec'[w].job = exec[w].job
                    /\ exec'[w].loaded = row[exec[w].job]
<1>0. /\ exec[w] \in Exec
      /\ exec[w].stage # "idle" => exec[w].job \in Job /\ exec[w].loaded \in Row
  BY BusyJob DEF Placement, TypeOK
<1>1. ASSUME NEW from, NEW to, NEW next, from # "idle",
             HookLoad(w, from, to, next), next.stage \notin Hooks
      PROVE  /\ \A v \in Worker : v # w => exec'[v] = exec[v]
             /\ row' = row
             /\ exec'[w].stage \in Hooks => /\ exec'[w].job = exec[w].job
                                           /\ exec'[w].loaded = row[exec[w].job]
  <2>1. /\ row' = row
        /\ exec' = [exec EXCEPT ![w] =
                     IF row[exec[w].job].status = "absent" THEN next
                     ELSE [exec[w] EXCEPT !.stage = to, !.loaded = row[exec[w].job]]]
    BY <1>1 DEF HookLoad
  <2>2. /\ [exec[w] EXCEPT !.stage = to, !.loaded = row[exec[w].job]].job = exec[w].job
        /\ [exec[w] EXCEPT !.stage = to, !.loaded = row[exec[w].job]].loaded
             = row[exec[w].job]
    BY <1>0 DEF Exec
  <2>3. exec'[w] = IF row[exec[w].job].status = "absent" THEN next
                   ELSE [exec[w] EXCEPT !.stage = to, !.loaded = row[exec[w].job]]
    BY <2>1 DEF TypeOK
  <2>4. \A v \in Worker : v # w => exec'[v] = exec[v]
    BY <2>1 DEF TypeOK
  <2>5. QED
    BY <1>1, <2>1, <2>2, <2>3, <2>4
<1>2. NoExec.stage \notin Hooks /\ [exec[w] EXCEPT !.stage = "body"].stage \notin Hooks
  BY <1>0 DEF NoExec, Hooks, Exec
<1>3. CASE PreLoad(w) \/ PostLoad(w) \/ ErrorLoad(w)
  BY <1>1, <1>2, <1>3 DEF PreLoad, PostLoad, ErrorLoad
<1>4. CASE PreCommit(w) \/ PostCommit(w) \/ ErrorCommit(w)
  <2>1. exec[w].job \in Job /\ exec[w].loaded \in Row
    BY <1>0, <1>4 DEF PreCommit, PostCommit, ErrorCommit
  <2>2. \A flagged \in BOOLEAN : Started(exec[w].loaded, flagged) \in Row
    BY <2>1, HookTypes
  <2>3. Returned(exec[w].loaded) \in Row /\ Failed(exec[w].loaded) \in Row
    BY <2>1, HookTypes
  <2>4. \E r \in Row : row' = Flushed(exec[w].job, exec[w].loaded, r)
    BY <1>4, <2>2, <2>3 DEF PreCommit, PostCommit, ErrorCommit
  <2>5. \A k \in Job : k # exec[w].job => row'[k] = row[k]
    BY <2>1, <2>4, FlushedStatus
  <2>6. exec' \in {[exec EXCEPT ![w] = NoExec],
                   [exec EXCEPT ![w] = [exec[w] EXCEPT !.stage = "body"]]}
    BY <1>4 DEF PreCommit, PostCommit, ErrorCommit
  <2>7. /\ \A v \in Worker : v # w => exec'[v] = exec[v]
        /\ exec'[w] \in {NoExec, [exec[w] EXCEPT !.stage = "body"]}
    BY <2>6 DEF TypeOK
  <2>8. QED
    BY <1>2, <2>5, <2>7
<1>5. ASSUME NEW j \in Job, Receive(w, j)
      PROVE  /\ \A v \in Worker : v # w => exec'[v] = exec[v]
             /\ row' = row /\ exec'[w].stage \notin Hooks
  BY <1>5 DEF Receive, TypeOK, Hooks
<1>6. ASSUME NEW j \in Job, Rekick(w, j) PROVE row' = row /\ exec' = exec
  BY <1>6 DEF Rekick
<1>7. ASSUME NEW how \in {"returned", "raised"}, BodyEnds(w, how)
      PROVE  /\ \A v \in Worker : v # w => exec'[v] = exec[v]
             /\ row' = row /\ exec'[w].stage \notin Hooks
  BY <1>7 DEF BodyEnds, TypeOK, Exec, Hooks
<1>8. CASE HookFails(w)
  <2>1. /\ \A v \in Worker : v # w => exec'[v] = exec[v]
        /\ exec'[w] \in {NoExec, [exec[w] EXCEPT !.stage = "body"]} /\ row' = row
    BY <1>8 DEF HookFails, TypeOK
  <2>2. QED
    BY <1>2, <2>1
<1>9. CASE Crash(w)
  BY <1>2, <1>9 DEF Crash, TypeOK
<1>10. QED
  BY <1>3, <1>4, <1>5, <1>6, <1>7, <1>8, <1>9 DEF WorkerStep, Middleware

LEMMA CopiesStep ==
  ASSUME TypeOK, Placement, CopiesGood, [Next]_vars
  PROVE  CopiesGood'
<1> SUFFICES ASSUME NEW w \in Worker PROVE CopyGood(w)'
  BY DEF CopiesGood
<1>0. CopyGood(w) /\ (exec[w].stage \in Hooks => exec[w].job \in Job)
  BY WorkHasAJob DEF CopiesGood, Hooks
<1>1. ASSUME exec'[w] = exec[w],
             exec[w].job \in Job =>
               row'[exec[w].job].status
                 \in {row[exec[w].job].status, "absent"} \cup Cancelled
      PROVE  CopyGood(w)'
  BY <1>0, <1>1 DEF CopyGood
<1>2. CASE row' = row /\ exec' = exec
  BY <1>1, <1>2
<1>3. ASSUME NEW j \in Job, enqueue(j) PROVE CopyGood(w)'
  <2>1. exec[w].job # j
    BY <1>3 DEF enqueue, Placement, Placed
  <2>2. exec' = exec /\ \A k \in Job : k # j => row'[k] = row[k]
    BY <1>3 DEF enqueue, TypeOK
  <2>3. QED
    BY <1>1, <2>1, <2>2
<1>4. CASE Producer
  BY <1>2, <1>3, <1>4 DEF Producer, kiq, KiqFails
<1>5. ASSUME NEW v \in Worker, WorkerStep(v) PROVE CopyGood(w)'
  <2>1. CASE v = w
    BY <1>0, <1>5, <2>1, WorkerWrites DEF CopyGood
  <2>2. CASE v # w
    <3>1. exec'[w] = exec[w]
      BY <1>5, <2>2, WorkerWrites
    <3>2. exec[w].job \in Job => exec[w].job # exec[v].job
      BY <2>2, SoleExecution
    <3>3. exec[w].job \in Job => row'[exec[w].job] = row[exec[w].job]
      BY <1>5, <3>2, WorkerWrites
    <3>4. QED
      BY <1>1, <3>1, <3>3
  <2>3. QED
    BY <2>1, <2>2
<1>6. ASSUME NEW a \in Admin, CancelCommit(a) PROVE CopyGood(w)'
  <2>1. exec' = exec
    BY <1>6 DEF CancelCommit
  <2>2. \A k \in Job : row'[k].status \in {row[k].status} \cup Cancelled
    BY <1>6, CancelStatus DEF Cancelled
  <2>3. QED
    BY <1>1, <2>1, <2>2
<1>7. ASSUME NEW a \in Admin, AdminStep(a) PROVE CopyGood(w)'
  BY <1>2, <1>6, <1>7
     DEF AdminStep, CancelLoad, Unqueue, DrainLoad, signal_cancel, RequestDies
<1>8. ASSUME NEW j \in Job, purge(j) PROVE CopyGood(w)'
  <2>1. exec' = exec /\ \A k \in Job : row'[k].status \in {row[k].status, "absent"}
    BY <1>8 DEF purge, TypeOK, NoRow
  <2>2. QED
    BY <1>1, <2>1
<1>9. ASSUME NEW j \in Job, FlagExpires(j) PROVE CopyGood(w)'
  BY <1>2, <1>9 DEF FlagExpires
<1>10. QED
  BY <1>2, <1>4, <1>5, <1>7, <1>8, <1>9 DEF Next, vars

-----------------------------------------------------------------------------
(***************************************************************************)
(* The theorems                                                            *)
(***************************************************************************)

LEMMA InitInv == Init => IInv
<1> SUFFICES ASSUME Init PROVE IInv
  OBVIOUS
<1>1. TypeOK
  BY NoRowType, NoExecType, NoReqType DEF Init, TypeOK, CallStage
<1>2. /\ \A j \in Job : /\ row[j].status = "absent" /\ row[j].attempts = 0
                        /\ call[j] = "none" /\ queue[j] = 0
      /\ \A w \in Worker : /\ exec[w].stage = "idle" /\ exec[w].job = None
                           /\ \A j \in Job : delayed[w][j] = 0
  BY DEF Init, NoRow, NoExec
<1>3. \A w \in Worker, j \in Job : exec[w].job # j
  BY <1>2, NoneAssumption
<1>4. Placement
  BY <1>2, <1>3 DEF Placement, IdleHasNoJob, Placed
<1>5. Ended
  BY <1>2 DEF Ended
<1>6. Budget
  BY <1>2, AttemptsAssumption DEF Budget
<1>7. StagesSound
  <2>1. \A w \in Worker : WorkerSound(w)
    BY <1>2 DEF WorkerSound, Late
  <2>2. \A a \in Admin : AdminSound(a)
    BY DEF Init, NoReq, AdminSound
  <2>3. QED
    BY <1>2, <2>1, <2>2 DEF StagesSound
<1>8. CopiesGood
  BY <1>2 DEF CopiesGood, CopyGood, Hooks
<1>9. QED
  BY <1>1, <1>4, <1>5, <1>6, <1>7, <1>8 DEF IInv

LEMMA NextInv == IInv /\ [Next]_vars => IInv'
BY TypeStep, PlacementStep, EndedStep, BudgetStep, StagesStep, CopiesStep
   DEF IInv, Placement

LEMMA Inductive == Spec => []IInv
BY InitInv, NextInv, PTL DEF Spec

\* The four kinds of places.
LEMMA HeldPlaces ==
  ASSUME TypeOK, Placement, NEW j \in Job, NEW p \in Held(j)
  PROVE  \/ p = <<"producer", None>> /\ call[j] = "inserted"
         \/ p = <<"list", None>> /\ queue[j] = 1
         \/ \E w \in Worker : p = <<"execution", w>> /\ exec[w].job = j
         \/ \E w \in Worker : p = <<"retry", w>> /\ delayed[w][j] = 1
<1>1. \A w \in Worker : delayed[w][j] > 0 => delayed[w][j] = 1
  BY DEF Placement, Placed, TypeOK
<1>2. queue[j] > 0 => queue[j] = 1
  BY DEF Placement, Placed, TypeOK
<1>3. QED
  BY <1>1, <1>2 DEF Held

LEMMA OnePlace == ASSUME TypeOK, Placement PROVE OneExecutionAtATime
<1> SUFFICES ASSUME NEW j \in Job
             PROVE  /\ queue[j] <= 1
                    /\ \A w \in Worker : delayed[w][j] <= 1
                    /\ \A p, q \in Held(j) : p = q
  BY DEF OneExecutionAtATime
<1>1. Placed(j)
  BY DEF Placement
<1>2. ASSUME NEW p \in Held(j), NEW q \in Held(j) PROVE p = q
  <2>1. /\ \/ p = <<"producer", None>> /\ call[j] = "inserted"
           \/ p = <<"list", None>> /\ queue[j] = 1
           \/ \E w \in Worker : p = <<"execution", w>> /\ exec[w].job = j
           \/ \E w \in Worker : p = <<"retry", w>> /\ delayed[w][j] = 1
        /\ \/ q = <<"producer", None>> /\ call[j] = "inserted"
           \/ q = <<"list", None>> /\ queue[j] = 1
           \/ \E w \in Worker : q = <<"execution", w>> /\ exec[w].job = j
           \/ \E w \in Worker : q = <<"retry", w>> /\ delayed[w][j] = 1
    BY HeldPlaces
  <2>2. CASE call[j] = "inserted"
    BY <1>1, <2>1, <2>2 DEF Placed
  <2>3. CASE queue[j] = 1
    BY <1>1, <2>1, <2>3 DEF Placed
  <2>4. CASE \E w \in Worker : exec[w].job = j
    BY <1>1, <2>1, <2>4 DEF Placed
  <2>5. CASE \E w \in Worker : delayed[w][j] = 1
    BY <1>1, <2>1, <2>5 DEF Placed
  <2>6. QED
    BY <2>1, <2>2, <2>3, <2>4, <2>5
<1>3. QED
  BY <1>1, <1>2 DEF Placed

LEMMA NothingDue == ASSUME TypeOK, Placement, Ended PROVE NothingAfterTheEnd
<1> SUFFICES ASSUME NEW j \in Job, row[j].status \in {"done", "failed_terminal"}
             PROVE  Held(j) = {}
  BY DEF NothingAfterTheEnd
<1>1. ~Due(j)
  BY DEF Ended
<1>2. ASSUME NEW p \in Held(j) PROVE FALSE
  BY <1>1, HeldPlaces DEF Due
<1>3. QED
  BY <1>2

\* The step moves job j along the documented lifecycle, if at all.
DocumentedMove(j) ==
  row'[j].status # row[j].status
    => <<row[j].status, row'[j].status>>
         \in Moves \cup (IF Faults THEN Unrecorded ELSE {})

\* The step moves job j from or to a cancellation, if at all.
RacingMove(j) ==
  row'[j].status # row[j].status
    => /\ row[j].status # "absent" /\ row'[j].status # "absent"
       /\ row[j].status \in Cancelled \/ row'[j].status \in Cancelled

\* What FollowsLifecycle asks of the step, for job j.
LegalMove(j) ==
  row'[j].status # row[j].status
    => <<row[j].status, row'[j].status>>
         \in IF Overtaken(j) THEN LostRaces
            ELSE Moves \cup (IF Faults THEN Unrecorded ELSE {})

LEMMA LegalEither ==
  ASSUME TypeOK, TypeOK', NEW j \in Job,
         Overtaken(j) => RacingMove(j), ~Overtaken(j) => DocumentedMove(j)
  PROVE  LegalMove(j)
<1>1. row[j].status \in Status /\ row'[j].status \in Status
  BY DEF TypeOK, Row
<1>2. CASE ~Overtaken(j)
  BY <1>2 DEF LegalMove, DocumentedMove
<1>3. CASE Overtaken(j)
  BY <1>1, <1>3 DEF LegalMove, RacingMove, LostRaces
<1>4. QED
  BY <1>2, <1>3

\* A hook whose copy is that of the row moves it as documented.
LEMMA HookMoves ==
  ASSUME IInv, NEW w \in Worker, Middleware(w),
         exec[w].stage \in Hooks => row[exec[w].job].status = exec[w].loaded.status
  PROVE  \A k \in Job : DocumentedMove(k)
<1>0. TypeOK /\ Placement /\ Ended /\ StagesSound
  BY DEF IInv
<1>1. exec[w].stage # "idle"
  BY DEF Middleware, HookLoad, PreLoad, PreCommit, PostLoad, PostCommit,
         ErrorLoad, ErrorCommit
<1>2. PICK j \in Job : j = exec[w].job
  BY <1>0, <1>1, WorkHasAJob
<1>3. exec[w] \in Exec /\ exec[w].loaded \in Row /\ row[j] \in Row
  BY <1>0, <1>1, BusyJob DEF Placement, TypeOK
<1>4. row[j].status \notin {"done", "failed_terminal"}
  BY <1>0, <1>2 DEF Ended, Due
<1>5. WorkerSound(w)
  BY <1>0 DEF StagesSound
<1>6. CASE row' = row
  BY <1>6 DEF DocumentedMove
<1>7. ASSUME NEW r \in Row, row' = Flushed(j, exec[w].loaded, r),
             exec'[w] # exec[w], exec[w].stage \in {"pre", "post", "error"},
             row[j].status # "absent" =>
               <<exec[w].loaded.status, r.status>> \in
                 {<<s, s>> : s \in Status} \cup Moves
                   \cup (IF Faults THEN Unrecorded ELSE {})
      PROVE  \A k \in Job : DocumentedMove(k)
  <2>1. row[j].status = exec[w].loaded.status
    BY <1>2, <1>7 DEF Hooks
  <2>2. \A k \in Job : k # j => row'[k] = row[k]
    BY <1>0, <1>3, <1>7, FlushedStatus
  <2>3. row[j].status = "absent" => row'[j] = row[j]
    BY <1>0, <1>3, <1>7, FlushedStatus
  <2>4. row[j].status # "absent" => row'[j].status = r.status
    BY <1>0, <1>3, <1>7, <2>1, FlushedExactly
  <2>5. DocumentedMove(j)
    BY <1>7, <2>1, <2>3, <2>4 DEF DocumentedMove
  <2>6. QED
    BY <2>2, <2>5 DEF DocumentedMove
<1>8. CASE PreCommit(w)
  <2>1. PICK flagged \in BOOLEAN :
          row' = Flushed(j, exec[w].loaded, Started(exec[w].loaded, flagged))
    BY <1>2, <1>8 DEF PreCommit
  <2>2. exec[w].stage = "pre" /\ exec'[w] # exec[w]
    BY <1>0, <1>3, <1>8 DEF PreCommit, TypeOK, Exec
  <2>3. exec[w].loaded.status = row[j].status
    BY <1>2, <2>2 DEF Hooks
  <2>4. /\ Started(exec[w].loaded, flagged) \in Row
        /\ Started(exec[w].loaded, flagged).status =
             IF exec[w].loaded.status \in Cancelled \/ flagged
               THEN "cancelled" ELSE "running"
    BY <1>3, HookTypes, HookStatus
  <2>5. row[j].status \in {"absent", "queued", "cancelling", "cancelled"}
    BY <1>2, <1>3, <1>4, <1>5, <2>2 DEF WorkerSound, Row, Status
  <2>6. QED
    BY <1>7, <2>1, <2>2, <2>3, <2>4, <2>5 DEF Cancelled, Moves, Status
<1>9. CASE PostCommit(w)
  <2>1. row' = Flushed(j, exec[w].loaded, Returned(exec[w].loaded))
    BY <1>2, <1>9 DEF PostCommit
  <2>2. exec[w].stage = "post" /\ exec'[w] # exec[w]
    BY <1>0, <1>3, <1>9 DEF PostCommit, TypeOK, Exec, NoExec
  <2>3. exec[w].loaded.status = row[j].status
    BY <1>2, <2>2 DEF Hooks
  <2>4. /\ Returned(exec[w].loaded) \in Row
        /\ Returned(exec[w].loaded).status =
             IF exec[w].loaded.status \in Cancelled THEN "cancelled" ELSE "done"
    BY <1>3, HookTypes, HookStatus
  <2>5. /\ row[j].status \in {"absent", "queued", "running", "cancelling", "cancelled"}
        /\ row[j].status = "queued" => Faults
    BY <1>2, <1>3, <1>4, <1>5, <2>2 DEF WorkerSound, Row, Status, Late
  <2>6. QED
    BY <1>7, <2>1, <2>2, <2>3, <2>4, <2>5 DEF Cancelled, Moves, Status, Unrecorded
<1>10. CASE ErrorCommit(w)
  <2>1. row' = Flushed(j, exec[w].loaded, Failed(exec[w].loaded))
    BY <1>2, <1>10 DEF ErrorCommit
  <2>2. exec[w].stage = "error" /\ exec'[w] # exec[w]
    BY <1>0, <1>3, <1>10 DEF ErrorCommit, TypeOK, Exec, NoExec
  <2>3. exec[w].loaded.status = row[j].status
    BY <1>2, <2>2 DEF Hooks
  <2>4. /\ Failed(exec[w].loaded) \in Row
        /\ Failed(exec[w].loaded).status =
             IF exec[w].loaded.status \in Cancelled THEN "cancelled"
             ELSE IF RetriesLeft(exec[w].loaded) THEN "queued" ELSE "failed_terminal"
    BY <1>3, HookTypes, HookStatus
  <2>5. /\ row[j].status \in {"absent", "queued", "running", "cancelling", "cancelled"}
        /\ row[j].status = "queued" => Faults
    BY <1>2, <1>3, <1>4, <1>5, <2>2 DEF WorkerSound, Row, Status, Late
  <2>6. QED
    BY <1>7, <2>1, <2>2, <2>3, <2>4, <2>5 DEF Cancelled, Moves, Status, Unrecorded
<1>11. QED
  BY <1>6, <1>8, <1>9, <1>10 DEF Middleware, HookLoad, PreLoad, PostLoad, ErrorLoad

\* A hook whose copy is not that of the row meets a cancellation.
LEMMA HookRaces ==
  ASSUME IInv, NEW w \in Worker, Middleware(w), exec[w].stage \in Hooks,
         row[exec[w].job].status # exec[w].loaded.status
  PROVE  \A k \in Job : RacingMove(k)
<1>0. TypeOK /\ Placement /\ CopyGood(w)
  BY DEF IInv, CopiesGood
<1>1. exec[w].stage # "idle" /\ exec[w].job \in Job /\ exec[w].loaded \in Row
  BY <1>0, BusyJob DEF Placement, Hooks
<1>2. PICK j \in Job : j = exec[w].job
  BY <1>1
<1>3. row[j].status \in {"absent"} \cup Cancelled
  BY <1>0, <1>2 DEF CopyGood
<1>4. ASSUME NEW r \in Row, row' = Flushed(j, exec[w].loaded, r), r.status # "absent"
      PROVE  \A k \in Job : RacingMove(k)
  <2>1. \A k \in Job : k # j => row'[k] = row[k]
    BY <1>0, <1>1, <1>4, FlushedStatus
  <2>2. /\ row'[j].status \in {row[j].status, r.status}
        /\ row[j].status = "absent" => row'[j] = row[j]
    BY <1>0, <1>1, <1>4, FlushedStatus
  <2>3. RacingMove(j)
    BY <1>3, <1>4, <2>2 DEF RacingMove
  <2>4. QED
    BY <2>1, <2>3 DEF RacingMove
<1>5. CASE PreCommit(w)
  <2>1. PICK flagged \in BOOLEAN :
          row' = Flushed(j, exec[w].loaded, Started(exec[w].loaded, flagged))
    BY <1>2, <1>5 DEF PreCommit
  <2>2. Started(exec[w].loaded, flagged) \in Row
        /\ Started(exec[w].loaded, flagged).status # "absent"
    BY <1>1, HookTypes, HookStatus
  <2>3. QED
    BY <1>4, <2>1, <2>2
<1>6. CASE PostCommit(w)
  <2>1. row' = Flushed(j, exec[w].loaded, Returned(exec[w].loaded))
    BY <1>2, <1>6 DEF PostCommit
  <2>2. Returned(exec[w].loaded) \in Row /\ Returned(exec[w].loaded).status # "absent"
    BY <1>1, HookTypes, HookStatus
  <2>3. QED
    BY <1>4, <2>1, <2>2
<1>7. CASE ErrorCommit(w)
  <2>1. row' = Flushed(j, exec[w].loaded, Failed(exec[w].loaded))
    BY <1>2, <1>7 DEF ErrorCommit
  <2>2. Failed(exec[w].loaded) \in Row /\ Failed(exec[w].loaded).status # "absent"
    BY <1>1, HookTypes, HookStatus
  <2>3. QED
    BY <1>4, <2>1, <2>2
<1>8. CASE row' = row
  BY <1>8 DEF RacingMove
<1>9. QED
  BY <1>5, <1>6, <1>7, <1>8 DEF Middleware, HookLoad, PreLoad, PostLoad, ErrorLoad

\* Of the steps of a process, only its own hook can be overtaken.
LEMMA HookLegal ==
  ASSUME IInv, TypeOK', NEW w \in Worker, Middleware(w)
  PROVE  \A k \in Job : LegalMove(k)
<1>0. TypeOK /\ Placement /\ WorkerStep(w)
  BY DEF IInv, WorkerStep
<1>1. /\ admin' = admin /\ \A v \in Worker : v # w => exec'[v] = exec[v]
      /\ \A k \in Job : k # exec[w].job => row'[k] = row[k]
  BY <1>0, WorkerWrites
     DEF Middleware, HookLoad, PreLoad, PreCommit, PostLoad, PostCommit, ErrorLoad, ErrorCommit
<1>2. ASSUME NEW k \in Job, k # exec[w].job PROVE LegalMove(k)
  BY <1>1, <1>2 DEF LegalMove
<1>3. ASSUME NEW k \in Job, k = exec[w].job PROVE LegalMove(k)
  <2>1. CASE exec[w].stage \in Hooks /\ row[k].status # exec[w].loaded.status
    <3>1. RacingMove(k)
      BY <1>3, <2>1, HookRaces
    <3>2. Overtaken(k) \/ row' = row
      BY <1>0, <1>3, <2>1, WorkerWrites DEF Overtaken, Hooks
    <3>3. QED
      BY <1>0, <3>1, <3>2, LegalEither DEF LegalMove
  <2>2. CASE ~(exec[w].stage \in Hooks /\ row[k].status # exec[w].loaded.status)
    <3>1. DocumentedMove(k)
      BY <1>3, <2>2, HookMoves
    <3>2. ~Overtaken(k)
      BY <1>1, <1>3, <2>2 DEF Overtaken, Hooks
    <3>3. QED
      BY <1>0, <3>1, <3>2, LegalEither
  <2>3. QED
    BY <2>1, <2>2
<1>4. QED
  BY <1>2, <1>3

\* A cancellation is legal, of an old copy as well.
LEMMA CancelLegal ==
  ASSUME IInv, TypeOK', NEW a \in Admin, CancelCommit(a)
  PROVE  \A k \in Job : LegalMove(k)
<1>0. TypeOK /\ AdminSound(a)
  BY DEF IInv, StagesSound
<1> SUFFICES ASSUME NEW k \in Job, row'[k].status # row[k].status PROVE LegalMove(k)
  BY DEF LegalMove
<1>1. PICK s \in {"cancelled", "cancelling"} :
        /\ k \in admin[a].jobs /\ row[k].status # "absent"
        /\ row'[k].status = s
        /\ s = "cancelled" => admin[a].loaded[k].status = "queued"
  BY <1>0, CancelStatus
<1>2. /\ admin[a].stage \in {"cancel", "cancel_active"} /\ exec' = exec
      /\ \A b \in Admin : b # a => admin'[b] = admin[b]
  BY <1>0 DEF CancelCommit, TypeOK
<1>3. RacingMove(k)
  BY <1>1 DEF RacingMove, Cancelled
<1>4. CASE row[k].status = admin[a].loaded[k].status
  <2>1. row[k].status \in Active
    BY <1>0, <1>1, <1>2, <1>4 DEF AdminSound
  <2>2. DocumentedMove(k)
    BY <1>1, <1>4, <2>1 DEF DocumentedMove, Moves, Active
  <2>3. QED
    BY <1>0, <1>3, <2>2, LegalEither
<1>5. CASE row[k].status # admin[a].loaded[k].status
  <2>1. admin'[a].stage \in {"idle", "signal", "unqueue"}
    BY <1>0 DEF CancelCommit, NoReq, TypeOK
  <2>2. admin'[a] # admin[a]
    BY <1>2, <2>1
  <2>3. Overtaken(k)
    BY <1>1, <1>2, <1>5, <2>2 DEF Overtaken
  <2>4. QED
    BY <1>0, <1>3, <2>3, LegalEither
<1>6. QED
  BY <1>4, <1>5

LEMMA LegalMoves ==
  ASSUME IInv, [Next]_vars
  PROVE  \A j \in Job : LegalMove(j)
<1>0. TypeOK /\ StagesSound /\ TypeOK'
  BY NextInv DEF IInv
<1>1. CASE row' = row
  BY <1>1 DEF LegalMove
<1>2. ASSUME NEW j \in Job, enqueue(j) PROVE \A k \in Job : LegalMove(k)
  <2>1. row[j].status = "absent" /\ row'[j].status = "queued"
    BY <1>0, <1>2 DEF enqueue, StagesSound, TypeOK
  <2>2. \A k \in Job : k # j => row'[k] = row[k]
    BY <1>0, <1>2 DEF enqueue, TypeOK
  <2>3. ~Overtaken(j)
    BY <1>2 DEF enqueue, Overtaken
  <2>4. QED
    BY <2>1, <2>2, <2>3 DEF LegalMove, Moves
<1>3. ASSUME NEW j \in Job, purge(j) PROVE \A k \in Job : LegalMove(k)
  <2>1. row[j].status \in Terminal /\ row'[j].status = "absent"
    BY <1>0, <1>3 DEF purge, TypeOK, NoRow
  <2>2. \A k \in Job : k # j => row'[k] = row[k]
    BY <1>0, <1>3 DEF purge, TypeOK
  <2>3. ~Overtaken(j)
    BY <1>3 DEF purge, Overtaken
  <2>4. QED
    BY <2>1, <2>2, <2>3 DEF LegalMove, Moves
<1>4. CASE Producer
  BY <1>1, <1>2, <1>4 DEF Producer, kiq, KiqFails
<1>5. ASSUME NEW w \in Worker, WorkerStep(w) PROVE \A k \in Job : LegalMove(k)
  BY <1>0, <1>1, <1>5, HookLegal
     DEF WorkerStep, Receive, Rekick, BodyEnds, HookFails, Crash
<1>6. ASSUME NEW a \in Admin, AdminStep(a) PROVE \A k \in Job : LegalMove(k)
  BY <1>0, <1>1, <1>6, CancelLegal
     DEF AdminStep, CancelLoad, Unqueue, DrainLoad, signal_cancel, RequestDies
<1>7. ASSUME NEW j \in Job, FlagExpires(j) PROVE \A k \in Job : LegalMove(k)
  BY <1>1, <1>7 DEF FlagExpires
<1>8. CASE UNCHANGED vars
  BY <1>1, <1>8 DEF vars
<1>9. QED
  BY <1>3, <1>4, <1>5, <1>6, <1>7, <1>8 DEF Next

\* The table, the list, the processes and the requests keep their types, with any
\* number of rows and whatever fails: a purged row, whose message may still be
\* under way, never becomes something else than a row.
THEOREM TypeCorrect == Spec => []TypeOK
<1>1. IInv => TypeOK
  BY DEF IInv
<1>2. QED
  BY <1>1, Inductive, PTL

\* A job is never due or executing in two places, although the list forgets a
\* message when it hands it out and on_error kicks the same row again: enqueue,
\* the list, the middleware and _delayed_rekick hand the one right to execute the
\* job to each other, and a crash, a purge or a bulk cancel can only lose it.
THEOREM RunsOnceAtATime == Spec => []OneExecutionAtATime
<1>1. IInv => OneExecutionAtATime
  BY OnePlace DEF IInv
<1>2. QED
  BY <1>1, Inductive, PTL

\* A job that post_execute or on_error settled as done or failed_terminal has no
\* message, execution or sleeping retry left that could execute it again.
THEOREM SettledForGood == Spec => []NothingAfterTheEnd
<1>1. IInv => NothingAfterTheEnd
  BY NothingDue DEF IInv
<1>2. QED
  BY <1>1, Inductive, PTL

\* on_error compares and pre_execute counts what each loaded some time ago, and
\* attempts still never passes max_attempts.
THEOREM AttemptsBounded == Spec => []RetryBudget
<1>1. IInv => RetryBudget
  BY DEF IInv, Budget, RetryBudget
<1>2. QED
  BY <1>1, Inductive, PTL

\* Whoever writes the status of a job, and however old the copy that is flushed, the
\* row keeps to the lifecycle unless a cancellation is on one side of the race:
\* pre_execute starts only a queued row, post_execute and on_error settle only what
\* runs (or, where the database fails calls, what it could not record as running),
\* no hook flushes over what another hook wrote, and a purged row stays away. The
\* invariant CopiesGood carries it: since a job is in one place at a time, only
\* cancellations and purges touch a row between a hook's read and its flush.
THEOREM LifecycleFollowed == Spec => FollowsLifecycle
<1>1. ASSUME IInv, [Next]_vars
      PROVE  [\A j \in Job : row'[j].status # row[j].status =>
                <<row[j].status, row'[j].status>>
                  \in IF Overtaken(j) THEN LostRaces
                     ELSE Moves \cup (IF Faults THEN Unrecorded ELSE {})]_vars
  BY <1>1, LegalMoves DEF LegalMove
<1>2. QED
  BY <1>1, Inductive, PTL DEF Spec, FollowsLifecycle

=============================================================================
