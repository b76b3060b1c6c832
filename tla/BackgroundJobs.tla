--------------------------- MODULE BackgroundJobs ---------------------------
(***************************************************************************)
(* Background jobs: a row of background_jobs per call of enqueue, a Taskiq *)
(* message that carries its id through a Redis list, worker processes      *)
(* whose middleware moves the row along, and administrators who cancel.    *)
(*                                                                         *)
(* The list hands a message out and forgets it, and a retry waits in the   *)
(* memory of the process whose execution failed: both die with the         *)
(* process. The middleware and the administrators load a row, decide, and  *)
(* flush the columns they changed with UPDATE ... WHERE id = ?; nothing    *)
(* re-checks the status. So each is two steps: ...Load, ...Commit.         *)
(***************************************************************************)
EXTENDS Naturals

CONSTANTS
  Job,          \* ids of rows; each is one call of enqueue
  Worker,       \* Taskiq worker processes, each executing one task at a time
  Admin,        \* concurrent administrators' requests
  None,         \* no job
  MaxAttempts,  \* max_attempts of the rows
  AdminOps,     \* the administrative operations in use
  Crashes,      \* worker processes and producers may die
  Faults        \* the database or Redis may fail a call

AllAdminOps == {"cancel", "cancel_active", "drain", "purge"}

ASSUME NoneAssumption     == None \notin Job
ASSUME AttemptsAssumption == MaxAttempts \in Nat \ {0}
ASSUME AdminAssumption    == AdminOps \subseteq AllAdminOps
ASSUME FailureAssumption  == Crashes \in BOOLEAN /\ Faults \in BOOLEAN

VARIABLES
  row,      \* [Job -> Row]: the table background_jobs
  call,     \* [Job -> CallStage]: how far the call of enqueue is
  queue,    \* [Job -> Nat]: messages in the Redis list
  delayed,  \* [Worker -> [Job -> Nat]]: retries asleep in each process
  exec,     \* [Worker -> Exec]: what each process executes
  flag,     \* the jobs with a key bgjob:cancel:<id>
  admin     \* [Admin -> Req]

vars == <<row, call, queue, delayed, exec, flag, admin>>

Status == {"absent", "queued", "running", "cancelling",
           "done", "failed_terminal", "cancelled"}

Row == [status : Status, attempts : Nat]

CallStage == {"none", "inserted", "over"}

ExecStage == {"idle", "received", "pre", "body", "returned", "post",
              "raised", "error"}

\* loaded is what the middleware's open session read.
Exec == [stage : ExecStage, job : Job \cup {None}, loaded : Row]

ReqStage == {"idle", "cancel", "cancel_active", "unqueue", "signal"}

\* purging: the rows whose messages a bulk cancel still has to remove.
Req == [stage : ReqStage, jobs : SUBSET Job, purging : SUBSET Job,
        loaded : [Job -> Row]]

NoRow  == [status |-> "absent", attempts |-> 0]
NoExec == [stage |-> "idle", job |-> None, loaded |-> NoRow]
NoReq  == [stage |-> "idle", jobs |-> {}, purging |-> {},
           loaded |-> [j \in Job |-> NoRow]]

Active    == {"queued", "running", "cancelling"}
Terminal  == {"done", "failed_terminal", "cancelled"}
Cancelled == {"cancelled", "cancelling"}

TypeOK ==
  /\ row \in [Job -> Row]
  /\ call \in [Job -> CallStage]
  /\ queue \in [Job -> Nat]
  /\ delayed \in [Worker -> [Job -> Nat]]
  /\ exec \in [Worker -> Exec]
  /\ flag \subseteq Job
  /\ admin \in [Admin -> Req]

Init ==
  /\ row = [j \in Job |-> NoRow]
  /\ call = [j \in Job |-> "none"]
  /\ queue = [j \in Job |-> 0]
  /\ delayed = [w \in Worker |-> [j \in Job |-> 0]]
  /\ exec = [w \in Worker |-> NoExec]
  /\ flag = {}
  /\ admin = [a \in Admin |-> NoReq]

-----------------------------------------------------------------------------
(***************************************************************************)
(* Producers                                                               *)
(***************************************************************************)

\* enqueue up to the commit of the row. Callers that the pause switch or the
\* idempotency slot turns away never get here.
enqueue(j) ==
  /\ call[j] = "none"
  /\ call' = [call EXCEPT ![j] = "inserted"]
  /\ row' = [row EXCEPT ![j] = [status |-> "queued", attempts |-> 0]]
  /\ UNCHANGED <<queue, delayed, exec, flag, admin>>

\* Variant: a kick without an answer is kicked again.
KiqUntilAnswered(j) ==
  /\ call[j] = "inserted"
  /\ call' \in {call, [call EXCEPT ![j] = "over"]}
  /\ queue' = [queue EXCEPT ![j] = IF @ < 2 THEN @ + 1 ELSE @]
  /\ UNCHANGED <<row, delayed, exec, flag, admin>>

\* A kick whose answer is lost leaves the same state.
kiq(j) ==
  /\ call[j] = "inserted"
  /\ call' = [call EXCEPT ![j] = "over"]
  /\ queue' = [queue EXCEPT ![j] = @ + 1]
  /\ UNCHANGED <<row, delayed, exec, flag, admin>>

\* The kick raises, or the producer dies before it: the row stays queued.
KiqFails(j) ==
  /\ Crashes \/ Faults
  /\ call[j] = "inserted"
  /\ call' = [call EXCEPT ![j] = "over"]
  /\ UNCHANGED <<row, queue, delayed, exec, flag, admin>>

-----------------------------------------------------------------------------
(***************************************************************************)
(* Executions                                                              *)
(***************************************************************************)

\* The ORM writes a column when its new value differs from the loaded one.
Column(old, new, cur) == IF new = old THEN cur ELSE new

Flush(old, new, cur) ==
  [status   |-> Column(old.status, new.status, cur.status),
   attempts |-> Column(old.attempts, new.attempts, cur.attempts)]

\* The broker pops the message before the task starts.
Receive(w, j) ==
  /\ exec[w].stage = "idle"
  /\ queue[j] > 0
  /\ queue' = [queue EXCEPT ![j] = @ - 1]
  /\ exec' = [exec EXCEPT ![w] = [stage |-> "received", job |-> j,
                                  loaded |-> NoRow]]
  /\ UNCHANGED <<row, call, delayed, flag, admin>>

\* The table after a flush of row j; the flush of a row that was deleted
\* meanwhile matches nothing and raises.
Flushed(j, old, new) ==
  IF row[j].status = "absent" THEN row
                              ELSE [row EXCEPT ![j] = Flush(old, new, row[j])]

\* A middleware hook reads the row; if there is none it returns at once and
\* leaves the execution at next.
HookLoad(w, from, to, next) ==
  /\ exec[w].stage = from
  /\ LET r == row[exec[w].job]
     IN  exec' = [exec EXCEPT ![w] =
                    IF r.status = "absent"
                      THEN next
                      ELSE [exec[w] EXCEPT !.stage = to, !.loaded = r]]
  /\ UNCHANGED <<row, call, queue, delayed, flag, admin>>

\* What the three hooks make of the row they loaded.
Started(r, flagged) ==
  IF r.status \in Cancelled \/ flagged
    THEN [r EXCEPT !.status = "cancelled"]
    ELSE [r EXCEPT !.status = "running", !.attempts = r.attempts + 1]

\* Variant: a cancellation that came meanwhile is not looked at.
ReturnedUnchecked(r) == [r EXCEPT !.status = "done"]

Returned(r) ==
  [r EXCEPT !.status = IF r.status \in Cancelled THEN "cancelled" ELSE "done"]

\* Variant: one attempt too many.
OneMoreRetry(r) == r.attempts <= MaxAttempts

RetriesLeft(r) == r.attempts < MaxAttempts

\* Variants: a re-kick after the last failure too; no re-kick.
RekickAlways(r) == TRUE
RekickNever(r)  == FALSE

Rekicks(r) == r.status \notin Cancelled /\ RetriesLeft(r)

Failed(r) ==
  [r EXCEPT !.status = IF r.status \in Cancelled THEN "cancelled"
                       ELSE IF RetriesLeft(r) THEN "queued"
                       ELSE "failed_terminal"]

PreLoad(w) ==
  HookLoad(w, "received", "pre", [exec[w] EXCEPT !.stage = "body"])

\* Whatever pre_execute found, the task function runs: the hook returns the
\* message in every case. If Redis fails, no job reads as cancelled.
PreCommit(w) ==
  LET j == exec[w].job
  IN  /\ exec[w].stage = "pre"
      /\ \E flagged \in {j \in flag} \cup (IF Faults THEN {FALSE} ELSE {}) :
           row' = Flushed(j, exec[w].loaded, Started(exec[w].loaded, flagged))
      /\ exec' = [exec EXCEPT ![w].stage = "body"]
      /\ UNCHANGED <<call, queue, delayed, flag, admin>>

\* The task function returns, also when it noticed the cancel flag, or raises.
BodyEnds(w, how) ==
  /\ exec[w].stage = "body"
  /\ exec' = [exec EXCEPT ![w].stage = how]
  /\ UNCHANGED <<row, call, queue, delayed, flag, admin>>

PostLoad(w) == HookLoad(w, "returned", "post", NoExec)

PostCommit(w) ==
  /\ exec[w].stage = "post"
  /\ row' = Flushed(exec[w].job, exec[w].loaded, Returned(exec[w].loaded))
  /\ exec' = [exec EXCEPT ![w] = NoExec]
  /\ UNCHANGED <<call, queue, delayed, flag, admin>>

ErrorLoad(w) == HookLoad(w, "raised", "error", NoExec)

\* on_error: the retry is scheduled only after the commit went through.
ErrorCommit(w) ==
  LET j == exec[w].job
  IN  /\ exec[w].stage = "error"
      /\ row' = Flushed(j, exec[w].loaded, Failed(exec[w].loaded))
      /\ delayed' = IF row[j].status # "absent" /\ Rekicks(exec[w].loaded)
                      THEN [delayed EXCEPT ![w][j] = @ + 1]
                      ELSE delayed
      /\ exec' = [exec EXCEPT ![w] = NoExec]
      /\ UNCHANGED <<call, queue, flag, admin>>

\* A hook whose session fails logs it: the task runs all the same, a finished
\* one is given up.
HookFails(w) ==
  /\ Faults
  /\ exec[w].stage \in ExecStage \ {"idle", "body"}
  /\ exec' = [exec EXCEPT ![w] = IF exec[w].stage \in {"received", "pre"}
                                   THEN [exec[w] EXCEPT !.stage = "body"]
                                   ELSE NoExec]
  /\ UNCHANGED <<row, call, queue, delayed, flag, admin>>

\* _delayed_rekick after its sleep; its kick may fail and is then given up.
Rekick(w, j) ==
  /\ delayed[w][j] > 0
  /\ delayed' = [delayed EXCEPT ![w][j] = @ - 1]
  /\ \/ queue' = [queue EXCEPT ![j] = @ + 1]
     \/ Faults /\ queue' = queue
  /\ UNCHANGED <<row, call, exec, flag, admin>>

\* The process dies with its execution and its sleeping retries.
Crash(w) ==
  /\ Crashes
  /\ exec[w] # NoExec \/ \E j \in Job : delayed[w][j] > 0
  /\ exec' = [exec EXCEPT ![w] = NoExec]
  /\ delayed' = [delayed EXCEPT ![w] = [j \in Job |-> 0]]
  /\ UNCHANGED <<row, call, queue, flag, admin>>

-----------------------------------------------------------------------------
(***************************************************************************)
(* Administrators                                                          *)
(***************************************************************************)

NewRequest(stage, S) ==
  [stage |-> stage, jobs |-> S, purging |-> {},
   loaded |-> [j \in Job |-> IF j \in S THEN row[j] ELSE NoRow]]

\* cancel_background_job reads one row, cancel_active_background_jobs the
\* active ones that match its filters.
CancelLoad(a, S) ==
  /\ admin[a].stage = "idle"
  /\ S # {}
  /\ \/ /\ "cancel" \in AdminOps
        /\ \E j \in Job : S = {j} /\ row[j].status \in Active
        /\ admin' = [admin EXCEPT ![a] = NewRequest("cancel", S)]
     \/ /\ "cancel_active" \in AdminOps
        /\ S \subseteq {j \in Job : row[j].status \in Active}
        /\ admin' = [admin EXCEPT ![a] = NewRequest("cancel_active", S)]
  /\ UNCHANGED <<row, call, queue, delayed, exec, flag>>

\* The bulk cancel settles what it saw queued.
ToCancel(stage, r) ==
  [r EXCEPT !.status = IF stage = "cancel_active" /\ r.status = "queued"
                         THEN "cancelled" ELSE "cancelling"]

\* The flush of a row that was deleted meanwhile fails the whole request.
CancelCommit(a) ==
  LET req == admin[a]
      lost == \E j \in req.jobs : row[j].status = "absent"
      queued == {j \in req.jobs : req.loaded[j].status = "queued"}
  IN  /\ req.stage \in {"cancel", "cancel_active"}
      /\ row' = IF lost THEN row
                ELSE [j \in Job |->
                        IF j \in req.jobs
                          THEN Flush(req.loaded[j],
                                     ToCancel(req.stage, req.loaded[j]), row[j])
                          ELSE row[j]]
      /\ admin' = [admin EXCEPT ![a] =
                     IF lost THEN NoReq
                     ELSE IF req.stage = "cancel"
                       THEN [NoReq EXCEPT !.stage = "signal", !.jobs = req.jobs]
                       ELSE [NoReq EXCEPT !.stage = "unqueue", !.jobs = req.jobs,
                                          !.purging = queued]]
      /\ UNCHANGED <<call, queue, delayed, exec, flag>>

\* Variant: one copy of each message.
RemoveOne(n) == n - 1

\* LREM with count 0 removes every copy.
Remove(n) == 0

\* _purge_bgjob_messages: what it fails to remove stays.
Unqueue(a) ==
  /\ admin[a].stage = "unqueue"
  /\ \E S \in SUBSET admin[a].purging :
       /\ Faults \/ S = admin[a].purging
       /\ queue' = [j \in Job |-> IF j \in S THEN Remove(queue[j]) ELSE queue[j]]
  /\ admin' = [admin EXCEPT ![a].stage = "signal", ![a].purging = {}]
  /\ UNCHANGED <<row, call, delayed, exec, flag>>

\* drain_task: it signals what it read as active and leaves the rows alone.
DrainLoad(a) ==
  /\ "drain" \in AdminOps
  /\ admin[a].stage = "idle"
  /\ LET S == {j \in Job : row[j].status \in Active}
     IN  /\ S # {}
         /\ admin' = [admin EXCEPT ![a] = [NoReq EXCEPT !.stage = "signal",
                                                         !.jobs = S]]
  /\ UNCHANGED <<row, call, queue, delayed, exec, flag>>

\* signal_cancel, one job after the other; a failure is logged.
signal_cancel(a, j) ==
  /\ admin[a].stage = "signal"
  /\ j \in admin[a].jobs
  /\ \/ flag' = flag \cup {j}
     \/ Faults /\ flag' = flag
  /\ admin' = [admin EXCEPT ![a] =
                 IF admin[a].jobs = {j}
                   THEN NoReq
                   ELSE [admin[a] EXCEPT !.jobs = admin[a].jobs \ {j}]]
  /\ UNCHANGED <<row, call, queue, delayed, exec>>

\* The administrator's request dies.
RequestDies(a) ==
  /\ Crashes
  /\ admin[a].stage # "idle"
  /\ admin' = [admin EXCEPT ![a] = NoReq]
  /\ UNCHANGED <<row, call, queue, delayed, exec, flag>>

\* purge_background_jobs, and the nightly cleanup.
purge(j) ==
  /\ "purge" \in AdminOps
  /\ row[j].status \in Terminal
  /\ row' = [row EXCEPT ![j] = NoRow]
  /\ UNCHANGED <<call, queue, delayed, exec, flag, admin>>

\* The key outlives CANCEL_TTL_SECONDS.
FlagExpires(j) ==
  /\ j \in flag
  /\ flag' = flag \ {j}
  /\ UNCHANGED <<row, call, queue, delayed, exec, admin>>

-----------------------------------------------------------------------------

Producer == \E j \in Job : enqueue(j) \/ kiq(j) \/ KiqFails(j)

Middleware(w) ==
  \/ PreLoad(w)  \/ PreCommit(w)
  \/ PostLoad(w) \/ PostCommit(w)
  \/ ErrorLoad(w) \/ ErrorCommit(w)

WorkerStep(w) ==
  \/ \E j \in Job : Receive(w, j) \/ Rekick(w, j)
  \/ \E how \in {"returned", "raised"} : BodyEnds(w, how)
  \/ Middleware(w)
  \/ HookFails(w)
  \/ Crash(w)

AdminStep(a) ==
  \/ \E S \in SUBSET Job : CancelLoad(a, S)
  \/ CancelCommit(a)
  \/ Unqueue(a)
  \/ DrainLoad(a)
  \/ \E j \in Job : signal_cancel(a, j)
  \/ RequestDies(a)

Next ==
  \/ Producer
  \/ \E w \in Worker : WorkerStep(w)
  \/ \E a \in Admin : AdminStep(a)
  \/ \E j \in Job : purge(j) \/ FlagExpires(j)

Spec == Init /\ [][Next]_vars

-----------------------------------------------------------------------------
(***************************************************************************)
(* Safety                                                                  *)
(***************************************************************************)

\* Where an execution of j is due or under way: the producer about to kick it,
\* the list, a process executing it, a process with a retry of it asleep.
Held(j) ==
  {<<"producer", None>> : x \in {c \in {call[j]} : c = "inserted"}}
    \cup {<<"list", None>> : x \in {n \in {queue[j]} : n > 0}}
    \cup {<<"execution", w>> : w \in {v \in Worker : exec[v].job = j}}
    \cup {<<"retry", w>> : w \in {v \in Worker : delayed[v][j] > 0}}

\* However retries, bulk cancels and crashes interleave, a row is never due or
\* executing in two places, so its task never runs twice at once and the
\* literal value that pre_execute writes into attempts loses no increment.
OneExecutionAtATime ==
  \A j \in Job : /\ queue[j] <= 1
                 /\ \A w \in Worker : delayed[w][j] <= 1
                 /\ \A p, q \in Held(j) : p = q

\* A job that is done or in the dead letter has nothing left that could execute
\* it again.
NothingAfterTheEnd ==
  \A j \in Job : row[j].status \in {"done", "failed_terminal"} => Held(j) = {}

\* Retries reuse the row and never take it past max_attempts.
RetryBudget == \A j \in Job : row[j].attempts <= MaxAttempts

-----------------------------------------------------------------------------
(***************************************************************************)
(* Lifecycle                                                               *)
(***************************************************************************)

\* A hook or a request flushes over row j, whose status changed after it was loaded.
Overtaken(j) ==
  \/ \E w \in Worker : /\ exec[w].stage \in {"pre", "post", "error"}
                       /\ exec[w].job = j
                       /\ exec'[w] # exec[w]
                       /\ row[j].status # exec[w].loaded.status
  \/ \E a \in Admin : /\ admin[a].stage \in {"cancel", "cancel_active"}
                      /\ j \in admin[a].jobs
                      /\ admin'[a] # admin[a]
                      /\ row[j].status # admin[a].loaded[j].status

Moves ==
  {<<"absent", "queued">>,
   <<"queued", "running">>, <<"queued", "cancelling">>, <<"queued", "cancelled">>,
   <<"running", "done">>, <<"running", "queued">>,
   <<"running", "failed_terminal">>, <<"running", "cancelling">>,
   <<"cancelling", "cancelled">>}
    \cup {<<s, "absent">> : s \in Terminal}

\* A row whose start the database failed to record settles from queued.
Unrecorded == {<<"queued", "done">>, <<"queued", "failed_terminal">>}

\* What a flush over a changed row may do: a cancel has changed the row or does now.
LostRaces == {m \in (Status \ {"absent"}) \X (Status \ {"absent"}) :
                m[1] \in Cancelled \/ m[2] \in Cancelled}

\* However old the copy of a row that a hook or a request flushes, the row keeps to the
\* documented lifecycle unless a cancellation is on one side of the race: a hook
\* never flushes over what another hook wrote, a purged row does not come back, and
\* an end that no cancellation meets is final until it is purged.
FollowsLifecycle ==
  [][\A j \in Job : row'[j].status # row[j].status =>
       <<row[j].status, row'[j].status>>
         \in IF Overtaken(j) THEN LostRaces
            ELSE Moves \cup (IF Faults THEN Unrecorded ELSE {})]_vars

-----------------------------------------------------------------------------
(***************************************************************************)
(* Liveness                                                                *)
(***************************************************************************)

\* The list is first in, first out, so no message waits for ever behind
\* others; a task ends, its hooks run, a sleeping retry wakes up.
Fairness ==
  /\ \A j \in Job : WF_vars(kiq(j)) /\ SF_vars(\E w \in Worker : Receive(w, j))
  /\ \A w \in Worker :
       /\ WF_vars(Middleware(w))
       /\ WF_vars(\E how \in {"returned", "raised"} : BodyEnds(w, how))
       /\ \A j \in Job : WF_vars(Rekick(w, j))
  /\ \A a \in Admin : WF_vars(CancelCommit(a) \/ Unqueue(a)
                                \/ \E j \in Job : signal_cancel(a, j))

FairSpec == Spec /\ Fairness

\* A cancel was loaded before the end of its job and flushed after it: the row says
\* cancelling, and nobody will execute the job and so settle it.
CancelledTooLate(j) == row[j].status = "cancelling" /\ Held(j) = {}

\* A retry was flushed over a bulk cancel, which will remove the retry's message.
RetryPurged(j) ==
  /\ row[j].status = "queued"
  /\ \E a \in Admin : admin[a].stage = "unqueue" /\ j \in admin[a].purging

\* While nothing dies or fails, every job settles, with cancels, bulk cancels and
\* drains at any moment: retries end in done or in the dead letter, a cancelled job in
\* cancelled. A cancel that comes too late and a bulk cancel that races a retry are the
\* only ways to leave a job that never does.
JobsSettle ==
  \A j \in Job : \/ []<>(row[j].status \notin Active)
                 \/ <>[]CancelledTooLate(j)
                 \/ <>RetryPurged(j)

=============================================================================
