----------------------------- MODULE Scheduler -----------------------------
(***************************************************************************)
(* The cron scheduler: every worker process has a loop that takes or       *)
(* extends a leader lock in Redis and, as leader, polls the table          *)
(* scheduled_jobs, kicks what is due through enqueue and writes next_run_at*)
(* of all rows in one commit at the end.                                   *)
(*                                                                         *)
(* The lock may expire while its holder polls, so that two processes poll  *)
(* at once; the idempotency slot of a tick is what keeps them apart. Time  *)
(* is abstract: ticks of a cron pass, and locks and slots expire. A slot   *)
(* (300 s) is taken to outlive every poll that is under way and the row's  *)
(* wait for the next poll (30 s, or the 60 s of a dead leader's lock).     *)
(***************************************************************************)
EXTENDS Naturals, FiniteSets

CONSTANTS
  Sched,          \* ids of rows of scheduled_jobs
  Process,        \* worker processes
  Cron,           \* cron expressions
  MaxTick,        \* bound on the ticks of a cron
  PollFaultBound, \* bound on crashes and failing calls
  Nobody,         \* the absence of a lock holder
  Departed        \* the id of a process that has died or been shut down

VARIABLES
  sched,      \* [Sched -> Row]: the table scheduled_jobs
  passed,     \* [Cron -> Nat]: the ticks of a cron that lie in the past
  leader,     \* whom the leader lock names
  tickSlots,  \* the idempotency slots held: schedules with a next_run_at
  proc,       \* [Process -> ProcRec]
  pollFaults, \* faults that may still come
  kicks       \* [Key -> Nat]: jobs enqueued with a slot of their own

scheduleVars == <<sched, passed, leader, tickSlots, proc, pollFaults, kicks>>

\* next_run_at is a tick of some cron, not always of the row's.
Moment == [cron : Cron, tick : 1..MaxTick]
NoRun  == [cron |-> CHOOSE c \in Cron : TRUE, tick |-> 0]
Key    == Sched \X Moment
Holder == Process \cup {Nobody, Departed}

Row == [exists : BOOLEAN, enabled : BOOLEAN, cron : Cron, next : Moment \cup {NoRun}]

\* loaded, now: the rows and the time of the poll; todo: the rows it has not
\* looked at; new: next_run_at of the rows it will write.
ProcRec == [at : {"sleep", "get", "expire", "load", "row", "kick", "release"},
            loaded : [Sched -> [cron : Cron, next : Moment \cup {NoRun}]],
            now : [Cron -> 0..MaxTick],
            todo : SUBSET Sched, kicking : Sched, slot : BOOLEAN,
            new : [Sched -> Moment \cup {NoRun}]]

Nothing == [cron |-> NoRun.cron, next |-> NoRun]

Asleep == [at |-> "sleep",
           loaded |-> [s \in Sched |-> Nothing],
           now |-> [c \in Cron |-> 0], todo |-> {},
           kicking |-> CHOOSE s \in Sched : TRUE, slot |-> FALSE,
           new |-> [s \in Sched |-> NoRun]]

ScheduleTypes ==
  /\ sched \in [Sched -> Row]
  /\ passed \in [Cron -> 0..MaxTick]
  /\ leader \in Holder
  /\ tickSlots \subseteq Key
  /\ proc \in [Process -> ProcRec]
  /\ pollFaults \in 0..PollFaultBound
  /\ kicks \in [Key -> Nat]

ScheduleInit ==
  /\ sched \in [Sched -> [exists : {TRUE}, enabled : {TRUE},
                          cron : {NoRun.cron}, next : {NoRun}]]
  /\ passed = [c \in Cron |-> 0]
  /\ leader = Nobody
  /\ tickSlots = {}
  /\ proc = [p \in Process |-> Asleep]
  /\ pollFaults = PollFaultBound
  /\ kicks = [k \in Key |-> 0]

At(p, stage)   == proc[p].at = stage
Goto(p, stage) == proc' = [proc EXCEPT ![p].at = stage]
Sleep(p)       == proc' = [proc EXCEPT ![p] = Asleep]
PollFault      == pollFaults > 0 /\ pollFaults' = pollFaults - 1

----------------------------------------------------------------------------
(* _try_acquire_leader: SET NX, else GET, and EXPIRE when it names us.     *)

SetLock(p) ==
  /\ At(p, "sleep")
  /\ IF leader = Nobody
     THEN leader' = p /\ Goto(p, "load")
     ELSE Goto(p, "get") /\ UNCHANGED leader
  /\ UNCHANGED <<sched, passed, tickSlots, pollFaults, kicks>>

GetLock(p) ==
  /\ At(p, "get")
  /\ IF leader = p THEN Goto(p, "expire") ELSE Sleep(p)
  /\ UNCHANGED <<sched, passed, leader, tickSlots, pollFaults, kicks>>

\* Whoever the key names by now, it lives on.
ExtendLock(p) ==
  /\ At(p, "expire")
  /\ Goto(p, "load")
  /\ UNCHANGED <<sched, passed, leader, tickSlots, pollFaults, kicks>>

\* Shutdown: GET, and DELETE when it named us.
Shutdown(p) ==
  /\ At(p, "sleep") /\ leader = p
  /\ Goto(p, "release")
  /\ UNCHANGED <<sched, passed, leader, tickSlots, pollFaults, kicks>>

DeleteLock(p) ==
  /\ At(p, "release")
  /\ leader' = Nobody
  /\ Sleep(p)
  /\ UNCHANGED <<sched, passed, tickSlots, pollFaults, kicks>>

\* Mutant: the lock is set without a lifetime.
ExpiresNever == FALSE

Expires == leader # Nobody

LockExpires ==
  /\ Expires
  /\ leader' = Nobody
  /\ UNCHANGED <<sched, passed, tickSlots, proc, pollFaults, kicks>>

----------------------------------------------------------------------------
(* _process_due_schedules.                                                 *)

LoadRows(p) ==
  LET enabled == {s \in Sched : sched[s].exists /\ sched[s].enabled}
  IN /\ At(p, "load")
     /\ proc' = [proc EXCEPT ![p] =
          [Asleep EXCEPT !.at = "row", !.now = passed, !.todo = enabled,
             !.loaded = [s \in Sched |->
               IF s \in enabled THEN [cron |-> sched[s].cron, next |-> sched[s].next]
               ELSE Nothing]]]
     /\ UNCHANGED <<sched, passed, leader, tickSlots, pollFaults, kicks>>

\* _compute_next_run(row.cron, now)
NextRun(p, s) ==
  LET c == proc[p].loaded[s].cron IN [cron |-> c, tick |-> proc[p].now[c] + 1]

DueAt(moment, now) == moment # NoRun /\ moment.tick <= now[moment.cron]

\* The row is looked at, and will be written if new is not NoRun.
LookedAt(p, s, new) ==
  proc' = [proc EXCEPT ![p].at = "row", ![p].todo = @ \ {s}, ![p].new[s] = new,
                       ![p].loaded[s] = Nothing, ![p].slot = FALSE]

\* A first observation sets next_run_at; a row that is not due is left alone.
SkipRow(p, s) ==
  LET loaded == proc[p].loaded[s]
  IN /\ At(p, "row") /\ s \in proc[p].todo
     /\ ~DueAt(loaded.next, proc[p].now)
     /\ LookedAt(p, s, IF loaded.next = NoRun THEN NextRun(p, s) ELSE NoRun)
     /\ UNCHANGED <<sched, passed, leader, tickSlots, pollFaults, kicks>>

\* A task that is not registered or is paused is not kicked.
TaskMissing(p, s) ==
  /\ At(p, "row") /\ s \in proc[p].todo
  /\ DueAt(proc[p].loaded[s].next, proc[p].now)
  /\ LookedAt(p, s, NextRun(p, s))
  /\ UNCHANGED <<sched, passed, leader, tickSlots, pollFaults, kicks>>

\* Mutant: a slot for the time of the poll.
SlotOfPoll(p, s) ==
  LET c == proc[p].loaded[s].cron IN <<s, [cron |-> c, tick |-> proc[p].now[c]]>>

Slot(p, s) == <<s, proc[p].loaded[s].next>>

\* enqueue takes the slot of the tick; a duplicate is skipped, a Redis that
\* fails counts as a free slot.
TakeSlot(p, s) ==
  LET free == Slot(p, s) \notin tickSlots
  IN /\ At(p, "row") /\ s \in proc[p].todo
     /\ DueAt(proc[p].loaded[s].next, proc[p].now)
     /\ \/ /\ free
           /\ tickSlots' = tickSlots \cup {Slot(p, s)}
           /\ proc' = [proc EXCEPT ![p].at = "kick", ![p].kicking = s, ![p].slot = TRUE]
           /\ UNCHANGED pollFaults
        \/ /\ ~free
           /\ LookedAt(p, s, NextRun(p, s))
           /\ UNCHANGED <<tickSlots, pollFaults>>
        \/ /\ PollFault
           /\ proc' = [proc EXCEPT ![p].at = "kick", ![p].kicking = s, ![p].slot = FALSE]
           /\ UNCHANGED tickSlots
     /\ UNCHANGED <<sched, passed, leader, kicks>>

\* The rest of enqueue: a row and a message. A kick that raises is recorded in
\* the row of the schedule, which goes on to its next tick.
Kick(p) ==
  LET s == proc[p].kicking
      k == <<s, proc[p].loaded[s].next>>
  IN /\ At(p, "kick")
     /\ \/ /\ kicks' = IF proc[p].slot THEN [kicks EXCEPT ![k] = @ + 1] ELSE kicks
           /\ UNCHANGED pollFaults
        \/ PollFault /\ UNCHANGED kicks
     /\ LookedAt(p, s, NextRun(p, s))
     /\ UNCHANGED <<sched, passed, leader, tickSlots>>

Dirty(p) == {s \in Sched : proc[p].new[s] # NoRun}

\* All rows in one commit, which fails if one of them has been deleted.
CommitRows(p) ==
  /\ At(p, "row") /\ proc[p].todo = {}
  /\ sched' = IF \A s \in Dirty(p) : sched[s].exists
              THEN [s \in Sched |-> IF s \in Dirty(p)
                      THEN [sched[s] EXCEPT !.next = proc[p].new[s]] ELSE sched[s]]
              ELSE sched
  /\ Sleep(p)
  /\ UNCHANGED <<passed, leader, tickSlots, pollFaults, kicks>>

\* An iteration raises: the loop logs it and sleeps.
PollFails(p) ==
  /\ proc[p].at \notin {"sleep", "release"}
  /\ PollFault
  /\ Sleep(p)
  /\ UNCHANGED <<sched, passed, leader, tickSlots, kicks>>

\* The process dies, or fails to delete the key as it shuts down. The one that
\* takes its place has an id of its own, so nobody extends the lock any more.
ProcessDies(p) ==
  /\ ~At(p, "sleep") \/ leader = p
  /\ PollFault
  /\ Sleep(p)
  /\ leader' = IF leader = p THEN Departed ELSE leader
  /\ UNCHANGED <<sched, passed, tickSlots, kicks>>

----------------------------------------------------------------------------
(* Time, and the administrator.                                            *)

TickPasses(c) ==
  /\ passed[c] < MaxTick - 1
  /\ passed' = [passed EXCEPT ![c] = @ + 1]
  /\ UNCHANGED <<sched, leader, tickSlots, proc, pollFaults, kicks>>

Polling == \E p \in Process : proc[p].at \in {"row", "kick"}

SlotExpires(k) ==
  /\ k \in tickSlots
  /\ ~Polling /\ sched[k[1]].next # k[2]
  /\ tickSlots' = tickSlots \ {k}
  /\ UNCHANGED <<sched, passed, leader, proc, pollFaults, kicks>>

\* A new cron takes back next_run_at.
UpdateCron(s, c) ==
  /\ sched[s].exists
  /\ sched' = [sched EXCEPT ![s].cron = c, ![s].next = NoRun]
  /\ UNCHANGED <<passed, leader, tickSlots, proc, pollFaults, kicks>>

Enable(s, on) ==
  /\ sched[s].exists
  /\ sched' = [sched EXCEPT ![s].enabled = on]
  /\ UNCHANGED <<passed, leader, tickSlots, proc, pollFaults, kicks>>

Delete(s) ==
  /\ sched[s].exists
  /\ sched' = [sched EXCEPT ![s].exists = FALSE]
  /\ UNCHANGED <<passed, leader, tickSlots, proc, pollFaults, kicks>>

----------------------------------------------------------------------------

LoopStep(p) == \/ SetLock(p) \/ GetLock(p) \/ ExtendLock(p) \/ DeleteLock(p)
               \/ LoadRows(p) \/ Kick(p) \/ CommitRows(p)
               \/ \E s \in Sched : SkipRow(p, s) \/ TaskMissing(p, s) \/ TakeSlot(p, s)

ScheduleNext ==
  \/ \E p \in Process : LoopStep(p) \/ Shutdown(p) \/ PollFails(p) \/ ProcessDies(p)
  \/ LockExpires
  \/ \E c \in Cron : TickPasses(c)
  \/ \E k \in Key : SlotExpires(k)
  \/ \E s \in Sched, c \in Cron : UpdateCron(s, c)
  \/ \E s \in Sched, on \in BOOLEAN : Enable(s, on)
  \/ \E s \in Sched : Delete(s)

ScheduleSpec == ScheduleInit /\ [][ScheduleNext]_scheduleVars

\* Every loop goes on, the leader's as well. Only the lock of a process that is gone
\* must expire: a leader that lives extends its lock and may keep it for ever.
ScheduleFairness ==
  /\ \A p \in Process : WF_scheduleVars(LoopStep(p))
  /\ WF_scheduleVars(LockExpires /\ leader = Departed)

FairScheduleSpec == ScheduleSpec /\ ScheduleFairness

----------------------------------------------------------------------------
(* Properties.                                                             *)

\* One tick of a schedule is enqueued at most once, by whatever number of
\* processes, with polls that overlap, die, or cannot commit: unless Redis
\* failed and the slot was not asked.
TickOnce == \A k \in Key : kicks[k] <= 1

Due(s) == sched[s].exists /\ sched[s].enabled /\ DueAt(sched[s].next, passed)

\* A schedule that is due is handled, whether one leader keeps the lock for good, or
\* the lock changes hands while its holders poll, or its holder dies with it.
DueIsHandled == \A s \in Sched : Due(s) ~> ~Due(s)
=============================================================================
