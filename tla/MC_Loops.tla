------------------------------ MODULE MC_Loops ------------------------------
(***************************************************************************)
(* Small instances of four components in one run: the drain of the play    *)
(* counts, the cron scheduler, the cascade of the lyrics jobs and the      *)
(* WebSocket connections, each under the fairness of its loops. They share *)
(* no state; a behaviour is one of the component that part names, the      *)
(* others stay as they began.                                              *)
(***************************************************************************)
EXTENDS PlaycountDrain, Scheduler, WsManager

CONSTANTS Job, Worker, Reaper, Executor, None

VARIABLES part, row, revoked, msgs, tx, taskFaults, paid, reasons

LY == INSTANCE LyricsCascade
        WITH Request <- {"request"}, Plan <- <<"catalog", "remote", "speechkit">>,
             AdminOps <- {"revoke"}, Faults <- {}, FaultBound <- 0,
             faults <- taskFaults, excuses <- reasons

OneUser == [s \in Socket |-> CHOOSE u \in User : TRUE]
Homes   == <<"a", "a", "b">>

cascadeVars == <<row, revoked, msgs, tx, taskFaults, paid, reasons>>
loops       == <<part, vars, scheduleVars, cascadeVars, socketVars>>

\* Two sockets of a user: on one server, with a fault, or on two, without.
SocketsCome == /\ handler[1] = "new" /\ handler[2] # handler[3]
               /\ socketFaults = (IF handler[2] = "new" THEN 1 ELSE 0)
NobodyComes == /\ \A s \in Socket : handler[s] = "left"
               /\ socketFaults = 0

LoopsInit ==
  /\ part \in {"drain", "schedule", "faulty schedule", "cascade", "sockets"}
  /\ Init /\ ScheduleInit /\ LY!Init /\ SocketInit
  /\ IF part = "sockets" THEN SocketsCome ELSE NobodyComes

\* Three ticks without faults and without administrators, or two with both.
LoopsNext ==
  \/ /\ part = "drain"
     /\ Next /\ UNCHANGED <<part, scheduleVars, cascadeVars, socketVars>>
  \/ /\ part = "schedule"
     /\ ScheduleNext /\ UNCHANGED <<part, vars, cascadeVars, socketVars>>
     /\ pollFaults' = pollFaults
     /\ \A s \in Sched : sched'[s].exists /\ sched'[s].enabled
  \/ /\ part = "faulty schedule"
     /\ ScheduleNext /\ UNCHANGED <<part, vars, cascadeVars, socketVars>>
     /\ \A c \in Cron : passed'[c] <= 1
  \/ /\ part = "cascade"
     /\ LY!Next /\ UNCHANGED <<part, vars, scheduleVars, socketVars>>
  \/ /\ part = "sockets"
     /\ SocketNext /\ UNCHANGED <<part, vars, scheduleVars, cascadeVars>>

Scheduling == part \in {"schedule", "faulty schedule"}

\* Fairness, LY!Fairness and SocketFairness ask nothing of a component that has not
\* begun; that of the scheduler, ScheduleFairness, is for its own parts.
LoopsSpec == /\ LoopsInit /\ [][LoopsNext]_loops
             /\ Fairness /\ LY!Fairness /\ SocketFairness
             /\ \A p \in Process : WF_scheduleVars(Scheduling /\ LoopStep(p))
             /\ WF_scheduleVars(Scheduling /\ LockExpires /\ leader = Departed)

----------------------------------------------------------------------------

DueHandled == \A s \in Sched : (Scheduling /\ Due(s)) ~> ~Due(s)
JobsMoveOn == LY!JobsMoveOn
=============================================================================
