---------------------------- MODULE MC_Machines ----------------------------
(***************************************************************************)
(* Small instances of several components in one run: the compute queue     *)
(* without overlapping flushes, the same with all of them and under the    *)
(* fairness of its reaper, the background jobs under the fairness of their *)
(* processes and the outbound semaphores. They share no state; a behaviour *)
(* is one of the component that part names, the others stay as they began. *)
(***************************************************************************)
EXTENDS ComputeQueue, OutboundSemaphore

CONSTANT Process

VARIABLES part,
          fairRow, fairTxn, fairStanding, fairPaused,
          backgroundRow, backgroundCall, queue, delayed, exec, flag, admin

\* A job with a local handler, one without, which the reaper's window of one row may
\* show instead, and purges.
FQ == INSTANCE ComputeQueue
        WITH row <- fairRow, txn <- fairTxn,
             standing <- fairStanding, paused <- fairPaused

BG == INSTANCE BackgroundJobs
        WITH Job <- LocalJob, Worker <- Process, Admin <- {"first", "second"},
             AdminOps <- {"cancel", "cancel_active", "drain"}, Crashes <- FALSE, Faults <- FALSE,
             row <- backgroundRow, call <- backgroundCall

fairVars       == <<fairRow, fairTxn, fairStanding, fairPaused>>
backgroundVars == <<backgroundRow, backgroundCall, queue, delayed, exec, flag, admin>>
machines       == <<part, vars, fairVars, backgroundVars, semaphoreVars>>

MachinesInit ==
  /\ part \in {"serial", "compute", "background", "outbound"}
  /\ Init /\ FQ!Init /\ BG!Init /\ SemaphoreInit

MachinesNext ==
  \/ part = "serial" /\ SerialNext /\ UNCHANGED <<part, fairVars, backgroundVars, semaphoreVars>>
  \/ part = "compute" /\ FQ!Next /\ UNCHANGED <<part, vars, backgroundVars, semaphoreVars>>
  \/ part = "background" /\ BG!Next /\ UNCHANGED <<part, vars, fairVars, semaphoreVars>>
  \/ part = "outbound" /\ SemaphoreNext /\ UNCHANGED <<part, vars, fairVars, backgroundVars>>

\* FQ!Clockwork and FQ!ReapersRun, of which the others but ReapSelect, which passes
\* over a table without rows as well, ask nothing of a component that has not begun;
\* no more do BG!Fairness and SemaphoreFairness.
MachinesSpec ==
  /\ MachinesInit /\ [][MachinesNext]_machines
  /\ FQ!Clockwork /\ BG!Fairness /\ SemaphoreFairness
  /\ \A p \in Reaper : /\ WF_fairVars(part = "compute" /\ FQ!ReapSelect(p))
                       /\ SF_fairVars(FQ!ReapPending(p))
                       /\ SF_fairVars(FQ!ReapCommit(p))
                       /\ WF_fairVars(FQ!PassRaises(p))

----------------------------------------------------------------------------

ExpiredClaimsReaped == FQ!ExpiredClaimsEnd
LocalJobsReaped     == FQ!LocalJobsSettle

JobsSettle          == BG!JobsSettle
=============================================================================
