---------------------------- MODULE JobLifecycle ----------------------------
(***************************************************************************)
(* What the compute-job queue promises of each job, whoever acts on it and *)
(* however many jobs one step settles: a job is leased only while it is    *)
(* pending, it is settled at most once, and only a purge takes a settled   *)
(* job away.                                                               *)
(***************************************************************************)
CONSTANTS Job, Worker, None

VARIABLES state,   \* [Job -> State]
          owner    \* [Job -> Worker \cup {None}]

State   == {"absent", "pending", "claimed", "succeeded", "failed"}
Settled == {"succeeded", "failed"}

Init == /\ state = [j \in Job |-> "absent"]
        /\ owner = [j \in Job |-> None]

Submit(j) == /\ state[j] = "absent"
             /\ state'[j] = "pending"
             /\ owner'[j] = None

Lease(j) == /\ state[j] = "pending"
            /\ state'[j] = "claimed"
            /\ owner'[j] \in Worker

\* The worker's result, or a local run instead of a failed worker: the job
\* keeps the name of the last worker that held it.
Succeed(j) == /\ state[j] \in {"pending", "claimed"}
              /\ state'[j] = "succeeded"
              /\ owner'[j] = owner[j]

GiveUp(j) == /\ state[j] = "claimed"
             /\ state'[j] = "failed"
             /\ owner'[j] = None

Return(j) == /\ state[j] = "claimed"
             /\ state'[j] = "pending"
             /\ owner'[j] = None

Remove(j) == /\ state[j] \in {"pending"} \cup Settled
             /\ state'[j] = "absent"
             /\ owner'[j] = None

Stay(j) == state'[j] = state[j] /\ owner'[j] = owner[j]

Next == /\ state' \in [Job -> State]
        /\ owner' \in [Job -> Worker \cup {None}]
        /\ \A j \in Job : \/ Submit(j)  \/ Lease(j)  \/ Succeed(j) \/ GiveUp(j)
                          \/ Return(j)  \/ Remove(j) \/ Stay(j)

Spec == Init /\ [][Next]_<<state, owner>>
=============================================================================
