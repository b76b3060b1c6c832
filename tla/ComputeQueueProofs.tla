-------------------------- MODULE ComputeQueueProofs --------------------------
(***************************************************************************)
(* Proofs about ComputeQueue, for any number of jobs, workers, concurrent  *)
(* requests and reapers and any mix of administrative operations.          *)
(***************************************************************************)
EXTENDS ComputeQueue, TLAPS

\* What a transaction may hold: rows as some committed state had them, in the
\* statuses its handler let pass.
LoadedWell(t) ==
  /\ t.kind = "claim" => t.who \in Worker
  /\ t.kind \in {"result", "fail"} =>
       \A j \in t.jobs : t.loaded[j].status = "claimed"
  /\ t.kind \in {"route", "release"} =>
       /\ t.kind \in AdminOps
       /\ \A j \in t.jobs : t.loaded[j].status \notin Terminal \cup {"absent"}
  /\ t.kind \in {"reap_expired", "reap_pending"} =>
       \A j \in t.jobs : t.loaded[j].status \in Active
  /\ t.kind # "claim" => \A j \in t.jobs : Consistent(t.loaded[j])

\* The inductive strengthening of ClaimFieldsAgree: a blind flush keeps the
\* fields of a row together because the copy it starts from had them together.
IInv ==
  /\ TypeOK
  /\ ClaimFieldsAgree
  /\ \A h \in Handler : LoadedWell(txn[h])

-----------------------------------------------------------------------------

LEMMA NoRowType == NoRow \in Row
BY DEF NoRow, Row, Status, Lease, Wait

LEMMA NoTxnType == NoTxn \in Txn
BY NoRowType DEF NoTxn, Txn, Kind

\* The services map rows to rows.
LEMMA ServiceTypes ==
  ASSUME NEW r \in Row, NEW j \in Job, NEW dead \in BOOLEAN
  PROVE  /\ mark_succeeded(r) \in Row
         /\ mark_terminal_failed(r) \in Row
         /\ requeue_with_policy_backoff(r) \in Row
         /\ handle_worker_failure(j, r, dead) \in Row
         /\ Reaped(j, r) \in Row
<1>1. mark_succeeded(r) \in Row
  BY DEF mark_succeeded, Row, Status, Lease
<1>2. mark_terminal_failed(r) \in Row
  BY DEF mark_terminal_failed, Row, Status, Lease
<1>3. requeue_with_policy_backoff(r) \in Row
  BY DEF requeue_with_policy_backoff, Row, Status, Lease, Wait
<1>4. \A d \in BOOLEAN : handle_worker_failure(j, r, d) \in Row
  BY <1>1, <1>2, <1>3 DEF handle_worker_failure
<1>5. Reaped(j, r) \in Row
  BY <1>1, <1>4 DEF Reaped
<1>6. QED
  BY <1>1, <1>2, <1>3, <1>4, <1>5

\* A flush of rows yields a row.
LEMMA FlushType ==
  ASSUME NEW old \in Row, NEW new \in Row, NEW cur \in Row
  PROVE  Flush(old, new, cur) \in Row
BY DEF Flush, Column, Row

\* A flush that settles or gives back a copy that was claimed, or settles one
\* that was pending, leaves the row consistent whatever it had become.
LEMMA FlushConsistent ==
  ASSUME NEW old \in Row, NEW cur \in Row, Consistent(old), Consistent(cur)
  PROVE  /\ old.status \in Active =>
              Consistent(Flush(old, mark_succeeded(old), cur))
         /\ old.status = "claimed" =>
              /\ Consistent(Flush(old, mark_terminal_failed(old), cur))
              /\ Consistent(Flush(old, requeue_with_policy_backoff(old), cur))
<1> USE DEF Flush, Column, Consistent, Row
<1>1. ASSUME old.status \in Active
      PROVE  Consistent(Flush(old, mark_succeeded(old), cur))
  BY <1>1 DEF mark_succeeded, Active
<1>2. ASSUME old.status = "claimed"
      PROVE  Consistent(Flush(old, mark_terminal_failed(old), cur))
  BY <1>2 DEF mark_terminal_failed
<1>3. ASSUME old.status = "claimed"
      PROVE  Consistent(Flush(old, requeue_with_policy_backoff(old), cur))
  BY <1>3 DEF requeue_with_policy_backoff
<1>4. QED
  BY <1>1, <1>2, <1>3

-----------------------------------------------------------------------------
(***************************************************************************)
(* The three ways in which a step changes the state                        *)
(***************************************************************************)

\* A handler's transaction moves on and the table stays as it is.
LEMMA TxnStep ==
  ASSUME IInv, NEW h \in Handler, NEW t \in Txn, LoadedWell(t),
         txn' = [txn EXCEPT ![h] = t], UNCHANGED <<row, standing, paused>>
  PROVE  IInv'
<1>1. TypeOK'
  BY DEF IInv, TypeOK
<1>2. ClaimFieldsAgree'
  BY DEF IInv, ClaimFieldsAgree
<1>3. \A k \in Handler : LoadedWell(txn'[k])
  <2> TAKE k \in Handler
  <2>1. txn'[k] = IF k = h THEN t ELSE txn[k]
    BY DEF IInv, TypeOK
  <2>2. LoadedWell(txn[k])
    BY DEF IInv
  <2>3. QED
    BY <2>1, <2>2
<1>4. QED
  BY <1>1, <1>2, <1>3 DEF IInv, LoadedWell

LEMMA NoTxnWell == LoadedWell(NoTxn)
BY DEF LoadedWell, NoTxn

\* One row becomes another row whose fields agree.
LEMMA RowStep ==
  ASSUME IInv, NEW j \in Job, NEW r \in Row, Consistent(r),
         row' = [row EXCEPT ![j] = r], UNCHANGED <<txn, standing>>,
         paused' \subseteq Job
  PROVE  IInv'
<1>1. TypeOK'
  BY DEF IInv, TypeOK
<1>2. ClaimFieldsAgree'
  <2>1. \A k \in Job : row'[k] = IF k = j THEN r ELSE row[k]
    BY DEF IInv, TypeOK
  <2>2. \A k \in Job : Consistent(row'[k])
    BY <2>1 DEF IInv, ClaimFieldsAgree
  <2>3. QED
    BY <2>2 DEF ClaimFieldsAgree, Consistent
<1>3. \A k \in Handler : LoadedWell(txn'[k])
  BY DEF IInv
<1>4. QED
  BY <1>1, <1>2, <1>3 DEF IInv, LoadedWell

\* A flush of everything a handler loaded.
LEMMA CommitStep ==
  ASSUME IInv, NEW h \in Handler, NEW new, \A j \in txn[h].jobs : new[j] \in Row,
         \A j \in txn[h].jobs : Consistent(Flush(txn[h].loaded[j], new[j], row[j])),
         Commit(h, new), UNCHANGED <<standing, paused>>
  PROVE  IInv'
<1>1. /\ txn[h] \in Txn
      /\ txn[h].jobs \subseteq Job
      /\ \A j \in Job : row[j] \in Row /\ txn[h].loaded[j] \in Row
  BY DEF IInv, TypeOK, Txn
<1>2. \A j \in txn[h].jobs : Flush(txn[h].loaded[j], new[j], row[j]) \in Row
  BY <1>1, FlushType
<1>3. row' \in [Job -> Row]
  BY <1>1, <1>2 DEF Commit
<1>4. TypeOK'
  BY <1>3, NoTxnType DEF IInv, TypeOK, Commit
<1>5. \A j \in Job : Consistent(row'[j])
  BY <1>1 DEF Commit, IInv, ClaimFieldsAgree
<1>6. \A k \in Handler : LoadedWell(txn'[k])
  <2> TAKE k \in Handler
  <2>1. txn'[k] = IF k = h THEN NoTxn ELSE txn[k]
    BY DEF IInv, TypeOK, Commit
  <2>2. QED
    BY <2>1, NoTxnWell DEF IInv
<1>7. QED
  BY <1>4, <1>5, <1>6 DEF IInv, ClaimFieldsAgree, Consistent, LoadedWell

\* Loading consistent rows gives a well-formed transaction.
LEMMA LoadType ==
  ASSUME IInv, NEW S \in SUBSET Job, NEW w \in Worker \cup {None}, NEW kind \in Kind
  PROVE  /\ Load(kind, w, S) \in Txn
         /\ Load(kind, w, S).kind = kind
         /\ Load(kind, w, S).jobs = S
         /\ \A j \in S : /\ Load(kind, w, S).loaded[j] = row[j]
                         /\ Consistent(Load(kind, w, S).loaded[j])
BY NoRowType DEF IInv, TypeOK, ClaimFieldsAgree, Load, Txn

-----------------------------------------------------------------------------
(***************************************************************************)
(* One lemma per group of actions                                          *)
(***************************************************************************)

LEMMA InitInv == Init => IInv
<1> SUFFICES ASSUME Init PROVE IInv
  OBVIOUS
<1>1. TypeOK
  BY NoRowType, NoTxnType DEF Init, TypeOK, Standing
<1>2. ClaimFieldsAgree
  BY DEF Init, ClaimFieldsAgree, Consistent, NoRow
<1>3. \A h \in Handler : LoadedWell(txn[h])
  BY NoTxnWell DEF Init
<1>4. QED
  BY <1>1, <1>2, <1>3 DEF IInv

\* A step that changes neither the table nor a transaction.
LEMMA OutsideStep ==
  ASSUME IInv, UNCHANGED <<row, txn>>, standing' \in [Worker -> Standing],
         paused' \subseteq Job
  PROVE  IInv'
BY DEF IInv, TypeOK, ClaimFieldsAgree, Consistent, LoadedWell

\* Producers, purges, the clock and the claim itself rewrite one row.
LEMMA EnqueueStep == ASSUME IInv, NEW j \in Job, enqueue(j) PROVE IInv'
<1>1. PICK wait \in {"later", "due"} :
        row' = [row EXCEPT ![j] = [NoRow EXCEPT !.id = row[j].id + 1,
                                                !.status = "pending",
                                                !.wait = wait]]
  BY DEF enqueue
<1> DEFINE r == [NoRow EXCEPT !.id = row[j].id + 1, !.status = "pending",
                              !.wait = wait]
<1>2. r \in Row
  <2>1. row[j].id + 1 \in Nat
    BY DEF IInv, TypeOK, Row
  <2>2. QED
    BY <2>1 DEF Row, NoRow, Status, Lease, Wait
<1>3. Consistent(r)
  BY DEF Consistent, NoRow
<1>4. UNCHANGED <<txn, standing>> /\ paused' \subseteq Job
  BY DEF enqueue, IInv, TypeOK
<1> HIDE DEF r
<1>5. QED
  BY <1>1, <1>2, <1>3, <1>4, RowStep DEF r

LEMMA PurgeStep == ASSUME IInv, NEW j \in Job, purge(j) PROVE IInv'
<1> DEFINE r == [NoRow EXCEPT !.id = row[j].id]
<1>1. r \in Row
  BY DEF IInv, TypeOK, Row, NoRow, Status, Lease, Wait
<1>2. Consistent(r)
  BY DEF Consistent, NoRow
<1>3. /\ row' = [row EXCEPT ![j] = r]
      /\ UNCHANGED <<txn, standing>>
      /\ paused' \subseteq Job
  BY DEF purge, IInv, TypeOK
<1> HIDE DEF r
<1>4. QED
  BY <1>1, <1>2, <1>3, RowStep

LEMMA DrainStep == ASSUME IInv, NEW j \in Job, pause_and_drain(j) PROVE IInv'
<1>1. ~NotNull(Drained(row[j]))
  BY DEF NotNull, Drained, IInv, TypeOK, Row
<1>2. UNCHANGED <<row, txn, standing>> /\ paused' \subseteq Job
  BY <1>1 DEF pause_and_drain, IInv, TypeOK
<1>3. QED
  BY <1>2, OutsideStep DEF IInv, TypeOK

LEMMA ClockStep ==
  ASSUME IInv, NEW j \in Job, LeaseExpires(j) \/ WaitElapses(j) PROVE IInv'
<1>1. row[j] \in Row /\ Consistent(row[j]) /\ paused \subseteq Job
  BY DEF IInv, TypeOK, ClaimFieldsAgree
<1>2. CASE LeaseExpires(j)
  <2> DEFINE r == [row[j] EXCEPT !.lease = "expired"]
  <2>1. r \in Row
    BY <1>1 DEF Row, Lease
  <2>2. Consistent(r)
    BY <1>1, <1>2 DEF Consistent, LeaseExpires, Row
  <2>3. row' = [row EXCEPT ![j] = r] /\ UNCHANGED <<txn, standing, paused>>
    BY <1>2 DEF LeaseExpires
  <2> HIDE DEF r
  <2>4. QED
    BY <1>1, <2>1, <2>2, <2>3, RowStep
<1>3. CASE WaitElapses(j)
  <2>1. PICK w \in {"due", "stale"} : row' = [row EXCEPT ![j].wait = w]
    BY <1>3 DEF WaitElapses
  <2> DEFINE r == [row[j] EXCEPT !.wait = w]
  <2>2. r \in Row
    BY <1>1 DEF Row, Wait
  <2>3. Consistent(r)
    BY <1>1 DEF Consistent, Row
  <2>4. row' = [row EXCEPT ![j] = r] /\ UNCHANGED <<txn, standing, paused>>
    BY <1>3, <2>1 DEF WaitElapses
  <2> HIDE DEF r
  <2>5. QED
    BY <1>1, <2>2, <2>3, <2>4, RowStep
<1>4. QED
  BY <1>2, <1>3

LEMMA ClaimStep ==
  ASSUME IInv, NEW h \in Handler, NEW j \in Job, claim_next(h, j)
  PROVE  IInv'
<1> DEFINE r == [row[j] EXCEPT !.status = "claimed", !.pinned = None,
                               !.by = txn[h].who, !.lease = "running",
                               !.attempts = row[j].attempts + 1]
<1>1. row[j] \in Row /\ row[j].wait \in {"due", "stale"}
  <2>1. row[j] \in Row
    BY DEF IInv, TypeOK
  <2>2. j \in Eligible(h)
    BY DEF claim_next
  <2>3. QED
    BY <2>1, <2>2 DEF Eligible
<1>2. txn[h].who \in Worker
  BY DEF IInv, LoadedWell, claim_next
<1>3. r \in Row
  <2>1. row[j].attempts + 1 \in Nat
    BY <1>1 DEF Row
  <2>2. QED
    BY <1>1, <1>2, <2>1 DEF Row, Status, Lease
<1>4. Consistent(r)
  BY <1>1, <1>2, NoneAssumption DEF Consistent, Row
<1>5. row' = [row EXCEPT ![j] = r] /\ UNCHANGED <<standing, paused>>
  BY DEF claim_next
<1>6. txn' = [txn EXCEPT ![h] = NoTxn]
  BY DEF claim_next
<1> HIDE DEF r
<1>7. TypeOK'
  BY <1>3, <1>5, <1>6, NoTxnType DEF IInv, TypeOK
<1>8. \A k \in Job : Consistent(row'[k])
  <2>1. \A k \in Job : row'[k] = IF k = j THEN r ELSE row[k]
    BY <1>5 DEF IInv, TypeOK
  <2>2. QED
    BY <1>4, <2>1 DEF IInv, ClaimFieldsAgree
<1>9. \A k \in Handler : LoadedWell(txn'[k])
  <2> TAKE k \in Handler
  <2>1. txn'[k] = IF k = h THEN NoTxn ELSE txn[k]
    BY <1>6 DEF IInv, TypeOK
  <2>2. QED
    BY <2>1, NoTxnWell DEF IInv
<1>10. QED
  BY <1>7, <1>8, <1>9 DEF IInv, ClaimFieldsAgree, Consistent, LoadedWell

\* Handlers that load: the claim's first half, reports, routing, the reaper.
LEMMA BeginStep ==
  ASSUME IInv, NEW h \in Handler, NEW S \in SUBSET Job,
         NEW w \in Worker \cup {None}, NEW kind \in Kind \ {"claim"},
         txn' = [txn EXCEPT ![h] = Load(kind, w, S)],
         UNCHANGED <<row, standing, paused>>,
         kind \in {"result", "fail"} => \A j \in S : row[j].status = "claimed",
         kind \in {"route", "release"} =>
           /\ kind \in AdminOps
           /\ \A j \in S : row[j].status \notin Terminal \cup {"absent"},
         kind \in {"reap_expired", "reap_pending"} =>
           \A j \in S : row[j].status \in Active
  PROVE  IInv'
<1>1. /\ Load(kind, w, S) \in Txn
      /\ Load(kind, w, S).kind = kind
      /\ Load(kind, w, S).jobs = S
      /\ \A j \in S : /\ Load(kind, w, S).loaded[j] = row[j]
                      /\ Consistent(Load(kind, w, S).loaded[j])
  BY LoadType
<1>2. LoadedWell(Load(kind, w, S))
  BY <1>1 DEF LoadedWell
<1>3. QED
  BY <1>1, <1>2, TxnStep

LEMMA EndStep ==
  ASSUME IInv, NEW h \in Handler, Abort(h) \/ ClaimEmpty(h) PROVE IInv'
<1>1. txn' = [txn EXCEPT ![h] = NoTxn] /\ UNCHANGED <<row, standing, paused>>
  BY DEF Abort, ClaimEmpty
<1>2. QED
  BY <1>1, TxnStep, NoTxnType, NoTxnWell

LEMMA BeginClaimStep ==
  ASSUME IInv, NEW h \in Handler, NEW w \in Worker, BeginClaim(h, w) PROVE IInv'
<1>0. PICK seen \in {paused, {}} :
        txn' = [txn EXCEPT ![h] = [NoTxn EXCEPT !.kind = "claim", !.who = w,
                                                 !.jobs = Job \ seen]]
  BY DEF BeginClaim
<1> DEFINE t == [NoTxn EXCEPT !.kind = "claim", !.who = w, !.jobs = Job \ seen]
<1>1. t \in Txn
  BY NoTxnType DEF Txn, Kind
<1>2. LoadedWell(t)
  BY DEF LoadedWell, NoTxn
<1>3. txn' = [txn EXCEPT ![h] = t] /\ UNCHANGED <<row, standing, paused>>
  BY <1>0 DEF BeginClaim
<1> HIDE DEF t
<1>4. QED
  BY <1>1, <1>2, <1>3, TxnStep

\* The limit of a select only takes rows away.
LEMMA OldestSubset ==
  ASSUME NEW S, NEW T \in Oldest(S) PROVE T \subseteq S
BY DEF Oldest

LEMMA WindowSubset ==
  ASSUME NEW p \in Handler, NEW window \in Windows(p)
  PROVE  window \subseteq OverdueRows(p)
<1>1. PICK S \in SUBSET OverdueRows(p) : window \in Oldest(S)
  BY DEF Windows
<1>2. QED
  BY <1>1, OldestSubset

\* The reaper's second select adds rows to what it holds.
LEMMA ReapPendingStep ==
  ASSUME IInv, NEW p \in Handler, ReapPending(p) PROVE IInv'
<1>0. PICK window \in Windows(p) :
        txn' = [txn EXCEPT ![p] =
          [kind   |-> "reap_pending",
           who    |-> None,
           jobs   |-> txn[p].jobs \cup StalePending(window),
           loaded |-> [j \in Job |-> IF j \in StalePending(window) THEN row[j]
                                                                 ELSE txn[p].loaded[j]]]]
  BY DEF ReapPending
<1> DEFINE new == StalePending(window)
           loaded == [j \in Job |-> IF j \in new THEN row[j] ELSE txn[p].loaded[j]]
           t == [kind |-> "reap_pending", who |-> None,
                 jobs |-> txn[p].jobs \cup new, loaded |-> loaded]
<1>1. /\ txn[p] \in Txn
      /\ txn[p].kind = "reap_expired"
      /\ LoadedWell(txn[p])
      /\ row \in [Job -> Row]
      /\ \A j \in Job : Consistent(row[j])
  BY DEF IInv, TypeOK, ClaimFieldsAgree, ReapPending
<1>2. new \subseteq Job /\ \A j \in new : row[j].status = "pending"
  BY WindowSubset, JobAssumption DEF StalePending, OverdueRows
<1>3. txn[p].jobs \subseteq Job /\ txn[p].loaded \in [Job -> Row]
  BY <1>1 DEF Txn
<1>4. loaded \in [Job -> Row]
  BY <1>1, <1>3
<1>5. \A j \in txn[p].jobs \cup new :
        loaded[j].status \in Active /\ Consistent(loaded[j])
  BY <1>1, <1>2, <1>3 DEF LoadedWell, Active
<1>6. txn' = [txn EXCEPT ![p] = t] /\ UNCHANGED <<row, standing, paused>>
  BY <1>0 DEF ReapPending
<1> HIDE DEF loaded, new
<1>7. t \in Txn
  BY <1>2, <1>3, <1>4 DEF Txn, Kind
<1>8. LoadedWell(t)
  BY <1>5 DEF LoadedWell
<1> HIDE DEF t
<1>9. QED
  BY <1>6, <1>7, <1>8, TxnStep

-----------------------------------------------------------------------------
(***************************************************************************)
(* The flushes                                                             *)
(***************************************************************************)

\* Facts every flush starts from.
LEMMA AtCommit ==
  ASSUME IInv, NEW h \in Handler
  PROVE  /\ txn[h].jobs \subseteq Job
         /\ LoadedWell(txn[h])
         /\ \A j \in Job : /\ row[j] \in Row
                           /\ Consistent(row[j])
                           /\ txn[h].loaded[j] \in Row
BY DEF IInv, TypeOK, ClaimFieldsAgree, Txn

LEMMA FailureConsistent ==
  ASSUME NEW j \in Job, NEW old \in Row, NEW cur \in Row, NEW dead \in BOOLEAN,
         Consistent(old), Consistent(cur), old.status = "claimed"
  PROVE  Consistent(Flush(old, handle_worker_failure(j, old, dead), cur))
<1>1. \/ handle_worker_failure(j, old, dead) = mark_succeeded(old)
      \/ handle_worker_failure(j, old, dead) = mark_terminal_failed(old)
      \/ handle_worker_failure(j, old, dead) = requeue_with_policy_backoff(old)
  BY DEF handle_worker_failure
<1>2. QED
  BY <1>1, FlushConsistent DEF Active

LEMMA ResultStep ==
  ASSUME IInv, NEW h \in Handler, CommitResult(h) PROVE IInv'
<1> DEFINE new == [j \in Job |-> mark_succeeded(txn[h].loaded[j])]
<1>1. \A j \in txn[h].jobs : txn[h].loaded[j].status = "claimed"
                               /\ Consistent(txn[h].loaded[j])
  BY AtCommit DEF CommitResult, LoadedWell
<1>2. \A j \in txn[h].jobs : new[j] \in Row
  BY AtCommit, ServiceTypes
<1>3. \A j \in txn[h].jobs : Consistent(Flush(txn[h].loaded[j], new[j], row[j]))
  BY <1>1, AtCommit, FlushConsistent DEF Active
<1>4. Commit(h, new) /\ UNCHANGED <<standing, paused>>
  BY DEF CommitResult
<1> HIDE DEF new
<1>5. QED
  BY <1>2, <1>3, <1>4, CommitStep

LEMMA FailStep ==
  ASSUME IInv, NEW h \in Handler, NEW dead \in BOOLEAN, CommitFail(h, dead)
  PROVE  IInv'
<1> DEFINE new == [j \in Job |-> handle_worker_failure(j, txn[h].loaded[j], dead)]
<1>1. \A j \in txn[h].jobs : txn[h].loaded[j].status = "claimed"
                               /\ Consistent(txn[h].loaded[j])
  BY AtCommit DEF CommitFail, LoadedWell
<1>2. \A j \in txn[h].jobs : new[j] \in Row
  BY AtCommit, ServiceTypes
<1>3. \A j \in txn[h].jobs : Consistent(Flush(txn[h].loaded[j], new[j], row[j]))
  BY <1>1, AtCommit, FailureConsistent
<1>4. Commit(h, new) /\ UNCHANGED <<standing, paused>>
  BY DEF CommitFail
<1> HIDE DEF new
<1>5. QED
  BY <1>2, <1>3, <1>4, CommitStep

LEMMA ReapCommitStep ==
  ASSUME IInv, NEW p \in Handler, ReapCommit(p) PROVE IInv'
<1> DEFINE new == [j \in Job |-> Reaped(j, txn[p].loaded[j])]
<1>1. \A j \in txn[p].jobs : txn[p].loaded[j].status \in Active
                               /\ Consistent(txn[p].loaded[j])
  BY AtCommit DEF ReapCommit, LoadedWell
<1>2. \A j \in txn[p].jobs : new[j] \in Row
  BY AtCommit, ServiceTypes
<1>3. ASSUME NEW j \in txn[p].jobs
      PROVE  Consistent(Flush(txn[p].loaded[j], new[j], row[j]))
  <2>1. /\ j \in Job
        /\ txn[p].loaded[j] \in Row /\ row[j] \in Row
        /\ Consistent(txn[p].loaded[j]) /\ Consistent(row[j])
    BY <1>1, AtCommit
  <2>2. CASE txn[p].loaded[j].status = "claimed"
    <3>1. new[j] = handle_worker_failure(j, txn[p].loaded[j], FALSE)
      BY <2>1, <2>2 DEF Reaped
    <3>2. QED
      BY <2>1, <2>2, <3>1, FailureConsistent
  <2>3. CASE txn[p].loaded[j].status # "claimed"
    <3>1. new[j] = mark_succeeded(txn[p].loaded[j])
      BY <2>1, <2>3 DEF Reaped
    <3>2. QED
      BY <1>1, <2>1, <3>1, FlushConsistent
  <2>4. QED
    BY <2>2, <2>3
<1>4. Commit(p, new) /\ UNCHANGED <<standing, paused>>
  BY DEF ReapCommit
<1> HIDE DEF new
<1>5. QED
  BY <1>2, <1>3, <1>4, CommitStep

\* An administrator's flush pins a row, or gives a claimed row back.
LEMMA RoutingStep ==
  ASSUME IInv, NEW h \in Handler, CommitRouting(h) PROVE IInv'
<1> DEFINE pin == txn[h].who
           rel == txn[h].kind = "release"
           new == [j \in Job |-> Routed(txn[h].loaded[j], pin, rel)]
<1>1. pin \in Worker \cup {None}
  BY DEF IInv, TypeOK, Txn
<1>2. \A j \in txn[h].jobs : Consistent(txn[h].loaded[j])
  BY AtCommit DEF CommitRouting, LoadedWell
<1>3. ASSUME NEW j \in txn[h].jobs
      PROVE  /\ new[j] \in Row
             /\ Consistent(Flush(txn[h].loaded[j], new[j], row[j]))
  <2>1. /\ j \in Job
        /\ txn[h].loaded[j] \in Row /\ row[j] \in Row
        /\ Consistent(txn[h].loaded[j]) /\ Consistent(row[j])
    BY <1>2, AtCommit
  <2>2. new[j] = Routed(txn[h].loaded[j], pin, rel)
    BY <2>1
  <2> HIDE DEF pin, rel, new
  <2>3. Routed(txn[h].loaded[j], pin, rel) \in Row
    BY <1>1, <2>1 DEF Routed, Row, Status, Lease
  <2>4. Consistent(Flush(txn[h].loaded[j], Routed(txn[h].loaded[j], pin, rel), row[j]))
    BY <2>1 DEF Routed, Flush, Column, Consistent, Row
  <2>5. QED
    BY <2>2, <2>3, <2>4
<1>4. Commit(h, new) /\ UNCHANGED <<standing, paused>>
  BY DEF CommitRouting
<1> HIDE DEF new
<1>5. QED
  BY <1>3, <1>4, CommitStep

-----------------------------------------------------------------------------
(***************************************************************************)
(* The invariant                                                           *)
(***************************************************************************)

LEMMA WorkerStep ==
  ASSUME IInv, NEW h \in Request, WorkerRequest(h) PROVE IInv'
<1> h \in Handler
  BY DEF Handler
<1>1. CASE \E w \in Worker : BeginClaim(h, w)
  BY <1>1, BeginClaimStep
<1>2. CASE \E j \in Job : claim_next(h, j)
  BY <1>2, ClaimStep
<1>3. CASE ClaimEmpty(h)
  BY <1>3, EndStep
<1>4. ASSUME NEW w \in Worker, NEW j \in Job, NEW kind \in {"result", "fail"},
             BeginReport(h, w, j, kind)
      PROVE  IInv'
  <2>1. /\ row[j].status = "claimed"
        /\ txn' = [txn EXCEPT ![h] = Load(kind, w, {j})]
        /\ UNCHANGED <<row, standing, paused>>
    BY <1>4 DEF BeginReport, Reportable
  <2>2. kind \in Kind \ {"claim"} /\ kind \notin {"route", "release"}
          /\ kind \notin {"reap_expired", "reap_pending"}
    BY DEF Kind
  <2>3. QED
    BY <2>1, <2>2, BeginStep
<1>5. CASE CommitResult(h)
  BY <1>5, ResultStep
<1>6. CASE \E deadTrack \in BOOLEAN : CommitFail(h, deadTrack)
  BY <1>6, FailStep
<1>7. QED
  BY <1>1, <1>2, <1>3, <1>4, <1>5, <1>6 DEF WorkerRequest

LEMMA RouteStep ==
  ASSUME IInv, NEW h \in Request, RoutingRequest(h) PROVE IInv'
<1> h \in Handler
  BY DEF Handler
<1>1. ASSUME NEW j \in Job, NEW pin \in Worker \cup {None},
             NEW kind \in {"route", "release"}, BeginRouting(h, j, pin, kind)
      PROVE  IInv'
  <2>1. /\ kind \in AdminOps
        /\ row[j].status \notin Terminal \cup {"absent"}
        /\ txn' = [txn EXCEPT ![h] = Load(kind, pin, {j})]
        /\ UNCHANGED <<row, standing, paused>>
    BY <1>1 DEF BeginRouting
  <2>2. kind \in Kind \ {"claim"} /\ kind \notin {"result", "fail"}
          /\ kind \notin {"reap_expired", "reap_pending"}
    BY DEF Kind
  <2>3. QED
    BY <2>1, <2>2, BeginStep
<1>2. CASE CommitRouting(h)
  BY <1>2, RoutingStep
<1>3. QED
  BY <1>1, <1>2 DEF RoutingRequest

LEMMA ReaperStep ==
  ASSUME IInv, NEW p \in Reaper, ReaperPass(p) PROVE IInv'
<1> p \in Handler
  BY DEF Handler
<1>1. CASE ReapSelect(p)
  <2>0. PICK S \in Oldest(ExpiredClaims) :
          txn' = [txn EXCEPT ![p] = Load("reap_expired", None, S)]
    BY <1>1 DEF ReapSelect
  <2>1. \A j \in S : row[j].status \in Active
    BY OldestSubset DEF ExpiredClaims, Active
  <2>2. /\ txn' = [txn EXCEPT ![p] = Load("reap_expired", None, S)]
        /\ UNCHANGED <<row, standing, paused>>
        /\ S \in SUBSET Job
    BY <1>1, <2>0, OldestSubset DEF ReapSelect, ExpiredClaims
  <2>3. "reap_expired" \in Kind \ {"claim"}
    BY DEF Kind
  <2>4. QED
    BY <2>1, <2>2, <2>3, BeginStep
<1>2. CASE ReapPending(p)
  BY <1>2, ReapPendingStep
<1>3. CASE ReapCommit(p)
  BY <1>3, ReapCommitStep
<1>4. QED
  BY <1>1, <1>2, <1>3 DEF ReaperPass

LEMMA AdminStep == ASSUME IInv, Administration PROVE IInv'
<1>1. ASSUME NEW j \in Job, purge(j) PROVE IInv'
  BY <1>1, PurgeStep
<1>2. ASSUME NEW j \in Job, pause_and_drain(j) PROVE IInv'
  BY <1>2, DrainStep
<1>3. ASSUME NEW j \in Job, pause_task(j) \/ resume_task(j) PROVE IInv'
  BY <1>3, OutsideStep DEF pause_task, resume_task, IInv, TypeOK
<1>4. ASSUME NEW w \in Worker, \/ revoke_worker(w)
                               \/ pause_worker_claims(w)
                               \/ resume_worker_claims(w)
      PROVE  IInv'
  BY <1>4, OutsideStep
  DEF revoke_worker, pause_worker_claims, resume_worker_claims, IInv, TypeOK, Standing
<1>5. QED
  BY <1>1, <1>2, <1>3, <1>4 DEF Administration

LEMMA NextInv == IInv /\ [Next]_vars => IInv'
<1> SUFFICES ASSUME IInv, [Next]_vars PROVE IInv'
  OBVIOUS
<1>1. CASE \E j \in Job : enqueue(j)
  BY <1>1, EnqueueStep
<1>2. CASE \E h \in Request : WorkerRequest(h) \/ RoutingRequest(h)
  BY <1>2, WorkerStep, RouteStep
<1>3. CASE \E p \in Reaper : ReaperPass(p)
  BY <1>3, ReaperStep
<1>4. CASE \E h \in Handler : Abort(h)
  BY <1>4, EndStep
<1>5. CASE Administration
  BY <1>5, AdminStep
<1>6. CASE Clock
  BY <1>6, ClockStep DEF Clock
<1>7. CASE UNCHANGED vars
  BY <1>7 DEF vars, IInv, TypeOK, ClaimFieldsAgree, Consistent, LoadedWell
<1>8. QED
  BY <1>1, <1>2, <1>3, <1>4, <1>5, <1>6, <1>7 DEF Next

THEOREM Invariance == Spec => []IInv
BY InitInv, NextInv, PTL DEF Spec

\* The table and the open transactions keep their types: in particular no
\* handler and no clock ever puts a NULL into next_attempt_at.
THEOREM TypeCorrect == Spec => []TypeOK
<1>1. IInv => TypeOK
  BY DEF IInv
<1>2. QED
  BY Invariance, <1>1, PTL

\* status, claimed_by and claim_deadline_at of a row never drift apart, however
\* many workers, reapers and administrators flush stale copies over it.
THEOREM ClaimFieldsStayTogether == Spec => []ClaimFieldsAgree
<1>1. IInv => ClaimFieldsAgree
  BY DEF IInv
<1>2. QED
  BY Invariance, <1>1, PTL

-----------------------------------------------------------------------------
(***************************************************************************)
(* Ownership                                                               *)
(***************************************************************************)

\* What OneOwnerPerAttempt says of one job and one step.
Owned(j) ==
  row'[j].id = row[j].id /\ row'[j].status # "absent" =>
    IF BecomesOwned(j)
      THEN /\ row[j].status = "pending"
           /\ row'[j].attempts = row[j].attempts + 1
      ELSE row'[j].attempts = row[j].attempts

\* A flush keeps the attempts of a row, and leaves it claimed only by keeping
\* its status and its owner.
KeepsOwner(old, new, cur) ==
  LET r == Flush(old, new, cur)
  IN  /\ r.attempts = cur.attempts
      /\ r.status = "claimed" => r.status = cur.status /\ r.by = cur.by

LEMMA FlushKeepsOwner ==
  ASSUME NEW j \in Job, NEW old \in Row, NEW cur \in Row, NEW dead \in BOOLEAN,
         NEW pin \in Worker \cup {None}, NEW rel \in BOOLEAN
  PROVE  /\ KeepsOwner(old, mark_succeeded(old), cur)
         /\ KeepsOwner(old, Routed(old, pin, rel), cur)
         /\ old.status = "claimed" =>
              KeepsOwner(old, handle_worker_failure(j, old, dead), cur)
         /\ KeepsOwner(old, Reaped(j, old), cur)
<1> USE DEF KeepsOwner, Flush, Column, Row
<1>1. KeepsOwner(old, mark_succeeded(old), cur)
  BY DEF mark_succeeded
<1>2. KeepsOwner(old, Routed(old, pin, rel), cur)
  BY DEF Routed
<1>3. ASSUME old.status = "claimed", NEW d \in BOOLEAN
      PROVE  KeepsOwner(old, handle_worker_failure(j, old, d), cur)
  <2>1. KeepsOwner(old, mark_terminal_failed(old), cur)
    BY <1>3 DEF mark_terminal_failed
  <2>2. KeepsOwner(old, requeue_with_policy_backoff(old), cur)
    BY <1>3 DEF requeue_with_policy_backoff
  <2>3. \/ handle_worker_failure(j, old, d) = mark_succeeded(old)
        \/ handle_worker_failure(j, old, d) = mark_terminal_failed(old)
        \/ handle_worker_failure(j, old, d) = requeue_with_policy_backoff(old)
    BY DEF handle_worker_failure
  <2> HIDE DEF KeepsOwner, Flush, Column, Row
  <2>4. QED
    BY <1>1, <2>1, <2>2, <2>3
<1> HIDE DEF KeepsOwner, Flush, Column, Row
<1>4. KeepsOwner(old, Reaped(j, old), cur)
  BY <1>1, <1>3 DEF Reaped
<1>5. QED
  BY <1>1, <1>2, <1>3, <1>4

LEMMA CommitOwns ==
  ASSUME IInv, NEW h \in Handler, NEW new, Commit(h, new), NEW j \in Job,
         j \in txn[h].jobs => KeepsOwner(txn[h].loaded[j], new[j], row[j])
  PROVE  Owned(j)
<1>1. row'[j] = IF j \in txn[h].jobs
                  THEN Flush(txn[h].loaded[j], new[j], row[j]) ELSE row[j]
  BY DEF Commit
<1>2. /\ row'[j].attempts = row[j].attempts
      /\ row'[j].status = "claimed" =>
           row'[j].status = row[j].status /\ row'[j].by = row[j].by
  BY <1>1 DEF KeepsOwner
<1>3. QED
  BY <1>2 DEF Owned, BecomesOwned

\* A row that stays, or changes neither its status nor its owner.
LEMMA SameOwns ==
  ASSUME NEW j \in Job, row'[j].attempts = row[j].attempts,
         row'[j].status = row[j].status, row'[j].by = row[j].by
  PROVE  Owned(j)
BY DEF Owned, BecomesOwned

CommitsAny(h) == \/ CommitResult(h)
                 \/ \E dead \in BOOLEAN : CommitFail(h, dead)
                 \/ CommitRouting(h)
                 \/ ReapCommit(h)

\* The steps that may change the table.
LEMMA RowSteps ==
  ASSUME [Next]_vars
  PROVE  \/ UNCHANGED row
         \/ \E k \in Job : \/ enqueue(k) \/ purge(k) \/ pause_and_drain(k)
                           \/ LeaseExpires(k) \/ WaitElapses(k)
         \/ \E h \in Handler : (\E k \in Job : claim_next(h, k)) \/ CommitsAny(h)
BY DEF Next, vars, Handler, WorkerRequest, RoutingRequest, ReaperPass,
       Administration, Clock, BeginClaim, ClaimEmpty, BeginReport,
       BeginRouting, ReapSelect, ReapPending, Abort, pause_task, resume_task,
       revoke_worker, pause_worker_claims, resume_worker_claims, CommitsAny

LEMMA NextOwns ==
  ASSUME IInv, [Next]_vars, NEW j \in Job
  PROVE  Owned(j)
<1>0. row \in [Job -> Row] /\ row[j] \in Row
  BY DEF IInv, TypeOK
<1>1. CASE UNCHANGED row
  BY <1>1, SameOwns
<1>2. ASSUME NEW k \in Job, enqueue(k) PROVE Owned(j)
  <2>1. PICK wait \in {"later", "due"} :
          row' = [row EXCEPT ![k] = [NoRow EXCEPT !.id = row[k].id + 1,
                                                  !.status = "pending",
                                                  !.wait = wait]]
    BY <1>2 DEF enqueue
  <2>2. CASE j = k
    <3>1. row'[j].id = row[j].id + 1
      BY <1>0, <2>1, <2>2 DEF NoRow
    <3>2. row[j].id \in Nat
      BY <1>0 DEF Row
    <3>3. QED
      BY <3>1, <3>2 DEF Owned
  <2>3. CASE j # k
    BY <1>0, <2>1, <2>3, SameOwns
  <2>4. QED
    BY <2>2, <2>3
<1>3. ASSUME NEW h \in Handler, NEW k \in Job, claim_next(h, k) PROVE Owned(j)
  <2>1. /\ row[k].status = "pending"
        /\ row'[j] = IF j = k
             THEN [row[k] EXCEPT !.status = "claimed", !.pinned = None,
                                 !.by = txn[h].who, !.lease = "running",
                                 !.attempts = row[k].attempts + 1]
             ELSE row[j]
    BY <1>0, <1>3 DEF claim_next, Eligible
  <2>2. CASE j = k
    BY <1>0, <2>1, <2>2 DEF Owned, BecomesOwned, Row
  <2>3. CASE j # k
    BY <2>1, <2>3, SameOwns
  <2>4. QED
    BY <2>2, <2>3
<1>4. ASSUME NEW h \in Handler, CommitsAny(h) PROVE Owned(j)
  <2>1. txn[h].loaded[j] \in Row /\ txn[h].who \in Worker \cup {None}
    BY AtCommit DEF IInv, TypeOK, Txn
  <2>2. CASE CommitResult(h)
    <3> DEFINE new == [k \in Job |-> mark_succeeded(txn[h].loaded[k])]
    <3>1. KeepsOwner(txn[h].loaded[j], new[j], row[j])
      BY <1>0, <2>1, FlushKeepsOwner
    <3>2. Commit(h, new)
      BY <2>2 DEF CommitResult
    <3> HIDE DEF new
    <3>3. QED
      BY <3>1, <3>2, CommitOwns
  <2>3. ASSUME NEW dead \in BOOLEAN, CommitFail(h, dead) PROVE Owned(j)
    <3> DEFINE new == [k \in Job |->
                         handle_worker_failure(k, txn[h].loaded[k], dead)]
    <3>1. j \in txn[h].jobs => KeepsOwner(txn[h].loaded[j], new[j], row[j])
      <4> SUFFICES ASSUME j \in txn[h].jobs
                   PROVE  KeepsOwner(txn[h].loaded[j], new[j], row[j])
        OBVIOUS
      <4>1. txn[h].loaded[j].status = "claimed"
        BY <2>3, AtCommit DEF CommitFail, LoadedWell
      <4>2. QED
        BY <1>0, <2>1, <4>1, FlushKeepsOwner
    <3>2. Commit(h, new)
      BY <2>3 DEF CommitFail
    <3> HIDE DEF new
    <3>3. QED
      BY <3>1, <3>2, CommitOwns
  <2>4. CASE CommitRouting(h)
    <3> DEFINE new == [k \in Job |-> Routed(txn[h].loaded[k], txn[h].who,
                                             txn[h].kind = "release")]
    <3>1. KeepsOwner(txn[h].loaded[j], new[j], row[j])
      BY <1>0, <2>1, FlushKeepsOwner
    <3>2. Commit(h, new)
      BY <2>4 DEF CommitRouting
    <3> HIDE DEF new
    <3>3. QED
      BY <3>1, <3>2, CommitOwns
  <2>5. CASE ReapCommit(h)
    <3> DEFINE new == [k \in Job |-> Reaped(k, txn[h].loaded[k])]
    <3>1. KeepsOwner(txn[h].loaded[j], new[j], row[j])
      BY <1>0, <2>1, FlushKeepsOwner
    <3>2. Commit(h, new)
      BY <2>5 DEF ReapCommit
    <3> HIDE DEF new
    <3>3. QED
      BY <3>1, <3>2, CommitOwns
  <2>6. QED
    BY <1>4, <2>2, <2>3, <2>4, <2>5 DEF CommitsAny
<1>5. ASSUME NEW k \in Job, purge(k) PROVE Owned(j)
  <2>1. row'[j] = IF j = k THEN [NoRow EXCEPT !.id = row[k].id] ELSE row[j]
    BY <1>0, <1>5 DEF purge
  <2>2. CASE j = k
    BY <2>1, <2>2 DEF Owned, NoRow
  <2>3. CASE j # k
    BY <2>1, <2>3, SameOwns
  <2>4. QED
    BY <2>2, <2>3
<1>6. ASSUME NEW k \in Job, pause_and_drain(k) PROVE Owned(j)
  <2>1. ~NotNull(Drained(row[k]))
    BY <1>0 DEF NotNull, Drained, IInv, TypeOK, Row
  <2>2. QED
    BY <1>6, <2>1, <1>1 DEF pause_and_drain
<1>7. ASSUME NEW k \in Job, LeaseExpires(k) \/ WaitElapses(k) PROVE Owned(j)
  <2>1. CASE LeaseExpires(k)
    <3>1. row' = [row EXCEPT ![k].lease = "expired"]
      BY <2>1 DEF LeaseExpires
    <3>2. QED
      BY <1>0, <3>1, SameOwns DEF Row
  <2>2. CASE WaitElapses(k)
    <3>1. PICK w \in Wait : row' = [row EXCEPT ![k].wait = w]
      BY <2>2 DEF WaitElapses, Wait
    <3>2. QED
      BY <1>0, <3>1, SameOwns DEF Row
  <2>3. QED
    BY <1>7, <2>1, <2>2
<1>8. QED
  BY <1>1, <1>2, <1>3, <1>4, <1>5, <1>6, <1>7, RowSteps DEF CommitsAny

\* Only claim_next makes a worker the owner of a row, from pending and at the
\* price of one attempt; no flush of a stale copy takes an attempt back.
THEOREM OwnershipNeedsAClaim == Spec => OneOwnerPerAttempt
<1>1. IInv /\ [Next]_vars =>
        [\A j \in Job :
           row'[j].id = row[j].id /\ row'[j].status # "absent" =>
             IF BecomesOwned(j)
               THEN /\ row[j].status = "pending"
                    /\ row'[j].attempts = row[j].attempts + 1
               ELSE row'[j].attempts = row[j].attempts]_vars
  BY NextOwns DEF Owned
<1>2. QED
  BY Invariance, <1>1, PTL DEF Spec, OneOwnerPerAttempt

-----------------------------------------------------------------------------
(***************************************************************************)
(* Handlers that do not overlap: the abstract queue                        *)
(***************************************************************************)

Same(r, q) == q.status = r.status /\ q.by = r.by /\ q.attempts = r.attempts

Released == "release" \in AdminOps

\* How a row becomes another one, while nobody flushes over what he has not seen.
Transition(r, q) ==
  \/ /\ r.status = "absent" /\ q.status = "pending"
     /\ q.by = None /\ q.attempts = 0
  \/ /\ r.status = "pending" /\ q.status = "claimed"
     /\ q.by \in Worker /\ q.attempts = r.attempts + 1
  \/ /\ r.status \in Active /\ q.status = "succeeded"
     /\ q.by = r.by /\ q.attempts = r.attempts
  \/ /\ r.status = "claimed" /\ q.status = "failed"
     /\ q.by = None /\ q.attempts = r.attempts
  \/ /\ r.status = "claimed" /\ q.status = "pending"
     /\ q.by = None /\ q.attempts = r.attempts
     /\ Released \/ r.attempts < MaxAttempts
  \/ /\ r.status \in {"pending"} \cup Terminal /\ q.status = "absent"
     /\ q.by = None /\ q.attempts = 0
  \/ Same(r, q)

\* What the services make of a row they may handle.
LEMMA ServiceTransitions ==
  ASSUME NEW r \in Row, NEW j \in Job, NEW dead \in BOOLEAN,
         NEW pin \in Worker \cup {None}, NEW rel \in BOOLEAN
  PROVE  /\ r.status \in Active => Transition(r, mark_succeeded(r))
         /\ r.status = "claimed" => Transition(r, handle_worker_failure(j, r, dead))
         /\ r.status \in Active => Transition(r, Reaped(j, r))
         /\ (rel => Released) => Transition(r, Routed(r, pin, rel))
<1>1. ASSUME r.status \in Active PROVE Transition(r, mark_succeeded(r))
  BY <1>1 DEF Transition, mark_succeeded, Row
<1>2. ASSUME r.status = "claimed", NEW d \in BOOLEAN
      PROVE  Transition(r, handle_worker_failure(j, r, d))
  <2>1. Transition(r, mark_terminal_failed(r))
    BY <1>2 DEF Transition, mark_terminal_failed, Row
  <2>2. ASSUME ~Exhausted(r) PROVE Transition(r, requeue_with_policy_backoff(r))
    <3>1. r.attempts < MaxAttempts
      BY <2>2, AttemptsAssumption DEF Exhausted, Row
    <3>2. QED
      BY <1>2, <3>1 DEF Transition, requeue_with_policy_backoff, Row
  <2>3. \/ handle_worker_failure(j, r, d) = mark_succeeded(r)
        \/ handle_worker_failure(j, r, d) = mark_terminal_failed(r)
        \/ /\ ~Exhausted(r)
           /\ handle_worker_failure(j, r, d) = requeue_with_policy_backoff(r)
    BY DEF handle_worker_failure
  <2>4. QED
    BY <1>1, <1>2, <2>1, <2>2, <2>3 DEF Active
<1>3. r.status \in Active => Transition(r, Reaped(j, r))
  BY <1>1, <1>2 DEF Reaped
<1>4. (rel => Released) => Transition(r, Routed(r, pin, rel))
  BY DEF Transition, Routed, Row, Same
<1>5. QED
  BY <1>1, <1>2, <1>3, <1>4

\* A flush over the very status, owner and attempts that were loaded writes what
\* the handler meant.
LEMMA FreshFlush ==
  ASSUME NEW old \in Row, NEW new \in Row, NEW cur \in Row, Same(old, cur)
  PROVE  Same(new, Flush(old, new, cur))
BY DEF Same, Flush, Column, Row

LEMMA CommitMoves ==
  ASSUME IInv, SerialNext, NEW h \in Handler, NEW new, Commit(h, new),
         txn[h].kind \in Kind \ {"idle", "claim"}, NEW j \in Job,
         j \in txn[h].jobs => new[j] \in Row /\ Transition(txn[h].loaded[j], new[j])
  PROVE  Transition(row[j], row'[j])
<1>1. row[j] \in Row /\ txn[h].loaded[j] \in Row
  BY AtCommit
<1>2. CASE row' = row \/ j \notin txn[h].jobs
  <2>1. row'[j] = row[j]
    BY <1>2 DEF Commit
  <2>2. QED
    BY <2>1 DEF Transition, Same
<1>3. CASE row' # row /\ j \in txn[h].jobs
  <2>1. txn'[h].kind = "idle"
    BY DEF Commit, IInv, TypeOK, NoTxn
  <2>2. Fresh(h)
    BY <1>3, <2>1 DEF SerialNext, Flushes
  <2>3. Same(txn[h].loaded[j], row[j])
    BY <1>3, <2>2 DEF Fresh, Same
  <2>4. row'[j] = Flush(txn[h].loaded[j], new[j], row[j])
    BY <1>3 DEF Commit
  <2>5. Same(new[j], row'[j])
    BY <1>1, <1>3, <2>3, <2>4, FreshFlush
  <2>6. QED
    BY <1>3, <2>3, <2>5 DEF Transition, Same
<1>4. QED
  BY <1>2, <1>3

LEMMA SerialCommits ==
  ASSUME IInv, SerialNext, NEW h \in Handler, CommitsAny(h), NEW j \in Job
  PROVE  Transition(row[j], row'[j])
<1>1. /\ txn[h].loaded[j] \in Row /\ txn[h].who \in Worker \cup {None}
      /\ LoadedWell(txn[h])
  BY AtCommit DEF IInv, TypeOK, Txn
<1>2. CASE CommitResult(h)
  <2> DEFINE new == [k \in Job |-> mark_succeeded(txn[h].loaded[k])]
  <2>1. Commit(h, new) /\ txn[h].kind = "result"
    BY <1>2 DEF CommitResult
  <2>2. j \in txn[h].jobs => txn[h].loaded[j].status \in Active
    BY <1>1, <2>1 DEF LoadedWell, Active
  <2>3. j \in txn[h].jobs => new[j] \in Row /\ Transition(txn[h].loaded[j], new[j])
    BY <1>1, <2>2, ServiceTypes, ServiceTransitions
  <2> HIDE DEF new
  <2>4. QED
    BY <2>1, <2>3, CommitMoves DEF Kind
<1>3. ASSUME NEW dead \in BOOLEAN, CommitFail(h, dead)
      PROVE  Transition(row[j], row'[j])
  <2> DEFINE new == [k \in Job |-> handle_worker_failure(k, txn[h].loaded[k], dead)]
  <2>1. Commit(h, new) /\ txn[h].kind = "fail"
    BY <1>3 DEF CommitFail
  <2>2. j \in txn[h].jobs => txn[h].loaded[j].status = "claimed"
    BY <1>1, <2>1 DEF LoadedWell
  <2>3. j \in txn[h].jobs => new[j] \in Row /\ Transition(txn[h].loaded[j], new[j])
    BY <1>1, <2>2, ServiceTypes, ServiceTransitions
  <2> HIDE DEF new
  <2>4. QED
    BY <2>1, <2>3, CommitMoves DEF Kind
<1>4. CASE CommitRouting(h)
  <2> DEFINE rel == txn[h].kind = "release"
             new == [k \in Job |-> Routed(txn[h].loaded[k], txn[h].who, rel)]
  <2>1. Commit(h, new) /\ txn[h].kind \in {"route", "release"}
    BY <1>4 DEF CommitRouting
  <2>2. rel => Released
    BY <1>1 DEF LoadedWell, Released
  <2>3. Transition(txn[h].loaded[j], new[j])
    <3>1. new[j] = Routed(txn[h].loaded[j], txn[h].who, rel)
      OBVIOUS
    <3>2. rel \in BOOLEAN
      OBVIOUS
    <3> HIDE DEF new, rel
    <3>3. QED
      BY <1>1, <2>2, <3>1, <3>2, ServiceTransitions
  <2>4. new[j] \in Row
    <3>1. new[j] = Routed(txn[h].loaded[j], txn[h].who, rel)
      OBVIOUS
    <3> HIDE DEF new, rel
    <3>2. QED
      BY <1>1, <3>1 DEF Routed, Row, Status, Lease
  <2> HIDE DEF new
  <2>5. QED
    BY <2>1, <2>3, <2>4, CommitMoves DEF Kind
<1>5. CASE ReapCommit(h)
  <2> DEFINE new == [k \in Job |-> Reaped(k, txn[h].loaded[k])]
  <2>1. Commit(h, new) /\ txn[h].kind = "reap_pending"
    BY <1>5 DEF ReapCommit
  <2>2. j \in txn[h].jobs => txn[h].loaded[j].status \in Active
    BY <1>1, <2>1 DEF LoadedWell
  <2>3. j \in txn[h].jobs => new[j] \in Row /\ Transition(txn[h].loaded[j], new[j])
    BY <1>1, <2>2, ServiceTypes, ServiceTransitions
  <2> HIDE DEF new
  <2>4. QED
    BY <2>1, <2>3, CommitMoves DEF Kind
<1>6. QED
  BY <1>2, <1>3, <1>4, <1>5 DEF CommitsAny

LEMMA SerialTransitions ==
  ASSUME IInv, [SerialNext]_vars, NEW j \in Job
  PROVE  Transition(row[j], row'[j])
<1>0. row \in [Job -> Row] /\ row[j] \in Row
  BY DEF IInv, TypeOK
<1>1. CASE UNCHANGED row
  BY <1>1 DEF Transition, Same
<1>2. ASSUME NEW k \in Job, enqueue(k) PROVE Transition(row[j], row'[j])
  <2>1. PICK wait \in {"later", "due"} :
          row' = [row EXCEPT ![k] = [NoRow EXCEPT !.id = row[k].id + 1,
                                                  !.status = "pending",
                                                  !.wait = wait]]
    BY <1>2 DEF enqueue
  <2>2. row[k].status = "absent"
    BY <1>2 DEF enqueue
  <2>3. QED
    BY <1>0, <2>1, <2>2 DEF Transition, Same, NoRow
<1>3. ASSUME NEW h \in Handler, NEW k \in Job, claim_next(h, k)
      PROVE  Transition(row[j], row'[j])
  <2>1. /\ row[k].status = "pending"
        /\ row'[j] = IF j = k
             THEN [row[k] EXCEPT !.status = "claimed", !.pinned = None,
                                 !.by = txn[h].who, !.lease = "running",
                                 !.attempts = row[k].attempts + 1]
             ELSE row[j]
    BY <1>0, <1>3 DEF claim_next, Eligible
  <2>2. txn[h].who \in Worker
    BY <1>3 DEF IInv, LoadedWell, claim_next
  <2>3. QED
    BY <1>0, <2>1, <2>2 DEF Transition, Same, Row
<1>4. ASSUME NEW h \in Handler, CommitsAny(h) PROVE Transition(row[j], row'[j])
  <2>1. CASE SerialNext
    BY <1>4, <2>1, SerialCommits
  <2>2. CASE UNCHANGED vars
    BY <1>1, <2>2 DEF vars
  <2>3. QED
    BY <2>1, <2>2
<1>5. ASSUME NEW k \in Job, purge(k) PROVE Transition(row[j], row'[j])
  <2>1. /\ row[k].status \in {"pending"} \cup Terminal
        /\ row'[j] = IF j = k THEN [NoRow EXCEPT !.id = row[k].id] ELSE row[j]
    BY <1>0, <1>5 DEF purge, Terminal
  <2>2. QED
    BY <2>1 DEF Transition, Same, NoRow
<1>6. ASSUME NEW k \in Job, pause_and_drain(k) PROVE Transition(row[j], row'[j])
  <2>1. ~NotNull(Drained(row[k]))
    BY <1>0 DEF NotNull, Drained, IInv, TypeOK, Row
  <2>2. QED
    BY <1>6, <2>1, <1>1 DEF pause_and_drain
<1>7. ASSUME NEW k \in Job, LeaseExpires(k) \/ WaitElapses(k)
      PROVE  Transition(row[j], row'[j])
  <2>1. CASE LeaseExpires(k)
    <3>1. row' = [row EXCEPT ![k].lease = "expired"]
      BY <2>1 DEF LeaseExpires
    <3>2. QED
      BY <1>0, <3>1 DEF Row, Transition, Same
  <2>2. CASE WaitElapses(k)
    <3>1. PICK w \in Wait : row' = [row EXCEPT ![k].wait = w]
      BY <2>2 DEF WaitElapses, Wait
    <3>2. QED
      BY <1>0, <3>1 DEF Row, Transition, Same
  <2>3. QED
    BY <1>7, <2>1, <2>2
<1>8. [Next]_vars
  BY DEF SerialNext
<1>9. QED
  BY <1>1, <1>2, <1>3, <1>4, <1>5, <1>6, <1>7, <1>8, RowSteps

\* The drain never succeeds, and nothing else cancels.
Uncancelled == \A j \in Job : row[j].status # "cancelled"

\* A pending row has an attempt left.
Budget ==
  \A j \in Job : /\ row[j].attempts <= MaxAttempts
                 /\ row[j].status = "pending" => row[j].attempts < MaxAttempts

LEMMA SerialInit == Init => IInv /\ Uncancelled /\ Budget
BY InitInv, AttemptsAssumption DEF Init, Uncancelled, Budget, NoRow

LEMMA SerialStep ==
  ASSUME IInv, Uncancelled, [SerialNext]_vars
  PROVE  /\ IInv' /\ Uncancelled'
         /\ ~Released /\ Budget => Budget'
<1>1. IInv'
  BY NextInv DEF SerialNext
<1>2. Uncancelled'
  <2> SUFFICES ASSUME NEW j \in Job PROVE row'[j].status # "cancelled"
    BY DEF Uncancelled
  <2>1. Transition(row[j], row'[j]) /\ row[j].status # "cancelled"
    BY SerialTransitions DEF Uncancelled
  <2>2. QED
    BY <2>1 DEF Transition, Same
<1>3. ASSUME ~Released, Budget PROVE Budget'
  <2> SUFFICES ASSUME NEW j \in Job
               PROVE  /\ row'[j].attempts <= MaxAttempts
                      /\ row'[j].status = "pending" => row'[j].attempts < MaxAttempts
    BY DEF Budget
  <2>1. Transition(row[j], row'[j])
    BY SerialTransitions
  <2>2. /\ row[j].attempts \in Nat /\ row[j].attempts <= MaxAttempts
        /\ row[j].status = "pending" => row[j].attempts < MaxAttempts
    BY <1>3 DEF Budget, IInv, TypeOK, Row
  <2>3. MaxAttempts \in Nat \ {0}
    BY AttemptsAssumption
  <2>4. QED
    BY <1>3, <2>1, <2>2, <2>3 DEF Transition, Same
<1>4. QED
  BY <1>1, <1>2, <1>3

LEMMA SerialInvariance == SerialSpec => [](IInv /\ Uncancelled)
<1>1. Init => IInv /\ Uncancelled
  BY SerialInit
<1>2. IInv /\ Uncancelled /\ [SerialNext]_vars => (IInv /\ Uncancelled)'
  BY SerialStep
<1>3. QED
  BY <1>1, <1>2, PTL DEF SerialSpec

\* A transition is one of the actions of the abstract queue.
LEMMA TransitionMaps ==
  ASSUME NEW j \in Job, Transition(row[j], row'[j])
  PROVE  \/ Lifecycle!Submit(j) \/ Lifecycle!Lease(j) \/ Lifecycle!Succeed(j)
         \/ Lifecycle!GiveUp(j) \/ Lifecycle!Return(j) \/ Lifecycle!Remove(j)
         \/ Lifecycle!Stay(j)
BY DEF Transition, Same, Active, Terminal, Lifecycle!Submit, Lifecycle!Lease,
       Lifecycle!Succeed, Lifecycle!GiveUp, Lifecycle!Return, Lifecycle!Remove,
       Lifecycle!Stay, Lifecycle!Settled

LEMMA InitMaps == Init => Lifecycle!Init
BY DEF Init, NoRow, Lifecycle!Init

LEMMA StepMaps ==
  ASSUME IInv, Uncancelled, [SerialNext]_vars
  PROVE  Lifecycle!Next
<1>1. IInv' /\ Uncancelled'
  BY SerialStep
<1>2. [j \in Job |-> row'[j].status] \in [Job -> Lifecycle!State]
  <2>1. \A j \in Job : row'[j].status \in Lifecycle!State
    BY <1>1 DEF IInv, TypeOK, Row, Status, Uncancelled, Lifecycle!State
  <2>2. QED
    BY <2>1
<1>3. [j \in Job |-> row'[j].by] \in [Job -> Worker \cup {None}]
  BY <1>1 DEF IInv, TypeOK, Row
<1>4. QED
  BY <1>2, <1>3, SerialTransitions, TransitionMaps DEF Lifecycle!Next

\* As long as no handler flushes over a row that changed after it was loaded, the
\* queue keeps the promise of JobLifecycle: leased only while pending, settled at
\* most once, taken away by a purge only.
THEOREM QueueImplementsLifecycle == SerialSpec => ImplementsLifecycle
<1>1. IInv /\ Uncancelled /\ [SerialNext]_vars => Lifecycle!Next
  BY StepMaps
<1>2. QED
  BY InitMaps, SerialInvariance, <1>1, PTL
  DEF SerialSpec, ImplementsLifecycle, Lifecycle!Spec

\* And no row is handed out more than max_attempts times, unless an administrator
\* releases claims: reports and reapers together spend the budget once.
THEOREM AttemptsStayBounded ==
  ASSUME "release" \notin AdminOps
  PROVE  SerialSpec => []AttemptsBounded
<1>1. Init => IInv /\ Uncancelled /\ Budget
  BY SerialInit
<1>2. (IInv /\ Uncancelled /\ Budget) /\ [SerialNext]_vars
        => (IInv /\ Uncancelled /\ Budget)'
  BY SerialStep DEF Released
<1>3. Budget => AttemptsBounded
  BY DEF Budget, AttemptsBounded
<1>4. QED
  BY <1>1, <1>2, <1>3, PTL DEF SerialSpec

=============================================================================
