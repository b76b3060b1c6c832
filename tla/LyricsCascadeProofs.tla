------------------------ MODULE LyricsCascadeProofs ------------------------
(***************************************************************************)
(* Proofs about LyricsCascade. The steps are of a few kinds: a session     *)
(* comes to its commit, commits or ends, a task is received, a job is      *)
(* claimed, a lease expires. Each part of the invariant speaks of one job  *)
(* and has one lemma per kind.                                             *)
(***************************************************************************)
EXTENDS LyricsCascade, TLAPS

----------------------------------------------------------------------------
(* The invariant.                                                          *)

\* Where a row has a worker it has a deadline, and conversely.
Together(r) == r.worker = None <=> r.lease = "none"

\* A running job has a worker, a queued one has none.
Owned(r) == /\ r.status = "running" => r.worker # None
            /\ r.status = "queued" => r.worker = None

ForTask(r) == r.status = "queued" /\ r.tier \in TaskTier

\* A session moves the job to further tiers, ends it, or, for an administrator,
\* takes it from its worker.
Rewrites(loaded, new) ==
  /\ loaded.tried \subseteq new.tried
  /\ new.status \in Finished \cup {"queued"}
  /\ new.tried # loaded.tried =>
       /\ new.worker = None /\ new.lease = "none"
       /\ new.status = "queued" => new.tier \in new.tried \ loaded.tried
  /\ new.tried = loaded.tried =>
       /\ new.tier = loaded.tier
       /\ \/ new.worker = loaded.worker /\ new.lease = loaded.lease
          \/ loaded.status = "running" /\ new.worker = None /\ new.lease = "none"
       /\ new.status = "queued" =>
            \/ loaded.status = "queued" /\ new.worker = loaded.worker
            \/ loaded.status = "running" /\ new.worker = None

Writes(h, t) ==
  /\ Rewrites(t.loaded, t.new)
  /\ IF t.kind = "start" THEN t.loaded = NoRow ELSE t.loaded.status # "absent"
  /\ t.new.tried # t.loaded.tried => t.kind \notin {"cancel", "route"}
  /\ t.new.tried = t.loaded.tried /\ t.new.status = "queued" => h \notin Executor

Sessions ==
  \A h \in Handler :
    /\ At(h, "working") => /\ h \in Executor /\ tx[h].kind \in TaskTier
                           /\ tx[h].seen <=> tx[h].loaded.status # "absent"
                           /\ tx[h].new = tx[h].loaded
    /\ At(h, "ready") => Writes(h, tx[h])

Commits(h, j) == At(h, "ready") /\ tx[h].job = j

\* A row that is absent has at most the session that will insert it.
Present(j) ==
  /\ row[j].status = "absent" => row[j] = NoRow
  /\ \A h \in Handler :
       /\ At(h, "working") /\ tx[h].job = j /\ tx[h].seen => row[j].status # "absent"
       /\ Commits(h, j) /\ tx[h].kind # "start" => row[j].status # "absent"
       /\ Commits(h, j) /\ tx[h].kind = "start" =>
            /\ row[j].status = "absent"
            /\ \A o \in Handler : Commits(o, j) => o = h
            /\ tx[h].new.tried = tx[h].loaded.tried => \A t \in TaskTier : msgs[j][t] = 0

Paired(j) ==
  /\ Together(row[j])
  /\ \A h \in Handler : Works(h, j) => Together(tx[h].loaded)

OwnerKept(j) ==
  "revived" \notin excuses[j] =>
    /\ Owned(row[j])
    /\ \A h \in Handler : Works(h, j) => Owned(tx[h].loaded)

TaskExcuses == {"overtaken", "early", "crash", "return"}
PaidExcuses == {"overtaken", "concurrent", "early", "rollback", "crash"}

\* Of a job that nobody overtook, no task began early, died or gave up.
TaskKept(j) ==
  excuses[j] \cap TaskExcuses = {} =>
    /\ row[j].status = "running" => row[j].tier = "remote"
    /\ ForTask(row[j]) => msgs[j][row[j].tier] > 0 \/ \E e \in Executor : Works(e, j)
    /\ \A h \in Advancing(j) : ForTask(tx[h].new) => msgs[j][tx[h].new.tier] > 0
    /\ \A e \in Executor :
         At(e, "working") /\ tx[e].job = j /\ ~tx[e].seen =>
           row[j].status = "absent" /\ \A h \in Handler : ~Commits(h, j)

HasTasks(j) == (\E e \in Executor : Works(e, j)) \/ (\E t \in TaskTier : msgs[j][t] > 0)

\* One task of job j at most is in the list or at work, and while there is one, no
\* remote worker has the job or may claim it.
OneTask(j) ==
  /\ \A t, u \in TaskTier : msgs[j][t] <= 1 /\ (msgs[j][t] = 1 /\ msgs[j][u] = 1 => t = u)
  /\ \A e, f \in Executor : Works(e, j) /\ Works(f, j) => e = f
  /\ \A e \in Executor, t \in TaskTier : Works(e, j) => msgs[j][t] = 0
  /\ HasTasks(j) => /\ row[j].worker = None /\ row[j].status # "running"
                    /\ row[j].status = "queued" => row[j].tier # "remote"
  /\ \A e \in Executor : At(e, "working") /\ tx[e].job = j => tx[e].loaded.tried = row[j].tried

\* What h kicked is all there is of tasks.
OnlyOf(h, j) ==
  /\ \A t \in TaskTier :
       msgs[j][t] = IF ForTask(tx[h].new) /\ tx[h].new.tier = t THEN 1 ELSE 0
  /\ \A e \in Executor : Works(e, j) => e = h

PaidKept(j) ==
  excuses[j] \cap PaidExcuses = {} =>
    /\ paid[j] <= 1
    /\ paid[j] = 1 => \/ "speechkit" \in row[j].tried
                      \/ \E h \in Advancing(j) : "speechkit" \in tx[h].new.tried
    /\ \A h \in Handler : Works(h, j) => tx[h].loaded.tried \subseteq row[j].tried
    /\ Advancing(j) = {} => OneTask(j)
    /\ \A h \in Handler :
         Advancing(j) = {h} /\ tx[h].loaded.tried = row[j].tried => OnlyOf(h, j)

JobSound(j) == Present(j) /\ Paired(j) /\ OwnerKept(j) /\ TaskKept(j) /\ PaidKept(j)

IInv ==
  /\ TypeOK
  /\ Sessions
  /\ \A j \in Job : JobSound(j)

----------------------------------------------------------------------------
(* The operators of the model.                                             *)

\* The record a row begins with is a row.
LEMMA NoRowType == NoRow \in Row
BY NoneAssumption DEF NoRow, Row, Status

\* The record of a handler without session is well typed.
LEMMA NoTxType == NoTx \in Tx
BY JobAssumption, NoRowType DEF NoTx, Tx

\* There are at most as many tiers in the plan as there are tiers.
LEMMA PlanShort == Len(Plan) \in 0..3 /\ DOMAIN Plan = 1..Len(Plan)
<1>1. Len(Plan) \in Nat /\ DOMAIN Plan = 1..Len(Plan)
  BY PlanAssumption
<1>2. \A i \in DOMAIN Plan : Plan[i] \in Tier
  BY PlanAssumption
<1>3. ASSUME Len(Plan) >= 4 PROVE FALSE
  <2>1. 1 \in DOMAIN Plan /\ 2 \in DOMAIN Plan /\ 3 \in DOMAIN Plan /\ 4 \in DOMAIN Plan
    BY <1>1, <1>3
  <2>2. /\ Plan[1] # Plan[2] /\ Plan[1] # Plan[3] /\ Plan[1] # Plan[4]
        /\ Plan[2] # Plan[3] /\ Plan[2] # Plan[4] /\ Plan[3] # Plan[4]
    BY <2>1, PlanAssumption
  <2> QED
    BY <1>2, <2>1, <2>2 DEF Tier, TaskTier
<1> QED
  BY <1>1, <1>3

\* Some places of the plan have a last one among them.
LEMMA LastOfSome ==
  ASSUME NEW S, S \subseteq DOMAIN Plan, S # {}
  PROVE  \E k \in S : \A l \in S : l <= k
<1>1. S \subseteq {1, 2, 3}
  BY PlanShort
<1> QED
  <2>1. CASE 3 \in S
    BY <1>1, <2>1
  <2>2. CASE 3 \notin S /\ 2 \in S
    BY <1>1, <2>2
  <2>3. CASE 3 \notin S /\ 2 \notin S
    BY <1>1, <2>3
  <2> QED
    BY <2>1, <2>2, <2>3

\* What a move to another tier, or past the last, makes of a row.
MovesTo(old, new, i, end) ==
  /\ new \in Row
  /\ old.tried \subseteq new.tried
  /\ i \in DOMAIN Plan => /\ new.status = "queued" /\ new.tier = Plan[i]
                          /\ Plan[i] \in new.tried /\ Plan[i] \notin old.tried
  /\ i \notin DOMAIN Plan => new.status = end
  /\ new.tried # old.tried => new.worker = None /\ new.lease = "none"
  /\ new.tried = old.tried => /\ new.tier = old.tier /\ new.worker = old.worker
                              /\ new.lease = old.lease

\* A move goes to a tier that was not tried, which it marks as tried.
LEMMA MovedMoves ==
  ASSUME NEW old \in Row, NEW i \in Targets(old.tried), NEW end \in {"failed", "done"}
  PROVE  MovesTo(old, Moved(old, i, end), i, end)
<1> DEFINE past == Past(old.tried, i)
           last == CHOOSE k \in past : \A l \in past : l <= k
           new  == Moved(old, i, end)
<1>1. past \subseteq DOMAIN Plan /\ \A k \in past : Plan[k] \in Tier /\ Plan[k] \notin old.tried
  BY PlanAssumption DEF Past, Left
<1>2. past # {} => last \in past /\ \A l \in past : l <= last
  <2> SUFFICES ASSUME past # {} PROVE last \in past /\ \A l \in past : l <= last
    OBVIOUS
  <2>1. \E k \in past : \A l \in past : l <= k
    BY <1>1, LastOfSome
  <2> HIDE DEF past
  <2> QED
    BY <2>1
<1>3. i \in DOMAIN Plan => i \in past /\ last = i
  <2> SUFFICES ASSUME i \in DOMAIN Plan PROVE i \in past /\ last = i
    OBVIOUS
  <2>1. i \in Nat /\ i \in Left(old.tried)
    BY PlanShort DEF Targets
  <2>2. i \in past
    BY <2>1 DEF Past
  <2>3. last \in past /\ i <= last
    BY <1>2, <2>2
  <2>4. last <= i /\ last \in Nat
    BY <1>1, <2>3, PlanShort DEF Past
  <2> QED
    BY <2>1, <2>2, <2>3, <2>4
<1>4. /\ new.status = (IF i \in DOMAIN Plan THEN "queued" ELSE end)
      /\ new.tier = (IF past = {} THEN old.tier ELSE Plan[last])
      /\ new.worker = (IF past = {} THEN old.worker ELSE None)
      /\ new.pinned = (IF past = {} THEN old.pinned ELSE None)
      /\ new.lease = (IF past = {} THEN old.lease ELSE "none")
      /\ new.tried = old.tried \cup {Plan[k] : k \in past}
      /\ new = [status |-> new.status, tier |-> new.tier, worker |-> new.worker,
                pinned |-> new.pinned, lease |-> new.lease, tried |-> new.tried]
  BY DEF Moved, AllTried
<1> HIDE DEF past, last, new
<1>5. /\ old.tier \in Tier \cup {None} /\ old.worker \in Worker \cup {None}
      /\ old.pinned \in Worker \cup {None} /\ old.lease \in {"none", "running", "expired"}
      /\ old.tried \subseteq Tier
  BY DEF Row
<1>6. new \in Row
  <2>1. new.status \in Status /\ new.tier \in Tier \cup {None}
    BY <1>1, <1>2, <1>4, <1>5 DEF Status
  <2>2. /\ new.worker \in Worker \cup {None} /\ new.pinned \in Worker \cup {None}
        /\ new.lease \in {"none", "running", "expired"}
    BY <1>4, <1>5
  <2>3. new.tried \subseteq Tier
    BY <1>1, <1>4, <1>5
  <2> QED
    BY <1>4, <2>1, <2>2, <2>3 DEF Row
<1>7. past = {} <=> new.tried = old.tried
  BY <1>1, <1>4
<1>8. i \in DOMAIN Plan => Plan[i] \in new.tried /\ Plan[i] \notin old.tried
  BY <1>1, <1>3, <1>4
<1>9. i \in DOMAIN Plan => new.status = "queued" /\ new.tier = Plan[i]
  BY <1>3, <1>4
<1>10. new.tried # old.tried => new.worker = None /\ new.lease = "none"
  BY <1>4, <1>7
<1>11. new.tried = old.tried => /\ new.tier = old.tier /\ new.worker = old.worker
                                /\ new.lease = old.lease
  BY <1>4, <1>7
<1> QED
  BY <1>4, <1>6, <1>8, <1>9, <1>10, <1>11 DEF MovesTo, new

\* The task of the tier a job moves to is kicked, and counted if it is paid.
Kicked(j, loaded, new) ==
  LET kicks == new.tried # loaded.tried /\ ForTask(new)
  IN  /\ msgs' = IF kicks THEN [msgs EXCEPT ![j][new.tier] = @ + 1] ELSE msgs
      /\ IF kicks /\ new.tier = "speechkit"
         THEN /\ paid' = [paid EXCEPT ![j] = @ + 1]
              /\ Excused(j, IF Advancing(j) # {} THEN {"concurrent"} ELSE {})
         ELSE UNCHANGED <<paid, excuses>>

\* A session that moves a job kicks the task of the tier it moves it to and no other.
LEMMA KickKicks ==
  ASSUME NEW j \in Job, NEW loaded \in Row, NEW old \in Row, NEW new, NEW i, NEW end,
         loaded.tried \subseteq old.tried, end \in {"failed", "done"},
         MovesTo(old, new, i, end), Kick(j, i)
  PROVE  Kicked(j, loaded, new)
<1>1. CASE i \in DOMAIN Plan
  <2>1. new.status = "queued" /\ new.tier = Plan[i] /\ new.tried # loaded.tried
    BY <1>1 DEF MovesTo
  <2>2. HasTask(i) <=> new.tried # loaded.tried /\ ForTask(new)
    BY <1>1, <2>1 DEF HasTask, ForTask
  <2>3. i \in DOMAIN Plan /\ Plan[i] = "speechkit"
          <=> (new.tried # loaded.tried /\ ForTask(new)) /\ new.tier = "speechkit"
    BY <1>1, <2>1 DEF ForTask, TaskTier
  <2>4. msgs' = IF HasTask(i) THEN [msgs EXCEPT ![j][new.tier] = @ + 1] ELSE msgs
    BY <2>1 DEF Kick
  <2> QED
    BY <2>2, <2>3, <2>4, Zenon DEF Kick, Kicked
<1>2. CASE i \notin DOMAIN Plan
  <2>1. ~ForTask(new)
    BY <1>2 DEF MovesTo, ForTask
  <2> QED
    BY <1>2, <2>1 DEF Kick, HasTask, Kicked
<1> QED
  BY <1>1, <1>2

\* What a move makes of a row is what a session may write.
LEMMA MovesRewrite ==
  ASSUME NEW old \in Row, NEW new, NEW i, NEW end \in {"failed", "done"},
         MovesTo(old, new, i, end)
  PROVE  Rewrites(old, new)
<1>1. new.status \in Finished \cup {"queued"}
  BY DEF MovesTo, Finished
<1>2. new.status = "queued" => new.tier \in new.tried \ old.tried
  BY DEF MovesTo
<1> QED
  BY <1>1, <1>2 DEF MovesTo, Rewrites

----------------------------------------------------------------------------
(* The kinds of steps.                                                     *)

\* A session comes to its commit: that of a request or of the reaper at once, that
\* of a task after its work.
Turn(h, t) ==
  /\ t \in Tx /\ t.at = "ready" /\ Writes(h, t)
  /\ tx' = [tx EXCEPT ![h] = t]
  /\ row' = row
  /\ Kicked(t.job, t.loaded, t.new)
  /\ \/ /\ At(h, "idle") /\ h \notin Executor /\ t.loaded = row[t.job]
        /\ t.kind = "start" => /\ row[t.job].status = "absent"
                               /\ \A o \in Handler : ~Works(o, t.job)
                               /\ \A u \in TaskTier : msgs[t.job][u] = 0
        /\ t.kind # "start" /\ t.new.tried # t.loaded.tried =>
             row[t.job].worker # None \/ row[t.job].status = "running"
     \/ /\ At(h, "working") /\ h \in Executor /\ tx[h].seen
        /\ t.job = tx[h].job /\ t.loaded = tx[h].loaded /\ t.kind = tx[h].kind

\* A session ends without a commit.
Ended(h) ==
  /\ ~At(h, "idle")
  /\ End(h)
  /\ UNCHANGED <<row, msgs, paid>>
  /\ \/ At(h, "working") /\ ~tx[h].seen /\ h \in Executor /\ excuses' = excuses
     \/ h \notin Executor /\ Excused(tx[h].job, {"rollback"})
     \/ h \in Executor /\ Excused(tx[h].job, {"crash"})
     \/ At(h, "working") /\ h \in Executor /\ Excused(tx[h].job, {"return"})

Still == UNCHANGED <<row, msgs, tx, paid, excuses>>

Bounded == revoked' \subseteq Worker /\ faults' \in 0..FaultBound

StepOfAKind ==
  \/ \E h \in Handler, t \in Tx : Turn(h, t)
  \/ \E h \in Handler : Ended(h)
  \/ \E h \in Handler : Commit(h)
  \/ \E e \in Executor, j \in Job, t \in TaskTier : Receive(e, j, t)
  \/ \E w \in Worker, j \in Job : Claim(w, j)
  \/ \E j \in Job : LeaseExpires(j)
  \/ Still

\* A session that reads a row, decides and kicks is one kind of step, whoever it is.
LEMMA ReadyTurns ==
  ASSUME TypeOK, NEW h \in Handler, At(h, "idle"), h \notin Executor,
         NEW j \in Job, NEW new \in Row,
         NEW kind \in {"start", "result", "advance", "route", "cancel"},
         Ready(h, kind, j, new), Rewrites(row[j], new), row' = row,
         Kicked(j, row[j], new),
         IF kind = "start"
           THEN /\ row[j] = NoRow /\ \A o \in Handler : ~Works(o, j)
                /\ \A u \in TaskTier : msgs[j][u] = 0
           ELSE /\ row[j].status # "absent"
                /\ new.tried # row[j].tried =>
                     /\ kind = "advance"
                     /\ row[j].worker # None \/ row[j].status = "running"
  PROVE  \E t \in Tx : Turn(h, t)
<1> DEFINE t == [at |-> "ready", kind |-> kind, job |-> j, seen |-> TRUE,
                 loaded |-> row[j], new |-> new]
<1>1. row[j] \in Row
  BY DEF TypeOK
<1>2. t \in Tx
  BY <1>1 DEF Tx
<1>3. /\ t.at = "ready" /\ t.kind = kind /\ t.job = j /\ t.loaded = row[j] /\ t.new = new
      /\ tx' = [tx EXCEPT ![h] = t]
  BY DEF Ready
<1> HIDE DEF t
<1>4. Writes(h, t)
  BY <1>3 DEF Writes
<1>5. row[j] = NoRow => row[j].status = "absent"
  BY DEF NoRow
<1>6. Kicked(t.job, t.loaded, t.new)
  BY <1>3
<1> QED
  BY <1>2, <1>3, <1>4, <1>5, <1>6 DEF Turn

\* So does the start of a job, which has neither a session nor a task.
LEMMA StartTurns ==
  ASSUME TypeOK, NEW j \in Job, Present(j), NEW h \in Request, Start(h, j)
  PROVE  \E t \in Tx : Turn(h, t)
<1>0. PICK skipped \in SUBSET {"catalog"} : \E i \in Targets(skipped) :
        /\ Ready(h, "start", j, Moved([NoRow EXCEPT !.tried = skipped], i, "failed"))
        /\ Kick(j, i)
  BY DEF Start
<1> DEFINE old == [NoRow EXCEPT !.tried = skipped]
<1>1. PICK i \in Targets(skipped) : Ready(h, "start", j, Moved(old, i, "failed")) /\ Kick(j, i)
  BY <1>0
<1> DEFINE new == Moved(old, i, "failed")
<1>13. Ready(h, "start", j, new)
  BY <1>1
<1>2. h \in Handler /\ h \notin Executor /\ At(h, "idle") /\ row' = row
  BY HandlerAssumption DEF Start, Handler
<1>3. row[j] = NoRow /\ NoRow \in Row
  BY NoRowType DEF Start, Present
<1>4. old \in Row /\ old.tried = skipped /\ NoRow.tried = {}
  BY <1>3 DEF Row, NoRow, Tier, TaskTier
<1>5. old.tier = None /\ old.worker = None /\ old.lease = "none"
  BY DEF NoRow
<1>6. NoRow.tier = None /\ NoRow.worker = None /\ NoRow.lease = "none"
  BY DEF NoRow
<1> HIDE DEF old
<1>7. MovesTo(old, new, i, "failed")
  BY <1>4, MovedMoves
<1> HIDE DEF new
<1>8. new \in Row /\ Rewrites(old, new)
  BY <1>4, <1>7, MovesRewrite DEF MovesTo
<1>9. Rewrites(NoRow, new)
  <2>1. CASE new.tried = NoRow.tried
    <3>1. new.tried = old.tried
      BY <1>4, <1>8, <2>1 DEF Rewrites
    <3>2. /\ new.status \in Finished \cup {"queued"}
          /\ new.tier = None /\ new.worker = None /\ new.lease = "none"
      BY <1>5, <1>7, <1>8, <3>1 DEF MovesTo, Rewrites
    <3>3. new.status # "queued"
      BY <1>7, <3>1, <1>8 DEF MovesTo, Finished
    <3> QED
      BY <1>4, <1>6, <2>1, <3>2, <3>3 DEF Rewrites
  <2>2. CASE new.tried # NoRow.tried
    <3>1. new.worker = None /\ new.lease = "none"
      BY <1>5, <1>7 DEF MovesTo
    <3>2. new.status = "queued" => new.tier \in new.tried
      BY <1>7 DEF MovesTo
    <3> QED
      BY <1>4, <1>8, <2>2, <3>1, <3>2 DEF Rewrites
  <2> QED
    BY <2>1, <2>2
<1>10. Kicked(j, NoRow, new)
  BY <1>1, <1>3, <1>4, <1>7, KickKicks
<1>11. /\ \A o \in Handler : ~Works(o, j)
       /\ \A u \in TaskTier : msgs[j][u] = 0
  BY DEF Start, Works, At
<1> QED
  BY <1>2, <1>3, <1>8, <1>9, <1>10, <1>11, <1>13, ReadyTurns

\* So do a reported failure, the reaper and the fallback of a revoked worker.
LEMMA AdvanceTurns ==
  ASSUME TypeOK, NEW h \in Handler, h \notin Executor, At(h, "idle"), NEW j \in Job,
         Advance(h, j), row' = row, row[j].status # "absent",
         row[j].worker # None \/ row[j].status = "running"
  PROVE  \E t \in Tx : Turn(h, t)
<1>1. PICK i \in Targets(row[j].tried) :
        Ready(h, "advance", j, Moved(row[j], i, "failed")) /\ Kick(j, i)
  BY DEF Advance
<1> DEFINE new == Moved(row[j], i, "failed")
<1>2. row[j] \in Row
  BY DEF TypeOK
<1>3. MovesTo(row[j], new, i, "failed")
  BY <1>2, MovedMoves
<1>4. Ready(h, "advance", j, new) /\ Kick(j, i)
  BY <1>1
<1> HIDE DEF new
<1>5. new \in Row /\ Rewrites(row[j], new)
  BY <1>2, <1>3, MovesRewrite DEF MovesTo
<1>6. Kicked(j, row[j], new)
  BY <1>2, <1>3, <1>4, KickKicks
<1> QED
  BY <1>4, <1>5, <1>6, ReadyTurns

\* So does a result that is reported.
LEMMA ResultTurns ==
  ASSUME TypeOK, NEW j \in Job, NEW h \in Request, NEW w \in Worker, Result(h, w, j)
  PROVE  \E t \in Tx : Turn(h, t)
<1> DEFINE new == [row[j] EXCEPT !.status = "done"]
<1>1. h \in Handler /\ h \notin Executor /\ At(h, "idle") /\ row' = row
  BY HandlerAssumption DEF Result, Handler
<1>2. row[j] \in Row /\ row[j].status # "absent"
  BY DEF Result, TypeOK
<1>3. new \in Row /\ new.status = "done" /\ new.tried = row[j].tried /\ new.tier = row[j].tier
      /\ new.worker = row[j].worker /\ new.lease = row[j].lease
  BY <1>2 DEF Row, Status
<1>4. Ready(h, "result", j, new) /\ msgs' = msgs /\ paid' = paid /\ excuses' = excuses
  BY DEF Result
<1> HIDE DEF new
<1>5. Rewrites(row[j], new)
  BY <1>3 DEF Rewrites, Finished
<1>6. Kicked(j, row[j], new)
  BY <1>3, <1>4 DEF Kicked
<1> QED
  BY <1>1, <1>2, <1>3, <1>4, <1>5, <1>6, ReadyTurns

\* So does a cancellation.
LEMMA CancelTurns ==
  ASSUME TypeOK, NEW j \in Job, NEW h \in Request, Cancel(h, j)
  PROVE  \E t \in Tx : Turn(h, t)
<1> DEFINE new == [row[j] EXCEPT !.status = "cancelled"]
<1>1. h \in Handler /\ h \notin Executor /\ At(h, "idle") /\ row' = row
  BY HandlerAssumption DEF Cancel, Handler
<1>2. row[j] \in Row /\ row[j].status # "absent"
  BY DEF Cancel, TypeOK
<1>3. new \in Row /\ new.status = "cancelled" /\ new.tried = row[j].tried /\ new.tier = row[j].tier
      /\ new.worker = row[j].worker /\ new.lease = row[j].lease
  BY <1>2 DEF Row, Status
<1>4. Ready(h, "cancel", j, new) /\ msgs' = msgs /\ paid' = paid /\ excuses' = excuses
  BY DEF Cancel
<1> HIDE DEF new
<1>5. Rewrites(row[j], new)
  BY <1>3 DEF Rewrites, Finished
<1>6. Kicked(j, row[j], new)
  BY <1>3, <1>4 DEF Kicked
<1> QED
  BY <1>1, <1>2, <1>3, <1>4, <1>5, <1>6, ReadyTurns

\* So does a change of the worker a job is meant for.
LEMMA RouteTurns ==
  ASSUME TypeOK, NEW j \in Job, NEW h \in Request, NEW pin \in Worker \cup {None},
         Route(h, j, pin)
  PROVE  \E t \in Tx : Turn(h, t)
<1> DEFINE new == IF row[j].status = "queued" THEN [row[j] EXCEPT !.pinned = pin]
                  ELSE [row[j] EXCEPT !.status = "queued", !.worker = None, !.pinned = pin,
                                      !.lease = "none"]
<1>1. h \in Handler /\ h \notin Executor /\ At(h, "idle") /\ row' = row
  BY HandlerAssumption DEF Route, Handler
<1>2. row[j] \in Row /\ row[j].status \in {"queued", "running"}
  BY DEF Route, TypeOK
<1>3. new \in Row /\ new.status = "queued" /\ new.tried = row[j].tried /\ new.tier = row[j].tier
  BY <1>2 DEF Row, Status
<1>4. IF row[j].status = "queued" THEN new.worker = row[j].worker /\ new.lease = row[j].lease
      ELSE new.worker = None /\ new.lease = "none"
  BY <1>2 DEF Row
<1>5. Ready(h, "route", j, new) /\ msgs' = msgs /\ paid' = paid /\ excuses' = excuses
  BY DEF Route
<1> HIDE DEF new
<1>6. Rewrites(row[j], new)
  BY <1>2, <1>3, <1>4 DEF Rewrites
<1>7. Kicked(j, row[j], new)
  BY <1>3, <1>5 DEF Kicked
<1> QED
  BY <1>1, <1>2, <1>3, <1>5, <1>6, <1>7, ReadyTurns

\* A task that found its row and has come to its end.
LEMMA TaskTurns ==
  ASSUME TypeOK, Sessions, NEW e \in Executor, At(e, "working"), tx[e].seen, NEW new \in Row,
         tx' = [tx EXCEPT ![e].at = "ready", ![e].new = new], row' = row,
         Rewrites(tx[e].loaded, new), Kicked(tx[e].job, tx[e].loaded, new),
         new.tried = tx[e].loaded.tried => new.status # "queued"
  PROVE  \E t \in Tx : Turn(e, t)
<1> DEFINE t == [tx[e] EXCEPT !.at = "ready", !.new = new]
<1>1. e \in Handler /\ tx[e] \in Tx
  BY DEF Handler, TypeOK
<1>2. tx' = [tx EXCEPT ![e] = t]
  BY <1>1 DEF TypeOK
<1>3. /\ t \in Tx /\ t.at = "ready" /\ t.new = new /\ t.loaded = tx[e].loaded
      /\ t.job = tx[e].job /\ t.kind = tx[e].kind
  BY <1>1 DEF Tx
<1> HIDE DEF t
<1>4. tx[e].kind \in TaskTier /\ tx[e].loaded.status # "absent"
  BY <1>1 DEF Sessions
<1>5. Writes(e, t)
  BY <1>3, <1>4 DEF Writes, TaskTier
<1>6. Kicked(t.job, t.loaded, t.new)
  BY <1>3
<1> QED
  BY <1>2, <1>3, <1>5, <1>6 DEF Turn

\* A task ends its job, moves it on or, when it found no row, only ends.
LEMMA TaskEnds ==
  ASSUME TypeOK, Sessions, NEW e \in Executor, TaskStep(e)
  PROVE  (\E t \in Tx : Turn(e, t)) \/ Ended(e)
<1> DEFINE loaded == tx[e].loaded
<1>1. e \in Handler /\ tx[e] \in Tx /\ loaded \in Row /\ tx[e].job \in Job
  BY DEF Handler, TypeOK, Tx
<1>2. At(e, "working") /\ row' = row
  BY DEF TaskStep, TaskFinds, TaskMisses
<1>3. CASE ~tx[e].seen
  <2>1. End(e) /\ UNCHANGED <<msgs, paid, excuses>>
    BY <1>3 DEF TaskStep, TaskFinds, TaskMisses
  <2> QED
    BY <1>2, <1>3, <2>1 DEF Ended, At
<1>4. CASE tx[e].seen /\ TaskFinds(e)
  <2> DEFINE new == [loaded EXCEPT !.status = "done"]
  <2>1. /\ new \in Row /\ new.status = "done" /\ new.tried = loaded.tried
        /\ new.tier = loaded.tier /\ new.worker = loaded.worker /\ new.lease = loaded.lease
    BY <1>1 DEF Row, Status
  <2>2. tx' = [tx EXCEPT ![e].at = "ready", ![e].new = new]
    BY <1>1, <1>2, <1>4 DEF TaskFinds, Sessions, TypeOK
  <2>3. msgs' = msgs /\ paid' = paid /\ excuses' = excuses
    BY <1>4 DEF TaskFinds
  <2> HIDE DEF new
  <2>4. Rewrites(loaded, new)
    BY <2>1 DEF Rewrites, Finished
  <2>5. Kicked(tx[e].job, loaded, new)
    BY <2>1, <2>3 DEF Kicked
  <2> QED
    BY <1>2, <1>4, <2>1, <2>2, <2>4, <2>5, TaskTurns
<1>5. CASE tx[e].seen /\ TaskMisses(e)
  <2>1. PICK i \in Targets(loaded.tried),
             end \in {"failed"} \cup (IF tx[e].kind = "catalog" THEN {"done"} ELSE {}) :
          /\ tx' = [tx EXCEPT ![e].at = "ready", ![e].new = Moved(loaded, i, end)]
          /\ Kick(tx[e].job, i)
    BY <1>5 DEF TaskMisses
  <2> DEFINE new == Moved(loaded, i, end)
  <2>2. end \in {"failed", "done"}
    OBVIOUS
  <2>3. MovesTo(loaded, new, i, end)
    BY <1>1, <2>2, MovedMoves
  <2>4. tx' = [tx EXCEPT ![e].at = "ready", ![e].new = new] /\ Kick(tx[e].job, i)
    BY <2>1
  <2> HIDE DEF new
  <2>5. new \in Row /\ Rewrites(loaded, new)
    BY <1>1, <2>2, <2>3, MovesRewrite DEF MovesTo
  <2>6. Kicked(tx[e].job, loaded, new)
    BY <1>1, <2>2, <2>3, <2>4, KickKicks
  <2>7. new.tried = loaded.tried => new.status # "queued"
    BY <2>2, <2>3 DEF MovesTo
  <2> QED
    BY <1>2, <1>5, <2>4, <2>5, <2>6, <2>7, TaskTurns
<1> QED
  BY <1>3, <1>4, <1>5 DEF TaskStep

\* Every step is of one of the kinds.
LEMMA StepKinds ==
  ASSUME IInv, [Next]_vars
  PROVE  StepOfAKind /\ Bounded
<1> DEFINE Done == StepOfAKind /\ Bounded
           Kept == revoked' = revoked /\ faults' = faults
           Spent == revoked' = revoked /\ faults > 0 /\ faults' = faults - 1
<1> USE DEF IInv
<1>1. Kept \/ Spent => Bounded
  BY BoundAssumption DEF TypeOK, Bounded
<1>2. ASSUME NEW h \in Handler, Commit(h) PROVE Done
  BY <1>1, <1>2 DEF Commit, StepOfAKind
<1>3. ASSUME NEW h \in Handler, Rollback(h) PROVE Done
  <2>1. Ended(h) /\ Spent
    BY <1>3 DEF Rollback, Ended, Fault
  <2> QED
    BY <1>1, <2>1 DEF StepOfAKind
<1>4. ASSUME NEW h \in Request, NEW j \in Job, Start(h, j) \/ Cancel(h, j) PROVE Done
  <2>1. Kept /\ h \in Handler
    BY <1>4 DEF Start, Cancel, Handler
  <2>2. \E t \in Tx : Turn(h, t)
    BY <1>4, StartTurns, CancelTurns DEF JobSound
  <2> QED
    BY <1>1, <2>1, <2>2 DEF StepOfAKind
<1>5. ASSUME NEW h \in Request, NEW j \in Job, NEW pin \in Worker \cup {None},
             Route(h, j, pin)
      PROVE  Done
  <2>1. Kept /\ h \in Handler
    BY <1>5 DEF Route, Handler
  <2>2. \E t \in Tx : Turn(h, t)
    BY <1>5, RouteTurns
  <2> QED
    BY <1>1, <2>1, <2>2 DEF StepOfAKind
<1>6. ASSUME NEW h \in Request, NEW w \in Worker, NEW j \in Job, Result(h, w, j) PROVE Done
  <2>1. Kept /\ h \in Handler
    BY <1>6 DEF Result, Handler
  <2>2. \E t \in Tx : Turn(h, t)
    BY <1>6, ResultTurns
  <2> QED
    BY <1>1, <2>1, <2>2 DEF StepOfAKind
<1>7. ASSUME NEW h \in Request, NEW w \in Worker, NEW j \in Job,
             Fail(h, w, j) \/ Fallback(h, w, j)
      PROVE  Done
  <2>1. Kept /\ row' = row /\ h \in Handler /\ h \notin Executor
    BY <1>7, HandlerAssumption DEF Fail, Fallback, Handler
  <2>2. At(h, "idle") /\ row[j].worker = w /\ Advance(h, j)
    BY <1>7 DEF Fail, Fallback
  <2>3. w # None
    BY NoneAssumption
  <2>4. row[j].status # "absent"
    BY <2>2, <2>3 DEF JobSound, Present, NoRow
  <2>5. \E t \in Tx : Turn(h, t)
    BY <2>1, <2>2, <2>3, <2>4, AdvanceTurns
  <2> QED
    BY <1>1, <2>1, <2>5 DEF StepOfAKind
<1>8. ASSUME NEW w \in Worker, NEW j \in Job, Claim(w, j) PROVE Done
  BY <1>1, <1>8 DEF Claim, StepOfAKind
<1>9. ASSUME NEW w \in Worker, Revoke(w) PROVE Done
  BY <1>9, BoundAssumption DEF Revoke, StepOfAKind, Still, Bounded, TypeOK
<1>10. ASSUME NEW j \in Job, LeaseExpires(j) PROVE Done
  BY <1>1, <1>10 DEF LeaseExpires, StepOfAKind
<1>11. ASSUME NEW p \in Reaper, NEW j \in Job, Reap(p, j) PROVE Done
  <2>1. Kept /\ row' = row /\ p \in Handler /\ p \notin Executor
    BY <1>11, HandlerAssumption DEF Reap, Handler
  <2>2. At(p, "idle") /\ row[j].status = "running" /\ Advance(p, j)
    BY <1>11 DEF Reap, Expired
  <2>3. \E t \in Tx : Turn(p, t)
    BY <2>1, <2>2, AdvanceTurns
  <2> QED
    BY <1>1, <2>1, <2>3 DEF StepOfAKind
<1>12. ASSUME NEW e \in Executor, NEW j \in Job, NEW t \in TaskTier, Receive(e, j, t) PROVE Done
  BY <1>1, <1>12 DEF Receive, StepOfAKind
<1>13. ASSUME NEW e \in Executor, TaskStep(e) PROVE Done
  <2>1. Kept /\ e \in Handler
    BY <1>13 DEF TaskStep, TaskFinds, TaskMisses, Handler
  <2>2. (\E t \in Tx : Turn(e, t)) \/ Ended(e)
    BY <1>13, TaskEnds
  <2> QED
    BY <1>1, <2>1, <2>2 DEF StepOfAKind
<1>14. ASSUME NEW e \in Executor, TaskReturns(e) \/ TaskDies(e) PROVE Done
  <2>1. e \in Handler /\ Ended(e) /\ Spent
    BY <1>14 DEF TaskReturns, TaskDies, Ended, Fault, At, Handler
  <2> QED
    BY <1>1, <2>1 DEF StepOfAKind
<1>15. CASE UNCHANGED vars
  BY <1>1, <1>15 DEF vars, StepOfAKind, Still
<1> QED
  BY <1>2, <1>3, <1>4, <1>5, <1>6, <1>7, <1>8, <1>9, <1>10, <1>11, <1>12, <1>13, <1>14, <1>15
     DEF Next

----------------------------------------------------------------------------
(* Types and sessions.                                                     *)

\* A kick counts up the tasks in the list, and the paid ones.
LEMMA KickedTypes ==
  ASSUME TypeOK, NEW j \in Job, NEW loaded, NEW new, Kicked(j, loaded, new)
  PROVE  /\ msgs' \in [Job -> [TaskTier -> Nat]]
         /\ paid' \in [Job -> Nat]
         /\ excuses' \in [Job -> SUBSET Excuse]
<1>1. msgs' \in [Job -> [TaskTier -> Nat]]
  <2>1. CASE new.tried # loaded.tried /\ ForTask(new)
    <3>1. new.tier \in TaskTier /\ msgs' = [msgs EXCEPT ![j][new.tier] = @ + 1]
      BY <2>1 DEF ForTask, Kicked
    <3> QED
      BY <3>1 DEF TypeOK
  <2> QED
    BY <2>1 DEF Kicked, TypeOK
<1>2. paid' \in [Job -> Nat]
  BY DEF Kicked, TypeOK
<1>3. excuses' \in [Job -> SUBSET Excuse]
  BY DEF Kicked, Excused, TypeOK, Excuse
<1> QED
  BY <1>1, <1>2, <1>3

\* What a commit writes is a row again.
LEMMA FlushedType ==
  ASSUME NEW now \in Row, NEW t \in Tx
  PROVE  Flushed(now, t) \in Row
<1>1. t.new \in Row
  BY DEF Tx
<1>2. /\ now.status \in Status /\ now.tier \in Tier \cup {None}
      /\ now.worker \in Worker \cup {None} /\ now.pinned \in Worker \cup {None}
      /\ now.lease \in {"none", "running", "expired"} /\ now.tried \in SUBSET Tier
      /\ t.new.status \in Status /\ t.new.tier \in Tier \cup {None}
      /\ t.new.worker \in Worker \cup {None} /\ t.new.pinned \in Worker \cup {None}
      /\ t.new.lease \in {"none", "running", "expired"} /\ t.new.tried \in SUBSET Tier
  BY <1>1 DEF Row
<1>3. \A a, b, c : Flush(a, b, c) \in {a, c}
  BY DEF Flush
<1>4. /\ Flush(now.status, t.loaded.status, t.new.status) \in Status
      /\ Flush(now.tier, t.loaded.tier, t.new.tier) \in Tier \cup {None}
      /\ Flush(now.worker, t.loaded.worker, t.new.worker) \in Worker \cup {None}
      /\ Flush(now.pinned, t.loaded.pinned, t.new.pinned) \in Worker \cup {None}
      /\ Flush(now.lease, t.loaded.lease, t.new.lease) \in {"none", "running", "expired"}
  <2> HIDE DEF Flush
  <2> QED
    BY <1>2, <1>3
<1>5. (IF LeavesAttempts(t) THEN now.tried ELSE t.new.tried) \in SUBSET Tier
  BY <1>2
<1> QED
  BY <1>4, <1>5 DEF Flushed, Row

\* What a step does to the sessions: one of them changes at most.
LEMMA TypesStep ==
  ASSUME TypeOK, StepOfAKind, Bounded
  PROVE  TypeOK'
<1> DEFINE Done == TypeOK'
<1>0. ASSUME /\ row' \in [Job -> Row] /\ msgs' \in [Job -> [TaskTier -> Nat]]
             /\ tx' \in [Handler -> Tx] /\ paid' \in [Job -> Nat]
             /\ excuses' \in [Job -> SUBSET Excuse]
      PROVE  Done
  BY <1>0 DEF TypeOK, Bounded
<1>1. ASSUME NEW h \in Handler, NEW t \in Tx, Turn(h, t) PROVE Done
  <2>1. t.job \in Job
    BY DEF Tx
  <2>2. Kicked(t.job, t.loaded, t.new)
    BY <1>1 DEF Turn
  <2>3. row' \in [Job -> Row] /\ tx' \in [Handler -> Tx]
    BY <1>1 DEF Turn, TypeOK
  <2> QED
    BY <1>0, <2>1, <2>2, <2>3, KickedTypes
<1>2. ASSUME NEW h \in Handler, Ended(h) PROVE Done
  <2>1. tx' \in [Handler -> Tx]
    BY <1>2, NoTxType DEF Ended, End, TypeOK
  <2>2. row' \in [Job -> Row] /\ msgs' \in [Job -> [TaskTier -> Nat]] /\ paid' \in [Job -> Nat]
    BY <1>2 DEF Ended, TypeOK
  <2>3. excuses' \in [Job -> SUBSET Excuse]
    BY <1>2 DEF Ended, Excused, TypeOK, Excuse
  <2> QED
    BY <1>0, <2>1, <2>2, <2>3
<1>3. ASSUME NEW h \in Handler, Commit(h) PROVE Done
  <2>1. tx[h] \in Tx /\ tx[h].job \in Job
    BY DEF TypeOK, Tx
  <2>2. row[tx[h].job] \in Row
    BY <2>1 DEF TypeOK
  <2>3. row' \in [Job -> Row]
    BY <1>3, <2>1, <2>2, FlushedType DEF Commit, TypeOK
  <2>4. tx' \in [Handler -> Tx]
    BY <1>3, NoTxType DEF Commit, End, TypeOK
  <2>5. excuses' \in [Job -> SUBSET Excuse]
    BY <1>3 DEF Commit, Excused, TypeOK, Excuse
  <2>6. msgs' \in [Job -> [TaskTier -> Nat]] /\ paid' \in [Job -> Nat]
    BY <1>3 DEF Commit, TypeOK
  <2> QED
    BY <1>0, <2>3, <2>4, <2>5, <2>6
<1>4. ASSUME NEW e \in Executor, NEW j \in Job, NEW t \in TaskTier, Receive(e, j, t) PROVE Done
  <2>1. e \in Handler /\ row[j] \in Row
    BY DEF TypeOK, Handler
  <2>2. tx' \in [Handler -> Tx]
    <3> DEFINE new == [at |-> "working", kind |-> t, job |-> j,
                       seen |-> row[j].status # "absent", loaded |-> row[j], new |-> row[j]]
    <3>1. new \in Tx
      BY <2>1 DEF Tx, TaskTier
    <3>2. tx' = [tx EXCEPT ![e] = new]
      BY <1>4 DEF Receive
    <3> QED
      BY <3>1, <3>2 DEF TypeOK
  <2>3. msgs[j] \in [TaskTier -> Nat] /\ msgs[j][t] > 0
    BY <1>4 DEF Receive, Delivered, TypeOK
  <2>4. msgs' \in [Job -> [TaskTier -> Nat]]
    BY <1>4, <2>3 DEF Receive, TypeOK
  <2>5. excuses' \in [Job -> SUBSET Excuse]
    BY <1>4 DEF Receive, Excused, TypeOK, Excuse
  <2>6. row' \in [Job -> Row] /\ paid' \in [Job -> Nat]
    BY <1>4 DEF Receive, TypeOK
  <2> QED
    BY <1>0, <2>2, <2>4, <2>5, <2>6
<1>5. ASSUME NEW w \in Worker, NEW j \in Job, Claim(w, j) PROVE Done
  <2>1. Claimed(row[j], w) \in Row
    BY DEF Claimed, TypeOK, Row, Status
  <2>2. row' \in [Job -> Row]
    BY <1>5, <2>1 DEF Claim, TypeOK
  <2> QED
    BY <1>0, <1>5, <2>2 DEF Claim, TypeOK
<1>6. ASSUME NEW j \in Job, LeaseExpires(j) PROVE Done
  <2>1. [row[j] EXCEPT !.lease = "expired"] \in Row
    BY DEF TypeOK, Row
  <2>2. row' \in [Job -> Row]
    BY <1>6, <2>1 DEF LeaseExpires, TypeOK
  <2> QED
    BY <1>0, <1>6, <2>2 DEF LeaseExpires, TypeOK
<1>7. CASE Still
  BY <1>0, <1>7 DEF Still, TypeOK
<1> QED
  BY <1>1, <1>2, <1>3, <1>4, <1>5, <1>6, <1>7 DEF StepOfAKind

\* Sessions end, or come to their commit or to work as they ought to.
LEMMA SessionsStep ==
  ASSUME TypeOK, Sessions, StepOfAKind
  PROVE  Sessions'
<1> DEFINE Sound(h, t) == /\ t.at = "working" => /\ h \in Executor /\ t.kind \in TaskTier
                                                 /\ t.seen <=> t.loaded.status # "absent"
                                                 /\ t.new = t.loaded
                          /\ t.at = "ready" => Writes(h, t)
<1>1. ASSUME NEW o \in Handler, NEW t, tx' = [tx EXCEPT ![o] = t], Sound(o, t)
      PROVE  Sessions'
  <2> SUFFICES ASSUME NEW h \in Handler PROVE Sound(h, tx'[h])
    BY Zenon DEF Sessions, At
  <2>1. Sound(h, tx[h])
    BY DEF Sessions, At
  <2>2. tx'[h] = IF h = o THEN t ELSE tx[h]
    BY <1>1 DEF TypeOK
  <2> HIDE DEF Sound
  <2> QED
    BY <1>1, <2>1, <2>2
<1>2. ASSUME NEW h \in Handler, NEW t \in Tx, Turn(h, t) PROVE Sessions'
  BY <1>1, <1>2 DEF Turn
<1>3. ASSUME NEW h \in Handler, End(h) PROVE Sessions'
  <2>1. Sound(h, NoTx)
    BY DEF NoTx
  <2> QED
    BY <1>1, <1>3, <2>1 DEF End
<1>4. ASSUME NEW e \in Executor, NEW j \in Job, NEW t \in TaskTier, Receive(e, j, t)
      PROVE  Sessions'
  <2> DEFINE new == [at |-> "working", kind |-> t, job |-> j,
                     seen |-> row[j].status # "absent", loaded |-> row[j], new |-> row[j]]
  <2>1. Sound(e, new) /\ e \in Handler
    BY DEF Handler
  <2>2. tx' = [tx EXCEPT ![e] = new]
    BY <1>4 DEF Receive
  <2> QED
    BY <1>1, <2>1, <2>2
<1>5. ASSUME tx' = tx PROVE Sessions'
  BY <1>5, Zenon DEF Sessions, At
<1> QED
  BY <1>2, <1>3, <1>4, <1>5 DEF StepOfAKind, Ended, Commit, Claim, LeaseExpires, Still

----------------------------------------------------------------------------
(* Jobs that a step does not touch.                                        *)

Untouched(j) ==
  /\ row'[j] = row[j] /\ msgs'[j] = msgs[j] /\ paid'[j] = paid[j] /\ excuses'[j] = excuses[j]
  /\ \A h \in Handler : /\ Works(h, j)' <=> Works(h, j)
                        /\ Works(h, j) => tx'[h] = tx[h]

\* What is sound about a job stays so when nothing of it changes.
LEMMA UntouchedSound ==
  ASSUME NEW j \in Job, JobSound(j), Untouched(j)
  PROVE  JobSound(j)'
<1>1. \A h \in Handler :
        /\ Works(h, j)' <=> Works(h, j)
        /\ Works(h, j) => tx'[h] = tx[h]
        /\ Commits(h, j)' <=> Commits(h, j)
        /\ Commits(h, j) => Works(h, j)
        /\ (At(h, "working") /\ tx[h].job = j)' <=> At(h, "working") /\ tx[h].job = j
        /\ At(h, "working") /\ tx[h].job = j => Works(h, j)
  BY DEF Untouched, Works, Commits, At
<1>2. Advancing(j)' = Advancing(j) /\ \A h \in Advancing(j) : h \in Handler /\ Works(h, j)
  BY <1>1 DEF Advancing, Commits, At, Works
<1>3. row'[j] = row[j] /\ msgs'[j] = msgs[j] /\ paid'[j] = paid[j] /\ excuses'[j] = excuses[j]
  BY DEF Untouched
<1>4. \A e \in Executor : e \in Handler
  BY DEF Handler
<1>5. Present(j)'
  BY <1>1, <1>3 DEF JobSound, Present
<1>6. Paired(j)' /\ OwnerKept(j)'
  BY <1>1, <1>3 DEF JobSound, Paired, OwnerKept
<1>7. TaskKept(j)'
  BY <1>1, <1>2, <1>3, <1>4 DEF JobSound, TaskKept
<1>8. OneTask(j) => OneTask(j)'
  BY <1>1, <1>3, <1>4 DEF OneTask, HasTasks
<1>9. ASSUME NEW h \in Handler, h \in Advancing(j), OnlyOf(h, j) PROVE OnlyOf(h, j)'
  BY <1>1, <1>2, <1>3, <1>4, <1>9 DEF OnlyOf
<1>10. PaidKept(j)'
  BY <1>1, <1>2, <1>3, <1>8, <1>9 DEF JobSound, PaidKept
<1> QED
  BY <1>5, <1>6, <1>7, <1>10 DEF JobSound

\* A step changes one session and touches the jobs that this session works on.
LEMMA OthersUntouched ==
  ASSUME TypeOK, NEW h \in Handler, NEW t, tx' = [tx EXCEPT ![h] = t], NEW j \in Job,
         ~Works(h, j), t.at # "idle" => t.job # j,
         row'[j] = row[j], msgs'[j] = msgs[j], paid'[j] = paid[j], excuses'[j] = excuses[j]
  PROVE  Untouched(j)
<1>1. \A o \in Handler : tx'[o] = IF o = h THEN t ELSE tx[o]
  BY DEF TypeOK
<1> QED
  BY <1>1 DEF Untouched, Works, At

----------------------------------------------------------------------------
(* A session comes to its commit.                                          *)

Kicks(t) == t.new.tried # t.loaded.tried /\ ForTask(t.new)

\* What such a step does to the tasks of its job, and to the sessions.
TurnKicks(t, j) ==
  /\ \A u \in TaskTier :
       msgs'[j][u] = msgs[j][u] + (IF Kicks(t) /\ t.new.tier = u THEN 1 ELSE 0)
  /\ paid'[j] = paid[j] + (IF Kicks(t) /\ t.new.tier = "speechkit" THEN 1 ELSE 0)
  /\ excuses'[j] = excuses[j] \cup
       (IF Kicks(t) /\ t.new.tier = "speechkit" /\ Advancing(j) # {}
        THEN {"concurrent"} ELSE {})

TurnWorks(h, j) ==
  \A o \in Handler : /\ Works(o, j)' <=> Works(o, j) \/ o = h
                     /\ Commits(o, j)' <=> Commits(o, j) \/ o = h

TurnAdvances(h, t, j) ==
  /\ h \notin Advancing(j)
  /\ Advancing(j)' = Advancing(j) \cup
                          (IF t.new.tried # t.loaded.tried THEN {h} ELSE {})

TurnFacts(h, t, j) ==
  /\ tx'[h] = t /\ \A o \in Handler : o # h => tx'[o] = tx[o]
  /\ row'[j] = row[j]
  /\ TurnKicks(t, j) /\ TurnWorks(h, j) /\ TurnAdvances(h, t, j)

\* Such a step touches the session and the job.
LEMMA TurnChanges ==
  ASSUME TypeOK, NEW h \in Handler, NEW t \in Tx, Turn(h, t), NEW j \in Job, t.job = j
  PROVE  TurnFacts(h, t, j)
<1>1. t.at = "ready"
  BY DEF Turn
<1>2. tx'[h] = t /\ \A o \in Handler : o # h => tx'[o] = tx[o]
  BY DEF Turn, TypeOK
<1>3. row'[j] = row[j]
  BY DEF Turn
<1>4. msgs[j] \in [TaskTier -> Nat] /\ paid[j] \in Nat /\ DOMAIN paid = Job
      /\ DOMAIN msgs = Job /\ DOMAIN excuses = Job
  BY <1>1 DEF TypeOK
<1>5. \A u \in TaskTier : msgs'[j][u] = msgs[j][u] + (IF Kicks(t) /\ t.new.tier = u THEN 1 ELSE 0)
  <2>1. CASE Kicks(t)
    <3>1. t.new.tier \in TaskTier /\ msgs' = [msgs EXCEPT ![j][t.new.tier] = @ + 1]
      BY <2>1 DEF Kicks, ForTask, Turn, Kicked
    <3> QED
      BY <1>1, <1>4, <2>1, <3>1
  <2>2. CASE ~Kicks(t)
    <3>1. msgs' = msgs
      BY <2>2 DEF Kicks, Turn, Kicked
    <3> QED
      BY <1>4, <2>2, <3>1
  <2> QED
    BY <2>1, <2>2
<1>6. /\ paid'[j] = paid[j] + (IF Kicks(t) /\ t.new.tier = "speechkit" THEN 1 ELSE 0)
      /\ excuses'[j] = excuses[j] \cup
           (IF Kicks(t) /\ t.new.tier = "speechkit" /\ Advancing(j) # {}
            THEN {"concurrent"} ELSE {})
  <2>1. CASE Kicks(t) /\ t.new.tier = "speechkit"
    <3>1. /\ paid' = [paid EXCEPT ![j] = @ + 1]
          /\ Excused(j, IF Advancing(j) # {} THEN {"concurrent"} ELSE {})
      BY <2>1 DEF Kicks, Turn, Kicked
    <3> QED
      BY <1>1, <1>4, <2>1, <3>1 DEF Excused
  <2>2. CASE ~(Kicks(t) /\ t.new.tier = "speechkit")
    <3>1. paid' = paid /\ excuses' = excuses
      BY <2>2 DEF Kicks, Turn, Kicked
    <3> QED
      BY <1>4, <2>2, <3>1
  <2> QED
    BY <2>1, <2>2
<1>7. At(h, "idle") \/ (At(h, "working") /\ tx[h].job = j)
  BY DEF Turn
<1>8. h \notin Advancing(j)
  BY <1>7 DEF Advancing, At
<1>9. Advancing(j)' = Advancing(j) \cup (IF t.new.tried # t.loaded.tried THEN {h} ELSE {})
  <2>1. \A o \in Handler :
          /\ o \in Advancing(j)' <=> /\ tx'[o].at = "ready" /\ tx'[o].job = j
                                     /\ tx'[o].new.tried # tx'[o].loaded.tried
          /\ o \in Advancing(j) <=> /\ tx[o].at = "ready" /\ tx[o].job = j
                                    /\ tx[o].new.tried # tx[o].loaded.tried
    BY DEF Advancing, At
  <2>2. Advancing(j)' \subseteq Handler /\ Advancing(j) \subseteq Handler
    BY DEF Advancing
  <2>3. \A o \in Handler : o # h => (o \in Advancing(j)' <=> o \in Advancing(j))
    BY <1>2, <2>1
  <2>4. h \in Advancing(j)' <=> t.new.tried # t.loaded.tried
    BY <1>1, <1>2, <2>1
  <2> QED
    BY <1>8, <2>2, <2>3, <2>4
<1>10. TurnWorks(h, j)
  BY <1>1, <1>2, <1>7 DEF TurnWorks, Works, Commits, At
<1>11. TurnKicks(t, j)
  BY <1>5, <1>6, Zenon DEF TurnKicks
<1>12. TurnAdvances(h, t, j)
  BY <1>8, <1>9, Zenon DEF TurnAdvances
<1> QED
  BY <1>2, <1>3, <1>10, <1>11, <1>12 DEF TurnFacts

\* It leaves other jobs alone.
LEMMA TurnOthers ==
  ASSUME TypeOK, NEW h \in Handler, NEW t \in Tx, Turn(h, t), NEW j \in Job, j # t.job
  PROVE  Untouched(j)
<1>1. ~Works(h, j)
  BY DEF Turn, Works, At
<1>2. row'[j] = row[j] /\ msgs'[j] = msgs[j] /\ paid'[j] = paid[j] /\ excuses'[j] = excuses[j]
  BY DEF Turn, Kicked, Excused, TypeOK
<1>3. tx' = [tx EXCEPT ![h] = t]
  BY DEF Turn
<1> QED
  BY <1>1, <1>2, <1>3, OthersUntouched

\* The row such a session found was there, unless it will insert it.
LEMMA TurnPresent ==
  ASSUME Sessions, NEW h \in Handler, NEW t \in Tx, Turn(h, t), NEW j \in Job, t.job = j,
         TurnFacts(h, t, j), Present(j)
  PROVE  Present(j)'
<1>1. row'[j] = row[j] /\ t.at = "ready" /\ tx'[h] = t
  BY DEF TurnFacts, Turn
<1>2. ASSUME NEW o \in Handler, o # h
      PROVE  tx'[o] = tx[o]
  BY <1>2 DEF TurnFacts
<1>3. \A o \in Handler : Works(o, j) => Works(o, j)'
  BY DEF TurnFacts, TurnWorks
<1>4. CASE t.kind = "start"
  <2>1. At(h, "idle") /\ row[j].status = "absent" /\ \A o \in Handler : ~Works(o, j)
    BY <1>4 DEF Turn, Sessions, TaskTier, At
  <2>2. \A u \in TaskTier : msgs[j][u] = 0
    BY <1>4, <2>1 DEF Turn, At
  <2>3. t.new.tried = t.loaded.tried => \A u \in TaskTier : msgs'[j][u] = 0
    BY <2>2 DEF TurnFacts, TurnKicks, Kicks
  <2>4. \A o \in Handler : o # h => ~(tx'[o].at # "idle" /\ tx'[o].job = j)
    BY <1>2, <2>1 DEF Works, At
  <2> QED
    BY <1>1, <1>4, <2>1, <2>3, <2>4 DEF Present, Commits, At
<1>5. CASE t.kind # "start"
  <2>1. row[j].status # "absent"
    BY <1>5 DEF Turn, Writes, Present
  <2> QED
    BY <1>1, <1>2, <1>5, <2>1 DEF Present, Commits, At
<1> QED
  BY <1>4, <1>5

\* It found what the row or an earlier reading of it holds.
LEMMA TurnPaired ==
  ASSUME NEW h \in Handler, NEW t \in Tx, Turn(h, t), NEW j \in Job, t.job = j,
         TurnFacts(h, t, j), Paired(j), OwnerKept(j)
  PROVE  Paired(j)' /\ OwnerKept(j)'
<1>1. row'[j] = row[j] /\ tx'[h] = t /\ \A o \in Handler : o # h => tx'[o] = tx[o]
  BY DEF TurnFacts
<1>2. t.loaded = row[j] \/ (Works(h, j) /\ t.loaded = tx[h].loaded)
  BY DEF Turn, Works, At
<1>3. "revived" \in excuses[j] => "revived" \in excuses'[j]
  BY DEF TurnFacts, TurnKicks
<1>4. ASSUME NEW o \in Handler, Works(o, j)'
      PROVE  tx'[o].loaded = row[j] \/ (Works(o, j) /\ tx'[o].loaded = tx[o].loaded)
  <2>1. CASE o = h
    BY <1>1, <1>2, <2>1
  <2>2. CASE o # h
    BY <1>1, <1>4, <2>2 DEF TurnFacts, TurnWorks
  <2> QED
    BY <2>1, <2>2
<1>5. Paired(j)'
  BY <1>1, <1>4 DEF Paired
<1>6. OwnerKept(j)'
  BY <1>1, <1>3, <1>4 DEF OwnerKept
<1> QED
  BY <1>5, <1>6

\* The task that is kicked is there until one that is too early takes it.
LEMMA TurnTask ==
  ASSUME TypeOK, Sessions, NEW h \in Handler, NEW t \in Tx, Turn(h, t),
         NEW j \in Job, t.job = j, TurnFacts(h, t, j), Present(j), TaskKept(j)
  PROVE  TaskKept(j)'
<1>1. row'[j] = row[j] /\ tx'[h] = t /\ \A o \in Handler : o # h => tx'[o] = tx[o]
  BY DEF TurnFacts
<1>2. \A u \in TaskTier : msgs[j][u] \in Nat /\ (msgs[j][u] > 0 => msgs'[j][u] > 0)
  <2>1. \A u \in TaskTier : msgs[j][u] \in Nat
    BY DEF TypeOK
  <2> QED
    BY <2>1 DEF TurnFacts, TurnKicks
<1>3. \A e \in Executor : e \in Handler
  BY DEF Handler
<1> SUFFICES ASSUME excuses'[j] \cap TaskExcuses = {}
             PROVE  /\ row[j].status = "running" => row[j].tier = "remote"
                    /\ ForTask(row[j]) =>
                         msgs'[j][row[j].tier] > 0 \/ \E e \in Executor : Works(e, j)'
                    /\ \A o \in Advancing(j)' :
                         ForTask(tx'[o].new) => msgs'[j][tx'[o].new.tier] > 0
                    /\ \A e \in Executor :
                         tx'[e].at = "working" /\ tx'[e].job = j /\ ~tx'[e].seen =>
                           row[j].status = "absent" /\ \A o \in Handler : ~Commits(o, j)'
  BY <1>1 DEF TaskKept, ForTask, At
<1>4. excuses[j] \cap TaskExcuses = {}
  BY DEF TurnFacts, TurnKicks
<1>5. row[j].status = "running" => row[j].tier = "remote"
  BY <1>4 DEF TaskKept
<1>6. ForTask(row[j]) => msgs'[j][row[j].tier] > 0 \/ \E e \in Executor : Works(e, j)'
  <2>1. ForTask(row[j]) => msgs[j][row[j].tier] > 0 \/ \E e \in Executor : Works(e, j)
    BY <1>4 DEF TaskKept
  <2>2. \A e \in Executor : Works(e, j) => Works(e, j)'
    BY <1>3 DEF TurnFacts, TurnWorks
  <2> QED
    BY <1>2, <2>1, <2>2 DEF ForTask
<1>7. ASSUME NEW o \in Advancing(j)', ForTask(tx'[o].new)
      PROVE  msgs'[j][tx'[o].new.tier] > 0
  <2>1. CASE o \in Advancing(j)
    <3>1. o # h /\ o \in Handler
      BY <2>1 DEF TurnFacts, TurnAdvances, Advancing
    <3>2. tx'[o] = tx[o] /\ tx[o].new.tier \in TaskTier
      BY <1>1, <1>7, <3>1 DEF ForTask
    <3>3. msgs[j][tx[o].new.tier] > 0
      BY <1>4, <1>7, <2>1, <3>2 DEF TaskKept
    <3> QED
      BY <1>2, <3>2, <3>3
  <2>2. CASE o \notin Advancing(j)
    <3>1. o = h /\ t.new.tried # t.loaded.tried
      BY <2>2 DEF TurnFacts, TurnAdvances
    <3>2. Kicks(t) /\ t.new.tier \in TaskTier
      BY <1>1, <1>7, <3>1 DEF Kicks, ForTask
    <3>3. msgs'[j][t.new.tier] = msgs[j][t.new.tier] + 1
      BY <3>2 DEF TurnFacts, TurnKicks
    <3> QED
      BY <1>1, <1>2, <3>1, <3>2, <3>3
  <2> QED
    BY <2>1, <2>2
<1>8. ASSUME NEW e \in Executor, tx'[e].at = "working", tx'[e].job = j, ~tx'[e].seen
      PROVE  row[j].status = "absent" /\ \A o \in Handler : ~Commits(o, j)'
  <2>1. e # h /\ tx'[e] = tx[e]
    BY <1>1, <1>3, <1>8 DEF Turn
  <2>2. row[j].status = "absent" /\ \A o \in Handler : ~Commits(o, j)
    BY <1>4, <1>8, <2>1 DEF TaskKept, At
  <2>3. Works(e, j) /\ e \in Handler
    BY <1>3, <1>8, <2>1 DEF Works, At
  <2>4. t.kind = "start"
    BY <2>2 DEF Turn, Writes, Present
  <2>5. FALSE
    BY <2>3, <2>4 DEF Turn, Sessions, TaskTier, At
  <2> QED
    BY <2>5
<1> QED
  BY <1>5, <1>6, <1>7, <1>8

\* A session of an executor was at work on the job already.
LEMMA TurnExecutors ==
  ASSUME NEW h \in Handler, NEW t \in Tx, Turn(h, t), NEW j \in Job, t.job = j,
         TurnFacts(h, t, j)
  PROVE  \A e \in Executor :
           /\ Works(e, j)' <=> Works(e, j)
           /\ (tx'[e].at = "working" /\ tx'[e].job = j) =>
                At(e, "working") /\ tx[e].job = j /\ tx'[e] = tx[e]
<1> SUFFICES ASSUME NEW e \in Executor
             PROVE  /\ Works(e, j)' <=> Works(e, j)
                    /\ (tx'[e].at = "working" /\ tx'[e].job = j) =>
                         At(e, "working") /\ tx[e].job = j /\ tx'[e] = tx[e]
  OBVIOUS
<1>1. e \in Handler
  BY DEF Handler
<1>2. CASE e = h
  BY <1>1, <1>2 DEF Turn, TurnFacts, TurnWorks, Works, At
<1>3. CASE e # h
  BY <1>1, <1>3 DEF TurnFacts, TurnWorks, At
<1> QED
  BY <1>2, <1>3

\* A session that leaves the tier as it is leaves the tasks as they are.
LEMMA TurnStays ==
  ASSUME TypeOK, NEW h \in Handler, NEW t \in Tx, Turn(h, t), NEW j \in Job, t.job = j,
         TurnFacts(h, t, j), PaidKept(j), t.new.tried = t.loaded.tried,
         excuses'[j] \cap PaidExcuses = {}
  PROVE  /\ paid'[j] = paid[j] /\ Advancing(j)' = Advancing(j)
         /\ Advancing(j)' = {} => OneTask(j)'
         /\ \A o \in Handler :
              (Advancing(j)' = {o} /\ tx'[o].loaded.tried = row'[j].tried) => OnlyOf(o, j)'
<1>1. excuses[j] \cap PaidExcuses = {}
  BY DEF TurnFacts, TurnKicks
<1>2. ~Kicks(t)
  BY DEF Kicks
<1>3. /\ \A u \in TaskTier : msgs'[j][u] = msgs[j][u]
      /\ paid'[j] = paid[j] /\ row'[j] = row[j]
      /\ \A o \in Handler : o # h => tx'[o] = tx[o]
  <2>1. \A u \in TaskTier : msgs[j][u] \in Nat
    BY DEF TypeOK
  <2>2. paid[j] \in Nat
    BY DEF TypeOK
  <2> QED
    BY <1>2, <2>1, <2>2 DEF TurnFacts, TurnKicks
<1>4. Advancing(j)' = Advancing(j) /\ h \notin Advancing(j)
  BY DEF TurnFacts, TurnAdvances
<1>5. \A e \in Executor : /\ Works(e, j)' <=> Works(e, j)
                          /\ (tx'[e].at = "working" /\ tx'[e].job = j) =>
                               At(e, "working") /\ tx[e].job = j /\ tx'[e] = tx[e]
  BY TurnExecutors
<1>6. OneTask(j) => OneTask(j)'
  BY <1>3, <1>5 DEF OneTask, HasTasks, At
<1>7. ASSUME NEW o \in Handler, o # h, OnlyOf(o, j) PROVE OnlyOf(o, j)'
  BY <1>3, <1>5, <1>7 DEF OnlyOf, ForTask
<1>8. ASSUME NEW o \in Handler, Advancing(j)' = {o}, tx'[o].loaded.tried = row'[j].tried
      PROVE  OnlyOf(o, j)'
  <2>1. o # h
    BY <1>4, <1>8
  <2>2. Advancing(j) = {o} /\ tx[o].loaded.tried = row[j].tried
    BY <1>3, <1>4, <1>8, <2>1
  <2>3. OnlyOf(o, j)
    BY <1>1, <2>2 DEF PaidKept
  <2> QED
    BY <1>7, <2>1, <2>3
<1>9. Advancing(j)' = {} => OneTask(j)'
  BY <1>1, <1>4, <1>6 DEF PaidKept
<1> QED
  BY <1>3, <1>4, <1>8, <1>9

\* While no session is about to move the job, one that comes to do so finds its own
\* task, or the remote worker's job, and no other task.
LEMMA TurnAlone ==
  ASSUME TypeOK, Sessions, NEW h \in Handler, NEW t \in Tx, Turn(h, t), NEW j \in Job, t.job = j,
         TurnFacts(h, t, j), t.new.tried # t.loaded.tried, OneTask(j)
  PROVE  t.loaded.tried = row[j].tried /\ OnlyOf(h, j)'
<1>1. \A u \in TaskTier : msgs[j][u] \in Nat
  BY DEF TypeOK
<1>2. \A e \in Executor : Works(e, j)' <=> Works(e, j)
  BY TurnExecutors
<1>3. t.loaded.tried = row[j].tried
  BY DEF Turn, OneTask
<1>4. /\ \A u \in TaskTier : msgs[j][u] = 0
      /\ \A e \in Executor : Works(e, j) => e = h
  <2>1. CASE At(h, "idle") /\ t.kind # "start"
    <3>1. row[j].worker # None \/ row[j].status = "running"
      BY <2>1 DEF Turn, At
    <3>2. ~HasTasks(j)
      BY <3>1 DEF OneTask
    <3> QED
      BY <1>1, <3>2 DEF HasTasks
  <2>2. CASE At(h, "idle") /\ t.kind = "start"
    <3>1. (\A o \in Handler : ~Works(o, j)) /\ \A u \in TaskTier : msgs[j][u] = 0
      BY <2>2 DEF Turn, At
    <3> QED
      BY <3>1 DEF Handler
  <2>3. CASE ~At(h, "idle")
    <3>1. h \in Executor /\ Works(h, j)
      BY <2>3 DEF Turn, Works
    <3> QED
      BY <3>1 DEF OneTask
  <2> QED
    BY <2>1, <2>2, <2>3
<1>5. \A u \in TaskTier :
        msgs'[j][u] = IF ForTask(tx'[h].new) /\ tx'[h].new.tier = u THEN 1 ELSE 0
  BY <1>4 DEF TurnFacts, TurnKicks, Kicks
<1>6. \A e \in Executor : Works(e, j)' => e = h
  BY <1>2, <1>4
<1>7. OnlyOf(h, j)'
  BY <1>5, <1>6 DEF OnlyOf, ForTask
<1> QED
  BY <1>3, <1>7

\* The paid task is not kicked again: the tier was tried, or the session is not alone.
LEMMA TurnPaid ==
  ASSUME TypeOK, Sessions, NEW h \in Handler, NEW t \in Tx, Turn(h, t), NEW j \in Job, t.job = j,
         TurnFacts(h, t, j), PaidKept(j)
  PROVE  PaidKept(j)'
<1> SUFFICES ASSUME excuses'[j] \cap PaidExcuses = {}
             PROVE  /\ paid'[j] <= 1
                    /\ paid'[j] = 1 =>
                         \/ "speechkit" \in row'[j].tried
                         \/ \E o \in Advancing(j)' : "speechkit" \in tx'[o].new.tried
                    /\ \A o \in Handler : Works(o, j)' => tx'[o].loaded.tried \subseteq row'[j].tried
                    /\ Advancing(j)' = {} => OneTask(j)'
                    /\ \A o \in Handler :
                         (Advancing(j)' = {o} /\ tx'[o].loaded.tried = row'[j].tried) =>
                           OnlyOf(o, j)'
  BY DEF PaidKept
<1>1. excuses[j] \cap PaidExcuses = {}
  BY DEF TurnFacts, TurnKicks
<1>2. /\ row'[j] = row[j] /\ tx'[h] = t /\ \A o \in Handler : o # h => tx'[o] = tx[o]
      /\ paid[j] \in Nat
  BY DEF TurnFacts, TypeOK
<1>3. /\ paid[j] <= 1
      /\ paid[j] = 1 => \/ "speechkit" \in row[j].tried
                        \/ \E o \in Advancing(j) : "speechkit" \in tx[o].new.tried
      /\ \A o \in Handler : Works(o, j) => tx[o].loaded.tried \subseteq row[j].tried
  BY <1>1 DEF PaidKept
<1>4. \A o \in Handler : Works(o, j)' => tx'[o].loaded.tried \subseteq row'[j].tried
  <2>1. t.loaded.tried \subseteq row[j].tried
    BY <1>3 DEF Turn, Works, At
  <2> QED
    BY <1>2, <1>3, <2>1 DEF TurnFacts, TurnWorks
<1>5. \A o \in Advancing(j) : o \in Advancing(j)' /\ tx'[o] = tx[o]
  <2>1. \A o \in Advancing(j) : o \in Handler /\ o # h
    BY DEF TurnFacts, TurnAdvances, Advancing
  <2> QED
    BY <1>2, <2>1 DEF TurnFacts, TurnAdvances
<1>6. CASE t.new.tried = t.loaded.tried
  <2>1. /\ paid'[j] = paid[j] /\ Advancing(j)' = Advancing(j)
        /\ Advancing(j)' = {} => OneTask(j)'
        /\ \A o \in Handler :
             (Advancing(j)' = {o} /\ tx'[o].loaded.tried = row'[j].tried) => OnlyOf(o, j)'
    BY <1>6, TurnStays
  <2> QED
    BY <1>2, <1>3, <1>4, <1>5, <2>1
<1>7. CASE t.new.tried # t.loaded.tried
  <2>1. Advancing(j)' = Advancing(j) \cup {h} /\ h \notin Advancing(j)
    BY <1>7 DEF TurnFacts, TurnAdvances
  <2>2. Advancing(j) = {} => t.loaded.tried = row[j].tried /\ OnlyOf(h, j)'
    BY <1>1, <1>7, TurnAlone DEF PaidKept
  <2>3. \A o \in Handler :
          (Advancing(j)' = {o} /\ tx'[o].loaded.tried = row'[j].tried) => OnlyOf(o, j)'
    BY <2>1, <2>2
  <2>4. /\ paid'[j] <= 1
        /\ paid'[j] = 1 => \/ "speechkit" \in row'[j].tried
                           \/ \E o \in Advancing(j)' : "speechkit" \in tx'[o].new.tried
    <3>1. CASE Kicks(t) /\ t.new.tier = "speechkit"
      <4>1. Advancing(j) = {} /\ paid'[j] = paid[j] + 1
        BY <3>1 DEF TurnFacts, TurnKicks, PaidExcuses
      <4>2. "speechkit" \in t.new.tried \ t.loaded.tried
        BY <3>1 DEF Kicks, ForTask, Turn, Writes, Rewrites
      <4>3. paid[j] # 1
        BY <1>3, <2>2, <4>1, <4>2
      <4> QED
        BY <1>2, <1>3, <2>1, <4>1, <4>2, <4>3
    <3>2. CASE ~(Kicks(t) /\ t.new.tier = "speechkit")
      <4>1. paid'[j] = paid[j]
        BY <1>2, <3>2 DEF TurnFacts, TurnKicks
      <4> QED
        BY <1>2, <1>3, <1>5, <4>1
    <3> QED
      BY <3>1, <3>2
  <2> QED
    BY <1>4, <2>1, <2>3, <2>4
<1> QED
  BY <1>6, <1>7

\* So a session that comes to its commit leaves every job sound.
LEMMA TurnSound ==
  ASSUME IInv, NEW h \in Handler, NEW t \in Tx, Turn(h, t), NEW j \in Job
  PROVE  JobSound(j)'
<1>1. CASE j = t.job
  <2>1. TurnFacts(h, t, j)
    BY <1>1, TurnChanges DEF IInv
  <2> QED
    BY <1>1, <2>1, TurnPresent, TurnPaired, TurnTask, TurnPaid DEF IInv, JobSound
<1>2. CASE j # t.job
  BY <1>2, TurnOthers, UntouchedSound DEF IInv
<1> QED
  BY <1>1, <1>2

----------------------------------------------------------------------------
(* A session ends.                                                         *)

\* What the end of a session, with or without a commit, does to sessions and tasks.
EndFacts(h, j) ==
  /\ \A o \in Handler : o # h => tx'[o] = tx[o]
  /\ \A o \in Handler : /\ Works(o, j)' <=> Works(o, j) /\ o # h
                        /\ Commits(o, j)' <=> Commits(o, j) /\ o # h
  /\ Advancing(j)' = Advancing(j) \ {h}
  /\ msgs'[j] = msgs[j] /\ paid'[j] = paid[j]

\* The session that ends is no longer at work on anything.
LEMMA EndChanges ==
  ASSUME TypeOK, NEW h \in Handler, End(h), msgs' = msgs, paid' = paid, NEW j \in Job
  PROVE  EndFacts(h, j)
<1>1. tx'[h] = NoTx /\ (\A o \in Handler : o # h => tx'[o] = tx[o]) /\ NoTx.at = "idle"
  BY DEF End, TypeOK, NoTx
<1>2. \A o \in Handler : /\ Works(o, j)' <=> Works(o, j) /\ o # h
                         /\ Commits(o, j)' <=> Commits(o, j) /\ o # h
  BY <1>1 DEF Works, Commits, At
<1>3. \A o \in Handler : o \in Advancing(j)' <=> o \in Advancing(j) /\ o # h
  BY <1>1 DEF Advancing, At
<1>4. Advancing(j)' \subseteq Handler /\ Advancing(j) \subseteq Handler
  BY DEF Advancing
<1>5. Advancing(j)' = Advancing(j) \ {h}
  BY <1>3, <1>4
<1> QED
  BY <1>1, <1>2, <1>5 DEF EndFacts

\* The jobs of other sessions are as before.
LEMMA EndOthers ==
  ASSUME TypeOK, NEW h \in Handler, End(h), NEW j \in Job, ~Works(h, j),
         row'[j] = row[j], msgs' = msgs, paid' = paid, excuses'[j] = excuses[j]
  PROVE  Untouched(j)
<1>1. tx' = [tx EXCEPT ![h] = NoTx] /\ NoTx.at = "idle"
  BY DEF End, NoTx
<1> QED
  BY <1>1, OthersUntouched

\* A session that ends without a commit leaves a job as it is.
LEMMA EndedJob ==
  ASSUME TypeOK, NEW h \in Handler, Ended(h), NEW j \in Job, Works(h, j), EndFacts(h, j),
         Present(j), Paired(j), OwnerKept(j)
  PROVE  Present(j)' /\ Paired(j)' /\ OwnerKept(j)'
<1>1. row'[j] = row[j] /\ msgs'[j] = msgs[j]
  BY DEF Ended
<1>2. \A o \in Handler : Works(o, j)' => Works(o, j) /\ o # h /\ tx'[o] = tx[o]
  BY DEF EndFacts
<1>3. \A o \in Handler : Commits(o, j)' <=> Commits(o, j) /\ o # h
  BY DEF EndFacts
<1>4. \A o \in Handler : tx'[o].at = "working" /\ tx'[o].job = j => Works(o, j)'
  BY DEF Works, At
<1>5. \A o \in Handler : Commits(o, j)' => Works(o, j)'
  BY DEF Works, Commits, At
<1>6. "revived" \in excuses[j] => "revived" \in excuses'[j]
  BY DEF Ended, Excused, TypeOK
<1>7. Present(j)'
  BY <1>1, <1>2, <1>3, <1>4, <1>5 DEF Present, At
<1>8. Paired(j)'
  BY <1>1, <1>2 DEF Paired
<1>9. OwnerKept(j)'
  BY <1>1, <1>2, <1>6 DEF OwnerKept
<1> QED
  BY <1>7, <1>8, <1>9

\* Only a task that found no row ends without an excuse.
LEMMA EndedWhy ==
  ASSUME TypeOK, NEW h \in Handler, Ended(h), NEW j \in Job, Works(h, j)
  PROVE  /\ excuses[j] \subseteq excuses'[j]
         /\ \/ At(h, "working") /\ ~tx[h].seen /\ h \in Executor
            \/ h \notin Executor /\ "rollback" \in excuses'[j]
            \/ h \in Executor /\ "crash" \in excuses'[j]
            \/ At(h, "working") /\ h \in Executor /\ "return" \in excuses'[j]
<1>1. tx[h].job = j /\ DOMAIN excuses = Job
  BY DEF Works, TypeOK
<1>2. CASE At(h, "working") /\ ~tx[h].seen /\ h \in Executor /\ excuses' = excuses
  BY <1>2
<1>3. CASE h \notin Executor /\ Excused(tx[h].job, {"rollback"})
  BY <1>1, <1>3 DEF Excused
<1>4. CASE h \in Executor /\ Excused(tx[h].job, {"crash"})
  BY <1>1, <1>4 DEF Excused
<1>5. CASE At(h, "working") /\ h \in Executor /\ Excused(tx[h].job, {"return"})
  BY <1>1, <1>5 DEF Excused
<1> QED
  BY <1>2, <1>3, <1>4, <1>5 DEF Ended

\* A task that goes without moving its job on leaves it to nobody, unless it had
\* not found the job.
LEMMA EndedTask ==
  ASSUME TypeOK, NEW h \in Handler, Ended(h), NEW j \in Job, Works(h, j), EndFacts(h, j),
         TaskKept(j)
  PROVE  TaskKept(j)'
<1>1. row'[j] = row[j] /\ msgs'[j] = msgs[j] /\ \A e \in Executor : e \in Handler
  BY DEF Ended, Handler
<1> SUFFICES ASSUME excuses'[j] \cap TaskExcuses = {}
             PROVE  /\ row[j].status = "running" => row[j].tier = "remote"
                    /\ ForTask(row[j]) =>
                         msgs[j][row[j].tier] > 0 \/ \E e \in Executor : Works(e, j)'
                    /\ \A o \in Advancing(j)' :
                         ForTask(tx'[o].new) => msgs[j][tx'[o].new.tier] > 0
                    /\ \A e \in Executor :
                         tx'[e].at = "working" /\ tx'[e].job = j /\ ~tx'[e].seen =>
                           row[j].status = "absent" /\ \A o \in Handler : ~Commits(o, j)'
  BY <1>1 DEF TaskKept, ForTask, At
<1>2. /\ excuses[j] \cap TaskExcuses = {}
      /\ (At(h, "working") /\ ~tx[h].seen /\ h \in Executor) \/ h \notin Executor
  BY EndedWhy DEF TaskExcuses
<1>3. ForTask(row[j]) => msgs[j][row[j].tier] > 0 \/ \E e \in Executor : Works(e, j)'
  <2>1. CASE h \notin Executor
    BY <1>1, <1>2, <2>1 DEF TaskKept, EndFacts
  <2>2. CASE At(h, "working") /\ ~tx[h].seen /\ h \in Executor
    BY <1>2, <2>2 DEF TaskKept, ForTask, Works
  <2> QED
    BY <1>2, <2>1, <2>2
<1>4. \A o \in Advancing(j)' : o \in Advancing(j) /\ tx'[o] = tx[o]
  BY DEF EndFacts, Advancing
<1>5. ASSUME NEW e \in Executor, tx'[e].at = "working", tx'[e].job = j, ~tx'[e].seen
      PROVE  row[j].status = "absent" /\ \A o \in Handler : ~Commits(o, j)'
  <2>1. Works(e, j)'
    BY <1>5 DEF Works, At
  <2>2. tx'[e] = tx[e]
    BY <1>1, <2>1 DEF EndFacts
  <2> QED
    BY <1>2, <1>5, <2>2 DEF TaskKept, EndFacts, At
<1> QED
  BY <1>2, <1>3, <1>4, <1>5 DEF TaskKept

\* The tasks that are left are as many as before, or fewer.
LEMMA EndOneTask ==
  ASSUME NEW h \in Handler, NEW j \in Job, EndFacts(h, j), OneTask(j),
         row'[j].tried = row[j].tried,
         HasTasks(j) => /\ row'[j].worker = None /\ row'[j].status # "running"
                        /\ row'[j].status = "queued" => row'[j].tier # "remote"
  PROVE  OneTask(j)'
<1>1. \A e \in Executor : Works(e, j)' => Works(e, j) /\ tx'[e] = tx[e]
  BY DEF EndFacts, Handler
<1>2. \A e \in Executor : tx'[e].at = "working" /\ tx'[e].job = j => Works(e, j)'
  BY DEF Works, At
<1>3. msgs'[j] = msgs[j]
  BY DEF EndFacts
<1>4. HasTasks(j)' => HasTasks(j)
  BY <1>1, <1>3 DEF HasTasks
<1> QED
  BY <1>1, <1>2, <1>3, <1>4 DEF OneTask, At

\* A session that is left kicked the only task there is, as before.
LEMMA EndOnlyOf ==
  ASSUME NEW h \in Handler, NEW j \in Job, EndFacts(h, j), NEW o \in Handler, o # h, OnlyOf(o, j)
  PROVE  OnlyOf(o, j)'
<1>1. \A e \in Executor : Works(e, j)' => Works(e, j)
  BY DEF EndFacts, Handler
<1>2. msgs'[j] = msgs[j] /\ tx'[o] = tx[o]
  BY DEF EndFacts
<1> QED
  BY <1>1, <1>2 DEF OnlyOf, ForTask

\* A session that kicked a task and ends without a commit is an excuse.
LEMMA EndedPaid ==
  ASSUME TypeOK, NEW h \in Handler, Ended(h), NEW j \in Job, Works(h, j), EndFacts(h, j),
         PaidKept(j)
  PROVE  PaidKept(j)'
<1>1. row'[j] = row[j] /\ msgs'[j] = msgs[j] /\ paid'[j] = paid[j]
  BY DEF Ended
<1> SUFFICES ASSUME excuses'[j] \cap PaidExcuses = {} PROVE PaidKept(j)'
  BY DEF PaidKept
<1>2. excuses[j] \cap PaidExcuses = {} /\ At(h, "working")
  BY EndedWhy DEF PaidExcuses
<1>3. h \notin Advancing(j) /\ Advancing(j)' = Advancing(j)
  BY <1>2 DEF Advancing, EndFacts, At
<1>4. \A o \in Advancing(j) : o \in Handler /\ tx'[o] = tx[o]
  BY <1>3 DEF EndFacts, Advancing
<1>5. \A o \in Handler : Works(o, j)' => Works(o, j) /\ tx'[o] = tx[o]
  BY DEF EndFacts
<1>6. OneTask(j) => OneTask(j)'
  BY <1>1, EndOneTask DEF OneTask
<1>7. \A o \in Handler : o # h /\ OnlyOf(o, j) => OnlyOf(o, j)'
  BY EndOnlyOf
<1> QED
  BY <1>1, <1>2, <1>3, <1>4, <1>5, <1>6, <1>7 DEF PaidKept

\* So a session that ends leaves every job sound.
LEMMA EndedSound ==
  ASSUME IInv, NEW h \in Handler, Ended(h), NEW j \in Job
  PROVE  JobSound(j)'
<1>1. CASE Works(h, j)
  <2>1. EndFacts(h, j)
    BY EndChanges DEF IInv, Ended
  <2> QED
    BY <1>1, <2>1, EndedJob, EndedTask, EndedPaid DEF IInv, JobSound
<1>2. CASE ~Works(h, j)
  <2>1. tx[h].job # j
    BY <1>2 DEF Works, Ended
  <2>2. excuses'[j] = excuses[j]
    BY <2>1 DEF Ended, Excused, IInv, TypeOK
  <2>3. row' = row /\ msgs' = msgs /\ paid' = paid /\ End(h)
    BY DEF Ended
  <2> QED
    BY <1>2, <2>2, <2>3, EndOthers, UntouchedSound DEF IInv
<1> QED
  BY <1>1, <1>2

----------------------------------------------------------------------------
(* A task is received.                                                     *)

\* What the receipt of a task changes.
ReceiveFacts(e, j, u) ==
  /\ At(e, "idle") /\ e \in Executor /\ msgs[j][u] > 0
  /\ row'[j] = row[j] /\ paid'[j] = paid[j]
  /\ \A t \in TaskTier : msgs'[j][t] = IF t = u THEN msgs[j][t] - 1 ELSE msgs[j][t]
  /\ excuses'[j] = excuses[j] \cup (IF Advancing(j) # {} THEN {"early"} ELSE {})
  /\ /\ tx'[e].at = "working" /\ tx'[e].job = j /\ tx'[e].loaded = row[j]
     /\ tx'[e].seen <=> row[j].status # "absent"
  /\ \A o \in Handler : o # e => tx'[o] = tx[o]
  /\ \A o \in Handler : /\ Works(o, j)' <=> Works(o, j) \/ o = e
                        /\ Commits(o, j)' <=> Commits(o, j)
  /\ Advancing(j)' = Advancing(j)

\* The task is at work with the row as it is.
LEMMA ReceiveChanges ==
  ASSUME TypeOK, NEW e \in Executor, NEW j \in Job, NEW u \in TaskTier, Receive(e, j, u)
  PROVE  ReceiveFacts(e, j, u)
<1>1. e \in Handler /\ At(e, "idle") /\ msgs[j] \in [TaskTier -> Nat] /\ msgs[j][u] > 0
  BY DEF Handler, Receive, Delivered, TypeOK
<1>2. row'[j] = row[j] /\ paid'[j] = paid[j]
  BY DEF Receive
<1>3. \A t \in TaskTier : msgs'[j][t] = IF t = u THEN msgs[j][t] - 1 ELSE msgs[j][t]
  BY <1>1 DEF Receive, TypeOK
<1>4. excuses'[j] = excuses[j] \cup (IF Advancing(j) # {} THEN {"early"} ELSE {})
  BY DEF Receive, Excused, TypeOK
<1>5. /\ tx'[e].at = "working" /\ tx'[e].job = j /\ tx'[e].loaded = row[j]
      /\ tx'[e].seen <=> row[j].status # "absent"
      /\ \A o \in Handler : o # e => tx'[o] = tx[o]
  BY <1>1 DEF Receive, TypeOK
<1>6. \A o \in Handler : /\ Works(o, j)' <=> Works(o, j) \/ o = e
                         /\ Commits(o, j)' <=> Commits(o, j)
  BY <1>1, <1>5 DEF Works, Commits, At
<1>7. \A o \in Handler : o \in Advancing(j)' <=> o \in Advancing(j)
  BY <1>1, <1>5 DEF Advancing, At
<1>8. Advancing(j)' \subseteq Handler /\ Advancing(j) \subseteq Handler
  BY DEF Advancing
<1>9. Advancing(j)' = Advancing(j)
  BY <1>7, <1>8
<1> QED
  BY <1>1, <1>2, <1>3, <1>4, <1>5, <1>6, <1>9 DEF ReceiveFacts

\* The task found what the row holds.
LEMMA ReceiveJob ==
  ASSUME TypeOK, NEW e \in Handler, NEW j \in Job, NEW u \in TaskTier, ReceiveFacts(e, j, u),
         Present(j), Paired(j), OwnerKept(j)
  PROVE  Present(j)' /\ Paired(j)' /\ OwnerKept(j)'
<1>1. row'[j] = row[j] /\ excuses[j] \subseteq excuses'[j]
  BY DEF ReceiveFacts
<1>2. \A o \in Handler : Works(o, j)' => tx'[o].loaded = row[j]
                                         \/ (Works(o, j) /\ tx'[o].loaded = tx[o].loaded)
  BY DEF ReceiveFacts
<1>3. \A o \in Handler : Commits(o, j)' => Commits(o, j) /\ tx'[o] = tx[o]
  BY DEF ReceiveFacts, Commits, At
<1>4. ASSUME NEW o \in Handler, tx'[o].at = "working", tx'[o].job = j, tx'[o].seen
      PROVE  row[j].status # "absent"
  <2>1. CASE o = e
    BY <1>4, <2>1 DEF ReceiveFacts
  <2>2. CASE o # e
    <3>1. tx'[o] = tx[o]
      BY <2>2 DEF ReceiveFacts
    <3> QED
      BY <1>4, <3>1 DEF Present, At
  <2> QED
    BY <2>1, <2>2
<1>5. (\A t \in TaskTier : msgs[j][t] = 0) => FALSE
  BY DEF ReceiveFacts
<1>6. ASSUME NEW o \in Handler, Commits(o, j)', tx'[o].kind = "start"
      PROVE  /\ row[j].status = "absent" /\ \A p \in Handler : Commits(p, j)' => p = o
             /\ tx'[o].new.tried # tx'[o].loaded.tried
  <2>1. Commits(o, j) /\ tx'[o] = tx[o]
    BY <1>3, <1>6
  <2> QED
    BY <1>3, <1>5, <1>6, <2>1 DEF Present
<1>7. ASSUME NEW o \in Handler, Commits(o, j)', tx'[o].kind # "start"
      PROVE  row[j].status # "absent"
  BY <1>3, <1>7 DEF Present
<1>8. Present(j)'
  BY <1>1, <1>4, <1>6, <1>7 DEF Present, At
<1>9. Paired(j)'
  BY <1>1, <1>2 DEF Paired
<1>10. OwnerKept(j)'
  BY <1>1, <1>2 DEF OwnerKept
<1> QED
  BY <1>8, <1>9, <1>10

\* The job waits for a task in the list before and for one at work after.
LEMMA ReceiveTask ==
  ASSUME TypeOK, NEW e \in Handler, NEW j \in Job, NEW u \in TaskTier, ReceiveFacts(e, j, u),
         Present(j), TaskKept(j)
  PROVE  TaskKept(j)'
<1> SUFFICES ASSUME excuses'[j] \cap TaskExcuses = {} PROVE TaskKept(j)'
  BY DEF TaskKept
<1>1. /\ excuses[j] \cap TaskExcuses = {} /\ Advancing(j) = {} /\ Advancing(j)' = {}
      /\ row'[j] = row[j]
  BY DEF ReceiveFacts, TaskExcuses
<1>2. e \in Executor /\ Works(e, j)'
  BY DEF ReceiveFacts
<1>3. row[j].status = "running" => row[j].tier = "remote"
  BY <1>1 DEF TaskKept
<1>4. ASSUME NEW f \in Executor, tx'[f].at = "working", tx'[f].job = j, ~tx'[f].seen
      PROVE  row[j].status = "absent" /\ \A o \in Handler : ~Commits(o, j)
  <2>1. CASE f = e
    <3>1. row[j].status = "absent"
      BY <1>4, <2>1 DEF ReceiveFacts
    <3>2. \A o \in Handler : Commits(o, j) => o \in Advancing(j)
      <4>1. msgs[j][u] # 0
        BY DEF ReceiveFacts
      <4>2. \A o \in Handler : Commits(o, j) => tx[o].new.tried # tx[o].loaded.tried
        BY <3>1, <4>1 DEF Present
      <4> QED
        BY <4>2 DEF Advancing, Commits
    <3> QED
      BY <1>1, <3>1, <3>2
  <2>2. CASE f # e
    <3>1. tx'[f] = tx[f]
      BY <2>2 DEF ReceiveFacts, Handler
    <3> QED
      BY <1>1, <1>4, <3>1 DEF TaskKept, At
  <2> QED
    BY <2>1, <2>2
<1>5. \A o \in Handler : Commits(o, j)' <=> Commits(o, j)
  BY DEF ReceiveFacts
<1> QED
  BY <1>1, <1>2, <1>3, <1>4, <1>5 DEF TaskKept, At

\* The only task there is is now at work and not in the list.
LEMMA ReceivePaid ==
  ASSUME TypeOK, NEW e \in Handler, NEW j \in Job, NEW u \in TaskTier, ReceiveFacts(e, j, u),
         PaidKept(j)
  PROVE  PaidKept(j)'
<1> SUFFICES ASSUME excuses'[j] \cap PaidExcuses = {} PROVE PaidKept(j)'
  BY DEF PaidKept
<1>1. /\ excuses[j] \cap PaidExcuses = {} /\ Advancing(j) = {} /\ Advancing(j)' = {}
      /\ row'[j] = row[j] /\ paid'[j] = paid[j]
  BY DEF ReceiveFacts, PaidExcuses
<1>2. \A t \in TaskTier : msgs[j][t] \in Nat
  BY DEF TypeOK
<1>3. OneTask(j) /\ HasTasks(j)
  BY <1>1 DEF PaidKept, ReceiveFacts, HasTasks
<1>4. (\A f \in Executor : ~Works(f, j)) /\ msgs[j][u] = 1
  BY <1>2, <1>3 DEF OneTask, ReceiveFacts
<1>5. \A t \in TaskTier : msgs'[j][t] = 0
  <2>1. \A t \in TaskTier : t # u => msgs[j][t] = 0
    BY <1>2, <1>3, <1>4 DEF OneTask
  <2> QED
    BY <1>4, <2>1 DEF ReceiveFacts
<1>6. \A f \in Executor : Works(f, j)' => f = e
  BY <1>4 DEF ReceiveFacts, Handler
<1>7. \A f \in Executor : tx'[f].at = "working" /\ tx'[f].job = j => f = e
  BY <1>6 DEF Works, At
<1>8. tx'[e].loaded = row[j]
  BY DEF ReceiveFacts
<1>9. OneTask(j)'
  BY <1>1, <1>3, <1>5, <1>6, <1>7, <1>8 DEF OneTask, At
<1>10. \A o \in Handler : Works(o, j)' => tx'[o].loaded.tried \subseteq row[j].tried
  BY <1>1 DEF ReceiveFacts, PaidKept
<1> QED
  BY <1>1, <1>9, <1>10 DEF PaidKept

\* So a task that is received leaves every job sound.
LEMMA ReceiveSound ==
  ASSUME IInv, NEW e \in Executor, NEW i \in Job, NEW u \in TaskTier, Receive(e, i, u),
         NEW j \in Job
  PROVE  JobSound(j)'
<1>0. e \in Handler
  BY DEF Handler
<1>1. CASE j = i
  <2>1. ReceiveFacts(e, j, u)
    BY <1>1, ReceiveChanges DEF IInv
  <2> QED
    BY <1>0, <2>1, ReceiveJob, ReceiveTask, ReceivePaid DEF IInv, JobSound
<1>2. CASE j # i
  <2> DEFINE t == [at |-> "working", kind |-> u, job |-> i, seen |-> row[i].status # "absent",
                   loaded |-> row[i], new |-> row[i]]
  <2>1. tx' = [tx EXCEPT ![e] = t] /\ t.job = i
    BY DEF Receive
  <2>2. ~Works(e, j)
    BY DEF Receive, Works
  <2>3. row'[j] = row[j] /\ msgs'[j] = msgs[j] /\ paid'[j] = paid[j] /\ excuses'[j] = excuses[j]
    BY <1>2 DEF Receive, Excused, IInv, TypeOK
  <2> HIDE DEF t
  <2>4. Untouched(j)
    BY <1>0, <1>2, <2>1, <2>2, <2>3, OthersUntouched DEF IInv
  <2> QED
    BY <2>4, UntouchedSound DEF IInv
<1> QED
  BY <1>1, <1>2

----------------------------------------------------------------------------
(* A job is claimed, its lease expires.                                    *)

\* Both put a job to work, or leave it there, and touch no session or task.
AtWork(j) ==
  /\ msgs' = msgs /\ tx' = tx /\ paid' = paid /\ excuses' = excuses
  /\ row'[j].status = "running" /\ row'[j].worker # None
  /\ row[j].status # "absent" /\ row'[j].tried = row[j].tried /\ row'[j].tier = row[j].tier
  /\ Together(row'[j])
  /\ \/ row[j].status = "queued" /\ row[j].tier = "remote"
     \/ row[j].status = "running"

\* A job that is at work is waited for by no session and no task.
LEMMA AtWorkSound ==
  ASSUME NEW j \in Job, JobSound(j), AtWork(j)
  PROVE  JobSound(j)'
<1>1. /\ msgs' = msgs /\ tx' = tx /\ paid' = paid /\ excuses' = excuses
      /\ row'[j].status = "running" /\ row'[j].tried = row[j].tried /\ row'[j].tier = row[j].tier
      /\ row[j].status # "absent"
  BY DEF AtWork
<1>2. \A h \in Handler : /\ Works(h, j)' <=> Works(h, j)
                         /\ Commits(h, j)' <=> Commits(h, j)
  BY <1>1 DEF Works, Commits, At
<1>3. Advancing(j)' = Advancing(j) /\ \A e \in Executor : e \in Handler
  BY <1>1 DEF Advancing, At, Handler
<1>4. Present(j)'
  BY <1>1, <1>2 DEF JobSound, Present, At
<1>5. Paired(j)' /\ OwnerKept(j)'
  BY <1>1, <1>2 DEF JobSound, Paired, OwnerKept, Owned, AtWork
<1>6. TaskKept(j)'
  <2> SUFFICES ASSUME excuses[j] \cap TaskExcuses = {} PROVE TaskKept(j)'
    BY <1>1 DEF TaskKept
  <2>1. row'[j].tier = "remote"
    BY DEF AtWork, JobSound, TaskKept
  <2>2. \A h \in Advancing(j) : ForTask(tx[h].new) => msgs[j][tx[h].new.tier] > 0
    BY DEF JobSound, TaskKept
  <2>3. \A e \in Executor : ~(At(e, "working") /\ tx[e].job = j /\ ~tx[e].seen)
    BY <1>1 DEF JobSound, TaskKept
  <2> QED
    BY <1>1, <1>3, <2>1, <2>2, <2>3 DEF TaskKept, ForTask, At
<1>7. OneTask(j) => OneTask(j)'
  <2> SUFFICES ASSUME OneTask(j) PROVE OneTask(j)'
    OBVIOUS
  <2>1. ~HasTasks(j)
    BY DEF OneTask, AtWork
  <2>2. \A e \in Executor : ~Works(e, j)'
    BY <1>2, <1>3, <2>1 DEF HasTasks
  <2>3. \A e \in Executor : ~(tx'[e].at = "working" /\ tx'[e].job = j)
    BY <2>2 DEF Works, At
  <2>4. \A t \in TaskTier : ~(msgs[j][t] > 0)
    BY <2>1 DEF HasTasks
  <2>5. \A t, u \in TaskTier :
          msgs'[j][t] <= 1 /\ (msgs'[j][t] = 1 /\ msgs'[j][u] = 1 => t = u)
    BY <1>1 DEF OneTask
  <2>6. HasTasks(j)' => FALSE
    BY <1>1, <2>2, <2>4 DEF HasTasks
  <2> QED
    BY <2>2, <2>3, <2>5, <2>6 DEF OneTask, At
<1>8. \A h \in Handler : OnlyOf(h, j) => OnlyOf(h, j)'
  BY <1>1, <1>2, <1>3 DEF OnlyOf, ForTask
<1>9. PaidKept(j)'
  BY <1>1, <1>2, <1>3, <1>7, <1>8 DEF JobSound, PaidKept
<1> QED
  BY <1>4, <1>5, <1>6, <1>9 DEF JobSound

\* A claim and the end of a lease do that to one job.
LEMMA WorkersSound ==
  ASSUME IInv, NEW i \in Job, (\E w \in Worker : Claim(w, i)) \/ LeaseExpires(i), NEW j \in Job
  PROVE  JobSound(j)'
<1>1. /\ msgs' = msgs /\ tx' = tx /\ paid' = paid /\ excuses' = excuses
      /\ j # i => row'[j] = row[j]
  BY DEF Claim, LeaseExpires, IInv, TypeOK
<1>2. CASE j # i
  <2>1. Untouched(j)
    BY <1>1, <1>2 DEF Untouched, Works, At
  <2> QED
    BY <2>1, UntouchedSound DEF IInv
<1>3. ASSUME j = i, NEW w \in Worker, Claim(w, i) PROVE AtWork(j)
  <2>1. row[j] \in Row /\ row'[j] = Claimed(row[j], w) /\ w # None
    BY <1>3, NoneAssumption DEF Claim, IInv, TypeOK
  <2>2. /\ row'[j].status = "running" /\ row'[j].worker = w /\ row'[j].lease = "running"
        /\ row'[j].tried = row[j].tried /\ row'[j].tier = row[j].tier
    BY <2>1 DEF Claimed, Row
  <2>3. row[j].status = "queued" /\ row[j].tier = "remote"
    BY <1>3 DEF Claim
  <2> QED
    BY <1>1, <2>1, <2>2, <2>3 DEF AtWork, Together
<1>4. ASSUME j = i, LeaseExpires(i) PROVE AtWork(j)
  <2>1. /\ row[j] \in Row /\ row'[j] = [row[j] EXCEPT !.lease = "expired"]
        /\ row[j].status = "running" /\ row[j].lease = "running"
    BY <1>4 DEF LeaseExpires, IInv, TypeOK
  <2>2. /\ row'[j].status = "running" /\ row'[j].worker = row[j].worker
        /\ row'[j].lease = "expired"
        /\ row'[j].tried = row[j].tried /\ row'[j].tier = row[j].tier
    BY <2>1 DEF Row
  <2>3. row[j].worker # None
    BY <2>1 DEF IInv, JobSound, Paired, Together
  <2>4. Together(row'[j])
    BY <2>2, <2>3 DEF Together
  <2>5. row[j].status # "absent"
    BY <2>1
  <2>6. row'[j].worker # None
    BY <2>2, <2>3
  <2> QED
    BY <1>1, <2>1, <2>2, <2>4, <2>5, <2>6, Zenon DEF AtWork
<1>5. AtWork(j) => JobSound(j)'
  BY AtWorkSound DEF IInv
<1> QED
  BY <1>2, <1>3, <1>4, <1>5

----------------------------------------------------------------------------
(* A session commits.                                                      *)

\* Worker and deadline are written together or not at all.
LEMMA FlushedPaired ==
  ASSUME NEW now, NEW t, Rewrites(t.loaded, t.new), Together(now), Together(t.loaded)
  PROVE  Together(Flushed(now, t))
<1> DEFINE r == Flushed(now, t)
<1>1. /\ r.worker = (IF t.new.worker = t.loaded.worker THEN now.worker ELSE t.new.worker)
      /\ r.lease = (IF t.new.lease = t.loaded.lease THEN now.lease ELSE t.new.lease)
  BY DEF Flushed, Flush
<1>2. \/ t.new.worker = t.loaded.worker /\ t.new.lease = t.loaded.lease
      \/ t.new.worker = None /\ t.new.lease = "none"
  BY DEF Rewrites
<1> SUFFICES Together(r)
  OBVIOUS
<1> HIDE DEF r
<1>3. CASE t.new.worker = t.loaded.worker /\ t.new.lease = t.loaded.lease
  BY <1>1, <1>3 DEF Together
<1>4. CASE t.new.worker = None /\ t.new.lease = "none"
  BY <1>1, <1>4 DEF Together
<1> QED
  BY <1>2, <1>3, <1>4

\* A session that found the job waiting or at work leaves it to the worker it has, or
\* takes it from whoever has it.
LEMMA FlushedOwned ==
  ASSUME NEW now, NEW t, Rewrites(t.loaded, t.new), Owned(now), Owned(t.loaded),
         t.loaded.status \in {"queued", "running"}
  PROVE  Owned(Flushed(now, t))
<1> DEFINE r == Flushed(now, t)
<1>1. /\ r.worker = (IF t.new.worker = t.loaded.worker THEN now.worker ELSE t.new.worker)
      /\ r.status = (IF t.new.status = t.loaded.status THEN now.status ELSE t.new.status)
  BY DEF Flushed, Flush
<1> HIDE DEF r
<1>2. t.new.status \in Finished \cup {"queued"}
  BY DEF Rewrites
<1>3. CASE t.loaded.status = "queued"
  <2>1. t.loaded.worker = None
    BY <1>3 DEF Owned
  <2>2. t.new.worker = None
    BY <1>3, <2>1 DEF Rewrites
  <2>3. r.worker = now.worker
    BY <1>1, <2>1, <2>2
  <2> QED
    BY <1>1, <1>2, <1>3, <2>3 DEF Owned, Finished, r
<1>4. CASE t.loaded.status = "running"
  <2>1. t.loaded.worker # None
    BY <1>4 DEF Owned
  <2>2. r.status = t.new.status /\ r.status # "running"
    BY <1>1, <1>2, <1>4 DEF Finished
  <2>3. t.new.status = "queued" => t.new.worker = None
    BY <1>4 DEF Rewrites
  <2>4. r.status = "queued" => r.worker = None
    BY <1>1, <2>1, <2>2, <2>3
  <2> QED
    BY <2>2, <2>4 DEF Owned, r
<1> QED
  BY <1>3, <1>4

\* A session that was not overtaken writes the row it meant to write, but for the
\* deadline.
Exact(now, t, r) ==
  /\ t.loaded.status = now.status /\ t.loaded.tier = now.tier /\ t.loaded.worker = now.worker
  /\ t.loaded.tried = now.tried
  /\ r.status = t.new.status /\ r.tier = t.new.tier /\ r.worker = t.new.worker
  /\ r.tried = t.new.tried

LEMMA FlushedExact ==
  ASSUME NEW now \in Row, NEW t \in Tx, NEW h, Writes(h, t),
         [now EXCEPT !.lease = t.loaded.lease] = t.loaded
  PROVE  Exact(now, t, Flushed(now, t))
<1>1. /\ t.loaded.status = now.status /\ t.loaded.tier = now.tier
      /\ t.loaded.worker = now.worker /\ t.loaded.tried = now.tried
  <2> DEFINE same == [now EXCEPT !.lease = t.loaded.lease]
  <2>1. /\ same.status = now.status /\ same.tier = now.tier
        /\ same.worker = now.worker /\ same.tried = now.tried
    BY DEF Row
  <2>2. same = t.loaded
    OBVIOUS
  <2> QED
    BY <2>1, <2>2
<1>2. /\ Flushed(now, t).status = t.new.status /\ Flushed(now, t).tier = t.new.tier
      /\ Flushed(now, t).worker = t.new.worker
  BY <1>1 DEF Flushed, Flush
<1>3. LeavesAttempts(t) => t.new.tried = t.loaded.tried
  BY DEF LeavesAttempts, Writes
<1>4. Flushed(now, t).tried = t.new.tried
  BY <1>1, <1>3 DEF Flushed
<1> QED
  BY <1>1, <1>2, <1>4 DEF Exact

\* What a commit changes of its job.
CommitFacts(h, j) ==
  /\ At(h, "ready") /\ Writes(h, tx[h])
  /\ row'[j] = Flushed(row[j], tx[h])
  /\ excuses[j] \subseteq excuses'[j]
  /\ "overtaken" \in excuses'[j] \/ Exact(row[j], tx[h], row'[j])
  /\ \/ "revived" \in excuses'[j] \/ Exact(row[j], tx[h], row'[j])
     \/ tx[h].loaded.status \notin Finished
  /\ row'[j].status # "absent"

LEMMA CommitChanges ==
  ASSUME TypeOK, Sessions, NEW h \in Handler, Commit(h), NEW j \in Job, tx[h].job = j, Present(j)
  PROVE  CommitFacts(h, j)
<1>1. /\ At(h, "ready") /\ Writes(h, tx[h]) /\ tx[h] \in Tx /\ row[j] \in Row
  BY DEF Commit, Sessions, TypeOK
<1>2. row'[j] = Flushed(row[j], tx[h])
  BY DEF Commit, TypeOK
<1>3. ~Overtaken(h) => Exact(row[j], tx[h], row'[j])
  BY <1>1, <1>2, FlushedExact DEF Overtaken
<1>4. excuses'[j] = excuses[j] \cup
        (IF ~Overtaken(h) THEN {}
         ELSE IF tx[h].loaded.status \in Finished THEN {"overtaken", "revived"}
         ELSE {"overtaken"})
  BY DEF Commit, Excused, TypeOK
<1>5. row'[j].status # "absent"
  <2>1. row'[j].status = IF tx[h].new.status = tx[h].loaded.status
                         THEN row[j].status ELSE tx[h].new.status
    BY <1>2 DEF Flushed, Flush
  <2>2. tx[h].new.status # "absent"
    BY <1>1 DEF Writes, Rewrites, Finished
  <2>3. row[j].status = "absent" => tx[h].loaded.status = "absent"
    BY <1>1 DEF Present, Commits, Writes, NoRow
  <2> QED
    BY <2>1, <2>2, <2>3
<1> QED
  BY <1>1, <1>2, <1>3, <1>4, <1>5 DEF CommitFacts

\* The row is there afterwards, and whoever has the job has it with a deadline.
LEMMA CommitJob ==
  ASSUME TypeOK, NEW h \in Handler, NEW j \in Job, tx[h].job = j, EndFacts(h, j),
         CommitFacts(h, j), Present(j), Paired(j), OwnerKept(j)
  PROVE  Present(j)' /\ Paired(j)' /\ OwnerKept(j)'
<1>1. /\ row'[j] = Flushed(row[j], tx[h]) /\ Rewrites(tx[h].loaded, tx[h].new)
      /\ row'[j].status # "absent" /\ Works(h, j) /\ Commits(h, j)
  BY DEF CommitFacts, Writes, Works, Commits, At
<1>2. \A o \in Handler : Works(o, j)' => Works(o, j) /\ tx'[o] = tx[o]
  BY DEF EndFacts
<1>3. ASSUME NEW o \in Handler, Commits(o, j)' PROVE tx'[o].kind # "start"
  <2>1. Commits(o, j) /\ o # h /\ tx'[o] = tx[o]
    BY <1>3 DEF EndFacts
  <2> QED
    BY <1>1, <2>1 DEF Present
<1>4. Present(j)'
  BY <1>1, <1>3 DEF Present
<1>5. Paired(j)'
  BY <1>1, <1>2, FlushedPaired DEF Paired
<1>6. ASSUME "revived" \notin excuses'[j] PROVE Owned(row'[j])
  <2>1. Owned(row[j]) /\ Owned(tx[h].loaded)
    BY <1>1, <1>6 DEF OwnerKept, CommitFacts
  <2>2. CASE tx[h].loaded.status \in {"queued", "running"}
    BY <1>1, <2>1, <2>2, FlushedOwned
  <2>3. CASE tx[h].loaded.status \notin {"queued", "running"}
    <3>1. Exact(row[j], tx[h], row'[j]) \/ tx[h].loaded.status = "absent"
      <4>1. tx[h].loaded.status \in Status
        BY DEF TypeOK, Tx, Row
      <4> QED
        BY <1>6, <2>3, <4>1 DEF CommitFacts, Status, Finished
    <3>2. tx[h].loaded.status = "absent" => Exact(row[j], tx[h], row'[j])
      <4> SUFFICES ASSUME tx[h].loaded.status = "absent"
                   PROVE  Exact(row[j], tx[h], row'[j])
        OBVIOUS
      <4>1. tx[h].kind = "start" /\ tx[h].loaded = NoRow
        BY DEF CommitFacts, Writes
      <4>2. row[j] = NoRow
        BY <1>1, <4>1 DEF Present
      <4>3. [row[j] EXCEPT !.lease = tx[h].loaded.lease] = tx[h].loaded
        BY <4>1, <4>2 DEF NoRow
      <4>4. row[j] \in Row /\ tx[h] \in Tx /\ Writes(h, tx[h])
        BY DEF TypeOK, CommitFacts
      <4> QED
        BY <1>1, <4>3, <4>4, FlushedExact
    <3>3. row'[j].status = tx[h].new.status /\ row'[j].worker = tx[h].new.worker
      BY <3>1, <3>2 DEF Exact
    <3>4. /\ tx[h].new.status # "running"
          /\ tx[h].new.status = "queued" => tx[h].new.worker = None
      BY <1>1, <2>3 DEF Rewrites, Finished
    <3> QED
      BY <3>3, <3>4 DEF Owned
  <2> QED
    BY <2>2, <2>3
<1>7. OwnerKept(j)'
  BY <1>2, <1>6 DEF OwnerKept, CommitFacts
<1> QED
  BY <1>4, <1>5, <1>7

\* A job that is put to a task has the one that the session kicked, or the one that
\* it had.
LEMMA CommitTask ==
  ASSUME TypeOK, NEW h \in Handler, NEW j \in Job, tx[h].job = j, EndFacts(h, j),
         CommitFacts(h, j), TaskKept(j)
  PROVE  TaskKept(j)'
<1> SUFFICES ASSUME excuses'[j] \cap TaskExcuses = {} PROVE TaskKept(j)'
  BY DEF TaskKept
<1> DEFINE loaded == tx[h].loaded
           new    == tx[h].new
<1>1. /\ excuses[j] \cap TaskExcuses = {} /\ Exact(row[j], tx[h], row'[j])
      /\ Rewrites(loaded, new) /\ Writes(h, tx[h]) /\ Commits(h, j)
  BY DEF CommitFacts, TaskExcuses, Writes, Commits
<1>2. msgs'[j] = msgs[j] /\ \A e \in Executor : e \in Handler
  BY DEF EndFacts, Handler
<1>3. row'[j].status # "running"
  BY <1>1 DEF Exact, Rewrites, Finished
<1>4. ASSUME ForTask(row'[j])
      PROVE  msgs[j][row'[j].tier] > 0 \/ \E e \in Executor : Works(e, j)'
  <2>1. new.status = "queued" /\ new.tier = row'[j].tier /\ new.tier \in TaskTier
    BY <1>1, <1>4 DEF Exact, ForTask
  <2>2. CASE new.tried # loaded.tried
    <3>1. h \in Advancing(j)
      BY <1>1, <2>2 DEF Advancing, Commits
    <3> QED
      BY <1>1, <2>1, <3>1 DEF TaskKept, ForTask
  <2>3. CASE new.tried = loaded.tried
    <3>1. h \notin Executor /\ new.tier = loaded.tier /\ loaded.status \in {"queued", "running"}
      BY <1>1, <2>1, <2>3 DEF Writes, Rewrites
    <3>2. row[j].status = loaded.status /\ row[j].tier = loaded.tier
      BY <1>1 DEF Exact
    <3>3. row[j].status # "running"
      BY <1>1, <2>1, <3>1, <3>2 DEF TaskKept, TaskTier
    <3>4. ForTask(row[j]) /\ row[j].tier = row'[j].tier
      BY <2>1, <3>1, <3>2, <3>3 DEF ForTask
    <3>5. msgs[j][row[j].tier] > 0 \/ \E e \in Executor : Works(e, j)
      BY <1>1, <3>4 DEF TaskKept
    <3>6. \A e \in Executor : Works(e, j) => Works(e, j)'
      BY <1>2, <3>1 DEF EndFacts
    <3> QED
      BY <3>4, <3>5, <3>6
  <2> QED
    BY <2>2, <2>3
<1>5. \A o \in Advancing(j)' : o \in Advancing(j) /\ tx'[o] = tx[o]
  BY DEF EndFacts, Advancing
<1>6. \A o \in Advancing(j) : ForTask(tx[o].new) => msgs[j][tx[o].new.tier] > 0
  BY <1>1 DEF TaskKept
<1>7. ASSUME NEW e \in Executor, tx'[e].at = "working", tx'[e].job = j, ~tx'[e].seen
      PROVE  FALSE
  <2>1. Works(e, j)'
    BY <1>7 DEF Works, At
  <2>2. tx'[e] = tx[e]
    BY <1>2, <2>1 DEF EndFacts
  <2> QED
    BY <1>1, <1>7, <2>2 DEF TaskKept, At
<1> QED
  BY <1>2, <1>3, <1>4, <1>5, <1>6, <1>7 DEF TaskKept, ForTask, At

\* A session that leaves the tier as it is leaves the only task alone.
LEMMA CommitStays ==
  ASSUME NEW h \in Handler, NEW j \in Job, tx[h].job = j, EndFacts(h, j), CommitFacts(h, j),
         Exact(row[j], tx[h], row'[j]), tx[h].new.tried = tx[h].loaded.tried, OneTask(j)
  PROVE  OneTask(j)'
<1> DEFINE loaded == tx[h].loaded
           new    == tx[h].new
<1>1. /\ row'[j].tried = row[j].tried /\ row'[j].worker = new.worker
      /\ row'[j].status = new.status /\ row'[j].tier = new.tier
      /\ loaded.status = row[j].status /\ loaded.worker = row[j].worker
      /\ loaded.tier = row[j].tier /\ Rewrites(loaded, new)
  BY DEF Exact, CommitFacts, Writes
<1>2. ASSUME HasTasks(j)
      PROVE  /\ row'[j].worker = None /\ row'[j].status # "running"
             /\ row'[j].status = "queued" => row'[j].tier # "remote"
  <2>1. /\ row[j].worker = None /\ row[j].status # "running"
        /\ row[j].status = "queued" => row[j].tier # "remote"
    BY <1>2 DEF OneTask
  <2>2. new.worker = None
    BY <1>1, <2>1 DEF Rewrites
  <2>3. new.status # "running"
    BY <1>1 DEF Rewrites, Finished
  <2>4. new.status = "queued" => loaded.status = "queued" /\ new.tier = loaded.tier
    BY <1>1, <2>1 DEF Rewrites
  <2> QED
    BY <1>1, <2>1, <2>2, <2>3, <2>4
<1> QED
  BY <1>1, <1>2, EndOneTask

\* A session that was alone leaves the task that it kicked.
LEMMA CommitAlone ==
  ASSUME TypeOK, NEW h \in Handler, NEW j \in Job, tx[h].job = j, EndFacts(h, j),
         CommitFacts(h, j), Exact(row[j], tx[h], row'[j]),
         tx[h].new.tried # tx[h].loaded.tried, OnlyOf(h, j)
  PROVE  OneTask(j)'
<1> DEFINE new == tx[h].new
<1>1. /\ row'[j].worker = None /\ row'[j].status = new.status /\ row'[j].tier = new.tier
      /\ new.status # "running"
  BY DEF Exact, CommitFacts, Writes, Rewrites, Finished
<1>2. \A e \in Executor : ~Works(e, j)'
  BY DEF OnlyOf, EndFacts, Handler
<1>3. \A e \in Executor : ~(tx'[e].at = "working" /\ tx'[e].job = j)
  BY <1>2 DEF Works, At
<1>4. /\ msgs'[j] = msgs[j]
      /\ \A t \in TaskTier : msgs[j][t] = IF ForTask(new) /\ new.tier = t THEN 1 ELSE 0
  BY DEF EndFacts, OnlyOf
<1>5. \A t, u \in TaskTier :
        msgs'[j][t] <= 1 /\ (msgs'[j][t] = 1 /\ msgs'[j][u] = 1 => t = u)
  BY <1>4
<1>6. HasTasks(j)' => new.tier # "remote"
  BY <1>2, <1>4 DEF HasTasks, ForTask, TaskTier
<1> QED
  BY <1>1, <1>2, <1>3, <1>5, <1>6 DEF OneTask, At

\* A session that is left over has found fewer tiers tried, so it will be overtaken.
LEMMA CommitPaid ==
  ASSUME TypeOK, NEW h \in Handler, NEW j \in Job, tx[h].job = j, EndFacts(h, j),
         CommitFacts(h, j), PaidKept(j)
  PROVE  PaidKept(j)'
<1> SUFFICES ASSUME excuses'[j] \cap PaidExcuses = {} PROVE PaidKept(j)'
  BY DEF PaidKept
<1> DEFINE loaded == tx[h].loaded
           new    == tx[h].new
<1>1. /\ excuses[j] \cap PaidExcuses = {} /\ Exact(row[j], tx[h], row'[j])
      /\ loaded.tried \subseteq new.tried /\ Commits(h, j)
  BY DEF CommitFacts, PaidExcuses, Writes, Rewrites, Commits
<1>2. row'[j].tried = new.tried /\ row[j].tried = loaded.tried /\ paid'[j] = paid[j]
  BY <1>1 DEF Exact, EndFacts
<1>3. Advancing(j)' = Advancing(j) \ {h}
  BY DEF EndFacts
<1>4. \A o \in Handler : Works(o, j)' => Works(o, j) /\ tx'[o] = tx[o]
  BY DEF EndFacts
<1>5. \A o \in Advancing(j)' : o \in Handler /\ o \in Advancing(j) /\ tx'[o] = tx[o] /\ Works(o, j)
  BY DEF EndFacts, Advancing, Works, At
<1>6. /\ paid[j] <= 1
      /\ paid[j] = 1 => \/ "speechkit" \in row[j].tried
                        \/ \E o \in Advancing(j) : "speechkit" \in tx[o].new.tried
      /\ \A o \in Handler : Works(o, j) => tx[o].loaded.tried \subseteq row[j].tried
      /\ Advancing(j) = {} => OneTask(j)
      /\ \A o \in Handler :
           Advancing(j) = {o} /\ tx[o].loaded.tried = row[j].tried => OnlyOf(o, j)
  BY <1>1 DEF PaidKept
<1>7. paid[j] = 1 => \/ "speechkit" \in row'[j].tried
                     \/ \E o \in Advancing(j)' : "speechkit" \in tx'[o].new.tried
  <2>1. ASSUME NEW o \in Advancing(j), "speechkit" \in tx[o].new.tried
        PROVE  \/ "speechkit" \in row'[j].tried
               \/ \E p \in Advancing(j)' : "speechkit" \in tx'[p].new.tried
    <3>1. CASE o = h
      BY <1>2, <2>1, <3>1
    <3>2. CASE o # h
      BY <1>3, <1>5, <2>1, <3>2
    <3> QED
      BY <3>1, <3>2
  <2> QED
    BY <1>1, <1>2, <1>6, <2>1
<1>8. \A o \in Handler : Works(o, j)' => tx'[o].loaded.tried \subseteq row'[j].tried
  BY <1>1, <1>2, <1>4, <1>6
<1>9. CASE new.tried = loaded.tried
  <2>1. Advancing(j)' = Advancing(j) /\ h \notin Advancing(j)
    BY <1>3, <1>9 DEF Advancing
  <2>2. Advancing(j)' = {} => OneTask(j)'
    BY <1>1, <1>6, <1>9, <2>1, CommitStays
  <2>3. ASSUME NEW o \in Handler, Advancing(j)' = {o}, tx'[o].loaded.tried = row'[j].tried
        PROVE  OnlyOf(o, j)'
    <3>1. o # h /\ Advancing(j) = {o} /\ tx'[o] = tx[o]
      BY <1>5, <2>1, <2>3
    <3>2. OnlyOf(o, j)
      BY <1>2, <1>6, <1>9, <2>3, <3>1
    <3> QED
      BY <3>1, <3>2, EndOnlyOf
  <2> QED
    BY <1>2, <1>6, <1>7, <1>8, <2>2, <2>3 DEF PaidKept
<1>10. CASE new.tried # loaded.tried
  <2>1. h \in Advancing(j)
    BY <1>1, <1>10 DEF Advancing, Commits
  <2>2. Advancing(j)' = {} => OneTask(j)'
    <3> SUFFICES ASSUME Advancing(j)' = {} PROVE OneTask(j)'
      OBVIOUS
    <3>1. Advancing(j) = {h}
      BY <1>3, <2>1
    <3>2. OnlyOf(h, j)
      BY <1>2, <1>6, <3>1
    <3> QED
      BY <1>1, <1>10, <3>2, CommitAlone
  <2>3. \A o \in Advancing(j)' : tx'[o].loaded.tried # row'[j].tried
    BY <1>1, <1>2, <1>5, <1>6, <1>10
  <2>4. \A o \in Handler : Advancing(j)' = {o} => o \in Advancing(j)'
    OBVIOUS
  <2> QED
    BY <1>2, <1>6, <1>7, <1>8, <2>2, <2>3, <2>4 DEF PaidKept
<1> QED
  BY <1>9, <1>10

\* So a commit leaves every job sound.
LEMMA CommitSound ==
  ASSUME IInv, NEW h \in Handler, Commit(h), NEW j \in Job
  PROVE  JobSound(j)'
<1>1. End(h) /\ msgs' = msgs /\ paid' = paid /\ At(h, "ready")
  BY DEF Commit
<1>2. CASE tx[h].job = j
  <2>1. EndFacts(h, j)
    BY <1>1, EndChanges DEF IInv
  <2>2. CommitFacts(h, j)
    BY <1>2, CommitChanges DEF IInv, JobSound
  <2> QED
    BY <1>2, <2>1, <2>2, CommitJob, CommitTask, CommitPaid DEF IInv, JobSound
<1>3. CASE tx[h].job # j
  <2>1. ~Works(h, j)
    BY <1>3 DEF Works
  <2>2. row'[j] = row[j] /\ excuses'[j] = excuses[j]
    BY <1>3 DEF Commit, Excused, IInv, TypeOK
  <2> QED
    BY <1>1, <2>1, <2>2, EndOthers, UntouchedSound DEF IInv
<1> QED
  BY <1>2, <1>3

----------------------------------------------------------------------------
(* The theorems.                                                           *)

\* At first no job exists, so all of it holds.
LEMMA InitSound == Init => IInv
<1> SUFFICES ASSUME Init PROVE IInv
  OBVIOUS
<1>1. /\ \A j \in Job : row[j] = NoRow /\ paid[j] = 0 /\ excuses[j] = {}
      /\ \A j \in Job, t \in TaskTier : msgs[j][t] = 0
      /\ \A h \in Handler : tx[h] = NoTx
  BY DEF Init
<1>2. NoTx.at = "idle" /\ NoRow.status = "absent" /\ NoRow.worker = None /\ NoRow.lease = "none"
  BY DEF NoTx, NoRow
<1>3. TypeOK
  BY NoRowType, NoTxType, BoundAssumption DEF Init, TypeOK, Excuse
<1>4. Sessions
  BY <1>1, <1>2 DEF Sessions, At
<1>5. ASSUME NEW j \in Job PROVE JobSound(j)
  <2>1. \A h \in Handler : ~Works(h, j) /\ ~Commits(h, j) /\ ~At(h, "working") /\ ~At(h, "ready")
    BY <1>1, <1>2 DEF Works, Commits, At
  <2>2. Advancing(j) = {} /\ \A e \in Executor : e \in Handler
    BY <2>1 DEF Advancing, Handler
  <2>3. Present(j) /\ Paired(j) /\ OwnerKept(j)
    BY <1>1, <1>2, <2>1 DEF Present, Paired, OwnerKept, Together, Owned
  <2>4. TaskKept(j)
    BY <1>1, <1>2, <2>1, <2>2 DEF TaskKept, ForTask
  <2>5. OneTask(j)
    BY <1>1, <2>1, <2>2 DEF OneTask, HasTasks
  <2>6. PaidKept(j)
    BY <1>1, <2>1, <2>2, <2>5 DEF PaidKept
  <2> QED
    BY <2>3, <2>4, <2>6 DEF JobSound
<1> QED
  BY <1>3, <1>4, <1>5 DEF IInv

\* Every step keeps it.
LEMMA StepSound == IInv /\ [Next]_vars => IInv'
<1> SUFFICES ASSUME IInv, [Next]_vars PROVE IInv'
  OBVIOUS
<1>1. StepOfAKind /\ Bounded
  BY StepKinds
<1>2. TypeOK' /\ Sessions'
  BY <1>1, TypesStep, SessionsStep DEF IInv
<1>3. ASSUME NEW j \in Job PROVE JobSound(j)'
  <2>1. CASE \E h \in Handler, t \in Tx : Turn(h, t)
    BY <2>1, TurnSound
  <2>2. CASE \E h \in Handler : Ended(h)
    BY <2>2, EndedSound
  <2>3. CASE \E h \in Handler : Commit(h)
    BY <2>3, CommitSound
  <2>4. CASE \E e \in Executor, i \in Job, t \in TaskTier : Receive(e, i, t)
    BY <2>4, ReceiveSound
  <2>5. CASE \E w \in Worker, i \in Job : Claim(w, i)
    BY <2>5, WorkersSound
  <2>6. CASE \E i \in Job : LeaseExpires(i)
    BY <2>6, WorkersSound
  <2>7. CASE Still
    <3>1. Untouched(j)
      BY <2>7 DEF Still, Untouched, Works, At
    <3> QED
      BY <3>1, UntouchedSound DEF IInv
  <2> QED
    BY <1>1, <2>1, <2>2, <2>3, <2>4, <2>5, <2>6, <2>7 DEF StepOfAKind
<1> QED
  BY <1>2, <1>3 DEF IInv

\* The invariant holds in every reachable state.
THEOREM Invariance == Spec => []IInv
BY InitSound, StepSound, PTL DEF Spec

\* The variables keep their types: a task that is received was kicked and not received
\* before.
THEOREM TypeCorrect == Spec => []TypeOK
<1>1. IInv => TypeOK
  BY DEF IInv
<1> QED
  BY <1>1, Invariance, PTL

\* A running job has a worker and a deadline that the reaper sees, whatever requests,
\* tasks and administrators flush over it, unless a session that had found it finished
\* put it back to work.
THEOREM LeaseKept == Spec => []RunningHasLease
<1>1. IInv => RunningHasLease
  BY DEF IInv, JobSound, Paired, Together, OwnerKept, Owned, RunningHasLease
<1> QED
  BY <1>1, Invariance, PTL

\* A job that waits for a task of its tier has one in the list or at work, unless a
\* task began too early, died or gave up or a session was overtaken.
THEOREM NobodyForgotten == Spec => []NoJobForgotten
<1>1. IInv => NoJobForgotten
  BY DEF IInv, JobSound, TaskKept, TaskExcuses, ForTask, NoJobForgotten
<1> QED
  BY <1>1, Invariance, PTL

\* The paid recognition of a job is kicked once, unless sessions got into each other's
\* way or one that had kicked it did not commit.
THEOREM PaidForOnce == Spec => []PaidOnce
<1>1. IInv => PaidOnce
  BY DEF IInv, JobSound, PaidKept, PaidExcuses, PaidOnce
<1> QED
  BY <1>1, Invariance, PTL

=============================================================================
