----------------------- MODULE PlaycountDrainProofs -----------------------
(***************************************************************************)
(* No play count gets lost on its way into the index without an excuse, for*)
(* every number of tracks, listeners, requests, drains and faults.         *)
(***************************************************************************)
EXTENDS PlaycountDrain, TLAPS

\* A batch has popped what it still has to index, all of it before it loads;
\* what it loaded is not ahead of the column.
BatchesSound ==
  \A d \in Drain :
    /\ drain[d].left \subseteq drain[d].popped
    /\ drain[d].at = "load" => drain[d].left = drain[d].popped
    /\ drain[d].at = "idle" => drain[d].left = {}
    /\ \A t \in Track : drain[d].loaded[t] <= count[t]

\* Track t waits in the set, or in a batch that has not loaded it yet.
ToLoad(t) ==
  t \in dirty \/ \E d \in Drain : drain[d].at = "load" /\ t \in drain[d].left

\* A batch will write the count that track t has now.
ToWrite(t) ==
  \E d \in Drain : /\ drain[d].at = "index" /\ t \in drain[d].left
                   /\ drain[d].loaded[t] = count[t]

\* Track t will be loaded, or is excused.
Safe(t) == ToLoad(t) \/ excuses[t] # {}

\* A request marks its track before it commits.
MarkedBeforeCommit ==
  \A q \in Client, t \in Track :
    req[q].at = "commit" /\ req[q].track = t => Safe(t)

\* A document that is old will be written with what is true now.
Repaired ==
  \A t \in Track : indexed[t] # count[t] => Safe(t) \/ ToWrite(t)

IInv == TypeOK /\ BatchesSound /\ MarkedBeforeCommit /\ Repaired

----------------------------------------------------------------------------

LEMMA NoneTypes ==
  ASSUME Track # {}
  PROVE  /\ NoReq \in ReqRec /\ NoReq.at = "idle"
         /\ NoDrain \in DrainRec /\ NoDrain.at = "idle"
         /\ NoDrain.left = {} /\ NoDrain.popped = {}
         /\ \A t \in Track : NoDrain.loaded[t] = 0
  BY DEF NoReq, ReqRec, NoDrain, DrainRec

LEMMA InitHolds == ASSUME Track # {}, FaultBound \in Nat, Init PROVE IInv
<1>1. TypeOK
  BY NoneTypes DEF Init, TypeOK
<1>2. BatchesSound
  BY NoneTypes DEF Init, BatchesSound
<1>3. MarkedBeforeCommit
  BY NoneTypes DEF Init, MarkedBeforeCommit
<1>4. Repaired
  BY DEF Init, Repaired
<1> QED BY <1>1, <1>2, <1>3, <1>4 DEF IInv

\* A fault leaves the budget of faults a budget.
LEMMA FaultType ==
  ASSUME NEW kind, FaultBound \in Nat, faults \in 0..FaultBound, Fault(kind)
  PROVE  faults' \in 0..FaultBound
  BY DEF Fault

\* An excuse keeps the others.
LEMMA ExcusedKeeps ==
  ASSUME NEW tracks, NEW why \in Excuse, Excused(tracks, why),
         excuses \in [Track -> SUBSET Excuse]
  PROVE  /\ excuses' \in [Track -> SUBSET Excuse]
         /\ \A t \in Track : excuses[t] # {} => excuses'[t] # {}
         /\ \A t \in Track : t \in tracks => excuses'[t] # {}
  BY DEF Excused

\* A listener's slot is all that a request begins with.
LEMMA ListenStep ==
  ASSUME NEW q \in Client, NEW l \in Listener, NEW t \in Track,
         FaultBound \in Nat, IInv, Listen(q, l, t)
  PROVE  IInv'
<1>1. /\ req' = [req EXCEPT ![q] = [at |-> "mark", track |-> t]]
      /\ slots' = slots \cup {<<l, t>>}
      /\ UNCHANGED <<count, indexed, dirty, drain, excuses>>
  BY DEF Listen
<1>2. faults' \in 0..FaultBound
  BY FaultType DEF Listen, IInv, TypeOK
<1>3. TypeOK'
  BY <1>1, <1>2 DEF IInv, TypeOK, ReqRec
<1>4. BatchesSound' /\ Repaired'
  BY <1>1 DEF IInv, BatchesSound, Repaired, Safe, ToLoad, ToWrite
<1>5. MarkedBeforeCommit'
  <2>1. \A p \in Client : req'[p].at = "commit" => req'[p] = req[p]
    BY <1>1 DEF IInv, TypeOK
  <2> QED BY <1>1, <2>1 DEF IInv, MarkedBeforeCommit, Safe, ToLoad
<1> QED BY <1>3, <1>4, <1>5 DEF IInv

\* Mark puts the track into the set, or Redis is the excuse.
LEMMA MarkStep ==
  ASSUME NEW q \in Client, FaultBound \in Nat, IInv, Mark(q) PROVE IInv'
<1> SUFFICES ASSUME NEW t \in Track, t = req[q].track PROVE IInv'
  BY DEF IInv, TypeOK, ReqRec
<1>1. /\ req' = [req EXCEPT ![q].at = "commit"]
      /\ UNCHANGED <<count, indexed, slots, drain>>
  BY DEF Mark
<1>2. /\ faults' \in 0..FaultBound
      /\ excuses' \in [Track -> SUBSET Excuse]
      /\ \A u \in Track : excuses[u] # {} => excuses'[u] # {}
      /\ dirty \subseteq dirty' /\ dirty' \subseteq Track
      /\ t \in dirty' \/ excuses'[t] # {}
  <2>1. CASE dirty' = dirty \cup {t} /\ UNCHANGED <<faults, excuses>>
    BY <2>1 DEF IInv, TypeOK
  <2>2. CASE Fault("redis") /\ Excused({t}, "redis") /\ UNCHANGED dirty
    BY <2>2, FaultType, ExcusedKeeps DEF IInv, TypeOK, Excuse
  <2> QED BY <2>1, <2>2 DEF Mark
<1>3. TypeOK'
  BY <1>1, <1>2 DEF IInv, TypeOK, ReqRec
<1>4. BatchesSound'
  BY <1>1 DEF IInv, BatchesSound
<1>5. \A u \in Track : (Safe(u) => Safe(u)') /\ (ToWrite(u) => ToWrite(u)')
  BY <1>1, <1>2 DEF Safe, ToLoad, ToWrite
<1>6. Repaired'
  BY <1>1, <1>5 DEF IInv, Repaired
<1>7. MarkedBeforeCommit'
  <2>1. Safe(t)'
    BY <1>2 DEF Safe, ToLoad
  <2>2. \A p \in Client : req'[p].track = req[p].track /\ (p # q => req'[p].at = req[p].at)
    BY <1>1 DEF IInv, TypeOK, ReqRec
  <2> QED BY <2>1, <2>2, <1>5 DEF IInv, MarkedBeforeCommit
<1> QED BY <1>3, <1>4, <1>6, <1>7 DEF IInv

\* A request that ends leaves the promises of the others.
LEMMA OthersMarked ==
  ASSUME NEW q \in Client, IInv, req' = [req EXCEPT ![q] = NoReq], NoReq.at = "idle",
         \A u \in Track : Safe(u) => Safe(u)'
  PROVE  MarkedBeforeCommit'
<1>1. \A p \in Client : req'[p].at = "commit" => req'[p] = req[p]
  BY DEF IInv, TypeOK
<1> QED BY <1>1 DEF IInv, MarkedBeforeCommit

\* The row changes while its track is still to be loaded.
LEMMA CommitStep ==
  ASSUME Track # {}, NEW q \in Client, IInv, Commit(q) PROVE IInv'
<1> SUFFICES ASSUME NEW t \in Track, t = req[q].track PROVE IInv'
  BY DEF IInv, TypeOK, ReqRec
<1>1. /\ count' = [count EXCEPT ![t] = @ + 1]
      /\ req' = [req EXCEPT ![q] = NoReq]
      /\ req[q].at = "commit"
      /\ UNCHANGED <<indexed, slots, dirty, drain, faults, excuses>>
  BY DEF Commit
<1>2. TypeOK'
  BY <1>1, NoneTypes DEF IInv, TypeOK
<1>3. BatchesSound'
  <2>1. \A u \in Track : count[u] \in Nat /\ count'[u] \in Nat /\ count[u] <= count'[u]
    BY <1>1 DEF IInv, TypeOK
  <2>2. \A d \in Drain, u \in Track : drain[d].loaded[u] \in Nat
    BY DEF IInv, TypeOK, DrainRec
  <2>3. \A d \in Drain, u \in Track : drain'[d].loaded[u] <= count'[u]
    BY <1>1, <2>1, <2>2 DEF IInv, BatchesSound
  <2> QED BY <1>1, <2>3 DEF IInv, BatchesSound
<1>4. \A u \in Track : Safe(u) => Safe(u)'
  BY <1>1 DEF Safe, ToLoad
<1>5. Safe(t)
  BY <1>1 DEF IInv, MarkedBeforeCommit
<1>6. \A u \in Track : u # t => count'[u] = count[u] /\ (ToWrite(u) => ToWrite(u)')
  BY <1>1 DEF ToWrite, IInv, TypeOK
<1>7. Repaired'
  BY <1>1, <1>4, <1>5, <1>6 DEF IInv, Repaired
<1>8. MarkedBeforeCommit'
  BY <1>1, <1>4, OthersMarked, NoneTypes
<1> QED BY <1>2, <1>3, <1>7, <1>8 DEF IInv

LEMMA RollbackStep ==
  ASSUME Track # {}, NEW q \in Client, IInv, Rollback(q) PROVE IInv'
<1>1. /\ req' = [req EXCEPT ![q] = NoReq]
      /\ UNCHANGED <<count, indexed, slots, dirty, drain, faults, excuses>>
  BY DEF Rollback
<1>2. TypeOK'
  BY <1>1, NoneTypes DEF IInv, TypeOK
<1>3. BatchesSound' /\ Repaired'
  BY <1>1 DEF IInv, BatchesSound, Repaired, Safe, ToLoad, ToWrite
<1>4. MarkedBeforeCommit'
  <2>1. \A u \in Track : Safe(u) => Safe(u)'
    BY <1>1 DEF Safe, ToLoad
  <2> QED BY <1>1, <2>1, OthersMarked, NoneTypes
<1> QED BY <1>2, <1>3, <1>4 DEF IInv

----------------------------------------------------------------------------
(* The drains.                                                             *)

\* What a drain may do to a batch: it keeps a sound batch or gives it up.
LEMMA BatchType ==
  ASSUME NEW d \in Drain, NEW b \in DrainRec, TypeOK, drain' = [drain EXCEPT ![d] = b]
  PROVE  /\ drain' \in [Drain -> DrainRec]
         /\ drain'[d] = b
         /\ \A e \in Drain : e # d => drain'[e] = drain[e]
  BY DEF TypeOK

\* Promises that hold on stay promises.
LEMMA PromisesKept ==
  ASSUME IInv, UNCHANGED <<count, indexed, req>>,
         \A t \in Track : Safe(t) => Safe(t)',
         \A t \in Track : ToWrite(t) => Safe(t)' \/ ToWrite(t)'
  PROVE  MarkedBeforeCommit' /\ Repaired'
<1>1. MarkedBeforeCommit'
  BY DEF IInv, MarkedBeforeCommit
<1>2. Repaired'
  BY DEF IInv, Repaired
<1> QED BY <1>1, <1>2

\* What leaves the set is in a batch that is to be loaded.
LEMMA PopStep ==
  ASSUME Track # {}, NEW d \in Drain, IInv, Pop(d) PROVE IInv'
<1>1. PICK ids \in SUBSET dirty \ {{}} :
        /\ dirty' = dirty \ ids
        /\ drain' = [drain EXCEPT ![d] =
             [NoDrain EXCEPT !.at = "load", !.popped = ids, !.left = ids]]
  BY DEF Pop
<1> DEFINE b == [NoDrain EXCEPT !.at = "load", !.popped = ids, !.left = ids]
<1>2. drain[d].at = "idle" /\ UNCHANGED <<count, indexed, slots, req, faults, excuses>>
  BY DEF Pop
<1>3. ids \subseteq dirty /\ dirty \subseteq Track
  BY <1>1 DEF IInv, TypeOK
<1>4. /\ b \in DrainRec /\ b.at = "load" /\ b.popped = ids /\ b.left = ids
      /\ \A t \in Track : b.loaded[t] = 0
  BY <1>3, NoneTypes DEF DrainRec
<1> HIDE DEF b
<1>5. /\ drain' \in [Drain -> DrainRec] /\ drain'[d] = b
      /\ \A e \in Drain : e # d => drain'[e] = drain[e]
  BY <1>1, <1>4, BatchType DEF IInv, b
<1>6. TypeOK'
  BY <1>1, <1>2, <1>3, <1>5 DEF IInv, TypeOK
<1>7. BatchesSound'
  <2>1. \A t \in Track : count[t] \in Nat
    BY DEF IInv, TypeOK
  <2> QED BY <1>2, <1>4, <1>5, <2>1 DEF IInv, BatchesSound
<1>8. ASSUME NEW t \in Track, Safe(t) PROVE Safe(t)'
  <2>1. CASE t \in ids
    BY <1>4, <1>5, <2>1 DEF Safe, ToLoad
  <2>2. CASE t \notin ids
    BY <1>1, <1>2, <1>5, <1>8, <2>2 DEF Safe, ToLoad
  <2> QED BY <2>1, <2>2
<1>9. ASSUME NEW t \in Track, ToWrite(t) PROVE ToWrite(t)'
  BY <1>2, <1>5, <1>9 DEF ToWrite
<1> QED BY <1>2, <1>6, <1>7, <1>8, <1>9, PromisesKept DEF IInv

\* What is loaded is what is true, and may only be overtaken by a request that
\* has marked its track before and has not committed.
LEMMA LoadStep ==
  ASSUME NEW d \in Drain, IInv, Load(d) PROVE IInv'
<1> DEFINE now == [t \in Track |-> IF t \in drain[d].popped THEN Seen(t) ELSE 0]
           stale == {t \in drain[d].popped \ dirty : Uncommitted(t)}
           b == [drain[d] EXCEPT !.at = "index", !.loaded = now]
<1>1. /\ drain[d].at = "load"
      /\ drain' = [drain EXCEPT ![d] = b]
      /\ Excused(stale, "uncommitted")
      /\ UNCHANGED <<count, indexed, slots, dirty, req, faults>>
  BY DEF Load, IInv, TypeOK
<1>2. drain[d] \in DrainRec /\ drain[d].left = drain[d].popped
  BY <1>1 DEF IInv, TypeOK, BatchesSound
<1>3. now \in [Track -> Nat] /\ \A t \in Track : now[t] <= count[t]
  BY DEF IInv, TypeOK, Seen
<1>4. \A t \in drain[d].popped : now[t] = count[t]
  BY <1>2 DEF Seen, DrainRec
<1>5. /\ b \in DrainRec /\ b.at = "index" /\ b.loaded = now
      /\ b.popped = drain[d].popped /\ b.left = drain[d].left
  <2> HIDE DEF now
  <2> QED BY <1>2, <1>3 DEF DrainRec
<1>6. /\ excuses' \in [Track -> SUBSET Excuse]
      /\ \A t \in Track : excuses[t] # {} => excuses'[t] # {}
      /\ \A t \in Track : t \in stale => excuses'[t] # {}
  <2> HIDE DEF stale
  <2> QED BY <1>1, ExcusedKeeps DEF IInv, TypeOK, Excuse
<1> HIDE DEF b, now
<1>7. /\ drain' \in [Drain -> DrainRec] /\ drain'[d] = b
      /\ \A e \in Drain : e # d => drain'[e] = drain[e]
  BY <1>1, <1>5, BatchType DEF IInv
<1>8. TypeOK'
  BY <1>1, <1>6, <1>7 DEF IInv, TypeOK
<1>9. BatchesSound'
  BY <1>1, <1>2, <1>3, <1>5, <1>7 DEF IInv, BatchesSound
<1>10. ASSUME NEW t \in Track, t \notin drain[d].popped, Safe(t) PROVE Safe(t)'
  BY <1>1, <1>2, <1>6, <1>7, <1>10 DEF Safe, ToLoad
<1>11. ASSUME NEW t \in Track, t \in drain[d].popped PROVE ToWrite(t)'
  BY <1>1, <1>2, <1>4, <1>5, <1>7, <1>11 DEF ToWrite
<1>12. ASSUME NEW t \in Track, ToWrite(t) PROVE ToWrite(t)'
  BY <1>1, <1>7, <1>12 DEF ToWrite
<1>13. Repaired'
  BY <1>1, <1>10, <1>11, <1>12 DEF IInv, Repaired
<1>14. MarkedBeforeCommit'
  <2> SUFFICES ASSUME NEW q \in Client, NEW t \in Track,
                      req'[q].at = "commit", req'[q].track = t
               PROVE  Safe(t)'
    BY DEF MarkedBeforeCommit
  <2>1. Safe(t) /\ Uncommitted(t)
    BY <1>1 DEF IInv, MarkedBeforeCommit, Uncommitted
  <2>2. CASE t \in drain[d].popped /\ t \notin dirty
    BY <1>6, <2>1, <2>2 DEF Safe
  <2>3. CASE t \in dirty
    BY <1>1, <2>3 DEF Safe, ToLoad
  <2> QED BY <1>10, <2>1, <2>2, <2>3
<1> QED BY <1>8, <1>9, <1>13, <1>14 DEF IInv

\* A document takes what the batch had loaded. If that is old, another batch or
\* the set still holds the track, unless the document was newer already.
LEMMA IndexStep ==
  ASSUME FaultBound \in Nat, NEW d \in Drain, NEW t \in Track, IInv, Index(d, t)
  PROVE  IInv'
<1> DEFINE b == [drain[d] EXCEPT !.left = @ \ {t}]
<1>1. /\ drain[d].at = "index" /\ t \in drain[d].left
      /\ drain' = [drain EXCEPT ![d] = b]
      /\ UNCHANGED <<count, slots, dirty, req>>
  BY DEF Index, IInv, TypeOK
<1>2. drain[d] \in DrainRec
  BY DEF IInv, TypeOK
<1>3. /\ b \in DrainRec /\ b.at = "index" /\ b.loaded = drain[d].loaded
      /\ b.popped = drain[d].popped /\ b.left = drain[d].left \ {t}
  BY <1>1, <1>2 DEF DrainRec
<1> HIDE DEF b
<1>4. /\ drain' \in [Drain -> DrainRec] /\ drain'[d] = b
      /\ \A e \in Drain : e # d => drain'[e] = drain[e]
  BY <1>1, <1>3, BatchType DEF IInv
<1>5. BatchesSound'
  BY <1>1, <1>3, <1>4 DEF IInv, BatchesSound
<1>6. \A u \in Track : ToLoad(u) => ToLoad(u)'
  BY <1>1, <1>4 DEF ToLoad
<1>7. \A u \in Track : u # t /\ ToWrite(u) => ToWrite(u)'
  BY <1>1, <1>3, <1>4 DEF ToWrite
<1>8. drain[d].loaded[t] # count[t] /\ ToWrite(t) => ToWrite(t)'
  BY <1>1, <1>4 DEF ToWrite
<1>9. CASE /\ indexed' = [indexed EXCEPT ![t] = drain[d].loaded[t]]
           /\ IF drain[d].loaded[t] < indexed[t] THEN Excused({t}, "overlap")
              ELSE UNCHANGED excuses
           /\ UNCHANGED faults
  <2>1. /\ excuses' \in [Track -> SUBSET Excuse]
        /\ \A u \in Track : excuses[u] # {} => excuses'[u] # {}
        /\ drain[d].loaded[t] < indexed[t] => excuses'[t] # {}
    BY <1>9, ExcusedKeeps DEF IInv, TypeOK, Excuse
  <2>2. \A u \in Track : Safe(u) => Safe(u)'
    BY <1>6, <2>1 DEF Safe
  <2>3. /\ indexed' \in [Track -> Nat]
        /\ indexed'[t] = drain[d].loaded[t]
        /\ \A u \in Track : u # t => indexed'[u] = indexed[u]
    BY <1>2, <1>9 DEF IInv, TypeOK, DrainRec
  <2>4. TypeOK'
    BY <1>1, <1>4, <1>9, <2>1, <2>3 DEF IInv, TypeOK
  <2>5. MarkedBeforeCommit'
    BY <1>1, <2>2 DEF IInv, MarkedBeforeCommit
  <2>6. indexed'[t] # count'[t] => Safe(t)' \/ ToWrite(t)'
    <3> SUFFICES ASSUME drain[d].loaded[t] # count[t] PROVE Safe(t)' \/ ToWrite(t)'
      BY <1>1, <2>3
    <3>1. CASE indexed[t] = count[t]
      <4>1. /\ drain[d].loaded[t] \in Nat /\ count[t] \in Nat
            /\ drain[d].loaded[t] <= count[t]
        BY <1>2 DEF IInv, TypeOK, DrainRec, BatchesSound
      <4>2. excuses'[t] # {}
        BY <2>1, <3>1, <4>1
      <4> QED BY <4>2 DEF Safe
    <3>2. CASE indexed[t] # count[t]
      BY <1>8, <2>2, <3>2 DEF IInv, Repaired
    <3> QED BY <3>1, <3>2
  <2>7. Repaired'
    BY <1>1, <1>7, <2>2, <2>3, <2>6 DEF IInv, Repaired
  <2> QED BY <1>5, <2>4, <2>5, <2>7 DEF IInv
<1>10. CASE Fault("index") /\ Excused({t}, "index") /\ UNCHANGED indexed
  <2>1. /\ excuses' \in [Track -> SUBSET Excuse]
        /\ \A u \in Track : excuses[u] # {} => excuses'[u] # {}
        /\ excuses'[t] # {}
        /\ faults' \in 0..FaultBound
    BY <1>10, ExcusedKeeps, FaultType DEF IInv, TypeOK, Excuse
  <2>2. TypeOK'
    BY <1>1, <1>4, <1>10, <2>1 DEF IInv, TypeOK
  <2>3. \A u \in Track : Safe(u) => Safe(u)'
    BY <1>6, <2>1 DEF Safe
  <2>4. \A u \in Track : ToWrite(u) => Safe(u)' \/ ToWrite(u)'
    BY <1>7, <2>1 DEF Safe
  <2>5. MarkedBeforeCommit' /\ Repaired'
    BY <1>1, <1>10, <2>3, <2>4, PromisesKept
  <2> QED BY <1>5, <2>2, <2>5 DEF IInv
<1> QED BY <1>9, <1>10 DEF Index

\* A batch that is given up leaves nothing behind, or what it leaves is marked
\* again or excused.
LEMMA GivenUp ==
  ASSUME Track # {}, NEW d \in Drain, IInv,
         drain' = [drain EXCEPT ![d] = NoDrain],
         UNCHANGED <<count, indexed, slots, req>>,
         faults' \in 0..FaultBound,
         excuses' \in [Track -> SUBSET Excuse],
         \A t \in Track : excuses[t] # {} => excuses'[t] # {},
         dirty \subseteq dirty', dirty' \subseteq Track,
         \A t \in Track : t \in drain[d].left => t \in dirty' \/ excuses'[t] # {}
  PROVE  IInv'
<1>1. /\ drain' \in [Drain -> DrainRec] /\ drain'[d] = NoDrain
      /\ \A e \in Drain : e # d => drain'[e] = drain[e]
  BY BatchType, NoneTypes DEF IInv
<1>2. TypeOK'
  BY <1>1 DEF IInv, TypeOK
<1>3. BatchesSound'
  <2>1. \A t \in Track : count[t] \in Nat
    BY DEF IInv, TypeOK
  <2> QED BY <1>1, <2>1, NoneTypes DEF IInv, BatchesSound
<1>4. ASSUME NEW t \in Track, Safe(t) PROVE Safe(t)'
  BY <1>1, <1>4 DEF Safe, ToLoad
<1>5. ASSUME NEW t \in Track, ToWrite(t) PROVE Safe(t)' \/ ToWrite(t)'
  BY <1>1, <1>5 DEF Safe, ToLoad, ToWrite
<1> QED BY <1>2, <1>3, <1>4, <1>5, PromisesKept DEF IInv

LEMMA FinishStep ==
  ASSUME Track # {}, FaultBound \in Nat, NEW d \in Drain, IInv, Finish(d) PROVE IInv'
<1>1. /\ drain' = [drain EXCEPT ![d] = NoDrain]
      /\ UNCHANGED <<count, indexed, slots, req, faults, excuses, dirty>>
      /\ drain[d].left = {}
  BY DEF Finish, Remarked
<1> QED BY <1>1, GivenUp DEF IInv, TypeOK

\* The batch has popped all that is left of it.
LEMMA FailStep ==
  ASSUME Track # {}, FaultBound \in Nat, NEW d \in Drain, IInv, Fail(d) PROVE IInv'
<1>1. /\ drain' = [drain EXCEPT ![d] = NoDrain]
      /\ UNCHANGED <<count, indexed, slots, req>>
      /\ faults' \in 0..FaultBound
  BY FaultType DEF Fail, IInv, TypeOK
<1>2. /\ drain[d].left \subseteq drain[d].popped
      /\ drain[d].popped \subseteq Track /\ dirty \subseteq Track
      /\ excuses \in [Track -> SUBSET Excuse]
  BY DEF IInv, TypeOK, BatchesSound, DrainRec
<1>3. CASE dirty' = dirty \cup PutBack(d) /\ UNCHANGED excuses
  BY <1>1, <1>2, <1>3, GivenUp DEF PutBack
<1>4. CASE Excused(drain[d].left, "redis") /\ UNCHANGED dirty
  <2>1. /\ excuses' \in [Track -> SUBSET Excuse]
        /\ \A t \in Track : excuses[t] # {} => excuses'[t] # {}
        /\ \A t \in Track : t \in drain[d].left => excuses'[t] # {}
    BY <1>2, <1>4, ExcusedKeeps DEF Excuse
  <2> QED BY <1>1, <1>2, <1>4, <2>1, GivenUp
<1> QED BY <1>3, <1>4 DEF Fail

LEMMA CrashStep ==
  ASSUME Track # {}, FaultBound \in Nat, NEW d \in Drain, IInv, Crash(d) PROVE IInv'
<1>1. /\ drain' = [drain EXCEPT ![d] = NoDrain]
      /\ UNCHANGED <<count, indexed, slots, req, dirty>>
      /\ faults' \in 0..FaultBound
      /\ Excused(drain[d].left, "crash")
  BY FaultType DEF Crash, IInv, TypeOK
<1>2. excuses \in [Track -> SUBSET Excuse] /\ dirty \subseteq Track
  BY DEF IInv, TypeOK
<1>3. /\ excuses' \in [Track -> SUBSET Excuse]
      /\ \A t \in Track : excuses[t] # {} => excuses'[t] # {}
      /\ \A t \in Track : t \in drain[d].left => excuses'[t] # {}
  BY <1>1, <1>2, ExcusedKeeps DEF Excuse
<1> QED BY <1>1, <1>2, <1>3, GivenUp

----------------------------------------------------------------------------

LEMMA NextKeeps ==
  ASSUME Track # {}, FaultBound \in Nat, IInv, [Next]_vars PROVE IInv'
<1>1. CASE \E q \in Client, l \in Listener, t \in Track : Listen(q, l, t)
  BY <1>1, ListenStep
<1>2. CASE \E q \in Client : Mark(q) \/ Commit(q) \/ Rollback(q)
  BY <1>2, MarkStep, CommitStep, RollbackStep
<1>3. CASE \E d \in Drain : Pop(d) \/ Load(d) \/ Finish(d) \/ Fail(d) \/ Crash(d)
  BY <1>3, PopStep, LoadStep, FinishStep, FailStep, CrashStep
<1>4. CASE \E d \in Drain, t \in Track : Index(d, t)
  BY <1>4, IndexStep
<1>5. CASE UNCHANGED vars
  BY <1>5 DEF vars, IInv, TypeOK, BatchesSound, MarkedBeforeCommit, Repaired,
              Safe, ToLoad, ToWrite
<1> QED BY <1>1, <1>2, <1>3, <1>4, <1>5 DEF Next

\* What will be loaded or written is signalled.
LEMMA InvariantImplies == IInv => TypeOK /\ IndexKeepsUp
<1> SUFFICES ASSUME IInv PROVE IndexKeepsUp
  BY DEF IInv
<1> SUFFICES ASSUME NEW t \in Track, indexed[t] # count[t]
             PROVE  t \in Signalled \/ excuses[t] # {}
  BY DEF IndexKeepsUp
<1>1. ToLoad(t) \/ ToWrite(t) \/ excuses[t] # {}
  BY DEF IInv, Repaired, Safe
<1> QED BY <1>1 DEF ToLoad, ToWrite, Signalled

\* Every play that the database counted is in the index, or a mark or a batch
\* will bring it there, or one of the named faults took its signal away: the
\* commit comes after the mark, and a batch loads after it has taken the mark.
THEOREM PlaysReachTheIndex ==
  ASSUME Track # {}, FaultBound \in Nat PROVE Spec => []IndexKeepsUp
<1>1. Init => IInv
  BY InitHolds
<1>2. IInv /\ [Next]_vars => IInv'
  BY NextKeeps
<1>3. IInv => IndexKeepsUp
  BY InvariantImplies
<1> QED BY <1>1, <1>2, <1>3, PTL DEF Spec

\* The counters, the set and the batches have their types.
THEOREM TypeCorrect ==
  ASSUME Track # {}, FaultBound \in Nat PROVE Spec => []TypeOK
<1>1. Init => IInv
  BY InitHolds
<1>2. IInv /\ [Next]_vars => IInv'
  BY NextKeeps
<1>3. IInv => TypeOK
  BY InvariantImplies
<1> QED BY <1>1, <1>2, <1>3, PTL DEF Spec
=============================================================================
