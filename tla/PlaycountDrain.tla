-------------------------- MODULE PlaycountDrain --------------------------
(***************************************************************************)
(* Play counts on their way into the search index: a request takes the     *)
(* daily slot of its listener, increments the column, marks the track      *)
(* dirty in a Redis set and commits afterwards; a loop in every API process*)
(* pops dirty ids, loads the tracks and writes their documents.            *)
(***************************************************************************)
EXTENDS Naturals, FiniteSets

CONSTANTS
  Track, Listener,
  Client,     \* concurrent HTTP requests
  Drain,      \* API processes, each with a drain loop
  Faults,     \* which faults occur: "index", "redis", "session", "crash"
  FaultBound  \* bound on faults

VARIABLES
  count,    \* [Track -> Nat]: the committed play_count
  indexed,  \* [Track -> Nat]: the play count in the search index
  slots,    \* the listener's slots of the day
  dirty,    \* the Redis set es:playcount_dirty
  req,      \* [Client -> ReqRec]
  drain,    \* [Drain -> DrainRec]
  faults,   \* faults that may still come
  excuses   \* [Track -> SUBSET Excuse]: why its document may be old for good

vars == <<count, indexed, slots, dirty, req, drain, faults, excuses>>

\* uncommitted: loaded before the request that marked it had committed;
\* overlap: written by a drain that had loaded it before another one.
Excuse == {"index", "redis", "crash", "uncommitted", "overlap"}

ReqRec   == [at : {"idle", "mark", "commit"}, track : Track]
DrainRec == [at : {"idle", "load", "index"}, popped : SUBSET Track,
             left : SUBSET Track, loaded : [Track -> Nat]]

NoReq   == [at |-> "idle", track |-> CHOOSE t \in Track : TRUE]
NoDrain == [at |-> "idle", popped |-> {}, left |-> {}, loaded |-> [t \in Track |-> 0]]

TypeOK ==
  /\ count \in [Track -> Nat] /\ indexed \in [Track -> Nat]
  /\ slots \subseteq Listener \X Track
  /\ dirty \subseteq Track
  /\ req \in [Client -> ReqRec]
  /\ drain \in [Drain -> DrainRec]
  /\ faults \in 0..FaultBound
  /\ excuses \in [Track -> SUBSET Excuse]

Init ==
  /\ count = [t \in Track |-> 0] /\ indexed = [t \in Track |-> 0]
  /\ slots = {} /\ dirty = {}
  /\ req = [q \in Client |-> NoReq]
  /\ drain = [d \in Drain |-> NoDrain]
  /\ faults = FaultBound
  /\ excuses = [t \in Track |-> {}]

Fault(kind) == kind \in Faults /\ faults > 0 /\ faults' = faults - 1

Excused(tracks, why) ==
  excuses' = [t \in Track |-> IF t \in tracks THEN excuses[t] \cup {why} ELSE excuses[t]]

----------------------------------------------------------------------------
(* bump_after_qualified_listen, bump_guest_from_play.                      *)

\* A second listen of the day is not counted, unless Redis does not answer.
Listen(q, l, t) ==
  /\ req[q].at = "idle"
  /\ \/ <<l, t>> \notin slots /\ UNCHANGED faults
     \/ <<l, t>> \in slots /\ Fault("redis")
  /\ slots' = slots \cup {<<l, t>>}
  /\ req' = [req EXCEPT ![q] = [at |-> "mark", track |-> t]]
  /\ UNCHANGED <<count, indexed, dirty, drain, excuses>>

\* mark_playcount_dirty_async, after the UPDATE and before the commit.
Mark(q) ==
  LET t == req[q].track
  IN /\ req[q].at = "mark"
     /\ \/ dirty' = dirty \cup {t} /\ UNCHANGED <<faults, excuses>>
        \/ Fault("redis") /\ Excused({t}, "redis") /\ UNCHANGED dirty
     /\ req' = [req EXCEPT ![q].at = "commit"]
     /\ UNCHANGED <<count, indexed, slots, drain>>

\* The increment is the database's own: play_count = play_count + 1.
Commit(q) ==
  /\ req[q].at = "commit"
  /\ count' = [count EXCEPT ![req[q].track] = @ + 1]
  /\ req' = [req EXCEPT ![q] = NoReq]
  /\ UNCHANGED <<indexed, slots, dirty, drain, faults, excuses>>

Rollback(q) ==
  /\ req[q].at # "idle"
  /\ req' = [req EXCEPT ![q] = NoReq]
  /\ UNCHANGED <<count, indexed, slots, dirty, drain, faults, excuses>>

----------------------------------------------------------------------------
(* _drain_batch.                                                           *)

\* SPOP takes up to 200 ids.
Pop(d) ==
  /\ drain[d].at = "idle"
  /\ \E ids \in SUBSET dirty \ {{}} :
       /\ dirty' = dirty \ ids
       /\ drain' = [drain EXCEPT ![d] =
            [NoDrain EXCEPT !.at = "load", !.popped = ids, !.left = ids]]
  /\ UNCHANGED <<count, indexed, slots, req, faults, excuses>>

Uncommitted(t) == \E q \in Client : req[q].at = "commit" /\ req[q].track = t

\* Mutant: the count without the play that marked the track.
SeenBefore(t) == count[t] - 1

Seen(t) == count[t]

Load(d) ==
  /\ drain[d].at = "load"
  /\ drain' = [drain EXCEPT ![d].at = "index",
                 ![d].loaded = [t \in Track |->
                                  IF t \in drain[d].popped THEN Seen(t) ELSE 0]]
  /\ Excused({t \in drain[d].popped \ dirty : Uncommitted(t)}, "uncommitted")
  /\ UNCHANGED <<count, indexed, slots, dirty, req, faults>>

\* index_track_document logs an error of the index and returns.
Index(d, t) ==
  /\ drain[d].at = "index" /\ t \in drain[d].left
  /\ \/ /\ indexed' = [indexed EXCEPT ![t] = drain[d].loaded[t]]
        /\ IF drain[d].loaded[t] < indexed[t] THEN Excused({t}, "overlap")
           ELSE UNCHANGED excuses
        /\ UNCHANGED faults
     \/ Fault("index") /\ Excused({t}, "index") /\ UNCHANGED indexed
  /\ drain' = [drain EXCEPT ![d].left = @ \ {t}]
  /\ UNCHANGED <<count, slots, dirty, req>>

\* Mutant: SREM of what was read, once it is indexed.
RemovesAgain(d) == dirty \ drain[d].popped

Remarked(d) == dirty

Finish(d) ==
  /\ drain[d].at = "index" /\ drain[d].left = {}
  /\ dirty' = Remarked(d)
  /\ drain' = [drain EXCEPT ![d] = NoDrain]
  /\ UNCHANGED <<count, indexed, slots, req, faults, excuses>>

\* Mutant: the ids that were not indexed yet are forgotten.
PutBackDone(d) == drain[d].popped \ drain[d].left

PutBack(d) == drain[d].popped

\* An exception of the session: all popped ids are put back, errors ignored.
Fail(d) ==
  /\ drain[d].at # "idle"
  /\ Fault("session")
  /\ \/ dirty' = dirty \cup PutBack(d) /\ UNCHANGED excuses
     \/ "redis" \in Faults /\ Excused(drain[d].left, "redis") /\ UNCHANGED dirty
  /\ drain' = [drain EXCEPT ![d] = NoDrain]
  /\ UNCHANGED <<count, indexed, slots, req>>

Crash(d) ==
  /\ drain[d].at # "idle"
  /\ Fault("crash")
  /\ Excused(drain[d].left, "crash")
  /\ drain' = [drain EXCEPT ![d] = NoDrain]
  /\ UNCHANGED <<count, indexed, slots, dirty, req>>

Next ==
  \/ \E q \in Client, l \in Listener, t \in Track : Listen(q, l, t)
  \/ \E q \in Client : Mark(q) \/ Commit(q) \/ Rollback(q)
  \/ \E d \in Drain : Pop(d) \/ Load(d) \/ Finish(d) \/ Fail(d) \/ Crash(d)
  \/ \E d \in Drain, t \in Track : Index(d, t)

Spec == Init /\ [][Next]_vars

DrainStep(d) == Pop(d) \/ Load(d) \/ Finish(d) \/ \E t \in Track : Index(d, t)

\* The loops go on.
Fairness == \A d \in Drain : WF_vars(DrainStep(d))

FairSpec == Spec /\ Fairness

----------------------------------------------------------------------------
(* Properties.                                                             *)

Signalled == dirty \cup UNION {drain[d].left : d \in Drain}

\* A document whose play count is old has its track in the set or in a batch at
\* work, so that it will be written again: a mark that comes while a batch with
\* the same track is indexed survives it. What the code cannot keep is named by
\* an excuse.
IndexKeepsUp ==
  \A t \in Track : indexed[t] # count[t] => t \in Signalled \/ excuses[t] # {}

\* Whatever is played while batches are at work, overlap or fail: in the end the
\* document has the play count of the row, or an excuse.
DocumentsCatchUp == \A t \in Track : []<>(indexed[t] = count[t] \/ excuses[t] # {})
=============================================================================
