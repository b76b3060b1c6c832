-------------------------- MODULE SchedulerProofs --------------------------
(***************************************************************************)
(* Proofs about what Redis keeps apart by keys that expire. A tick of a    *)
(* schedule is enqueued once, for every number of schedules, processes,    *)
(* crons, ticks and faults; the cap of the outbound semaphores is at the   *)
(* end of the module.                                                      *)
(***************************************************************************)
EXTENDS Scheduler, OutboundSemaphore, FiniteSetTheorems, TLAPS

\* What is asked of the constants.
Sizes == MaxTick \in Nat \ {0} /\ PollFaultBound \in Nat /\ Sched # {} /\ Cron # {}

LoadedNext(p, s) == proc[p].loaded[s].next

Polls(p)   == proc[p].at \in {"row", "kick"}
Holding(p) == proc[p].at = "kick" /\ proc[p].slot
Held(p)    == <<proc[p].kicking, LoadedNext(p, proc[p].kicking)>>

\* No poll is ahead of the clock, and the clock leaves room for a next tick.
TimeSound ==
  /\ \A c \in Cron : passed[c] <= MaxTick - 1
  /\ \A p \in Process, c \in Cron : proc[p].now[c] <= passed[c]

\* Only what is due is kicked.
KicksDue ==
  \A p \in Process : At(p, "kick") => DueAt(LoadedNext(p, proc[p].kicking), proc[p].now)

\* Who kicks with a slot has it, and nobody has kicked the tick before.
SlotsHeld ==
  \A p \in Process : Holding(p) => Held(p) \in tickSlots /\ kicks[Held(p)] = 0

SlotsApart ==
  \A p, q \in Process : p # q /\ Holding(p) /\ Holding(q) => Held(p) # Held(q)

\* What a poll with this record knows of the moment: it has not loaded it, would
\* not write it, and took place when it had passed.
Past(r, s, m) == r.loaded[s].next # m /\ r.new[s] # m /\ r.now[m.cron] >= m.tick

\* Neither the row nor a poll can bring the moment back.
Gone(s, m) ==
  /\ sched[s].next # m
  /\ \A p \in Process : Polls(p) => Past(proc[p], s, m)

\* A tick that was enqueued has passed; its slot is held until it is gone for
\* good.
KickedSettled ==
  \A s \in Sched, m \in Moment :
    kicks[<<s, m>>] > 0 => /\ m.tick <= passed[m.cron]
                           /\ <<s, m>> \in tickSlots \/ Gone(s, m)

Once == \A s \in Sched, m \in Moment : kicks[<<s, m>>] <= 1

IInv == /\ ScheduleTypes /\ TimeSound /\ KicksDue
        /\ SlotsHeld /\ SlotsApart /\ KickedSettled /\ Once

----------------------------------------------------------------------------

\* A row without next_run_at, and a process that sleeps.
LEMMA NothingType ==
  ASSUME Sizes
  PROVE  /\ NoRun \in [cron : Cron, tick : {0}] /\ NoRun \notin Moment
         /\ Nothing \in [cron : Cron, next : Moment \cup {NoRun}]
         /\ Nothing.next = NoRun
         /\ Asleep \in ProcRec /\ Asleep.at = "sleep"
         /\ \A c \in Cron : Asleep.now[c] = 0
<1>1. NoRun \in [cron : Cron, tick : {0}]
  BY DEF NoRun, Sizes
<1>2. NoRun \notin Moment
  BY <1>1 DEF Moment
<1>3. Nothing \in [cron : Cron, next : Moment \cup {NoRun}] /\ Nothing.next = NoRun
  BY <1>1 DEF Nothing
<1>4. (CHOOSE s \in Sched : TRUE) \in Sched
  BY DEF Sizes
<1>5. 0 \in 0..MaxTick
  BY DEF Sizes
<1>6. Asleep \in ProcRec /\ Asleep.at = "sleep" /\ \A c \in Cron : Asleep.now[c] = 0
  BY <1>3, <1>4, <1>5 DEF Asleep, ProcRec
<1> QED BY <1>1, <1>2, <1>3, <1>6

\* A moment is told apart from NoRun by its tick.
LEMMA MomentType ==
  ASSUME Sizes, NEW m \in Moment
  PROVE  m.cron \in Cron /\ m.tick \in 1..MaxTick /\ m # NoRun
  BY NothingType DEF Moment

\* A key is a schedule with a moment.
LEMMA KeyType ==
  ASSUME NEW s \in Sched, NEW m \in Moment PROVE <<s, m>> \in Key
  BY DEF Key

\* The invariant holds at the beginning.
LEMMA InitHolds == ASSUME Sizes, ScheduleInit PROVE IInv
<1>1. \A p \in Process : proc[p] = Asleep
  BY DEF ScheduleInit
<1>2. ScheduleTypes
  <2>1. sched \in [Sched -> Row]
    BY NothingType DEF ScheduleInit, Row
  <2>2. proc \in [Process -> ProcRec]
    BY NothingType DEF ScheduleInit
  <2>3. passed \in [Cron -> 0..MaxTick] /\ pollFaults \in 0..PollFaultBound
    BY DEF ScheduleInit, Sizes
  <2>4. leader = Nobody /\ tickSlots = {} /\ kicks \in [Key -> Nat]
    BY DEF ScheduleInit
  <2> QED BY <2>1, <2>2, <2>3, <2>4 DEF ScheduleTypes, Holder
<1>3. TimeSound
  BY <1>1, NothingType DEF ScheduleInit, TimeSound, Sizes
<1>4. \A p \in Process : ~Polls(p) /\ ~Holding(p) /\ ~At(p, "kick")
  BY <1>1, NothingType DEF Polls, Holding, At
<1>5. KicksDue /\ SlotsHeld /\ SlotsApart
  BY <1>4 DEF KicksDue, SlotsHeld, SlotsApart
<1>6. \A s \in Sched, m \in Moment : kicks[<<s, m>>] = 0
  BY KeyType DEF ScheduleInit
<1>7. KickedSettled /\ Once
  BY <1>6 DEF KickedSettled, Once
<1> QED BY <1>2, <1>3, <1>5, <1>7 DEF IInv

\* Nobody's kick is counted but that of p, as the first of its tick.
Counts(p) ==
  /\ kicks' \in [Key -> Nat]
  /\ \A k \in Key : \/ kicks'[k] = kicks[k]
                    \/ Holding(p) /\ k = Held(p) /\ kicks'[k] = 1

LEMMA CountsNothing ==
  ASSUME IInv, NEW p, UNCHANGED kicks PROVE Counts(p)
  BY DEF IInv, ScheduleTypes, Counts

\* What is held is a key, of a tick that has passed.
LEMMA HeldType ==
  ASSUME Sizes, IInv, NEW p \in Process, At(p, "kick")
  PROVE  /\ proc[p].kicking \in Sched /\ LoadedNext(p, proc[p].kicking) \in Moment
         /\ LoadedNext(p, proc[p].kicking).tick
              <= passed[LoadedNext(p, proc[p].kicking).cron]
<1> DEFINE s == proc[p].kicking
           m == LoadedNext(p, s)
<1>1. proc[p] \in ProcRec /\ s \in Sched
  BY DEF IInv, ScheduleTypes, ProcRec
<1>2. DueAt(m, proc[p].now)
  BY DEF IInv, KicksDue
<1>3. m \in Moment
  BY <1>1, <1>2 DEF LoadedNext, ProcRec, DueAt
<1>4. m.cron \in Cron /\ m.tick \in Nat /\ passed[m.cron] \in Nat
  BY <1>3, MomentType DEF IInv, ScheduleTypes
<1>5. m.tick <= proc[p].now[m.cron] /\ proc[p].now[m.cron] \in Nat
  BY <1>1, <1>2, <1>4 DEF DueAt, ProcRec
<1>6. m.tick <= passed[m.cron]
  BY <1>4, <1>5 DEF IInv, TimeSound
<1> QED BY <1>1, <1>3, <1>6

\* A process moves on without a slot and without a moment that is gone.
LEMMA ProcMoves ==
  ASSUME Sizes, IInv, NEW p \in Process, NEW r \in ProcRec,
         proc' = [proc EXCEPT ![p] = r],
         UNCHANGED <<sched, passed, tickSlots>>, Counts(p),
         leader' \in Holder, pollFaults' \in 0..PollFaultBound,
         \A c \in Cron : r.now[c] <= passed[c],
         ~(r.at = "kick" /\ r.slot),
         r.at = "kick" => DueAt(r.loaded[r.kicking].next, r.now),
         \A s \in Sched, m \in Moment :
           r.at \in {"row", "kick"} /\ m.tick <= passed[m.cron] /\ Gone(s, m)
             => Past(r, s, m)
  PROVE  IInv'
<1>1. /\ proc'[p] = r
      /\ \A q \in Process : q # p => proc'[q] = proc[q]
  BY DEF IInv, ScheduleTypes
<1>2. ScheduleTypes'
  BY DEF IInv, ScheduleTypes, Counts
<1>3. TimeSound'
  BY <1>1 DEF IInv, TimeSound
<1>4. KicksDue'
  BY <1>1 DEF IInv, KicksDue, At, LoadedNext
<1>5. ~Holding(p)' /\ \A q \in Process : q # p => Holding(q)' = Holding(q) /\ Held(q)' = Held(q)
  BY <1>1 DEF Holding, Held, LoadedNext
<1>6. SlotsHeld'
  <2> SUFFICES ASSUME NEW q \in Process, q # p, Holding(q)
               PROVE  Held(q) \in tickSlots /\ kicks'[Held(q)] = 0
    BY <1>5 DEF SlotsHeld
  <2>1. Held(q) \in tickSlots /\ Held(q) \in Key /\ kicks[Held(q)] = 0
    BY DEF IInv, SlotsHeld, ScheduleTypes
  <2>2. Holding(p) => Held(p) # Held(q)
    BY DEF IInv, SlotsApart
  <2> QED BY <2>1, <2>2 DEF Counts
<1>7. SlotsApart'
  BY <1>5 DEF IInv, SlotsApart
<1>8. ASSUME NEW s \in Sched, NEW m \in Moment, m.tick <= passed[m.cron], Gone(s, m)
      PROVE  Gone(s, m)'
  BY <1>1, <1>8 DEF Gone, Polls, Past
<1>9. ASSUME NEW s \in Sched, NEW m \in Moment, Holding(p), <<s, m>> = Held(p)
      PROVE  <<s, m>> \in tickSlots /\ m.tick <= passed[m.cron]
  <2>1. <<s, m>> \in tickSlots
    BY <1>9 DEF IInv, SlotsHeld
  <2>2. m = LoadedNext(p, proc[p].kicking) /\ At(p, "kick")
    BY <1>9 DEF Held, Holding, At
  <2> QED BY <2>1, <2>2, HeldType
<1>10. KickedSettled'
  <2> SUFFICES ASSUME NEW s \in Sched, NEW m \in Moment, kicks'[<<s, m>>] > 0
               PROVE  m.tick <= passed[m.cron] /\ (<<s, m>> \in tickSlots \/ Gone(s, m)')
    BY DEF KickedSettled
  <2>1. CASE kicks'[<<s, m>>] = kicks[<<s, m>>]
    BY <2>1, <1>8 DEF IInv, KickedSettled
  <2>2. CASE Holding(p) /\ <<s, m>> = Held(p)
    BY <2>2, <1>9
  <2> QED BY <2>1, <2>2, KeyType DEF Counts
<1>11. Once'
  <2> SUFFICES ASSUME NEW s \in Sched, NEW m \in Moment PROVE kicks'[<<s, m>>] <= 1
    BY DEF Once
  <2>1. kicks'[<<s, m>>] = kicks[<<s, m>>] \/ kicks'[<<s, m>>] = 1
    BY KeyType DEF Counts
  <2>2. kicks[<<s, m>>] <= 1
    BY DEF IInv, Once
  <2> QED BY <2>1, <2>2
<1> QED BY <1>2, <1>3, <1>4, <1>6, <1>7, <1>10, <1>11 DEF IInv

\* A process goes to a stage at which it does not poll.
LEMMA GotoStep ==
  ASSUME Sizes, IInv, NEW p \in Process, NEW stage \in {"sleep", "get", "expire", "load", "release"},
         Goto(p, stage), UNCHANGED <<sched, passed, tickSlots, kicks>>,
         leader' \in Holder, pollFaults' \in 0..PollFaultBound
  PROVE  IInv'
<1> DEFINE r == [proc[p] EXCEPT !.at = stage]
<1>1. r \in ProcRec /\ r.at = stage /\ r.now = proc[p].now
  BY DEF IInv, ScheduleTypes, ProcRec
<1>2. proc' = [proc EXCEPT ![p] = r]
  BY DEF Goto
<1>3. \A c \in Cron : r.now[c] <= passed[c]
  BY <1>1 DEF IInv, TimeSound
<1> HIDE DEF r
<1> QED BY <1>1, <1>2, <1>3, CountsNothing, ProcMoves

\* A process goes to sleep.
LEMMA SleepStep ==
  ASSUME Sizes, IInv, NEW p \in Process,
         Sleep(p), UNCHANGED <<sched, passed, tickSlots, kicks>>,
         leader' \in Holder, pollFaults' \in 0..PollFaultBound
  PROVE  IInv'
<1>1. \A c \in Cron : Asleep.now[c] <= passed[c]
  BY NothingType DEF IInv, ScheduleTypes
<1>2. proc' = [proc EXCEPT ![p] = Asleep]
  BY DEF Sleep
<1> QED BY <1>1, <1>2, NothingType, CountsNothing, ProcMoves

\* The row of a schedule was looked at: it is written with a tick that lies in
\* the future of the poll, or not at all.
LEMMA LookedAtStep ==
  ASSUME Sizes, IInv, NEW p \in Process, NEW s \in Sched, Polls(p),
         NEW new, new \in {NoRun, NextRun(p, s)},
         LookedAt(p, s, new), UNCHANGED <<sched, passed, tickSlots, leader>>, Counts(p),
         pollFaults' \in 0..PollFaultBound
  PROVE  IInv'
<1> DEFINE r == [proc[p] EXCEPT !.at = "row", !.todo = @ \ {s}, !.new[s] = new,
                                !.loaded[s] = Nothing, !.slot = FALSE]
<1>1. proc[p] \in ProcRec
  BY DEF IInv, ScheduleTypes
<1>2. /\ NextRun(p, s) \in Moment
      /\ \A m \in Moment : proc[p].now[m.cron] >= m.tick => NextRun(p, s) # m
  <2>1. proc[p].loaded[s].cron \in Cron
    BY <1>1 DEF ProcRec
  <2>2. \A c \in Cron : proc[p].now[c] \in 0..MaxTick /\ proc[p].now[c] <= MaxTick - 1
    BY <1>1 DEF ProcRec, IInv, TimeSound, ScheduleTypes, Sizes
  <2> QED BY <2>1, <2>2 DEF NextRun, Moment, Sizes
<1>3. new \in Moment \cup {NoRun}
  BY <1>2
<1>4. r \in ProcRec
  BY <1>1, <1>3, NothingType DEF ProcRec
<1>5. /\ r.at = "row" /\ r.now = proc[p].now
      /\ r.new = [proc[p].new EXCEPT ![s] = new]
      /\ r.loaded = [proc[p].loaded EXCEPT ![s] = Nothing]
  BY <1>1 DEF ProcRec
<1>6. proc' = [proc EXCEPT ![p] = r]
  BY <1>1 DEF LookedAt, ProcRec
<1>7. \A c \in Cron : r.now[c] <= passed[c]
  BY <1>5 DEF IInv, TimeSound
<1>8. ASSUME NEW t \in Sched, NEW m \in Moment, Gone(t, m)
      PROVE  Past(r, t, m)
  <2>1. Past(proc[p], t, m)
    BY <1>8 DEF Gone
  <2>2. r.now[m.cron] >= m.tick
    BY <2>1, <1>5 DEF Past
  <2>3. r.new[t] # m
    BY <2>1, <1>1, <1>2, <1>5, MomentType DEF Past, ProcRec
  <2>4. r.loaded[t].next # m
    BY <2>1, <1>1, <1>5, MomentType, NothingType DEF Past, ProcRec
  <2> QED BY <2>2, <2>3, <2>4 DEF Past
<1>9. leader' \in Holder
  BY DEF IInv, ScheduleTypes
<1> HIDE DEF r
<1> QED BY <1>4, <1>5, <1>6, <1>7, <1>8, <1>9, ProcMoves

\* A poll loads the enabled rows and the time.
LEMMA LoadStep ==
  ASSUME Sizes, IInv, NEW p \in Process, LoadRows(p) PROVE IInv'
<1> DEFINE enabled == {s \in Sched : sched[s].exists /\ sched[s].enabled}
           loaded == [s \in Sched |->
                        IF s \in enabled THEN [cron |-> sched[s].cron, next |-> sched[s].next]
                        ELSE Nothing]
           r == [Asleep EXCEPT !.at = "row", !.now = passed, !.todo = enabled,
                               !.loaded = loaded]
<1>1. \A s \in Sched : sched[s] \in Row
  BY DEF IInv, ScheduleTypes
<1>2. loaded \in [Sched -> [cron : Cron, next : Moment \cup {NoRun}]]
  BY <1>1, NothingType DEF Row
<1>3. \A s \in Sched : loaded[s].next \in {sched[s].next, NoRun}
  BY <1>1, NothingType
<1>4. enabled \in SUBSET Sched /\ passed \in [Cron -> 0..MaxTick]
  BY DEF IInv, ScheduleTypes
<1> HIDE DEF enabled, loaded
<1>5. /\ r \in ProcRec /\ r.at = "row" /\ r.now = passed /\ r.loaded = loaded
      /\ r.new = Asleep.new /\ ~(r.at = "kick")
  BY <1>2, <1>4, NothingType DEF ProcRec
<1>6. \A s \in Sched : r.new[s] = NoRun
  BY <1>5 DEF Asleep
<1>7. proc' = [proc EXCEPT ![p] = r]
  BY DEF LoadRows, enabled, loaded
<1>8. \A c \in Cron : r.now[c] <= passed[c]
  BY <1>4, <1>5
<1>9. ASSUME NEW s \in Sched, NEW m \in Moment, m.tick <= passed[m.cron], Gone(s, m)
      PROVE  Past(r, s, m)
  <2>1. passed[m.cron] \in 0..MaxTick /\ m.tick \in 1..MaxTick /\ m # NoRun
    BY <1>4, MomentType
  <2>2. r.now[m.cron] >= m.tick
    BY <2>1, <1>5, <1>9 DEF Sizes
  <2>3. r.new[s] # m /\ r.loaded[s].next # m
    BY <2>1, <1>3, <1>5, <1>6, <1>9 DEF Gone
  <2> QED BY <2>2, <2>3 DEF Past
<1>10. /\ UNCHANGED <<sched, passed, tickSlots, kicks>>
       /\ leader' \in Holder /\ pollFaults' \in 0..PollFaultBound
  BY DEF LoadRows, IInv, ScheduleTypes
<1> HIDE DEF r
<1> QED BY <1>5, <1>7, <1>8, <1>9, <1>10, CountsNothing, ProcMoves

\* A poll takes the slot of a tick, finds it taken, or cannot ask for it.
LEMMA TakeSlotStep ==
  ASSUME Sizes, IInv, NEW p \in Process, NEW s \in Sched, TakeSlot(p, s) PROVE IInv'
<1> DEFINE m == LoadedNext(p, s)
           r(slot) == [proc[p] EXCEPT !.at = "kick", !.kicking = s, !.slot = slot]
<1>1. /\ At(p, "row") /\ DueAt(m, proc[p].now)
      /\ UNCHANGED <<sched, passed, leader, kicks>>
  BY DEF TakeSlot, LoadedNext
<1>2. proc[p] \in ProcRec
  BY DEF IInv, ScheduleTypes
<1>3. m \in Moment
  BY <1>1, <1>2 DEF LoadedNext, ProcRec, DueAt
<1>4. Slot(p, s) = <<s, m>>
  BY DEF Slot, LoadedNext
<1>5. ASSUME NEW slot \in BOOLEAN
      PROVE  /\ r(slot) \in ProcRec /\ r(slot).at = "kick" /\ r(slot).kicking = s
             /\ r(slot).slot = slot /\ r(slot).loaded = proc[p].loaded
             /\ r(slot).new = proc[p].new /\ r(slot).now = proc[p].now
  BY <1>2 DEF ProcRec
<1>6. Polls(p)
  BY <1>1 DEF Polls, At
<1>7. CASE /\ <<s, m>> \in tickSlots /\ LookedAt(p, s, NextRun(p, s))
           /\ UNCHANGED <<tickSlots, pollFaults>>
  <2>1. pollFaults' \in 0..PollFaultBound
    BY <1>7 DEF IInv, ScheduleTypes
  <2> QED BY <1>1, <1>6, <1>7, <2>1, CountsNothing, LookedAtStep
<1>8. CASE /\ PollFault /\ UNCHANGED tickSlots
           /\ proc' = [proc EXCEPT ![p].at = "kick", ![p].kicking = s, ![p].slot = FALSE]
  <2>1. pollFaults' \in 0..PollFaultBound
    BY <1>8 DEF IInv, ScheduleTypes, PollFault, Sizes
  <2>2. proc' = [proc EXCEPT ![p] = r(FALSE)]
    BY <1>8, <1>2 DEF ProcRec
  <2>3. leader' \in Holder
    BY <1>1 DEF IInv, ScheduleTypes
  <2>4. \A c \in Cron : r(FALSE).now[c] <= passed[c]
    BY <1>5 DEF IInv, TimeSound
  <2>5. DueAt(r(FALSE).loaded[r(FALSE).kicking].next, r(FALSE).now)
    BY <1>1, <1>5 DEF LoadedNext
  <2>6. \A t \in Sched, n \in Moment : Gone(t, n) => Past(r(FALSE), t, n)
    BY <1>5, <1>6 DEF Gone, Past
  <2>7. r(FALSE) \in ProcRec /\ r(FALSE).slot = FALSE
    BY <1>5
  <2> HIDE DEF r
  <2> QED BY <1>1, <1>8, <2>1, <2>2, <2>3, <2>4, <2>5, <2>6, <2>7, CountsNothing, ProcMoves
<1>9. CASE /\ <<s, m>> \notin tickSlots /\ tickSlots' = tickSlots \cup {<<s, m>>} /\ UNCHANGED pollFaults
           /\ proc' = [proc EXCEPT ![p].at = "kick", ![p].kicking = s, ![p].slot = TRUE]
  <2>1. /\ proc' = [proc EXCEPT ![p] = r(TRUE)] /\ proc'[p] = r(TRUE)
        /\ \A q \in Process : q # p => proc'[q] = proc[q]
    BY <1>9, <1>2 DEF ProcRec, IInv, ScheduleTypes
  <2>2. /\ r(TRUE) \in ProcRec /\ r(TRUE).at = "kick" /\ r(TRUE).kicking = s
         /\ r(TRUE).slot = TRUE /\ r(TRUE).loaded = proc[p].loaded
         /\ r(TRUE).new = proc[p].new /\ r(TRUE).now = proc[p].now
    BY <1>5
  <2> HIDE DEF r
  <2>14. /\ proc'[p].at = "kick" /\ proc'[p].loaded = proc[p].loaded
         /\ proc'[p].new = proc[p].new /\ proc'[p].now = proc[p].now
         /\ \A q \in Process : proc'[q].now = proc[q].now
    BY <2>1, <2>2
  <2>4. ScheduleTypes'
    <3>1. proc' \in [Process -> ProcRec]
      BY <2>1, <2>2 DEF IInv, ScheduleTypes
    <3>2. tickSlots' \subseteq Key
      BY <1>3, <1>9, KeyType DEF IInv, ScheduleTypes
    <3> QED BY <3>1, <3>2, <1>1, <1>9 DEF IInv, ScheduleTypes
  <2>5. TimeSound'
    BY <1>1, <2>14 DEF IInv, TimeSound
  <2>6. KicksDue'
    BY <1>1, <2>2, <2>1 DEF IInv, KicksDue, At, LoadedNext
  <2>7. kicks[<<s, m>>] = 0
    <3>1. ~Gone(s, m)
      BY <1>6 DEF Gone, Past, LoadedNext
    <3>2. ~(kicks[<<s, m>>] > 0)
      BY <3>1, <1>3, <1>9 DEF IInv, KickedSettled
    <3>3. kicks[<<s, m>>] \in Nat
      BY <1>3, KeyType DEF IInv, ScheduleTypes
    <3> QED BY <3>2, <3>3
  <2>8. /\ Held(p)' = <<s, m>>
        /\ \A q \in Process : q # p => Holding(q)' = Holding(q) /\ Held(q)' = Held(q)
    BY <2>2, <2>1 DEF Held, Holding, LoadedNext
  <2>9. \A q \in Process : q # p /\ Holding(q) => Held(q) \in tickSlots
    BY DEF IInv, SlotsHeld
  <2>10. SlotsHeld'
    BY <1>1, <1>9, <2>7, <2>8 DEF IInv, SlotsHeld
  <2>11. SlotsApart'
    BY <1>9, <2>8, <2>9 DEF IInv, SlotsApart
  <2>12. ASSUME NEW t \in Sched, NEW n \in Moment, Gone(t, n) PROVE Gone(t, n)'
    <3>1. Past(proc[p], t, n)' = Past(proc[p], t, n) /\ Past(proc[p], t, n)
      BY <1>6, <2>12, <2>14 DEF Gone, Past
    <3>2. \A q \in Process : Polls(q)' => Past(proc[q], t, n)'
      BY <2>1, <2>12, <3>1 DEF Gone, Polls
    <3> QED BY <1>1, <2>12, <3>2 DEF Gone
  <2>13. KickedSettled'
    BY <1>1, <1>9, <2>12 DEF IInv, KickedSettled
  <2>15. Once'
    BY <1>1 DEF IInv, Once
  <2> QED BY <2>4, <2>5, <2>6, <2>10, <2>11, <2>13, <2>15 DEF IInv
<1> QED BY <1>4, <1>7, <1>8, <1>9 DEF TakeSlot

\* A kick with a slot is the first of its tick.
LEMMA KickStep ==
  ASSUME Sizes, IInv, NEW p \in Process, Kick(p) PROVE IInv'
<1> DEFINE s == proc[p].kicking
<1>1. /\ At(p, "kick") /\ LookedAt(p, s, NextRun(p, s))
      /\ UNCHANGED <<sched, passed, leader, tickSlots>>
  BY DEF Kick
<1>2. s \in Sched /\ LoadedNext(p, s) \in Moment
  BY <1>1, HeldType
<1>3. Polls(p)
  BY <1>1 DEF Polls, At
<1>4. pollFaults' \in 0..PollFaultBound
  BY DEF Kick, PollFault, IInv, ScheduleTypes, Sizes
<1>5. Counts(p)
  <2>1. CASE UNCHANGED kicks
    BY <2>1, CountsNothing
  <2>2. CASE proc[p].slot /\ kicks' = [kicks EXCEPT ![Held(p)] = @ + 1]
    <3>1. Holding(p) /\ Held(p) \in Key
      BY <1>1, <1>2, <2>2, KeyType DEF Holding, Held, At
    <3>2. kicks[Held(p)] = 0
      BY <3>1 DEF IInv, SlotsHeld
    <3> QED BY <2>2, <3>1, <3>2 DEF Counts, IInv, ScheduleTypes
  <2> QED BY <2>1, <2>2 DEF Kick, Held, LoadedNext
<1> QED BY <1>1, <1>2, <1>3, <1>4, <1>5, LookedAtStep

\* Another writer of the rows: next_run_at stays or is taken back.
LEMMA SchedMoves ==
  ASSUME Sizes, IInv, sched' \in [Sched -> Row],
         \A s \in Sched : sched'[s].next \in {sched[s].next, NoRun},
         UNCHANGED <<passed, leader, tickSlots, proc, pollFaults, kicks>>
  PROVE  IInv'
<1>1. ScheduleTypes'
  BY DEF IInv, ScheduleTypes
<1>2. TimeSound' /\ KicksDue' /\ SlotsHeld' /\ SlotsApart' /\ Once'
  BY DEF IInv, TimeSound, KicksDue, At, LoadedNext, SlotsHeld, SlotsApart, Holding, Held, Once
<1>3. ASSUME NEW s \in Sched, NEW m \in Moment, Gone(s, m) PROVE Gone(s, m)'
  BY <1>3, MomentType DEF Gone, Polls, Past
<1>4. KickedSettled'
  BY <1>3 DEF IInv, KickedSettled
<1> QED BY <1>1, <1>2, <1>4 DEF IInv

\* The commit writes ticks that a poll has found to lie ahead of it.
LEMMA CommitStep ==
  ASSUME Sizes, IInv, NEW p \in Process, CommitRows(p) PROVE IInv'
<1>1. At(p, "row") /\ Sleep(p) /\ UNCHANGED <<passed, leader, tickSlots, pollFaults, kicks>>
  BY DEF CommitRows
<1>2. /\ proc'[p] = Asleep /\ \A q \in Process : q # p => proc'[q] = proc[q]
      /\ proc[p] \in ProcRec
  BY <1>1 DEF Sleep, IInv, ScheduleTypes
<1>3. \A s \in Sched : \/ sched'[s] = sched[s]
                       \/ /\ proc[p].new[s] # NoRun
                          /\ sched'[s] = [sched[s] EXCEPT !.next = proc[p].new[s]]
  BY DEF CommitRows, Dirty
<1>4. sched' \in [Sched -> Row]
  <2>1. sched' = [s \in Sched |-> sched'[s]]
    BY DEF CommitRows, IInv, ScheduleTypes
  <2>2. \A s \in Sched : proc[p].new[s] \in Moment \cup {NoRun} /\ sched[s] \in Row
    BY <1>2 DEF ProcRec, IInv, ScheduleTypes
  <2>3. \A s \in Sched : sched'[s] \in Row
    BY <1>3, <2>2 DEF Row
  <2> QED BY <2>1, <2>3
<1>5. ScheduleTypes'
  BY <1>1, <1>4, NothingType DEF Sleep, IInv, ScheduleTypes
<1>6. TimeSound'
  BY <1>1, <1>2, NothingType DEF IInv, ScheduleTypes, TimeSound
<1>7. /\ ~Holding(p)' /\ ~At(p, "kick")' /\ ~Polls(p)'
      /\ \A q \in Process : q # p => Holding(q)' = Holding(q) /\ Held(q)' = Held(q)
  BY <1>2, NothingType DEF Holding, At, Polls, Held, LoadedNext
<1>8. KicksDue'
  BY <1>2, <1>7 DEF IInv, KicksDue, At, LoadedNext
<1>9. SlotsHeld' /\ SlotsApart' /\ Once'
  BY <1>1, <1>7 DEF IInv, SlotsHeld, SlotsApart, Once
<1>10. ASSUME NEW s \in Sched, NEW m \in Moment, Gone(s, m) PROVE Gone(s, m)'
  <2>1. Past(proc[p], s, m) /\ sched[s].next # m
    BY <1>1, <1>10 DEF Gone, Polls, At
  <2>2. sched[s] \in Row /\ sched'[s].next \in {sched[s].next, proc[p].new[s]}
    BY <1>3 DEF IInv, ScheduleTypes, Row
  <2>3. sched'[s].next # m
    BY <2>1, <2>2 DEF Past
  <2>4. \A q \in Process : Polls(q)' => Past(proc'[q], s, m)
    BY <1>2, <1>7, <1>10 DEF Gone, Polls
  <2> QED BY <2>3, <2>4 DEF Gone
<1>11. KickedSettled'
  BY <1>1, <1>10 DEF IInv, KickedSettled
<1> QED BY <1>5, <1>6, <1>8, <1>9, <1>11 DEF IInv

\* The clock moves on.
LEMMA TickStep ==
  ASSUME Sizes, IInv, NEW c \in Cron, TickPasses(c) PROVE IInv'
<1>1. /\ passed' = [passed EXCEPT ![c] = @ + 1] /\ passed[c] < MaxTick - 1
      /\ UNCHANGED <<sched, leader, tickSlots, proc, pollFaults, kicks>>
      /\ passed \in [Cron -> 0..MaxTick]
  BY DEF TickPasses, IInv, ScheduleTypes
<1>2. /\ passed' \in [Cron -> 0..MaxTick]
      /\ \A d \in Cron : passed'[d] <= MaxTick - 1 /\ passed[d] <= passed'[d]
                         /\ passed[d] \in Nat /\ passed'[d] \in Nat
  BY <1>1 DEF IInv, TimeSound, Sizes
<1>3. ScheduleTypes'
  BY <1>1, <1>2 DEF IInv, ScheduleTypes
<1>4. \A p \in Process, d \in Cron : proc[p].now[d] \in Nat
  BY DEF IInv, ScheduleTypes, ProcRec
<1>5. TimeSound'
  BY <1>1, <1>2, <1>4 DEF IInv, TimeSound
<1>6. KicksDue' /\ SlotsHeld' /\ SlotsApart' /\ Once'
  BY <1>1 DEF IInv, KicksDue, At, LoadedNext, SlotsHeld, SlotsApart, Holding, Held, Once
<1>7. KickedSettled'
  <2> SUFFICES ASSUME NEW s \in Sched, NEW m \in Moment, kicks[<<s, m>>] > 0
               PROVE  m.tick <= passed'[m.cron] /\ (<<s, m>> \in tickSlots \/ Gone(s, m)')
    BY <1>1 DEF KickedSettled
  <2>1. m.cron \in Cron /\ m.tick \in Nat
    BY MomentType
  <2>2. Gone(s, m)' = Gone(s, m)
    BY <1>1 DEF Gone, Polls, Past
  <2> QED BY <1>2, <2>1, <2>2 DEF IInv, KickedSettled
<1> QED BY <1>3, <1>5, <1>6, <1>7 DEF IInv

\* A slot that expires leaves a tick that nobody can bring back.
LEMMA ExpireStep ==
  ASSUME Sizes, IInv, NEW k \in Key, SlotExpires(k) PROVE IInv'
<1>1. /\ tickSlots' = tickSlots \ {k} /\ ~Polling /\ sched[k[1]].next # k[2]
      /\ UNCHANGED <<sched, passed, leader, proc, pollFaults, kicks>>
  BY DEF SlotExpires
<1>2. \A p \in Process : ~Polls(p) /\ ~Holding(p)
  BY <1>1 DEF Polling, Polls, Holding
<1>3. ScheduleTypes' /\ TimeSound' /\ KicksDue' /\ Once'
  BY <1>1 DEF IInv, ScheduleTypes, TimeSound, KicksDue, At, LoadedNext, Once
<1>4. SlotsHeld' /\ SlotsApart'
  BY <1>1, <1>2 DEF SlotsHeld, SlotsApart, Holding
<1>5. ASSUME NEW s \in Sched, NEW m \in Moment, k = <<s, m>> PROVE Gone(s, m)
  BY <1>1, <1>2, <1>5 DEF Gone
<1>6. \A s \in Sched, m \in Moment : Gone(s, m)' = Gone(s, m)
  BY <1>1 DEF Gone, Polls, Past
<1>7. KickedSettled'
  BY <1>1, <1>5, <1>6 DEF IInv, KickedSettled
<1> QED BY <1>3, <1>4, <1>7 DEF IInv

\* Only the lock changes.
LEMMA LockStep ==
  ASSUME IInv, leader' \in Holder,
         UNCHANGED <<sched, passed, tickSlots, proc, pollFaults, kicks>>
  PROVE  IInv'
<1>1. \A s \in Sched, m \in Moment : Gone(s, m)' = Gone(s, m)
  BY DEF Gone, Polls, Past
<1>2. ScheduleTypes' /\ TimeSound' /\ KicksDue'
  BY DEF IInv, ScheduleTypes, TimeSound, KicksDue, At, LoadedNext
<1>3. SlotsHeld' /\ SlotsApart' /\ Once'
  BY DEF IInv, SlotsHeld, SlotsApart, Holding, Held, LoadedNext, Once
<1>4. KickedSettled'
  BY <1>1 DEF IInv, KickedSettled
<1> QED BY <1>2, <1>3, <1>4 DEF IInv

----------------------------------------------------------------------------

\* The invariant is inductive.
LEMMA NextHolds == ASSUME Sizes, IInv, [ScheduleNext]_scheduleVars PROVE IInv'
<1>0. leader \in Holder /\ pollFaults \in 0..PollFaultBound
  BY DEF IInv, ScheduleTypes
<1>1. CASE UNCHANGED scheduleVars
  BY <1>0, <1>1, LockStep DEF scheduleVars
<1>2. ASSUME NEW p \in Process, SetLock(p) \/ GetLock(p) \/ ExtendLock(p) \/ Shutdown(p)
      PROVE  IInv'
  <2>1. /\ \/ Sleep(p)
           \/ \E stage \in {"get", "expire", "load", "release"} : Goto(p, stage)
        /\ leader' \in Holder /\ pollFaults' \in 0..PollFaultBound
        /\ UNCHANGED <<sched, passed, tickSlots, kicks>>
    BY <1>0, <1>2 DEF SetLock, GetLock, ExtendLock, Shutdown, Holder
  <2> QED BY <2>1, GotoStep, SleepStep
<1>3. ASSUME NEW p \in Process, DeleteLock(p) \/ PollFails(p) \/ ProcessDies(p)
      PROVE  IInv'
  <2>1. /\ Sleep(p) /\ leader' \in Holder /\ pollFaults' \in 0..PollFaultBound
        /\ UNCHANGED <<sched, passed, tickSlots, kicks>>
    BY <1>0, <1>3 DEF DeleteLock, PollFails, ProcessDies, PollFault, Holder, Sizes
  <2> QED BY <2>1, SleepStep
<1>4. ASSUME NEW p \in Process, LoadRows(p) \/ Kick(p) \/ CommitRows(p) PROVE IInv'
  BY <1>4, LoadStep, KickStep, CommitStep
<1>5. ASSUME NEW p \in Process, NEW s \in Sched, SkipRow(p, s) \/ TaskMissing(p, s)
      PROVE  IInv'
  <2>1. PICK new \in {NoRun, NextRun(p, s)} : LookedAt(p, s, new)
    BY <1>5 DEF SkipRow, TaskMissing
  <2>2. Polls(p) /\ UNCHANGED <<sched, passed, tickSlots, leader, kicks, pollFaults>>
    BY <1>5 DEF SkipRow, TaskMissing, Polls, At
  <2> QED BY <1>0, <2>1, <2>2, CountsNothing, LookedAtStep
<1>6. ASSUME NEW p \in Process, NEW s \in Sched, TakeSlot(p, s) PROVE IInv'
  BY <1>6, TakeSlotStep
<1>7. CASE LockExpires
  BY <1>7, LockStep DEF LockExpires, Holder
<1>8. ASSUME NEW c \in Cron, TickPasses(c) PROVE IInv'
  BY <1>8, TickStep
<1>9. ASSUME NEW k \in Key, SlotExpires(k) PROVE IInv'
  BY <1>9, ExpireStep
<1>10. ASSUME NEW s \in Sched, NEW c \in Cron, NEW on \in BOOLEAN,
              UpdateCron(s, c) \/ Enable(s, on) \/ Delete(s)
       PROVE  IInv'
  <2>1. sched \in [Sched -> Row]
    BY DEF IInv, ScheduleTypes
  <2>2. /\ sched' \in [Sched -> Row]
        /\ \A t \in Sched : sched'[t].next \in {sched[t].next, NoRun}
        /\ UNCHANGED <<passed, leader, tickSlots, proc, pollFaults, kicks>>
    <3>1. CASE UpdateCron(s, c)
      BY <3>1, <2>1, NothingType DEF UpdateCron, Row
    <3>2. CASE Enable(s, on)
      BY <3>2, <2>1 DEF Enable, Row
    <3>3. CASE Delete(s)
      BY <3>3, <2>1 DEF Delete, Row
    <3> QED BY <1>10, <3>1, <3>2, <3>3
  <2> QED BY <2>2, SchedMoves
<1> QED
  BY <1>1, <1>2, <1>3, <1>4, <1>5, <1>6, <1>7, <1>8, <1>9, <1>10
     DEF ScheduleNext, LoopStep, Sizes

\* The invariant, with the types, holds throughout.
THEOREM Inductive ==
  ASSUME Sizes PROVE ScheduleSpec => []IInv
<1>1. ScheduleInit => IInv
  BY InitHolds
<1>2. IInv /\ [ScheduleNext]_scheduleVars => IInv'
  BY NextHolds
<1> QED BY <1>1, <1>2, PTL DEF ScheduleSpec

\* One tick of a schedule is enqueued at most once, whatever the number of
\* processes that poll, whatever dies, expires, or is edited meanwhile.
THEOREM TicksOnce ==
  ASSUME Sizes PROVE ScheduleSpec => []TickOnce
<1>1. IInv => TickOnce
  BY DEF IInv, Once, TickOnce, Key
<1> QED BY <1>1, Inductive, PTL

-----------------------------------------------------------------------------
(***************************************************************************)
(* The cap of the outbound semaphores, which expire like the slots, for    *)
(* every number of callers and tokens and every cap.                       *)
(***************************************************************************)

CallBusy(c) == call[c].at \in {"trying", "working", "leaving"}
CallHolds(c) == call[c].at \in {"working", "leaving"}

\* No two calls under way have one token.
TokensDiffer ==
  \A c, d \in Caller : c # d /\ CallBusy(c) /\ CallBusy(d) => Mine(c) # Mine(d)

\* A call that works has its token in the set, or it has expired.
HoldersKnown == \A c \in Caller : CallHolds(c) => Mine(c) \in active \cup expired

LiveBounded == /\ IsFiniteSet(active)
               /\ Cardinality(LiveTokens) <= MaxActive

SlotsInv == SemaphoreTypes /\ TokensDiffer /\ HoldersKnown /\ LiveBounded

\* The set of live tokens is finite with the sorted set.
LEMMA LiveFinite == ASSUME IsFiniteSet(active) PROVE IsFiniteSet(LiveTokens)
  BY FS_Subset, LiveTokens \subseteq active DEF LiveTokens

\* A smaller sorted set, or more expired tokens, leave no more live tokens.
LEMMA FewerLive ==
  ASSUME NEW S, NEW T, IsFiniteSet(T), S \subseteq T, Cardinality(T) <= MaxActive,
         MaxActive \in Nat
  PROVE  IsFiniteSet(S) /\ Cardinality(S) <= MaxActive
<1>1. IsFiniteSet(S) /\ Cardinality(S) <= Cardinality(T)
  BY FS_Subset
<1>2. Cardinality(S) \in Nat /\ Cardinality(T) \in Nat
  BY <1>1, FS_CardinalityType
<1> QED BY <1>1, <1>2

\* The invariant holds at the beginning.
LEMMA SemInit ==
  ASSUME MaxActive \in Nat, Token # {}, SemaphoreInit PROVE SlotsInv
<1>1. NoCall \in Call
  BY DEF NoCall, Call
<1>2. SemaphoreTypes
  BY <1>1 DEF SemaphoreInit, SemaphoreTypes
<1>3. TokensDiffer /\ HoldersKnown
  BY DEF SemaphoreInit, NoCall, TokensDiffer, HoldersKnown, CallBusy, CallHolds
<1>4. LiveTokens = {}
  BY DEF SemaphoreInit, LiveTokens
<1>5. LiveBounded
  BY <1>4, FS_EmptySet DEF SemaphoreInit, LiveBounded
<1> QED BY <1>2, <1>3, <1>5 DEF SlotsInv

\* A call that ends or dies has no token that counts.
LEMMA NoCallType ==
  ASSUME Token # {}
  PROVE  /\ NoCall \in Call /\ NoCall.at = "idle"
         /\ [NoCall EXCEPT !.at = "dead"] \in Call
  BY DEF NoCall, Call

\* A step that only takes a call from its state into one that is not busy keeps
\* the tokens apart and the holders known.
LEMMA CallStops ==
  ASSUME NEW c \in Caller, NEW x \in Call, x.at \in {"idle", "dead"},
         call' = [call EXCEPT ![c] = x], active' = active, expired' = expired,
         SlotsInv
  PROVE  SlotsInv'
<1>1. SemaphoreTypes'
  BY DEF SlotsInv, SemaphoreTypes
<1>2. \A d \in Caller : d # c => call'[d] = call[d]
  BY DEF SlotsInv, SemaphoreTypes
<1>3. call'[c] = x
  BY DEF SlotsInv, SemaphoreTypes
<1>4. TokensDiffer'
  BY <1>2, <1>3 DEF SlotsInv, TokensDiffer, CallBusy, Mine
<1>5. HoldersKnown'
  BY <1>2, <1>3 DEF SlotsInv, HoldersKnown, CallHolds, Mine
<1>6. LiveBounded'
  BY DEF SlotsInv, LiveBounded, LiveTokens
<1> QED BY <1>1, <1>4, <1>5, <1>6 DEF SlotsInv

\* Begin takes a token that nobody has and that is not in the set.
LEMMA CallBegins ==
  ASSUME NEW c \in Caller, Begin(c), SlotsInv PROVE SlotsInv'
<1>1. PICK t \in Token \ active :
        /\ \A o \in Caller : call[o].at \in {"idle", "dead"} \/ Mine(o) # t
        /\ call' = [call EXCEPT ![c] = [at |-> "trying", token |-> t]]
        /\ expired' = expired \ {t}
  BY DEF Begin
<1>2. active' = active
  BY DEF Begin
<1>3. SemaphoreTypes'
  BY <1>1, <1>2 DEF SlotsInv, SemaphoreTypes, Call
<1>4. /\ \A d \in Caller : d # c => call'[d] = call[d]
      /\ call'[c] = [at |-> "trying", token |-> t]
  BY <1>1 DEF SlotsInv, SemaphoreTypes
<1>5. TokensDiffer'
  BY <1>1, <1>4 DEF SlotsInv, TokensDiffer, CallBusy, Mine
<1>6. HoldersKnown'
  BY <1>1, <1>2, <1>4 DEF SlotsInv, HoldersKnown, CallHolds, Mine
<1>7. LiveTokens' = LiveTokens
  BY <1>1, <1>2 DEF LiveTokens
<1>8. LiveBounded'
  BY <1>2, <1>7 DEF SlotsInv, LiveBounded
<1> QED BY <1>3, <1>5, <1>6, <1>8 DEF SlotsInv

\* The script drops expired tokens, and adds one if the others leave room.
LEMMA CallTries ==
  ASSUME NEW c \in Caller, MaxActive \in Nat, Token # {}, TryAcquire(c), SlotsInv
  PROVE  SlotsInv'
<1>1. CallAt(c, "trying") /\ expired' = expired /\ Mine(c) \in Token
  BY DEF TryAcquire, SlotsInv, SemaphoreTypes, Mine, Call
<1>2. PICK x \in Call :
        /\ call' = [call EXCEPT ![c] = x]
        /\ x.at \in {"trying", "working"} => x.token = Mine(c)
        /\ x.at \in {"trying", "working", "idle"}
        /\ x.at = "working" => Mine(c) \in active'
  <2>1. CASE UNCHANGED call
    BY <1>1, <2>1 DEF CallAt, Mine, SlotsInv, SemaphoreTypes
  <2>2. CASE End(c)
    BY <2>2, NoCallType DEF End
  <2>3. CASE CallGoto(c, "working") /\ active' = LiveTokens \cup {Mine(c)}
    <3> DEFINE x == [call[c] EXCEPT !.at = "working"]
    <3>1. x \in Call /\ x.at = "working" /\ x.token = Mine(c)
      BY DEF SlotsInv, SemaphoreTypes, Call, Mine
    <3>2. call' = [call EXCEPT ![c] = x]
      BY <2>3 DEF CallGoto
    <3> QED BY <2>3, <3>1, <3>2
  <2> QED BY <2>1, <2>2, <2>3 DEF TryAcquire
<1>3. /\ \A d \in Caller : d # c => call'[d] = call[d]
      /\ call'[c] = x
  BY <1>2 DEF SlotsInv, SemaphoreTypes
<1>4. /\ LiveTokens \subseteq active'
      /\ active' \subseteq LiveTokens \cup {Mine(c)}
  BY DEF TryAcquire
<1>5. SemaphoreTypes'
  BY <1>1, <1>2, <1>4 DEF SlotsInv, SemaphoreTypes, LiveTokens
<1>6. TokensDiffer'
  BY <1>1, <1>2, <1>3 DEF SlotsInv, TokensDiffer, CallBusy, Mine, CallAt
<1>7. HoldersKnown'
  <2> SUFFICES ASSUME NEW d \in Caller, CallHolds(d)'
               PROVE  Mine(d)' \in active' \cup expired'
    BY DEF HoldersKnown
  <2>1. CASE d = c
    BY <2>1, <1>2, <1>3 DEF CallHolds, Mine
  <2>2. CASE d # c
    BY <2>2, <1>1, <1>3, <1>4 DEF CallHolds, Mine, SlotsInv, HoldersKnown, LiveTokens
  <2> QED BY <2>1, <2>2
<1>8. IsFiniteSet(LiveTokens) /\ Cardinality(LiveTokens) \in Nat
  BY LiveFinite, FS_CardinalityType DEF SlotsInv, LiveBounded
<1>9. LiveBounded'
  <2>1. CASE active' = LiveTokens
    <3>1. LiveTokens' = LiveTokens
      BY <2>1, <1>1 DEF LiveTokens
    <3> QED BY <2>1, <3>1, <1>8 DEF LiveBounded, SlotsInv
  <2>2. CASE ~Refuses(Cardinality(LiveTokens)) /\ active' = LiveTokens \cup {Mine(c)}
    <3>1. /\ IsFiniteSet(active')
          /\ Cardinality(active') \in Nat
          /\ Cardinality(active') <= Cardinality(LiveTokens) + 1
      <4>1. /\ IsFiniteSet(LiveTokens \cup {Mine(c)})
            /\ \/ Cardinality(LiveTokens \cup {Mine(c)}) = Cardinality(LiveTokens)
               \/ Cardinality(LiveTokens \cup {Mine(c)}) = Cardinality(LiveTokens) + 1
        BY <1>8, FS_AddElement
      <4>2. active' = LiveTokens \cup {Mine(c)}
        BY <2>2
      <4>3. IsFiniteSet(active') /\ Cardinality(active') \in Nat
        BY <4>1, <4>2, FS_CardinalityType
      <4> QED BY <4>1, <4>2, <4>3, <1>8
    <3>2. Cardinality(active') <= MaxActive
      BY <3>1, <2>2, <1>8 DEF Refuses
    <3>3. LiveTokens' \subseteq active'
      BY DEF LiveTokens
    <3> QED BY <3>1, <3>2, <3>3, FewerLive DEF LiveBounded
  <2> QED BY <2>1, <2>2 DEF TryAcquire
<1> QED BY <1>5, <1>6, <1>7, <1>9 DEF SlotsInv

\* Leave changes nothing but the stage.
LEMMA CallLeaves ==
  ASSUME NEW c \in Caller, Leave(c), SlotsInv PROVE SlotsInv'
<1>1. /\ CallAt(c, "working") /\ active' = active /\ expired' = expired
      /\ call' = [call EXCEPT ![c].at = "leaving"]
  BY DEF Leave, CallGoto
<1>2. SemaphoreTypes'
  BY <1>1 DEF SlotsInv, SemaphoreTypes, Call
<1>3. /\ \A d \in Caller : d # c => call'[d] = call[d]
      /\ Mine(c)' = Mine(c)
  BY <1>1 DEF SlotsInv, SemaphoreTypes, Mine, Call
<1>4. TokensDiffer'
  BY <1>1, <1>3 DEF SlotsInv, TokensDiffer, CallBusy, Mine, CallAt
<1>5. HoldersKnown'
  BY <1>1, <1>3 DEF SlotsInv, HoldersKnown, CallHolds, Mine, CallAt
<1>6. LiveBounded'
  BY <1>1 DEF SlotsInv, LiveBounded, LiveTokens
<1> QED BY <1>2, <1>4, <1>5, <1>6 DEF SlotsInv

\* A release takes nobody else's token away.
LEMMA CallReleases ==
  ASSUME NEW c \in Caller, MaxActive \in Nat, Token # {}, Release(c), SlotsInv
  PROVE  SlotsInv'
<1>1. /\ CallAt(c, "leaving") /\ expired' = expired
      /\ active' = active \ {Mine(c)} \/ active' = active
      /\ call' = [call EXCEPT ![c] = NoCall]
  BY DEF Release, End, Own
<1>2. /\ \A d \in Caller : d # c => call'[d] = call[d]
      /\ call'[c].at = "idle"
  BY <1>1, NoCallType DEF SlotsInv, SemaphoreTypes
<1>3. SemaphoreTypes'
  BY <1>1, NoCallType DEF SlotsInv, SemaphoreTypes
<1>4. TokensDiffer'
  BY <1>2 DEF SlotsInv, TokensDiffer, CallBusy, Mine
<1>5. HoldersKnown'
  <2> SUFFICES ASSUME NEW d \in Caller, CallHolds(d)'
               PROVE  Mine(d)' \in active' \cup expired'
    BY DEF HoldersKnown
  <2>1. d # c /\ CallHolds(d) /\ Mine(d)' = Mine(d)
    BY <1>2 DEF CallHolds, Mine
  <2>2. Mine(d) # Mine(c)
    BY <2>1, <1>1 DEF SlotsInv, TokensDiffer, CallBusy, CallHolds, CallAt
  <2> QED BY <2>1, <2>2, <1>1 DEF SlotsInv, HoldersKnown
<1>6. LiveTokens' \subseteq LiveTokens /\ active' \subseteq active
  BY <1>1 DEF LiveTokens
<1>7. LiveBounded'
  <2>1. IsFiniteSet(active')
    BY <1>6, FS_Subset DEF SlotsInv, LiveBounded
  <2> QED BY <2>1, <1>6, LiveFinite, FewerLive DEF SlotsInv, LiveBounded
<1> QED BY <1>3, <1>4, <1>5, <1>7 DEF SlotsInv

\* An expiry leaves fewer live tokens, and the token is known as expired.
LEMMA TokenExpires ==
  ASSUME MaxActive \in Nat, NEW t \in Token, Expire(t), SlotsInv PROVE SlotsInv'
<1>1. expired' = expired \cup {t} /\ active' = active /\ call' = call
  BY DEF Expire
<1>2. SemaphoreTypes' /\ TokensDiffer' /\ HoldersKnown'
  BY <1>1 DEF SlotsInv, SemaphoreTypes, TokensDiffer, HoldersKnown, CallBusy, CallHolds, Mine
<1>3. LiveTokens' \subseteq LiveTokens
  BY <1>1 DEF LiveTokens
<1>4. LiveBounded'
  BY <1>1, <1>3, LiveFinite, FewerLive DEF SlotsInv, LiveBounded
<1> QED BY <1>2, <1>4 DEF SlotsInv

\* Every step keeps the invariant.
LEMMA SemNext ==
  ASSUME MaxActive \in Nat, Token # {}, SlotsInv, [SemaphoreNext]_semaphoreVars PROVE SlotsInv'
<1>1. CASE UNCHANGED semaphoreVars
  BY <1>1 DEF semaphoreVars, SlotsInv, SemaphoreTypes, TokensDiffer, HoldersKnown, LiveBounded,
              CallBusy, CallHolds, Mine, LiveTokens
<1>2. ASSUME NEW c \in Caller, Begin(c) PROVE SlotsInv'
  BY <1>2, CallBegins
<1>3. ASSUME NEW c \in Caller, TryAcquire(c) PROVE SlotsInv'
  BY <1>3, CallTries
<1>4. ASSUME NEW c \in Caller, Leave(c) PROVE SlotsInv'
  BY <1>4, CallLeaves
<1>5. ASSUME NEW c \in Caller, Release(c) PROVE SlotsInv'
  BY <1>5, CallReleases
<1>6. ASSUME NEW c \in Caller, CallDies(c) PROVE SlotsInv'
  <2>1. [NoCall EXCEPT !.at = "dead"].at = "dead"
    BY DEF NoCall
  <2> QED BY <1>6, <2>1, NoCallType, CallStops DEF CallDies
<1>7. ASSUME NEW t \in Token, Expire(t) PROVE SlotsInv'
  BY <1>7, TokenExpires
<1> QED BY <1>1, <1>2, <1>3, <1>4, <1>5, <1>6, <1>7 DEF SemaphoreNext

\* The invariant bounds the calls at work.
LEMMA InvImpliesCap ==
  ASSUME MaxActive \in Nat, SlotsInv PROVE CapRespected
<1>1. Working \ expired \subseteq LiveTokens
  BY DEF Working, LiveTokens, SlotsInv, HoldersKnown, CallHolds
<1> QED BY <1>1, LiveFinite, FewerLive DEF SlotsInv, LiveBounded, CapRespected

\* The sorted set and the calls keep their types.
THEOREM TokensTyped ==
  ASSUME MaxActive \in Nat, Token # {} PROVE SemaphoreSpec => []SemaphoreTypes
<1>1. SemaphoreInit => SlotsInv
  BY SemInit
<1>2. SlotsInv /\ [SemaphoreNext]_semaphoreVars => SlotsInv'
  BY SemNext
<1>3. SlotsInv => SemaphoreTypes
  BY DEF SlotsInv
<1> QED BY <1>1, <1>2, <1>3, PTL DEF SemaphoreSpec

\* The calls at work whose slot has not expired never exceed the cap: whatever
\* answers get lost, whoever dies, and in whatever order callers drop the
\* expired tokens of others.
THEOREM CapHolds ==
  ASSUME MaxActive \in Nat, Token # {} PROVE SemaphoreSpec => []CapRespected
<1>1. SemaphoreInit => SlotsInv
  BY SemInit
<1>2. SlotsInv /\ [SemaphoreNext]_semaphoreVars => SlotsInv'
  BY SemNext
<1>3. SlotsInv => CapRespected
  BY InvImpliesCap
<1> QED BY <1>1, <1>2, <1>3, PTL DEF SemaphoreSpec
=============================================================================
