------------------------- MODULE OutboundSemaphore -------------------------
(***************************************************************************)
(* The counting semaphores around calls to SoundCloud, YouTube and         *)
(* Bandcamp: a sorted set in Redis holds one token per slot, scored with   *)
(* the time at which it expires. A script that runs atomically drops the   *)
(* expired tokens, refuses if the rest reaches the cap and adds a token    *)
(* otherwise. Time is abstract: a token expires at any time after it was   *)
(* added, while its holder works, sleeps or is dead.                       *)
(***************************************************************************)
EXTENDS Naturals, FiniteSets

CONSTANTS
  Caller,     \* concurrent calls of all processes
  Token,      \* uuids, as many as may be of interest at a time
  MaxActive   \* soundcloud_global_concurrency, youtube_concurrency, ...

VARIABLES
  active,   \* the tokens in the sorted set
  expired,  \* the tokens whose score lies in the past, dropped or not
  call      \* [Caller -> Call]

semaphoreVars == <<active, expired, call>>

\* leaving: the block is left, the token not yet removed.
Call == [at : {"idle", "trying", "working", "leaving", "dead"}, token : Token]

NoCall == [at |-> "idle", token |-> CHOOSE t \in Token : TRUE]

SemaphoreTypes == /\ active \subseteq Token
                  /\ expired \subseteq Token
                  /\ call \in [Caller -> Call]

SemaphoreInit == /\ active = {}
                 /\ expired = {}
                 /\ call = [c \in Caller |-> NoCall]

CallAt(c, stage)   == call[c].at = stage
CallGoto(c, stage) == call' = [call EXCEPT ![c].at = stage]
End(c)         == call' = [call EXCEPT ![c] = NoCall]
Mine(c)        == call[c].token

\* A token is a uuid: no other call has it, nor does the set.
Begin(c) ==
  /\ CallAt(c, "idle")
  /\ \E t \in Token \ active :
       /\ \A o \in Caller : call[o].at \in {"idle", "dead"} \/ Mine(o) # t
       /\ call' = [call EXCEPT ![c] = [at |-> "trying", token |-> t]]
       /\ expired' = expired \ {t}
  /\ UNCHANGED active

\* Mutant: no ZREMRANGEBYSCORE.
UnprunedTokens == active

LiveTokens == active \ expired

\* Mutant: an off-by-one at the cap.
RefusesTooLate(n) == n > MaxActive

Refuses(n) == n >= MaxActive

\* _ACQUIRE_LUA. After a refusal the deadline may have passed, else it tries
\* again; a granted answer may get lost with the connection, and the token stays.
TryAcquire(c) ==
  /\ CallAt(c, "trying")
  /\ IF Refuses(Cardinality(LiveTokens))
     THEN /\ active' = LiveTokens
          /\ UNCHANGED call \/ End(c)
     ELSE /\ active' = LiveTokens \cup {Mine(c)}
          /\ CallGoto(c, "working") \/ End(c)
  /\ UNCHANGED expired

Leave(c) ==
  /\ CallAt(c, "working")
  /\ CallGoto(c, "leaving")
  /\ UNCHANGED <<active, expired>>

\* Mutant: every slot of the process is given back.
OwnAndOthers(c) == active

Own(c) == {Mine(c)}

\* _release; a Redis that fails leaves the token to its expiry.
Release(c) ==
  /\ CallAt(c, "leaving")
  /\ active' = active \ Own(c) \/ UNCHANGED active
  /\ End(c)
  /\ UNCHANGED expired

\* The process of a call dies, or a cancelled task never gets to its release.
CallDies(c) ==
  /\ call[c].at \in {"trying", "working", "leaving"}
  /\ call' = [call EXCEPT ![c] = [NoCall EXCEPT !.at = "dead"]]
  /\ UNCHANGED <<active, expired>>

Expire(t) ==
  /\ t \in active \ expired
  /\ expired' = expired \cup {t}
  /\ UNCHANGED <<active, call>>

SemaphoreNext ==
  \/ \E c \in Caller : \/ Begin(c) \/ TryAcquire(c) \/ Leave(c)
                       \/ Release(c) \/ CallDies(c)
  \/ \E t \in Token : Expire(t)

SemaphoreSpec == SemaphoreInit /\ [][SemaphoreNext]_semaphoreVars

\* Tokens expire, and a call that waits for a slot goes on trying.
SemaphoreFairness == /\ \A t \in Token : WF_semaphoreVars(Expire(t))
                     /\ \A c \in Caller : WF_semaphoreVars(TryAcquire(c))

FairSemaphoreSpec == SemaphoreSpec /\ SemaphoreFairness

----------------------------------------------------------------------------
(* Properties.                                                             *)

Working == {Mine(c) : c \in {d \in Caller : call[d].at \in {"working", "leaving"}}}

\* The calls at work whose slot has not expired never exceed the cap, although
\* answers get lost, callers die, releases fail or are late, and every caller
\* drops tokens of others.
CapRespected == Cardinality(Working \ expired) <= MaxActive

\* Slots of callers that died, or whose answer got lost, come back: when all
\* others have stopped or died, a call that tries again and again works again
\* and again, unless answers get lost again and again.
SlotsComeBack ==
  \A c \in Caller :
    /\ <>[](\A o \in Caller \ {c} : call[o].at \in {"idle", "dead"})
    /\ []<>(CallAt(c, "trying"))
    => []<>(CallAt(c, "working")) \/ []<>(active \ expired # {})
=============================================================================
