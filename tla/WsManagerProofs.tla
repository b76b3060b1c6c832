-------------------------- MODULE WsManagerProofs --------------------------
(***************************************************************************)
(* The channels follow the connections, a socket is torn down by one call  *)
(* and no socket is left in _connections, for every number of users,       *)
(* servers, sockets, evictions and faults.                                 *)
(***************************************************************************)
EXTENDS WsManager, TLAPS

\* What is asked of the constants.
Sizes == /\ UserOf \in [Socket -> User] /\ ServerOf \in [Socket -> Server]
         /\ QueueMax \in Nat /\ SocketFaultBound \in Nat
         /\ "handler" \notin Eviction

\* A command waits at its server's lock, for a task that waits for it.
EntrySound(v, c) ==
  /\ ServerOf[c.sock] = v
  /\ c.op = "subscribe" => handler[c.sock] = "subscribing"
  /\ c.op = "unsubscribe" => teardown[c.sock][c.task] = "unsubscribe"

WaitsSound == \A v \in Server : \A i \in DOMAIN waiting[v] : EntrySound(v, waiting[v][i])

\* No socket asks for the same command twice.
WaitsApart ==
  \A v \in Server : \A i, j \in DOMAIN waiting[v] :
    waiting[v][i].op = waiting[v][j].op /\ waiting[v][i].sock = waiting[v][j].sock => i = j

\* A socket that was not accepted has nothing to tear down.
Fresh ==
  \A s \in Socket :
    handler[s] \in {"new", "accepting"} => s \notin wsState /\ Owners(s) = {}

HandlerIdle == \A s \in Socket : handler[s] # "left" => teardown[s]["handler"] = "none"

WritersListed == \A s \in Socket : Running(s) => s \in wsState

IInv == /\ SocketTypes /\ ChannelsFollow /\ TornDownOnce /\ Accounted
        /\ WaitsSound /\ WaitsApart
        /\ Fresh /\ HandlerIdle /\ WritersListed

----------------------------------------------------------------------------
(* Sequences of commands.                                                  *)

\* What is appended comes last, and nothing else moves.
LEMMA AppendEntries ==
  ASSUME NEW q \in Seq(Command), NEW c \in Command
  PROVE  /\ Append(q, c) \in Seq(Command)
         /\ Len(q) \in Nat /\ DOMAIN q = 1..Len(q)
         /\ DOMAIN Append(q, c) = 1..(Len(q) + 1)
         /\ Append(q, c)[Len(q) + 1] = c
         /\ \A i \in 1..Len(q) : Append(q, c)[i] = q[i]
  OBVIOUS

\* What follows the head moves one place forward.
LEMMA TailEntries ==
  ASSUME NEW q \in Seq(Command), q # <<>>
  PROVE  /\ Tail(q) \in Seq(Command)
         /\ Len(q) \in Nat \ {0} /\ DOMAIN q = 1..Len(q)
         /\ Head(q) = q[1] /\ q[1] \in Command
         /\ DOMAIN Tail(q) = 1..(Len(q) - 1)
         /\ \A i \in 1..(Len(q) - 1) : Tail(q)[i] = q[i + 1] /\ i + 1 \in 1..Len(q)
  OBVIOUS

\* The fields of a command.
LEMMA CommandFields ==
  ASSUME NEW s \in Socket, NEW k \in Task, NEW op \in {"subscribe", "unsubscribe"}
  PROVE  /\ [op |-> op, sock |-> s, task |-> k] \in Command
         /\ [op |-> op, sock |-> s, task |-> k].op = op
         /\ [op |-> op, sock |-> s, task |-> k].sock = s
         /\ [op |-> op, sock |-> s, task |-> k].task = k
  BY DEF Command

\* What a command changes that comes to the lock of its server.
Arrived(s, op, k) ==
  /\ waiting' \in [Server -> Seq(Command)]
  /\ ServerOf[s] \in Server /\ UserOf[s] \in User
  /\ \A v \in Server : v # ServerOf[s] => waiting'[v] = waiting[v]
  /\ \A v \in Server : v = ServerOf[s] =>
       LET n == Len(waiting[v])
       IN /\ n \in Nat /\ DOMAIN waiting[v] = 1..n
          /\ DOMAIN waiting'[v] = 1..(n + 1)
          /\ \A i \in 1..n : waiting'[v][i] = waiting[v][i]
          /\ waiting'[v][n + 1] = [op |-> op, sock |-> s, task |-> k]

\* The lock of its server takes a command in.
LEMMA Comes ==
  ASSUME Sizes, SocketTypes,
         NEW s \in Socket, NEW k \in Task, NEW op \in {"subscribe", "unsubscribe"},
         AtLock(s, op, k)
  PROVE  Arrived(s, op, k)
<1> DEFINE c == [op |-> op, sock |-> s, task |-> k]
<1>1. ServerOf[s] \in Server /\ UserOf[s] \in User
  BY DEF Sizes
<1>2. c \in Command
  BY CommandFields
<1>3. waiting \in [Server -> Seq(Command)]
  BY DEF SocketTypes
<1>4. waiting' = [waiting EXCEPT ![ServerOf[s]] = Append(waiting[ServerOf[s]], c)]
  BY DEF AtLock, Queued
<1> HIDE DEF c
<1>5. waiting[ServerOf[s]] \in Seq(Command)
  BY <1>1, <1>3
<1>6. waiting'[ServerOf[s]] = Append(waiting[ServerOf[s]], c)
  BY <1>1, <1>3, <1>4
<1>7. Append(waiting[ServerOf[s]], c) \in Seq(Command)
  BY <1>2, <1>5, AppendEntries
<1>8. waiting' \in [Server -> Seq(Command)]
  BY <1>1, <1>3, <1>4, <1>7
<1>9. \A v \in Server : v # ServerOf[s] => waiting'[v] = waiting[v]
  BY <1>1, <1>3, <1>4
<1>10. LET n == Len(waiting[ServerOf[s]])
       IN /\ n \in Nat /\ DOMAIN waiting[ServerOf[s]] = 1..n
          /\ DOMAIN waiting'[ServerOf[s]] = 1..(n + 1)
          /\ \A i \in 1..n : waiting'[ServerOf[s]][i] = waiting[ServerOf[s]][i]
          /\ waiting'[ServerOf[s]][n + 1] = c
  BY <1>2, <1>5, <1>6, AppendEntries
<1> QED BY <1>1, <1>8, <1>9, <1>10 DEF c, Arrived

----------------------------------------------------------------------------
(* The channels follow the connections.                                    *)

\* The key of a socket is a server and a user.
LEMMA KeyType ==
  ASSUME Sizes, NEW s \in Socket
  PROVE  ChannelKey(s) \in Server \X User /\ ChannelKey(s) = <<ServerOf[s], UserOf[s]>>
  BY DEF Sizes, ChannelKey

\* Steps that leave the lock, the channels and who is connected alone.
LEMMA ChannelsSame ==
  ASSUME ChannelsFollow,
         waiting' = waiting, subscribed' = subscribed, torn' = torn,
         \A v \in Server, u \in User : Connected(v, u)' = Connected(v, u)
  PROVE  ChannelsFollow'
<1> SUFFICES ASSUME NEW v \in Server, NEW u \in User
             PROVE  /\ Pending(v, u)' = {} =>
                         <<v, u>> \in torn \/ (<<v, u>> \in subscribed <=> Connected(v, u)')
                    /\ \A i \in Pending(v, u)' :
                         (\A j \in Pending(v, u)' : j <= i) =>
                           waiting[v][i].op = (IF Connected(v, u)' THEN "subscribe"
                                               ELSE "unsubscribe")
  BY DEF ChannelsFollow
<1>1. Pending(v, u)' = Pending(v, u)
  BY DEF Pending, ChannelKey
<1>2. Connected(v, u)' = Connected(v, u)
  OBVIOUS
<1> QED BY <1>1, <1>2 DEF ChannelsFollow

\* A command that says whether its user is connected now, queued behind the others.
LEMMA ChannelsAppend ==
  ASSUME Sizes, SocketTypes, ChannelsFollow,
         NEW s \in Socket, NEW k \in Task, NEW op \in {"subscribe", "unsubscribe"},
         AtLock(s, op, k), subscribed' = subscribed, torn' = torn,
         \A v \in Server, u \in User :
           Connected(v, u)' = (IF <<v, u>> = ChannelKey(s) THEN op = "subscribe"
                               ELSE Connected(v, u))
  PROVE  ChannelsFollow'
<1> SUFFICES ASSUME NEW v \in Server, NEW u \in User
             PROVE  /\ Pending(v, u)' = {} =>
                         <<v, u>> \in torn \/ (<<v, u>> \in subscribed <=> Connected(v, u)')
                    /\ \A i \in Pending(v, u)' :
                         (\A j \in Pending(v, u)' : j <= i) =>
                           waiting'[v][i].op = (IF Connected(v, u)' THEN "subscribe"
                                                ELSE "unsubscribe")
  BY DEF ChannelsFollow
<1> DEFINE c == [op |-> op, sock |-> s, task |-> k]
           n == Len(waiting[v])
<1>1. c.op = op /\ c.sock = s
  OBVIOUS
<1>2. ChannelKey(s) = <<ServerOf[s], UserOf[s]>> /\ ChannelKey(s)' = ChannelKey(s)
  BY DEF ChannelKey
<1>0. Arrived(s, op, k)
  BY Comes
<1>3. CASE v # ServerOf[s]
  <2>1. waiting'[v] = waiting[v]
    BY <1>0, <1>3 DEF Arrived
  <2>2. Pending(v, u)' = Pending(v, u)
    BY <2>1 DEF Pending, ChannelKey
  <2>3. Connected(v, u)' = Connected(v, u)
    BY <1>2, <1>3
  <2> QED BY <2>1, <2>2, <2>3 DEF ChannelsFollow
<1>4. CASE v = ServerOf[s]
  <2>1. /\ n \in Nat /\ DOMAIN waiting[v] = 1..n /\ DOMAIN waiting'[v] = 1..(n + 1)
        /\ \A i \in 1..n : waiting'[v][i] = waiting[v][i]
        /\ waiting'[v][n + 1] = c
    BY <1>0, <1>4 DEF Arrived
  <2> HIDE DEF c, n
  <2>2. CASE u = UserOf[s]
    <3>1. <<v, u>> = ChannelKey(s)
      BY <1>2, <1>4, <2>2
    <3>2. n + 1 \in Pending(v, u)'
      BY <1>1, <2>1, <3>1 DEF Pending, ChannelKey
    <3>3. ASSUME NEW i \in Pending(v, u)', \A j \in Pending(v, u)' : j <= i
          PROVE  i = n + 1
      <4>1. i \in 1..(n + 1)
        BY <2>1 DEF Pending
      <4>2. n + 1 <= i
        BY <3>2, <3>3
      <4> QED BY <2>1, <4>1, <4>2
    <3>4. Connected(v, u)' = (op = "subscribe")
      BY <3>1
    <3> QED BY <1>1, <2>1, <3>2, <3>3, <3>4
  <2>3. CASE u # UserOf[s]
    <3>1. <<v, u>> # ChannelKey(s)
      BY <1>2, <2>3
    <3>2. Pending(v, u)' = Pending(v, u)
      BY <1>1, <2>1, <3>1 DEF Pending, ChannelKey
    <3>3. \A i \in Pending(v, u) : waiting'[v][i] = waiting[v][i]
      BY <2>1 DEF Pending
    <3>4. Connected(v, u)' = Connected(v, u)
      BY <3>1
    <3> QED BY <3>2, <3>3, <3>4 DEF ChannelsFollow
  <2> QED BY <2>2, <2>3
<1> QED BY <1>3, <1>4

\* A socket that leaves _connections.
LEMMA ChannelsDrop ==
  ASSUME Sizes, SocketTypes, ChannelsFollow, NEW s \in Socket, NEW k \in Task,
         Drop(s, k), subscribed' = subscribed, torn' = torn
  PROVE  ChannelsFollow'
<1>1. conns' = conns \ {s}
  BY DEF Drop
<1>2. ASSUME NEW v \in Server, NEW u \in User, <<v, u>> # ChannelKey(s)
      PROVE  Connected(v, u)' = Connected(v, u)
  BY <1>1, <1>2 DEF Connected, ConnsOf, ChannelKey
<1>3. CASE ConnsOf(ServerOf[s], UserOf[s]) \ {s} = {}
  <2>1. AtLock(s, "unsubscribe", k)
    BY <1>3 DEF Drop
  <2>2. ASSUME NEW v \in Server, NEW u \in User, <<v, u>> = ChannelKey(s)
        PROVE  Connected(v, u)' = FALSE
    BY <1>1, <1>3, <2>2 DEF Connected, ConnsOf, ChannelKey
  <2>3. "unsubscribe" # "subscribe"
    OBVIOUS
  <2>4. \A v \in Server, u \in User :
          Connected(v, u)' = (IF <<v, u>> = ChannelKey(s) THEN "unsubscribe" = "subscribe"
                              ELSE Connected(v, u))
    BY <1>2, <2>2, <2>3
  <2> QED BY <2>1, <2>4, ChannelsAppend
<1>4. CASE ConnsOf(ServerOf[s], UserOf[s]) \ {s} # {}
  <2>1. waiting' = waiting
    BY <1>4 DEF Drop
  <2>2. ASSUME NEW v \in Server, NEW u \in User, <<v, u>> = ChannelKey(s)
        PROVE  Connected(v, u)' = Connected(v, u)
    BY <1>1, <1>4, <2>2 DEF Connected, ConnsOf, ChannelKey
  <2> QED BY <1>2, <2>1, <2>2, ChannelsSame
<1> QED BY <1>3, <1>4

----------------------------------------------------------------------------
(* One cell of a function changes.                                         *)

TeardownMoved(s, k, stage) ==
  /\ teardown' \in [Socket -> [Task -> TeardownStage]]
  /\ teardown'[s][k] = stage
  /\ \A l \in Task : l # k => teardown'[s][l] = teardown[s][l]
  /\ \A r \in Socket : r # s => teardown'[r] = teardown[r]

LEMMA TeardownMoves ==
  ASSUME SocketTypes, NEW s \in Socket, NEW k \in Task, NEW stage \in TeardownStage,
         TeardownAt(s, k, stage)
  PROVE  TeardownMoved(s, k, stage)
<1>1. teardown \in [Socket -> [Task -> TeardownStage]]
  BY DEF SocketTypes
<1>2. teardown' = [teardown EXCEPT ![s] = [teardown[s] EXCEPT ![k] = stage]]
  BY DEF TeardownAt
<1>3. teardown[s] \in [Task -> TeardownStage]
  BY <1>1
<1>4. [teardown[s] EXCEPT ![k] = stage] \in [Task -> TeardownStage]
  BY <1>3
<1>5. teardown'[s] = [teardown[s] EXCEPT ![k] = stage]
  BY <1>1, <1>2
<1> QED BY <1>1, <1>2, <1>3, <1>4, <1>5 DEF TeardownMoved

HandlerMoved(s, stage) ==
  /\ handler' \in [Socket -> HandlerStage]
  /\ handler'[s] = stage
  /\ \A r \in Socket : r # s => handler'[r] = handler[r]

LEMMA HandlerMoves ==
  ASSUME SocketTypes, NEW s \in Socket, NEW stage \in HandlerStage, HandlerAt(s, stage)
  PROVE  HandlerMoved(s, stage)
  BY DEF SocketTypes, HandlerAt, HandlerMoved

WriterMoved(s, stage) ==
  /\ writer' \in [Socket -> WriterStage]
  /\ writer'[s] = stage
  /\ \A r \in Socket : r # s => writer'[r] = writer[r]

LEMMA WriterMoves ==
  ASSUME SocketTypes, NEW s \in Socket, NEW stage \in WriterStage, WriterAt(s, stage)
  PROVE  WriterMoved(s, stage)
  BY DEF SocketTypes, WriterAt, WriterMoved

----------------------------------------------------------------------------
(* The lock's queue.                                                       *)

\* Nobody leaves the stage in which it waits at the lock.
WaitersStay ==
  /\ \A s \in Socket : handler[s] = "subscribing" => handler'[s] = "subscribing"
  /\ \A s \in Socket, k \in Task :
       teardown[s][k] = "unsubscribe" => teardown'[s][k] = "unsubscribe"

\* The socket and the task of a command that waits.
LEMMA EntryType ==
  ASSUME SocketTypes, NEW v \in Server, NEW i \in DOMAIN waiting[v]
  PROVE  waiting[v][i] \in Command /\ waiting[v][i].sock \in Socket
         /\ waiting[v][i].task \in Task /\ waiting[v][i].op \in {"subscribe", "unsubscribe"}
<1>1. waiting[v] \in Seq(Command)
  BY DEF SocketTypes
<1>2. waiting[v][i] \in Command
  BY <1>1
<1> QED BY <1>2 DEF Command

LEMMA EntryStays ==
  ASSUME SocketTypes, WaitersStay, NEW v \in Server, NEW i \in DOMAIN waiting[v],
         EntrySound(v, waiting[v][i])
  PROVE  /\ ServerOf[waiting[v][i].sock] = v
         /\ waiting[v][i].op = "subscribe" => handler'[waiting[v][i].sock] = "subscribing"
         /\ waiting[v][i].op = "unsubscribe" =>
              teardown'[waiting[v][i].sock][waiting[v][i].task] = "unsubscribe"
  BY EntryType DEF EntrySound, WaitersStay

LEMMA WaitsSame ==
  ASSUME SocketTypes, WaitsSound, WaitsApart, WaitersStay, waiting' = waiting
  PROVE  WaitsSound' /\ WaitsApart'
<1>1. WaitsApart'
  BY DEF WaitsApart
<1>2. ASSUME NEW v \in Server, NEW i \in DOMAIN waiting'[v]
      PROVE  EntrySound(v, waiting[v][i])'
  <2>1. i \in DOMAIN waiting[v] /\ EntrySound(v, waiting[v][i])
    BY <1>2 DEF WaitsSound
  <2> QED BY <2>1, EntryStays DEF EntrySound
<1> QED BY <1>1, <1>2 DEF WaitsSound

\* A command of a task that now waits, and of whose socket there is none yet.
LEMMA WaitsAppend ==
  ASSUME Sizes, SocketTypes, WaitsSound, WaitsApart, WaitersStay,
         NEW s \in Socket, NEW k \in Task, NEW op \in {"subscribe", "unsubscribe"},
         Arrived(s, op, k),
         op = "subscribe" => handler[s] # "subscribing" /\ handler'[s] = "subscribing",
         op = "unsubscribe" => /\ teardown'[s][k] = "unsubscribe"
                               /\ \A l \in Task : teardown[s][l] # "unsubscribe"
  PROVE  WaitsSound' /\ WaitsApart'
<1> DEFINE c == [op |-> op, sock |-> s, task |-> k]
<1>1. c.op = op /\ c.sock = s /\ c.task = k
  OBVIOUS
<1>2. ASSUME NEW v \in Server, NEW i \in DOMAIN waiting[v]
      PROVE  ~(waiting[v][i].op = op /\ waiting[v][i].sock = s)
  <2>1. EntrySound(v, waiting[v][i])
    BY DEF WaitsSound
  <2> QED BY <2>1, EntryType DEF EntrySound
<1>3. ASSUME NEW v \in Server, v # ServerOf[s]
      PROVE  waiting'[v] = waiting[v]
  BY <1>3 DEF Arrived
<1>4. ASSUME NEW v \in Server, v = ServerOf[s]
      PROVE  LET n == Len(waiting[v])
             IN /\ n \in Nat /\ DOMAIN waiting[v] = 1..n
                /\ DOMAIN waiting'[v] = 1..(n + 1)
                /\ \A i \in 1..n : waiting'[v][i] = waiting[v][i]
                /\ waiting'[v][n + 1] = c
  BY <1>4 DEF Arrived
<1> HIDE DEF c
<1>5. ASSUME NEW v \in Server, NEW i \in DOMAIN waiting'[v]
      PROVE  EntrySound(v, waiting[v][i])'
  <2>1. CASE v # ServerOf[s]
    <3>1. waiting'[v] = waiting[v] /\ i \in DOMAIN waiting[v]
      BY <1>3, <1>5, <2>1
    <3> QED BY <3>1, EntryStays DEF EntrySound, WaitsSound
  <2>2. CASE v = ServerOf[s]
    <3>1. CASE i \in DOMAIN waiting[v]
      <4>1. waiting'[v][i] = waiting[v][i]
        BY <1>4, <2>2, <3>1
      <4> QED BY <3>1, <4>1, EntryStays DEF EntrySound, WaitsSound
    <3>2. CASE i \notin DOMAIN waiting[v]
      <4>1. waiting'[v][i] = c
        BY <1>4, <1>5, <2>2, <3>2
      <4> QED BY <1>1, <2>2, <4>1 DEF EntrySound
    <3> QED BY <3>1, <3>2
  <2> QED BY <2>1, <2>2
<1>6. ASSUME NEW v \in Server, NEW i \in DOMAIN waiting'[v], NEW j \in DOMAIN waiting'[v],
             waiting'[v][i].op = waiting'[v][j].op,
             waiting'[v][i].sock = waiting'[v][j].sock
      PROVE  i = j
  <2>1. CASE v # ServerOf[s]
    BY <1>3, <1>6, <2>1 DEF WaitsApart
  <2>2. CASE v = ServerOf[s]
    <3> DEFINE n == Len(waiting[v])
    <3>1. /\ n \in Nat /\ DOMAIN waiting[v] = 1..n
          /\ DOMAIN waiting'[v] = 1..(n + 1)
          /\ \A m \in 1..n : waiting'[v][m] = waiting[v][m]
          /\ waiting'[v][n + 1] = c
      BY <1>4, <2>2
    <3> HIDE DEF n
    <3>2. i \in 1..n \/ i = n + 1
      BY <1>6, <3>1
    <3>3. j \in 1..n \/ j = n + 1
      BY <1>6, <3>1
    <3>4. CASE i \in 1..n /\ j \in 1..n
      BY <1>6, <3>1, <3>4 DEF WaitsApart
    <3>5. CASE i \in 1..n /\ j = n + 1
      BY <1>1, <1>2, <1>6, <3>1, <3>5
    <3>6. CASE i = n + 1 /\ j \in 1..n
      BY <1>1, <1>2, <1>6, <3>1, <3>6
    <3> QED BY <3>2, <3>3, <3>4, <3>5, <3>6
  <2> QED BY <2>1, <2>2
<1> QED BY <1>5, <1>6 DEF WaitsSound, WaitsApart

----------------------------------------------------------------------------
(* Steps that start no teardown and end no wait at the lock.               *)

\* What such a step may do to the teardowns.
TeardownsEase ==
  /\ \A s \in Socket, k \in Task :
       teardown'[s][k] \notin {"none", "scheduled"} => teardown'[s][k] = teardown[s][k]
  /\ \A s \in Socket, k \in Task :
       teardown[s][k] \in {"stop", "unsubscribe"} => teardown'[s][k] = teardown[s][k]
  /\ \A s \in Socket :
       teardown[s]["handler"] = "none" => teardown'[s]["handler"] = "none"

\* And to the handlers.
HandlersGoOn ==
  \A s \in Socket :
    /\ handler[s] = "subscribing" => handler'[s] = "subscribing"
    /\ handler'[s] \in {"new", "accepting"} => handler[s] \in {"new", "accepting"}
    /\ handler[s] = "left" => handler'[s] = "left"

LEMMA QuietKeeps ==
  ASSUME IInv, SocketTypes', TeardownsEase, HandlersGoOn,
         UNCHANGED <<conns, wsState, waiting, subscribed, torn>>,
         \A s \in Socket : Running(s)' => s \in wsState
  PROVE  IInv'
<1>1. conns' = conns /\ wsState' = wsState /\ waiting' = waiting
      /\ subscribed' = subscribed /\ torn' = torn
  OBVIOUS
<1>2. ChannelsFollow'
  <2>1. \A v \in Server, u \in User : Connected(v, u)' = Connected(v, u)
    BY <1>1 DEF Connected, ConnsOf, ChannelKey
  <2> QED BY <1>1, <2>1, ChannelsSame DEF IInv
<1>3. WaitsSound' /\ WaitsApart'
  <2>1. WaitersStay
    BY DEF WaitersStay, TeardownsEase, HandlersGoOn
  <2> QED BY <1>1, <2>1, WaitsSame DEF IInv
<1>4. ASSUME NEW s \in Socket, NEW k \in Owners(s)'
      PROVE  k \in Owners(s)
  BY DEF Owners, TeardownsEase
<1>5. TornDownOnce'
  BY <1>1, <1>4 DEF IInv, TornDownOnce
<1>6. Accounted'
  <2>1. conns \subseteq Socket
    BY DEF IInv, SocketTypes
  <2> QED BY <1>1, <2>1 DEF IInv, Accounted, TeardownsEase
<1>7. Fresh'
  BY <1>1, <1>4 DEF IInv, Fresh, HandlersGoOn
<1>8. HandlerIdle'
  BY DEF IInv, HandlerIdle, HandlersGoOn, TeardownsEase
<1>9. WritersListed'
  BY <1>1 DEF WritersListed
<1> QED BY <1>2, <1>3, <1>5, <1>6, <1>7, <1>8, <1>9 DEF IInv

\* The teardowns are as they were.
LEMMA TeardownsSame ==
  ASSUME teardown' = teardown
  PROVE  TeardownsEase
  BY DEF TeardownsEase

\* A handler that moves between stages that are neither the lock nor the beginning.
LEMMA HandlerGoesOn ==
  ASSUME NEW s \in Socket, NEW stage \in HandlerStage, HandlerMoved(s, stage),
         handler[s] \notin {"subscribing", "left"},
         stage = "accepting" => handler[s] = "new", stage # "new"
  PROVE  HandlersGoOn
  BY DEF HandlersGoOn, HandlerMoved

LEMMA HandlersSame ==
  ASSUME handler' = handler
  PROVE  HandlersGoOn
  BY DEF HandlersGoOn

\* Where no writer moves, the writers stay listed.
LEMMA WritersSame ==
  ASSUME IInv, writer' = writer
  PROVE  \A s \in Socket : Running(s)' => s \in wsState
  BY DEF IInv, WritersListed, Running

LEMMA ConnectKeeps ==
  ASSUME Sizes, IInv, NEW s \in Socket, Connect(s) \/ AcceptFails(s)
  PROVE  IInv'
<1>1. PICK stage \in {"left", "accepting"} :
        /\ HandlerAt(s, stage)
        /\ stage = "accepting" => handler[s] = "new"
  BY DEF Connect, AcceptFails
<1>2. HandlerMoved(s, stage)
  BY <1>1, HandlerMoves DEF HandlerStage, IInv
<1>3. HandlersGoOn
  BY <1>1, <1>2, HandlerGoesOn DEF Connect, AcceptFails, HandlerStage
<1>4. UNCHANGED <<conns, wsState, queue, writer, teardown, waiting, subscribed,
                  torn, online, beat, alive, socketFaults>>
  BY DEF Connect, AcceptFails
<1>5. SocketTypes'
  BY <1>2, <1>4 DEF IInv, SocketTypes, HandlerMoved
<1>6. UNCHANGED <<conns, wsState, waiting, subscribed, torn>> /\ teardown' = teardown
      /\ writer' = writer
  BY <1>4
<1> QED BY <1>3, <1>5, <1>6, TeardownsSame, WritersSame, QuietKeeps

LEMMA SetOnlineKeeps ==
  ASSUME Sizes, IInv, NEW s \in Socket, SetOnline(s)
  PROVE  IInv'
<1>1. PICK stage \in {"left", "open"} : HandlerAt(s, stage)
  BY DEF SetOnline
<1>2. HandlerMoved(s, stage)
  BY <1>1, HandlerMoves DEF HandlerStage, IInv
<1>3. HandlersGoOn
  BY <1>2, HandlerGoesOn DEF SetOnline, HandlerStage
<1>4. UNCHANGED <<conns, wsState, queue, writer, teardown, waiting, subscribed,
                  torn, beat, alive>>
  BY DEF SetOnline
<1>5. online' \subseteq User
  BY DEF SetOnline, Sizes, IInv, SocketTypes
<1>6. socketFaults' \in 0..SocketFaultBound
  BY DEF SetOnline, Sizes, IInv, SocketTypes, SocketFault
<1>7. SocketTypes'
  BY <1>2, <1>4, <1>5, <1>6 DEF IInv, SocketTypes, HandlerMoved
<1>8. UNCHANGED <<conns, wsState, waiting, subscribed, torn>> /\ teardown' = teardown
      /\ writer' = writer
  BY <1>4
<1> QED BY <1>3, <1>7, <1>8, TeardownsSame, WritersSame, QuietKeeps

\* A writer that takes or has sent a message.
LEMMA WriterKeeps ==
  ASSUME Sizes, IInv, NEW s \in Socket, Take(s) \/ Sent(s)
  PROVE  IInv'
<1>1. PICK stage \in {"idle", "sending"} : WriterAt(s, stage)
  BY DEF Take, Sent
<1>2. WriterMoved(s, stage)
  BY <1>1, WriterMoves DEF WriterStage, IInv
<1>3. UNCHANGED <<conns, wsState, handler, teardown, waiting, subscribed, torn,
                  online, beat, alive, socketFaults>>
  BY DEF Take, Sent
<1>4. queue' \in [Socket -> 0..QueueMax]
  <2>1. CASE Take(s)
    BY <2>1 DEF Take, Sizes, IInv, SocketTypes
  <2>2. CASE Sent(s)
    BY <2>2 DEF Sent, IInv, SocketTypes
  <2> QED BY <2>1, <2>2
<1>5. SocketTypes'
  BY <1>2, <1>3, <1>4 DEF IInv, SocketTypes, WriterMoved
<1>6. ASSUME NEW r \in Socket, Running(r)'
      PROVE  r \in wsState
  <2>1. Running(s)
    BY DEF Take, Sent, Running
  <2>2. Running(r)
    BY <1>2, <1>6, <2>1 DEF WriterMoved, Running
  <2> QED BY <2>2 DEF IInv, WritersListed
<1>7. UNCHANGED <<conns, wsState, waiting, subscribed, torn>> /\ teardown' = teardown
      /\ handler' = handler
  BY <1>3
<1> QED BY <1>5, <1>6, <1>7, TeardownsSame, HandlersSame, QuietKeeps

\* The heartbeat, a loop that dies, a key that lapses.
LEMMA PresenceKeeps ==
  ASSUME Sizes, IInv,
         \/ \E v \in Server : BeatList(v)
         \/ \E v \in Server, u \in User : Beat(v, u)
         \/ \E v \in Server, loop \in Loop : Dies(v, loop)
         \/ \E u \in User : PresenceLapses(u)
  PROVE  IInv'
<1>1. UNCHANGED <<conns, wsState, queue, writer, handler, teardown, waiting,
                  subscribed, torn>>
  BY DEF BeatList, Beat, Dies, PresenceLapses
<1>2. online' \subseteq User
  BY DEF BeatList, Beat, Dies, PresenceLapses, IInv, SocketTypes
<1>3. \A v \in Server : UsersOn(v) \subseteq User
  BY DEF UsersOn, Sizes, IInv, SocketTypes
<1>4. beat' \in [Server -> SUBSET User]
  BY <1>3 DEF BeatList, Beat, Dies, PresenceLapses, IInv, SocketTypes
<1>5. alive' \in [Server -> SUBSET Loop]
  BY DEF BeatList, Beat, Dies, PresenceLapses, IInv, SocketTypes
<1>6. socketFaults' \in 0..SocketFaultBound
  BY DEF BeatList, Beat, Dies, PresenceLapses, Sizes, IInv, SocketTypes, SocketFault
<1>7. SocketTypes'
  BY <1>1, <1>2, <1>4, <1>5, <1>6 DEF IInv, SocketTypes
<1>8. UNCHANGED <<conns, wsState, waiting, subscribed, torn>> /\ teardown' = teardown
      /\ handler' = handler /\ writer' = writer
  BY <1>1
<1> QED BY <1>7, <1>8, TeardownsSame, HandlersSame, WritersSame, QuietKeeps

\* A message that is queued, or schedules evictions.
LEMMA DeliverKeeps ==
  ASSUME Sizes, IInv, NEW v \in Server, NEW u \in User, Deliver(v, u)
  PROVE  IInv'
<1> DEFINE mine == ConnsOf(v, u) \cap wsState
           full == {s \in mine : queue[s] = QueueMax}
<1>1. UNCHANGED <<conns, wsState, handler, waiting, subscribed, torn, online,
                  beat, alive, socketFaults>>
  BY DEF Deliver
<1>2. writer' = [s \in Socket |-> IF s \in mine /\ writer[s] = "none"
                                  THEN "idle" ELSE writer[s]]
  BY DEF Deliver
<1>3. queue' = [s \in Socket |-> IF s \in mine \ full THEN queue[s] + 1 ELSE queue[s]]
  BY DEF Deliver
<1>4. teardown' = [s \in Socket |->
         IF s \in full
         THEN [teardown[s] EXCEPT ![CHOOSE k \in Idle(s) : TRUE] = "scheduled"]
         ELSE teardown[s]]
  BY DEF Deliver
<1>5. mine \subseteq wsState /\ full \subseteq mine
      /\ \A s \in mine \ full : queue[s] # QueueMax
  OBVIOUS
<1>6. \A s \in full : Idle(s) # {}
  BY DEF Deliver
<1> HIDE DEF mine, full
<1>7. teardown \in [Socket -> [Task -> TeardownStage]]
  BY DEF IInv, SocketTypes
<1>8. ASSUME NEW s \in Socket, s \in full
      PROVE  \E k \in Eviction : /\ teardown[s][k] = "none"
                                 /\ teardown'[s] = [teardown[s] EXCEPT ![k] = "scheduled"]
  <2>1. (CHOOSE k \in Idle(s) : TRUE) \in Idle(s)
    BY <1>6, <1>8
  <2> QED BY <1>4, <1>8, <2>1 DEF Idle
<1>9. ASSUME NEW s \in Socket, s \notin full
      PROVE  teardown'[s] = teardown[s]
  BY <1>4, <1>9
<1>10. Eviction \subseteq Task /\ "scheduled" \in TeardownStage
  BY DEF Task, TeardownStage
<1>11. ASSUME NEW s \in Socket
       PROVE  teardown'[s] \in [Task -> TeardownStage]
  <2>1. teardown[s] \in [Task -> TeardownStage]
    BY <1>7
  <2> QED BY <1>8, <1>9, <1>10, <2>1
<1>12. teardown' \in [Socket -> [Task -> TeardownStage]]
  BY <1>4, <1>11
<1>13. ASSUME NEW s \in Socket, NEW k \in Task
       PROVE  \/ teardown'[s][k] = teardown[s][k]
              \/ /\ teardown[s][k] = "none" /\ teardown'[s][k] = "scheduled"
                 /\ k \in Eviction
  <2>1. teardown[s] \in [Task -> TeardownStage]
    BY <1>7
  <2> QED BY <1>8, <1>9, <2>1
<1>14. TeardownsEase
  BY <1>13 DEF TeardownsEase, Sizes, Task
<1>15. writer' \in [Socket -> WriterStage]
  BY <1>2 DEF IInv, SocketTypes, WriterStage
<1>16. queue' \in [Socket -> 0..QueueMax]
  <2>1. ASSUME NEW s \in Socket
        PROVE  queue'[s] \in 0..QueueMax
    <3>1. queue[s] \in 0..QueueMax /\ QueueMax \in Nat
      BY DEF IInv, SocketTypes, Sizes
    <3>2. CASE s \in mine \ full
      BY <1>3, <1>5, <3>1, <3>2
    <3>3. CASE s \notin mine \ full
      BY <1>3, <3>1, <3>3
    <3> QED BY <3>2, <3>3
  <2> QED BY <1>3, <2>1
<1>17. SocketTypes'
  BY <1>1, <1>12, <1>15, <1>16 DEF IInv, SocketTypes
<1>18. ASSUME NEW s \in Socket, Running(s)'
       PROVE  s \in wsState
  BY <1>2, <1>5, <1>18 DEF Running, IInv, WritersListed
<1>19. UNCHANGED <<conns, wsState, waiting, subscribed, torn>> /\ handler' = handler
  BY <1>1
<1> QED BY <1>14, <1>17, <1>18, <1>19, HandlersSame, QuietKeeps

LEMMA SetOfflineKeeps ==
  ASSUME Sizes, IInv, NEW s \in Socket, NEW k \in Task, SetOffline(s, k)
  PROVE  IInv'
<1>1. TeardownMoved(s, k, "none")
  BY TeardownMoves DEF SetOffline, TeardownStage, IInv
<1>2. UNCHANGED <<conns, wsState, queue, writer, handler, waiting, subscribed,
                  torn, beat, alive>>
  BY DEF SetOffline
<1>3. online' \subseteq User
  BY DEF SetOffline, IInv, SocketTypes
<1>4. socketFaults' \in 0..SocketFaultBound
  BY DEF SetOffline, Sizes, IInv, SocketTypes, SocketFault
<1>5. SocketTypes'
  BY <1>1, <1>2, <1>3, <1>4 DEF IInv, SocketTypes, TeardownMoved
<1>6. ASSUME NEW r \in Socket, NEW l \in Task
      PROVE  \/ teardown'[r][l] = teardown[r][l]
             \/ teardown[r][l] = "offline" /\ teardown'[r][l] = "none"
  BY <1>1 DEF TeardownMoved, SetOffline
<1>7. TeardownsEase
  BY <1>6 DEF TeardownsEase, Task
<1>8. UNCHANGED <<conns, wsState, waiting, subscribed, torn>> /\ handler' = handler
      /\ writer' = writer
  BY <1>2
<1> QED BY <1>5, <1>7, <1>8, HandlersSame, WritersSame, QuietKeeps

----------------------------------------------------------------------------
(* The steps of a teardown.                                                *)

\* The handler of the socket stays where it is or ends; it ends if it is the one
\* that tears down.
MayEnd(s, k) ==
  /\ handler' \in [Socket -> HandlerStage]
  /\ handler'[s] = handler[s] \/ (handler'[s] = "left" /\ handler[s] = "open")
  /\ k = "handler" => handler'[s] = "left"
  /\ \A r \in Socket : r # s => handler'[r] = handler[r]

LEMMA DropKeeps ==
  ASSUME Sizes, IInv, NEW s \in Socket, NEW k \in Task,
         Drop(s, k), WriterAt(s, "none"), MayEnd(s, k),
         wsState' = wsState \ {s}, queue' \in [Socket -> 0..QueueMax],
         UNCHANGED <<subscribed, torn, online, beat, alive, socketFaults>>,
         handler[s] \notin {"new", "accepting"},
         \A l \in Owners(s) : l = k,
         \A l \in Task : teardown[s][l] # "unsubscribe"
  PROVE  IInv'
<1>1. WriterMoved(s, "none")
  BY WriterMoves DEF WriterStage, IInv
<1>2. conns' = conns \ {s}
  BY DEF Drop
<1>3. PICK stage \in {"none", "unsubscribe"} :
        /\ TeardownAt(s, k, stage)
        /\ \/ stage = "none" /\ waiting' = waiting
           \/ stage = "unsubscribe" /\ AtLock(s, "unsubscribe", k)
  BY DEF Drop
<1>4. TeardownMoved(s, k, stage)
  BY <1>3, TeardownMoves DEF TeardownStage, IInv
<1>5. ChannelsFollow'
  BY ChannelsDrop DEF IInv
<1>6. WaitersStay
  BY <1>4 DEF WaitersStay, TeardownMoved, MayEnd
<1>7. /\ WaitsSound' /\ WaitsApart'
      /\ waiting' \in [Server -> Seq(Command)]
  <2>1. CASE waiting' = waiting
    BY <1>6, <2>1, WaitsSame DEF IInv, SocketTypes
  <2>2. CASE stage = "unsubscribe" /\ AtLock(s, "unsubscribe", k)
    <3>1. Arrived(s, "unsubscribe", k)
      BY <2>2, Comes DEF IInv
    <3>2. teardown'[s][k] = "unsubscribe"
      BY <1>4, <2>2 DEF TeardownMoved
    <3>3. WaitsSound' /\ WaitsApart'
      BY <1>6, <3>1, <3>2, WaitsAppend DEF IInv
    <3> QED BY <3>1, <3>3 DEF Arrived
  <2> QED BY <1>3, <2>1, <2>2
<1>8. SocketTypes'
  BY <1>1, <1>2, <1>4, <1>7 DEF IInv, SocketTypes, TeardownMoved, WriterMoved, MayEnd
<1>9. \A r \in Socket : r # s => Owners(r)' = Owners(r)
  BY <1>4 DEF Owners, TeardownMoved
<1>10. \A l \in Owners(s)' : l = k
  BY <1>4 DEF Owners, TeardownMoved
<1>11. TornDownOnce'
  BY <1>9, <1>10 DEF IInv, TornDownOnce
<1>12. Accounted'
  <2>1. conns \subseteq Socket
    BY DEF IInv, SocketTypes
  <2> QED BY <1>2, <1>4, <2>1 DEF IInv, Accounted, TeardownMoved
<1>13. Fresh'
  BY <1>9 DEF IInv, Fresh, MayEnd
<1>14. HandlerIdle'
  <2>1. "handler" \in Task
    BY DEF Task
  <2>2. ASSUME NEW r \in Socket, handler'[r] # "left"
        PROVE  handler[r] # "left" /\ (r = s => k # "handler")
    BY <2>2 DEF MayEnd
  <2> QED BY <1>4, <2>1, <2>2 DEF IInv, HandlerIdle, TeardownMoved
<1>15. WritersListed'
  BY <1>1 DEF IInv, WritersListed, Running, WriterMoved
<1> QED BY <1>5, <1>7, <1>8, <1>11, <1>12, <1>13, <1>14, <1>15 DEF IInv

\* A task that has not begun to tear down, and the handlers it may end.
LEMMA BeginKeeps ==
  ASSUME Sizes, IInv, NEW s \in Socket, NEW k \in Task,
         Begin(s, k), MayEnd(s, k), teardown[s][k] \in {"none", "scheduled"},
         UNCHANGED <<subscribed, torn, online, beat, alive, socketFaults>>
  PROVE  IInv'
<1>1. CASE s \notin wsState
  <2>1. TeardownMoved(s, k, "none")
    BY <1>1, TeardownMoves DEF Begin, TeardownStage, IInv
  <2>2. UNCHANGED <<conns, wsState, queue, waiting>>
    BY <1>1 DEF Begin
  <2>3. writer' = writer \/ WriterMoved(s, "none")
    BY <1>1, WriterMoves DEF Begin, WriterStage, IInv
  <2>4. SocketTypes'
    BY <2>1, <2>2, <2>3 DEF IInv, SocketTypes, TeardownMoved, WriterMoved, MayEnd
  <2>5. ASSUME NEW r \in Socket, NEW l \in Task
        PROVE  \/ teardown'[r][l] = teardown[r][l]
               \/ teardown[r][l] = "scheduled" /\ teardown'[r][l] = "none"
    BY <2>1 DEF TeardownMoved
  <2>6. TeardownsEase
    BY <2>5 DEF TeardownsEase, Task
  <2>7. HandlersGoOn
    BY DEF MayEnd, HandlersGoOn
  <2>8. ASSUME NEW r \in Socket, Running(r)'
        PROVE  r \in wsState
    BY <2>3, <2>8 DEF WriterMoved, Running, IInv, WritersListed
  <2>9. UNCHANGED <<conns, wsState, waiting, subscribed, torn>>
    BY <2>2
  <2> QED BY <2>4, <2>6, <2>7, <2>8, <2>9, QuietKeeps
<1>2. CASE s \in wsState
  <2>1. Owners(s) = {}
    BY <1>2 DEF IInv, TornDownOnce
  <2>2. handler[s] \notin {"new", "accepting"}
    BY <1>2 DEF IInv, Fresh
  <2>3. \A l \in Task : teardown[s][l] \in {"none", "scheduled"}
    BY <2>1 DEF Owners
  <2>4. wsState' = wsState \ {s} /\ queue' = [queue EXCEPT ![s] = 0]
    BY <1>2 DEF Begin
  <2>5. queue' \in [Socket -> 0..QueueMax]
    BY <2>4 DEF IInv, SocketTypes, Sizes
  <2>6. CASE Running(s) /\ k # "writer"
    <3>1. WriterMoved(s, "cancelled")
      BY <1>2, <2>6, WriterMoves DEF Begin, WriterStage, IInv
    <3>2. TeardownMoved(s, k, "stop")
      BY <1>2, <2>6, TeardownMoves DEF Begin, TeardownStage, IInv
    <3>3. conns' = conns /\ waiting' = waiting
      BY <1>2, <2>6 DEF Begin
    <3>4. SocketTypes'
      BY <2>4, <2>5, <3>1, <3>2, <3>3 DEF IInv, SocketTypes, TeardownMoved, WriterMoved, MayEnd
    <3>5. ChannelsFollow'
      <4>1. \A v \in Server, u \in User : Connected(v, u)' = Connected(v, u)
        BY <3>3 DEF Connected, ConnsOf, ChannelKey
      <4> QED BY <3>3, <4>1, ChannelsSame DEF IInv
    <3>6. WaitsSound' /\ WaitsApart'
      <4>1. WaitersStay
        BY <2>3, <3>2 DEF WaitersStay, TeardownMoved, MayEnd
      <4> QED BY <3>3, <4>1, WaitsSame DEF IInv
    <3>7. \A r \in Socket : r # s => Owners(r)' = Owners(r)
      BY <3>2 DEF Owners, TeardownMoved
    <3>8. \A l \in Owners(s)' : l = k
      BY <2>3, <3>2 DEF Owners, TeardownMoved
    <3>9. TornDownOnce'
      BY <2>4, <3>7, <3>8 DEF IInv, TornDownOnce
    <3>10. Accounted'
      <4>1. conns \subseteq Socket
        BY DEF IInv, SocketTypes
      <4> QED BY <2>4, <3>2, <3>3, <4>1 DEF IInv, Accounted, TeardownMoved
    <3>11. Fresh'
      BY <2>2, <2>4, <3>7 DEF IInv, Fresh, MayEnd
    <3>12. HandlerIdle'
      <4>1. "handler" \in Task
        BY DEF Task
      <4>2. ASSUME NEW r \in Socket, handler'[r] # "left"
            PROVE  handler[r] # "left" /\ (r = s => k # "handler")
        BY <4>2 DEF MayEnd
      <4> QED BY <3>2, <4>1, <4>2 DEF IInv, HandlerIdle, TeardownMoved
    <3>13. WritersListed'
      BY <2>4, <3>1 DEF IInv, WritersListed, Running, WriterMoved
    <3> QED BY <3>4, <3>5, <3>6, <3>9, <3>10, <3>11, <3>12, <3>13 DEF IInv
  <2>7. CASE ~(Running(s) /\ k # "writer")
    <3>1. WriterAt(s, "none") /\ Drop(s, k)
      BY <1>2, <2>7 DEF Begin
    <3>2. \A l \in Task : teardown[s][l] # "unsubscribe"
      BY <2>3
    <3> QED BY <2>1, <2>2, <2>4, <2>5, <3>1, <3>2, DropKeeps
  <2> QED BY <2>6, <2>7
<1> QED BY <1>1, <1>2

\* The tasks are not mistaken for each other.
LEMMA TaskNames == "handler" \in Task /\ "writer" \in Task /\ "writer" # "handler"
  BY DEF Task

LEMMA LeaveKeeps ==
  ASSUME Sizes, IInv, NEW s \in Socket, Leave(s)
  PROVE  IInv'
<1>1. handler[s] = "open" /\ Begin(s, "handler")
      /\ UNCHANGED <<subscribed, torn, online, beat, alive, socketFaults>>
  BY DEF Leave
<1>2. HandlerMoved(s, "left")
  BY HandlerMoves DEF Leave, HandlerStage, IInv
<1>3. MayEnd(s, "handler")
  BY <1>1, <1>2 DEF MayEnd, HandlerMoved
<1>4. teardown[s]["handler"] \in {"none", "scheduled"}
  BY <1>1 DEF IInv, HandlerIdle
<1> QED BY <1>1, <1>3, <1>4, TaskNames, BeginKeeps

LEMMA SendFailsKeeps ==
  ASSUME Sizes, IInv, NEW s \in Socket, SendFails(s)
  PROVE  IInv'
<1>1. writer[s] = "sending" /\ Begin(s, "writer") /\ handler' = handler
      /\ UNCHANGED <<subscribed, torn, online, beat, alive, socketFaults>>
  BY DEF SendFails
<1>2. MayEnd(s, "writer")
  BY <1>1, TaskNames DEF MayEnd, IInv, SocketTypes
<1>3. s \in wsState
  BY <1>1 DEF IInv, WritersListed, Running
<1>4. teardown[s]["writer"] \in {"none", "scheduled"}
  BY <1>3, TaskNames DEF IInv, TornDownOnce, Owners
<1> QED BY <1>1, <1>2, <1>4, TaskNames, BeginKeeps

LEMMA EvictKeeps ==
  ASSUME Sizes, IInv, NEW s \in Socket, NEW k \in Task, Evict(s, k)
  PROVE  IInv'
<1>1. teardown[s][k] = "scheduled" /\ Begin(s, k) /\ handler' = handler
      /\ UNCHANGED <<subscribed, torn, online, beat, alive, socketFaults>>
  BY DEF Evict
<1>2. MayEnd(s, k)
  <2>1. k = "handler" => handler[s] = "left"
    BY <1>1 DEF IInv, HandlerIdle
  <2> QED BY <1>1, <2>1 DEF MayEnd, IInv, SocketTypes
<1> QED BY <1>1, <1>2, BeginKeeps

LEMMA WriterStoppedKeeps ==
  ASSUME Sizes, IInv, NEW s \in Socket, NEW k \in Task, WriterStopped(s, k)
  PROVE  IInv'
<1>1. teardown[s][k] = "stop" /\ WriterAt(s, "none") /\ Drop(s, k)
      /\ handler' = handler /\ queue' = queue /\ wsState' = wsState
      /\ UNCHANGED <<subscribed, torn, online, beat, alive, socketFaults>>
  BY DEF WriterStopped
<1>2. k \in Owners(s)
  BY <1>1 DEF Owners
<1>3. s \notin wsState /\ \A l \in Owners(s) : l = k
  BY <1>2 DEF IInv, TornDownOnce
<1>4. handler[s] \notin {"new", "accepting"}
  BY <1>2 DEF IInv, Fresh
<1>5. MayEnd(s, k)
  <2>1. k = "handler" => handler[s] = "left"
    BY <1>1 DEF IInv, HandlerIdle
  <2> QED BY <1>1, <2>1 DEF MayEnd, IInv, SocketTypes
<1>6. \A l \in Task : teardown[s][l] # "unsubscribe"
  <2>1. ASSUME NEW l \in Task, teardown[s][l] = "unsubscribe"
        PROVE  FALSE
    <3>1. l \in Owners(s)
      BY <2>1 DEF Owners
    <3> QED BY <1>1, <1>3, <2>1, <3>1
  <2> QED BY <2>1
<1>7. wsState' = wsState \ {s} /\ queue' \in [Socket -> 0..QueueMax]
  BY <1>1, <1>3 DEF IInv, SocketTypes
<1> QED BY <1>1, <1>3, <1>4, <1>5, <1>6, <1>7, DropKeeps

LEMMA AcceptKeeps ==
  ASSUME Sizes, IInv, NEW s \in Socket, Accept(s)
  PROVE  IInv'
<1>1. handler[s] = "accepting" /\ conns' = conns \cup {s} /\ wsState' = wsState \cup {s}
      /\ queue' = queue /\ writer' = writer /\ teardown' = teardown
      /\ subscribed' = subscribed /\ torn' = torn /\ online' = online
      /\ beat' = beat /\ alive' = alive /\ socketFaults' = socketFaults
  BY DEF Accept
<1>2. s \notin wsState /\ Owners(s) = {}
  BY <1>1 DEF IInv, Fresh
<1>3. PICK stage \in {"presence", "subscribing"} :
        /\ HandlerAt(s, stage)
        /\ \/ stage = "presence" /\ waiting' = waiting /\ ~IsFirst(s)
           \/ stage = "subscribing" /\ AtLock(s, "subscribe", "handler") /\ IsFirst(s)
  BY DEF Accept
<1>4. HandlerMoved(s, stage)
  BY <1>3, HandlerMoves DEF HandlerStage, IInv
<1>5. WaitersStay
  BY <1>1, <1>4 DEF WaitersStay, HandlerMoved
<1>6. /\ WaitsSound' /\ WaitsApart'
      /\ waiting' \in [Server -> Seq(Command)]
  <2>1. CASE waiting' = waiting
    BY <1>5, <2>1, WaitsSame DEF IInv, SocketTypes
  <2>2. CASE stage = "subscribing" /\ AtLock(s, "subscribe", "handler")
    <3>1. Arrived(s, "subscribe", "handler")
      BY <2>2, Comes, TaskNames DEF IInv
    <3>2. handler[s] # "subscribing" /\ handler'[s] = "subscribing"
      BY <1>1, <1>4, <2>2 DEF HandlerMoved
    <3>3. WaitsSound' /\ WaitsApart'
      BY <1>5, <3>1, <3>2, WaitsAppend, TaskNames DEF IInv
    <3> QED BY <3>1, <3>3 DEF Arrived
  <2> QED BY <1>3, <2>1, <2>2
<1>7. SocketTypes'
  BY <1>1, <1>4, <1>6 DEF IInv, SocketTypes, HandlerMoved
<1>8. ASSUME NEW v \in Server, NEW u \in User
      PROVE  Connected(v, u)' = (<<v, u>> = ChannelKey(s) \/ Connected(v, u))
  BY <1>1 DEF Connected, ConnsOf, ChannelKey
<1>9. ChannelsFollow'
  <2>1. CASE waiting' = waiting /\ ~IsFirst(s)
    <3>1. ASSUME NEW v \in Server, NEW u \in User, <<v, u>> = ChannelKey(s)
          PROVE  Connected(v, u)
      BY <2>1, <3>1 DEF IsFirst, Connected, ConnsOf, ChannelKey
    <3>2. \A v \in Server, u \in User : Connected(v, u)' = Connected(v, u)
      BY <1>8, <3>1 DEF Connected
    <3> QED BY <1>1, <2>1, <3>2, ChannelsSame DEF IInv
  <2>2. CASE AtLock(s, "subscribe", "handler")
    <3>1. \A v \in Server, u \in User :
            Connected(v, u)' = (IF <<v, u>> = ChannelKey(s) THEN "subscribe" = "subscribe"
                                ELSE Connected(v, u))
      BY <1>8 DEF Connected
    <3> QED BY <1>1, <2>2, <3>1, ChannelsAppend, TaskNames DEF IInv
  <2> QED BY <1>3, <2>1, <2>2
<1>10. \A r \in Socket : Owners(r)' = Owners(r)
  BY <1>1 DEF Owners
<1>11. TornDownOnce'
  BY <1>1, <1>2, <1>10 DEF IInv, TornDownOnce
<1>12. Accounted'
  BY <1>1 DEF IInv, Accounted
<1>13. Fresh'
  BY <1>1, <1>4, <1>10 DEF IInv, Fresh, HandlerMoved
<1>14. HandlerIdle'
  BY <1>1, <1>4 DEF IInv, HandlerIdle, HandlerMoved
<1>15. WritersListed'
  BY <1>1 DEF IInv, WritersListed, Running
<1> QED BY <1>6, <1>7, <1>9, <1>11, <1>12, <1>13, <1>14, <1>15 DEF IInv

----------------------------------------------------------------------------
(* The lock is given to who waits first.                                   *)

\* The queue of the server moves up by one.
MovedUp(v) ==
  /\ waiting' \in [Server -> Seq(Command)]
  /\ \A w \in Server : w # v => waiting'[w] = waiting[w]
  /\ LET n == Len(waiting[v])
     IN /\ n \in Nat \ {0} /\ DOMAIN waiting[v] = 1..n
        /\ DOMAIN waiting'[v] = 1..(n - 1)
        /\ \A i \in 1..(n - 1) : waiting'[v][i] = waiting[v][i + 1] /\ i + 1 \in 1..n

LEMMA MovesUp ==
  ASSUME SocketTypes, NEW v \in Server, waiting[v] # <<>>,
         waiting' = [waiting EXCEPT ![v] = Tail(@)]
  PROVE  MovedUp(v) /\ Head(waiting[v]) = waiting[v][1] /\ 1 \in DOMAIN waiting[v]
<1>1. waiting \in [Server -> Seq(Command)] /\ waiting[v] \in Seq(Command)
  BY DEF SocketTypes
<1>2. waiting'[v] = Tail(waiting[v])
  BY <1>1
<1>3. Tail(waiting[v]) \in Seq(Command)
  BY <1>1, TailEntries
<1>4. waiting' \in [Server -> Seq(Command)]
  BY <1>1, <1>3
<1>5. \A w \in Server : w # v => waiting'[w] = waiting[w]
  BY <1>1
<1>6. LET n == Len(waiting[v])
      IN /\ n \in Nat \ {0} /\ DOMAIN waiting[v] = 1..n
         /\ DOMAIN waiting'[v] = 1..(n - 1)
         /\ \A i \in 1..(n - 1) : waiting'[v][i] = waiting[v][i + 1] /\ i + 1 \in 1..n
  BY <1>1, <1>2, TailEntries
<1>7. Head(waiting[v]) = waiting[v][1]
  BY <1>1, TailEntries
<1>8. 1 \in DOMAIN waiting[v]
  BY <1>6
<1> QED BY <1>4, <1>5, <1>6, <1>7, <1>8 DEF MovedUp

\* The command that is done was the last one about its channel, or one still waits.
LEMMA ChannelsServed ==
  ASSUME Sizes, SocketTypes, ChannelsFollow, NEW v \in Server, waiting[v] # <<>>,
         MovedUp(v), conns' = conns,
         WaitsSound,
         LET c == waiting[v][1]
         IN \/ torn' = torn \cup {ChannelKey(c.sock)} /\ subscribed' = subscribed
            \/ /\ torn' = torn \ {ChannelKey(c.sock)}
               /\ subscribed' = IF c.op = "subscribe" THEN subscribed \cup {ChannelKey(c.sock)}
                                ELSE subscribed \ {ChannelKey(c.sock)}
  PROVE  ChannelsFollow'
<1> DEFINE c == waiting[v][1]
           n == Len(waiting[v])
<1>1. /\ n \in Nat \ {0} /\ DOMAIN waiting[v] = 1..n
      /\ DOMAIN waiting'[v] = 1..(n - 1)
      /\ \A i \in 1..(n - 1) : waiting'[v][i] = waiting[v][i + 1] /\ i + 1 \in 1..n
  BY DEF MovedUp
<1>2. 1 \in DOMAIN waiting[v]
  BY <1>1
<1>3. ServerOf[c.sock] = v
  BY <1>2 DEF WaitsSound, EntrySound
<1>4. c.op \in {"subscribe", "unsubscribe"} /\ c.sock \in Socket
  BY <1>2, EntryType
<1>5. ChannelKey(c.sock) = <<v, UserOf[c.sock]>>
  BY <1>3 DEF ChannelKey
<1>6. \/ torn' = torn \cup {ChannelKey(c.sock)} /\ subscribed' = subscribed
      \/ /\ torn' = torn \ {ChannelKey(c.sock)}
         /\ subscribed' = IF c.op = "subscribe" THEN subscribed \cup {ChannelKey(c.sock)}
                          ELSE subscribed \ {ChannelKey(c.sock)}
  OBVIOUS
<1> HIDE DEF c, n
<1> SUFFICES ASSUME NEW w \in Server, NEW u \in User
             PROVE  /\ Pending(w, u)' = {} =>
                         <<w, u>> \in torn' \/ (<<w, u>> \in subscribed' <=> Connected(w, u)')
                    /\ \A i \in Pending(w, u)' :
                         (\A j \in Pending(w, u)' : j <= i) =>
                           waiting'[w][i].op = (IF Connected(w, u)' THEN "subscribe"
                                                ELSE "unsubscribe")
  BY DEF ChannelsFollow
<1>7. Connected(w, u)' = Connected(w, u)
  BY DEF Connected, ConnsOf, ChannelKey
<1>8. CASE w # v
  <2>1. waiting'[w] = waiting[w]
    BY <1>8 DEF MovedUp
  <2>2. Pending(w, u)' = Pending(w, u)
    BY <2>1 DEF Pending, ChannelKey
  <2>3. <<w, u>> # ChannelKey(c.sock)
    BY <1>5, <1>8
  <2>4. (<<w, u>> \in torn' <=> <<w, u>> \in torn)
        /\ (<<w, u>> \in subscribed' <=> <<w, u>> \in subscribed)
    BY <1>6, <2>3
  <2> QED BY <1>7, <2>1, <2>2, <2>4 DEF ChannelsFollow
<1>9. CASE w = v
  <2>1. \A i \in 1..(n - 1) : i \in Pending(w, u)' <=> i + 1 \in Pending(w, u)
    BY <1>1, <1>9 DEF Pending, ChannelKey
  <2>2. Pending(w, u)' \subseteq 1..(n - 1) /\ Pending(w, u) \subseteq 1..n
    BY <1>1, <1>9 DEF Pending
  <2>3. ASSUME NEW i \in Pending(w, u)', \A j \in Pending(w, u)' : j <= i
        PROVE  waiting'[w][i].op = (IF Connected(w, u)' THEN "subscribe" ELSE "unsubscribe")
    <3>1. i \in 1..(n - 1) /\ i + 1 \in Pending(w, u)
      BY <2>1, <2>2, <2>3
    <3>2. ASSUME NEW j \in Pending(w, u)
          PROVE  j <= i + 1
      <4>1. CASE j = 1
        BY <1>1, <3>1, <4>1
      <4>2. CASE j # 1
        <5>1. j - 1 \in 1..(n - 1) /\ (j - 1) + 1 = j
          BY <1>1, <2>2, <4>2
        <5>2. j - 1 \in Pending(w, u)'
          BY <2>1, <5>1
        <5>3. j - 1 <= i
          BY <2>3, <5>2
        <5> QED BY <1>1, <2>2, <3>1, <5>3
      <4> QED BY <4>1, <4>2
    <3>3. waiting[w][i + 1].op = (IF Connected(w, u) THEN "subscribe" ELSE "unsubscribe")
      BY <3>1, <3>2 DEF ChannelsFollow
    <3>4. waiting'[w][i] = waiting[w][i + 1]
      BY <1>1, <1>9, <3>1
    <3> QED BY <1>7, <3>3, <3>4
  <2>4. ASSUME Pending(w, u)' = {}
        PROVE  <<w, u>> \in torn' \/ (<<w, u>> \in subscribed' <=> Connected(w, u)')
    <3>1. \A j \in Pending(w, u) : j = 1
      <4> SUFFICES ASSUME NEW j \in Pending(w, u), j # 1 PROVE FALSE
        OBVIOUS
      <4>1. j - 1 \in 1..(n - 1) /\ (j - 1) + 1 = j
        BY <1>1, <2>2
      <4> QED BY <2>1, <2>4, <4>1
    <3>2. CASE <<w, u>> = ChannelKey(c.sock)
      <4>1. 1 \in Pending(w, u)
        BY <1>2, <1>9, <3>2 DEF Pending, c
      <4>2. \A j \in Pending(w, u) : j <= 1
        BY <3>1
      <4>3. c.op = (IF Connected(w, u) THEN "subscribe" ELSE "unsubscribe")
        BY <1>9, <4>1, <4>2 DEF ChannelsFollow, c
      <4> QED BY <1>6, <1>7, <3>2, <4>3
    <3>3. CASE <<w, u>> # ChannelKey(c.sock)
      <4>1. 1 \notin Pending(w, u)
        BY <1>9, <3>3 DEF Pending, c
      <4>2. Pending(w, u) = {}
        BY <3>1, <4>1
      <4>3. (<<w, u>> \in torn' <=> <<w, u>> \in torn)
            /\ (<<w, u>> \in subscribed' <=> <<w, u>> \in subscribed)
        BY <1>6, <3>3
      <4> QED BY <1>7, <4>2, <4>3 DEF ChannelsFollow
    <3> QED BY <3>2, <3>3
  <2> QED BY <2>3, <2>4
<1> QED BY <1>8, <1>9

\* The commands behind the first are about other waits.
LEMMA WaitsServed ==
  ASSUME Sizes, SocketTypes, WaitsSound, WaitsApart, NEW v \in Server, waiting[v] # <<>>,
         MovedUp(v),
         LET c == waiting[v][1]
         IN \/ /\ c.op = "subscribe" /\ teardown' = teardown
               /\ \A r \in Socket : r # c.sock => handler'[r] = handler[r]
            \/ /\ c.op = "unsubscribe" /\ handler' = handler
               /\ \A r \in Socket, l \in Task :
                    r # c.sock => teardown'[r][l] = teardown[r][l]
  PROVE  WaitsSound' /\ WaitsApart'
<1> DEFINE c == waiting[v][1]
           n == Len(waiting[v])
<1>1. /\ n \in Nat \ {0} /\ DOMAIN waiting[v] = 1..n
      /\ DOMAIN waiting'[v] = 1..(n - 1)
      /\ \A i \in 1..(n - 1) : waiting'[v][i] = waiting[v][i + 1] /\ i + 1 \in 1..n
  BY DEF MovedUp
<1>2. 1 \in DOMAIN waiting[v]
  BY <1>1
<1>3. ServerOf[c.sock] = v /\ c.sock \in Socket
  BY <1>2, EntryType DEF WaitsSound, EntrySound
<1>4. \/ /\ c.op = "subscribe" /\ teardown' = teardown
         /\ \A r \in Socket : r # c.sock => handler'[r] = handler[r]
      \/ /\ c.op = "unsubscribe" /\ handler' = handler
         /\ \A r \in Socket, l \in Task : r # c.sock => teardown'[r][l] = teardown[r][l]
  OBVIOUS
<1>5. ASSUME NEW i \in 1..(n - 1)
      PROVE  ~(waiting[v][i + 1].op = c.op /\ waiting[v][i + 1].sock = c.sock)
  <2>1. i + 1 \in DOMAIN waiting[v] /\ i + 1 # 1
    BY <1>1, <1>5
  <2> QED BY <1>2, <2>1 DEF WaitsApart, c
<1> HIDE DEF c, n
<1>6. ASSUME NEW w \in Server, NEW i \in DOMAIN waiting[w], EntrySound(w, waiting[w][i]),
             ~(waiting[w][i].op = c.op /\ waiting[w][i].sock = c.sock)
      PROVE  /\ (waiting[w][i].op = "subscribe" => handler'[waiting[w][i].sock] = "subscribing")
             /\ (waiting[w][i].op = "unsubscribe" =>
                   teardown'[waiting[w][i].sock][waiting[w][i].task] = "unsubscribe")
  <2>1. waiting[w][i].sock \in Socket /\ waiting[w][i].task \in Task
    BY EntryType
  <2> QED BY <1>4, <1>6, <2>1 DEF EntrySound
<1>7. ASSUME NEW w \in Server, NEW i \in DOMAIN waiting'[w]
      PROVE  EntrySound(w, waiting[w][i])'
  <2>1. CASE w # v
    <3>1. waiting'[w] = waiting[w] /\ i \in DOMAIN waiting[w]
      BY <1>7, <2>1 DEF MovedUp
    <3>2. EntrySound(w, waiting[w][i])
      BY <3>1 DEF WaitsSound
    <3>3. waiting[w][i].sock # c.sock
      BY <1>3, <2>1, <3>2 DEF EntrySound
    <3> QED BY <1>6, <3>1, <3>2, <3>3 DEF EntrySound
  <2>2. CASE w = v
    <3>1. i \in 1..(n - 1) /\ waiting'[v][i] = waiting[v][i + 1]
          /\ i + 1 \in DOMAIN waiting[v]
      BY <1>1, <1>7, <2>2
    <3>2. EntrySound(v, waiting[v][i + 1])
      BY <3>1 DEF WaitsSound
    <3> QED BY <1>5, <1>6, <2>2, <3>1, <3>2 DEF EntrySound
  <2> QED BY <2>1, <2>2
<1>8. ASSUME NEW w \in Server, NEW i \in DOMAIN waiting'[w], NEW j \in DOMAIN waiting'[w],
             waiting'[w][i].op = waiting'[w][j].op,
             waiting'[w][i].sock = waiting'[w][j].sock
      PROVE  i = j
  <2>1. CASE w # v
    <3>1. waiting'[w] = waiting[w]
      BY <2>1 DEF MovedUp
    <3> QED BY <1>8, <3>1 DEF WaitsApart
  <2>2. CASE w = v
    <3>1. i \in 1..(n - 1) /\ j \in 1..(n - 1)
      BY <1>1, <1>8, <2>2
    <3>2. /\ i + 1 \in DOMAIN waiting[v] /\ waiting'[v][i] = waiting[v][i + 1]
          /\ j + 1 \in DOMAIN waiting[v] /\ waiting'[v][j] = waiting[v][j + 1]
      BY <1>1, <3>1
    <3>3. i + 1 = j + 1
      BY <1>8, <2>2, <3>2 DEF WaitsApart
    <3> QED BY <1>1, <3>1, <3>3
  <2> QED BY <2>1, <2>2
<1> QED BY <1>7, <1>8 DEF WaitsSound, WaitsApart

LEMMA PubsubKeeps ==
  ASSUME Sizes, IInv, NEW v \in Server, Pubsub(v)
  PROVE  IInv'
<1> DEFINE c == waiting[v][1]
<1>1. waiting[v] # <<>> /\ waiting' = [waiting EXCEPT ![v] = Tail(@)]
      /\ UNCHANGED <<conns, wsState, queue, writer, online, beat, alive>>
  BY DEF Pubsub
<1>2. MovedUp(v) /\ Head(waiting[v]) = c /\ 1 \in DOMAIN waiting[v]
  BY <1>1, MovesUp DEF IInv
<1>3. /\ c.sock \in Socket /\ c.task \in Task /\ c.op \in {"subscribe", "unsubscribe"}
      /\ EntrySound(v, c)
  BY <1>2, EntryType DEF IInv, WaitsSound
<1>4. \/ /\ torn' = torn \ {ChannelKey(c.sock)} /\ socketFaults' = socketFaults
         /\ subscribed' = IF c.op = "subscribe" THEN subscribed \cup {ChannelKey(c.sock)}
                          ELSE subscribed \ {ChannelKey(c.sock)}
      \/ /\ torn' = torn \cup {ChannelKey(c.sock)} /\ socketFaults > 0 /\ socketFaults' = socketFaults - 1
         /\ subscribed' = subscribed
  BY <1>2 DEF Pubsub, SocketFault
<1>5. \/ /\ c.op = "subscribe" /\ teardown' = teardown
         /\ HandlerAt(c.sock, "presence") \/ HandlerAt(c.sock, "left")
      \/ /\ c.op = "unsubscribe" /\ handler' = handler
         /\ TeardownAt(c.sock, c.task, "offline")
  BY <1>2, <1>3 DEF Pubsub
<1> HIDE DEF c
<1>6. \/ /\ c.op = "subscribe" /\ teardown' = teardown
         /\ HandlerMoved(c.sock, "presence") \/ HandlerMoved(c.sock, "left")
      \/ /\ c.op = "unsubscribe" /\ handler' = handler
         /\ TeardownMoved(c.sock, c.task, "offline")
  BY <1>3, <1>5, HandlerMoves, TeardownMoves DEF IInv, HandlerStage, TeardownStage
<1>7. ChannelsFollow'
  BY <1>1, <1>2, <1>4, ChannelsServed DEF IInv, c
<1>8. WaitsSound' /\ WaitsApart'
  <2>1. \/ /\ c.op = "subscribe" /\ teardown' = teardown
           /\ \A r \in Socket : r # c.sock => handler'[r] = handler[r]
        \/ /\ c.op = "unsubscribe" /\ handler' = handler
           /\ \A r \in Socket, l \in Task : r # c.sock => teardown'[r][l] = teardown[r][l]
    BY <1>6 DEF HandlerMoved, TeardownMoved
  <2> QED BY <1>1, <1>2, <2>1, WaitsServed DEF IInv, c
<1>9. SocketTypes'
  <2>1. ChannelKey(c.sock) \in Server \X User
    BY <1>3, KeyType
  <2>2. torn' \subseteq Server \X User /\ subscribed' \subseteq Server \X User
    BY <1>4, <2>1 DEF IInv, SocketTypes
  <2>3. socketFaults' \in 0..SocketFaultBound
    BY <1>4 DEF IInv, SocketTypes, Sizes
  <2>4. handler' \in [Socket -> HandlerStage]
        /\ teardown' \in [Socket -> [Task -> TeardownStage]]
    BY <1>6 DEF IInv, SocketTypes, HandlerMoved, TeardownMoved
  <2> QED BY <1>1, <1>2, <2>2, <2>3, <2>4 DEF IInv, SocketTypes, MovedUp
<1>10. ASSUME NEW r \in Socket, NEW l \in Task
       PROVE  \/ teardown'[r][l] = teardown[r][l]
              \/ teardown[r][l] = "unsubscribe" /\ teardown'[r][l] = "offline"
  BY <1>3, <1>6 DEF TeardownMoved, EntrySound
<1>11. \A r \in Socket : Owners(r)' = Owners(r)
  BY <1>10 DEF Owners
<1>12. TornDownOnce'
  BY <1>1, <1>11 DEF IInv, TornDownOnce
<1>13. Accounted'
  <2>1. conns \subseteq Socket
    BY DEF IInv, SocketTypes
  <2> QED BY <1>1, <1>10, <2>1 DEF IInv, Accounted
<1>14. ASSUME NEW r \in Socket
       PROVE  \/ handler'[r] = handler[r]
              \/ handler[r] = "subscribing" /\ handler'[r] \in {"presence", "left"}
  BY <1>3, <1>6 DEF HandlerMoved, EntrySound
<1>15. Fresh'
  BY <1>1, <1>11, <1>14 DEF IInv, Fresh
<1>16. HandlerIdle'
  <2>1. ASSUME NEW r \in Socket, handler'[r] # "left"
        PROVE  teardown[r]["handler"] = "none"
    BY <1>14, <2>1 DEF IInv, HandlerIdle
  <2> QED BY <1>10, <2>1, TaskNames DEF HandlerIdle
<1>17. WritersListed'
  BY <1>1 DEF IInv, WritersListed, Running
<1> QED BY <1>7, <1>8, <1>9, <1>12, <1>13, <1>15, <1>16, <1>17 DEF IInv

----------------------------------------------------------------------------
(* A process that ends takes all that was its own with it.                 *)

LEMMA EndsKeeps ==
  ASSUME Sizes, IInv, NEW v \in Server, Ends(v), online' \subseteq User
  PROVE  IInv'
<1>1. /\ conns' = conns \ Here(v) /\ wsState' = wsState \ Here(v)
      /\ waiting' = [waiting EXCEPT ![v] = <<>>]
      /\ subscribed' = {ch \in subscribed : ch[1] # v}
      /\ torn' = {ch \in torn : ch[1] # v}
      /\ beat' = [beat EXCEPT ![v] = {}] /\ alive' = [alive EXCEPT ![v] = Loop]
      /\ socketFaults > 0 /\ socketFaults' = socketFaults - 1
  BY DEF Ends, SocketFault
<1>2. /\ queue' = [s \in Socket |-> IF s \in Here(v) THEN 0 ELSE queue[s]]
      /\ writer' = [s \in Socket |-> IF s \in Here(v) THEN "none" ELSE writer[s]]
      /\ handler' = [s \in Socket |-> IF s \in Here(v) /\ handler[s] # "new"
                                      THEN "left" ELSE handler[s]]
      /\ teardown' = [s \in Socket |-> IF s \in Here(v) THEN [k \in Task |-> "none"]
                                       ELSE teardown[s]]
  BY DEF Ends
<1>3. /\ waiting'[v] = <<>> /\ \A w \in Server : w # v => waiting'[w] = waiting[w]
      /\ waiting' \in [Server -> Seq(Command)]
  BY <1>1 DEF IInv, SocketTypes
<1>4. SocketTypes'
  <2>1. queue' \in [Socket -> 0..QueueMax] /\ writer' \in [Socket -> WriterStage]
        /\ handler' \in [Socket -> HandlerStage]
    BY <1>2 DEF IInv, SocketTypes, Sizes, WriterStage, HandlerStage
  <2>2. teardown' \in [Socket -> [Task -> TeardownStage]]
    <3>1. [k \in Task |-> "none"] \in [Task -> TeardownStage]
      BY DEF TeardownStage
    <3> QED BY <1>2, <3>1 DEF IInv, SocketTypes
  <2>3. socketFaults' \in 0..SocketFaultBound
    BY <1>1 DEF IInv, SocketTypes, Sizes
  <2>4. alive' \in [Server -> SUBSET Loop] /\ beat' \in [Server -> SUBSET User]
    BY <1>1 DEF IInv, SocketTypes
  <2> QED BY <1>1, <1>3, <2>1, <2>2, <2>3, <2>4 DEF IInv, SocketTypes
<1>5. \A s \in Socket : s \in Here(v) <=> ServerOf[s] = v
  BY DEF Here
<1>6. ChannelsFollow'
  <2> SUFFICES ASSUME NEW w \in Server, NEW u \in User
               PROVE  /\ Pending(w, u)' = {} =>
                           <<w, u>> \in torn'
                             \/ (<<w, u>> \in subscribed' <=> Connected(w, u)')
                      /\ \A i \in Pending(w, u)' :
                           (\A j \in Pending(w, u)' : j <= i) =>
                             waiting'[w][i].op = (IF Connected(w, u)' THEN "subscribe"
                                                  ELSE "unsubscribe")
    BY DEF ChannelsFollow
  <2>1. CASE w = v
    <3>1. Pending(w, u)' = {}
      BY <1>3, <2>1 DEF Pending
    <3>2. <<w, u>> \notin subscribed'
      BY <1>1, <2>1
    <3>3. ~Connected(w, u)'
      <4>1. conns \subseteq Socket
        BY DEF IInv, SocketTypes
      <4> QED BY <1>1, <1>5, <2>1, <4>1 DEF Connected, ConnsOf, ChannelKey
    <3> QED BY <3>1, <3>2, <3>3
  <2>2. CASE w # v
    <3>1. waiting'[w] = waiting[w]
      BY <1>3, <2>2
    <3>2. Pending(w, u)' = Pending(w, u)
      BY <3>1 DEF Pending, ChannelKey
    <3>3. Connected(w, u)' = Connected(w, u)
      BY <1>1, <1>5, <2>2 DEF Connected, ConnsOf, ChannelKey, IInv, SocketTypes
    <3>4. (<<w, u>> \in torn' <=> <<w, u>> \in torn)
          /\ (<<w, u>> \in subscribed' <=> <<w, u>> \in subscribed)
      BY <1>1, <2>2
    <3> QED BY <3>1, <3>2, <3>3, <3>4 DEF IInv, ChannelsFollow
  <2> QED BY <2>1, <2>2
<1>7. WaitsApart'
  <2> SUFFICES ASSUME NEW w \in Server, NEW i \in DOMAIN waiting'[w],
                      NEW j \in DOMAIN waiting'[w],
                      waiting'[w][i].op = waiting'[w][j].op,
                      waiting'[w][i].sock = waiting'[w][j].sock
               PROVE  i = j
    BY DEF WaitsApart
  <2>1. w # v
    BY <1>3
  <2> QED BY <1>3, <2>1 DEF IInv, WaitsApart
<1>8. ASSUME NEW w \in Server, NEW i \in DOMAIN waiting'[w]
      PROVE  EntrySound(w, waiting[w][i])'
  <2>1. w # v
    BY <1>3, <1>8
  <2>2. waiting'[w] = waiting[w] /\ i \in DOMAIN waiting[w]
    BY <1>3, <1>8, <2>1
  <2>3. EntrySound(w, waiting[w][i]) /\ waiting[w][i].sock \in Socket
    BY <2>2, EntryType DEF IInv, WaitsSound
  <2>4. waiting[w][i].sock \notin Here(v)
    BY <1>5, <2>1, <2>3 DEF EntrySound
  <2>5. /\ handler'[waiting[w][i].sock] = handler[waiting[w][i].sock]
        /\ teardown'[waiting[w][i].sock] = teardown[waiting[w][i].sock]
    BY <1>2, <2>3, <2>4
  <2> QED BY <2>2, <2>3, <2>5 DEF EntrySound
<1>9. \A s \in Socket : s \in Here(v) => Owners(s)' = {}
  BY <1>2 DEF Owners
<1>10. \A s \in Socket : s \notin Here(v) => Owners(s)' = Owners(s)
  BY <1>2 DEF Owners
<1>11. TornDownOnce'
  BY <1>1, <1>9, <1>10 DEF IInv, TornDownOnce
<1>12. Accounted'
  <2>1. conns \subseteq Socket
    BY DEF IInv, SocketTypes
  <2> QED BY <1>1, <1>2, <2>1 DEF IInv, Accounted
<1>13. Fresh'
  BY <1>1, <1>2, <1>9, <1>10 DEF IInv, Fresh
<1>14. HandlerIdle'
  BY <1>2, TaskNames DEF IInv, HandlerIdle
<1>15. WritersListed'
  BY <1>1, <1>2 DEF IInv, WritersListed, Running
<1> QED BY <1>4, <1>6, <1>7, <1>8, <1>11, <1>12, <1>13, <1>14, <1>15 DEF IInv, WaitsSound

----------------------------------------------------------------------------
(* The invariant of the specification.                                     *)

LEMMA Begins == ASSUME Sizes, SocketInit PROVE IInv
<1>1. SocketTypes
  <2>1. PICK come \in SUBSET Socket :
          handler = [s \in Socket |-> IF s \in come THEN "new" ELSE "left"]
    BY DEF SocketInit
  <2>2. handler \in [Socket -> HandlerStage]
    BY <2>1 DEF HandlerStage
  <2>3. teardown \in [Socket -> [Task -> TeardownStage]]
    BY DEF SocketInit, TeardownStage
  <2>4. waiting \in [Server -> Seq(Command)]
    BY DEF SocketInit
  <2>5. alive \in [Server -> SUBSET Loop] /\ beat \in [Server -> SUBSET User]
    BY DEF SocketInit
  <2> QED BY <2>2, <2>3, <2>4, <2>5 DEF SocketInit, SocketTypes, Sizes, WriterStage
<1>2. ChannelsFollow
  BY DEF SocketInit, ChannelsFollow, Pending, Connected, ConnsOf
<1>3. \A s \in Socket : Owners(s) = {}
  BY DEF SocketInit, Owners
<1>4. WaitsSound /\ WaitsApart
  BY DEF SocketInit, WaitsSound, WaitsApart
<1>5. Accounted /\ HandlerIdle /\ WritersListed
  BY TaskNames DEF SocketInit, Accounted, HandlerIdle, WritersListed, Running
<1>6. TornDownOnce /\ Fresh
  BY <1>3 DEF SocketInit, TornDownOnce, Fresh
<1> QED BY <1>1, <1>2, <1>4, <1>5, <1>6 DEF IInv

LEMMA StutterKeeps == ASSUME IInv, UNCHANGED socketVars PROVE IInv'
<1>1. UNCHANGED <<conns, wsState, queue, writer, handler, teardown, waiting, subscribed,
                  torn, online, beat, alive, socketFaults>>
  BY DEF socketVars
<1>2. SocketTypes'
  BY <1>1 DEF IInv, SocketTypes
<1> QED BY <1>1, <1>2, TeardownsSame, HandlersSame, WritersSame, QuietKeeps

LEMMA NextKeeps == ASSUME Sizes, IInv, SocketNext PROVE IInv'
<1>1. CASE \E s \in Socket : \/ Connect(s) \/ Accept(s) \/ AcceptFails(s) \/ SetOnline(s)
                             \/ Leave(s) \/ SendFails(s) \/ Take(s) \/ Sent(s)
  BY <1>1, ConnectKeeps, AcceptKeeps, SetOnlineKeeps, LeaveKeeps, SendFailsKeeps, WriterKeeps
<1>2. CASE \E s \in Socket, k \in Task : Step(s, k)
  BY <1>2, EvictKeeps, WriterStoppedKeeps, SetOfflineKeeps DEF Step
<1>3. CASE \E v \in Server : ServerCrash(v) \/ ServerShutdown(v)
  BY <1>3, EndsKeeps DEF ServerCrash, ServerShutdown, IInv, SocketTypes
<1>4. CASE \E v \in Server : Pubsub(v)
  BY <1>4, PubsubKeeps
<1>5. CASE \E v \in Server, u \in User : Deliver(v, u)
  BY <1>5, DeliverKeeps
<1>6. CASE \/ \E v \in Server : BeatList(v)
           \/ \E v \in Server, u \in User : Beat(v, u)
           \/ \E v \in Server, loop \in Loop : Dies(v, loop)
           \/ \E u \in User : PresenceLapses(u)
  BY <1>6, PresenceKeeps
<1> QED BY <1>1, <1>2, <1>3, <1>4, <1>5, <1>6 DEF SocketNext

LEMMA Invariance == ASSUME Sizes PROVE SocketSpec => []IInv
<1>1. SocketInit => IInv
  BY Begins
<1>2. IInv /\ [SocketNext]_socketVars => IInv'
  BY NextKeeps, StutterKeeps
<1> QED BY <1>1, <1>2, PTL DEF SocketSpec

\* Types of the specification of the sockets.
THEOREM TypeCorrect == ASSUME Sizes PROVE SocketSpec => []SocketTypes
<1>1. IInv => SocketTypes
  BY DEF IInv
<1> QED BY <1>1, Invariance, PTL

\* The order of the lock is the order in which sockets came and went: what is done
\* or asked last about a channel is what the connections say.
THEOREM ChannelsAsConnected == ASSUME Sizes PROVE SocketSpec => []ChannelsFollow
<1>1. IInv => ChannelsFollow
  BY DEF IInv
<1> QED BY <1>1, Invariance, PTL

\* Handler, writer and evictions of a socket may call _teardown_connection in any
\* order: one of them does the work.
THEOREM OneTeardown == ASSUME Sizes PROVE SocketSpec => []TornDownOnce
<1>1. IInv => TornDownOnce
  BY DEF IInv
<1> QED BY <1>1, Invariance, PTL

\* No connection is left that nobody delivers to and nobody tears down.
THEOREM ConnectionsAccounted == ASSUME Sizes PROVE SocketSpec => []Accounted
<1>1. IInv => Accounted
  BY DEF IInv
<1> QED BY <1>1, Invariance, PTL
=============================================================================
