----------------------------- MODULE WsManager -----------------------------
(***************************************************************************)
(* The WebSocket connections of the API processes: connect and teardown of *)
(* sockets, the subscription of a user's channel while the user has a      *)
(* socket on the server, the bounded queue and the writer of every socket, *)
(* the eviction of slow consumers, and the presence of the users in Redis. *)
(*                                                                         *)
(* Code between two awaits is one action. The tasks of a socket are its    *)
(* handler, its writer and the detached tasks that evict it; each may call *)
(* _teardown_connection. A socket is used once: a client that comes back   *)
(* has another one.                                                        *)
(***************************************************************************)
EXTENDS Naturals, Sequences, FiniteSets

CONSTANTS
  User, Server, Socket,
  UserOf, ServerOf, \* [Socket -> User], [Socket -> Server]
  Cap,              \* _MAX_WS_PER_USER
  QueueMax,         \* _SEND_QUEUE_MAXSIZE
  Eviction,         \* bound on the pending evictions of a socket: their names
  ClientBound,      \* bound on the sockets that come at all
  SocketFaultBound  \* bound on failing calls and dying processes

VARIABLES
  conns,      \* _connections of all servers: a set of sockets
  wsState,    \* the sockets with an entry in _ws_state
  queue,      \* [Socket -> 0..QueueMax]: the messages in its queue
  writer,     \* [Socket -> WriterStage]
  handler,    \* [Socket -> HandlerStage]: where its endpoint is
  teardown,   \* [Socket -> [Task -> TeardownStage]]
  waiting,    \* [Server -> Seq(Command)]: the queue of _pubsub_lock, holder first
  subscribed, \* <<server, user>>: the channels subscribed
  torn,       \* <<server, user>>: channels whose last command failed
  online,     \* the users whose presence key says online
  beat,       \* [Server -> SUBSET User]: whom the heartbeat has yet to write
  alive,      \* [Server -> SUBSET Loop]: the background tasks that still run
  socketFaults \* faults that may still come

socketVars == <<conns, wsState, queue, writer, handler, teardown, waiting, subscribed,
                torn, online, beat, alive, socketFaults>>

Task == {"handler", "writer"} \cup Eviction
Loop == {"listener", "heartbeat"}

WriterStage  == {"none", "idle", "sending", "cancelled"}
HandlerStage == {"new", "accepting", "subscribing", "presence", "open", "left"}

\* none: not called, or at its end; scheduled: created, not started;
\* stop: awaits the writer; unsubscribe: waits for the lock or its command.
TeardownStage == {"none", "scheduled", "stop", "unsubscribe", "offline"}

Command == [op : {"subscribe", "unsubscribe"}, sock : Socket, task : Task]

SocketTypes ==
  /\ conns \subseteq Socket /\ wsState \subseteq Socket
  /\ queue \in [Socket -> 0..QueueMax]
  /\ writer \in [Socket -> WriterStage]
  /\ handler \in [Socket -> HandlerStage]
  /\ teardown \in [Socket -> [Task -> TeardownStage]]
  /\ waiting \in [Server -> Seq(Command)]
  /\ subscribed \subseteq Server \X User /\ torn \subseteq Server \X User
  /\ online \subseteq User
  /\ beat \in [Server -> SUBSET User]
  /\ alive \in [Server -> SUBSET Loop]
  /\ socketFaults \in 0..SocketFaultBound

SocketInit ==
  /\ conns = {} /\ wsState = {}
  /\ queue = [s \in Socket |-> 0]
  /\ writer = [s \in Socket |-> "none"]
  /\ \E come \in SUBSET Socket :
       /\ Cardinality(come) <= ClientBound
       /\ handler = [s \in Socket |-> IF s \in come THEN "new" ELSE "left"]
  /\ teardown = [s \in Socket |-> [k \in Task |-> "none"]]
  /\ waiting = [v \in Server |-> <<>>]
  /\ subscribed = {} /\ torn = {} /\ online = {}
  /\ beat = [v \in Server |-> {}]
  /\ alive = [v \in Server |-> Loop]
  /\ socketFaults \in 0..SocketFaultBound

SocketFault == socketFaults > 0 /\ socketFaults' = socketFaults - 1

Here(v) == {s \in Socket : ServerOf[s] = v}

\* A process without sockets has nothing to lose.
InUse(v) ==
  \E s \in Here(v) : \/ s \in conns \/ handler[s] \notin {"new", "left"}
                     \/ \E k \in Task : teardown[s][k] # "none"

ChannelKey(s)  == <<ServerOf[s], UserOf[s]>>
ConnsOf(v, u)  == {s \in conns : ChannelKey(s) = <<v, u>>}
UsersOn(v)     == {UserOf[s] : s \in {c \in conns : ServerOf[c] = v}}
Running(s)     == writer[s] \in {"idle", "sending"}

\* Mutant: a lock that lets in who came last.
LastComeFirst(q, c) == <<c>> \o q

Queued(q, c) == Append(q, c)

AtLock(s, op, k) ==
  waiting' = [waiting EXCEPT ![ServerOf[s]] =
                Queued(@, [op |-> op, sock |-> s, task |-> k])]

HandlerAt(s, stage)     == handler' = [handler EXCEPT ![s] = stage]
TeardownAt(s, k, stage) == teardown' = [teardown EXCEPT ![s][k] = stage]

----------------------------------------------------------------------------
(* websocket_endpoint and connect.                                         *)

\* The cap is looked at before the await of accept; above it the socket is
\* closed.
Connect(s) ==
  /\ handler[s] = "new"
  /\ IF Cardinality(ConnsOf(ServerOf[s], UserOf[s])) >= Cap
     THEN HandlerAt(s, "left") ELSE HandlerAt(s, "accepting")
  /\ UNCHANGED <<conns, wsState, queue, writer, teardown, waiting, subscribed,
                 torn, online, beat, alive, socketFaults>>

IsFirst(s) == ConnsOf(ServerOf[s], UserOf[s]) = {}

Accept(s) ==
  /\ handler[s] = "accepting"
  /\ conns' = conns \cup {s} /\ wsState' = wsState \cup {s}
  /\ IF IsFirst(s)
     THEN AtLock(s, "subscribe", "handler") /\ HandlerAt(s, "subscribing")
     ELSE HandlerAt(s, "presence") /\ UNCHANGED waiting
  /\ UNCHANGED <<queue, writer, teardown, subscribed, torn, online, beat, alive, socketFaults>>

AcceptFails(s) ==
  /\ handler[s] = "accepting"
  /\ HandlerAt(s, "left")
  /\ UNCHANGED <<conns, wsState, queue, writer, teardown, waiting, subscribed,
                 torn, online, beat, alive, socketFaults>>

\* An error leaves the endpoint before its try: nobody calls disconnect.
SetOnline(s) ==
  /\ handler[s] = "presence"
  /\ \/ /\ online' = online \cup {UserOf[s]}
        /\ HandlerAt(s, "open") /\ UNCHANGED socketFaults
     \/ HandlerAt(s, "left") /\ SocketFault /\ UNCHANGED online
  /\ UNCHANGED <<conns, wsState, queue, writer, teardown, waiting, subscribed,
                 torn, beat, alive>>

----------------------------------------------------------------------------
(* _pubsub_lock: the commands of connect and teardown, first come, first   *)
(* served. The error of an unsubscribe is swallowed; that of a subscribe   *)
(* leaves connect and, as above, the endpoint.                             *)

Pubsub(v) ==
  LET c  == Head(waiting[v])
      ch == ChannelKey(c.sock)
  IN /\ waiting[v] # <<>>
     /\ waiting' = [waiting EXCEPT ![v] = Tail(@)]
     /\ \/ /\ torn' = torn \ {ch} /\ UNCHANGED socketFaults
           /\ IF c.op = "subscribe"
              THEN /\ subscribed' = subscribed \cup {ch}
                   /\ HandlerAt(c.sock, "presence") /\ UNCHANGED teardown
              ELSE /\ subscribed' = subscribed \ {ch}
                   /\ TeardownAt(c.sock, c.task, "offline") /\ UNCHANGED handler
        \/ /\ torn' = torn \cup {ch} /\ SocketFault /\ UNCHANGED subscribed
           /\ IF c.op = "subscribe"
              THEN HandlerAt(c.sock, "left") /\ UNCHANGED teardown
              ELSE TeardownAt(c.sock, c.task, "offline") /\ UNCHANGED handler
     /\ UNCHANGED <<conns, wsState, queue, writer, online, beat, alive>>

----------------------------------------------------------------------------
(* _teardown_connection. Who finds the socket in _ws_state takes it out and*)
(* does the rest; a writer that runs is cancelled and awaited, unless it is*)
(* the writer that tears down.                                             *)

\* The socket leaves _connections; the last one of its user unsubscribes.
Drop(s, k) ==
  /\ conns' = conns \ {s}
  /\ IF ConnsOf(ServerOf[s], UserOf[s]) \ {s} = {}
     THEN AtLock(s, "unsubscribe", k) /\ TeardownAt(s, k, "unsubscribe")
     ELSE TeardownAt(s, k, "none") /\ UNCHANGED waiting

WriterAt(s, stage) == writer' = [writer EXCEPT ![s] = stage]

Begin(s, k) ==
  IF s \notin wsState
  THEN /\ TeardownAt(s, k, "none")
       /\ IF k = "writer" THEN WriterAt(s, "none") ELSE UNCHANGED writer
       /\ UNCHANGED <<conns, wsState, queue, waiting>>
  ELSE /\ wsState' = wsState \ {s}
       /\ queue' = [queue EXCEPT ![s] = 0]
       /\ IF Running(s) /\ k # "writer"
          THEN /\ WriterAt(s, "cancelled") /\ TeardownAt(s, k, "stop")
               /\ UNCHANGED <<conns, waiting>>
          ELSE WriterAt(s, "none") /\ Drop(s, k)

\* The finally of the endpoint: the client went away, or was closed.
Leave(s) ==
  /\ handler[s] = "open"
  /\ HandlerAt(s, "left")
  /\ Begin(s, "handler")
  /\ UNCHANGED <<subscribed, torn, online, beat, alive, socketFaults>>

\* The writer's own send raised.
SendFails(s) ==
  /\ writer[s] = "sending"
  /\ Begin(s, "writer")
  /\ UNCHANGED <<handler, subscribed, torn, online, beat, alive, socketFaults>>

Evict(s, k) ==
  /\ teardown[s][k] = "scheduled"
  /\ Begin(s, k)
  /\ UNCHANGED <<handler, subscribed, torn, online, beat, alive, socketFaults>>

WriterStopped(s, k) ==
  /\ teardown[s][k] = "stop"
  /\ WriterAt(s, "none")
  /\ Drop(s, k)
  /\ UNCHANGED <<wsState, queue, handler, subscribed, torn, online, beat, alive, socketFaults>>

\* An error of Redis ends the task. What an eviction still does, the close of its
\* socket, changes no state here: the endpoint may leave at any moment.
SetOffline(s, k) ==
  /\ teardown[s][k] = "offline"
  /\ \/ online' = online \ {UserOf[s]} /\ UNCHANGED socketFaults
     \/ SocketFault /\ UNCHANGED online
  /\ TeardownAt(s, k, "none")
  /\ UNCHANGED <<conns, wsState, queue, writer, handler, waiting, subscribed,
                 torn, beat, alive>>

----------------------------------------------------------------------------
(* _listen_redis, _deliver_local and _writer_loop.                         *)

Idle(s) == {k \in Eviction : teardown[s][k] = "none"}

\* A message of the user's channel: to the queue of every socket that has one,
\* or the socket's eviction. (An eviction without a name is not modelled.)
Deliver(v, u) ==
  LET mine == ConnsOf(v, u) \cap wsState
      full == {s \in mine : queue[s] = QueueMax}
  IN /\ <<v, u>> \in subscribed /\ "listener" \in alive[v]
     /\ mine # {} /\ \A s \in full : Idle(s) # {}
     /\ writer' = [s \in Socket |-> IF s \in mine /\ writer[s] = "none"
                                    THEN "idle" ELSE writer[s]]
     /\ queue' = [s \in Socket |-> IF s \in mine \ full THEN queue[s] + 1 ELSE queue[s]]
     /\ teardown' = [s \in Socket |->
          IF s \in full
          THEN [teardown[s] EXCEPT ![CHOOSE k \in Idle(s) : TRUE] = "scheduled"]
          ELSE teardown[s]]
     /\ UNCHANGED <<conns, wsState, handler, waiting, subscribed, torn, online,
                    beat, alive, socketFaults>>

Take(s) ==
  /\ writer[s] = "idle" /\ queue[s] > 0
  /\ WriterAt(s, "sending")
  /\ queue' = [queue EXCEPT ![s] = @ - 1]
  /\ UNCHANGED <<conns, wsState, handler, teardown, waiting, subscribed, torn,
                 online, beat, alive, socketFaults>>

\* The send to a socket whose endpoint has ended can only fail.
Sent(s) ==
  /\ writer[s] = "sending" /\ handler[s] # "left"
  /\ WriterAt(s, "idle")
  /\ UNCHANGED <<conns, wsState, queue, handler, teardown, waiting, subscribed,
                 torn, online, beat, alive, socketFaults>>

----------------------------------------------------------------------------
(* _presence_heartbeat, and the life of the keys it renews.                *)

BeatList(v) ==
  /\ "heartbeat" \in alive[v] /\ beat[v] = {} /\ UsersOn(v) # {}
  /\ beat' = [beat EXCEPT ![v] = UsersOn(v)]
  /\ UNCHANGED <<conns, wsState, queue, writer, handler, teardown, waiting,
                 subscribed, torn, online, alive, socketFaults>>

Beat(v, u) ==
  /\ "heartbeat" \in alive[v] /\ u \in beat[v]
  /\ online' = online \cup {u}
  /\ beat' = [beat EXCEPT ![v] = @ \ {u}]
  /\ UNCHANGED <<conns, wsState, queue, writer, handler, teardown, waiting,
                 subscribed, torn, alive, socketFaults>>

\* An error of Redis ends the heartbeat, and the listener, until a restart.
Dies(v, loop) ==
  /\ loop \in alive[v] /\ InUse(v) /\ SocketFault
  /\ alive' = [alive EXCEPT ![v] = @ \ {loop}]
  /\ UNCHANGED <<conns, wsState, queue, writer, handler, teardown, waiting,
                 subscribed, torn, online, beat>>

\* Whose key a heartbeat renews twice in its lifetime.
Renewed(u) == \E v \in Server : u \in UsersOn(v) /\ "heartbeat" \in alive[v]

\* Mutant: the key is set without ex.
LastsForEver(u) == FALSE

Lapses(u) == u \in online /\ ~ Renewed(u)

PresenceLapses(u) ==
  /\ Lapses(u)
  /\ online' = online \ {u}
  /\ UNCHANGED <<conns, wsState, queue, writer, handler, teardown, waiting,
                 subscribed, torn, beat, alive, socketFaults>>

----------------------------------------------------------------------------
(* A process ends and starts again, with nothing in memory: shutdown deletes*)
(* the presence keys of its users, a crash does not.                       *)

Ends(v) ==
  /\ InUse(v) /\ SocketFault
  /\ conns' = conns \ Here(v) /\ wsState' = wsState \ Here(v)
  /\ queue' = [s \in Socket |-> IF s \in Here(v) THEN 0 ELSE queue[s]]
  /\ writer' = [s \in Socket |-> IF s \in Here(v) THEN "none" ELSE writer[s]]
  /\ handler' = [s \in Socket |-> IF s \in Here(v) /\ handler[s] # "new"
                                  THEN "left" ELSE handler[s]]
  /\ teardown' = [s \in Socket |-> IF s \in Here(v) THEN [k \in Task |-> "none"]
                                   ELSE teardown[s]]
  /\ waiting' = [waiting EXCEPT ![v] = <<>>]
  /\ subscribed' = {ch \in subscribed : ch[1] # v}
  /\ torn' = {ch \in torn : ch[1] # v}
  /\ beat' = [beat EXCEPT ![v] = {}]
  /\ alive' = [alive EXCEPT ![v] = Loop]

ServerCrash(v) == Ends(v) /\ UNCHANGED online

ServerShutdown(v) ==
  /\ Ends(v)
  /\ online' = online \ UsersOn(v)

Step(s, k) == Evict(s, k) \/ WriterStopped(s, k) \/ SetOffline(s, k)

SocketNext ==
  \/ \E s \in Socket : \/ Connect(s) \/ Accept(s) \/ AcceptFails(s) \/ SetOnline(s)
                       \/ Leave(s) \/ SendFails(s) \/ Take(s) \/ Sent(s)
  \/ \E s \in Socket, k \in Task : Step(s, k)
  \/ \E v \in Server : Pubsub(v) \/ BeatList(v) \/ ServerCrash(v) \/ ServerShutdown(v)
  \/ \E v \in Server, u \in User : Deliver(v, u) \/ Beat(v, u)
  \/ \E v \in Server, loop \in Loop : Dies(v, loop)
  \/ \E u \in User : PresenceLapses(u)

SocketSpec == SocketInit /\ [][SocketNext]_socketVars

\* Redis answers, tasks of the event loop get their turn. Nothing is asked of
\* the clients: they may neither read nor leave, and ws.close may hang.
SocketFairness ==
  /\ \A s \in Socket : WF_socketVars(SetOnline(s))
  /\ \A s \in Socket, k \in Task : WF_socketVars(Step(s, k))
  /\ \A v \in Server : /\ WF_socketVars(Pubsub(v))
                       /\ WF_socketVars(BeatList(v) \/ \E u \in User : Beat(v, u))
  /\ \A u \in User : WF_socketVars(PresenceLapses(u))

FairSocketSpec == SocketSpec /\ SocketFairness

----------------------------------------------------------------------------
(* Properties.                                                             *)

Connected(v, u) == ConnsOf(v, u) # {}

\* The places of the commands that wait for the user's channel.
Pending(v, u) == {i \in DOMAIN waiting[v] : ChannelKey(waiting[v][i].sock) = <<v, u>>}

\* However connects and teardowns of a user's sockets interleave, the channel ends
\* as the connections say: subscribed while there is one, and no longer. A command
\* that failed (torn) is the exception; no later socket repeats it.
ChannelsFollow ==
  \A v \in Server, u \in User :
    /\ Pending(v, u) = {} =>
         <<v, u>> \in torn \/ (<<v, u>> \in subscribed <=> Connected(v, u))
    /\ \A i \in Pending(v, u) :
         (\A j \in Pending(v, u) : j <= i) =>
           waiting[v][i].op = (IF Connected(v, u) THEN "subscribe" ELSE "unsubscribe")

\* The call that popped the entry of _ws_state owns the whole teardown: no other
\* one is under way, so that a socket is not closed twice.
Owners(s) == {k \in Task : teardown[s][k] \notin {"none", "scheduled"}}

TornDownOnce ==
  \A s \in Socket : /\ \A k, l \in Owners(s) : k = l
                    /\ Owners(s) # {} => s \notin wsState

\* Who is in _connections has a queue, or a teardown that will take it out.
Accounted == \A s \in conns : s \in wsState \/ \E k \in Task : teardown[s][k] = "stop"

Present(u) == \E s \in wsState : UserOf[s] = u /\ handler[s] # "left"

\* A socket whose endpoint ended inside connect, or that nobody's heartbeat sees.
Neglected(u) ==
  \E s \in wsState : /\ UserOf[s] = u
                     /\ handler[s] = "left" \/ "heartbeat" \notin alive[ServerOf[s]]

\* After the last of its sockets has come or gone a user is online exactly if there
\* is one, on whatever server: an offline of another server, a heartbeat that was
\* under way or a process that died do not last. Not so for sockets left behind by
\* connect, and on a server whose heartbeat has died.
PresenceSettles ==
  \A u \in User : <>[](Neglected(u) \/ (u \in online <=> Present(u)))
=============================================================================
