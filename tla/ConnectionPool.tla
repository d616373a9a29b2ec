--------------------------- MODULE ConnectionPool ---------------------------
(***************************************************************************)
(* HttpListener, HttpConnectionHandlerPool and HttpConnectionHandler.      *)
(*                                                                         *)
(* Two kinds of threads run here.  The listener thread owns the listener   *)
(* and the pool: accepting a connection, the clean-up timer and close()    *)
(* all run in its event loop.  Every HttpConnectionHandler is a thread     *)
(* with an event loop of its own, in which the slots of the handler run    *)
(* one after the other.  The threads meet in two places: the plain bool    *)
(* `busy', and the event queue through which the listener passes a socket  *)
(* descriptor.  A handler owns one socket object and uses it for one       *)
(* connection after the other.                                             *)
(***************************************************************************)
EXTENDS Naturals, FiniteSets, Sequences

CONSTANTS
  Conns,              \* connections that clients open (descriptors)
  Handlers,           \* identities of HttpConnectionHandler objects
  None,               \* the null pointer, "no connection"
  MaxThreads,         \* the setting maxThreads
  MinThreads,         \* the setting minThreads
  SslModes,           \* {FALSE}: no SSL settings.  {TRUE, FALSE}: settings whose
                      \* files may or may not be readable (loadSslConfig)
  DescriptorMayFail,  \* whether QTcpSocket::setSocketDescriptor can fail
  Messages,           \* what clients send, a subset of ClientMessages
  MaxSent             \* bound: messages that the clients send in all

(***************************************************************************)
(* What a client can send, as far as the handlers tell it apart: a         *)
(* complete HTTP request, the first part of one, a request over a size     *)
(* limit, a valid and an invalid WebSocket upgrade request, a WebSocket    *)
(* message, a WebSocket close frame.                                       *)
(***************************************************************************)
ClientMessages ==
  {"request", "part", "tooLarge", "upgrade", "badUpgrade", "wsMessage", "wsClose"}

ASSUME ConstantsAssumption ==
  /\ None \notin Conns \cup Handlers
  /\ IsFiniteSet(Handlers)
  /\ MaxThreads \in Nat
  /\ MinThreads \in Nat
  /\ SslModes \subseteq BOOLEAN /\ SslModes # {}
  /\ DescriptorMayFail \in BOOLEAN
  /\ Messages \subseteq ClientMessages
  /\ MaxSent \in Nat

VARIABLES
  server,   \* "listening", "deaf" (bind failed), "closing", "closed" (pool is NULL)
  ssl,      \* whether the pool has an sslConfiguration
  pool,     \* HttpConnectionHandlerPool::pool
  victim,   \* the handler whose destructor the listener thread waits in, or None
  handler,  \* the handler objects
  status,   \* history: what became of each connection
  alive,    \* connections whose client has not gone away
  stream,   \* bytes of each connection that no slot has consumed yet
  sent      \* number of messages that the clients have sent

vars == <<server, ssl, pool, victim, handler, status, alive, stream, sent>>
netVars == <<alive, stream, sent>>
-----------------------------------------------------------------------------
\* Mutant: the constructor leaves m_type out of its initializer list.
ConstructedWithoutType ==
  [busy |-> FALSE, queue |-> << >>, state |-> "unconnected", open |-> FALSE,
   conn |-> None, slots |-> {}, type |-> "garbage", timer |-> None,
   request |-> None, at |-> "eventLoop"]

(***************************************************************************)
(* A handler object.  `state', `open' and `conn' are those of its socket   *)
(* (QAbstractSocket::state, QIODevice::isOpen, the connection behind the   *)
(* descriptor).  `slots' are the slots of the handler that are connected   *)
(* to the signals of the socket.  `timer' and `request' carry, instead of  *)
(* a bare flag, the connection for which readTimer was started last and    *)
(* the connection whose bytes currentRequest holds.  `at' is where the     *)
(* thread is: in its event loop, in the loop of readHttp, or in            *)
(* requestHandler->service called from there.                              *)
(***************************************************************************)
HandlerState ==
  [busy : BOOLEAN, queue : Seq(Conns),
   state : {"unconnected", "connected", "closing"}, open : BOOLEAN,
   conn : Conns \cup {None},
   slots : SUBSET {"read", "readHttp", "disconnected", "encrypted"},
   type : {"UNDEFINED", "HTTP", "WEBSOCKET"},
   timer : Conns \cup {None}, request : Conns \cup {None},
   at : {"eventLoop", "readHttp", "service"}]

Constructed ==
  [busy |-> FALSE, queue |-> << >>, state |-> "unconnected", open |-> FALSE,
   conn |-> None, slots |-> {}, type |-> "UNDEFINED", timer |-> None,
   request |-> None, at |-> "eventLoop"]

TypeOK ==
  /\ server \in {"listening", "deaf", "closing", "closed"}
  /\ ssl \in BOOLEAN
  /\ pool \subseteq Handlers
  /\ victim \in Handlers \cup {None}
  /\ handler \in [Handlers -> HandlerState]
  /\ status \in [Conns -> {"new", "accepted", "rejected", "done", "lost"}]
  /\ alive \subseteq Conns
  /\ stream \in [Conns -> Seq(ClientMessages)]
  /\ sent \in Nat
-----------------------------------------------------------------------------
\* Mutant: the branch for WebSockets returns before the handler is freed.
DisconnectedButBusy(s) ==
  IF s.type = "WEBSOCKET" THEN [s EXCEPT !.timer = None, !.type = "UNDEFINED"]
  ELSE [s EXCEPT !.timer = None, !.type = "UNDEFINED", !.busy = FALSE,
                 !.open = FALSE, !.slots = {}]

(***************************************************************************)
(* The slot disconnected() of a handler in state s.                        *)
(***************************************************************************)
Disconnected(s) ==
  LET t == [s EXCEPT !.timer = None, !.type = "UNDEFINED", !.busy = FALSE]
  IN  IF s.type = "WEBSOCKET" THEN t ELSE [t EXCEPT !.open = FALSE, !.slots = {}]

(***************************************************************************)
(* The socket reaches UnconnectedState.  The slot disconnected() runs if   *)
(* it is connected to the socket, or to the QWebSocket around it, which    *)
(* emits its own disconnected signal once (processStateChanged).           *)
(***************************************************************************)
Unconnected(s) ==
  LET t == [s EXCEPT !.state = "unconnected", !.conn = None]
  IN  IF s.type = "WEBSOCKET" \/ "disconnected" \in s.slots THEN Disconnected(t) ELSE t

\* Mutant: the handler is freed as soon as it asks for the disconnect.
DisconnectFromHostAndFree(s, drained) ==
  IF s.state = "unconnected" THEN s
  ELSE IF drained THEN Unconnected(s)
  ELSE [s EXCEPT !.state = "closing", !.busy = FALSE]

(***************************************************************************)
(* QAbstractSocket::disconnectFromHost: at once if all output has been     *)
(* sent (`drained'), else the socket is in ClosingState until it has been. *)
(***************************************************************************)
DisconnectFromHost(s, drained) ==
  IF s.state = "unconnected" THEN s
  ELSE IF drained THEN Unconnected(s)
  ELSE [s EXCEPT !.state = "closing"]

(* QAbstractSocket::close, also what QWebSocket::close does to the socket. *)
CloseSocket(s, drained) == DisconnectFromHost([s EXCEPT !.open = FALSE], drained)

Running(h, where) == h \in pool /\ handler[h].at = where

(* The bytes that the socket of handler h has available. *)
Available(h) ==
  IF handler[h].conn = None THEN << >> ELSE stream[handler[h].conn]

(***************************************************************************)
(* Connections come to an end: nothing is left of them.                    *)
(***************************************************************************)
Gone(ended, how) ==
  /\ status' = [c \in Conns |-> IF c \in ended THEN how ELSE status[c]]
  /\ stream' = [c \in Conns |-> IF c \in ended THEN << >> ELSE stream[c]]
  /\ alive' = alive \ ended

(***************************************************************************)
(* Handler h moves to state t.  It lets go of its connection, or has       *)
(* `unread' left to read from it.                                          *)
(***************************************************************************)
Becomes(h, t, unread) ==
  /\ handler' = [handler EXCEPT ![h] = t]
  /\ IF t.conn = handler[h].conn
     THEN /\ stream' = [c \in Conns |-> IF c = t.conn THEN unread ELSE stream[c]]
          /\ UNCHANGED <<status, alive>>
     ELSE Gone({handler[h].conn}, "done")

Moves(h, t) == Becomes(h, t, Available(h))
Reads(h, t) == Becomes(h, t, Tail(Available(h)))

\* Mutant: isBusy() is not asked.
EveryHandler == pool

IdleHandlers == {h \in pool : ~ handler[h].busy}

\* Mutant: ++idleCounter becomes idleCounter++.
TooManyIdleHandlersPlusOne == Cardinality(IdleHandlers) > MinThreads + 1

TooManyIdleHandlers == Cardinality(IdleHandlers) > MinThreads

\* Mutant: the new handler is counted before it is compared.
PoolHasRoomMinusOne == Cardinality(pool) + 1 < MaxThreads

PoolHasRoom == Cardinality(pool) < MaxThreads
-----------------------------------------------------------------------------
(* The listener thread. *)

ListenerFree == victim = None /\ server # "closing"

(* The certificate and key files can be read, or SSL stays off. *)
LoadSslConfig == ssl' \in SslModes

(***************************************************************************)
(* HttpListener::listen: a new pool if there is none, then bind, which may *)
(* fail.                                                                   *)
(***************************************************************************)
Listen ==
  /\ ListenerFree /\ server # "listening"
  /\ server' \in {"listening", "deaf"}
  /\ IF server = "closed" THEN LoadSslConfig ELSE UNCHANGED ssl
  /\ UNCHANGED <<pool, victim, handler, status, netVars>>

(***************************************************************************)
(* incomingConnection with getConnectionHandler: a free handler, or a new  *)
(* one below maxThreads, is marked busy and gets the descriptor through    *)
(* its event queue; else the connection is answered with 503.              *)
(***************************************************************************)
Assign(h, c) ==
  /\ handler' = [handler EXCEPT ![h].busy = TRUE, ![h].queue = Append(@, c)]
  /\ status' = [status EXCEPT ![c] = "accepted"]

UseFreeHandler(h, c) ==
  /\ h \in IdleHandlers
  /\ Assign(h, c)
  /\ UNCHANGED pool

CreateHandler(h, c) ==
  /\ IdleHandlers = {}
  /\ PoolHasRoom
  /\ h \notin pool
  /\ pool' = pool \cup {h}
  /\ Assign(h, c)

Reject(c) ==
  /\ IdleHandlers = {}
  /\ ~ PoolHasRoom
  /\ status' = [status EXCEPT ![c] = "rejected"]
  /\ UNCHANGED <<pool, handler>>

IncomingConnection(c) ==
  /\ ListenerFree /\ server = "listening"
  /\ status[c] = "new"
  /\ \/ \E h \in Handlers : UseFreeHandler(h, c)
     \/ \E h \in Handlers : CreateHandler(h, c)
     \/ Reject(c)
  /\ UNCHANGED <<server, ssl, victim, netVars>>

(***************************************************************************)
(* The clean-up timer: the destructor of one surplus idle handler calls    *)
(* quit() and wait().                                                      *)
(***************************************************************************)
Cleanup ==
  /\ ListenerFree /\ server # "closed"
  /\ TooManyIdleHandlers
  /\ victim' \in IdleHandlers
  /\ UNCHANGED <<server, ssl, pool, handler, status, netVars>>

(***************************************************************************)
(* HttpListener::close: stop listening, then the destructor of the pool    *)
(* deletes one handler after the other, busy or not.                       *)
(***************************************************************************)
CloseListener ==
  /\ ListenerFree /\ server # "closed"
  /\ server' = "closing"
  /\ UNCHANGED <<ssl, pool, victim, handler, status, netVars>>

DeleteNextHandler ==
  /\ server = "closing" /\ victim = None
  /\ victim' \in pool
  /\ UNCHANGED <<server, ssl, pool, handler, status, netVars>>

PoolDestroyed ==
  /\ server = "closing" /\ victim = None /\ pool = {}
  /\ server' = "closed"
  /\ UNCHANGED <<ssl, pool, victim, handler, status, netVars>>

(***************************************************************************)
(* The thread of the handler being deleted leaves its event loop: run()    *)
(* closes and deletes the socket, events still queued are discarded, and   *)
(* wait() returns in the listener thread, which forgets the handler.       *)
(***************************************************************************)
ThreadExit(h) ==
  /\ victim = h /\ Running(h, "eventLoop")
  /\ IF handler[h].queue = << >> THEN Gone({handler[h].conn}, "done")
     ELSE Gone({Head(handler[h].queue)}, "lost")
  /\ handler' = [handler EXCEPT ![h] = Constructed]
  /\ pool' = pool \ {h}
  /\ victim' = None
  /\ UNCHANGED <<server, ssl, sent>>
-----------------------------------------------------------------------------
(* The slots of a handler thread. *)

\* Mutant: the previous request is not deleted.
AttachKeepingRequest(s, c) ==
  [s EXCEPT !.state = "connected", !.open = TRUE, !.conn = c, !.timer = c]

\* Mutant: readTimer is not started.
AttachWithoutTimer(s, c) ==
  [s EXCEPT !.state = "connected", !.open = TRUE, !.conn = c, !.request = None]

(* The rest of handleConnection, after the descriptor has been accepted. *)
Attach(s, c) ==
  [s EXCEPT !.state = "connected", !.open = TRUE, !.conn = c,
            !.timer = c, !.request = None]

(***************************************************************************)
(* handleConnection.  connectToHost and abort reset the socket, whatever   *)
(* state it was in.  With SSL only encrypted() is connected for now.       *)
(***************************************************************************)
HandleConnection(h) ==
  /\ Running(h, "eventLoop")
  /\ handler[h].queue # << >>
  /\ LET c == Head(handler[h].queue)
         s == [handler[h] EXCEPT !.busy = TRUE, !.queue = Tail(@), !.open = FALSE,
                 !.state = "unconnected", !.conn = None,
                 !.slots = @ \cup (IF ssl THEN {"encrypted"} ELSE {"read", "disconnected"})]
     IN \/ /\ handler' = [handler EXCEPT ![h] = Attach(s, c)]
           /\ UNCHANGED <<status, alive, stream>>
        \/ /\ DescriptorMayFail
           /\ handler' = [handler EXCEPT ![h] = s]
           /\ Gone({c}, "lost")
  /\ UNCHANGED <<server, ssl, pool, victim, sent>>

(* Encryption was started and is not complete; m_type may be a former one. *)
Encrypting(s) ==
  "encrypted" \in s.slots /\ "disconnected" \notin s.slots /\ s.type # "WEBSOCKET"

(* The TLS handshake is complete: encrypted() connects the other slots. *)
Encrypted(h) ==
  /\ Running(h, "eventLoop")
  /\ LET s == handler[h] IN
     /\ s.state = "connected" /\ Encrypting(s)
     /\ s.conn \in alive
     /\ Moves(h, [s EXCEPT !.slots = @ \cup {"read", "disconnected"}])
  /\ UNCHANGED <<server, ssl, pool, victim, sent>>

(* Nothing can be read before the TLS handshake is complete. *)
ReadyRead(h) ==
  /\ Running(h, "eventLoop")
  /\ handler[h].state = "connected" /\ ~ Encrypting(handler[h])
  /\ Available(h) # << >>

(***************************************************************************)
(* readyRead with a valid upgrade request while read() is connected: the   *)
(* socket is wrapped into a QWebSocket and read() and disconnected() are   *)
(* taken off it.                                                           *)
(***************************************************************************)
Upgrade(h) ==
  /\ ReadyRead(h)
  /\ "read" \in handler[h].slots /\ "readHttp" \notin handler[h].slots
  /\ Head(Available(h)) = "upgrade"
  /\ Reads(h, [handler[h] EXCEPT !.type = "WEBSOCKET", !.timer = handler[h].conn,
                                   !.slots = @ \ {"read", "disconnected"}])
  /\ UNCHANGED <<server, ssl, pool, victim, sent>>

(***************************************************************************)
(* readyRead with an upgrade request that upgradeFrom refuses: it closes   *)
(* the socket, possibly running disconnected() before read() goes on to    *)
(* set the type and to connect readHttp().                                 *)
(***************************************************************************)
RefuseUpgrade(h) ==
  /\ ReadyRead(h)
  /\ "read" \in handler[h].slots /\ "readHttp" \notin handler[h].slots
  /\ Head(Available(h)) = "badUpgrade"
  /\ \E drained \in BOOLEAN :
       LET s == CloseSocket(handler[h], drained)
       IN  Reads(h, [s EXCEPT !.type = "HTTP", !.slots = (@ \ {"read"}) \cup {"readHttp"}])
  /\ UNCHANGED <<server, ssl, pool, victim, sent>>

(* readyRead with anything else, or with readHttp() already connected. *)
StartReadHttp(h) ==
  /\ ReadyRead(h)
  /\ \/ /\ "readHttp" \in handler[h].slots
        /\ Moves(h, [handler[h] EXCEPT !.at = "readHttp"])
     \/ /\ "read" \in handler[h].slots /\ "readHttp" \notin handler[h].slots
        /\ Head(Available(h)) \notin {"upgrade", "badUpgrade"}
        /\ Moves(h, [handler[h] EXCEPT !.at = "readHttp", !.type = "HTTP",
                         !.slots = (@ \ {"read"}) \cup {"readHttp"}])
  /\ UNCHANGED <<server, ssl, pool, victim, sent>>

(***************************************************************************)
(* One turn of the loop in readHttp.  A complete request stops the timer   *)
(* and goes to the request handler; a request over a limit is answered     *)
(* with 413 and ends the loop; a part of a request is kept.                *)
(***************************************************************************)
ReadRequest(h) ==
  /\ Running(h, "readHttp")
  /\ Available(h) # << >>
  /\ LET s == handler[h]
         m == Head(Available(h))
     IN CASE m = "part" -> Reads(h, [s EXCEPT !.request = s.conn])
          [] m = "tooLarge" ->
               \E drained \in BOOLEAN :
                 Reads(h, [DisconnectFromHost(s, drained) EXCEPT
                               !.request = None, !.at = "eventLoop"])
          [] OTHER -> Reads(h, [s EXCEPT !.request = s.conn, !.timer = None,
                                           !.at = "service"])
  /\ UNCHANGED <<server, ssl, pool, victim, sent>>

LeaveReadHttp(h) ==
  /\ Running(h, "readHttp")
  /\ Available(h) = << >>
  /\ Moves(h, [handler[h] EXCEPT !.at = "eventLoop"])
  /\ UNCHANGED <<server, ssl, pool, victim, sent>>

(***************************************************************************)
(* The response is written from within service(); writeToSocket may wait   *)
(* for the socket, and there finds that the client is gone: the slot       *)
(* disconnected() runs inside service().                                   *)
(***************************************************************************)
DisconnectedInService(h) ==
  /\ Running(h, "service")
  /\ handler[h].conn # None /\ handler[h].conn \notin alive
  /\ Moves(h, Unconnected(handler[h]))
  /\ UNCHANGED <<server, ssl, pool, victim, sent>>

\* Mutant: the timer that ReadRequest stopped is not started again.
AwaitWithoutTimer(s) == [s EXCEPT !.request = None, !.at = "readHttp"]

(* The connection is kept and the timer runs for the next request. *)
AwaitNextRequest(s) ==
  [s EXCEPT !.timer = s.request, !.request = None, !.at = "readHttp"]

\* Mutant: writeToSocket waits for a socket that is gone.
ServiceReturnsIfConnected(h) == Running(h, "service") /\ handler[h].conn # None

ServiceReturns(h) == Running(h, "service")

(***************************************************************************)
(* service() returns or throws; the rest of the response is written and    *)
(* the connection is kept for the next request or closed.                  *)
(***************************************************************************)
FinishRequest(h) ==
  /\ ServiceReturns(h)
  /\ \/ Moves(h, AwaitNextRequest(handler[h]))
     \/ \E drained \in BOOLEAN :
          Moves(h, [DisconnectFromHost(handler[h], drained)
                      EXCEPT !.request = None, !.at = "readHttp"])
  /\ UNCHANGED <<server, ssl, pool, victim, sent>>

(***************************************************************************)
(* processData of the QWebSocket.  A message goes to the request handler,  *)
(* which may close the QWebSocket, and the timer is restarted afterwards;  *)
(* a close frame or an invalid frame closes the QWebSocket.                *)
(***************************************************************************)
WebSocketData(h) ==
  /\ ReadyRead(h)
  /\ handler[h].type = "WEBSOCKET"
  /\ LET s == handler[h] IN
     \/ /\ Head(Available(h)) = "wsMessage"
        /\ \/ Reads(h, [s EXCEPT !.timer = s.conn])
           \/ \E drained \in BOOLEAN :
                Reads(h, [CloseSocket(s, drained) EXCEPT !.timer = s.conn])
     \/ /\ Head(Available(h)) # "wsMessage"
        /\ \E drained \in BOOLEAN : Reads(h, CloseSocket(s, drained))
  /\ UNCHANGED <<server, ssl, pool, victim, sent>>

(* readTimeout: readTimer is single shot. *)
ReadTimeout(h) ==
  /\ Running(h, "eventLoop")
  /\ handler[h].timer # None
  /\ \E drained \in BOOLEAN :
       LET s == [handler[h] EXCEPT !.timer = None]
       IN  Moves(h, [(IF s.type = "WEBSOCKET" THEN CloseSocket(s, drained)
                                                 ELSE DisconnectFromHost(s, drained))
                         EXCEPT !.request = None])
  /\ UNCHANGED <<server, ssl, pool, victim, sent>>

(***************************************************************************)
(* The socket notices that the client has gone, or that the last output    *)
(* before a close has been sent.  The first does not close the QIODevice.  *)
(***************************************************************************)
SocketDisconnects(h) ==
  /\ Running(h, "eventLoop")
  /\ \/ handler[h].state = "closing"
     \/ handler[h].state = "connected" /\ handler[h].conn \notin alive
  /\ Moves(h, Unconnected(handler[h]))
  /\ UNCHANGED <<server, ssl, pool, victim, sent>>
-----------------------------------------------------------------------------
(* The clients. *)

IsWebSocket(c) == \E h \in Handlers : handler[h].conn = c /\ handler[h].type = "WEBSOCKET"

ClientSends(c, m) ==
  /\ status[c] = "accepted" /\ c \in alive
  /\ sent < MaxSent
  /\ m \in {"wsMessage", "wsClose"} => IsWebSocket(c)
  /\ stream' = [stream EXCEPT ![c] = Append(@, m)]
  /\ sent' = sent + 1
  /\ UNCHANGED <<server, ssl, pool, victim, handler, status, alive>>

ClientLeaves(c) ==
  /\ status[c] = "accepted" /\ c \in alive
  /\ alive' = alive \ {c}
  /\ UNCHANGED <<server, ssl, pool, victim, handler, status, stream, sent>>
-----------------------------------------------------------------------------
Init ==
  /\ server \in {"listening", "deaf"}
  /\ ssl \in SslModes
  /\ pool = {}
  /\ victim = None
  /\ handler = [h \in Handlers |-> Constructed]
  /\ status = [c \in Conns |-> "new"]
  /\ alive = Conns
  /\ stream = [c \in Conns |-> << >>]
  /\ sent = 0

ListenerStep ==
  \/ Listen
  \/ \E c \in Conns : IncomingConnection(c)
  \/ Cleanup
  \/ CloseListener
  \/ DeleteNextHandler
  \/ PoolDestroyed

HandlerStep(h) ==
  \/ HandleConnection(h) \/ Encrypted(h)
  \/ Upgrade(h) \/ RefuseUpgrade(h) \/ StartReadHttp(h)
  \/ ReadRequest(h) \/ LeaveReadHttp(h)
  \/ DisconnectedInService(h) \/ FinishRequest(h)
  \/ WebSocketData(h) \/ ReadTimeout(h) \/ SocketDisconnects(h)
  \/ ThreadExit(h)

ClientStep ==
  \E c \in Conns : ClientLeaves(c) \/ \E m \in Messages : ClientSends(c, m)

Next == ListenerStep \/ (\E h \in Handlers : HandlerStep(h)) \/ ClientStep

Spec == Init /\ [][Next]_vars

(***************************************************************************)
(* Fairness: the event loops run, timers go off, service() returns, TCP    *)
(* either delivers the last output of a connection or gives it up.         *)
(***************************************************************************)
Fairness ==
  /\ WF_vars(Cleanup)
  /\ WF_vars(DeleteNextHandler)
  /\ WF_vars(PoolDestroyed)
  /\ \A h \in Handlers :
       /\ WF_vars(HandleConnection(h))
       /\ WF_vars(Upgrade(h) \/ RefuseUpgrade(h) \/ StartReadHttp(h) \/ WebSocketData(h))
       /\ WF_vars(ReadRequest(h) \/ LeaveReadHttp(h))
       /\ WF_vars(FinishRequest(h))
       /\ WF_vars(ReadTimeout(h))
       /\ WF_vars(SocketDisconnects(h))
       /\ WF_vars(ThreadExit(h))

FairSpec == Spec /\ Fairness
-----------------------------------------------------------------------------
(***************************************************************************)
(* Safety.                                                                 *)
(***************************************************************************)

(* Handler h has connection c: in its event queue or on its socket. *)
Holds(h, c) ==
  handler[h].conn = c \/ \E i \in DOMAIN handler[h].queue : handler[h].queue[i] = c

(***************************************************************************)
(* A connection belongs to one handler and a handler to one connection:    *)
(* no handler is given a connection while it still has another, in its     *)
(* queue or on its socket.  It is the flag `busy', set by the listener and *)
(* cleared inside slots of the handler, that has to ensure this.           *)
(***************************************************************************)
OneConnectionPerHandler ==
  \A h \in Handlers, c \in Conns :
    Holds(h, c) => /\ handler[h].busy
                   /\ status[c] = "accepted"
                   /\ \A d \in Conns : Holds(h, d) => d = c
                   /\ \A g \in Handlers : Holds(g, c) => g = h

(***************************************************************************)
(* While a connection is up and the request handler is not at work, the    *)
(* read timer is running, and it was started for this connection: no       *)
(* order of requests, upgrades, disconnects and reuse leaves a connection  *)
(* that no timeout will end, or one that the timer of an earlier           *)
(* connection ends.                                                        *)
(***************************************************************************)
ReadTimerArmed ==
  \A h \in Handlers :
    handler[h].state = "connected" /\ handler[h].at # "service"
      => handler[h].timer = handler[h].conn

(***************************************************************************)
(* The bytes of a request that one client left incomplete are never joined *)
(* with those of the next client on the same handler.                      *)
(***************************************************************************)
NoForeignRequest ==
  \A h \in Handlers :
    handler[h].conn # None => handler[h].request \in {None, handler[h].conn}

(***************************************************************************)
(* The clean-up timer never deletes a handler that has a connection, even  *)
(* when the connection ends and another arrives around the deletion, and   *)
(* no event is ever posted to a handler that is not in the pool.           *)
(***************************************************************************)
CleanupSparesConnections ==
  \A h \in Handlers, c \in Conns :
    Holds(h, c) => h \in pool /\ (victim = h => server = "closing")

(***************************************************************************)
(* HttpConnectionHandler::isBusy, "Returns true, if this handler is in     *)
(* use": a busy handler has a connection.  It says what the pool relies    *)
(* on to find a free handler, and fails if a handler can never be freed.   *)
(***************************************************************************)
BusyMeansInUse ==
  \A h \in Handlers : handler[h].busy => \E c \in Conns : Holds(h, c)

(***************************************************************************)
(* The assertion in handleConnection: the socket is not open when the next *)
(* connection comes.                                                       *)
(***************************************************************************)
SocketClosedBeforeReuse ==
  [][\A h \in Handlers : HandleConnection(h) => ~ handler[h].open]_vars

(***************************************************************************)
(* HttpListener::close "waits until all pending requests are processed":   *)
(* a connection that was accepted is not thrown away unserved.             *)
(***************************************************************************)
CloseServesAccepted ==
  [][\A c \in Conns : status[c] = "accepted" => status'[c] # "lost"]_vars

-----------------------------------------------------------------------------
(***************************************************************************)
(* Refinement: the pool as an admission control for connections.           *)
(***************************************************************************)
phase == [c \in Conns |-> CASE status[c] = "accepted" -> "served"
                             [] status[c] \in {"done", "lost"} -> "gone"
                             [] OTHER -> status[c]]

Admission == INSTANCE AdmissionControl WITH Capacity <- MaxThreads

(***************************************************************************)
(* The pool is an admission control: never more than maxThreads            *)
(* connections are served, and a connection is only turned away while      *)
(* maxThreads others are.                                                  *)
(***************************************************************************)
ImplementsAdmission == Admission!Spec
-----------------------------------------------------------------------------
(***************************************************************************)
(* Liveness, under Fairness.                                               *)
(***************************************************************************)

(* A handler that was given a connection is free again some day. *)
HandlersAreFreed ==
  \A h \in Handlers : handler[h].busy ~> ~ handler[h].busy

(* close() returns, whatever the handlers are doing. *)
CloseReturns == server = "closing" ~> server = "closed"

(***************************************************************************)
(* "The cleanup timer reduces the number of idle threads": surplus idle    *)
(* handlers do not stay.                                                   *)
(***************************************************************************)
PoolShrinks ==
  Cardinality(IdleHandlers) > MinThreads ~> Cardinality(IdleHandlers) <= MinThreads
=============================================================================
