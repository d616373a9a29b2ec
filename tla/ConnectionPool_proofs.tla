----------------------- MODULE ConnectionPool_proofs -----------------------
(***************************************************************************)
(* Proofs about ConnectionPool, for every number of connections, handlers  *)
(* and messages, with and without SSL.                                     *)
(***************************************************************************)
EXTENDS ConnectionPool, SequenceTheorems, FiniteSetTheorems, TLAPS

(***************************************************************************)
(* The invariants of the specification are not inductive: they speak of    *)
(* connections and handlers, and the steps that preserve them rely on how  *)
(* the fields of one handler fit together.  IInv adds that.                *)
(***************************************************************************)

(* The connection that a handler in state s has, in its queue or its socket. *)
Connection(s) == IF s.queue = << >> THEN s.conn ELSE Head(s.queue)

SocketFits(s) ==
  /\ s.state = "unconnected" <=> s.conn = None
  /\ s.conn # None \/ s.queue # << >> => s.busy
  /\ s.queue # << >> => Len(s.queue) = 1 /\ s.conn = None

RequestFits(s) ==
  /\ s.conn # None => s.request \in {None, s.conn}
  /\ s.conn # None /\ s.at = "service" => s.request = s.conn

TimerFits(s) == s.state = "connected" /\ s.at # "service" => s.timer = s.conn

(***************************************************************************)
(* Without SSL, and with descriptors that can be used, a busy handler has  *)
(* a connection, because a slot waits for the end of every connection.     *)
(***************************************************************************)
PlainTcp == SslModes = {FALSE} /\ ~ DescriptorMayFail

PlainFits(s) ==
  PlainTcp =>
    /\ s.busy => s.conn # None \/ s.queue # << >>
    /\ s.conn # None => s.type = "WEBSOCKET" \/ "disconnected" \in s.slots
    /\ s.conn # None /\ "read" \in s.slots => "disconnected" \in s.slots

HandlerFits(s) == SocketFits(s) /\ RequestFits(s) /\ TimerFits(s) /\ PlainFits(s)

PoolFits ==
  /\ ssl \in SslModes
  /\ \A h \in Handlers : h \notin pool => handler[h] = Constructed
  /\ victim \in pool \cup {None}
  /\ victim # None /\ server # "closing" => ~ handler[victim].busy

OwnersFit ==
  /\ \A h \in Handlers, c \in Conns :
       Connection(handler[h]) = c =>
         /\ status[c] = "accepted"
         /\ \A g \in Handlers : Connection(handler[g]) = c => g = h
  /\ \A c \in Conns :
       status[c] = "accepted" => \E h \in Handlers : Connection(handler[h]) = c

IInv ==
  /\ TypeOK
  /\ \A h \in Handlers : HandlerFits(handler[h])
  /\ PoolFits
  /\ OwnersFit
-----------------------------------------------------------------------------
(***************************************************************************)
(* The operators on one handler.                                           *)
(***************************************************************************)

(***************************************************************************)
(* A handler goes from state s to state t without taking up a connection:  *)
(* its queue stays, it may let go of its connection, and may be freed.     *)
(***************************************************************************)
Keeps(s, t) ==
  /\ t \in HandlerState
  /\ HandlerFits(t)
  /\ t.queue = s.queue
  /\ t.conn \in {s.conn, None}
  /\ t.busy => s.busy

(***************************************************************************)
(* What every way of closing a socket brings about: the socket is not      *)
(* connected any more, and what is not about the socket stays.             *)
(***************************************************************************)
Closes(s, t) ==
  /\ t \in HandlerState
  /\ SocketFits(t) /\ PlainFits(t)
  /\ t.state # "connected"
  /\ t.queue = s.queue
  /\ t.conn \in {s.conn, None}
  /\ t.busy => s.busy
  /\ t.request = s.request
  /\ t.at = s.at
  /\ t.conn # None => t.type = s.type /\ t.slots = s.slots

(* The slot disconnected() frees the handler and leaves the connection alone. *)
LEMMA DisconnectedFrees ==
  ASSUME NEW s \in HandlerState
  PROVE  /\ Disconnected(s) \in HandlerState
         /\ Disconnected(s).state = s.state /\ Disconnected(s).conn = s.conn
         /\ Disconnected(s).queue = s.queue /\ Disconnected(s).busy = FALSE
         /\ Disconnected(s).request = s.request /\ Disconnected(s).at = s.at
<1> DEFINE t == [s EXCEPT !.timer = None, !.type = "UNDEFINED", !.busy = FALSE]
           u == [t EXCEPT !.open = FALSE, !.slots = {}]
<1>1. /\ t \in HandlerState
      /\ t.state = s.state /\ t.conn = s.conn /\ t.queue = s.queue
      /\ t.busy = FALSE /\ t.request = s.request /\ t.at = s.at
  BY DEF HandlerState
<1> HIDE DEF t
<1>2. /\ u \in HandlerState
      /\ u.state = s.state /\ u.conn = s.conn /\ u.queue = s.queue
      /\ u.busy = FALSE /\ u.request = s.request /\ u.at = s.at
  BY <1>1 DEF HandlerState
<1>3. Disconnected(s) = IF s.type = "WEBSOCKET" THEN t ELSE u
  BY DEF Disconnected, t
<1> QED BY <1>1, <1>2, <1>3

(* The socket of a handler with a connection reaches UnconnectedState. *)
LEMMA UnconnectedCloses ==
  ASSUME NEW s \in HandlerState, SocketFits(s), PlainFits(s), s.conn # None
  PROVE  Closes(s, Unconnected(s)) /\ Unconnected(s).conn = None
<1> DEFINE t == [s EXCEPT !.state = "unconnected", !.conn = None]
<1>1. /\ t \in HandlerState
      /\ t.state = "unconnected" /\ t.conn = None
      /\ t.queue = << >> /\ t.queue = s.queue
      /\ t.busy = s.busy /\ t.request = s.request /\ t.at = s.at
      /\ t.type = s.type /\ t.slots = s.slots
  BY DEF HandlerState, SocketFits
<1> HIDE DEF t
<1>2. /\ Disconnected(t) \in HandlerState
      /\ Disconnected(t).state = t.state /\ Disconnected(t).conn = t.conn
      /\ Disconnected(t).queue = t.queue /\ Disconnected(t).busy = FALSE
      /\ Disconnected(t).request = t.request /\ Disconnected(t).at = t.at
  BY <1>1, DisconnectedFrees
<1>3. CASE s.type = "WEBSOCKET" \/ "disconnected" \in s.slots
  <2>1. Unconnected(s) = Disconnected(t)
    BY <1>1, <1>3 DEF Unconnected, t
  <2>2. Closes(s, Disconnected(t)) /\ Disconnected(t).conn = None
    BY <1>1, <1>2 DEF Closes, SocketFits, PlainFits
  <2> QED BY <2>1, <2>2
<1>4. CASE ~ (s.type = "WEBSOCKET" \/ "disconnected" \in s.slots)
  <2>1. Unconnected(s) = t
    BY <1>1, <1>4 DEF Unconnected, t
  <2>2. ~ PlainTcp
    BY <1>4 DEF PlainFits
  <2>3. Closes(s, t) /\ t.conn = None
    BY <1>1, <2>2 DEF Closes, SocketFits, PlainFits
  <2> QED BY <2>1, <2>3
<1> QED BY <1>3, <1>4

LEMMA DisconnectFromHostCloses ==
  ASSUME NEW s \in HandlerState, SocketFits(s), PlainFits(s), NEW drained \in BOOLEAN
  PROVE  Closes(s, DisconnectFromHost(s, drained))
<1>1. CASE s.state = "unconnected"
  BY <1>1 DEF DisconnectFromHost, Closes
<1>2. CASE s.state # "unconnected" /\ drained
  <2>1. Closes(s, Unconnected(s))
    BY <1>2, UnconnectedCloses DEF SocketFits
  <2> QED BY <2>1, <1>2 DEF DisconnectFromHost
<1>3. CASE s.state # "unconnected" /\ ~ drained
  BY <1>3 DEF DisconnectFromHost, Closes, HandlerState, SocketFits, PlainFits
<1> QED BY <1>1, <1>2, <1>3

LEMMA CloseSocketCloses ==
  ASSUME NEW s \in HandlerState, SocketFits(s), PlainFits(s), NEW drained \in BOOLEAN
  PROVE  Closes(s, CloseSocket(s, drained))
<1> DEFINE t == [s EXCEPT !.open = FALSE]
<1>1. /\ t \in HandlerState /\ t.state = s.state /\ t.queue = s.queue
      /\ t.conn = s.conn /\ t.busy = s.busy /\ t.request = s.request /\ t.at = s.at
      /\ t.type = s.type /\ t.slots = s.slots
  BY DEF HandlerState
<1> HIDE DEF t
<1>2. Closes(t, DisconnectFromHost(t, drained))
  <2>1. SocketFits(t) /\ PlainFits(t)
    BY <1>1 DEF SocketFits, PlainFits
  <2> QED BY <1>1, <2>1, DisconnectFromHostCloses
<1>3. CloseSocket(s, drained) = DisconnectFromHost(t, drained)
  BY DEF CloseSocket, t
<1> QED BY <1>1, <1>2, <1>3 DEF Closes

-----------------------------------------------------------------------------
(***************************************************************************)
(* Steps of one handler.                                                   *)
(***************************************************************************)

(* The bytes that a handler can read are messages of its connection. *)
LEMMA AvailableType ==
  ASSUME TypeOK, NEW h \in Handlers
  PROVE  /\ Available(h) \in Seq(ClientMessages)
         /\ Available(h) # << >> => /\ Tail(Available(h)) \in Seq(ClientMessages)
                                    /\ handler[h].conn # None
<1>1. handler[h] \in HandlerState
  BY DEF TypeOK
<1>2. CASE handler[h].conn = None
  <2>1. Available(h) = << >>
    BY <1>2 DEF Available
  <2> QED BY <2>1
<1>3. CASE handler[h].conn # None
  <2>1. handler[h].conn \in Conns
    BY <1>1, <1>3 DEF HandlerState
  <2>2. stream[handler[h].conn] \in Seq(ClientMessages)
    BY <2>1 DEF TypeOK
  <2>3. Available(h) = stream[handler[h].conn]
    BY <1>3 DEF Available
  <2> HIDE DEF ClientMessages
  <2> QED BY <1>3, <2>2, <2>3
<1> QED BY <1>2, <1>3

(* Connections come to an end: the types of what is known about them. *)
LEMMA GoneType ==
  ASSUME TypeOK, NEW ended,
         NEW how \in {"new", "accepted", "rejected", "done", "lost"}, Gone(ended, how)
  PROVE  /\ status' \in [Conns -> {"new", "accepted", "rejected", "done", "lost"}]
         /\ alive' \subseteq Conns
         /\ stream' \in [Conns -> Seq(ClientMessages)]
         /\ \A c \in Conns : status'[c] = IF c \in ended THEN how ELSE status[c]
<1>1. << >> \in Seq(ClientMessages)
  OBVIOUS
<1> QED BY <1>1 DEF TypeOK, Gone

(***************************************************************************)
(* A handler that takes up no connection, and what becomes of the one it   *)
(* lets go of, do not disturb who owns the others.                         *)
(***************************************************************************)
LEMMA OwnersKept ==
  ASSUME OwnersFit, NEW h \in Handlers,
         \A g \in Handlers : g # h => handler'[g] = handler[g],
         \/ /\ Connection(handler'[h]) = Connection(handler[h])
            /\ status' = status
         \/ /\ Connection(handler'[h]) = None
            /\ \A c \in Conns : IF c = Connection(handler[h]) THEN status'[c] # "accepted"
                                ELSE status'[c] = status[c]
  PROVE  OwnersFit'
<1>1. CASE Connection(handler'[h]) = Connection(handler[h]) /\ status' = status
  <2>1. \A g \in Handlers : Connection(handler'[g]) = Connection(handler[g])
    BY <1>1
  <2> QED BY <1>1, <2>1 DEF OwnersFit
<1>2. CASE /\ Connection(handler'[h]) = None
           /\ \A c \in Conns : IF c = Connection(handler[h]) THEN status'[c] # "accepted"
                               ELSE status'[c] = status[c]
  <2>1. \A g \in Handlers : g # h => Connection(handler'[g]) = Connection(handler[g])
    OBVIOUS
  <2>2. None \notin Conns
    BY ConstantsAssumption
  <2>3. ASSUME NEW g \in Handlers, NEW c \in Conns, Connection(handler'[g]) = c
        PROVE  /\ status'[c] = "accepted"
               /\ \A k \in Handlers : Connection(handler'[k]) = c => k = g
    <3>1. g # h /\ Connection(handler[g]) = c
      BY <1>2, <2>1, <2>2, <2>3
    <3>2. status[c] = "accepted" /\ \A k \in Handlers : Connection(handler[k]) = c => k = g
      BY <3>1 DEF OwnersFit
    <3>3. status'[c] = "accepted"
      BY <1>2, <3>1, <3>2
    <3> QED BY <1>2, <2>1, <2>2, <3>2, <3>3
  <2>4. ASSUME NEW c \in Conns, status'[c] = "accepted"
        PROVE  \E g \in Handlers : Connection(handler'[g]) = c
    <3>1. status[c] = "accepted" /\ c # Connection(handler[h])
      BY <1>2, <2>4
    <3>2. PICK g \in Handlers : Connection(handler[g]) = c
      BY <3>1 DEF OwnersFit
    <3> QED BY <2>1, <3>1, <3>2
  <2> QED BY <2>3, <2>4 DEF OwnersFit
<1> QED BY <1>1, <1>2

(* A handler of the pool that is not made busy does not disturb the pool. *)
LEMMA PoolKept ==
  ASSUME TypeOK, PoolFits, NEW h \in Handlers, h \in pool,
         \A g \in Handlers : g # h => handler'[g] = handler[g],
         handler'[h].busy => handler[h].busy,
         UNCHANGED <<server, ssl, pool, victim>>
  PROVE  PoolFits'
<1>1. victim # None => victim \in Handlers
  BY DEF PoolFits, TypeOK
<1>2. \A g \in Handlers : handler'[g].busy => handler[g].busy
  OBVIOUS
<1> QED BY <1>1, <1>2 DEF PoolFits

(***************************************************************************)
(* A step in which one handler goes on without taking up a connection, and *)
(* the listener does nothing, preserves the invariant.                     *)
(***************************************************************************)
LEMMA BecomesPreserves ==
  ASSUME IInv, NEW h \in Handlers, h \in pool, NEW t, NEW unread \in Seq(ClientMessages),
         Keeps(handler[h], t), Becomes(h, t, unread),
         UNCHANGED <<server, ssl, pool, victim, sent>>
  PROVE  IInv'
<1>1. /\ handler \in [Handlers -> HandlerState] /\ handler[h] \in HandlerState
      /\ TypeOK
  BY DEF IInv, TypeOK
<1>2. /\ handler' \in [Handlers -> HandlerState]
      /\ handler'[h] = t
      /\ \A g \in Handlers : g # h => handler'[g] = handler[g]
  BY <1>1 DEF Becomes, Keeps
<1>4. \/ /\ t.conn = handler[h].conn
         /\ UNCHANGED <<status, alive>>
         /\ stream' \in [Conns -> Seq(ClientMessages)]
      \/ /\ t.conn # handler[h].conn
         /\ Gone({handler[h].conn}, "done")
  BY <1>1 DEF Becomes, TypeOK
<1>5. TypeOK'
  <2>1. CASE UNCHANGED <<status, alive>> /\ stream' \in [Conns -> Seq(ClientMessages)]
    BY <2>1, <1>1, <1>2 DEF TypeOK
  <2>2. CASE Gone({handler[h].conn}, "done")
    BY <2>2, <1>1, <1>2, GoneType DEF TypeOK
  <2> QED BY <1>4, <2>1, <2>2
<1>6. \A g \in Handlers : HandlerFits(handler'[g])
  BY <1>2 DEF IInv, Keeps
<1>7. PoolFits'
  BY <1>1, <1>2, PoolKept DEF IInv, Keeps
<1>8. OwnersFit'
  <2>1. CASE t.conn = handler[h].conn /\ UNCHANGED <<status, alive>>
    <3>1. Connection(t) = Connection(handler[h])
      BY <2>1 DEF Keeps, Connection
    <3> QED BY <2>1, <3>1, <1>2, OwnersKept DEF IInv
  <2>2. CASE t.conn # handler[h].conn /\ Gone({handler[h].conn}, "done")
    <3>1. t.conn = None /\ t.queue = << >> /\ Connection(handler[h]) = handler[h].conn
      BY <2>2 DEF Keeps, IInv, HandlerFits, SocketFits, Connection
    <3>2. Connection(t) = None
      BY <3>1 DEF Connection
    <3>3. \A c \in Conns : IF c = Connection(handler[h]) THEN status'[c] # "accepted"
                            ELSE status'[c] = status[c]
      BY <2>2, <3>1, <1>1, GoneType
    <3> QED BY <3>2, <3>3, <1>2, OwnersKept DEF IInv
  <2> QED BY <1>4, <2>1, <2>2
<1> QED BY <1>5, <1>6, <1>7, <1>8 DEF IInv

(***************************************************************************)
(* The two uses of BecomesPreserves: a slot that leaves the bytes of its   *)
(* connection alone, and one that reads a message.                         *)
(***************************************************************************)
LEMMA MovesPreserves ==
  ASSUME IInv, NEW h \in Handlers, h \in pool, NEW t,
         Keeps(handler[h], t), Moves(h, t),
         UNCHANGED <<server, ssl, pool, victim, sent>>
  PROVE  IInv'
BY AvailableType, BecomesPreserves DEF IInv, Moves

LEMMA ReadsPreserves ==
  ASSUME IInv, NEW h \in Handlers, h \in pool, NEW t, Available(h) # << >>,
         Keeps(handler[h], t), Reads(h, t),
         UNCHANGED <<server, ssl, pool, victim, sent>>
  PROVE  IInv'
BY AvailableType, BecomesPreserves DEF IInv, Reads

LEMMA EncryptedPreserves ==
  ASSUME IInv, NEW h \in Handlers, Encrypted(h)
  PROVE  IInv'
<1> DEFINE s == handler[h]
           t == [s EXCEPT !.slots = @ \cup {"read", "disconnected"}]
<1>1. s \in HandlerState /\ HandlerFits(s)
  BY DEF IInv, TypeOK
<1>2. h \in pool /\ Moves(h, t) /\ UNCHANGED <<server, ssl, pool, victim, sent>>
  BY DEF Encrypted, Running
<1>3. Keeps(s, t)
  <2> HIDE DEF s
  <2> QED BY <1>1 DEF Keeps, HandlerState, HandlerFits, SocketFits, RequestFits, TimerFits, PlainFits
<1> QED BY <1>2, <1>3, MovesPreserves

LEMMA UpgradePreserves ==
  ASSUME IInv, NEW h \in Handlers, Upgrade(h)
  PROVE  IInv'
<1> DEFINE s == handler[h]
           t == [s EXCEPT !.type = "WEBSOCKET", !.timer = s.conn,
                          !.slots = @ \ {"read", "disconnected"}]
<1>1. s \in HandlerState /\ HandlerFits(s)
  BY DEF IInv, TypeOK
<1>2. h \in pool /\ Reads(h, t) /\ UNCHANGED <<server, ssl, pool, victim, sent>>
      /\ Available(h) # << >>
  BY DEF Upgrade, ReadyRead, Running
<1>3. Keeps(s, t)
  <2> HIDE DEF s
  <2> QED BY <1>1 DEF Keeps, HandlerState, HandlerFits, SocketFits, RequestFits, TimerFits, PlainFits
<1> QED BY <1>2, <1>3, ReadsPreserves

(* A socket that is being closed needs no timer. *)
LEMMA ClosesKeeps ==
  ASSUME NEW s \in HandlerState, HandlerFits(s), NEW t, Closes(s, t)
  PROVE  Keeps(s, t)
BY DEF Keeps, Closes, HandlerState, HandlerFits, SocketFits, RequestFits, TimerFits, PlainFits

LEMMA RefuseUpgradePreserves ==
  ASSUME IInv, NEW h \in Handlers, RefuseUpgrade(h)
  PROVE  IInv'
<1> DEFINE s == handler[h]
           t(d) == [CloseSocket(s, d) EXCEPT !.type = "HTTP",
                      !.slots = (@ \ {"read"}) \cup {"readHttp"}]
<1>1. s \in HandlerState /\ HandlerFits(s)
  BY DEF IInv, TypeOK
<1>2. PICK drained \in BOOLEAN : Reads(h, t(drained))
  BY DEF RefuseUpgrade
<1>3. h \in pool /\ UNCHANGED <<server, ssl, pool, victim, sent>> /\ Available(h) # << >>
  BY DEF RefuseUpgrade, ReadyRead, Running
<1>4. "read" \in s.slots
  BY DEF RefuseUpgrade
<1>5. Keeps(s, t(drained))
  <2> HIDE DEF s
  <2> DEFINE u == CloseSocket(s, drained)
  <2>1. Keeps(s, u) /\ Closes(s, u)
    BY <1>1, CloseSocketCloses, ClosesKeeps DEF HandlerFits
  <2> HIDE DEF u
  <2>2. Keeps(s, [u EXCEPT !.type = "HTTP", !.slots = (@ \ {"read"}) \cup {"readHttp"}])
    BY ZenonT(40), <1>1, <1>4, <2>1 DEF Keeps, Closes, HandlerState, HandlerFits, SocketFits, RequestFits, TimerFits, PlainFits
  <2> QED BY <2>2 DEF u
<1> QED BY <1>2, <1>3, <1>5, ReadsPreserves

LEMMA StartReadHttpPreserves ==
  ASSUME IInv, NEW h \in Handlers, StartReadHttp(h)
  PROVE  IInv'
<1> DEFINE s == handler[h]
           t == [s EXCEPT !.at = "readHttp"]
           u == [s EXCEPT !.at = "readHttp", !.type = "HTTP",
                          !.slots = (@ \ {"read"}) \cup {"readHttp"}]
<1>1. s \in HandlerState /\ HandlerFits(s)
  BY DEF IInv, TypeOK
<1>2. /\ h \in pool /\ UNCHANGED <<server, ssl, pool, victim, sent>>
      /\ Moves(h, t) \/ (Moves(h, u) /\ "read" \in s.slots)
  BY DEF StartReadHttp, ReadyRead, Running
<1>3. s.at = "eventLoop"
  BY DEF StartReadHttp, ReadyRead, Running
<1>4. Keeps(s, t)
  <2> HIDE DEF s
  <2> QED BY <1>1, <1>3 DEF Keeps, HandlerState, HandlerFits, SocketFits, RequestFits, TimerFits, PlainFits
<1>5. ASSUME "read" \in s.slots PROVE Keeps(s, u)
  <2> HIDE DEF s
  <2> QED BY <1>1, <1>3, <1>5
          DEF Keeps, HandlerState, HandlerFits, SocketFits, RequestFits, TimerFits, PlainFits
<1> QED BY <1>2, <1>4, <1>5, MovesPreserves

LEMMA ReadRequestPreserves ==
  ASSUME IInv, NEW h \in Handlers, ReadRequest(h)
  PROVE  IInv'
<1> DEFINE s == handler[h]
           m == Head(Available(h))
           part == [s EXCEPT !.request = s.conn]
           large(d) == [DisconnectFromHost(s, d) EXCEPT !.request = None, !.at = "eventLoop"]
           complete == [s EXCEPT !.request = s.conn, !.timer = None, !.at = "service"]
<1>1. s \in HandlerState /\ HandlerFits(s)
  BY DEF IInv, TypeOK
<1>2. /\ h \in pool /\ UNCHANGED <<server, ssl, pool, victim, sent>>
      /\ Available(h) # << >>
  BY DEF ReadRequest, Running
<1>3. \/ Reads(h, part)
      \/ \E drained \in BOOLEAN : Reads(h, large(drained))
      \/ Reads(h, complete)
  BY Zenon DEF ReadRequest
<1>4. Keeps(s, part) /\ Keeps(s, complete)
  <2> HIDE DEF s
  <2> QED BY ZenonT(40), <1>1 DEF Keeps, HandlerState, HandlerFits, SocketFits, RequestFits, TimerFits, PlainFits
<1>5. ASSUME NEW drained \in BOOLEAN PROVE Keeps(s, large(drained))
  <2> HIDE DEF s
  <2> DEFINE u == DisconnectFromHost(s, drained)
  <2>1. Closes(s, u)
    BY <1>1, DisconnectFromHostCloses DEF HandlerFits
  <2> HIDE DEF u
  <2>2. Keeps(s, [u EXCEPT !.request = None, !.at = "eventLoop"])
    BY <2>1 DEF Closes, Keeps, HandlerState, HandlerFits, SocketFits, RequestFits, TimerFits, PlainFits
  <2> QED BY <2>2 DEF u
<1> HIDE DEF s, part, large, complete
<1>6. CASE Reads(h, part) \/ Reads(h, complete)
  BY <1>2, <1>4, <1>6, ReadsPreserves DEF s
<1>7. CASE \E drained \in BOOLEAN : Reads(h, large(drained))
  BY <1>2, <1>5, <1>7, ReadsPreserves DEF s
<1> QED BY <1>3, <1>6, <1>7

LEMMA LeaveReadHttpPreserves ==
  ASSUME IInv, NEW h \in Handlers, LeaveReadHttp(h)
  PROVE  IInv'
<1> DEFINE s == handler[h]
           t == [s EXCEPT !.at = "eventLoop"]
<1>1. s \in HandlerState /\ HandlerFits(s)
  BY DEF IInv, TypeOK
<1>2. /\ h \in pool /\ UNCHANGED <<server, ssl, pool, victim, sent>>
      /\ Moves(h, t) /\ s.at = "readHttp"
  BY DEF LeaveReadHttp, Running
<1>3. Keeps(s, t)
  <2> HIDE DEF s
  <2> QED BY <1>1, <1>2 DEF Keeps, HandlerState, HandlerFits, SocketFits, RequestFits, TimerFits, PlainFits
<1> QED BY <1>2, <1>3, MovesPreserves

(* The socket of a handler with a connection reaches UnconnectedState. *)
LEMMA UnconnectedPreserves ==
  ASSUME IInv, NEW h \in Handlers, h \in pool, handler[h].conn # None,
         Moves(h, Unconnected(handler[h])), UNCHANGED <<server, ssl, pool, victim, sent>>
  PROVE  IInv'
<1>1. handler[h] \in HandlerState /\ HandlerFits(handler[h])
  BY DEF IInv, TypeOK
<1>2. Keeps(handler[h], Unconnected(handler[h]))
  BY <1>1, UnconnectedCloses, ClosesKeeps DEF HandlerFits
<1> QED BY <1>2, MovesPreserves

LEMMA DisconnectedInServicePreserves ==
  ASSUME IInv, NEW h \in Handlers, DisconnectedInService(h)
  PROVE  IInv'
BY UnconnectedPreserves DEF DisconnectedInService, Running

LEMMA SocketDisconnectsPreserves ==
  ASSUME IInv, NEW h \in Handlers, SocketDisconnects(h)
  PROVE  IInv'
<1>1. HandlerFits(handler[h])
  BY DEF IInv
<1>2. handler[h].conn # None
  BY <1>1 DEF SocketDisconnects, HandlerFits, SocketFits
<1> QED BY <1>2, UnconnectedPreserves DEF SocketDisconnects, Running

LEMMA FinishRequestPreserves ==
  ASSUME IInv, NEW h \in Handlers, FinishRequest(h)
  PROVE  IInv'
<1> DEFINE s == handler[h]
           keep == [s EXCEPT !.timer = s.request, !.request = None, !.at = "readHttp"]
           close(d) == [DisconnectFromHost(s, d) EXCEPT !.request = None, !.at = "readHttp"]
<1>1. s \in HandlerState /\ HandlerFits(s)
  BY DEF IInv, TypeOK
<1>2. /\ h \in pool /\ UNCHANGED <<server, ssl, pool, victim, sent>>
      /\ s.at = "service"
  BY DEF FinishRequest, ServiceReturns, Running
<1>3. Moves(h, keep) \/ \E drained \in BOOLEAN : Moves(h, close(drained))
  BY DEF FinishRequest, AwaitNextRequest
<1>4. Keeps(s, keep)
  <2> HIDE DEF s
  <2> QED BY <1>1, <1>2 DEF Keeps, HandlerState, HandlerFits, SocketFits, RequestFits, TimerFits, PlainFits
<1>5. ASSUME NEW drained \in BOOLEAN PROVE Keeps(s, close(drained))
  <2> HIDE DEF s
  <2> DEFINE u == DisconnectFromHost(s, drained)
  <2>1. Closes(s, u)
    BY <1>1, DisconnectFromHostCloses DEF HandlerFits
  <2> HIDE DEF u
  <2>2. Keeps(s, [u EXCEPT !.request = None, !.at = "readHttp"])
    BY <2>1 DEF Closes, Keeps, HandlerState, HandlerFits, SocketFits, RequestFits, TimerFits, PlainFits
  <2> QED BY <2>2 DEF u
<1> HIDE DEF s, keep, close
<1>6. CASE Moves(h, keep)
  BY <1>2, <1>4, <1>6, MovesPreserves DEF s
<1>7. CASE \E drained \in BOOLEAN : Moves(h, close(drained))
  BY <1>2, <1>5, <1>7, MovesPreserves DEF s
<1> QED BY <1>3, <1>6, <1>7

LEMMA WebSocketDataPreserves ==
  ASSUME IInv, NEW h \in Handlers, WebSocketData(h)
  PROVE  IInv'
<1> DEFINE s == handler[h]
           restart == [s EXCEPT !.timer = s.conn]
           close(d) == CloseSocket(s, d)
           both(d) == [close(d) EXCEPT !.timer = s.conn]
<1>1. s \in HandlerState /\ HandlerFits(s)
  BY DEF IInv, TypeOK
<1>2. /\ h \in pool /\ UNCHANGED <<server, ssl, pool, victim, sent>>
      /\ Available(h) # << >>
  BY DEF WebSocketData, ReadyRead, Running
<1>3. \/ Reads(h, restart)
      \/ \E drained \in BOOLEAN : Reads(h, both(drained)) \/ Reads(h, close(drained))
  BY Zenon DEF WebSocketData
<1>4. Keeps(s, restart)
  <2> HIDE DEF s
  <2> QED BY <1>1 DEF Keeps, HandlerState, HandlerFits, SocketFits, RequestFits, TimerFits, PlainFits
<1>5. ASSUME NEW drained \in BOOLEAN PROVE Keeps(s, both(drained)) /\ Keeps(s, close(drained))
  <2> HIDE DEF s
  <2> DEFINE u == close(drained)
  <2>1. Closes(s, u)
    BY <1>1, CloseSocketCloses DEF HandlerFits
  <2> HIDE DEF u
  <2>2. Keeps(s, [u EXCEPT !.timer = s.conn])
    BY <1>1, <2>1 DEF Closes, Keeps, HandlerState, HandlerFits, SocketFits, RequestFits, TimerFits, PlainFits
  <2>3. Keeps(s, u)
    BY <1>1, <2>1, ClosesKeeps
  <2> QED BY <2>2, <2>3 DEF u
<1> HIDE DEF s, restart, close, both
<1>6. CASE Reads(h, restart)
  BY <1>2, <1>4, <1>6, ReadsPreserves DEF s
<1>7. CASE \E drained \in BOOLEAN : Reads(h, both(drained)) \/ Reads(h, close(drained))
  BY <1>2, <1>5, <1>7, ReadsPreserves DEF s
<1> QED BY <1>3, <1>6, <1>7

LEMMA ReadTimeoutPreserves ==
  ASSUME IInv, NEW h \in Handlers, ReadTimeout(h)
  PROVE  IInv'
<1> DEFINE s == [handler[h] EXCEPT !.timer = None]
           closed(d) == IF s.type = "WEBSOCKET" THEN CloseSocket(s, d) ELSE DisconnectFromHost(s, d)
           t(d) == [closed(d) EXCEPT !.request = None]
<1>1. handler[h] \in HandlerState /\ HandlerFits(handler[h])
  BY DEF IInv, TypeOK
<1>2. /\ s \in HandlerState /\ SocketFits(s) /\ PlainFits(s)
      /\ s.queue = handler[h].queue /\ s.conn = handler[h].conn /\ s.busy = handler[h].busy
      /\ s.request = handler[h].request /\ s.at = handler[h].at
  BY <1>1 DEF HandlerState, HandlerFits, SocketFits, PlainFits
<1>3. /\ h \in pool /\ UNCHANGED <<server, ssl, pool, victim, sent>>
      /\ handler[h].at = "eventLoop"
  BY DEF ReadTimeout, Running
<1>4. PICK drained \in BOOLEAN : Moves(h, t(drained))
  BY DEF ReadTimeout
<1>5. Closes(s, closed(drained))
  <2> HIDE DEF s
  <2> QED BY <1>2, CloseSocketCloses, DisconnectFromHostCloses
<1>6. Keeps(handler[h], t(drained))
  <2> DEFINE u == closed(drained)
  <2>1. Closes(s, u)
    BY <1>5
  <2> HIDE DEF s, u
  <2>2. Keeps(handler[h], [u EXCEPT !.request = None])
    BY <1>2, <1>3, <2>1 DEF Closes, Keeps, HandlerState, HandlerFits, SocketFits, RequestFits, TimerFits, PlainFits
  <2> QED BY <2>2 DEF u
<1> QED BY <1>3, <1>4, <1>6, MovesPreserves

(* A queue with one connection. *)
LEMMA SingletonQueue ==
  ASSUME NEW q \in Seq(Conns), Len(q) = 1
  PROVE  Head(q) \in Conns /\ Tail(q) = << >>
<1>1. q # << >>
  BY EmptySeq
<1>2. Head(q) \in Conns /\ Tail(q) \in Seq(Conns) /\ Len(Tail(q)) = 0
  BY <1>1, HeadTailProperties
<1> QED BY <1>2, EmptySeq

LEMMA HandleConnectionPreserves ==
  ASSUME IInv, NEW h \in Handlers, HandleConnection(h)
  PROVE  IInv'
<1> DEFINE q == handler[h].queue
           c == Head(q)
           s == [handler[h] EXCEPT !.busy = TRUE, !.queue = Tail(@), !.open = FALSE,
                   !.state = "unconnected", !.conn = None,
                   !.slots = @ \cup (IF ssl THEN {"encrypted"} ELSE {"read", "disconnected"})]
           t == Attach(s, c)
<1>1. /\ handler \in [Handlers -> HandlerState] /\ handler[h] \in HandlerState
      /\ HandlerFits(handler[h]) /\ TypeOK
  BY DEF IInv, TypeOK
<1>2. /\ h \in pool /\ UNCHANGED <<server, ssl, pool, victim, sent>>
      /\ handler[h].at = "eventLoop" /\ q # << >>
  BY DEF HandleConnection, Running
<1>3. /\ q \in Seq(Conns) /\ c \in Conns /\ Tail(q) = << >>
      /\ handler[h].conn = None /\ handler[h].busy /\ Connection(handler[h]) = c
  <2>1. q \in Seq(Conns) /\ Len(q) = 1 /\ handler[h].conn = None /\ handler[h].busy
    BY <1>1, <1>2 DEF HandlerState, HandlerFits, SocketFits
  <2> QED BY <2>1, <1>2, SingletonQueue DEF Connection
<1>4. /\ s \in HandlerState
      /\ s.queue = << >> /\ s.conn = None /\ s.state = "unconnected"
      /\ s.at = "eventLoop" /\ s.busy
      /\ PlainTcp => "disconnected" \in s.slots
  <2> DEFINE more == IF ssl THEN {"encrypted"} ELSE {"read", "disconnected"}
             old == handler[h]
  <2>1. /\ more \in SUBSET {"read", "readHttp", "disconnected", "encrypted"}
        /\ old \in HandlerState /\ old.at = "eventLoop" /\ Tail(old.queue) = << >>
        /\ PlainTcp => "disconnected" \in more
    BY <1>1, <1>2, <1>3 DEF IInv, PoolFits, PlainTcp
  <2> HIDE DEF more, old
  <2>2. << >> \in Seq(Conns)
    OBVIOUS
  <2> DEFINE r == [old EXCEPT !.busy = TRUE, !.queue = Tail(@), !.open = FALSE,
                     !.state = "unconnected", !.conn = None, !.slots = @ \cup more]
  <2>3. /\ r \in HandlerState
        /\ r.queue = << >> /\ r.conn = None /\ r.state = "unconnected"
        /\ r.at = "eventLoop" /\ r.busy
        /\ PlainTcp => "disconnected" \in r.slots
    BY <2>1, <2>2 DEF HandlerState
  <2> QED BY <2>3 DEF more, old
<1>5. \/ /\ handler' = [handler EXCEPT ![h] = t]
         /\ UNCHANGED <<status, alive, stream>>
      \/ /\ DescriptorMayFail
         /\ handler' = [handler EXCEPT ![h] = s]
         /\ Gone({c}, "lost")
  BY Zenon DEF HandleConnection
<1> HIDE DEF q, s
<1>6. t \in HandlerState /\ HandlerFits(t) /\ Connection(t) = c
  BY <1>3, <1>4, ConstantsAssumption
     DEF Attach, HandlerState, HandlerFits, SocketFits, RequestFits, TimerFits, PlainFits, Connection
<1>7. Connection(s) = None /\ (DescriptorMayFail => HandlerFits(s))
  BY <1>4 DEF HandlerFits, SocketFits, RequestFits, TimerFits, PlainFits, PlainTcp, Connection
<1> HIDE DEF t, c
<1>8. CASE handler' = [handler EXCEPT ![h] = t] /\ UNCHANGED <<status, alive, stream>>
  <2>1. handler' \in [Handlers -> HandlerState] /\ handler'[h] = t
        /\ \A g \in Handlers : g # h => handler'[g] = handler[g]
    BY <1>8, <1>1, <1>6
  <2>2. TypeOK'
    BY <2>1, <1>8, <1>1, <1>2 DEF TypeOK
  <2>3. \A g \in Handlers : HandlerFits(handler'[g])
    BY <2>1, <1>6 DEF IInv
  <2>4. PoolFits'
    BY <2>1, <1>1, <1>2, <1>3, PoolKept DEF IInv
  <2>5. OwnersFit'
    BY <2>1, <1>8, <1>3, <1>6, OwnersKept DEF IInv
  <2> QED BY <2>2, <2>3, <2>4, <2>5 DEF IInv
<1>9. CASE DescriptorMayFail /\ handler' = [handler EXCEPT ![h] = s] /\ Gone({c}, "lost")
  <2>1. handler' \in [Handlers -> HandlerState] /\ handler'[h] = s
        /\ \A g \in Handlers : g # h => handler'[g] = handler[g]
    BY <1>9, <1>1, <1>4
  <2>2. TypeOK'
    BY <2>1, <1>9, <1>1, <1>2, GoneType DEF TypeOK
  <2>3. \A g \in Handlers : HandlerFits(handler'[g])
    BY <2>1, <1>7, <1>9 DEF IInv
  <2>4. PoolFits'
    BY <2>1, <1>1, <1>2, <1>3, PoolKept DEF IInv
  <2>5. \A d \in Conns : IF d = Connection(handler[h]) THEN status'[d] # "accepted"
                          ELSE status'[d] = status[d]
    BY <1>9, <1>3, <1>1, GoneType
  <2>6. OwnersFit'
    BY <2>1, <2>5, <1>7, OwnersKept DEF IInv
  <2> QED BY <2>2, <2>3, <2>4, <2>6 DEF IInv
<1> QED BY <1>5, <1>8, <1>9

LEMMA ConstructedFits ==
  /\ Constructed \in HandlerState /\ HandlerFits(Constructed)
  /\ Connection(Constructed) = None
<1>1. << >> \in Seq(Conns)
  OBVIOUS
<1> QED BY <1>1 DEF Constructed, HandlerState, HandlerFits, SocketFits, RequestFits, TimerFits, PlainFits, Connection

LEMMA ThreadExitPreserves ==
  ASSUME IInv, NEW h \in Handlers, ThreadExit(h)
  PROVE  IInv'
<1>1. /\ handler \in [Handlers -> HandlerState] /\ handler[h] \in HandlerState
      /\ TypeOK
  BY DEF IInv, TypeOK
<1>2. Gone({Connection(handler[h])}, "done") \/ Gone({Connection(handler[h])}, "lost")
  BY DEF ThreadExit, Connection
<1>3. /\ handler' = [handler EXCEPT ![h] = Constructed]
      /\ pool' = pool \ {h} /\ victim' = None
      /\ UNCHANGED <<server, ssl, sent>>
  BY DEF ThreadExit
<1>4. /\ handler' \in [Handlers -> HandlerState] /\ handler'[h] = Constructed
      /\ \A g \in Handlers : g # h => handler'[g] = handler[g]
  BY <1>1, <1>3, ConstructedFits
<1>5. TypeOK'
  BY <1>1, <1>2, <1>3, <1>4, GoneType DEF TypeOK
<1>6. \A g \in Handlers : HandlerFits(handler'[g])
  BY <1>4, ConstructedFits DEF IInv
<1>7. PoolFits'
  BY <1>3, <1>4 DEF IInv, PoolFits
<1>8. \A c \in Conns : IF c = Connection(handler[h]) THEN status'[c] # "accepted"
                        ELSE status'[c] = status[c]
  BY <1>1, <1>2, GoneType
<1>9. OwnersFit'
  BY <1>4, <1>8, ConstructedFits, OwnersKept DEF IInv
<1> QED BY <1>5, <1>6, <1>7, <1>9 DEF IInv
-----------------------------------------------------------------------------
(***************************************************************************)
(* Steps of the listener thread and of the clients.                        *)
(***************************************************************************)

(* A free handler that is given a new connection has that one alone. *)
LEMMA AssignPreserves ==
  ASSUME IInv, NEW h \in Handlers, NEW c \in Conns,
         ~ handler[h].busy, status[c] = "new", Assign(h, c), pool' = pool \cup {h},
         ListenerFree, UNCHANGED <<server, ssl, victim, netVars>>
  PROVE  IInv'
<1> DEFINE s == handler[h]
           t == [s EXCEPT !.busy = TRUE, !.queue = Append(@, c)]
<1>1. /\ handler \in [Handlers -> HandlerState] /\ s \in HandlerState
      /\ HandlerFits(s) /\ TypeOK /\ ~ s.busy
  BY DEF IInv, TypeOK
<1>2. s.queue = << >> /\ s.conn = None /\ s.state = "unconnected"
  BY <1>1 DEF HandlerFits, SocketFits
<1>3. /\ Append(s.queue, c) \in Seq(Conns) /\ Append(s.queue, c) # << >>
      /\ Len(Append(s.queue, c)) = 1 /\ Head(Append(s.queue, c)) = c
  BY <1>2
<1>4. t \in HandlerState /\ HandlerFits(t) /\ Connection(t) = c
  <2> DEFINE r(q) == [s EXCEPT !.busy = TRUE, !.queue = q]
  <2>1. ASSUME NEW q \in Seq(Conns), q # << >>, Len(q) = 1, Head(q) = c
        PROVE  r(q) \in HandlerState /\ HandlerFits(r(q)) /\ Connection(r(q)) = c
    <3> HIDE DEF s
    <3> QED BY <1>1, <1>2, <2>1 DEF HandlerState, HandlerFits, SocketFits, RequestFits, TimerFits, PlainFits, Connection
  <2> HIDE DEF r
  <2>2. t = r(Append(s.queue, c))
    BY DEF r
  <2> QED BY <1>3, <2>1, <2>2
<1>5. /\ handler' = [handler EXCEPT ![h] = t]
      /\ status' = [status EXCEPT ![c] = "accepted"]
  BY <1>1 DEF Assign
<1> HIDE DEF t
<1>6. /\ handler' \in [Handlers -> HandlerState] /\ handler'[h] = t
      /\ \A g \in Handlers : g # h => handler'[g] = handler[g]
      /\ status' \in [Conns -> {"new", "accepted", "rejected", "done", "lost"}]
      /\ status'[c] = "accepted" /\ \A d \in Conns : d # c => status'[d] = status[d]
  BY <1>1, <1>4, <1>5 DEF TypeOK
<1>7. TypeOK'
  BY <1>1, <1>6 DEF TypeOK, netVars
<1>8. \A g \in Handlers : HandlerFits(handler'[g])
  BY <1>4, <1>6 DEF IInv
<1>9. PoolFits'
  BY <1>6 DEF IInv, PoolFits, ListenerFree
<1>10. OwnersFit'
  <2>1. \A g \in Handlers : Connection(handler[g]) # c
    BY DEF IInv, OwnersFit
  <2>2. Connection(handler'[h]) = c
    BY <1>4, <1>6
  <2>3. \A g \in Handlers : g # h => Connection(handler'[g]) = Connection(handler[g])
    BY <1>6
  <2>4. ASSUME NEW g \in Handlers, NEW d \in Conns, Connection(handler'[g]) = d
        PROVE  /\ status'[d] = "accepted"
               /\ \A k \in Handlers : Connection(handler'[k]) = d => k = g
    <3>1. CASE g = h
      BY <2>1, <2>2, <2>3, <2>4, <3>1, <1>6
    <3>2. CASE g # h
      <4>1. Connection(handler[g]) = d /\ d # c
        BY <2>1, <2>3, <2>4, <3>2
      <4>2. status[d] = "accepted" /\ \A k \in Handlers : Connection(handler[k]) = d => k = g
        BY <4>1 DEF IInv, OwnersFit
      <4> QED BY <4>1, <4>2, <2>2, <2>3, <1>6
    <3> QED BY <3>1, <3>2
  <2>5. ASSUME NEW d \in Conns, status'[d] = "accepted"
        PROVE  \E g \in Handlers : Connection(handler'[g]) = d
    <3>1. CASE d = c
      BY <2>2, <3>1
    <3>2. CASE d # c
      <4>1. PICK g \in Handlers : Connection(handler[g]) = d
        BY <1>6, <2>5, <3>2 DEF IInv, OwnersFit
      <4>2. g # h
        BY <1>2, <4>1, ConstantsAssumption DEF Connection
      <4> QED BY <2>3, <4>1, <4>2
    <3> QED BY <3>1, <3>2
  <2> QED BY <2>4, <2>5 DEF OwnersFit
<1> QED BY <1>7, <1>8, <1>9, <1>10 DEF IInv

LEMMA IncomingConnectionPreserves ==
  ASSUME IInv, NEW c \in Conns, IncomingConnection(c)
  PROVE  IInv'
<1>1. /\ ListenerFree /\ status[c] = "new"
      /\ UNCHANGED <<server, ssl, victim, netVars>>
  BY DEF IncomingConnection
<1>2. CASE \E h \in Handlers : UseFreeHandler(h, c)
  <2>1. PICK h \in Handlers : UseFreeHandler(h, c)
    BY <1>2
  <2>2. ~ handler[h].busy /\ Assign(h, c) /\ pool' = pool \cup {h}
    BY <2>1 DEF UseFreeHandler, IdleHandlers
  <2> QED BY <1>1, <2>2, AssignPreserves
<1>3. CASE \E h \in Handlers : CreateHandler(h, c)
  <2>1. PICK h \in Handlers : CreateHandler(h, c)
    BY <1>3
  <2>2. ~ handler[h].busy /\ Assign(h, c) /\ pool' = pool \cup {h}
    BY <2>1 DEF CreateHandler, IInv, PoolFits, Constructed
  <2> QED BY <1>1, <2>2, AssignPreserves
<1>4. CASE Reject(c)
  <2>1. status' = [status EXCEPT ![c] = "rejected"] /\ UNCHANGED <<pool, handler>>
    BY <1>4 DEF Reject
  <2>2. TypeOK'
    BY <1>1, <2>1 DEF IInv, TypeOK, netVars
  <2>3. (\A h \in Handlers : HandlerFits(handler'[h])) /\ PoolFits'
    BY <1>1, <2>1 DEF IInv, PoolFits
  <2>4. OwnersFit'
    <3>1. \A h \in Handlers : Connection(handler[h]) # c
      BY <1>1 DEF IInv, OwnersFit
    <3>2. \A d \in Conns : d # c => status'[d] = status[d]
      BY <2>1 DEF IInv, TypeOK
    <3> QED BY <2>1, <3>1, <3>2 DEF IInv, OwnersFit
  <2> QED BY <2>2, <2>3, <2>4 DEF IInv
<1> QED BY <1>2, <1>3, <1>4 DEF IncomingConnection

(* The other steps of the listener only turn to a handler to delete. *)
LEMMA ListenerPreserves ==
  ASSUME IInv, Listen \/ Cleanup \/ CloseListener \/ DeleteNextHandler \/ PoolDestroyed
  PROVE  IInv'
<1>1. /\ UNCHANGED <<pool, handler, status, alive, stream, sent>>
      /\ \/ /\ victim = None /\ UNCHANGED victim
            /\ server' \in {"listening", "deaf", "closing", "closed"}
            /\ ssl' \in SslModes
         \/ /\ UNCHANGED <<server, ssl>>
            /\ \/ victim' \in pool /\ ~ handler[victim'].busy
               \/ victim' \in pool /\ server = "closing"
  <2>1. ssl \in SslModes /\ server \in {"listening", "deaf", "closing", "closed"}
    BY DEF IInv, TypeOK, PoolFits
  <2>2. CASE Listen
    BY <2>1, <2>2 DEF Listen, LoadSslConfig, ListenerFree, netVars
  <2>3. CASE Cleanup
    BY <2>3 DEF Cleanup, IdleHandlers, netVars
  <2>4. CASE CloseListener
    BY <2>1, <2>4 DEF CloseListener, ListenerFree, netVars
  <2>5. CASE DeleteNextHandler
    BY <2>5 DEF DeleteNextHandler, netVars
  <2>6. CASE PoolDestroyed
    BY <2>1, <2>6 DEF PoolDestroyed, netVars
  <2> QED BY <2>2, <2>3, <2>4, <2>5, <2>6
<1>2. TypeOK'
  BY <1>1, ConstantsAssumption DEF IInv, TypeOK
<1>3. PoolFits'
  BY <1>1 DEF IInv, PoolFits
<1>4. OwnersFit' /\ \A h \in Handlers : HandlerFits(handler'[h])
  BY <1>1 DEF IInv, OwnersFit
<1> QED BY <1>2, <1>3, <1>4 DEF IInv

LEMMA ClientPreserves ==
  ASSUME IInv, ClientStep
  PROVE  IInv'
<1>1. UNCHANGED <<server, ssl, pool, victim, handler, status>>
  BY DEF ClientStep, ClientLeaves, ClientSends
<1>2. /\ alive' \subseteq Conns /\ sent' \in Nat
      /\ stream' \in [Conns -> Seq(ClientMessages)]
  <2>1. CASE \E c \in Conns : ClientLeaves(c)
    BY <2>1 DEF ClientLeaves, IInv, TypeOK
  <2>2. CASE \E c \in Conns, m \in Messages : ClientSends(c, m)
    <3>1. PICK c \in Conns, m \in Messages : ClientSends(c, m)
      BY <2>2
    <3>2. m \in ClientMessages
      BY ConstantsAssumption
    <3> HIDE DEF ClientMessages
    <3>3. stream \in [Conns -> Seq(ClientMessages)] /\ sent \in Nat /\ alive \subseteq Conns
      BY DEF IInv, TypeOK
    <3>4. Append(stream[c], m) \in Seq(ClientMessages)
      BY <3>2, <3>3
    <3> QED BY <3>1, <3>3, <3>4 DEF ClientSends
  <2> QED BY <2>1, <2>2 DEF ClientStep
<1>3. TypeOK'
  BY <1>1, <1>2 DEF IInv, TypeOK
<1> QED BY <1>1, <1>3 DEF IInv, PoolFits, OwnersFit
-----------------------------------------------------------------------------
(***************************************************************************)
(* The inductive invariant.                                                *)
(***************************************************************************)

LEMMA InitEstablishes == Init => IInv
<1> SUFFICES ASSUME Init PROVE IInv
  OBVIOUS
<1>1. << >> \in Seq(ClientMessages)
  OBVIOUS
<1>2. TypeOK
  BY <1>1, ConstructedFits, ConstantsAssumption DEF Init, TypeOK
<1>3. (\A h \in Handlers : HandlerFits(handler[h])) /\ PoolFits
  BY ConstructedFits DEF Init, PoolFits
<1>4. OwnersFit
  BY ConstructedFits, ConstantsAssumption DEF Init, OwnersFit
<1> QED BY <1>2, <1>3, <1>4 DEF IInv

LEMMA HandlerStepPreserves ==
  ASSUME IInv, NEW h \in Handlers, HandlerStep(h)
  PROVE  IInv'
BY HandleConnectionPreserves, EncryptedPreserves, UpgradePreserves, RefuseUpgradePreserves,
   StartReadHttpPreserves, ReadRequestPreserves, LeaveReadHttpPreserves,
   DisconnectedInServicePreserves, FinishRequestPreserves, WebSocketDataPreserves,
   ReadTimeoutPreserves, SocketDisconnectsPreserves, ThreadExitPreserves
   DEF HandlerStep

LEMMA NextPreserves == IInv /\ [Next]_vars => IInv'
<1> SUFFICES ASSUME IInv, [Next]_vars PROVE IInv'
  OBVIOUS
<1>1. CASE ListenerStep
  BY <1>1, IncomingConnectionPreserves, ListenerPreserves DEF ListenerStep
<1>2. CASE \E h \in Handlers : HandlerStep(h)
  BY <1>2, HandlerStepPreserves
<1>3. CASE ClientStep
  BY <1>3, ClientPreserves
<1>4. CASE UNCHANGED vars
  BY <1>4 DEF vars, netVars, IInv, TypeOK, PoolFits, OwnersFit
<1> QED BY <1>1, <1>2, <1>3, <1>4 DEF Next

LEMMA Invariance == Spec => []IInv
BY InitEstablishes, NextPreserves, PTL DEF Spec

(* The fields of every object keep their types, whatever the interleaving. *)
THEOREM TypeCorrect == Spec => []TypeOK
<1>1. IInv => TypeOK
  BY DEF IInv
<1> QED BY <1>1, Invariance, PTL
-----------------------------------------------------------------------------
(***************************************************************************)
(* The safety properties.                                                  *)
(***************************************************************************)

(* What a handler holds is the one connection of its record. *)
LEMMA HoldsConnection ==
  ASSUME IInv, NEW h \in Handlers, NEW c \in Conns
  PROVE  Holds(h, c) <=> Connection(handler[h]) = c
<1> DEFINE q == handler[h].queue
<1>1. q \in Seq(Conns) /\ (q # << >> => Len(q) = 1 /\ handler[h].conn = None) /\ c # None
  BY ConstantsAssumption DEF IInv, TypeOK, HandlerState, HandlerFits, SocketFits
<1>2. CASE q = << >>
  BY <1>2 DEF Holds, Connection
<1>3. CASE q # << >>
  <2>1. DOMAIN q = {1} /\ Head(q) = q[1]
    BY <1>1, <1>3, HeadTailProperties, LenProperties
  <2> QED BY <1>1, <1>3, <2>1 DEF Holds, Connection
<1> QED BY <1>2, <1>3

(***************************************************************************)
(* No handler is ever given a connection while it has another, and none is *)
(* given to two handlers, for any number of handlers and connections, with *)
(* SSL and with descriptors that cannot be used.                           *)
(***************************************************************************)
THEOREM OneConnection == Spec => []OneConnectionPerHandler
<1>1. IInv => OneConnectionPerHandler
  <2> SUFFICES ASSUME IInv, NEW h \in Handlers, NEW c \in Conns, Holds(h, c)
               PROVE  /\ handler[h].busy
                      /\ status[c] = "accepted"
                      /\ \A d \in Conns : Holds(h, d) => d = c
                      /\ \A g \in Handlers : Holds(g, c) => g = h
    BY DEF OneConnectionPerHandler
  <2>1. Connection(handler[h]) = c /\ c # None
    BY HoldsConnection, ConstantsAssumption
  <2>2. handler[h].busy
    BY <2>1 DEF IInv, HandlerFits, SocketFits, Connection
  <2>3. status[c] = "accepted" /\ \A g \in Handlers : Connection(handler[g]) = c => g = h
    BY <2>1 DEF IInv, OwnersFit
  <2> QED BY <2>1, <2>2, <2>3, HoldsConnection
<1> QED BY <1>1, Invariance, PTL

(* Every connection that is up is watched by the timer started for it. *)
THEOREM TimerArmed == Spec => []ReadTimerArmed
<1>1. IInv => ReadTimerArmed
  BY DEF IInv, HandlerFits, TimerFits, ReadTimerArmed
<1> QED BY <1>1, Invariance, PTL

(* A request never contains bytes of two connections. *)
THEOREM OwnRequest == Spec => []NoForeignRequest
<1>1. IInv => NoForeignRequest
  BY DEF IInv, HandlerFits, RequestFits, NoForeignRequest
<1> QED BY <1>1, Invariance, PTL

(* The clean-up timer deletes no handler that has a connection. *)
THEOREM CleanupSafe == Spec => []CleanupSparesConnections
<1>1. IInv => CleanupSparesConnections
  <2> SUFFICES ASSUME IInv, NEW h \in Handlers, NEW c \in Conns, Holds(h, c)
               PROVE  h \in pool /\ (victim = h => server = "closing")
    BY DEF CleanupSparesConnections
  <2>1. Connection(handler[h]) = c /\ c # None /\ h # None
    BY HoldsConnection, ConstantsAssumption
  <2>2. h \in pool
    BY <2>1, ConstructedFits DEF IInv, PoolFits
  <2>3. handler[h].busy
    BY <2>1 DEF IInv, HandlerFits, SocketFits, Connection
  <2> QED BY <2>1, <2>2, <2>3 DEF IInv, PoolFits
<1> QED BY <1>1, Invariance, PTL

(* What PlainFits is for. *)
LEMMA BusyHasConnection ==
  ASSUME PlainTcp, NEW s \in HandlerState, HandlerFits(s), s.busy
  PROVE  Connection(s) \in Conns
<1>1. s.conn # None \/ s.queue # << >>
  BY DEF HandlerFits, PlainFits
<1>2. CASE s.queue = << >>
  BY <1>1, <1>2 DEF Connection, HandlerState
<1>3. CASE s.queue # << >>
  BY <1>3, SingletonQueue DEF Connection, HandlerState, HandlerFits, SocketFits
<1> QED BY <1>2, <1>3

(***************************************************************************)
(* Without SSL, and with descriptors that can be used, a busy handler has  *)
(* a connection: no handler is lost to the pool.  (The run pool_ssl shows  *)
(* that SSL makes the difference.)                                         *)
(***************************************************************************)
THEOREM NoHandlerLost ==
  ASSUME PlainTcp
  PROVE  Spec => []BusyMeansInUse
<1>1. IInv => BusyMeansInUse
  <2> SUFFICES ASSUME IInv, NEW h \in Handlers, handler[h].busy
               PROVE  \E c \in Conns : Holds(h, c)
    BY DEF BusyMeansInUse
  <2>1. Connection(handler[h]) \in Conns
    BY BusyHasConnection DEF IInv, TypeOK
  <2> QED BY <2>1, HoldsConnection
<1> QED BY <1>1, Invariance, PTL
-----------------------------------------------------------------------------
(***************************************************************************)
(* ConnectionPool implements AdmissionControl, for every number of         *)
(* connections, handlers and messages, without SSL and with descriptors    *)
(* that can be used.  The connections that are served and the handlers     *)
(* that have a connection are equally many; this relates the limit on      *)
(* handlers, which the code checks, to the limit on connections.           *)
(***************************************************************************)

(* The handlers that have a connection. *)
Users == {h \in Handlers : Connection(handler[h]) \in Conns}

(* The invariant: IInv, and the pool keeps to the setting maxThreads. *)
PoolBounded == IInv /\ Cardinality(pool) <= MaxThreads
-----------------------------------------------------------------------------
(* Only the steps that create and delete handlers change the pool. *)
LEMMA PoolChanges ==
  ASSUME Next, pool' # pool
  PROVE  \/ \E h \in Handlers, c \in Conns : CreateHandler(h, c)
         \/ \E h \in Handlers : pool' = pool \ {h}
<1>1. CASE ListenerStep
  BY <1>1 DEF ListenerStep, Listen, IncomingConnection, UseFreeHandler, Reject, Cleanup,
              CloseListener, DeleteNextHandler, PoolDestroyed
<1>2. CASE \E h \in Handlers : HandlerStep(h)
  <2>1. PICK h \in Handlers : HandlerStep(h)
    BY <1>2
  <2>2. CASE ThreadExit(h)
    BY <2>2 DEF ThreadExit
  <2>3. CASE ~ ThreadExit(h)
    BY <2>1, <2>3 DEF HandlerStep, HandleConnection, Encrypted, Upgrade, RefuseUpgrade,
         StartReadHttp, ReadRequest, LeaveReadHttp, DisconnectedInService, FinishRequest,
         WebSocketData, ReadTimeout, SocketDisconnects
  <2> QED BY <2>2, <2>3
<1>3. CASE ClientStep
  BY <1>3 DEF ClientStep, ClientLeaves, ClientSends
<1> QED BY <1>1, <1>2, <1>3 DEF Next

LEMMA PoolFinite ==
  ASSUME IInv
  PROVE  IsFiniteSet(pool) /\ Cardinality(pool) \in Nat
<1>1. IsFiniteSet(pool)
  BY ConstantsAssumption, FS_Subset DEF IInv, TypeOK
<1> QED BY <1>1, FS_CardinalityType

(* The pool never outgrows maxThreads. *)
LEMMA PoolBoundInvariance == Spec => []PoolBounded
<1>1. Init => PoolBounded
  BY InitEstablishes, FS_EmptySet, ConstantsAssumption DEF Init, PoolBounded
<1>2. PoolBounded /\ [Next]_vars => PoolBounded'
  <2> SUFFICES ASSUME PoolBounded, [Next]_vars
               PROVE  Cardinality(pool') <= MaxThreads
    BY NextPreserves DEF PoolBounded
  <2>1. CASE pool' = pool
    BY <2>1 DEF PoolBounded
  <2>2. CASE pool' # pool
    <3>1. IsFiniteSet(pool) /\ Cardinality(pool) \in Nat /\ MaxThreads \in Nat
      BY PoolFinite, ConstantsAssumption DEF PoolBounded
    <3>2. \/ \E h \in Handlers, c \in Conns : CreateHandler(h, c)
          \/ \E h \in Handlers : pool' = pool \ {h}
      BY <2>2, PoolChanges DEF vars
    <3>3. CASE \E h \in Handlers, c \in Conns : CreateHandler(h, c)
      <4>1. PICK h \in Handlers : pool' = pool \cup {h} /\ PoolHasRoom
        BY <3>3 DEF CreateHandler
      <4> QED BY <3>1, <4>1, FS_AddElement DEF PoolHasRoom
    <3>4. CASE \E h \in Handlers : pool' = pool \ {h}
      <4>1. PICK h \in Handlers : pool' = pool \ {h}
        BY <3>4
      <4> QED BY <3>1, <4>1, FS_RemoveElement DEF PoolBounded
    <3> QED BY <3>2, <3>3, <3>4
  <2> QED BY <2>1, <2>2
<1> QED BY <1>1, <1>2, PTL DEF Spec
-----------------------------------------------------------------------------
(***************************************************************************)
(* The connections served and the handlers that have one.                  *)
(***************************************************************************)

LEMMA ServedAreAccepted ==
  ASSUME IInv
  PROVE  Admission!Served = {c \in Conns : status[c] = "accepted"}
<1> SUFFICES ASSUME NEW c \in Conns
             PROVE  phase[c] = "served" <=> status[c] = "accepted"
  BY DEF Admission!Served
<1>1. /\ status[c] = "accepted" => phase[c] = "served"
      /\ status[c] \in {"done", "lost"} => phase[c] = "gone"
      /\ status[c] \in {"new", "rejected"} => phase[c] = status[c]
  BY DEF phase
<1> QED BY <1>1 DEF IInv, TypeOK

(* The two modules speak of the same cardinality. *)
LEMMA SameCardinality ==
  ASSUME NEW S
  PROVE  Admission!Cardinality(S) = Cardinality(S)
BY DEF Admission!Cardinality, Cardinality

LEMMA UsersServed ==
  ASSUME IInv
  PROVE  /\ IsFiniteSet(Users) /\ Users \subseteq pool
         /\ Cardinality(Admission!Served) = Cardinality(Users)
         /\ Cardinality(Users) \in Nat
<1> DEFINE f == [h \in Users |-> Connection(handler[h])]
           S == Admission!Served
<1>1. S = {c \in Conns : status[c] = "accepted"}
  BY ServedAreAccepted
<1> HIDE DEF S
<1>2. f \in [Users -> S]
  BY <1>1 DEF Users, IInv, OwnersFit
<1>3. \A g, h \in Users : f[g] = f[h] => g = h
  BY DEF Users, IInv, OwnersFit
<1>4. \A c \in S : \E h \in Users : f[h] = c
  BY <1>1 DEF Users, IInv, OwnersFit
<1>5. ExistsBijection(Users, S)
  BY <1>2, <1>3, <1>4, Zenon DEF ExistsBijection, Bijection, Injection, IsInjective, Surjection
<1>6. Users \subseteq pool
  BY ConstructedFits, ConstantsAssumption DEF Users, IInv, PoolFits
<1>7. IsFiniteSet(Users)
  BY <1>6, PoolFinite, FS_Subset
<1> QED BY <1>5, <1>6, <1>7, FS_Bijection, FS_CardinalityType DEF S

(* While a handler is idle, or there is room for one more, there is room to serve. *)
LEMMA RoomToServe ==
  ASSUME PoolBounded, IdleHandlers # {} \/ PoolHasRoom
  PROVE  Cardinality(Admission!Served) < MaxThreads
<1>1. /\ IsFiniteSet(pool) /\ Cardinality(pool) \in Nat /\ MaxThreads \in Nat
      /\ Users \subseteq pool /\ Cardinality(Users) \in Nat
      /\ Cardinality(Admission!Served) = Cardinality(Users)
      /\ Cardinality(pool) <= MaxThreads
  BY PoolFinite, UsersServed, ConstantsAssumption DEF PoolBounded
<1>2. Cardinality(Users) <= Cardinality(pool)
      /\ (Cardinality(Users) = Cardinality(pool) => Users = pool)
  BY <1>1, FS_Subset
<1>3. CASE PoolHasRoom
  BY <1>1, <1>2, <1>3 DEF PoolHasRoom
<1>4. CASE IdleHandlers # {}
  <2>1. PICK h \in pool : ~ handler[h].busy
    BY <1>4 DEF IdleHandlers
  <2>2. h \in Handlers /\ HandlerFits(handler[h]) /\ handler[h].queue \in Seq(Conns)
    BY <2>1 DEF PoolBounded, IInv, TypeOK, HandlerState
  <2>3. Connection(handler[h]) = None
    BY <2>1, <2>2 DEF HandlerFits, SocketFits, Connection
  <2>4. h \notin Users
    BY <2>3, ConstantsAssumption DEF Users
  <2> QED BY <1>1, <1>2, <2>1, <2>4
<1> QED BY <1>3, <1>4

(* In plain TCP, as many connections are served as there are busy handlers. *)
LEMMA NoRoomToServe ==
  ASSUME PlainTcp, PoolBounded, IdleHandlers = {}, ~ PoolHasRoom
  PROVE  Cardinality(Admission!Served) >= MaxThreads
<1>1. pool \subseteq Users
  <2> SUFFICES ASSUME NEW h \in pool
               PROVE  h \in Handlers /\ Connection(handler[h]) \in Conns
    BY DEF Users
  <2>1. /\ h \in Handlers /\ handler[h].busy
        /\ handler[h] \in HandlerState /\ HandlerFits(handler[h])
    BY DEF PoolBounded, IInv, TypeOK, IdleHandlers
  <2> QED BY <2>1, BusyHasConnection
<1>2. Users = pool
  BY <1>1, UsersServed DEF PoolBounded
<1> QED BY <1>2, UsersServed, PoolFinite, ConstantsAssumption DEF PoolBounded, PoolHasRoom
-----------------------------------------------------------------------------
(***************************************************************************)
(* The steps.                                                              *)
(***************************************************************************)

LEMMA PhaseOf ==
  ASSUME IInv, NEW c \in Conns, NEW st, status' = [status EXCEPT ![c] = st]
  PROVE  phase' = [phase EXCEPT ![c] = CASE st = "accepted" -> "served"
                                         [] st \in {"done", "lost"} -> "gone"
                                         [] OTHER -> st]
BY DEF IInv, TypeOK, phase

(* Incoming connections are served, or turned away. *)
LEMMA IncomingConnectionAdmits ==
  ASSUME PlainTcp, PoolBounded, NEW c \in Conns, IncomingConnection(c)
  PROVE  Admission!Accept(c) \/ Admission!TurnAway(c)
<1>1. phase[c] = "new" /\ IInv
  BY DEF IncomingConnection, PoolBounded, phase
<1>2. CASE \E h \in Handlers : UseFreeHandler(h, c) \/ CreateHandler(h, c)
  <2>1. status' = [status EXCEPT ![c] = "accepted"] /\ (IdleHandlers # {} \/ PoolHasRoom)
    BY <1>2 DEF UseFreeHandler, CreateHandler, Assign
  <2>2. phase' = [phase EXCEPT ![c] = "served"]
    BY <1>1, <2>1, PhaseOf
  <2> QED BY <1>1, <2>1, <2>2, RoomToServe, SameCardinality DEF Admission!Accept
<1>3. CASE Reject(c)
  <2>1. /\ status' = [status EXCEPT ![c] = "rejected"]
        /\ IdleHandlers = {} /\ ~ PoolHasRoom
    BY <1>3 DEF Reject
  <2>2. phase' = [phase EXCEPT ![c] = "rejected"]
    BY <1>1, <2>1, PhaseOf
  <2> QED BY <1>1, <2>1, <2>2, NoRoomToServe, SameCardinality DEF Admission!TurnAway
<1> QED BY <1>2, <1>3 DEF IncomingConnection

(* When a handler lets go of its connection, the connection is finished. *)
LEMMA GoneFinishes ==
  ASSUME IInv, NEW h \in Handlers, NEW how \in {"done", "lost"},
         Gone({Connection(handler[h])}, how)
  PROVE  phase' = phase \/ \E c \in Conns : Admission!Finish(c)
<1> DEFINE c == Connection(handler[h])
<1>1. status \in [Conns -> {"new", "accepted", "rejected", "done", "lost"}]
  BY DEF IInv, TypeOK
<1>2. status' = [d \in Conns |-> IF d = c THEN how ELSE status[d]]
  BY DEF Gone
<1>3. CASE c \in Conns
  <2>1. status[c] = "accepted"
    BY <1>3 DEF IInv, OwnersFit
  <2>2. status' = [status EXCEPT ![c] = how]
    BY <1>1, <1>2
  <2> HIDE DEF c
  <2>3. phase' = [phase EXCEPT ![c] = "gone"] /\ phase[c] = "served"
    BY <1>3, <2>1, <2>2, PhaseOf DEF phase
  <2> QED BY <1>3, <2>3 DEF Admission!Finish
<1>4. CASE c \notin Conns
  <2>1. status' = status
    BY <1>1, <1>2, <1>4
  <2> QED BY <2>1 DEF phase
<1> QED BY <1>3, <1>4

(* A handler that goes on keeps its connection or finishes it. *)
LEMMA BecomesFinishes ==
  ASSUME IInv, NEW h \in Handlers, NEW t, NEW unread, Becomes(h, t, unread)
  PROVE  phase' = phase \/ \E c \in Conns : Admission!Finish(c)
<1>1. CASE status' = status
  BY <1>1 DEF phase
<1>2. CASE Gone({handler[h].conn}, "done") /\ handler[h].queue = << >>
  <2>1. Connection(handler[h]) = handler[h].conn
    BY <1>2 DEF Connection
  <2> QED BY <1>2, <2>1, GoneFinishes
<1>3. CASE Gone({handler[h].conn}, "done") /\ handler[h].queue # << >>
  <2>1. handler[h].conn = None /\ None \notin Conns
    BY <1>3, ConstantsAssumption DEF IInv, HandlerFits, SocketFits
  <2>2. status' = status
    BY <1>3, <2>1 DEF Gone, IInv, TypeOK
  <2> QED BY <2>2 DEF phase
<1> QED BY <1>1, <1>2, <1>3 DEF Becomes

LEMMA HandlerStepFinishes ==
  ASSUME PlainTcp, IInv, NEW h \in Handlers, HandlerStep(h)
  PROVE  phase' = phase \/ \E c \in Conns : Admission!Finish(c)
<1>1. CASE HandleConnection(h)
  <2>1. status' = status
    BY <1>1 DEF HandleConnection, PlainTcp
  <2> QED BY <2>1 DEF phase
<1>2. CASE ThreadExit(h)
  <2>1. \E how \in {"done", "lost"} : Gone({Connection(handler[h])}, how)
    BY <1>2 DEF ThreadExit, Connection
  <2> QED BY <2>1, GoneFinishes
<1>3. CASE ~ HandleConnection(h) /\ ~ ThreadExit(h)
  <2>1. \E t, unread : Becomes(h, t, unread)
    BY <1>3 DEF HandlerStep, Encrypted, Upgrade, RefuseUpgrade,
         StartReadHttp, ReadRequest, LeaveReadHttp, DisconnectedInService, FinishRequest,
         WebSocketData, ReadTimeout, SocketDisconnects, Moves, Reads
  <2> QED BY <2>1, BecomesFinishes
<1> QED BY <1>1, <1>2, <1>3

(* Every step of the pool is a step of the admission control, or none. *)
LEMMA StepImplements ==
  ASSUME PlainTcp
  PROVE  PoolBounded /\ [Next]_vars => [Admission!Next]_phase
<1> SUFFICES ASSUME PoolBounded, [Next]_vars
             PROVE  phase' = phase \/ Admission!Next
  OBVIOUS
<1>1. CASE \E c \in Conns : IncomingConnection(c)
  BY <1>1, IncomingConnectionAdmits DEF Admission!Next
<1>2. CASE ListenerStep /\ ~ \E c \in Conns : IncomingConnection(c)
  <2>1. status' = status
    BY <1>2 DEF ListenerStep, Listen, Cleanup, CloseListener, DeleteNextHandler, PoolDestroyed
  <2> QED BY <2>1 DEF phase
<1>3. CASE \E h \in Handlers : HandlerStep(h)
  BY <1>3, HandlerStepFinishes DEF PoolBounded, Admission!Next
<1>4. CASE ClientStep \/ UNCHANGED vars
  <2>1. status' = status
    BY <1>4 DEF ClientStep, ClientLeaves, ClientSends, vars
  <2> QED BY <2>1 DEF phase
<1> QED BY <1>1, <1>2, <1>3, <1>4 DEF Next

(***************************************************************************)
(* In plain TCP, listener, pool and handlers together are an admission     *)
(* control: at most maxThreads connections are served, and one is turned   *)
(* away only while that many are, in every interleaving of the threads.    *)
(***************************************************************************)
THEOREM PoolIsAdmissionControl ==
  ASSUME PlainTcp
  PROVE  Spec => ImplementsAdmission
<1>1. Init => Admission!Init
  BY DEF Init, Admission!Init, phase
<1>2. PoolBounded /\ [Next]_vars => [Admission!Next]_phase
  BY StepImplements
<1> QED BY <1>1, <1>2, PoolBoundInvariance, PTL DEF Spec, ImplementsAdmission, Admission!Spec
=============================================================================
