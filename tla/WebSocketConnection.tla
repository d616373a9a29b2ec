------------------------- MODULE WebSocketConnection -------------------------
(***************************************************************************)
(* QWebSocketPrivate and QWebSocketDataProcessor after the handshake: the  *)
(* two ends of a connection.  Each has a thread with an event loop; data   *)
(* that arrives queues a call of processData, which reads frame after      *)
(* frame and blocks in waitForReadyRead while a frame is incomplete.  The  *)
(* signals of the web socket call slots of the application directly, and   *)
(* these may call the web socket again.                                    *)
(*                                                                         *)
(* The client may be foreign, that is, not a QWebSocket: then it writes a  *)
(* script of units and closes whenever it likes.  TCP keeps the order of   *)
(* what is written, and may lose the rest when the connection breaks.      *)
(***************************************************************************)
EXTENDS WebSocketFrame

CONSTANTS
  Messages,    \* messages of an application: [binary, data]
  PingLoads,   \* payloads of pings
  CloseCalls,  \* of each end, the arguments of its close(): [code, reason]
  MaskKeys,    \* what nextMask() returns
  Scripts,     \* of foreign clients: the units and the messages that they hold
  WritesLast,  \* whether slots of aboutToClose() write what they have left
  MaxCalls     \* bound: messages and pings that both ends send

Ends == {"client", "server"}
Peer(e) == IF e = "client" THEN "server" ELSE "client"

ASSUME MessagesAssumption ==
  /\ \A m \in Messages : /\ m = [binary |-> m.binary, data |-> m.data]
                         /\ m.binary \in BOOLEAN /\ m.data \in Seq(ToSet(m.data))
  /\ \A p \in PingLoads : p \in Seq(ToSet(p))
  /\ \A e \in Ends : CloseCalls[e].reason \in Seq(ToSet(CloseCalls[e].reason))

VARIABLES
  foreign,     \* the client is not a QWebSocket
  wire,        \* units that an end has written and its peer has not received
  broken,      \* the connection broke: nothing more arrives
  buffer,      \* the read buffer of m_pSocket
  socket,      \* the state of m_pSocket
  opened,      \* m_pSocket is open for reading and writing
  queued,      \* a call of processData is queued
  state,       \* m_socketState
  sent,        \* m_isClosingHandshakeSent
  about,       \* close() has emitted aboutToClose(), and the slots run
  closeCode,   \* m_closeCode
  reader,      \* where processData is and the frame that it is reading
  processor,   \* m_dataProcessor
  log          \* history of every end

connectionVars == <<foreign, wire, broken, buffer, socket, opened, queued, state, sent,
                    about, closeCode, reader, processor, log>>

NewProcessor == [fragmented |-> FALSE, opCode |-> OpClose, text |-> << >>,
                 binary |-> << >>, carry |-> << >>]

(* intended: the messages sent; delivered: the messages of the signals;    *)
(* pings and pongs: their payloads; late: something was written after the  *)
(* close frame; disconnected: how often that signal was emitted.           *)
NewLog == [intended |-> << >>, delivered |-> << >>, pings |-> << >>, pongs |-> << >>,
           late |-> FALSE, disconnected |-> 0]

Idle == [NewFrame EXCEPT !.at = "idle"]

ConnectionInit ==
  /\ broken = FALSE
  /\ buffer = [e \in Ends |-> << >>]
  /\ socket = [e \in Ends |-> "connected"]
  /\ opened = [e \in Ends |-> TRUE]
  /\ queued = [e \in Ends |-> FALSE]
  /\ state = [e \in Ends |-> "connected"]
  /\ sent = [e \in Ends |-> FALSE]
  /\ about = [e \in Ends |-> FALSE]
  /\ closeCode = [e \in Ends |-> "normal"]
  /\ reader = [e \in Ends |-> Idle]
  /\ processor = [e \in Ends |-> NewProcessor]
  /\ \/ /\ foreign = FALSE
        /\ wire = [e \in Ends |-> << >>]
        /\ log = [e \in Ends |-> NewLog]
     \/ /\ foreign = TRUE
        /\ \E s \in Scripts :
             /\ wire = [client |-> s.units, server |-> << >>]
             /\ log = [client |-> [NewLog EXCEPT !.intended = s.messages], server |-> NewLog]
-----------------------------------------------------------------------------
Ours(e) == e = "server" \/ ~ foreign
Reading(e) == ~ about[e] /\ reader[e].at \in {"header", "length", "mask", "payload"}
InSlot(e) == ~ about[e] /\ reader[e].at \in {"slot", "last slot"}

(* The thread of e is in its event loop. *)
InLoop(e) == Ours(e) /\ ~ about[e] /\ reader[e].at = "idle"
(* It is blocked in waitForReadyRead. *)
Blocked(e) == Reading(e) /\ buffer[e] = << >>
(* It runs application code, which may write. *)
MayCall(e) == InLoop(e) \/ InSlot(e)
MayWrite(e) == MayCall(e) \/ (WritesLast /\ about[e])

(* The client masks what it writes, the server does not. *)
KeysOf(e) == IF e = "client" THEN MaskKeys ELSE {0}

Writable(e) == opened[e] /\ socket[e] = "connected"
Written(e, units) ==
  IF Writable(e) /\ ~ broken THEN [wire EXCEPT ![e] = @ \o units] ELSE wire
LogWrite(e) == [log[e] EXCEPT !.late = @ \/ (Writable(e) /\ sent[e])]

(* Calls so far, for the bound. *)
CallsOf(e) == Len(log[e].pings) + (IF Ours(e) THEN Len(log[e].intended) ELSE 0)
CanCall == CallsOf("client") + CallsOf("server") < MaxCalls

(* sendTextMessage and sendBinaryMessage: doWriteFrames. *)
Send(e) ==
  /\ MayWrite(e)
  /\ CanCall
  /\ state[e] = "connected"
  /\ \E m \in Messages :
       /\ \E keys \in [1 .. numFrames(m.data) -> KeysOf(e)] :
            wire' = Written(e, Frames(m.data, m.binary, keys))
       /\ log' = [log EXCEPT ![e] = [LogWrite(e) EXCEPT !.intended = Append(@, m)]]
  /\ UNCHANGED <<foreign, broken, buffer, socket, opened, queued, state, sent, about, closeCode,
                 reader, processor>>

(* ping() clips its payload; it does not look at the state. *)
Ping(e) ==
  /\ MayWrite(e)
  /\ CanCall
  /\ \E p \in PingLoads, key \in KeysOf(e) :
       LET clipped == IF Len(p) > Short THEN SubSeq(p, 1, Short) ELSE p IN
       /\ wire' = Written(e, Frame(OpPing, clipped, key, TRUE))
       /\ log' = [log EXCEPT ![e] = [LogWrite(e) EXCEPT !.pings = Append(@, clipped)]]
  /\ UNCHANGED <<foreign, broken, buffer, socket, opened, queued, state, sent, about, closeCode,
                 reader, processor>>

\* Mutant: the state follows the socket only after close().
StateAfterClosing(e) == [state EXCEPT ![e] = IF @ = "closing" THEN "unconnected" ELSE @]

(* processStateChanged when the socket becomes unconnected. *)
StateAfterUnconnected(e) == [state EXCEPT ![e] = "unconnected"]
LogUnconnected(e) ==
  [log EXCEPT ![e].disconnected = IF state[e] = "unconnected" THEN @ ELSE @ + 1]

(* m_pSocket->close() discards what was not read, and disconnects when     *)
(* everything is written.                                                  *)
CloseSocket(e) ==
  /\ opened' = [opened EXCEPT ![e] = FALSE]
  /\ buffer' = [buffer EXCEPT ![e] = << >>]
  /\ socket' = [socket EXCEPT ![e] = IF @ = "connected" THEN "closing" ELSE @]
  /\ state' = [state EXCEPT ![e] =
                 IF socket[e] = "connected" /\ @ = "connected" THEN "closing" ELSE @]

(***************************************************************************)
(* QWebSocketPrivate::close: the close frame is written before the slots   *)
(* of aboutToClose() are called, and the socket closed when they return.   *)
(***************************************************************************)
close(e, code, reason, key) ==
  IF sent[e]
  THEN CloseSocket(e) /\ UNCHANGED <<wire, log, sent, about, closeCode>>
  ELSE /\ wire' = Written(e, CloseFrame(code, reason, key))
       /\ log' = [log EXCEPT ![e] = LogWrite(e)]
       /\ sent' = [sent EXCEPT ![e] = TRUE]
       /\ about' = [about EXCEPT ![e] = TRUE]
       /\ closeCode' = [closeCode EXCEPT ![e] = code]
       /\ UNCHANGED <<opened, buffer, socket, state>>

\* Mutant: the socket stays open until the close frame of the peer arrives.
FinishCloseWhenAnswered(e) ==
  /\ about[e]
  /\ about' = [about EXCEPT ![e] = FALSE]
  /\ UNCHANGED <<foreign, wire, broken, queued, sent, closeCode, reader, processor, log,
                 opened, buffer, socket, state>>

(* The slots of aboutToClose() have returned. *)
FinishClose(e) ==
  /\ about[e]
  /\ about' = [about EXCEPT ![e] = FALSE]
  /\ CloseSocket(e)
  /\ UNCHANGED <<foreign, wire, broken, queued, sent, closeCode, reader, processor, log>>

(* The application closes the web socket. *)
Close(e) ==
  /\ MayCall(e)
  /\ ~ sent[e]
  /\ \E key \in KeysOf(e) : close(e, CloseCalls[e].code, CloseCalls[e].reason, key)
  /\ UNCHANGED <<foreign, broken, queued, reader, processor>>

(* What was written and has not arrived is lost.  A part that still        *)
(* arrives is one that arrived before.                                     *)
Lost(e) == [wire EXCEPT ![e] = << >>]

(* The application aborts the connection. *)
Abort(e) ==
  /\ MayCall(e)
  /\ socket[e] # "unconnected"
  /\ wire' = Lost(e)
  /\ opened' = [opened EXCEPT ![e] = FALSE]
  /\ buffer' = [buffer EXCEPT ![e] = << >>]
  /\ socket' = [socket EXCEPT ![e] = "unconnected"]
  /\ state' = StateAfterUnconnected(e)
  /\ log' = LogUnconnected(e)
  /\ UNCHANGED <<foreign, broken, queued, sent, about, closeCode, reader, processor>>
-----------------------------------------------------------------------------
(* A unit arrives, in the event loop or in waitForReadyRead.  A socket     *)
(* that was closed discards it.                                            *)
Arrive(e) ==
  /\ InLoop(e) \/ Blocked(e)
  /\ wire[Peer(e)] # << >>
  /\ wire' = [wire EXCEPT ![Peer(e)] = Tail(@)]
  /\ IF Writable(e)
     THEN /\ buffer' = [buffer EXCEPT ![e] = Append(@, Head(wire[Peer(e)]))]
          /\ queued' = [queued EXCEPT ![e] = TRUE]
     ELSE UNCHANGED <<buffer, queued>>
  /\ UNCHANGED <<foreign, broken, socket, opened, state, sent, about, closeCode, reader,
                 processor, log>>

(* The socket has written everything and disconnects. *)
Disconnect(e) ==
  /\ InLoop(e) \/ Blocked(e)
  /\ socket[e] = "closing"
  /\ socket' = [socket EXCEPT ![e] = "unconnected"]
  /\ state' = StateAfterUnconnected(e)
  /\ log' = LogUnconnected(e)
  /\ UNCHANGED <<foreign, wire, broken, buffer, opened, queued, sent, about, closeCode, reader,
                 processor>>

(* The socket finds that the peer has closed: after all data, and not      *)
(* before the calls that are queued.  What it has read stays in its        *)
(* buffer.                                                                 *)
RemoteClosed(e) ==
  /\ (InLoop(e) /\ ~ queued[e]) \/ Blocked(e)
  /\ socket[e] # "unconnected"
  /\ wire[Peer(e)] = << >>
  /\ broken \/ socket[Peer(e)] = "unconnected"
  /\ socket' = [socket EXCEPT ![e] = "unconnected"]
  /\ state' = StateAfterUnconnected(e)
  /\ log' = LogUnconnected(e)
  /\ UNCHANGED <<foreign, wire, broken, buffer, opened, queued, sent, about, closeCode, reader,
                 processor>>

(* The connection breaks, and loses what has not arrived. *)
Break ==
  /\ ~ broken
  /\ broken' = TRUE
  /\ wire' = [e \in Ends |-> << >>]
  /\ UNCHANGED <<foreign, buffer, socket, opened, queued, state, sent, about, closeCode, reader,
                 processor, log>>

(* A foreign client closes its socket. *)
ForeignCloses ==
  /\ foreign
  /\ socket["client"] = "connected"
  /\ socket' = [socket EXCEPT !["client"] = "unconnected"]
  /\ UNCHANGED <<foreign, wire, broken, buffer, opened, queued, state, sent, about, closeCode,
                 reader, processor, log>>
-----------------------------------------------------------------------------
(* processData and the loop of process: the next frame, or the end. *)
NextFrame(data) == IF data = << >> THEN Idle ELSE NewFrame

ProcessData(e) ==
  /\ InLoop(e)
  /\ queued[e]
  /\ queued' = [queued EXCEPT ![e] = FALSE]
  /\ reader' = [reader EXCEPT ![e] = NextFrame(buffer[e])]
  /\ UNCHANGED <<foreign, wire, broken, buffer, socket, opened, state, sent, about, closeCode,
                 processor, log>>

Read(e) ==
  /\ Reading(e)
  /\ buffer[e] # << >>
  /\ reader' = [reader EXCEPT ![e] = ReadUnit(@, Head(buffer[e]))]
  /\ buffer' = [buffer EXCEPT ![e] = Tail(@)]
  /\ UNCHANGED <<foreign, wire, broken, socket, opened, queued, state, sent, about, closeCode,
                 processor, log>>

(* waitForReadyRead fails: after five seconds, or as the socket is closed. *)
ReadFails(e) ==
  /\ Blocked(e)
  /\ reader' = [reader EXCEPT ![e] = setError("goingAway")]
  /\ UNCHANGED <<foreign, wire, broken, buffer, socket, opened, queued, state, sent, about,
                 closeCode, processor, log>>

(* The text of a frame, after the bytes that the converter has kept. *)
TextBytes(p, f) == p.carry \o f.payload
InvalidText(bytes, final) ==
  \/ \E i \in DOMAIN bytes :
       \/ bytes[i] = "trail" /\ (i = 1 \/ bytes[i - 1] # "lead")
       \/ bytes[i] = "lead" /\ i < Len(bytes) /\ bytes[i + 1] # "trail"
  \/ final /\ bytes # << >> /\ Last(bytes) = "lead"
Kept(bytes) == IF bytes # << >> /\ Last(bytes) = "lead" THEN <<"lead">> ELSE << >>
Complete(bytes) == SubSeq(bytes, 1, Len(bytes) - Len(Kept(bytes)))

OpCodeOf(p, f) == IF f.opCode = OpContinue THEN p.opCode ELSE f.opCode

(* The length of what is collected: characters of a text, or bytes. *)
messageLength(p, opCode) ==
  IF opCode = OpText THEN Len(SelectSeq(p.text, LAMBDA b : b # "trail")) ELSE Len(p.binary)

\* Mutant: a message may begin while another is incomplete.
DataErrorUnlessNew(p, f) ==
  IF ~ p.fragmented /\ f.opCode = OpContinue THEN "protocolError"
  ELSE IF messageLength(p, OpCodeOf(p, f)) + Len(f.payload) > MaxMessage THEN "tooMuchData"
  ELSE IF OpCodeOf(p, f) = OpText /\ InvalidText(TextBytes(p, f), f.final)
  THEN "wrongDatatype"
  ELSE "none"

DataError(p, f) ==
  IF p.fragmented # (f.opCode = OpContinue) THEN "protocolError"
  ELSE IF messageLength(p, OpCodeOf(p, f)) + Len(f.payload) > MaxMessage THEN "tooMuchData"
  ELSE IF OpCodeOf(p, f) = OpText /\ InvalidText(TextBytes(p, f), f.final)
  THEN "wrongDatatype"
  ELSE "none"

(* The processor with a data frame added. *)
Collected(p, f) ==
  LET opCode == OpCodeOf(p, f)
      bytes == TextBytes(p, f)
  IN [fragmented |-> IF f.opCode = OpContinue THEN p.fragmented ELSE ~ f.final,
      opCode |-> opCode,
      text |-> IF opCode = OpText THEN p.text \o Complete(bytes) ELSE p.text,
      binary |-> IF opCode = OpText THEN p.binary ELSE p.binary \o f.payload,
      carry |-> IF opCode = OpText THEN Kept(bytes) ELSE p.carry]

(* An invalid frame, or a data frame that does not fit: the connection is  *)
(* closed, and what was collected is dropped.                              *)
DispatchError(e) ==
  /\ reader[e].at = "dispatch"
  /\ LET f == reader[e]
         error == IF f.error # "none" THEN f.error
                  ELSE IF isControlFrame(f.opCode) THEN "none"
                  ELSE DataError(processor[e], f)
     IN /\ error # "none"
        /\ \E key \in KeysOf(e) : close(e, error, << >>, key)
  /\ processor' = [processor EXCEPT ![e] = NewProcessor]
  /\ reader' = [reader EXCEPT ![e] = Idle]
  /\ UNCHANGED <<foreign, broken, queued>>

(* processPing answers a ping in whatever state the web socket is. *)
DispatchPing(e) ==
  /\ reader[e].at = "dispatch" /\ reader[e].error = "none" /\ reader[e].opCode = OpPing
  /\ \E key \in KeysOf(e) : wire' = Written(e, Frame(OpPong, reader[e].payload, key, TRUE))
  /\ log' = [log EXCEPT ![e] = LogWrite(e)]
  /\ reader' = [reader EXCEPT ![e] = NextFrame(buffer[e])]
  /\ UNCHANGED <<foreign, broken, buffer, socket, opened, queued, state, sent, about,
                 closeCode, processor>>

DispatchPong(e) ==
  /\ reader[e].at = "dispatch" /\ reader[e].error = "none" /\ reader[e].opCode = OpPong
  /\ log' = [log EXCEPT ![e].pongs = Append(@, reader[e].payload)]
  /\ reader' = [reader EXCEPT ![e].at = "last slot"]
  /\ UNCHANGED <<foreign, wire, broken, buffer, socket, opened, queued, state, sent, about,
                 closeCode, processor>>

(* The code that a close frame carries, and processClose: the same code    *)
(* goes back, unless a close frame was sent already.                       *)
ReceivedCode(payload) ==
  IF payload = << >> THEN "normal"
  ELSE IF Len(payload) = 1 \/ ~ isCloseCodeValid(payload[2]) THEN "protocolError"
  ELSE IF InvalidText(SubSeq(payload, 3, Len(payload)), TRUE) THEN "wrongDatatype"
  ELSE payload[2]

DispatchClose(e) ==
  /\ reader[e].at = "dispatch" /\ reader[e].error = "none" /\ reader[e].opCode = OpClose
  /\ LET code == ReceivedCode(reader[e].payload)
         reason == IF Len(reader[e].payload) > 2 /\ code = reader[e].payload[2]
                   THEN SubSeq(reader[e].payload, 3, Len(reader[e].payload)) ELSE << >>
     IN \E key \in KeysOf(e) : close(e, code, reason, key)
  /\ reader' = [reader EXCEPT ![e] = Idle]
  /\ UNCHANGED <<foreign, broken, queued, processor>>

(* A data frame that fits is signalled; after the last the message is. *)
DispatchData(e) ==
  /\ reader[e].at = "dispatch" /\ reader[e].error = "none"
  /\ ~ isControlFrame(reader[e].opCode)
  /\ DataError(processor[e], reader[e]) = "none"
  /\ LET f == reader[e]
         p == Collected(processor[e], f)
         message == [binary |-> p.opCode # OpText,
                     data |-> IF p.opCode = OpText THEN p.text ELSE p.binary]
     IN /\ processor' = [processor EXCEPT ![e] = IF f.final THEN NewProcessor ELSE p]
        /\ log' = [log EXCEPT ![e].delivered = IF f.final THEN Append(@, message) ELSE @]
        /\ reader' = [reader EXCEPT ![e].at = IF f.final THEN "last slot" ELSE "slot"]
  /\ UNCHANGED <<foreign, wire, broken, buffer, socket, opened, queued, state, sent, about,
                 closeCode>>

(* The slots of the application return; a message that is not complete     *)
(* makes process read on.                                                  *)
SlotReturns(e) ==
  /\ InSlot(e)
  /\ reader' = [reader EXCEPT ![e] =
                  IF @.at = "slot" THEN NewFrame ELSE NextFrame(buffer[e])]
  /\ UNCHANGED <<foreign, wire, broken, buffer, socket, opened, queued, state, sent, about,
                 closeCode, processor, log>>
-----------------------------------------------------------------------------
Dispatch(e) ==
  DispatchError(e) \/ DispatchPing(e) \/ DispatchPong(e) \/ DispatchClose(e) \/ DispatchData(e)

(* What happens to e without its application: the thread runs, what was    *)
(* sent is delivered, and waitForReadyRead ends after five seconds.        *)
Run(e) ==
  \/ Arrive(e) \/ Disconnect(e) \/ RemoteClosed(e)
  \/ ProcessData(e) \/ Read(e) \/ ReadFails(e) \/ Dispatch(e)
  \/ SlotReturns(e) \/ FinishClose(e)

ConnectionNext ==
  \/ \E e \in Ends : Send(e) \/ Ping(e) \/ Close(e) \/ Abort(e) \/ Run(e)
  \/ Break
  \/ ForeignCloses

(* An end is not stopped for ever; the slots of its application return,    *)
(* and the other end's system takes what is written.                       *)
ConnectionSpec == ConnectionInit /\ [][ConnectionNext]_connectionVars
ConnectionFairness == \A e \in Ends : WF_connectionVars(Run(e))
-----------------------------------------------------------------------------
(* What an end signals are the messages that its peer sent, whole and in   *)
(* order, though they travel in frames with control frames between them,   *)
(* the application calls the web socket from its slots, and the            *)
(* connection may break at any unit; and the pongs answer the pings.  Of   *)
(* a foreign client, nothing is signalled after the first frame that       *)
(* violates the protocol.                                                  *)
FramesReassembled ==
  \A e \in Ends :
    /\ IsPrefix(log[e].delivered, log[Peer(e)].intended)
    /\ foreign \/ IsPrefix(log[e].pongs, log[e].pings)

(* The close frame is the last thing that an end writes, whoever closes    *)
(* first and whatever it still reads, and disconnected() is emitted once.  *)
CloseFrameIsLast ==
  \A e \in Ends : ~ log[e].late /\ log[e].disconnected <= 1

(* qwebsocket.cpp:119 tells applications to connect to aboutToClose() if   *)
(* they have data to write before the socket closes.  What their slots     *)
(* write must come before the close frame, as the peer drops what follows. *)
LastDataPrecedesClose == \A e \in Ends : ~ log[e].late

(* After close() both ends become disconnected, even when frames remain    *)
(* incomplete.                                                             *)
BothEndsDisconnect ==
  (\E e \in Ends : sent[e]) ~> (\A e \in Ends : Ours(e) => state[e] = "unconnected")
=============================================================================
