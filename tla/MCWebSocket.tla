---------------------------- MODULE MCWebSocket ----------------------------
(***************************************************************************)
(* Web sockets.  A behaviour is that of one of two parts: connections that *)
(* do the handshake with a server, or with a foreign one; a connection of  *)
(* two QWebSockets or of one and a foreign client, after the handshake.    *)
(***************************************************************************)
EXTENDS WebSocketConnection, WebSocketHandshake

Text(data) == [binary |-> FALSE, data |-> data]
Binary(data) == [binary |-> TRUE, data |-> data]
SmallMessages == {Text(<<"lead", "trail">>)}
SmallPings == {<<"p", "q", "r", "s">>}
SmallCloses ==
  [client |-> [code |-> "normal", reason |-> << >>],
   server |-> [code |-> "private", reason |-> <<"why">>]]

(* Foreign clients. *)
Whole(opCode, data) == Frame(opCode, data, 1, TRUE)
Part(opCode, data) == Frame(opCode, data, 1, FALSE)
Header(final, rsv, opCode, length) ==
  <<[unit |-> "header", final |-> final, rsv |-> rsv, opCode |-> opCode,
     length |-> length, hasMask |-> FALSE]>>
Legal == Whole(OpText, <<"a">>)
Data(data) == <<[unit |-> "payload", data |-> data, key |-> 0]>>
Length(n) == <<[unit |-> "length", size |-> n]>>

Ending(units, messages) == [units |-> units, messages |-> messages]

SmallScripts ==
  {Ending(Frames(<<"a", "lead", "trail">>, FALSE, [f \in 1 .. 2 |-> 1]),
          <<Text(<<"a", "lead", "trail">>)>>),
   Ending(Part(OpText, <<"a", "lead">>) \o Whole(OpPing, <<"p">>)
            \o Part(OpContinue, <<"trail">>) \o Whole(OpContinue, << >>)
            \o CloseFrame("normal", << >>, 1),
          <<Text(<<"a", "lead", "trail">>)>>),
   Ending(Part(OpBinary, <<"a">>) \o Legal, << >>),
   Ending(Legal \o Whole(OpContinue, <<"a">>), <<Text(<<"a">>)>>),
   Ending(Legal \o Header(TRUE, TRUE, OpText, 0) \o Legal, <<Text(<<"a">>)>>),
   Ending(Header(TRUE, FALSE, 11, 0) \o Legal, << >>),
   Ending(Part(OpText, <<"a">>) \o Header(FALSE, FALSE, OpPing, 0)
            \o Whole(OpContinue, <<"b">>), << >>),
   Ending(Header(TRUE, FALSE, OpPong, Extended) \o Length(4) \o Legal, << >>),
   Ending(Header(TRUE, FALSE, OpText, Extended) \o Length(3) \o Data(<<"a", "b", "c">>), << >>),
   Ending(Header(TRUE, FALSE, OpText, Big) \o Length(TopBit) \o Legal, << >>),
   Ending(Header(TRUE, FALSE, OpText, Big) \o Length(6) \o Legal, << >>),
   Ending(Header(TRUE, FALSE, OpBinary, Big) \o Length(5) \o Data(<<"a", "b", "c", "d", "e">>),
          <<Binary(<<"a", "b", "c", "d", "e">>)>>),
   Ending(Part(OpBinary, <<"a", "b", "c", "d">>) \o Part(OpContinue, <<"a", "b">>)
            \o Whole(OpContinue, <<"a">>), << >>),
   Ending(Part(OpText, <<"lead">>) \o Whole(OpContinue, <<"b">>), << >>),
   Ending(Whole(OpText, <<"lead">>) \o Legal, << >>),
   Ending(Whole(OpClose, <<"x">>) \o Legal, << >>),
   Ending(CloseFrame("missing", << >>, 1) \o Legal, << >>)}

Request(h) == <<"GET 1.1", "Host", "Upgrade">> \o h \o <<"Empty">>
SmallRequests ==
  {Request(<<"Key", "Connection list", "Version8", "Version13">>),
   Request(<<"Key", "Connection", "Version8">>),
   Request(<<"Key", "Connection", "Version13", "Cookie", "Cookie">>)}

Refusal == <<"400", "Version13", "Upgrade", "Connection", "Empty">>
Response(h) == <<"101", "Upgrade", "Connection">> \o h \o <<"Empty">>
SmallResponses ==
  {Response(<<"Accept of another key">>),
   Refusal \o <<"101", "Accept", "Empty">>,
   <<"101 of 1.0", "Upgrade", "Empty">> \o Response(<<"Accept">>),
   <<"nothing">> \o Response(<<"Accept">>)}

ConnectionAtRest ==
  /\ foreign = FALSE /\ broken = FALSE
  /\ wire = [e \in Ends |-> << >>] /\ buffer = [e \in Ends |-> << >>]
  /\ socket = [e \in Ends |-> "unconnected"] /\ opened = [e \in Ends |-> FALSE]
  /\ queued = [e \in Ends |-> FALSE] /\ state = [e \in Ends |-> "unconnected"]
  /\ sent = [e \in Ends |-> FALSE] /\ about = [e \in Ends |-> FALSE]
  /\ closeCode = [e \in Ends |-> "normal"] /\ reader = [e \in Ends |-> Idle]
  /\ processor = [e \in Ends |-> NewProcessor] /\ log = [e \in Ends |-> NewLog]

HandshakeAtRest ==
  /\ HandshakeInit
  /\ kind = [c \in Connections |-> "ours"]

(* One of the connections has a foreign program at one of its ends. *)
OneForeign == kind[CHOOSE c \in Connections : TRUE] # "ours"

VARIABLE part

MCInit ==
  \/ part = "connection" /\ ConnectionInit /\ HandshakeAtRest
  \/ part = "handshake" /\ ConnectionAtRest /\ HandshakeInit /\ OneForeign

MCNext ==
  /\ UNCHANGED part
  /\ \/ part = "connection" /\ ConnectionNext /\ UNCHANGED handshakeVars
     \/ part = "handshake" /\ HandshakeNext /\ UNCHANGED connectionVars

MCSpec == MCInit /\ [][MCNext]_<<part, connectionVars, handshakeVars>> /\ ConnectionFairness
=============================================================================
