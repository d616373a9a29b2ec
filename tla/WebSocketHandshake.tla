------------------------- MODULE WebSocketHandshake -------------------------
(***************************************************************************)
(* How web sockets come to be: QWebSocket::open and processHandshake on    *)
(* the client, QWebSocketServer, QWebSocketHandshakeRequest and -Response  *)
(* on the server.                                                          *)
(*                                                                         *)
(* A connection joins a QWebSocket with our server, or one of them with a  *)
(* foreign program.  A QWebSocket that is opened again has another         *)
(* connection, and what it remembers of the handshake moves there.  A line *)
(* of a request or a response is a word that says what it holds.           *)
(***************************************************************************)
EXTENDS Naturals, Sequences, SequencesExt

CONSTANTS
  Connections,
  Requests,      \* what foreign clients write: sequences of lines
  Responses,     \* what foreign servers write, one response after the other
  MaxHeaders,    \* MAX_HEADERLINES
  MaxPending,    \* 30, the limit of a new server
  PendingLimits  \* arguments of setMaxPendingConnections

ASSUME HandshakeAssumption ==
  /\ \A r \in Responses : r \in Seq(ToSet(r))
  /\ MaxPending \in Int /\ PendingLimits \subseteq Int

VARIABLES
  kind,        \* of each connection: "ours", "foreign client", "foreign server"
  toServer,    \* lines on their way to the server
  atServer,    \* lines in the read buffer of the server's socket
  toClient,    \* lines that the client has not read
  client,      \* m_socketState of the client's QWebSocket, or "reopened"
  handshake,   \* m_handshakeState
  statusLine,  \* m_statusLine and what was parsed of it
  headers,     \* m_headers, in the order in which they came
  response,    \* history: the lines read on this connection, from a status on
  inherited,   \* history: the handshake goes on where an earlier connection left it
  server,      \* the server's socket of the connection
  pending,     \* m_pendingConnections
  taken,       \* history: web sockets that the application has got
  crowded,     \* history: connections whose place was lost while slots decided on them
  maxPending,  \* m_maxPendingConnections
  listening    \* isListening()

linkVars == <<toServer, atServer, toClient>>
clientVars == <<client, handshake, statusLine, headers, response, inherited>>
serverVars == <<server, pending, taken, crowded, maxPending, listening>>
handshakeVars == <<kind, linkVars, clientVars, serverVars>>

OurClient(c) == kind[c] # "foreign client"
OurServer(c) == kind[c] # "foreign server"

HandshakeInit ==
  /\ kind \in [Connections -> {"ours", "foreign client", "foreign server"}]
  /\ toServer = [c \in Connections |-> << >>]
  /\ atServer = [c \in Connections |-> << >>]
  /\ toClient = [c \in Connections |-> << >>]
  /\ client = [c \in Connections |-> "unconnected"]
  /\ handshake = [c \in Connections |-> "NothingDone"]
  /\ statusLine = [c \in Connections |-> "none"]
  /\ headers = [c \in Connections |-> << >>]
  /\ response = [c \in Connections |-> << >>]
  /\ inherited = [c \in Connections |-> FALSE]
  /\ server = [c \in Connections |-> "none"]
  /\ pending = << >>
  /\ taken = {}
  /\ crowded = {}
  /\ maxPending = MaxPending
  /\ listening = TRUE
-----------------------------------------------------------------------------
(* Has(lines, w): one of the lines is w. *)
Has(lines, w) == \E i \in DOMAIN lines : lines[i] = w
FirstEmpty(lines) == CHOOSE i \in DOMAIN lines :
  lines[i] = "Empty" /\ \A j \in 1 .. i - 1 : lines[j] # "Empty"
HeadersOf(lines) == SubSeq(lines, 2, FirstEmpty(lines) - 1)

(* createHandShakeRequest. *)
createHandShakeRequest ==
  <<"GET 1.1", "Host", "Upgrade", "Connection", "Key", "Version13", "Empty">>

(* readHandshake reads what has arrived and no more: a request whose end   *)
(* has not arrived is not valid.                                           *)
readHandshake(lines) ==
  /\ lines[1] = "GET 1.1"
  /\ Has(lines, "Empty")
  /\ LET h == HeadersOf(lines) IN
     /\ Len(h) <= MaxHeaders
     /\ ~ Has(h, "no colon") /\ ~ Has(h, "too long") /\ ~ Has(h, "VersionX")
     /\ Has(h, "Host") /\ Has(h, "Key") /\ Has(h, "Upgrade")
     /\ Has(h, "Connection") \/ Has(h, "Connection list")
     /\ Has(h, "Version13") \/ Has(h, "Version8")

canUpgrade(lines) == Has(HeadersOf(lines), "Version13")

(* getHandshakeResponse, when the request is valid. *)
getHandshakeResponse(lines, allowed) ==
  IF ~ allowed THEN <<"403", "Empty">>
  ELSE IF ~ canUpgrade(lines) THEN <<"400", "Version13", "Empty">>
  ELSE <<"101", "Upgrade", "Connection", "Accept", "Server", "Empty">>
-----------------------------------------------------------------------------
(* QWebSocket::open on a QWebSocket that has not been opened before. *)
OpenNew(c) ==
  /\ client' = [client EXCEPT ![c] = "connecting"]
  /\ UNCHANGED <<handshake, statusLine, headers, response, inherited, toClient>>

(* The key is a new one, so that an answer to the old one does not fit. *)
Aged(h) == [i \in DOMAIN h |-> IF h[i] = "Accept" THEN "Accept of another key" ELSE h[i]]

(* QWebSocket::open on the QWebSocket of connection d: the old socket is   *)
(* deleted, and the state of the handshake, the status and the headers     *)
(* stay as they are; they are those of c from now on.                      *)
OpenAgain(c, d) ==
  /\ OurClient(d)
  /\ client[d] # "reopened" /\ (client[d] # "unconnected" \/ server[d] # "none")
  /\ client' = [client EXCEPT ![c] = "connecting", ![d] = "reopened"]
  /\ handshake' = [handshake EXCEPT ![c] = handshake[d], ![d] = "NothingDone"]
  /\ statusLine' = [statusLine EXCEPT ![c] = statusLine[d], ![d] = "none"]
  /\ headers' = [headers EXCEPT ![c] = Aged(headers[d]), ![d] = << >>]
  /\ response' = [response EXCEPT ![c] = << >>, ![d] = << >>]
  /\ inherited' = [inherited EXCEPT ![c] = handshake[d] = "ReadingHeader", ![d] = FALSE]
  /\ toClient' = [toClient EXCEPT ![d] = << >>]

Open(c) ==
  /\ OurClient(c)
  /\ client[c] = "unconnected" /\ server[c] = "none"
  /\ OpenNew(c) \/ \E d \in Connections \ {c} : OpenAgain(c, d)
  /\ UNCHANGED <<kind, toServer, atServer, serverVars>>

(* The TCP connection is made, and the client writes its request.  The     *)
(* server accepts it; a foreign server answers as it likes.                *)
Connected(c) ==
  /\ OurClient(c) => client[c] = "connecting"
  /\ server[c] = "none"
  /\ OurServer(c) => listening
  /\ server' = [server EXCEPT ![c] = "accepted"]
  /\ \E r \in IF OurClient(c) THEN {createHandShakeRequest} ELSE Requests :
       toServer' = [toServer EXCEPT ![c] = IF OurServer(c) THEN r ELSE << >>]
  /\ \E r \in IF OurServer(c) THEN {<< >>} ELSE Responses :
       toClient' = [toClient EXCEPT ![c] = r]
  /\ UNCHANGED <<kind, atServer, clientVars, pending, taken, crowded, maxPending, listening>>

(* The connection is refused: nothing listens. *)
Refused(c) ==
  /\ client[c] = "connecting" /\ server[c] = "none"
  /\ OurServer(c) => ~ listening
  /\ client' = [client EXCEPT ![c] = "unconnected"]
  /\ server' = [server EXCEPT ![c] = "refused"]
  /\ UNCHANGED <<kind, linkVars, handshake, statusLine, headers, response, inherited>>
  /\ UNCHANGED <<pending, taken, crowded, maxPending, listening>>

(* Lines arrive at the server's socket. *)
ArriveAtServer(c) ==
  /\ server[c] = "accepted"
  /\ \E n \in 1 .. Len(toServer[c]) :
       /\ atServer' = [atServer EXCEPT ![c] = @ \o SubSeq(toServer[c], 1, n)]
       /\ toServer' = [toServer EXCEPT ![c] = SubSeq(@, n + 1, Len(@))]
  /\ UNCHANGED <<kind, toClient, clientVars, serverVars>>

\* Mutant: one more than the limit gets to addPendingConnection.
TooManyPendingLate == Len(pending) > maxPending

(* The check of handshakeReceived. *)
TooManyPending == Len(pending) >= maxPending

(* addPendingConnection does not add when the queue is full. *)
addPendingConnection(c) == IF Len(pending) < maxPending THEN Append(pending, c) ELSE pending

(* upgradeFrom: a QWebSocket takes the socket over. *)
upgradeFrom(c) == [server EXCEPT ![c] = "upgraded"]

(* The connections that slots of originAuthenticationRequired decide on. *)
Authenticating == {c \in Connections : server[c] = "authenticating"}

(* handshakeReceived, when a first line has arrived, up to the signal      *)
(* originAuthenticationRequired.                                           *)
CheckHandshake(c) ==
  /\ server[c] = "accepted"
  /\ atServer[c] # << >>
  /\ \/ /\ ~ TooManyPending /\ readHandshake(atServer[c])
        /\ server' = [server EXCEPT ![c] = "authenticating"]
        /\ UNCHANGED <<toServer, atServer>>
     \/ /\ TooManyPending \/ ~ readHandshake(atServer[c])
        /\ server' = [server EXCEPT ![c] = "refused"]
        /\ toServer' = [toServer EXCEPT ![c] = << >>]
        /\ atServer' = [atServer EXCEPT ![c] = << >>]
  /\ UNCHANGED <<kind, toClient, clientVars, pending, taken, crowded, maxPending, listening>>

(* The rest of handshakeReceived.  allowed is what the slots decided; what *)
(* they did to the server, or let happen in an event loop of their own,    *)
(* are the steps in between.                                               *)
AnswerHandshake(c) ==
  /\ c \in Authenticating
  /\ \E allowed \in BOOLEAN :
       LET upgraded == allowed /\ canUpgrade(atServer[c]) IN
       /\ server' = IF upgraded THEN upgradeFrom(c) ELSE [server EXCEPT ![c] = "refused"]
       /\ pending' = IF upgraded THEN addPendingConnection(c) ELSE pending
       /\ crowded' = IF upgraded THEN crowded \cup (Authenticating \ {c}) ELSE crowded
       /\ toClient' = [toClient EXCEPT ![c] =
                         IF client[c] = "connecting"
                         THEN @ \o getHandshakeResponse(atServer[c], allowed) ELSE @]
  /\ atServer' = [atServer EXCEPT ![c] = << >>]
  /\ UNCHANGED <<kind, toServer, clientVars, taken, maxPending, listening>>

nextPendingConnection ==
  /\ pending # << >>
  /\ pending' = Tail(pending)
  /\ taken' = taken \cup {Head(pending)}
  /\ UNCHANGED <<kind, linkVars, clientVars, server, crowded, maxPending, listening>>

setMaxPendingConnections ==
  /\ maxPending' \in PendingLimits \ {maxPending}
  /\ crowded' = IF maxPending' < maxPending THEN crowded \cup Authenticating ELSE crowded
  /\ UNCHANGED <<kind, linkVars, clientVars, server, pending, taken, listening>>

(* QWebSocketServer::close closes the pending web sockets.  A connection   *)
(* that was accepted may still do its handshake.                           *)
CloseServer ==
  /\ listening
  /\ listening' = FALSE
  /\ server' = [c \in Connections |-> IF Has(pending, c) THEN "closed" ELSE server[c]]
  /\ pending' = << >>
  /\ UNCHANGED <<kind, linkVars, clientVars, taken, crowded, maxPending>>

(* QWebSocketServer::listen, after close.  It may fail, and nothing changes. *)
Listen ==
  /\ ~ listening
  /\ listening' = TRUE
  /\ UNCHANGED <<kind, linkVars, clientVars, server, pending, taken, crowded, maxPending>>
-----------------------------------------------------------------------------
StatusLines == {"101", "101 of 1.0", "400", "403"}

\* Mutant: the headers of an earlier response are kept.
HeadersKept(c) == headers[c]

(* A new handshake clears the headers. *)
HeadersCleared(c) == << >>

(* processHandshake: a line that should be the status of a response.  If   *)
(* it is not, the handshake has failed, and the next line is taken for the *)
(* status of another response.                                             *)
ReadStatus(c) ==
  /\ client[c] = "connecting"
  /\ handshake[c] # "ReadingHeader"
  /\ toClient[c] # << >>
  /\ toClient' = [toClient EXCEPT ![c] = Tail(@)]
  /\ statusLine' = [statusLine EXCEPT ![c] = Head(toClient[c])]
  /\ headers' = [headers EXCEPT ![c] = HeadersCleared(c)]
  /\ response' = [response EXCEPT ![c] = <<Head(toClient[c])>>]
  /\ inherited' = [inherited EXCEPT ![c] = FALSE]
  /\ handshake' = [handshake EXCEPT ![c] =
                     IF Head(toClient[c]) \in StatusLines THEN "ReadingHeader" ELSE "AllDone"]
  /\ UNCHANGED <<kind, toServer, atServer, client, serverVars>>

(* A line of the headers.  On a connection that found the handshake in     *)
(* this state the status of its response is one too, and says nothing.     *)
ReadHeaderLine(c) ==
  /\ client[c] = "connecting"
  /\ handshake[c] = "ReadingHeader"
  /\ toClient[c] # << >> /\ Head(toClient[c]) # "Empty"
  /\ toClient' = [toClient EXCEPT ![c] = Tail(@)]
  /\ headers' = [headers EXCEPT ![c] = Append(@, Head(toClient[c]))]
  /\ response' = [response EXCEPT ![c] = Append(@, Head(toClient[c]))]
  /\ UNCHANGED <<kind, toServer, atServer, client, handshake, statusLine, inherited, serverVars>>

(* Of several headers with a name the last one counts. *)
LastOf(h, names) ==
  LET named == {i \in DOMAIN h : h[i] \in names} IN
  IF named = {} THEN "none" ELSE h[Max(named)]

Accepted(status, h) ==
  /\ status = "101"
  /\ LastOf(h, {"Accept", "Accept of another key"}) = "Accept"
  /\ LastOf(h, {"Upgrade"}) = "Upgrade"
  /\ LastOf(h, {"Connection", "Connection list"}) = "Connection"

(* The end of the headers: the handshake has succeeded or failed.  After a *)
(* failure the client stays connecting, until the connection is lost.      *)
ParseHeader(c) ==
  /\ client[c] = "connecting"
  /\ handshake[c] = "ReadingHeader"
  /\ toClient[c] # << >> /\ Head(toClient[c]) = "Empty"
  /\ toClient' = [toClient EXCEPT ![c] = Tail(@)]
  /\ handshake' = [handshake EXCEPT ![c] = "AllDone"]
  /\ client' = [client EXCEPT ![c] = IF Accepted(statusLine[c], headers[c]) THEN "connected" ELSE @]
  /\ UNCHANGED <<kind, toServer, atServer, statusLine, headers, response, inherited, serverVars>>

(* The client loses the connection, because the server has closed it or    *)
(* the network fails; what has not been read is no handshake any more.     *)
(* processHandshake may still see that the connection closed in the middle *)
(* of the headers, and then ends the handshake.                            *)
ConnectionLost(c) ==
  /\ client[c] \in {"connecting", "connected"}
  /\ server[c] # "none"
  /\ client' = [client EXCEPT ![c] = "unconnected"]
  /\ toClient' = [toClient EXCEPT ![c] = << >>]
  /\ server' = [server EXCEPT ![c] = IF ~ OurServer(c) /\ @ = "accepted" THEN "closed" ELSE @]
  /\ \/ UNCHANGED handshake
     \/ /\ client[c] = "connecting" /\ handshake[c] = "ReadingHeader"
        /\ handshake' = [handshake EXCEPT ![c] = "AllDone"]
  /\ UNCHANGED <<kind, toServer, atServer, statusLine, headers, response, inherited>>
  /\ UNCHANGED <<pending, taken, crowded, maxPending, listening>>
-----------------------------------------------------------------------------
HandshakeNext ==
  \/ \E c \in Connections :
       \/ Open(c) \/ Connected(c) \/ Refused(c) \/ ArriveAtServer(c)
       \/ CheckHandshake(c) \/ AnswerHandshake(c)
       \/ ReadStatus(c) \/ ReadHeaderLine(c) \/ ParseHeader(c) \/ ConnectionLost(c)
  \/ nextPendingConnection \/ setMaxPendingConnections \/ CloseServer \/ Listen

HandshakeSpec == HandshakeInit /\ [][HandshakeNext]_handshakeVars
-----------------------------------------------------------------------------
(* A client is connected only by a response with the key of its own        *)
(* request, and if the server is ours, it has made a web socket of the     *)
(* connection too.  The response is complete: it says 101 and has all      *)
(* three headers, none of them left from a response that failed before.    *)
(* Except on a QWebSocket that was opened again after it had lost a        *)
(* connection in the middle of the headers: the status and the other       *)
(* headers may be those of the old response.                               *)
BothEndsUpgrade ==
  \A c \in Connections : client[c] = "connected" =>
    /\ Has(response[c], "Accept")
    /\ OurServer(c) => server[c] \in {"upgraded", "closed"}
    /\ \/ inherited[c]
       \/ /\ response[c][1] = "101"
          /\ \A w \in {"Accept", "Upgrade", "Connection"} : Has(response[c], w)

(* A web socket that the server has made waits in the queue exactly once   *)
(* until the application takes it, and is not forgotten, to be neither     *)
(* closed nor handed out: the check before the handshake and the one when  *)
(* the web socket is added agree.  They may differ only if, while slots of *)
(* originAuthenticationRequired decided, the limit was lowered or another  *)
(* web socket was made.                                                    *)
UpgradesKept ==
  \A c \in Connections :
    /\ server[c] = "upgraded" /\ c \notin crowded => Has(pending, c) \/ c \in taken
    /\ ~ (Has(pending, c) /\ c \in taken)
    /\ \A i, j \in DOMAIN pending : pending[i] = c /\ pending[j] = c => i = j
=============================================================================
