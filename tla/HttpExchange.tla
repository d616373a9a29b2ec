---------------------------- MODULE HttpExchange ----------------------------
(***************************************************************************)
(* One connection of the HTTP server: the loop of                          *)
(* HttpConnectionHandler::readHttp around HttpRequest and HttpResponse.    *)
(*                                                                         *)
(* The client sends a script of requests without waiting for responses.    *)
(* The network delivers the bytes in pieces of any length.  The service of *)
(* the application makes any calls of the response that its documentation  *)
(* allows, or throws.                                                      *)
(***************************************************************************)
EXTENDS HttpRequest, HttpResponse, FiniteSets

CONSTANTS Scripts,    \* sequences of requests that a client may send
          MaxCalls    \* bound: calls that service makes of one response

(* A request has a first line; what follows in its head are header lines. *)
ASSUME ScriptsAssumption ==
  \A s \in Scripts :
    /\ s \in Seq(ToSet(s))
    /\ \A q \in ToSet(s) :
         /\ q.head \in Seq(ToSet(q.head)) /\ q.body \in Seq(ToSet(q.body))
         /\ q.head # << >> /\ ~ HasLineBreak(q.head)
         /\ \A i \in 2 .. Len(q.head) : q.head[i] \in DOMAIN HeaderLine \cup {"more"}

(* A line as it is sent, with CR LF, and the bytes of a request. *)
SentLine(token) == <<token, "cr", "lf">>
Bytes(request) ==
  FlattenSeq([i \in DOMAIN request.head |-> SentLine(request.head[i])])
    \o <<"cr", "lf">> \o request.body

WireOf == [s \in Scripts |-> FlattenSeq([i \in DOMAIN s |-> Bytes(s[i])])]

VARIABLES
  script,    \* the requests of the client, [head, body]
  arrived,   \* bytes that have arrived at the socket
  taken,     \* bytes that the server has read from the socket
  socket,    \* "open", "closing", "unconnected"
  request,   \* currentRequest or NoRequest
  response,  \* the local variable of readHttp, or NoResponse
  at,        \* "readHttp", "service" while that runs, "returned" after it
  closes,    \* closeConnection
  calls,     \* calls of the response that service has made
  history    \* what the properties look back on

vars == <<script, arrived, taken, socket, request, response, at, closes, calls, history>>

NoRequest == [status |-> "none"]
NoResponse == [sentHeaders |-> FALSE]
Wire == WireOf[script]
Input == SubSeq(Wire, taken + 1, arrived)

(***************************************************************************)
(* start: bytes read before the current request.  done: the requests that  *)
(* became complete, as the server saw them, with the place of their last   *)
(* byte.  cut: a piece ended between CR and LF.  split: a line of the      *)
(* current request was read in more than one piece.  refused: a request    *)
(* was refused before.                                                     *)
(***************************************************************************)
NoHistory == [start |-> 0, done |-> << >>, cut |-> FALSE, split |-> FALSE,
              refused |-> FALSE]

Init ==
  /\ script \in Scripts
  /\ arrived = 0 /\ taken = 0
  /\ socket = "open"
  /\ request = NoRequest /\ response = NoResponse
  /\ at = "readHttp" /\ closes = FALSE /\ calls = 0
  /\ history = NoHistory
-----------------------------------------------------------------------------
(* A piece of n bytes arrives. *)
Arrive(n) ==
  /\ socket # "unconnected"
  /\ arrived + n <= Len(Wire)
  /\ arrived' = arrived + n
  /\ UNCHANGED <<script, taken, socket, request, response, at, closes, calls, history>>

(* read() waits for a whole line before the first request, readHttp does not. *)
MayRead ==
  /\ socket # "unconnected" /\ at = "readHttp"
  /\ Input # << >>
  /\ taken = 0 => "lf" \in ToSet(Input)
  /\ request.status \notin {"complete", "abort", "crashed"}

(* The loop makes a request if there is none. *)
CurrentRequest == IF request = NoRequest THEN NewRequest ELSE request

(* One turn of the loop that collects a request. *)
ReadTurn ==
  /\ MayRead
  /\ \E input \in {Input}, current \in {CurrentRequest} :
     \E read \in {ReadFromSocket(current, input)} :
       /\ request' = Checked(read.request)
       /\ taken' = taken + read.taken
       /\ history' = [history EXCEPT
            !.start = IF request = NoRequest THEN taken ELSE @,
            !.cut = @ \/ (read.taken > 0 /\ Wire[taken'] = "cr"),
            !.split = read.request.lineBuffer # << >> \/ (request # NoRequest /\ @),
            !.done = IF request'.status = "complete"
                     THEN Append(@, [request |-> request', last |-> taken']) ELSE @]
  /\ UNCHANGED <<script, arrived, socket, response, at, closes, calls>>

(***************************************************************************)
(* disconnectFromHost: at once if all output has been sent, which also     *)
(* closes the socket and forgets its input (the slot disconnected), else   *)
(* the loop goes on while there is input.                                  *)
(***************************************************************************)
DisconnectFromHost ==
  socket' \in IF socket = "unconnected" THEN {"unconnected"} ELSE {"closing", "unconnected"}

RefuseTooLarge ==
  /\ request.status = "abort"
  /\ DisconnectFromHost
  /\ request' = NoRequest
  /\ history' = [history EXCEPT !.refused = TRUE]
  /\ UNCHANGED <<script, arrived, taken, response, at, closes, calls>>

(* The output is sent, or the connection given up. *)
SocketDisconnects ==
  /\ socket = "closing" /\ at = "readHttp" /\ request.status \notin {"abort", "crashed"}
  /\ socket' = "unconnected"
  /\ UNCHANGED <<script, arrived, taken, request, response, at, closes, calls, history>>

StartService ==
  /\ at = "readHttp" /\ request.status = "complete"
  /\ closes' = (HeaderValue(request, "connection") = "close" \/ request.first = "GET 1.0")
  /\ response' = IF closes' THEN SetHeader(NewResponse, "Connection", "close") ELSE NewResponse
  /\ at' = "service" /\ calls' = 0
  /\ UNCHANGED <<script, arrived, taken, socket, request, history>>

InService == at = "service" /\ calls < MaxCalls

Call(p) ==
  /\ response' = p /\ calls' = calls + 1
  /\ UNCHANGED <<script, arrived, taken, socket, request, at, closes, history>>

(* "You must call this method before the first write()". *)
ServiceSetsHeader ==
  /\ InService /\ ~ response.sentHeaders
  /\ \/ \E name \in {"Connection", "connection"}, value \in {"close", "keep-alive"} :
          Call(SetHeader(response, name, value))
     \/ Call(SetLength(response, 2))

ServiceWrites ==
  /\ InService /\ ~ response.sentLastPart
  /\ \E n \in {0, 2}, lastPart \in BOOLEAN : Call(Write(response, n, lastPart))

(* "Cannot be combined with write()". *)
ServiceRedirects ==
  /\ InService /\ ~ response.sentHeaders
  /\ Call(Redirect(response))

(* service returns or throws, and the response is finished. *)
FinishResponse ==
  /\ at = "service"
  /\ response' = IF response.sentLastPart THEN response ELSE Write(response, 0, TRUE)
  /\ at' = "returned" /\ calls' = 0
  /\ UNCHANGED <<script, arrived, taken, socket, request, closes, history>>

(* The connection is kept or closed. *)
FinishExchange ==
  /\ at = "returned"
  /\ IF MustClose(response, closes) THEN DisconnectFromHost ELSE UNCHANGED socket
  /\ request' = NoRequest /\ response' = NoResponse
  /\ at' = "readHttp" /\ closes' = FALSE
  /\ UNCHANGED <<script, arrived, taken, calls, history>>

Next ==
  \/ \E n \in 1 .. Len(Wire) : Arrive(n)
  \/ ReadTurn \/ RefuseTooLarge \/ SocketDisconnects
  \/ StartService
  \/ ServiceSetsHeader \/ ServiceWrites \/ ServiceRedirects
  \/ FinishResponse \/ FinishExchange

Spec == Init /\ [][Next]_vars
-----------------------------------------------------------------------------
(* The bytes of the first n requests of the script. *)
EndOf(n) == Len(FlattenSeq([i \in 1 .. n |-> Bytes(script[i])]))

(* The current request, counted from 1. *)
Current == Len(history.done) + (IF request.status = "complete" THEN 0 ELSE 1)

(***************************************************************************)
(* "MaxRequestSize is the maximum size of a HTTP request.  In case of      *)
(* multipart/form-data requests the maximum size of the body must not      *)
(* exceed maxMultiPartSize": what becomes complete is within the limits,   *)
(* however the lines were cut into pieces.                                 *)
(***************************************************************************)
SizesLimited ==
  request.status = "complete" =>
    IF request.multipart THEN Len(request.tempFile) <= MaxMultiPartSize
    ELSE taken - history.start <= MaxSize

(***************************************************************************)
(* What a client announces is the length of its body.  A length that is    *)
(* continued on the next line is no number.                                *)
(***************************************************************************)
LengthTrue(q) ==
  LET lengths == {i \in DOMAIN q.head : q.head[i] \in Lengths}
  IN  IF lengths = {} THEN q.body = << >>
      ELSE \A i \in lengths :
             /\ ToInt(HeaderLine[q.head[i]].value) = Len(q.body)
             /\ i < Len(q.head) => q.head[i + 1] # "more"

(***************************************************************************)
(* A request is refused only for a reason: its first line is broken, it is *)
(* too large (a multipart body also if it has just the size of the limit,  *)
(* and with the headers and the lines between its boundaries), a line of   *)
(* it came in pieces and was counted more than once, a length was not      *)
(* true, or the server lost step with the client before.                   *)
(***************************************************************************)
ValuesIn(body) == {i \in DOMAIN body : ~ IsBoundary(body[i])}
Reason(q, multipart) ==
  \/ q.head[1] \notin FirstLines
  \/ ~ multipart /\ Len(Bytes(q)) > MaxSize
  \/ /\ multipart
     /\ \/ Len(q.body) >= MaxMultiPartSize
        \/ Len(Bytes(q)) - Len(q.body) + Cardinality(ValuesIn(q.body)) > MaxMultiPartSize

RefusedForAReason ==
  request.status = "abort" /\ ~ history.cut /\ ~ history.split /\ ~ history.refused
       /\ (\A i \in (1 .. Current) \cap DOMAIN script : LengthTrue(script[i]))
    => Current \in DOMAIN script /\ Reason(script[Current], request.multipart)

(***************************************************************************)
(* Requests that follow each other on a connection are kept apart: each    *)
(* one ends where the client ended it and has the body that the client     *)
(* sent, unless a piece of the input ended between CR and LF (the LF is    *)
(* then read as an empty line) or a length was not true.  Of a multipart   *)
(* body that is well-formed, every field is found, and every file.         *)
(***************************************************************************)
BoundariesIn(body) == {i \in DOMAIN body : body[i] = "Boundary"}
PartsIn(body) == {Disposition[body[i + 1]] : i \in BoundariesIn(body)}

(* Boundaries around parts of a disposition, an empty line, and some data. *)
WellFormed(body) ==
  /\ body # << >> /\ IsBoundary(body[1])
  /\ \A i \in DOMAIN body : body[i] = "End" <=> i = Len(body)
  /\ \A i \in BoundariesIn(body) :
       /\ i + 3 < Len(body)
       /\ body[i + 1] \in DOMAIN Disposition /\ body[i + 2] = "Empty"
       /\ ~ IsBoundary(body[i + 3])

RightRequest(k) ==
  LET r == history.done[k].request
      body == script[k].body
  IN  /\ history.done[k].last = EndOf(k)
      /\ (IF r.multipart THEN r.tempFile ELSE r.body) = body
      /\ r.multipart /\ WellFormed(body) =>
           /\ r.parameters = {part.field : part \in PartsIn(body)}
           /\ r.files = {part.field : part \in {q \in PartsIn(body) : q.file}}

RequestsKeptApart ==
  ~ history.cut /\ ~ history.refused /\ (\A i \in DOMAIN script : LengthTrue(script[i])) =>
    \A k \in DOMAIN history.done : RightRequest(k)

(***************************************************************************)
(* A client can always tell where a response ends: by chunks, by a length  *)
(* that is the length of the body, or because the connection is closed.    *)
(* Excepted: an application that announces a length and spells the header  *)
(* "connection: close" in lower case, which write() understands and        *)
(* readHttp does not, and then sends less than it announced, for example   *)
(* because it throws.                                                      *)
(*                                                                         *)
(* An HTTP/1.0 client is not sent chunks, as the comment in readHttp has   *)
(* it.  Excepted: an application that replaces the Connection: close of    *)
(* readHttp by another value; write() then chooses chunked mode.           *)
(***************************************************************************)
EndOfResponseKnown ==
  at = "returned" =>
    /\ \/ MustClose(response, closes) \/ TellsItsEnd(response)
       \/ response.headers.connection = "close" /\ response.length # NoLength
    /\ request.first = "GET 1.0" /\ response.told.chunked =>
         response.headers.Connection = "keep-alive"

(***************************************************************************)
(* The loop never turns in vain: while there is input and the request is   *)
(* neither complete nor refused, the next turn takes a byte of the input,  *)
(* or ends the request, as it does if the length of the body is negative.  *)
(* Otherwise readHttp would spin for ever, on input that it never takes.   *)
(***************************************************************************)
TurnsReadSomething ==
  MayRead =>
    \A input \in {Input}, current \in {CurrentRequest} :
    \A read \in {ReadFromSocket(current, input)} :
      \/ read.taken > 0
      \/ Checked(read.request).status \in {"complete", "abort", "crashed"}
=============================================================================
