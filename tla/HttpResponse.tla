---------------------------- MODULE HttpResponse ----------------------------
(***************************************************************************)
(* HttpResponse: the headers, and the bytes of the body as the client gets *)
(* them.  A response tells its end by chunked mode, by Content-Length, or  *)
(* by the end of the connection.                                           *)
(***************************************************************************)
EXTENDS Naturals

(***************************************************************************)
(* `headers' has the header Connection in the spelling that the server     *)
(* uses and in lower case: names are compared byte by byte, values without *)
(* regard to case.  `length' is the value of Content-Length.  `told' is    *)
(* what writeHeaders has sent: chunked mode and the length.  `body' counts *)
(* the bytes that the client can tell apart as data, `ended' says that the *)
(* last chunk has been sent.                                               *)
(***************************************************************************)
NoLength == 99

NewResponse ==
  [headers |-> [Connection |-> "none", connection |-> "none"],
   length |-> NoLength, redirected |-> FALSE,
   sentHeaders |-> FALSE, sentLastPart |-> FALSE, chunkedMode |-> FALSE,
   told |-> [chunked |-> FALSE, length |-> NoLength], body |-> 0, ended |-> FALSE]

(* headers.insert: the value is replaced.  They may change until they are sent. *)
SetHeader(p, name, value) == [p EXCEPT !.headers[name] = value]
SetLength(p, n) == [p EXCEPT !.length = n]

SaysClose(p) ==
  (IF p.headers.Connection # "none" THEN p.headers.Connection ELSE p.headers.connection) = "close"

(* The first write decides how the end of the response will be told. *)
ChooseFraming(p, n, lastPart) ==
  IF lastPart THEN [p EXCEPT !.length = n]
  ELSE IF SaysClose(p) THEN p
  ELSE [p EXCEPT !.chunkedMode = TRUE]

WriteHeaders(p) ==
  [p EXCEPT !.sentHeaders = TRUE,
            !.told = [chunked |-> p.chunkedMode, length |-> p.length]]

(* write: n bytes of data. *)
Write(p, n, lastPart) ==
  LET q == IF p.sentHeaders THEN p ELSE WriteHeaders(ChooseFraming(p, n, lastPart))
  IN  [q EXCEPT !.body = @ + n, !.sentLastPart = lastPart,
                !.ended = lastPart /\ q.chunkedMode]

(* redirect: a status, a header, and a body of one byte. *)
Redirect(p) == Write([p EXCEPT !.redirected = TRUE], 1, TRUE)

\* Mutant: only a Connection: close of the request is looked at.
MustCloseIfAsked(p, closeConnection) == closeConnection

(***************************************************************************)
(* readHttp after service: must the connection be closed?  The header      *)
(* Connection is looked up in one spelling only.                           *)
(***************************************************************************)
MustClose(p, closeConnection) ==
  \/ closeConnection
  \/ p.headers.Connection = "close"
  \/ p.length = NoLength /\ ~ p.chunkedMode

(* The client can tell where the response ends while the connection lasts. *)
TellsItsEnd(p) ==
  IF p.told.chunked THEN p.ended ELSE p.told.length = p.body
=============================================================================
