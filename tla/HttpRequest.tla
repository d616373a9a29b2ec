---------------------------- MODULE HttpRequest -----------------------------
(***************************************************************************)
(* HttpRequest: a request that is read from a socket in whatever pieces    *)
(* the network delivers, against the limits of its size.                   *)
(*                                                                         *)
(* The input is a sequence of tokens, each of which counts as one byte:    *)
(* "cr" and "lf", what stands in a line before them, and the bytes of a    *)
(* body.  A line has one token of contents, or none.  A multipart body is  *)
(* a sequence of lines, each a token of its own.                           *)
(***************************************************************************)
EXTENDS Integers, Sequences, SequencesExt, FiniteSets

CONSTANTS MaxSize,           \* the setting maxRequestSize
          MaxMultiPartSize   \* the setting maxMultiPartSize

ASSUME SizesAssumption == MaxSize \in Nat /\ MaxMultiPartSize \in Nat

FirstLines == {"GET 1.1", "GET 1.0"}
NoHeader == [name |-> "", value |-> ""]

(* The header lines that a client sends.  "more" is a line without colon. *)
HeaderLine ==
  [Host   |-> [name |-> "host", value |-> "x"],
   Close  |-> [name |-> "connection", value |-> "close"],
   Form   |-> [name |-> "content-type", value |-> "form"],
   Upload |-> [name |-> "content-type", value |-> "multipart"],
   Length1 |-> [name |-> "content-length", value |-> "1"],
   Length2 |-> [name |-> "content-length", value |-> "2"],
   Length6 |-> [name |-> "content-length", value |-> "6"],
   Length9 |-> [name |-> "content-length", value |-> "9"],
   Length12 |-> [name |-> "content-length", value |-> "12"],
   Negative |-> [name |-> "content-length", value |-> "-1"]]

Lengths == {"Negative", "Length1", "Length2", "Length6", "Length9", "Length12"}

(* QByteArray::toInt, 0 for what is not a number. *)
ToInt(value) ==
  CASE value = "1" -> 1 [] value = "2" -> 2 [] value = "6" -> 6 [] value = "9" -> 9
    [] value = "12" -> 12 [] value = "-1" -> -1 [] OTHER -> 0

(* The lines of a multipart body that announce a part: its field, is it a file? *)
Disposition ==
  [FieldA |-> [field |-> "a", file |-> FALSE],
   FileB  |-> [field |-> "b", file |-> TRUE]]
-----------------------------------------------------------------------------
NewRequest ==
  [status |-> "waitForRequest", currentSize |-> 0, lineBuffer |-> << >>,
   first |-> "", headers |-> << >>, expected |-> 0, multipart |-> FALSE,
   body |-> << >>, tempFile |-> << >>, parameters |-> {}, files |-> {}]

(* headers.value: the entry that was inserted last. *)
HeaderValue(r, name) ==
  LET i == SelectLastInSeq(r.headers, LAMBDA h : h.name = name)
  IN  IF i = 0 THEN "" ELSE r.headers[i].value

(* QIODevice::readLine: to the end of a line, at most `most' bytes; 0 is   *)
(* no limit.                                                               *)
ReadLine(input, most) ==
  LET end == SelectInSeq(input, LAMBDA token : token = "lf")
      n == IF end = 0 THEN Len(input) ELSE end
  IN  SubSeq(input, 1, IF most \in 1 .. n THEN most ELSE n)

HasLineBreak(line) == \E i \in DOMAIN line : line[i] \in {"cr", "lf"}

(* White space is removed at both ends. *)
Trimmed(line) ==
  LET kept == {i \in DOMAIN line : line[i] \notin {"cr", "lf"}}
  IN  IF kept = {} THEN << >> ELSE SubSeq(line, Min(kept), Max(kept))

\* Mutant: currentSize is assigned instead of increased.
AppendLineForgetting(r, input) ==
  LET piece == ReadLine(input, MaxSize + 1)
      buffer == r.lineBuffer \o piece
  IN  [taken |-> Len(piece),
       request |-> [r EXCEPT !.lineBuffer = buffer, !.currentSize = Len(buffer)]]

(***************************************************************************)
(* What readRequest and readHeader start with.  currentSize grows by the   *)
(* whole buffer, not by the piece.                                         *)
(***************************************************************************)
AppendLine(r, input) ==
  LET piece == ReadLine(input, MaxSize - r.currentSize + 1)
      buffer == r.lineBuffer \o piece
  IN  [taken |-> Len(piece),
       request |-> [r EXCEPT !.lineBuffer = buffer, !.currentSize = @ + Len(buffer)]]

ReadRequest(r, input) ==
  LET read == AppendLine(r, input)
      line == Trimmed(read.request.lineBuffer)
      next == [read.request EXCEPT !.lineBuffer = << >>]
  IN  IF ~ HasLineBreak(read.request.lineBuffer) THEN read
      ELSE [read EXCEPT !.request =
              IF line = << >> THEN next
              ELSE IF Len(line) = 1 /\ line[1] \in FirstLines
              THEN [next EXCEPT !.status = "waitForHeader", !.first = line[1]]
              ELSE [next EXCEPT !.status = "abort"]]

\* Mutant: a request that just fits is too large.
HeadersCompletedStrict(r) ==
  LET n == ToInt(HeaderValue(r, "content-length"))
      multipart == HeaderValue(r, "content-type") = "multipart"
      s == [r EXCEPT !.expected = n, !.multipart = multipart]
  IN  [s EXCEPT !.status =
         IF n = 0 THEN "complete"
         ELSE IF ~ multipart /\ n + r.currentSize >= MaxSize THEN "abort"
         ELSE IF multipart /\ n > MaxMultiPartSize THEN "abort"
         ELSE "waitForBody"]

(* The empty line: the end of the headers. *)
HeadersCompleted(r) ==
  LET n == ToInt(HeaderValue(r, "content-length"))
      multipart == HeaderValue(r, "content-type") = "multipart"
      s == [r EXCEPT !.expected = n, !.multipart = multipart]
  IN  [s EXCEPT !.status =
         IF n = 0 THEN "complete"
         ELSE IF ~ multipart /\ n + r.currentSize > MaxSize THEN "abort"
         ELSE IF multipart /\ n > MaxMultiPartSize THEN "abort"
         ELSE "waitForBody"]

ReadHeader(r, input) ==
  LET read == AppendLine(r, input)
      line == Trimmed(read.request.lineBuffer)
      next == [read.request EXCEPT !.lineBuffer = << >>]
      last == IF next.headers = << >> THEN NoHeader ELSE Last(next.headers)
  IN  IF ~ HasLineBreak(read.request.lineBuffer) THEN read
      ELSE [read EXCEPT !.request =
              IF line = << >> THEN HeadersCompleted(next)
              ELSE IF line[1] # "more"
              THEN [next EXCEPT !.headers = Append(@, HeaderLine[line[1]])]
              ELSE IF last = NoHeader THEN next
              ELSE [next EXCEPT !.headers = Append(@, [last EXCEPT !.value = "folded"])]]
-----------------------------------------------------------------------------
(***************************************************************************)
(* parseMultiPartFile, line by line: the headers of a part up to an empty  *)
(* line, then its data up to a boundary.  In the headers a boundary is a   *)
(* line like others, so the first part begins with one.                    *)
(*                                                                         *)
(* `field' and `file' are what the headers announce, `uploaded' says that  *)
(* there is a file for the data, `counted' is the data of form fields.     *)
(***************************************************************************)
IsBoundary(line) == line \in {"Boundary", "End"}

NewParser ==
  [state |-> "headers", field |-> "", file |-> FALSE, uploaded |-> FALSE,
   counted |-> 0, parameters |-> {}, files |-> {}]

ParsePartHeader(p, line) ==
  IF line \in DOMAIN Disposition
  THEN [p EXCEPT !.field = Disposition[line].field, !.file = @ \/ Disposition[line].file]
  ELSE IF line = "Empty" THEN [p EXCEPT !.state = "data"]
  ELSE p

ParsePartData(p, line) ==
  IF p.field = "" THEN p
  ELSE IF p.file THEN [p EXCEPT !.uploaded = TRUE]
  ELSE [p EXCEPT !.counted = @ + 1]

\* Mutant: the next part inherits that it has a file.
EndOfPartWithFile(p, line) ==
  IF p.field # "" /\ p.file /\ ~ p.uploaded THEN [p EXCEPT !.state = "crashed"]
  ELSE [p EXCEPT !.state = IF line = "End" THEN "finished" ELSE "headers",
                 !.field = "",
                 !.parameters = @ \cup ({p.field} \ {""}),
                 !.files = @ \cup (IF p.file THEN {p.field} \ {""} ELSE {})]

(***************************************************************************)
(* The boundary after a part.  A file without a line of data was never     *)
(* opened: a null pointer is used, and the process ends.  A client that    *)
(* sends an empty file sends an empty line.                                *)
(***************************************************************************)
EndOfPart(p, line) ==
  IF p.field # "" /\ p.file /\ ~ p.uploaded THEN [p EXCEPT !.state = "crashed"]
  ELSE [p EXCEPT !.state = IF line = "End" THEN "finished" ELSE "headers",
                 !.field = "", !.file = FALSE, !.uploaded = FALSE,
                 !.parameters = @ \cup ({p.field} \ {""}),
                 !.files = @ \cup (IF p.file THEN {p.field} \ {""} ELSE {})]

ParseLine(p, line) ==
  CASE p.state = "headers" -> ParsePartHeader(p, line)
    [] p.state = "data" -> IF IsBoundary(line) THEN EndOfPart(p, line) ELSE ParsePartData(p, line)
    [] OTHER -> p

ParserAfter(file) ==
  LET parser[n \in 0 .. Len(file)] ==
        IF n = 0 THEN NewParser ELSE ParseLine(parser[n - 1], file[n])
  IN  parser[Len(file)]

ParseMultiPartFile(r) ==
  LET p == ParserAfter(r.tempFile)
  IN  [r EXCEPT !.parameters = p.parameters, !.files = p.files, !.currentSize = @ + p.counted,
                !.status = IF p.state = "crashed" THEN "crashed" ELSE "complete"]

(* QIODevice::read takes nothing if it is asked for a negative number of bytes. *)
MissingPiece(body, expected, input) ==
  LET missing == expected - Len(body)
  IN  SubSeq(input, 1, IF missing < Len(input) THEN missing ELSE Len(input))

\* Mutant: everything that has arrived is taken for the body.
ReadWholeInput(r, input) ==
  LET next == [r EXCEPT !.body = @ \o input, !.currentSize = @ + Len(input)]
  IN  [taken |-> Len(input),
       request |-> IF Len(next.body) >= r.expected
                   THEN [next EXCEPT !.status = "complete"] ELSE next]

\* Mutant: a body is complete when it has exactly the length.
ReadPlainBodyExactly(r, input) ==
  LET piece == MissingPiece(r.body, r.expected, input)
      next == [r EXCEPT !.body = @ \o piece, !.currentSize = @ + Len(piece)]
  IN  [taken |-> Len(piece),
       request |-> IF Len(next.body) = r.expected
                   THEN [next EXCEPT !.status = "complete"] ELSE next]

ReadPlainBody(r, input) ==
  LET piece == MissingPiece(r.body, r.expected, input)
      next == [r EXCEPT !.body = @ \o piece, !.currentSize = @ + Len(piece)]
  IN  [taken |-> Len(piece),
       request |-> IF Len(next.body) >= r.expected
                   THEN [next EXCEPT !.status = "complete"] ELSE next]

(* Blocks of 64 kB are longer than any body here. *)
ReadMultiPartBody(r, input) ==
  LET piece == MissingPiece(r.tempFile, r.expected, input)
      next == [r EXCEPT !.tempFile = @ \o piece]
  IN  [taken |-> Len(piece),
       request |-> IF Len(next.tempFile) >= MaxMultiPartSize
                   THEN [next EXCEPT !.status = "abort"]
                   ELSE IF Len(next.tempFile) >= r.expected
                   THEN ParseMultiPartFile(next)
                   ELSE next]

ReadBody(r, input) ==
  IF r.multipart THEN ReadMultiPartBody(r, input) ELSE ReadPlainBody(r, input)

(* decodeRequestParams: a body is decoded if it is, or may be, a form. *)
DecodeRequestParams(r) ==
  IF r.body # << >> /\ HeaderValue(r, "content-type") \in {"", "form"}
  THEN [r EXCEPT !.parameters = @ \cup {"body"}]
  ELSE r

(***************************************************************************)
(* readFromSocket: one step of the state engine.  The result is the        *)
(* request and the number of bytes it has taken from the input.  Then the  *)
(* size is checked, and a complete request is decoded.                     *)
(***************************************************************************)
ReadFromSocket(r, input) ==
  IF r.status = "waitForRequest" THEN ReadRequest(r, input)
  ELSE IF r.status = "waitForHeader" THEN ReadHeader(r, input)
  ELSE ReadBody(r, input)

Checked(r) ==
  IF r.status = "crashed" THEN r
  ELSE IF r.currentSize > (IF r.multipart THEN MaxMultiPartSize ELSE MaxSize)
  THEN [r EXCEPT !.status = "abort"]
  ELSE IF r.status = "complete" THEN DecodeRequestParams(r)
  ELSE r
=============================================================================
