---------------------------- MODULE Http_proofs ----------------------------
(***************************************************************************)
(* Proofs about the parts of the HTTP server that each connection uses:    *)
(* requests and responses, the cache of static files, and the templates.   *)
(***************************************************************************)
EXTENDS HttpExchange, StaticFileController, TemplateCache, SequenceTheorems,
        FiniteSetTheorems, NaturalsInduction, WellFoundedInduction, TLAPS

-----------------------------------------------------------------------------
(* The requests and responses of a connection: the inductive invariant.    *)

(* What a client may send. *)
Requests == UNION {ToSet(s) : s \in Scripts}
Tokens == {"cr", "lf"} \cup UNION {ToSet(q.head) \cup ToSet(q.body) : q \in Requests}

RequestFields ==
  {"status", "currentSize", "lineBuffer", "first", "headers", "expected", "multipart",
   "body", "tempFile", "parameters", "files"}
Reading == {"waitForRequest", "waitForHeader", "waitForBody"}
Ended == {"complete", "abort", "crashed"}

(* A request in the making: bytes that were read are counted, and more are *)
(* wanted.                                                                 *)
RequestTypes(r) ==
  /\ DOMAIN r = RequestFields
  /\ r.status \in Reading \cup Ended
  /\ r.multipart \in BOOLEAN

HeadFits(r, n) ==
  /\ r.lineBuffer \in Seq(Tokens)
  /\ ~ r.multipart /\ r.body = << >> /\ r.tempFile = << >>
  /\ r.currentSize \in Nat /\ r.currentSize <= MaxSize /\ n <= r.currentSize

(* More of a body is wanted, or its length is negative. *)
Wanted(body, expected) == IF expected < 0 THEN body = << >> ELSE Len(body) < expected

BodyFits(r, n) ==
  /\ r.expected \in Int
  /\ r.body \in Seq(Tokens) /\ r.tempFile \in Seq(Tokens)
  /\ IF r.multipart THEN Wanted(r.tempFile, r.expected)
     ELSE /\ Wanted(r.body, r.expected)
          /\ r.currentSize \in Nat /\ r.currentSize <= MaxSize /\ n <= r.currentSize

WholeFits(r, n) ==
  IF r.multipart THEN Len(r.tempFile) <= MaxMultiPartSize ELSE n <= MaxSize

(* n bytes of the request r were read. *)
RequestFits(r, n) ==
  /\ RequestTypes(r)
  /\ r.status \in {"waitForRequest", "waitForHeader"} => HeadFits(r, n)
  /\ r.status = "waitForBody" => BodyFits(r, n)
  /\ r.status = "complete" => WholeFits(r, n)

(* The response of a service that runs, and how it will end. *)
Values == {"none", "close", "keep-alive"}
ResponseTypes(p) ==
  p \in [headers : [Connection : Values, connection : Values], length : Nat, redirected : BOOLEAN,
         sentHeaders : BOOLEAN, sentLastPart : BOOLEAN, chunkedMode : BOOLEAN,
         told : [chunked : BOOLEAN, length : Nat], body : Nat, ended : BOOLEAN]

ResponseFits(p) ==
  /\ ResponseTypes(p)
  /\ ~ p.sentHeaders => ~ p.sentLastPart /\ ~ p.chunkedMode /\ p.body = 0
  /\ p.sentHeaders => p.told = [chunked |-> p.chunkedMode, length |-> p.length]
  /\ p.chunkedMode => ~ SaysClose(p)
  /\ p.sentLastPart /\ p.chunkedMode => p.ended
  /\ p.sentHeaders /\ ~ p.chunkedMode =>
       SaysClose(p) \/ (p.sentLastPart /\ p.length = p.body)

ExchangeTypes ==
  /\ script \in Scripts
  /\ arrived \in Nat /\ taken \in Nat /\ taken <= arrived /\ arrived <= Len(Wire)
  /\ DOMAIN history = {"start", "done", "cut", "split", "refused"}
  /\ history.start \in Nat /\ history.start <= taken
  /\ at \in {"readHttp", "service", "returned"}

ServiceFits ==
  at # "readHttp" =>
    /\ request # NoRequest /\ request.status = "complete"
    /\ ResponseFits(response)
    /\ closes \in BOOLEAN /\ (closes => response.headers.Connection # "none")
    /\ request.first = "GET 1.0" => closes
    /\ at = "returned" => response.sentLastPart

ExchangeInv ==
  /\ ExchangeTypes
  /\ request # NoRequest => RequestFits(request, taken - history.start)
  /\ ServiceFits

-----------------------------------------------------------------------------
(* Numbers and sequences. *)

LEMMA NaturalsFollow ==
  ASSUME NEW T, 0 \in T, \A n \in Nat : n \in T => n + 1 \in T
  PROVE  Nat \subseteq T
<1> DEFINE R == {p \in Nat \X Nat : p[1] < p[2]}
           U == Nat \ T
<1>1. SUFFICES ASSUME U # {} PROVE FALSE
  OBVIOUS
<1>2. IsWellFoundedOn(R, Nat)
  BY NatLessThanWellFounded DEF OpToRel
<1>3. PICK x \in U : \A y \in U : ~ (<<y, x>> \in R)
  <2> HIDE DEF R
  <2>1. U \subseteq Nat
    OBVIOUS
  <2> HIDE DEF U
  <2> QED
    BY <1>1, <1>2, <2>1, WFMin
<1>4. x \in Nat /\ x # 0
  OBVIOUS
<1>5. x - 1 \in Nat /\ x - 1 < x /\ (x - 1) + 1 = x
  BY <1>4
<1>6. x - 1 \notin U
  BY <1>3, <1>4, <1>5
<1>7. x \in T
  BY <1>5, <1>6
<1> QED
  BY <1>7

LEMMA LeastIs ==
  ASSUME NEW S, S \subseteq Nat, S # {}
  PROVE  Min(S) \in S /\ \A y \in S : Min(S) <= y
<1> DEFINE P(x) == \A y \in S : x <= y
           R == {p \in Nat \X Nat : p[1] < p[2]}
<1>1. IsWellFoundedOn(R, Nat)
  BY NatLessThanWellFounded DEF OpToRel
<1>2. PICK x \in S : \A y \in S : ~ (<<y, x>> \in R)
  <2> HIDE DEF R
  <2> QED
    BY <1>1, WFMin
<1>3. P(x)
  <2> SUFFICES ASSUME NEW y \in S PROVE x <= y
    OBVIOUS
  <2>1. x \in Nat /\ y \in Nat /\ ~ (y < x)
    BY <1>2
  <2> QED
    BY <2>1
<1>4. Min(S) = CHOOSE z \in S : P(z)
  BY DEF Min
<1>5. Min(S) \in S /\ P(Min(S))
  <2> HIDE DEF P
  <2> QED
    BY <1>3, <1>4
<1> QED
  BY <1>5

LEMMA GreatestIs ==
  ASSUME NEW n \in Nat, NEW S, S \subseteq 0 .. n, S # {}
  PROVE  Max(S) \in S /\ \A y \in S : y <= Max(S)
<1> DEFINE P(x) == \A y \in S : x >= y
           M == {n - y : y \in S}
<1>1. M \subseteq Nat /\ M # {}
  <2>1. \A y \in S : n - y \in Nat
    OBVIOUS
  <2> QED
    BY <2>1
<1>2. Min(M) \in M /\ \A y \in M : Min(M) <= y
  <2> HIDE DEF M
  <2> QED
    BY <1>1, LeastIs
<1>3. PICK x \in S : Min(M) = n - x
  BY <1>2
<1>4. \A y \in S : n - x <= n - y
  BY <1>2, <1>3
<1>5. P(x)
  BY <1>4
<1>6. Max(S) = CHOOSE z \in S : P(z)
  BY DEF Max
<1>7. Max(S) \in S /\ P(Max(S))
  <2> HIDE DEF P
  <2> QED
    BY <1>5, <1>6
<1>8. \A y \in S : y <= Max(S)
  BY <1>7
<1> QED
  BY <1>7, <1>8

(* The sequences that FlattenSeq builds one after the other. *)
Flattened(seqs, n, f) == f = [i \in 1 .. n |-> IF i = 1 THEN seqs[i] ELSE f[i - 1] \o seqs[i]]

LEMMA FlattenedExists ==
  ASSUME NEW seqs, NEW n \in Nat
  PROVE  \E f : Flattened(seqs, n, f)
<1> DEFINE T == {k \in Nat : \E f : Flattened(seqs, k, f)}
<1>1. 0 \in T
  <2> DEFINE f == [i \in 1 .. 0 |-> seqs[i]]
  <2>1. f = [i \in 1 .. 0 |-> IF i = 1 THEN seqs[i] ELSE f[i - 1] \o seqs[i]]
    OBVIOUS
  <2> QED
    BY <2>1 DEF Flattened
<1>2. ASSUME NEW k \in Nat, k \in T PROVE k + 1 \in T
  <2>1. PICK f : Flattened(seqs, k, f)
    BY <1>2
  <2> DEFINE g == [i \in 1 .. (k + 1) |-> IF i = 1 THEN seqs[i] ELSE f[i - 1] \o seqs[i]]
  <2>2. \A i \in 1 .. k : g[i] = f[i]
    <3>1. f = [i \in 1 .. k |-> IF i = 1 THEN seqs[i] ELSE f[i - 1] \o seqs[i]]
      BY <2>1 DEF Flattened
    <3>2. \A i \in 1 .. k : f[i] = IF i = 1 THEN seqs[i] ELSE f[i - 1] \o seqs[i]
      BY <3>1
    <3>3. \A i \in 1 .. k : i \in 1 .. (k + 1)
      OBVIOUS
    <3> QED
      BY <3>2, <3>3
  <2>3. \A i \in 1 .. (k + 1) : i # 1 => g[i - 1] = f[i - 1]
    <3>1. \A i \in 1 .. (k + 1) : i # 1 => i - 1 \in 1 .. k
      OBVIOUS
    <3> HIDE DEF g
    <3> QED
      BY <2>2, <3>1
  <2> DEFINE h == [i \in 1 .. (k + 1) |-> IF i = 1 THEN seqs[i] ELSE g[i - 1] \o seqs[i]]
  <2>4. \A i \in 1 .. (k + 1) : g[i] = h[i]
    BY <2>3
  <2>5. g = h
    BY <2>4
  <2>6. Flattened(seqs, k + 1, g)
    BY <2>5 DEF Flattened
  <2> QED
    BY <2>6
<1> HIDE DEF T
<1>3. Nat \subseteq T
  BY <1>1, <1>2, NaturalsFollow
<1> QED
  BY <1>3 DEF T

LEMMA FlattenIsASeq ==
  ASSUME NEW S, NEW seqs \in Seq(Seq(S))
  PROVE  FlattenSeq(seqs) \in Seq(S)
<1> DEFINE n == Len(seqs)
<1>1. n \in Nat /\ \A j \in 1 .. n : seqs[j] \in Seq(S)
  OBVIOUS
<1>2. CASE n = 0
  <2>1. seqs = << >> /\ FlattenSeq(seqs) = << >>
    BY <1>2 DEF FlattenSeq
  <2> QED
    BY <2>1, EmptySeq
<1>3. CASE n # 0
  <2> DEFINE f == CHOOSE f : Flattened(seqs, n, f)
  <2>1. Flattened(seqs, n, f)
    BY <1>1, FlattenedExists
  <2>2. FlattenSeq(seqs) = f[n]
    BY <1>3 DEF FlattenSeq, Flattened
  <2> HIDE DEF f, n
  <2>3. /\ f[1] = seqs[1]
        /\ \A k \in 1 .. n : k # 1 => f[k] = f[k - 1] \o seqs[k]
    <3>1. f = [i \in 1 .. n |-> IF i = 1 THEN seqs[i] ELSE f[i - 1] \o seqs[i]]
      BY <2>1 DEF Flattened
    <3>2. \A i \in 1 .. n : f[i] = IF i = 1 THEN seqs[i] ELSE f[i - 1] \o seqs[i]
      BY <3>1
    <3>3. 1 \in 1 .. n
      BY <1>1, <1>3
    <3> QED
      BY <3>2, <3>3
  <2> DEFINE T == {k \in Nat : k + 1 \in 1 .. n => f[k + 1] \in Seq(S)}
  <2>4. 0 \in T
    <3>1. 1 \in 1 .. n
      BY <1>1, <1>3
    <3> QED
      BY <1>1, <2>3, <3>1
  <2>5. ASSUME NEW k \in Nat, k \in T PROVE k + 1 \in T
    <3> SUFFICES ASSUME (k + 1) + 1 \in 1 .. n PROVE f[(k + 1) + 1] \in Seq(S)
      OBVIOUS
    <3>1. k + 1 \in 1 .. n /\ (k + 1) + 1 # 1 /\ ((k + 1) + 1) - 1 = k + 1
      BY <1>1
    <3>2. f[k + 1] \in Seq(S) /\ seqs[(k + 1) + 1] \in Seq(S)
      BY <1>1, <2>5, <3>1
    <3>3. f[(k + 1) + 1] = f[k + 1] \o seqs[(k + 1) + 1]
      BY <2>3, <3>1
    <3> QED
      BY <3>2, <3>3
  <2> HIDE DEF T
  <2>6. Nat \subseteq T
    BY <2>4, <2>5, NaturalsFollow
  <2>7. n - 1 \in Nat /\ (n - 1) + 1 = n /\ n \in 1 .. n
    BY <1>1, <1>3
  <2>8. f[n] \in Seq(S)
    BY <2>6, <2>7 DEF T
  <2> QED
    BY <2>2, <2>8
<1> QED
  BY <1>2, <1>3

LEMMA WireIs ==
  ASSUME script \in Scripts
  PROVE  Wire \in Seq(Tokens) /\ Len(Wire) \in Nat
<1>1. /\ script \in Seq(ToSet(script))
      /\ \A q \in ToSet(script) : q.head \in Seq(ToSet(q.head)) /\ q.body \in Seq(ToSet(q.body))
  BY ScriptsAssumption
<1>2. ASSUME NEW q \in ToSet(script) PROVE Bytes(q) \in Seq(Tokens)
  <2>1. ToSet(q.head) \subseteq Tokens /\ ToSet(q.body) \subseteq Tokens
        /\ "cr" \in Tokens /\ "lf" \in Tokens
    BY DEF Tokens, Requests
  <2>2. q.head \in Seq(Tokens) /\ q.body \in Seq(Tokens)
    <3>1. \A i \in 1 .. Len(q.head) : q.head[i] \in ToSet(q.head)
      BY <1>1 DEF ToSet
    <3>2. \A i \in 1 .. Len(q.body) : q.body[i] \in ToSet(q.body)
      BY <1>1 DEF ToSet
    <3> QED
      BY <1>1, <2>1, <3>1, <3>2, SeqMonotonic
  <2> DEFINE lines == [i \in DOMAIN q.head |-> SentLine(q.head[i])]
  <2>3. lines \in Seq(Seq(Tokens))
    <3>1. \A i \in DOMAIN q.head : SentLine(q.head[i]) \in Seq(Tokens)
      <4> SUFFICES ASSUME NEW i \in DOMAIN q.head PROVE SentLine(q.head[i]) \in Seq(Tokens)
        OBVIOUS
      <4>1. q.head[i] \in Tokens
        BY <2>2
      <4> QED
        BY <2>1, <4>1 DEF SentLine
    <3>2. DOMAIN q.head = 1 .. Len(q.head) /\ Len(q.head) \in Nat
      BY <2>2
    <3> QED
      BY <3>1, <3>2, IsASeq
  <2>4. FlattenSeq(lines) \in Seq(Tokens)
    BY <2>3, FlattenIsASeq
  <2>5. <<"cr", "lf">> \in Seq(Tokens)
    BY <2>1
  <2> HIDE DEF lines
  <2>6. Bytes(q) = FlattenSeq(lines) \o <<"cr", "lf">> \o q.body
    BY DEF Bytes, lines
  <2> QED
    BY <2>2, <2>4, <2>5, <2>6, ConcatProperties
<1>3. [i \in DOMAIN script |-> Bytes(script[i])] \in Seq(Seq(Tokens))
  <2>1. \A i \in DOMAIN script : script[i] \in ToSet(script)
    BY DEF ToSet
  <2>2. DOMAIN script = 1 .. Len(script) /\ Len(script) \in Nat
    BY <1>1
  <2> QED
    BY <1>2, <2>1, <2>2, IsASeq
<1>4. Wire = FlattenSeq([i \in DOMAIN script |-> Bytes(script[i])])
  BY DEF Wire, WireOf
<1>5. Wire \in Seq(Tokens)
  BY <1>3, <1>4, FlattenIsASeq
<1> QED
  BY <1>5

-----------------------------------------------------------------------------
(* The request: one turn of the loop takes something, and counts it.       *)

(* What a turn leaves before the size is checked. *)
TurnFits(r, n) ==
  /\ RequestTypes(r)
  /\ r.status \in {"waitForRequest", "waitForHeader"} =>
       /\ r.lineBuffer \in Seq(Tokens)
       /\ ~ r.multipart /\ r.body = << >> /\ r.tempFile = << >>
  /\ r.status = "waitForBody" =>
       /\ r.expected \in Int /\ r.body \in Seq(Tokens) /\ r.tempFile \in Seq(Tokens)
       /\ Wanted(IF r.multipart THEN r.tempFile ELSE r.body, r.expected)
  /\ r.status = "complete" /\ r.multipart => Len(r.tempFile) <= MaxMultiPartSize
  /\ r.status # "abort" /\ ~ r.multipart =>
       r.status # "crashed" /\ r.currentSize \in Nat /\ n <= r.currentSize

(* It takes something, or ends the request. *)
TurnTakes(read, input, r) ==
  /\ read.taken \in 0 .. Len(input)
  /\ read.taken = 0 =>
       read.request.status \in Ended /\ r.status = "waitForBody" /\ r.expected < 0

LEMMA ReadLineIs ==
  ASSUME NEW S, NEW input \in Seq(S), input # << >>, NEW most \in Int, most >= 1
  PROVE  ReadLine(input, most) \in Seq(S) /\ Len(ReadLine(input, most)) \in 1 .. Len(input)
<1> DEFINE I == {i \in 1 .. Len(input) : input[i] = "lf"}
           end == IF I # {} THEN Min(I) ELSE 0
           n == IF end = 0 THEN Len(input) ELSE end
           k == IF most \in 1 .. n THEN most ELSE n
<1>1. ReadLine(input, most) = SubSeq(input, 1, k)
  BY DEF ReadLine, SelectInSeq
<1>2. Len(input) \in Nat /\ Len(input) # 0
  BY EmptySeq
<1>3. n \in 1 .. Len(input)
  <2>1. CASE I # {}
    <3>1. Min(I) \in I
      <4>1. I \subseteq Nat
        OBVIOUS
      <4> HIDE DEF I
      <4> QED
        BY <2>1, <4>1, LeastIs
    <3> QED
      BY <2>1, <3>1
  <2>2. CASE I = {}
    BY <1>2, <2>2
  <2> QED
    BY <2>1, <2>2
<1> HIDE DEF n
<1>4. k \in 1 .. Len(input)
  BY <1>2, <1>3
<1> HIDE DEF k
<1>5. SubSeq(input, 1, k) \in Seq(S) /\ Len(SubSeq(input, 1, k)) = k
  BY <1>2, <1>4, SubSeqProperties
<1> QED
  BY <1>1, <1>4, <1>5

(* The line buffer grows by what was read, and currentSize by no less. *)
LEMMA AppendLineIs ==
  ASSUME NEW r, NEW n \in Nat, RequestTypes(r), HeadFits(r, n),
         NEW input \in Seq(Tokens), input # << >>
  PROVE  LET read == AppendLine(r, input)
             q == read.request IN
         /\ DOMAIN read = {"taken", "request"}
         /\ read.taken \in 1 .. Len(input)
         /\ DOMAIN q = RequestFields
         /\ q.multipart \in BOOLEAN
         /\ q.status = r.status /\ ~ q.multipart /\ q.body = << >> /\ q.tempFile = << >>
         /\ q.lineBuffer \in Seq(Tokens)
         /\ q.currentSize \in Nat /\ n + read.taken <= q.currentSize
<1> DEFINE piece == ReadLine(input, MaxSize - r.currentSize + 1)
           buffer == r.lineBuffer \o piece
           q == [r EXCEPT !.lineBuffer = buffer, !.currentSize = @ + Len(buffer)]
<1>1. MaxSize - r.currentSize + 1 \in Int /\ MaxSize - r.currentSize + 1 >= 1
  BY SizesAssumption DEF HeadFits
<1>2. piece \in Seq(Tokens) /\ Len(piece) \in 1 .. Len(input)
  BY <1>1, ReadLineIs
<1> HIDE DEF piece
<1>3. buffer \in Seq(Tokens) /\ Len(buffer) = Len(r.lineBuffer) + Len(piece)
      /\ Len(r.lineBuffer) \in Nat /\ Len(piece) \in Nat
  BY <1>2, ConcatProperties, LenProperties DEF HeadFits
<1> HIDE DEF buffer
<1>4. /\ DOMAIN q = RequestFields
      /\ q.status = r.status /\ q.multipart = r.multipart /\ q.body = r.body /\ q.tempFile = r.tempFile
      /\ q.lineBuffer = buffer /\ q.currentSize = r.currentSize + Len(buffer)
  BY DEF RequestTypes, RequestFields
<1> HIDE DEF q
<1>5. q.currentSize \in Nat /\ n + Len(piece) <= q.currentSize
  BY <1>3, <1>4 DEF HeadFits
<1>6. AppendLine(r, input) = [taken |-> Len(piece), request |-> q]
  BY DEF AppendLine, piece, buffer, q
<1> QED
  BY <1>2, <1>3, <1>4, <1>5, <1>6 DEF HeadFits, RequestTypes

LEMMA ReadRequestIs ==
  ASSUME NEW r, NEW n \in Nat, RequestTypes(r), HeadFits(r, n), r.status = "waitForRequest",
         NEW input \in Seq(Tokens), input # << >>
  PROVE  LET read == ReadRequest(r, input) IN
         read.taken \in 1 .. Len(input) /\ TurnFits(read.request, n + read.taken)
<1> DEFINE read == AppendLine(r, input)
           q == read.request
           line == Trimmed(q.lineBuffer)
           next == [q EXCEPT !.lineBuffer = << >>]
           known == [next EXCEPT !.status = "waitForHeader", !.first = line[1]]
           broken == [next EXCEPT !.status = "abort"]
<1>1. /\ DOMAIN read = {"taken", "request"}
      /\ read.taken \in 1 .. Len(input)
      /\ DOMAIN q = RequestFields
      /\ q.multipart \in BOOLEAN
      /\ q.status = "waitForRequest" /\ ~ q.multipart /\ q.body = << >> /\ q.tempFile = << >>
      /\ q.lineBuffer \in Seq(Tokens)
      /\ q.currentSize \in Nat /\ n + read.taken <= q.currentSize
  BY AppendLineIs
<1> DEFINE y == IF line = << >> THEN next
                ELSE IF Len(line) = 1 /\ line[1] \in FirstLines THEN known
                ELSE broken
           x == IF ~ HasLineBreak(q.lineBuffer) THEN q ELSE y
<1>2. ReadRequest(r, input) = IF ~ HasLineBreak(q.lineBuffer) THEN read
                              ELSE [read EXCEPT !.request = y]
  BY DEF ReadRequest
<1>3. x = q \/ x = next \/ x = known \/ x = broken
  OBVIOUS
<1> HIDE DEF read, line, y
<1>4. ReadRequest(r, input).taken = read.taken /\ ReadRequest(r, input).request = x
  BY <1>1, <1>2
<1> HIDE DEF q, x
<1> DEFINE Alike(z) == /\ DOMAIN z = RequestFields
                       /\ z.status \in {"waitForRequest", "waitForHeader", "abort"}
                       /\ z.lineBuffer \in Seq(Tokens)
                       /\ z.multipart = q.multipart /\ z.body = q.body /\ z.tempFile = q.tempFile
                       /\ z.currentSize = q.currentSize
<1>5. Alike(q) /\ Alike(next)
  BY <1>1, EmptySeq DEF RequestFields
<1>6. Alike(known) /\ Alike(broken)
  <2>1. DOMAIN next = RequestFields
    BY <1>5
  <2> HIDE DEF next
  <2> QED
    BY <1>5, <2>1 DEF RequestFields
<1> HIDE DEF next, known, broken
<1>7. Alike(x)
  BY <1>3, <1>5, <1>6
<1>8. TurnFits(x, n + read.taken)
  BY <1>1, <1>7 DEF TurnFits, RequestTypes, Reading, Ended
<1> QED
  BY <1>1, <1>4, <1>8

LEMMA HeadersCompletedIs ==
  ASSUME NEW r, NEW n, DOMAIN r = RequestFields, r.body = << >>, r.tempFile = << >>,
         r.currentSize \in Nat, n <= r.currentSize
  PROVE  TurnFits(HeadersCompleted(r), n)
<1> DEFINE m == ToInt(HeaderValue(r, "content-length"))
           multipart == HeaderValue(r, "content-type") = "multipart"
           s == [r EXCEPT !.expected = m, !.multipart = multipart]
           q == HeadersCompleted(r)
<1>1. m \in Int
  BY DEF ToInt
<1>2. \E status \in {"complete", "abort", "waitForBody"} :
        q = [s EXCEPT !.status = status] /\ (status # "complete" => m # 0)
  BY DEF HeadersCompleted
<1>3. multipart \in BOOLEAN
  OBVIOUS
<1> HIDE DEF m, multipart, q
<1>4. /\ DOMAIN q = RequestFields /\ q.status \in {"complete", "abort", "waitForBody"}
      /\ q.status # "complete" => m # 0
      /\ q.expected = m /\ q.multipart = multipart
      /\ q.body = r.body /\ q.tempFile = r.tempFile /\ q.currentSize = r.currentSize
  BY <1>2 DEF RequestFields
<1>5. << >> \in Seq(Tokens) /\ Len(<< >>) = 0
  BY EmptySeq
<1>6. q.status = "waitForBody" => Wanted(q.tempFile, q.expected) /\ Wanted(q.body, q.expected)
  BY <1>1, <1>4, <1>5 DEF Wanted
<1>7. Len(q.tempFile) <= MaxMultiPartSize
  BY <1>4, <1>5, SizesAssumption
<1>8. RequestTypes(q)
  BY <1>3, <1>4 DEF RequestTypes, Reading, Ended
<1>9. q.expected \in Int /\ q.body \in Seq(Tokens) /\ q.tempFile \in Seq(Tokens)
  BY <1>1, <1>4, <1>5
<1>10. q.currentSize \in Nat /\ n <= q.currentSize
  BY <1>4
<1>11. TurnFits(q, n)
  BY <1>4, <1>6, <1>7, <1>8, <1>9, <1>10 DEF TurnFits
<1> QED
  BY <1>11 DEF q

LEMMA ReadHeaderIs ==
  ASSUME NEW r, NEW n \in Nat, RequestTypes(r), HeadFits(r, n), r.status = "waitForHeader",
         NEW input \in Seq(Tokens), input # << >>
  PROVE  LET read == ReadHeader(r, input) IN
         read.taken \in 1 .. Len(input) /\ TurnFits(read.request, n + read.taken)
<1> DEFINE read == AppendLine(r, input)
           q == read.request
           line == Trimmed(q.lineBuffer)
           next == [q EXCEPT !.lineBuffer = << >>]
           last == IF next.headers = << >> THEN NoHeader ELSE Last(next.headers)
           known == [next EXCEPT !.headers = Append(@, HeaderLine[line[1]])]
           folded == [next EXCEPT !.headers = Append(@, [last EXCEPT !.value = "folded"])]
           whole == HeadersCompleted(next)
<1>1. /\ DOMAIN read = {"taken", "request"}
      /\ read.taken \in 1 .. Len(input)
      /\ DOMAIN q = RequestFields
      /\ q.multipart \in BOOLEAN
      /\ q.status = "waitForHeader" /\ ~ q.multipart /\ q.body = << >> /\ q.tempFile = << >>
      /\ q.lineBuffer \in Seq(Tokens)
      /\ q.currentSize \in Nat /\ n + read.taken <= q.currentSize
  BY AppendLineIs
<1> DEFINE y == IF line = << >> THEN whole
                ELSE IF line[1] # "more" THEN known
                ELSE IF last = NoHeader THEN next
                ELSE folded
           x == IF ~ HasLineBreak(q.lineBuffer) THEN q ELSE y
<1>2. ReadHeader(r, input) = IF ~ HasLineBreak(q.lineBuffer) THEN read
                             ELSE [read EXCEPT !.request = y]
  BY DEF ReadHeader
<1>3. x = q \/ x = next \/ x = known \/ x = folded \/ x = whole
  OBVIOUS
<1> HIDE DEF read, line, last, y
<1>4. ReadHeader(r, input).taken = read.taken /\ ReadHeader(r, input).request = x
  BY <1>1, <1>2
<1> HIDE DEF q, x
<1> DEFINE Alike(z) == /\ DOMAIN z = RequestFields
                       /\ z.status = "waitForHeader"
                       /\ z.lineBuffer \in Seq(Tokens)
                       /\ z.multipart = q.multipart /\ z.body = q.body /\ z.tempFile = q.tempFile
                       /\ z.currentSize = q.currentSize
<1>5. Alike(q) /\ Alike(next)
  BY <1>1, EmptySeq DEF RequestFields
<1> HIDE DEF next
<1>6. Alike(known) /\ Alike(folded)
  <2>1. DOMAIN next = RequestFields
    BY <1>5
  <2> QED
    BY <1>5, <2>1 DEF RequestFields
<1> HIDE DEF known, folded
<1>7. TurnFits(whole, n + read.taken)
  BY <1>1, <1>5, HeadersCompletedIs
<1> HIDE DEF whole
<1>8. \A z : Alike(z) => TurnFits(z, n + read.taken)
  BY <1>1 DEF TurnFits, RequestTypes, Reading, Ended
<1> HIDE DEF Alike
<1>9. TurnFits(x, n + read.taken)
  BY <1>3, <1>5, <1>6, <1>7, <1>8
<1> QED
  BY <1>1, <1>4, <1>9

(* The part of the input that a body still wants. *)
LEMMA MissingPieceIs ==
  ASSUME NEW input \in Seq(Tokens), input # << >>,
         NEW body \in Seq(Tokens), NEW expected \in Int, Wanted(body, expected)
  PROVE  LET piece == MissingPiece(body, expected, input) IN
         /\ piece \in Seq(Tokens) /\ Len(piece) \in 0 .. Len(input)
         /\ body \o piece \in Seq(Tokens) /\ Len(body \o piece) \in Nat
         /\ Len(piece) = 0 => Len(body \o piece) >= expected /\ expected < 0
         /\ Len(body \o piece) < expected => Wanted(body \o piece, expected)
<1> DEFINE missing == expected - Len(body)
           k == IF missing < Len(input) THEN missing ELSE Len(input)
           piece == SubSeq(input, 1, k)
<1>1. Len(input) \in Nat /\ Len(input) # 0 /\ Len(body) \in Nat
  BY EmptySeq, LenProperties
<1>2. k \in Int /\ k <= Len(input) /\ (expected >= 0 => k >= 1) /\ (expected < 0 => k < 1)
  BY <1>1, EmptySeq DEF Wanted
<1>3. \A i \in 1 .. k : input[i] \in Tokens
  BY <1>1, <1>2
<1> HIDE DEF k
<1>4. piece \in Seq(Tokens) /\ Len(piece) = IF 1 <= k THEN k ELSE 0
  <2>1. Len(piece) = IF 1 <= k THEN k - 1 + 1 ELSE 0
    BY <1>2, <1>3, SubSeqProperties
  <2> QED
    BY <1>2, <1>3, <2>1, SubSeqProperties
<1> HIDE DEF piece
<1>5. body \o piece \in Seq(Tokens) /\ Len(body \o piece) = Len(body) + Len(piece)
  BY <1>4, ConcatProperties
<1>6. MissingPiece(body, expected, input) = piece
  BY DEF MissingPiece, piece, k
<1>7. Len(piece) \in 0 .. Len(input) /\ (Len(piece) = 0 => expected < 0)
  BY <1>1, <1>2, <1>4
<1>8. Len(body \o piece) < expected => Wanted(body \o piece, expected)
  BY <1>1, <1>5, <1>7 DEF Wanted
<1> QED
  BY <1>1, <1>4, <1>5, <1>6, <1>7, <1>8

LEMMA ReadPlainBodyIs ==
  ASSUME NEW r, NEW n \in Nat, RequestTypes(r), BodyFits(r, n), r.status = "waitForBody",
         ~ r.multipart, NEW input \in Seq(Tokens), input # << >>
  PROVE  LET read == ReadPlainBody(r, input) IN
         TurnTakes(read, input, r) /\ TurnFits(read.request, n + read.taken)
<1> DEFINE piece == MissingPiece(r.body, r.expected, input)
           next == [r EXCEPT !.body = @ \o piece, !.currentSize = @ + Len(piece)]
           q == IF Len(next.body) >= r.expected THEN [next EXCEPT !.status = "complete"] ELSE next
<1>1. /\ piece \in Seq(Tokens) /\ Len(piece) \in 0 .. Len(input)
      /\ r.body \o piece \in Seq(Tokens) /\ Len(r.body \o piece) \in Nat
      /\ Len(piece) = 0 => Len(r.body \o piece) >= r.expected /\ r.expected < 0
      /\ Len(r.body \o piece) < r.expected => Wanted(r.body \o piece, r.expected)
  BY MissingPieceIs DEF BodyFits
<1> HIDE DEF piece
<1>2. /\ DOMAIN next = RequestFields /\ next.status = "waitForBody" /\ next.multipart = r.multipart
      /\ next.expected = r.expected /\ next.tempFile = r.tempFile
      /\ next.body = r.body \o piece /\ next.currentSize = r.currentSize + Len(piece)
  BY DEF RequestTypes, RequestFields
<1> HIDE DEF next
<1>3. /\ DOMAIN q = RequestFields /\ q.multipart = r.multipart
      /\ q.expected = r.expected /\ q.tempFile = r.tempFile
      /\ q.body = next.body /\ q.currentSize = next.currentSize
      /\ \/ q.status = "complete"
         \/ q.status = "waitForBody" /\ ~ (Len(next.body) >= r.expected)
  BY <1>2 DEF RequestFields
<1>4. ReadPlainBody(r, input) = [taken |-> Len(piece), request |-> q]
  BY DEF ReadPlainBody, piece, next, q
<1> HIDE DEF q
<1>5. q.currentSize \in Nat /\ n + Len(piece) <= q.currentSize
  <2>1. Len(input) \in Nat
    BY LenProperties
  <2> QED
    BY <1>1, <1>2, <1>3, <2>1 DEF BodyFits
<1>6. q.status = "waitForBody" => Wanted(q.body, q.expected) /\ Len(piece) # 0
  BY <1>1, <1>2, <1>3 DEF BodyFits
<1>7. q.body \in Seq(Tokens) /\ q.expected \in Int /\ q.tempFile \in Seq(Tokens)
  BY <1>1, <1>2, <1>3 DEF BodyFits
<1>8. TurnFits(q, n + Len(piece))
  BY <1>3, <1>5, <1>6, <1>7 DEF TurnFits, RequestTypes, Reading, Ended
<1>9. TurnTakes([taken |-> Len(piece), request |-> q], input, r)
  BY <1>1, <1>3, <1>6 DEF TurnTakes, Ended
<1> QED
  BY <1>4, <1>8, <1>9

LEMMA ReadMultiPartBodyIs ==
  ASSUME NEW r, NEW n \in Nat, RequestTypes(r), BodyFits(r, n), r.status = "waitForBody",
         r.multipart, NEW input \in Seq(Tokens), input # << >>
  PROVE  LET read == ReadMultiPartBody(r, input) IN
         TurnTakes(read, input, r) /\ TurnFits(read.request, n + read.taken)
<1> DEFINE piece == MissingPiece(r.tempFile, r.expected, input)
           next == [r EXCEPT !.tempFile = @ \o piece]
           tooLarge == [next EXCEPT !.status = "abort"]
           whole == ParseMultiPartFile(next)
           q == IF Len(next.tempFile) >= MaxMultiPartSize THEN tooLarge
                ELSE IF Len(next.tempFile) >= r.expected THEN whole ELSE next
<1>1. /\ piece \in Seq(Tokens) /\ Len(piece) \in 0 .. Len(input)
      /\ r.tempFile \o piece \in Seq(Tokens) /\ Len(r.tempFile \o piece) \in Nat
      /\ Len(piece) = 0 => Len(r.tempFile \o piece) >= r.expected /\ r.expected < 0
      /\ Len(r.tempFile \o piece) < r.expected => Wanted(r.tempFile \o piece, r.expected)
  BY MissingPieceIs DEF BodyFits
<1> HIDE DEF piece
<1>2. /\ DOMAIN next = RequestFields /\ next.status = "waitForBody" /\ next.multipart = r.multipart
      /\ next.expected = r.expected /\ next.body = r.body
      /\ next.tempFile = r.tempFile \o piece
  BY DEF RequestTypes, RequestFields
<1> HIDE DEF next
<1>3. /\ DOMAIN whole = RequestFields /\ whole.multipart = r.multipart
      /\ whole.status \in {"complete", "crashed"} /\ whole.tempFile = next.tempFile
  BY <1>2 DEF ParseMultiPartFile, RequestFields
<1>4. /\ DOMAIN tooLarge = RequestFields /\ tooLarge.multipart = r.multipart
      /\ tooLarge.status = "abort"
  BY <1>2 DEF RequestFields
<1>5. ReadMultiPartBody(r, input) = [taken |-> Len(piece), request |-> q]
  BY DEF ReadMultiPartBody, piece, next, q
<1> HIDE DEF whole, tooLarge, q
<1>6. CASE q = tooLarge
  <2>1. TurnFits(q, n + Len(piece))
    BY <1>4, <1>6 DEF TurnFits, RequestTypes, Reading, Ended
  <2>2. TurnTakes([taken |-> Len(piece), request |-> q], input, r)
    BY <1>1, <1>4, <1>6 DEF TurnTakes, Ended
  <2> QED
    BY <1>5, <2>1, <2>2
<1>7. CASE q = whole /\ ~ (Len(next.tempFile) >= MaxMultiPartSize)
  <2>1. Len(q.tempFile) <= MaxMultiPartSize
    BY <1>1, <1>2, <1>3, <1>7, SizesAssumption
  <2>2. TurnFits(q, n + Len(piece))
    BY <1>3, <1>7, <2>1 DEF TurnFits, RequestTypes, Reading, Ended
  <2>3. TurnTakes([taken |-> Len(piece), request |-> q], input, r)
    BY <1>1, <1>3, <1>7 DEF TurnTakes, Ended
  <2> QED
    BY <1>5, <2>2, <2>3
<1>8. CASE q = next /\ ~ (Len(next.tempFile) >= r.expected)
  <2> DEFINE file == r.tempFile \o piece
  <2>1. r.expected \in Int /\ ~ (Len(file) >= r.expected) /\ Len(file) \in Nat
    BY <1>1, <1>2, <1>8 DEF BodyFits
  <2> HIDE DEF file
  <2>2. Len(file) < r.expected /\ (Len(piece) = 0 => Len(file) >= r.expected)
    BY <1>1, <2>1 DEF file
  <2>3. q.tempFile = file /\ q.expected = r.expected
    BY <1>2, <1>8 DEF file
  <2>4. Wanted(q.tempFile, q.expected) /\ Len(piece) # 0
    BY <1>1, <2>1, <2>2, <2>3 DEF file
  <2>5. TurnFits(q, n + Len(piece))
    BY <1>1, <1>2, <1>8, <2>4 DEF TurnFits, RequestTypes, Reading, Ended, BodyFits
  <2>6. TurnTakes([taken |-> Len(piece), request |-> q], input, r)
    BY <1>1, <2>4 DEF TurnTakes
  <2> QED
    BY <1>5, <2>5, <2>6
<1> QED
  BY <1>6, <1>7, <1>8 DEF q

(* One turn of the loop. *)
LEMMA ReadFromSocketIs ==
  ASSUME NEW r, NEW n \in Nat, RequestFits(r, n), r.status \in Reading,
         NEW input \in Seq(Tokens), input # << >>
  PROVE  LET read == ReadFromSocket(r, input) IN
         TurnTakes(read, input, r) /\ TurnFits(read.request, n + read.taken)
<1>1. CASE r.status = "waitForRequest"
  BY <1>1, ReadRequestIs DEF RequestFits, ReadFromSocket, TurnTakes
<1>2. CASE r.status = "waitForHeader"
  BY <1>2, ReadHeaderIs DEF RequestFits, ReadFromSocket, TurnTakes
<1>3. CASE r.status = "waitForBody"
  <2>1. ReadFromSocket(r, input) = ReadBody(r, input)
    BY <1>3 DEF ReadFromSocket
  <2> QED
    BY <1>3, <2>1, ReadPlainBodyIs, ReadMultiPartBodyIs DEF RequestFits, ReadBody
<1> QED
  BY <1>1, <1>2, <1>3 DEF Reading

LEMMA CheckedFits ==
  ASSUME NEW r, NEW n \in Nat, TurnFits(r, n)
  PROVE  RequestFits(Checked(r), n)
<1>1. CASE Checked(r) = [r EXCEPT !.status = "abort"]
  <2>1. DOMAIN Checked(r) = RequestFields /\ Checked(r).status = "abort"
        /\ Checked(r).multipart = r.multipart
    BY <1>1 DEF TurnFits, RequestTypes, RequestFields
  <2> QED
    BY <2>1 DEF RequestFits, RequestTypes, TurnFits, Ended
<1>2. CASE r.status = "crashed"
  BY <1>2 DEF Checked, RequestFits, TurnFits
<1>3. CASE r.status # "crashed"
           /\ ~ (r.currentSize > (IF r.multipart THEN MaxMultiPartSize ELSE MaxSize))
           /\ Checked(r) # [r EXCEPT !.status = "abort"]
  <2>1. r.status # "abort" /\ ~ r.multipart => r.currentSize <= MaxSize
    BY <1>3, SizesAssumption DEF TurnFits
  <2>2. CASE r.status = "complete"
    <3>1. Checked(r) = r \/ Checked(r) = [r EXCEPT !.parameters = @ \cup {"body"}]
      BY <1>3, <2>2 DEF Checked, DecodeRequestParams
    <3>2. DOMAIN Checked(r) = RequestFields /\ Checked(r).status = "complete"
          /\ Checked(r).multipart = r.multipart /\ Checked(r).tempFile = r.tempFile
      BY <2>2, <3>1 DEF TurnFits, RequestTypes, RequestFields
    <3>3. ~ r.multipart => n <= MaxSize
      BY <2>1, <2>2, SizesAssumption DEF TurnFits
    <3> QED
      BY <2>2, <3>2, <3>3 DEF RequestFits, RequestTypes, WholeFits, TurnFits
  <2>3. CASE r.status # "complete"
    <3>1. Checked(r) = r
      BY <1>3, <2>3 DEF Checked
    <3>2. r.status \in {"waitForRequest", "waitForHeader"} => HeadFits(r, n)
      BY <2>1 DEF TurnFits, HeadFits
    <3>3. r.status = "waitForBody" => BodyFits(r, n)
      BY <2>1 DEF TurnFits, BodyFits, RequestTypes
    <3> QED
      BY <2>3, <3>1, <3>2, <3>3 DEF RequestFits, TurnFits
  <2> QED
    BY <2>2, <2>3
<1> QED
  BY <1>1, <1>2, <1>3 DEF Checked

-----------------------------------------------------------------------------
(* The response.                                                           *)

LEMMA NewResponseFits ==
  ResponseFits(NewResponse) /\ ~ NewResponse.sentHeaders /\ ~ NewResponse.sentLastPart
BY DEF ResponseFits, ResponseTypes, NewResponse, NoLength, Values

LEMMA SetHeaderFits ==
  ASSUME NEW p, ResponseFits(p), ~ p.sentHeaders,
         NEW name \in {"Connection", "connection"}, NEW value \in {"close", "keep-alive"}
  PROVE  LET q == SetHeader(p, name, value) IN
         /\ ResponseFits(q) /\ ~ q.sentHeaders /\ ~ q.sentLastPart
         /\ p.headers.Connection # "none" => q.headers.Connection # "none"
         /\ name = "Connection" => q.headers.Connection # "none"
<1> DEFINE h == [p.headers EXCEPT ![name] = value]
           q == [p EXCEPT !.headers = h]
<1>1. ResponseTypes(p) /\ p.headers \in [Connection : Values, connection : Values]
  BY DEF ResponseFits, ResponseTypes
<1>2. h \in [Connection : Values, connection : Values]
  BY <1>1 DEF Values
<1>3. /\ p.headers.Connection # "none" => h.Connection # "none"
      /\ name = "Connection" => h.Connection # "none"
  BY <1>1
<1> HIDE DEF h
<1>4. /\ ResponseTypes(q) /\ q.headers = h /\ q.sentHeaders = p.sentHeaders
      /\ q.sentLastPart = p.sentLastPart /\ q.chunkedMode = p.chunkedMode /\ q.body = p.body
  BY <1>1, <1>2 DEF ResponseTypes
<1>5. SetHeader(p, name, value) = q
  BY DEF SetHeader, q, h
<1> HIDE DEF q
<1> QED
  BY <1>3, <1>4, <1>5 DEF ResponseFits

(* The length changes only before the headers are sent. *)
LEMMA LengthFits ==
  ASSUME NEW p, ResponseFits(p), ~ p.sentHeaders,
         NEW q, q = SetLength(p, 2) \/ q = [p EXCEPT !.redirected = TRUE]
  PROVE  /\ ResponseFits(q) /\ ~ q.sentHeaders /\ ~ q.sentLastPart
         /\ q.headers = p.headers
<1>1. /\ ResponseTypes(q) /\ q.headers = p.headers /\ q.sentHeaders = p.sentHeaders
      /\ q.sentLastPart = p.sentLastPart /\ q.chunkedMode = p.chunkedMode /\ q.body = p.body
  <2>1. CASE q = SetLength(p, 2)
    BY <2>1 DEF ResponseFits, ResponseTypes, SetLength
  <2>2. CASE q = [p EXCEPT !.redirected = TRUE]
    BY <2>2 DEF ResponseFits, ResponseTypes
  <2> QED
    BY <2>1, <2>2
<1> QED
  BY <1>1 DEF ResponseFits

(* The first write chooses how the end is told, and the choice remains. *)
LEMMA WriteFits ==
  ASSUME NEW p, ResponseFits(p), ~ p.sentLastPart, NEW n \in Nat, NEW lastPart \in BOOLEAN
  PROVE  LET w == Write(p, n, lastPart) IN
         ResponseFits(w) /\ w.headers = p.headers /\ w.sentLastPart = lastPart
<1> DEFINE c == ChooseFraming(p, n, lastPart)
           q == IF p.sentHeaders THEN p ELSE WriteHeaders(c)
           w == [q EXCEPT !.body = @ + n, !.sentLastPart = lastPart,
                          !.ended = lastPart /\ q.chunkedMode]
<1>1. Write(p, n, lastPart) = w
  BY DEF Write
<1>2. /\ ResponseTypes(q) /\ q.headers = p.headers /\ q.sentHeaders
      /\ q.told = [chunked |-> q.chunkedMode, length |-> q.length]
      /\ q.chunkedMode => ~ SaysClose(p)
      /\ ~ q.chunkedMode => SaysClose(p) \/ (lastPart /\ q.length = q.body + n)
  <2>1. CASE p.sentHeaders
    BY <2>1 DEF ResponseFits
  <2>2. CASE ~ p.sentHeaders
    <3>1. /\ ResponseTypes(c) /\ c.headers = p.headers /\ c.body = 0
          /\ c.chunkedMode => ~ SaysClose(p)
          /\ ~ c.chunkedMode => SaysClose(p) \/ (lastPart /\ c.length = n)
      <4>1. ~ p.chunkedMode /\ p.body = 0 /\ ResponseTypes(p)
        BY <2>2 DEF ResponseFits
      <4>2. CASE lastPart
        BY <4>1, <4>2 DEF ChooseFraming, ResponseTypes
      <4>3. CASE ~ lastPart /\ SaysClose(p)
        BY <4>1, <4>3 DEF ChooseFraming, ResponseTypes
      <4>4. CASE ~ lastPart /\ ~ SaysClose(p)
        BY <4>1, <4>4 DEF ChooseFraming, ResponseTypes
      <4> QED
        BY <4>2, <4>3, <4>4
    <3> HIDE DEF c
    <3>2. /\ ResponseTypes(q) /\ q.headers = c.headers /\ q.body = c.body /\ q.sentHeaders
          /\ q.chunkedMode = c.chunkedMode /\ q.length = c.length
          /\ q.told = [chunked |-> c.chunkedMode, length |-> c.length]
      BY <2>2, <3>1 DEF WriteHeaders, ResponseTypes
    <3> HIDE DEF q
    <3> QED
      BY <3>1, <3>2
  <2> QED
    BY <2>1, <2>2
<1> HIDE DEF q, c
<1> DEFINE b == q.body + n
           e == lastPart /\ q.chunkedMode
<1>3. b \in Nat /\ e \in BOOLEAN
  BY <1>2 DEF ResponseTypes
<1>4. w = [q EXCEPT !.body = b, !.sentLastPart = lastPart, !.ended = e]
  OBVIOUS
<1> HIDE DEF w, b, e
<1>5. /\ ResponseTypes(w) /\ w.headers = q.headers /\ w.body = b /\ w.sentHeaders
      /\ w.chunkedMode = q.chunkedMode /\ w.length = q.length /\ w.told = q.told
      /\ w.sentLastPart = lastPart /\ w.ended = e
  BY <1>2, <1>3, <1>4 DEF ResponseTypes
<1>6. SaysClose(w) <=> SaysClose(p)
  BY <1>2, <1>5 DEF SaysClose
<1>7. ResponseFits(w)
  BY <1>2, <1>5, <1>6 DEF ResponseFits, b, e
<1> QED
  BY <1>1, <1>2, <1>5, <1>7

LEMMA RedirectFits ==
  ASSUME NEW p, ResponseFits(p), ~ p.sentHeaders
  PROVE  ResponseFits(Redirect(p)) /\ Redirect(p).headers = p.headers
<1> DEFINE q == [p EXCEPT !.redirected = TRUE]
<1>1. ResponseFits(q) /\ ~ q.sentLastPart
  BY LengthFits
<1>2. q.headers = p.headers
  BY DEF ResponseFits, ResponseTypes
<1> HIDE DEF q
<1>3. ResponseFits(Write(q, 1, TRUE)) /\ Write(q, 1, TRUE).headers = q.headers
  BY <1>1, WriteFits
<1> QED
  BY <1>2, <1>3 DEF Redirect, q

-----------------------------------------------------------------------------
(* The invariant is kept.                                                  *)

LEMMA ExchangeStarts == Init => ExchangeInv
<1> SUFFICES ASSUME Init PROVE ExchangeInv
  OBVIOUS
<1>1. Wire \in Seq(Tokens) /\ Len(Wire) \in Nat
  BY WireIs DEF Init
<1> QED
  BY <1>1 DEF Init, ExchangeInv, ExchangeTypes, ServiceFits, NoHistory

LEMMA InputIs ==
  ASSUME ExchangeTypes, Input # << >>
  PROVE  Input \in Seq(Tokens) /\ taken + Len(Input) <= arrived /\ Len(Input) \in Nat
<1>1. Wire \in Seq(Tokens) /\ Len(Wire) \in Nat
  BY WireIs DEF ExchangeTypes
<1>2. /\ taken + 1 \in 1 .. Len(Wire) + 1 /\ arrived \in taken .. Len(Wire)
  BY <1>1 DEF ExchangeTypes
<1>3. SubSeq(Wire, taken + 1, arrived) \in Seq(Tokens)
      /\ Len(SubSeq(Wire, taken + 1, arrived)) = IF taken + 1 <= arrived THEN arrived - (taken + 1) + 1 ELSE 0
  BY <1>1, <1>2, SubSeqProperties DEF ExchangeTypes
<1> QED
  BY <1>3 DEF Input, ExchangeTypes

(* The request that the next turn of the loop works on. *)
LEMMA CurrentRequestFits ==
  ASSUME ExchangeInv, MayRead
  PROVE  LET n == IF request = NoRequest THEN 0 ELSE taken - history.start IN
         /\ n \in Nat /\ RequestFits(CurrentRequest, n) /\ CurrentRequest.status \in Reading
<1>1. CASE request = NoRequest
  <2>1. RequestFits(NewRequest, 0) /\ NewRequest.status = "waitForRequest"
    BY EmptySeq, SizesAssumption
    DEF NewRequest, RequestFits, RequestTypes, HeadFits, RequestFields, Reading, Ended
  <2> QED
    BY <1>1, <2>1 DEF CurrentRequest, Reading
<1>2. CASE request # NoRequest
  <2>1. RequestFits(request, taken - history.start) /\ taken - history.start \in Nat
    BY <1>2 DEF ExchangeInv, ExchangeTypes
  <2> QED
    BY <1>2, <2>1 DEF CurrentRequest, MayRead, RequestFits, RequestTypes, Ended
<1> QED
  BY <1>1, <1>2

LEMMA ReadTurnIs ==
  ASSUME ExchangeInv, ReadTurn
  PROVE  ExchangeInv'
<1> DEFINE n == IF request = NoRequest THEN 0 ELSE taken - history.start
           read == ReadFromSocket(CurrentRequest, Input)
<1>1. MayRead /\ Input # << >> /\ at = "readHttp"
  BY DEF ReadTurn, MayRead
<1>2. n \in Nat /\ RequestFits(CurrentRequest, n) /\ CurrentRequest.status \in Reading
  BY <1>1, CurrentRequestFits
<1>3. Input \in Seq(Tokens) /\ taken + Len(Input) <= arrived /\ Len(Input) \in Nat
  BY <1>1, InputIs DEF ExchangeInv
<1>4. read.taken \in 0 .. Len(Input) /\ TurnFits(read.request, n + read.taken)
  BY <1>1, <1>2, <1>3, ReadFromSocketIs DEF TurnTakes
<1>5. /\ request' = Checked(read.request)
      /\ taken' = taken + read.taken
      /\ DOMAIN history' = DOMAIN history
      /\ history'.start = IF request = NoRequest THEN taken ELSE history.start
      /\ UNCHANGED <<script, arrived, at>>
  BY DEF ReadTurn, ExchangeInv, ExchangeTypes
<1> HIDE DEF read
<1>6. taken' - history'.start = n + read.taken /\ n + read.taken \in Nat
  BY SMTT(30), <1>2, <1>3, <1>4, <1>5 DEF ExchangeInv, ExchangeTypes
<1>7. RequestFits(Checked(read.request), n + read.taken)
  BY <1>4, <1>6, CheckedFits
<1>8. ExchangeTypes'
  <2>1. Wire' = Wire
    BY <1>5 DEF Wire
  <2> QED
    BY <1>3, <1>4, <1>5, <2>1 DEF ExchangeInv, ExchangeTypes
<1>9. RequestFits(request', taken' - history'.start)
  BY <1>5, <1>6, <1>7
<1> QED
  BY <1>1, <1>5, <1>8, <1>9 DEF ExchangeInv, ServiceFits

LEMMA ExchangeKept ==
  ASSUME ExchangeInv, [Next]_vars
  PROVE  ExchangeInv'
<1>1. CASE UNCHANGED vars
  BY <1>1 DEF vars, ExchangeInv, ExchangeTypes, ServiceFits, Wire
<1>2. ASSUME NEW n \in 1 .. Len(Wire), Arrive(n) PROVE ExchangeInv'
  <2>1. Len(Wire) \in Nat /\ Wire' = Wire
    BY <1>2, WireIs DEF Arrive, ExchangeInv, ExchangeTypes, Wire
  <2>2. /\ arrived' = arrived + n /\ arrived + n <= Len(Wire)
        /\ UNCHANGED <<script, taken, request, response, at, closes, history>>
    BY <1>2 DEF Arrive
  <2>3. ExchangeTypes'
    BY <2>1, <2>2 DEF ExchangeInv, ExchangeTypes
  <2> QED
    BY <2>2, <2>3 DEF ExchangeInv, ServiceFits
<1>3. CASE ReadTurn
  BY <1>3, ReadTurnIs
<1>4. CASE RefuseTooLarge
  <2>1. at = "readHttp"
    BY <1>4 DEF RefuseTooLarge, ExchangeInv, ServiceFits
  <2>2. DOMAIN history' = DOMAIN history /\ history'.start = history.start
    BY <1>4 DEF RefuseTooLarge, ExchangeInv, ExchangeTypes
  <2> QED
    BY <1>4, <2>1, <2>2 DEF RefuseTooLarge, ExchangeInv, ExchangeTypes, ServiceFits, Wire
<1>5. CASE SocketDisconnects
  BY <1>5 DEF SocketDisconnects, ExchangeInv, ExchangeTypes, ServiceFits, Wire
<1>6. CASE StartService
  <2>1. /\ request.status = "complete" /\ at' = "service" /\ closes' \in BOOLEAN
        /\ request.first = "GET 1.0" => closes'
        /\ response' = IF closes' THEN SetHeader(NewResponse, "Connection", "close")
                       ELSE NewResponse
        /\ UNCHANGED <<script, arrived, taken, request, history>>
    BY <1>6 DEF StartService
  <2>2. request # NoRequest
    <3>1. NoRequest.status = "none"
      BY DEF NoRequest
    <3> QED
      BY <2>1, <3>1
  <2>3. ResponseFits(response') /\ (closes' => response'.headers.Connection # "none")
    <3> DEFINE q == SetHeader(NewResponse, "Connection", "close")
    <3>1. ResponseFits(q) /\ q.headers.Connection # "none"
      BY NewResponseFits, SetHeaderFits
    <3> HIDE DEF q
    <3>2. response' = IF closes' THEN q ELSE NewResponse
      BY <2>1 DEF q
    <3> QED
      BY <2>1, <3>1, <3>2, NewResponseFits
  <2> QED
    BY <2>1, <2>2, <2>3 DEF ExchangeInv, ExchangeTypes, ServiceFits, Wire
<1>7. ASSUME at = "service", at' = "service", UNCHANGED <<script, arrived, taken, request, closes, history>>,
             ResponseFits(response) => ResponseFits(response'),
             ResponseFits(response) /\ response.headers.Connection # "none"
               => response'.headers.Connection # "none"
      PROVE  ExchangeInv'
  BY <1>7 DEF ExchangeInv, ExchangeTypes, ServiceFits, Wire
<1>8. CASE ServiceSetsHeader
  <2>1. at = "service" /\ ~ response.sentHeaders
    BY <1>8 DEF ServiceSetsHeader, InService
  <2>2. ASSUME NEW name \in {"Connection", "connection"}, NEW value \in {"close", "keep-alive"},
               Call(SetHeader(response, name, value))
        PROVE  ExchangeInv'
    BY <1>7, <2>1, <2>2, SetHeaderFits DEF Call
  <2>3. CASE Call(SetLength(response, 2))
    BY <1>7, <2>1, <2>3, LengthFits DEF Call
  <2> QED
    BY <1>8, <2>2, <2>3 DEF ServiceSetsHeader
<1>9. CASE ServiceWrites
  <2>1. PICK n \in {0, 2}, lastPart \in BOOLEAN : Call(Write(response, n, lastPart))
    BY <1>9 DEF ServiceWrites
  <2>2. at = "service" /\ ~ response.sentLastPart
    BY <1>9 DEF ServiceWrites, InService
  <2> QED
    <3>1. n \in Nat
      OBVIOUS
    <3>2. ResponseFits(response) => /\ ResponseFits(Write(response, n, lastPart))
                                   /\ Write(response, n, lastPart).headers = response.headers
      BY <2>2, <3>1, WriteFits
    <3> QED
      BY <1>7, <2>1, <2>2, <3>2 DEF Call
<1>10. CASE ServiceRedirects
  <2>1. at = "service" /\ ~ response.sentHeaders /\ Call(Redirect(response))
    BY <1>10 DEF ServiceRedirects, InService
  <2> QED
    BY <1>7, <2>1, RedirectFits DEF Call
<1>11. CASE FinishResponse
  <2>1. /\ at = "service" /\ at' = "returned"
        /\ response' = IF response.sentLastPart THEN response ELSE Write(response, 0, TRUE)
        /\ UNCHANGED <<script, arrived, taken, request, closes, history>>
    BY <1>11 DEF FinishResponse
  <2>2. ResponseFits(response)
    BY <2>1 DEF ExchangeInv, ServiceFits
  <2>3. ResponseFits(response') /\ response'.headers = response.headers /\ response'.sentLastPart
    BY <2>1, <2>2, WriteFits
  <2> QED
    BY <2>1, <2>3 DEF ExchangeInv, ExchangeTypes, ServiceFits, Wire
<1>12. CASE FinishExchange
  BY <1>12 DEF FinishExchange, ExchangeInv, ExchangeTypes, ServiceFits, Wire
<1> QED
  BY <1>1, <1>2, <1>3, <1>4, <1>5, <1>6, <1>8, <1>9, <1>10, <1>11, <1>12 DEF Next

(* The inductive invariant of a connection with its requests and responses. *)
THEOREM ExchangeAlways == Spec => []ExchangeInv
<1>1. Init => ExchangeInv
  BY ExchangeStarts
<1>2. ExchangeInv /\ [Next]_vars => ExchangeInv'
  BY ExchangeKept
<1> QED
  BY <1>1, <1>2, PTL DEF Spec

(* No request becomes complete that exceeds the limits, however its lines  *)
(* were cut into pieces (HttpRequest::readFromSocket), for any limits.     *)
THEOREM SizesLimitedAlways == Spec => []SizesLimited
<1>1. ExchangeInv => SizesLimited
  BY DEF ExchangeInv, RequestFits, WholeFits, SizesLimited, NoRequest
<1> QED
  BY <1>1, ExchangeAlways, PTL

(* A client can always tell where a response ends, and an HTTP/1.0 client  *)
(* is not sent chunks (HttpResponse::write and the end of readHttp), with  *)
(* the exceptions named there, whatever calls the service makes.           *)
THEOREM EndOfResponseKnownAlways == Spec => []EndOfResponseKnown
<1>1. ExchangeInv => EndOfResponseKnown
  <2> SUFFICES ASSUME ExchangeInv, at = "returned" PROVE EndOfResponseKnown
    BY DEF EndOfResponseKnown
  <2>1. /\ ResponseFits(response) /\ response.sentLastPart
        /\ closes => response.headers.Connection # "none"
        /\ request.first = "GET 1.0" => closes
    BY DEF ExchangeInv, ServiceFits
  <2>2. /\ response.sentHeaders
        /\ response.headers.Connection \in Values
    BY <2>1 DEF ResponseFits, ResponseTypes
  <2>3. response.told.chunked = response.chunkedMode /\ response.told.length = response.length
    <3>1. response.told = [chunked |-> response.chunkedMode, length |-> response.length]
      BY <2>1, <2>2 DEF ResponseFits
    <3> QED
      BY <3>1
  <2>4. CASE response.chunkedMode
    <3>1. TellsItsEnd(response) /\ ~ SaysClose(response)
      BY <2>1, <2>3, <2>4 DEF TellsItsEnd, ResponseFits
    <3>2. request.first = "GET 1.0" => response.headers.Connection = "keep-alive"
      BY <2>1, <2>2, <3>1 DEF SaysClose, Values
    <3> QED
      BY <3>1, <3>2 DEF EndOfResponseKnown
  <2>5. CASE ~ response.chunkedMode
    <3>1. SaysClose(response) \/ TellsItsEnd(response)
      BY <2>1, <2>2, <2>3, <2>5 DEF TellsItsEnd, ResponseFits
    <3>2. \/ MustClose(response, closes) \/ TellsItsEnd(response)
          \/ response.headers.connection = "close" /\ response.length # NoLength
      BY <2>5, <3>1 DEF MustClose, SaysClose
    <3> QED
      BY <2>3, <2>5, <3>2 DEF EndOfResponseKnown
  <2> QED
    BY <2>4, <2>5
<1> QED
  BY <1>1, ExchangeAlways, PTL

(* The loop of readHttp never turns in vain: it takes a byte, or ends the  *)
(* request, also one whose body has a negative length.                     *)
THEOREM TurnsReadSomethingAlways == Spec => []TurnsReadSomething
<1>1. ExchangeInv => TurnsReadSomething
  <2> DEFINE read == ReadFromSocket(CurrentRequest, Input)
  <2> SUFFICES ASSUME ExchangeInv, MayRead
               PROVE  read.taken > 0 \/ Checked(read.request).status \in Ended
    BY DEF TurnsReadSomething, Ended
  <2> DEFINE n == IF request = NoRequest THEN 0 ELSE taken - history.start
  <2>1. n \in Nat /\ RequestFits(CurrentRequest, n) /\ CurrentRequest.status \in Reading
    BY CurrentRequestFits
  <2>2. Input # << >> /\ Input \in Seq(Tokens) /\ Len(Input) \in Nat
    BY InputIs DEF ExchangeInv, MayRead
  <2>3. TurnTakes(read, Input, CurrentRequest) /\ TurnFits(read.request, n + read.taken)
    BY <2>1, <2>2, ReadFromSocketIs
  <2> HIDE DEF read
  <2>4. CASE read.taken # 0
    BY <2>2, <2>3, <2>4 DEF TurnTakes
  <2>5. CASE read.taken = 0
    <3>1. read.request.status \in Ended /\ DOMAIN read.request = RequestFields
      BY <2>3, <2>5 DEF TurnTakes, TurnFits, RequestTypes
    <3> DEFINE r == read.request
    <3> HIDE DEF r
    <3>2. r.status \in Ended /\ DOMAIN r = RequestFields
      BY <3>1 DEF r
    <3>3. Checked(r).status \in Ended
      <4>1. \/ Checked(r) = r
            \/ Checked(r) = [r EXCEPT !.status = "abort"]
            \/ Checked(r) = [r EXCEPT !.parameters = @ \cup {"body"}]
        BY DEF Checked, DecodeRequestParams
      <4> QED
        BY <3>2, <4>1 DEF RequestFields, Ended
    <3> QED
      BY <3>3 DEF r
  <2> QED
    BY <2>4, <2>5
<1> QED
  BY <1>1, ExchangeAlways, PTL

-----------------------------------------------------------------------------
(* In step with the client: what the server has read of the request that   *)
(* the client sent.                                                        *)
HeadLength(q) == 3 * Len(q.head) + 2
BodyOf(r) == IF r.multipart THEN r.tempFile ELSE r.body

(* The headers of a request. *)
HeaderNames == {"host", "connection", "content-type", "content-length", ""}
HeaderValues == {"x", "close", "form", "multipart", "-1", "1", "2", "6", "9", "12", "folded", ""}
HeaderEntries == [name : HeaderNames, value : HeaderValues]

(* The header lines that were read, up to the line j of the head.          *)
HeadersFrom(headers, q, j) ==
  /\ headers \in Seq(HeaderEntries)
  /\ \A i \in DOMAIN headers :
       headers[i].name = "content-length" => ToInt(headers[i].value) = Len(q.body)
  /\ (\E i \in 2 .. j : q.head[i] \in Lengths) =>
       \E i \in DOMAIN headers : headers[i].name = "content-length"
  /\ headers # << >> /\ Last(headers).name = "content-length" => q.head[j] \in Lengths

(* j lines of the head of q were read, and what the line buffer holds of   *)
(* the next: n bytes.                                                      *)
LinesRead(r, q, n, j, split) ==
  /\ j \in 0 .. Len(q.head)
  /\ \/ r.lineBuffer = << >> /\ n = 3 * j
     \/ /\ j < Len(q.head) /\ r.lineBuffer = <<q.head[j + 1]>> /\ n = 3 * j + 1
        /\ split
  /\ ~ split => r.currentSize = n

(* n bytes of the request q were read. *)
InStep(r, q, n, split) ==
  /\ r.status = "waitForRequest" => r.headers = << >> /\ LinesRead(r, q, n, 0, split)
  /\ r.status = "waitForHeader" =>
       /\ q.head[1] \in FirstLines
       /\ \E j \in 1 .. Len(q.head) : HeadersFrom(r.headers, q, j) /\ LinesRead(r, q, n, j, split)
  /\ r.status = "waitForBody" =>
       /\ n = HeadLength(q) + Len(BodyOf(r))
       /\ Len(BodyOf(r)) < Len(q.body) /\ r.expected = Len(q.body)
       /\ BodyOf(r) = SubSeq(q.body, 1, Len(BodyOf(r)))
       /\ r.multipart => r.body = << >>
       /\ ~ split => r.currentSize = IF r.multipart THEN HeadLength(q) ELSE n

(* The fields and the files are those of the client. *)
PartsRight(r, body) ==
  /\ r.parameters = {part.field : part \in PartsIn(body)}
  /\ r.files = {part.field : part \in {d \in PartsIn(body) : d.file}}

(* What was read is what the client sent. *)
Whole(r, q, n) ==
  /\ n = HeadLength(q) + Len(q.body)
  /\ BodyOf(r) = q.body
  /\ r.multipart /\ WellFormed(q.body) => PartsRight(r, q.body)

(* The server has not lost step, as far as the client's lengths are true.  *)
KeepsStep(s, h, n) ==
  ~ h.cut /\ ~ h.refused /\ \A i \in (1 .. n) \cap DOMAIN s : LengthTrue(s[i])

Place(s, n) == Len(FlattenSeq([i \in 1 .. n |-> Bytes(s[i])]))

DoneFits(s, d, k) ==
  /\ k \in DOMAIN s
  /\ d.last = Place(s, k)
  /\ BodyOf(d.request) = s[k].body
  /\ d.request.multipart /\ WellFormed(s[k].body) => PartsRight(d.request, s[k].body)

StepFits(s, r, t, h) ==
  /\ h.done \in Seq(ToSet(h.done)) /\ h.split \in BOOLEAN
  /\ \A k \in DOMAIN h.done : KeepsStep(s, h, k) => DoneFits(s, h.done[k], k)
  /\ r.status \in {"none", "complete"} /\ KeepsStep(s, h, Len(h.done)) => t = Place(s, Len(h.done))
  /\ r.status \in {"waitForRequest", "waitForHeader", "waitForBody"} /\ KeepsStep(s, h, Len(h.done) + 1) =>
       /\ Len(h.done) + 1 \in DOMAIN s
       /\ h.start = Place(s, Len(h.done))
       /\ InStep(r, s[Len(h.done) + 1], t - h.start, h.split)
  /\ r.status = "abort" /\ KeepsStep(s, h, Len(h.done) + 1) =>
       /\ Len(h.done) + 1 \in DOMAIN s
       /\ ~ h.split => Reason(s[Len(h.done) + 1], r.multipart)

StepInv == StepFits(script, request, taken, history)

-----------------------------------------------------------------------------
(* Where the parts of a flattened sequence stand.                          *)

First(seqs, n) == [i \in 1 .. n |-> seqs[i]]

(* Two sequences that follow each other.                                   *)
LEMMA JoinIs ==
  ASSUME NEW S, NEW a \in Seq(S), NEW b \in Seq(S)
  PROVE  /\ a \o b \in Seq(S)
         /\ Len(a) \in Nat /\ Len(b) \in Nat /\ Len(a \o b) = Len(a) + Len(b)
         /\ \A k \in 1 .. Len(a) : (a \o b)[k] = a[k]
         /\ \A k \in 1 .. Len(b) : (a \o b)[Len(a) + k] = b[k]
<1>1. Len(a) \in Nat /\ Len(b) \in Nat
  BY LenProperties
<1>2. /\ a \o b \in Seq(S) /\ Len(a \o b) = Len(a) + Len(b)
      /\ \A i \in 1 .. Len(a) + Len(b) :
           (a \o b)[i] = IF i <= Len(a) THEN a[i] ELSE b[i - Len(a)]
  BY ConcatProperties
<1>3. \A k \in 1 .. Len(a) : k \in 1 .. Len(a) + Len(b) /\ k <= Len(a)
  BY <1>1
<1>4. \A k \in 1 .. Len(b) : /\ Len(a) + k \in 1 .. Len(a) + Len(b)
                             /\ ~ (Len(a) + k <= Len(a)) /\ (Len(a) + k) - Len(a) = k
  BY <1>1
<1> QED
  BY <1>1, <1>2, <1>3, <1>4

LEMMA FirstIs ==
  ASSUME NEW S, NEW seqs \in Seq(S), NEW n \in 0 .. Len(seqs)
  PROVE  /\ First(seqs, n) \in Seq(S) /\ Len(First(seqs, n)) = n
         /\ \A i \in 1 .. n : First(seqs, n)[i] = seqs[i]
<1>1. n \in Nat /\ \A i \in 1 .. n : i \in 1 .. Len(seqs)
  OBVIOUS
<1>2. \A i \in 1 .. n : seqs[i] \in S
  BY <1>1
<1>3. First(seqs, n) \in Seq(S)
  BY <1>1, <1>2, IsASeq DEF First
<1> QED
  BY <1>1, <1>3 DEF First

LEMMA FlattenFirst ==
  ASSUME NEW S, NEW seqs \in Seq(S), NEW f, Flattened(seqs, Len(seqs), f),
         NEW n \in 1 .. Len(seqs)
  PROVE  FlattenSeq(First(seqs, n)) = f[n]
<1> DEFINE q == First(seqs, n)
           g == CHOOSE h : Flattened(q, n, h)
<1>1. n \in Nat /\ n # 0 /\ Len(q) = n /\ \A i \in 1 .. n : q[i] = seqs[i]
  BY FirstIs
<1> HIDE DEF q
<1>2. Flattened(q, n, g)
  BY <1>1, FlattenedExists
<1>3. FlattenSeq(q) = g[n]
  BY <1>1 DEF FlattenSeq, Flattened
<1> HIDE DEF g
<1>4. \A i \in 1 .. n : g[i] = IF i = 1 THEN q[i] ELSE g[i - 1] \o q[i]
  <2>1. g = [i \in 1 .. n |-> IF i = 1 THEN q[i] ELSE g[i - 1] \o q[i]]
    BY <1>2 DEF Flattened
  <2> QED
    BY <2>1
<1>5. \A i \in 1 .. n : f[i] = IF i = 1 THEN seqs[i] ELSE f[i - 1] \o seqs[i]
  <2>1. f = [i \in 1 .. Len(seqs) |-> IF i = 1 THEN seqs[i] ELSE f[i - 1] \o seqs[i]]
    BY DEF Flattened
  <2>2. \A i \in 1 .. Len(seqs) : f[i] = IF i = 1 THEN seqs[i] ELSE f[i - 1] \o seqs[i]
    BY <2>1
  <2>3. \A i \in 1 .. n : i \in 1 .. Len(seqs)
    OBVIOUS
  <2> QED
    BY <2>2, <2>3
<1> DEFINE T == {k \in Nat : k + 1 \in 1 .. n => f[k + 1] = g[k + 1]}
<1>6. 0 \in T
  BY <1>1, <1>4, <1>5
<1>7. ASSUME NEW k \in Nat, k \in T PROVE k + 1 \in T
  <2> SUFFICES ASSUME (k + 1) + 1 \in 1 .. n PROVE f[(k + 1) + 1] = g[(k + 1) + 1]
    OBVIOUS
  <2>1. k + 1 \in 1 .. n /\ (k + 1) + 1 # 1 /\ ((k + 1) + 1) - 1 = k + 1
    BY <1>1
  <2>2. f[k + 1] = g[k + 1]
    BY <1>7, <2>1
  <2> HIDE DEF T
  <2> QED
    BY <1>1, <1>4, <1>5, <2>1, <2>2
<1> HIDE DEF T
<1>8. Nat \subseteq T
  BY <1>6, <1>7, NaturalsFollow
<1>9. n - 1 \in Nat /\ (n - 1) + 1 = n /\ n \in 1 .. n
  BY <1>1
<1>10. f[n] = g[n]
  BY <1>8, <1>9 DEF T
<1> QED
  BY <1>3, <1>10 DEF q

LEMMA FlattenGrows ==
  ASSUME NEW S, NEW seqs \in Seq(Seq(S)), NEW n \in Nat, n < Len(seqs)
  PROVE  /\ FlattenSeq(First(seqs, n)) \in Seq(S)
         /\ seqs[n + 1] \in Seq(S)
         /\ FlattenSeq(First(seqs, n + 1)) = FlattenSeq(First(seqs, n)) \o seqs[n + 1]
<1>1. Len(seqs) \in Nat /\ n \in 0 .. Len(seqs) /\ n + 1 \in 1 .. Len(seqs)
  OBVIOUS
<1>2. First(seqs, n) \in Seq(Seq(S))
  BY <1>1, FirstIs
<1>3. FlattenSeq(First(seqs, n)) \in Seq(S) /\ seqs[n + 1] \in Seq(S)
  BY <1>1, <1>2, FlattenIsASeq
<1>4. PICK f : Flattened(seqs, Len(seqs), f)
  BY <1>1, FlattenedExists
<1>5. FlattenSeq(First(seqs, n + 1)) = f[n + 1]
  BY <1>1, <1>4, FlattenFirst
<1>6. f[n + 1] = IF n + 1 = 1 THEN seqs[n + 1] ELSE f[(n + 1) - 1] \o seqs[n + 1]
  <2>1. f = [i \in 1 .. Len(seqs) |-> IF i = 1 THEN seqs[i] ELSE f[i - 1] \o seqs[i]]
    BY <1>4 DEF Flattened
  <2> QED
    BY <1>1, <2>1
<1>7. CASE n = 0
  <2>1. Len(First(seqs, n)) = 0 /\ First(seqs, n) = << >>
    BY <1>1, <1>2, <1>7, FirstIs, EmptySeq
  <2>2. FlattenSeq(First(seqs, n)) = << >>
    BY <2>1 DEF FlattenSeq
  <2>3. << >> \o seqs[n + 1] = seqs[n + 1]
    BY <1>3
  <2> QED
    BY SMTT(30), <1>3, <1>5, <1>6, <1>7, <2>2, <2>3
<1>8. CASE n # 0
  <2>1. n \in 1 .. Len(seqs) /\ (n + 1) - 1 = n /\ n + 1 # 1
    BY <1>1, <1>8
  <2>2. FlattenSeq(First(seqs, n)) = f[n]
    BY <1>4, <2>1, FlattenFirst
  <2> QED
    BY <1>3, <1>5, <1>6, <2>1, <2>2
<1> QED
  BY <1>7, <1>8

(* The part j of what the first n parts make. *)
StandsAt(seqs, j, n) ==
  LET before == Len(FlattenSeq(First(seqs, j - 1)))
      all == FlattenSeq(First(seqs, n))
  IN  /\ Len(FlattenSeq(First(seqs, j))) = before + Len(seqs[j])
      /\ before + Len(seqs[j]) <= Len(all)
      /\ \A k \in 1 .. Len(seqs[j]) : all[before + k] = seqs[j][k]

LEMMA FlattenPlaces ==
  ASSUME NEW S, NEW seqs \in Seq(Seq(S))
  PROVE  /\ Len(FlattenSeq(First(seqs, 0))) = 0
         /\ \A n \in 0 .. Len(seqs) : FlattenSeq(First(seqs, n)) \in Seq(S)
         /\ FlattenSeq(First(seqs, Len(seqs))) = FlattenSeq(seqs)
         /\ \A n \in 0 .. Len(seqs) : \A j \in 1 .. n : StandsAt(seqs, j, n)
<1>1. Len(seqs) \in Nat
  OBVIOUS
<1>2. \A n \in 0 .. Len(seqs) : FlattenSeq(First(seqs, n)) \in Seq(S)
  BY FirstIs, FlattenIsASeq
<1>3. Len(FlattenSeq(First(seqs, 0))) = 0
  <2>1. 0 \in 0 .. Len(seqs)
    BY <1>1
  <2>2. Len(First(seqs, 0)) = 0 /\ First(seqs, 0) \in Seq(Seq(S))
    BY <2>1, FirstIs
  <2>3. First(seqs, 0) = << >>
    BY <2>2, EmptySeq
  <2> QED
    BY <2>2, <2>3 DEF FlattenSeq
<1>4. First(seqs, Len(seqs)) = seqs
  BY DEF First
<1> DEFINE T == {n \in Nat : n <= Len(seqs) => \A j \in 1 .. n : StandsAt(seqs, j, n)}
<1>5. 0 \in T
  OBVIOUS
<1>6. ASSUME NEW n \in Nat, n \in T PROVE n + 1 \in T
  <2> SUFFICES ASSUME n + 1 <= Len(seqs), NEW j \in 1 .. n + 1 PROVE StandsAt(seqs, j, n + 1)
    OBVIOUS
  <2> DEFINE old == FlattenSeq(First(seqs, n))
             new == FlattenSeq(First(seqs, n + 1))
             x == seqs[n + 1]
  <2>1. n < Len(seqs)
    BY <1>1
  <2>2. old \in Seq(S) /\ x \in Seq(S) /\ new = old \o x
    BY <2>1, FlattenGrows
  <2> HIDE DEF old, new, x
  <2>3. /\ Len(new) = Len(old) + Len(x) /\ Len(old) \in Nat /\ Len(x) \in Nat
        /\ \A k \in 1 .. Len(old) : new[k] = old[k]
        /\ \A k \in 1 .. Len(x) : new[Len(old) + k] = x[k]
    BY <2>2, JoinIs
  <2>4. CASE j = n + 1
    <3>1. j - 1 = n
      BY <2>4
    <3> QED
      BY <2>3, <2>4, <3>1 DEF StandsAt, old, new, x
  <2>5. CASE j # n + 1
    <3>1. j \in 1 .. n /\ n <= Len(seqs) /\ j - 1 \in 0 .. Len(seqs) /\ j \in 1 .. Len(seqs)
      BY <1>1, <2>5
    <3>2. StandsAt(seqs, j, n)
      BY <1>6, <3>1
    <3> DEFINE before == Len(FlattenSeq(First(seqs, j - 1)))
               m == Len(seqs[j])
    <3>3. before \in Nat /\ m \in Nat
      BY <1>2, <3>1, LenProperties
    <3>4. /\ Len(FlattenSeq(First(seqs, j))) = before + m
          /\ before + m <= Len(old)
          /\ \A k \in 1 .. m : old[before + k] = seqs[j][k]
      BY <3>2 DEF StandsAt, old
    <3> HIDE DEF before, m, T
    <3>5. before + m <= Len(new)
      BY <2>3, <3>3, <3>4
    <3>6. ASSUME NEW k \in 1 .. m PROVE new[before + k] = seqs[j][k]
      <4>1. before + k \in 1 .. Len(old)
        BY <2>3, <3>3, <3>4
      <4> QED
        BY <2>3, <3>4, <4>1
    <3> QED
      BY <3>4, <3>5, <3>6 DEF StandsAt, before, m, new
  <2> QED
    BY <2>4, <2>5
<1> HIDE DEF T
<1>7. Nat \subseteq T
  BY <1>5, <1>6, NaturalsFollow
<1>8. \A n \in 0 .. Len(seqs) : \A j \in 1 .. n : StandsAt(seqs, j, n)
  <2>1. \A n \in 0 .. Len(seqs) : n \in Nat /\ n <= Len(seqs)
    BY <1>1
  <2> QED
    BY <1>7, <2>1 DEF T
<1> QED
  BY <1>2, <1>3, <1>4, <1>8

-----------------------------------------------------------------------------
(* The bytes of a request, and where they are in what the client sends.    *)

IsRequest(q) ==
  /\ q.head \in Seq(Tokens) /\ q.body \in Seq(Tokens)
  /\ q.head # << >> /\ ~ HasLineBreak(q.head)
  /\ \A i \in 2 .. Len(q.head) : q.head[i] \in DOMAIN HeaderLine \cup {"more"}

LEMMA ScriptIs ==
  ASSUME NEW s \in Scripts
  PROVE  /\ Len(s) \in Nat /\ DOMAIN s = 1 .. Len(s)
         /\ \A i \in 1 .. Len(s) : IsRequest(s[i])
<1>1. s \in Seq(ToSet(s))
  BY ScriptsAssumption
<1>2. Len(s) \in Nat /\ DOMAIN s = 1 .. Len(s)
  BY <1>1
<1>3. ASSUME NEW i \in 1 .. Len(s) PROVE IsRequest(s[i])
  <2> DEFINE q == s[i]
  <2>1. q \in ToSet(s)
    BY <1>2 DEF ToSet
  <2>2. /\ q.head \in Seq(ToSet(q.head)) /\ q.body \in Seq(ToSet(q.body))
        /\ q.head # << >> /\ ~ HasLineBreak(q.head)
        /\ \A j \in 2 .. Len(q.head) : q.head[j] \in DOMAIN HeaderLine \cup {"more"}
    BY <2>1, ScriptsAssumption
  <2>3. ToSet(q.head) \subseteq Tokens /\ ToSet(q.body) \subseteq Tokens
    BY <2>1 DEF Tokens, Requests
  <2> HIDE DEF q
  <2>4. q.head \in Seq(Tokens) /\ q.body \in Seq(Tokens)
    <3>1. \A j \in 1 .. Len(q.head) : q.head[j] \in ToSet(q.head)
      BY <2>2 DEF ToSet
    <3>2. \A j \in 1 .. Len(q.body) : q.body[j] \in ToSet(q.body)
      BY <2>2 DEF ToSet
    <3> QED
      BY <2>2, <2>3, <3>1, <3>2, SeqMonotonic
  <2>5. IsRequest(q)
    BY <2>2, <2>4 DEF IsRequest
  <2> QED
    BY <2>5 DEF q
<1> QED
  BY <1>2, <1>3

(* The lines of the head, each of three bytes, and then the empty line.    *)
LEMMA BytesAre ==
  ASSUME NEW q, IsRequest(q)
  PROVE  LET n == Len(q.head) IN
         /\ n \in Nat /\ n # 0 /\ Len(q.body) \in Nat
         /\ Bytes(q) \in Seq(Tokens)
         /\ Len(Bytes(q)) = HeadLength(q) + Len(q.body)
         /\ \A j \in 1 .. n : /\ Bytes(q)[3 * (j - 1) + 1] = q.head[j]
                              /\ Bytes(q)[3 * (j - 1) + 2] = "cr"
                              /\ Bytes(q)[3 * (j - 1) + 3] = "lf"
         /\ Bytes(q)[3 * n + 1] = "cr" /\ Bytes(q)[3 * n + 2] = "lf"
         /\ \A k \in 1 .. Len(q.body) : Bytes(q)[HeadLength(q) + k] = q.body[k]
<1> DEFINE n == Len(q.head)
           lines == [i \in DOMAIN q.head |-> SentLine(q.head[i])]
           F(j) == FlattenSeq(First(lines, j))
           all == FlattenSeq(lines)
           m == Len(q.body)
<1>1. /\ n \in Nat /\ n # 0 /\ m \in Nat /\ DOMAIN q.head = 1 .. n
      /\ \A i \in 1 .. n : q.head[i] \in Tokens
      /\ "cr" \in Tokens /\ "lf" \in Tokens
  BY EmptySeq DEF IsRequest, Tokens
<1>2. /\ lines \in Seq(Seq(Tokens)) /\ Len(lines) = n
      /\ \A i \in 1 .. n : /\ Len(lines[i]) = 3 /\ lines[i][1] = q.head[i]
                           /\ lines[i][2] = "cr" /\ lines[i][3] = "lf"
  <2>1. \A i \in 1 .. n : lines[i] = <<q.head[i], "cr", "lf">>
    BY <1>1 DEF SentLine
  <2>2. \A i \in 1 .. n : <<q.head[i], "cr", "lf">> \in Seq(Tokens)
    BY <1>1
  <2>3. lines \in Seq(Seq(Tokens)) /\ Len(lines) = n
    <3>1. lines = [i \in 1 .. n |-> SentLine(q.head[i])]
      BY <1>1
    <3>2. \A i \in 1 .. n : SentLine(q.head[i]) \in Seq(Tokens)
      BY <2>2 DEF SentLine
    <3> HIDE DEF lines
    <3> QED
      BY <1>1, <3>1, <3>2, IsASeq
  <2> HIDE DEF lines
  <2>4. ASSUME NEW i \in 1 .. n
        PROVE  /\ Len(lines[i]) = 3 /\ lines[i][1] = q.head[i]
               /\ lines[i][2] = "cr" /\ lines[i][3] = "lf"
    <3>1. lines[i] = <<q.head[i], "cr", "lf">>
      BY <2>1
    <3> QED
      BY <3>1
  <2> QED
    BY <2>3, <2>4
<1> HIDE DEF lines
<1>3. /\ Len(F(0)) = 0
      /\ \A i \in 0 .. n : F(i) \in Seq(Tokens)
      /\ F(n) = all
      /\ \A j \in 1 .. n : StandsAt(lines, j, n) /\ StandsAt(lines, j, j)
  <2>1. n \in 0 .. n /\ \A j \in 1 .. n : j \in 0 .. n /\ j \in 1 .. j
    BY <1>1
  <2> QED
    BY <1>1, <1>2, <2>1, FlattenPlaces
<1>4. \A j \in 0 .. n : Len(F(j)) = 3 * j
  <2> DEFINE T == {j \in Nat : j <= n => Len(F(j)) = 3 * j}
  <2>1. 0 \in T
    BY <1>3
  <2>2. ASSUME NEW j \in Nat, j \in T PROVE j + 1 \in T
    <3> SUFFICES ASSUME j + 1 <= n PROVE Len(F(j + 1)) = 3 * (j + 1)
      OBVIOUS
    <3>1. j + 1 \in 1 .. n /\ j <= n /\ (j + 1) - 1 = j
      BY <1>1
    <3>2. Len(F(j)) = 3 * j
      BY <2>2, <3>1
    <3>3. StandsAt(lines, j + 1, n)
      BY <1>3, <3>1
    <3>4. Len(F(j + 1)) = Len(F(j)) + 3
      BY <1>2, <3>1, <3>3 DEF StandsAt
    <3> HIDE DEF F
    <3> QED
      BY <3>2, <3>4
  <2> HIDE DEF T
  <2>3. Nat \subseteq T
    BY <2>1, <2>2, NaturalsFollow
  <2> QED
    BY <1>1, <2>3 DEF T
<1>5. /\ all \in Seq(Tokens) /\ Len(all) = 3 * n
      /\ \A j \in 1 .. n : \A k \in 1 .. 3 : all[3 * (j - 1) + k] = lines[j][k]
  <2>1. n \in 0 .. n
    BY <1>1
  <2>2. all \in Seq(Tokens) /\ Len(all) = 3 * n
    BY <1>3, <1>4, <2>1
  <2>3. ASSUME NEW j \in 1 .. n, NEW k \in 1 .. 3 PROVE all[3 * (j - 1) + k] = lines[j][k]
    <3>1. j - 1 \in 0 .. n /\ Len(F(j - 1)) = 3 * (j - 1)
      BY <1>1, <1>4
    <3>2. StandsAt(lines, j, n) /\ Len(lines[j]) = 3
      BY <1>2, <1>3
    <3> QED
      BY <1>3, <3>1, <3>2 DEF StandsAt
  <2> QED
    BY <2>2, <2>3
<1> HIDE DEF F, all
<1> DEFINE head == all \o <<"cr", "lf">>
<1>6. Bytes(q) = head \o q.body
  BY DEF Bytes, all, lines
<1>7. /\ head \in Seq(Tokens) /\ Len(head) = 3 * n + 2
      /\ \A i \in 1 .. 3 * n : head[i] = all[i]
      /\ head[3 * n + 1] = "cr" /\ head[3 * n + 2] = "lf"
  <2> DEFINE end == <<"cr", "lf">>
  <2>1. end \in Seq(Tokens) /\ Len(end) = 2 /\ end[1] = "cr" /\ end[2] = "lf"
    BY <1>1
  <2> HIDE DEF end
  <2>2. /\ head \in Seq(Tokens) /\ Len(head) = Len(all) + 2
        /\ \A i \in 1 .. Len(all) : head[i] = all[i]
        /\ \A k \in 1 .. Len(end) : head[Len(all) + k] = end[k]
    BY <1>5, <2>1, JoinIs DEF end
  <2> HIDE DEF head
  <2>3. 1 \in 1 .. Len(end) /\ 2 \in 1 .. Len(end)
    BY <2>1
  <2> QED
    BY <1>5, <2>1, <2>2, <2>3
<1> HIDE DEF head
<1>8. /\ Bytes(q) \in Seq(Tokens) /\ Len(Bytes(q)) = 3 * n + 2 + m
      /\ \A i \in 1 .. 3 * n + 2 : Bytes(q)[i] = head[i]
      /\ \A k \in 1 .. m : Bytes(q)[3 * n + 2 + k] = q.body[k]
  <2>1. q.body \in Seq(Tokens)
    BY DEF IsRequest
  <2>2. /\ head \o q.body \in Seq(Tokens)
        /\ Len(head \o q.body) = Len(head) + Len(q.body)
        /\ \A i \in 1 .. Len(head) : (head \o q.body)[i] = head[i]
        /\ \A k \in 1 .. Len(q.body) : (head \o q.body)[Len(head) + k] = q.body[k]
    <3>1. head \in Seq(Tokens)
      BY <1>7
    <3> QED
      BY <2>1, <3>1, JoinIs
  <2> QED
    BY <1>6, <1>7, <2>2
<1>9. ASSUME NEW j \in 1 .. n, NEW k \in 1 .. 3
      PROVE  Bytes(q)[3 * (j - 1) + k] = lines[j][k]
  <2>1. 3 * (j - 1) + k \in 1 .. 3 * n /\ 3 * (j - 1) + k \in 1 .. 3 * n + 2
    BY <1>1
  <2> QED
    BY <1>5, <1>7, <1>8, <2>1
<1>10. \A j \in 1 .. n : /\ Bytes(q)[3 * (j - 1) + 1] = q.head[j]
                         /\ Bytes(q)[3 * (j - 1) + 2] = "cr"
                         /\ Bytes(q)[3 * (j - 1) + 3] = "lf"
  <2> SUFFICES ASSUME NEW j \in 1 .. n
               PROVE  /\ Bytes(q)[3 * (j - 1) + 1] = q.head[j]
                      /\ Bytes(q)[3 * (j - 1) + 2] = "cr"
                      /\ Bytes(q)[3 * (j - 1) + 3] = "lf"
    OBVIOUS
  <2>1. 1 \in 1 .. 3 /\ 2 \in 1 .. 3 /\ 3 \in 1 .. 3
    OBVIOUS
  <2> QED
    BY <1>2, <1>9, <2>1
<1>11. Bytes(q)[3 * n + 1] = "cr" /\ Bytes(q)[3 * n + 2] = "lf"
  <2>1. 3 * n + 1 \in 1 .. 3 * n + 2 /\ 3 * n + 2 \in 1 .. 3 * n + 2
    BY <1>1
  <2> QED
    BY <1>7, <1>8, <2>1
<1>12. HeadLength(q) = 3 * n + 2
  BY DEF HeadLength
<1> HIDE DEF n, m
<1> QED
  BY <1>1, <1>8, <1>10, <1>11, <1>12 DEF n, m

(* Where the n-th request of a script ends.                                *)
LEMMA PlaceIs ==
  ASSUME NEW s \in Scripts
  PROVE  /\ Place(s, 0) = 0 /\ Place(s, Len(s)) = Len(WireOf[s])
         /\ \A n \in 0 .. Len(s) : Place(s, n) \in Nat /\ Place(s, n) <= Len(WireOf[s])
         /\ \A n \in 1 .. Len(s) :
              /\ Place(s, n) = Place(s, n - 1) + Len(Bytes(s[n]))
              /\ \A k \in 1 .. Len(Bytes(s[n])) : WireOf[s][Place(s, n - 1) + k] = Bytes(s[n])[k]
<1> DEFINE N == Len(s)
           seqs == [i \in DOMAIN s |-> Bytes(s[i])]
<1>1. N \in Nat /\ DOMAIN s = 1 .. N /\ \A i \in 1 .. N : IsRequest(s[i])
  BY ScriptIs
<1>2. seqs \in Seq(Seq(Tokens)) /\ Len(seqs) = N /\ \A i \in 1 .. N : seqs[i] = Bytes(s[i])
  <2>1. \A i \in 1 .. N : Bytes(s[i]) \in Seq(Tokens)
    BY <1>1, BytesAre
  <2>2. seqs = [i \in 1 .. N |-> Bytes(s[i])]
    BY <1>1
  <2> HIDE DEF seqs
  <2> QED
    BY <1>1, <2>1, <2>2, IsASeq
<1>3. WireOf[s] = FlattenSeq(seqs)
  BY DEF WireOf
<1>4. \A n \in 0 .. N : Place(s, n) = Len(FlattenSeq(First(seqs, n)))
  <2> SUFFICES ASSUME NEW n \in 0 .. N
               PROVE  [i \in 1 .. n |-> Bytes(s[i])] = First(seqs, n)
    BY DEF Place
  <2>1. \A i \in 1 .. n : i \in 1 .. N
    BY <1>1
  <2> HIDE DEF seqs
  <2> QED
    BY <1>2, <2>1 DEF First
<1> HIDE DEF seqs
<1>5. /\ Len(FlattenSeq(First(seqs, 0))) = 0
      /\ \A n \in 0 .. N : FlattenSeq(First(seqs, n)) \in Seq(Tokens)
      /\ FlattenSeq(First(seqs, N)) = FlattenSeq(seqs)
      /\ \A n \in 0 .. N : \A j \in 1 .. n : StandsAt(seqs, j, n)
  BY <1>2, FlattenPlaces
<1>6. 0 \in 0 .. N /\ N \in 0 .. N
  BY <1>1
<1>7. Place(s, 0) = 0 /\ Place(s, N) = Len(WireOf[s])
  BY <1>3, <1>4, <1>5, <1>6
<1>8. ASSUME NEW n \in 1 .. N
      PROVE  /\ Place(s, n) = Place(s, n - 1) + Len(Bytes(s[n]))
             /\ Place(s, n - 1) + Len(Bytes(s[n])) <= Len(WireOf[s])
             /\ \A k \in 1 .. Len(Bytes(s[n])) : WireOf[s][Place(s, n - 1) + k] = Bytes(s[n])[k]
  <2>1. n \in 0 .. N /\ n - 1 \in 0 .. N /\ StandsAt(seqs, n, N)
    BY <1>1, <1>5, <1>6
  <2> QED
    BY <1>2, <1>3, <1>4, <1>5, <2>1 DEF StandsAt
<1>9. ASSUME NEW n \in 0 .. N PROVE Place(s, n) \in Nat /\ Place(s, n) <= Len(WireOf[s])
  <2>1. Place(s, n) \in Nat
    BY <1>4, <1>5, LenProperties
  <2>2. CASE n = 0
    <3>1. Len(WireOf[s]) \in Nat
      BY <1>4, <1>5, <1>6, <1>7, LenProperties
    <3> QED
      BY <1>7, <2>2, <3>1
  <2>3. CASE n # 0
    <3>1. n \in 1 .. N
      BY <1>1, <2>3
    <3> QED
      BY <1>8, <2>1, <3>1
  <2> QED
    BY <2>1, <2>2, <2>3
<1> QED
  BY <1>7, <1>8, <1>9

-----------------------------------------------------------------------------
(* The server reads the line that the client has sent.                     *)

LEMMA EqualSeqs ==
  ASSUME NEW S, NEW a \in Seq(S), NEW b \in Seq(S), Len(a) = Len(b),
         \A i \in 1 .. Len(a) : a[i] = b[i]
  PROVE  a = b
<1>1. DOMAIN a = 1 .. Len(a) /\ DOMAIN b = 1 .. Len(b)
  OBVIOUS
<1>2. a = [i \in 1 .. Len(a) |-> a[i]] /\ b = [i \in 1 .. Len(b) |-> b[i]]
  BY <1>1
<1> QED
  BY <1>2

LEMMA BeginIs ==
  ASSUME NEW S, NEW a \in Seq(S), NEW n \in 0 .. Len(a)
  PROVE  /\ SubSeq(a, 1, n) \in Seq(S) /\ Len(SubSeq(a, 1, n)) = n
         /\ \A i \in 1 .. n : SubSeq(a, 1, n)[i] = a[i]
<1>1. Len(a) \in Nat /\ n \in Nat /\ \A i \in 1 .. n : i \in 1 .. Len(a)
  BY LenProperties
<1>2. \A i \in 1 .. n : a[i] \in S
  BY <1>1
<1> QED
  BY <1>1, <1>2, SubSeqProperties

LEMMA NextPart ==
  ASSUME NEW S, NEW line \in Seq(S), NEW input \in Seq(S), NEW b \in Nat, NEW l \in Nat,
         b + l <= Len(line), l <= Len(input), \A i \in 1 .. l : input[i] = line[b + i]
  PROVE  SubSeq(line, 1, b) \o SubSeq(input, 1, l) = SubSeq(line, 1, b + l)
<1> DEFINE old == SubSeq(line, 1, b)
           piece == SubSeq(input, 1, l)
           new == SubSeq(line, 1, b + l)
           x == b + l
<1>1. x \in 0 .. Len(line) /\ b \in 0 .. Len(line) /\ l \in 0 .. Len(input)
  BY LenProperties
<1>2. /\ piece \in Seq(S) /\ Len(piece) = l
      /\ \A i \in 1 .. l : piece[i] = input[i]
  BY <1>1, BeginIs
<1>3. /\ old \in Seq(S) /\ Len(old) = b
      /\ \A i \in 1 .. b : old[i] = line[i]
  BY <1>1, BeginIs
<1>4. /\ new \in Seq(S) /\ Len(new) = x
      /\ \A i \in 1 .. x : new[i] = line[i]
  BY <1>1, BeginIs
<1> HIDE DEF old, piece, new
<1> DEFINE both == old \o piece
<1>5. /\ both \in Seq(S) /\ Len(both) = b + l
      /\ \A i \in 1 .. b : both[i] = old[i]
      /\ \A i \in 1 .. l : both[b + i] = piece[i]
  <2>1. /\ both \in Seq(S) /\ Len(both) = Len(old) + Len(piece)
        /\ \A i \in 1 .. Len(old) : both[i] = old[i]
        /\ \A i \in 1 .. Len(piece) : both[Len(old) + i] = piece[i]
    <3>1. old \in Seq(S) /\ piece \in Seq(S)
      BY <1>2, <1>3
    <3> QED
      BY ONLY <3>1, JoinIs
  <2> HIDE DEF both
  <2> QED
    BY <1>2, <1>3, <2>1
<1> HIDE DEF both
<1>6. ASSUME NEW i \in 1 .. x PROVE both[i] = new[i]
  <2>1. CASE i <= b
    <3>1. i \in 1 .. b
      BY <2>1
    <3> QED
      BY <1>3, <1>4, <1>5, <3>1
  <2>2. CASE ~ (i <= b)
    <3>1. i - b \in 1 .. l /\ b + (i - b) = i
      BY <2>2
    <3>2. both[b + (i - b)] = piece[i - b] /\ piece[i - b] = input[i - b]
          /\ input[i - b] = line[b + (i - b)]
      BY <1>2, <1>5, <3>1
    <3> QED
      BY <1>4, <3>1, <3>2
  <2> QED
    BY <2>1, <2>2
<1> HIDE DEF x
<1>7. both = new
  <2>1. Len(both) = x
    BY <1>5 DEF x
  <2> QED
    BY <1>4, <1>5, <1>6, <2>1, EqualSeqs
<1> QED
  BY <1>7 DEF both, old, piece, new

LEMMA LineReadIs ==
  ASSUME NEW input \in Seq(Tokens), input # << >>, NEW most \in Int, most >= 1,
         NEW m \in Nat \ {0}, m <= Len(input) => input[m] = "lf"
  PROVE  \E l \in 1 .. Len(input) : l <= m /\ ReadLine(input, most) = SubSeq(input, 1, l)
<1> DEFINE I == {i \in 1 .. Len(input) : input[i] = "lf"}
           end == IF I # {} THEN Min(I) ELSE 0
           n == IF end = 0 THEN Len(input) ELSE end
           k == IF most \in 1 .. n THEN most ELSE n
<1>1. ReadLine(input, most) = SubSeq(input, 1, k)
  BY DEF ReadLine, SelectInSeq
<1>2. Len(input) \in Nat /\ Len(input) # 0
  BY EmptySeq
<1>3. n \in 1 .. Len(input) /\ n <= m
  <2>1. CASE I # {}
    <3>1. Min(I) \in I /\ \A y \in I : Min(I) <= y
      <4>1. I \subseteq Nat
        OBVIOUS
      <4> HIDE DEF I
      <4> QED
        BY <2>1, <4>1, LeastIs
    <3>2. n = Min(I) /\ Min(I) \in 1 .. Len(input)
      BY <2>1, <3>1
    <3>3. CASE m <= Len(input)
      <4>1. m \in I
        BY <3>3
      <4> HIDE DEF I, n
      <4> QED
        BY <3>1, <3>2, <4>1
    <3>4. CASE ~ (m <= Len(input))
      <4> HIDE DEF I, n
      <4> QED
        BY <1>2, <3>2, <3>4
    <3> QED
      BY <3>3, <3>4
  <2>2. CASE I = {}
    <3>1. ~ (m <= Len(input))
      BY <2>2
    <3> QED
      BY <1>2, <2>2, <3>1
  <2> QED
    BY <2>1, <2>2
<1> HIDE DEF n
<1>4. k \in 1 .. Len(input) /\ k <= m
  BY <1>2, <1>3
<1> QED
  BY <1>1, <1>4

(* b bytes of the line were read before, and the others arrive.           *)
LineFollows(r, line, b, input) ==
  /\ line \in Seq(Tokens) /\ b \in Nat /\ b < Len(line) /\ line[Len(line)] = "lf"
  /\ r.lineBuffer = SubSeq(line, 1, b)
  /\ \A k \in 1 .. Len(input) : b + k <= Len(line) => input[k] = line[b + k]

LineRead(r, line, b, input, read, l) ==
  /\ b + l <= Len(line) /\ read.taken = l /\ input[l] = line[b + l]
  /\ read.request.lineBuffer = SubSeq(line, 1, b + l)
  /\ read.request.currentSize = r.currentSize + (b + l)
  /\ read.request = [r EXCEPT !.lineBuffer = SubSeq(line, 1, b + l),
                              !.currentSize = r.currentSize + (b + l)]

(* The part of a line that is in the buffer grows.                         *)
LEMMA LineGrows ==
  ASSUME NEW r, NEW n \in Nat, RequestTypes(r), HeadFits(r, n),
         NEW input \in Seq(Tokens), input # << >>,
         NEW line, NEW b, LineFollows(r, line, b, input)
  PROVE  \E l \in 1 .. Len(input) : LineRead(r, line, b, input, AppendLine(r, input), l)
<1>0. /\ line \in Seq(Tokens) /\ b \in Nat /\ b < Len(line) /\ line[Len(line)] = "lf"
      /\ r.lineBuffer = SubSeq(line, 1, b)
      /\ \A k \in 1 .. Len(input) : b + k <= Len(line) => input[k] = line[b + k]
  BY DEF LineFollows
<1> DEFINE most == MaxSize - r.currentSize + 1
           m == Len(line) - b
           piece == ReadLine(input, most)
<1>1. most \in Int /\ most >= 1
  BY SizesAssumption DEF HeadFits
<1>2. Len(line) \in Nat /\ m \in Nat \ {0} /\ Len(input) \in Nat
  BY <1>0, LenProperties
<1>3. m <= Len(input) => input[m] = "lf"
  <2>1. b + m = Len(line) /\ (m <= Len(input) => m \in 1 .. Len(input))
    BY <1>0, <1>2
  <2> HIDE DEF m
  <2> QED
    BY <1>0, <1>2, <2>1
<1>4. PICK l \in 1 .. Len(input) : l <= m /\ piece = SubSeq(input, 1, l)
  <2> HIDE DEF most, m
  <2> QED
    BY <1>1, <1>2, <1>3, LineReadIs
<1>5. l \in Nat /\ b + l \in 0 .. Len(line) /\ b \in 0 .. Len(line) /\ l \in 0 .. Len(input)
      /\ b + l <= Len(line)
  BY <1>0, <1>2, <1>4
<1>6. piece \in Seq(Tokens) /\ Len(piece) = l
  BY <1>4, <1>5, BeginIs
<1>7. SubSeq(line, 1, b + l) \in Seq(Tokens) /\ Len(SubSeq(line, 1, b + l)) = b + l
  BY <1>0, <1>5, BeginIs
<1> DEFINE buffer == r.lineBuffer \o piece
<1>10. \A i \in 1 .. l : input[i] = line[b + i]
  <2>1. \A i \in 1 .. l : i \in 1 .. Len(input) /\ b + i <= Len(line)
    BY <1>2, <1>5
  <2> QED
    BY <1>0, <2>1
<1>11. buffer = SubSeq(line, 1, b + l)
  <2>1. SubSeq(line, 1, b) \o SubSeq(input, 1, l) = SubSeq(line, 1, b + l)
    <3>1. l \in Nat /\ b + l <= Len(line) /\ l <= Len(input)
      BY <1>2, <1>5
    <3> QED
      BY <1>0, <1>10, <3>1, NextPart
  <2> QED
    BY <1>0, <1>4, <2>1
<1>9. Len(buffer) = b + l
  BY <1>7, <1>11
<1> HIDE DEF buffer, piece, most, m
<1>12. AppendLine(r, input) =
         [taken |-> Len(piece),
          request |-> [r EXCEPT !.lineBuffer = buffer, !.currentSize = @ + Len(buffer)]]
  BY DEF AppendLine, piece, most, buffer
<1> DEFINE q == [r EXCEPT !.lineBuffer = buffer, !.currentSize = @ + Len(buffer)]
<1>13. q.lineBuffer = buffer /\ q.currentSize = r.currentSize + Len(buffer)
  BY DEF RequestTypes, RequestFields
<1>14. q = [r EXCEPT !.lineBuffer = SubSeq(line, 1, b + l), !.currentSize = r.currentSize + (b + l)]
  BY <1>9, <1>11
<1> HIDE DEF q
<1>15. AppendLine(r, input).taken = l /\ AppendLine(r, input).request = q
  BY <1>6, <1>12 DEF q
<1>16. input[l] = line[b + l]
  BY <1>5, <1>10
<1> QED
  BY <1>5, <1>9, <1>11, <1>13, <1>14, <1>15, <1>16 DEF LineRead

(* What arrives are the bytes of q after the first n.                      *)
Follows(input, q, n) ==
  \A k \in 1 .. Len(input) : n + k <= Len(Bytes(q)) => input[k] = Bytes(q)[n + k]

LineAt(q, j) == IF j < Len(q.head) THEN <<q.head[j + 1], "cr", "lf">> ELSE <<"cr", "lf">>

LEMMA LineAtIs ==
  ASSUME NEW q, IsRequest(q), NEW j \in 0 .. Len(q.head)
  PROVE  LET line == LineAt(q, j) IN
         /\ line \in Seq(Tokens) /\ Len(line) = (IF j < Len(q.head) THEN 3 ELSE 2)
         /\ line[Len(line)] = "lf" /\ line[Len(line) - 1] = "cr"
         /\ 3 * j + Len(line) <= Len(Bytes(q))
         /\ \A i \in 1 .. Len(line) : Bytes(q)[3 * j + i] = line[i]
         /\ j < Len(q.head) => q.head[j + 1] \in Tokens \ {"cr", "lf"}
<1> DEFINE n == Len(q.head)
           line == LineAt(q, j)
<1>1. /\ n \in Nat /\ Len(q.body) \in Nat
      /\ Len(Bytes(q)) = HeadLength(q) + Len(q.body)
      /\ \A i \in 1 .. n : /\ Bytes(q)[3 * (i - 1) + 1] = q.head[i]
                           /\ Bytes(q)[3 * (i - 1) + 2] = "cr"
                           /\ Bytes(q)[3 * (i - 1) + 3] = "lf"
      /\ Bytes(q)[3 * n + 1] = "cr" /\ Bytes(q)[3 * n + 2] = "lf"
  BY BytesAre
<1>2. "cr" \in Tokens /\ "lf" \in Tokens
  BY DEF Tokens
<1>5. j \in Nat /\ n \in Nat /\ j <= n /\ Len(Bytes(q)) \in Nat /\ Len(Bytes(q)) >= 3 * n + 2
  <2> DEFINE a == Len(Bytes(q))
             b == Len(q.body)
  <2>1. n \in Nat /\ b \in Nat /\ a = (3 * n + 2) + b
    BY <1>1 DEF HeadLength
  <2> HIDE DEF a, b, n
  <2>2. a \in Nat /\ a >= 3 * n + 2
    BY <2>1
  <2> QED
    BY <2>1, <2>2 DEF a, n
<1>3. CASE j < n
  <2> DEFINE tok == q.head[j + 1]
  <2>1. j + 1 \in 1 .. n /\ (j + 1) - 1 = j
    BY <1>1, <1>3
  <2>2. tok \in Tokens \ {"cr", "lf"}
    <3>1. q.head \in Seq(Tokens) /\ ~ HasLineBreak(q.head)
      BY DEF IsRequest
    <3>2. DOMAIN q.head = 1 .. n
      BY <3>1
    <3> QED
      BY <2>1, <3>1, <3>2 DEF HasLineBreak
  <2>3. Bytes(q)[3 * j + 1] = tok /\ Bytes(q)[3 * j + 2] = "cr" /\ Bytes(q)[3 * j + 3] = "lf"
    BY <1>1, <2>1
  <2> HIDE DEF tok
  <2>4. line = <<tok, "cr", "lf">>
    BY <1>3 DEF LineAt, tok
  <2>5. line \in Seq(Tokens) /\ Len(line) = 3 /\ line[1] = tok /\ line[2] = "cr" /\ line[3] = "lf"
    BY <1>2, <2>2, <2>4
  <2>6. 3 * j + 3 <= Len(Bytes(q))
    BY <1>3, <1>5
  <2> HIDE DEF line
  <2>7. \A i \in 1 .. 3 : Bytes(q)[3 * j + i] = line[i]
    <3>1. \A i \in 1 .. 3 : i = 1 \/ i = 2 \/ i = 3
      OBVIOUS
    <3> QED
      BY <2>3, <2>5, <3>1
  <2> QED
    BY <1>3, <2>2, <2>5, <2>6, <2>7 DEF line, tok
<1>4. CASE ~ (j < n)
  <2>1. j = n
    BY <1>1, <1>4
  <2>2. line = <<"cr", "lf">>
    BY <1>4 DEF LineAt
  <2>3. line \in Seq(Tokens) /\ Len(line) = 2 /\ line[1] = "cr" /\ line[2] = "lf"
    BY <1>2, <2>2
  <2>4. 3 * j + 2 <= Len(Bytes(q))
    BY <1>5, <2>1
  <2> HIDE DEF line
  <2>5. \A i \in 1 .. 2 : Bytes(q)[3 * j + i] = line[i]
    <3>1. \A i \in 1 .. 2 : i = 1 \/ i = 2
      OBVIOUS
    <3> QED
      BY <1>1, <2>1, <2>3, <3>1
  <2> QED
    BY <1>4, <2>3, <2>4, <2>5 DEF line
<1> QED
  BY <1>3, <1>4

(* A line of the head: a piece of it ends with CR, its contents or all of  *)
(* it are read.                                                            *)
LEMMA HeadTurn ==
  ASSUME NEW r, NEW m \in Nat, RequestTypes(r), HeadFits(r, m),
         NEW input \in Seq(Tokens), input # << >>,
         NEW q, IsRequest(q), NEW n \in Nat, NEW j, NEW split,
         LinesRead(r, q, n, j, split), Follows(input, q, n)
  PROVE  LET read == AppendLine(r, input)
             x == read.request
             line == LineAt(q, j) IN
         /\ read.taken \in 1 .. Len(input)
         /\ DOMAIN read = {"taken", "request"}
         /\ DOMAIN x = RequestFields /\ x.status = r.status /\ x.headers = r.headers
         /\ x.body = << >> /\ x.tempFile = << >> /\ ~ x.multipart /\ x.multipart = r.multipart
         /\ x.currentSize \in Nat
         /\ \/ input[read.taken] = "cr"
            \/ /\ j < Len(q.head) /\ x.lineBuffer = <<q.head[j + 1]>>
               /\ n + read.taken = 3 * j + 1
            \/ /\ x.lineBuffer = line /\ n + read.taken = 3 * j + Len(line)
               /\ ~ split => x.currentSize = n + read.taken
<1> DEFINE line == LineAt(q, j)
           b == n - 3 * j
           read == AppendLine(r, input)
           x == read.request
<1>1. j \in 0 .. Len(q.head) /\ Len(q.head) \in Nat /\ j \in Nat
  BY BytesAre DEF LinesRead
<1>2. /\ line \in Seq(Tokens) /\ Len(line) = (IF j < Len(q.head) THEN 3 ELSE 2)
      /\ line[Len(line)] = "lf" /\ line[Len(line) - 1] = "cr"
      /\ 3 * j + Len(line) <= Len(Bytes(q))
      /\ \A i \in 1 .. Len(line) : Bytes(q)[3 * j + i] = line[i]
      /\ j < Len(q.head) => q.head[j + 1] \in Tokens \ {"cr", "lf"}
  BY <1>1, LineAtIs
<1>3. \/ b = 0 /\ r.lineBuffer = << >>
      \/ b = 1 /\ j < Len(q.head) /\ r.lineBuffer = <<q.head[j + 1]>> /\ split
  BY <1>1 DEF LinesRead
<1>4. j < Len(q.head) => line = <<q.head[j + 1], "cr", "lf">>
  BY DEF LineAt
<1> HIDE DEF line
<1>5. n = 3 * j + b /\ b \in Nat /\ b < Len(line)
  <2>1. b = 0 \/ (b = 1 /\ Len(line) = 3)
    BY <1>2, <1>3
  <2>2. n = 3 * j + b
    BY <1>1
  <2> HIDE DEF b
  <2> QED
    BY <1>2, <2>1, <2>2
<1> HIDE DEF b
<1>6. SubSeq(line, 1, 0) = << >> /\ (j < Len(q.head) => SubSeq(line, 1, 1) = <<q.head[j + 1]>>)
  <2>1. 0 \in 0 .. Len(line) /\ 1 \in 0 .. Len(line)
    BY <1>2
  <2>2. SubSeq(line, 1, 0) \in Seq(Tokens) /\ Len(SubSeq(line, 1, 0)) = 0
    BY <1>2, <2>1, BeginIs
  <2>3. SubSeq(line, 1, 0) = << >>
    BY <2>2, EmptySeq
  <2>4. /\ SubSeq(line, 1, 1) \in Seq(Tokens) /\ Len(SubSeq(line, 1, 1)) = 1
        /\ SubSeq(line, 1, 1)[1] = line[1]
    BY <1>2, <2>1, BeginIs
  <2>5. ASSUME j < Len(q.head) PROVE SubSeq(line, 1, 1) = <<q.head[j + 1]>>
    <3> DEFINE start == SubSeq(line, 1, 1)
               tok == q.head[j + 1]
    <3>1. line[1] = tok /\ tok \in Tokens
      BY <1>2, <1>4, <2>5
    <3>2. start \in Seq(Tokens) /\ Len(start) = 1 /\ start[1] = tok
      BY <2>4, <3>1
    <3> HIDE DEF start, tok
    <3>3. <<tok>> \in Seq(Tokens) /\ Len(<<tok>>) = 1 /\ <<tok>>[1] = tok
      BY <3>1
    <3>4. start = <<tok>>
      BY <3>2, <3>3, EqualSeqs
    <3> QED
      BY <3>4 DEF start, tok
  <2> QED
    BY <2>3, <2>5
<1>7. r.lineBuffer = SubSeq(line, 1, b)
  BY <1>3, <1>6
<1>8. \A k \in 1 .. Len(input) : b + k <= Len(line) => input[k] = line[b + k]
  <2> SUFFICES ASSUME NEW k \in 1 .. Len(input), b + k <= Len(line) PROVE input[k] = line[b + k]
    OBVIOUS
  <2>1. b + k \in 1 .. Len(line) /\ n + k = 3 * j + (b + k)
    BY <1>1, <1>2, <1>5
  <2>2. n + k <= Len(Bytes(q))
    <3>1. Len(Bytes(q)) \in Nat /\ Len(line) \in Nat
      BY <1>2, BytesAre, LenProperties
    <3> QED
      BY <1>1, <1>2, <1>5, <2>1, <3>1
  <2>3. input[k] = Bytes(q)[n + k]
    BY <2>2 DEF Follows
  <2> QED
    BY <1>2, <2>1, <2>3
<1>9. PICK l \in 1 .. Len(input) :
           /\ b + l <= Len(line) /\ read.taken = l /\ input[l] = line[b + l]
           /\ x.lineBuffer = SubSeq(line, 1, b + l)
           /\ x.currentSize = r.currentSize + (b + l)
           /\ x = [r EXCEPT !.lineBuffer = SubSeq(line, 1, b + l),
                            !.currentSize = r.currentSize + (b + l)]
  <2>1. LineFollows(r, line, b, input)
    BY <1>2, <1>5, <1>7, <1>8 DEF LineFollows
  <2>2. \E l \in 1 .. Len(input) : LineRead(r, line, b, input, AppendLine(r, input), l)
    BY <2>1, LineGrows
  <2> QED
    BY <2>2 DEF LineRead
<1>10. l \in Nat /\ l >= 1 /\ Len(input) \in Nat
  BY LenProperties
<1>11. /\ DOMAIN read = {"taken", "request"}
       /\ DOMAIN x = RequestFields /\ x.status = r.status /\ x.headers = r.headers
       /\ x.body = << >> /\ x.tempFile = << >> /\ ~ x.multipart /\ x.multipart = r.multipart
  <2>1. DOMAIN read = {"taken", "request"}
    BY DEF AppendLine
  <2>2. x = [r EXCEPT !.lineBuffer = SubSeq(line, 1, b + l), !.currentSize = r.currentSize + (b + l)]
    BY <1>9
  <2> HIDE DEF read, x
  <2>3. DOMAIN x = RequestFields /\ x.status = r.status /\ x.headers = r.headers
        /\ x.body = r.body /\ x.tempFile = r.tempFile /\ x.multipart = r.multipart
    BY <2>2 DEF RequestTypes, RequestFields
  <2> QED
    BY <2>1, <2>3 DEF HeadFits
<1>12. x.currentSize \in Nat /\ (~ split => b = 0 /\ x.currentSize = n + l)
  <2>1. x.currentSize = r.currentSize + (b + l)
    BY <1>9
  <2>2. r.currentSize \in Nat
    BY DEF HeadFits
  <2>3. ~ split => b = 0 /\ r.currentSize = n
    BY <1>3 DEF LinesRead
  <2> HIDE DEF x
  <2> QED
    BY <1>5, <1>10, <2>1, <2>2, <2>3
<1>13. x.lineBuffer = SubSeq(line, 1, b + l) /\ input[l] = line[b + l] /\ read.taken = l
  BY <1>9
<1> HIDE DEF x, read
<1>14. \/ input[l] = "cr"
       \/ j < Len(q.head) /\ x.lineBuffer = <<q.head[j + 1]>> /\ n + l = 3 * j + 1
       \/ x.lineBuffer = line /\ n + l = 3 * j + Len(line)
  <2> DEFINE c == b + l
  <2>1. c \in Nat /\ c >= 1 /\ c <= Len(line) /\ n + l = 3 * j + c
    <3>1. b + l <= Len(line)
      BY <1>9
    <3>2. b \in Nat /\ j \in Nat /\ n = 3 * j + b
      BY <1>1, <1>5
    <3> QED
      BY <1>10, <3>1, <3>2
  <2>2. x.lineBuffer = SubSeq(line, 1, c) /\ input[l] = line[c]
    BY <1>13
  <2> HIDE DEF c
  <2>3. CASE c = Len(line)
    <3>1. SubSeq(line, 1, c) = line
      BY <1>2, <2>3, SubSeqFull
    <3> QED
      BY <2>1, <2>2, <2>3, <3>1
  <2>4. CASE c = Len(line) - 1
    BY <1>2, <2>2, <2>4
  <2>5. CASE c # Len(line) /\ c # Len(line) - 1
    <3>1. c = 1 /\ j < Len(q.head)
      BY <1>2, <2>1, <2>5
    <3> QED
      BY <1>6, <2>1, <2>2, <3>1
  <2> QED
    BY <2>3, <2>4, <2>5
<1> QED
  BY <1>10, <1>11, <1>12, <1>13, <1>14 DEF x, read, line

-----------------------------------------------------------------------------
(* The headers, as they are read line by line.                             *)

LEMMA LengthTrueIs ==
  ASSUME NEW q, IsRequest(q), LengthTrue(q)
  PROVE  /\ (\A i \in 1 .. Len(q.head) : q.head[i] \notin Lengths) => q.body = << >>
         /\ \A i \in 1 .. Len(q.head) : q.head[i] \in Lengths =>
              /\ ToInt(HeaderLine[q.head[i]].value) = Len(q.body)
              /\ i < Len(q.head) => q.head[i + 1] # "more"
<1> DEFINE lengths == {i \in DOMAIN q.head : q.head[i] \in Lengths}
<1>1. DOMAIN q.head = 1 .. Len(q.head)
  BY DEF IsRequest
<1>2. IF lengths = {} THEN q.body = << >>
      ELSE \A i \in lengths :
             /\ ToInt(HeaderLine[q.head[i]].value) = Len(q.body)
             /\ i < Len(q.head) => q.head[i + 1] # "more"
  BY DEF LengthTrue
<1> QED
  BY <1>1, <1>2

LEMMA HeaderLineIs ==
  ASSUME NEW token \in DOMAIN HeaderLine
  PROVE  /\ HeaderLine[token] \in HeaderEntries /\ token # "more"
         /\ HeaderLine[token].name = "content-length" <=> token \in Lengths
<1>1. token \in {"Host", "Close", "Form", "Upload", "Length1", "Length2", "Length6", "Length9",
                 "Length12", "Negative"}
  BY DEF HeaderLine
<1> DEFINE Right(t) ==
             /\ HeaderLine[t] \in HeaderEntries /\ t # "more"
             /\ HeaderLine[t].name = "content-length" <=> t \in Lengths
<1>2. Right("Host")
  <2>1. HeaderLine["Host"] = [name |-> "host", value |-> "x"]
    BY DEF HeaderLine
  <2> QED
    BY <2>1 DEF HeaderEntries, HeaderNames, HeaderValues, Lengths
<1>3. Right("Close")
  <2>1. HeaderLine["Close"] = [name |-> "connection", value |-> "close"]
    BY DEF HeaderLine
  <2> QED
    BY <2>1 DEF HeaderEntries, HeaderNames, HeaderValues, Lengths
<1>4. Right("Form")
  <2>1. HeaderLine["Form"] = [name |-> "content-type", value |-> "form"]
    BY DEF HeaderLine
  <2> QED
    BY <2>1 DEF HeaderEntries, HeaderNames, HeaderValues, Lengths
<1>5. Right("Upload")
  <2>1. HeaderLine["Upload"] = [name |-> "content-type", value |-> "multipart"]
    BY DEF HeaderLine
  <2> QED
    BY <2>1 DEF HeaderEntries, HeaderNames, HeaderValues, Lengths
<1>6. Right("Length1")
  <2>1. HeaderLine["Length1"] = [name |-> "content-length", value |-> "1"]
    BY DEF HeaderLine
  <2> QED
    BY <2>1 DEF HeaderEntries, HeaderNames, HeaderValues, Lengths
<1>7. Right("Length2")
  <2>1. HeaderLine["Length2"] = [name |-> "content-length", value |-> "2"]
    BY DEF HeaderLine
  <2> QED
    BY <2>1 DEF HeaderEntries, HeaderNames, HeaderValues, Lengths
<1>8. Right("Length6")
  <2>1. HeaderLine["Length6"] = [name |-> "content-length", value |-> "6"]
    BY DEF HeaderLine
  <2> QED
    BY <2>1 DEF HeaderEntries, HeaderNames, HeaderValues, Lengths
<1>9. Right("Length9")
  <2>1. HeaderLine["Length9"] = [name |-> "content-length", value |-> "9"]
    BY DEF HeaderLine
  <2> QED
    BY <2>1 DEF HeaderEntries, HeaderNames, HeaderValues, Lengths
<1>10. Right("Length12")
  <2>1. HeaderLine["Length12"] = [name |-> "content-length", value |-> "12"]
    BY DEF HeaderLine
  <2> QED
    BY <2>1 DEF HeaderEntries, HeaderNames, HeaderValues, Lengths
<1>11. Right("Negative")
  <2>1. HeaderLine["Negative"] = [name |-> "content-length", value |-> "-1"]
    BY DEF HeaderLine
  <2> QED
    BY <2>1 DEF HeaderEntries, HeaderNames, HeaderValues, Lengths
<1> HIDE DEF Right
<1>12. Right(token)
  BY <1>1, <1>2, <1>3, <1>4, <1>5, <1>6, <1>7, <1>8, <1>9, <1>10, <1>11
<1> QED
  BY <1>12 DEF Right

LEMMA HeaderAdded ==
  ASSUME NEW headers, NEW q, IsRequest(q), LengthTrue(q), NEW j \in 1 .. Len(q.head) - 1,
         HeadersFrom(headers, q, j), NEW entry \in HeaderEntries,
         entry.name = "content-length" =>
           q.head[j + 1] \in Lengths /\ ToInt(entry.value) = Len(q.body),
         q.head[j + 1] \in Lengths => entry.name = "content-length"
  PROVE  HeadersFrom(Append(headers, entry), q, j + 1)
<1> DEFINE new == Append(headers, entry)
           n == Len(headers)
<1>1. /\ headers \in Seq(HeaderEntries)
      /\ \A i \in DOMAIN headers :
           headers[i].name = "content-length" => ToInt(headers[i].value) = Len(q.body)
      /\ (\E i \in 2 .. j : q.head[i] \in Lengths) =>
           \E i \in DOMAIN headers : headers[i].name = "content-length"
  BY DEF HeadersFrom
<1>2. /\ new \in Seq(HeaderEntries) /\ n \in Nat /\ Len(new) = n + 1 /\ DOMAIN new = 1 .. n + 1
      /\ DOMAIN headers = 1 .. n
      /\ \A i \in 1 .. n : new[i] = headers[i]
      /\ new[n + 1] = entry
  BY <1>1
<1> HIDE DEF new
<1>3. Last(new) = entry
  BY <1>2 DEF Last
<1>4. \A i \in DOMAIN new : new[i].name = "content-length" => ToInt(new[i].value) = Len(q.body)
  <2> SUFFICES ASSUME NEW i \in DOMAIN new, new[i].name = "content-length"
               PROVE  ToInt(new[i].value) = Len(q.body)
    OBVIOUS
  <2>1. i \in 1 .. n \/ i = n + 1
    BY <1>2
  <2> QED
    BY <1>1, <1>2, <2>1
<1>5. (\E i \in 2 .. j + 1 : q.head[i] \in Lengths) =>
        \E i \in DOMAIN new : new[i].name = "content-length"
  <2> SUFFICES ASSUME NEW i \in 2 .. j + 1, q.head[i] \in Lengths
               PROVE  \E k \in DOMAIN new : new[k].name = "content-length"
    OBVIOUS
  <2>1. CASE i = j + 1
    BY <1>2, <2>1
  <2>2. CASE i # j + 1
    <3>1. i \in 2 .. j
      BY <2>2
    <3>2. PICK k \in DOMAIN headers : headers[k].name = "content-length"
      BY <1>1, <3>1
    <3> QED
      BY <1>2, <3>2
  <2> QED
    BY <2>1, <2>2
<1> QED
  BY <1>2, <1>3, <1>4, <1>5 DEF HeadersFrom, new

(* What readHeader makes of a header line.                                 *)
HeadersAfter(headers, token) ==
  LET last == IF headers = << >> THEN NoHeader ELSE Last(headers)
  IN  IF token # "more" THEN Append(headers, HeaderLine[token])
      ELSE IF last = NoHeader THEN headers
      ELSE Append(headers, [last EXCEPT !.value = "folded"])

LEMMA HeaderRead ==
  ASSUME NEW headers, NEW q, IsRequest(q), LengthTrue(q), NEW j \in 1 .. Len(q.head) - 1,
         HeadersFrom(headers, q, j)
  PROVE  HeadersFrom(HeadersAfter(headers, q.head[j + 1]), q, j + 1)
<1> DEFINE token == q.head[j + 1]
<1>1. j + 1 \in 2 .. Len(q.head) /\ j \in 1 .. Len(q.head) /\ j + 1 \in 1 .. Len(q.head)
      /\ Len(q.head) \in Nat /\ j < Len(q.head)
  BY BytesAre
<1>2. token \in DOMAIN HeaderLine \cup {"more"}
  BY <1>1 DEF IsRequest
<1>3. /\ token \in Lengths => ToInt(HeaderLine[token].value) = Len(q.body)
      /\ q.head[j] \in Lengths => token # "more"
  BY <1>1, LengthTrueIs
<1>4. CASE token # "more"
  <2>1. token \in DOMAIN HeaderLine
    BY <1>2, <1>4
  <2> DEFINE entry == HeaderLine[token]
  <2>2. entry \in HeaderEntries /\ (entry.name = "content-length" <=> token \in Lengths)
    BY <2>1, HeaderLineIs
  <2>3. HeadersFrom(Append(headers, entry), q, j + 1)
    <3>1. token \in Lengths => ToInt(entry.value) = Len(q.body)
      BY <1>3
    <3> HIDE DEF entry
    <3> QED
      BY <2>2, <3>1, HeaderAdded
  <2> QED
    BY <1>4, <2>3 DEF HeadersAfter
<1>5. CASE token = "more"
  <2> DEFINE last == IF headers = << >> THEN NoHeader ELSE Last(headers)
  <2>1. token \notin Lengths
    BY <1>5 DEF Lengths
  <2>2. headers \in Seq(HeaderEntries)
    BY DEF HeadersFrom
  <2>3. headers # << >> => Last(headers) \in HeaderEntries /\ Last(headers).name # "content-length"
    <3> SUFFICES ASSUME headers # << >>
                 PROVE  Last(headers) \in HeaderEntries /\ Last(headers).name # "content-length"
      OBVIOUS
    <3>1. Last(headers) \in HeaderEntries
      <4>1. Len(headers) \in 1 .. Len(headers)
        BY <2>2, EmptySeq
      <4> QED
        BY <2>2, <4>1 DEF Last
    <3>2. Last(headers).name # "content-length"
      BY <1>3, <1>5 DEF HeadersFrom
    <3> QED
      BY <3>1, <3>2
  <2>4. CASE last = NoHeader
    <3>1. HeadersAfter(headers, token) = headers
      BY <1>5, <2>4 DEF HeadersAfter
    <3>2. \A i \in 2 .. j + 1 : q.head[i] \in Lengths => i \in 2 .. j
      BY <2>1
    <3>3. HeadersFrom(headers, q, j + 1)
      BY <2>3, <3>2 DEF HeadersFrom
    <3> QED
      BY <3>1, <3>3
  <2>5. CASE last # NoHeader
    <3> DEFINE entry == [last EXCEPT !.value = "folded"]
    <3>1. last \in HeaderEntries /\ last.name # "content-length"
      BY <2>3, <2>5 DEF NoHeader
    <3>2. entry \in HeaderEntries /\ entry.name # "content-length"
      <4> HIDE DEF last
      <4> QED
        BY <3>1 DEF HeaderEntries, HeaderValues
    <3>3. HeadersAfter(headers, token) = Append(headers, entry)
      BY <1>5, <2>5 DEF HeadersAfter
    <3> HIDE DEF entry
    <3>4. HeadersFrom(Append(headers, entry), q, j + 1)
      BY <2>1, <3>2, HeaderAdded
    <3> QED
      BY <3>3, <3>4
  <2> QED
    BY <2>4, <2>5
<1> QED
  BY <1>4, <1>5

(* The announced length, when all headers were read.                       *)
LEMMA AnnouncedLength ==
  ASSUME NEW r, NEW q, IsRequest(q), LengthTrue(q), q.head[1] \in FirstLines,
         HeadersFrom(r.headers, q, Len(q.head))
  PROVE  ToInt(HeaderValue(r, "content-length")) = Len(q.body)
<1> DEFINE n == Len(r.headers)
           I == {i \in 1 .. n : r.headers[i].name = "content-length"}
           i == IF I # {} THEN Max(I) ELSE 0
<1>1. r.headers \in Seq(HeaderEntries) /\ n \in Nat /\ DOMAIN r.headers = 1 .. n
  BY DEF HeadersFrom
<1>2. HeaderValue(r, "content-length") = IF i = 0 THEN "" ELSE r.headers[i].value
  BY DEF HeaderValue, SelectLastInSeq
<1>3. CASE I # {}
  <2>1. Max(I) \in I
    <3>1. I \subseteq 0 .. n
      OBVIOUS
    <3> HIDE DEF I
    <3> QED
      BY <1>1, <1>3, <3>1, GreatestIs
  <2>2. i \in 1 .. n /\ i # 0 /\ r.headers[i].name = "content-length"
    BY <1>1, <1>3, <2>1
  <2> HIDE DEF i
  <2> QED
    BY <1>1, <1>2, <2>2 DEF HeadersFrom
<1>4. CASE I = {}
  <2>1. \A k \in 2 .. Len(q.head) : q.head[k] \notin Lengths
    BY <1>1, <1>4 DEF HeadersFrom
  <2>2. q.head[1] \notin Lengths
    BY DEF FirstLines, Lengths
  <2>3. \A k \in 1 .. Len(q.head) : q.head[k] \notin Lengths
    <3>1. \A k \in 1 .. Len(q.head) : k = 1 \/ k \in 2 .. Len(q.head)
      OBVIOUS
    <3> QED
      BY <2>1, <2>2, <3>1
  <2>4. q.body = << >>
    BY <2>3, LengthTrueIs
  <2>5. HeaderValue(r, "content-length") = ""
    BY <1>2, <1>4
  <2>6. ToInt("") = 0
    BY DEF ToInt
  <2> QED
    BY <2>4, <2>5, <2>6, EmptySeq
<1> QED
  BY <1>3, <1>4

-----------------------------------------------------------------------------
(* A line without what it ends with.                                       *)
LEMMA TrimmedIs ==
  /\ Trimmed(<<"cr", "lf">>) = << >> /\ HasLineBreak(<<"cr", "lf">>)
  /\ \A token : token \notin {"cr", "lf"} =>
       /\ Trimmed(<<token, "cr", "lf">>) = <<token>> /\ HasLineBreak(<<token, "cr", "lf">>)
       /\ ~ HasLineBreak(<<token>>)
<1>1. Trimmed(<<"cr", "lf">>) = << >> /\ HasLineBreak(<<"cr", "lf">>)
  <2> DEFINE line == <<"cr", "lf">>
  <2>1. DOMAIN line = {1, 2} /\ line[1] = "cr" /\ line[2] = "lf"
    OBVIOUS
  <2> HIDE DEF line
  <2>2. {i \in DOMAIN line : line[i] \notin {"cr", "lf"}} = {}
    BY <2>1
  <2> QED
    BY <2>1, <2>2 DEF Trimmed, HasLineBreak, line
<1>2. ASSUME NEW token, token \notin {"cr", "lf"}
      PROVE  /\ Trimmed(<<token, "cr", "lf">>) = <<token>> /\ HasLineBreak(<<token, "cr", "lf">>)
             /\ ~ HasLineBreak(<<token>>)
  <2> DEFINE line == <<token, "cr", "lf">>
             kept == {i \in DOMAIN line : line[i] \notin {"cr", "lf"}}
             S == {token, "cr", "lf"}
  <2>1. /\ DOMAIN line = {1, 2, 3} /\ line[1] = token /\ line[2] = "cr" /\ line[3] = "lf"
        /\ line \in Seq(S) /\ Len(line) = 3
    OBVIOUS
  <2>2. ~ HasLineBreak(<<token>>)
    BY <1>2 DEF HasLineBreak
  <2> HIDE DEF line
  <2>3. kept = {1}
    BY <1>2, <2>1
  <2>4. HasLineBreak(line)
    BY <2>1 DEF HasLineBreak
  <2>5. Min({1}) = 1 /\ Max({1}) = 1
    <3> DEFINE K == {1}
    <3>1. K \subseteq Nat /\ K # {} /\ K \subseteq 0 .. 1 /\ \A i \in K : i = 1
      OBVIOUS
    <3> HIDE DEF K
    <3>2. Min(K) \in K /\ Max(K) \in K
      <4>1. 1 \in Nat
        OBVIOUS
      <4> QED
        BY <3>1, <4>1, LeastIs, GreatestIs
    <3> QED
      BY <3>1, <3>2 DEF K
  <2>6. Trimmed(line) = SubSeq(line, 1, 1)
    <3>1. Trimmed(line) = IF kept = {} THEN << >> ELSE SubSeq(line, Min(kept), Max(kept))
      BY DEF Trimmed
    <3> QED
      BY <2>3, <2>5, <3>1
  <2>7. SubSeq(line, 1, 1) \in Seq(S) /\ Len(SubSeq(line, 1, 1)) = 1 /\ SubSeq(line, 1, 1)[1] = token
    <3>1. 1 \in 0 .. Len(line) /\ 1 \in 1 .. 1
      BY <2>1
    <3> QED
      BY <2>1, <3>1, BeginIs
  <2>8. <<token>> \in Seq(S) /\ Len(<<token>>) = 1 /\ <<token>>[1] = token
    OBVIOUS
  <2>9. SubSeq(line, 1, 1) = <<token>>
    <3> DEFINE a == SubSeq(line, 1, 1)
               b == <<token>>
    <3>1. a \in Seq(S) /\ b \in Seq(S) /\ Len(a) = 1 /\ Len(b) = 1 /\ a[1] = b[1]
      BY <2>7, <2>8
    <3> HIDE DEF a, b
    <3>2. a = b
      BY <3>1, EqualSeqs
    <3> QED
      BY <3>2 DEF a, b
  <2> QED
    BY <2>2, <2>4, <2>6, <2>9 DEF line
<1> QED
  BY <1>1, <1>2

(* What a turn leaves of the request q of the client, n bytes of it read.  *)
StepTurn(x, q, n, split) ==
  /\ InStep(x, q, n, split)
  /\ x.status = "complete" => Whole(x, q, n) /\ (x.multipart => x.body = << >>)
  /\ x.status = "abort" /\ ~ split => Reason(q, x.multipart)
  /\ x.status # "abort" /\ ~ split =>
       /\ x.currentSize \in Nat
       /\ IF x.multipart THEN x.currentSize <= HeadLength(q) + Cardinality(ValuesIn(q.body))
          ELSE x.currentSize <= Len(Bytes(q))

TurnKeeps(input, q, n, split, read) ==
  \/ input[read.taken] = "cr"
  \/ StepTurn(read.request, q, n + read.taken, read.request.lineBuffer # << >> \/ split)

(* The lines of the head are within the request.                           *)
LEMMA LinesWithin ==
  ASSUME NEW x, NEW q, IsRequest(q), NEW n \in Nat, NEW j, NEW split, LinesRead(x, q, n, j, split),
         ~ split, x.multipart \in BOOLEAN, ~ x.multipart
  PROVE  x.currentSize = n /\ x.currentSize \in Nat /\ x.currentSize <= Len(Bytes(q))
<1> DEFINE h == Len(q.head)
           b == Len(q.body)
           a == Len(Bytes(q))
<1>1. h \in Nat /\ b \in Nat /\ a = (3 * h + 2) + b
  BY BytesAre DEF HeadLength
<1>2. j \in 0 .. h /\ (n = 3 * j \/ (n = 3 * j + 1 /\ j < h)) /\ x.currentSize = n
  BY DEF LinesRead
<1> HIDE DEF a, b, h
<1>3. n <= a
  BY <1>1, <1>2
<1> QED
  BY <1>2, <1>3 DEF a

LEMMA ReadRequestTurn ==
  ASSUME NEW r, NEW m \in Nat, RequestTypes(r), HeadFits(r, m), r.status = "waitForRequest",
         NEW input \in Seq(Tokens), input # << >>,
         NEW q, IsRequest(q), NEW n \in Nat, NEW split \in BOOLEAN,
         InStep(r, q, n, split), Follows(input, q, n)
  PROVE  TurnKeeps(input, q, n, split, ReadRequest(r, input))
<1> DEFINE read == AppendLine(r, input)
           x == read.request
           next == [x EXCEPT !.lineBuffer = << >>]
           line == Trimmed(x.lineBuffer)
           done == ReadRequest(r, input)
<1>1. r.headers = << >> /\ LinesRead(r, q, n, 0, split)
  BY DEF InStep
<1>2. /\ DOMAIN read = {"taken", "request"}
      /\ DOMAIN x = RequestFields /\ x.status = "waitForRequest" /\ x.headers = << >>
      /\ x.body = << >> /\ x.tempFile = << >> /\ ~ x.multipart /\ x.multipart \in BOOLEAN
      /\ read.taken \in 1 .. Len(input)
      /\ \/ input[read.taken] = "cr"
         \/ /\ 0 < Len(q.head) /\ x.lineBuffer = <<q.head[0 + 1]>>
            /\ n + read.taken = 3 * 0 + 1
         \/ /\ x.lineBuffer = LineAt(q, 0) /\ n + read.taken = 3 * 0 + Len(LineAt(q, 0))
            /\ ~ split => x.currentSize = n + read.taken
  BY SMTT(30), <1>1, HeadTurn DEF RequestTypes, HeadFits
<1> DEFINE y == IF line = << >> THEN next
                ELSE IF Len(line) = 1 /\ line[1] \in FirstLines
                THEN [next EXCEPT !.status = "waitForHeader", !.first = line[1]]
                ELSE [next EXCEPT !.status = "abort"]
           z == IF ~ HasLineBreak(x.lineBuffer) THEN x ELSE y
           tok == q.head[1]
           t == read.taken
<1>3. done = IF ~ HasLineBreak(x.lineBuffer) THEN read ELSE [read EXCEPT !.request = y]
  BY DEF ReadRequest
<1>4. done.taken = t /\ done.request = z
  <2> HIDE DEF read, y, x
  <2>1. x = read.request
    BY DEF x
  <2> QED
    BY <1>2, <1>3, <2>1
<1>5. 0 < Len(q.head) /\ 0 + 1 = 1 /\ LineAt(q, 0) = <<tok, "cr", "lf">> /\ Len(LineAt(q, 0)) = 3
      /\ tok \notin {"cr", "lf"} /\ Len(q.head) \in Nat
  <2>1. Len(q.head) \in Nat /\ Len(q.head) # 0 /\ 0 \in 0 .. Len(q.head)
    BY BytesAre
  <2> QED
    BY <2>1, LineAtIs DEF LineAt
<1>6. n + t \in Nat
  BY <1>2
<1> HIDE DEF done, read, t
<1>7. CASE input[t] = "cr"
  BY <1>4, <1>7 DEF TurnKeeps, done
<1>8. CASE x.lineBuffer = <<tok>> /\ n + t = 1
  <2>1. ~ HasLineBreak(x.lineBuffer)
    BY <1>5, <1>8, TrimmedIs
  <2>2. z = x
    BY <2>1
  <2> HIDE DEF x, z
  <2>3. x.lineBuffer # << >>
    BY <1>8
  <2>4. LinesRead(x, q, n + t, 0, TRUE)
    BY <1>5, <1>8 DEF LinesRead
  <2>5. StepTurn(x, q, n + t, TRUE)
    BY <1>2, <2>4 DEF StepTurn, InStep
  <2>6. (x.lineBuffer # << >> \/ split) = TRUE
    BY <2>3
  <2> QED
    BY <1>4, <2>2, <2>5, <2>6 DEF TurnKeeps, done
<1>9. CASE x.lineBuffer = LineAt(q, 0) /\ n + t = 3 /\ (~ split => x.currentSize = n + t)
  <2>1. HasLineBreak(x.lineBuffer) /\ line = <<tok>>
    BY <1>5, <1>9, TrimmedIs
  <2>2. Len(line) = 1 /\ line[1] = tok /\ line # << >>
    BY <2>1
  <2> HIDE DEF x, line
  <2>3. /\ DOMAIN next = RequestFields /\ next.status = "waitForRequest" /\ next.headers = << >>
        /\ ~ next.multipart /\ next.lineBuffer = << >> /\ next.currentSize = x.currentSize
        /\ next.multipart = x.multipart
    BY <1>2 DEF RequestFields
  <2> DEFINE known == [next EXCEPT !.status = "waitForHeader", !.first = line[1]]
             broken == [next EXCEPT !.status = "abort"]
  <2>4. z = IF tok \in FirstLines THEN known ELSE broken
    BY <2>1, <2>2
  <2> HIDE DEF next, z
  <2>5. /\ known.status = "waitForHeader" /\ known.headers = << >>
        /\ ~ known.multipart /\ known.lineBuffer = << >> /\ known.currentSize = x.currentSize
        /\ known.multipart = x.multipart
        /\ broken.status = "abort" /\ broken.lineBuffer = << >> /\ broken.multipart = x.multipart
    BY <2>3 DEF RequestFields
  <2> HIDE DEF known, broken
  <2>6. CASE tok \in FirstLines
    <3>1. HeadersFrom(<< >>, q, 1)
      BY EmptySeq DEF HeadersFrom
    <3>2. LinesRead(known, q, n + t, 1, split)
      BY <1>5, <1>9, <2>5 DEF LinesRead
    <3>3. 1 \in 1 .. Len(q.head)
      BY <1>5
    <3>4. InStep(known, q, n + t, split)
      BY <2>5, <2>6, <3>1, <3>2, <3>3 DEF InStep
    <3>5. ~ split => known.currentSize \in Nat /\ known.currentSize <= Len(Bytes(q))
      BY <1>2, <1>6, <2>5, <3>2, LinesWithin
    <3>6. StepTurn(known, q, n + t, split)
      BY <2>5, <3>4, <3>5 DEF StepTurn
    <3>7. (known.lineBuffer # << >> \/ split) = split
      BY <2>5
    <3> QED
      BY <1>4, <2>4, <2>6, <3>6, <3>7 DEF TurnKeeps, done
  <2>7. CASE tok \notin FirstLines
    <3>1. Reason(q, broken.multipart)
      BY <2>7 DEF Reason
    <3>2. StepTurn(broken, q, n + t, split)
      BY <2>5, <3>1 DEF StepTurn, InStep
    <3>3. (broken.lineBuffer # << >> \/ split) = split
      BY <2>5
    <3> QED
      BY <1>4, <2>4, <2>7, <3>2, <3>3 DEF TurnKeeps, done
  <2> QED
    BY <2>6, <2>7
<1> QED
  <2>1. 3 * 0 + 1 = 1 /\ 3 * 0 + Len(LineAt(q, 0)) = 3
    BY <1>5
  <2> QED
    BY <1>2, <1>5, <1>7, <1>8, <1>9, <2>1 DEF t

-----------------------------------------------------------------------------
(* The end of the head.                                                    *)
LEMMA HeadersCompletedTurn ==
  ASSUME NEW r, DOMAIN r = RequestFields, ~ r.multipart, r.body = << >>, r.tempFile = << >>,
         r.lineBuffer = << >>, r.currentSize \in Nat,
         NEW q, IsRequest(q), LengthTrue(q), q.head[1] \in FirstLines, NEW split \in BOOLEAN,
         HeadersFrom(r.headers, q, Len(q.head)),
         ~ split => r.currentSize = HeadLength(q)
  PROVE  LET x == HeadersCompleted(r) IN
         x.lineBuffer = << >> /\ StepTurn(x, q, HeadLength(q), split)
<1> DEFINE m == ToInt(HeaderValue(r, "content-length"))
           multipart == HeaderValue(r, "content-type") = "multipart"
           s == [r EXCEPT !.expected = m, !.multipart = multipart]
           x == HeadersCompleted(r)
           h == HeadLength(q)
           b == Len(q.body)
           a == Len(Bytes(q))
           v == Cardinality(ValuesIn(q.body))
<1>1. m = b
  BY AnnouncedLength
<1>2. b \in Nat /\ h \in Nat /\ a = h + b /\ h = 3 * Len(q.head) + 2
  <2>1. Len(q.head) \in Nat /\ b \in Nat /\ a = h + b /\ h = 3 * Len(q.head) + 2
    BY BytesAre DEF HeadLength
  <2>2. \A l \in Nat : 3 * l + 2 \in Nat
    OBVIOUS
  <2> QED
    BY <2>1, <2>2
<1>3. x = [s EXCEPT !.status =
             IF m = 0 THEN "complete"
             ELSE IF ~ multipart /\ m + r.currentSize > MaxSize THEN "abort"
             ELSE IF multipart /\ m > MaxMultiPartSize THEN "abort"
             ELSE "waitForBody"]
  BY DEF HeadersCompleted
<1>4. multipart \in BOOLEAN
  OBVIOUS
<1>5. v \in Nat
  <2>1. q.body \in Seq(Tokens)
    BY DEF IsRequest
  <2>2. ValuesIn(q.body) \subseteq 1 .. b
    BY <2>1 DEF ValuesIn
  <2>3. IsFiniteSet(1 .. b)
    <3>1. 1 \in Int /\ b \in Int
      BY <1>2
    <3> HIDE DEF b
    <3> QED
      BY <3>1, FS_Interval
  <2> QED
    BY <2>2, <2>3, FS_Subset, FS_CardinalityType
<1> HIDE DEF m, multipart, v, a, b
<1>6. /\ x.status = (IF m = 0 THEN "complete"
                     ELSE IF ~ multipart /\ m + r.currentSize > MaxSize THEN "abort"
                     ELSE IF multipart /\ m > MaxMultiPartSize THEN "abort"
                     ELSE "waitForBody")
      /\ x.expected = m /\ x.multipart = multipart
      /\ x.body = << >> /\ x.tempFile = << >> /\ x.lineBuffer = << >>
      /\ x.currentSize = r.currentSize
  <2>1. DOMAIN s = RequestFields
    BY DEF RequestFields
  <2>2. s.expected = m /\ s.multipart = multipart /\ s.body = << >> /\ s.tempFile = << >>
        /\ s.lineBuffer = << >> /\ s.currentSize = r.currentSize
    BY DEF RequestFields
  <2> HIDE DEF s, x
  <2> QED
    BY <1>3, <2>1, <2>2 DEF RequestFields
<1> HIDE DEF x, s
<1>7. BodyOf(x) = << >> /\ Len(BodyOf(x)) = 0
  BY <1>6, EmptySeq DEF BodyOf
<1>8. ~ split => x.currentSize \in Nat
                 /\ IF x.multipart THEN x.currentSize <= h + v ELSE x.currentSize <= a
  <2> HIDE DEF h
  <2> QED
    BY <1>2, <1>5, <1>6 DEF h
<1>9. CASE m = 0
  <2>1. x.status = "complete"
    BY <1>6, <1>9
  <2>2. q.body = << >>
    <3>1. q.body \in Seq(Tokens) /\ Len(q.body) = 0
      BY <1>1, <1>9 DEF b, IsRequest
    <3> QED
      BY <3>1, EmptySeq
  <2>3. Whole(x, q, h)
    <3>1. h = h + Len(q.body)
      BY <1>1, <1>2, <1>9 DEF b
    <3> QED
      BY <1>7, <2>2, <3>1 DEF Whole, WellFormed
  <2>4. InStep(x, q, h, split)
    BY <2>1 DEF InStep
  <2> QED
    BY <1>6, <1>8, <2>1, <2>3, <2>4 DEF StepTurn, x, v, a
<1>10. CASE m # 0 /\ ~ multipart /\ m + r.currentSize > MaxSize
  <2>1. x.status = "abort"
    BY <1>6, <1>10
  <2>2. ~ split => Reason(q, x.multipart)
    <3> SUFFICES ASSUME ~ split PROVE Reason(q, x.multipart)
      OBVIOUS
    <3>1. m + r.currentSize > MaxSize /\ m = b /\ r.currentSize = h
      BY <1>1, <1>10
    <3>2. a > MaxSize
      <4> HIDE DEF h
      <4> QED
        BY <1>2, <3>1
    <3> QED
      BY <1>6, <1>10, <3>2 DEF Reason, a
  <2> QED
    BY <1>6, <2>1, <2>2 DEF StepTurn, InStep, x
<1>11. CASE m # 0 /\ multipart /\ m > MaxMultiPartSize
  <2>1. x.status = "abort"
    BY <1>6, <1>11
  <2>2. Reason(q, x.multipart)
    <3>1. Len(q.body) >= MaxMultiPartSize
      BY <1>1, <1>2, <1>11, SizesAssumption DEF b
    <3> QED
      BY <1>6, <1>11, <3>1 DEF Reason
  <2> QED
    BY <1>6, <2>1, <2>2 DEF StepTurn, InStep, x
<1>12. CASE /\ m # 0 /\ ~ (~ multipart /\ m + r.currentSize > MaxSize)
            /\ ~ (multipart /\ m > MaxMultiPartSize)
  <2>1. x.status = "waitForBody"
    BY <1>6, <1>12
  <2>2. h = h + Len(BodyOf(x))
    BY <1>2, <1>7
  <2>3. Len(BodyOf(x)) < Len(q.body) /\ x.expected = Len(q.body)
    BY <1>1, <1>2, <1>6, <1>7, <1>12 DEF b
  <2>4. BodyOf(x) = SubSeq(q.body, 1, Len(BodyOf(x)))
    <3>1. q.body \in Seq(Tokens) /\ 0 \in 0 .. Len(q.body)
      BY <1>2 DEF IsRequest, b
    <3>2. SubSeq(q.body, 1, 0) \in Seq(Tokens) /\ Len(SubSeq(q.body, 1, 0)) = 0
      BY <3>1, BeginIs
    <3> QED
      BY <1>7, <3>2, EmptySeq
  <2>5. ~ split => x.currentSize = h
    BY <1>6
  <2>6. InStep(x, q, h, split)
    BY <1>6, <2>1, <2>2, <2>3, <2>4, <2>5 DEF InStep
  <2> QED
    BY <1>6, <1>8, <2>1, <2>6 DEF StepTurn, x, v, a
<1> QED
  BY <1>9, <1>10, <1>11, <1>12

LEMMA ReadHeaderTurn ==
  ASSUME NEW r, NEW m \in Nat, RequestTypes(r), HeadFits(r, m), r.status = "waitForHeader",
         NEW input \in Seq(Tokens), input # << >>,
         NEW q, IsRequest(q), LengthTrue(q), NEW n \in Nat, NEW split \in BOOLEAN,
         InStep(r, q, n, split), Follows(input, q, n)
  PROVE  TurnKeeps(input, q, n, split, ReadHeader(r, input))
<1> DEFINE read == AppendLine(r, input)
           x == read.request
           next == [x EXCEPT !.lineBuffer = << >>]
           line == Trimmed(x.lineBuffer)
           last == IF next.headers = << >> THEN NoHeader ELSE Last(next.headers)
           done == ReadHeader(r, input)
<1>0. q.head[1] \in FirstLines
  BY DEF InStep
<1>1. PICK j \in 1 .. Len(q.head) : HeadersFrom(r.headers, q, j) /\ LinesRead(r, q, n, j, split)
  BY DEF InStep
<1>2. /\ DOMAIN read = {"taken", "request"}
      /\ DOMAIN x = RequestFields /\ x.status = "waitForHeader" /\ x.headers = r.headers
      /\ x.body = << >> /\ x.tempFile = << >> /\ ~ x.multipart /\ x.multipart \in BOOLEAN
      /\ read.taken \in 1 .. Len(input) /\ x.currentSize \in Nat
      /\ \/ input[read.taken] = "cr"
         \/ /\ j < Len(q.head) /\ x.lineBuffer = <<q.head[j + 1]>>
            /\ n + read.taken = 3 * j + 1
         \/ /\ x.lineBuffer = LineAt(q, j) /\ n + read.taken = 3 * j + Len(LineAt(q, j))
            /\ ~ split => x.currentSize = n + read.taken
  <2>1. /\ read.taken \in 1 .. Len(input)
        /\ DOMAIN read = {"taken", "request"}
        /\ DOMAIN x = RequestFields /\ x.status = r.status /\ x.headers = r.headers
        /\ x.body = << >> /\ x.tempFile = << >> /\ ~ x.multipart /\ x.multipart = r.multipart
        /\ x.currentSize \in Nat
        /\ \/ input[read.taken] = "cr"
           \/ /\ j < Len(q.head) /\ x.lineBuffer = <<q.head[j + 1]>>
              /\ n + read.taken = 3 * j + 1
           \/ /\ x.lineBuffer = LineAt(q, j) /\ n + read.taken = 3 * j + Len(LineAt(q, j))
              /\ ~ split => x.currentSize = n + read.taken
    <3> HIDE DEF read, x
    <3> QED
      BY SMTT(20), <1>1, HeadTurn DEF read, x
  <2> HIDE DEF read, x
  <2> QED
    BY <2>1 DEF RequestTypes
<1> DEFINE y == IF line = << >> THEN HeadersCompleted(next)
                ELSE IF line[1] # "more"
                THEN [next EXCEPT !.headers = Append(@, HeaderLine[line[1]])]
                ELSE IF last = NoHeader THEN next
                ELSE [next EXCEPT !.headers = Append(@, [last EXCEPT !.value = "folded"])]
           z == IF ~ HasLineBreak(x.lineBuffer) THEN x ELSE y
           tok == q.head[j + 1]
           t == read.taken
<1>3. done = IF ~ HasLineBreak(x.lineBuffer) THEN read ELSE [read EXCEPT !.request = y]
  BY DEF ReadHeader
<1>4. done.taken = t /\ done.request = z
  <2> HIDE DEF read, y, x
  <2>1. x = read.request
    BY DEF x
  <2> QED
    BY <1>2, <1>3, <2>1
<1>5. /\ j \in Nat /\ Len(q.head) \in Nat /\ j <= Len(q.head) /\ j \in 1 .. Len(q.head)
      /\ j < Len(q.head) => LineAt(q, j) = <<tok, "cr", "lf">> /\ Len(LineAt(q, j)) = 3
                            /\ tok \notin {"cr", "lf"}
      /\ ~ (j < Len(q.head)) => LineAt(q, j) = <<"cr", "lf">> /\ Len(LineAt(q, j)) = 2
  <2>1. Len(q.head) \in Nat /\ Len(q.head) # 0 /\ j \in 0 .. Len(q.head)
    BY BytesAre
  <2> QED
    BY <2>1, LineAtIs DEF LineAt
<1>6. n + t \in Nat
  BY <1>2
<1> HIDE DEF done, read, t
<1>7. CASE input[t] = "cr"
  BY <1>4, <1>7 DEF TurnKeeps, done
<1>8. CASE j < Len(q.head) /\ x.lineBuffer = <<tok>> /\ n + t = 3 * j + 1
  <2>1. ~ HasLineBreak(x.lineBuffer)
    BY <1>5, <1>8, TrimmedIs
  <2>2. z = x
    BY <2>1
  <2> HIDE DEF x, z
  <2>3. x.lineBuffer # << >>
    BY <1>8
  <2>4. LinesRead(x, q, n + t, j, TRUE)
    BY <1>5, <1>8 DEF LinesRead
  <2>5. StepTurn(x, q, n + t, TRUE)
    BY <1>0, <1>1, <1>2, <2>4 DEF StepTurn, InStep
  <2>6. (x.lineBuffer # << >> \/ split) = TRUE
    BY <2>3
  <2> QED
    BY <1>4, <2>2, <2>5, <2>6 DEF TurnKeeps, done
<1>9. CASE /\ j < Len(q.head) /\ x.lineBuffer = LineAt(q, j) /\ n + t = 3 * j + 3
           /\ ~ split => x.currentSize = n + t
  <2>1. HasLineBreak(x.lineBuffer) /\ line = <<tok>>
    BY <1>5, <1>9, TrimmedIs
  <2>2. line[1] = tok /\ line # << >>
    BY <2>1
  <2> HIDE DEF x, line
  <2>3. /\ DOMAIN next = RequestFields /\ next.status = "waitForHeader" /\ next.headers = r.headers
        /\ ~ next.multipart /\ next.lineBuffer = << >> /\ next.currentSize = x.currentSize
        /\ next.multipart = x.multipart
    BY <1>2 DEF RequestFields
  <2>4. /\ z = IF tok # "more" THEN [next EXCEPT !.headers = Append(@, HeaderLine[tok])]
               ELSE IF last = NoHeader THEN next
               ELSE [next EXCEPT !.headers = Append(@, [last EXCEPT !.value = "folded"])]
        /\ last = IF r.headers = << >> THEN NoHeader ELSE Last(r.headers)
    <3>1. z = y
      BY <2>1
    <3>2. last = IF r.headers = << >> THEN NoHeader ELSE Last(r.headers)
      BY <2>3
    <3> HIDE DEF next, last, z
    <3> QED
      BY <2>2, <3>1, <3>2
  <2> HIDE DEF next, z, last
  <2>5. /\ z.status = "waitForHeader" /\ z.headers = HeadersAfter(r.headers, tok)
        /\ ~ z.multipart /\ z.lineBuffer = << >> /\ z.currentSize = x.currentSize
        /\ z.multipart = x.multipart
    <3>1. CASE tok # "more"
      BY <2>3, <2>4, <3>1 DEF RequestFields, HeadersAfter
    <3>2. CASE tok = "more" /\ last = NoHeader
      BY <2>3, <2>4, <3>2 DEF HeadersAfter
    <3>3. CASE tok = "more" /\ last # NoHeader
      <4>1. HeadersAfter(r.headers, tok) = Append(r.headers, [last EXCEPT !.value = "folded"])
        BY <2>4, <3>3 DEF HeadersAfter
      <4> QED
        BY <2>3, <2>4, <3>3, <4>1 DEF RequestFields
    <3> QED
      BY <3>1, <3>2, <3>3
  <2>6. HeadersFrom(z.headers, q, j + 1)
    <3>1. j \in 1 .. Len(q.head) - 1
      BY <1>5, <1>9
    <3> QED
      BY <1>1, <2>5, <3>1, HeaderRead
  <2>7. LinesRead(z, q, n + t, j + 1, split)
    BY <1>5, <1>9, <2>5 DEF LinesRead
  <2>8. InStep(z, q, n + t, split)
    <3>1. j + 1 \in 1 .. Len(q.head)
      BY <1>5, <1>9
    <3> QED
      BY <1>0, <2>5, <2>6, <2>7, <3>1 DEF InStep
  <2>9. ~ split => z.currentSize \in Nat /\ z.currentSize <= Len(Bytes(q))
    BY <1>2, <1>6, <2>5, <2>7, LinesWithin
  <2>10. StepTurn(z, q, n + t, split)
    BY <2>5, <2>8, <2>9 DEF StepTurn
  <2>11. (z.lineBuffer # << >> \/ split) = split
    BY <2>5
  <2> QED
    BY <1>4, <2>10, <2>11 DEF TurnKeeps, done
<1>10. CASE /\ ~ (j < Len(q.head)) /\ x.lineBuffer = LineAt(q, j) /\ n + t = 3 * j + 2
            /\ ~ split => x.currentSize = n + t
  <2>1. HasLineBreak(x.lineBuffer) /\ line = << >>
    BY <1>5, <1>10, TrimmedIs
  <2>2. z = HeadersCompleted(next)
    BY <2>1
  <2> HIDE DEF x, line, z
  <2>3. /\ DOMAIN next = RequestFields /\ next.headers = r.headers /\ next.body = << >>
        /\ next.tempFile = << >> /\ next.currentSize \in Nat
        /\ ~ next.multipart /\ next.lineBuffer = << >> /\ next.currentSize = x.currentSize
    BY <1>2 DEF RequestFields
  <2> HIDE DEF next
  <2>4. j = Len(q.head) /\ n + t = HeadLength(q)
    BY <1>5, <1>10 DEF HeadLength
  <2>5. HeadersFrom(next.headers, q, Len(q.head)) /\ (~ split => next.currentSize = HeadLength(q))
    BY <1>1, <1>10, <2>3, <2>4
  <2>6. z.lineBuffer = << >> /\ StepTurn(z, q, HeadLength(q), split)
    BY <1>0, <2>2, <2>3, <2>5, HeadersCompletedTurn
  <2>7. (z.lineBuffer # << >> \/ split) = split
    BY <2>6
  <2> QED
    BY <1>4, <2>4, <2>6, <2>7 DEF TurnKeeps, done
<1> QED
  BY <1>2, <1>5, <1>7, <1>8, <1>9, <1>10 DEF t

-----------------------------------------------------------------------------
(* The body, as it is read piece by piece.                                 *)
LEMMA BodyGrows ==
  ASSUME NEW q, IsRequest(q), NEW B \in Seq(Tokens), B = SubSeq(q.body, 1, Len(B)),
         Len(B) < Len(q.body), NEW input \in Seq(Tokens), input # << >>,
         Follows(input, q, HeadLength(q) + Len(B))
  PROVE  LET piece == MissingPiece(B, Len(q.body), input)
             new == B \o piece IN
         /\ piece \in Seq(Tokens) /\ Len(piece) \in Nat
         /\ new \in Seq(Tokens) /\ Len(new) = Len(B) + Len(piece) /\ Len(new) <= Len(q.body)
         /\ new = SubSeq(q.body, 1, Len(new))
         /\ Len(new) >= Len(q.body) => new = q.body
<1> DEFINE missing == Len(q.body) - Len(B)
           k == IF missing < Len(input) THEN missing ELSE Len(input)
           piece == SubSeq(input, 1, k)
           new == B \o piece
           b == Len(B)
           l == Len(q.body)
           h == HeadLength(q)
<1>1. /\ q.body \in Seq(Tokens) /\ l \in Nat /\ b \in Nat /\ Len(input) \in Nat /\ b < l
      /\ Len(Bytes(q)) = h + l /\ h \in Nat
      /\ \A i \in 1 .. l : Bytes(q)[h + i] = q.body[i]
  <2>1. /\ Len(q.head) \in Nat /\ l \in Nat /\ Len(Bytes(q)) = h + l /\ h = 3 * Len(q.head) + 2
        /\ \A i \in 1 .. l : Bytes(q)[h + i] = q.body[i]
    BY BytesAre DEF HeadLength
  <2>2. \A i \in Nat : 3 * i + 2 \in Nat
    OBVIOUS
  <2>3. b \in Nat /\ Len(input) \in Nat
    BY LenProperties
  <2> QED
    BY <2>1, <2>2, <2>3 DEF IsRequest
<1>2. k \in 0 .. Len(input) /\ k \in Nat /\ b + k <= l
  <2>1. missing = l - b
    OBVIOUS
  <2> HIDE DEF missing, l, b
  <2> QED
    BY <1>1, <2>1
<1> HIDE DEF k
<1>3. piece \in Seq(Tokens) /\ Len(piece) = k
  BY <1>2, BeginIs
<1>4. \A i \in 1 .. k : input[i] = q.body[b + i]
  <2> SUFFICES ASSUME NEW i \in 1 .. k PROVE input[i] = q.body[b + i]
    OBVIOUS
  <2>1. i \in 1 .. Len(input) /\ b + i \in 1 .. l /\ (h + b) + i = h + (b + i)
        /\ (h + b) + i <= h + l
    <3> HIDE DEF h, b, l
    <3> QED
      BY SMTT(30), <1>1, <1>2
  <2>2. input[i] = Bytes(q)[(h + b) + i]
    BY <1>1, <2>1 DEF Follows
  <2> HIDE DEF h, b, l
  <2> QED
    BY <1>1, <2>1, <2>2
<1>5. new = SubSeq(q.body, 1, b + k)
  <2>1. k <= Len(input) /\ b + k <= Len(q.body)
    BY <1>2
  <2>2. SubSeq(q.body, 1, b) \o SubSeq(input, 1, k) = SubSeq(q.body, 1, b + k)
    <3>1. /\ q.body \in Seq(Tokens) /\ input \in Seq(Tokens) /\ b \in Nat /\ k \in Nat
          /\ b + k <= Len(q.body) /\ k <= Len(input)
          /\ \A i \in 1 .. k : input[i] = q.body[b + i]
      BY <1>1, <1>2, <1>4, <2>1
    <3> HIDE DEF b
    <3> QED
      BY ONLY <3>1, NextPart
  <2> QED
    BY <2>2
<1>6. new \in Seq(Tokens) /\ Len(new) = b + k
  <2>1. b + k \in 0 .. Len(q.body)
    <3> HIDE DEF b
    <3> QED
      BY <1>1, <1>2
  <2> HIDE DEF new, b
  <2> QED
    BY <1>1, <1>5, <2>1, BeginIs
<1>7. Len(new) >= l => new = q.body
  <2> SUFFICES ASSUME Len(new) >= l PROVE new = q.body
    OBVIOUS
  <2>1. b + k = l
    <3> HIDE DEF new, b, l
    <3> QED
      BY <1>1, <1>2, <1>6
  <2>2. SubSeq(q.body, 1, Len(q.body)) = q.body
    BY <1>1, SubSeqFull
  <2> HIDE DEF new, b
  <2> QED
    BY <1>5, <2>1, <2>2
<1> HIDE DEF new, piece
<1>8. Len(new) = Len(B) + Len(piece) /\ Len(new) <= Len(q.body) /\ new = SubSeq(q.body, 1, Len(new))
  BY <1>2, <1>3, <1>5, <1>6
<1>9. MissingPiece(B, Len(q.body), input) = piece
  BY DEF MissingPiece, piece, k
<1> QED
  BY <1>2, <1>3, <1>6, <1>7, <1>8, <1>9 DEF new

LEMMA ValuesCounted ==
  ASSUME NEW body \in Seq(Tokens)
  PROVE  IsFiniteSet(ValuesIn(body)) /\ Cardinality(ValuesIn(body)) \in Nat
<1>1. ValuesIn(body) \subseteq 1 .. Len(body)
  BY DEF ValuesIn
<1>2. 1 \in Int /\ Len(body) \in Int
  BY LenProperties
<1>3. IsFiniteSet(1 .. Len(body))
  BY <1>2, FS_Interval
<1>4. IsFiniteSet(ValuesIn(body))
  BY <1>1, <1>3, FS_Subset
<1> QED
  BY <1>4, FS_CardinalityType

(* The lines of a multipart body, one after the other.                     *)
Parsed(file, n, f) ==
  f = [k \in 0 .. n |-> IF k = 0 THEN NewParser ELSE ParseLine(f[k - 1], file[k])]

LEMMA ParsedIs ==
  ASSUME NEW file, NEW n \in Nat, NEW f, Parsed(file, n, f)
  PROVE  f[0] = NewParser /\ \A k \in 1 .. n : f[k] = ParseLine(f[k - 1], file[k])
<1>1. f = [k \in 0 .. n |-> IF k = 0 THEN NewParser ELSE ParseLine(f[k - 1], file[k])]
  BY DEF Parsed
<1>2. \A k \in 0 .. n : f[k] = IF k = 0 THEN NewParser ELSE ParseLine(f[k - 1], file[k])
  BY <1>1
<1>3. 0 \in 0 .. n /\ \A k \in 1 .. n : k \in 0 .. n /\ k # 0
  OBVIOUS
<1> QED
  BY <1>2, <1>3

LEMMA ParsedExists ==
  ASSUME NEW file, NEW n \in Nat
  PROVE  \E f : Parsed(file, n, f)
<1> DEFINE T == {k \in Nat : \E f : Parsed(file, k, f)}
<1>1. 0 \in T
  <2> DEFINE f == [k \in 0 .. 0 |-> NewParser]
  <2>1. f = [k \in 0 .. 0 |-> IF k = 0 THEN NewParser ELSE ParseLine(f[k - 1], file[k])]
    OBVIOUS
  <2> HIDE DEF f
  <2> QED
    BY <2>1 DEF Parsed
<1>2. ASSUME NEW m \in Nat, m \in T PROVE m + 1 \in T
  <2>1. PICK f : Parsed(file, m, f)
    BY <1>2
  <2> DEFINE g == [k \in 0 .. (m + 1) |->
                     IF k = 0 THEN NewParser ELSE ParseLine(f[k - 1], file[k])]
  <2>2. \A k \in 0 .. m : g[k] = f[k]
    <3>1. f = [k \in 0 .. m |-> IF k = 0 THEN NewParser ELSE ParseLine(f[k - 1], file[k])]
      BY <2>1 DEF Parsed
    <3>2. \A k \in 0 .. m : f[k] = IF k = 0 THEN NewParser ELSE ParseLine(f[k - 1], file[k])
      BY <3>1
    <3>3. \A k \in 0 .. m : k \in 0 .. (m + 1)
      OBVIOUS
    <3> QED
      BY <3>2, <3>3
  <2>3. \A k \in 0 .. (m + 1) : k # 0 => g[k - 1] = f[k - 1]
    <3>1. \A k \in 0 .. (m + 1) : k # 0 => k - 1 \in 0 .. m
      OBVIOUS
    <3> HIDE DEF g
    <3> QED
      BY <2>2, <3>1
  <2> DEFINE h == [k \in 0 .. (m + 1) |->
                     IF k = 0 THEN NewParser ELSE ParseLine(g[k - 1], file[k])]
  <2>4. \A k \in 0 .. (m + 1) : g[k] = h[k]
    BY <2>3
  <2>5. g = h
    BY <2>4
  <2>6. Parsed(file, m + 1, g)
    BY <2>5 DEF Parsed
  <2> QED
    BY <2>6
<1> HIDE DEF T
<1>3. Nat \subseteq T
  BY <1>1, <1>2, NaturalsFollow
<1> QED
  BY <1>3 DEF T

LEMMA ParserAfterIs ==
  ASSUME NEW file, Len(file) \in Nat
  PROVE  \E f : Parsed(file, Len(file), f) /\ ParserAfter(file) = f[Len(file)]
<1> DEFINE f == CHOOSE f : Parsed(file, Len(file), f)
<1>1. Parsed(file, Len(file), f)
  BY ParsedExists
<1>2. ParserAfter(file) = f[Len(file)]
  BY DEF ParserAfter, Parsed
<1> QED
  BY <1>1, <1>2

(* What a line changes: a line of data counts once, a boundary never.      *)
ParserStates == {"headers", "data", "finished", "crashed"}
ParserTypes(p) ==
  p \in [state : ParserStates, field : {"", "a", "b"}, file : BOOLEAN, uploaded : BOOLEAN,
         counted : Nat, parameters : SUBSET {"a", "b"}, files : SUBSET {"a", "b"}]

LEMMA DispositionIs ==
  ASSUME NEW line
  PROVE  /\ line \in DOMAIN Disposition <=> line \in {"FieldA", "FileB"}
         /\ line \in DOMAIN Disposition =>
              /\ Disposition[line].field \in {"a", "b"} /\ Disposition[line].file \in BOOLEAN
              /\ ~ IsBoundary(line) /\ line # "Empty"
<1>1. line \in DOMAIN Disposition <=> line \in {"FieldA", "FileB"}
  BY DEF Disposition
<1>2. Disposition["FieldA"] = [field |-> "a", file |-> FALSE]
      /\ Disposition["FileB"] = [field |-> "b", file |-> TRUE]
  BY DEF Disposition
<1>3. /\ Disposition["FieldA"].field \in {"a", "b"} /\ Disposition["FieldA"].file \in BOOLEAN
      /\ Disposition["FileB"].field \in {"a", "b"} /\ Disposition["FileB"].file \in BOOLEAN
  BY <1>2
<1>4. ~ IsBoundary("FieldA") /\ ~ IsBoundary("FileB")
  BY DEF IsBoundary
<1> QED
  BY <1>1, <1>3, <1>4

LEMMA LineParsed ==
  ASSUME NEW p, ParserTypes(p), NEW line
  PROVE  LET q == ParseLine(p, line) IN
         /\ ParserTypes(q)
         /\ q.counted = p.counted \/ (q.counted = p.counted + 1 /\ ~ IsBoundary(line))
<1> DEFINE q == ParseLine(p, line)
<1>1. CASE p.state = "headers"
  <2>1. q = ParsePartHeader(p, line)
    BY <1>1 DEF ParseLine
  <2>2. CASE line \in DOMAIN Disposition
    <3> DEFINE d == Disposition[line].field
               e == p.file \/ Disposition[line].file
    <3>1. d \in {"a", "b"} /\ e \in BOOLEAN
      BY <2>2, DispositionIs
    <3>2. q = [p EXCEPT !.field = d, !.file = e]
      BY <2>1, <2>2 DEF ParsePartHeader
    <3> HIDE DEF q, d, e
    <3>3. ParserTypes(q) /\ q.counted = p.counted
      BY <3>1, <3>2 DEF ParserTypes
    <3> QED
      BY <3>3 DEF q
  <2>3. CASE line \notin DOMAIN Disposition
    <3>1. q = p \/ q = [p EXCEPT !.state = "data"]
      BY <2>1, <2>3 DEF ParsePartHeader
    <3> HIDE DEF q
    <3>2. ParserTypes(q) /\ q.counted = p.counted
      BY <3>1 DEF ParserTypes, ParserStates
    <3> QED
      BY <3>2 DEF q
  <2> QED
    BY <2>2, <2>3
<1>2. CASE p.state = "data" /\ IsBoundary(line)
  <2>1. q = EndOfPart(p, line)
    BY <1>2 DEF ParseLine
  <2> DEFINE s == IF line = "End" THEN "finished" ELSE "headers"
             ps == p.parameters \cup ({p.field} \ {""})
             fs == p.files \cup (IF p.file THEN {p.field} \ {""} ELSE {})
  <2>2. s \in ParserStates /\ ps \in SUBSET {"a", "b"} /\ fs \in SUBSET {"a", "b"}
    BY DEF ParserTypes, ParserStates
  <2>3. \/ q = [p EXCEPT !.state = "crashed"]
        \/ q = [p EXCEPT !.state = s, !.field = "", !.file = FALSE, !.uploaded = FALSE,
                         !.parameters = ps, !.files = fs]
    BY <2>1 DEF EndOfPart
  <2> HIDE DEF q, s, ps, fs
  <2>4. ParserTypes(q) /\ q.counted = p.counted
    <3>1. CASE q = [p EXCEPT !.state = "crashed"]
      BY <3>1 DEF ParserTypes, ParserStates
    <3>2. CASE q = [p EXCEPT !.state = s, !.field = "", !.file = FALSE, !.uploaded = FALSE,
                             !.parameters = ps, !.files = fs]
      BY <2>2, <3>2 DEF ParserTypes
    <3> QED
      BY <2>3, <3>1, <3>2
  <2> QED
    BY <2>4 DEF q
<1>3. CASE p.state = "data" /\ ~ IsBoundary(line)
  <2>1. q = ParsePartData(p, line)
    BY <1>3 DEF ParseLine
  <2> DEFINE c == p.counted + 1
  <2>2. q = p \/ q = [p EXCEPT !.uploaded = TRUE] \/ q = [p EXCEPT !.counted = c]
    BY <2>1 DEF ParsePartData
  <2>3. c \in Nat
    <3>1. p.counted \in Nat
      BY DEF ParserTypes
    <3> QED
      BY ONLY <3>1
  <2> HIDE DEF q, c
  <2>4. ParserTypes(q) /\ (q.counted = p.counted \/ q.counted = c)
    BY <2>2, <2>3 DEF ParserTypes
  <2> QED
    BY <1>3, <2>4 DEF q, c
<1>4. CASE p.state \notin {"headers", "data"}
  BY <1>4 DEF ParseLine
<1> QED
  BY <1>1, <1>2, <1>3, <1>4

LEMMA NewParserIs ==
  ParserTypes(NewParser) /\ NewParser.counted = 0
BY DEF NewParser, ParserTypes, ParserStates

(* The lines of data that are counted are lines between the boundaries.    *)
LEMMA CountedIs ==
  ASSUME NEW body \in Seq(Tokens)
  PROVE  /\ ParserAfter(body).counted \in Nat
         /\ ParserAfter(body).counted <= Cardinality(ValuesIn(body))
<1> DEFINE N == Len(body)
           V(k) == {i \in 1 .. k : ~ IsBoundary(body[i])}
<1>1. N \in Nat
  BY LenProperties
<1>2. PICK f : Parsed(body, N, f) /\ ParserAfter(body) = f[N]
  BY <1>1, ParserAfterIs
<1>3. f[0] = NewParser /\ \A k \in 1 .. N : f[k] = ParseLine(f[k - 1], body[k])
  BY <1>1, <1>2, ParsedIs
<1> DEFINE Fits(k) == /\ ParserTypes(f[k]) /\ IsFiniteSet(V(k))
                      /\ f[k].counted <= Cardinality(V(k))
           T == {k \in Nat : k <= N => Fits(k)}
<1>4. 0 \in T
  <2>1. V(0) = {}
    OBVIOUS
  <2>2. IsFiniteSet({}) /\ Cardinality({}) = 0
    BY FS_EmptySet
  <2>3. ParserTypes(f[0]) /\ f[0].counted = 0
    BY <1>3, NewParserIs
  <2>4. Fits(0)
    <3> HIDE DEF V
    <3>1. IsFiniteSet(V(0)) /\ Cardinality(V(0)) = 0
      BY <2>1, <2>2
    <3>2. f[0].counted <= Cardinality(V(0))
      BY ONLY <2>3, <3>1
    <3> QED
      BY <2>3, <3>1, <3>2
  <2> HIDE DEF Fits
  <2> QED
    BY <2>4
<1>5. ASSUME NEW k \in Nat, k \in T PROVE k + 1 \in T
  <2> SUFFICES ASSUME k + 1 <= N PROVE Fits(k + 1)
    OBVIOUS
  <2>1. Fits(k) /\ k + 1 \in 1 .. N /\ (k + 1) - 1 = k
    BY <1>1, <1>5
  <2>2. f[k + 1] = ParseLine(f[k], body[k + 1])
    BY <1>3, <2>1
  <2>3. /\ ParserTypes(f[k + 1])
        /\ \/ f[k + 1].counted = f[k].counted
           \/ f[k + 1].counted = f[k].counted + 1 /\ ~ IsBoundary(body[k + 1])
    BY <2>1, <2>2, LineParsed
  <2>4. f[k].counted \in Nat
    BY <2>1 DEF ParserTypes
  <2>5. CASE IsBoundary(body[k + 1])
    <3>1. V(k + 1) = V(k)
      BY <2>5
    <3> HIDE DEF V
    <3> QED
      BY <2>1, <2>3, <2>5, <3>1
  <2>6. CASE ~ IsBoundary(body[k + 1])
    <3>1. V(k + 1) = V(k) \cup {k + 1} /\ k + 1 \notin V(k)
      BY <2>6
    <3> HIDE DEF V
    <3>2. IsFiniteSet(V(k + 1)) /\ Cardinality(V(k + 1)) = Cardinality(V(k)) + 1
      BY <2>1, <3>1, FS_AddElement
    <3>3. Cardinality(V(k)) \in Nat
      BY <2>1, FS_CardinalityType
    <3>4. f[k + 1].counted <= Cardinality(V(k + 1))
      BY <2>1, <2>3, <2>4, <3>2, <3>3
    <3> QED
      BY <2>3, <3>2, <3>4
  <2> QED
    BY <2>5, <2>6
<1> HIDE DEF T
<1>6. N \in T
  BY <1>1, <1>4, <1>5, NaturalsFollow
<1>7. Fits(N)
  BY <1>1, <1>6 DEF T
<1>8. V(N) = ValuesIn(body)
  BY DEF ValuesIn
<1> HIDE DEF V
<1> QED
  BY <1>2, <1>7, <1>8 DEF ParserTypes

(* The parts of a body before the line n, with their fields and files.     *)
PartsBefore(body, n) == {Disposition[body[i + 1]] : i \in {m \in BoundariesIn(body) : m < n}}
FieldsOf(parts) == {part.field : part \in parts}
FilesOf(parts) == {part.field : part \in {d \in parts : d.file}}

Fresh(p) == p.state = "headers" /\ p.field = "" /\ ~ p.file /\ ~ p.uploaded

(* n lines were read, the last boundary of them is i.                      *)
InPart(p, body, i, n) ==
  LET d == Disposition[body[i + 1]] IN
  /\ i \in BoundariesIn(body) /\ i <= n
  /\ \A k \in i + 1 .. n : ~ IsBoundary(body[k])
  /\ p.parameters = FieldsOf(PartsBefore(body, i)) /\ p.files = FilesOf(PartsBefore(body, i))
  /\ n = i => Fresh(p)
  /\ n # i => p.field = d.field /\ p.file = d.file
  /\ n = i + 1 => p.state = "headers" /\ ~ p.uploaded
  /\ n = i + 2 => p.state = "data" /\ ~ p.uploaded
  /\ n > i + 2 => p.state = "data" /\ (p.file => p.uploaded)

(* The end of a part: one more is known. *)
LEMMA PartAdded ==
  ASSUME NEW body \in Seq(Tokens), NEW i \in BoundariesIn(body), NEW n \in Nat, i <= n,
         \A k \in i + 1 .. n : ~ IsBoundary(body[k])
  PROVE  LET d == Disposition[body[i + 1]] IN
         /\ FieldsOf(PartsBefore(body, n + 1)) = FieldsOf(PartsBefore(body, i)) \cup {d.field}
         /\ FilesOf(PartsBefore(body, n + 1)) =
              FilesOf(PartsBefore(body, i)) \cup (IF d.file THEN {d.field} ELSE {})
<1> DEFINE d == Disposition[body[i + 1]]
           B == BoundariesIn(body)
           old == PartsBefore(body, i)
           new == PartsBefore(body, n + 1)
<1>1. B \subseteq Nat /\ i \in Nat /\ \A m \in B : IsBoundary(body[m])
  BY DEF BoundariesIn, IsBoundary
<1>2. ASSUME NEW m \in B PROVE m < n + 1 <=> (m < i \/ m = i)
  <2>1. m \in Nat /\ (m > i => m \notin i + 1 .. n)
    BY <1>1, <1>2
  <2> QED
    BY <1>1, <2>1
<1>3. {m \in B : m < n + 1} = {m \in B : m < i} \cup {i}
  BY <1>2
<1>4. new = old \cup {d}
  BY <1>3 DEF PartsBefore
<1> HIDE DEF new, old, d, B
<1>5. FieldsOf(new) = FieldsOf(old) \cup {d.field}
  BY <1>4 DEF FieldsOf
<1>6. FilesOf(new) = FilesOf(old) \cup (IF d.file THEN {d.field} ELSE {})
  <2>1. CASE d.file
    <3>1. {e \in new : e.file} = {e \in old : e.file} \cup {d}
      BY <1>4, <2>1
    <3> QED
      BY <2>1, <3>1 DEF FilesOf
  <2>2. CASE ~ d.file
    <3>1. {e \in new : e.file} = {e \in old : e.file}
      BY <1>4, <2>2
    <3> QED
      BY <2>2, <3>1 DEF FilesOf
  <2> QED
    BY <2>1, <2>2
<1> QED
  BY <1>5, <1>6 DEF new, old, d

(* The next line, as long as it is no boundary.                            *)
LEMMA PartGoesOn ==
  ASSUME NEW body \in Seq(Tokens), WellFormed(body), NEW p, ParserTypes(p),
         NEW i, NEW n \in Nat, n < Len(body), InPart(p, body, i, n),
         ~ IsBoundary(body[n + 1])
  PROVE  InPart(ParseLine(p, body[n + 1]), body, i, n + 1)
<1> DEFINE d == Disposition[body[i + 1]]
           line == body[n + 1]
           q == ParseLine(p, line)
<1>1. /\ i \in Nat /\ i <= n /\ i + 1 \in Nat /\ i + 2 \in Nat
      /\ body[i + 1] \in DOMAIN Disposition /\ body[i + 2] = "Empty"
      /\ \A k \in i + 1 .. n : ~ IsBoundary(body[k])
  BY DEF InPart, WellFormed, BoundariesIn
<1>2. \A k \in i + 1 .. n + 1 : ~ IsBoundary(body[k])
  <2>1. \A k \in i + 1 .. n + 1 : k \in i + 1 .. n \/ k = n + 1
    BY <1>1
  <2> QED
    BY <1>1, <2>1
<1>3. d.field \in {"a", "b"} /\ d.file \in BOOLEAN /\ body[i + 1] # "Empty"
  BY <1>1, DispositionIs
<1> DEFINE Kept == q.parameters = p.parameters /\ q.files = p.files
<1> HIDE DEF d
<1>4. CASE n = i
  <2>1. Fresh(p) /\ line = body[i + 1]
    BY <1>4 DEF InPart
  <2>2. q = [p EXCEPT !.field = d.field, !.file = d.file]
    <3>1. q = ParsePartHeader(p, line)
      BY <2>1 DEF ParseLine, Fresh
    <3>2. q = [p EXCEPT !.field = d.field, !.file = @ \/ d.file]
      BY <1>1, <2>1, <3>1 DEF ParsePartHeader, d
    <3> QED
      BY <1>3, <2>1, <3>2 DEF Fresh
  <2> HIDE DEF q
  <2>3. Kept /\ q.field = d.field /\ q.file = d.file /\ q.state = "headers" /\ ~ q.uploaded
    BY <2>1, <2>2 DEF ParserTypes, Fresh
  <2>4. n + 1 # i /\ n + 1 # i + 2 /\ ~ (n + 1 > i + 2) /\ i <= n + 1
    BY <1>1, <1>4
  <2> HIDE DEF line
  <2> QED
    BY <1>2, <2>3, <2>4 DEF InPart, q, line, d
<1>5. CASE n = i + 1
  <2>1. p.state = "headers" /\ ~ p.uploaded /\ p.field = d.field /\ p.file = d.file
    BY <1>1, <1>5 DEF InPart, d
  <2>2. line = "Empty"
    <3>1. n + 1 = i + 2
      BY <1>1, <1>5
    <3> QED
      BY <1>1, <3>1
  <2>3. "Empty" \notin DOMAIN Disposition
    BY DispositionIs
  <2>4. q = [p EXCEPT !.state = "data"]
    BY <2>1, <2>2, <2>3 DEF ParseLine, ParsePartHeader
  <2> HIDE DEF q, line
  <2>5. Kept /\ q.field = d.field /\ q.file = d.file /\ q.state = "data" /\ ~ q.uploaded
    BY <2>1, <2>4 DEF ParserTypes
  <2>6. n + 1 # i /\ n + 1 # i + 1 /\ ~ (n + 1 > i + 2) /\ i <= n + 1
    BY <1>1, <1>5
  <2> QED
    BY <1>2, <2>5, <2>6 DEF InPart, q, line, d
<1>6. CASE n # i /\ n # i + 1
  <2>1. n = i + 2 \/ n > i + 2
    BY <1>1, <1>6
  <2>2. p.state = "data" /\ p.field = d.field /\ p.file = d.file /\ p.field # ""
    BY <1>3, <1>6, <2>1 DEF InPart, d
  <2>3. q = ParsePartData(p, line)
    BY <2>2 DEF ParseLine
  <2> DEFINE c == p.counted + 1
  <2>4. (p.file => q = [p EXCEPT !.uploaded = TRUE]) /\ (~ p.file => q = [p EXCEPT !.counted = c])
    BY <2>2, <2>3 DEF ParsePartData
  <2> HIDE DEF q, line, c
  <2>5. Kept /\ q.field = d.field /\ q.file = d.file /\ q.state = "data" /\ (q.file => q.uploaded)
    BY <2>2, <2>4 DEF ParserTypes
  <2>6. n + 1 # i /\ n + 1 # i + 1 /\ n + 1 # i + 2 /\ i <= n + 1
    BY <1>1, <2>1
  <2> QED
    BY <1>2, <2>5, <2>6 DEF InPart, q, line, d
<1> QED
  BY <1>4, <1>5, <1>6

(* The boundary after a part.                                              *)
LEMMA PartEnds ==
  ASSUME NEW body \in Seq(Tokens), WellFormed(body), NEW p, ParserTypes(p),
         NEW i, NEW n \in Nat, n < Len(body), InPart(p, body, i, n),
         IsBoundary(body[n + 1])
  PROVE  LET q == ParseLine(p, body[n + 1]) IN
         /\ q.parameters = FieldsOf(PartsBefore(body, n + 1))
         /\ q.files = FilesOf(PartsBefore(body, n + 1))
         /\ body[n + 1] = "Boundary" => Fresh(q)
<1> DEFINE d == Disposition[body[i + 1]]
           line == body[n + 1]
           q == ParseLine(p, line)
<1>1. /\ i \in BoundariesIn(body) /\ i \in Nat /\ i <= n /\ i + 1 \in Nat /\ i + 2 \in Nat
      /\ body[i + 1] \in DOMAIN Disposition /\ body[i + 2] = "Empty" /\ ~ IsBoundary(body[i + 3])
      /\ \A k \in i + 1 .. n : ~ IsBoundary(body[k])
  BY DEF InPart, WellFormed, BoundariesIn
<1>2. d.field \in {"a", "b"} /\ d.file \in BOOLEAN /\ ~ IsBoundary(body[i + 1])
      /\ ~ IsBoundary(body[i + 2])
  BY <1>1, DispositionIs DEF IsBoundary
<1>3. n > i + 2 /\ n # i
  <2>1. n + 1 # i + 1 /\ n + 1 # i + 2 /\ n + 1 # i + 3
    BY <1>1, <1>2
  <2> QED
    BY <1>1, <2>1
<1>4. /\ p.field = d.field /\ p.file = d.file /\ p.state = "data" /\ (p.file => p.uploaded)
      /\ p.parameters = FieldsOf(PartsBefore(body, i)) /\ p.files = FilesOf(PartsBefore(body, i))
  BY <1>3 DEF InPart
<1>5. /\ FieldsOf(PartsBefore(body, n + 1)) = FieldsOf(PartsBefore(body, i)) \cup {d.field}
      /\ FilesOf(PartsBefore(body, n + 1)) =
           FilesOf(PartsBefore(body, i)) \cup (IF d.file THEN {d.field} ELSE {})
  BY <1>1, PartAdded
<1> HIDE DEF d
<1>6. q = EndOfPart(p, line)
  BY <1>4 DEF ParseLine
<1> DEFINE s == IF line = "End" THEN "finished" ELSE "headers"
           ps == p.parameters \cup ({p.field} \ {""})
           fs == p.files \cup (IF p.file THEN {p.field} \ {""} ELSE {})
<1>7. q = [p EXCEPT !.state = s, !.field = "", !.file = FALSE, !.uploaded = FALSE,
                    !.parameters = ps, !.files = fs]
  BY <1>4, <1>6 DEF EndOfPart
<1>8. ps = p.parameters \cup {d.field} /\ fs = p.files \cup (IF d.file THEN {d.field} ELSE {})
  BY <1>2, <1>4
<1>9. line = "Boundary" => s = "headers"
  OBVIOUS
<1> HIDE DEF q, s, ps, fs, line
<1>10. /\ q.parameters = ps /\ q.files = fs /\ q.field = "" /\ ~ q.file /\ ~ q.uploaded
       /\ q.state = s
  BY <1>7 DEF ParserTypes
<1> QED
  BY <1>4, <1>5, <1>8, <1>9, <1>10 DEF Fresh, q, line

(* Of a body that is well-formed, every field and every file is found.     *)
LEMMA PartsFound ==
  ASSUME NEW body \in Seq(Tokens), WellFormed(body)
  PROVE  PartsRight(ParserAfter(body), body)
<1> DEFINE N == Len(body)
           B == BoundariesIn(body)
<1>1. N \in Nat /\ N # 0 /\ DOMAIN body = 1 .. N
      /\ IsBoundary(body[1]) /\ \A i \in 1 .. N : body[i] = "End" <=> i = N
  <2>1. N \in Nat /\ N # 0 /\ DOMAIN body = 1 .. N
    BY EmptySeq DEF WellFormed
  <2> QED
    BY <2>1 DEF WellFormed
<1>2. PICK f : Parsed(body, N, f) /\ ParserAfter(body) = f[N]
  BY <1>1, ParserAfterIs
<1>3. f[0] = NewParser /\ \A k \in 1 .. N : f[k] = ParseLine(f[k - 1], body[k])
  BY <1>1, <1>2, ParsedIs
<1> DEFINE Known(k) == /\ f[k].parameters = FieldsOf(PartsBefore(body, k))
                       /\ f[k].files = FilesOf(PartsBefore(body, k))
           Fits(k) == /\ ParserTypes(f[k])
                      /\ k = 0 => f[k] = NewParser
                      /\ k # 0 /\ k < N => \E i : InPart(f[k], body, i, k)
                      /\ k = N => Known(k)
           T == {k \in Nat : k <= N => Fits(k)}
<1>4. PartsBefore(body, 1) = {} /\ FieldsOf({}) = {} /\ FilesOf({}) = {}
  <2>1. \A m \in B : ~ (m < 1)
    BY DEF BoundariesIn
  <2> QED
    BY <2>1 DEF PartsBefore, FieldsOf, FilesOf
<1>5. B \subseteq 1 .. N /\ \A m \in 1 .. N : body[m] = "Boundary" => m \in B
  BY <1>1 DEF BoundariesIn
<1>6. \A m \in B : body[m] = "Boundary"
  BY DEF BoundariesIn
<1> HIDE DEF N, B, Known, Fits
<1>7. Fits(0)
  <2>1. 0 # N /\ f[0] = NewParser
    BY <1>1, <1>3
  <2> QED
    BY <2>1, NewParserIs DEF Fits
(* A boundary is the last line, or begins a part. *)
<1>8. ASSUME NEW k \in Nat, k # 0, k <= N, IsBoundary(body[k]), ParserTypes(f[k]), Known(k),
             body[k] = "Boundary" => Fresh(f[k])
      PROVE  Fits(k)
  <2>1. CASE k = N
    <3>1. ~ (k < N)
      BY <1>1, <2>1
    <3> QED
      BY <1>8, <3>1 DEF Fits
  <2>2. CASE k # N
    <3>1. k \in 1 .. N
      BY <1>1, <1>8
    <3>2. body[k] = "Boundary"
      <4>1. body[k] # "End"
        BY <1>1, <2>2, <3>1
      <4> QED
        BY <1>8, <4>1 DEF IsBoundary
    <3>3. k \in B
      BY <1>5, <3>1, <3>2
    <3>4. \A j \in k + 1 .. k : ~ IsBoundary(body[j])
      OBVIOUS
    <3>5. k # k + 1 /\ k # k + 2 /\ ~ (k > k + 2) /\ k <= k
      OBVIOUS
    <3>6. InPart(f[k], body, k, k)
      BY <1>8, <3>2, <3>3, <3>4, <3>5 DEF InPart, B, Known
    <3> QED
      BY <1>8, <2>2, <3>6 DEF Fits
  <2> QED
    BY <2>1, <2>2
<1>9. ASSUME NEW k \in Nat, k < N, Fits(k) PROVE Fits(k + 1)
  <2>1. k + 1 \in 1 .. N /\ (k + 1) - 1 = k /\ k + 1 # 0 /\ k + 1 \in Nat /\ k + 1 <= N
    BY <1>1, <1>9
  <2>2. f[k + 1] = ParseLine(f[k], body[k + 1])
    BY <1>3, <2>1
  <2>3. ParserTypes(f[k]) /\ ParserTypes(f[k + 1])
    <3>1. ParserTypes(f[k])
      BY <1>9 DEF Fits
    <3> QED
      BY <2>2, <3>1, LineParsed
  <2>4. CASE k = 0
    <3>1. k + 1 = 1
      BY <2>4
    <3>2. f[k] = NewParser /\ IsBoundary(body[1])
      BY <1>1, <1>3, <2>4
    <3>3. body[1] \notin DOMAIN Disposition /\ body[1] # "Empty"
      BY <3>2, DispositionIs DEF IsBoundary
    <3>4. f[1] = NewParser
      <4>1. f[1] = ParseLine(NewParser, body[1])
        BY <2>2, <3>1, <3>2
      <4> QED
        BY <3>3, <4>1 DEF ParseLine, ParsePartHeader, NewParser
    <3>5. Fresh(NewParser) /\ NewParser.parameters = {} /\ NewParser.files = {}
      BY DEF NewParser, Fresh
    <3>6. Known(1)
      BY <1>4, <3>4, <3>5 DEF Known
    <3> QED
      BY <1>8, <2>1, <2>3, <3>1, <3>2, <3>4, <3>5, <3>6
  <2>5. CASE k # 0 /\ IsBoundary(body[k + 1])
    <3>1. PICK i : InPart(f[k], body, i, k)
      BY <1>9, <2>5 DEF Fits
    <3>2. Known(k + 1) /\ (body[k + 1] = "Boundary" => Fresh(f[k + 1]))
      <4>1. k < Len(body)
        BY <1>9 DEF N
      <4> QED
        BY <2>2, <2>3, <2>5, <3>1, <4>1, PartEnds DEF Known
    <3> QED
      BY <1>8, <2>1, <2>3, <2>5, <3>2
  <2>6. CASE k # 0 /\ ~ IsBoundary(body[k + 1])
    <3>1. PICK i : InPart(f[k], body, i, k)
      BY <1>9, <2>6 DEF Fits
    <3>2. InPart(f[k + 1], body, i, k + 1)
      <4>1. k < Len(body)
        BY <1>9 DEF N
      <4> QED
        BY <2>2, <2>3, <2>6, <3>1, <4>1, PartGoesOn
    <3>3. k + 1 # N
      BY <1>1, <2>1, <2>6 DEF IsBoundary
    <3> QED
      BY <2>1, <2>3, <3>2, <3>3 DEF Fits
  <2> QED
    BY <2>4, <2>5, <2>6
<1>10. \A k \in Nat : k \in T <=> (k <= N => Fits(k))
  OBVIOUS
<1> HIDE DEF T
<1>11. 0 \in T /\ \A k \in Nat : k \in T => k + 1 \in T
  <2>1. ASSUME NEW k \in Nat, k \in T PROVE k + 1 \in T
    <3>1. k + 1 \in Nat /\ (k + 1 <= N => k <= N /\ k < N)
      BY <1>1
    <3> QED
      BY <1>9, <1>10, <2>1, <3>1
  <2> QED
    BY <1>7, <1>10, <2>1
<1>12. Nat \subseteq T
  BY <1>11, NaturalsFollow
<1>13. Known(N)
  <2>1. N <= N
    BY <1>1
  <2>2. Fits(N)
    BY <1>1, <1>10, <1>12, <2>1
  <2> QED
    BY <1>1, <2>2 DEF Fits
<1>14. PartsBefore(body, N) = PartsIn(body)
  <2>1. \A m \in B : m < N
    <3>1. \A m \in B : m \in 1 .. N /\ m # N
      BY <1>1, <1>5, <1>6
    <3> QED
      BY <1>1, <3>1
  <2>2. {m \in B : m < N} = B
    BY <2>1
  <2> QED
    BY <2>2 DEF PartsBefore, PartsIn, B
<1> QED
  BY <1>2, <1>13, <1>14 DEF PartsRight, FieldsOf, FilesOf, Known

LEMMA ReadPlainBodyTurn ==
  ASSUME NEW r, NEW m \in Nat, RequestTypes(r), BodyFits(r, m), r.status = "waitForBody",
         ~ r.multipart, NEW input \in Seq(Tokens), input # << >>,
         NEW q, IsRequest(q), NEW n \in Nat, NEW split \in BOOLEAN,
         InStep(r, q, n, split), Follows(input, q, n)
  PROVE  TurnKeeps(input, q, n, split, ReadPlainBody(r, input))
<1> DEFINE piece == MissingPiece(r.body, r.expected, input)
           next == [r EXCEPT !.body = @ \o piece, !.currentSize = @ + Len(piece)]
           x == IF Len(next.body) >= r.expected THEN [next EXCEPT !.status = "complete"] ELSE next
           h == HeadLength(q)
           l == Len(q.body)
           new == r.body \o piece
<1>1. /\ r.expected = l /\ r.body \in Seq(Tokens) /\ Len(r.body) < l
      /\ r.body = SubSeq(q.body, 1, Len(r.body)) /\ n = h + Len(r.body)
      /\ ~ split => r.currentSize = n
  BY DEF InStep, BodyOf, BodyFits
<1>2. /\ piece \in Seq(Tokens) /\ Len(piece) \in Nat
      /\ new \in Seq(Tokens) /\ Len(new) = Len(r.body) + Len(piece) /\ Len(new) <= l
      /\ new = SubSeq(q.body, 1, Len(new))
      /\ Len(new) >= l => new = q.body
  <2>2. /\ Follows(input, q, HeadLength(q) + Len(r.body)) /\ Len(r.body) < Len(q.body)
        /\ r.body = SubSeq(q.body, 1, Len(r.body)) /\ r.body \in Seq(Tokens)
    BY <1>1
  <2> DEFINE part == MissingPiece(r.body, Len(q.body), input)
             both == r.body \o part
  <2>3. /\ part \in Seq(Tokens) /\ Len(part) \in Nat
        /\ both \in Seq(Tokens) /\ Len(both) = Len(r.body) + Len(part) /\ Len(both) <= Len(q.body)
        /\ both = SubSeq(q.body, 1, Len(both))
        /\ Len(both) >= Len(q.body) => both = q.body
    BY <2>2, BodyGrows
  <2>4. part = piece /\ both = new
    BY <1>1
  <2> HIDE DEF part, both, piece, new
  <2> QED
    BY <2>3, <2>4
<1> HIDE DEF new, piece
<1>3. /\ DOMAIN next = RequestFields /\ next.status = "waitForBody" /\ next.multipart = r.multipart
      /\ next.expected = r.expected /\ next.body = new
      /\ next.currentSize = r.currentSize + Len(piece)
  BY DEF RequestTypes, RequestFields, new
<1> HIDE DEF next
<1>4. /\ x.multipart = r.multipart /\ x.expected = r.expected /\ x.body = new
      /\ x.currentSize = r.currentSize + Len(piece)
      /\ x.status = (IF Len(new) >= l THEN "complete" ELSE "waitForBody")
  BY <1>1, <1>3 DEF RequestFields
<1>5. ReadPlainBody(r, input) = [taken |-> Len(piece), request |-> x]
  BY DEF ReadPlainBody, piece, next, x, new
<1> HIDE DEF x
<1>6. BodyOf(x) = new
  BY <1>4 DEF BodyOf
<1> DEFINE t == n + Len(piece)
           a == Len(Bytes(q))
<1>7. l \in Nat /\ a = h + l /\ h \in Nat /\ Len(new) \in Nat /\ Len(r.body) \in Nat
  <2>1. /\ Len(q.head) \in Nat /\ l \in Nat /\ a = h + l /\ h = 3 * Len(q.head) + 2
    BY BytesAre DEF HeadLength
  <2>2. \A i \in Nat : 3 * i + 2 \in Nat
    OBVIOUS
  <2> QED
    BY <1>1, <1>2, <2>1, <2>2, LenProperties
<1>8. t = h + Len(new) /\ t \in Nat /\ t <= a /\ (~ split => x.currentSize = t)
  <2> HIDE DEF h, l, a
  <2> QED
    BY <1>1, <1>2, <1>4, <1>7
<1> HIDE DEF t
<1>9. x.status = "complete" => Whole(x, q, t)
  <2> SUFFICES ASSUME x.status = "complete" PROVE Whole(x, q, t)
    OBVIOUS
  <2>1. new = q.body
    BY <1>2, <1>4
  <2> QED
    BY <1>4, <1>6, <1>8, <2>1 DEF Whole
<1>10. InStep(x, q, t, split)
  <2>1. x.status # "waitForRequest" /\ x.status # "waitForHeader"
    BY <1>4
  <2>2. x.status = "waitForBody" => Len(new) < l
    BY <1>4, <1>7
  <2> QED
    BY <1>1, <1>2, <1>4, <1>6, <1>8, <2>1, <2>2 DEF InStep
<1>11. StepTurn(x, q, t, split)
  <2>1. x.status # "abort"
    BY <1>4
  <2>2. ~ split => x.currentSize \in Nat /\ x.currentSize <= Len(Bytes(q))
    BY <1>8
  <2> QED
    BY <1>4, <1>9, <1>10, <2>1, <2>2 DEF StepTurn
<1>12. StepTurn(x, q, t, x.lineBuffer # << >> \/ split)
  <2>1. StepTurn(x, q, t, TRUE)
    BY <1>4, <1>9, <1>11 DEF StepTurn, InStep
  <2>2. (x.lineBuffer # << >> \/ split) = TRUE \/ (x.lineBuffer # << >> \/ split) = split
    OBVIOUS
  <2> QED
    BY <1>11, <2>1, <2>2
<1> QED
  <2>1. ReadPlainBody(r, input).taken = Len(piece) /\ ReadPlainBody(r, input).request = x
    BY <1>5
  <2> QED
    BY <1>12, <2>1 DEF TurnKeeps, t

-----------------------------------------------------------------------------
LEMMA ReadMultiPartBodyTurn ==
  ASSUME NEW r, NEW m \in Nat, RequestTypes(r), BodyFits(r, m), r.status = "waitForBody",
         r.multipart, NEW input \in Seq(Tokens), input # << >>,
         NEW q, IsRequest(q), NEW n \in Nat, NEW split \in BOOLEAN,
         InStep(r, q, n, split), Follows(input, q, n)
  PROVE  TurnKeeps(input, q, n, split, ReadMultiPartBody(r, input))
<1> DEFINE piece == MissingPiece(r.tempFile, r.expected, input)
           next == [r EXCEPT !.tempFile = @ \o piece]
           tooLarge == [next EXCEPT !.status = "abort"]
           whole == ParseMultiPartFile(next)
           x == IF Len(next.tempFile) >= MaxMultiPartSize THEN tooLarge
                ELSE IF Len(next.tempFile) >= r.expected THEN whole ELSE next
           h == HeadLength(q)
           l == Len(q.body)
           v == Cardinality(ValuesIn(q.body))
           new == r.tempFile \o piece
<1>1. /\ r.expected = l /\ r.tempFile \in Seq(Tokens) /\ Len(r.tempFile) < l
      /\ r.tempFile = SubSeq(q.body, 1, Len(r.tempFile)) /\ n = h + Len(r.tempFile)
      /\ r.body = << >>
      /\ ~ split => r.currentSize = h
  BY DEF InStep, BodyOf, BodyFits
<1>2. /\ piece \in Seq(Tokens) /\ Len(piece) \in Nat
      /\ new \in Seq(Tokens) /\ Len(new) = Len(r.tempFile) + Len(piece) /\ Len(new) <= l
      /\ new = SubSeq(q.body, 1, Len(new))
      /\ Len(new) >= l => new = q.body
  <2>2. /\ Follows(input, q, HeadLength(q) + Len(r.tempFile)) /\ Len(r.tempFile) < Len(q.body)
        /\ r.tempFile = SubSeq(q.body, 1, Len(r.tempFile)) /\ r.tempFile \in Seq(Tokens)
    BY <1>1
  <2> DEFINE part == MissingPiece(r.tempFile, Len(q.body), input)
             both == r.tempFile \o part
  <2>3. /\ part \in Seq(Tokens) /\ Len(part) \in Nat
        /\ both \in Seq(Tokens) /\ Len(both) = Len(r.tempFile) + Len(part) /\ Len(both) <= Len(q.body)
        /\ both = SubSeq(q.body, 1, Len(both))
        /\ Len(both) >= Len(q.body) => both = q.body
    BY ZenonT(30), <2>2, BodyGrows
  <2>4. part = piece /\ both = new
    BY <1>1
  <2> HIDE DEF part, both, piece, new
  <2> QED
    BY <2>3, <2>4
<1> HIDE DEF new, piece
<1>3. /\ DOMAIN next = RequestFields /\ next.status = "waitForBody" /\ next.multipart = r.multipart
      /\ next.expected = r.expected /\ next.tempFile = new /\ next.body = << >>
      /\ next.currentSize = r.currentSize
  BY <1>1 DEF RequestTypes, RequestFields, new
<1> HIDE DEF next
<1> DEFINE parser == ParserAfter(new)
<1>4. /\ parser.counted \in Nat /\ parser.counted <= Cardinality(ValuesIn(new))
      /\ WellFormed(new) => PartsRight(parser, new)
  BY <1>2, CountedIs, PartsFound
<1> HIDE DEF parser
<1>5. /\ whole.status \in {"complete", "crashed"}
      /\ whole.multipart = r.multipart /\ whole.tempFile = new /\ whole.body = << >>
      /\ whole.parameters = parser.parameters /\ whole.files = parser.files
      /\ whole.currentSize = r.currentSize + parser.counted
  <2> DEFINE fields == parser.parameters
             uploads == parser.files
             size == r.currentSize + parser.counted
             status == IF parser.state = "crashed" THEN "crashed" ELSE "complete"
  <2>1. whole = [next EXCEPT !.parameters = fields, !.files = uploads, !.currentSize = size,
                             !.status = status]
    BY <1>3 DEF ParseMultiPartFile, parser
  <2>2. status \in {"complete", "crashed"}
    OBVIOUS
  <2> HIDE DEF whole, fields, uploads, size, status
  <2>3. /\ whole.status = status /\ whole.multipart = r.multipart
        /\ whole.tempFile = new /\ whole.body = << >>
        /\ whole.parameters = fields /\ whole.files = uploads /\ whole.currentSize = size
    BY <1>3, <2>1 DEF RequestFields
  <2> QED
    BY <2>2, <2>3 DEF fields, uploads, size
<1>6. /\ tooLarge.status = "abort" /\ tooLarge.multipart = r.multipart
  BY <1>3 DEF RequestFields
<1> HIDE DEF whole, tooLarge
<1>7. /\ x = IF Len(new) >= MaxMultiPartSize THEN tooLarge ELSE IF Len(new) >= l THEN whole ELSE next
      /\ ReadMultiPartBody(r, input) = [taken |-> Len(piece), request |-> x]
  <2>1. /\ next.tempFile = new /\ r.expected = l
    BY <1>1, <1>3
  <2>2. ReadMultiPartBody(r, input) = [taken |-> Len(piece), request |-> x]
    BY DEF ReadMultiPartBody, piece, next, x, whole, tooLarge
  <2> QED
    BY <2>1, <2>2
<1> HIDE DEF x
<1> DEFINE t == n + Len(piece)
<1>8. l \in Nat /\ h \in Nat /\ Len(new) \in Nat /\ Len(r.tempFile) \in Nat
      /\ t = h + Len(new)
  <2>1. /\ Len(q.head) \in Nat /\ l \in Nat /\ h = 3 * Len(q.head) + 2
    BY BytesAre DEF HeadLength
  <2>2. \A i \in Nat : 3 * i + 2 \in Nat
    OBVIOUS
  <2>3. h \in Nat /\ Len(new) \in Nat /\ Len(r.tempFile) \in Nat
    BY <1>1, <1>2, <2>1, <2>2, LenProperties
  <2> DEFINE b == Len(r.tempFile)
             k == Len(piece)
  <2>4. b \in Nat /\ k \in Nat /\ n = h + b /\ Len(new) = b + k
    BY <1>1, <1>2, <2>3
  <2>5. n + k = h + (b + k)
    <3> HIDE DEF b, k, h
    <3> QED
      BY <2>3, <2>4
  <2> HIDE DEF h, l
  <2> QED
    BY <2>1, <2>3, <2>4, <2>5
<1> HIDE DEF t
<1>9. StepTurn(x, q, t, split)
  <2>1. CASE x = tooLarge /\ Len(new) >= MaxMultiPartSize
    <3>1. Len(q.body) >= MaxMultiPartSize
      BY <1>2, <1>8, <2>1, SizesAssumption
    <3>2. Reason(q, x.multipart)
      BY <1>6, <2>1, <3>1 DEF Reason
    <3> QED
      BY <1>6, <2>1, <3>2 DEF StepTurn, InStep
  <2>2. CASE x = whole /\ Len(new) >= l
    <3>1. new = q.body /\ BodyOf(x) = new /\ x.multipart /\ x.status \in {"complete", "crashed"}
      BY <1>2, <1>5, <2>2 DEF BodyOf
    <3>2. WellFormed(q.body) => PartsRight(x, q.body)
      BY <1>4, <1>5, <2>2, <3>1 DEF PartsRight
    <3>3. Whole(x, q, t)
      BY <1>8, <3>1, <3>2 DEF Whole
    <3>4. ~ split => x.currentSize \in Nat /\ x.currentSize <= h + v
      <4>1. parser.counted \in Nat /\ v \in Nat /\ parser.counted <= v
        BY <1>2, <1>4, <3>1, ValuesCounted
      <4>2. x.currentSize = r.currentSize + parser.counted
        BY <1>5, <2>2
      <4> HIDE DEF h, v
      <4> QED
        BY <1>1, <1>8, <4>1, <4>2
    <3> QED
      BY <1>5, <2>2, <3>1, <3>3, <3>4 DEF StepTurn, InStep
  <2>3. CASE x = next /\ ~ (Len(new) >= l)
    <3>1. BodyOf(x) = new /\ x.status = "waitForBody" /\ x.multipart /\ x.expected = l
          /\ x.body = << >>
      BY <1>1, <1>3, <2>3 DEF BodyOf
    <3>2. Len(new) < l
      BY <1>8, <2>3
    <3>3. ~ split => x.currentSize = h
      BY <1>1, <1>3, <2>3
    <3>4. InStep(x, q, t, split)
      BY <1>2, <1>8, <3>1, <3>2, <3>3 DEF InStep
    <3>5. ~ split => x.currentSize \in Nat /\ x.currentSize <= h + v
      <4>1. v \in Nat
        <5>1. q.body \in Seq(Tokens)
          BY DEF IsRequest
        <5> QED
          BY <5>1, ValuesCounted
      <4> HIDE DEF h, v
      <4> QED
        BY <1>8, <3>3, <4>1
    <3> QED
      BY <3>1, <3>4, <3>5 DEF StepTurn
  <2> QED
    BY <1>7, <2>1, <2>2, <2>3
<1>10. StepTurn(x, q, t, x.lineBuffer # << >> \/ split)
  <2>1. x.status \in {"abort", "complete", "crashed", "waitForBody"}
    BY <1>3, <1>5, <1>6, <1>7
  <2>2. StepTurn(x, q, t, TRUE)
    BY <1>9, <2>1 DEF StepTurn, InStep
  <2>3. (x.lineBuffer # << >> \/ split) = TRUE \/ (x.lineBuffer # << >> \/ split) = split
    OBVIOUS
  <2> QED
    BY <1>9, <2>2, <2>3
<1> QED
  <2>1. ReadMultiPartBody(r, input).taken = Len(piece) /\ ReadMultiPartBody(r, input).request = x
    BY <1>7
  <2> QED
    BY <1>10, <2>1 DEF TurnKeeps, t

(* One turn of the loop, on what the client has sent.                      *)
LEMMA ReadFromSocketTurn ==
  ASSUME NEW r, NEW m \in Nat, RequestFits(r, m), r.status \in Reading,
         NEW input \in Seq(Tokens), input # << >>,
         NEW q, IsRequest(q), LengthTrue(q), NEW n \in Nat, NEW split \in BOOLEAN,
         InStep(r, q, n, split), Follows(input, q, n)
  PROVE  TurnKeeps(input, q, n, split, ReadFromSocket(r, input))
<1>1. CASE r.status = "waitForRequest"
  BY <1>1, ReadRequestTurn DEF RequestFits, ReadFromSocket
<1>2. CASE r.status = "waitForHeader"
  BY <1>2, ReadHeaderTurn DEF RequestFits, ReadFromSocket
<1>3. CASE r.status = "waitForBody"
  <2>1. ReadFromSocket(r, input) = ReadBody(r, input)
    BY <1>3 DEF ReadFromSocket
  <2> QED
    BY <1>3, <2>1, ReadPlainBodyTurn, ReadMultiPartBodyTurn DEF RequestFits, ReadBody
<1> QED
  BY <1>1, <1>2, <1>3 DEF Reading

(* The size is checked, and what is complete is decoded.                   *)
LEMMA CheckedTurn ==
  ASSUME NEW x, RequestTypes(x), NEW q, IsRequest(q), NEW n \in Nat, NEW split \in BOOLEAN,
         StepTurn(x, q, n, split)
  PROVE  LET y == Checked(x) IN
         /\ y.status # "abort" => InStep(y, q, n, split)
         /\ y.status = "complete" => Whole(y, q, n)
         /\ y.status = "abort" /\ ~ split => Reason(q, y.multipart)
<1> DEFINE y == Checked(x)
           limit == IF x.multipart THEN MaxMultiPartSize ELSE MaxSize
           h == HeadLength(q)
           l == Len(q.body)
           a == Len(Bytes(q))
           v == Cardinality(ValuesIn(q.body))
<1>1. CASE x.status # "crashed" /\ x.currentSize > limit
  <2>1. y = [x EXCEPT !.status = "abort"]
    BY <1>1 DEF Checked
  <2> HIDE DEF y
  <2>2. y.status = "abort" /\ y.multipart = x.multipart
    BY <2>1 DEF RequestTypes, RequestFields
  <2>3. ASSUME ~ split PROVE Reason(q, x.multipart)
    <3>1. CASE x.status = "abort"
      BY <2>3, <3>1 DEF StepTurn
    <3>2. CASE x.status # "abort" /\ x.multipart
      <4>1. x.currentSize \in Nat /\ x.currentSize <= h + v /\ x.currentSize > MaxMultiPartSize
        BY <1>1, <2>3, <3>2 DEF StepTurn
      <4>2. /\ h = 3 * Len(q.head) + 2 /\ Len(q.head) \in Nat /\ l \in Nat /\ a = h + l
        BY BytesAre DEF HeadLength
      <4>3. v \in Nat
        <5>1. q.body \in Seq(Tokens)
          BY DEF IsRequest
        <5> QED
          BY <5>1, ValuesCounted
      <4>4. (a - l) + v > MaxMultiPartSize
        <5> HIDE DEF h, l, v, a
        <5> QED
          BY <4>1, <4>2, <4>3, SizesAssumption
      <4> QED
        BY <3>2, <4>4 DEF Reason
    <3>3. CASE x.status # "abort" /\ ~ x.multipart
      <4>1. x.currentSize \in Nat /\ x.currentSize <= a /\ x.currentSize > MaxSize
        BY <1>1, <2>3, <3>3 DEF StepTurn
      <4>2. a \in Nat
        BY BytesAre, LenProperties
      <4>3. a > MaxSize
        <5> HIDE DEF a
        <5> QED
          BY <4>1, <4>2, SizesAssumption
      <4> QED
        BY <3>3, <4>3 DEF Reason
    <3> QED
      BY <3>1, <3>2, <3>3
  <2> QED
    BY <2>2, <2>3 DEF y
<1>2. CASE x.status # "crashed" /\ ~ (x.currentSize > limit) /\ x.status = "complete"
  <2>1. y = DecodeRequestParams(x)
    BY <1>2 DEF Checked
  <2>2. Whole(x, q, n) /\ (x.multipart => x.body = << >>)
    BY <1>2 DEF StepTurn
  <2>3. x.multipart => y = x
    BY <2>1, <2>2 DEF DecodeRequestParams
  <2>4. /\ y.status = "complete" /\ y.multipart = x.multipart /\ y.body = x.body
        /\ y.tempFile = x.tempFile
    <3>1. y = x \/ y = [x EXCEPT !.parameters = @ \cup {"body"}]
      BY <2>1 DEF DecodeRequestParams
    <3> HIDE DEF y
    <3> QED
      BY <1>2, <3>1 DEF RequestTypes, RequestFields
  <2> HIDE DEF y
  <2>5. Whole(y, q, n)
    BY <2>2, <2>3, <2>4 DEF Whole, BodyOf
  <2>6. InStep(y, q, n, split)
    BY <2>4 DEF InStep
  <2> QED
    BY <2>4, <2>5, <2>6 DEF y
<1>3. CASE \/ x.status = "crashed"
           \/ ~ (x.currentSize > limit) /\ x.status # "complete"
  <2>1. y = x
    BY <1>3 DEF Checked
  <2> QED
    BY <1>3, <2>1 DEF StepTurn
<1> QED
  BY <1>1, <1>2, <1>3

-----------------------------------------------------------------------------
(* The turns of the loop, one request after the other.                     *)

(* The request of the client that the server is in, or begins.             *)
LEMMA InRequest ==
  ASSUME NEW s \in Scripts, NEW r, NEW t \in Nat, NEW h, StepFits(s, r, t, h),
         t < Len(WireOf[s]), r = NoRequest \/ r.status \in Reading,
         KeepsStep(s, h, Len(h.done) + 1)
  PROVE  LET k == Len(h.done) + 1
             start == IF r = NoRequest THEN t ELSE h.start IN
         /\ k \in 1 .. Len(s) /\ k - 1 \in 0 .. Len(s)
         /\ IsRequest(s[k]) /\ LengthTrue(s[k])
         /\ start = Place(s, k - 1)
         /\ InStep(IF r = NoRequest THEN NewRequest ELSE r, s[k], t - start,
                   r # NoRequest /\ h.split)
<1> DEFINE m == Len(h.done)
           k == m + 1
           N == Len(s)
           start == IF r = NoRequest THEN t ELSE h.start
           cur == IF r = NoRequest THEN NewRequest ELSE r
           split == r # NoRequest /\ h.split
<1>1. N \in Nat /\ DOMAIN s = 1 .. N /\ \A i \in 1 .. N : IsRequest(s[i])
  BY ScriptIs
<1>2. m \in Nat /\ DOMAIN h.done = 1 .. m /\ (m + 1) - 1 = m
  BY LenProperties DEF StepFits
<1>3. /\ Place(s, N) = Len(WireOf[s]) /\ Place(s, 0) = 0
      /\ \A n \in 0 .. N : Place(s, n) \in Nat /\ Place(s, n) <= Len(WireOf[s])
  BY PlaceIs
<1>4. KeepsStep(s, h, m)
  <2>1. \A i : i \in (1 .. m) \cap DOMAIN s => i \in (1 .. m + 1) \cap DOMAIN s
    BY <1>2
  <2> QED
    BY <2>1 DEF KeepsStep
<1>5. k \in 1 .. N => LengthTrue(s[k])
  <2>1. ASSUME k \in 1 .. N PROVE k \in (1 .. m + 1) \cap DOMAIN s
    BY <1>1, <1>2, <2>1
  <2> QED
    BY <2>1 DEF KeepsStep
<1>6. CASE r = NoRequest
  <2>1. r.status = "none"
    BY <1>6 DEF NoRequest
  <2>2. t = Place(s, m)
    BY <1>4, <2>1 DEF StepFits
  <2>3. m \in 0 .. N
    <3>1. m = 0 \/ m \in DOMAIN h.done
      BY <1>2
    <3>2. m \in DOMAIN h.done => m \in DOMAIN s
      BY <1>4 DEF StepFits, DoneFits
    <3> QED
      BY <1>1, <1>2, <3>1, <3>2
  <2>4. m # N
    BY <1>3, <2>2
  <2>5. k \in 1 .. N /\ k - 1 \in 0 .. N /\ k - 1 = m
    BY <1>1, <1>2, <2>3, <2>4
  <2>6. InStep(NewRequest, s[k], t - t, FALSE)
    <3> DEFINE z == t - t
    <3>1. z = 0
      OBVIOUS
    <3>2. /\ NewRequest.status = "waitForRequest" /\ NewRequest.headers = << >>
          /\ NewRequest.lineBuffer = << >> /\ NewRequest.currentSize = 0
      BY DEF NewRequest
    <3>3. 0 \in 0 .. Len(s[k].head)
      <4>1. Len(s[k].head) \in Nat
        BY <1>1, <2>5, BytesAre
      <4> QED
        BY <4>1
    <3> HIDE DEF z
    <3>4. LinesRead(NewRequest, s[k], z, 0, FALSE)
      BY <3>1, <3>2, <3>3 DEF LinesRead
    <3>5. InStep(NewRequest, s[k], z, FALSE)
      BY <3>2, <3>4 DEF InStep
    <3> QED
      BY <3>5 DEF z
  <2>7. start = t /\ cur = NewRequest /\ split = FALSE
    BY <1>6
  <2> HIDE DEF start, cur, split
  <2>8. start = Place(s, k - 1) /\ InStep(cur, s[k], t - start, split)
    BY <2>2, <2>5, <2>6, <2>7
  <2> QED
    BY <1>1, <1>5, <2>5, <2>8 DEF start, cur, split
<1>7. CASE r # NoRequest
  <2>1. r.status \in Reading
    BY <1>7
  <2>2. /\ k \in DOMAIN s /\ h.start = Place(s, m)
        /\ InStep(r, s[k], t - h.start, h.split)
    BY <2>1 DEF StepFits, Reading
  <2>3. k \in 1 .. N /\ k - 1 \in 0 .. N /\ k - 1 = m
    BY <1>1, <1>2, <2>2
  <2>4. start = h.start /\ cur = r /\ split = h.split
    BY <1>7 DEF StepFits
  <2> HIDE DEF start, cur, split
  <2>5. start = Place(s, k - 1) /\ InStep(cur, s[k], t - start, split)
    BY <2>2, <2>3, <2>4
  <2> QED
    BY <1>1, <1>5, <2>3, <2>5 DEF start, cur, split
<1> QED
  BY <1>6, <1>7

(* What a turn leaves, after the size was checked.                         *)
TurnLeaves(y, q, n, split) ==
  /\ y.status # "abort" => InStep(y, q, n, split)
  /\ y.status = "complete" => Whole(y, q, n)
  /\ y.status = "abort" /\ ~ split => Reason(q, y.multipart)

LEMMA StepAfterTurn ==
  ASSUME NEW s \in Scripts, NEW r, NEW t \in Nat, NEW h, StepFits(s, r, t, h),
         NEW y, NEW u \in Nat, NEW g, y.status \in Reading \cup Ended,
         g.split \in BOOLEAN, g.refused = h.refused, ~ g.cut => ~ h.cut,
         g.done = IF y.status = "complete" THEN Append(h.done, [request |-> y, last |-> u])
                  ELSE h.done,
         ~ g.cut /\ KeepsStep(s, h, Len(h.done) + 1) =>
           /\ Len(h.done) + 1 \in 1 .. Len(s)
           /\ g.start = Place(s, Len(h.done))
           /\ TurnLeaves(y, s[Len(h.done) + 1], u - g.start, g.split)
  PROVE  StepFits(s, y, u, g)
<1> DEFINE m == Len(h.done)
           e == [request |-> y, last |-> u]
<1>1. /\ h.done \in Seq(ToSet(h.done)) /\ m \in Nat /\ DOMAIN h.done = 1 .. m
      /\ \A k \in 1 .. m : KeepsStep(s, h, k) => DoneFits(s, h.done[k], k)
  BY LenProperties DEF StepFits
<1>2. DOMAIN s = 1 .. Len(s)
  BY ScriptIs
<1>3. \A k : KeepsStep(s, g, k) => ~ g.cut /\ KeepsStep(s, h, k)
  BY DEF KeepsStep
<1>4. CASE y.status = "complete"
  <2>1. g.done = Append(h.done, e)
    BY <1>4
  <2> DEFINE S == ToSet(h.done) \cup {e}
  <2>2. h.done \in Seq(S) /\ e \in S
    <3>1. \A i \in 1 .. m : h.done[i] \in S
      BY <1>1 DEF ToSet
    <3>2. e \in S
      OBVIOUS
    <3> HIDE DEF e, S
    <3> QED
      BY <1>1, <3>1, <3>2, SeqMonotonic
  <2> HIDE DEF e, S
  <2>3. /\ Len(g.done) = m + 1 /\ DOMAIN g.done = 1 .. m + 1
        /\ \A i \in 1 .. m : g.done[i] = h.done[i]
        /\ g.done[m + 1] = e
        /\ g.done \in Seq(S)
    <3>1. /\ g.done \in Seq(S) /\ Len(g.done) = m + 1
          /\ \A i \in 1 .. m : g.done[i] = h.done[i]
          /\ g.done[m + 1] = e
      <4> DEFINE old == h.done
                 new == Append(old, e)
      <4>1. old \in Seq(S) /\ e \in S
        BY <2>2
      <4> HIDE DEF old
      <4>2. /\ new \in Seq(S) /\ Len(new) = Len(old) + 1
            /\ \A i \in 1 .. Len(old) : new[i] = old[i]
            /\ new[Len(old) + 1] = e
        BY ONLY <4>1, AppendProperties
      <4>3. g.done = new /\ m = Len(old)
        BY <2>1 DEF old
      <4> HIDE DEF new, m
      <4> QED
        BY <4>2, <4>3 DEF old
    <3>2. DOMAIN g.done = 1 .. Len(g.done)
      BY <3>1
    <3> QED
      BY <3>1, <3>2
  <2>4. g.done \in Seq(ToSet(g.done))
    <3> DEFINE all == ToSet(g.done)
               seq == g.done
    <3>1. seq \in Seq(S) /\ \A i \in 1 .. Len(seq) : seq[i] \in all
      BY <2>3 DEF ToSet
    <3> HIDE DEF all, seq
    <3>2. seq \in Seq(all)
      BY <3>1
    <3> QED
      BY <3>2 DEF all, seq
  <2>5. KeepsStep(s, g, m + 1) => /\ u = Place(s, m + 1) /\ DoneFits(s, e, m + 1)
    <3> SUFFICES ASSUME KeepsStep(s, g, m + 1)
                 PROVE  /\ u = Place(s, m + 1) /\ DoneFits(s, e, m + 1)
      OBVIOUS
    <3> DEFINE q == s[m + 1]
               n == u - g.start
    <3>1. /\ m + 1 \in 1 .. Len(s) /\ g.start = Place(s, m) /\ Whole(y, q, n)
      BY <1>3, <1>4 DEF TurnLeaves
    <3>2. IsRequest(q) /\ (m + 1) - 1 = m /\ m \in 0 .. Len(s)
      BY <1>1, <3>1, ScriptIs
    <3>3. Place(s, m) \in Nat /\ Place(s, m + 1) = Place(s, m) + Len(Bytes(q))
      BY <3>1, <3>2, PlaceIs
    <3>4. n = Len(Bytes(q)) /\ Len(Bytes(q)) \in Nat
      BY <3>1, <3>2, BytesAre, LenProperties DEF Whole
    <3>5. u = Place(s, m + 1)
      <4> DEFINE a == Len(Bytes(q))
                 p == Place(s, m)
      <4>1. p \in Nat /\ a \in Nat /\ u - p = a /\ Place(s, m + 1) = p + a
        BY <3>1, <3>3, <3>4
      <4>2. u = p + a
        <5> HIDE DEF a, p
        <5> QED
          BY <4>1
      <4> QED
        BY <4>1, <4>2
    <3>6. e.last = u /\ e.request = y
      BY DEF e
    <3> HIDE DEF n
    <3> QED
      BY <1>2, <3>1, <3>5, <3>6 DEF DoneFits, Whole
  <2>6. \A k \in DOMAIN g.done : KeepsStep(s, g, k) => DoneFits(s, g.done[k], k)
    <3> SUFFICES ASSUME NEW k \in 1 .. m + 1, KeepsStep(s, g, k) PROVE DoneFits(s, g.done[k], k)
      BY <2>3
    <3>1. k \in 1 .. m \/ k = m + 1
      BY <1>1
    <3> QED
      BY <1>1, <1>3, <2>3, <2>5, <3>1
  <2>7. y.status \notin {"waitForRequest", "waitForHeader", "waitForBody", "abort"}
    BY <1>4
  <2> QED
    BY <2>3, <2>4, <2>5, <2>6, <2>7 DEF StepFits
<1>5. CASE y.status # "complete"
  <2>1. g.done = h.done /\ y.status \notin {"none", "complete"}
    BY <1>5 DEF Reading, Ended
  <2>2. \A k \in DOMAIN g.done : KeepsStep(s, g, k) => DoneFits(s, g.done[k], k)
    BY <1>1, <1>3, <2>1
  <2>3. KeepsStep(s, g, m + 1) =>
          /\ m + 1 \in DOMAIN s /\ g.start = Place(s, m)
          /\ TurnLeaves(y, s[m + 1], u - g.start, g.split)
    BY <1>2, <1>3
  <2> DEFINE n == u - g.start
  <2> HIDE DEF n
  <2>4. y.status \in {"waitForRequest", "waitForHeader", "waitForBody"} /\ KeepsStep(s, g, m + 1) =>
          /\ m + 1 \in DOMAIN s /\ g.start = Place(s, m)
          /\ InStep(y, s[m + 1], n, g.split)
    BY <2>3 DEF TurnLeaves, n
  <2>5. y.status = "abort" /\ KeepsStep(s, g, m + 1) =>
          m + 1 \in DOMAIN s /\ (~ g.split => Reason(s[m + 1], y.multipart))
    BY <2>3 DEF TurnLeaves
  <2> QED
    BY <1>1, <2>1, <2>2, <2>4, <2>5 DEF StepFits, n
<1> QED
  BY <1>4, <1>5

LEMMA ReadTurnKeepsStep ==
  ASSUME ExchangeInv, StepInv, ReadTurn
  PROVE  StepInv'
<1> DEFINE n == IF request = NoRequest THEN 0 ELSE taken - history.start
           start == IF request = NoRequest THEN taken ELSE history.start
           split == request # NoRequest /\ history.split
           cur == CurrentRequest
           input == Input
           read == ReadFromSocket(cur, input)
           x == read.request
           k == Len(history.done) + 1
           q == script[k]
<1>1. MayRead /\ input # << >> /\ script \in Scripts /\ taken \in Nat
  BY DEF ReadTurn, MayRead, ExchangeInv, ExchangeTypes
<1>2. n \in Nat /\ RequestFits(cur, n) /\ cur.status \in Reading
  BY <1>1, CurrentRequestFits
<1>3. input \in Seq(Tokens) /\ taken + Len(input) <= arrived /\ Len(input) \in Nat
      /\ arrived \in Nat /\ arrived <= Len(Wire) /\ Wire \in Seq(Tokens) /\ Len(Wire) \in Nat
  BY <1>1, InputIs, WireIs DEF ExchangeInv, ExchangeTypes
<1>4. TurnTakes(read, input, cur) /\ read.taken \in 0 .. Len(input) /\ TurnFits(x, n + read.taken)
  BY <1>1, <1>2, <1>3, ReadFromSocketIs DEF TurnTakes
<1>5. /\ request' = Checked(x)
      /\ taken' = taken + read.taken
      /\ script' = script
      /\ history' = [history EXCEPT
            !.start = start,
            !.cut = @ \/ (read.taken > 0 /\ Wire[taken'] = "cr"),
            !.split = x.lineBuffer # << >> \/ (request # NoRequest /\ @),
            !.done = IF request'.status = "complete"
                     THEN Append(@, [request |-> request', last |-> taken']) ELSE @]
  BY DEF ReadTurn
<1> DEFINE y == Checked(x)
           u == taken + read.taken
           c == history.cut \/ (read.taken > 0 /\ Wire[u] = "cr")
           p == x.lineBuffer # << >> \/ split
           d == IF y.status = "complete" THEN Append(history.done, [request |-> y, last |-> u])
                ELSE history.done
           g == [history EXCEPT !.start = start, !.cut = c, !.split = p, !.done = d]
<1>6. request' = y /\ taken' = u /\ script' = script /\ history' = g
  BY <1>5
<1>7. u \in Nat /\ taken < Len(Wire) /\ RequestFits(y, n + read.taken)
      /\ n + read.taken \in Nat
  <2>1. n + read.taken \in Nat /\ u \in Nat
    BY <1>1, <1>2, <1>4
  <2>2. taken < Len(Wire)
    <3>1. Len(input) # 0
      BY <1>1, <1>3, EmptySeq
    <3> HIDE DEF input
    <3> QED
      BY <1>1, <1>3, <3>1
  <2> QED
    BY <1>4, <2>1, <2>2, CheckedFits
<1>8. \A i \in 1 .. Len(input) : input[i] = Wire[taken + i]
  <2>1. taken + 1 \in 1 .. Len(Wire) + 1 /\ arrived \in taken .. Len(Wire)
    BY <1>1, <1>3, <1>7
  <2>2. \A i \in 1 .. Len(input) : SubSeq(Wire, taken + 1, arrived)[i] = Wire[(taken + 1) + i - 1]
    BY <1>3, <2>1, SubSeqProperties DEF Input
  <2>3. \A i \in 1 .. Len(input) : (taken + 1) + i - 1 = taken + i
    BY <1>1
  <2> QED
    BY <2>2, <2>3 DEF Input
<1>9. y.status \in Reading \cup Ended /\ RequestTypes(x)
  BY <1>4, <1>7 DEF RequestFits, RequestTypes, TurnFits
<1>10. request = NoRequest \/ request.status \in Reading
  BY <1>2 DEF CurrentRequest
<1>11. /\ g.start = start /\ g.cut = c /\ g.split = p /\ g.done = d
       /\ g.refused = history.refused
  <2> HIDE DEF start, c, p, d
  <2> QED
    BY DEF ExchangeInv, ExchangeTypes
<1>12. ASSUME ~ c, KeepsStep(script, history, k)
       PROVE  /\ k \in 1 .. Len(script) /\ start = Place(script, Len(history.done))
              /\ TurnLeaves(y, q, u - start, p)
  <2>1. /\ k \in 1 .. Len(script) /\ k - 1 \in 0 .. Len(script)
        /\ IsRequest(q) /\ LengthTrue(q)
        /\ start = Place(script, k - 1)
        /\ InStep(cur, q, taken - start, split)
    BY <1>1, <1>7, <1>10, <1>12, InRequest DEF StepInv, Wire, CurrentRequest
  <2>2. k - 1 = Len(history.done)
    <3>1. Len(history.done) \in Nat
      BY LenProperties DEF StepInv, StepFits
    <3> QED
      BY <3>1
  <2>3. taken - start = n /\ u - start = n + read.taken /\ start \in Nat
    BY <1>1, <1>2, <1>4 DEF ExchangeInv, ExchangeTypes
  <2>4. /\ Place(script, k - 1) \in Nat
        /\ \A i \in 1 .. Len(Bytes(q)) : Wire[Place(script, k - 1) + i] = Bytes(q)[i]
    BY <1>1, <2>1, PlaceIs DEF Wire
  <2>5. Follows(input, q, n)
    <3> SUFFICES ASSUME NEW i \in 1 .. Len(input), n + i <= Len(Bytes(q))
                 PROVE  input[i] = Bytes(q)[n + i]
      BY DEF Follows
    <3>1. Len(Bytes(q)) \in Nat
      BY <2>1, BytesAre, LenProperties
    <3>2. n + i \in 1 .. Len(Bytes(q)) /\ start + (n + i) = taken + i
      <4>1. taken = start + n
        <5> HIDE DEF start, n
        <5> QED
          BY <1>1, <1>2, <2>3
      <4> HIDE DEF start, n
      <4> QED
        BY <1>2, <2>3, <3>1, <4>1
    <3>3. Wire[start + (n + i)] = Bytes(q)[n + i]
      BY <2>1, <2>4, <3>2
    <3> QED
      BY <1>8, <3>2, <3>3
  <2>6. split \in BOOLEAN /\ p \in BOOLEAN
    OBVIOUS
  <2>7. TurnKeeps(input, q, n, split, read)
    <3>1. InStep(cur, q, n, split)
      BY <2>1, <2>3
    <3> HIDE DEF n, split, cur, input, q
    <3> QED
      BY <1>1, <1>2, <1>3, <2>1, <2>5, <2>6, <3>1, ReadFromSocketTurn
  <2>8. input[read.taken] # "cr"
    <3>1. read.taken > 0
      <4>1. InStep(cur, q, n, split) /\ Len(q.body) \in Nat
        BY <2>1, <2>3, LenProperties DEF IsRequest
      <4>2. cur.status = "waitForBody" => cur.expected \in Nat
        <5> HIDE DEF cur, q, n, split
        <5> QED
          BY <4>1 DEF InStep
      <4> QED
        BY <1>4, <4>2 DEF TurnTakes
    <3>2. Wire[u] # "cr"
      BY <1>12, <3>1
    <3>3. read.taken \in 1 .. Len(input)
      <4>1. read.taken \in 0 .. Len(input) /\ Len(input) \in Nat
        BY <1>4, LenProperties
      <4> HIDE DEF read, input
      <4> QED
        BY <3>1, <4>1
    <3>4. Wire[u] = input[read.taken]
      BY <1>8, <3>3
    <3> QED
      BY ONLY <3>2, <3>4
  <2>9. StepTurn(x, q, n + read.taken, p)
    BY <2>7, <2>8 DEF TurnKeeps
  <2>10. TurnLeaves(y, q, n + read.taken, p)
    <3> HIDE DEF n, q, p, x
    <3> QED
      BY <1>7, <1>9, <2>1, <2>6, <2>9, CheckedTurn DEF TurnLeaves
  <2> QED
    BY <2>1, <2>2, <2>3, <2>10
<1> HIDE DEF g, y, u, c, p, d, start, read, q
<1>13. StepFits(script, y, u, g)
  <2>1. g.split \in BOOLEAN
    BY <1>11 DEF p
  <2>2. ~ g.cut => ~ history.cut
    BY <1>11 DEF c
  <2>3. g.done = IF y.status = "complete" THEN Append(history.done, [request |-> y, last |-> u])
                 ELSE history.done
    BY <1>11 DEF d
  <2>4. ~ g.cut /\ KeepsStep(script, history, Len(history.done) + 1) =>
          /\ Len(history.done) + 1 \in 1 .. Len(script)
          /\ g.start = Place(script, Len(history.done))
          /\ TurnLeaves(y, script[Len(history.done) + 1], u - g.start, g.split)
    BY <1>11, <1>12 DEF q
  <2> QED
    BY <1>1, <1>7, <1>9, <1>11, <2>1, <2>2, <2>3, <2>4, StepAfterTurn DEF StepInv
<1> QED
  BY <1>6, <1>13 DEF StepInv

-----------------------------------------------------------------------------
LEMMA StepStarts == Init => StepInv
<1> SUFFICES ASSUME Init PROVE StepInv
  OBVIOUS
<1>1. /\ script \in Scripts /\ taken = 0 /\ request.status = "none"
      /\ history = NoHistory
  BY DEF Init, NoRequest
<1>2. history.done = << >> /\ history.split = FALSE
  BY <1>1 DEF NoHistory
<1>3. Len(history.done) = 0 /\ DOMAIN history.done = {}
  BY <1>2
<1>4. history.done \in Seq(ToSet(history.done))
  BY <1>2, EmptySeq
<1>5. taken = Place(script, Len(history.done))
  BY <1>1, <1>3, PlaceIs
<1> QED
  BY <1>1, <1>2, <1>3, <1>4, <1>5 DEF StepInv, StepFits

LEMMA StepKept ==
  ASSUME ExchangeInv, StepInv, [Next]_vars
  PROVE  StepInv'
<1>1. ASSUME UNCHANGED <<script, taken, request, history>> PROVE StepInv'
  BY <1>1 DEF StepInv
<1>2. CASE ReadTurn
  BY <1>2, ReadTurnKeepsStep
<1>3. CASE RefuseTooLarge
  <2>1. /\ script' = script /\ request'.status = "none"
        /\ history' = [history EXCEPT !.refused = TRUE]
    BY <1>3 DEF RefuseTooLarge, NoRequest
  <2>2. /\ history'.refused /\ history'.done = history.done /\ history'.split = history.split
    BY <2>1 DEF ExchangeInv, ExchangeTypes
  <2>3. \A n : ~ KeepsStep(script, history', n)
    BY <2>2 DEF KeepsStep
  <2>4. history.done \in Seq(ToSet(history.done)) /\ history.split \in BOOLEAN
    BY DEF StepInv, StepFits
  <2>5. StepFits(script, request', taken', history')
    BY <2>1, <2>2, <2>3, <2>4 DEF StepFits
  <2> QED
    BY <2>1, <2>5 DEF StepInv
<1>4. CASE FinishExchange
  <2>1. request.status = "complete" /\ request'.status = "none"
        /\ UNCHANGED <<script, taken, history>>
    BY <1>4 DEF FinishExchange, NoRequest, ExchangeInv, ServiceFits
  <2>2. StepFits(script, request', taken, history)
    BY <2>1 DEF StepInv, StepFits
  <2> QED
    BY <2>1, <2>2 DEF StepInv
<1>5. ASSUME NEW n \in 1 .. Len(Wire), Arrive(n) PROVE StepInv'
  BY <1>1, <1>5 DEF Arrive
<1>6. CASE SocketDisconnects
  BY <1>1, <1>6 DEF SocketDisconnects
<1>7. CASE StartService
  BY <1>1, <1>7 DEF StartService
<1>8. CASE ServiceSetsHeader \/ ServiceWrites \/ ServiceRedirects
  BY <1>1, <1>8 DEF ServiceSetsHeader, ServiceWrites, ServiceRedirects, Call
<1>9. CASE FinishResponse
  BY <1>1, <1>9 DEF FinishResponse
<1>10. CASE UNCHANGED vars
  BY <1>1, <1>10 DEF vars
<1> QED
  BY <1>2, <1>3, <1>4, <1>5, <1>6, <1>7, <1>8, <1>9, <1>10 DEF Next

(* The server keeps step with the client: it knows in which request of the *)
(* client it is, and what it has read of it (the loop of readHttp around   *)
(* HttpRequest::readFromSocket), as long as the client's lengths are true. *)
THEOREM StepAlways == Spec => []StepInv
<1>1. Init => ExchangeInv /\ StepInv
  BY ExchangeStarts, StepStarts
<1>2. ExchangeInv /\ StepInv /\ [Next]_vars => (ExchangeInv /\ StepInv)'
  BY ExchangeKept, StepKept
<1> QED
  BY <1>1, <1>2, PTL DEF Spec

(* A request is refused only for a reason that is in the request itself    *)
(* (HttpRequest::readRequest, readHeader, readBody and the check of the    *)
(* size after them), for any limits and however it arrived.                *)
THEOREM RefusedForAReasonAlways == Spec => []RefusedForAReason
<1>1. ExchangeInv /\ StepInv => RefusedForAReason
  <2> SUFFICES ASSUME ExchangeInv, StepInv, request.status = "abort",
                      ~ history.cut, ~ history.split, ~ history.refused,
                      \A i \in (1 .. Current) \cap DOMAIN script : LengthTrue(script[i])
               PROVE  Current \in DOMAIN script /\ Reason(script[Current], request.multipart)
    BY DEF RefusedForAReason
  <2>1. Current = Len(history.done) + 1
    BY DEF Current
  <2>2. KeepsStep(script, history, Len(history.done) + 1)
    BY <2>1 DEF KeepsStep
  <2> QED
    BY <2>1, <2>2 DEF StepInv, StepFits
<1> QED
  BY <1>1, ExchangeAlways, StepAlways, PTL

(* Requests that follow each other on a connection are kept apart, and     *)
(* each has the body and the fields that the client sent (readBody,        *)
(* parseMultiPartFile and the loop of readHttp), for any requests, limits  *)
(* and pieces in which they arrive.                                        *)
THEOREM RequestsKeptApartAlways == Spec => []RequestsKeptApart
<1>1. StepInv => RequestsKeptApart
  <2> SUFFICES ASSUME StepInv, ~ history.cut, ~ history.refused,
                      \A i \in DOMAIN script : LengthTrue(script[i]),
                      NEW k \in DOMAIN history.done
               PROVE  RightRequest(k)
    BY DEF RequestsKeptApart
  <2>1. KeepsStep(script, history, k)
    BY DEF KeepsStep
  <2>2. DoneFits(script, history.done[k], k)
    BY <2>1 DEF StepInv, StepFits
  <2>3. Place(script, k) = EndOf(k)
    BY DEF Place, EndOf
  <2> QED
    BY <2>2, <2>3 DEF DoneFits, RightRequest, BodyOf, PartsRight
<1> QED
  BY <1>1, StepAlways, PTL

-----------------------------------------------------------------------------
(* The cache: its entries and their cost.                                  *)

(* The sums of the costs of the first entries. *)
Summed(s, n, f) == f = [i \in 0 .. n |-> IF i = 0 THEN 0 ELSE f[i - 1] + s[i].cost]

LEMMA SummedIs ==
  ASSUME NEW s, NEW n \in Nat, NEW f, Summed(s, n, f)
  PROVE  f[0] = 0 /\ \A i \in 1 .. n : f[i] = f[i - 1] + s[i].cost
<1>1. f = [i \in 0 .. n |-> IF i = 0 THEN 0 ELSE f[i - 1] + s[i].cost]
  BY DEF Summed
<1>2. \A i \in 0 .. n : f[i] = IF i = 0 THEN 0 ELSE f[i - 1] + s[i].cost
  BY <1>1
<1>3. 0 \in 0 .. n /\ \A i \in 1 .. n : i \in 0 .. n /\ i # 0
  OBVIOUS
<1> QED
  BY <1>2, <1>3

LEMMA SummedExists ==
  ASSUME NEW s, NEW n \in Nat
  PROVE  \E f : Summed(s, n, f)
<1> DEFINE T == {k \in Nat : \E f : Summed(s, k, f)}
<1>1. 0 \in T
  <2> DEFINE f == [i \in 0 .. 0 |-> 0]
  <2>1. f = [i \in 0 .. 0 |-> IF i = 0 THEN 0 ELSE f[i - 1] + s[i].cost]
    OBVIOUS
  <2> HIDE DEF f
  <2> QED
    BY <2>1 DEF Summed
<1>2. ASSUME NEW k \in Nat, k \in T PROVE k + 1 \in T
  <2>1. PICK f : Summed(s, k, f)
    BY <1>2
  <2> DEFINE g == [i \in 0 .. (k + 1) |-> IF i = 0 THEN 0 ELSE f[i - 1] + s[i].cost]
  <2>2. \A i \in 0 .. k : g[i] = f[i]
    <3>1. f = [i \in 0 .. k |-> IF i = 0 THEN 0 ELSE f[i - 1] + s[i].cost]
      BY <2>1 DEF Summed
    <3>2. \A i \in 0 .. k : f[i] = IF i = 0 THEN 0 ELSE f[i - 1] + s[i].cost
      BY <3>1
    <3>3. \A i \in 0 .. k : i \in 0 .. (k + 1)
      OBVIOUS
    <3> QED
      BY <3>2, <3>3
  <2>3. \A i \in 0 .. (k + 1) : i # 0 => g[i - 1] = f[i - 1]
    <3>1. \A i \in 0 .. (k + 1) : i # 0 => i - 1 \in 0 .. k
      OBVIOUS
    <3> HIDE DEF g
    <3> QED
      BY <2>2, <3>1
  <2> DEFINE h == [i \in 0 .. (k + 1) |-> IF i = 0 THEN 0 ELSE g[i - 1] + s[i].cost]
  <2>4. \A i \in 0 .. (k + 1) : g[i] = h[i]
    BY <2>3
  <2>5. g = h
    BY <2>4
  <2>6. Summed(s, k + 1, g)
    BY <2>5 DEF Summed
  <2> QED
    BY <2>6
<1> HIDE DEF T
<1>3. Nat \subseteq T
  BY <1>1, <1>2, NaturalsFollow
<1> QED
  BY <1>3 DEF T

LEMMA SummedUnique ==
  ASSUME NEW s, NEW t, NEW m \in Nat, NEW n \in Nat, m <= n, NEW f, NEW g,
         Summed(s, m, f), Summed(t, n, g), \A i \in 1 .. m : s[i] = t[i]
  PROVE  f[m] = g[m]
<1> DEFINE T == {k \in Nat : k <= m => f[k] = g[k]}
<1>1. 0 \in T
  BY SummedIs
<1>2. ASSUME NEW k \in Nat, k \in T PROVE k + 1 \in T
  <2> SUFFICES ASSUME k + 1 <= m PROVE f[k + 1] = g[k + 1]
    OBVIOUS
  <2>1. k + 1 \in 1 .. m /\ k + 1 \in 1 .. n /\ (k + 1) - 1 = k /\ k <= m
    OBVIOUS
  <2>2. f[k + 1] = f[k] + s[k + 1].cost /\ g[k + 1] = g[k] + t[k + 1].cost
    BY <2>1, SummedIs
  <2> QED
    BY <1>2, <2>1, <2>2
<1> HIDE DEF T
<1>3. m \in T
  BY <1>1, <1>2, NaturalsFollow
<1> QED
  BY <1>3 DEF T

LEMMA CostIs ==
  ASSUME NEW s, NEW n \in Nat
  PROVE  \E f : Summed(s, n, f) /\ CostOf(s, n) = f[n]
<1> DEFINE f == CHOOSE f : Summed(s, n, f)
<1>1. Summed(s, n, f)
  BY SummedExists
<1>2. CostOf(s, n) = f[n]
  BY DEF CostOf, Summed
<1> QED
  BY <1>1, <1>2

LEMMA CostSteps ==
  ASSUME NEW s
  PROVE  CostOf(s, 0) = 0 /\ \A n \in Nat : CostOf(s, n + 1) = CostOf(s, n) + s[n + 1].cost
<1>1. CostOf(s, 0) = 0
  <2>1. PICK f : Summed(s, 0, f) /\ CostOf(s, 0) = f[0]
    BY CostIs
  <2> QED
    BY <2>1, SummedIs
<1>2. ASSUME NEW n \in Nat PROVE CostOf(s, n + 1) = CostOf(s, n) + s[n + 1].cost
  <2>1. PICK f : Summed(s, n, f) /\ CostOf(s, n) = f[n]
    BY CostIs
  <2>2. PICK g : Summed(s, n + 1, g) /\ CostOf(s, n + 1) = g[n + 1]
    BY CostIs
  <2>3. f[n] = g[n]
    BY <2>1, <2>2, SummedUnique
  <2>4. n + 1 \in 1 .. (n + 1) /\ (n + 1) - 1 = n
    OBVIOUS
  <2>5. g[n + 1] = g[n] + s[n + 1].cost
    BY <2>2, <2>4, SummedIs
  <2> QED
    BY <2>1, <2>2, <2>3, <2>5
<1> QED
  BY <1>1, <1>2

(* A cache as it is used: entries with a cost, one of each key. *)
IsCache(s, S) == s \in Seq(S) /\ \A e \in S : e.cost \in Nat
OnePerKey(s) == \A i, j \in DOMAIN s : s[i].key = s[j].key => i = j

LEMMA CostIsNat ==
  ASSUME NEW S, NEW s, IsCache(s, S)
  PROVE  \A n \in 0 .. Len(s) : CostOf(s, n) \in Nat
<1> DEFINE T == {k \in Nat : k <= Len(s) => CostOf(s, k) \in Nat}
<1>1. 0 \in T
  BY CostSteps
<1>2. ASSUME NEW k \in Nat, k \in T PROVE k + 1 \in T
  <2> SUFFICES ASSUME k + 1 <= Len(s) PROVE CostOf(s, k + 1) \in Nat
    OBVIOUS
  <2>1. Len(s) \in Nat /\ k + 1 \in 1 .. Len(s)
    BY DEF IsCache
  <2>2. s[k + 1].cost \in Nat
    BY <2>1 DEF IsCache
  <2>3. CostOf(s, k) \in Nat
    BY <1>2, <2>1
  <2>4. CostOf(s, k + 1) = CostOf(s, k) + s[k + 1].cost
    BY CostSteps
  <2> QED
    BY <2>2, <2>3, <2>4
<1> HIDE DEF T
<1>3. Nat \subseteq T
  BY <1>1, <1>2, NaturalsFollow
<1>4. Len(s) \in Nat
  BY DEF IsCache
<1> QED
  BY <1>3, <1>4 DEF T

(* An entry in front, and the first n of others. *)
LEMMA CostInFront ==
  ASSUME NEW S, NEW s, IsCache(s, S), NEW e \in S, NEW n \in 0 .. Len(s)
  PROVE  LET r == <<e>> \o SubSeq(s, 1, n) IN
         /\ r \in Seq(S) /\ Len(r) = n + 1
         /\ r[1] = e /\ \A i \in 1 .. n : r[i + 1] = s[i]
         /\ CostOf(r, n + 1) = e.cost + CostOf(s, n)
<1> DEFINE u == SubSeq(s, 1, n)
           r == <<e>> \o u
<1>1. s \in Seq(S) /\ Len(s) \in Nat /\ n \in Nat /\ n <= Len(s)
  BY DEF IsCache
<1>2. u \in Seq(S) /\ Len(u) = n /\ \A i \in 1 .. n : u[i] = s[i]
  BY <1>1, SubSeqProperties
<1>3. <<e>> \in Seq(S) /\ Len(<<e>>) = 1 /\ <<e>>[1] = e
  OBVIOUS
<1> HIDE DEF u
<1>4. r \in Seq(S) /\ Len(r) = n + 1
  BY <1>1, <1>2, <1>3, ConcatProperties
<1>5. r[1] = e /\ \A i \in 1 .. n : r[i + 1] = u[i]
  BY <1>1, <1>2, <1>3
<1> HIDE DEF r
<1> DEFINE T == {k \in Nat : k <= n => CostOf(r, k + 1) = e.cost + CostOf(s, k)}
<1>6. 0 \in T
  <2>1. CostOf(r, 0 + 1) = CostOf(r, 0) + r[0 + 1].cost /\ CostOf(r, 0) = 0 /\ CostOf(s, 0) = 0
    BY CostSteps
  <2>2. e.cost \in Nat /\ 0 + 1 = 1
    BY DEF IsCache
  <2> QED
    BY <1>5, <2>1, <2>2
<1>7. ASSUME NEW k \in Nat, k \in T PROVE k + 1 \in T
  <2> SUFFICES ASSUME k + 1 <= n PROVE CostOf(r, (k + 1) + 1) = e.cost + CostOf(s, k + 1)
    OBVIOUS
  <2>1. k + 1 \in 1 .. n /\ k <= n /\ k \in 0 .. Len(s) /\ k + 1 \in 1 .. Len(s)
    BY <1>1
  <2>2. CostOf(r, (k + 1) + 1) = CostOf(r, k + 1) + r[(k + 1) + 1].cost
        /\ CostOf(s, k + 1) = CostOf(s, k) + s[k + 1].cost
    <3>1. k + 1 \in Nat
      OBVIOUS
    <3> QED
      BY <3>1, CostSteps
  <2>3. r[(k + 1) + 1] = s[k + 1]
    BY <1>2, <1>5, <2>1
  <2>4. CostOf(r, k + 1) = e.cost + CostOf(s, k)
    BY <1>7, <2>1
  <2>5. e.cost \in Nat /\ CostOf(s, k) \in Nat /\ s[k + 1].cost \in Nat
    BY <1>1, <2>1, CostIsNat DEF IsCache
  <2> QED
    BY <2>2, <2>3, <2>4, <2>5
<1> HIDE DEF T
<1>8. Nat \subseteq T
  BY <1>6, <1>7, NaturalsFollow
<1>9. CostOf(r, n + 1) = e.cost + CostOf(s, n)
  BY <1>1, <1>8 DEF T
<1> QED
  BY <1>2, <1>4, <1>5, <1>9 DEF r, u

LEMMA RemoveAtIs ==
  ASSUME NEW S, NEW s, IsCache(s, S), NEW i \in 1 .. Len(s)
  PROVE  LET r == RemoveAt(s, i) IN
         /\ r \in Seq(S) /\ Len(r) = Len(s) - 1
         /\ \A j \in 1 .. Len(s) - 1 : r[j] = IF j < i THEN s[j] ELSE s[j + 1]
         /\ CostOf(s, Len(s)) = s[i].cost + CostOf(r, Len(s) - 1)
<1> DEFINE n == Len(s)
           u == SubSeq(s, 1, i - 1)
           v == SubSeq(s, i + 1, n)
           r == RemoveAt(s, i)
<1>1. s \in Seq(S) /\ n \in Nat /\ i \in Nat /\ i >= 1 /\ i <= n
  BY DEF IsCache
<1> HIDE DEF n
<1>2. u \in Seq(S) /\ Len(u) = i - 1 /\ \A j \in 1 .. i - 1 : u[j] = s[j]
  <2>1. 1 \in 1 .. n + 1 /\ i - 1 \in 1 - 1 .. n
    BY <1>1
  <2> QED
    BY <1>1, <2>1, SubSeqProperties DEF n
<1>3. v \in Seq(S) /\ Len(v) = n - i /\ \A j \in 1 .. n - i : v[j] = s[j + i]
  <2>1. i + 1 \in 1 .. n + 1 /\ n \in (i + 1) - 1 .. n
    BY <1>1
  <2>2. v \in Seq(S) /\ Len(v) = (IF i + 1 <= n THEN n - (i + 1) + 1 ELSE 0)
        /\ \A j \in 1 .. n - (i + 1) + 1 : v[j] = s[(i + 1) + j - 1]
    BY <1>1, <2>1, SubSeqProperties DEF n
  <2>3. n - (i + 1) + 1 = n - i
    BY <1>1
  <2>4. \A j \in 1 .. n - i : (i + 1) + j - 1 = j + i
    BY <1>1
  <2> QED
    BY <1>1, <2>2, <2>3, <2>4
<1>4. r = u \o v
  BY DEF RemoveAt, n
<1> HIDE DEF u, v, r
<1>5. r \in Seq(S) /\ Len(r) = n - 1
  BY <1>1, <1>2, <1>3, <1>4, ConcatProperties
<1>6. \A j \in 1 .. n - 1 : r[j] = IF j < i THEN s[j] ELSE s[j + 1]
  <2> SUFFICES ASSUME NEW j \in 1 .. n - 1 PROVE r[j] = IF j < i THEN s[j] ELSE s[j + 1]
    OBVIOUS
  <2>1. CASE j < i
    <3>1. j \in 1 .. Len(u) /\ j \in 1 .. i - 1
      BY <1>1, <1>2, <2>1
    <3>2. r[j] = u[j]
      BY <1>2, <1>3, <1>4, <3>1, ConcatProperties
    <3> QED
      BY <1>2, <2>1, <3>1, <3>2
  <2>2. CASE ~ (j < i)
    <3>1. /\ j \in 1 .. Len(u) + Len(v) /\ ~ (j <= Len(u)) /\ j - Len(u) \in 1 .. n - i
          /\ (j - Len(u)) + i = j + 1
      BY <1>1, <1>2, <1>3, <2>2
    <3>2. r[j] = v[j - Len(u)]
      BY <1>2, <1>3, <1>4, <3>1, ConcatProperties
    <3> QED
      BY <1>3, <2>2, <3>1, <3>2
  <2> QED
    BY <2>1, <2>2
<1>7. CostOf(s, i) = s[i].cost + CostOf(r, i - 1)
  <2>1. PICK f : Summed(s, i - 1, f) /\ CostOf(s, i - 1) = f[i - 1]
    BY <1>1, CostIs
  <2>2. PICK g : Summed(r, i - 1, g) /\ CostOf(r, i - 1) = g[i - 1]
    BY <1>1, CostIs
  <2>3. \A j \in 1 .. i - 1 : s[j] = r[j]
    BY <1>1, <1>6
  <2>4. CostOf(s, i - 1) = CostOf(r, i - 1)
    <3>1. i - 1 \in Nat /\ i - 1 <= i - 1
      BY <1>1
    <3>2. f[i - 1] = g[i - 1]
      BY <2>1, <2>2, <2>3, <3>1, SummedUnique
    <3> QED
      BY <2>1, <2>2, <3>2
  <2>5. i - 1 \in Nat /\ (i - 1) + 1 = i
    BY <1>1
  <2>6. CostOf(s, i) = CostOf(s, i - 1) + s[i].cost
    BY <2>5, CostSteps
  <2>7. CostOf(s, i - 1) \in Nat /\ s[i].cost \in Nat
    BY <1>1, CostIsNat DEF IsCache, n
  <2> QED
    BY <2>4, <2>6, <2>7
<1> DEFINE T == {k \in Nat : i + k <= n => CostOf(s, i + k) = s[i].cost + CostOf(r, (i + k) - 1)}
<1>8. 0 \in T
  BY <1>1, <1>7
<1>9. ASSUME NEW k \in Nat, k \in T PROVE k + 1 \in T
  <2> DEFINE m == i + k
  <2>1. m \in Nat /\ m >= i /\ i + (k + 1) = m + 1 /\ (m + 1) - 1 = m /\ m - 1 \in Nat
        /\ (m - 1) + 1 = m
    BY <1>1
  <2> SUFFICES ASSUME m + 1 <= n PROVE CostOf(s, m + 1) = s[i].cost + CostOf(r, m)
    BY <2>1
  <2>2. CostOf(s, m) = s[i].cost + CostOf(r, m - 1)
    BY <1>1, <1>9, <2>1
  <2>3. CostOf(s, m + 1) = CostOf(s, m) + s[m + 1].cost
    BY <2>1, CostSteps
  <2>4. CostOf(r, m) = CostOf(r, m - 1) + r[m].cost
    BY <2>1, CostSteps
  <2>5. m \in 1 .. n - 1 /\ ~ (m < i) /\ m + 1 \in 1 .. n /\ m - 1 \in 0 .. n - 1
    BY <1>1, <2>1
  <2>6. r[m] = s[m + 1]
    BY <1>6, <2>5
  <2>7. s[m + 1].cost \in Nat /\ s[i].cost \in Nat
    BY <1>1, <2>5 DEF IsCache, n
  <2>8. CostOf(r, m - 1) \in Nat
    BY <1>5, <2>5, CostIsNat DEF IsCache
  <2> HIDE DEF m
  <2> QED
    BY <2>2, <2>3, <2>4, <2>6, <2>7, <2>8
<1> HIDE DEF T
<1>10. Nat \subseteq T
  BY <1>8, <1>9, NaturalsFollow
<1>11. n - i \in Nat /\ i + (n - i) = n
  BY <1>1
<1>12. CostOf(s, n) = s[i].cost + CostOf(r, n - 1)
  BY <1>10, <1>11 DEF T
<1> QED
  BY <1>5, <1>6, <1>12 DEF n, r

(* Taking the entry of a key away. *)
LEMMA WithoutIs ==
  ASSUME NEW S, NEW s, IsCache(s, S), OnePerKey(s), NEW key
  PROVE  LET w == Without(s, key) IN
         /\ IsCache(w, S) /\ OnePerKey(w)
         /\ \A j \in DOMAIN w : w[j].key # key /\ \E i \in DOMAIN s : w[j] = s[i]
         /\ CostOf(w, Len(w)) <= CostOf(s, Len(s))
         /\ PlacesOf(s, key) # {} =>
              /\ Min(PlacesOf(s, key)) \in PlacesOf(s, key)
              /\ CostOf(s, Len(s)) = s[Min(PlacesOf(s, key))].cost + CostOf(w, Len(w))
<1> DEFINE w == Without(s, key)
           n == Len(s)
           P == PlacesOf(s, key)
           m == Min(P)
<1>1. s \in Seq(S) /\ n \in Nat /\ DOMAIN s = 1 .. n /\ CostOf(s, n) \in Nat
  BY CostIsNat DEF IsCache
<1>2. CASE P = {}
  <2>1. w = s
    BY <1>2 DEF Without
  <2> QED
    BY <1>1, <1>2, <2>1 DEF PlacesOf
<1>3. CASE P # {}
  <2>1. m \in P
    <3>1. P \subseteq Nat
      BY <1>1 DEF PlacesOf
    <3> HIDE DEF P
    <3> QED
      BY <1>3, <3>1, LeastIs
  <2>2. w = RemoveAt(s, m)
    BY <1>3 DEF Without
  <2>3. m \in 1 .. n /\ s[m].key = key
    BY <1>1, <2>1 DEF PlacesOf
  <2> HIDE DEF m, w
  <2>4. /\ w \in Seq(S) /\ Len(w) = n - 1
        /\ \A j \in 1 .. n - 1 : w[j] = IF j < m THEN s[j] ELSE s[j + 1]
        /\ CostOf(s, n) = s[m].cost + CostOf(w, n - 1)
    BY <2>2, <2>3, RemoveAtIs
  <2>5. DOMAIN w = 1 .. n - 1
    BY <2>4
  <2> DEFINE old(j) == IF j < m THEN j ELSE j + 1
  <2>6. \A j \in DOMAIN w : old(j) \in 1 .. n /\ old(j) # m /\ w[j] = s[old(j)]
    BY <1>1, <2>3, <2>4, <2>5
  <2>7. \A i, j \in DOMAIN w : old(i) = old(j) => i = j
    BY <1>1, <2>3, <2>5
  <2> HIDE DEF old
  <2>8. OnePerKey(w)
    BY <1>1, <2>6, <2>7 DEF OnePerKey
  <2>9. \A j \in DOMAIN w : w[j].key # key /\ \E i \in DOMAIN s : w[j] = s[i]
    <3> SUFFICES ASSUME NEW j \in DOMAIN w PROVE w[j].key # key /\ \E i \in DOMAIN s : w[j] = s[i]
      OBVIOUS
    <3>1. old(j) \in DOMAIN s /\ old(j) # m /\ w[j] = s[old(j)] /\ m \in DOMAIN s
      BY <1>1, <2>3, <2>6
    <3>2. s[old(j)].key # s[m].key
      BY <3>1 DEF OnePerKey
    <3> QED
      BY <2>3, <3>1, <3>2
  <2>10. IsCache(w, S)
    BY <2>4 DEF IsCache
  <2>11. s[m].cost \in Nat /\ CostOf(w, n - 1) \in Nat
    <3>1. n - 1 \in 0 .. Len(w)
      BY <1>1, <2>3, <2>4
    <3> QED
      BY <1>1, <2>3, <2>10, <3>1, CostIsNat DEF IsCache
  <2>12. CostOf(w, n - 1) <= CostOf(s, n)
    BY <2>4, <2>11
  <2> QED
    BY <2>1, <2>4, <2>8, <2>9, <2>10, <2>12 DEF m, w
<1> QED
  BY <1>2, <1>3

(* An entry in front of others with other keys. *)
InFront(e, s, n) == <<e>> \o SubSeq(s, 1, n)

LEMMA FrontIsCache ==
  ASSUME NEW S, NEW s, IsCache(s, S), OnePerKey(s), NEW e \in S, NEW n \in 0 .. Len(s),
         \A j \in DOMAIN s : s[j].key # e.key
  PROVE  LET r == InFront(e, s, n) IN
         /\ IsCache(r, S) /\ OnePerKey(r)
         /\ \A j \in DOMAIN r : r[j] = e \/ \E i \in DOMAIN s : r[j] = s[i]
         /\ CostOf(r, Len(r)) = e.cost + CostOf(s, n)
<1> DEFINE r == InFront(e, s, n)
<1>1. s \in Seq(S) /\ Len(s) \in Nat /\ DOMAIN s = 1 .. Len(s) /\ n \in Nat /\ n <= Len(s)
  BY DEF IsCache
<1>2. /\ r \in Seq(S) /\ Len(r) = n + 1
      /\ r[1] = e /\ \A i \in 1 .. n : r[i + 1] = s[i]
      /\ CostOf(r, n + 1) = e.cost + CostOf(s, n)
  BY CostInFront DEF InFront
<1> HIDE DEF r
<1>3. DOMAIN r = 1 .. n + 1
  BY <1>1, <1>2
<1>4. \A j \in DOMAIN r : (j = 1 /\ r[j] = e) \/ (j # 1 /\ j - 1 \in DOMAIN s /\ r[j] = s[j - 1])
  <2> SUFFICES ASSUME NEW j \in DOMAIN r, j # 1 PROVE j - 1 \in DOMAIN s /\ r[j] = s[j - 1]
    BY <1>2
  <2>1. j - 1 \in 1 .. n /\ (j - 1) + 1 = j
    BY <1>1, <1>3
  <2>2. r[(j - 1) + 1] = s[j - 1]
    BY <1>2, <2>1
  <2> QED
    BY <1>1, <2>1, <2>2
<1>5. OnePerKey(r)
  <2> SUFFICES ASSUME NEW i \in DOMAIN r, NEW j \in DOMAIN r, r[i].key = r[j].key PROVE i = j
    BY DEF OnePerKey
  <2>1. CASE i # 1 /\ j # 1
    <3>1. i - 1 = j - 1
      BY <1>4, <2>1 DEF OnePerKey
    <3> QED
      BY <1>3, <3>1
  <2>2. CASE i = 1 \/ j = 1
    BY <1>4, <2>2
  <2> QED
    BY <2>1, <2>2
<1>6. IsCache(r, S)
  BY <1>2 DEF IsCache
<1> QED
  BY <1>2, <1>4, <1>5, <1>6 DEF r

LEMMA UsedIs ==
  ASSUME NEW S, NEW s, IsCache(s, S), OnePerKey(s), NEW key
  PROVE  LET u == Used(s, key) IN
         /\ IsCache(u, S) /\ OnePerKey(u)
         /\ \A j \in DOMAIN u : \E i \in DOMAIN s : u[j] = s[i]
         /\ CostOf(u, Len(u)) = CostOf(s, Len(s))
<1> DEFINE w == Without(s, key)
           m == Min(PlacesOf(s, key))
           u == Used(s, key)
<1>1. CASE PlacesOf(s, key) = {}
  BY <1>1 DEF Used
<1>2. CASE PlacesOf(s, key) # {}
  <2>1. /\ IsCache(w, S) /\ OnePerKey(w)
        /\ \A j \in DOMAIN w : w[j].key # key /\ \E i \in DOMAIN s : w[j] = s[i]
        /\ m \in PlacesOf(s, key)
        /\ CostOf(s, Len(s)) = s[m].cost + CostOf(w, Len(w))
    BY <1>2, WithoutIs
  <2>2. u = <<s[m]>> \o w
    BY <1>2 DEF Used
  <2> HIDE DEF w, m
  <2>3. m \in DOMAIN s /\ s[m].key = key /\ s[m] \in S
    BY <2>1 DEF PlacesOf, IsCache
  <2>4. SubSeq(w, 1, Len(w)) = w /\ Len(w) \in 0 .. Len(w)
    <3>1. w \in Seq(S) /\ Len(w) \in Nat
      BY <2>1 DEF IsCache
    <3> QED
      BY <3>1, SubSeqFull
  <2>5. /\ IsCache(u, S) /\ OnePerKey(u)
        /\ \A j \in DOMAIN u : u[j] = s[m] \/ \E i \in DOMAIN w : u[j] = w[i]
        /\ CostOf(u, Len(u)) = s[m].cost + CostOf(w, Len(w))
    <3>1. \A j \in DOMAIN w : w[j].key # s[m].key
      BY <2>1, <2>3
    <3> DEFINE e == s[m]
               front == InFront(e, w, Len(w))
    <3>2. u = front
      BY <2>2, <2>4 DEF InFront
    <3>3. e \in S /\ \A j \in DOMAIN w : w[j].key # e.key
      BY <2>3, <3>1
    <3> HIDE DEF e
    <3>4. /\ IsCache(front, S) /\ OnePerKey(front)
          /\ \A j \in DOMAIN front : front[j] = e \/ \E i \in DOMAIN w : front[j] = w[i]
          /\ CostOf(front, Len(front)) = e.cost + CostOf(w, Len(w))
      BY <2>1, <2>4, <3>3, FrontIsCache
    <3> HIDE DEF front, u
    <3> QED
      BY <3>2, <3>4 DEF e
  <2> HIDE DEF u
  <2> QED
    BY <2>1, <2>3, <2>5 DEF u
<1> QED
  BY <1>1, <1>2

LEMMA InsertIs ==
  ASSUME NEW S, NEW s, IsCache(s, S), OnePerKey(s), NEW e \in S, NEW maxCost \in Nat
  PROVE  LET r == Insert(s, e, maxCost) IN
         /\ IsCache(r, S) /\ OnePerKey(r)
         /\ \A j \in DOMAIN r : r[j] = e \/ \E i \in DOMAIN s : r[j] = s[i]
         /\ CostOf(s, Len(s)) <= maxCost => CostOf(r, Len(r)) <= maxCost
<1> DEFINE w == Without(s, e.key)
           fits == {n \in 0 .. Len(w) : CostOf(w, n) + e.cost <= maxCost}
           m == Max(fits)
           r == Insert(s, e, maxCost)
<1>1. /\ IsCache(w, S) /\ OnePerKey(w)
      /\ \A j \in DOMAIN w : w[j].key # e.key /\ \E i \in DOMAIN s : w[j] = s[i]
      /\ CostOf(w, Len(w)) <= CostOf(s, Len(s))
  BY WithoutIs
<1>2. r = IF e.cost > maxCost THEN w ELSE <<e>> \o SubSeq(w, 1, m)
  BY DEF Insert
<1> HIDE DEF w, r
<1>3. /\ Len(w) \in Nat /\ e.cost \in Nat
      /\ CostOf(w, Len(w)) \in Nat /\ CostOf(s, Len(s)) \in Nat
  <2>1. Len(w) \in Nat /\ Len(s) \in Nat
    BY <1>1 DEF IsCache
  <2> QED
    BY <1>1, <2>1, CostIsNat DEF IsCache
<1>4. CASE e.cost > maxCost
  <2>1. r = w
    BY <1>2, <1>4
  <2> QED
    BY <1>1, <1>3, <2>1 DEF r
<1>5. CASE ~ (e.cost > maxCost)
  <2>1. m \in fits
    <3>1. CostOf(w, 0) = 0
      BY CostSteps
    <3>2. 0 \in fits
      BY <1>3, <1>5, <3>1
    <3>3. fits \subseteq 0 .. Len(w)
      OBVIOUS
    <3> HIDE DEF fits
    <3> QED
      BY <1>3, <3>2, <3>3, GreatestIs
  <2>2. m \in 0 .. Len(w) /\ CostOf(w, m) + e.cost <= maxCost
    BY <2>1
  <2> HIDE DEF m
  <2>3. r = <<e>> \o SubSeq(w, 1, m)
    BY <1>2, <1>5
  <2>4. /\ IsCache(r, S) /\ OnePerKey(r)
        /\ \A j \in DOMAIN r : r[j] = e \/ \E i \in DOMAIN w : r[j] = w[i]
        /\ CostOf(r, Len(r)) = e.cost + CostOf(w, m)
    <3>1. \A j \in DOMAIN w : w[j].key # e.key
      BY <1>1
    <3> DEFINE front == InFront(e, w, m)
    <3>2. /\ IsCache(front, S) /\ OnePerKey(front)
          /\ \A j \in DOMAIN front : front[j] = e \/ \E i \in DOMAIN w : front[j] = w[i]
          /\ CostOf(front, Len(front)) = e.cost + CostOf(w, m)
      BY <1>1, <2>2, <3>1, FrontIsCache
    <3> HIDE DEF front
    <3>3. r = front
      BY <2>3 DEF front, InFront
    <3> QED
      BY <3>2, <3>3
  <2>5. CostOf(w, m) \in Nat
    BY <1>1, <2>2, CostIsNat
  <2>6. CostOf(r, Len(r)) <= maxCost
    BY <1>3, <2>2, <2>4, <2>5
  <2> QED
    BY <1>1, <2>4, <2>6 DEF r
<1> QED
  BY <1>4, <1>5

-----------------------------------------------------------------------------
(* The static files: the inductive invariant.                              *)

FileSuffixes == {SuffixOf(p) : p \in Paths} \cup {""}
TypesShown == {setContentType(x) : x \in FileSuffixes} \cup {""}
StaticEntries ==
  [key : Paths, cost : Nat, document : Seq(Nat), created : Int, suffix : FileSuffixes]
ReaderStates ==
  [at : {"idle", "lookup", "reading"}, path : Paths \cup {""}, now : Nat, suffix : FileSuffixes,
   document : Seq(Nat), keep : BOOLEAN, status : {0, 200, 403, 404}, hit : BOOLEAN,
   type : TypesShown]
Replacements == [path : Paths, version : Nat, at : Nat]

StaticTypes ==
  /\ clock \in Nat
  /\ DOMAIN files = Paths
  /\ \A p \in Paths : DOMAIN files[p] = {"version", "state", "size"} /\ files[p].version \in Nat
  /\ left \in Seq(Replacements)
  /\ IsCache(cached, StaticEntries)
  /\ reader \in [Readers -> ReaderStates]

(* With the files f and the versions l that have left: the file of path p  *)
(* was of the version v at the time `since' or later.                      *)
WasVersion(f, l, p, v, since) ==
  \/ f[p].state # "absent" /\ f[p].version = v
  \/ \E i \in DOMAIN l : l[i].path = p /\ l[i].version = v /\ l[i].at >= since

HasContents(f, l, p, d, since) == \A k \in DOMAIN d : WasVersion(f, l, p, d[k], since)

EntryFits(f, l, now, e) ==
  /\ e.created <= now
  /\ e.suffix = SuffixOf(e.key)
  /\ HasContents(f, l, e.key, e.document, e.created)

HitSince(r) == IF CacheTime = 0 THEN 0 ELSE r.now - CacheTime

ReaderFits(f, l, now, r) ==
  /\ r.at # "idle" => r.path \in Paths /\ r.now <= now /\ ~ r.hit
  /\ r.at = "lookup" => r.document = << >>
  /\ r.at = "reading" =>
       /\ HasContents(f, l, r.path, r.document, r.now)
       /\ r.suffix = SuffixOf(r.path) /\ r.type = setContentType(r.suffix)
       /\ WasVersion(f, l, r.path, f[r.path].version, r.now)
  /\ r.hit =>
       /\ r.path \in Paths /\ HitSince(r) <= now
       /\ r.type = setContentType(SuffixOf(r.path))
       /\ HasContents(f, l, r.path, r.document, HitSince(r))

CacheFits ==
  /\ OnePerKey(cached)
  /\ \A i \in DOMAIN cached : EntryFits(files, left, clock, cached[i])
  /\ CostOf(cached, Len(cached)) <= CacheSize

StaticInv ==
  /\ StaticTypes /\ CacheFits
  /\ \A t \in Readers : ReaderFits(files, left, clock, reader[t])

(* Nothing that was current is forgotten, and who reads a file reads what  *)
(* was in it meanwhile.                                                    *)
FilesMove ==
  /\ StaticTypes'
  /\ \A p \in Paths, v \in Nat, since \in Int :
       since <= clock /\ WasVersion(files, left, p, v, since)
         => WasVersion(files', left', p, v, since)
  /\ \A t \in Readers : reader[t].at = "reading" =>
       WasVersion(files', left', reader[t].path, files'[reader[t].path].version, reader[t].now)

LEMMA VersionLeaves ==
  ASSUME StaticInv, NEW q \in Paths, files[q].state # "absent",
         left' = Leaving(q), UNCHANGED <<clock, cached, reader>>, DOMAIN files' = Paths,
         \A p \in Paths : /\ DOMAIN files'[p] = {"version", "state", "size"}
                         /\ files'[p].version \in Nat /\ (p # q => files'[p] = files[p])
  PROVE  /\ StaticTypes'
         /\ \A p \in Paths, v \in Nat, since \in Int :
              since <= clock /\ WasVersion(files, left, p, v, since)
                => WasVersion(files', left', p, v, since)
<1> DEFINE x == [path |-> q, version |-> files[q].version, at |-> clock]
<1>1. left' = Append(left, x)
  BY DEF Leaving
<1>2. x \in Replacements /\ left \in Seq(Replacements) /\ clock \in Nat
  BY DEF StaticInv, StaticTypes, Replacements
<1>3. x.path = q /\ x.version = files[q].version /\ x.at = clock
  OBVIOUS
<1> HIDE DEF x
<1>4. /\ left' \in Seq(Replacements) /\ Len(left') = Len(left) + 1 /\ Len(left) \in Nat
      /\ left'[Len(left) + 1] = x /\ \A i \in 1 .. Len(left) : left'[i] = left[i]
  BY <1>1, <1>2, AppendProperties
<1>5. DOMAIN left = 1 .. Len(left) /\ DOMAIN left' = 1 .. Len(left) + 1
  BY <1>2, <1>4
<1>6. StaticTypes'
  BY <1>4 DEF StaticInv, StaticTypes
<1>7. ASSUME NEW p \in Paths, NEW v \in Nat, NEW since \in Int, since <= clock,
             WasVersion(files, left, p, v, since)
      PROVE  WasVersion(files', left', p, v, since)
  <2>1. CASE files[p].state # "absent" /\ files[p].version = v /\ p # q
    BY <2>1 DEF WasVersion
  <2>2. CASE files[p].version = v /\ p = q
    <3>1. left'[Len(left) + 1].path = p /\ left'[Len(left) + 1].version = v
          /\ left'[Len(left) + 1].at >= since
      BY <1>2, <1>3, <1>4, <1>7, <2>2
    <3>2. Len(left) + 1 \in DOMAIN left'
      BY <1>4, <1>5
    <3> QED
      BY <3>1, <3>2 DEF WasVersion
  <2>3. CASE \E i \in DOMAIN left :
               left[i].path = p /\ left[i].version = v /\ left[i].at >= since
    <3>1. \A i \in DOMAIN left : i \in DOMAIN left' /\ left'[i] = left[i]
      BY <1>4, <1>5
    <3> QED
      BY <2>3, <3>1 DEF WasVersion
  <2> QED
    BY <1>7, <2>1, <2>2, <2>3 DEF WasVersion
<1> QED
  BY <1>6, <1>7

LEMMA ReplaceFileMoves ==
  ASSUME StaticInv, NEW q \in Paths, NEW n \in FileSizes, ReplaceFile(q, n)
  PROVE  FilesMove
<1>1. /\ files' = [files EXCEPT ![q] = NewVersion(n)] /\ files[q].state # "absent"
      /\ left' = Leaving(q) /\ UNCHANGED <<clock, cached, reader>>
  BY DEF ReplaceFile
<1>2. /\ DOMAIN NewVersion(n) = {"version", "state", "size"} /\ NewVersion(n).version \in Nat
      /\ NewVersion(n).state # "absent"
  <2>1. Len(left) \in Nat
    BY DEF StaticInv, StaticTypes
  <2> QED
    BY <2>1 DEF NewVersion
<1>3. DOMAIN files' = Paths /\ files'[q] = NewVersion(n)
      /\ \A p \in Paths : p # q => files'[p] = files[p]
  BY <1>1 DEF StaticInv, StaticTypes
<1>4. \A p \in Paths : DOMAIN files'[p] = {"version", "state", "size"}
                       /\ files'[p].version \in Nat
  BY <1>2, <1>3 DEF StaticInv, StaticTypes
<1>5. /\ StaticTypes'
      /\ \A p \in Paths, v \in Nat, since \in Int :
           since <= clock /\ WasVersion(files, left, p, v, since)
             => WasVersion(files', left', p, v, since)
  BY <1>1, <1>3, <1>4, VersionLeaves
<1>6. ASSUME NEW t \in Readers, reader[t].at = "reading"
      PROVE  WasVersion(files', left', reader[t].path, files'[reader[t].path].version,
                        reader[t].now)
  <2>1. /\ reader[t].path \in Paths /\ reader[t].now \in Int /\ reader[t].now <= clock
        /\ WasVersion(files, left, reader[t].path, files[reader[t].path].version, reader[t].now)
        /\ files[reader[t].path].version \in Nat
    <3>1. reader[t] \in ReaderStates /\ ReaderFits(files, left, clock, reader[t])
      BY DEF StaticInv, StaticTypes
    <3>2. reader[t].now \in Nat
      BY <3>1 DEF ReaderStates
    <3> QED
      BY <1>6, <3>1, <3>2 DEF ReaderFits, StaticInv, StaticTypes
  <2>2. CASE reader[t].path = q
    BY <1>2, <1>3, <2>2 DEF WasVersion
  <2>3. CASE reader[t].path # q
    BY <1>3, <1>5, <2>1, <2>3
  <2> QED
    BY <2>2, <2>3
<1> QED
  BY <1>5, <1>6 DEF FilesMove

LEMMA RemoveFileMoves ==
  ASSUME StaticInv, NEW q \in Paths, RemoveFile(q)
  PROVE  FilesMove
<1>1. /\ files' = [files EXCEPT ![q].state = "absent"] /\ files[q].state # "absent"
      /\ left' = Leaving(q) /\ UNCHANGED <<clock, cached, reader>>
  BY DEF RemoveFile
<1>2. /\ DOMAIN files = Paths
      /\ \A p \in Paths : DOMAIN files[p] = {"version", "state", "size"}
                          /\ files[p].version \in Nat
  BY DEF StaticInv, StaticTypes
<1>3. DOMAIN files' = Paths /\ \A p \in Paths : p # q => files'[p] = files[p]
  BY <1>1, <1>2
<1>4. \A p \in Paths : /\ DOMAIN files'[p] = {"version", "state", "size"}
                       /\ files'[p].version = files[p].version
  BY <1>1, <1>2
<1>5. /\ StaticTypes'
      /\ \A p \in Paths, v \in Nat, since \in Int :
           since <= clock /\ WasVersion(files, left, p, v, since)
             => WasVersion(files', left', p, v, since)
  BY <1>1, <1>2, <1>3, <1>4, VersionLeaves
<1>6. ASSUME NEW t \in Readers, reader[t].at = "reading"
      PROVE  WasVersion(files', left', reader[t].path, files'[reader[t].path].version,
                        reader[t].now)
  <2>1. /\ reader[t].path \in Paths /\ reader[t].now \in Int /\ reader[t].now <= clock
        /\ WasVersion(files, left, reader[t].path, files[reader[t].path].version, reader[t].now)
    <3>1. reader[t] \in ReaderStates /\ ReaderFits(files, left, clock, reader[t])
      BY DEF StaticInv, StaticTypes
    <3>2. reader[t].now \in Nat
      BY <3>1 DEF ReaderStates
    <3> QED
      BY <1>6, <3>1, <3>2 DEF ReaderFits
  <2> QED
    BY <1>2, <1>4, <1>5, <2>1
<1> QED
  BY <1>5, <1>6 DEF FilesMove

LEMMA CreateFileMoves ==
  ASSUME StaticInv, NEW q \in Paths, NEW n \in FileSizes, CreateFile(q, n)
  PROVE  FilesMove
<1>1. /\ files' = [files EXCEPT ![q] = NewVersion(n)] /\ files[q].state = "absent"
      /\ UNCHANGED <<clock, left, cached, reader>>
      /\ \A t \in Readers : reader[t].at = "reading" => reader[t].path # q
  BY DEF CreateFile
<1>2. DOMAIN NewVersion(n) = {"version", "state", "size"} /\ NewVersion(n).version \in Nat
  <2>1. Len(left) \in Nat
    BY DEF StaticInv, StaticTypes
  <2> QED
    BY <2>1 DEF NewVersion
<1>3. DOMAIN files' = Paths /\ files'[q] = NewVersion(n)
      /\ \A p \in Paths : p # q => files'[p] = files[p]
  BY <1>1 DEF StaticInv, StaticTypes
<1>4. StaticTypes'
  <2>1. \A p \in Paths : DOMAIN files'[p] = {"version", "state", "size"}
                         /\ files'[p].version \in Nat
    BY <1>2, <1>3 DEF StaticInv, StaticTypes
  <2> QED
    BY <1>1, <1>3, <2>1 DEF StaticInv, StaticTypes
<1>5. ASSUME NEW p \in Paths, NEW v, NEW since, WasVersion(files, left, p, v, since)
      PROVE  WasVersion(files', left', p, v, since)
  BY <1>1, <1>3, <1>5 DEF WasVersion
<1>6. ASSUME NEW t \in Readers, reader[t].at = "reading"
      PROVE  WasVersion(files', left', reader[t].path, files'[reader[t].path].version,
                        reader[t].now)
  <2>1. /\ reader[t].path \in Paths /\ reader[t].path # q
        /\ WasVersion(files, left, reader[t].path, files[reader[t].path].version, reader[t].now)
    BY <1>1, <1>6 DEF StaticInv, ReaderFits
  <2> QED
    BY <1>3, <1>5, <2>1
<1> QED
  BY <1>4, <1>5, <1>6 DEF FilesMove

LEMMA StaticStarts == StaticInit => StaticInv
<1> SUFFICES ASSUME StaticInit PROVE StaticInv
  OBVIOUS
<1>1. /\ clock = 1 /\ left = << >> /\ cached = << >>
      /\ files = [p \in Paths |-> [version |-> 0, state |-> FirstState[p], size |-> Pieces[p]]]
      /\ reader = [t \in Readers |-> StaticIdle]
  BY DEF StaticInit
<1>2. StaticIdle \in ReaderStates /\ StaticIdle.at = "idle" /\ ~ StaticIdle.hit
  BY EmptySeq DEF StaticIdle, ReaderStates, FileSuffixes, TypesShown
<1>3. IsCache(cached, StaticEntries) /\ OnePerKey(cached) /\ left \in Seq(Replacements)
      /\ DOMAIN cached = {}
  BY <1>1, EmptySeq DEF IsCache, OnePerKey, StaticEntries
<1>4. CostOf(cached, Len(cached)) <= CacheSize
  <2>1. Len(cached) = 0
    BY <1>1, EmptySeq
  <2> QED
    BY <2>1, CostSteps, StaticAssumption
<1>5. StaticTypes
  BY <1>1, <1>2, <1>3 DEF StaticTypes
<1>6. \A t \in Readers : ReaderFits(files, left, clock, reader[t])
  BY <1>1, <1>2 DEF ReaderFits
<1> QED
  BY <1>3, <1>4, <1>5, <1>6 DEF StaticInv, CacheFits

(* Only the reader t moves. *)
LEMMA ReaderMoves ==
  ASSUME StaticInv, NEW t \in Readers, NEW r \in ReaderStates,
         UNCHANGED <<clock, files, left>>,
         reader' = [reader EXCEPT ![t] = r], ReaderFits(files, left, clock, r),
         IsCache(cached', StaticEntries), CacheFits'
  PROVE  StaticInv'
<1>1. StaticTypes'
  BY DEF StaticInv, StaticTypes
<1>2. \A u \in Readers : ReaderFits(files', left', clock', reader'[u])
  BY DEF StaticInv, StaticTypes
<1> QED
  BY <1>1, <1>2 DEF StaticInv

LEMMA UsedFits ==
  ASSUME StaticInv, NEW key, cached' = Used(cached, key), UNCHANGED <<clock, files, left>>
  PROVE  IsCache(cached', StaticEntries) /\ CacheFits'
<1> DEFINE u == Used(cached, key)
<1>1. /\ IsCache(u, StaticEntries) /\ OnePerKey(u)
      /\ \A j \in DOMAIN u : \E i \in DOMAIN cached : u[j] = cached[i]
      /\ CostOf(u, Len(u)) = CostOf(cached, Len(cached))
  BY UsedIs DEF StaticInv, StaticTypes, CacheFits
<1> HIDE DEF u
<1>2. cached' = u
  BY DEF u
<1> QED
  BY <1>1, <1>2 DEF StaticInv, CacheFits

(* A reader goes on. *)
LEMMA ReaderChanges ==
  ASSUME NEW o \in ReaderStates
  PROVE  /\ \A document \in Seq(Nat) : [o EXCEPT !.document = document] \in ReaderStates
         /\ \A document \in Seq(Nat), type \in TypesShown :
              [o EXCEPT !.at = "idle", !.hit = TRUE, !.document = document, !.type = type]
                \in ReaderStates
         /\ \A suffix \in FileSuffixes, keep \in BOOLEAN, type \in TypesShown :
              [o EXCEPT !.at = "reading", !.suffix = suffix, !.type = type, !.keep = keep]
                \in ReaderStates
<1> DEFINE Steps == {"idle", "lookup", "reading"}
           Asked == Paths \cup {""}
           Shown == {0, 200, 403, 404}
           Documents == Seq(Nat)
           Flags == BOOLEAN
           S == [at : Steps, path : Asked, now : Nat, suffix : FileSuffixes,
                 document : Documents, keep : Flags, status : Shown, hit : Flags,
                 type : TypesShown]
<1>1. o \in S /\ ReaderStates = S /\ "idle" \in Steps /\ "reading" \in Steps /\ TRUE \in Flags
  BY DEF ReaderStates
<1> HIDE DEF Steps, Asked, Shown, Documents, Flags
<1>2. ASSUME NEW document \in Documents PROVE [o EXCEPT !.document = document] \in S
  BY <1>1
<1>3. ASSUME NEW step \in Steps, NEW hit \in Flags, NEW document \in Documents,
             NEW type \in TypesShown
      PROVE  [o EXCEPT !.at = step, !.hit = hit, !.document = document, !.type = type] \in S
  BY <1>1
<1>4. ASSUME NEW step \in Steps, NEW keep \in Flags, NEW suffix \in FileSuffixes,
             NEW type \in TypesShown
      PROVE  [o EXCEPT !.at = step, !.suffix = suffix, !.type = type, !.keep = keep] \in S
  BY <1>1
<1> HIDE DEF S
<1>5. \A document \in Documents : [o EXCEPT !.document = document] \in ReaderStates
  BY <1>1, <1>2
<1>6. \A document \in Documents, type \in TypesShown :
        [o EXCEPT !.at = "idle", !.hit = TRUE, !.document = document, !.type = type]
          \in ReaderStates
  BY <1>1, <1>3
<1>7. \A suffix \in FileSuffixes, keep \in Flags, type \in TypesShown :
        [o EXCEPT !.at = "reading", !.suffix = suffix, !.type = type, !.keep = keep]
          \in ReaderStates
  BY <1>1, <1>4
<1> QED
  BY <1>5, <1>6, <1>7 DEF Documents, Flags

LEMMA EntryIs ==
  ASSUME StaticInv, NEW key, NEW e \in EntriesOf(cached, key)
  PROVE  e \in StaticEntries /\ e.key = key /\ EntryFits(files, left, clock, e)
BY DEF EntriesOf, PlacesOf, StaticInv, StaticTypes, CacheFits, IsCache

LEMMA CacheHitKeeps ==
  ASSUME StaticInv, NEW t \in Readers, CacheHit(t)
  PROVE  StaticInv'
<1>1. PICK e \in EntriesOf(cached, reader[t].path) :
        /\ IsFresh(e, reader[t].now)
        /\ cached' = Used(cached, e.key)
        /\ reader' = [reader EXCEPT ![t] =
             [@ EXCEPT !.at = "idle", !.hit = TRUE,
                       !.document = e.document, !.type = setContentType(e.suffix)]]
  BY DEF CacheHit
<1> DEFINE o == reader[t]
           r == [o EXCEPT !.at = "idle", !.hit = TRUE, !.document = e.document,
                          !.type = setContentType(e.suffix)]
<1>2. /\ o.at = "lookup" /\ UNCHANGED <<clock, files, left>>
      /\ o \in ReaderStates /\ ReaderFits(files, left, clock, o) /\ clock \in Nat
  BY DEF CacheHit, StaticInv, StaticTypes
<1>3. e \in StaticEntries /\ e.key = o.path /\ EntryFits(files, left, clock, e)
  BY <1>1, EntryIs
<1>4. reader' = [reader EXCEPT ![t] = r]
  BY <1>1
<1>5. o.path \in Paths /\ o.now \in Nat
  BY <1>2 DEF ReaderFits, ReaderStates
<1> HIDE DEF o
<1>6. r \in ReaderStates
  <2>1. e.document \in Seq(Nat) /\ e.suffix \in FileSuffixes
    BY <1>3 DEF StaticEntries
  <2>2. setContentType(e.suffix) \in TypesShown
    BY <2>1 DEF TypesShown
  <2> QED
    BY <1>2, <2>1, <2>2, ReaderChanges
<1>7. /\ r.at = "idle" /\ r.hit /\ r.path = o.path /\ r.now = o.now
      /\ r.document = e.document /\ r.type = setContentType(e.suffix)
  BY <1>2 DEF ReaderStates
<1> HIDE DEF r
<1>8. (HitSince(r) <= e.created /\ HitSince(r) <= clock) \/ CacheTime = 0
  <2>1. e.created \in Int /\ e.created <= clock
    BY <1>3 DEF StaticEntries, EntryFits
  <2> QED
    BY <1>1, <1>2, <1>5, <1>7, <2>1, StaticAssumption DEF HitSince, IsFresh, o
<1>9. HasContents(files, left, r.path, r.document, HitSince(r)) /\ HitSince(r) <= clock
  <2>1. /\ HasContents(files, left, r.path, r.document, e.created)
        /\ e.created \in Int
    BY <1>3, <1>7 DEF EntryFits, StaticEntries
  <2>2. \A i \in DOMAIN left : left[i].at \in Nat
    <3>1. left \in Seq(Replacements) /\ DOMAIN left = 1 .. Len(left)
      BY DEF StaticInv, StaticTypes
    <3>2. \A i \in DOMAIN left : left[i] \in Replacements
      BY <3>1
    <3> QED
      BY <3>2 DEF Replacements
  <2>3. HitSince(r) \in Int
    BY <1>5, <1>7, StaticAssumption DEF HitSince
  <2>4. CASE HitSince(r) <= e.created /\ HitSince(r) <= clock
    <3>1. \A i \in DOMAIN left : left[i].at >= e.created => left[i].at >= HitSince(r)
      BY <2>1, <2>2, <2>3, <2>4
    <3> QED
      BY <2>1, <2>4, <3>1 DEF HasContents, WasVersion
  <2>5. CASE CacheTime = 0
    <3>1. HitSince(r) = 0 /\ 0 <= clock
      BY <1>2, <2>5 DEF HitSince
    <3>2. \A i \in DOMAIN left : left[i].at >= 0
      BY <2>2
    <3> QED
      BY <2>1, <3>1, <3>2 DEF HasContents, WasVersion
  <2> QED
    BY <1>8, <2>4, <2>5
<1>10. ReaderFits(files, left, clock, r)
  BY <1>3, <1>5, <1>7, <1>9 DEF ReaderFits, EntryFits
<1>11. IsCache(cached', StaticEntries) /\ CacheFits'
  BY <1>1, <1>2, UsedFits
<1> QED
  BY <1>2, <1>4, <1>6, <1>10, <1>11, ReaderMoves

LEMMA CacheMissKeeps ==
  ASSUME StaticInv, NEW t \in Readers, CacheMiss(t)
  PROVE  StaticInv'
<1> DEFINE o == reader[t]
           p == o.path
           refused(status) == [StaticIdle EXCEPT !.status = status]
           begun == [o EXCEPT !.at = "reading", !.suffix = SuffixOf(p),
                              !.type = setContentType(SuffixOf(p)),
                              !.keep = files[p].size <= MaxCachedFileSize]
<1>1. /\ o.at = "lookup" /\ UNCHANGED <<clock, files, left>>
      /\ o \in ReaderStates /\ ReaderFits(files, left, clock, o)
      /\ cached' = Used(cached, p)
      /\ \/ \E status \in {403, 404} : reader' = [reader EXCEPT ![t] = refused(status)]
         \/ reader' = [reader EXCEPT ![t] = begun] /\ files[p].state # "absent"
  BY DEF CacheMiss, Respond, StaticInv, StaticTypes
<1>2. p \in Paths /\ o.now \in Nat /\ o.now <= clock /\ ~ o.hit /\ o.document = << >>
  BY <1>1 DEF ReaderFits, ReaderStates
<1>3. IsCache(cached', StaticEntries) /\ CacheFits'
  BY <1>1, UsedFits
<1>4. ASSUME NEW status \in {403, 404}
      PROVE  refused(status) \in ReaderStates /\ ReaderFits(files, left, clock, refused(status))
  BY EmptySeq DEF StaticIdle, ReaderStates, FileSuffixes, TypesShown, ReaderFits
<1>5. begun \in ReaderStates
  <2>1. SuffixOf(p) \in FileSuffixes /\ setContentType(SuffixOf(p)) \in TypesShown
    BY <1>2 DEF FileSuffixes, TypesShown
  <2>2. (files[p].size <= MaxCachedFileSize) \in BOOLEAN
    OBVIOUS
  <2> DEFINE b == files[p].size <= MaxCachedFileSize
  <2> HIDE DEF o, b
  <2> QED
    BY <1>1, <2>1, <2>2, ReaderChanges DEF b
<1>6. files[p].state # "absent" => ReaderFits(files, left, clock, begun)
  <2>1. /\ begun.at = "reading" /\ begun.path = p /\ begun.now = o.now /\ begun.hit = o.hit
        /\ begun.document = << >> /\ begun.suffix = SuffixOf(p)
        /\ begun.type = setContentType(SuffixOf(p))
        /\ begun.keep = (files[p].size <= MaxCachedFileSize)
    BY <1>1, <1>2 DEF ReaderStates
  <2>2. HasContents(files, left, p, << >>, o.now)
    BY DEF HasContents
  <2>3. files[p].state # "absent" => WasVersion(files, left, p, files[p].version, o.now)
    BY DEF WasVersion
  <2> HIDE DEF begun, o
  <2> QED
    BY <1>2, <2>1, <2>2, <2>3 DEF ReaderFits
<1>7. ASSUME NEW status \in {403, 404}, reader' = [reader EXCEPT ![t] = refused(status)]
      PROVE  StaticInv'
  <2> DEFINE r == refused(status)
  <2>1. r \in ReaderStates /\ ReaderFits(files, left, clock, r)
    BY <1>4
  <2>2. reader' = [reader EXCEPT ![t] = r]
    BY <1>7
  <2> HIDE DEF r, o
  <2>3. UNCHANGED <<clock, files, left>>
    BY <1>1
  <2> QED
    BY <1>3, <2>1, <2>2, <2>3, ReaderMoves
<1> HIDE DEF begun, o
<1>8. CASE reader' = [reader EXCEPT ![t] = begun] /\ files[p].state # "absent"
  <2>1. ReaderFits(files, left, clock, begun) /\ reader' = [reader EXCEPT ![t] = begun]
    BY <1>6, <1>8
  <2>2. UNCHANGED <<clock, files, left>>
    BY <1>1
  <2> QED
    BY <1>3, <1>5, <2>1, <2>2, ReaderMoves
<1> QED
  BY <1>1, <1>7, <1>8

LEMMA ReadPieceKeeps ==
  ASSUME StaticInv, NEW t \in Readers, ReadPiece(t)
  PROVE  StaticInv'
<1> DEFINE o == reader[t]
           d == Append(o.document, files[o.path].version)
           r == [o EXCEPT !.document = d]
<1>1. /\ o.at = "reading" /\ UNCHANGED <<clock, files, left, cached>>
      /\ o \in ReaderStates /\ ReaderFits(files, left, clock, o)
      /\ reader' = [reader EXCEPT ![t] = r]
  BY DEF ReadPiece, StaticInv, StaticTypes
<1>2. o.path \in Paths /\ files[o.path].version \in Nat /\ o.document \in Seq(Nat)
  BY <1>1 DEF ReaderFits, ReaderStates, StaticInv, StaticTypes
<1>3. /\ d \in Seq(Nat) /\ Len(d) = Len(o.document) + 1 /\ Len(o.document) \in Nat
      /\ d[Len(o.document) + 1] = files[o.path].version
      /\ \A k \in 1 .. Len(o.document) : d[k] = o.document[k]
  BY <1>2, AppendProperties
<1>4. DOMAIN d = 1 .. Len(o.document) + 1 /\ DOMAIN o.document = 1 .. Len(o.document)
  BY <1>2, <1>3
<1> HIDE DEF d
<1>5. HasContents(files, left, o.path, d, o.now)
  <2> SUFFICES ASSUME NEW k \in DOMAIN d PROVE WasVersion(files, left, o.path, d[k], o.now)
    BY DEF HasContents
  <2>1. k = Len(o.document) + 1 \/ (k \in DOMAIN o.document /\ d[k] = o.document[k])
    BY <1>3, <1>4
  <2>2. /\ HasContents(files, left, o.path, o.document, o.now)
        /\ WasVersion(files, left, o.path, files[o.path].version, o.now)
    BY <1>1 DEF ReaderFits
  <2> QED
    BY <1>3, <2>1, <2>2 DEF HasContents
<1>6. r \in ReaderStates
  BY <1>1, <1>3, ReaderChanges
<1>7. /\ r.at = "reading" /\ r.path = o.path /\ r.now = o.now /\ r.hit = o.hit
      /\ r.document = d /\ r.suffix = o.suffix /\ r.type = o.type /\ r.keep = o.keep
  BY <1>1 DEF ReaderStates
<1> HIDE DEF r, o
<1>8. ReaderFits(files, left, clock, r)
  BY <1>1, <1>5, <1>7 DEF ReaderFits
<1>9. IsCache(cached', StaticEntries) /\ CacheFits'
  BY <1>1 DEF StaticInv, StaticTypes, CacheFits
<1> QED
  BY <1>1, <1>6, <1>8, <1>9, ReaderMoves

(* What is read is stored, if it is to be kept. *)
LEMMA StoreKeeps ==
  ASSUME StaticInv, NEW t \in Readers, reader[t].at = "reading",
         cached' = IF reader[t].keep THEN Insert(cached, NewEntry(t), CacheSize) ELSE cached,
         Sent(t), UNCHANGED <<clock, files, left>>
  PROVE  StaticInv'
<1> DEFINE o == reader[t]
           e == NewEntry(t)
           r == [StaticIdle EXCEPT !.status = 200, !.type = o.type]
<1>1. o \in ReaderStates /\ ReaderFits(files, left, clock, o)
  BY DEF StaticInv, StaticTypes
<1>2. reader' = [reader EXCEPT ![t] = r]
  BY DEF Sent
<1>3. r \in ReaderStates /\ r.at = "idle" /\ ~ r.hit
  <2>1. o.type \in TypesShown
    BY <1>1 DEF ReaderStates
  <2> HIDE DEF o
  <2> QED
    BY <2>1, EmptySeq DEF StaticIdle, ReaderStates, FileSuffixes
<1>4. ReaderFits(files, left, clock, r)
  BY <1>3 DEF ReaderFits
<1>5. IsCache(cached', StaticEntries) /\ CacheFits'
  <2>1. CASE o.keep
    <3>1. /\ e.key = o.path /\ e.document = o.document /\ e.created = o.now /\ e.suffix = o.suffix
          /\ e = [key |-> o.path, cost |-> Len(o.document), document |-> o.document,
                  created |-> o.now, suffix |-> o.suffix]
      BY DEF NewEntry
    <3>2. Len(o.document) \in Nat /\ o.path \in Paths /\ o.document \in Seq(Nat) /\ o.now \in Int
          /\ o.suffix \in FileSuffixes
      <4>1. o.document \in Seq(Nat) /\ o.now \in Nat /\ o.suffix \in FileSuffixes
        BY <1>1 DEF ReaderStates
      <4>2. o.path \in Paths
        BY <1>1 DEF ReaderFits
      <4> QED
        BY <4>1, <4>2
    <3> HIDE DEF e
    <3>3. e \in StaticEntries
      BY <3>1, <3>2 DEF StaticEntries
    <3>4. EntryFits(files, left, clock, e)
      BY <1>1, <2>1, <3>1 DEF ReaderFits, EntryFits
    <3> DEFINE x == Insert(cached, e, CacheSize)
    <3>5. /\ IsCache(x, StaticEntries) /\ OnePerKey(x)
          /\ \A j \in DOMAIN x : x[j] = e \/ \E i \in DOMAIN cached : x[j] = cached[i]
          /\ CostOf(cached, Len(cached)) <= CacheSize => CostOf(x, Len(x)) <= CacheSize
      BY <3>3, InsertIs, StaticAssumption DEF StaticInv, StaticTypes, CacheFits
    <3>6. cached' = x
      BY <2>1 DEF e
    <3> HIDE DEF x
    <3> QED
      BY <3>4, <3>5, <3>6 DEF StaticInv, CacheFits
  <2>2. CASE ~ o.keep
    BY <2>2 DEF StaticInv, StaticTypes, CacheFits
  <2> QED
    BY <2>1, <2>2
<1> HIDE DEF r
<1> QED
  BY <1>2, <1>3, <1>4, <1>5, ReaderMoves

LEMMA StaticServiceKeeps ==
  ASSUME StaticInv, NEW t \in Readers, NEW p \in Paths, StaticService(t, p)
  PROVE  StaticInv'
<1> DEFINE r == [StaticIdle EXCEPT !.at = "lookup", !.path = p, !.now = clock]
<1>1. reader' = [reader EXCEPT ![t] = r] /\ UNCHANGED <<clock, files, left, cached>>
  BY DEF StaticService
<1>2. clock \in Nat
  BY DEF StaticInv, StaticTypes
<1>3. /\ r \in ReaderStates /\ r.at = "lookup" /\ ~ r.hit /\ r.path = p /\ r.now = clock
      /\ r.document = << >>
  BY <1>2, EmptySeq DEF StaticIdle, ReaderStates, FileSuffixes, TypesShown
<1> HIDE DEF r
<1>4. ReaderFits(files, left, clock, r)
  BY <1>2, <1>3 DEF ReaderFits
<1>5. IsCache(cached', StaticEntries) /\ CacheFits'
  BY <1>1 DEF StaticInv, StaticTypes, CacheFits
<1> QED
  BY <1>1, <1>3, <1>4, <1>5, ReaderMoves

(* What time and the files do. *)
LEMMA AroundReaders ==
  ASSUME StaticInv, FilesMove, UNCHANGED <<cached, reader>>, clock' \in Int, clock <= clock'
  PROVE  StaticInv'
<1>1. clock \in Nat /\ StaticTypes'
  BY DEF StaticInv, StaticTypes, FilesMove
<1>2. ASSUME NEW p \in Paths, NEW d \in Seq(Nat), NEW since \in Int, since <= clock,
             HasContents(files, left, p, d, since)
      PROVE  HasContents(files', left', p, d, since)
  <2>1. \A k \in DOMAIN d : d[k] \in Nat
    OBVIOUS
  <2> QED
    BY <1>2, <2>1 DEF FilesMove, HasContents
<1>3. ASSUME NEW i \in DOMAIN cached PROVE EntryFits(files', left', clock', cached[i])
  <2>1. cached[i] \in StaticEntries /\ EntryFits(files, left, clock, cached[i])
    BY DEF StaticInv, StaticTypes, IsCache, CacheFits
  <2> DEFINE e == cached[i]
  <2>2. e.key \in Paths /\ e.document \in Seq(Nat) /\ e.created \in Int
    BY <2>1 DEF StaticEntries
  <2> HIDE DEF e
  <2>3. EntryFits(files, left, clock, e)
    BY <2>1 DEF e
  <2>4. EntryFits(files', left', clock', e)
    BY <1>1, <1>2, <2>2, <2>3 DEF EntryFits
  <2> QED
    BY <2>4 DEF e
<1>4. ASSUME NEW t \in Readers PROVE ReaderFits(files', left', clock', reader[t])
  <2> DEFINE r == reader[t]
  <2>1. r \in ReaderStates /\ ReaderFits(files, left, clock, r)
    BY DEF StaticInv, StaticTypes
  <2>2. r.document \in Seq(Nat) /\ r.now \in Int /\ HitSince(r) \in Int
    <3>1. r.document \in Seq(Nat) /\ r.now \in Nat
      BY <2>1 DEF ReaderStates
    <3> HIDE DEF r
    <3> QED
      BY <3>1, StaticAssumption DEF HitSince
  <2>3. r.at = "reading" => WasVersion(files', left', r.path, files'[r.path].version, r.now)
    BY DEF FilesMove
  <2> HIDE DEF r
  <2>4. ReaderFits(files', left', clock', r)
    BY <1>1, <1>2, <2>1, <2>2, <2>3 DEF ReaderFits
  <2> QED
    BY <2>4 DEF r
<1>5. CacheFits'
  BY <1>3 DEF StaticInv, CacheFits
<1>6. \A t \in Readers : ReaderFits(files', left', clock', reader'[t])
  BY <1>4
<1> QED
  BY <1>1, <1>5, <1>6 DEF StaticInv

LEMMA StaticKept ==
  ASSUME StaticInv, [StaticNext]_staticVars
  PROVE  StaticInv'
<1>1. CASE UNCHANGED staticVars
  BY <1>1 DEF staticVars, StaticInv, StaticTypes, CacheFits
<1>2. CASE StaticTick
  <2>1. UNCHANGED <<files, left, cached, reader>> /\ clock' = clock + 1
    BY <1>2 DEF StaticTick
  <2>2. clock \in Nat /\ clock' \in Nat /\ clock <= clock'
    BY <2>1 DEF StaticInv, StaticTypes
  <2>3. StaticTypes'
    BY <2>1, <2>2 DEF StaticInv, StaticTypes
  <2>4. FilesMove
    BY <2>1, <2>3 DEF FilesMove, StaticInv, ReaderFits
  <2> QED
    BY <2>1, <2>2, <2>4, AroundReaders
<1>3. ASSUME NEW q \in Changing, NEW n \in FileSizes,
             ReplaceFile(q, n) \/ CreateFile(q, n)
      PROVE  StaticInv'
  <2>1. UNCHANGED <<cached, reader, clock>> /\ clock \in Nat
    BY <1>3 DEF ReplaceFile, CreateFile, StaticInv, StaticTypes
  <2>2. q \in Paths
    BY StaticAssumption
  <2>3. FilesMove
    BY <1>3, <2>2, ReplaceFileMoves, CreateFileMoves
  <2> QED
    BY <2>1, <2>3, AroundReaders
<1>5. ASSUME NEW q \in Changing, RemoveFile(q) PROVE StaticInv'
  <2>1. UNCHANGED <<cached, reader, clock>> /\ clock \in Nat
    BY <1>5 DEF RemoveFile, StaticInv, StaticTypes
  <2>2. q \in Paths
    BY StaticAssumption
  <2>3. FilesMove
    BY <1>5, <2>2, RemoveFileMoves
  <2> QED
    BY <2>1, <2>3, AroundReaders
<1>4. ASSUME NEW t \in Readers, FileRead(t) \/ ReadError(t) PROVE StaticInv'
  <2>1. /\ reader[t].at = "reading" /\ Sent(t) /\ UNCHANGED <<clock, files, left>>
        /\ cached' = IF reader[t].keep THEN Insert(cached, NewEntry(t), CacheSize) ELSE cached
    BY <1>4 DEF FileRead, ReadError
  <2> QED
    BY <2>1, StoreKeeps
<1> QED
  BY <1>1, <1>2, <1>3, <1>4, <1>5, StaticServiceKeeps, CacheHitKeeps, CacheMissKeeps, ReadPieceKeeps
  DEF StaticNext

(* The inductive invariant of the threads that serve files from the cache. *)
THEOREM StaticAlways == StaticSpec => []StaticInv
<1>1. StaticInit => StaticInv
  BY StaticStarts
<1>2. StaticInv /\ [StaticNext]_staticVars => StaticInv'
  BY StaticKept
<1> QED
  BY <1>1, <1>2, PTL DEF StaticSpec

(* A hit serves what was in the file less than cacheTime ago, with the     *)
(* type of its path (StaticFileController::service), however the threads   *)
(* that read and store it take turns.                                      *)
THEOREM HitsAreRecentAlways == StaticSpec => []HitsAreRecent
<1>1. StaticInv => HitsAreRecent
  <2> SUFFICES ASSUME StaticInv, NEW t \in Readers, reader[t].hit
               PROVE  /\ reader[t].type = setContentType(SuffixOf(reader[t].path))
                      /\ \A i \in DOMAIN reader[t].document :
                           WasCurrent(reader[t].path, reader[t].document[i],
                                      IF CacheTime = 0 THEN 0 ELSE reader[t].now - CacheTime)
    BY DEF HitsAreRecent
  <2>1. ReaderFits(files, left, clock, reader[t])
    BY DEF StaticInv
  <2> QED
    BY <2>1 DEF ReaderFits, HitSince, HasContents, WasVersion, WasCurrent
<1> QED
  BY <1>1, StaticAlways, PTL

-----------------------------------------------------------------------------
(* The templates: the inductive invariant.                                 *)

TemplateReplacements == [name : TemplateNames, version : Nat, at : Nat]
TemplateEntries ==
  [key : TemplateNames, cost : Nat, id : Nat, document : Nat, created : Nat]
Trials == [name : TemplateNames, document : Nat, now : Nat]
LoaderStates ==
  [at : {"idle", "next", "try", "use", "found", "undefined"}, pending : Seq(TemplateNames),
   tried : Seq(Trials), now : Nat, entry : TemplateEntries \cup {<< >>},
   found : TemplateNames \cup {""}, order : Seq(TemplateNames)]

TemplateTypes ==
  /\ time \in Nat /\ caching \in BOOLEAN
  /\ documents \in [TemplateNames -> Nat]
  /\ replaced \in Seq(TemplateReplacements)
  /\ IsCache(entries, TemplateEntries)
  /\ loader \in [Loaders -> LoaderStates]
  /\ loads \in [calls : Nat, entries : Nat]

(* With the documents d, and those of l that were replaced: the name n had *)
(* the version v at the time `since' or later.                             *)
HadThen(d, l, n, v, since) ==
  \/ d[n] = v
  \/ \E i \in DOMAIN l : l[i].name = n /\ l[i].version = v /\ l[i].at >= since

(* How old the document may be that a loader, with a cache if c, finds. *)
SinceTried(c, now) ==
  IF ~ c THEN now ELSE IF TemplateCacheTime = 0 THEN 0 ELSE now - TemplateCacheTime

(* The names of the order that are not pending any more. *)
Passed(r) == Len(r.order) - Len(r.pending)

SearchFits(r) ==
  /\ Passed(r) \in Nat
  /\ \A j \in 1 .. Len(r.pending) : r.pending[j] = r.order[Passed(r) + j]
  /\ \A j \in 1 .. Passed(r) : \E i \in DOMAIN r.tried : r.tried[i].name = r.order[j]
  /\ r.at \in {"next", "try", "use"} => r.order[Len(r.order)] = Default

TrialsFit(d, l, c, now, r) ==
  /\ \A i \in DOMAIN r.tried :
       /\ SinceTried(c, r.tried[i].now) <= now
       /\ HadThen(d, l, r.tried[i].name, r.tried[i].document, SinceTried(c, r.tried[i].now))
  /\ \A i, j \in DOMAIN r.tried : r.tried[i].name = r.tried[j].name => i = j
  /\ \A i \in DOMAIN r.tried : r.tried[i].document = 0 \/ (r.at = "found" /\ i = Len(r.tried))

PlaceFits(d, l, c, now, r) ==
  /\ r.now <= now
  /\ r.at \in {"try", "use"} =>
       r.pending # << >> /\ \A i \in DOMAIN r.tried : r.tried[i].name # Head(r.pending)
  /\ r.at = "use" =>
       /\ r.entry \in TemplateEntries
       /\ HadThen(d, l, Head(r.pending), r.entry.document, SinceTried(c, r.now))
  /\ r.at = "found" =>
       /\ Passed(r) > 0 /\ r.found = r.order[Passed(r)] /\ Len(r.tried) > 0
       /\ r.tried[Len(r.tried)].name = r.found
       /\ r.tried[Len(r.tried)].document # 0 \/ r.found = Default

LoaderFits(d, l, c, now, r) ==
  SearchFits(r) /\ TrialsFit(d, l, c, now, r) /\ PlaceFits(d, l, c, now, r)

EntriesFit(d, l, now, es) ==
  \A i \in DOMAIN es :
    es[i].created <= now /\ HadThen(d, l, es[i].key, es[i].document, es[i].created)

TemplateInv ==
  /\ TemplateTypes /\ OnePerKey(entries)
  /\ EntriesFit(documents, replaced, time, entries)
  /\ \A t \in Loaders : LoaderFits(documents, replaced, caching, time, loader[t])

LEMMA PassedIs ==
  ASSUME NEW r, Len(r.order) \in Nat, Len(r.pending) \in Nat
  PROVE  Passed(r) <= Len(r.order)
<1> DEFINE a == Len(r.order)
           b == Len(r.pending)
<1>1. a \in Nat /\ b \in Nat /\ Passed(r) = a - b
  BY DEF Passed
<1> HIDE DEF a, b
<1>2. a - b <= a
  BY <1>1
<1> QED
  BY <1>1, <1>2 DEF a

LEMMA SinceIs ==
  ASSUME TemplateCacheTime >= 0, NEW c \in BOOLEAN, NEW now \in Nat
  PROVE  SinceTried(c, now) \in Int /\ SinceTried(c, now) <= now
BY TemplateAssumption DEF SinceTried

LEMMA HadEarlier ==
  ASSUME TemplateTypes, NEW n, NEW v, NEW since \in Int, NEW sooner \in Int, sooner <= since,
         HadThen(documents, replaced, n, v, since)
  PROVE  HadThen(documents, replaced, n, v, sooner)
<1>1. replaced \in Seq(TemplateReplacements) /\ DOMAIN replaced = 1 .. Len(replaced)
  BY DEF TemplateTypes
<1>2. \A i \in DOMAIN replaced : replaced[i] \in TemplateReplacements
  BY <1>1
<1>3. \A i \in DOMAIN replaced : replaced[i].at \in Nat
  BY <1>2 DEF TemplateReplacements
<1>4. \A i \in DOMAIN replaced : replaced[i].at >= since => replaced[i].at >= sooner
  BY <1>3
<1> QED
  BY <1>4 DEF HadThen

(* Nothing that was there is forgotten. *)
LEMMA DocumentsStay ==
  ASSUME TemplateTypes, NEW q \in TemplateNames, EditTemplate(q)
  PROVE  /\ TemplateTypes'
         /\ \A n \in TemplateNames, v \in Nat, since \in Int :
              since <= time /\ HadThen(documents, replaced, n, v, since)
                => HadThen(documents', replaced', n, v, since)
<1> DEFINE x == [name |-> q, version |-> documents[q], at |-> time]
<1>1. PICK version \in {0, Len(replaced) + 2} :
        documents' = [documents EXCEPT ![q] = version]
  BY DEF EditTemplate
<1>2. replaced' = Append(replaced, x) /\ UNCHANGED <<time, caching, entries, loader, loads>>
  BY DEF EditTemplate
<1>3. /\ documents \in [TemplateNames -> Nat] /\ time \in Nat
      /\ replaced \in Seq(TemplateReplacements)
  BY DEF TemplateTypes
<1>4. x \in TemplateReplacements
  BY <1>3 DEF TemplateReplacements
<1>5. x.name = q /\ x.version = documents[q] /\ x.at = time
  OBVIOUS
<1> HIDE DEF x
<1>6. /\ replaced' \in Seq(TemplateReplacements)
      /\ Len(replaced') = Len(replaced) + 1 /\ Len(replaced) \in Nat
      /\ replaced'[Len(replaced) + 1] = x
      /\ \A i \in 1 .. Len(replaced) : replaced'[i] = replaced[i]
  BY <1>2, <1>3, <1>4, AppendProperties
<1>7. DOMAIN replaced = 1 .. Len(replaced) /\ DOMAIN replaced' = 1 .. Len(replaced) + 1
  BY <1>3, <1>6
<1>8. TemplateTypes'
  <2>1. documents' \in [TemplateNames -> Nat]
    BY <1>1, <1>3, <1>6
  <2> QED
    BY <1>2, <1>6, <2>1 DEF TemplateTypes
<1>9. ASSUME NEW n \in TemplateNames, NEW v \in Nat, NEW since \in Int, since <= time,
             HadThen(documents, replaced, n, v, since)
      PROVE  HadThen(documents', replaced', n, v, since)
  <2>1. CASE documents[n] = v /\ n # q
    BY <1>1, <1>3, <2>1 DEF HadThen
  <2>2. CASE documents[n] = v /\ n = q
    <3>1. Len(replaced) + 1 \in DOMAIN replaced' /\ x.at >= since
      BY <1>3, <1>5, <1>6, <1>7, <1>9
    <3> QED
      BY <1>5, <1>6, <2>2, <3>1 DEF HadThen
  <2>3. CASE \E i \in DOMAIN replaced :
               /\ replaced[i].name = n /\ replaced[i].version = v
               /\ replaced[i].at >= since
    <3>1. PICK i \in DOMAIN replaced :
            replaced[i].name = n /\ replaced[i].version = v /\ replaced[i].at >= since
      BY <2>3
    <3>2. i \in DOMAIN replaced' /\ replaced'[i] = replaced[i]
      BY <1>6, <1>7
    <3> QED
      BY <3>1, <3>2 DEF HadThen
  <2> QED
    BY <1>9, <2>1, <2>2, <2>3 DEF HadThen
<1> QED
  BY <1>8, <1>9

LEMMA IdleFits ==
  ASSUME NEW r, r = TemplateIdle \/ r = [TemplateIdle EXCEPT !.at = "undefined"],
         NEW d, NEW l, NEW c, NEW now \in Nat
  PROVE  r \in LoaderStates /\ LoaderFits(d, l, c, now, r)
<1>1. /\ r \in LoaderStates /\ r.at \in {"idle", "undefined"}
      /\ r.order = << >> /\ r.pending = << >> /\ r.tried = << >> /\ r.now = 0
  <2>1. CASE r = TemplateIdle
    BY <2>1, EmptySeq DEF TemplateIdle, LoaderStates
  <2>2. CASE r = [TemplateIdle EXCEPT !.at = "undefined"]
    BY <2>2, EmptySeq DEF TemplateIdle, LoaderStates
  <2> QED
    BY <2>1, <2>2
<1>2. Len(r.order) = 0 /\ Len(r.pending) = 0 /\ DOMAIN r.tried = {} /\ Passed(r) = 0
  BY <1>1, EmptySeq DEF Passed
<1>3. SearchFits(r)
  BY <1>1, <1>2 DEF SearchFits
<1>4. TrialsFit(d, l, c, now, r)
  BY <1>2 DEF TrialsFit
<1>5. PlaceFits(d, l, c, now, r)
  BY <1>1 DEF PlaceFits
<1> QED
  BY <1>1, <1>3, <1>4, <1>5 DEF LoaderFits

LEMMA TemplateStarts == TemplateInit => TemplateInv
<1> SUFFICES ASSUME TemplateInit PROVE TemplateInv
  OBVIOUS
<1>1. /\ time = 1 /\ caching \in BOOLEAN /\ replaced = << >> /\ entries = << >>
      /\ documents = [n \in TemplateNames |-> IF n \in FirstTemplates THEN 1 ELSE 0]
      /\ loader = [t \in Loaders |-> TemplateIdle]
      /\ loads = [calls |-> 0, entries |-> 0]
  BY DEF TemplateInit
<1>3. TemplateIdle \in LoaderStates /\ LoaderFits(documents, replaced, caching, time, TemplateIdle)
  BY <1>1, IdleFits
<1>4. /\ IsCache(entries, TemplateEntries) /\ OnePerKey(entries)
      /\ replaced \in Seq(TemplateReplacements) /\ DOMAIN entries = {}
  BY <1>1, EmptySeq DEF IsCache, OnePerKey, TemplateEntries
<1>5. TemplateTypes
  BY <1>1, <1>3, <1>4 DEF TemplateTypes
<1>6. \A t \in Loaders : LoaderFits(documents, replaced, caching, time, loader[t])
  BY <1>1, <1>3
<1> QED
  BY <1>4, <1>5, <1>6 DEF TemplateInv, EntriesFit

(* Only the loader t moves. *)
LEMMA LoaderMoves ==
  ASSUME TemplateInv, NEW t \in Loaders, NEW r \in LoaderStates,
         UNCHANGED <<time, caching, documents, replaced>>,
         loader' = [loader EXCEPT ![t] = r],
         LoaderFits(documents, replaced, caching, time, r),
         loads' \in [calls : Nat, entries : Nat],
         IsCache(entries', TemplateEntries), OnePerKey(entries'),
         EntriesFit(documents, replaced, time, entries')
  PROVE  TemplateInv'
<1>1. TemplateTypes'
  BY DEF TemplateInv, TemplateTypes
<1>2. \A u \in Loaders : LoaderFits(documents', replaced', caching', time', loader'[u])
  BY DEF TemplateInv, TemplateTypes
<1> QED
  BY <1>1, <1>2 DEF TemplateInv

LEMMA SearchOrderIs ==
  ASSUME NEW locales \in Locales
  PROVE  LET o == SearchOrder(locales) IN
         o \in Seq(TemplateNames) /\ Len(o) > 0 /\ o[Len(o)] = Default
<1> DEFINE exact == [i \in DOMAIN locales |-> locales[i].exact]
           language == [i \in DOMAIN locales |-> locales[i].language]
<1>1. locales \in Seq([exact : TemplateNames, language : TemplateNames])
  BY TemplateAssumption
<1>2. DOMAIN locales = 1 .. Len(locales) /\ Len(locales) \in Nat
  BY <1>1
<1>3. \A i \in 1 .. Len(locales) :
        locales[i].exact \in TemplateNames /\ locales[i].language \in TemplateNames
  <2> DEFINE S == [exact : TemplateNames, language : TemplateNames]
  <2>1. \A x \in S : x.exact \in TemplateNames /\ x.language \in TemplateNames
    OBVIOUS
  <2>2. locales \in Seq(S)
    BY <1>1
  <2> HIDE DEF S, exact, language
  <2>3. \A i \in 1 .. Len(locales) : locales[i] \in S
    BY <1>2, <2>2
  <2> QED
    BY <2>1, <2>3
<1>4. exact \in Seq(TemplateNames) /\ language \in Seq(TemplateNames)
  BY <1>2, <1>3, IsASeq
<1>5. <<Default>> \in Seq(TemplateNames) /\ Len(<<Default>>) = 1 /\ <<Default>>[1] = Default
  BY TemplateAssumption
<1> DEFINE both == exact \o language
<1> HIDE DEF exact, language
<1>6. both \in Seq(TemplateNames) /\ Len(both) \in Nat
  BY <1>4, ConcatProperties
<1>7. SearchOrder(locales) = both \o <<Default>>
  BY DEF SearchOrder, exact, language
<1> HIDE DEF both
<1> DEFINE o == both \o <<Default>>
<1>8. o \in Seq(TemplateNames) /\ Len(o) = Len(both) + 1
  BY <1>5, <1>6, ConcatProperties
<1>9. o[Len(both) + 1] = Default
  BY <1>5, <1>6, ConcatProperties
<1> HIDE DEF o
<1> QED
  BY <1>6, <1>7, <1>8, <1>9 DEF o

LEMMA GetTemplateKeeps ==
  ASSUME TemplateInv, NEW t \in Loaders, NEW locales \in Locales, GetTemplate(t, locales)
  PROVE  TemplateInv'
<1> DEFINE o == SearchOrder(locales)
           r == [TemplateIdle EXCEPT !.at = "next", !.pending = o, !.order = o]
<1>1. /\ loader' = [loader EXCEPT ![t] = r]
      /\ UNCHANGED <<time, caching, documents, replaced, entries>>
      /\ loads' = [loads EXCEPT !.calls = @ + 1]
  BY DEF GetTemplate
<1>2. o \in Seq(TemplateNames) /\ Len(o) \in Nat /\ Len(o) > 0 /\ o[Len(o)] = Default
  BY SearchOrderIs
<1> HIDE DEF o
<1>3. time \in Nat /\ loads' \in [calls : Nat, entries : Nat]
  BY <1>1 DEF TemplateInv, TemplateTypes
<1>4. r \in LoaderStates
  BY <1>2, EmptySeq DEF TemplateIdle, LoaderStates
<1>5. r.at = "next" /\ r.pending = o /\ r.order = o /\ r.tried = << >> /\ r.now = 0
  BY DEF TemplateIdle
<1> HIDE DEF r
<1>6. Passed(r) = 0 /\ DOMAIN r.tried = {}
  BY <1>2, <1>5, EmptySeq DEF Passed
<1>7. SearchFits(r)
  BY <1>2, <1>5, <1>6 DEF SearchFits
<1>8. TrialsFit(documents, replaced, caching, time, r)
  BY <1>6 DEF TrialsFit
<1>9. PlaceFits(documents, replaced, caching, time, r)
  BY <1>3, <1>5 DEF PlaceFits
<1>10. /\ IsCache(entries', TemplateEntries) /\ OnePerKey(entries')
       /\ EntriesFit(documents, replaced, time, entries')
  BY <1>1 DEF TemplateInv, TemplateTypes
<1> QED
  BY <1>1, <1>3, <1>4, <1>7, <1>8, <1>9, <1>10, LoaderMoves DEF LoaderFits

(* The names that are still pending after the first one. *)
LEMMA TailIs ==
  ASSUME NEW S, NEW s \in Seq(S), s # << >>
  PROVE  /\ Tail(s) \in Seq(S) /\ Len(s) \in Nat /\ Len(s) > 0 /\ Len(Tail(s)) = Len(s) - 1
         /\ \A j \in 1 .. Len(s) - 1 : Tail(s)[j] = s[j + 1]
         /\ Head(s) = s[1] /\ Head(s) \in S
OBVIOUS

LEMMA NextNameKeeps ==
  ASSUME TemplateInv, NEW t \in Loaders, NextName(t)
  PROVE  TemplateInv'
<1> DEFINE o == loader[t]
           skipped == [o EXCEPT !.pending = Tail(@)]
           begun == [o EXCEPT !.at = "try", !.now = time]
<1>1. /\ o.at = "next" /\ o.pending # << >>
      /\ WasTried(t, Head(o.pending)) => loader' = [loader EXCEPT ![t] = skipped]
      /\ ~ WasTried(t, Head(o.pending)) => loader' = [loader EXCEPT ![t] = begun]
      /\ UNCHANGED <<time, caching, documents, replaced, entries, loads>>
  <2>1. loader \in [Loaders -> LoaderStates] /\ o \in LoaderStates
    BY DEF TemplateInv, TemplateTypes
  <2>2. WasTried(t, Head(o.pending)) => loader' = [loader EXCEPT ![t].pending = Tail(@)]
    BY DEF NextName
  <2>3. WasTried(t, Head(o.pending)) => loader' = [loader EXCEPT ![t] = skipped]
    BY <2>1, <2>2
  <2>4. ~ WasTried(t, Head(o.pending)) =>
          loader' = [loader EXCEPT ![t].at = "try", ![t].now = time]
    BY DEF NextName
  <2>5. ~ WasTried(t, Head(o.pending)) => loader' = [loader EXCEPT ![t] = begun]
    BY <2>1, <2>4
  <2> QED
    BY <2>3, <2>5 DEF NextName
<1>2. o \in LoaderStates /\ LoaderFits(documents, replaced, caching, time, o) /\ time \in Nat
  BY DEF TemplateInv, TemplateTypes
<1>3. WasTried(t, Head(o.pending)) <=> \E i \in DOMAIN o.tried : o.tried[i].name = Head(o.pending)
  BY DEF WasTried
<1>4. /\ IsCache(entries', TemplateEntries) /\ OnePerKey(entries')
      /\ EntriesFit(documents, replaced, time, entries')
      /\ loads' \in [calls : Nat, entries : Nat]
  BY <1>1 DEF TemplateInv, TemplateTypes
<1>5. o.pending \in Seq(TemplateNames) /\ o.order \in Seq(TemplateNames)
  BY <1>2 DEF LoaderStates
<1> HIDE DEF o
<1>6. CASE WasTried(t, Head(o.pending))
  <2>1. /\ Tail(o.pending) \in Seq(TemplateNames) /\ Len(o.pending) \in Nat
        /\ Len(o.pending) > 0 /\ Len(Tail(o.pending)) = Len(o.pending) - 1
        /\ \A j \in 1 .. Len(o.pending) - 1 : Tail(o.pending)[j] = o.pending[j + 1]
        /\ Head(o.pending) = o.pending[1]
    BY <1>1, <1>5, TailIs
  <2>2. skipped \in LoaderStates
    BY <1>2, <2>1 DEF LoaderStates
  <2>3. /\ skipped.at = "next" /\ skipped.pending = Tail(o.pending)
        /\ skipped.order = o.order /\ skipped.tried = o.tried /\ skipped.now = o.now
    BY <1>1, <1>2 DEF LoaderStates
  <2>4. loader' = [loader EXCEPT ![t] = skipped]
    BY <1>1, <1>6
  <2> HIDE DEF skipped
  <2>5. Len(o.order) \in Nat /\ Passed(o) \in Nat /\ Passed(skipped) = Passed(o) + 1
    <3>1. Len(o.order) \in Nat /\ Passed(o) \in Nat
      BY <1>2, <1>5 DEF LoaderFits, SearchFits
    <3>2. Len(skipped.order) = Len(o.order) /\ Len(skipped.pending) = Len(o.pending) - 1
      BY <2>1, <2>3
    <3> QED
      BY <2>1, <3>1, <3>2 DEF Passed
  <2>6. o.pending[1] = o.order[Passed(o) + 1]
    BY <1>2, <2>1 DEF LoaderFits, SearchFits
  <2>7. SearchFits(skipped)
    <3>1. ASSUME NEW j \in 1 .. Len(skipped.pending)
          PROVE  skipped.pending[j] = skipped.order[Passed(skipped) + j]
      <4>1. j \in Nat /\ j \in 1 .. Len(o.pending) - 1 /\ j + 1 \in 1 .. Len(o.pending)
        BY <2>1, <2>3
      <4>2. skipped.pending[j] = o.pending[j + 1]
        BY <2>1, <2>3, <4>1
      <4>3. o.pending[j + 1] = o.order[Passed(o) + (j + 1)]
        BY <1>2, <4>1 DEF LoaderFits, SearchFits
      <4>4. Passed(o) + (j + 1) = Passed(skipped) + j
        BY <2>5, <4>1
      <4> QED
        BY <2>3, <4>2, <4>3, <4>4
    <3>2. ASSUME NEW j \in 1 .. Passed(skipped)
          PROVE  \E i \in DOMAIN skipped.tried : skipped.tried[i].name = skipped.order[j]
      <4>1. j \in 1 .. Passed(o) \/ j = Passed(o) + 1
        BY <2>5
      <4>2. CASE j \in 1 .. Passed(o)
        BY <1>2, <2>3, <4>2 DEF LoaderFits, SearchFits
      <4>3. CASE j = Passed(o) + 1
        BY <1>3, <1>6, <2>1, <2>3, <2>6, <4>3
      <4> QED
        BY <4>1, <4>2, <4>3
    <3>3. skipped.order[Len(skipped.order)] = Default
      BY <1>1, <1>2, <2>3 DEF LoaderFits, SearchFits
    <3> QED
      BY <2>5, <3>1, <3>2, <3>3 DEF SearchFits
  <2>8. TrialsFit(documents, replaced, caching, time, skipped)
    BY <1>1, <1>2, <2>3 DEF LoaderFits, TrialsFit
  <2>9. PlaceFits(documents, replaced, caching, time, skipped)
    BY <1>2, <2>3 DEF LoaderFits, PlaceFits
  <2> QED
    BY <1>1, <1>4, <2>2, <2>4, <2>7, <2>8, <2>9, LoaderMoves DEF LoaderFits
<1>7. CASE ~ WasTried(t, Head(o.pending))
  <2>1. begun \in LoaderStates
    BY <1>2 DEF LoaderStates
  <2>2. /\ begun.at = "try" /\ begun.pending = o.pending /\ begun.order = o.order
        /\ begun.tried = o.tried /\ begun.now = time
    BY <1>2 DEF LoaderStates
  <2>3. loader' = [loader EXCEPT ![t] = begun]
    BY <1>1, <1>7
  <2> HIDE DEF begun
  <2>4. Passed(begun) = Passed(o)
    BY <2>2 DEF Passed
  <2>5. SearchFits(begun)
    BY <1>1, <1>2, <2>2, <2>4 DEF LoaderFits, SearchFits
  <2>6. TrialsFit(documents, replaced, caching, time, begun)
    BY <1>1, <1>2, <2>2 DEF LoaderFits, TrialsFit
  <2>7. PlaceFits(documents, replaced, caching, time, begun)
    BY <1>1, <1>2, <1>3, <1>7, <2>2 DEF PlaceFits
  <2> QED
    BY <1>1, <1>4, <2>1, <2>3, <2>5, <2>6, <2>7, LoaderMoves DEF LoaderFits
<1> QED
  BY <1>6, <1>7

(* A name is tried, with the document v. *)
LEMMA TriedIs ==
  ASSUME TemplateInv, TemplateCacheTime >= 0, NEW t \in Loaders, NEW v \in Nat,
         loader[t].at \in {"try", "use"},
         HadThen(documents, replaced, Head(loader[t].pending), v,
                 SinceTried(caching, loader[t].now))
  PROVE  /\ Tried(t, v) \in LoaderStates
         /\ LoaderFits(documents, replaced, caching, time, Tried(t, v))
<1> DEFINE o == loader[t]
           name == Head(o.pending)
           n == Len(o.tried)
           x == [name |-> name, document |-> v, now |-> o.now]
           done == v # 0 \/ Len(o.pending) = 1
           r == Tried(t, v)
<1>1. o \in LoaderStates /\ LoaderFits(documents, replaced, caching, time, o) /\ time \in Nat
  BY DEF TemplateInv, TemplateTypes
<1>2. r = [o EXCEPT !.pending = Tail(@), !.entry = << >>, !.tried = Append(@, x),
                    !.at = IF done THEN "found" ELSE "next", !.found = IF done THEN name ELSE ""]
  BY DEF Tried
<1>3. /\ o.pending \in Seq(TemplateNames) /\ o.order \in Seq(TemplateNames)
      /\ o.tried \in Seq(Trials) /\ o.now \in Nat
  BY <1>1 DEF LoaderStates
<1>4. /\ o.at \in {"try", "use"} /\ o.pending # << >> /\ o.now <= time
      /\ \A i \in DOMAIN o.tried : o.tried[i].name # name
      /\ HadThen(documents, replaced, name, v, SinceTried(caching, o.now))
      /\ caching \in BOOLEAN
  BY <1>1 DEF LoaderFits, PlaceFits, TemplateInv, TemplateTypes
<1> HIDE DEF o, r
<1>5. /\ Tail(o.pending) \in Seq(TemplateNames) /\ Len(o.pending) \in Nat
      /\ Len(o.pending) > 0 /\ Len(Tail(o.pending)) = Len(o.pending) - 1
      /\ \A j \in 1 .. Len(o.pending) - 1 : Tail(o.pending)[j] = o.pending[j + 1]
      /\ name = o.pending[1] /\ name \in TemplateNames
  BY <1>3, <1>4, TailIs
<1> HIDE DEF name
<1>6. x \in Trials /\ x.name = name /\ x.document = v /\ x.now = o.now
  BY <1>3, <1>5 DEF Trials
<1> HIDE DEF x
<1> DEFINE tried == Append(o.tried, x)
<1>7. /\ tried \in Seq(Trials) /\ n \in Nat /\ Len(tried) = n + 1 /\ tried[n + 1] = x
      /\ \A i \in 1 .. n : tried[i] = o.tried[i]
  BY <1>3, <1>6, AppendProperties
<1>8. DOMAIN tried = 1 .. n + 1 /\ DOMAIN o.tried = 1 .. n
  BY <1>3, <1>7
<1> HIDE DEF tried, n
<1>9. /\ r.pending = Tail(o.pending) /\ r.tried = tried /\ r.order = o.order /\ r.now = o.now
      /\ r.at = (IF done THEN "found" ELSE "next") /\ r.found = (IF done THEN name ELSE "")
      /\ r \in LoaderStates
  <2> DEFINE to == IF done THEN "found" ELSE "next"
             found == IF done THEN name ELSE ""
  <2>1. to \in {"found", "next"} /\ found \in TemplateNames \cup {""}
    BY <1>5
  <2>2. r = [o EXCEPT !.pending = Tail(o.pending), !.entry = << >>, !.tried = tried,
                      !.at = to, !.found = found]
    BY <1>2 DEF tried
  <2> HIDE DEF to, found
  <2>3. /\ r.pending = Tail(o.pending) /\ r.tried = tried /\ r.order = o.order
        /\ r.now = o.now /\ r.at = to /\ r.found = found /\ r \in LoaderStates
    BY <1>1, <1>5, <1>7, <2>1, <2>2 DEF LoaderStates
  <2> QED
    BY <2>3 DEF to, found
<1>10. Len(o.order) \in Nat /\ Passed(o) \in Nat /\ Passed(r) = Passed(o) + 1
  <2>1. Len(o.order) \in Nat /\ Passed(o) \in Nat
    BY <1>1, <1>3 DEF LoaderFits, SearchFits
  <2>2. Len(r.order) = Len(o.order) /\ Len(r.pending) = Len(o.pending) - 1
    BY <1>5, <1>9
  <2> QED
    BY <1>5, <2>1, <2>2 DEF Passed
<1>10a. /\ r.order = o.order /\ r.tried = tried /\ Len(r.tried) = n + 1
       /\ DOMAIN r.tried = 1 .. n + 1 /\ r.pending = Tail(o.pending)
       /\ Len(r.pending) = Len(o.pending) - 1
  BY <1>5, <1>7, <1>8, <1>9
<1>11. name = o.order[Passed(o) + 1]
  BY <1>1, <1>5 DEF LoaderFits, SearchFits
<1>12. o.order[Len(o.order)] = Default
  BY <1>1, <1>4 DEF LoaderFits, SearchFits
<1>13. SearchFits(r)
  <2>1. ASSUME NEW j \in 1 .. Len(r.pending)
        PROVE  r.pending[j] = r.order[Passed(r) + j]
    <3>1. j \in Nat /\ j \in 1 .. Len(o.pending) - 1 /\ j + 1 \in 1 .. Len(o.pending)
      BY <1>5, <1>10a
    <3>2. r.pending[j] = o.pending[j + 1]
      BY <1>5, <1>10a, <3>1
    <3>3. o.pending[j + 1] = o.order[Passed(o) + (j + 1)]
      BY <1>1, <3>1 DEF LoaderFits, SearchFits
    <3>4. Passed(o) + (j + 1) = Passed(r) + j
      BY <1>10, <3>1
    <3> QED
      BY <1>9, <3>2, <3>3, <3>4
  <2>2. ASSUME NEW j \in 1 .. Passed(r)
        PROVE  \E i \in DOMAIN r.tried : r.tried[i].name = r.order[j]
    <3>1. j \in 1 .. Passed(o) \/ j = Passed(o) + 1
      BY <1>10
    <3>2. CASE j \in 1 .. Passed(o)
      <4>1. PICK i \in DOMAIN o.tried : o.tried[i].name = o.order[j]
        BY <1>1, <3>2 DEF LoaderFits, SearchFits
      <4>2. i \in DOMAIN tried /\ tried[i] = o.tried[i]
        BY <1>7, <1>8
      <4> QED
        BY <1>9, <4>1, <4>2
    <3>3. CASE j = Passed(o) + 1
      <4>1. n + 1 \in DOMAIN tried /\ tried[n + 1].name = o.order[j]
        BY <1>6, <1>7, <1>8, <1>11, <3>3
      <4> QED
        BY <1>9, <4>1
    <3> QED
      BY <3>1, <3>2, <3>3
  <2>3. Passed(r) \in Nat /\ r.order[Len(r.order)] = Default
    BY <1>10, <1>12, <1>10a
  <2> QED
    BY <2>1, <2>2, <2>3 DEF SearchFits
<1>14. TrialsFit(documents, replaced, caching, time, r)
  <2>1. SinceTried(caching, o.now) \in Int /\ SinceTried(caching, o.now) <= time
    BY <1>1, <1>3, <1>4, SinceIs
  <2>2. ASSUME NEW i \in DOMAIN r.tried
        PROVE  (i \in 1 .. n /\ i \in DOMAIN o.tried /\ r.tried[i] = o.tried[i])
                 \/ (i = n + 1 /\ r.tried[i] = x)
    BY <1>7, <1>8, <1>10a
  <2>3. ASSUME NEW i \in DOMAIN r.tried
        PROVE  /\ SinceTried(caching, r.tried[i].now) <= time
               /\ HadThen(documents, replaced, r.tried[i].name, r.tried[i].document,
                          SinceTried(caching, r.tried[i].now))
    BY <1>1, <1>4, <1>6, <2>1, <2>2 DEF LoaderFits, TrialsFit
  <2>4. ASSUME NEW i \in DOMAIN r.tried, NEW j \in DOMAIN r.tried,
               r.tried[i].name = r.tried[j].name
        PROVE  i = j
    BY <1>1, <1>4, <1>6, <2>2, <2>4 DEF LoaderFits, TrialsFit
  <2>5. ASSUME NEW i \in DOMAIN r.tried
        PROVE  r.tried[i].document = 0 \/ (r.at = "found" /\ i = Len(r.tried))
    <3>1. CASE i \in 1 .. n /\ i \in DOMAIN o.tried /\ r.tried[i] = o.tried[i]
      BY <1>1, <1>4, <3>1 DEF LoaderFits, TrialsFit
    <3>2. CASE i = n + 1 /\ r.tried[i] = x
      BY <1>6, <1>7, <1>9, <3>2
    <3> QED
      BY <2>2, <3>1, <3>2
  <2> QED
    BY <2>3, <2>4, <2>5 DEF TrialsFit
<1>15. PlaceFits(documents, replaced, caching, time, r)
  <2>1. r.at \in {"found", "next"} /\ r.now <= time
    BY <1>4, <1>9
  <2>2. ASSUME r.at = "found"
        PROVE  /\ Passed(r) > 0 /\ r.found = r.order[Passed(r)] /\ Len(r.tried) > 0
               /\ r.tried[Len(r.tried)].name = r.found
               /\ r.tried[Len(r.tried)].document # 0 \/ r.found = Default
    <3>1. done /\ r.found = name
      BY <1>9, <2>2
    <3>2. Passed(r) > 0 /\ r.found = r.order[Passed(r)]
      BY <1>10, <1>11, <1>10a, <3>1
    <3>3. Len(r.tried) = n + 1 /\ r.tried[n + 1] = x
      BY <1>7, <1>10a
    <3>4. Len(o.pending) = 1 => name = Default
      BY <1>10, <1>11, <1>12 DEF Passed
    <3> QED
      BY <1>6, <1>7, <3>1, <3>2, <3>3, <3>4
  <2> QED
    BY <2>1, <2>2 DEF PlaceFits
<1> QED
  BY <1>9, <1>13, <1>14, <1>15 DEF LoaderFits, r

LEMMA TrialKeeps ==
  ASSUME TemplateInv, TemplateCacheTime >= 0, NEW t \in Loaders, TryFile(t) \/ UseEntry(t)
  PROVE  TemplateInv'
<1>1. UNCHANGED <<time, caching, documents, replaced, entries, loads>>
  BY DEF TryFile, UseEntry
<1>2. PICK v \in Nat :
        /\ loader[t].at \in {"try", "use"}
        /\ HadThen(documents, replaced, Head(loader[t].pending), v,
                   SinceTried(caching, loader[t].now))
        /\ loader' = [loader EXCEPT ![t] = Tried(t, v)]
  <2> DEFINE o == loader[t]
  <2>1. /\ o \in LoaderStates /\ LoaderFits(documents, replaced, caching, time, o)
        /\ documents \in [TemplateNames -> Nat]
    BY DEF TemplateInv, TemplateTypes
  <2>2. CASE TryFile(t)
    <3>1. o.at = "try" /\ loader' = [loader EXCEPT ![t] = Tried(t, documents[Head(o.pending)])]
      BY <2>2 DEF TryFile, TemplateInv, TemplateTypes
    <3>2. o.pending \in Seq(TemplateNames) /\ o.pending # << >>
      BY <2>1, <3>1 DEF LoaderStates, LoaderFits, PlaceFits
    <3>3. Head(o.pending) \in TemplateNames
      BY <3>2, TailIs
    <3> QED
      BY <2>1, <3>1, <3>3 DEF HadThen
  <2>3. CASE UseEntry(t)
    <3>1. o.at = "use" /\ loader' = [loader EXCEPT ![t] = Tried(t, o.entry.document)]
      BY <2>3 DEF UseEntry, TemplateInv, TemplateTypes
    <3>2. /\ o.entry \in TemplateEntries
          /\ HadThen(documents, replaced, Head(o.pending), o.entry.document,
                     SinceTried(caching, o.now))
      BY <2>1, <3>1 DEF LoaderFits, PlaceFits
    <3>3. o.entry.document \in Nat
      BY <3>2 DEF TemplateEntries
    <3> QED
      BY <3>1, <3>2, <3>3
  <2> QED
    BY <2>2, <2>3
<1>3. /\ Tried(t, v) \in LoaderStates
      /\ LoaderFits(documents, replaced, caching, time, Tried(t, v))
  BY <1>2, TriedIs
<1>4. /\ IsCache(entries', TemplateEntries) /\ OnePerKey(entries')
      /\ EntriesFit(documents, replaced, time, entries')
      /\ loads' \in [calls : Nat, entries : Nat]
  BY <1>1 DEF TemplateInv, TemplateTypes
<1> QED
  BY <1>1, <1>2, <1>3, <1>4, LoaderMoves

(* The loader t has got the entry e, and unlocks the mutex. *)
LEMMA EntryTaken ==
  ASSUME TemplateInv, NEW t \in Loaders, NEW e \in TemplateEntries,
         loader[t].at = "try",
         HadThen(documents, replaced, Head(loader[t].pending), e.document,
                 SinceTried(caching, loader[t].now))
  PROVE  LET r == [loader[t] EXCEPT !.at = "use", !.entry = e] IN
         r \in LoaderStates /\ LoaderFits(documents, replaced, caching, time, r)
<1> DEFINE o == loader[t]
           r == [o EXCEPT !.at = "use", !.entry = e]
<1>1. /\ o \in LoaderStates /\ LoaderFits(documents, replaced, caching, time, o) /\ o.at = "try"
      /\ HadThen(documents, replaced, Head(o.pending), e.document, SinceTried(caching, o.now))
  BY DEF TemplateInv, TemplateTypes
<1> HIDE DEF o
<1>2. r \in LoaderStates
  BY <1>1 DEF LoaderStates
<1>3. /\ r.at = "use" /\ r.pending = o.pending /\ r.order = o.order /\ r.tried = o.tried
      /\ r.now = o.now /\ r.entry = e
  BY <1>1 DEF LoaderStates
<1> HIDE DEF r
<1>4. Passed(r) = Passed(o)
  BY <1>3 DEF Passed
<1>5. SearchFits(r)
  BY <1>1, <1>3, <1>4 DEF LoaderFits, SearchFits
<1>6. TrialsFit(documents, replaced, caching, time, r)
  BY <1>1, <1>3 DEF LoaderFits, TrialsFit
<1>7. PlaceFits(documents, replaced, caching, time, r)
  BY <1>1, <1>3 DEF LoaderFits, PlaceFits
<1> QED
  BY <1>2, <1>5, <1>6, <1>7 DEF LoaderFits, o, r

LEMMA TryCachedFileKeeps ==
  ASSUME TemplateInv, TemplateCacheTime >= 0, NEW t \in Loaders, TryCachedFile(t)
  PROVE  TemplateInv'
<1> DEFINE o == loader[t]
           name == Head(o.pending)
           fresh == {e \in EntriesOf(entries, name) : FreshTemplate(e, o.now)}
           read == [key |-> name, cost |-> IF documents[name] = 0 THEN 0 ELSE Sizes[name],
                    id |-> loads.entries + 1, document |-> documents[name],
                    created |-> o.now]
<1>1. o.at = "try" /\ caching /\ UNCHANGED <<time, caching, documents, replaced>>
  BY DEF TryCachedFile
<1>2. /\ o \in LoaderStates /\ LoaderFits(documents, replaced, caching, time, o)
      /\ documents \in [TemplateNames -> Nat] /\ time \in Nat
      /\ loads \in [calls : Nat, entries : Nat]
      /\ IsCache(entries, TemplateEntries) /\ OnePerKey(entries)
      /\ EntriesFit(documents, replaced, time, entries)
  BY DEF TemplateInv, TemplateTypes
<1>3. o.pending \in Seq(TemplateNames) /\ o.pending # << >> /\ o.now \in Nat /\ o.now <= time
  BY <1>1, <1>2 DEF LoaderStates, LoaderFits, PlaceFits
<1>4. name \in TemplateNames
  BY <1>3, TailIs
<1>5. CASE \E e \in fresh :
             /\ loader' = [loader EXCEPT ![t].at = "use", ![t].entry = e]
             /\ entries' = Used(entries, name) /\ UNCHANGED loads
  <2>1. PICK e \in EntriesOf(entries, name) :
          /\ FreshTemplate(e, o.now)
          /\ loader' = [loader EXCEPT ![t].at = "use", ![t].entry = e]
          /\ entries' = Used(entries, name) /\ UNCHANGED loads
    BY <1>5
  <2>2. loader' = [loader EXCEPT ![t] = [loader[t] EXCEPT !.at = "use", !.entry = e]]
    BY <2>1 DEF TemplateInv, TemplateTypes
  <2>3. PICK i \in DOMAIN entries : e = entries[i] /\ e.key = name
    BY DEF EntriesOf, PlacesOf
  <2>4. e \in TemplateEntries
    BY <1>2, <2>3 DEF IsCache
  <2>5. e.created \in Int /\ HadThen(documents, replaced, name, e.document, e.created)
    BY <1>2, <2>3, <2>4 DEF EntriesFit, TemplateEntries
  <2>6. \A j \in DOMAIN replaced : replaced[j].at \in Nat
    <3>1. replaced \in Seq(TemplateReplacements)
      BY DEF TemplateInv, TemplateTypes
    <3>2. \A j \in DOMAIN replaced : replaced[j] \in TemplateReplacements
      BY <3>1
    <3> QED
      BY <3>2 DEF TemplateReplacements
  <2>7. HadThen(documents, replaced, name, e.document, SinceTried(caching, o.now))
    <3>1. CASE TemplateCacheTime = 0
      <4>1. SinceTried(caching, o.now) = 0
        BY <1>1, <3>1 DEF SinceTried
      <4>2. \A j \in DOMAIN replaced : replaced[j].at >= 0
        BY <2>6
      <4> QED
        BY <2>5, <4>1, <4>2 DEF HadThen
    <3>2. CASE TemplateCacheTime # 0
      <4>1. /\ SinceTried(caching, o.now) = o.now - TemplateCacheTime
            /\ e.created > o.now - TemplateCacheTime
        BY <1>1, <2>1, <3>2 DEF SinceTried, FreshTemplate
      <4>2. SinceTried(caching, o.now) \in Int /\ SinceTried(caching, o.now) <= e.created
        BY <1>3, <2>5, <4>1, TemplateAssumption
      <4>3. TemplateTypes
        BY DEF TemplateInv
      <4> QED
        BY <2>5, <4>2, <4>3, HadEarlier
    <3> QED
      BY <3>1, <3>2
  <2>8. /\ IsCache(entries', TemplateEntries) /\ OnePerKey(entries')
        /\ EntriesFit(documents, replaced, time, entries')
    <3> DEFINE u == Used(entries, name)
    <3>1. /\ IsCache(u, TemplateEntries) /\ OnePerKey(u)
          /\ \A j \in DOMAIN u : \E k \in DOMAIN entries : u[j] = entries[k]
      BY <1>2, UsedIs
    <3>2. entries' = u
      BY <2>1
    <3> HIDE DEF u
    <3> QED
      BY <1>2, <3>1, <3>2 DEF EntriesFit
  <2> DEFINE r == [loader[t] EXCEPT !.at = "use", !.entry = e]
  <2>9. r \in LoaderStates /\ LoaderFits(documents, replaced, caching, time, r)
    BY <1>1, <2>4, <2>7, EntryTaken
  <2>10. loader' = [loader EXCEPT ![t] = r] /\ loads' \in [calls : Nat, entries : Nat]
    BY <1>2, <2>1, <2>2
  <2> HIDE DEF r, o
  <2> QED
    BY <1>1, <2>8, <2>9, <2>10, LoaderMoves
<1>6. CASE /\ loader' = [loader EXCEPT ![t].at = "use", ![t].entry = read]
           /\ entries' = Insert(entries, read, TemplateCacheSize)
           /\ loads' = [loads EXCEPT !.entries = @ + 1]
  <2>1. loader' = [loader EXCEPT ![t] = [loader[t] EXCEPT !.at = "use", !.entry = read]]
    BY <1>6 DEF TemplateInv, TemplateTypes
  <2>2. loads' \in [calls : Nat, entries : Nat]
    BY <1>2, <1>6
  <2>3. read \in TemplateEntries
    <3>1. Sizes[name] \in Nat /\ documents[name] \in Nat /\ loads.entries \in Nat
      BY <1>2, <1>4, TemplateAssumption
    <3> QED
      BY <1>3, <1>4, <3>1 DEF TemplateEntries
  <2>4. read.key = name /\ read.document = documents[name] /\ read.created = o.now
    OBVIOUS
  <2>5. entries' = Insert(entries, read, TemplateCacheSize)
    BY <1>6
  <2> HIDE DEF read
  <2>6. /\ IsCache(entries', TemplateEntries) /\ OnePerKey(entries')
        /\ EntriesFit(documents, replaced, time, entries')
    <3> DEFINE x == Insert(entries, read, TemplateCacheSize)
    <3>1. /\ IsCache(x, TemplateEntries) /\ OnePerKey(x)
          /\ \A j \in DOMAIN x : x[j] = read \/ \E i \in DOMAIN entries : x[j] = entries[i]
      BY <1>2, <2>3, InsertIs, TemplateAssumption
    <3>2. entries' = x
      BY <2>5
    <3> HIDE DEF x, name, o
    <3>3. read.created <= time
          /\ HadThen(documents, replaced, read.key, read.document, read.created)
      BY <1>3, <2>4 DEF HadThen
    <3> QED
      BY <1>2, <3>1, <3>2, <3>3 DEF EntriesFit
  <2> DEFINE r == [loader[t] EXCEPT !.at = "use", !.entry = read]
  <2>7. HadThen(documents, replaced, name, read.document, SinceTried(caching, o.now))
    BY <2>4 DEF HadThen
  <2>8. r \in LoaderStates /\ LoaderFits(documents, replaced, caching, time, r)
    BY <1>1, <2>3, <2>7, EntryTaken
  <2>9. loader' = [loader EXCEPT ![t] = r]
    BY <2>1
  <2> HIDE DEF r, o
  <2> QED
    BY <1>1, <2>2, <2>6, <2>8, <2>9, LoaderMoves
<1> QED
  BY <1>5, <1>6 DEF TryCachedFile

LEMMA LoaderStops ==
  ASSUME TemplateInv, NEW t \in Loaders, UseDeletedEntry(t) \/ TemplateReturns(t)
  PROVE  TemplateInv'
<1>1. PICK r \in {TemplateIdle, [TemplateIdle EXCEPT !.at = "undefined"]} :
        loader' = [loader EXCEPT ![t] = r]
  BY DEF UseDeletedEntry, TemplateReturns
<1>2. UNCHANGED <<time, caching, documents, replaced, entries, loads>>
  BY DEF UseDeletedEntry, TemplateReturns
<1>3. time \in Nat
  BY DEF TemplateInv, TemplateTypes
<1>4. r \in LoaderStates /\ LoaderFits(documents, replaced, caching, time, r)
  BY <1>3, IdleFits
<1>5. /\ IsCache(entries', TemplateEntries) /\ OnePerKey(entries')
      /\ EntriesFit(documents, replaced, time, entries')
      /\ loads' \in [calls : Nat, entries : Nat]
  BY <1>2 DEF TemplateInv, TemplateTypes
<1> QED
  BY <1>1, <1>2, <1>4, <1>5, LoaderMoves

(* What time and the files do. *)
LEMMA AroundLoaders ==
  ASSUME TemplateInv, TemplateCacheTime >= 0, TemplateTypes',
         UNCHANGED <<caching, entries, loader>>, time <= time',
         \A n \in TemplateNames, v \in Nat, since \in Int :
           since <= time /\ HadThen(documents, replaced, n, v, since)
             => HadThen(documents', replaced', n, v, since)
  PROVE  TemplateInv'
<1>1. time \in Nat /\ time' \in Nat /\ caching \in BOOLEAN
  BY DEF TemplateInv, TemplateTypes
<1>2. EntriesFit(documents', replaced', time', entries)
  <2> SUFFICES ASSUME NEW i \in DOMAIN entries
               PROVE  /\ entries[i].created <= time'
                      /\ HadThen(documents', replaced', entries[i].key, entries[i].document,
                                 entries[i].created)
    BY DEF EntriesFit
  <2> DEFINE e == entries[i]
  <2>1. /\ e \in TemplateEntries /\ e.created <= time
        /\ HadThen(documents, replaced, e.key, e.document, e.created)
    BY DEF TemplateInv, TemplateTypes, EntriesFit, IsCache
  <2> HIDE DEF e
  <2>2. e.key \in TemplateNames /\ e.document \in Nat /\ e.created \in Int
    BY <2>1 DEF TemplateEntries
  <2>3. e.created <= time' /\ HadThen(documents', replaced', e.key, e.document, e.created)
    BY <1>1, <2>1, <2>2
  <2> QED
    BY <2>3 DEF e
<1>3. ASSUME NEW t \in Loaders
      PROVE  LoaderFits(documents', replaced', caching, time', loader[t])
  <2> DEFINE r == loader[t]
  <2>1. r \in LoaderStates /\ LoaderFits(documents, replaced, caching, time, r)
    BY DEF TemplateInv, TemplateTypes
  <2> HIDE DEF r
  <2>2. r.now \in Nat /\ r.pending \in Seq(TemplateNames) /\ r.tried \in Seq(Trials)
    BY <2>1 DEF LoaderStates
  <2>3. TrialsFit(documents', replaced', caching, time', r)
    <3>1. ASSUME NEW i \in DOMAIN r.tried
          PROVE  /\ SinceTried(caching, r.tried[i].now) <= time'
                 /\ HadThen(documents', replaced', r.tried[i].name, r.tried[i].document,
                            SinceTried(caching, r.tried[i].now))
      <4> DEFINE x == r.tried[i]
      <4>1. x \in Trials
        BY <2>2
      <4>2. /\ SinceTried(caching, x.now) <= time
            /\ HadThen(documents, replaced, x.name, x.document, SinceTried(caching, x.now))
        BY <2>1 DEF LoaderFits, TrialsFit
      <4> HIDE DEF x
      <4>3. x.name \in TemplateNames /\ x.document \in Nat /\ x.now \in Nat
        BY <4>1 DEF Trials
      <4>4. SinceTried(caching, x.now) \in Int
        BY <1>1, <4>3, SinceIs
      <4>5. /\ SinceTried(caching, x.now) <= time'
            /\ HadThen(documents', replaced', x.name, x.document, SinceTried(caching, x.now))
        BY <1>1, <4>2, <4>3, <4>4
      <4> QED
        BY <4>5 DEF x
    <3> QED
      BY <2>1, <3>1 DEF LoaderFits, TrialsFit
  <2>4. PlaceFits(documents', replaced', caching, time', r)
    <3>1. ASSUME r.at = "use"
          PROVE  HadThen(documents', replaced', Head(r.pending), r.entry.document,
                         SinceTried(caching, r.now))
      <4>1. /\ r.pending # << >> /\ r.entry \in TemplateEntries /\ r.now <= time
            /\ HadThen(documents, replaced, Head(r.pending), r.entry.document,
                       SinceTried(caching, r.now))
        BY <2>1, <3>1 DEF LoaderFits, PlaceFits
      <4>2. Head(r.pending) \in TemplateNames /\ r.entry.document \in Nat
        BY <2>2, <4>1, TailIs DEF TemplateEntries
      <4>3. SinceTried(caching, r.now) \in Int /\ SinceTried(caching, r.now) <= time
        BY <1>1, <2>2, <4>1, SinceIs
      <4> QED
        BY <4>1, <4>2, <4>3
    <3>2. r.now <= time'
      BY <1>1, <2>1, <2>2 DEF LoaderFits, PlaceFits
    <3> QED
      BY <2>1, <3>1, <3>2 DEF LoaderFits, PlaceFits
  <2>5. LoaderFits(documents', replaced', caching, time', r)
    BY <2>1, <2>3, <2>4 DEF LoaderFits
  <2> QED
    BY <2>5 DEF r
<1>4. OnePerKey(entries') /\ EntriesFit(documents', replaced', time', entries')
  BY <1>2 DEF TemplateInv
<1>5. \A t \in Loaders : LoaderFits(documents', replaced', caching', time', loader'[t])
  BY <1>3
<1> QED
  BY <1>4, <1>5 DEF TemplateInv

LEMMA TemplateKept ==
  ASSUME TemplateInv, TemplateCacheTime >= 0, [TemplateNext]_templateVars
  PROVE  TemplateInv'
<1>1. CASE UNCHANGED templateVars
  BY <1>1 DEF templateVars, TemplateInv, TemplateTypes
<1>2. CASE TemplateTick
  <2>1. UNCHANGED <<caching, documents, replaced, entries, loader, loads>> /\ time' = time + 1
    BY <1>2 DEF TemplateTick
  <2>2. time \in Nat /\ time' \in Nat /\ time <= time'
    BY <2>1 DEF TemplateInv, TemplateTypes
  <2>3. TemplateTypes'
    BY <2>1, <2>2 DEF TemplateInv, TemplateTypes
  <2> QED
    BY <2>1, <2>2, <2>3, AroundLoaders
<1>3. ASSUME NEW q \in TemplateNames, EditTemplate(q) PROVE TemplateInv'
  <2>1. UNCHANGED <<caching, entries, loader, time>> /\ time \in Nat
    BY <1>3 DEF EditTemplate, TemplateInv, TemplateTypes
  <2>2. TemplateTypes' /\ \A n \in TemplateNames, v \in Nat, since \in Int :
              since <= time /\ HadThen(documents, replaced, n, v, since)
                => HadThen(documents', replaced', n, v, since)
    BY <1>3, DocumentsStay DEF TemplateInv
  <2> QED
    BY <2>1, <2>2, AroundLoaders
<1> QED
  BY <1>1, <1>2, <1>3, GetTemplateKeeps, NextNameKeeps, TrialKeeps, TryCachedFileKeeps,
     LoaderStops DEF TemplateNext

(* The inductive invariant of the threads that load templates, with or     *)
(* without a cache, for a time that is not negative.                       *)
THEOREM TemplateAlways ==
  ASSUME TemplateCacheTime >= 0
  PROVE  TemplateSpec => []TemplateInv
<1>1. TemplateInit => TemplateInv
  BY TemplateStarts
<1>2. TemplateInv /\ [TemplateNext]_templateVars => TemplateInv'
  BY TemplateKept
<1> QED
  BY <1>1, <1>2, PTL DEF TemplateSpec

(* getTemplate returns the best template there is: each name before it in  *)
(* the order was looked up, once, and had no document then or, with a      *)
(* cache, less than cacheTime before (TemplateLoader::getTemplate), for    *)
(* any names, locales, sizes and number of threads.                        *)
THEOREM BestTemplateFoundAlways ==
  ASSUME TemplateCacheTime >= 0
  PROVE  TemplateSpec => []BestTemplateFound
<1>1. TemplateInv => BestTemplateFound
  <2> SUFFICES ASSUME TemplateInv, NEW t \in Loaders
               PROVE  LET tried == loader[t].tried
                          n == Len(tried)
                      IN
                      /\ \A i \in 1 .. n :
                           HadDocument(tried[i].name, tried[i].document,
                                       IF ~ caching THEN tried[i].now
                                       ELSE IF TemplateCacheTime = 0 THEN 0
                                       ELSE tried[i].now - TemplateCacheTime)
                      /\ \A i \in 1 .. n - 1 : tried[i].document = 0
                      /\ \A i, j \in 1 .. n : tried[i].name = tried[j].name => i = j
                      /\ loader[t].at = "found" => tried[n].document # 0 \/ tried[n].name = Default
                      /\ loader[t].at = "found" =>
                           \A k \in 1 .. SelectInSeq(loader[t].order,
                                                     LAMBDA name : name = loader[t].found) :
                             \E i \in 1 .. n : tried[i].name = loader[t].order[k]
    BY DEF BestTemplateFound
  <2> DEFINE r == loader[t]
             n == Len(r.tried)
             places == {i \in 1 .. Len(r.order) : r.order[i] = r.found}
  <2>1. r \in LoaderStates /\ LoaderFits(documents, replaced, caching, time, r)
    BY DEF TemplateInv, TemplateTypes
  <2>2. /\ r.tried \in Seq(Trials) /\ n \in Nat /\ DOMAIN r.tried = 1 .. n
        /\ r.order \in Seq(TemplateNames) /\ Len(r.order) \in Nat
        /\ r.pending \in Seq(TemplateNames) /\ Len(r.pending) \in Nat
    <3>1. r.tried \in Seq(Trials) /\ r.order \in Seq(TemplateNames)
          /\ r.pending \in Seq(TemplateNames)
      BY <2>1 DEF LoaderStates
    <3> QED
      BY <3>1
  <2>3. ASSUME NEW i \in 1 .. n
        PROVE  HadDocument(r.tried[i].name, r.tried[i].document,
                           IF ~ caching THEN r.tried[i].now
                           ELSE IF TemplateCacheTime = 0 THEN 0
                           ELSE r.tried[i].now - TemplateCacheTime)
    BY <2>1, <2>2 DEF LoaderFits, TrialsFit, HadThen, HadDocument, SinceTried
  <2>4. \A i \in 1 .. n - 1 : r.tried[i].document = 0
    BY SMTT(30), <2>1, <2>2 DEF LoaderFits, TrialsFit
  <2>5. \A i, j \in 1 .. n : r.tried[i].name = r.tried[j].name => i = j
    BY <2>1, <2>2 DEF LoaderFits, TrialsFit
  <2>6. r.at = "found" => r.tried[n].document # 0 \/ r.tried[n].name = Default
    BY <2>1 DEF LoaderFits, PlaceFits
  <2>6a. Passed(r) <= Len(r.order)
    <3>1. Len(r.order) \in Nat /\ Len(r.pending) \in Nat
      BY <2>2
    <3> QED
      BY <3>1, PassedIs
  <2>7. ASSUME r.at = "found",
               NEW k \in 1 .. SelectInSeq(r.order, LAMBDA name : name = r.found)
        PROVE  \E i \in 1 .. n : r.tried[i].name = r.order[k]
    <3>1. Passed(r) \in Nat /\ Passed(r) > 0 /\ r.found = r.order[Passed(r)]
      BY <2>1, <2>7 DEF LoaderFits, PlaceFits, SearchFits
    <3>2. Passed(r) \in places
      <4> HIDE DEF r
      <4> QED
        BY <2>2, <2>6a, <3>1
    <3>3. Min(places) <= Passed(r) /\ Min(places) \in Nat
      <4>1. places \subseteq Nat /\ places # {}
        BY <2>2, <3>2
      <4> HIDE DEF places
      <4> QED
        BY <3>2, <4>1, LeastIs
    <3>4. SelectInSeq(r.order, LAMBDA name : name = r.found) = Min(places)
      BY <3>2 DEF SelectInSeq
    <3>5. k \in 1 .. Passed(r)
      BY <2>7, <3>1, <3>3, <3>4
    <3> QED
      BY <2>1, <2>2, <3>5 DEF LoaderFits, SearchFits
  <2> QED
    BY <2>3, <2>4, <2>5, <2>6, <2>7
<1> QED
  BY <1>1, TemplateAlways, PTL
=============================================================================
