-------------------------- MODULE WebSocket_proofs --------------------------
(***************************************************************************)
(* Proofs about web sockets: how they come to be, that a close frame is    *)
(* the last thing that an end writes, and that messages arrive whole and   *)
(* in order.                                                               *)
(***************************************************************************)
EXTENDS WebSocketConnection, WebSocketHandshake, SequenceTheorems, NaturalsInduction,
        WellFoundedInduction, TLAPS

-----------------------------------------------------------------------------
(* The handshake: its inductive invariant. *)

(* What a client may read, and what becomes of it. *)
Lines == {"101", "400", "403", "Upgrade", "Connection", "Accept", "Accept of another key",
          "Server", "Version13", "Empty"}
           \cup UNION {ToSet(r) : r \in Responses}

HandshakeTypes ==
  /\ kind \in [Connections -> {"ours", "foreign client", "foreign server"}]
  /\ toClient \in [Connections -> Seq(Lines)]
  /\ client \in [Connections -> {"unconnected", "connecting", "connected", "reopened"}]
  /\ handshake \in [Connections -> {"NothingDone", "ReadingHeader", "AllDone"}]
  /\ statusLine \in [Connections -> Lines \cup {"none"}]
  /\ headers \in [Connections -> Seq(Lines)]
  /\ response \in [Connections -> Seq(Lines)]
  /\ inherited \in [Connections -> BOOLEAN]
  /\ server \in [Connections ->
                  {"none", "accepted", "authenticating", "upgraded", "refused", "closed"}]
  /\ pending \in Seq(Connections)
  /\ taken \subseteq Connections
  /\ maxPending \in Int

(* A connection is in the queue or taken only while its web socket is      *)
(* open, and always then if its place was not lost.                        *)
QueueFits ==
  /\ \A i, j \in DOMAIN pending : pending[i] = pending[j] => i = j
  /\ \A c \in Connections :
       /\ Has(pending, c) \/ c \in taken => server[c] = "upgraded"
       /\ server[c] = "upgraded" /\ c \notin crowded => Has(pending, c) \/ c \in taken
  /\ \A c \in taken : ~ Has(pending, c)

(* There is a place for what slots decide on. *)
PlacesFit ==
  \A c \in Connections :
    server[c] = "authenticating" /\ c \notin crowded => Len(pending) < maxPending

(* Our server has the key for a connection that it upgrades, and for no    *)
(* other.                                                                  *)
AnswersFit ==
  \A c \in Connections :
    OurServer(c) /\ (Has(toClient[c], "Accept") \/ Has(response[c], "Accept"))
      => server[c] \in {"upgraded", "closed"}

(* The key is one that this connection has read; status and headers are    *)
(* those of one response, or were found when the connection was opened.    *)
HeadersFit ==
  \A c \in Connections :
    handshake[c] = "ReadingHeader" =>
      /\ Has(headers[c], "Accept") => Has(response[c], "Accept")
      /\ \/ inherited[c]
         \/ /\ response[c] # << >> /\ response[c][1] = statusLine[c]
            /\ headers[c] = Tail(response[c])

ConnectedFits ==
  \A c \in Connections : client[c] = "connected" =>
    /\ Has(response[c], "Accept")
    /\ \/ inherited[c]
       \/ /\ response[c] # << >> /\ response[c][1] = "101"
          /\ \A w \in {"Accept", "Upgrade", "Connection"} : Has(response[c], w)

HandshakeInv ==
  HandshakeTypes /\ QueueFits /\ PlacesFit /\ AnswersFit /\ HeadersFit /\ ConnectedFits

-----------------------------------------------------------------------------
(* Sequences of lines. *)

LEMMA HasOfConcatenation ==
  ASSUME NEW S, NEW s \in Seq(S), NEW t \in Seq(S), NEW w
  PROVE  Has(s \o t, w) <=> Has(s, w) \/ Has(t, w)
<1>1. /\ Len(s) \in Nat /\ Len(t) \in Nat /\ Len(s \o t) = Len(s) + Len(t)
      /\ DOMAIN s = 1 .. Len(s) /\ DOMAIN t = 1 .. Len(t)
      /\ DOMAIN (s \o t) = 1 .. Len(s) + Len(t)
  OBVIOUS
<1>2. \A i \in 1 .. Len(s) + Len(t) :
        (s \o t)[i] = IF i <= Len(s) THEN s[i] ELSE t[i - Len(s)]
  OBVIOUS
<1>3. ASSUME Has(s \o t, w) PROVE Has(s, w) \/ Has(t, w)
  <2>1. PICK i \in 1 .. Len(s) + Len(t) : (s \o t)[i] = w
    BY <1>1, <1>3 DEF Has
  <2>2. CASE i <= Len(s)
    BY <1>1, <1>2, <2>1, <2>2 DEF Has
  <2>3. CASE ~ (i <= Len(s))
    <3>1. i - Len(s) \in 1 .. Len(t)
      BY <1>1, <2>3
    <3> QED
      BY <1>1, <1>2, <2>1, <2>3, <3>1 DEF Has
  <2> QED
    BY <2>2, <2>3
<1>4. ASSUME Has(s, w) PROVE Has(s \o t, w)
  <2>1. PICK i \in 1 .. Len(s) : s[i] = w
    BY <1>1, <1>4 DEF Has
  <2>2. i \in 1 .. Len(s) + Len(t) /\ i <= Len(s)
    BY <1>1
  <2> QED
    BY <1>1, <1>2, <2>1, <2>2 DEF Has
<1>5. ASSUME Has(t, w) PROVE Has(s \o t, w)
  <2>1. PICK i \in 1 .. Len(t) : t[i] = w
    BY <1>1, <1>5 DEF Has
  <2>2. i + Len(s) \in 1 .. Len(s) + Len(t) /\ ~ (i + Len(s) <= Len(s))
        /\ (i + Len(s)) - Len(s) = i
    BY <1>1
  <2> QED
    BY <1>1, <1>2, <2>1, <2>2 DEF Has
<1> QED
  BY <1>3, <1>4, <1>5

LEMMA HasOfAppend ==
  ASSUME NEW S, NEW s \in Seq(S), NEW x \in S, NEW w
  PROVE  /\ Append(s, x) \in Seq(S)
         /\ Has(Append(s, x), w) <=> Has(s, w) \/ x = w
<1>1. /\ Len(s) \in Nat /\ DOMAIN s = 1 .. Len(s) /\ DOMAIN Append(s, x) = 1 .. Len(s) + 1
      /\ \A i \in 1 .. Len(s) : Append(s, x)[i] = s[i]
      /\ Append(s, x)[Len(s) + 1] = x /\ Append(s, x) \in Seq(S)
  OBVIOUS
<1>2. \A i \in 1 .. Len(s) + 1 : i \in 1 .. Len(s) \/ i = Len(s) + 1
  BY <1>1
<1>3. 1 .. Len(s) \subseteq 1 .. Len(s) + 1 /\ Len(s) + 1 \in 1 .. Len(s) + 1
  BY <1>1
<1> QED
  BY <1>1, <1>2, <1>3 DEF Has

LEMMA HasOfTail ==
  ASSUME NEW S, NEW s \in Seq(S), s # << >>, NEW w
  PROVE  /\ Tail(s) \in Seq(S) /\ Head(s) \in S /\ s[1] = Head(s)
         /\ Has(s, w) <=> Head(s) = w \/ Has(Tail(s), w)
<1>1. /\ Len(s) \in Nat \ {0} /\ DOMAIN s = 1 .. Len(s) /\ DOMAIN Tail(s) = 1 .. Len(s) - 1
      /\ \A i \in 1 .. Len(s) - 1 : Tail(s)[i] = s[i + 1]
      /\ Tail(s) \in Seq(S) /\ Head(s) \in S /\ s[1] = Head(s)
  OBVIOUS
<1>2. 1 \in 1 .. Len(s) /\ \A i \in 1 .. Len(s) - 1 : i + 1 \in 1 .. Len(s)
  BY <1>1
<1>3. \A i \in 1 .. Len(s) : i = 1 \/ (i - 1 \in 1 .. Len(s) - 1 /\ (i - 1) + 1 = i)
  BY <1>1
<1>4. ASSUME Has(s, w) PROVE Head(s) = w \/ Has(Tail(s), w)
  <2>1. PICK i \in 1 .. Len(s) : s[i] = w
    BY <1>1, <1>4 DEF Has
  <2>2. CASE i = 1
    BY <1>1, <2>1, <2>2
  <2>3. CASE i # 1
    <3>1. i - 1 \in 1 .. Len(s) - 1 /\ (i - 1) + 1 = i
      BY <1>3, <2>3
    <3> QED
      BY <1>1, <2>1, <3>1 DEF Has
  <2> QED
    BY <2>2, <2>3
<1> QED
  BY <1>1, <1>2, <1>4 DEF Has

(* A sequence that is not empty has a last place with a property. *)
LEMMA LastPlace ==
  ASSUME NEW n \in Nat, NEW S, S \subseteq 1 .. n, S # {}
  PROVE  Max(S) \in S
<1> DEFINE P(x) == \A y \in S : x >= y
<1>1. \E x \in S : P(x)
  <2> DEFINE T == {k \in Nat : S \cap (k + 1 .. n) = {}}
             R == {p \in Nat \X Nat : p[1] < p[2]}
  <2>1. n \in T
    <3>1. \A k \in n + 1 .. n : FALSE
      OBVIOUS
    <3> QED
      BY <3>1
  <2>2. IsWellFoundedOn(R, Nat)
    BY NatLessThanWellFounded DEF OpToRel
  <2>3. PICK x \in T : \A y \in T : ~ (<<y, x>> \in R)
    <3> HIDE DEF R
    <3>1. T \subseteq Nat
      OBVIOUS
    <3> HIDE DEF T
    <3> QED
      BY <2>1, <2>2, <3>1, WFMin
  <2>4. x \in Nat /\ S \cap (x + 1 .. n) = {}
    BY <2>3
  <2>5. \A y \in S : y <= x
    BY <2>4
  <2>6. x \in S
    <3>1. CASE x \notin S /\ x # 0
      <4>1. x - 1 \in Nat /\ x - 1 < x
        BY <2>4, <3>1
      <4>2. \A y \in S : ~ (y \in (x - 1) + 1 .. n)
        BY <2>4, <2>5, <3>1, <4>1
      <4>3. x - 1 \in T /\ <<x - 1, x>> \in R
        BY <2>4, <4>1, <4>2
      <4> QED
        BY <2>3, <4>3
    <3>2. CASE x = 0
      <4>1. PICK y \in S : y \in 1 .. n /\ y <= 0
        BY <2>5, <3>2
      <4> QED
        BY <4>1
    <3> QED
      BY <3>1, <3>2
  <2> QED
    BY <2>5, <2>6
<1>2. Max(S) = CHOOSE x \in S : P(x)
  BY DEF Max
<1> HIDE DEF P
<1> QED
  BY <1>1, <1>2

(* What LastOf finds is a line. *)
LEMMA LastOfHas ==
  ASSUME NEW h \in Seq(Lines), NEW names, NEW w, LastOf(h, names) = w, w # "none"
  PROVE  Has(h, w)
<1> DEFINE named == {i \in DOMAIN h : h[i] \in names}
<1>1. Len(h) \in Nat /\ DOMAIN h = 1 .. Len(h)
  OBVIOUS
<1>2. named # {} /\ h[Max(named)] = w
  BY DEF LastOf
<1>3. named \subseteq 1 .. Len(h)
  BY <1>1
<1>4. Max(named) \in named
  <2> HIDE DEF named
  <2> QED
    BY <1>1, <1>2, <1>3, LastPlace
<1>5. Max(named) \in DOMAIN h
  BY <1>4
<1> QED
  BY <1>2, <1>5 DEF Has

-----------------------------------------------------------------------------
(* The client reads. *)

LEMMA Unqueued ==
  ASSUME HandshakeInv, UNCHANGED <<pending, taken, server, crowded, maxPending>>
  PROVE  QueueFits' /\ PlacesFit'
BY DEF HandshakeInv, QueueFits, PlacesFit, Has

LEMMA ReadStatusKeeps ==
  ASSUME HandshakeInv, NEW c \in Connections, ReadStatus(c)
  PROVE  HandshakeInv'
<1> DEFINE l == Head(toClient[c])
<1>1. /\ client[c] = "connecting" /\ toClient[c] # << >>
      /\ toClient' = [toClient EXCEPT ![c] = Tail(@)]
      /\ statusLine' = [statusLine EXCEPT ![c] = l]
      /\ headers' = [headers EXCEPT ![c] = << >>]
      /\ response' = [response EXCEPT ![c] = <<l>>]
      /\ inherited' = [inherited EXCEPT ![c] = FALSE]
      /\ handshake' = [handshake EXCEPT ![c] =
                         IF l \in StatusLines THEN "ReadingHeader" ELSE "AllDone"]
      /\ UNCHANGED <<kind, client, server, pending, taken, crowded, maxPending>>
  BY DEF ReadStatus, HeadersCleared, serverVars
<1>2. HandshakeTypes
  BY DEF HandshakeInv
<1>3. /\ toClient[c] \in Seq(Lines) /\ l \in Lines /\ Tail(toClient[c]) \in Seq(Lines)
      /\ \A w : Has(toClient[c], w) <=> l = w \/ Has(Tail(toClient[c]), w)
  BY <1>1, <1>2, HasOfTail DEF HandshakeTypes
<1>4. /\ <<l>> \in Seq(Lines) /\ << >> \in Seq(Lines)
      /\ Tail(<<l>>) = << >> /\ <<l>> # << >> /\ <<l>>[1] = l
      /\ \A w : (Has(<<l>>, w) <=> l = w) /\ ~ Has(<< >>, w)
  BY <1>3 DEF Has
<1> HIDE DEF l
<1>5. HandshakeTypes'
  BY <1>1, <1>2, <1>3, <1>4 DEF HandshakeTypes
<1>6. QueueFits' /\ PlacesFit'
  BY <1>1, Unqueued
<1>7. AnswersFit'
  BY <1>1, <1>2, <1>3, <1>4 DEF HandshakeInv, HandshakeTypes, AnswersFit, OurServer
<1>8. HeadersFit'
  BY <1>1, <1>2, <1>4 DEF HandshakeInv, HandshakeTypes, HeadersFit
<1>9. ConnectedFits'
  BY <1>1, <1>2 DEF HandshakeInv, HandshakeTypes, ConnectedFits
<1> QED
  BY <1>5, <1>6, <1>7, <1>8, <1>9 DEF HandshakeInv

LEMMA ReadHeaderLineKeeps ==
  ASSUME HandshakeInv, NEW c \in Connections, ReadHeaderLine(c)
  PROVE  HandshakeInv'
<1> DEFINE l == Head(toClient[c])
<1>1. /\ client[c] = "connecting" /\ toClient[c] # << >> /\ handshake[c] = "ReadingHeader"
      /\ toClient' = [toClient EXCEPT ![c] = Tail(@)]
      /\ headers' = [headers EXCEPT ![c] = Append(@, l)]
      /\ response' = [response EXCEPT ![c] = Append(@, l)]
      /\ UNCHANGED <<kind, client, handshake, statusLine, inherited, server, pending, taken,
                     crowded, maxPending>>
  BY DEF ReadHeaderLine, serverVars
<1>2. HandshakeTypes
  BY DEF HandshakeInv
<1>3. /\ toClient[c] \in Seq(Lines) /\ l \in Lines /\ Tail(toClient[c]) \in Seq(Lines)
      /\ \A w : Has(toClient[c], w) <=> l = w \/ Has(Tail(toClient[c]), w)
  BY <1>1, <1>2, HasOfTail DEF HandshakeTypes
<1> HIDE DEF l
<1>4. /\ response[c] \in Seq(Lines) /\ headers[c] \in Seq(Lines)
      /\ Has(headers[c], "Accept") => Has(response[c], "Accept")
      /\ \/ inherited[c]
         \/ /\ response[c] # << >> /\ response[c][1] = statusLine[c]
            /\ headers[c] = Tail(response[c])
  BY <1>1, <1>2 DEF HandshakeInv, HandshakeTypes, HeadersFit
<1>5. /\ Append(response[c], l) \in Seq(Lines) /\ Append(headers[c], l) \in Seq(Lines)
      /\ \A w : Has(Append(response[c], l), w) <=> Has(response[c], w) \/ l = w
      /\ \A w : Has(Append(headers[c], l), w) <=> Has(headers[c], w) \/ l = w
  BY <1>3, <1>4, HasOfAppend
<1>6. ASSUME ~ inherited[c]
      PROVE  /\ Append(response[c], l) # << >>
             /\ Append(response[c], l)[1] = statusLine[c]
             /\ Append(headers[c], l) = Tail(Append(response[c], l))
  <2>1. response[c] # << >> /\ response[c][1] = statusLine[c] /\ headers[c] = Tail(response[c])
    BY <1>4, <1>6
  <2>2. Append(response[c], l) # << >>
    BY <1>3, <1>4, AppendProperties
  <2>3. Tail(Append(response[c], l)) = Append(Tail(response[c]), l)
    BY <1>3, <1>4, <2>1, HeadTailAppend
  <2>4. 1 \in 1 .. Len(response[c])
    BY <1>4, <2>1
  <2>5. Append(response[c], l)[1] = response[c][1]
    BY <1>3, <1>4, <2>4, AppendProperties
  <2> QED
    BY <2>1, <2>2, <2>3, <2>5
<1>7. HandshakeTypes'
  BY <1>1, <1>2, <1>3, <1>5 DEF HandshakeTypes
<1>8. QueueFits' /\ PlacesFit'
  BY <1>1, Unqueued
<1>9. AnswersFit'
  BY <1>1, <1>2, <1>3, <1>5 DEF HandshakeInv, HandshakeTypes, AnswersFit, OurServer
<1>10. HeadersFit'
  <2> SUFFICES ASSUME NEW d \in Connections, handshake[d] = "ReadingHeader"
               PROVE  /\ Has(headers'[d], "Accept") => Has(response'[d], "Accept")
                      /\ \/ inherited[d]
                         \/ /\ response'[d] # << >> /\ response'[d][1] = statusLine[d]
                            /\ headers'[d] = Tail(response'[d])
    BY <1>1 DEF HeadersFit
  <2>1. CASE d = c
    <3>1. headers'[d] = Append(headers[c], l) /\ response'[d] = Append(response[c], l)
      BY <1>1, <1>2, <2>1 DEF HandshakeTypes
    <3> QED
      BY <1>4, <1>5, <1>6, <2>1, <3>1
  <2>2. CASE d # c
    <3>1. headers'[d] = headers[d] /\ response'[d] = response[d]
      BY <1>1, <1>2, <2>2 DEF HandshakeTypes
    <3> QED
      BY <3>1 DEF HandshakeInv, HeadersFit
  <2> QED
    BY <2>1, <2>2
<1>11. ConnectedFits'
  BY <1>1, <1>2 DEF HandshakeInv, HandshakeTypes, ConnectedFits
<1> QED
  BY <1>7, <1>8, <1>9, <1>10, <1>11 DEF HandshakeInv

LEMMA ParseHeaderKeeps ==
  ASSUME HandshakeInv, NEW c \in Connections, ParseHeader(c)
  PROVE  HandshakeInv'
<1> DEFINE ok == Accepted(statusLine[c], headers[c])
<1>1. /\ toClient[c] # << >> /\ handshake[c] = "ReadingHeader"
      /\ toClient' = [toClient EXCEPT ![c] = Tail(@)]
      /\ handshake' = [handshake EXCEPT ![c] = "AllDone"]
      /\ client' = [client EXCEPT ![c] = IF ok THEN "connected" ELSE @]
      /\ UNCHANGED <<kind, statusLine, headers, response, inherited, server, pending, taken,
                     crowded, maxPending>>
  BY DEF ParseHeader, serverVars
<1>2. HandshakeTypes
  BY DEF HandshakeInv
<1>3. /\ toClient[c] \in Seq(Lines) /\ Tail(toClient[c]) \in Seq(Lines)
      /\ \A w : Has(Tail(toClient[c]), w) => Has(toClient[c], w)
  BY <1>1, <1>2, HasOfTail DEF HandshakeTypes
<1>4. /\ response[c] \in Seq(Lines) /\ headers[c] \in Seq(Lines)
      /\ Has(headers[c], "Accept") => Has(response[c], "Accept")
      /\ \/ inherited[c]
         \/ /\ response[c] # << >> /\ response[c][1] = statusLine[c]
            /\ headers[c] = Tail(response[c])
  BY <1>1, <1>2 DEF HandshakeInv, HandshakeTypes, HeadersFit
<1>5. ok => /\ statusLine[c] = "101"
            /\ Has(headers[c], "Accept") /\ Has(headers[c], "Upgrade")
            /\ Has(headers[c], "Connection")
  BY <1>4, LastOfHas DEF Accepted
<1> HIDE DEF ok
<1>6. ok => /\ Has(response[c], "Accept")
            /\ \/ inherited[c]
               \/ /\ response[c] # << >> /\ response[c][1] = "101"
                  /\ \A w \in {"Accept", "Upgrade", "Connection"} : Has(response[c], w)
  <2>1. CASE inherited[c]
    BY <1>4, <1>5, <2>1
  <2>2. CASE ~ inherited[c]
    <3>1. response[c] # << >> /\ response[c][1] = statusLine[c] /\ headers[c] = Tail(response[c])
      BY <1>4, <2>2
    <3>2. \A w : Has(headers[c], w) => Has(response[c], w)
      BY <1>4, <3>1, HasOfTail
    <3> QED
      BY <1>5, <3>1, <3>2
  <2> QED
    BY <2>1, <2>2
<1>7. HandshakeTypes'
  BY <1>1, <1>2, <1>3 DEF HandshakeTypes
<1>8. QueueFits' /\ PlacesFit'
  BY <1>1, Unqueued
<1>9. AnswersFit'
  BY <1>1, <1>2, <1>3 DEF HandshakeInv, HandshakeTypes, AnswersFit, OurServer
<1>10. HeadersFit'
  BY <1>1, <1>2 DEF HandshakeInv, HandshakeTypes, HeadersFit
<1>11. ConnectedFits'
  BY <1>1, <1>2, <1>6 DEF HandshakeInv, HandshakeTypes, ConnectedFits
<1> QED
  BY <1>7, <1>8, <1>9, <1>10, <1>11 DEF HandshakeInv

-----------------------------------------------------------------------------
(* The connection is made, and the server answers. *)

LEMMA AnswersAreLines ==
  /\ <<"403", "Empty">> \in Seq(Lines)
  /\ <<"400", "Version13", "Empty">> \in Seq(Lines)
  /\ <<"101", "Upgrade", "Connection", "Accept", "Server", "Empty">> \in Seq(Lines)
<1>1. ASSUME NEW S, NEW a \in S, NEW b \in S, NEW c \in S, NEW d \in S, NEW e \in S, NEW f \in S
      PROVE  <<a, b>> \in Seq(S) /\ <<a, b, c>> \in Seq(S) /\ <<a, b, c, d, e, f>> \in Seq(S)
  OBVIOUS
<1>2. /\ "403" \in Lines /\ "400" \in Lines /\ "Version13" \in Lines /\ "Empty" \in Lines
      /\ "101" \in Lines /\ "Upgrade" \in Lines /\ "Connection" \in Lines
      /\ "Accept" \in Lines /\ "Server" \in Lines
  BY DEF Lines
<1>3. <<"403", "Empty">> \in Seq(Lines)
  BY <1>1, <1>2
<1>4. <<"400", "Version13", "Empty">> \in Seq(Lines)
  BY <1>1, <1>2
<1>5. <<"101", "Upgrade", "Connection", "Accept", "Server", "Empty">> \in Seq(Lines)
  BY <1>1, <1>2
<1> QED
  BY <1>3, <1>4, <1>5

LEMMA ResponsesAreLines ==
  ASSUME NEW r \in Responses
  PROVE  r \in Seq(Lines)
<1>1. r \in Seq(ToSet(r))
  BY HandshakeAssumption
<1>2. ToSet(r) \subseteq Lines
  BY DEF Lines
<1> HIDE DEF Lines
<1> QED
  BY <1>1, <1>2

(* The old answers do not fit the new key. *)
LEMMA AgedFits ==
  ASSUME NEW h \in Seq(Lines)
  PROVE  Aged(h) \in Seq(Lines) /\ ~ Has(Aged(h), "Accept")
<1>1. Len(h) \in Nat /\ DOMAIN h = 1 .. Len(h) /\ \A i \in 1 .. Len(h) : h[i] \in Lines
  OBVIOUS
<1>2. "Accept of another key" \in Lines
  BY DEF Lines
<1>3. \A i \in 1 .. Len(h) :
        /\ (IF h[i] = "Accept" THEN "Accept of another key" ELSE h[i]) \in Lines
        /\ (IF h[i] = "Accept" THEN "Accept of another key" ELSE h[i]) # "Accept"
  BY <1>1, <1>2
<1>4. Aged(h) = [i \in 1 .. Len(h) |->
                  IF h[i] = "Accept" THEN "Accept of another key" ELSE h[i]]
  BY <1>1 DEF Aged
<1>5. DOMAIN Aged(h) = 1 .. Len(h)
      /\ \A i \in 1 .. Len(h) : Aged(h)[i] \in Lines /\ Aged(h)[i] # "Accept"
  BY <1>3, <1>4
<1>6. Aged(h) \in [1 .. Len(h) -> Lines]
  BY <1>3, <1>4
<1> HIDE DEF Lines
<1>7. Aged(h) \in Seq(Lines)
  BY <1>1, <1>6
<1> QED
  BY <1>5, <1>7 DEF Has

LEMMA OpenNewKeeps ==
  ASSUME HandshakeInv, NEW c \in Connections, Open(c), OpenNew(c)
  PROVE  HandshakeInv'
<1>1. /\ client' = [client EXCEPT ![c] = "connecting"]
      /\ UNCHANGED <<kind, toClient, handshake, statusLine, headers, response, inherited,
                     server, pending, taken, crowded, maxPending>>
  BY DEF Open, OpenNew, serverVars
<1>2. HandshakeTypes
  BY DEF HandshakeInv
<1>3. HandshakeTypes'
  BY <1>1, <1>2 DEF HandshakeTypes
<1>4. QueueFits' /\ PlacesFit'
  BY <1>1, Unqueued
<1>5. AnswersFit' /\ HeadersFit'
  BY <1>1 DEF HandshakeInv, AnswersFit, HeadersFit, OurServer
<1>6. ConnectedFits'
  BY <1>1, <1>2 DEF HandshakeInv, HandshakeTypes, ConnectedFits
<1> QED
  BY <1>3, <1>4, <1>5, <1>6 DEF HandshakeInv

(* A QWebSocket that is opened again brings its handshake along. *)
LEMMA OpenAgainKeeps ==
  ASSUME HandshakeInv, NEW c \in Connections, NEW d \in Connections \ {c},
         Open(c), OpenAgain(c, d)
  PROVE  HandshakeInv'
<1>1. /\ client' = [client EXCEPT ![c] = "connecting", ![d] = "reopened"]
      /\ handshake' = [handshake EXCEPT ![c] = handshake[d], ![d] = "NothingDone"]
      /\ statusLine' = [statusLine EXCEPT ![c] = statusLine[d], ![d] = "none"]
      /\ headers' = [headers EXCEPT ![c] = Aged(headers[d]), ![d] = << >>]
      /\ response' = [response EXCEPT ![c] = << >>, ![d] = << >>]
      /\ inherited' = [inherited EXCEPT ![c] = handshake[d] = "ReadingHeader", ![d] = FALSE]
      /\ toClient' = [toClient EXCEPT ![d] = << >>]
      /\ UNCHANGED <<kind, server, pending, taken, crowded, maxPending>>
  BY DEF Open, OpenAgain, serverVars
<1>2. HandshakeTypes
  BY DEF HandshakeInv
<1>3. /\ Aged(headers[d]) \in Seq(Lines) /\ ~ Has(Aged(headers[d]), "Accept")
      /\ << >> \in Seq(Lines) /\ \A w : ~ Has(<< >>, w)
  <2>1. headers[d] \in Seq(Lines)
    BY <1>2 DEF HandshakeTypes
  <2>2. << >> \in Seq(Lines) /\ \A w : ~ Has(<< >>, w)
    BY DEF Has
  <2> QED
    BY <2>1, <2>2, AgedFits
<1>4. d \in Connections /\ d # c
  OBVIOUS
<1>5. HandshakeTypes'
  BY <1>1, <1>2, <1>3, <1>4 DEF HandshakeTypes
<1>6. QueueFits' /\ PlacesFit'
  BY <1>1, Unqueued
<1>7. AnswersFit'
  <2> SUFFICES ASSUME NEW e \in Connections, OurServer(e),
                      Has(toClient'[e], "Accept") \/ Has(response'[e], "Accept")
               PROVE  server[e] \in {"upgraded", "closed"}
    BY <1>1 DEF AnswersFit, OurServer
  <2>1. /\ toClient'[e] = IF e = d THEN << >> ELSE toClient[e]
        /\ response'[e] = IF e \in {c, d} THEN << >> ELSE response[e]
    BY <1>1, <1>2, <1>4 DEF HandshakeTypes
  <2>2. Has(toClient[e], "Accept") \/ Has(response[e], "Accept")
    BY <1>3, <2>1
  <2> QED
    BY <2>2 DEF HandshakeInv, AnswersFit
<1>8. HeadersFit'
  <2> SUFFICES ASSUME NEW e \in Connections, handshake'[e] = "ReadingHeader"
               PROVE  /\ Has(headers'[e], "Accept") => Has(response'[e], "Accept")
                      /\ \/ inherited'[e]
                         \/ /\ response'[e] # << >> /\ response'[e][1] = statusLine'[e]
                            /\ headers'[e] = Tail(response'[e])
    BY DEF HeadersFit
  <2>1. CASE e = c
    BY <1>1, <1>2, <1>3, <1>4, <2>1 DEF HandshakeTypes
  <2>2. CASE e = d
    BY <1>1, <1>2, <1>4, <2>2 DEF HandshakeTypes
  <2>3. CASE e \notin {c, d}
    <3>1. /\ handshake'[e] = handshake[e] /\ headers'[e] = headers[e]
          /\ response'[e] = response[e] /\ inherited'[e] = inherited[e]
          /\ statusLine'[e] = statusLine[e]
      BY <1>1, <1>2, <1>4, <2>3 DEF HandshakeTypes
    <3> QED
      BY <3>1 DEF HandshakeInv, HeadersFit
  <2> QED
    BY <2>1, <2>2, <2>3
<1>9. ConnectedFits'
  <2> SUFFICES ASSUME NEW e \in Connections, client'[e] = "connected"
               PROVE  /\ Has(response'[e], "Accept")
                      /\ \/ inherited'[e]
                         \/ /\ response'[e] # << >> /\ response'[e][1] = "101"
                            /\ \A w \in {"Accept", "Upgrade", "Connection"} :
                                 Has(response'[e], w)
    BY DEF ConnectedFits, Has
  <2>1. e \notin {c, d} /\ client[e] = "connected"
    BY <1>1, <1>2, <1>4 DEF HandshakeTypes
  <2>2. response'[e] = response[e] /\ inherited'[e] = inherited[e]
    BY <1>1, <1>2, <1>4, <2>1 DEF HandshakeTypes
  <2> QED
    BY <2>1, <2>2 DEF HandshakeInv, ConnectedFits
<1> QED
  BY <1>5, <1>6, <1>7, <1>8, <1>9 DEF HandshakeInv

(* The server's side changes, and the web sockets that wait do not. *)
LEMMA ServerChanges ==
  ASSUME HandshakeInv, NEW c \in Connections, NEW place,
         server' = [server EXCEPT ![c] = place],
         place # "upgraded", place # "authenticating", server[c] # "upgraded",
         UNCHANGED <<pending, taken, crowded, maxPending>>
  PROVE  QueueFits' /\ PlacesFit'
<1>1. \A d \in Connections : /\ server'[d] = "upgraded" <=> server[d] = "upgraded"
                             /\ server'[d] = "authenticating" => server[d] = "authenticating"
  BY DEF HandshakeInv, HandshakeTypes
<1> QED
  BY <1>1 DEF HandshakeInv, QueueFits, PlacesFit, Has

LEMMA ConnectedKeeps ==
  ASSUME HandshakeInv, NEW c \in Connections, Connected(c)
  PROVE  HandshakeInv'
<1>1. PICK r \in IF OurServer(c) THEN {<< >>} ELSE Responses :
        toClient' = [toClient EXCEPT ![c] = r]
  BY DEF Connected
<1>2. /\ server[c] = "none" /\ server' = [server EXCEPT ![c] = "accepted"]
      /\ UNCHANGED <<kind, client, handshake, statusLine, headers, response, inherited, pending,
                     taken, crowded, maxPending>>
  BY DEF Connected, clientVars
<1>3. HandshakeTypes
  BY DEF HandshakeInv
<1>4. r \in Seq(Lines) /\ (OurServer(c) => r = << >>)
  <2>1. CASE OurServer(c)
    BY <1>1, <2>1
  <2>2. CASE ~ OurServer(c)
    BY <1>1, <2>2, ResponsesAreLines
  <2> QED
    BY <2>1, <2>2
<1>5. OurServer(c) => ~ Has(r, "Accept") /\ ~ Has(response[c], "Accept")
  BY <1>2, <1>4 DEF HandshakeInv, AnswersFit, Has
<1>6. HandshakeTypes'
  BY <1>1, <1>2, <1>3, <1>4 DEF HandshakeTypes
<1>7. QueueFits' /\ PlacesFit'
  BY <1>2, ServerChanges
<1>8. AnswersFit'
  BY <1>1, <1>2, <1>3, <1>5 DEF HandshakeInv, HandshakeTypes, AnswersFit, OurServer
<1>9. HeadersFit' /\ ConnectedFits'
  BY <1>2 DEF HandshakeInv, HeadersFit, ConnectedFits
<1> QED
  BY <1>6, <1>7, <1>8, <1>9 DEF HandshakeInv

LEMMA RefusedKeeps ==
  ASSUME HandshakeInv, NEW c \in Connections, Refused(c)
  PROVE  HandshakeInv'
<1>1. /\ server[c] = "none" /\ server' = [server EXCEPT ![c] = "refused"]
      /\ client' = [client EXCEPT ![c] = "unconnected"]
      /\ UNCHANGED <<kind, toClient, handshake, statusLine, headers, response, inherited, pending,
                     taken, crowded, maxPending>>
  BY DEF Refused, linkVars
<1>2. HandshakeTypes
  BY DEF HandshakeInv
<1>3. HandshakeTypes'
  BY <1>1, <1>2 DEF HandshakeTypes
<1>4. QueueFits' /\ PlacesFit'
  BY <1>1, ServerChanges
<1>5. AnswersFit'
  BY <1>1, <1>2 DEF HandshakeInv, HandshakeTypes, AnswersFit, OurServer
<1>6. HeadersFit' /\ ConnectedFits'
  BY <1>1, <1>2 DEF HandshakeInv, HandshakeTypes, HeadersFit, ConnectedFits
<1> QED
  BY <1>3, <1>4, <1>5, <1>6 DEF HandshakeInv

LEMMA ConnectionLostKeeps ==
  ASSUME HandshakeInv, NEW c \in Connections, ConnectionLost(c)
  PROVE  HandshakeInv'
<1> DEFINE place == IF ~ OurServer(c) /\ server[c] = "accepted" THEN "closed" ELSE server[c]
<1>1. /\ client' = [client EXCEPT ![c] = "unconnected"]
      /\ toClient' = [toClient EXCEPT ![c] = << >>]
      /\ server' = [server EXCEPT ![c] = place]
      /\ handshake' \in {handshake, [handshake EXCEPT ![c] = "AllDone"]}
      /\ UNCHANGED <<kind, statusLine, headers, response, inherited, pending, taken, crowded,
                     maxPending>>
  BY DEF ConnectionLost
<1>2. \/ place = server[c]
      \/ ~ OurServer(c) /\ server[c] = "accepted" /\ place = "closed"
  OBVIOUS
<1> HIDE DEF place
<1>3. HandshakeTypes
  BY DEF HandshakeInv
<1>4. << >> \in Seq(Lines) /\ ~ Has(<< >>, "Accept")
  BY DEF Has
<1>5. /\ place \in {"none", "accepted", "authenticating", "upgraded", "refused", "closed"}
      /\ handshake' \in [Connections -> {"NothingDone", "ReadingHeader", "AllDone"}]
      /\ \A d \in Connections : handshake'[d] = "ReadingHeader" => handshake[d] = "ReadingHeader"
  BY <1>1, <1>2, <1>3 DEF HandshakeTypes
<1>6. HandshakeTypes'
  BY <1>1, <1>3, <1>4, <1>5 DEF HandshakeTypes
<1>7. QueueFits' /\ PlacesFit'
  <2>1. CASE place = server[c]
    <3>1. server' = server
      BY <1>1, <1>3, <2>1 DEF HandshakeTypes
    <3> QED
      BY <1>1, <3>1, Unqueued
  <2>2. CASE server[c] = "accepted" /\ place = "closed"
    BY <1>1, <2>2, ServerChanges
  <2> QED
    BY <1>2, <2>1, <2>2
<1>8. AnswersFit'
  BY <1>1, <1>2, <1>3, <1>4 DEF HandshakeInv, HandshakeTypes, AnswersFit, OurServer
<1>9. HeadersFit'
  BY <1>1, <1>5 DEF HandshakeInv, HeadersFit
<1>10. ConnectedFits'
  BY <1>1, <1>3 DEF HandshakeInv, HandshakeTypes, ConnectedFits
<1> QED
  BY <1>6, <1>7, <1>8, <1>9, <1>10 DEF HandshakeInv

LEMMA CheckHandshakeKeeps ==
  ASSUME HandshakeInv, NEW c \in Connections, CheckHandshake(c)
  PROVE  HandshakeInv'
<1>1. /\ server[c] = "accepted"
      /\ UNCHANGED <<kind, toClient, client, handshake, statusLine, headers, response, inherited,
                     pending, taken, crowded, maxPending>>
  BY DEF CheckHandshake, clientVars
<1>2. PICK place \in {"authenticating", "refused"} :
        /\ server' = [server EXCEPT ![c] = place]
        /\ place = "authenticating" => ~ TooManyPending
  BY DEF CheckHandshake
<1>3. HandshakeTypes
  BY DEF HandshakeInv
<1>4. HandshakeTypes'
  BY <1>1, <1>2, <1>3 DEF HandshakeTypes
<1>5. QueueFits'
  <2>1. \A d \in Connections : server'[d] = "upgraded" <=> server[d] = "upgraded"
    BY <1>1, <1>2, <1>3 DEF HandshakeTypes
  <2> QED
    BY <1>1, <2>1 DEF HandshakeInv, QueueFits, Has
<1>6. PlacesFit'
  <2>1. Len(pending) \in Int /\ maxPending \in Int
    <3>1. pending \in Seq(Connections) /\ maxPending \in Int
      BY <1>3 DEF HandshakeTypes
    <3> QED
      BY <3>1
  <2>2. place = "authenticating" => Len(pending) < maxPending
    BY <1>2, <2>1 DEF TooManyPending
  <2> QED
    BY <1>1, <1>2, <1>3, <2>2 DEF HandshakeInv, HandshakeTypes, PlacesFit
<1>7. AnswersFit'
  BY <1>1, <1>2, <1>3 DEF HandshakeInv, HandshakeTypes, AnswersFit, OurServer
<1>8. HeadersFit' /\ ConnectedFits'
  BY <1>1 DEF HandshakeInv, HeadersFit, ConnectedFits
<1> QED
  BY <1>4, <1>5, <1>6, <1>7, <1>8 DEF HandshakeInv

(* An upgrade finds a place in the queue, if it did not lose it.           *)
LEMMA AnswerHandshakeKeeps ==
  ASSUME HandshakeInv, NEW c \in Connections, AnswerHandshake(c)
  PROVE  HandshakeInv'
<1>1. /\ server[c] = "authenticating"
      /\ UNCHANGED <<kind, client, handshake, statusLine, headers, response, inherited, taken,
                     maxPending>>
  BY DEF AnswerHandshake, Authenticating, clientVars
<1>2. PICK allowed \in BOOLEAN, upgraded \in BOOLEAN :
        /\ upgraded <=> allowed /\ canUpgrade(atServer[c])
        /\ server' = IF upgraded THEN upgradeFrom(c) ELSE [server EXCEPT ![c] = "refused"]
        /\ pending' = IF upgraded THEN addPendingConnection(c) ELSE pending
        /\ crowded' = IF upgraded THEN crowded \cup (Authenticating \ {c}) ELSE crowded
        /\ toClient' = [toClient EXCEPT ![c] =
                          IF client[c] = "connecting"
                          THEN @ \o getHandshakeResponse(atServer[c], allowed) ELSE @]
  BY DEF AnswerHandshake
<1>3. HandshakeTypes /\ QueueFits /\ PlacesFit
  BY DEF HandshakeInv
<1>4. PICK answer \in Seq(Lines) :
        /\ toClient' = [toClient EXCEPT ![c] = @ \o answer]
        /\ Has(answer, "Accept") => upgraded
  <2>1. CASE client[c] = "connecting"
    <3> DEFINE answer == getHandshakeResponse(atServer[c], allowed)
    <3>1. answer \in Seq(Lines)
      BY AnswersAreLines DEF getHandshakeResponse
    <3>2. /\ ~ Has(<<"403", "Empty">>, "Accept")
          /\ ~ Has(<<"400", "Version13", "Empty">>, "Accept")
      BY DEF Has
    <3>3. Has(answer, "Accept") => upgraded
      BY <1>2, <2>1, <3>2 DEF getHandshakeResponse
    <3>4. toClient' = [toClient EXCEPT ![c] = @ \o answer]
      BY <1>2, <2>1
    <3> QED
      BY <3>1, <3>3, <3>4
  <2>2. CASE client[c] # "connecting"
    <3>1. toClient' = [toClient EXCEPT ![c] = @]
      BY <1>2, <2>2
    <3>2. toClient[c] \in Seq(Lines)
      BY <1>3 DEF HandshakeTypes
    <3>3. toClient[c] \o << >> = toClient[c]
      BY <3>2
    <3>4. << >> \in Seq(Lines) /\ ~ Has(<< >>, "Accept")
      BY DEF Has
    <3> QED
      BY <3>1, <3>3, <3>4
  <2> QED
    BY <2>1, <2>2
<1>5. server' = [server EXCEPT ![c] = IF upgraded THEN "upgraded" ELSE "refused"]
  BY <1>2 DEF upgradeFrom
<1>6. PICK added \in BOOLEAN :
        /\ pending' = IF added THEN Append(pending, c) ELSE pending
        /\ added => upgraded
        /\ upgraded /\ c \notin crowded => added
  <2>1. upgraded /\ c \notin crowded => Len(pending) < maxPending
    BY <1>1, <1>3 DEF PlacesFit
  <2>2. pending' = IF upgraded /\ Len(pending) < maxPending THEN Append(pending, c) ELSE pending
    BY <1>2 DEF addPendingConnection
  <2> QED
    BY <2>1, <2>2
<1>7. /\ toClient[c] \in Seq(Lines) /\ toClient[c] \o answer \in Seq(Lines)
      /\ Has(toClient[c] \o answer, "Accept")
           <=> Has(toClient[c], "Accept") \/ Has(answer, "Accept")
  <2>1. toClient[c] \in Seq(Lines)
    BY <1>3 DEF HandshakeTypes
  <2>2. toClient[c] \o answer \in Seq(Lines)
    BY <2>1
  <2> QED
    BY <2>1, <2>2, HasOfConcatenation
<1>8. /\ pending \in Seq(Connections) /\ Append(pending, c) \in Seq(Connections)
      /\ \A d : Has(Append(pending, c), d) <=> Has(pending, d) \/ c = d
  BY <1>3, HasOfAppend DEF HandshakeTypes
<1>9. ~ Has(pending, c) /\ c \notin taken
  BY <1>1, <1>3 DEF QueueFits
<1>10. HandshakeTypes'
  <2>1. pending' \in Seq(Connections)
    BY <1>6, <1>8
  <2> QED
    BY <1>1, <1>3, <1>4, <1>5, <1>7, <2>1 DEF HandshakeTypes
<1>11. \A d \in Connections : d # c => (server'[d] = server[d])
  BY <1>3, <1>5 DEF HandshakeTypes
<1>12. server'[c] = IF upgraded THEN "upgraded" ELSE "refused"
  BY <1>3, <1>5 DEF HandshakeTypes
<1>13. \A d : d \notin crowded' => d \notin crowded
  BY <1>2
<1>14. QueueFits'
  <2>1. (\A i, j \in DOMAIN pending : pending[i] = pending[j] => i = j)'
    <3>1. CASE ~ added
      BY <1>3, <1>6, <3>1 DEF QueueFits
    <3>2. CASE added
      <4>1. /\ Len(pending) \in Nat /\ DOMAIN pending = 1 .. Len(pending)
            /\ DOMAIN pending' = 1 .. Len(pending) + 1
            /\ \A i \in 1 .. Len(pending) : pending'[i] = pending[i]
            /\ pending'[Len(pending) + 1] = c
        BY <1>6, <1>8, <3>2
      <4>2. \A i \in 1 .. Len(pending) + 1 : i \in 1 .. Len(pending) \/ i = Len(pending) + 1
        BY <4>1
      <4>3. \A i \in 1 .. Len(pending) : pending[i] # c
        BY <1>9, <4>1 DEF Has
      <4> QED
        BY <1>3, <4>1, <4>2, <4>3 DEF QueueFits
    <3> QED
      BY <3>1, <3>2
  <2>2. \A d : Has(pending, d)' <=> Has(pending, d) \/ (added /\ c = d)
    BY <1>6, <1>8 DEF Has
  <2>3. (\A d \in Connections :
           /\ Has(pending, d) \/ d \in taken => server[d] = "upgraded"
           /\ server[d] = "upgraded" /\ d \notin crowded => Has(pending, d) \/ d \in taken)'
    <3> SUFFICES ASSUME NEW d \in Connections
                 PROVE  /\ Has(pending, d)' \/ d \in taken => server'[d] = "upgraded"
                        /\ server'[d] = "upgraded" /\ d \notin crowded'
                             => Has(pending, d)' \/ d \in taken
      BY <1>1
    <3>1. CASE d = c
      BY <1>6, <1>9, <1>12, <1>13, <2>2, <3>1
    <3>2. CASE d # c
      BY <1>3, <1>11, <1>13, <2>2, <3>2 DEF QueueFits
    <3> QED
      BY <3>1, <3>2
  <2>4. (\A d \in taken : ~ Has(pending, d))'
    BY <1>1, <1>3, <1>9, <2>2 DEF QueueFits, HandshakeTypes
  <2> QED
    BY <2>1, <2>3, <2>4 DEF QueueFits
<1>15. PlacesFit'
  <2> SUFFICES ASSUME NEW d \in Connections, server'[d] = "authenticating", d \notin crowded'
               PROVE  Len(pending') < maxPending
    BY <1>1 DEF PlacesFit
  <2>1. d # c /\ server[d] = "authenticating"
    BY <1>11, <1>12
  <2>2. ~ upgraded
    BY <1>2, <2>1 DEF Authenticating
  <2>3. pending' = pending
    BY <1>6, <2>2
  <2> QED
    BY <1>3, <1>13, <2>1, <2>3 DEF PlacesFit
<1>16. AnswersFit'
  <2>1. OurServer(c) => ~ Has(toClient[c], "Accept") /\ ~ Has(response[c], "Accept")
    BY <1>1 DEF HandshakeInv, AnswersFit
  <2> QED
    BY <1>1, <1>3, <1>4, <1>5, <1>7, <2>1 DEF HandshakeInv, HandshakeTypes, AnswersFit, OurServer
<1>17. HeadersFit' /\ ConnectedFits'
  BY <1>1 DEF HandshakeInv, HeadersFit, ConnectedFits
<1> QED
  BY <1>10, <1>14, <1>15, <1>16, <1>17 DEF HandshakeInv

LEMMA NextPendingConnectionKeeps ==
  ASSUME HandshakeInv, nextPendingConnection
  PROVE  HandshakeInv'
<1>1. /\ pending # << >> /\ pending' = Tail(pending) /\ taken' = taken \cup {Head(pending)}
      /\ UNCHANGED <<kind, toClient, client, handshake, statusLine, headers, response, inherited,
                     server, crowded, maxPending>>
  BY DEF nextPendingConnection, linkVars, clientVars
<1>2. HandshakeTypes /\ QueueFits /\ PlacesFit
  BY DEF HandshakeInv
<1>3. pending \in Seq(Connections) /\ maxPending \in Int
  BY <1>2 DEF HandshakeTypes
<1>4. /\ Tail(pending) \in Seq(Connections) /\ Head(pending) \in Connections
      /\ \A d : Has(pending, d) <=> Head(pending) = d \/ Has(Tail(pending), d)
  BY <1>1, <1>3, HasOfTail
<1>5. /\ Len(pending) \in Nat \ {0} /\ DOMAIN pending = 1 .. Len(pending)
      /\ DOMAIN Tail(pending) = 1 .. Len(pending) - 1 /\ Len(Tail(pending)) = Len(pending) - 1
      /\ \A i \in 1 .. Len(pending) - 1 : Tail(pending)[i] = pending[i + 1]
      /\ pending[1] = Head(pending)
  BY <1>1, <1>3
<1>6. \A i \in 1 .. Len(pending) - 1 : i + 1 \in 1 .. Len(pending) /\ i + 1 # 1
  BY <1>5
<1>7. 1 \in 1 .. Len(pending)
  BY <1>5
<1>8. ~ Has(Tail(pending), Head(pending))
  BY <1>2, <1>5, <1>6, <1>7 DEF QueueFits, Has
<1>9. \A i, j \in DOMAIN Tail(pending) : Tail(pending)[i] = Tail(pending)[j] => i = j
  <2> SUFFICES ASSUME NEW i \in 1 .. Len(pending) - 1, NEW j \in 1 .. Len(pending) - 1,
                      Tail(pending)[i] = Tail(pending)[j]
               PROVE  i = j
    BY <1>5
  <2>1. i + 1 = j + 1
    BY <1>2, <1>5, <1>6 DEF QueueFits
  <2> QED
    BY <2>1
<1>10. HandshakeTypes'
  BY <1>1, <1>2, <1>4 DEF HandshakeTypes
<1>11. QueueFits'
  <2>1. \A d : Has(pending, d)' <=> Has(Tail(pending), d)
    BY <1>1 DEF Has
  <2>2. (\A i, j \in DOMAIN pending : pending[i] = pending[j] => i = j)'
    BY <1>1, <1>9
  <2>3. (\A d \in Connections :
           /\ Has(pending, d) \/ d \in taken => server[d] = "upgraded"
           /\ server[d] = "upgraded" /\ d \notin crowded => Has(pending, d) \/ d \in taken)'
    BY <1>1, <1>2, <1>4, <2>1 DEF QueueFits
  <2>4. (\A d \in taken : ~ Has(pending, d))'
    BY <1>1, <1>2, <1>4, <1>8, <2>1 DEF QueueFits
  <2> QED
    BY <2>2, <2>3, <2>4 DEF QueueFits
<1>12. PlacesFit'
  <2>1. Len(pending) < maxPending => Len(pending') < maxPending
    BY <1>1, <1>3, <1>5
  <2> QED
    BY <1>1, <1>2, <2>1 DEF PlacesFit
<1>13. AnswersFit' /\ HeadersFit' /\ ConnectedFits'
  BY <1>1 DEF HandshakeInv, AnswersFit, HeadersFit, ConnectedFits, OurServer
<1> QED
  BY <1>10, <1>11, <1>12, <1>13 DEF HandshakeInv

LEMMA CloseServerKeeps ==
  ASSUME HandshakeInv, CloseServer
  PROVE  HandshakeInv'
<1>1. /\ server' = [d \in Connections |-> IF Has(pending, d) THEN "closed" ELSE server[d]]
      /\ pending' = << >>
      /\ UNCHANGED <<kind, toClient, client, handshake, statusLine, headers, response, inherited,
                     taken, crowded, maxPending>>
  BY DEF CloseServer, linkVars, clientVars
<1>2. HandshakeTypes /\ QueueFits /\ PlacesFit
  BY DEF HandshakeInv
<1>3. \A d : ~ Has(pending, d)'
  BY <1>1 DEF Has
<1>4. HandshakeTypes'
  <2>1. server' \in [Connections ->
                      {"none", "accepted", "authenticating", "upgraded", "refused", "closed"}]
    BY <1>1, <1>2 DEF HandshakeTypes
  <2>2. << >> \in Seq(Connections)
    OBVIOUS
  <2> QED
    BY <1>1, <1>2, <2>1, <2>2 DEF HandshakeTypes
<1>5. QueueFits'
  <2>1. (\A i, j \in DOMAIN pending : pending[i] = pending[j] => i = j)'
    BY <1>1
  <2>2. (\A d \in Connections :
           /\ Has(pending, d) \/ d \in taken => server[d] = "upgraded"
           /\ server[d] = "upgraded" /\ d \notin crowded => Has(pending, d) \/ d \in taken)'
    BY <1>1, <1>2, <1>3 DEF QueueFits
  <2> QED
    BY <1>3, <2>1, <2>2 DEF QueueFits
<1>6. PlacesFit'
  <2>1. Len(<< >>) <= Len(pending) /\ Len(pending) \in Int /\ maxPending \in Int
    <3>1. pending \in Seq(Connections) /\ maxPending \in Int
      BY <1>2 DEF HandshakeTypes
    <3> QED
      BY <3>1
  <2>2. Len(pending) < maxPending => Len(pending') < maxPending
    BY <1>1, <2>1
  <2>3. \A d \in Connections : server'[d] = "authenticating" => server[d] = "authenticating"
    BY <1>1
  <2> QED
    BY <1>1, <1>2, <2>2, <2>3 DEF PlacesFit
<1>7. AnswersFit'
  BY <1>1 DEF HandshakeInv, AnswersFit, OurServer
<1>8. HeadersFit' /\ ConnectedFits'
  BY <1>1 DEF HandshakeInv, HeadersFit, ConnectedFits
<1> QED
  BY <1>4, <1>5, <1>6, <1>7, <1>8 DEF HandshakeInv

(* A lower limit takes the places of those that slots decide on. *)
LEMMA SetMaxPendingConnectionsKeeps ==
  ASSUME HandshakeInv, setMaxPendingConnections
  PROVE  HandshakeInv'
<1>1. /\ maxPending' \in Int
      /\ crowded' = IF maxPending' < maxPending THEN crowded \cup Authenticating ELSE crowded
      /\ UNCHANGED <<kind, toClient, client, handshake, statusLine, headers, response, inherited,
                     server, pending, taken>>
  BY HandshakeAssumption DEF setMaxPendingConnections, linkVars, clientVars
<1>2. HandshakeTypes /\ QueueFits /\ PlacesFit
  BY DEF HandshakeInv
<1>3. HandshakeTypes'
  BY <1>1, <1>2 DEF HandshakeTypes
<1>4. \A d : d \notin crowded' => d \notin crowded
  BY <1>1
<1>5. QueueFits'
  BY <1>1, <1>2, <1>4 DEF QueueFits, Has
<1>6. PlacesFit'
  <2>1. Len(pending) \in Int /\ maxPending \in Int
    <3>1. pending \in Seq(Connections) /\ maxPending \in Int
      BY <1>2 DEF HandshakeTypes
    <3> QED
      BY <3>1
  <2>2. CASE maxPending' < maxPending
    BY <1>1, <2>2 DEF PlacesFit, Authenticating
  <2>3. CASE ~ (maxPending' < maxPending)
    <3>1. Len(pending) < maxPending => Len(pending) < maxPending'
      BY <1>1, <2>1, <2>3
    <3> QED
      BY <1>1, <1>2, <1>4, <3>1 DEF PlacesFit
  <2> QED
    BY <2>2, <2>3
<1>7. AnswersFit' /\ HeadersFit' /\ ConnectedFits'
  BY <1>1 DEF HandshakeInv, AnswersFit, HeadersFit, ConnectedFits, OurServer
<1> QED
  BY <1>3, <1>5, <1>6, <1>7 DEF HandshakeInv

(* What leaves everything but the lines to the server alone. *)
LEMMA OtherStepsKeep ==
  ASSUME HandshakeInv,
         UNCHANGED <<kind, toClient, client, handshake, statusLine, headers, response, inherited,
                     server, pending, taken, crowded, maxPending>>
  PROVE  HandshakeInv'
<1>1. HandshakeTypes'
  BY DEF HandshakeInv, HandshakeTypes
<1>2. QueueFits' /\ PlacesFit'
  BY Unqueued
<1>3. AnswersFit' /\ HeadersFit' /\ ConnectedFits'
  BY DEF HandshakeInv, AnswersFit, HeadersFit, ConnectedFits, OurServer
<1> QED
  BY <1>1, <1>2, <1>3 DEF HandshakeInv

LEMMA HandshakeStarts ==
  ASSUME HandshakeInit
  PROVE  HandshakeInv
<1>1. << >> \in Seq(Lines) /\ << >> \in Seq(Connections) /\ \A w : ~ Has(<< >>, w)
  BY DEF Has
<1>2. HandshakeTypes
  BY <1>1, HandshakeAssumption DEF HandshakeInit, HandshakeTypes
<1>3. /\ pending = << >> /\ taken = {}
      /\ \A c \in Connections : server[c] = "none"
  BY DEF HandshakeInit
<1>4. QueueFits
  <2>1. \A c : ~ Has(pending, c)
    BY <1>1, <1>3
  <2>2. DOMAIN pending = {}
    BY <1>3
  <2> QED
    BY <1>3, <2>1, <2>2 DEF QueueFits
<1>5. PlacesFit
  BY <1>3 DEF PlacesFit
<1>6. \A c \in Connections : toClient[c] = << >> /\ response[c] = << >>
                              /\ handshake[c] = "NothingDone" /\ client[c] = "unconnected"
  BY DEF HandshakeInit
<1>7. AnswersFit /\ HeadersFit /\ ConnectedFits
  BY <1>1, <1>6 DEF AnswersFit, HeadersFit, ConnectedFits
<1> QED
  BY <1>2, <1>4, <1>5, <1>7 DEF HandshakeInv

LEMMA HandshakeSteps ==
  ASSUME HandshakeInv, [HandshakeNext]_handshakeVars
  PROVE  HandshakeInv'
<1>1. ASSUME NEW c \in Connections, ArriveAtServer(c) PROVE HandshakeInv'
  BY <1>1, OtherStepsKeep DEF ArriveAtServer, clientVars, serverVars
<1>2. ASSUME Listen \/ UNCHANGED handshakeVars PROVE HandshakeInv'
  BY <1>2, OtherStepsKeep DEF Listen, handshakeVars, linkVars, clientVars, serverVars
<1>3. ASSUME NEW c \in Connections, Open(c) PROVE HandshakeInv'
  BY <1>3, OpenNewKeeps, OpenAgainKeeps DEF Open
<1> QED
  BY <1>1, <1>2, <1>3, ConnectedKeeps, RefusedKeeps, CheckHandshakeKeeps, AnswerHandshakeKeeps,
     ReadStatusKeeps, ReadHeaderLineKeeps, ParseHeaderKeeps, ConnectionLostKeeps,
     NextPendingConnectionKeeps, SetMaxPendingConnectionsKeeps, CloseServerKeeps
     DEF HandshakeNext

(* The inductive invariant of the handshake: the queue holds the web       *)
(* sockets that nobody has taken, and has a place for those that slots     *)
(* decide on (handshakeReceived, addPendingConnection); our server sends   *)
(* the key to connections that it upgrades, and to no other; and a client  *)
(* looks at the status and the headers of one response, except on a        *)
(* QWebSocket that was opened again in the middle of one                   *)
(* (processHandshake).                                                     *)
THEOREM HandshakeAlways == HandshakeSpec => []HandshakeInv
<1> QED
  BY HandshakeStarts, HandshakeSteps, PTL DEF HandshakeSpec

(* A client is connected only by a response with the key of its own        *)
(* request, and our server has upgraded then.  The response says 101 and   *)
(* has the three headers (processHandshake), however often its QWebSocket  *)
(* was opened, unless the connection before ended in the middle of the     *)
(* headers: open() does not reset the handshake.                           *)
THEOREM BothEndsUpgradeAlways == HandshakeSpec => []BothEndsUpgrade
<1>1. HandshakeInv => BothEndsUpgrade
  <2> SUFFICES ASSUME HandshakeInv, NEW c \in Connections, client[c] = "connected"
               PROVE  /\ Has(response[c], "Accept")
                      /\ OurServer(c) => server[c] \in {"upgraded", "closed"}
                      /\ \/ inherited[c]
                         \/ /\ response[c][1] = "101"
                            /\ \A w \in {"Accept", "Upgrade", "Connection"} :
                                 Has(response[c], w)
    BY DEF BothEndsUpgrade
  <2>1. /\ Has(response[c], "Accept")
        /\ \/ inherited[c]
           \/ /\ response[c] # << >> /\ response[c][1] = "101"
              /\ \A w \in {"Accept", "Upgrade", "Connection"} : Has(response[c], w)
    BY DEF HandshakeInv, ConnectedFits
  <2> QED
    BY <2>1 DEF HandshakeInv, AnswersFit
<1> QED
  BY <1>1, HandshakeAlways, PTL

(* A web socket that the server made waits in the queue exactly once until *)
(* it is taken: the checks of handshakeReceived and addPendingConnection   *)
(* agree, whatever slots of originAuthenticationRequired do between them,  *)
(* except for lowering the limit or having another web socket made.        *)
THEOREM UpgradesKeptAlways == HandshakeSpec => []UpgradesKept
<1>1. HandshakeInv => UpgradesKept
  BY DEF HandshakeInv, QueueFits, UpgradesKept
<1> QED
  BY <1>1, HandshakeAlways, PTL

-----------------------------------------------------------------------------
(* The end of a connection: its inductive invariant.                       *)

LogFields == {"intended", "delivered", "pings", "pongs", "late", "disconnected"}

ClosingTypes ==
  /\ DOMAIN log = Ends /\ \A e \in Ends : DOMAIN log[e] = LogFields
  /\ DOMAIN state = Ends /\ DOMAIN sent = Ends /\ DOMAIN about = Ends /\ DOMAIN opened = Ends
  /\ DOMAIN socket = Ends /\ DOMAIN reader = Ends

(* A close frame is sent with the slots of aboutToClose() still running,   *)
(* or the socket is closed, and while they run no frame is dispatched.     *)
WritesFit ==
  \A e \in Ends :
    /\ about[e] => reader[e].at \in {"idle", "slot", "last slot"}
    /\ sent[e] => about[e] \/ ~ opened[e]
    /\ ~ log[e].late

DisconnectsFit ==
  \A e \in Ends :
    /\ log[e].disconnected \in {0, 1}
    /\ state[e] # "unconnected" => log[e].disconnected = 0

ClosingInv == ClosingTypes /\ WritesFit /\ DisconnectsFit

(* Only messages, pings and pongs are logged. *)
OnlyMessagesLogged ==
  /\ DOMAIN log' = Ends
  /\ \A e \in Ends : DOMAIN log'[e] = LogFields /\ ~ log'[e].late
                    /\ log'[e].disconnected = log[e].disconnected

(* What neither writes nor closes nor disconnects. *)
LEMMA QuietSteps ==
  ASSUME ClosingInv,
         UNCHANGED <<state, sent, about, opened, socket>>,
         OnlyMessagesLogged,
         DOMAIN reader' = Ends, \A e \in Ends : about[e] => reader'[e] = reader[e]
  PROVE  ClosingInv'
<1>1. ClosingTypes'
  BY DEF ClosingInv, ClosingTypes, OnlyMessagesLogged
<1>2. WritesFit'
  BY DEF ClosingInv, WritesFit, OnlyMessagesLogged
<1>3. DisconnectsFit'
  BY DEF ClosingInv, DisconnectsFit, OnlyMessagesLogged
<1> QED
  BY <1>1, <1>2, <1>3 DEF ClosingInv

(* LogWrite of an end that has not sent its close frame, or whose socket   *)
(* is closed.                                                              *)
LEMMA LogWriteIs ==
  ASSUME ClosingTypes, WritesFit, NEW e \in Ends, ~ about[e]
  PROVE  /\ DOMAIN LogWrite(e) = LogFields
         /\ ~ LogWrite(e).late /\ LogWrite(e).disconnected = log[e].disconnected
<1>1. ~ (Writable(e) /\ sent[e]) /\ ~ log[e].late
  BY DEF WritesFit, Writable
<1>2. DOMAIN log[e] = LogFields
  BY DEF ClosingTypes
<1>3. LogWrite(e) = [log[e] EXCEPT !.late = FALSE]
  BY <1>1 DEF LogWrite
<1> QED
  BY <1>2, <1>3 DEF LogFields

(* The changes of one log. *)
LEMMA LogChanges ==
  ASSUME ClosingInv, NEW e \in Ends, NEW l, log' = [log EXCEPT ![e] = l],
         DOMAIN l = LogFields, ~ l.late, l.disconnected = log[e].disconnected
  PROVE  OnlyMessagesLogged
<1>1. /\ DOMAIN log = Ends /\ \A d \in Ends : DOMAIN log[d] = LogFields
      /\ \A d \in Ends : ~ log[d].late
  BY DEF ClosingInv, ClosingTypes, WritesFit
<1>2. DOMAIN log' = Ends /\ \A d \in Ends : log'[d] = IF d = e THEN l ELSE log[d]
  BY <1>1
<1> QED
  BY <1>1, <1>2 DEF OnlyMessagesLogged

LEMMA SameLogs ==
  ASSUME ClosingInv, log' = log
  PROVE  OnlyMessagesLogged
BY DEF ClosingInv, ClosingTypes, WritesFit, OnlyMessagesLogged

-----------------------------------------------------------------------------
(* Who writes. *)

LEMMA SendKeeps ==
  ASSUME ClosingInv, ~ WritesLast, NEW e \in Ends, Send(e)
  PROVE  ClosingInv'
<1>1. /\ ~ about[e] /\ UNCHANGED <<state, sent, about, opened, socket, reader>>
      /\ \E m : log' = [log EXCEPT ![e] = [LogWrite(e) EXCEPT !.intended = Append(@, m)]]
  BY DEF Send, MayWrite, MayCall, InLoop, InSlot
<1>2. PICK m : log' = [log EXCEPT ![e] = [LogWrite(e) EXCEPT !.intended = Append(@, m)]]
  BY <1>1
<1>3. /\ DOMAIN LogWrite(e) = LogFields
      /\ ~ LogWrite(e).late /\ LogWrite(e).disconnected = log[e].disconnected
  BY <1>1, LogWriteIs DEF ClosingInv
<1> DEFINE l == [LogWrite(e) EXCEPT !.intended = Append(@, m)]
<1>4. DOMAIN l = LogFields /\ ~ l.late /\ l.disconnected = log[e].disconnected
  BY <1>3 DEF LogFields
<1>5. log' = [log EXCEPT ![e] = l]
  BY <1>2
<1> HIDE DEF l
<1>6. OnlyMessagesLogged
  BY <1>4, <1>5, LogChanges
<1> QED
  BY <1>1, <1>6, QuietSteps DEF ClosingInv, ClosingTypes

LEMMA PingKeeps ==
  ASSUME ClosingInv, ~ WritesLast, NEW e \in Ends, Ping(e)
  PROVE  ClosingInv'
<1>1. /\ ~ about[e] /\ UNCHANGED <<state, sent, about, opened, socket, reader>>
      /\ \E p : log' = [log EXCEPT ![e] = [LogWrite(e) EXCEPT !.pings = Append(@, p)]]
  BY DEF Ping, MayWrite, MayCall, InLoop, InSlot
<1>2. PICK p : log' = [log EXCEPT ![e] = [LogWrite(e) EXCEPT !.pings = Append(@, p)]]
  BY <1>1
<1>3. /\ DOMAIN LogWrite(e) = LogFields
      /\ ~ LogWrite(e).late /\ LogWrite(e).disconnected = log[e].disconnected
  BY <1>1, LogWriteIs DEF ClosingInv
<1> DEFINE l == [LogWrite(e) EXCEPT !.pings = Append(@, p)]
<1>4. DOMAIN l = LogFields /\ ~ l.late /\ l.disconnected = log[e].disconnected
  BY <1>3 DEF LogFields
<1>5. log' = [log EXCEPT ![e] = l]
  BY <1>2
<1> HIDE DEF l
<1>6. OnlyMessagesLogged
  BY <1>4, <1>5, LogChanges
<1> QED
  BY <1>1, <1>6, QuietSteps DEF ClosingInv, ClosingTypes

(* While the slots of aboutToClose() run, no frame is dispatched. *)
LEMMA DispatchIsNotClosing ==
  ASSUME ClosingInv, NEW e \in Ends, reader[e].at = "dispatch"
  PROVE  ~ about[e]
BY DEF ClosingInv, WritesFit

(* The reader of an end changes, and its slots of aboutToClose() do not    *)
(* run.                                                                    *)
LEMMA ReaderChanges ==
  ASSUME ClosingInv, NEW e \in Ends, NEW r, ~ about[e], reader' = [reader EXCEPT ![e] = r]
  PROVE  DOMAIN reader' = Ends /\ \A d \in Ends : about[d] => reader'[d] = reader[d]
BY DEF ClosingInv, ClosingTypes

LEMMA DispatchPingKeeps ==
  ASSUME ClosingInv, NEW e \in Ends, DispatchPing(e)
  PROVE  ClosingInv'
<1>1. /\ reader[e].at = "dispatch" /\ log' = [log EXCEPT ![e] = LogWrite(e)]
      /\ reader' = [reader EXCEPT ![e] = NextFrame(buffer[e])]
      /\ UNCHANGED <<state, sent, about, opened, socket>>
  BY DEF DispatchPing
<1>2. ~ about[e]
  BY <1>1, DispatchIsNotClosing
<1>3. OnlyMessagesLogged
  BY <1>1, <1>2, LogWriteIs, LogChanges DEF ClosingInv
<1>4. DOMAIN reader' = Ends /\ \A d \in Ends : about[d] => reader'[d] = reader[d]
  BY <1>1, <1>2, ReaderChanges
<1> QED
  BY <1>1, <1>3, <1>4, QuietSteps

LEMMA DispatchPongKeeps ==
  ASSUME ClosingInv, NEW e \in Ends, DispatchPong(e)
  PROVE  ClosingInv'
<1> DEFINE l == [log[e] EXCEPT !.pongs = Append(@, reader[e].payload)]
           r == [reader[e] EXCEPT !.at = "last slot"]
<1>1. /\ reader[e].at = "dispatch" /\ log' = [log EXCEPT ![e] = l]
      /\ reader' = [reader EXCEPT ![e] = r]
      /\ UNCHANGED <<state, sent, about, opened, socket>>
  BY DEF DispatchPong
<1>2. ~ about[e]
  BY <1>1, DispatchIsNotClosing
<1>3. DOMAIN l = LogFields /\ ~ l.late /\ l.disconnected = log[e].disconnected
  BY DEF LogFields, ClosingInv, ClosingTypes, WritesFit
<1> HIDE DEF l, r
<1>4. OnlyMessagesLogged
  BY <1>1, <1>3, LogChanges
<1>5. DOMAIN reader' = Ends /\ \A d \in Ends : about[d] => reader'[d] = reader[d]
  BY <1>1, <1>2, ReaderChanges
<1> QED
  BY <1>1, <1>4, <1>5, QuietSteps

LEMMA DispatchDataKeeps ==
  ASSUME ClosingInv, NEW e \in Ends, DispatchData(e)
  PROVE  ClosingInv'
<1>1. /\ reader[e].at = "dispatch"
      /\ UNCHANGED <<state, sent, about, opened, socket>>
      /\ \E m : log' = [log EXCEPT ![e].delivered = m]
      /\ \E at : reader' = [reader EXCEPT ![e].at = at]
  BY DEF DispatchData
<1>2. PICK m, at : /\ log' = [log EXCEPT ![e].delivered = m]
                   /\ reader' = [reader EXCEPT ![e].at = at]
  BY <1>1
<1> DEFINE l == [log[e] EXCEPT !.delivered = m]
           r == [reader[e] EXCEPT !.at = at]
<1>3. log' = [log EXCEPT ![e] = l] /\ reader' = [reader EXCEPT ![e] = r]
  BY <1>2
<1>4. ~ about[e]
  BY <1>1, DispatchIsNotClosing
<1>5. DOMAIN l = LogFields /\ ~ l.late /\ l.disconnected = log[e].disconnected
  BY DEF LogFields, ClosingInv, ClosingTypes, WritesFit
<1> HIDE DEF l, r
<1>6. OnlyMessagesLogged
  BY <1>3, <1>5, LogChanges
<1>7. DOMAIN reader' = Ends /\ \A d \in Ends : about[d] => reader'[d] = reader[d]
  BY <1>3, <1>4, ReaderChanges
<1> QED
  BY <1>1, <1>6, <1>7, QuietSteps

-----------------------------------------------------------------------------
(* Who closes. *)

LEMMA CloseSocketKeeps ==
  ASSUME ClosingInv, NEW e \in Ends, CloseSocket(e), log' = log, sent' = sent,
         DOMAIN about' = Ends, \A d \in Ends : d # e => about'[d] = about[d], ~ about'[e],
         DOMAIN reader' = Ends, \A d \in Ends : d # e => reader'[d] = reader[d]
  PROVE  ClosingInv'
<1>1. /\ opened' = [opened EXCEPT ![e] = FALSE]
      /\ DOMAIN socket' = DOMAIN socket /\ DOMAIN state' = DOMAIN state
      /\ \A d \in Ends : state'[d] = state[d]
                         \/ (state[d] = "connected" /\ state'[d] = "closing")
  BY DEF CloseSocket, ClosingInv, ClosingTypes
<1>2. DOMAIN opened' = Ends /\ \A d \in Ends : opened'[d] = IF d = e THEN FALSE ELSE opened[d]
  BY <1>1 DEF ClosingInv, ClosingTypes
<1>3. ClosingTypes'
  BY <1>1, <1>2 DEF ClosingInv, ClosingTypes
<1>4. WritesFit'
  BY <1>2 DEF ClosingInv, WritesFit
<1>5. DisconnectsFit'
  BY <1>1 DEF ClosingInv, DisconnectsFit
<1> QED
  BY <1>3, <1>4, <1>5 DEF ClosingInv

LEMMA FinishCloseKeeps ==
  ASSUME ClosingInv, NEW e \in Ends, FinishClose(e)
  PROVE  ClosingInv'
<1>1. CloseSocket(e) /\ about' = [about EXCEPT ![e] = FALSE] /\ UNCHANGED <<log, sent, reader>>
  BY DEF FinishClose
<1>2. DOMAIN about' = Ends /\ ~ about'[e] /\ \A d \in Ends : d # e => about'[d] = about[d]
  BY <1>1 DEF ClosingInv, ClosingTypes
<1>3. DOMAIN reader' = Ends /\ \A d \in Ends : d # e => reader'[d] = reader[d]
  BY <1>1 DEF ClosingInv, ClosingTypes
<1> QED
  BY <1>1, <1>2, <1>3, CloseSocketKeeps

(* close, with the reader somewhere where the slots of aboutToClose() may  *)
(* find it.                                                                *)
LEMMA CloseCallKeeps ==
  ASSUME ClosingInv, NEW e \in Ends, NEW code, NEW reason, NEW key,
         close(e, code, reason, key), ~ about[e],
         DOMAIN reader' = Ends, \A d \in Ends : d # e => reader'[d] = reader[d],
         reader'[e].at \in {"idle", "slot", "last slot"}
  PROVE  ClosingInv'
<1>1. CASE sent[e]
  <2>1. CloseSocket(e) /\ UNCHANGED <<log, sent, about>>
    BY <1>1 DEF close
  <2>2. DOMAIN about' = Ends /\ ~ about'[e] /\ \A d \in Ends : d # e => about'[d] = about[d]
    BY <2>1 DEF ClosingInv, ClosingTypes
  <2> QED
    BY <2>1, <2>2, CloseSocketKeeps
<1>2. CASE ~ sent[e]
  <2>1. /\ log' = [log EXCEPT ![e] = LogWrite(e)] /\ sent' = [sent EXCEPT ![e] = TRUE]
        /\ about' = [about EXCEPT ![e] = TRUE] /\ UNCHANGED <<opened, socket, state>>
    BY <1>2 DEF close
  <2>2. OnlyMessagesLogged
    BY <2>1, LogWriteIs, LogChanges DEF ClosingInv
  <2>3. /\ DOMAIN sent' = Ends /\ \A d \in Ends : d # e => sent'[d] = sent[d]
        /\ DOMAIN about' = Ends /\ about'[e] /\ \A d \in Ends : d # e => about'[d] = about[d]
    BY <2>1 DEF ClosingInv, ClosingTypes
  <2>4. ClosingTypes'
    BY <2>1, <2>2, <2>3 DEF ClosingInv, ClosingTypes, OnlyMessagesLogged
  <2>5. WritesFit'
    BY <2>1, <2>2, <2>3 DEF ClosingInv, WritesFit, OnlyMessagesLogged
  <2>6. DisconnectsFit'
    BY <2>1, <2>2 DEF ClosingInv, DisconnectsFit, OnlyMessagesLogged
  <2> QED
    BY <2>4, <2>5, <2>6 DEF ClosingInv
<1> QED
  BY <1>1, <1>2

LEMMA CloseKeeps ==
  ASSUME ClosingInv, NEW e \in Ends, Close(e)
  PROVE  ClosingInv'
<1>1. /\ ~ about[e] /\ reader[e].at \in {"idle", "slot", "last slot"} /\ reader' = reader
      /\ \E key : close(e, CloseCalls[e].code, CloseCalls[e].reason, key)
  BY DEF Close, MayCall, InLoop, InSlot
<1>2. DOMAIN reader' = Ends
  BY <1>1 DEF ClosingInv, ClosingTypes
<1> QED
  BY <1>1, <1>2, CloseCallKeeps

LEMMA IdleAfterClose ==
  ASSUME ClosingInv, NEW e \in Ends, reader' = [reader EXCEPT ![e] = Idle]
  PROVE  /\ DOMAIN reader' = Ends /\ \A d \in Ends : d # e => reader'[d] = reader[d]
         /\ reader'[e].at = "idle"
<1>1. Idle.at = "idle"
  BY DEF Idle, NewFrame
<1> QED
  BY <1>1 DEF ClosingInv, ClosingTypes

LEMMA DispatchErrorKeeps ==
  ASSUME ClosingInv, NEW e \in Ends, DispatchError(e)
  PROVE  ClosingInv'
<1>1. /\ reader[e].at = "dispatch" /\ reader' = [reader EXCEPT ![e] = Idle]
      /\ \E code, key : close(e, code, << >>, key)
  BY DEF DispatchError
<1>2. ~ about[e]
  BY <1>1, DispatchIsNotClosing
<1> QED
  BY <1>1, <1>2, IdleAfterClose, CloseCallKeeps

LEMMA DispatchCloseKeeps ==
  ASSUME ClosingInv, NEW e \in Ends, DispatchClose(e)
  PROVE  ClosingInv'
<1>1. /\ reader[e].at = "dispatch" /\ reader' = [reader EXCEPT ![e] = Idle]
      /\ \E code, reason, key : close(e, code, reason, key)
  BY DEF DispatchClose
<1>2. ~ about[e]
  BY <1>1, DispatchIsNotClosing
<1> QED
  BY <1>1, <1>2, IdleAfterClose, CloseCallKeeps

-----------------------------------------------------------------------------
(* Who disconnects. *)

LEMMA UnconnectedKeeps ==
  ASSUME ClosingInv, NEW e \in Ends,
         state' = StateAfterUnconnected(e), log' = LogUnconnected(e),
         UNCHANGED <<sent, about, reader>>, DOMAIN socket' = Ends,
         DOMAIN opened' = Ends, \A d \in Ends : opened'[d] => opened[d]
  PROVE  ClosingInv'
<1> DEFINE n == IF state[e] = "unconnected" THEN log[e].disconnected ELSE log[e].disconnected + 1
           l == [log[e] EXCEPT !.disconnected = n]
<1>1. log' = [log EXCEPT ![e] = l]
  BY DEF LogUnconnected
<1>2. n \in {0, 1}
  BY DEF ClosingInv, DisconnectsFit
<1>3. DOMAIN l = LogFields /\ l.late = log[e].late /\ l.disconnected = n
  <2> HIDE DEF n
  <2> QED
    BY DEF ClosingInv, ClosingTypes, LogFields
<1> HIDE DEF n, l
<1>4. /\ DOMAIN log' = Ends
      /\ \A d \in Ends : log'[d] = IF d = e THEN l ELSE log[d]
  BY <1>1 DEF ClosingInv, ClosingTypes
<1>5. /\ DOMAIN state' = Ends
      /\ \A d \in Ends : state'[d] = IF d = e THEN "unconnected" ELSE state[d]
  BY DEF ClosingInv, ClosingTypes, StateAfterUnconnected
<1>6. ClosingTypes'
  BY <1>3, <1>4, <1>5 DEF ClosingInv, ClosingTypes
<1>7. WritesFit'
  BY <1>3, <1>4 DEF ClosingInv, WritesFit
<1>8. DisconnectsFit'
  BY <1>2, <1>3, <1>4, <1>5 DEF ClosingInv, DisconnectsFit
<1> QED
  BY <1>6, <1>7, <1>8 DEF ClosingInv

LEMMA DisconnectsKeep ==
  ASSUME ClosingInv, NEW e \in Ends, Abort(e) \/ Disconnect(e) \/ RemoteClosed(e)
  PROVE  ClosingInv'
<1>1. /\ state' = StateAfterUnconnected(e) /\ log' = LogUnconnected(e)
      /\ UNCHANGED <<sent, about, reader>>
      /\ socket' = [socket EXCEPT ![e] = "unconnected"]
      /\ opened' = [opened EXCEPT ![e] = FALSE] \/ opened' = opened
  BY DEF Abort, Disconnect, RemoteClosed
<1>2. DOMAIN socket' = Ends /\ DOMAIN opened' = Ends /\ \A d \in Ends : opened'[d] => opened[d]
  BY <1>1 DEF ClosingInv, ClosingTypes
<1> QED
  BY <1>1, <1>2, UnconnectedKeeps

-----------------------------------------------------------------------------
(* The other steps. *)

LEMMA ReadersKeep ==
  ASSUME ClosingInv, NEW e \in Ends,
         ProcessData(e) \/ Read(e) \/ ReadFails(e) \/ SlotReturns(e)
  PROVE  ClosingInv'
<1>1. ~ about[e] /\ UNCHANGED <<state, sent, about, opened, socket, log>>
  BY DEF ProcessData, InLoop, Read, ReadFails, Blocked, Reading, SlotReturns, InSlot
<1>2. \E r : reader' = [reader EXCEPT ![e] = r]
  BY DEF ProcessData, Read, ReadFails, SlotReturns
<1>3. DOMAIN reader' = Ends /\ \A d \in Ends : about[d] => reader'[d] = reader[d]
  BY <1>1, <1>2, ReaderChanges
<1> QED
  BY <1>1, <1>3, SameLogs, QuietSteps

LEMMA TransportKeeps ==
  ASSUME ClosingInv,
         Break \/ ForeignCloses \/ UNCHANGED connectionVars \/ \E e \in Ends : Arrive(e)
  PROVE  ClosingInv'
<1>1. /\ UNCHANGED <<state, sent, about, opened, log, reader>>
      /\ socket' = socket \/ socket' = [socket EXCEPT !["client"] = "unconnected"]
  BY DEF Break, ForeignCloses, Arrive, connectionVars
<1>2. ClosingTypes'
  BY <1>1 DEF ClosingInv, ClosingTypes
<1> QED
  BY <1>1, <1>2 DEF ClosingInv, WritesFit, DisconnectsFit

LEMMA ConnectionStarts ==
  ASSUME ConnectionInit
  PROVE  ClosingInv
<1>1. /\ DOMAIN NewLog = LogFields /\ ~ NewLog.late /\ NewLog.disconnected = 0
  BY DEF NewLog, LogFields
<1>2. ASSUME NEW m
      PROVE  LET l == [NewLog EXCEPT !.intended = m] IN
             DOMAIN l = LogFields /\ ~ l.late /\ l.disconnected = 0
  BY DEF NewLog, LogFields
<1>3. /\ DOMAIN log = Ends
      /\ \A e \in Ends : DOMAIN log[e] = LogFields /\ ~ log[e].late /\ log[e].disconnected = 0
  <2>1. CASE log = [e \in Ends |-> NewLog]
    BY <1>1, <2>1
  <2>2. CASE \E m : log = [client |-> [NewLog EXCEPT !.intended = m], server |-> NewLog]
    <3>1. PICK m : log = [client |-> [NewLog EXCEPT !.intended = m], server |-> NewLog]
      BY <2>2
    <3>2. /\ DOMAIN log = Ends /\ log["server"] = NewLog
          /\ log["client"] = [NewLog EXCEPT !.intended = m]
      BY <3>1 DEF Ends
    <3> QED
      BY <1>1, <1>2, <3>2 DEF Ends
  <2> QED
    BY <2>1, <2>2 DEF ConnectionInit
<1>4. Idle.at = "idle"
  BY DEF Idle, NewFrame
<1>5. ClosingTypes
  BY <1>3 DEF ConnectionInit, ClosingTypes
<1>6. WritesFit /\ DisconnectsFit
  BY <1>3 DEF ConnectionInit, WritesFit, DisconnectsFit
<1> QED
  BY <1>5, <1>6 DEF ClosingInv

LEMMA ConnectionSteps ==
  ASSUME ClosingInv, ~ WritesLast, [ConnectionNext]_connectionVars
  PROVE  ClosingInv'
BY SendKeeps, PingKeeps, CloseKeeps, DisconnectsKeep, ReadersKeep, TransportKeeps,
   FinishCloseKeeps, DispatchErrorKeeps, DispatchPingKeeps, DispatchPongKeeps,
   DispatchCloseKeeps, DispatchDataKeeps DEF ConnectionNext, Run, Dispatch

(* The inductive invariant of the end of a connection: who has sent its    *)
(* close frame runs the slots of aboutToClose() or has closed its socket,  *)
(* and dispatches no frame meanwhile.  The slots write nothing (the        *)
(* contrary is what the property LastDataPrecedesClose is about).          *)
THEOREM ClosingAlways ==
  ASSUME ~ WritesLast
  PROVE  ConnectionSpec => []ClosingInv
<1> QED
  BY ConnectionStarts, ConnectionSteps, PTL DEF ConnectionSpec

(* Nothing follows the close frame of an end (QWebSocketPrivate::close),   *)
(* not even the answer to a ping, and disconnected() is emitted once.      *)
THEOREM CloseFrameIsLastAlways ==
  ASSUME ~ WritesLast
  PROVE  ConnectionSpec => []CloseFrameIsLast
<1>1. \A n \in {0, 1} : n <= 1
  OBVIOUS
<1>2. ClosingInv => CloseFrameIsLast
  BY <1>1 DEF ClosingInv, WritesFit, DisconnectsFit, CloseFrameIsLast
<1> QED
  BY <1>2, ClosingAlways, PTL

-----------------------------------------------------------------------------
(* Sequences, whatever they are made of. *)

IsSeq(s) == s \in Seq(ToSet(s))

LEMMA IsSeqOf ==
  ASSUME NEW S, NEW s \in Seq(S)
  PROVE  IsSeq(s)
<1>1. /\ Len(s) \in Nat /\ DOMAIN s = 1 .. Len(s)
      /\ s = [i \in 1 .. Len(s) |-> s[i]]
  BY LenProperties
<1>2. \A i \in 1 .. Len(s) : s[i] \in ToSet(s)
  BY <1>1 DEF ToSet
<1> DEFINE T == ToSet(s)
<1> HIDE DEF T
<1>3. s \in [1 .. Len(s) -> T]
  BY <1>1, <1>2 DEF T
<1>4. s \in Seq(T)
  BY <1>1, <1>3
<1> QED
  BY <1>4 DEF IsSeq, T

LEMMA SeqIs ==
  ASSUME NEW s, IsSeq(s)
  PROVE  /\ Len(s) \in Nat /\ DOMAIN s = 1 .. Len(s)
         /\ s = << >> <=> Len(s) = 0
<1> DEFINE T == ToSet(s)
<1>1. s \in Seq(T)
  BY DEF IsSeq
<1> HIDE DEF T
<1> QED
  BY <1>1, LenProperties, EmptySeq

LEMMA JoinOf ==
  ASSUME NEW s, NEW t, IsSeq(s), IsSeq(t)
  PROVE  /\ IsSeq(s \o t) /\ Len(s \o t) = Len(s) + Len(t)
         /\ \A i \in 1 .. Len(s) : (s \o t)[i] = s[i]
         /\ \A i \in 1 .. Len(t) : (s \o t)[Len(s) + i] = t[i]
<1> DEFINE T == ToSet(s) \cup ToSet(t)
<1>1. s \in Seq(ToSet(s)) /\ t \in Seq(ToSet(t))
  BY DEF IsSeq
<1>2. s \in Seq(T) /\ t \in Seq(T)
  BY <1>1, SeqMonotonic
<1> HIDE DEF T
<1>3. /\ s \o t \in Seq(T) /\ Len(s \o t) = Len(s) + Len(t)
      /\ \A i \in 1 .. Len(s) + Len(t) :
           (s \o t)[i] = IF i <= Len(s) THEN s[i] ELSE t[i - Len(s)]
  BY <1>2, ConcatProperties
<1>4. Len(s) \in Nat /\ Len(t) \in Nat
  BY SeqIs
<1>5. \A i \in 1 .. Len(s) : i \in 1 .. Len(s) + Len(t) /\ i <= Len(s)
  BY <1>4
<1>6. \A i \in 1 .. Len(t) : /\ Len(s) + i \in 1 .. Len(s) + Len(t)
                             /\ ~ (Len(s) + i <= Len(s)) /\ (Len(s) + i) - Len(s) = i
  BY <1>4
<1> QED
  BY <1>3, <1>5, <1>6, IsSeqOf

LEMMA JoinThree ==
  ASSUME NEW s, NEW t, NEW u, IsSeq(s), IsSeq(t), IsSeq(u)
  PROVE  /\ (s \o t) \o u = s \o (t \o u)
         /\ s \o << >> = s /\ << >> \o s = s /\ IsSeq(<< >>)
<1> DEFINE T == ToSet(s) \cup ToSet(t) \cup ToSet(u)
<1>1. s \in Seq(ToSet(s)) /\ t \in Seq(ToSet(t)) /\ u \in Seq(ToSet(u))
  BY DEF IsSeq
<1>2. s \in Seq(T) /\ t \in Seq(T) /\ u \in Seq(T)
  BY <1>1, SeqMonotonic
<1> HIDE DEF T
<1>3. << >> \in Seq(T)
  BY EmptySeq
<1>4. IsSeq(<< >>)
  BY <1>3, IsSeqOf
<1>5. (s \o t) \o u = s \o (t \o u)
  BY <1>2, ConcatAssociative
<1>6. s \o << >> = s /\ << >> \o s = s
  BY <1>2, ConcatEmptySeq
<1> QED
  BY <1>4, <1>5, <1>6

LEMMA AppendOf ==
  ASSUME NEW s, NEW x, IsSeq(s)
  PROVE  /\ IsSeq(Append(s, x)) /\ Len(Append(s, x)) = Len(s) + 1
         /\ \A i \in 1 .. Len(s) : Append(s, x)[i] = s[i]
         /\ Append(s, x)[Len(s) + 1] = x
         /\ IsSeq(<<x>>) /\ Append(s, x) = s \o <<x>>
<1> DEFINE T == ToSet(s) \cup {x}
<1>1. s \in Seq(ToSet(s))
  BY DEF IsSeq
<1>2. s \in Seq(T) /\ x \in T
  BY <1>1, SeqMonotonic
<1> HIDE DEF T
<1>3. <<x>> \in Seq(T)
  BY <1>2
<1>4. /\ Append(s, x) \in Seq(T) /\ Len(Append(s, x)) = Len(s) + 1
      /\ \A i \in 1 .. Len(s) : Append(s, x)[i] = s[i]
      /\ Append(s, x)[Len(s) + 1] = x
  BY <1>2, AppendProperties
<1> QED
  BY <1>2, <1>3, <1>4, IsSeqOf, AppendIsConcat

LEMMA TailOf ==
  ASSUME NEW s, IsSeq(s), s # << >>
  PROVE  /\ IsSeq(Tail(s)) /\ Len(s) \in Nat \ {0} /\ Len(Tail(s)) = Len(s) - 1
         /\ Head(s) = s[1] /\ s = <<Head(s)>> \o Tail(s)
         /\ \A i \in 1 .. Len(s) - 1 : Tail(s)[i] = s[i + 1]
<1> DEFINE T == ToSet(s)
<1>1. s \in Seq(T)
  BY DEF IsSeq
<1> HIDE DEF T
<1>2. /\ Len(s) \in Nat \ {0} /\ Head(s) = s[1] /\ Head(s) \in T
      /\ Tail(s) \in Seq(T) /\ Len(Tail(s)) = Len(s) - 1
      /\ \A i \in 1 .. Len(s) - 1 : Tail(s)[i] = s[i + 1]
  BY <1>1, EmptySeq, HeadTailProperties
<1>3. s = <<Head(s)>> \o Tail(s)
  <2>1. 1 \in 1 .. Len(s) /\ Len(s) \in 1 .. Len(s)
    BY <1>2
  <2>2. SubSeq(s, 1, Len(s)) = <<s[1]>> \o SubSeq(s, 1 + 1, Len(s))
    BY <1>1, <2>1, SubSeqRecursiveFirst
  <2>3. SubSeq(s, 1, Len(s)) = s /\ Tail(s) = SubSeq(s, 2, Len(s))
    BY <1>1, SubSeqFull, TailIsSubSeq
  <2> QED
    BY <1>2, <2>2, <2>3
<1> QED
  BY <1>2, <1>3, IsSeqOf

(* What has arrived and what is under way. *)
LEMMA MoveOne ==
  ASSUME NEW s, NEW t, IsSeq(s), IsSeq(t), t # << >>
  PROVE  Append(s, Head(t)) \o Tail(t) = s \o t
<1>1. /\ IsSeq(Tail(t)) /\ t = <<Head(t)>> \o Tail(t)
      /\ IsSeq(<<Head(t)>>) /\ Append(s, Head(t)) = s \o <<Head(t)>>
  BY TailOf, AppendOf
<1> DEFINE h == <<Head(t)>>
           u == Tail(t)
<1>2. IsSeq(s) /\ IsSeq(h) /\ IsSeq(u)
  BY <1>1
<1> HIDE DEF h, u
<1>3. (s \o h) \o u = s \o (h \o u)
  BY <1>2, JoinThree
<1> QED
  BY <1>1, <1>3 DEF h, u

LEMMA TakeOne ==
  ASSUME NEW s, NEW t, IsSeq(s), IsSeq(t), s # << >>
  PROVE  s \o t # << >> /\ Head(s \o t) = Head(s) /\ Tail(s \o t) = Tail(s) \o t
<1>1. /\ IsSeq(Tail(s)) /\ s = <<Head(s)>> \o Tail(s) /\ Len(s) \in Nat \ {0} /\ Head(s) = s[1]
      /\ IsSeq(<<Head(s)>>)
  BY TailOf, AppendOf
<1>2. s \o t = <<Head(s)>> \o (Tail(s) \o t)
  BY <1>1, JoinThree
<1> DEFINE u == Tail(s) \o t
<1>3. IsSeq(u)
  BY <1>1, JoinOf
<1> HIDE DEF u
<1>4. Head(<<Head(s)>> \o u) = Head(s) /\ Tail(<<Head(s)>> \o u) = u /\ <<Head(s)>> \o u # << >>
  <2> DEFINE h == Head(s)
             w == <<h>> \o u
  <2>0. IsSeq(<<h>>)
    BY <1>1
  <2> HIDE DEF h
  <2>1. /\ IsSeq(w) /\ Len(w) = Len(<<h>>) + Len(u) /\ Len(<<h>>) = 1 /\ Len(u) \in Nat
        /\ \A i \in 1 .. Len(<<h>>) : w[i] = <<h>>[i]
        /\ \A i \in 1 .. Len(u) : w[Len(<<h>>) + i] = u[i]
    BY <1>3, <2>0, JoinOf, SeqIs
  <2> HIDE DEF w
  <2>2. Len(w) = Len(u) + 1 /\ w[1] = h /\ \A i \in 1 .. Len(u) : w[i + 1] = u[i]
    BY <2>1
  <2>3. w # << >>
    BY <2>1, <2>2, SeqIs
  <2>4. /\ IsSeq(Tail(w)) /\ Len(Tail(w)) = Len(u) /\ Head(w) = h
        /\ \A i \in 1 .. Len(u) : Tail(w)[i] = u[i]
    BY <2>1, <2>2, <2>3, TailOf
  <2>5. Tail(w) = u
    <3> DEFINE T == ToSet(Tail(w)) \cup ToSet(u)
    <3>1. Tail(w) \in Seq(ToSet(Tail(w))) /\ u \in Seq(ToSet(u))
      BY <1>3, <2>4 DEF IsSeq
    <3>2. Tail(w) \in Seq(T) /\ u \in Seq(T)
      BY <3>1, SeqMonotonic
    <3> HIDE DEF T
    <3> QED
      BY <2>4, <3>2, SeqEqual
  <2> QED
    BY <2>3, <2>4, <2>5 DEF w, h
<1> QED
  BY <1>2, <1>4 DEF u

(* s is the begin of t. *)
Begins(s, t) ==
  IsSeq(s) /\ IsSeq(t) /\ Len(s) <= Len(t) /\ \A i \in 1 .. Len(s) : s[i] = t[i]

LEMMA BeginsAppend ==
  ASSUME NEW s, NEW t, NEW x, Begins(s, t)
  PROVE  Begins(s, Append(t, x))
<1>1. IsSeq(s) /\ IsSeq(t) /\ Len(s) \in Nat /\ Len(t) \in Nat /\ Len(s) <= Len(t)
  BY SeqIs DEF Begins
<1>2. \A i \in 1 .. Len(s) : i \in 1 .. Len(t)
  BY <1>1
<1>3. Len(s) <= Len(t) + 1
  BY <1>1
<1> DEFINE u == Append(t, x)
<1>4. IsSeq(u) /\ Len(u) = Len(t) + 1 /\ \A i \in 1 .. Len(t) : u[i] = t[i]
  BY ZenonT(40), <1>1, AppendOf
<1> HIDE DEF u
<1>5. \A i \in 1 .. Len(s) : u[i] = t[i] /\ s[i] = t[i]
  BY <1>2, <1>4 DEF Begins
<1>6. Begins(s, u)
  BY <1>1, <1>3, <1>4, <1>5 DEF Begins
<1> QED
  BY <1>6 DEF u

LEMMA BeginsItself ==
  ASSUME NEW s, IsSeq(s)
  PROVE  Begins(s, s)
BY SeqIs DEF Begins

LEMMA BeginsIsPrefix ==
  ASSUME NEW s, NEW t, Begins(s, t)
  PROVE  IsPrefix(s, t)
<1> DEFINE T == ToSet(s) \cup ToSet(t)
<1>1. s \in Seq(ToSet(s)) /\ t \in Seq(ToSet(t))
  BY DEF IsSeq, Begins
<1>2. s \in Seq(T) /\ t \in Seq(T)
  BY <1>1, SeqMonotonic
<1> HIDE DEF T
<1>3. Len(s) \in Nat /\ Len(t) \in Nat /\ Len(s) <= Len(t)
  BY SeqIs DEF Begins
<1>4. \A i \in 1 .. Len(s) : s[i] \in T /\ t[i] \in T
  BY <1>2, <1>3, ElementOfSeq
<1>5. SubSeq(s, 1, Len(s)) = SubSeq(t, 1, Len(s))
  BY <1>3 DEF Begins
<1> QED
  BY <1>3, <1>5 DEF IsPrefix

-----------------------------------------------------------------------------
(* What an end has made of what it has read so far, without regard to when *)
(* it was read: the frame that it is reading, what its processor has       *)
(* collected, the messages and pongs it has signalled and the pings it has *)
(* answered, and whether it has met something that makes it close.         *)
Receiver(f, p, delivered, pongs, answered, stopped) ==
  [reader |-> f, processor |-> p, delivered |-> delivered, pongs |-> pongs,
   answered |-> answered, stopped |-> stopped]

With(r, f) == Receiver(f, r.processor, r.delivered, r.pongs, r.answered, FALSE)
Stop(r) == Receiver(NewFrame, r.processor, r.delivered, r.pongs, r.answered, TRUE)

(* A frame that makes an end close: an invalid one, or one that says so.   *)
Stops(f, p) ==
  \/ f.error # "none"
  \/ ~ isControlFrame(f.opCode) /\ DataError(p, f) # "none"
  \/ isControlFrame(f.opCode) /\ f.opCode \notin {OpPing, OpPong}

MessageOf(p) ==
  [binary |-> p.opCode # OpText, data |-> IF p.opCode = OpText THEN p.text ELSE p.binary]

Dispatched(r, f) ==
  IF Stops(f, r.processor) THEN Stop(r)
  ELSE IF f.opCode = OpPing
  THEN Receiver(NewFrame, r.processor, r.delivered, r.pongs, Append(r.answered, f.payload), FALSE)
  ELSE IF f.opCode = OpPong
  THEN Receiver(NewFrame, r.processor, r.delivered, Append(r.pongs, f.payload), r.answered, FALSE)
  ELSE IF f.final
  THEN Receiver(NewFrame, NewProcessor,
                Append(r.delivered, MessageOf(Collected(r.processor, f))), r.pongs, r.answered, FALSE)
  ELSE Receiver(NewFrame, Collected(r.processor, f), r.delivered, r.pongs, r.answered, FALSE)

Reached(r, f) == IF f.at = "dispatch" THEN Dispatched(r, f) ELSE With(r, f)

(* One more unit. *)
After(r, u) == IF r.stopped THEN r ELSE Reached(r, ReadUnit(r.reader, u))

AsksPayload(r) == ~ r.stopped /\ r.reader.at = "payload"

(* The units s read one after the other. *)
IsRun(run, r, s) ==
  /\ run[0] = r
  /\ \A i \in 1 .. Len(s) : /\ run[i] = After(run[i - 1], s[i])
                            /\ AsksPayload(run[i - 1]) => IsSeq(s[i].data)

-----------------------------------------------------------------------------
(* Runs that follow each other. *)

Follows(y, run, n, x, m) ==
  /\ \A i \in 0 .. n : y[i] = run[i]
  /\ \A i \in 0 .. m : n + i \in Nat /\ y[n + i] = x[i]

LEMMA RunsJoined ==
  ASSUME NEW run, NEW r, NEW s, NEW x, NEW t, IsSeq(s), IsSeq(t),
         IsRun(run, r, s), IsRun(x, run[Len(s)], t)
  PROVE  \E y : IsRun(y, r, s \o t) /\ Follows(y, run, Len(s), x, Len(t))
<1> DEFINE n == Len(s)
           m == Len(t)
           y == [i \in Nat |-> IF i <= n THEN run[i] ELSE x[i - n]]
           w == s \o t
<1>1. n \in Nat /\ m \in Nat
  BY SeqIs
<1>2. /\ Len(w) = n + m /\ \A i \in 1 .. n : w[i] = s[i]
      /\ \A i \in 1 .. m : w[n + i] = t[i]
  BY JoinOf
<1>3. /\ run[0] = r
      /\ \A i \in 1 .. n : /\ run[i] = After(run[i - 1], s[i])
                           /\ AsksPayload(run[i - 1]) => IsSeq(s[i].data)
  BY DEF IsRun
<1>4. /\ x[0] = run[n]
      /\ \A i \in 1 .. m : /\ x[i] = After(x[i - 1], t[i])
                           /\ AsksPayload(x[i - 1]) => IsSeq(t[i].data)
  BY DEF IsRun
<1> HIDE DEF n, m, w
<1>5. \A i \in 0 .. n : y[i] = run[i]
  BY <1>1
<1>6. \A i \in 0 .. m : n + i \in Nat /\ y[n + i] = x[i]
  <2>1. y[n + 0] = x[0]
    BY <1>1, <1>4, <1>5
  <2>2. \A i \in 1 .. m : n + i \in Nat /\ ~ (n + i <= n) /\ (n + i) - n = i
    BY <1>1
  <2>3. \A i \in 1 .. m : y[n + i] = x[i]
    BY <2>2
  <2>4. \A i \in 0 .. m : i = 0 \/ i \in 1 .. m
    BY <1>1
  <2> QED
    BY <1>1, <2>1, <2>2, <2>3, <2>4
<1> HIDE DEF y
<1>7. ASSUME NEW i \in 1 .. n + m
      PROVE  y[i] = After(y[i - 1], w[i]) /\ (AsksPayload(y[i - 1]) => IsSeq(w[i].data))
  <2>1. CASE i \in 1 .. n
    <3>1. i \in 0 .. n /\ i - 1 \in 0 .. n
      BY <1>1, <2>1
    <3> QED
      BY <1>2, <1>3, <1>5, <2>1, <3>1
  <2>2. CASE i \notin 1 .. n
    <3> DEFINE k == i - n
    <3>1. k \in 1 .. m /\ k \in 0 .. m /\ k - 1 \in 0 .. m /\ i = n + k /\ i - 1 = n + (k - 1)
      BY <1>1, <2>2
    <3> HIDE DEF k
    <3>2. y[i] = x[k] /\ y[i - 1] = x[k - 1] /\ w[i] = t[k]
      BY <1>2, <1>6, <3>1
    <3> QED
      BY <1>4, <3>1, <3>2
  <2> QED
    BY <2>1, <2>2
<1>8. y[0] = r
  BY <1>1, <1>3, <1>5
<1>9. IsRun(y, r, w)
  BY <1>2, <1>7, <1>8 DEF IsRun
<1> QED
  BY <1>5, <1>6, <1>9 DEF n, m, w, Follows

(* What remains of a run. *)
LEMMA RunGoesOn ==
  ASSUME NEW run, NEW r, NEW s, IsSeq(s), s # << >>, IsRun(run, r, s)
  PROVE  LET y == [i \in Nat |-> run[i + 1]] IN
         /\ IsRun(y, After(r, Head(s)), Tail(s))
         /\ AsksPayload(r) => IsSeq(Head(s).data)
         /\ \A i \in 0 .. Len(Tail(s)) : i + 1 \in 0 .. Len(s) /\ y[i] = run[i + 1]
         /\ y[Len(Tail(s))] = run[Len(s)]
<1> DEFINE n == Len(s)
           t == Tail(s)
           y == [i \in Nat |-> run[i + 1]]
<1>1. /\ n \in Nat \ {0} /\ Len(t) = n - 1 /\ Head(s) = s[1]
      /\ \A i \in 1 .. n - 1 : t[i] = s[i + 1]
  BY TailOf
<1>2. /\ run[0] = r
      /\ \A i \in 1 .. n : /\ run[i] = After(run[i - 1], s[i])
                           /\ AsksPayload(run[i - 1]) => IsSeq(s[i].data)
  BY DEF IsRun
<1> HIDE DEF n, t
<1>3. /\ \A i \in 0 .. n - 1 : y[i] = run[i + 1] /\ i + 1 \in 1 .. n /\ i + 1 \in 0 .. n
      /\ 1 \in 1 .. n /\ 1 - 1 = 0
  BY <1>1
<1>4. y[0] = After(r, s[1]) /\ (AsksPayload(r) => IsSeq(s[1].data))
  <2>1. y[0] = run[1]
    BY <1>1, <1>3
  <2> QED
    BY <1>2, <1>3, <2>1
<1> HIDE DEF y
<1>5. ASSUME NEW i \in 1 .. n - 1
      PROVE  y[i] = After(y[i - 1], t[i]) /\ (AsksPayload(y[i - 1]) => IsSeq(t[i].data))
  <2>1. i \in 0 .. n - 1 /\ i - 1 \in 0 .. n - 1 /\ (i - 1) + 1 = i /\ (i + 1) - 1 = i
        /\ i + 1 \in 1 .. n
    BY <1>1
  <2>2. y[i] = run[i + 1] /\ y[i - 1] = run[i] /\ t[i] = s[i + 1]
    BY <1>1, <1>3, <2>1
  <2> QED
    BY <1>2, <2>1, <2>2
<1>6. IsRun(y, After(r, s[1]), t)
  BY <1>1, <1>4, <1>5 DEF IsRun
<1>7. n - 1 \in 0 .. n - 1 /\ (n - 1) + 1 = n
  BY <1>1
<1>8. y[n - 1] = run[n]
  BY <1>3, <1>7
<1> QED
  BY <1>1, <1>3, <1>4, <1>6, <1>8 DEF n, t, y

(* The begin of a run. *)
LEMMA RunBegins ==
  ASSUME NEW run, NEW r, NEW s, NEW t, IsSeq(s), IsSeq(t), IsRun(run, r, s \o t)
  PROVE  IsRun(run, r, s) /\ \A i \in 0 .. Len(s) : i \in 0 .. Len(s \o t)
<1>1. /\ Len(s) \in Nat /\ Len(t) \in Nat /\ Len(s \o t) = Len(s) + Len(t)
      /\ \A i \in 1 .. Len(s) : (s \o t)[i] = s[i]
  BY SeqIs, JoinOf
<1>2. \A i \in 1 .. Len(s) : i \in 1 .. Len(s) + Len(t)
  BY <1>1
<1>3. \A i \in 0 .. Len(s) : i \in 0 .. Len(s) + Len(t)
  BY <1>1
<1> QED
  BY <1>1, <1>2, <1>3 DEF IsRun

LEMMA StoppedRun ==
  ASSUME NEW r, NEW s, IsSeq(s), r.stopped
  PROVE  IsRun([i \in Nat |-> r], r, s)
<1> DEFINE y == [i \in Nat |-> r]
<1>1. Len(s) \in Nat
  BY SeqIs
<1>2. \A i \in 1 .. Len(s) : i \in Nat /\ i - 1 \in Nat
  BY <1>1
<1>3. \A i \in 1 .. Len(s) : y[i] = r /\ y[i - 1] = r
  BY <1>2
<1>4. y[0] = r
  OBVIOUS
<1>5. \A i \in 1 .. Len(s) : y[i] = After(y[i - 1], s[i]) /\ ~ AsksPayload(y[i - 1])
  BY <1>3 DEF After, AsksPayload
<1> HIDE DEF y
<1>6. IsRun(y, r, s)
  BY <1>4, <1>5 DEF IsRun
<1> QED
  BY <1>6 DEF y

-----------------------------------------------------------------------------
(* The units s take r to q, and nothing is signalled before the last.      *)
SameLists(r, q) ==
  q.delivered = r.delivered /\ q.pongs = r.pongs /\ q.answered = r.answered

Leads(r, s, q) ==
  \E x : /\ IsRun(x, r, s) /\ x[Len(s)] = q
         /\ \A i \in 0 .. Len(s) - 1 : SameLists(r, x[i])

LEMMA LeadsNowhere ==
  ASSUME NEW r
  PROVE  Leads(r, << >>, r)
<1> DEFINE x == [i \in Nat |-> r]
<1>1. Len(<< >>) = 0 /\ x[0] = r
  OBVIOUS
<1> HIDE DEF x
<1>2. IsRun(x, r, << >>)
  BY <1>1 DEF IsRun
<1> QED
  BY <1>1, <1>2 DEF Leads

LEMMA LeadsOn ==
  ASSUME NEW r, NEW s, NEW q, NEW t, NEW z, IsSeq(s), IsSeq(t),
         Leads(r, s, q), SameLists(r, q), Leads(q, t, z)
  PROVE  Leads(r, s \o t, z)
<1> DEFINE n == Len(s)
           m == Len(t)
<1>1. n \in Nat /\ m \in Nat /\ Len(s \o t) = n + m
  BY SeqIs, JoinOf
<1>2. PICK x : /\ IsRun(x, r, s) /\ x[n] = q
               /\ \A i \in 0 .. n - 1 : SameLists(r, x[i])
  BY DEF Leads
<1>3. PICK v : /\ IsRun(v, q, t) /\ v[m] = z
               /\ \A i \in 0 .. m - 1 : SameLists(q, v[i])
  BY DEF Leads
<1>4. PICK y : IsRun(y, r, s \o t) /\ Follows(y, x, n, v, m)
  <2>1. IsRun(x, r, s) /\ IsRun(v, x[Len(s)], t)
    BY <1>2, <1>3
  <2> QED
    BY <2>1, RunsJoined
<1>0. /\ \A i \in 0 .. n : y[i] = x[i]
      /\ \A i \in 0 .. m : n + i \in Nat /\ y[n + i] = v[i]
  BY <1>4 DEF Follows
<1> HIDE DEF n, m
<1>5. y[n + m] = z
  BY <1>0, <1>1, <1>3
<1>6. ASSUME NEW i \in 0 .. (n + m) - 1 PROVE SameLists(r, y[i])
  <2>1. CASE i \in 0 .. n - 1
    <3>1. i \in 0 .. n
      BY <1>1, <2>1
    <3> QED
      BY <1>0, <1>2, <2>1, <3>1
  <2>2. CASE i \notin 0 .. n - 1
    <3>1. i - n \in 0 .. m - 1 /\ i - n \in 0 .. m /\ i = n + (i - n)
      BY <1>1, <2>2
    <3>2. y[i] = v[i - n] /\ SameLists(q, v[i - n])
      BY <1>0, <1>3, <3>1
    <3> QED
      BY <3>2 DEF SameLists
  <2> QED
    BY <2>1, <2>2
<1> QED
  BY <1>1, <1>4, <1>5, <1>6 DEF Leads, n, m

LEMMA LeadsOne ==
  ASSUME NEW r, NEW u, AsksPayload(r) => IsSeq(u.data)
  PROVE  Leads(r, <<u>>, After(r, u))
<1> DEFINE x == [i \in Nat |-> IF i = 0 THEN r ELSE After(r, u)]
           s == <<u>>
<1>1. x[0] = r /\ x[1] = After(r, u) /\ Len(s) = 1 /\ s[1] = u
  OBVIOUS
<1> HIDE DEF x, s
<1>2. \A i \in 1 .. Len(s) : i = 1 /\ i - 1 = 0
  BY <1>1
<1>3. IsRun(x, r, s)
  BY <1>1, <1>2 DEF IsRun
<1>4. \A i \in 0 .. Len(s) - 1 : SameLists(r, x[i])
  <2>1. \A i \in 0 .. Len(s) - 1 : i = 0
    BY <1>1
  <2> QED
    BY <1>1, <2>1 DEF SameLists
<1> QED
  BY <1>1, <1>3, <1>4 DEF Leads, s

LEMMA LeadsStopped ==
  ASSUME NEW r, NEW s, IsSeq(s), r.stopped
  PROVE  Leads(r, s, r)
<1> DEFINE x == [i \in Nat |-> r]
<1>1. IsRun(x, r, s)
  BY StoppedRun
<1>2. Len(s) \in Nat
  BY SeqIs
<1>3. x[Len(s)] = r /\ \A i \in 0 .. Len(s) - 1 : x[i] = r
  BY <1>2
<1> HIDE DEF x
<1> QED
  BY <1>1, <1>3 DEF Leads, SameLists

-----------------------------------------------------------------------------
(* What is read of a frame that an end writes. *)

(* The reader in a frame that is valid so far. *)
Fr(place, op, last, field, size, masked, key, payload) ==
  [at |-> place, opCode |-> op, final |-> last, field |-> field, size |-> size,
   hasMask |-> masked, key |-> key, payload |-> payload, error |-> "none"]

IsError(f) == f.at = "dispatch" /\ f.error # "none"

LEMMA NewFrameIs ==
  /\ NewFrame = Fr("header", OpContinue, TRUE, 0, 0, FALSE, 0, << >>)
  /\ \A code : code # "none" => IsError(setError(code))
BY DEF NewFrame, Fr, setError, IsError

(* A new frame with what its header says. *)
LEMMA HeaderKnown ==
  ASSUME NEW op, NEW last, NEW masked, NEW l
  PROVE  [NewFrame EXCEPT !.opCode = op, !.final = last, !.field = l, !.size = l, !.hasMask = masked]
           = Fr("header", op, last, l, l, masked, 0, << >>)
<1> DEFINE c1 == [NewFrame EXCEPT !.opCode = op]
           c2 == [c1 EXCEPT !.final = last]
           c3 == [c2 EXCEPT !.field = l]
           c4 == [c3 EXCEPT !.size = l]
           c5 == [c4 EXCEPT !.hasMask = masked]
           yes == TRUE
           no == FALSE
<1>0. NewFrame = Fr("header", OpContinue, yes, 0, 0, no, 0, << >>)
  BY NewFrameIs
<1> HIDE DEF yes, no
<1>1. c1 = Fr("header", op, yes, 0, 0, no, 0, << >>)
  BY <1>0 DEF Fr
<1> HIDE DEF c1
<1>2. c2 = Fr("header", op, last, 0, 0, no, 0, << >>)
  BY <1>1 DEF Fr
<1> HIDE DEF c2
<1>3. c3 = Fr("header", op, last, l, 0, no, 0, << >>)
  BY <1>2 DEF Fr
<1> HIDE DEF c3
<1>4. c4 = Fr("header", op, last, l, l, no, 0, << >>)
  BY <1>3 DEF Fr
<1> HIDE DEF c4
<1>5. c5 = Fr("header", op, last, l, l, masked, 0, << >>)
  BY <1>4 DEF Fr
<1>6. c5 = [NewFrame EXCEPT !.opCode = op, !.final = last, !.field = l, !.size = l, !.hasMask = masked]
  BY DEF c1, c2, c3, c4, c5
<1> QED
  BY <1>5, <1>6

LEMMA ErrorStops ==
  ASSUME NEW r, NEW f, IsError(f)
  PROVE  Reached(r, f) = Stop(r)
BY DEF IsError, Reached, Dispatched, Stops

LEMMA HeaderUnit ==
  ASSUME NEW op, NEW n \in Nat, NEW masked, NEW last,
         NEW h, h = [unit |-> "header", final |-> last, rsv |-> FALSE, opCode |-> op,
                     length |-> lengthField(n), hasMask |-> masked]
  PROVE  LET f == ReadUnit(NewFrame, h) IN
         \/ IsError(f)
         \/ n <= Short /\ f = LengthKnown(Fr("header", op, last, n, n, masked, 0, << >>))
         \/ /\ ~ (n <= Short)
            /\ f = Fr("length", op, last, lengthField(n), lengthField(n), masked, 0, << >>)
<1> DEFINE l == lengthField(n)
           g == [NewFrame EXCEPT !.opCode = h.opCode, !.final = h.final, !.field = h.length,
                                 !.size = h.length, !.hasMask = h.hasMask]
<1>1. Short \in Nat
  BY SizesAssumption
<1>2. /\ n <= Short => l = n
      /\ ~ (n <= Short) => l > Short
  BY <1>1 DEF lengthField, Extended, Big
<1>0. h.opCode = op /\ h.final = last /\ h.length = l /\ h.hasMask = masked
  OBVIOUS
<1> HIDE DEF l
<1>3. g = Fr("header", op, last, l, l, masked, 0, << >>)
  <2>1. g = [NewFrame EXCEPT !.opCode = op, !.final = last, !.field = l, !.size = l,
                             !.hasMask = masked]
    BY ONLY <1>0, Zenon
  <2> HIDE DEF g
  <2>2. [NewFrame EXCEPT !.opCode = op, !.final = last, !.field = l, !.size = l,
                         !.hasMask = masked]
          = Fr("header", op, last, l, l, masked, 0, << >>)
    BY ONLY HeaderKnown, Zenon
  <2> QED
    BY ONLY <2>1, <2>2, Zenon
<1>4. ReadUnit(NewFrame, h) = ReadHeader(h)
  BY NewFrameIs DEF ReadUnit, Fr
<1>5. h.length = l
  BY <1>0
<1> DEFINE q == ReadHeader(h)
<1>6. \/ q = setError("protocolError")
      \/ ~ (l > Short) /\ q = LengthKnown(g)
      \/ l > Short /\ q = [g EXCEPT !.at = "length"]
  BY <1>5 DEF ReadHeader
<1> HIDE DEF g, q
<1>7. [g EXCEPT !.at = "length"] = Fr("length", op, last, l, l, masked, 0, << >>)
  BY <1>3 DEF Fr
<1>8. CASE q = setError("protocolError")
  <2>1. IsError(q)
    BY <1>8, NewFrameIs
  <2> QED
    BY <1>4, <2>1 DEF q
<1>9. CASE ~ (l > Short) /\ q = LengthKnown(g)
  <2>1. n <= Short /\ l = n
    BY <1>2, <1>9
  <2> QED
    BY <1>3, <1>4, <1>9, <2>1 DEF q
<1>10. CASE l > Short /\ q = [g EXCEPT !.at = "length"]
  <2>1. ~ (n <= Short)
    BY <1>1, <1>2, <1>10
  <2> QED
    BY <1>4, <1>7, <1>10, <2>1 DEF q, l
<1> QED
  BY <1>6, <1>8, <1>9, <1>10

LEMMA LengthUnit ==
  ASSUME NEW op, NEW n \in Nat, NEW masked, NEW last, NEW field
  PROVE  LET f == ReadUnit(Fr("length", op, last, field, field, masked, 0, << >>),
                           [unit |-> "length", size |-> n]) IN
         IsError(f) \/ f = LengthKnown(Fr("length", op, last, field, n, masked, 0, << >>))
<1> DEFINE g == Fr("length", op, last, field, field, masked, 0, << >>)
           u == [unit |-> "length", size |-> n]
           k == Fr("length", op, last, field, n, masked, 0, << >>)
<1>1. g.at = "length" /\ [g EXCEPT !.size = n] = k /\ u.size = n
  BY DEF Fr
<1> HIDE DEF g, u, k
<1>2. ReadUnit(g, u) = ReadLength(g, u)
  BY <1>1 DEF ReadUnit
<1>3. ReadLength(g, u) = setError("protocolError") \/ ReadLength(g, u) = LengthKnown(k)
  BY <1>1 DEF ReadLength
<1> QED
  BY <1>2, <1>3, NewFrameIs DEF g, u, k

(* The masking key is read, or is missing. *)
MaskRead(op, n, key, last, field, masked, place) ==
  LET g == Fr(place, op, last, field, n, masked, 0, << >>)
  IN /\ key = 0 => LengthKnown(g) = ReadPayloadOf(Fr(place, op, last, field, n, masked, key, << >>))
     /\ key # 0 => /\ LengthKnown(g) = Fr("mask", op, last, field, n, masked, 0, << >>)
                   /\ ReadUnit(LengthKnown(g), [unit |-> "mask", key |-> key])
                        = ReadPayloadOf(Fr("mask", op, last, field, n, masked, key, << >>))

LEMMA MaskUnit ==
  ASSUME NEW op, NEW n \in Nat, NEW key, NEW last, NEW field, NEW place,
         NEW masked, masked <=> key # 0
  PROVE  MaskRead(op, n, key, last, field, masked, place)
<1> DEFINE g == Fr(place, op, last, field, n, masked, 0, << >>)
           b == Fr("mask", op, last, field, n, masked, 0, << >>)
           u == [unit |-> "mask", key |-> key]
<1>1. g.hasMask = masked
  BY DEF Fr
<1>2. /\ [g EXCEPT !.at = "mask"] = b
      /\ b.at = "mask" /\ u.key = key
      /\ [b EXCEPT !.key = key] = Fr("mask", op, last, field, n, masked, key, << >>)
  BY DEF Fr
<1>3. CASE key = 0
  <2>1. LengthKnown(g) = ReadPayloadOf(g)
    BY <1>1, <1>3 DEF LengthKnown
  <2> QED
    BY <1>3, <2>1 DEF MaskRead
<1>4. CASE key # 0
  <2>1. LengthKnown(g) = b
    BY <1>1, <1>2, <1>4 DEF LengthKnown
  <2> HIDE DEF b, u
  <2>2. ReadUnit(b, u) = ReadPayloadOf([b EXCEPT !.key = key])
    BY <1>2 DEF ReadUnit
  <2> QED
    BY <1>2, <1>4, <2>1, <2>2 DEF b, u, MaskRead
<1> QED
  BY <1>3, <1>4

LEMMA PayloadUnit ==
  ASSUME NEW op, NEW data, IsSeq(data), NEW key, NEW last, NEW field, NEW place, NEW masked,
         NEW g, g = Fr(place, op, last, field, Len(data), masked, key, << >>)
  PROVE  LET f == ReadPayloadOf(g) IN
         \/ IsError(f)
         \/ data = << >> /\ f = Fr("dispatch", op, last, field, Len(data), masked, key, data)
         \/ /\ data # << >> /\ f.at = "payload"
            /\ ReadUnit(f, [unit |-> "payload", data |-> data, key |-> key])
                 = Fr("dispatch", op, last, field, Len(data), masked, key, data)
<1> DEFINE n == Len(data)
           f == ReadPayloadOf(g)
           b == Fr("payload", op, last, field, n, masked, key, << >>)
           u == [unit |-> "payload", data |-> data, key |-> key]
<1>1. n \in Nat /\ (data = << >> <=> n = 0)
  BY SeqIs
<1>2. g.size = n
  BY DEF Fr
<1>3. CASE n = 0
  <2>1. f = [g EXCEPT !.at = "dispatch"]
    BY <1>2, <1>3 DEF ReadPayloadOf
  <2>2. [g EXCEPT !.at = "dispatch"] = Fr("dispatch", op, last, field, n, masked, key, << >>)
    BY DEF Fr
  <2> QED
    BY <1>1, <1>3, <2>1, <2>2
<1>4. CASE n # 0
  <2>1. f = setError("tooMuchData") \/ f = [g EXCEPT !.at = "payload"]
    BY <1>2, <1>4 DEF ReadPayloadOf
  <2>2. [g EXCEPT !.at = "payload"] = b
    BY DEF Fr
  <2> HIDE DEF n
  <2>3. b.at = "payload" /\ b.key = key /\ u.key = key /\ u.data = data
    BY DEF Fr
  <2>9. b = Fr("payload", op, last, field, n, masked, key, << >>)
    OBVIOUS
  <2> HIDE DEF b, u
  <2>8. [b EXCEPT !.at = "dispatch", !.payload = data]
          = Fr("dispatch", op, last, field, n, masked, key, data)
    <3> DEFINE c == [b EXCEPT !.at = "dispatch"]
    <3>1. c = Fr("dispatch", op, last, field, n, masked, key, << >>)
      BY <2>9 DEF Fr
    <3>2. [c EXCEPT !.payload = data] = Fr("dispatch", op, last, field, n, masked, key, data)
      <4> HIDE DEF c
      <4> QED
        BY <3>1 DEF Fr
    <3>3. [c EXCEPT !.payload = data] = [b EXCEPT !.at = "dispatch", !.payload = data]
      OBVIOUS
    <3> QED
      BY <3>2, <3>3
  <2>4. Unmasked(u, b.key) = data
    BY <2>3 DEF Unmasked
  <2>5. ReadUnit(b, u) = [b EXCEPT !.at = "dispatch", !.payload = data]
    BY <2>3, <2>4 DEF ReadUnit
  <2>6. CASE f = setError("tooMuchData")
    BY <2>6, NewFrameIs
  <2>7. CASE f = [g EXCEPT !.at = "payload"]
    <3>1. f = b
      BY <2>2, <2>7
    <3>2. ReadUnit(b, u) = Fr("dispatch", op, last, field, n, masked, key, data)
      BY <2>5, <2>8
    <3>3. data # << >> /\ f.at = "payload" /\ ReadUnit(f, u) = ReadUnit(b, u)
      BY <1>1, <1>4, <2>3, <3>1 DEF n
    <3> QED
      BY <3>2, <3>3 DEF u, n
  <2> QED
    BY <2>1, <2>6, <2>7
<1> QED
  BY <1>3, <1>4

LEMMA WithIs ==
  ASSUME NEW r, NEW g
  PROVE  /\ With(r, g).reader = g /\ ~ With(r, g).stopped /\ SameLists(r, With(r, g))
         /\ With(r, g).processor = r.processor
         /\ \A f : Reached(With(r, g), f) = Reached(r, f)
         /\ Stop(r).stopped /\ SameLists(r, Stop(r))
<1>1. /\ With(r, g).reader = g /\ ~ With(r, g).stopped
      /\ With(r, g).processor = r.processor /\ With(r, g).delivered = r.delivered
      /\ With(r, g).pongs = r.pongs /\ With(r, g).answered = r.answered
  BY DEF With, Receiver
<1>2. Stop(r).stopped /\ SameLists(r, Stop(r))
  BY DEF Stop, Receiver, SameLists
<1> DEFINE w == With(r, g)
<1> HIDE DEF w
<1>3. ASSUME NEW f PROVE Reached(w, f) = Reached(r, f)
  <2>1. Stop(w) = Stop(r) /\ With(w, f) = With(r, f)
    BY <1>1 DEF w, Stop, With
  <2>2. Dispatched(w, f) = Dispatched(r, f)
    BY <1>1, <2>1 DEF w, Dispatched
  <2> QED
    BY <2>1, <2>2 DEF Reached
<1> QED
  BY <1>1, <1>2, <1>3 DEF SameLists, w

LEMMA LeadsFurther ==
  ASSUME NEW r, NEW s, IsSeq(s), NEW g, Leads(r, s, With(r, g)),
         NEW u, g.at = "payload" => IsSeq(u.data)
  PROVE  IsSeq(s \o <<u>>) /\ Leads(r, s \o <<u>>, Reached(r, ReadUnit(g, u)))
<1> DEFINE w == With(r, g)
<1>1. /\ w.reader = g /\ ~ w.stopped /\ SameLists(r, w)
      /\ Reached(w, ReadUnit(g, u)) = Reached(r, ReadUnit(g, u))
  BY WithIs
<1>2. Leads(r, s, w)
  OBVIOUS
<1> HIDE DEF w
<1>3. After(w, u) = Reached(r, ReadUnit(g, u))
  BY <1>1 DEF After
<1>4. Leads(w, <<u>>, After(w, u))
  BY <1>1, LeadsOne DEF AsksPayload
<1>5. IsSeq(<<u>>) /\ IsSeq(s \o <<u>>)
  BY AppendOf, JoinOf
<1> QED
  BY <1>1, <1>2, <1>3, <1>4, <1>5, LeadsOn

LEMMA LeadsStop ==
  ASSUME NEW r, NEW s, IsSeq(s), Leads(r, s, Stop(r)), NEW t, IsSeq(t)
  PROVE  Leads(r, s \o t, Stop(r))
<1>1. Stop(r).stopped /\ SameLists(r, Stop(r))
  BY WithIs
<1>2. Leads(Stop(r), t, Stop(r))
  BY <1>1, LeadsStopped
<1> QED
  BY <1>1, <1>2, LeadsOn

(* A whole frame: it stops the receiver, or it is dispatched.              *)
FrameOf(f, op, data, last) ==
  f.opCode = op /\ f.payload = data /\ f.final = last /\ f.error = "none" /\ f.at = "dispatch"

LEMMA FrameLeads ==
  ASSUME NEW r, ~ r.stopped, r.reader = NewFrame,
         NEW op, NEW data, IsSeq(data), NEW key, NEW last
  PROVE  /\ IsSeq(Frame(op, data, key, last))
         /\ \/ Leads(r, Frame(op, data, key, last), Stop(r))
            \/ \E f : /\ FrameOf(f, op, data, last)
                      /\ Leads(r, Frame(op, data, key, last), Dispatched(r, f))
<1> DEFINE n == Len(data)
           masked == key # 0
           h == [unit |-> "header", final |-> last, rsv |-> FALSE, opCode |-> op,
                 length |-> lengthField(n), hasMask |-> masked]
           lu == [unit |-> "length", size |-> n]
           mu == [unit |-> "mask", key |-> key]
           pu == [unit |-> "payload", data |-> data, key |-> key]
           L == IF n <= Short THEN << >> ELSE <<lu>>
           M == IF key = 0 THEN << >> ELSE <<mu>>
           P == IF data = << >> THEN << >> ELSE <<pu>>
           s1 == <<h>>
           s2 == s1 \o L
           s3 == s2 \o M
           s4 == s3 \o P
           G(place, field, k) == Fr(place, op, last, field, n, masked, k, << >>)
           E(field) == Fr("dispatch", op, last, field, n, masked, key, data)
<1>1. Frame(op, data, key, last) = s4
  BY DEF Frame, getFrameHeader, Payload
<1>2. n \in Nat /\ Short \in Nat
  BY SeqIs, SizesAssumption
<1>3. /\ IsSeq(<< >>) /\ \A u : IsSeq(<<u>>)
  <2>1. IsSeq(<< >>)
    BY JoinThree
  <2> QED
    BY <2>1, AppendOf
<1>4. IsSeq(s1) /\ IsSeq(L) /\ IsSeq(M) /\ IsSeq(P)
  BY <1>3
<1>5. IsSeq(s2)
  BY <1>4, JoinOf
<1>6. IsSeq(s3)
  BY <1>4, <1>5, JoinOf
<1>7. IsSeq(s4)
  BY <1>4, <1>6, JoinOf
<1>8. \A s : IsSeq(s) => s \o << >> = s
  BY JoinThree
<1>9. /\ n <= Short => s2 = s1
      /\ ~ (n <= Short) => s2 = s1 \o <<lu>>
      /\ key = 0 => s3 = s2
      /\ key # 0 => s3 = s2 \o <<mu>>
      /\ data = << >> => s4 = s3
      /\ data # << >> => s4 = s3 \o <<pu>>
  BY <1>4, <1>5, <1>6, <1>8
<1>10. /\ \/ IsError(ReadUnit(NewFrame, h))
          \/ n <= Short /\ ReadUnit(NewFrame, h) = LengthKnown(G("header", n, 0))
          \/ /\ ~ (n <= Short)
             /\ ReadUnit(NewFrame, h)
                  = Fr("length", op, last, lengthField(n), lengthField(n), masked, 0, << >>)
  BY <1>2, HeaderUnit
<1>11. \A field : LET f == ReadUnit(Fr("length", op, last, field, field, masked, 0, << >>), lu) IN
         IsError(f) \/ f = LengthKnown(G("length", field, 0))
  BY <1>2, LengthUnit
<1>12. ASSUME NEW place, NEW field
       PROVE  /\ key = 0 => LengthKnown(G(place, field, 0)) = ReadPayloadOf(G(place, field, key))
              /\ key # 0 => /\ LengthKnown(G(place, field, 0)) = Fr("mask", op, last, field, n, masked, 0, << >>)
                            /\ ReadUnit(LengthKnown(G(place, field, 0)), mu)
                                 = ReadPayloadOf(G("mask", field, key))
  <2>1. (masked <=> key # 0) /\ n \in Nat
    BY <1>2
  <2> HIDE DEF n, masked
  <2>2. MaskRead(op, n, key, last, field, masked, place)
    BY ONLY <2>1, MaskUnit
  <2> QED
    BY ONLY <2>2, Zenon DEF MaskRead
<1>13. \A place, field : LET f == ReadPayloadOf(G(place, field, key)) IN
         \/ IsError(f)
         \/ data = << >> /\ f = E(field)
         \/ data # << >> /\ f.at = "payload" /\ ReadUnit(f, pu) = E(field)
  BY PayloadUnit
<1>14. /\ pu.data = data
       /\ \A place, field, size, k, p : Fr(place, op, last, field, size, masked, k, p).at = place
       /\ \A field : FrameOf(E(field), op, data, last)
  BY DEF Fr, FrameOf
<1> HIDE DEF n, masked, h, lu, mu, pu, L, M, P, s1, s2, s3, s4, G, E
<1>15. Leads(r, s1, Reached(r, ReadUnit(NewFrame, h)))
  <2>1. NewFrame.at # "payload"
    BY DEF NewFrame
  <2>2. ~ AsksPayload(r) /\ After(r, h) = Reached(r, ReadUnit(NewFrame, h))
    BY <2>1 DEF AsksPayload, After
  <2> QED
    BY <2>2, LeadsOne DEF s1
<1>16. \/ Leads(r, s2, Stop(r))
       \/ \E place, field : Leads(r, s2, Reached(r, LengthKnown(G(place, field, 0))))
  <2>1. CASE IsError(ReadUnit(NewFrame, h))
    <3>1. Leads(r, s1, Stop(r))
      BY <1>15, <2>1, ErrorStops
    <3>2. Leads(r, s1 \o L, Stop(r))
      BY <1>4, <3>1, LeadsStop
    <3> QED
      BY <3>2 DEF s2
  <2>2. CASE n <= Short /\ ReadUnit(NewFrame, h) = LengthKnown(G("header", n, 0))
    BY <1>9, <1>15, <2>2
  <2>3. CASE /\ ~ (n <= Short)
             /\ ReadUnit(NewFrame, h)
                  = Fr("length", op, last, lengthField(n), lengthField(n), masked, 0, << >>)
    <3> DEFINE l == lengthField(n)
               g == Fr("length", op, last, l, l, masked, 0, << >>)
    <3>1. g.at = "length"
      BY <1>14
    <3>2. \/ IsError(ReadUnit(g, lu))
          \/ ReadUnit(g, lu) = LengthKnown(G("length", l, 0))
      BY <1>11
    <3>3. ReadUnit(NewFrame, h) = g
      BY <2>3
    <3> HIDE DEF g, l
    <3>4. Reached(r, g) = With(r, g)
      BY <3>1 DEF Reached
    <3>5. Leads(r, s1, With(r, g))
      BY <1>15, <3>3, <3>4
    <3>6. Leads(r, s1 \o <<lu>>, Reached(r, ReadUnit(g, lu)))
      BY <1>4, <3>1, <3>5, LeadsFurther
    <3>7. CASE IsError(ReadUnit(g, lu))
      BY <1>9, <2>3, <3>6, <3>7, ErrorStops
    <3>8. CASE ReadUnit(g, lu) = LengthKnown(G("length", l, 0))
      BY <1>9, <2>3, <3>6, <3>8
    <3> QED
      BY <3>2, <3>7, <3>8
  <2> QED
    BY <1>10, <2>1, <2>2, <2>3
<1>17. \/ Leads(r, s3, Stop(r))
       \/ \E place, field : Leads(r, s3, Reached(r, ReadPayloadOf(G(place, field, key))))
  <2>1. CASE Leads(r, s2, Stop(r))
    <3>1. Leads(r, s2 \o M, Stop(r))
      BY <1>4, <1>5, <2>1, LeadsStop
    <3> QED
      BY <3>1 DEF s3
  <2>2. CASE \E place, field : Leads(r, s2, Reached(r, LengthKnown(G(place, field, 0))))
    <3>1. PICK place, field : Leads(r, s2, Reached(r, LengthKnown(G(place, field, 0))))
      BY <2>2
    <3> DEFINE g == LengthKnown(G(place, field, 0))
    <3>2. CASE key = 0
      BY <1>9, <1>12, <3>1, <3>2
    <3>3. CASE key # 0
      <4>1. g.at = "mask" /\ ReadUnit(g, mu) = ReadPayloadOf(G("mask", field, key))
        BY <1>12, <1>14, <3>3
      <4>2. Leads(r, s2, Reached(r, g))
        BY <3>1
      <4> HIDE DEF g
      <4>3. Reached(r, g) = With(r, g)
        BY <4>1 DEF Reached
      <4>4. Leads(r, s2 \o <<mu>>, Reached(r, ReadUnit(g, mu)))
        BY <1>5, <4>1, <4>2, <4>3, LeadsFurther
      <4> QED
        BY <1>9, <3>3, <4>1, <4>4
    <3> QED
      BY <3>2, <3>3
  <2> QED
    BY <1>16, <2>1, <2>2
<1>18. \/ Leads(r, s4, Stop(r))
       \/ \E field : Leads(r, s4, Dispatched(r, E(field)))
  <2>1. CASE Leads(r, s3, Stop(r))
    <3>1. Leads(r, s3 \o P, Stop(r))
      BY <1>4, <1>6, <2>1, LeadsStop
    <3> QED
      BY <3>1 DEF s4
  <2>2. CASE \E place, field : Leads(r, s3, Reached(r, ReadPayloadOf(G(place, field, key))))
    <3>1. PICK place, field : Leads(r, s3, Reached(r, ReadPayloadOf(G(place, field, key))))
      BY <2>2
    <3> DEFINE g == ReadPayloadOf(G(place, field, key))
    <3>2. Leads(r, s3, Reached(r, g))
      BY <3>1
    <3>3. \/ IsError(g)
          \/ data = << >> /\ g = E(field)
          \/ data # << >> /\ g.at = "payload" /\ ReadUnit(g, pu) = E(field)
      BY <1>13
    <3> HIDE DEF g
    <3>4. Reached(r, E(field)) = Dispatched(r, E(field))
      BY <1>14 DEF Reached, FrameOf
    <3>5. CASE IsError(g)
      <4>1. Leads(r, s3, Stop(r))
        BY <3>2, <3>5, ErrorStops
      <4> QED
        BY <2>1, <4>1
    <3>6. CASE data = << >> /\ g = E(field)
      BY <1>9, <3>2, <3>4, <3>6
    <3>7. CASE data # << >> /\ g.at = "payload" /\ ReadUnit(g, pu) = E(field)
      <4>1. Reached(r, g) = With(r, g)
        BY <3>7 DEF Reached
      <4>2. Leads(r, s3 \o <<pu>>, Reached(r, ReadUnit(g, pu)))
        BY <1>6, <1>14, <3>2, <4>1, LeadsFurther
      <4> QED
        BY <1>9, <3>4, <3>7, <4>2
    <3> QED
      BY <3>3, <3>5, <3>6, <3>7
  <2> QED
    BY <1>17, <2>1, <2>2
<1> QED
  BY <1>1, <1>7, <1>14, <1>18

-----------------------------------------------------------------------------
(* The frames of a message. *)

LEMMA NaturalsFollow ==
  ASSUME NEW T, 0 \in T, \A n \in Nat : n \in T => n + 1 \in T
  PROVE  Nat \subseteq T
<1> DEFINE R == {p \in Nat \X Nat : p[1] < p[2]}
           U == Nat \ T
<1>1. SUFFICES ASSUME U # {} PROVE FALSE
  OBVIOUS
<1>2. IsWellFoundedOn(R, Nat)
  BY NatLessThanWellFounded DEF OpToRel
<1>3. PICK x \in U : \A y \in U : ~ (<<y, x>> \in R)
  <2> HIDE DEF R
  <2>1. U \subseteq Nat
    OBVIOUS
  <2> HIDE DEF U
  <2> QED
    BY <1>1, <1>2, <2>1, WFMin
<1>4. x \in Nat /\ x # 0
  OBVIOUS
<1>5. x - 1 \in Nat /\ x - 1 < x /\ (x - 1) + 1 = x
  BY <1>4
<1>6. x - 1 \notin U
  BY <1>3, <1>4, <1>5
<1>7. x \in T
  BY <1>5, <1>6
<1> QED
  BY <1>7

(* The sequences that FlattenSeq builds one after the other. *)
Flattened(seqs, n, f) == f = [i \in 1 .. n |-> IF i = 1 THEN seqs[i] ELSE f[i - 1] \o seqs[i]]

LEMMA FlattenedExists ==
  ASSUME NEW seqs, NEW n \in Nat
  PROVE  \E f : Flattened(seqs, n, f)
<1> DEFINE T == {k \in Nat : \E f : Flattened(seqs, k, f)}
<1>1. 0 \in T
  <2> DEFINE f == [i \in 1 .. 0 |-> seqs[i]]
  <2>1. f = [i \in 1 .. 0 |-> IF i = 1 THEN seqs[i] ELSE f[i - 1] \o seqs[i]]
    OBVIOUS
  <2> QED
    BY <2>1 DEF Flattened
<1>2. ASSUME NEW k \in Nat, k \in T PROVE k + 1 \in T
  <2>1. PICK f : Flattened(seqs, k, f)
    BY <1>2
  <2> DEFINE g == [i \in 1 .. (k + 1) |-> IF i = 1 THEN seqs[i] ELSE f[i - 1] \o seqs[i]]
  <2>2. \A i \in 1 .. k : g[i] = f[i]
    <3>1. f = [i \in 1 .. k |-> IF i = 1 THEN seqs[i] ELSE f[i - 1] \o seqs[i]]
      BY <2>1 DEF Flattened
    <3>2. \A i \in 1 .. k : f[i] = IF i = 1 THEN seqs[i] ELSE f[i - 1] \o seqs[i]
      BY <3>1
    <3>3. \A i \in 1 .. k : i \in 1 .. (k + 1)
      OBVIOUS
    <3> QED
      BY <3>2, <3>3
  <2>3. \A i \in 1 .. (k + 1) : i # 1 => g[i - 1] = f[i - 1]
    <3>1. \A i \in 1 .. (k + 1) : i # 1 => i - 1 \in 1 .. k
      OBVIOUS
    <3> HIDE DEF g
    <3> QED
      BY <2>2, <3>1
  <2> DEFINE h == [i \in 1 .. (k + 1) |-> IF i = 1 THEN seqs[i] ELSE g[i - 1] \o seqs[i]]
  <2>4. \A i \in 1 .. (k + 1) : g[i] = h[i]
    BY <2>3
  <2>5. g = h
    BY <2>4
  <2>6. Flattened(seqs, k + 1, g)
    BY <2>5 DEF Flattened
  <2> QED
    BY <2>6
<1> HIDE DEF T
<1>3. Nat \subseteq T
  BY <1>1, <1>2, NaturalsFollow
<1> QED
  BY <1>3 DEF T

LEMMA FlattenSteps ==
  ASSUME NEW seqs, NEW n \in Nat, n # 0, Len(seqs) = n
  PROVE  \E f : /\ f[1] = seqs[1] /\ FlattenSeq(seqs) = f[n]
               /\ \A k \in 1 .. n : k # 1 => f[k] = f[k - 1] \o seqs[k]
<1> DEFINE f == CHOOSE f : Flattened(seqs, n, f)
<1>1. Flattened(seqs, n, f)
  BY FlattenedExists
<1>2. FlattenSeq(seqs) = f[n]
  BY DEF FlattenSeq, Flattened
<1> HIDE DEF f
<1>3. \A i \in 1 .. n : f[i] = IF i = 1 THEN seqs[i] ELSE f[i - 1] \o seqs[i]
  <2>1. f = [i \in 1 .. n |-> IF i = 1 THEN seqs[i] ELSE f[i - 1] \o seqs[i]]
    BY <1>1 DEF Flattened
  <2> QED
    BY <2>1
<1>4. 1 \in 1 .. n
  OBVIOUS
<1> QED
  BY <1>2, <1>3, <1>4

(* Where a message is cut. *)
LEMMA CutsFit ==
  ASSUME NEW len \in Nat, NEW n \in Nat, len # 0,
         n = (len + FrameSize - 1) \div FrameSize
  PROVE  n # 0 /\ \A j \in 0 .. n - 1 : j * FrameSize \in Nat /\ j * FrameSize < len
<1> DEFINE a == len + FrameSize - 1
           F == FrameSize
<1>1. F \in Nat \ {0}
  BY SizesAssumption
<1>2. a \in Nat /\ n = a \div F
  BY <1>1
<1> HIDE DEF F
<1>3. n * F <= a /\ a < n * F + F
  <2> HIDE DEF a
  <2> QED
    BY <1>1, <1>2
<1>4. n * F \in Nat
  BY <1>1
<1>5. n # 0
  <2>1. n = 0 => n * F = 0
    BY <1>1
  <2> DEFINE x == n * F
  <2> HIDE DEF x
  <2>2. x \in Nat /\ x # 0
    BY <1>1, <1>3, <1>4 DEF x, F
  <2> QED
    BY <2>1, <2>2 DEF x
<1>6. ASSUME NEW j \in 0 .. n - 1 PROVE j * F \in Nat /\ j * F < len
  <2> DEFINE k == (n - 1) - j
  <2>1. k \in Nat /\ j \in Nat /\ n = j + k + 1
    OBVIOUS
  <2> HIDE DEF k
  <2>2. n * F = j * F + k * F + F
    BY <1>1, <2>1
  <2>3. j * F \in Nat /\ k * F \in Nat
    BY <1>1, <2>1
  <2> DEFINE x == n * F
             y == j * F
             z == k * F
  <2>4. x = y + z + F /\ x <= len + F - 1 /\ y \in Nat /\ z \in Nat
    BY <1>3, <2>2, <2>3 DEF F
  <2> HIDE DEF x, y, z
  <2>5. y < len
    BY <1>1, <2>4
  <2> QED
    BY <2>4, <2>5 DEF y
<1> QED
  BY <1>5, <1>6 DEF F

(* The parts of a message: the j-th follows what the first j - 1 hold.     *)
PartEnd(data, j) == IF j = numFrames(data) THEN Len(data) ELSE j * FrameSize
PartOf(data, j) == SubSeq(data, (j - 1) * FrameSize + 1, PartEnd(data, j))
FirstParts(data, j) == SubSeq(data, 1, PartEnd(data, j))

LEMMA PartsFollow ==
  ASSUME NEW data, IsSeq(data)
  PROVE  /\ numFrames(data) \in Nat \ {0}
         /\ \A j \in 1 .. numFrames(data) : IsSeq(PartOf(data, j)) /\ IsSeq(FirstParts(data, j))
         /\ PartOf(data, 1) = FirstParts(data, 1)
         /\ \A j \in 1 .. numFrames(data) - 1 :
              FirstParts(data, j) \o PartOf(data, j + 1) = FirstParts(data, j + 1)
         /\ FirstParts(data, numFrames(data)) = data
<1> DEFINE n == numFrames(data)
           len == Len(data)
           F == FrameSize
           T == ToSet(data)
           e(j) == PartEnd(data, j)
<1>1. data \in Seq(T) /\ len \in Nat /\ (data = << >> <=> len = 0) /\ F \in Nat \ {0}
      /\ \A i \in 1 .. len : data[i] \in T
  BY SeqIs, SizesAssumption, ElementOfSeq DEF IsSeq
<1>2. /\ n \in Nat \ {0}
      /\ \A j \in 1 .. n - 1 : j * F \in Nat /\ j * F < len
  <2>1. CASE data = << >>
    BY <2>1 DEF numFrames
  <2>2. CASE data # << >>
    <3>1. n = (len + F - 1) \div F
      BY <2>2 DEF numFrames
    <3>2. n \in Nat
      BY <1>1, <3>1
    <3> HIDE DEF n
    <3>3. n # 0 /\ \A j \in 0 .. n - 1 : j * FrameSize \in Nat /\ j * FrameSize < len
      <4> HIDE DEF len
      <4> QED
        BY <1>1, <2>2, <3>1, <3>2, CutsFit
    <3> QED
      BY <3>2, <3>3
  <2> QED
    BY <2>1, <2>2
<1> HIDE DEF n, len, T
<1>3. /\ e(n) = len
      /\ \A j \in 1 .. n - 1 : e(j) = j * F
  BY <1>2 DEF n, len, PartEnd
<1>4. \A j \in 1 .. n : e(j) \in Nat /\ e(j) <= len
  <2>1. \A j \in 1 .. n : j = n \/ j \in 1 .. n - 1
    BY <1>2
  <2> QED
    BY <1>1, <1>2, <1>3, <2>1
<1> HIDE DEF e
<1>5. \A j \in 1 .. n : (j - 1) * F + 1 \in Nat \ {0}
  <2> SUFFICES ASSUME NEW j \in 1 .. n PROVE (j - 1) * F + 1 \in Nat \ {0}
    OBVIOUS
  <2>1. j - 1 = 0 \/ j - 1 \in 1 .. n - 1
    BY <1>2
  <2>2. CASE j - 1 = 0
    <3>1. (j - 1) * F = 0
      BY <1>1, <2>2
    <3> QED
      BY <3>1
  <2>3. CASE j - 1 \in 1 .. n - 1
    <3>1. (j - 1) * F \in Nat
      BY <1>2, <2>3
    <3> DEFINE x == (j - 1) * F
    <3>2. x \in Nat
      BY <3>1
    <3> HIDE DEF x
    <3>3. x + 1 \in Nat \ {0}
      BY <3>2
    <3> QED
      BY <3>3 DEF x
  <2> QED
    BY <2>1, <2>2, <2>3
<1>6. ASSUME NEW j \in 1 .. n PROVE IsSeq(PartOf(data, j)) /\ IsSeq(FirstParts(data, j))
  <2> DEFINE b == (j - 1) * F + 1
  <2>1. b \in Nat \ {0} /\ e(j) \in Nat /\ e(j) <= len
    BY <1>4, <1>5
  <2> HIDE DEF b
  <2>2. \A i \in b .. e(j) : i \in 1 .. len
    BY <1>1, <2>1
  <2>3. \A i \in 1 .. e(j) : i \in 1 .. len
    BY <1>1, <2>1
  <2>4. b \in Int /\ e(j) \in Int /\ 1 \in Int
    BY <2>1
  <2>5. SubSeq(data, b, e(j)) \in Seq(T) /\ SubSeq(data, 1, e(j)) \in Seq(T)
    BY <1>1, <2>2, <2>3, <2>4, SubSeqProperties
  <2> QED
    BY <2>5, IsSeqOf DEF b, PartOf, FirstParts, e, F
<1>7. PartOf(data, 1) = FirstParts(data, 1)
  <2>1. (1 - 1) * FrameSize + 1 = 1
    BY <1>1
  <2> QED
    BY <2>1 DEF PartOf, FirstParts
<1>8. ASSUME NEW j \in 1 .. n - 1
      PROVE  FirstParts(data, j) \o PartOf(data, j + 1) = FirstParts(data, j + 1)
  <2>1. j + 1 \in 1 .. n /\ (j + 1) - 1 = j
    BY <1>2
  <2>2. e(j) = j * F /\ e(j) \in Nat /\ e(j) < len /\ e(j + 1) \in Nat /\ e(j + 1) <= len
    BY <1>2, <1>3, <1>4, <2>1
  <2>3. e(j) <= e(j + 1)
    <3>1. j + 1 = n \/ j + 1 \in 1 .. n - 1
      BY <1>2
    <3>2. CASE j + 1 = n
      BY <1>3, <2>2, <3>2
    <3>3. CASE j + 1 \in 1 .. n - 1
      <4>1. e(j + 1) = (j + 1) * F /\ (j + 1) * F = j * F + F
        BY <1>1, <1>3, <3>3
      <4> DEFINE x == e(j)
                 y == e(j + 1)
      <4>2. y = x + F /\ x \in Nat
        BY <2>2, <4>1
      <4> HIDE DEF x, y
      <4>3. x <= y
        BY <1>1, <4>2
      <4> QED
        BY <4>3 DEF x, y
    <3> QED
      BY <3>1, <3>2, <3>3
  <2> DEFINE x == e(j)
             y == e(j + 1)
  <2>4. x \in 0 .. len /\ y \in x .. len
    BY <1>1, <2>2, <2>3
  <2>5. FirstParts(data, j) = SubSeq(data, 1, x) /\ FirstParts(data, j + 1) = SubSeq(data, 1, y)
        /\ PartOf(data, j + 1) = SubSeq(data, x + 1, y)
    BY <2>1, <2>2 DEF FirstParts, PartOf, e, F
  <2> HIDE DEF x, y
  <2>6. 1 \in 1 .. len + 1 /\ x \in 1 - 1 .. len
    BY <1>1, <2>4
  <2>7. SubSeq(data, 1, x) \o SubSeq(data, x + 1, y) = SubSeq(data, 1, y)
    BY <1>1, <2>4, <2>6, ConcatAdjacentSubSeq DEF len
  <2> QED
    BY <2>5, <2>7
<1>9. FirstParts(data, n) = data
  <2>1. FirstParts(data, n) = SubSeq(data, 1, len)
    BY <1>3 DEF FirstParts, e
  <2> QED
    BY <1>1, <2>1, SubSeqFull DEF len
<1> QED
  BY <1>2, <1>6, <1>7, <1>8, <1>9 DEF n

-----------------------------------------------------------------------------
(* What the processor makes of the parts of a message.                     *)

LEMMA JoinAssociates ==
  ASSUME NEW s, NEW t, NEW u, IsSeq(s), IsSeq(t), IsSeq(u)
  PROVE  (s \o t) \o u = s \o (t \o u)
BY JoinThree

LEMMA KeptAndComplete ==
  ASSUME NEW bytes, IsSeq(bytes)
  PROVE  /\ IsSeq(Kept(bytes)) /\ IsSeq(Complete(bytes))
         /\ Complete(bytes) \o Kept(bytes) = bytes
         /\ ~ InvalidText(bytes, TRUE) => Kept(bytes) = << >>
<1> DEFINE n == Len(bytes)
           T == ToSet(bytes)
<1>1. /\ bytes \in Seq(T) /\ n \in Nat /\ (bytes = << >> <=> n = 0)
      /\ \A i \in 1 .. n : bytes[i] \in T
  BY SeqIs, ElementOfSeq DEF IsSeq
<1>0. IsSeq(<< >>) /\ IsSeq(<<"lead">>)
  BY AppendOf, JoinThree
<1>2. CASE bytes # << >> /\ Last(bytes) = "lead"
  <2>1. /\ Kept(bytes) = <<"lead">> /\ Complete(bytes) = SubSeq(bytes, 1, n - 1)
        /\ InvalidText(bytes, TRUE)
    <3>1. Kept(bytes) = <<"lead">> /\ Len(<<"lead">>) = 1
      BY <1>2 DEF Kept
    <3> QED
      BY <1>2, <3>1 DEF Complete, InvalidText
  <2>2. n \in 1 .. n /\ bytes[n] = "lead" /\ n - 1 \in Nat
    BY <1>1, <1>2 DEF Last
  <2> HIDE DEF n, T
  <2>3. SubSeq(bytes, 1, n) = SubSeq(bytes, 1, n - 1) \o <<bytes[n]>>
    <3>1. 1 \in 1 .. n
      BY <1>1, <2>2
    <3> QED
      BY <1>1, <2>2, <3>1, SubSeqRecursiveSecond DEF n
  <2>4. SubSeq(bytes, 1, n) = bytes
    BY <1>1, SubSeqFull DEF n
  <2>5. SubSeq(bytes, 1, n - 1) \in Seq(T)
    <3>1. \A i \in 1 .. n - 1 : i \in 1 .. n
      BY <1>1
    <3>2. n - 1 \in Int /\ 1 \in Int
      BY <1>1
    <3> QED
      BY <1>1, <3>1, <3>2, SubSeqProperties
  <2> QED
    BY <1>0, <2>1, <2>2, <2>3, <2>4, <2>5, IsSeqOf
<1>3. CASE ~ (bytes # << >> /\ Last(bytes) = "lead")
  <2>1. Kept(bytes) = << >>
    BY <1>3 DEF Kept
  <2>2. Complete(bytes) = SubSeq(bytes, 1, n)
    BY <1>1, <2>1 DEF Complete
  <2>3. SubSeq(bytes, 1, n) = bytes
    BY <1>1, SubSeqFull
  <2> QED
    BY <1>0, <2>1, <2>2, <2>3, JoinThree
<1> QED
  BY <1>2, <1>3

OpCodeOfMessage(m) == IF m.binary THEN OpBinary ELSE OpText

(* The processor has the first j parts of m.                               *)
Collecting(p, m, j) ==
  /\ p.fragmented /\ p.opCode = OpCodeOfMessage(m)
  /\ IsSeq(p.text) /\ IsSeq(p.binary) /\ IsSeq(p.carry)
  /\ IF m.binary THEN p.binary = FirstParts(m.data, j)
     ELSE p.text \o p.carry = FirstParts(m.data, j)

OpCodeOfPart(m, j) == IF j > 1 THEN OpContinue ELSE OpCodeOfMessage(m)

(* It is to take part j next.                                              *)
Awaits(p, m, j) == IF j = 1 THEN p = NewProcessor ELSE Collecting(p, m, j - 1)

LEMMA CollectsPart ==
  ASSUME NEW m, m.binary \in BOOLEAN, IsSeq(m.data), m = [binary |-> m.binary, data |-> m.data],
         NEW j \in 1 .. numFrames(m.data), NEW p, Awaits(p, m, j),
         NEW f, NEW last, last <=> j = numFrames(m.data),
         FrameOf(f, OpCodeOfPart(m, j), PartOf(m.data, j), last), ~ Stops(f, p)
  PROVE  /\ ~ isControlFrame(f.opCode)
         /\ ~ f.final => Collecting(Collected(p, f), m, j)
         /\ f.final => MessageOf(Collected(p, f)) = m
<1> DEFINE n == numFrames(m.data)
           op == OpCodeOfMessage(m)
           part == PartOf(m.data, j)
           bytes == p.carry \o part
           c == Collected(p, f)
<1>1. /\ n \in Nat \ {0} /\ IsSeq(part) /\ IsSeq(FirstParts(m.data, j))
      /\ j = 1 => part = FirstParts(m.data, j)
      /\ j # 1 => FirstParts(m.data, j - 1) \o part = FirstParts(m.data, j)
      /\ FirstParts(m.data, n) = m.data
  <2>1. n \in Nat \ {0} /\ IsSeq(part) /\ IsSeq(FirstParts(m.data, j))
        /\ FirstParts(m.data, n) = m.data /\ PartOf(m.data, 1) = FirstParts(m.data, 1)
    BY PartsFollow
  <2>2. \A k \in 1 .. n - 1 : FirstParts(m.data, k) \o PartOf(m.data, k + 1) = FirstParts(m.data, k + 1)
    BY PartsFollow
  <2> HIDE DEF n
  <2>3. j # 1 => j - 1 \in 1 .. n - 1 /\ (j - 1) + 1 = j
    BY <2>1 DEF n
  <2>4. j # 1 => FirstParts(m.data, j - 1) \o PartOf(m.data, (j - 1) + 1) = FirstParts(m.data, (j - 1) + 1)
    BY <2>2, <2>3
  <2> QED
    BY <2>1, <2>3, <2>4
<1>2. /\ f.opCode = OpCodeOfPart(m, j) /\ f.payload = part /\ f.final = last /\ f.error = "none"
      /\ op \in {OpText, OpBinary} /\ (m.binary <=> op = OpBinary) /\ (op = OpText <=> ~ m.binary)
  BY DEF FrameOf, OpCodeOfMessage, OpText, OpBinary
<1>3. ~ isControlFrame(f.opCode) /\ (j = 1 <=> f.opCode # OpContinue)
      /\ (j = 1 => f.opCode = op)
  <2>1. j > 1 <=> j # 1
    BY <1>1
  <2> QED
    BY <1>2, <2>1 DEF OpCodeOfPart, isControlFrame, OpContinue, OpText, OpBinary, OpClose
<1>4. DataError(p, f) = "none"
  BY <1>3 DEF Stops
<1>5. OpCodeOf(p, f) = op
  BY <1>2, <1>3 DEF OpCodeOf, Awaits, Collecting
<1>6. IsSeq(p.carry) /\ IsSeq(p.text) /\ IsSeq(p.binary)
  <2>1. IsSeq(<< >>)
    BY JoinThree
  <2> QED
    <3>1. CASE j = 1
      <4>1. p.carry = << >> /\ p.text = << >> /\ p.binary = << >>
        BY <3>1 DEF Awaits, NewProcessor
      <4> QED
        BY <2>1, <4>1
    <3>2. CASE j # 1
      BY <3>2 DEF Awaits, Collecting
    <3> QED
      BY <3>1, <3>2
<1>7. IsSeq(bytes) /\ TextBytes(p, f) = bytes
  BY <1>1, <1>2, <1>6, JoinOf DEF TextBytes
<1>8. /\ IsSeq(Kept(bytes)) /\ IsSeq(Complete(bytes))
      /\ Complete(bytes) \o Kept(bytes) = bytes
      /\ ~ InvalidText(bytes, TRUE) => Kept(bytes) = << >>
  <2> HIDE DEF bytes
  <2> QED
    BY <1>7, KeptAndComplete
<1>9. op = OpText => ~ InvalidText(bytes, f.final)
  BY <1>4, <1>5, <1>7 DEF DataError
<1>10. /\ c.opCode = op
       /\ f.opCode = OpContinue => c.fragmented = p.fragmented
       /\ f.opCode # OpContinue => c.fragmented = ~ f.final
       /\ op = OpText => /\ c.text = p.text \o Complete(bytes) /\ c.carry = Kept(bytes)
                         /\ c.binary = p.binary
       /\ op # OpText => c.text = p.text /\ c.carry = p.carry /\ c.binary = p.binary \o part
  BY <1>2, <1>5, <1>7 DEF Collected
<1> HIDE DEF c, bytes, part
<1>11. IsSeq(c.text) /\ IsSeq(c.carry) /\ IsSeq(c.binary)
  <2>1. CASE op = OpText
    <3> DEFINE a == Complete(bytes)
    <3>1. IsSeq(p.text) /\ IsSeq(a) /\ c.text = p.text \o a
      BY <1>6, <1>8, <1>10, <2>1
    <3> HIDE DEF a
    <3>2. IsSeq(p.text \o a)
      BY ONLY <3>1, JoinOf, Zenon
    <3> QED
      BY <1>6, <1>8, <1>10, <2>1, <3>1, <3>2
  <2>2. CASE op # OpText
    <3>1. IsSeq(p.binary \o part)
      BY ONLY <1>1, <1>6, JoinOf, Zenon
    <3> QED
      BY <1>6, <1>10, <2>2, <3>1
  <2> QED
    BY <2>1, <2>2
<1>12. CASE m.binary
  <2>1. c.binary = p.binary \o part
    BY <1>2, <1>10, <1>12 DEF OpText, OpBinary
  <2>2. c.binary = FirstParts(m.data, j)
    <3>1. CASE j = 1
      <4>1. p.binary = << >>
        BY <3>1 DEF Awaits, NewProcessor
      <4>2. << >> \o part = part
        BY <1>1, JoinThree
      <4> QED
        BY <1>1, <2>1, <3>1, <4>1, <4>2
    <3>2. CASE j # 1
      BY <1>1, <1>12, <2>1, <3>2 DEF Awaits, Collecting
    <3> QED
      BY <3>1, <3>2
  <2>3. f.final => MessageOf(c) = m
    <3>1. c.opCode # OpText
      BY <1>2, <1>10, <1>12
    <3> HAVE f.final
    <3>2. j = n
      BY <1>2
    <3>3. MessageOf(c) = [binary |-> TRUE, data |-> m.data]
      BY <1>1, <2>2, <3>1, <3>2 DEF MessageOf
    <3> QED
      BY <1>12, <3>3
  <2>4. ~ f.final => Collecting(c, m, j)
    <3> HAVE ~ f.final
    <3>1. c.fragmented
      BY <1>3, <1>10 DEF Awaits, Collecting
    <3> QED
      BY <1>10, <1>11, <1>12, <2>2, <3>1 DEF Collecting
  <2> QED
    BY <1>3, <2>3, <2>4 DEF c
<1>13. CASE ~ m.binary
  <2>0. op = OpText
    BY <1>2, <1>13
  <2>1. c.text = p.text \o Complete(bytes) /\ c.carry = Kept(bytes)
    BY <1>10, <2>0
  <2>2. c.text \o c.carry = p.text \o bytes
    <3> DEFINE a == Complete(bytes)
               b == Kept(bytes)
    <3>1. IsSeq(p.text) /\ IsSeq(a) /\ IsSeq(b) /\ a \o b = bytes
          /\ c.text = p.text \o a /\ c.carry = b
      BY <1>6, <1>8, <2>1
    <3> HIDE DEF a, b
    <3>2. (p.text \o a) \o b = p.text \o (a \o b)
      <4> DEFINE t == p.text
      <4>1. IsSeq(t) /\ IsSeq(a) /\ IsSeq(b)
        BY <3>1
      <4> HIDE DEF t
      <4>2. (t \o a) \o b = t \o (a \o b)
        BY ONLY SMTT(20), <4>1, JoinAssociates
      <4> QED
        BY <4>2 DEF t
    <3> QED
      BY <3>1, <3>2
  <2>3. p.text \o bytes = (p.text \o p.carry) \o part
    <3>1. (p.text \o p.carry) \o part = p.text \o (p.carry \o part)
      <4> DEFINE t == p.text
                 a == p.carry
      <4>1. IsSeq(t) /\ IsSeq(a) /\ IsSeq(part)
        BY <1>1, <1>6
      <4> HIDE DEF t, a
      <4>2. (t \o a) \o part = t \o (a \o part)
        BY ONLY SMTT(20), <4>1, JoinAssociates
      <4> QED
        BY <4>2 DEF t, a
    <3> QED
      BY <3>1 DEF bytes
  <2>4. c.text \o c.carry = FirstParts(m.data, j)
    <3>1. CASE j = 1
      <4>1. p.text = << >> /\ p.carry = << >>
        BY <3>1 DEF Awaits, NewProcessor
      <4>2. (p.text \o p.carry) \o part = part
        BY <1>1, <1>6, <4>1, JoinThree
      <4> QED
        BY <1>1, <2>2, <2>3, <3>1, <4>2
    <3>2. CASE j # 1
      BY <1>1, <1>13, <2>2, <2>3, <3>2 DEF Awaits, Collecting
    <3> QED
      BY <3>1, <3>2
  <2>5. f.final => MessageOf(c) = m
    <3> HAVE f.final
    <3>1. j = n
      BY <1>2
    <3>2. Kept(bytes) = << >>
      <4>1. InvalidText(bytes, f.final) <=> InvalidText(bytes, TRUE)
        BY DEF InvalidText
      <4> QED
        BY <1>8, <1>9, <2>0, <4>1
    <3>3. c.text = m.data
      <4>1. c.text \o << >> = c.text
        BY <1>11, JoinThree
      <4> QED
        BY <1>1, <2>1, <2>4, <3>1, <3>2, <4>1
    <3>4. MessageOf(c) = [binary |-> FALSE, data |-> m.data]
      BY <1>10, <2>0, <3>3 DEF MessageOf
    <3> QED
      BY <1>13, <3>4
  <2>6. ~ f.final => Collecting(c, m, j)
    <3> HAVE ~ f.final
    <3>1. c.fragmented
      BY <1>3, <1>10 DEF Awaits, Collecting
    <3> QED
      BY <1>10, <1>11, <1>13, <2>4, <3>1 DEF Collecting
  <2> QED
    BY <1>3, <2>5, <2>6 DEF c
<1> QED
  BY <1>12, <1>13

-----------------------------------------------------------------------------
(* What a receiver makes of whole frames.                                  *)

FrameTaken(q, z, op, data, last) ==
  \/ z.stopped /\ SameLists(q, z)
  \/ /\ ~ q.stopped
     /\ \E f : FrameOf(f, op, data, last) /\ ~ Stops(f, q.processor) /\ z = Dispatched(q, f)

LEMMA FrameFollows ==
  ASSUME NEW r, NEW s, IsSeq(s), NEW q, Leads(r, s, q), SameLists(r, q),
         q.stopped \/ q.reader = NewFrame,
         NEW op, NEW data, IsSeq(data), NEW key, NEW last
  PROVE  /\ IsSeq(s \o Frame(op, data, key, last))
         /\ \E z : Leads(r, s \o Frame(op, data, key, last), z) /\ FrameTaken(q, z, op, data, last)
<1> DEFINE t == Frame(op, data, key, last)
<1>1. CASE q.stopped
  <2>1. IsSeq(t)
    <3> DEFINE w == With(q, NewFrame)
    <3>1. ~ w.stopped /\ w.reader = NewFrame
      BY WithIs
    <3> HIDE DEF w
    <3> QED
      BY <3>1, FrameLeads
  <2> HIDE DEF t
  <2>2. Leads(q, t, q)
    BY <1>1, <2>1, LeadsStopped
  <2>3. Leads(r, s \o t, q) /\ IsSeq(s \o t)
    BY <2>1, <2>2, LeadsOn, JoinOf
  <2>4. FrameTaken(q, q, op, data, last)
    BY <1>1 DEF FrameTaken, SameLists
  <2> QED
    BY <2>3, <2>4 DEF t
<1>2. CASE ~ q.stopped
  <2>1. IsSeq(t) /\ \/ Leads(q, t, Stop(q))
                    \/ \E f : FrameOf(f, op, data, last) /\ Leads(q, t, Dispatched(q, f))
    BY <1>2, FrameLeads
  <2>2. FrameTaken(q, Stop(q), op, data, last)
    BY WithIs DEF FrameTaken
  <2>3. ASSUME NEW f, FrameOf(f, op, data, last) PROVE FrameTaken(q, Dispatched(q, f), op, data, last)
    <3>1. CASE Stops(f, q.processor)
      BY <2>2, <3>1 DEF Dispatched
    <3>2. CASE ~ Stops(f, q.processor)
      BY <1>2, <2>3, <3>2 DEF FrameTaken
    <3> QED
      BY <3>1, <3>2
  <2> HIDE DEF t
  <2>4. PICK z : Leads(q, t, z) /\ FrameTaken(q, z, op, data, last)
    BY <2>1, <2>2, <2>3
  <2>5. Leads(r, s \o t, z) /\ IsSeq(s \o t)
    BY <2>1, <2>4, LeadsOn, JoinOf
  <2> QED
    BY <2>4, <2>5 DEF t
<1> QED
  BY <1>1, <1>2

(* A receiver that waits for a new message.                                *)
AtRest(q) == ~ q.stopped /\ q.reader = NewFrame /\ q.processor = NewProcessor

MessageSignalled(r, q, m) ==
  \/ q.stopped /\ SameLists(r, q)
  \/ AtRest(q) /\ q.delivered = Append(r.delivered, m) /\ q.pongs = r.pongs /\ q.answered = r.answered

Ready(q, m, j) == q.stopped \/ (q.reader = NewFrame /\ Awaits(q.processor, m, j))

PartReaches(r, t, m, j) ==
  \E z : /\ Leads(r, t, z)
         /\ IF j = numFrames(m.data) THEN MessageSignalled(r, z, m)
            ELSE SameLists(r, z) /\ Ready(z, m, j + 1)

IsMessage(m) ==
  m.binary \in BOOLEAN /\ IsSeq(m.data) /\ m = [binary |-> m.binary, data |-> m.data]

LEMMA PartTaken ==
  ASSUME NEW m, IsMessage(m), NEW r, NEW s, IsSeq(s), NEW q, Leads(r, s, q), SameLists(r, q),
         NEW j \in 1 .. numFrames(m.data), Ready(q, m, j),
         NEW key, NEW last, last <=> j = numFrames(m.data)
  PROVE  /\ IsSeq(s \o Frame(OpCodeOfPart(m, j), PartOf(m.data, j), key, last))
         /\ PartReaches(r, s \o Frame(OpCodeOfPart(m, j), PartOf(m.data, j), key, last), m, j)
<1> DEFINE op == OpCodeOfPart(m, j)
           data == PartOf(m.data, j)
           n == numFrames(m.data)
           t == s \o Frame(op, data, key, last)
<1>1. IsSeq(data) /\ n \in Nat \ {0} /\ (q.stopped \/ q.reader = NewFrame)
  BY PartsFollow DEF IsMessage, Ready
<1>2. IsSeq(t) /\ \E z : Leads(r, t, z) /\ FrameTaken(q, z, op, data, last)
  <2> HIDE DEF op, data
  <2> QED
    BY <1>1, FrameFollows
<1>3. PICK z : Leads(r, t, z) /\ FrameTaken(q, z, op, data, last)
  BY <1>2
<1> HIDE DEF op, data, n, t
<1>4. CASE z.stopped /\ SameLists(q, z)
  <2>1. SameLists(r, z) /\ MessageSignalled(r, z, m) /\ Ready(z, m, j + 1)
    BY <1>4 DEF SameLists, MessageSignalled, Ready
  <2> QED
    BY <1>2, <1>3, <2>1 DEF PartReaches, op, data, t
<1>5. CASE ~ q.stopped /\ \E f : FrameOf(f, op, data, last) /\ ~ Stops(f, q.processor)
                                /\ z = Dispatched(q, f)
  <2>1. PICK f : FrameOf(f, op, data, last) /\ ~ Stops(f, q.processor) /\ z = Dispatched(q, f)
    BY <1>5
  <2>2. Awaits(q.processor, m, j)
    BY <1>5 DEF Ready
  <2> DEFINE p == q.processor
  <2>3. /\ m.binary \in BOOLEAN /\ IsSeq(m.data) /\ m = [binary |-> m.binary, data |-> m.data]
        /\ Awaits(p, m, j) /\ (last <=> j = numFrames(m.data))
        /\ FrameOf(f, OpCodeOfPart(m, j), PartOf(m.data, j), last) /\ ~ Stops(f, p)
        /\ j \in 1 .. numFrames(m.data)
    BY <2>1, <2>2 DEF IsMessage, op, data
  <2> HIDE DEF p
  <2>4. /\ ~ isControlFrame(f.opCode)
        /\ ~ f.final => Collecting(Collected(p, f), m, j)
        /\ f.final => MessageOf(Collected(p, f)) = m
    BY ONLY <2>3, CollectsPart
  <2>5. f.opCode # OpPing /\ f.opCode # OpPong
    BY <2>4 DEF isControlFrame, OpClose, OpPing, OpPong
  <2>6. f.final <=> j = n
    BY <2>1 DEF FrameOf, n
  <2>7. CASE j = n
    <3>1. z = Receiver(NewFrame, NewProcessor, Append(q.delivered, m), q.pongs, q.answered, FALSE)
      BY <2>1, <2>4, <2>5, <2>6, <2>7 DEF Dispatched, p
    <3>2. MessageSignalled(r, z, m)
      BY <3>1 DEF MessageSignalled, AtRest, SameLists, Receiver
    <3> QED
      BY <1>2, <1>3, <2>7, <3>2 DEF PartReaches, op, data, t, n
  <2>8. CASE j # n
    <3>1. z = Receiver(NewFrame, Collected(p, f), q.delivered, q.pongs, q.answered, FALSE)
      BY <2>1, <2>4, <2>5, <2>6, <2>8 DEF Dispatched, p
    <3>2. Collecting(Collected(p, f), m, j) /\ (j + 1) - 1 = j /\ j + 1 # 1
      BY <1>1, <2>4, <2>6, <2>8 DEF n
    <3>3. SameLists(r, z) /\ z.reader = NewFrame /\ z.processor = Collected(p, f)
      BY <3>1 DEF SameLists, Receiver
    <3>4. Ready(z, m, j + 1)
      BY <3>2, <3>3 DEF Ready, Awaits
    <3> QED
      BY <1>2, <1>3, <2>8, <3>3, <3>4 DEF PartReaches, op, data, t, n
  <2> QED
    BY <2>7, <2>8
<1> QED
  BY <1>3, <1>4, <1>5 DEF FrameTaken

(* A message that begins when the receiver is at rest.                     *)
LEMMA MessageLeads ==
  ASSUME NEW m, IsMessage(m), NEW keys, NEW r, AtRest(r)
  PROVE  /\ IsSeq(Frames(m.data, m.binary, keys))
         /\ \E q : Leads(r, Frames(m.data, m.binary, keys), q) /\ MessageSignalled(r, q, m)
<1> DEFINE n == numFrames(m.data)
           F(j) == Frame(OpCodeOfPart(m, j), PartOf(m.data, j), keys[j], j = n)
           seqs == [j \in 1 .. n |-> F(j)]
           units == Frames(m.data, m.binary, keys)
<1>1. n \in Nat \ {0}
  BY PartsFollow DEF IsMessage
<1>2. units = FlattenSeq(seqs)
  BY DEF Frames, OpCodeOfPart, OpCodeOfMessage, PartOf, PartEnd
<1>3. Len(seqs) = n /\ \A j \in 1 .. n : seqs[j] = F(j)
  BY <1>1
<1> HIDE DEF seqs, n, F, units
<1>4. PICK f : /\ f[1] = seqs[1] /\ FlattenSeq(seqs) = f[n]
               /\ \A k \in 1 .. n : k # 1 => f[k] = f[k - 1] \o seqs[k]
  BY <1>1, <1>3, FlattenSteps
<1>5. ASSUME NEW j \in 1 .. n, NEW s, IsSeq(s), NEW q, Leads(r, s, q), SameLists(r, q), Ready(q, m, j)
      PROVE  IsSeq(s \o F(j)) /\ PartReaches(r, s \o F(j), m, j)
  <2> DEFINE last == (j = n)
             key == keys[j]
  <2>1. (last <=> j = numFrames(m.data)) /\ j \in 1 .. numFrames(m.data)
    BY DEF n
  <2>2. F(j) = Frame(OpCodeOfPart(m, j), PartOf(m.data, j), key, last)
    BY DEF F
  <2> HIDE DEF last, key
  <2>3. /\ IsSeq(s \o Frame(OpCodeOfPart(m, j), PartOf(m.data, j), key, last))
        /\ PartReaches(r, s \o Frame(OpCodeOfPart(m, j), PartOf(m.data, j), key, last), m, j)
    BY <1>5, <2>1, PartTaken
  <2> QED
    BY <2>2, <2>3
<1> DEFINE T == {k \in Nat : k + 1 \in 1 .. n => IsSeq(f[k + 1]) /\ PartReaches(r, f[k + 1], m, k + 1)}
<1>6. 0 \in T
  <2>1. 1 \in 1 .. n /\ 0 + 1 = 1
    BY <1>1
  <2>2. IsSeq(<< >>) /\ Leads(r, << >>, r) /\ SameLists(r, r) /\ Ready(r, m, 1)
    <3>1. Leads(r, << >>, r)
      BY LeadsNowhere
    <3>2. SameLists(r, r) /\ Ready(r, m, 1)
      BY DEF SameLists, Ready, AtRest, Awaits
    <3>3. << >> \in Seq({})
      OBVIOUS
    <3> QED
      BY <3>1, <3>2, <3>3, IsSeqOf
  <2> DEFINE e == << >>
  <2>3. IsSeq(e \o F(1)) /\ PartReaches(r, e \o F(1), m, 1)
    <3>1. IsSeq(e) /\ Leads(r, e, r) /\ SameLists(r, r) /\ Ready(r, m, 1)
      BY <2>2
    <3> HIDE DEF e
    <3> QED
      BY <1>5, <2>1, <3>1
  <2>4. e \o F(1) = F(1)
    <3>1. IsSeq(F(1))
      <4> DEFINE last == (1 = n)
                 w == With(r, NewFrame)
      <4>1. ~ w.stopped /\ w.reader = NewFrame /\ IsSeq(PartOf(m.data, 1))
        BY <2>1, WithIs, PartsFollow DEF IsMessage, n
      <4>2. F(1) = Frame(OpCodeOfPart(m, 1), PartOf(m.data, 1), keys[1], last)
        BY DEF F
      <4> HIDE DEF last, w
      <4>3. IsSeq(Frame(OpCodeOfPart(m, 1), PartOf(m.data, 1), keys[1], last))
        BY <4>1, FrameLeads
      <4> QED
        BY <4>2, <4>3
    <3> QED
      BY <3>1, JoinThree
  <2>5. f[1] = F(1)
    BY <1>3, <1>4, <2>1
  <2> HIDE DEF e
  <2> QED
    BY <2>1, <2>3, <2>4, <2>5
<1>7. ASSUME NEW k \in Nat, k \in T PROVE k + 1 \in T
  <2> SUFFICES ASSUME (k + 1) + 1 \in 1 .. n
               PROVE  IsSeq(f[(k + 1) + 1]) /\ PartReaches(r, f[(k + 1) + 1], m, (k + 1) + 1)
    OBVIOUS
  <2> DEFINE i == k + 1
             j == i + 1
  <2>1. i \in 1 .. n /\ i # n /\ j \in 1 .. n /\ j # 1 /\ j - 1 = i
    BY <1>1
  <2>2. IsSeq(f[i]) /\ PartReaches(r, f[i], m, i)
    BY <1>7, <2>1
  <2> HIDE DEF i, T
  <2>3. PICK q : Leads(r, f[i], q) /\ SameLists(r, q) /\ Ready(q, m, i + 1)
    BY <2>1, <2>2 DEF PartReaches, n
  <2>4. IsSeq(f[i] \o F(j)) /\ PartReaches(r, f[i] \o F(j), m, j)
    BY <1>5, <2>1, <2>2, <2>3
  <2>5. f[j] = f[i] \o F(j)
    BY <1>3, <1>4, <2>1
  <2>6. IsSeq(f[j]) /\ PartReaches(r, f[j], m, j)
    BY <2>4, <2>5
  <2> QED
    BY <2>6 DEF i
<1> HIDE DEF T
<1>8. Nat \subseteq T
  BY <1>6, <1>7, NaturalsFollow
<1>9. IsSeq(f[n]) /\ PartReaches(r, f[n], m, n)
  <2>1. n - 1 \in Nat /\ (n - 1) + 1 = n /\ n \in 1 .. n
    BY <1>1
  <2> QED
    BY <1>8, <2>1 DEF T
<1>10. f[n] = units
  BY <1>2, <1>4
<1> QED
  BY <1>9, <1>10 DEF PartReaches, n, units

-----------------------------------------------------------------------------
(* Frames that control the connection.                                     *)

LEMMA PingLeads ==
  ASSUME NEW r, AtRest(r), NEW data, IsSeq(data), NEW key
  PROVE  /\ IsSeq(Frame(OpPing, data, key, TRUE))
         /\ \E q : /\ Leads(r, Frame(OpPing, data, key, TRUE), q)
                   /\ q.delivered = r.delivered /\ q.pongs = r.pongs
                   /\ \/ q.stopped /\ q.answered = r.answered
                      \/ AtRest(q) /\ q.answered = Append(r.answered, data)
<1> DEFINE yes == TRUE
           t == Frame(OpPing, data, key, yes)
<1>0. ~ r.stopped /\ r.reader = NewFrame
  BY DEF AtRest
<1> HIDE DEF yes
<1>1. IsSeq(t) /\ \/ Leads(r, t, Stop(r))
                  \/ \E f : FrameOf(f, OpPing, data, yes) /\ Leads(r, t, Dispatched(r, f))
  BY <1>0, FrameLeads
<1> HIDE DEF t
<1>2. CASE Leads(r, t, Stop(r))
  <2>1. Stop(r).stopped /\ SameLists(r, Stop(r))
    BY WithIs
  <2> QED
    BY <1>1, <1>2, <2>1 DEF SameLists, t, yes
<1>3. CASE \E f : FrameOf(f, OpPing, data, yes) /\ Leads(r, t, Dispatched(r, f))
  <2>1. PICK f : FrameOf(f, OpPing, data, yes) /\ Leads(r, t, Dispatched(r, f))
    BY <1>3
  <2>2. ~ Stops(f, r.processor) /\ f.opCode = OpPing /\ f.payload = data
    BY <2>1 DEF FrameOf, Stops, isControlFrame, OpPing, OpClose
  <2> DEFINE q == Dispatched(r, f)
  <2>3. q = Receiver(NewFrame, r.processor, r.delivered, r.pongs, Append(r.answered, data), FALSE)
    BY <2>2 DEF Dispatched
  <2>4. /\ q.delivered = r.delivered /\ q.pongs = r.pongs /\ q.answered = Append(r.answered, data)
        /\ AtRest(q)
    BY <2>3 DEF Receiver, AtRest
  <2> HIDE DEF q
  <2>5. Leads(r, t, q)
    BY <2>1 DEF q
  <2> QED
    BY <1>1, <2>4, <2>5 DEF t, yes
<1> QED
  BY <1>1, <1>2, <1>3

LEMMA PongLeads ==
  ASSUME NEW r, AtRest(r), NEW data, IsSeq(data), NEW key
  PROVE  /\ IsSeq(Frame(OpPong, data, key, TRUE))
         /\ \E q : /\ Leads(r, Frame(OpPong, data, key, TRUE), q)
                   /\ q.delivered = r.delivered /\ q.answered = r.answered
                   /\ \/ q.stopped /\ q.pongs = r.pongs
                      \/ AtRest(q) /\ q.pongs = Append(r.pongs, data)
<1> DEFINE yes == TRUE
           t == Frame(OpPong, data, key, yes)
<1>0. ~ r.stopped /\ r.reader = NewFrame
  BY DEF AtRest
<1> HIDE DEF yes
<1>1. IsSeq(t) /\ \/ Leads(r, t, Stop(r))
                  \/ \E f : FrameOf(f, OpPong, data, yes) /\ Leads(r, t, Dispatched(r, f))
  BY <1>0, FrameLeads
<1> HIDE DEF t
<1>2. CASE Leads(r, t, Stop(r))
  <2>1. Stop(r).stopped /\ SameLists(r, Stop(r))
    BY WithIs
  <2> QED
    BY <1>1, <1>2, <2>1 DEF SameLists, t, yes
<1>3. CASE \E f : FrameOf(f, OpPong, data, yes) /\ Leads(r, t, Dispatched(r, f))
  <2>1. PICK f : FrameOf(f, OpPong, data, yes) /\ Leads(r, t, Dispatched(r, f))
    BY <1>3
  <2>2. ~ Stops(f, r.processor) /\ f.opCode = OpPong /\ f.payload = data
    BY <2>1 DEF FrameOf, Stops, isControlFrame, OpPong, OpClose
  <2> DEFINE q == Dispatched(r, f)
  <2>3. q = Receiver(NewFrame, r.processor, r.delivered, Append(r.pongs, data), r.answered, FALSE)
    BY <2>2 DEF Dispatched, OpPing, OpPong
  <2>4. /\ q.delivered = r.delivered /\ q.answered = r.answered /\ q.pongs = Append(r.pongs, data)
        /\ AtRest(q)
    BY <2>3 DEF Receiver, AtRest
  <2> HIDE DEF q
  <2>5. Leads(r, t, q)
    BY <2>1 DEF q
  <2> QED
    BY <1>1, <2>4, <2>5 DEF t, yes
<1> QED
  BY <1>1, <1>2, <1>3

LEMMA CloseLeads ==
  ASSUME NEW r, AtRest(r), NEW code, NEW reason, IsSeq(reason), NEW key
  PROVE  /\ IsSeq(CloseFrame(code, reason, key))
         /\ \E q : Leads(r, CloseFrame(code, reason, key), q) /\ q.stopped /\ SameLists(r, q)
<1> DEFINE yes == TRUE
           data == <<"code", code>> \o reason
           t == Frame(OpClose, data, key, yes)
<1>0. ~ r.stopped /\ r.reader = NewFrame
  BY DEF AtRest
<1>4. IsSeq(data)
  <2>1. <<"code", code>> \in Seq({"code", code})
    OBVIOUS
  <2>2. IsSeq(<<"code", code>>)
    BY ONLY <2>1, IsSeqOf
  <2> QED
    BY <2>2, JoinOf
<1> HIDE DEF yes, data
<1>1. IsSeq(t) /\ \/ Leads(r, t, Stop(r))
                  \/ \E f : FrameOf(f, OpClose, data, yes) /\ Leads(r, t, Dispatched(r, f))
  BY <1>0, <1>4, FrameLeads
<1> HIDE DEF t
<1>2. Stop(r).stopped /\ SameLists(r, Stop(r))
  BY WithIs
<1>3. Leads(r, t, Stop(r))
  <2>1. ASSUME NEW f, FrameOf(f, OpClose, data, yes) PROVE Dispatched(r, f) = Stop(r)
    <3>1. Stops(f, r.processor)
      BY <2>1 DEF FrameOf, Stops, isControlFrame, OpPing, OpPong, OpClose
    <3> QED
      BY <3>1 DEF Dispatched
  <2> QED
    BY <1>1, <2>1
<1>5. CloseFrame(code, reason, key) = t
  BY DEF CloseFrame, t, data, yes
<1> QED
  BY <1>1, <1>2, <1>3, <1>5

-----------------------------------------------------------------------------
(* More is written to what a receiver is about to read.                    *)

(* A run y that begins with another over s, and ends in q.                 *)
GoesTo(y, run, s, units, q) ==
  /\ y[Len(s \o units)] = q
  /\ \A i \in 0 .. Len(s \o units) :
       y[i] = q \/ \E j \in 0 .. Len(s) : SameLists(run[j], y[i])

LEMMA RunExtended ==
  ASSUME NEW run, NEW r, NEW s, NEW units, IsSeq(s), IsSeq(units), IsRun(run, r, s),
         NEW q, Leads(run[Len(s)], units, q)
  PROVE  \E y : IsRun(y, r, s \o units) /\ GoesTo(y, run, s, units, q)
<1> DEFINE n == Len(s)
           m == Len(units)
<1>1. n \in Nat /\ m \in Nat /\ Len(s \o units) = n + m
  BY SeqIs, JoinOf
<1>2. PICK x : /\ IsRun(x, run[n], units) /\ x[m] = q
               /\ \A i \in 0 .. m - 1 : SameLists(run[n], x[i])
  BY DEF Leads
<1>3. PICK y : IsRun(y, r, s \o units) /\ Follows(y, run, n, x, m)
  BY <1>2, RunsJoined
<1>4. /\ \A i \in 0 .. n : y[i] = run[i]
      /\ \A i \in 0 .. m : n + i \in Nat /\ y[n + i] = x[i]
  BY <1>3 DEF Follows
<1> HIDE DEF n, m
<1>5. y[n + m] = q
  BY <1>1, <1>2, <1>4
<1>6. ASSUME NEW i \in 0 .. n + m PROVE y[i] = q \/ \E j \in 0 .. n : SameLists(run[j], y[i])
  <2>1. CASE i \in 0 .. n
    BY <1>4, <2>1 DEF SameLists
  <2>2. CASE i \notin 0 .. n
    <3>1. i - n \in 0 .. m /\ i = n + (i - n) /\ n \in 0 .. n
          /\ (i - n = m \/ i - n \in 0 .. m - 1)
      BY <1>1, <2>2
    <3>2. y[i] = x[i - n]
      BY <1>4, <3>1
    <3> QED
      BY <1>2, <3>1, <3>2
  <2> QED
    BY <2>1, <2>2
<1> QED
  BY <1>1, <1>3, <1>5, <1>6 DEF n, GoesTo

(* What a receiver signals while it reads are the begins of what it may.   *)
Settled(q, theirs) == q.stopped \/ (AtRest(q) /\ q.delivered = theirs)

ReadsOn(now, stream, run, theirs, mine, own, rest) ==
  /\ IsRun(run, now, stream)
  /\ \A i \in 0 .. Len(stream) : /\ Begins(run[i].delivered, theirs)
                                 /\ own => Begins(run[i].pongs, mine)
  /\ rest => Settled(run[Len(stream)], theirs)

LEMMA ReadsMore ==
  ASSUME NEW now, NEW stream, NEW run, NEW theirs, NEW mine, NEW own, NEW rest,
         ReadsOn(now, stream, run, theirs, mine, own, rest), IsSeq(stream),
         NEW units, IsSeq(units), NEW q, Leads(run[Len(stream)], units, q),
         NEW more, \A s : Begins(s, theirs) => Begins(s, more),
         Begins(q.delivered, more), own => Begins(q.pongs, mine),
         NEW rests, rests => Settled(q, more)
  PROVE  \E y : /\ ReadsOn(now, stream \o units, y, more, mine, own, rests)
                /\ GoesTo(y, run, stream, units, q)
<1>1. IsRun(run, now, stream)
  BY DEF ReadsOn
<1>2. PICK y : IsRun(y, now, stream \o units) /\ GoesTo(y, run, stream, units, q)
  BY <1>1, RunExtended
<1>3. ASSUME NEW i \in 0 .. Len(stream \o units)
      PROVE  Begins(y[i].delivered, more) /\ (own => Begins(y[i].pongs, mine))
  <2>1. CASE y[i] = q
    BY <2>1
  <2>2. CASE \E j \in 0 .. Len(stream) : SameLists(run[j], y[i])
    BY <2>2 DEF SameLists, ReadsOn
  <2> QED
    BY <1>2, <2>1, <2>2 DEF GoesTo
<1> QED
  BY <1>2, <1>3 DEF ReadsOn, GoesTo

LEMMA ReadsLess ==
  ASSUME NEW now, NEW stream, NEW run, NEW theirs, NEW mine, NEW own, NEW rest,
         NEW t, IsSeq(stream), IsSeq(t),
         ReadsOn(now, stream \o t, run, theirs, mine, own, rest)
  PROVE  ReadsOn(now, stream, run, theirs, mine, own, FALSE)
BY RunBegins DEF ReadsOn

LEMMA ReadsNext ==
  ASSUME NEW now, NEW stream, NEW run, NEW theirs, NEW mine, NEW own, NEW rest,
         IsSeq(stream), stream # << >>,
         ReadsOn(now, stream, run, theirs, mine, own, rest)
  PROVE  /\ AsksPayload(now) => IsSeq(Head(stream).data)
         /\ IsSeq(Tail(stream))
         /\ \E y : /\ ReadsOn(After(now, Head(stream)), Tail(stream), y, theirs, mine, own, rest)
                   /\ y[Len(Tail(stream))] = run[Len(stream)]
                   /\ \A i \in 0 .. Len(Tail(stream)) :
                        i + 1 \in 0 .. Len(stream) /\ y[i] = run[i + 1]
<1> DEFINE y == [i \in Nat |-> run[i + 1]]
<1>1. /\ IsRun(y, After(now, Head(stream)), Tail(stream))
      /\ AsksPayload(now) => IsSeq(Head(stream).data)
      /\ \A i \in 0 .. Len(Tail(stream)) : i + 1 \in 0 .. Len(stream) /\ y[i] = run[i + 1]
      /\ y[Len(Tail(stream))] = run[Len(stream)]
  BY RunGoesOn DEF ReadsOn
<1> HIDE DEF y
<1>2. ReadsOn(After(now, Head(stream)), Tail(stream), y, theirs, mine, own, rest)
  BY <1>1 DEF ReadsOn
<1> QED
  BY <1>1, <1>2, TailOf

-----------------------------------------------------------------------------
(* Messages arrive whole and in order: the inductive invariant.            *)

Places == {"header", "length", "mask", "payload"}

(* What e has made of what it has read; a are the pings it has answered.   *)
NowOf(f, p, delivered, pongs, a) ==
  LET r == Receiver(NewFrame, p, delivered, pongs, a, FALSE)
  IN IF f.at = "dispatch" THEN Dispatched(r, f)
     ELSE With(r, IF f.at \in Places THEN f ELSE NewFrame)
Now(e, a) == NowOf(reader[e], processor[e], log[e].delivered, log[e].pongs, a)

(* What it has not read, and whether it will not read on.                  *)
Stream(e) == buffer[e] \o wire[Peer(e)]
Off(e) ==
  \/ ~ Ours(e) \/ about[e] \/ ~ opened[e]
  \/ reader[e].at = "dispatch" /\ Stops(reader[e], processor[e])

(* What d writes now will arrive. *)
Live(d) == Writable(d) /\ ~ broken

(* What e reads from its peer d gives the messages that d has sent, and    *)
(* all of them if d can still write.                                       *)
Reads(e, d, run, a) ==
  ~ Off(e) => ReadsOn(Now(e, a), Stream(e), run, log[d].intended, log[e].pings,
                      ~ foreign, ~ foreign /\ Live(d))

(* The pongs that d has and gets are the answers a of e, and e answers the *)
(* pings of d.                                                             *)
Answers(d, e, rd, re, a) ==
  ~ foreign /\ ~ Off(d) /\ ~ Off(e) /\ Live(e) /\ ~ rd[Len(Stream(d))].stopped =>
    /\ a = rd[Len(Stream(d))].pongs
    /\ \A i \in 0 .. Len(Stream(e)) : Begins(re[i].answered, log[d].pings)
    /\ Writable(d) => \/ re[Len(Stream(e))].stopped
                      \/ re[Len(Stream(e))].answered = log[d].pings

Agree(e, d, re, rd, ae, ad) ==
  /\ Reads(e, d, re, ae) /\ Reads(d, e, rd, ad)
  /\ Answers(e, d, re, rd, ad) /\ Answers(d, e, rd, re, ae)

EndsAgree == \E rc, rs, ac, as : Agree("client", "server", rc, rs, ac, as)

LEMMA PeerIs ==
  ASSUME NEW e \in Ends
  PROVE  /\ Peer(e) \in Ends /\ Peer(Peer(e)) = e /\ Peer(e) # e
         /\ \A x \in Ends : x = e \/ x = Peer(e)
BY DEF Ends, Peer

LEMMA EitherAgrees ==
  ASSUME NEW e \in Ends
  PROVE  /\ EndsAgree => \E re, rd, ae, ad : Agree(e, Peer(e), re, rd, ae, ad)
         /\ (\E re, rd, ae, ad : Agree(e, Peer(e), re, rd, ae, ad)) => EndsAgree
<1>1. ASSUME NEW c, NEW s, NEW rc, NEW rs, NEW ac, NEW as
      PROVE  Agree(c, s, rc, rs, ac, as) <=> Agree(s, c, rs, rc, as, ac)
  BY DEF Agree
<1>2. CASE e = "client"
  BY <1>2 DEF Peer, EndsAgree
<1>3. CASE e = "server"
  <2>1. Peer(e) = "client"
    BY <1>3 DEF Peer
  <2>2. ASSUME EndsAgree PROVE \E re, rd, ae, ad : Agree(e, Peer(e), re, rd, ae, ad)
    <3>1. PICK rc, rs, ac, as : Agree("client", "server", rc, rs, ac, as)
      BY <2>2 DEF EndsAgree
    <3>2. Agree(e, Peer(e), rs, rc, as, ac)
      BY <1>1, <1>3, <2>1, <3>1
    <3> QED
      BY <3>2
  <2>3. ASSUME NEW re, NEW rd, NEW ae, NEW ad, Agree(e, Peer(e), re, rd, ae, ad) PROVE EndsAgree
    <3>1. Agree("client", "server", rd, re, ad, ae)
      BY <1>1, <1>3, <2>1, <2>3
    <3> QED
      BY <3>1 DEF EndsAgree
  <2> QED
    BY <2>2, <2>3
<1> QED
  BY <1>2, <1>3 DEF Ends

LEMMA EitherAgreesNext ==
  ASSUME NEW e \in Ends, NEW re, NEW rd, NEW ae, NEW ad, Agree(e, Peer(e), re, rd, ae, ad)'
  PROVE  EndsAgree'
<1>1. ASSUME NEW c, NEW s, NEW rc, NEW rs, NEW ac, NEW as
      PROVE  Agree(c, s, rc, rs, ac, as)' <=> Agree(s, c, rs, rc, as, ac)'
  BY DEF Agree
<1>2. CASE e = "client"
  BY <1>2 DEF Peer, EndsAgree
<1>3. CASE e = "server"
  <2>1. Peer(e) = "client"
    BY <1>3 DEF Peer
  <2>2. Agree("server", "client", re, rd, ae, ad)'
    BY <1>3, <2>1
  <2>3. Agree("client", "server", rd, re, ad, ae)'
    BY <1>1, <2>2
  <2> QED
    BY <2>3 DEF EndsAgree
<1> QED
  BY <1>2, <1>3 DEF Ends

(* A step after which an end that reads on has what it had.                *)
SameReading(x) ==
  ~ Off(x)' => ~ Off(x) /\ (\A a : Now(x, a)' = Now(x, a)) /\ Stream(x)' = Stream(x)

SameWritten(x) == log'[x].intended = log[x].intended /\ log'[x].pings = log[x].pings

LEMMA QuietAgrees ==
  ASSUME EndsAgree, foreign' = foreign,
         \A x \in Ends : /\ SameReading(x) /\ SameWritten(x)
                         /\ Live(x)' => Live(x)
                         /\ Writable(x)' => Writable(x)
  PROVE  EndsAgree'
<1> DEFINE e == "client"
           d == "server"
<1>1. e \in Ends /\ d \in Ends
  BY DEF Ends
<1> HIDE DEF e, d
<1>2. PICK re, rd, ae, ad : Agree(e, d, re, rd, ae, ad)
  BY DEF EndsAgree, e, d
<1>3. ASSUME NEW x \in Ends, NEW y \in Ends, NEW run, NEW a, Reads(x, y, run, a)
      PROVE  Reads(x, y, run, a)'
  <2>1. SUFFICES ASSUME ~ Off(x)'
                 PROVE  ReadsOn(Now(x, a), Stream(x), run, log[y].intended, log[x].pings,
                                ~ foreign, ~ foreign /\ Live(y))'
    BY DEF Reads
  <2>2. /\ ~ Off(x) /\ Now(x, a)' = Now(x, a) /\ Stream(x)' = Stream(x)
        /\ log'[y].intended = log[y].intended /\ log'[x].pings = log[x].pings
        /\ (~ foreign /\ Live(y))' => ~ foreign /\ Live(y)
    BY <2>1 DEF SameReading, SameWritten
  <2>3. ReadsOn(Now(x, a), Stream(x), run, log[y].intended, log[x].pings,
                ~ foreign, ~ foreign /\ Live(y))
    BY <1>3, <2>2 DEF Reads
  <2> QED
    BY <2>2, <2>3 DEF ReadsOn
<1>4. ASSUME NEW x \in Ends, NEW y \in Ends, NEW rx, NEW ry, NEW a, Answers(x, y, rx, ry, a)
      PROVE  Answers(x, y, rx, ry, a)'
  <2>1. SUFFICES ASSUME ~ foreign', ~ Off(x)', ~ Off(y)', Live(y)', ~ rx[Len(Stream(x)')].stopped
                 PROVE  /\ a = rx[Len(Stream(x)')].pongs
                        /\ \A i \in 0 .. Len(Stream(y)') : Begins(ry[i].answered, log'[x].pings)
                        /\ Writable(x)' => \/ ry[Len(Stream(y)')].stopped
                                           \/ ry[Len(Stream(y)')].answered = log'[x].pings
    BY DEF Answers
  <2>2. /\ ~ Off(x) /\ ~ Off(y) /\ Live(y) /\ Stream(x)' = Stream(x) /\ Stream(y)' = Stream(y)
        /\ log'[x].pings = log[x].pings /\ (Writable(x)' => Writable(x)) /\ ~ foreign
    BY <2>1 DEF SameReading, SameWritten
  <2> QED
    BY <1>4, <2>1, <2>2 DEF Answers
<1>5. Agree(e, d, re, rd, ae, ad)'
  BY <1>1, <1>2, <1>3, <1>4 DEF Agree
<1> QED
  BY <1>5 DEF EndsAgree, e, d

(* A step after which nothing that is written arrives.                     *)
LEMMA LossAgrees ==
  ASSUME EndsAgree, foreign' = foreign,
         \A x \in Ends : /\ Off(x)' \/ ~ Live(Peer(x))'
                         /\ SameWritten(x)
                         /\ ~ Off(x)' => /\ ~ Off(x) /\ \A a : Now(x, a)' = Now(x, a)
                                         /\ \E t : /\ IsSeq(t) /\ IsSeq(Stream(x)')
                                                   /\ Stream(x) = Stream(x)' \o t
  PROVE  EndsAgree'
<1> DEFINE e == "client"
           d == "server"
<1>1. e \in Ends /\ d \in Ends /\ Peer(e) = d /\ Peer(d) = e
  BY DEF Ends, Peer
<1> HIDE DEF e, d
<1>2. PICK re, rd, ae, ad : Agree(e, d, re, rd, ae, ad)
  BY DEF EndsAgree, e, d
<1>3. ASSUME NEW x \in Ends, NEW y \in Ends, y = Peer(x), NEW run, NEW a, Reads(x, y, run, a)
      PROVE  Reads(x, y, run, a)'
  <2>1. SUFFICES ASSUME ~ Off(x)'
                 PROVE  ReadsOn(Now(x, a), Stream(x), run, log[y].intended, log[x].pings,
                                ~ foreign, ~ foreign /\ Live(y))'
    BY DEF Reads
  <2>2. /\ ~ Off(x) /\ Now(x, a)' = Now(x, a) /\ ~ Live(y)'
        /\ log'[y].intended = log[y].intended /\ log'[x].pings = log[x].pings
    BY <1>3, <2>1 DEF SameWritten
  <2>3. PICK t : IsSeq(t) /\ IsSeq(Stream(x)') /\ Stream(x) = Stream(x)' \o t
    BY <2>1
  <2>4. ReadsOn(Now(x, a), Stream(x), run, log[y].intended, log[x].pings,
                ~ foreign, ~ foreign /\ Live(y))
    BY <1>3, <2>2 DEF Reads
  <2> DEFINE s == Stream(x)'
             rest == ~ foreign /\ Live(y)
             own == ~ foreign
             now == Now(x, a)
             theirs == log[y].intended
             mine == log[x].pings
  <2>5. ReadsOn(now, s \o t, run, theirs, mine, own, rest) /\ IsSeq(t) /\ IsSeq(s)
    BY <2>3, <2>4
  <2> HIDE DEF s, rest, own, now, theirs, mine
  <2>6. ReadsOn(now, s, run, theirs, mine, own, FALSE)
    BY ONLY <2>5, ReadsLess
  <2> QED
    BY <2>2, <2>6 DEF ReadsOn, s, own, now, theirs, mine
<1>4. ASSUME NEW x \in Ends, NEW y \in Ends, y = Peer(x), NEW rx, NEW ry, NEW a
      PROVE  Answers(x, y, rx, ry, a)'
  BY <1>4 DEF Answers
<1>5. Agree(e, d, re, rd, ae, ad)'
  BY <1>1, <1>2, <1>3, <1>4 DEF Agree
<1> QED
  BY <1>5 DEF EndsAgree, e, d

(* An end reads a unit. *)
LEMMA ReadAgrees ==
  ASSUME EndsAgree, foreign' = foreign, NEW e \in Ends, NEW d, d = Peer(e),
         ~ Off(e), IsSeq(Stream(e)), Stream(e) # << >>,
         Stream(e)' = Tail(Stream(e)), Stream(d)' = Stream(d),
         ~ Off(e)' => \A a : Now(e, a)' = After(Now(e, a), Head(Stream(e))),
         Off(d)' <=> Off(d), \A a : Now(d, a)' = Now(d, a),
         \A x \in Ends : /\ SameWritten(x) /\ (Live(x)' <=> Live(x))
                         /\ (Writable(x)' <=> Writable(x))
  PROVE  EndsAgree'
<1> DEFINE s == Stream(e)
           t == Tail(s)
<1>1. d \in Ends /\ Peer(d) = e
  BY PeerIs
<1>2. PICK re, rd, ae, ad : Agree(e, d, re, rd, ae, ad)
  BY EitherAgrees
<1>3. PICK y : /\ ReadsOn(After(Now(e, ae), Head(s)), t, y, log[d].intended, log[e].pings,
                          ~ foreign, ~ foreign /\ Live(d))
               /\ y[Len(t)] = re[Len(s)]
               /\ \A i \in 0 .. Len(t) : i + 1 \in 0 .. Len(s) /\ y[i] = re[i + 1]
  <2> DEFINE now == Now(e, ae)
             theirs == log[d].intended
             mine == log[e].pings
             own == ~ foreign
             rest == ~ foreign /\ Live(d)
  <2>1. ReadsOn(now, s, re, theirs, mine, own, rest)
    BY <1>2 DEF Agree, Reads
  <2>2. IsSeq(s) /\ s # << >>
    OBVIOUS
  <2> HIDE DEF now, theirs, mine, own, rest, s
  <2>3. \E y : /\ ReadsOn(After(now, Head(s)), Tail(s), y, theirs, mine, own, rest)
               /\ y[Len(Tail(s))] = re[Len(s)]
               /\ \A i \in 0 .. Len(Tail(s)) :
                    i + 1 \in 0 .. Len(s) /\ y[i] = re[i + 1]
    BY ONLY <2>1, <2>2, ReadsNext
  <2> QED
    BY <2>3 DEF now, theirs, mine, own, rest
<1>4. Reads(e, d, y, ae)'
  <2>1. SUFFICES ASSUME ~ Off(e)'
                 PROVE  ReadsOn(Now(e, ae), Stream(e), y, log[d].intended, log[e].pings,
                                ~ foreign, ~ foreign /\ Live(d))'
    BY DEF Reads
  <2>2. Now(e, ae)' = After(Now(e, ae), Head(s)) /\ Stream(e)' = t
        /\ log'[d].intended = log[d].intended /\ log'[e].pings = log[e].pings
        /\ (Live(d)' <=> Live(d))
    BY <1>1, <2>1 DEF SameWritten
  <2> QED
    BY <1>3, <2>2 DEF ReadsOn
<1>5. Reads(d, e, rd, ad)'
  <2>1. SUFFICES ASSUME ~ Off(d)'
                 PROVE  ReadsOn(Now(d, ad), Stream(d), rd, log[e].intended, log[d].pings,
                                ~ foreign, ~ foreign /\ Live(e))'
    BY DEF Reads
  <2>2. /\ ReadsOn(Now(d, ad), Stream(d), rd, log[e].intended, log[d].pings,
                   ~ foreign, ~ foreign /\ Live(e))
        /\ Now(d, ad)' = Now(d, ad) /\ Stream(d)' = Stream(d)
        /\ log'[e].intended = log[e].intended /\ log'[d].pings = log[d].pings
        /\ (Live(e)' <=> Live(e))
    BY <1>1, <1>2, <2>1 DEF SameWritten, Agree, Reads
  <2> QED
    BY <2>2 DEF ReadsOn
<1>6. Answers(e, d, y, rd, ad)'
  <2>1. SUFFICES ASSUME ~ foreign', ~ Off(e)', ~ Off(d)', Live(d)', ~ y[Len(Stream(e)')].stopped
                 PROVE  /\ ad = y[Len(Stream(e)')].pongs
                        /\ \A i \in 0 .. Len(Stream(d)') : Begins(rd[i].answered, log'[e].pings)
                        /\ Writable(e)' => \/ rd[Len(Stream(d)')].stopped
                                           \/ rd[Len(Stream(d)')].answered = log'[e].pings
    BY DEF Answers
  <2>2. /\ ~ Off(d) /\ Live(d) /\ y[Len(Stream(e)')] = re[Len(s)] /\ ~ foreign
        /\ log'[e].pings = log[e].pings /\ (Writable(e)' => Writable(e))
    BY <1>1, <1>3, <2>1 DEF SameWritten
  <2>3. Answers(e, d, re, rd, ad)
    BY <1>2 DEF Agree
  <2> QED
    BY <2>1, <2>2, <2>3 DEF Answers
<1>7. Answers(d, e, rd, y, ae)'
  <2>1. SUFFICES ASSUME ~ foreign', ~ Off(d)', ~ Off(e)', Live(e)', ~ rd[Len(Stream(d)')].stopped
                 PROVE  /\ ae = rd[Len(Stream(d)')].pongs
                        /\ \A i \in 0 .. Len(Stream(e)') : Begins(y[i].answered, log'[d].pings)
                        /\ Writable(d)' => \/ y[Len(Stream(e)')].stopped
                                           \/ y[Len(Stream(e)')].answered = log'[d].pings
    BY DEF Answers
  <2>2. /\ ~ Off(d) /\ Live(e) /\ y[Len(Stream(e)')] = re[Len(s)] /\ Stream(e)' = t /\ ~ foreign
        /\ log'[d].pings = log[d].pings /\ (Writable(d)' => Writable(d))
    BY <1>1, <1>3, <2>1 DEF SameWritten
  <2>3. Answers(d, e, rd, re, ae)
    BY <1>2 DEF Agree
  <2>4. /\ ae = rd[Len(Stream(d))].pongs
        /\ \A i \in 0 .. Len(s) : Begins(re[i].answered, log[d].pings)
        /\ Writable(d) => re[Len(s)].stopped \/ re[Len(s)].answered = log[d].pings
    BY <2>1, <2>2, <2>3 DEF Answers
  <2>5. \A i \in 0 .. Len(t) : Begins(y[i].answered, log[d].pings)
    BY <1>3, <2>4
  <2> QED
    BY <2>2, <2>4, <2>5
<1>8. Agree(e, d, y, rd, ae, ad)'
  BY <1>4, <1>5, <1>6, <1>7 DEF Agree
<1> QED
  BY <1>8, EitherAgreesNext

(* What e reads next is a payload when it expects one.                     *)
LEMMA PayloadComes ==
  ASSUME EndsAgree, NEW e \in Ends, ~ Off(e), reader[e].at = "payload",
         IsSeq(Stream(e)), Stream(e) # << >>
  PROVE  IsSeq(Head(Stream(e)).data)
<1>1. PICK re, rd, ae, ad : Agree(e, Peer(e), re, rd, ae, ad)
  BY EitherAgrees
<1>2. \E r : Now(e, ae) = With(r, reader[e])
  BY DEF Now, NowOf, Places
<1>3. AsksPayload(Now(e, ae))
  BY <1>2, WithIs DEF AsksPayload
<1> DEFINE now == Now(e, ae)
           s == Stream(e)
           theirs == log[Peer(e)].intended
           mine == log[e].pings
           own == ~ foreign
           rest == ~ foreign /\ Live(Peer(e))
<1>4. ReadsOn(now, s, re, theirs, mine, own, rest) /\ IsSeq(s) /\ s # << >>
  BY <1>1 DEF Agree, Reads
<1> HIDE DEF now, s, theirs, mine, own, rest
<1>5. AsksPayload(now) => IsSeq(Head(s).data)
  BY ONLY <1>4, ReadsNext
<1> QED
  BY <1>3, <1>5 DEF now, s

-----------------------------------------------------------------------------
(* What the units that e writes make of what its peer will have read.      *)
Takes(e, last, units, q, ae, a) ==
  /\ Leads(last, units, q)
  /\ Begins(q.delivered, log'[e].intended) /\ Begins(q.pongs, log[Peer(e)].pings)
  /\ Settled(q, log'[e].intended)
  /\ ~ Off(e)' =>
       /\ ~ q.stopped => ~ last.stopped /\ (last.pongs = ae => q.pongs = a)
       /\ Begins(last.answered, log[e].pings)
          /\ (last.stopped \/ last.answered = log[e].pings)
            => /\ Begins(q.answered, log'[e].pings)
               /\ q.stopped \/ q.answered = log'[e].pings

LEMMA WriteAgrees ==
  ASSUME NEW e \in Ends, NEW d, d = Peer(e), foreign' = foreign,
         NEW re, NEW rd, NEW ae, NEW ad, Agree(e, d, re, rd, ae, ad),
         NEW a, ~ Off(e)' => ~ Off(e) /\ Now(e, a)' = Now(e, ae),
         Stream(e)' = Stream(e), Off(d)' <=> Off(d), \A b : Now(d, b)' = Now(d, b),
         ~ Off(d) => ~ foreign,
         \A x \in Ends : (Live(x)' <=> Live(x)) /\ (Writable(x)' <=> Writable(x)),
         SameWritten(d),
         \A s : Begins(s, log[e].intended) => Begins(s, log'[e].intended),
         \A s : Begins(s, log[e].pings) => Begins(s, log'[e].pings),
         NEW units, IsSeq(units), IsSeq(Stream(d)),
         Live(e) => Stream(d)' = Stream(d) \o units,
         ~ Live(e) => Stream(d)' = Stream(d),
         ~ Off(d) /\ Live(e) => \E q : Takes(e, rd[Len(Stream(d))], units, q, ae, a)
  PROVE  EndsAgree'
<1> DEFINE s == Stream(d)
           n == Len(s)
           last == rd[n]
<1>1. d \in Ends /\ Peer(d) = e
  BY PeerIs
<1>2. /\ Reads(e, d, re, ae) /\ Reads(d, e, rd, ad)
      /\ Answers(e, d, re, rd, ad) /\ Answers(d, e, rd, re, ae)
  BY DEF Agree
<1>3. Reads(e, d, re, a)'
  <2>1. SUFFICES ASSUME ~ Off(e)'
                 PROVE  ReadsOn(Now(e, a), Stream(e), re, log[d].intended, log[e].pings,
                                ~ foreign, ~ foreign /\ Live(d))'
    BY DEF Reads
  <2>2. /\ ReadsOn(Now(e, ae), Stream(e), re, log[d].intended, log[e].pings,
                   ~ foreign, ~ foreign /\ Live(d))
        /\ Now(e, a)' = Now(e, ae)
        /\ log'[d].intended = log[d].intended /\ (Live(d)' <=> Live(d))
    BY <1>1, <1>2, <2>1 DEF SameWritten, Reads
  <2> QED
    BY <2>2 DEF ReadsOn
<1>4. ASSUME NEW y,
             Reads(d, e, y, ad)',
             ~ foreign /\ ~ Off(d) /\ ~ Off(e)' =>
               /\ Live(e) => \/ y[Len(s')].stopped
                             \/ /\ ~ last.stopped
                                /\ last.pongs = ae => y[Len(s')].pongs = a
               /\ (\A i \in 0 .. n : Begins(rd[i].answered, log[e].pings))
                  /\ (Live(e) => last.stopped \/ last.answered = log[e].pings)
                    => /\ \A i \in 0 .. Len(s') : Begins(y[i].answered, log'[e].pings)
                       /\ Live(e) => y[Len(s')].stopped \/ y[Len(s')].answered = log'[e].pings
      PROVE  EndsAgree'
  <2>1. Answers(e, d, re, y, ad)'
    <3>1. SUFFICES ASSUME ~ foreign', ~ Off(e)', ~ Off(d)', Live(d)', ~ re[Len(Stream(e)')].stopped
                   PROVE  /\ ad = re[Len(Stream(e)')].pongs
                          /\ \A i \in 0 .. Len(s') : Begins(y[i].answered, log'[e].pings)
                          /\ Writable(e)' => \/ y[Len(s')].stopped
                                             \/ y[Len(s')].answered = log'[e].pings
      BY DEF Answers
    <3>2. ~ foreign /\ ~ Off(e) /\ ~ Off(d) /\ Live(d) /\ ~ re[Len(Stream(e))].stopped
      BY <1>1, <3>1
    <3>3. /\ ad = re[Len(Stream(e))].pongs
          /\ \A i \in 0 .. n : Begins(rd[i].answered, log[e].pings)
          /\ Writable(e) => last.stopped \/ last.answered = log[e].pings
      BY <1>2, <3>2 DEF Answers
    <3>4. Writable(e)' => Live(e)
      BY <3>2 DEF Live
    <3> HIDE DEF s, n, last
    <3> QED
      BY <1>4, <3>1, <3>2, <3>3, <3>4 DEF Live
  <2>2. Answers(d, e, y, re, a)'
    <3>1. SUFFICES ASSUME ~ foreign', ~ Off(d)', ~ Off(e)', Live(e)', ~ y[Len(s')].stopped
                   PROVE  /\ a = y[Len(s')].pongs
                          /\ \A i \in 0 .. Len(Stream(e)') : Begins(re[i].answered, log'[d].pings)
                          /\ Writable(d)' => \/ re[Len(Stream(e)')].stopped
                                             \/ re[Len(Stream(e)')].answered = log'[d].pings
      BY DEF Answers
    <3>2. ~ foreign /\ ~ Off(d) /\ ~ Off(e) /\ Live(e)
      BY <3>1
    <3>3. ~ last.stopped /\ (last.pongs = ae => y[Len(s')].pongs = a)
      <4> HIDE DEF s, n, last
      <4> QED
        BY <1>4, <3>1, <3>2
    <3>4. /\ ae = last.pongs
          /\ \A i \in 0 .. Len(Stream(e)) : Begins(re[i].answered, log[d].pings)
          /\ Writable(d) => \/ re[Len(Stream(e))].stopped
                            \/ re[Len(Stream(e))].answered = log[d].pings
      BY <1>2, <3>2, <3>3 DEF Answers
    <3> QED
      BY <1>1, <3>3, <3>4 DEF SameWritten
  <2>3. Agree(e, d, re, y, a, ad)'
    BY <1>3, <1>4, <2>1, <2>2 DEF Agree
  <2> QED
    BY <2>3, EitherAgreesNext
<1>5. CASE ~ Off(d) /\ Live(e)
  <2>1. PICK q : Takes(e, last, units, q, ae, a)
    BY <1>5
  <2>2. ~ foreign /\ ReadsOn(Now(d, ad), s, rd, log[e].intended, log[d].pings,
                             ~ foreign, ~ foreign /\ Live(e))
    BY <1>2, <1>5 DEF Reads
  <2>3. PICK y : /\ ReadsOn(Now(d, ad), s \o units, y, log'[e].intended, log[d].pings,
                            ~ foreign, TRUE)
                 /\ GoesTo(y, rd, s, units, q)
    <3> DEFINE now == Now(d, ad)
               theirs == log[e].intended
               mine == log[d].pings
               own == ~ foreign
               rest == ~ foreign /\ Live(e)
               more == log'[e].intended
               rests == TRUE
    <3>1. /\ ReadsOn(now, s, rd, theirs, mine, own, rest) /\ IsSeq(s) /\ IsSeq(units)
          /\ Leads(rd[Len(s)], units, q)
          /\ \A v : Begins(v, theirs) => Begins(v, more)
          /\ Begins(q.delivered, more) /\ (own => Begins(q.pongs, mine))
          /\ (rests => Settled(q, more))
      BY <1>1, <2>1, <2>2 DEF Takes
    <3> HIDE DEF now, theirs, mine, own, rest, more, rests, s
    <3>2. \E y : ReadsOn(now, s \o units, y, more, mine, own, rests) /\ GoesTo(y, rd, s, units, q)
      BY ONLY <3>1, ReadsMore
    <3> QED
      BY <3>2 DEF now, theirs, mine, own, more, rests
  <2>4. s' = s \o units
    BY <1>5
  <2>5. Reads(d, e, y, ad)'
    <3>1. SUFFICES ReadsOn(Now(d, ad), Stream(d), y, log[e].intended, log[d].pings,
                           ~ foreign, ~ foreign /\ Live(e))'
      BY DEF Reads
    <3>2. Now(d, ad)' = Now(d, ad) /\ Stream(d)' = s \o units /\ log'[d].pings = log[d].pings
      BY <1>5 DEF SameWritten
    <3> QED
      BY <2>3, <3>2 DEF ReadsOn
  <2>6. /\ y[Len(s')] = q
        /\ \A i \in 0 .. Len(s') : y[i] = q \/ \E j \in 0 .. n : SameLists(rd[j], y[i])
    BY <2>3, <2>4 DEF GoesTo
  <2>7. n \in 0 .. n
    BY SeqIs
  <2> HIDE DEF s, n, last
  <2>8. ASSUME ~ Off(e)'
        PROVE  /\ Live(e) => \/ y[Len(s')].stopped
                             \/ /\ ~ last.stopped
                                /\ last.pongs = ae => y[Len(s')].pongs = a
               /\ (\A i \in 0 .. n : Begins(rd[i].answered, log[e].pings))
                  /\ (Live(e) => last.stopped \/ last.answered = log[e].pings)
                    => /\ \A i \in 0 .. Len(s') : Begins(y[i].answered, log'[e].pings)
                       /\ Live(e) => y[Len(s')].stopped \/ y[Len(s')].answered = log'[e].pings
    <3>1. /\ ~ q.stopped => ~ last.stopped /\ (last.pongs = ae => q.pongs = a)
          /\ Begins(last.answered, log[e].pings)
             /\ (last.stopped \/ last.answered = log[e].pings)
               => /\ Begins(q.answered, log'[e].pings)
                  /\ q.stopped \/ q.answered = log'[e].pings
      BY <2>1, <2>8 DEF Takes
    <3>2. ASSUME \A i \in 0 .. n : Begins(rd[i].answered, log[e].pings),
                 last.stopped \/ last.answered = log[e].pings,
                 NEW i \in 0 .. Len(s')
          PROVE  Begins(y[i].answered, log'[e].pings)
      <4>1. CASE y[i] = q
        <5>1. Begins(last.answered, log[e].pings)
          BY <2>7, <3>2 DEF last
        <5> QED
          BY <3>1, <3>2, <4>1, <5>1
      <4>2. CASE \E j \in 0 .. n : SameLists(rd[j], y[i])
        BY <3>2, <4>2 DEF SameLists
      <4> QED
        BY <2>6, <4>1, <4>2
    <3>3. (\A i \in 0 .. n : Begins(rd[i].answered, log[e].pings))
            => Begins(last.answered, log[e].pings)
      BY <2>7 DEF last
    <3> QED
      BY <1>5, <2>6, <3>1, <3>2, <3>3
  <2> QED
    BY <1>4, <2>5, <2>8
<1>6. CASE ~ Off(d) /\ ~ Live(e)
  <2>1. s' = s
    BY <1>6
  <2>2. Reads(d, e, rd, ad)'
    <3>1. /\ ReadsOn(Now(d, ad), s, rd, log[e].intended, log[d].pings,
                     ~ foreign, ~ foreign /\ Live(e))
          /\ Now(d, ad)' = Now(d, ad) /\ log'[d].pings = log[d].pings /\ ~ Live(e)'
      BY <1>2, <1>6 DEF Reads, SameWritten
    <3> QED
      BY <2>1, <3>1 DEF Reads, ReadsOn
  <2> HIDE DEF s, n, last
  <2>3. (\A i \in 0 .. n : Begins(rd[i].answered, log[e].pings))
          => \A i \in 0 .. Len(s') : Begins(rd[i].answered, log'[e].pings)
    BY <2>1 DEF n
  <2> QED
    BY <1>4, <1>6, <2>2, <2>3
<1>7. CASE Off(d)
  <2>1. Reads(d, e, rd, ad)'
    BY <1>7 DEF Reads
  <2> QED
    BY <1>4, <1>7, <2>1
<1> QED
  BY <1>5, <1>6, <1>7

FramingTypes ==
  /\ DOMAIN log = Ends /\ DOMAIN wire = Ends /\ DOMAIN buffer = Ends /\ DOMAIN socket = Ends
  /\ DOMAIN opened = Ends /\ DOMAIN about = Ends /\ DOMAIN reader = Ends
  /\ DOMAIN processor = Ends
  /\ \A e \in Ends : /\ DOMAIN log[e] = LogFields /\ DOMAIN reader[e] = DOMAIN NewFrame
                    /\ IsSeq(buffer[e]) /\ IsSeq(wire[e]) /\ IsSeq(reader[e].payload)

(* A socket that is closed gives nothing to read; only a thread that is    *)
(* between frames can be in slots of aboutToClose(); a foreign client does *)
(* not run this code.                                                      *)
SocketFits(e) ==
  /\ ~ opened[e] => /\ buffer[e] = << >>
                    /\ reader[e].at = "dispatch" => reader[e].error # "none"
  /\ about[e] => reader[e].at \in {"idle", "slot", "last slot"}
  /\ ~ Ours(e) => reader[e] = Idle /\ ~ about[e]

(* A socket is not connected any more before it is closed only when        *)
(* nothing more can arrive.                                                *)
LineFits(e) ==
  Ours(e) /\ opened[e] /\ socket[e] # "connected" =>
    /\ socket[e] = "unconnected" /\ wire[Peer(e)] = << >>
    /\ broken \/ socket[Peer(e)] = "unconnected"

SocketsFit == \A e \in Ends : SocketFits(e) /\ LineFits(e)

SignalsFit ==
  \A e \in Ends : /\ Begins(log[e].delivered, log[Peer(e)].intended)
                  /\ foreign \/ Begins(log[e].pongs, log[e].pings)

FramingInv == FramingTypes /\ SocketsFit /\ SignalsFit /\ EndsAgree

-----------------------------------------------------------------------------
(* What does not change, or changes nothing.                               *)

LEMMA ResultsAreSeqs ==
  /\ DOMAIN Idle = DOMAIN NewFrame /\ Idle.at = "idle" /\ NewFrame.at = "header"
  /\ IsSeq(NewFrame.payload) /\ IsSeq(Idle.payload) /\ IsSeq(<< >>)
  /\ \A code : DOMAIN setError(code) = DOMAIN NewFrame /\ setError(code).at = "dispatch"
               /\ setError(code).error = code /\ IsSeq(setError(code).payload)
<1>1. << >> \in Seq({})
  OBVIOUS
<1>2. IsSeq(<< >>)
  BY <1>1, IsSeqOf
<1>3. /\ DOMAIN Idle = DOMAIN NewFrame /\ Idle.at = "idle" /\ NewFrame.at = "header"
      /\ NewFrame.payload = << >> /\ Idle.payload = << >>
  BY DEF Idle, NewFrame
<1>4. \A code : DOMAIN setError(code) = DOMAIN NewFrame /\ setError(code).at = "dispatch"
                /\ setError(code).error = code /\ setError(code).payload = << >>
  BY DEF setError, NewFrame
<1> QED
  BY <1>2, <1>3, <1>4

LEMMA StreamsAreSeqs ==
  ASSUME FramingTypes, NEW e \in Ends
  PROVE  IsSeq(Stream(e)) /\ Peer(e) \in Ends
BY PeerIs, JoinOf DEF FramingTypes, Stream

(* A reader that is between frames. *)
LEMMA NowBetween ==
  ASSUME NEW f, f.at \in {"idle", "slot", "last slot"} \/ f = NewFrame, NEW p, NEW l, NEW g, NEW a
  PROVE  NowOf(f, p, l, g, a) = With(Receiver(NewFrame, p, l, g, a, FALSE), NewFrame)
<1>1. f.at # "dispatch" /\ (f.at \in Places => f = NewFrame)
  <2>1. NewFrame.at = "header"
    BY DEF NewFrame
  <2> QED
    BY <2>1 DEF Places
<1> QED
  BY <1>1 DEF NowOf

LEMMA SameNow ==
  ASSUME NEW x, reader'[x] = reader[x], processor'[x] = processor[x],
         log'[x].delivered = log[x].delivered, log'[x].pongs = log[x].pongs
  PROVE  \A a : Now(x, a)' = Now(x, a)
BY DEF Now

LEMMA SameOff ==
  ASSUME NEW x, reader'[x] = reader[x], processor'[x] = processor[x], foreign' = foreign,
         about'[x] = about[x], opened'[x] = opened[x]
  PROVE  Off(x)' <=> Off(x)
BY DEF Off, Ours

LEMMA SameStream ==
  ASSUME NEW x, buffer'[x] = buffer[x], wire'[Peer(x)] = wire[Peer(x)]
  PROVE  Stream(x)' = Stream(x)
BY DEF Stream

LEMMA SameLive ==
  ASSUME NEW x, opened'[x] = opened[x], socket'[x] = socket[x], broken' = broken
  PROVE  (Live(x)' <=> Live(x)) /\ (Writable(x)' <=> Writable(x))
BY DEF Live, Writable

(* A log in which late or disconnected changes. *)
LEMMA LogNotes ==
  ASSUME NEW l, DOMAIN l = LogFields, NEW v
  PROVE  /\ LET k == [l EXCEPT !.late = v] IN
              /\ DOMAIN k = LogFields /\ k.intended = l.intended /\ k.pings = l.pings
              /\ k.delivered = l.delivered /\ k.pongs = l.pongs
         /\ LET k == [l EXCEPT !.disconnected = v] IN
              /\ DOMAIN k = LogFields /\ k.intended = l.intended /\ k.pings = l.pings
              /\ k.delivered = l.delivered /\ k.pongs = l.pongs
BY DEF LogFields

(* What is in the logs, and not when. *)
SameLog(x) ==
  /\ DOMAIN log'[x] = LogFields
  /\ log'[x].intended = log[x].intended /\ log'[x].pings = log[x].pings
  /\ log'[x].delivered = log[x].delivered /\ log'[x].pongs = log[x].pongs

LEMMA LogsNote ==
  ASSUME FramingTypes, NEW e \in Ends,
         \/ log' = log
         \/ log' = [log EXCEPT ![e] = LogWrite(e)]
         \/ log' = LogUnconnected(e)
  PROVE  DOMAIN log' = Ends /\ \A x \in Ends : SameLog(x)
<1>1. DOMAIN log = Ends /\ \A x \in Ends : DOMAIN log[x] = LogFields
  BY DEF FramingTypes
<1>2. CASE log' = log
  BY <1>1, <1>2 DEF SameLog
<1>3. CASE log' = [log EXCEPT ![e] = LogWrite(e)]
  <2> DEFINE v == log[e].late \/ (Writable(e) /\ sent[e])
             k == [log[e] EXCEPT !.late = v]
  <2>1. LogWrite(e) = k
    BY DEF LogWrite
  <2> HIDE DEF v
  <2>2. /\ DOMAIN k = LogFields /\ k.intended = log[e].intended /\ k.pings = log[e].pings
        /\ k.delivered = log[e].delivered /\ k.pongs = log[e].pongs
    BY <1>1, LogNotes
  <2> HIDE DEF k
  <2>3. DOMAIN log' = Ends /\ \A x \in Ends : log'[x] = IF x = e THEN k ELSE log[x]
    BY <1>1, <1>3, <2>1
  <2> QED
    BY <1>1, <2>2, <2>3 DEF SameLog
<1>4. CASE log' = LogUnconnected(e)
  <2> DEFINE v == IF state[e] = "unconnected" THEN log[e].disconnected ELSE log[e].disconnected + 1
             k == [log[e] EXCEPT !.disconnected = v]
  <2>1. log' = [log EXCEPT ![e] = k]
    BY <1>4 DEF LogUnconnected
  <2> HIDE DEF v
  <2>2. /\ DOMAIN k = LogFields /\ k.intended = log[e].intended /\ k.pings = log[e].pings
        /\ k.delivered = log[e].delivered /\ k.pongs = log[e].pongs
    BY <1>1, LogNotes
  <2> HIDE DEF k
  <2>3. DOMAIN log' = Ends /\ \A x \in Ends : log'[x] = IF x = e THEN k ELSE log[x]
    BY <1>1, <2>1
  <2> QED
    BY <1>1, <2>2, <2>3 DEF SameLog
<1> QED
  BY <1>2, <1>3, <1>4

LEMMA SameSignals ==
  ASSUME SignalsFit, \A x \in Ends : SameLog(x), foreign' = foreign
  PROVE  SignalsFit' /\ \A x \in Ends : SameWritten(x)
BY PeerIs DEF SignalsFit, SameLog, SameWritten

LEMMA SocketSame ==
  ASSUME NEW x, SocketFits(x), foreign' = foreign, opened'[x] = opened[x], about'[x] = about[x],
         buffer'[x] = buffer[x], reader'[x] = reader[x]
  PROVE  SocketFits(x)'
BY DEF SocketFits, Ours

LEMMA LineSame ==
  ASSUME NEW x, LineFits(x), foreign' = foreign, broken => broken', opened'[x] => opened[x],
         socket'[x] = socket[x],
         wire'[Peer(x)] = << >> \/ wire'[Peer(x)] = wire[Peer(x)] \/ Live(Peer(x)),
         socket[Peer(x)] = "unconnected" => socket'[Peer(x)] = "unconnected"
  PROVE  LineFits(x)'
<1>1. Live(Peer(x)) => ~ broken /\ socket[Peer(x)] # "unconnected"
  BY DEF Live, Writable
<1> QED
  BY <1>1 DEF LineFits, Ours

-----------------------------------------------------------------------------
(* Steps that neither write nor read.                                      *)

LEMMA ReaderMoves ==
  ASSUME FramingInv, NEW e \in Ends, NEW f, reader' = [reader EXCEPT ![e] = f],
         UNCHANGED <<foreign, wire, broken, buffer, socket, opened, about, processor, log>>,
         Ours(e), ~ about[e], DOMAIN f = DOMAIN NewFrame, IsSeq(f.payload),
         \/ f.at = "dispatch" /\ f.error # "none"
         \/ /\ f.at = "idle" \/ f = NewFrame
            /\ reader[e].at \in {"idle", "slot", "last slot"}
  PROVE  FramingInv'
<1>1. /\ DOMAIN reader' = Ends /\ reader'[e] = f /\ \A x \in Ends : x # e => reader'[x] = reader[x]
  BY DEF FramingInv, FramingTypes
<1>2. FramingTypes'
  BY <1>1 DEF FramingInv, FramingTypes
<1>3. f.at = "dispatch" => f.error # "none"
  BY ResultsAreSeqs
<1>4. SocketsFit'
  <2>1. \A x \in Ends : SocketFits(x) /\ LineFits(x)
    BY DEF FramingInv, SocketsFit
  <2>2. \A x \in Ends : LineFits(x)'
    BY <2>1, LineSame
  <2>3. SocketFits(e)'
    BY <1>1, <1>3, <2>1 DEF SocketFits, Ours
  <2>4. \A x \in Ends : x # e => SocketFits(x)'
    BY <1>1, <2>1, SocketSame
  <2> QED
    BY <2>2, <2>3, <2>4 DEF SocketsFit
<1>5. SignalsFit' /\ \A x \in Ends : SameWritten(x)
  <2>1. \A x \in Ends : SameLog(x)
    BY LogsNote DEF FramingInv
  <2> QED
    BY <2>1, SameSignals DEF FramingInv
<1>6. \A x \in Ends : /\ Stream(x)' = Stream(x)
                      /\ (Live(x)' <=> Live(x)) /\ (Writable(x)' <=> Writable(x))
  BY SameStream, SameLive
<1>7. SameReading(e)
  <2>1. CASE f.at = "dispatch" /\ f.error # "none"
    <3>1. Off(e)'
      BY <1>1, <2>1 DEF Off, Stops
    <3> QED
      BY <3>1 DEF SameReading
  <2>2. CASE /\ f.at = "idle" \/ f = NewFrame
             /\ reader[e].at \in {"idle", "slot", "last slot"}
    <3>1. f.at # "dispatch" /\ reader[e].at # "dispatch"
      BY <2>2, ResultsAreSeqs
    <3>2. Off(e)' <=> Off(e)
      BY <1>1, <3>1 DEF Off, Ours
    <3>3. ASSUME NEW a PROVE Now(e, a)' = Now(e, a)
      <4> DEFINE p == processor[e]
                 l == log[e].delivered
                 g == log[e].pongs
                 b == reader[e]
      <4>1. Now(e, a) = NowOf(b, p, l, g, a) /\ Now(e, a)' = NowOf(f, p, l, g, a)
        BY <1>1 DEF Now
      <4>2. f.at \in {"idle", "slot", "last slot"} \/ f = NewFrame
        BY <2>2
      <4>3. b.at \in {"idle", "slot", "last slot"} \/ b = NewFrame
        BY <2>2
      <4> HIDE DEF p, l, g, b
      <4>4. NowOf(f, p, l, g, a) = With(Receiver(NewFrame, p, l, g, a, FALSE), NewFrame)
        BY ONLY <4>2, NowBetween
      <4>5. NowOf(b, p, l, g, a) = With(Receiver(NewFrame, p, l, g, a, FALSE), NewFrame)
        BY ONLY <4>3, NowBetween
      <4> QED
        BY <4>1, <4>4, <4>5
    <3> QED
      BY <1>6, <3>2, <3>3 DEF SameReading
  <2> QED
    BY <2>1, <2>2
<1>8. ASSUME NEW x \in Ends, x # e PROVE SameReading(x)
  <2>1. reader'[x] = reader[x]
    BY <1>1, <1>8
  <2>2. (Off(x)' <=> Off(x)) /\ \A a : Now(x, a)' = Now(x, a)
    BY <2>1, SameOff, SameNow
  <2> QED
    BY <1>6, <2>2 DEF SameReading
<1>9. EndsAgree'
  BY <1>5, <1>6, <1>7, <1>8, QuietAgrees DEF FramingInv
<1> QED
  BY <1>2, <1>4, <1>5, <1>9 DEF FramingInv

LEMMA LoopsKeep ==
  ASSUME FramingInv, NEW e \in Ends, ProcessData(e) \/ SlotReturns(e) \/ ReadFails(e)
  PROVE  FramingInv'
<1>0. Ours(e) /\ ~ about[e]
  <2>1. ReadFails(e) \/ SlotReturns(e) => reader[e].at # "idle"
    BY DEF ReadFails, Blocked, Reading, SlotReturns, InSlot
  <2> QED
    BY <2>1, ResultsAreSeqs DEF ProcessData, InLoop, SlotReturns, InSlot, ReadFails, Blocked, Reading,
       FramingInv, SocketsFit, SocketFits
<1>1. UNCHANGED <<foreign, wire, broken, buffer, socket, opened, about, processor, log>>
  BY DEF ProcessData, SlotReturns, ReadFails
<1>2. CASE ProcessData(e) \/ SlotReturns(e)
  <2>1. \E f \in {Idle, NewFrame} : reader' = [reader EXCEPT ![e] = f]
    BY <1>2 DEF ProcessData, SlotReturns, NextFrame
  <2>2. reader[e].at \in {"idle", "slot", "last slot"}
    BY <1>2 DEF ProcessData, InLoop, SlotReturns, InSlot
  <2> QED
    BY <1>0, <1>1, <2>1, <2>2, ResultsAreSeqs, ReaderMoves
<1>3. CASE ReadFails(e)
  <2> DEFINE f == setError("goingAway")
  <2>1. reader' = [reader EXCEPT ![e] = f]
    BY <1>3 DEF ReadFails
  <2>2. DOMAIN f = DOMAIN NewFrame /\ IsSeq(f.payload) /\ f.at = "dispatch" /\ f.error # "none"
    BY ResultsAreSeqs
  <2> HIDE DEF f
  <2> QED
    BY <1>0, <1>1, <2>1, <2>2, ReaderMoves
<1> QED
  BY <1>2, <1>3

LEMMA ArriveKeeps ==
  ASSUME FramingInv, NEW e \in Ends, Arrive(e)
  PROVE  FramingInv'
<1> DEFINE d == Peer(e)
           h == Head(wire[d])
<1>0. d \in Ends /\ Peer(d) = e /\ d # e /\ \A x \in Ends : x = e \/ x = d
  BY PeerIs
<1>1. /\ wire[d] # << >> /\ wire' = [wire EXCEPT ![d] = Tail(@)]
      /\ UNCHANGED <<foreign, broken, socket, opened, about, reader, processor, log>>
      /\ Writable(e) => buffer' = [buffer EXCEPT ![e] = Append(@, h)]
      /\ ~ Writable(e) => buffer' = buffer
  BY DEF Arrive
<1> HIDE DEF d
<1>2. /\ DOMAIN wire' = Ends /\ wire'[d] = Tail(wire[d]) /\ wire'[e] = wire[e]
      /\ DOMAIN buffer' = Ends /\ buffer'[d] = buffer[d]
      /\ Writable(e) => buffer'[e] = Append(buffer[e], h)
      /\ ~ Writable(e) => buffer'[e] = buffer[e]
  BY <1>0, <1>1 DEF FramingInv, FramingTypes
<1>3. /\ IsSeq(wire[d]) /\ IsSeq(buffer[e]) /\ IsSeq(Tail(wire[d]))
      /\ IsSeq(Append(buffer[e], h))
  BY <1>0, <1>1, TailOf, AppendOf DEF FramingInv, FramingTypes
<1>4. FramingTypes'
  BY <1>0, <1>1, <1>2, <1>3 DEF FramingInv, FramingTypes
<1>5. SocketsFit'
  <2>1. \A x \in Ends : SocketFits(x) /\ LineFits(x)
    BY DEF FramingInv, SocketsFit
  <2>2. LineFits(d)'
    BY <1>0, <1>1, <1>2, <2>1, LineSame
  <2>3. SocketFits(d)'
    BY <1>0, <1>1, <1>2, <2>1, SocketSame
  <2>4. LineFits(e)'
    <3>1. wire[Peer(e)] # << >>
      BY <1>1 DEF d
    <3> QED
      BY <1>1, <2>1, <3>1 DEF LineFits, Ours
  <2>5. SocketFits(e)'
    <3>1. ~ opened[e] => ~ Writable(e)
      BY DEF Writable
    <3> QED
      BY <1>1, <1>2, <2>1, <3>1 DEF SocketFits, Ours
  <2> QED
    BY <1>0, <2>2, <2>3, <2>4, <2>5 DEF SocketsFit
<1>6. SignalsFit' /\ \A x \in Ends : SameWritten(x)
  <2>1. \A x \in Ends : SameLog(x)
    BY <1>1, LogsNote DEF FramingInv
  <2> QED
    BY <1>1, <2>1, SameSignals DEF FramingInv
<1>7. \A x \in Ends : /\ (Live(x)' <=> Live(x)) /\ (Writable(x)' <=> Writable(x))
                      /\ (Off(x)' <=> Off(x)) /\ \A a : Now(x, a)' = Now(x, a)
  BY <1>1, SameLive, SameOff, SameNow
<1>8. Stream(d)' = Stream(d)
  BY <1>0, <1>2, SameStream
<1>9. ~ Off(e) => Stream(e)' = Stream(e)
  <2> SUFFICES ASSUME ~ Off(e) PROVE Stream(e)' = Stream(e)
    OBVIOUS
  <2>1. Writable(e)
    <3>1. Ours(e) /\ opened[e]
      BY DEF Off
    <3>2. socket[e] = "connected"
      BY <1>1, <3>1 DEF FramingInv, SocketsFit, LineFits, d
    <3> QED
      BY <3>1, <3>2 DEF Writable
  <2>2. Append(buffer[e], h) \o Tail(wire[d]) = buffer[e] \o wire[d]
    BY <1>1, <1>3, MoveOne
  <2> QED
    BY <1>2, <2>1, <2>2 DEF Stream, d
<1>10. \A x \in Ends : SameReading(x)
  BY <1>0, <1>7, <1>8, <1>9 DEF SameReading
<1>11. EndsAgree'
  BY <1>1, <1>6, <1>7, <1>10, QuietAgrees DEF FramingInv
<1> QED
  BY <1>4, <1>5, <1>6, <1>11 DEF FramingInv

(* The socket of e disconnects.                                            *)
LEMMA SocketMoves ==
  ASSUME FramingInv, NEW e \in Ends, socket' = [socket EXCEPT ![e] = "unconnected"],
         UNCHANGED <<foreign, wire, broken, buffer, opened, about, reader, processor>>,
         log' = log \/ log' = LogUnconnected(e), LineFits(e)'
  PROVE  FramingInv'
<1>0. Peer(e) \in Ends /\ Peer(Peer(e)) = e /\ Peer(e) # e /\ \A x \in Ends : x = e \/ x = Peer(e)
  BY PeerIs
<1>1. /\ DOMAIN socket' = Ends /\ socket'[e] = "unconnected"
      /\ \A x \in Ends : x # e => socket'[x] = socket[x]
  BY DEF FramingInv, FramingTypes
<1>2. DOMAIN log' = Ends /\ \A x \in Ends : SameLog(x)
  BY LogsNote DEF FramingInv
<1>3. FramingTypes'
  BY <1>1, <1>2 DEF FramingInv, FramingTypes, SameLog
<1>4. SocketsFit'
  <2>1. \A x \in Ends : SocketFits(x) /\ LineFits(x)
    BY DEF FramingInv, SocketsFit
  <2>2. \A x \in Ends : SocketFits(x)'
    BY <2>1, SocketSame
  <2>3. LineFits(Peer(e))'
    BY <1>0, <1>1, <2>1, LineSame
  <2> QED
    BY <1>0, <2>2, <2>3 DEF SocketsFit
<1>5. SignalsFit' /\ \A x \in Ends : SameWritten(x)
  BY <1>2, SameSignals DEF FramingInv
<1>6. ASSUME NEW x \in Ends
      PROVE  SameReading(x) /\ (Live(x)' => Live(x)) /\ (Writable(x)' => Writable(x))
  <2>1. (Off(x)' <=> Off(x)) /\ Stream(x)' = Stream(x)
    BY SameOff, SameStream
  <2>2. \A a : Now(x, a)' = Now(x, a)
    BY <1>2, SameNow DEF SameLog
  <2>3. Writable(x)' => Writable(x)
    BY <1>1 DEF Writable
  <2> QED
    BY <2>1, <2>2, <2>3 DEF SameReading, Live
<1>7. EndsAgree'
  BY <1>5, <1>6, QuietAgrees DEF FramingInv
<1> QED
  BY <1>3, <1>4, <1>5, <1>7 DEF FramingInv

LEMMA DisconnectKeeps ==
  ASSUME FramingInv, NEW e \in Ends, Disconnect(e) \/ RemoteClosed(e)
  PROVE  FramingInv'
<1>1. /\ socket' = [socket EXCEPT ![e] = "unconnected"]
      /\ UNCHANGED <<foreign, wire, broken, buffer, opened, about, reader, processor>>
      /\ log' = LogUnconnected(e)
  BY DEF Disconnect, RemoteClosed
<1>2. LineFits(e) /\ Peer(e) # e /\ DOMAIN socket = Ends
  BY PeerIs DEF FramingInv, SocketsFit, FramingTypes
<1>3. LineFits(e)'
  <2>1. CASE Disconnect(e)
    <3>1. socket[e] = "closing"
      BY <2>1 DEF Disconnect
    <3>2. Ours(e) => ~ opened[e]
      BY <1>2, <3>1 DEF LineFits
    <3> QED
      BY <1>1, <3>2 DEF LineFits, Ours
  <2>2. CASE RemoteClosed(e)
    <3>1. wire[Peer(e)] = << >> /\ (broken \/ socket[Peer(e)] = "unconnected")
      BY <2>2 DEF RemoteClosed
    <3>2. socket'[e] = "unconnected" /\ socket'[Peer(e)] = socket[Peer(e)]
      BY <1>1, <1>2
    <3> QED
      BY <1>1, <3>1, <3>2 DEF LineFits
  <2> QED
    BY <2>1, <2>2
<1> QED
  BY <1>1, <1>3, SocketMoves

LEMMA ForeignClosesKeeps ==
  ASSUME FramingInv, ForeignCloses
  PROVE  FramingInv'
<1> DEFINE e == "client"
<1>1. /\ e \in Ends /\ socket' = [socket EXCEPT ![e] = "unconnected"] /\ ~ Ours(e)
      /\ UNCHANGED <<foreign, wire, broken, buffer, opened, about, reader, processor, log>>
  BY DEF ForeignCloses, Ours, Ends
<1> HIDE DEF e
<1>2. LineFits(e)'
  BY <1>1 DEF LineFits, Ours
<1> QED
  BY <1>1, <1>2, SocketMoves

(* e closes its socket, or has closed it: it reads nothing more.           *)
Shuts(e) ==
  /\ foreign' = foreign /\ broken' = broken
  /\ opened' = [opened EXCEPT ![e] = FALSE]
  /\ buffer' = [buffer EXCEPT ![e] = << >>]
  /\ \E v : /\ socket' = [socket EXCEPT ![e] = v]
            /\ v # "connected" /\ (socket[e] = "unconnected" => v = "unconnected")
  /\ DOMAIN about' = Ends /\ DOMAIN reader' = Ends /\ DOMAIN processor' = Ends
  /\ \A x \in Ends : x # e => /\ about'[x] = about[x] /\ reader'[x] = reader[x]
                              /\ processor'[x] = processor[x]
  /\ ~ about'[e] /\ reader'[e].at # "dispatch"
  /\ DOMAIN reader'[e] = DOMAIN NewFrame /\ IsSeq(reader'[e].payload)

LEMMA ShutFits ==
  ASSUME FramingInv, NEW e \in Ends, Ours(e), Shuts(e),
         wire' = wire \/ wire' = Lost(e), log' = log \/ log' = LogUnconnected(e)
  PROVE  /\ FramingTypes' /\ SocketsFit' /\ SignalsFit'
         /\ Off(e)' /\ ~ Writable(e)'
         /\ \A x \in Ends :
              /\ SameWritten(x)
              /\ x # e => /\ (Off(x)' <=> Off(x)) /\ (\A a : Now(x, a)' = Now(x, a))
                          /\ buffer'[x] = buffer[x] /\ wire'[x] = wire[x]
                          /\ (Live(x)' <=> Live(x)) /\ (Writable(x)' <=> Writable(x))
<1>0. Peer(e) \in Ends /\ Peer(Peer(e)) = e /\ Peer(e) # e /\ \A x \in Ends : x = e \/ x = Peer(e)
  BY PeerIs
<1>1. PICK v : /\ socket' = [socket EXCEPT ![e] = v]
               /\ v # "connected" /\ (socket[e] = "unconnected" => v = "unconnected")
  BY DEF Shuts
<1>2. /\ DOMAIN socket' = Ends /\ DOMAIN opened' = Ends /\ DOMAIN buffer' = Ends
      /\ socket'[e] = v /\ ~ opened'[e] /\ buffer'[e] = << >>
      /\ \A x \in Ends : x # e => /\ socket'[x] = socket[x] /\ opened'[x] = opened[x]
                                  /\ buffer'[x] = buffer[x]
  BY <1>1 DEF FramingInv, FramingTypes, Shuts
<1>3. /\ DOMAIN wire' = Ends
      /\ wire'[e] = wire[e] \/ wire'[e] = << >>
      /\ \A x \in Ends : x # e => wire'[x] = wire[x]
  BY DEF FramingInv, FramingTypes, Lost
<1>4. DOMAIN log' = Ends /\ \A x \in Ends : SameLog(x)
  BY LogsNote DEF FramingInv
<1>5. /\ foreign' = foreign /\ broken' = broken
      /\ DOMAIN about' = Ends /\ DOMAIN reader' = Ends /\ DOMAIN processor' = Ends
      /\ \A x \in Ends : x # e => /\ about'[x] = about[x] /\ reader'[x] = reader[x]
                                  /\ processor'[x] = processor[x]
      /\ ~ about'[e] /\ reader'[e].at # "dispatch"
      /\ DOMAIN reader'[e] = DOMAIN NewFrame /\ IsSeq(reader'[e].payload)
  BY DEF Shuts
<1>6. FramingTypes'
  <2>1. /\ DOMAIN log' = Ends /\ DOMAIN wire' = Ends /\ DOMAIN buffer' = Ends
        /\ DOMAIN socket' = Ends /\ DOMAIN opened' = Ends /\ DOMAIN about' = Ends
        /\ DOMAIN reader' = Ends /\ DOMAIN processor' = Ends
    BY <1>2, <1>3, <1>4, <1>5
  <2>2. ASSUME NEW x \in Ends
        PROVE  /\ DOMAIN log'[x] = LogFields /\ DOMAIN reader'[x] = DOMAIN NewFrame
               /\ IsSeq(buffer'[x]) /\ IsSeq(wire'[x]) /\ IsSeq(reader'[x].payload)
    <3>1. DOMAIN log'[x] = LogFields
      BY <1>4 DEF SameLog
    <3>2. IsSeq(wire'[x])
      BY <1>3, ResultsAreSeqs DEF FramingInv, FramingTypes
    <3>3. CASE x = e
      BY <1>2, <1>5, <3>1, <3>2, <3>3, ResultsAreSeqs
    <3>4. CASE x # e
      BY <1>2, <1>5, <3>1, <3>2, <3>4 DEF FramingInv, FramingTypes
    <3> QED
      BY <3>3, <3>4
  <2> QED
    BY <2>1, <2>2 DEF FramingTypes
<1>7. SocketsFit'
  <2>1. \A x \in Ends : SocketFits(x) /\ LineFits(x)
    BY DEF FramingInv, SocketsFit
  <2>2. SocketFits(e)'
    BY <1>2, <1>5 DEF SocketFits, Ours
  <2>3. LineFits(e)'
    BY <1>2 DEF LineFits
  <2>4. SocketFits(Peer(e))'
    BY <1>0, <1>2, <1>5, <2>1, SocketSame
  <2>5. LineFits(Peer(e))'
    BY <1>0, <1>1, <1>2, <1>3, <1>5, <2>1, LineSame
  <2> QED
    BY <1>0, <2>2, <2>3, <2>4, <2>5 DEF SocketsFit
<1>8. SignalsFit' /\ \A x \in Ends : SameWritten(x)
  BY <1>4, <1>5, SameSignals DEF FramingInv
<1>9. Off(e)' /\ ~ Writable(e)'
  BY <1>2 DEF Off, Writable
<1>10. ASSUME NEW x \in Ends, x # e
       PROVE  /\ (Off(x)' <=> Off(x)) /\ (\A a : Now(x, a)' = Now(x, a))
              /\ (Live(x)' <=> Live(x)) /\ (Writable(x)' <=> Writable(x))
  <2>1. Off(x)' <=> Off(x)
    BY <1>2, <1>5, <1>10, SameOff
  <2>2. \A a : Now(x, a)' = Now(x, a)
    BY <1>4, <1>5, <1>10, SameNow DEF SameLog
  <2> QED
    BY <1>2, <1>5, <1>10, <2>1, <2>2, SameLive
<1> QED
  BY <1>2, <1>3, <1>6, <1>7, <1>8, <1>9, <1>10

LEMMA ShutKeeps ==
  ASSUME FramingInv, NEW e \in Ends, Ours(e), Shuts(e), wire' = wire, log' = log
  PROVE  FramingInv'
<1>1. /\ FramingTypes' /\ SocketsFit' /\ SignalsFit'
      /\ Off(e)' /\ ~ Writable(e)'
      /\ \A x \in Ends :
           /\ SameWritten(x)
           /\ x # e => /\ (Off(x)' <=> Off(x)) /\ (\A a : Now(x, a)' = Now(x, a))
                       /\ buffer'[x] = buffer[x] /\ wire'[x] = wire[x]
                       /\ (Live(x)' <=> Live(x)) /\ (Writable(x)' <=> Writable(x))
  BY ShutFits
<1>2. ASSUME NEW x \in Ends
      PROVE  /\ SameReading(x) /\ SameWritten(x)
             /\ Live(x)' => Live(x)
             /\ Writable(x)' => Writable(x)
  <2>1. CASE x = e
    BY <1>1, <2>1 DEF SameReading, Live
  <2>2. CASE x # e
    <3>1. Stream(x)' = Stream(x)
      BY <1>1, <2>2, SameStream
    <3> QED
      BY <1>1, <2>2, <3>1 DEF SameReading
  <2> QED
    BY <2>1, <2>2
<1>3. foreign' = foreign /\ EndsAgree
  BY DEF Shuts, FramingInv
<1>4. EndsAgree'
  BY <1>2, <1>3, QuietAgrees
<1> QED
  BY <1>1, <1>4 DEF FramingInv

LEMMA CloseSocketIs ==
  ASSUME NEW e, CloseSocket(e)
  PROVE  /\ opened' = [opened EXCEPT ![e] = FALSE]
         /\ buffer' = [buffer EXCEPT ![e] = << >>]
         /\ \E v : /\ socket' = [socket EXCEPT ![e] = v]
                   /\ v # "connected" /\ (socket[e] = "unconnected" => v = "unconnected")
<1> DEFINE v == IF socket[e] = "connected" THEN "closing" ELSE socket[e]
<1>1. socket' = [socket EXCEPT ![e] = v]
  BY DEF CloseSocket
<1>2. v # "connected" /\ (socket[e] = "unconnected" => v = "unconnected")
  OBVIOUS
<1>3. opened' = [opened EXCEPT ![e] = FALSE] /\ buffer' = [buffer EXCEPT ![e] = << >>]
  BY DEF CloseSocket
<1> HIDE DEF v
<1> QED
  BY <1>1, <1>2, <1>3

LEMMA FinishCloseKeepsFraming ==
  ASSUME FramingInv, NEW e \in Ends, FinishClose(e)
  PROVE  FramingInv'
<1>1. /\ about[e] /\ Ours(e) /\ reader[e].at \in {"idle", "slot", "last slot"}
      /\ about' = [about EXCEPT ![e] = FALSE]
      /\ UNCHANGED <<foreign, wire, broken, reader, processor, log>>
  BY DEF FinishClose, FramingInv, SocketsFit, SocketFits
<1>2. Shuts(e)
  <2>1. /\ opened' = [opened EXCEPT ![e] = FALSE]
        /\ buffer' = [buffer EXCEPT ![e] = << >>]
        /\ \E v : /\ socket' = [socket EXCEPT ![e] = v]
                  /\ v # "connected" /\ (socket[e] = "unconnected" => v = "unconnected")
    BY CloseSocketIs DEF FinishClose
  <2>2. /\ DOMAIN about' = Ends /\ ~ about'[e] /\ \A x \in Ends : x # e => about'[x] = about[x]
    BY <1>1 DEF FramingInv, FramingTypes
  <2> QED
    BY <1>1, <2>1, <2>2 DEF Shuts, FramingInv, FramingTypes
<1> QED
  BY <1>1, <1>2, ShutKeeps

(* Something that was written does not arrive.                             *)
LEMMA AbortKeeps ==
  ASSUME FramingInv, NEW e \in Ends, Abort(e)
  PROVE  FramingInv'
<1> DEFINE d == Peer(e)
<1>0. d \in Ends /\ Peer(d) = e /\ d # e /\ \A x \in Ends : x = e \/ x = d
  BY PeerIs
<1>1. Ours(e) /\ ~ about[e] /\ reader[e].at \in {"idle", "slot", "last slot"}
  <2>1. InSlot(e) => reader[e].at # "idle" /\ ~ about[e]
    BY DEF InSlot
  <2> QED
    BY <2>1, ResultsAreSeqs DEF Abort, MayCall, InLoop, InSlot, FramingInv, SocketsFit, SocketFits
<1>2. Shuts(e)
  BY <1>1 DEF Abort, Shuts, FramingInv, FramingTypes
<1>3. wire' = Lost(e) /\ log' = LogUnconnected(e)
  BY DEF Abort
<1> HIDE DEF d
<1>4. /\ FramingTypes' /\ SocketsFit' /\ SignalsFit'
      /\ Off(e)' /\ ~ Writable(e)'
      /\ \A x \in Ends :
           /\ SameWritten(x)
           /\ x # e => /\ (Off(x)' <=> Off(x)) /\ (\A a : Now(x, a)' = Now(x, a))
                       /\ buffer'[x] = buffer[x] /\ wire'[x] = wire[x]
                       /\ (Live(x)' <=> Live(x)) /\ (Writable(x)' <=> Writable(x))
  BY <1>1, <1>2, <1>3, ShutFits
<1>5. \E t : IsSeq(t) /\ IsSeq(Stream(d)') /\ Stream(d) = Stream(d)' \o t
  <2> DEFINE b == buffer[d]
             t == wire[e]
  <2>1. IsSeq(b) /\ IsSeq(t)
    BY <1>0 DEF FramingInv, FramingTypes
  <2>2. wire'[e] = << >> /\ buffer'[d] = b
    BY <1>0, <1>3, <1>4 DEF Lost, FramingInv, FramingTypes
  <2>3. Stream(d) = b \o t /\ Stream(d)' = b \o << >>
    BY <1>0, <2>2 DEF Stream
  <2> HIDE DEF b, t
  <2>4. b \o << >> = b
    BY <2>1, JoinThree
  <2> QED
    BY <2>1, <2>3, <2>4
<1>6. ~ Live(e)'
  BY <1>4 DEF Live
<1>7. foreign' = foreign /\ EndsAgree
  BY DEF Abort, FramingInv
<1>8. \A x \in Ends : /\ Off(x)' \/ ~ Live(Peer(x))'
                      /\ SameWritten(x)
                      /\ ~ Off(x)' => /\ ~ Off(x) /\ \A a : Now(x, a)' = Now(x, a)
                                      /\ \E t : /\ IsSeq(t) /\ IsSeq(Stream(x)')
                                                /\ Stream(x) = Stream(x)' \o t
  BY <1>0, <1>4, <1>5, <1>6
<1>9. EndsAgree'
  BY <1>7, <1>8, LossAgrees
<1> QED
  BY <1>4, <1>9 DEF FramingInv

LEMMA BreakKeeps ==
  ASSUME FramingInv, Break
  PROVE  FramingInv'
<1>1. /\ broken' /\ wire' = [e \in Ends |-> << >>]
      /\ UNCHANGED <<foreign, buffer, socket, opened, about, reader, processor, log>>
  BY DEF Break
<1>2. FramingTypes'
  BY <1>1, ResultsAreSeqs DEF FramingInv, FramingTypes
<1>3. SocketsFit'
  <2>1. \A x \in Ends : SocketFits(x) /\ LineFits(x) /\ Peer(x) \in Ends
    BY PeerIs DEF FramingInv, SocketsFit
  <2>2. \A x \in Ends : wire'[Peer(x)] = << >>
    BY <1>1, <2>1
  <2>3. \A x \in Ends : SocketFits(x)' /\ LineFits(x)'
    BY <1>1, <2>1, <2>2, SocketSame, LineSame
  <2> QED
    BY <2>3 DEF SocketsFit
<1>4. SignalsFit' /\ \A x \in Ends : SameWritten(x)
  <2>1. \A x \in Ends : SameLog(x)
    BY <1>1, LogsNote DEF FramingInv
  <2> QED
    BY <1>1, <2>1, SameSignals DEF FramingInv
<1>5. \A x \in Ends : /\ ~ Live(Peer(x))' /\ (Off(x)' <=> Off(x))
                      /\ \A a : Now(x, a)' = Now(x, a)
  BY <1>1, SameOff, SameNow DEF Live
<1>6. ASSUME NEW x \in Ends
      PROVE  \E t : IsSeq(t) /\ IsSeq(Stream(x)') /\ Stream(x) = Stream(x)' \o t
  <2> DEFINE b == buffer[x]
             t == wire[Peer(x)]
  <2>1. IsSeq(b) /\ IsSeq(t)
    BY PeerIs DEF FramingInv, FramingTypes
  <2>2. Stream(x) = b \o t /\ Stream(x)' = b \o << >>
    BY <1>1, PeerIs DEF Stream
  <2> HIDE DEF b, t
  <2>3. b \o << >> = b
    BY <2>1, JoinThree
  <2> QED
    BY <2>1, <2>2, <2>3
<1>7. EndsAgree'
  BY <1>1, <1>4, <1>5, <1>6, LossAgrees DEF FramingInv
<1> QED
  BY <1>2, <1>3, <1>4, <1>7 DEF FramingInv

-----------------------------------------------------------------------------
(* A frame that is complete is dispatched.                                 *)

LEMMA MayDispatch ==
  ASSUME FramingInv, NEW e \in Ends, reader[e].at = "dispatch"
  PROVE  /\ Ours(e) /\ ~ about[e]
         /\ ~ Stops(reader[e], processor[e]) => opened[e] /\ ~ Off(e)
<1>1. SocketFits(e) /\ reader[e] # Idle
  BY ResultsAreSeqs DEF FramingInv, SocketsFit
<1>2. Ours(e) /\ ~ about[e]
  BY <1>1 DEF SocketFits
<1>3. ~ Stops(reader[e], processor[e]) => opened[e]
  BY <1>1 DEF SocketFits, Stops
<1> QED
  BY <1>2, <1>3 DEF Off

LEMMA NowSignals ==
  ASSUME FramingInv, NEW e \in Ends, ~ Off(e)
  PROVE  \E a : /\ Begins(Now(e, a).delivered, log[Peer(e)].intended)
                /\ foreign \/ Begins(Now(e, a).pongs, log[e].pings)
<1>1. PICK re, rd, ae, ad : Agree(e, Peer(e), re, rd, ae, ad)
  BY EitherAgrees DEF FramingInv
<1>2. /\ re[0] = Now(e, ae)
      /\ \A i \in 0 .. Len(Stream(e)) : /\ Begins(re[i].delivered, log[Peer(e)].intended)
                                        /\ ~ foreign => Begins(re[i].pongs, log[e].pings)
  BY <1>1 DEF Agree, Reads, ReadsOn, IsRun
<1>3. 0 \in 0 .. Len(Stream(e))
  <2>1. IsSeq(Stream(e))
    BY StreamsAreSeqs DEF FramingInv
  <2> QED
    BY <2>1, SeqIs
<1> QED
  BY <1>2, <1>3

(* The frame f has been dispatched, the processor is z and the log is k.   *)
DispatchesTo(e, f, p, v, z, k) ==
  /\ f = reader[e] /\ p = processor[e] /\ f.at = "dispatch" /\ ~ Stops(f, p)
  /\ UNCHANGED <<foreign, wire, broken, buffer, socket, opened, about>>
  /\ v \in {"slot", "last slot"} /\ reader' = [reader EXCEPT ![e].at = v]
  /\ DOMAIN processor' = Ends /\ processor'[e] = z
  /\ \A x \in Ends : x # e => processor'[x] = processor[x]
  /\ log' = [log EXCEPT ![e] = k]
  /\ DOMAIN k = LogFields /\ k.intended = log[e].intended /\ k.pings = log[e].pings
  /\ \A a : Dispatched(Receiver(NewFrame, p, log[e].delivered, log[e].pongs, a, FALSE), f)
              = Receiver(NewFrame, z, k.delivered, k.pongs, a, FALSE)

LEMMA DispatchedKeeps ==
  ASSUME FramingInv, NEW e \in Ends, NEW f, NEW p, NEW v, NEW z, NEW k,
         DispatchesTo(e, f, p, v, z, k)
  PROVE  FramingInv'
<1> DEFINE g == [f EXCEPT !.at = v]
<1> USE DEF DispatchesTo
<1>0. Peer(e) \in Ends /\ Peer(e) # e /\ \A x \in Ends : x = e \/ x = Peer(e)
  BY PeerIs
<1>1. /\ DOMAIN g = DOMAIN NewFrame /\ g.at = v /\ g.payload = f.payload /\ IsSeq(g.payload)
  <2>1. DOMAIN f = DOMAIN NewFrame /\ "at" \in DOMAIN f /\ "payload" \in DOMAIN f
    BY DEF FramingInv, FramingTypes, NewFrame
  <2> QED
    BY <2>1 DEF FramingInv, FramingTypes
<1>2. reader' = [reader EXCEPT ![e] = g]
  OBVIOUS
<1> HIDE DEF g
<1>3. /\ DOMAIN reader' = Ends /\ reader'[e] = g /\ DOMAIN log' = Ends /\ log'[e] = k
      /\ \A x \in Ends : x # e => reader'[x] = reader[x] /\ log'[x] = log[x]
  BY <1>2 DEF FramingInv, FramingTypes
<1>4. Ours(e) /\ ~ about[e] /\ opened[e] /\ ~ Off(e)
  BY MayDispatch
<1>5. FramingTypes'
  <2>1. ASSUME NEW x \in Ends
        PROVE  DOMAIN log'[x] = LogFields /\ DOMAIN reader'[x] = DOMAIN NewFrame
               /\ IsSeq(reader'[x].payload)
    BY <1>1, <1>3 DEF FramingInv, FramingTypes
  <2> QED
    BY <1>3, <2>1 DEF FramingInv, FramingTypes
<1>6. SocketsFit'
  <2>1. \A x \in Ends : SocketFits(x) /\ LineFits(x)
    BY DEF FramingInv, SocketsFit
  <2>2. \A x \in Ends : LineFits(x)'
    BY <2>1, LineSame
  <2>3. \A x \in Ends : x # e => SocketFits(x)'
    BY <1>3, <2>1, SocketSame
  <2>4. SocketFits(e)'
    BY <1>4 DEF SocketFits, Ours
  <2> QED
    BY <2>2, <2>3, <2>4 DEF SocketsFit
<1>7. \A a : Now(e, a)' = Now(e, a)
  <2> TAKE a
  <2> DEFINE l == log[e].delivered
             s == log[e].pongs
             l2 == k.delivered
             s2 == k.pongs
  <2>1. Now(e, a) = NowOf(f, p, l, s, a) /\ Now(e, a)' = NowOf(g, z, l2, s2, a)
    BY <1>3 DEF Now
  <2>2. Dispatched(Receiver(NewFrame, p, l, s, a, FALSE), f)
          = Receiver(NewFrame, z, l2, s2, a, FALSE)
    OBVIOUS
  <2>3. g.at \in {"idle", "slot", "last slot"} \/ g = NewFrame
    BY <1>1
  <2> HIDE DEF l, s, l2, s2
  <2>4. NowOf(g, z, l2, s2, a) = With(Receiver(NewFrame, z, l2, s2, a, FALSE), NewFrame)
    BY ONLY <2>3, NowBetween
  <2>5. With(Receiver(NewFrame, z, l2, s2, a, FALSE), NewFrame)
          = Receiver(NewFrame, z, l2, s2, a, FALSE)
    BY DEF With, Receiver
  <2>6. NowOf(f, p, l, s, a) = Dispatched(Receiver(NewFrame, p, l, s, a, FALSE), f)
    BY DEF NowOf
  <2> QED
    BY <2>1, <2>2, <2>4, <2>5, <2>6
<1>8. \A x \in Ends : SameWritten(x)
  BY <1>0, <1>3 DEF SameWritten
<1>9. SignalsFit'
  <2>1. PICK a : /\ Begins(Now(e, a).delivered, log[Peer(e)].intended)
                 /\ foreign \/ Begins(Now(e, a).pongs, log[e].pings)
    BY <1>4, NowSignals
  <2>2. Now(e, a).delivered = k.delivered /\ Now(e, a).pongs = k.pongs
    <3>1. Now(e, a) = Dispatched(Receiver(NewFrame, p, log[e].delivered, log[e].pongs, a, FALSE), f)
      BY DEF Now, NowOf
    <3>2. Now(e, a) = Receiver(NewFrame, z, k.delivered, k.pongs, a, FALSE)
      BY <3>1
    <3> DEFINE now == Now(e, a)
               l2 == k.delivered
               s2 == k.pongs
    <3>3. now = Receiver(NewFrame, z, l2, s2, a, FALSE)
      BY <3>2
    <3> HIDE DEF now, l2, s2
    <3>4. now.delivered = l2 /\ now.pongs = s2
      BY <3>3 DEF Receiver
    <3> QED
      BY <3>4 DEF now, l2, s2
  <2>3. /\ Begins(log'[e].delivered, log'[Peer(e)].intended)
        /\ foreign' \/ Begins(log'[e].pongs, log'[e].pings)
    BY <1>0, <1>3, <2>1, <2>2
  <2>4. /\ Begins(log'[Peer(e)].delivered, log'[Peer(Peer(e))].intended)
        /\ foreign' \/ Begins(log'[Peer(e)].pongs, log'[Peer(e)].pings)
    BY <1>0, <1>3, PeerIs DEF FramingInv, SignalsFit
  <2> QED
    BY <1>0, <2>3, <2>4 DEF SignalsFit
<1>10. ASSUME NEW x \in Ends
       PROVE  SameReading(x) /\ (Live(x)' <=> Live(x)) /\ (Writable(x)' <=> Writable(x))
  <2>1. Stream(x)' = Stream(x) /\ (Live(x)' <=> Live(x)) /\ (Writable(x)' <=> Writable(x))
    BY SameStream, SameLive
  <2>2. CASE x = e
    BY <1>4, <1>7, <2>1, <2>2 DEF SameReading
  <2>3. CASE x # e
    <3>1. (Off(x)' <=> Off(x)) /\ \A a : Now(x, a)' = Now(x, a)
      BY <1>3, <2>3, SameOff, SameNow
    <3> QED
      BY <2>1, <3>1 DEF SameReading
  <2> QED
    BY <2>1, <2>2, <2>3
<1>11. EndsAgree'
  BY <1>8, <1>10, QuietAgrees DEF FramingInv
<1> QED
  BY <1>5, <1>6, <1>9, <1>11 DEF FramingInv

LEMMA DispatchPongKeepsFraming ==
  ASSUME FramingInv, NEW e \in Ends, DispatchPong(e)
  PROVE  FramingInv'
<1> DEFINE f == reader[e]
           p == processor[e]
           l == log[e]
           s == Append(l.pongs, f.payload)
           k == [l EXCEPT !.pongs = s]
<1>1. /\ f.at = "dispatch" /\ f.error = "none" /\ f.opCode = OpPong
      /\ UNCHANGED <<foreign, wire, broken, buffer, socket, opened, about, processor>>
  BY DEF DispatchPong
<1>2. reader' = [reader EXCEPT ![e].at = "last slot"]
  BY DEF DispatchPong
<1>3. log' = [log EXCEPT ![e] = k]
  BY DEF DispatchPong
<1>4. DOMAIN l = LogFields /\ DOMAIN processor = Ends
  BY DEF FramingInv, FramingTypes
<1>5. ~ Stops(f, p) /\ f.opCode # OpPing
  <2> HIDE DEF f, p
  <2> QED
    BY <1>1 DEF Stops, isControlFrame, OpPong, OpClose, OpPing
<1>6. /\ DOMAIN k = LogFields /\ k.intended = l.intended /\ k.pings = l.pings
      /\ k.delivered = l.delivered /\ k.pongs = s
  <2> HIDE DEF l, s
  <2> QED
    BY <1>4 DEF LogFields
<1>7. \A a : Dispatched(Receiver(NewFrame, p, l.delivered, l.pongs, a, FALSE), f)
               = Receiver(NewFrame, p, k.delivered, k.pongs, a, FALSE)
  <2> TAKE a
  <2> DEFINE r == Receiver(NewFrame, p, l.delivered, l.pongs, a, FALSE)
  <2>1. /\ r.processor = p /\ r.delivered = l.delivered /\ r.pongs = l.pongs /\ r.answered = a
    BY DEF Receiver
  <2>2. Dispatched(r, f) = Receiver(NewFrame, r.processor, r.delivered,
                                    Append(r.pongs, f.payload), r.answered, FALSE)
    BY <1>1, <1>5, <2>1 DEF Dispatched
  <2> QED
    BY <1>6, <2>1, <2>2
<1>8. /\ DOMAIN processor' = Ends /\ processor'[e] = p
      /\ \A x \in Ends : x # e => processor'[x] = processor[x]
  BY <1>1, <1>4
<1> DEFINE v == "last slot"
<1>9. v \in {"slot", "last slot"} /\ reader' = [reader EXCEPT ![e].at = v]
  BY <1>2
<1>10. /\ log' = [log EXCEPT ![e] = k] /\ DOMAIN k = LogFields
       /\ k.intended = log[e].intended /\ k.pings = log[e].pings
       /\ \A a : Dispatched(Receiver(NewFrame, p, log[e].delivered, log[e].pongs, a, FALSE), f)
                   = Receiver(NewFrame, p, k.delivered, k.pongs, a, FALSE)
  BY <1>3, <1>6, <1>7
<1>11. f = reader[e] /\ p = processor[e]
  OBVIOUS
<1> HIDE DEF f, p, l, s, k, v
<1>12. DispatchesTo(e, f, p, v, p, k)
  BY <1>1, <1>5, <1>8, <1>9, <1>10, <1>11 DEF DispatchesTo
<1> QED
  BY <1>12, DispatchedKeeps

LEMMA DispatchDataKeepsFraming ==
  ASSUME FramingInv, NEW e \in Ends, DispatchData(e)
  PROVE  FramingInv'
<1> DEFINE f == reader[e]
           p == processor[e]
           l == log[e]
           c == Collected(p, f)
           z == IF f.final THEN NewProcessor ELSE c
           m == IF f.final THEN Append(l.delivered, MessageOf(c)) ELSE l.delivered
           k == [l EXCEPT !.delivered = m]
           v == IF f.final THEN "last slot" ELSE "slot"
<1>1. /\ f.at = "dispatch" /\ f.error = "none" /\ ~ isControlFrame(f.opCode)
      /\ DataError(p, f) = "none"
      /\ UNCHANGED <<foreign, wire, broken, buffer, socket, opened, about>>
  BY DEF DispatchData
<1>2. reader' = [reader EXCEPT ![e].at = v]
  BY DEF DispatchData
<1>3. log' = [log EXCEPT ![e] = k]
  BY DEF DispatchData, MessageOf
<1>4. DOMAIN l = LogFields /\ DOMAIN processor = Ends
  BY DEF FramingInv, FramingTypes
<1>5. ~ Stops(f, p) /\ f.opCode # OpPing /\ f.opCode # OpPong
  <2> HIDE DEF f, p
  <2> QED
    BY <1>1 DEF Stops, isControlFrame, OpPong, OpClose, OpPing
<1>6. /\ DOMAIN k = LogFields /\ k.intended = l.intended /\ k.pings = l.pings
      /\ k.delivered = m /\ k.pongs = l.pongs
  <2> HIDE DEF l, m
  <2> QED
    BY <1>4 DEF LogFields
<1>7. \A a : Dispatched(Receiver(NewFrame, p, l.delivered, l.pongs, a, FALSE), f)
               = Receiver(NewFrame, z, k.delivered, k.pongs, a, FALSE)
  <2> TAKE a
  <2> DEFINE r == Receiver(NewFrame, p, l.delivered, l.pongs, a, FALSE)
  <2>1. /\ r.processor = p /\ r.delivered = l.delivered /\ r.pongs = l.pongs /\ r.answered = a
    BY DEF Receiver
  <2>2. CASE f.final
    <3>1. Dispatched(r, f) = Receiver(NewFrame, NewProcessor,
                                      Append(r.delivered, MessageOf(Collected(r.processor, f))),
                                      r.pongs, r.answered, FALSE)
      BY <1>5, <2>1, <2>2 DEF Dispatched
    <3> QED
      BY <1>6, <2>1, <2>2, <3>1
  <2>3. CASE ~ f.final
    <3>1. Dispatched(r, f) = Receiver(NewFrame, Collected(r.processor, f), r.delivered, r.pongs,
                                      r.answered, FALSE)
      BY <1>5, <2>1, <2>3 DEF Dispatched
    <3> QED
      BY <1>6, <2>1, <2>3, <3>1
  <2> QED
    BY <2>2, <2>3
<1>8. /\ DOMAIN processor' = Ends /\ processor'[e] = z
      /\ \A x \in Ends : x # e => processor'[x] = processor[x]
  <2>1. processor' = [processor EXCEPT ![e] = z]
    BY DEF DispatchData
  <2> HIDE DEF z
  <2> QED
    BY <1>4, <2>1
<1>9. v \in {"slot", "last slot"}
  OBVIOUS
<1>10. /\ k.intended = log[e].intended /\ k.pings = log[e].pings
       /\ \A a : Dispatched(Receiver(NewFrame, p, log[e].delivered, log[e].pongs, a, FALSE), f)
                   = Receiver(NewFrame, z, k.delivered, k.pongs, a, FALSE)
  BY <1>6, <1>7
<1>11. f = reader[e] /\ p = processor[e] /\ DOMAIN k = LogFields
  BY <1>6
<1> HIDE DEF f, p, l, c, z, m, k, v
<1>12. DispatchesTo(e, f, p, v, z, k)
  BY <1>1, <1>2, <1>3, <1>5, <1>8, <1>9, <1>10, <1>11 DEF DispatchesTo
<1> QED
  BY <1>12, DispatchedKeeps

(* The frame that is being read, after one more unit.                      *)
ReadsInto(g) ==
  /\ DOMAIN g = DOMAIN NewFrame /\ IsSeq(g.payload)
  /\ g.at \in {"length", "mask", "payload", "dispatch"}

LEMMA LengthKnownIs ==
  ASSUME NEW f, DOMAIN f = DOMAIN NewFrame, IsSeq(f.payload)
  PROVE  ReadsInto(LengthKnown(f)) /\ ReadsInto(ReadPayloadOf(f))
<1>0. "at" \in DOMAIN f /\ "payload" \in DOMAIN f
  BY DEF NewFrame
<1>1. ReadsInto([f EXCEPT !.at = "dispatch"]) /\ ReadsInto([f EXCEPT !.at = "mask"])
      /\ ReadsInto([f EXCEPT !.at = "payload"])
  BY <1>0 DEF ReadsInto
<1>2. ReadsInto(setError("tooMuchData"))
  BY ResultsAreSeqs DEF ReadsInto
<1>3. ReadsInto(ReadPayloadOf(f))
  BY <1>1, <1>2 DEF ReadPayloadOf
<1> QED
  BY <1>1, <1>3 DEF LengthKnown

LEMMA UnmaskedIs ==
  ASSUME NEW u, IsSeq(u.data), NEW key
  PROVE  IsSeq(Unmasked(u, key))
<1> DEFINE n == Len(u.data)
           x == [i \in 1 .. n |-> "garbage"]
<1>1. n \in Nat /\ DOMAIN u.data = 1 .. n
  BY SeqIs
<1> HIDE DEF n
<1>2. x \in Seq({"garbage"})
  BY <1>1
<1> HIDE DEF x
<1>3. IsSeq(x)
  BY <1>2, IsSeqOf
<1> QED
  BY <1>1, <1>3 DEF Unmasked, x

LEMMA ReadUnitIs ==
  ASSUME NEW f, DOMAIN f = DOMAIN NewFrame, IsSeq(f.payload), f.at \in Places,
         NEW u, f.at = "payload" => IsSeq(u.data)
  PROVE  ReadsInto(ReadUnit(f, u))
<1>0. {"at", "opCode", "final", "field", "size", "hasMask", "key", "payload"} \subseteq DOMAIN f
  BY DEF NewFrame
<1>1. \A code : ReadsInto(setError(code))
  BY ResultsAreSeqs DEF ReadsInto
<1>2. CASE f.at = "header"
  <2> DEFINE h == [NewFrame EXCEPT !.opCode = u.opCode, !.final = u.final, !.field = u.length,
                                   !.size = u.length, !.hasMask = u.hasMask]
             h2 == [h EXCEPT !.at = "length"]
  <2>1. DOMAIN h = DOMAIN NewFrame /\ h.payload = NewFrame.payload
    BY DEF NewFrame
  <2>2. IsSeq(h.payload)
    BY <2>1, ResultsAreSeqs
  <2>3. ReadUnit(f, u) = IF ~ checkValidity(u) THEN setError("protocolError")
                         ELSE IF u.length > Short THEN h2 ELSE LengthKnown(h)
    BY <1>2 DEF ReadUnit, ReadHeader
  <2>4. "at" \in DOMAIN h /\ "payload" \in DOMAIN h
    BY <2>1 DEF NewFrame
  <2> HIDE DEF h
  <2>5. ReadsInto(h2)
    BY <2>1, <2>2, <2>4 DEF ReadsInto
  <2> HIDE DEF h2
  <2>6. ReadsInto(LengthKnown(h))
    BY <2>1, <2>2, LengthKnownIs
  <2> QED
    BY <1>1, <2>3, <2>5, <2>6
<1>3. CASE f.at = "length"
  <2> DEFINE h == [f EXCEPT !.size = u.size]
  <2>1. DOMAIN h = DOMAIN NewFrame /\ h.payload = f.payload
    BY <1>0
  <2>2. ReadUnit(f, u) \in {setError("protocolError"), LengthKnown(h)}
    BY <1>3 DEF ReadUnit, ReadLength
  <2> HIDE DEF h
  <2>3. ReadsInto(LengthKnown(h))
    BY <2>1, LengthKnownIs
  <2> QED
    BY <1>1, <2>2, <2>3
<1>4. CASE f.at = "mask"
  <2> DEFINE h == [f EXCEPT !.key = u.key]
  <2>1. DOMAIN h = DOMAIN NewFrame /\ h.payload = f.payload
    BY <1>0
  <2>2. ReadUnit(f, u) = ReadPayloadOf(h)
    BY <1>4 DEF ReadUnit
  <2> HIDE DEF h
  <2>3. ReadsInto(ReadPayloadOf(h))
    BY <2>1, LengthKnownIs
  <2> QED
    BY <2>2, <2>3
<1>5. CASE f.at = "payload"
  <2> DEFINE x == Unmasked(u, f.key)
             h1 == [f EXCEPT !.at = "dispatch"]
             h == [h1 EXCEPT !.payload = x]
  <2>1. IsSeq(x)
    BY <1>5, UnmaskedIs
  <2>2. ReadUnit(f, u) = h
    BY <1>5 DEF ReadUnit
  <2> HIDE DEF x
  <2>3. DOMAIN h1 = DOMAIN f /\ h1.at = "dispatch" /\ "payload" \in DOMAIN h1 /\ "at" \in DOMAIN h1
    BY <1>0
  <2> HIDE DEF h1
  <2>4. ReadsInto(h)
    BY <2>1, <2>3 DEF ReadsInto
  <2> QED
    BY <2>2, <2>4
<1> QED
  BY <1>2, <1>3, <1>4, <1>5 DEF Places

LEMMA ReadKeeps ==
  ASSUME FramingInv, NEW e \in Ends, Read(e)
  PROVE  FramingInv'
<1> DEFINE f == reader[e]
           b == buffer[e]
           u == Head(b)
           g == ReadUnit(f, u)
           d == Peer(e)
           w == wire[d]
<1>0. d \in Ends /\ Peer(d) = e /\ d # e /\ \A x \in Ends : x = e \/ x = d
  BY PeerIs
<1>1. /\ ~ about[e] /\ f.at \in Places /\ b # << >>
      /\ reader' = [reader EXCEPT ![e] = g] /\ buffer' = [buffer EXCEPT ![e] = Tail(b)]
      /\ UNCHANGED <<foreign, wire, broken, socket, opened, about, processor, log>>
  BY DEF Read, Reading, Places
<1>2. /\ DOMAIN reader' = Ends /\ reader'[e] = g /\ DOMAIN buffer' = Ends /\ buffer'[e] = Tail(b)
      /\ \A x \in Ends : x # e => reader'[x] = reader[x] /\ buffer'[x] = buffer[x]
      /\ DOMAIN f = DOMAIN NewFrame /\ IsSeq(f.payload) /\ IsSeq(b) /\ IsSeq(w)
  BY <1>0, <1>1 DEF FramingInv, FramingTypes
<1>3. Ours(e) /\ opened[e] /\ ~ Off(e)
  <2>1. SocketFits(e) /\ f # Idle /\ f.at # "dispatch"
    BY <1>1, ResultsAreSeqs DEF FramingInv, SocketsFit, Places
  <2>2. Ours(e) /\ opened[e]
    BY <1>1, <2>1 DEF SocketFits
  <2> QED
    BY <1>1, <2>1, <2>2 DEF Off
<1>4. /\ Stream(e) # << >> /\ Head(Stream(e)) = u /\ Stream(e)' = Tail(Stream(e))
      /\ IsSeq(Stream(e))
  <2>1. Stream(e) = b \o w /\ Stream(e)' = Tail(b) \o w
    BY <1>1, <1>2 DEF Stream
  <2>2. IsSeq(Stream(e))
    BY StreamsAreSeqs DEF FramingInv
  <2> HIDE DEF b, w
  <2>3. b \o w # << >> /\ Head(b \o w) = Head(b) /\ Tail(b \o w) = Tail(b) \o w
    BY <1>1, <1>2, TakeOne
  <2> QED
    BY <2>1, <2>2, <2>3
<1>5. f.at = "payload" => IsSeq(u.data)
  BY <1>3, <1>4, PayloadComes DEF FramingInv
<1>6. ReadsInto(g)
  <2> HIDE DEF f, u, g
  <2>1. ReadsInto(ReadUnit(f, u))
    BY <1>1, <1>2, <1>5, ReadUnitIs
  <2> QED
    BY <2>1 DEF g
<1>7. IsSeq(Tail(b))
  BY <1>1, <1>2, TailOf
<1>8. FramingTypes'
  <2>1. ASSUME NEW x \in Ends
        PROVE  /\ DOMAIN reader'[x] = DOMAIN NewFrame
               /\ IsSeq(buffer'[x]) /\ IsSeq(reader'[x].payload)
    <3> HIDE DEF f, b, g
    <3>1. CASE x = e
      BY <1>2, <1>6, <1>7, <3>1 DEF ReadsInto
    <3>2. CASE x # e
      BY <1>2, <3>2 DEF FramingInv, FramingTypes
    <3> QED
      BY <3>1, <3>2
  <2> QED
    BY <1>1, <1>2, <2>1 DEF FramingInv, FramingTypes
<1>9. SocketsFit'
  <2>1. \A x \in Ends : SocketFits(x) /\ LineFits(x)
    BY DEF FramingInv, SocketsFit
  <2>2. \A x \in Ends : LineFits(x)'
    BY <1>1, <2>1, LineSame
  <2>3. \A x \in Ends : x # e => SocketFits(x)'
    BY <1>1, <1>2, <2>1, SocketSame
  <2>4. SocketFits(e)'
    BY <1>1, <1>3 DEF SocketFits, Ours
  <2> QED
    BY <2>2, <2>3, <2>4 DEF SocketsFit
<1>10. SignalsFit' /\ \A x \in Ends : SameWritten(x)
  <2>1. \A x \in Ends : SameLog(x)
    BY <1>1, LogsNote DEF FramingInv
  <2> QED
    BY <1>1, <2>1, SameSignals DEF FramingInv
<1>11. \A a : Now(e, a)' = After(Now(e, a), u)
  <2> TAKE a
  <2> DEFINE p == processor[e]
             l == log[e].delivered
             s == log[e].pongs
             r == Receiver(NewFrame, p, l, s, a, FALSE)
  <2>1. Now(e, a) = With(r, f)
    <3>1. f.at # "dispatch"
      BY <1>1 DEF Places
    <3> QED
      BY <1>1, <3>1 DEF Now, NowOf
  <2>2. Now(e, a)' = Reached(r, g)
    <3>1. Now(e, a)' = NowOf(g, p, l, s, a)
      BY <1>1, <1>2 DEF Now
    <3> HIDE DEF f, u, g, p, l, s
    <3>2. g.at # "dispatch" => g.at \in Places
      BY <1>6 DEF ReadsInto, Places
    <3> QED
      BY <3>1, <3>2 DEF NowOf, Reached
  <2> HIDE DEF r
  <2>3. After(With(r, f), u) = Reached(With(r, f), g)
    BY WithIs DEF After
  <2> QED
    BY <2>1, <2>2, <2>3, WithIs
<1>12. \A x \in Ends : (Live(x)' <=> Live(x)) /\ (Writable(x)' <=> Writable(x))
  BY <1>1, SameLive
<1>13. /\ Off(d)' <=> Off(d)
       /\ \A a : Now(d, a)' = Now(d, a)
       /\ Stream(d)' = Stream(d)
  BY <1>0, <1>1, <1>2, SameOff, SameNow, SameStream
<1>14. /\ EndsAgree /\ foreign' = foreign /\ d = Peer(e)
       /\ \A a : Now(e, a)' = After(Now(e, a), Head(Stream(e)))
       /\ \A x \in Ends : /\ SameWritten(x) /\ (Live(x)' <=> Live(x))
                          /\ (Writable(x)' <=> Writable(x))
  BY <1>1, <1>4, <1>10, <1>11, <1>12 DEF FramingInv
<1> HIDE DEF d
<1>15. EndsAgree'
  BY <1>3, <1>4, <1>13, <1>14, ReadAgrees
<1> QED
  BY <1>8, <1>9, <1>10, <1>15 DEF FramingInv

-----------------------------------------------------------------------------
(* An end writes.                                                          *)

LEMMA WrittenIs ==
  ASSUME FramingInv, NEW e \in Ends, NEW units, IsSeq(units), wire' = Written(e, units),
         buffer' = buffer
  PROVE  /\ DOMAIN wire' = Ends /\ wire'[Peer(e)] = wire[Peer(e)] /\ IsSeq(wire'[e])
         /\ Live(e) \/ wire'[e] = wire[e]
         /\ Live(e) => Stream(Peer(e))' = Stream(Peer(e)) \o units
         /\ ~ Live(e) => Stream(Peer(e))' = Stream(Peer(e))
         /\ Stream(e)' = Stream(e)
<1> DEFINE d == Peer(e)
           b == buffer[d]
           w == wire[e]
<1>0. d \in Ends /\ Peer(d) = e /\ d # e
  BY PeerIs
<1>1. DOMAIN wire = Ends /\ IsSeq(b) /\ IsSeq(w)
  BY <1>0 DEF FramingInv, FramingTypes
<1>2. Stream(d) = b \o w /\ Stream(d)' = b \o wire'[e]
  BY <1>0 DEF Stream
<1>3. CASE Live(e)
  <2>1. wire' = [wire EXCEPT ![e] = w \o units]
    BY <1>3 DEF Written, Live
  <2>2. DOMAIN wire' = Ends /\ wire'[e] = w \o units /\ wire'[d] = wire[d]
    BY <1>0, <1>1, <2>1
  <2> HIDE DEF b, w
  <2>0. IsSeq(b) /\ IsSeq(w) /\ IsSeq(units)
    BY <1>1
  <2>3. IsSeq(w \o units)
    BY ONLY <2>0, JoinOf
  <2>5. (b \o w) \o units = b \o (w \o units)
    BY ONLY <2>0, JoinAssociates
  <2>4. Stream(e)' = Stream(e)
    BY <2>2 DEF Stream
  <2> QED
    BY <1>2, <1>3, <2>2, <2>3, <2>4, <2>5
<1>4. CASE ~ Live(e)
  <2>1. wire' = wire
    BY <1>4 DEF Written, Live
  <2>2. Stream(e)' = Stream(e)
    BY <2>1 DEF Stream
  <2> QED
    BY <1>1, <1>2, <1>4, <2>1, <2>2
<1> QED
  BY <1>3, <1>4

(* e writes the units, and its log is then k.                              *)
Writes(e, units, k) ==
  /\ IsSeq(units) /\ wire' = Written(e, units)
  /\ UNCHANGED <<foreign, broken, buffer, socket, opened>>
  /\ DOMAIN about' = Ends /\ DOMAIN reader' = Ends /\ DOMAIN processor' = Ends
  /\ \A x \in Ends : x # e => /\ about'[x] = about[x] /\ reader'[x] = reader[x]
                              /\ processor'[x] = processor[x]
  /\ about'[e] => reader'[e].at \in {"idle", "slot", "last slot"}
  /\ reader'[e].at # "dispatch"
  /\ DOMAIN reader'[e] = DOMAIN NewFrame /\ IsSeq(reader'[e].payload)
  /\ log' = [log EXCEPT ![e] = k] /\ DOMAIN k = LogFields
  /\ k.delivered = log[e].delivered /\ k.pongs = log[e].pongs
  /\ \A s : Begins(s, log[e].intended) => Begins(s, k.intended)
  /\ \A s : Begins(s, log[e].pings) => Begins(s, k.pings)

(* What its peer will make of them.                                        *)
Understood(e, units, rd, ae, a) ==
  LET last == rd[Len(Stream(Peer(e)))] IN
  ~ foreign /\ ~ Off(Peer(e)) /\ Live(e) /\ AtRest(last) /\ last.delivered = log[e].intended
  /\ Begins(last.delivered, log[e].intended) /\ Begins(last.pongs, log[Peer(e)].pings) =>
    \E q : Takes(e, last, units, q, ae, a)

LEMMA WriteKeeps ==
  ASSUME FramingInv, NEW e \in Ends, Ours(e), NEW units, NEW k, Writes(e, units, k),
         NEW re, NEW rd, NEW ae, NEW ad, Agree(e, Peer(e), re, rd, ae, ad),
         NEW a, ~ Off(e)' => ~ Off(e) /\ Now(e, a)' = Now(e, ae),
         Understood(e, units, rd, ae, a)
  PROVE  FramingInv'
<1> DEFINE d == Peer(e)
           last == rd[Len(Stream(d))]
<1>0. d \in Ends /\ Peer(d) = e /\ d # e /\ \A x \in Ends : x = e \/ x = d
  BY PeerIs
<1>1. /\ IsSeq(units) /\ foreign' = foreign /\ broken' = broken /\ buffer' = buffer
      /\ socket' = socket /\ opened' = opened
      /\ DOMAIN about' = Ends /\ DOMAIN reader' = Ends /\ DOMAIN processor' = Ends
      /\ about'[d] = about[d] /\ reader'[d] = reader[d] /\ processor'[d] = processor[d]
      /\ DOMAIN log' = Ends /\ log'[e] = k /\ log'[d] = log[d]
  BY <1>0 DEF Writes, FramingInv, FramingTypes
<1>2. /\ about'[e] => reader'[e].at \in {"idle", "slot", "last slot"}
      /\ reader'[e].at # "dispatch"
      /\ DOMAIN reader'[e] = DOMAIN NewFrame /\ IsSeq(reader'[e].payload)
      /\ DOMAIN k = LogFields /\ k.delivered = log[e].delivered /\ k.pongs = log[e].pongs
      /\ \A s : Begins(s, log[e].intended) => Begins(s, log'[e].intended)
      /\ \A s : Begins(s, log[e].pings) => Begins(s, log'[e].pings)
  BY <1>1 DEF Writes
<1> HIDE DEF d
<1>3. /\ DOMAIN wire' = Ends /\ wire'[d] = wire[d] /\ IsSeq(wire'[e])
      /\ Live(e) \/ wire'[e] = wire[e]
      /\ Live(e) => Stream(d)' = Stream(d) \o units
      /\ ~ Live(e) => Stream(d)' = Stream(d)
      /\ Stream(e)' = Stream(e)
  <2>1. wire' = Written(e, units)
    BY DEF Writes
  <2> QED
    BY <1>1, <2>1, WrittenIs DEF d
<1>4. FramingTypes'
  <2>1. ASSUME NEW x \in Ends
        PROVE  /\ DOMAIN log'[x] = LogFields /\ DOMAIN reader'[x] = DOMAIN NewFrame
               /\ IsSeq(buffer'[x]) /\ IsSeq(wire'[x]) /\ IsSeq(reader'[x].payload)
    <3>1. CASE x = e
      BY <1>1, <1>2, <1>3, <3>1 DEF FramingInv, FramingTypes
    <3>2. CASE x = d
      BY <1>1, <1>3, <3>2 DEF FramingInv, FramingTypes
    <3> QED
      BY <1>0, <3>1, <3>2
  <2> QED
    BY <1>1, <1>3, <2>1 DEF FramingInv, FramingTypes
<1>5. SocketsFit'
  <2>1. \A x \in Ends : SocketFits(x) /\ LineFits(x)
    BY DEF FramingInv, SocketsFit
  <2>2. LineFits(d)'
    BY <1>0, <1>1, <1>3, <2>1, LineSame
  <2>3. LineFits(e)'
    <3>1. wire'[Peer(e)] = wire[Peer(e)]
      BY <1>3 DEF d
    <3> QED
      BY <1>1, <2>1, <3>1, LineSame
  <2>4. SocketFits(d)'
    BY <1>0, <1>1, <2>1, SocketSame
  <2>5. SocketFits(e)'
    BY <1>1, <1>2, <2>1 DEF SocketFits, Ours
  <2> QED
    BY <1>0, <2>2, <2>3, <2>4, <2>5 DEF SocketsFit
<1>6. SignalsFit'
  <2>1. /\ \A x \in Ends : /\ Begins(log[x].delivered, log[Peer(x)].intended)
                           /\ foreign \/ Begins(log[x].pongs, log[x].pings)
    BY DEF FramingInv, SignalsFit
  <2>2. /\ log'[e].delivered = log[e].delivered /\ log'[e].pongs = log[e].pongs
    BY <1>1, <1>2
  <2>3. /\ Begins(log'[e].delivered, log'[Peer(e)].intended)
        /\ foreign' \/ Begins(log'[e].pongs, log'[e].pings)
    BY <1>1, <1>2, <2>1, <2>2 DEF d
  <2>4. /\ Begins(log'[d].delivered, log'[Peer(d)].intended)
        /\ foreign' \/ Begins(log'[d].pongs, log'[d].pings)
    BY <1>0, <1>1, <1>2, <2>1
  <2> QED
    BY <1>0, <2>3, <2>4 DEF SignalsFit
<1>7. \A x \in Ends : (Live(x)' <=> Live(x)) /\ (Writable(x)' <=> Writable(x))
  BY <1>1, SameLive
<1>8. (Off(d)' <=> Off(d)) /\ \A b : Now(d, b)' = Now(d, b)
  BY <1>0, <1>1, SameOff, SameNow
<1>9. ~ Off(d) => ~ foreign
  BY <1>0 DEF Off, Ours, Ends
<1>10. IsSeq(Stream(d))
  BY <1>0, StreamsAreSeqs DEF FramingInv
<1>11. ASSUME ~ Off(d), Live(e) PROVE \E q : Takes(e, last, units, q, ae, a)
  <2>1. Reads(d, e, rd, ad)
    BY DEF Agree, d
  <2>2. ReadsOn(Now(d, ad), Stream(d), rd, log[e].intended, log[d].pings,
                ~ foreign, ~ foreign /\ Live(e))
    BY <1>11, <2>1 DEF Reads
  <2>3. Len(Stream(d)) \in 0 .. Len(Stream(d))
    BY <1>10, SeqIs
  <2>4. /\ Begins(last.delivered, log[e].intended) /\ Begins(last.pongs, log[d].pings)
        /\ Settled(last, log[e].intended)
    BY <1>9, <1>11, <2>2, <2>3 DEF ReadsOn
  <2>5. CASE last.stopped
    <3> HIDE DEF last
    <3>1. Leads(last, units, last)
      BY <1>1, <2>5, LeadsStopped
    <3>2. Settled(last, log'[e].intended)
      BY <2>5 DEF Settled
    <3>3. Takes(e, last, units, last, ae, a)
      BY <1>2, <2>4, <2>5, <3>1, <3>2 DEF Takes, d
    <3> QED
      BY <3>3
  <2>6. CASE ~ last.stopped
    <3>1. AtRest(last) /\ last.delivered = log[e].intended
      BY <2>4, <2>6 DEF Settled
    <3>2. ~ foreign
      BY <1>9, <1>11
    <3> QED
      BY <1>11, <2>4, <3>1, <3>2 DEF Understood, d
  <2> QED
    BY <2>5, <2>6
<1>12. /\ d = Peer(e) /\ Agree(e, d, re, rd, ae, ad) /\ SameWritten(d)
  BY <1>1 DEF SameWritten, d
<1>13. ~ Off(d) /\ Live(e) => \E q : Takes(e, rd[Len(Stream(d))], units, q, ae, a)
  BY <1>11
<1> HIDE DEF last
<1>14. EndsAgree'
  BY ZenonT(30), <1>1, <1>2, <1>3, <1>7, <1>8, <1>9, <1>10, <1>12, <1>13, WriteAgrees
<1> QED
  BY <1>4, <1>5, <1>6, <1>14 DEF FramingInv

(* The log of an end that writes.                                          *)
LEMMA LogWrites ==
  ASSUME FramingTypes, NEW e \in Ends, NEW k, NEW y,
         \/ k = LogWrite(e)
         \/ k = [LogWrite(e) EXCEPT !.intended = y]
         \/ k = [LogWrite(e) EXCEPT !.pings = y]
  PROVE  /\ DOMAIN k = LogFields
         /\ k.delivered = log[e].delivered /\ k.pongs = log[e].pongs
         /\ k = LogWrite(e) => k.intended = log[e].intended /\ k.pings = log[e].pings
         /\ k = [LogWrite(e) EXCEPT !.intended = y] => k.intended = y /\ k.pings = log[e].pings
         /\ k = [LogWrite(e) EXCEPT !.pings = y] => k.pings = y /\ k.intended = log[e].intended
<1> DEFINE l == log[e]
           v == l.late \/ (Writable(e) /\ sent[e])
           w == [l EXCEPT !.late = v]
<1>1. LogWrite(e) = w /\ DOMAIN l = LogFields
  BY DEF LogWrite, FramingTypes
<1> HIDE DEF l, v
<1>2. /\ DOMAIN w = LogFields /\ w.intended = l.intended /\ w.pings = l.pings
      /\ w.delivered = l.delivered /\ w.pongs = l.pongs
  BY <1>1, LogNotes
<1> HIDE DEF w
<1> DEFINE i == [w EXCEPT !.intended = y]
           p == [w EXCEPT !.pings = y]
<1>3. /\ DOMAIN i = LogFields /\ i.intended = y /\ i.pings = l.pings
      /\ i.delivered = l.delivered /\ i.pongs = l.pongs
  BY <1>2 DEF LogFields
<1>4. /\ DOMAIN p = LogFields /\ p.intended = l.intended /\ p.pings = y
      /\ p.delivered = l.delivered /\ p.pongs = l.pongs
  BY <1>2 DEF LogFields
<1>5. k = w \/ k = i \/ k = p
  BY <1>1
<1>6. (k = LogWrite(e) <=> k = w) /\ (k = [LogWrite(e) EXCEPT !.intended = y] <=> k = i)
      /\ (k = [LogWrite(e) EXCEPT !.pings = y] <=> k = p)
  BY <1>1
<1> HIDE DEF i, p
<1> QED
  BY <1>2, <1>3, <1>4, <1>5, <1>6 DEF l

(* A call of the application changes nothing else.                         *)
LEMMA CallWrites ==
  ASSUME FramingInv, NEW e \in Ends, MayWrite(e), NEW units, NEW k,
         UNCHANGED <<foreign, broken, buffer, socket, opened, about, reader, processor>>,
         IsSeq(units), wire' = Written(e, units),
         log' = [log EXCEPT ![e] = k], DOMAIN k = LogFields,
         k.delivered = log[e].delivered, k.pongs = log[e].pongs,
         \A s : Begins(s, log[e].intended) => Begins(s, k.intended),
         \A s : Begins(s, log[e].pings) => Begins(s, k.pings)
  PROVE  /\ Ours(e) /\ Writes(e, units, k) /\ log'[e] = k
         /\ \A a : ~ Off(e)' => ~ Off(e) /\ Now(e, a)' = Now(e, a)
<1>1. Ours(e) /\ reader[e].at \in {"idle", "slot", "last slot"}
  BY ResultsAreSeqs DEF MayWrite, MayCall, InLoop, InSlot, FramingInv, SocketsFit, SocketFits
<1>2. log'[e] = k
  BY DEF FramingInv, FramingTypes
<1>3. Writes(e, units, k)
  BY <1>1 DEF Writes, FramingInv, FramingTypes
<1>4. (Off(e)' <=> Off(e)) /\ \A a : Now(e, a)' = Now(e, a)
  BY <1>2, SameOff, SameNow
<1> QED
  BY <1>1, <1>2, <1>3, <1>4

(* What a message, a ping or a pong makes of the peer.                     *)
LEMMA StoppedTakes ==
  ASSUME NEW e \in Ends, NEW last, AtRest(last), NEW q, q.stopped,
         q.delivered = last.delivered, q.answered = last.answered,
         NEW units, Leads(last, units, q), NEW ae, NEW a,
         Begins(last.delivered, log[e].intended), Begins(q.pongs, log[Peer(e)].pings),
         \A s : Begins(s, log[e].intended) => Begins(s, log'[e].intended),
         \A s : Begins(s, log[e].pings) => Begins(s, log'[e].pings)
  PROVE  Takes(e, last, units, q, ae, a)
BY DEF Takes, Settled

LEMMA SendKeepsFraming ==
  ASSUME FramingInv, NEW e \in Ends, Send(e)
  PROVE  FramingInv'
<1>1. /\ MayWrite(e)
      /\ UNCHANGED <<foreign, broken, buffer, socket, opened, about, reader, processor>>
  BY DEF Send
<1>2. PICK m \in Messages : \E keys \in [1 .. numFrames(m.data) -> KeysOf(e)] :
        /\ wire' = Written(e, Frames(m.data, m.binary, keys))
        /\ log' = [log EXCEPT ![e] = [LogWrite(e) EXCEPT !.intended = Append(@, m)]]
  BY DEF Send
<1>0. PICK keys \in [1 .. numFrames(m.data) -> KeysOf(e)] :
        /\ wire' = Written(e, Frames(m.data, m.binary, keys))
        /\ log' = [log EXCEPT ![e] = [LogWrite(e) EXCEPT !.intended = Append(@, m)]]
  BY <1>2
<1> DEFINE units == Frames(m.data, m.binary, keys)
           i == LogWrite(e).intended
           y == Append(i, m)
           k == [LogWrite(e) EXCEPT !.intended = y]
<1>3. IsMessage(m)
  BY MessagesAssumption DEF IsMessage, IsSeq
<1>4. \A r : AtRest(r) => \E q : Leads(r, units, q) /\ MessageSignalled(r, q, m)
  BY <1>3, MessageLeads
<1>5. IsSeq(units)
  <2> DEFINE no == FALSE
             r == Receiver(NewFrame, NewProcessor, << >>, << >>, << >>, no)
  <2>1. ~ no
    OBVIOUS
  <2> HIDE DEF no
  <2>2. AtRest(r)
    BY <2>1 DEF AtRest, Receiver
  <2> HIDE DEF r
  <2> QED
    BY <1>3, <2>2, MessageLeads
<1>6. i = log[e].intended
  <2>1. LogWrite(e) = LogWrite(e) /\ FramingTypes
    BY DEF FramingInv
  <2> QED
    BY <2>1, LogWrites
<1>7. log' = [log EXCEPT ![e] = k]
  BY <1>0
<1>8. /\ DOMAIN k = LogFields /\ k.delivered = log[e].delivered /\ k.pongs = log[e].pongs
      /\ k.intended = y /\ k.pings = log[e].pings
  <2>1. FramingTypes /\ k = [LogWrite(e) EXCEPT !.intended = y]
    BY DEF FramingInv
  <2> HIDE DEF k, y
  <2> QED
    BY <2>1, LogWrites
<1> HIDE DEF units, i, y, k
<1>9. /\ \A s : Begins(s, log[e].intended) => Begins(s, k.intended)
      /\ \A s : Begins(s, log[e].pings) => Begins(s, k.pings)
  BY <1>6, <1>8, BeginsAppend DEF y
<1>10. wire' = Written(e, units)
  BY <1>0 DEF units
<1>11. /\ Ours(e) /\ Writes(e, units, k) /\ log'[e] = k
       /\ \A a : ~ Off(e)' => ~ Off(e) /\ Now(e, a)' = Now(e, a)
  BY <1>1, <1>5, <1>7, <1>8, <1>9, <1>10, CallWrites
<1>12. PICK re, rd, ae, ad : Agree(e, Peer(e), re, rd, ae, ad)
  BY EitherAgrees DEF FramingInv
<1>13. Understood(e, units, rd, ae, ae)
  <2> DEFINE last == rd[Len(Stream(Peer(e)))]
  <2> SUFFICES ASSUME AtRest(last), last.delivered = log[e].intended,
                      Begins(last.delivered, log[e].intended),
                      Begins(last.pongs, log[Peer(e)].pings)
               PROVE  \E q : Takes(e, last, units, q, ae, ae)
    BY DEF Understood
  <2> HIDE DEF last
  <2>1. PICK q : Leads(last, units, q) /\ MessageSignalled(last, q, m)
    BY <1>4
  <2>2. CASE q.stopped /\ SameLists(last, q)
    BY <1>9, <1>11, <2>1, <2>2, StoppedTakes DEF SameLists
  <2>3. CASE /\ AtRest(q) /\ q.delivered = Append(last.delivered, m)
             /\ q.pongs = last.pongs /\ q.answered = last.answered
    <3>1. q.delivered = log'[e].intended
      BY <1>6, <1>8, <1>11, <2>3 DEF y
    <3>2. Begins(q.delivered, log'[e].intended)
      <4>1. IsSeq(last.delivered)
        BY DEF Begins
      <4> DEFINE g == last.delivered
                 z == Append(g, m)
      <4> HIDE DEF g
      <4>2. IsSeq(z)
        BY <4>1, AppendOf DEF g
      <4> HIDE DEF z
      <4>5. IsSeq(q.delivered)
        BY <2>3, <4>2 DEF g, z
      <4> QED
        BY <3>1, <4>5, BeginsItself
    <3>3. ~ last.stopped /\ log'[e].pings = log[e].pings
      BY <1>8, <1>11 DEF AtRest
    <3> QED
      BY <2>1, <2>3, <3>1, <3>2, <3>3 DEF Takes, Settled
  <2> QED
    BY <2>1, <2>2, <2>3 DEF MessageSignalled
<1> QED
  BY <1>11, <1>12, <1>13, WriteKeeps

LEMMA PingKeepsFraming ==
  ASSUME FramingInv, NEW e \in Ends, Ping(e)
  PROVE  FramingInv'
<1>1. /\ MayWrite(e)
      /\ UNCHANGED <<foreign, broken, buffer, socket, opened, about, reader, processor>>
  BY DEF Ping
<1> DEFINE Clipped(p) == IF Len(p) > Short THEN SubSeq(p, 1, Short) ELSE p
<1>2. PICK p \in PingLoads, key \in KeysOf(e) :
        /\ wire' = Written(e, Frame(OpPing, Clipped(p), key, TRUE))
        /\ log' = [log EXCEPT ![e] = [LogWrite(e) EXCEPT !.pings = Append(@, Clipped(p))]]
  BY DEF Ping
<1> DEFINE c == Clipped(p)
           units == Frame(OpPing, c, key, TRUE)
           i == LogWrite(e).pings
           y == Append(i, c)
           k == [LogWrite(e) EXCEPT !.pings = y]
<1>3. IsSeq(c)
  <2>1. p \in Seq(ToSet(p)) /\ Short \in Nat
    BY MessagesAssumption, SizesAssumption
  <2> DEFINE T == ToSet(p)
             x == SubSeq(p, 1, Short)
  <2> HIDE DEF T
  <2>2. Len(p) > Short => x \in Seq(T)
    <3>1. p \in Seq(T)
      BY <2>1 DEF T
    <3>2. ASSUME Len(p) > Short PROVE \A j \in 1 .. Short : p[j] \in T
      <4>1. \A j \in 1 .. Short : j \in 1 .. Len(p)
        BY <2>1, <3>1, <3>2
      <4>2. p \in [1 .. Len(p) -> T]
        BY <3>1
      <4> QED
        BY <4>1, <4>2
    <3> QED
      BY <2>1, <3>1, <3>2
  <2> HIDE DEF x
  <2>3. Len(p) > Short => IsSeq(x)
    BY <2>2, IsSeqOf
  <2>4. IsSeq(p)
    BY <2>1 DEF IsSeq
  <2> QED
    BY <2>3, <2>4 DEF x
<1>7. log' = [log EXCEPT ![e] = k]
  BY <1>2
<1>10. wire' = Written(e, units)
  BY <1>2
<1> HIDE DEF Clipped, c
<1>4. \A r : AtRest(r) =>
        \E q : /\ Leads(r, units, q)
               /\ q.delivered = r.delivered /\ q.pongs = r.pongs
               /\ \/ q.stopped /\ q.answered = r.answered
                  \/ AtRest(q) /\ q.answered = Append(r.answered, c)
  BY <1>3, PingLeads
<1>5. IsSeq(units)
  <2> DEFINE no == FALSE
             r == Receiver(NewFrame, NewProcessor, << >>, << >>, << >>, no)
  <2>1. ~ no
    OBVIOUS
  <2> HIDE DEF no
  <2>2. AtRest(r)
    BY <2>1 DEF AtRest, Receiver
  <2> HIDE DEF r
  <2> QED
    BY <1>3, <2>2, PingLeads
<1>6. i = log[e].pings
  <2>1. LogWrite(e) = LogWrite(e) /\ FramingTypes
    BY DEF FramingInv
  <2> QED
    BY <2>1, LogWrites
<1>8. /\ DOMAIN k = LogFields /\ k.delivered = log[e].delivered /\ k.pongs = log[e].pongs
      /\ k.pings = y /\ k.intended = log[e].intended
  <2>1. FramingTypes /\ k = [LogWrite(e) EXCEPT !.pings = y]
    BY DEF FramingInv
  <2> HIDE DEF k, y
  <2> QED
    BY <2>1, LogWrites
<1> HIDE DEF units, i, y, k
<1>9. /\ \A s : Begins(s, log[e].intended) => Begins(s, k.intended)
      /\ \A s : Begins(s, log[e].pings) => Begins(s, k.pings)
  BY <1>6, <1>8, BeginsAppend DEF y
<1>11. /\ Ours(e) /\ Writes(e, units, k) /\ log'[e] = k
       /\ \A a : ~ Off(e)' => ~ Off(e) /\ Now(e, a)' = Now(e, a)
  BY <1>1, <1>5, <1>7, <1>8, <1>9, <1>10, CallWrites
<1>12. PICK re, rd, ae, ad : Agree(e, Peer(e), re, rd, ae, ad)
  BY EitherAgrees DEF FramingInv
<1>13. Understood(e, units, rd, ae, ae)
  <2> DEFINE last == rd[Len(Stream(Peer(e)))]
  <2> SUFFICES ASSUME AtRest(last), last.delivered = log[e].intended,
                      Begins(last.delivered, log[e].intended),
                      Begins(last.pongs, log[Peer(e)].pings)
               PROVE  \E q : Takes(e, last, units, q, ae, ae)
    BY DEF Understood
  <2> HIDE DEF last
  <2>1. PICK q : /\ Leads(last, units, q)
                 /\ q.delivered = last.delivered /\ q.pongs = last.pongs
                 /\ \/ q.stopped /\ q.answered = last.answered
                    \/ AtRest(q) /\ q.answered = Append(last.answered, c)
    BY <1>4
  <2>2. CASE q.stopped /\ q.answered = last.answered
    BY <1>9, <1>11, <2>1, <2>2, StoppedTakes
  <2>3. CASE AtRest(q) /\ q.answered = Append(last.answered, c)
    <3>1. ~ last.stopped /\ q.delivered = log'[e].intended
      BY <1>8, <1>11, <2>1 DEF AtRest
    <3>2. Begins(q.delivered, log'[e].intended)
      BY <1>8, <1>11, <2>1
    <3>3. ASSUME Begins(last.answered, log[e].pings), last.answered = log[e].pings
          PROVE  q.answered = log'[e].pings /\ Begins(q.answered, log'[e].pings)
      <4>1. q.answered = log'[e].pings
        BY <1>6, <1>8, <1>11, <2>3, <3>3 DEF y
      <4>2. IsSeq(last.answered)
        BY <3>3 DEF Begins
      <4> DEFINE g == last.answered
                 z == Append(g, c)
      <4> HIDE DEF g
      <4>3. IsSeq(z)
        BY <4>2, AppendOf DEF g
      <4> HIDE DEF z
      <4>6. IsSeq(q.answered)
        BY <2>3, <4>3 DEF g, z
      <4> QED
        BY <4>1, <4>6, BeginsItself
    <3> QED
      BY <2>1, <2>3, <3>1, <3>2, <3>3 DEF Takes, Settled
  <2> QED
    BY <2>1, <2>2, <2>3
<1> QED
  BY <1>11, <1>12, <1>13, WriteKeeps

LEMMA RestIsSeq ==
  ASSUME NEW s, IsSeq(s), NEW j \in Nat \ {0}
  PROVE  IsSeq(SubSeq(s, j, Len(s)))
<1> DEFINE T == ToSet(s)
           n == Len(s)
           x == SubSeq(s, j, n)
<1>1. s \in Seq(T) /\ n \in Nat /\ s \in [1 .. n -> T]
  BY SeqIs DEF IsSeq
<1> HIDE DEF T
<1>2. \A i \in j .. n : s[i] \in T
  <2>1. \A i \in j .. n : i \in 1 .. n
    BY <1>1
  <2> QED
    BY <1>1, <2>1
<1> HIDE DEF n
<1>3. x \in Seq(T)
  BY <1>1, <1>2
<1> HIDE DEF x
<1> QED
  BY <1>3, IsSeqOf DEF x, n

(* e closes: it writes a close frame, or closes its socket if it did.      *)
LEMMA CloseFrameKeepsFraming ==
  ASSUME FramingInv, NEW e \in Ends, Ours(e), ~ about[e],
         NEW code, NEW reason, IsSeq(reason), NEW key, close(e, code, reason, key),
         foreign' = foreign, broken' = broken,
         DOMAIN reader' = Ends, DOMAIN processor' = Ends,
         \A x \in Ends : x # e => reader'[x] = reader[x] /\ processor'[x] = processor[x],
         reader'[e].at \in {"idle", "slot", "last slot"},
         DOMAIN reader'[e] = DOMAIN NewFrame, IsSeq(reader'[e].payload)
  PROVE  FramingInv'
<1>1. CASE sent[e]
  <2>1. CloseSocket(e) /\ wire' = wire /\ log' = log /\ about' = about
    BY <1>1 DEF close
  <2>2. /\ opened' = [opened EXCEPT ![e] = FALSE]
        /\ buffer' = [buffer EXCEPT ![e] = << >>]
        /\ \E v : /\ socket' = [socket EXCEPT ![e] = v]
                  /\ v # "connected" /\ (socket[e] = "unconnected" => v = "unconnected")
    BY <2>1, CloseSocketIs
  <2>3. DOMAIN about' = Ends
    BY <2>1 DEF FramingInv, FramingTypes
  <2>4. Shuts(e)
    BY <2>1, <2>2, <2>3 DEF Shuts
  <2> QED
    BY <2>1, <2>4, ShutKeeps
<1>2. CASE ~ sent[e]
  <2> DEFINE units == CloseFrame(code, reason, key)
             k == LogWrite(e)
             d == Peer(e)
  <2>1. /\ wire' = Written(e, units) /\ log' = [log EXCEPT ![e] = k]
        /\ about' = [about EXCEPT ![e] = TRUE]
        /\ UNCHANGED <<opened, buffer, socket>>
    BY <1>2 DEF close
  <2>2. \A r : AtRest(r) => \E q : Leads(r, units, q) /\ q.stopped /\ SameLists(r, q)
    BY CloseLeads
  <2>3. IsSeq(units)
    <3> DEFINE no == FALSE
               r == Receiver(NewFrame, NewProcessor, << >>, << >>, << >>, no)
    <3>1. ~ no
      OBVIOUS
    <3> HIDE DEF no
    <3>2. AtRest(r)
      BY <3>1 DEF AtRest, Receiver
    <3> HIDE DEF r
    <3> QED
      BY <3>2, CloseLeads
  <2> HIDE DEF units, k
  <2>4. /\ DOMAIN k = LogFields /\ k.delivered = log[e].delivered /\ k.pongs = log[e].pongs
        /\ k.intended = log[e].intended /\ k.pings = log[e].pings
    <3>1. FramingTypes /\ k = LogWrite(e)
      BY DEF FramingInv, k
    <3> QED
      BY <3>1, LogWrites
  <2>5. /\ DOMAIN about' = Ends /\ about'[e] /\ \A x \in Ends : x # e => about'[x] = about[x]
        /\ log'[e] = k
    BY <2>1 DEF FramingInv, FramingTypes
  <2>6. Writes(e, units, k)
    BY <2>1, <2>3, <2>4, <2>5 DEF Writes
  <2>7. Off(e)'
    BY <2>5 DEF Off
  <2>8. PICK re, rd, ae, ad : Agree(e, d, re, rd, ae, ad)
    BY EitherAgrees DEF FramingInv
  <2>9. Understood(e, units, rd, ae, ae)
    <3> DEFINE last == rd[Len(Stream(Peer(e)))]
    <3> SUFFICES ASSUME AtRest(last), last.delivered = log[e].intended,
                        Begins(last.delivered, log[e].intended),
                        Begins(last.pongs, log[Peer(e)].pings)
                 PROVE  \E q : Takes(e, last, units, q, ae, ae)
      BY DEF Understood
    <3> HIDE DEF last
    <3>1. PICK q : Leads(last, units, q) /\ q.stopped /\ SameLists(last, q)
      BY <2>2
    <3>2. Takes(e, last, units, q, ae, ae)
      BY <2>4, <2>5, <3>1, StoppedTakes DEF SameLists
    <3> QED
      BY <3>2
  <2> QED
    BY <2>6, <2>7, <2>8, <2>9, WriteKeeps
<1> QED
  BY <1>1, <1>2

LEMMA CloseKeepsFraming ==
  ASSUME FramingInv, NEW e \in Ends, Close(e)
  PROVE  FramingInv'
<1>1. Ours(e) /\ ~ about[e] /\ reader[e].at \in {"idle", "slot", "last slot"}
  BY ResultsAreSeqs DEF Close, MayCall, InLoop, InSlot, FramingInv, SocketsFit, SocketFits
<1>2. PICK key : close(e, CloseCalls[e].code, CloseCalls[e].reason, key)
  BY DEF Close
<1>3. UNCHANGED <<foreign, broken, reader, processor>>
  BY DEF Close
<1> DEFINE code == CloseCalls[e].code
           reason == CloseCalls[e].reason
<1>4. IsSeq(reason)
  BY MessagesAssumption DEF IsSeq
<1>5. close(e, code, reason, key)
  BY <1>2
<1> HIDE DEF code, reason
<1> QED
  BY <1>1, <1>3, <1>4, <1>5, CloseFrameKeepsFraming DEF FramingInv, FramingTypes

LEMMA DispatchCloses ==
  ASSUME FramingInv, NEW e \in Ends, reader[e].at = "dispatch",
         NEW code, NEW reason, IsSeq(reason), NEW key, close(e, code, reason, key),
         foreign' = foreign, broken' = broken, reader' = [reader EXCEPT ![e] = Idle],
         DOMAIN processor' = Ends, \A x \in Ends : x # e => processor'[x] = processor[x]
  PROVE  FramingInv'
<1>1. Ours(e) /\ ~ about[e]
  BY MayDispatch
<1>2. /\ DOMAIN reader' = Ends /\ reader'[e] = Idle
      /\ \A x \in Ends : x # e => reader'[x] = reader[x] /\ processor'[x] = processor[x]
  BY DEF FramingInv, FramingTypes
<1>3. /\ reader'[e].at \in {"idle", "slot", "last slot"}
      /\ DOMAIN reader'[e] = DOMAIN NewFrame /\ IsSeq(reader'[e].payload)
  BY <1>2, ResultsAreSeqs
<1> QED
  BY <1>1, <1>2, <1>3, CloseFrameKeepsFraming

LEMMA DispatchErrorKeepsFraming ==
  ASSUME FramingInv, NEW e \in Ends, DispatchError(e) \/ DispatchClose(e)
  PROVE  FramingInv'
<1>1. /\ reader[e].at = "dispatch" /\ foreign' = foreign /\ broken' = broken
      /\ reader' = [reader EXCEPT ![e] = Idle]
      /\ processor' = processor \/ processor' = [processor EXCEPT ![e] = NewProcessor]
  BY DEF DispatchError, DispatchClose
<1>2. DOMAIN processor' = Ends /\ \A x \in Ends : x # e => processor'[x] = processor[x]
  BY <1>1 DEF FramingInv, FramingTypes
<1>3. \E code, reason, key : IsSeq(reason) /\ close(e, code, reason, key)
  <2>1. CASE DispatchError(e)
    <3>1. \E code, key : close(e, code, << >>, key)
      BY <2>1 DEF DispatchError
    <3> QED
      BY <3>1, ResultsAreSeqs
  <2>2. CASE DispatchClose(e)
    <3> DEFINE s == reader[e].payload
               rest == SubSeq(s, 3, Len(s))
               code == ReceivedCode(s)
               reason == IF Len(s) > 2 /\ code = s[2] THEN rest ELSE << >>
    <3>0. \E key : close(e, code, reason, key)
      BY <2>2 DEF DispatchClose
    <3>4. reason \in {rest, << >>}
      OBVIOUS
    <3> HIDE DEF code, reason
    <3>1. \E h, r, key : r \in {rest, << >>} /\ close(e, h, r, key)
      BY <3>0, <3>4
    <3>2. IsSeq(s) /\ IsSeq(<< >>)
      BY ResultsAreSeqs DEF FramingInv, FramingTypes
    <3> HIDE DEF s
    <3>3. IsSeq(rest)
      BY <3>2, RestIsSeq
    <3> HIDE DEF rest
    <3> QED
      BY <3>1, <3>2, <3>3
  <2> QED
    BY <2>1, <2>2
<1> QED
  BY <1>1, <1>2, <1>3, DispatchCloses

LEMMA DispatchPingKeepsFraming ==
  ASSUME FramingInv, NEW e \in Ends, DispatchPing(e)
  PROVE  FramingInv'
<1> DEFINE f == reader[e]
           p == processor[e]
           c == f.payload
           d == Peer(e)
           k == LogWrite(e)
<1>1. /\ f.at = "dispatch" /\ f.error = "none" /\ f.opCode = OpPing
      /\ log' = [log EXCEPT ![e] = k]
      /\ reader' = [reader EXCEPT ![e] = NextFrame(buffer[e])]
      /\ UNCHANGED <<foreign, broken, buffer, socket, opened, about, processor>>
  BY DEF DispatchPing
<1>2. PICK key : wire' = Written(e, Frame(OpPong, c, key, TRUE))
  BY DEF DispatchPing
<1> DEFINE units == Frame(OpPong, c, key, TRUE)
           g == NextFrame(buffer[e])
<1>3. ~ Stops(f, p)
  <2> HIDE DEF f, p
  <2> QED
    BY <1>1 DEF Stops, isControlFrame, OpPing, OpClose
<1>4. Ours(e) /\ ~ about[e] /\ ~ Off(e)
  BY <1>1, <1>3, MayDispatch
<1>5. g = Idle \/ g = NewFrame
  BY DEF NextFrame
<1>6. IsSeq(c)
  BY DEF FramingInv, FramingTypes
<1>7. wire' = Written(e, units)
  BY <1>2
<1>8. \A r : AtRest(r) =>
        \E q : /\ Leads(r, units, q)
               /\ q.delivered = r.delivered /\ q.answered = r.answered
               /\ \/ q.stopped /\ q.pongs = r.pongs
                  \/ AtRest(q) /\ q.pongs = Append(r.pongs, c)
  <2> HIDE DEF c
  <2> QED
    BY <1>6, PongLeads
<1>9. IsSeq(units)
  <2> DEFINE no == FALSE
             r == Receiver(NewFrame, NewProcessor, << >>, << >>, << >>, no)
  <2>1. ~ no
    OBVIOUS
  <2> HIDE DEF no, c
  <2>2. AtRest(r)
    BY <2>1 DEF AtRest, Receiver
  <2> HIDE DEF r
  <2> QED
    BY <1>6, <2>2, PongLeads
<1> HIDE DEF units, k, g
<1>10. /\ DOMAIN k = LogFields /\ k.delivered = log[e].delivered /\ k.pongs = log[e].pongs
       /\ k.intended = log[e].intended /\ k.pings = log[e].pings
  <2>1. FramingTypes /\ k = LogWrite(e)
    BY DEF FramingInv, k
  <2> QED
    BY <2>1, LogWrites
<1>11. /\ DOMAIN reader' = Ends /\ reader'[e] = g /\ \A x \in Ends : x # e => reader'[x] = reader[x]
       /\ log'[e] = k
  BY <1>1 DEF FramingInv, FramingTypes, g
<1>12. Writes(e, units, k)
  <2>1. reader'[e].at # "dispatch" /\ DOMAIN reader'[e] = DOMAIN NewFrame
        /\ IsSeq(reader'[e].payload)
    BY <1>5, <1>11, ResultsAreSeqs
  <2>2. /\ UNCHANGED <<foreign, broken, buffer, socket, opened>>
        /\ DOMAIN about' = Ends /\ DOMAIN reader' = Ends /\ DOMAIN processor' = Ends
        /\ \A x \in Ends : x # e => /\ about'[x] = about[x] /\ reader'[x] = reader[x]
                                    /\ processor'[x] = processor[x]
        /\ ~ about'[e]
    BY <1>1, <1>4, <1>11 DEF FramingInv, FramingTypes
  <2> QED
    BY <1>1, <1>7, <1>9, <1>10, <2>1, <2>2 DEF Writes
<1>13. PICK re, rd, ae, ad : Agree(e, d, re, rd, ae, ad)
  BY EitherAgrees DEF FramingInv
<1>0. PICK a : a = Append(ae, c)
  OBVIOUS
<1>14. Now(e, a)' = Now(e, ae) /\ Now(e, ae).answered = a
  <2> DEFINE l == log[e].delivered
             s == log[e].pongs
             r == Receiver(NewFrame, p, l, s, ae, FALSE)
             z == Receiver(NewFrame, p, l, s, a, FALSE)
  <2>1. Now(e, ae) = Dispatched(r, f)
    BY <1>1 DEF Now, NowOf
  <2>2. /\ r.processor = p /\ r.delivered = l /\ r.pongs = s /\ r.answered = ae
    BY DEF Receiver
  <2>3. Dispatched(r, f) = z
    BY <1>0, <1>1, <1>3, <2>2 DEF Dispatched
  <2>4. Now(e, a)' = NowOf(g, p, l, s, a)
    BY <1>1, <1>10, <1>11 DEF Now
  <2>5. g.at \in {"idle", "slot", "last slot"} \/ g = NewFrame
    BY <1>5, ResultsAreSeqs
  <2> HIDE DEF p, l, s
  <2>6. NowOf(g, p, l, s, a) = With(z, NewFrame)
    BY ONLY <2>5, NowBetween DEF z
  <2>7. With(z, NewFrame) = z /\ z.answered = a
    BY DEF With, Receiver
  <2> QED
    BY <2>1, <2>3, <2>4, <2>6, <2>7
<1>15. Understood(e, units, rd, ae, a)
  <2> DEFINE last == rd[Len(Stream(Peer(e)))]
  <2> SUFFICES ASSUME ~ foreign, ~ Off(d), Live(e),
                      AtRest(last), last.delivered = log[e].intended,
                      Begins(last.delivered, log[e].intended),
                      Begins(last.pongs, log[Peer(e)].pings)
               PROVE  \E q : Takes(e, last, units, q, ae, a)
    BY DEF Understood
  <2>0. ae = last.pongs /\ Begins(a, log[d].pings)
    <3>1. Answers(d, e, rd, re, ae) /\ ~ last.stopped
      BY <1>13 DEF Agree, AtRest
    <3>2. ae = last.pongs /\ \A i \in 0 .. Len(Stream(e)) : Begins(re[i].answered, log[d].pings)
      BY <1>4, <3>1 DEF Answers
    <3>3. re[0] = Now(e, ae)
      BY <1>4, <1>13 DEF Agree, Reads, ReadsOn, IsRun
    <3>4. 0 \in 0 .. Len(Stream(e))
      <4>1. IsSeq(Stream(e))
        BY StreamsAreSeqs DEF FramingInv
      <4> QED
        BY <4>1, SeqIs
    <3> QED
      BY <1>14, <3>2, <3>3, <3>4
  <2> HIDE DEF last
  <2>1. PICK q : /\ Leads(last, units, q)
                 /\ q.delivered = last.delivered /\ q.answered = last.answered
                 /\ \/ q.stopped /\ q.pongs = last.pongs
                    \/ AtRest(q) /\ q.pongs = Append(last.pongs, c)
    BY <1>8
  <2>2. log'[e].intended = log[e].intended /\ log'[e].pings = log[e].pings
    BY <1>10, <1>11
  <2>3. CASE q.stopped /\ q.pongs = last.pongs
    BY <2>1, <2>2, <2>3, StoppedTakes
  <2>4. CASE AtRest(q) /\ q.pongs = Append(last.pongs, c)
    <3>1. q.pongs = a
      BY <1>0, <2>0, <2>4
    <3>2. ~ last.stopped /\ q.delivered = log'[e].intended
          /\ Begins(q.delivered, log'[e].intended)
      BY <2>1, <2>2 DEF AtRest
    <3> QED
      BY <2>0, <2>1, <2>2, <2>4, <3>1, <3>2 DEF Takes, Settled
  <2> QED
    BY <2>1, <2>3, <2>4
<1> QED
  BY <1>4, <1>12, <1>13, <1>14, <1>15, WriteKeeps

LEMMA NothingKeeps ==
  ASSUME FramingInv, UNCHANGED connectionVars
  PROVE  FramingInv'
<1>1. UNCHANGED <<foreign, wire, broken, buffer, socket, opened, about, reader, processor, log>>
  BY DEF connectionVars
<1>2. FramingTypes'
  BY <1>1 DEF FramingInv, FramingTypes
<1>3. SocketsFit'
  BY <1>1, SocketSame, LineSame DEF FramingInv, SocketsFit
<1>4. SignalsFit' /\ \A x \in Ends : SameWritten(x)
  <2>1. \A x \in Ends : SameLog(x)
    BY <1>1, LogsNote DEF FramingInv
  <2> QED
    BY <1>1, <2>1, SameSignals DEF FramingInv
<1>5. \A x \in Ends : /\ SameReading(x) /\ (Live(x)' <=> Live(x))
                      /\ (Writable(x)' <=> Writable(x))
  BY <1>1, SameOff, SameNow, SameStream, SameLive DEF SameReading
<1>6. EndsAgree'
  BY <1>1, <1>4, <1>5, QuietAgrees DEF FramingInv
<1> QED
  BY <1>2, <1>3, <1>4, <1>6 DEF FramingInv

LEMMA FramingNext ==
  ASSUME FramingInv, [ConnectionNext]_connectionVars
  PROVE  FramingInv'
<1>1. ASSUME NEW e \in Ends, Send(e) \/ Ping(e) \/ Close(e) \/ Abort(e) PROVE FramingInv'
  BY <1>1, SendKeepsFraming, PingKeepsFraming, CloseKeepsFraming, AbortKeeps
<1>2. ASSUME NEW e \in Ends, Run(e) PROVE FramingInv'
  <2>1. ASSUME Dispatch(e) PROVE FramingInv'
    BY <2>1, DispatchErrorKeepsFraming, DispatchPingKeepsFraming, DispatchPongKeepsFraming, DispatchDataKeepsFraming
    DEF Dispatch
  <2>2. ASSUME ~ Dispatch(e) PROVE FramingInv'
    BY <1>2, <2>2, ArriveKeeps, DisconnectKeeps, LoopsKeep, ReadKeeps, FinishCloseKeepsFraming DEF Run
  <2> QED
    BY <2>1, <2>2
<1> QED
  BY <1>1, <1>2, BreakKeeps, ForeignClosesKeeps, NothingKeeps DEF ConnectionNext

-----------------------------------------------------------------------------
Unread == Receiver(NewFrame, NewProcessor, << >>, << >>, << >>, FALSE)

(* What a script says of itself: its units, read one after the other, give *)
(* no other messages than it names.                                        *)
ScriptsRead ==
  \A s \in Scripts :
    /\ IsSeq(s.units) /\ IsSeq(s.messages)
    /\ \E run : /\ IsRun(run, Unread, s.units)
                /\ \A i \in 0 .. Len(s.units) : Begins(run[i].delivered, s.messages)

LEMMA UnreadIs ==
  /\ AtRest(Unread) /\ Unread.delivered = << >> /\ Unread.pongs = << >>
  /\ Unread.answered = << >>
  /\ IsSeq(<< >>) /\ \A s : IsSeq(s) => Begins(<< >>, s) /\ << >> \o s = s
<1> DEFINE no == FALSE
           r == Receiver(NewFrame, NewProcessor, << >>, << >>, << >>, no)
<1>1. ~ no
  OBVIOUS
<1>2. Unread = r
  BY DEF Unread
<1> HIDE DEF no
<1>3. AtRest(r) /\ r.delivered = << >> /\ r.pongs = << >> /\ r.answered = << >>
  BY <1>1 DEF AtRest, Receiver
<1> HIDE DEF r
<1>4. IsSeq(<< >>)
  BY ResultsAreSeqs
<1>5. ASSUME NEW s, IsSeq(s) PROVE Begins(<< >>, s) /\ << >> \o s = s
  <2>1. Len(s) \in Nat /\ Len(<< >>) = 0 /\ \A i \in 1 .. 0 : FALSE
    BY <1>5, SeqIs
  <2>2. Begins(<< >>, s)
    BY <1>4, <1>5, <2>1 DEF Begins
  <2>3. << >> \o s = s
    BY <1>5, JoinThree
  <2> QED
    BY <2>2, <2>3
<1> QED
  BY <1>2, <1>3, <1>4, <1>5

LEMMA FramingInit ==
  ASSUME ScriptsRead, ConnectionInit
  PROVE  FramingInv
<1>1. /\ buffer = [e \in Ends |-> << >>] /\ socket = [e \in Ends |-> "connected"]
      /\ opened = [e \in Ends |-> TRUE] /\ about = [e \in Ends |-> FALSE]
      /\ reader = [e \in Ends |-> Idle] /\ processor = [e \in Ends |-> NewProcessor]
  BY DEF ConnectionInit
<1>2. /\ DOMAIN NewLog = LogFields /\ NewLog.intended = << >> /\ NewLog.delivered = << >>
      /\ NewLog.pings = << >> /\ NewLog.pongs = << >>
  BY DEF NewLog, LogFields
<1>3. IsSeq(<< >>) /\ Begins(<< >>, << >>) /\ << >> \o << >> = << >>
  BY UnreadIs
<1>4. "client" \in Ends /\ "server" \in Ends /\ Peer("client") = "server"
      /\ Peer("server") = "client" /\ \A e \in Ends : e = "client" \/ e = "server"
  BY DEF Ends, Peer
<1>5. ASSUME NEW e \in Ends, NEW l, log[e] = l, l.delivered = << >>, l.pongs = << >>
      PROVE  Now(e, << >>) = Unread
  <2> DEFINE f == Idle
             p == NewProcessor
             g == << >>
  <2>1. Now(e, g) = NowOf(f, p, g, g, g)
    BY <1>1, <1>5 DEF Now
  <2>2. f.at \in {"idle", "slot", "last slot"} \/ f = NewFrame
    BY ResultsAreSeqs
  <2>3. Unread = Receiver(NewFrame, p, g, g, g, FALSE)
    BY DEF Unread
  <2> HIDE DEF f, p, g
  <2>4. NowOf(f, p, g, g, g) = With(Receiver(NewFrame, p, g, g, g, FALSE), NewFrame)
    BY ONLY <2>2, NowBetween
  <2>5. With(Receiver(NewFrame, p, g, g, g, FALSE), NewFrame)
          = Receiver(NewFrame, p, g, g, g, FALSE)
    BY DEF With, Receiver
  <2>6. Now(e, g) = Unread
    BY <2>1, <2>3, <2>4, <2>5
  <2> QED
    BY <2>6 DEF g
<1>6. ASSUME DOMAIN wire = Ends, DOMAIN log = Ends,
             \A e \in Ends : /\ IsSeq(wire[e]) /\ DOMAIN log[e] = LogFields
                             /\ log[e].delivered = << >> /\ log[e].pongs = << >>
                             /\ log[e].pings = << >> /\ IsSeq(log[e].intended)
      PROVE  FramingTypes /\ SocketsFit /\ SignalsFit
  <2>1. FramingTypes
    BY <1>1, <1>3, <1>6, ResultsAreSeqs DEF FramingTypes
  <2>2. SocketsFit
    BY <1>1, ResultsAreSeqs DEF SocketsFit, SocketFits, LineFits
  <2>3. SignalsFit
    BY <1>3, <1>4, <1>6, UnreadIs, PeerIs DEF SignalsFit
  <2> QED
    BY <2>1, <2>2, <2>3
<1>7. CASE ~ foreign /\ wire = [e \in Ends |-> << >>] /\ log = [e \in Ends |-> NewLog]
  <2> DEFINE run == [i \in Nat |-> Unread]
  <2>1. \A e \in Ends : wire[e] = << >> /\ log[e] = NewLog
    BY <1>7
  <2>2. FramingTypes /\ SocketsFit /\ SignalsFit
    BY <1>2, <1>3, <1>6, <1>7, <2>1
  <2>3. \A e \in Ends : Stream(e) = << >> /\ Now(e, << >>) = Unread
    BY <1>1, <1>2, <1>3, <1>4, <1>5, <2>1 DEF Stream
  <2>4. Len(<< >>) = 0 /\ run[0] = Unread /\ \A i \in 0 .. 0 : i = 0
    OBVIOUS
  <2> HIDE DEF run
  <2>5. IsRun(run, Unread, << >>)
    BY <2>4 DEF IsRun
  <2>6. ASSUME NEW own, NEW rest PROVE ReadsOn(Unread, << >>, run, << >>, << >>, own, rest)
    BY <1>3, <2>4, <2>5, UnreadIs DEF ReadsOn, Settled
  <2>7. ASSUME NEW e \in Ends, NEW d \in Ends
        PROVE  Reads(e, d, run, << >>) /\ Answers(d, e, run, run, << >>)
    <3>1. Reads(e, d, run, << >>)
      BY <1>2, <2>1, <2>3, <2>6 DEF Reads
    <3>2. Answers(d, e, run, run, << >>)
      BY <1>2, <1>3, <2>1, <2>3, <2>4, UnreadIs DEF Answers
    <3> QED
      BY <3>1, <3>2
  <2>8. Agree("client", "server", run, run, << >>, << >>)
    BY <1>4, <2>7 DEF Agree
  <2> QED
    BY <2>2, <2>8 DEF FramingInv, EndsAgree
<1>8. ASSUME foreign, NEW s \in Scripts, wire = [client |-> s.units, server |-> << >>],
             log = [client |-> [NewLog EXCEPT !.intended = s.messages], server |-> NewLog]
      PROVE  FramingInv
  <2> DEFINE k == [NewLog EXCEPT !.intended = s.messages]
             units == s.units
             messages == s.messages
  <2>1. /\ DOMAIN k = LogFields /\ k.intended = messages /\ k.delivered = << >>
        /\ k.pings = << >> /\ k.pongs = << >>
    BY <1>2 DEF LogFields
  <2>2. /\ DOMAIN wire = Ends /\ DOMAIN log = Ends /\ wire["client"] = units
        /\ wire["server"] = << >> /\ log["client"] = k /\ log["server"] = NewLog
    BY <1>8 DEF Ends
  <2>3. /\ IsSeq(units) /\ IsSeq(messages)
        /\ \E run : /\ IsRun(run, Unread, units)
                    /\ \A i \in 0 .. Len(units) : Begins(run[i].delivered, messages)
    BY DEF ScriptsRead
  <2> HIDE DEF k, units, messages
  <2>4. FramingTypes /\ SocketsFit /\ SignalsFit
    BY <1>2, <1>3, <1>4, <1>6, <2>1, <2>2, <2>3
  <2>5. PICK run : /\ IsRun(run, Unread, units)
                   /\ \A i \in 0 .. Len(units) : Begins(run[i].delivered, messages)
    BY <2>3
  <2>6. Stream("server") = units /\ Now("server", << >>) = Unread
    BY <1>1, <1>2, <1>4, <1>5, <2>2, <2>3, UnreadIs DEF Stream
  <2>7. Reads("server", "client", run, << >>)
    BY <1>8, <2>1, <2>2, <2>5, <2>6 DEF Reads, ReadsOn
  <2>8. Off("client")
    BY <1>8 DEF Off, Ours
  <2>9. Agree("client", "server", run, run, << >>, << >>)
    BY <1>8, <2>7, <2>8 DEF Agree, Reads, Answers
  <2> QED
    BY <2>4, <2>9 DEF FramingInv, EndsAgree
<1> QED
  BY <1>7, <1>8 DEF ConnectionInit

(* What each end reads, and has read, gives what its peer has written.     *)
THEOREM FramingAlways ==
  ASSUME ScriptsRead
  PROVE  ConnectionSpec => []FramingInv
<1>1. ConnectionInit => FramingInv
  BY FramingInit
<1>2. FramingInv /\ [ConnectionNext]_connectionVars => FramingInv'
  BY FramingNext
<1> QED
  BY <1>1, <1>2, PTL DEF ConnectionSpec

(* FramesReassembled: what an end signals are the messages that its peer   *)
(* sent, whole and in order, and the pongs answer the pings.               *)
THEOREM FramesReassembledAlways ==
  ASSUME ScriptsRead
  PROVE  ConnectionSpec => []FramesReassembled
<1>1. FramingInv => FramesReassembled
  BY BeginsIsPrefix DEF FramingInv, SignalsFit, FramesReassembled
<1> QED
  BY <1>1, FramingAlways, PTL
=============================================================================
