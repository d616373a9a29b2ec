------------------------ MODULE ServiceControl_proofs ------------------------
(***************************************************************************)
(* Proofs about the service framework on Unix: what a client sends is      *)
(* obeyed once, and no client waits in vain.                               *)
(***************************************************************************)
EXTENDS ServiceControl, SequenceTheorems, NaturalsInduction, WellFoundedInduction, TLAPS

-----------------------------------------------------------------------------
(* The inductive invariant. *)

Pieces == [of : Commands, last : BOOLEAN]
Alive == {"running", "quitting", "closing", "closed"}
Phases == {"new", "connecting", "found", "writing", "waiting", "starting", "returned", "killed"}
Calls == [operation : Sending \cup Checking, phase : Phases, unsent : Seq(Pieces),
          told : BOOLEAN]
Links == [to : Services \cup {NoService}, at : Addresses \cup {NoAddress}, open : BOOLEAN,
          sending : Seq(Pieces), replies : Seq(BOOLEAN)]

ControlTypeOK ==
  /\ path \in Services \cup {NoService}
  /\ service \in [Services -> Alive \cup {"none", "started", "gone"}]
  /\ serving \in [Services -> Clients \cup {NoService}]
  /\ cache \in [Services -> [Addresses -> Seq(Pieces)]]
  /\ call \in [Clients -> Calls]
  /\ link \in [Clients -> Links]
  /\ obeyed \in [Clients -> Seq(Commands \cup {"num 0", "unknown"})]
  /\ inherited \subseteq Clients

(* l is a socket of a service that is alive. *)
Joins(l) == l.to # NoService => service[l.to] \in Alive
SameSocket(l, m) ==
  l.to # NoService /\ l.to = m.to /\ l.at # NoAddress /\ l.at = m.at

(* Every client has a socket of its own. *)
LinksFit ==
  /\ \A c \in Clients :
       /\ Joins(link[c])
       /\ link[c].to = NoService => link[c].sending = << >>
       /\ call[c].phase \in {"new", "connecting"} => link[c] = NoLink
  /\ \A c, d \in Clients : SameSocket(link[c], link[d]) => c = d

ServingFits ==
  \A s \in Services : serving[s] # NoService =>
    /\ service[s] \in {"running", "quitting"}
    /\ link[serving[s]].to = s /\ link[serving[s]].at # NoAddress

(* A complete line is in the cache only while slotReady serves its socket. *)
HasLine(pieces) == LineEnds(pieces) # {}
LinesFit ==
  \A s \in Services, a \in Addresses :
    service[s] # "gone" /\ HasLine(cache[s][a]) =>
      serving[s] # NoService /\ link[serving[s]].at = a

(* What the service has in the cache of a socket. *)
CachedOf(l) ==
  IF l.to = NoService \/ l.at = NoAddress THEN << >> ELSE cache[l.to][l.at]

(* A client that waits for an answer has sent its line. *)
WaitFits(k, l, p) ==
  k.phase = "waiting" /\ l.to # NoService /\ l.replies = << >> => HasLine(l.sending) \/ HasLine(p)

(* The line of a call and its two pieces. *)
Whole(k) == Line(CommandOf(k.operation))
Begun(k) == <<Whole(k)[1]>>
Rest(k) == <<Whole(k)[2]>>

PhaseFits(k, o) ==
  /\ k.phase = "found" => k.operation \in Checking
  /\ k.phase = "starting" => k.operation \in {"start", "exec"}
  /\ k.phase \in {"writing", "waiting"} => k.operation \in Sending
  /\ k.phase = "writing" => k.unsent \in {Whole(k), Rest(k)}
  /\ k.phase = "connecting" /\ k.operation \in Sending => k.unsent = Whole(k)
  /\ k.phase # "returned" => ~ k.told
  /\ k.phase \in {"new", "connecting"} => o = << >>

(* Where n pieces of a line are: p in the cache, q on their way. *)
Placed(k, n, p, q) ==
  \/ n = 0 /\ p = << >> /\ q = << >>
  \/ n = 1 /\ p = << >> /\ q = Begun(k)
  \/ n = 1 /\ p = Begun(k) /\ q = << >>
  \/ n = 2 /\ p = << >> /\ q = Whole(k)
  \/ n = 2 /\ p = Begun(k) /\ q = Rest(k)
  \/ n = 2 /\ p = Whole(k) /\ q = << >>

Unanswered(k, l, p, o) ==
  /\ l.replies = << >> /\ o = << >>
  /\ \E n \in {0, 1, 2} :
       /\ Placed(k, n, p, l.sending)
       /\ n # 0 => k.operation \in Sending
       /\ k.phase = "writing" /\ k.unsent = Whole(k) => n = 0
       /\ k.phase = "writing" /\ k.unsent # Whole(k) => n = 1
       /\ k.phase = "waiting" => n = 2

HasAnswer(k, l, p, o) ==
  /\ p = << >> /\ l.sending = << >> /\ k.phase # "writing"
  /\ \/ l.replies = <<TRUE>> /\ o = <<CommandOf(k.operation)>>
     \/ l.replies = <<FALSE>> /\ o = << >>

Over(k, l, o) ==
  /\ o \in {<< >>, <<CommandOf(k.operation)>>}
  /\ l.replies = <<TRUE>> => o # << >>

(* The line of a client is under way, or it is answered. *)
OwnLine(k, l, p, o) ==
  /\ IF l.to = NoService THEN Over(k, l, o) ELSE Unanswered(k, l, p, o) \/ HasAnswer(k, l, p, o)
  /\ k.told /\ k.operation \in Sending \ {"exec"} => o # << >>

CallsFit ==
  \A c \in Clients :
    /\ PhaseFits(call[c], obeyed[c])
    /\ WaitFits(call[c], link[c], CachedOf(link[c]))
    /\ c \notin inherited => OwnLine(call[c], link[c], CachedOf(link[c]), obeyed[c])

ControlInv == ControlTypeOK /\ LinksFit /\ ServingFits /\ LinesFit /\ CallsFit

-----------------------------------------------------------------------------
(* Lines and their pieces. *)

LEMMA LineIs ==
  ASSUME NEW command \in Commands
  PROVE  LET f == [of |-> command, last |-> FALSE]
             g == [of |-> command, last |-> TRUE] IN
         /\ f \in Pieces /\ g \in Pieces /\ f # g
         /\ Line(command) = <<f, g>> /\ Line(command)[1] = f /\ Line(command)[2] = g
         /\ Line(command) \in Seq(Pieces) /\ <<f>> \in Seq(Pieces) /\ <<g>> \in Seq(Pieces)
         /\ <<f>> # Line(command) /\ <<g>> # Line(command) /\ Line(command) # << >>
         /\ Append(<< >>, f) = <<f>> /\ Append(<<f>>, g) = Line(command)
         /\ <<f>> \o <<g>> = Line(command)
         /\ Head(Line(command)) = f /\ Tail(Line(command)) = <<g>>
         /\ Head(<<g>>) = g /\ Tail(<<g>>) = << >> /\ Len(Line(command)) = 2 /\ Len(<<g>>) = 1
<1> DEFINE f == [of |-> command, last |-> FALSE]
           g == [of |-> command, last |-> TRUE]
<1>1. f \in Pieces /\ g \in Pieces /\ f.last = FALSE /\ g.last = TRUE
  BY DEF Pieces
<1>2. Line(command) = <<f, g>>
  BY DEF Line
<1> HIDE DEF f, g
<1>3. f # g
  BY <1>1
<1>4. /\ <<f, g>> \in Seq(Pieces) /\ <<f>> \in Seq(Pieces) /\ <<g>> \in Seq(Pieces)
      /\ <<f, g>>[1] = f /\ <<f, g>>[2] = g /\ <<f, g>> # << >>
      /\ Len(<<f, g>>) = 2 /\ Len(<<f>>) = 1 /\ Len(<<g>>) = 1
  BY <1>1
<1>5. <<f>> # <<f, g>> /\ <<g>> # <<f, g>>
  BY <1>4
<1>6. Append(<< >>, f) = <<f>> /\ Append(<<f>>, g) = <<f, g>>
  <2>1. Append(<< >>, f) = <<f>>
    BY <1>1
  <2> DEFINE s == Append(<<f>>, g)
  <2>2. s \in Seq(Pieces) /\ Len(s) = 2 /\ s[1] = f /\ s[2] = g
    BY <1>1, <1>4
  <2>3. \A i \in 1 .. 2 : s[i] = <<f, g>>[i]
    <3> HIDE DEF s
    <3>1. \A i \in 1 .. 2 : i = 1 \/ i = 2
      OBVIOUS
    <3> QED
      BY <1>4, <2>2, <3>1
  <2> HIDE DEF s
  <2>4. s = <<f, g>>
    BY <1>4, <2>2, <2>3, SeqEqual
  <2> QED
    BY <2>1, <2>4 DEF s
<1>7. <<f>> \o <<g>> = <<f, g>>
  <2>1. <<f>> \o <<g>> = Append(<<f>>, g)
    BY <1>1, <1>4
  <2> QED
    BY <1>6, <2>1
<1>8. Head(<<f, g>>) = f /\ Tail(<<f, g>>) = <<g>>
  BY <1>1
<1>9. Head(<<g>>) = g /\ Tail(<<g>>) = << >>
  BY <1>1
<1> QED
  BY <1>1, <1>2, <1>3, <1>4, <1>5, <1>6, <1>7, <1>8, <1>9 DEF f, g

(* The first complete line. *)
LEMMA SmallestEnd ==
  ASSUME NEW S, S \subseteq Nat, S # {}
  PROVE  Min(S) \in S /\ \A y \in S : Min(S) <= y
<1> DEFINE P(x) == \A y \in S : x <= y
           R == {p \in Nat \X Nat : p[1] < p[2]}
<1>1. IsWellFoundedOn(R, Nat)
  BY NatLessThanWellFounded DEF OpToRel
<1>2. PICK x \in S : \A y \in S : ~ (<<y, x>> \in R)
  <2> HIDE DEF R
  <2> QED
    BY <1>1, WFMin
<1>3. P(x)
  <2> SUFFICES ASSUME NEW y \in S PROVE x <= y
    OBVIOUS
  <2>1. x \in Nat /\ y \in Nat /\ ~ (y < x)
    BY <1>2
  <2> QED
    BY <2>1
<1>4. Min(S) = CHOOSE z \in S : P(z)
  BY DEF Min
<1>5. Min(S) \in S /\ P(Min(S))
  <2> HIDE DEF P
  <2> QED
    BY <1>3, <1>4
<1> QED
  BY <1>5

LEMMA GetCommandIs ==
  ASSUME NEW p \in Seq(Pieces)
  PROVE  /\ getCommand(p) \in Seq(Pieces) /\ Remaining(p) \in Seq(Pieces)
         /\ getCommand(p) # << >> <=> HasLine(p)
         /\ getCommand(p) # << >> => Meaning(getCommand(p)) \in Commands \cup {"num 0", "unknown"}
<1>1. Len(p) \in Nat /\ DOMAIN p = 1 .. Len(p)
  OBVIOUS
<1>2. LineEnds(p) \subseteq 1 .. Len(p)
  BY <1>1 DEF LineEnds
<1>3. CASE HasLine(p)
  <2> DEFINE m == Min(LineEnds(p))
  <2>1. m \in 1 .. Len(p)
    BY <1>2, <1>3, SmallestEnd DEF HasLine
  <2>2. getCommand(p) = SubSeq(p, 1, m)
    BY <1>3 DEF getCommand, HasLine
  <2> HIDE DEF m
  <2>3. /\ SubSeq(p, 1, m) \in Seq(Pieces) /\ Len(SubSeq(p, 1, m)) = m
        /\ SubSeq(p, 1, m)[1] \in Pieces /\ SubSeq(p, m + 1, Len(p)) \in Seq(Pieces)
    <3>1. /\ m \in Nat /\ 1 <= m /\ m <= Len(p) /\ 1 \in 1 .. m
          /\ \A i \in 1 .. m : p[i] \in Pieces
          /\ \A i \in m + 1 .. Len(p) : p[i] \in Pieces
      BY <1>1, <2>1
    <3>2. SubSeq(p, 1, m) \in Seq(Pieces) /\ Len(SubSeq(p, 1, m)) = m
      BY <1>1, <3>1
    <3>3. SubSeq(p, 1, m)[1] \in Pieces
      BY <3>1, <3>2
    <3>4. SubSeq(p, m + 1, Len(p)) \in Seq(Pieces)
      BY <1>1, <3>1
    <3> QED
      BY <3>2, <3>3, <3>4
  <2>4. SubSeq(p, 1, m) # << >>
    BY <2>1, <2>3
  <2>5. Remaining(p) = SubSeq(p, m + 1, Len(p))
    BY <2>2, <2>3 DEF Remaining
  <2>6. SubSeq(p, 1, m)[1].of \in Commands
    BY <2>3 DEF Pieces
  <2>7. Meaning(SubSeq(p, 1, m)) \in Commands \cup {"num 0", "unknown"}
    BY <2>6 DEF Meaning
  <2> QED
    BY <1>3, <2>2, <2>3, <2>4, <2>5, <2>7
<1>4. CASE ~ HasLine(p)
  <2>1. getCommand(p) = << >> /\ Len(<< >>) + 1 = 1
    BY <1>4 DEF getCommand, HasLine
  <2>2. Remaining(p) = SubSeq(p, 1, Len(p))
    BY <2>1 DEF Remaining
  <2>3. SubSeq(p, 1, Len(p)) \in Seq(Pieces)
    BY <1>1
  <2> QED
    BY <1>4, <2>1, <2>2, <2>3
<1> QED
  BY <1>3, <1>4

LEMMA LinesEnd ==
  ASSUME NEW command \in Commands
  PROVE  /\ HasLine(Line(command)) /\ HasLine(<<Line(command)[2]>>)
         /\ ~ HasLine(<< >>) /\ ~ HasLine(<<Line(command)[1]>>)
         /\ getCommand(Line(command)) = Line(command) /\ Remaining(Line(command)) = << >>
         /\ Meaning(Line(command)) = command
<1> DEFINE f == [of |-> command, last |-> FALSE]
           g == [of |-> command, last |-> TRUE]
<1>1. f.last = FALSE /\ g.last = TRUE /\ f.of = command
  OBVIOUS
<1>2. /\ f \in Pieces /\ g \in Pieces /\ Line(command) = <<f, g>>
      /\ Line(command)[1] = f /\ Line(command)[2] = g
  BY LineIs
<1> HIDE DEF f, g
<1>3. LineEnds(<<f, g>>) = {2} /\ LineEnds(<<g>>) = {1} /\ LineEnds(<<f>>) = {}
      /\ LineEnds(<< >>) = {}
  BY <1>1 DEF LineEnds
<1>4. Min({2}) = 2
  <2>1. Min({2}) \in {2}
    BY SmallestEnd
  <2> QED
    BY <2>1
<1>5. getCommand(<<f, g>>) = SubSeq(<<f, g>>, 1, 2)
  BY <1>3, <1>4 DEF getCommand
<1>6. SubSeq(<<f, g>>, 1, 2) = <<f, g>> /\ SubSeq(<<f, g>>, 3, 2) = << >> /\ Len(<<f, g>>) = 2
  <2>1. /\ <<f, g>> \in Seq(Pieces) /\ Len(<<f, g>>) = 2
    BY <1>2
  <2> DEFINE s == <<f, g>>
  <2> HIDE DEF s
  <2>2. s \in Seq(Pieces) /\ Len(s) = 2 => SubSeq(s, 1, 2) = s /\ SubSeq(s, 3, 2) = << >>
    OBVIOUS
  <2> QED
    BY <2>1, <2>2 DEF s
<1>7. Remaining(<<f, g>>) = << >>
  BY <1>5, <1>6 DEF Remaining
<1>8. Meaning(<<f, g>>) = command
  <2>1. \E d \in Commands : <<f, g>> = Line(d)
    BY <1>2
  <2>2. <<f, g>>[1].of = command
    BY <1>1
  <2> QED
    BY <2>1, <2>2 DEF Meaning
<1> QED
  BY <1>2, <1>3, <1>5, <1>6, <1>7, <1>8 DEF HasLine

LEMMA LineMoves ==
  ASSUME NEW p \in Seq(Pieces), NEW q \in Seq(Pieces)
  PROVE  /\ p \o q \in Seq(Pieces)
         /\ HasLine(p) \/ HasLine(q) => HasLine(p \o q)
         /\ p \o << >> = p /\ << >> \o q = q
<1>1. /\ p \o q \in Seq(Pieces) /\ Len(p) \in Nat /\ Len(q) \in Nat
      /\ DOMAIN p = 1 .. Len(p) /\ DOMAIN q = 1 .. Len(q)
      /\ DOMAIN (p \o q) = 1 .. Len(p) + Len(q)
      /\ \A i \in 1 .. Len(p) + Len(q) : (p \o q)[i] = IF i <= Len(p) THEN p[i] ELSE q[i - Len(p)]
  OBVIOUS
<1>2. ASSUME HasLine(p) PROVE HasLine(p \o q)
  <2>1. PICK i \in 1 .. Len(p) : p[i].last
    BY <1>1, <1>2 DEF HasLine, LineEnds
  <2>2. i \in 1 .. Len(p) + Len(q) /\ i <= Len(p)
    BY <1>1
  <2> QED
    BY <1>1, <2>1, <2>2 DEF HasLine, LineEnds
<1>3. ASSUME HasLine(q) PROVE HasLine(p \o q)
  <2>1. PICK i \in 1 .. Len(q) : q[i].last
    BY <1>1, <1>3 DEF HasLine, LineEnds
  <2>2. i + Len(p) \in 1 .. Len(p) + Len(q) /\ ~ (i + Len(p) <= Len(p)) /\ (i + Len(p)) - Len(p) = i
    BY <1>1
  <2> QED
    BY <1>1, <2>1, <2>2 DEF HasLine, LineEnds
<1>4. p \o << >> = p /\ << >> \o q = q
  OBVIOUS
<1> QED
  BY <1>1, <1>2, <1>3, <1>4

-----------------------------------------------------------------------------
(* What changes keep the invariant. *)

ServiceStates == Alive \cup {"none", "started", "gone"}

LEMMA NoLinkIs ==
  NoLink \in Links /\ NoLink.to = NoService /\ NoLink.at = NoAddress /\ NoLink.open = FALSE
  /\ NoLink.sending = << >> /\ NoLink.replies = << >>
BY DEF NoLink, Links

(* The call and the socket of one client change. *)
LEMMA ClientChanges ==
  ASSUME ControlInv, NEW c \in Clients, NEW k \in Calls, NEW l \in Links,
         call' = [call EXCEPT ![c] = k], link' = [link EXCEPT ![c] = l],
         UNCHANGED <<path, serving, cache, obeyed>>,
         inherited' \in {inherited, inherited \cup {c}},
         service' \in [Services -> ServiceStates],
         \A s \in Services : service'[s] = service[s]
                             \/ (service[s] = "none" /\ service'[s] = "started"),
         Joins(l), l.to = NoService => l.sending = << >>,
         k.phase \in {"new", "connecting"} => l = NoLink,
         \A d \in Clients : d # c => ~ SameSocket(l, link[d]),
         (\A s \in Services : serving[s] # c) \/ (l.to = link[c].to /\ l.at = link[c].at),
         PhaseFits(k, obeyed[c]), WaitFits(k, l, CachedOf(l)),
         c \notin inherited' => OwnLine(k, l, CachedOf(l), obeyed[c])
  PROVE  ControlInv'
<1>1. ControlTypeOK /\ LinksFit /\ ServingFits /\ LinesFit /\ CallsFit
  BY DEF ControlInv
<1>2. /\ \A d \in Clients : link'[d] = IF d = c THEN l ELSE link[d]
      /\ \A d \in Clients : call'[d] = IF d = c THEN k ELSE call[d]
  BY <1>1 DEF ControlTypeOK
<1>3. \A s \in Services : service[s] \in Alive => service'[s] \in Alive
  BY DEF Alive
<1>4. ControlTypeOK'
  BY <1>1 DEF ControlTypeOK, ServiceStates
<1>5. \A d \in Clients : Joins(link[d])'
  <2> SUFFICES ASSUME NEW d \in Clients, link'[d].to # NoService
               PROVE  service'[link'[d].to] \in Alive
    BY DEF Joins
  <2>1. link'[d].to \in Services
    BY <1>4 DEF ControlTypeOK, Links
  <2>2. service[link'[d].to] \in Alive
    BY <1>1, <1>2 DEF LinksFit, Joins
  <2> QED
    BY <1>3, <2>1, <2>2
<1>6. \A d, e \in Clients : SameSocket(link'[d], link'[e]) => d = e
  <2>1. \A d \in Clients : SameSocket(link[d], l) => SameSocket(l, link[d])
    BY DEF SameSocket
  <2> QED
    BY <1>1, <1>2, <2>1 DEF LinksFit
<1>7. LinksFit'
  <2>1. \A d \in Clients : /\ link'[d].to = NoService => link'[d].sending = << >>
                           /\ call'[d].phase \in {"new", "connecting"} => link'[d] = NoLink
    BY <1>1, <1>2 DEF LinksFit
  <2>2. \A d, e \in Clients : SameSocket(link[d], link[e])' => d = e
    BY <1>6 DEF SameSocket
  <2> QED
    BY <1>5, <2>1, <2>2 DEF LinksFit
<1>8. \A s \in Services : serving[s] # NoService =>
        /\ serving[s] \in Clients
        /\ link'[serving[s]].to = link[serving[s]].to
        /\ link'[serving[s]].at = link[serving[s]].at
  BY ZenonT(40), <1>1, <1>2 DEF ControlTypeOK
<1>9. ServingFits'
  BY <1>1, <1>8 DEF ServingFits
<1>10. LinesFit'
  <2>1. \A s \in Services : service'[s] # "gone" => service[s] # "gone"
    OBVIOUS
  <2> QED
    BY <1>1, <1>8, <2>1 DEF LinesFit
<1>11. \A d \in Clients : CachedOf(link[d])' = IF d = c THEN CachedOf(l) ELSE CachedOf(link[d])
  BY <1>2 DEF CachedOf
<1>12. CallsFit'
  <2> SUFFICES ASSUME NEW d \in Clients
               PROVE  /\ PhaseFits(call'[d], obeyed'[d])
                      /\ WaitFits(call'[d], link'[d], CachedOf(link[d])')
                      /\ d \notin inherited' =>
                           OwnLine(call'[d], link'[d], CachedOf(link[d])', obeyed'[d])
    BY DEF CallsFit, PhaseFits, WaitFits, OwnLine, Over, Unanswered, HasAnswer, Placed,
           Whole, Begun, Rest
  <2>1. CASE d = c
    BY <1>2, <1>11, <2>1
  <2>2. CASE d # c
    BY <1>1, <1>2, <1>11, <2>2 DEF CallsFit
  <2> QED
    BY <2>1, <2>2
<1> QED
  BY <1>4, <1>7, <1>9, <1>10, <1>12 DEF ControlInv

(* slotReady works on the socket of c, whose pieces in the cache are p now. *)
LEMMA SlotChanges ==
  ASSUME ControlInv, NEW s \in Services, NEW c \in Clients, NEW p \in Seq(Pieces),
         NEW l \in Links, NEW o \in Seq(Commands \cup {"num 0", "unknown"}),
         link[c].to = s, link[c].at # NoAddress, serving[s] \in {NoService, c},
         service[s] \in {"running", "quitting"},
         serving' = [serving EXCEPT ![s] = c],
         cache' = [cache EXCEPT ![s][link[c].at] = p],
         link' = [link EXCEPT ![c] = l], l.to = s, l.at = link[c].at,
         obeyed' = [obeyed EXCEPT ![c] = o],
         service' = service \/ service' = [service EXCEPT ![s] = "quitting"],
         UNCHANGED <<path, call, inherited>>,
         PhaseFits(call[c], o), WaitFits(call[c], l, p),
         c \notin inherited => OwnLine(call[c], l, p, o)
  PROVE  ControlInv'
<1> DEFINE a == link[c].at
<1>1. ControlTypeOK /\ LinksFit /\ ServingFits /\ LinesFit /\ CallsFit
  BY DEF ControlInv
<1>2. a \in Addresses /\ s # NoService
  BY <1>1, ServiceAssumption DEF ControlTypeOK, Links
<1>3. \A d \in Clients : link'[d] = IF d = c THEN l ELSE link[d]
  BY <1>1 DEF ControlTypeOK
<1>4. \A d \in Clients : link'[d].to = link[d].to /\ link'[d].at = link[d].at
  BY <1>3
<1>5. \A r \in Services, b \in Addresses :
        cache'[r][b] = IF r = s /\ b = a THEN p ELSE cache[r][b]
  BY <1>1, <1>2 DEF ControlTypeOK
<1>6. \A r \in Services : serving'[r] = IF r = s THEN c ELSE serving[r]
  BY <1>1 DEF ControlTypeOK
<1>7. \A d \in Clients : obeyed'[d] = IF d = c THEN o ELSE obeyed[d]
  BY <1>1 DEF ControlTypeOK
<1>8. /\ \A r \in Services : service'[r] = service[r] \/ (r = s /\ service'[r] = "quitting")
      /\ service' \in [Services -> ServiceStates]
  BY <1>1 DEF ControlTypeOK, ServiceStates, Alive
<1>9. cache' \in [Services -> [Addresses -> Seq(Pieces)]]
  <2>1. [cache[s] EXCEPT ![a] = p] \in [Addresses -> Seq(Pieces)]
    BY <1>1, <1>2 DEF ControlTypeOK
  <2> DEFINE m == [cache[s] EXCEPT ![a] = p]
  <2>2. cache' = [cache EXCEPT ![s] = m]
    OBVIOUS
  <2> HIDE DEF m
  <2>3. m \in [Addresses -> Seq(Pieces)]
    BY <2>1 DEF m
  <2> QED
    BY <1>1, <2>2, <2>3 DEF ControlTypeOK
<1>10. ControlTypeOK'
  BY <1>1, <1>8, <1>9 DEF ControlTypeOK, ServiceStates
<1> HIDE DEF a
<1>11. LinksFit'
  <2>1. \A d \in Clients : Joins(link[d])'
    <3> SUFFICES ASSUME NEW d \in Clients, link'[d].to # NoService
                 PROVE  service'[link'[d].to] \in Alive
      BY DEF Joins
    <3>1. link'[d].to \in Services /\ service[link'[d].to] \in Alive
      BY <1>1, <1>4 DEF ControlTypeOK, Links, LinksFit, Joins
    <3> QED
      BY <1>8, <3>1 DEF Alive
  <2>2. \A d, e \in Clients : SameSocket(link[d], link[e])' => d = e
    <3> SUFFICES ASSUME NEW d \in Clients, NEW e \in Clients, SameSocket(link[d], link[e])'
                 PROVE  d = e
      OBVIOUS
    <3>1. SameSocket(link[d], link[e])
      BY <1>4 DEF SameSocket
    <3> QED
      BY <1>1, <3>1 DEF LinksFit
  <2>3. \A d \in Clients : /\ link'[d].to = NoService => link'[d].sending = << >>
                           /\ call'[d].phase \in {"new", "connecting"} => link'[d] = NoLink
    <3> SUFFICES ASSUME NEW d \in Clients
                 PROVE  /\ link'[d].to = NoService => link'[d].sending = << >>
                        /\ call'[d].phase \in {"new", "connecting"} => link'[d] = NoLink
      OBVIOUS
    <3>1. CASE d # c
      BY <1>1, <1>3, <3>1 DEF LinksFit
    <3>2. CASE d = c
      <4>1. link[c] # NoLink
        BY <1>2, NoLinkIs
      <4>2. ~ (call[c].phase \in {"new", "connecting"})
        BY <1>1, <4>1 DEF LinksFit
      <4> QED
        BY <1>2, <1>3, <3>2, <4>2
    <3> QED
      BY <3>1, <3>2
  <2> QED
    BY <2>1, <2>2, <2>3 DEF LinksFit
<1>12. ServingFits'
  <2> SUFFICES ASSUME NEW r \in Services, serving'[r] # NoService
               PROVE  /\ service'[r] \in {"running", "quitting"}
                      /\ link'[serving'[r]].to = r /\ link'[serving'[r]].at # NoAddress
    BY DEF ServingFits
  <2>1. CASE r = s
    <3>1. serving'[r] = c /\ service'[r] \in {"running", "quitting"}
      BY <1>6, <1>8, <2>1
    <3> QED
      BY <1>4, <2>1, <3>1
  <2>2. CASE r # s
    <3>1. serving'[r] = serving[r] /\ service'[r] = service[r]
      BY <1>6, <1>8, <2>2
    <3>2. serving[r] \in Clients
      BY <1>1, <3>1 DEF ControlTypeOK
    <3>3. /\ service[r] \in {"running", "quitting"}
          /\ link[serving[r]].to = r /\ link[serving[r]].at # NoAddress
      BY <1>1, <3>1 DEF ServingFits
    <3> QED
      BY <1>4, <3>1, <3>2, <3>3
  <2> QED
    BY <2>1, <2>2
<1>13. LinesFit'
  <2> SUFFICES ASSUME NEW r \in Services, NEW b \in Addresses,
                      service'[r] # "gone", HasLine(cache'[r][b])
               PROVE  serving'[r] # NoService /\ link'[serving'[r]].at = b
    BY DEF LinesFit, HasLine, LineEnds
  <2>1. c # NoService
    BY ServiceAssumption
  <2>2. CASE r = s /\ b = a
    <3>1. serving'[r] = c /\ link'[c].at = a
      BY <1>4, <1>6, <2>2 DEF a
    <3> QED
      BY <2>1, <2>2, <3>1
  <2>3. CASE r = s /\ b # a
    <3>1. HasLine(cache[r][b]) /\ service[r] # "gone"
      BY <1>5, <2>3
    <3>2. serving[r] # NoService /\ link[serving[r]].at = b
      BY <1>1, <3>1 DEF LinesFit
    <3> QED
      BY <2>3, <3>2 DEF a
  <2>4. CASE r # s
    <3>1. HasLine(cache[r][b]) /\ service[r] # "gone" /\ serving'[r] = serving[r]
      BY <1>5, <1>6, <1>8, <2>4
    <3>2. serving[r] # NoService /\ link[serving[r]].at = b
      BY <1>1, <3>1 DEF LinesFit
    <3>3. serving[r] \in Clients
      BY <1>1, <3>2 DEF ControlTypeOK
    <3> QED
      BY <1>4, <3>1, <3>2, <3>3
  <2> QED
    BY <2>2, <2>3, <2>4
<1>14. \A d \in Clients : CachedOf(link[d])' = IF d = c THEN p ELSE CachedOf(link[d])
  <2> SUFFICES ASSUME NEW d \in Clients
               PROVE  CachedOf(link[d])' = IF d = c THEN p ELSE CachedOf(link[d])
    OBVIOUS
  <2>1. CASE d = c
    <3>1. link'[d].to = s /\ link'[d].at = a /\ a # NoAddress
      BY <1>3, <2>1 DEF a
    <3> QED
      BY <1>2, <1>5, <2>1, <3>1 DEF CachedOf
  <2>2. CASE d # c /\ (link[d].to = NoService \/ link[d].at = NoAddress)
    BY <1>4, <2>2 DEF CachedOf
  <2>3. CASE d # c /\ link[d].to # NoService /\ link[d].at # NoAddress
    <3>1. ~ (link[d].to = s /\ link[d].at = a)
      BY <1>1, <1>2, <2>3 DEF LinksFit, SameSocket, a
    <3>2. link[d].to \in Services /\ link[d].at \in Addresses
      BY <1>1, <2>3 DEF ControlTypeOK, Links
    <3>3. cache'[link[d].to][link[d].at] = cache[link[d].to][link[d].at]
      BY <1>5, <3>1, <3>2
    <3> QED
      BY <1>4, <2>3, <3>3 DEF CachedOf
  <2> QED
    BY <2>1, <2>2, <2>3
<1>15. CallsFit'
  <2> SUFFICES ASSUME NEW d \in Clients
               PROVE  /\ PhaseFits(call'[d], obeyed'[d])
                      /\ WaitFits(call'[d], link'[d], CachedOf(link[d])')
                      /\ d \notin inherited' =>
                           OwnLine(call'[d], link'[d], CachedOf(link[d])', obeyed'[d])
    BY DEF CallsFit, PhaseFits, WaitFits, OwnLine, Over, Unanswered, HasAnswer, Placed,
           Whole, Begun, Rest
  <2>1. CASE d = c
    BY <1>3, <1>7, <1>14, <2>1
  <2>2. CASE d # c
    <3>1. /\ call'[d] = call[d] /\ link'[d] = link[d] /\ obeyed'[d] = obeyed[d]
          /\ CachedOf(link[d])' = CachedOf(link[d]) /\ inherited' = inherited
      BY <1>3, <1>7, <1>14, <2>2
    <3>2. /\ PhaseFits(call[d], obeyed[d])
          /\ WaitFits(call[d], link[d], CachedOf(link[d]))
          /\ d \notin inherited => OwnLine(call[d], link[d], CachedOf(link[d]), obeyed[d])
      BY <1>1 DEF CallsFit
    <3> QED
      BY <3>1, <3>2
  <2> QED
    BY <2>1, <2>2
<1> QED
  BY <1>10, <1>11, <1>12, <1>13, <1>15 DEF ControlInv

LEMMA ResetIs ==
  ASSUME NEW l \in Links
  PROVE  LET m == [l EXCEPT !.to = NoService, !.sending = << >>] IN
         /\ m \in Links /\ m.at = l.at /\ m.replies = l.replies
         /\ m.to = NoService /\ m.sending = << >>
<1> DEFINE m == [l EXCEPT !.to = NoService, !.sending = << >>]
<1>1. << >> \in Seq(Pieces)
  OBVIOUS
<1>2. \A x \in Seq(Pieces) : LET n == [l EXCEPT !.to = NoService, !.sending = x] IN
        /\ n \in Links /\ n.at = l.at /\ n.replies = l.replies
        /\ n.to = NoService /\ n.sending = x
  BY DEF Links
<1> HIDE DEF m
<1> QED
  BY <1>1, <1>2 DEF m

(* The sockets of lost are reset: they are sockets of s, which closes them. *)
LEMMA Resets ==
  ASSUME ControlInv, NEW s \in Services, NEW lost, NEW x \in {"closed", "gone"},
         link' = Reset(lost), lost \subseteq SocketsOf(s), x = "gone" => lost = SocketsOf(s),
         service' = [service EXCEPT ![s] = x], x = "closed" => service[s] # "gone",
         serving' = [serving EXCEPT ![s] = NoService], x = "closed" => serving[s] = NoService,
         path' \in Services \cup {NoService},
         UNCHANGED <<call, cache, obeyed, inherited>>
  PROVE  ControlInv'
<1>1. ControlTypeOK /\ LinksFit /\ ServingFits /\ LinesFit /\ CallsFit
  BY DEF ControlInv
<1>2. s # NoService /\ \A d \in lost : d \in Clients /\ link[d].to = s
  BY ServiceAssumption DEF SocketsOf
<1>3. \A d \in Clients :
        /\ link'[d] \in Links /\ link'[d].at = link[d].at /\ link'[d].replies = link[d].replies
        /\ d \in lost => link'[d].to = NoService /\ link'[d].sending = << >>
        /\ d \notin lost => link'[d] = link[d]
  <2> SUFFICES ASSUME NEW d \in Clients
               PROVE  /\ link'[d] \in Links /\ link'[d].at = link[d].at
                      /\ link'[d].replies = link[d].replies
                      /\ d \in lost => link'[d].to = NoService /\ link'[d].sending = << >>
                      /\ d \notin lost => link'[d] = link[d]
    OBVIOUS
  <2>1. link[d] \in Links
    BY <1>1 DEF ControlTypeOK
  <2>2. link'[d] = IF d \in lost THEN [link[d] EXCEPT !.to = NoService, !.sending = << >>]
                   ELSE link[d]
    BY DEF Reset
  <2>3. CASE d \notin lost
    BY <2>1, <2>2, <2>3
  <2>4. CASE d \in lost
    <3> DEFINE m == [link[d] EXCEPT !.to = NoService, !.sending = << >>]
    <3>1. /\ m \in Links /\ m.at = link[d].at /\ m.replies = link[d].replies
          /\ m.to = NoService /\ m.sending = << >>
      BY <2>1, ResetIs
    <3>2. link'[d] = m
      BY <2>2, <2>4
    <3> HIDE DEF m
    <3> QED
      BY <2>4, <3>1, <3>2
  <2> QED
    BY <2>3, <2>4
<1>4. /\ \A r \in Services : service'[r] = IF r = s THEN x ELSE service[r]
      /\ \A r \in Services : serving'[r] = IF r = s THEN NoService ELSE serving[r]
  BY <1>1 DEF ControlTypeOK
<1>5. ControlTypeOK'
  <2>1. link' \in [Clients -> Links]
    <3>1. link' = [d \in Clients |-> link'[d]]
      BY DEF Reset
    <3> QED
      BY <1>3, <3>1
  <2>2. /\ service' \in [Services -> Alive \cup {"none", "started", "gone"}]
        /\ serving' \in [Services -> Clients \cup {NoService}]
    BY <1>1 DEF ControlTypeOK, Alive
  <2> QED
    BY <1>1, <2>1, <2>2 DEF ControlTypeOK
<1>6. LinksFit'
  <2>1. \A d \in Clients : Joins(link[d])'
    <3> SUFFICES ASSUME NEW d \in Clients, link'[d].to # NoService
                 PROVE  service'[link'[d].to] \in Alive
      BY DEF Joins
    <3>1. d \notin lost /\ link'[d] = link[d]
      BY <1>3
    <3>2. link[d].to \in Services /\ service[link[d].to] \in Alive
      BY <1>1, <3>1 DEF ControlTypeOK, Links, LinksFit, Joins
    <3>3. link[d].to = s => x = "closed"
      BY <3>1 DEF SocketsOf
    <3> QED
      BY <1>4, <3>1, <3>2, <3>3 DEF Alive
  <2>2. \A d, e \in Clients : SameSocket(link[d], link[e])' => d = e
    <3> SUFFICES ASSUME NEW d \in Clients, NEW e \in Clients, SameSocket(link'[d], link'[e])
                 PROVE  d = e
      BY DEF SameSocket
    <3>1. link'[d] = link[d] /\ link'[e] = link[e]
      BY <1>3 DEF SameSocket
    <3> QED
      BY <1>1, <3>1 DEF LinksFit
  <2>3. \A d \in Clients : link'[d].to = NoService => link'[d].sending = << >>
    BY <1>1, <1>3 DEF LinksFit
  <2>4. \A d \in Clients : call'[d].phase \in {"new", "connecting"} => link'[d] = NoLink
    <3> SUFFICES ASSUME NEW d \in Clients, call[d].phase \in {"new", "connecting"}
                 PROVE  link'[d] = NoLink
      OBVIOUS
    <3>1. link[d] = NoLink
      BY <1>1 DEF LinksFit
    <3>2. d \notin lost
      BY <1>2, <3>1, NoLinkIs
    <3> QED
      BY <1>3, <3>1, <3>2
  <2> QED
    BY <2>1, <2>2, <2>3, <2>4 DEF LinksFit
<1>7. \A r \in Services : r # s /\ serving[r] # NoService =>
        /\ serving[r] \in Clients /\ link'[serving[r]] = link[serving[r]]
  <2> SUFFICES ASSUME NEW r \in Services, r # s, serving[r] # NoService
               PROVE  serving[r] \in Clients /\ link'[serving[r]] = link[serving[r]]
    OBVIOUS
  <2>1. serving[r] \in Clients
    BY <1>1 DEF ControlTypeOK
  <2>2. link[serving[r]].to = r
    BY <1>1 DEF ServingFits
  <2> QED
    BY <1>2, <1>3, <2>1, <2>2
<1>8. ServingFits'
  BY <1>1, <1>4, <1>7 DEF ServingFits
<1>9. LinesFit'
  <2> SUFFICES ASSUME NEW r \in Services, NEW b \in Addresses,
                      service'[r] # "gone", HasLine(cache[r][b])
               PROVE  serving'[r] # NoService /\ link'[serving'[r]].at = b
    BY DEF LinesFit, HasLine, LineEnds
  <2>1. service[r] # "gone"
    BY <1>4
  <2>2. serving[r] # NoService /\ link[serving[r]].at = b
    BY <1>1, <2>1 DEF LinesFit
  <2>3. r # s
    BY <1>4, <2>2
  <2> QED
    BY <1>4, <1>7, <2>2, <2>3
<1>10. CallsFit'
  <2> SUFFICES ASSUME NEW d \in Clients
               PROVE  /\ PhaseFits(call'[d], obeyed'[d])
                      /\ WaitFits(call'[d], link'[d], CachedOf(link[d])')
                      /\ d \notin inherited' =>
                           OwnLine(call'[d], link'[d], CachedOf(link[d])', obeyed'[d])
    BY DEF CallsFit, PhaseFits, WaitFits, OwnLine, Over, Unanswered, HasAnswer, Placed,
           Whole, Begun, Rest
  <2>1. /\ PhaseFits(call[d], obeyed[d])
        /\ WaitFits(call[d], link[d], CachedOf(link[d]))
        /\ d \notin inherited => OwnLine(call[d], link[d], CachedOf(link[d]), obeyed[d])
    BY <1>1 DEF CallsFit
  <2>2. CASE d \in lost
    <3>1. WaitFits(call[d], link'[d], CachedOf(link[d])')
      BY <1>3, <2>2 DEF WaitFits
    <3>2. d \notin inherited => Over(call[d], link'[d], obeyed[d])
      <4> SUFFICES ASSUME d \notin inherited PROVE Over(call[d], link'[d], obeyed[d])
        OBVIOUS
      <4>1. link[d].to # NoService /\ link'[d].replies = link[d].replies
        BY <1>2, <1>3, <2>2
      <4>2. \/ Unanswered(call[d], link[d], CachedOf(link[d]), obeyed[d])
            \/ HasAnswer(call[d], link[d], CachedOf(link[d]), obeyed[d])
        BY <2>1, <4>1 DEF OwnLine
      <4>3. <<TRUE>> # << >> /\ <<TRUE>> # <<FALSE>> /\ <<CommandOf(call[d].operation)>> # << >>
        OBVIOUS
      <4> QED
        BY <4>1, <4>2, <4>3 DEF Over, Unanswered, HasAnswer
    <3>3. d \notin inherited => OwnLine(call[d], link'[d], CachedOf(link[d])', obeyed[d])
      BY <1>3, <2>1, <2>2, <3>2 DEF OwnLine
    <3> QED
      BY <2>1, <3>1, <3>3
  <2>3. CASE d \notin lost
    <3>1. link'[d] = link[d] /\ CachedOf(link[d])' = CachedOf(link[d])
      BY <1>3, <2>3 DEF CachedOf
    <3> QED
      BY <2>1, <3>1
  <2> QED
    BY <2>2, <2>3
<1> QED
  BY <1>5, <1>6, <1>8, <1>9, <1>10 DEF ControlInv

(* Only what s does changes. *)
LEMMA ServiceMoves ==
  ASSUME ControlInv, NEW s \in Services, NEW x \in ServiceStates,
         UNCHANGED <<call, link, cache, obeyed, inherited>>,
         path' \in Services \cup {NoService},
         service' = [service EXCEPT ![s] = x], service[s] # "gone",
         service[s] \in Alive => x \in Alive,
         \/ serving' = serving /\ (serving[s] # NoService => x \in {"running", "quitting"})
         \/ /\ serving' = [serving EXCEPT ![s] = NoService]
            /\ \A a \in Addresses : ~ HasLine(cache[s][a])
  PROVE  ControlInv'
<1>1. ControlTypeOK /\ LinksFit /\ ServingFits /\ LinesFit /\ CallsFit
  BY DEF ControlInv
<1>2. \A r \in Services : service'[r] = IF r = s THEN x ELSE service[r]
  BY <1>1 DEF ControlTypeOK
<1>3. \A r \in Services : \/ serving'[r] = serving[r] /\ (r = s /\ serving[s] # NoService
                                                            => x \in {"running", "quitting"})
                          \/ serving'[r] = NoService /\ r = s
                             /\ \A a \in Addresses : ~ HasLine(cache[s][a])
  BY <1>1 DEF ControlTypeOK
<1>4. ControlTypeOK'
  BY <1>1 DEF ControlTypeOK, ServiceStates
<1>5. LinksFit'
  <2>1. \A d \in Clients : Joins(link[d])'
    <3> SUFFICES ASSUME NEW d \in Clients, link[d].to # NoService
                 PROVE  service'[link[d].to] \in Alive
      BY DEF Joins
    <3>1. link[d].to \in Services /\ service[link[d].to] \in Alive
      BY <1>1 DEF ControlTypeOK, Links, LinksFit, Joins
    <3> QED
      BY <1>2, <3>1
  <2>2. \A d, e \in Clients : SameSocket(link[d], link[e])' => d = e
    BY <1>1 DEF LinksFit, SameSocket
  <2>3. \A d \in Clients : /\ link'[d].to = NoService => link'[d].sending = << >>
                           /\ call'[d].phase \in {"new", "connecting"} => link'[d] = NoLink
    BY <1>1 DEF LinksFit
  <2> QED
    BY <2>1, <2>2, <2>3 DEF LinksFit
<1>6. ServingFits'
  <2> SUFFICES ASSUME NEW r \in Services, serving'[r] # NoService
               PROVE  /\ service'[r] \in {"running", "quitting"}
                      /\ link[serving'[r]].to = r /\ link[serving'[r]].at # NoAddress
    BY DEF ServingFits
  <2>1. serving'[r] = serving[r] /\ (r = s => x \in {"running", "quitting"})
    BY <1>3
  <2> QED
    BY <1>1, <1>2, <2>1 DEF ServingFits
<1>7. LinesFit'
  <2> SUFFICES ASSUME NEW r \in Services, NEW b \in Addresses,
                      service'[r] # "gone", HasLine(cache[r][b])
               PROVE  serving'[r] # NoService /\ link[serving'[r]].at = b
    BY DEF LinesFit, HasLine, LineEnds
  <2>1. service[r] # "gone"
    BY <1>2
  <2>2. serving'[r] = serving[r]
    BY <1>3
  <2> QED
    BY <1>1, <2>1, <2>2 DEF LinesFit
<1>8. CallsFit'
  <2>1. \A d \in Clients : CachedOf(link[d])' = CachedOf(link[d])
    BY DEF CachedOf
  <2> SUFFICES ASSUME NEW d \in Clients
               PROVE  /\ PhaseFits(call'[d], obeyed'[d])
                      /\ WaitFits(call'[d], link'[d], CachedOf(link[d])')
                      /\ d \notin inherited' =>
                           OwnLine(call'[d], link'[d], CachedOf(link[d])', obeyed'[d])
    BY DEF CallsFit, PhaseFits, WaitFits, OwnLine, Over, Unanswered, HasAnswer, Placed,
           Whole, Begun, Rest
  <2> QED
    BY <1>1, <2>1 DEF CallsFit
<1> QED
  BY <1>4, <1>5, <1>6, <1>7, <1>8 DEF ControlInv

-----------------------------------------------------------------------------
(* What the invariant says of one client. *)

LEMMA ClientIs ==
  ASSUME ControlInv, NEW c \in Clients
  PROVE  /\ call[c] \in Calls /\ link[c] \in Links /\ Joins(link[c])
         /\ link[c].to = NoService => link[c].sending = << >>
         /\ call[c].phase \in {"new", "connecting"} => link[c] = NoLink
         /\ \A d \in Clients : d # c => ~ SameSocket(link[c], link[d])
         /\ PhaseFits(call[c], obeyed[c])
         /\ WaitFits(call[c], link[c], CachedOf(link[c]))
         /\ c \notin inherited => OwnLine(call[c], link[c], CachedOf(link[c]), obeyed[c])
         /\ obeyed[c] \in Seq(Commands \cup {"num 0", "unknown"})
         /\ call = [call EXCEPT ![c] = call[c]] /\ link = [link EXCEPT ![c] = link[c]]
BY DEF ControlInv, ControlTypeOK, LinksFit, CallsFit

(* Returns and GoOn replace the call of the client. *)
LEMMA ReturnsIs ==
  ASSUME ControlInv, NEW c \in Clients, NEW told \in BOOLEAN, Returns(c, told)
  PROVE  \E k \in Calls : /\ call' = [call EXCEPT ![c] = k]
                          /\ k.operation = call[c].operation /\ k.phase = "returned"
                          /\ k.told = told
<1> DEFINE k == [call[c] EXCEPT !.phase = "returned", !.told = told]
<1>1. call[c] \in Calls /\ "returned" \in Phases
  BY ClientIs DEF Phases
<1>2. /\ k \in Calls /\ k.operation = call[c].operation /\ k.phase = "returned"
      /\ k.told = told
  BY <1>1 DEF Calls
<1>3. call' = [call EXCEPT ![c] = k]
  BY DEF Returns
<1> HIDE DEF k
<1> QED
  BY <1>2, <1>3

LEMMA NotRunningIs ==
  ASSUME ControlInv, NEW c \in Clients, NotRunning(c), call[c].phase # "returned"
  PROVE  \E k \in Calls :
           /\ call' = [call EXCEPT ![c] = k]
           /\ k.operation = call[c].operation /\ ~ k.told
           /\ \/ k.phase = "starting" /\ k.operation \in {"start", "exec"}
              \/ k.phase = "returned"
<1>1. CASE call[c].operation \in {"start", "exec"}
  <2> DEFINE k == [call[c] EXCEPT !.phase = "starting"]
  <2>1. call[c] \in Calls /\ "starting" \in Phases /\ ~ call[c].told
    BY ClientIs DEF Phases, PhaseFits
  <2>2. k \in Calls /\ k.operation = call[c].operation /\ k.phase = "starting" /\ ~ k.told
    BY <2>1 DEF Calls
  <2>3. call' = [call EXCEPT ![c] = k]
    BY <1>1 DEF NotRunning, GoOn
  <2> HIDE DEF k
  <2> QED
    BY <1>1, <2>2, <2>3
<1>2. CASE call[c].operation \notin {"start", "exec"}
  <2>1. Returns(c, FALSE)
    BY <1>2 DEF NotRunning
  <2> QED
    BY <2>1, ReturnsIs
<1> QED
  BY <1>1, <1>2

(* The client speaks through the socket it has. *)
LEMMA CallChanges ==
  ASSUME ControlInv, NEW c \in Clients, NEW k \in Calls, NEW l \in Links,
         call' = [call EXCEPT ![c] = k], link' = [link EXCEPT ![c] = l],
         l.to = link[c].to, l.at = link[c].at,
         UNCHANGED <<path, serving, cache, obeyed, inherited>>,
         \/ service' = service
         \/ \E s \in Services : service[s] = "none"
                                /\ service' = [service EXCEPT ![s] = "started"],
         l.to = NoService => l.sending = << >>,
         k.phase \in {"new", "connecting"} => l = NoLink,
         PhaseFits(k, obeyed[c]), WaitFits(k, l, CachedOf(link[c])),
         c \notin inherited => OwnLine(k, l, CachedOf(link[c]), obeyed[c])
  PROVE  ControlInv'
<1>1. service \in [Services -> ServiceStates]
  BY DEF ControlInv, ControlTypeOK, ServiceStates
<1>2. /\ service' \in [Services -> ServiceStates]
      /\ \A s \in Services : service'[s] = service[s]
                             \/ (service[s] = "none" /\ service'[s] = "started")
  BY <1>1 DEF ServiceStates
<1>3. CachedOf(l) = CachedOf(link[c])
  BY DEF CachedOf
<1>4. Joins(link[c]) /\ \A d \in Clients : d # c => ~ SameSocket(link[c], link[d])
  BY ClientIs
<1>5. Joins(l) /\ \A d \in Clients : d # c => ~ SameSocket(l, link[d])
  BY <1>4 DEF Joins, SameSocket
<1> QED
  BY <1>2, <1>3, <1>5, ClientChanges

(* A call that neither writes nor waits leaves its line where it is. *)
LEMMA OwnLineStays ==
  ASSUME NEW k, NEW l, NEW p, NEW o, NEW m, NEW n, OwnLine(k, l, p, o),
         m.operation = k.operation, m.phase \notin {"writing", "waiting"},
         n.to = l.to, n.sending = l.sending, n.replies = l.replies,
         m.told /\ m.operation \in Sending \ {"exec"} => o # << >>
  PROVE  OwnLine(m, n, p, o)
<1>1. Over(k, l, o) => Over(m, n, o)
  BY DEF Over
<1>2. Unanswered(k, l, p, o) => Unanswered(m, n, p, o)
  <2>1. \A i \in {0, 1, 2} : Placed(k, i, p, l.sending) => Placed(m, i, p, n.sending)
    BY DEF Placed, Begun, Rest, Whole
  <2> QED
    BY <2>1 DEF Unanswered
<1>3. HasAnswer(k, l, p, o) => HasAnswer(m, n, p, o)
  BY DEF HasAnswer
<1> QED
  BY <1>1, <1>2, <1>3 DEF OwnLine

LEMMA ClosedIs ==
  ASSUME ControlInv, NEW c \in Clients, Closed(c)
  PROVE  \E l \in Links :
           /\ link' = [link EXCEPT ![c] = l] /\ l.to = link[c].to /\ l.at = link[c].at
           /\ l.sending = link[c].sending /\ l.replies = link[c].replies
<1> DEFINE l == [link[c] EXCEPT !.open = FALSE]
<1>1. link[c] \in Links
  BY ClientIs
<1>2. /\ l \in Links /\ l.to = link[c].to /\ l.at = link[c].at
      /\ l.sending = link[c].sending /\ l.replies = link[c].replies
  BY <1>1 DEF Links
<1>3. link' = [link EXCEPT ![c] = l]
  BY DEF Closed
<1> HIDE DEF l
<1> QED
  BY <1>2, <1>3

(* A call that ends, or gives up its socket. *)
LEMMA CallEnds ==
  ASSUME ControlInv, NEW c \in Clients, NEW k \in Calls, NEW l \in Links,
         call' = [call EXCEPT ![c] = k], link' = [link EXCEPT ![c] = l],
         l.to = link[c].to, l.at = link[c].at,
         l.sending = link[c].sending, l.replies = link[c].replies,
         UNCHANGED <<path, serving, cache, obeyed, inherited>>,
         \/ service' = service
         \/ \E s \in Services : service[s] = "none"
                                /\ service' = [service EXCEPT ![s] = "started"],
         k.operation = call[c].operation,
         k.phase \in {"starting", "returned", "killed"},
         k.phase = "starting" => k.operation \in {"start", "exec"},
         k.phase # "returned" => ~ k.told,
         c \notin inherited /\ k.told /\ k.operation \in Sending \ {"exec"} => obeyed[c] # << >>
  PROVE  ControlInv'
<1>1. PhaseFits(k, obeyed[c])
  BY DEF PhaseFits
<1>2. WaitFits(k, l, CachedOf(link[c]))
  BY DEF WaitFits
<1>3. c \notin inherited => OwnLine(k, l, CachedOf(link[c]), obeyed[c])
  <2>1. c \notin inherited => OwnLine(call[c], link[c], CachedOf(link[c]), obeyed[c])
    BY ClientIs
  <2> QED
    BY <2>1, OwnLineStays
<1>4. l.to = NoService => l.sending = << >>
  BY ClientIs
<1> QED
  BY <1>1, <1>2, <1>3, <1>4, CallChanges

-----------------------------------------------------------------------------
(* The steps of a client. *)

LEMMA CommandIs ==
  ASSUME NEW operation \in Sending
  PROVE  CommandOf(operation) \in Commands
BY DEF CommandOf, Sending, Commands

LEMMA BeginKeeps ==
  ASSUME ControlInv, NEW c \in Clients, NEW operation \in Uses[c], Begin(c, operation)
  PROVE  ControlInv'
<1> DEFINE unsent == IF operation \in Sending THEN Line(CommandOf(operation)) ELSE << >>
           phase == IF MayGoOn(operation) THEN "connecting" ELSE "returned"
           k == [operation |-> operation, told |-> FALSE, unsent |-> unsent, phase |-> phase]
<1>1. /\ call[c].phase = "new" /\ call' = [call EXCEPT ![c] = k]
      /\ UNCHANGED <<path, service, serving, cache, link, obeyed, inherited>>
  BY DEF Begin, processVars, historyVars
<1>2. operation \in Sending \cup Checking
  BY ServiceAssumption
<1>3. unsent \in Seq(Pieces)
  <2>1. << >> \in Seq(Pieces)
    OBVIOUS
  <2>2. operation \in Sending => Line(CommandOf(operation)) \in Seq(Pieces)
    BY CommandIs, LineIs
  <2> QED
    BY <2>1, <2>2
<1>4. /\ operation \in Sending => unsent = Line(CommandOf(operation))
      /\ phase \in {"connecting", "returned"}
  OBVIOUS
<1> HIDE DEF unsent, phase
<1>5. /\ k \in Calls /\ k.operation = operation /\ k.told = FALSE /\ k.unsent = unsent
      /\ k.phase = phase
  BY <1>2, <1>3, <1>4 DEF Calls, Phases
<1> HIDE DEF k
<1>6. link[c] = NoLink /\ obeyed[c] = << >> /\ link[c] \in Links
  BY <1>1, ClientIs DEF PhaseFits
<1>7. link' = [link EXCEPT ![c] = link[c]]
  BY <1>1, ClientIs
<1>8. PhaseFits(k, obeyed[c])
  BY <1>4, <1>5, <1>6 DEF PhaseFits, Whole
<1>9. WaitFits(k, link[c], CachedOf(link[c]))
  BY <1>4, <1>5 DEF WaitFits
<1>10. OwnLine(k, link[c], CachedOf(link[c]), obeyed[c])
  BY <1>5, <1>6, NoLinkIs DEF OwnLine, Over
<1> QED
  BY <1>1, <1>5, <1>6, <1>7, <1>8, <1>9, <1>10, ClientIs, CallChanges

LEMMA ConnectKeeps ==
  ASSUME ControlInv, NEW c \in Clients, connectTo(c)
  PROVE  ControlInv'
<1>1. /\ call[c].phase = "connecting"
      /\ UNCHANGED <<path, service, serving, cache, obeyed, inherited>>
  BY DEF connectTo, processVars, historyVars
<1>2. /\ link[c] = NoLink /\ obeyed[c] = << >> /\ ~ call[c].told /\ call[c] \in Calls
      /\ call[c].operation \in Sending => call[c].unsent = Whole(call[c])
  BY <1>1, ClientIs DEF PhaseFits
<1>3. CASE path # NoService /\ Listens(path)
  <2> DEFINE phase == IF call[c].operation \in Checking THEN "found" ELSE "writing"
             k == [call[c] EXCEPT !.phase = phase]
             l == [NoLink EXCEPT !.to = path, !.open = TRUE]
  <2>1. call' = [call EXCEPT ![c] = k] /\ link' = [link EXCEPT ![c] = l]
    BY <1>3 DEF connectTo, GoOn
  <2>2. /\ path \in Services /\ service[path] \in Alive
        /\ service \in [Services -> ServiceStates]
    BY <1>3 DEF ControlInv, ControlTypeOK, Listens, Alive, ServiceStates
  <2>3. /\ l \in Links /\ l.to = path /\ l.at = NoAddress /\ l.sending = << >>
        /\ l.replies = << >>
    BY <2>2, NoLinkIs DEF Links
  <2>4. /\ phase \in {"found", "writing"}
        /\ phase = "found" => call[c].operation \in Checking
        /\ phase = "writing" => call[c].operation \in Sending
    <3>1. call[c].operation \in Sending \cup Checking
      BY <1>2 DEF Calls
    <3> QED
      BY <3>1
  <2> HIDE DEF phase, l
  <2>5. /\ k \in Calls /\ k.operation = call[c].operation /\ k.phase = phase
        /\ k.unsent = call[c].unsent /\ ~ k.told
    BY <1>2, <2>4 DEF Calls, Phases
  <2> HIDE DEF k
  <2>6. CachedOf(l) = << >>
    BY <2>3 DEF CachedOf
  <2>7. PhaseFits(k, obeyed[c])
    BY <1>2, <2>4, <2>5 DEF PhaseFits, Whole
  <2>8. WaitFits(k, l, CachedOf(l))
    BY <2>4, <2>5 DEF WaitFits
  <2>9. OwnLine(k, l, CachedOf(l), obeyed[c])
    <3>1. Placed(k, 0, << >>, << >>)
      BY DEF Placed
    <3>2. k.phase = "writing" => k.unsent = Whole(k)
      BY <1>2, <2>4, <2>5 DEF Whole
    <3>3. Unanswered(k, l, << >>, obeyed[c])
      BY <1>2, <2>3, <2>4, <2>5, <3>1, <3>2 DEF Unanswered
    <3> QED
      BY <2>2, <2>3, <2>5, <2>6, <3>3, ServiceAssumption DEF OwnLine
  <2>10. \A s \in Services : serving[s] # c
    BY <1>2, NoLinkIs, ServiceAssumption DEF ControlInv, ServingFits
  <2>11. Joins(l) /\ \A d \in Clients : d # c => ~ SameSocket(l, link[d])
    BY <2>2, <2>3 DEF Joins, SameSocket
  <2>12. path # NoService
    BY <1>3
  <2> QED
    BY <1>1, <2>1, <2>2, <2>3, <2>4, <2>5, <2>7, <2>8, <2>9, <2>10, <2>11, <2>12,
       ClientChanges
<1>4. CASE ~ (path # NoService /\ Listens(path))
  <2>1. NotRunning(c) /\ link' = link
    BY <1>4 DEF connectTo
  <2>2. PICK k \in Calls :
           /\ call' = [call EXCEPT ![c] = k]
           /\ k.operation = call[c].operation /\ ~ k.told
           /\ \/ k.phase = "starting" /\ k.operation \in {"start", "exec"}
              \/ k.phase = "returned"
    BY <1>1, <2>1, NotRunningIs
  <2>3. link' = [link EXCEPT ![c] = link[c]] /\ link[c] \in Links
    BY <2>1, ClientIs
  <2> QED
    BY <1>1, <2>2, <2>3, CallEnds
<1> QED
  BY <1>3, <1>4

LEMMA FoundKeeps ==
  ASSUME ControlInv, NEW c \in Clients, Found(c)
  PROVE  ControlInv'
<1>1. /\ call[c].phase = "found" /\ Closed(c) /\ Returns(c, call[c].operation = "version")
      /\ UNCHANGED <<path, service, serving, cache, obeyed, inherited>>
  BY DEF Found, processVars, historyVars
<1>2. PICK k \in Calls : /\ call' = [call EXCEPT ![c] = k]
                         /\ k.operation = call[c].operation /\ k.phase = "returned"
  BY <1>1, ReturnsIs
<1>3. PICK l \in Links :
        /\ link' = [link EXCEPT ![c] = l] /\ l.to = link[c].to /\ l.at = link[c].at
        /\ l.sending = link[c].sending /\ l.replies = link[c].replies
  BY <1>1, ClosedIs
<1>4. k.operation \notin Sending
  BY <1>1, <1>2, ClientIs DEF PhaseFits, Checking, Sending
<1> QED
  BY <1>1, <1>2, <1>3, <1>4, CallEnds

LEMMA ReadReplyKeeps ==
  ASSUME ControlInv, NEW c \in Clients, ReadReply(c)
  PROVE  ControlInv'
<1>1. /\ call[c].phase = "waiting" /\ Closed(c)
      /\ UNCHANGED <<path, service, serving, cache, obeyed, inherited>>
  BY DEF ReadReply, processVars, historyVars
<1>2. PICK l \in Links :
        /\ link' = [link EXCEPT ![c] = l] /\ l.to = link[c].to /\ l.at = link[c].at
        /\ l.sending = link[c].sending /\ l.replies = link[c].replies
  BY <1>1, ClosedIs
<1>3. CASE link[c].replies = <<TRUE>>
  <2>1. Returns(c, call[c].operation # "exec")
    BY <1>3 DEF ReadReply
  <2>2. PICK k \in Calls : /\ call' = [call EXCEPT ![c] = k]
                           /\ k.operation = call[c].operation /\ k.phase = "returned"
    BY <2>1, ReturnsIs
  <2>3. c \notin inherited => obeyed[c] # << >>
    <3> SUFFICES ASSUME c \notin inherited PROVE obeyed[c] # << >>
      OBVIOUS
    <3>1. OwnLine(call[c], link[c], CachedOf(link[c]), obeyed[c])
      BY ClientIs
    <3>2. <<TRUE>> # << >> /\ <<TRUE>> # <<FALSE>> /\ <<CommandOf(call[c].operation)>> # << >>
      OBVIOUS
    <3> QED
      BY <1>3, <3>1, <3>2 DEF OwnLine, Over, Unanswered, HasAnswer
  <2> QED
    BY <1>1, <1>2, <2>2, <2>3, CallEnds
<1>4. CASE link[c].replies # <<TRUE>>
  <2>1. NotRunning(c)
    BY <1>4 DEF ReadReply
  <2>2. PICK k \in Calls :
           /\ call' = [call EXCEPT ![c] = k]
           /\ k.operation = call[c].operation /\ ~ k.told
           /\ \/ k.phase = "starting" /\ k.operation \in {"start", "exec"}
              \/ k.phase = "returned"
    BY <1>1, <2>1, NotRunningIs
  <2> QED
    BY <1>1, <1>2, <2>2, CallEnds
<1> QED
  BY <1>3, <1>4

LEMMA StartKeeps ==
  ASSUME ControlInv, NEW c \in Clients, Start(c)
  PROVE  ControlInv'
<1>1. /\ call[c].phase = "starting"
      /\ UNCHANGED <<path, serving, cache, link, obeyed, inherited>>
      /\ Returns(c, TRUE) \/ Returns(c, FALSE)
      /\ \/ service' = service
         \/ \E s \in Services : service[s] = "none"
                                /\ service' = [service EXCEPT ![s] = "started"]
  BY DEF Start, historyVars
<1>2. PICK k \in Calls : /\ call' = [call EXCEPT ![c] = k]
                         /\ k.operation = call[c].operation /\ k.phase = "returned"
                         /\ k.told \/ ~ k.told
  BY <1>1, ReturnsIs
<1>3. link' = [link EXCEPT ![c] = link[c]] /\ link[c] \in Links
  BY <1>1, ClientIs
<1>4. k.told => k.operation \notin Sending \ {"exec"}
  BY <1>1, <1>2, ClientIs DEF PhaseFits, Sending
<1> QED
  BY <1>1, <1>2, <1>3, <1>4, CallEnds

LEMMA KillClientKeeps ==
  ASSUME ControlInv, NEW c \in Clients, KillClient(c)
  PROVE  ControlInv'
<1> DEFINE k == [call[c] EXCEPT !.phase = "killed", !.unsent = << >>]
<1>1. /\ call[c].phase \in {"writing", "waiting"} /\ Closed(c)
      /\ UNCHANGED <<path, service, serving, cache, obeyed, inherited>>
      /\ call' = [call EXCEPT ![c] = k]
  BY DEF KillClient, processVars, historyVars
<1>2. PICK l \in Links :
        /\ link' = [link EXCEPT ![c] = l] /\ l.to = link[c].to /\ l.at = link[c].at
        /\ l.sending = link[c].sending /\ l.replies = link[c].replies
  BY <1>1, ClosedIs
<1>3. << >> \in Seq(Pieces) /\ call[c] \in Calls /\ ~ call[c].told
  <2>1. << >> \in Seq(Pieces)
    OBVIOUS
  <2>2. PhaseFits(call[c], obeyed[c]) /\ call[c] \in Calls
    BY ClientIs
  <2>3. call[c].phase # "returned"
    BY <1>1
  <2> QED
    BY <2>1, <2>2, <2>3 DEF PhaseFits
<1>4. k \in Calls /\ k.operation = call[c].operation /\ k.phase = "killed" /\ ~ k.told
  BY <1>3 DEF Calls, Phases
<1> HIDE DEF k
<1> QED
  BY <1>1, <1>2, <1>4, CallEnds

(* A piece of the line is written; it is lost when the socket was reset. *)
LEMMA WriteKeeps ==
  ASSUME ControlInv, NEW c \in Clients, WriteCommand(c)
  PROVE  ControlInv'
<1> DEFINE piece == Head(call[c].unsent)
           left == Tail(call[c].unsent)
           phase == IF Len(call[c].unsent) = 1 THEN "waiting" ELSE "writing"
           sending == IF link[c].to = NoService THEN link[c].sending
                      ELSE Append(link[c].sending, piece)
           k == [call[c] EXCEPT !.unsent = left, !.phase = phase]
           l == [link[c] EXCEPT !.sending = sending]
           w == Whole(call[c])
<1>1. /\ call[c].phase = "writing"
      /\ UNCHANGED <<path, service, serving, cache, obeyed, inherited>>
      /\ call' = [call EXCEPT ![c] = k] /\ link' = [link EXCEPT ![c] = l]
  BY DEF WriteCommand, processVars, historyVars
<1>2. /\ call[c] \in Calls /\ link[c] \in Links /\ ~ call[c].told
      /\ call[c].operation \in Sending /\ call[c].unsent \in {w, Rest(call[c])}
      /\ link[c].to = NoService => link[c].sending = << >>
      /\ link[c].sending \in Seq(Pieces)
  BY <1>1, ClientIs DEF PhaseFits, Links
<1>3. PICK f \in Pieces, g \in Pieces :
        /\ w = <<f, g>> /\ w[1] = f /\ w[2] = g /\ <<g>> # w /\ HasLine(<<g>>)
        /\ w \in Seq(Pieces) /\ <<f>> \in Seq(Pieces) /\ <<g>> \in Seq(Pieces)
        /\ Append(<< >>, f) = <<f>> /\ Append(<<f>>, g) = w /\ Append(<< >>, g) = <<g>>
        /\ Head(w) = f /\ Tail(w) = <<g>> /\ Head(<<g>>) = g /\ Tail(<<g>>) = << >>
        /\ Len(w) = 2 /\ Len(<<g>>) = 1 /\ << >> \in Seq(Pieces)
  <2> DEFINE d == CommandOf(call[c].operation)
             f == [of |-> d, last |-> FALSE]
             g == [of |-> d, last |-> TRUE]
  <2>1. d \in Commands
    BY <1>2, CommandIs
  <2>2. HasLine(<<Line(d)[2]>>)
    BY <2>1, LinesEnd
  <2>3. w = Line(d)
    BY DEF Whole
  <2> HIDE DEF d, w
  <2>4. /\ f \in Pieces /\ g \in Pieces /\ Line(d) = <<f, g>>
        /\ Line(d)[1] = f /\ Line(d)[2] = g /\ <<g>> # Line(d)
        /\ Line(d) \in Seq(Pieces) /\ <<f>> \in Seq(Pieces) /\ <<g>> \in Seq(Pieces)
        /\ Append(<< >>, f) = <<f>> /\ Append(<<f>>, g) = Line(d)
        /\ Head(Line(d)) = f /\ Tail(Line(d)) = <<g>>
        /\ Head(<<g>>) = g /\ Tail(<<g>>) = << >> /\ Len(Line(d)) = 2 /\ Len(<<g>>) = 1
    BY <2>1, LineIs
  <2> HIDE DEF f, g
  <2>5. Append(<< >>, g) = <<g>> /\ << >> \in Seq(Pieces)
    BY <2>4
  <2> QED
    BY <2>2, <2>3, <2>4, <2>5
<1>4. Begun(call[c]) = <<f>> /\ Rest(call[c]) = <<g>>
  BY <1>3 DEF Begun, Rest
<1> HIDE DEF w
<1>5. \/ /\ call[c].unsent = w /\ piece = f /\ left = <<g>> /\ phase = "writing"
      \/ /\ call[c].unsent = <<g>> /\ piece = g /\ left = << >> /\ phase = "waiting"
  <2>1. call[c].unsent = w \/ call[c].unsent = <<g>>
    BY <1>2, <1>4
  <2>2. /\ call[c].unsent = w => Head(call[c].unsent) = f /\ Tail(call[c].unsent) = <<g>>
        /\ call[c].unsent = w => phase = "writing"
    <3>1. call[c].unsent = w => Head(call[c].unsent) = f /\ Tail(call[c].unsent) = <<g>>
      BY <1>3
    <3>2. call[c].unsent = w => Len(call[c].unsent) = 2
      BY <1>3
    <3>3. Len(call[c].unsent) = 2 => phase = "writing"
      OBVIOUS
    <3> QED
      BY <3>1, <3>2, <3>3
  <2>3. /\ call[c].unsent = <<g>> => Head(call[c].unsent) = g /\ Tail(call[c].unsent) = << >>
        /\ call[c].unsent = <<g>> => phase = "waiting"
    BY <1>3
  <2> QED
    BY <2>1, <2>2, <2>3
<1>6. left \in Seq(Pieces) /\ piece \in Pieces /\ phase \in {"writing", "waiting"}
  BY <1>3, <1>5
<1>7. /\ sending \in Seq(Pieces)
      /\ link[c].to = NoService => sending = << >>
      /\ link[c].to # NoService => sending = Append(link[c].sending, piece)
  <2>1. Append(link[c].sending, piece) \in Seq(Pieces)
    BY <1>2, <1>6
  <2> QED
    BY <1>2, <2>1
<1> HIDE DEF piece, left, phase, sending
<1>8. /\ k \in Calls /\ k.operation = call[c].operation /\ k.unsent = left
      /\ k.phase = phase /\ ~ k.told
  BY <1>2, <1>6 DEF Calls, Phases
<1>9. /\ l \in Links /\ l.to = link[c].to /\ l.at = link[c].at /\ l.sending = sending
      /\ l.replies = link[c].replies
  BY <1>2, <1>7 DEF Links
<1> HIDE DEF k, l
<1>10. Whole(k) = w /\ Rest(k) = <<g>> /\ Begun(k) = <<f>>
  BY <1>4, <1>8 DEF Whole, Rest, Begun, w
<1>11. PhaseFits(k, obeyed[c])
  BY <1>2, <1>5, <1>6, <1>8, <1>10 DEF PhaseFits
<1>12. WaitFits(k, l, CachedOf(link[c]))
  <2> SUFFICES ASSUME phase = "waiting", link[c].to # NoService
               PROVE  HasLine(sending)
    BY <1>8, <1>9 DEF WaitFits
  <2>1. sending = Append(link[c].sending, g)
    BY <1>5, <1>7
  <2>2. Append(link[c].sending, g) = link[c].sending \o <<g>>
    <3>1. \A s \in Seq(Pieces) : Append(s, g) = s \o <<g>>
      OBVIOUS
    <3> QED
      BY <1>2, <3>1
  <2> QED
    BY <1>2, <1>3, <2>1, <2>2, LineMoves
<1>13. c \notin inherited => OwnLine(k, l, CachedOf(link[c]), obeyed[c])
  <2> SUFFICES ASSUME c \notin inherited PROVE OwnLine(k, l, CachedOf(link[c]), obeyed[c])
    OBVIOUS
  <2> DEFINE p == CachedOf(link[c])
  <2>1. OwnLine(call[c], link[c], p, obeyed[c])
    BY ClientIs
  <2>2. CASE link[c].to = NoService
    BY <1>8, <1>9, <2>1, <2>2 DEF OwnLine, Over
  <2>3. CASE link[c].to # NoService
    <3> HIDE DEF p
    <3>1. Unanswered(call[c], link[c], p, obeyed[c])
      BY <1>1, <2>1, <2>3 DEF OwnLine, HasAnswer
    <3>2. PICK n \in {0, 1, 2} :
            /\ Placed(call[c], n, p, link[c].sending)
            /\ call[c].unsent = w => n = 0
            /\ call[c].unsent # w => n = 1
      BY <1>1, <3>1 DEF Unanswered, w
    <3>3. l.to # NoService /\ ~ k.told
      BY <1>8, <1>9, <2>3
    <3>4. CASE call[c].unsent = w
      <4>1. p = << >> /\ link[c].sending = << >>
        BY <3>2, <3>4 DEF Placed
      <4>2. sending = <<f>> /\ phase = "writing" /\ left = <<g>>
        BY <1>3, <1>5, <1>7, <2>3, <3>4, <4>1
      <4>3. Placed(k, 1, p, sending)
        BY <1>10, <4>1, <4>2 DEF Placed
      <4>4. k.unsent # Whole(k)
        BY <1>3, <1>8, <1>10, <4>2
      <4>5. Unanswered(k, l, p, obeyed[c])
        BY <1>2, <1>8, <1>9, <3>1, <4>2, <4>3, <4>4 DEF Unanswered
      <4> QED
        BY <3>3, <4>5 DEF OwnLine, p
    <3>5. CASE call[c].unsent # w
      <4>1. piece = g /\ phase = "waiting"
        BY <1>5, <3>5
      <4>2. \/ p = << >> /\ link[c].sending = <<f>>
            \/ p = <<f>> /\ link[c].sending = << >>
        BY <1>4, <3>2, <3>5 DEF Placed
      <4>3. \/ p = << >> /\ sending = w
            \/ p = <<f>> /\ sending = <<g>>
        BY <1>3, <1>7, <2>3, <4>1, <4>2
      <4>4. Placed(k, 2, p, sending)
        BY <1>10, <4>3 DEF Placed
      <4>5. Unanswered(k, l, p, obeyed[c])
        BY <1>2, <1>8, <1>9, <3>1, <4>1, <4>4 DEF Unanswered
      <4> QED
        BY <3>3, <4>5 DEF OwnLine, p
    <3> QED
      BY <3>4, <3>5
  <2> QED
    BY <2>2, <2>3
<1> QED
  BY <1>1, <1>6, <1>7, <1>8, <1>9, <1>11, <1>12, <1>13, CallChanges

-----------------------------------------------------------------------------
(* The steps of a service. *)

LEMMA SetPathKeeps ==
  ASSUME ControlInv, NEW s \in Services, SetPath(s)
  PROVE  ControlInv'
<1>1. /\ service[s] = "started" /\ service' = [service EXCEPT ![s] = "running"]
      /\ UNCHANGED <<call, link, cache, obeyed, inherited, serving>>
      /\ path' \in {s, path}
  BY DEF SetPath, GoTo, historyVars
<1>2. path' \in Services \cup {NoService}
  BY <1>1 DEF ControlInv, ControlTypeOK
<1>3. "running" \in ServiceStates /\ "running" \in Alive
  BY DEF ServiceStates, Alive
<1> QED
  BY <1>1, <1>2, <1>3, ServiceMoves

LEMMA LoopEndsKeeps ==
  ASSUME ControlInv, NEW s \in Services, LoopEnds(s)
  PROVE  ControlInv'
<1>1. /\ service[s] = "quitting" /\ service' = [service EXCEPT ![s] = "closing"]
      /\ UNCHANGED <<path, call, link, cache, obeyed, inherited, serving>>
      /\ serving[s] = NoService
  BY DEF LoopEnds, GoTo, historyVars
<1>2. path' \in Services \cup {NoService}
  BY <1>1 DEF ControlInv, ControlTypeOK
<1>3. "closing" \in ServiceStates /\ "closing" \in Alive
  BY DEF ServiceStates, Alive
<1> QED
  BY <1>1, <1>2, <1>3, ServiceMoves

LEMMA SlotReturnsKeeps ==
  ASSUME ControlInv, NEW s \in Services, SlotReturns(s)
  PROVE  ControlInv'
<1>1. /\ serving[s] # NoService /\ getCommand(cache[s][link[serving[s]].at]) = << >>
      /\ serving' = [serving EXCEPT ![s] = NoService]
      /\ UNCHANGED <<path, service, cache, call, link, obeyed, inherited>>
  BY DEF SlotReturns, historyVars
<1>2. /\ service[s] \in {"running", "quitting"} /\ link[serving[s]].at \in Addresses
      /\ service' = [service EXCEPT ![s] = service[s]]
  BY ZenonT(40), <1>1 DEF ControlInv, ControlTypeOK, ServingFits, Links
<1>3. ~ HasLine(cache[s][link[serving[s]].at])
  <2>1. cache[s][link[serving[s]].at] \in Seq(Pieces)
    BY <1>2 DEF ControlInv, ControlTypeOK
  <2> QED
    BY <1>1, <2>1, GetCommandIs
<1>4. \A a \in Addresses : ~ HasLine(cache[s][a])
  <2> SUFFICES ASSUME NEW a \in Addresses, HasLine(cache[s][a]) PROVE FALSE
    OBVIOUS
  <2>1. link[serving[s]].at = a
    BY <1>2 DEF ControlInv, LinesFit
  <2> QED
    BY <1>3, <2>1
<1>5. path' \in Services \cup {NoService}
  BY <1>1 DEF ControlInv, ControlTypeOK
<1>6. service[s] \in ServiceStates /\ service[s] # "gone"
  BY <1>2 DEF ServiceStates, Alive
<1> QED
  BY <1>1, <1>2, <1>4, <1>5, <1>6, ServiceMoves

LEMMA CloseListenerKeeps ==
  ASSUME ControlInv, NEW s \in Services, CloseListener(s)
  PROVE  ControlInv'
<1> DEFINE lost == {c \in SocketsOf(s) : link[c].at = NoAddress}
<1>1. /\ service[s] = "closing" /\ service' = [service EXCEPT ![s] = "closed"]
      /\ link' = Reset(lost)
      /\ UNCHANGED <<path, call, cache, obeyed, inherited, serving>>
  BY DEF CloseListener, GoTo, historyVars
<1>2. serving[s] = NoService /\ path' \in Services \cup {NoService}
  BY <1>1 DEF ControlInv, ControlTypeOK, ServingFits
<1>3. serving' = [serving EXCEPT ![s] = NoService]
  BY <1>1, <1>2 DEF ControlInv, ControlTypeOK
<1>4. lost \subseteq SocketsOf(s)
  OBVIOUS
<1> HIDE DEF lost
<1> QED
  BY <1>1, <1>2, <1>3, <1>4, Resets

LEMMA UnlinkKeeps ==
  ASSUME ControlInv, NEW s \in Services, Unlink(s)
  PROVE  ControlInv'
<1>1. /\ service[s] = "closed" /\ service' = [service EXCEPT ![s] = "gone"]
      /\ link' = Reset(SocketsOf(s)) /\ path' \in {NoService, path}
      /\ UNCHANGED <<call, cache, obeyed, inherited, serving>>
  BY DEF Unlink, GoTo, historyVars
<1>2. serving[s] = NoService /\ path' \in Services \cup {NoService}
  BY <1>1 DEF ControlInv, ControlTypeOK, ServingFits
<1>3. serving' = [serving EXCEPT ![s] = NoService]
  BY <1>1, <1>2 DEF ControlInv, ControlTypeOK
<1> QED
  BY <1>1, <1>2, <1>3, Resets

LEMMA KillServiceKeeps ==
  ASSUME ControlInv, NEW s \in Services, KillService(s)
  PROVE  ControlInv'
<1>1. /\ service' = [service EXCEPT ![s] = "gone"]
      /\ link' = Reset(SocketsOf(s)) /\ path' = path
      /\ serving' = [serving EXCEPT ![s] = NoService]
      /\ UNCHANGED <<call, cache, obeyed, inherited>>
  BY DEF KillService, GoTo, historyVars
<1>2. path' \in Services \cup {NoService}
  BY <1>1 DEF ControlInv, ControlTypeOK
<1> QED
  BY <1>1, <1>2, Resets

(* What the socket's address has in the cache becomes the socket's. *)
LEMMA IncomingKeeps ==
  ASSUME ControlInv, NEW s \in Services, NEW c \in Clients, NEW a \in Addresses,
         incomingConnection(s, c, a)
  PROVE  ControlInv'
<1> DEFINE l == [link[c] EXCEPT !.at = a]
<1>1. /\ serving[s] = NoService /\ link[c].to = s /\ link[c].at = NoAddress
      /\ \A d \in SocketsOf(s) : link[d].at # a
      /\ link' = [link EXCEPT ![c] = l]
      /\ inherited' \in {inherited, inherited \cup {c}}
      /\ cache[s][a] # << >> => inherited' = inherited \cup {c}
      /\ UNCHANGED <<path, service, serving, cache, call, obeyed>>
  BY DEF incomingConnection, InLoop, processVars
<1>2. /\ call[c] \in Calls /\ link[c] \in Links /\ call' = [call EXCEPT ![c] = call[c]]
      /\ Joins(link[c]) /\ PhaseFits(call[c], obeyed[c])
      /\ WaitFits(call[c], link[c], CachedOf(link[c]))
      /\ c \notin inherited => OwnLine(call[c], link[c], CachedOf(link[c]), obeyed[c])
      /\ call[c].phase \in {"new", "connecting"} => link[c] = NoLink
  BY <1>1, ClientIs
<1>3. s # NoService /\ a # NoAddress
  BY ServiceAssumption
<1>4. /\ l \in Links /\ l.to = s /\ l.at = a /\ l.sending = link[c].sending
      /\ l.replies = link[c].replies
  BY <1>1, <1>2 DEF Links
<1> HIDE DEF l
<1>5. CachedOf(link[c]) = << >> /\ CachedOf(l) = cache[s][a]
  BY <1>1, <1>3, <1>4 DEF CachedOf
<1>6. Joins(l)
  BY <1>1, <1>2, <1>4 DEF Joins
<1>7. \A d \in Clients : d # c => ~ SameSocket(l, link[d])
  BY <1>1, <1>4 DEF SameSocket, SocketsOf
<1>8. \A r \in Services : serving[r] # c
  <2> SUFFICES ASSUME NEW r \in Services, serving[r] = c PROVE FALSE
    OBVIOUS
  <2>1. c # NoService
    BY ServiceAssumption
  <2>2. link[c].at # NoAddress
    BY <2>1 DEF ControlInv, ServingFits
  <2> QED
    BY <1>1, <2>2
<1>9. ~ (call[c].phase \in {"new", "connecting"})
  BY <1>1, <1>2, <1>3, NoLinkIs
<1>10. WaitFits(call[c], l, CachedOf(l))
  <2>1. ~ HasLine(<< >>)
    BY DEF HasLine, LineEnds
  <2> QED
    BY <1>1, <1>2, <1>3, <1>4, <1>5, <2>1 DEF WaitFits
<1>11. c \notin inherited' => OwnLine(call[c], l, CachedOf(l), obeyed[c])
  <2> SUFFICES ASSUME c \notin inherited'
               PROVE  OwnLine(call[c], l, CachedOf(l), obeyed[c])
    OBVIOUS
  <2>1. cache[s][a] = << >> /\ c \notin inherited
    BY <1>1
  <2>2. CachedOf(l) = CachedOf(link[c])
    BY <1>5, <2>1
  <2>3. OwnLine(call[c], link[c], CachedOf(l), obeyed[c])
    BY <1>2, <2>1, <2>2
  <2> QED
    BY <1>1, <1>4, <2>3 DEF OwnLine, Over, Unanswered, HasAnswer
<1>12. /\ service' \in [Services -> ServiceStates]
       /\ \A r \in Services : service'[r] = service[r]
  BY <1>1 DEF ControlInv, ControlTypeOK, ServiceStates
<1>13. l.to # NoService
  BY <1>3, <1>4
<1> QED
  BY <1>1, <1>2, <1>4, <1>6, <1>7, <1>8, <1>9, <1>10, <1>11, <1>12, <1>13, ClientChanges

LEMMA SlotClosedKeeps ==
  ASSUME ControlInv, NEW s \in Services, NEW c \in Clients, slotClosed(s, c)
  PROVE  ControlInv'
<1>1. /\ serving[s] = NoService /\ link[c].to = s
      /\ link' = [link EXCEPT ![c] = NoLink]
      /\ UNCHANGED <<path, service, serving, cache, call, obeyed, inherited>>
  BY DEF slotClosed, InLoop, processVars, historyVars
<1>2. /\ call[c] \in Calls /\ call' = [call EXCEPT ![c] = call[c]]
      /\ PhaseFits(call[c], obeyed[c])
      /\ c \notin inherited => OwnLine(call[c], link[c], CachedOf(link[c]), obeyed[c])
  BY <1>1, ClientIs
<1>3. s # NoService /\ c # NoService
  BY ServiceAssumption
<1>4. Joins(NoLink) /\ \A d \in Clients : d # c => ~ SameSocket(NoLink, link[d])
  BY NoLinkIs DEF Joins, SameSocket
<1>5. \A r \in Services : serving[r] # c
  <2> SUFFICES ASSUME NEW r \in Services, serving[r] = c PROVE FALSE
    OBVIOUS
  <2>1. link[c].to = r
    BY <1>3 DEF ControlInv, ServingFits
  <2> QED
    BY <1>1, <1>3, <2>1
<1>6. WaitFits(call[c], NoLink, CachedOf(NoLink))
  BY NoLinkIs DEF WaitFits
<1>7. c \notin inherited => OwnLine(call[c], NoLink, CachedOf(NoLink), obeyed[c])
  <2> SUFFICES ASSUME c \notin inherited
               PROVE  OwnLine(call[c], NoLink, CachedOf(NoLink), obeyed[c])
    OBVIOUS
  <2>1. OwnLine(call[c], link[c], CachedOf(link[c]), obeyed[c])
    BY <1>2
  <2>2. obeyed[c] \in {<< >>, <<CommandOf(call[c].operation)>>}
    BY <1>1, <1>3, <2>1 DEF OwnLine, Unanswered, HasAnswer
  <2>3. NoLink.replies # <<TRUE>>
    <3>1. << >> # <<TRUE>>
      OBVIOUS
    <3> QED
      BY <3>1, NoLinkIs
  <2> QED
    BY <2>1, <2>2, <2>3, NoLinkIs DEF OwnLine, Over
<1>8. /\ service' \in [Services -> ServiceStates]
      /\ \A r \in Services : service'[r] = service[r]
  BY <1>1 DEF ControlInv, ControlTypeOK, ServiceStates
<1> QED
  BY <1>1, <1>2, <1>4, <1>5, <1>6, <1>7, <1>8, NoLinkIs, ClientChanges

(* What the client has sent goes to the cache. *)
LEMMA SlotReadyKeeps ==
  ASSUME ControlInv, NEW s \in Services, NEW c \in Clients, slotReady(s, c)
  PROVE  ControlInv'
<1> DEFINE old == cache[s][link[c].at]
           p == old \o link[c].sending
           l == [link[c] EXCEPT !.sending = << >>]
<1>1. /\ service[s] \in {"running", "quitting"} /\ serving[s] = NoService
      /\ link[c].to = s /\ link[c].at # NoAddress /\ link[c].sending # << >>
      /\ serving' = [serving EXCEPT ![s] = c]
      /\ cache' = [cache EXCEPT ![s][link[c].at] = p]
      /\ link' = [link EXCEPT ![c] = l]
      /\ UNCHANGED <<path, service, call, obeyed, inherited>>
  BY DEF slotReady, InLoop, historyVars
<1>2. /\ link[c] \in Links /\ PhaseFits(call[c], obeyed[c])
      /\ WaitFits(call[c], link[c], CachedOf(link[c]))
      /\ c \notin inherited => OwnLine(call[c], link[c], CachedOf(link[c]), obeyed[c])
      /\ obeyed[c] \in Seq(Commands \cup {"num 0", "unknown"})
      /\ obeyed' = [obeyed EXCEPT ![c] = obeyed[c]]
  BY <1>1, ClientIs DEF ControlInv, ControlTypeOK
<1>3. s # NoService /\ link[c].at \in Addresses /\ link[c].sending \in Seq(Pieces)
  BY <1>1, <1>2, ServiceAssumption DEF Links
<1>4. old \in Seq(Pieces) /\ CachedOf(link[c]) = old
  BY <1>1, <1>3 DEF ControlInv, ControlTypeOK, CachedOf
<1> HIDE DEF old
<1>5. /\ p \in Seq(Pieces)
      /\ HasLine(old) \/ HasLine(link[c].sending) => HasLine(p)
      /\ old = << >> => p = link[c].sending
  BY <1>3, <1>4, LineMoves
<1>6. << >> \in Seq(Pieces)
  OBVIOUS
<1>7. /\ l \in Links /\ l.to = s /\ l.at = link[c].at /\ l.sending = << >>
      /\ l.replies = link[c].replies
  BY <1>1, <1>2, <1>6 DEF Links
<1>8. p = old \o link[c].sending
  OBVIOUS
<1> HIDE DEF p, l
<1>9. WaitFits(call[c], l, p)
  <2>1. WaitFits(call[c], link[c], old)
    BY <1>2, <1>4
  <2> QED
    BY <1>1, <1>5, <1>7, <2>1 DEF WaitFits
<1>10. c \notin inherited => OwnLine(call[c], l, p, obeyed[c])
  <2> SUFFICES ASSUME c \notin inherited PROVE OwnLine(call[c], l, p, obeyed[c])
    OBVIOUS
  <2>1. OwnLine(call[c], link[c], old, obeyed[c])
    BY <1>2, <1>4
  <2>2. Unanswered(call[c], link[c], old, obeyed[c])
    BY <1>1, <1>3, <2>1 DEF OwnLine, HasAnswer
  <2>3. PICK n \in {0, 1, 2} :
          /\ Placed(call[c], n, old, link[c].sending)
          /\ n # 0 => call[c].operation \in Sending
          /\ call[c].phase = "writing" /\ call[c].unsent = Whole(call[c]) => n = 0
          /\ call[c].phase = "writing" /\ call[c].unsent # Whole(call[c]) => n = 1
          /\ call[c].phase = "waiting" => n = 2
    BY <2>2 DEF Unanswered
  <2>4. n # 0
    BY <1>1, <2>3 DEF Placed
  <2>5. Begun(call[c]) \o Rest(call[c]) = Whole(call[c])
    <3>1. CommandOf(call[c].operation) \in Commands
      BY <2>3, <2>4, CommandIs
    <3> QED
      BY <3>1, LineIs DEF Begun, Rest, Whole
  <2>6. Placed(call[c], n, p, << >>)
    BY <1>1, <1>5, <1>8, <2>3, <2>4, <2>5 DEF Placed
  <2>7. Unanswered(call[c], l, p, obeyed[c])
    BY <1>7, <2>2, <2>3, <2>6 DEF Unanswered
  <2>8. call[c].told /\ call[c].operation \in Sending \ {"exec"} => obeyed[c] # << >>
    BY <2>1 DEF OwnLine
  <2> QED
    BY <1>3, <1>7, <2>7, <2>8 DEF OwnLine
<1>11. serving[s] \in {NoService, c} /\ service' = service
  BY <1>1
<1>12. UNCHANGED <<path, call, inherited>>
  BY <1>1
<1> QED
  BY <1>1, <1>2, <1>5, <1>7, <1>9, <1>10, <1>11, <1>12, SlotChanges

(* A line is taken from the cache and answered. *)
LEMMA ObeyKeeps ==
  ASSUME ControlInv, NEW s \in Services, NEW c \in Clients, Obey(s, c)
  PROVE  ControlInv'
<1> DEFINE pieces == cache[s][link[c].at]
           line == getCommand(pieces)
           does == CarriesOut(s, Meaning(line))
           o == IF does THEN Append(obeyed[c], Meaning(line)) ELSE obeyed[c]
           l == [link[c] EXCEPT !.replies = Append(link[c].replies, does)]
<1>1. /\ serving[s] = c /\ line # << >>
      /\ cache' = [cache EXCEPT ![s][link[c].at] = Remaining(pieces)]
      /\ obeyed' = IF does THEN [obeyed EXCEPT ![c] = Append(obeyed[c], Meaning(line))]
                   ELSE obeyed
      /\ service' = service \/ service' = [service EXCEPT ![s] = "quitting"]
      /\ link' = [link EXCEPT ![c] = l]
      /\ UNCHANGED <<path, serving, call, inherited>>
  <2>1. PICK p \in {pieces} : \E x \in {getCommand(p)} :
          /\ x # << >>
          /\ cache' = [cache EXCEPT ![s][link[c].at] = Remaining(p)]
          /\ \E e \in {CarriesOut(s, Meaning(x))} :
               /\ obeyed' = IF e THEN [obeyed EXCEPT ![c] = Append(@, Meaning(x))] ELSE obeyed
               /\ service' = IF e /\ Meaning(x) = "terminate"
                             THEN [service EXCEPT ![s] = "quitting"] ELSE service
               /\ link' = [link EXCEPT ![c].replies = Answered(@, e)]
    BY DEF Obey
  <2>2. p = pieces
    OBVIOUS
  <2>3. PICK x \in {line} :
          /\ x # << >>
          /\ cache' = [cache EXCEPT ![s][link[c].at] = Remaining(pieces)]
          /\ \E e \in {CarriesOut(s, Meaning(x))} :
               /\ obeyed' = IF e THEN [obeyed EXCEPT ![c] = Append(@, Meaning(x))] ELSE obeyed
               /\ service' = IF e /\ Meaning(x) = "terminate"
                             THEN [service EXCEPT ![s] = "quitting"] ELSE service
               /\ link' = [link EXCEPT ![c].replies = Answered(@, e)]
    BY <2>1, <2>2
  <2>4. x = line
    OBVIOUS
  <2>5. PICK e \in {does} :
          /\ obeyed' = IF e THEN [obeyed EXCEPT ![c] = Append(@, Meaning(line))] ELSE obeyed
          /\ service' = IF e /\ Meaning(line) = "terminate"
                        THEN [service EXCEPT ![s] = "quitting"] ELSE service
          /\ link' = [link EXCEPT ![c].replies = Answered(@, e)]
    BY <2>3, <2>4
  <2>6. e = does
    OBVIOUS
  <2>7. UNCHANGED <<path, serving, call, inherited>> /\ serving[s] = c
    BY DEF Obey
  <2> HIDE DEF pieces, line, does
  <2>8. link' = [link EXCEPT ![c].replies = Append(@, does)]
    BY <2>5, <2>6 DEF Answered
  <2> QED
    BY <2>3, <2>4, <2>5, <2>6, <2>7, <2>8
<1>2. c # NoService
  BY ServiceAssumption
<1>3. /\ service[s] \in {"running", "quitting"} /\ link[c].to = s /\ link[c].at # NoAddress
      /\ serving' = [serving EXCEPT ![s] = c]
  BY <1>1, <1>2 DEF ControlInv, ControlTypeOK, ServingFits
<1>4. /\ link[c] \in Links /\ PhaseFits(call[c], obeyed[c])
      /\ c \notin inherited => OwnLine(call[c], link[c], CachedOf(link[c]), obeyed[c])
      /\ obeyed[c] \in Seq(Commands \cup {"num 0", "unknown"})
      /\ obeyed = [obeyed EXCEPT ![c] = obeyed[c]]
      /\ call[c].phase \in {"new", "connecting"} => link[c] = NoLink
  BY ClientIs DEF ControlInv, ControlTypeOK
<1>5. s # NoService /\ link[c].at \in Addresses /\ link[c].replies \in Seq(BOOLEAN)
  BY <1>3, <1>4, ServiceAssumption DEF Links
<1>6. pieces \in Seq(Pieces) /\ CachedOf(link[c]) = pieces
  BY <1>3, <1>5 DEF ControlInv, ControlTypeOK, CachedOf
<1>7. does \in BOOLEAN
  BY DEF CarriesOut
<1> HIDE DEF pieces
<1>8. /\ Remaining(pieces) \in Seq(Pieces) /\ HasLine(pieces)
      /\ Meaning(line) \in Commands \cup {"num 0", "unknown"}
  BY <1>1, <1>6, GetCommandIs
<1> HIDE DEF line, does
<1>9. o \in Seq(Commands \cup {"num 0", "unknown"})
  <2>1. Append(obeyed[c], Meaning(line)) \in Seq(Commands \cup {"num 0", "unknown"})
    BY <1>4, <1>8, AppendProperties
  <2> QED
    BY <1>4, <2>1
<1>10. obeyed' = [obeyed EXCEPT ![c] = o]
  BY <1>1, <1>4
<1>11. /\ o = IF does THEN Append(obeyed[c], Meaning(line)) ELSE obeyed[c]
  OBVIOUS
<1>12. /\ l \in Links /\ l.to = s /\ l.at = link[c].at /\ l.sending = link[c].sending
       /\ l.replies = Append(link[c].replies, does)
  <2>1. Append(link[c].replies, does) \in Seq(BOOLEAN)
    BY <1>5, <1>7
  <2> QED
    BY <1>3, <1>4, <2>1 DEF Links
<1>13. l.replies # << >>
  <2>1. Len(Append(link[c].replies, does)) = Len(link[c].replies) + 1
        /\ Len(link[c].replies) \in Nat
    BY <1>5, <1>7
  <2>2. Len(<< >>) = 0
    OBVIOUS
  <2> QED
    BY <1>12, <2>1, <2>2
<1> HIDE DEF o, l
<1>14. ~ (call[c].phase \in {"new", "connecting"})
  BY <1>3, <1>4, <1>5, NoLinkIs
<1>15. PhaseFits(call[c], o)
  BY <1>4, <1>14 DEF PhaseFits
<1>16. WaitFits(call[c], l, Remaining(pieces))
  BY <1>13 DEF WaitFits
<1>17. c \notin inherited => OwnLine(call[c], l, Remaining(pieces), o)
  <2> SUFFICES ASSUME c \notin inherited PROVE OwnLine(call[c], l, Remaining(pieces), o)
    OBVIOUS
  <2> DEFINE d == CommandOf(call[c].operation)
  <2>1. OwnLine(call[c], link[c], pieces, obeyed[c])
    BY <1>4, <1>6
  <2>2. ~ HasLine(<< >>)
    BY DEF HasLine, LineEnds
  <2>3. Unanswered(call[c], link[c], pieces, obeyed[c])
    <3>1. pieces # << >>
      BY <1>8, <2>2
    <3> QED
      BY <1>3, <1>5, <2>1, <3>1 DEF OwnLine, HasAnswer
  <2>4. PICK n \in {0, 1, 2} :
          /\ Placed(call[c], n, pieces, link[c].sending)
          /\ n # 0 => call[c].operation \in Sending
          /\ call[c].phase = "writing" /\ call[c].unsent = Whole(call[c]) => n = 0
          /\ call[c].phase = "writing" /\ call[c].unsent # Whole(call[c]) => n = 1
    BY <2>3 DEF Unanswered
  <2>5. n # 0
    <3>1. n = 0 => pieces = << >>
      BY <2>4 DEF Placed
    <3> QED
      BY <1>8, <2>2, <3>1
  <2>6. d \in Commands
    BY <2>4, <2>5, CommandIs
  <2>7. ~ HasLine(Begun(call[c]))
    BY <2>6, LinesEnd DEF Begun, Whole
  <2>8. n = 2 /\ pieces = Line(d) /\ link[c].sending = << >>
    BY <1>8, <2>2, <2>4, <2>7 DEF Placed, Whole
  <2> HIDE DEF d
  <2>9. line = Line(d) /\ Remaining(pieces) = << >> /\ Meaning(line) = d
    <3>1. getCommand(Line(d)) = Line(d) /\ Remaining(Line(d)) = << >> /\ Meaning(Line(d)) = d
      BY <2>6, LinesEnd
    <3> QED
      BY <2>8, <3>1 DEF line
  <2>10. link[c].replies = << >> /\ obeyed[c] = << >>
    BY <2>3 DEF Unanswered
  <2>11. l.replies = <<does>>
    <3>1. Append(<< >>, does) = <<does>>
      OBVIOUS
    <3> QED
      BY <1>12, <2>10, <3>1
  <2>12. o = IF does THEN <<d>> ELSE << >>
    <3>1. Append(<< >>, d) = <<d>>
      OBVIOUS
    <3> QED
      BY <1>11, <2>9, <2>10, <3>1
  <2>13. call[c].phase # "writing"
    BY <2>4, <2>8
  <2>14. HasAnswer(call[c], l, Remaining(pieces), o)
    <3>1. CASE does
      <4>1. does = TRUE
        BY <1>7, <3>1
      <4> QED
        BY <1>12, <2>8, <2>9, <2>11, <2>12, <2>13, <4>1 DEF HasAnswer, d
    <3>2. CASE ~ does
      <4>1. does = FALSE
        BY <1>7, <3>2
      <4> QED
        BY <1>12, <2>8, <2>9, <2>11, <2>12, <2>13, <4>1 DEF HasAnswer, d
    <3> QED
      BY <3>1, <3>2
  <2>15. ~ (call[c].told /\ call[c].operation \in Sending \ {"exec"})
    BY <2>1, <2>10 DEF OwnLine
  <2>16. l.to # NoService
    BY <1>5, <1>12
  <2> QED
    BY <2>14, <2>15, <2>16 DEF OwnLine
<1>18. serving[s] \in {NoService, c}
  BY <1>1
<1>19. cache' = [cache EXCEPT ![s][link[c].at] = Remaining(pieces)]
  BY <1>1
<1> QED
  BY <1>1, <1>3, <1>8, <1>9, <1>10, <1>12, <1>15, <1>16, <1>17, <1>18, <1>19, SlotChanges

(* Nothing of what the invariant is about changes. *)
LEMMA OthersKeep ==
  ASSUME ControlInv,
         UNCHANGED <<path, service, serving, cache, call, link, obeyed, inherited>>
  PROVE  ControlInv'
<1>1. ControlTypeOK /\ LinksFit /\ ServingFits /\ LinesFit /\ CallsFit
  BY DEF ControlInv
<1>2. ControlTypeOK'
  BY <1>1 DEF ControlTypeOK
<1>3. LinksFit'
  BY <1>1 DEF LinksFit, Joins, SameSocket
<1>4. ServingFits'
  BY <1>1 DEF ServingFits
<1>5. LinesFit'
  BY <1>1 DEF LinesFit, HasLine, LineEnds
<1>6. CallsFit'
  <2> SUFFICES ASSUME NEW d \in Clients
               PROVE  /\ PhaseFits(call'[d], obeyed'[d])
                      /\ WaitFits(call'[d], link'[d], CachedOf(link[d])')
                      /\ d \notin inherited' =>
                           OwnLine(call'[d], link'[d], CachedOf(link[d])', obeyed'[d])
    BY DEF CallsFit, PhaseFits, WaitFits, OwnLine, Over, Unanswered, HasAnswer, Placed,
           Whole, Begun, Rest
  <2>1. CachedOf(link[d])' = CachedOf(link[d])
    BY DEF CachedOf
  <2> QED
    BY <1>1, <2>1 DEF CallsFit
<1> QED
  BY <1>2, <1>3, <1>4, <1>5, <1>6 DEF ControlInv

-----------------------------------------------------------------------------
(* The theorems. *)

LEMMA ControlStarts == ServiceInit => ControlInv
<1> SUFFICES ASSUME ServiceInit PROVE ControlInv
  OBVIOUS
<1> USE DEF ServiceInit
<1> DEFINE k == [operation |-> "version", phase |-> "new", unsent |-> << >>, told |-> FALSE]
<1>1. << >> \in Seq(Pieces) /\ << >> \in Seq(Commands \cup {"num 0", "unknown"})
  OBVIOUS
<1>2. /\ k \in Calls /\ k.phase = "new" /\ ~ k.told
  BY <1>1 DEF Calls, Checking, Phases
<1>3. \A c \in Clients : call[c] = k /\ link[c] = NoLink /\ obeyed[c] = << >>
  OBVIOUS
<1> HIDE DEF k
<1>4. ControlTypeOK
  <2>1. call \in [Clients -> Calls]
    BY <1>2 DEF k
  <2>2. link \in [Clients -> Links]
    BY NoLinkIs
  <2>3. cache \in [Services -> [Addresses -> Seq(Pieces)]]
    BY <1>1
  <2>4. obeyed \in [Clients -> Seq(Commands \cup {"num 0", "unknown"})]
    BY <1>1
  <2> QED
    BY <2>1, <2>2, <2>3, <2>4 DEF ControlTypeOK
<1>5. LinksFit
  BY <1>3, NoLinkIs DEF LinksFit, Joins, SameSocket
<1>6. ServingFits
  BY DEF ServingFits
<1>7. LinesFit
  BY DEF LinesFit, HasLine, LineEnds
<1>8. CallsFit
  <2> SUFFICES ASSUME NEW c \in Clients
               PROVE  /\ PhaseFits(k, << >>) /\ WaitFits(k, NoLink, CachedOf(NoLink))
                      /\ OwnLine(k, NoLink, CachedOf(NoLink), << >>)
    BY <1>3 DEF CallsFit
  <2>1. NoLink.replies # <<TRUE>>
    <3>1. << >> # <<TRUE>>
      OBVIOUS
    <3> QED
      BY <3>1, NoLinkIs
  <2>2. OwnLine(k, NoLink, CachedOf(NoLink), << >>)
    BY <1>2, <2>1, NoLinkIs DEF OwnLine, Over
  <2> QED
    BY <1>2, <2>2 DEF PhaseFits, WaitFits
<1> QED
  BY <1>4, <1>5, <1>6, <1>7, <1>8 DEF ControlInv

LEMMA ControlStep == ControlInv /\ [ServiceNext]_serviceVars => ControlInv'
<1> SUFFICES ASSUME ControlInv, [ServiceNext]_serviceVars PROVE ControlInv'
  OBVIOUS
<1>1. ASSUME NEW c \in Clients, ClientStep(c) PROVE ControlInv'
  BY <1>1, BeginKeeps, ConnectKeeps, FoundKeeps, WriteKeeps, ReadReplyKeeps, StartKeeps,
     KillClientKeeps DEF ClientStep
<1>2. ASSUME NEW s \in Services, ServiceStep(s) PROVE ControlInv'
  <2>1. ASSUME NEW f \in Flags, setServiceFlags(s, f) PROVE ControlInv'
    <3>1. UNCHANGED <<path, service, serving, cache, call, link, obeyed, inherited>>
      BY <2>1 DEF setServiceFlags, historyVars
    <3> QED
      BY <3>1, OthersKeep
  <2>2. ASSUME NEW c \in Clients, slotReady(s, c) \/ Obey(s, c) \/ slotClosed(s, c)
        PROVE  ControlInv'
    BY <2>2, SlotReadyKeeps, ObeyKeeps, SlotClosedKeeps
  <2>3. ASSUME NEW c \in Clients, NEW a \in Addresses, incomingConnection(s, c, a)
        PROVE  ControlInv'
    BY <2>3, IncomingKeeps
  <2> QED
    BY <1>2, <2>1, <2>2, <2>3, SetPathKeeps, SlotReturnsKeeps, LoopEndsKeeps,
       CloseListenerKeeps, UnlinkKeeps, KillServiceKeeps DEF ServiceStep
<1>3. ASSUME install \/ uninstall \/ UNCHANGED serviceVars PROVE ControlInv'
  <2>1. UNCHANGED <<path, service, serving, cache, call, link, obeyed, inherited>>
    BY <1>3 DEF install, uninstall, processVars, historyVars, serviceVars
  <2> QED
    BY <2>1, OthersKeep
<1> QED
  BY <1>1, <1>2, <1>3 DEF ServiceNext

(* The inductive invariant of the service and its clients: every client    *)
(* has a socket of its own, a complete line is in the cache only while     *)
(* slotReady is about to take it, and what a client has written is either  *)
(* under way in the order it was written, or answered.                     *)
THEOREM ControlAlways == ServiceSpec => []ControlInv
<1>1. ServiceInit => ControlInv
  BY ControlStarts
<1>2. ControlInv /\ [ServiceNext]_serviceVars => ControlInv'
  BY ControlStep
<1> QED
  BY <1>1, <1>2, PTL DEF ServiceSpec

(* sendCmd waits in waitForReadyRead(-1) only for something that is to     *)
(* come: its line is under way, slotReady is at its socket, or the service *)
(* is about to end.  However many clients and services there are.          *)
THEOREM NobodyWaitsInVainAlways == ServiceSpec => []NobodyWaitsInVain
<1>1. ControlInv => NobodyWaitsInVain
  <2> SUFFICES ASSUME ControlInv, NEW c \in Clients,
                      call[c].phase = "waiting", link[c].replies = << >>,
                      link[c].to # NoService, link[c].at # NoAddress,
                      link[c].sending = << >>
               PROVE  \/ serving[link[c].to] = c
                      \/ service[link[c].to] \in {"quitting", "closing", "closed"}
    BY DEF NobodyWaitsInVain
  <2> DEFINE s == link[c].to
             a == link[c].at
  <2>1. s \in Services /\ a \in Addresses /\ service[s] \in Alive
    BY ClientIs DEF Links, Joins
  <2>2. CachedOf(link[c]) = cache[s][a]
    BY DEF CachedOf
  <2>3. HasLine(cache[s][a])
    <3>1. WaitFits(call[c], link[c], cache[s][a])
      BY <2>2, ClientIs
    <3>2. ~ HasLine(<< >>)
      BY DEF HasLine, LineEnds
    <3> QED
      BY <3>1, <3>2 DEF WaitFits
  <2>4. serving[s] # NoService /\ link[serving[s]].at = a
    BY <2>1, <2>3 DEF ControlInv, LinesFit, Alive
  <2>5. serving[s] \in Clients /\ link[serving[s]].to = s
    <3>1. ServingFits /\ serving \in [Services -> Clients \cup {NoService}]
      BY DEF ControlInv, ControlTypeOK
    <3> HIDE DEF s, a
    <3> QED
      BY <2>1, <2>4, <3>1 DEF ServingFits
  <2>6. SameSocket(link[serving[s]], link[c])
    <3>1. s = link[c].to /\ a = link[c].at
      OBVIOUS
    <3> HIDE DEF s, a
    <3> QED
      BY <2>4, <2>5, <3>1 DEF SameSocket
  <2>7. serving[s] = c
    BY <2>5, <2>6 DEF ControlInv, LinksFit
  <2> QED
    BY <2>7
<1> QED
  BY <1>1, ControlAlways, PTL

(* What a client sends is carried out at most once and as it was sent, and *)
(* who is told that it was obeyed was obeyed: unless its socket is at an   *)
(* address where slotClosed left pieces of another one in the cache.       *)
THEOREM CommandsObeyedOnceAlways == ServiceSpec => []CommandsObeyedOnce
<1>1. ControlInv => CommandsObeyedOnce
  <2> SUFFICES ASSUME ControlInv, NEW c \in Clients \ inherited
               PROVE  /\ obeyed[c] \in {<< >>, <<CommandOf(call[c].operation)>>}
                      /\ call[c].told /\ call[c].operation \in Sending \ {"exec"} =>
                           obeyed[c] # << >>
    BY DEF CommandsObeyedOnce
  <2>1. OwnLine(call[c], link[c], CachedOf(link[c]), obeyed[c])
    BY ClientIs
  <2> QED
    BY <2>1 DEF OwnLine, Over, Unanswered, HasAnswer
<1> QED
  BY <1>1, ControlAlways, PTL
=============================================================================
