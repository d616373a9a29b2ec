--------------------------- MODULE ServiceControl ---------------------------
(***************************************************************************)
(* A service on Unix and the processes that control it: QtServiceBase,     *)
(* QtServiceController and QtServiceSysPrivate of qtservice_unix.cpp.  The *)
(* processes meet at a socket file: a service listens at it while it runs, *)
(* a client sends one line and waits for the answer.                       *)
(*                                                                         *)
(* A client is one run of the program with an argument, or one call of a   *)
(* QtServiceController.  A line travels in two pieces, the second one ends *)
(* with CR LF.                                                             *)
(***************************************************************************)
EXTENDS Naturals, Sequences, SequencesExt, FiniteSetsExt

CONSTANTS
  Clients,    \* calls that control the service
  Services,   \* processes that a client may start as the service
  NoService,
  Addresses,  \* where the heap may put a QTcpSocket
  NoAddress,
  Flags,      \* values of serviceFlags
  Uses        \* what a client does: of each client, a set of operations


VARIABLES
  installed,  \* is the service in the settings of the system?
  path,       \* who has bound the socket file; NoService: there is none
  service,    \* "none", "started", "running", "quitting", "closing", "closed", "gone"
  bound,      \* path_ of the server socket is not empty
  flags,      \* serviceFlags
  serving,    \* the client whose socket is in slotReady, or NoService
  cache,      \* of a service: pieces by the address of the socket
  call,       \* of a client: [operation, phase, unsent, told]
  link,       \* of a client: [to, at, open, sending, replies]
  obeyed,     \* history: the commands that were carried out for a client
  inherited   \* history: clients whose socket found pieces of another one

serviceVars == <<installed, path, service, bound, flags, serving, cache, call,
                 link, obeyed, inherited>>
processVars == <<service, bound, flags, serving, cache>>
historyVars == <<obeyed, inherited>>

(* What a client sends for an operation; the others only connect. *)
CommandOf(operation) == IF operation = "exec" THEN "alive" ELSE operation
Sending == {"terminate", "pause", "resume", "num", "exec"}
Checking == {"start", "version"}
Commands == {"terminate", "pause", "resume", "num", "alive"}

ASSUME ServiceAssumption ==
  /\ NoService \notin Services \cup Clients /\ NoAddress \notin Addresses
  /\ \A c \in Clients : Uses[c] \subseteq Sending \cup Checking

Line(command) == <<[of |-> command, last |-> FALSE], [of |-> command, last |-> TRUE]>>

NoLink == [to |-> NoService, at |-> NoAddress, open |-> FALSE,
           sending |-> << >>, replies |-> << >>]
SocketsOf(s) == {c \in Clients : link[c].to = s}

(* What listens in the kernel, until QTcpServer::close. *)
Listens(s) == bound[s] /\ service[s] \in {"running", "quitting", "closing"}

(* A socket of a service that is no more: what was sent to the client can  *)
(* still be read.                                                          *)
Reset(lost) ==
  [c \in Clients |-> IF c \in lost THEN [link[c] EXCEPT !.to = NoService, !.sending = << >>]
                     ELSE link[c]]

-----------------------------------------------------------------------------
(* The clients. *)

install ==
  /\ ~installed /\ installed' = TRUE
  /\ UNCHANGED <<path, processVars, call, link, historyVars>>

uninstall ==
  /\ installed /\ installed' = FALSE
  /\ UNCHANGED <<path, processVars, call, link, historyVars>>

Returns(c, told) == call' = [call EXCEPT ![c].phase = "returned", ![c].told = told]
GoOn(c, phase) == call' = [call EXCEPT ![c].phase = phase]

(* start of the controller asks isInstalled first. *)
MayGoOn(operation) == operation # "start" \/ installed

(* exec and the functions of the controller. *)
Begin(c, operation) ==
  /\ call[c].phase = "new"
  /\ call' = [call EXCEPT ![c] =
       [operation |-> operation, told |-> FALSE,
        unsent |-> IF operation \in Sending THEN Line(CommandOf(operation)) ELSE << >>,
        phase |-> IF MayGoOn(operation) THEN "connecting" ELSE "returned"]]
  /\ UNCHANGED <<installed, path, processVars, link, historyVars>>

(* What start does when it has found no running service. *)
NotRunning(c) ==
  IF call[c].operation \in {"start", "exec"} THEN GoOn(c, "starting") ELSE Returns(c, FALSE)

connectTo(c) ==
  /\ call[c].phase = "connecting"
  /\ IF path # NoService /\ Listens(path)
     THEN /\ link' = [link EXCEPT ![c] = [NoLink EXCEPT !.to = path, !.open = TRUE]]
          /\ GoOn(c, IF call[c].operation \in Checking THEN "found" ELSE "writing")
     ELSE NotRunning(c) /\ UNCHANGED link
  /\ UNCHANGED <<installed, path, processVars, historyVars>>

Closed(c) == link' = [link EXCEPT ![c].open = FALSE]

(* isRunning is true: its socket leaves the scope. *)
Found(c) ==
  /\ call[c].phase = "found"
  /\ Closed(c)
  /\ Returns(c, call[c].operation = "version")
  /\ UNCHANGED <<installed, path, processVars, historyVars>>

(* sendCmd writes the line; what a client writes that was reset is lost. *)
WriteCommand(c) ==
  /\ call[c].phase = "writing"
  /\ link' = [link EXCEPT ![c].sending =
                IF link[c].to = NoService THEN @ ELSE Append(@, Head(call[c].unsent))]
  /\ call' = [call EXCEPT ![c].unsent = Tail(@),
                          ![c].phase = IF Len(call[c].unsent) = 1 THEN "waiting" ELSE @]
  /\ UNCHANGED <<installed, path, processVars, historyVars>>

(* waitForReadyRead returns when there is an answer or the connection is   *)
(* closed, and never otherwise.  exec does not start a second service.     *)
ReadReply(c) ==
  /\ call[c].phase = "waiting"
  /\ link[c].replies # << >> \/ link[c].to = NoService
  /\ IF link[c].replies = <<TRUE>>
     THEN Returns(c, call[c].operation # "exec")
     ELSE NotRunning(c)
  /\ Closed(c)
  /\ UNCHANGED <<installed, path, processVars, historyVars>>

(* The controller starts the program that is in the settings, exec itself. *)
ProgramKnown(c) == call[c].operation = "exec" \/ installed

(* startDetached; it may fail. *)
Start(c) ==
  /\ call[c].phase = "starting"
  /\ \/ \E s \in Services :
           /\ ProgramKnown(c)
           /\ service[s] = "none"
           /\ service' = [service EXCEPT ![s] = "started"]
           /\ Returns(c, TRUE)
     \/ Returns(c, FALSE) /\ UNCHANGED service
  /\ UNCHANGED <<installed, path, bound, flags, serving, cache, link, historyVars>>

(* The process of the client is killed. *)
KillClient(c) ==
  /\ call[c].phase \in {"writing", "waiting"}
  /\ call' = [call EXCEPT ![c].phase = "killed", ![c].unsent = << >>]
  /\ Closed(c)
  /\ UNCHANGED <<installed, path, processVars, historyVars>>

-----------------------------------------------------------------------------
(* The service: a process with one event loop. *)

GoTo(s, phase) == service' = [service EXCEPT ![s] = phase]

(* sysInit, after the constructor of the service has set its flags, and    *)
(* setPath.  bind fails where the file cannot be replaced. *)
SetPath(s) ==
  /\ service[s] = "started"
  /\ GoTo(s, "running")
  /\ \/ path' = s /\ bound' = [bound EXCEPT ![s] = TRUE]
     \/ UNCHANGED <<path, bound>>
  /\ \E f \in Flags : flags' = [flags EXCEPT ![s] = f]
  /\ UNCHANGED <<installed, serving, cache, call, link, historyVars>>

InLoop(s) == service[s] \in {"running", "quitting"} /\ serving[s] = NoService

incomingConnection(s, c, a) ==
  /\ InLoop(s)
  /\ link[c].to = s /\ link[c].at = NoAddress
  /\ ~\E d \in SocketsOf(s) : link[d].at = a
  /\ link' = [link EXCEPT ![c].at = a]
  /\ inherited' = IF cache[s][a] # << >> THEN inherited \cup {c} ELSE inherited
  /\ UNCHANGED <<installed, path, processVars, call, obeyed>>

slotReady(s, c) ==
  /\ InLoop(s)
  /\ link[c].to = s /\ link[c].at # NoAddress /\ link[c].sending # << >>
  /\ serving' = [serving EXCEPT ![s] = c]
  /\ cache' = [cache EXCEPT ![s][link[c].at] = @ \o link[c].sending]
  /\ link' = [link EXCEPT ![c].sending = << >>]
  /\ UNCHANGED <<installed, path, service, bound, flags, call, historyVars>>

(* The first line in the cache; << >> when there is no complete one. *)
LineEnds(pieces) == {i \in DOMAIN pieces : pieces[i].last}
getCommand(pieces) ==
  IF LineEnds(pieces) = {} THEN << >> ELSE SubSeq(pieces, 1, Min(LineEnds(pieces)))

(* Mutant: the line stays in the cache. *)
RemainingAll(pieces) == pieces

Remaining(pieces) == SubSeq(pieces, Len(getCommand(pieces)) + 1, Len(pieces))

(* What a line is taken for: garbage behind num: is the number 0. *)
Meaning(line) ==
  IF \E command \in Commands : line = Line(command) THEN line[1].of
  ELSE IF line[1] = Head(Line("num")) THEN "num 0"
  ELSE "unknown"

CarriesOut(s, command) ==
  /\ command # "unknown"
  /\ command = "terminate" => "CannotBeStopped" \notin flags[s]
  /\ command \in {"pause", "resume"} => "CanBeSuspended" \in flags[s]

(* Mutant: nothing is said to a command that is refused. *)
AnsweredIfDone(replies, does) == IF does THEN Append(replies, does) ELSE replies

Answered(replies, does) == Append(replies, does)

(* One round of the loop in slotReady. *)
Obey(s, c) ==
  /\ serving[s] = c
  /\ \E pieces \in {cache[s][link[c].at]} : \E line \in {getCommand(pieces)} :
       /\ line # << >>
       /\ cache' = [cache EXCEPT ![s][link[c].at] = Remaining(pieces)]
       /\ \E does \in {CarriesOut(s, Meaning(line))} :
            /\ obeyed' = IF does THEN [obeyed EXCEPT ![c] = Append(@, Meaning(line))]
                         ELSE obeyed
            /\ service' = IF does /\ Meaning(line) = "terminate"
                          THEN [service EXCEPT ![s] = "quitting"] ELSE service
            /\ link' = [link EXCEPT ![c].replies = Answered(@, does)]
  /\ UNCHANGED <<installed, path, bound, flags, serving, call, inherited>>

SlotReturns(s) ==
  /\ serving[s] # NoService
  /\ getCommand(cache[s][link[serving[s]].at]) = << >>
  /\ serving' = [serving EXCEPT ![s] = NoService]
  /\ UNCHANGED <<installed, path, service, bound, flags, cache, call, link, historyVars>>

(* The socket is deleted; what it had in the cache stays there. *)
slotClosed(s, c) ==
  /\ InLoop(s)
  /\ link[c].to = s /\ link[c].at # NoAddress /\ ~link[c].open /\ link[c].sending = << >>
  /\ link' = [link EXCEPT ![c] = NoLink]
  /\ UNCHANGED <<installed, path, processVars, call, historyVars>>

setServiceFlags(s, f) ==
  /\ InLoop(s)
  /\ flags[s] # f
  /\ flags' = [flags EXCEPT ![s] = f]
  /\ UNCHANGED <<installed, path, service, bound, serving, cache, call, link, historyVars>>

(* executeApplication returns. *)
LoopEnds(s) ==
  /\ service[s] = "quitting" /\ serving[s] = NoService
  /\ GoTo(s, "closing")
  /\ UNCHANGED <<installed, path, bound, flags, serving, cache, call, link, historyVars>>

(* sysCleanup: the listening socket is closed, and who was not accepted is *)
(* reset ...                                                               *)
CloseListener(s) ==
  /\ service[s] = "closing"
  /\ GoTo(s, "closed")
  /\ link' = Reset({c \in SocketsOf(s) : link[c].at = NoAddress})
  /\ UNCHANGED <<installed, path, bound, flags, serving, cache, call, historyVars>>

(* ... the file is removed, whose ever it is, and the sockets are deleted. *)
Unlink(s) ==
  /\ service[s] = "closed"
  /\ GoTo(s, "gone")
  /\ path' = IF bound[s] THEN NoService ELSE path
  /\ bound' = [bound EXCEPT ![s] = FALSE]
  /\ link' = Reset(SocketsOf(s))
  /\ UNCHANGED <<installed, flags, serving, cache, call, historyVars>>

(* The process is killed and leaves its socket file behind. *)
KillService(s) ==
  /\ service[s] \notin {"none", "gone"}
  /\ GoTo(s, "gone")
  /\ bound' = [bound EXCEPT ![s] = FALSE]
  /\ serving' = [serving EXCEPT ![s] = NoService]
  /\ link' = Reset(SocketsOf(s))
  /\ UNCHANGED <<installed, path, flags, cache, call, historyVars>>

-----------------------------------------------------------------------------
ServiceInit ==
  /\ installed \in BOOLEAN
  /\ path = NoService
  /\ service = [s \in Services |-> "none"]
  /\ bound = [s \in Services |-> FALSE]
  /\ flags = [s \in Services |-> {}]
  /\ serving = [s \in Services |-> NoService]
  /\ cache = [s \in Services |-> [a \in Addresses |-> << >>]]
  /\ call = [c \in Clients |-> [operation |-> "version", phase |-> "new",
                               unsent |-> << >>, told |-> FALSE]]
  /\ link = [c \in Clients |-> NoLink]
  /\ obeyed = [c \in Clients |-> << >>]
  /\ inherited = {}

ClientStep(c) ==
  \/ \E operation \in Uses[c] : Begin(c, operation)
  \/ connectTo(c) \/ Found(c) \/ WriteCommand(c) \/ ReadReply(c) \/ Start(c) \/ KillClient(c)

ServiceStep(s) ==
  \/ SetPath(s) \/ SlotReturns(s) \/ LoopEnds(s) \/ CloseListener(s) \/ Unlink(s)
  \/ KillService(s)
  \/ \E c \in Clients : slotReady(s, c) \/ Obey(s, c) \/ slotClosed(s, c)
  \/ \E c \in Clients, a \in Addresses : incomingConnection(s, c, a)
  \/ \E f \in Flags : setServiceFlags(s, f)

ServiceNext ==
  \/ install \/ uninstall
  \/ \E c \in Clients : ClientStep(c)
  \/ \E s \in Services : ServiceStep(s)

ServiceSpec == ServiceInit /\ [][ServiceNext]_serviceVars

-----------------------------------------------------------------------------
(* A service carries out what a client has sent, once and as it was sent,  *)
(* and who is told `true' was obeyed: whatever is killed, whoever else     *)
(* speaks to the service.  The exception is a socket at the address of one *)
(* that was closed within a line: slotClosed leaves the line in the cache. *)
CommandsObeyedOnce ==
  \A c \in Clients \ inherited :
    /\ obeyed[c] \in {<< >>, <<CommandOf(call[c].operation)>>}
    /\ call[c].told /\ call[c].operation \in Sending \ {"exec"} => obeyed[c] # << >>

(* A client that waits without a limit for an answer waits for something:  *)
(* its line is under way, or the service is about to answer or to end.     *)
NobodyWaitsInVain ==
  \A c \in Clients :
    call[c].phase = "waiting" /\ link[c].replies = << >> /\ link[c].to # NoService =>
      \/ link[c].at = NoAddress
      \/ link[c].sending # << >>
      \/ serving[link[c].to] = c
      \/ service[link[c].to] \in {"quitting", "closing", "closed"}
=============================================================================
