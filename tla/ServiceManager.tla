--------------------------- MODULE ServiceManager ---------------------------
(***************************************************************************)
(* The programs that install, start and control the service of             *)
(* ServiceWindows: QtServiceController and QtServiceBasePrivate::install of *)
(* qtservice_win.cpp.  They speak to the service control manager, which     *)
(* keeps a registration of the service, passes on one control at a time    *)
(* and knows of the service what the service has told it.                  *)
(*                                                                         *)
(* Every call to the manager may fail.                                     *)
(***************************************************************************)
EXTENDS ServiceWindows

CONSTANTS
  Controllers,    \* programs, each of which calls one function
  NoController,
  ControllerUses, \* of each, the functions that it may call
  MaxPolls        \* turns of the loop in stop: 10 in the code

ASSUME ManagerAssumption == NoController \notin Controllers /\ MaxPolls \in Nat

VARIABLES
  registration,  \* of the service: "none", "registered", "marked" for deletion
  controller,    \* of each: [operation, at, polls, told]
  sender,        \* whose control the handler thread works on
  carried,       \* history: whose control the present process has handled
  formerly       \* history: whose control a process has handled that has ended

managerVars == <<registration, controller, sender, carried, formerly>>
handled == <<carried, formerly>>

(* What QueryServiceStatus returns. *)
ManagerStatus == IF main \in {"none", "gone"} THEN "stopped" ELSE status

isInstalled == registration # "none"
isRunning == isInstalled /\ ManagerStatus # "stopped"

Code(operation) ==
  CASE operation = "stop"   -> "stop"
    [] operation = "pause"  -> "pause"
    [] operation = "resume" -> "continue"
    [] operation = "num"    -> "user"
Controlling == {"stop", "pause", "resume", "num"}

OpensHandle(k) ==
  /\ controller[k].at \in {"open", "sent", "polling"}
  /\ controller[k].operation # "install"

Turn(k, where) == controller' = [controller EXCEPT ![k].at = where]
Tells(k, result) == controller' = [controller EXCEPT ![k].at = "returned", ![k].told = result]

-----------------------------------------------------------------------------
(* The functions of a controller. *)

CallController(k, operation) ==
  /\ controller[k].at = "new"
  /\ controller' = [controller EXCEPT ![k] = [@ EXCEPT !.operation = operation,
       !.at = IF operation \in {"install", "uninstall", "num"} THEN "asking" ELSE "opening"]]
  /\ UNCHANGED <<windowsVars, registration, sender, handled>>

(* exec asks isInstalled first, and sendCommand isRunning. *)
Ask(k) ==
  /\ controller[k].at = "asking"
  /\ CASE controller[k].operation = "install"   -> ~isInstalled /\ Turn(k, "open")
       [] controller[k].operation = "uninstall" -> isInstalled /\ Turn(k, "opening")
       [] controller[k].operation = "num"       -> isRunning /\ Turn(k, "opening")
  /\ UNCHANGED <<windowsVars, registration, sender, handled>>

OpenService(k) ==
  /\ controller[k].at = "opening" /\ isInstalled
  /\ Turn(k, "open")
  /\ UNCHANGED <<windowsVars, registration, sender, handled>>

CreateService(k) ==
  /\ controller[k].at = "open" /\ controller[k].operation = "install"
  /\ registration = "none" /\ registration' = "registered"
  /\ Tells(k, TRUE)
  /\ UNCHANGED <<windowsVars, sender, handled>>

DeleteService(k) ==
  /\ controller[k].at = "open" /\ controller[k].operation = "uninstall"
  /\ registration = "registered" /\ registration' = "marked"
  /\ Tells(k, TRUE)
  /\ UNCHANGED <<windowsVars, sender, handled>>

(* The manager has answered the last control of a process before it starts *)
(* another one.                                                            *)
StartedByManager ==
  /\ registration = "registered" /\ sender = NoController
  /\ StartProcess
  /\ carried' = {} /\ formerly' = formerly \cup carried

RequestStart(k) ==
  /\ controller[k].at = "open" /\ controller[k].operation = "start"
  /\ StartedByManager
  /\ Tells(k, TRUE)
  /\ UNCHANGED <<registration, sender>>

ControlService(k) ==
  /\ controller[k].at = "open" /\ controller[k].operation \in Controlling
  /\ sender = NoController /\ sender' = k
  /\ Control(Code(controller[k].operation))
  /\ Turn(k, "sent")
  /\ UNCHANGED <<registration, handled>>

\* Mutant: stop does not ask for the status, like the other controls.
ControlReturnsUnasked(k) ==
  /\ controller[k].at = "sent" /\ sender = k /\ caller["handler"].at = "idle"
  /\ sender' = NoController
  /\ Tells(k, TRUE)
  /\ UNCHANGED <<windowsVars, registration, handled>>

(* handler has returned. *)
ControlReturns(k) ==
  /\ controller[k].at = "sent" /\ sender = k /\ caller["handler"].at = "idle"
  /\ sender' = NoController
  /\ IF controller[k].operation = "stop" /\ ManagerStatus # "stopped"
     THEN Turn(k, "polling") ELSE Tells(k, TRUE)
  /\ UNCHANGED <<windowsVars, registration, handled>>

(* One turn of the loop in stop. *)
Poll(k) ==
  /\ controller[k].at = "polling"
  /\ IF ManagerStatus = "stopped" THEN Tells(k, TRUE)
     ELSE IF controller[k].polls = MaxPolls THEN Tells(k, FALSE)
     ELSE controller' = [controller EXCEPT ![k].polls = @ + 1]
  /\ UNCHANGED <<windowsVars, registration, sender, handled>>

(* A call to the manager fails; a control takes too long, or its process   *)
(* ends.                                                                   *)
Fails(k) ==
  /\ controller[k].at \in {"asking", "opening", "open", "sent", "polling"}
  /\ sender' = IF sender = k THEN NoController ELSE sender
  /\ Tells(k, FALSE)
  /\ UNCHANGED <<windowsVars, registration, handled>>

-----------------------------------------------------------------------------
(* The manager for itself, and for programs of other authors. *)

StartsItself ==
  /\ StartedByManager
  /\ UNCHANGED <<registration, controller, sender>>

OtherControl(code) ==
  /\ sender = NoController
  /\ Control(code)
  /\ UNCHANGED managerVars

(* The registration goes with the last handle and the process. *)
Forget ==
  /\ registration = "marked" /\ ManagerStatus = "stopped"
  /\ \A k \in Controllers : ~OpensHandle(k)
  /\ registration' = "none"
  /\ UNCHANGED <<windowsVars, controller, sender, handled>>

-----------------------------------------------------------------------------
(* The service, and whose control it handles. *)

HandleControl ==
  /\ HandleEvent
  /\ carried' = carried \cup ({sender} \ {NoController})
  /\ UNCHANGED <<registration, controller, sender, formerly>>

ManagerInit ==
  /\ WindowsInit
  /\ registration \in {"none", "registered"}
  /\ controller = [k \in Controllers |->
                     [operation |-> "none", at |-> "new", polls |-> 0, told |-> FALSE]]
  /\ sender = NoController
  /\ carried = {} /\ formerly = {}

ManagerNext ==
  \/ ProcessStep /\ UNCHANGED managerVars
  \/ HandleControl \/ StartsItself \/ Forget
  \/ \E code \in Controls : OtherControl(code)
  \/ \E k \in Controllers :
       \/ \E operation \in ControllerUses[k] : CallController(k, operation)
       \/ Ask(k) \/ OpenService(k) \/ CreateService(k) \/ DeleteService(k) \/ RequestStart(k)
       \/ ControlService(k) \/ ControlReturns(k) \/ Poll(k) \/ Fails(k)

ManagerSpec == ManagerInit /\ [][ManagerNext]_<<windowsVars, managerVars>>

-----------------------------------------------------------------------------
(* What a controller is told is so: the service has handled the control of *)
(* every stop, pause, resume and sendCommand that has returned true, and   *)
(* after a stop the manager reports the service as stopped until it starts *)
(* it again.  This also holds while others control, start or uninstall the *)
(* service between two polls, and for a service that calls quit itself.    *)
ControllersAreTold ==
  \A k \in Controllers : controller[k].told =>
    /\ controller[k].operation \in Controlling => k \in carried \cup formerly
    /\ controller[k].operation = "stop" => k \in formerly \/ ManagerStatus = "stopped"
=============================================================================
