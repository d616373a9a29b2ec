--------------------------- MODULE ServiceWindows ---------------------------
(***************************************************************************)
(* A service on Windows: qtservice_win.cpp.  Three threads work on one     *)
(* QtServiceSysPrivate: the main thread runs the event loop, the handler   *)
(* thread is called with the controls of the service control manager, and  *)
(* a thread of the system runs serviceMain.  A control is posted to the    *)
(* event loop, and the thread that posted it waits for the condition.      *)
(***************************************************************************)
EXTENDS Naturals, Sequences

CONSTANTS
  NoThread,
  WindowsFlags, \* values of serviceFlags
  MaxControls   \* bound: controls that the manager sends

Callers == {"handler", "serviceMain"}

ASSUME ThreadAssumption == NoThread \notin Callers

VARIABLES
  main,           \* "none", "new", "waiting", "starting", "announcing", "loop", "handling",
                  \* "stopped", "waited", "deleting", "returned", "gone"
  semaphores,     \* [first, second]: startSemaphore and startSemaphore2
  dispatcher,     \* HandlerThread: "new", "dispatching", "failed", "finished"
  caller,         \* a thread in handler: [at, code]
  locked,         \* who holds the mutex, or NoThread
  events,         \* what was posted to controllerHandler
  handlerObject,  \* controllerHandler: "none", "alive", "deleted"
  status,         \* dwCurrentState as the manager was told
  accepted,       \* dwControlsAccepted
  quit,           \* has quit() been called?
  controls,       \* sent by the manager so far
  unannounced     \* history: quit was called and not for a control that the
                  \* manager was told of as `stop pending'

windowsVars == <<main, semaphores, dispatcher, caller, locked, events, handlerObject,
                 status, accepted, quit, controls, unannounced>>
loopVars == <<events, handlerObject, quit, unannounced>>
managed == <<status, accepted, controls>>

At(t, where) == caller' = [caller EXCEPT ![t].at = where]

(* What the service accepts when it has these flags. *)
ControlsOf(flags) ==
  {c \in {"stop", "pause", "shutdown"} :
     \/ c = "stop" /\ "CannotBeStopped" \notin flags
     \/ c = "pause" /\ "CanBeSuspended" \in flags
     \/ c = "shutdown" /\ "NeedsStopOnShutdown" \in flags}

-----------------------------------------------------------------------------
(* The main thread until the event loop runs: QtServiceBasePrivate::start. *)

NewSemaphores == [first |-> 0, second |-> 0]
NewCallers == [t \in Callers |-> IF t = "handler" THEN [at |-> "idle", code |-> "none"]
                                 ELSE [at |-> "new", code |-> "startup"]]
FirstControls == {ControlsOf(f) : f \in WindowsFlags}

(* By the manager, for the first time or again after a process has ended.  *)
(* (A process that a user has started asks the manager to start one.)      *)
StartProcess ==
  /\ main \in {"none", "gone"} /\ main' = "new"
  /\ semaphores' = NewSemaphores /\ dispatcher' = "new"
  /\ caller' = NewCallers /\ locked' = NoThread
  /\ status' = "start pending" /\ accepted' \in FirstControls
  /\ events' = << >> /\ handlerObject' = "none"
  /\ quit' = FALSE /\ unannounced' = FALSE
  /\ UNCHANGED controls

StartHandlerThread ==
  /\ main = "new" /\ main' = "waiting"
  /\ UNCHANGED <<semaphores, dispatcher, caller, locked, managed, loopVars>>

(* StartServiceCtrlDispatcher may fail. *)
RunHandlerThread ==
  /\ main = "waiting" /\ dispatcher = "new"
  /\ \/ dispatcher' = "dispatching" /\ UNCHANGED semaphores
     \/ dispatcher' = "failed" /\ semaphores' = [semaphores EXCEPT !.first = @ + 1]
  /\ UNCHANGED <<main, caller, locked, managed, loopVars>>

(* The process gives up after 20 seconds, or when the dispatcher failed. *)
TryAcquire ==
  /\ main = "waiting"
  /\ IF semaphores.first > 0
     THEN /\ semaphores' = [semaphores EXCEPT !.first = @ - 1]
          /\ main' = IF dispatcher = "failed" THEN "returned" ELSE "starting"
     ELSE main' = "returned" /\ UNCHANGED semaphores
  /\ UNCHANGED <<dispatcher, caller, locked, managed, loopVars>>

CreateApplication ==
  /\ main = "starting"
  /\ \/ main' = "announcing" /\ handlerObject' = "alive"
     \/ main' = "returned" /\ UNCHANGED handlerObject
  /\ UNCHANGED <<semaphores, dispatcher, caller, locked, events, managed, quit, unannounced>>

ReleaseServiceMain ==
  /\ main = "announcing" /\ main' = "loop"
  /\ semaphores' = [semaphores EXCEPT !.second = @ + 1]
  /\ UNCHANGED <<dispatcher, caller, locked, managed, loopVars>>

-----------------------------------------------------------------------------
(* serviceMain. *)

EnterServiceMain ==
  /\ dispatcher = "dispatching" /\ caller["serviceMain"].at = "new" /\ main # "gone"
  /\ At("serviceMain", "acquiring")
  /\ semaphores' = [semaphores EXCEPT !.first = @ + 1]
  /\ UNCHANGED <<main, dispatcher, locked, managed, loopVars>>

(* RegisterServiceCtrlHandler, which may fail, and handler(STARTUP).       *)
RegisterHandler ==
  /\ caller["serviceMain"].at = "acquiring" /\ semaphores.second > 0 /\ main # "gone"
  /\ semaphores' = [semaphores EXCEPT !.second = @ - 1]
  /\ \/ At("serviceMain", "locking") \/ At("serviceMain", "ended")
  /\ UNCHANGED <<main, dispatcher, locked, managed, loopVars>>

-----------------------------------------------------------------------------
(* handler(code), of serviceMain and of the handler thread. *)

Registered == caller["serviceMain"].at \notin {"new", "acquiring", "ended"}

Allowed(code) ==
  CASE code = "interrogate" -> TRUE
    [] code = "continue"    -> "pause" \in accepted
    [] code = "user"        -> TRUE
    [] OTHER                -> code \in accepted

(* The manager sends one control at a time, and none but interrogate while *)
(* the service starts or stops.                                            *)
Control(code) ==
  /\ dispatcher = "dispatching" /\ Registered /\ main # "gone"
  /\ caller["handler"].at = "idle"
  /\ Allowed(code)
  /\ code # "interrogate" => status \notin {"start pending", "stop pending", "stopped"}
  /\ controls < MaxControls /\ controls' = controls + 1
  /\ caller' = [caller EXCEPT !["handler"] = [at |-> "locking", code |-> code]]
  /\ UNCHANGED <<main, semaphores, dispatcher, locked, status, accepted, loopVars>>

Pending(code) ==
  CASE code = "startup"  -> "start pending"
    [] code = "stop"     -> "stop pending"
    [] code = "pause"    -> "pause pending"
    [] code = "continue" -> "continue pending"
    [] OTHER             -> status
Done(code) ==
  CASE code \in {"startup", "continue"} -> "running"
    [] code = "pause"                   -> "paused"
    [] OTHER                            -> status
Posted(code) == IF code = "shutdown" THEN "stop" ELSE code

Lock(t) ==
  /\ caller[t].at = "locking" /\ locked = NoThread /\ main # "gone"
  /\ locked' = t
  /\ status' = Pending(caller[t].code)
  /\ At(t, IF caller[t].code = "interrogate" THEN "unlocking" ELSE "posting")
  /\ UNCHANGED <<main, semaphores, dispatcher, accepted, controls, loopVars>>

Post(t) ==
  /\ caller[t].at = "posting" /\ main # "gone"
  /\ events' = Append(events, Posted(caller[t].code))
  /\ At(t, "entering")
  /\ UNCHANGED <<main, semaphores, dispatcher, locked, handlerObject, managed, quit, unannounced>>

(* condition.wait lets go of the mutex and waits in one step. *)
Wait(t) ==
  /\ caller[t].at = "entering" /\ main # "gone"
  /\ locked' = NoThread
  /\ At(t, "waiting")
  /\ UNCHANGED <<main, semaphores, dispatcher, managed, loopVars>>

Woken(t) ==
  /\ caller[t].at = "woken" /\ locked = NoThread /\ main # "gone"
  /\ locked' = t
  /\ status' = Done(caller[t].code)
  /\ At(t, "unlocking")
  /\ UNCHANGED <<main, semaphores, dispatcher, accepted, controls, loopVars>>

(* The status that is reported at the end, without the mutex, was reported *)
(* before: it is read and reported in one call.                            *)
Unlock(t) ==
  /\ caller[t].at = "unlocking" /\ main # "gone"
  /\ locked' = NoThread
  /\ At(t, IF t = "handler" THEN "idle" ELSE "done")
  /\ UNCHANGED <<main, semaphores, dispatcher, managed, loopVars>>

-----------------------------------------------------------------------------
(* The event loop and what follows it. *)

(* handleCustomEvent: the virtual function ... *)
HandleEvent ==
  /\ main = "loop" /\ events # << >>
  /\ main' = "handling"
  /\ events' = Tail(events)
  /\ IF Head(events) = "stop"
     THEN quit' = TRUE /\ unannounced' = (unannounced \/ status # "stop pending")
     ELSE UNCHANGED <<quit, unannounced>>
  /\ UNCHANGED <<semaphores, dispatcher, caller, locked, handlerObject, managed>>

WakeAll == caller' = [t \in Callers |-> IF caller[t].at = "waiting"
                                        THEN [caller[t] EXCEPT !.at = "woken"] ELSE caller[t]]

(* Mutant: the condition is signalled without the mutex. *)
WakeUnlocked ==
  /\ main = "handling"
  /\ main' = "loop"
  /\ WakeAll
  /\ UNCHANGED <<semaphores, dispatcher, locked, managed, loopVars>>

(* ... and the answer to the thread that waits. *)
Wake ==
  /\ main = "handling" /\ locked = NoThread
  /\ main' = "loop"
  /\ WakeAll
  /\ UNCHANGED <<semaphores, dispatcher, locked, managed, loopVars>>

(* The service ends by itself. *)
QuitItself ==
  /\ main \in {"loop", "handling"} /\ ~quit
  /\ quit' = TRUE /\ unannounced' = TRUE
  /\ UNCHANGED <<main, semaphores, dispatcher, caller, locked, events, handlerObject, managed>>

(* The whole status is reported, which is `stopped' until handler has set  *)
(* it for the first time.                                                  *)
SetFlags(f) ==
  /\ main \in {"loop", "handling"}
  /\ accepted # ControlsOf(f) /\ accepted' = ControlsOf(f)
  /\ status' = IF caller["serviceMain"].at = "locking" THEN "stopped" ELSE status
  /\ UNCHANGED <<main, semaphores, dispatcher, caller, locked, controls, loopVars>>

(* Nothing is reported by who has not registered. *)
LoopReturns ==
  /\ main = "loop" /\ quit
  /\ main' = "stopped"
  /\ status' = IF Registered THEN "stopped" ELSE status
  /\ UNCHANGED <<semaphores, dispatcher, caller, locked, accepted, controls, loopVars>>

(* StartServiceCtrlDispatcher returns when the service has stopped. *)
HandlerThreadEnds ==
  /\ dispatcher = "dispatching" /\ status = "stopped" /\ main # "gone"
  /\ caller["handler"].at = "idle"
  /\ dispatcher' = "finished"
  /\ UNCHANGED <<main, semaphores, caller, locked, managed, loopVars>>

(* wait(1000) ends with the thread or with the time. *)
DeleteHandlerObject ==
  /\ main = "stopped"
  /\ main' = "deleting"
  /\ handlerObject' = "deleted" /\ events' = << >>
  /\ UNCHANGED <<semaphores, dispatcher, caller, locked, managed, quit, unannounced>>

ReturnFromStart == main = "deleting" /\ main' = "returned"
  /\ UNCHANGED <<semaphores, dispatcher, caller, locked, managed, loopVars>>

Exit == main = "returned" /\ main' = "gone"
  /\ UNCHANGED <<semaphores, dispatcher, caller, locked, managed, loopVars>>

-----------------------------------------------------------------------------
Controls == {"interrogate", "stop", "shutdown", "pause", "continue", "user"}

WindowsInit ==
  /\ main = "none"
  /\ semaphores = NewSemaphores
  /\ dispatcher = "new"
  /\ caller = NewCallers
  /\ locked = NoThread
  /\ events = << >>
  /\ handlerObject = "none"
  /\ status = "start pending"
  /\ accepted \in FirstControls
  /\ quit = FALSE
  /\ controls = 0
  /\ unannounced = FALSE

ProcessStep ==
  \/ StartHandlerThread \/ RunHandlerThread \/ TryAcquire \/ CreateApplication
  \/ ReleaseServiceMain \/ EnterServiceMain \/ RegisterHandler
  \/ \E t \in Callers : Lock(t) \/ Post(t) \/ Wait(t) \/ Woken(t) \/ Unlock(t)
  \/ Wake \/ QuitItself \/ LoopReturns \/ HandlerThreadEnds
  \/ DeleteHandlerObject \/ ReturnFromStart \/ Exit
  \/ \E f \in WindowsFlags : SetFlags(f)

-----------------------------------------------------------------------------
(* A thread that waits for the condition has its event in the queue of a   *)
(* loop that runs, or the loop is about to wake it.                        *)
WaitersAreWoken ==
  \A t \in Callers : caller[t].at = "waiting" =>
    main = "handling" \/ (main \in {"announcing", "loop"} /\ events # << >> /\ ~quit)

(* Events are posted to an object that exists, and who is woken had his    *)
(* own event handled.                                                      *)
EventsAreHandled ==
  \A t \in Callers :
    /\ caller[t].at = "posting" => handlerObject = "alive"
    /\ caller[t].at = "woken" => events = << >>

(* No thread tells the manager of a state behind `stopped'. *)
StoppedIsLast ==
  main \in {"stopped", "deleting"} => status = "stopped"

(* What handler promises to the manager: a control is done when handler    *)
(* returns, handler returns, and the service ends as stopped.  It breaks   *)
(* where the event loop ends and the manager was not told `stop pending':  *)
(* at a shutdown, and when the service calls quit itself.                  *)
ControlsAreServed ==
  unannounced \/ (WaitersAreWoken /\ EventsAreHandled /\ StoppedIsLast)
=============================================================================
