---------------------------- MODULE Service_proofs ----------------------------
(***************************************************************************)
(* Proofs about the service framework.  On Windows: a control that the     *)
(* service control manager sends is served, and what a controller is told  *)
(* is so.                                                                  *)
(***************************************************************************)
EXTENDS ServiceManager, SequenceTheorems, TLAPS

-----------------------------------------------------------------------------
(* The inductive invariant of the process. *)

Early == {"none", "new", "waiting", "starting", "announcing"}
Late == {"deleting", "returned", "gone"}
Codes == Controls \cup {"none", "startup"}
NotStarted == {"new", "acquiring", "ended"}
Served == {"posting", "entering", "waiting", "woken"}

HasPosted(t) == caller[t].at \in {"entering", "waiting"}
SomebodyWaits == HasPosted("handler") \/ HasPosted("serviceMain")
ServiceMainIsDone == caller["serviceMain"].at \in {"unlocking", "done"}

WindowsTypeOK ==
  /\ main \in Early \cup {"loop", "handling", "stopped"} \cup Late
  /\ semaphores \in [first : Nat, second : Nat]
  /\ caller \in [Callers -> [at : NotStarted \cup Served \cup
                                  {"idle", "locking", "unlocking", "done"}, code : Codes]]
  /\ locked \in Callers \cup {NoThread}
  /\ events = << >> \/ \E code \in Codes : events = <<code>>
  /\ quit \in BOOLEAN /\ unannounced \in BOOLEAN

(* Each thread keeps to its part of handler. *)
PlacesFit ==
  /\ caller["serviceMain"].code = "startup" /\ caller["serviceMain"].at # "idle"
  /\ caller["handler"].at \notin NotStarted \cup {"done"}
  /\ caller["handler"].code # "startup"
  /\ caller["handler"].code = "none" => caller["handler"].at = "idle"
  /\ \A t \in Callers : caller[t].at \in Served => caller[t].code # "interrogate"

(* Who has the mutex. *)
LocksFit ==
  \A t \in Callers : caller[t].at \in {"posting", "entering", "unlocking"} => locked = t

(* The manager sends nothing but interrogate before the service runs, so   *)
(* that serviceMain and the handler thread never wait at the same time.    *)
OneIsServed ==
  /\ caller["handler"].at # "idle" => Registered
  /\ caller["handler"].code \notin {"none", "interrogate"} => ServiceMainIsDone
  /\ caller["handler"].at # "idle" /\ caller["handler"].code \notin {"stop", "interrogate"} =>
       status # "stop pending"
  /\ ~ServiceMainIsDone => status \in {"start pending", "stopped"}

(* An event belongs to the thread that waits for it. *)
EventsFit ==
  /\ events # << >> => SomebodyWaits
  /\ main = "handling" => events = << >> /\ SomebodyWaits
  /\ \A t \in Callers : HasPosted(t) =>
       main = "handling" \/ main \in Late \/ events = <<Posted(caller[t].code)>>

(* serviceMain goes on when the event loop is about to run. *)
MainFits ==
  /\ main \in Early =>
       semaphores.second = 0 /\ caller["serviceMain"].at \in {"new", "acquiring"} /\ ~quit
  /\ main \in {"announcing", "loop", "handling"} => handlerObject = "alive"

(* A stop was handled that the manager was told of. *)
EndAnnounced ==
  /\ quit =>
       /\ ServiceMainIsDone
       /\ status \in {"stop pending", "stopped"}
       /\ events = << >>
       /\ caller["handler"].at # "idle" => caller["handler"].code \in {"stop", "interrogate"}
       /\ caller["handler"].at \in {"locking", "posting"} => caller["handler"].code = "interrogate"
       /\ HasPosted("handler") => main = "handling"
  /\ main \in {"stopped", "deleting"} => quit /\ status = "stopped"
  /\ main \in {"returned", "gone"} =>
       quit \/ (semaphores.second = 0 /\ caller["serviceMain"].at \in {"new", "acquiring"})

ProcessInv ==
  /\ WindowsTypeOK /\ PlacesFit /\ LocksFit /\ OneIsServed /\ EventsFit /\ MainFits
  /\ unannounced \/ EndAnnounced

-----------------------------------------------------------------------------
(* The inductive invariant of the controllers. *)

Operations == {"none"} \cup UNION {ControllerUses[k] : k \in Controllers}

ManagerTypeOK ==
  /\ controller \in [Controllers -> [operation : Operations,
       at : {"new", "asking", "opening", "open", "sent", "polling", "returned"},
       polls : Nat, told : BOOLEAN]]
  /\ sender \in Controllers \cup {NoController}
  /\ carried \subseteq Controllers /\ formerly \subseteq Controllers

Stopping == status \in {"stop pending", "stopped"}

(* The handler thread works on the control of the sender, and the event    *)
(* loop has handled it when the handler thread goes on.                    *)
SenderFits ==
  sender # NoController =>
    /\ controller[sender].at = "sent"
    /\ controller[sender].operation \in Controlling
    /\ caller["handler"].code = Code(controller[sender].operation)
    /\ \/ caller["handler"].at \in {"woken", "unlocking", "idle"}
       \/ HasPosted("handler") /\ main = "handling"
       => sender \in carried

(* A stop that was served leaves the service stopping or stopped. *)
StopFits ==
  caller["handler"].code = "stop" /\ caller["handler"].at # "locking" => Stopping

(* No control is served any more. *)
Settled ==
  \/ main = "gone"
  \/ /\ ServiceMainIsDone /\ Stopping
     /\ caller["handler"].at = "idle" \/ caller["handler"].code = "interrogate"

(* The process that served the stop of k serves no other control.          *)
HasStopped(k) == k \in formerly \/ (k \in carried /\ Settled)
HasEnded(k) == k \in formerly \/ (k \in carried /\ Settled /\ ManagerStatus = "stopped")

ControllersFit ==
  \A k \in Controllers :
    /\ controller[k].at = "asking" => controller[k].operation \in {"install", "uninstall", "num"}
    /\ controller[k].at = "polling" => controller[k].operation = "stop" /\ HasStopped(k)
    /\ controller[k].told =>
         /\ controller[k].at = "returned"
         /\ controller[k].operation \in Controlling => k \in carried \cup formerly
         /\ controller[k].operation = "stop" => HasEnded(k)

ManagerInv == ManagerTypeOK /\ SenderFits /\ StopFits /\ ControllersFit

-----------------------------------------------------------------------------
LEMMA WakeAllMoves ==
  ASSUME WindowsTypeOK, WakeAll
  PROVE  /\ \A u \in Callers : caller'[u].at = IF caller[u].at = "waiting" THEN "woken"
                                               ELSE caller[u].at
         /\ \A u \in Callers : caller'[u].code = caller[u].code
         /\ caller' \in [Callers -> [at : NotStarted \cup Served \cup
                                  {"idle", "locking", "unlocking", "done"}, code : Codes]]
BY DEF WindowsTypeOK, WakeAll, Served

LEMMA AtMoves ==
  ASSUME WindowsTypeOK, NEW t \in Callers, NEW where, At(t, where),
         where \in NotStarted \cup Served \cup {"idle", "locking", "unlocking", "done"}
  PROVE  /\ \A u \in Callers : caller'[u].at = IF u = t THEN where ELSE caller[u].at
         /\ \A u \in Callers : caller'[u].code = caller[u].code
         /\ caller' \in [Callers -> [at : NotStarted \cup Served \cup
                                  {"idle", "locking", "unlocking", "done"}, code : Codes]]
BY DEF WindowsTypeOK, At

LEMMA OneEvent ==
  ASSUME NEW code \in Codes
  PROVE  /\ Append(<< >>, code) = <<code>> /\ <<code>> # << >>
         /\ Head(<<code>>) = code /\ Tail(<<code>>) = << >>
OBVIOUS

LEMMA KeepsRunHandlerThread ==
  ASSUME ProcessInv, RunHandlerThread
  PROVE  ProcessInv'
<1>a. semaphores' \in [first : Nat, second : Nat] /\ semaphores'.second = semaphores.second
  BY DEF ProcessInv, WindowsTypeOK, RunHandlerThread
<1>b. UNCHANGED <<main, caller, locked, managed, loopVars>>
  BY DEF RunHandlerThread
<1> USE <1>a, <1>b DEF ProcessInv, WindowsTypeOK, PlacesFit, LocksFit, OneIsServed, EventsFit, MainFits, EndAnnounced,
     HasPosted, SomebodyWaits, ServiceMainIsDone, Registered, Early, Late, Codes, NotStarted, Served, Callers, managed, loopVars
<1>1. WindowsTypeOK'
  OBVIOUS
<1>2. PlacesFit'
  OBVIOUS
<1>3. LocksFit'
  OBVIOUS
<1>4. OneIsServed'
  OBVIOUS
<1>5. EventsFit'
  OBVIOUS
<1>6. MainFits'
  OBVIOUS
<1>7. unannounced' \/ EndAnnounced'
  OBVIOUS
<1> QED
  BY <1>1, <1>2, <1>3, <1>4, <1>5, <1>6, <1>7

LEMMA KeepsTryAcquire ==
  ASSUME ProcessInv, TryAcquire
  PROVE  ProcessInv'
<1>a. semaphores' \in [first : Nat, second : Nat] /\ semaphores'.second = semaphores.second
  BY DEF ProcessInv, WindowsTypeOK, TryAcquire
<1>b. /\ main = "waiting" /\ main' \in {"returned", "starting"}
      /\ UNCHANGED <<caller, locked, managed, loopVars>>
  BY DEF TryAcquire
<1> USE <1>a, <1>b DEF ProcessInv, WindowsTypeOK, PlacesFit, LocksFit, OneIsServed, EventsFit, MainFits, EndAnnounced,
     HasPosted, SomebodyWaits, ServiceMainIsDone, Registered, Early, Late, Codes, NotStarted, Served, Callers, managed, loopVars
<1>1. WindowsTypeOK'
  OBVIOUS
<1>2. PlacesFit'
  OBVIOUS
<1>3. LocksFit'
  OBVIOUS
<1>4. OneIsServed'
  OBVIOUS
<1>5. EventsFit'
  OBVIOUS
<1>6. MainFits'
  OBVIOUS
<1>7. unannounced' \/ EndAnnounced'
  OBVIOUS
<1> QED
  BY <1>1, <1>2, <1>3, <1>4, <1>5, <1>6, <1>7

LEMMA KeepsReleaseServiceMain ==
  ASSUME ProcessInv, ReleaseServiceMain
  PROVE  ProcessInv'
<1>a. semaphores' \in [first : Nat, second : Nat]
  BY DEF ProcessInv, WindowsTypeOK, ReleaseServiceMain
<1>b. /\ main = "announcing" /\ main' = "loop"
      /\ UNCHANGED <<caller, locked, managed, loopVars>>
  BY DEF ReleaseServiceMain
<1> USE <1>a, <1>b DEF ProcessInv, WindowsTypeOK, PlacesFit, LocksFit, OneIsServed, EventsFit, MainFits, EndAnnounced,
     HasPosted, SomebodyWaits, ServiceMainIsDone, Registered, Early, Late, Codes, NotStarted, Served, Callers, managed, loopVars
<1>1. WindowsTypeOK'
  OBVIOUS
<1>2. PlacesFit'
  OBVIOUS
<1>3. LocksFit'
  OBVIOUS
<1>4. OneIsServed'
  OBVIOUS
<1>5. EventsFit'
  OBVIOUS
<1>6. MainFits'
  OBVIOUS
<1>7. unannounced' \/ EndAnnounced'
  OBVIOUS
<1> QED
  BY <1>1, <1>2, <1>3, <1>4, <1>5, <1>6, <1>7

LEMMA KeepsEnterServiceMain ==
  ASSUME ProcessInv, EnterServiceMain
  PROVE  ProcessInv'
<1>a. semaphores' \in [first : Nat, second : Nat] /\ semaphores'.second = semaphores.second
  BY DEF ProcessInv, WindowsTypeOK, EnterServiceMain
<1>b. /\ caller["serviceMain"].at = "new" /\ At("serviceMain", "acquiring")
      /\ UNCHANGED <<main, locked, managed, loopVars>>
  BY DEF EnterServiceMain
<1> USE <1>a, <1>b DEF ProcessInv, WindowsTypeOK, PlacesFit, LocksFit, OneIsServed, EventsFit, MainFits, EndAnnounced,
     HasPosted, SomebodyWaits, ServiceMainIsDone, Registered, Early, Late, Codes, NotStarted, Served, Callers, managed, loopVars, At
<1>1. WindowsTypeOK'
  OBVIOUS
<1>2. PlacesFit'
  OBVIOUS
<1>3. LocksFit'
  OBVIOUS
<1>4. OneIsServed'
  OBVIOUS
<1>5. EventsFit'
  OBVIOUS
<1>6. MainFits'
  OBVIOUS
<1>7. unannounced' \/ EndAnnounced'
  OBVIOUS
<1> QED
  BY <1>1, <1>2, <1>3, <1>4, <1>5, <1>6, <1>7

LEMMA KeepsRegisterHandler ==
  ASSUME ProcessInv, RegisterHandler
  PROVE  ProcessInv'
<1>s. semaphores.second # 0
  BY DEF RegisterHandler
<1>r. main = "returned" => quit \/ unannounced
  BY <1>s DEF ProcessInv, EndAnnounced
<1>a. semaphores' \in [first : Nat, second : Nat]
  BY DEF ProcessInv, WindowsTypeOK, RegisterHandler
<1>b. /\ caller["serviceMain"].at = "acquiring" /\ main \notin Early \cup {"gone"}
      /\ \/ At("serviceMain", "locking") \/ At("serviceMain", "ended")
      /\ UNCHANGED <<main, locked, managed, loopVars>>
  BY <1>s DEF ProcessInv, MainFits, RegisterHandler
<1>c. /\ caller'["serviceMain"].at \in {"locking", "ended"} /\ caller'["handler"] = caller["handler"]
      /\ caller'["serviceMain"].code = caller["serviceMain"].code
      /\ WindowsTypeOK'
  BY <1>a, <1>b DEF ProcessInv, WindowsTypeOK, At, Callers, NotStarted, Served, Early, loopVars
<1> USE <1>a, <1>b, <1>c, <1>r DEF ProcessInv, WindowsTypeOK, PlacesFit, LocksFit, OneIsServed, EventsFit, MainFits, EndAnnounced,
     HasPosted, SomebodyWaits, ServiceMainIsDone, Registered, Early, Late, Codes, NotStarted, Served, Callers, managed, loopVars
<1>1. WindowsTypeOK'
  OBVIOUS
<1>2. PlacesFit'
  OBVIOUS
<1>3. LocksFit'
  OBVIOUS
<1>4. OneIsServed'
  OBVIOUS
<1>5. EventsFit'
  OBVIOUS
<1>6. MainFits'
  OBVIOUS
<1>7. unannounced' \/ EndAnnounced'
  OBVIOUS
<1> QED
  BY <1>1, <1>2, <1>3, <1>4, <1>5, <1>6, <1>7

LEMMA KeepsWake ==
  ASSUME ProcessInv, Wake
  PROVE  ProcessInv'
<1>a. /\ main = "handling" /\ locked = NoThread /\ main' = "loop"
      /\ UNCHANGED <<semaphores, locked, managed, loopVars>>
  BY DEF Wake
<1>b. /\ \A u \in Callers : caller'[u].at = IF caller[u].at = "waiting" THEN "woken"
                                            ELSE caller[u].at
      /\ \A u \in Callers : caller'[u].code = caller[u].code
      /\ WindowsTypeOK'
  BY <1>a, WakeAllMoves DEF ProcessInv, WindowsTypeOK, Wake, loopVars
<1>c. \A u \in Callers : caller[u].at \notin {"posting", "entering", "unlocking"}
  BY <1>a, ThreadAssumption DEF ProcessInv, LocksFit
<1> USE <1>a, <1>b, <1>c DEF ProcessInv, WindowsTypeOK, PlacesFit, LocksFit, OneIsServed, EventsFit, MainFits, EndAnnounced,
     HasPosted, SomebodyWaits, ServiceMainIsDone, Registered, Early, Late, Codes, NotStarted, Served, Callers, managed, loopVars
<1>1. WindowsTypeOK'
  OBVIOUS
<1>2. PlacesFit'
  BY ZenonT(40)
<1>3. LocksFit'
  OBVIOUS
<1>4. OneIsServed'
  OBVIOUS
<1>5. EventsFit'
  OBVIOUS
<1>6. MainFits'
  OBVIOUS
<1>7. unannounced' \/ EndAnnounced'
  OBVIOUS
<1> QED
  BY <1>1, <1>2, <1>3, <1>4, <1>5, <1>6, <1>7

LEMMA KeepsHandleEvent ==
  ASSUME ProcessInv, HandleEvent
  PROVE  ProcessInv'
<1>a. /\ main = "loop" /\ events # << >> /\ main' = "handling"
      /\ UNCHANGED <<semaphores, caller, locked, handlerObject, managed>>
  BY DEF HandleEvent
<1>1. PICK code \in Codes : events = <<code>>
  BY <1>a DEF ProcessInv, WindowsTypeOK
<1>2. events' = << >> /\ Head(events) = code
  BY <1>1, OneEvent DEF HandleEvent
<1>3. \/ code = "stop" /\ quit' = TRUE /\ unannounced' = (unannounced \/ status # "stop pending")
      \/ UNCHANGED <<quit, unannounced>>
  BY <1>2 DEF HandleEvent
<1>4. WindowsTypeOK' /\ PlacesFit' /\ LocksFit' /\ OneIsServed' /\ MainFits'
  BY <1>a, <1>2, <1>3 DEF ProcessInv, WindowsTypeOK, PlacesFit, LocksFit, OneIsServed, MainFits, ServiceMainIsDone, Registered, Early, Late, managed
<1>5. SomebodyWaits
  BY <1>a DEF ProcessInv, EventsFit
<1>6. EventsFit'
  BY <1>a, <1>2, <1>5 DEF EventsFit, SomebodyWaits, HasPosted
<1>7. ASSUME ~unannounced' PROVE EndAnnounced'
  <2>1. ~unannounced /\ EndAnnounced
    BY <1>3, <1>7 DEF ProcessInv, WindowsTypeOK
  <2>2. ~quit
    BY <1>a, <2>1 DEF EndAnnounced
  <2>3. CASE UNCHANGED quit
    BY <2>1, <2>2, <2>3, <1>a DEF EndAnnounced, managed
  <2>4. CASE code = "stop" /\ status = "stop pending"
    <3>1. \A t \in Callers : HasPosted(t) => Posted(caller[t].code) = "stop"
      BY <1>1, <1>a, <2>4, OneEvent DEF ProcessInv, EventsFit, Late
    <3>2. ServiceMainIsDone
      BY <2>4 DEF ProcessInv, OneIsServed
    <3>3. HasPosted("handler") /\ caller["handler"].at # "idle"
      BY <1>5, <3>2 DEF SomebodyWaits, HasPosted, ServiceMainIsDone
    <3>4. caller["handler"].code = "stop"
      BY <3>1, <3>3, <2>4 DEF ProcessInv, OneIsServed, Posted, Callers
    <3> QED
      BY <1>a, <1>2, <2>1, <2>2, <2>4, <3>2, <3>3, <3>4
      DEF EndAnnounced, HasPosted, ServiceMainIsDone, managed
  <2> QED
    BY <1>3, <1>7, <2>3, <2>4
<1> QED
  BY <1>4, <1>6, <1>7 DEF ProcessInv

LEMMA KeepsLock ==
  ASSUME ProcessInv, NEW t \in Callers, Lock(t)
  PROVE  ProcessInv'
<1> DEFINE where == IF caller[t].code = "interrogate" THEN "unlocking" ELSE "posting"
<1>a. /\ caller[t].at = "locking" /\ locked = NoThread /\ locked' = t
      /\ status' = Pending(caller[t].code) /\ At(t, where)
      /\ UNCHANGED <<main, semaphores, loopVars>>
  BY DEF Lock
<1>b. /\ \A u \in Callers : caller'[u].at = IF u = t THEN where ELSE caller[u].at
      /\ \A u \in Callers : caller'[u].code = caller[u].code
      /\ WindowsTypeOK'
  BY <1>a, AtMoves DEF ProcessInv, WindowsTypeOK, loopVars, Served
<1>c. \A u \in Callers : HasPosted(u)' = HasPosted(u)
  BY <1>a, <1>b DEF HasPosted
<1>d. \A u \in Callers : caller[u].at \notin {"posting", "entering", "unlocking"}
  BY <1>a, ThreadAssumption DEF ProcessInv, LocksFit
<1>5. EventsFit'
  BY <1>a, <1>b, <1>c DEF ProcessInv, EventsFit, SomebodyWaits, loopVars, Callers
<1> USE <1>a, <1>b, <1>d DEF ProcessInv, WindowsTypeOK, PlacesFit, LocksFit, OneIsServed, EventsFit, MainFits, EndAnnounced,
     HasPosted, SomebodyWaits, ServiceMainIsDone, Registered, Early, Late, Codes, NotStarted, Served, Callers, managed, loopVars, Pending, Controls
<1>1. WindowsTypeOK'
  OBVIOUS
<1>2. PlacesFit'
  OBVIOUS
<1>3. LocksFit'
  OBVIOUS
<1>4. OneIsServed'
  OBVIOUS
<1>6. MainFits'
  OBVIOUS
<1>7. unannounced' \/ EndAnnounced'
  OBVIOUS
<1> QED
  BY <1>1, <1>2, <1>3, <1>4, <1>5, <1>6, <1>7

(* A thread posts its event when no other one waits. *)
LEMMA PostsAlone ==
  ASSUME ProcessInv, NEW t \in Callers, Post(t)
  PROVE  (\A u \in Callers : ~HasPosted(u)) /\ events = << >> /\ main # "handling"
<1>1. \A u \in Callers : ~HasPosted(u)
  BY DEF Post, ProcessInv, LocksFit, OneIsServed, PlacesFit, HasPosted, Callers, ServiceMainIsDone, Registered, Served, NotStarted
<1> QED
  BY <1>1 DEF ProcessInv, EventsFit, SomebodyWaits, Callers

LEMMA KeepsPost ==
  ASSUME ProcessInv, NEW t \in Callers, Post(t)
  PROVE  ProcessInv'
<1>a. /\ caller[t].at = "posting" /\ At(t, "entering")
      /\ events' = Append(events, Posted(caller[t].code))
      /\ UNCHANGED <<main, semaphores, locked, handlerObject, managed, quit, unannounced>>
  BY DEF Post
<1>b. \A u \in Callers : ~HasPosted(u)
  BY PostsAlone
<1>c. events = << >> /\ main # "handling"
  BY PostsAlone
<1>d. Posted(caller[t].code) \in Codes /\ events' = <<Posted(caller[t].code)>>
  <2>1. Posted(caller[t].code) \in Codes
    BY DEF Posted, ProcessInv, WindowsTypeOK, Codes, Controls
  <2> QED
    BY <1>a, <1>c, <2>1, OneEvent
<1>e. /\ \A u \in Callers : caller'[u].at = IF u = t THEN "entering" ELSE caller[u].at
      /\ \A u \in Callers : caller'[u].code = caller[u].code
      /\ WindowsTypeOK'
  BY <1>a, <1>d, AtMoves DEF ProcessInv, WindowsTypeOK, Served
<1>f. HasPosted(t)' /\ \A u \in Callers : HasPosted(u)' => u = t
  BY <1>b, <1>e DEF HasPosted
<1>5. EventsFit'
  BY <1>a, <1>c, <1>d, <1>e, <1>f DEF EventsFit, SomebodyWaits, Callers
<1> USE <1>a, <1>b, <1>e, <1>c DEF ProcessInv, WindowsTypeOK, PlacesFit, LocksFit, OneIsServed, EventsFit, MainFits, EndAnnounced,
     HasPosted, SomebodyWaits, ServiceMainIsDone, Registered, Early, Late, Codes, NotStarted, Served, Callers, managed, loopVars
<1>1. WindowsTypeOK'
  OBVIOUS
<1>2. PlacesFit'
  BY ZenonT(40)
<1>3. LocksFit'
  OBVIOUS
<1>4. OneIsServed'
  OBVIOUS
<1>6. MainFits'
  OBVIOUS
<1>7. unannounced' \/ EndAnnounced'
  OBVIOUS
<1> QED
  BY <1>1, <1>2, <1>3, <1>4, <1>5, <1>6, <1>7

LEMMA KeepsWait ==
  ASSUME ProcessInv, NEW t \in Callers, Wait(t)
  PROVE  ProcessInv'
<1> USE ThreadAssumption DEF Wait, At, Posted
<1> USE ThreadAssumption DEF ProcessInv, WindowsTypeOK, PlacesFit, LocksFit, OneIsServed, EventsFit, MainFits, EndAnnounced,
     HasPosted, SomebodyWaits, ServiceMainIsDone, Registered, Early, Late, Codes, NotStarted, Served, Callers, managed, loopVars
<1>1. WindowsTypeOK'
  BY ZenonT(40)
<1>2. PlacesFit'
  BY ZenonT(40)
<1>3. LocksFit'
  OBVIOUS
<1>4. OneIsServed'
  OBVIOUS
<1>5. EventsFit'
  BY ZenonT(40)
<1>6. MainFits'
  OBVIOUS
<1>7. unannounced' \/ EndAnnounced'
  OBVIOUS
<1> QED
  BY <1>1, <1>2, <1>3, <1>4, <1>5, <1>6, <1>7

LEMMA KeepsWoken ==
  ASSUME ProcessInv, NEW t \in Callers, Woken(t)
  PROVE  ProcessInv'
<1> USE ThreadAssumption DEF Woken, At, Posted
<1> USE ThreadAssumption DEF ProcessInv, WindowsTypeOK, PlacesFit, LocksFit, OneIsServed, EventsFit, MainFits, EndAnnounced,
     HasPosted, SomebodyWaits, ServiceMainIsDone, Registered, Early, Late, Codes, NotStarted, Served, Callers, managed, loopVars, Done
<1>1. WindowsTypeOK'
  OBVIOUS
<1>2. PlacesFit'
  BY ZenonT(40)
<1>3. LocksFit'
  OBVIOUS
<1>4. OneIsServed'
  OBVIOUS
<1>5. EventsFit'
  BY ZenonT(40)
<1>6. MainFits'
  OBVIOUS
<1>7. unannounced' \/ EndAnnounced'
  OBVIOUS
<1> QED
  BY <1>1, <1>2, <1>3, <1>4, <1>5, <1>6, <1>7

LEMMA KeepsUnlock ==
  ASSUME ProcessInv, NEW t \in Callers, Unlock(t)
  PROVE  ProcessInv'
<1> DEFINE where == IF t = "handler" THEN "idle" ELSE "done"
<1>a. /\ caller[t].at = "unlocking" /\ locked' = NoThread /\ At(t, where)
      /\ UNCHANGED <<main, semaphores, managed, loopVars>>
  BY DEF Unlock
<1>b. /\ \A u \in Callers : caller'[u].at = IF u = t THEN where ELSE caller[u].at
      /\ \A u \in Callers : caller'[u].code = caller[u].code
      /\ WindowsTypeOK'
  BY <1>a, AtMoves DEF ProcessInv, WindowsTypeOK, loopVars
<1>c. \A u \in Callers : HasPosted(u)' = HasPosted(u)
  BY <1>a, <1>b DEF HasPosted
<1>d. \A u \in Callers : caller'[u].at \notin {"posting", "entering", "unlocking"}
  BY <1>a, <1>b DEF ProcessInv, LocksFit
<1>5. EventsFit'
  BY <1>a, <1>b, <1>c DEF ProcessInv, EventsFit, SomebodyWaits, loopVars, Callers
<1> USE <1>a, <1>b, <1>d DEF ProcessInv, WindowsTypeOK, PlacesFit, LocksFit, OneIsServed, EventsFit, MainFits, EndAnnounced,
     HasPosted, SomebodyWaits, ServiceMainIsDone, Registered, Early, Late, Codes, NotStarted, Served, Callers, managed, loopVars
<1>1. WindowsTypeOK'
  OBVIOUS
<1>2. PlacesFit'
  BY ZenonT(40)
<1>3. LocksFit'
  OBVIOUS
<1>4. OneIsServed'
  OBVIOUS
<1>6. MainFits'
  OBVIOUS
<1>7. unannounced' \/ EndAnnounced'
  OBVIOUS
<1> QED
  BY <1>1, <1>2, <1>3, <1>4, <1>5, <1>6, <1>7

LEMMA KeepsControl ==
  ASSUME ProcessInv, NEW code \in Controls, Control(code)
  PROVE  ProcessInv'
<1> USE DEF ProcessInv, WindowsTypeOK, PlacesFit, LocksFit, OneIsServed, EventsFit, MainFits, EndAnnounced,
     HasPosted, SomebodyWaits, ServiceMainIsDone, Registered, Early, Late, Codes, NotStarted, Served, Callers, managed, loopVars, Control, Posted, Controls
<1>1. WindowsTypeOK'
  OBVIOUS
<1>2. PlacesFit'
  OBVIOUS
<1>3. LocksFit'
  OBVIOUS
<1>4. OneIsServed'
  OBVIOUS
<1>5. EventsFit'
  OBVIOUS
<1>6. MainFits'
  OBVIOUS
<1>7. unannounced' \/ EndAnnounced'
  OBVIOUS
<1> QED
  BY <1>1, <1>2, <1>3, <1>4, <1>5, <1>6, <1>7

LEMMA KeepsStartProcess ==
  ASSUME ProcessInv, StartProcess
  PROVE  ProcessInv'
<1>a. /\ main' = "new" /\ semaphores' = [first |-> 0, second |-> 0] /\ locked' = NoThread
      /\ status' = "start pending" /\ events' = << >> /\ quit' = FALSE /\ unannounced' = FALSE
  BY DEF StartProcess, NewSemaphores
<1>b. /\ caller'["handler"].at = "idle" /\ caller'["handler"].code = "none"
      /\ caller'["serviceMain"].at = "new" /\ caller'["serviceMain"].code = "startup"
      /\ caller' \in [Callers -> [at : NotStarted \cup Served \cup
                                  {"idle", "locking", "unlocking", "done"}, code : Codes]]
  BY DEF StartProcess, NewCallers, Callers, NotStarted, Codes
<1> USE <1>a, <1>b DEF Callers, HasPosted, SomebodyWaits, ServiceMainIsDone, Registered, Early, Late
<1>1. WindowsTypeOK'
  BY DEF WindowsTypeOK
<1>2. PlacesFit'
  BY DEF PlacesFit, NotStarted, Served
<1>3. LocksFit'
  BY DEF LocksFit
<1>4. OneIsServed'
  BY DEF OneIsServed
<1>5. EventsFit'
  BY DEF EventsFit
<1>6. MainFits'
  BY DEF MainFits
<1>7. unannounced' \/ EndAnnounced'
  BY DEF EndAnnounced
<1> QED
  BY <1>1, <1>2, <1>3, <1>4, <1>5, <1>6, <1>7 DEF ProcessInv

LEMMA KeepsStartHandlerThread ==
  ASSUME ProcessInv, StartHandlerThread
  PROVE  ProcessInv'
BY DEF ProcessInv, WindowsTypeOK, PlacesFit, LocksFit, OneIsServed, EventsFit, MainFits, EndAnnounced,
  HasPosted, SomebodyWaits, ServiceMainIsDone, Registered, Early, Late, Codes, NotStarted, Served, Callers, managed, loopVars, StartHandlerThread

LEMMA KeepsCreateApplication ==
  ASSUME ProcessInv, CreateApplication
  PROVE  ProcessInv'
BY DEF ProcessInv, WindowsTypeOK, PlacesFit, LocksFit, OneIsServed, EventsFit, MainFits, EndAnnounced,
  HasPosted, SomebodyWaits, ServiceMainIsDone, Registered, Early, Late, Codes, NotStarted, Served, Callers, managed, loopVars, CreateApplication

LEMMA KeepsQuitItself ==
  ASSUME ProcessInv, QuitItself
  PROVE  ProcessInv'
BY ZenonT(40) DEF ProcessInv, WindowsTypeOK, PlacesFit, LocksFit, OneIsServed, EventsFit, MainFits, EndAnnounced,
  HasPosted, SomebodyWaits, ServiceMainIsDone, Registered, Early, Late, Codes, NotStarted, Served, Callers, managed, loopVars, QuitItself

LEMMA KeepsLoopReturns ==
  ASSUME ProcessInv, LoopReturns
  PROVE  ProcessInv'
BY DEF ProcessInv, WindowsTypeOK, PlacesFit, LocksFit, OneIsServed, EventsFit, MainFits, EndAnnounced,
  HasPosted, SomebodyWaits, ServiceMainIsDone, Registered, Early, Late, Codes, NotStarted, Served, Callers, managed, loopVars, LoopReturns

LEMMA KeepsHandlerThreadEnds ==
  ASSUME ProcessInv, HandlerThreadEnds
  PROVE  ProcessInv'
BY DEF ProcessInv, WindowsTypeOK, PlacesFit, LocksFit, OneIsServed, EventsFit, MainFits, EndAnnounced,
  HasPosted, SomebodyWaits, ServiceMainIsDone, Registered, Early, Late, Codes, NotStarted, Served, Callers, managed, loopVars, HandlerThreadEnds

LEMMA KeepsDeleteHandlerObject ==
  ASSUME ProcessInv, DeleteHandlerObject
  PROVE  ProcessInv'
BY DEF ProcessInv, WindowsTypeOK, PlacesFit, LocksFit, OneIsServed, EventsFit, MainFits, EndAnnounced,
  HasPosted, SomebodyWaits, ServiceMainIsDone, Registered, Early, Late, Codes, NotStarted, Served, Callers, managed, loopVars, DeleteHandlerObject

LEMMA KeepsReturnFromStart ==
  ASSUME ProcessInv, ReturnFromStart
  PROVE  ProcessInv'
BY ZenonT(40) DEF ProcessInv, WindowsTypeOK, PlacesFit, LocksFit, OneIsServed, EventsFit, MainFits, EndAnnounced,
  HasPosted, SomebodyWaits, ServiceMainIsDone, Registered, Early, Late, Codes, NotStarted, Served, Callers, managed, loopVars, ReturnFromStart

LEMMA KeepsExit ==
  ASSUME ProcessInv, Exit
  PROVE  ProcessInv'
BY ZenonT(40) DEF ProcessInv, WindowsTypeOK, PlacesFit, LocksFit, OneIsServed, EventsFit, MainFits, EndAnnounced,
  HasPosted, SomebodyWaits, ServiceMainIsDone, Registered, Early, Late, Codes, NotStarted, Served, Callers, managed, loopVars, Exit

LEMMA KeepsSetFlags ==
  ASSUME ProcessInv, NEW f \in WindowsFlags, SetFlags(f)
  PROVE  ProcessInv'
<1>a. /\ main \in {"loop", "handling"} /\ UNCHANGED <<main, semaphores, caller, locked, loopVars>>
      /\ status' = IF caller["serviceMain"].at = "locking" THEN "stopped" ELSE status
  BY DEF SetFlags
<1> USE <1>a DEF ProcessInv, WindowsTypeOK, PlacesFit, LocksFit, OneIsServed, EventsFit, MainFits, EndAnnounced,
     HasPosted, SomebodyWaits, ServiceMainIsDone, Registered, Early, Late, Codes, NotStarted, Served, Callers, managed, loopVars
<1>1. WindowsTypeOK'
  OBVIOUS
<1>2. PlacesFit'
  OBVIOUS
<1>3. LocksFit'
  OBVIOUS
<1>4. OneIsServed'
  OBVIOUS
<1>5. EventsFit'
  OBVIOUS
<1>6. MainFits'
  OBVIOUS
<1>7. unannounced' \/ EndAnnounced'
  OBVIOUS
<1> QED
  BY <1>1, <1>2, <1>3, <1>4, <1>5, <1>6, <1>7

-----------------------------------------------------------------------------
(* What a step of the process leaves true of the controllers. *)
StillFits ==
  /\ SenderFits' /\ StopFits'
  /\ Settled => Settled'
  /\ Settled /\ ManagerStatus = "stopped" => ManagerStatus' = "stopped"

LEMMA CodesOfControllers ==
  ASSUME NEW operation \in Controlling
  PROVE  Code(operation) \in {"stop", "pause", "continue", "user"}
BY DEF Controlling, Code

LEMMA SettledIsLate ==
  ASSUME ProcessInv, Settled
  PROVE  main \notin Early
BY DEF ProcessInv, Settled, MainFits, ServiceMainIsDone, Early

(* The steps of the main thread that leave the callers alone. *)

LEMMA FitsStartHandlerThread ==
  ASSUME ProcessInv, ManagerInv, StartHandlerThread, UNCHANGED managerVars
  PROVE  StillFits
<1>t. WindowsTypeOK /\ SenderFits /\ StopFits /\ OneIsServed
  BY DEF ProcessInv, ManagerInv
<1>a. /\ main = "new" /\ main' = "waiting"
      /\ UNCHANGED <<caller, status>>
  BY DEF StartHandlerThread, managed
<1> USE <1>t, <1>a, SettledIsLate DEF StillFits, SenderFits, StopFits, Settled, Stopping, ServiceMainIsDone,
     ManagerStatus, HasPosted, managerVars, Early
<1>1. SenderFits'
  OBVIOUS
<1>2. StopFits'
  OBVIOUS
<1>3. Settled => Settled'
  OBVIOUS
<1>4. Settled /\ ManagerStatus = "stopped" => ManagerStatus' = "stopped"
  OBVIOUS
<1> QED
  BY <1>1, <1>2, <1>3, <1>4

LEMMA FitsTryAcquire ==
  ASSUME ProcessInv, ManagerInv, TryAcquire, UNCHANGED managerVars
  PROVE  StillFits
<1>t. WindowsTypeOK /\ SenderFits /\ StopFits /\ OneIsServed
  BY DEF ProcessInv, ManagerInv
<1>a. /\ main = "waiting" /\ main' \in {"returned", "starting"}
      /\ UNCHANGED <<caller, status>>
  BY DEF TryAcquire, managed
<1> USE <1>t, <1>a, SettledIsLate DEF StillFits, SenderFits, StopFits, Settled, Stopping, ServiceMainIsDone,
     ManagerStatus, HasPosted, managerVars, Early
<1>1. SenderFits'
  OBVIOUS
<1>2. StopFits'
  OBVIOUS
<1>3. Settled => Settled'
  OBVIOUS
<1>4. Settled /\ ManagerStatus = "stopped" => ManagerStatus' = "stopped"
  OBVIOUS
<1> QED
  BY <1>1, <1>2, <1>3, <1>4

LEMMA FitsCreateApplication ==
  ASSUME ProcessInv, ManagerInv, CreateApplication, UNCHANGED managerVars
  PROVE  StillFits
<1>t. WindowsTypeOK /\ SenderFits /\ StopFits /\ OneIsServed
  BY DEF ProcessInv, ManagerInv
<1>a. /\ main = "starting" /\ main' \in {"announcing", "returned"}
      /\ UNCHANGED <<caller, status>>
  BY DEF CreateApplication, managed
<1> USE <1>t, <1>a, SettledIsLate DEF StillFits, SenderFits, StopFits, Settled, Stopping, ServiceMainIsDone,
     ManagerStatus, HasPosted, managerVars, Early
<1>1. SenderFits'
  OBVIOUS
<1>2. StopFits'
  OBVIOUS
<1>3. Settled => Settled'
  OBVIOUS
<1>4. Settled /\ ManagerStatus = "stopped" => ManagerStatus' = "stopped"
  OBVIOUS
<1> QED
  BY <1>1, <1>2, <1>3, <1>4

LEMMA FitsReleaseServiceMain ==
  ASSUME ProcessInv, ManagerInv, ReleaseServiceMain, UNCHANGED managerVars
  PROVE  StillFits
<1>t. WindowsTypeOK /\ SenderFits /\ StopFits /\ OneIsServed
  BY DEF ProcessInv, ManagerInv
<1>a. /\ main = "announcing" /\ main' = "loop"
      /\ UNCHANGED <<caller, status>>
  BY DEF ReleaseServiceMain, managed
<1> USE <1>t, <1>a, SettledIsLate DEF StillFits, SenderFits, StopFits, Settled, Stopping, ServiceMainIsDone,
     ManagerStatus, HasPosted, managerVars, Early
<1>1. SenderFits'
  OBVIOUS
<1>2. StopFits'
  OBVIOUS
<1>3. Settled => Settled'
  OBVIOUS
<1>4. Settled /\ ManagerStatus = "stopped" => ManagerStatus' = "stopped"
  OBVIOUS
<1> QED
  BY <1>1, <1>2, <1>3, <1>4

LEMMA FitsDeleteHandlerObject ==
  ASSUME ProcessInv, ManagerInv, DeleteHandlerObject, UNCHANGED managerVars
  PROVE  StillFits
<1>t. WindowsTypeOK /\ SenderFits /\ StopFits /\ OneIsServed
  BY DEF ProcessInv, ManagerInv
<1>a. /\ main = "stopped" /\ main' = "deleting"
      /\ UNCHANGED <<caller, status>>
  BY DEF DeleteHandlerObject, managed
<1> USE <1>t, <1>a, SettledIsLate DEF StillFits, SenderFits, StopFits, Settled, Stopping, ServiceMainIsDone,
     ManagerStatus, HasPosted, managerVars, Early
<1>1. SenderFits'
  OBVIOUS
<1>2. StopFits'
  OBVIOUS
<1>3. Settled => Settled'
  OBVIOUS
<1>4. Settled /\ ManagerStatus = "stopped" => ManagerStatus' = "stopped"
  OBVIOUS
<1> QED
  BY <1>1, <1>2, <1>3, <1>4

LEMMA FitsReturnFromStart ==
  ASSUME ProcessInv, ManagerInv, ReturnFromStart, UNCHANGED managerVars
  PROVE  StillFits
<1>t. WindowsTypeOK /\ SenderFits /\ StopFits /\ OneIsServed
  BY DEF ProcessInv, ManagerInv
<1>a. /\ main = "deleting" /\ main' = "returned"
      /\ UNCHANGED <<caller, status>>
  BY DEF ReturnFromStart, managed
<1> USE <1>t, <1>a, SettledIsLate DEF StillFits, SenderFits, StopFits, Settled, Stopping, ServiceMainIsDone,
     ManagerStatus, HasPosted, managerVars, Early
<1>1. SenderFits'
  OBVIOUS
<1>2. StopFits'
  OBVIOUS
<1>3. Settled => Settled'
  OBVIOUS
<1>4. Settled /\ ManagerStatus = "stopped" => ManagerStatus' = "stopped"
  OBVIOUS
<1> QED
  BY <1>1, <1>2, <1>3, <1>4

LEMMA FitsExit ==
  ASSUME ProcessInv, ManagerInv, Exit, UNCHANGED managerVars
  PROVE  StillFits
<1>t. WindowsTypeOK /\ SenderFits /\ StopFits /\ OneIsServed
  BY DEF ProcessInv, ManagerInv
<1>a. /\ main = "returned" /\ main' = "gone"
      /\ UNCHANGED <<caller, status>>
  BY DEF Exit, managed
<1> USE <1>t, <1>a, SettledIsLate DEF StillFits, SenderFits, StopFits, Settled, Stopping, ServiceMainIsDone,
     ManagerStatus, HasPosted, managerVars, Early
<1>1. SenderFits'
  OBVIOUS
<1>2. StopFits'
  OBVIOUS
<1>3. Settled => Settled'
  OBVIOUS
<1>4. Settled /\ ManagerStatus = "stopped" => ManagerStatus' = "stopped"
  OBVIOUS
<1> QED
  BY <1>1, <1>2, <1>3, <1>4

LEMMA FitsRunHandlerThread ==
  ASSUME ProcessInv, ManagerInv, RunHandlerThread, UNCHANGED managerVars
  PROVE  StillFits
<1>t. WindowsTypeOK /\ SenderFits /\ StopFits /\ OneIsServed
  BY DEF ProcessInv, ManagerInv
<1>a. UNCHANGED <<main, caller, status>>
  BY DEF RunHandlerThread, managed
<1> USE <1>t, <1>a DEF StillFits, SenderFits, StopFits, Settled, Stopping, ServiceMainIsDone,
     ManagerStatus, HasPosted, managerVars
<1>1. SenderFits'
  OBVIOUS
<1>2. StopFits'
  OBVIOUS
<1>3. Settled => Settled'
  OBVIOUS
<1>4. Settled /\ ManagerStatus = "stopped" => ManagerStatus' = "stopped"
  OBVIOUS
<1> QED
  BY <1>1, <1>2, <1>3, <1>4

LEMMA FitsQuitItself ==
  ASSUME ProcessInv, ManagerInv, QuitItself, UNCHANGED managerVars
  PROVE  StillFits
<1>t. WindowsTypeOK /\ SenderFits /\ StopFits /\ OneIsServed
  BY DEF ProcessInv, ManagerInv
<1>a. UNCHANGED <<main, caller, status>>
  BY DEF QuitItself, managed
<1> USE <1>t, <1>a DEF StillFits, SenderFits, StopFits, Settled, Stopping, ServiceMainIsDone,
     ManagerStatus, HasPosted, managerVars
<1>1. SenderFits'
  OBVIOUS
<1>2. StopFits'
  OBVIOUS
<1>3. Settled => Settled'
  OBVIOUS
<1>4. Settled /\ ManagerStatus = "stopped" => ManagerStatus' = "stopped"
  OBVIOUS
<1> QED
  BY <1>1, <1>2, <1>3, <1>4

LEMMA FitsHandlerThreadEnds ==
  ASSUME ProcessInv, ManagerInv, HandlerThreadEnds, UNCHANGED managerVars
  PROVE  StillFits
<1>t. WindowsTypeOK /\ SenderFits /\ StopFits /\ OneIsServed
  BY DEF ProcessInv, ManagerInv
<1>a. UNCHANGED <<main, caller, status>>
  BY DEF HandlerThreadEnds, managed
<1> USE <1>t, <1>a DEF StillFits, SenderFits, StopFits, Settled, Stopping, ServiceMainIsDone,
     ManagerStatus, HasPosted, managerVars
<1>1. SenderFits'
  OBVIOUS
<1>2. StopFits'
  OBVIOUS
<1>3. Settled => Settled'
  OBVIOUS
<1>4. Settled /\ ManagerStatus = "stopped" => ManagerStatus' = "stopped"
  OBVIOUS
<1> QED
  BY <1>1, <1>2, <1>3, <1>4

LEMMA FitsSetFlags ==
  ASSUME ProcessInv, ManagerInv, NEW f, SetFlags(f), UNCHANGED managerVars
  PROVE  StillFits
<1>t. WindowsTypeOK /\ SenderFits /\ StopFits /\ OneIsServed
  BY DEF ProcessInv, ManagerInv
<1>a. /\ main \in {"loop", "handling"} /\ UNCHANGED <<main, caller>>
      /\ status' = IF caller["serviceMain"].at = "locking" THEN "stopped" ELSE status
  BY DEF SetFlags
<1> USE <1>t, <1>a DEF StillFits, SenderFits, StopFits, Settled, Stopping, ServiceMainIsDone,
     ManagerStatus, HasPosted, managerVars
<1>1. SenderFits'
  OBVIOUS
<1>2. StopFits'
  OBVIOUS
<1>3. Settled => Settled'
  OBVIOUS
<1>4. Settled /\ ManagerStatus = "stopped" => ManagerStatus' = "stopped"
  OBVIOUS
<1> QED
  BY <1>1, <1>2, <1>3, <1>4

LEMMA FitsLoopReturns ==
  ASSUME ProcessInv, ManagerInv, LoopReturns, UNCHANGED managerVars
  PROVE  StillFits
<1>t. WindowsTypeOK /\ SenderFits /\ StopFits /\ OneIsServed
  BY DEF ProcessInv, ManagerInv
<1>a. /\ main = "loop" /\ main' = "stopped" /\ UNCHANGED caller
      /\ status' = "stopped" \/ (status' = status /\ ~Registered)
  BY DEF LoopReturns
<1> USE <1>t, <1>a DEF StillFits, SenderFits, StopFits, Settled, Stopping, ServiceMainIsDone,
     ManagerStatus, HasPosted, managerVars
<1>1. SenderFits'
  OBVIOUS
<1>2. StopFits'
  OBVIOUS
<1>3. Settled => Settled'
  OBVIOUS
<1>4. Settled /\ ManagerStatus = "stopped" => ManagerStatus' = "stopped"
  OBVIOUS
<1> QED
  BY <1>1, <1>2, <1>3, <1>4

LEMMA FitsEnterServiceMain ==
  ASSUME ProcessInv, ManagerInv, EnterServiceMain, UNCHANGED managerVars
  PROVE  StillFits
<1>t. WindowsTypeOK /\ SenderFits /\ StopFits /\ OneIsServed
  BY DEF ProcessInv, ManagerInv
<1>a. /\ caller["serviceMain"].at = "new" /\ caller'["handler"] = caller["handler"]
      /\ UNCHANGED <<main, status>>
  BY <1>t DEF EnterServiceMain, WindowsTypeOK, At, Callers, managed
<1> USE <1>t, <1>a DEF StillFits, SenderFits, StopFits, Settled, Stopping, ServiceMainIsDone,
     ManagerStatus, HasPosted, managerVars
<1>1. SenderFits'
  OBVIOUS
<1>2. StopFits'
  OBVIOUS
<1>3. Settled => Settled'
  OBVIOUS
<1>4. Settled /\ ManagerStatus = "stopped" => ManagerStatus' = "stopped"
  OBVIOUS
<1> QED
  BY <1>1, <1>2, <1>3, <1>4

LEMMA FitsRegisterHandler ==
  ASSUME ProcessInv, ManagerInv, RegisterHandler, UNCHANGED managerVars
  PROVE  StillFits
<1>t. WindowsTypeOK /\ SenderFits /\ StopFits /\ OneIsServed
  BY DEF ProcessInv, ManagerInv
<1>a. /\ caller["serviceMain"].at = "acquiring" /\ caller'["handler"] = caller["handler"]
      /\ UNCHANGED <<main, status>>
  BY <1>t DEF RegisterHandler, WindowsTypeOK, At, Callers, managed
<1> USE <1>t, <1>a DEF StillFits, SenderFits, StopFits, Settled, Stopping, ServiceMainIsDone,
     ManagerStatus, HasPosted, managerVars
<1>1. SenderFits'
  OBVIOUS
<1>2. StopFits'
  OBVIOUS
<1>3. Settled => Settled'
  OBVIOUS
<1>4. Settled /\ ManagerStatus = "stopped" => ManagerStatus' = "stopped"
  OBVIOUS
<1> QED
  BY <1>1, <1>2, <1>3, <1>4

LEMMA FitsLock ==
  ASSUME ProcessInv, ManagerInv, NEW t \in Callers, Lock(t), UNCHANGED managerVars
  PROVE  StillFits
<1>t. WindowsTypeOK /\ SenderFits /\ StopFits /\ OneIsServed
  BY DEF ProcessInv, ManagerInv
<1> DEFINE where == IF caller[t].code = "interrogate" THEN "unlocking" ELSE "posting"
<1>a. /\ caller[t].at = "locking" /\ At(t, where) /\ status' = Pending(caller[t].code)
      /\ UNCHANGED <<main, managerVars>>
  BY DEF Lock, managed
<1>b. /\ \A u \in Callers : caller'[u].at = IF u = t THEN where ELSE caller[u].at
      /\ \A u \in Callers : caller'[u].code = caller[u].code
  BY <1>t, <1>a, AtMoves DEF Served
<1>c. t = "handler" \/ (t = "serviceMain" /\ caller[t].code = "startup")
  BY DEF Callers, ProcessInv, PlacesFit
<1> USE <1>t, <1>a, <1>b, <1>c, CodesOfControllers DEF StillFits, SenderFits, StopFits, Settled, Stopping, ServiceMainIsDone,
     ManagerStatus, HasPosted, managerVars, OneIsServed, Callers, Pending
<1>1. SenderFits'
  OBVIOUS
<1>2. StopFits'
  OBVIOUS
<1>3. Settled => Settled'
  OBVIOUS
<1>4. Settled /\ ManagerStatus = "stopped" => ManagerStatus' = "stopped"
  OBVIOUS
<1> QED
  BY <1>1, <1>2, <1>3, <1>4

LEMMA FitsPost ==
  ASSUME ProcessInv, ManagerInv, NEW t \in Callers, Post(t), UNCHANGED managerVars
  PROVE  StillFits
<1>t. WindowsTypeOK /\ SenderFits /\ StopFits /\ OneIsServed
  BY DEF ProcessInv, ManagerInv
<1> DEFINE where == "entering"
<1>a. /\ caller[t].at = "posting" /\ At(t, where) /\ status' = status
      /\ UNCHANGED <<main, managerVars>>
  BY DEF Post, managed
<1>b. /\ \A u \in Callers : caller'[u].at = IF u = t THEN where ELSE caller[u].at
      /\ \A u \in Callers : caller'[u].code = caller[u].code
  BY <1>t, <1>a, AtMoves DEF Served
<1>c. t = "handler" \/ (t = "serviceMain" /\ caller[t].code = "startup")
  BY DEF Callers, ProcessInv, PlacesFit
<1>d. main # "handling"
  BY PostsAlone
<1> USE <1>t, <1>a, <1>b, <1>c, CodesOfControllers, <1>d DEF StillFits, SenderFits, StopFits, Settled, Stopping, ServiceMainIsDone,
     ManagerStatus, HasPosted, managerVars, OneIsServed, Callers
<1>1. SenderFits'
  OBVIOUS
<1>2. StopFits'
  OBVIOUS
<1>3. Settled => Settled'
  OBVIOUS
<1>4. Settled /\ ManagerStatus = "stopped" => ManagerStatus' = "stopped"
  OBVIOUS
<1> QED
  BY <1>1, <1>2, <1>3, <1>4

LEMMA FitsWait ==
  ASSUME ProcessInv, ManagerInv, NEW t \in Callers, Wait(t), UNCHANGED managerVars
  PROVE  StillFits
<1>t. WindowsTypeOK /\ SenderFits /\ StopFits /\ OneIsServed
  BY DEF ProcessInv, ManagerInv
<1> DEFINE where == "waiting"
<1>a. /\ caller[t].at = "entering" /\ At(t, where) /\ status' = status
      /\ UNCHANGED <<main, managerVars>>
  BY DEF Wait, managed
<1>b. /\ \A u \in Callers : caller'[u].at = IF u = t THEN where ELSE caller[u].at
      /\ \A u \in Callers : caller'[u].code = caller[u].code
  BY <1>t, <1>a, AtMoves DEF Served
<1>c. t = "handler" \/ (t = "serviceMain" /\ caller[t].code = "startup")
  BY DEF Callers, ProcessInv, PlacesFit
<1> USE <1>t, <1>a, <1>b, <1>c, CodesOfControllers DEF StillFits, SenderFits, StopFits, Settled, Stopping, ServiceMainIsDone,
     ManagerStatus, HasPosted, managerVars, OneIsServed, Callers
<1>1. SenderFits'
  OBVIOUS
<1>2. StopFits'
  OBVIOUS
<1>3. Settled => Settled'
  OBVIOUS
<1>4. Settled /\ ManagerStatus = "stopped" => ManagerStatus' = "stopped"
  OBVIOUS
<1> QED
  BY <1>1, <1>2, <1>3, <1>4

LEMMA FitsWoken ==
  ASSUME ProcessInv, ManagerInv, NEW t \in Callers, Woken(t), UNCHANGED managerVars
  PROVE  StillFits
<1>t. WindowsTypeOK /\ SenderFits /\ StopFits /\ OneIsServed
  BY DEF ProcessInv, ManagerInv
<1> DEFINE where == "unlocking"
<1>a. /\ caller[t].at = "woken" /\ At(t, where) /\ status' = Done(caller[t].code)
      /\ UNCHANGED <<main, managerVars>>
  BY DEF Woken, managed
<1>b. /\ \A u \in Callers : caller'[u].at = IF u = t THEN where ELSE caller[u].at
      /\ \A u \in Callers : caller'[u].code = caller[u].code
  BY <1>t, <1>a, AtMoves DEF Served
<1>c. t = "handler" \/ (t = "serviceMain" /\ caller[t].code = "startup")
  BY DEF Callers, ProcessInv, PlacesFit
<1> USE <1>t, <1>a, <1>b, <1>c, CodesOfControllers DEF StillFits, SenderFits, StopFits, Settled, Stopping, ServiceMainIsDone,
     ManagerStatus, HasPosted, managerVars, OneIsServed, Callers, Done
<1>1. SenderFits'
  OBVIOUS
<1>2. StopFits'
  OBVIOUS
<1>3. Settled => Settled'
  OBVIOUS
<1>4. Settled /\ ManagerStatus = "stopped" => ManagerStatus' = "stopped"
  OBVIOUS
<1> QED
  BY <1>1, <1>2, <1>3, <1>4

LEMMA FitsUnlock ==
  ASSUME ProcessInv, ManagerInv, NEW t \in Callers, Unlock(t), UNCHANGED managerVars
  PROVE  StillFits
<1>t. WindowsTypeOK /\ SenderFits /\ StopFits /\ OneIsServed
  BY DEF ProcessInv, ManagerInv
<1> DEFINE where == IF t = "handler" THEN "idle" ELSE "done"
<1>a. /\ caller[t].at = "unlocking" /\ At(t, where) /\ status' = status
      /\ UNCHANGED <<main, managerVars>>
  BY DEF Unlock, managed
<1>b. /\ \A u \in Callers : caller'[u].at = IF u = t THEN where ELSE caller[u].at
      /\ \A u \in Callers : caller'[u].code = caller[u].code
  BY <1>t, <1>a, AtMoves DEF Served
<1>c. t = "handler" \/ (t = "serviceMain" /\ caller[t].code = "startup")
  BY DEF Callers, ProcessInv, PlacesFit
<1> USE <1>t, <1>a, <1>b, <1>c, CodesOfControllers DEF StillFits, SenderFits, StopFits, Settled, Stopping, ServiceMainIsDone,
     ManagerStatus, HasPosted, managerVars, OneIsServed, Callers
<1>1. SenderFits'
  OBVIOUS
<1>2. StopFits'
  OBVIOUS
<1>3. Settled => Settled'
  OBVIOUS
<1>4. Settled /\ ManagerStatus = "stopped" => ManagerStatus' = "stopped"
  OBVIOUS
<1> QED
  BY <1>1, <1>2, <1>3, <1>4

LEMMA FitsWake ==
  ASSUME ProcessInv, ManagerInv, Wake, UNCHANGED managerVars
  PROVE  StillFits
<1>t. WindowsTypeOK /\ SenderFits /\ StopFits /\ OneIsServed
  BY DEF ProcessInv, ManagerInv
<1>a. /\ main = "handling" /\ main' = "loop" /\ UNCHANGED <<status, managerVars>>
  BY DEF Wake, managed
<1>b. /\ \A u \in Callers : caller'[u].at = IF caller[u].at = "waiting" THEN "woken"
                                            ELSE caller[u].at
      /\ \A u \in Callers : caller'[u].code = caller[u].code
  BY <1>t, WakeAllMoves DEF Wake
<1> USE <1>t, <1>a, <1>b DEF StillFits, SenderFits, StopFits, Settled, Stopping, ServiceMainIsDone,
     ManagerStatus, HasPosted, managerVars, Callers
<1>1. SenderFits'
  OBVIOUS
<1>2. StopFits'
  OBVIOUS
<1>3. Settled => Settled'
  OBVIOUS
<1>4. Settled /\ ManagerStatus = "stopped" => ManagerStatus' = "stopped"
  OBVIOUS
<1> QED
  BY <1>1, <1>2, <1>3, <1>4

LEMMA FitsProcessStep ==
  ASSUME ProcessInv, ManagerInv, ProcessStep, UNCHANGED managerVars
  PROVE  StillFits
<1>1. CASE \E t \in Callers : Lock(t) \/ Post(t) \/ Wait(t) \/ Woken(t) \/ Unlock(t)
  BY <1>1, FitsLock, FitsPost, FitsWait, FitsWoken, FitsUnlock
<1>2. CASE StartHandlerThread \/ RunHandlerThread \/ TryAcquire \/ CreateApplication
           \/ ReleaseServiceMain \/ EnterServiceMain \/ RegisterHandler
  BY <1>2, FitsStartHandlerThread, FitsRunHandlerThread, FitsTryAcquire, FitsCreateApplication,
     FitsReleaseServiceMain, FitsEnterServiceMain, FitsRegisterHandler
<1>3. CASE Wake \/ QuitItself \/ LoopReturns \/ HandlerThreadEnds
           \/ DeleteHandlerObject \/ ReturnFromStart \/ Exit
  BY <1>3, FitsWake, FitsQuitItself, FitsLoopReturns, FitsHandlerThreadEnds,
     FitsDeleteHandlerObject, FitsReturnFromStart, FitsExit
<1>4. CASE \E f \in WindowsFlags : SetFlags(f)
  BY <1>4, FitsSetFlags
<1> QED
  BY <1>1, <1>2, <1>3, <1>4 DEF ProcessStep

LEMMA KeepsProcessStep ==
  ASSUME ProcessInv, ProcessStep
  PROVE  ProcessInv'
<1>1. CASE \E t \in Callers : Lock(t) \/ Post(t) \/ Wait(t) \/ Woken(t) \/ Unlock(t)
  BY <1>1, KeepsLock, KeepsPost, KeepsWait, KeepsWoken, KeepsUnlock
<1>2. CASE StartHandlerThread \/ RunHandlerThread \/ TryAcquire \/ CreateApplication
           \/ ReleaseServiceMain \/ EnterServiceMain \/ RegisterHandler
  BY <1>2, KeepsStartHandlerThread, KeepsRunHandlerThread, KeepsTryAcquire, KeepsCreateApplication,
     KeepsReleaseServiceMain, KeepsEnterServiceMain, KeepsRegisterHandler
<1>3. CASE Wake \/ QuitItself \/ LoopReturns \/ HandlerThreadEnds
           \/ DeleteHandlerObject \/ ReturnFromStart \/ Exit
  BY <1>3, KeepsWake, KeepsQuitItself, KeepsLoopReturns, KeepsHandlerThreadEnds,
     KeepsDeleteHandlerObject, KeepsReturnFromStart, KeepsExit
<1>4. CASE \E f \in WindowsFlags : SetFlags(f)
  BY <1>4, KeepsSetFlags
<1> QED
  BY <1>1, <1>2, <1>3, <1>4 DEF ProcessStep

(* A step of the controllers only. *)
LEMMA KeepsUnchanged ==
  ASSUME ProcessInv, UNCHANGED windowsVars
  PROVE  ProcessInv'
<1> USE DEF ProcessInv, WindowsTypeOK, PlacesFit, LocksFit, OneIsServed, EventsFit, MainFits, EndAnnounced,
     HasPosted, SomebodyWaits, ServiceMainIsDone, Registered, Early, Late, Codes, NotStarted, Served, Callers, managed, loopVars, windowsVars
<1>1. WindowsTypeOK'
  OBVIOUS
<1>2. PlacesFit'
  OBVIOUS
<1>3. LocksFit'
  OBVIOUS
<1>4. OneIsServed'
  OBVIOUS
<1>5. EventsFit'
  OBVIOUS
<1>6. MainFits'
  OBVIOUS
<1>7. unannounced' \/ EndAnnounced'
  OBVIOUS
<1> QED
  BY <1>1, <1>2, <1>3, <1>4, <1>5, <1>6, <1>7

LEMMA ProcessKept ==
  ASSUME ProcessInv, [ManagerNext]_<<windowsVars, managerVars>>
  PROVE  ProcessInv'
<1>1. CASE UNCHANGED <<windowsVars, managerVars>> \/ Forget
  BY <1>1, KeepsUnchanged DEF Forget
<1>2. CASE ProcessStep
  BY <1>2, KeepsProcessStep
<1>3. CASE HandleControl \/ StartsItself \/ \E code \in Controls : OtherControl(code)
  BY <1>3, KeepsHandleEvent, KeepsStartProcess, KeepsControl
  DEF HandleControl, StartsItself, StartedByManager, OtherControl
<1>4. ASSUME NEW k \in Controllers,
             \/ \E operation \in ControllerUses[k] : CallController(k, operation)
             \/ Ask(k) \/ OpenService(k) \/ CreateService(k) \/ DeleteService(k)
             \/ ControlReturns(k) \/ Poll(k) \/ Fails(k)
      PROVE  ProcessInv'
  BY <1>4, KeepsUnchanged DEF CallController, Ask, OpenService, CreateService, DeleteService,
     ControlReturns, Poll, Fails
<1>5. ASSUME NEW k \in Controllers, RequestStart(k) PROVE ProcessInv'
  BY <1>5, KeepsStartProcess DEF RequestStart, StartedByManager
<1>6. ASSUME NEW k \in Controllers, ControlService(k) PROVE ProcessInv'
  BY <1>6, KeepsControl, CodesOfControllers DEF ControlService, Controls
<1> QED
  BY <1>1, <1>2, <1>3, <1>4, <1>5, <1>6 DEF ManagerNext

LEMMA ProcessStarts ==
  ASSUME ManagerInit
  PROVE  ProcessInv
<1>a. /\ main = "none" /\ semaphores \in [first : Nat, second : Nat] /\ semaphores.second = 0
      /\ caller["handler"].at = "idle" /\ caller["handler"].code = "none"
      /\ caller["serviceMain"].at = "new" /\ caller["serviceMain"].code = "startup"
      /\ caller \in [Callers -> [at : {"idle", "new"}, code : {"none", "startup"}]]
      /\ locked = NoThread /\ events = << >> /\ status = "start pending"
      /\ quit = FALSE /\ unannounced = FALSE
  BY DEF ManagerInit, WindowsInit, Callers, NewCallers, NewSemaphores
<1> USE <1>a DEF ProcessInv, WindowsTypeOK, PlacesFit, LocksFit, OneIsServed, EventsFit, MainFits, EndAnnounced,
     HasPosted, SomebodyWaits, ServiceMainIsDone, Registered, Early, Late, Codes, NotStarted, Served, Callers, managed, loopVars
<1>1. WindowsTypeOK
  OBVIOUS
<1>2. PlacesFit
  OBVIOUS
<1>3. LocksFit
  OBVIOUS
<1>4. OneIsServed
  OBVIOUS
<1>5. EventsFit
  OBVIOUS
<1>6. MainFits
  OBVIOUS
<1>7. unannounced\/ EndAnnounced
  OBVIOUS
<1> QED
  BY <1>1, <1>2, <1>3, <1>4, <1>5, <1>6, <1>7

(* The locks of handler, its posted events and the event loop fit together *)
(* in every interleaving of the service's process with the manager's       *)
(* controls: one caller at a time is served, its event is the only one in  *)
(* the queue, and nobody else is woken by it.                              *)
THEOREM ProcessAlways == ManagerSpec => []ProcessInv
<1> QED
  BY ProcessStarts, ProcessKept, PTL DEF ManagerSpec

LEMMA ServedWhenInvariant == ProcessInv => ControlsAreServed
<1> SUFFICES ASSUME ProcessInv, ~unannounced PROVE ControlsAreServed
  BY DEF ControlsAreServed
<1>1. EndAnnounced
  BY DEF ProcessInv
<1>2. WaitersAreWoken
  <2> SUFFICES ASSUME NEW t \in Callers, caller[t].at = "waiting", main # "handling"
               PROVE  main \in {"announcing", "loop"} /\ events # << >> /\ ~quit
    BY DEF WaitersAreWoken
  <2>1. HasPosted(t) /\ caller[t].code \in Codes /\ caller[t].at \notin {"new", "acquiring"}
    BY DEF HasPosted, ProcessInv, WindowsTypeOK
  <2>2. ~quit
    BY <1>1, <2>1 DEF EndAnnounced, HasPosted, ServiceMainIsDone, Callers
  <2>3. caller["serviceMain"].at \notin {"new", "acquiring"}
    BY <2>1 DEF ProcessInv, OneIsServed, Registered, Callers
  <2>4. main \notin Early \cup Late \cup {"stopped"}
    BY <1>1, <2>2, <2>3 DEF EndAnnounced, ProcessInv, MainFits, Late
  <2> QED
    BY <2>1, <2>2, <2>4, OneEvent DEF ProcessInv, WindowsTypeOK, EventsFit, Posted, Codes, Controls, Late
<1>3. EventsAreHandled
  <2>1. ASSUME NEW t \in Callers, caller[t].at = "posting" PROVE handlerObject = "alive"
    <3>1. ~quit
      BY <1>1, <2>1 DEF EndAnnounced, ServiceMainIsDone, Callers, ProcessInv, PlacesFit, Served
    <3>2. caller["serviceMain"].at \notin {"new", "acquiring"}
      BY <2>1 DEF ProcessInv, OneIsServed, Registered, Callers
    <3> QED
      BY <1>1, <3>1, <3>2 DEF EndAnnounced, ProcessInv, MainFits, WindowsTypeOK, Early, Late
  <2>2. ASSUME NEW t \in Callers, caller[t].at = "woken" PROVE events = << >>
    BY <2>2 DEF ProcessInv, EventsFit, SomebodyWaits, HasPosted, OneIsServed, ServiceMainIsDone,
       Registered, PlacesFit, Callers, Served
  <2> QED
    BY <2>1, <2>2 DEF EventsAreHandled
<1>4. StoppedIsLast
  BY <1>1 DEF EndAnnounced, StoppedIsLast
<1> QED
  BY <1>2, <1>3, <1>4 DEF ControlsAreServed

(* A control that the manager sends is served: unless the event loop was   *)
(* ended without the manager being told, a thread that waits in handler    *)
(* has its event in the queue of a loop that runs, is woken after its own  *)
(* event only, and the manager is told of the end last.                    *)
THEOREM ServedAlways == ManagerSpec => []ControlsAreServed
BY ProcessAlways, ServedWhenInvariant, PTL

-----------------------------------------------------------------------------
(* What the steps of a controller and of the manager leave true.           *)

LEMMA OnlyController ==
  ASSUME ProcessInv, ManagerInv, UNCHANGED windowsVars
  PROVE  /\ StopFits' /\ (Settled => Settled')
         /\ Settled' = Settled /\ ManagerStatus' = ManagerStatus
BY DEF windowsVars, ManagerInv, StopFits, Settled, Stopping, ServiceMainIsDone, ManagerStatus

LEMMA StillFitting ==
  ASSUME ProcessInv, ManagerInv, StillFits, UNCHANGED <<controller, sender>>,
         carried' \subseteq Controllers, carried \subseteq carried', formerly' = formerly
  PROVE  ManagerInv'
<1>1. ManagerTypeOK'
  BY DEF ManagerInv, ManagerTypeOK
<1>2. ControllersFit'
  BY DEF ManagerInv, ControllersFit, StillFits, HasStopped, HasEnded
<1> QED
  BY <1>1, <1>2 DEF ManagerInv, StillFits

LEMMA FitsControl ==
  ASSUME ProcessInv, ManagerInv, NEW code \in Controls, Control(code), sender = NoController
  PROVE  /\ StopFits' /\ (Settled => Settled')
         /\ Settled /\ ManagerStatus = "stopped" => ManagerStatus' = "stopped"
         /\ caller'["handler"].at = "locking" /\ caller'["handler"].code = code
<1>a. /\ caller["handler"].at = "idle" /\ main # "gone"
      /\ caller'["handler"].at = "locking" /\ caller'["handler"].code = code
      /\ caller'["serviceMain"] = caller["serviceMain"]
      /\ code # "interrogate" => ~Stopping
      /\ UNCHANGED <<main, status>>
  BY DEF Control, ProcessInv, WindowsTypeOK, Callers, Stopping
<1> QED
  BY <1>a DEF ManagerInv, StopFits, Settled, Stopping, ServiceMainIsDone, ManagerStatus

LEMMA FitsHandleEvent ==
  ASSUME ProcessInv, ManagerInv, HandleControl
  PROVE  ManagerInv'
<1>a. /\ main = "loop" /\ main' = "handling" /\ UNCHANGED <<caller, status, controller, sender>>
      /\ carried' = carried \cup ({sender} \ {NoController}) /\ formerly' = formerly
  BY DEF HandleControl, HandleEvent, managed
<1>b. SenderFits /\ StopFits /\ sender \in Controllers \cup {NoController} /\ carried \subseteq Controllers
  BY DEF ManagerInv, ManagerTypeOK
<1>1. SenderFits'
  BY <1>a, <1>b DEF SenderFits, HasPosted
<1>2. StillFits
  BY <1>a, <1>b, <1>1 DEF StillFits, StopFits, Settled, Stopping, ServiceMainIsDone, ManagerStatus
<1>3. carried' \subseteq Controllers /\ carried \subseteq carried'
  BY <1>a, <1>b
<1> QED
  BY <1>a, <1>2, <1>3, StillFitting

(* A step in which controller k goes on, and nothing else.                 *)
LEMMA ControllerMoves ==
  ASSUME ProcessInv, ManagerInv, NEW k \in Controllers, UNCHANGED <<windowsVars, handled>>,
         ManagerTypeOK',
         \A u \in Controllers \ {k} : controller'[u] = controller[u],
         \/ sender' = sender /\ sender # k
         \/ sender' = NoController /\ sender \in {k, NoController},
         controller'[k].at = "asking" => controller'[k].operation \in {"install", "uninstall", "num"},
         controller'[k].at = "polling" => controller'[k].operation = "stop" /\ HasStopped(k),
         controller'[k].told =>
           /\ controller'[k].at = "returned"
           /\ controller'[k].operation \in Controlling => k \in carried \cup formerly
           /\ controller'[k].operation = "stop" => HasEnded(k)
  PROVE  ManagerInv'
<1>1. StopFits' /\ Settled' = Settled /\ ManagerStatus' = ManagerStatus
  BY OnlyController
<1>2. SenderFits'
  BY ManagerAssumption DEF ManagerInv, ManagerTypeOK, SenderFits, HasPosted, windowsVars, handled
<1>3. ControllersFit'
  BY <1>1 DEF ManagerInv, ControllersFit, HasStopped, HasEnded, handled
<1> QED
  BY <1>1, <1>2, <1>3 DEF ManagerInv

LEMMA KeepsControllerStep ==
  ASSUME ProcessInv, ManagerInv, NEW k \in Controllers,
         \/ \E operation \in ControllerUses[k] : CallController(k, operation)
         \/ Ask(k) \/ OpenService(k) \/ CreateService(k) \/ DeleteService(k)
         \/ ControlReturns(k) \/ Poll(k) \/ Fails(k)
  PROVE  ManagerInv'
<1>a. ManagerTypeOK /\ SenderFits /\ StopFits /\ ControllersFit
  BY DEF ManagerInv
<1>n. k # NoController
  BY ManagerAssumption
<1>1. ASSUME NEW operation \in ControllerUses[k], CallController(k, operation) PROVE ManagerInv'
  <2>1. operation \in Operations
    BY DEF Operations
  <2>2. ManagerTypeOK' /\ (\A u \in Controllers \ {k} : controller'[u] = controller[u])
        /\ controller'[k].at \in {"asking", "opening"} /\ controller'[k].told = controller[k].told
    BY <1>1, <1>a, <2>1 DEF CallController, ManagerTypeOK, handled
  <2>4. controller'[k].at = "asking" => controller'[k].operation \in {"install", "uninstall", "num"}
    BY <1>1, <1>a, <2>1 DEF CallController, ManagerTypeOK, handled
  <2>3. ~controller[k].told /\ sender # k
    BY <1>1, <1>a, <1>n DEF CallController, ControllersFit, SenderFits
  <2> QED
    BY <1>1, <2>2, <2>3, <2>4, ControllerMoves DEF CallController
<1>2. ASSUME NEW where \in {"open", "opening"}, Turn(k, where),
             controller[k].at \in {"asking", "opening"},
             UNCHANGED <<windowsVars, sender, handled>>
      PROVE  ManagerInv'
  <2>1. ManagerTypeOK' /\ (\A u \in Controllers \ {k} : controller'[u] = controller[u])
        /\ controller'[k].at = where /\ controller'[k].told = controller[k].told
    BY <1>2, <1>a DEF Turn, ManagerTypeOK, handled
  <2>2. ~controller[k].told /\ sender # k
    BY <1>2, <1>a, <1>n DEF ControllersFit, SenderFits
  <2> QED
    BY <1>2, <2>1, <2>2, ControllerMoves
<1>3. ASSUME NEW result \in BOOLEAN, Tells(k, result), sender' = (IF sender = k THEN NoController ELSE sender),
             UNCHANGED <<windowsVars, handled>>,
             result => /\ controller[k].operation \in Controlling => k \in carried \cup formerly
                       /\ controller[k].operation = "stop" => HasEnded(k)
      PROVE  ManagerInv'
  <2>1. ManagerTypeOK' /\ (\A u \in Controllers \ {k} : controller'[u] = controller[u])
        /\ controller'[k].at = "returned" /\ controller'[k].told = result
        /\ controller'[k].operation = controller[k].operation
    BY <1>3, <1>a DEF Tells, ManagerTypeOK, handled
  <2> QED
    BY <1>3, <2>1, ControllerMoves
<1>4. CASE Ask(k)
  <2>1. \E where \in {"open", "opening"} : Turn(k, where)
    BY <1>4, <1>a DEF Ask, ControllersFit
  <2> QED
    BY <1>2, <1>4, <2>1 DEF Ask
<1>5. CASE OpenService(k)
  BY <1>2, <1>5 DEF OpenService
<1>6. CASE CreateService(k) \/ DeleteService(k)
  <2>1. sender # k /\ controller[k].operation \notin Controlling
    BY <1>6, <1>a, <1>n DEF CreateService, DeleteService, SenderFits, Controlling
  <2> QED
    BY <1>3, <1>6, <2>1 DEF CreateService, DeleteService, Controlling
<1>7. CASE ControlReturns(k)
  <2>1. /\ k \in carried /\ controller[k].operation \in Controlling
        /\ controller[k].operation = "stop" => Settled
    BY <1>7, <1>a, <1>n DEF ControlReturns, SenderFits, StopFits, Code, Settled, ProcessInv, OneIsServed
  <2>2. CASE Tells(k, TRUE) /\ (controller[k].operation = "stop" => ManagerStatus = "stopped")
    BY <1>3, <1>7, <2>1, <2>2 DEF ControlReturns, HasEnded
  <2>3. CASE Turn(k, "polling") /\ controller[k].operation = "stop"
    <3>1. ManagerTypeOK' /\ (\A u \in Controllers \ {k} : controller'[u] = controller[u])
          /\ controller'[k].at = "polling" /\ controller'[k].told = controller[k].told
          /\ controller'[k].operation = controller[k].operation
      BY <1>7, <2>3, <1>a DEF Turn, ManagerTypeOK, ControlReturns, handled
    <3>2. ~controller[k].told
      BY <1>7, <1>a DEF ControlReturns, ControllersFit
    <3> QED
      BY <1>7, <2>1, <2>3, <3>1, <3>2, ControllerMoves DEF ControlReturns, HasStopped
  <2> QED
    BY <1>7, <2>2, <2>3 DEF ControlReturns
<1>8. CASE Poll(k)
  <2>1. /\ HasStopped(k) /\ controller[k].operation = "stop" /\ ~controller[k].told
        /\ sender # k
    BY <1>8, <1>a, <1>n DEF Poll, ControllersFit, SenderFits
  <2>2. CASE \E result \in BOOLEAN : Tells(k, result) /\ (result => ManagerStatus = "stopped")
    BY <1>3, <1>8, <2>1, <2>2 DEF Poll, HasStopped, HasEnded
  <2>3. CASE controller' = [controller EXCEPT ![k].polls = @ + 1]
    <3>1. ManagerTypeOK' /\ (\A u \in Controllers \ {k} : controller'[u] = controller[u])
          /\ controller'[k].at = controller[k].at /\ controller'[k].told = controller[k].told
          /\ controller'[k].operation = controller[k].operation
      BY <1>8, <2>3, <1>a DEF ManagerTypeOK, Poll, handled
    <3> QED
      BY <1>8, <2>1, <3>1, ControllerMoves DEF Poll
  <2> QED
    BY <1>8, <2>2, <2>3 DEF Poll
<1>9. CASE Fails(k)
  BY <1>3, <1>9 DEF Fails
<1> QED
  BY <1>1, <1>4, <1>5, <1>6, <1>7, <1>8, <1>9

LEMMA FitsStartedByManager ==
  ASSUME ProcessInv, ManagerInv, StartedByManager, sender' = sender
  PROVE  /\ StopFits' /\ SenderFits'
         /\ carried' = {} /\ formerly' = carried \cup formerly
  BY DEF StartedByManager, StartProcess, NewCallers, Callers, StopFits, SenderFits

LEMMA KeepsStartsItself ==
  ASSUME ProcessInv, ManagerInv, StartsItself
  PROVE  ManagerInv'
<1>1. /\ StopFits' /\ SenderFits' /\ carried' = {} /\ formerly' = carried \cup formerly
      /\ UNCHANGED <<controller, sender>>
  BY FitsStartedByManager DEF StartsItself
<1> QED
  BY <1>1 DEF ManagerInv, ManagerTypeOK, ControllersFit, HasStopped, HasEnded

LEMMA KeepsRequestStart ==
  ASSUME ProcessInv, ManagerInv, NEW k \in Controllers, RequestStart(k)
  PROVE  ManagerInv'
<1>a. ManagerTypeOK /\ ControllersFit
  BY DEF ManagerInv
<1>1. /\ StopFits' /\ SenderFits' /\ carried' = {} /\ formerly' = carried \cup formerly
      /\ sender' = sender
  BY FitsStartedByManager DEF RequestStart
<1>3. ManagerTypeOK' /\ (\A u \in Controllers \ {k} : controller'[u] = controller[u])
      /\ controller'[k].at = "returned" /\ controller'[k].operation = "start"
  BY <1>a, <1>1 DEF RequestStart, Tells, ManagerTypeOK
<1>6. ControllersFit'
  BY <1>a, <1>1, <1>3 DEF ControllersFit, Controlling, HasStopped, HasEnded
<1> QED
  BY <1>1, <1>3, <1>6 DEF ManagerInv

LEMMA KeepsControlService ==
  ASSUME ProcessInv, ManagerInv, NEW k \in Controllers, ControlService(k)
  PROVE  ManagerInv'
<1>a. ManagerTypeOK /\ SenderFits /\ StopFits /\ ControllersFit
  BY DEF ManagerInv
<1> DEFINE code == Code(controller[k].operation)
<1>1. /\ controller[k].at = "open" /\ controller[k].operation \in Controlling /\ sender' = k
      /\ Control(code) /\ code \in Controls /\ sender = NoController /\ UNCHANGED <<carried, formerly>>
  BY CodesOfControllers DEF ControlService, Controls, handled
<1>2. /\ StopFits' /\ (Settled => Settled')
      /\ Settled /\ ManagerStatus = "stopped" => ManagerStatus' = "stopped"
      /\ caller'["handler"].at = "locking" /\ caller'["handler"].code = code
  BY <1>1, FitsControl
<1>3. ManagerTypeOK' /\ (\A u \in Controllers \ {k} : controller'[u] = controller[u])
      /\ controller'[k].at = "sent" /\ controller'[k].operation = controller[k].operation
      /\ controller'[k].told = controller[k].told /\ ~controller[k].told
  BY <1>a, <1>1 DEF ControlService, Turn, ManagerTypeOK, ControllersFit
<1>4. SenderFits'
  BY <1>1, <1>2, <1>3 DEF SenderFits, HasPosted
<1>5. ControllersFit'
  BY <1>a, <1>1, <1>2, <1>3 DEF ControllersFit, HasStopped, HasEnded
<1> QED
  BY <1>2, <1>3, <1>4, <1>5 DEF ManagerInv

LEMMA ManagerKept ==
  ASSUME ProcessInv, ManagerInv, [ManagerNext]_<<windowsVars, managerVars>>
  PROVE  ManagerInv'
<1>a. carried \subseteq Controllers /\ SenderFits
  BY DEF ManagerInv, ManagerTypeOK
<1>1. CASE UNCHANGED <<windowsVars, controller, sender, handled>>
  <2>1. SenderFits'
    BY <1>a, <1>1 DEF SenderFits, windowsVars, HasPosted, handled
  <2> QED
    BY <1>a, <1>1, <2>1, OnlyController, StillFitting DEF StillFits, handled
<1>2. CASE ProcessStep /\ UNCHANGED managerVars
  BY <1>a, <1>2, FitsProcessStep, StillFitting DEF managerVars
<1>3. CASE HandleControl
  BY <1>3, FitsHandleEvent
<1>4. CASE StartsItself
  BY <1>4, KeepsStartsItself
<1>5. ASSUME NEW code \in Controls, OtherControl(code) PROVE ManagerInv'
  <2>1. sender = NoController /\ UNCHANGED <<controller, sender, carried, formerly>> /\ Control(code)
    BY <1>5 DEF OtherControl, managerVars
  <2>2. SenderFits'
    BY <2>1 DEF SenderFits
  <2> QED
    BY <1>a, <2>1, <2>2, FitsControl, StillFitting DEF StillFits
<1>6. ASSUME NEW k \in Controllers, ControlService(k) \/ RequestStart(k) PROVE ManagerInv'
  BY <1>6, KeepsControlService, KeepsRequestStart
<1>7. ASSUME NEW k \in Controllers,
             \/ \E operation \in ControllerUses[k] : CallController(k, operation)
             \/ Ask(k) \/ OpenService(k) \/ CreateService(k) \/ DeleteService(k)
             \/ ControlReturns(k) \/ Poll(k) \/ Fails(k)
      PROVE  ManagerInv'
  BY <1>7, KeepsControllerStep
<1>8. CASE Forget
  BY <1>1, <1>8 DEF Forget
<1> QED
  BY <1>1, <1>2, <1>3, <1>4, <1>5, <1>6, <1>7, <1>8 DEF ManagerNext, managerVars, handled

LEMMA ManagerStarts == ManagerInit => ManagerInv
<1> SUFFICES ASSUME ManagerInit PROVE ManagerInv
  OBVIOUS
<1>1. /\ caller["handler"].code = "none" /\ sender = NoController /\ carried = {} /\ formerly = {}
      /\ controller = [k \in Controllers |->
                          [operation |-> "none", at |-> "new", polls |-> 0, told |-> FALSE]]
  BY DEF ManagerInit, WindowsInit, Callers, NewCallers
<1>2. ManagerTypeOK
  BY <1>1 DEF ManagerTypeOK, Operations
<1>3. StopFits /\ SenderFits
  BY <1>1 DEF StopFits, SenderFits
<1>4. ControllersFit
  BY <1>1 DEF ControllersFit
<1> QED
  BY <1>2, <1>3, <1>4 DEF ManagerInv

(* The manager, its controllers and the process of the service agree: the  *)
(* handler thread works on the control of the controller that sent it,     *)
(* which the event loop has handled when the thread goes on; after a stop  *)
(* that was served the service is stopping or stopped; and what a          *)
(* controller was told is so.                                              *)
THEOREM ManagerAlways == ManagerSpec => [](ProcessInv /\ ManagerInv)
<1>1. ManagerInit => ProcessInv /\ ManagerInv
  BY ProcessStarts, ManagerStarts
<1>2. ProcessInv /\ ManagerInv /\ [ManagerNext]_<<windowsVars, managerVars>>
        => ProcessInv' /\ ManagerInv'
  BY ProcessKept, ManagerKept
<1> QED
  BY <1>1, <1>2, PTL DEF ManagerSpec

(* What a controller is told is so: the service has handled the control of *)
(* every stop, pause, resume and sendCommand that has returned true, and   *)
(* after a stop the manager reports the service as stopped, or has started *)
(* it again since.                                                         *)
THEOREM ToldAlways == ManagerSpec => []ControllersAreTold
<1>1. ManagerInv => ControllersAreTold
  BY DEF ManagerInv, ControllersFit, ControllersAreTold, HasEnded
<1> QED
  BY <1>1, ManagerAlways, PTL
=============================================================================
