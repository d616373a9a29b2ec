---------------------------- MODULE SessionStore ----------------------------
(***************************************************************************)
(* HttpSessionStore and HttpSession.                                       *)
(*                                                                         *)
(* The handler threads and the thread of the clean-up timer share one      *)
(* store.  Its mutex guards the map.  An HttpSession is a pointer to data  *)
(* that it shares with its copies: the data has a reference count, a       *)
(* read-write lock, and is deleted with its last copy.  The count is       *)
(* incremented under the write lock and decremented under the read lock,   *)
(* so two threads may decrement it at the same time: the load, the store,  *)
(* the unlock and the deletion are steps of their own.                     *)
(*                                                                         *)
(* Every HttpSession that can exist has a name.  The map holds one for     *)
(* each stored session.  A thread has two variables, "session" and "copy", *)
(* and "old", the value of a map node that it is taking out of the map, or *)
(* the pointer oldPtr of an assignment.                                    *)
(***************************************************************************)
EXTENDS Naturals, FiniteSets

CONSTANTS
  Workers,      \* handler threads
  Timer,        \* the thread of cleanupTimer
  Data,         \* identities of HttpSessionData objects and their ids
  Keys,         \* keys of session values
  None,         \* the null pointer, the empty id
  Expiration,   \* expirationTime, in ticks of the clock
  MaxCalls      \* bound: calls of application code, but for the ends of variables

ASSUME ConstantsAssumption ==
  /\ Timer \notin Workers
  /\ None \notin Data \cup Workers \cup {Timer}
  /\ IsFiniteSet(Workers)
  /\ Expiration \in Nat /\ MaxCalls \in Nat

Threads == Workers \cup {Timer}
Objects == Threads \X {"session", "copy", "old"}

VARIABLES
  fate,      \* of each id: not yet used, in the map, or how it left the map
  age,       \* now - lastAccess, counted to Expiration + 1
  values,    \* HttpSessionData::values, the keys that are set
  refCount,  \* HttpSessionData::refCount
  life,      \* of each HttpSessionData: "unborn", "live", "deleted"
  ptr,       \* HttpSession::dataPtr of every object that is not in the map
  mutex,     \* the thread that holds HttpSessionStore::mutex, or None
  todo,      \* ids that the loop of sessionTimerEvent has still to visit
  drop,      \* the destructor or assignment that a thread is in
  thread,    \* where a handler thread is, and the locals of its calls
  calls      \* number of calls so far, up to MaxCalls

vars == <<fate, age, values, refCount, life, ptr, mutex, todo, drop, thread, calls>>

sessions == {d \in Data : fate[d] = "stored"}
Refs(d) == {o \in Objects : ptr[o] = d}
-----------------------------------------------------------------------------
NoDrop == [phase |-> "none", object |-> "session", data |-> None, value |-> 0,
           assigned |-> FALSE]

(* A handler thread between two requests. *)
IdleThread == [at |-> "idle", cookie |-> None, reply |-> None, id |-> None, create |-> FALSE]

TypeOK ==
  /\ fate \in [Data -> {"unborn", "stored", "expired", "removed"}]
  /\ age \in [Data -> 0 .. Expiration + 1]
  /\ values \in [Data -> SUBSET Keys]
  /\ refCount \in [Data -> Nat]
  /\ life \in [Data -> {"unborn", "live", "deleted"}]
  /\ ptr \in [Objects -> Data \cup {None}]
  /\ mutex \in Threads \cup {None}
  /\ todo \subseteq Data
  /\ drop \in [Threads -> [phase : {"none", "loaded", "stored", "unlocked"},
                           object : {"session", "copy", "old"},
                           data : Data \cup {None}, value : Nat, assigned : BOOLEAN]]
  /\ thread \in [Workers -> [at : {"idle", "service", "lookup", "touch",
                                   "remove", "erase", "argument"},
                             cookie : Data \cup {None}, reply : Data \cup {None},
                             id : Data \cup {None}, create : BOOLEAN]]
  /\ calls \in 0 .. MaxCalls

Init ==
  /\ fate = [d \in Data |-> "unborn"]
  /\ age = [d \in Data |-> 0]
  /\ values = [d \in Data |-> {}]
  /\ refCount = [d \in Data |-> 0]
  /\ life = [d \in Data |-> "unborn"]
  /\ ptr = [o \in Objects |-> None]
  /\ mutex = None
  /\ todo = {}
  /\ drop = [t \in Threads |-> NoDrop]
  /\ thread = [t \in Workers |-> IdleThread]
  /\ calls = 0
-----------------------------------------------------------------------------
(***************************************************************************)
(* The read-write lock of the data.  Write sections are single steps.      *)
(***************************************************************************)
Readers(d) ==
  {t \in Threads : drop[t].phase \in {"loaded", "stored"} /\ drop[t].data = d}
CanLockForWrite(d) == Readers(d) = {}

Holds(t, name) == ptr[<<t, name>>] # None
Releasing(t) == drop[t].phase # "none" \/ Holds(t, "old")

(* Thread t is in application code, which may use the library. *)
InService(t) == thread[t].at = "service" /\ ~ Releasing(t)

\* Mutant: the copy is made without counting it.
AttachUncounted(o, d) ==
  /\ CanLockForWrite(d)
  /\ ptr' = [ptr EXCEPT ![o] = d]
  /\ refCount' = refCount

(***************************************************************************)
(* The copy constructor of HttpSession: object o becomes a copy of one     *)
(* with data d.                                                            *)
(***************************************************************************)
Attach(o, d) ==
  /\ CanLockForWrite(d)
  /\ ptr' = [ptr EXCEPT ![o] = d]
  /\ refCount' = [refCount EXCEPT ![d] = @ + 1]
-----------------------------------------------------------------------------
(***************************************************************************)
(* The destructor of an object, and the second half of an assignment: the  *)
(* old data loses a reference.  Which object goes depends on where the     *)
(* thread is; in application code any variable may leave its scope.        *)
(***************************************************************************)
InScope(t) ==
  IF Holds(t, "old") THEN {"old"}
  ELSE IF t = Timer THEN {"session"}
  ELSE IF thread[t].at = "service" THEN {"session", "copy"}
  ELSE IF thread[t].at = "argument" THEN {"copy"}
  ELSE {}

(* An assignment compares the count before the decrement with zero. *)
Assigning(t) == t # Timer /\ Holds(t, "old") /\ thread[t].at = "service"

LoadCount(t, name) ==
  /\ drop[t].phase = "none"
  /\ name \in InScope(t) /\ Holds(t, name)
  /\ LET d == ptr[<<t, name>>] IN
     drop' = [drop EXCEPT ![t] = [phase |-> "loaded", object |-> name, data |-> d,
                                  value |-> refCount[d], assigned |-> Assigning(t)]]
  /\ UNCHANGED <<fate, age, values, refCount, life, ptr, mutex, todo, thread, calls>>

(***************************************************************************)
(* The decremented value may stay in a register: what the thread compares  *)
(* with zero comes from what it loaded, whatever others store meanwhile.   *)
(***************************************************************************)
StoreCount(t) ==
  /\ drop[t].phase = "loaded"
  /\ refCount' = [refCount EXCEPT ![drop[t].data] = drop[t].value - 1]
  /\ ptr' = [ptr EXCEPT ![<<t, drop[t].object>>] = None]
  /\ drop' = [drop EXCEPT ![t].phase = "stored",
                          ![t].value = IF drop[t].assigned THEN @ ELSE @ - 1]
  /\ UNCHANGED <<fate, age, values, life, mutex, todo, thread, calls>>

(* A thread that did not see the count reach zero is done with the data. *)
Unlock(t) ==
  /\ drop[t].phase = "stored"
  /\ drop' = [drop EXCEPT ![t] = IF @.value = 0 THEN [@ EXCEPT !.phase = "unlocked"]
                                 ELSE NoDrop]
  /\ UNCHANGED <<fate, age, values, refCount, life, ptr, mutex, todo, thread, calls>>

DeleteData(t) ==
  /\ drop[t].phase = "unlocked"
  /\ life' = [life EXCEPT ![drop[t].data] = "deleted"]
  /\ drop' = [drop EXCEPT ![t] = NoDrop]
  /\ UNCHANGED <<fate, age, values, refCount, ptr, mutex, todo, thread, calls>>

(***************************************************************************)
(* session = copy; attaches to the new data, then releases the old.        *)
(***************************************************************************)
Assign(t) ==
  LET d == ptr[<<t, "copy">>] IN
  /\ InService(t)
  /\ Holds(t, "session") \/ Holds(t, "copy")
  /\ CanLockForWrite(d)
  /\ ptr' = [ptr EXCEPT ![<<t, "session">>] = d, ![<<t, "old">>] = ptr[<<t, "session">>]]
  /\ refCount' = IF d = None THEN refCount ELSE [refCount EXCEPT ![d] = @ + 1]
  /\ age' = IF d = None THEN age ELSE [age EXCEPT ![d] = 0]
  /\ calls < MaxCalls /\ calls' = calls + 1
  /\ UNCHANGED <<fate, values, life, mutex, todo, drop, thread>>

(* HttpSession copy(session); *)
Copy(t) ==
  /\ InService(t)
  /\ Holds(t, "session") /\ ~ Holds(t, "copy")
  /\ Attach(<<t, "copy">>, ptr[<<t, "session">>])
  /\ calls < MaxCalls /\ calls' = calls + 1
  /\ UNCHANGED <<fate, age, values, life, mutex, todo, drop, thread>>

(* set and remove of HttpSession. *)
ChangeValues(t) ==
  LET d == ptr[<<t, "session">>] IN
  /\ InService(t)
  /\ d # None /\ CanLockForWrite(d)
  /\ \E k \in Keys : \/ values' = [values EXCEPT ![d] = @ \cup {k}]
                     \/ values' = [values EXCEPT ![d] = @ \ {k}]
  /\ calls < MaxCalls /\ calls' = calls + 1
  /\ UNCHANGED <<fate, age, refCount, life, ptr, mutex, todo, drop, thread>>
-----------------------------------------------------------------------------
(***************************************************************************)
(* HttpSessionStore in a handler thread.                                   *)
(***************************************************************************)
StartRequest(t, cookie) ==
  /\ thread[t].at = "idle"
  /\ cookie # None => fate[cookie] # "unborn"
  /\ thread' = [thread EXCEPT ![t].at = "service", ![t].cookie = cookie]
  /\ UNCHANGED <<fate, age, values, refCount, life, ptr, mutex, todo, drop, calls>>

EndRequest(t) ==
  /\ InService(t)
  /\ ~ Holds(t, "session") /\ ~ Holds(t, "copy")
  /\ thread' = [thread EXCEPT ![t] = IdleThread]
  /\ UNCHANGED <<fate, age, values, refCount, life, ptr, mutex, todo, drop, calls>>

\* Mutant: only the cookie of the request is looked at.
RequestSessionId(t) ==
  IF thread[t].cookie \in sessions THEN thread[t].cookie ELSE None

(* getSessionId: the cookie of the response has priority. *)
SessionId(t) ==
  LET id == IF thread[t].reply # None THEN thread[t].reply ELSE thread[t].cookie
  IN  IF id \in sessions THEN id ELSE None

(* getSession calls getSessionId, which takes and releases the mutex. *)
GetSession(t, allowCreate) ==
  /\ InService(t) /\ ~ Holds(t, "session")
  /\ mutex = None
  /\ thread' = [thread EXCEPT ![t].at = "lookup", ![t].id = SessionId(t),
                              ![t].create = allowCreate]
  /\ calls < MaxCalls /\ calls' = calls + 1
  /\ UNCHANGED <<fate, age, values, refCount, life, ptr, mutex, todo, drop>>

\* Mutant: the return for a found session leaves the mutex locked.
FoundSessionLocked(t) ==
  LET d == thread[t].id IN
  /\ thread[t].at = "lookup" /\ mutex = None
  /\ d \in sessions
  /\ Attach(<<t, "session">>, d)
  /\ mutex' = t
  /\ thread' = [thread EXCEPT ![t].at = "touch", ![t].reply = d,
                              ![t].id = None, ![t].create = FALSE]
  /\ UNCHANGED <<fate, age, values, life, todo, drop, calls>>

FoundSession(t) ==
  LET d == thread[t].id IN
  /\ thread[t].at = "lookup" /\ mutex = None
  /\ d \in sessions
  /\ Attach(<<t, "session">>, d)
  /\ thread' = [thread EXCEPT ![t].at = "touch", ![t].reply = d,
                              ![t].id = None, ![t].create = FALSE]
  /\ UNCHANGED <<fate, age, values, life, mutex, todo, drop, calls>>

\* Mutant: the data of the new session is constructed with a count of zero.
CreateSessionUncounted(t, d) ==
  /\ thread[t].at = "lookup" /\ mutex = None
  /\ thread[t].id \notin sessions /\ thread[t].create
  /\ fate[d] = "unborn"
  /\ fate' = [fate EXCEPT ![d] = "stored"]
  /\ life' = [life EXCEPT ![d] = "live"]
  /\ refCount' = [refCount EXCEPT ![d] = 1]
  /\ ptr' = [ptr EXCEPT ![<<t, "session">>] = d]
  /\ thread' = [thread EXCEPT ![t].at = "service", ![t].reply = d,
                              ![t].id = None, ![t].create = FALSE]
  /\ UNCHANGED <<age, values, mutex, todo, drop, calls>>

(* One reference for the variable, one for the node of the map. *)
CreateSession(t, d) ==
  /\ thread[t].at = "lookup" /\ mutex = None
  /\ thread[t].id \notin sessions /\ thread[t].create
  /\ fate[d] = "unborn"
  /\ fate' = [fate EXCEPT ![d] = "stored"]
  /\ life' = [life EXCEPT ![d] = "live"]
  /\ refCount' = [refCount EXCEPT ![d] = 2]
  /\ ptr' = [ptr EXCEPT ![<<t, "session">>] = d]
  /\ thread' = [thread EXCEPT ![t].at = "service", ![t].reply = d,
                              ![t].id = None, ![t].create = FALSE]
  /\ UNCHANGED <<age, values, mutex, todo, drop, calls>>

NoSession(t) ==
  /\ thread[t].at = "lookup" /\ mutex = None
  /\ thread[t].id \notin sessions /\ ~ thread[t].create
  /\ thread' = [thread EXCEPT ![t].at = "service", ![t].id = None]
  /\ UNCHANGED <<fate, age, values, refCount, life, ptr, mutex, todo, drop, calls>>

GetSessionById(t, d) ==
  /\ InService(t) /\ ~ Holds(t, "session")
  /\ mutex = None
  /\ d \in sessions
  /\ Attach(<<t, "session">>, d)
  /\ thread' = [thread EXCEPT ![t].at = "touch"]
  /\ calls < MaxCalls /\ calls' = calls + 1
  /\ UNCHANGED <<fate, age, values, life, mutex, todo, drop>>

(* setLastAccess, with the mutex released. *)
Touch(t) ==
  /\ thread[t].at = "touch"
  /\ age' = [age EXCEPT ![ptr[<<t, "session">>]] = 0]
  /\ thread' = [thread EXCEPT ![t].at = "service"]
  /\ UNCHANGED <<fate, values, refCount, life, ptr, mutex, todo, drop, calls>>

(* removeSession: the argument is a copy. *)
RemoveSession(t) ==
  /\ InService(t)
  /\ Holds(t, "session") /\ ~ Holds(t, "copy")
  /\ Attach(<<t, "copy">>, ptr[<<t, "session">>])
  /\ thread' = [thread EXCEPT ![t].at = "remove"]
  /\ calls < MaxCalls /\ calls' = calls + 1
  /\ UNCHANGED <<fate, age, values, life, mutex, todo, drop>>

EraseRemoved(t) ==
  LET d == ptr[<<t, "copy">>] IN
  /\ thread[t].at = "remove" /\ mutex = None
  /\ IF d \in sessions
     THEN /\ fate' = [fate EXCEPT ![d] = "removed"]
          /\ ptr' = [ptr EXCEPT ![<<t, "old">>] = d]
          /\ mutex' = t
     ELSE UNCHANGED <<fate, ptr, mutex>>
  /\ thread' = [thread EXCEPT ![t].at = "erase"]
  /\ UNCHANGED <<age, values, refCount, life, todo, drop, calls>>

Erased(t) ==
  /\ thread[t].at = "erase" /\ ~ Releasing(t)
  /\ mutex' = IF mutex = t THEN None ELSE mutex
  /\ thread' = [thread EXCEPT ![t].at = "argument"]
  /\ UNCHANGED <<fate, age, values, refCount, life, ptr, todo, drop, calls>>

RemoveReturns(t) ==
  /\ thread[t].at = "argument" /\ ~ Releasing(t) /\ ~ Holds(t, "copy")
  /\ thread' = [thread EXCEPT ![t].at = "service"]
  /\ UNCHANGED <<fate, age, values, refCount, life, ptr, mutex, todo, drop, calls>>
-----------------------------------------------------------------------------
(***************************************************************************)
(* sessionTimerEvent: the mutex is held during the loop.  The clock does   *)
(* not tick in it, a tick is long compared with the loop.                  *)
(***************************************************************************)
TimerEvent ==
  /\ mutex = None /\ sessions # {}
  /\ mutex' = Timer
  /\ todo' = sessions
  /\ UNCHANGED <<fate, age, values, refCount, life, ptr, drop, thread, calls>>

\* Mutant: a session that has just reached the limit expires.
HasExpiredEarly(d) == age[d] >= Expiration

HasExpired(d) == age[d] > Expiration

(* A visit makes a copy of the session and looks at its last access.  A    *)
(* session that has expired is still to be erased.                         *)
TimerVisit(d) ==
  /\ mutex = Timer /\ d \in todo
  /\ ~ Releasing(Timer) /\ ~ Holds(Timer, "session")
  /\ Attach(<<Timer, "session">>, d)
  /\ todo' = IF HasExpired(d) THEN todo ELSE todo \ {d}
  /\ UNCHANGED <<fate, age, values, life, mutex, drop, thread, calls>>

(* The session that the timer has found expired and not yet erased.        *)
Condemned == {d \in todo : ptr[<<Timer, "session">>] = d}

(* sessions.erase(prev), whatever was done with the session since.         *)
TimerErase(d) ==
  /\ mutex = Timer /\ d \in Condemned
  /\ fate' = [fate EXCEPT ![d] = "expired"]
  /\ ptr' = [ptr EXCEPT ![<<Timer, "old">>] = d]
  /\ todo' = todo \ {d}
  /\ UNCHANGED <<age, values, refCount, life, mutex, drop, thread, calls>>

TimerReturns ==
  /\ mutex = Timer /\ todo = {}
  /\ ~ Releasing(Timer) /\ ~ Holds(Timer, "session")
  /\ mutex' = None
  /\ UNCHANGED <<fate, age, values, refCount, life, ptr, todo, drop, thread, calls>>

Tick ==
  /\ mutex # Timer
  /\ age' = [d \in Data |-> IF fate[d] = "unborn" \/ age[d] > Expiration
                            THEN age[d] ELSE age[d] + 1]
  /\ UNCHANGED <<fate, values, refCount, life, ptr, mutex, todo, drop, thread, calls>>
-----------------------------------------------------------------------------
(* What a thread does by itself once it is in a call of the library. *)
Continue(t) ==
  \/ LoadCount(t, "old") \/ StoreCount(t) \/ Unlock(t) \/ DeleteData(t)
  \/ t = Timer /\ Condemned = {} /\ LoadCount(t, "session")
  \/ t = Timer /\ \E d \in Data : TimerErase(d)
  \/ /\ t # Timer
     /\ \/ FoundSession(t) \/ NoSession(t) \/ \E d \in Data : CreateSession(t, d)
        \/ Touch(t)
        \/ EraseRemoved(t) \/ Erased(t) \/ RemoveReturns(t)
        \/ thread[t].at = "argument" /\ LoadCount(t, "copy")

(* What application code may do. *)
Application(t) ==
  \/ \E cookie \in Data \cup {None} : StartRequest(t, cookie)
  \/ EndRequest(t)
  \/ \E allowCreate \in BOOLEAN : GetSession(t, allowCreate)
  \/ \E d \in Data : GetSessionById(t, d)
  \/ RemoveSession(t)
  \/ Copy(t) \/ Assign(t) \/ ChangeValues(t)
  \/ thread[t].at = "service" /\ \E name \in {"session", "copy"} : LoadCount(t, name)

Next ==
  \/ \E t \in Threads : Continue(t)
  \/ \E t \in Workers : Application(t)
  \/ TimerEvent \/ TimerReturns
  \/ \E d \in Data : TimerVisit(d)
  \/ Tick

(***************************************************************************)
(* A thread goes on in the library; the timer fires again and gets the     *)
(* mutex; a thread that waits for the write lock of a session gets it,     *)
(* since QReadWriteLock prefers waiting writers to new readers.            *)
(***************************************************************************)
Fairness ==
  /\ \A t \in Threads : WF_vars(Continue(t))
  /\ WF_vars(TimerEvent) /\ WF_vars(TimerReturns)
  /\ \A d \in Data : SF_vars(TimerVisit(d))

Spec == Init /\ [][Next]_vars
FairSpec == Spec /\ Fairness
-----------------------------------------------------------------------------
(***************************************************************************)
(* A session in the map and a session that a thread has a copy of are      *)
(* alive, although two threads may lose a decrement of the count between   *)
(* them: the count of a session is never less than the number of its       *)
(* copies, and no thread deletes one that has copies.                      *)
(***************************************************************************)
CopiesAlive ==
  /\ \A d \in sessions : life[d] = "live"
  /\ \A o \in Objects : ptr[o] # None => life[ptr[o]] = "live"

(***************************************************************************)
(* HttpSession is "thread safe": a thread does not use the lock of data    *)
(* that another thread has deleted.                                        *)
(***************************************************************************)
LockedDataAlive ==
  \A t \in Threads : drop[t].phase = "stored" => life[drop[t].data] = "live"

(***************************************************************************)
(* The cookie that the response of a request sets last names the session   *)
(* that the request got first, as long as that session is in the map: one  *)
(* request never gets two sessions, and a new one is created for a client  *)
(* only if it has none.                                                    *)
(***************************************************************************)
OneSessionPerClient ==
  [][\A t \in Workers, d \in Data : CreateSession(t, d) =>
       /\ thread[t].cookie \notin sessions \/ thread[t].reply # None
       /\ thread[t].reply \notin sessions]_vars

(***************************************************************************)
(* The store is a map of sessions: an id is used once, a session leaves    *)
(* when it is removed or when the time since its last access had passed    *)
(* the limit as the timer looked at it, however the timer, the look-ups    *)
(* and the refreshing of a session interleave.  A session that is used     *)
(* between this look and its erasure leaves all the same.                  *)
(***************************************************************************)
Map == INSTANCE SessionMap WITH condemned <- Condemned
ImplementsSessionMap == Map!Spec

(***************************************************************************)
(* "Stores HTTP sessions and deletes them when they have expired": a       *)
(* session that nobody uses leaves the map, under FairSpec.                *)
(***************************************************************************)
ExpiredSessionsLeave ==
  \A d \in Data : d \in sessions /\ HasExpired(d) ~> d \notin sessions \/ ~ HasExpired(d)
=============================================================================
