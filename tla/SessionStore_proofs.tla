------------------------ MODULE SessionStore_proofs ------------------------
(***************************************************************************)
(* Proofs about SessionStore, for every number of threads, sessions and    *)
(* calls.                                                                  *)
(*                                                                         *)
(* CopiesAlive is not inductive: it says nothing of the counts, nor of     *)
(* what a thread has loaded and not yet stored.  IInv adds that a count is *)
(* never less than the number of owners of the data, and that this holds   *)
(* of a loaded value for as long as the read lock keeps new owners away.   *)
(***************************************************************************)
EXTENDS SessionStore, FiniteSetTheorems, TLAPS

(* The owners of data d: its copies, and its node in the map. *)
Node == <<Timer, "node">>
Owners(d) == Refs(d) \cup {n \in {Node} : d \in sessions}

Places == Objects \cup {Node}

OwnersCounted ==
  \A d \in Data :
    /\ Owners(d) # {} => life[d] = "live" /\ fate[d] # "unborn"
    /\ Cardinality(Owners(d)) <= refCount[d]

DropFits(t) ==
  LET d == drop[t].data IN
  /\ drop[t].phase # "none" => d \in Data /\ fate[d] # "unborn"
  /\ drop[t].phase = "loaded" =>
       /\ ptr[<<t, drop[t].object>>] = d
       /\ Cardinality(Owners(d)) <= drop[t].value
  /\ drop[t].phase \in {"stored", "unlocked"} /\ drop[t].value = 0 => Owners(d) = {}
  /\ drop[t].phase = "unlocked" => drop[t].value = 0

Counted == OwnersCounted /\ \A t \in Threads : DropFits(t)

(* The loop of the timer event has the mutex and visits stored sessions. *)
LoopFits == todo # {} => mutex = Timer /\ todo \subseteq sessions

(* A thread is not in a destructor while it is in these calls. *)
CallsFit ==
  \A t \in Workers : thread[t].at \in {"lookup", "touch", "remove"} => ~ Releasing(t)

IInv == TypeOK /\ Counted /\ LoopFits /\ CallsFit

(* The timer has a copy of a session only in its loop, and is in no        *)
(* destructor between the look at an expired session and its erasure.      *)
TimerFits ==
  /\ mutex # Timer => ~ Holds(Timer, "session")
  /\ Condemned # {} => ~ Releasing(Timer)
-----------------------------------------------------------------------------
(***************************************************************************)
(* Finite sets.                                                            *)
(***************************************************************************)

LEMMA PlacesFinite == IsFiniteSet(Places)
<1>1. IsFiniteSet(Threads)
  BY ConstantsAssumption, FS_AddElement DEF Threads
<1>2. IsFiniteSet({"session", "copy", "old"})
  <2>1. IsFiniteSet({"session"})
    BY FS_Singleton
  <2>2. IsFiniteSet({"session"} \cup {"copy"})
    BY <2>1, FS_AddElement
  <2>3. IsFiniteSet(({"session"} \cup {"copy"}) \cup {"old"})
    BY <2>2, FS_AddElement
  <2>4. ({"session"} \cup {"copy"}) \cup {"old"} = {"session", "copy", "old"}
    OBVIOUS
  <2> QED BY <2>3, <2>4
<1>3. IsFiniteSet(Objects)
  BY <1>1, <1>2, FS_Product DEF Objects
<1> QED BY <1>3, FS_AddElement DEF Places

(* The owners of data are a finite set, whatever ptr and fate are. *)
LEMMA OwnersFinite ==
  ASSUME NEW d
  PROVE  /\ IsFiniteSet(Owners(d)) /\ Cardinality(Owners(d)) \in Nat
         /\ Owners(d) = {} <=> Cardinality(Owners(d)) = 0
<1>1. Owners(d) \subseteq Places
  BY DEF Owners, Refs, Places
<1>2. IsFiniteSet(Owners(d))
  BY <1>1, PlacesFinite, FS_Subset
<1> QED BY <1>2, FS_CardinalityType, FS_EmptySet

LEMMA OwnersFiniteNext ==
  ASSUME NEW d
  PROVE  /\ IsFiniteSet(Owners(d)') /\ Cardinality(Owners(d)') \in Nat
         /\ Owners(d)' = {} <=> Cardinality(Owners(d)') = 0
<1>1. Owners(d)' \subseteq Places
  BY DEF Owners, Refs, Places
<1>2. IsFiniteSet(Owners(d)')
  BY <1>1, PlacesFinite, FS_Subset
<1> QED BY <1>2, FS_CardinalityType, FS_EmptySet

(* A set that gains at most one element, or changes at most one for another. *)
LEMMA AtMostOneMore ==
  ASSUME NEW S, NEW T, NEW x, IsFiniteSet(S), T \subseteq S \cup {x}
  PROVE  IsFiniteSet(T) /\ Cardinality(T) <= Cardinality(S) + 1
<1>1. IsFiniteSet(S \cup {x}) /\ Cardinality(S \cup {x}) \in {Cardinality(S), Cardinality(S) + 1}
  BY FS_AddElement
<1>2. IsFiniteSet(T) /\ Cardinality(T) <= Cardinality(S \cup {x})
  BY <1>1, FS_Subset
<1> QED BY <1>1, <1>2, FS_CardinalityType

LEMMA NoMore ==
  ASSUME NEW S, NEW T, IsFiniteSet(S), T \subseteq S
  PROVE  IsFiniteSet(T) /\ Cardinality(T) <= Cardinality(S)
BY FS_Subset

LEMMA OneLess ==
  ASSUME NEW S, NEW T, NEW x \in S, IsFiniteSet(S), T \subseteq S \ {x}
  PROVE  IsFiniteSet(T) /\ Cardinality(T) <= Cardinality(S) - 1
<1>1. IsFiniteSet(S \ {x}) /\ Cardinality(S \ {x}) = Cardinality(S) - 1
  BY FS_RemoveElement
<1> QED BY <1>1, FS_Subset

LEMMA OneForAnother ==
  ASSUME NEW S, NEW T, NEW x \in S, NEW y, IsFiniteSet(S), T \subseteq (S \ {x}) \cup {y}
  PROVE  IsFiniteSet(T) /\ Cardinality(T) <= Cardinality(S)
<1>1. IsFiniteSet(S \ {x}) /\ Cardinality(S \ {x}) = Cardinality(S) - 1
  BY FS_RemoveElement
<1>2. IsFiniteSet(T) /\ Cardinality(T) <= Cardinality(S \ {x}) + 1
  BY <1>1, AtMostOneMore
<1> QED BY <1>1, <1>2, FS_CardinalityType
-----------------------------------------------------------------------------
(***************************************************************************)
(* The counts, for a step that gives data d a new owner, with its count    *)
(* and without a reader; for a step that gives no data a new owner; and    *)
(* for a step that has nothing to do with owners.                          *)
(***************************************************************************)

(* What both kinds of steps leave alone. *)
Untouched ==
  /\ life' = life /\ drop' = drop
  /\ \A e \in Data : fate[e] # "unborn" => fate'[e] # "unborn"
  /\ \A t \in Threads : drop[t].phase = "loaded" =>
       ptr'[<<t, drop[t].object>>] = ptr[<<t, drop[t].object>>]

LEMMA OneMoreOwner ==
  ASSUME IInv, Untouched, NEW d \in Data, Owners(d) # {}, CanLockForWrite(d),
         refCount' = [refCount EXCEPT ![d] = @ + 1],
         Cardinality(Owners(d)') <= Cardinality(Owners(d)) + 1,
         \A e \in Data \ {d} : Cardinality(Owners(e)') <= Cardinality(Owners(e))
  PROVE  Counted'
<1>1. OwnersCounted /\ (\A t \in Threads : DropFits(t)) /\ TypeOK
  BY DEF IInv, Counted
<1>2. refCount \in [Data -> Nat]
  BY <1>1 DEF TypeOK
<1>3. \A e \in Data : Owners(e)' # {} => Owners(e) # {}
  <2> TAKE e \in Data
  <2>1. e # d /\ Owners(e) = {} => Owners(e)' = {}
    <3> SUFFICES ASSUME e # d, Owners(e) = {} PROVE Owners(e)' = {}
      OBVIOUS
    <3>1. Cardinality(Owners(e)') <= Cardinality(Owners(e))
      OBVIOUS
    <3>2. Cardinality(Owners(e)) = 0
      BY OwnersFinite
    <3>3. Cardinality(Owners(e)') \in Nat
      BY OwnersFiniteNext
    <3>4. Cardinality(Owners(e)') = 0
      BY <3>1, <3>2, <3>3
    <3> QED BY <3>4, OwnersFiniteNext
  <2> QED BY <2>1
<1>4. OwnersCounted'
  <2> SUFFICES ASSUME NEW e \in Data
               PROVE  /\ Owners(e)' # {} => life'[e] = "live" /\ fate'[e] # "unborn"
                      /\ Cardinality(Owners(e)') <= refCount'[e]
    BY DEF OwnersCounted
  <2>1. Owners(e)' # {} => life'[e] = "live" /\ fate'[e] # "unborn"
    BY <1>1, <1>3 DEF OwnersCounted, Untouched
  <2>2. Cardinality(Owners(e)) <= refCount[e]
    BY <1>1 DEF OwnersCounted
  <2>3. /\ Cardinality(Owners(e)) \in Nat /\ Cardinality(Owners(e)') \in Nat
        /\ refCount[e] \in Nat
    BY <1>2, OwnersFinite, OwnersFiniteNext
  <2>4. e = d => refCount'[e] = refCount[e] + 1
    BY <1>2
  <2>5. e # d => refCount'[e] = refCount[e]
    BY <1>2
  <2>6. Cardinality(Owners(e)') <= refCount'[e]
    <3>1. e = d => Cardinality(Owners(e)') <= refCount'[e]
      BY <2>2, <2>3, <2>4
    <3>2. e # d => Cardinality(Owners(e)') <= Cardinality(Owners(e))
      OBVIOUS
    <3>3. e # d => Cardinality(Owners(e)') <= refCount'[e]
      BY <2>2, <2>3, <2>5, <3>2
    <3> QED BY <3>1, <3>3
  <2> QED BY <2>1, <2>6
<1>5. ASSUME NEW t \in Threads PROVE DropFits(t)'
  <2>0. PICK e : e = drop[t].data
    OBVIOUS
  <2>1. DropFits(t)
    BY <1>1
  <2>2. drop' = drop
    BY DEF Untouched
  <2>3. drop[t].phase # "none" => e \in Data /\ fate'[e] # "unborn"
    BY <2>0, <2>1 DEF DropFits, Untouched
  <2>4. drop[t].phase = "loaded" => /\ ptr'[<<t, drop[t].object>>] = e
                                   /\ Cardinality(Owners(e)') <= drop[t].value
    <3> SUFFICES ASSUME drop[t].phase = "loaded"
                 PROVE  /\ ptr'[<<t, drop[t].object>>] = e
                        /\ Cardinality(Owners(e)') <= drop[t].value
      OBVIOUS
    <3>1. ptr'[<<t, drop[t].object>>] = e /\ e \in Data
      BY <2>0, <2>1 DEF DropFits, Untouched
    <3>2. e # d
      BY <2>0 DEF CanLockForWrite, Readers
    <3>3. Cardinality(Owners(e)') <= Cardinality(Owners(e))
      BY <3>1, <3>2
    <3>4. Cardinality(Owners(e)) <= drop[t].value
      BY <2>0, <2>1 DEF DropFits
    <3>5. drop[t].value \in Nat
      BY <1>1 DEF TypeOK
    <3>6. Cardinality(Owners(e)') \in Nat /\ Cardinality(Owners(e)) \in Nat
      BY OwnersFinite, OwnersFiniteNext
    <3> QED BY <3>1, <3>3, <3>4, <3>5, <3>6
  <2>5. drop[t].phase \in {"stored", "unlocked"} /\ drop[t].value = 0 => Owners(e)' = {}
    BY <1>3, <2>0, <2>1 DEF DropFits
  <2>6. drop[t].phase = "unlocked" => drop[t].value = 0
    BY <2>0, <2>1 DEF DropFits
  <2> QED BY <2>0, <2>2, <2>3, <2>4, <2>5, <2>6 DEF DropFits
<1> QED BY <1>4, <1>5 DEF Counted

LEMMA NoMoreOwners ==
  ASSUME IInv, Untouched, refCount' = refCount,
         \A e \in Data : Cardinality(Owners(e)') <= Cardinality(Owners(e))
  PROVE  Counted'
<1>1. OwnersCounted /\ (\A t \in Threads : DropFits(t)) /\ TypeOK
  BY DEF IInv, Counted
<1>2. \A e \in Data : refCount[e] \in Nat
  BY <1>1 DEF TypeOK
<1>3. \A e \in Data : Owners(e)' # {} => Owners(e) # {}
  <2> SUFFICES ASSUME NEW e \in Data, Owners(e) = {} PROVE Owners(e)' = {}
    OBVIOUS
  <2>1. Cardinality(Owners(e)') <= Cardinality(Owners(e))
    OBVIOUS
  <2>2. Cardinality(Owners(e)) = 0
    BY OwnersFinite
  <2>3. Cardinality(Owners(e)') \in Nat
    BY OwnersFiniteNext
  <2>4. Cardinality(Owners(e)') = 0
    BY <2>1, <2>2, <2>3
  <2> QED BY <2>4, OwnersFiniteNext
<1>4. ASSUME NEW e \in Data, NEW n \in Nat, Cardinality(Owners(e)) <= n
      PROVE  Cardinality(Owners(e)') <= n
  <2>1. Cardinality(Owners(e)') <= Cardinality(Owners(e))
    OBVIOUS
  <2>2. Cardinality(Owners(e)') \in Nat /\ Cardinality(Owners(e)) \in Nat
    BY OwnersFinite, OwnersFiniteNext
  <2> QED BY <1>4, <2>1, <2>2
<1>5. OwnersCounted'
  BY <1>1, <1>2, <1>3, <1>4 DEF OwnersCounted, Untouched
<1>6. ASSUME NEW t \in Threads PROVE DropFits(t)'
  <2>0. PICK e : e = drop[t].data
    OBVIOUS
  <2>1. DropFits(t) /\ drop' = drop
    BY <1>1 DEF Untouched
  <2>2. drop[t].phase # "none" => e \in Data /\ fate'[e] # "unborn"
    BY <2>0, <2>1 DEF DropFits, Untouched
  <2>3. drop[t].value \in Nat
    BY <1>1 DEF TypeOK
  <2>4. drop[t].phase = "loaded" => /\ ptr'[<<t, drop[t].object>>] = e
                                   /\ Cardinality(Owners(e)') <= drop[t].value
    <3>1. drop[t].phase = "loaded" => ptr'[<<t, drop[t].object>>] = e
      BY <2>0, <2>1 DEF DropFits, Untouched
    <3>2. drop[t].phase = "loaded" => e \in Data /\ Cardinality(Owners(e)) <= drop[t].value
      BY <2>0, <2>1 DEF DropFits
    <3> QED BY <1>4, <2>3, <3>1, <3>2
  <2>5. drop[t].phase \in {"stored", "unlocked"} /\ drop[t].value = 0 => Owners(e)' = {}
    BY <1>3, <2>0, <2>1 DEF DropFits
  <2>6. drop[t].phase = "unlocked" => drop[t].value = 0
    BY <2>0, <2>1 DEF DropFits
  <2> QED BY <2>0, <2>1, <2>2, <2>4, <2>5, <2>6 DEF DropFits
<1> QED BY <1>5, <1>6 DEF Counted

LEMMA SameOwners ==
  ASSUME Counted, UNCHANGED <<fate, refCount, life, ptr, drop>>
  PROVE  Counted'
<1>1. \A e : Owners(e)' = Owners(e)
  BY DEF Owners, Refs, sessions
<1>2. OwnersCounted'
  BY <1>1 DEF Counted, OwnersCounted
<1>3. \A t \in Threads : DropFits(t)'
  BY <1>1 DEF Counted, DropFits
<1> QED BY <1>2, <1>3 DEF Counted
-----------------------------------------------------------------------------
(***************************************************************************)
(* The steps, one by one.  First those that change no owner and no count.  *)
(***************************************************************************)

LEMMA InitFits == Init => IInv
<1> SUFFICES ASSUME Init PROVE IInv
  OBVIOUS
<1>1. TypeOK
  BY ConstantsAssumption DEF Init, TypeOK, NoDrop, IdleThread
<1>2. \A d \in Data : Owners(d) = {}
  BY ConstantsAssumption DEF Init, Owners, Refs, sessions
<1>3. OwnersCounted
  <2> SUFFICES ASSUME NEW d \in Data PROVE Cardinality(Owners(d)) <= refCount[d]
    BY <1>2 DEF OwnersCounted
  <2>1. Cardinality(Owners(d)) = 0
    BY <1>2, FS_EmptySet
  <2>2. refCount[d] = 0
    BY DEF Init
  <2> QED BY <2>1, <2>2
<1>4. \A t \in Threads : DropFits(t)
  BY DEF Init, DropFits, NoDrop
<1>5. LoopFits /\ CallsFit
  BY DEF Init, LoopFits, CallsFit, IdleThread
<1> QED BY <1>1, <1>3, <1>4, <1>5 DEF IInv, Counted

(* The record of a handler thread, as TypeOK has it. *)
ThreadRecord ==
  [at : {"idle", "service", "lookup", "touch", "remove", "erase", "argument"},
   cookie : Data \cup {None}, reply : Data \cup {None}, id : Data \cup {None},
   create : BOOLEAN]

(* A step of a handler thread that moves only that thread. *)
Moves(t) ==
  /\ UNCHANGED <<fate, refCount, life, ptr, drop, todo>>
  /\ \A u \in Workers \ {t} : thread'[u] = thread[u]
  /\ thread'[t].at \in {"lookup", "touch", "remove"} => ~ Releasing(t)
  /\ todo # {} => mutex' = mutex

LEMMA MovesFit ==
  ASSUME IInv, NEW t \in Workers, Moves(t), TypeOK'
  PROVE  IInv'
<1>1. Counted'
  BY SameOwners DEF IInv, Moves
<1>2. LoopFits'
  BY DEF IInv, LoopFits, Moves, sessions
<1>3. CallsFit'
  BY DEF IInv, CallsFit, Moves, Releasing, Holds
<1> QED BY <1>1, <1>2, <1>3 DEF IInv

LEMMA StartRequestFits ==
  ASSUME IInv, NEW t \in Workers, NEW cookie \in Data \cup {None}, StartRequest(t, cookie)
  PROVE  IInv'
<1>0. thread' \in [Workers -> ThreadRecord]
  <2>1. thread \in [Workers -> ThreadRecord]
    BY DEF IInv, TypeOK, ThreadRecord
  <2>2. PICK r \in ThreadRecord : r = thread[t]
    BY <2>1
  <2>3. [r EXCEPT !.at = "service", !.cookie = cookie] \in ThreadRecord
    BY DEF ThreadRecord
  <2>4. thread' = [thread EXCEPT ![t] = [r EXCEPT !.at = "service", !.cookie = cookie]]
    BY <2>1, <2>2 DEF StartRequest
  <2> QED BY <2>1, <2>3, <2>4
<1>1. TypeOK'
  BY <1>0 DEF IInv, TypeOK, ThreadRecord, StartRequest
<1>2. thread'[t].at = "service" /\ Moves(t)
  BY DEF IInv, TypeOK, StartRequest, Moves
<1> QED BY <1>1, <1>2, MovesFit

LEMMA EndRequestFits ==
  ASSUME IInv, NEW t \in Workers, EndRequest(t)
  PROVE  IInv'
<1>1. TypeOK'
  BY DEF IInv, TypeOK, EndRequest, IdleThread
<1>2. Moves(t)
  BY DEF IInv, TypeOK, EndRequest, IdleThread, Moves
<1> QED BY <1>1, <1>2, MovesFit

LEMMA GetSessionFits ==
  ASSUME IInv, NEW t \in Workers, NEW allowCreate \in BOOLEAN, GetSession(t, allowCreate)
  PROVE  IInv'
<1>1. SessionId(t) \in Data \cup {None}
  BY DEF SessionId, sessions
<1>0. thread' \in [Workers -> ThreadRecord]
  <2>1. thread \in [Workers -> ThreadRecord]
    BY DEF IInv, TypeOK, ThreadRecord
  <2>2. PICK r \in ThreadRecord : r = thread[t]
    BY <2>1
  <2>3. [r EXCEPT !.at = "lookup", !.id = SessionId(t), !.create = allowCreate] \in ThreadRecord
    BY <1>1 DEF ThreadRecord
  <2>4. thread' = [thread EXCEPT ![t] = [r EXCEPT !.at = "lookup", !.id = SessionId(t), !.create = allowCreate]]
    BY <2>1, <2>2 DEF GetSession
  <2> QED BY <2>1, <2>3, <2>4
<1>2. TypeOK'
  BY <1>0, ConstantsAssumption DEF IInv, TypeOK, ThreadRecord, GetSession
<1>3. Moves(t)
  BY DEF IInv, TypeOK, GetSession, InService, Moves
<1> QED BY <1>2, <1>3, MovesFit

LEMMA NoSessionFits ==
  ASSUME IInv, NEW t \in Workers, NoSession(t)
  PROVE  IInv'
<1>0. thread' \in [Workers -> ThreadRecord]
  <2>1. thread \in [Workers -> ThreadRecord]
    BY DEF IInv, TypeOK, ThreadRecord
  <2>2. PICK r \in ThreadRecord : r = thread[t]
    BY <2>1
  <2>3. [r EXCEPT !.at = "service", !.id = None] \in ThreadRecord
    BY DEF ThreadRecord
  <2>4. thread' = [thread EXCEPT ![t] = [r EXCEPT !.at = "service", !.id = None]]
    BY <2>1, <2>2 DEF NoSession
  <2> QED BY <2>1, <2>3, <2>4
<1>1. TypeOK'
  BY <1>0 DEF IInv, TypeOK, ThreadRecord, NoSession
<1>2. Moves(t)
  BY DEF IInv, TypeOK, NoSession, Moves
<1> QED BY <1>1, <1>2, MovesFit

LEMMA TouchFits ==
  ASSUME IInv, NEW t \in Workers, Touch(t)
  PROVE  IInv'
<1>1. age' \in [Data -> 0 .. Expiration + 1]
  <2>1. PICK d : d = ptr[<<t, "session">>]
    OBVIOUS
  <2>2. 0 \in 0 .. Expiration + 1
    BY ConstantsAssumption
  <2>3. age' = [age EXCEPT ![d] = 0]
    BY <2>1 DEF Touch
  <2> QED BY <2>2, <2>3 DEF IInv, TypeOK
<1>0. thread' \in [Workers -> ThreadRecord]
  <2>1. thread \in [Workers -> ThreadRecord]
    BY DEF IInv, TypeOK, ThreadRecord
  <2>2. PICK r \in ThreadRecord : r = thread[t]
    BY <2>1
  <2>3. [r EXCEPT !.at = "service"] \in ThreadRecord
    BY DEF ThreadRecord
  <2>4. thread' = [thread EXCEPT ![t] = [r EXCEPT !.at = "service"]]
    BY <2>1, <2>2 DEF Touch
  <2> QED BY <2>1, <2>3, <2>4
<1>2. TypeOK'
  BY <1>1, <1>0 DEF IInv, TypeOK, ThreadRecord, Touch
<1>3. Moves(t)
  BY DEF IInv, TypeOK, Touch, Moves
<1> QED BY <1>2, <1>3, MovesFit

LEMMA ErasedFits ==
  ASSUME IInv, NEW t \in Workers, Erased(t)
  PROVE  IInv'
<1>0. thread' \in [Workers -> ThreadRecord]
  <2>1. thread \in [Workers -> ThreadRecord]
    BY DEF IInv, TypeOK, ThreadRecord
  <2>2. PICK r \in ThreadRecord : r = thread[t]
    BY <2>1
  <2>3. [r EXCEPT !.at = "argument"] \in ThreadRecord
    BY DEF ThreadRecord
  <2>4. thread' = [thread EXCEPT ![t] = [r EXCEPT !.at = "argument"]]
    BY <2>1, <2>2 DEF Erased
  <2> QED BY <2>1, <2>3, <2>4
<1>1. TypeOK'
  BY <1>0 DEF IInv, TypeOK, ThreadRecord, Erased, Threads
<1>2. todo # {} => mutex' = mutex
  BY ConstantsAssumption DEF IInv, LoopFits, Erased
<1>3. Moves(t)
  BY <1>2 DEF IInv, TypeOK, Erased, Moves
<1> QED BY <1>1, <1>3, MovesFit

LEMMA RemoveReturnsFits ==
  ASSUME IInv, NEW t \in Workers, RemoveReturns(t)
  PROVE  IInv'
<1>0. thread' \in [Workers -> ThreadRecord]
  <2>1. thread \in [Workers -> ThreadRecord]
    BY DEF IInv, TypeOK, ThreadRecord
  <2>2. PICK r \in ThreadRecord : r = thread[t]
    BY <2>1
  <2>3. [r EXCEPT !.at = "service"] \in ThreadRecord
    BY DEF ThreadRecord
  <2>4. thread' = [thread EXCEPT ![t] = [r EXCEPT !.at = "service"]]
    BY <2>1, <2>2 DEF RemoveReturns
  <2> QED BY <2>1, <2>3, <2>4
<1>1. TypeOK'
  BY <1>0 DEF IInv, TypeOK, ThreadRecord, RemoveReturns
<1>2. Moves(t)
  BY DEF IInv, TypeOK, RemoveReturns, Moves
<1> QED BY <1>1, <1>2, MovesFit

(* One more call, within the bound. *)
LEMMA CallsTyped ==
  ASSUME IInv, calls < MaxCalls, calls' = calls + 1
  PROVE  calls' \in 0 .. MaxCalls
BY ConstantsAssumption DEF IInv, TypeOK

LEMMA ChangeValuesFits ==
  ASSUME IInv, NEW t \in Workers, ChangeValues(t)
  PROVE  IInv'
<1>1. values' \in [Data -> SUBSET Keys]
  <2>1. PICK d : d = ptr[<<t, "session">>]
    OBVIOUS
  <2>2. PICK k \in Keys : \/ values' = [values EXCEPT ![d] = @ \cup {k}]
                          \/ values' = [values EXCEPT ![d] = @ \ {k}]
    BY <2>1 DEF ChangeValues
  <2>3. values \in [Data -> SUBSET Keys]
    BY DEF IInv, TypeOK
  <2>4. ASSUME values' = [values EXCEPT ![d] = @ \cup {k}]
        PROVE  values' \in [Data -> SUBSET Keys]
    BY <2>3, <2>4
  <2>5. ASSUME values' = [values EXCEPT ![d] = @ \ {k}]
        PROVE  values' \in [Data -> SUBSET Keys]
    BY <2>3, <2>5
  <2> QED BY <2>2, <2>4, <2>5
<1>2. calls' \in 0 .. MaxCalls
  BY CallsTyped DEF ChangeValues
<1>3. TypeOK'
  BY <1>1, <1>2 DEF IInv, TypeOK, ChangeValues
<1>4. Moves(t)
  BY DEF IInv, TypeOK, ChangeValues, Moves, InService
<1> QED BY <1>3, <1>4, MovesFit

LEMMA TimerStepsFit ==
  ASSUME IInv, TimerEvent \/ TimerReturns \/ Tick
  PROVE  IInv'
<1>1. Counted'
  <2>1. UNCHANGED <<fate, refCount, life, ptr, drop>>
    BY DEF TimerEvent, TimerReturns, Tick
  <2> QED BY <2>1, SameOwners DEF IInv
<1>2. CallsFit'
  BY DEF IInv, CallsFit, Releasing, Holds, TimerEvent, TimerReturns, Tick
<1>3. ASSUME TimerEvent PROVE TypeOK' /\ LoopFits'
  BY <1>3 DEF IInv, TypeOK, LoopFits, TimerEvent, Threads, sessions
<1>4. ASSUME TimerReturns PROVE TypeOK' /\ LoopFits'
  BY <1>4 DEF IInv, TypeOK, LoopFits, TimerReturns
<1>5. ASSUME Tick PROVE TypeOK' /\ LoopFits'
  <2>1. age' \in [Data -> 0 .. Expiration + 1]
    BY <1>5, ConstantsAssumption DEF IInv, TypeOK, Tick
  <2> QED BY <1>5, <2>1 DEF IInv, TypeOK, LoopFits, Tick, sessions
<1> QED BY <1>1, <1>2, <1>3, <1>4, <1>5 DEF IInv
-----------------------------------------------------------------------------
(***************************************************************************)
(* The destructor.                                                         *)
(***************************************************************************)

(* The record of a destructor, as TypeOK has it. *)
DropRecord ==
  [phase : {"none", "loaded", "stored", "unlocked"}, object : {"session", "copy", "old"},
   data : Data \cup {None}, value : Nat, assigned : BOOLEAN]

LEMMA DropTyped ==
  ASSUME IInv, NEW t \in Threads, NEW r \in DropRecord, drop' = [drop EXCEPT ![t] = r]
  PROVE  /\ drop' \in [Threads -> DropRecord] /\ drop'[t] = r
         /\ \A u \in Threads \ {t} : drop'[u] = drop[u]
BY DEF IInv, TypeOK, DropRecord

LEMMA LoadCountFits ==
  ASSUME IInv, NEW t \in Threads, NEW name \in {"session", "copy", "old"}, LoadCount(t, name)
  PROVE  IInv'
<1>1. PICK d : d = ptr[<<t, name>>]
  OBVIOUS
<1>2. /\ d \in Data /\ refCount[d] \in Nat
      /\ <<t, name>> \in Objects
  BY <1>1 DEF IInv, TypeOK, LoadCount, Holds, Objects
<1>3. PICK r : r = [phase |-> "loaded", object |-> name, data |-> d,
                    value |-> refCount[d], assigned |-> Assigning(t)]
  OBVIOUS
<1>4. Assigning(t) \in BOOLEAN
  BY DEF Assigning
<1>5. r \in DropRecord
  BY <1>2, <1>3, <1>4 DEF DropRecord
<1>6. drop' = [drop EXCEPT ![t] = r]
  BY <1>1, <1>3 DEF LoadCount
<1>7. /\ drop' \in [Threads -> DropRecord] /\ drop'[t] = r
      /\ \A u \in Threads \ {t} : drop'[u] = drop[u]
  BY <1>5, <1>6, DropTyped
<1>8. UNCHANGED <<fate, age, values, refCount, life, ptr, mutex, todo, thread, calls>>
  BY DEF LoadCount
<1>9. \A e : Owners(e)' = Owners(e)
  BY <1>8 DEF Owners, Refs, sessions
<1>10. OwnersCounted'
  BY <1>8, <1>9 DEF IInv, Counted, OwnersCounted
<1>11. DropFits(t)'
  <2>1. <<t, name>> \in Owners(d)
    BY <1>1, <1>2 DEF Owners, Refs
  <2>2. fate[d] # "unborn" /\ Cardinality(Owners(d)) <= refCount[d]
    BY <1>2, <2>1 DEF IInv, Counted, OwnersCounted
  <2> QED BY <1>1, <1>2, <1>3, <1>7, <1>8, <1>9, <2>2 DEF DropFits
<1>12. \A u \in Threads \ {t} : DropFits(u)'
  BY <1>7, <1>8, <1>9 DEF IInv, Counted, DropFits
<1>13. TypeOK'
  BY <1>7, <1>8 DEF IInv, TypeOK, DropRecord
<1>14. LoopFits'
  BY <1>8 DEF IInv, LoopFits, sessions
<1>15. t \in Workers => thread[t].at \notin {"lookup", "touch", "remove"}
  BY ConstantsAssumption DEF IInv, CallsFit, LoadCount, InScope, Releasing
<1>16. CallsFit'
  BY <1>7, <1>8, <1>15 DEF IInv, CallsFit, Releasing, Holds, Threads
<1> QED BY <1>10, <1>11, <1>12, <1>13, <1>14, <1>16 DEF IInv, Counted

LEMMA UnlockFits ==
  ASSUME IInv, NEW t \in Threads, Unlock(t)
  PROVE  IInv'
<1>1. PICK q \in DropRecord : q = drop[t]
  BY DEF IInv, TypeOK, DropRecord
<1>2. PICK r : r = IF q.value = 0 THEN [q EXCEPT !.phase = "unlocked"] ELSE NoDrop
  OBVIOUS
<1>3. [q EXCEPT !.phase = "unlocked"] \in DropRecord
  BY DEF DropRecord
<1>4. NoDrop \in DropRecord
  BY DEF NoDrop, DropRecord
<1>5. r \in DropRecord
  BY <1>2, <1>3, <1>4
<1>6. drop' = [drop EXCEPT ![t] = r]
  BY <1>1, <1>2 DEF Unlock, IInv, TypeOK
<1>7. /\ drop' \in [Threads -> DropRecord] /\ drop'[t] = r
      /\ \A u \in Threads \ {t} : drop'[u] = drop[u]
  BY <1>5, <1>6, DropTyped
<1>8. /\ UNCHANGED <<fate, age, values, refCount, life, ptr, mutex, todo, thread, calls>>
      /\ q.phase = "stored"
  BY <1>1 DEF Unlock
<1>9. \A e : Owners(e)' = Owners(e)
  BY <1>8 DEF Owners, Refs, sessions
<1>10. OwnersCounted'
  BY <1>8, <1>9 DEF IInv, Counted, OwnersCounted
<1>11. DropFits(t)'
  <2>1. q.value = 0 => /\ r.phase = "unlocked" /\ r.value = 0 /\ r.data = q.data
    BY <1>2 DEF DropRecord
  <2>2. q.value # 0 => r.phase = "none"
    BY <1>2 DEF NoDrop
  <2>3. /\ q.data \in Data /\ fate[q.data] # "unborn"
        /\ q.value = 0 => Owners(q.data) = {}
    BY <1>1, <1>8 DEF IInv, Counted, DropFits
  <2> QED BY <1>7, <1>8, <1>9, <2>1, <2>2, <2>3 DEF DropFits
<1>12. \A u \in Threads \ {t} : DropFits(u)'
  BY <1>7, <1>8, <1>9 DEF IInv, Counted, DropFits
<1>13. TypeOK'
  BY <1>7, <1>8 DEF IInv, TypeOK, DropRecord
<1>14. LoopFits'
  BY <1>8 DEF IInv, LoopFits, sessions
<1>15. CallsFit'
  BY <1>1, <1>7, <1>8 DEF IInv, CallsFit, Releasing, Holds, Threads
<1> QED BY <1>10, <1>11, <1>12, <1>13, <1>14, <1>15 DEF IInv, Counted

LEMMA DeleteDataFits ==
  ASSUME IInv, NEW t \in Threads, DeleteData(t)
  PROVE  IInv'
<1>1. PICK d : d = drop[t].data
  OBVIOUS
<1>2. /\ UNCHANGED <<fate, age, values, refCount, ptr, mutex, todo, thread, calls>>
      /\ life' = [life EXCEPT ![d] = "deleted"]
  BY <1>1 DEF DeleteData
<1>3. d \in Data /\ Owners(d) = {}
  BY <1>1 DEF IInv, Counted, DropFits, DeleteData
<1>4. NoDrop \in DropRecord
  BY DEF NoDrop, DropRecord
<1>5. /\ drop' \in [Threads -> DropRecord] /\ drop'[t] = NoDrop
      /\ \A u \in Threads \ {t} : drop'[u] = drop[u]
  BY <1>4, DropTyped DEF DeleteData
<1>6. \A e : Owners(e)' = Owners(e)
  BY <1>2 DEF Owners, Refs, sessions
<1>7. \A e \in Data : e # d => life'[e] = life[e]
  BY <1>2 DEF IInv, TypeOK
<1>8. OwnersCounted'
  BY <1>2, <1>3, <1>6, <1>7 DEF IInv, Counted, OwnersCounted
<1>9. \A u \in Threads : DropFits(u)'
  BY <1>2, <1>5, <1>6 DEF IInv, Counted, DropFits, NoDrop
<1>10. life' \in [Data -> {"unborn", "live", "deleted"}]
  BY <1>2 DEF IInv, TypeOK
<1>11. TypeOK'
  BY <1>2, <1>5, <1>10 DEF IInv, TypeOK, DropRecord
<1>12. LoopFits'
  BY <1>2 DEF IInv, LoopFits, sessions
<1>13. CallsFit'
  BY <1>2, <1>5 DEF IInv, CallsFit, Releasing, Holds, Threads, NoDrop
<1> QED BY <1>8, <1>9, <1>11, <1>12, <1>13 DEF IInv, Counted

LEMMA StoreCountFits ==
  ASSUME IInv, NEW t \in Threads, StoreCount(t)
  PROVE  IInv'
<1>1. PICK q \in DropRecord : q = drop[t]
  BY DEF IInv, TypeOK, DropRecord
<1>2. PICK d : d = q.data
  OBVIOUS
<1>3. PICK o : o = <<t, q.object>>
  OBVIOUS
<1>4. q.phase = "loaded" /\ d \in Data /\ fate[d] # "unborn" /\ ptr[o] = d /\ o \in Objects
  BY <1>1, <1>2, <1>3 DEF IInv, Counted, DropFits, StoreCount, Objects, DropRecord
<1>5. /\ UNCHANGED <<fate, age, values, life, mutex, todo, thread, calls>>
      /\ refCount' = [refCount EXCEPT ![d] = q.value - 1]
      /\ ptr' = [ptr EXCEPT ![o] = None]
  BY <1>1, <1>2, <1>3 DEF StoreCount
<1>6. Cardinality(Owners(d)) <= q.value /\ q.value \in Nat
  BY <1>1, <1>2, <1>4 DEF IInv, Counted, DropFits, DropRecord
<1>7. o \in Owners(d)
  BY <1>4 DEF Owners, Refs
<1>8. Cardinality(Owners(d)) \in Nat /\ Cardinality(Owners(d)) # 0 /\ IsFiniteSet(Owners(d))
  BY <1>7, OwnersFinite
<1>9. q.value \in Nat \ {0} /\ q.value - 1 \in Nat
  BY <1>6, <1>8
<1>10. ptr \in [Objects -> Data \cup {None}]
  BY DEF IInv, TypeOK
<1>11. Owners(d)' \subseteq Owners(d) \ {o}
  <2>1. Refs(d)' \subseteq Refs(d) \ {o}
    BY <1>4, <1>5, <1>10, ConstantsAssumption DEF Refs
  <2>2. o # Node
    BY <1>1, <1>3 DEF Node, DropRecord
  <2> QED BY <1>5, <2>1, <2>2 DEF Owners, sessions
<1>12. \A e \in Data : Owners(e)' \subseteq Owners(e)
  BY <1>5, <1>10, ConstantsAssumption DEF Owners, Refs, sessions
<1>13. Cardinality(Owners(d)') <= q.value - 1
  <2>1. Cardinality(Owners(d)') <= Cardinality(Owners(d)) - 1
    BY <1>7, <1>8, <1>11, OneLess
  <2>2. Cardinality(Owners(d)') \in Nat
    BY OwnersFiniteNext
  <2> QED BY <1>6, <1>8, <2>1, <2>2
<1>14. ASSUME NEW e \in Data, NEW n \in Nat, Cardinality(Owners(e)) <= n
       PROVE  Cardinality(Owners(e)') <= n
  <2>1. Cardinality(Owners(e)') <= Cardinality(Owners(e))
    BY <1>12, OwnersFinite, NoMore
  <2>2. Cardinality(Owners(e)') \in Nat /\ Cardinality(Owners(e)) \in Nat
    BY OwnersFinite, OwnersFiniteNext
  <2> QED BY <1>14, <2>1, <2>2
<1>15. refCount' \in [Data -> Nat] /\ refCount'[d] = q.value - 1
  BY <1>4, <1>5, <1>9 DEF IInv, TypeOK
<1>16. \A e \in Data : e # d => refCount'[e] = refCount[e] /\ refCount[e] \in Nat
  BY <1>5 DEF IInv, TypeOK
<1>17. OwnersCounted'
  <2> SUFFICES ASSUME NEW e \in Data
               PROVE  /\ Owners(e)' # {} => life'[e] = "live" /\ fate'[e] # "unborn"
                      /\ Cardinality(Owners(e)') <= refCount'[e]
    BY DEF OwnersCounted
  <2>1. Owners(e)' # {} => life'[e] = "live" /\ fate'[e] # "unborn"
    BY <1>5, <1>12 DEF IInv, Counted, OwnersCounted
  <2>2. e = d => Cardinality(Owners(e)') <= refCount'[e]
    BY <1>13, <1>15
  <2>3. e # d => Cardinality(Owners(e)') <= refCount'[e]
    BY <1>14, <1>16 DEF IInv, Counted, OwnersCounted
  <2> QED BY <2>1, <2>2, <2>3
<1>18. PICK r : r = [q EXCEPT !.phase = "stored",
                             !.value = IF q.assigned THEN @ ELSE @ - 1]
  OBVIOUS
<1>19. /\ r.phase = "stored" /\ r.data = d
       /\ r.value = IF q.assigned THEN q.value ELSE q.value - 1
  BY <1>2, <1>18 DEF DropRecord
<1>20. r \in DropRecord
  BY <1>9, <1>18 DEF DropRecord
<1>21. drop' = [drop EXCEPT ![t] = r]
  BY <1>1, <1>18 DEF StoreCount, IInv, TypeOK
<1>22. /\ drop' \in [Threads -> DropRecord] /\ drop'[t] = r
       /\ \A u \in Threads \ {t} : drop'[u] = drop[u]
  BY <1>20, <1>21, DropTyped
<1>23. DropFits(t)'
  <2>1. r.value = 0 => Owners(d)' = {}
    <3> SUFFICES ASSUME r.value = 0 PROVE Owners(d)' = {}
      OBVIOUS
    <3>1. Cardinality(Owners(d)') <= 0
      BY <1>9, <1>13, <1>19
    <3> QED BY <3>1, OwnersFiniteNext
  <2> QED BY <1>4, <1>5, <1>19, <1>22, <2>1 DEF DropFits
<1>24. ASSUME NEW u \in Threads \ {t} PROVE DropFits(u)'
  <2>1. PICK p \in DropRecord : p = drop[u] /\ p = drop'[u]
    BY <1>22 DEF IInv, TypeOK, DropRecord
  <2>2. ptr'[<<u, p.object>>] = ptr[<<u, p.object>>]
    BY <1>3, <1>5, <1>10
  <2>3. DropFits(u)
    BY DEF IInv, Counted
  <2>4. p.value \in Nat
    BY DEF DropRecord
  <2>5. p.phase # "none" => p.data \in Data /\ fate'[p.data] # "unborn"
    BY <1>5, <2>1, <2>3 DEF DropFits
  <2>6. p.phase = "loaded" => /\ ptr'[<<u, p.object>>] = p.data
                              /\ Cardinality(Owners(p.data)') <= p.value
    BY <1>14, <2>1, <2>2, <2>3, <2>4 DEF DropFits
  <2>7. p.phase \in {"stored", "unlocked"} /\ p.value = 0 => Owners(p.data)' = {}
    BY <1>12, <2>1, <2>3 DEF DropFits
  <2>8. p.phase = "unlocked" => p.value = 0
    BY <2>1, <2>3 DEF DropFits
  <2> QED BY <2>1, <2>5, <2>6, <2>7, <2>8 DEF DropFits
<1>25. ptr' \in [Objects -> Data \cup {None}]
  BY <1>5, <1>10
<1>26. TypeOK'
  BY <1>5, <1>15, <1>22, <1>25 DEF IInv, TypeOK, DropRecord
<1>27. LoopFits'
  BY <1>5 DEF IInv, LoopFits, sessions
<1>28. CallsFit'
  <2> SUFFICES ASSUME NEW u \in Workers, thread[u].at \in {"lookup", "touch", "remove"}
               PROVE  ~ Releasing(u)'
    BY <1>5 DEF CallsFit
  <2>1. ~ Releasing(u)
    BY DEF IInv, CallsFit
  <2>2. u # t
    BY <1>1, <1>4, <2>1 DEF Releasing
  <2> QED BY <1>3, <1>5, <1>10, <1>22, <2>1, <2>2 DEF Releasing, Holds, Threads, Objects
<1> QED BY <1>17, <1>23, <1>24, <1>26, <1>27, <1>28 DEF IInv, Counted
-----------------------------------------------------------------------------
(***************************************************************************)
(* The steps that give data another owner.                                 *)
(***************************************************************************)

(* A step of thread t that assigns only to objects of t. *)
LEMMA OwnObjects ==
  ASSUME IInv, NEW t \in Threads, ~ Releasing(t), UNCHANGED <<life, drop>>,
         \A e \in Data : fate[e] # "unborn" => fate'[e] # "unborn",
         \A o \in Objects : o[1] # t => ptr'[o] = ptr[o]
  PROVE  Untouched
<1>1. ASSUME NEW u \in Threads, drop[u].phase = "loaded"
      PROVE  ptr'[<<u, drop[u].object>>] = ptr[<<u, drop[u].object>>]
  <2>1. u # t
    BY <1>1 DEF Releasing
  <2>2. PICK p \in {"session", "copy", "old"} : p = drop[u].object
    BY DEF IInv, TypeOK
  <2>3. <<u, p>> \in Objects /\ <<u, p>>[1] # t
    BY <2>1 DEF Objects
  <2> QED BY <2>2, <2>3
<1> QED BY <1>1 DEF Untouched

(* A call in which thread t gets a copy with data d that has an owner. *)
LEMMA AttachFits ==
  ASSUME IInv, NEW t \in Workers, NEW name \in {"session", "copy"}, NEW d \in Data,
         Owners(d) # {}, ~ Releasing(t), Attach(<<t, name>>, d),
         UNCHANGED <<fate, age, values, life, mutex, todo, drop>>,
         thread' \in [Workers -> ThreadRecord],
         \A u \in Workers \ {t} : thread'[u] = thread[u],
         calls' \in 0 .. MaxCalls
  PROVE  IInv'
<1>1. PICK o : o = <<t, name>>
  OBVIOUS
<1>2. o \in Objects /\ o # Node
  BY <1>1 DEF Objects, Threads, Node
<1>3. /\ ptr' = [ptr EXCEPT ![o] = d] /\ ptr \in [Objects -> Data \cup {None}]
      /\ refCount' = [refCount EXCEPT ![d] = @ + 1] /\ refCount \in [Data -> Nat]
      /\ CanLockForWrite(d)
  BY <1>1 DEF Attach, IInv, TypeOK
<1>4. \A p \in Objects : p # o => ptr'[p] = ptr[p]
  BY <1>3
<1>5. Owners(d)' \subseteq Owners(d) \cup {o}
  BY <1>3, <1>4 DEF Owners, Refs, sessions
<1>6. ptr'[o] = d
  BY <1>2, <1>3
<1>7. \A e \in Data \ {d} : Owners(e)' \subseteq Owners(e)
  BY <1>4, <1>6 DEF Owners, Refs, sessions
<1>8. Cardinality(Owners(d)') <= Cardinality(Owners(d)) + 1
  BY <1>5, OwnersFinite, AtMostOneMore
<1>9. \A e \in Data \ {d} : Cardinality(Owners(e)') <= Cardinality(Owners(e))
  BY <1>7, OwnersFinite, NoMore
<1>10. Untouched
  <2>1. \A p \in Objects : p[1] # t => p # o
    BY <1>1
  <2> QED BY <1>4, <2>1, OwnObjects DEF Threads
<1>11. Counted'
  BY <1>3, <1>8, <1>9, <1>10, OneMoreOwner
<1>12. ptr' \in [Objects -> Data \cup {None}] /\ refCount' \in [Data -> Nat]
  <2>1. ptr' \in [Objects -> Data \cup {None}]
    BY <1>3
  <2>2. refCount[d] + 1 \in Nat
    BY <1>3
  <2>3. refCount' \in [Data -> Nat]
    BY <1>3, <2>2
  <2> QED BY <2>1, <2>3
<1>13. TypeOK'
  BY <1>12 DEF IInv, TypeOK, ThreadRecord
<1>14. LoopFits'
  BY DEF IInv, LoopFits, sessions
<1>15. \A u \in Workers : Releasing(u)' = Releasing(u)
  <2>1. \A u \in Workers : <<u, "old">> \in Objects /\ <<u, "old">> # o
    BY <1>1 DEF Objects, Threads
  <2>2. \A u \in Workers : ptr'[<<u, "old">>] = ptr[<<u, "old">>]
    BY <1>4, <2>1
  <2> QED BY <2>2 DEF Releasing, Holds
<1>16. CallsFit'
  BY <1>15 DEF IInv, CallsFit
<1> QED BY <1>11, <1>13, <1>14, <1>16 DEF IInv

(* A stored session and a session that an object points to have an owner. *)
LEMMA HasOwner ==
  ASSUME NEW d \in Data
  PROVE  /\ d \in sessions => Owners(d) # {}
         /\ \A o \in Objects : ptr[o] = d => Owners(d) # {}
BY DEF Owners, Refs

LEMMA FoundSessionFits ==
  ASSUME IInv, NEW t \in Workers, FoundSession(t)
  PROVE  IInv'
<1>1. PICK d : d = thread[t].id
  OBVIOUS
<1>2. d \in Data /\ d \in sessions /\ Owners(d) # {}
  BY <1>1, HasOwner DEF FoundSession, sessions
<1>3. thread' \in [Workers -> ThreadRecord] /\ \A u \in Workers \ {t} : thread'[u] = thread[u]
  <2>1. thread \in [Workers -> ThreadRecord]
    BY DEF IInv, TypeOK, ThreadRecord
  <2>2. PICK r \in ThreadRecord : r = thread[t]
    BY <2>1
  <2>3. [r EXCEPT !.at = "touch", !.reply = d, !.id = None, !.create = FALSE] \in ThreadRecord
    BY <1>2 DEF ThreadRecord
  <2>4. thread' = [thread EXCEPT ![t] = [r EXCEPT !.at = "touch", !.reply = d, !.id = None,
                                                 !.create = FALSE]]
    BY <1>1, <2>1, <2>2 DEF FoundSession
  <2> QED BY <2>1, <2>3, <2>4
<1>4. ~ Releasing(t)
  BY DEF IInv, CallsFit, FoundSession
<1>5. calls' \in 0 .. MaxCalls
  BY DEF IInv, TypeOK, FoundSession
<1>6. Attach(<<t, "session">>, d)
  BY <1>1 DEF FoundSession
<1>7. UNCHANGED <<fate, age, values, life, mutex, todo, drop>>
  BY DEF FoundSession
<1> QED BY <1>2, <1>3, <1>4, <1>5, <1>6, <1>7, AttachFits

LEMMA GetSessionByIdFits ==
  ASSUME IInv, NEW t \in Workers, NEW d \in Data, GetSessionById(t, d)
  PROVE  IInv'
<1>1. Owners(d) # {}
  BY HasOwner DEF GetSessionById
<1>2. thread' \in [Workers -> ThreadRecord] /\ \A u \in Workers \ {t} : thread'[u] = thread[u]
  <2>1. thread \in [Workers -> ThreadRecord]
    BY DEF IInv, TypeOK, ThreadRecord
  <2>2. PICK r \in ThreadRecord : r = thread[t]
    BY <2>1
  <2>3. [r EXCEPT !.at = "touch"] \in ThreadRecord
    BY DEF ThreadRecord
  <2>4. thread' = [thread EXCEPT ![t] = [r EXCEPT !.at = "touch"]]
    BY <2>1, <2>2 DEF GetSessionById
  <2> QED BY <2>1, <2>3, <2>4
<1>3. /\ ~ Releasing(t) /\ Attach(<<t, "session">>, d)
      /\ UNCHANGED <<fate, age, values, life, mutex, todo, drop>>
      /\ calls < MaxCalls /\ calls' = calls + 1
  BY DEF GetSessionById, InService
<1> QED BY <1>1, <1>2, <1>3, CallsTyped, AttachFits

LEMMA CopyFits ==
  ASSUME IInv, NEW t \in Workers, Copy(t)
  PROVE  IInv'
<1>1. PICK d : d = ptr[<<t, "session">>]
  OBVIOUS
<1>2. <<t, "session">> \in Objects
  BY DEF Objects, Threads
<1>3. d \in Data
  BY <1>1, <1>2 DEF IInv, TypeOK, Copy, Holds
<1>4. Owners(d) # {}
  BY <1>1, <1>2, <1>3, HasOwner
<1>5. /\ ~ Releasing(t) /\ Attach(<<t, "copy">>, d)
      /\ UNCHANGED <<fate, age, values, life, mutex, todo, drop>>
      /\ thread' = thread /\ calls < MaxCalls /\ calls' = calls + 1
  BY <1>1 DEF Copy, InService
<1>6. thread' \in [Workers -> ThreadRecord]
  BY <1>5 DEF IInv, TypeOK, ThreadRecord
<1> QED BY <1>3, <1>4, <1>5, <1>6, CallsTyped, AttachFits

LEMMA RemoveSessionFits ==
  ASSUME IInv, NEW t \in Workers, RemoveSession(t)
  PROVE  IInv'
<1>1. PICK d : d = ptr[<<t, "session">>]
  OBVIOUS
<1>2. <<t, "session">> \in Objects
  BY DEF Objects, Threads
<1>3. d \in Data
  BY <1>1, <1>2 DEF IInv, TypeOK, RemoveSession, Holds
<1>4. Owners(d) # {}
  BY <1>1, <1>2, <1>3, HasOwner
<1>5. thread' \in [Workers -> ThreadRecord] /\ \A u \in Workers \ {t} : thread'[u] = thread[u]
  <2>1. thread \in [Workers -> ThreadRecord]
    BY DEF IInv, TypeOK, ThreadRecord
  <2>2. PICK r \in ThreadRecord : r = thread[t]
    BY <2>1
  <2>3. [r EXCEPT !.at = "remove"] \in ThreadRecord
    BY DEF ThreadRecord
  <2>4. thread' = [thread EXCEPT ![t] = [r EXCEPT !.at = "remove"]]
    BY <2>1, <2>2 DEF RemoveSession
  <2> QED BY <2>1, <2>3, <2>4
<1>6. /\ ~ Releasing(t) /\ Attach(<<t, "copy">>, d)
      /\ UNCHANGED <<fate, age, values, life, mutex, todo, drop>>
      /\ calls < MaxCalls /\ calls' = calls + 1
  BY <1>1 DEF RemoveSession, InService
<1> QED BY <1>3, <1>4, <1>5, <1>6, CallsTyped, AttachFits

LEMMA CreateSessionFits ==
  ASSUME IInv, NEW t \in Workers, NEW d \in Data, CreateSession(t, d)
  PROVE  IInv'
<1>1. PICK o : o = <<t, "session">>
  OBVIOUS
<1>2. o \in Objects
  BY <1>1 DEF Objects, Threads
<1>3. /\ fate[d] = "unborn"
      /\ fate' = [fate EXCEPT ![d] = "stored"] /\ life' = [life EXCEPT ![d] = "live"]
      /\ refCount' = [refCount EXCEPT ![d] = 2] /\ ptr' = [ptr EXCEPT ![o] = d]
      /\ UNCHANGED <<age, values, mutex, todo, drop, calls>>
  BY <1>1 DEF CreateSession
<1>4. /\ fate'[d] = "stored" /\ \A e \in Data : e # d => fate'[e] = fate[e]
      /\ life'[d] = "live" /\ \A e \in Data : e # d => life'[e] = life[e]
      /\ refCount'[d] = 2 /\ \A e \in Data : e # d => refCount'[e] = refCount[e]
      /\ ptr'[o] = d /\ \A p \in Objects : p # o => ptr'[p] = ptr[p]
  BY <1>2, <1>3 DEF IInv, TypeOK
<1>5. /\ fate' \in [Data -> {"unborn", "stored", "expired", "removed"}]
      /\ life' \in [Data -> {"unborn", "live", "deleted"}]
      /\ refCount' \in [Data -> Nat] /\ ptr' \in [Objects -> Data \cup {None}]
  BY <1>3 DEF IInv, TypeOK
<1>6. Owners(d) = {}
  BY <1>3 DEF IInv, Counted, OwnersCounted
<1>7. Owners(d)' \subseteq (Owners(d) \cup {o}) \cup {Node}
  BY <1>4 DEF Owners, Refs
<1>8. \A e \in Data : e # d => Owners(e)' \subseteq Owners(e)
  BY <1>4 DEF Owners, Refs, sessions
<1>9. Cardinality(Owners(d)') <= 2
  <2>1. Owners(d) \cup {o} = {o} /\ IsFiniteSet({o}) /\ Cardinality({o}) = 1
    BY <1>6, FS_Singleton
  <2>2. Owners(d)' \subseteq {o} \cup {Node}
    BY <1>7, <2>1
  <2>3. Cardinality(Owners(d)') <= Cardinality({o}) + 1
    BY <2>1, <2>2, AtMostOneMore
  <2> QED BY <2>1, <2>3
<1>10. ASSUME NEW e \in Data, e # d, NEW n \in Nat, Cardinality(Owners(e)) <= n
       PROVE  Cardinality(Owners(e)') <= n
  <2>1. Cardinality(Owners(e)') <= Cardinality(Owners(e))
    BY <1>8, <1>10, OwnersFinite, NoMore
  <2>2. Cardinality(Owners(e)') \in Nat /\ Cardinality(Owners(e)) \in Nat
    BY OwnersFinite, OwnersFiniteNext
  <2> QED BY <1>10, <2>1, <2>2
<1>11. OwnersCounted'
  <2> SUFFICES ASSUME NEW e \in Data
               PROVE  /\ Owners(e)' # {} => life'[e] = "live" /\ fate'[e] # "unborn"
                      /\ Cardinality(Owners(e)') <= refCount'[e]
    BY DEF OwnersCounted
  <2>1. ASSUME e # d
        PROVE  /\ Owners(e)' # {} => life'[e] = "live" /\ fate'[e] # "unborn"
               /\ Cardinality(Owners(e)') <= refCount'[e]
    <3>1. /\ Owners(e) # {} => life[e] = "live" /\ fate[e] # "unborn"
          /\ Cardinality(Owners(e)) <= refCount[e] /\ refCount[e] \in Nat
      BY DEF IInv, Counted, OwnersCounted, TypeOK
    <3>2. Cardinality(Owners(e)') <= refCount'[e]
      BY <1>4, <1>10, <2>1, <3>1
    <3> QED BY <1>4, <1>8, <2>1, <3>1, <3>2
  <2>2. ASSUME e = d
        PROVE  /\ Owners(e)' # {} => life'[e] = "live" /\ fate'[e] # "unborn"
               /\ Cardinality(Owners(e)') <= refCount'[e]
    BY <1>4, <1>9, <2>2
  <2> QED BY <2>1, <2>2
<1>12. ASSUME NEW u \in Threads PROVE DropFits(u)'
  <2>1. PICK p \in DropRecord : p = drop[u] /\ p = drop'[u]
    BY <1>3 DEF IInv, TypeOK, DropRecord
  <2>2. DropFits(u)
    BY DEF IInv, Counted
  <2>3. p.phase # "none" => p.data \in Data /\ p.data # d /\ fate[p.data] # "unborn"
    BY <1>3, <2>1, <2>2 DEF DropFits
  <2>4. p.phase # "none" => fate'[p.data] # "unborn"
    BY <1>4, <2>3
  <2>5. p.phase = "loaded" => u # t
    BY <2>1 DEF IInv, CallsFit, CreateSession, Releasing
  <2>6. <<u, p.object>> \in Objects
    BY DEF DropRecord, Objects
  <2>7. u # t => ptr'[<<u, p.object>>] = ptr[<<u, p.object>>]
    BY <1>1, <1>4, <2>6
  <2>8. p.phase = "loaded" => /\ ptr'[<<u, p.object>>] = p.data
                              /\ Cardinality(Owners(p.data)') <= p.value
    BY <1>10, <2>1, <2>2, <2>3, <2>5, <2>7 DEF DropFits, DropRecord
  <2>9. p.phase \in {"stored", "unlocked"} /\ p.value = 0 => Owners(p.data)' = {}
    BY <1>8, <2>1, <2>2, <2>3 DEF DropFits
  <2>10. p.phase = "unlocked" => p.value = 0
    BY <2>1, <2>2 DEF DropFits
  <2> QED BY <2>1, <2>3, <2>4, <2>8, <2>9, <2>10 DEF DropFits
<1>13. thread' \in [Workers -> ThreadRecord] /\ thread'[t].at = "service"
       /\ \A u \in Workers \ {t} : thread'[u] = thread[u]
  <2>1. thread \in [Workers -> ThreadRecord]
    BY DEF IInv, TypeOK, ThreadRecord
  <2>2. PICK r \in ThreadRecord : r = thread[t]
    BY <2>1
  <2>3. [r EXCEPT !.at = "service", !.reply = d, !.id = None, !.create = FALSE] \in ThreadRecord
    BY DEF ThreadRecord
  <2>4. thread' = [thread EXCEPT ![t] = [r EXCEPT !.at = "service", !.reply = d, !.id = None,
                                                 !.create = FALSE]]
    BY <2>1, <2>2 DEF CreateSession
  <2>5. [r EXCEPT !.at = "service", !.reply = d, !.id = None, !.create = FALSE].at = "service"
    BY DEF ThreadRecord
  <2> QED BY <2>1, <2>3, <2>4, <2>5
<1>14. TypeOK'
  BY <1>3, <1>5, <1>13 DEF IInv, TypeOK, ThreadRecord
<1>15. LoopFits'
  BY <1>3, <1>4 DEF IInv, LoopFits, sessions
<1>16. CallsFit'
  <2>1. \A u \in Workers : <<u, "old">> \in Objects /\ <<u, "old">> # o
    BY <1>1 DEF Objects, Threads
  <2>2. \A u \in Workers : ptr'[<<u, "old">>] = ptr[<<u, "old">>]
    BY <1>4, <2>1
  <2>3. \A u \in Workers : Releasing(u)' = Releasing(u)
    BY <1>3, <2>2 DEF Releasing, Holds
  <2> QED BY <1>13, <2>3 DEF IInv, CallsFit
<1> QED BY <1>11, <1>12, <1>14, <1>15, <1>16 DEF IInv, Counted

LEMMA EraseRemovedFits ==
  ASSUME IInv, NEW t \in Workers, EraseRemoved(t)
  PROVE  IInv'
<1>1. PICK d : d = ptr[<<t, "copy">>]
  OBVIOUS
<1>2. PICK o : o = <<t, "old">>
  OBVIOUS
<1>3. o \in Objects /\ o # Node
  BY <1>2 DEF Objects, Threads, Node
<1>4. /\ UNCHANGED <<age, values, refCount, life, todo, drop, calls>>
      /\ mutex = None /\ ~ Releasing(t)
  BY DEF IInv, CallsFit, EraseRemoved
<1>5. thread' \in [Workers -> ThreadRecord] /\ thread'[t].at = "erase"
      /\ \A u \in Workers \ {t} : thread'[u] = thread[u]
  <2>1. thread \in [Workers -> ThreadRecord]
    BY DEF IInv, TypeOK, ThreadRecord
  <2>2. PICK r \in ThreadRecord : r = thread[t]
    BY <2>1
  <2>3. [r EXCEPT !.at = "erase"] \in ThreadRecord /\ [r EXCEPT !.at = "erase"].at = "erase"
    BY DEF ThreadRecord
  <2>4. thread' = [thread EXCEPT ![t] = [r EXCEPT !.at = "erase"]]
    BY <2>1, <2>2 DEF EraseRemoved
  <2> QED BY <2>1, <2>3, <2>4
<1>6. LoopFits'
  BY <1>4, ConstantsAssumption DEF IInv, LoopFits, EraseRemoved
<1>7. /\ fate \in [Data -> {"unborn", "stored", "expired", "removed"}]
      /\ ptr \in [Objects -> Data \cup {None}]
  BY DEF IInv, TypeOK
<1>8. ASSUME d \notin sessions
      PROVE  Counted' /\ TypeOK' /\ \A u \in Workers : ptr'[<<u, "old">>] = ptr[<<u, "old">>]
  <2>1. UNCHANGED <<fate, ptr, mutex>>
    BY <1>1, <1>8 DEF EraseRemoved
  <2>2. Counted'
    BY <1>4, <2>1, SameOwners DEF IInv
  <2> QED BY <1>4, <1>5, <2>1, <2>2 DEF IInv, TypeOK, ThreadRecord
<1>9. ASSUME d \in sessions
      PROVE  Counted' /\ TypeOK' /\ \A u \in Workers : u # t => ptr'[<<u, "old">>] = ptr[<<u, "old">>]
  <2>1. /\ fate' = [fate EXCEPT ![d] = "removed"] /\ ptr' = [ptr EXCEPT ![o] = d] /\ mutex' = t
    BY <1>1, <1>2, <1>9 DEF EraseRemoved
  <2>2. d \in Data
    BY <1>9 DEF sessions
  <2>3. /\ fate' \in [Data -> {"unborn", "stored", "expired", "removed"}]
        /\ ptr' \in [Objects -> Data \cup {None}] /\ mutex' \in Threads
    BY <1>7, <2>1, <2>2 DEF Threads
  <2>4. /\ fate'[d] = "removed" /\ \A e \in Data : e # d => fate'[e] = fate[e]
        /\ ptr'[o] = d /\ \A p \in Objects : p # o => ptr'[p] = ptr[p]
    BY <1>3, <1>7, <2>1, <2>2
  <2>5. Node \in Owners(d) /\ Owners(d)' \subseteq (Owners(d) \ {Node}) \cup {o}
    <3>1. Node \notin Objects
      BY DEF Node, Objects
    <3> QED BY <1>9, <2>4, <3>1 DEF Owners, Refs, sessions
  <2>6. \A e \in Data : e # d => Owners(e)' \subseteq Owners(e)
    BY <2>4 DEF Owners, Refs, sessions
  <2>7. \A e \in Data : Cardinality(Owners(e)') <= Cardinality(Owners(e))
    <3>1. Cardinality(Owners(d)') <= Cardinality(Owners(d))
      BY <2>5, OwnersFinite, OneForAnother
    <3>2. \A e \in Data : e # d => Cardinality(Owners(e)') <= Cardinality(Owners(e))
      BY <2>6, OwnersFinite, NoMore
    <3> QED BY <3>1, <3>2
  <2>8. Untouched
    <3>1. \A p \in Objects : p[1] # t => ptr'[p] = ptr[p]
      BY <1>2, <2>4
    <3>2. \A e \in Data : fate[e] # "unborn" => fate'[e] # "unborn"
      BY <2>4
    <3> QED BY <1>4, <3>1, <3>2, OwnObjects DEF Threads
  <2>9. Counted'
    BY <1>4, <2>7, <2>8, NoMoreOwners
  <2>10. \A u \in Workers : u # t => <<u, "old">> \in Objects /\ <<u, "old">> # o
    BY <1>2 DEF Objects, Threads
  <2> QED BY <1>4, <1>5, <2>3, <2>4, <2>9, <2>10 DEF IInv, TypeOK, ThreadRecord
<1>10. \A u \in Workers : u # t => Releasing(u)' = Releasing(u)
  BY <1>4, <1>8, <1>9 DEF Releasing, Holds
<1>11. CallsFit'
  BY <1>5, <1>10 DEF IInv, CallsFit
<1> QED BY <1>6, <1>8, <1>9, <1>11 DEF IInv

LEMMA AssignFits ==
  ASSUME IInv, NEW t \in Workers, Assign(t)
  PROVE  IInv'
<1>1. PICK d : d = ptr[<<t, "copy">>]
  OBVIOUS
<1>2. PICK b : b = ptr[<<t, "session">>]
  OBVIOUS
<1>3. PICK o : o = <<t, "session">>
  OBVIOUS
<1>4. PICK p : p = <<t, "old">>
  OBVIOUS
<1>5. o \in Objects /\ p \in Objects /\ o # p /\ o # Node /\ p # Node /\ <<t, "copy">> \in Objects
  BY <1>3, <1>4 DEF Objects, Threads, Node
<1>6. /\ ptr \in [Objects -> Data \cup {None}] /\ age \in [Data -> 0 .. Expiration + 1]
      /\ refCount \in [Data -> Nat] /\ d \in Data \cup {None} /\ b \in Data \cup {None}
  BY <1>1, <1>2, <1>3, <1>5 DEF IInv, TypeOK
<1>7. /\ UNCHANGED <<fate, values, life, mutex, todo, drop, thread>>
      /\ calls < MaxCalls /\ calls' = calls + 1
      /\ ~ Releasing(t) /\ CanLockForWrite(d) /\ thread[t].at = "service"
      /\ ptr' = [ptr EXCEPT ![o] = d, ![p] = b]
      /\ refCount' = IF d = None THEN refCount ELSE [refCount EXCEPT ![d] = @ + 1]
      /\ age' = IF d = None THEN age ELSE [age EXCEPT ![d] = 0]
  BY <1>1, <1>2, <1>3, <1>4 DEF Assign, InService
<1>8. /\ ptr' \in [Objects -> Data \cup {None}]
      /\ ptr'[o] = d /\ ptr'[p] = b /\ \A q \in Objects : q # o /\ q # p => ptr'[q] = ptr[q]
  BY <1>5, <1>6, <1>7
<1>9. ptr[p] = None /\ ptr[o] = b
  BY <1>2, <1>3, <1>4, <1>7 DEF Releasing, Holds
<1>10. Untouched
  <2>1. \A q \in Objects : q[1] # t => ptr'[q] = ptr[q]
    BY <1>3, <1>4, <1>8
  <2> QED BY <1>7, <2>1, OwnObjects DEF Threads
<1>11. \A e \in Data : e # d => Cardinality(Owners(e)') <= Cardinality(Owners(e))
  <2> SUFFICES ASSUME NEW e \in Data, e # d
               PROVE  Cardinality(Owners(e)') <= Cardinality(Owners(e))
    OBVIOUS
  <2>1. ASSUME e = b PROVE Cardinality(Owners(e)') <= Cardinality(Owners(e))
    <3>1. o \in Owners(e)
      BY <1>5, <1>9, <2>1 DEF Owners, Refs
    <3>2. Owners(e)' \subseteq (Owners(e) \ {o}) \cup {p}
      BY <1>5, <1>7, <1>8 DEF Owners, Refs, sessions
    <3> QED BY <3>1, <3>2, OwnersFinite, OneForAnother
  <2>2. ASSUME e # b PROVE Cardinality(Owners(e)') <= Cardinality(Owners(e))
    <3>1. Owners(e)' \subseteq Owners(e)
      BY <1>7, <1>8, <2>2 DEF Owners, Refs, sessions
    <3> QED BY <3>1, OwnersFinite, NoMore
  <2> QED BY <2>1, <2>2
<1>12. ASSUME d # None PROVE Counted' /\ refCount' \in [Data -> Nat]
  <2>1. d \in Data /\ refCount' = [refCount EXCEPT ![d] = @ + 1]
    BY <1>6, <1>7, <1>12
  <2>2. Owners(d) # {}
    BY <1>1, <1>5, <2>1, HasOwner
  <2>3. Cardinality(Owners(d)') <= Cardinality(Owners(d)) + 1
    <3>1. ASSUME b = d PROVE Owners(d)' \subseteq Owners(d) \cup {p}
      BY <1>7, <1>8, <1>9, <3>1 DEF Owners, Refs, sessions
    <3>2. ASSUME b # d PROVE Owners(d)' \subseteq Owners(d) \cup {o}
      BY <1>7, <1>8, <3>2 DEF Owners, Refs, sessions
    <3>3. b = d => Cardinality(Owners(d)') <= Cardinality(Owners(d)) + 1
      BY <3>1, OwnersFinite, AtMostOneMore
    <3>4. b # d => Cardinality(Owners(d)') <= Cardinality(Owners(d)) + 1
      BY <3>2, OwnersFinite, AtMostOneMore
    <3> QED BY <3>3, <3>4
  <2>4. Counted'
    BY <1>7, <1>10, <1>11, <2>1, <2>2, <2>3, OneMoreOwner
  <2>5. refCount[d] + 1 \in Nat
    BY <1>6, <2>1
  <2>6. refCount' \in [Data -> Nat]
    BY <1>6, <2>1, <2>5
  <2> QED BY <2>4, <2>6
<1>13. ASSUME d = None PROVE Counted' /\ refCount' \in [Data -> Nat]
  <2>1. refCount' = refCount
    BY <1>7, <1>13
  <2>2. \A e \in Data : e # d
    BY <1>13, ConstantsAssumption
  <2>3. Counted'
    BY <1>10, <1>11, <2>1, <2>2, NoMoreOwners
  <2> QED BY <1>6, <2>1, <2>3
<1>14. age' \in [Data -> 0 .. Expiration + 1]
  <2>1. 0 \in 0 .. Expiration + 1
    BY ConstantsAssumption
  <2> QED BY <1>6, <1>7, <2>1
<1>15. calls' \in 0 .. MaxCalls
  BY <1>7, CallsTyped
<1>16. TypeOK'
  <2>1. refCount' \in [Data -> Nat]
    BY <1>12, <1>13
  <2> QED BY <1>7, <1>8, <1>14, <1>15, <2>1 DEF IInv, TypeOK
<1>17. LoopFits'
  BY <1>7 DEF IInv, LoopFits, sessions
<1>18. CallsFit'
  <2>1. \A u \in Workers : u # t => <<u, "old">> \in Objects /\ <<u, "old">> # o /\ <<u, "old">> # p
    BY <1>3, <1>4 DEF Objects, Threads
  <2>2. \A u \in Workers : u # t => ptr'[<<u, "old">>] = ptr[<<u, "old">>]
    BY <1>8, <2>1
  <2>3. \A u \in Workers : u # t => Releasing(u)' = Releasing(u)
    BY <1>7, <2>2 DEF Releasing, Holds
  <2> QED BY <1>7, <2>3 DEF IInv, CallsFit
<1> QED BY <1>12, <1>13, <1>16, <1>17, <1>18 DEF IInv

LEMMA TimerVisitFits ==
  ASSUME IInv, NEW d \in Data, TimerVisit(d)
  PROVE  IInv'
<1>1. PICK o : o = <<Timer, "session">>
  OBVIOUS
<1>2. Timer \in Threads /\ o \in Objects /\ o # Node
  BY <1>1 DEF Objects, Threads, Node
<1>3. ptr \in [Objects -> Data \cup {None}] /\ refCount \in [Data -> Nat]
  BY DEF IInv, TypeOK
<1>4. /\ UNCHANGED <<fate, age, values, life, mutex, drop, thread, calls>>
      /\ mutex = Timer /\ d \in todo /\ todo' \subseteq todo
      /\ ~ Releasing(Timer) /\ CanLockForWrite(d)
      /\ ptr' = [ptr EXCEPT ![o] = d]
      /\ refCount' = [refCount EXCEPT ![d] = @ + 1]
  BY <1>1 DEF TimerVisit, Attach
<1>5. d \in sessions /\ todo \subseteq sessions
  BY <1>4 DEF IInv, LoopFits
<1>6. Owners(d) # {}
  BY <1>5, HasOwner DEF Owners
<1>7. /\ ptr'[o] = d /\ \A q \in Objects : q # o => ptr'[q] = ptr[q]
      /\ ptr' \in [Objects -> Data \cup {None}]
  BY <1>2, <1>3, <1>4
<1>8. \A e \in Data \ {d} : Cardinality(Owners(e)') <= Cardinality(Owners(e))
  <2>1. \A e \in Data \ {d} : Owners(e)' \subseteq Owners(e)
    BY <1>4, <1>7 DEF Owners, Refs, sessions
  <2> QED BY <2>1, OwnersFinite, NoMore
<1>9. Cardinality(Owners(d)') <= Cardinality(Owners(d)) + 1
  <2>1. Owners(d)' \subseteq Owners(d) \cup {o}
    BY <1>4, <1>7 DEF Owners, Refs, sessions
  <2> QED BY <2>1, OwnersFinite, AtMostOneMore
<1>10. Untouched
  <2>1. \A q \in Objects : q[1] # Timer => ptr'[q] = ptr[q]
    BY <1>1, <1>7
  <2> QED BY <1>2, <1>4, <2>1, OwnObjects
<1>11. Counted'
  BY <1>4, <1>6, <1>8, <1>9, <1>10, OneMoreOwner
<1>12. refCount' \in [Data -> Nat]
  <2>1. refCount[d] + 1 \in Nat
    BY <1>3
  <2> QED BY <1>3, <1>4, <2>1
<1>13. TypeOK'
  BY <1>4, <1>7, <1>12 DEF IInv, TypeOK
<1>14. LoopFits'
  BY <1>4, <1>5 DEF LoopFits, sessions
<1>15. CallsFit'
  <2>1. \A u \in Workers : <<u, "old">> \in Objects /\ <<u, "old">> # o
    BY <1>1 DEF Objects, Threads
  <2>2. \A u \in Workers : ptr'[<<u, "old">>] = ptr[<<u, "old">>]
    BY <1>7, <2>1
  <2>3. \A u \in Workers : Releasing(u)' = Releasing(u)
    BY <1>4, <2>2 DEF Releasing, Holds
  <2> QED BY <1>4, <2>3 DEF IInv, CallsFit
<1> QED BY <1>11, <1>13, <1>14, <1>15 DEF IInv

(* The node of the map becomes the object "old". *)
LEMMA TimerEraseFits ==
  ASSUME IInv, TimerFits, NEW d \in Data, TimerErase(d)
  PROVE  IInv'
<1>1. PICK p : p = <<Timer, "old">>
  OBVIOUS
<1>2. Timer \in Threads /\ p \in Objects /\ p # Node
  BY <1>1 DEF Objects, Threads, Node
<1>3. /\ ptr \in [Objects -> Data \cup {None}]
      /\ fate \in [Data -> {"unborn", "stored", "expired", "removed"}]
  BY DEF IInv, TypeOK
<1>4. /\ UNCHANGED <<age, values, refCount, life, mutex, drop, thread, calls>>
      /\ mutex = Timer /\ d \in todo /\ todo' = todo \ {d}
      /\ ptr' = [ptr EXCEPT ![p] = d] /\ fate' = [fate EXCEPT ![d] = "expired"]
  BY <1>1 DEF TimerErase, Condemned
<1>5. d \in sessions /\ todo \subseteq sessions
  BY <1>4 DEF IInv, LoopFits
<1>6. ~ Releasing(Timer)
  BY DEF TimerFits, TimerErase
<1>7. Node \in Owners(d)
  BY <1>5 DEF Owners
<1>8. /\ ptr'[p] = d /\ \A q \in Objects : q # p => ptr'[q] = ptr[q]
      /\ ptr' \in [Objects -> Data \cup {None}]
  BY <1>2, <1>3, <1>4
<1>9. /\ fate'[d] = "expired" /\ \A e \in Data : e # d => fate'[e] = fate[e]
      /\ fate' \in [Data -> {"unborn", "stored", "expired", "removed"}]
  BY <1>3, <1>4
<1>10. ASSUME NEW e \in Data PROVE Cardinality(Owners(e)') <= Cardinality(Owners(e))
  <2>1. ASSUME e # d PROVE Cardinality(Owners(e)') <= Cardinality(Owners(e))
    <3>1. Owners(e)' \subseteq Owners(e)
      BY <1>8, <1>9, <2>1 DEF Owners, Refs, sessions
    <3> QED BY <3>1, OwnersFinite, NoMore
  <2>2. ASSUME e = d PROVE Cardinality(Owners(e)') <= Cardinality(Owners(e))
    <3>1. Node \notin Owners(d)'
      BY <1>9 DEF Owners, Refs, sessions, Node, Objects
    <3>2. Refs(d)' \subseteq Refs(d) \cup {p}
      BY <1>8 DEF Refs
    <3>3. Owners(d)' \subseteq (Owners(d) \ {Node}) \cup {p}
      BY <3>1, <3>2 DEF Owners
    <3> QED BY <1>7, <2>2, <3>3, OwnersFinite, OneForAnother
  <2> QED BY <2>1, <2>2
<1>11. Untouched
  <2>1. \A q \in Objects : q[1] # Timer => ptr'[q] = ptr[q]
    BY <1>1, <1>8
  <2>2. \A e \in Data : fate[e] # "unborn" => fate'[e] # "unborn"
    BY <1>9
  <2> QED BY <1>2, <1>4, <1>6, <2>1, <2>2, OwnObjects
<1>12. Counted'
  BY <1>4, <1>10, <1>11, NoMoreOwners
<1>13. TypeOK'
  BY <1>4, <1>8, <1>9 DEF IInv, TypeOK
<1>14. LoopFits'
  BY <1>4, <1>5, <1>9 DEF LoopFits, sessions
<1>15. CallsFit'
  <2>1. \A u \in Workers : <<u, "old">> \in Objects /\ <<u, "old">> # p
    BY <1>1, ConstantsAssumption DEF Objects, Threads
  <2>2. \A u \in Workers : ptr'[<<u, "old">>] = ptr[<<u, "old">>]
    BY <1>8, <2>1
  <2>3. \A u \in Workers : Releasing(u)' = Releasing(u)
    BY <1>4, <2>2 DEF Releasing, Holds
  <2> QED BY <1>4, <2>3 DEF IInv, CallsFit
<1> QED BY <1>12, <1>13, <1>14, <1>15 DEF IInv
-----------------------------------------------------------------------------
(***************************************************************************)
(* The invariance proof and its corollaries.                               *)
(***************************************************************************)

LEMMA ContinueFits ==
  ASSUME IInv, TimerFits, NEW t \in Threads, Continue(t)
  PROVE  IInv'
<1>1. ASSUME NEW name \in {"session", "copy", "old"}, LoadCount(t, name) PROVE IInv'
  BY <1>1, LoadCountFits
<1>2. ASSUME StoreCount(t) \/ Unlock(t) \/ DeleteData(t) PROVE IInv'
  BY <1>2, StoreCountFits, UnlockFits, DeleteDataFits
<1>3. ASSUME t # Timer, FoundSession(t) \/ NoSession(t) \/ \E d \in Data : CreateSession(t, d)
      PROVE  IInv'
  BY <1>3, FoundSessionFits, NoSessionFits, CreateSessionFits DEF Threads
<1>4. ASSUME t # Timer, Touch(t) \/ EraseRemoved(t) \/ Erased(t) \/ RemoveReturns(t)
      PROVE  IInv'
  BY <1>4, TouchFits, EraseRemovedFits, ErasedFits, RemoveReturnsFits DEF Threads
<1>5. ASSUME NEW d \in Data, TimerErase(d) PROVE IInv'
  BY <1>5, TimerEraseFits
<1> QED BY <1>1, <1>2, <1>3, <1>4, <1>5 DEF Continue

LEMMA ApplicationFits ==
  ASSUME IInv, NEW t \in Workers, Application(t)
  PROVE  IInv'
<1>1. ASSUME NEW name \in {"session", "copy"}, LoadCount(t, name) PROVE IInv'
  BY <1>1, LoadCountFits DEF Threads
<1>2. ASSUME \/ \E cookie \in Data \cup {None} : StartRequest(t, cookie)
             \/ EndRequest(t)
             \/ \E allowCreate \in BOOLEAN : GetSession(t, allowCreate)
      PROVE  IInv'
  BY <1>2, StartRequestFits, EndRequestFits, GetSessionFits
<1>3. ASSUME \/ \E d \in Data : GetSessionById(t, d)
             \/ RemoveSession(t) \/ Copy(t) \/ Assign(t) \/ ChangeValues(t)
      PROVE  IInv'
  BY <1>3, GetSessionByIdFits, RemoveSessionFits, CopyFits, AssignFits, ChangeValuesFits
<1> QED BY <1>1, <1>2, <1>3 DEF Application

LEMMA StepFits == IInv /\ TimerFits /\ [Next]_vars => IInv'
<1> SUFFICES ASSUME IInv, TimerFits, [Next]_vars PROVE IInv'
  OBVIOUS
<1>1. ASSUME NEW t \in Threads, Continue(t) PROVE IInv'
  BY <1>1, ContinueFits
<1>2. ASSUME NEW t \in Workers, Application(t) PROVE IInv'
  BY <1>2, ApplicationFits
<1>3. ASSUME TimerEvent \/ TimerReturns \/ Tick PROVE IInv'
  BY <1>3, TimerStepsFit
<1>4. ASSUME NEW d \in Data, TimerVisit(d) PROVE IInv'
  BY <1>4, TimerVisitFits
<1>5. ASSUME UNCHANGED vars PROVE IInv'
  <2>1. Counted'
    BY <1>5, SameOwners DEF IInv, vars
  <2> QED BY <1>5, <2>1 DEF IInv, TypeOK, LoopFits, sessions, CallsFit, Releasing, Holds, vars
<1> QED BY <1>1, <1>2, <1>3, <1>4, <1>5 DEF Next

(***************************************************************************)
(* The timer and its copy.                                                 *)
(***************************************************************************)

(* A step that leaves the timer, its copy and its loop alone. *)
TimerStill ==
  /\ ptr'[<<Timer, "session">>] = ptr[<<Timer, "session">>]
  /\ ptr'[<<Timer, "old">>] = ptr[<<Timer, "old">>]
  /\ drop'[Timer] = drop[Timer] /\ todo' = todo
  /\ mutex' = Timer <=> mutex = Timer

LEMMA TimerStillFits ==
  ASSUME TimerFits, TimerStill
  PROVE  TimerFits' /\ Condemned' = Condemned
<1>1. Condemned' = Condemned
  BY DEF Condemned, TimerStill
<1>2. Releasing(Timer)' = Releasing(Timer) /\ Holds(Timer, "session")' = Holds(Timer, "session")
  BY DEF Releasing, Holds, TimerStill
<1> QED BY <1>1, <1>2 DEF TimerFits, TimerStill

(* Objects of a worker are not those of the timer. *)
LEMMA OtherObjects ==
  ASSUME NEW t \in Workers, NEW name
  PROVE  <<t, name>> # <<Timer, "session">> /\ <<t, name>> # <<Timer, "old">>
BY ConstantsAssumption

LEMMA WorkerDrops ==
  ASSUME IInv, NEW t \in Workers,
         \/ \E name \in {"session", "copy", "old"} : LoadCount(t, name)
         \/ StoreCount(t) \/ Unlock(t) \/ DeleteData(t)
  PROVE  TimerStill
<1>1. drop'[Timer] = drop[Timer]
  <2>1. t # Timer /\ drop \in [Threads -> DropRecord]
    BY ConstantsAssumption DEF IInv, TypeOK, DropRecord
  <2>2. PICK r : drop' = [drop EXCEPT ![t] = r]
    BY DEF LoadCount, StoreCount, Unlock, DeleteData
  <2> QED BY <2>1, <2>2
<1>2. ASSUME StoreCount(t)
      PROVE  /\ ptr'[<<Timer, "session">>] = ptr[<<Timer, "session">>]
             /\ ptr'[<<Timer, "old">>] = ptr[<<Timer, "old">>]
  <2>1. PICK o : o = <<t, drop[t].object>>
    OBVIOUS
  <2>2. ptr' = [ptr EXCEPT ![o] = None] /\ ptr \in [Objects -> Data \cup {None}]
    BY <1>2, <2>1 DEF StoreCount, IInv, TypeOK
  <2>3. <<Timer, "session">> # o /\ <<Timer, "old">> # o
    BY <2>1, OtherObjects
  <2>4. <<Timer, "session">> \in Objects /\ <<Timer, "old">> \in Objects
    BY DEF Objects, Threads
  <2> QED BY <2>2, <2>3, <2>4
<1>3. ~ StoreCount(t) => ptr' = ptr
  BY DEF LoadCount, Unlock, DeleteData
<1>4. todo' = todo /\ mutex' = mutex
  BY DEF LoadCount, StoreCount, Unlock, DeleteData
<1> QED BY <1>1, <1>2, <1>3, <1>4 DEF TimerStill

LEMMA WorkerCalls ==
  ASSUME IInv, NEW t \in Workers,
         \/ FoundSession(t) \/ NoSession(t) \/ \E d \in Data : CreateSession(t, d)
         \/ Touch(t) \/ EraseRemoved(t) \/ Erased(t) \/ RemoveReturns(t)
         \/ \E cookie \in Data \cup {None} : StartRequest(t, cookie)
         \/ EndRequest(t)
         \/ \E allowCreate \in BOOLEAN : GetSession(t, allowCreate)
         \/ \E d \in Data : GetSessionById(t, d)
         \/ RemoveSession(t) \/ Copy(t) \/ Assign(t) \/ ChangeValues(t)
  PROVE  TimerStill
<1>1. /\ ptr \in [Objects -> Data \cup {None}] /\ t # Timer /\ None # Timer
      /\ <<Timer, "session">> \in Objects /\ <<Timer, "old">> \in Objects
  BY ConstantsAssumption DEF IInv, TypeOK, Objects, Threads
<1>2. ASSUME NEW name, NEW d, ptr' = [ptr EXCEPT ![<<t, name>>] = d]
      PROVE  /\ ptr'[<<Timer, "session">>] = ptr[<<Timer, "session">>]
             /\ ptr'[<<Timer, "old">>] = ptr[<<Timer, "old">>]
  <2>1. PICK o : o = <<t, name>>
    OBVIOUS
  <2>2. o # <<Timer, "session">> /\ o # <<Timer, "old">>
    BY <2>1, OtherObjects
  <2> QED BY <1>1, <1>2, <2>1, <2>2
<1>3. ASSUME Assign(t)
      PROVE  /\ ptr'[<<Timer, "session">>] = ptr[<<Timer, "session">>]
             /\ ptr'[<<Timer, "old">>] = ptr[<<Timer, "old">>]
  <2>1. PICK o : o = <<t, "session">>
    OBVIOUS
  <2>2. PICK p : p = <<t, "old">>
    OBVIOUS
  <2>3. PICK d : d = ptr[<<t, "copy">>]
    OBVIOUS
  <2>4. ptr' = [ptr EXCEPT ![o] = d, ![p] = ptr[o]]
    BY <1>3, <2>1, <2>2, <2>3 DEF Assign
  <2>5. /\ o # <<Timer, "session">> /\ o # <<Timer, "old">>
        /\ p # <<Timer, "session">> /\ p # <<Timer, "old">>
    BY <2>1, <2>2, OtherObjects
  <2> QED BY <1>1, <2>4, <2>5
<1>4. \/ ptr' = ptr \/ Assign(t)
      \/ \E name \in {"session", "copy", "old"}, d \in Data \cup {None} :
           ptr' = [ptr EXCEPT ![<<t, name>>] = d]
  <2>1. \A name \in {"session", "copy", "old"} : ptr[<<t, name>>] \in Data \cup {None}
    BY DEF IInv, TypeOK, Objects, Threads
  <2>2. ASSUME FoundSession(t)
        PROVE  \E name \in {"session", "copy", "old"}, d \in Data \cup {None} :
                 ptr' = [ptr EXCEPT ![<<t, name>>] = d]
    BY <2>2 DEF FoundSession, Attach, sessions
  <2>3. ASSUME RemoveSession(t) \/ Copy(t)
        PROVE  \E name \in {"session", "copy", "old"}, d \in Data \cup {None} :
                 ptr' = [ptr EXCEPT ![<<t, name>>] = d]
    BY <2>1, <2>3 DEF RemoveSession, Copy, Attach
  <2>4. ASSUME EraseRemoved(t)
        PROVE  \/ ptr' = ptr
               \/ \E name \in {"session", "copy", "old"}, d \in Data \cup {None} :
                    ptr' = [ptr EXCEPT ![<<t, name>>] = d]
    BY <2>1, <2>4 DEF EraseRemoved
  <2>5. ASSUME NEW e \in Data, CreateSession(t, e) \/ GetSessionById(t, e)
        PROVE  \E name \in {"session", "copy", "old"}, d \in Data \cup {None} :
                 ptr' = [ptr EXCEPT ![<<t, name>>] = d]
    BY <2>5 DEF CreateSession, GetSessionById, Attach
  <2>6. ASSUME \/ NoSession(t) \/ Touch(t) \/ Erased(t) \/ RemoveReturns(t)
               \/ \E cookie \in Data \cup {None} : StartRequest(t, cookie)
               \/ EndRequest(t)
               \/ \E allowCreate \in BOOLEAN : GetSession(t, allowCreate)
               \/ ChangeValues(t)
        PROVE  ptr' = ptr
    BY <2>6 DEF NoSession, Touch, Erased, RemoveReturns, StartRequest, EndRequest, GetSession,
         ChangeValues
  <2> QED BY <2>2, <2>3, <2>4, <2>5, <2>6
<1>5. /\ ptr'[<<Timer, "session">>] = ptr[<<Timer, "session">>]
      /\ ptr'[<<Timer, "old">>] = ptr[<<Timer, "old">>]
  BY <1>2, <1>3, <1>4
<1>6. drop' = drop /\ todo' = todo
  BY DEF FoundSession, NoSession, CreateSession, Touch, EraseRemoved, Erased, RemoveReturns,
     StartRequest, EndRequest, GetSession, GetSessionById, RemoveSession, Copy, Assign,
     ChangeValues
<1>7. mutex' = Timer <=> mutex = Timer
  BY <1>1 DEF FoundSession, NoSession, CreateSession, Touch, EraseRemoved, Erased, RemoveReturns,
     StartRequest, EndRequest, GetSession, GetSessionById, RemoveSession, Copy, Assign,
     ChangeValues
<1> QED BY <1>5, <1>6, <1>7 DEF TimerStill

(* The steps of handler threads. *)
LEMMA WorkersStill ==
  ASSUME IInv, NEW t \in Workers, Continue(t) \/ Application(t)
  PROVE  TimerStill
<1>1. t # Timer
  BY ConstantsAssumption
<1> QED BY <1>1, WorkerDrops, WorkerCalls DEF Continue, Application

(* The calls of the timer's thread. *)
TimerDropping ==
  \/ LoadCount(Timer, "old")
  \/ Condemned = {} /\ LoadCount(Timer, "session")
  \/ StoreCount(Timer) \/ Unlock(Timer) \/ DeleteData(Timer)

LEMMA TimerContinues ==
  ASSUME Continue(Timer)
  PROVE  TimerDropping \/ \E d \in Data : TimerErase(d)
BY DEF Continue, TimerDropping

(* Between the look and the erasure the timer does nothing else. *)
LEMMA TimerDrops ==
  ASSUME IInv, TimerFits, TimerDropping
  PROVE  TimerFits' /\ Condemned' = {} /\ Condemned = {}
<1>1. Condemned = {}
  BY DEF TimerDropping, TimerFits, LoadCount, StoreCount, Unlock, DeleteData, Releasing
<1>2. UNCHANGED <<todo, mutex>>
  BY DEF TimerDropping, LoadCount, StoreCount, Unlock, DeleteData
<1>3. ptr'[<<Timer, "session">>] \in {None, ptr[<<Timer, "session">>]}
  <2>1. PICK o : o = <<Timer, drop[Timer].object>>
    OBVIOUS
  <2>2. ptr \in [Objects -> Data \cup {None}] /\ <<Timer, "session">> \in Objects
    BY DEF IInv, TypeOK, Objects, Threads
  <2>3. StoreCount(Timer) => ptr' = [ptr EXCEPT ![o] = None]
    BY <2>1 DEF StoreCount
  <2>4. ~ StoreCount(Timer) => ptr' = ptr
    BY DEF TimerDropping, LoadCount, Unlock, DeleteData
  <2> QED BY <2>2, <2>3, <2>4
<1>4. None \notin todo
  BY ConstantsAssumption DEF IInv, TypeOK
<1>5. Condemned' = {}
  BY <1>1, <1>2, <1>3, <1>4 DEF Condemned
<1> QED BY <1>1, <1>2, <1>3, <1>5 DEF TimerFits, Holds

LEMMA TimerErases ==
  ASSUME IInv, TimerFits, NEW d \in Data, TimerErase(d)
  PROVE  TimerFits' /\ Condemned' = {} /\ Condemned = {d}
<1>1. /\ ptr' = [ptr EXCEPT ![<<Timer, "old">>] = d] /\ ptr \in [Objects -> Data \cup {None}]
      /\ todo' = todo \ {d} /\ mutex' = mutex /\ mutex = Timer
  BY DEF TimerErase, IInv, TypeOK
<1>2. <<Timer, "session">> # <<Timer, "old">> /\ <<Timer, "session">> \in Objects
  BY DEF Objects, Threads
<1>3. ptr'[<<Timer, "session">>] = ptr[<<Timer, "session">>]
  BY <1>1, <1>2
<1>4. d \in todo /\ ptr[<<Timer, "session">>] = d
  BY DEF TimerErase, Condemned
<1>5. Condemned' = {} /\ Condemned = {d}
  BY <1>1, <1>3, <1>4 DEF Condemned
<1> QED BY <1>1, <1>5 DEF TimerFits

LEMMA TimerVisits ==
  ASSUME IInv, TimerFits, NEW d \in Data, TimerVisit(d)
  PROVE  /\ TimerFits' /\ Condemned = {}
         /\ Condemned' = IF HasExpired(d) THEN {d} ELSE {}
<1>1. PICK o : o = <<Timer, "session">>
  OBVIOUS
<1>2. PICK p : p = <<Timer, "old">>
  OBVIOUS
<1>3. o \in Objects /\ p \in Objects /\ o # p
  BY <1>1, <1>2 DEF Objects, Threads
<1>4. /\ ptr \in [Objects -> Data \cup {None}] /\ todo \subseteq Data
      /\ ptr' = [ptr EXCEPT ![o] = d] /\ ptr[o] = None /\ d \in todo
      /\ todo' = IF HasExpired(d) THEN todo ELSE todo \ {d}
      /\ drop' = drop /\ mutex' = mutex /\ mutex = Timer /\ ~ Releasing(Timer)
  BY <1>1 DEF TimerVisit, Attach, Holds, IInv, TypeOK
<1>5. ptr'[o] = d /\ ptr'[p] = ptr[p]
  BY <1>3, <1>4
<1>6. Condemned = {}
  BY <1>1, <1>4, ConstantsAssumption DEF Condemned
<1>7. Condemned' = IF HasExpired(d) THEN {d} ELSE {}
  BY <1>1, <1>4, <1>5 DEF Condemned
<1>8. ~ Releasing(Timer)'
  BY <1>2, <1>4, <1>5 DEF Releasing, Holds
<1> QED BY <1>4, <1>6, <1>7, <1>8 DEF TimerFits

LEMMA TimerStepsStill ==
  ASSUME IInv, TimerFits, TimerEvent \/ TimerReturns \/ Tick \/ UNCHANGED vars
  PROVE  TimerFits' /\ Condemned' = Condemned
<1>1. ASSUME TimerEvent PROVE TimerFits' /\ Condemned' = Condemned
  <2>1. ptr[<<Timer, "session">>] = None /\ ptr' = ptr
    BY <1>1, ConstantsAssumption DEF TimerEvent, TimerFits, Holds
  <2>2. None \notin todo /\ None \notin todo'
    BY <1>1, ConstantsAssumption DEF TimerEvent, sessions, IInv, TypeOK
  <2>3. Condemned = {} /\ Condemned' = {}
    BY <2>1, <2>2 DEF Condemned
  <2> QED BY <2>1, <2>3 DEF TimerFits, Holds
<1>2. ASSUME TimerReturns PROVE TimerFits' /\ Condemned' = Condemned
  <2>1. Condemned' = Condemned /\ ~ Releasing(Timer)' /\ ~ Holds(Timer, "session")'
    BY <1>2 DEF TimerReturns, Condemned, Releasing, Holds
  <2> QED BY <2>1 DEF TimerFits
<1>3. ASSUME Tick \/ UNCHANGED vars PROVE TimerStill
  BY <1>3 DEF Tick, TimerStill, vars
<1> QED BY <1>1, <1>2, <1>3, TimerStillFits

LEMMA TimerFitsStep == IInv /\ TimerFits /\ [Next]_vars => TimerFits'
<1> SUFFICES ASSUME IInv, TimerFits, [Next]_vars PROVE TimerFits'
  OBVIOUS
<1>1. ASSUME NEW t \in Workers, Continue(t) \/ Application(t) PROVE TimerFits'
  BY <1>1, WorkersStill, TimerStillFits
<1>2. ASSUME Continue(Timer) PROVE TimerFits'
  <2>1. ASSUME NEW d \in Data, TimerErase(d) PROVE TimerFits'
    BY <2>1, TimerErases
  <2>2. ASSUME TimerDropping PROVE TimerFits'
    BY <2>2, TimerDrops
  <2> QED BY <1>2, <2>1, <2>2, TimerContinues
<1>3. ASSUME NEW d \in Data, TimerVisit(d) PROVE TimerFits'
  BY <1>3, TimerVisits
<1>4. ASSUME TimerEvent \/ TimerReturns \/ Tick \/ UNCHANGED vars PROVE TimerFits'
  BY <1>4, TimerStepsStill
<1> QED BY <1>1, <1>2, <1>3, <1>4 DEF Next, Threads

LEMMA IInvAlways == Spec => [](IInv /\ TimerFits)
<1>1. Init => TimerFits
  BY DEF Init, TimerFits, Condemned, Holds, Objects, Threads
<1> QED BY <1>1, InitFits, StepFits, TimerFitsStep, PTL DEF Spec

(* Every variable of the store has its type. *)
THEOREM TypeCorrect == Spec => []TypeOK
<1>1. IInv => TypeOK
  BY DEF IInv
<1> QED BY <1>1, IInvAlways, PTL

(***************************************************************************)
(* A session in the map, and one that a thread has a copy of, has not been *)
(* deleted, although the reference count is decremented under a lock that  *)
(* any number of threads may hold (httpsession.cpp, the destructor).       *)
(***************************************************************************)
THEOREM CopiesAliveAlways == Spec => []CopiesAlive
<1>1. IInv => CopiesAlive
  <2> SUFFICES ASSUME IInv PROVE CopiesAlive
    OBVIOUS
  <2>1. \A d \in Data : Owners(d) # {} => life[d] = "live"
    BY DEF IInv, Counted, OwnersCounted
  <2>2. \A d \in sessions : life[d] = "live"
    BY <2>1, HasOwner DEF sessions
  <2>3. ASSUME NEW o \in Objects, ptr[o] # None PROVE life[ptr[o]] = "live"
    <3>1. ptr[o] \in Data
      BY <2>3 DEF IInv, TypeOK
    <3> QED BY <2>1, <3>1, HasOwner
  <2> QED BY <2>2, <2>3 DEF CopiesAlive
<1> QED BY <1>1, IInvAlways, PTL
-----------------------------------------------------------------------------
(***************************************************************************)
(* The refinement of SessionMap.                                           *)
(***************************************************************************)

(* The age of an id that is not used yet is zero, and a session is created *)
(* with the age that its id has.                                           *)
UnbornFits == \A d \in Data : fate[d] = "unborn" => age[d] = 0

LEMMA CreateSessionCreates ==
  ASSUME IInv, UnbornFits, NEW t \in Workers, NEW d \in Data, CreateSession(t, d),
         Condemned' = Condemned
  PROVE  Map!Create(d)
<1>1. age \in [Data -> 0 .. Expiration + 1] /\ age[d] = 0 /\ age' = age
  BY DEF IInv, TypeOK, UnbornFits, CreateSession
<1>2. age' = [age EXCEPT ![d] = 0]
  BY <1>1
<1> QED BY <1>2 DEF Map!Create, CreateSession

LEMMA TouchUses ==
  ASSUME IInv, NEW t \in Workers, Touch(t), Condemned' = Condemned
  PROVE  (\E d \in Data : Map!Use(d)) \/ UNCHANGED <<fate, age, Condemned>>
<1>1. PICK d : d = ptr[<<t, "session">>]
  OBVIOUS
<1>2. <<t, "session">> \in Objects
  BY DEF Objects, Threads
<1>3. /\ age' = [age EXCEPT ![d] = 0] /\ fate' = fate
      /\ age \in [Data -> 0 .. Expiration + 1] /\ d \in Data \cup {None}
  BY <1>1, <1>2 DEF IInv, TypeOK, Touch
<1>4. ASSUME d = None PROVE age' = age
  BY <1>3, <1>4, ConstantsAssumption
<1>5. ASSUME d \in Data PROVE Map!Use(d)
  <2>1. Owners(d) # {}
    BY <1>1, <1>2, <1>5, HasOwner
  <2>2. fate[d] # "unborn"
    BY <1>5, <2>1 DEF IInv, Counted, OwnersCounted
  <2> QED BY <1>3, <2>2 DEF Map!Use
<1> QED BY <1>3, <1>4, <1>5

LEMMA AssignUses ==
  ASSUME IInv, NEW t \in Workers, Assign(t), Condemned' = Condemned
  PROVE  (\E d \in Data : Map!Use(d)) \/ UNCHANGED <<fate, age, Condemned>>
<1>1. PICK d : d = ptr[<<t, "copy">>]
  OBVIOUS
<1>2. <<t, "copy">> \in Objects
  BY DEF Objects, Threads
<1>3. /\ age' = IF d = None THEN age ELSE [age EXCEPT ![d] = 0]
      /\ fate' = fate /\ d \in Data \cup {None}
  BY <1>1, <1>2 DEF IInv, TypeOK, Assign
<1>4. ASSUME d # None PROVE d \in Data /\ Map!Use(d)
  <2>1. d \in Data /\ Owners(d) # {}
    BY <1>1, <1>2, <1>3, <1>4, HasOwner
  <2>2. fate[d] # "unborn"
    BY <2>1 DEF IInv, Counted, OwnersCounted
  <2> QED BY <1>3, <1>4, <2>1, <2>2 DEF Map!Use
<1> QED BY <1>3, <1>4

(* The session is removed with the mutex, and so never in the timer's loop. *)
LEMMA EraseRemovedLeaves ==
  ASSUME IInv, NEW t \in Workers, EraseRemoved(t), Condemned' = Condemned
  PROVE  (\E d \in Data : Map!Remove(d)) \/ UNCHANGED <<fate, age, Condemned>>
<1>1. PICK d : d = ptr[<<t, "copy">>]
  OBVIOUS
<1>2. Condemned = {}
  BY ConstantsAssumption DEF IInv, LoopFits, Condemned, EraseRemoved
<1>3. ASSUME d \in sessions PROVE d \in Data /\ Map!Remove(d)
  BY <1>1, <1>2, <1>3 DEF EraseRemoved, Map!Remove, sessions
<1>4. ASSUME d \notin sessions PROVE UNCHANGED <<fate, age>>
  BY <1>1, <1>4 DEF EraseRemoved
<1> QED BY <1>3, <1>4

LEMMA TimerVisitCondemns ==
  ASSUME IInv, TimerFits, NEW d \in Data, TimerVisit(d)
  PROVE  Map!Condemn(d) \/ UNCHANGED <<fate, age, Condemned>>
<1>1. fate[d] = "stored" /\ UNCHANGED <<fate, age>>
  BY DEF IInv, LoopFits, TimerVisit, sessions
<1>2. Condemned = {} /\ Condemned' = IF HasExpired(d) THEN {d} ELSE {}
  BY TimerVisits
<1>3. HasExpired(d) => Map!Condemn(d)
  BY <1>1, <1>2 DEF HasExpired, Map!Condemn
<1> QED BY <1>1, <1>2, <1>3

LEMMA TimerEraseExpires ==
  ASSUME IInv, TimerFits, NEW d \in Data, TimerErase(d)
  PROVE  Map!Expire(d)
<1>1. fate[d] = "stored"
  BY DEF IInv, LoopFits, TimerErase, Condemned, sessions
<1>2. Condemned = {d} /\ Condemned' = {}
  BY TimerErases
<1>3. fate' = [fate EXCEPT ![d] = "expired"] /\ age' = age
  BY DEF TimerErase
<1> QED BY <1>1, <1>2, <1>3 DEF Map!Expire

LEMMA StepImplements ==
  IInv /\ TimerFits /\ UnbornFits /\ [Next]_vars => [Map!Next]_<<fate, age, Condemned>>
<1> SUFFICES ASSUME IInv, TimerFits, UnbornFits, [Next]_vars
             PROVE  Map!Next \/ UNCHANGED <<fate, age, Condemned>>
  OBVIOUS
<1>1. ASSUME NEW t \in Workers, Continue(t) \/ Application(t) PROVE Condemned' = Condemned
  BY <1>1, WorkersStill, TimerStillFits
<1>2. ASSUME NEW t \in Threads, NEW name \in {"session", "copy", "old"}, LoadCount(t, name)
      PROVE  UNCHANGED <<fate, age>>
  BY <1>2 DEF LoadCount
<1>3. ASSUME NEW t \in Workers, Continue(t) PROVE Map!Next \/ UNCHANGED <<fate, age, Condemned>>
  <2>1. Condemned' = Condemned
    BY <1>1, <1>3
  <2>2. ASSUME \/ StoreCount(t) \/ Unlock(t) \/ DeleteData(t) \/ FoundSession(t)
               \/ NoSession(t) \/ Erased(t) \/ RemoveReturns(t)
        PROVE  UNCHANGED <<fate, age>>
    BY <2>2 DEF StoreCount, Unlock, DeleteData, FoundSession, NoSession, Erased, RemoveReturns
  <2>3. ASSUME \E d \in Data : CreateSession(t, d) PROVE Map!Next
    BY <2>1, <2>3, CreateSessionCreates DEF Map!Next
  <2>4. ASSUME Touch(t) \/ EraseRemoved(t)
        PROVE  Map!Next \/ UNCHANGED <<fate, age, Condemned>>
    BY <2>1, <2>4, TouchUses, EraseRemovedLeaves DEF Map!Next
  <2>5. t # Timer /\ t \in Threads
    BY ConstantsAssumption DEF Threads
  <2> QED BY <1>2, <1>3, <2>1, <2>2, <2>3, <2>4, <2>5 DEF Continue
<1>4. ASSUME Continue(Timer) PROVE Map!Next \/ UNCHANGED <<fate, age, Condemned>>
  <2>1. ASSUME NEW d \in Data, TimerErase(d) PROVE Map!Next
    BY <2>1, TimerEraseExpires DEF Map!Next
  <2>2. ASSUME TimerDropping PROVE UNCHANGED <<fate, age, Condemned>>
    <3>1. Condemned' = Condemned
      BY <2>2, TimerDrops
    <3>2. UNCHANGED <<fate, age>>
      BY <2>2 DEF TimerDropping, LoadCount, StoreCount, Unlock, DeleteData
    <3> QED BY <3>1, <3>2
  <2> QED BY <1>4, <2>1, <2>2, TimerContinues
<1>5. ASSUME NEW t \in Workers, Application(t)
      PROVE  Map!Next \/ UNCHANGED <<fate, age, Condemned>>
  <2>1. Condemned' = Condemned
    BY <1>1, <1>5
  <2>2. ASSUME Assign(t) PROVE Map!Next \/ UNCHANGED <<fate, age, Condemned>>
    BY <2>1, <2>2, AssignUses DEF Map!Next
  <2>3. ASSUME \/ \E cookie \in Data \cup {None} : StartRequest(t, cookie)
               \/ EndRequest(t)
               \/ \E allowCreate \in BOOLEAN : GetSession(t, allowCreate)
               \/ \E d \in Data : GetSessionById(t, d)
               \/ RemoveSession(t) \/ Copy(t) \/ ChangeValues(t)
        PROVE  UNCHANGED <<fate, age>>
    BY <2>3 DEF StartRequest, EndRequest, GetSession, GetSessionById, RemoveSession, Copy,
         ChangeValues
  <2>4. t \in Threads
    BY DEF Threads
  <2> QED BY <1>2, <1>5, <2>1, <2>2, <2>3, <2>4 DEF Application
<1>6. ASSUME NEW d \in Data, TimerVisit(d) PROVE Map!Next \/ UNCHANGED <<fate, age, Condemned>>
  BY <1>6, TimerVisitCondemns DEF Map!Next
<1>7. ASSUME Tick PROVE Map!Next
  <2>1. Condemned = {}
    BY <1>7 DEF IInv, LoopFits, Condemned, Tick
  <2>2. Condemned' = Condemned
    BY <1>7, TimerStepsStill
  <2> QED BY <1>7, <2>1, <2>2 DEF Tick, Map!Tick, Map!Next
<1>8. ASSUME TimerEvent \/ TimerReturns \/ UNCHANGED vars
      PROVE  UNCHANGED <<fate, age, Condemned>>
  <2>1. Condemned' = Condemned
    BY <1>8, TimerStepsStill
  <2>2. UNCHANGED <<fate, age>>
    BY <1>8 DEF TimerEvent, TimerReturns, vars
  <2> QED BY <2>1, <2>2
<1> QED BY <1>3, <1>4, <1>5, <1>6, <1>7, <1>8 DEF Next, Threads

LEMMA UnbornStays ==
  IInv /\ UnbornFits /\ [Map!Next]_<<fate, age, Condemned>> => UnbornFits'
<1> SUFFICES ASSUME IInv, UnbornFits, [Map!Next]_<<fate, age, Condemned>>,
                    NEW d \in Data, fate'[d] = "unborn"
             PROVE  age'[d] = 0
  BY DEF UnbornFits
<1>1. /\ fate \in [Data -> {"unborn", "stored", "expired", "removed"}]
      /\ age \in [Data -> 0 .. Expiration + 1]
  BY DEF IInv, TypeOK
<1>2. ASSUME NEW e \in Data, Map!Create(e) PROVE age'[d] = 0
  BY <1>1, <1>2 DEF Map!Create, UnbornFits
<1>3. ASSUME NEW e \in Data, Map!Use(e) PROVE age'[d] = 0
  BY <1>1, <1>3 DEF Map!Use, UnbornFits
<1>4. ASSUME NEW e \in Data, Map!Remove(e) \/ Map!Condemn(e) \/ Map!Expire(e) PROVE age'[d] = 0
  BY <1>1, <1>4 DEF Map!Remove, Map!Condemn, Map!Expire, UnbornFits
<1>5. ASSUME Map!Tick PROVE age'[d] = 0
  BY <1>1, <1>5 DEF Map!Tick, UnbornFits
<1>6. ASSUME UNCHANGED <<fate, age, Condemned>> PROVE age'[d] = 0
  BY <1>6 DEF UnbornFits
<1> QED BY <1>2, <1>3, <1>4, <1>5, <1>6 DEF Map!Next

(***************************************************************************)
(* The store is a map of sessions: in every interleaving of look-ups,      *)
(* removals and the timer, an id is used once, and a session leaves only   *)
(* when it is removed or its last access was longer ago than the limit     *)
(* when the timer looked at it.                                            *)
(***************************************************************************)
THEOREM StoreIsSessionMap == Spec => ImplementsSessionMap
<1>1. Init => UnbornFits /\ Map!Init
  BY DEF Init, UnbornFits, Map!Init, Condemned
<1>2. IInv /\ TimerFits /\ UnbornFits /\ [Next]_vars =>
        UnbornFits' /\ [Map!Next]_<<fate, age, Condemned>>
  BY StepImplements, UnbornStays
<1> QED BY <1>1, <1>2, IInvAlways, PTL DEF Spec, ImplementsSessionMap, Map!Spec
-----------------------------------------------------------------------------
(***************************************************************************)
(* One session for a client.                                               *)
(***************************************************************************)

(* The id that a request names: that of the response has priority. *)
Named(t) == IF thread[t].reply # None THEN thread[t].reply ELSE thread[t].cookie

(* Between getSessionId and the second critical section the id that was    *)
(* found may leave the map, but an id that was not found does not enter it.*)
ClientFits(t) ==
  /\ thread[t].cookie # None => fate[thread[t].cookie] # "unborn"
  /\ thread[t].reply # None => fate[thread[t].reply] # "unborn"
  /\ thread[t].at = "lookup" =>
       \/ thread[t].id = Named(t)
       \/ Named(t) \notin sessions

(* An id that was used stays used, and does not come back into the map. *)
Ages ==
  \A d \in Data : fate[d] # "unborn" =>
    /\ fate'[d] # "unborn"
    /\ fate'[d] = "stored" => fate[d] = "stored"

LEMMA StepAges == [Map!Next]_<<fate, age, Condemned>> /\ IInv => Ages
<1> SUFFICES ASSUME [Map!Next]_<<fate, age, Condemned>>, IInv, NEW d \in Data, fate[d] # "unborn"
             PROVE  fate'[d] # "unborn" /\ (fate'[d] = "stored" => fate[d] = "stored")
  BY DEF Ages
<1>1. fate \in [Data -> {"unborn", "stored", "expired", "removed"}]
  BY DEF IInv, TypeOK
<1>2. \A e \in Data : Map!Create(e) => fate'[d] = fate[d]
  BY <1>1 DEF Map!Create
<1>3. \A e \in Data : Map!Use(e) \/ Map!Condemn(e) => fate'[d] = fate[d]
  BY DEF Map!Use, Map!Condemn
<1>4. \A e \in Data : Map!Expire(e) => fate'[d] \in {fate[d], "expired"}
  BY <1>1 DEF Map!Expire
<1>5. \A e \in Data : Map!Remove(e) => fate'[d] \in {fate[d], "removed"}
  BY <1>1 DEF Map!Remove
<1>6. Map!Tick \/ UNCHANGED <<fate, age, Condemned>> => fate'[d] = fate[d]
  BY DEF Map!Tick
<1> QED BY <1>2, <1>3, <1>4, <1>5, <1>6 DEF Map!Next

(* A thread that does not move keeps what it knows. *)
LEMMA ClientStays ==
  ASSUME IInv, Ages, NEW t \in Workers, ClientFits(t), thread'[t] = thread[t]
  PROVE  ClientFits(t)'
<1>1. PICK r \in ThreadRecord : r = thread[t] /\ r = thread'[t]
  BY DEF IInv, TypeOK, ThreadRecord
<1>2. PICK n : n = IF r.reply # None THEN r.reply ELSE r.cookie
  OBVIOUS
<1>3. Named(t) = n /\ Named(t)' = n
  BY <1>1, <1>2 DEF Named
<1>4. /\ r.cookie \in Data \cup {None} /\ r.reply \in Data \cup {None}
      /\ r.cookie # None => fate[r.cookie] # "unborn"
      /\ r.reply # None => fate[r.reply] # "unborn"
      /\ r.at = "lookup" => r.id = n \/ n \notin sessions
  BY <1>1, <1>3 DEF ClientFits, ThreadRecord
<1>5. /\ r.cookie # None => fate'[r.cookie] # "unborn"
      /\ r.reply # None => fate'[r.reply] # "unborn"
  BY <1>4 DEF Ages
<1>6. n \notin sessions => n \notin sessions'
  BY <1>2, <1>4, ConstantsAssumption DEF Ages, sessions
<1> QED BY <1>1, <1>3, <1>4, <1>5, <1>6 DEF ClientFits

(* A thread that leaves the look-up, or was not in it. *)
LEMMA ClientMoves ==
  ASSUME IInv, Ages, NEW t \in Workers, ClientFits(t),
         thread'[t].at # "lookup",
         thread'[t].cookie \in {None, thread[t].cookie},
         thread'[t].reply \in {None, thread[t].reply} \cup sessions'
  PROVE  ClientFits(t)'
<1>1. PICK r \in ThreadRecord : r = thread[t]
  BY DEF IInv, TypeOK, ThreadRecord
<1>2. PICK c : c = thread'[t].cookie
  OBVIOUS
<1>3. PICK p : p = thread'[t].reply
  OBVIOUS
<1>4. c # None => fate'[c] # "unborn"
  BY <1>1, <1>2 DEF ClientFits, ThreadRecord, Ages
<1>5. p # None => fate'[p] # "unborn"
  BY <1>1, <1>3 DEF ClientFits, ThreadRecord, Ages, sessions
<1> QED BY <1>2, <1>3, <1>4, <1>5 DEF ClientFits

LEMMA ClientSteps ==
  ASSUME IInv, Ages, NEW t \in Workers, ClientFits(t),
         \/ \E cookie \in Data \cup {None} : StartRequest(t, cookie)
         \/ EndRequest(t)
         \/ \E allowCreate \in BOOLEAN : GetSession(t, allowCreate)
         \/ FoundSession(t) \/ NoSession(t) \/ \E d \in Data : CreateSession(t, d)
         \/ \E d \in Data : GetSessionById(t, d)
         \/ Touch(t) \/ RemoveSession(t) \/ EraseRemoved(t) \/ Erased(t) \/ RemoveReturns(t)
  PROVE  /\ ClientFits(t)'
         /\ \A u \in Workers \ {t} : thread'[u] = thread[u]
<1>1. thread \in [Workers -> ThreadRecord]
  BY DEF IInv, TypeOK, ThreadRecord
<1>2. PICK r \in ThreadRecord : r = thread[t]
  BY <1>1
<1>3. ASSUME NEW cookie \in Data \cup {None}, StartRequest(t, cookie)
      PROVE  ClientFits(t)' /\ \A u \in Workers \ {t} : thread'[u] = thread[u]
  <2>1. thread' = [thread EXCEPT ![t] = [r EXCEPT !.at = "service", !.cookie = cookie]]
    BY <1>1, <1>2, <1>3 DEF StartRequest
  <2>2. /\ thread'[t] = [r EXCEPT !.at = "service", !.cookie = cookie]
        /\ \A u \in Workers \ {t} : thread'[u] = thread[u]
    BY <1>1, <2>1
  <2>3. thread'[t].at = "service" /\ thread'[t].cookie = cookie /\ thread'[t].reply = r.reply
    BY <2>2 DEF ThreadRecord
  <2>4. cookie # None => fate'[cookie] # "unborn"
    BY <1>3 DEF StartRequest
  <2>5. r.reply # None => fate'[r.reply] # "unborn"
    BY <1>2, <1>3 DEF StartRequest, ClientFits
  <2> QED BY <2>2, <2>3, <2>4, <2>5 DEF ClientFits
<1>4. ASSUME NEW allowCreate \in BOOLEAN, GetSession(t, allowCreate)
      PROVE  ClientFits(t)' /\ \A u \in Workers \ {t} : thread'[u] = thread[u]
  <2>1. PICK i : i = SessionId(t)
    OBVIOUS
  <2>2. thread' = [thread EXCEPT ![t] = [r EXCEPT !.at = "lookup", !.id = i,
                                                 !.create = allowCreate]]
    BY <1>1, <1>2, <1>4, <2>1 DEF GetSession
  <2>3. /\ thread'[t] = [r EXCEPT !.at = "lookup", !.id = i, !.create = allowCreate]
        /\ \A u \in Workers \ {t} : thread'[u] = thread[u]
    BY <1>1, <2>2
  <2>4. /\ thread'[t].at = "lookup" /\ thread'[t].cookie = r.cookie
        /\ thread'[t].reply = r.reply /\ thread'[t].id = i
    BY <2>3 DEF ThreadRecord
  <2>5. PICK n : n = Named(t)
    OBVIOUS
  <2>6. Named(t)' = n
    BY <1>2, <2>4, <2>5 DEF Named
  <2>7. i = n \/ n \notin sessions
    BY <2>1, <2>5 DEF SessionId, Named
  <2>8. fate' = fate /\ sessions' = sessions
    BY <1>4 DEF GetSession, sessions
  <2>9. /\ r.cookie # None => fate[r.cookie] # "unborn"
        /\ r.reply # None => fate[r.reply] # "unborn"
    BY <1>2 DEF ClientFits
  <2> QED BY <2>3, <2>4, <2>6, <2>7, <2>8, <2>9 DEF ClientFits
<1>5. ASSUME EndRequest(t)
      PROVE  ClientFits(t)' /\ \A u \in Workers \ {t} : thread'[u] = thread[u]
  <2>1. thread'[t] = IdleThread /\ \A u \in Workers \ {t} : thread'[u] = thread[u]
    BY <1>1, <1>5 DEF EndRequest
  <2> QED BY <2>1, ClientMoves DEF IdleThread
<1>6. ASSUME FoundSession(t)
      PROVE  ClientFits(t)' /\ \A u \in Workers \ {t} : thread'[u] = thread[u]
  <2>1. thread' = [thread EXCEPT ![t] = [r EXCEPT !.at = "touch", !.reply = r.id, !.id = None,
                                                 !.create = FALSE]]
    BY <1>1, <1>2, <1>6 DEF FoundSession
  <2>2. /\ thread'[t] = [r EXCEPT !.at = "touch", !.reply = r.id, !.id = None, !.create = FALSE]
        /\ \A u \in Workers \ {t} : thread'[u] = thread[u]
    BY <1>1, <2>1
  <2>3. thread'[t].at = "touch" /\ thread'[t].cookie = r.cookie /\ thread'[t].reply = r.id
    BY <2>2 DEF ThreadRecord
  <2>4. r.id \in sessions'
    BY <1>2, <1>6 DEF FoundSession, sessions
  <2> QED BY <1>2, <2>2, <2>3, <2>4, ClientMoves
<1>7. ASSUME NEW d \in Data, CreateSession(t, d)
      PROVE  ClientFits(t)' /\ \A u \in Workers \ {t} : thread'[u] = thread[u]
  <2>1. thread' = [thread EXCEPT ![t] = [r EXCEPT !.at = "service", !.reply = d, !.id = None,
                                                 !.create = FALSE]]
    BY <1>1, <1>2, <1>7 DEF CreateSession
  <2>2. /\ thread'[t] = [r EXCEPT !.at = "service", !.reply = d, !.id = None, !.create = FALSE]
        /\ \A u \in Workers \ {t} : thread'[u] = thread[u]
    BY <1>1, <2>1
  <2>3. thread'[t].at = "service" /\ thread'[t].cookie = r.cookie /\ thread'[t].reply = d
    BY <2>2 DEF ThreadRecord
  <2>4. d \in sessions'
    BY <1>7 DEF CreateSession, sessions, IInv, TypeOK
  <2> QED BY <1>2, <2>2, <2>3, <2>4, ClientMoves
<1>8. ASSUME NEW at \in {"service", "touch", "remove", "erase", "argument"},
             thread' = [thread EXCEPT ![t] = [r EXCEPT !.at = at]]
      PROVE  ClientFits(t)' /\ \A u \in Workers \ {t} : thread'[u] = thread[u]
  <2>1. thread'[t] = [r EXCEPT !.at = at] /\ \A u \in Workers \ {t} : thread'[u] = thread[u]
    BY <1>1, <1>8
  <2>2. thread'[t].at = at /\ thread'[t].cookie = r.cookie /\ thread'[t].reply = r.reply
    BY <2>1 DEF ThreadRecord
  <2> QED BY <1>2, <2>1, <2>2, ClientMoves
<1>9. ASSUME NoSession(t)
      PROVE  ClientFits(t)' /\ \A u \in Workers \ {t} : thread'[u] = thread[u]
  <2>1. thread' = [thread EXCEPT ![t] = [r EXCEPT !.at = "service", !.id = None]]
    BY <1>1, <1>2, <1>9 DEF NoSession
  <2>2. /\ thread'[t] = [r EXCEPT !.at = "service", !.id = None]
        /\ \A u \in Workers \ {t} : thread'[u] = thread[u]
    BY <1>1, <2>1
  <2>3. thread'[t].at = "service" /\ thread'[t].cookie = r.cookie /\ thread'[t].reply = r.reply
    BY <2>2 DEF ThreadRecord
  <2> QED BY <1>2, <2>2, <2>3, ClientMoves
<1>10. \A d \in Data : GetSessionById(t, d) =>
         thread' = [thread EXCEPT ![t] = [r EXCEPT !.at = "touch"]]
  BY <1>1, <1>2 DEF GetSessionById
<1>11. /\ Touch(t) \/ RemoveReturns(t) => thread' = [thread EXCEPT ![t] = [r EXCEPT !.at = "service"]]
       /\ RemoveSession(t) => thread' = [thread EXCEPT ![t] = [r EXCEPT !.at = "remove"]]
       /\ EraseRemoved(t) => thread' = [thread EXCEPT ![t] = [r EXCEPT !.at = "erase"]]
       /\ Erased(t) => thread' = [thread EXCEPT ![t] = [r EXCEPT !.at = "argument"]]
  BY <1>1, <1>2 DEF Touch, RemoveReturns, RemoveSession, EraseRemoved, Erased
<1> QED BY <1>3, <1>4, <1>5, <1>6, <1>7, <1>8, <1>9, <1>10, <1>11

ClientsFit == \A t \in Workers : ClientFits(t)

LEMMA ClientsStepFits == IInv /\ TimerFits /\ UnbornFits /\ ClientsFit /\ [Next]_vars => ClientsFit'
<1> SUFFICES ASSUME IInv, TimerFits, UnbornFits, \A t \in Workers : ClientFits(t), [Next]_vars
             PROVE  \A t \in Workers : ClientFits(t)'
  BY DEF ClientsFit
<1>1. Ages
  BY StepImplements, StepAges
<1>2. ASSUME thread' = thread PROVE \A t \in Workers : ClientFits(t)'
  BY <1>1, <1>2, ClientStays
<1>3. ASSUME NEW t \in Workers,
             \/ \E cookie \in Data \cup {None} : StartRequest(t, cookie)
             \/ EndRequest(t)
             \/ \E allowCreate \in BOOLEAN : GetSession(t, allowCreate)
             \/ FoundSession(t) \/ NoSession(t) \/ \E d \in Data : CreateSession(t, d)
             \/ \E d \in Data : GetSessionById(t, d)
             \/ Touch(t) \/ RemoveSession(t) \/ EraseRemoved(t) \/ Erased(t)
             \/ RemoveReturns(t)
      PROVE  \A u \in Workers : ClientFits(u)'
  <2>1. ClientFits(t)' /\ \A u \in Workers \ {t} : thread'[u] = thread[u]
    BY <1>1, <1>3, ClientSteps
  <2>2. \A u \in Workers \ {t} : ClientFits(u)'
    BY <1>1, <2>1, ClientStays
  <2> QED BY <2>1, <2>2
<1>4. ASSUME NEW t \in Threads, NEW name \in {"session", "copy", "old"}, LoadCount(t, name)
      PROVE  thread' = thread
  BY <1>4 DEF LoadCount
<1>5. ASSUME NEW t \in Threads, Continue(t) PROVE \A u \in Workers : ClientFits(u)'
  <2>1. ASSUME StoreCount(t) \/ Unlock(t) \/ DeleteData(t) PROVE thread' = thread
    BY <2>1 DEF StoreCount, Unlock, DeleteData
  <2>2. ASSUME t # Timer,
               \/ FoundSession(t) \/ NoSession(t) \/ \E d \in Data : CreateSession(t, d)
               \/ Touch(t) \/ EraseRemoved(t) \/ Erased(t) \/ RemoveReturns(t)
        PROVE  \A u \in Workers : ClientFits(u)'
    BY <1>3, <2>2 DEF Threads
  <2>3. ASSUME NEW name \in {"session", "copy", "old"}, LoadCount(t, name)
        PROVE  thread' = thread
    BY <1>4, <2>3
  <2>4. ASSUME NEW d \in Data, TimerErase(d) PROVE thread' = thread
    BY <2>4 DEF TimerErase
  <2> QED BY <1>2, <1>5, <2>1, <2>2, <2>3, <2>4 DEF Continue
<1>6. ASSUME NEW t \in Workers, Application(t) PROVE \A u \in Workers : ClientFits(u)'
  <2>1. ASSUME Copy(t) \/ Assign(t) \/ ChangeValues(t) PROVE thread' = thread
    BY <2>1 DEF Copy, Assign, ChangeValues
  <2>2. ASSUME NEW name \in {"session", "copy"}, LoadCount(t, name) PROVE thread' = thread
    BY <1>4, <2>2 DEF Threads
  <2> QED BY <1>2, <1>3, <1>6, <2>1, <2>2 DEF Application
<1>7. ASSUME TimerEvent \/ TimerReturns \/ (\E d \in Data : TimerVisit(d)) \/ Tick \/ UNCHANGED vars
      PROVE  thread' = thread
  BY <1>7 DEF TimerEvent, TimerReturns, TimerVisit, Tick, vars
<1> QED BY <1>2, <1>5, <1>6, <1>7 DEF Next

(***************************************************************************)
(* getSession creates a session for a client only if the client's cookie   *)
(* and the response name none that is stored, although the id is looked up *)
(* in one critical section and the session created in another.             *)
(***************************************************************************)
THEOREM OneSession == Spec => OneSessionPerClient
<1>1. Init => UnbornFits /\ ClientsFit
  BY DEF Init, UnbornFits, ClientsFit, ClientFits, IdleThread
<1>2. IInv /\ TimerFits /\ UnbornFits /\ [Next]_vars => UnbornFits'
  BY StepImplements, UnbornStays
<1>3. IInv /\ TimerFits /\ UnbornFits /\ ClientsFit /\ [Next]_vars => ClientsFit'
  BY ClientsStepFits
<1>4. ClientsFit =>
        \A t \in Workers, d \in Data : CreateSession(t, d) =>
          /\ thread[t].cookie \notin sessions \/ thread[t].reply # None
          /\ thread[t].reply \notin sessions
  BY ConstantsAssumption DEF CreateSession, ClientsFit, ClientFits, Named, sessions
<1> QED BY <1>1, <1>2, <1>3, <1>4, IInvAlways, PTL DEF Spec, OneSessionPerClient
=============================================================================
