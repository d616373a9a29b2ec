-------------------------- MODULE AdmissionControl --------------------------
(***************************************************************************)
(* What HttpListener and its pool promise to clients, without threads,     *)
(* sockets or timers: at most Capacity connections are served at a time,   *)
(* and only while that many are served is another one turned away.         *)
(***************************************************************************)
EXTENDS Naturals, FiniteSets

CONSTANTS Conns, Capacity

VARIABLE phase   \* of each connection: "new", "served", "rejected", "gone"

Served == {c \in Conns : phase[c] = "served"}

Init == phase = [c \in Conns |-> "new"]

Accept(c) ==
  /\ phase[c] = "new"
  /\ Cardinality(Served) < Capacity
  /\ phase' = [phase EXCEPT ![c] = "served"]

TurnAway(c) ==
  /\ phase[c] = "new"
  /\ Cardinality(Served) >= Capacity
  /\ phase' = [phase EXCEPT ![c] = "rejected"]

Finish(c) ==
  /\ phase[c] = "served"
  /\ phase' = [phase EXCEPT ![c] = "gone"]

Next == \E c \in Conns : Accept(c) \/ TurnAway(c) \/ Finish(c)

Spec == Init /\ [][Next]_phase
=============================================================================
