----------------------------- MODULE SessionMap -----------------------------
(***************************************************************************)
(* What HttpSessionStore promises: a map of sessions in which a session    *)
(* appears once, leaves when it is removed or a clean-up has found that it *)
(* was not used for longer than Expiration, and never comes back.          *)
(***************************************************************************)
EXTENDS Naturals

CONSTANTS Data, Expiration

VARIABLES fate,      \* of each session: "unborn", "stored", "expired", "removed"
          age,       \* time since its last access, counted to Expiration + 1
          condemned  \* sessions that the clean-up has found expired and not yet erased

Init ==
  /\ fate = [d \in Data |-> "unborn"]
  /\ age = [d \in Data |-> 0]
  /\ condemned = {}

Create(d) ==
  /\ fate[d] = "unborn"
  /\ fate' = [fate EXCEPT ![d] = "stored"]
  /\ age' = [age EXCEPT ![d] = 0]
  /\ UNCHANGED condemned

Use(d) ==
  /\ fate[d] # "unborn"
  /\ age' = [age EXCEPT ![d] = 0]
  /\ UNCHANGED <<fate, condemned>>

Remove(d) ==
  /\ fate[d] = "stored" /\ condemned = {}
  /\ fate' = [fate EXCEPT ![d] = "removed"]
  /\ UNCHANGED <<age, condemned>>

(* The clean-up looks at one session at a time. *)
Condemn(d) ==
  /\ fate[d] = "stored" /\ age[d] > Expiration
  /\ condemned = {} /\ condemned' = {d}
  /\ UNCHANGED <<fate, age>>

Expire(d) ==
  /\ fate[d] = "stored" /\ condemned = {d}
  /\ fate' = [fate EXCEPT ![d] = "expired"]
  /\ condemned' = {}
  /\ UNCHANGED age

(* No time passes between the look and the erasure. *)
Tick ==
  /\ condemned = {}
  /\ age' = [d \in Data |-> IF fate[d] = "unborn" \/ age[d] > Expiration
                            THEN age[d] ELSE age[d] + 1]
  /\ UNCHANGED <<fate, condemned>>

Next ==
  \/ Tick
  \/ \E d \in Data : Create(d) \/ Use(d) \/ Remove(d) \/ Condemn(d) \/ Expire(d)

Spec == Init /\ [][Next]_<<fate, age, condemned>>
=============================================================================
