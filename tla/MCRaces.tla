------------------------------- MODULE MCRaces -------------------------------
(***************************************************************************)
(* An instance of Payments for TLC, next to one of Reservations, each with *)
(* two requests that race.  They share nothing: in one behaviour only the  *)
(* component it started with moves.  Payments does so with any two         *)
(* requests, or with one at a time for each charge.                        *)
(***************************************************************************)
EXTENDS Payments, TLC

CONSTANTS q1, q2, k1, k2

VARIABLES
  component,  \* the one that moves
  settings, reservation, deleted, jobs, checks, reserving

(* One lunch, that is full when one guest has reserved, and two requests.  *)
Lunch == [start |-> 1, end |-> 3, capacity |-> 3, limit |-> 1, max_group_size |-> 2]

R == INSTANCE Reservations WITH
  Keys <- {k1, k2}, Requests <- {q1, q2}, Tables <- {}, Configurations <- {<<Lunch>>},
  Dates <- {2}, Parties <- {1, 2, 3}, MaxTasks <- 0, request <- reserving

-----------------------------------------------------------------------------
RacesInit ==
  /\ component \in {"payments", "one_at_a_time", "reservations"}
  /\ Init /\ R!Init

reservation_vars == <<settings, reservation, deleted, jobs, checks, reserving>>

RacesNext ==
  \/ /\ component = "payments" /\ Next
     /\ UNCHANGED <<component, reservation_vars>>
  \/ /\ component = "one_at_a_time" /\ Next /\ OneAtATime'
     /\ UNCHANGED <<component, reservation_vars>>
  \/ /\ component = "reservations" /\ R!Next
     /\ UNCHANGED <<component, vars>>

RacesSpec == RacesInit /\ [][RacesNext]_<<component, vars, reservation_vars>>

Symmetry == Permutations({q1, q2}) \cup Permutations({k1, k2})

-----------------------------------------------------------------------------
(* The card is charged once for a charge by requests that pay it one after *)
(* the other.                                                              *)
CapturedOnceEach == component = "one_at_a_time" => CapturedOnce

(* Reservations: what two requests can add to a full shift.                *)
OverbookingIsBounded == R!OverbookingIsBounded
=============================================================================
