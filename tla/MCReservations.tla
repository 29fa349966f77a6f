--------------------------- MODULE MCReservations ---------------------------
(* Instances of Reservations for TLC. *)
EXTENDS Reservations

ShiftAt(start, end) == [start |-> start, end |-> end, capacity |-> 3, limit |-> 2,
                        max_group_size |-> 2]

(* Lunch, and the same an hour later.                                      *)
TwoMenus == {<<ShiftAt(1, 3)>>, <<ShiftAt(2, 4)>>}

(* One lunch, that is full when one guest has reserved.                     *)
Lunch == {<<[ShiftAt(1, 3) EXCEPT !.limit = 1]>>}

Symmetry == Permutations(Keys) \cup Permutations(Requests)
=============================================================================
