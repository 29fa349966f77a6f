------------------------- MODULE Reservations_proofs -------------------------
(***************************************************************************)
(* Theorems about Reservations, for any keys, requests, shifts and tables. *)
(***************************************************************************)
EXTENDS Reservations, SumTheorems, SequenceTheorems, TLAPS

-----------------------------------------------------------------------------
(* ComesAfterStart is not inductive: what a request will write, the copies  *)
(* of delete_table among it, must fit too, and what it is about must exist. *)

(* A guest who was not moved comes after the start of his shift.           *)
Fits(entity) == "moved" \notin entity.history => entity.shift_start <= entity.date

RequestFits(r) ==
  /\ r.op \in {"reserve", "edit"} =>
       /\ r.date \in Dates /\ r.people \in Parties /\ r.shift_start \in Starts
       /\ r.shift_start <= r.date
  /\ r.op = "move" => r.shift_start \in Starts
  /\ r.op = "delete_table" => DOMAIN r.seen = r.keys
  /\ \A k \in DOMAIN r.seen : Fits(r.seen[k])

RequestsFit ==
  \A q \in Requests : RequestFits(request[q]) /\ request[q].keys \subseteq Made

ChecksAreMade == \A task \in checks : task.key \in Made

IInv == TypeOK /\ ComesAfterStart /\ RequestsFit /\ ChecksAreMade

-----------------------------------------------------------------------------
(* The operators.                                                          *)

LEMMA EntitiesAre ==
  ASSUME NEW f
  PROVE  f \in Entities <=> /\ DOMAIN f \subseteq Keys
                            /\ f \in [DOMAIN f -> Reservation]
  BY DEF Entities

LEMMA NothingIsMade == <<>> \in Entities /\ DOMAIN <<>> = {}
<1>1. <<>> \in [{} -> Reservation] /\ DOMAIN <<>> = {}
  OBVIOUS
<1> QED
  BY <1>1 DEF Entities

LEMMA ShiftsAre ==
  ASSUME NEW shifts \in Configurations, NEW i \in DOMAIN shifts
  PROVE  /\ shifts[i] \in Shift
         /\ shifts[i].start \in Nat /\ shifts[i].start \in Starts
<1>1. shifts \in Seq(Shift)
  BY ReservationsAssumption
<1>2. shifts[i] \in Shift
  BY <1>1
<1>3. shifts[i] \in ToSet(shifts)
  BY DEF ToSet
<1> QED
  BY <1>2, <1>3 DEF Shift, Shifts, Starts

LEMMA StartsAreNumbers == Starts \subseteq Nat
<1> SUFFICES ASSUME NEW s \in Starts PROVE s \in Nat
  OBVIOUS
<1>1. PICK shifts \in Configurations : \E shift \in ToSet(shifts) : s = shift.start
  BY DEF Shifts, Starts
<1>2. PICK i \in DOMAIN shifts : s = shifts[i].start
  BY <1>1 DEF ToSet
<1> QED
  BY <1>2, ShiftsAre

LEMMA DatesAreNumbers == Dates \subseteq Nat
  BY ReservationsAssumption

(* An entity is written.                                                   *)
LEMMA WithKeeps ==
  ASSUME reservation \in Entities, ComesAfterStart,
         NEW k \in Keys, NEW entity \in Reservation, Fits(entity),
         reservation' = With(k, entity)
  PROVE  /\ reservation' \in Entities /\ ComesAfterStart'
         /\ Made \subseteq Made'
<1>1. DOMAIN reservation \subseteq Keys /\ reservation \in [DOMAIN reservation -> Reservation]
  BY EntitiesAre
<1>2. reservation' \in [Made \cup {k} -> Reservation] /\ Made' = Made \cup {k}
  BY <1>1 DEF With, Made
<1>3. reservation' \in Entities
  BY <1>1, <1>2 DEF Entities, Made
<1>4. ComesAfterStart'
  <2> SUFFICES ASSUME NEW l \in Made', "moved" \notin reservation'[l].history
               PROVE  reservation'[l].shift_start <= reservation'[l].date
    BY DEF ComesAfterStart
  <2>1. CASE l = k
    BY <1>2, <2>1 DEF With, Fits
  <2>2. CASE l # k
    BY <1>2, <2>2 DEF With, ComesAfterStart
  <2> QED
    BY <2>1, <2>2
<1> QED
  BY <1>2, <1>3, <1>4

LEMMA MadeFits ==
  ASSUME IInv, NEW k \in Made
  PROVE  k \in Keys /\ reservation[k] \in Reservation /\ Fits(reservation[k])
  BY EntitiesAre DEF IInv, TypeOK, ComesAfterStart, Fits, Made

-----------------------------------------------------------------------------
(* What the kinds of steps have in common.                                 *)

LEMMA AskKeeps ==
  ASSUME IInv, NEW q \in Requests, NEW r \in Request, RequestFits(r), r.keys \subseteq Made,
         Ask(q, r)
  PROVE  IInv'
<1>1. /\ request' = [request EXCEPT ![q] = r]
      /\ UNCHANGED <<settings, reservation, deleted, jobs, checks>>
  BY DEF Ask
<1>2. TypeOK'
  BY <1>1 DEF IInv, TypeOK
<1>3. ComesAfterStart' /\ ChecksAreMade'
  BY <1>1 DEF IInv, ComesAfterStart, ChecksAreMade, Made
<1>4. RequestsFit'
  <2> SUFFICES ASSUME NEW p \in Requests
               PROVE  RequestFits(request'[p]) /\ request'[p].keys \subseteq Made
    BY <1>1 DEF RequestsFit, Made, RequestFits
  <2>1. request'[p] = IF p = q THEN r ELSE request[p]
    BY <1>1 DEF IInv, TypeOK
  <2> QED
    BY <2>1 DEF IInv, RequestsFit
<1> QED
  BY <1>2, <1>3, <1>4 DEF IInv

LEMMA IdleFits == Idle \in Request /\ RequestFits(Idle) /\ Idle.keys = {}
  BY NothingIsMade DEF Idle, Request, RequestFits, Operations, Histories

(* One entity is written, and of the requests only q changes, to r.        *)
LEMMA WriteKeeps ==
  ASSUME IInv, NEW q \in Requests, NEW r \in Request, RequestFits(r), r.keys \subseteq Made,
         reservation' \in Entities, ComesAfterStart', Made \subseteq Made',
         request' = [request EXCEPT ![q] = r], deleted' \subseteq Tables,
         UNCHANGED <<settings, jobs, checks>>
  PROVE  IInv'
<1>1. TypeOK'
  BY DEF IInv, TypeOK
<1>2. ChecksAreMade'
  BY DEF IInv, ChecksAreMade
<1>3. RequestsFit'
  <2> SUFFICES ASSUME NEW p \in Requests
               PROVE  RequestFits(request'[p]) /\ request'[p].keys \subseteq Made'
    BY DEF RequestsFit, RequestFits
  <2>1. request'[p] = IF p = q THEN r ELSE request[p]
    BY DEF IInv, TypeOK
  <2> QED
    BY <2>1 DEF IInv, RequestsFit
<1> QED
  BY <1>1, <1>2, <1>3 DEF IInv

LEMMA AnswerKeeps ==
  ASSUME IInv, NEW q \in Requests, Answer(q), deleted' \subseteq Tables,
         reservation' \in Entities, ComesAfterStart', Made \subseteq Made'
  PROVE  IInv'
<1>1. Idle \in Request /\ RequestFits(Idle) /\ Idle.keys \subseteq Made
  BY IdleFits
<1> QED
  BY <1>1, WriteKeeps DEF Answer

LEMMA PutKeeps ==
  ASSUME IInv, NEW k \in Made, NEW entity \in Reservation, Fits(entity), Put(k, entity)
  PROVE  IInv'
<1>1. /\ reservation' = With(k, entity)
      /\ UNCHANGED <<settings, deleted, jobs, checks, request>>
  BY DEF Put
<1>2. reservation \in Entities /\ ComesAfterStart /\ k \in Keys
  BY MadeFits DEF IInv, TypeOK
<1>3. reservation' \in Entities /\ ComesAfterStart' /\ Made \subseteq Made'
  BY <1>1, <1>2, WithKeeps
<1>4. TypeOK'
  BY <1>1, <1>3 DEF IInv, TypeOK
<1>5. RequestsFit' /\ ChecksAreMade'
  BY <1>1, <1>3 DEF IInv, RequestsFit, RequestFits, ChecksAreMade
<1> QED
  BY <1>3, <1>4, <1>5 DEF IInv

-----------------------------------------------------------------------------
(* The transactions on one reservation.                                    *)

LEMMA PutsKeep ==
  ASSUME IInv, NEW k \in Made,
         \/ EditUnchecked(k) \/ cancel_reservation(k)
         \/ toggle_reservation_cancelled(k) \/ edit_reservation_tables(k)
  PROVE  IInv'
<1> DEFINE old == reservation[k]
<1>1. k \in Keys /\ old \in Reservation /\ Fits(old)
  BY MadeFits
<1> HIDE DEF old
<1>2. ASSUME NEW people \in Parties, NEW unchecked \in SUBSET {"unchecked"}
      PROVE  /\ [old EXCEPT !.people = people, !.history = @ \cup unchecked] \in Reservation
             /\ Fits([old EXCEPT !.people = people, !.history = @ \cup unchecked])
  BY <1>1 DEF Reservation, Fits, Histories
<1>3. ASSUME NEW status \in SUBSET {"canceled", "shift_removed"},
             NEW unchecked \in SUBSET {"unchecked"}
      PROVE  /\ [old EXCEPT !.status = status] \in Reservation
             /\ Fits([old EXCEPT !.status = status])
             /\ [old EXCEPT !.status = status, !.history = @ \cup unchecked] \in Reservation
             /\ Fits([old EXCEPT !.status = status, !.history = @ \cup unchecked])
  BY <1>1 DEF Reservation, Fits, Histories
<1>4. ASSUME NEW tables \in SUBSET Tables
      PROVE  /\ [old EXCEPT !.tables = tables] \in Reservation
             /\ Fits([old EXCEPT !.tables = tables])
  BY <1>1 DEF Reservation, Fits
<1>5. CASE EditUnchecked(k)
  <2>1. PICK people \in Parties, force \in BOOLEAN :
          Put(k, [old EXCEPT !.people = people,
                             !.history = @ \cup Unchecked(people > old.people)])
    BY <1>5 DEF EditUnchecked, old
  <2>2. Unchecked(people > old.people) \in SUBSET {"unchecked"}
    BY DEF Unchecked
  <2> QED
    BY <1>2, <2>1, <2>2, PutKeeps
<1>6. CASE cancel_reservation(k)
  <2>1. (old.status \cup {"canceled"}) \ {"shift_removed"} \in SUBSET {"canceled", "shift_removed"}
    BY <1>1 DEF Reservation
  <2>2. Put(k, [old EXCEPT !.status = (old.status \cup {"canceled"}) \ {"shift_removed"}])
    BY <1>6 DEF cancel_reservation, old
  <2> QED
    BY <1>3, <2>1, <2>2, PutKeeps
<1>7. CASE toggle_reservation_cancelled(k)
  <2>1. /\ old.status \cup {"canceled"} \in SUBSET {"canceled", "shift_removed"}
        /\ old.status \ {"canceled"} \in SUBSET {"canceled", "shift_removed"}
    BY <1>1 DEF Reservation
  <2>2. \/ Put(k, [old EXCEPT !.status = old.status \cup {"canceled"}])
        \/ Put(k, [old EXCEPT !.status = old.status \ {"canceled"},
                              !.history = @ \cup {"unchecked"}])
    BY <1>7 DEF toggle_reservation_cancelled, old
  <2>3. CASE Put(k, [old EXCEPT !.status = old.status \cup {"canceled"}])
    BY <1>3, <2>1, <2>3, PutKeeps
  <2>4. CASE Put(k, [old EXCEPT !.status = old.status \ {"canceled"},
                                !.history = @ \cup {"unchecked"}])
    <3>1. {"unchecked"} \in SUBSET {"unchecked"}
      OBVIOUS
    <3> QED
      BY <1>3, <2>1, <2>4, <3>1, PutKeeps
  <2> QED
    BY <2>2, <2>3, <2>4
<1>8. CASE edit_reservation_tables(k)
  <2>1. PICK tables \in SUBSET Tables : Put(k, [old EXCEPT !.tables = tables])
    BY <1>8 DEF edit_reservation_tables, old
  <2> QED
    BY <1>4, <2>1, PutKeeps
<1> QED
  BY <1>5, <1>6, <1>7, <1>8

-----------------------------------------------------------------------------
(* What a request sees before its transaction.                             *)

LEMMA MatchingFits ==
  ASSUME IInv, NEW date \in Dates, NEW people, NEW force,
         NEW shift \in AvailableShifts(date, people, force)
  PROVE  StartOf(shift) \in Starts /\ StartOf(shift) <= date
<1>1. shift \in ToSet(settings) /\ shift.start <= date
  BY DEF AvailableShifts, MatchingShifts
<1>2. PICK i \in DOMAIN settings : shift = settings[i]
  BY <1>1 DEF ToSet
<1>3. settings \in Configurations
  BY DEF IInv, TypeOK
<1> QED
  BY <1>1, <1>2, <1>3, ShiftsAre DEF StartOf

(* What is asked for fits.                                                 *)
LEMMA AskedFits ==
  ASSUME IInv, NEW op \in {"reserve", "edit"}, NEW keys \in SUBSET Keys, NEW date \in Dates,
         NEW people \in Parties, NEW force \in BOOLEAN,
         NEW shift \in AvailableShifts(date, people, force)
  PROVE  /\ Asked(op, keys, date, people, shift, force) \in Request
         /\ RequestFits(Asked(op, keys, date, people, shift, force))
         /\ Asked(op, keys, date, people, shift, force).keys = keys
<1>1. StartOf(shift) \in Starts /\ StartOf(shift) <= date
  BY MatchingFits
<1>2. Unchecked(force) \in Histories
  BY DEF Unchecked, Histories
<1> QED
  BY <1>1, <1>2, NothingIsMade DEF Asked, Request, RequestFits, Operations

LEMMA AsksKeep ==
  ASSUME IInv, NEW q \in Requests,
         \/ AskTable(q) \/ AskDeleteTable(q)
         \/ \E k \in Made : AskEdit(q, k) \/ AskMove(q, k)
  PROVE  IInv'
<1>1. CASE AskTable(q)
  <2>1. PICK date \in Dates, people \in Parties, force \in BOOLEAN :
          \E shift \in AvailableShifts(date, people, force) :
            Ask(q, Asked("reserve", {}, date, people, shift, force))
    BY <1>1 DEF AskTable
  <2>2. PICK shift \in AvailableShifts(date, people, force) :
          Ask(q, Asked("reserve", {}, date, people, shift, force))
    BY <2>1
  <2> QED
    BY <2>2, AskedFits, AskKeeps
<1>2. ASSUME NEW k \in Made, AskEdit(q, k) PROVE IInv'
  <2>1. PICK date \in Dates, people \in Parties, force \in BOOLEAN :
          \E shift \in AvailableShifts(date, people, force) :
            Ask(q, Asked("edit", {k}, date, people, shift, force))
    BY <1>2 DEF AskEdit
  <2>2. PICK shift \in AvailableShifts(date, people, force) :
          Ask(q, Asked("edit", {k}, date, people, shift, force))
    BY <2>1
  <2>3. {k} \in SUBSET Keys /\ {k} \subseteq Made
    BY MadeFits
  <2> QED
    BY <2>2, <2>3, AskedFits, AskKeeps
<1>3. ASSUME NEW k \in Made, AskMove(q, k) PROVE IInv'
  <2>1. PICK shift \in ToSet(settings) :
          Ask(q, [Idle EXCEPT !.op = "move", !.keys = {k}, !.shift_start = shift.start])
    BY <1>3 DEF AskMove
  <2>2. shift.start \in Starts
    <3>1. settings \in Configurations
      BY DEF IInv, TypeOK
    <3> QED
      BY <3>1 DEF Shifts, Starts
  <2> DEFINE r == [Idle EXCEPT !.op = "move", !.keys = {k}, !.shift_start = shift.start]
  <2>3. k \in Keys
    BY MadeFits
  <2>4. Idle \in Request /\ DOMAIN Idle.seen = {}
    BY IdleFits, NothingIsMade DEF Idle
  <2>5. r \in Request /\ RequestFits(r) /\ r.keys \subseteq Made
    BY <2>2, <2>3, <2>4 DEF Request, RequestFits, Operations
  <2>6. Ask(q, r)
    BY <2>1
  <2> HIDE DEF r
  <2> QED
    BY <2>5, <2>6, AskKeeps
<1>4. CASE AskDeleteTable(q)
  <2> DEFINE K(table) == {k \in Made : table \in reservation[k].tables}
             r(table) == [Idle EXCEPT !.op = "delete_table", !.keys = K(table),
                                      !.tables = {table}, !.seen = [k \in K(table) |-> reservation[k]]]
  <2>1. PICK table \in Tables \ deleted : Ask(q, r(table))
    BY <1>4 DEF AskDeleteTable
  <2>2. K(table) \subseteq Made /\ K(table) \subseteq Keys
    BY MadeFits
  <2>3. \A k \in K(table) : reservation[k] \in Reservation /\ Fits(reservation[k])
    BY MadeFits
  <2> DEFINE copies == [k \in K(table) |-> reservation[k]]
  <2>4. /\ copies \in Entities /\ DOMAIN copies = K(table)
        /\ \A k \in DOMAIN copies : Fits(copies[k])
    <3> HIDE DEF K
    <3> QED
      BY <2>2, <2>3 DEF Entities
  <2>5. r(table) \in Request /\ RequestFits(r(table)) /\ r(table).keys \subseteq Made
    <3> HIDE DEF K, copies
    <3>1. r(table) = [Idle EXCEPT !.op = "delete_table", !.keys = K(table),
                                  !.tables = {table}, !.seen = copies]
      BY DEF copies
    <3>2. {table} \in SUBSET Tables /\ Idle \in Request
      BY IdleFits
    <3> HIDE DEF r
    <3>3. r(table) \in Request
      BY <2>2, <2>4, <3>1, <3>2 DEF Request, Operations
    <3>4. /\ r(table).op = "delete_table" /\ r(table).keys = K(table)
          /\ r(table).seen = copies
      BY <3>1 DEF Idle
    <3> QED
      BY <2>2, <2>4, <3>3, <3>4 DEF RequestFits
  <2> HIDE DEF r
  <2> QED
    BY <2>1, <2>5, AskKeeps
<1> QED
  BY <1>1, <1>2, <1>3, <1>4

-----------------------------------------------------------------------------
(* The transactions of the requests.                                       *)

LEMMA RequestsAre ==
  ASSUME IInv, NEW q \in Requests
  PROVE  /\ request[q] \in Request /\ RequestFits(request[q])
         /\ request[q].keys \subseteq Made /\ request[q].keys \subseteq Keys
  BY MadeFits DEF IInv, TypeOK, RequestsFit

(* A request that writes one entity and is done.                           *)
LEMMA WritesAndAnswers ==
  ASSUME IInv, NEW q \in Requests, NEW k \in Keys, NEW entity \in Reservation, Fits(entity),
         reservation' = With(k, entity), UNCHANGED deleted, Answer(q)
  PROVE  IInv'
<1>1. reservation \in Entities /\ ComesAfterStart /\ deleted' \subseteq Tables
  BY DEF IInv, TypeOK
<1>2. reservation' \in Entities /\ ComesAfterStart' /\ Made \subseteq Made'
  BY <1>1, WithKeeps
<1> QED
  BY <1>1, <1>2, AnswerKeeps

LEMMA ReserveKeeps ==
  ASSUME IInv, NEW q \in Requests, reserve_table(q)
  PROVE  IInv'
<1> DEFINE r == request[q]
           entity == [status |-> {}, date |-> r.date, people |-> r.people,
                      shift_start |-> r.shift_start, tables |-> {}, history |-> r.history]
<1>1. PICK k \in Keys \ Made : reservation' = With(k, entity)
  BY DEF reserve_table
<1>2. r.op = "reserve" /\ UNCHANGED deleted /\ Answer(q)
  BY DEF reserve_table
<1>3. r \in Request /\ RequestFits(r)
  BY RequestsAre
<1>4. entity \in Reservation /\ Fits(entity)
  <2> HIDE DEF r
  <2> QED
    BY <1>2, <1>3 DEF Request, RequestFits, Reservation, Fits
<1> HIDE DEF entity
<1> QED
  BY <1>1, <1>2, <1>4, WritesAndAnswers

LEMMA EditKeeps ==
  ASSUME IInv, NEW q \in Requests, edit_reservation(q)
  PROVE  IInv'
<1> DEFINE r == request[q]
           old(k) == reservation[k]
           new(k) == [old(k) EXCEPT !.people = r.people, !.date = r.date,
                        !.shift_start = NewShift(old(k), r), !.history = NewHistory(old(k), r)]
<1>1. PICK k \in r.keys : reservation' = With(k, new(k))
  BY DEF edit_reservation
<1>2. r.op = "edit" /\ UNCHANGED deleted /\ Answer(q)
  BY DEF edit_reservation
<1>3. r \in Request /\ RequestFits(r) /\ k \in Made /\ k \in Keys
  BY <1>1, RequestsAre
<1>4. old(k) \in Reservation /\ Fits(old(k))
  BY <1>3, MadeFits
<1> HIDE DEF r, old
<1>5. /\ r.date \in Dates /\ r.people \in Parties /\ r.shift_start \in Starts
      /\ r.shift_start <= r.date /\ r.history \in Histories
  BY <1>2, <1>3 DEF Request, RequestFits
<1>6. NewShift(old(k), r) \in Starts
  BY <1>4, <1>5 DEF NewShift, Reservation
<1>7. NewHistory(old(k), r) \in Histories
  BY <1>4, <1>5 DEF NewHistory, Unchecked, Reservation, Histories
<1>8. "moved" \notin NewHistory(old(k), r) => NewShift(old(k), r) <= r.date
  <2>1. CASE r.date = old(k).date
    BY <1>4, <2>1 DEF NewHistory, NewShift, Fits
  <2>2. CASE r.date # old(k).date
    BY <1>5, <2>2 DEF NewShift
  <2> QED
    BY <2>1, <2>2
<1>9. new(k) \in Reservation
  BY <1>4, <1>5, <1>6, <1>7 DEF Reservation
<1>10. new(k).history = NewHistory(old(k), r) /\ new(k).shift_start = NewShift(old(k), r)
       /\ new(k).date = r.date
  BY <1>4 DEF Reservation
<1>11. Fits(new(k))
  BY <1>8, <1>10 DEF Fits
<1> HIDE DEF new
<1> QED
  BY <1>1, <1>2, <1>3, <1>9, <1>11, WritesAndAnswers

LEMMA MoveKeeps ==
  ASSUME IInv, NEW q \in Requests, move_reservation(q)
  PROVE  IInv'
<1> DEFINE r == request[q]
           old(k) == reservation[k]
           new(k) == [old(k) EXCEPT !.shift_start = r.shift_start,
                        !.status = @ \ {"shift_removed"}, !.history = @ \cup {"moved", "unchecked"}]
<1>1. PICK k \in r.keys : reservation' = With(k, new(k))
  BY DEF move_reservation
<1>2. r.op = "move" /\ UNCHANGED deleted /\ Answer(q)
  BY DEF move_reservation
<1>3. r \in Request /\ RequestFits(r) /\ k \in Made /\ k \in Keys
  BY <1>1, RequestsAre
<1>4. old(k) \in Reservation
  BY <1>3, MadeFits
<1> HIDE DEF r, old
<1>5. r.shift_start \in Starts
  BY <1>2, <1>3 DEF RequestFits
<1>6. new(k) \in Reservation /\ "moved" \in new(k).history
  BY <1>4, <1>5 DEF Reservation, Histories
<1>7. Fits(new(k))
  BY <1>6 DEF Fits
<1> HIDE DEF new
<1> QED
  BY <1>1, <1>2, <1>3, <1>6, <1>7, WritesAndAnswers

LEMMA ClearKeeps ==
  ASSUME IInv, NEW q \in Requests, clear_table_id_in_reservations(q)
  PROVE  IInv'
<1> DEFINE r == request[q]
           new(k) == [r.seen[k] EXCEPT !.tables = @ \ r.tables, !.history = @ \cup {"unchecked"}]
           left(k) == [r EXCEPT !.keys = @ \ {k}, !.seen = [l \in r.keys \ {k} |-> r.seen[l]]]
<1>1. PICK k \in r.keys :
        /\ reservation' = With(k, new(k))
        /\ request' = [request EXCEPT ![q].keys = @ \ {k},
                                     ![q].seen = [l \in r.keys \ {k} |-> r.seen[l]]]
  BY DEF clear_table_id_in_reservations
<1>2. r.op = "delete_table" /\ UNCHANGED <<settings, deleted, jobs, checks>>
  BY DEF clear_table_id_in_reservations
<1>3. /\ r \in Request /\ RequestFits(r) /\ r.keys \subseteq Made /\ r.keys \subseteq Keys
      /\ DOMAIN r.seen = r.keys
  BY <1>2, RequestsAre DEF RequestFits
<1>4. request' = [request EXCEPT ![q] = left(k)]
  BY <1>1, <1>3 DEF IInv, TypeOK
<1> HIDE DEF r
<1>5. r.seen \in [r.keys -> Reservation] /\ \A l \in r.keys : Fits(r.seen[l])
  BY <1>3, EntitiesAre DEF Request, RequestFits
<1>6. r.seen[k] \in Reservation /\ Fits(r.seen[k]) /\ r.tables \subseteq Tables
  BY <1>1, <1>3, <1>5 DEF Request
<1>7. new(k) \in Reservation /\ Fits(new(k))
  BY <1>6 DEF Reservation, Fits, Histories
<1> DEFINE rest == [l \in r.keys \ {k} |-> r.seen[l]]
<1>8. rest \in Entities /\ DOMAIN rest = r.keys \ {k} /\ \A l \in DOMAIN rest : Fits(rest[l])
  BY <1>3, <1>5 DEF Entities
<1>9. left(k) = [r EXCEPT !.keys = @ \ {k}, !.seen = rest]
  OBVIOUS
<1> HIDE DEF new, left, rest
<1>10. left(k) \in Request /\ left(k).keys = r.keys \ {k} /\ left(k).seen = rest
       /\ left(k).op = "delete_table"
  BY <1>2, <1>3, <1>8, <1>9 DEF Request
<1>11. RequestFits(left(k)) /\ left(k).keys \subseteq Made
  BY <1>3, <1>8, <1>10 DEF RequestFits
<1>12. reservation \in Entities /\ ComesAfterStart /\ deleted' \subseteq Tables
  BY <1>2 DEF IInv, TypeOK
<1>13. k \in Keys
  BY <1>1, <1>3
<1>14. reservation' \in Entities /\ ComesAfterStart' /\ Made \subseteq Made'
  BY <1>1, <1>7, <1>12, <1>13, WithKeeps
<1> QED
  BY <1>2, <1>4, <1>10, <1>11, <1>12, <1>14, WriteKeeps

LEMMA EndsKeep ==
  ASSUME IInv, NEW q \in Requests, delete_table(q) \/ Fail(q)
  PROVE  IInv'
<1>1. /\ reservation' = reservation /\ Answer(q)
      /\ deleted' \in {deleted, deleted \cup request[q].tables}
  BY DEF delete_table, Fail
<1>2. request[q].tables \subseteq Tables
  BY RequestsAre DEF Request
<1>3. deleted' \subseteq Tables /\ reservation' \in Entities
  BY <1>1, <1>2 DEF IInv, TypeOK
<1>4. ComesAfterStart' /\ Made \subseteq Made'
  BY <1>1 DEF IInv, ComesAfterStart, Made
<1> QED
  BY <1>1, <1>3, <1>4, AnswerKeeps

-----------------------------------------------------------------------------
(* Saving shifts, and the job that checks the reservations.                *)

LEMMA SaveKeeps ==
  ASSUME IInv, NEW shifts \in Configurations, save_shifts(shifts) \/ handle_shift_updates(shifts)
  PROVE  IInv'
<1>1. UNCHANGED <<reservation, deleted, request>>
  BY DEF save_shifts, handle_shift_updates
<1>2. ComesAfterStart' /\ RequestsFit'
  BY <1>1 DEF IInv, ComesAfterStart, RequestsFit, RequestFits, Made
<1>3. CASE save_shifts(shifts)
  BY <1>1, <1>2, <1>3 DEF IInv, TypeOK, ChecksAreMade, save_shifts, Made
<1>4. CASE handle_shift_updates(shifts)
  <2>1. /\ checks' = checks \cup {[key |-> k, shifts |-> shifts] : k \in Made}
        /\ settings' = settings /\ jobs' \subseteq jobs
    BY <1>4 DEF handle_shift_updates
  <2>2. checks' \subseteq Task
    BY <2>1, MadeFits DEF IInv, TypeOK, Task
  <2>3. ChecksAreMade'
    BY <1>1, <2>1 DEF IInv, ChecksAreMade, Made
  <2> QED
    BY <1>1, <1>2, <2>1, <2>2, <2>3 DEF IInv, TypeOK
<1> QED
  BY <1>3, <1>4

(* A check moves a reservation to a shift that starts no later.            *)
LEMMA CheckedFits ==
  ASSUME NEW entity \in Reservation, Fits(entity), NEW shifts \in Configurations
  PROVE  Checked(entity, shifts) \in Reservation /\ Fits(Checked(entity, shifts))
<1> DEFINE covering == {i \in DOMAIN shifts : Covers(shifts[i], entity.shift_start)}
           index == CHOOSE i \in covering : \A j \in covering : i <= j
<1>1. CASE covering = {} \/ "canceled" \in entity.status
  BY <1>1 DEF Checked, Reservation, Fits
<1>2. CASE covering # {} /\ "canceled" \notin entity.status
  <2>1. DOMAIN shifts \subseteq Nat
    <3>1. shifts \in Seq(Shift)
      BY ReservationsAssumption
    <3> QED
      BY <3>1
  <2>2. index \in covering
    <3>1. covering \in SUBSET Nat
      BY <2>1
    <3> HIDE DEF covering
    <3>2. \E i \in covering : \A j \in covering : i <= j
      BY <1>2, <3>1, HasFirst
    <3> QED
      BY <3>2
  <2>3. /\ shifts[index].start \in Starts /\ shifts[index].start \in Nat
        /\ shifts[index].start <= entity.shift_start
    <3> HIDE DEF index
    <3> QED
      BY <2>2, ShiftsAre DEF Covers
  <2>4. Checked(entity, shifts) =
          [entity EXCEPT !.status = @ \ {"shift_removed"}, !.shift_start = shifts[index].start,
             !.history = IF shifts[index].start = entity.shift_start THEN @
                         ELSE @ \cup {"unchecked"}]
    BY <1>2 DEF Checked
  <2>5. entity.shift_start \in Nat /\ entity.date \in Nat
    BY StartsAreNumbers, DatesAreNumbers DEF Reservation
  <2> DEFINE start == shifts[index].start
  <2> HIDE DEF covering, index
  <2> HIDE DEF start
  <2>6. Checked(entity, shifts) =
          [entity EXCEPT !.status = @ \ {"shift_removed"}, !.shift_start = start,
             !.history = IF start = entity.shift_start THEN @ ELSE @ \cup {"unchecked"}]
    BY <2>4 DEF start
  <2>7. start \in Starts /\ start \in Nat /\ start <= entity.shift_start
    BY <2>3 DEF start
  <2> DEFINE history == IF start = entity.shift_start THEN entity.history
                        ELSE entity.history \cup {"unchecked"}
  <2>8. history \in Histories /\ ("moved" \notin history => "moved" \notin entity.history)
    BY DEF Reservation, Histories
  <2>9. Checked(entity, shifts) =
          [entity EXCEPT !.status = @ \ {"shift_removed"}, !.shift_start = start,
                         !.history = history]
    BY <2>6
  <2> HIDE DEF history
  <2>10. /\ Checked(entity, shifts) \in Reservation
         /\ Checked(entity, shifts).history = history
         /\ Checked(entity, shifts).shift_start = start
         /\ Checked(entity, shifts).date = entity.date
    BY <2>7, <2>8, <2>9 DEF Reservation
  <2> QED
    BY <2>5, <2>7, <2>8, <2>10 DEF Fits
<1> QED
  BY <1>1, <1>2

LEMMA CheckKeeps ==
  ASSUME IInv, NEW task \in checks, _check_reservation(task)
  PROVE  IInv'
<1>1. task \in Task /\ task.key \in Made
  BY DEF IInv, TypeOK, ChecksAreMade
<1>2. /\ reservation' = With(task.key, Checked(reservation[task.key], task.shifts))
      /\ checks' \subseteq checks /\ UNCHANGED <<settings, deleted, jobs, request>>
  BY DEF _check_reservation
<1>3. task.key \in Keys /\ reservation[task.key] \in Reservation /\ Fits(reservation[task.key])
  BY <1>1, MadeFits
<1>4. task.shifts \in Configurations
  BY <1>1 DEF Task
<1>5. /\ Checked(reservation[task.key], task.shifts) \in Reservation
      /\ Fits(Checked(reservation[task.key], task.shifts))
  BY <1>3, <1>4, CheckedFits
<1>6. reservation \in Entities /\ ComesAfterStart
  BY DEF IInv, TypeOK
<1>7. reservation' \in Entities /\ ComesAfterStart' /\ Made \subseteq Made'
  BY <1>2, <1>3, <1>5, <1>6, WithKeeps
<1>8. TypeOK'
  BY <1>2, <1>7 DEF IInv, TypeOK
<1>9. RequestsFit' /\ ChecksAreMade'
  BY <1>2, <1>7 DEF IInv, RequestsFit, RequestFits, ChecksAreMade
<1> QED
  BY <1>7, <1>8, <1>9 DEF IInv

-----------------------------------------------------------------------------
LEMMA Initially == Init => IInv
<1> SUFFICES ASSUME Init PROVE IInv
  OBVIOUS
<1>1. TypeOK
  BY IdleFits, NothingIsMade DEF Init, TypeOK
<1>2. ComesAfterStart /\ ChecksAreMade
  BY NothingIsMade DEF Init, ComesAfterStart, ChecksAreMade, Made
<1>3. RequestsFit
  BY IdleFits DEF Init, RequestsFit
<1> QED
  BY <1>1, <1>2, <1>3 DEF IInv

LEMMA Inductive == IInv /\ [Next]_vars => IInv'
<1> SUFFICES ASSUME IInv, [Next]_vars PROVE IInv'
  OBVIOUS
<1>1. ASSUME NEW q \in Requests,
             \/ AskTable(q) \/ AskDeleteTable(q)
             \/ \E k \in Made : AskEdit(q, k) \/ AskMove(q, k)
      PROVE  IInv'
  BY <1>1, AsksKeep
<1>2. ASSUME NEW q \in Requests,
             \/ reserve_table(q) \/ edit_reservation(q) \/ move_reservation(q)
             \/ clear_table_id_in_reservations(q) \/ delete_table(q) \/ Fail(q)
      PROVE  IInv'
  BY <1>2, ReserveKeeps, EditKeeps, MoveKeeps, ClearKeeps, EndsKeep
<1>3. ASSUME NEW k \in Made,
             \/ EditUnchecked(k) \/ cancel_reservation(k)
             \/ toggle_reservation_cancelled(k) \/ edit_reservation_tables(k)
      PROVE  IInv'
  BY <1>3, PutsKeep
<1>4. ASSUME NEW shifts \in Configurations,
             save_shifts(shifts) \/ handle_shift_updates(shifts)
      PROVE  IInv'
  BY <1>4, SaveKeeps
<1>5. ASSUME NEW task \in checks, _check_reservation(task)
      PROVE  IInv'
  BY <1>5, CheckKeeps
<1>6. CASE UNCHANGED vars
  BY <1>6 DEF vars, IInv, TypeOK, ComesAfterStart, RequestsFit, RequestFits, ChecksAreMade, Made
<1> QED
  BY <1>1, <1>2, <1>3, <1>4, <1>5, <1>6 DEF Next

(* Every variable keeps its type: what requests, jobs and old copies write *)
(* are reservations, and nothing is written for one that was not made.     *)
THEOREM TypeCorrect == Spec => []TypeOK
<1>1. IInv => TypeOK
  BY DEF IInv
<1> QED
  BY <1>1, Initially, Inductive, PTL DEF Spec

(* However edits, moves, checks with shifts of any age and the old copies  *)
(* of delete_table interleave, only who was moved comes before his shift.  *)
THEOREM GuestsComeAfterStart == Spec => []ComesAfterStart
<1>1. IInv => ComesAfterStart
  BY DEF IInv
<1> QED
  BY <1>1, Initially, Inductive, PTL DEF Spec

-----------------------------------------------------------------------------
(* OverbookingIsBounded is not inductive either.  What is bounded is the   *)
(* load of a shift: the guests that were let in, and the groups that were  *)
(* seen to fit and are yet to be written.  A request that finds a place    *)
(* sees fewer guests than the limit, whatever else is on its way; all else *)
(* that is written takes no more than its request, or nobody, had asked.   *)

LetIn(entity, start) ==
  /\ "canceled" \notin entity.status /\ "unchecked" \notin entity.history
  /\ entity.shift_start = start

Guests(entity, start) == IF LetIn(entity, start) THEN entity.people ELSE 0

SeatedAt(made, k, start) == IF k \in DOMAIN made THEN Guests(made[k], start) ELSE 0

Seated(made, start) == [k \in Keys |-> SeatedAt(made, k, start)]

Coming(r, start) ==
  IF r.op \in {"reserve", "edit"} /\ "unchecked" \notin r.history /\ r.shift_start = start
  THEN r.people ELSE 0

Asking(asked, start) == [q \in Requests |-> Coming(asked[q], start)]

LoadOf(made, asked, start) ==
  Sum(Seated(made, start), Keys) + Sum(Asking(asked, start), Requests)

Load(start) == LoadOf(reservation, request, start)

Most(start) == HighestLimit(start) - 1 + Cardinality(Requests) * LargestGroup(start)

LoadIsBounded == \A start \in Starts : Load(start) = 0 \/ Load(start) <= Most(start)

GroupsFit ==
  \A q \in Requests, start \in Starts : Coming(request[q], start) <= LargestGroup(start)

LInv == IInv /\ LoadIsBounded /\ GroupsFit

-----------------------------------------------------------------------------
(* The shifts with a start, and the largest of their numbers.              *)

LEMMA ShiftsAreFinite == IsFiniteSet(Shifts) /\ Shifts \subseteq Shift
<1>1. ASSUME NEW shifts \in Configurations PROVE IsFiniteSet(ToSet(shifts))
  <2>1. shifts \in Seq(Shift) /\ DOMAIN shifts = 1 .. Len(shifts) /\ Len(shifts) \in Nat
    BY ReservationsAssumption
  <2>2. IsFiniteSet(DOMAIN shifts)
    BY <2>1, FS_Interval
  <2> QED
    BY <2>2, ImageIsFinite DEF ToSet
<1> DEFINE f == [shifts \in Configurations |-> ToSet(shifts)]
           T == {f[shifts] : shifts \in Configurations}
<1>2. IsFiniteSet(T)
  <2> HIDE DEF f
  <2> QED
    BY ReservationsAssumption, ImageIsFinite
<1>3. \A t \in T : IsFiniteSet(t)
  BY <1>1
<1>4. Shifts = UNION T
  BY DEF Shifts
<1>5. Shifts \subseteq Shift
  BY ShiftsAre DEF Shifts, ToSet
<1> HIDE DEF T
<1>6. IsFiniteSet(UNION T)
  BY <1>2, <1>3, FS_UNION
<1> QED
  BY <1>4, <1>5, <1>6

LEMMA MaxIs ==
  ASSUME NEW S \in SUBSET Nat, IsFiniteSet(S), S # {}
  PROVE  Max(S) \in Nat /\ \A y \in S : y <= Max(S)
<1>1. \E m \in S : \A y \in S : m >= y
  BY HasLast
<1>2. Max(S) \in S /\ \A y \in S : Max(S) >= y
  BY <1>1 DEF Max
<1> QED
  BY <1>2

LEMMA BoundsAre ==
  ASSUME NEW start \in Starts
  PROVE  /\ HighestLimit(start) \in Nat /\ LargestGroup(start) \in Nat
         /\ \A shift \in ShiftsStarting(start) :
              /\ shift.limit <= HighestLimit(start)
              /\ shift.max_group_size <= LargestGroup(start)
<1> DEFINE S == ShiftsStarting(start)
           limit == [shift \in S |-> shift.limit]
           group == [shift \in S |-> shift.max_group_size]
           Limits == {limit[shift] : shift \in S}
           Groups == {group[shift] : shift \in S}
<1>1. S # {} /\ S \subseteq Shifts
  BY DEF Starts, ShiftsStarting
<1>2. IsFiniteSet(S)
  BY <1>1, ShiftsAreFinite, FS_Subset
<1>3. S \subseteq Shift
  BY <1>1, ShiftsAreFinite
<1>4. Limits \in SUBSET Nat /\ Groups \in SUBSET Nat /\ Limits # {} /\ Groups # {}
  BY <1>1, <1>3 DEF Shift
<1>5. /\ Limits = {shift.limit : shift \in S}
      /\ Groups = {shift.max_group_size : shift \in S}
  OBVIOUS
<1>6. IsFiniteSet(Limits) /\ IsFiniteSet(Groups)
  <2> HIDE DEF S, limit, group
  <2> QED
    BY <1>2, ImageIsFinite
<1>7. \A shift \in S : shift.limit \in Limits /\ shift.max_group_size \in Groups
  BY <1>5
<1>8. HighestLimit(start) = Max(Limits) /\ LargestGroup(start) = Max(Groups)
  BY <1>5 DEF HighestLimit, LargestGroup
<1> HIDE DEF Limits, Groups
<1>9. Max(Limits) \in Nat /\ \A y \in Limits : y <= Max(Limits)
  BY <1>4, <1>6, MaxIs
<1>10. Max(Groups) \in Nat /\ \A y \in Groups : y <= Max(Groups)
  BY <1>4, <1>6, MaxIs
<1> QED
  BY <1>7, <1>8, <1>9, <1>10

-----------------------------------------------------------------------------
(* The load of a shift.                                                    *)

LEMMA PeopleAre == Parties \subseteq Nat /\ \A n \in Parties : n > 0
  BY ReservationsAssumption

LEMMA GuestsAre ==
  ASSUME NEW entity \in Reservation, NEW start
  PROVE  Guests(entity, start) \in Nat
  BY PeopleAre DEF Guests, Reservation

LEMMA ComingAre ==
  ASSUME NEW r \in Request, NEW start
  PROVE  Coming(r, start) \in Nat
<1>1. r.people \in {0} \cup Parties
  BY DEF Request
<1>2. CASE r.people = 0
  BY <1>2 DEF Coming
<1>3. CASE r.people \in Parties
  BY <1>3, PeopleAre DEF Coming
<1> QED
  BY <1>1, <1>2, <1>3

LEMMA SeatedAre ==
  ASSUME NEW made \in Entities, NEW start
  PROVE  \A k \in Keys : /\ SeatedAt(made, k, start) \in Nat
                         /\ Seated(made, start)[k] = SeatedAt(made, k, start)
  BY EntitiesAre, GuestsAre DEF SeatedAt, Seated

LEMMA AskingAre ==
  ASSUME NEW asked \in [Requests -> Request], NEW start
  PROVE  \A q \in Requests : /\ Coming(asked[q], start) \in Nat
                             /\ Asking(asked, start)[q] = Coming(asked[q], start)
  BY ComingAre DEF Asking

LEMMA LoadIs ==
  ASSUME NEW made \in Entities, NEW asked \in [Requests -> Request], NEW start
  PROVE  /\ Sum(Seated(made, start), Keys) \in Nat
         /\ Sum(Asking(asked, start), Requests) \in Nat
<1>1. IsFiniteSet(Keys) /\ IsFiniteSet(Requests)
  BY ReservationsAssumption
<1>2. /\ \A k \in Keys : Seated(made, start)[k] \in Nat
      /\ \A q \in Requests : Asking(asked, start)[q] \in Nat
  BY SeatedAre, AskingAre
<1> QED
  BY <1>1, <1>2, SumNat

(* The guests that were let in are those who are seated.                   *)
LEMMA LetInAreSeated ==
  ASSUME IInv, NEW start
  PROVE  PeopleLetIn(start) = Sum(Seated(reservation, start), Keys)
<1> DEFINE K == {k \in Made : /\ Live(k) /\ "unchecked" \notin reservation[k].history
                              /\ reservation[k].shift_start = start}
           people == [k \in K |-> reservation[k].people]
<1>1. IsFiniteSet(Keys) /\ K \subseteq Keys
  BY MadeFits, ReservationsAssumption
<1>2. \A k \in K : people[k] \in Int /\ Seated(reservation, start)[k] = people[k]
  BY <1>1, MadeFits, SeatedAre, PeopleAre
  DEF IInv, TypeOK, SeatedAt, Guests, LetIn, Live, Made, Reservation
<1>3. \A k \in Keys \ K : Seated(reservation, start)[k] = 0
  BY SeatedAre DEF IInv, TypeOK, SeatedAt, Guests, LetIn, Live, Made
<1>4. PeopleLetIn(start) = Sum(people, K)
  BY DEF PeopleLetIn, SumOfPeople, Sum
<1> HIDE DEF people, K
<1> QED
  BY <1>1, <1>2, <1>3, <1>4, SumOver

(* Whoever looks for a place sees at least them.                           *)
LEMMA LetInAreReserved ==
  ASSUME IInv, NEW start
  PROVE  AlreadyReserved(start) \in Nat /\ Sum(Seated(reservation, start), Keys) <= AlreadyReserved(start)
<1> DEFINE K == {k \in Made : Live(k) /\ reservation[k].shift_start = start}
           L == {k \in Made : /\ Live(k) /\ "unchecked" \notin reservation[k].history
                              /\ reservation[k].shift_start = start}
           reserved == [k \in K |-> reservation[k].people]
           people == [k \in L |-> reservation[k].people]
<1>1. IsFiniteSet(K) /\ L \subseteq K
  <2>1. K \subseteq Keys
    BY MadeFits
  <2> QED
    BY <2>1, ReservationsAssumption, FS_Subset
<1>2. /\ \A k \in K : reserved[k] \in Nat
      /\ \A k \in L : people[k] = reserved[k]
  BY MadeFits, PeopleAre DEF Reservation
<1>3. /\ AlreadyReserved(start) = Sum(reserved, K)
      /\ PeopleLetIn(start) = Sum(people, L)
  BY DEF AlreadyReserved, PeopleLetIn, SumOfPeople, Sum
<1> HIDE DEF K, L, reserved, people
<1>4. IsFiniteSet(L)
  BY <1>1, FS_Subset
<1>5. Sum(people, L) = Sum(reserved, L)
  BY <1>2, <1>4, SumSame
<1>6. Sum(reserved, L) <= Sum(reserved, K) /\ Sum(reserved, K) \in Nat
  BY <1>1, <1>2, SumMonotone, SumNat
<1> QED
  BY <1>3, <1>5, <1>6, LetInAreSeated

-----------------------------------------------------------------------------
(* Steps, and what they do to the load.                                    *)

(* One entity is written, or one request answered or made.                 *)

LEMMA SeatedChanges ==
  ASSUME NEW old \in Entities, NEW new \in Entities, NEW k \in Keys, NEW start,
         \A l \in Keys \ {k} : SeatedAt(new, l, start) = SeatedAt(old, l, start)
  PROVE  Sum(Seated(new, start), Keys) =
           Sum(Seated(old, start), Keys) - SeatedAt(old, k, start) + SeatedAt(new, k, start)
<1> DEFINE s == Seated(old, start)
           t == Seated(new, start)
<1>1. IsFiniteSet(Keys)
  BY ReservationsAssumption
<1>2. \A l \in Keys : s[l] \in Nat /\ s[l] = SeatedAt(old, l, start)
  BY SeatedAre
<1>3. \A l \in Keys : t[l] \in Nat /\ t[l] = SeatedAt(new, l, start)
  BY SeatedAre
<1> HIDE DEF s, t
<1>4. Sum(t, Keys) = Sum(s, Keys) - s[k] + t[k]
  BY <1>1, <1>2, <1>3, SumChange
<1> QED
  BY <1>2, <1>3, <1>4 DEF s, t

LEMMA AskingChanges ==
  ASSUME NEW before \in [Requests -> Request], NEW after \in [Requests -> Request],
         NEW q \in Requests, NEW start, \A p \in Requests \ {q} : after[p] = before[p]
  PROVE  Sum(Asking(after, start), Requests) =
           Sum(Asking(before, start), Requests)
             - Coming(before[q], start) + Coming(after[q], start)
<1> DEFINE a == Asking(before, start)
           b == Asking(after, start)
<1>1. IsFiniteSet(Requests)
  BY ReservationsAssumption
<1>2. \A p \in Requests : a[p] \in Nat /\ a[p] = Coming(before[p], start)
  BY AskingAre
<1>3. \A p \in Requests : b[p] \in Nat /\ b[p] = Coming(after[p], start)
  BY AskingAre
<1> HIDE DEF a, b
<1>4. Sum(b, Requests) = Sum(a, Requests) - a[q] + b[q]
  BY <1>1, <1>2, <1>3, SumChange
<1> QED
  BY <1>2, <1>3, <1>4 DEF a, b

Bounded(load, start) == load = 0 \/ load <= Most(start)

LEMMA LessIsBounded ==
  ASSUME NEW start \in Starts, NEW m \in Nat, NEW n \in Nat, n <= m, Bounded(m, start)
  PROVE  Bounded(n, start)
<1>1. Most(start) \in Int
  <2>1. Cardinality(Requests) \in Nat
    BY ReservationsAssumption, FS_CardinalityType
  <2> QED
    BY <2>1, BoundsAre DEF Most
<1> QED
  BY <1>1 DEF Bounded

(* A request that asks for no more keeps the groups fitting.               *)
LEMMA GroupsStillFit ==
  ASSUME IInv, GroupsFit, request' \in [Requests -> Request], NEW q \in Requests,
         \A p \in Requests \ {q} : request'[p] = request[p],
         \A start \in Starts : Coming(request'[q], start) <= Coming(request[q], start)
  PROVE  GroupsFit'
<1> SUFFICES ASSUME NEW p \in Requests, NEW start \in Starts
             PROVE  Coming(request'[p], start) <= LargestGroup(start)
  BY DEF GroupsFit, Starts, Shifts, LargestGroup, ShiftsStarting
<1>1. Coming(request[p], start) <= LargestGroup(start)
  BY DEF GroupsFit
<1>2. /\ Coming(request[p], start) \in Nat /\ Coming(request'[p], start) \in Nat
      /\ LargestGroup(start) \in Nat
  BY AskingAre, BoundsAre DEF IInv, TypeOK
<1>3. Coming(request'[p], start) <= Coming(request[p], start)
  BY <1>2
<1> QED
  BY <1>1, <1>2, <1>3

(* What is written for k takes no more than what was there, and what q has *)
(* asked for.                                                              *)
LEMMA WriteFalls ==
  ASSUME LInv, reservation' \in Entities, request' \in [Requests -> Request],
         NEW k \in Keys, NEW q \in Requests,
         \A start \in Starts : \A l \in Keys \ {k} :
            SeatedAt(reservation', l, start) = SeatedAt(reservation, l, start),
         \A p \in Requests \ {q} : request'[p] = request[p],
         \A start \in Starts :
            /\ Coming(request'[q], start) <= Coming(request[q], start)
            /\ SeatedAt(reservation', k, start) + Coming(request'[q], start)
                 <= SeatedAt(reservation, k, start) + Coming(request[q], start)
  PROVE  LoadIsBounded' /\ GroupsFit'
<1>1. reservation \in Entities /\ request \in [Requests -> Request] /\ IInv /\ GroupsFit
  BY DEF LInv, IInv, TypeOK
<1>2. ASSUME NEW start \in Starts PROVE Bounded(LoadOf(reservation', request', start), start)
  <2> DEFINE ss == Sum(Seated(reservation, start), Keys)
             tt == Sum(Seated(reservation', start), Keys)
             aa == Sum(Asking(request, start), Requests)
             bb == Sum(Asking(request', start), Requests)
             s == SeatedAt(reservation, k, start)
             t == SeatedAt(reservation', k, start)
             a == Coming(request[q], start)
             b == Coming(request'[q], start)
  <2>1. tt = ss - s + t
    BY <1>1, SeatedChanges
  <2>2. bb = aa - a + b
    BY <1>1, AskingChanges
  <2>3. ss \in Nat /\ tt \in Nat /\ aa \in Nat /\ bb \in Nat
    BY <1>1, LoadIs
  <2>4. s \in Nat /\ t \in Nat /\ a \in Nat /\ b \in Nat
    BY <1>1, SeatedAre, AskingAre
  <2>5. t + b <= s + a
    OBVIOUS
  <2>6. Bounded(ss + aa, start)
    BY DEF LInv, LoadIsBounded, Bounded, Load, LoadOf
  <2> HIDE DEF ss, tt, aa, bb, s, t, a, b
  <2>7. tt + bb <= ss + aa /\ tt + bb \in Nat /\ ss + aa \in Nat
    BY <2>1, <2>2, <2>3, <2>4, <2>5
  <2>8. Bounded(tt + bb, start)
    BY <2>6, <2>7, LessIsBounded
  <2> QED
    BY <2>8 DEF LoadOf, tt, bb
<1>3. LoadIsBounded'
  BY <1>2 DEF LoadIsBounded, Load, Bounded, Most, Starts, HighestLimit, LargestGroup,
              ShiftsStarting, Shifts
<1> QED
  BY <1>1, <1>3, GroupsStillFit

(* Nothing is written.  What q now asks for is no more, or it was seen to  *)
(* fit a shift with fewer guests than its limit.                           *)
LEMMA AskBounds ==
  ASSUME LInv, UNCHANGED reservation, request' \in [Requests -> Request], NEW q \in Requests,
         \A p \in Requests \ {q} : request'[p] = request[p],
         \A start \in Starts :
           \/ Coming(request'[q], start) <= Coming(request[q], start)
           \/ \E shift \in ShiftsStarting(start) :
                /\ Coming(request'[q], start) <= shift.max_group_size
                /\ AlreadyReserved(start) < shift.limit
  PROVE  LoadIsBounded' /\ GroupsFit'
<1>1. reservation \in Entities /\ request \in [Requests -> Request] /\ IInv
  BY DEF LInv, IInv, TypeOK
<1>2. ASSUME NEW start \in Starts, NEW p \in Requests
      PROVE  Coming(request'[p], start) <= LargestGroup(start)
  <2>1. Coming(request[p], start) <= LargestGroup(start)
    BY DEF LInv, GroupsFit
  <2>2. /\ Coming(request[p], start) \in Nat /\ Coming(request'[p], start) \in Nat
        /\ LargestGroup(start) \in Nat
    BY <1>1, AskingAre, BoundsAre
  <2>3. CASE p = q
    <3>1. CASE Coming(request'[q], start) <= Coming(request[q], start)
      BY <2>1, <2>2, <2>3, <3>1
    <3>2. CASE \E shift \in ShiftsStarting(start) :
                  Coming(request'[q], start) <= shift.max_group_size
      <4>1. PICK shift \in ShiftsStarting(start) :
              Coming(request'[q], start) <= shift.max_group_size
        BY <3>2
      <4>2. shift.max_group_size <= LargestGroup(start)
        BY BoundsAre
      <4>3. shift.max_group_size \in Nat
        BY ShiftsAreFinite DEF ShiftsStarting, Shift
      <4> QED
        BY <2>2, <2>3, <4>1, <4>2, <4>3
    <3> QED
      BY <3>1, <3>2
  <2>4. CASE p # q
    BY <2>1, <2>4
  <2> QED
    BY <2>3, <2>4
<1>3. GroupsFit'
  BY <1>2 DEF GroupsFit, Starts, Shifts, LargestGroup, ShiftsStarting
<1>4. ASSUME NEW start \in Starts PROVE Bounded(LoadOf(reservation, request', start), start)
  <2> DEFINE ss == Sum(Seated(reservation, start), Keys)
             aa == Sum(Asking(request, start), Requests)
             bb == Sum(Asking(request', start), Requests)
             a == Coming(request[q], start)
             b == Coming(request'[q], start)
  <2>1. ss \in Nat /\ aa \in Nat /\ bb \in Nat
    BY <1>1, LoadIs
  <2>2. CASE b <= a
    <3>1. bb = aa - a + b
      BY <1>1, AskingChanges
    <3>2. a \in Nat /\ b \in Nat
      BY <1>1, AskingAre
    <3>3. Bounded(ss + aa, start)
      BY DEF LInv, LoadIsBounded, Bounded, Load, LoadOf
    <3> HIDE DEF ss, aa, bb, a, b
    <3>4. ss + bb <= ss + aa /\ ss + bb \in Nat /\ ss + aa \in Nat
      BY <2>1, <2>2, <3>1, <3>2
    <3>5. Bounded(ss + bb, start)
      BY <3>3, <3>4, LessIsBounded
    <3> QED
      BY <3>5 DEF LoadOf, ss, bb
  <2>3. CASE \E shift \in ShiftsStarting(start) : AlreadyReserved(start) < shift.limit
    <3> DEFINE n == Cardinality(Requests)
               g == LargestGroup(start)
               w == Asking(request', start)
    <3>1. PICK shift \in ShiftsStarting(start) : AlreadyReserved(start) < shift.limit
      BY <2>3
    <3>2. shift.limit <= HighestLimit(start) /\ HighestLimit(start) \in Nat /\ g \in Nat
      BY BoundsAre
    <3>3. shift.limit \in Nat
      BY ShiftsAreFinite DEF ShiftsStarting, Shift
    <3>4. AlreadyReserved(start) \in Nat /\ ss <= AlreadyReserved(start)
      BY <1>1, LetInAreReserved
    <3>5. ss <= HighestLimit(start) - 1
      <4> HIDE DEF ss
      <4> QED
        BY <2>1, <3>1, <3>2, <3>3, <3>4
    <3>6. IsFiniteSet(Requests) /\ n \in Nat
      BY ReservationsAssumption, FS_CardinalityType
    <3>7. \A p \in Requests : w[p] \in Nat /\ w[p] <= g
      BY <1>1, <1>2, AskingAre
    <3> HIDE DEF g, w
    <3>8. Sum(w, Requests) <= g * n
      BY <3>2, <3>6, <3>7, SumBound
    <3>9. bb <= n * g
      <4>1. n * g = g * n
        BY <3>2, <3>6
      <4> QED
        BY <3>8, <4>1 DEF w
    <3>10. n * g \in Nat
      BY <3>2, <3>6
    <3> DEFINE ng == n * g
    <3> HIDE DEF ss, bb, ng
    <3>11. ss + bb <= HighestLimit(start) - 1 + ng
      BY <2>1, <3>2, <3>5, <3>9, <3>10 DEF ng
    <3> QED
      BY <3>11 DEF Bounded, LoadOf, Most, ss, bb, ng, g
  <2> QED
    BY <2>2, <2>3
<1>5. LoadIsBounded'
  BY <1>4 DEF LoadIsBounded, Load, Bounded, Most, Starts, HighestLimit, LargestGroup,
              ShiftsStarting, Shifts
<1> QED
  BY <1>3, <1>5

LEMMA SameIsBounded ==
  ASSUME LInv, UNCHANGED <<reservation, request>>
  PROVE  LoadIsBounded' /\ GroupsFit'
  BY DEF LInv, LoadIsBounded, GroupsFit, Load, Most, Starts, HighestLimit, LargestGroup,
         ShiftsStarting, Shifts

-----------------------------------------------------------------------------
(* What each step does to the load.                                        *)

LEMMA AskChanges ==
  ASSUME IInv, IInv', NEW q \in Requests, NEW r, Ask(q, r)
  PROVE  /\ request' \in [Requests -> Request] /\ UNCHANGED reservation
         /\ request'[q] = r /\ \A p \in Requests \ {q} : request'[p] = request[p]
         /\ \A start : Coming(request[q], start) = 0
  BY DEF IInv, TypeOK, Ask, Coming

(* A place that is found is in a shift with fewer guests than its limit.   *)
LEMMA PlaceIsSeen ==
  ASSUME IInv, NEW op, NEW keys, NEW date, NEW people, NEW force \in BOOLEAN,
         NEW shift \in AvailableShifts(date, people, force), NEW start \in Starts
  PROVE  \/ Coming(Asked(op, keys, date, people, shift, force), start) = 0
         \/ /\ shift \in ShiftsStarting(start)
            /\ Coming(Asked(op, keys, date, people, shift, force), start)
                 <= shift.max_group_size
            /\ AlreadyReserved(start) < shift.limit
<1> DEFINE r == Asked(op, keys, date, people, shift, force)
<1>1. r.history = Unchecked(force) /\ r.shift_start = shift.start /\ r.people = people
  BY DEF Asked, StartOf
<1> HIDE DEF r
<1>2. CASE force \/ shift.start # start
  BY <1>1, <1>2 DEF Coming, Unchecked, r
<1>3. CASE ~force /\ shift.start = start
  <2>1. shift \in ToSet(settings) /\ HasTables(shift, people)
    BY <1>3 DEF AvailableShifts, MatchingShifts
  <2>2. shift \in Shifts
    BY <2>1 DEF Shifts, IInv, TypeOK
  <2>3. Coming(r, start) \in {0, people}
    BY <1>1 DEF Coming
  <2> QED
    BY <1>3, <2>1, <2>2, <2>3 DEF HasTables, ShiftsStarting, r
<1> QED
  BY <1>2, <1>3

LEMMA AsksAreBounded ==
  ASSUME LInv, IInv', NEW q \in Requests,
         \/ AskTable(q) \/ AskDeleteTable(q)
         \/ \E k \in Made : AskEdit(q, k) \/ AskMove(q, k)
  PROVE  LoadIsBounded' /\ GroupsFit'
<1>0. IInv
  BY DEF LInv
<1>1. ASSUME NEW op, NEW keys, NEW date \in Dates, NEW people \in Parties,
             NEW force \in BOOLEAN, NEW shift \in AvailableShifts(date, people, force),
             Ask(q, Asked(op, keys, date, people, shift, force))
      PROVE  LoadIsBounded' /\ GroupsFit'
  <2> DEFINE r == Asked(op, keys, date, people, shift, force)
  <2>1. \A start \in Starts :
          \/ Coming(r, start) = 0
          \/ /\ shift \in ShiftsStarting(start)
             /\ Coming(r, start) <= shift.max_group_size
             /\ AlreadyReserved(start) < shift.limit
    BY <1>0, PlaceIsSeen
  <2>2. Ask(q, r)
    BY <1>1
  <2> HIDE DEF r
  <2>3. /\ request' \in [Requests -> Request] /\ UNCHANGED reservation
        /\ request'[q] = r /\ \A p \in Requests \ {q} : request'[p] = request[p]
        /\ \A start : Coming(request[q], start) = 0
    BY <1>0, <2>2, AskChanges
  <2>4. \A start \in Starts :
          \/ Coming(request'[q], start) <= Coming(request[q], start)
          \/ \E s \in ShiftsStarting(start) :
               /\ Coming(request'[q], start) <= s.max_group_size
               /\ AlreadyReserved(start) < s.limit
    BY <2>1, <2>3
  <2> QED
    BY <2>3, <2>4, AskBounds
<1>2. ASSUME NEW r, r.op \in {"move", "delete_table"}, Ask(q, r)
      PROVE  LoadIsBounded' /\ GroupsFit'
  <2>1. /\ request' \in [Requests -> Request] /\ UNCHANGED reservation
        /\ request'[q] = r /\ \A p \in Requests \ {q} : request'[p] = request[p]
        /\ \A start : Coming(request[q], start) = 0
    BY <1>0, <1>2, AskChanges
  <2>2. \A start \in Starts : Coming(request'[q], start) <= Coming(request[q], start)
    BY <1>2, <2>1 DEF Coming
  <2> QED
    BY <2>1, <2>2, AskBounds
<1>3. CASE AskTable(q)
  <2>1. PICK date \in Dates, people \in Parties, force \in BOOLEAN :
          \E shift \in AvailableShifts(date, people, force) :
            Ask(q, Asked("reserve", {}, date, people, shift, force))
    BY <1>3 DEF AskTable
  <2> QED
    BY <1>1, <2>1
<1>4. ASSUME NEW k \in Made, AskEdit(q, k) PROVE LoadIsBounded' /\ GroupsFit'
  <2>1. PICK date \in Dates, people \in Parties, force \in BOOLEAN :
          \E shift \in AvailableShifts(date, people, force) :
            Ask(q, Asked("edit", {k}, date, people, shift, force))
    BY <1>4 DEF AskEdit
  <2> QED
    BY <1>1, <2>1
<1>5. ASSUME NEW k \in Made, AskMove(q, k) PROVE LoadIsBounded' /\ GroupsFit'
  <2> DEFINE r(shift) == [Idle EXCEPT !.op = "move", !.keys = {k}, !.shift_start = shift.start]
  <2>1. PICK shift \in ToSet(settings) : Ask(q, r(shift))
    BY <1>5 DEF AskMove
  <2>2. r(shift).op = "move"
    BY DEF Idle
  <2> HIDE DEF r
  <2> QED
    BY <1>2, <2>1, <2>2
<1>6. CASE AskDeleteTable(q)
  <2> DEFINE K(table) == {k \in Made : table \in reservation[k].tables}
             r(table) == [Idle EXCEPT !.op = "delete_table", !.keys = K(table),
                            !.tables = {table}, !.seen = [k \in K(table) |-> reservation[k]]]
  <2>1. PICK table \in Tables \ deleted : Ask(q, r(table))
    BY <1>6 DEF AskDeleteTable
  <2>2. r(table).op = "delete_table"
    BY DEF Idle
  <2> HIDE DEF r
  <2> QED
    BY <1>2, <2>1, <2>2
<1> QED
  BY <1>3, <1>4, <1>5, <1>6

(* One entity is written.                                                  *)
LEMMA WithSeats ==
  ASSUME NEW k \in Keys, NEW entity, reservation' = With(k, entity)
  PROVE  \A start :
           /\ SeatedAt(reservation', k, start) = Guests(entity, start)
           /\ \A l \in Keys \ {k} : SeatedAt(reservation', l, start) = SeatedAt(reservation, l, start)
  BY DEF With, SeatedAt, Made

(* No request is needed for it: it takes no more than what was there.      *)
LEMMA PutIsBounded ==
  ASSUME LInv, IInv', NEW k \in Made, NEW entity,
         reservation' = With(k, entity), UNCHANGED request,
         \A start \in Starts : Guests(entity, start) <= Guests(reservation[k], start)
  PROVE  LoadIsBounded' /\ GroupsFit'
<1>1. IInv /\ k \in Keys /\ reservation[k] \in Reservation
  BY MadeFits DEF LInv
<1>2. /\ reservation \in Entities /\ reservation' \in Entities
      /\ request \in [Requests -> Request] /\ request' \in [Requests -> Request]
  BY <1>1 DEF IInv, TypeOK
<1>3. PICK q \in Requests : TRUE
  BY ReservationsAssumption
<1>4. ASSUME NEW start \in Starts
      PROVE  /\ \A l \in Keys \ {k} :
                  SeatedAt(reservation', l, start) = SeatedAt(reservation, l, start)
             /\ SeatedAt(reservation', k, start) <= SeatedAt(reservation, k, start)
             /\ SeatedAt(reservation', k, start) \in Nat /\ SeatedAt(reservation, k, start) \in Nat
             /\ Coming(request[q], start) \in Nat
  <2>1. SeatedAt(reservation, k, start) = Guests(reservation[k], start)
    BY DEF SeatedAt, Made
  <2>2. SeatedAt(reservation', k, start) <= SeatedAt(reservation, k, start)
    BY <1>1, <2>1, WithSeats
  <2>3. \A l \in Keys \ {k} : SeatedAt(reservation', l, start) = SeatedAt(reservation, l, start)
    BY <1>1, WithSeats
  <2>4. SeatedAt(reservation', k, start) \in Nat /\ SeatedAt(reservation, k, start) \in Nat
    BY <1>1, <1>2, SeatedAre
  <2>5. Coming(request[q], start) \in Nat
    BY <1>2, <1>3, AskingAre
  <2> QED
    BY <2>2, <2>3, <2>4, <2>5
<1>5. \A start \in Starts :
        /\ Coming(request'[q], start) <= Coming(request[q], start)
        /\ SeatedAt(reservation', k, start) + Coming(request'[q], start)
             <= SeatedAt(reservation, k, start) + Coming(request[q], start)
  BY <1>4
<1>6. \A p \in Requests \ {q} : request'[p] = request[p]
  OBVIOUS
<1> QED
  BY <1>1, <1>2, <1>3, <1>4, <1>5, <1>6, WriteFalls

(* Edits of the number of people, cancellations, tables: more people are   *)
(* let in only without a check.                                            *)
LEMMA PutsAreBounded ==
  ASSUME LInv, IInv', NEW k \in Made,
         \/ EditUnchecked(k) \/ cancel_reservation(k)
         \/ toggle_reservation_cancelled(k) \/ edit_reservation_tables(k)
  PROVE  LoadIsBounded' /\ GroupsFit'
<1> DEFINE old == reservation[k]
<1>1. old \in Reservation
  BY MadeFits DEF LInv
<1>2. ASSUME NEW entity, Put(k, entity),
             \A start : Guests(entity, start) <= Guests(old, start)
      PROVE  LoadIsBounded' /\ GroupsFit'
  BY <1>2, PutIsBounded DEF Put
<1> HIDE DEF old
<1>3. CASE EditUnchecked(k)
  <2> DEFINE new(people) == [old EXCEPT !.people = people,
                               !.history = @ \cup Unchecked(people > old.people)]
  <2>1. PICK people \in Parties, force \in BOOLEAN : Put(k, new(people))
    BY <1>3 DEF EditUnchecked, old
  <2>2. people \in Nat /\ old.people \in Nat
    BY <1>1, PeopleAre DEF Reservation
  <2>3. /\ new(people).people = people /\ new(people).status = old.status
        /\ new(people).shift_start = old.shift_start
        /\ new(people).history = old.history \cup Unchecked(people > old.people)
    BY <1>1 DEF Reservation
  <2> HIDE DEF new
  <2>4. \A start : Guests(new(people), start) <= Guests(old, start)
    BY <2>2, <2>3 DEF Guests, LetIn, Unchecked
  <2> QED
    BY <1>2, <2>1, <2>4
<1>4. CASE cancel_reservation(k)
  <2> DEFINE new == [old EXCEPT !.status = (@ \cup {"canceled"}) \ {"shift_removed"}]
  <2>1. Put(k, new)
    BY <1>4 DEF cancel_reservation, old
  <2>2. \A start : Guests(new, start) = 0
    BY <1>1 DEF Guests, LetIn, Reservation
  <2> HIDE DEF new
  <2>3. \A start : Guests(new, start) <= Guests(old, start)
    BY <1>1, <2>2, GuestsAre
  <2> QED
    BY <1>2, <2>1, <2>3
<1>5. CASE toggle_reservation_cancelled(k)
  <2> DEFINE off == [old EXCEPT !.status = @ \cup {"canceled"}]
             on == [old EXCEPT !.status = @ \ {"canceled"}, !.history = @ \cup {"unchecked"}]
  <2>1. Put(k, off) \/ Put(k, on)
    BY <1>5 DEF toggle_reservation_cancelled, old
  <2>2. \A start : Guests(off, start) = 0 /\ Guests(on, start) = 0
    BY <1>1 DEF Guests, LetIn, Reservation
  <2> HIDE DEF off, on
  <2>3. \A start : /\ Guests(off, start) <= Guests(old, start)
                   /\ Guests(on, start) <= Guests(old, start)
    BY <1>1, <2>2, GuestsAre
  <2> QED
    BY <1>2, <2>1, <2>3
<1>6. CASE edit_reservation_tables(k)
  <2> DEFINE new(tables) == [old EXCEPT !.tables = tables]
  <2>1. PICK tables \in SUBSET Tables : Put(k, new(tables))
    BY <1>6 DEF edit_reservation_tables, old
  <2>2. \A start : Guests(new(tables), start) = Guests(old, start)
    BY <1>1 DEF Guests, LetIn, Reservation
  <2> HIDE DEF new
  <2>3. \A start : Guests(new(tables), start) <= Guests(old, start)
    BY <1>1, <2>2, GuestsAre
  <2> QED
    BY <1>2, <2>1, <2>3
<1> QED
  BY <1>3, <1>4, <1>5, <1>6

(* A check leaves a reservation in its shift, or has not looked whether    *)
(* there is a place in the other one.                                      *)
LEMMA CheckedSeats ==
  ASSUME NEW entity \in Reservation, NEW shifts, NEW start
  PROVE  Guests(Checked(entity, shifts), start) <= Guests(entity, start)
<1> DEFINE covering == {i \in DOMAIN shifts : Covers(shifts[i], entity.shift_start)}
           first == shifts[CHOOSE i \in covering : \A j \in covering : i <= j].start
           history == IF first = entity.shift_start THEN entity.history
                      ELSE entity.history \cup {"unchecked"}
           new == [entity EXCEPT !.status = @ \ {"shift_removed"}, !.shift_start = first,
                                 !.history = history]
           broken == [entity EXCEPT !.status = @ \cup {"shift_removed"}]
<1>1. Checked(entity, shifts) \in {entity, broken, new}
  BY DEF Checked
<1>2. Guests(entity, start) \in Nat
  BY GuestsAre
<1>3. Guests(broken, start) = Guests(entity, start)
  BY DEF Guests, LetIn, Reservation
<1>4. Guests(new, start) \in {0, Guests(entity, start)}
  <2> HIDE DEF first
  <2>1. (history = entity.history /\ first = entity.shift_start) \/ "unchecked" \in history
    OBVIOUS
  <2> HIDE DEF history
  <2>2. /\ new.status = entity.status \ {"shift_removed"} /\ new.shift_start = first
        /\ new.history = history /\ new.people = entity.people
    BY DEF Reservation
  <2> HIDE DEF new
  <2> QED
    BY <2>1, <2>2 DEF Guests, LetIn
<1> HIDE DEF new, broken
<1> QED
  BY <1>1, <1>2, <1>3, <1>4

LEMMA ChecksAreBounded ==
  ASSUME LInv, IInv', NEW task \in checks, _check_reservation(task)
  PROVE  LoadIsBounded' /\ GroupsFit'
<1>1. task.key \in Made /\ reservation[task.key] \in Reservation
  BY MadeFits DEF LInv, IInv, ChecksAreMade
<1>2. /\ reservation' = With(task.key, Checked(reservation[task.key], task.shifts))
      /\ UNCHANGED request
  BY DEF _check_reservation
<1>3. \A start : Guests(Checked(reservation[task.key], task.shifts), start)
                   <= Guests(reservation[task.key], start)
  BY <1>1, CheckedSeats
<1> QED
  BY <1>1, <1>2, <1>3, PutIsBounded

(* A request writes what it asked for, and asks for no more.               *)
LEMMA AnswerIsBounded ==
  ASSUME LInv, IInv', NEW q \in Requests, NEW k \in Keys, NEW entity,
         reservation' = With(k, entity), request'[q].op \notin {"reserve", "edit"},
         \A p \in Requests \ {q} : request'[p] = request[p],
         \A start \in Starts : Guests(entity, start) \in {0, Coming(request[q], start)}
  PROVE  LoadIsBounded' /\ GroupsFit'
<1>1. /\ reservation \in Entities /\ reservation' \in Entities
      /\ request \in [Requests -> Request] /\ request' \in [Requests -> Request]
  BY DEF LInv, IInv, TypeOK
<1>2. \A start : Coming(request'[q], start) = 0
  BY DEF Coming
<1>3. \A start \in Starts :
        /\ Coming(request[q], start) \in Nat /\ SeatedAt(reservation, k, start) \in Nat
        /\ SeatedAt(reservation', k, start) = Guests(entity, start)
        /\ \A l \in Keys \ {k} : SeatedAt(reservation', l, start) = SeatedAt(reservation, l, start)
  BY <1>1, SeatedAre, AskingAre, WithSeats
<1>4. \A start \in Starts :
        /\ Coming(request'[q], start) <= Coming(request[q], start)
        /\ SeatedAt(reservation', k, start) + Coming(request'[q], start)
             <= SeatedAt(reservation, k, start) + Coming(request[q], start)
  BY <1>2, <1>3
<1> QED
  BY <1>1, <1>3, <1>4, WriteFalls

LEMMA AnswerChanges ==
  ASSUME IInv, NEW q \in Requests, Answer(q)
  PROVE  /\ request'[q].op \notin {"reserve", "edit"}
         /\ \A p \in Requests \ {q} : request'[p] = request[p]
  BY DEF Answer, Idle, IInv, TypeOK

LEMMA RequestsAreBounded ==
  ASSUME LInv, IInv', NEW q \in Requests,
         \/ reserve_table(q) \/ edit_reservation(q) \/ move_reservation(q)
         \/ clear_table_id_in_reservations(q) \/ delete_table(q) \/ Fail(q)
  PROVE  LoadIsBounded' /\ GroupsFit'
<1> DEFINE r == request[q]
           old(k) == reservation[k]
<1>1. IInv /\ r \in Request /\ r.keys \subseteq Keys /\ r.keys \subseteq Made
  BY RequestsAre DEF LInv
<1>2. \A k \in r.keys : old(k) \in Reservation
  BY <1>1, MadeFits
<1>3. CASE reserve_table(q)
  <2> DEFINE new == [status |-> {}, date |-> r.date, people |-> r.people,
                     shift_start |-> r.shift_start, tables |-> {}, history |-> r.history]
  <2>1. PICK k \in Keys \ Made : reservation' = With(k, new)
    BY <1>3 DEF reserve_table
  <2>2. r.op = "reserve" /\ Answer(q)
    BY <1>3 DEF reserve_table
  <2>3. \A start \in Starts : Guests(new, start) \in {0, Coming(r, start)}
    BY <2>2 DEF Guests, LetIn, Coming
  <2> HIDE DEF new
  <2> QED
    BY <1>1, <2>1, <2>2, <2>3, AnswerChanges, AnswerIsBounded
<1>4. CASE edit_reservation(q)
  <2> DEFINE new(k) == [old(k) EXCEPT !.people = r.people, !.date = r.date,
               !.shift_start = NewShift(old(k), r), !.history = NewHistory(old(k), r)]
  <2>1. PICK k \in r.keys : reservation' = With(k, new(k))
    BY <1>4 DEF edit_reservation
  <2>2. r.op = "edit" /\ Answer(q)
    BY <1>4 DEF edit_reservation
  <2> HIDE DEF r, old
  <2>3. /\ new(k).people = r.people /\ new(k).shift_start = NewShift(old(k), r)
        /\ new(k).history = NewHistory(old(k), r)
    BY <1>2, <2>1 DEF Reservation
  <2>4. "unchecked" \notin NewHistory(old(k), r) =>
           "unchecked" \notin r.history /\ NewShift(old(k), r) = r.shift_start
    BY DEF NewHistory, Unchecked
  <2> HIDE DEF new
  <2>5. \A start \in Starts : Guests(new(k), start) \in {0, Coming(r, start)}
    BY <2>2, <2>3, <2>4 DEF Guests, LetIn, Coming
  <2>6. k \in Keys
    BY <1>1, <2>1
  <2> QED
    BY <1>1, <2>1, <2>2, <2>5, <2>6, AnswerChanges, AnswerIsBounded DEF r
<1>5. CASE move_reservation(q)
  <2> DEFINE new(k) == [old(k) EXCEPT !.shift_start = r.shift_start,
               !.status = @ \ {"shift_removed"}, !.history = @ \cup {"moved", "unchecked"}]
  <2>1. PICK k \in r.keys : reservation' = With(k, new(k))
    BY <1>5 DEF move_reservation
  <2>2. Answer(q)
    BY <1>5 DEF move_reservation
  <2> HIDE DEF r, old
  <2>3. \A start \in Starts : Guests(new(k), start) = 0
    BY <1>2, <2>1 DEF Guests, LetIn, Reservation
  <2> HIDE DEF new
  <2>4. k \in Keys
    BY <1>1, <2>1
  <2> QED
    BY <1>1, <2>1, <2>2, <2>3, <2>4, AnswerChanges, AnswerIsBounded
<1>6. CASE clear_table_id_in_reservations(q)
  <2> DEFINE new(k) == [r.seen[k] EXCEPT !.tables = @ \ r.tables, !.history = @ \cup {"unchecked"}]
  <2>1. PICK k \in r.keys :
          /\ reservation' = With(k, new(k))
          /\ request' = [request EXCEPT ![q].keys = @ \ {k},
                                       ![q].seen = [l \in r.keys \ {k} |-> r.seen[l]]]
    BY <1>6 DEF clear_table_id_in_reservations
  <2>2. r.op = "delete_table"
    BY <1>6 DEF clear_table_id_in_reservations
  <2>3. request \in [Requests -> Request]
    BY <1>1 DEF IInv, TypeOK
  <2>4. request'[q].op = r.op /\ \A p \in Requests \ {q} : request'[p] = request[p]
    BY <1>1, <2>1, <2>3 DEF Request
  <2>5. r.seen[k] \in Reservation
    <3>1. RequestFits(r) /\ r.seen \in Entities
      BY <1>1, RequestsAre DEF Request
    <3> HIDE DEF r
    <3> QED
      BY <2>1, <2>2, <3>1, EntitiesAre DEF RequestFits
  <2> HIDE DEF r
  <2>6. \A start \in Starts : Guests(new(k), start) = 0
    BY <2>5 DEF Guests, LetIn, Reservation
  <2> HIDE DEF new
  <2>7. k \in Keys
    BY <1>1, <2>1
  <2> QED
    BY <2>1, <2>2, <2>4, <2>6, <2>7, AnswerIsBounded
<1>7. CASE delete_table(q) \/ Fail(q)
  <2>1. reservation' = reservation /\ Answer(q)
    BY <1>7 DEF delete_table, Fail
  <2>2. request \in [Requests -> Request] /\ request' \in [Requests -> Request]
    BY DEF LInv, IInv, TypeOK
  <2>3. /\ request'[q].op \notin {"reserve", "edit"}
        /\ \A p \in Requests \ {q} : request'[p] = request[p]
    BY <1>1, <2>1, AnswerChanges
  <2>4. \A start : Coming(request'[q], start) = 0 /\ Coming(request[q], start) \in Nat
    BY <2>2, <2>3, AskingAre DEF Coming
  <2>5. \A start \in Starts : Coming(request'[q], start) <= Coming(request[q], start)
    BY <2>4
  <2> QED
    BY <2>1, <2>2, <2>3, <2>5, AskBounds
<1> QED
  BY <1>3, <1>4, <1>5, <1>6, <1>7

-----------------------------------------------------------------------------
LEMMA InitiallyBounded == Init => LInv
<1> SUFFICES ASSUME Init PROVE LInv
  OBVIOUS
<1>1. IInv
  BY Initially
<1>2. reservation \in Entities /\ request \in [Requests -> Request]
  BY <1>1 DEF IInv, TypeOK
<1>3. IsFiniteSet(Keys) /\ IsFiniteSet(Requests)
  BY ReservationsAssumption
<1>4. ASSUME NEW start \in Starts
      PROVE  /\ Load(start) = 0 /\ \A q \in Requests : Coming(request[q], start) = 0
  <2>1. \A q \in Requests : Coming(request[q], start) = 0
    BY DEF Init, Idle, Coming
  <2>2. \A k \in Keys : SeatedAt(reservation, k, start) = 0
    BY NothingIsMade DEF Init, SeatedAt
  <2>3. /\ \A k \in Keys : Seated(reservation, start)[k] = 0
        /\ \A q \in Requests : Asking(request, start)[q] = 0
    BY <1>2, <2>1, <2>2, SeatedAre, AskingAre
  <2>4. /\ Sum(Seated(reservation, start), Keys) = 0
        /\ Sum(Asking(request, start), Requests) = 0
    BY <1>3, <2>3, SumOfZeros
  <2> QED
    BY <2>1, <2>4 DEF Load, LoadOf
<1>5. LoadIsBounded
  BY <1>4 DEF LoadIsBounded
<1>6. GroupsFit
  BY <1>4, BoundsAre DEF GroupsFit
<1> QED
  BY <1>1, <1>5, <1>6 DEF LInv

LEMMA BoundIsInductive == LInv /\ [Next]_vars => LInv'
<1> SUFFICES ASSUME LInv, [Next]_vars PROVE LInv'
  OBVIOUS
<1>1. IInv'
  BY Inductive DEF LInv
<1>2. LoadIsBounded' /\ GroupsFit'
  <2>1. ASSUME NEW q \in Requests,
               \/ AskTable(q) \/ AskDeleteTable(q)
               \/ \E k \in Made : AskEdit(q, k) \/ AskMove(q, k)
        PROVE  LoadIsBounded' /\ GroupsFit'
    BY <1>1, <2>1, AsksAreBounded
  <2>2. ASSUME NEW q \in Requests,
               \/ reserve_table(q) \/ edit_reservation(q) \/ move_reservation(q)
               \/ clear_table_id_in_reservations(q) \/ delete_table(q) \/ Fail(q)
        PROVE  LoadIsBounded' /\ GroupsFit'
    BY <1>1, <2>2, RequestsAreBounded
  <2>3. ASSUME NEW k \in Made,
               \/ EditUnchecked(k) \/ cancel_reservation(k)
               \/ toggle_reservation_cancelled(k) \/ edit_reservation_tables(k)
        PROVE  LoadIsBounded' /\ GroupsFit'
    BY <1>1, <2>3, PutsAreBounded
  <2>4. ASSUME NEW shifts \in Configurations,
               save_shifts(shifts) \/ handle_shift_updates(shifts)
        PROVE  LoadIsBounded' /\ GroupsFit'
    BY <2>4, SameIsBounded DEF save_shifts, handle_shift_updates
  <2>5. ASSUME NEW task \in checks, _check_reservation(task)
        PROVE  LoadIsBounded' /\ GroupsFit'
    BY <1>1, <2>5, ChecksAreBounded
  <2>6. CASE UNCHANGED vars
    BY <2>6, SameIsBounded DEF vars
  <2> QED
    BY <2>1, <2>2, <2>3, <2>4, <2>5, <2>6 DEF Next
<1> QED
  BY <1>1, <1>2 DEF LInv

(* Any number of requests may look for a place in a shift at once, while   *)
(* guests come, move and cancel and shifts are saved: the guests let in    *)
(* exceed the limit by less than one group for each request.               *)
THEOREM OverbookingStaysBounded == Spec => []OverbookingIsBounded
<1>1. LInv => OverbookingIsBounded
  <2> SUFFICES ASSUME LInv, NEW start \in Starts
               PROVE  PeopleLetIn(start) = 0 \/ PeopleLetIn(start) <= Most(start)
    BY DEF OverbookingIsBounded, Most
  <2>1. IInv /\ reservation \in Entities /\ request \in [Requests -> Request]
    BY DEF LInv, IInv, TypeOK
  <2> DEFINE s == Sum(Seated(reservation, start), Keys)
             a == Sum(Asking(request, start), Requests)
  <2>2. PeopleLetIn(start) = s
    BY <2>1, LetInAreSeated
  <2>3. s \in Nat /\ a \in Nat
    BY <2>1, LoadIs
  <2>4. Bounded(s + a, start)
    BY DEF LInv, LoadIsBounded, Bounded, Load, LoadOf
  <2> HIDE DEF s, a
  <2>5. Bounded(s, start)
    <3>1. s <= s + a /\ s + a \in Nat
      BY <2>3
    <3> QED
      BY <2>3, <2>4, <3>1, LessIsBounded
  <2> QED
    BY <2>2, <2>5 DEF Bounded
<1> QED
  BY <1>1, InitiallyBounded, BoundIsInductive, PTL DEF Spec

-----------------------------------------------------------------------------
(* Every request that may come finds room for its group above the limit,   *)
(* as two do in the default shifts: 50 places, 70 percent, groups of 6.    *)
LimitsLeaveRoom == \A shift \in Shifts : Most(shift.start) <= shift.capacity

(* The capacity of a shift is kept where the limit leaves that much room:  *)
(* what overbooks it is only what is not seen by the other requests.       *)
THEOREM CapacityIsKeptWithRoom == LimitsLeaveRoom => (Spec => []WithinCapacity)
<1> SUFFICES ASSUME LimitsLeaveRoom PROVE Spec => []WithinCapacity
  OBVIOUS
<1>1. LInv /\ OverbookingIsBounded => WithinCapacity
  <2> SUFFICES ASSUME LInv, OverbookingIsBounded, NEW i \in DOMAIN settings
               PROVE  PeopleLetIn(settings[i].start) <= settings[i].capacity
    BY DEF WithinCapacity
  <2> DEFINE start == settings[i].start
  <2>1. settings \in Configurations /\ settings \in Seq(Shift) /\ IInv
    BY ReservationsAssumption DEF LInv, IInv, TypeOK
  <2>2. settings[i] \in ToSet(settings) /\ settings[i] \in Shift
    BY <2>1 DEF ToSet
  <2>3. settings[i] \in Shifts
    BY <2>1, <2>2 DEF Shifts
  <2>4. start \in Starts /\ settings[i].capacity \in Nat
    BY <2>2, <2>3 DEF Starts, Shift
  <2>5. Most(start) \in Int /\ PeopleLetIn(start) \in Nat
    <3>1. Cardinality(Requests) \in Nat
      BY ReservationsAssumption, FS_CardinalityType
    <3>2. HighestLimit(start) \in Nat /\ LargestGroup(start) \in Nat
      BY <2>4, BoundsAre
    <3>3. PeopleLetIn(start) = Sum(Seated(reservation, start), Keys)
      BY <2>1, LetInAreSeated
    <3>4. Sum(Seated(reservation, start), Keys) \in Nat
      BY <2>1, LoadIs DEF IInv, TypeOK
    <3> QED
      BY <3>1, <3>2, <3>3, <3>4 DEF Most
  <2>6. PeopleLetIn(start) = 0 \/ PeopleLetIn(start) <= Most(start)
    BY <2>4 DEF OverbookingIsBounded, Most
  <2>7. Most(start) <= settings[i].capacity
    BY <2>3 DEF LimitsLeaveRoom
  <2> HIDE DEF start
  <2>8. PeopleLetIn(start) <= settings[i].capacity
    BY <2>4, <2>5, <2>6, <2>7
  <2> QED
    BY <2>8 DEF start
<1> QED
  BY <1>1, InitiallyBounded, BoundIsInductive, OverbookingStaysBounded, PTL DEF Spec
=============================================================================
