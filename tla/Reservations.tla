---------------------------- MODULE Reservations ----------------------------
(***************************************************************************)
(* The reservations of a restaurant for one day that is still to come:     *)
(* solutions/common/bizz/reservation.                                      *)
(*                                                                         *)
(* A datastore transaction is one action.  A request that looks at the     *)
(* shifts or at other reservations before its transaction is two actions:  *)
(* request holds what it found.                                            *)
(***************************************************************************)
EXTENDS Integers, Sequences, FiniteSets, SequencesExt

CONSTANTS
  Keys,            \* the keys of the reservations that can be made
  Requests,        \* the requests that may be in progress at once
  Tables,          \* the tables of the restaurant
  Configurations,  \* the lists of shifts that may be saved for this day
  Dates,           \* the times for which a table is asked
  Parties,         \* the numbers of people
  MaxTasks         \* bound: tasks of _check_reservation on the queue

(* limit is capacity * threshold / 100. *)
Shift == [start: Nat, end: Nat, capacity: Nat, limit: Nat, max_group_size: Nat]

ASSUME ReservationsAssumption ==
  /\ Configurations # {} /\ Configurations \subseteq Seq(Shift)
  /\ IsFiniteSet(Configurations)
  /\ \A shifts \in Configurations : \A i \in DOMAIN shifts :
       /\ shifts[i].start < shifts[i].end
       /\ shifts[i].max_group_size <= shifts[i].capacity
  /\ IsFiniteSet(Keys) /\ IsFiniteSet(Requests) /\ Requests # {}
  /\ Dates \subseteq Nat /\ Parties \subseteq Nat \ {0}
  /\ MaxTasks \in Nat

VARIABLES
  settings,     \* RestaurantSettings: the shifts
  reservation,  \* the RestaurantReservation entities that are made
  deleted,      \* the tables that are deleted
  jobs,         \* the tasks of run_job: the shifts that were saved
  checks,       \* the tasks of _check_reservation
  request       \* the requests between what they read and what they write

vars == <<settings, reservation, deleted, jobs, checks, request>>

-----------------------------------------------------------------------------
Shifts == UNION {ToSet(shifts) : shifts \in Configurations}

Starts == {shift.start : shift \in Shifts}

(* The flags that tell who has arrived and who was notified are left out.  *)
(* history is not in the entity: what was decided about it without a look  *)
(* at the other reservations.                                              *)
Histories == SUBSET {"moved", "unchecked"}

Reservation == [status: SUBSET {"canceled", "shift_removed"},
                date: Dates, shift_start: Starts, people: Parties,
                tables: SUBSET Tables, history: Histories]

Made == DOMAIN reservation

Entities == UNION {[K -> Reservation] : K \in SUBSET Keys}

Operations == {"idle", "reserve", "edit", "move", "delete_table"}

(* The reservations a request is about are in keys; seen holds copies.     *)
Idle == [op |-> "idle", keys |-> {}, seen |-> <<>>, date |-> 0, people |-> 0,
         shift_start |-> 0, tables |-> {}, history |-> {}]

Request ==
  [op: Operations, keys: SUBSET Keys, seen: Entities, date: {0} \cup Dates,
   people: {0} \cup Parties, shift_start: {0} \cup Starts, tables: SUBSET Tables,
   history: Histories]

Task == [key: Keys, shifts: Configurations]

TypeOK ==
  /\ settings \in Configurations
  /\ reservation \in Entities
  /\ deleted \subseteq Tables
  /\ jobs \subseteq Configurations
  /\ checks \subseteq Task
  /\ request \in [Requests -> Request]

Init ==
  /\ settings \in Configurations
  /\ reservation = <<>>
  /\ deleted = {}
  /\ jobs = {} /\ checks = {}
  /\ request = [q \in Requests |-> Idle]

-----------------------------------------------------------------------------
(* availability_and_shift                                                  *)

SumOfPeople(K) == SumFunctionOnSet([k \in K |-> reservation[k].people], K)

Live(k) == "canceled" \notin reservation[k].status

AlreadyReserved(start) ==
  SumOfPeople({k \in Made : Live(k) /\ reservation[k].shift_start = start})

(* Mutant: any number of people is let in while there are tables left. *)
AnyGroup(shift, people) == AlreadyReserved(shift.start) < shift.limit

HasTables(shift, people) ==
  /\ people <= shift.max_group_size
  /\ AlreadyReserved(shift.start) < shift.limit

MatchingShifts(date) ==
  {shift \in ToSet(settings) : shift.start <= date /\ date < shift.end}

(* Mutant: the end of the shift is returned for its start.                 *)
EndOf(shift) == shift.end

StartOf(shift) == shift.start

AvailableShifts(date, people, force) ==
  {shift \in MatchingShifts(date) : force \/ HasTables(shift, people)}

-----------------------------------------------------------------------------
(* reserve_table                                                           *)

Ask(q, r) ==
  /\ request[q].op = "idle"
  /\ request' = [request EXCEPT ![q] = r]
  /\ UNCHANGED <<settings, reservation, deleted, jobs, checks>>

Unchecked(force) == IF force THEN {"unchecked"} ELSE {}

Asked(op, keys, date, people, shift, force) ==
  [op |-> op, keys |-> keys, seen |-> <<>>, date |-> date, people |-> people,
   shift_start |-> StartOf(shift), tables |-> {}, history |-> Unchecked(force)]

AskTable(q) ==
  \E date \in Dates, people \in Parties, force \in BOOLEAN :
    \E shift \in AvailableShifts(date, people, force) :
      Ask(q, Asked("reserve", {}, date, people, shift, force))

Answer(q) ==
  /\ request' = [request EXCEPT ![q] = Idle]
  /\ UNCHANGED <<settings, jobs, checks>>

With(k, entity) ==
  [l \in Made \cup {k} |-> IF l = k THEN entity ELSE reservation[l]]

reserve_table(q) ==
  LET r == request[q] IN
  /\ r.op = "reserve"
  /\ \E k \in Keys \ Made :
       reservation' = With(k, [status |-> {}, date |-> r.date, people |-> r.people,
                               shift_start |-> r.shift_start, tables |-> {},
                               history |-> r.history])
  /\ UNCHANGED deleted
  /\ Answer(q)

-----------------------------------------------------------------------------
(* edit_reservation.  Without a check it is one transaction.               *)

Put(k, entity) ==
  /\ reservation' = With(k, entity)
  /\ UNCHANGED <<settings, deleted, jobs, checks, request>>

EditUnchecked(k) ==
  \E people \in Parties, force \in BOOLEAN :
    /\ force \/ people <= reservation[k].people
    /\ Put(k, [reservation[k] EXCEPT !.people = people,
                 !.history = @ \cup Unchecked(people > reservation[k].people)])

(* A transaction that commits has read the entity as it is then.  What     *)
(* availability_and_shift reads, not in the transaction, is older.         *)
AskEdit(q, k) ==
  \E date \in Dates, people \in Parties, force \in BOOLEAN :
    \E shift \in AvailableShifts(date, people, force) :
      Ask(q, Asked("edit", {k}, date, people, shift, force))

(* The history of a request is empty if it has no force. *)
NeedsCheck(entity, r) ==
  \/ r.date # entity.date
  \/ r.history = {} /\ r.people > entity.people

(* Mutant: the date changes and the shift does not. *)
OldShift(entity, r) == entity.shift_start

NewShift(entity, r) ==
  IF r.date = entity.date THEN entity.shift_start ELSE r.shift_start

(* What was checked is the shift of the date, by the settings of today: if *)
(* the reservation stays where it is, that may be another shift.           *)
NewHistory(entity, r) ==
  (IF r.date = entity.date THEN entity.history ELSE entity.history \ {"moved"})
    \cup r.history
    \cup Unchecked(NewShift(entity, r) # r.shift_start)

edit_reservation(q) ==
  LET r == request[q] IN
  /\ r.op = "edit"
  /\ \E k \in r.keys :
       LET entity == reservation[k] IN
       /\ NeedsCheck(entity, r)
       /\ reservation' = With(k, [entity EXCEPT
            !.people = r.people, !.date = r.date,
            !.shift_start = NewShift(entity, r), !.history = NewHistory(entity, r)])
  /\ UNCHANGED deleted
  /\ Answer(q)

-----------------------------------------------------------------------------
(* move_reservation: the settings are read before the transaction.         *)

AskMove(q, k) ==
  \E shift \in ToSet(settings) :
    Ask(q, [Idle EXCEPT !.op = "move", !.keys = {k}, !.shift_start = shift.start])

move_reservation(q) ==
  LET r == request[q] IN
  /\ r.op = "move"
  /\ \E k \in r.keys :
       reservation' = With(k, [reservation[k] EXCEPT
         !.shift_start = r.shift_start, !.status = @ \ {"shift_removed"},
         !.history = @ \cup {"moved", "unchecked"}])
  /\ UNCHANGED deleted
  /\ Answer(q)

-----------------------------------------------------------------------------
(* The transactions on one reservation                                     *)

cancel_reservation(k) ==
  Put(k, [reservation[k] EXCEPT !.status = (@ \cup {"canceled"}) \ {"shift_removed"}])

toggle_reservation_cancelled(k) ==
  \/ /\ Live(k)
     /\ Put(k, [reservation[k] EXCEPT !.status = @ \cup {"canceled"}])
  \/ /\ ~Live(k)
     /\ Put(k, [reservation[k] EXCEPT !.status = @ \ {"canceled"},
                                      !.history = @ \cup {"unchecked"}])

edit_reservation_tables(k) ==
  \E tables \in SUBSET Tables :
    Put(k, [reservation[k] EXCEPT !.tables = tables])

-----------------------------------------------------------------------------
(* delete_table: the reservations of the table are fetched, and put        *)
(* without a transaction; then the table is deleted.                       *)

AskDeleteTable(q) ==
  \E table \in Tables \ deleted :
    LET K == {k \in Made : table \in reservation[k].tables} IN
    Ask(q, [Idle EXCEPT !.op = "delete_table", !.keys = K, !.tables = {table},
                        !.seen = [k \in K |-> reservation[k]]])

clear_table_id_in_reservations(q) ==
  LET r == request[q] IN
  /\ r.op = "delete_table"
  /\ \E k \in r.keys :
       /\ reservation' = With(k, [r.seen[k] EXCEPT !.tables = @ \ r.tables,
                                                 !.history = @ \cup {"unchecked"}])
       /\ request' = [request EXCEPT ![q].keys = @ \ {k},
                                    ![q].seen = [l \in r.keys \ {k} |-> r.seen[l]]]
  /\ UNCHANGED <<settings, deleted, jobs, checks>>

delete_table(q) ==
  /\ request[q].op = "delete_table" /\ request[q].keys = {}
  /\ deleted' = deleted \cup request[q].tables
  /\ UNCHANGED reservation
  /\ Answer(q)

(* A request that fails, or whose transaction gives up. *)
Fail(q) ==
  /\ request[q].op # "idle"
  /\ UNCHANGED <<reservation, deleted>>
  /\ Answer(q)

-----------------------------------------------------------------------------
(* save_shifts and its job, handle_shift_updates.  A task runs at least    *)
(* once: it may stay on the queue.                                         *)

save_shifts(shifts) ==
  /\ settings' = shifts
  /\ jobs' = jobs \cup {shifts}
  /\ UNCHANGED <<reservation, deleted, checks, request>>

handle_shift_updates(shifts) ==
  /\ shifts \in jobs
  /\ checks' = checks \cup {[key |-> k, shifts |-> shifts] : k \in Made}
  /\ Cardinality(checks') <= MaxTasks
  /\ jobs' \in {jobs, jobs \ {shifts}}
  /\ UNCHANGED <<settings, reservation, deleted, request>>

(* The first shift in which the reservation starts; its end included. *)
Covers(shift, start) == shift.start <= start /\ start <= shift.end

(* Mutant: a reservation that has no shift is left alone. *)
LeftAlone(entity, shifts) == entity

Checked(entity, shifts) ==
  LET covering == {i \in DOMAIN shifts : Covers(shifts[i], entity.shift_start)}
      first == shifts[CHOOSE i \in covering : \A j \in covering : i <= j]
  IN
  IF "canceled" \in entity.status THEN entity
  ELSE IF covering = {}
  THEN [entity EXCEPT !.status = @ \cup {"shift_removed"}]
  ELSE [entity EXCEPT
          !.status = @ \ {"shift_removed"},
          !.shift_start = first.start,
          !.history = IF first.start = entity.shift_start THEN @
                      ELSE @ \cup {"unchecked"}]

_check_reservation(task) ==
  /\ task \in checks
  /\ reservation' = With(task.key, Checked(reservation[task.key], task.shifts))
  /\ checks' \in {checks, checks \ {task}}
  /\ UNCHANGED <<settings, deleted, jobs, request>>

-----------------------------------------------------------------------------
Next ==
  \/ \E q \in Requests :
       \/ AskTable(q) \/ reserve_table(q)
       \/ \E k \in Made : AskEdit(q, k) \/ AskMove(q, k)
       \/ edit_reservation(q) \/ move_reservation(q)
       \/ AskDeleteTable(q) \/ clear_table_id_in_reservations(q) \/ delete_table(q)
       \/ Fail(q)
  \/ \E k \in Made :
       \/ EditUnchecked(k) \/ cancel_reservation(k)
       \/ toggle_reservation_cancelled(k)
       \/ edit_reservation_tables(k)
  \/ \E shifts \in Configurations : save_shifts(shifts) \/ handle_shift_updates(shifts)
  \/ \E task \in checks : _check_reservation(task)

Spec == Init /\ [][Next]_vars

(* The task queue runs its tasks. *)
FairSpec ==
  /\ Spec
  /\ \A shifts \in Configurations : WF_vars(handle_shift_updates(shifts))
  /\ \A task \in Task : WF_vars(_check_reservation(task))

-----------------------------------------------------------------------------
(* Properties                                                              *)

PeopleLetIn(start) ==
  SumOfPeople({k \in Made : /\ Live(k) /\ "unchecked" \notin reservation[k].history
                            /\ reservation[k].shift_start = start})

ShiftsStarting(start) == {shift \in Shifts : shift.start = start}

HighestLimit(start) == Max({shift.limit : shift \in ShiftsStarting(start)})

LargestGroup(start) == Max({shift.max_group_size : shift \in ShiftsStarting(start)})

(* How far the guests that were let in overbook a shift is bounded by the  *)
(* requests that are in progress at once: each can add one group to what   *)
(* it saw, though reservations change and shifts are saved meanwhile.  If  *)
(* the shift takes nobody, nobody is let in.                               *)
OverbookingIsBounded ==
  \A start \in Starts :
     \/ PeopleLetIn(start) = 0
     \/ PeopleLetIn(start) <=
          HighestLimit(start) - 1 + Cardinality(Requests) * LargestGroup(start)

(* A guest comes after his shift starts, unless he was moved to another    *)
(* one: an edit, a check for other shifts or an old copy never puts him in *)
(* a shift that is yet to start.                                           *)
ComesAfterStart ==
  \A k \in Made : "moved" \notin reservation[k].history =>
                     reservation[k].shift_start <= reservation[k].date

StartsOf(shifts) == {shift.start : shift \in ToSet(shifts)}

(* When shifts are saved, every reservation is looked at: it is cancelled, *)
(* in one of these shifts, or on the list of broken ones.                  *)
SavedShiftsAreChecked ==
  \A shifts \in Configurations, k \in Keys :
     shifts \in jobs /\ k \in Made /\ Live(k)
       ~> /\ k \in Made
          /\ \/ ~Live(k)
             \/ "shift_removed" \in reservation[k].status
             \/ reservation[k].shift_start \in StartsOf(shifts)

(* "Max number of people attending the restaurant for this shift."         *)
WithinCapacity ==
  \A i \in DOMAIN settings :
     PeopleLetIn(settings[i].start) <= settings[i].capacity
=============================================================================
