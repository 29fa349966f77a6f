--------------------------- MODULE CityWideLottery ---------------------------
(***************************************************************************)
(* The lottery of a city among those who visit its shops.  A visit to a    *)
(* shop is added to it, and taken from it, by tasks that are deferred:     *)
(* solutions/common/bizz/loyalty.py, cron/loyalty.py, restapi/loyalty.py.  *)
(***************************************************************************)
EXTENDS Naturals, FiniteSets, FiniteSetsExt

CONSTANTS
  Users,      \* the visitors
  Visits,     \* the visits to shops
  Visitors,   \* the ways in which the visits may be those of the users
  x_winners,  \* how many of them win
  MaxHeld,    \* bound: how many requests and tasks hold a copy at once
  MaxEvents   \* bound: how often a task runs twice, a visit is deleted, the end date
              \* is changed, the lottery closed or the module of the city lost

CityWideLotteryAssumption ==
  /\ Visitors \subseteq [Visits -> Users] /\ IsFiniteSet(Visits) /\ IsFiniteSet(Users)
  /\ x_winners \in Nat \ {0} /\ MaxHeld \in Nat /\ MaxEvents \in Nat

VARIABLES
  visitor,       \* [visit -> who makes it]
  shop_visits,   \* [visit -> whether it was made, or deleted since]
  city_visits,   \* [visit -> how many SolutionCityWideLotteryVisits are open, or redeemed]
  statistics,    \* SolutionCityWideLotteryStatistics
  sln_cwl,       \* SolutionCityWideLottery
  hidden_module, \* the city has the module HIDDEN_CITY_WIDE_LOTTERY
  tasks,         \* [kind -> how many of them are deferred]
  held,          \* the copies of sln_cwl that requests and tasks hold
  history        \* not in the code: whether a copy was put over other winners, and
                 \* what the bound counts

vars == <<visitor, shop_visits, city_visits, statistics, sln_cwl, hidden_module, tasks, held,
          history>>
others == <<visitor, shop_visits, city_visits, statistics, hidden_module>>

-----------------------------------------------------------------------------
Tasks == ({"add", "delete"} \X Visits) \cup ({"worker", "pick", "redeem"} \X {"lottery"})
worker == <<"worker", "lottery">>
pick   == <<"pick", "lottery">>
redeem == <<"redeem", "lottery">>

Lotteries == [exists: BOOLEAN, armed: BOOLEAN, pending: BOOLEAN, deleted: BOOLEAN,
              winners: SUBSET Users]
Held == [op: {"pick", "edit", "close"}, copy: Lotteries, winners: SUBSET Users]

TypeOK ==
  /\ visitor \in Visitors
  /\ shop_visits \in [Visits -> {"none", "made", "deleted"}]
  /\ city_visits \in [Visits -> [open: Nat, redeemed: Nat]]
  /\ statistics \in [Users -> Nat]
  /\ sln_cwl \in Lotteries
  /\ hidden_module \in BOOLEAN
  /\ tasks \in [Tasks -> Nat]
  /\ held \subseteq Held
  /\ history \in [overwritten: BOOLEAN, events: 0 .. MaxEvents]

Init ==
  /\ visitor \in Visitors
  /\ shop_visits = [v \in Visits |-> "none"]
  /\ city_visits = [v \in Visits |-> [open |-> 0, redeemed |-> 0]]
  /\ statistics = [u \in Users |-> 0]
  /\ sln_cwl = [exists |-> FALSE, armed |-> FALSE, pending |-> FALSE, deleted |-> FALSE,
                winners |-> {}]
  /\ hidden_module = TRUE
  /\ tasks = [t \in Tasks |-> 0]
  /\ held = {}
  /\ history = [overwritten |-> FALSE, events |-> 0]

-----------------------------------------------------------------------------
MayHappen == history.events < MaxEvents

Happened(it) == [history EXCEPT !.events = IF it THEN @ + 1 ELSE @]

Defers(t) == tasks' = [tasks EXCEPT ![t] = @ + 1]

(* The task t runs, to stay for another time if it is run again.             *)
Runs(t, again) ==
  /\ tasks[t] > 0 /\ (again => MayHappen)
  /\ tasks' = IF again THEN tasks ELSE [tasks EXCEPT ![t] = @ - 1]
  /\ history' = Happened(again)

-----------------------------------------------------------------------------
(* The visits.                                                               *)

add_loyalty_for_user(v) ==
  /\ shop_visits[v] = "none"
  /\ shop_visits' = [shop_visits EXCEPT ![v] = "made"]
  /\ Defers(<<"add", v>>)
  /\ UNCHANGED <<visitor, city_visits, statistics, sln_cwl, hidden_module, held, history>>

delete_visit(v) ==
  /\ shop_visits[v] = "made" /\ MayHappen
  /\ history' = Happened(TRUE)
  /\ shop_visits' = [shop_visits EXCEPT ![v] = "deleted"]
  /\ Defers(<<"delete", v>>)
  /\ UNCHANGED <<visitor, city_visits, statistics, sln_cwl, hidden_module, held>>

(* The visit that is added has a key of its own: run again, it adds another. *)
add_city_wide_lottery_visit(v) ==
  /\ \E again \in BOOLEAN : Runs(<<"add", v>>, again)
  /\ city_visits' = [city_visits EXCEPT ![v].open = @ + 1]
  /\ statistics' = [statistics EXCEPT ![visitor[v]] = @ + 1]
  /\ UNCHANGED <<visitor, shop_visits, sln_cwl, hidden_module, held>>

(* Mutant: the visit is deleted, and still counted.                          *)
delete_still_counted(v) ==
  /\ Runs(<<"delete", v>>, FALSE)
  /\ city_visits' = [city_visits EXCEPT ![v].open = IF @ > 0 THEN @ - 1 ELSE 0]
  /\ UNCHANGED <<visitor, shop_visits, statistics, sln_cwl, hidden_module, held>>

(* It takes one off the count, even when the visit is not there or was        *)
(* redeemed, and deletes what a query for the visit returns first.            *)
delete_city_wide_lottery_visit(v) ==
  /\ \E again \in BOOLEAN : Runs(<<"delete", v>>, again)
  /\ statistics' = [statistics EXCEPT ![visitor[v]] = IF @ > 0 THEN @ - 1 ELSE 0]
  /\ \/ city_visits[v].open > 0 /\ city_visits' = [city_visits EXCEPT ![v].open = @ - 1]
     \/ city_visits[v].redeemed > 0 /\ city_visits' = [city_visits EXCEPT ![v].redeemed = @ - 1]
     \/ city_visits[v] = [open |-> 0, redeemed |-> 0] /\ UNCHANGED city_visits
  /\ UNCHANGED <<visitor, shop_visits, sln_cwl, hidden_module, held>>

-----------------------------------------------------------------------------
(* The lottery as the city sets it.                                          *)

add_city_wide_lottery_info ==
  /\ ~sln_cwl.exists
  /\ sln_cwl' = [sln_cwl EXCEPT !.exists = TRUE, !.armed = TRUE, !.pending = TRUE]
  /\ UNCHANGED <<others, tasks, held, history>>

(* Outside src/solutions: the modules of a city are set by the shop.         *)
LosesModule ==
  /\ hidden_module /\ MayHappen
  /\ hidden_module' = FALSE
  /\ history' = Happened(TRUE)
  /\ UNCHANGED <<visitor, shop_visits, city_visits, statistics, sln_cwl, tasks, held>>

Holds(op, winners) ==
  /\ Cardinality(held) < MaxHeld /\ sln_cwl.exists
  /\ held' = held \cup {[op |-> op, copy |-> sln_cwl, winners |-> winners]}

(* Puts the copy of h, changed to new, whatever was put since it was read.    *)
Puts(h, op, new) ==
  /\ h.op = op
  /\ sln_cwl' = new
  /\ held' = held \ {h}
  /\ history' = [history EXCEPT !.overwritten = @ \/ sln_cwl.winners # h.copy.winners]

edit_get ==
  /\ MayHappen /\ sln_cwl.pending /\ ~sln_cwl.deleted
  /\ Holds("edit", {})
  /\ history' = Happened(TRUE)
  /\ UNCHANGED <<others, sln_cwl, tasks>>

edit_city_wide_lottery_info(h) ==
  /\ Puts(h, "edit", [h.copy EXCEPT !.armed = TRUE])
  /\ UNCHANGED <<others, tasks>>

close_get ==
  /\ MayHappen /\ ~sln_cwl.pending /\ ~sln_cwl.deleted
  /\ Holds("close", {})
  /\ history' = Happened(TRUE)
  /\ UNCHANGED <<others, sln_cwl, tasks>>

close_city_wide_lottery_info(h) ==
  /\ Puts(h, "close", [h.copy EXCEPT !.deleted = TRUE])
  /\ UNCHANGED <<others, tasks>>

-----------------------------------------------------------------------------
(* The draw.                                                                 *)

_schedule_loot_city_wide_lottery ==
  /\ sln_cwl.exists /\ sln_cwl.armed
  /\ tasks[worker] > 0 => MayHappen
  /\ Defers(worker)
  /\ history' = Happened(tasks[worker] > 0)
  /\ UNCHANGED <<others, sln_cwl, held>>

_worker_city_wide_lottery ==
  /\ tasks[worker] > 0
  /\ \E again \in {FALSE} \cup {MayHappen} :
       /\ tasks' = [tasks EXCEPT ![worker] = IF again THEN @ ELSE @ - 1,
                                 ![pick] = IF hidden_module THEN @ + 1 ELSE @]
       /\ history' = Happened(again)
  /\ sln_cwl' = [sln_cwl EXCEPT !.armed = ~@, !.deleted = @ \/ ~hidden_module]
  /\ UNCHANGED <<others, held>>

PossibleWinners == {u \in Users : statistics[u] > 0 /\ u \notin sln_cwl.winners}

(* Mutant: the task does not look whether there are winners.                 *)
AlwaysUndrawn == TRUE

Undrawn == sln_cwl.winners = {}

_pick_returns ==
  /\ ~Undrawn
  /\ Runs(pick, FALSE)
  /\ UNCHANGED <<others, sln_cwl, held>>

(* As many winners as there can be, and nobody twice; none when nobody came.  *)
(* Unlike in the lottery of a shop, that the end date was changed or the      *)
(* lottery closed since the task was deferred does not stop it.               *)
_pick_get ==
  /\ Undrawn
  /\ \E W \in kSubset(Min({x_winners, Cardinality(PossibleWinners)}), PossibleWinners) :
       Holds("pick", W)
  /\ Runs(pick, FALSE)
  /\ UNCHANGED <<others, sln_cwl>>

_pick_city_wide_lottery_winner(h) ==
  /\ IF h.winners = {}
     THEN Puts(h, "pick", [h.copy EXCEPT !.deleted = TRUE]) /\ UNCHANGED tasks
     ELSE /\ Puts(h, "pick", [h.copy EXCEPT !.pending = FALSE, !.winners = h.winners])
          /\ Defers(redeem)
  /\ UNCHANGED others

_redeem_city_wide_lottery_visits ==
  /\ \E again \in BOOLEAN : Runs(redeem, again)
  /\ statistics' = [u \in Users |-> 0]
  /\ city_visits' = [v \in Visits |-> [open |-> 0,
                       redeemed |-> city_visits[v].redeemed + city_visits[v].open]]
  /\ UNCHANGED <<visitor, shop_visits, sln_cwl, hidden_module, held>>

-----------------------------------------------------------------------------
Writes(h) ==
  \/ edit_city_wide_lottery_info(h) \/ close_city_wide_lottery_info(h)
  \/ _pick_city_wide_lottery_winner(h)

Next ==
  \/ \E v \in Visits :
       \/ add_loyalty_for_user(v) \/ add_city_wide_lottery_visit(v)
       \/ delete_visit(v) \/ delete_city_wide_lottery_visit(v)
  \/ add_city_wide_lottery_info
  \/ LosesModule
  \/ edit_get \/ close_get
  \/ _schedule_loot_city_wide_lottery
  \/ _worker_city_wide_lottery
  \/ _pick_returns \/ _pick_get
  \/ _redeem_city_wide_lottery_visits
  \/ \E h \in held : Writes(h)

Spec == Init /\ [][Next]_vars

(* The cron job runs every few minutes, a deferred task until it has          *)
(* succeeded, and what holds a copy puts it.                                  *)
Fairness ==
  /\ WF_vars(_schedule_loot_city_wide_lottery)
  /\ WF_vars(_worker_city_wide_lottery)
  /\ SF_vars(_pick_returns \/ _pick_get)
  /\ WF_vars(\E h \in held : Writes(h))

FairSpec == Spec /\ Fairness

-----------------------------------------------------------------------------
(* Who can be drawn has a visit that is open, or the draw would fail for     *)
(* ever ("SolutionLoyaltyVisitLottery for app_user %s not found!"): whether  *)
(* a visit is added twice, deleted before it is added, or after the lottery  *)
(* it counted for.                                                           *)
OpenVisits(u) ==
  SumFunctionOnSet([v \in Visits |-> city_visits[v].open], {v \in Visits : visitor[v] = u})

CountedVisitsExist == \A u \in Users : statistics[u] <= OpenVisits(u)

(* Who was drawn, and was told so, stays a winner, unless a copy is put that *)
(* was read before: the task may run for one lottery more than once.         *)
WinnersStay ==
  [][sln_cwl.winners # {} /\ ~history'.overwritten => sln_cwl'.winners = sln_cwl.winners]_vars

(* Every lottery is drawn or closed.                                         *)
Drawn == sln_cwl.exists ~> (~sln_cwl.pending \/ sln_cwl.deleted)
=============================================================================
