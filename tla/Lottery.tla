------------------------------- MODULE Lottery -------------------------------
(***************************************************************************)
(* The lottery of a service among those who visit it:                      *)
(* solutions/common/bizz/loyalty.py, cron/loyalty.py, restapi/loyalty.py.  *)
(*                                                                         *)
(* A transaction is one action.  Who reads the lottery and puts it back    *)
(* outside a transaction, or in one that did not read it, is two actions:  *)
(* held has the copy.                                                      *)
(***************************************************************************)
EXTENDS Naturals, FiniteSets, FiniteSetsExt

CONSTANTS
  Users,       \* the visitors
  NoUser,      \* a value that is no visitor
  Strangers,   \* the visitors of whom a scan may find no profile
  Days,        \* the days on which they come
  MaxHeld,     \* bound: how many requests and tasks hold a copy at once
  MaxEvents    \* bound: how often a task fails and runs again, or runs twice, a
               \* request dies, a visit is deleted, the end date or the loyalty type
               \* is changed, or the lottery is closed

ASSUME LotteryAssumption ==
  /\ IsFiniteSet(Users) /\ NoUser \notin Users /\ IsFiniteSet(Days)
  /\ Strangers \subseteq Users
  /\ MaxHeld \in Nat /\ MaxEvents \in Nat

VARIABLES
  visits,      \* [user, day -> the state of his visit]
  statistics,  \* SolutionLoyaltyLotteryStatistics: [user -> count]
  lottery,     \* SolutionLoyaltyLottery
  is_lottery,  \* the loyalty type of the service is the lottery
  tasks,       \* [kind -> how many of them are deferred]
  held,        \* the copies that requests and tasks hold
  history      \* not in the code: see Histories

vars == <<visits, statistics, lottery, is_lottery, tasks, held, history>>

-----------------------------------------------------------------------------
Tasks == {"worker", "pick", "redeem"}

(* armed: schedule_loot_time is positive, so that cron will find it.       *)
Lotteries == [exists: BOOLEAN, armed: BOOLEAN, pending: BOOLEAN, claimed: BOOLEAN,
              redeemed: BOOLEAN, deleted: BOOLEAN, winner: Users \cup {NoUser},
              skip_winners: SUBSET Users]

(* unnamed: open, and without app_user_info.                               *)
VisitStates == {"none", "open", "unnamed", "redeemed"}

NoCount == [u \in Users |-> 0]

NoLottery == [exists |-> FALSE, armed |-> FALSE, pending |-> FALSE, claimed |-> FALSE,
              redeemed |-> FALSE, deleted |-> FALSE, winner |-> NoUser,
              skip_winners |-> {}]

Held == [op: {"pick", "confirm", "edit", "close"}, copy: Lotteries,
         user: Users \cup {NoUser}]

(* Who was told that the prize is his; whether a copy was put over a claim *)
(* or over another winner; and what the bound counts.                      *)
Histories == [confirmed: SUBSET Users, overwritten: BOOLEAN, events: 0 .. MaxEvents]

TypeOK ==
  /\ visits \in [Users \X Days -> VisitStates]
  /\ statistics \in [Users -> Nat]
  /\ lottery \in Lotteries
  /\ is_lottery \in BOOLEAN
  /\ tasks \in [Tasks -> Nat]
  /\ held \subseteq Held
  /\ history \in Histories

Init ==
  /\ visits = [v \in Users \X Days |-> "none"]
  /\ statistics = NoCount
  /\ lottery = NoLottery
  /\ is_lottery = TRUE
  /\ tasks = [t \in Tasks |-> 0]
  /\ held = {}
  /\ history = [confirmed |-> {}, overwritten |-> FALSE, events |-> 0]

-----------------------------------------------------------------------------
MayHappen == history.events < MaxEvents

(* What history becomes when it did, or did not, happen.                     *)
Happened(it) == [history EXCEPT !.events = IF it THEN @ + 1 ELSE @]

(* Visits.  They are counted when they are made, in the same transaction,    *)
(* also when nothing but the address of the visitor is known.               *)

OpenAs(u) == {"open"} \cup (IF u \in Strangers THEN {"unnamed"} ELSE {})

add_loyalty_for_user_lottery(u, d) ==
  /\ visits[<<u, d>>] = "none"
  /\ \E state \in OpenAs(u) : visits' = [visits EXCEPT ![<<u, d>>] = state]
  /\ statistics' = [statistics EXCEPT ![u] = @ + 1]
  /\ UNCHANGED <<lottery, is_lottery, tasks, held, history>>

(* Mutant: the visit is deleted, and stays counted.                         *)
delete_uncounted(u, d) ==
  /\ visits[<<u, d>>] # "none"
  /\ visits' = [visits EXCEPT ![<<u, d>>] = "none"]
  /\ UNCHANGED <<statistics, lottery, is_lottery, tasks, held, history>>

(* Mutant: the count goes below zero.                                       *)
delete_below_zero(u, d) ==
  /\ visits[<<u, d>>] # "none" /\ MayHappen
  /\ history' = Happened(TRUE)
  /\ visits' = [visits EXCEPT ![<<u, d>>] = "none"]
  /\ statistics' = [statistics EXCEPT ![u] = @ - 1]
  /\ UNCHANGED <<lottery, is_lottery, tasks, held>>

(* It takes one off the count, also when the visit was counted, and          *)
(* redeemed, in an earlier lottery.                                          *)
delete_visit(u, d) ==
  /\ visits[<<u, d>>] # "none" /\ MayHappen
  /\ history' = Happened(TRUE)
  /\ visits' = [visits EXCEPT ![<<u, d>>] = "none"]
  /\ statistics' = [statistics EXCEPT ![u] = IF @ > 0 THEN @ - 1 ELSE 0]
  /\ UNCHANGED <<lottery, is_lottery, tasks, held>>

-----------------------------------------------------------------------------
(* The lottery as the shopkeeper sets it.                                   *)

add_loyalty_lottery_info ==
  /\ ~lottery.exists
  /\ lottery' = [NoLottery EXCEPT !.exists = TRUE, !.armed = TRUE, !.pending = TRUE]
  /\ UNCHANGED <<visits, statistics, is_lottery, tasks, held, history>>

put_loyalty_settings ==
  /\ is_lottery /\ MayHappen
  /\ is_lottery' = FALSE
  /\ history' = Happened(TRUE)
  /\ UNCHANGED <<visits, statistics, lottery, tasks, held>>

Holds(op, u) ==
  /\ Cardinality(held) < MaxHeld /\ lottery.exists
  /\ held' = held \cup {[op |-> op, copy |-> lottery, user |-> u]}

(* Puts the copy of h, changed to new.  A claim or a winner may be lost.     *)
Puts(h, op, new) ==
  /\ h.op = op
  /\ lottery' = new
  /\ held' = held \ {h}

NowOverwritten(h) ==
  [history EXCEPT !.overwritten =
     @ \/ <<lottery.claimed, lottery.winner>> # <<h.copy.claimed, h.copy.winner>>]

edit_get ==
  /\ MayHappen
  /\ lottery.pending /\ ~lottery.deleted
  /\ Holds("edit", NoUser)
  /\ history' = Happened(TRUE)
  /\ UNCHANGED <<visits, statistics, lottery, is_lottery, tasks>>

edit_loyalty_lottery_info(h) ==
  /\ Puts(h, "edit", [h.copy EXCEPT !.armed = TRUE])
  /\ history' = NowOverwritten(h)
  /\ UNCHANGED <<visits, statistics, is_lottery, tasks>>

close_get ==
  /\ MayHappen /\ lottery.redeemed /\ ~lottery.deleted
  /\ Holds("close", NoUser)
  /\ history' = Happened(TRUE)
  /\ UNCHANGED <<visits, statistics, lottery, is_lottery, tasks>>

close_loyalty_lottery_info(h) ==
  /\ Puts(h, "close", [h.copy EXCEPT !.deleted = TRUE])
  /\ history' = NowOverwritten(h)
  /\ UNCHANGED <<visits, statistics, is_lottery, tasks>>

-----------------------------------------------------------------------------
(* The draw.                                                                 *)

Defers(t) == tasks' = [tasks EXCEPT ![t] = @ + 1]

(* The cron job may find the lottery again before the worker has run.        *)
_schedule_loot_lottery ==
  /\ lottery.exists /\ lottery.armed
  /\ tasks["worker"] > 0 => MayHappen
  /\ Defers("worker")
  /\ history' = Happened(tasks["worker"] > 0)
  /\ UNCHANGED <<visits, statistics, lottery, is_lottery, held>>

(* Mutant: the worker leaves schedule_loot_time as it is.                    *)
_worker_stays_armed ==
  /\ tasks["worker"] > 0
  /\ tasks' = [tasks EXCEPT !["worker"] = @ - 1, !["pick"] = IF is_lottery THEN @ + 1 ELSE @]
  /\ lottery' = [lottery EXCEPT !.deleted = @ \/ ~is_lottery]
  /\ UNCHANGED <<visits, statistics, is_lottery, held, history>>

(* The worker turns the sign of schedule_loot_time: run again it turns it    *)
(* back.                                                                     *)
_worker ==
  /\ tasks["worker"] > 0
  /\ \E again \in {FALSE} \cup {MayHappen} :
       /\ tasks' = [tasks EXCEPT !["worker"] = IF again THEN @ ELSE @ - 1,
                                 !["pick"] = IF is_lottery THEN @ + 1 ELSE @]
       /\ history' = Happened(again)
  /\ lottery' = [lottery EXCEPT !.armed = ~@, !.deleted = @ \/ ~is_lottery]
  /\ UNCHANGED <<visits, statistics, is_lottery, held>>

(* Mutant: a prize that was claimed does not stop the draw.                  *)
IsRedeemed == lottery.redeemed \/ lottery.deleted

IsDrawn == lottery.claimed \/ lottery.redeemed \/ lottery.deleted

(* A user of whom visits are counted, and who has not been the winner.       *)
PossibleWinners ==
  {u \in Users : statistics[u] > 0 /\ u \notin lottery.skip_winners /\ u # lottery.winner}

(* The chain ends when the prize is claimed or the lottery closed, while the *)
(* sign of schedule_loot_time is not turned, or when nobody but the winner   *)
(* is left.                                                                  *)
_pick_returns ==
  /\ tasks["pick"] > 0
  /\ \/ IsDrawn \/ lottery.armed
     \/ is_lottery /\ PossibleWinners = {} /\ lottery.winner # NoUser
  /\ tasks' = [tasks EXCEPT !["pick"] = @ - 1]
  /\ UNCHANGED <<visits, statistics, lottery, is_lottery, held, history>>

OpenVisits(u) == {d \in Days : visits[<<u, d>>] \in {"open", "unnamed"}}

(* Who may be chosen from what was read.  Nobody is, and the lottery will be *)
(* deleted, when it is no more the loyalty of the service or nobody came.    *)
MayBeChosen ==
  IF is_lottery /\ (PossibleWinners # {} \/ lottery.winner # NoUser) THEN PossibleWinners
  ELSE {NoUser}

(* The winner must have an open visit, and a profile if that has no name.    *)
(* Without, the task fails, and is run again: that is a step that changes    *)
(* nothing.                                                                  *)
_pick_get(u) ==
  /\ tasks["pick"] > 0
  /\ ~IsDrawn /\ ~lottery.armed
  /\ u \in MayBeChosen
  /\ u # NoUser => OpenVisits(u) # {}
  /\ Holds("pick", u)
  /\ tasks' = [tasks EXCEPT !["pick"] = @ - 1]
  /\ UNCHANGED <<visits, statistics, lottery, is_lottery, history>>

_pick_nobody(h) ==
  /\ h.user = NoUser
  /\ Puts(h, "pick", [h.copy EXCEPT !.deleted = TRUE])
  /\ history' = NowOverwritten(h)
  /\ UNCHANGED <<visits, statistics, is_lottery, tasks>>

(* The transaction puts what was read before it.  _continue, which it        *)
(* defers, is to draw another winner a day later.  A task that dies before   *)
(* the transaction is run again.                                             *)
_pick_winner(h) ==
  /\ h.user # NoUser
  /\ Puts(h, "pick", [h.copy EXCEPT
       !.pending = FALSE, !.winner = h.user,
       !.skip_winners = @ \cup ({h.copy.winner} \ {NoUser})])
  /\ Defers("pick")
  /\ history' = NowOverwritten(h)
  /\ UNCHANGED <<visits, statistics, is_lottery>>

_pick_dies(h) ==
  /\ h.op = "pick" /\ MayHappen
  /\ held' = held \ {h}
  /\ Defers("pick")
  /\ history' = Happened(TRUE)
  /\ UNCHANGED <<visits, statistics, lottery, is_lottery>>

-----------------------------------------------------------------------------
(* The prize.                                                                *)

(* The winner presses the button of the message; that of an earlier winner   *)
(* does nothing.                                                             *)
confirm_get(u) ==
  /\ ~IsDrawn /\ lottery.winner = u
  /\ Holds("confirm", u)
  /\ UNCHANGED <<visits, statistics, lottery, is_lottery, tasks, history>>

(* The request may die between the put and the deferral of the task.         *)
redeem_lottery_winner(h) ==
  /\ Puts(h, "confirm", [h.copy EXCEPT !.claimed = TRUE])
  /\ \E dies \in {FALSE} \cup {MayHappen} :
       /\ IF dies THEN UNCHANGED tasks ELSE Defers("redeem")
       /\ history' = [NowOverwritten(h) EXCEPT !.confirmed = @ \cup {h.user},
                                               !.events = IF dies THEN @ + 1 ELSE @]
  /\ UNCHANGED <<visits, statistics, is_lottery>>

(* The shopkeeper hands out the prize to whom the app shows as the winner.   *)
redeem_loyalty_for_user_lottery ==
  /\ lottery.winner # NoUser
  /\ ~(lottery.redeemed /\ lottery.deleted)
  /\ lottery' = [lottery EXCEPT !.claimed = TRUE, !.redeemed = TRUE]
  /\ IF lottery.claimed THEN UNCHANGED tasks ELSE Defers("redeem")
  /\ UNCHANGED <<visits, statistics, is_lottery, held, history>>

(* All visits are redeemed, and no longer counted (the lottery keeps the      *)
(* counts, for show).  Run again, it does so to the visits since then.       *)
redeem_loyalty_lottery_visits ==
  /\ tasks["redeem"] > 0
  /\ \E again \in {FALSE} \cup {MayHappen} :
       /\ tasks' = IF again THEN tasks ELSE [tasks EXCEPT !["redeem"] = @ - 1]
       /\ history' = Happened(again)
  /\ statistics' = NoCount
  /\ visits' = [v \in DOMAIN visits |-> IF visits[v] = "none" THEN "none" ELSE "redeemed"]
  /\ UNCHANGED <<lottery, is_lottery, held>>

-----------------------------------------------------------------------------
Writes(h) ==
  \/ edit_loyalty_lottery_info(h) \/ close_loyalty_lottery_info(h)
  \/ _pick_winner(h) \/ _pick_nobody(h) \/ redeem_lottery_winner(h)

Next ==
  \/ \E u \in Users, d \in Days : add_loyalty_for_user_lottery(u, d) \/ delete_visit(u, d)
  \/ add_loyalty_lottery_info
  \/ put_loyalty_settings
  \/ _schedule_loot_lottery
  \/ _worker
  \/ _pick_returns
  \/ redeem_loyalty_for_user_lottery
  \/ redeem_loyalty_lottery_visits
  \/ edit_get \/ close_get
  \/ \E u \in Users \cup {NoUser} : _pick_get(u)
  \/ \E u \in Users : confirm_get(u)
  \/ \E h \in held : Writes(h) \/ _pick_dies(h)

Spec == Init /\ [][Next]_vars

(* A visitor who can be written to without his profile.                      *)
IsNamed(u) == u # NoUser => \A d \in Days : visits[<<u, d>>] # "unnamed"

(* The cron job runs every few minutes, and what holds a copy puts it.  A    *)
(* deferred task runs until it has succeeded: a draw chooses anew each time, *)
(* and so comes to choose one who has a name when there is one.              *)
Fairness ==
  /\ WF_vars(_schedule_loot_lottery)
  /\ WF_vars(_worker)
  /\ SF_vars(_pick_returns \/ \E u \in Users \cup {NoUser} : IsNamed(u) /\ _pick_get(u))
  /\ WF_vars(\E h \in held : Writes(h))

FairSpec == Spec /\ Fairness

-----------------------------------------------------------------------------
(* Who can be drawn has a visit that is open: the draw looks for one and has *)
(* no way out when there is none ("SolutionLoyaltyVisitLottery for app_user  *)
(* %s not found!").                                                          *)
CountedVisitsExist == \A u \in Users : statistics[u] <= Cardinality(OpenVisits(u))

(* Unless a copy was put over his claim, the one who was told that the prize *)
(* is his stays the winner, though the draw goes on every day.               *)
ConfirmedIsWinner ==
  history.confirmed # {} /\ ~history.overwritten =>
    lottery.claimed /\ history.confirmed = {lottery.winner}

NobodyIsNamed == PossibleWinners # {} /\ \A u \in PossibleWinners : ~IsNamed(u)

(* Every lottery is drawn or closed, or its prize is given, but for one whose *)
(* draw fails for ever because, from some time on, all that can be drawn have *)
(* a visit without a name.                                                    *)
Drawn == lottery.exists ~> (~lottery.pending \/ IsDrawn \/ []NobodyIsNamed)
=============================================================================
