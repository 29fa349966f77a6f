------------------------------ MODULE MCLoyalty ------------------------------
(***************************************************************************)
(* Lottery for TLC, next to CityWideLottery.  They share nothing: in one   *)
(* behaviour only the component it started with moves.                     *)
(***************************************************************************)
EXTENDS Lottery, TLC

CONSTANTS Visits, Visitors, x_winners, MaxCityEvents  \* of CityWideLottery

VARIABLES
  component,  \* the one that moves
  visitor, shop_visits, city_visits, city_statistics, sln_cwl, hidden_module, city_tasks,
  city_held, city_history

City == INSTANCE CityWideLottery WITH
  MaxEvents <- MaxCityEvents, statistics <- city_statistics, tasks <- city_tasks,
  held <- city_held, history <- city_history

ASSUME CityConstants == City!CityWideLotteryAssumption

(* The visits are of one visitor or of several; who is the first does not  *)
(* matter.                                                                 *)
OneOrMore ==
  LET u == CHOOSE u \in Users : TRUE
      v == CHOOSE v \in Visits : TRUE
  IN {f \in [Visits -> Users] : f[v] = u}

-----------------------------------------------------------------------------
city_vars == <<visitor, shop_visits, city_visits, city_statistics, sln_cwl, hidden_module,
               city_tasks, city_held, city_history>>

(* The visitors of a lottery that does not move do not matter.             *)
LoyaltyInit ==
  /\ component \in {"lottery", "city"}
  /\ Init /\ City!Init
  /\ component # "city" => visitor = CHOOSE f \in Visitors : TRUE

LoyaltyNext ==
  \/ component = "lottery" /\ Next /\ UNCHANGED <<component, city_vars>>
  \/ component = "city" /\ City!Next /\ UNCHANGED <<component, vars>>

(* What fairness speaks of cannot happen in the first state of a component. *)
LoyaltySpec ==
  /\ LoyaltyInit /\ [][LoyaltyNext]_<<component, vars, city_vars>>
  /\ Fairness /\ City!Fairness

-----------------------------------------------------------------------------
(* Each variable of each of the two has its type.                        *)
TypesOK ==
  /\ component = "lottery" => TypeOK
  /\ component = "city" => City!TypeOK

(* CityWideLottery: who can be drawn has an open visit.                    *)
CityVisitsExist == City!CountedVisitsExist

(* Each lottery, of a shop or of a city, is drawn or closed.               *)
LotteriesAreDrawn == Drawn /\ City!Drawn

(* CityWideLottery: who was drawn stays a winner.                          *)
WinnersStay == City!WinnersStay
=============================================================================
