------------------------------- MODULE MCOrders -------------------------------
(***************************************************************************)
(* An instance of Store for TLC, next to one of Subscriptions in which the *)
(* subscription of a customer is replaced while others hold old copies.    *)
(* They share nothing: in one behaviour only the component it started with *)
(* moves.                                                                  *)
(***************************************************************************)
EXTENDS MCStore

VARIABLES
  component,  \* the one that moves
  today, order, charges, subscriber, expired, toSign, toCharge, toEnable, writer

(* A free subscription, one that is not, and an extra city with a month.   *)
FreeAndExtra ==
  LET Line(subscription, unit, extra) ==
        [is_subscription |-> subscription, count |-> 1, price |-> unit,
         extra_subscription_months |-> extra,
         is_subscription_extension |-> ~subscription]
  IN <<Line(TRUE, 0, 0), Line(TRUE, 1, 0), Line(FALSE, 1, 1)>>

S == INSTANCE Subscriptions WITH
  Orders <- {1, 2, 3}, NoOrder <- 0, Item <- FreeAndExtra, ExtensionMonths <- 2,
  NextChargeDates <- {3}, MaxMonth <- 2, MaxDate <- 6, MaxTasks <- 1,
  customer <- subscriber

subscription_vars ==
  <<today, order, charges, subscriber, expired, toSign, toCharge, toEnable, writer>>

-----------------------------------------------------------------------------
OrdersInit == component \in {"store", "subscriptions"} /\ Init /\ S!Init

OrdersNext ==
  \/ /\ component = "store" /\ Next
     /\ UNCHANGED <<component, subscription_vars>>
  \/ /\ component = "subscriptions" /\ S!Next
     /\ UNCHANGED <<component, vars>>

OrdersSpec == OrdersInit /\ [][OrdersNext]_<<component, vars, subscription_vars>>

(* A state constraint: whether an order of one month may be charged does    *)
(* not depend on the card.                                                 *)
WithCard == subscriber.card

(* Subscriptions: only the put of an old copy of the customer leaves him   *)
(* with a subscription that is a cancelled order.                          *)
StaysLiveUnlessOverwritten == S!StaysLiveUnlessOverwritten
=============================================================================
