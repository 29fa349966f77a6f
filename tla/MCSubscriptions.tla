--------------------------- MODULE MCSubscriptions ---------------------------
(* Instances of Subscriptions for TLC. *)
EXTENDS Subscriptions

CONSTANT NotAnOrder

Subscription(price, count) ==
  [is_subscription |-> TRUE, count |-> count, price |-> price,
   extra_subscription_months |-> 0, is_subscription_extension |-> FALSE]

OneSubscription  == <<Subscription(1, 2)>>
TwoSubscriptions == <<Subscription(1, 1), Subscription(1, 1)>>
=============================================================================
