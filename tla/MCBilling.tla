------------------------------ MODULE MCBilling ------------------------------
(***************************************************************************)
(* An instance of Subscriptions for TLC, next to one of Payments: what     *)
(* makes the charges and what pays them.  They share nothing: in one       *)
(* behaviour only the component it started with moves, and of what is      *)
(* fair nothing is enabled in the initial state of the other.              *)
(***************************************************************************)
EXTENDS MCSubscriptions

CONSTANT q1

VARIABLES
  component,  \* the one that moves
  charge, invoice, lastNumber, task, stripe, request

P == INSTANCE Payments WITH
  Charges <- {1, 2}, CreditCardDiscount <- {1}, Requests <- {q1}, MaxNumber <- 3,
  MaxStripe <- 3

payment_vars == <<charge, invoice, lastNumber, task, stripe, request>>

-----------------------------------------------------------------------------
BillingInit == component \in {"subscriptions", "payments"} /\ Init /\ P!Init

BillingNext ==
  \/ /\ component = "subscriptions" /\ Next
     /\ UNCHANGED <<component, payment_vars>>
  \/ /\ component = "payments" /\ P!Next
     /\ UNCHANGED <<component, vars>>

BillingSpec ==
  /\ BillingInit /\ [][BillingNext]_<<component, vars, payment_vars>>
  /\ Fairness /\ P!Fairness

-----------------------------------------------------------------------------
(* Payments: what is executed comes to have an invoice.                    *)
ExecutedIsInvoiced == P!ExecutedIsInvoiced
=============================================================================
