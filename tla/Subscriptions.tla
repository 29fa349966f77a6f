--------------------------- MODULE Subscriptions ---------------------------
(***************************************************************************)
(* The orders of one customer and the recurrent billing of his             *)
(* subscription: create_order, sign_order, cancel_order in shop/bizz.py,   *)
(* the daily shop/jobs/recurrentbilling.py, and cancel_subscription,       *)
(* set_next_charge_date, set_expired_subscription_status and               *)
(* set_service_disabled/enabled in shop/business.                          *)
(*                                                                         *)
(* A datastore transaction is one action.  The functions that read the     *)
(* customer or an order outside a transaction and write it later are two   *)
(* actions: writer holds what they read.                                   *)
(***************************************************************************)
EXTENDS Integers, Sequences, FiniteSets

CONSTANTS
  Orders,           \* the orders the customer may place
  NoOrder,          \* no order: subscription_order_number is None
  Item,             \* what an order is for
  ExtensionMonths,  \* months of an extended subscription (12)
  NextChargeDates,  \* months an administrator may set as next charge date
  MaxMonth,         \* bound: the months that pass
  MaxDate,          \* bound: the months an order can be paid for
  MaxTasks          \* bound: tasks of run_job on the queue

ASSUME SubscriptionsAssumption ==
  /\ NoOrder \notin Orders /\ Orders # {}
  /\ Item \in [Orders -> [is_subscription: BOOLEAN, count: Nat \ {0}, price: Nat,
                          extra_subscription_months: Nat,
                          is_subscription_extension: BOOLEAN]]
  /\ ExtensionMonths \in Nat \ {0}
  /\ NextChargeDates \subseteq 1 .. MaxDate
  /\ MaxMonth \in Nat \ {0} /\ MaxDate \in Nat \ {0} /\ MaxTasks \in Nat

VARIABLES
  today,     \* the month
  order,     \* the Order entities
  charges,   \* the charges of every order, oldest first
  customer,  \* the Customer entity
  expired,   \* whether the customer has an ExpiredSubscription
  toSign,    \* deferred sign_order, of orders that cost nothing
  toCharge,  \* the tasks of run_job: _create_charge
  toEnable,  \* deferred set_service_enabled
  writer     \* a function that has read an entity and will write it

vars == <<today, order, charges, customer, expired, toSign, toCharge, toEnable,
          writer>>

-----------------------------------------------------------------------------
NONE     == "none"        \* not created
UNSIGNED == "unsigned"
SIGNED   == "signed"
CANCELED == "canceled"

(* A next_charge_date of 0 is None. *)
OrderEntity == [status: {NONE, UNSIGNED, SIGNED, CANCELED}, signature: BOOLEAN,
                next_charge_date: 0 .. MaxDate]

NewOrder == [status |-> NONE, signature |-> FALSE, next_charge_date |-> 0]

(* month: the month that is charged; the next charge date, for a recurring *)
(* charge.                                                                 *)
ChargeEntity ==
  [type: {"order_delivery", "recurring_subscription", "subscription_extension"},
   status: {"pending", "cancelled"}, month: Nat]

Customer == [subscription: Orders \cup {NoOrder}, cancel_pending: BOOLEAN,
             disabled: BOOLEAN, card: BOOLEAN, service: BOOLEAN]

NewCustomer == [subscription |-> NoOrder, cancel_pending |-> FALSE,
                disabled |-> FALSE, card |-> FALSE, service |-> TRUE]

Writer == [op: {"idle", "cancel_subscription", "cancel_immediately",
                "set_next_charge_date", "set_service_enabled", "cancel_order"},
           customer: Customer, order: Orders, entity: OrderEntity]

Idle == [op |-> "idle", customer |-> NewCustomer,
         order |-> CHOOSE o \in Orders : TRUE, entity |-> NewOrder]

TypeOK ==
  /\ today \in 1 .. MaxMonth
  /\ order \in [Orders -> OrderEntity]
  /\ charges \in [Orders -> Seq(ChargeEntity)]
  /\ customer \in Customer
  /\ expired \in BOOLEAN
  /\ toSign \subseteq Orders
  /\ toCharge \subseteq [order: Orders, today: 1 .. MaxMonth]
  /\ toEnable \in BOOLEAN
  /\ writer \in Writer

Init ==
  /\ today = 1
  /\ order = [o \in Orders |-> NewOrder]
  /\ charges = [o \in Orders |-> <<>>]
  /\ customer \in {NewCustomer, [NewCustomer EXCEPT !.card = TRUE]}
  /\ expired = FALSE
  /\ toSign = {} /\ toCharge = {} /\ toEnable = FALSE
  /\ writer = Idle

Charged(o, type, month) ==
  [charges EXCEPT ![o] =
     Append(@, [type |-> type, status |-> "pending", month |-> month])]

-----------------------------------------------------------------------------
(* cancel_order, for the customer c that its caller has read.              *)

TakesMonthsBack(o) ==
  /\ ~Item[o].is_subscription
  /\ order[o].status = SIGNED
  /\ Item[o].extra_subscription_months > 0

MayCancel(o, c) ==
  /\ order[o].status \in {UNSIGNED, SIGNED}
  /\ TakesMonthsBack(o) => /\ c.subscription # NoOrder
                           /\ order[c.subscription].next_charge_date # 0

Canceled(o, c) ==
  [p \in Orders |->
     IF p = o THEN [order[p] EXCEPT !.status = CANCELED]
     ELSE IF TakesMonthsBack(o) /\ p = c.subscription
     THEN [order[p] EXCEPT !.next_charge_date =
             @ - Item[o].extra_subscription_months]
     ELSE order[p]]

ChargesCanceled(o) ==
  [charges EXCEPT ![o] =
     IF order[o].status = SIGNED
     THEN [i \in DOMAIN @ |-> [@[i] EXCEPT !.status = "cancelled"]] ELSE @]

(* Mutant: the customer keeps a subscription that is cancelled. *)
KeepingSubscription(o, c) == c

WithoutSubscription(o, c) ==
  IF Item[o].is_subscription THEN [c EXCEPT !.subscription = NoOrder] ELSE c

(* A second subscription replaces the first one, or is refused. *)
create_order(o) ==
  LET old == customer.subscription
      replaces == Item[o].is_subscription /\ old # NoOrder
  IN
  /\ order[o].status = NONE
  /\ replaces => MayCancel(old, customer)
  /\ order' = [(IF replaces THEN Canceled(old, customer) ELSE order)
                 EXCEPT ![o].status = UNSIGNED]
  /\ charges' = IF replaces THEN ChargesCanceled(old) ELSE charges
  /\ customer' = IF Item[o].is_subscription
                 THEN [customer EXCEPT !.subscription = o] ELSE customer
  /\ toSign' = IF Item[o].price = 0 THEN toSign \cup {o} ELSE toSign
  /\ UNCHANGED <<today, expired, toCharge, toEnable, writer>>

-----------------------------------------------------------------------------
(* sign_order                                                              *)

Months(o) ==
  (IF Item[o].price > 0 THEN Item[o].count ELSE 0)
    + Item[o].extra_subscription_months

(* Mutant: the months of the order are counted twice. *)
SignedTooLong(o) == today + 2 * Months(o) + 1

SignedUntil(o) == today + (IF Months(o) > 0 THEN Months(o) ELSE 1)

sign_order(o, no_charge) ==
  LET item == Item[o]
      sub == customer.subscription
      extends == ~item.is_subscription /\ item.extra_subscription_months > 0
      follows == ~item.is_subscription /\ item.is_subscription_extension
      subDate == order[sub].next_charge_date
                   + (IF extends THEN item.extra_subscription_months ELSE 0)
  IN
  /\ order[o].status # NONE
  /\ ~order[o].signature
  /\ extends => sub # NoOrder /\ order[sub].next_charge_date # 0
  /\ follows => sub # NoOrder
  /\ order' = [p \in Orders |->
       IF p = o
       THEN [status |-> SIGNED, signature |-> ~no_charge,
             next_charge_date |-> IF item.is_subscription THEN SignedUntil(o)
                                  ELSE IF follows THEN subDate
                                  ELSE order[o].next_charge_date]
       ELSE IF extends /\ p = sub
       THEN [order[p] EXCEPT !.next_charge_date = subDate]
       ELSE order[p]]
  /\ charges' = IF no_charge \/ item.price = 0 THEN charges
                ELSE Charged(o, "order_delivery", today)
  /\ toEnable' = (toEnable \/ (item.is_subscription /\ customer.disabled))
  /\ UNCHANGED <<today, customer, expired, toCharge, writer>>

SignedByContact(o) == sign_order(o, FALSE) /\ UNCHANGED toSign

(* The task queue runs a task at least once: it may stay on the queue. *)
SignedByTask(o) ==
  /\ o \in toSign
  /\ sign_order(o, TRUE)
  /\ toSign' \in {toSign, toSign \ {o}}

-----------------------------------------------------------------------------
(* The recurrent billing                                                   *)

(* Mutant: only what is due this very month. *)
DueThisMonth(o) ==
  Item[o].is_subscription /\ order[o].next_charge_date = today - 1
    /\ order[o].status = SIGNED

_qry(o) ==
  /\ Item[o].is_subscription
  /\ order[o].next_charge_date < today
  /\ order[o].status = SIGNED

_recurrent_billing ==
  /\ \E o \in Orders : _qry(o)
  /\ toCharge' = toCharge \cup
       {[order |-> o, today |-> today] : o \in {p \in Orders : _qry(p)}}
  /\ Cardinality(toCharge') <= MaxTasks
  /\ UNCHANGED <<today, order, charges, customer, expired, toSign, toEnable,
                 writer>>

(* Mutant: nothing stops a second task from charging the next month. *)
AnyDate(t) == order[t.order].next_charge_date # 0

IsDue(t) == order[t.order].next_charge_date \in 1 .. t.today

DueExtensions(t) ==
  {e \in Orders : /\ ~Item[e].is_subscription
                  /\ Item[e].is_subscription_extension
                  /\ order[e].status = SIGNED
                  /\ order[e].next_charge_date < t.today}

CostsNothing(t) == \A p \in {t.order} \cup DueExtensions(t) : Item[p].price = 0

(* Mutants: a month is charged again; the date moves before the card is    *)
(* looked at.                                                              *)
SameMonth(date) == date

NextMonth(date) == date + 1

DateMoves(t) == [order EXCEPT ![t.order].next_charge_date = @ + 1]

DateStays(t) == order

SkipCharge(t) == ~IsDue(t) /\ UNCHANGED <<order, charges, customer, expired>>

EndSubscription(t) ==
  LET o == t.order
      cancels == order[o].status # CANCELED
      c == IF cancels THEN WithoutSubscription(o, customer) ELSE customer
  IN
  /\ IsDue(t)
  /\ customer.cancel_pending
  /\ customer.service
  /\ order' = IF cancels THEN Canceled(o, customer) ELSE order
  /\ charges' = IF cancels THEN ChargesCanceled(o) ELSE charges
  /\ customer' = [c EXCEPT !.disabled = TRUE, !.cancel_pending = FALSE]
  /\ expired' = FALSE

SkipFree(t) ==
  /\ IsDue(t) /\ ~customer.cancel_pending
  /\ CostsNothing(t)
  /\ order' = [order EXCEPT ![t.order].next_charge_date = today + 1]
  /\ UNCHANGED <<charges, customer, expired>>

MayCharge(o) == customer.card \/ Item[o].count = 1

Expire(t) ==
  /\ IsDue(t) /\ ~customer.cancel_pending
  /\ ~CostsNothing(t)
  /\ ~MayCharge(t.order)
  /\ expired' = TRUE
  /\ order' = DateStays(t)
  /\ UNCHANGED <<charges, customer>>

ChargeMonth(t) ==
  LET o == t.order
      date == order[o].next_charge_date
  IN
  /\ IsDue(t) /\ ~customer.cancel_pending
  /\ ~CostsNothing(t)
  /\ MayCharge(o)
  /\ charges' = Charged(o, "recurring_subscription", date)
  /\ order' = [p \in Orders |->
       IF p = o \/ p \in DueExtensions(t)
       THEN [order[p] EXCEPT !.next_charge_date = NextMonth(date)]
       ELSE order[p]]
  /\ expired' = FALSE
  /\ UNCHANGED customer

(* Whatever goes wrong is logged and swallowed: to the queue the task ran. *)
FailsToCharge(t) ==
  /\ UNCHANGED <<order, charges, customer, expired>>
  /\ toCharge' = toCharge \ {t}

_create_charge(t) ==
  /\ \/ SkipCharge(t) \/ EndSubscription(t) \/ SkipFree(t) \/ Expire(t)
     \/ ChargeMonth(t) \/ FailsToCharge(t)
  /\ toCharge' \in {toCharge, toCharge \ {t}}
  /\ UNCHANGED <<today, toSign, toEnable, writer>>

(* The expired subscription is extended.  to_put is made outside the       *)
(* transaction: when this runs again it still holds the first charge.      *)
set_expired_subscription_status ==
  LET sub == customer.subscription
      once == [type |-> "subscription_extension", status |-> "pending",
               month |-> today]
  IN
  /\ expired
  /\ sub # NoOrder
  /\ Item[sub].price > 0
  /\ charges' \in {[charges EXCEPT ![sub] = Append(@, once)],
                   [charges EXCEPT ![sub] = @ \o <<once, once>>]}
  /\ order' = [order EXCEPT ![sub].next_charge_date = today + ExtensionMonths]
  /\ expired' = FALSE
  /\ toEnable' = (toEnable \/ customer.disabled)
  /\ UNCHANGED <<today, customer, toSign, toCharge, writer>>

store_stripe_link_to_datastore ==
  /\ ~customer.card
  /\ customer' = [customer EXCEPT !.card = TRUE]
  /\ UNCHANGED <<today, order, charges, expired, toSign, toCharge, toEnable,
                 writer>>

MonthPasses ==
  /\ today < MaxMonth
  /\ today' = today + 1
  /\ UNCHANGED <<order, charges, customer, expired, toSign, toCharge, toEnable,
                 writer>>

-----------------------------------------------------------------------------
(* Functions that read first and write later                               *)

Read(op, o) ==
  /\ writer.op = "idle"
  /\ writer' = [op |-> op, customer |-> customer, order |-> o,
                entity |-> order[o]]
  /\ UNCHANGED <<today, order, charges, customer, expired, toSign, toCharge,
                 toEnable>>

ReadForCancelSubscription ==
  /\ customer.subscription # NoOrder
  /\ \/ /\ order[customer.subscription].status = SIGNED
        /\ Read("cancel_subscription", customer.subscription)
     \/ Read("cancel_immediately", customer.subscription)

ReadForNextChargeDate ==
  /\ customer.subscription # NoOrder
  /\ order[customer.subscription].status = SIGNED
  /\ NextChargeDates # {}
  /\ Read("set_next_charge_date", customer.subscription)

ReadForServiceEnabled ==
  /\ toEnable
  /\ customer.service
  /\ \E o \in Orders : o = Idle.order /\ Read("set_service_enabled", o)

ReadForCancelOrder(o) == order[o].status # NONE /\ Read("cancel_order", o)

(* cancel_subscription at the end of the subscription. *)
cancel_subscription ==
  /\ writer.op = "cancel_subscription"
  /\ customer' = [writer.customer EXCEPT !.cancel_pending = TRUE]
  /\ writer' = Idle
  /\ UNCHANGED <<today, order, charges, expired, toSign, toCharge, toEnable>>

(* The transaction of cancel_subscription: the order is read in it, the    *)
(* customer is not.                                                        *)
cancel_immediately ==
  LET o == writer.order
      cancels == order[o].status # CANCELED
      c == IF cancels THEN WithoutSubscription(o, writer.customer)
           ELSE writer.customer
  IN
  /\ writer.op = "cancel_immediately"
  /\ writer.customer.service
  /\ order' = IF cancels THEN Canceled(o, writer.customer) ELSE order
  /\ charges' = IF cancels THEN ChargesCanceled(o) ELSE charges
  /\ customer' = [c EXCEPT !.disabled = TRUE, !.cancel_pending = FALSE]
  /\ writer' = Idle
  /\ UNCHANGED <<today, expired, toSign, toCharge, toEnable>>

set_next_charge_date ==
  /\ writer.op = "set_next_charge_date"
  /\ \E date \in NextChargeDates :
       order' = [order EXCEPT ![writer.order] =
                   [writer.entity EXCEPT !.next_charge_date = date]]
  /\ writer' = Idle
  /\ UNCHANGED <<today, charges, customer, expired, toSign, toCharge, toEnable>>

set_service_enabled ==
  /\ writer.op = "set_service_enabled"
  /\ customer' = [writer.customer EXCEPT !.disabled = FALSE,
                                         !.cancel_pending = FALSE]
  /\ toEnable' \in {toEnable, FALSE}
  /\ writer' = Idle
  /\ UNCHANGED <<today, order, charges, expired, toSign, toCharge>>

(* rest_cancel_order: with the subscription goes the service. *)
cancel_order ==
  LET o == writer.order
      c == WithoutSubscription(o, writer.customer)
  IN
  /\ writer.op = "cancel_order"
  /\ MayCancel(o, writer.customer)
  /\ order' = Canceled(o, writer.customer)
  /\ charges' = ChargesCanceled(o)
  /\ customer' = [c EXCEPT !.service = @ /\ ~Item[o].is_subscription]
  /\ writer' = Idle
  /\ UNCHANGED <<today, expired, toSign, toCharge, toEnable>>

(* The function fails: an exception, a check, the end of the request. *)
Fail ==
  /\ writer.op # "idle"
  /\ writer' = Idle
  /\ UNCHANGED <<today, order, charges, customer, expired, toSign, toCharge,
                 toEnable>>

-----------------------------------------------------------------------------
Transactions ==
  \/ \E o \in Orders : create_order(o) \/ SignedByContact(o) \/ SignedByTask(o)
  \/ _recurrent_billing
  \/ \E t \in toCharge : _create_charge(t)
  \/ set_expired_subscription_status
  \/ store_stripe_link_to_datastore
  \/ MonthPasses

Reads ==
  \/ ReadForCancelSubscription \/ ReadForNextChargeDate \/ ReadForServiceEnabled
  \/ \E o \in Orders : ReadForCancelOrder(o)

Writes ==
  \/ cancel_subscription \/ cancel_immediately \/ set_next_charge_date
  \/ set_service_enabled \/ cancel_order \/ Fail

Next == Transactions \/ Reads \/ Writes

Spec == Init /\ [][Next]_vars

(* The job runs every day and the task queue runs its tasks, whatever      *)
(* comes of them.                                                          *)
Fairness ==
  /\ WF_vars(_recurrent_billing)
  /\ \A t \in [order: Orders, today: 1 .. MaxMonth] :
       WF_vars(t \in toCharge /\ _create_charge(t))

FairSpec == Spec /\ Fairness

-----------------------------------------------------------------------------
(* Properties                                                              *)

IsRecurring(charge) == charge.type = "recurring_subscription"

(* No month is charged twice, though the job may run any number of times,  *)
(* a task may run again and an old one much later.                         *)
MonthChargedOnce ==
  \A o \in Orders : \A i, j \in DOMAIN charges[o] :
     /\ IsRecurring(charges[o][i]) /\ IsRecurring(charges[o][j])
     /\ charges[o][i].month = charges[o][j].month
     => i = j

(* No month is charged before it is due. *)
ChargedWhenDue ==
  \A o \in Orders : \A i \in DOMAIN charges[o] : charges[o][i].month <= today

(* A subscription is paid for longer only when there is a charge for it,   *)
(* when it is free, or when it was signed with that.                       *)
NoFreeMonth ==
  [][\A o \in Orders :
       /\ order[o].status = SIGNED /\ order[o].next_charge_date # 0
       /\ Item[o].price > 0 /\ Item[o].is_subscription
       /\ order'[o].next_charge_date > order[o].next_charge_date
       => Len(charges'[o]) > Len(charges[o])]_vars

IsOverdue(o) == /\ Item[o].is_subscription /\ order[o].status = SIGNED
                /\ order[o].next_charge_date < today

(* What is due does not stay so, though a task may fail and is not tried   *)
(* again: unless the tasks of the order fail for ever, day after day, it   *)
(* is charged until it is no longer due, it is cancelled, or the customer  *)
(* is on the list of expired subscriptions, who are called.                *)
DueIsHandled ==
  \A o \in Orders :
     \/ []<><<\E t \in toCharge : t.order = o /\ FailsToCharge(t)>>_vars
     \/ IsOverdue(o) ~> (~IsOverdue(o) \/ expired)

(* The subscription of the customer is not a cancelled one. *)
CurrentIsLive ==
  customer.subscription # NoOrder =>
    order[customer.subscription].status \in {UNSIGNED, SIGNED}

(* A write of the customer as he was when he had another subscription.     *)
WritesOldSubscription ==
  /\ writer.op \in {"cancel_subscription", "cancel_immediately",
                    "set_service_enabled", "cancel_order"}
  /\ writer.customer.subscription # customer.subscription

(* Whoever places, replaces, signs, bills, extends or cancels orders, in   *)
(* any order and between the reads and writes of the others: a customer is *)
(* left with a subscription that is a cancelled order only by the put of   *)
(* an old copy of him.                                                     *)
StaysLiveUnlessOverwritten ==
  [][CurrentIsLive /\ ~CurrentIsLive' => WritesOldSubscription]_vars

(* A customer has one subscription: "only 1 is supported". *)
OneLiveSubscription ==
  \A o, p \in Orders :
     /\ Item[o].is_subscription /\ order[o].status = SIGNED
     /\ Item[p].is_subscription /\ order[p].status = SIGNED
     => o = p
=============================================================================
