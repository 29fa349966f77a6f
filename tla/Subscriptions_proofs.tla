------------------------ MODULE Subscriptions_proofs ------------------------
(***************************************************************************)
(* Theorems about Subscriptions, for any orders and bounds.                *)
(***************************************************************************)
EXTENDS Subscriptions, TLAPS

-----------------------------------------------------------------------------
(* The types, for next charge dates without a bound.                       *)

OrderRecord == [status: {NONE, UNSIGNED, SIGNED, CANCELED}, signature: BOOLEAN,
                next_charge_date: Int]

WriterRecord ==
  [op: {"idle", "cancel_subscription", "cancel_immediately",
        "set_next_charge_date", "set_service_enabled", "cancel_order"},
   customer: Customer, order: Orders, entity: OrderRecord]

Types ==
  /\ today \in 1 .. MaxMonth
  /\ order \in [Orders -> OrderRecord]
  /\ charges \in [Orders -> Seq(ChargeEntity)]
  /\ customer \in Customer
  /\ toSign \subseteq Orders
  /\ toCharge \subseteq [order: Orders, today: 1 .. MaxMonth]
  /\ writer \in WriterRecord

(* What is due is charged by a task of today or of an earlier day.         *)
TasksOfThePast == \A t \in toCharge : t.today <= today

TimelyInv == Types /\ TasksOfThePast /\ ChargedWhenDue

-----------------------------------------------------------------------------
(* What the operators of Subscriptions do to the types.                    *)

LEMMA NewDate ==
  ASSUME NEW r \in OrderRecord, NEW d \in Int
  PROVE  /\ [r EXCEPT !.next_charge_date = d] \in OrderRecord
         /\ [r EXCEPT !.next_charge_date = d].next_charge_date = d
  BY DEF OrderRecord

LEMMA NewStatus ==
  ASSUME NEW f \in [Orders -> OrderRecord], NEW o \in Orders,
         NEW s \in {NONE, UNSIGNED, SIGNED, CANCELED}
  PROVE  /\ [f EXCEPT ![o].status = s] \in [Orders -> OrderRecord]
         /\ \A p \in Orders : [f EXCEPT ![o].status = s][p].next_charge_date
                                = f[p].next_charge_date
<1>1. [f[o] EXCEPT !.status = s] \in OrderRecord
  BY DEF OrderRecord
<1>2. [f[o] EXCEPT !.status = s].next_charge_date = f[o].next_charge_date
  BY DEF OrderRecord
<1>3. [f EXCEPT ![o].status = s] = [f EXCEPT ![o] = [f[o] EXCEPT !.status = s]]
  OBVIOUS
<1>4. DEFINE r == [f[o] EXCEPT !.status = s]
<1>5. r \in OrderRecord /\ r.next_charge_date = f[o].next_charge_date
  BY <1>1, <1>2
<1>6. [f EXCEPT ![o].status = s] = [f EXCEPT ![o] = r]
  BY <1>3
<1> HIDE DEF r
<1> QED
  BY <1>5, <1>6

(* An extra of no months takes none back.                                  *)
LEMMA CanceledOrders ==
  ASSUME Types, NEW o \in Orders, NEW c \in Customer
  PROVE  /\ Canceled(o, c) \in [Orders -> OrderRecord]
         /\ \A p \in Orders :
              Item[o].extra_subscription_months = 0 =>
                Canceled(o, c)[p].next_charge_date = order[p].next_charge_date
<1> DEFINE r(p) == Canceled(o, c)[p]
<1>1. ASSUME NEW p \in Orders
      PROVE  /\ r(p) \in OrderRecord
             /\ Item[o].extra_subscription_months = 0 =>
                  r(p).next_charge_date = order[p].next_charge_date
  <2>1. order[p] \in OrderRecord /\ order[p].next_charge_date \in Int
    BY DEF Types, OrderRecord
  <2>2. CASE p = o
    <3>1. r(p) = [order[p] EXCEPT !.status = CANCELED]
      BY <2>2 DEF Canceled
    <3> HIDE DEF r
    <3> QED
      BY <3>1, <2>1 DEF OrderRecord
  <2>3. CASE p # o /\ TakesMonthsBack(o) /\ p = c.subscription
    <3>1. Item[o].extra_subscription_months \in Nat
          /\ Item[o].extra_subscription_months > 0
      BY <2>3, SubscriptionsAssumption DEF TakesMonthsBack
    <3>2. r(p) = [order[p] EXCEPT !.next_charge_date =
                    order[p].next_charge_date - Item[o].extra_subscription_months]
      BY <2>3 DEF Canceled
    <3>3. order[p].next_charge_date - Item[o].extra_subscription_months \in Int
      BY <2>1, <3>1
    <3> HIDE DEF r
    <3> QED
      BY <3>1, <3>2, <3>3, <2>1, NewDate
  <2>4. CASE p # o /\ ~(TakesMonthsBack(o) /\ p = c.subscription)
    BY <2>1, <2>4 DEF Canceled
  <2> QED
    BY <2>2, <2>3, <2>4
<1>2. Canceled(o, c) = [p \in Orders |-> r(p)]
  BY DEF Canceled
<1> HIDE DEF r
<1> QED
  BY <1>1, <1>2

(* The charges of ds are those of cs, but for their status.                *)
SameCharges(ds) ==
  /\ ds \in [Orders -> Seq(ChargeEntity)]
  /\ \A p \in Orders :
       /\ DOMAIN ds[p] = DOMAIN charges[p]
       /\ \A i \in DOMAIN charges[p] : /\ ds[p][i].type = charges[p][i].type
                                       /\ ds[p][i].month = charges[p][i].month

LEMMA CanceledCharges ==
  ASSUME Types, NEW o \in Orders
  PROVE  SameCharges(ChargesCanceled(o))
<1> DEFINE s == charges[o]
           u == [i \in DOMAIN s |-> [s[i] EXCEPT !.status = "cancelled"]]
<1>1. s \in Seq(ChargeEntity) /\ DOMAIN s = 1 .. Len(s) /\ Len(s) \in Nat
  BY DEF Types
<1>2. \A i \in 1 .. Len(s) :
        /\ [s[i] EXCEPT !.status = "cancelled"] \in ChargeEntity
        /\ [s[i] EXCEPT !.status = "cancelled"].type = s[i].type
        /\ [s[i] EXCEPT !.status = "cancelled"].month = s[i].month
  <2> TAKE i \in 1 .. Len(s)
  <2> DEFINE x == s[i]
  <2>1. x \in ChargeEntity
    BY <1>1
  <2> HIDE DEF x
  <2>2. /\ [x EXCEPT !.status = "cancelled"] \in ChargeEntity
        /\ [x EXCEPT !.status = "cancelled"].type = x.type
        /\ [x EXCEPT !.status = "cancelled"].month = x.month
    BY <2>1 DEF ChargeEntity
  <2> QED
    BY <2>2 DEF x
<1>3. u \in [1 .. Len(s) -> ChargeEntity]
  BY <1>1, <1>2
<1>4. u \in Seq(ChargeEntity)
  BY <1>1, <1>3
<1>5. DOMAIN u = DOMAIN s
      /\ \A i \in DOMAIN s : u[i].type = s[i].type /\ u[i].month = s[i].month
  BY <1>1, <1>2
<1>6. ChargesCanceled(o) = charges \/ ChargesCanceled(o) = [charges EXCEPT ![o] = u]
  BY DEF ChargesCanceled, Types
<1> HIDE DEF u
<1> QED
  BY <1>4, <1>5, <1>6 DEF SameCharges, Types

(* charges, with n more of order o.                                        *)
MoreCharges(ds, o, type, month, n) ==
  /\ ds \in [Orders -> Seq(ChargeEntity)]
  /\ \A p \in Orders : p # o => ds[p] = charges[p]
  /\ DOMAIN ds[o] = 1 .. Len(charges[o]) + n
  /\ \A i \in DOMAIN charges[o] : ds[o][i] = charges[o][i]
  /\ \A i \in Len(charges[o]) + 1 .. Len(charges[o]) + n :
       ds[o][i].type = type /\ ds[o][i].month = month

LEMMA ChargedOneMore ==
  ASSUME Types, NEW o \in Orders, NEW month \in Nat,
         NEW type \in {"order_delivery", "recurring_subscription",
                       "subscription_extension"}
  PROVE  MoreCharges(Charged(o, type, month), o, type, month, 1)
<1> DEFINE c == [type |-> type, status |-> "pending", month |-> month]
           u == Append(charges[o], c)
<1>1. c \in ChargeEntity /\ c.type = type /\ c.month = month
  BY DEF ChargeEntity
<1>4. Charged(o, type, month) = [charges EXCEPT ![o] = u]
  BY DEF Charged, Types
<1> HIDE DEF c
<1>2. charges[o] \in Seq(ChargeEntity) /\ Len(charges[o]) \in Nat
      /\ DOMAIN charges[o] = 1 .. Len(charges[o])
  BY DEF Types
<1>3. /\ u \in Seq(ChargeEntity)
      /\ DOMAIN u = 1 .. Len(charges[o]) + 1
      /\ \A i \in DOMAIN charges[o] : u[i] = charges[o][i]
      /\ u[Len(charges[o]) + 1] = c
  BY <1>1, <1>2
<1>5. \A i \in Len(charges[o]) + 1 .. Len(charges[o]) + 1 :
        i = Len(charges[o]) + 1
  BY <1>2
<1> HIDE DEF u
<1> QED
  BY <1>1, <1>3, <1>4, <1>5 DEF MoreCharges, Types

LEMMA ExtendedTwice ==
  ASSUME Types, NEW o \in Orders, NEW c \in ChargeEntity
  PROVE  MoreCharges([charges EXCEPT ![o] = @ \o <<c, c>>], o, c.type, c.month, 2)
<1> DEFINE u == charges[o] \o <<c, c>>
<1>2. charges[o] \in Seq(ChargeEntity) /\ Len(charges[o]) \in Nat
      /\ DOMAIN charges[o] = 1 .. Len(charges[o])
  BY DEF Types
<1>3. /\ u \in Seq(ChargeEntity)
      /\ DOMAIN u = 1 .. Len(charges[o]) + 2
      /\ \A i \in DOMAIN charges[o] : u[i] = charges[o][i]
      /\ u[Len(charges[o]) + 1] = c
      /\ u[Len(charges[o]) + 2] = c
  BY <1>2
<1>5. \A i \in Len(charges[o]) + 1 .. Len(charges[o]) + 2 :
        i = Len(charges[o]) + 1 \/ i = Len(charges[o]) + 2
  BY <1>2
<1> HIDE DEF u
<1>6. [charges EXCEPT ![o] = u] \in [Orders -> Seq(ChargeEntity)]
  BY <1>3 DEF Types
<1>7. [charges EXCEPT ![o] = u][o] = u
  BY DEF Types
<1>8. \A i \in Len(charges[o]) + 1 .. Len(charges[o]) + 2 : u[i] = c
  BY <1>3, <1>5
<1>9. MoreCharges([charges EXCEPT ![o] = u], o, c.type, c.month, 2)
  BY <1>3, <1>6, <1>7, <1>8 DEF MoreCharges, Types
<1> QED
  BY <1>9 DEF u

LEMMA CustomerWithout ==
  ASSUME NEW o \in Orders, NEW c \in Customer
  PROVE  WithoutSubscription(o, c) \in Customer
  BY DEF WithoutSubscription, Customer

LEMMA ServiceGone ==
  ASSUME NEW c \in Customer
  PROVE  [c EXCEPT !.disabled = TRUE, !.cancel_pending = FALSE] \in Customer
  BY DEF Customer

LEMMA IdleType == Idle \in WriterRecord
<1>1. (CHOOSE o \in Orders : TRUE) \in Orders
  BY SubscriptionsAssumption
<1>2. NewCustomer \in Customer
  BY DEF NewCustomer, Customer
<1>3. NewOrder \in OrderRecord
  BY DEF NewOrder, OrderRecord
<1> QED
  BY <1>1, <1>2, <1>3 DEF Idle, WriterRecord

-----------------------------------------------------------------------------
(* What a step may do.  The next charge dates go forward, or lie in the    *)
(* future, when no order adds months and no administrator sets a date.     *)

NoMonthsByHand == /\ NextChargeDates = {}
                  /\ \A o \in Orders : Item[o].extra_subscription_months = 0

DatesForward ==
  \A p \in Orders : Item[p].is_subscription =>
     \/ order'[p].next_charge_date >= order[p].next_charge_date
     \/ order'[p].next_charge_date > today

TasksEffect ==
  \A t \in toCharge' :
     t \in toCharge \/ (t.today = today /\ Item[t.order].is_subscription)

OtherCharges ==
  \E o \in Orders, type \in {"order_delivery", "subscription_extension"},
     n \in {1, 2} : MoreCharges(charges', o, type, today, n)

RecurringCharge(t) ==
  LET o == t.order  date == order[o].next_charge_date IN
  /\ date \in 1 .. t.today
  /\ MoreCharges(charges', o, "recurring_subscription", date, 1)
  /\ order'[o].next_charge_date = date + 1

Effect ==
  /\ Types'
  /\ today' >= today
  /\ TasksEffect
  /\ SameCharges(charges') \/ OtherCharges \/ \E t \in toCharge : RecurringCharge(t)
  /\ NoMonthsByHand => DatesForward

LEMMA Unchanged ==
  ASSUME Types
  PROVE  /\ SameCharges(charges)
         /\ order' = order => DatesForward
         /\ toCharge' \subseteq toCharge => TasksEffect
         /\ today' = today => today' >= today
<1>1. \A p \in Orders : order[p].next_charge_date >= order[p].next_charge_date
  BY DEF Types, OrderRecord
<1>2. today >= today
  BY SubscriptionsAssumption DEF Types
<1> QED
  BY <1>1, <1>2 DEF Types, SameCharges, DatesForward, TasksEffect

LEMMA CreateOrder ==
  ASSUME TimelyInv, NEW o \in Orders, create_order(o)
  PROVE  Effect
<1> DEFINE old == customer.subscription
           replaces == Item[o].is_subscription /\ old # NoOrder
           X == IF replaces THEN Canceled(old, customer) ELSE order
<1>1. Types
  BY DEF TimelyInv
<1>2. customer \in Customer /\ (replaces => old \in Orders)
  BY <1>1 DEF Types, Customer
<1>3. /\ X \in [Orders -> OrderRecord]
      /\ NoMonthsByHand => \A p \in Orders :
           X[p].next_charge_date = order[p].next_charge_date
  <2>1. CASE replaces
    BY <2>1, <1>1, <1>2, CanceledOrders DEF NoMonthsByHand
  <2>2. CASE ~replaces
    BY <2>2, <1>1 DEF Types
  <2> QED
    BY <2>1, <2>2
<1>4. order' = [X EXCEPT ![o].status = UNSIGNED]
  BY DEF create_order
<1> HIDE DEF X
<1>5. /\ order' \in [Orders -> OrderRecord]
      /\ \A p \in Orders : order'[p].next_charge_date = X[p].next_charge_date
  BY <1>3, <1>4, NewStatus
<1>6. SameCharges(charges')
  <2>1. CASE replaces
    BY <2>1, <1>1, <1>2, CanceledCharges DEF create_order
  <2>2. CASE ~replaces
    BY <2>2, <1>1, Unchanged DEF create_order
  <2> QED
    BY <2>1, <2>2
<1>7. customer' \in Customer
  BY <1>2 DEF create_order, Customer
<1>8. toSign' \subseteq Orders
  BY <1>1 DEF create_order, Types
<1>9. Types'
  BY <1>1, <1>5, <1>6, <1>7, <1>8 DEF create_order, Types, SameCharges
<1>10. NoMonthsByHand => DatesForward
  <2> SUFFICES ASSUME NoMonthsByHand, NEW p \in Orders
               PROVE  order'[p].next_charge_date >= order[p].next_charge_date
    BY DEF DatesForward
  <2>1. order[p].next_charge_date \in Int
    BY <1>1 DEF Types, OrderRecord
  <2> QED
    BY <2>1, <1>3, <1>5
<1>11. TasksEffect /\ today' >= today
  BY <1>1, Unchanged DEF create_order
<1> QED
  BY <1>6, <1>9, <1>10, <1>11 DEF Effect

LEMMA SignedMonths ==
  ASSUME Types, NEW o \in Orders
  PROVE  SignedUntil(o) \in Int /\ SignedUntil(o) > today
<1>1. Item[o].count \in Nat /\ Item[o].extra_subscription_months \in Nat
  BY SubscriptionsAssumption
<1>2. Months(o) \in Nat
  BY <1>1 DEF Months
<1>3. today \in Int
  BY DEF Types
<1> QED
  BY <1>2, <1>3 DEF SignedUntil

LEMMA SignOrder ==
  ASSUME TimelyInv, NEW o \in Orders, NEW no_charge \in BOOLEAN,
         sign_order(o, no_charge), toSign' \subseteq toSign
  PROVE  Effect
<1> DEFINE item == Item[o]
           sub == customer.subscription
           extends == ~item.is_subscription /\ item.extra_subscription_months > 0
           follows == ~item.is_subscription /\ item.is_subscription_extension
           subDate == order[sub].next_charge_date
                        + (IF extends THEN item.extra_subscription_months ELSE 0)
           date == IF item.is_subscription THEN SignedUntil(o)
                   ELSE IF follows THEN subDate
                   ELSE order[o].next_charge_date
           r(p) == order'[p]
<1>1. Types
  BY DEF TimelyInv
<1>2. /\ item.extra_subscription_months \in Nat
      /\ \A p \in Orders : order[p] \in OrderRecord
                             /\ order[p].next_charge_date \in Int
  BY <1>1, SubscriptionsAssumption DEF Types, OrderRecord
<1>3. (extends \/ follows) => subDate \in Int
  <2>1. extends \/ follows => sub \in Orders
    BY <1>1 DEF sign_order, Types, Customer
  <2> QED
    BY <2>1, <1>2
<1>4. date \in Int
  BY <1>1, <1>2, <1>3, SignedMonths
<1>5. order' = [p \in Orders |->
         IF p = o
         THEN [status |-> SIGNED, signature |-> ~no_charge, next_charge_date |-> date]
         ELSE IF extends /\ p = sub
         THEN [order[p] EXCEPT !.next_charge_date = subDate]
         ELSE order[p]]
  BY DEF sign_order
<1> HIDE DEF date, subDate
<1>6. ASSUME NEW p \in Orders
      PROVE  order'[p] \in OrderRecord
  <2>1. CASE p = o
    BY <2>1, <1>4, <1>5 DEF OrderRecord
  <2>2. CASE p # o /\ extends /\ p = sub
    <3>1. order'[p] = [order[p] EXCEPT !.next_charge_date = subDate]
      BY <2>2, <1>5
    <3> QED
      BY <3>1, <2>2, <1>2, <1>3, NewDate
  <2>3. CASE p # o /\ ~(extends /\ p = sub)
    BY <2>3, <1>2, <1>5
  <2> QED
    BY <2>1, <2>2, <2>3
<1>7. order' \in [Orders -> OrderRecord]
  BY <1>5, <1>6
<1>8. SameCharges(charges') \/ OtherCharges
  <2>1. CASE no_charge \/ item.price = 0
    BY <2>1, <1>1, Unchanged DEF sign_order
  <2>2. CASE ~(no_charge \/ item.price = 0)
    <3>1. charges' = Charged(o, "order_delivery", today)
      BY <2>2 DEF sign_order
    <3>2. today \in Nat
      BY <1>1 DEF Types
    <3>3. MoreCharges(charges', o, "order_delivery", today, 1)
      BY <1>1, <3>1, <3>2, ChargedOneMore
    <3> QED
      BY <3>3 DEF OtherCharges
  <2> QED
    BY <2>1, <2>2
<1>9. Types'
  <2>1. charges' \in [Orders -> Seq(ChargeEntity)]
    BY <1>8 DEF SameCharges, OtherCharges, MoreCharges
  <2> QED
    BY <1>1, <1>7, <2>1 DEF sign_order, Types
<1>10. NoMonthsByHand => DatesForward
  <2> SUFFICES ASSUME NoMonthsByHand, NEW p \in Orders, Item[p].is_subscription
               PROVE  \/ order'[p].next_charge_date >= order[p].next_charge_date
                      \/ order'[p].next_charge_date > today
    BY DEF DatesForward
  <2>1. ~extends
    BY DEF NoMonthsByHand
  <2>2. CASE p = o
    <3>1. order'[p].next_charge_date = SignedUntil(o)
      BY <2>2, <1>5 DEF date
    <3> QED
      BY <3>1, <1>1, SignedMonths
  <2>3. CASE p # o
    <3>1. order'[p] = order[p]
      BY <2>1, <2>3, <1>5
    <3> QED
      BY <3>1, <1>2
  <2> QED
    BY <2>2, <2>3
<1>11. TasksEffect /\ today' >= today
  BY <1>1, Unchanged DEF sign_order
<1> QED
  BY <1>8, <1>9, <1>10, <1>11 DEF Effect

LEMMA Billing ==
  ASSUME TimelyInv, _recurrent_billing
  PROVE  Effect
<1>1. Types
  BY DEF TimelyInv
<1>2. \A t \in toCharge' : \/ t \in toCharge
                           \/ /\ t \in [order: Orders, today: 1 .. MaxMonth]
                              /\ t.today = today
                              /\ Item[t.order].is_subscription
  BY <1>1 DEF _recurrent_billing, _qry, Types
<1>3. Types' /\ TasksEffect
  BY <1>1, <1>2 DEF _recurrent_billing, Types, TasksEffect
<1> QED
  BY <1>1, <1>3, Unchanged DEF _recurrent_billing, Effect

(* _create_charge, one lemma for each way it may end.                      *)
TaskRuns(t) ==
  /\ t \in toCharge
  /\ toCharge' \in {toCharge, toCharge \ {t}}
  /\ UNCHANGED <<today, toSign, toEnable, writer>>

LEMMA Skip ==
  ASSUME TimelyInv, NEW t, TaskRuns(t), SkipCharge(t)
  PROVE  Effect
<1>1. Types
  BY DEF TimelyInv
<1>2. Types'
  BY <1>1 DEF TaskRuns, SkipCharge, Types
<1> QED
  BY <1>1, <1>2, Unchanged DEF TaskRuns, SkipCharge, Effect

LEMMA Ended ==
  ASSUME Types, NEW o \in Orders, NEW c \in Customer, NEW cancels \in BOOLEAN,
         order' = IF cancels THEN Canceled(o, c) ELSE order,
         charges' = IF cancels THEN ChargesCanceled(o) ELSE charges
  PROVE  /\ order' \in [Orders -> OrderRecord]
         /\ NoMonthsByHand => DatesForward
         /\ SameCharges(charges')
<1>1. CASE cancels
  <2>1. \A p \in Orders : order[p].next_charge_date \in Int
    BY DEF Types, OrderRecord
  <2>2. NoMonthsByHand => \A p \in Orders :
          order'[p].next_charge_date = order[p].next_charge_date
    BY <1>1, CanceledOrders DEF NoMonthsByHand
  <2>3. NoMonthsByHand => DatesForward
    BY <2>1, <2>2 DEF DatesForward
  <2> QED
    BY <1>1, <2>3, CanceledOrders, CanceledCharges
<1>2. CASE ~cancels
  BY <1>2, Unchanged DEF Types
<1> QED
  BY <1>1, <1>2

LEMMA End ==
  ASSUME TimelyInv, NEW t, TaskRuns(t), EndSubscription(t)
  PROVE  Effect
<1> DEFINE o == t.order
           cancels == order[o].status # CANCELED
           c == IF cancels THEN WithoutSubscription(o, customer) ELSE customer
<1>1. Types /\ o \in Orders /\ customer \in Customer /\ cancels \in BOOLEAN
  BY DEF TimelyInv, Types, TaskRuns
<1>2. c \in Customer
  BY <1>1, CustomerWithout
<1>3. customer' = [c EXCEPT !.disabled = TRUE, !.cancel_pending = FALSE]
  BY DEF EndSubscription
<1>4. /\ order' = IF cancels THEN Canceled(o, customer) ELSE order
      /\ charges' = IF cancels THEN ChargesCanceled(o) ELSE charges
  BY DEF EndSubscription
<1> HIDE DEF c, cancels, o
<1>5. customer' \in Customer
  BY <1>2, <1>3, ServiceGone
<1>6. /\ order' \in [Orders -> OrderRecord]
      /\ NoMonthsByHand => DatesForward
      /\ SameCharges(charges')
  BY <1>1, <1>4, Ended
<1>7. Types'
  BY <1>1, <1>5, <1>6 DEF TaskRuns, Types, SameCharges
<1> QED
  BY <1>1, <1>6, <1>7, Unchanged DEF TaskRuns, Effect

LEMMA Free ==
  ASSUME TimelyInv, NEW t, TaskRuns(t), SkipFree(t)
  PROVE  Effect
<1> DEFINE o == t.order
           r == [order[o] EXCEPT !.next_charge_date = today + 1]
<1>1. Types /\ o \in Orders /\ today \in Int /\ today + 1 \in Int
      /\ \A p \in Orders : order[p] \in OrderRecord
                            /\ order[p].next_charge_date \in Int
  BY DEF TimelyInv, Types, TaskRuns, OrderRecord
<1>2. r \in OrderRecord /\ r.next_charge_date = today + 1
  BY <1>1, NewDate
<1>3. order' = [order EXCEPT ![o] = r]
  BY DEF SkipFree
<1> HIDE DEF r, o
<1>4. order' \in [Orders -> OrderRecord] /\ DatesForward
  BY <1>1, <1>2, <1>3 DEF Types, DatesForward
<1>5. Types'
  BY <1>1, <1>4 DEF TaskRuns, SkipFree, Types
<1> QED
  BY <1>1, <1>4, <1>5, Unchanged DEF TaskRuns, SkipFree, Effect

LEMMA Expired ==
  ASSUME TimelyInv, NEW t, TaskRuns(t), Expire(t)
  PROVE  Effect
<1>1. Types
  BY DEF TimelyInv
<1>2. Types'
  BY <1>1 DEF TaskRuns, Expire, DateStays, Types
<1> QED
  BY <1>1, <1>2, Unchanged DEF TaskRuns, Expire, DateStays, Effect

LEMMA Charge ==
  ASSUME TimelyInv, NEW t, TaskRuns(t), ChargeMonth(t)
  PROVE  Effect
<1> DEFINE o == t.order
           date == order[o].next_charge_date
<1>1. Types /\ o \in Orders /\ t \in toCharge /\ t.today \in Int
      /\ \A p \in Orders : order[p] \in OrderRecord
                            /\ order[p].next_charge_date \in Int
  BY DEF TimelyInv, Types, TaskRuns, OrderRecord
<1>2. date \in 1 .. t.today /\ date \in Nat /\ date + 1 \in Int
  BY <1>1 DEF ChargeMonth, IsDue
<1>3. order' = [p \in Orders |->
         IF p = o \/ p \in DueExtensions(t)
         THEN [order[p] EXCEPT !.next_charge_date = date + 1] ELSE order[p]]
  BY DEF ChargeMonth, NextMonth
<1>4. MoreCharges(charges', o, "recurring_subscription", date, 1)
  <2>1. charges' = Charged(o, "recurring_subscription", date)
    BY DEF ChargeMonth
  <2> QED
    BY <2>1, <1>1, <1>2, ChargedOneMore
<1> HIDE DEF date
<1>5. ASSUME NEW p \in Orders
      PROVE  /\ order'[p] \in OrderRecord
             /\ p = o => order'[p].next_charge_date = date + 1
             /\ p # o /\ Item[p].is_subscription =>
                  order'[p].next_charge_date = order[p].next_charge_date
  <2>1. CASE p = o \/ p \in DueExtensions(t)
    <3>1. order'[p] = [order[p] EXCEPT !.next_charge_date = date + 1]
      BY <2>1, <1>3
    <3>2. p # o => ~Item[p].is_subscription
      BY <2>1 DEF DueExtensions
    <3> QED
      BY <3>1, <3>2, <1>1, <1>2, NewDate
  <2>2. CASE ~(p = o \/ p \in DueExtensions(t))
    <3>1. order'[p] = order[p]
      BY <2>2, <1>3
    <3> QED
      BY <3>1, <2>2, <1>1
  <2> QED
    BY <2>1, <2>2
<1>6. order' \in [Orders -> OrderRecord]
  BY <1>3, <1>5
<1>7. RecurringCharge(t)
  BY <1>1, <1>2, <1>4, <1>5 DEF RecurringCharge, date
<1>8. DatesForward
  <2> SUFFICES ASSUME NEW p \in Orders, Item[p].is_subscription
               PROVE  order'[p].next_charge_date >= order[p].next_charge_date
    BY DEF DatesForward
  <2>1. p = o => order[p].next_charge_date = date
    BY DEF date
  <2> QED
    BY <2>1, <1>1, <1>2, <1>5
<1>9. Types'
  BY <1>1, <1>4, <1>6 DEF TaskRuns, ChargeMonth, Types, MoreCharges
<1> QED
  BY <1>1, <1>7, <1>8, <1>9, Unchanged DEF TaskRuns, Effect

LEMMA Failed ==
  ASSUME TimelyInv, NEW t, TaskRuns(t), FailsToCharge(t)
  PROVE  Effect
<1>1. Types
  BY DEF TimelyInv
<1>2. Types'
  BY <1>1 DEF TaskRuns, FailsToCharge, Types
<1> QED
  BY <1>1, <1>2, Unchanged DEF TaskRuns, FailsToCharge, Effect

LEMMA CreateCharge ==
  ASSUME TimelyInv, NEW t \in toCharge, _create_charge(t)
  PROVE  Effect
  BY Skip, End, Free, Expired, Charge, Failed DEF _create_charge, TaskRuns

LEMMA Extend ==
  ASSUME TimelyInv, set_expired_subscription_status
  PROVE  Effect
<1> DEFINE sub == customer.subscription
           once == [type |-> "subscription_extension", status |-> "pending",
                    month |-> today]
           date == today + ExtensionMonths
           r == [order[sub] EXCEPT !.next_charge_date = date]
<1>1. Types /\ sub \in Orders /\ today \in Nat
      /\ \A p \in Orders : order[p] \in OrderRecord
                            /\ order[p].next_charge_date \in Int
  BY DEF TimelyInv, Types, Customer, OrderRecord, set_expired_subscription_status
<1>2. date \in Int /\ date > today
  BY <1>1, SubscriptionsAssumption
<1>3. /\ once \in ChargeEntity
      /\ once.type = "subscription_extension" /\ once.month = today
  BY <1>1 DEF ChargeEntity
<1>4. OtherCharges
  <2>1. CASE charges' = [charges EXCEPT ![sub] = Append(@, once)]
    <3>1. charges' = Charged(sub, "subscription_extension", today)
      BY <2>1 DEF Charged
    <3>2. MoreCharges(charges', sub, "subscription_extension", today, 1)
      BY <3>1, <1>1, ChargedOneMore
    <3> QED
      BY <3>2, <1>1 DEF OtherCharges
  <2>2. CASE charges' = [charges EXCEPT ![sub] = @ \o <<once, once>>]
    <3> HIDE DEF once
    <3>1. MoreCharges(charges', sub, once.type, once.month, 2)
      BY <2>2, <1>1, <1>3, ExtendedTwice
    <3> QED
      BY <3>1, <1>1, <1>3 DEF OtherCharges
  <2> QED
    BY <2>1, <2>2 DEF set_expired_subscription_status
<1>5. order' = [order EXCEPT ![sub] = r]
  BY DEF set_expired_subscription_status
<1> HIDE DEF date, sub
<1>6. r \in OrderRecord /\ r.next_charge_date = date
  BY <1>1, <1>2, NewDate
<1> HIDE DEF r
<1>7. order' \in [Orders -> OrderRecord] /\ DatesForward
  BY <1>1, <1>2, <1>5, <1>6 DEF Types, DatesForward
<1>8. charges' \in [Orders -> Seq(ChargeEntity)]
  BY <1>4 DEF OtherCharges, MoreCharges
<1>9. Types'
  BY <1>1, <1>7, <1>8 DEF set_expired_subscription_status, Types
<1> QED
  BY <1>1, <1>4, <1>7, <1>9, Unchanged DEF set_expired_subscription_status, Effect

LEMMA Card ==
  ASSUME TimelyInv, store_stripe_link_to_datastore
  PROVE  Effect
<1>1. Types
  BY DEF TimelyInv
<1>2. Types'
  BY <1>1 DEF store_stripe_link_to_datastore, Types, Customer
<1> QED
  BY <1>1, <1>2, Unchanged DEF store_stripe_link_to_datastore, Effect

LEMMA Month ==
  ASSUME TimelyInv, MonthPasses
  PROVE  Effect
<1>1. Types
  BY DEF TimelyInv
<1>2. Types' /\ today' >= today
  BY <1>1, SubscriptionsAssumption DEF MonthPasses, Types
<1> QED
  BY <1>1, <1>2, Unchanged DEF MonthPasses, Effect

LEMMA ReadStep ==
  ASSUME TimelyInv, Reads
  PROVE  Effect
<1>1. Types
  BY DEF TimelyInv
<1>2. ASSUME NEW op \in {"cancel_subscription", "cancel_immediately",
                         "set_next_charge_date", "set_service_enabled",
                         "cancel_order"},
             NEW o \in Orders, Read(op, o)
      PROVE  Effect
  <2>1. order[o] \in OrderRecord /\ customer \in Customer
    BY <1>1 DEF Types
  <2>2. writer' \in WriterRecord
    BY <1>2, <2>1 DEF Read, WriterRecord
  <2>3. Types'
    BY <1>1, <1>2, <2>2 DEF Read, Types
  <2> QED
    BY <1>1, <1>2, <2>3, Unchanged DEF Read, Effect
<1>3. customer.subscription # NoOrder => customer.subscription \in Orders
  BY <1>1 DEF Types, Customer
<1>4. CASE ReadForCancelSubscription
  BY <1>2, <1>3, <1>4 DEF ReadForCancelSubscription
<1>5. CASE ReadForNextChargeDate
  BY <1>2, <1>3, <1>5 DEF ReadForNextChargeDate
<1>6. CASE ReadForServiceEnabled
  BY <1>2, <1>6 DEF ReadForServiceEnabled
<1>7. CASE \E o \in Orders : ReadForCancelOrder(o)
  BY <1>2, <1>7 DEF ReadForCancelOrder
<1> QED
  BY <1>4, <1>5, <1>6, <1>7 DEF Reads

(* The writes that leave the orders and the charges alone.                 *)
LEMMA CustomerWritten ==
  ASSUME TimelyInv, writer' = Idle, customer' \in Customer,
         UNCHANGED <<today, order, charges, toSign, toCharge>>
  PROVE  Effect
<1>1. Types
  BY DEF TimelyInv
<1>2. Types'
  BY <1>1, IdleType DEF Types
<1> QED
  BY <1>1, <1>2, Unchanged DEF Effect

LEMMA DateSet ==
  ASSUME TimelyInv, set_next_charge_date
  PROVE  Effect
<1>1. Types /\ writer.entity \in OrderRecord /\ writer.order \in Orders
  BY DEF TimelyInv, Types, WriterRecord
<1>2. PICK date \in NextChargeDates :
        order' = [order EXCEPT ![writer.order] =
                    [writer.entity EXCEPT !.next_charge_date = date]]
  BY DEF set_next_charge_date
<1>3. date \in Int
  BY SubscriptionsAssumption
<1>4. [writer.entity EXCEPT !.next_charge_date = date] \in OrderRecord
  BY <1>1, <1>3, NewDate
<1>5. order' \in [Orders -> OrderRecord]
  BY <1>1, <1>2, <1>4 DEF Types
<1>6. Types'
  BY <1>1, <1>5, IdleType DEF set_next_charge_date, Types
<1>7. ~NoMonthsByHand
  BY <1>2 DEF NoMonthsByHand
<1> QED
  BY <1>1, <1>6, <1>7, Unchanged DEF set_next_charge_date, Effect

LEMMA CancelImmediately ==
  ASSUME TimelyInv, cancel_immediately
  PROVE  Effect
<1> DEFINE o == writer.order
           cancels == order[o].status # CANCELED
           c == IF cancels THEN WithoutSubscription(o, writer.customer)
                ELSE writer.customer
<1>1. Types /\ o \in Orders /\ writer.customer \in Customer /\ cancels \in BOOLEAN
  BY DEF TimelyInv, Types, WriterRecord
<1>2. c \in Customer
  BY <1>1, CustomerWithout
<1>3. customer' = [c EXCEPT !.disabled = TRUE, !.cancel_pending = FALSE]
  BY DEF cancel_immediately
<1>4. /\ order' = IF cancels THEN Canceled(o, writer.customer) ELSE order
      /\ charges' = IF cancels THEN ChargesCanceled(o) ELSE charges
  BY DEF cancel_immediately
<1> HIDE DEF c, cancels, o
<1>5. customer' \in Customer
  BY <1>2, <1>3, ServiceGone
<1>6. /\ order' \in [Orders -> OrderRecord]
      /\ NoMonthsByHand => DatesForward
      /\ SameCharges(charges')
  BY <1>1, <1>4, Ended
<1>7. Types'
  BY <1>1, <1>5, <1>6, IdleType DEF cancel_immediately, Types, SameCharges
<1> QED
  BY <1>1, <1>6, <1>7, Unchanged DEF cancel_immediately, Effect

LEMMA CancelOrder ==
  ASSUME TimelyInv, cancel_order
  PROVE  Effect
<1> DEFINE o == writer.order
           c == WithoutSubscription(o, writer.customer)
<1>1. Types /\ o \in Orders /\ writer.customer \in Customer
  BY DEF TimelyInv, Types, WriterRecord
<1>2. c \in Customer
  BY <1>1, CustomerWithout
<1>3. customer' = [c EXCEPT !.service = c.service /\ ~Item[o].is_subscription]
  BY DEF cancel_order
<1>4. (c.service /\ ~Item[o].is_subscription) \in BOOLEAN
  OBVIOUS
<1>5. /\ order' = IF TRUE THEN Canceled(o, writer.customer) ELSE order
      /\ charges' = IF TRUE THEN ChargesCanceled(o) ELSE charges
  BY DEF cancel_order
<1> HIDE DEF c, o
<1>6. customer' \in Customer
  BY <1>2, <1>3, <1>4 DEF Customer
<1>7. /\ order' \in [Orders -> OrderRecord]
      /\ NoMonthsByHand => DatesForward
      /\ SameCharges(charges')
  BY <1>1, <1>5, Ended
<1>8. Types'
  BY <1>1, <1>6, <1>7, IdleType DEF cancel_order, Types, SameCharges
<1> QED
  BY <1>1, <1>7, <1>8, Unchanged DEF cancel_order, Effect

LEMMA WriteStep ==
  ASSUME TimelyInv, Writes
  PROVE  Effect
<1>1. Types /\ customer \in Customer /\ writer.customer \in Customer
  BY DEF TimelyInv, Types, WriterRecord
<1>2. CASE cancel_subscription
  <2>1. customer' \in Customer
    BY <1>1, <1>2 DEF cancel_subscription, Customer
  <2> QED
    BY <1>2, <2>1, CustomerWritten DEF cancel_subscription
<1>3. CASE set_service_enabled
  <2>1. customer' \in Customer
    BY <1>1, <1>3 DEF set_service_enabled, Customer
  <2> QED
    BY <1>3, <2>1, CustomerWritten DEF set_service_enabled
<1>4. CASE Fail
  BY <1>1, <1>4, CustomerWritten DEF Fail
<1> QED
  BY <1>2, <1>3, <1>4, DateSet, CancelImmediately, CancelOrder DEF Writes

LEMMA NextEffect ==
  ASSUME TimelyInv, Next
  PROVE  Effect
<1>1. ASSUME NEW o \in Orders, SignedByContact(o)
      PROVE  Effect
  BY <1>1, SignOrder DEF SignedByContact
<1>2. ASSUME NEW o \in Orders, SignedByTask(o)
      PROVE  Effect
  <2>1. toSign' \subseteq toSign /\ sign_order(o, TRUE)
    BY <1>2 DEF SignedByTask
  <2> QED
    BY <2>1, SignOrder
<1>3. ASSUME Transactions
      PROVE  Effect
  BY <1>1, <1>2, <1>3, CreateOrder, Billing, CreateCharge, Extend, Card, Month
     DEF Transactions
<1> QED
  BY <1>3, ReadStep, WriteStep DEF Next

-----------------------------------------------------------------------------
(* Nothing is charged before it is due.                                    *)
LEMMA StutterTimely ==
  ASSUME TimelyInv, UNCHANGED vars
  PROVE  TimelyInv'
  BY DEF TimelyInv, Types, TasksOfThePast, ChargedWhenDue, vars

LEMMA InitTypes ==
  ASSUME Init
  PROVE  Types
<1>1. NewCustomer \in Customer /\ [NewCustomer EXCEPT !.card = TRUE] \in Customer
  BY DEF NewCustomer, Customer
<1>2. NewOrder \in OrderRecord
  BY DEF NewOrder, OrderRecord
<1>3. charges \in [Orders -> Seq(ChargeEntity)]
  BY DEF Init
<1>4. 1 \in 1 .. MaxMonth
  BY SubscriptionsAssumption
<1> QED
  BY <1>1, <1>2, <1>3, <1>4, IdleType DEF Init, Types

LEMMA InitTimely ==
  ASSUME Init
  PROVE  TimelyInv
<1>1. TasksOfThePast /\ ChargedWhenDue
  BY DEF Init, TasksOfThePast, ChargedWhenDue
<1> QED
  BY <1>1, InitTypes DEF TimelyInv

LEMMA NextTimely ==
  ASSUME TimelyInv, Next
  PROVE  TimelyInv'
<1>1. Effect
  BY NextEffect
<1>2. Types /\ Types' /\ today \in Nat /\ today' \in Nat /\ today' >= today
  BY <1>1 DEF Effect, TimelyInv, Types
<1>3. TasksOfThePast'
  <2> SUFFICES ASSUME NEW t \in toCharge'
               PROVE  t.today <= today'
    BY DEF TasksOfThePast
  <2>1. t.today \in Int /\ t.today <= today
    <3>1. t.today \in Int
      BY <1>2 DEF Types
    <3> QED
      BY <3>1, <1>1, <1>2 DEF Effect, TasksEffect, TimelyInv, TasksOfThePast
  <2> QED
    BY <2>1, <1>2
<1>4. ChargedWhenDue'
  <2> SUFFICES ASSUME NEW p \in Orders, NEW i \in DOMAIN charges'[p]
               PROVE  charges'[p][i].month <= today'
    BY DEF ChargedWhenDue
  <2>1. \A q \in Orders : \A j \in DOMAIN charges[q] :
          charges[q][j].month \in Nat /\ charges[q][j].month <= today
    <3> SUFFICES ASSUME NEW q \in Orders, NEW j \in DOMAIN charges[q]
                 PROVE  charges[q][j].month \in Nat /\ charges[q][j].month <= today
      OBVIOUS
    <3>1. charges[q] \in Seq(ChargeEntity)
      BY <1>2 DEF Types
    <3>2. charges[q][j] \in ChargeEntity
      BY <3>1
    <3>3. charges[q][j].month \in Nat
      BY <3>2 DEF ChargeEntity
    <3> QED
      BY <3>3 DEF TimelyInv, ChargedWhenDue
  <2>2. CASE SameCharges(charges')
    <3>1. i \in DOMAIN charges[p] /\ charges'[p][i].month = charges[p][i].month
      BY <2>2 DEF SameCharges
    <3> QED
      BY <3>1, <2>1, <1>2
  <2>3. ASSUME NEW o \in Orders, NEW type, NEW month \in Nat, NEW n \in Nat,
               MoreCharges(charges', o, type, month, n), month <= today
        PROVE  charges'[p][i].month <= today'
    <3>1. Len(charges[p]) \in Nat /\ DOMAIN charges[p] = 1 .. Len(charges[p])
      BY <1>2 DEF Types
    <3>2. CASE p # o \/ i \in DOMAIN charges[p]
      <4>1. i \in DOMAIN charges[p] /\ charges'[p][i] = charges[p][i]
        BY <2>3, <3>2 DEF MoreCharges
      <4> QED
        BY <4>1, <2>1, <1>2
    <3>3. CASE p = o /\ i \notin DOMAIN charges[p]
      <4>1. i \in 1 .. Len(charges[o]) + n
        BY <2>3, <3>3 DEF MoreCharges
      <4>2. i \in Len(charges[o]) + 1 .. Len(charges[o]) + n
        BY <4>1, <3>1, <3>3
      <4>3. charges'[p][i].month = month
        BY <4>2, <3>3, <2>3 DEF MoreCharges
      <4> QED
        BY <4>3, <2>3, <1>2
    <3> QED
      BY <3>2, <3>3
  <2>4. CASE OtherCharges
    BY <2>4, <2>3, <1>2 DEF OtherCharges
  <2>5. ASSUME NEW t \in toCharge, RecurringCharge(t)
        PROVE  charges'[p][i].month <= today'
    <3>1. /\ t.order \in Orders /\ t.today \in Int /\ t.today <= today
      BY <1>2 DEF Types, TimelyInv, TasksOfThePast
    <3> DEFINE date == order[t.order].next_charge_date
    <3>2. date \in 1 .. t.today
          /\ MoreCharges(charges', t.order, "recurring_subscription", date, 1)
      BY <2>5 DEF RecurringCharge
    <3> HIDE DEF date
    <3>3. date \in Nat /\ date <= today
      BY <3>1, <3>2, <1>2
    <3> QED
      BY <3>1, <3>2, <3>3, <2>3
  <2> QED
    BY <2>2, <2>4, <2>5, <1>1 DEF Effect
<1> QED
  BY <1>2, <1>3, <1>4 DEF TimelyInv

(* No month is charged before it is due, by any task however late it runs, *)
(* whatever is signed, cancelled, replaced, extended or set meanwhile.     *)
THEOREM NothingChargedEarly == Spec => []ChargedWhenDue
<1>1. TimelyInv /\ [Next]_vars => TimelyInv'
  BY NextTimely, StutterTimely
<1>2. Init => TimelyInv
  BY InitTimely
<1>3. TimelyInv => ChargedWhenDue
  BY DEF TimelyInv
<1> QED
  BY <1>1, <1>2, <1>3, PTL DEF Spec

-----------------------------------------------------------------------------
(* No month is charged twice.  The next charge date of a subscription lies *)
(* behind every month that is charged, and only moves forward.             *)

PaidBeforeDate ==
  \A o \in Orders : \A i \in DOMAIN charges[o] :
     IsRecurring(charges[o][i]) =>
       /\ Item[o].is_subscription
       /\ charges[o][i].month < order[o].next_charge_date

SubscriptionTasks == \A t \in toCharge : Item[t.order].is_subscription

PaidInv == /\ TimelyInv
           /\ SubscriptionTasks
           /\ PaidBeforeDate
           /\ MonthChargedOnce

(* How a step changes the charges of one order: those there were keep      *)
(* their month, and a new one that recurs is the only new one, of the      *)
(* month of the next charge date.                                          *)
LEMMA NewCharges ==
  ASSUME PaidInv, Effect, NEW p \in Orders
  PROVE  /\ \A i \in DOMAIN charges[p] :
              /\ i \in DOMAIN charges'[p]
              /\ charges'[p][i].type = charges[p][i].type
              /\ charges'[p][i].month = charges[p][i].month
         /\ \A i \in DOMAIN charges'[p] :
              i \notin DOMAIN charges[p] /\ IsRecurring(charges'[p][i]) =>
                /\ i = Len(charges[p]) + 1
                /\ Item[p].is_subscription
                /\ charges'[p][i].month = order[p].next_charge_date
                /\ order'[p].next_charge_date = order[p].next_charge_date + 1
<1>1. Len(charges[p]) \in Nat /\ DOMAIN charges[p] = 1 .. Len(charges[p])
  BY DEF PaidInv, TimelyInv, Types
<1>2. CASE SameCharges(charges')
  BY <1>2 DEF SameCharges
<1>3. ASSUME NEW o \in Orders, NEW type, NEW month, NEW n \in Nat,
             MoreCharges(charges', o, type, month, n)
      PROVE  /\ \A i \in DOMAIN charges[p] :
                  i \in DOMAIN charges'[p] /\ charges'[p][i] = charges[p][i]
             /\ \A i \in DOMAIN charges'[p] :
                  i \notin DOMAIN charges[p] =>
                    /\ p = o
                    /\ i \in Len(charges[p]) + 1 .. Len(charges[p]) + n
                    /\ charges'[p][i].type = type
                    /\ charges'[p][i].month = month
  <2>1. CASE p # o
    BY <1>3, <2>1 DEF MoreCharges
  <2>2. CASE p = o
    <3>1. DOMAIN charges'[p] = 1 .. Len(charges[p]) + n
      BY <1>3, <2>2 DEF MoreCharges
    <3>2. \A i \in DOMAIN charges[p] : i \in DOMAIN charges'[p]
      BY <3>1, <1>1
    <3>3. \A i \in DOMAIN charges'[p] : i \notin DOMAIN charges[p] =>
            i \in Len(charges[p]) + 1 .. Len(charges[p]) + n
      BY <3>1, <1>1
    <3> QED
      BY <3>2, <3>3, <2>2, <1>3 DEF MoreCharges
  <2> QED
    BY <2>1, <2>2
<1>4. CASE OtherCharges
  <2>1. PICK o \in Orders, type \in {"order_delivery", "subscription_extension"},
             n \in {1, 2} : MoreCharges(charges', o, type, today, n)
    BY <1>4 DEF OtherCharges
  <2>2. n \in Nat /\ type # "recurring_subscription"
    OBVIOUS
  <2> QED
    BY <2>1, <2>2, <1>3 DEF IsRecurring
<1>5. ASSUME NEW t \in toCharge, RecurringCharge(t)
      PROVE  /\ \A i \in DOMAIN charges[p] :
                  i \in DOMAIN charges'[p] /\ charges'[p][i] = charges[p][i]
             /\ \A i \in DOMAIN charges'[p] :
                  i \notin DOMAIN charges[p] =>
                    /\ i = Len(charges[p]) + 1
                    /\ Item[p].is_subscription
                    /\ charges'[p][i].month = order[p].next_charge_date
                    /\ order'[p].next_charge_date = order[p].next_charge_date + 1
  <2>1. t.order \in Orders /\ Item[t.order].is_subscription
    BY DEF PaidInv, TimelyInv, Types, SubscriptionTasks
  <2>2. MoreCharges(charges', t.order, "recurring_subscription",
                    order[t.order].next_charge_date, 1)
        /\ order'[t.order].next_charge_date = order[t.order].next_charge_date + 1
    BY <1>5 DEF RecurringCharge
  <2>3. \A i \in Len(charges[p]) + 1 .. Len(charges[p]) + 1 : i = Len(charges[p]) + 1
    BY <1>1
  <2> QED
    BY <2>1, <2>2, <2>3, <1>3
<1>6. CASE \E t \in toCharge : RecurringCharge(t)
  BY <1>6, <1>5
<1> QED
  BY <1>2, <1>4, <1>6 DEF Effect

LEMMA NextPaid ==
  ASSUME NoMonthsByHand, PaidInv, Next
  PROVE  PaidInv'
<1>1. TimelyInv /\ TimelyInv' /\ Effect
  BY NextTimely, NextEffect DEF PaidInv
<1>2. SubscriptionTasks'
  BY <1>1 DEF Effect, TasksEffect, PaidInv, SubscriptionTasks
<1>3. \A p \in Orders : /\ order[p].next_charge_date \in Int
                        /\ order'[p].next_charge_date \in Int
  BY <1>1 DEF TimelyInv, Types, OrderRecord
<1>4. ASSUME NEW p \in Orders, NEW i \in DOMAIN charges[p]
      PROVE  charges[p][i].month \in Nat /\ charges[p][i].month <= today
  <2>1. charges[p] \in Seq(ChargeEntity)
    BY <1>1 DEF TimelyInv, Types
  <2>2. charges[p][i] \in ChargeEntity
    BY <2>1
  <2>3. charges[p][i].month \in Nat
    BY <2>2 DEF ChargeEntity
  <2> QED
    BY <2>3, <1>1 DEF TimelyInv, ChargedWhenDue
<1>5. today \in Int
  BY <1>1 DEF TimelyInv, Types
<1>6. PaidBeforeDate'
  <2> SUFFICES ASSUME NEW p \in Orders, NEW i \in DOMAIN charges'[p],
                      IsRecurring(charges'[p][i])
               PROVE  /\ Item[p].is_subscription
                      /\ charges'[p][i].month < order'[p].next_charge_date
    BY DEF PaidBeforeDate, IsRecurring
  <2>1. CASE i \in DOMAIN charges[p]
    <3>1. IsRecurring(charges[p][i]) /\ charges'[p][i].month = charges[p][i].month
      BY <2>1, <1>1, NewCharges DEF IsRecurring
    <3>2. Item[p].is_subscription
          /\ charges[p][i].month < order[p].next_charge_date
      BY <2>1, <3>1 DEF PaidInv, PaidBeforeDate
    <3>3. \/ order'[p].next_charge_date >= order[p].next_charge_date
          \/ order'[p].next_charge_date > today
      BY <3>2, <1>1 DEF Effect, DatesForward
    <3>4. charges[p][i].month \in Nat /\ charges[p][i].month <= today
      BY <2>1, <1>4
    <3> QED
      BY <3>1, <3>2, <3>3, <3>4, <1>3, <1>5
  <2>2. CASE i \notin DOMAIN charges[p]
    BY <2>2, <1>1, <1>3, NewCharges
  <2> QED
    BY <2>1, <2>2
<1>7. MonthChargedOnce'
  <2> SUFFICES ASSUME NEW p \in Orders,
                      NEW i \in DOMAIN charges'[p], NEW j \in DOMAIN charges'[p],
                      IsRecurring(charges'[p][i]), IsRecurring(charges'[p][j]),
                      charges'[p][i].month = charges'[p][j].month
               PROVE  i = j
    BY DEF MonthChargedOnce, IsRecurring
  <2>1. ASSUME NEW k \in DOMAIN charges[p], IsRecurring(charges'[p][k])
        PROVE  /\ IsRecurring(charges[p][k])
               /\ charges'[p][k].month = charges[p][k].month
               /\ charges'[p][k].month \in Int
               /\ charges'[p][k].month < order[p].next_charge_date
    <3>1. IsRecurring(charges[p][k]) /\ charges'[p][k].month = charges[p][k].month
      BY <2>1, <1>1, NewCharges DEF IsRecurring
    <3> QED
      BY <3>1, <1>4 DEF PaidInv, PaidBeforeDate
  <2>2. CASE i \in DOMAIN charges[p] /\ j \in DOMAIN charges[p]
    BY <2>1, <2>2 DEF PaidInv, MonthChargedOnce
  <2>3. \A k \in DOMAIN charges'[p] :
          k \notin DOMAIN charges[p] /\ IsRecurring(charges'[p][k]) =>
            k = Len(charges[p]) + 1 /\ charges'[p][k].month = order[p].next_charge_date
    BY <1>1, NewCharges
  <2>4. CASE i \notin DOMAIN charges[p] /\ j \notin DOMAIN charges[p]
    BY <2>3, <2>4
  <2>5. CASE i \in DOMAIN charges[p] /\ j \notin DOMAIN charges[p]
    BY <2>1, <2>3, <2>5, <1>3
  <2>6. CASE i \notin DOMAIN charges[p] /\ j \in DOMAIN charges[p]
    BY <2>1, <2>3, <2>6, <1>3
  <2> QED
    BY <2>2, <2>4, <2>5, <2>6
<1> QED
  BY <1>1, <1>2, <1>6, <1>7 DEF PaidInv

(* However often the job and its tasks run, and whatever happens in        *)
(* between, no month of a subscription is charged twice, as long as no     *)
(* order adds months to it and no administrator sets its date.             *)
THEOREM NoMonthTwice == NoMonthsByHand => (Spec => []MonthChargedOnce)
<1> SUFFICES ASSUME NoMonthsByHand
             PROVE  Spec => []MonthChargedOnce
  OBVIOUS
<1>1. PaidInv /\ [Next]_vars => PaidInv'
  <2>1. ASSUME PaidInv, UNCHANGED vars
        PROVE  PaidInv'
    <3>1. TimelyInv'
      BY <2>1, StutterTimely DEF PaidInv
    <3> QED
      BY <2>1, <3>1 DEF PaidInv, SubscriptionTasks, PaidBeforeDate,
                        MonthChargedOnce, IsRecurring, vars
  <2> QED
    BY <2>1, NextPaid
<1>2. Init => PaidInv
  <2>1. ASSUME Init
        PROVE  SubscriptionTasks /\ PaidBeforeDate /\ MonthChargedOnce
    BY <2>1 DEF Init, SubscriptionTasks, PaidBeforeDate, MonthChargedOnce
  <2> QED
    BY <2>1, InitTimely DEF PaidInv
<1>3. PaidInv => MonthChargedOnce
  BY DEF PaidInv
<1> QED
  BY <1>1, <1>2, <1>3, PTL DEF Spec

-----------------------------------------------------------------------------
(* How a step may change an order, when no order adds months and no        *)
(* administrator sets a date: the next charge date moves because the order *)
(* is signed, or free, or follows its subscription, or is charged.         *)

Longer(p) == Len(charges'[p]) > Len(charges[p])

DateChanges(p) ==
  LET d == order'[p].next_charge_date IN
  \/ d = order[p].next_charge_date
  \/ Item[p].is_subscription /\ ~order[p].signature /\ d = SignedUntil(p)
  \/ ~Item[p].is_subscription /\ \E q \in Orders : d = order[q].next_charge_date
  \/ Item[p].price = 0 /\ d = today + 1
  \/ d \in 2 .. MaxMonth + 1 /\ (~Item[p].is_subscription \/ Longer(p))
  \/ d = today + ExtensionMonths /\ Longer(p)

(* What is signed has a signature, unless it is free.                      *)
StatusChanges(p) ==
  \/ order'[p].status = order[p].status /\ order'[p].signature = order[p].signature
  \/ order'[p].status # SIGNED
  \/ order'[p].signature
  \/ Item[p].price = 0

OrdersChange == \A p \in Orders : DateChanges(p) /\ StatusChanges(p)

SignedInv ==
  /\ TimelyInv
  /\ \A p \in Orders :
       order[p].status = SIGNED /\ Item[p].price > 0 => order[p].signature
  /\ \A o \in toSign : Item[o].price = 0

LEMMA CanceledRecords ==
  ASSUME Types, NEW o \in Orders, NEW c, NEW p \in Orders
  PROVE  /\ Canceled(o, c)[p].status = IF p = o THEN CANCELED ELSE order[p].status
         /\ Canceled(o, c)[p].signature = order[p].signature
<1>1. order[p] \in OrderRecord
  BY DEF Types
<1>2. CASE p = o
  <2>1. Canceled(o, c)[p] = [order[p] EXCEPT !.status = CANCELED]
    BY <1>2 DEF Canceled
  <2> QED
    BY <1>1, <1>2, <2>1 DEF OrderRecord
<1>3. CASE p # o
  <2>1. \/ Canceled(o, c)[p] = order[p]
        \/ \E d : Canceled(o, c)[p] = [order[p] EXCEPT !.next_charge_date = d]
    BY <1>3 DEF Canceled
  <2> QED
    BY <1>1, <1>3, <2>1 DEF OrderRecord
<1> QED
  BY <1>2, <1>3

(* An order that is cancelled, and the others with it.                     *)
LEMMA CanceledChange ==
  ASSUME Types, NoMonthsByHand, NEW o \in Orders, NEW c \in Customer,
         order' = Canceled(o, c)
  PROVE  OrdersChange
<1> SUFFICES ASSUME NEW p \in Orders PROVE DateChanges(p) /\ StatusChanges(p)
  BY DEF OrdersChange
<1>1. order'[p].next_charge_date = order[p].next_charge_date
  BY CanceledOrders DEF NoMonthsByHand
<1>2. /\ order'[p].status = IF p = o THEN CANCELED ELSE order[p].status
      /\ order'[p].signature = order[p].signature
  BY CanceledRecords
<1> QED
  BY <1>1, <1>2 DEF DateChanges, StatusChanges, CANCELED, SIGNED

LEMMA SameOrders ==
  ASSUME order' = order
  PROVE  OrdersChange
  BY DEF OrdersChange, DateChanges, StatusChanges

LEMMA CreateOrderChanges ==
  ASSUME SignedInv, NoMonthsByHand, NEW o \in Orders, create_order(o)
  PROVE  OrdersChange
<1> DEFINE old == customer.subscription
           replaces == Item[o].is_subscription /\ old # NoOrder
           X == IF replaces THEN Canceled(old, customer) ELSE order
<1>1. Types
  BY DEF SignedInv, TimelyInv
<1>2. customer \in Customer /\ (replaces => old \in Orders)
  BY <1>1 DEF Types, Customer
<1>3. order' = [X EXCEPT ![o].status = UNSIGNED]
  BY DEF create_order
<1>4. X \in [Orders -> OrderRecord]
  <2>1. CASE replaces
    BY <2>1, <1>1, <1>2, CanceledOrders
  <2>2. CASE ~replaces
    BY <2>2, <1>1 DEF Types
  <2> QED
    BY <2>1, <2>2
<1>5. ASSUME NEW p \in Orders
      PROVE  /\ X[p].next_charge_date = order[p].next_charge_date
             /\ X[p].signature = order[p].signature
             /\ X[p].status \in {order[p].status, CANCELED}
  <2>1. CASE replaces
    <3>1. Item[old].extra_subscription_months = 0
      BY <1>2, <2>1 DEF NoMonthsByHand
    <3>2. X = Canceled(old, customer)
      BY <2>1
    <3> HIDE DEF X
    <3>3. X[p].next_charge_date = order[p].next_charge_date
      BY <1>1, <1>2, <2>1, <3>1, <3>2, CanceledOrders
    <3>4. X[p].signature = order[p].signature /\ X[p].status \in {order[p].status, CANCELED}
      BY <1>1, <1>2, <2>1, <3>2, CanceledRecords
    <3> QED
      BY <3>3, <3>4
  <2>2. CASE ~replaces
    BY <2>2
  <2> QED
    BY <2>1, <2>2
<1> HIDE DEF X
<1>6. ASSUME NEW p \in Orders
      PROVE  /\ order'[p].next_charge_date = X[p].next_charge_date
             /\ order'[p].signature = X[p].signature
             /\ order'[p].status = IF p = o THEN UNSIGNED ELSE X[p].status
  <2> DEFINE r == [X[o] EXCEPT !.status = UNSIGNED]
  <2>1. /\ r.status = UNSIGNED /\ r.signature = X[o].signature
        /\ r.next_charge_date = X[o].next_charge_date
    BY <1>4 DEF OrderRecord
  <2>2. order' = [X EXCEPT ![o] = r]
    BY <1>3
  <2> HIDE DEF r
  <2> QED
    BY <1>4, <2>1, <2>2
<1>7. ASSUME NEW p \in Orders PROVE DateChanges(p) /\ StatusChanges(p)
  <2>1. order'[p].next_charge_date = order[p].next_charge_date
    BY <1>5, <1>6
  <2>2. /\ order'[p].signature = order[p].signature
        /\ order'[p].status \in {order[p].status, CANCELED, UNSIGNED}
    BY <1>5, <1>6
  <2> QED
    BY <2>1, <2>2 DEF DateChanges, StatusChanges, CANCELED, UNSIGNED, SIGNED
<1> QED
  BY <1>7 DEF OrdersChange

LEMMA SignOrderChanges ==
  ASSUME SignedInv, NoMonthsByHand, NEW o \in Orders, NEW no_charge \in BOOLEAN,
         sign_order(o, no_charge), no_charge => Item[o].price = 0
  PROVE  OrdersChange
<1> DEFINE follows == ~Item[o].is_subscription /\ Item[o].is_subscription_extension
           sub == customer.subscription
           date == IF Item[o].is_subscription THEN SignedUntil(o)
                   ELSE IF follows THEN order[sub].next_charge_date + 0
                   ELSE order[o].next_charge_date
           r == [status |-> SIGNED, signature |-> ~no_charge, next_charge_date |-> date]
<1>1. Types /\ ~(Item[o].extra_subscription_months > 0)
  BY DEF SignedInv, TimelyInv, NoMonthsByHand
<1>2. order' = [p \in Orders |-> IF p = o THEN r ELSE order[p]]
  BY <1>1 DEF sign_order
<1>3. r.next_charge_date = date /\ r.signature = ~no_charge
  OBVIOUS
<1> HIDE DEF r
<1>4. follows => sub \in Orders /\ order[sub].next_charge_date \in Int
  BY <1>1 DEF sign_order, Types, Customer, OrderRecord
<1>5. follows /\ ~Item[o].is_subscription => \E q \in Orders : date = order[q].next_charge_date
  BY <1>4
<1>6. /\ Item[o].is_subscription => date = SignedUntil(o)
      /\ ~Item[o].is_subscription /\ ~follows => date = order[o].next_charge_date
  OBVIOUS
<1> HIDE DEF date
<1>7. DateChanges(o)
  BY <1>2, <1>3, <1>5, <1>6 DEF DateChanges, sign_order
<1>8. StatusChanges(o)
  BY <1>2, <1>3 DEF StatusChanges
<1>9. \A p \in Orders : p = o \/ order'[p] = order[p]
  BY <1>2
<1> QED
  BY <1>7, <1>8, <1>9 DEF OrdersChange, DateChanges, StatusChanges

(* Orders with other dates, and the same status and signature.             *)
LEMMA NewDates ==
  ASSUME Types, NEW D \in SUBSET Orders, NEW d \in Int,
         order' = [p \in Orders |->
           IF p \in D THEN [order[p] EXCEPT !.next_charge_date = d] ELSE order[p]]
  PROVE  \A p \in Orders :
           /\ order'[p].status = order[p].status
           /\ order'[p].signature = order[p].signature
           /\ order'[p].next_charge_date = IF p \in D THEN d ELSE order[p].next_charge_date
<1> TAKE p \in Orders
<1>1. order[p] \in OrderRecord
  BY DEF Types
<1>2. CASE p \in D
  <2>1. order'[p] = [order[p] EXCEPT !.next_charge_date = d]
    BY <1>2
  <2> QED
    BY <1>1, <1>2, <2>1 DEF OrderRecord
<1>3. CASE p \notin D
  BY <1>3
<1> QED
  BY <1>2, <1>3

LEMMA TasksChange ==
  ASSUME SignedInv, NoMonthsByHand, NEW t \in toCharge, _create_charge(t)
  PROVE  OrdersChange
<1> DEFINE o == t.order
           date == order[o].next_charge_date
<1>1. /\ Types /\ o \in Orders /\ customer \in Customer
      /\ today \in 1 .. MaxMonth /\ t.today \in 1 .. MaxMonth /\ MaxMonth \in Nat
      /\ date \in Int
  BY SubscriptionsAssumption DEF SignedInv, TimelyInv, Types, OrderRecord
<1>2. CASE SkipCharge(t) \/ Expire(t) \/ FailsToCharge(t)
  BY <1>2, SameOrders DEF SkipCharge, Expire, DateStays, FailsToCharge
<1>3. CASE EndSubscription(t)
  BY <1>1, <1>3, CanceledChange, SameOrders DEF EndSubscription
<1>4. CASE SkipFree(t)
  <2>1. order' = [p \in Orders |->
          IF p \in {o} THEN [order[p] EXCEPT !.next_charge_date = today + 1] ELSE order[p]]
    BY <1>1, <1>4 DEF SkipFree, Types
  <2>2. \A p \in Orders :
          /\ order'[p].status = order[p].status
          /\ order'[p].signature = order[p].signature
          /\ order'[p].next_charge_date = IF p \in {o} THEN today + 1
                                          ELSE order[p].next_charge_date
    BY <1>1, <2>1, NewDates
  <2>3. Item[o].price = 0
    BY <1>4 DEF SkipFree, CostsNothing
  <2> QED
    BY <2>2, <2>3 DEF OrdersChange, DateChanges, StatusChanges
<1>5. CASE ChargeMonth(t)
  <2> DEFINE D == {o} \cup DueExtensions(t)
  <2>1. date \in 1 .. t.today /\ date \in Nat /\ date + 1 \in 2 .. MaxMonth + 1
    BY <1>1, <1>5 DEF ChargeMonth, IsDue
  <2>2. order' = [p \in Orders |->
          IF p \in D THEN [order[p] EXCEPT !.next_charge_date = date + 1] ELSE order[p]]
    BY <1>5 DEF ChargeMonth, NextMonth
  <2>3. Longer(o)
    <3>1. MoreCharges(charges', o, "recurring_subscription", date, 1)
      BY <1>1, <1>5, <2>1, ChargedOneMore DEF ChargeMonth
    <3>2. /\ charges'[o] \in Seq(ChargeEntity) /\ charges[o] \in Seq(ChargeEntity)
          /\ DOMAIN charges'[o] = 1 .. Len(charges[o]) + 1
      BY <1>1, <3>1 DEF MoreCharges, Types
    <3> QED
      BY <3>2 DEF Longer
  <2>4. \A p \in DueExtensions(t) : ~Item[p].is_subscription
    BY DEF DueExtensions
  <2>5. D \in SUBSET Orders
    BY <1>1 DEF DueExtensions
  <2> HIDE DEF D, date
  <2>6. \A p \in Orders :
          /\ order'[p].status = order[p].status
          /\ order'[p].signature = order[p].signature
          /\ order'[p].next_charge_date = IF p \in D THEN date + 1
                                          ELSE order[p].next_charge_date
    BY <1>1, <2>1, <2>2, <2>5, NewDates
  <2>7. \A p \in D : ~Item[p].is_subscription \/ Longer(p)
    BY <2>3, <2>4 DEF D
  <2> QED
    BY <2>1, <2>6, <2>7 DEF OrdersChange, DateChanges, StatusChanges
<1> QED
  BY <1>2, <1>3, <1>4, <1>5 DEF _create_charge

LEMMA ExtendChanges ==
  ASSUME SignedInv, set_expired_subscription_status
  PROVE  OrdersChange
<1> DEFINE sub == customer.subscription
           date == today + ExtensionMonths
           once == [type |-> "subscription_extension", status |-> "pending",
                    month |-> today]
<1>1. /\ Types /\ sub \in Orders /\ today \in Nat /\ date \in Int
  <2>1. Types /\ sub \in Orders /\ today \in Nat
    BY DEF SignedInv, TimelyInv, Types, Customer, set_expired_subscription_status
  <2>2. date \in Int
    BY <2>1, SubscriptionsAssumption
  <2> QED
    BY <2>1, <2>2
<1>2. charges[sub] \in Seq(ChargeEntity) /\ once \in ChargeEntity
  BY <1>1 DEF Types, ChargeEntity
<1>3. Longer(sub)
  <2> HIDE DEF once
  <2>1. \/ charges' = [charges EXCEPT ![sub] = Append(@, once)]
        \/ charges' = [charges EXCEPT ![sub] = @ \o <<once, once>>]
    BY DEF set_expired_subscription_status, once
  <2>2. charges'[sub] \in {Append(charges[sub], once), charges[sub] \o <<once, once>>}
    BY <1>1, <2>1 DEF Types
  <2> QED
    BY <1>2, <2>2 DEF Longer
<1>4. order' = [p \in Orders |->
         IF p \in {sub} THEN [order[p] EXCEPT !.next_charge_date = date] ELSE order[p]]
  BY <1>1 DEF set_expired_subscription_status, Types
<1> HIDE DEF sub, date
<1>5. \A p \in Orders :
        /\ order'[p].status = order[p].status
        /\ order'[p].signature = order[p].signature
        /\ order'[p].next_charge_date = IF p \in {sub} THEN date
                                        ELSE order[p].next_charge_date
  BY <1>1, <1>4, NewDates
<1> QED
  BY <1>3, <1>5 DEF OrdersChange, DateChanges, StatusChanges, date

LEMMA NextChanges ==
  ASSUME SignedInv, NoMonthsByHand, Next
  PROVE  OrdersChange
<1>1. Types /\ \A o \in toSign : Item[o].price = 0
  BY DEF SignedInv, TimelyInv
<1>2. ASSUME NEW o \in Orders, SignedByContact(o) \/ SignedByTask(o)
      PROVE  OrdersChange
  BY <1>1, <1>2, SignOrderChanges DEF SignedByContact, SignedByTask
<1>3. CASE Transactions
  <2>1. CASE _recurrent_billing \/ store_stripe_link_to_datastore \/ MonthPasses
    BY <2>1, SameOrders
       DEF _recurrent_billing, store_stripe_link_to_datastore, MonthPasses
  <2> QED
    BY <1>2, <1>3, <2>1, CreateOrderChanges, TasksChange, ExtendChanges DEF Transactions
<1>4. CASE Reads
  BY <1>4, SameOrders DEF Reads, ReadForCancelSubscription, ReadForNextChargeDate,
     ReadForServiceEnabled, ReadForCancelOrder, Read
<1>5. CASE Writes
  <2>1. writer.order \in Orders /\ writer.customer \in Customer
    BY <1>1 DEF Types, WriterRecord
  <2>2. CASE cancel_subscription \/ set_service_enabled \/ Fail
    BY <2>2, SameOrders DEF cancel_subscription, set_service_enabled, Fail
  <2>3. CASE cancel_immediately
    BY <1>1, <2>1, <2>3, CanceledChange, SameOrders DEF cancel_immediately
  <2>4. CASE cancel_order
    BY <1>1, <2>1, <2>4, CanceledChange DEF cancel_order
  <2>5. CASE set_next_charge_date
    BY <2>5 DEF set_next_charge_date, NoMonthsByHand
  <2> QED
    BY <1>5, <2>2, <2>3, <2>4, <2>5 DEF Writes
<1> QED
  BY <1>3, <1>4, <1>5 DEF Next

LEMMA TasksToSign ==
  ASSUME Next
  PROVE  \A o \in toSign' : o \in toSign \/ Item[o].price = 0
<1>1. CASE Transactions
  <2>1. ASSUME NEW o \in Orders, create_order(o)
        PROVE  \A p \in toSign' : p \in toSign \/ Item[p].price = 0
    BY <2>1 DEF create_order
  <2>2. CASE \E o \in Orders : SignedByContact(o) \/ SignedByTask(o)
    BY <2>2 DEF SignedByContact, SignedByTask
  <2>3. CASE \/ _recurrent_billing \/ \E t \in toCharge : _create_charge(t)
             \/ set_expired_subscription_status \/ store_stripe_link_to_datastore
             \/ MonthPasses
    BY <2>3 DEF _recurrent_billing, _create_charge, set_expired_subscription_status,
       store_stripe_link_to_datastore, MonthPasses
  <2> QED
    BY <1>1, <2>1, <2>2, <2>3 DEF Transactions
<1>2. CASE Reads
  BY <1>2 DEF Reads, ReadForCancelSubscription, ReadForNextChargeDate,
     ReadForServiceEnabled, ReadForCancelOrder, Read
<1>3. CASE Writes
  BY <1>3 DEF Writes, cancel_subscription, cancel_immediately, set_next_charge_date,
     set_service_enabled, cancel_order, Fail
<1> QED
  BY <1>1, <1>2, <1>3 DEF Next

LEMMA NextSigned ==
  ASSUME NoMonthsByHand, SignedInv, [Next]_vars
  PROVE  SignedInv'
<1>1. CASE Next
  <2>1. TimelyInv'
    BY <1>1, NextTimely DEF SignedInv
  <2>2. OrdersChange
    BY <1>1, NextChanges
  <2>3. \A p \in Orders : order'[p].status = SIGNED /\ Item[p].price > 0 => order'[p].signature
    <3> TAKE p \in Orders
    <3>1. StatusChanges(p) /\ Item[p].price \in Nat
      BY <2>2, SubscriptionsAssumption DEF OrdersChange
    <3>2. order[p].status = SIGNED /\ Item[p].price > 0 => order[p].signature
      BY DEF SignedInv
    <3>3. Item[p].price > 0 => Item[p].price # 0
      BY <3>1
    <3> QED
      BY <3>1, <3>2, <3>3 DEF StatusChanges
  <2>4. \A o \in toSign' : Item[o].price = 0
    BY <1>1, TasksToSign DEF SignedInv
  <2> QED
    BY <2>1, <2>3, <2>4 DEF SignedInv
<1>2. CASE UNCHANGED vars
  BY <1>2, StutterTimely DEF SignedInv, vars
<1> QED
  BY <1>1, <1>2

LEMMA InitSigned == Init => SignedInv
<1> SUFFICES ASSUME Init PROVE SignedInv
  OBVIOUS
<1>1. \A p \in Orders : order[p].status = NONE
  BY DEF Init, NewOrder
<1> QED
  BY <1>1, InitTimely DEF SignedInv, Init, NONE, SIGNED

LEMMA LongerOnlyCharged ==
  ASSUME NoMonthsByHand, SignedInv, [Next]_vars, NEW o \in Orders,
         order[o].status = SIGNED, Item[o].price > 0, Item[o].is_subscription,
         order'[o].next_charge_date > order[o].next_charge_date
  PROVE  Len(charges'[o]) > Len(charges[o])
<1>1. order[o].next_charge_date \in Int /\ Item[o].price \in Nat
  BY SubscriptionsAssumption DEF SignedInv, TimelyInv, Types, OrderRecord
<1>2. Next
  BY <1>1 DEF vars
<1>3. DateChanges(o) /\ order[o].signature
  BY <1>2, NextChanges DEF OrdersChange, SignedInv
<1> QED
  BY <1>1, <1>3 DEF DateChanges, Longer

(* A subscription that is not free is not paid for longer without a charge *)
(* for it (_create_charge, set_expired_subscription_status): an order that *)
(* is signed is not signed again, as long as no order adds months and no   *)
(* administrator sets the date.                                            *)
THEOREM NoMonthForFree == NoMonthsByHand => (Spec => NoFreeMonth)
<1> SUFFICES ASSUME NoMonthsByHand
             PROVE  Spec => NoFreeMonth
  OBVIOUS
<1>1. SignedInv /\ [Next]_vars => SignedInv'
  BY NextSigned
<1>2. SignedInv /\ [Next]_vars =>
        [\A o \in Orders :
           /\ order[o].status = SIGNED /\ order[o].next_charge_date # 0
           /\ Item[o].price > 0 /\ Item[o].is_subscription
           /\ order'[o].next_charge_date > order[o].next_charge_date
           => Len(charges'[o]) > Len(charges[o])]_vars
  BY LongerOnlyCharged
<1> QED
  BY <1>1, <1>2, InitSigned, PTL DEF Spec, NoFreeMonth

-----------------------------------------------------------------------------
(* The types, when MaxDate is large enough for the dates that are reached. *)

LongEnough ==
  /\ MaxMonth + ExtensionMonths <= MaxDate
  /\ \A o \in Orders : MaxMonth + Item[o].count <= MaxDate

BoundedInv ==
  /\ SignedInv
  /\ \A p \in Orders : order[p].next_charge_date \in 0 .. MaxDate
  /\ writer.entity.next_charge_date \in 0 .. MaxDate
  /\ expired \in BOOLEAN /\ toEnable \in BOOLEAN

LEMMA SignedInTime ==
  ASSUME Types, NoMonthsByHand, LongEnough, NEW o \in Orders
  PROVE  SignedUntil(o) \in 0 .. MaxDate
<1>1. /\ Item[o].count \in Nat /\ Item[o].count > 0 /\ Item[o].extra_subscription_months = 0
      /\ MaxMonth \in Nat /\ MaxDate \in Nat /\ MaxMonth + Item[o].count <= MaxDate
  BY SubscriptionsAssumption DEF NoMonthsByHand, LongEnough
<1>2. today \in 1 .. MaxMonth
  BY DEF Types
<1>3. Months(o) = Item[o].count \/ Months(o) = 0
  BY <1>1 DEF Months
<1> QED
  BY <1>1, <1>2, <1>3 DEF SignedUntil

LEMMA DatesBounded ==
  ASSUME NoMonthsByHand, LongEnough, BoundedInv, OrdersChange, NEW p \in Orders
  PROVE  order'[p].next_charge_date \in 0 .. MaxDate
<1>1. /\ today \in 1 .. MaxMonth /\ MaxMonth \in Nat /\ MaxDate \in Nat
      /\ ExtensionMonths \in Nat /\ ExtensionMonths > 0
      /\ MaxMonth + ExtensionMonths <= MaxDate
  BY SubscriptionsAssumption DEF BoundedInv, SignedInv, TimelyInv, Types, LongEnough
<1>2. \A q \in Orders : order[q].next_charge_date \in 0 .. MaxDate
  BY DEF BoundedInv
<1>3. SignedUntil(p) \in 0 .. MaxDate
  BY SignedInTime DEF BoundedInv, SignedInv, TimelyInv
<1>4. DateChanges(p)
  BY DEF OrdersChange
<1>5. today + 1 \in 0 .. MaxDate /\ today + ExtensionMonths \in 0 .. MaxDate
  BY <1>1
<1>6. \A d \in 2 .. MaxMonth + 1 : d \in 0 .. MaxDate
  BY <1>1
<1> QED
  BY <1>2, <1>3, <1>4, <1>5, <1>6 DEF DateChanges

LEMMA EntityBounded ==
  ASSUME BoundedInv, Next
  PROVE  writer'.entity.next_charge_date \in 0 .. MaxDate
<1>1. \A o \in Orders : order[o] \in OrderRecord /\ order[o].next_charge_date \in 0 .. MaxDate
  BY DEF BoundedInv, SignedInv, TimelyInv, Types
<1>2. writer.entity.next_charge_date \in 0 .. MaxDate
  BY DEF BoundedInv
<1>3. CASE writer' = writer
  BY <1>2, <1>3
<1>4. CASE writer' = Idle
  BY <1>4, SubscriptionsAssumption DEF Idle, NewOrder
<1>5. CASE \E op, o : o \in Orders /\ writer' = [op |-> op, customer |-> customer,
                                                 order |-> o, entity |-> order[o]]
  BY <1>1, <1>5
<1>6. customer.subscription # NoOrder => customer.subscription \in Orders
  BY DEF BoundedInv, SignedInv, TimelyInv, Types, Customer
<1>7. Transactions => writer' = writer
  BY DEF Transactions, create_order, SignedByContact, SignedByTask, sign_order,
     _recurrent_billing, _create_charge, set_expired_subscription_status,
     store_stripe_link_to_datastore, MonthPasses
<1>8. Writes => writer' = Idle
  BY DEF Writes, cancel_subscription, cancel_immediately, set_next_charge_date,
     set_service_enabled, cancel_order, Fail
<1>9. Reads => \E op, o : o \in Orders /\ Read(op, o)
  BY <1>6 DEF Reads, ReadForCancelSubscription, ReadForNextChargeDate,
     ReadForServiceEnabled, ReadForCancelOrder
<1> QED
  BY <1>3, <1>4, <1>5, <1>7, <1>8, <1>9 DEF Next, Read

LEMMA FlagsBounded ==
  ASSUME BoundedInv, Next
  PROVE  expired' \in BOOLEAN /\ toEnable' \in BOOLEAN
<1>1. expired \in BOOLEAN /\ toEnable \in BOOLEAN
  BY DEF BoundedInv
<1>2. CASE Transactions
  BY <1>1, <1>2 DEF Transactions, create_order, SignedByContact, SignedByTask, sign_order,
     _recurrent_billing, _create_charge, SkipCharge, EndSubscription, SkipFree, Expire,
     ChargeMonth, FailsToCharge, set_expired_subscription_status, store_stripe_link_to_datastore,
     MonthPasses
<1>3. CASE Reads
  BY <1>1, <1>3 DEF Reads, ReadForCancelSubscription, ReadForNextChargeDate,
     ReadForServiceEnabled, ReadForCancelOrder, Read
<1>4. CASE Writes
  BY <1>1, <1>4 DEF Writes, cancel_subscription, cancel_immediately, set_next_charge_date,
     set_service_enabled, cancel_order, Fail
<1> QED
  BY <1>2, <1>3, <1>4 DEF Next

LEMMA NextBounded ==
  ASSUME NoMonthsByHand, LongEnough, BoundedInv, [Next]_vars
  PROVE  BoundedInv'
<1>1. SignedInv'
  BY NextSigned DEF BoundedInv
<1>2. CASE Next
  <2>1. OrdersChange
    BY <1>2, NextChanges DEF BoundedInv
  <2>2. \A p \in Orders : order'[p].next_charge_date \in 0 .. MaxDate
    BY <2>1, DatesBounded
  <2> QED
    BY <1>1, <1>2, <2>2, EntityBounded, FlagsBounded DEF BoundedInv
<1>3. CASE UNCHANGED vars
  BY <1>1, <1>3 DEF BoundedInv, vars
<1> QED
  BY <1>2, <1>3

LEMMA InitBounded == Init => BoundedInv
<1> SUFFICES ASSUME Init PROVE BoundedInv
  OBVIOUS
<1>1. 0 \in 0 .. MaxDate
  BY SubscriptionsAssumption
<1>2. writer.entity.next_charge_date = 0 /\ \A p \in Orders : order[p].next_charge_date = 0
  BY DEF Init, Idle, NewOrder
<1> QED
  BY <1>1, <1>2, InitSigned DEF BoundedInv, Init

LEMMA BoundedTypes == BoundedInv => TypeOK
<1> SUFFICES ASSUME BoundedInv PROVE TypeOK
  OBVIOUS
<1>1. Types
  BY DEF BoundedInv, SignedInv, TimelyInv
<1>2. \A r \in OrderRecord : r.next_charge_date \in 0 .. MaxDate => r \in OrderEntity
  BY DEF OrderRecord, OrderEntity
<1>3. order \in [Orders -> OrderEntity]
  BY <1>1, <1>2 DEF Types, BoundedInv
<1>4. writer \in Writer
  <2>1. writer.entity \in OrderEntity
    BY <1>1, <1>2 DEF Types, WriterRecord, BoundedInv
  <2> QED
    BY <1>1, <2>1 DEF Types, WriterRecord, Writer
<1> QED
  BY <1>1, <1>3, <1>4 DEF Types, TypeOK, BoundedInv

(* The entities keep their types, and no subscription is paid for further  *)
(* ahead than an order or an extension lasts (SignedUntil, ChargeMonth,    *)
(* set_expired_subscription_status).                                       *)
THEOREM TypeCorrect == NoMonthsByHand /\ LongEnough => (Spec => []TypeOK)
<1> SUFFICES ASSUME NoMonthsByHand, LongEnough
             PROVE  Spec => []TypeOK
  OBVIOUS
<1>1. BoundedInv /\ [Next]_vars => BoundedInv'
  BY NextBounded
<1> QED
  BY <1>1, InitBounded, BoundedTypes, PTL DEF Spec

-----------------------------------------------------------------------------
(* The subscription of the customer.  It stays live unless an old copy of  *)
(* him is put; no copy is old when nobody writes between the read of a     *)
(* function and its write.  It is the only one if a cancelled order is not *)
(* signed either: sign_order does not look at the status.                  *)

OneWriter == writer.op # "idle" => writer'.op = "idle"

SpecOneWriter == Init /\ [][Next /\ OneWriter]_vars

CancelledStays ==
  \A o \in Orders : order[o].status = CANCELED => order'[o].status = CANCELED

SpecNoneRevived == Init /\ [][Next /\ OneWriter /\ CancelledStays]_vars

IsLive(o) == Item[o].is_subscription /\ order[o].status \in {UNSIGNED, SIGNED}

OnlyCurrent == \A o \in Orders : IsLive(o) => o = customer.subscription

HasSubscription(c) ==
  c.subscription # NoOrder => Item[c.subscription].is_subscription

(* What every customer, copy of him and task is about.                     *)
OwnInv ==
  /\ TimelyInv
  /\ SubscriptionTasks
  /\ HasSubscription(customer)
  /\ HasSubscription(writer.customer)
  /\ writer.op = "cancel_immediately" => writer.order = writer.customer.subscription
  /\ writer.op = "set_next_charge_date" =>
       writer.entity.status = SIGNED /\ order[writer.order].status # NONE
  /\ \A t \in toCharge : order[t.order].status # NONE

LiveInv ==
  /\ OwnInv
  /\ CurrentIsLive
  /\ writer.op # "idle" => writer.customer = customer

StatusesStay ==
  \A p \in Orders : \/ order'[p].status = order[p].status
                    \/ order'[p].status = SIGNED /\ order[p].status # NONE

Created == \A p \in Orders : order[p].status # NONE => order'[p].status # NONE

(* What a step does to the subscriptions.                                  *)
Kept ==
  /\ CurrentIsLive => CurrentIsLive'
  /\ Created
  /\ OnlyCurrent /\ CancelledStays => OnlyCurrent'

LEMMA StatusIs ==
  ASSUME Types
  PROVE  \A p \in Orders : order[p].status \in {NONE, UNSIGNED, SIGNED, CANCELED}
  BY DEF Types, OrderRecord

LEMMA StaysLive ==
  ASSUME OwnInv, StatusesStay, customer'.subscription = customer.subscription
  PROVE  Kept
<1>1. customer.subscription # NoOrder => customer.subscription \in Orders
  BY DEF OwnInv, TimelyInv, Types, Customer
<1>2. CurrentIsLive => CurrentIsLive'
  BY <1>1 DEF CurrentIsLive, StatusesStay, NONE, UNSIGNED, SIGNED
<1>3. Created
  BY DEF Created, StatusesStay, NONE, SIGNED
<1>4. ASSUME OnlyCurrent, CancelledStays, NEW o \in Orders, IsLive(o)'
      PROVE  o = customer'.subscription
  <2>1. order[o].status \in {NONE, UNSIGNED, SIGNED, CANCELED}
    BY StatusIs DEF OwnInv, TimelyInv
  <2>2. IsLive(o)
    BY <1>4, <2>1
       DEF IsLive, StatusesStay, CancelledStays, NONE, UNSIGNED, SIGNED, CANCELED
  <2> QED
    BY <1>4, <2>2 DEF OnlyCurrent
<1> QED
  BY <1>2, <1>3, <1>4 DEF Kept, OnlyCurrent

LEMMA CancelsLive ==
  ASSUME OwnInv, NEW o \in Orders, NEW c, order' = Canceled(o, c),
         customer'.subscription = IF Item[o].is_subscription THEN NoOrder
                                  ELSE customer.subscription,
         IsLive(o) \/ ~Item[o].is_subscription \/ o = customer.subscription
  PROVE  Kept
<1>1. Types
  BY DEF OwnInv, TimelyInv
<1>2. customer.subscription # NoOrder => customer.subscription \in Orders
  BY <1>1 DEF Types, Customer
<1>3. \A p \in Orders : order'[p].status = IF p = o THEN CANCELED ELSE order[p].status
  BY <1>1, CanceledRecords
<1>4. CurrentIsLive => CurrentIsLive'
  BY <1>2, <1>3 DEF OwnInv, HasSubscription, CurrentIsLive
<1>5. Created
  BY <1>3 DEF Created, NONE, CANCELED
<1>6. ASSUME OnlyCurrent, NEW p \in Orders, IsLive(p)'
      PROVE  p = customer'.subscription
  <2>1. p # o /\ IsLive(p)
    BY <1>3, <1>6 DEF IsLive, UNSIGNED, SIGNED, CANCELED
  <2>2. p = customer.subscription /\ ~Item[o].is_subscription
    BY <1>6, <2>1 DEF OnlyCurrent
  <2> QED
    BY <2>2
<1> QED
  BY <1>4, <1>5, <1>6 DEF Kept, OnlyCurrent

LEMMA CreateOrderLive ==
  ASSUME OwnInv, NEW o \in Orders, create_order(o)
  PROVE  Kept
<1> DEFINE old == customer.subscription
           replaces == Item[o].is_subscription /\ old # NoOrder
           X == IF replaces THEN Canceled(old, customer) ELSE order
<1>1. Types /\ customer \in Customer /\ (old # NoOrder => old \in Orders)
  BY DEF OwnInv, TimelyInv, Types, Customer
<1>2. order' = [X EXCEPT ![o].status = UNSIGNED]
  BY DEF create_order
<1>3. X \in [Orders -> OrderRecord] /\ (~replaces => X = order)
  BY <1>1, CanceledOrders DEF Types
<1> HIDE DEF X
<1>4. \A p \in Orders : order'[p].status = IF p = o THEN UNSIGNED ELSE X[p].status
  <2> DEFINE r == [X[o] EXCEPT !.status = UNSIGNED]
  <2>1. r.status = UNSIGNED
    BY <1>3 DEF OrderRecord
  <2>2. order' = [X EXCEPT ![o] = r]
    BY <1>2
  <2> HIDE DEF r
  <2> QED
    BY <1>3, <2>1, <2>2
<1>5. CASE Item[o].is_subscription
  <2>1. customer'.subscription = o
    BY <1>1, <1>5 DEF create_order, Customer
  <2>2. CurrentIsLive => CurrentIsLive'
    BY <1>4, <2>1 DEF CurrentIsLive
  <2>3. \A p \in Orders : p # o => X[p].status = IF replaces /\ p = old THEN CANCELED
                                               ELSE order[p].status
    BY <1>1, CanceledRecords DEF X
  <2>4. ASSUME OnlyCurrent, NEW p \in Orders, p # o, IsLive(p)'
        PROVE  FALSE
    <3>1. IsLive(p) /\ p # old
      BY <1>4, <1>5, <2>3, <2>4, SubscriptionsAssumption
         DEF IsLive, OnlyCurrent, UNSIGNED, SIGNED, CANCELED
    <3> QED
      BY <2>4, <3>1 DEF OnlyCurrent
  <2>5. Created
    BY <1>4, <2>3 DEF Created, NONE, UNSIGNED, CANCELED
  <2> QED
    BY <2>1, <2>2, <2>4, <2>5 DEF Kept, OnlyCurrent
<1>6. CASE ~Item[o].is_subscription
  <2>1. customer' = customer /\ X = order
    BY <1>3, <1>6 DEF create_order
  <2>2. CurrentIsLive => CurrentIsLive'
    BY <1>1, <1>4, <2>1 DEF CurrentIsLive
  <2>3. Created
    BY <1>4, <2>1 DEF Created, NONE, UNSIGNED
  <2>4. OnlyCurrent => OnlyCurrent'
    BY <1>4, <1>6, <2>1 DEF OnlyCurrent, IsLive
  <2> QED
    BY <2>2, <2>3, <2>4 DEF Kept
<1> QED
  BY <1>5, <1>6

LEMMA SignOrderLive ==
  ASSUME OwnInv, NEW o \in Orders, NEW no_charge, sign_order(o, no_charge)
  PROVE  Kept
<1>1. Types /\ customer' = customer
  BY DEF OwnInv, TimelyInv, sign_order
<1>2. ASSUME NEW p \in Orders
      PROVE  \/ order'[p].status = order[p].status
             \/ order'[p].status = SIGNED /\ order[p].status # NONE
  <2>1. order[p] \in OrderRecord
    BY <1>1 DEF Types
  <2>2. CASE p = o
    BY <2>2 DEF sign_order
  <2>3. CASE p # o
    <3>1. \/ order'[p] = order[p]
          \/ \E d : order'[p] = [order[p] EXCEPT !.next_charge_date = d]
      BY <2>3 DEF sign_order
    <3> QED
      BY <2>1, <3>1 DEF OrderRecord
  <2> QED
    BY <2>2, <2>3
<1> QED
  BY <1>1, <1>2, StaysLive DEF StatusesStay

LEMMA TasksLive ==
  ASSUME OwnInv, NEW t \in toCharge, _create_charge(t)
  PROVE  Kept
<1> DEFINE o == t.order
           date == order[o].next_charge_date
<1>1. /\ Types /\ o \in Orders /\ customer \in Customer /\ Item[o].is_subscription
      /\ today \in Nat /\ date \in Int
  BY DEF OwnInv, SubscriptionTasks, TimelyInv, Types, OrderRecord
<1>2. CASE SkipCharge(t) \/ Expire(t) \/ FailsToCharge(t)
  BY <1>2, StaysLive DEF SkipCharge, Expire, DateStays, FailsToCharge, StatusesStay
<1>3. CASE EndSubscription(t)
  <2>1. CASE order[o].status # CANCELED
    <3>1. customer'.subscription = NoOrder /\ order' = Canceled(o, customer)
      BY <1>1, <1>3, <2>1 DEF EndSubscription, WithoutSubscription, Customer
    <3>2. IsLive(o)
      BY <1>1, <2>1, StatusIs DEF OwnInv, IsLive
    <3> QED
      BY <1>1, <3>1, <3>2, CancelsLive
  <2>2. CASE order[o].status = CANCELED
    <3>1. customer'.subscription = customer.subscription /\ order' = order
      BY <1>1, <1>3, <2>2 DEF EndSubscription, Customer
    <3> QED
      BY <3>1, StaysLive DEF StatusesStay
  <2> QED
    BY <2>1, <2>2
<1>4. CASE SkipFree(t)
  <2>1. order' = [p \in Orders |->
          IF p \in {o} THEN [order[p] EXCEPT !.next_charge_date = today + 1] ELSE order[p]]
    BY <1>1, <1>4 DEF SkipFree, Types
  <2>2. \A p \in Orders :
          /\ order'[p].status = order[p].status
          /\ order'[p].signature = order[p].signature
          /\ order'[p].next_charge_date = IF p \in {o} THEN today + 1
                                          ELSE order[p].next_charge_date
    BY <1>1, <2>1, NewDates
  <2>3. customer' = customer
    BY <1>4 DEF SkipFree
  <2> QED
    BY <2>2, <2>3, StaysLive DEF StatusesStay
<1>5. CASE ChargeMonth(t)
  <2> DEFINE D == {o} \cup DueExtensions(t)
  <2>1. order' = [p \in Orders |->
          IF p \in D THEN [order[p] EXCEPT !.next_charge_date = date + 1] ELSE order[p]]
    BY <1>5 DEF ChargeMonth, NextMonth
  <2>2. D \in SUBSET Orders /\ date + 1 \in Int
    BY <1>1 DEF DueExtensions
  <2>3. customer' = customer
    BY <1>5 DEF ChargeMonth
  <2> HIDE DEF D, date
  <2>4. \A p \in Orders :
          /\ order'[p].status = order[p].status
          /\ order'[p].signature = order[p].signature
          /\ order'[p].next_charge_date = IF p \in D THEN date + 1
                                          ELSE order[p].next_charge_date
    BY <1>1, <2>1, <2>2, NewDates
  <2> QED
    BY <2>3, <2>4, StaysLive DEF StatusesStay
<1> QED
  BY <1>2, <1>3, <1>4, <1>5 DEF _create_charge

LEMMA ExtendLive ==
  ASSUME OwnInv, set_expired_subscription_status
  PROVE  Kept
<1> DEFINE sub == customer.subscription
           date == today + ExtensionMonths
<1>1. Types /\ sub \in Orders /\ today \in Nat /\ customer' = customer
  BY DEF OwnInv, TimelyInv, Types, Customer, set_expired_subscription_status
<1>2. date \in Int
  BY <1>1, SubscriptionsAssumption
<1>3. order' = [p \in Orders |->
         IF p \in {sub} THEN [order[p] EXCEPT !.next_charge_date = date] ELSE order[p]]
  BY <1>1 DEF set_expired_subscription_status, Types
<1> HIDE DEF sub, date
<1>4. \A p \in Orders :
        /\ order'[p].status = order[p].status
        /\ order'[p].signature = order[p].signature
        /\ order'[p].next_charge_date = IF p \in {sub} THEN date
                                        ELSE order[p].next_charge_date
  BY <1>1, <1>2, <1>3, NewDates
<1> QED
  BY <1>1, <1>4, StaysLive DEF StatusesStay

LEMMA DateLive ==
  ASSUME OwnInv, set_next_charge_date
  PROVE  StatusesStay /\ customer' = customer
<1>1. /\ Types /\ writer.order \in Orders /\ writer.entity \in OrderRecord
      /\ writer.entity.status = SIGNED /\ order[writer.order].status # NONE
  BY DEF OwnInv, TimelyInv, Types, WriterRecord, set_next_charge_date
<1>2. PICK date \in NextChargeDates :
        order' = [order EXCEPT ![writer.order] =
                    [writer.entity EXCEPT !.next_charge_date = date]]
  BY DEF set_next_charge_date
<1>3. [writer.entity EXCEPT !.next_charge_date = date].status = SIGNED
  BY <1>1 DEF OrderRecord
<1> QED
  BY <1>1, <1>2, <1>3 DEF StatusesStay, Types, set_next_charge_date

LEMMA WritesLive ==
  ASSUME OwnInv, Writes, ~WritesOldSubscription
  PROVE  Kept
<1> DEFINE o == writer.order
           sub == customer.subscription
<1>1. Types /\ customer \in Customer /\ o \in Orders /\ writer.customer \in Customer
  BY DEF OwnInv, TimelyInv, Types, WriterRecord
<1>2. CASE cancel_subscription \/ set_service_enabled \/ Fail
  <2>1. order' = order /\ customer'.subscription = sub
    BY <1>1, <1>2
       DEF cancel_subscription, set_service_enabled, Fail, Customer, WritesOldSubscription
  <2> QED
    BY <2>1, StaysLive DEF StatusesStay
<1>3. CASE cancel_immediately
  <2>1. o = sub /\ writer.customer.subscription = sub
    BY <1>3 DEF OwnInv, cancel_immediately, WritesOldSubscription
  <2>2. CASE order[o].status # CANCELED
    <3>1. /\ order' = Canceled(o, writer.customer)
          /\ customer'.subscription = IF Item[o].is_subscription THEN NoOrder ELSE sub
      BY <1>1, <1>3, <2>1, <2>2 DEF cancel_immediately, WithoutSubscription, Customer
    <3> QED
      BY <1>1, <2>1, <3>1, CancelsLive
  <2>3. CASE order[o].status = CANCELED
    <3>1. customer'.subscription = sub /\ order' = order
      BY <1>1, <1>3, <2>1, <2>3 DEF cancel_immediately, Customer
    <3> QED
      BY <3>1, StaysLive DEF StatusesStay
  <2> QED
    BY <2>2, <2>3
<1>4. CASE cancel_order
  <2>1. /\ order' = Canceled(o, writer.customer)
        /\ customer'.subscription = IF Item[o].is_subscription THEN NoOrder ELSE sub
    BY <1>1, <1>4 DEF cancel_order, WithoutSubscription, Customer, WritesOldSubscription
  <2> QED
    BY <1>1, <1>4, <2>1, CancelsLive DEF cancel_order, MayCancel, IsLive
<1>5. CASE set_next_charge_date
  BY <1>5, DateLive, StaysLive
<1> QED
  BY <1>2, <1>3, <1>4, <1>5 DEF Writes

(* Whoever writes, an order that exists stays one.                         *)
LEMMA WritesCreated ==
  ASSUME OwnInv, Writes
  PROVE  Created
<1>1. Types /\ writer.order \in Orders
  BY DEF OwnInv, TimelyInv, Types, WriterRecord
<1>2. CASE order' = order
  BY <1>2 DEF Created
<1>3. CASE order' = Canceled(writer.order, writer.customer)
  BY <1>1, <1>3, CanceledRecords DEF Created, NONE, CANCELED
<1>4. CASE set_next_charge_date
  BY <1>4, DateLive DEF Created, StatusesStay, NONE, SIGNED
<1> QED
  BY <1>2, <1>3, <1>4
     DEF Writes, cancel_subscription, cancel_immediately, set_service_enabled,
         cancel_order, Fail

LEMMA TasksAreKept ==
  ASSUME Next
  PROVE  \A t \in toCharge' : t \in toCharge \/ order[t.order].status # NONE
<1>1. CASE _recurrent_billing
  BY <1>1 DEF _recurrent_billing, _qry, NONE, SIGNED
<1>2. CASE \E t \in toCharge : _create_charge(t)
  BY <1>2 DEF _create_charge
<1>3. CASE toCharge' = toCharge
  BY <1>3
<1> QED
  BY <1>1, <1>2, <1>3 DEF Next, Transactions, Reads, Writes, create_order, SignedByContact,
     SignedByTask, sign_order, set_expired_subscription_status,
     store_stripe_link_to_datastore, MonthPasses, ReadForCancelSubscription,
     ReadForNextChargeDate, ReadForServiceEnabled, ReadForCancelOrder, Read,
     cancel_subscription, cancel_immediately, set_next_charge_date, set_service_enabled,
     cancel_order, Fail

(* Transactions and reads never write an old copy.                         *)
LEMMA NextKept ==
  ASSUME OwnInv, Next
  PROVE  /\ ~(Writes /\ WritesOldSubscription) => Kept
         /\ Created
<1>1. CASE _recurrent_billing \/ MonthPasses \/ Reads
  <2>1. order' = order /\ customer' = customer
    BY <1>1 DEF _recurrent_billing, MonthPasses, Reads, ReadForCancelSubscription,
       ReadForNextChargeDate, ReadForServiceEnabled, ReadForCancelOrder, Read
  <2> QED
    BY <2>1, StaysLive DEF StatusesStay, Kept
<1>2. CASE store_stripe_link_to_datastore
  <2>1. order' = order /\ customer'.subscription = customer.subscription
    BY <1>2 DEF store_stripe_link_to_datastore, OwnInv, TimelyInv, Types, Customer
  <2> QED
    BY <2>1, StaysLive DEF StatusesStay, Kept
<1>3. CASE \E o \in Orders : SignedByContact(o) \/ SignedByTask(o)
  BY <1>3, SignOrderLive DEF SignedByContact, SignedByTask, Kept
<1>4. CASE \E o \in Orders : create_order(o)
  BY <1>4, CreateOrderLive DEF Kept
<1>5. CASE \E t \in toCharge : _create_charge(t)
  BY <1>5, TasksLive DEF Kept
<1>6. CASE set_expired_subscription_status
  BY <1>6, ExtendLive DEF Kept
<1>7. CASE Writes
  BY <1>7, WritesLive, WritesCreated
<1> QED
  BY <1>1, <1>2, <1>3, <1>4, <1>5, <1>6, <1>7 DEF Next, Transactions

LEMMA WriterSteps ==
  ASSUME Next
  PROVE  \/ writer' = writer /\ Transactions
         \/ writer' = Idle /\ Writes
         \/ /\ writer'.customer = customer
            /\ order' = order /\ customer' = customer
            /\ writer'.op = "cancel_immediately" =>
                 writer'.order = customer.subscription
            /\ writer'.op = "set_next_charge_date" =>
                 writer'.entity.status = SIGNED /\ order[writer'.order].status = SIGNED
<1>1. CASE Transactions
  <2>1. writer' = writer
    BY <1>1 DEF Transactions, create_order, SignedByContact, SignedByTask, sign_order,
       _recurrent_billing, _create_charge, set_expired_subscription_status,
       store_stripe_link_to_datastore, MonthPasses
  <2> QED
    BY <1>1, <2>1
<1>2. CASE Reads
  <2>1. PICK op, o :
          /\ Read(op, o)
          /\ op = "cancel_immediately" => o = customer.subscription
          /\ op = "set_next_charge_date" => order[o].status = SIGNED
    BY <1>2 DEF Reads, ReadForCancelSubscription, ReadForNextChargeDate,
       ReadForServiceEnabled, ReadForCancelOrder
  <2> QED
    BY <2>1 DEF Read
<1>3. CASE Writes
  <2>1. writer' = Idle
    BY <1>3 DEF Writes, cancel_subscription, cancel_immediately, set_next_charge_date,
       set_service_enabled, cancel_order, Fail
  <2> QED
    BY <1>3, <2>1
<1> QED
  BY <1>1, <1>2, <1>3 DEF Next

LEMMA IdleWriter ==
  Idle.op = "idle" /\ Idle.customer.subscription = NoOrder
  BY DEF Idle, NewCustomer

(* Every copy of the customer has a subscription of his, or none.          *)
LEMMA NextSubscription ==
  ASSUME OwnInv, Next
  PROVE  HasSubscription(customer)'
<1>1. customer \in Customer /\ writer.customer \in Customer
  BY DEF OwnInv, TimelyInv, Types, WriterRecord
<1>2. CASE customer'.subscription \in
             {customer.subscription, writer.customer.subscription, NoOrder}
  BY <1>2 DEF OwnInv, HasSubscription
<1>3. CASE \E o \in Orders : create_order(o)
  BY <1>1, <1>3 DEF OwnInv, HasSubscription, create_order, Customer
<1>4. CASE Transactions /\ ~\E o \in Orders : create_order(o)
  <2>1. customer'.subscription \in {customer.subscription, NoOrder}
    <3>1. CASE store_stripe_link_to_datastore
      BY <1>1, <3>1 DEF store_stripe_link_to_datastore, Customer
    <3>2. CASE \E t \in toCharge : EndSubscription(t)
      BY <1>1, <3>2 DEF EndSubscription, WithoutSubscription, Customer
    <3>3. CASE customer' = customer
      BY <3>3
    <3> QED
      BY <1>4, <3>1, <3>2, <3>3
         DEF Transactions, SignedByContact, SignedByTask, sign_order, _recurrent_billing,
             _create_charge, SkipCharge, SkipFree, Expire, ChargeMonth, FailsToCharge,
             set_expired_subscription_status, MonthPasses
  <2> QED
    BY <1>2, <2>1
<1>5. CASE Writes
  <2>1. CASE customer' = customer
    BY <1>2, <2>1
  <2>2. CASE cancel_subscription \/ set_service_enabled
    BY <1>1, <1>2, <2>2 DEF cancel_subscription, set_service_enabled, Customer
  <2>3. CASE cancel_immediately \/ cancel_order
    BY <1>1, <1>2, <2>3 DEF cancel_immediately, cancel_order, WithoutSubscription, Customer
  <2> QED
    BY <1>5, <2>1, <2>2, <2>3 DEF Writes, set_next_charge_date, Fail
<1>6. CASE customer' = customer
  BY <1>2, <1>6
<1> QED
  BY <1>3, <1>4, <1>5, <1>6, WriterSteps

LEMMA NextOwn ==
  ASSUME OwnInv, Next
  PROVE  OwnInv'
<1>1. TimelyInv' /\ SubscriptionTasks'
  BY NextTimely, NextEffect DEF OwnInv, Effect, TasksEffect, SubscriptionTasks
<1>2. \A t \in toCharge' : t.order \in Orders
  BY <1>1 DEF TimelyInv, Types
<1>3. \A t \in toCharge' : order'[t.order].status # NONE
  BY <1>2, NextKept, TasksAreKept DEF OwnInv, Created
<1>4. writer.order \in Orders /\ Created
  BY NextKept DEF OwnInv, TimelyInv, Types, WriterRecord
<1>5. CASE writer' = writer
  BY <1>1, <1>3, <1>4, <1>5, NextSubscription DEF OwnInv, HasSubscription, Created
<1>6. CASE writer' = Idle
  BY <1>1, <1>3, <1>6, IdleWriter, NextSubscription DEF OwnInv, HasSubscription
<1>7. CASE /\ writer'.customer = customer
           /\ order' = order /\ customer' = customer
           /\ writer'.op = "cancel_immediately" =>
                writer'.order = customer.subscription
           /\ writer'.op = "set_next_charge_date" =>
                writer'.entity.status = SIGNED /\ order[writer'.order].status = SIGNED
  BY <1>1, <1>3, <1>7 DEF OwnInv, HasSubscription, NONE, SIGNED
<1> QED
  BY <1>5, <1>6, <1>7, WriterSteps

LEMMA InitLive == Init => LiveInv /\ OnlyCurrent
<1> SUFFICES ASSUME Init PROVE LiveInv /\ OnlyCurrent
  OBVIOUS
<1>1. customer.subscription = NoOrder
  BY DEF Init, NewCustomer
<1>2. writer = Idle /\ toCharge = {}
  BY DEF Init
<1>3. \A o \in Orders : ~IsLive(o)
  BY DEF Init, NewOrder, IsLive, NONE, UNSIGNED, SIGNED
<1> QED
  BY <1>1, <1>2, <1>3, IdleWriter, InitTimely
     DEF LiveInv, OwnInv, HasSubscription, CurrentIsLive, SubscriptionTasks, OnlyCurrent

LEMMA StutterOwn ==
  ASSUME OwnInv, UNCHANGED vars
  PROVE  OwnInv'
<1>1. TimelyInv'
  BY StutterTimely DEF OwnInv
<1> QED
  BY <1>1 DEF OwnInv, HasSubscription, SubscriptionTasks, vars

LEMMA NextLive ==
  ASSUME LiveInv, Next, OneWriter
  PROVE  LiveInv' /\ (OnlyCurrent /\ CancelledStays => OnlyCurrent')
<1>1. OwnInv' /\ ~WritesOldSubscription
  BY NextOwn DEF LiveInv, WritesOldSubscription
<1>2. Kept
  BY <1>1, NextKept DEF LiveInv
<1>3. writer'.op # "idle" => writer'.customer = customer'
  BY WriterSteps, IdleWriter DEF OneWriter
<1> QED
  BY <1>1, <1>2, <1>3 DEF LiveInv, Kept

LEMMA StutterLive ==
  ASSUME LiveInv, UNCHANGED vars
  PROVE  LiveInv' /\ (OnlyCurrent => OnlyCurrent')
<1>1. OwnInv'
  BY StutterOwn DEF LiveInv
<1> QED
  BY <1>1 DEF LiveInv, CurrentIsLive, OnlyCurrent, IsLive, vars

(* Orders are created, replaced, signed, billed, extended and cancelled in *)
(* any order, between the reads and writes of others, by tasks that run    *)
(* late, again or fail: the subscription of a customer becomes a cancelled *)
(* order only where an old copy of the customer is put (cancel_order,      *)
(* cancel_subscription, set_service_enabled).                              *)
THEOREM OnlyOldCopiesRevive == Spec => StaysLiveUnlessOverwritten
<1>1. Init => OwnInv
  BY InitLive DEF LiveInv
<1>2. OwnInv /\ [Next]_vars => OwnInv'
  BY NextOwn, StutterOwn
<1>3. OwnInv /\ [Next]_vars =>
        [CurrentIsLive /\ ~CurrentIsLive' => WritesOldSubscription]_vars
  <2>1. ASSUME OwnInv, Next, CurrentIsLive, ~CurrentIsLive'
        PROVE  WritesOldSubscription
    BY <2>1, NextKept DEF Kept
  <2> QED
    BY <2>1
<1> QED
  BY <1>1, <1>2, <1>3, PTL DEF Spec, StaysLiveUnlessOverwritten

(* As long as nobody writes between the read of cancel_subscription,       *)
(* cancel_order, set_next_charge_date or set_service_enabled and its       *)
(* write, the subscription of the customer is not a cancelled order,       *)
(* however orders are created, replaced, signed, billed and cancelled.     *)
THEOREM SubscriptionStaysLive == SpecOneWriter => []CurrentIsLive
<1>1. LiveInv /\ [Next /\ OneWriter]_vars => LiveInv'
  BY NextLive, StutterLive
<1>2. LiveInv => CurrentIsLive
  BY DEF LiveInv
<1> QED
  BY <1>1, <1>2, InitLive, PTL DEF SpecOneWriter

(* If a cancelled order is not signed either, the customer has one signed  *)
(* subscription at most.                                                   *)
THEOREM OneSubscriptionIfNoneRevived == SpecNoneRevived => []OneLiveSubscription
<1>1. /\ LiveInv /\ OnlyCurrent
      /\ [Next /\ OneWriter /\ CancelledStays]_vars
      => (LiveInv /\ OnlyCurrent)'
  BY NextLive, StutterLive
<1>2. OnlyCurrent => OneLiveSubscription
  BY DEF OnlyCurrent, IsLive, OneLiveSubscription
<1> QED
  BY <1>1, <1>2, InitLive, PTL DEF SpecNoneRevived
=============================================================================
