-------------------------------- MODULE Store --------------------------------
(***************************************************************************)
(* The store, in which a customer orders cards and cities for his service  *)
(* and pays them by credit card: solutions/common/restapi/store.py, with   *)
(* get_payed of shop/bizz.py.                                              *)
(*                                                                         *)
(* The cart is an order of its own, with the amount of its items added up. *)
(* It, its items and the customer are one entity group.  Adding an item    *)
(* and paying are transactions on it; removing an item and showing the     *)
(* cart are not, and add_item_to_order and pay_order use a customer that   *)
(* they read before.  The VAT is total_amount - amount.                    *)
(***************************************************************************)
EXTENDS Integers, Sequences, FiniteSets, FiniteSetsExt

CONSTANTS
  Requests,         \* the requests that may be in progress at once
  Cities,           \* the cities in which the service can be shown
  Cards,            \* a value that is no city: the product that is counted
  price,            \* [product -> the price of one, or of a city for a month]
  vat_pct,          \* the percentage of the VAT
  possible_counts,  \* how many cards there can be in a cart
  MaxMonths,        \* bound: the months until the subscription is charged
  MaxItems,         \* bound: the items that are made
  MaxPayments       \* bound: the times that the card is charged

ASSUME StoreAssumption ==
  /\ IsFiniteSet(Requests) /\ IsFiniteSet(Cities) /\ Cards \notin Cities
  /\ price \in [Cities \cup {Cards} -> Nat \ {0}] /\ vat_pct \in 0 .. 100
  /\ possible_counts \subseteq Nat \ {0}
  /\ MaxMonths \in Nat \ {0} /\ MaxItems \in Nat /\ MaxPayments \in Nat

VARIABLES
  cart,       \* the order with number '-1'
  item,       \* its items: a sequence of all that were made
  months,     \* until the subscription is charged
  customer,   \* the cities of the customer, and extra_apps_count
  orders,     \* the orders that were paid
  stripe,     \* what the card was charged, and for which order
  request,    \* the requests and what they have read
  history     \* not in the code: which of the weaknesses have shown

vars == <<cart, item, months, customer, orders, stripe, request, history>>

-----------------------------------------------------------------------------
Products == Cities \cup {Cards}

Cart == [exists: BOOLEAN, amount: Int, total_amount: Int]
NoCart == [exists |-> FALSE, amount |-> 0, total_amount |-> 0]
Item == [exists: BOOLEAN, product: Products, count: Nat]
Customer == [app_ids: SUBSET Cities, extra_apps_count: Nat]

Idle == [op |-> "idle"]

Weaknesses ==
  {"overwritten",  \* a removal put an old copy of the cart, or took an item off twice
   "died",         \* or was not finished
   "recounted",    \* the months of a city changed after they were added up
   "late",         \* a city was added that had been paid since it was asked for
   "stale",        \* an old copy of the customer was put
   "retried"}      \* a payment was rolled back after the card was charged

TypeOK ==
  /\ cart \in Cart
  /\ item \in Seq(Item) /\ Len(item) <= MaxItems
  /\ months \in 1 .. MaxMonths
  /\ customer \in Customer
  /\ orders \in Seq([amount: Int, total_amount: Nat, items: SUBSET DOMAIN item, worth: Nat,
                     cities: SUBSET Cities])
  /\ stripe \in Seq([total_amount: Nat, order: 0 .. Len(orders)])
  /\ \A q \in Requests :
       request[q].op \in {"idle", "add", "delete", "put", "show", "pay", "charged"}
  /\ history \subseteq Weaknesses

Init ==
  /\ cart = NoCart /\ item = <<>> /\ months = MaxMonths
  /\ customer = [app_ids |-> {}, extra_apps_count |-> 0]
  /\ orders = <<>> /\ stripe = <<>>
  /\ request = [q \in Requests |-> Idle]
  /\ history = {}

-----------------------------------------------------------------------------
InCart == {i \in DOMAIN item : item[i].exists}

WorthOf(I) ==
  SumFunctionOnSet([i \in DOMAIN item |-> item[i].count * price[item[i].product]], I)

(* Whole cents: the VAT of a sum is not the sum of the VATs.                *)
WithVat(total) == total + (total * vat_pct) \div 100

(* A write outdates what others have read: a transaction cannot commit, and *)
(* a removal does not notice.                                               *)
Outdates(requests) ==
  [q \in Requests |->
     IF requests[q].op \in {"delete", "put", "charged"}
     THEN [requests[q] EXCEPT !.outdated = TRUE] ELSE requests[q]]

Asks(q, r) == request[q] = Idle /\ request' = [request EXCEPT ![q] = r]

Ends(q) == request' = [request EXCEPT ![q] = Idle]

EndsWithWrite(q) == request' = Outdates([request EXCEPT ![q] = Idle])

Shows(it) == history' = history \cup it

-----------------------------------------------------------------------------
(* Adding an item.                                                          *)

(* Mutant: what is added is what the cart has of it after.                  *)
AddsUpAll(total, before) ==
  LET t == total + before IN
    cart' = [exists |-> TRUE, amount |-> cart.amount + t,
             total_amount |-> cart.total_amount + WithVat(t)]

AddsUp(total, before) ==
  cart' = [exists |-> TRUE, amount |-> cart.amount + total,
           total_amount |-> cart.total_amount + WithVat(total)]

(* azzert(customer_store_order.total_amount >= 0)                            *)
MayAdd == cart.total_amount >= 0

NewItem(product, count) ==
  /\ Len(item) < MaxItems
  /\ item' = Append(item, [exists |-> TRUE, product |-> product, count |-> count])

(* Cards are added to those that are in the cart, if it is there.           *)
add_cards(n) ==
  LET there == {i \in InCart : cart.exists /\ item[i].product = Cards} IN
    /\ MayAdd
    /\ \A i \in there : item[i].count + n \in possible_counts
    /\ IF there = {} THEN NewItem(Cards, n)
       ELSE item' = [i \in DOMAIN item |->
                       IF i \in there THEN [item[i] EXCEPT !.count = @ + n] ELSE item[i]]
    /\ AddsUp(n * price[Cards], WorthOf(there))
    /\ request' = Outdates(request)
    /\ UNCHANGED <<months, customer, orders, stripe, history>>

ask_city(q, c) ==
  /\ c \notin customer.app_ids
  /\ Asks(q, [op |-> "add", product |-> c])
  /\ UNCHANGED <<cart, item, months, customer, orders, stripe, history>>

add_city(q) ==
  /\ request[q].op = "add" /\ MayAdd
  /\ cart.exists => \A i \in InCart : item[i].product # request[q].product
  /\ NewItem(request[q].product, months)
  /\ AddsUp(months * price[request[q].product], 0)
  /\ EndsWithWrite(q)
  /\ Shows(IF request[q].product \in customer.app_ids THEN {"late"} ELSE {})
  /\ UNCHANGED <<months, customer, orders, stripe>>

-----------------------------------------------------------------------------
(* Removing an item: got, deleted and taken off, in three steps.            *)

ask_remove(q, i) ==
  /\ i \in InCart /\ cart.exists
  /\ Asks(q, [op |-> "delete", i |-> i, item |-> item[i], cart |-> cart,
              outdated |-> FALSE])
  /\ UNCHANGED <<cart, item, months, customer, orders, stripe, history>>

remove_delete(q) ==
  /\ request[q].op = "delete"
  /\ item' = [item EXCEPT ![request[q].i].exists = FALSE]
  /\ request' = [Outdates(request) EXCEPT ![q] = [request[q] EXCEPT !.op = "put"]]
  /\ UNCHANGED <<cart, months, customer, orders, stripe, history>>

remove_from_order(q) ==
  /\ request[q].op = "put"
  /\ LET total == request[q].item.count * price[request[q].item.product] IN
       cart' = [request[q].cart EXCEPT !.amount = @ - total,
                                       !.total_amount = @ - WithVat(total)]
  /\ EndsWithWrite(q)
  /\ Shows(IF request[q].outdated THEN {"overwritten"} ELSE {})
  /\ UNCHANGED <<item, months, customer, orders, stripe>>

-----------------------------------------------------------------------------
(* Showing the cart sets the months of the cities in it, not its amount,    *)
(* and brings back an item that was deleted meanwhile.                      *)

Outdated(i) == item[i].product \in Cities /\ item[i].count # months

ask_items(q) ==
  LET I == {i \in InCart : Outdated(i)} IN
    /\ cart.exists /\ I # {}
    /\ Asks(q, [op |-> "show", items |-> I, count |-> months])
    /\ UNCHANGED <<cart, item, months, customer, orders, stripe, history>>

get_order_items(q) ==
  /\ request[q].op = "show"
  /\ item' = [i \in DOMAIN item |->
                IF i \in request[q].items
                THEN [item[i] EXCEPT !.exists = TRUE, !.count = request[q].count]
                ELSE item[i]]
  /\ EndsWithWrite(q)
  /\ Shows({"recounted"})
  /\ UNCHANGED <<cart, months, customer, orders, stripe>>

(* A month passes.  Bound: the subscription is not charged meanwhile, which *)
(* would make the months more.                                              *)
MonthPasses ==
  /\ months > 1
  /\ months' = months - 1
  /\ UNCHANGED <<cart, item, customer, orders, stripe, request, history>>

-----------------------------------------------------------------------------
(* Paying.                                                                  *)

ask_pay(q) ==
  /\ Asks(q, [op |-> "pay", customer |-> customer, read |-> customer])
  /\ UNCHANGED <<cart, item, months, customer, orders, stripe, history>>

AddedCities == {item[i].product : i \in InCart} \ {Cards}

(* Mutant: cards are counted as well.                                       *)
NumberOfItems == Cardinality(InCart)

NumberAdded == Cardinality({i \in InCart : item[i].product # Cards})

(* The transaction up to its commit.  The charge is new, with a number that *)
(* Stripe has not seen, and the cities are added to the customer in memory: *)
(* once more when the transaction is run again.                             *)
Charges(q) ==
  /\ cart.exists /\ cart.total_amount > 0 /\ Len(stripe) < MaxPayments
  /\ stripe' = Append(stripe, [total_amount |-> cart.total_amount, order |-> 0])
  /\ request' = [request EXCEPT ![q] =
       [op |-> "charged", read |-> request[q].read, payment |-> Len(stripe'),
        outdated |-> FALSE, cart |-> cart, items |-> InCart, worth |-> WorthOf(InCart),
        cities |-> AddedCities,
        customer |-> [app_ids |-> request[q].customer.app_ids \cup AddedCities,
                      extra_apps_count |-> request[q].customer.extra_apps_count + NumberAdded]]]

get_payed(q) ==
  /\ request[q].op = "pay"
  /\ Charges(q)
  /\ UNCHANGED <<cart, item, months, customer, orders, history>>

(* Mutant: a write meanwhile does not stop the commit.                      *)
CommitsAlways(q) == TRUE

Commits(q) == ~request[q].outdated

pay_order(q) ==
  /\ request[q].op = "charged" /\ Commits(q)
  /\ LET r == request[q] IN
       /\ orders' = Append(orders, [amount |-> r.cart.amount, worth |-> r.worth,
                                    total_amount |-> r.cart.total_amount,
                                    items |-> r.items, cities |-> r.cities])
       /\ stripe' = [stripe EXCEPT ![r.payment].order = Len(orders')]
       /\ cart' = NoCart
       /\ item' = [i \in DOMAIN item |->
                     IF i \in r.items THEN [item[i] EXCEPT !.exists = FALSE] ELSE item[i]]
       /\ customer' = r.customer
       /\ Shows(IF customer = r.read THEN {} ELSE {"stale"})
  /\ EndsWithWrite(q)
  /\ UNCHANGED months

pay_again(q) ==
  /\ request[q].op = "charged" /\ request[q].outdated
  /\ \/ Charges(q)
     \/ ~cart.exists /\ Ends(q) /\ UNCHANGED stripe
  /\ Shows({"retried"})
  /\ UNCHANGED <<cart, item, months, customer, orders>>

(* A request that fails, or is refused, or finds nothing to do.             *)
Fails(q) ==
  /\ request[q] # Idle
  /\ Ends(q)
  /\ Shows(CASE request[q].op = "put" -> {"died"}
             [] request[q].op = "charged" -> {"retried"}
             [] OTHER -> {})
  /\ UNCHANGED <<cart, item, months, customer, orders, stripe>>

-----------------------------------------------------------------------------
Next ==
  \/ \E n \in possible_counts : add_cards(n)
  \/ MonthPasses
  \/ \E q \in Requests :
       \/ \E c \in Cities : ask_city(q, c)
       \/ \E i \in DOMAIN item : ask_remove(q, i)
       \/ add_city(q)
       \/ remove_delete(q) \/ remove_from_order(q)
       \/ ask_items(q) \/ get_order_items(q)
       \/ ask_pay(q) \/ get_payed(q) \/ pay_order(q) \/ pay_again(q)
       \/ Fails(q)

Spec == Init /\ [][Next]_vars

-----------------------------------------------------------------------------
(* The amount of the cart, and of every order, is what its items cost,      *)
(* unless a removal raced with another change or was not finished, or the   *)
(* months of a city were set after they were added up.                      *)
AmountsAddUp ==
  /\ history \cap {"overwritten", "died", "recounted"} = {}
  /\ \A q \in Requests : request[q].op # "put"
  =>
    /\ cart.amount = WorthOf(InCart)
    /\ \A n \in DOMAIN orders : orders[n].amount = orders[n].worth

(* An order is paid, with what it says and once, and nothing is ordered and *)
(* paid twice, whatever pays or changes the cart at once, unless the cart   *)
(* or an item that was paid came back.  The card is charged without an      *)
(* order only by a payment that is rolled back, or not finished.            *)
OrdersArePaidOnce ==
  /\ \A n \in DOMAIN orders :
       \E p \in DOMAIN stripe :
         /\ stripe[p] = [total_amount |-> orders[n].total_amount, order |-> n]
         /\ \A other \in DOMAIN stripe \ {p} : stripe[other].order # n
  /\ \A m, n \in DOMAIN orders :
       m # n /\ orders[m].items \cap orders[n].items # {} => "recounted" \in history
  /\ \A p \in DOMAIN stripe :
       \/ stripe[p].order # 0
       \/ "retried" \in history
       \/ \E q \in Requests : request[q].op = "charged" /\ request[q].payment = p

(* The cities that were paid for are those of the customer, and counted     *)
(* once, unless a payment used an old customer or ran again, or a city was  *)
(* added late or came back.                                                 *)
CitiesAreRecorded ==
  history \cap {"stale", "retried"} = {} =>
    /\ customer.app_ids = UNION {orders[n].cities : n \in DOMAIN orders}
    /\ history \cap {"late", "recounted"} = {} =>
         customer.extra_apps_count = Cardinality(customer.app_ids)

(* "azzert(customer_store_order.total_amount >= 0)"                         *)
TotalIsNotNegative ==
  history = {} /\ (\A q \in Requests : request[q] = Idle) => cart.total_amount >= 0
=============================================================================
