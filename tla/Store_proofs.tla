---------------------------- MODULE Store_proofs ----------------------------
(***************************************************************************)
(* Theorems about Store, for any customers' requests, cities, prices and   *)
(* any number of items, payments and months.                               *)
(***************************************************************************)
EXTENDS Store, SumTheorems, SequenceTheorems, FunctionTheorems, TLAPS

-----------------------------------------------------------------------------
(* The requests, and what the indices in them point to.                    *)

Adding == [op: {"add"}, product: Cities]
Removal == [op: {"delete", "put"}, i: Nat, item: Item, cart: Cart, outdated: BOOLEAN]
Showing == [op: {"show"}, items: SUBSET Nat, count: Nat]
Paying == [op: {"pay"}, customer: Customer, read: Customer]
Charged == [op: {"charged"}, read: Customer, payment: Nat, outdated: BOOLEAN, cart: Cart,
            items: SUBSET Nat, worth: Nat, cities: SUBSET Cities, customer: Customer]
AnyRequest == {Idle} \cup Adding \cup Removal \cup Showing \cup Paying \cup Charged

Order == [amount: Int, total_amount: Nat, items: SUBSET Nat, worth: Nat,
          cities: SUBSET Cities]
Payment == [total_amount: Nat, order: Nat]

Types ==
  /\ cart \in Cart /\ item \in Seq(Item) /\ months \in Nat /\ customer \in Customer
  /\ orders \in Seq(Order) /\ stripe \in Seq(Payment)
  /\ request \in [Requests -> AnyRequest]
  /\ history \subseteq Weaknesses

Indices ==
  /\ \A q \in Requests :
       /\ request[q].op \in {"delete", "put"} =>
            request[q].i \in DOMAIN item /\ request[q].cart.exists
       /\ request[q].op = "charged" => /\ request[q].payment \in DOMAIN stripe
                                       /\ request[q].items \subseteq DOMAIN item
  /\ \A n \in DOMAIN orders : orders[n].items \subseteq DOMAIN item
  /\ \A p \in DOMAIN stripe : stripe[p].order <= Len(orders)

-----------------------------------------------------------------------------
(* What a request holds is true until somebody else writes.                *)
CopiesAgree ==
  \A q \in Requests :
    request[q].op \in {"delete", "put", "charged"} /\ ~request[q].outdated =>
      /\ request[q].cart = cart
      /\ request[q].op = "delete" => /\ request[q].i \in InCart
                                     /\ request[q].item = item[request[q].i]
      /\ request[q].op = "charged" =>
           /\ request[q].items = InCart /\ request[q].worth = WorthOf(InCart)
           /\ request[q].cities = AddedCities
           /\ "retried" \notin history =>
                request[q].customer.extra_apps_count =
                  request[q].read.extra_apps_count + NumberAdded

(* A product is in the cart once.                                          *)
CartIsTidy ==
  "recounted" \notin history =>
    /\ ~cart.exists => InCart = {}
    /\ \A i, j \in InCart : item[i].product = item[j].product => i = j

(* No removal is between its two writes, or one, and nobody else wrote.    *)
Sound ==
  /\ history \cap {"overwritten", "died", "recounted"} = {}
  /\ \A q \in Requests : request[q].op = "put" =>
       /\ ~request[q].outdated
       /\ \A p \in Requests : request[p].op = "put" => p = q

Price(i) == i.count * price[i.product]

AmountsAreSound ==
  Sound =>
    /\ (\A q \in Requests : request[q].op # "put") => cart.amount = WorthOf(InCart)
    /\ \A q \in Requests : request[q].op = "put" =>
         cart.amount = WorthOf(InCart) + Price(request[q].item)
    /\ \A n \in DOMAIN orders : orders[n].amount = orders[n].worth

(* A payment that is under way has a charge of its own.                    *)
ChargesAreKept ==
  /\ \A q \in Requests : request[q].op = "charged" =>
       /\ stripe[request[q].payment] =
            [total_amount |-> request[q].cart.total_amount, order |-> 0]
       /\ \A p \in Requests :
            request[p].op = "charged" /\ request[p].payment = request[q].payment => p = q
  /\ \A n \in DOMAIN orders :
       \E p \in DOMAIN stripe :
         /\ stripe[p] = [total_amount |-> orders[n].total_amount, order |-> n]
         /\ \A other \in DOMAIN stripe \ {p} : stripe[other].order # n
  /\ \A p \in DOMAIN stripe :
       \/ stripe[p].order # 0
       \/ "retried" \in history
       \/ \E q \in Requests : request[q].op = "charged" /\ request[q].payment = p

PaidItemsAreGone ==
  "recounted" \notin history =>
    /\ \A n \in DOMAIN orders : orders[n].items \cap InCart = {}
    /\ \A m, n \in DOMAIN orders : m # n => orders[m].items \cap orders[n].items = {}

CustomersAreRead ==
  \A q \in Requests :
    /\ request[q].op = "pay" => request[q].customer = request[q].read
    /\ request[q].op = "charged" /\ "retried" \notin history =>
         request[q].customer.app_ids = request[q].read.app_ids \cup request[q].cities

CitiesAreCounted ==
  history \cap {"late", "recounted"} = {} =>
    /\ \A i \in InCart : item[i].product \notin customer.app_ids
    /\ history \cap {"stale", "retried"} = {} =>
         customer.extra_apps_count = Cardinality(customer.app_ids)

CitiesArePaid ==
  history \cap {"stale", "retried"} = {} =>
    customer.app_ids = UNION {orders[n].cities : n \in DOMAIN orders}

Inv ==
  /\ Types /\ Indices /\ CopiesAgree /\ CartIsTidy /\ AmountsAreSound
  /\ ChargesAreKept /\ PaidItemsAreGone /\ CustomersAreRead /\ CitiesAreCounted
  /\ CitiesArePaid

-----------------------------------------------------------------------------
(* The cart.                                                               *)

Weights(it) == [i \in DOMAIN it |-> it[i].count * price[it[i].product]]
Present(it) == {i \in DOMAIN it : it[i].exists}
Total(it) == Sum(Weights(it), Present(it))

LEMMA CartIs ==
  /\ InCart = Present(item) /\ WorthOf(InCart) = Total(item)
  BY DEF InCart, Present, WorthOf, Total, Weights, Sum

LEMMA PricesAre ==
  /\ \A product \in Products : price[product] \in Nat
  /\ Cards \notin Cities /\ IsFiniteSet(Cities) /\ possible_counts \subseteq Nat
  BY StoreAssumption DEF Products

LEMMA TimesAre ==
  ASSUME NEW m \in Nat, NEW n \in Nat
  PROVE  m * n \in Nat
  OBVIOUS

LEMMA ItemsAre ==
  ASSUME NEW it \in Seq(Item)
  PROVE  /\ IsFiniteSet(Present(it)) /\ Present(it) \subseteq DOMAIN it
         /\ \A i \in DOMAIN it : it[i] \in Item /\ Weights(it)[i] = Price(it[i])
         /\ \A i \in DOMAIN it : Weights(it)[i] \in Nat
         /\ Total(it) \in Nat
<1>1. DOMAIN it = 1 .. Len(it) /\ Len(it) \in Nat
  OBVIOUS
<1>2. IsFiniteSet(DOMAIN it)
  BY <1>1, FS_Interval
<1>3. Present(it) \subseteq DOMAIN it
  BY DEF Present
<1>4. IsFiniteSet(Present(it))
  BY <1>2, <1>3, FS_Subset
<1>5. \A i \in DOMAIN it : it[i] \in Item /\ Weights(it)[i] = Price(it[i])
  BY DEF Weights, Price
<1>6. ASSUME NEW i \in DOMAIN it PROVE Weights(it)[i] \in Nat
  <2>1. it[i].count \in Nat /\ price[it[i].product] \in Nat
    BY <1>5, PricesAre DEF Item
  <2>2. it[i].count * price[it[i].product] \in Nat
    BY <2>1, TimesAre
  <2> QED
    BY <2>2 DEF Weights
<1>7. \A i \in Present(it) : Weights(it)[i] \in Nat
  BY <1>3, <1>6
<1>8. Total(it) \in Nat
  BY <1>4, <1>7, SumNat DEF Total
<1> QED
  BY <1>3, <1>4, <1>5, <1>6, <1>8

LEMMA PriceIs ==
  ASSUME NEW i \in Item
  PROVE  Price(i) \in Nat
<1>1. i.count \in Nat /\ price[i.product] \in Nat
  BY PricesAre DEF Item
<1> QED
  BY <1>1, TimesAre DEF Price

(* Nothing in the cart costs nothing.                                      *)
LEMMA EmptyTotal ==
  ASSUME NEW it, Present(it) = {}
  PROVE  Total(it) = 0
  BY SumOfNone DEF Total

LEMMA AddedItem ==
  ASSUME NEW it \in Seq(Item), NEW new \in Item, new.exists, NEW next,
         next = Append(it, new)
  PROVE  /\ next \in Seq(Item) /\ DOMAIN next = DOMAIN it \cup {Len(it) + 1}
         /\ \A i \in DOMAIN it : next[i] = it[i]
         /\ next[Len(it) + 1] = new /\ Len(it) + 1 \notin DOMAIN it
         /\ Present(next) = Present(it) \cup {Len(it) + 1}
<1> DEFINE l == Len(it) + 1
<1>1. /\ next \in Seq(Item) /\ DOMAIN next = DOMAIN it \cup {l}
      /\ \A i \in DOMAIN it : next[i] = it[i]
      /\ next[l] = new /\ l \notin DOMAIN it
  BY AppendProperties
<1> HIDE DEF l
<1>2. Present(next) = Present(it) \cup {l}
  BY <1>1 DEF Present
<1> QED
  BY <1>1, <1>2 DEF l

LEMMA AddedTotal ==
  ASSUME NEW it \in Seq(Item), NEW new \in Item, new.exists, NEW next,
         next = Append(it, new)
  PROVE  Total(next) = Total(it) + Price(new)
<1> DEFINE l == Len(it) + 1
<1>1. /\ next \in Seq(Item) /\ DOMAIN next = DOMAIN it \cup {l}
      /\ \A i \in DOMAIN it : next[i] = it[i]
      /\ next[l] = new /\ l \notin DOMAIN it
      /\ Present(next) = Present(it) \cup {l}
  <2>1. next \in Seq(Item) /\ DOMAIN next = DOMAIN it \cup {l}
    BY AddedItem
  <2>2. \A i \in DOMAIN it : next[i] = it[i]
    BY AddedItem
  <2>3. next[l] = new /\ l \notin DOMAIN it
    BY AddedItem
  <2>4. Present(next) = Present(it) \cup {l}
    BY AddedItem
  <2> QED
    BY <2>1, <2>2, <2>3, <2>4
<1> HIDE DEF l
<1>2. /\ IsFiniteSet(Present(it)) /\ l \notin Present(it)
      /\ \A i \in Present(it) : Weights(next)[i] \in Int /\ Weights(next)[i] = Weights(it)[i]
      /\ Weights(next)[l] = Price(new) /\ Price(new) \in Nat
  <2>1. IsFiniteSet(Present(it)) /\ l \notin Present(it) /\ Present(it) \subseteq DOMAIN it
    BY <1>1, ItemsAre
  <2>2. /\ \A i \in DOMAIN it : Weights(next)[i] = Weights(it)[i]
        /\ Weights(next)[l] = Price(new)
    BY <1>1 DEF Weights, Price
  <2>3. \A i \in DOMAIN it : Weights(it)[i] \in Nat
    BY ItemsAre
  <2> QED
    BY <2>1, <2>2, <2>3, PriceIs
<1>3. Sum(Weights(next), Present(it) \cup {l}) = Sum(Weights(next), Present(it)) + Weights(next)[l]
  BY <1>2, SumAdd
<1>4. Sum(Weights(next), Present(it)) = Sum(Weights(it), Present(it))
  BY <1>2, SumSame
<1> QED
  BY <1>1, <1>2, <1>3, <1>4 DEF Total

LEMMA RemovedItem ==
  ASSUME NEW it \in Seq(Item), NEW k \in DOMAIN it, NEW next,
         next = [it EXCEPT ![k].exists = FALSE]
  PROVE  /\ next \in Seq(Item) /\ DOMAIN next = DOMAIN it
         /\ \A i \in DOMAIN it \ {k} : next[i] = it[i]
         /\ next[k].product = it[k].product
         /\ Present(next) = Present(it) \ {k}
<1>1. it[k] \in Item
  OBVIOUS
<1>2. /\ [it[k] EXCEPT !.exists = FALSE] \in Item
      /\ next = [it EXCEPT ![k] = [it[k] EXCEPT !.exists = FALSE]]
  BY <1>1 DEF Item
<1>3. next \in Seq(Item) /\ DOMAIN next = DOMAIN it
  BY <1>2, ExceptSeq
<1>4. /\ \A i \in DOMAIN it \ {k} : next[i] = it[i]
      /\ next[k] = [it[k] EXCEPT !.exists = FALSE]
  BY <1>2
<1>5. ~next[k].exists /\ next[k].product = it[k].product
  BY <1>1, <1>4 DEF Item
<1>6. Present(next) = Present(it) \ {k}
  BY <1>3, <1>4, <1>5 DEF Present
<1> QED
  BY <1>3, <1>4, <1>5, <1>6

LEMMA RemovedTotal ==
  ASSUME NEW it \in Seq(Item), NEW k \in Present(it), NEW next \in Seq(Item),
         DOMAIN next = DOMAIN it, \A i \in DOMAIN it \ {k} : next[i] = it[i],
         Present(next) = Present(it) \ {k}
  PROVE  Total(it) = Total(next) + Price(it[k])
<1>1. /\ k \in DOMAIN it /\ it[k] \in Item
      /\ IsFiniteSet(Present(it)) /\ \A i \in Present(it) : Weights(it)[i] \in Int
  <2>1. IsFiniteSet(Present(it)) /\ Present(it) \subseteq DOMAIN it
    BY ItemsAre
  <2>2. \A i \in DOMAIN it : it[i] \in Item /\ Weights(it)[i] \in Nat
    BY ItemsAre
  <2> QED
    BY <2>1, <2>2
<1>2. /\ IsFiniteSet(Present(it) \ {k})
      /\ \A i \in Present(it) \ {k} : Weights(next)[i] = Weights(it)[i]
  BY <1>1, FS_RemoveElement DEF Weights, Present
<1>3. Sum(Weights(next), Present(it) \ {k}) = Sum(Weights(it), Present(it) \ {k})
  BY <1>2, SumSame
<1>4. Sum(Weights(it), Present(it)) = Weights(it)[k] + Sum(Weights(it), Present(it) \ {k})
  BY <1>1, SumRemove
<1>5. Weights(it)[k] = Price(it[k]) /\ Total(next) \in Nat /\ Price(it[k]) \in Nat
  BY <1>1, ItemsAre, PriceIs
<1>6. /\ Total(next) = Sum(Weights(it), Present(it) \ {k})
      /\ Total(it) = Price(it[k]) + Sum(Weights(it), Present(it) \ {k})
  BY <1>3, <1>4, <1>5 DEF Total
<1> QED
  BY <1>5, <1>6

LEMMA MoreTotal ==
  ASSUME NEW it \in Seq(Item), NEW k \in Present(it), NEW n \in Nat, NEW next,
         next = [i \in DOMAIN it |-> IF i \in {k} THEN [it[i] EXCEPT !.count = @ + n] ELSE it[i]]
  PROVE  Total(next) = Total(it) + n * price[it[k].product]
<1> DEFINE new == [it[k] EXCEPT !.count = @ + n]
           p == price[it[k].product]
<1>1. /\ k \in DOMAIN it /\ it[k] \in Item
      /\ IsFiniteSet(Present(it)) /\ \A i \in Present(it) : Weights(it)[i] \in Int
  <2>1. IsFiniteSet(Present(it)) /\ Present(it) \subseteq DOMAIN it
    BY ItemsAre
  <2>2. \A i \in DOMAIN it : it[i] \in Item /\ Weights(it)[i] \in Nat
    BY ItemsAre
  <2> QED
    BY <2>1, <2>2
<1>2. /\ new \in Item /\ new.product = it[k].product /\ new.exists = it[k].exists
      /\ new.count = it[k].count + n
  BY <1>1 DEF Item
<1>3. next = [it EXCEPT ![k] = new]
  BY <1>1
<1> HIDE DEF new
<1>4. next \in Seq(Item) /\ DOMAIN next = DOMAIN it
  BY <1>1, <1>2, <1>3, ExceptSeq
<1>5. next[k] = new /\ \A i \in DOMAIN it \ {k} : next[i] = it[i]
  BY <1>1, <1>3
<1>6. /\ \A i \in DOMAIN it : /\ next[i].product = it[i].product
                              /\ next[i].exists = it[i].exists
      /\ Present(next) = Present(it)
  BY <1>2, <1>4, <1>5 DEF Present
<1>7. /\ \A i \in Present(it) : Weights(next)[i] \in Int
      /\ \A i \in Present(it) \ {k} : Weights(next)[i] = Weights(it)[i]
  <2>1. \A i \in DOMAIN next : Weights(next)[i] \in Nat
    BY <1>4, ItemsAre
  <2>2. Present(it) \subseteq DOMAIN next
    BY <1>4 DEF Present
  <2>3. \A i \in DOMAIN it \ {k} : Weights(next)[i] = Weights(it)[i]
    BY <1>4, <1>5 DEF Weights
  <2> QED
    BY <1>4, <2>1, <2>2, <2>3
<1>8. Sum(Weights(next), Present(it)) =
        Sum(Weights(it), Present(it)) - Weights(it)[k] + Weights(next)[k]
  <2>1. \A y \in Present(it) : Weights(next)[y] \in Int /\ Weights(it)[y] \in Int
    BY <1>1, <1>7
  <2> DEFINE v == Weights(next)
             w == Weights(it)
             S == Present(it)
  <2> HIDE DEF v, w, S
  <2>2. Sum(v, S) = Sum(w, S) - w[k] + v[k]
    <3>1. /\ IsFiniteSet(S) /\ k \in S /\ \A y \in S : v[y] \in Int /\ w[y] \in Int
          /\ \A y \in S \ {k} : v[y] = w[y]
      BY <1>1, <1>7, <2>1 DEF v, w, S
    <3> QED
      BY <3>1, SumChange
  <2> QED
    BY <2>2 DEF v, w, S
<1>9. Weights(it)[k] = it[k].count * p /\ Weights(next)[k] = (it[k].count + n) * p
  BY <1>1, <1>2, <1>4, <1>5 DEF Weights
<1>10. it[k].count \in Nat /\ p \in Nat
  BY <1>1, PricesAre DEF Item
<1> DEFINE c == it[k].count
           cp == c * p
           np == n * p
<1>11. (c + n) * p = cp + np /\ cp \in Nat /\ np \in Nat
  BY <1>10
<1>12. Total(it) \in Nat
  BY ItemsAre
<1>13. Weights(it)[k] = cp /\ Weights(next)[k] = cp + np
  BY <1>9, <1>11
<1> HIDE DEF cp, np, c, p
<1>14. Total(next) = Total(it) - cp + (cp + np)
  BY <1>6, <1>8, <1>13 DEF Total
<1>15. Total(next) = Total(it) + np
  BY <1>11, <1>12, <1>14
<1> QED
  BY <1>15 DEF np, p

-----------------------------------------------------------------------------
(* The requests.                                                           *)

LEMMA RequestsAre ==
  ASSUME NEW r \in AnyRequest
  PROVE  /\ r.op \in {"idle", "add", "delete", "put", "show", "pay", "charged"}
         /\ r.op = "idle" <=> r = Idle
         /\ r.op = "add" => r \in Adding
         /\ r.op \in {"delete", "put"} => r \in Removal
         /\ r.op = "show" => r \in Showing
         /\ r.op = "pay" => r \in Paying
         /\ r.op = "charged" => r \in Charged
  BY DEF AnyRequest, Idle, Adding, Removal, Showing, Paying, Charged

(* Of what a request holds, a write changes whether it is outdated.        *)
Same(r, s) ==
  /\ r.op = s.op
  /\ r.op \in {"delete", "put"} => r.i = s.i /\ r.item = s.item /\ r.cart = s.cart
  /\ r.op = "charged" =>
       /\ r.read = s.read /\ r.payment = s.payment /\ r.cart = s.cart
       /\ r.items = s.items /\ r.cities = s.cities /\ r.customer = s.customer
  /\ r.op = "pay" => r.customer = s.customer /\ r.read = s.read

LEMMA OutdatedIs ==
  ASSUME NEW r \in AnyRequest, r.op \in {"delete", "put", "charged"},
         NEW s, s = [r EXCEPT !.outdated = TRUE]
  PROVE  s \in AnyRequest /\ Same(s, r) /\ s.outdated = TRUE
<1>1. CASE r.op \in {"delete", "put"}
  <2>1. r \in Removal
    BY <1>1, RequestsAre
  <2>2. /\ s \in Removal /\ s.op = r.op /\ s.i = r.i /\ s.item = r.item /\ s.cart = r.cart
        /\ s.outdated = TRUE
    BY <2>1 DEF Removal
  <2> QED
    BY <1>1, <2>2 DEF Same, AnyRequest
<1>2. CASE r.op = "charged"
  <2>1. r \in Charged
    BY <1>2, RequestsAre
  <2>2. /\ s \in Charged /\ s.op = r.op /\ s.read = r.read /\ s.payment = r.payment
        /\ s.cart = r.cart /\ s.items = r.items /\ s.cities = r.cities
        /\ s.customer = r.customer /\ s.outdated = TRUE
    BY <2>1 DEF Charged
  <2> QED
    BY <1>2, <2>2 DEF Same, AnyRequest
<1> QED
  BY <1>1, <1>2

LEMMA OutdatesIs ==
  ASSUME NEW rs \in [Requests -> AnyRequest], NEW out, out = Outdates(rs)
  PROVE  /\ out \in [Requests -> AnyRequest]
         /\ \A q \in Requests :
              /\ Same(out[q], rs[q])
              /\ out[q].op \in {"delete", "put", "charged"} => out[q].outdated = TRUE
<1>1. ASSUME NEW q \in Requests
      PROVE  /\ out[q] \in AnyRequest /\ Same(out[q], rs[q])
             /\ out[q].op \in {"delete", "put", "charged"} => out[q].outdated = TRUE
  <2>1. rs[q] \in AnyRequest
    OBVIOUS
  <2>2. CASE rs[q].op \in {"delete", "put", "charged"}
    <3>1. out[q] = [rs[q] EXCEPT !.outdated = TRUE]
      BY <2>2 DEF Outdates
    <3> QED
      BY <2>1, <2>2, <3>1, OutdatedIs
  <2>3. CASE rs[q].op \notin {"delete", "put", "charged"}
    <3>1. out[q] = rs[q]
      BY <2>3 DEF Outdates
    <3> QED
      BY <2>1, <2>3, <3>1 DEF Same
  <2> QED
    BY <2>2, <2>3
<1>2. DOMAIN out = Requests /\ out = [q \in Requests |-> out[q]]
  BY DEF Outdates
<1> QED
  BY <1>1, <1>2

-----------------------------------------------------------------------------
(* Steps that read.                                                        *)

LEMMA InitInv ==
  Init => Inv
<1> SUFFICES ASSUME Init PROVE Inv
  OBVIOUS
<1>1. Types
  BY StoreAssumption DEF Init, Types, Cart, NoCart, Customer, AnyRequest, Weaknesses
<1>2. /\ \A q \in Requests : request[q].op = "idle"
      /\ DOMAIN orders = {} /\ DOMAIN stripe = {} /\ DOMAIN item = {}
      /\ orders = <<>> /\ stripe = <<>> /\ InCart = {} /\ history = {}
      /\ cart.amount = 0
  BY DEF Init, Idle, InCart, NoCart
<1>3. Present(item) = {} /\ WorthOf(InCart) = 0
  BY <1>2, CartIs, EmptyTotal
<1>4. Indices /\ CopiesAgree /\ CartIsTidy /\ ChargesAreKept /\ PaidItemsAreGone
  BY <1>2 DEF Indices, CopiesAgree, CartIsTidy, ChargesAreKept, PaidItemsAreGone
<1>5. AmountsAreSound
  BY <1>2, <1>3 DEF AmountsAreSound
<1>6. CustomersAreRead
  BY <1>2 DEF CustomersAreRead
<1>7. customer.app_ids = {} /\ customer.extra_apps_count = 0 /\ Cardinality({}) = 0
  BY FS_EmptySet DEF Init
<1>8. CitiesAreCounted /\ CitiesArePaid
  BY <1>2, <1>7 DEF CitiesAreCounted, CitiesArePaid
<1> QED
  BY <1>1, <1>4, <1>5, <1>6, <1>8 DEF Inv

(* A request that asks, and has not written yet.                           *)
LEMMA AskingKeepsInv ==
  ASSUME Inv, NEW q \in Requests, NEW r \in AnyRequest,
         Asks(q, r), UNCHANGED <<cart, item, months, customer, orders, stripe, history>>,
         r.op \in {"add", "delete", "show", "pay"},
         r.op = "delete" => /\ r.i \in InCart /\ r.item = item[r.i] /\ r.cart = cart
                            /\ cart.exists,
         r.op = "pay" => r.customer = r.read
  PROVE  Inv'
<1>1. /\ request[q].op = "idle" /\ request'[q] = r
      /\ \A p \in Requests \ {q} : request'[p] = request[p]
      /\ request' \in [Requests -> AnyRequest]
  BY DEF Inv, Types, Asks, Idle
<1>2. Types'
  BY <1>1 DEF Inv, Types
<1>3. Indices'
  BY <1>1 DEF Inv, Indices, InCart
<1>4. InCart' = InCart /\ WorthOf(InCart)' = WorthOf(InCart)
      /\ AddedCities' = AddedCities /\ NumberAdded' = NumberAdded
  BY DEF InCart, WorthOf, AddedCities, NumberAdded
<1>5. CopiesAgree'
  BY <1>1, <1>4 DEF Inv, CopiesAgree
<1>6. CartIsTidy' /\ PaidItemsAreGone' /\ CitiesAreCounted' /\ CitiesArePaid'
  BY <1>4 DEF Inv, CartIsTidy, PaidItemsAreGone, CitiesAreCounted, CitiesArePaid
<1>7. AmountsAreSound'
  <2>1. \A p \in Requests : request'[p].op = "put" <=> request[p].op = "put"
    BY <1>1
  <2>2. \A p \in Requests : request[p].op = "put" => request'[p] = request[p]
    BY <1>1
  <2>3. Sound' => Sound
    BY <2>1, <2>2 DEF Sound
  <2> QED
    BY <1>4, <2>1, <2>2, <2>3 DEF Inv, AmountsAreSound, Price
<1>8. ChargesAreKept'
  <2>1. \A p \in Requests : request'[p].op = "charged" <=> request[p].op = "charged"
    BY <1>1
  <2>2. \A p \in Requests : request[p].op = "charged" => request'[p] = request[p]
    BY <1>1
  <2> QED
    BY <2>1, <2>2 DEF Inv, ChargesAreKept
<1>9. CustomersAreRead'
  BY <1>1 DEF Inv, CustomersAreRead
<1> QED
  BY <1>2, <1>3, <1>5, <1>6, <1>7, <1>8, <1>9 DEF Inv

(* A request that ends, and leaves a removal or a payment unfinished.      *)
LEMMA EndingKeepsInv ==
  ASSUME Inv, NEW q \in Requests, Ends(q),
         UNCHANGED <<cart, item, months, customer, orders, stripe>>,
         history \subseteq history', history' \subseteq Weaknesses,
         request[q].op = "put" => "died" \in history',
         request[q].op = "charged" => "retried" \in history'
  PROVE  Inv'
<1>1. /\ request'[q].op = "idle"
      /\ \A p \in Requests \ {q} : request'[p] = request[p]
      /\ request' \in [Requests -> AnyRequest]
  BY DEF Inv, Types, Ends, Idle, AnyRequest
<1>2. Types'
  BY <1>1 DEF Inv, Types
<1>3. Indices'
  BY <1>1 DEF Inv, Indices
<1>4. InCart' = InCart /\ WorthOf(InCart)' = WorthOf(InCart)
      /\ AddedCities' = AddedCities /\ NumberAdded' = NumberAdded
  BY DEF InCart, WorthOf, AddedCities, NumberAdded
<1>5. CopiesAgree'
  BY <1>1, <1>4 DEF Inv, CopiesAgree
<1>6. CartIsTidy' /\ PaidItemsAreGone' /\ CitiesAreCounted' /\ CitiesArePaid'
  BY <1>4 DEF Inv, CartIsTidy, PaidItemsAreGone, CitiesAreCounted, CitiesArePaid
<1>7. AmountsAreSound'
  <2> SUFFICES ASSUME Sound' PROVE AmountsAreSound'
    BY DEF AmountsAreSound
  <2>1. request[q].op # "put"
    BY DEF Sound
  <2>2. \A p \in Requests : /\ request'[p].op = "put" <=> request[p].op = "put"
                            /\ request[p].op = "put" => request'[p] = request[p]
    BY <1>1, <2>1
  <2>3. Sound
    BY <2>2 DEF Sound
  <2> QED
    BY <1>4, <2>2, <2>3 DEF Inv, AmountsAreSound, Price
<1>8. ChargesAreKept'
  BY <1>1 DEF Inv, ChargesAreKept
<1>9. CustomersAreRead'
  BY <1>1 DEF Inv, CustomersAreRead
<1> QED
  BY <1>2, <1>3, <1>5, <1>6, <1>7, <1>8, <1>9 DEF Inv

LEMMA MonthPassesKeepsInv ==
  ASSUME Inv, MonthPasses
  PROVE  Inv'
<1>1. Types'
  BY DEF Inv, Types, MonthPasses
<1>2. InCart' = InCart /\ WorthOf(InCart)' = WorthOf(InCart)
      /\ AddedCities' = AddedCities /\ NumberAdded' = NumberAdded
  BY DEF MonthPasses, InCart, WorthOf, AddedCities, NumberAdded
<1>3. Indices' /\ CartIsTidy' /\ ChargesAreKept' /\ PaidItemsAreGone'
  BY <1>2 DEF Inv, MonthPasses, Indices, CartIsTidy, ChargesAreKept, PaidItemsAreGone
<1>4. CopiesAgree'
  BY <1>2 DEF Inv, MonthPasses, CopiesAgree
<1>5. AmountsAreSound' /\ CustomersAreRead' /\ CitiesAreCounted' /\ CitiesArePaid'
  BY <1>2 DEF Inv, MonthPasses, AmountsAreSound, Sound, CustomersAreRead,
              CitiesAreCounted, CitiesArePaid, Price
<1> QED
  BY <1>1, <1>3, <1>4, <1>5 DEF Inv

-----------------------------------------------------------------------------
(* Charging the card.                                                      *)

LEMMA AddedAre ==
  ASSUME Types
  PROVE  /\ IsFiniteSet(InCart) /\ InCart \subseteq DOMAIN item
         /\ \A i \in DOMAIN item : item[i] \in Item
         /\ AddedCities \subseteq Cities /\ NumberAdded \in Nat
         /\ IsFiniteSet({i \in InCart : item[i].product # Cards})
         /\ WorthOf(InCart) \in Nat
<1>1. /\ IsFiniteSet(InCart) /\ InCart \subseteq DOMAIN item
      /\ \A i \in DOMAIN item : item[i] \in Item
      /\ WorthOf(InCart) \in Nat
  BY CartIs, ItemsAre DEF Types
<1>2. AddedCities \subseteq Cities
  BY <1>1 DEF AddedCities, Item, Products
<1>3. IsFiniteSet({i \in InCart : item[i].product # Cards})
  BY <1>1, FS_Subset
<1>4. NumberAdded \in Nat
  BY <1>3, FS_CardinalityType DEF NumberAdded
<1> QED
  BY <1>1, <1>2, <1>3, <1>4

LEMMA ChargingKeepsInv ==
  ASSUME Inv, NEW q \in Requests, Charges(q),
         UNCHANGED <<cart, item, months, customer, orders>>,
         \/ request[q].op = "pay"
         \/ request[q].op = "charged" /\ "retried" \in history',
         history \subseteq history', history' \subseteq history \cup {"retried"}
  PROVE  Inv'
<1> DEFINE r == request[q]
           s == request'[q]
           n == Len(stripe) + 1
           new == [total_amount |-> cart.total_amount, order |-> 0]
<1>1. /\ request \in [Requests -> AnyRequest] /\ stripe \in Seq(Payment)
      /\ cart \in Cart /\ history \subseteq Weaknesses /\ Types
  BY DEF Inv, Types
<1>2. r.customer \in Customer /\ r.read \in Customer
  BY <1>1, RequestsAre DEF Paying, Charged
<1>3. /\ s.op = "charged" /\ s.read = r.read /\ s.payment = n /\ s.outdated = FALSE
      /\ s.cart = cart /\ s.items = InCart /\ s.worth = WorthOf(InCart)
      /\ s.cities = AddedCities
      /\ s.customer.app_ids = r.customer.app_ids \cup AddedCities
      /\ s.customer.extra_apps_count = r.customer.extra_apps_count + NumberAdded
      /\ s \in AnyRequest
      /\ new \in Payment
  <2>1. /\ request'[q] = [op |-> "charged", read |-> r.read, payment |-> Len(stripe'),
              outdated |-> FALSE, cart |-> cart, items |-> InCart, worth |-> WorthOf(InCart),
              cities |-> AddedCities,
              customer |-> [app_ids |-> r.customer.app_ids \cup AddedCities,
                            extra_apps_count |-> r.customer.extra_apps_count + NumberAdded]]
        /\ stripe' = Append(stripe, new)
        /\ cart.total_amount \in Nat
    BY <1>1 DEF Charges, Cart
  <2>2. Len(stripe') = n /\ n \in Nat /\ new \in Payment
    BY <1>1, <2>1, AppendProperties DEF Payment
  <2>3. /\ [app_ids |-> r.customer.app_ids \cup AddedCities,
            extra_apps_count |-> r.customer.extra_apps_count + NumberAdded] \in Customer
        /\ InCart \in SUBSET Nat /\ WorthOf(InCart) \in Nat /\ AddedCities \in SUBSET Cities
    BY <1>1, <1>2, AddedAre DEF Customer, Types
  <2>4. s \in Charged
    BY <1>1, <1>2, <2>1, <2>2, <2>3 DEF Charged
  <2> QED
    BY <2>1, <2>2, <2>4 DEF AnyRequest
<1>4. /\ stripe' = Append(stripe, new) /\ stripe' \in Seq(Payment)
      /\ DOMAIN stripe' = DOMAIN stripe \cup {n} /\ n \notin DOMAIN stripe
      /\ stripe'[n] = new /\ \A p \in DOMAIN stripe : stripe'[p] = stripe[p]
  BY <1>1, <1>3, AppendProperties DEF Charges
<1>5. /\ request' \in [Requests -> AnyRequest]
      /\ \A p \in Requests \ {q} : request'[p] = request[p]
  BY <1>1, <1>3 DEF Charges
<1> HIDE DEF r, s, n, new
<1>6. Types'
  BY <1>1, <1>4, <1>5 DEF Types, Weaknesses
<1>7. InCart' = InCart /\ WorthOf(InCart)' = WorthOf(InCart)
      /\ AddedCities' = AddedCities /\ NumberAdded' = NumberAdded
  BY DEF InCart, WorthOf, AddedCities, NumberAdded
<1>8. Indices'
  <2>1. \A p \in Requests :
          /\ request'[p].op \in {"delete", "put"} =>
               request'[p].i \in DOMAIN item' /\ request'[p].cart.exists
          /\ request'[p].op = "charged" => /\ request'[p].payment \in DOMAIN stripe'
                                           /\ request'[p].items \subseteq DOMAIN item'
    BY <1>1, <1>3, <1>4, <1>5, AddedAre DEF Inv, Indices, s
  <2>2. \A p \in DOMAIN stripe' : stripe'[p].order <= Len(orders')
    <3>1. new.order = 0 /\ Len(orders) \in Nat
      BY DEF new, Inv, Types
    <3> QED
      BY <1>4, <3>1 DEF Inv, Indices
  <2> QED
    BY <2>1, <2>2 DEF Inv, Indices
<1>9. CustomersAreRead'
  <2>1. "retried" \notin history' => r.customer = r.read
    BY DEF Inv, CustomersAreRead, r
  <2>2. s.op # "pay" /\ ("retried" \notin history' =>
                           s.customer.app_ids = s.read.app_ids \cup s.cities)
    BY <1>3, <2>1
  <2> QED
    BY <1>5, <2>2 DEF Inv, CustomersAreRead, s
<1>10. CopiesAgree'
  <2>1. "retried" \notin history' => r.customer = r.read
    BY DEF Inv, CustomersAreRead, r
  <2>2. "retried" \notin history' =>
          s.customer.extra_apps_count = s.read.extra_apps_count + NumberAdded
    BY <1>3, <2>1
  <2>3. ASSUME NEW p \in Requests, p # q,
               request[p].op \in {"delete", "put", "charged"}, ~request[p].outdated
        PROVE  /\ request[p].cart = cart'
               /\ request[p].op = "delete" => /\ request[p].i \in InCart'
                                              /\ request[p].item = item'[request[p].i]
               /\ request[p].op = "charged" =>
                    /\ request[p].items = InCart' /\ request[p].worth = WorthOf(InCart)'
                    /\ request[p].cities = AddedCities'
                    /\ "retried" \notin history' =>
                         request[p].customer.extra_apps_count =
                           request[p].read.extra_apps_count + NumberAdded'
    BY <1>7, <2>3 DEF Inv, CopiesAgree
  <2> QED
    BY <1>3, <1>5, <1>7, <2>2, <2>3 DEF CopiesAgree, s
<1>11. CartIsTidy' /\ PaidItemsAreGone' /\ CitiesAreCounted' /\ CitiesArePaid'
  BY <1>7 DEF Inv, CartIsTidy, PaidItemsAreGone, CitiesAreCounted, CitiesArePaid
<1>12. AmountsAreSound'
  <2>1. \A p \in Requests : /\ request'[p].op = "put" <=> request[p].op = "put"
                            /\ request[p].op = "put" => request'[p] = request[p]
    BY <1>3, <1>5 DEF r, s
  <2>2. Sound' => Sound
    BY <2>1 DEF Sound
  <2> QED
    BY <1>7, <2>1, <2>2 DEF Inv, AmountsAreSound, Price
<1>13. ChargesAreKept'
  <2>1. new.order = 0 /\ new.total_amount = s.cart.total_amount
    BY <1>3 DEF new
  <2>2. \A p \in Requests \ {q} : request[p].op = "charged" => request[p].payment \in DOMAIN stripe
    BY DEF Inv, Indices
  <2>3. ASSUME NEW p \in Requests, request'[p].op = "charged"
        PROVE  /\ stripe'[request'[p].payment] =
                    [total_amount |-> request'[p].cart.total_amount, order |-> 0]
               /\ \A o \in Requests :
                    request'[o].op = "charged" /\ request'[o].payment = request'[p].payment
                      => o = p
    <3>1. CASE p = q
      BY <1>3, <1>4, <1>5, <2>1, <2>2, <3>1 DEF s, new
    <3>2. CASE p # q
      <4>1. request'[p] = request[p] /\ request[p].payment \in DOMAIN stripe
        BY <1>5, <2>2, <2>3, <3>2
      <4>2. /\ stripe[request[p].payment] =
                 [total_amount |-> request[p].cart.total_amount, order |-> 0]
            /\ \A o \in Requests :
                 request[o].op = "charged" /\ request[o].payment = request[p].payment => o = p
        BY <2>3, <4>1 DEF Inv, ChargesAreKept
      <4>3. request'[q].payment # request[p].payment
        BY <1>3, <1>4, <4>1 DEF s
      <4> QED
        BY <1>4, <1>5, <4>1, <4>2, <4>3
    <3> QED
      BY <3>1, <3>2
  <2>4. ASSUME NEW o \in DOMAIN orders
        PROVE  \E p \in DOMAIN stripe' :
                 /\ stripe'[p] = [total_amount |-> orders[o].total_amount, order |-> o]
                 /\ \A other \in DOMAIN stripe' \ {p} : stripe'[other].order # o
    <3>1. PICK p \in DOMAIN stripe :
                 /\ stripe[p] = [total_amount |-> orders[o].total_amount, order |-> o]
                 /\ \A other \in DOMAIN stripe \ {p} : stripe[other].order # o
      BY DEF Inv, ChargesAreKept
    <3>2. o # 0
      BY DEF Inv, Types
    <3> QED
      BY <1>4, <2>1, <3>1, <3>2
  <2>5. ASSUME NEW p \in DOMAIN stripe'
        PROVE  \/ stripe'[p].order # 0
               \/ "retried" \in history'
               \/ \E o \in Requests : request'[o].op = "charged" /\ request'[o].payment = p
    <3>1. CASE p = n
      BY <1>3, <3>1 DEF s
    <3>2. CASE p \in DOMAIN stripe
      <4>1. CASE r.op = "pay"
        BY <1>4, <1>5, <3>2, <4>1 DEF Inv, ChargesAreKept, r
      <4>2. CASE r.op # "pay"
        BY <4>2 DEF r
      <4> QED
        BY <4>1, <4>2
    <3> QED
      BY <1>4, <3>1, <3>2
  <2> QED
    BY <2>3, <2>4, <2>5 DEF ChargesAreKept
<1> QED
  BY <1>6, <1>8, <1>9, <1>10, <1>11, <1>12, <1>13 DEF Inv

-----------------------------------------------------------------------------
(* Steps that write.                                                       *)

(* What a write does to the requests of the others.                        *)
LEMMA WritingOutdates ==
  ASSUME Inv, NEW rs \in [Requests -> AnyRequest],
         \A q \in Requests : rs[q] = request[q] \/ rs[q] = Idle,
         request' = Outdates(rs), DOMAIN item \subseteq DOMAIN item', history \subseteq history'
  PROVE  /\ request' \in [Requests -> AnyRequest]
         /\ CopiesAgree' /\ CustomersAreRead'
         /\ Sound' => \A q \in Requests : rs[q].op # "put" /\ request'[q].op # "put"
         /\ \A q \in Requests : Same(request'[q], rs[q])
         /\ \A q \in Requests :
              /\ request'[q].op \in {"delete", "put"} =>
                   request'[q].i \in DOMAIN item' /\ request'[q].cart.exists
              /\ request'[q].op = "charged" => request'[q].items \subseteq DOMAIN item'
<1>1. /\ request' \in [Requests -> AnyRequest]
      /\ \A q \in Requests :
           /\ Same(request'[q], rs[q])
           /\ request'[q].op \in {"delete", "put", "charged"} => request'[q].outdated = TRUE
  BY OutdatesIs
<1>2. CopiesAgree'
  BY <1>1 DEF CopiesAgree
<1>3. Sound' => \A q \in Requests : rs[q].op # "put" /\ request'[q].op # "put"
  BY <1>1 DEF Sound, Same
<1>4. CustomersAreRead'
  BY <1>1 DEF Inv, CustomersAreRead, Same, Idle
<1>5. \A q \in Requests :
        /\ request'[q].op \in {"delete", "put"} =>
             request'[q].i \in DOMAIN item' /\ request'[q].cart.exists
        /\ request'[q].op = "charged" => request'[q].items \subseteq DOMAIN item'
  BY <1>1 DEF Inv, Indices, Same, Idle
<1> QED
  BY <1>1, <1>2, <1>3, <1>4, <1>5

(* A write that is no payment.                                             *)
LEMMA ChargesStay ==
  ASSUME Inv, NEW rs, \A q \in Requests : rs[q] = request[q] \/ rs[q] = Idle,
         \A q \in Requests : request[q].op = "charged" => rs[q] = request[q],
         \A q \in Requests : /\ request'[q].op = "charged" <=> rs[q].op = "charged"
                             /\ rs[q].op = "charged" => Same(request'[q], rs[q]),
         UNCHANGED <<orders, stripe>>,
         DOMAIN item \subseteq DOMAIN item', history \subseteq history'
  PROVE  /\ ChargesAreKept'
         /\ \A n \in DOMAIN orders' : orders'[n].items \subseteq DOMAIN item'
         /\ \A p \in DOMAIN stripe' : stripe'[p].order <= Len(orders')
         /\ \A q \in Requests :
              request'[q].op = "charged" => request'[q].payment \in DOMAIN stripe'
<1>1. \A q \in Requests :
        /\ request'[q].op = "charged" <=> request[q].op = "charged"
        /\ request[q].op = "charged" => /\ request'[q].payment = request[q].payment
                                        /\ request'[q].cart = request[q].cart
  BY DEF Same, Idle
<1>2. ChargesAreKept'
  BY <1>1 DEF Inv, ChargesAreKept
<1>3. /\ \A n \in DOMAIN orders' : orders'[n].items \subseteq DOMAIN item'
      /\ \A p \in DOMAIN stripe' : stripe'[p].order <= Len(orders')
  BY DEF Inv, Indices
<1>4. \A q \in Requests :
        request'[q].op = "charged" => request'[q].payment \in DOMAIN stripe'
  BY <1>1 DEF Inv, Indices
<1> QED
  BY <1>2, <1>3, <1>4

(* A new item, of a product that is not in the cart.                       *)
LEMMA AddingKeepsInv ==
  ASSUME Inv, NEW product \in Products, NEW count \in Nat,
         NewItem(product, count), NEW total \in Nat, total = count * price[product],
         AddsUp(total, 0), UNCHANGED <<months, customer, orders, stripe>>,
         cart.exists => \A i \in InCart : item[i].product # product,
         NEW rs \in [Requests -> AnyRequest],
         \A q \in Requests : rs[q] = request[q] \/ rs[q] = Idle,
         \A q \in Requests : request[q].op \in {"put", "charged"} => rs[q] = request[q],
         request' = Outdates(rs),
         history \subseteq history', history' \subseteq history \cup {"late"},
         product \in customer.app_ids => "late" \in history'
  PROVE  Inv'
<1> DEFINE new == [exists |-> TRUE, product |-> product, count |-> count]
           l == Len(item) + 1
<1>1. /\ item \in Seq(Item) /\ cart \in Cart /\ history \subseteq Weaknesses
      /\ orders \in Seq(Order)
  BY DEF Inv, Types
<1>2. new \in Item /\ new.exists /\ Price(new) = total /\ new.product = product
  BY DEF Item, Price
<1>3. item' = Append(item, new)
  BY DEF NewItem
<1> HIDE DEF new
<1>4. /\ item' \in Seq(Item) /\ DOMAIN item' = DOMAIN item \cup {l}
      /\ \A i \in DOMAIN item : item'[i] = item[i]
      /\ item'[l] = new /\ l \notin DOMAIN item
      /\ Present(item') = Present(item) \cup {l}
      /\ Total(item') = Total(item) + Price(new)
  <2>1. /\ item' \in Seq(Item) /\ DOMAIN item' = DOMAIN item \cup {l}
        /\ \A i \in DOMAIN item : item'[i] = item[i]
        /\ item'[l] = new /\ l \notin DOMAIN item
        /\ Present(item') = Present(item) \cup {l}
    <3>1. item' \in Seq(Item) /\ DOMAIN item' = DOMAIN item \cup {l}
      BY <1>1, <1>2, <1>3, AddedItem
    <3>2. \A i \in DOMAIN item : item'[i] = item[i]
      BY <1>1, <1>2, <1>3, AddedItem
    <3>3. item'[l] = new /\ l \notin DOMAIN item
      BY <1>1, <1>2, <1>3, AddedItem
    <3>4. Present(item') = Present(item) \cup {l}
      BY <1>1, <1>2, <1>3, AddedItem
    <3> QED
      BY <3>1, <3>2, <3>3, <3>4
  <2>2. Total(item') = Total(item) + Price(new)
    BY <1>1, <1>2, <1>3, AddedTotal
  <2> QED
    BY <2>1, <2>2
<1> HIDE DEF l
<1>5. /\ InCart = Present(item) /\ WorthOf(InCart) = Total(item)
      /\ InCart' = Present(item') /\ WorthOf(InCart)' = Total(item')
  <2>1. InCart' = Present(item')
    BY DEF InCart, Present
  <2>2. WorthOf(InCart)' = Total(item')
    BY <2>1 DEF WorthOf, Total, Weights, Sum
  <2> QED
    BY <2>1, <2>2, CartIs
<1>6. InCart' = InCart \cup {l} /\ InCart \subseteq DOMAIN item
  BY <1>4, <1>5 DEF InCart
<1>7. cart' \in Cart /\ cart'.exists /\ cart'.amount = cart.amount + total
  <2>1. WithVat(total) \in Int
    BY StoreAssumption DEF WithVat
  <2> QED
    BY <1>1, <2>1 DEF AddsUp, Cart
<1>8. /\ request' \in [Requests -> AnyRequest]
      /\ CopiesAgree' /\ CustomersAreRead'
      /\ Sound' => \A q \in Requests : rs[q].op # "put" /\ request'[q].op # "put"
      /\ \A q \in Requests : Same(request'[q], rs[q])
      /\ \A q \in Requests :
           /\ request'[q].op \in {"delete", "put"} =>
                request'[q].i \in DOMAIN item' /\ request'[q].cart.exists
           /\ request'[q].op = "charged" => request'[q].items \subseteq DOMAIN item'
  BY <1>4, WritingOutdates
<1>9. /\ ChargesAreKept'
      /\ \A n \in DOMAIN orders' : orders'[n].items \subseteq DOMAIN item'
      /\ \A p \in DOMAIN stripe' : stripe'[p].order <= Len(orders')
      /\ \A q \in Requests :
           request'[q].op = "charged" => request'[q].payment \in DOMAIN stripe'
  <2>1. \A q \in Requests : /\ request'[q].op = "charged" <=> rs[q].op = "charged"
                            /\ rs[q].op = "charged" => Same(request'[q], rs[q])
    BY <1>8 DEF Same
  <2> QED
    BY <1>4, <2>1, ChargesStay
<1>10. Types'
  BY <1>1, <1>4, <1>7, <1>8 DEF Inv, Types, Weaknesses
<1>11. Indices'
  BY <1>8, <1>9 DEF Indices
<1>12. CartIsTidy'
  <2> SUFFICES ASSUME "recounted" \notin history', NEW i \in InCart', NEW j \in InCart',
                      item'[i].product = item'[j].product
               PROVE  i = j
    BY <1>7 DEF CartIsTidy
  <2>1. /\ ~cart.exists => InCart = {}
        /\ \A a, b \in InCart : item[a].product = item[b].product => a = b
    BY DEF Inv, CartIsTidy
  <2>2. \A a \in InCart : item'[a].product # product
    BY <1>4, <1>6, <2>1
  <2>3. item'[l].product = product
    BY <1>2, <1>4
  <2> QED
    BY <1>4, <1>6, <2>1, <2>2, <2>3
<1>13. AmountsAreSound'
  <2> SUFFICES ASSUME Sound'
               PROVE  /\ cart'.amount = WorthOf(InCart)'
                      /\ \A n \in DOMAIN orders' : orders'[n].amount = orders'[n].worth
    BY <1>8 DEF AmountsAreSound
  <2>1. \A q \in Requests : request[q].op # "put"
    BY <1>8
  <2>2. Sound
    BY <2>1 DEF Sound
  <2>3. /\ cart.amount = WorthOf(InCart)
        /\ \A n \in DOMAIN orders : orders[n].amount = orders[n].worth
    BY <2>1, <2>2 DEF Inv, AmountsAreSound
  <2> QED
    BY <1>2, <1>4, <1>5, <1>7, <2>3
<1>14. PaidItemsAreGone'
  <2>1. \A n \in DOMAIN orders : orders[n].items \subseteq DOMAIN item
    BY DEF Inv, Indices
  <2> QED
    BY <1>4, <1>6, <2>1 DEF Inv, PaidItemsAreGone
<1>15. CitiesAreCounted'
  BY <1>2, <1>4, <1>6 DEF Inv, CitiesAreCounted
<1>16. CitiesArePaid'
  BY DEF Inv, CitiesArePaid
<1> QED
  BY <1>8, <1>9, <1>10, <1>11, <1>12, <1>13, <1>14, <1>15, <1>16 DEF Inv

(* Cards that are added to those in the cart.                              *)
LEMMA MoreCardsKeepInv ==
  ASSUME Inv, NEW n \in possible_counts, NEW there, there # {},
         there = {i \in InCart : cart.exists /\ item[i].product = Cards},
         item' = [i \in DOMAIN item |->
                    IF i \in there THEN [item[i] EXCEPT !.count = @ + n] ELSE item[i]],
         AddsUp(n * price[Cards], WorthOf(there)), request' = Outdates(request),
         UNCHANGED <<months, customer, orders, stripe, history>>
  PROVE  Inv'
<1> DEFINE total == n * price[Cards]
<1>1. /\ item \in Seq(Item) /\ cart \in Cart /\ history \subseteq Weaknesses
      /\ orders \in Seq(Order) /\ request \in [Requests -> AnyRequest]
  BY DEF Inv, Types
<1>2. n \in Nat /\ price[Cards] \in Nat /\ total \in Nat
  BY PricesAre, TimesAre DEF Products
<1>3. /\ item' \in Seq(Item) /\ DOMAIN item' = DOMAIN item
      /\ \A i \in DOMAIN item : /\ item'[i].product = item[i].product
                                /\ item'[i].exists = item[i].exists
  <2>1. ASSUME NEW i \in DOMAIN item
        PROVE  /\ item'[i] \in Item /\ item'[i].product = item[i].product
               /\ item'[i].exists = item[i].exists
    <3>1. item[i] \in Item
      BY <1>1
    <3> QED
      BY <1>2, <3>1 DEF Item
  <2>2. Len(item) \in Nat /\ DOMAIN item = 1 .. Len(item) /\ DOMAIN item' = DOMAIN item
    BY <1>1
  <2>3. item' = [i \in 1 .. Len(item) |-> item'[i]]
    BY <2>2
  <2>4. item' \in Seq(Item)
    BY <2>1, <2>2, <2>3
  <2> QED
    BY <2>1, <2>2, <2>4
<1>4. /\ InCart' = InCart /\ InCart \subseteq DOMAIN item
      /\ InCart = Present(item) /\ WorthOf(InCart) = Total(item)
  BY <1>3, CartIs DEF InCart
<1>5. WorthOf(InCart)' = Total(item')
  <2>1. InCart' = Present(item')
    BY DEF InCart, Present
  <2> QED
    BY <2>1 DEF WorthOf, Total, Weights, Sum
<1>6. cart' \in Cart /\ cart'.exists /\ cart'.amount = cart.amount + total
  <2>1. WithVat(total) \in Int
    BY <1>2, StoreAssumption DEF WithVat
  <2> HIDE DEF total
  <2>2. cart' = [exists |-> TRUE, amount |-> cart.amount + total,
                 total_amount |-> cart.total_amount + WithVat(total)]
    BY DEF AddsUp, total
  <2> QED
    BY <1>1, <1>2, <2>1, <2>2 DEF Cart
<1> HIDE DEF total
<1>7. "recounted" \notin history => Total(item') = Total(item) + total
  <2> SUFFICES ASSUME "recounted" \notin history
               PROVE  Total(item') = Total(item) + total
    OBVIOUS
  <2>1. \A i, j \in InCart : item[i].product = item[j].product => i = j
    BY DEF Inv, CartIsTidy
  <2>2. PICK k \in there : TRUE
    OBVIOUS
  <2>3. there = {k} /\ item[k].product = Cards /\ k \in Present(item)
    BY <1>4, <2>1, <2>2
  <2>4. item' = [i \in DOMAIN item |->
                   IF i \in {k} THEN [item[i] EXCEPT !.count = @ + n] ELSE item[i]]
    BY <2>3
  <2>5. Total(item') = Total(item) + n * price[item[k].product]
    BY <1>1, <1>2, <2>3, <2>4, MoreTotal
  <2> QED
    BY <2>3, <2>5 DEF total
<1>8. \A q \in Requests : request[q] = request[q] \/ request[q] = Idle
  OBVIOUS
<1>9. /\ request' \in [Requests -> AnyRequest]
      /\ CopiesAgree' /\ CustomersAreRead'
      /\ Sound' => \A q \in Requests : request[q].op # "put" /\ request'[q].op # "put"
      /\ \A q \in Requests : Same(request'[q], request[q])
      /\ \A q \in Requests :
           /\ request'[q].op \in {"delete", "put"} =>
                request'[q].i \in DOMAIN item' /\ request'[q].cart.exists
           /\ request'[q].op = "charged" => request'[q].items \subseteq DOMAIN item'
  BY <1>1, <1>3, WritingOutdates
<1>10. /\ ChargesAreKept'
       /\ \A m \in DOMAIN orders' : orders'[m].items \subseteq DOMAIN item'
       /\ \A p \in DOMAIN stripe' : stripe'[p].order <= Len(orders')
       /\ \A q \in Requests :
            request'[q].op = "charged" => request'[q].payment \in DOMAIN stripe'
  <2>1. \A q \in Requests : /\ request'[q].op = "charged" <=> request[q].op = "charged"
                            /\ request[q].op = "charged" => Same(request'[q], request[q])
    BY <1>9 DEF Same
  <2>2. orders' = orders /\ stripe' = stripe /\ history' = history
    OBVIOUS
  <2> QED
    BY <1>3, <2>1, <2>2, ChargesStay
<1>11. Types'
  BY <1>1, <1>3, <1>6, <1>9 DEF Inv, Types
<1>12. Indices'
  BY <1>9, <1>10 DEF Indices
<1>13. CartIsTidy'
  BY <1>3, <1>4, <1>6 DEF Inv, CartIsTidy
<1>14. AmountsAreSound'
  <2> SUFFICES ASSUME Sound'
               PROVE  /\ cart'.amount = WorthOf(InCart)'
                      /\ \A m \in DOMAIN orders' : orders'[m].amount = orders'[m].worth
    BY <1>9 DEF AmountsAreSound
  <2>1. \A q \in Requests : request[q].op # "put"
    BY <1>9
  <2>2. Sound /\ "recounted" \notin history
    BY <2>1 DEF Sound
  <2>3. /\ cart.amount = WorthOf(InCart)
        /\ \A m \in DOMAIN orders : orders[m].amount = orders[m].worth
    BY <2>1, <2>2 DEF Inv, AmountsAreSound
  <2> QED
    BY <1>4, <1>5, <1>6, <1>7, <2>2, <2>3
<1>15. PaidItemsAreGone'
  BY <1>4 DEF Inv, PaidItemsAreGone
<1>16. CitiesAreCounted'
  BY <1>3, <1>4 DEF Inv, CitiesAreCounted
<1>17. CitiesArePaid'
  BY DEF Inv, CitiesArePaid
<1> QED
  BY <1>9, <1>10, <1>11, <1>12, <1>13, <1>14, <1>15, <1>16, <1>17 DEF Inv

LEMMA AddCardsKeepsInv ==
  ASSUME Inv, NEW n \in possible_counts, add_cards(n)
  PROVE  Inv'
<1> DEFINE there == {i \in InCart : cart.exists /\ item[i].product = Cards}
<1>1. CASE there = {}
  <2>1. /\ NewItem(Cards, n) /\ request' = Outdates(request)
        /\ UNCHANGED <<months, customer, orders, stripe>> /\ history' = history
        /\ AddsUp(n * price[Cards], 0)
    BY <1>1 DEF add_cards, AddsUp
  <2>2. n \in Nat /\ n * price[Cards] \in Nat /\ Cards \in Products
    BY PricesAre, TimesAre DEF Products
  <2>3. Cards \notin customer.app_ids
    BY PricesAre DEF Inv, Types, Customer
  <2>4. cart.exists => \A i \in InCart : item[i].product # Cards
    BY <1>1
  <2>5. request \in [Requests -> AnyRequest]
    BY DEF Inv, Types
  <2> QED
    BY <2>1, <2>2, <2>3, <2>4, <2>5, AddingKeepsInv
<1>2. CASE there # {}
  <2>1. /\ item' = [i \in DOMAIN item |->
                      IF i \in there THEN [item[i] EXCEPT !.count = @ + n] ELSE item[i]]
        /\ AddsUp(n * price[Cards], WorthOf(there)) /\ request' = Outdates(request)
        /\ UNCHANGED <<months, customer, orders, stripe, history>>
    BY <1>2 DEF add_cards
  <2> QED
    BY <1>2, <2>1, MoreCardsKeepInv
<1> QED
  BY <1>1, <1>2

LEMMA AddCityKeepsInv ==
  ASSUME Inv, NEW q \in Requests, add_city(q)
  PROVE  Inv'
<1> DEFINE product == request[q].product
           rs == [request EXCEPT ![q] = Idle]
<1>1. request \in [Requests -> AnyRequest] /\ months \in Nat /\ history \subseteq Weaknesses
  BY DEF Inv, Types
<1>2. product \in Cities /\ product \in Products
  BY <1>1, RequestsAre DEF add_city, Adding, Products
<1>3. /\ rs \in [Requests -> AnyRequest]
      /\ \A p \in Requests : rs[p] = request[p] \/ rs[p] = Idle
      /\ \A p \in Requests : request[p].op \in {"put", "charged"} => rs[p] = request[p]
  BY <1>1 DEF add_city, AnyRequest
<1>4. /\ NewItem(product, months) /\ AddsUp(months * price[product], 0)
      /\ UNCHANGED <<months, customer, orders, stripe>>
      /\ cart.exists => \A i \in InCart : item[i].product # product
      /\ request' = Outdates(rs)
  BY DEF add_city, EndsWithWrite
<1>5. /\ history \subseteq history' /\ history' \subseteq history \cup {"late"}
      /\ product \in customer.app_ids => "late" \in history'
  BY DEF add_city, Shows
<1>6. months * price[product] \in Nat
  BY <1>1, <1>2, PricesAre, TimesAre
<1> HIDE DEF product, rs
<1> QED
  BY <1>1, <1>2, <1>3, <1>4, <1>5, <1>6, AddingKeepsInv

(* An item is deleted, and the cart is not put yet.                        *)
LEMMA RemoveDeleteKeepsInv ==
  ASSUME Inv, NEW q \in Requests, remove_delete(q)
  PROVE  Inv'
<1> DEFINE r == request[q]
           s == request'[q]
           k == request[q].i
           out == Outdates(request)
<1>1. /\ item \in Seq(Item) /\ request \in [Requests -> AnyRequest]
      /\ r.op = "delete" /\ r \in Removal /\ k \in DOMAIN item /\ r.cart.exists
  BY RequestsAre DEF Inv, Types, Indices, remove_delete
<1>2. /\ s \in Removal /\ s.op = "put" /\ s.i = k /\ s.item = r.item /\ s.cart = r.cart
      /\ s.outdated = r.outdated
  <2>1. request' = [out EXCEPT ![q] = [r EXCEPT !.op = "put"]] /\ DOMAIN out = Requests
    BY DEF remove_delete, Outdates
  <2>2. s = [r EXCEPT !.op = "put"]
    BY <2>1
  <2> HIDE DEF s, r
  <2> QED
    BY <1>1, <2>2 DEF Removal, r
<1>3. /\ out \in [Requests -> AnyRequest]
      /\ \A p \in Requests :
           /\ Same(out[p], request[p])
           /\ out[p].op \in {"delete", "put", "charged"} => out[p].outdated = TRUE
  BY <1>1, OutdatesIs
<1>4. /\ request' \in [Requests -> AnyRequest]
      /\ \A p \in Requests \ {q} : request'[p] = out[p]
  BY <1>2, <1>3 DEF remove_delete, AnyRequest
<1> HIDE DEF out
<1>5. item' = [item EXCEPT ![k].exists = FALSE]
  BY DEF remove_delete
<1>6. UNCHANGED <<cart, months, customer, orders, stripe, history>>
  BY DEF remove_delete
<1> HIDE DEF s, r, k
<1>7. /\ item' \in Seq(Item) /\ DOMAIN item' = DOMAIN item
      /\ \A i \in DOMAIN item \ {k} : item'[i] = item[i]
      /\ item'[k].product = item[k].product
      /\ Present(item') = Present(item) \ {k}
  <2>1. item' \in Seq(Item) /\ DOMAIN item' = DOMAIN item
    BY <1>1, <1>5, RemovedItem
  <2>2. \A i \in DOMAIN item \ {k} : item'[i] = item[i]
    BY <1>1, <1>5, RemovedItem
  <2>3. item'[k].product = item[k].product
    <3>1. item[k] \in Item /\ item'[k] = [item[k] EXCEPT !.exists = FALSE]
      BY <1>1, <1>5
    <3> QED
      BY <3>1 DEF Item
  <2>4. Present(item') = Present(item) \ {k}
    BY <1>1, <1>5, RemovedItem
  <2> QED
    BY <2>1, <2>2, <2>3, <2>4
<1>8. /\ InCart = Present(item) /\ WorthOf(InCart) = Total(item)
      /\ InCart' = Present(item') /\ WorthOf(InCart)' = Total(item')
  <2>1. InCart' = Present(item')
    BY DEF InCart, Present
  <2>2. WorthOf(InCart)' = Total(item')
    BY <2>1 DEF WorthOf, Total, Weights, Sum
  <2> QED
    BY <2>1, <2>2, CartIs
<1>9. /\ InCart' \subseteq InCart /\ InCart \subseteq DOMAIN item
      /\ \A i \in DOMAIN item : item'[i].product = item[i].product
  BY <1>7, <1>8 DEF InCart
<1>10. Types'
  BY <1>4, <1>6, <1>7 DEF Inv, Types
<1>11. Indices'
  <2>1. \A p \in Requests \ {q} :
          /\ request'[p].op \in {"delete", "put"} =>
               request'[p].i \in DOMAIN item' /\ request'[p].cart.exists
          /\ request'[p].op = "charged" => /\ request'[p].payment \in DOMAIN stripe'
                                           /\ request'[p].items \subseteq DOMAIN item'
    BY <1>3, <1>4, <1>6, <1>7 DEF Inv, Indices, Same
  <2>2. s.op = "put" /\ s.i \in DOMAIN item' /\ s.cart.exists
    BY <1>1, <1>2, <1>7
  <2> QED
    BY <1>6, <1>7, <2>1, <2>2 DEF Inv, Indices, s
<1>12. CopiesAgree'
  <2>1. ~s.outdated => s.cart = cart'
    BY <1>1, <1>2, <1>6 DEF Inv, CopiesAgree, r
  <2> QED
    BY <1>2, <1>3, <1>4, <2>1 DEF CopiesAgree, s
<1>13. CartIsTidy'
  BY <1>6, <1>9 DEF Inv, CartIsTidy
<1>14. AmountsAreSound'
  <2> SUFFICES ASSUME Sound'
               PROVE  /\ \A p \in Requests : request'[p].op = "put" => p = q
                      /\ cart'.amount = WorthOf(InCart)' + Price(s.item)
                      /\ \A n \in DOMAIN orders' : orders'[n].amount = orders'[n].worth
    BY <1>2 DEF AmountsAreSound, s
  <2>1. /\ ~s.outdated /\ \A p \in Requests : request'[p].op = "put" => p = q
        /\ history \cap {"overwritten", "died", "recounted"} = {}
    BY <1>2, <1>6 DEF Sound, s
  <2>2. \A p \in Requests : request[p].op # "put"
    BY <1>1, <1>3, <1>4, <2>1 DEF Same, r
  <2>3. Sound
    BY <2>1, <2>2 DEF Sound
  <2>4. /\ cart.amount = WorthOf(InCart)
        /\ \A n \in DOMAIN orders : orders[n].amount = orders[n].worth
    BY <2>2, <2>3 DEF Inv, AmountsAreSound
  <2>5. k \in InCart /\ r.item = item[k]
    BY <1>1, <1>2, <2>1 DEF Inv, CopiesAgree, r, k
  <2>6. Total(item) = Total(item') + Price(item[k])
    BY <1>1, <1>7, <1>8, <2>5, RemovedTotal
  <2>7. cart'.amount = WorthOf(InCart)' + Price(s.item)
    BY <1>2, <1>6, <1>8, <2>4, <2>5, <2>6
  <2> QED
    BY <1>6, <2>1, <2>4, <2>7
<1>15. ChargesAreKept'
  <2>1. \A p \in Requests :
          /\ request'[p].op = "charged" <=> request[p].op = "charged"
          /\ request[p].op = "charged" => /\ request'[p].payment = request[p].payment
                                          /\ request'[p].cart = request[p].cart
    BY <1>1, <1>2, <1>3, <1>4 DEF Same, s, r
  <2> QED
    BY <1>6, <2>1 DEF Inv, ChargesAreKept
<1>16. PaidItemsAreGone'
  BY <1>6, <1>9 DEF Inv, PaidItemsAreGone
<1>17. CustomersAreRead'
  BY <1>2, <1>3, <1>4, <1>6 DEF Inv, CustomersAreRead, Same, s
<1>18. CitiesAreCounted'
  BY <1>6, <1>9 DEF Inv, CitiesAreCounted
<1>19. CitiesArePaid'
  BY <1>6 DEF Inv, CitiesArePaid
<1> QED
  BY <1>10, <1>11, <1>12, <1>13, <1>14, <1>15, <1>16, <1>17, <1>18, <1>19 DEF Inv

(* The cart is put, as it was when the removal was asked for.              *)
LEMMA RemoveFromOrderKeepsInv ==
  ASSUME Inv, NEW q \in Requests, remove_from_order(q)
  PROVE  Inv'
<1> DEFINE r == request[q]
           rs == [request EXCEPT ![q] = Idle]
           total == Price(r.item)
<1>1. /\ cart \in Cart /\ request \in [Requests -> AnyRequest] /\ item \in Seq(Item)
      /\ r.op = "put" /\ r \in Removal /\ r.cart \in Cart /\ r.cart.exists /\ r.item \in Item
  BY RequestsAre DEF Inv, Types, Indices, remove_from_order, Removal
<1>2. /\ rs \in [Requests -> AnyRequest]
      /\ \A p \in Requests : rs[p] = request[p] \/ rs[p] = Idle
      /\ \A p \in Requests \ {q} : rs[p] = request[p]
      /\ \A p \in Requests : request[p].op = "charged" => rs[p] = request[p]
      /\ request' = Outdates(rs)
  BY <1>1 DEF remove_from_order, EndsWithWrite, AnyRequest
<1>3. /\ UNCHANGED <<item, months, customer, orders, stripe>>
      /\ history \subseteq history' /\ history' \subseteq Weaknesses
      /\ r.outdated => "overwritten" \in history'
  BY DEF remove_from_order, Shows, Inv, Types, Weaknesses
<1>4. cart' \in Cart /\ cart'.exists /\ cart'.amount = r.cart.amount - total
  <2>1. total \in Nat
    BY <1>1, PriceIs
  <2>2. WithVat(total) \in Int
    BY <2>1, StoreAssumption DEF WithVat
  <2>3. cart' = [r.cart EXCEPT !.amount = @ - total, !.total_amount = @ - WithVat(total)]
    BY DEF remove_from_order, Price
  <2> DEFINE old == r.cart
             vat == WithVat(total)
  <2>4. /\ cart' = [old EXCEPT !.amount = @ - total, !.total_amount = @ - vat]
        /\ old \in Cart /\ old.exists
    BY <1>1, <2>3
  <2> HIDE DEF total, old, vat
  <2>5. cart' \in Cart /\ cart'.exists /\ cart'.amount = old.amount - total
    <3>1. vat \in Int
      BY <2>2 DEF vat
    <3>2. cart' = [exists |-> old.exists, amount |-> old.amount - total,
                   total_amount |-> old.total_amount - vat]
      BY <2>4 DEF Cart
    <3>3. old.exists = TRUE /\ old.amount \in Int /\ old.total_amount \in Int
      BY <2>4 DEF Cart
    <3>4. old.amount - total \in Int /\ old.total_amount - vat \in Int
      BY <2>1, <3>1, <3>3
    <3> QED
      BY <3>2, <3>3, <3>4 DEF Cart
  <2> QED
    BY <2>5 DEF old
<1> HIDE DEF rs
<1>5. /\ request' \in [Requests -> AnyRequest]
      /\ CopiesAgree' /\ CustomersAreRead'
      /\ Sound' => \A p \in Requests : rs[p].op # "put" /\ request'[p].op # "put"
      /\ \A p \in Requests : Same(request'[p], rs[p])
      /\ \A p \in Requests :
           /\ request'[p].op \in {"delete", "put"} =>
                request'[p].i \in DOMAIN item' /\ request'[p].cart.exists
           /\ request'[p].op = "charged" => request'[p].items \subseteq DOMAIN item'
  BY <1>2, <1>3, WritingOutdates
<1>6. /\ ChargesAreKept'
      /\ \A m \in DOMAIN orders' : orders'[m].items \subseteq DOMAIN item'
      /\ \A p \in DOMAIN stripe' : stripe'[p].order <= Len(orders')
      /\ \A p \in Requests :
           request'[p].op = "charged" => request'[p].payment \in DOMAIN stripe'
  <2>1. \A p \in Requests : /\ request'[p].op = "charged" <=> rs[p].op = "charged"
                            /\ rs[p].op = "charged" => Same(request'[p], rs[p])
    BY <1>5 DEF Same
  <2> QED
    BY <1>2, <1>3, <2>1, ChargesStay
<1>7. InCart' = InCart /\ WorthOf(InCart)' = WorthOf(InCart)
  BY <1>3 DEF InCart, WorthOf
<1>8. Types'
  BY <1>3, <1>4, <1>5 DEF Inv, Types
<1>9. Indices'
  BY <1>5, <1>6 DEF Indices
<1>10. CartIsTidy'
  BY <1>3, <1>4, <1>7 DEF Inv, CartIsTidy
<1>11. AmountsAreSound'
  <2> SUFFICES ASSUME Sound'
               PROVE  /\ cart'.amount = WorthOf(InCart)'
                      /\ \A m \in DOMAIN orders' : orders'[m].amount = orders'[m].worth
    BY <1>5 DEF AmountsAreSound
  <2>1. \A p \in Requests : request[p].op = "put" => p = q
    BY <1>2, <1>5
  <2>2. /\ history' \cap {"overwritten", "died", "recounted"} = {}
        /\ ~r.outdated
    BY <1>3 DEF Sound
  <2>3. Sound
    BY <1>1, <1>3, <2>1, <2>2 DEF Sound
  <2>4. /\ cart.amount = WorthOf(InCart) + total
        /\ \A m \in DOMAIN orders : orders[m].amount = orders[m].worth
    BY <1>1, <2>3 DEF Inv, AmountsAreSound
  <2>5. r.cart = cart
    BY <1>1, <2>2 DEF Inv, CopiesAgree
  <2>6. WorthOf(InCart) \in Nat /\ total \in Nat
    BY <1>1, CartIs, ItemsAre, PriceIs
  <2> HIDE DEF r, total
  <2>7. cart'.amount = WorthOf(InCart)
    BY <1>4, <2>4, <2>5, <2>6
  <2> QED
    BY <1>3, <1>7, <2>4, <2>7
<1>12. PaidItemsAreGone'
  BY <1>3, <1>7 DEF Inv, PaidItemsAreGone
<1>13. CitiesAreCounted'
  BY <1>3, <1>7 DEF Inv, CitiesAreCounted
<1>14. CitiesArePaid'
  BY <1>3 DEF Inv, CitiesArePaid
<1> QED
  BY <1>5, <1>6, <1>8, <1>9, <1>10, <1>11, <1>12, <1>13, <1>14 DEF Inv

(* The items that are shown are put: the cart is no longer what it was.    *)
LEMMA GetOrderItemsKeepsInv ==
  ASSUME Inv, NEW q \in Requests, get_order_items(q)
  PROVE  Inv'
<1> DEFINE r == request[q]
           rs == [request EXCEPT ![q] = Idle]
<1>1. /\ request \in [Requests -> AnyRequest] /\ item \in Seq(Item)
      /\ r.op = "show" /\ r.count \in Nat
  BY RequestsAre DEF Inv, Types, get_order_items, Showing
<1>2. /\ rs \in [Requests -> AnyRequest]
      /\ \A p \in Requests : rs[p] = request[p] \/ rs[p] = Idle
      /\ \A p \in Requests : request[p].op = "charged" => rs[p] = request[p]
      /\ request' = Outdates(rs)
  BY <1>1 DEF get_order_items, EndsWithWrite, AnyRequest
<1>3. /\ UNCHANGED <<cart, months, customer, orders, stripe>>
      /\ history \subseteq history' /\ history' \subseteq Weaknesses
      /\ "recounted" \in history'
  BY DEF get_order_items, Shows, Inv, Types, Weaknesses
<1>4. item' \in Seq(Item) /\ DOMAIN item' = DOMAIN item
  <2>1. ASSUME NEW i \in DOMAIN item PROVE item'[i] \in Item
    <3>1. item[i] \in Item
      BY <1>1
    <3>2. item'[i] = item[i] \/ item'[i] = [item[i] EXCEPT !.exists = TRUE, !.count = r.count]
      BY DEF get_order_items
    <3> HIDE DEF r
    <3> QED
      BY <1>1, <3>1, <3>2 DEF Item
  <2>2. /\ DOMAIN item' = DOMAIN item
        /\ item' = [i \in DOMAIN item |-> item'[i]]
    BY DEF get_order_items
  <2>3. Len(item) \in Nat /\ DOMAIN item = 1 .. Len(item)
    BY <1>1
  <2> QED
    BY <2>1, <2>2, <2>3
<1> HIDE DEF rs
<1>5. /\ request' \in [Requests -> AnyRequest]
      /\ CopiesAgree' /\ CustomersAreRead'
      /\ Sound' => \A p \in Requests : rs[p].op # "put" /\ request'[p].op # "put"
      /\ \A p \in Requests : Same(request'[p], rs[p])
      /\ \A p \in Requests :
           /\ request'[p].op \in {"delete", "put"} =>
                request'[p].i \in DOMAIN item' /\ request'[p].cart.exists
           /\ request'[p].op = "charged" => request'[p].items \subseteq DOMAIN item'
  BY <1>2, <1>3, <1>4, WritingOutdates
<1>6. /\ ChargesAreKept'
      /\ \A m \in DOMAIN orders' : orders'[m].items \subseteq DOMAIN item'
      /\ \A p \in DOMAIN stripe' : stripe'[p].order <= Len(orders')
      /\ \A p \in Requests :
           request'[p].op = "charged" => request'[p].payment \in DOMAIN stripe'
  <2>1. \A p \in Requests : /\ request'[p].op = "charged" <=> rs[p].op = "charged"
                            /\ rs[p].op = "charged" => Same(request'[p], rs[p])
    BY <1>5 DEF Same
  <2> QED
    BY <1>2, <1>3, <1>4, <2>1, ChargesStay
<1>7. Types'
  BY <1>3, <1>4, <1>5 DEF Inv, Types
<1>8. Indices'
  BY <1>5, <1>6 DEF Indices
<1>9. CartIsTidy' /\ AmountsAreSound' /\ PaidItemsAreGone' /\ CitiesAreCounted'
  BY <1>3 DEF CartIsTidy, AmountsAreSound, Sound, PaidItemsAreGone, CitiesAreCounted
<1>10. CitiesArePaid'
  BY <1>3 DEF Inv, CitiesArePaid
<1> QED
  BY <1>5, <1>6, <1>7, <1>8, <1>9, <1>10 DEF Inv

-----------------------------------------------------------------------------
(* The cities of an order are new to the customer, and as many as its      *)
(* items that are no cards.                                                *)
LEMMA CitiesAreNew ==
  ASSUME Inv, history \cap {"late", "recounted"} = {}
  PROVE  /\ AddedCities \cap customer.app_ids = {}
         /\ Cardinality(customer.app_ids \cup AddedCities) =
              Cardinality(customer.app_ids) + NumberAdded
         /\ Cardinality(customer.app_ids) \in Nat
<1> DEFINE I == {i \in InCart : item[i].product # Cards}
           f == [i \in I |-> item[i].product]
<1>1. /\ IsFiniteSet(I) /\ AddedCities \subseteq Cities /\ customer.app_ids \subseteq Cities
  BY AddedAre DEF Inv, Types, Customer
<1>2. AddedCities \cap customer.app_ids = {}
  BY DEF Inv, CitiesAreCounted, AddedCities
<1>3. \A i, j \in InCart : item[i].product = item[j].product => i = j
  BY DEF Inv, CartIsTidy
<1>4. f \in Bijection(I, AddedCities)
  <2>1. f \in [I -> AddedCities] /\ \A i, j \in I : f[i] = f[j] => i = j
    BY <1>3 DEF AddedCities
  <2>2. \A c \in AddedCities : \E i \in I : f[i] = c
    BY DEF AddedCities
  <2> QED
    BY <2>1, <2>2, Fun_IsBij
<1>5. Cardinality(AddedCities) = NumberAdded
  <2>1. Cardinality(I) = Cardinality(AddedCities)
    BY <1>1, <1>4, FS_Bijection DEF ExistsBijection
  <2> QED
    BY <2>1 DEF NumberAdded
<1>6. /\ IsFiniteSet(AddedCities) /\ IsFiniteSet(customer.app_ids)
      /\ Cardinality({}) = 0
  BY <1>1, PricesAre, FS_Subset, FS_EmptySet
<1>7. /\ Cardinality(customer.app_ids \cup AddedCities) =
           Cardinality(customer.app_ids) + Cardinality(AddedCities)
             - Cardinality(customer.app_ids \cap AddedCities)
      /\ Cardinality(customer.app_ids) \in Nat /\ Cardinality(AddedCities) \in Nat
  BY <1>6, FS_Union, FS_CardinalityType
<1>8. Cardinality(customer.app_ids \cap AddedCities) = 0
  <2>1. customer.app_ids \cap AddedCities = {}
    BY <1>2
  <2> QED
    BY <1>6, <2>1
<1> QED
  BY <1>2, <1>5, <1>7, <1>8

(* A payment that commits: the order gets what the card was charged for,   *)
(* and the cart and its items are gone.                                    *)
LEMMA PayOrderKeepsInv ==
  ASSUME Inv, NEW q \in Requests, pay_order(q)
  PROVE  Inv'
<1> DEFINE r == request[q]
           rs == [request EXCEPT ![q] = Idle]
           pay == request[q].payment
           n == Len(orders) + 1
           new == [amount |-> r.cart.amount, worth |-> r.worth,
                   total_amount |-> r.cart.total_amount, items |-> r.items,
                   cities |-> r.cities]
<1>1. /\ item \in Seq(Item) /\ orders \in Seq(Order) /\ stripe \in Seq(Payment)
      /\ request \in [Requests -> AnyRequest] /\ r.op = "charged" /\ r \in Charged
      /\ ~r.outdated /\ pay \in DOMAIN stripe /\ r.items \subseteq DOMAIN item
  BY RequestsAre DEF Inv, Types, Indices, pay_order, Commits
<1>2. /\ stripe[pay] = [total_amount |-> r.cart.total_amount, order |-> 0]
      /\ \A p \in Requests \ {q} : request[p].op = "charged" => request[p].payment # pay
  BY <1>1 DEF Inv, ChargesAreKept
<1>3. /\ r.cart = cart /\ r.items = InCart /\ r.worth = WorthOf(InCart)
      /\ r.cities = AddedCities
      /\ "retried" \notin history =>
           r.customer.extra_apps_count = r.read.extra_apps_count + NumberAdded
  BY <1>1 DEF Inv, CopiesAgree
<1>4. "retried" \notin history => r.customer.app_ids = r.read.app_ids \cup r.cities
  BY <1>1 DEF Inv, CustomersAreRead
<1>5. new \in Order
  <2>1. stripe[pay] \in Payment
    BY <1>1
  <2>2. r.cart.total_amount \in Nat
    BY <1>2, <2>1 DEF Payment
  <2>3. r.cart.amount \in Int /\ r.items \in SUBSET Nat /\ r.worth \in Nat
        /\ r.cities \in SUBSET Cities
    BY <1>1 DEF Charged, Cart
  <2> QED
    BY <2>2, <2>3 DEF Order
<1>6. /\ orders' = Append(orders, new) /\ cart' = NoCart /\ customer' = r.customer
      /\ months' = months
      /\ item' = [i \in DOMAIN item |->
                    IF i \in r.items THEN [item[i] EXCEPT !.exists = FALSE] ELSE item[i]]
      /\ stripe' = [stripe EXCEPT ![pay].order = Len(orders')]
      /\ request' = Outdates(rs)
  BY DEF pay_order, EndsWithWrite
<1>7. /\ history \subseteq history' /\ history' \subseteq Weaknesses
      /\ customer = r.read \/ "stale" \in history'
  BY DEF pay_order, Shows, Inv, Types, Weaknesses
<1>8. /\ rs \in [Requests -> AnyRequest] /\ rs[q].op = "idle"
      /\ \A p \in Requests \ {q} : rs[p] = request[p]
      /\ \A p \in Requests : rs[p] = request[p] \/ rs[p] = Idle
  BY <1>1 DEF AnyRequest, Idle
<1>9. new.amount = r.cart.amount /\ new.worth = r.worth /\ new.items = r.items
      /\ new.cities = r.cities /\ new.total_amount = r.cart.total_amount
  OBVIOUS
<1> HIDE DEF r, rs, pay, new
<1>10. /\ orders' \in Seq(Order) /\ DOMAIN orders' = DOMAIN orders \cup {n}
       /\ n \notin DOMAIN orders /\ n \in Nat \ {0} /\ orders'[n] = new
       /\ \A m \in DOMAIN orders : orders'[m] = orders[m]
       /\ Len(orders') = n
  BY <1>1, <1>5, <1>6, AppendProperties
<1>11. \A m \in DOMAIN orders : m # 0 /\ m < n
  BY <1>1
<1> HIDE DEF n
<1>12. /\ stripe' \in Seq(Payment) /\ DOMAIN stripe' = DOMAIN stripe
       /\ stripe'[pay] = [total_amount |-> r.cart.total_amount, order |-> n]
       /\ \A p \in DOMAIN stripe \ {pay} : stripe'[p] = stripe[p]
  <2>1. stripe' = [stripe EXCEPT ![pay] = [stripe[pay] EXCEPT !.order = n]]
    BY <1>1, <1>6, <1>10
  <2>2. [stripe[pay] EXCEPT !.order = n] = [total_amount |-> r.cart.total_amount, order |-> n]
    BY <1>2
  <2>3. [total_amount |-> r.cart.total_amount, order |-> n] \in Payment
    <3>1. r.cart.total_amount \in Nat
      BY <1>5, <1>9 DEF Order
    <3> QED
      BY <1>10, <3>1 DEF Payment
  <2> QED
    BY <1>1, <2>1, <2>2, <2>3, ExceptSeq
<1>13. item' \in Seq(Item) /\ DOMAIN item' = DOMAIN item /\ InCart' = {}
  <2>1. ASSUME NEW i \in DOMAIN item
        PROVE  item'[i] \in Item /\ ~item'[i].exists
    <3>1. item[i] \in Item
      BY <1>1
    <3>2. CASE i \in r.items
      <4>1. item'[i] = [item[i] EXCEPT !.exists = FALSE]
        BY <1>6, <3>2
      <4> QED
        BY <3>1, <4>1 DEF Item
    <3>3. CASE i \notin r.items
      <4>1. item'[i] = item[i] /\ ~item[i].exists
        BY <1>3, <1>6, <3>3 DEF InCart
      <4> QED
        BY <3>1, <4>1
    <3> QED
      BY <3>2, <3>3
  <2>2. DOMAIN item' = DOMAIN item /\ item' = [i \in DOMAIN item |-> item'[i]]
    BY <1>6
  <2>3. Len(item) \in Nat /\ DOMAIN item = 1 .. Len(item)
    BY <1>1
  <2>4. item' \in Seq(Item)
    BY <2>1, <2>2, <2>3
  <2> QED
    BY <2>1, <2>2, <2>4 DEF InCart
<1>14. WorthOf(InCart)' = 0
  <2>1. Present(item') = {}
    BY <1>13 DEF InCart, Present
  <2>2. WorthOf(InCart)' = Total(item')
    BY <1>13, <2>1 DEF WorthOf, Total, Weights, Sum
  <2> QED
    BY <2>1, <2>2, EmptyTotal
<1>15. /\ request' \in [Requests -> AnyRequest]
       /\ CopiesAgree' /\ CustomersAreRead'
       /\ Sound' => \A p \in Requests : rs[p].op # "put" /\ request'[p].op # "put"
       /\ \A p \in Requests : Same(request'[p], rs[p])
       /\ \A p \in Requests :
            /\ request'[p].op \in {"delete", "put"} =>
                 request'[p].i \in DOMAIN item' /\ request'[p].cart.exists
            /\ request'[p].op = "charged" => request'[p].items \subseteq DOMAIN item'
  BY <1>6, <1>7, <1>8, <1>13, WritingOutdates
<1>16. \A p \in Requests :
         request'[p].op = "charged" =>
           /\ p # q /\ request[p].op = "charged" /\ request'[p].payment = request[p].payment
           /\ request'[p].cart = request[p].cart
  BY <1>8, <1>15 DEF Same
<1>17. \A p \in Requests :
         p # q /\ request[p].op = "charged" =>
           request'[p].op = "charged" /\ request'[p].payment = request[p].payment
  BY <1>8, <1>15 DEF Same
<1>18. Types'
  <2>1. cart' \in Cart /\ customer' \in Customer
    BY <1>1, <1>6 DEF NoCart, Cart, Charged
  <2> QED
    BY <1>6, <1>7, <1>10, <1>12, <1>13, <1>15, <2>1 DEF Inv, Types
<1>19. Indices'
  <2>1. \A m \in DOMAIN orders' : orders'[m].items \subseteq DOMAIN item'
    BY <1>1, <1>9, <1>10, <1>13 DEF Inv, Indices
  <2>2. \A p \in DOMAIN stripe' : stripe'[p].order <= Len(orders')
    <3>1. \A p \in DOMAIN stripe : stripe[p].order <= Len(orders) /\ stripe[p].order \in Nat
      <4>1. \A p \in DOMAIN stripe : stripe[p] \in Payment
        BY <1>1
      <4> QED
        BY <4>1 DEF Inv, Indices, Payment
    <3>2. \A k \in Nat : k <= Len(orders) => k <= n
      BY <1>1 DEF n
    <3>3. stripe'[pay].order <= n
      BY <1>10, <1>12
    <3>4. \A p \in DOMAIN stripe \ {pay} : stripe'[p].order <= n
      BY <1>12, <3>1, <3>2
    <3> QED
      BY <1>10, <1>12, <3>3, <3>4
  <2>3. \A p \in Requests :
          request'[p].op = "charged" => request'[p].payment \in DOMAIN stripe'
    BY <1>12, <1>16 DEF Inv, Indices
  <2> QED
    BY <1>15, <2>1, <2>2, <2>3 DEF Indices
<1>20. CartIsTidy'
  BY <1>13 DEF CartIsTidy
<1>21. AmountsAreSound'
  <2> SUFFICES ASSUME Sound'
               PROVE  /\ cart'.amount = WorthOf(InCart)'
                      /\ \A m \in DOMAIN orders' : orders'[m].amount = orders'[m].worth
    BY <1>15 DEF AmountsAreSound
  <2>1. \A p \in Requests : request[p].op # "put"
    BY <1>1, <1>8, <1>15 DEF r
  <2>2. Sound
    BY <1>7, <2>1 DEF Sound
  <2>3. /\ cart.amount = WorthOf(InCart)
        /\ \A m \in DOMAIN orders : orders[m].amount = orders[m].worth
    BY <2>1, <2>2 DEF Inv, AmountsAreSound
  <2>4. cart'.amount = 0
    BY <1>6 DEF NoCart
  <2> QED
    BY <1>3, <1>9, <1>10, <1>14, <2>3, <2>4
<1>22. ChargesAreKept'
  <2>1. ASSUME NEW p \in Requests, request'[p].op = "charged"
        PROVE  /\ stripe'[request'[p].payment] =
                    [total_amount |-> request'[p].cart.total_amount, order |-> 0]
               /\ \A o \in Requests :
                    request'[o].op = "charged" /\ request'[o].payment = request'[p].payment
                      => o = p
    <3>1. /\ p # q /\ request[p].op = "charged" /\ request'[p].payment = request[p].payment
          /\ request'[p].cart = request[p].cart
      BY <1>16, <2>1
    <3>2. /\ stripe[request[p].payment] =
               [total_amount |-> request[p].cart.total_amount, order |-> 0]
          /\ \A o \in Requests :
               request[o].op = "charged" /\ request[o].payment = request[p].payment => o = p
          /\ request[p].payment \in DOMAIN stripe
      BY <3>1 DEF Inv, ChargesAreKept, Indices
    <3>3. request[p].payment # pay
      BY <1>2, <3>1
    <3> QED
      BY <1>12, <1>16, <3>1, <3>2, <3>3
  <2>2. ASSUME NEW m \in DOMAIN orders'
        PROVE  \E p \in DOMAIN stripe' :
                 /\ stripe'[p] = [total_amount |-> orders'[m].total_amount, order |-> m]
                 /\ \A other \in DOMAIN stripe' \ {p} : stripe'[other].order # m
    <3>1. CASE m = n
      <4>1. stripe'[pay] = [total_amount |-> orders'[m].total_amount, order |-> m]
        BY <1>9, <1>10, <1>12, <3>1
      <4>2. ASSUME NEW other \in DOMAIN stripe \ {pay}
            PROVE  stripe'[other].order # m
        <5>1. stripe[other].order <= Len(orders) /\ stripe[other].order \in Nat
          <6>1. stripe[other] \in Payment
            BY <1>1
          <6> QED
            BY <6>1 DEF Inv, Indices, Payment
        <5>2. Len(orders) \in Nat /\ n = Len(orders) + 1
          BY <1>1 DEF n
        <5> QED
          BY <1>12, <3>1, <5>1, <5>2
      <4> QED
        BY <1>1, <1>12, <4>1, <4>2
    <3>2. CASE m \in DOMAIN orders
      <4>1. PICK p \in DOMAIN stripe :
                 /\ stripe[p] = [total_amount |-> orders[m].total_amount, order |-> m]
                 /\ \A other \in DOMAIN stripe \ {p} : stripe[other].order # m
        BY <3>2 DEF Inv, ChargesAreKept
      <4>2. m # 0 /\ m # n
        BY <1>10, <3>2, <1>11
      <4>3. p # pay
        BY <1>2, <4>1, <4>2
      <4>4. stripe'[p] = [total_amount |-> orders'[m].total_amount, order |-> m]
        BY <1>10, <1>12, <3>2, <4>1, <4>3
      <4>5. \A other \in DOMAIN stripe' \ {p} : stripe'[other].order # m
        BY <1>12, <4>1, <4>2
      <4> QED
        BY <1>12, <4>4, <4>5
    <3> QED
      BY <1>10, <3>1, <3>2
  <2>3. ASSUME NEW p \in DOMAIN stripe'
        PROVE  \/ stripe'[p].order # 0
               \/ "retried" \in history'
               \/ \E o \in Requests : request'[o].op = "charged" /\ request'[o].payment = p
    <3>1. CASE p = pay
      BY <1>10, <1>12, <3>1
    <3>2. CASE p # pay
      <4>1. stripe'[p] = stripe[p] /\ p \in DOMAIN stripe
        BY <1>12, <3>2
      <4>2. CASE \E o \in Requests : request[o].op = "charged" /\ request[o].payment = p
        <5>1. PICK o \in Requests : request[o].op = "charged" /\ request[o].payment = p
          BY <4>2
        <5>2. o # q
          BY <3>2, <5>1 DEF pay
        <5> QED
          BY <1>17, <5>1, <5>2
      <4> QED
        BY <1>7, <4>1, <4>2 DEF Inv, ChargesAreKept
    <3> QED
      BY <3>1, <3>2
  <2> QED
    BY <2>1, <2>2, <2>3 DEF ChargesAreKept
<1>23. PaidItemsAreGone'
  <2> SUFFICES ASSUME "recounted" \notin history, NEW m \in DOMAIN orders',
                      NEW o \in DOMAIN orders', m # o
               PROVE  orders'[m].items \cap orders'[o].items = {}
    BY <1>7, <1>13 DEF PaidItemsAreGone
  <2>1. \A a \in DOMAIN orders : orders[a].items \cap new.items = {}
    BY <1>3, <1>9 DEF Inv, PaidItemsAreGone
  <2>2. CASE m \in DOMAIN orders /\ o \in DOMAIN orders
    BY <1>10, <2>2 DEF Inv, PaidItemsAreGone
  <2>3. CASE m = n \/ o = n
    BY <1>10, <2>1, <2>3
  <2> QED
    BY <1>10, <2>2, <2>3
<1>24. CitiesAreCounted'
  <2> SUFFICES ASSUME history' \cap {"late", "recounted"} = {},
                      history' \cap {"stale", "retried"} = {}
               PROVE  customer'.extra_apps_count = Cardinality(customer'.app_ids)
    BY <1>13 DEF CitiesAreCounted
  <2>1. /\ history \cap {"late", "recounted"} = {} /\ history \cap {"stale", "retried"} = {}
        /\ customer = r.read
    BY <1>7
  <2>2. customer.extra_apps_count = Cardinality(customer.app_ids)
    BY <2>1 DEF Inv, CitiesAreCounted
  <2>3. /\ customer'.app_ids = customer.app_ids \cup AddedCities
        /\ customer'.extra_apps_count = customer.extra_apps_count + NumberAdded
    BY <1>3, <1>4, <1>6, <2>1
  <2>4. Cardinality(customer.app_ids \cup AddedCities) =
          Cardinality(customer.app_ids) + NumberAdded
    BY <2>1, CitiesAreNew
  <2> QED
    BY <2>2, <2>3, <2>4
<1>25. CitiesArePaid'
  <2> SUFFICES ASSUME history' \cap {"stale", "retried"} = {}
               PROVE  customer'.app_ids = UNION {orders'[m].cities : m \in DOMAIN orders'}
    BY DEF CitiesArePaid
  <2>1. customer = r.read /\ history \cap {"stale", "retried"} = {}
    BY <1>7
  <2>2. customer'.app_ids = customer.app_ids \cup new.cities
    BY <1>4, <1>6, <1>9, <2>1
  <2>3. customer.app_ids = UNION {orders[m].cities : m \in DOMAIN orders}
    BY <2>1 DEF Inv, CitiesArePaid
  <2>4. UNION {orders'[m].cities : m \in DOMAIN orders'} =
          (UNION {orders[m].cities : m \in DOMAIN orders}) \cup new.cities
    BY <1>10
  <2> QED
    BY <2>2, <2>3, <2>4
<1> QED
  BY <1>15, <1>18, <1>19, <1>20, <1>21, <1>22, <1>23, <1>24, <1>25 DEF Inv

-----------------------------------------------------------------------------
LEMMA NextKeepsInv ==
  Inv /\ [Next]_vars => Inv'
<1> SUFFICES ASSUME Inv, [Next]_vars PROVE Inv'
  OBVIOUS
<1>1. CASE \E n \in possible_counts : add_cards(n)
  BY <1>1, AddCardsKeepsInv
<1>2. CASE MonthPasses
  BY <1>2, MonthPassesKeepsInv
<1>3. ASSUME NEW q \in Requests, NEW c \in Cities, ask_city(q, c) PROVE Inv'
  <2> DEFINE r == [op |-> "add", product |-> c]
  <2>1. r \in AnyRequest /\ r.op = "add"
    BY DEF AnyRequest, Adding
  <2>2. Asks(q, r) /\ UNCHANGED <<cart, item, months, customer, orders, stripe, history>>
    BY <1>3 DEF ask_city
  <2> HIDE DEF r
  <2> QED
    BY <2>1, <2>2, AskingKeepsInv
<1>4. ASSUME NEW q \in Requests, NEW i \in DOMAIN item, ask_remove(q, i) PROVE Inv'
  <2> DEFINE r == [op |-> "delete", i |-> i, item |-> item[i], cart |-> cart,
                   outdated |-> FALSE]
  <2>1. i \in Nat /\ item[i] \in Item /\ cart \in Cart
    BY DEF Inv, Types
  <2>2. r \in AnyRequest /\ r.op = "delete" /\ r.i = i /\ r.item = item[i] /\ r.cart = cart
    BY <2>1 DEF AnyRequest, Removal
  <2>3. /\ Asks(q, r) /\ UNCHANGED <<cart, item, months, customer, orders, stripe, history>>
        /\ i \in InCart /\ cart.exists
    BY <1>4 DEF ask_remove
  <2> HIDE DEF r
  <2> QED
    BY <2>2, <2>3, AskingKeepsInv
<1>5. ASSUME NEW q \in Requests, add_city(q) PROVE Inv'
  BY <1>5, AddCityKeepsInv
<1>6. ASSUME NEW q \in Requests, remove_delete(q) PROVE Inv'
  BY <1>6, RemoveDeleteKeepsInv
<1>7. ASSUME NEW q \in Requests, remove_from_order(q) PROVE Inv'
  BY <1>7, RemoveFromOrderKeepsInv
<1>8. ASSUME NEW q \in Requests, ask_items(q) PROVE Inv'
  <2> DEFINE I == {i \in InCart : Outdated(i)}
             r == [op |-> "show", items |-> I, count |-> months]
  <2>1. I \in SUBSET Nat /\ months \in Nat
    BY DEF Inv, Types, InCart
  <2>2. r \in AnyRequest /\ r.op = "show"
    BY <2>1 DEF AnyRequest, Showing
  <2>3. Asks(q, r) /\ UNCHANGED <<cart, item, months, customer, orders, stripe, history>>
    BY <1>8 DEF ask_items
  <2> HIDE DEF r
  <2> QED
    BY <2>2, <2>3, AskingKeepsInv
<1>9. ASSUME NEW q \in Requests, get_order_items(q) PROVE Inv'
  BY <1>9, GetOrderItemsKeepsInv
<1>10. ASSUME NEW q \in Requests, ask_pay(q) PROVE Inv'
  <2> DEFINE r == [op |-> "pay", customer |-> customer, read |-> customer]
  <2>1. customer \in Customer
    BY DEF Inv, Types
  <2>2. r \in AnyRequest /\ r.op = "pay" /\ r.customer = r.read
    BY <2>1 DEF AnyRequest, Paying
  <2>3. Asks(q, r) /\ UNCHANGED <<cart, item, months, customer, orders, stripe, history>>
    BY <1>10 DEF ask_pay
  <2> HIDE DEF r
  <2> QED
    BY <2>2, <2>3, AskingKeepsInv
<1>11. ASSUME NEW q \in Requests, get_payed(q) PROVE Inv'
  <2>1. /\ request[q].op = "pay" /\ Charges(q) /\ history' = history
        /\ UNCHANGED <<cart, item, months, customer, orders>>
    BY <1>11 DEF get_payed
  <2> QED
    BY <2>1, ChargingKeepsInv
<1>12. ASSUME NEW q \in Requests, pay_order(q) PROVE Inv'
  BY <1>12, PayOrderKeepsInv
<1>13. ASSUME NEW q \in Requests, pay_again(q) PROVE Inv'
  <2>1. /\ request[q].op = "charged" /\ history' = history \cup {"retried"}
        /\ UNCHANGED <<cart, item, months, customer, orders>>
    BY <1>13 DEF pay_again, Shows
  <2>2. CASE Charges(q)
    BY <2>1, <2>2, ChargingKeepsInv
  <2>3. CASE Ends(q) /\ UNCHANGED stripe
    <3>1. history' \subseteq Weaknesses
      BY <2>1 DEF Inv, Types, Weaknesses
    <3> QED
      BY <2>1, <2>3, <3>1, EndingKeepsInv
  <2> QED
    BY <1>13, <2>2, <2>3 DEF pay_again
<1>14. ASSUME NEW q \in Requests, Fails(q) PROVE Inv'
  <2>1. Ends(q) /\ UNCHANGED <<cart, item, months, customer, orders, stripe>>
    BY <1>14 DEF Fails
  <2>2. /\ history \subseteq history' /\ history' \subseteq Weaknesses
        /\ request[q].op = "put" => "died" \in history'
        /\ request[q].op = "charged" => "retried" \in history'
    BY <1>14 DEF Fails, Shows, Inv, Types, Weaknesses
  <2> QED
    BY <2>1, <2>2, EndingKeepsInv
<1>15. CASE UNCHANGED vars
  <2> USE <1>15 DEF vars
  <2>1. InCart' = InCart /\ WorthOf(InCart)' = WorthOf(InCart)
        /\ AddedCities' = AddedCities /\ NumberAdded' = NumberAdded
    BY DEF InCart, WorthOf, AddedCities, NumberAdded
  <2>2. Types' /\ Indices' /\ CartIsTidy' /\ ChargesAreKept' /\ PaidItemsAreGone'
    BY <2>1 DEF Inv, Types, Indices, CartIsTidy, ChargesAreKept, PaidItemsAreGone
  <2>3. CopiesAgree'
    BY <2>1 DEF Inv, CopiesAgree
  <2>4. AmountsAreSound' /\ CustomersAreRead' /\ CitiesAreCounted' /\ CitiesArePaid'
    BY <2>1 DEF Inv, AmountsAreSound, Sound, CustomersAreRead, CitiesAreCounted,
                CitiesArePaid, Price
  <2> QED
    BY <2>2, <2>3, <2>4 DEF Inv
<1> QED
  BY <1>1, <1>2, <1>3, <1>4, <1>5, <1>6, <1>7, <1>8, <1>9, <1>10, <1>11, <1>12, <1>13,
     <1>14, <1>15 DEF Next

(* The inductive invariant of the store.                                   *)
LEMMA InvHolds == Spec => []Inv
  BY InitInv, NextKeepsInv, PTL DEF Spec

(* The amount of the cart, and of every order, is what its items cost,     *)
(* however requests interleave, unless a removal raced with another change *)
(* or was not finished, or the months of a city were set after they were   *)
(* added up.                                                               *)
THEOREM TheAmountsAddUp == Spec => []AmountsAddUp
<1>1. Inv => AmountsAddUp
  BY DEF Inv, AmountsAreSound, Sound, AmountsAddUp
<1> QED
  BY <1>1, InvHolds, PTL

(* An order is paid, with what it says and once, and nothing is ordered    *)
(* twice unless an item that was paid came back.                           *)
THEOREM EveryOrderIsPaidOnce == Spec => []OrdersArePaidOnce
<1>1. Inv => OrdersArePaidOnce
  <2> SUFFICES ASSUME Inv PROVE OrdersArePaidOnce
    OBVIOUS
  <2>1. \A m, n \in DOMAIN orders :
          m # n /\ orders[m].items \cap orders[n].items # {} => "recounted" \in history
    BY DEF Inv, PaidItemsAreGone
  <2> QED
    BY <2>1 DEF Inv, ChargesAreKept, OrdersArePaidOnce
<1> QED
  BY <1>1, InvHolds, PTL

(* The cities that were paid for are those of the customer, and counted    *)
(* once, unless a payment used an old customer or ran again, or a city was *)
(* added late or came back.                                                *)
THEOREM ThePaidCitiesAreRecorded == Spec => []CitiesAreRecorded
<1>1. Inv => CitiesAreRecorded
  BY DEF Inv, CitiesAreCounted, CitiesArePaid, CitiesAreRecorded
<1> QED
  BY <1>1, InvHolds, PTL

-----------------------------------------------------------------------------
(* The VAT of a sum is the sum of the VATs where every price has a VAT of  *)
(* whole cents, as a price in whole euros has and a box of cards of 17.50  *)
(* has not.  Then the total amount of the cart, and of every old copy, is  *)
(* its amount with the VAT of it.                                          *)

WholeVat == \A product \in Products : \E k \in Nat : price[product] * vat_pct = 100 * k

HasWholeVat(c) ==
  \E k \in Int : c.amount * vat_pct = 100 * k /\ c.total_amount = c.amount + k

VatInv ==
  /\ HasWholeVat(cart)
  /\ \A q \in Requests : request[q].op \in {"delete", "put"} => HasWholeVat(request[q].cart)

LEMMA VatIs == vat_pct \in Nat
  BY StoreAssumption

LEMMA SumsTimes ==
  ASSUME NEW a \in Int, NEW b \in Int, NEW v \in Nat
  PROVE  (a + b) * v = a * v + b * v /\ (a - b) * v = a * v - b * v
  OBVIOUS

LEMMA TimesTimes ==
  ASSUME NEW n \in Nat, NEW a \in Nat, NEW v \in Nat, NEW k \in Nat, a * v = 100 * k
  PROVE  (n * a) * v = 100 * (n * k)
<1>1. (n * a) * v = n * (a * v)
  OBVIOUS
<1>2. n * (100 * k) = 100 * (n * k)
  OBVIOUS
<1> QED
  BY <1>1, <1>2

LEMMA WholeVatOf ==
  ASSUME WholeVat, NEW product \in Products, NEW n \in Nat,
         NEW total, total = n * price[product]
  PROVE  /\ total \in Nat
         /\ \E k \in Nat : total * vat_pct = 100 * k /\ WithVat(total) = total + k
<1>1. PICK k \in Nat : price[product] * vat_pct = 100 * k
  BY DEF WholeVat
<1>2. price[product] \in Nat /\ total \in Nat /\ n * k \in Nat
  BY PricesAre, TimesAre
<1>3. total * vat_pct = 100 * (n * k)
  BY <1>1, <1>2, VatIs, TimesTimes
<1> DEFINE m == n * k
<1>4. (100 * m) \div 100 = m
  <2>1. m \in Nat
    BY <1>2
  <2> HIDE DEF m
  <2> QED
    BY <2>1
<1>5. WithVat(total) = total + m
  BY <1>3, <1>4 DEF WithVat
<1> QED
  BY <1>2, <1>3, <1>5

(* What is added or taken off keeps the VAT whole.                         *)
LEMMA VatStaysWhole ==
  ASSUME NEW c \in Cart, HasWholeVat(c), NEW t \in Nat, NEW k \in Nat,
         t * vat_pct = 100 * k, NEW d \in Cart,
         \/ d.amount = c.amount + t /\ d.total_amount = c.total_amount + (t + k)
         \/ d.amount = c.amount - t /\ d.total_amount = c.total_amount - (t + k)
  PROVE  HasWholeVat(d)
<1>1. PICK j \in Int : c.amount * vat_pct = 100 * j /\ c.total_amount = c.amount + j
  BY DEF HasWholeVat
<1>2. c.amount \in Int
  BY DEF Cart
<1>3. /\ (c.amount + t) * vat_pct = 100 * j + 100 * k
      /\ (c.amount - t) * vat_pct = 100 * j - 100 * k
  BY <1>1, <1>2, VatIs, SumsTimes
<1>4. CASE d.amount = c.amount + t /\ d.total_amount = c.total_amount + (t + k)
  <2>1. d.amount * vat_pct = 100 * (j + k)
    BY <1>3, <1>4
  <2>2. d.total_amount = d.amount + (j + k)
    BY <1>1, <1>2, <1>4
  <2> QED
    BY <2>1, <2>2 DEF HasWholeVat
<1>5. CASE d.amount = c.amount - t /\ d.total_amount = c.total_amount - (t + k)
  <2>1. d.amount * vat_pct = 100 * (j - k)
    BY <1>3, <1>5
  <2>2. d.total_amount = d.amount + (j - k)
    BY <1>1, <1>2, <1>5
  <2> QED
    BY <2>1, <2>2 DEF HasWholeVat
<1> QED
  BY <1>4, <1>5

(* A copy of the cart that a removal holds was read from it.               *)
CopyOf(q) ==
  request'[q].op \in {"delete", "put"} =>
    \/ request'[q].cart = cart
    \/ request[q].op \in {"delete", "put"} /\ request'[q].cart = request[q].cart

LEMMA OutdatedCopies ==
  ASSUME NEW rs \in [Requests -> AnyRequest], request' = Outdates(rs),
         \A p \in Requests : rs[p] = request[p] \/ rs[p].op \notin {"delete", "put"}
  PROVE  \A p \in Requests : CopyOf(p)
<1>1. \A p \in Requests : Same(request'[p], rs[p])
  BY OutdatesIs
<1> SUFFICES ASSUME NEW p \in Requests, request'[p].op \in {"delete", "put"}
             PROVE  CopyOf(p)
  BY DEF CopyOf
<1>2. rs[p].op \in {"delete", "put"} /\ request'[p].cart = rs[p].cart
  BY <1>1 DEF Same
<1> QED
  BY <1>2 DEF CopyOf

LEMMA CopiesAreRead ==
  ASSUME Inv, Next
  PROVE  \A p \in Requests : CopyOf(p)
<1>1. request \in [Requests -> AnyRequest]
  BY DEF Inv, Types
<1>2. Idle \in AnyRequest /\ Idle.op = "idle"
  BY DEF AnyRequest, Idle
<1>3. ASSUME NEW q \in Requests, NEW r, request' = [request EXCEPT ![q] = r],
             r.op \in {"delete", "put"} => r.cart = cart
      PROVE  \A p \in Requests : CopyOf(p)
  BY <1>1, <1>3 DEF CopyOf
<1>4. ASSUME NEW q \in Requests, EndsWithWrite(q)
      PROVE  \A p \in Requests : CopyOf(p)
  <2> DEFINE rs == [request EXCEPT ![q] = Idle]
  <2>1. rs \in [Requests -> AnyRequest] /\ request' = Outdates(rs)
    BY <1>1, <1>2, <1>4 DEF EndsWithWrite
  <2>2. \A p \in Requests : rs[p] = request[p] \/ rs[p].op \notin {"delete", "put"}
    BY <1>1, <1>2
  <2> HIDE DEF rs
  <2> QED
    BY <2>1, <2>2, OutdatedCopies
<1>5. ASSUME NEW q \in Requests, Ends(q)
      PROVE  \A p \in Requests : CopyOf(p)
  BY <1>2, <1>3, <1>5 DEF Ends
<1>6. CASE \E n \in possible_counts : add_cards(n)
  BY <1>1, <1>6, OutdatedCopies DEF add_cards
<1>7. CASE MonthPasses
  BY <1>7 DEF MonthPasses, CopyOf
<1>8. ASSUME NEW q \in Requests, NEW c \in Cities, ask_city(q, c)
      PROVE  \A p \in Requests : CopyOf(p)
  BY <1>3, <1>8 DEF ask_city, Asks
<1>9. ASSUME NEW q \in Requests, NEW i \in DOMAIN item, ask_remove(q, i)
      PROVE  \A p \in Requests : CopyOf(p)
  BY <1>3, <1>9 DEF ask_remove, Asks
<1>10. ASSUME NEW q \in Requests, remove_delete(q)
       PROVE  \A p \in Requests : CopyOf(p)
  <2> DEFINE out == Outdates(request)
             r == [request[q] EXCEPT !.op = "put"]
  <2>1. request' = [out EXCEPT ![q] = r] /\ request[q].op = "delete" /\ request[q] \in Removal
    BY <1>1, <1>10, RequestsAre DEF remove_delete
  <2>2. r.cart = request[q].cart
    BY <2>1 DEF Removal
  <2>3. /\ out \in [Requests -> AnyRequest]
        /\ \A p \in Requests : Same(out[p], request[p])
    BY <1>1, OutdatesIs
  <2> HIDE DEF out, r
  <2> QED
    BY <2>1, <2>2, <2>3 DEF CopyOf, Same
<1>11. ASSUME NEW q \in Requests, ask_items(q) \/ ask_pay(q)
       PROVE  \A p \in Requests : CopyOf(p)
  <2>1. CASE ask_items(q)
    BY <1>3, <2>1 DEF ask_items, Asks
  <2>2. CASE ask_pay(q)
    BY <1>3, <2>2 DEF ask_pay, Asks
  <2> QED
    BY <1>11, <2>1, <2>2
<1>12. ASSUME NEW q \in Requests, Charges(q)
       PROVE  \A p \in Requests : CopyOf(p)
  BY <1>3, <1>12 DEF Charges
<1> QED
  BY <1>4, <1>5, <1>6, <1>7, <1>8, <1>9, <1>10, <1>11, <1>12
     DEF Next, add_city, remove_from_order, get_order_items, get_payed, pay_order, pay_again,
         Fails

LEMMA AddsUpWhole ==
  ASSUME WholeVat, Inv, HasWholeVat(cart), NEW product \in Products, NEW n \in Nat,
         NEW before, AddsUp(n * price[product], before)
  PROVE  HasWholeVat(cart)'
<1> DEFINE t == n * price[product]
<1>1. PICK k \in Nat : t * vat_pct = 100 * k /\ WithVat(t) = t + k
  BY WholeVatOf
<1>2. t \in Nat /\ cart \in Cart
  BY WholeVatOf DEF Inv, Types
<1>3. cart' = [exists |-> TRUE, amount |-> cart.amount + t,
               total_amount |-> cart.total_amount + (t + k)]
  BY <1>1 DEF AddsUp
<1> HIDE DEF t
<1>4. cart' \in Cart
  BY <1>2, <1>3 DEF Cart
<1>5. cart'.amount = cart.amount + t /\ cart'.total_amount = cart.total_amount + (t + k)
  BY <1>3
<1>6. HasWholeVat(cart')
  BY <1>1, <1>2, <1>4, <1>5, VatStaysWhole
<1> QED
  BY <1>6 DEF HasWholeVat

LEMMA RemoveWhole ==
  ASSUME WholeVat, Inv, VatInv, NEW q \in Requests, remove_from_order(q)
  PROVE  HasWholeVat(cart)'
<1> DEFINE r == request[q]
           i == r.item
           t == i.count * price[i.product]
           c == r.cart
<1>1. r.op = "put" /\ c \in Cart /\ i \in Item /\ HasWholeVat(c)
  BY RequestsAre DEF Inv, Types, remove_from_order, Removal, VatInv
<1>2. i.count \in Nat /\ i.product \in Products
  BY <1>1 DEF Item
<1>3. t \in Nat /\ \E k \in Nat : t * vat_pct = 100 * k /\ WithVat(t) = t + k
  BY <1>2, WholeVatOf
<1>4. PICK k \in Nat : t * vat_pct = 100 * k /\ WithVat(t) = t + k
  BY <1>3
<1>5. cart' = [c EXCEPT !.amount = @ - t, !.total_amount = @ - (t + k)]
  BY <1>4 DEF remove_from_order
<1> HIDE DEF t, c, i, r
<1>6. /\ cart' \in Cart /\ cart'.amount = c.amount - t
      /\ cart'.total_amount = c.total_amount - (t + k)
  <2> DEFINE a == c.amount - t
             b == c.total_amount - (t + k)
  <2>1. a \in Int /\ b \in Int
    BY <1>1, <1>3 DEF Cart
  <2>2. cart' = [c EXCEPT !.amount = a, !.total_amount = b]
    BY <1>5
  <2> HIDE DEF a, b
  <2>3. cart' \in Cart /\ cart'.amount = a /\ cart'.total_amount = b
    BY <1>1, <2>1, <2>2 DEF Cart
  <2> QED
    BY <2>3 DEF a, b
<1>7. HasWholeVat(cart')
  BY <1>1, <1>3, <1>4, <1>6, VatStaysWhole
<1> QED
  BY <1>7 DEF HasWholeVat

LEMMA EmptyIsWhole == HasWholeVat(NoCart)
<1>1. 0 * vat_pct = 100 * 0
  BY VatIs
<1> QED
  BY <1>1 DEF HasWholeVat, NoCart

LEMMA NextKeepsVat ==
  ASSUME WholeVat, Inv, VatInv, Next
  PROVE  VatInv'
<1>1. HasWholeVat(cart)'
  <2>1. CASE \E n \in possible_counts : add_cards(n)
    <3>1. PICK n \in possible_counts : add_cards(n)
      BY <2>1
    <3>2. \E before : AddsUp(n * price[Cards], before)
      BY <3>1 DEF add_cards
    <3> QED
      BY <3>2, PricesAre, AddsUpWhole DEF VatInv, Products
  <2>2. ASSUME NEW q \in Requests, add_city(q) PROVE HasWholeVat(cart)'
    <3>1. request[q].product \in Products /\ months \in Nat
      BY <2>2, RequestsAre DEF add_city, Inv, Types, Adding, Products
    <3>2. AddsUp(months * price[request[q].product], 0)
      BY <2>2 DEF add_city
    <3> QED
      BY <3>1, <3>2, AddsUpWhole DEF VatInv
  <2>3. CASE cart' = cart \/ cart' = NoCart
    BY <2>3, EmptyIsWhole DEF VatInv, HasWholeVat
  <2> QED
    BY <2>1, <2>2, <2>3, RemoveWhole
       DEF Next, MonthPasses, ask_city, ask_remove, remove_delete, ask_items,
           get_order_items, ask_pay, get_payed, pay_order, pay_again, Fails
<1>2. ASSUME NEW q \in Requests, request'[q].op \in {"delete", "put"}
      PROVE  HasWholeVat(request'[q].cart)
  BY <1>2, CopiesAreRead DEF CopyOf, VatInv
<1> QED
  BY <1>1, <1>2 DEF VatInv, HasWholeVat

(* Where every price has a VAT of whole cents the total that is asserted   *)
(* when something is added is not negative: it is the rounding of what is  *)
(* added and taken off in other parts, and nothing else, that makes it so. *)
THEOREM WholeCentsAreNotNegative == WholeVat => (Spec => []TotalIsNotNegative)
<1> SUFFICES ASSUME WholeVat PROVE Spec => []TotalIsNotNegative
  OBVIOUS
<1>1. Init => VatInv
  <2>1. ASSUME Init PROVE cart = NoCart /\ \A q \in Requests : request[q].op = "idle"
    BY <2>1 DEF Init, Idle
  <2> QED
    BY <2>1, EmptyIsWhole DEF VatInv
<1>2. Inv /\ VatInv /\ [Next]_vars => VatInv'
  <2>1. VatInv /\ UNCHANGED vars => VatInv'
    BY DEF VatInv, HasWholeVat, vars
  <2> QED
    BY <2>1, NextKeepsVat
<1>3. Inv /\ VatInv => TotalIsNotNegative
  <2> SUFFICES ASSUME Inv, VatInv, history = {}, \A q \in Requests : request[q] = Idle
               PROVE  cart.total_amount >= 0
    BY DEF TotalIsNotNegative
  <2>1. \A q \in Requests : request[q].op # "put"
    BY DEF Idle
  <2>2. cart.amount = WorthOf(InCart)
    BY <2>1 DEF Inv, AmountsAreSound, Sound
  <2>3. cart.amount \in Nat
    BY <2>2, CartIs, ItemsAre DEF Inv, Types
  <2>4. PICK k \in Int : cart.amount * vat_pct = 100 * k /\ cart.total_amount = cart.amount + k
    BY DEF VatInv, HasWholeVat
  <2>5. cart.amount * vat_pct \in Nat
    BY <2>3, VatIs, TimesAre
  <2> QED
    BY <2>3, <2>4, <2>5
<1> QED
  BY <1>1, <1>2, <1>3, InvHolds, PTL DEF Spec
=============================================================================
