-------------------------- MODULE Payments_proofs --------------------------
(***************************************************************************)
(* Theorems about Payments, for any charges, requests and bounds.          *)
(***************************************************************************)
EXTENDS MCRaces, FiniteSetTheorems, TLAPS

-----------------------------------------------------------------------------
(* The inductive invariant.  A charge that is not executed has no number;  *)
(* one that has an invoice points to it; and a request whose transaction   *)
(* has not been overtaken still sees what it read when it began.           *)

NumbersOfExecuted ==
  \A c \in Charges : charge[c].status # EXECUTED => Numbers(c) = {}

PointsToInvoice ==
  \A c \in Charges : \A n \in Invoices(c) : charge[c].invoice_number = n

SeesWhatItRead ==
  \A q \in Requests : request[q].pc # "idle" /\ ~request[q].stale =>
     IF request[q].new
     THEN /\ charge[request[q].charge].status = PENDING
          /\ request[q].number = lastNumber + 1
          /\ lastNumber < MaxNumber
     ELSE request[q].number \in Invoices(request[q].charge)

IInv == /\ TypeOK
        /\ NumbersOfExecuted
        /\ PointsToInvoice
        /\ SeesWhatItRead
        /\ InvoicedOnce
        /\ NumbersAccounted

LEMMA IdleType == Idle \in Request
<1>1. (CHOOSE c \in Charges : TRUE) \in Charges
  BY PaymentsAssumption
<1> QED
  BY <1>1, PaymentsAssumption DEF Idle, Request

(* The numbers of a charge, with and without one more task on the queue.   *)
LEMMA NumberIn ==
  ASSUME NEW c \in Charges, NEW n
  PROVE  n \in Numbers(c) <=> \/ n \in Invoices(c)
                             \/ \E u \in task : u.charge = c /\ u.number = n
  BY DEF Numbers

LEMMA NumberInNext ==
  ASSUME NEW c \in Charges, NEW n
  PROVE  n \in Numbers(c)' <=> \/ n \in Invoices(c)'
                              \/ \E u \in task' : u.charge = c /\ u.number = n
  BY DEF Numbers

LEMMA TaskAdded ==
  ASSUME NEW c \in Charges, NEW t, task' = task \cup {t}, t.charge = c,
         \A d \in Charges : Invoices(d)' = Invoices(d)
  PROVE  \A d \in Charges : Numbers(d)' =
            IF d = c THEN Numbers(d) \cup {t.number} ELSE Numbers(d)
<1> SUFFICES ASSUME NEW d \in Charges, NEW n
             PROVE  n \in Numbers(d)' <=> n \in Numbers(d) \/ (d = c /\ n = t.number)
  OBVIOUS
<1>1. (\E u \in task' : u.charge = d /\ u.number = n) <=>
        \/ \E u \in task : u.charge = d /\ u.number = n
        \/ d = c /\ n = t.number
  OBVIOUS
<1> QED
  BY <1>1, NumberIn, NumberInNext

(* A number that is given to a charge without one, and steps that give none. *)
LEMMA NumberGiven ==
  ASSUME NEW c \in Charges, Numbers(c) = {}, lastNumber \in Nat,
         lastNumber < MaxNumber, InvoicedOnce, NumbersAccounted,
         lastNumber' = lastNumber + 1,
         \A d \in Charges : Numbers(d)' =
            IF d = c THEN {lastNumber + 1} ELSE Numbers(d)
  PROVE  InvoicedOnce' /\ NumbersAccounted'
<1>1. InvoicedOnce'
  BY DEF InvoicedOnce
<1>2. lastNumber + 1 \in 1 .. MaxNumber
  BY PaymentsAssumption
<1>3. ASSUME NEW n \in 1 .. MaxNumber
      PROVE  n <= lastNumber' <=> \E d \in Charges : n \in Numbers(d)'
  <2>1. CASE n = lastNumber + 1
    BY <2>1
  <2>2. CASE n # lastNumber + 1
    <3>1. n <= lastNumber' <=> n <= lastNumber
      BY <2>2
    <3>2. \A d \in Charges : n \in Numbers(d)' <=> n \in Numbers(d)
      BY <2>2
    <3> QED
      BY <3>1, <3>2 DEF NumbersAccounted
  <2> QED
    BY <2>1, <2>2
<1>4. \A d \in Charges : Numbers(d) \cap {lastNumber + 1} = {}
  BY <1>2 DEF NumbersAccounted
<1> QED
  BY <1>1, <1>3, <1>4 DEF NumbersAccounted

LEMMA NumbersKept ==
  ASSUME InvoicedOnce, NumbersAccounted, lastNumber' = lastNumber,
         \A d \in Charges : Numbers(d)' = Numbers(d)
  PROVE  InvoicedOnce' /\ NumbersAccounted'
  BY DEF InvoicedOnce, NumbersAccounted

(* What the steps do to the requests: they are unchanged, or overtaken.    *)
LEMMA Overtaken ==
  ASSUME TypeOK, Committed
  PROVE  /\ request' \in [Requests -> Request]
         /\ \A q \in Requests : request'[q].pc = "idle" \/ request'[q].stale
  BY DEF TypeOK, Committed, Request

LEMMA InitIInv == Init => IInv
<1> SUFFICES ASSUME Init PROVE IInv
  OBVIOUS
<1>1. TypeOK
  BY IdleType, PaymentsAssumption
  DEF Init, TypeOK, ChargeEntity, InvoiceEntity, NoInvoice, PaymentTypes,
      PENDING, EXECUTED, CANCELLED, StripeCharge
<1>2. \A c \in Charges : Numbers(c) = {}
  BY DEF Init, Numbers, Invoices, NoInvoice
<1>3. NumbersOfExecuted /\ InvoicedOnce
  BY <1>2 DEF NumbersOfExecuted, InvoicedOnce
<1>4. PointsToInvoice
  BY DEF Init, PointsToInvoice, Invoices, NoInvoice
<1>5. NumbersAccounted
  BY <1>2 DEF Init, NumbersAccounted
<1>6. SeesWhatItRead
  BY DEF Init, SeesWhatItRead, Idle
<1> QED
  BY <1>1, <1>3, <1>4, <1>5, <1>6 DEF IInv

(* _mark_charge_as_executed gives the charge its one number. *)
LEMMA ExecuteIInv ==
  ASSUME IInv, NEW c \in Charges, NEW p \in PaymentTypes, Execute(c, p)
  PROVE  IInv'
<1> DEFINE t == [charge |-> c, number |-> lastNumber + 1, payment_type |-> p]
<1>1. TypeOK /\ lastNumber \in Nat /\ lastNumber < MaxNumber
  BY PaymentsAssumption DEF IInv, TypeOK, Execute
<1>2. /\ charge' = [charge EXCEPT ![c].status = EXECUTED]
      /\ lastNumber' = lastNumber + 1
      /\ task' = task \cup {t}
      /\ Committed
      /\ UNCHANGED <<invoice, stripe>>
      /\ charge[c].status # EXECUTED
  BY DEF Execute, MayExecute, next
<1>3. t \in Task
  BY <1>1, PaymentsAssumption DEF Task
<1>4. TypeOK'
  <2>1. charge' \in [Charges -> ChargeEntity]
    BY <1>1, <1>2 DEF TypeOK, ChargeEntity
  <2> QED
    BY <1>1, <1>2, <1>3, <2>1, Overtaken, PaymentsAssumption DEF TypeOK
<1>5. Numbers(c) = {}
  BY <1>2 DEF IInv, NumbersOfExecuted
<1>6. \A d \in Charges : Invoices(d)' = Invoices(d)
  BY <1>2 DEF Invoices
<1>7. \A d \in Charges : Numbers(d)' =
         IF d = c THEN {lastNumber + 1} ELSE Numbers(d)
  <2>1. t.charge = c /\ t.number = lastNumber + 1
    OBVIOUS
  <2>2. \A d \in Charges : Numbers(d)' =
           IF d = c THEN Numbers(d) \cup {lastNumber + 1} ELSE Numbers(d)
    BY <1>2, <1>6, <2>1, TaskAdded
  <2> QED
    BY <1>5, <2>2
<1>8. InvoicedOnce' /\ NumbersAccounted'
  BY <1>1, <1>2, <1>5, <1>7, NumberGiven DEF IInv
<1>9. NumbersOfExecuted'
  BY <1>1, <1>2, <1>7 DEF IInv, NumbersOfExecuted, TypeOK, ChargeEntity
<1>10. PointsToInvoice'
  BY <1>1, <1>2, <1>6 DEF IInv, PointsToInvoice, TypeOK, ChargeEntity
<1>11. SeesWhatItRead'
  BY <1>1, <1>2, Overtaken DEF SeesWhatItRead
<1> QED
  BY <1>4, <1>8, <1>9, <1>10, <1>11 DEF IInv

LEMMA MarkInvoicePaidIInv ==
  ASSUME IInv, NEW c \in Charges, NEW p \in PaymentTypes, MarkInvoicePaid(c, p)
  PROVE  IInv'
<1>1. PICK n \in Invoices(c) : invoice' = [invoice EXCEPT ![c][n].paid = TRUE]
  BY DEF MarkInvoicePaid
<1>2. TypeOK /\ n \in 1 .. MaxNumber /\ invoice[c][n].exists
  BY <1>1 DEF IInv, Invoices
<1>3. Committed /\ UNCHANGED <<charge, lastNumber, task, stripe>>
  BY DEF MarkInvoicePaid
<1>4. /\ invoice' \in [Charges -> [1 .. MaxNumber -> InvoiceEntity]]
      /\ \A d \in Charges, k \in 1 .. MaxNumber :
            invoice'[d][k].exists = invoice[d][k].exists
  <2> DEFINE paid == [invoice[c][n] EXCEPT !.paid = TRUE]
  <2>1. invoice[c][n] \in InvoiceEntity
    BY <1>2 DEF TypeOK
  <2>2. paid \in InvoiceEntity /\ paid.exists = invoice[c][n].exists
    BY <2>1 DEF InvoiceEntity
  <2>3. invoice' = [invoice EXCEPT ![c] = [invoice[c] EXCEPT ![n] = paid]]
    BY <1>1
  <2> HIDE DEF paid
  <2>4. [invoice[c] EXCEPT ![n] = paid] \in [1 .. MaxNumber -> InvoiceEntity]
    BY <1>2, <2>2 DEF TypeOK
  <2> QED
    BY <1>2, <2>2, <2>3, <2>4 DEF TypeOK
<1>5. TypeOK'
  BY <1>2, <1>3, <1>4, Overtaken DEF TypeOK
<1>6. \A d \in Charges : Invoices(d)' = Invoices(d)
  BY <1>4 DEF Invoices
<1>7. \A d \in Charges : Numbers(d)' = Numbers(d)
  BY <1>3, <1>6 DEF Numbers
<1>8. InvoicedOnce' /\ NumbersAccounted'
  BY <1>3, <1>7, NumbersKept DEF IInv
<1>9. NumbersOfExecuted' /\ PointsToInvoice'
  BY <1>3, <1>6, <1>7 DEF IInv, NumbersOfExecuted, PointsToInvoice
<1>10. SeesWhatItRead'
  BY <1>2, <1>3, Overtaken DEF SeesWhatItRead
<1> QED
  BY <1>5, <1>8, <1>9, <1>10 DEF IInv

LEMMA CancelIInv ==
  ASSUME IInv, cancel_order
  PROVE  IInv'
<1>1. TypeOK /\ Committed /\ UNCHANGED <<invoice, lastNumber, task, stripe>>
  BY DEF IInv, cancel_order
<1>2. /\ charge' \in [Charges -> ChargeEntity]
      /\ \A c \in Charges :
           /\ charge'[c].status # EXECUTED <=> charge[c].status # EXECUTED
           /\ charge'[c].invoice_number = charge[c].invoice_number
  BY <1>1
  DEF cancel_order, TypeOK, ChargeEntity, PENDING, EXECUTED, CANCELLED
<1>3. TypeOK'
  BY <1>1, <1>2, Overtaken DEF TypeOK
<1>4. \A d \in Charges : Invoices(d)' = Invoices(d) /\ Numbers(d)' = Numbers(d)
  BY <1>1 DEF Invoices, Numbers
<1>5. InvoicedOnce' /\ NumbersAccounted'
  BY <1>1, <1>4, NumbersKept DEF IInv
<1>6. NumbersOfExecuted' /\ PointsToInvoice'
  BY <1>2, <1>4 DEF IInv, NumbersOfExecuted, PointsToInvoice
<1>7. SeesWhatItRead'
  BY <1>1, Overtaken DEF SeesWhatItRead
<1> QED
  BY <1>3, <1>5, <1>6, <1>7 DEF IInv

(* The task has a number of the charge already: it gives none. *)
LEMMA CreateInvoiceIInv ==
  ASSUME IInv, NEW t \in task, create_invoice(t)
  PROVE  IInv'
<1> DEFINE c == t.charge
           n == t.number
<1>1. TypeOK /\ t \in Task /\ c \in Charges /\ n \in 1 .. MaxNumber
  BY DEF IInv, TypeOK, Task
<1>2. /\ invoice' = [invoice EXCEPT ![c][n] =
            [exists |-> TRUE, paid |-> Paid(@, t), payment_type |-> t.payment_type]]
      /\ charge' = [charge EXCEPT ![c].invoice_number = n]
      /\ task' \in {task, task \ {t}}
      /\ Committed
      /\ UNCHANGED <<lastNumber, stripe>>
  BY DEF create_invoice
<1>3. Paid(invoice[c][n], t) \in BOOLEAN
  BY <1>1 DEF Paid, TypeOK, InvoiceEntity
<1>4. [exists |-> TRUE, paid |-> Paid(invoice[c][n], t),
       payment_type |-> t.payment_type] \in InvoiceEntity
  BY <1>1, <1>3 DEF InvoiceEntity, Task
<1>5. invoice' \in [Charges -> [1 .. MaxNumber -> InvoiceEntity]]
  BY <1>1, <1>2, <1>4 DEF TypeOK
<1>6. /\ charge' \in [Charges -> ChargeEntity]
      /\ \A d \in Charges :
           /\ charge'[d].status = charge[d].status
           /\ charge'[d].invoice_number =
                IF d = c THEN n ELSE charge[d].invoice_number
  <2> DEFINE numbered == [charge[c] EXCEPT !.invoice_number = n]
  <2>1. charge[c] \in ChargeEntity /\ n \in 0 .. MaxNumber
    <3>1. \A k \in 1 .. MaxNumber : k \in 0 .. MaxNumber
      BY PaymentsAssumption
    <3> QED
      BY <1>1, <3>1 DEF TypeOK
  <2>2. /\ numbered \in ChargeEntity
        /\ numbered.status = charge[c].status
        /\ numbered.invoice_number = n
    BY <2>1 DEF ChargeEntity
  <2>3. charge' = [charge EXCEPT ![c] = numbered]
    BY <1>2
  <2> HIDE DEF numbered
  <2> QED
    BY <1>1, <2>2, <2>3 DEF TypeOK
<1>7. TypeOK'
  BY <1>1, <1>2, <1>5, <1>6, Overtaken DEF TypeOK
<1>8. \A d \in Charges : Invoices(d)' =
         IF d = c THEN Invoices(d) \cup {n} ELSE Invoices(d)
  BY <1>1, <1>2 DEF Invoices, TypeOK
<1>9. n \in Numbers(c)
  BY DEF Numbers
<1>10. Numbers(c) = {n} /\ Invoices(c) \subseteq {n}
  <2>1. \A m \in Numbers(c) : m = n
    BY <1>1, <1>9 DEF IInv, InvoicedOnce
  <2> QED
    BY <1>9, <2>1 DEF Numbers
<1>11. \A d \in Charges : Numbers(d)' = Numbers(d)
  BY <1>1, <1>2, <1>8, <1>9 DEF Numbers
<1>12. InvoicedOnce' /\ NumbersAccounted'
  BY <1>2, <1>11, NumbersKept DEF IInv
<1>13. NumbersOfExecuted'
  BY <1>6, <1>11 DEF IInv, NumbersOfExecuted
<1>14. PointsToInvoice'
  BY <1>1, <1>6, <1>8, <1>10 DEF IInv, PointsToInvoice
<1>15. SeesWhatItRead'
  BY <1>1, <1>2, Overtaken DEF SeesWhatItRead
<1> QED
  BY <1>7, <1>12, <1>13, <1>14, <1>15 DEF IInv
(* The steps of a request of which the datastore sees nothing. *)
LEMMA RequestStepIInv ==
  ASSUME IInv, UNCHANGED <<charge, invoice, lastNumber, task>>,
         stripe' \in Seq(StripeCharge), Len(stripe') <= MaxStripe,
         request' \in [Requests -> Request], SeesWhatItRead'
  PROVE  IInv'
<1>1. \A c \in Charges : Invoices(c)' = Invoices(c) /\ Numbers(c)' = Numbers(c)
  BY DEF Invoices, Numbers
<1>2. TypeOK' /\ NumbersOfExecuted' /\ PointsToInvoice'
  BY <1>1 DEF IInv, TypeOK, NumbersOfExecuted, PointsToInvoice
<1>3. InvoicedOnce' /\ NumbersAccounted'
  BY <1>1, NumbersKept DEF IInv
<1> QED
  BY <1>2, <1>3 DEF IInv

(* A request that begins sees what there is. *)
LEMMA BeginIInv ==
  ASSUME IInv, NEW q \in Requests, NEW c \in Charges, Begin(q, c)
  PROVE  IInv'
<1> DEFINE new == c \in Oldest(PENDING)
           number == IF new THEN lastNumber + 1 ELSE charge[c].invoice_number
           amount == IF new /\ c \in CreditCardDiscount THEN "discounted"
                     ELSE charge[c].amount
           r == [pc |-> "list", charge |-> c, number |-> number, new |-> new,
                 amount |-> amount, match |-> 0, stale |-> FALSE]
<1>1. TypeOK /\ lastNumber \in 0 .. MaxNumber /\ charge[c] \in ChargeEntity
  BY DEF IInv, TypeOK
<1>2. /\ request' = [request EXCEPT ![q] = r]
      /\ new => lastNumber < MaxNumber
      /\ MayBePaid(c)
      /\ UNCHANGED <<charge, invoice, lastNumber, task, stripe>>
  BY DEF Begin, next
<1>3. number \in 0 .. MaxNumber
  BY <1>1, <1>2, PaymentsAssumption DEF ChargeEntity
<1>4. amount \in {"full", "discounted"}
  BY <1>1 DEF ChargeEntity
<1>5. new \in BOOLEAN
  BY DEF Oldest
<1>6. r \in Request
  BY <1>3, <1>4, <1>5, PaymentsAssumption DEF Request
<1>7. IF new THEN /\ charge[c].status = PENDING
                  /\ number = lastNumber + 1
                  /\ lastNumber < MaxNumber
             ELSE number \in Invoices(c)
  <2>1. CASE new
    BY <1>2, <2>1 DEF Oldest
  <2>2. CASE ~new
    <3>1. PICK n \in Invoices(c) : TRUE
      BY <1>2, <2>2 DEF MayBePaid
    <3>2. charge[c].invoice_number = n
      BY <3>1 DEF IInv, PointsToInvoice
    <3> QED
      BY <2>2, <3>1, <3>2
  <2> QED
    BY <2>1, <2>2
<1>8. request' \in [Requests -> Request]
  BY <1>1, <1>2, <1>6 DEF TypeOK
<1>9. ASSUME NEW p \in Requests
      PROVE  request'[p] = IF p = q THEN r ELSE request[p]
  BY <1>1, <1>2 DEF TypeOK
<1>10. \A d \in Charges : Invoices(d)' = Invoices(d)
  BY <1>2 DEF Invoices
<1>11. /\ r.new = new /\ r.charge = c /\ r.number = number
  OBVIOUS
<1> HIDE DEF r, new, number, amount
<1>12. SeesWhatItRead'
  <2> SUFFICES ASSUME NEW p \in Requests,
                      request'[p].pc # "idle", ~request'[p].stale
               PROVE  IF request'[p].new
                      THEN /\ charge[request'[p].charge].status = PENDING
                           /\ request'[p].number = lastNumber + 1
                           /\ lastNumber < MaxNumber
                      ELSE request'[p].number \in Invoices(request[p].charge)'
    BY <1>2 DEF SeesWhatItRead
  <2>1. CASE p = q
    BY <1>7, <1>9, <1>10, <1>11, <2>1
  <2>2. CASE p # q
    <3>1. request'[p] = request[p] /\ request[p].charge \in Charges
      BY <1>1, <1>9, <2>2 DEF TypeOK, Request
    <3> QED
      BY <1>10, <3>1 DEF IInv, SeesWhatItRead
  <2> QED
    BY <2>1, <2>2
<1> QED
  BY <1>1, <1>2, <1>8, <1>12, RequestStepIInv DEF TypeOK
(* A request that goes on, or ends, keeps what it has read. *)
LEMMA GoOnIInv ==
  ASSUME IInv, NEW q \in Requests, NEW r \in Request,
         UNCHANGED <<charge, invoice, lastNumber, task>>,
         stripe' \in Seq(StripeCharge), Len(stripe') <= MaxStripe,
         request' = [request EXCEPT ![q] = r],
         \/ r.pc = "idle"
         \/ /\ request[q].pc # "idle"
            /\ r.charge = request[q].charge /\ r.number = request[q].number
            /\ r.new = request[q].new /\ r.stale = request[q].stale
  PROVE  IInv'
<1>1. TypeOK
  BY DEF IInv
<1>2. request' \in [Requests -> Request]
  BY <1>1 DEF TypeOK
<1>3. \A d \in Charges : Invoices(d)' = Invoices(d)
  BY DEF Invoices
<1>4. SeesWhatItRead'
  <2> SUFFICES ASSUME NEW p \in Requests,
                      request'[p].pc # "idle", ~request'[p].stale
               PROVE  IF request'[p].new
                      THEN /\ charge[request'[p].charge].status = PENDING
                           /\ request'[p].number = lastNumber + 1
                           /\ lastNumber < MaxNumber
                      ELSE request'[p].number \in Invoices(request[p].charge)'
                           /\ request'[p].charge = request[p].charge
    BY DEF SeesWhatItRead, Invoices
  <2>1. request'[p] = IF p = q THEN r ELSE request[p]
    BY <1>1 DEF TypeOK
  <2>2. request[p].charge \in Charges
    BY <1>1 DEF TypeOK, Request
  <2>3. /\ request[p].pc # "idle"
        /\ request'[p].charge = request[p].charge
        /\ request'[p].number = request[p].number
        /\ request'[p].new = request[p].new
        /\ ~request[p].stale
    BY <2>1
  <2> QED
    BY <1>3, <2>2, <2>3 DEF IInv, SeesWhatItRead
<1> QED
  BY <1>2, <1>4, RequestStepIInv

LEMMA FindMatchIInv ==
  ASSUME IInv, NEW q \in Requests, FindMatch(q)
  PROVE  IInv'
<1>1. /\ request[q] \in Request /\ request[q].pc = "list"
      /\ stripe \in Seq(StripeCharge) /\ Len(stripe) <= MaxStripe
      /\ UNCHANGED <<charge, invoice, lastNumber, task, stripe>>
  BY DEF IInv, TypeOK, FindMatch
<1>2. CASE request' = [request EXCEPT ![q].pc = "create"]
  <2> DEFINE r == [request[q] EXCEPT !.pc = "create"]
  <2>1. /\ r \in Request
        /\ r.charge = request[q].charge /\ r.number = request[q].number
        /\ r.new = request[q].new /\ r.stale = request[q].stale
    BY <1>1 DEF Request
  <2>2. request' = [request EXCEPT ![q] = r]
    BY <1>2
  <2> HIDE DEF r
  <2> QED
    BY <1>1, <2>1, <2>2, GoOnIInv
<1>3. CASE \E last \in DOMAIN stripe, pc \in {"commit", "capture", "bug"} :
             request' = [request EXCEPT ![q].match = last, ![q].pc = pc]
  <2>1. PICK last \in DOMAIN stripe, pc \in {"commit", "capture", "bug"} :
             request' = [request EXCEPT ![q].match = last, ![q].pc = pc]
    BY <1>3
  <2> DEFINE r == [request[q] EXCEPT !.match = last, !.pc = pc]
  <2>2. last \in 0 .. MaxStripe
    BY <1>1, PaymentsAssumption
  <2>3. /\ r \in Request
        /\ r.charge = request[q].charge /\ r.number = request[q].number
        /\ r.new = request[q].new /\ r.stale = request[q].stale
    BY <1>1, <2>2 DEF Request
  <2>4. request' = [request EXCEPT ![q] = r]
    BY <2>1
  <2> HIDE DEF r
  <2> QED
    BY <1>1, <2>3, <2>4, GoOnIInv
<1> QED
  BY <1>2, <1>3 DEF FindMatch, Matches, AfterMatch

LEMMA StripeCreateIInv ==
  ASSUME IInv, NEW q \in Requests, StripeCreate(q)
  PROVE  IInv'
<1>1. /\ request[q] \in Request /\ request[q].pc = "create"
      /\ stripe \in Seq(StripeCharge) /\ Len(stripe) < MaxStripe
      /\ UNCHANGED <<charge, invoice, lastNumber, task>>
      /\ request' = [request EXCEPT ![q].pc = "capture", ![q].match = Len(stripe')]
  BY DEF IInv, TypeOK, StripeCreate
<1> DEFINE s == [osa_charge_id |-> request[q].charge, amount |-> request[q].amount,
                 captured |-> FALSE]
           r == [request[q] EXCEPT !.pc = "capture", !.match = Len(stripe')]
<1>2. s \in StripeCharge
  BY <1>1 DEF StripeCharge, Request
<1>3. stripe' = Append(stripe, s)
  BY DEF StripeCreate
<1> HIDE DEF s
<1>4. stripe' \in Seq(StripeCharge) /\ Len(stripe') = Len(stripe) + 1
  BY <1>1, <1>2, <1>3
<1>5. Len(stripe') \in 0 .. MaxStripe /\ Len(stripe') <= MaxStripe
  BY <1>1, <1>4, PaymentsAssumption
<1>6. /\ r \in Request
      /\ r.charge = request[q].charge /\ r.number = request[q].number
      /\ r.new = request[q].new /\ r.stale = request[q].stale
  BY <1>1, <1>5 DEF Request
<1>7. request' = [request EXCEPT ![q] = r]
  BY <1>1
<1> HIDE DEF r
<1> QED
  BY <1>1, <1>4, <1>5, <1>6, <1>7, GoOnIInv

LEMMA StripeCaptureIInv ==
  ASSUME IInv, NEW q \in Requests, StripeCapture(q)
  PROVE  IInv'
<1>1. /\ request[q] \in Request /\ request[q].pc = "capture"
      /\ stripe \in Seq(StripeCharge) /\ Len(stripe) <= MaxStripe
      /\ UNCHANGED <<charge, invoice, lastNumber, task>>
      /\ request' = [request EXCEPT ![q].pc = "commit"]
      /\ stripe' = [stripe EXCEPT ![request[q].match].captured = TRUE]
  BY DEF IInv, TypeOK, StripeCapture
<1>2. stripe' \in Seq(StripeCharge) /\ Len(stripe') = Len(stripe)
  <2>1. \A s \in StripeCharge : [s EXCEPT !.captured = TRUE] \in StripeCharge
    BY DEF StripeCharge
  <2>2. stripe \in [1 .. Len(stripe) -> StripeCharge] /\ Len(stripe) \in Nat
    BY <1>1
  <2>3. stripe' \in [1 .. Len(stripe) -> StripeCharge]
    BY <1>1, <2>1, <2>2
  <2> QED
    BY <2>2, <2>3
<1> DEFINE r == [request[q] EXCEPT !.pc = "commit"]
<1>3. /\ r \in Request
      /\ r.charge = request[q].charge /\ r.number = request[q].number
      /\ r.new = request[q].new /\ r.stale = request[q].stale
  BY <1>1 DEF Request
<1>4. request' = [request EXCEPT ![q] = r]
  BY <1>1
<1> HIDE DEF r
<1> QED
  BY <1>1, <1>2, <1>3, <1>4, GoOnIInv

LEMMA EndRequestIInv ==
  ASSUME IInv, NEW q \in Requests, EndRequest(q)
  PROVE  IInv'
<1>1. Idle.pc = "idle"
  BY DEF Idle
<1> QED
  BY <1>1, IdleType, GoOnIInv DEF EndRequest, IInv, TypeOK
(* The commit: a charge that had no number gets the one the request took,  *)
(* which no other has because the request was not overtaken; one that had  *)
(* a number keeps it.                                                      *)
LEMMA CommitPaymentIInv ==
  ASSUME IInv, NEW q \in Requests, CommitPayment(q)
  PROVE  IInv'
<1> DEFINE c == request[q].charge
           n == request[q].number
           t == [charge |-> c, number |-> n, payment_type |-> "STRIPE"]
           paid == [charge[c] EXCEPT !.status = EXECUTED,
                                     !.amount = request[q].amount]
<1>1. /\ TypeOK /\ request[q] \in Request /\ c \in Charges
      /\ lastNumber \in Nat
  BY PaymentsAssumption DEF IInv, TypeOK, Request
<1>2. /\ request[q].pc # "idle" /\ ~request[q].stale
      /\ lastNumber' = IF request[q].new THEN n ELSE lastNumber
      /\ task' = task \cup {t}
      /\ request' = [p \in Requests |->
           IF p = q THEN Idle
           ELSE IF request[p].pc = "idle" THEN request[p]
           ELSE [request[p] EXCEPT !.stale = TRUE]]
      /\ UNCHANGED <<invoice, stripe>>
  BY DEF CommitPayment, MayCommit
<1>3. IF request[q].new
      THEN /\ charge[c].status = PENDING
           /\ n = lastNumber + 1
           /\ lastNumber < MaxNumber
      ELSE n \in Invoices(c)
  BY <1>2 DEF IInv, SeesWhatItRead
<1>4. n \in 1 .. MaxNumber /\ n \in 0 .. MaxNumber
  BY <1>1, <1>3, PaymentsAssumption DEF Invoices
<1>5. t \in Task
  BY <1>1, <1>4 DEF Task, PaymentTypes
<1>6. /\ charge' \in [Charges -> ChargeEntity]
      /\ \A d \in Charges :
           /\ charge'[d].status = IF d = c THEN EXECUTED ELSE charge[d].status
           /\ charge'[d].invoice_number = charge[d].invoice_number
  <2>1. charge[c] \in ChargeEntity /\ request[q].amount \in {"full", "discounted"}
    BY <1>1 DEF TypeOK, Request
  <2>2. /\ paid \in ChargeEntity
        /\ paid.status = EXECUTED
        /\ paid.invoice_number = charge[c].invoice_number
    BY <2>1 DEF ChargeEntity
  <2>3. charge' = [charge EXCEPT ![c] = paid]
    BY DEF CommitPayment
  <2> HIDE DEF paid
  <2> QED
    BY <1>1, <2>2, <2>3 DEF TypeOK
<1>7. request' \in [Requests -> Request]
  <2>1. \A r \in Request : [r EXCEPT !.stale = TRUE] \in Request
    BY DEF Request
  <2> QED
    BY <1>1, <1>2, <2>1, IdleType DEF TypeOK
<1>8. lastNumber' \in 0 .. MaxNumber
  BY <1>1, <1>2, <1>4 DEF TypeOK
<1>9. TypeOK'
  BY <1>1, <1>2, <1>5, <1>6, <1>7, <1>8 DEF TypeOK
<1>10. \A d \in Charges : Invoices(d)' = Invoices(d)
  BY <1>2 DEF Invoices
<1>11. \A d \in Charges : Numbers(d)' =
          IF d = c THEN Numbers(d) \cup {n} ELSE Numbers(d)
  <2>1. t.charge = c /\ t.number = n
    OBVIOUS
  <2> HIDE DEF t
  <2> QED
    BY <1>1, <1>2, <1>10, <2>1, TaskAdded
<1>12. InvoicedOnce' /\ NumbersAccounted'
  <2>1. CASE request[q].new
    <3>1. Numbers(c) = {}
      BY <1>1, <1>3, <2>1 DEF IInv, NumbersOfExecuted, PENDING, EXECUTED
    <3>2. lastNumber' = lastNumber + 1 /\ lastNumber < MaxNumber
      BY <1>2, <1>3, <2>1
    <3>3. \A d \in Charges : Numbers(d)' =
             IF d = c THEN {lastNumber + 1} ELSE Numbers(d)
      BY <1>3, <1>11, <2>1, <3>1
    <3> HIDE DEF c
    <3> QED
      BY <1>1, <3>1, <3>2, <3>3, NumberGiven DEF IInv
  <2>2. CASE ~request[q].new
    <3>1. n \in Numbers(c)
      BY <1>3, <2>2 DEF Numbers
    <3>2. \A d \in Charges : Numbers(d)' = Numbers(d)
      BY <1>11, <3>1
    <3> QED
      BY <1>2, <2>2, <3>2, NumbersKept DEF IInv
  <2> QED
    BY <2>1, <2>2
<1>13. NumbersOfExecuted'
  BY <1>6, <1>11 DEF IInv, NumbersOfExecuted
<1>14. PointsToInvoice'
  BY <1>6, <1>10 DEF IInv, PointsToInvoice
<1>15. \A p \in Requests : request'[p].pc = "idle" \/ request'[p].stale
  <2> TAKE p \in Requests
  <2>1. CASE p = q
    BY <1>2, <2>1 DEF Idle
  <2>2. CASE p # q
    BY <1>1, <1>2, <2>2 DEF TypeOK, Request
  <2> QED
    BY <2>1, <2>2
<1>16. SeesWhatItRead'
  BY <1>15 DEF SeesWhatItRead
<1> QED
  BY <1>9, <1>12, <1>13, <1>14, <1>16 DEF IInv

-----------------------------------------------------------------------------
LEMMA NextIInv == IInv /\ [Next]_vars => IInv'
<1> SUFFICES ASSUME IInv, [Next]_vars PROVE IInv'
  OBVIOUS
<1>1. ASSUME NEW c \in Charges, manual_payment(c) PROVE IInv'
  BY <1>1, ExecuteIInv, MarkInvoicePaidIInv DEF manual_payment, PaymentTypes
<1>2. ASSUME NEW c \in Charges, finish_on_site_payment(c) PROVE IInv'
  BY <1>2, ExecuteIInv DEF finish_on_site_payment, PaymentTypes
<1>3. ASSUME NEW q \in Requests, NEW c \in Charges, get_payed(q, c) PROVE IInv'
  BY <1>3, BeginIInv DEF get_payed
<1>4. ASSUME NEW q \in Requests, RetryPayment(q) PROVE IInv'
  <2>1. request[q].charge \in Charges
    BY DEF IInv, TypeOK, Request
  <2> QED
    BY <1>4, <2>1, BeginIInv DEF RetryPayment
<1>5. CASE UNCHANGED vars
  <2>1. \A c \in Charges : Invoices(c)' = Invoices(c) /\ Numbers(c)' = Numbers(c)
    BY <1>5 DEF vars, Invoices, Numbers
  <2> QED
    BY <1>5, <2>1 DEF IInv, vars, TypeOK, NumbersOfExecuted, PointsToInvoice,
       SeesWhatItRead, InvoicedOnce, NumbersAccounted, Invoices
<1> QED
  BY <1>1, <1>2, <1>3, <1>4, <1>5, CancelIInv, CreateInvoiceIInv, FindMatchIInv,
     StripeCreateIInv, StripeCaptureIInv, CommitPaymentIInv, EndRequestIInv
  DEF Next

(* The variables keep their types. *)
THEOREM TypeCorrect == Spec => []TypeOK
<1>1. IInv => TypeOK
  BY DEF IInv
<1> QED
  BY <1>1, InitIInv, NextIInv, PTL DEF Spec

(* However the transactions, requests and tasks of _mark_charge_as_executed,*)
(* get_payed and create_invoice interleave, fail and run again, a charge is *)
(* invoiced once.                                                           *)
THEOREM ChargesAreInvoicedOnce == Spec => []InvoicedOnce
<1>1. IInv => InvoicedOnce
  BY DEF IInv
<1> QED
  BY <1>1, InitIInv, NextIInv, PTL DEF Spec

(* The numbers that InvoiceNumber gives have no gaps and no duplicates: each *)
(* is on an invoice, or with a task that will make one.                     *)
THEOREM NumbersHaveNoGaps == Spec => []NumbersAccounted
<1>1. IInv => NumbersAccounted
  BY DEF IInv
<1> QED
  BY <1>1, InitIInv, NextIInv, PTL DEF Spec

-----------------------------------------------------------------------------
(* Payments by card.  A request that captures or commits has its charge at *)
(* Stripe; what has a card invoice, or a task that will make one, is       *)
(* covered there.                                                          *)

Matched(q) ==
  LET r == request[q] IN
    r.pc \in {"capture", "commit"} =>
      /\ r.match \in DOMAIN stripe
      /\ stripe[r.match].osa_charge_id = r.charge
      /\ stripe[r.match].amount = r.amount
      /\ r.pc = "commit" => stripe[r.match].captured

PaidByCard(c) ==
  \/ \E n \in Invoices(c) : invoice[c][n].payment_type = "STRIPE"
  \/ \E t \in task : t.charge = c /\ t.payment_type = "STRIPE"

Covered(c) ==
  \E i \in DOMAIN stripe : stripe[i] =
     [osa_charge_id |-> c, amount |-> charge[c].amount, captured |-> TRUE]

CardInv == /\ \A q \in Requests : Matched(q)
           /\ \A c \in Charges : PaidByCard(c) => Covered(c)

LEMMA StripeChargeIs ==
  ASSUME NEW s \in StripeCharge
  PROVE  s = [osa_charge_id |-> s.osa_charge_id, amount |-> s.amount,
              captured |-> s.captured]
  BY DEF StripeCharge

LEMMA InitCardInv == Init => CardInv
  BY DEF Init, CardInv, Matched, PaidByCard, Invoices, NoInvoice, Idle

(* What was overtaken is otherwise the same. *)
LEMMA OvertakenMatched ==
  ASSUME TypeOK, Committed, stripe' = stripe, \A q \in Requests : Matched(q)
  PROVE  \A q \in Requests : Matched(q)'
<1> SUFFICES ASSUME NEW q \in Requests PROVE Matched(q)'
  OBVIOUS
<1>1. request[q] \in Request
  BY DEF TypeOK
<1>2. /\ request'[q].pc = request[q].pc /\ request'[q].charge = request[q].charge
      /\ request'[q].amount = request[q].amount
      /\ request'[q].match = request[q].match
  BY <1>1 DEF Committed, Request
<1> QED
  BY <1>2 DEF Matched

LEMMA ExecuteCardInv ==
  ASSUME IInv, CardInv, NEW c \in Charges, NEW p \in PaymentTypes, p # "STRIPE",
         Execute(c, p)
  PROVE  CardInv'
<1> DEFINE t == [charge |-> c, number |-> lastNumber', payment_type |-> p]
<1>1. /\ TypeOK /\ Committed /\ UNCHANGED <<invoice, stripe>>
      /\ charge' = [charge EXCEPT ![c].status = EXECUTED]
      /\ task' = task \cup {t}
  BY DEF IInv, Execute
<1>2. \A d \in Charges : charge'[d].amount = charge[d].amount
  BY <1>1 DEF TypeOK, ChargeEntity
<1>3. ASSUME NEW d \in Charges, PaidByCard(d)' PROVE Covered(d)'
  <2>1. PaidByCard(d)
    BY <1>1, <1>3 DEF PaidByCard, Invoices
  <2> QED
    BY <1>1, <1>2, <2>1 DEF CardInv, Covered
<1> QED
  BY <1>1, <1>3, OvertakenMatched DEF CardInv

LEMMA MarkInvoicePaidCardInv ==
  ASSUME IInv, CardInv, NEW c \in Charges, NEW p, MarkInvoicePaid(c, p)
  PROVE  CardInv'
<1>1. PICK n \in Invoices(c) : invoice' = [invoice EXCEPT ![c][n].paid = TRUE]
  BY DEF MarkInvoicePaid
<1>2. TypeOK /\ Committed /\ UNCHANGED <<charge, task, stripe>>
  BY DEF IInv, MarkInvoicePaid
<1>3. ASSUME NEW d \in Charges, NEW k \in 1 .. MaxNumber
      PROVE  /\ invoice'[d][k].exists = invoice[d][k].exists
             /\ invoice'[d][k].payment_type = invoice[d][k].payment_type
  <2>1. invoice[d][k] \in InvoiceEntity /\ n \in 1 .. MaxNumber
    BY <1>1, <1>2 DEF TypeOK, Invoices
  <2>2. invoice'[d] = IF d = c THEN [invoice[c] EXCEPT ![n].paid = TRUE]
                      ELSE invoice[d]
    BY <1>1, <1>2 DEF TypeOK
  <2>3. invoice[d] \in [1 .. MaxNumber -> InvoiceEntity]
    BY <1>2 DEF TypeOK
  <2> QED
    BY <2>1, <2>2, <2>3 DEF InvoiceEntity
<1>4. ASSUME NEW d \in Charges, PaidByCard(d)' PROVE Covered(d)'
  <2>1. PaidByCard(d)
    BY <1>2, <1>3, <1>4 DEF PaidByCard, Invoices
  <2> QED
    BY <1>2, <2>1 DEF CardInv, Covered
<1> QED
  BY <1>2, <1>4, OvertakenMatched DEF CardInv

LEMMA CancelCardInv ==
  ASSUME IInv, CardInv, cancel_order
  PROVE  CardInv'
<1>1. TypeOK /\ Committed /\ UNCHANGED <<invoice, task, stripe>>
  BY DEF IInv, cancel_order
<1>2. \A d \in Charges : charge'[d].amount = charge[d].amount
  BY <1>1 DEF cancel_order, TypeOK, ChargeEntity
<1>3. \A d \in Charges : PaidByCard(d)' => Covered(d)'
  BY <1>1, <1>2 DEF CardInv, PaidByCard, Covered, Invoices
<1> QED
  BY <1>1, <1>3, OvertakenMatched DEF CardInv

(* The invoice that the task makes is one by card if the task says so. *)
LEMMA CreateInvoiceCardInv ==
  ASSUME IInv, CardInv, NEW t \in task, create_invoice(t)
  PROVE  CardInv'
<1>1. TypeOK /\ t \in Task /\ Committed /\ UNCHANGED stripe /\ task' \subseteq task
  BY DEF IInv, TypeOK, create_invoice
<1>2. t.charge \in Charges /\ t.number \in 1 .. MaxNumber
  BY <1>1 DEF Task
<1>3. \A d \in Charges : charge'[d].amount = charge[d].amount
  BY <1>1, <1>2 DEF create_invoice, TypeOK, ChargeEntity
<1>4. ASSUME NEW d \in Charges, NEW k \in 1 .. MaxNumber,
             invoice'[d][k].exists, invoice'[d][k].payment_type = "STRIPE"
      PROVE  PaidByCard(d)
  <2>1. CASE d = t.charge /\ k = t.number
    <3>1. invoice'[d][k].payment_type = t.payment_type
      BY <1>1, <1>2, <2>1 DEF create_invoice, TypeOK
    <3> QED
      BY <1>4, <2>1, <3>1 DEF PaidByCard
  <2>2. CASE ~(d = t.charge /\ k = t.number)
    <3>1. invoice'[d][k] = invoice[d][k]
      BY <1>1, <1>2, <2>2 DEF create_invoice, TypeOK
    <3> QED
      BY <1>4, <3>1 DEF PaidByCard, Invoices
  <2> QED
    BY <2>1, <2>2
<1>5. ASSUME NEW d \in Charges, PaidByCard(d)' PROVE Covered(d)'
  <2>1. PaidByCard(d)
    BY <1>1, <1>4, <1>5 DEF PaidByCard, Invoices
  <2> QED
    BY <1>1, <1>3, <2>1 DEF CardInv, Covered
<1> QED
  BY <1>1, <1>5, OvertakenMatched DEF CardInv

(* A request takes a step, and at most adds to Stripe or captures there. *)
LEMMA RequestCardInv ==
  ASSUME IInv, CardInv, NEW q \in Requests, NEW r,
         UNCHANGED <<charge, invoice, task>>,
         request' = [request EXCEPT ![q] = r],
         DOMAIN stripe \subseteq DOMAIN stripe',
         \A i \in DOMAIN stripe :
            /\ stripe'[i] \in StripeCharge
            /\ stripe'[i].osa_charge_id = stripe[i].osa_charge_id
            /\ stripe'[i].amount = stripe[i].amount
            /\ stripe[i].captured => stripe'[i].captured,
         Matched(q)'
  PROVE  CardInv'
<1>1. ASSUME NEW p \in Requests PROVE Matched(p)'
  <2>1. CASE p = q
    BY <2>1 DEF Matched
  <2>2. CASE p # q
    <3>1. request'[p] = request[p] /\ Matched(p)
      BY <2>2 DEF IInv, TypeOK, CardInv
    <3>2. /\ request[p].match \in DOMAIN stripe => request[p].match \in DOMAIN stripe'
          /\ request[p].match \in DOMAIN stripe =>
               /\ stripe'[request[p].match].osa_charge_id =
                    stripe[request[p].match].osa_charge_id
               /\ stripe'[request[p].match].amount = stripe[request[p].match].amount
               /\ stripe[request[p].match].captured =>
                    stripe'[request[p].match].captured
      OBVIOUS
    <3> QED
      BY <3>1, <3>2 DEF Matched
  <2> QED
    BY <2>1, <2>2
<1>2. ASSUME NEW c \in Charges, PaidByCard(c)' PROVE Covered(c)'
  <2>1. PaidByCard(c)
    BY <1>2 DEF PaidByCard, Invoices
  <2>2. PICK i \in DOMAIN stripe : stripe[i] =
           [osa_charge_id |-> c, amount |-> charge[c].amount, captured |-> TRUE]
    BY <2>1 DEF CardInv, Covered
  <2>3. i \in DOMAIN stripe' /\ stripe'[i] =
           [osa_charge_id |-> c, amount |-> charge[c].amount, captured |-> TRUE]
    BY <2>2, StripeChargeIs DEF StripeCharge
  <2> QED
    BY <2>3 DEF Covered
<1> QED
  BY <1>1, <1>2 DEF CardInv

LEMMA BeginCardInv ==
  ASSUME IInv, CardInv, NEW q \in Requests, NEW c \in Charges, Begin(q, c)
  PROVE  CardInv'
<1> DEFINE new == c \in Oldest(PENDING)
           r == [pc |-> "list", charge |-> c,
                 number |-> IF new THEN lastNumber + 1 ELSE charge[c].invoice_number,
                 new |-> new,
                 amount |-> IF new /\ c \in CreditCardDiscount THEN "discounted"
                            ELSE charge[c].amount,
                 match |-> 0, stale |-> FALSE]
<1>1. request' = [request EXCEPT ![q] = r]
  BY DEF Begin, next
<1>2. r.pc = "list"
  OBVIOUS
<1> HIDE DEF r
<1>3. Matched(q)'
  BY <1>1, <1>2 DEF Matched, IInv, TypeOK
<1>4. \A i \in DOMAIN stripe : stripe[i] \in StripeCharge
  BY DEF IInv, TypeOK
<1>5. UNCHANGED <<charge, invoice, task, stripe>>
  BY DEF Begin
<1> QED
  BY <1>1, <1>3, <1>4, <1>5, RequestCardInv

LEMMA EndRequestCardInv ==
  ASSUME IInv, CardInv, NEW q \in Requests, EndRequest(q)
  PROVE  CardInv'
<1>1. Matched(q)'
  BY DEF EndRequest, Matched, Idle, IInv, TypeOK
<1>2. \A i \in DOMAIN stripe : stripe[i] \in StripeCharge
  BY DEF IInv, TypeOK
<1> QED
  BY <1>1, <1>2, RequestCardInv DEF EndRequest, StripeCharge

(* The charge that is found has the amount and, if it is, was captured. *)
LEMMA FindMatchCardInv ==
  ASSUME IInv, CardInv, NEW q \in Requests, FindMatch(q)
  PROVE  CardInv'
<1>1. /\ request[q] \in Request /\ UNCHANGED <<charge, invoice, task, stripe>>
      /\ \A i \in DOMAIN stripe : stripe[i] \in StripeCharge
      /\ request \in [Requests -> Request]
  BY DEF IInv, TypeOK, FindMatch
<1>2. CASE request' = [request EXCEPT ![q].pc = "create"]
  <2> DEFINE r == [request[q] EXCEPT !.pc = "create"]
  <2>1. request' = [request EXCEPT ![q] = r] /\ request'[q].pc = "create"
    BY <1>1, <1>2 DEF Request
  <2>2. Matched(q)'
    BY <2>1 DEF Matched
  <2> HIDE DEF r
  <2> QED
    BY <1>1, <2>1, <2>2, RequestCardInv DEF StripeCharge
<1>3. ASSUME NEW last \in Matches(request[q].charge), NEW pc,
             request' = [request EXCEPT ![q].match = last, ![q].pc = pc],
             pc = IF stripe[last].amount = request[q].amount
                  THEN AfterMatch(stripe[last]) ELSE "bug"
      PROVE  CardInv'
  <2> DEFINE r == [request[q] EXCEPT !.match = last, !.pc = pc]
  <2>1. /\ request' = [request EXCEPT ![q] = r] /\ request'[q] = r
        /\ r.pc = pc /\ r.match = last /\ r.charge = request[q].charge
        /\ r.amount = request[q].amount
    BY <1>1, <1>3 DEF Request
  <2>2. last \in DOMAIN stripe /\ stripe[last].osa_charge_id = request[q].charge
    BY DEF Matches
  <2> HIDE DEF r
  <2>3. Matched(q)'
    BY <1>1, <1>3, <2>1, <2>2 DEF Matched, AfterMatch, StripeCharge
  <2> QED
    BY <1>1, <2>1, <2>3, RequestCardInv DEF StripeCharge
<1> QED
  BY <1>2, <1>3 DEF FindMatch

LEMMA StripeCreateCardInv ==
  ASSUME IInv, CardInv, NEW q \in Requests, StripeCreate(q)
  PROVE  CardInv'
<1> DEFINE s == [osa_charge_id |-> request[q].charge, amount |-> request[q].amount,
                 captured |-> FALSE]
           r == [request[q] EXCEPT !.pc = "capture", !.match = Len(stripe')]
<1>1. /\ request[q] \in Request /\ request \in [Requests -> Request]
      /\ stripe \in Seq(StripeCharge) /\ UNCHANGED <<charge, invoice, task>>
      /\ stripe' = Append(stripe, s) /\ request' = [request EXCEPT ![q] = r]
  BY DEF IInv, TypeOK, StripeCreate
<1>2. s \in StripeCharge
  BY <1>1 DEF StripeCharge, Request
<1>3. /\ request'[q] = r /\ r.pc = "capture" /\ r.match = Len(stripe')
      /\ r.charge = request[q].charge /\ r.amount = request[q].amount
      /\ s.osa_charge_id = request[q].charge /\ s.amount = request[q].amount
  BY <1>1 DEF Request
<1> HIDE DEF r
<1>4. /\ Len(stripe') \in DOMAIN stripe' /\ stripe'[Len(stripe')] = s
      /\ DOMAIN stripe \subseteq DOMAIN stripe'
      /\ \A i \in DOMAIN stripe : stripe'[i] = stripe[i] /\ stripe[i] \in StripeCharge
  <2> HIDE DEF s
  <2> QED
    BY <1>1, <1>2
<1>5. Matched(q)'
  BY <1>3, <1>4 DEF Matched
<1> HIDE DEF s
<1> QED
  BY <1>1, <1>4, <1>5, RequestCardInv DEF StripeCharge

LEMMA StripeCaptureCardInv ==
  ASSUME IInv, CardInv, NEW q \in Requests, StripeCapture(q)
  PROVE  CardInv'
<1> DEFINE m == request[q].match
           r == [request[q] EXCEPT !.pc = "commit"]
<1>1. /\ request[q] \in Request /\ request \in [Requests -> Request]
      /\ request[q].pc = "capture" /\ UNCHANGED <<charge, invoice, task>>
      /\ request' = [request EXCEPT ![q] = r]
      /\ stripe' = [stripe EXCEPT ![m].captured = TRUE]
      /\ \A i \in DOMAIN stripe : stripe[i] \in StripeCharge
  BY DEF IInv, TypeOK, StripeCapture
<1>2. m \in DOMAIN stripe /\ Matched(q)
  BY <1>1 DEF CardInv, Matched
<1>3. /\ request'[q] = r /\ r.pc = "commit" /\ r.match = m
      /\ r.charge = request[q].charge /\ r.amount = request[q].amount
  BY <1>1 DEF Request
<1> HIDE DEF r
<1>4. /\ DOMAIN stripe' = DOMAIN stripe
      /\ \A i \in DOMAIN stripe : i # m => stripe'[i] = stripe[i]
      /\ stripe'[m] = [stripe[m] EXCEPT !.captured = TRUE]
  BY <1>1, <1>2
<1>5. stripe'[m] = [osa_charge_id |-> request[q].charge,
                    amount |-> request[q].amount, captured |-> TRUE]
  <2>1. stripe'[m] \in StripeCharge /\ stripe'[m].captured = TRUE
        /\ stripe'[m].osa_charge_id = stripe[m].osa_charge_id
        /\ stripe'[m].amount = stripe[m].amount
    <3>1. PICK old \in StripeCharge : old = stripe[m]
      BY <1>1, <1>2
    <3>2. stripe'[m] = [old EXCEPT !.captured = TRUE]
      BY <1>4, <3>1
    <3>3. /\ [old EXCEPT !.captured = TRUE] \in StripeCharge
          /\ [old EXCEPT !.captured = TRUE].captured = TRUE
          /\ [old EXCEPT !.captured = TRUE].osa_charge_id = old.osa_charge_id
          /\ [old EXCEPT !.captured = TRUE].amount = old.amount
      BY DEF StripeCharge
    <3> QED
      BY <3>1, <3>2, <3>3
  <2> QED
    BY <1>1, <1>2, <2>1, StripeChargeIs DEF Matched
<1>6. Matched(q)'
  BY <1>2, <1>3, <1>4, <1>5 DEF Matched
<1>7. ASSUME NEW i \in DOMAIN stripe
      PROVE  /\ stripe'[i] \in StripeCharge
             /\ stripe'[i].osa_charge_id = stripe[i].osa_charge_id
             /\ stripe'[i].amount = stripe[i].amount
             /\ stripe[i].captured => stripe'[i].captured
  <2>1. CASE i = m
    BY <1>1, <1>2, <1>4, <2>1 DEF StripeCharge
  <2>2. CASE i # m
    BY <1>1, <1>4, <2>2 DEF StripeCharge
  <2> QED
    BY <2>1, <2>2
<1> QED
  BY <1>1, <1>4, <1>6, <1>7, RequestCardInv

(* The commit writes the amount that was captured. *)
LEMMA CommitPaymentCardInv ==
  ASSUME IInv, CardInv, NEW q \in Requests, CommitPayment(q)
  PROVE  CardInv'
<1>c. request[q].charge \in Charges
  BY DEF IInv, TypeOK, Request
<1>d. PICK c \in Charges : c = request[q].charge
  BY <1>c
<1> DEFINE t == [charge |-> c, number |-> request[q].number, payment_type |-> "STRIPE"]
<1>1. /\ TypeOK /\ request[q] \in Request
      /\ request[q].pc = "commit" /\ Matched(q) /\ UNCHANGED <<invoice, stripe>>
      /\ task' = task \cup {t}
  BY <1>d DEF IInv, TypeOK, CommitPayment, CardInv
<1>2. \A d \in Charges : charge'[d].amount =
         IF d = c THEN request[q].amount ELSE charge[d].amount
  BY <1>1, <1>d DEF CommitPayment, TypeOK, ChargeEntity
<1>3. PICK m \in DOMAIN stripe : m = request[q].match
  BY <1>1 DEF Matched
<1>4. Covered(c)'
  <2>1. /\ stripe[m] \in StripeCharge /\ stripe[m].captured
        /\ stripe[m].osa_charge_id = c /\ stripe[m].amount = charge'[c].amount
    BY <1>1, <1>2, <1>3, <1>d DEF Matched, TypeOK
  <2>2. stripe'[m] = [osa_charge_id |-> c, amount |-> charge'[c].amount,
                      captured |-> TRUE]
    BY <1>1, <2>1, StripeChargeIs DEF StripeCharge
  <2> QED
    BY <1>1, <1>3, <2>2 DEF Covered
<1>5. ASSUME NEW d \in Charges, d # c, PaidByCard(d)' PROVE Covered(d)'
  <2>1. PaidByCard(d)
    BY <1>1, <1>5 DEF PaidByCard, Invoices
  <2> QED
    BY <1>1, <1>2, <1>5, <2>1 DEF CardInv, Covered
<1>6. ASSUME NEW p \in Requests PROVE Matched(p)'
  <2>1. request[p] \in Request
    BY <1>1 DEF TypeOK
  <2>2. CASE p = q
    BY <2>2 DEF CommitPayment, Matched, Idle
  <2>3. CASE p # q
    <3>1. /\ request'[p].pc = request[p].pc /\ request'[p].match = request[p].match
          /\ request'[p].charge = request[p].charge
          /\ request'[p].amount = request[p].amount
      BY <2>1, <2>3 DEF CommitPayment, Request
    <3> QED
      BY <1>1, <3>1 DEF CardInv, Matched
  <2> QED
    BY <2>2, <2>3
<1>7. ASSUME NEW d \in Charges, PaidByCard(d)' PROVE Covered(d)'
  BY <1>4, <1>5, <1>7
<1> QED
  BY <1>6, <1>7 DEF CardInv

LEMMA NextCardInv == IInv /\ CardInv /\ [Next]_vars => CardInv'
<1> SUFFICES ASSUME IInv, CardInv, [Next]_vars PROVE CardInv'
  OBVIOUS
<1>1. ASSUME NEW c \in Charges, manual_payment(c) PROVE CardInv'
  BY <1>1, ExecuteCardInv, MarkInvoicePaidCardInv DEF manual_payment, PaymentTypes
<1>2. ASSUME NEW c \in Charges, finish_on_site_payment(c) PROVE CardInv'
  BY <1>2, ExecuteCardInv DEF finish_on_site_payment, PaymentTypes
<1>3. ASSUME NEW q \in Requests, NEW c \in Charges, get_payed(q, c) PROVE CardInv'
  BY <1>3, BeginCardInv DEF get_payed
<1>4. ASSUME NEW q \in Requests, RetryPayment(q) PROVE CardInv'
  <2>1. request[q].charge \in Charges
    BY DEF IInv, TypeOK, Request
  <2> QED
    BY <1>4, <2>1, BeginCardInv DEF RetryPayment
<1>5. CASE UNCHANGED vars
  BY <1>5 DEF CardInv, vars, Matched, PaidByCard, Covered, Invoices
<1> QED
  BY <1>1, <1>2, <1>3, <1>4, <1>5, CancelCardInv, CreateInvoiceCardInv,
     FindMatchCardInv, StripeCreateCardInv, StripeCaptureCardInv,
     CommitPaymentCardInv, EndRequestCardInv
  DEF Next

(* Whatever ends, is run again or overtaken while get_payed talks to Stripe, *)
(* an invoice that says it was paid by card is covered by a captured charge *)
(* of the amount that the Charge entity has.                                *)
THEOREM CardPaymentsAreCovered == Spec => []CardInvoiceIsCovered
<1>1. CardInv => CardInvoiceIsCovered
  BY DEF CardInv, CardInvoiceIsCovered, PaidByCard, Covered
<1> QED
  BY <1>1, InitIInv, NextIInv, InitCardInv, NextCardInv, PTL DEF Spec

-----------------------------------------------------------------------------
(* An invoice that was paid stays paid, though an earlier task that made   *)
(* it runs again (create_invoice, _mark_charge_as_executed).               *)
LEMMA PaidIsKept ==
  ASSUME IInv, [Next]_vars, NEW c \in Charges, NEW n \in 1 .. MaxNumber, invoice[c][n].paid
  PROVE  invoice'[c][n].paid
<1>1. CASE invoice' = invoice
  BY <1>1
<1>2. /\ invoice \in [Charges -> [1 .. MaxNumber -> InvoiceEntity]] /\ task \subseteq Task
      /\ invoice[c][n] \in InvoiceEntity
  BY DEF IInv, TypeOK
<1>3. ASSUME NEW d \in Charges, NEW p, MarkInvoicePaid(d, p)
      PROVE  invoice'[c][n].paid
  <2>1. PICK m \in 1 .. MaxNumber : invoice' = [invoice EXCEPT ![d][m].paid = TRUE]
    BY <1>3 DEF MarkInvoicePaid, Invoices
  <2>2. CASE c = d /\ n = m
    <3>1. invoice'[c][n] = [invoice[c][n] EXCEPT !.paid = TRUE]
      BY <1>2, <2>1, <2>2
    <3> QED
      BY <1>2, <3>1 DEF InvoiceEntity
  <2>3. CASE ~(c = d /\ n = m)
    BY <1>2, <2>1, <2>3
  <2> QED
    BY <2>2, <2>3
<1>4. ASSUME NEW t \in task, create_invoice(t)
      PROVE  invoice'[c][n].paid
  <2> DEFINE r == [exists |-> TRUE, paid |-> Paid(invoice[t.charge][t.number], t),
                   payment_type |-> t.payment_type]
  <2>1. invoice' = [invoice EXCEPT ![t.charge][t.number] = r]
    BY <1>4 DEF create_invoice
  <2>2. c = t.charge /\ n = t.number => r.paid
    BY DEF Paid
  <2> HIDE DEF r
  <2>3. t.charge \in Charges /\ t.number \in 1 .. MaxNumber
    BY <1>2 DEF Task
  <2> QED
    BY <1>2, <2>1, <2>2, <2>3
<1>5. CASE \/ \E d \in Charges : \/ finish_on_site_payment(d)
                                 \/ \E p \in PaymentTypes : Execute(d, p)
           \/ cancel_order \/ UNCHANGED vars
           \/ \E q \in Requests, d \in Charges : get_payed(q, d)
           \/ \E q \in Requests : \/ FindMatch(q) \/ StripeCreate(q) \/ StripeCapture(q)
                                  \/ CommitPayment(q) \/ RetryPayment(q) \/ EndRequest(q)
  <2>1. invoice' = invoice
    BY <1>5 DEF finish_on_site_payment, Execute, cancel_order, vars, get_payed, Begin,
       FindMatch, StripeCreate, StripeCapture, CommitPayment, RetryPayment, EndRequest
  <2> QED
    BY <1>1, <2>1
<1> QED
  BY <1>3, <1>4, <1>5 DEF Next, manual_payment, PaymentTypes

THEOREM PaidInvoicesStayPaid == Spec => PaidStaysPaid
<1>1. IInv /\ [Next]_vars =>
        [\A c \in Charges, n \in 1 .. MaxNumber :
           invoice[c][n].paid => invoice'[c][n].paid]_vars
  BY PaidIsKept
<1> QED
  BY <1>1, InitIInv, NextIInv, PTL DEF Spec, PaidStaysPaid

-----------------------------------------------------------------------------
(* The card is charged once when no two requests pay the same charge at    *)
(* the same time: what is at Stripe of a charge is found by its id, and    *)
(* nothing is made next to it.                                             *)

OneMatch ==
  \A i, j \in DOMAIN stripe : stripe[i].osa_charge_id = stripe[j].osa_charge_id => i = j

NothingToFind ==
  \A q \in Requests : request[q].pc = "create" =>
     \A i \in DOMAIN stripe : stripe[i].osa_charge_id # request[q].charge

OnceInv == IInv /\ OneAtATime /\ OneMatch /\ NothingToFind

(* No request comes to make a charge at Stripe.                            *)
NoneComes ==
  \A q \in Requests : request'[q].pc = "create" =>
     request[q].pc = "create" /\ request'[q].charge = request[q].charge

LEMMA NoneComesOnce ==
  ASSUME OnceInv, IInv', OneAtATime', stripe' = stripe, NoneComes
  PROVE  OnceInv'
  BY DEF OnceInv, OneMatch, NothingToFind, NoneComes

LEMMA CommittedComes ==
  ASSUME OnceInv, Committed
  PROVE  NoneComes
<1>1. ASSUME NEW q \in Requests
      PROVE  request'[q].pc = request[q].pc /\ request'[q].charge = request[q].charge
  <2>1. request[q] \in Request
    BY DEF OnceInv, IInv, TypeOK
  <2>2. request'[q] = request[q] \/ request'[q] = [request[q] EXCEPT !.stale = TRUE]
    BY DEF Committed
  <2> QED
    BY <2>1, <2>2 DEF Request
<1> QED
  BY <1>1 DEF NoneComes

LEMMA BeginComes ==
  ASSUME OnceInv, NEW q \in Requests, NEW c, Begin(q, c)
  PROVE  NoneComes /\ stripe' = stripe
<1> DEFINE new == c \in Oldest(PENDING)
           r == [pc |-> "list", charge |-> c,
                 number |-> IF new THEN next(lastNumber)
                            ELSE charge[c].invoice_number,
                 new |-> new,
                 amount |-> IF new /\ c \in CreditCardDiscount THEN "discounted"
                            ELSE charge[c].amount,
                 match |-> 0, stale |-> FALSE]
<1>1. request' = [request EXCEPT ![q] = r] /\ stripe' = stripe
  BY DEF Begin
<1>2. r.pc = "list"
  OBVIOUS
<1> HIDE DEF r
<1>3. request'[q] = r /\ \A p \in Requests : p = q \/ request'[p] = request[p]
  BY <1>1 DEF OnceInv, IInv, TypeOK
<1> QED
  BY <1>1, <1>2, <1>3 DEF NoneComes

LEMMA FindMatchOnce ==
  ASSUME OnceInv, IInv', OneAtATime', NEW q \in Requests, FindMatch(q)
  PROVE  OnceInv'
<1>1. stripe' = stripe /\ request[q] \in Request
  BY DEF FindMatch, OnceInv, IInv, TypeOK
<1>2. CASE Matches(request[q].charge) = {} /\ request' = [request EXCEPT ![q].pc = "create"]
  <2>1. \A i \in DOMAIN stripe : stripe[i].osa_charge_id # request[q].charge
    BY <1>2 DEF Matches
  <2>2. request'[q].charge = request[q].charge
    <3>1. request'[q] = [request[q] EXCEPT !.pc = "create"]
      BY <1>2 DEF OnceInv, IInv, TypeOK
    <3> QED
      BY <1>1, <3>1 DEF Request
  <2>3. \A p \in Requests : p = q \/ request'[p] = request[p]
    BY <1>2 DEF OnceInv, IInv, TypeOK
  <2> QED
    BY <1>1, <2>1, <2>2, <2>3 DEF OnceInv, OneMatch, NothingToFind
<1>3. CASE \E last : request' = [request EXCEPT ![q].match = last,
             ![q].pc = IF stripe[last].amount = request[q].amount
                       THEN AfterMatch(stripe[last]) ELSE "bug"]
  <2>1. PICK m : request' = [request EXCEPT ![q].match = m,
             ![q].pc = IF stripe[m].amount = request[q].amount
                       THEN AfterMatch(stripe[m]) ELSE "bug"]
    BY <1>3
  <2>2. PICK pc : pc = (IF stripe[m].amount = request[q].amount
                        THEN AfterMatch(stripe[m]) ELSE "bug")
    OBVIOUS
  <2>3. pc # "create"
    BY <2>2 DEF AfterMatch
  <2>4. request' = [request EXCEPT ![q].match = m, ![q].pc = pc]
    BY <2>1, <2>2
  <2>5. request'[q].pc = pc /\ \A p \in Requests : p = q \/ request'[p] = request[p]
    BY <1>1, <2>4 DEF OnceInv, IInv, TypeOK, Request
  <2>6. NoneComes
    BY <2>3, <2>5 DEF NoneComes
  <2> QED
    BY <1>1, <2>6, NoneComesOnce
<1> QED
  BY <1>2, <1>3 DEF FindMatch

(* Nobody else pays the charge that is made at Stripe now.                 *)
LEMMA StripeCreateOnce ==
  ASSUME OnceInv, IInv', OneAtATime', NEW q \in Requests, StripeCreate(q)
  PROVE  OnceInv'
<1> DEFINE s == [osa_charge_id |-> request[q].charge, amount |-> request[q].amount,
                 captured |-> FALSE]
<1>1. /\ stripe \in Seq(StripeCharge) /\ request[q].pc = "create"
      /\ s.osa_charge_id = request[q].charge /\ request[q] \in Request
  BY DEF OnceInv, IInv, TypeOK, StripeCreate
<1>2. stripe' = Append(stripe, s)
  BY DEF StripeCreate
<1>3. s \in StripeCharge
  BY <1>1 DEF Request, StripeCharge
<1> HIDE DEF s
<1>4. /\ DOMAIN stripe' = 1 .. Len(stripe) + 1 /\ Len(stripe) \in Nat
      /\ DOMAIN stripe = 1 .. Len(stripe)
      /\ \A i \in DOMAIN stripe : stripe'[i] = stripe[i]
      /\ stripe'[Len(stripe) + 1] = s
  BY <1>1, <1>2, <1>3
<1>5. \A i \in DOMAIN stripe' : i \in DOMAIN stripe \/ i = Len(stripe) + 1
  BY <1>4
<1>6. \A i \in DOMAIN stripe : stripe[i].osa_charge_id # s.osa_charge_id
  BY <1>1 DEF OnceInv, NothingToFind
<1>7. OneMatch'
  BY <1>4, <1>5, <1>6 DEF OnceInv, OneMatch
<1>8. /\ request'[q].pc = "capture"
      /\ \A p \in Requests : p = q \/ request'[p] = request[p]
  <2>1. PICK m : request' = [request EXCEPT ![q].pc = "capture", ![q].match = m]
    BY DEF StripeCreate
  <2> QED
    BY <1>1, <2>1 DEF OnceInv, IInv, TypeOK, Request
<1>9. \A p \in Requests : p # q /\ request[p].pc = "create" =>
        request[p].charge # s.osa_charge_id
  BY <1>1 DEF OnceInv, OneAtATime
<1>10. NothingToFind'
  <2> SUFFICES ASSUME NEW p \in Requests, request'[p].pc = "create",
                      NEW i \in DOMAIN stripe'
               PROVE  stripe'[i].osa_charge_id # request'[p].charge
    BY DEF NothingToFind
  <2>1. p # q /\ request'[p] = request[p]
    BY <1>8
  <2>2. CASE i \in DOMAIN stripe
    BY <1>4, <2>1, <2>2 DEF OnceInv, NothingToFind
  <2>3. CASE i = Len(stripe) + 1
    BY <1>4, <1>9, <2>1, <2>3
  <2> QED
    BY <1>5, <2>2, <2>3
<1> QED
  BY <1>7, <1>10 DEF OnceInv

LEMMA StripeCaptureOnce ==
  ASSUME OnceInv, IInv', OneAtATime', NEW q \in Requests, StripeCapture(q)
  PROVE  OnceInv'
<1>1. PICK m : stripe' = [stripe EXCEPT ![m].captured = TRUE]
  BY DEF StripeCapture
<1>2. stripe \in Seq(StripeCharge) /\ DOMAIN stripe' = DOMAIN stripe
  BY <1>1 DEF OnceInv, IInv, TypeOK
<1>3. ASSUME NEW i \in DOMAIN stripe
      PROVE  stripe'[i].osa_charge_id = stripe[i].osa_charge_id
  <2>1. stripe[i] \in StripeCharge
    BY <1>2
  <2>2. stripe'[i] = stripe[i] \/ stripe'[i] = [stripe[i] EXCEPT !.captured = TRUE]
    BY <1>1, <1>2
  <2> QED
    BY <2>1, <2>2 DEF StripeCharge
<1>4. NoneComes
  <2>1. request[q] \in Request /\ request' = [request EXCEPT ![q].pc = "commit"]
    BY DEF OnceInv, IInv, TypeOK, StripeCapture
  <2>2. request'[q].pc = "commit" /\ \A p \in Requests : p = q \/ request'[p] = request[p]
    BY <2>1 DEF OnceInv, IInv, TypeOK, Request
  <2> QED
    BY <2>2 DEF NoneComes
<1> QED
  BY <1>2, <1>3, <1>4 DEF OnceInv, OneMatch, NothingToFind, NoneComes

LEMMA EndComes ==
  ASSUME OnceInv, NEW q \in Requests, CommitPayment(q) \/ EndRequest(q)
  PROVE  NoneComes /\ stripe' = stripe
<1>1. Idle.pc # "create"
  BY DEF Idle
<1>2. ASSUME NEW p \in Requests
      PROVE  request'[p] \in {Idle, request[p], [request[p] EXCEPT !.stale = TRUE]}
  BY DEF CommitPayment, EndRequest, OnceInv, IInv, TypeOK
<1>3. ASSUME NEW p \in Requests
      PROVE  /\ [request[p] EXCEPT !.stale = TRUE].pc = request[p].pc
             /\ [request[p] EXCEPT !.stale = TRUE].charge = request[p].charge
  <2>1. request[p] \in Request
    BY DEF OnceInv, IInv, TypeOK
  <2> QED
    BY <2>1 DEF Request
<1>4. ASSUME NEW p \in Requests, request'[p].pc = "create"
      PROVE  request[p].pc = "create" /\ request'[p].charge = request[p].charge
  BY <1>1, <1>2, <1>3, <1>4
<1> QED
  BY <1>4 DEF NoneComes, CommitPayment, EndRequest

LEMMA NextOnce ==
  ASSUME OnceInv, Next, OneAtATime'
  PROVE  OnceInv'
<1>1. IInv'
  BY NextIInv DEF OnceInv
<1>2. CASE \/ \E c \in Charges : manual_payment(c) \/ finish_on_site_payment(c)
           \/ cancel_order \/ \E t \in task : create_invoice(t)
  <2>1. Committed /\ stripe' = stripe
    BY <1>2 DEF manual_payment, finish_on_site_payment, Execute, MarkInvoicePaid,
       cancel_order, create_invoice
  <2> QED
    BY <1>1, <2>1, CommittedComes, NoneComesOnce
<1>3. CASE \/ \E q \in Requests, c \in Charges : get_payed(q, c)
           \/ \E q \in Requests : CommitPayment(q) \/ RetryPayment(q) \/ EndRequest(q)
  <2>1. NoneComes /\ stripe' = stripe
    BY <1>3, BeginComes, EndComes DEF get_payed, RetryPayment
  <2> QED
    BY <1>1, <2>1, NoneComesOnce
<1>4. CASE \E q \in Requests : FindMatch(q) \/ StripeCreate(q) \/ StripeCapture(q)
  BY <1>1, <1>4, FindMatchOnce, StripeCreateOnce, StripeCaptureOnce
<1> QED
  BY <1>2, <1>3, <1>4 DEF Next

LEMMA OneIsCaptured == OnceInv => CapturedOnce
<1> SUFFICES ASSUME OnceInv, NEW c \in Charges
             PROVE  Cardinality(CapturedFor(c)) <= 1
  BY DEF CapturedOnce
<1>1. \A i, j \in CapturedFor(c) : i = j
  BY DEF OnceInv, OneMatch, CapturedFor
<1>2. CASE CapturedFor(c) = {}
  BY <1>2, FS_EmptySet
<1>3. CASE CapturedFor(c) # {}
  <2>1. PICK i : CapturedFor(c) = {i}
    BY <1>1, <1>3
  <2> QED
    BY <2>1, FS_Singleton
<1> QED
  BY <1>2, <1>3

LEMMA InitOnce == Init => OnceInv
<1> SUFFICES ASSUME Init PROVE OnceInv
  OBVIOUS
<1>1. stripe = <<>> /\ \A q \in Requests : request[q].pc = "idle"
  BY DEF Init, Idle
<1> QED
  BY <1>1, InitIInv DEF OnceInv, OneAtATime, OneMatch, NothingToFind

LEMMA StepOnce == OnceInv /\ [Next /\ OneAtATime']_vars => OnceInv'
<1>1. ASSUME OnceInv, UNCHANGED vars
      PROVE  OnceInv'
  <2>1. IInv'
    BY <1>1, NextIInv DEF OnceInv
  <2> QED
    BY <1>1, <2>1 DEF OnceInv, OneAtATime, OneMatch, NothingToFind, vars
<1> QED
  BY <1>1, NextOnce

(* The card is charged once for a charge when no two requests pay it at    *)
(* the same time, though a request may end at any point, its transaction   *)
(* may be run again, and another may come after it (get_payed).            *)
THEOREM OneAtATimeIsCapturedOnce == SpecOneAtATime => []CapturedOnce
  BY InitOnce, StepOnce, OneIsCaptured, PTL DEF SpecOneAtATime

-----------------------------------------------------------------------------
(* What MCRaces composes: a step of it is one of Payments, or leaves it as *)
(* it is; and each charge is paid by one request at a time if it began so. *)
LEMMA RacesStep ==
  ASSUME [RacesNext]_<<component, vars, reservation_vars>>
  PROVE  [Next]_vars /\ component' = component
<1>1. RacesNext => [Next]_vars /\ component' = component
  BY DEF RacesNext
<1> QED
  BY <1>1

LEMMA RacesStepEach ==
  ASSUME [RacesNext]_<<component, vars, reservation_vars>>,
         component = "one_at_a_time"
  PROVE  [Next /\ OneAtATime']_vars
  BY DEF RacesNext

(* Where the requests pay a charge one after the other, its card is charged *)
(* once, next to those that race for another.                              *)
THEOREM EachIsCapturedOnce == RacesSpec => []CapturedOnceEach
<1>1. RacesInit => (component = "one_at_a_time" => OnceInv)
  BY InitOnce DEF RacesInit
<1>2. ASSUME [RacesNext]_<<component, vars, reservation_vars>>,
             component = "one_at_a_time" => OnceInv
      PROVE  (component = "one_at_a_time" => OnceInv)'
  BY <1>2, RacesStep, RacesStepEach, StepOnce
<1>3. (component = "one_at_a_time" => OnceInv) => CapturedOnceEach
  BY OneIsCaptured DEF CapturedOnceEach
<1> QED
  BY <1>1, <1>2, <1>3, PTL DEF RacesSpec
=============================================================================
