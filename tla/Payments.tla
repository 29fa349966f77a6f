------------------------------ MODULE Payments ------------------------------
(***************************************************************************)
(* How the charges of a customer are paid and invoiced: get_payed (by      *)
(* credit card, through Stripe), manual_payment, finish_on_site_payment,   *)
(* the deferred create_invoice, and the cancellation of what is pending,   *)
(* all in shop/bizz.py.                                                    *)
(*                                                                         *)
(* Each of them is a datastore transaction on the entity group of the      *)
(* customer.  All but get_payed are one action.  The transaction of        *)
(* get_payed calls Stripe in its middle, and what it did there stays done  *)
(* when the transaction is rolled back, run again or never ends.           *)
(***************************************************************************)
EXTENDS Naturals, Sequences, FiniteSets

CONSTANTS Charges,       \* ids of the customer's charges, in the order of their dates
          CreditCardDiscount, \* charges the CRED product is added to when paid by card
          Requests,      \* requests that run get_payed
          MaxNumber,     \* bound: invoice numbers
          MaxStripe      \* bound: charges made at Stripe

ASSUME PaymentsAssumption ==
  /\ Charges \subseteq Nat /\ Charges # {}
  /\ CreditCardDiscount \subseteq Charges
  /\ MaxNumber \in Nat
  /\ MaxStripe \in Nat

VARIABLES
  charge,      \* the Charge entities
  invoice,     \* the Invoice entities, by charge and invoice number
  lastNumber,  \* the InvoiceNumber sequence of the legal entity
  task,        \* create_invoice tasks on the queue
  stripe,      \* the charges at Stripe, oldest first
  request      \* the get_payed requests

vars == <<charge, invoice, lastNumber, task, stripe, request>>

-----------------------------------------------------------------------------
PENDING   == "pending"
EXECUTED  == "executed"
CANCELLED == "cancelled"

ChargeEntity ==
  [status: {PENDING, EXECUTED, CANCELLED}, amount: {"full", "discounted"},
   invoice_number: 0 .. MaxNumber]             \* 0: ''

PaymentTypes == {"STRIPE", "ON_SITE", "MANUAL", "MANUAL_AFTER"}

NoInvoice == [exists |-> FALSE, paid |-> FALSE, payment_type |-> "MANUAL"]

InvoiceEntity == [exists: BOOLEAN, paid: BOOLEAN, payment_type: PaymentTypes]

Task == [charge: Charges, number: 1 .. MaxNumber, payment_type: PaymentTypes]

StripeCharge ==
  [osa_charge_id: Charges, amount: {"full", "discounted"}, captured: BOOLEAN]

(* match: the position of the charge at Stripe, 0 while there is none.     *)
(* stale: something was committed since the transaction began.             *)
Request ==
  [pc: {"idle", "list", "create", "capture", "commit", "bug"},
   charge: Charges, number: 0 .. MaxNumber, new: BOOLEAN,
   amount: {"full", "discounted"}, match: 0 .. MaxStripe, stale: BOOLEAN]

Idle == [pc |-> "idle", charge |-> CHOOSE c \in Charges : TRUE, number |-> 0,
         new |-> FALSE, amount |-> "full", match |-> 0, stale |-> FALSE]

TypeOK ==
  /\ charge \in [Charges -> ChargeEntity]
  /\ invoice \in [Charges -> [1 .. MaxNumber -> InvoiceEntity]]
  /\ lastNumber \in 0 .. MaxNumber
  /\ task \subseteq Task
  /\ stripe \in Seq(StripeCharge) /\ Len(stripe) <= MaxStripe
  /\ request \in [Requests -> Request]

Init ==
  /\ charge = [c \in Charges |-> [status |-> PENDING, amount |-> "full",
                                  invoice_number |-> 0]]
  /\ invoice = [c \in Charges |-> [n \in 1 .. MaxNumber |-> NoInvoice]]
  /\ lastNumber = 0
  /\ task = {}
  /\ stripe = <<>>
  /\ request = [q \in Requests |-> Idle]

Invoices(c) == {n \in 1 .. MaxNumber : invoice[c][n].exists}

(* A commit in the entity group of the customer makes every transaction    *)
(* fail that has begun before.                                             *)
Committed ==
  request' = [q \in Requests |->
                IF request[q].pc = "idle" THEN request[q]
                ELSE [request[q] EXCEPT !.stale = TRUE]]

-----------------------------------------------------------------------------
(* InvoiceNumber.next *)
next(last) == last + 1

(* Mutant: a charge may be executed again. *)
MayExecuteAgain(c) == TRUE

MayExecute(c) == charge[c].status # EXECUTED

(* _mark_charge_as_executed, for a charge that is not executed ...         *)
Execute(c, payment_type) ==
  /\ MayExecute(c)
  /\ lastNumber < MaxNumber
  /\ charge' = [charge EXCEPT ![c].status = EXECUTED]
  /\ lastNumber' = next(lastNumber)
  /\ task' = task \cup {[charge |-> c, number |-> lastNumber',
                         payment_type |-> payment_type]}
  /\ Committed
  /\ UNCHANGED <<invoice, stripe>>

(* ... and for one that is: its one invoice was paid in the meantime.      *)
MarkInvoicePaid(c, payment_type) ==
  /\ charge[c].status = EXECUTED
  /\ payment_type # "MANUAL_AFTER"
  /\ \E n \in Invoices(c) :
       /\ Invoices(c) = {n}
       /\ invoice' = [invoice EXCEPT ![c][n].paid = TRUE]
  /\ Committed
  /\ UNCHANGED <<charge, lastNumber, task, stripe>>

manual_payment(c) ==
  \E payment_type \in {"MANUAL", "MANUAL_AFTER"} :
     Execute(c, payment_type) \/ MarkInvoicePaid(c, payment_type)

(* Returns without a change when the charge is executed already. *)
finish_on_site_payment(c) == Execute(c, "ON_SITE")

(* cancel_order cancels every pending charge of the order. *)
cancel_order ==
  /\ \E c \in Charges : charge[c].status = PENDING
  /\ charge' = [c \in Charges |->
                  IF charge[c].status = PENDING
                  THEN [charge[c] EXCEPT !.status = CANCELLED]
                  ELSE charge[c]]
  /\ Committed
  /\ UNCHANGED <<invoice, lastNumber, task, stripe>>

(* Mutant: the charge must point to the invoice already. *)
MayInvoiceAgain(c, n) == charge[c].invoice_number = n

(* Whether create_invoice goes on with this number. *)
MayInvoice(c, n) == charge[c].invoice_number \in {0, n}

(* Mutant: a second run of the task resets what was paid since the first. *)
PaidByTaskOnly(old, t) == t.payment_type # "MANUAL_AFTER"

Paid(old, t) == old.paid \/ t.payment_type # "MANUAL_AFTER"

(* The task queue runs a task at least once: it may stay on the queue. *)
create_invoice(t) ==
  /\ MayInvoice(t.charge, t.number)
  /\ invoice' = [invoice EXCEPT ![t.charge][t.number] =
       [exists |-> TRUE, paid |-> Paid(@, t), payment_type |-> t.payment_type]]
  /\ charge' = [charge EXCEPT ![t.charge].invoice_number = t.number]
  /\ task' \in {task, task \ {t}}
  /\ Committed
  /\ UNCHANGED <<lastNumber, stripe>>

-----------------------------------------------------------------------------
(* get_payed                                                               *)

Oldest(status) ==
  {c \in Charges : /\ charge[c].status = status
                   /\ \A d \in Charges : charge[d].status = status => c <= d}

(* Mutant: an executed charge need not have an invoice.                     *)
MayBePaidBefore(c) == c \in Oldest(PENDING) \cup Oldest(EXECUTED)

(* The charge must be the oldest pending one, or the oldest executed one   *)
(* with one invoice that is not paid yet.                                  *)
MayBePaid(c) ==
  \/ c \in Oldest(PENDING)
  \/ /\ c \in Oldest(EXECUTED)
     /\ \E n \in Invoices(c) : Invoices(c) = {n} /\ ~invoice[c][n].paid

(* Up to the search at Stripe.  Only a charge that has no invoice gets the *)
(* discount and an invoice number.                                         *)
Begin(q, c) ==
  LET new == c \in Oldest(PENDING) IN
  /\ MayBePaid(c)
  /\ new => lastNumber < MaxNumber
  /\ request' = [request EXCEPT ![q] =
       [pc |-> "list", charge |-> c,
        number |-> IF new THEN next(lastNumber) ELSE charge[c].invoice_number,
        new |-> new,
        amount |-> IF new /\ c \in CreditCardDiscount THEN "discounted"
                   ELSE charge[c].amount,
        match |-> 0, stale |-> FALSE]]
  /\ UNCHANGED <<charge, invoice, lastNumber, task, stripe>>

get_payed(q, c) == request[q].pc = "idle" /\ Begin(q, c)

(* Mutant: the charges at Stripe are not searched. *)
MatchesNothing(c) == {}

(* The charges at Stripe with this id; the list has the last one first.    *)
Matches(c) == {i \in DOMAIN stripe : stripe[i].osa_charge_id = c}

(* Mutant: a charge at Stripe that is found counts as captured. *)
AfterMatchCommits(match) == "commit"

AfterMatch(match) == IF match.captured THEN "commit" ELSE "capture"

FindMatch(q) ==
  LET r == request[q]
      found == Matches(r.charge)
  IN
  /\ r.pc = "list"
  /\ \/ /\ found = {}
        /\ request' = [request EXCEPT ![q].pc = "create"]
     \/ \E last \in found :
          /\ \A i \in found : i <= last
          /\ request' = [request EXCEPT ![q].match = last,
               ![q].pc = IF stripe[last].amount = r.amount
                         THEN AfterMatch(stripe[last]) ELSE "bug"]
  /\ UNCHANGED <<charge, invoice, lastNumber, task, stripe>>

StripeCreate(q) ==
  LET r == request[q] IN
  /\ r.pc = "create"
  /\ Len(stripe) < MaxStripe
  /\ stripe' = Append(stripe, [osa_charge_id |-> r.charge, amount |-> r.amount,
                               captured |-> FALSE])
  /\ request' = [request EXCEPT ![q].pc = "capture", ![q].match = Len(stripe')]
  /\ UNCHANGED <<charge, invoice, lastNumber, task>>

StripeCapture(q) ==
  /\ request[q].pc = "capture"
  /\ ~stripe[request[q].match].captured
  /\ stripe' = [stripe EXCEPT ![request[q].match].captured = TRUE]
  /\ request' = [request EXCEPT ![q].pc = "commit"]
  /\ UNCHANGED <<charge, invoice, lastNumber, task>>

(* Mutant: the commit does not notice what was committed meanwhile. *)
MayCommitStale(r) == TRUE

MayCommit(r) == ~r.stale

CommitPayment(q) ==
  LET r == request[q] IN
  /\ r.pc = "commit"
  /\ MayCommit(r)
  /\ charge' = [charge EXCEPT ![r.charge].status = EXECUTED,
                              ![r.charge].amount = r.amount]
  /\ lastNumber' = IF r.new THEN r.number ELSE lastNumber
  /\ task' = task \cup {[charge |-> r.charge, number |-> r.number,
                         payment_type |-> "STRIPE"]}
  /\ request' = [p \in Requests |->
       IF p = q THEN Idle
       ELSE IF request[p].pc = "idle" THEN request[p]
       ELSE [request[p] EXCEPT !.stale = TRUE]]
  /\ UNCHANGED <<invoice, stripe>>

(* The commit of a stale transaction fails; so may any other, the sequence *)
(* of invoice numbers is shared.  The transaction is run again ...         *)
RetryPayment(q) ==
  /\ request[q].pc = "commit"
  /\ Begin(q, request[q].charge)

(* ... or the request ends: a check fails, Stripe refuses, it takes too    *)
(* long, the last retry fails.                                             *)
EndRequest(q) ==
  /\ request[q].pc # "idle"
  /\ request' = [request EXCEPT ![q] = Idle]
  /\ UNCHANGED <<charge, invoice, lastNumber, task, stripe>>

-----------------------------------------------------------------------------
Next ==
  \/ \E c \in Charges : manual_payment(c) \/ finish_on_site_payment(c)
  \/ cancel_order
  \/ \E t \in task : create_invoice(t)
  \/ \E q \in Requests, c \in Charges : get_payed(q, c)
  \/ \E q \in Requests : \/ FindMatch(q) \/ StripeCreate(q) \/ StripeCapture(q)
                         \/ CommitPayment(q) \/ RetryPayment(q)
                         \/ EndRequest(q)

Spec == Init /\ [][Next]_vars

(* The task queue runs what is on it. *)
Fairness == \A t \in Task : WF_vars(t \in task /\ create_invoice(t))

FairSpec == Spec /\ Fairness

-----------------------------------------------------------------------------
(* Properties                                                              *)

Numbers(c) == Invoices(c) \cup {t.number : t \in {u \in task : u.charge = c}}

(* A charge is invoiced once, however often it is paid, by whatever way,   *)
(* and however often the task that makes the invoice runs.                 *)
InvoicedOnce == \A c \in Charges : \A m, n \in Numbers(c) : m = n

(* The numbers of the invoices have no gaps and no duplicates: a number    *)
(* that was given out belongs to one charge, one that was not to none.     *)
NumbersAccounted ==
  /\ \A n \in 1 .. MaxNumber :
       n <= lastNumber <=> \E c \in Charges : n \in Numbers(c)
  /\ \A c, d \in Charges : c # d => Numbers(c) \cap Numbers(d) = {}

(* An invoice that says it was paid by card is covered by a charge at      *)
(* Stripe that was captured, of the same amount.                           *)
CardInvoiceIsCovered ==
  \A c \in Charges : \A n \in Invoices(c) :
     invoice[c][n].payment_type = "STRIPE" =>
       \E i \in DOMAIN stripe : stripe[i] =
          [osa_charge_id |-> c, amount |-> charge[c].amount, captured |-> TRUE]

CapturedFor(c) ==
  {i \in DOMAIN stripe : stripe[i].osa_charge_id = c /\ stripe[i].captured}

(* The card is charged once for a charge, though a request may end at any  *)
(* point and be made again: what the search at Stripe is for.              *)
CapturedOnce == \A c \in Charges : Cardinality(CapturedFor(c)) <= 1

(* No two requests pay the same charge at the same time.                   *)
OneAtATime ==
  \A p, q \in Requests :
     /\ request[p].pc # "idle" /\ request[q].pc # "idle"
     /\ request[p].charge = request[q].charge
     => p = q

SpecOneAtATime == Init /\ [][Next /\ OneAtATime']_vars

(* An invoice that was paid stays paid, though an earlier task that made   *)
(* it may run again.                                                       *)
PaidStaysPaid ==
  [][\A c \in Charges, n \in 1 .. MaxNumber :
       invoice[c][n].paid => invoice'[c][n].paid]_vars

(* Whoever paid gets an invoice. *)
ExecutedIsInvoiced ==
  \A c \in Charges : charge[c].status = EXECUTED ~> Invoices(c) # {}
=============================================================================
