---------------------------- MODULE LoyaltyCards ----------------------------
(***************************************************************************)
(* The stamps, or visits for a discount, of one customer of a shop, and    *)
(* his last scan: solutions/common/bizz/loyalty.py, restapi/loyalty.py.    *)
(*                                                                         *)
(* A visit for a discount counts for one, a visit for stamps for as many   *)
(* as the shopkeeper gives.                                                *)
(***************************************************************************)
EXTENDS Naturals, Sequences, FiniteSets, SequencesExt

CONSTANTS
  Requests,  \* the requests that may be handled at once
  Settings,  \* what x_stamps, or x_visits, may be
  Counts,    \* how many stamps a visit may give
  MaxGiven,  \* bound: the stamps that are given
  MaxScans,  \* bound: how often the card is scanned
  MaxTimes   \* bound: a request that handled a scan so many times does not die

LoyaltyCardsAssumption ==
  /\ Settings \subseteq Nat \ {0} /\ Counts \subseteq Nat \ {0}
  /\ MaxGiven \in Nat /\ MaxScans \in Nat /\ MaxTimes \in Nat

VARIABLES
  loyalty_type,  \* "discount" or "stamps"
  x,             \* x_visits or x_stamps
  visits,        \* the counts of the visits that are not redeemed, oldest first
  scan,          \* SolutionLoyaltyScan: one per customer
  request,       \* what the requests that handle a scan have read
  ledger,        \* not in the code: the stamps given, exchanged and withdrawn
  handled        \* not in the code: of each scan, how often it was handled, and
                 \* whether requests raced for it or one of them died

vars == <<loyalty_type, x, visits, scan, request, ledger, handled>>

-----------------------------------------------------------------------------
Sum(counts) == SumFunctionOnSet(counts, DOMAIN counts)

Scan == [id: 0 .. MaxScans, processed: BOOLEAN]
Idle == [op |-> "idle", copy |-> [id |-> 0, processed |-> FALSE]]

TypeOK ==
  /\ loyalty_type \in {"discount", "stamps"}
  /\ x \in Settings
  /\ visits \in Seq(1 .. MaxGiven)
  /\ scan \in Scan
  /\ request \in [Requests -> [op: {"idle", "add", "redeem", "put"}, copy: Scan]]
  /\ ledger \in [given: 0 .. MaxGiven, exchanged: Nat, withdrawn: Nat]
  /\ handled \in Seq([times: Nat, raced: BOOLEAN])

Init ==
  /\ loyalty_type \in {"discount", "stamps"}
  /\ x \in Settings
  /\ visits = <<>>
  /\ scan = [id |-> 0, processed |-> TRUE]
  /\ request = [r \in Requests |-> Idle]
  /\ ledger = [given |-> 0, exchanged |-> 0, withdrawn |-> 0]
  /\ handled = <<>>

-----------------------------------------------------------------------------
(* A visit with a time of its own, that a tablet without a connection made   *)
(* before, may come anywhere among the others.                               *)
Adds ==
  \E n \in IF loyalty_type = "stamps" THEN Counts ELSE {1}, i \in 1 .. Len(visits) + 1 :
    /\ ledger.given + n <= MaxGiven
    /\ visits' = InsertAt(visits, i, n)
    /\ ledger' = [ledger EXCEPT !.given = @ + n]

(* The visits, oldest first, are redeemed as long as stamps are asked for.   *)
(* The last of them is split: what is left of it stays open.                 *)
Before(i) == SumFunctionOnSet(visits, 1 .. i - 1)

(* Mutant: what is redeemed of the visit that is split stays open, not what  *)
(* is left of it.                                                            *)
LeftOrTaken(i, n) == IF Before(i) >= n THEN visits[i] ELSE n - Before(i)

LeftOf(i, n) == IF Before(i) >= n THEN visits[i] ELSE Before(i) + visits[i] - n

Taken(n) == IF Sum(visits) < n THEN Sum(visits) ELSE n

(* The k oldest are redeemed as a whole.  When there are less stamps than    *)
(* were asked for, these are all.                                            *)
Redeems ==
  \E cards \in IF loyalty_type = "stamps" THEN 1 .. 2 ELSE {1}, k \in 0 .. Len(visits) :
    LET n == cards * x IN
      /\ Before(k + 1) <= n
      /\ k < Len(visits) => Before(k + 2) > n
      /\ visits' = [i \in 1 .. Len(visits) - k |-> LeftOf(k + i, n)]
      /\ ledger' = [ledger EXCEPT !.exchanged = @ + Taken(n)]

-----------------------------------------------------------------------------
(* From a tablet of the shop.                                                *)

solution_loyalty_put ==
  /\ Adds
  /\ UNCHANGED <<loyalty_type, x, scan, request, handled>>

solution_loyalty_redeem ==
  /\ Redeems
  /\ UNCHANGED <<loyalty_type, x, scan, request, handled>>

(* The key of the scan is that of the customer: a new one takes its place.   *)
solution_loyalty_scan ==
  /\ Len(handled) < MaxScans
  /\ handled' = Append(handled, [times |-> 0, raced |-> FALSE])
  /\ scan' = [id |-> Len(handled'), processed |-> FALSE]
  /\ UNCHANGED <<loyalty_type, x, visits, request, ledger>>

-----------------------------------------------------------------------------
(* From the dashboard.                                                       *)

delete_visit(i) ==
  /\ visits' = RemoveAt(visits, i)
  /\ ledger' = [ledger EXCEPT !.withdrawn = @ + visits[i]]
  /\ UNCHANGED <<loyalty_type, x, scan, request, handled>>

put_loyalty_settings(new) ==
  /\ x # new
  /\ x' = new
  /\ UNCHANGED <<loyalty_type, visits, scan, request, ledger, handled>>

(* Mutant: any scan will do.                                                 *)
IsScanned == scan.id > 0

MayBeHandled == scan.id > 0 /\ ~scan.processed

get_scan(r, op) ==
  /\ request[r].op = "idle" /\ MayBeHandled
  /\ request' = [request EXCEPT ![r] = [op |-> op, copy |-> scan]]
  /\ handled' = [handled EXCEPT ![scan.id].raced =
                    @ \/ \E q \in Requests : request[q].op # "idle" /\ request[q].copy.id = scan.id]
  /\ UNCHANGED <<loyalty_type, x, visits, scan, ledger>>

(* The scan is processed after the visit was added or redeemed: a request    *)
(* that dies in between leaves it as it was.                                 *)
Handles(r, op) ==
  /\ request[r].op = op
  /\ request' = [request EXCEPT ![r].op = "put"]
  /\ handled' = [handled EXCEPT ![request[r].copy.id].times = @ + 1]
  /\ UNCHANGED <<loyalty_type, x, scan>>

add_loyalty_scan(r) == Handles(r, "add") /\ Adds
redeem_loyalty_scan(r) == Handles(r, "redeem") /\ Redeems

put_scan(r) ==
  /\ request[r].op = "put"
  /\ scan' = [request[r].copy EXCEPT !.processed = TRUE]
  /\ request' = [request EXCEPT ![r] = Idle]
  /\ UNCHANGED <<loyalty_type, x, visits, ledger, handled>>

Dies(r) ==
  /\ request[r].op # "idle" /\ handled[request[r].copy.id].times < MaxTimes
  /\ request' = [request EXCEPT ![r] = Idle]
  /\ handled' = [handled EXCEPT ![request[r].copy.id].raced = TRUE]
  /\ UNCHANGED <<loyalty_type, x, visits, scan, ledger>>

-----------------------------------------------------------------------------
Next ==
  \/ solution_loyalty_put \/ solution_loyalty_redeem \/ solution_loyalty_scan
  \/ \E i \in DOMAIN visits : delete_visit(i)
  \/ \E new \in Settings : put_loyalty_settings(new)
  \/ \E r \in Requests :
       \/ \E op \in {"add", "redeem"} : get_scan(r, op)
       \/ add_loyalty_scan(r) \/ redeem_loyalty_scan(r) \/ put_scan(r) \/ Dies(r)

Spec == Init /\ [][Next]_vars

-----------------------------------------------------------------------------
Ledger == INSTANCE StampLedger WITH
  given <- ledger.given, exchanged <- ledger.exchanged, withdrawn <- ledger.withdrawn,
  onCard <- Sum(visits)

(* However visits are split, redeemed and deleted, and whatever the settings *)
(* become meanwhile, each stamp is exchanged once or still on the card.      *)
ImplementsStampLedger == Ledger!Spec

(* "Scan was already processed": a scan is handled once, though a newer one   *)
(* takes its place at any time, unless two requests found it at once or one  *)
(* died before it could put it.                                              *)
HandledOnce == \A n \in DOMAIN handled : handled[n].times > 1 => handled[n].raced
=============================================================================
