--------------------------- MODULE VoucherLedger ---------------------------
(***************************************************************************)
(* What a city voucher promises, whatever the way it is stored: a voucher  *)
(* is loaded once, every redemption a merchant keys in is settled at most  *)
(* once, and what is settled never exceeds what was loaded.                *)
(***************************************************************************)
EXTENDS Integers

CONSTANTS Vouchers,      \* the vouchers of the city
          Redemptions,   \* the redemptions the merchants key in
          Amounts        \* the amounts that are loaded and redeemed

VARIABLES balance,       \* what is left on each voucher
          loaded,        \* what was put on each voucher
          settled        \* the redemptions that were paid with a voucher

ledger == <<balance, loaded, settled>>

LedgerInit ==
  /\ balance = [v \in Vouchers |-> 0]
  /\ loaded = [v \in Vouchers |-> 0]
  /\ settled = {}

Load(v, a) ==
  /\ loaded[v] = 0
  /\ loaded' = [loaded EXCEPT ![v] = a]
  /\ balance' = [balance EXCEPT ![v] = a]
  /\ UNCHANGED settled

Settle(v, r, a) ==
  /\ r \notin settled
  /\ a <= balance[v]
  /\ balance' = [balance EXCEPT ![v] = @ - a]
  /\ settled' = settled \cup {r}
  /\ UNCHANGED loaded

LedgerNext ==
  \/ \E v \in Vouchers, a \in Amounts : Load(v, a)
  \/ \E v \in Vouchers, r \in Redemptions, a \in Amounts : Settle(v, r, a)

LedgerSpec == LedgerInit /\ [][LedgerNext]_ledger
=============================================================================
