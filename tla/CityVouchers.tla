---------------------------- MODULE CityVouchers ----------------------------
(***************************************************************************)
(* City vouchers: solutions/common/bizz/city_vouchers.py with the model    *)
(* classes of models/city_vouchers.py and the reminder job of              *)
(* cron/city_vouchers.py.                                                  *)
(*                                                                         *)
(* Activation and the confirmation of a redemption are datastore           *)
(* transactions: one action each.  The start of a redemption, the re-index *)
(* task and the reminder task read the voucher, and use what they read in  *)
(* a later step; other requests run in between.                            *)
(***************************************************************************)
EXTENDS Integers, FiniteSetsExt

CONSTANTS Vouchers,      \* keys of the SolutionCityVoucher entities
          Redemptions,   \* keys of SolutionCityVoucherRedeemTransaction
          Amounts,       \* what is loaded on a voucher and redeemed from it
          Days,          \* EXPIRED_VOUCHERS_REMINDER, the days of a reminder
          Workers,       \* task queue workers that run jobs at one time
          MaxHistory     \* bound: history entries of one voucher

ASSUME AmountsAssumption == Amounts \subseteq Nat \ {0}

ASSUME ConstantsAssumption ==
  /\ Vouchers # {}
  /\ Days # {}
  /\ MaxHistory \in Nat

VARIABLES
  voucher,     \* the SolutionCityVoucher entities
  history,     \* their SolutionCityVoucherTransaction children, summed up
  redemption,  \* the SolutionCityVoucherRedeemTransaction entities
  reindex,     \* vouchers with a re_index_voucher task on the queue
  worker       \* what each worker read and has not written yet

vars == <<voucher, history, redemption, reindex, worker>>

-----------------------------------------------------------------------------
(* The entities.  value and redeemed_value are None until the activation,  *)
(* which sets them: 0 stands for None, activated tells them apart.         *)

VoucherEntity ==
  [activated: BOOLEAN, redeemed: BOOLEAN, value: Nat, redeemed_value: Nat,
   expiration_reminders_sent: SUBSET Days]

NewVoucher ==
  [activated |-> FALSE, redeemed |-> FALSE, value |-> 0, redeemed_value |-> 0,
   expiration_reminders_sent |-> {}]

(* A history is only ever appended to: its length tells its states apart.  *)
(* loaded and spent sum up the ACTIVATED and the REDEEMED entries.         *)
History == [length: Nat, loaded: Nat, spent: Nat]

sum_all_transactions(h) == h.loaded - h.spent

AddEntry(h, loaded, spent) ==
  [length |-> h.length + 1, loaded |-> h.loaded + loaded,
   spent |-> h.spent + spent]

(* What an activation and what a redemption make of the voucher. *)
Activated(e, amount) ==
  [activated |-> TRUE, redeemed |-> e.redeemed, value |-> amount,
   redeemed_value |-> 0,
   expiration_reminders_sent |-> e.expiration_reminders_sent]

(* Mutant: the redemption is added to what is left on the voucher. *)
RedeemedBackwards(e, amount) ==
  [e EXCEPT !.redeemed_value = @ - amount]

Redeemed(e, amount) ==
  LET redeemed_value == e.redeemed_value + amount IN
  [activated |-> e.activated,
   redeemed |-> IF e.value = redeemed_value THEN TRUE ELSE e.redeemed,
   value |-> e.value, redeemed_value |-> redeemed_value,
   expiration_reminders_sent |-> e.expiration_reminders_sent]

(* signature() digests the fields and every history entry.  The reminders  *)
(* that were sent are not part of it.                                      *)
signature(e, h) ==
  <<e.activated, e.redeemed, e.value, e.redeemed_value, h.length>>

Signature == BOOLEAN \X BOOLEAN \X Nat \X Nat \X Nat

NoSignature == <<FALSE, FALSE, 0, 0, 0>>

(* "reading": between the get of the voucher and the put of the redemption *)
RedemptionEntity ==
  [state: {"free", "reading", "open", "confirmed"}, voucher: Vouchers,
   value: Nat, read: VoucherEntity, signature: Signature]

Free == [state |-> "free", voucher |-> CHOOSE v \in Vouchers : TRUE,
         value |-> 0, read |-> NewVoucher, signature |-> NoSignature]

Job == [task: {"idle", "reindex", "remind"}, voucher: Vouchers,
        read: VoucherEntity, day: Days]

Idle == [task |-> "idle", voucher |-> CHOOSE v \in Vouchers : TRUE,
         read |-> NewVoucher, day |-> CHOOSE d \in Days : TRUE]

TypeOK ==
  /\ voucher \in [Vouchers -> VoucherEntity]
  /\ history \in [Vouchers -> History]
  /\ redemption \in [Redemptions -> RedemptionEntity]
  /\ reindex \subseteq Vouchers
  /\ worker \in [Workers -> Job]

Init ==
  /\ voucher = [v \in Vouchers |-> NewVoucher]
  /\ history = [v \in Vouchers |-> [length |-> 0, loaded |-> 0, spent |-> 0]]
  /\ redemption = [r \in Redemptions |-> Free]
  /\ reindex = {}
  /\ worker = [w \in Workers |-> Idle]

-----------------------------------------------------------------------------
(* The QR code task: its transaction adds a CREATED entry of value 0 to    *)
(* the history.  A retry of the task adds another one.                     *)
_generate_vouchers_qr_codes(v) ==
  /\ history[v].length < MaxHistory
  /\ history' = [history EXCEPT ![v] = AddEntry(@, 0, 0)]
  /\ UNCHANGED <<voucher, redemption, reindex, worker>>

(* Mutant: a voucher may be activated again. *)
MayActivateAgain(e) == TRUE

MayActivate(e) == ~e.activated

solution_voucher_activate(v, amount) ==
  /\ history[v].length \in 1 .. MaxHistory - 1
  /\ MayActivate(voucher[v])
  /\ history' = [history EXCEPT ![v] = AddEntry(@, amount, 0)]
  /\ voucher' = [voucher EXCEPT ![v] = Activated(@, amount)]
  /\ reindex' = reindex \cup {v}
  /\ UNCHANGED <<redemption, worker>>

-----------------------------------------------------------------------------
(* A redemption: solution_voucher_redeem stores the request unconfirmed,   *)
(* solution_voucher_confirm_redeem carries it out.                         *)

SufficientFunds(e, amount) ==
  e.activated /\ e.value - e.redeemed_value >= amount

(* solution_voucher_redeem up to the check of the funds. *)
RedeemRead(r, v, amount) ==
  /\ redemption[r].state = "free"
  /\ SufficientFunds(voucher[v], amount)
  /\ redemption' = [redemption EXCEPT ![r] =
       [state |-> "reading", voucher |-> v, value |-> amount,
        read |-> voucher[v], signature |-> NoSignature]]
  /\ UNCHANGED <<voucher, history, reindex, worker>>

(* The rest of it.  signature() digests the voucher that was read before   *)
(* and the history it queries now.                                         *)
RedeemPut(r) ==
  LET rt == redemption[r] IN
  /\ rt.state = "reading"
  /\ redemption' = [redemption EXCEPT ![r] =
       [state |-> "open", voucher |-> rt.voucher, value |-> rt.value,
        read |-> NewVoucher,
        signature |-> signature(rt.read, history[rt.voucher])]]
  /\ UNCHANGED <<voucher, history, reindex, worker>>

(* Mutants: the signature is not checked; it does not cover the history    *)
(* and what was redeemed.                                                  *)
SignatureUnchecked(rt, e, h) == TRUE

SignatureOfValueOnly(rt, e, h) == rt.signature[3] = e.value

SignatureMatches(rt, e, h) == rt.signature = signature(e, h)

(* Mutant: the sum over the history is not checked. *)
LedgerUnchecked(e, h, amount) == TRUE

(* The checks after the history entry was added to the transaction. *)
LedgerAgrees(e, h, amount) ==
  LET left == sum_all_transactions(h) - amount IN
  /\ left >= 0
  /\ left = e.value - (e.redeemed_value + amount)

(* Only the signature keeps a confirmed redemption from being confirmed    *)
(* again: the code does not look at its confirmed flag.                    *)
solution_voucher_confirm_redeem(r) ==
  LET rt == redemption[r]
      v == rt.voucher
  IN
  /\ rt.state \in {"open", "confirmed"}
  /\ SignatureMatches(rt, voucher[v], history[v])
  /\ voucher[v].redeemed_value + rt.value <= voucher[v].value
  /\ LedgerAgrees(voucher[v], history[v], rt.value)
  /\ redemption' = [redemption EXCEPT ![r].state = "confirmed"]
  /\ history' = [history EXCEPT ![v] = AddEntry(@, 0, rt.value)]
  /\ voucher' = [voucher EXCEPT ![v] = Redeemed(@, rt.value)]
  /\ UNCHANGED <<reindex, worker>>

-----------------------------------------------------------------------------
(* The tasks.  They get the voucher and later put the whole entity back,   *)
(* outside a transaction.  A task that dies is retried.                    *)

ReindexRead(w, v) ==
  /\ worker[w].task = "idle"
  /\ v \in reindex
  /\ worker' = [worker EXCEPT ![w] =
       [task |-> "reindex", voucher |-> v, read |-> voucher[v],
        day |-> Idle.day]]
  /\ UNCHANGED <<voucher, history, redemption, reindex>>

ReindexPut(w) ==
  LET v == worker[w].voucher IN
  /\ worker[w].task = "reindex"
  /\ voucher' = [voucher EXCEPT ![v] = worker[w].read]
  /\ reindex' \in {reindex, reindex \ {v}}    \* a task may be run twice
  /\ worker' = [worker EXCEPT ![w] = Idle]
  /\ UNCHANGED <<history, redemption>>

(* send_expired_voucher_message, up to the message it sends.  Only a       *)
(* voucher that was activated has an expiration date and an owner.         *)
RemindRead(w, v, day) ==
  /\ worker[w].task = "idle"
  /\ voucher[v].activated
  /\ day \notin voucher[v].expiration_reminders_sent
  /\ worker' = [worker EXCEPT ![w] =
       [task |-> "remind", voucher |-> v, read |-> voucher[v], day |-> day]]
  /\ UNCHANGED <<voucher, history, redemption, reindex>>

RemindPut(w) ==
  LET job == worker[w] IN
  /\ job.task = "remind"
  /\ voucher' = [voucher EXCEPT ![job.voucher] =
       [job.read EXCEPT !.expiration_reminders_sent = @ \cup {job.day}]]
  /\ worker' = [worker EXCEPT ![w] = Idle]
  /\ UNCHANGED <<history, redemption, reindex>>

WorkerDies(w) ==
  /\ worker[w].task # "idle"
  /\ worker' = [worker EXCEPT ![w] = Idle]
  /\ UNCHANGED <<voucher, history, redemption, reindex>>

(* _re_index_all_vouchers: a migration an administrator starts.            *)
_re_index_all_vouchers ==
  /\ reindex' = Vouchers
  /\ UNCHANGED <<voucher, history, redemption, worker>>

-----------------------------------------------------------------------------
Next ==
  \/ \E v \in Vouchers : _generate_vouchers_qr_codes(v)
  \/ \E v \in Vouchers, a \in Amounts : solution_voucher_activate(v, a)
  \/ \E r \in Redemptions, v \in Vouchers, a \in Amounts : RedeemRead(r, v, a)
  \/ \E r \in Redemptions : RedeemPut(r)
  \/ \E r \in Redemptions : solution_voucher_confirm_redeem(r)
  \/ \E w \in Workers, v \in Vouchers : ReindexRead(w, v)
  \/ \E w \in Workers : ReindexPut(w)
  \/ \E w \in Workers, v \in Vouchers, d \in Days : RemindRead(w, v, d)
  \/ \E w \in Workers : RemindPut(w)
  \/ \E w \in Workers : WorkerDies(w)

Spec == Init /\ [][Next]_vars

(* With the re-index of every voucher, activated or not. *)
NextWithMigration == Next \/ _re_index_all_vouchers

SpecWithMigration == Init /\ [][NextWithMigration]_vars

(* As if a task got and put the voucher in one transaction: nothing else    *)
(* happens in between.                                                      *)
TasksAtOnce ==
  (\E w \in Workers : worker[w].task # "idle")
    => \A w \in Workers : worker'[w].task = "idle"

SpecTasksAtOnce == Init /\ [][NextWithMigration /\ TasksAtOnce]_vars

-----------------------------------------------------------------------------
(* Properties                                                              *)

Confirmed(v) ==
  {r \in Redemptions : redemption[r].state = "confirmed"
                         /\ redemption[r].voucher = v}

(* The merchants are never paid more from a voucher than was loaded on it, *)
(* not even when a task overwrote its redeemed_value with an older one:    *)
(* what the sum over all transactions in confirm_redeem is for.            *)
NeverOverspent == \A v \in Vouchers : history[v].spent <= history[v].loaded

(* Of the redemptions that were started from one state of a voucher, at    *)
(* most one is carried out: two merchants who both saw sufficient funds    *)
(* are not both paid.                                                      *)
OneRedemptionPerState ==
  \A v \in Vouchers : \A r, s \in Confirmed(v) :
     r # s => redemption[r].signature # redemption[s].signature

(* What the monthly export pays to the merchants is the sum of the         *)
(* redemptions that they confirmed: none is counted twice, none is lost.   *)
MerchantsPaidOnce ==
  \A v \in Vouchers :
     history[v].spent =
       SumFunctionOnSet([r \in Redemptions |-> redemption[r].value], Confirmed(v))

(* A voucher is loaded by one activation, once and for all.                *)
LoadedOnce ==
  [][\A v \in Vouchers :
       history[v].loaded # 0 => history'[v].loaded = history[v].loaded]_vars

(* The ledger of an activated voucher agrees with its fields: what         *)
(* confirm_redeem checks before it commits.                                *)
BalanceMatchesLedger ==
  \A v \in Vouchers : voucher[v].activated =>
     sum_all_transactions(history[v]) =
       voucher[v].value - voucher[v].redeemed_value

(* The vouchers implement the ledger.                                      *)
Ledger == INSTANCE VoucherLedger WITH
  balance <- [v \in Vouchers |-> sum_all_transactions(history[v])],
  loaded  <- [v \in Vouchers |-> history[v].loaded],
  settled <- {r \in Redemptions : redemption[r].state = "confirmed"}

ImplementsLedger == Ledger!LedgerSpec
=============================================================================
