------------------------ MODULE CityVouchers_proofs ------------------------
(***************************************************************************)
(* Theorems about CityVouchers, for every number of vouchers, redemptions  *)
(* and workers, and for every set of amounts.  They are proved of the      *)
(* specification with the migration, which allows the most.  Then about    *)
(* Publishing, for any users, purchases, modules and requests, and about   *)
(* LoyaltyCards, for any requests, settings and stamps, which MCPublishing *)
(* has next to it.                                                         *)
(***************************************************************************)
EXTENDS MCPublishing, SumTheorems, SequenceTheorems, FiniteSetTheorems, TLAPS

LEMMA IdleType == Idle \in Job /\ Free \in RedemptionEntity /\ NewVoucher \in VoucherEntity
  BY ConstantsAssumption
  DEF Idle, Job, Free, RedemptionEntity, NewVoucher, VoucherEntity, NoSignature,
      Signature

LEMMA AddEntryType ==
  ASSUME NEW h \in History, NEW loaded \in Nat, NEW spent \in Nat
  PROVE  AddEntry(h, loaded, spent) \in History
  BY DEF AddEntry, History

LEMMA VoucherTypes ==
  ASSUME NEW e \in VoucherEntity, NEW amount \in Nat, NEW d \in Days
  PROVE  /\ Activated(e, amount) \in VoucherEntity
         /\ Redeemed(e, amount) \in VoucherEntity
         /\ [e EXCEPT !.expiration_reminders_sent = @ \cup {d}] \in VoucherEntity
<1>1. Activated(e, amount) \in VoucherEntity
  BY DEF Activated, VoucherEntity
<1>2. Redeemed(e, amount) \in VoucherEntity
  <2>1. e.redeemed_value + amount \in Nat
    BY DEF VoucherEntity
  <2>2. (IF e.value = e.redeemed_value + amount THEN TRUE ELSE e.redeemed)
          \in BOOLEAN
    BY DEF VoucherEntity
  <2> QED
    BY <2>1, <2>2 DEF Redeemed, VoucherEntity
<1>3. [e EXCEPT !.expiration_reminders_sent = @ \cup {d}] \in VoucherEntity
  BY DEF VoucherEntity
<1> QED
  BY <1>1, <1>2, <1>3

LEMMA InitTypeOK == Init => TypeOK
  BY IdleType DEF Init, TypeOK, History

LEMMA NextTypeOK ==
  ASSUME TypeOK, [NextWithMigration]_vars
  PROVE  TypeOK'
<1> USE DEF TypeOK
<1>1. ASSUME NEW v \in Vouchers, _generate_vouchers_qr_codes(v)
      PROVE  TypeOK'
  BY <1>1, AddEntryType DEF _generate_vouchers_qr_codes
<1>2. ASSUME NEW v \in Vouchers, NEW a \in Amounts,
             solution_voucher_activate(v, a)
      PROVE  TypeOK'
  <2>1. a \in Nat
    BY AmountsAssumption
  <2>2. \E d \in Days : TRUE
    BY ConstantsAssumption
  <2> QED
    BY <1>2, <2>1, <2>2, AddEntryType, VoucherTypes DEF solution_voucher_activate
<1>3. ASSUME NEW r \in Redemptions, NEW v \in Vouchers, NEW a \in Amounts,
             RedeemRead(r, v, a)
      PROVE  TypeOK'
  BY <1>3, AmountsAssumption
  DEF RedeemRead, RedemptionEntity, NoSignature, Signature
<1>4. ASSUME NEW r \in Redemptions, RedeemPut(r)
      PROVE  TypeOK'
  <2>1. signature(redemption[r].read, history[redemption[r].voucher])
          \in Signature
    BY DEF signature, Signature, RedemptionEntity, VoucherEntity, History
  <2> QED
    BY <1>4, <2>1, IdleType DEF RedeemPut, RedemptionEntity
<1>5. ASSUME NEW r \in Redemptions, solution_voucher_confirm_redeem(r)
      PROVE  TypeOK'
  <2>1. PICK v \in Vouchers, a \in Nat :
          v = redemption[r].voucher /\ a = redemption[r].value
    BY DEF RedemptionEntity
  <2>2. Redeemed(voucher[v], a) \in VoucherEntity
    BY ConstantsAssumption, VoucherTypes
  <2>3. AddEntry(history[v], 0, a) \in History
    BY AddEntryType
  <2> QED
    BY <1>5, <2>1, <2>2, <2>3
    DEF solution_voucher_confirm_redeem, RedemptionEntity
<1>6. ASSUME NEW w \in Workers, NEW v \in Vouchers, ReindexRead(w, v)
      PROVE  TypeOK'
  BY <1>6, IdleType DEF ReindexRead, Job
<1>7. ASSUME NEW w \in Workers, ReindexPut(w)
      PROVE  TypeOK'
  BY <1>7, IdleType DEF ReindexPut, Job
<1>8. ASSUME NEW w \in Workers, NEW v \in Vouchers, NEW d \in Days,
             RemindRead(w, v, d)
      PROVE  TypeOK'
  BY <1>8 DEF RemindRead, Job
<1>9. ASSUME NEW w \in Workers, RemindPut(w)
      PROVE  TypeOK'
  BY <1>9, IdleType, VoucherTypes DEF RemindPut, Job
<1>10. ASSUME NEW w \in Workers, WorkerDies(w)
       PROVE  TypeOK'
  BY <1>10, IdleType DEF WorkerDies
<1>11. CASE _re_index_all_vouchers
  BY <1>11 DEF _re_index_all_vouchers
<1>12. CASE UNCHANGED vars
  BY <1>12 DEF vars
<1> QED
  BY <1>1, <1>2, <1>3, <1>4, <1>5, <1>6, <1>7, <1>8, <1>9, <1>10, <1>11, <1>12
  DEF NextWithMigration, Next

(* Every step keeps every variable in its type: what the tasks write back  *)
(* is a voucher entity, what the history adds up stays a natural number.   *)
THEOREM TypeCorrect == SpecWithMigration => []TypeOK
  BY InitTypeOK, NextTypeOK, PTL DEF SpecWithMigration

-----------------------------------------------------------------------------
(* The inductive invariant.  A signature covers the length of the history, *)
(* and a confirmation makes the history longer: the signature of a         *)
(* confirmed redemption lies strictly in the past.                         *)

LengthSigned(r) == redemption[r].signature[5]

SignaturesInThePast ==
  \A r \in Redemptions :
     /\ redemption[r].state \in {"open", "confirmed"} =>
          LengthSigned(r) <= history[redemption[r].voucher].length
     /\ redemption[r].state = "confirmed" =>
          LengthSigned(r) < history[redemption[r].voucher].length

IInv == TypeOK /\ NeverOverspent /\ SignaturesInThePast /\ OneRedemptionPerState

LEMMA InitIInv == Init => IInv
  BY InitTypeOK
  DEF Init, IInv, NeverOverspent, SignaturesInThePast, OneRedemptionPerState,
      Confirmed, Free

LEMMA NextIInv ==
  ASSUME IInv, [NextWithMigration]_vars
  PROVE  IInv'
<1>0. TypeOK'
  BY NextTypeOK DEF IInv
<1> USE DEF IInv
<1>1. ASSUME NEW v \in Vouchers, _generate_vouchers_qr_codes(v)
      PROVE  IInv'
  <2>1. NeverOverspent'
    BY <1>1 DEF _generate_vouchers_qr_codes, NeverOverspent, AddEntry, TypeOK, History
  <2>2. SignaturesInThePast'
    BY <1>1
    DEF _generate_vouchers_qr_codes, SignaturesInThePast, LengthSigned, AddEntry,
        TypeOK, History, RedemptionEntity, Signature
  <2>3. OneRedemptionPerState'
    BY <1>1
    DEF _generate_vouchers_qr_codes, OneRedemptionPerState, Confirmed
  <2> QED
    BY <1>0, <2>1, <2>2, <2>3
<1>2. ASSUME NEW v \in Vouchers, NEW a \in Amounts,
             solution_voucher_activate(v, a)
      PROVE  IInv'
  <2>1. NeverOverspent'
    BY <1>2, AmountsAssumption
    DEF solution_voucher_activate, NeverOverspent, AddEntry, TypeOK, History
  <2>2. SignaturesInThePast'
    BY <1>2
    DEF solution_voucher_activate, SignaturesInThePast, LengthSigned, AddEntry,
        TypeOK, History, RedemptionEntity, Signature
  <2>3. OneRedemptionPerState'
    BY <1>2
    DEF solution_voucher_activate, OneRedemptionPerState, Confirmed
  <2> QED
    BY <1>0, <2>1, <2>2, <2>3
<1>3. ASSUME NEW r \in Redemptions, NEW v \in Vouchers, NEW a \in Amounts,
             RedeemRead(r, v, a)
      PROVE  IInv'
  <2>1. NeverOverspent'
    BY <1>3 DEF RedeemRead, NeverOverspent
  <2>2. SignaturesInThePast'
    BY <1>3 DEF RedeemRead, SignaturesInThePast, LengthSigned, TypeOK
  <2>3. OneRedemptionPerState'
    BY <1>3 DEF RedeemRead, OneRedemptionPerState, Confirmed, TypeOK
  <2> QED
    BY <1>0, <2>1, <2>2, <2>3
<1>4. ASSUME NEW r \in Redemptions, RedeemPut(r)
      PROVE  IInv'
  <2>1. NeverOverspent'
    BY <1>4 DEF RedeemPut, NeverOverspent
  <2>2. SignaturesInThePast'
    BY <1>4
    DEF RedeemPut, SignaturesInThePast, LengthSigned, TypeOK, signature,
        History, RedemptionEntity
  <2>3. OneRedemptionPerState'
    BY <1>4 DEF RedeemPut, OneRedemptionPerState, Confirmed, TypeOK
  <2> QED
    BY <1>0, <2>1, <2>2, <2>3
<1>5. ASSUME NEW r \in Redemptions, solution_voucher_confirm_redeem(r)
      PROVE  IInv'
  <2> DEFINE v == redemption[r].voucher
             a == redemption[r].value
  <2>1. /\ LengthSigned(r) = history[v].length
        /\ history[v].loaded - history[v].spent - a >= 0
        /\ redemption' = [redemption EXCEPT ![r].state = "confirmed"]
        /\ history' = [history EXCEPT ![v] = AddEntry(@, 0, a)]
    BY <1>5
    DEF solution_voucher_confirm_redeem, SignatureMatches, signature,
        LengthSigned, LedgerAgrees, sum_all_transactions
  <2>2. /\ v \in Vouchers /\ a \in Nat
        /\ \A s \in Redemptions : redemption[s].voucher \in Vouchers
        /\ \A s \in Redemptions : LengthSigned(s) \in Nat
        /\ \A u \in Vouchers : history[u].length \in Nat
                                /\ history[u].loaded \in Nat
                                /\ history[u].spent \in Nat
    BY DEF TypeOK, RedemptionEntity, Signature, History, LengthSigned
  <2>3. NeverOverspent'
    BY <2>1, <2>2 DEF NeverOverspent, AddEntry, TypeOK
  <2>4. \A s \in Redemptions :
           /\ redemption'[s].voucher = redemption[s].voucher
           /\ redemption'[s].signature = redemption[s].signature
           /\ s # r => redemption'[s].state = redemption[s].state
    BY <2>1 DEF TypeOK, RedemptionEntity
  <2>5. \A u \in Vouchers : history'[u].length =
           IF u = v THEN history[u].length + 1 ELSE history[u].length
    BY <2>1, <2>2 DEF AddEntry, TypeOK
  <2>6. SignaturesInThePast'
    BY <2>1, <2>2, <2>4, <2>5 DEF SignaturesInThePast, LengthSigned
  <2>7. OneRedemptionPerState'
    <3>1. \A s \in Confirmed(v) : LengthSigned(s) < history[v].length
      BY DEF SignaturesInThePast, Confirmed
    <3>2. Confirmed(v)' = Confirmed(v) \cup {r}
      BY <2>1, <2>4 DEF Confirmed, TypeOK, RedemptionEntity
    <3>3. \A u \in Vouchers : u # v => Confirmed(u)' = Confirmed(u)
      BY <2>4 DEF Confirmed
    <3>4. ASSUME NEW s \in Confirmed(v), NEW t \in {r}, s # t
          PROVE  redemption[s].signature # redemption[t].signature
      BY <3>1, <2>1, <2>2 DEF LengthSigned, Confirmed
    <3> QED
      BY <2>2, <2>4, <3>2, <3>3, <3>4 DEF OneRedemptionPerState, Confirmed
  <2> QED
    BY <1>0, <2>3, <2>6, <2>7
<1>6. ASSUME UNCHANGED <<history, redemption>>
      PROVE  IInv'
  BY <1>0, <1>6
  DEF NeverOverspent, SignaturesInThePast, LengthSigned,
      OneRedemptionPerState, Confirmed
<1> QED
  BY <1>1, <1>2, <1>3, <1>4, <1>5, <1>6
  DEF NextWithMigration, Next, vars, ReindexRead, ReindexPut, RemindRead,
      RemindPut, WorkerDies, _re_index_all_vouchers

(* No voucher pays out more than it was loaded with, however the tasks      *)
(* overwrite the vouchers.                                                 *)
THEOREM NothingOverspent == SpecWithMigration => []NeverOverspent
<1>1. IInv => NeverOverspent
  BY DEF IInv
<1> QED
  BY <1>1, InitIInv, NextIInv, PTL DEF SpecWithMigration

(* Of the redemptions that were started from one state of a voucher at most *)
(* one is carried out: two merchants who both saw sufficient funds are not  *)
(* both paid.                                                              *)
THEOREM OneIsCarriedOut == SpecWithMigration => []OneRedemptionPerState
<1>1. IInv => OneRedemptionPerState
  BY DEF IInv
<1> QED
  BY <1>1, InitIInv, NextIInv, PTL DEF SpecWithMigration

-----------------------------------------------------------------------------
(* What the merchants are paid adds up: a redemption that is confirmed     *)
(* again would be paid twice, but its signature is older than the history. *)

Values == [r \in Redemptions |-> redemption[r].value]

ConfirmedAreFinite == \A v \in Vouchers : IsFiniteSet(Confirmed(v))

PInv == IInv /\ ConfirmedAreFinite /\ MerchantsPaidOnce

LEMMA InitPInv == Init => PInv
<1> SUFFICES ASSUME Init PROVE PInv
  OBVIOUS
<1>1. \A v \in Vouchers : Confirmed(v) = {} /\ history[v].spent = 0
  BY DEF Init, Confirmed, Free
<1>2. \A v \in Vouchers : IsFiniteSet(Confirmed(v)) /\ Sum(Values, Confirmed(v)) = 0
  BY <1>1, SumOfNone, FS_EmptySet
<1> QED
  BY <1>1, <1>2, InitIInv DEF PInv, ConfirmedAreFinite, MerchantsPaidOnce, Values, Sum

(* Nothing is paid out, and what was confirmed stays as it was.            *)
LEMMA SamePayments ==
  ASSUME PInv,
         \A v \in Vouchers : /\ history'[v].spent = history[v].spent
                             /\ Confirmed(v)' = Confirmed(v),
         \A v \in Vouchers : \A r \in Confirmed(v) : redemption'[r].value = redemption[r].value
  PROVE  ConfirmedAreFinite' /\ MerchantsPaidOnce'
<1> SUFFICES ASSUME NEW v \in Vouchers
             PROVE  /\ IsFiniteSet(Confirmed(v)')
                    /\ history'[v].spent = Sum(Values', Confirmed(v)')
  BY DEF ConfirmedAreFinite, MerchantsPaidOnce, Values, Sum
<1>1. IsFiniteSet(Confirmed(v)) /\ history[v].spent = Sum(Values, Confirmed(v))
  BY DEF PInv, ConfirmedAreFinite, MerchantsPaidOnce, Values, Sum
<1>2. \A r \in Confirmed(v) : Values'[r] = Values[r]
  BY DEF Values, Confirmed
<1> DEFINE new == Values'
           old == Values
<1> HIDE DEF new, old
<1>3. Sum(new, Confirmed(v)) = Sum(old, Confirmed(v))
  BY <1>1, <1>2, SumSame DEF new, old
<1> QED
  BY <1>1, <1>3 DEF new, old

(* A confirmation adds what it pays.                                       *)
LEMMA ConfirmationPays ==
  ASSUME PInv, NEW r \in Redemptions, solution_voucher_confirm_redeem(r)
  PROVE  ConfirmedAreFinite' /\ MerchantsPaidOnce'
<1>1. TypeOK /\ SignaturesInThePast
  BY DEF PInv, IInv
<1>0. PICK v \in Vouchers, a \in Nat : v = redemption[r].voucher /\ a = redemption[r].value
  BY <1>1 DEF TypeOK, RedemptionEntity
<1>2. /\ LengthSigned(r) = history[v].length
      /\ redemption' = [redemption EXCEPT ![r].state = "confirmed"]
      /\ history' = [history EXCEPT ![v] = AddEntry(@, 0, a)]
  BY <1>0 DEF solution_voucher_confirm_redeem, SignatureMatches, signature, LengthSigned
<1>3. /\ v \in Vouchers /\ a \in Nat /\ history[v].length \in Nat
      /\ \A s \in Redemptions : redemption[s].value \in Nat
      /\ \A u \in Vouchers : history[u].spent \in Nat
  BY <1>0, <1>1 DEF TypeOK, RedemptionEntity, History
<1>4. r \notin Confirmed(v)
  <2>1. \A s \in Confirmed(v) : LengthSigned(s) < history[v].length
    BY <1>1 DEF SignaturesInThePast, Confirmed
  <2> QED
    BY <1>2, <1>3, <2>1
<1>5. \A s \in Redemptions :
         /\ redemption'[s].voucher = redemption[s].voucher
         /\ redemption'[s].value = redemption[s].value
         /\ s # r => redemption'[s].state = redemption[s].state
  BY <1>1, <1>2 DEF TypeOK, RedemptionEntity
<1>6. Values' = Values
  BY <1>5 DEF Values
<1>7. Confirmed(v)' = Confirmed(v) \cup {r}
  BY <1>0, <1>1, <1>2, <1>5 DEF Confirmed, TypeOK, RedemptionEntity
<1>8. \A u \in Vouchers : u # v => Confirmed(u)' = Confirmed(u)
  BY <1>0, <1>5 DEF Confirmed
<1>9. \A u \in Vouchers :
        history'[u].spent = IF u = v THEN history[u].spent + a ELSE history[u].spent
  BY <1>1, <1>2, <1>3 DEF TypeOK, AddEntry
<1>10. \A u \in Vouchers : /\ IsFiniteSet(Confirmed(u))
                           /\ history[u].spent = Sum(Values, Confirmed(u))
  BY DEF PInv, ConfirmedAreFinite, MerchantsPaidOnce, Values, Sum
<1>11. \A s \in Confirmed(v) \cup {r} : Values[s] \in Int
  BY <1>3 DEF Values, Confirmed
<1>12. Values[r] = a
  BY <1>0 DEF Values
<1>13. /\ IsFiniteSet(Confirmed(v) \cup {r})
       /\ Sum(Values, Confirmed(v) \cup {r}) = Sum(Values, Confirmed(v)) + Values[r]
  BY <1>3, <1>4, <1>10, <1>11, SumAdd, FS_AddElement
<1>14. ASSUME NEW u \in Vouchers
       PROVE  /\ IsFiniteSet(Confirmed(u)')
              /\ history'[u].spent = Sum(Values', Confirmed(u)')
  <2>1. CASE u = v
    <3>1. history'[u].spent = history[u].spent + a
      BY <1>9, <2>1
    <3>2. Sum(Values', Confirmed(u)') = Sum(Values, Confirmed(v) \cup {r})
      BY <1>6, <1>7, <2>1
    <3>3. history[u].spent = Sum(Values, Confirmed(v))
      BY <1>10, <2>1
    <3>4. history'[u].spent = Sum(Values', Confirmed(u)')
      BY <1>12, <1>13, <3>1, <3>2, <3>3
    <3>5. IsFiniteSet(Confirmed(u)')
      BY <1>7, <1>13, <2>1
    <3> QED
      BY <3>4, <3>5
  <2>2. CASE u # v
    BY <1>6, <1>8, <1>9, <1>10, <2>2
  <2> QED
    BY <2>1, <2>2
<1> QED
  BY <1>14 DEF ConfirmedAreFinite, MerchantsPaidOnce, Values, Sum

LEMMA NextPInv ==
  ASSUME PInv, [NextWithMigration]_vars
  PROVE  PInv'
<1>1. IInv' /\ TypeOK
  BY NextIInv DEF PInv, IInv
<1>2. ASSUME NEW v \in Vouchers,
             \/ _generate_vouchers_qr_codes(v)
             \/ \E a \in Amounts : solution_voucher_activate(v, a)
      PROVE  ConfirmedAreFinite' /\ MerchantsPaidOnce'
  <2>1. /\ redemption' = redemption
        /\ \E n \in Nat : history' = [history EXCEPT ![v] = AddEntry(@, n, 0)]
    BY <1>2, AmountsAssumption DEF _generate_vouchers_qr_codes, solution_voucher_activate
  <2>2. \A u \in Vouchers : history'[u].spent = history[u].spent
    BY <1>1, <2>1 DEF TypeOK, History, AddEntry
  <2> QED
    BY <2>1, <2>2, SamePayments DEF Confirmed
<1>3. ASSUME NEW r \in Redemptions,
             RedeemPut(r) \/ \E v \in Vouchers, a \in Amounts : RedeemRead(r, v, a)
      PROVE  ConfirmedAreFinite' /\ MerchantsPaidOnce'
  <2>1. /\ history' = history
        /\ \A s \in Redemptions : s # r => redemption'[s] = redemption[s]
        /\ redemption[r].state # "confirmed" /\ redemption'[r].state # "confirmed"
    BY <1>1, <1>3 DEF RedeemPut, RedeemRead, TypeOK
  <2>2. \A v \in Vouchers : Confirmed(v)' = Confirmed(v)
    BY <2>1 DEF Confirmed
  <2>3. \A v \in Vouchers : \A s \in Confirmed(v) : redemption'[s].value = redemption[s].value
    BY <2>1 DEF Confirmed
  <2> QED
    BY <2>1, <2>2, <2>3, SamePayments
<1>4. ASSUME NEW r \in Redemptions, solution_voucher_confirm_redeem(r)
      PROVE  ConfirmedAreFinite' /\ MerchantsPaidOnce'
  BY <1>4, ConfirmationPays
<1>5. ASSUME UNCHANGED <<history, redemption>>
      PROVE  ConfirmedAreFinite' /\ MerchantsPaidOnce'
  BY <1>5, SamePayments DEF Confirmed
<1>6. ConfirmedAreFinite' /\ MerchantsPaidOnce'
  BY <1>2, <1>3, <1>4, <1>5
  DEF NextWithMigration, Next, vars, ReindexRead, ReindexPut, RemindRead,
      RemindPut, WorkerDies, _re_index_all_vouchers
<1> QED
  BY <1>1, <1>6 DEF PInv

(* Every merchant is paid once for each redemption that he confirmed, and  *)
(* the tasks that put old vouchers back lose none of them.                 *)
THEOREM EveryMerchantIsPaidOnce == SpecWithMigration => []MerchantsPaidOnce
<1>1. PInv => MerchantsPaidOnce
  BY DEF PInv
<1> QED
  BY <1>1, InitPInv, NextPInv, PTL DEF SpecWithMigration

-----------------------------------------------------------------------------
(* Without the migration, the implementation of VoucherLedger.  What is    *)
(* re-indexed was activated before: no task can write back a voucher that  *)
(* may be activated again.                                                 *)

OnlyActivated ==
  /\ \A v \in Vouchers : history[v].loaded # 0 => voucher[v].activated
  /\ \A v \in reindex : voucher[v].activated
  /\ \A w \in Workers : worker[w].task # "idle" => worker[w].read.activated

RedemptionAmounts ==
  \A r \in Redemptions :
     redemption[r].state # "free" => redemption[r].value \in Amounts

RInv == IInv /\ OnlyActivated /\ RedemptionAmounts

LEMMA InitRInv == Init => RInv
  BY InitIInv DEF RInv, Init, OnlyActivated, RedemptionAmounts, Idle, Free

LEMMA NextRInv ==
  ASSUME RInv, [Next]_vars
  PROVE  RInv'
<1> USE DEF RInv
<1>1. IInv' /\ TypeOK /\ TypeOK'
  BY NextIInv DEF NextWithMigration, IInv
<1>2. ASSUME NEW v \in Vouchers, _generate_vouchers_qr_codes(v)
      PROVE  RInv'
  BY <1>1, <1>2
  DEF _generate_vouchers_qr_codes, OnlyActivated, RedemptionAmounts, AddEntry,
      TypeOK, History
<1>3. ASSUME NEW v \in Vouchers, NEW a \in Amounts,
             solution_voucher_activate(v, a)
      PROVE  RInv'
  BY <1>1, <1>3
  DEF solution_voucher_activate, OnlyActivated, RedemptionAmounts, Activated,
      TypeOK
<1>4. ASSUME NEW r \in Redemptions, NEW v \in Vouchers, NEW a \in Amounts,
             RedeemRead(r, v, a)
      PROVE  RInv'
  BY <1>1, <1>4 DEF RedeemRead, OnlyActivated, RedemptionAmounts, TypeOK
<1>5. ASSUME NEW r \in Redemptions, RedeemPut(r)
      PROVE  RInv'
  BY <1>1, <1>5 DEF RedeemPut, OnlyActivated, RedemptionAmounts, TypeOK
<1>6. ASSUME NEW r \in Redemptions, solution_voucher_confirm_redeem(r)
      PROVE  RInv'
  <2> DEFINE v == redemption[r].voucher
             a == redemption[r].value
  <2>1. /\ redemption' = [redemption EXCEPT ![r].state = "confirmed"]
        /\ history' = [history EXCEPT ![v] = AddEntry(@, 0, a)]
        /\ voucher' = [voucher EXCEPT ![v] = Redeemed(@, a)]
        /\ UNCHANGED <<reindex, worker>>
        /\ redemption[r].state \in {"open", "confirmed"}
    BY <1>6 DEF solution_voucher_confirm_redeem
  <2>2. v \in Vouchers /\ a \in Nat
    BY <1>1 DEF TypeOK, RedemptionEntity
  <2>3. \A u \in Vouchers : /\ voucher'[u].activated = voucher[u].activated
                            /\ history'[u].loaded = history[u].loaded
    BY <1>1, <2>1, <2>2 DEF TypeOK, Redeemed, AddEntry, History
  <2>4. OnlyActivated'
    BY <1>1, <2>1, <2>3 DEF OnlyActivated, TypeOK
  <2>5. RedemptionAmounts'
    BY <1>1, <2>1 DEF RedemptionAmounts, TypeOK, RedemptionEntity
  <2> QED
    BY <1>1, <2>4, <2>5
<1>7. ASSUME NEW w \in Workers, NEW v \in Vouchers, ReindexRead(w, v)
      PROVE  RInv'
  BY <1>1, <1>7 DEF ReindexRead, OnlyActivated, RedemptionAmounts, TypeOK
<1>8. ASSUME NEW w \in Workers, ReindexPut(w)
      PROVE  RInv'
  BY <1>1, <1>8
  DEF ReindexPut, OnlyActivated, RedemptionAmounts, TypeOK, Job, Idle
<1>9. ASSUME NEW w \in Workers, NEW v \in Vouchers, NEW d \in Days,
             RemindRead(w, v, d)
      PROVE  RInv'
  BY <1>1, <1>9 DEF RemindRead, OnlyActivated, RedemptionAmounts, TypeOK
<1>10. ASSUME NEW w \in Workers, RemindPut(w)
       PROVE  RInv'
  BY <1>1, <1>10
  DEF RemindPut, OnlyActivated, RedemptionAmounts, TypeOK, Job, Idle,
      VoucherEntity
<1>11. ASSUME NEW w \in Workers, WorkerDies(w)
       PROVE  RInv'
  BY <1>1, <1>11 DEF WorkerDies, OnlyActivated, RedemptionAmounts, TypeOK, Idle
<1>12. CASE UNCHANGED vars
  BY <1>1, <1>12 DEF vars, OnlyActivated, RedemptionAmounts
<1> QED
  BY <1>2, <1>3, <1>4, <1>5, <1>6, <1>7, <1>8, <1>9, <1>10, <1>11, <1>12 DEF Next

(* An activation finds nothing on the voucher, and nothing else loads one. *)
THEOREM LoadsOnce == Spec => LoadedOnce
<1>1. RInv /\ [Next]_vars =>
        [\A v \in Vouchers : history[v].loaded # 0 =>
            history'[v].loaded = history[v].loaded]_vars
  <2> SUFFICES ASSUME RInv, Next, NEW v \in Vouchers, history[v].loaded # 0
               PROVE  history'[v].loaded = history[v].loaded
    BY DEF RInv
  <2>1. TypeOK /\ voucher[v].activated
    BY DEF RInv, IInv, OnlyActivated
  <2>2. CASE \E u \in Vouchers : _generate_vouchers_qr_codes(u)
    BY <2>1, <2>2 DEF _generate_vouchers_qr_codes, TypeOK, History, AddEntry
  <2>3. CASE \E u \in Vouchers, a \in Amounts : solution_voucher_activate(u, a)
    BY <2>1, <2>3 DEF solution_voucher_activate, MayActivate, TypeOK
  <2>4. CASE \E r \in Redemptions : solution_voucher_confirm_redeem(r)
    <3>1. PICK r \in Redemptions : solution_voucher_confirm_redeem(r)
      BY <2>4
    <3>2. history' = [history EXCEPT ![redemption[r].voucher] =
                        AddEntry(@, 0, redemption[r].value)]
      BY <3>1 DEF solution_voucher_confirm_redeem
    <3> QED
      BY <2>1, <3>2 DEF TypeOK, History, AddEntry
  <2>5. CASE UNCHANGED history
    BY <2>5
  <2> QED
    BY <2>2, <2>3, <2>4, <2>5
    DEF Next, RedeemRead, RedeemPut, ReindexRead, ReindexPut, RemindRead,
        RemindPut, WorkerDies
<1> QED
  BY <1>1, InitRInv, NextRInv, PTL DEF Spec, LoadedOnce

-----------------------------------------------------------------------------
(* A voucher shows what its ledger holds, when what a task has read is the *)
(* voucher as it is; and what is not activated has no ledger.              *)

ReadIsTheVoucher ==
  \A w \in Workers : worker[w].task # "idle" => worker[w].read = voucher[worker[w].voucher]

Balanced(v) ==
  IF voucher[v].activated
  THEN sum_all_transactions(history[v]) = voucher[v].value - voucher[v].redeemed_value
  ELSE history[v].loaded = 0 /\ history[v].spent = 0

AllBalanced == \A v \in Vouchers : Balanced(v)

BInv == TypeOK /\ ReadIsTheVoucher /\ AllBalanced

LEMMA InitBInv == Init => BInv
  BY InitTypeOK DEF Init, BInv, ReadIsTheVoucher, AllBalanced, Balanced, Idle, NewVoucher

(* Of a redemption, the ledger and the voucher lose the same amount.       *)
LEMMA RedemptionBalances ==
  ASSUME BInv, NEW r \in Redemptions, solution_voucher_confirm_redeem(r)
  PROVE  AllBalanced'
<1>1. PICK v \in Vouchers, a \in Nat : v = redemption[r].voucher /\ a = redemption[r].value
  BY DEF BInv, TypeOK, RedemptionEntity
<1>2. /\ history' = [history EXCEPT ![v] = AddEntry(@, 0, a)]
      /\ voucher' = [voucher EXCEPT ![v] = Redeemed(@, a)]
      /\ LedgerAgrees(voucher[v], history[v], a)
  BY <1>1 DEF solution_voucher_confirm_redeem
<1>3. \A u \in Vouchers : u = v \/ (history'[u] = history[u] /\ voucher'[u] = voucher[u])
  BY <1>2 DEF BInv, TypeOK
<1>4. /\ voucher'[v].activated = voucher[v].activated
      /\ voucher'[v].value = voucher[v].value
      /\ voucher'[v].redeemed_value = voucher[v].redeemed_value + a
  BY <1>2 DEF BInv, TypeOK, Redeemed
<1>5. history'[v].loaded = history[v].loaded + 0 /\ history'[v].spent = history[v].spent + a
  BY <1>2 DEF BInv, TypeOK, AddEntry
<1>6. /\ voucher[v] \in VoucherEntity /\ history[v] \in History
      /\ Balanced(v) /\ voucher[v].activated \in BOOLEAN
  BY DEF BInv, TypeOK, AllBalanced, VoucherEntity
<1>7. sum_all_transactions(history[v]) - a >= 0
  BY <1>2 DEF LedgerAgrees
<1>8. Balanced(v)'
  BY <1>4, <1>5, <1>6, <1>7 DEF Balanced, sum_all_transactions, VoucherEntity, History
<1> QED
  BY <1>3, <1>8 DEF BInv, AllBalanced, Balanced

LEMMA NextBInv ==
  ASSUME BInv, [NextWithMigration /\ TasksAtOnce]_vars
  PROVE  BInv'
<1>1. TypeOK'
  BY NextTypeOK DEF BInv
<1>2. ASSUME NEW v \in Vouchers, _generate_vouchers_qr_codes(v)
      PROVE  AllBalanced'
  BY <1>2 DEF _generate_vouchers_qr_codes, AddEntry, BInv, TypeOK, History, AllBalanced,
              Balanced, sum_all_transactions
<1>3. ASSUME NEW v \in Vouchers, NEW a \in Amounts, solution_voucher_activate(v, a)
      PROVE  AllBalanced'
  <2>1. /\ history' = [history EXCEPT ![v] = AddEntry(@, a, 0)]
        /\ voucher' = [voucher EXCEPT ![v] = Activated(@, a)]
        /\ ~voucher[v].activated /\ a \in Nat
    BY <1>3, AmountsAssumption DEF solution_voucher_activate, MayActivate
  <2>2. history[v].loaded = 0 /\ history[v].spent = 0
    BY <2>1 DEF BInv, AllBalanced, Balanced
  <2>3. /\ history'[v].loaded = a /\ history'[v].spent = 0
        /\ voucher'[v].activated /\ voucher'[v].value = a /\ voucher'[v].redeemed_value = 0
    BY <2>1, <2>2 DEF BInv, TypeOK, AddEntry, Activated
  <2>4. \A u \in Vouchers : u = v \/ (history'[u] = history[u] /\ voucher'[u] = voucher[u])
    BY <2>1 DEF BInv, TypeOK
  <2>5. Balanced(v)'
    BY <2>1, <2>3 DEF Balanced, sum_all_transactions
  <2> QED
    BY <2>4, <2>5 DEF BInv, AllBalanced, Balanced
<1>4. ASSUME NEW w \in Workers, ReindexPut(w)
      PROVE  AllBalanced'
  <2>1. voucher' = voucher
    BY <1>4 DEF ReindexPut, BInv, TypeOK, ReadIsTheVoucher
  <2> QED
    BY <1>4, <2>1 DEF ReindexPut, BInv, AllBalanced, Balanced
<1>5. ASSUME NEW w \in Workers, RemindPut(w)
      PROVE  AllBalanced'
  <2>1. PICK v \in Vouchers : v = worker[w].voucher
    BY DEF BInv, TypeOK, Job
  <2>2. /\ worker[w].read = voucher[v] /\ history' = history
        /\ voucher' = [voucher EXCEPT ![v] = [worker[w].read EXCEPT
             !.expiration_reminders_sent = @ \cup {worker[w].day}]]
    BY <1>5, <2>1 DEF RemindPut, BInv, ReadIsTheVoucher
  <2>3. \A u \in Vouchers : /\ voucher'[u].activated = voucher[u].activated
                            /\ voucher'[u].value = voucher[u].value
                            /\ voucher'[u].redeemed_value = voucher[u].redeemed_value
    BY <2>2 DEF BInv, TypeOK, VoucherEntity
  <2> QED
    BY <2>2, <2>3 DEF BInv, AllBalanced, Balanced
<1>6. AllBalanced'
  <2>1. CASE UNCHANGED <<voucher, history>>
    BY <2>1 DEF BInv, AllBalanced, Balanced
  <2> QED
    BY <1>2, <1>3, <1>4, <1>5, <2>1, RedemptionBalances
    DEF NextWithMigration, Next, vars, RedeemRead, RedeemPut, ReindexRead, RemindRead,
        WorkerDies, _re_index_all_vouchers
<1>7. ReadIsTheVoucher'
  <2>1. CASE UNCHANGED <<voucher, worker>>
    BY <2>1 DEF BInv, ReadIsTheVoucher
  <2>2. CASE \A w \in Workers : worker'[w].task = "idle"
    BY <2>2 DEF ReadIsTheVoucher
  <2>3. CASE \A w \in Workers : worker[w].task = "idle"
    <3>1. ASSUME NEW w \in Workers, NEW v \in Vouchers, ReindexRead(w, v)
          PROVE  ReadIsTheVoucher'
      BY <2>3, <3>1 DEF ReindexRead, BInv, TypeOK, ReadIsTheVoucher
    <3>2. ASSUME NEW w \in Workers, NEW v \in Vouchers, NEW d \in Days, RemindRead(w, v, d)
          PROVE  ReadIsTheVoucher'
      BY <2>3, <3>2 DEF RemindRead, BInv, TypeOK, ReadIsTheVoucher
    <3>3. CASE worker' = worker
      BY <2>3, <3>3 DEF ReadIsTheVoucher
    <3> QED
      BY <2>3, <3>1, <3>2, <3>3
      DEF NextWithMigration, Next, vars, _generate_vouchers_qr_codes,
          solution_voucher_activate, RedeemRead, RedeemPut, solution_voucher_confirm_redeem,
          ReindexPut, RemindPut, WorkerDies, _re_index_all_vouchers
  <2> QED
    BY <2>1, <2>2, <2>3 DEF TasksAtOnce, vars
<1> QED
  BY <1>1, <1>6, <1>7 DEF BInv

(* What is shown differs from what can be spent for no other reason than a  *)
(* task that puts back a voucher it read before: not under any race of      *)
(* merchants, nor by the migration (re_index_voucher and                    *)
(* send_expired_voucher_message, which get and put without a transaction).  *)
THEOREM OnlyTasksFreeze == SpecTasksAtOnce => []BalanceMatchesLedger
<1>1. BInv => BalanceMatchesLedger
  BY DEF BInv, AllBalanced, Balanced, BalanceMatchesLedger
<1> QED
  BY <1>1, InitBInv, NextBInv, PTL DEF SpecTasksAtOnce

-----------------------------------------------------------------------------
(* Every step is a step of the ledger or leaves the ledger as it was: only *)
(* activations load, only confirmations settle, each of them what is left. *)
THEOREM Implementation == Spec => ImplementsLedger
<1>1. Init => Ledger!LedgerInit
  BY DEF Init, Ledger!LedgerInit, Free, sum_all_transactions
<1>2. ASSUME RInv, [Next]_vars
      PROVE  [Ledger!LedgerNext]_(Ledger!ledger)
  <2>1. /\ TypeOK /\ NeverOverspent /\ SignaturesInThePast
        /\ OnlyActivated /\ RedemptionAmounts
    BY <1>2 DEF RInv, IInv
  <2>2. ASSUME NEW v \in Vouchers, _generate_vouchers_qr_codes(v)
        PROVE  UNCHANGED Ledger!ledger
    <3>1. \A u \in Vouchers : /\ history'[u].loaded = history[u].loaded
                              /\ history'[u].spent = history[u].spent
      BY <2>1, <2>2 DEF _generate_vouchers_qr_codes, AddEntry, TypeOK, History
    <3> QED
      BY <2>2, <3>1
      DEF _generate_vouchers_qr_codes, Ledger!ledger, sum_all_transactions
  <2>3. ASSUME NEW v \in Vouchers, NEW a \in Amounts,
               solution_voucher_activate(v, a)
        PROVE  Ledger!Load(v, a)
    <3>1. history[v].loaded = 0 /\ history[v].spent = 0
      BY <2>1, <2>3
      DEF solution_voucher_activate, MayActivate, OnlyActivated, NeverOverspent,
          TypeOK, History
    <3>2. /\ history' = [history EXCEPT ![v] = AddEntry(history[v], a, 0)]
          /\ redemption' = redemption
          /\ a \in Nat
      BY <2>3, AmountsAssumption DEF solution_voucher_activate
    <3>3. /\ history'[v].loaded = a /\ history'[v].spent = 0
          /\ \A u \in Vouchers : u # v => history'[u] = history[u]
      BY <2>1, <3>1, <3>2 DEF TypeOK, History, AddEntry
    <3>4. [u \in Vouchers |-> history[u].loaded]' =
            [[u \in Vouchers |-> history[u].loaded] EXCEPT ![v] = a]
      BY <3>3
    <3>5. [u \in Vouchers |-> sum_all_transactions(history[u])]' =
            [[u \in Vouchers |-> sum_all_transactions(history[u])]
               EXCEPT ![v] = a]
      <4>1. sum_all_transactions(history'[v]) = a
        BY <3>2, <3>3 DEF sum_all_transactions
      <4>2. \A u \in Vouchers : u # v =>
              sum_all_transactions(history'[u]) = sum_all_transactions(history[u])
        BY <3>3
      <4> HIDE DEF sum_all_transactions
      <4> QED
        BY <4>1, <4>2
    <3>6. {s \in Redemptions : redemption[s].state = "confirmed"}' =
            {s \in Redemptions : redemption[s].state = "confirmed"}
      BY <3>2
    <3> QED
      BY <3>1, <3>4, <3>5, <3>6 DEF Ledger!Load
  <2>4. ASSUME NEW r \in Redemptions, solution_voucher_confirm_redeem(r)
        PROVE  Ledger!LedgerNext
    <3>0. PICK v \in Vouchers, a \in Nat :
            v = redemption[r].voucher /\ a = redemption[r].value
      BY <2>1 DEF TypeOK, RedemptionEntity
    <3>1. /\ LengthSigned(r) = history[v].length
          /\ history[v].loaded - history[v].spent - a >= 0
          /\ redemption' = [redemption EXCEPT ![r].state = "confirmed"]
          /\ history' = [history EXCEPT ![v] = AddEntry(history[v], 0, a)]
          /\ redemption[r].state \in {"open", "confirmed"}
      BY <2>4, <3>0
      DEF solution_voucher_confirm_redeem, SignatureMatches, signature,
          LengthSigned, LedgerAgrees, sum_all_transactions
    <3>2. /\ v \in Vouchers /\ a \in Amounts /\ a \in Nat
          /\ LengthSigned(r) \in Nat
          /\ \A u \in Vouchers : /\ history[u].length \in Nat
                                  /\ history[u].loaded \in Nat
                                  /\ history[u].spent \in Nat
      BY <2>1, <3>0, <3>1, AmountsAssumption
      DEF TypeOK, RedemptionEntity, Signature, History, LengthSigned,
          RedemptionAmounts
    <3>3. redemption[r].state # "confirmed"
      BY <2>1, <3>0, <3>1, <3>2 DEF SignaturesInThePast
    <3>4. {s \in Redemptions : redemption'[s].state = "confirmed"} =
            {s \in Redemptions : redemption[s].state = "confirmed"} \cup {r}
      BY <2>1, <3>1 DEF TypeOK, RedemptionEntity
    <3>5. /\ \A u \in Vouchers : history'[u].loaded = history[u].loaded
          /\ history'[v].spent = history[v].spent + a
          /\ \A u \in Vouchers : u # v => history'[u].spent = history[u].spent
      BY <2>1, <3>1, <3>2 DEF TypeOK, AddEntry
    <3>6. [u \in Vouchers |-> sum_all_transactions(history[u])]' =
            [[u \in Vouchers |-> sum_all_transactions(history[u])]
               EXCEPT ![v] = @ - a]
      <4>1. sum_all_transactions(history'[v]) = sum_all_transactions(history[v]) - a
        BY <3>2, <3>5 DEF sum_all_transactions
      <4>2. \A u \in Vouchers : u # v =>
              sum_all_transactions(history'[u]) = sum_all_transactions(history[u])
        BY <3>5 DEF sum_all_transactions
      <4> QED
        BY <3>2, <4>1, <4>2
    <3>7. [u \in Vouchers |-> history[u].loaded]' =
            [u \in Vouchers |-> history[u].loaded]
      BY <3>5
    <3>8. a <= sum_all_transactions(history[v])
      BY <3>1, <3>2 DEF sum_all_transactions
    <3>9. Ledger!Settle(v, r, a)
      BY <3>2, <3>3, <3>4, <3>6, <3>7, <3>8 DEF Ledger!Settle
    <3> QED
      BY <3>2, <3>9 DEF Ledger!LedgerNext
  <2>5. ASSUME UNCHANGED history,
               \A r \in Redemptions : redemption'[r].state = "confirmed"
                                       <=> redemption[r].state = "confirmed"
        PROVE  UNCHANGED Ledger!ledger
    BY <2>5 DEF Ledger!ledger, sum_all_transactions
  <2>6. CASE \E r \in Redemptions, v \in Vouchers, a \in Amounts :
                RedeemRead(r, v, a)
    BY <2>1, <2>5, <2>6 DEF RedeemRead, TypeOK
  <2>7. CASE \E r \in Redemptions : RedeemPut(r)
    BY <2>1, <2>5, <2>7 DEF RedeemPut, TypeOK
  <2>8. CASE UNCHANGED <<history, redemption>>
    BY <2>5, <2>8
  <2>9. (\E v \in Vouchers, a \in Amounts : Ledger!Load(v, a))
          => Ledger!LedgerNext
    BY DEF Ledger!LedgerNext
  <2>10. CASE \/ (\E w \in Workers, v \in Vouchers : ReindexRead(w, v))
               \/ (\E w \in Workers : ReindexPut(w))
               \/ (\E w \in Workers, v \in Vouchers, d \in Days :
                     RemindRead(w, v, d))
               \/ (\E w \in Workers : RemindPut(w))
               \/ (\E w \in Workers : WorkerDies(w))
               \/ UNCHANGED vars
    <3>1. UNCHANGED <<history, redemption>>
      BY <2>10
      DEF ReindexRead, ReindexPut, RemindRead, RemindPut, WorkerDies, vars
    <3> QED
      BY <3>1, <2>8
  <2> QED
    BY <1>2, <2>2, <2>3, <2>6, <2>7, <2>4, <2>9, <2>10 DEF Next
<1> QED
  BY <1>1, <1>2, InitRInv, NextRInv, PTL
  DEF Spec, ImplementsLedger, Ledger!LedgerSpec

-----------------------------------------------------------------------------
(* Publishing, which the same run checks: it has a prefix here, because its *)
(* names are those of a module of its own.                                  *)

Bad == {"missed", "overtaken", "failed", "deleted"}

OfTheMenu == {"overwritten", "overlapped", "unfinished"}

Buyer == [user: Users, purchase: Purchases, units_user: Nat, outdated: BOOLEAN]

RequestTyped(r) ==
  \/ r = Pub!Idle
  \/ r \in [op: {"save", "modules"}, settings: Pub!SolutionSettings, outdated: BOOLEAN]
  \/ r \in [op: {"delete"}, settings: Pub!SolutionSettings, items: SUBSET Modules, outdated: BOOLEAN]
  \/ r \in [op: {"menu"}, settings: Pub!SolutionSettings, items: SUBSET Modules]
  \/ r \in [op: {"compose"}, settings: Pub!SolutionSettings, for: Buyer \cup {Pub!NoOne}]
  \/ /\ r.op = "put"
     /\ r = [op |-> "put", for |-> r.for, app_data |-> r.app_data, outdated |-> r.outdated]
     /\ r.for \in Buyer \cup {Pub!NoOne} /\ r.outdated \in BOOLEAN
  \/ r \in [op: {"finish"}, outdated: BOOLEAN]
  \/ r \in [op: {"get_user_data"}, for: Buyer]
  \/ r \in [op: {"put_user_data"}, for: Buyer, user_data: [Purchases -> Nat]]

TypesInv ==
  /\ settings \in Pub!SolutionSettings
  /\ purchase \in [Purchases -> Pub!Purchase]
  /\ bought \in [Purchases -> [Users -> Nat]]
  /\ menu \subseteq Modules
  /\ user_data \in [Users -> [Purchases -> Nat]]
  /\ \A q \in Requests : RequestTyped(request[q])
  /\ lost \subseteq Bad \cup OfTheMenu \cup Users
  /\ DOMAIN request = Requests

ForOf(r) == IF "for" \in DOMAIN r THEN r.for ELSE Pub!NoOne

NothingToPut(s) == s.modules_to_put = {} /\ s.modules_to_remove = {}

RequestFits(q) ==
  /\ request[q].op \in {"save", "modules"} /\ ~request[q].outdated
       => /\ request[q].settings.modules = settings.modules
          /\ request[q].settings.provisioned_modules = settings.provisioned_modules
  /\ request[q].op \in {"delete", "menu", "compose"} /\ ForOf(request[q]) = Pub!NoOne
       => NothingToPut(request[q].settings)
  /\ request[q].op \in {"delete", "menu"}
       => request[q].settings.provisioned_modules = request[q].settings.modules
  /\ request[q].op = "put" /\ ~request[q].outdated
       => /\ request[q].app_data = Pub!AppData(settings)
          /\ ForOf(request[q]) = Pub!NoOne => NothingToPut(settings)
  /\ request[q].op = "finish" /\ ~request[q].outdated
       => app_data = Pub!AppData(settings) /\ NothingToPut(settings)

StoredInv ==
  lost \cap Bad = {} =>
    \/ settings.updates_pending \/ app_data = Pub!AppData(settings)
    \/ \E q \in Requests : request[q].op \in {"menu", "compose", "put"}

(* A publication that deletes items knows all that its settings are without *)
(* and one that puts items puts none of those.                             *)
MenuFits(q) ==
  /\ request[q].op = "menu" => request[q].items \subseteq settings.modules
  /\ request[q].op = "delete" /\ ~request[q].outdated
       => /\ menu \ request[q].settings.modules \subseteq request[q].items
          /\ \A p \in Requests :
               request[p].op = "menu" => request[p].items \subseteq request[q].settings.modules

(* Who may have deleted an item, or is to put it.                          *)
HasInHand(q, m) ==
  request[q].op = "delete" \/ (request[q].op = "menu" /\ m \in request[q].items)

MenuInv ==
  lost \cap {"overwritten", "overlapped"} = {} =>
    /\ menu \subseteq settings.modules /\ settings.provisioned_modules = settings.modules
    /\ \A q \in Requests : MenuFits(q)
    /\ "unfinished" \notin lost
         => \A m \in settings.modules \ menu : \E q \in Requests : HasInHand(q, m)

MissedInv == "missed" \notin lost => settings.updates_pending \/ NothingToPut(settings)

BuyersOf(u) == {q \in Requests : ForOf(request[q]) # Pub!NoOne /\ ForOf(request[q]).user = u}

UnitsFit(u) ==
  /\ \A g \in Purchases :
       /\ user_data[u][g] <= bought[g][u]
       /\ \/ user_data[u][g] = bought[g][u]
          \/ \E q \in BuyersOf(u) :
               ForOf(request[q]).purchase = g /\ ForOf(request[q]).units_user = bought[g][u]
  /\ \A q \in BuyersOf(u) :
       /\ user_data[u][ForOf(request[q]).purchase] < ForOf(request[q]).units_user
       /\ ForOf(request[q]).units_user <= bought[ForOf(request[q]).purchase][u]
       /\ request[q].op = "put_user_data" => request[q].user_data = Pub!WithUnits(user_data[u], ForOf(request[q]))
       /\ \A p \in BuyersOf(u) :
            p # q /\ ForOf(request[p]).purchase = ForOf(request[q]).purchase
              => ForOf(request[p]).units_user # ForOf(request[q]).units_user

Doomed(u) == \E q \in BuyersOf(u) : ForOf(request[q]).outdated

UnitsInv == \A u \in Users \ lost : Doomed(u) \/ UnitsFit(u)

PubInv ==
  /\ Pub!PublishingAssumption /\ TypesInv
  /\ \A q \in Requests : RequestFits(q)
  /\ StoredInv /\ MenuInv /\ MissedInv /\ UnitsInv

-----------------------------------------------------------------------------
(* What a request has read, and that another one wrote after it.           *)

LEMMA ForIs ==
  ASSUME NEW q
  PROVE  Pub!For(q) = ForOf(request[q]) /\ Pub!For(q)' = ForOf(request'[q])
  BY DEF Pub!For, ForOf

LEMMA BuyerIsSome == ASSUME NEW b \in Buyer PROVE b # Pub!NoOne
<1>1. "purchase" \in DOMAIN b /\ "purchase" \notin DOMAIN Pub!NoOne
  BY DEF Buyer, Pub!NoOne
<1> QED
  BY <1>1

LEMMA KindOf ==
  ASSUME NEW r, RequestTyped(r)
  PROVE  /\ r.op \in {"idle", "save", "modules", "delete", "menu", "compose", "put", "finish",
                      "get_user_data", "put_user_data"}
         /\ r.op = "idle" => r = Pub!Idle
         /\ r.op \in {"idle", "save", "modules", "delete", "menu", "finish"}
              => ForOf(r) = Pub!NoOne
         /\ r.op \in {"compose", "put"}
              => ForOf(r) = r.for /\ r.for \in Buyer \cup {Pub!NoOne}
         /\ r.op \in {"get_user_data", "put_user_data"} => ForOf(r) = r.for /\ r.for \in Buyer
         /\ r.op \in {"save", "modules", "delete", "menu", "compose"}
              => r.settings \in Pub!SolutionSettings
         /\ r.op \in {"delete", "menu"} => r.items \subseteq Modules
         /\ r.op \in {"save", "modules", "delete", "put", "finish"} => r.outdated \in BOOLEAN
         /\ r.op = "put_user_data" => r.user_data \in [Purchases -> Nat]
<1>1. CASE r = Pub!Idle
  BY <1>1 DEF Pub!Idle, ForOf
<1>2. CASE r \in [op: {"save", "modules"}, settings: Pub!SolutionSettings, outdated: BOOLEAN]
  BY <1>2 DEF ForOf
<1>3. CASE r \in [op: {"compose"}, settings: Pub!SolutionSettings, for: Buyer \cup {Pub!NoOne}]
  BY <1>3 DEF ForOf
<1>4. CASE /\ r.op = "put"
           /\ r = [op |-> "put", for |-> r.for, app_data |-> r.app_data, outdated |-> r.outdated]
           /\ r.for \in Buyer \cup {Pub!NoOne} /\ r.outdated \in BOOLEAN
  BY <1>4 DEF ForOf
<1>5. CASE r \in [op: {"finish"}, outdated: BOOLEAN]
  BY <1>5 DEF ForOf
<1>6. CASE r \in [op: {"get_user_data"}, for: Buyer]
  BY <1>6 DEF ForOf
<1>7. CASE r \in [op: {"put_user_data"}, for: Buyer, user_data: [Purchases -> Nat]]
  BY <1>7 DEF ForOf
<1>8. CASE r \in [op: {"delete"}, settings: Pub!SolutionSettings, items: SUBSET Modules, outdated: BOOLEAN]
  BY <1>8 DEF ForOf
<1>9. CASE r \in [op: {"menu"}, settings: Pub!SolutionSettings, items: SUBSET Modules]
  BY <1>9 DEF ForOf
<1> QED
  BY <1>8, <1>9, <1>1, <1>2, <1>3, <1>4, <1>5, <1>6, <1>7 DEF RequestTyped

Aged(r) ==
  IF r.op \in {"save", "modules", "delete", "put", "finish"} THEN [r EXCEPT !.outdated = TRUE] ELSE r

LEMMA AgedKind ==
  ASSUME NEW r, RequestTyped(r)
  PROVE  /\ RequestTyped(Aged(r)) /\ Aged(r).op = r.op /\ ForOf(Aged(r)) = ForOf(r)
         /\ r.op \in {"save", "modules", "delete", "put", "finish"} => Aged(r).outdated
         /\ r.op \notin {"save", "modules", "delete", "put", "finish"} => Aged(r) = r
         /\ r.op = "delete" => Aged(r).settings = r.settings /\ Aged(r).items = r.items
<1>1. CASE r = Pub!Idle
  BY <1>1 DEF Pub!Idle, ForOf, Aged, RequestTyped
<1>2. CASE r \in [op: {"save", "modules"}, settings: Pub!SolutionSettings, outdated: BOOLEAN]
  BY <1>2 DEF ForOf, Aged, RequestTyped
<1>3. CASE r \in [op: {"compose"}, settings: Pub!SolutionSettings, for: Buyer \cup {Pub!NoOne}]
  BY <1>3 DEF ForOf, Aged, RequestTyped
<1>4. CASE /\ r.op = "put"
           /\ r = [op |-> "put", for |-> r.for, app_data |-> r.app_data, outdated |-> r.outdated]
           /\ r.for \in Buyer \cup {Pub!NoOne} /\ r.outdated \in BOOLEAN
  <2>1. Aged(r) = [op |-> "put", for |-> r.for, app_data |-> r.app_data, outdated |-> TRUE]
    BY <1>4 DEF Aged
  <2> QED
    BY <1>4, <2>1 DEF ForOf, RequestTyped
<1>5. CASE r \in [op: {"finish"}, outdated: BOOLEAN]
  BY <1>5 DEF ForOf, Aged, RequestTyped
<1>6. CASE r \in [op: {"get_user_data"}, for: Buyer]
  BY <1>6 DEF ForOf, Aged, RequestTyped
<1>7. CASE r \in [op: {"put_user_data"}, for: Buyer, user_data: [Purchases -> Nat]]
  BY <1>7 DEF ForOf, Aged, RequestTyped
<1>8. CASE r \in [op: {"delete"}, settings: Pub!SolutionSettings, items: SUBSET Modules, outdated: BOOLEAN]
  BY <1>8 DEF ForOf, Aged, RequestTyped
<1>9. CASE r \in [op: {"menu"}, settings: Pub!SolutionSettings, items: SUBSET Modules]
  BY <1>9 DEF ForOf, Aged, RequestTyped
<1> QED
  BY <1>8, <1>9, <1>1, <1>2, <1>3, <1>4, <1>5, <1>6, <1>7 DEF RequestTyped

LEMMA WriteAges ==
  ASSUME TypesInv
  PROVE  /\ Pub!Writes => request' = [p \in Requests |-> Aged(request[p])]
         /\ \A q \in Requests : \A r :
              Pub!WritesAs(q, r)
                => request' = [p \in Requests |-> IF p = q THEN r ELSE Aged(request[p])]
  BY DEF Pub!Writes, Pub!WritesAs, Pub!Outdates, Aged

(* After a write nothing of what the others have read is trusted.          *)
LEMMA AgedFits ==
  ASSUME TypesInv, NEW q \in Requests, RequestFits(q), request'[q] = Aged(request[q])
  PROVE  RequestTyped(request'[q]) /\ RequestFits(q)'
<1>1. RequestTyped(request[q])
  BY DEF TypesInv
<1>2. /\ RequestTyped(request'[q]) /\ request'[q].op = request[q].op
      /\ ForOf(request'[q]) = ForOf(request[q])
      /\ request[q].op \in {"save", "modules", "put", "finish"} => request'[q].outdated
      /\ request[q].op \in {"menu", "compose"} => request'[q] = request[q]
      /\ request[q].op = "delete" => request'[q].settings = request[q].settings
  BY <1>1, AgedKind
<1>3. Pub!NoOne' = Pub!NoOne
  BY DEF Pub!NoOne
<1>4. ForOf(request[q])' = ForOf(request[q])
  BY <1>2, ForIs
<1> QED
  BY <1>2, <1>3, <1>4 DEF RequestFits, NothingToPut

(* What a step leaves of the purchase that a request is for.               *)
Carries(q) ==
  /\ ForOf(request'[q]) = ForOf(request[q])
  /\ request'[q].op = "put_user_data"
       => \/ request[q].op = "put_user_data" /\ request'[q].user_data = request[q].user_data
          \/ request'[q].user_data
               = Pub!WithUnits(user_data[ForOf(request[q]).user], ForOf(request[q]))

LEMMA AgedCarries ==
  ASSUME TypesInv, NEW q \in Requests, request'[q] = Aged(request[q])
  PROVE  Carries(q)
<1>1. RequestTyped(request[q])
  BY DEF TypesInv
<1>2. /\ request'[q].op = request[q].op /\ ForOf(request'[q]) = ForOf(request[q])
      /\ request[q].op = "put_user_data" => request'[q] = request[q]
  BY <1>1, AgedKind
<1> QED
  BY <1>2 DEF Carries

(* And what it leaves of a publication that changes the menu.              *)
MenuSame(q) ==
  /\ request'[q].op = request[q].op
       \/ {request[q].op, request'[q].op} \cap {"delete", "menu"} = {}
  /\ request[q].op \in {"delete", "menu"}
       => /\ request'[q].settings = request[q].settings /\ request'[q].items = request[q].items
          /\ request[q].op = "delete" /\ request[q].outdated => request'[q].outdated

LEMMA AgedMenuSame ==
  ASSUME TypesInv, NEW q \in Requests, request'[q] = Aged(request[q])
  PROVE  MenuSame(q)
<1>1. RequestTyped(request[q])
  BY DEF TypesInv
<1>2. /\ request'[q].op = request[q].op
      /\ request[q].op = "menu" => request'[q] = request[q]
      /\ request[q].op = "delete" => /\ request'[q].settings = request[q].settings
                                     /\ request'[q].items = request[q].items /\ request'[q].outdated
  BY <1>1, AgedKind
<1> QED
  BY <1>2 DEF MenuSame

LEMMA MenuStays ==
  ASSUME TypesInv, MenuInv, lost \cap OfTheMenu \subseteq lost', UNCHANGED menu,
         settings'.modules = settings.modules,
         settings'.provisioned_modules = settings.provisioned_modules,
         \A q \in Requests : MenuSame(q)
  PROVE  MenuInv'
<1> SUFFICES ASSUME lost' \cap {"overwritten", "overlapped"} = {}
             PROVE  /\ menu' \subseteq settings'.modules
                    /\ settings'.provisioned_modules = settings'.modules
                    /\ \A q \in Requests : MenuFits(q)'
                    /\ "unfinished" \notin lost'
                         => \A m \in settings'.modules \ menu' : \E q \in Requests : HasInHand(q, m)'
  BY DEF MenuInv
<1>1. /\ menu \subseteq settings.modules /\ settings.provisioned_modules = settings.modules
      /\ \A q \in Requests : MenuFits(q)
      /\ "unfinished" \notin lost
           => \A m \in settings.modules \ menu : \E q \in Requests : HasInHand(q, m)
  BY DEF MenuInv, OfTheMenu
<1>2. \A q \in Requests :
        /\ request'[q].op \in {"delete", "menu"} => request[q].op = request'[q].op
        /\ request[q].op \in {"delete", "menu"}
             => /\ request[q].op = request'[q].op
                /\ request'[q].settings = request[q].settings /\ request'[q].items = request[q].items
                /\ request[q].op = "delete" /\ request[q].outdated => request'[q].outdated
  BY DEF MenuSame
<1>3. \A q \in Requests : MenuFits(q)'
  BY <1>1, <1>2 DEF MenuFits
<1>4. \A q \in Requests, m \in Modules : HasInHand(q, m) => HasInHand(q, m)'
  BY <1>2 DEF HasInHand
<1>5. "unfinished" \notin lost' => "unfinished" \notin lost
  BY DEF OfTheMenu
<1>6. settings.modules \subseteq Modules
  BY DEF TypesInv, Pub!SolutionSettings
<1> QED
  BY <1>1, <1>3, <1>4, <1>5, <1>6

LEMMA WritesKeep ==
  ASSUME PubInv, Pub!Writes
  PROVE  /\ DOMAIN request' = Requests
         /\ \A q \in Requests : /\ RequestTyped(request'[q]) /\ RequestFits(q)' /\ Carries(q)
                                /\ request'[q].op = request[q].op /\ MenuSame(q)
<1>1. request' = [p \in Requests |-> Aged(request[p])]
  BY WriteAges DEF PubInv
<1>2. ASSUME NEW q \in Requests
      PROVE  /\ RequestTyped(request'[q]) /\ RequestFits(q)' /\ Carries(q)
             /\ request'[q].op = request[q].op /\ MenuSame(q)
  <2>1. TypesInv /\ RequestFits(q) /\ RequestTyped(request[q]) /\ request'[q] = Aged(request[q])
    BY <1>1 DEF PubInv, TypesInv
  <2> QED
    BY <2>1, AgedFits, AgedCarries, AgedKind, AgedMenuSame
<1> QED
  BY <1>1, <1>2

LEMMA WritesAsKeeps ==
  ASSUME PubInv, NEW q \in Requests, NEW r, Pub!WritesAs(q, r)
  PROVE  /\ DOMAIN request' = Requests /\ request'[q] = r
         /\ \A p \in Requests \ {q} :
              /\ RequestTyped(request'[p]) /\ RequestFits(p)' /\ Carries(p)
              /\ request'[p].op = request[p].op /\ MenuSame(p)
<1>1. request' = [p \in Requests |-> IF p = q THEN r ELSE Aged(request[p])]
  BY WriteAges DEF PubInv
<1>2. ASSUME NEW p \in Requests \ {q}
      PROVE  /\ RequestTyped(request'[p]) /\ RequestFits(p)' /\ Carries(p)
             /\ request'[p].op = request[p].op /\ MenuSame(p)
  <2>1. TypesInv /\ RequestFits(p) /\ RequestTyped(request[p]) /\ request'[p] = Aged(request[p])
    BY <1>1 DEF PubInv, TypesInv
  <2> QED
    BY <2>1, AgedFits, AgedCarries, AgedKind, AgedMenuSame
<1> QED
  BY <1>1, <1>2

LEMMA SameAppData ==
  ASSUME UNCHANGED <<purchase, bought>>,
         settings'.name = settings.name, settings'.holidays = settings.holidays,
         settings'.modules = settings.modules
  PROVE  Pub!AppData(settings)' = Pub!AppData(settings)
  BY DEF Pub!AppData, Pub!units_available, Pub!Sold

(* A step that only changes what one request has read.                     *)
LEMMA OneReads ==
  ASSUME PubInv, NEW q \in Requests, NEW r, request' = [request EXCEPT ![q] = r],
         UNCHANGED <<settings, purchase, bought, app_data>>
  PROVE  /\ DOMAIN request' = Requests /\ request'[q] = r
         /\ \A p \in Requests \ {q} :
              /\ RequestTyped(request'[p]) /\ RequestFits(p)' /\ Carries(p)
              /\ request'[p].op = request[p].op /\ MenuSame(p)
<1>1. DOMAIN request = Requests
  BY DEF PubInv, TypesInv
<1>2. /\ DOMAIN request' = Requests /\ request'[q] = r
      /\ \A p \in Requests \ {q} : request'[p] = request[p]
  BY <1>1
<1>3. Pub!AppData(settings)' = Pub!AppData(settings)
  BY SameAppData
<1>4. ASSUME NEW p \in Requests \ {q}
      PROVE  /\ RequestTyped(request'[p]) /\ RequestFits(p)' /\ Carries(p)
             /\ request'[p].op = request[p].op /\ MenuSame(p)
  <2>1. RequestFits(p) /\ RequestTyped(request[p]) /\ request'[p] = request[p]
    BY <1>2 DEF PubInv, TypesInv
  <2>2. RequestFits(p)'
    BY <1>3, <2>1 DEF RequestFits
  <2> QED
    BY <2>1, <2>2 DEF Carries, MenuSame
<1> QED
  BY <1>2, <1>4

LEMMA BuyersAre ==
  ASSUME TypesInv, NEW u \in Users, NEW q \in BuyersOf(u)
  PROVE  /\ ForOf(request[q]) \in Buyer /\ ForOf(request[q]).purchase \in Purchases
         /\ ForOf(request[q]).user = u /\ ForOf(request[q]).units_user \in Nat
         /\ request[q].op \in {"compose", "put", "get_user_data", "put_user_data"}
<1>1. q \in Requests /\ RequestTyped(request[q]) /\ ForOf(request[q]) # Pub!NoOne
      /\ ForOf(request[q]).user = u
  BY DEF BuyersOf, TypesInv
<1>2. ForOf(request[q]) \in Buyer
      /\ request[q].op \in {"compose", "put", "get_user_data", "put_user_data"}
  BY <1>1, KindOf
<1> QED
  BY <1>1, <1>2 DEF Buyer

LEMMA UnitsOfStay ==
  ASSUME TypesInv, NEW u \in Users, BuyersOf(u)' = BuyersOf(u), \A q \in BuyersOf(u) : Carries(q),
         user_data'[u] = user_data[u], \A g \in Purchases : bought'[g][u] = bought[g][u],
         Doomed(u) \/ UnitsFit(u)
  PROVE  Doomed(u)' \/ UnitsFit(u)'
<1>1. \A q \in BuyersOf(u) : ForOf(request'[q]) = ForOf(request[q])
  BY DEF Carries
<1>2. CASE Doomed(u)
  BY <1>1, <1>2 DEF Doomed
<1>3. CASE UnitsFit(u)
  <2>1. \A q \in BuyersOf(u) :
          request'[q].op = "put_user_data"
            => request'[q].user_data = Pub!WithUnits(user_data[u], ForOf(request[q]))
    <3> SUFFICES ASSUME NEW q \in BuyersOf(u), request'[q].op = "put_user_data"
                 PROVE  request'[q].user_data = Pub!WithUnits(user_data[u], ForOf(request[q]))
      OBVIOUS
    <3>1. Carries(q) /\ ForOf(request[q]).user = u
      BY DEF BuyersOf
    <3>2. request[q].op = "put_user_data"
            => request[q].user_data = Pub!WithUnits(user_data[u], ForOf(request[q]))
      BY <1>3 DEF UnitsFit
    <3> QED
      BY <3>1, <3>2 DEF Carries
  <2>2. \A q : Pub!WithUnits(user_data[u], ForOf(request[q]))'
               = Pub!WithUnits(user_data'[u], ForOf(request'[q]))
    BY DEF Pub!WithUnits
  <2>3. \A q \in BuyersOf(u) : Pub!WithUnits(user_data[u], ForOf(request[q]))'
                               = Pub!WithUnits(user_data[u], ForOf(request[q]))
    BY <1>1, <2>2
  <2>4. ASSUME NEW g \in Purchases
        PROVE  /\ user_data'[u][g] <= bought'[g][u]
               /\ \/ user_data'[u][g] = bought'[g][u]
                  \/ \E q \in BuyersOf(u) : ForOf(request'[q]).purchase = g
                                           /\ ForOf(request'[q]).units_user = bought'[g][u]
    BY <1>1, <1>3 DEF UnitsFit
  <2>5. ASSUME NEW q \in BuyersOf(u)
        PROVE  /\ user_data'[u][ForOf(request'[q]).purchase] < ForOf(request'[q]).units_user
               /\ ForOf(request'[q]).units_user <= bought'[ForOf(request'[q]).purchase][u]
               /\ \A p \in BuyersOf(u) :
                    p # q /\ ForOf(request'[p]).purchase = ForOf(request'[q]).purchase
                      => ForOf(request'[p]).units_user # ForOf(request'[q]).units_user
    <3>1. ForOf(request[q]).purchase \in Purchases
      BY BuyersAre
    <3> QED
      BY <1>1, <1>3, <3>1 DEF UnitsFit
  <2>6. \A q \in BuyersOf(u) :
          request'[q].op = "put_user_data"
            => request'[q].user_data = Pub!WithUnits(user_data[u], ForOf(request[q]))'
    BY <2>1, <2>3
  <2> QED
    BY <2>4, <2>5, <2>6 DEF UnitsFit
<1> QED
  BY <1>2, <1>3

LEMMA UnitsStay ==
  ASSUME TypesInv, UnitsInv, lost \cap Users \subseteq lost', UNCHANGED <<bought, user_data>>,
         \A q \in Requests : Carries(q)
  PROVE  UnitsInv'
<1> SUFFICES ASSUME NEW u \in Users, u \notin lost' PROVE Doomed(u)' \/ UnitsFit(u)'
  BY DEF UnitsInv
<1>1. Doomed(u) \/ UnitsFit(u)
  BY DEF UnitsInv
<1>2. BuyersOf(u)' = BuyersOf(u)
  BY DEF BuyersOf, Carries
<1>3. \A q \in BuyersOf(u) : Carries(q)
  BY DEF BuyersOf
<1> QED
  BY <1>1, <1>2, <1>3, UnitsOfStay

LEMMA StoredStays ==
  ASSUME StoredInv, lost \cap Bad \subseteq lost',
         settings.updates_pending => settings'.updates_pending,
         app_data = Pub!AppData(settings) => app_data' = Pub!AppData(settings)',
         \A p \in Requests : request[p].op \in {"menu", "compose", "put"}
                               => request'[p].op \in {"menu", "compose", "put"}
  PROVE  StoredInv'
  BY DEF StoredInv

-----------------------------------------------------------------------------
(* The steps, one by one.                                                  *)

LEMMA PubInitInv == Pub!Init => PubInv
<1> SUFFICES ASSUME Pub!Init PROVE PubInv
  OBVIOUS
<1>0. Pub!PublishingAssumption
  BY PublishingConstants
<1> USE <1>0
<1>1. Pub!NewSettings \in Pub!SolutionSettings /\ NothingToPut(Pub!NewSettings)
      /\ Pub!NewSettings.modules = {} /\ Pub!NewSettings.provisioned_modules = {}
  <2>1. (CHOOSE n \in Names : TRUE) \in Names
    BY DEF Pub!PublishingAssumption
  <2> QED
    BY <2>1 DEF Pub!NewSettings, Pub!SolutionSettings, NothingToPut
<1>2. \A q \in Requests : request[q] = Pub!Idle
  BY DEF Pub!Init
<1>3. Pub!Idle.op = "idle" /\ RequestTyped(Pub!Idle) /\ ForOf(Pub!Idle) = Pub!NoOne
  BY DEF Pub!Idle, RequestTyped, ForOf
<1>4. TypesInv
  BY <1>1, <1>2, <1>3 DEF Pub!Init, TypesInv, Pub!Purchase, Pub!NoPurchase
<1>5. \A q \in Requests : RequestFits(q)
  BY <1>2, <1>3 DEF RequestFits
<1>6. \A u : BuyersOf(u) = {}
  BY <1>2, <1>3 DEF BuyersOf
<1>7. UnitsInv
  <2> SUFFICES ASSUME NEW u \in Users PROVE UnitsFit(u)
    BY DEF UnitsInv
  <2>1. \A g \in Purchases : user_data[u][g] = 0 /\ bought[g][u] = 0
    BY DEF Pub!Init
  <2> QED
    BY <1>6, <2>1 DEF UnitsFit
<1>8. MenuInv
  BY <1>1, <1>2, <1>3 DEF Pub!Init, MenuInv, MenuFits
<1> QED
  BY <1>1, <1>4, <1>5, <1>7, <1>8 DEF PubInv, Pub!Init, StoredInv, MissedInv

(* The settings or a group purchase are changed in a transaction.          *)
LEMMA ChangeKeepsInv ==
  ASSUME PubInv, Pub!Writes,
         settings' \in Pub!SolutionSettings, settings'.modules = settings.modules,
         settings'.provisioned_modules = settings.provisioned_modules,
         purchase' \in [Purchases -> Pub!Purchase],
         UNCHANGED <<bought, menu, app_data, user_data>>,
         \/ settings'.updates_pending /\ lost' = lost
         \/ settings' = settings /\ lost' = lost \cup {"deleted"}
  PROVE  PubInv'
<1>1. /\ DOMAIN request' = Requests
      /\ \A q \in Requests : /\ RequestTyped(request'[q]) /\ RequestFits(q)' /\ Carries(q)
                             /\ request'[q].op = request[q].op /\ MenuSame(q)
  BY WritesKeep
<1>2. TypesInv /\ Pub!PublishingAssumption
  BY DEF PubInv
<1>3. TypesInv'
  BY <1>1, <1>2 DEF TypesInv, Bad
<1>4. UnitsInv'
  BY <1>1, UnitsStay DEF PubInv
<1>5. StoredInv'
  BY DEF StoredInv, Bad
<1>6. MenuInv'
  BY <1>1, MenuStays DEF PubInv, OfTheMenu
<1>7. MissedInv'
  BY DEF PubInv, MissedInv, NothingToPut
<1> QED
  BY <1>1, <1>2, <1>3, <1>4, <1>5, <1>6, <1>7 DEF PubInv, Pub!PublishingAssumption

LEMMA HolidayKeepsInv ==
  ASSUME PubInv, NEW h \in Holidays, Pub!add_holiday(h) \/ Pub!delete_holiday(h)
  PROVE  PubInv'
<1>1. settings \in Pub!SolutionSettings /\ purchase \in [Purchases -> Pub!Purchase]
  BY DEF PubInv, TypesInv
<1>2. PICK H \in SUBSET Holidays :
        settings' = [settings EXCEPT !.holidays = H, !.updates_pending = TRUE]
  <2>1. settings.holidays \cup {h} \in SUBSET Holidays
        /\ settings.holidays \ {h} \in SUBSET Holidays
    BY <1>1 DEF Pub!SolutionSettings
  <2> QED
    BY <2>1 DEF Pub!add_holiday, Pub!delete_holiday
<1>3. /\ settings' \in Pub!SolutionSettings /\ settings'.modules = settings.modules
      /\ settings'.provisioned_modules = settings.provisioned_modules
      /\ settings'.updates_pending
  BY <1>1, <1>2 DEF Pub!SolutionSettings
<1>4. Pub!Writes /\ UNCHANGED <<purchase, bought, menu, app_data, user_data, lost>>
  BY DEF Pub!add_holiday, Pub!delete_holiday
<1> QED
  BY <1>1, <1>3, <1>4, ChangeKeepsInv

LEMMA SavedPurchaseKeepsInv ==
  ASSUME PubInv, NEW g \in Purchases, NEW n \in Units, Pub!save_group_purchase(g, n)
  PROVE  PubInv'
<1>1. settings \in Pub!SolutionSettings /\ purchase \in [Purchases -> Pub!Purchase]
  BY DEF PubInv, TypesInv
<1>2. /\ settings' \in Pub!SolutionSettings /\ settings'.modules = settings.modules
      /\ settings'.provisioned_modules = settings.provisioned_modules
      /\ settings'.updates_pending
  BY <1>1 DEF Pub!save_group_purchase, Pub!Saved, Pub!SolutionSettings
<1>3. purchase' \in [Purchases -> Pub!Purchase]
  BY <1>1 DEF Pub!save_group_purchase, Pub!Purchase
<1>4. Pub!Writes /\ UNCHANGED <<bought, menu, app_data, user_data, lost>>
  BY DEF Pub!save_group_purchase
<1> QED
  BY <1>1, <1>2, <1>3, <1>4, ChangeKeepsInv

LEMMA DeletedPurchaseKeepsInv ==
  ASSUME PubInv, NEW g \in Purchases, Pub!delete_group_purchase(g)
  PROVE  PubInv'
<1>1. settings \in Pub!SolutionSettings /\ purchase \in [Purchases -> Pub!Purchase]
  BY DEF PubInv, TypesInv
<1>2. purchase' \in [Purchases -> Pub!Purchase]
  BY <1>1 DEF Pub!delete_group_purchase, Pub!Purchase
<1>3. /\ Pub!Writes /\ UNCHANGED <<settings, bought, menu, app_data, user_data>>
      /\ lost' = lost \cup {"deleted"}
  BY DEF Pub!delete_group_purchase, Pub!Loses
<1> QED
  BY <1>1, <1>2, <1>3, ChangeKeepsInv

(* A request begins with the settings it has read.                         *)
LEMMA AskKeepsInv ==
  ASSUME PubInv, NEW q \in Requests, NEW op \in {"save", "modules"}, NEW s \in Pub!SolutionSettings,
         s.modules = settings.modules, s.provisioned_modules = settings.provisioned_modules,
         Pub!Asks(q, [op |-> op, settings |-> s, outdated |-> FALSE]),
         UNCHANGED <<settings, purchase, bought, menu, app_data, user_data, lost>>
  PROVE  PubInv'
<1> DEFINE r == [op |-> op, settings |-> s, outdated |-> FALSE]
<1>1. /\ r.op \in {"save", "modules"} /\ RequestTyped(r) /\ ForOf(r) = Pub!NoOne
      /\ r.settings = s
  BY DEF RequestTyped, ForOf
<1>2. request[q] = Pub!Idle /\ request' = [request EXCEPT ![q] = r]
  BY DEF Pub!Asks
<1> HIDE DEF r
<1>3. /\ DOMAIN request' = Requests /\ request'[q] = r
      /\ \A p \in Requests \ {q} :
           /\ RequestTyped(request'[p]) /\ RequestFits(p)' /\ Carries(p)
           /\ request'[p].op = request[p].op /\ MenuSame(p)
  BY <1>2, OneReads
<1>4. request[q].op = "idle" /\ ForOf(request[q]) = Pub!NoOne
  BY <1>2 DEF Pub!Idle, ForOf
<1>5. RequestFits(q)' /\ Carries(q)
  BY <1>1, <1>3, <1>4 DEF RequestFits, Carries
<1>6. TypesInv'
  BY <1>1, <1>3 DEF PubInv, TypesInv
<1>7. \A p \in Requests : RequestFits(p)' /\ Carries(p)
  BY <1>3, <1>5
<1>8. UnitsInv'
  BY <1>7, UnitsStay DEF PubInv
<1>9. StoredInv'
  <2>1. Pub!AppData(settings)' = Pub!AppData(settings)
    BY SameAppData
  <2>2. \A p \in Requests : request[p].op \in {"menu", "compose", "put"}
                              => request'[p].op \in {"menu", "compose", "put"}
    BY <1>3, <1>4
  <2> QED
    BY <2>1, <2>2, StoredStays DEF PubInv
<1>10. MenuInv' /\ MissedInv'
  <2>1. \A p \in Requests : MenuSame(p)
    BY <1>1, <1>3, <1>4 DEF MenuSame
  <2> QED
    BY <2>1, MenuStays DEF PubInv, MissedInv
<1> QED
  BY <1>6, <1>7, <1>8, <1>9, <1>10 DEF PubInv, Pub!PublishingAssumption

LEMMA AskedKeepsInv ==
  ASSUME PubInv, NEW q \in Requests,
         \/ \E n \in Names : Pub!ask_save_settings(q, n)
         \/ \E m \in Modules : Pub!enable_or_disable_solution_module(q, m)
         \/ Pub!ask_publish(q)
  PROVE  PubInv'
<1>1. settings \in Pub!SolutionSettings
  BY DEF PubInv, TypesInv
<1>2. CASE Pub!ask_publish(q)
  <2>1. /\ Pub!Asks(q, [op |-> "modules", settings |-> settings, outdated |-> FALSE])
        /\ UNCHANGED <<settings, purchase, bought, menu, app_data, user_data, lost>>
    BY <1>2 DEF Pub!ask_publish
  <2> QED
    BY <1>1, <2>1, AskKeepsInv
<1>3. ASSUME NEW s \in Pub!SolutionSettings, s.modules = settings.modules,
             s.provisioned_modules = settings.provisioned_modules, Pub!AsksSave(q, s)
      PROVE  PubInv'
  <2>1. /\ Pub!Asks(q, [op |-> "save", settings |-> s, outdated |-> FALSE])
        /\ UNCHANGED <<settings, purchase, bought, menu, app_data, user_data, lost>>
    BY <1>3 DEF Pub!AsksSave
  <2> QED
    BY <1>3, <2>1, AskKeepsInv
<1>4. ASSUME NEW n \in Names, Pub!ask_save_settings(q, n)
      PROVE  PubInv'
  <2> DEFINE s == [settings EXCEPT !.name = n]
  <2>1. s \in Pub!SolutionSettings /\ s.modules = settings.modules
        /\ s.provisioned_modules = settings.provisioned_modules
    BY <1>1 DEF Pub!SolutionSettings
  <2>2. Pub!AsksSave(q, s)
    BY <1>4 DEF Pub!ask_save_settings
  <2> HIDE DEF s
  <2> QED
    BY <1>3, <2>1, <2>2
<1>5. ASSUME NEW m \in Modules, Pub!AsksSave(q, Pub!WithModule(settings, m))
      PROVE  PubInv'
  <2> DEFINE s == Pub!WithModule(settings, m)
  <2>1. s \in Pub!SolutionSettings /\ s.modules = settings.modules
        /\ s.provisioned_modules = settings.provisioned_modules
    BY <1>1 DEF Pub!SolutionSettings, Pub!WithModule
  <2> HIDE DEF s
  <2>2. Pub!AsksSave(q, s)
    BY <1>5 DEF s
  <2> QED
    BY <1>3, <2>1, <2>2
<1>6. ASSUME NEW m \in Modules, Pub!AsksSave(q, Pub!WithoutModule(settings, m))
      PROVE  PubInv'
  <2> DEFINE s == Pub!WithoutModule(settings, m)
  <2>1. s \in Pub!SolutionSettings /\ s.modules = settings.modules
        /\ s.provisioned_modules = settings.provisioned_modules
    BY <1>1 DEF Pub!SolutionSettings, Pub!WithoutModule
  <2> HIDE DEF s
  <2>2. Pub!AsksSave(q, s)
    BY <1>6 DEF s
  <2> QED
    BY <1>3, <2>1, <2>2
<1> QED
  BY <1>2, <1>4, <1>5, <1>6 DEF Pub!enable_or_disable_solution_module

LEMMA IdleIs == Pub!Idle.op = "idle" /\ RequestTyped(Pub!Idle) /\ ForOf(Pub!Idle) = Pub!NoOne
  BY DEF Pub!Idle, RequestTyped, ForOf

(* What was read before another write is put all the same, and noted.      *)
LEMMA SaveKeepsInv ==
  ASSUME PubInv, NEW q \in Requests, Pub!save_settings(q)
  PROVE  PubInv'
<1>1. /\ request[q].op = "save" /\ settings' = Pub!Saved(request[q].settings)
      /\ Pub!WritesAs(q, Pub!Idle)
      /\ UNCHANGED <<purchase, bought, menu, app_data, user_data>>
      /\ lost' = lost \cup (IF request[q].outdated THEN {"overwritten"} ELSE {})
  BY DEF Pub!save_settings, Pub!Loses
<1>2. /\ request[q].settings \in Pub!SolutionSettings /\ request[q].outdated \in BOOLEAN
      /\ ForOf(request[q]) = Pub!NoOne
  <2>1. RequestTyped(request[q])
    BY DEF PubInv, TypesInv
  <2> QED
    BY <1>1, <2>1, KindOf
<1>3. /\ settings' \in Pub!SolutionSettings /\ settings'.updates_pending
      /\ settings'.modules = request[q].settings.modules
      /\ settings'.provisioned_modules = request[q].settings.provisioned_modules
  BY <1>1, <1>2 DEF Pub!Saved, Pub!SolutionSettings
<1>4. /\ DOMAIN request' = Requests /\ request'[q] = Pub!Idle
      /\ \A p \in Requests \ {q} :
           /\ RequestTyped(request'[p]) /\ RequestFits(p)' /\ Carries(p)
           /\ request'[p].op = request[p].op /\ MenuSame(p)
  BY <1>1, WritesAsKeeps
<1>5. RequestFits(q)' /\ Carries(q) /\ RequestTyped(request'[q])
  BY <1>2, <1>4, IdleIs DEF RequestFits, Carries
<1>6. TypesInv'
  BY <1>1, <1>3, <1>4, <1>5 DEF PubInv, TypesInv, OfTheMenu
<1>7. \A p \in Requests : RequestFits(p)' /\ Carries(p)
  BY <1>4, <1>5
<1>8. UnitsInv'
  BY <1>1, <1>7, UnitsStay DEF PubInv
<1>9. StoredInv' /\ MissedInv'
  BY <1>3 DEF StoredInv, MissedInv
<1>10. MenuInv'
  <2>1. CASE request[q].outdated
    BY <1>1, <2>1 DEF MenuInv
  <2>2. CASE ~request[q].outdated
    <3>1. /\ settings'.modules = settings.modules
          /\ settings'.provisioned_modules = settings.provisioned_modules
      BY <1>1, <1>3, <2>2 DEF PubInv, RequestFits
    <3>2. \A p \in Requests : MenuSame(p)
      BY <1>1, <1>4, IdleIs DEF MenuSame
    <3> QED
      BY <1>1, <3>1, <3>2, MenuStays DEF PubInv
  <2> QED
    BY <1>2, <2>1, <2>2
<1> QED
  BY <1>6, <1>7, <1>8, <1>9, <1>10 DEF PubInv, Pub!PublishingAssumption

LEMMA ReadMenuKeepsInv ==
  ASSUME PubInv, NEW q \in Requests, Pub!get_menu(q)
  PROVE  PubInv'
<1> DEFINE o == request[q].settings
           s == Pub!WithModules(o)
           i == menu \cap ((o.provisioned_modules \ s.modules) \cup (o.provisioned_modules \cap NoPreferredPage))
           late == \E p \in Requests : request[p].op = "menu" /\ ~(request[p].items \subseteq s.modules)
           r == [op |-> "delete", settings |-> s, items |-> i, outdated |-> request[q].outdated]
<1>1. /\ request[q].op = "modules" /\ request' = [request EXCEPT ![q] = r]
      /\ UNCHANGED <<settings, purchase, bought, menu, app_data, user_data>>
      /\ lost' = lost \cup (IF late THEN {"overlapped"} ELSE {})
  BY DEF Pub!get_menu, Pub!Loses
<1>2. /\ o \in Pub!SolutionSettings /\ request[q].outdated \in BOOLEAN
      /\ ForOf(request[q]) = Pub!NoOne /\ menu \subseteq Modules
  <2>1. RequestTyped(request[q]) /\ menu \subseteq Modules
    BY DEF PubInv, TypesInv
  <2> QED
    BY <1>1, <2>1, KindOf
<1>3. /\ s \in Pub!SolutionSettings /\ NothingToPut(s) /\ s.provisioned_modules = s.modules
  BY <1>2 DEF Pub!WithModules, Pub!SolutionSettings, NothingToPut
<1>4. i \subseteq Modules /\ menu \cap (o.provisioned_modules \ s.modules) \subseteq i
  BY <1>2
<1> HIDE DEF s, i, late
<1>5. /\ r.op = "delete" /\ r.settings = s /\ r.items = i /\ r.outdated = request[q].outdated
      /\ RequestTyped(r) /\ ForOf(r) = Pub!NoOne
  BY <1>2, <1>3, <1>4 DEF RequestTyped, ForOf
<1> HIDE DEF r
<1>6. /\ DOMAIN request' = Requests /\ request'[q] = r
      /\ \A p \in Requests \ {q} :
           /\ RequestTyped(request'[p]) /\ RequestFits(p)' /\ Carries(p)
           /\ request'[p].op = request[p].op /\ MenuSame(p)
  BY <1>1, OneReads
<1>7. RequestFits(q)' /\ Carries(q) /\ RequestTyped(request'[q])
  BY <1>2, <1>3, <1>5, <1>6 DEF RequestFits, Carries, NothingToPut
<1>8. TypesInv'
  BY <1>1, <1>6, <1>7 DEF PubInv, TypesInv, OfTheMenu
<1>9. \A p \in Requests : RequestFits(p)' /\ Carries(p)
  BY <1>6, <1>7
<1>10. UnitsInv'
  BY <1>1, <1>9, UnitsStay DEF PubInv
<1>11. StoredInv' /\ MissedInv'
  <2>1. Pub!AppData(settings)' = Pub!AppData(settings)
    BY <1>1, SameAppData
  <2>2. \A p \in Requests : request[p].op \in {"menu", "compose", "put"}
                              => request'[p].op \in {"menu", "compose", "put"}
    BY <1>1, <1>6
  <2> QED
    BY <1>1, <2>1, <2>2, StoredStays DEF PubInv, MissedInv
<1>12. MenuInv'
  <2> SUFFICES ASSUME lost' \cap {"overwritten", "overlapped"} = {}
               PROVE  /\ menu \subseteq settings.modules
                      /\ settings.provisioned_modules = settings.modules
                      /\ \A p \in Requests : MenuFits(p)'
                      /\ "unfinished" \notin lost'
                           => \A m \in settings.modules \ menu : \E p \in Requests : HasInHand(p, m)'
    BY <1>1 DEF MenuInv
  <2>1. /\ menu \subseteq settings.modules
        /\ settings.provisioned_modules = settings.modules
        /\ \A p \in Requests : MenuFits(p)
        /\ "unfinished" \notin lost'
             => \A m \in settings.modules \ menu : \E p \in Requests : HasInHand(p, m)
    BY <1>1 DEF PubInv, MenuInv
  <2>2. ~late
    BY <1>1
  <2>3. \A p \in Requests \ {q} : request'[p] = request[p]
    BY <1>1
  <2>4. ASSUME NEW p \in Requests PROVE MenuFits(p)'
    <3>1. CASE p # q
      <4>1. MenuFits(p) /\ request'[p] = request[p]
        BY <2>1, <2>3, <3>1
      <4>2. \A x \in Requests : request'[x].op = "menu" => request'[x] = request[x]
        BY <1>5, <1>6, <2>3
      <4> QED
        BY <1>1, <4>1, <4>2 DEF MenuFits
    <3>2. CASE p = q
      <4>1. ~request[q].outdated => o.provisioned_modules = settings.modules
        BY <1>1, <2>1 DEF PubInv, RequestFits
      <4>2. ~request[q].outdated => menu \ s.modules \subseteq i
        BY <1>4, <2>1, <4>1
      <4>3. \A x \in Requests : request'[x].op = "menu" => request'[x].items \subseteq s.modules
        BY <1>5, <1>6, <2>2, <2>3 DEF late
      <4> QED
        BY <1>1, <1>5, <1>6, <3>2, <4>2, <4>3 DEF MenuFits
    <3> QED
      BY <3>1, <3>2
  <2>5. \A p \in Requests : \A m : HasInHand(p, m) => HasInHand(p, m)'
    BY <1>1, <2>3 DEF HasInHand
  <2> QED
    BY <2>1, <2>4, <2>5
<1> QED
  BY <1>8, <1>9, <1>10, <1>11, <1>12 DEF PubInv, Pub!PublishingAssumption

(* An item is deleted: who deletes it is known to.                         *)
LEMMA DeleteItemKeepsInv ==
  ASSUME PubInv, NEW q \in Requests, NEW m \in Modules, Pub!delete_menu_item(q, m)
  PROVE  PubInv'
<1> DEFINE r == [request[q] EXCEPT !.items = @ \ {m}]
<1>1. /\ request[q].op = "delete" /\ m \in request[q].items
      /\ request' = [request EXCEPT ![q] = r] /\ menu' = menu \ {m}
      /\ UNCHANGED <<settings, purchase, bought, app_data, user_data, lost>>
  <2>1. request' = [request EXCEPT ![q].items = @ \ {m}] /\ DOMAIN request = Requests
    BY DEF Pub!delete_menu_item, PubInv, TypesInv
  <2> QED
    BY <2>1 DEF Pub!delete_menu_item
<1>2. /\ RequestTyped(r) /\ r.op = "delete" /\ r.settings = request[q].settings
      /\ r.items = request[q].items \ {m} /\ r.outdated = request[q].outdated
      /\ ForOf(r) = Pub!NoOne /\ ForOf(request[q]) = Pub!NoOne
  <2>1. RequestTyped(request[q])
    BY DEF PubInv, TypesInv
  <2>2. request[q] \in [op: {"delete"}, settings: Pub!SolutionSettings, items: SUBSET Modules, outdated: BOOLEAN]
    BY <1>1, <2>1, IdleIs DEF RequestTyped
  <2> QED
    BY <2>2 DEF RequestTyped, ForOf
<1> HIDE DEF r
<1>3. /\ DOMAIN request' = Requests /\ request'[q] = r
      /\ \A p \in Requests \ {q} :
           /\ RequestTyped(request'[p]) /\ RequestFits(p)' /\ Carries(p)
           /\ request'[p].op = request[p].op /\ MenuSame(p)
  BY <1>1, OneReads
<1>4. RequestFits(q)' /\ Carries(q) /\ RequestTyped(request'[q])
  <2>1. RequestFits(q)
    BY DEF PubInv
  <2> QED
    BY <1>1, <1>2, <1>3, <2>1 DEF RequestFits, Carries, NothingToPut
<1>5. TypesInv'
  BY <1>1, <1>3, <1>4 DEF PubInv, TypesInv
<1>6. \A p \in Requests : RequestFits(p)' /\ Carries(p)
  BY <1>3, <1>4
<1>7. UnitsInv'
  BY <1>1, <1>6, UnitsStay DEF PubInv
<1>8. StoredInv' /\ MissedInv'
  <2>1. Pub!AppData(settings)' = Pub!AppData(settings)
    BY <1>1, SameAppData
  <2>2. \A p \in Requests : request[p].op \in {"menu", "compose", "put"}
                              => request'[p].op \in {"menu", "compose", "put"}
    BY <1>1, <1>3
  <2> QED
    BY <1>1, <2>1, <2>2, StoredStays DEF PubInv, MissedInv
<1>9. MenuInv'
  <2> SUFFICES ASSUME lost \cap {"overwritten", "overlapped"} = {}
               PROVE  /\ menu' \subseteq settings.modules
                      /\ settings.provisioned_modules = settings.modules
                      /\ \A p \in Requests : MenuFits(p)'
                      /\ \A n \in settings.modules \ menu' : \E p \in Requests : HasInHand(p, n)'
    BY <1>1 DEF MenuInv
  <2>1. /\ menu \subseteq settings.modules
        /\ settings.provisioned_modules = settings.modules
        /\ \A p \in Requests : MenuFits(p)
    BY <1>1 DEF PubInv, MenuInv
  <2>2. \A p \in Requests \ {q} : request'[p] = request[p]
    BY <1>1
  <2>3. ASSUME NEW p \in Requests PROVE MenuFits(p)'
    <3>1. \A x \in Requests : request'[x].op = "menu" => request[x] = request'[x]
      BY <1>2, <1>3, <2>2
    <3>2. /\ MenuFits(p) /\ request'[p].op = request[p].op
          /\ request[p].op = "delete" => request'[p].settings = request[p].settings
                                         /\ request'[p].outdated = request[p].outdated
                                         /\ request[p].items \ {m} \subseteq request'[p].items
      BY <1>1, <1>2, <1>3, <2>1, <2>2
    <3>3. request'[p].op = "menu" => request'[p].items \subseteq settings'.modules
      BY <1>1, <3>1, <3>2 DEF MenuFits
    <3>4. ASSUME request'[p].op = "delete", ~request'[p].outdated
          PROVE  /\ menu' \ request'[p].settings.modules \subseteq request'[p].items
                 /\ \A x \in Requests : request'[x].op = "menu"
                                          => request'[x].items \subseteq request'[p].settings.modules
      <4>1. /\ menu \ request[p].settings.modules \subseteq request[p].items
            /\ \A x \in Requests : request[x].op = "menu"
                                     => request[x].items \subseteq request[p].settings.modules
        BY <3>2, <3>4 DEF MenuFits
      <4> QED
        BY <1>1, <3>1, <3>2, <3>4, <4>1
    <3> QED
      BY <3>3, <3>4 DEF MenuFits
  <2>4. \A n : HasInHand(q, n)'
    BY <1>2, <1>3 DEF HasInHand
  <2> QED
    BY <1>1, <2>1, <2>3, <2>4
<1> QED
  BY <1>5, <1>6, <1>7, <1>8, <1>9 DEF PubInv, Pub!PublishingAssumption

(* What is next when items are still to be put, or none are.               *)
LEMMA PutsAre ==
  ASSUME NEW s \in Pub!SolutionSettings, NEW i \in SUBSET Modules
  PROVE  /\ RequestTyped(Pub!Puts(s, i)) /\ ForOf(Pub!Puts(s, i)) = Pub!NoOne
         /\ Pub!Puts(s, i).op \in {"menu", "compose"} /\ Pub!Puts(s, i).settings = s
         /\ Pub!Puts(s, i).op = "menu" => Pub!Puts(s, i).items = i
         /\ i # {} => Pub!Puts(s, i).op = "menu"
<1>1. CASE i = {}
  BY <1>1 DEF Pub!Puts, RequestTyped, ForOf
<1>2. CASE i # {}
  BY <1>2 DEF Pub!Puts, RequestTyped, ForOf
<1> QED
  BY <1>1, <1>2

(* The transaction ends: all items are to be put, those of others are too. *)
LEMMA ProvisionKeepsInv ==
  ASSUME PubInv, NEW q \in Requests, Pub!provision_all_modules(q)
  PROVE  PubInv'
<1> DEFINE s == request[q].settings
           r == Pub!Puts(s, s.modules)
<1>1. /\ request[q].op = "delete" /\ request[q].items = {} /\ settings' = s
      /\ Pub!WritesAs(q, r)
      /\ UNCHANGED <<purchase, bought, menu, app_data, user_data>>
      /\ lost' = IF request[q].outdated THEN lost \cup {"overwritten"} ELSE lost \ {"unfinished"}
  BY DEF Pub!provision_all_modules
<1>2. /\ s \in Pub!SolutionSettings /\ request[q].outdated \in BOOLEAN
      /\ ForOf(request[q]) = Pub!NoOne
  <2>1. RequestTyped(request[q])
    BY DEF PubInv, TypesInv
  <2> QED
    BY <1>1, <2>1, KindOf
<1>3. NothingToPut(s) /\ s.provisioned_modules = s.modules /\ s.modules \subseteq Modules
  BY <1>1, <1>2 DEF PubInv, RequestFits, Pub!SolutionSettings
<1> HIDE DEF s
<1>4. /\ RequestTyped(r) /\ ForOf(r) = Pub!NoOne /\ r.op \in {"menu", "compose"}
      /\ r.settings = s
      /\ r.op = "menu" => r.items = s.modules
      /\ s.modules # {} => r.op = "menu"
  BY <1>2, <1>3, PutsAre
<1> HIDE DEF r
<1>5. /\ DOMAIN request' = Requests /\ request'[q] = r
      /\ \A p \in Requests \ {q} :
           /\ RequestTyped(request'[p]) /\ RequestFits(p)' /\ Carries(p)
           /\ request'[p].op = request[p].op /\ MenuSame(p)
  BY <1>1, WritesAsKeeps
<1>6. RequestFits(q)' /\ Carries(q) /\ RequestTyped(request'[q])
  BY <1>2, <1>3, <1>4, <1>5 DEF RequestFits, Carries, NothingToPut
<1>7. TypesInv'
  BY <1>1, <1>2, <1>5, <1>6 DEF PubInv, TypesInv, OfTheMenu
<1>8. \A p \in Requests : RequestFits(p)' /\ Carries(p)
  BY <1>5, <1>6
<1>9. UnitsInv'
  <2>1. lost \cap Users \subseteq lost'
    BY <1>1 DEF PubInv, Pub!PublishingAssumption, Pub!Reasons
  <2> QED
    BY <1>1, <1>8, <2>1, UnitsStay DEF PubInv
<1>10. StoredInv' /\ MissedInv'
  BY <1>1, <1>3, <1>4, <1>5 DEF StoredInv, MissedInv
<1>11. MenuInv'
  <2> SUFFICES ASSUME lost' \cap {"overwritten", "overlapped"} = {}
               PROVE  /\ menu \subseteq s.modules
                      /\ \A p \in Requests : MenuFits(p)'
                      /\ \A m \in s.modules : HasInHand(q, m)'
    BY <1>1, <1>3 DEF MenuInv
  <2>1. ~request[q].outdated /\ lost \cap {"overwritten", "overlapped"} = {}
    BY <1>1
  <2>2. MenuFits(q)
    BY <2>1 DEF PubInv, MenuInv
  <2>3. /\ menu \subseteq s.modules
        /\ \A p \in Requests : request[p].op = "menu" => request[p].items \subseteq s.modules
    BY <1>1, <2>1, <2>2 DEF MenuFits, s
  <2>4. \A p \in Requests : request'[p].op = "menu" => request'[p].items \subseteq s.modules
    <3> SUFFICES ASSUME NEW p \in Requests, request'[p].op = "menu"
                 PROVE  request'[p].items \subseteq s.modules
      OBVIOUS
    <3>1. CASE p = q
      BY <1>4, <1>5, <3>1
    <3>2. CASE p # q
      <4>1. MenuSame(p) /\ request'[p].op = request[p].op
        BY <1>5, <3>2
      <4>2. request'[p].items = request[p].items /\ request[p].op = "menu"
        BY <4>1 DEF MenuSame
      <4> QED
        BY <2>3, <4>2
    <3> QED
      BY <3>1, <3>2
  <2>5. \A p \in Requests : request'[p].op = "delete" => request'[p].outdated
    <3> SUFFICES ASSUME NEW p \in Requests, request'[p].op = "delete"
                 PROVE  request'[p].outdated
      OBVIOUS
    <3>1. p # q
      BY <1>4, <1>5
    <3>2. request'[p] = Aged(request[p]) /\ RequestTyped(request[p])
      BY <1>1, <3>1, WriteAges DEF PubInv, TypesInv
    <3> QED
      BY <3>2, AgedKind
  <2>6. \A p \in Requests : MenuFits(p)'
    BY <1>1, <2>4, <2>5 DEF MenuFits
  <2>7. \A m \in s.modules : HasInHand(q, m)'
    BY <1>4, <1>5 DEF HasInHand
  <2> QED
    BY <2>3, <2>6, <2>7
<1> QED
  BY <1>7, <1>8, <1>9, <1>10, <1>11 DEF PubInv, Pub!PublishingAssumption

(* An item is put: the settings have its module, and it was missing or not. *)
LEMMA PutItemKeepsInv ==
  ASSUME PubInv, NEW q \in Requests, NEW m \in Modules, Pub!put_menu_item(q, m)
  PROVE  PubInv'
<1> DEFINE s == request[q].settings
           i == request[q].items \ {m}
           r == Pub!Puts(s, i)
<1>1. /\ request[q].op = "menu" /\ m \in request[q].items
      /\ request' = [request EXCEPT ![q] = r] /\ menu' = menu \cup {m}
      /\ UNCHANGED <<settings, purchase, bought, app_data, user_data, lost>>
  BY DEF Pub!put_menu_item
<1>2. /\ s \in Pub!SolutionSettings /\ i \in SUBSET Modules /\ ForOf(request[q]) = Pub!NoOne
      /\ NothingToPut(s) /\ s.provisioned_modules = s.modules
  <2>1. RequestTyped(request[q]) /\ RequestFits(q)
    BY DEF PubInv, TypesInv
  <2>2. s \in Pub!SolutionSettings /\ request[q].items \subseteq Modules /\ ForOf(request[q]) = Pub!NoOne
    BY <1>1, <2>1, KindOf
  <2> QED
    BY <1>1, <2>1, <2>2 DEF RequestFits
<1>i. request[q].items = i \cup {m}
  BY <1>1
<1> HIDE DEF s, i
<1>3. /\ RequestTyped(r) /\ ForOf(r) = Pub!NoOne /\ r.op \in {"menu", "compose"}
      /\ r.settings = s
      /\ r.op = "menu" => r.items = i
      /\ i # {} => r.op = "menu"
  BY <1>2, PutsAre
<1> HIDE DEF r
<1>4. /\ DOMAIN request' = Requests /\ request'[q] = r
      /\ \A p \in Requests \ {q} :
           /\ RequestTyped(request'[p]) /\ RequestFits(p)' /\ Carries(p)
           /\ request'[p].op = request[p].op /\ MenuSame(p)
  BY <1>1, OneReads
<1>5. RequestFits(q)' /\ Carries(q) /\ RequestTyped(request'[q])
  BY <1>2, <1>3, <1>4 DEF RequestFits, Carries, NothingToPut
<1>6. TypesInv'
  BY <1>1, <1>4, <1>5 DEF PubInv, TypesInv
<1>7. \A p \in Requests : RequestFits(p)' /\ Carries(p)
  BY <1>4, <1>5
<1>8. UnitsInv'
  BY <1>1, <1>7, UnitsStay DEF PubInv
<1>9. StoredInv' /\ MissedInv'
  <2>1. Pub!AppData(settings)' = Pub!AppData(settings)
    BY <1>1, SameAppData
  <2>2. \A p \in Requests : request[p].op \in {"menu", "compose", "put"}
                              => request'[p].op \in {"menu", "compose", "put"}
    BY <1>3, <1>4
  <2> QED
    BY <1>1, <2>1, <2>2, StoredStays DEF PubInv, MissedInv
<1>10. MenuInv'
  <2> SUFFICES ASSUME lost \cap {"overwritten", "overlapped"} = {}
               PROVE  /\ menu' \subseteq settings.modules
                      /\ settings.provisioned_modules = settings.modules
                      /\ \A p \in Requests : MenuFits(p)'
                      /\ "unfinished" \notin lost
                           => \A n \in settings.modules \ menu' : \E p \in Requests : HasInHand(p, n)'
    BY <1>1 DEF MenuInv
  <2>1. /\ menu \subseteq settings.modules
        /\ settings.provisioned_modules = settings.modules
        /\ \A p \in Requests : MenuFits(p)
        /\ "unfinished" \notin lost
             => \A n \in settings.modules \ menu : \E p \in Requests : HasInHand(p, n)
    BY <1>1 DEF PubInv, MenuInv
  <2>2. \A p \in Requests \ {q} : request'[p] = request[p]
    BY <1>1
  <2>3. m \in settings.modules
    BY <1>1, <2>1 DEF MenuFits
  <2>4. \A x \in Requests : request'[x].op = "menu"
                              => request[x].op = "menu" /\ request'[x].items \subseteq request[x].items
    BY <1>1, <1>3, <1>4, <1>i, <2>2
  <2>5. ASSUME NEW p \in Requests PROVE MenuFits(p)'
    <3>1. MenuFits(p) /\ (request'[p].op = "delete" => request'[p] = request[p])
      BY <1>3, <1>4, <2>1, <2>2
    <3>2. request'[p].op = "menu" => request'[p].items \subseteq settings'.modules
      BY <1>1, <2>4, <3>1 DEF MenuFits
    <3>3. ASSUME request'[p].op = "delete", ~request'[p].outdated
          PROVE  /\ menu' \ request'[p].settings.modules \subseteq request'[p].items
                 /\ \A x \in Requests : request'[x].op = "menu"
                                          => request'[x].items \subseteq request'[p].settings.modules
      <4>1. /\ menu \ request[p].settings.modules \subseteq request[p].items
            /\ \A x \in Requests : request[x].op = "menu"
                                     => request[x].items \subseteq request[p].settings.modules
        BY <3>1, <3>3 DEF MenuFits
      <4>2. m \in request[p].settings.modules
        BY <1>1, <4>1
      <4> QED
        BY <1>1, <2>4, <3>1, <3>3, <4>1, <4>2
    <3> QED
      BY <3>2, <3>3 DEF MenuFits
  <2>6. \A p \in Requests : \A n : n # m /\ HasInHand(p, n) => HasInHand(p, n)'
    <3> SUFFICES ASSUME NEW p \in Requests, NEW n, n # m, HasInHand(p, n)
                 PROVE  HasInHand(p, n)'
      OBVIOUS
    <3>1. CASE p # q
      BY <2>2, <3>1 DEF HasInHand
    <3>2. CASE p = q
      <4>1. n \in i
        BY <1>1, <1>i, <3>2 DEF HasInHand
      <4> QED
        BY <1>3, <1>4, <3>2, <4>1 DEF HasInHand
    <3> QED
      BY <3>1, <3>2
  <2> QED
    BY <1>1, <2>1, <2>3, <2>5, <2>6
<1> QED
  BY <1>6, <1>7, <1>8, <1>9, <1>10 DEF PubInv, Pub!PublishingAssumption

LEMMA ComposeKeepsInv ==
  ASSUME PubInv, NEW q \in Requests, Pub!create_app_data(q)
  PROVE  PubInv'
<1> DEFINE s == request[q].settings
           b == Pub!Content(s) # Pub!Content(settings)
           d == Pub!AppData(s)
           r == [op |-> "put", for |-> request[q].for, app_data |-> d, outdated |-> b]
<1>1. /\ request[q].op = "compose" /\ request' = [request EXCEPT ![q] = r]
      /\ UNCHANGED <<settings, purchase, bought, menu, app_data, user_data, lost>>
  BY DEF Pub!create_app_data
<1>2. /\ s \in Pub!SolutionSettings /\ settings \in Pub!SolutionSettings
      /\ ForOf(request[q]) = request[q].for
      /\ request[q].for \in Buyer \cup {Pub!NoOne}
  <2>1. RequestTyped(request[q]) /\ settings \in Pub!SolutionSettings
    BY DEF PubInv, TypesInv
  <2> QED
    BY <1>1, <2>1, KindOf
<1>3. ~b => /\ s.name = settings.name /\ s.holidays = settings.holidays
            /\ s.modules = settings.modules
            /\ s.modules_to_put = settings.modules_to_put
            /\ s.modules_to_remove = settings.modules_to_remove
  <2>1. \A t \in Pub!SolutionSettings :
          LET c == Pub!Content(t) IN
            /\ c.name = t.name /\ c.holidays = t.holidays /\ c.modules = t.modules
            /\ c.modules_to_put = t.modules_to_put
            /\ c.modules_to_remove = t.modules_to_remove
    BY DEF Pub!Content, Pub!SolutionSettings
  <2> HIDE DEF s
  <2> QED
    BY <1>2, <2>1
<1>4. ~b => d = Pub!AppData(settings)
  BY <1>3 DEF Pub!AppData
<1>5. b \in BOOLEAN
  OBVIOUS
<1> HIDE DEF b, d
<1>6. /\ r.op = "put" /\ r.for = request[q].for /\ ForOf(r) = request[q].for
      /\ r.app_data = d /\ r.outdated = b /\ RequestTyped(r)
  BY <1>2, <1>5 DEF RequestTyped, ForOf
<1> HIDE DEF r
<1>7. /\ DOMAIN request' = Requests /\ request'[q] = r
      /\ \A p \in Requests \ {q} :
           /\ RequestTyped(request'[p]) /\ RequestFits(p)' /\ Carries(p)
           /\ request'[p].op = request[p].op /\ MenuSame(p)
  BY <1>1, OneReads
<1>8. Carries(q) /\ RequestTyped(request'[q])
  BY <1>2, <1>6, <1>7 DEF Carries
<1>9. Pub!AppData(settings)' = Pub!AppData(settings)
  BY <1>1, SameAppData
<1>10. RequestFits(q)'
  <2>1. Pub!For(q) = request[q].for /\ Pub!For(q)' = request[q].for
    BY <1>2, <1>6, <1>7, ForIs
  <2>2. request[q].for = Pub!NoOne => NothingToPut(s)
    BY <1>1, <1>2 DEF PubInv, RequestFits
  <2>3. ~b /\ NothingToPut(s) => NothingToPut(settings)
    BY <1>3 DEF NothingToPut
  <2> QED
    BY <1>1, <1>4, <1>6, <1>7, <1>9, <2>1, <2>2, <2>3 DEF RequestFits
<1>11. TypesInv'
  BY <1>1, <1>7, <1>8 DEF PubInv, TypesInv
<1>12. \A p \in Requests : RequestFits(p)' /\ Carries(p)
  BY <1>7, <1>8, <1>10
<1>13. UnitsInv'
  BY <1>1, <1>12, UnitsStay DEF PubInv
<1>14. StoredInv'
  <2>1. \A p \in Requests : request[p].op \in {"menu", "compose", "put"}
                              => request'[p].op \in {"menu", "compose", "put"}
    BY <1>6, <1>7
  <2> QED
    BY <1>1, <1>9, <2>1, StoredStays DEF PubInv
<1>15. MenuInv' /\ MissedInv'
  <2>1. \A p \in Requests : MenuSame(p)
    BY <1>1, <1>6, <1>7 DEF MenuSame
  <2> QED
    BY <1>1, <2>1, MenuStays DEF PubInv, MissedInv
<1> QED
  BY <1>11, <1>12, <1>13, <1>14, <1>15 DEF PubInv, Pub!PublishingAssumption

(* The app shows what is stored, unless something was written meanwhile.    *)
LEMMA PopulateKeepsInv ==
  ASSUME PubInv, NEW q \in Requests, Pub!populate_identity(q)
  PROVE  PubInv'
<1> DEFINE f == ForOf(request[q])
           r == IF f = Pub!NoOne THEN [op |-> "finish", outdated |-> request[q].outdated]
                ELSE [op |-> "get_user_data", for |-> f]
<1>1. /\ request[q].op = "put" /\ app_data' = request[q].app_data
      /\ Pub!WritesAs(q, r)
      /\ UNCHANGED <<settings, purchase, bought, menu, user_data>>
      /\ lost' = lost \cup (IF request[q].outdated THEN {"overtaken"} ELSE {})
  BY ForIs DEF Pub!populate_identity, Pub!Loses
<1>2. f \in Buyer \cup {Pub!NoOne} /\ request[q].outdated \in BOOLEAN
  <2>1. RequestTyped(request[q])
    BY DEF PubInv, TypesInv
  <2> QED
    BY <1>1, <2>1, KindOf
<1>3. /\ ~request[q].outdated => app_data' = Pub!AppData(settings)
      /\ ~request[q].outdated /\ f = Pub!NoOne => NothingToPut(settings)
  BY <1>1, ForIs DEF PubInv, RequestFits
<1> HIDE DEF f
<1>4. /\ RequestTyped(r) /\ ForOf(r) = f /\ r.op \in {"finish", "get_user_data"}
      /\ r.op = "finish" => f = Pub!NoOne /\ r.outdated = request[q].outdated
  <2>1. CASE f = Pub!NoOne
    BY <1>2, <2>1 DEF RequestTyped, ForOf
  <2>2. CASE f # Pub!NoOne
    BY <1>2, <2>2 DEF RequestTyped, ForOf
  <2> QED
    BY <2>1, <2>2
<1> HIDE DEF r
<1>5. /\ DOMAIN request' = Requests /\ request'[q] = r
      /\ \A p \in Requests \ {q} :
           /\ RequestTyped(request'[p]) /\ RequestFits(p)' /\ Carries(p)
           /\ request'[p].op = request[p].op /\ MenuSame(p)
  BY <1>1, WritesAsKeeps
<1>6. Carries(q) /\ RequestTyped(request'[q])
  BY <1>4, <1>5 DEF Carries, f
<1>7. Pub!AppData(settings)' = Pub!AppData(settings)
  BY <1>1, SameAppData
<1>8. RequestFits(q)'
  BY <1>1, <1>3, <1>4, <1>5, <1>7 DEF RequestFits
<1>9. TypesInv'
  BY <1>1, <1>5, <1>6 DEF PubInv, TypesInv, Bad
<1>10. \A p \in Requests : RequestFits(p)' /\ Carries(p)
  BY <1>5, <1>6, <1>8
<1>11. UnitsInv'
  BY <1>1, <1>10, UnitsStay DEF PubInv
<1>12. StoredInv'
  BY <1>1, <1>2, <1>3, <1>7 DEF StoredInv, Bad
<1>13. MenuInv' /\ MissedInv'
  <2>1. \A p \in Requests : MenuSame(p)
    BY <1>1, <1>4, <1>5 DEF MenuSame
  <2> QED
    BY <1>1, <2>1, MenuStays DEF PubInv, MissedInv
<1> QED
  BY <1>9, <1>10, <1>11, <1>12, <1>13 DEF PubInv, Pub!PublishingAssumption

LEMMA FinishKeepsInv ==
  ASSUME PubInv, NEW q \in Requests, Pub!common_provision(q)
  PROVE  PubInv'
<1>1. /\ request[q].op = "finish" /\ settings' = [settings EXCEPT !.updates_pending = FALSE]
      /\ Pub!WritesAs(q, Pub!Idle)
      /\ lost' = IF request[q].outdated THEN lost \cup {"missed"}
                 ELSE lost \ {"missed", "overtaken", "failed", "deleted"}
      /\ UNCHANGED <<purchase, bought, menu, app_data, user_data>>
  BY DEF Pub!common_provision
<1>2. request[q].outdated \in BOOLEAN /\ ForOf(request[q]) = Pub!NoOne
  <2>1. RequestTyped(request[q])
    BY DEF PubInv, TypesInv
  <2> QED
    BY <1>1, <2>1, KindOf
<1>3. /\ settings' \in Pub!SolutionSettings /\ settings'.name = settings.name
      /\ settings'.holidays = settings.holidays /\ settings'.modules = settings.modules
      /\ settings'.provisioned_modules = settings.provisioned_modules
      /\ settings'.modules_to_put = settings.modules_to_put
      /\ settings'.modules_to_remove = settings.modules_to_remove
  BY <1>1 DEF PubInv, TypesInv, Pub!SolutionSettings
<1>4. Pub!AppData(settings)' = Pub!AppData(settings)
  BY <1>1, <1>3, SameAppData
<1>5. /\ DOMAIN request' = Requests /\ request'[q] = Pub!Idle
      /\ \A p \in Requests \ {q} :
           /\ RequestTyped(request'[p]) /\ RequestFits(p)' /\ Carries(p)
           /\ request'[p].op = request[p].op /\ MenuSame(p)
  BY <1>1, WritesAsKeeps
<1>6. RequestFits(q)' /\ Carries(q) /\ RequestTyped(request'[q])
  BY <1>2, <1>5, IdleIs DEF RequestFits, Carries
<1>7. TypesInv'
  BY <1>1, <1>3, <1>5, <1>6 DEF PubInv, TypesInv, Bad
<1>8. \A p \in Requests : RequestFits(p)' /\ Carries(p)
  BY <1>5, <1>6
<1>9. UnitsInv'
  <2>1. lost \cap Users \subseteq lost'
    BY <1>1 DEF PubInv, Pub!PublishingAssumption, Pub!Reasons
  <2> QED
    BY <1>1, <1>8, <2>1, UnitsStay DEF PubInv
<1>12. MenuInv'
  <2>1. \A p \in Requests : MenuSame(p)
    BY <1>1, <1>5, IdleIs DEF MenuSame
  <2>2. lost \cap OfTheMenu \subseteq lost'
    BY <1>1 DEF OfTheMenu
  <2> QED
    BY <1>1, <1>3, <2>1, <2>2, MenuStays DEF PubInv
<1>10. CASE request[q].outdated
  <2>1. StoredInv' /\ MissedInv'
    BY <1>1, <1>10 DEF StoredInv, MissedInv, Bad
  <2> QED
    BY <1>7, <1>8, <1>9, <1>12, <2>1 DEF PubInv, Pub!PublishingAssumption
<1>11. CASE ~request[q].outdated
  <2>1. app_data = Pub!AppData(settings) /\ NothingToPut(settings)
    BY <1>1, <1>11 DEF PubInv, RequestFits
  <2>2. StoredInv' /\ MissedInv'
    BY <1>1, <1>3, <1>4, <2>1 DEF StoredInv, MissedInv, NothingToPut
  <2> QED
    BY <1>7, <1>8, <1>9, <1>12, <2>2 DEF PubInv, Pub!PublishingAssumption
<1> QED
  BY <1>10, <1>11

(* The units of a user are known to the app as soon as his requests end.   *)
LEMMA BuyKeepsInv ==
  ASSUME PubInv, NEW q \in Requests, NEW v \in Users, NEW g \in Purchases,
         NEW n \in 1 .. purchase[g].units, Pub!new_group_purchase_subscription(q, v, g, n)
  PROVE  PubInv'
<1> DEFINE f == [user |-> v, purchase |-> g, units_user |-> bought'[g][v], outdated |-> FALSE]
           r == [op |-> "compose", settings |-> settings, for |-> f]
<1>1. /\ request[q] = Pub!Idle /\ bought' = [bought EXCEPT ![g][v] = @ + n]
      /\ Pub!WritesAs(q, r)
      /\ UNCHANGED <<settings, purchase, menu, app_data, user_data, lost>>
  BY DEF Pub!new_group_purchase_subscription
<1>2. n \in Nat \ {0}
  <2>1. purchase[g].units \in Nat
    <3>1. purchase[g] \in Pub!Purchase /\ Units \subseteq Nat \ {0}
      BY DEF PubInv, TypesInv, Pub!PublishingAssumption
    <3>2. purchase[g].units \in Units \cup {0}
      BY <3>1 DEF Pub!Purchase
    <3>3. CASE purchase[g].units \in Units
      BY <3>1, <3>3
    <3>4. CASE purchase[g].units = 0
      BY <3>4
    <3> QED
      BY <3>2, <3>3, <3>4
  <2> QED
    BY <2>1
<1>3. /\ bought' \in [Purchases -> [Users -> Nat]]
      /\ bought'[g][v] = bought[g][v] + n /\ bought'[g][v] \in Nat /\ bought[g][v] \in Nat
      /\ \A h \in Purchases, u \in Users : h # g \/ u # v => bought'[h][u] = bought[h][u]
  BY <1>1, <1>2 DEF PubInv, TypesInv
<1>4. /\ f \in Buyer /\ f.user = v /\ f.purchase = g /\ f.units_user = bought'[g][v]
      /\ f # Pub!NoOne
  <2>1. f \in Buyer
    BY <1>3 DEF Buyer
  <2> QED
    BY <2>1, BuyerIsSome
<1> HIDE DEF f
<1>5. r.op = "compose" /\ ForOf(r) = f /\ RequestTyped(r)
  BY <1>4 DEF PubInv, TypesInv, RequestTyped, ForOf
<1> HIDE DEF r
<1>6. /\ DOMAIN request' = Requests /\ request'[q] = r
      /\ \A p \in Requests \ {q} :
           /\ RequestTyped(request'[p]) /\ RequestFits(p)' /\ Carries(p)
           /\ request'[p].op = request[p].op /\ MenuSame(p)
  BY <1>1, WritesAsKeeps
<1>7. RequestFits(q)'
  <2>1. Pub!For(q)' # Pub!NoOne
    BY <1>4, <1>5, <1>6, ForIs
  <2>2. Pub!NoOne' = Pub!NoOne
    BY DEF Pub!NoOne
  <2> QED
    BY <1>4, <1>5, <1>6, <2>1, <2>2 DEF RequestFits
<1>8. TypesInv'
  BY <1>1, <1>3, <1>5, <1>6 DEF PubInv, TypesInv
<1>9. StoredInv'
  BY <1>5, <1>6 DEF StoredInv
<1>10. MenuInv' /\ MissedInv'
  <2>1. \A p \in Requests : MenuSame(p)
    BY <1>1, <1>5, <1>6, IdleIs DEF MenuSame
  <2> QED
    BY <1>1, <2>1, MenuStays DEF PubInv, MissedInv
<1>11. \A u : q \notin BuyersOf(u)
  BY <1>1, IdleIs DEF BuyersOf
<1>12. ForOf(request'[q]) = f /\ \A p \in Requests \ {q} : ForOf(request'[p]) = ForOf(request[p])
  BY <1>5, <1>6 DEF Carries
<1>13. /\ BuyersOf(v)' = BuyersOf(v) \cup {q}
       /\ \A u \in Users : u # v => BuyersOf(u)' = BuyersOf(u)
  BY <1>4, <1>11, <1>12 DEF BuyersOf
<1>14. ASSUME NEW u \in Users, u \notin lost', u # v
       PROVE  Doomed(u)' \/ UnitsFit(u)'
  <2>1. Doomed(u) \/ UnitsFit(u)
    BY <1>1, <1>14 DEF PubInv, UnitsInv
  <2>2. \A p \in BuyersOf(u) : Carries(p)
    BY <1>6, <1>11 DEF BuyersOf
  <2>3. BuyersOf(u)' = BuyersOf(u) /\ \A h \in Purchases : bought'[h][u] = bought[h][u]
    BY <1>3, <1>13, <1>14
  <2> QED
    BY <1>1, <2>1, <2>2, <2>3, UnitsOfStay DEF PubInv
<1>15. ASSUME v \notin lost'
       PROVE  Doomed(v)' \/ UnitsFit(v)'
  <2>1. CASE Doomed(v)
    BY <1>11, <1>12, <1>13, <2>1 DEF Doomed, BuyersOf
  <2>2. CASE UnitsFit(v)
    <3>1. ASSUME NEW h \in Purchases
          PROVE  /\ user_data'[v][h] <= bought'[h][v]
                 /\ \/ user_data'[v][h] = bought'[h][v]
                    \/ \E p \in BuyersOf(v)' : ForOf(request'[p]).purchase = h
                                             /\ ForOf(request'[p]).units_user = bought'[h][v]
      <4>1. CASE h = g
        <5>1. user_data[v][g] <= bought[g][v] /\ user_data[v][g] \in Nat
          BY <2>2 DEF UnitsFit, PubInv, TypesInv
        <5>2. user_data'[v][g] <= bought'[g][v]
          BY <1>1, <1>2, <1>3, <5>1
        <5> QED
          BY <1>4, <1>12, <1>13, <4>1, <5>2
      <4>2. CASE h # g
        <5>1. bought'[h][v] = bought[h][v]
          BY <1>3, <4>2
        <5>2. \A p \in BuyersOf(v) : p \in BuyersOf(v)' /\ ForOf(request'[p]) = ForOf(request[p])
          BY <1>11, <1>12, <1>13 DEF BuyersOf
        <5> QED
          BY <1>1, <2>2, <5>1, <5>2 DEF UnitsFit
      <4> QED
        BY <4>1, <4>2
    <3>2. ASSUME NEW p \in BuyersOf(v)
          PROVE  /\ p \in Requests \ {q} /\ Carries(p) /\ ForOf(request'[p]) = ForOf(request[p])
                 /\ ForOf(request[p]).purchase \in Purchases
                 /\ ForOf(request[p]).units_user \in Nat /\ ForOf(request[p]).user = v
                 /\ user_data[v][ForOf(request[p]).purchase] < ForOf(request[p]).units_user
                 /\ ForOf(request[p]).units_user <= bought[ForOf(request[p]).purchase][v]
      <4>1. p \in Requests \ {q}
        BY <1>11 DEF BuyersOf
      <4>2. /\ ForOf(request[p]).purchase \in Purchases
            /\ ForOf(request[p]).units_user \in Nat /\ ForOf(request[p]).user = v
        BY BuyersAre DEF PubInv
      <4> QED
        BY <1>6, <1>12, <2>2, <4>1, <4>2 DEF UnitsFit
    <3>3. ASSUME NEW p \in BuyersOf(v)
          PROVE  ForOf(request'[p]).purchase = g => ForOf(request'[p]).units_user < bought'[g][v]
      BY <1>2, <1>3, <3>2
    <3>4. ASSUME NEW p \in BuyersOf(v)'
          PROVE  /\ user_data'[v][ForOf(request'[p]).purchase] < ForOf(request'[p]).units_user
                 /\ ForOf(request'[p]).units_user <= bought'[ForOf(request'[p]).purchase][v]
      <4>1. CASE p = q
        <5>1. user_data[v][g] <= bought[g][v] /\ user_data[v][g] \in Nat
          BY <2>2 DEF UnitsFit, PubInv, TypesInv
        <5>2. user_data'[v][g] < bought'[g][v] /\ bought'[g][v] <= bought'[g][v]
          BY <1>1, <1>2, <1>3, <5>1
        <5> QED
          BY <1>4, <1>12, <4>1, <5>2
      <4>2. CASE p # q
        <5>1. PICK h \in Purchases : h = ForOf(request[p]).purchase
          BY <1>13, <3>2, <4>2
        <5>2. /\ user_data[v][h] < ForOf(request[p]).units_user
              /\ ForOf(request[p]).units_user <= bought[h][v]
              /\ ForOf(request[p]).units_user \in Nat
              /\ ForOf(request'[p]) = ForOf(request[p])
          BY <1>13, <3>2, <4>2, <5>1
        <5>3. bought[h][v] <= bought'[h][v] /\ bought[h][v] \in Nat /\ bought'[h][v] \in Nat
          <6>1. CASE h = g
            BY <1>2, <1>3, <6>1
          <6>2. CASE h # g
            <7>1. bought[h][v] \in Nat
              BY DEF PubInv, TypesInv
            <7> QED
              BY <1>3, <6>2, <7>1
          <6> QED
            BY <6>1, <6>2
        <5>4. ForOf(request[p]).units_user <= bought'[h][v]
          BY <5>2, <5>3
        <5> QED
          BY <1>1, <5>1, <5>2, <5>4
      <4> QED
        BY <4>1, <4>2
    <3>5. ASSUME NEW p \in BuyersOf(v)', request'[p].op = "put_user_data"
          PROVE  request'[p].user_data = Pub!WithUnits(user_data[v], ForOf(request[p]))'
      <4>1. p \in BuyersOf(v) /\ p # q
        BY <1>5, <1>6, <1>13, <3>5
      <4>2. Carries(p) /\ ForOf(request[p]).user = v /\ ForOf(request'[p]) = ForOf(request[p])
        BY <3>2, <4>1
      <4>3. request[p].op = "put_user_data"
              => request[p].user_data = Pub!WithUnits(user_data[v], ForOf(request[p]))
        BY <2>2, <4>1 DEF UnitsFit
      <4>4. request'[p].user_data = Pub!WithUnits(user_data[v], ForOf(request[p]))
        BY <3>5, <4>2, <4>3 DEF Carries
      <4>5. Pub!WithUnits(user_data[v], ForOf(request[p]))'
              = Pub!WithUnits(user_data[v], ForOf(request[p]))
        BY <1>1, <4>2 DEF Pub!WithUnits
      <4> QED
        BY <4>4, <4>5
    <3>6. ASSUME NEW p \in BuyersOf(v)', NEW o \in BuyersOf(v)', o # p,
                 ForOf(request'[o]).purchase = ForOf(request'[p]).purchase
          PROVE  ForOf(request'[o]).units_user # ForOf(request'[p]).units_user
      <4>1. CASE p = q
        <5>1. o \in BuyersOf(v)
          BY <1>13, <3>6, <4>1
        <5>2. ForOf(request'[o]).units_user < bought'[g][v] /\ ForOf(request'[o]).units_user \in Nat
          BY <1>4, <1>12, <3>2, <3>3, <3>6, <4>1, <5>1
        <5> QED
          BY <1>3, <1>4, <1>12, <4>1, <5>2
      <4>2. CASE o = q
        <5>1. p \in BuyersOf(v)
          BY <1>13, <3>6, <4>2
        <5>2. ForOf(request'[p]).units_user < bought'[g][v] /\ ForOf(request'[p]).units_user \in Nat
          BY <1>4, <1>12, <3>2, <3>3, <3>6, <4>2, <5>1
        <5> QED
          BY <1>3, <1>4, <1>12, <4>2, <5>2
      <4>3. CASE p # q /\ o # q
        <5>1. p \in BuyersOf(v) /\ o \in BuyersOf(v)
          BY <1>13, <4>3
        <5> QED
          BY <2>2, <3>2, <3>6, <5>1 DEF UnitsFit
      <4> QED
        BY <4>1, <4>2, <4>3
    <3> QED
      BY <3>1, <3>4, <3>5, <3>6 DEF UnitsFit
  <2>3. Doomed(v) \/ UnitsFit(v)
    BY <1>1, <1>15 DEF PubInv, UnitsInv
  <2> QED
    BY <2>1, <2>2, <2>3
<1>16. UnitsInv'
  BY <1>14, <1>15 DEF UnitsInv
<1>17. \A p \in Requests : RequestFits(p)'
  BY <1>6, <1>7
<1> QED
  BY <1>8, <1>9, <1>10, <1>16, <1>17 DEF PubInv, Pub!PublishingAssumption

LEMMA ReadUserDataKeepsInv ==
  ASSUME PubInv, NEW q \in Requests, Pub!get_user_data(q)
  PROVE  PubInv'
<1> DEFINE f == request[q].for
           d == Pub!WithUnits(user_data[f.user], f)
           r == [op |-> "put_user_data", for |-> f, user_data |-> d]
<1>1. /\ request[q].op = "get_user_data" /\ request' = [request EXCEPT ![q] = r]
      /\ UNCHANGED <<settings, purchase, bought, menu, app_data, user_data, lost>>
  BY DEF Pub!get_user_data
<1>2. ForOf(request[q]) = f /\ f \in Buyer
  <2>1. RequestTyped(request[q])
    BY DEF PubInv, TypesInv
  <2> QED
    BY <1>1, <2>1, KindOf
<1> HIDE DEF f
<1>3. d \in [Purchases -> Nat]
  <2>1. user_data[f.user] \in [Purchases -> Nat] /\ f.units_user \in Nat
    BY <1>2 DEF PubInv, TypesInv, Buyer
  <2> QED
    BY <2>1 DEF Pub!WithUnits
<1> HIDE DEF d
<1>4. /\ r.op = "put_user_data" /\ ForOf(r) = f /\ r.user_data = d /\ RequestTyped(r)
  BY <1>2, <1>3 DEF RequestTyped, ForOf
<1> HIDE DEF r
<1>5. /\ DOMAIN request' = Requests /\ request'[q] = r
      /\ \A p \in Requests \ {q} :
           /\ RequestTyped(request'[p]) /\ RequestFits(p)' /\ Carries(p)
           /\ request'[p].op = request[p].op /\ MenuSame(p)
  BY <1>1, OneReads
<1>6. Carries(q) /\ RequestFits(q)' /\ RequestTyped(request'[q])
  BY <1>2, <1>4, <1>5 DEF Carries, RequestFits, d
<1>7. TypesInv'
  BY <1>1, <1>5, <1>6 DEF PubInv, TypesInv
<1>8. \A p \in Requests : RequestFits(p)' /\ Carries(p)
  BY <1>5, <1>6
<1>9. UnitsInv'
  BY <1>1, <1>8, UnitsStay DEF PubInv
<1>10. StoredInv'
  <2>1. \A p \in Requests : request[p].op \in {"menu", "compose", "put"}
                              => request'[p].op \in {"menu", "compose", "put"}
    BY <1>1, <1>5
  <2>2. Pub!AppData(settings)' = Pub!AppData(settings)
    BY <1>1, SameAppData
  <2> QED
    BY <1>1, <2>1, <2>2, StoredStays DEF PubInv
<1>11. MenuInv' /\ MissedInv'
  <2>1. \A p \in Requests : MenuSame(p)
    BY <1>1, <1>4, <1>5 DEF MenuSame
  <2> QED
    BY <1>1, <2>1, MenuStays DEF PubInv, MissedInv
<1> QED
  BY <1>7, <1>8, <1>9, <1>10, <1>11 DEF PubInv, Pub!PublishingAssumption

LEMMA FailureKeepsInv ==
  ASSUME PubInv, NEW q \in Requests, Pub!Fails(q)
  PROVE  PubInv'
<1> DEFINE f == ForOf(request[q])
<1>1. /\ request' = [request EXCEPT ![q] = Pub!Idle]
      /\ lost' = lost \cup Pub!Broken(q) \cup (IF f = Pub!NoOne THEN {} ELSE {f.user})
      /\ UNCHANGED <<settings, purchase, bought, menu, app_data, user_data>>
  BY ForIs DEF Pub!Fails, Pub!Loses
<1>2. f # Pub!NoOne => f.user \in Users
  <2>1. RequestTyped(request[q])
    BY DEF PubInv, TypesInv
  <2>2. f \in Buyer \cup {Pub!NoOne}
    BY <2>1, KindOf
  <2> QED
    BY <2>2 DEF Buyer
<1>3. /\ DOMAIN request' = Requests /\ request'[q] = Pub!Idle
      /\ \A p \in Requests \ {q} :
           /\ RequestTyped(request'[p]) /\ RequestFits(p)' /\ Carries(p)
           /\ request'[p].op = request[p].op /\ MenuSame(p)
  BY <1>1, OneReads
<1> HIDE DEF f
<1>4. RequestFits(q)' /\ RequestTyped(request'[q])
  BY <1>3, IdleIs DEF RequestFits
<1>5. TypesInv'
  BY <1>1, <1>2, <1>3, <1>4 DEF PubInv, TypesInv, Bad, OfTheMenu, Pub!Broken
<1>6. UnitsInv'
  <2> SUFFICES ASSUME NEW u \in Users, u \notin lost' PROVE Doomed(u)' \/ UnitsFit(u)'
    BY DEF UnitsInv
  <2>2. q \notin BuyersOf(u)
    BY <1>1 DEF BuyersOf, f
  <2>3. BuyersOf(u)' = BuyersOf(u)
    BY <1>3, <2>2, IdleIs DEF BuyersOf, Carries
  <2>4. \A p \in BuyersOf(u) : Carries(p)
    BY <1>3, <2>2 DEF BuyersOf
  <2>5. Doomed(u) \/ UnitsFit(u)
    BY <1>1 DEF PubInv, UnitsInv
  <2> QED
    BY <1>1, <2>3, <2>4, <2>5, UnitsOfStay DEF PubInv
<1>7. StoredInv'
  <2>1. CASE request[q].op = "delete"
    <3>1. \A p \in Requests : request[p].op \in {"menu", "compose", "put"}
                              => request'[p].op \in {"menu", "compose", "put"}
      BY <1>3, <2>1
    <3>2. Pub!AppData(settings)' = Pub!AppData(settings)
      BY <1>1, SameAppData
    <3> QED
      BY <1>1, <3>1, <3>2, StoredStays DEF PubInv
  <2>2. CASE request[q].op # "delete"
    <3>1. "failed" \in Pub!Broken(q)
      BY <2>2 DEF Pub!Broken
    <3> QED
      BY <1>1, <3>1 DEF StoredInv, Bad
  <2> QED
    BY <2>1, <2>2
<1>8. MissedInv'
  BY <1>1 DEF PubInv, MissedInv
<1>9. MenuInv'
  <2>1. CASE request[q].op \notin {"delete", "menu"}
    <3>1. \A p \in Requests : MenuSame(p)
      BY <1>3, <2>1, IdleIs DEF MenuSame
    <3> QED
      BY <1>1, <3>1, MenuStays DEF PubInv
  <2>2. CASE request[q].op \in {"delete", "menu"}
    <3> SUFFICES ASSUME lost' \cap {"overwritten", "overlapped"} = {}
                 PROVE  /\ menu \subseteq settings.modules
                        /\ settings.provisioned_modules = settings.modules
                        /\ \A p \in Requests : MenuFits(p)'
                        /\ "unfinished" \in lost'
      BY <1>1 DEF MenuInv
    <3>1. /\ menu \subseteq settings.modules
          /\ settings.provisioned_modules = settings.modules
          /\ \A p \in Requests : MenuFits(p)
      BY <1>1 DEF PubInv, MenuInv
    <3>2. "unfinished" \in lost'
      BY <1>1, <2>2 DEF Pub!Broken
    <3>3. \A p \in Requests \ {q} : request'[p] = request[p]
      BY <1>1
    <3>4. \A p \in Requests : MenuFits(p)'
      BY <1>1, <1>3, <3>1, <3>3, IdleIs DEF MenuFits
    <3> QED
      BY <3>1, <3>2, <3>4
  <2> QED
    BY <2>1, <2>2
<1> QED
  BY <1>3, <1>4, <1>5, <1>6, <1>7, <1>8, <1>9 DEF PubInv, Pub!PublishingAssumption

(* The units are put: who has read the data of this user before, or bought *)
(* less of the same, is outdated.                                          *)
LEMMA PutUserDataKeepsInv ==
  ASSUME PubInv, NEW q \in Requests, Pub!put_user_data(q)
  PROVE  PubInv'
<1> DEFINE f == ForOf(request[q])
           d == request[q].user_data
           B == Pub!Buying(q)
<1>0. /\ f \in Buyer /\ f.user \in Users /\ f.purchase \in Purchases /\ f.units_user \in Nat
      /\ f # Pub!NoOne /\ d \in [Purchases -> Nat]
  <2>1. RequestTyped(request[q]) /\ request[q].op = "put_user_data"
    BY DEF PubInv, TypesInv, Pub!put_user_data
  <2>2. f \in Buyer /\ d \in [Purchases -> Nat]
    BY <2>1, KindOf
  <2> QED
    BY <2>2, BuyerIsSome DEF Buyer
<1>user. PICK v \in Users : v = f.user
  BY <1>0
<1>1. /\ request[q].op = "put_user_data" /\ user_data' = [user_data EXCEPT ![v] = d]
      /\ request' = [p \in Requests |->
                       IF p = q THEN Pub!Idle
                       ELSE IF p \in B THEN [request[p] EXCEPT !.for.outdated = TRUE]
                       ELSE request[p]]
      /\ lost' = lost \cup (IF f.outdated THEN {v} ELSE {})
      /\ UNCHANGED <<settings, purchase, bought, menu, app_data>>
  BY <1>user, ForIs DEF Pub!put_user_data, Pub!Loses
<1>2. /\ f \in Buyer /\ f.user = v /\ f.purchase \in Purchases /\ f.units_user \in Nat
      /\ f # Pub!NoOne /\ d \in [Purchases -> Nat]
  BY <1>0, <1>user
<1>3. B = {p \in Requests \ {q} :
             /\ request[p] # Pub!Idle /\ ForOf(request[p]) # Pub!NoOne
             /\ ForOf(request[p]).user = v
             /\ \/ request[p].op = "put_user_data"
                \/ /\ ForOf(request[p]).purchase = f.purchase
                   /\ ForOf(request[p]).units_user < f.units_user}
  BY <1>user, ForIs DEF Pub!Buying, Pub!Busy
<1>4. \A p \in Requests : ForOf(request[p]) # Pub!NoOne => request[p] # Pub!Idle
  BY IdleIs
<1> HIDE DEF f, d, B
<1>5. ASSUME NEW p \in Requests, p # q, p \in B
      PROVE  /\ RequestTyped(request'[p]) /\ request'[p].op = request[p].op
             /\ request'[p].op \in {"compose", "put", "get_user_data", "put_user_data"}
             /\ ForOf(request'[p]) = [ForOf(request[p]) EXCEPT !.outdated = TRUE]
             /\ ForOf(request'[p]) \in Buyer
             /\ request[p].op = "compose" => request'[p].settings = request[p].settings
             /\ request[p].op = "put" => /\ request'[p].outdated = request[p].outdated
                                         /\ request'[p].app_data = request[p].app_data
  <2> DEFINE s == request[p]
             t == [s EXCEPT !.for.outdated = TRUE]
  <2>1. RequestTyped(s) /\ ForOf(s) # Pub!NoOne /\ request'[p] = t
    BY <1>1, <1>3, <1>5 DEF PubInv, TypesInv
  <2>2. /\ s.op \in {"compose", "put", "get_user_data", "put_user_data"}
        /\ ForOf(s) = s.for /\ s.for \in Buyer
    BY <2>1, KindOf
  <2> DEFINE b == [s.for EXCEPT !.outdated = TRUE]
  <2>3. b \in Buyer
    BY <2>2 DEF Buyer
  <2>4. t = [s EXCEPT !.for = b]
    OBVIOUS
  <2> HIDE DEF t, b
  <2>5. CASE s \in [op: {"compose"}, settings: Pub!SolutionSettings, for: Buyer \cup {Pub!NoOne}]
    BY <2>1, <2>2, <2>3, <2>4, <2>5 DEF RequestTyped, ForOf, b
  <2>6. CASE /\ s.op = "put"
             /\ s = [op |-> "put", for |-> s.for, app_data |-> s.app_data,
                     outdated |-> s.outdated]
             /\ s.for \in Buyer \cup {Pub!NoOne} /\ s.outdated \in BOOLEAN
    <3>1. t = [op |-> "put", for |-> b, app_data |-> s.app_data, outdated |-> s.outdated]
      BY <2>4, <2>6
    <3>2. /\ t.op = "put" /\ t.for = b /\ t.app_data = s.app_data /\ t.outdated = s.outdated
          /\ ForOf(t) = b
      BY <3>1 DEF ForOf
    <3>3. RequestTyped(t)
      BY <2>3, <2>6, <3>1, <3>2 DEF RequestTyped
    <3> QED
      BY <2>1, <2>2, <2>3, <2>6, <3>2, <3>3 DEF b
  <2>7. CASE s \in [op: {"get_user_data"}, for: Buyer]
    BY <2>1, <2>2, <2>3, <2>4, <2>7 DEF RequestTyped, ForOf, b
  <2>8. CASE s \in [op: {"put_user_data"}, for: Buyer, user_data: [Purchases -> Nat]]
    BY <2>1, <2>2, <2>3, <2>4, <2>8 DEF RequestTyped, ForOf, b
  <2>9. s # Pub!Idle /\ s \notin [op: {"save", "modules"}, settings: Pub!SolutionSettings, outdated: BOOLEAN]
        /\ s \notin [op: {"finish"}, outdated: BOOLEAN]
        /\ s.op \notin {"delete", "menu"}
    BY <2>2, IdleIs
  <2> HIDE DEF s
  <2> QED
    BY <2>1, <2>5, <2>6, <2>7, <2>8, <2>9 DEF RequestTyped
<1>6. DOMAIN request' = Requests /\ request'[q] = Pub!Idle
      /\ \A p \in Requests \ {q} : p \notin B => request'[p] = request[p]
  BY <1>1
<1>7. Pub!AppData(settings)' = Pub!AppData(settings)
  BY <1>1, SameAppData
<1>8. ASSUME NEW p \in Requests
      PROVE  RequestTyped(request'[p]) /\ RequestFits(p)'
  <2>1. CASE p = q
    BY <1>6, <2>1, IdleIs DEF RequestFits
  <2>2. CASE p # q /\ p \notin B
    BY <1>1, <1>6, <1>7, <2>2 DEF PubInv, TypesInv, RequestFits
  <2>3. CASE p # q /\ p \in B
    <3>1. Pub!For(p)' # Pub!NoOne
      BY <1>5, <2>3, BuyerIsSome, ForIs
    <3>2. Pub!NoOne' = Pub!NoOne
      BY DEF Pub!NoOne
    <3>3. RequestFits(p)
      BY DEF PubInv
    <3>4. ForOf(request'[p]) # Pub!NoOne
      BY <3>1, ForIs
    <3>5. /\ request'[p].op = request[p].op
          /\ request'[p].op \in {"compose", "put", "get_user_data", "put_user_data"}
          /\ request[p].op = "put" => /\ request'[p].outdated = request[p].outdated
                                     /\ request'[p].app_data = request[p].app_data
      BY <1>5, <2>3
    <3>6. request[p].op = "put" /\ ~request[p].outdated
            => request[p].app_data = Pub!AppData(settings)
      BY <3>3 DEF RequestFits
    <3>7. request'[p].op = "put" /\ ~request'[p].outdated
            => request'[p].app_data = Pub!AppData(settings)'
      BY <1>7, <3>5, <3>6
    <3>8. request'[p].op \notin {"save", "modules", "delete", "menu", "finish"}
      BY <3>5
    <3>9. RequestFits(p)'
      BY <3>2, <3>4, <3>7, <3>8 DEF RequestFits
    <3>10. RequestTyped(request'[p])
      BY <1>5, <2>3
    <3> QED
      BY <3>9, <3>10
  <2> QED
    BY <2>1, <2>2, <2>3
<1>9. TypesInv'
  <2>1. user_data' \in [Users -> [Purchases -> Nat]]
    BY <1>1, <1>2 DEF PubInv, TypesInv
  <2> QED
    BY <1>1, <1>2, <1>6, <1>8, <2>1 DEF PubInv, TypesInv
<1>10. StoredInv'
  <2>1. \A p \in Requests : request[p].op \in {"menu", "compose", "put"}
                              => request'[p].op \in {"menu", "compose", "put"}
    BY <1>1, <1>5, <1>6
  <2>2. lost \cap Bad \subseteq lost'
    BY <1>1
  <2> QED
    BY <1>1, <1>7, <2>1, <2>2, StoredStays DEF PubInv
<1>11. MenuInv' /\ MissedInv'
  <2>1. \A p \in Requests : MenuSame(p)
    BY <1>1, <1>5, <1>6, IdleIs DEF MenuSame
  <2> QED
    BY <1>1, <2>1, MenuStays DEF PubInv, MissedInv
<1>12. q \in BuyersOf(v) /\ \A u : q \notin BuyersOf(u)'
  BY <1>2, <1>6, IdleIs DEF BuyersOf, f
<1>13. \A p \in Requests \ {q} :
         /\ ForOf(request[p]) # Pub!NoOne <=> ForOf(request'[p]) # Pub!NoOne
         /\ ForOf(request[p]) # Pub!NoOne =>
              /\ ForOf(request'[p]).user = ForOf(request[p]).user
              /\ ForOf(request[p]).outdated => ForOf(request'[p]).outdated
  <2> SUFFICES ASSUME NEW p \in Requests \ {q}, p \in B
               PROVE  /\ ForOf(request[p]) # Pub!NoOne /\ ForOf(request'[p]) # Pub!NoOne
                      /\ ForOf(request'[p]).user = ForOf(request[p]).user
                      /\ ForOf(request'[p]).outdated
    BY <1>6
  <2>1. ForOf(request[p]) # Pub!NoOne /\ RequestTyped(request[p])
    BY <1>3 DEF PubInv, TypesInv
  <2>2. ForOf(request[p]) \in Buyer
    BY <2>1, KindOf
  <2> QED
    BY <1>5, <2>1, <2>2, BuyerIsSome DEF Buyer
<1>14. /\ BuyersOf(v)' = BuyersOf(v) \ {q}
       /\ \A u \in Users : u # v => BuyersOf(u)' = BuyersOf(u)
  <2>1. ASSUME NEW u \in Users
        PROVE  BuyersOf(u)' = BuyersOf(u) \ {q}
    BY <1>12, <1>13 DEF BuyersOf
  <2>2. ASSUME NEW u \in Users, u # v
        PROVE  q \notin BuyersOf(u)
    BY <1>2, <2>2 DEF BuyersOf, f
  <2> QED
    BY <2>1, <2>2
<1>15. ASSUME NEW u \in Users, u \notin lost', u # v
       PROVE  Doomed(u)' \/ UnitsFit(u)'
  <2>1. Doomed(u) \/ UnitsFit(u)
    BY <1>1, <1>15 DEF PubInv, UnitsInv
  <2>2. \A p \in BuyersOf(u) : Carries(p)
    <3> SUFFICES ASSUME NEW p \in BuyersOf(u) PROVE request'[p] = request[p]
      BY DEF Carries
    <3>1. p \in Requests \ {q} /\ ForOf(request[p]).user = u
      BY <1>12, <1>14, <1>15 DEF BuyersOf
    <3>2. p \notin B
      BY <1>3, <1>15, <3>1
    <3> QED
      BY <1>6, <3>1, <3>2
  <2>3. user_data'[u] = user_data[u] /\ BuyersOf(u)' = BuyersOf(u)
    BY <1>1, <1>14, <1>15 DEF PubInv, TypesInv
  <2> QED
    BY <1>1, <2>1, <2>2, <2>3, UnitsOfStay DEF PubInv
<1>16. ASSUME v \notin lost'
       PROVE  Doomed(v)' \/ UnitsFit(v)'
  <2>1. ~f.outdated /\ v \notin lost
    BY <1>1, <1>16
  <2>2. CASE \E p \in BuyersOf(v) : p # q /\ (p \in B \/ ForOf(request[p]).outdated)
    <3>1. PICK p \in BuyersOf(v) : p # q /\ (p \in B \/ ForOf(request[p]).outdated)
      BY <2>2
    <3>2. p \in Requests /\ ForOf(request[p]) # Pub!NoOne
      BY DEF BuyersOf
    <3>3. ForOf(request'[p]).outdated
      <4>1. CASE p \in B
        <5>1. ForOf(request[p]) \in Buyer
          BY <1>2, BuyersAre DEF PubInv
        <5> QED
          BY <1>5, <3>1, <3>2, <4>1, <5>1 DEF Buyer
      <4>2. CASE ForOf(request[p]).outdated
        BY <1>13, <3>1, <3>2, <4>2
      <4> QED
        BY <3>1, <4>1, <4>2
    <3> QED
      BY <1>14, <3>1, <3>3 DEF Doomed
  <2>3. CASE \A p \in BuyersOf(v) : p # q => p \notin B /\ ~ForOf(request[p]).outdated
    <3>1. UnitsFit(v)
      BY <1>2, <2>1, <2>3 DEF PubInv, UnitsInv, Doomed, f
    <3>2. d = Pub!WithUnits(user_data[v], f)
      BY <1>1, <1>12, <3>1 DEF UnitsFit, f, d
    <3>3. /\ user_data'[v][f.purchase] = f.units_user
          /\ \A g \in Purchases : g # f.purchase => user_data'[v][g] = user_data[v][g]
      BY <1>1, <1>2, <3>2 DEF PubInv, TypesInv, Pub!WithUnits
    <3>4. ASSUME NEW p \in BuyersOf(v)'
          PROVE  /\ p \in BuyersOf(v) /\ p # q /\ request'[p] = request[p]
                 /\ request[p].op # "put_user_data"
                 /\ ForOf(request[p]).purchase \in Purchases
                 /\ ForOf(request[p]).units_user \in Nat
                 /\ ForOf(request[p]).purchase = f.purchase
                      => f.units_user < ForOf(request[p]).units_user
      <4>1. p \in BuyersOf(v) /\ p # q /\ p \in Requests
        BY <1>14, <3>4 DEF BuyersOf
      <4>2. p \notin B /\ request'[p] = request[p]
        BY <1>6, <2>3, <4>1
      <4>3. /\ ForOf(request[p]).purchase \in Purchases
            /\ ForOf(request[p]).units_user \in Nat /\ ForOf(request[p]).user = v
            /\ ForOf(request[p]) # Pub!NoOne
        BY <1>2, <4>1, BuyersAre DEF PubInv, BuyersOf
      <4>4. /\ request[p].op # "put_user_data"
            /\ ForOf(request[p]).purchase = f.purchase
                 => ~(ForOf(request[p]).units_user < f.units_user)
        BY <1>3, <1>4, <4>1, <4>2, <4>3
      <4>5. ForOf(request[p]).purchase = f.purchase => ForOf(request[p]).units_user # f.units_user
        BY <1>12, <3>1, <4>1 DEF UnitsFit, f
      <4> QED
        BY <1>2, <4>1, <4>2, <4>3, <4>4, <4>5
    <3>5. ASSUME NEW g \in Purchases
          PROVE  /\ user_data'[v][g] <= bought'[g][v]
                 /\ \/ user_data'[v][g] = bought'[g][v]
                    \/ \E p \in BuyersOf(v)' : ForOf(request'[p]).purchase = g
                                             /\ ForOf(request'[p]).units_user = bought'[g][v]
      <4>1. CASE g = f.purchase
        <5>1. f.units_user <= bought[g][v]
          BY <1>12, <3>1, <4>1 DEF UnitsFit, f
        <5>2. CASE f.units_user = bought[g][v]
          BY <1>1, <1>2, <3>3, <4>1, <5>2
        <5>3. CASE f.units_user # bought[g][v]
          <6>1. user_data[v][g] < f.units_user /\ user_data[v][g] \in Nat /\ bought[g][v] \in Nat
            BY <1>2, <1>12, <3>1, <4>1 DEF UnitsFit, f, PubInv, TypesInv
          <6>2. user_data[v][g] # bought[g][v]
            BY <1>2, <5>1, <6>1
          <6>3. PICK p \in BuyersOf(v) :
                  ForOf(request[p]).purchase = g /\ ForOf(request[p]).units_user = bought[g][v]
            BY <3>1, <6>2 DEF UnitsFit
          <6>4. p \in BuyersOf(v)'
            BY <1>14, <5>3, <6>3 DEF f
          <6> QED
            BY <1>1, <3>3, <3>4, <4>1, <5>1, <6>3, <6>4
        <5> QED
          BY <5>2, <5>3
      <4>2. CASE g # f.purchase
        <5>1. /\ user_data[v][g] <= bought[g][v]
              /\ \/ user_data[v][g] = bought[g][v]
                 \/ \E p \in BuyersOf(v) : ForOf(request[p]).purchase = g
                                         /\ ForOf(request[p]).units_user = bought[g][v]
          BY <3>1 DEF UnitsFit
        <5>2. \A p \in BuyersOf(v) : ForOf(request[p]).purchase = g => p \in BuyersOf(v)'
          BY <1>14, <4>2 DEF f
        <5> QED
          BY <1>1, <3>3, <3>4, <4>2, <5>1, <5>2
      <4> QED
        BY <4>1, <4>2
    <3>6. ASSUME NEW p \in BuyersOf(v)'
          PROVE  /\ user_data'[v][ForOf(request'[p]).purchase] < ForOf(request'[p]).units_user
                 /\ ForOf(request'[p]).units_user <= bought'[ForOf(request'[p]).purchase][v]
      <4>1. /\ user_data[v][ForOf(request[p]).purchase] < ForOf(request[p]).units_user
            /\ ForOf(request[p]).units_user <= bought[ForOf(request[p]).purchase][v]
        BY <3>1, <3>4 DEF UnitsFit
      <4>2. PICK g \in Purchases : g = ForOf(request[p]).purchase
        BY <3>4
      <4>3. user_data'[v][g] < ForOf(request[p]).units_user
        BY <3>3, <3>4, <4>1, <4>2
      <4>4. ForOf(request'[p]) = ForOf(request[p]) /\ bought' = bought
        BY <1>1, <3>4
      <4> QED
        BY <4>1, <4>2, <4>3, <4>4
    <3>7. ASSUME NEW p \in BuyersOf(v)', NEW o \in BuyersOf(v)', o # p,
                 ForOf(request'[o]).purchase = ForOf(request'[p]).purchase
          PROVE  ForOf(request'[o]).units_user # ForOf(request'[p]).units_user
      BY <3>1, <3>4, <3>7 DEF UnitsFit
    <3>8. ASSUME NEW p \in BuyersOf(v)', request'[p].op = "put_user_data"
          PROVE  request'[p].user_data = Pub!WithUnits(user_data[v], ForOf(request[p]))'
      BY <3>4, <3>8
    <3> QED
      BY <3>5, <3>6, <3>7, <3>8 DEF UnitsFit
  <2> QED
    BY <2>2, <2>3
<1>17. UnitsInv'
  BY <1>15, <1>16 DEF UnitsInv
<1> QED
  BY <1>8, <1>9, <1>10, <1>11, <1>17 DEF PubInv, Pub!PublishingAssumption

LEMMA PubNextInv == PubInv /\ [Pub!Next]_Pub!vars => PubInv'
<1> SUFFICES ASSUME PubInv, [Pub!Next]_Pub!vars PROVE PubInv'
  OBVIOUS
<1>1. CASE UNCHANGED Pub!vars
  <2>1. UNCHANGED <<settings, purchase, bought, menu, app_data, user_data, request, lost>>
    BY <1>1 DEF Pub!vars
  <2>2. Pub!AppData(settings)' = Pub!AppData(settings)
    BY <2>1, SameAppData
  <2>3. TypesInv' /\ \A q \in Requests : RequestFits(q)' /\ Carries(q)
    BY <2>1, <2>2 DEF PubInv, TypesInv, RequestFits, Carries
  <2>4. UnitsInv'
    BY <2>1, <2>3, UnitsStay DEF PubInv
  <2>5. StoredInv' /\ MissedInv'
    BY <2>1, <2>2 DEF PubInv, StoredInv, MissedInv
  <2>6. MenuInv'
    <3>1. \A q \in Requests : MenuSame(q)
      BY <2>1 DEF MenuSame
    <3> QED
      BY <2>1, <3>1, MenuStays DEF PubInv
  <2> QED
    BY <2>3, <2>4, <2>5, <2>6 DEF PubInv, Pub!PublishingAssumption
<1>2. CASE \/ \E h \in Holidays : Pub!add_holiday(h) \/ Pub!delete_holiday(h)
           \/ \E g \in Purchases : Pub!delete_group_purchase(g)
                                   \/ \E n \in Units : Pub!save_group_purchase(g, n)
  BY <1>2, HolidayKeepsInv, SavedPurchaseKeepsInv, DeletedPurchaseKeepsInv
<1>3. ASSUME NEW q \in Requests,
             \/ \E n \in Names : Pub!ask_save_settings(q, n)
             \/ \E m \in Modules : Pub!enable_or_disable_solution_module(q, m)
             \/ Pub!ask_publish(q)
      PROVE  PubInv'
  BY <1>3, AskedKeepsInv
<1>4. ASSUME NEW q \in Requests, NEW u \in Users, NEW g \in Purchases,
             NEW n \in 1 .. purchase[g].units, Pub!new_group_purchase_subscription(q, u, g, n)
      PROVE  PubInv'
  BY <1>4, BuyKeepsInv
<1>5. ASSUME NEW q \in Requests,
             \/ Pub!save_settings(q) \/ Pub!get_user_data(q) \/ Pub!put_user_data(q)
             \/ Pub!get_menu(q) \/ Pub!provision_all_modules(q) \/ Pub!create_app_data(q)
             \/ Pub!populate_identity(q) \/ Pub!common_provision(q) \/ Pub!Fails(q)
      PROVE  PubInv'
  BY <1>5, ReadMenuKeepsInv, SaveKeepsInv, ReadUserDataKeepsInv, PutUserDataKeepsInv, ProvisionKeepsInv,
     ComposeKeepsInv, PopulateKeepsInv, FinishKeepsInv, FailureKeepsInv
<1>6. ASSUME NEW q \in Requests, NEW m \in Modules,
             Pub!delete_menu_item(q, m) \/ Pub!put_menu_item(q, m)
      PROVE  PubInv'
  BY <1>6, DeleteItemKeepsInv, PutItemKeepsInv
<1> QED
  BY <1>1, <1>2, <1>3, <1>4, <1>5, <1>6 DEF Pub!Next

(* Whoever saves and publishes at once, when nothing is pending the app     *)
(* shows what is stored, except for what the requests are known to have     *)
(* missed, overtaken or not finished; and the menu, which is changed item   *)
(* by item before and after the settings are stored, has the modules of the *)
(* service unless a write was overwritten, a publication disabled what      *)
(* another was still to put, or one ended halfway and none came after it.   *)
THEOREM AppShowsTheStored ==
  Pub!Spec => []Pub!AppShowsWhatIsStored
<1>1. PubInv => Pub!AppShowsWhatIsStored
  <2> SUFFICES ASSUME PubInv, Pub!Busy = {} PROVE Pub!AppShowsWhatIsStored
    BY DEF Pub!AppShowsWhatIsStored
  <2>1. \A q \in Requests : request[q].op = "idle"
    BY IdleIs DEF Pub!Busy
  <2>2. ~settings.updates_pending /\ lost \cap {"missed", "overtaken", "failed", "deleted"} = {}
          => app_data = Pub!AppData(settings)
    BY <2>1 DEF PubInv, StoredInv, Bad
  <2>3. ASSUME lost \cap {"overwritten", "overlapped", "unfinished"} = {}
        PROVE  menu = settings.modules
    <3>1. /\ menu \subseteq settings.modules
          /\ \A m \in settings.modules \ menu : \E q \in Requests : HasInHand(q, m)
      BY <2>3 DEF PubInv, MenuInv
    <3>2. \A q \in Requests : \A m : ~HasInHand(q, m)
      BY <2>1 DEF HasInHand
    <3> QED
      BY <3>1, <3>2
  <2>4. ~settings.updates_pending /\ lost \cap {"overwritten", "missed"} = {}
          => settings.modules_to_put \cup settings.modules_to_remove = {}
    BY DEF PubInv, MissedInv, NothingToPut
  <2> QED
    BY <2>2, <2>3, <2>4 DEF Pub!AppShowsWhatIsStored
<1> QED
  BY <1>1, PubInitInv, PubNextInv, PTL DEF Pub!Spec

(* The app tells each user the units that he bought, in whatever order his *)
(* requests read and put his data, unless one failed or was outdated.      *)
THEOREM UsersSeeWhatTheyBought ==
  Pub!Spec => []Pub!UserDataIsBought
<1>1. PubInv => Pub!UserDataIsBought
  <2> SUFFICES ASSUME PubInv, NEW u \in Users \ lost, NEW g \in Purchases,
                      \A q \in Pub!Busy : Pub!For(q) = Pub!NoOne \/ Pub!For(q).user # u
               PROVE  user_data[u][g] = bought[g][u]
    BY DEF Pub!UserDataIsBought
  <2>1. BuyersOf(u) = {}
    BY IdleIs, ForIs DEF BuyersOf, Pub!Busy
  <2>2. UnitsFit(u)
    BY <2>1 DEF PubInv, UnitsInv, Doomed
  <2> QED
    BY <2>1, <2>2 DEF UnitsFit
<1> QED
  BY <1>1, PubInitInv, PubNextInv, PTL DEF Pub!Spec

(* The settings, the group purchases and the requests have their types.     *)
THEOREM PublishingTypes == Pub!Spec => []Pub!TypeOK
<1>1. PubInv => Pub!TypeOK
  <2> SUFFICES ASSUME PubInv PROVE Pub!TypeOK
    OBVIOUS
  <2>1. \A q \in Requests :
          request[q].op \in {"idle", "save", "modules", "delete", "menu", "compose", "put",
                             "finish", "get_user_data", "put_user_data"}
    BY KindOf DEF PubInv, TypesInv
  <2> QED
    BY <2>1 DEF PubInv, TypesInv, Bad, OfTheMenu, Pub!Reasons, Pub!TypeOK
<1> QED
  BY <1>1, PubInitInv, PubNextInv, PTL DEF Pub!Spec

-----------------------------------------------------------------------------
(* LoyaltyCards: the card of a customer.                                   *)

Handling(n) == {r \in Requests : scanning[r].op # "idle" /\ scanning[r].copy.id = n}

(* The copies of a scan are of one that was made.                          *)
IdsFit ==
  /\ scan.id <= Len(handled)
  /\ \A r \in Requests : scanning[r].op # "idle" => scanning[r].copy.id \in 1 .. Len(handled)

(* A scan for which nobody raced is with one request at most.  Before it is *)
(* handled its requests have not, and after that it is marked, or will be.  *)
OneHandler(n) ==
  /\ \A q, r \in Handling(n) : q = r
  /\ handled[n].times <= 1
  /\ \A r \in Handling(n) : scanning[r].op # "put" => handled[n].times = 0
  /\ handled[n].times = 1 /\ scan.id = n /\ ~scan.processed
       => \E r \in Handling(n) : scanning[r].op = "put"

ScansInv == \A n \in 1 .. Len(handled) : ~handled[n].raced => OneHandler(n)

CardsInv == Cards!LoyaltyCardsAssumption /\ Cards!TypeOK /\ IdsFit /\ ScansInv

-----------------------------------------------------------------------------
(* The stamps add up, whatever is done with the visits.                    *)

Stamps(s) == Sum(s, 1 .. Len(s))

LEMMA CardSum ==
  ASSUME NEW s \in Seq(Nat)
  PROVE  Cards!Sum(s) = Stamps(s) /\ Stamps(s) \in Nat
<1>1. Cards!SumFunctionOnSet(s, DOMAIN s) = Sum(s, DOMAIN s)
  BY DEF Sum, Cards!SumFunctionOnSet, SumFunctionOnSet, Cards!FoldFunctionOnSet,
         FoldFunctionOnSet, Cards!MapThenFoldSet, MapThenFoldSet
<1>2. DOMAIN s = 1 .. Len(s)
  OBVIOUS
<1>3. IsFiniteSet(1 .. Len(s)) /\ \A i \in 1 .. Len(s) : s[i] \in Nat
  <2>1. Len(s) \in Nat
    OBVIOUS
  <2>2. IsFiniteSet(1 .. Len(s))
    BY <2>1, FS_Interval
  <2> QED
    BY <2>2
<1>4. Stamps(s) \in Nat
  BY <1>3, SumNat DEF Stamps
<1> QED
  BY <1>1, <1>2, <1>4 DEF Stamps, Cards!Sum

LEMMA CardBefore ==
  ASSUME NEW i
  PROVE  Cards!Before(i) = Sum(card, 1 .. i - 1)
  BY DEF Cards!Before, Sum, Cards!SumFunctionOnSet, SumFunctionOnSet,
         Cards!FoldFunctionOnSet, FoldFunctionOnSet, Cards!MapThenFoldSet, MapThenFoldSet

LEMMA StampsOfPart ==
  ASSUME NEW s \in Seq(Nat), NEW a \in Nat \ {0}, NEW b \in Nat, a <= b + 1, b <= Len(s)
  PROVE  /\ SubSeq(s, a, b) \in Seq(Nat)
         /\ Stamps(SubSeq(s, a, b)) = Sum(s, a .. b)
<1> DEFINE t == SubSeq(s, a, b)
<1>1. PICK j \in Nat, m \in Nat : a = j + 1 /\ b = j + m
  <2>1. a - 1 \in Nat /\ b - (a - 1) \in Nat /\ a = (a - 1) + 1
        /\ b = (a - 1) + (b - (a - 1))
    OBVIOUS
  <2> QED
    BY <2>1
<1>2. t \in Seq(Nat) /\ Len(t) = m /\ \A i \in 1 .. m : t[i] = s[j + i]
  <2>1. \A i \in a .. b : s[i] \in Nat
    OBVIOUS
  <2>2. /\ t \in Seq(Nat) /\ Len(t) = IF a <= b THEN b - a + 1 ELSE 0
        /\ \A i \in 1 .. b - a + 1 : t[i] = s[a + i - 1]
    BY <2>1, SubSeqProperties
  <2> QED
    BY <1>1, <2>2
<1> HIDE DEF t
<1>3. Shifted(t, s, j, m)
  BY <1>2 DEF Shifted
<1>4. Sum(t, 1 .. m) = Sum(s, j + 1 .. j + m)
  BY <1>3, SumShift
<1> QED
  BY <1>1, <1>2, <1>4 DEF Stamps, t

LEMMA StampsOfBoth ==
  ASSUME NEW s \in Seq(Nat), NEW t \in Seq(Nat)
  PROVE  s \o t \in Seq(Nat) /\ Stamps(s \o t) = Stamps(s) + Stamps(t)
<1> DEFINE u == s \o t
           L == Len(s)
           M == Len(t)
<1>1. /\ u \in Seq(Nat) /\ L \in Nat /\ M \in Nat /\ Len(u) = L + M
      /\ \A i \in 1 .. L + M : u[i] = IF i <= L THEN s[i] ELSE t[i - L]
  BY ConcatProperties
<1>2. /\ \A i \in 1 .. L : s[i] \in Nat
      /\ \A i \in 1 .. M : t[i] \in Nat
  OBVIOUS
<1> HIDE DEF u, L, M
<1>3. Sum(u, 1 .. L) = Sum(s, 1 .. L)
  <2>1. IsFiniteSet(1 .. L)
    BY <1>1, FS_Interval
  <2>2. \A i \in 1 .. L : u[i] = s[i]
    BY <1>1
  <2> QED
    BY <2>1, <2>2, SumSame
<1>4. Sum(t, 1 .. M) = Sum(u, L + 1 .. L + M)
  <2>1. Shifted(t, u, L, M)
    BY <1>1, <1>2 DEF Shifted
  <2> QED
    BY <1>1, <2>1, SumShift
<1>5. Sum(u, 1 .. L + M) = Sum(u, 1 .. L) + Sum(u, L + 1 .. L + M)
  <2>1. Whole(u, 1 .. L + M)
    BY <1>1, <1>2 DEF Whole
  <2>2. PICK m \in Nat, b \in Nat : m = L + M /\ b = L + 1
    BY <1>1
  <2>3. 1 <= b /\ b <= m + 1 /\ b - 1 = L
    BY <1>1, <2>2
  <2>4. Sum(u, 1 .. m) = Sum(u, 1 .. b - 1) + Sum(u, b .. m)
    BY <2>1, <2>2, <2>3, SumSplit
  <2> QED
    BY <2>2, <2>3, <2>4
<1> QED
  BY <1>1, <1>3, <1>4, <1>5 DEF Stamps, u, L, M

LEMMA StampsOfRange ==
  ASSUME NEW s \in Seq(Nat), NEW a \in Nat \ {0}, NEW b \in Nat, b <= Len(s)
  PROVE  Sum(s, a .. b) \in Nat
<1>1. IsFiniteSet(a .. b)
  BY FS_Interval
<1>2. \A i \in a .. b : s[i] \in Nat
  OBVIOUS
<1> QED
  BY <1>1, <1>2, SumNat

LEMMA StampsSplit ==
  ASSUME NEW s \in Seq(Nat), NEW a \in Nat \ {0}, a <= Len(s) + 1
  PROVE  /\ Stamps(s) = Sum(s, 1 .. a - 1) + Sum(s, a .. Len(s))
         /\ Sum(s, 1 .. a - 1) \in Nat /\ Sum(s, a .. Len(s)) \in Nat
<1>1. Whole(s, 1 .. Len(s)) /\ Len(s) \in Nat /\ 1 <= a
  BY DEF Whole
<1>2. Sum(s, 1 .. Len(s)) = Sum(s, 1 .. a - 1) + Sum(s, a .. Len(s))
  BY <1>1, SumSplit
<1>3. Sum(s, a .. Len(s)) \in Nat
  BY <1>1, StampsOfRange
<1>4. PICK b \in Nat : b = a - 1 /\ b <= Len(s)
  BY <1>1
<1>5. Sum(s, 1 .. b) \in Nat
  BY <1>4, StampsOfRange
<1> QED
  BY <1>2, <1>3, <1>4, <1>5 DEF Stamps

LEMMA StampsOfNext ==
  ASSUME NEW s \in Seq(Nat), NEW a \in 1 .. Len(s)
  PROVE  Sum(s, a .. Len(s)) = s[a] + Sum(s, a + 1 .. Len(s))
<1> DEFINE I == a + 1 .. Len(s)
<1>1. a .. Len(s) = I \cup {a} /\ a \notin I
  OBVIOUS
<1>2. IsFiniteSet(I)
  BY FS_Interval
<1>3. \A j \in I \cup {a} : s[j] \in Int
  OBVIOUS
<1>4. Sum(s, I) \in Int /\ s[a] \in Int
  BY <1>2, <1>3, SumType
<1> HIDE DEF I
<1>5. Sum(s, I \cup {a}) = Sum(s, I) + s[a]
  BY <1>1, <1>2, <1>3, SumAdd
<1>6. Sum(s, I \cup {a}) = s[a] + Sum(s, I)
  BY <1>4, <1>5
<1>7. Sum(s, a .. Len(s)) = s[a] + Sum(s, I)
  BY <1>1, <1>6
<1> QED
  BY <1>7 DEF I

LEMMA StampsOfOne ==
  ASSUME NEW n \in Nat
  PROVE  Stamps(<<n>>) = n
<1>1. Sum(<<n>>, {} \cup {1}) = Sum(<<n>>, {}) + <<n>>[1]
  <2>1. \A y \in {} \cup {1} : <<n>>[y] \in Int
    OBVIOUS
  <2>2. IsFiniteSet({}) /\ 1 \notin {}
    BY FS_EmptySet
  <2> QED
    BY <2>1, <2>2, SumAdd
<1>2. 1 .. Len(<<n>>) = {} \cup {1}
  OBVIOUS
<1> QED
  BY <1>1, <1>2, SumOfNone DEF Stamps

(* A visit with n stamps comes in at place i.                              *)
LEMMA CardInserted ==
  ASSUME NEW S \in SUBSET Nat, NEW s \in Seq(S), NEW n \in S, NEW i, i \in 1 .. Len(s) + 1
  PROVE  /\ Cards!InsertAt(s, i, n) \in Seq(S)
         /\ Stamps(Cards!InsertAt(s, i, n)) = Stamps(s) + n
<1> DEFINE p == SubSeq(s, 1, i - 1)
           q == SubSeq(s, i, Len(s))
<1>0. s \in Seq(Nat) /\ Len(s) \in Nat /\ i \in Nat \ {0} /\ n \in Nat
  <2>1. s \in Seq(Nat)
    BY SeqMonotonic
  <2> QED
    BY <2>1
<1>1. p \in Seq(S) /\ q \in Seq(S)
  <2>1. \A j \in 1 .. Len(s) : s[j] \in S
    OBVIOUS
  <2>2. \A j \in 1 .. i - 1 : s[j] \in S
    BY <2>1
  <2>3. \A j \in i .. Len(s) : s[j] \in S
    BY <2>1
  <2> QED
    BY <2>2, <2>3, <1>0, SubSeqProperties
<1>2. /\ p \in Seq(Nat) /\ Stamps(p) = Sum(s, 1 .. i - 1)
      /\ q \in Seq(Nat) /\ Stamps(q) = Sum(s, i .. Len(s))
  <2>1. PICK b \in Nat : b = i - 1 /\ b <= Len(s)
    BY <1>0
  <2>2. SubSeq(s, 1, b) \in Seq(Nat) /\ Stamps(SubSeq(s, 1, b)) = Sum(s, 1 .. b)
    BY <1>0, <2>1, StampsOfPart
  <2>3. q \in Seq(Nat) /\ Stamps(q) = Sum(s, i .. Len(s))
    BY <1>0, StampsOfPart
  <2> QED
    BY <2>1, <2>2, <2>3
<1>3. Stamps(s) = Stamps(p) + Stamps(q) /\ Stamps(p) \in Nat /\ Stamps(q) \in Nat
  BY <1>0, <1>2, StampsSplit
<1>4. <<n>> \in Seq(S) /\ <<n>> \in Seq(Nat) /\ Stamps(<<n>>) = n
  BY <1>0, StampsOfOne
<1> HIDE DEF p, q
<1>5. p \o <<n>> \in Seq(S)
  BY <1>1, <1>4, ConcatProperties
<1>6. p \o <<n>> \in Seq(Nat) /\ Stamps(p \o <<n>>) = Stamps(p) + n
  BY <1>2, <1>4, StampsOfBoth
<1>7. (p \o <<n>>) \o q \in Seq(S)
  BY <1>1, <1>5, ConcatProperties
<1>8. Stamps((p \o <<n>>) \o q) = Stamps(p \o <<n>>) + Stamps(q)
  BY <1>2, <1>6, StampsOfBoth
<1>9. Cards!InsertAt(s, i, n) = (p \o <<n>>) \o q
  BY DEF Cards!InsertAt, p, q
<1> QED
  BY <1>0, <1>3, <1>6, <1>7, <1>8, <1>9

(* The visit at place i is taken away.                                     *)
LEMMA CardRemoved ==
  ASSUME NEW S, S \subseteq Nat, NEW s \in Seq(S), NEW i \in 1 .. Len(s)
  PROVE  /\ Cards!RemoveAt(s, i) \in Seq(S)
         /\ Stamps(s) = Stamps(Cards!RemoveAt(s, i)) + s[i]
         /\ Stamps(Cards!RemoveAt(s, i)) \in Nat
<1> DEFINE p == SubSeq(s, 1, i - 1)
           q == SubSeq(s, i + 1, Len(s))
<1>0. s \in Seq(Nat) /\ Len(s) \in Nat /\ i \in Nat \ {0} /\ s[i] \in Nat
  <2>1. s \in Seq(Nat)
    BY SeqMonotonic
  <2> QED
    BY <2>1
<1>1. p \in Seq(S) /\ q \in Seq(S)
  <2>1. \A j \in 1 .. Len(s) : s[j] \in S
    OBVIOUS
  <2>2. \A j \in 1 .. i - 1 : s[j] \in S
    BY <2>1
  <2>3. \A j \in i + 1 .. Len(s) : s[j] \in S
    BY <2>1
  <2> QED
    BY <2>2, <2>3, <1>0, SubSeqProperties
<1>2. /\ p \in Seq(Nat) /\ Stamps(p) = Sum(s, 1 .. i - 1)
      /\ q \in Seq(Nat) /\ Stamps(q) = Sum(s, i + 1 .. Len(s))
  <2>1. PICK a \in Nat, b \in Nat : b = i - 1 /\ b <= Len(s) /\ a = i + 1 /\ a <= Len(s) + 1
    BY <1>0
  <2>2. SubSeq(s, 1, b) \in Seq(Nat) /\ Stamps(SubSeq(s, 1, b)) = Sum(s, 1 .. b)
    BY <1>0, <2>1, StampsOfPart
  <2>3. /\ SubSeq(s, a, Len(s)) \in Seq(Nat)
        /\ Stamps(SubSeq(s, a, Len(s))) = Sum(s, a .. Len(s))
    BY <1>0, <2>1, StampsOfPart
  <2> QED
    BY <2>1, <2>2, <2>3
<1>3. Stamps(s) = Stamps(p) + Sum(s, i .. Len(s)) /\ Stamps(p) \in Nat
  BY <1>0, <1>2, StampsSplit
<1>4. Sum(s, i .. Len(s)) = s[i] + Stamps(q)
  BY <1>0, <1>2, StampsOfNext
<1>5. Stamps(q) \in Nat
  BY <1>2, CardSum
<1> HIDE DEF p, q
<1>6. p \o q \in Seq(S)
  BY <1>1, ConcatProperties
<1>7. Stamps(p \o q) = Stamps(p) + Stamps(q)
  BY <1>2, StampsOfBoth
<1>8. Cards!RemoveAt(s, i) = p \o q
  BY DEF Cards!RemoveAt, p, q
<1>9. Stamps(s) = Stamps(p) + (s[i] + Stamps(q))
  BY <1>3, <1>4
<1>10. /\ Stamps(p) + (s[i] + Stamps(q)) = (Stamps(p) + Stamps(q)) + s[i]
       /\ Stamps(p) + Stamps(q) \in Nat
  BY <1>0, <1>3, <1>5
<1> QED
  BY <1>6, <1>7, <1>8, <1>9, <1>10

(* The oldest visits are redeemed, the last of them in part: n stamps go,  *)
(* or all when there are less.                                             *)
LEMMA Cancel ==
  ASSUME NEW T, NEW A \in Nat, NEW B \in Nat, NEW E \in Nat, NEW F \in Nat, NEW v \in Nat,
         T = B + F, T = A + E, F = v + E
  PROVE  A = B + v /\ A <= T
  OBVIOUS

LEMMA CardUpTo ==
  ASSUME NEW s \in Seq(Nat), NEW a \in 1 .. Len(s)
  PROVE  /\ Sum(s, 1 .. a) = Sum(s, 1 .. a - 1) + s[a]
         /\ Sum(s, 1 .. a - 1) \in Nat /\ Sum(s, a .. Len(s)) \in Nat
         /\ Stamps(s) = Sum(s, 1 .. a - 1) + Sum(s, a .. Len(s))
         /\ Sum(s, 1 .. a) <= Stamps(s)
<1>0. a \in Nat \ {0} /\ a + 1 \in Nat \ {0} /\ Len(s) \in Nat /\ s[a] \in Nat
  OBVIOUS
<1>1. PICK b \in Nat \ {0} : b = a + 1
  BY <1>0
<1>2. /\ Stamps(s) = Sum(s, 1 .. a - 1) + Sum(s, a .. Len(s))
      /\ Sum(s, 1 .. a - 1) \in Nat /\ Sum(s, a .. Len(s)) \in Nat
  BY <1>0, StampsSplit
<1>3. /\ Stamps(s) = Sum(s, 1 .. b - 1) + Sum(s, b .. Len(s))
      /\ Sum(s, 1 .. b - 1) \in Nat /\ Sum(s, b .. Len(s)) \in Nat
  BY <1>0, <1>1, StampsSplit
<1>4. Sum(s, a .. Len(s)) = s[a] + Sum(s, b .. Len(s))
  BY <1>1, StampsOfNext
<1>5. b - 1 = a
  BY <1>1
<1> DEFINE B == Sum(s, 1 .. a - 1)
           A == Sum(s, 1 .. a)
           E == Sum(s, b .. Len(s))
           F == Sum(s, a .. Len(s))
           T == Stamps(s)
<1>6. T = B + F /\ B \in Nat /\ F \in Nat
  BY <1>2
<1>7. T = A + E /\ A \in Nat /\ E \in Nat
  BY <1>3, <1>5
<1>8. PICK v \in Nat : v = s[a] /\ F = v + E
  BY <1>0, <1>4
<1> HIDE DEF A, B, E, F, T
<1>9. PICK bb \in Nat, ff \in Nat : bb = B /\ ff = F
  BY <1>6
<1>10. PICK aa \in Nat, ee \in Nat : aa = A /\ ee = E
  BY <1>7
<1>11. T = bb + ff /\ T = aa + ee /\ ff = v + ee
  BY <1>6, <1>7, <1>8, <1>9, <1>10
<1>12. aa = bb + v /\ aa <= T
  BY <1>11, Cancel
<1> USE DEF A, B, E, F, T
<1> QED
  BY <1>6, <1>8, <1>9, <1>10, <1>12

LEMMA CardReplaced ==
  ASSUME NEW s \in Seq(Nat), NEW a \in 1 .. Len(s), NEW left \in Nat
  PROVE  Sum([s EXCEPT ![a] = left], a .. Len(s)) = Sum(s, a .. Len(s)) - s[a] + left
<1> DEFINE w == [s EXCEPT ![a] = left]
           I == a .. Len(s)
<1>1. IsFiniteSet(I)
  <2>1. a \in Nat /\ Len(s) \in Nat
    OBVIOUS
  <2> QED
    BY <2>1, FS_Interval
<1>2. a \in I
  OBVIOUS
<1>3. \A i \in I : w[i] \in Int /\ s[i] \in Int
  OBVIOUS
<1>4. \A i \in I \ {a} : w[i] = s[i]
  OBVIOUS
<1>5. w[a] = left
  OBVIOUS
<1> HIDE DEF w, I
<1>6. Sum(w, I) = Sum(s, I) - s[a] + w[a]
  BY <1>1, <1>2, <1>3, <1>4, SumChange
<1> QED
  BY <1>5, <1>6 DEF w, I

LEMMA CardLeft ==
  ASSUME NEW s \in Seq(Nat), NEW t \in Seq(Nat), NEW k \in Nat, k < Len(s),
         Len(t) = Len(s) - k, NEW left \in Nat, t[1] = left,
         \A i \in 2 .. Len(t) : t[i] = s[k + i]
  PROVE  Stamps(t) = Sum(s, k + 1 .. Len(s)) - s[k + 1] + left
<1> DEFINE w == [s EXCEPT ![k + 1] = left]
           M == Len(t)
           I == k + 1 .. Len(s)
<1>1. /\ M \in Nat /\ Len(s) = k + M /\ k + 1 \in 1 .. Len(s)
      /\ \A i \in 1 .. Len(s) : w[i] \in Nat /\ s[i] \in Nat
      /\ \A i \in 1 .. Len(s) : i # k + 1 => w[i] = s[i]
      /\ w[k + 1] = left
  OBVIOUS
<1>2. Shifted(t, w, k, M)
  <2> SUFFICES ASSUME NEW i \in 1 .. M
               PROVE  t[i] = w[k + i] /\ t[i] \in Int
    BY DEF Shifted
  <2>1. t[i] \in Int
    OBVIOUS
  <2>2. CASE i = 1
    BY <1>1, <2>1, <2>2
  <2>3. CASE i # 1
    <3>1. i \in 2 .. Len(t) /\ k + i \in 1 .. Len(s) /\ k + i # k + 1
      BY <1>1, <2>3
    <3>2. t[i] = s[k + i]
      BY <3>1
    <3> HIDE DEF w
    <3> QED
      BY <1>1, <2>1, <3>1, <3>2
  <2> QED
    BY <2>2, <2>3
<1>3. IsFiniteSet(I) /\ k + 1 \in I /\ I \subseteq 1 .. Len(s)
  <2>1. PICK a \in Nat, b \in Nat : a = k + 1 /\ b = Len(s)
    <3>1. k + 1 \in Nat /\ Len(s) \in Nat
      OBVIOUS
    <3> QED
      BY <3>1
  <2>2. IsFiniteSet(a .. b)
    BY FS_Interval
  <2> QED
    BY <1>1, <2>1, <2>2
<1> HIDE DEF w, M
<1>4. Sum(t, 1 .. M) = Sum(w, k + 1 .. k + M)
  BY <1>1, <1>2, SumShift
<1>5. Sum(w, I) = Sum(s, I) - s[k + 1] + left
  <2>1. PICK a : a = k + 1
    OBVIOUS
  <2>2. Sum([s EXCEPT ![a] = left], a .. Len(s)) = Sum(s, a .. Len(s)) - s[a] + left
    BY <1>1, <2>1, CardReplaced
  <2> QED
    BY <2>1, <2>2 DEF w
<1> QED
  BY <1>1, <1>4, <1>5 DEF Stamps, M

LEMMA CardRedeemed ==
  ASSUME Cards!LoyaltyCardsAssumption, card \in Seq(1 .. MaxGiven), x_stamps \in Settings,
         Cards!Redeems
  PROVE  \E n \in 0 .. Stamps(card) :
           /\ card' \in Seq(1 .. MaxGiven)
           /\ Stamps(card') = Stamps(card) - n
           /\ ledger' = [ledger EXCEPT !.exchanged = @ + n]
<1>0. MaxGiven \in Nat /\ x_stamps \in Nat \ {0}
  BY DEF Cards!LoyaltyCardsAssumption
<1>1. card \in Seq(Nat) /\ Len(card) \in Nat
  BY <1>0, SeqMonotonic
<1>2. Cards!Sum(card) = Stamps(card) /\ Stamps(card) \in Nat
  BY <1>1, CardSum
<1> DEFINE RedeemedOf(k, n) ==
             /\ Cards!Before(k + 1) <= n
             /\ k < Len(card) => Cards!Before(k + 2) > n
             /\ card' = [i \in 1 .. Len(card) - k |-> Cards!LeftOf(k + i, n)]
             /\ ledger' = [ledger EXCEPT !.exchanged = @ + Cards!Taken(n)]
<1>3. PICK cards \in 1 .. 2, k \in 0 .. Len(card) : RedeemedOf(k, cards * x_stamps)
  <2> HIDE DEF RedeemedOf
  <2>1. \E cards \in IF loyalty_type = "stamps" THEN 1 .. 2 ELSE {1}, k \in 0 .. Len(card) :
          RedeemedOf(k, cards * x_stamps)
    BY DEF Cards!Redeems, RedeemedOf
  <2> QED
    BY <2>1
<1>4. PICK n \in Nat : n = cards * x_stamps
  <2>1. cards * x_stamps \in Nat
    BY <1>0
  <2> QED
    BY <2>1
<1>5. /\ Cards!Before(k + 1) <= n
      /\ k < Len(card) => Cards!Before(k + 2) > n
      /\ card' = [i \in 1 .. Len(card) - k |-> Cards!LeftOf(k + i, n)]
      /\ ledger' = [ledger EXCEPT !.exchanged = @ + Cards!Taken(n)]
  <2> HIDE DEF RedeemedOf
  <2>1. RedeemedOf(k, n)
    BY <1>3, <1>4
  <2> QED
    BY <2>1 DEF RedeemedOf
<1> HIDE DEF RedeemedOf
<1>6. CASE k = Len(card)
  <2>1. card' = <<>>
    BY <1>1, <1>5, <1>6
  <2>2. Cards!Before(k + 1) = Stamps(card)
    <3>1. Cards!Before(k + 1) = Sum(card, 1 .. (k + 1) - 1)
      BY CardBefore
    <3>2. (k + 1) - 1 = Len(card)
      BY <1>1, <1>6
    <3> QED
      BY <3>1, <3>2 DEF Stamps
  <2>3. Cards!Taken(n) = Stamps(card)
    BY <1>2, <1>5, <2>2 DEF Cards!Taken
  <2>4. Stamps(<<>>) = 0
    <3>1. 1 .. Len(<<>>) = {}
      OBVIOUS
    <3> QED
      BY <3>1, SumOfNone DEF Stamps
  <2>5. <<>> \in Seq(1 .. MaxGiven)
    OBVIOUS
  <2>6. PICK m \in Nat : m = Stamps(card)
    BY <1>2
  <2>7. m \in 0 .. m /\ 0 = m - m
    OBVIOUS
  <2>8. /\ card' \in Seq(1 .. MaxGiven) /\ Stamps(card') = m - m
        /\ ledger' = [ledger EXCEPT !.exchanged = @ + m]
    BY <1>5, <2>1, <2>3, <2>4, <2>5, <2>6, <2>7
  <2> QED
    BY <2>6, <2>7, <2>8
<1>7. CASE k < Len(card)
  <2>1. PICK a \in 1 .. Len(card) : a = k + 1
    BY <1>1, <1>7
  <2> DEFINE B == Sum(card, 1 .. a - 1)
             left == B + card[a] - n
  <2>2. /\ Sum(card, 1 .. a) = B + card[a]
        /\ B \in Nat /\ Sum(card, a .. Len(card)) \in Nat
        /\ Stamps(card) = B + Sum(card, a .. Len(card))
        /\ Sum(card, 1 .. a) <= Stamps(card)
    BY <1>1, CardUpTo
  <2>3. \A i : Cards!Before(i) = Sum(card, 1 .. i - 1)
    BY CardBefore
  <2>4. Cards!Before(a) = B /\ B <= n
    BY <1>5, <2>1, <2>3
  <2>5. Sum(card, 1 .. a) > n
    <3>1. Cards!Before(k + 2) = Sum(card, 1 .. (k + 2) - 1)
      BY <2>3
    <3>2. (k + 2) - 1 = a
      BY <2>1
    <3> QED
      BY <1>5, <1>7, <3>1, <3>2
  <2>6. card[a] \in 1 .. MaxGiven
    BY ElementOfSeq
  <2> HIDE DEF B
  <2>7. left \in 1 .. MaxGiven /\ left \in Nat
    <3>1. PICK v \in 1 .. MaxGiven : v = card[a]
      BY <2>6
    <3>2. B + v > n /\ B <= n /\ B \in Nat /\ left = B + v - n
      BY <2>2, <2>4, <2>5, <3>1
    <3> HIDE DEF left
    <3> QED
      BY <1>0, <3>2
  <2>8. Cards!LeftOf(a, n) = left
    <3>1. card[a] \in Nat
      BY <2>6
    <3> QED
      BY <2>2, <2>4, <3>1 DEF Cards!LeftOf
  <2>9. ASSUME NEW i \in 2 .. Len(card) - k
        PROVE  Cards!LeftOf(k + i, n) = card[k + i]
    <3>1. PICK b \in Nat : b = (k + i) - 1 /\ a <= b /\ b <= Len(card)
      BY <1>1, <1>7, <2>1
    <3>2. Sum(card, 1 .. a) <= Sum(card, 1 .. b)
      <4>1. IsFiniteSet(1 .. b)
        BY FS_Interval
      <4>3. 1 .. a \subseteq 1 .. b
        BY <3>1
      <4>2. \A j \in 1 .. b : card[j] \in Nat
        BY <1>1, <3>1
      <4> QED
        BY <4>1, <4>2, <4>3, SumMonotone
    <3>3. Cards!Before(k + i) = Sum(card, 1 .. b)
      BY <2>3, <3>1
    <3>4. Sum(card, 1 .. b) \in Nat
      BY <1>1, <3>1, StampsOfRange
    <3>5. Sum(card, 1 .. a) \in Nat
      BY <1>1, <2>2, <2>6
    <3> QED
      BY <2>5, <3>2, <3>3, <3>4, <3>5 DEF Cards!LeftOf
  <2> HIDE DEF left
  <2>10. /\ DOMAIN card' = 1 .. Len(card) - k
         /\ \A i \in 1 .. Len(card) - k : card'[i] = IF i = 1 THEN left ELSE card[k + i]
    <3>1. ASSUME NEW i \in 1 .. Len(card) - k
          PROVE  card'[i] = IF i = 1 THEN left ELSE card[k + i]
      <4>1. card'[i] = Cards!LeftOf(k + i, n)
        BY <1>5
      <4>2. CASE i = 1
        BY <2>1, <2>8, <4>1, <4>2
      <4>3. CASE i # 1
        <5>1. i \in 2 .. Len(card) - k
          BY <1>1, <4>3
        <5> QED
          BY <2>9, <4>1, <4>3, <5>1
      <4> QED
        BY <4>2, <4>3
    <3> QED
      BY <1>5, <3>1
  <2>11. \A i \in 1 .. Len(card) - k : card'[i] \in 1 .. MaxGiven
    <3> SUFFICES ASSUME NEW i \in 1 .. Len(card) - k
                 PROVE  card'[i] \in 1 .. MaxGiven
      OBVIOUS
    <3>1. CASE i = 1
      BY <2>7, <2>10, <3>1
    <3>2. CASE i # 1
      <4>1. k + i \in 1 .. Len(card)
        BY <1>1
      <4>2. card[k + i] \in 1 .. MaxGiven
        BY <4>1, ElementOfSeq
      <4> QED
        BY <2>10, <3>2, <4>2
    <3> QED
      BY <3>1, <3>2
  <2>12. card' \in Seq(1 .. MaxGiven) /\ Len(card') = Len(card) - k
    <3>1. PICK m \in Nat : m = Len(card) - k
      BY <1>1, <1>7
    <3>2. card' = [i \in 1 .. m |-> card'[i]]
      BY <1>5, <3>1
    <3>3. \A i \in 1 .. m : card'[i] \in 1 .. MaxGiven
      BY <2>11, <3>1
    <3>4. PICK t : t = card'
      OBVIOUS
    <3>5. t \in [1 .. m -> 1 .. MaxGiven]
      BY <3>2, <3>3, <3>4
    <3>6. t \in Seq(1 .. MaxGiven)
      BY <3>5, SeqDef
    <3>7. Len(t) = m
      BY <3>5, <3>6, LenProperties
    <3> QED
      BY <3>1, <3>4, <3>6, <3>7
  <2>13. Stamps(card') = Sum(card, a .. Len(card)) - card[a] + left
    <3>1. card' \in Seq(Nat)
      BY <1>0, <2>12, SeqMonotonic
    <3>2. card'[1] = left
      BY <1>1, <1>7, <2>10
    <3>3. \A i \in 2 .. Len(card') : card'[i] = card[k + i]
      BY <2>10, <2>12
    <3>4. k \in Nat
      BY <1>1
    <3> QED
      BY <1>1, <1>7, <2>1, <2>7, <2>12, <3>1, <3>2, <3>3, <3>4, CardLeft
  <2>14. Cards!Taken(n) = n /\ n <= Stamps(card)
    <3>1. Sum(card, 1 .. a) \in Nat
      BY <2>2, <2>6
    <3> QED
      BY <1>2, <2>2, <2>5, <3>1 DEF Cards!Taken
  <2>15. Stamps(card') = Stamps(card) - n
    BY <2>2, <2>6, <2>13 DEF left
  <2>16. n \in 0 .. Stamps(card)
    BY <1>2, <2>14
  <2>17. ledger' = [ledger EXCEPT !.exchanged = @ + n]
    BY <1>5, <2>14
  <2> QED
    BY <2>12, <2>15, <2>16, <2>17
<1> QED
  BY <1>1, <1>6, <1>7

-----------------------------------------------------------------------------
(* The scans of the card.                                                  *)

LEMMA CardsInitInv == Cards!Init => CardsInv
<1> SUFFICES ASSUME Cards!Init PROVE CardsInv
  OBVIOUS
<1>0. Cards!LoyaltyCardsAssumption
  BY CardsConstants
<1> USE <1>0
<1>1. Len(handled) = 0 /\ card \in Seq(1 .. MaxGiven)
      /\ handled \in Seq([times: Nat, raced: BOOLEAN])
  BY DEF Cards!Init
<1>2. MaxGiven \in Nat /\ MaxScans \in Nat /\ x_stamps \in Settings
  BY DEF Cards!LoyaltyCardsAssumption, Cards!Init
<1>3. scan \in Cards!Scan /\ \A r \in Requests : scanning[r] = Cards!Idle
  BY <1>2 DEF Cards!Init, Cards!Scan
<1>4. Cards!Idle.op = "idle" /\ Cards!Idle.copy \in Cards!Scan
  BY <1>2 DEF Cards!Idle, Cards!Scan
<1>5. scanning \in [Requests -> [op: {"idle", "add", "redeem", "put"}, copy: Cards!Scan]]
  BY <1>2 DEF Cards!Init, Cards!Idle, Cards!Scan
<1>6. ledger \in [given: 0 .. MaxGiven, exchanged: Nat, withdrawn: Nat]
  BY <1>2 DEF Cards!Init
<1>7. Cards!TypeOK
  BY <1>1, <1>2, <1>3, <1>5, <1>6 DEF Cards!TypeOK, Cards!Init
<1>8. IdsFit
  BY <1>1, <1>3, <1>4 DEF IdsFit, Cards!Init
<1>9. ScansInv
  BY <1>1 DEF ScansInv
<1> QED
  BY <1>7, <1>8, <1>9 DEF CardsInv

(* What the steps leave of the types of the card and of its ledger.        *)
CardTypes ==
  /\ card \in Seq(1 .. MaxGiven)
  /\ ledger \in [given: 0 .. MaxGiven, exchanged: Nat, withdrawn: Nat]

LEMMA CardAdds ==
  ASSUME Cards!LoyaltyCardsAssumption, CardTypes, Cards!Adds
  PROVE  \E n \in Nat \ {0} :
           /\ card' \in Seq(1 .. MaxGiven)
           /\ Stamps(card') = Stamps(card) + n
           /\ ledger.given + n <= MaxGiven
           /\ ledger' = [ledger EXCEPT !.given = @ + n]
<1>1. PICK n \in Nat \ {0}, i \in 1 .. Len(card) + 1 :
        /\ ledger.given + n <= MaxGiven
        /\ card' = Cards!InsertAt(card, i, n)
        /\ ledger' = [ledger EXCEPT !.given = @ + n]
  <2>1. (IF loyalty_type = "stamps" THEN Counts ELSE {1}) \subseteq Nat \ {0}
    BY DEF Cards!LoyaltyCardsAssumption
  <2> QED
    BY <2>1 DEF Cards!Adds
<1>2. n \in 1 .. MaxGiven /\ 1 .. MaxGiven \subseteq Nat
  BY <1>1 DEF CardTypes, Cards!LoyaltyCardsAssumption
<1>3. /\ Cards!InsertAt(card, i, n) \in Seq(1 .. MaxGiven)
      /\ Stamps(Cards!InsertAt(card, i, n)) = Stamps(card) + n
  <2> DEFINE S == 1 .. MaxGiven
  <2>1. S \subseteq Nat
    BY <1>2
  <2>2. n \in S
    BY <1>2
  <2>3. card \in Seq(S)
    BY DEF CardTypes
  <2>4. i \in 1 .. Len(card) + 1
    OBVIOUS
  <2> HIDE DEF S
  <2>5. /\ Cards!InsertAt(card, i, n) \in Seq(S)
        /\ Stamps(Cards!InsertAt(card, i, n)) = Stamps(card) + n
    BY <2>1, <2>2, <2>3, <2>4, CardInserted
  <2> QED
    BY <2>2, <2>3, <2>4, <2>5 DEF S
<1> QED
  BY <1>1, <1>3

LEMMA CardDeletes ==
  ASSUME Cards!LoyaltyCardsAssumption, CardTypes, NEW i \in DOMAIN card, Cards!delete_visit(i)
  PROVE  \E n \in Nat \ {0} :
           /\ card' \in Seq(1 .. MaxGiven)
           /\ Stamps(card) = Stamps(card') + n /\ Stamps(card') \in Nat
           /\ ledger' = [ledger EXCEPT !.withdrawn = @ + n]
<1>1. i \in 1 .. Len(card) /\ 1 .. MaxGiven \subseteq Nat
  BY DEF CardTypes
<1>2. /\ Cards!RemoveAt(card, i) \in Seq(1 .. MaxGiven)
      /\ Stamps(card) = Stamps(Cards!RemoveAt(card, i)) + card[i]
      /\ Stamps(Cards!RemoveAt(card, i)) \in Nat
  BY <1>1, CardRemoved DEF CardTypes
<1>3. card[i] \in 1 .. MaxGiven
  BY <1>1, ElementOfSeq DEF CardTypes
<1>4. card[i] \in Nat \ {0}
  BY <1>3
<1> QED
  BY <1>2, <1>4 DEF Cards!delete_visit

(* Every step gives stamps, exchanges some, takes some back or leaves the  *)
(* sum of those on the card as it was.                                     *)
LEMMA LedgerOf ==
  ASSUME CardTypes, card' \in Seq(1 .. MaxGiven)
  PROVE  /\ Cards!Sum(card) = Stamps(card) /\ Stamps(card) \in Nat
         /\ Cards!Sum(card)' = Stamps(card') /\ Stamps(card') \in Nat
<1>1. card \in Seq(Nat) /\ card' \in Seq(Nat)
  <2>1. 1 .. MaxGiven \subseteq Nat
    OBVIOUS
  <2> QED
    BY <2>1, SeqMonotonic DEF CardTypes
<1>2. Cards!Sum(card) = Stamps(card) /\ Stamps(card) \in Nat
  BY <1>1, CardSum
<1>3. Cards!Sum(card') = Stamps(card') /\ Stamps(card') \in Nat
  BY <1>1, CardSum
<1>4. Cards!Sum(card)' = Cards!Sum(card')
  BY DEF Cards!Sum
<1> QED
  BY <1>2, <1>3, <1>4

LedgerStep ==
  /\ CardTypes'
  /\ Cards!Ledger!Next
     \/ UNCHANGED <<ledger.given, ledger.exchanged, ledger.withdrawn, Cards!Sum(card)>>

LEMMA AddsGive ==
  ASSUME Cards!LoyaltyCardsAssumption, CardTypes, Cards!Adds
  PROVE  LedgerStep
<1>1. PICK n \in Nat \ {0} :
        /\ card' \in Seq(1 .. MaxGiven)
        /\ Stamps(card') = Stamps(card) + n
        /\ ledger.given + n <= MaxGiven
        /\ ledger' = [ledger EXCEPT !.given = @ + n]
  BY CardAdds
<1>2. ledger.given \in Nat /\ MaxGiven \in Nat
  BY DEF CardTypes, Cards!LoyaltyCardsAssumption
<1>3. /\ ledger'.given = ledger.given + n
      /\ ledger'.exchanged = ledger.exchanged /\ ledger'.withdrawn = ledger.withdrawn
  BY <1>1 DEF CardTypes
<1>4. CardTypes'
  <2>1. ledger.given + n \in 0 .. MaxGiven
    BY <1>1, <1>2
  <2>2. ledger' \in [given: 0 .. MaxGiven, exchanged: Nat, withdrawn: Nat]
    BY <1>1, <2>1 DEF CardTypes
  <2> QED
    BY <1>1, <2>2 DEF CardTypes
<1>5. Cards!Sum(card)' = Cards!Sum(card) + (ledger'.given - ledger.given)
  <2>1. PICK g \in Nat, gg \in Nat : g = ledger.given /\ gg = ledger'.given /\ gg - g = n
    BY <1>2, <1>3
  <2> QED
    BY <1>1, <2>1, LedgerOf
<1>6. ledger'.given > ledger.given
  BY <1>2, <1>3
<1>7. Cards!Ledger!Give
  BY <1>3, <1>5, <1>6 DEF Cards!Ledger!Give
<1> QED
  BY <1>4, <1>7 DEF LedgerStep, Cards!Ledger!Next

LEMMA RedeemsExchange ==
  ASSUME Cards!LoyaltyCardsAssumption, CardTypes, x_stamps \in Settings, Cards!Redeems
  PROVE  LedgerStep
<1>1. PICK n \in 0 .. Stamps(card) :
        /\ card' \in Seq(1 .. MaxGiven)
        /\ Stamps(card') = Stamps(card) - n
        /\ ledger' = [ledger EXCEPT !.exchanged = @ + n]
  BY CardRedeemed DEF CardTypes
<1>2. /\ Cards!Sum(card) = Stamps(card) /\ Stamps(card) \in Nat
      /\ Cards!Sum(card)' = Stamps(card') /\ Stamps(card') \in Nat
  BY <1>1, LedgerOf
<1>3. /\ ledger'.exchanged = ledger.exchanged + n /\ ledger.exchanged \in Nat
      /\ ledger'.given = ledger.given /\ ledger'.withdrawn = ledger.withdrawn
  BY <1>1 DEF CardTypes
<1>4. CardTypes'
  BY <1>1, <1>2 DEF CardTypes
<1>5. CASE n = 0
  BY <1>1, <1>2, <1>3, <1>4, <1>5 DEF LedgerStep
<1>6. CASE n # 0
  <2>1. n \in 1 .. Cards!Sum(card)
    BY <1>2, <1>6
  <2>2. Cards!Sum(card)' = Cards!Sum(card) - n
    BY <1>1, <1>2
  <2>3. Cards!Ledger!Exchange
    BY <1>3, <2>1, <2>2 DEF Cards!Ledger!Exchange
  <2> QED
    BY <1>4, <2>3 DEF LedgerStep, Cards!Ledger!Next
<1> QED
  BY <1>5, <1>6

LEMMA DeletesWithdraw ==
  ASSUME Cards!LoyaltyCardsAssumption, CardTypes, NEW i \in DOMAIN card, Cards!delete_visit(i)
  PROVE  LedgerStep
<1>1. PICK n \in Nat \ {0} :
        /\ card' \in Seq(1 .. MaxGiven)
        /\ Stamps(card) = Stamps(card') + n /\ Stamps(card') \in Nat
        /\ ledger' = [ledger EXCEPT !.withdrawn = @ + n]
  BY CardDeletes
<1>2. /\ Cards!Sum(card) = Stamps(card) /\ Stamps(card) \in Nat
      /\ Cards!Sum(card)' = Stamps(card')
  BY <1>1, LedgerOf
<1>3. /\ ledger'.withdrawn = ledger.withdrawn + n
      /\ ledger'.given = ledger.given /\ ledger'.exchanged = ledger.exchanged
  BY <1>1 DEF CardTypes
<1>4. CardTypes'
  BY <1>1 DEF CardTypes
<1>5. n \in 1 .. Cards!Sum(card) /\ Cards!Sum(card)' = Cards!Sum(card) - n
  BY <1>1, <1>2
<1>6. Cards!Ledger!Withdraw
  BY <1>3, <1>5 DEF Cards!Ledger!Withdraw
<1> QED
  BY <1>4, <1>6 DEF LedgerStep, Cards!Ledger!Next

LEMMA CardsLedgerStep ==
  ASSUME Cards!LoyaltyCardsAssumption, CardTypes, x_stamps \in Settings,
         [Cards!Next]_Cards!vars
  PROVE  LedgerStep
<1>1. CASE Cards!Adds
  BY <1>1, AddsGive
<1>2. CASE Cards!Redeems
  BY <1>2, RedeemsExchange
<1>3. CASE UNCHANGED <<card, ledger>>
  <2>1. CardTypes'
    BY <1>3 DEF CardTypes
  <2>2. Cards!Sum(card)' = Cards!Sum(card)
    BY <1>3 DEF Cards!Sum
  <2> QED
    BY <1>3, <2>1, <2>2 DEF LedgerStep
<1>4. CASE Cards!Next
  <2>1. CASE Cards!solution_loyalty_put \/ Cards!solution_loyalty_redeem
             \/ Cards!solution_loyalty_scan
    BY <1>1, <1>2, <1>3, <2>1
       DEF Cards!solution_loyalty_put, Cards!solution_loyalty_redeem, Cards!solution_loyalty_scan
  <2>2. CASE \E i \in DOMAIN card : Cards!delete_visit(i)
    BY <2>2, DeletesWithdraw
  <2>3. CASE \E new \in Settings : Cards!put_loyalty_settings(new)
    BY <1>3, <2>3 DEF Cards!put_loyalty_settings
  <2>4. ASSUME NEW r \in Requests,
               \/ \E op \in {"add", "redeem"} : Cards!get_scan(r, op)
               \/ Cards!put_scan(r) \/ Cards!Dies(r)
        PROVE  LedgerStep
    BY <1>3, <2>4 DEF Cards!get_scan, Cards!put_scan, Cards!Dies
  <2>5. ASSUME NEW r \in Requests, Cards!add_loyalty_scan(r) \/ Cards!redeem_loyalty_scan(r)
        PROVE  LedgerStep
    BY <1>1, <1>2, <2>5 DEF Cards!add_loyalty_scan, Cards!redeem_loyalty_scan
  <2> QED
    BY <1>4, <2>1, <2>2, <2>3, <2>4, <2>5 DEF Cards!Next
<1> QED
  BY <1>3, <1>4 DEF Cards!vars

-----------------------------------------------------------------------------
(* What is noted of a scan when it is handled.                             *)
Note == [times: Nat, raced: BOOLEAN]

LEMMA NoteChanges ==
  ASSUME NEW s \in Seq(Note), NEW m \in 1 .. Len(s), NEW e \in Note
  PROVE  LET t == [s EXCEPT ![m] = e] IN
           /\ t \in Seq(Note) /\ Len(t) = Len(s)
           /\ t[m] = e
           /\ \A n \in 1 .. Len(s) : n # m => t[n] = s[n]
  BY ExceptSeq

(* Only these steps are about the scans.                                   *)
LEMMA ScansStay ==
  ASSUME CardsInv, UNCHANGED <<scan, scanning, handled>>
  PROVE  IdsFit' /\ ScansInv'
<1>1. \A n : Handling(n)' = Handling(n)
  BY DEF Handling
<1>2. \A n : OneHandler(n)' <=> OneHandler(n)
  BY <1>1 DEF OneHandler
<1> QED
  BY <1>2 DEF CardsInv, IdsFit, ScansInv

LEMMA ScanIsNew ==
  ASSUME CardsInv, Cards!solution_loyalty_scan
  PROVE  /\ scan' \in Cards!Scan /\ handled' \in Seq(Note)
         /\ IdsFit' /\ ScansInv'
<1>0. handled \in Seq(Note) /\ MaxScans \in Nat /\ Len(handled) \in Nat
  BY DEF CardsInv, Cards!TypeOK, Note, Cards!LoyaltyCardsAssumption
<1> DEFINE new == [times |-> 0, raced |-> FALSE]
           L == Len(handled)
<1>1. /\ handled' = Append(handled, new) /\ new \in Note
      /\ scan' = [id |-> Len(handled'), processed |-> FALSE]
      /\ scanning' = scanning /\ L < MaxScans
  BY DEF Cards!solution_loyalty_scan, Note
<1>2. /\ handled' \in Seq(Note) /\ Len(handled') = L + 1
      /\ \A n \in 1 .. L : handled'[n] = handled[n]
      /\ handled'[L + 1] = new
  <2> HIDE DEF new
  <2> QED
    BY <1>0, <1>1, AppendProperties
<1>3. scan' \in Cards!Scan /\ scan'.id = L + 1
  BY <1>0, <1>1, <1>2 DEF Cards!Scan
<1>4. IdsFit'
  BY <1>0, <1>1, <1>2, <1>3 DEF CardsInv, IdsFit
<1>5. \A n : Handling(n)' = Handling(n)
  BY <1>1 DEF Handling
<1>6. ASSUME NEW n \in 1 .. L + 1, ~handled'[n].raced
      PROVE  OneHandler(n)'
  <2>1. CASE n = L + 1
    <3>1. Handling(n) = {}
      BY <1>0, <2>1 DEF CardsInv, IdsFit, Handling
    <3>2. handled'[n].times = 0
      BY <1>2, <2>1
    <3> QED
      BY <1>5, <3>1, <3>2 DEF OneHandler
  <2>2. CASE n # L + 1
    <3>1. n \in 1 .. L /\ handled'[n] = handled[n]
      BY <1>0, <1>2, <2>2
    <3>2. OneHandler(n)
      BY <1>6, <3>1 DEF CardsInv, ScansInv
    <3>3. scan'.id # n
      BY <1>3, <2>2
    <3> QED
      BY <1>1, <1>5, <3>1, <3>2, <3>3 DEF OneHandler
  <2> QED
    BY <2>1, <2>2
<1>7. ScansInv'
  BY <1>2, <1>6 DEF ScansInv
<1> QED
  BY <1>2, <1>3, <1>4, <1>7

LEMMA ScanIsFound ==
  ASSUME CardsInv, NEW r \in Requests, NEW op \in {"add", "redeem"}, Cards!get_scan(r, op)
  PROVE  /\ handled' \in Seq(Note)
         /\ scanning' \in [Requests -> [op: {"idle", "add", "redeem", "put"}, copy: Cards!Scan]]
         /\ IdsFit' /\ ScansInv'
<1> DEFINE m == scan.id
           other == \E q \in Requests : scanning[q].op # "idle" /\ scanning[q].copy.id = m
           e == [handled[m] EXCEPT !.raced = @ \/ other]
<1>0. /\ handled \in Seq(Note) /\ Len(handled) \in Nat /\ scan \in Cards!Scan
      /\ scanning \in [Requests -> [op: {"idle", "add", "redeem", "put"}, copy: Cards!Scan]]
  BY DEF CardsInv, Cards!TypeOK, Note
<1>1. /\ scanning[r].op = "idle" /\ m \in 1 .. Len(handled)
      /\ scanning' = [scanning EXCEPT ![r] = [op |-> op, copy |-> scan]]
      /\ handled' = [handled EXCEPT ![m] = e] /\ scan' = scan
  BY <1>0 DEF Cards!get_scan, Cards!MayBeHandled, Cards!Scan, CardsInv, IdsFit
<1>2. handled[m] \in Note
  BY <1>0, <1>1, ElementOfSeq
<1>3. /\ e \in Note /\ e.times = handled[m].times
      /\ e.raced <=> handled[m].raced \/ other
  <2> HIDE DEF other
  <2> QED
    BY <1>2 DEF Note
<1> HIDE DEF e
<1>4. /\ handled' \in Seq(Note) /\ Len(handled') = Len(handled)
      /\ handled'[m] = e
      /\ \A n \in 1 .. Len(handled) : n # m => handled'[n] = handled[n]
  BY <1>0, <1>1, <1>3, NoteChanges
<1>5. /\ scanning' \in [Requests -> [op: {"idle", "add", "redeem", "put"}, copy: Cards!Scan]]
      /\ scanning'[r] = [op |-> op, copy |-> scan]
      /\ \A q \in Requests : q # r => scanning'[q] = scanning[q]
  BY <1>0, <1>1
<1>6. IdsFit'
  BY <1>1, <1>4, <1>5 DEF CardsInv, IdsFit
<1>7. ASSUME NEW n \in 1 .. Len(handled), ~handled'[n].raced
      PROVE  OneHandler(n)'
  <2>1. CASE n = m
    <3>1. ~handled[n].raced /\ Handling(n) = {}
      BY <1>3, <1>4, <1>7, <2>1 DEF Handling
    <3>2. OneHandler(n) /\ ~scan.processed /\ handled[n].times \in Nat
      BY <1>2, <2>1, <3>1
         DEF CardsInv, ScansInv, Cards!get_scan, Cards!MayBeHandled, Note
    <3>3. handled[n].times = 0
      BY <2>1, <3>1, <3>2 DEF OneHandler
    <3>4. Handling(n)' \subseteq {r} /\ handled'[n].times = 0
      BY <1>3, <1>4, <1>5, <2>1, <3>1, <3>3 DEF Handling
    <3> QED
      BY <3>4 DEF OneHandler
  <2>2. CASE n # m
    <3>1. handled'[n] = handled[n] /\ OneHandler(n)
      BY <1>4, <1>7, <2>2 DEF CardsInv, ScansInv
    <3>2. Handling(n)' = Handling(n) /\ r \notin Handling(n)
      BY <1>1, <1>5, <2>2 DEF Handling
    <3>3. \A q \in Handling(n) : scanning'[q] = scanning[q]
      BY <1>5, <3>2 DEF Handling
    <3> QED
      BY <1>1, <2>2, <3>1, <3>2, <3>3 DEF OneHandler
  <2> QED
    BY <2>1, <2>2
<1> QED
  BY <1>4, <1>5, <1>6, <1>7 DEF ScansInv

Handlers == [Requests -> [op: {"idle", "add", "redeem", "put"}, copy: Cards!Scan]]

LEMMA ScanIsHandled ==
  ASSUME CardsInv, NEW r \in Requests, NEW op \in {"add", "redeem"}, Cards!Handles(r, op)
  PROVE  /\ handled' \in Seq(Note) /\ scanning' \in Handlers
         /\ IdsFit' /\ ScansInv'
<1> DEFINE m == scanning[r].copy.id
           e == [handled[m] EXCEPT !.times = @ + 1]
<1>0. handled \in Seq(Note) /\ Len(handled) \in Nat /\ scanning \in Handlers
  BY DEF CardsInv, Cards!TypeOK, Note, Handlers
<1>1. /\ scanning[r].op = op /\ m \in 1 .. Len(handled)
      /\ scanning' = [scanning EXCEPT ![r].op = "put"]
      /\ handled' = [handled EXCEPT ![m] = e] /\ scan' = scan
  BY DEF Cards!Handles, CardsInv, IdsFit
<1>2. handled[m] \in Note
  BY <1>0, <1>1, ElementOfSeq
<1>3. e \in Note /\ e.times = handled[m].times + 1 /\ e.raced = handled[m].raced
  BY <1>2 DEF Note
<1> HIDE DEF e
<1>4. /\ handled' \in Seq(Note) /\ Len(handled') = Len(handled)
      /\ handled'[m] = e
      /\ \A n \in 1 .. Len(handled) : n # m => handled'[n] = handled[n]
  BY <1>0, <1>1, <1>3, NoteChanges
<1>5. /\ scanning' \in Handlers
      /\ scanning'[r].op = "put" /\ scanning'[r].copy = scanning[r].copy
      /\ \A q \in Requests : q # r => scanning'[q] = scanning[q]
  BY <1>0, <1>1 DEF Handlers
<1>6. IdsFit'
  BY <1>1, <1>4, <1>5 DEF CardsInv, IdsFit
<1>7. \A n : Handling(n)' = Handling(n)
  BY <1>1, <1>5 DEF Handling
<1>8. r \in Handling(m)
  BY <1>1 DEF Handling
<1>9. ASSUME NEW n \in 1 .. Len(handled), ~handled'[n].raced
      PROVE  OneHandler(n)'
  <2>1. CASE n = m
    <3>1. OneHandler(n)
      BY <1>3, <1>4, <1>9, <2>1 DEF CardsInv, ScansInv
    <3>2. \A q \in Handling(n) : q = r
      BY <1>8, <2>1, <3>1 DEF OneHandler
    <3>3. handled[n].times = 0
      BY <1>1, <1>8, <2>1, <3>1 DEF OneHandler
    <3>4. handled'[n].times = 1
      BY <1>3, <1>4, <2>1, <3>3
    <3> QED
      BY <1>5, <1>7, <1>8, <2>1, <3>2, <3>4 DEF OneHandler
  <2>2. CASE n # m
    <3>1. handled'[n] = handled[n] /\ OneHandler(n)
      BY <1>4, <1>9, <2>2 DEF CardsInv, ScansInv
    <3>2. \A q \in Handling(n) : scanning'[q] = scanning[q]
      BY <1>5, <2>2 DEF Handling
    <3> QED
      BY <1>1, <1>7, <3>1, <3>2 DEF OneHandler
  <2> QED
    BY <2>1, <2>2
<1> QED
  BY <1>4, <1>5, <1>6, <1>9 DEF ScansInv

LEMMA ScanIsPut ==
  ASSUME CardsInv, NEW r \in Requests, Cards!put_scan(r)
  PROVE  /\ scan' \in Cards!Scan /\ scanning' \in Handlers
         /\ IdsFit' /\ ScansInv'
<1>0. scanning \in Handlers /\ Cards!Idle \in [op: {"idle"}, copy: Cards!Scan]
  BY DEF CardsInv, Cards!TypeOK, Handlers, Cards!Idle, Cards!Scan, Cards!LoyaltyCardsAssumption
<1>1. /\ scanning[r].op = "put" /\ scanning[r].copy \in Cards!Scan
      /\ scanning[r].copy.id \in 1 .. Len(handled)
      /\ scan' = [scanning[r].copy EXCEPT !.processed = TRUE]
      /\ scanning' = [scanning EXCEPT ![r] = Cards!Idle] /\ handled' = handled
  BY <1>0 DEF Cards!put_scan, CardsInv, IdsFit, Handlers
<1>2. scan' \in Cards!Scan /\ scan'.id = scanning[r].copy.id /\ scan'.processed
  BY <1>1 DEF Cards!Scan
<1>3. /\ scanning' \in Handlers /\ scanning'[r].op = "idle"
      /\ \A q \in Requests : q # r => scanning'[q] = scanning[q]
  BY <1>0, <1>1 DEF Handlers
<1>4. IdsFit'
  BY <1>1, <1>2, <1>3 DEF CardsInv, IdsFit
<1>5. ASSUME NEW n \in 1 .. Len(handled), ~handled[n].raced
      PROVE  OneHandler(n)'
  <2>1. OneHandler(n)
    BY <1>5 DEF CardsInv, ScansInv
  <2>2. /\ Handling(n)' \subseteq Handling(n)
        /\ \A q \in Handling(n)' : scanning'[q] = scanning[q]
    BY <1>3 DEF Handling
  <2> QED
    BY <1>1, <1>2, <2>1, <2>2 DEF OneHandler
<1> QED
  BY <1>1, <1>2, <1>3, <1>4, <1>5 DEF ScansInv

LEMMA HandlerDies ==
  ASSUME CardsInv, NEW r \in Requests, Cards!Dies(r)
  PROVE  /\ handled' \in Seq(Note) /\ scanning' \in Handlers
         /\ IdsFit' /\ ScansInv'
<1> DEFINE m == scanning[r].copy.id
           e == [handled[m] EXCEPT !.raced = TRUE]
<1>0. /\ handled \in Seq(Note) /\ Len(handled) \in Nat /\ scanning \in Handlers
      /\ Cards!Idle \in [op: {"idle"}, copy: Cards!Scan]
  BY DEF CardsInv, Cards!TypeOK, Note, Handlers, Cards!Idle, Cards!Scan,
         Cards!LoyaltyCardsAssumption
<1>1. /\ scanning[r].op # "idle" /\ m \in 1 .. Len(handled)
      /\ scanning' = [scanning EXCEPT ![r] = Cards!Idle]
      /\ handled' = [handled EXCEPT ![m] = e] /\ scan' = scan
  BY DEF Cards!Dies, CardsInv, IdsFit
<1>2. handled[m] \in Note
  BY <1>0, <1>1, ElementOfSeq
<1>3. e \in Note /\ e.raced
  BY <1>2 DEF Note
<1> HIDE DEF e
<1>4. /\ handled' \in Seq(Note) /\ Len(handled') = Len(handled)
      /\ handled'[m] = e
      /\ \A n \in 1 .. Len(handled) : n # m => handled'[n] = handled[n]
  BY <1>0, <1>1, <1>3, NoteChanges
<1>5. /\ scanning' \in Handlers /\ scanning'[r].op = "idle"
      /\ \A q \in Requests : q # r => scanning'[q] = scanning[q]
  BY <1>0, <1>1 DEF Handlers
<1>6. IdsFit'
  BY <1>1, <1>4, <1>5 DEF CardsInv, IdsFit
<1>7. ASSUME NEW n \in 1 .. Len(handled), ~handled'[n].raced
      PROVE  OneHandler(n)'
  <2>1. n # m /\ handled'[n] = handled[n] /\ OneHandler(n)
    BY <1>3, <1>4, <1>7 DEF CardsInv, ScansInv
  <2>2. /\ Handling(n)' = Handling(n)
        /\ \A q \in Handling(n) : scanning'[q] = scanning[q]
    BY <1>5, <2>1 DEF Handling
  <2> QED
    BY <1>1, <2>1, <2>2 DEF OneHandler
<1> QED
  BY <1>4, <1>5, <1>6, <1>7 DEF ScansInv

ScansTyped ==
  /\ loyalty_type \in {"discount", "stamps"} /\ x_stamps \in Settings
  /\ scan \in Cards!Scan /\ scanning \in Handlers /\ handled \in Seq(Note)

LEMMA CardsTyped == Cards!TypeOK <=> CardTypes /\ ScansTyped
  BY DEF Cards!TypeOK, CardTypes, ScansTyped, Handlers, Note

LEMMA CardsScansStep ==
  ASSUME CardsInv, [Cards!Next]_Cards!vars
  PROVE  ScansTyped' /\ IdsFit' /\ ScansInv'
<1>0. ScansTyped
  BY CardsTyped DEF CardsInv
<1>1. CASE /\ UNCHANGED <<loyalty_type, scan, scanning, handled>>
           /\ x_stamps' = x_stamps \/ x_stamps' \in Settings
  <2>1. ScansTyped'
    BY <1>0, <1>1 DEF ScansTyped
  <2>2. IdsFit' /\ ScansInv'
    BY <1>1, ScansStay
  <2> QED
    BY <2>1, <2>2
<1>2. CASE Cards!Next
  <2>1. CASE \/ Cards!solution_loyalty_put \/ Cards!solution_loyalty_redeem
             \/ \E i \in DOMAIN card : Cards!delete_visit(i)
             \/ \E new \in Settings : Cards!put_loyalty_settings(new)
    BY <1>1, <2>1 DEF Cards!solution_loyalty_put, Cards!solution_loyalty_redeem,
                      Cards!delete_visit, Cards!put_loyalty_settings
  <2>2. CASE Cards!solution_loyalty_scan
    <3>1. scan' \in Cards!Scan /\ handled' \in Seq(Note) /\ IdsFit' /\ ScansInv'
      BY <2>2, ScanIsNew
    <3> QED
      BY <1>0, <2>2, <3>1 DEF Cards!solution_loyalty_scan, ScansTyped
  <2>3. ASSUME NEW r \in Requests, NEW op \in {"add", "redeem"}, Cards!get_scan(r, op)
        PROVE  ScansTyped' /\ IdsFit' /\ ScansInv'
    <3>1. handled' \in Seq(Note) /\ scanning' \in Handlers /\ IdsFit' /\ ScansInv'
      BY <2>3, ScanIsFound DEF Handlers
    <3> QED
      BY <1>0, <2>3, <3>1 DEF Cards!get_scan, ScansTyped
  <2>4. ASSUME NEW r \in Requests, NEW op \in {"add", "redeem"}, Cards!Handles(r, op)
        PROVE  ScansTyped' /\ IdsFit' /\ ScansInv'
    <3>1. handled' \in Seq(Note) /\ scanning' \in Handlers /\ IdsFit' /\ ScansInv'
      BY <2>4, ScanIsHandled
    <3> QED
      BY <1>0, <2>4, <3>1 DEF Cards!Handles, ScansTyped
  <2>5. ASSUME NEW r \in Requests, Cards!put_scan(r)
        PROVE  ScansTyped' /\ IdsFit' /\ ScansInv'
    <3>1. scan' \in Cards!Scan /\ scanning' \in Handlers /\ IdsFit' /\ ScansInv'
      BY <2>5, ScanIsPut
    <3> QED
      BY <1>0, <2>5, <3>1 DEF Cards!put_scan, ScansTyped
  <2>6. ASSUME NEW r \in Requests, Cards!Dies(r)
        PROVE  ScansTyped' /\ IdsFit' /\ ScansInv'
    <3>1. handled' \in Seq(Note) /\ scanning' \in Handlers /\ IdsFit' /\ ScansInv'
      BY <2>6, HandlerDies
    <3> QED
      BY <1>0, <2>6, <3>1 DEF Cards!Dies, ScansTyped
  <2> QED
    BY <1>2, <2>1, <2>2, <2>3, <2>4, <2>5, <2>6
       DEF Cards!Next, Cards!add_loyalty_scan, Cards!redeem_loyalty_scan
<1> QED
  BY <1>1, <1>2 DEF Cards!vars

LEMMA CardsNextInv == CardsInv /\ [Cards!Next]_Cards!vars => CardsInv' /\ LedgerStep
<1> SUFFICES ASSUME CardsInv, [Cards!Next]_Cards!vars PROVE CardsInv' /\ LedgerStep
  OBVIOUS
<1>1. Cards!LoyaltyCardsAssumption /\ CardTypes /\ x_stamps \in Settings
  BY CardsTyped DEF CardsInv, ScansTyped
<1>2. LedgerStep
  BY <1>1, CardsLedgerStep
<1>3. ScansTyped' /\ IdsFit' /\ ScansInv'
  BY CardsScansStep
<1>4. Cards!TypeOK' <=> CardTypes' /\ ScansTyped'
  BY DEF Cards!TypeOK, CardTypes, ScansTyped, Handlers, Note
<1>5. Cards!TypeOK'
  BY <1>2, <1>3, <1>4 DEF LedgerStep
<1> QED
  BY <1>1, <1>2, <1>3, <1>5 DEF CardsInv, Cards!LoyaltyCardsAssumption

(* What is stored of a card has its types, whatever is redeemed of it: a    *)
(* visit that is split leaves at least one stamp, redeem_visits.            *)
THEOREM CardTypeCorrect == Cards!Spec => []Cards!TypeOK
<1>1. CardsInv => Cards!TypeOK
  BY DEF CardsInv
<1> QED
  BY <1>1, CardsInitInv, CardsNextInv, PTL DEF Cards!Spec

(* "Scan was already processed": a scan is handled once, though a newer one *)
(* takes its place at any time, unless two requests found it at once or one *)
(* died before it could put it.                                             *)
THEOREM ScansAreHandledOnce ==
  Cards!Spec => []Cards!HandledOnce
<1>1. CardsInv => Cards!HandledOnce
  <2> SUFFICES ASSUME CardsInv, NEW n \in DOMAIN handled, ~handled[n].raced
               PROVE  ~(handled[n].times > 1)
    BY DEF Cards!HandledOnce
  <2>1. handled \in Seq(Note)
    BY DEF CardsInv, Cards!TypeOK, Note
  <2>2. n \in 1 .. Len(handled) /\ handled[n].times \in Nat
    <3>1. n \in 1 .. Len(handled)
      BY <2>1
    <3>2. handled[n] \in Note
      BY <2>1, <3>1, ElementOfSeq
    <3> QED
      BY <3>1, <3>2 DEF Note
  <2>3. handled[n].times <= 1
    BY <2>2 DEF CardsInv, ScansInv, OneHandler
  <2> QED
    BY <2>2, <2>3
<1> QED
  BY <1>1, CardsInitInv, CardsNextInv, PTL DEF Cards!Spec

(* Each stamp that was given is exchanged once, taken back or still on the  *)
(* card: redeem_visits, delete_visit and the settings of the shop keep what *)
(* the ledger of stamps promises.                                           *)
THEOREM StampsAreExchangedOnce ==
  Cards!Spec => Cards!ImplementsStampLedger
<1>1. Cards!Init => Cards!Ledger!Init
  <2> SUFFICES ASSUME Cards!Init PROVE Cards!Ledger!Init
    OBVIOUS
  <2>1. card = <<>> /\ card \in Seq(Nat) /\ 1 .. Len(card) = {}
    BY DEF Cards!Init
  <2>2. Cards!Sum(card) = 0
    BY <2>1, CardSum, SumOfNone DEF Stamps
  <2> QED
    BY <2>2 DEF Cards!Init, Cards!Ledger!Init
<1>2. LedgerStep => [Cards!Ledger!Next]_<<ledger.given, ledger.exchanged, ledger.withdrawn,
                                          Cards!Sum(card)>>
  BY DEF LedgerStep
<1> QED
  BY <1>1, <1>2, CardsInitInv, CardsNextInv, PTL
     DEF Cards!Spec, Cards!ImplementsStampLedger, Cards!Ledger!Spec

-----------------------------------------------------------------------------
(* What MCPublishing composes: a step of it is one of each of the three, or *)
(* leaves it as it is.                                                     *)
LEMMA EachOfTheThree == PublishingSpec => SpecWithMigration /\ Pub!Spec /\ Cards!Spec
<1>1. PublishingInit => Init /\ Pub!Init /\ Cards!Init
  BY DEF PublishingInit
<1>2. [PublishingNext]_<<component, vars, publishing_vars, card_vars>>
        => [NextWithMigration]_vars /\ [Pub!Next]_Pub!vars /\ [Cards!Next]_Cards!vars
  <2>1. /\ UNCHANGED publishing_vars <=> UNCHANGED Pub!vars
        /\ UNCHANGED card_vars <=> UNCHANGED Cards!vars
    BY DEF publishing_vars, Pub!vars, card_vars, Cards!vars
  <2>2. PublishingNext =>
          [NextWithMigration]_vars /\ [Pub!Next]_Pub!vars /\ [Cards!Next]_Cards!vars
    BY <2>1 DEF PublishingNext, NextWithMigration
  <2>3. UNCHANGED <<component, vars, publishing_vars, card_vars>>
          => UNCHANGED vars /\ UNCHANGED Pub!vars /\ UNCHANGED Cards!vars
    BY <2>1
  <2> QED
    BY <2>2, <2>3
<1> QED
  BY <1>1, <1>2, PTL DEF PublishingSpec, SpecWithMigration, Pub!Spec, Cards!Spec

(* When tasks are not interrupted, a voucher shows what its ledger holds,   *)
(* whatever the merchants and the migration do.                             *)
THEOREM BalancesStayMatched == PublishingSpec => []BalancesMatch
<1> DEFINE Inv == component = "tasks_at_once" => BInv
<1>1. PublishingInit => Inv
  BY InitBInv DEF PublishingInit
<1>2. Inv /\ [PublishingNext]_<<component, vars, publishing_vars, card_vars>> => Inv'
  <2> SUFFICES ASSUME Inv, component' = "tasks_at_once",
                      [PublishingNext]_<<component, vars, publishing_vars, card_vars>>
               PROVE  BInv'
    OBVIOUS
  <2>1. component = "tasks_at_once" /\ [NextWithMigration /\ TasksAtOnce]_vars
    BY DEF PublishingNext
  <2> QED
    BY <2>1, NextBInv
<1>3. Inv => BalancesMatch
  BY DEF BInv, AllBalanced, Balanced, BalanceMatchesLedger, BalancesMatch
<1> QED
  BY <1>1, <1>2, <1>3, PTL DEF PublishingSpec

(* Whoever saves, publishes and buys at once, the settings have their       *)
(* types, the app shows what is stored and each user what he bought.       *)
THEOREM PublishingStaysSafe == PublishingSpec => []PublishingIsSafe
<1>1. Pub!TypeOK /\ Pub!AppShowsWhatIsStored /\ Pub!UserDataIsBought => PublishingIsSafe
  BY DEF PublishingIsSafe
<1> QED
  BY <1>1, EachOfTheThree, PublishingTypes, AppShowsTheStored, UsersSeeWhatTheyBought, PTL

(* A scan of a card is handled once, whoever of the requests is late.       *)
THEOREM EachScanIsHandledOnce == PublishingSpec => []HandledOnce
<1>1. Cards!TypeOK /\ Cards!HandledOnce => HandledOnce
  BY DEF HandledOnce
<1> QED
  BY <1>1, EachOfTheThree, CardTypeCorrect, ScansAreHandledOnce, PTL

(* A card promises what the ledger of stamps promises.                      *)
THEOREM EveryStampIsExchangedOnce == PublishingSpec => ImplementsStampLedger
  BY EachOfTheThree, StampsAreExchangedOnce, PTL DEF ImplementsStampLedger
=============================================================================
