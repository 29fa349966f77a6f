----------------------------- MODULE MCPublishing -----------------------------
(***************************************************************************)
(* CityVouchers for TLC, next to Publishing and LoyaltyCards.  They share  *)
(* nothing: in one behaviour only the component it started with moves.  As  *)
(* "tasks_at_once" CityVouchers does so with the migration, but with tasks *)
(* that nothing happens in between of.                                     *)
(***************************************************************************)
EXTENDS CityVouchers, TLC

CONSTANTS
  Requests,                                                \* of Publishing and LoyaltyCards
  Names, Holidays, Modules, NoPreferredPage, Purchases, Users, Units, max_units_pp, MaxBought,
                                                           \* of Publishing
  Settings, Counts, MaxGiven, MaxScans, MaxTimes           \* of LoyaltyCards

VARIABLES
  component,  \* the one that moves
  settings, purchase, bought, menu, app_data, user_data, request, lost,
  loyalty_type, x_stamps, card, scan, scanning, ledger, handled

Pub == INSTANCE Publishing

Cards == INSTANCE LoyaltyCards WITH
  x <- x_stamps, visits <- card, request <- scanning

ASSUME PublishingConstants == Pub!PublishingAssumption
ASSUME CardsConstants == Cards!LoyaltyCardsAssumption

-----------------------------------------------------------------------------
publishing_vars == <<settings, purchase, bought, menu, app_data, user_data, request, lost>>
card_vars == <<loyalty_type, x_stamps, card, scan, scanning, ledger, handled>>

(* The settings of a card that does not move do not matter.                *)
PublishingInit ==
  /\ component \in {"vouchers", "tasks_at_once", "publishing", "cards"}
  /\ Init /\ Pub!Init /\ Cards!Init
  /\ component # "cards" => loyalty_type = "stamps" /\ x_stamps = CHOOSE x \in Settings : TRUE

PublishingNext ==
  \/ component = "vouchers" /\ Next /\ UNCHANGED <<component, publishing_vars, card_vars>>
  \/ /\ component = "tasks_at_once" /\ NextWithMigration /\ TasksAtOnce
     /\ UNCHANGED <<component, publishing_vars, card_vars>>
  \/ component = "publishing" /\ Pub!Next /\ UNCHANGED <<component, vars, card_vars>>
  \/ component = "cards" /\ Cards!Next /\ UNCHANGED <<component, vars, publishing_vars>>

PublishingSpec ==
  PublishingInit /\ [][PublishingNext]_<<component, vars, publishing_vars, card_vars>>

(* Bounds: at most one thing has gone wrong since the last publication, and *)
(* group purchases are published with neither holidays nor modules.        *)
FewAtOnce ==
  /\ Cardinality(lost) <= 1
  /\ (\E g \in Purchases : purchase[g].exists)
       => settings.holidays \cup settings.modules_to_put \cup settings.modules \cup menu = {}

Symmetry == Permutations(Requests)

-----------------------------------------------------------------------------
(* A voucher shows what its ledger holds when no task puts back an old one. *)
BalancesMatch == component = "tasks_at_once" => BalanceMatchesLedger

(* Publishing: the app shows what is stored, and each user what he bought. *)
PublishingIsSafe == Pub!TypeOK /\ Pub!AppShowsWhatIsStored /\ Pub!UserDataIsBought

(* LoyaltyCards: each stamp is on the card until it is exchanged, once.    *)
ImplementsStampLedger == Cards!ImplementsStampLedger

(* LoyaltyCards: a scan is handled once.                                   *)
HandledOnce == Cards!TypeOK /\ Cards!HandledOnce
=============================================================================
