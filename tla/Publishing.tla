----------------------------- MODULE Publishing -----------------------------
(***************************************************************************)
(* The settings of a service, their publication to the app, and the group  *)
(* purchases that are published with them: solutions/common/bizz/settings, *)
(* holiday, group_purchase and provisioning, common_provision and          *)
(* enable_or_disable_solution_module of solutions/common/bizz/__init__,    *)
(* and provision of solutions/flex/bizz.                                   *)
(*                                                                         *)
(* The settings are one entity.  Some of the functions that change them do *)
(* so in a transaction; others put an entity that they read before, and    *)
(* the publication is one of those.  It deletes the menu items of modules  *)
(* that were disabled, puts the settings, puts the items of the modules    *)
(* that are left and what the app shows in the service data, and at its    *)
(* end takes back updates_pending.  The menu is not of the datastore: what *)
(* is done to it is done at once, item by item.                            *)
(***************************************************************************)
EXTENDS Integers, FiniteSets, Functions

CONSTANTS
  Requests,      \* the requests that may be in progress at once
  Names,         \* what settings can be, those that are saved with a form
  Holidays,
  Modules,       \* the modules that can be enabled and disabled
  NoPreferredPage, \* the modules that have no preferred page in the menu
  Purchases,     \* the group purchases
  Users,         \* those who buy
  Units,         \* the units that a group purchase can have
  max_units_pp,  \* how many a user may buy of each
  MaxBought      \* bound: the times that a user buys

(* Why the app may not show what is stored.  The menu is not what the      *)
(* settings have when a write was overwritten, when a publication disabled *)
(* a module whose item another one was still to put, or until the next one *)
(* when a publication ended before all items were put.                     *)
Reasons ==
  {"overwritten", "overlapped", "unfinished", "missed", "overtaken", "failed", "deleted"}

PublishingAssumption ==
  /\ Names # {} /\ NoPreferredPage \subseteq Modules /\ IsFiniteSet(Users) /\ Units \subseteq Nat \ {0}
  /\ max_units_pp \in Nat /\ MaxBought \in Nat
  /\ Users \cap Reasons = {}

VARIABLES
  settings,   \* the SolutionSettings entity
  purchase,   \* the SolutionGroupPurchase entities
  bought,     \* the units in the subscriptions of each user
  menu,       \* external: the modules in the menu of the app
  app_data,   \* external: the service data, what the app shows
  user_data,  \* external: the units the app tells each user he has
  request,    \* the requests and what they have read
  lost        \* not in the code: why the app may not show what is stored

vars == <<settings, purchase, bought, menu, app_data, user_data, request, lost>>

-----------------------------------------------------------------------------
SolutionSettings ==
  [name: Names, holidays: SUBSET Holidays, updates_pending: BOOLEAN, modules: SUBSET Modules,
   modules_to_put: SUBSET Modules, modules_to_remove: SUBSET Modules,
   provisioned_modules: SUBSET Modules]

NewSettings ==
  [name |-> CHOOSE n \in Names : TRUE, holidays |-> {}, updates_pending |-> FALSE, modules |-> {},
   modules_to_put |-> {}, modules_to_remove |-> {}, provisioned_modules |-> {}]

Purchase == [exists: BOOLEAN, deleted: BOOLEAN, units: Units \cup {0}]

NoPurchase == [exists |-> FALSE, deleted |-> FALSE, units |-> 0]

Idle == [op |-> "idle"]

Sold(g) == SumFunctionOnSet(bought[g], Users)

units_available(g) == purchase[g].units - Sold(g)

(* create_app_data, with settings that were read before.                   *)
AppData(s) ==
  [name |-> s.name, holidays |-> s.holidays, modules |-> s.modules,
   purchases |-> [g \in {p \in Purchases : purchase[p].exists /\ ~purchase[p].deleted} |->
                    units_available(g)]]

TypeOK ==
  /\ settings \in SolutionSettings
  /\ purchase \in [Purchases -> Purchase]
  /\ bought \in [Purchases -> [Users -> Nat]]
  /\ menu \subseteq Modules
  /\ user_data \in [Users -> [Purchases -> Nat]]
  /\ \A q \in Requests :
       request[q].op \in {"idle", "save", "modules", "delete", "menu", "compose", "put",
                          "finish", "get_user_data", "put_user_data"}
  /\ lost \subseteq Reasons \cup Users

Init ==
  /\ settings = NewSettings
  /\ purchase = [g \in Purchases |-> NoPurchase]
  /\ bought = [g \in Purchases |-> [u \in Users |-> 0]]
  /\ menu = {} /\ app_data = AppData(NewSettings)
  /\ user_data = [u \in Users |-> [g \in Purchases |-> 0]]
  /\ request = [q \in Requests |-> Idle]
  /\ lost = {}

-----------------------------------------------------------------------------
(* The purchase that is being published, if it is for one.                 *)
NoOne == [user |-> 0]

For(q) == IF "for" \in DOMAIN request[q] THEN request[q].for ELSE NoOne

Busy == {q \in Requests : request[q] # Idle}

(* A write outdates what the others have read.                             *)
Outdates(others) ==
  [q \in Requests |->
     IF q \in others /\ request[q].op \in {"save", "modules", "delete", "put", "finish"}
     THEN [request[q] EXCEPT !.outdated = TRUE] ELSE request[q]]

Writes == request' = Outdates(Requests)

WritesAs(q, r) == request' = [Outdates(Requests \ {q}) EXCEPT ![q] = r]

Asks(q, r) == request[q] = Idle /\ request' = [request EXCEPT ![q] = r]

Loses(reasons) == lost' = lost \cup reasons

-----------------------------------------------------------------------------
(* Changing the settings in a transaction: holidays.                       *)

add_holiday(h) ==
  /\ h \notin settings.holidays
  /\ settings' = [settings EXCEPT !.holidays = @ \cup {h}, !.updates_pending = TRUE]
  /\ Writes
  /\ UNCHANGED <<purchase, bought, menu, app_data, user_data, lost>>

delete_holiday(h) ==
  /\ h \in settings.holidays
  /\ settings' = [settings EXCEPT !.holidays = @ \ {h}, !.updates_pending = TRUE]
  /\ Writes
  /\ UNCHANGED <<purchase, bought, menu, app_data, user_data, lost>>

(* And outside of one: the form, whose address is looked up in between, and *)
(* the modules.                                                            *)

WithModule(s, m) ==
  [s EXCEPT !.modules_to_put = @ \cup {m}, !.modules_to_remove = @ \ {m}]

WithoutModule(s, m) ==
  [s EXCEPT !.modules_to_put = @ \ {m}, !.modules_to_remove = @ \cup {m}]

AsksSave(q, s) ==
  /\ Asks(q, [op |-> "save", settings |-> s, outdated |-> FALSE])
  /\ UNCHANGED <<settings, purchase, bought, menu, app_data, user_data, lost>>

ask_save_settings(q, n) == AsksSave(q, [settings EXCEPT !.name = n])

enable_or_disable_solution_module(q, m) ==
  AsksSave(q, WithModule(settings, m)) \/ AsksSave(q, WithoutModule(settings, m))

(* Mutant: nobody is told that there is something to publish.              *)
SavedInSilence(s) == s

Saved(s) == [s EXCEPT !.updates_pending = TRUE]

save_settings(q) ==
  /\ request[q].op = "save"
  /\ settings' = Saved(request[q].settings)
  /\ WritesAs(q, Idle)
  /\ Loses(IF request[q].outdated THEN {"overwritten"} ELSE {})
  /\ UNCHANGED <<purchase, bought, menu, app_data, user_data>>

-----------------------------------------------------------------------------
(* The group purchases.  A new one has its id; what is deleted stays in the *)
(* app until something else is published.                                  *)

save_group_purchase(g, n) ==
  /\ purchase[g] # [exists |-> TRUE, deleted |-> FALSE, units |-> n] /\ ~purchase[g].deleted
  /\ purchase' = [purchase EXCEPT ![g].exists = TRUE, ![g].units = n]
  /\ settings' = Saved(settings)
  /\ Writes
  /\ UNCHANGED <<bought, menu, app_data, user_data, lost>>

delete_group_purchase(g) ==
  /\ purchase[g].exists /\ ~purchase[g].deleted
  /\ purchase' = [purchase EXCEPT ![g].deleted = TRUE]
  /\ Writes
  /\ Loses({"deleted"})
  /\ UNCHANGED <<settings, bought, menu, app_data, user_data>>

MayBuy(u, g, n) ==
  /\ purchase[g].exists
  /\ max_units_pp # 0 => bought[g][u] + n <= max_units_pp
  /\ units_available(g) - n >= 0

(* The transaction of new_group_purchase_subscription: whether the purchase *)
(* is deleted, or of today, is not looked at.  The settings are read just   *)
(* before it.                                                              *)
new_group_purchase_subscription(q, u, g, n) ==
  /\ request[q] = Idle /\ MayBuy(u, g, n)
  /\ bought[g][u] < MaxBought
  /\ bought' = [bought EXCEPT ![g][u] = @ + n]
  /\ WritesAs(q, [op |-> "compose", settings |-> settings,
                  for |-> [user |-> u, purchase |-> g, units_user |-> bought'[g][u], outdated |-> FALSE]])
  /\ UNCHANGED <<settings, purchase, menu, app_data, user_data, lost>>

(* Mutant: what he has bought before is not counted.                       *)
ForgetsOthers(data, r) == [g \in Purchases |-> IF g = r.purchase THEN r.units_user ELSE 0]

WithUnits(data, r) == [data EXCEPT ![r.purchase] = r.units_user]

get_user_data(q) ==
  /\ request[q].op = "get_user_data"
  /\ request' = [request EXCEPT ![q] =
       [op |-> "put_user_data", for |-> @.for, user_data |-> WithUnits(user_data[@.for.user], @.for)]]
  /\ UNCHANGED <<settings, purchase, bought, menu, app_data, user_data, lost>>

(* Who buys for the same user, and has his data or fewer of his units.     *)
Buying(q) ==
  {p \in Busy \ {q} :
     /\ For(p) # NoOne /\ For(p).user = For(q).user
     /\ \/ request[p].op = "put_user_data"
        \/ For(p).purchase = For(q).purchase /\ For(p).units_user < For(q).units_user}

put_user_data(q) ==
  /\ request[q].op = "put_user_data"
  /\ user_data' = [user_data EXCEPT ![For(q).user] = request[q].user_data]
  /\ request' = [p \in Requests |->
                   IF p = q THEN Idle
                   ELSE IF p \in Buying(q) THEN [request[p] EXCEPT !.for.outdated = TRUE]
                   ELSE request[p]]
  /\ Loses(IF For(q).outdated THEN {For(q).user} ELSE {})
  /\ UNCHANGED <<settings, purchase, bought, menu, app_data>>

-----------------------------------------------------------------------------
(* Publishing.                                                             *)

ask_publish(q) ==
  /\ Asks(q, [op |-> "modules", settings |-> settings, outdated |-> FALSE])
  /\ UNCHANGED <<settings, purchase, bought, menu, app_data, user_data, lost>>

(* provision: what was enabled and disabled.                               *)
WithModules(s) ==
  LET modules == (s.modules \cup s.modules_to_put) \ s.modules_to_remove IN
    [s EXCEPT !.modules = modules, !.provisioned_modules = modules,
              !.modules_to_put = {}, !.modules_to_remove = {}]

(* The transaction begins: the items of what was disabled are deleted, and *)
(* those without a preferred page, which are put again where there is room. *)
get_menu(q) ==
  LET old == request[q].settings
      s == WithModules(old)
      items == (old.provisioned_modules \ s.modules)
                 \cup (old.provisioned_modules \cap NoPreferredPage) IN
    /\ request[q].op = "modules"
    /\ request' = [request EXCEPT ![q] = [op |-> "delete", settings |-> s,
                                         items |-> menu \cap items, outdated |-> @.outdated]]
    /\ Loses(IF \E p \in Requests : request[p].op = "menu" /\ ~(request[p].items \subseteq s.modules)
             THEN {"overlapped"} ELSE {})
    /\ UNCHANGED <<settings, purchase, bought, menu, app_data, user_data>>

delete_menu_item(q, m) ==
  /\ request[q].op = "delete" /\ m \in request[q].items
  /\ menu' = menu \ {m}
  /\ request' = [request EXCEPT ![q].items = @ \ {m}]
  /\ UNCHANGED <<settings, purchase, bought, app_data, user_data, lost>>

(* The items that are still to be put.                                     *)
Puts(s, items) ==
  IF items = {} THEN [op |-> "compose", settings |-> s, for |-> NoOne]
  ELSE [op |-> "menu", settings |-> s, items |-> items]

(* The transaction puts the settings that were read before it, and ends:   *)
(* now the menu items are put.                                             *)
provision_all_modules(q) ==
  LET s == request[q].settings IN
    /\ request[q].op = "delete" /\ request[q].items = {}
    /\ settings' = s
    /\ WritesAs(q, Puts(s, s.modules))
    /\ lost' = IF request[q].outdated THEN lost \cup {"overwritten"} ELSE lost \ {"unfinished"}
    /\ UNCHANGED <<purchase, bought, menu, app_data, user_data>>

put_menu_item(q, m) ==
  /\ request[q].op = "menu" /\ m \in request[q].items
  /\ menu' = menu \cup {m}
  /\ request' = [request EXCEPT ![q] = Puts(@.settings, @.items \ {m})]
  /\ UNCHANGED <<settings, purchase, bought, app_data, user_data, lost>>

Content(s) == [s EXCEPT !.updates_pending = TRUE]

(* populate_identity, in two steps: the service data is made, and put.     *)
create_app_data(q) ==
  /\ request[q].op = "compose"
  /\ request' = [request EXCEPT ![q] =
       [op |-> "put", for |-> @.for, app_data |-> AppData(@.settings),
        outdated |-> Content(@.settings) # Content(settings)]]
  /\ UNCHANGED <<settings, purchase, bought, menu, app_data, user_data, lost>>

populate_identity(q) ==
  /\ request[q].op = "put"
  /\ app_data' = request[q].app_data
  /\ WritesAs(q, IF For(q) = NoOne THEN [op |-> "finish", outdated |-> request[q].outdated]
                 ELSE [op |-> "get_user_data", for |-> For(q)])
  /\ Loses(IF request[q].outdated THEN {"overtaken"} ELSE {})
  /\ UNCHANGED <<settings, purchase, bought, menu, user_data>>

common_provision(q) ==
  /\ request[q].op = "finish"
  /\ settings' = [settings EXCEPT !.updates_pending = FALSE]
  /\ WritesAs(q, Idle)
  /\ lost' = IF request[q].outdated THEN lost \cup {"missed"}
             ELSE lost \ {"missed", "overtaken", "failed", "deleted"}
  /\ UNCHANGED <<purchase, bought, menu, app_data, user_data>>

(* A request that ends with an exception after it changed something: who    *)
(* buys is told that it failed.  Of a publication that fails before its    *)
(* transaction ends nothing is stored, but its items are deleted; what it  *)
(* has read may be older than what another one has put.                    *)
Broken(q) ==
  CASE request[q].op = "delete" ->
         {"unfinished"} \cup (IF request[q].outdated THEN {"overlapped"} ELSE {})
    [] request[q].op = "menu" -> {"unfinished", "failed"}
    [] OTHER -> {"failed"}

Fails(q) ==
  /\ request[q].op \in {"delete", "menu", "compose", "put", "finish",
                        "get_user_data", "put_user_data"}
  /\ request' = [request EXCEPT ![q] = Idle]
  /\ Loses(Broken(q) \cup (IF For(q) = NoOne THEN {} ELSE {For(q).user}))
  /\ UNCHANGED <<settings, purchase, bought, menu, app_data, user_data>>

-----------------------------------------------------------------------------
Next ==
  \/ \E h \in Holidays : add_holiday(h) \/ delete_holiday(h)
  \/ \E g \in Purchases : delete_group_purchase(g) \/ \E n \in Units : save_group_purchase(g, n)
  \/ \E q \in Requests :
       \/ \E n \in Names : ask_save_settings(q, n)
       \/ \E m \in Modules : enable_or_disable_solution_module(q, m)
       \/ save_settings(q)
       \/ \E u \in Users, g \in Purchases :
            \E n \in 1 .. purchase[g].units : new_group_purchase_subscription(q, u, g, n)
       \/ get_user_data(q) \/ put_user_data(q)
       \/ ask_publish(q) \/ get_menu(q) \/ provision_all_modules(q)
       \/ \E m \in Modules : delete_menu_item(q, m) \/ put_menu_item(q, m)
       \/ create_app_data(q) \/ populate_identity(q) \/ common_provision(q)
       \/ Fails(q)

Spec == Init /\ [][Next]_vars

-----------------------------------------------------------------------------
(* When nothing is pending, the app shows what is stored, and the menu has *)
(* the items of the modules that the settings have, whoever saved and      *)
(* published at once.  What breaks the first: a change while the app data  *)
(* is on its way, a publication that fails, a group purchase that is       *)
(* deleted; the next publication that is not disturbed mends that.  What   *)
(* breaks the second is named with Reasons.                                *)
AppShowsWhatIsStored ==
  Busy = {} =>
    /\ ~settings.updates_pending /\ lost \cap {"missed", "overtaken", "failed", "deleted"} = {}
         => app_data = AppData(settings)
    /\ lost \cap {"overwritten", "overlapped", "unfinished"} = {} => menu = settings.modules
    /\ ~settings.updates_pending /\ lost \cap {"overwritten", "missed"} = {}
         => settings.modules_to_put \cup settings.modules_to_remove = {}

(* The app tells a user the units that he bought, unless a purchase failed *)
(* after it was stored, or one of two at once put what it had read before. *)
UserDataIsBought ==
  \A u \in Users \ lost :
    (\A q \in Busy : For(q) = NoOne \/ For(q).user # u)
    => \A g \in Purchases : user_data[u][g] = bought[g][u]
=============================================================================
