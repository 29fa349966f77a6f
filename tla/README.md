# oca-backend in TLA+

TLA+ modules, TLC instances and TLAPS proofs for `oca-backend`, the backend of
*Our City App*: a Python 2.7 application for Google App Engine (datastore, task
queues, cron). Paths are those of the repository; `src/src/shop` is what sells the
service to merchants, `src/src/solutions` is what they use.

Contents: [the platform](#the-platform) · [inventory](#inventory) ·
[modules](#modules) · [runs](#runs) · [bounds](#bounds) · [fairness](#fairness) ·
[proofs](#proofs) · [what the checks found](#what-the-checks-found) ·
[what is not modelled](#what-is-not-modelled) · [plan](#plan)

## The platform

What makes this code hard is not in it but under it, and is in every module:

* A **datastore transaction** is atomic and isolated: it commits when nobody has
  committed to its entity groups since it began, and is run again, or fails, when
  somebody has. It is *one action*. What a function reads before its transaction is
  old when it is used, and what it does to the outside (Stripe, a list that was made
  before the transaction) stays done when the transaction does not commit: such a
  function is *several actions*, with what it read in a variable (`request`,
  `writer`, `worker`, `redemption`, `held`).
* A `get` and a `put` **outside a transaction** write back the whole entity, with
  whatever others have changed since the `get`.
* A **task** of a queue runs at least once: late, in any order, and maybe again.
  Actions that run a task have `task' \in {task, task \ {t}}`, or count how often one
  may run again. A task that is deferred in a transaction exists if the transaction
  commits.
* A request may end at any point with an exception or a time-out (`Fail`,
  `EndRequest`, `WorkerDies`, `Fails`, `Dies`).
* A **query** that has no ancestor is eventually consistent. The models assume that
  it sees what was committed; where it does not, more can happen than they show.

## Inventory

| Component | State | Operations | Interacts with | Hard | Correct when |
|---|---|---|---|---|---|
| **City vouchers** `solutions/common/bizz/city_vouchers.py`, `cron/city_vouchers.py` | vouchers, their history of transactions, redemptions that wait for a confirmation | create QR codes, activate, redeem, confirm, re-index, remind, export | task queue, search index | two tasks and the read of `redeem` are outside transactions; devices confirm twice | never more paid out than loaded; each redemption once; loaded once |
| **Payments and invoices** `shop/bizz.py` | charges, invoices, the number sequence of the legal entity | pay by card, by hand, on site; make invoice; cancel | Stripe, orders, task queue | Stripe is called in the middle of a transaction that may be rolled back | one invoice for a charge, numbers without gaps, the card is charged once |
| **Orders and subscriptions** `shop/bizz.py`, `shop/jobs/recurrentbilling.py`, `shop/business/` | customer, orders, charges, expired subscriptions | create, sign, replace, cancel; bill daily; extend; enable and disable the service | payments (it makes the charges), solutions, cron | late and repeated billing tasks, customers put back by old copies | every month is charged once, when it is due; one live subscription |
| **Restaurant reservations** `solutions/common/bizz/reservation` | shifts, reservations, tables | reserve, edit, move, cancel, assign and delete tables, save shifts and check what is reserved | inbox, task queue | places are counted before the transaction; shifts change under reservations | no more guests than places; everybody in a shift or on the list of conflicts |
| **Loyalty: stamps and discounts** `solutions/common/bizz/loyalty.py`, `restapi/loyalty.py` | visits that are not redeemed, the last scan of a customer | add and delete visits, redeem, scan, handle a scan, change the settings | tablets of the shop, dashboard, user data | visits are split when they are redeemed; a scan is handled and only then marked | each stamp is exchanged once or still on the card; a scan is handled once |
| **Loyalty: the lotteries** the same, `cron/loyalty.py` | visits, the statistics beside them, the lottery and its winner; for a city the same, fed by its shops | set the date, draw, confirm, close, draw again | cron, task queue, inbox, the app of the city | a winner who confirms while the next is drawn; statistics that are kept beside the visits; tasks between a shop and its city in any order | who can be drawn has a visit; a confirmed prize is kept; each lottery is drawn |
| **Group purchases** `solutions/common/bizz/group_purchase.py` | purchases, subscriptions | purchase units, delete, publish | user data, publishing | the transaction commits and the rest fails; the user data is read and put | the app tells each user what he bought |
| **Publishing** `solutions/common/bizz/provisioning.py`, `bizz/__init__.py`, `bizz/settings.py` | the settings, with the modules and `updates_pending`; what the app shows | change settings, enable and disable modules, publish | nearly all of `solutions` | settings are read and put as a whole, by the publication too | what is stored is shown, or marked as pending |
| **Migration of a service** `shop/jobs/migrate_service.py` | a job and its phase, the models of two accounts | disable, copy, enable, break and make friends | everything a service owns, task queue | a worker dies between two of many transactions and runs again, the controller polls | nothing lost; not enabled before all is moved; it ends |
| **Store** `solutions/common/restapi/store.py` | the cart, which is an order without signature, and its amounts | add, remove, show, pay | orders, payments, Stripe | amounts are kept beside the items; the card is charged in the transaction; removing is not in one | the amounts are those of the items; an order is paid once; cities that are paid are the customer's |
| **Customers, prospects, managers** `shop/bizz.py`, `shop/business/prospect.py`, `shop/jobs` | customers, contacts, prospects, tasks of sellers | create, change, assign | sign-up, search, e-mail | little | |
| **Inbox, agenda, news, orders of guests, repairs, appointments, groups** `solutions/common/bizz` | an entity for each request, its conversation | put, answer, delete | external platform | little: single transactions | |
| **Pages, texts, tools** | none of their own | | | | |

`PROJECT.json` lists all components, and under `hazards` each place that is hard to
test, with the properties that would show it going wrong.

## Modules

| Module | Lines of the code it stands for | Depends on |
|---|---|---|
| `VoucherLedger` | the promise, no code | |
| `CityVouchers` | `city_vouchers.py` (bizz, cron, models) | implements `VoucherLedger` |
| `Payments` | `get_payed` .. `create_invoice` of `shop/bizz.py` | |
| `Subscriptions` | orders in `shop/bizz.py`, `recurrentbilling.py`, `shop/business` | |
| `Reservations` | `bizz/reservation`, `dal/reservations.py` | |
| `StampLedger` | the promise, no code | |
| `LoyaltyCards` | stamps, discounts and scans of `bizz/loyalty.py`, `restapi/loyalty.py` | implements `StampLedger` |
| `Lottery` | the lottery of a service: the same files, `cron/loyalty.py` | |
| `CityWideLottery` | the lottery of a city, with the visits to its shops | |
| `MigrateService` | `shop/jobs/migrate_service.py` | |
| `Store` | `restapi/store.py`, and what `get_payed` does for it | |
| `Publishing` | settings, holidays, modules, `common_provision`, group purchases | |
| `MC…` | instances for TLC, of one module or of several side by side | their modules |
| `SumTheorems` | what sums are, no code | `TLAPS` |
| `…_proofs` | theorems: of their module, and `Lottery_proofs` also of `CityWideLottery`, `CityVouchers_proofs` also of `Publishing` and `LoyaltyCards`; these two and `Payments_proofs` also of the `MC…` module with its composition | their modules, `SumTheorems`, `TLAPS` |

Each operator has the name of the function it models; where one function is several
actions, `PROJECT.json` (`map`) has the lines of each. Definitions that the comment
calls *mutants* change one that follows them in the way a slip in the code would;
no specification uses them. They show that a property depends on that line.

### CityVouchers, VoucherLedger

`VoucherLedger` is the abstract machine: load a voucher once, settle a redemption once
and within the balance. `CityVouchers` has the datastore: `voucher` and `history` (of
which only the length and the sums are kept: it is only appended to, and nothing else
of it is read), the redemptions between `solution_voucher_redeem` and
`solution_voucher_confirm_redeem`, and the workers of the task queue between a `get`
and a `put` of a whole voucher. `signature` is the tuple of what the code digests.
Under `Ledger!…` the balance is the sum of the history, *not* the fields of the
voucher: those can go back, and the ledger is what holds then. Amounts are positive;
the pages ask for them.

### Payments

The transaction of `get_payed` is five steps, because Stripe is called in it: begin
(what it read), search at Stripe, create, capture, commit. `stale` is the optimistic
concurrency of the datastore: `Committed` marks every transaction that is open when
another commits. All other payments are one action. `stripe` survives a rollback. The
sequence of invoice numbers is per year in the code and one here. `pc = "bug"` is the
branch that the code calls a bug; it can be reached (see below).

### Subscriptions

Time is `today`, in months. `_recurrent_billing` queues tasks, `_create_charge` is one
task, with a disjunct for each way it ends: one is that an exception is logged and
swallowed (`FailsToCharge`), after which the task is gone and nothing is charged until the
next daily job. `writer` is the one function that has read
the customer or an order outside a transaction: `cancel_subscription`,
`set_next_charge_date`, `set_service_enabled`, `cancel_order`. Since `put_service` is not
modelled, a service that was deleted stays so. An order has one item and a second,
`extra_subscription_months`, where the code has a list.

### Reservations

One day that is still to come. A request that calls `availability_and_shift` is two
actions: `Ask…` is what it saw, the other is its transaction. A transaction that commits
has read its own entity as it is at the commit (that is what isolation means), so only
what was read outside it is kept. `delete_table` keeps copies of reservations and puts
them one by one. `history` is not in the code: it marks a reservation that somebody
forced, moved or overwrote, for which the code looks at no other reservation, so that
the properties can speak of those that were let in. Of the status the flags for
cancelled and for no shift are kept.

`Checked` is what the job makes of a reservation: it goes to the first shift that covers
its start.

### LoyaltyCards, StampLedger

`StampLedger` gives, exchanges and withdraws stamps, and never changes what is on a card
but for these. `LoyaltyCards` has the visits of one customer in their order; a visit that
is redeemed in part is split (`LeftOf`). `get_scan`, `add_loyalty_scan` or
`redeem_loyalty_scan`, and `put_scan` are the three parts of a request of the dashboard:
the scan is marked as processed after the visit was added, and its key is that of the
customer, so that the mark may be put over a newer scan. `handled` notes whether requests
found the same scan at once or one died: only then is a scan handled twice.

### Lottery

`visits` and `statistics` are kept by different functions; `_pick_get` chooses among those
who are counted and looks for an open visit of who is chosen. The task fails, and is run
again, when there is none, or when the visit has no name (`unnamed`: a scan of a visitor of
whom only the address is known, `Strangers`) and there is no profile either. A failure
changes nothing, so it is no action; that the draw may never get beyond it is in `Drawn`.
`held` holds copies of the lottery, from `_pick_get`, `confirm_get`, `edit_get` or
`close_get` to the put. `events` bounds what may happen any number of times.

### CityWideLottery

Visits to shops come to the city by deferred tasks, and a deletion by another: the tasks
overtake each other, run twice, and the module of the city can be lost in between.
The draw is as above, with `x_winners`, and with two copies at once.

### MigrateService

The phases of the job, from the request to `DONE`, and in each the groups of models that
a worker moves one after the other, each in transactions of its own. `migrate` has read the
friends and whether the service is enabled before its transaction; until phase 1000 disables
the old service users still connect to it and leave it, and one that came in between is
disconnected at 4000 and not connected again. `worker` has what is left of the task and what
was read. A worker that dies is run again from its beginning; the controller may run twice and
then two workers do the same phase. In phase 2500 a second run gives models at the new account
the keys that they have, and deletes what it has put; a third run finds none of them and
fails for ever (`_2500_fails`). Phase 4000 polls until no friend
is left, 9000 until there are as many as expected. `history` remembers who had user data,
whose roles were forgotten, and in which phases a worker died once or twice or was put on the
queue twice. `Finishes` names the ways not to end exactly: what `Stuck` says, and a phase
9000 that counts other friends than it expects.

### Store

The cart has its own copy of the amounts; adding an item computes the VAT of what is added
and removing it the VAT of what it is. `add_item_to_order` and `pay_order` are
transactions, `remove_from_order` and the page are not: they read and put one entity at a
time (`request`). `pay_order` charges the card in its transaction, which may be run again.

### Publishing

The settings are one entity. Holidays change it in a transaction; the form, the modules
and the publication put what they have read. A publication is a sequence of steps, and others
may come between any two: `get_menu` (what was enabled and disabled, and which items of
the menu go), `delete_menu_item` for each, `provision_all_modules` (the settings are stored),
`put_menu_item` for each module, `create_app_data`, `populate_identity`, `common_provision`.
The menu is not in the datastore: items are deleted before the settings are committed and put
after it, at once and one by one, and a publication that fails in between (`Fails`) has
changed a part of it. A purchase of units publishes too, and puts the data of the user.

`lost` names why the app may not show what is stored. For the menu: a copy was put over
something (`overwritten`), a publication disabled a module whose item another was still to
put (`overlapped`), one ended halfway (`unfinished`). For the rest: a change was made while
the app data was on its way (`overtaken`) or at the end (`missed`), a publication `failed`, a
purchase was `deleted`. What the property says is that there is no other reason, and which
publications mend it; it does not say that these do not happen, and they are among the
hazards. Assumed: a call to the menu takes effect when it is made. The datastore's own retry
of the transaction, and the mode of `provision` without one, are not modelled.

## Runs

| Run | Instances | Question | Shows |
|---|---|---|---|
| `vouchers` (`MCPublishing`) | `CityVouchers` | Two merchants, and tasks that re-index and remind, on one voucher | it implements the ledger (`ImplementsLedger`); of the redemptions started from one state one is carried out (`OneRedemptionPerState`); the merchants are paid what was confirmed (`MerchantsPaidOnce`); loaded once; never overspent. With the migration, and no step between the read and the write of a task, a voucher shows what its ledger holds (`BalancesMatch`) |
| | `Publishing` | Two requests that change settings and modules, publish, or buy | `PublishingIsSafe`: the app shows what is stored, and its menu the modules, unless one of `Reasons` came since; each user is told what he bought |
| | `LoyaltyCards` | Two requests for one card and its scans | no stamp is lost or exchanged twice (`ImplementsStampLedger`); a scan is handled once unless requests raced for it (`HandledOnce`) |
| `vouchers_frozen` | `CityVouchers` | Does the check of `confirm_redeem` hold between redemptions? | no: a finding |
| `billing` (`MCBilling`) | `Subscriptions` | One subscription over five months | each month charged once, when due (`ChargedWhenDue`, `MonthChargedOnce`), none for free (`NoFreeMonth`), and what is due is handled in the end, unless its tasks fail on day after day (`DueIsHandled`) |
| | `Payments` | One card payment at a time, that may fail at every point and be tried again | what was executed gets an invoice (`ExecutedIsInvoiced`) |
| `payments_double` | `Payments` | Is the card charged once by two requests too? | no: a finding |
| `subscriptions_live` | `Subscriptions` | Has a customer one live subscription? | no: a finding |
| `races` (`MCRaces`) | `Payments` | Two card payments at once, with all the rest | one invoice, numbers without gaps, an invoice by card is covered by a capture of its amount, what is paid stays paid (`PaidStaysPaid`). By one request at a time for each charge: the card is charged once (`CapturedOnceEach`) |
| | `Reservations` | Two requests for a shift that is almost full | by how much it can be overbooked (`OverbookingIsBounded`) |
| `reservations` | `Reservations` | One reservation while shifts are saved and checked, and its table deleted | a guest comes after the start of his shift unless he was moved; each save comes to look at every reservation |
| `reservations_capacity` | `Reservations` | Is the capacity kept? | no: a finding |
| `loyalty` (`MCLoyalty`) | `Lottery` | Draws, confirmations and changes with copies | who can be drawn has an open visit (`CountedVisitsExist`); a confirmed winner stays, unless a copy was put over it (`ConfirmedIsWinner`); it is drawn or closed, unless from some time on nobody who can be drawn has a name (`LotteriesAreDrawn`) |
| | `CityWideLottery` | The same, with tasks from the shops in any order | `CityVisitsExist`, `LotteriesAreDrawn`, and who was drawn stays a winner (`WinnersStay`) |
| `migrate_service` | `MigrateService` | Two workers that die, twice in one phase too, and run again; users that come and go | `NothingIsLost`; `EnabledWhenMoved`; it ends but for the ways that `Finishes` names |
| `orders` (`MCOrders`) | `Store` | Two requests on one cart | the amounts are those of the items (`AmountsAddUp`), an order is paid once (`OrdersArePaidOnce`), the cities of a customer are those he paid (`CitiesAreRecorded`), each but for the listed accidents |
| | `Subscriptions` | Three orders, in any order and with old copies of the customer | the customer is left with a cancelled subscription only by the put of an old copy of him (`StaysLiveUnlessOverwritten`); that this does happen is the hazard at `order.py:133` |
| `store_total` | `Store` | Is the total of a cart never negative? | no: a finding |

Several instances in one run are side by side: the variable `component` is chosen in the
initial state and only that one moves. So a run is the union of their state spaces, not the
product, and a property of one is trivially kept where another moves. It keeps the number of
runs to the questions that need a specification of their own.

In `orders` a constraint makes room for a third order. `WithCard`: the orders there are for
one month, for which a card makes no difference. Every interleaving of reads and writes is
in. In `vouchers` the constraint `FewAtOnce` stops a publication history when two of the
`Reasons` have come since the last publication that mended them: how one mends them is seen
one at a time, and how they combine is proved. Nor is what is bought combined with a holiday, a
module or the menu: these are fields that no action relates.

## Bounds

| Bound | Why it is enough |
|---|---|
| one voucher, two redemptions, two workers, `MaxHistory` 3 | vouchers share nothing; create, activate, redeem and one more entry; two redemptions are the first conflict, and two workers the first pair of stale copies |
| amounts 1..3 | two redemptions fit together, exactly or not |
| `MaxNumber` and `MaxStripe` 2 or 3 | a number for each charge and one that nobody should take; a double capture needs two |
| `MaxMonth` 5, `MaxDate` 7, `MaxTasks` 2 | a subscription of two months becomes due, expires, is extended by two and becomes due again; two tasks are a repeated one, or an old and a new one |
| one subscription, or three orders | the second replaces the first, the third is the order of a city and a month that hang on either |
| two configurations of one shift, dates in one and in both | each date is in one shift, and the same start in the other or none |
| `MaxTasks` 2 in `reservations` | one check for each configuration: it is never reached, so liveness does not hang on it |
| `MaxTasks` 0 in `races` | with one configuration the job changes nothing |
| two keys, two requests, groups of 1..3 with 2 allowed | reaches the bound of `OverbookingIsBounded`, and exceeds it when a group of 3 is let in |
| cards: counts 1 and 3, full with 1 or 2, `MaxGiven` 3 | a visit is split into parts that differ, a redemption spans two visits, and there may be less than was asked for |
| two scans, two requests, `MaxTimes` 2 | a new scan takes the place of one that is being handled; two requests find the same |
| lottery: two users, one of them a stranger, one day, `MaxHeld` 2, `MaxEvents` 1; city: two visits, of one or two users, `MaxEvents` 2 | a winner who is drawn and another who confirms, each with a copy; what is drawn and what is deleted of one user. A visit that was counted for an earlier lottery needs a second day, which is too large for TLC: that case of `CountedVisitsExist` is covered by the theorem only |
| migration: two users, one without a profile, two identities with `ChunkSize` 1, two workers, `MaxFailures` 2, `MaxPhases` 1 | a chunk and its successor; in one phase, whichever it is, a worker dies twice, or dies and is put on the queue twice |
| store: one city, prices 10 and 5, VAT of 10 percent, two items, two payments, two months | the VAT of 5 is rounded down and that of two is not; a city is paid twice or by an order that was paid already |
| publishing: one of each, two units, two requests | a user buys twice; one request overtakes another |

Requests, keys and cards that are interchangeable are symmetric in the runs that have no
liveness property about them. `CHECK_DEADLOCK FALSE` everywhere: the systems stop at their
bounds, and a queue may be empty.

## Fairness

Only tasks and cron are fair. App Engine runs a task until it succeeds, and cron starts
its jobs every day or hour: `WF_vars` on `create_invoice`, `_create_charge`,
`_recurrent_billing`, `handle_shift_updates`, `_check_reservation`, the schedulers and
workers of the lotteries, the controller, the polls and each step of a worker of
`MigrateService`. The draw of a lottery is strongly fair: while visits come and go, the
task that draws is tried again and again, and not always just when it fails. Of a city it is
`SF_vars(_pick_returns \/ _pick_get)`; of a shop
`SF_vars(_pick_returns \/ \E u : IsNamed(u) /\ _pick_get(u))`, since each run chooses at random
and so comes to choose one who has a name when there is one, but nobody else has to be drawn. A copy that a task or request holds is put in the end (`Writes`): the bound
`MaxHeld` would else block the draw for ever. No user, no request and no month has to
happen. `_create_charge` swallows its exceptions: `WF_vars` on it says that the task runs,
whatever comes of it, failing included, and that it is tried again is the next day's job. That
it does not fail on infinitely many days is no fairness of the code: it is the exception that
`DueIsHandled` names. In `billing` and `loyalty` the fairness of both components is assumed: of the one that
does not move nothing fair is enabled in its initial state.

## Proofs

The theorems are for every number of vouchers, merchants, workers, charges, requests,
orders, months, users, shifts, tables, visits, items and purchases, from the named
assumptions on the constants that the modules state.

**How they go.** Seldom is what we want to know inductive: the invariant that is says also
what the requests, copies and tasks *hold*, for how long what they have read is still so, and
who has written in between. `TypeOK` is always part of it. Each proof has a lemma for each
action (`…KeepsInv`, `…IInv`), and the lemma that the next-state relation keeps the invariant
puts them together. TLC checked each invariant, as it is in the proof modules, before it was
proved. The model checker and the prover see the same definitions.

**Sums.** What the models add up (redemptions, places, amounts, visits, units) is
`SumFunctionOnSet` of the community modules. `SumTheorems` has what the proofs need of it:
the sum of nothing, of one more or one less, of functions that agree or differ in one place,
of a set that is shifted or split, that a sum of naturals is one, and a bound of each summand
bounds it. It rests on an induction over the size of finite sets that is stated of a *set* of
numbers (`SetInduction`, from `WFMin`), so that no operator is a parameter.

| Theorem | Says | Inductive invariant, and why |
|---|---|---|
| `CityVouchers_proofs!TypeCorrect` | types | |
| `…!NothingOverspent`, `…!OneIsCarriedOut` | `NeverOverspent`, `OneRedemptionPerState`, with the migration | a signature holds the length of the history at its time; a confirmation makes the history longer, so that every confirmed redemption has a signature *from the past* (`SignaturesInThePast`) and no other with that signature can match |
| `…!EveryMerchantIsPaidOnce` | `MerchantsPaidOnce`, with the migration | the same and that finitely many redemptions are confirmed (`PInv`): a confirmation adds its amount to the history and itself to what is summed, and nothing else does either |
| `…!OnlyTasksFreeze`, `…!BalancesStayMatched` | `BalanceMatchesLedger`, of `SpecTasksAtOnce`: nothing happens between the read and the write of a task, the migration's included; and so `BalancesMatch` | `BInv`: what a worker holds is the voucher as it is (`ReadIsTheVoucher`), so that it puts nothing back but its own field. Without the hypothesis it is false: `vouchers_frozen` |
| `…!LoadsOnce` | `LoadedOnce`, without the migration | whatever a worker holds is a voucher that was activated (`OnlyActivated`), so that its put never undoes an activation |
| `…!Implementation` | `ImplementsLedger`, step by step | the first two; each action is a `Load`, a `Settle` or a stutter |
| `…!PublishingTypes` | types of `Publishing` | `TypesInv`, which is `TypeOK` with a bound on what each kind of request holds |
| `…!AppShowsTheStored` | `AppShowsWhatIsStored`: part of `PublishingIsSafe` | `PubInv`: what a request will write fits (`RequestFits`). Unless something went wrong, what is stored is shown, marked as pending, or a publication that will show or mark it is under way (`StoredInv`). The menu has no item that the settings are without, and what it lacks a request has in hand, unless one was overwritten, overlapped or unfinished (`MenuInv`, `MenuFits`); no module waits for a publication unless it was missed (`MissedInv`) |
| `…!UsersSeeWhatTheyBought` | `UserDataIsBought`: another part | where the data of a user has fewer units than he bought, a request with the right number is on its way to it, and of two that read the data at once the one that is overtaken is marked as `outdated` (`UnitsInv`) |
| `…!PublishingStaysSafe` | `PublishingIsSafe`, of `PublishingSpec` | the three before |
| `…!ScansAreHandledOnce`, `…!EachScanIsHandledOnce` | `HandledOnce`, of `LoyaltyCards` and of `PublishingSpec` | `CardsInv`: of the requests that found one scan at most one will handle it, and none when it was handled (`OneHandler`, `IdsFit`); a visit is split only when it has more than what is redeemed of it |
| `…!StampsAreExchangedOnce`, `…!EveryStampIsExchangedOnce` | `ImplementsStampLedger`, step by step, of both | the types; the first visits of a card that add up to what is redeemed are the only ones that go, and what is left of the last of them stays (`CardUpTo`, `CardLeft`, `CardRedeemed`): each action is a `Give`, an `Exchange`, a `Withdraw` or a stutter (`LedgerStep`) |
| `Payments_proofs!TypeCorrect` | types | |
| `…!ChargesAreInvoicedOnce`, `…!NumbersHaveNoGaps` | `InvoicedOnce`, `NumbersAccounted` | a charge has a number only if it is executed; what a transaction read is still so as long as it is not stale (`SeesWhatItRead`); a charge points to the number of its invoice |
| `…!CardPaymentsAreCovered` | `CardInvoiceIsCovered` | what an open transaction has found or made at Stripe is of its charge and amount (`Matched`), and whatever is paid by card, invoiced or on its way, is covered by a capture (`CardInv`); Stripe takes nothing back |
| `…!PaidInvoicesStayPaid` | `PaidStaysPaid` | that of `ChargesAreInvoicedOnce`: a task that runs again writes an invoice that exists, and keeps that it is paid |
| `…!OneAtATimeIsCapturedOnce`, `…!EachIsCapturedOnce` | `CapturedOnce`, of `SpecOneAtATime`; and so `CapturedOnceEach` | `OnceInv`: there is at most one charge at Stripe for each of ours, since a request that will make one has looked, found none and is alone (`OneMatch`, `NothingToFind`). Without the hypothesis it is false: `payments_double` |
| `Subscriptions_proofs!NothingChargedEarly` | `ChargedWhenDue` | the tasks on the queue are of today or earlier |
| `…!NoMonthTwice` | `MonthChargedOnce`, if no date is set by hand and no order has extra months (`NoMonthsByHand`) | every month that was charged is before the next charge date (`PaidBeforeDate`), and only subscriptions are on the queue. The hypothesis is needed: both can set the date back |
| `…!NoMonthForFree` | `NoFreeMonth`, with `NoMonthsByHand` | `SignedInv`: an order that costs something and is signed has its signature, so that it is not signed again, and only free orders are signed by a task |
| `…!TypeCorrect` | types, with `NoMonthsByHand` and if `MaxDate` has room for one order or extension after the last month (`LongEnough`) | `BoundedInv`: nothing adds months to a date but a charge, which is not made before that date |
| `…!OnlyOldCopiesRevive` | `StaysLiveUnlessOverwritten`, of `Spec` with all its interleavings | `OwnInv`: what the customer, each copy of him and each task point to is an order that was created, and his subscription is one. Whatever cancels an order either read the customer in its transaction or puts him after it: only a copy from before a replacement is left |
| `…!SubscriptionStaysLive` | `CurrentIsLive`, of `SpecOneWriter`: nobody writes between a read and its write | `LiveInv`: what a writer holds is what is stored, and what the customer points to is a subscription that is to be signed or signed. The hypothesis is needed: otherwise a writer puts back a customer whose subscription was replaced and cancelled since he read it |
| `…!OneSubscriptionIfNoneRevived` | `OneLiveSubscription`, of `SpecNoneRevived`: nor is a cancelled order signed | that and `OnlyCurrent`: whatever subscription is live is the one that the customer points to. `subscriptions_live` breaks the second hypothesis |
| `Reservations_proofs!TypeCorrect`, `…!GuestsComeAfterStart` | types, `ComesAfterStart` | what a request will write fits, its copies too (`RequestFits`), and whatever is edited, moved or checked was made (`RequestsFit`, `ChecksAreMade`); the first of the shifts that cover a reservation exists (well-founded order of the numbers) and starts no later |
| `…!OverbookingStaysBounded` | `OverbookingIsBounded` | `LInv`: who was let in *and* who is about to be, together, stay below the limit and one group for each request (`LoadIsBounded`, `GroupsFit`). A request that looks sees the first part only, and adds one group |
| `…!CapacityIsKeptWithRoom` | `WithinCapacity`, if the limit of each shift leaves a place for a group of every request (`LimitsLeaveRoom`) | the same. The default shifts (50 places, 70 percent, groups of 6) do for two requests at once and not for three; the shift of `reservations_capacity` does not |
| `Lottery_proofs!LotteriesKeepTheirTypes`, `…!DrawsFindAVisit` | `TypesOK` of both lotteries, `CountedVisitsExist` | a visit is counted in the transaction that makes it, and whatever deletes or redeems visits takes as many or more off the count: inductive with the types |
| `…!PrizeIsKept` | `ConfirmedIsWinner` | the copies that are held are of a lottery that exists and was not claimed, a confirmation's with its own winner (`HeldCopies`) |
| `…!CityDrawsFindAVisit`, `…!DrawsOfACityFindAVisit`, `…!CityWinnersStay`, `…!WinnersStayDrawn` | `CityVisitsExist`, `WinnersStay`, of `CityWideLottery` and of `LoyaltySpec` | `CityInv`: the count of a visitor is at most that of his open visits in the shops, whatever the tasks do, and a copy that was read to draw has no winner |
| `MigrateService_proofs!TypeCorrect`, `…!OnlyMovedIsEnabled` | types, `EnabledWhenMoved` | all phases before that of the job, and before that of any worker, are complete (`CompleteBefore`); of its own phase a worker has done what it has not left (`WorkerInv`); nothing goes back to the old account, and nobody joins it once it is disabled (`GoesOn`), so that what is complete stays so when a phase runs twice or late |
| `…!NothingGetsLost` | `NothingIsLost` | that and `KInv`: a phase that was not put on the queue twice has one task or worker (`OneWorker`). What such a worker deleted at the old account it still has, or the job has (`DataMoves`); a role is still at the old service, or in the job to be granted, or named as forgotten (`RolesMove`); who moves service data knows what is still at the old service (`ServiceMoves`). `JobGoesOn`, that a task or worker is at the phase of the job and a task at every friend that it waits for, is inductive with the types: a worker puts what comes next in the step in which it ends |
| `Store_proofs!TheAmountsAddUp` | `AmountsAddUp` | `Inv`: a request that nobody overtook holds what is stored (`CopiesAgree`), a product is in the cart once (`CartIsTidy`), and the amount is that of the items but for the one that a removal has deleted and not yet taken off (`AmountsAreSound`) |
| `…!EveryOrderIsPaidOnce` | `OrdersArePaidOnce` | a payment under way has a charge of its own, as high as the cart it read (`ChargesAreKept`); what was paid is in no cart (`PaidItemsAreGone`) |
| `…!ThePaidCitiesAreRecorded` | `CitiesAreRecorded` | the customer that a payment will put is the one it read with the cities of its cart (`CustomersAreRead`, `CitiesAreCounted`, `CitiesArePaid`) |
| `…!WholeCentsAreNotNegative` | `TotalIsNotNegative`, if each price has a VAT of whole cents (`WholeVat`) | `VatInv`: the total of the cart, and of each old copy of it, is its amount with the VAT of that; with `AmountsAreSound` it is not negative. A box of cards of 17.50 with 21 percent has no such VAT: `store_total` |

Each finding has a theorem beside it that says what would mend it: without the one step that
the run shows, the property that it violates holds for all constants.

A proof module may speak of several components: `Lottery_proofs` extends `MCLoyalty`, where
`CityWideLottery` is `City`, and `CityVouchers_proofs` `MCPublishing`, where `Publishing` is
`Pub` and `LoyaltyCards` is `Cards`; they share the lemmas on sums and sequences. What is
proved of `City` and the others rests on the assumption of their module, which `MCLoyalty`
and `MCPublishing` name (`CityConstants`, `PublishingConstants`, `CardsConstants`) and TLC
checks. Where a run has a component beside another, its module names the properties of the
second (`CityVisitsExist`, `PublishingIsSafe`, `HandledOnce` and others): the theorems are of
the component, and of the composition that TLC checks. Two are proved of the component only:
`OverbookingIsBounded` in `Reservations_proofs`, where `MCRaces` has it as
`R!OverbookingIsBounded`, and `StaysLiveUnlessOverwritten` in `Subscriptions_proofs`, which
`MCOrders` has as `S!StaysLiveUnlessOverwritten`: a theorem of a module cannot be cited for an instance of it.

What stays with TLC is liveness, since the prover has no `ENABLED`: `Finishes`,
`DueIsHandled`, `ExecutedIsInvoiced`, `SavedShiftsAreChecked`, `LotteriesAreDrawn`. Of
`Finishes` the half that is not about time is proved: until the job is done, there is
something that goes on with it (`JobGoesOn`, in `NothingIsLost`). No module
declares a `RECURSIVE` operator.

What the proofs made clearer in the models: `OverbookingIsBounded` holds for a shift that
takes nobody only because nobody is let in then, which it now says, and needs finitely many
configurations of shifts (`ReservationsAssumption`); `SubscriptionStaysLive` and
`OneAtATimeIsCapturedOnce` need exactly what their runs assume; `Publishing` may not have a
user with the name of a reason (`PublishingAssumption`), as both are in `lost`.

## What the checks found

Checked, in `PROJECT.json` under `findings`:

* `vouchers_frozen`: `re_index_voucher` and `send_expired_voucher_message` put back a
  voucher without the redemption in between. Nobody is overpaid, but the ledger no longer
  matches and every later redemption is refused.
* `payments_double`: two card payments of one charge both capture.
* `subscriptions_live`: an order that was cancelled because it was replaced can still be
  signed, and is billed beside its successor.
* `reservations_capacity`: two requests take the same last places.
* `store_total`: the VAT of what is added and of what is removed are rounded separately; a
  cart that is emptied again may come to less than nothing, and then nothing can be added.

Seen while modelling and part of the models; most are listed as hazards:

* After a rolled-back card payment with the discount and a manual payment in full, the
  next card payment reaches the branch that the code calls a bug (`pc = "bug"`).
* `set_expired_subscription_status` makes its list of entities outside the transaction:
  when that is run again, the charge is stored twice.
* A billing task charges an order that was replaced and cancelled since it was queued.
* The mark for a pending cancellation stays on the customer when his subscription is
  replaced, and ends the new one; and the deferred task that enables a service takes a
  later cancellation back.
* The check of saved shifts counts the end of a shift as in it, so that reservations of
  an adjacent shift move into the one before; `_get_matching_shift` does not.
* An edit of a reservation that keeps its date is checked against the shift of today's
  settings, and stays in its own.
* Deleting a table can take back a cancellation.

## What is not modelled

Within the modelled components: the settings of users and the exports of vouchers;
advance payments, purchase-order numbers, invoices of legal entities, PDFs; the choice of
products and what they depend on, signature images, demo apps, `put_service`, the apps of a
service identity in the store; who has arrived and was notified, messages to guests,
holidays, the leap time, statistics of reservations, and moves of a reservation to another
day; slides, tablets, reminders and postal codes of the loyalty functions; search indexes,
sessions and the new profile of a migration; logos, brandings and the layout of the menu of
a publication. Messages to browsers, e-mail and logging are left out everywhere: nothing
reads them back.

Whole components: see the inventory, and `PROJECT.json` for the reason of each. Most of the
repository is of this kind: forms, pages, translations, searches and single transactions on
one entity, in which no two steps can meet. They are many of its lines and little of its
state, so that the map names a small part of the lines.

## Plan

In the order of what matters most to users and is hardest to test:

1. done: `VoucherLedger`, `CityVouchers`, `Payments`, `Subscriptions`, `Reservations`,
   `Lottery`, `MigrateService` and their proofs.
2. done: `StampLedger`, `LoyaltyCards`, `CityWideLottery`, `Store`, `Publishing`.
3. Modules: the trial of DJ-Matic; the customers' own orders with their opening hours; the
   settings of voucher users and their expiration; more items in an order.
4. done: proofs of the safety properties and of both refinements, of every module.
5. done: proofs of the compositions, and of what would mend each finding.
6. Proofs: the types of `Subscriptions` with dates that are set by hand; the live
   subscription with the hypothesis on writes of the customer only.
