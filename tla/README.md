# SaaSmint in TLA+

SaaSmint is a SaaS template: a Django REST API (`core/apps`), a framework-free
domain layer (`core/core/saasmint_core`), Celery workers, Postgres, Redis, Stripe,
and a Next.js frontend (`app`). This directory specifies the parts of the backend
whose correctness depends on the order in which requests, workers, Stripe
deliveries and database transactions run, model-checks them with TLC and proves
part of the results with TLAPS.

## 1. Inventory

| component | state | operations | interacts with |
|---|---|---|---|
| Webhook pipeline (`billing/webhook.py`, `billing/tasks.py`, `services/webhooks.py`) | `StripeEvent` rows, Celery messages, what Stripe considers delivered | receive, deduplicate, enqueue after commit, dispatch, mark processed / failed, retry | Stripe delivers; handlers below run inside it |
| Credit ledger (`billing/services.py`) | `CreditTransaction`, `CreditBalance` | grant credits for a session | called by the product-checkout handler; rows cascade when a user or org is erased |
| Org membership and ownership (`orgs/views.py`, `orgs/services.py`) | `Org`, `OrgMember` (role, `is_billing`) | create with owner, transfer, change role, remove member, delete org, cascade on cancelled subscription | account erasure, team checkout, invitations |
| Invitations and seats (`orgs/views.py`, `orgs/services.py`, `billing/views.py`) | `Invitation`, members, `Subscription.seat_limit` | invite, accept, cancel, decline, expire, change seats | team subscription row (lock), Stripe sync |
| Subscription mirror (`services/webhooks.py`, `services/billing.py`, `services/subscriptions.py`) | `Subscription` rows, Stripe's own | sync, delete, schedule upsert / clear, cancel, resume, change plan, change seats | webhooks and the billing views both write it |
| Team checkout (`orgs/services.py`) | org, owner, `StripeCustomer`, subscription | complete, persist subscription, cancel the personal plan | pipeline, mirror, membership |
| Account erasure and export (`services/gdpr.py`, `users/views.py`) | everything of a user | cancel at Stripe, delete customer, delete orgs, memberships, user | Stripe, membership |
| Authentication (`users/authentication.py`, `users/auth_views.py`) | refresh tokens, one-time tokens, cached users | rotate, revoke, verify, reset, OAuth exchange and linking | frontend |
| Catalogue (`billing/tasks.py`, `billing/vat.py`, `services/currency.py`, `billing/admin.py`, `management/commands`) | anchor, localized and country price rows, Stripe prices and their lookup keys | seed, sweep the exchange rates, mint / archive / stamp, edit in the admin | every deployment, Celery Beat and the admin write it; Stripe |
| Storefront (`billing/views.py`, `billing/serializers.py`, `services/billing.py`) | `StripeCustomer` rows, checkout and portal requests | show a price, sell a plan or credits, open the portal | reads the catalogue, creates customers at Stripe; the mirror must recognise what was sold |
| Frontend, marketing, dashboard, infrastructure | no shared multi-step state of interest | | |

What makes this code hard: views run in autocommit (there is no
`ATOMIC_REQUESTS`), so what a view checks and what it writes are separate
statements; Postgres runs READ COMMITTED, so isolation comes only from unique
indexes, check constraints and the explicit `SELECT ... FOR UPDATE`; Celery
acknowledges a message before running it and only `process_stripe_webhook`
retries; Stripe delivers events at least once, in any order, concurrently.

The hazards, each at its line, are listed in `PROJECT.json`; the properties
below are aimed at them.

## 2. Modules

| module | models |
|---|---|
| `WebhookPipeline` | the endpoint, the event row, the task, its marks and retries; the handler is an outcome |
| `CreditPromise` | abstract: a session becomes credits in one step, at most once |
| `CreditLedger` | `on_product_checkout_completed` / `grant_credits_for_session`, one action per statement other transactions can run around |
| `CreditFulfilment` | the pipeline with the ledger as its handler (`EXTENDS` both; the tasks are the ledger's processes) |
| `OrgRoles` | membership, ownership, org deletion and erasure; every handler is a check step and a write step |
| `SeatBudget` | invitations, members and the seat limit of one org |
| `SubscriptionMirror` | one subscription at Stripe, the local row, and what the product writes to it: webhooks, endpoints, team checkout, deletion of the org or account by its owner or by others (hand edits in the admin site are left out) |
| `AuthTokens` | one account: emailed links, refresh tokens, OAuth exchange codes, the cached user, and the admin site's changes to the account |
| `Pricing` | the arithmetic: conversion, charm rounding, the tax-exclusive base of a sticker |
| `Catalogue` | the price rows, the Stripe prices, and everybody who writes them |
| `Storefront` | `Catalogue` with the visitors: which price is shown, which is sold, on which customer, and whether the webhook knows it |
| `...Proofs` | the theorems about the module of that name; `CatalogueProofs` has the arithmetic's too, `CreditFulfilmentProofs` the pipeline's |
| `MC...` | TLC instances: constants as small sets, symmetry |

A definition whose comment begins "Mutant of" is a plausible bug in the
definition after it. It is not part of any specification; each property
of a passing run is shown to fail when its mutant takes the place of the
original.

### WebhookPipeline

`row[e]` is the `StripeEvent` row (stored, `processed_at`, `error`), `req[r]` the
event a web worker has committed and is about to enqueue, `task[t]` a Celery task.
`StoreEvent` / `SkipDuplicate` are the two results of `get_or_create`; `Enqueue`
is the `on_commit` callback together with the 202. A task's `stage` follows
`process_stored_event`: `dispatching`, then the outcome of the handler (`ok`,
`data_error`, `transient`, `unexpected`), then the mark, then for transient
errors the retry; `HandlerInterrupted` is an `OperationalError` under the handler,
which is transient. The mark can fail as well; a failing `mark_processed`
is caught by the same `except` as a failing handler, and a failing `mark_failed`
replaces the error under way by an `OperationalError`, which is retried. A mark that
fails may have been written all the same, when only its acknowledgement was lost:
the task then records an error on a processed row and runs the handler again. This
is why `ProcessedIsFinal` speaks of events that no fault has hit. Faults
(broker, database, worker) are bounded by `MaxFaults`; `faulted` remembers which
events they hit so that properties can say what holds without them.

### CreditLedger and CreditFulfilment

Locks are read off the program counter: after its INSERT a transaction owns the
key `stripe_session_id`, after its `select_for_update` the balance row.
`owners`, `ledger` and `balance` are committed data; a rollback is the absence of
a change. `Save` is the UPDATE and the commit, where the foreign key and the
width of the integer column can still refuse the grant (the column is scaled down
to `MaxBalance`). `CreditFulfilment` maps a call's result to an outcome of the
pipeline and lets a worker's death, or a lost connection, abort the transaction of
its call; a connection lost after the commit has granted the credits and is retried
as if it had not. A balance edited by hand in the admin site
(`CreditBalanceAdmin`) is not modelled.

### OrgRoles

`role[o][u]` and `billing[o][u]` are the `OrgMember` rows. What a request
remembers between its checks and its write is kept in `req[r]`; the write is by
primary key and does not look again. `OwnsElsewhere` is the partial unique
index `uniq_org_owner_per_user`, the condition in `PatchMember` the check
constraint `ck_org_owner_must_be_billing`. `Cascade` and `Dependents` are the
deletes of `_delete_org_db_only` and of the foreign keys. Erasure has four steps,
as in `delete_account` with its hook.

### SeatBudget

One org. Creating and accepting an invitation are three steps: the unlocked
checks, the lock with the count, the write with the commit. `RowFree` is the lock
of the team subscription row: it holds up other counts and every write of the
row, and exists only while a subscription is active. Cancel, decline and expiry
are a read and a later write. `UpdateSeatCount` writes the whole row back as it
was read. `SyncSubscription` is what a webhook stores.

### SubscriptionMirror

`stripe` is the subscription as Stripe has it (external: a change emits events
carrying the state it produced, and a subscription owned by a schedule cannot be
modified). `row` is the local copy, `customer` the `StripeCustomer` it hangs from,
`queue` the events not yet handled, from which a worker may take any. A handler is
two steps, read and save, because `DjangoSubscriptionRepository.save` writes every
column of a row read earlier; an endpoint reads, calls Stripe one or more times and
then saves what it mirrors; `job[a]` keeps what each has read. `RequestFails` stops
a request between any two steps. A team's customer is created by the checkout
event, which also retrieves the subscription and stores the row itself. When that
call fails the task is retried, at most `MaxRetries` times; then `GiveUpCheckout`
leaves the org and its customer without a row. `CheckoutForNobody` is a checkout whose
buyer's account has gone meanwhile, whether or not an earlier attempt has made the
org. What a worker's death does to an event is shown in `WebhookPipeline`.

Accounts are deleted in two ways. Erasure (`EraseAtStripe`, `EraseRows`) cancels at
Stripe first. `RemoveMember` is an admin of an org who removes a member
(`orgs/views.py:314`): the account goes, its customer and row cascade, and Stripe is
told nothing, although the member may have a plan of their own and then keeps paying
for it. Deleting an org does the same to the members it takes along, sparing those
whose row is live.

No writer locks the row and no payload is dated, so `MirrorConverges` cannot hold
in general, and the model keeps track of when it may fail: `reordered` (an event
overtook another), `stale` and `overlapped` (somebody saved a row, or ignored an
event, on the strength of a read that another writer had outdated). `dropped`
remembers that a checkout was given up, found no buyer or lost its org under way, or
that an account was deleted without a word to Stripe. `MirrorConverges` and
`DeletedOwnersStopPaying` are claimed without all of these, `CheckoutPersistsRow`
without `dropped` only. Three things that
the exceptions cover are worth knowing: an org deleted while its checkout is
still running has no row yet, so nothing is cancelled at Stripe; a cancel
request whose read precedes `subscription_schedule.released` brings the pending
change back; and when a retried checkout makes an org anew that was deleted
meanwhile, the new row lacks the pending change, whose event went by while there
was no row (so the pending change is claimed for the first customer only).

A plan is its price's amount (change of plan only compares amounts), `cancel` is
"`cancel_at` is set", periods, trials and currency are left out. Creating and
modifying a schedule (`subscriptions.py:222-249`) is one step. `SubscriptionAdmin`,
which edits and deletes the row by hand, is left out: no property of the row
survives it.

### AuthTokens

`account` is the `User` row. Its `version` counts password changes (two within a
second are told apart); its `stamp` is the version `password_changed_at` was last set
for, which is what the `pwd_iat` of a token is compared with. `link` holds the three
kinds of one-time rows and the token pairs cached under an OAuth code, `session`
the refresh tokens, `cached` the copy `JWTAuthentication` keeps. A request reads
the user once (`req[r].user`) and works on that copy: the lookup of a link and
the conditional UPDATE are two steps, so are saving the user and the `post_save`
signal that drops the cached copy, then the revocation, then the new token.
`Die` stops a request anywhere.

The admin site differs in three ways. It writes every column of the row it read, so
it can put an earlier password and stamp back. Its change view is one transaction:
`SaveForm` is the UPDATE, which locks the row, with the signal, `CommitForm` the
commit, and between them a request still reads the old row and may cache it. And
"Reset password" (`AdminResetPassword`) saves a new hash, neither stamps
`password_changed_at` nor revokes a session: whoever is signed in stays so, and access
tokens stay good, although `models.py:68` says the stamp is set "on every password
reset/change". `ChangesEndSessions` therefore speaks of changes that are stamped, those
of the two views.

`late` marks a session that was issued on a copy of the user older than the stamp:
a login or refresh that began before a password change and ended after it.
`mishaps` remembers a request that died before its revocation or signal
(`cut_short`), a copy cached after the save that outdated it (`late_copy`) or while an
admin's save was about to commit (`early_copy`), and a password change that an
admin's save put back (`undone`). These are the exceptions of
`ChangesEndSessions` and `CopyIsCurrent`; the code has no defence against them
but the lifetimes of a token (7 days) and of the cached copy (60 seconds).

The deletion of the account and the admin's "disable password" are left out.

### Pricing and Catalogue

`Pricing` has no state. Amounts are in minor units, rates in thousandths, so that
the products the code forms with floats are exact.

`row[s]` is the price row of a slot, an owner (plan or product) with a market: USD
for the anchor, a currency for the `LocalizedPrice`, a country for the
`CountryPrice`. `stripe` lists the prices minted, `holder` says which of them has a
lookup key. Three kinds of process write these without a lock:

* a deployment, `job[d]`: `Seed` (one transaction), the entrypoint's sweep, then
  `sync_stripe_catalog`: `Fetch` (one look at Stripe for the whole run), per pass
  `NextPass` (the query for its rows), per row `Take` (compare, archive), `Mint`,
  `Stamp`. A missing `LocalizedPrice` starts a second sweep in the middle (`boot`,
  `TakeBooted`). `Die` stops it anywhere;
* `sync_localized_prices`, `sweep[p]`: `SweepRead` computes what it will write,
  `SweepCommit` writes it, or collides with rows another sweep has created;
* the admin, `form`: the price form carries the id it was opened with and saves it. An
  admin who types another Stripe id, or deletes a price row, is not modelled.

What the properties cannot promise is kept in history variables: `calm` (a
deployment has run to its end with nobody else writing), `torn` (keys left between
archive and mint by a dead deployment), `exposed` (slots curated while a sweep was
about to write them). `left` are the bounds of the behaviour.

### Storefront

`Displayed` and `Sold` are the two resolutions the code makes, of the serializers
and of the checkout views; they differ where a `LocalizedPrice` has not been minted.
A request goes through `customer` (read the row), `create` (call Stripe), `save`
(the row), `session`, and may die between any two; a team checkout starts at
`create`. `Pay` is the visitor, `Webhook` the lookup of the price and the customer
by `sync_subscription_from_data`. `overlapped` remembers the parties for whom two
requests were creating a customer at once: `get_or_create_customer` does not lock.

## 3. Runs

| run | shows |
|---|---|
| `webhook_pipeline` | `OneTaskPerEvent`, `ProcessedIsFinal`, `FreshRowsAreInFlight`; `EventsSettle` under fairness |
| `credit_ledger` | `BalanceIsLedgerSum`, `LocksProtectGrants`, refinement `ImplementsPromise`; `EveryCallReturns` under fairness |
| `credit_fulfilment` | `ProcessedIsFulfilled`, `FailedIsNotGranted`, `GrantsOnce`; `UndisturbedCheckoutsAreGranted` under fairness |
| `roles_concurrent` | `OwnersAreBilling`, `OneOrgPerOwner`, `MembershipsAreRooted`, `StandingDecisionsKeepOneOwner` |
| `roles_transfer_race` | violation: two owners after two transfers |
| `roles_erase_after_transfer` | violation: erasure leaves the owned org behind |
| `seats_active` | `JoinsFitSeats`, `OnePendingPerEmail` |
| `subscription_mirror` | `MirrorConverges`, `CheckoutPersistsRow`, `DeletedOwnersStopPaying` |
| `auth_tokens` | `RedeemedOnce`, `ChangesEndSessions`, `CopyIsCurrent` |
| `seats_stale_accept` | violation: members and pending invitations exceed the seats |
| `storefront` | `OneRowPerPrice`, `HoldersAreLive`, `CuratedSurvives`, `CleanDeployHeals` (catalogue); `PartiesKeepTheirCustomer`, `TeamsGetTheirOwnCustomer` (sales) |
| `paid_not_mirrored` | violation: a plan paid in a local currency is turned away by the webhook |

The four violations are disagreements between the code and the project's own
specification (`openspec/specs`), comments or docstrings; `PROJECT.json` quotes both.
`StandingDecisionsKeepOneOwner` is the other side of `ExactlyOneOwner`: it shows
that stale decisions, and accounts deleted while they own an org, are the only
ways to lose the single owner. Among these is one that needs no concurrency: a
member of one org who owns another can be removed by the first org's admin
(`orgs/views.py:314` deletes the account), and the other org stays without owner.

The exceptions that properties name are behaviours of the code too, found while
the property was looked for. Besides those of the mirror and the tokens (section
2; a removed member keeps paying, a checkout whose retries are spent leaves a team
that pays for a plan it does not have, an admin's reset of a password ends no session,
an admin's form brings an old password back):
a failed enqueue loses a paid checkout, because the redelivery is taken for a
duplicate (`UndisturbedCheckoutsAreGranted`); a member who joins while a seat
reduction waits for Stripe leaves fewer seats than members (`billing/views.py:504`;
`JoinsFitSeats` only says that nobody joins on top of that); a deployment that dies
between archive and mint leaves a key whose archived price a reverted amount would
match again, and nothing replaces it (`HoldersAreLive`); a sweep overwrites a sticker
that was curated under its hands (`CuratedSurvives`); two first checkouts of one
user split it over two Stripe customers (`PartiesKeepTheirCustomer`).

### Bounds

* Two web or Celery workers race; three add no new kind of conflict, because
  every lock and every stale read is between two parties. The theorems below hold
  for any number.
* `webhook_pipeline`: three events, one of the wrong mode, the code's three
  retries, two faults, so that a fault can hit the handling of a fault.
* `credit_ledger`: two sessions of one owner whose credits together overflow the
  column, a third without credits, two owners.
* `credit_fulfilment`: two events for one session, one without metadata, one
  retry, one fault.
* `roles_concurrent`: two users (one with a personal plan), two orgs, two requests
  of any kind. Violations that need a third user have one.
* `seats_active`: an owner and two invitees, three invitation rows (`RowsLeft`
  keeps a request from starting without one), limits from 1 to 3, changed by the
  app and by Stripe while the subscription stays active. Without an active
  subscription the code checks no seats, and `JoinsFitSeats` would not be
  claimed.
* `subscription_mirror`: a personal or a team subscription, two workers and one
  request of every kind, two plans and two seat counts, two changes (so that one
  can meet the events of the other), two failed calls (so that a retry can fail, or
  its cancellation). `MaxRetries` is 1, where the code has 3: with two failed calls
  this is what lets a checkout be given up. A third change multiplies the states beyond
  an exhaustive run; the theorems hold for any number of each.
* `auth_tokens`: two requests, two links and two sessions, one password change. The admin
  site's forms and the links are looked at apart (`Apart` in `MCAuthTokens`): an account
  an admin has added is edited there and has one session and no links, any other has
  all the rest. One password change is enough for a form to put it back and for a copy to
  be outdated. Everything at once is beyond an exhaustive run; the theorems hold for
  all of it and any number.
* `storefront`: a personal plan, a team plan and a product, USD and EUR, one country
  with VAT, releases that seed some of them at one of two amounts, an exchange rate
  that moves the charm price or is missing, two containers, one daily sweep, two
  users (one owns an org) and two requests. All of it at once is out of reach, so
  `Budgets` is a set of eight bounds and a behaviour starts with one of them:
  overlapping deployments; up to two that die, in a rollout of three; a sweep, an
  edit and a death between two deployments; two edits; one request for everything
  that is sold; two requests that race. The theorems of section 4 need no bound.
* `paid_not_mirrored`: the same instance.

`CHECK_DEADLOCK FALSE` where everything may have been deleted or used up
(`OrgRoles`, `SeatBudget`, `SubscriptionMirror`, `AuthTokens`, `Storefront`); the
pipeline and the ledger never stop, since Stripe
may always deliver once more.

### Fairness

Stripe redelivers what was not acknowledged; a web worker finishes its request
and a Celery worker its task (weak fairness). A transaction that waits for a row
gets it in the end (strong fairness): Postgres queues waiters. Faults, erasure
and further deliveries are never owed.

## 4. Proofs

Every theorem is for all values of the constants that satisfy the named
assumptions: any number of workers, requests, rows, users, retries, faults and
changes, where the runs have two or three. The assumptions say that constants
have their types, and in addition: users, people and invitation rows are finitely
many (roles and seats count them), there is a highest plan and a lowest seat count
(what a subscription of `SubscriptionMirror` starts with), keys and markets are
distinct, conversions to 0.24 of a unit or less do not occur (`Pricing` answers
-0.01 for them, as the code does), and no VAT rate is above 100% (the highest of
`STANDARD_VAT_RATES` is 27%). TLC evaluates each on the run of its module.
Where one property follows from an inductive invariant, the invariant was checked
with TLC before it was proved.

### CreditLedgerProofs

* `LedgerTypeCorrect`: `LedgerSpec => []LedgerTypeOK`;
* `LocksProtectGrantsCorrect`: `LedgerSpec => []LocksProtectGrants`. This is the
  inductive invariant: between its statements a grant is alone on its session
  and, once it has read the balance, alone on its owner, and the balance it read
  is the committed one. The last part is what `Save` needs, and it survives other
  processes' saves only because of the two exclusions;
* `LedgerImplementsPromise`: `LedgerSpec => Promise!Spec`. `Save` is a `Grant`,
  `DeleteOwner` a `Forget`, every other step a stutter;
* `BalanceIsLedgerSumCorrect`: proved of the abstract `CreditPromise` and carried
  over by the refinement. A sum over a set calls for induction, and the provers
  cannot instantiate the library's induction theorems; the lemmas about sums
  (`SumOverNothing`, `SumAgrees` and what follows from them) take a smallest
  counterexample by cardinality instead.

### CreditFulfilmentProofs

The composition extends the pipeline and the ledger, so the theorems about either
can be used in it. `FulfilmentImplementsPipeline` and `FulfilmentImplementsLedger`
show that every step of the composition is a step of each part or leaves it alone;
the results of both carry over.

* `PipelineTypeCorrect`, `OneTaskPerEventCorrect`, `ProcessedIsFinalCorrect`,
  `FreshRowsAreInFlightCorrect` from `PipeInv`: a task that is alive works on a
  stored event that is not processed yet, unless a fault has hidden that from it
  (`LiveIsOpen`), and that no other task or request has (`LiveIsUnique`), a row that no
  fault has hit has at most one mark (`RowsAreSane`), and who is about to retry has left
  its error or met a fault (`RetriesAreMarked`);
* `FulfilmentTypeCorrect`, `GrantsOnceCorrect`, `ProcessedIsFulfilledCorrect`,
  `FailedIsNotGrantedCorrect` from `MeaningInv`, which says what an outcome in
  flight and a mark on a row mean for the ledger. That these meanings last is a
  fact about `CreditPromise`: what is granted stays granted, and what was refused
  for good can never be granted (`VerdictsStand`).

### OrgRolesProofs

`RolesTypeCorrect`, `OwnersAreBillingCorrect`, `OneOrgPerOwnerCorrect` and
`MembershipsAreRootedCorrect` from their conjunction `RolesInv`, which is inductive
because every write that matters is guarded by a constraint of the database and not
by what its request remembers. `StandingDecisionsCorrect` is the action property:
a step whose decision stands leaves an org that had one owner with one.

### SeatBudgetProofs

* `SeatTypeCorrect` and `OnePendingPerEmailCorrect` from `RowsInv`, in which a
  request that will write a row by its key aims at one that exists;
* `JoinsFitSeatsCorrect`, under the hypothesis `StaysActive` (whatever Stripe reports
  is active, as in the run `seats_active`), from `SeatInv`: who has counted holds the
  row lock (`FillersLock`), is the only one to (`OneFiller`), and its count and limit
  still hold (`CountHolds`). Without the hypothesis there is no lock and the property
  is false.

### SubscriptionMirrorProofs

`MirrorTypeCorrect` and `CheckoutPersistsRowCorrect` hold with every overlap and
order, from `MirrorInv`: workers and requests know what their next step needs
(`JobsAreSane`), the checkout of a team is in one place and its customers are paid
for with faults (`OneCheckout`), and a customer without a row has one coming whose
save will be accepted, or its checkout was dropped (`RowComes`). The retry budget is
any number.

`MirrorConvergesCorrect` and `DeletedOwnersStopPayingCorrect` are what holds
without overlap, reordering and dropped checkouts or customers, from `ConvergeInv`. The
two properties speak of quiet states only;
the invariant says where the truth is while it is on its way:

* `ReadsHold`: what an actor has read is the row, until another's save marks it
  stale;
* `NobodySaysEnded`: while the subscription runs, no event, no read and no job says
  that it has ended, so that no worker can end it here;
* `LastEventsTell`: as long as nothing was reordered, the last subscription event
  that waits carries the state at Stripe, the last schedule event its schedule;
* `MainArrives`: that state is waiting as an event, in a worker's hand, on the row,
  or to be fetched by the checkout; what requests are about to mirror agrees with it
  unless an event or a worker comes after them. `PendingArrives` says the same of the
  pending change for the first customer, and `NoScheduleBeforeRow` why the first
  customer's early events lose nothing;
* `DeletionReachesStripe`: a deleted customer's subscription is ended, queued to be,
  or its checkout is under way again.

They are claimed while the behaviour is `Calm`, which is stronger than not having
overlapped yet: a worker with an event in hand is bound to save, so two of them, or
one whose read is outdated, cannot avoid an overlap any more. The actions fall into
few classes with one proof each: steps aside (Stripe, and requests that touch no
row), a request's start, a save, a deletion, the taking of an event, and the steps of
the checkout.

The proof changed the model: the pending change had been claimed for every customer,
which is false once two calls fail (see section 2), and a checkout that finds no
buyer was missing.

### AuthTokensProofs

`TokensTypeCorrect`, `RedeemedOnceCorrect`, `ChangesEndSessionsCorrect`,
`CopyIsCurrentCorrect`, all from one inductive invariant `Inv`:

* `RedeemedIsUsed`: what has been redeemed is used up, and nothing but a minted
  link that is not used can be redeemed; this is why the lookup before the
  UPDATE need not be trusted;
* `HeldItems`: the link a request holds exists and keeps its kind (`LinksLast`),
  without which the step after redeeming would have no type;
* `OldSessionsAreOwed`: while a session of an older password lives, some request
  still owes its revocation. `ChangesEndSessions` is weaker and not inductive: it
  tolerates a request that will drop the cached copy and revoke nothing;
* `NothingBefore`: before the account exists there is nothing, which the four
  ways to create it need;
* `FormsHaveAccounts`: the admin site edits an account that exists, so that a commit
  cannot take it away again;
* `CommitsAreUncached`: while an admin's save is about to commit nothing is cached, or
  it was cached early. The commit sends no signal, so `CopyIsCurrent` needs this.

`ChangesEndSessions` compares sessions with the stamp, not the version: that is what
the code promises, and what the admin's reset does not touch.

Each conjunct has a lemma with one step per action.

### CatalogueProofs and StorefrontProofs

The arithmetic, for every amount and rate: `FriendlyIsCharm`,
`FriendlyWholeIsNear` (a converted price moves by at most half a step),
`NonNegativeCharm` (only conversions of 0.24 or less come out negative),
`BaseIsNearest` (the taxed total is within one minor unit of the sticker). They need
division only.

For any owners, markets, releases, rates, containers, parties, requests and bounds:
`StorefrontTypes`, `UndisturbedDeploysHeal`, `RowsNameTheirOwnPrice`,
`HeldPricesCanBeSold`, `CuratedStickersSurvive`, `TeamsAreApart`,
`PurchasesStayTogether`. The inductive invariant `Inv`:

* `StageInv`: a deployment with a slot in hand has it in its batch, and an open
  sweep belongs to a deployment that waits for it;
* `NameInv`: whatever is or will become the id of a row, in the rows, under the
  keys, in what a deployment has fetched or is about to stamp and in the admin's
  form, was minted under that row's key, and prices keep the key they were minted
  under (`KeysStay`). `OneRowPerPrice` follows because keys are distinct; by itself
  it says nothing of the copies in flight and is not inductive;
* `CuratedInv`: a curated sticker is not what an open sweep will write, unless it is
  exposed;
* `HoldersAreLive` itself, which needs `NameInv`: the price a deployment archives is
  held by no key but its own;
* `RowsInv`, `AmountInv`, `MiscInv`: rows never vanish and have amounts, a row of any
  market has its anchor, and anchors have seeded or typed amounts. So every
  conversion is of an amount the assumption speaks of and is not negative, and
  neither is what a sweep is about to write, a batch holds or Stripe is asked for.
  With `StageInv` they give `CatalogueTypeOK`;
* `CalmInv`, for `UndisturbedDeploysHeal` (below);
* `SalesType`, `TeamsGetTheirOwnCustomer` and `Sole`: while a party's requests have
  not overlapped, a request that creates its customer is the only one to, and the
  party has none yet;
* `RefsInv`: a request names a price that Stripe has minted, since rows do
  (`NameInv`) and Stripe keeps prices (`PricesStay`).

`CleanDeployHeals` speaks of the state after a deployment that nobody disturbed, so
the invariant follows such a deployment step by step (`SyncInv`), from whatever
state earlier ones left:

* `BatchOK`: the batch still is what the rows are, but for a `LocalizedPrice`, which
  is read again when its turn comes. A sweep in the middle of the run leaves this
  alone because it moves conversions and stickers, and the pass that may start one
  has no stickers (`PassFacts`);
* `PassedOK`: a row dealt with names a price that matches it and can be sold, or that
  a dead deployment archived. A row not dealt with needs nothing: this is why the
  state before the deployment does not matter;
* `KnownOK`: what the one look at Stripe found can be sold, unless this deployment has
  replaced it since. It starts from `HoldersAreLive`, since nobody else is between
  archive and mint, and no row that keeps its price loses it, since keys are distinct;
* `HandOK`: the price about to be minted or stamped is the one the row asks for.

The passes together reach every row that can be sold (`PassesCover`), so at `Finish`
the rows are as `SettledOK` says, and stay so until somebody writes again.
`SettledIsHonest` reads the two resolutions off that: a row that exists is minted, so
display and checkout agree, and a sticker's base is close to it by `BaseIsNearest`.

The proof changed the model twice. With a currency listed twice in
`BILLING_CURRENCIES` a row is due again after it has been dealt with; `Passed` forgot
it then, and a sweep that moved it did not count as a disturbance. And the VAT rate
had no upper bound, without which the total may be further from the sticker.

### Only model-checked

Liveness (`EventsSettle`, `EveryCallReturns`, `UndisturbedCheckoutsAreGranted`) is out
of the prover's reach. Every other property of the passing runs is proved.

## 5. Plan

1. Webhook pipeline, ledger, their composition; membership and seats; the
   subscription mirror; tokens; catalogue and storefront (done).
2. Proofs of every safety property that a passing run checks (done).
3. The personal plan at team checkout (kept or cancelled), which couples two
   instances of `SubscriptionMirror`, and several subscriptions of one customer.
4. Liveness: `MirrorConverges` as "eventually and for good" once changes stop.

## 6. Not modelled

Request validation that rejects without a state change, serialization, paging,
throttling, email text, logging; read-only endpoints and the read-only
`audit_stripe_catalog`; Stripe products and tax behaviour; plans an admin adds to
the seeded ones; avatars; marketing intake and the admin dashboard; the frontend
and the infrastructure. Of the admin site, hand edits of subscriptions, credit balances
and Stripe ids and the deletion of rows and accounts are out: they can break any
property by themselves. Stripe, Postgres, Celery and Redis appear only through what
the code relies on.
