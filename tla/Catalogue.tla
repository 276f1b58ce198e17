----------------------------- MODULE Catalogue ------------------------------
(***************************************************************************)
(* The catalogue's price rows and the Stripe prices they name.             *)
(*                                                                         *)
(* Every plan and product has an anchor row (PlanPrice, ProductPrice: the  *)
(* USD amount), a LocalizedPrice per supported currency (the amount        *)
(* converted and rounded) and a CountryPrice per launch country (a         *)
(* tax-inclusive sticker).  Three kinds of process write them without      *)
(* locking: a deployment (infra/entrypoint.sh: seed_catalog, then          *)
(* sync_localized_prices, then sync_stripe_catalog, which mints the Stripe *)
(* prices and stamps their ids on the rows), Celery Beat's daily           *)
(* sync_localized_prices, and the Django admin.                            *)
(*                                                                         *)
(* base_minor is left out: every writer of a sticker derives it from the   *)
(* sticker.  So are the Stripe products behind the prices, tax_behavior    *)
(* and what a price says about itself (names, metadata).  An id of 0 is a  *)
(* placeholder or NULL.  All owners are seeded ones.                       *)
(***************************************************************************)
EXTENDS Pricing, Sequences, FiniteSets

CONSTANTS Plans, Products,  \* what is sold
          Billing,          \* settings.BILLING_CURRENCIES, in order
          Currencies,       \* SUPPORTED_CURRENCIES but for USD
          ZeroDecimal,      \* ZERO_DECIMAL_CURRENCIES
          Countries, CurrencyOf, VatRate,   \* COUNTRY_CURRENCY, STANDARD_VAT_RATES
          Releases,         \* a release seeds USD amounts for the owners it knows
          Stickers,         \* amounts an admin may type
          Quotes,           \* answers of the FX feed: a rate, 0 if missing, per currency
          Deploys,          \* containers that may run the entrypoint
          Beats,            \* workers that run the daily sweep
          Budgets           \* bounds a behaviour may be given

USD == "usd"
Owners == Plans \cup Products
Markets == {USD} \cup Currencies \cup Countries
Slots == Owners \X Markets
BillingCurrencies == {Billing[i] : i \in DOMAIN Billing}

\* Conversions up to 0.24 of a unit are left out: round_friendly answers -0.01.
ASSUME CatalogueAssumption ==
    /\ Currencies \cap Countries = {} /\ USD \notin Currencies \cup Countries
    /\ Billing \in Seq({USD} \cup Currencies) /\ USD \in BillingCurrencies
    /\ ZeroDecimal \subseteq Currencies
    /\ CurrencyOf \in [Countries -> {USD} \cup Currencies]
    /\ VatRate \in [Countries -> 0..1000]
    /\ \A seeds \in Releases : DOMAIN seeds \subseteq Owners /\ \A o \in DOMAIN seeds : seeds[o] \in Nat
    /\ Stickers \subseteq Nat
    /\ \A q \in Quotes : q \in [Currencies -> Nat]
    /\ \A a \in Stickers \cup UNION {{seeds[o] : o \in DOMAIN seeds} : seeds \in Releases} :
           \A q \in Quotes, c \in Currencies : Friendly(a, q[c], c \in ZeroDecimal) \in Nat
    /\ Deploys \cap Beats = {}
    /\ Budgets \subseteq [rollout : Seq(Releases), abreast : Nat, crashes : Nat, sweeps : Nat,
                           edits : Nat, requests : Nat]

VARIABLES row,     \* the price row of each slot
          active,  \* Plan.is_active and Product.is_active
          stripe,  \* the prices minted at Stripe, by id
          holder,  \* the id that holds each lookup key at Stripe, 0 if none does
          job,     \* where each deployment is
          sweep,   \* what each running sync_localized_prices is about to write
          form,    \* the price an admin has open
          left,    \* the bounds of this behaviour: the releases yet to be deployed,
                   \* how many of them abreast, and how much of everything else may still happen
          calm,    \* history: a deployment has run, or is running, undisturbed
          torn,    \* history: keys left between archive and mint by a dead deployment
          exposed  \* history: slots curated while a sweep was about to write them

history == <<calm, torn, exposed>>
catalogueVars == <<row, active, stripe, holder, job, sweep, form, left, history>>

NoRow == [amount |-> -1, curated |-> FALSE, id |-> 0]
NoSweep == [open |-> FALSE, new |-> {}, to |-> <<>>]
NoForm == [slot |-> <<>>, id |-> 0]
Anchor(s) == <<s[1], USD>>
Localized == Owners \X Currencies
National == Owners \X Countries
Idle == [at |-> "idle", pass |-> 0, known |-> <<>>, batch |-> <<>>, slot |-> <<>>,
         amount |-> 0, id |-> 0]

\* The currency of a row, which is that of the Stripe price it asks for.
CurrencyIn(s) == IF s[2] \in Countries THEN CurrencyOf[s[2]] ELSE s[2]

\* Mutant of LookupKey: a country shares the key of its currency.
LookupKeyByCurrency(s) == <<s[1], "", CurrencyIn(s)>>

\* _plan_lookup_key, _product_lookup_key, _country_lookup_key
LookupKey(s) == <<s[1], IF s[2] \in Countries THEN "c" ELSE "", s[2]>>

Keys == {LookupKey(s) : s \in Slots}

Init ==
    /\ row = [s \in Slots |-> NoRow]
    /\ active = [o \in Owners |-> TRUE]
    /\ stripe = <<>> /\ holder = [k \in Keys |-> 0]
    /\ job = [d \in Deploys |-> Idle]
    /\ sweep = [p \in Deploys \cup Beats |-> NoSweep]
    /\ form = NoForm
    /\ left \in Budgets
    /\ calm = "no" /\ torn = {} /\ exposed = {}

Spend(what) == left[what] > 0 /\ left' = [left EXCEPT ![what] = @ - 1]
AllIdle == /\ \A d \in Deploys : job[d] = Idle
           /\ \A p \in Deploys \cup Beats : ~sweep[p].open
           /\ form = NoForm

----------------------------------------------------------------------------
(* seed_catalog: one transaction.                                          *)

\* _seed_plans, _seed_products: an anchor follows the seed and keeps its id.
SeededAnchor(s, seeds) ==
    IF s[1] \in DOMAIN seeds THEN [row[s] EXCEPT !.amount = seeds[s[1]]] ELSE row[s]

\* _seed_country_prices: a sticker starts from the anchor of its owner, if that
\* has one, and is then left alone.
SeededRow(s, seeds) ==
    IF s \in National /\ row[s] = NoRow
    THEN [NoRow EXCEPT !.amount = SeededAnchor(Anchor(s), seeds).amount]
    ELSE IF s \in Localized \cup National THEN row[s] ELSE SeededAnchor(s, seeds)

\* A container of the next release starts.  One that has died is started again:
\* the rollout then names its release twice.
Seed(d) ==
    /\ job[d] = Idle /\ left.rollout # <<>>
    /\ Cardinality({e \in Deploys : job[e] # Idle}) < left.abreast
    /\ left' = [left EXCEPT !.rollout = Tail(@)]
    /\ row' = [s \in Slots |-> SeededRow(s, Head(left.rollout))]
    /\ job' = [job EXCEPT ![d] = [Idle EXCEPT !.at = "sweep"]]
    /\ calm' = IF AllIdle THEN "deploying" ELSE "no"
    /\ UNCHANGED <<active, stripe, holder, sweep, form, torn, exposed>>

----------------------------------------------------------------------------
(* sync_localized_prices: run daily, by a deployment, or by a              *)
(* sync_stripe_catalog that misses a LocalizedPrice.                       *)

\* _suggested_sticker and _compute_new_amounts
Quoted(s, quote) == CurrencyIn(s) = USD \/ quote[CurrencyIn(s)] # 0
Suggested(s, quote) ==
    LET c == CurrencyIn(s)
        amount == row[Anchor(s)].amount
    IN  IF c = USD THEN amount ELSE Friendly(amount, quote[c], c \in ZeroDecimal)

Missing(quote) ==
    {s \in Localized : row[Anchor(s)] # NoRow /\ row[s] = NoRow /\ Quoted(s, quote)}

\* Mutant of Moved: every sticker follows the rate.
MovedAll(quote) ==
    {s \in Localized \cup National :
        row[s] # NoRow /\ Quoted(s, quote) /\ row[s].amount # Suggested(s, quote)}

\* The stability gate, and the filter on is_curated (no LocalizedPrice is).
Moved(quote) ==
    {s \in Localized \cup National :
        /\ row[s] # NoRow /\ ~row[s].curated /\ Quoted(s, quote)
        /\ row[s].amount # Suggested(s, quote)}

\* The transaction reads every row it will write.
SweepRead(p, quote) ==
    /\ ~sweep[p].open
    /\ IF p \in Deploys THEN job[p].at \in {"sweep", "boot"} /\ UNCHANGED left
       ELSE Spend("sweeps")
    /\ sweep' = [sweep EXCEPT ![p] =
           [open |-> TRUE, new |-> Missing(quote),
            to |-> [s \in Missing(quote) \cup Moved(quote) |-> Suggested(s, quote)]]]
    /\ UNCHANGED <<row, active, stripe, holder, job, form, history>>

\* bulk_create runs into rows that another sweep has created.
Collides(p) == \E s \in sweep[p].new : row[s] # NoRow

SweptRow(p, s) ==
    IF s \in DOMAIN sweep[p].to THEN [row[s] EXCEPT !.amount = sweep[p].to[s]] ELSE row[s]

\* The entrypoint goes on whatever became of its sweep; sync_stripe_catalog
\* looks again for the row it misses, and does not survive a failed sweep.
AfterSweep(d) ==
    IF job[d].at = "sweep" THEN [job[d] EXCEPT !.at = "fetch"]
    ELSE IF Collides(d) THEN Idle ELSE [job[d] EXCEPT !.at = "booted"]

\* The passes of sync_stripe_catalog: per currency _sync_plans and _sync_products,
\* at the end _sync_country_prices.
LastPass == 2 * Len(Billing) + 1
PassSlots(n) ==
    IF n = LastPass THEN National
    ELSE (IF n % 2 = 1 THEN Plans ELSE Products) \X {Billing[(n + 1) \div 2]}

\* Rows that the running sync has dealt with, in this pass or in an earlier one.
Passed(d) == {s \in Slots : \E n \in 1..job[d].pass :
                  s \in PassSlots(n) /\ (n < job[d].pass \/ s \notin DOMAIN job[d].batch)}

\* It writes the amounts and commits, or is rolled back.  A sweep in the middle
\* of sync_stripe_catalog disturbs it if it moves rows already dealt with.
SweepCommit(p) ==
    /\ sweep[p].open
    /\ row' = IF Collides(p) THEN row ELSE [s \in Slots |-> SweptRow(p, s)]
    /\ sweep' = [sweep EXCEPT ![p] = NoSweep]
    /\ IF p \in Deploys
       THEN /\ job' = [job EXCEPT ![p] = AfterSweep(p)]
            /\ calm' = IF AfterSweep(p) = Idle \/ DOMAIN sweep[p].to \cap Passed(p) # {}
                       THEN "no" ELSE calm
       ELSE job' = job /\ calm' = "no"
    /\ UNCHANGED <<active, stripe, holder, form, left, torn, exposed>>

\* The FX feed does not answer, or not sensibly: nothing changes.
FeedDown(d) ==
    /\ job[d].at \in {"sweep", "boot"} /\ ~sweep[d].open
    /\ job' = [job EXCEPT ![d].at = IF @ = "sweep" THEN "fetch" ELSE "booted"]
    /\ UNCHANGED <<row, active, stripe, holder, sweep, form, left, history>>

----------------------------------------------------------------------------
(* sync_stripe_catalog.                                                    *)

\* _collect_lookup_keys
Wanted(s) == /\ active[s[1]]
             /\ s[2] \in BillingCurrencies \/ (s \in National /\ row[s] # NoRow)

\* _bulk_fetch_existing: one look at Stripe serves the whole run.
Fetch(d) ==
    /\ job[d].at = "fetch"
    /\ job' = [job EXCEPT ![d] = [Idle EXCEPT !.at = "item",
           !.known = [s \in Slots |-> IF Wanted(s) THEN holder[LookupKey(s)] ELSE 0]]]
    /\ UNCHANGED <<row, active, stripe, holder, sweep, form, left, history>>

\* A pass starts with a query for its rows.
NextPass(d) ==
    /\ job[d].at = "item" /\ job[d].batch = <<>> /\ job[d].pass < LastPass
    /\ LET n == job[d].pass + 1
           due == {s \in PassSlots(n) : /\ active[s[1]]
                                        /\ row[IF s \in National THEN s ELSE Anchor(s)] # NoRow}
       IN  job' = [job EXCEPT ![d].pass = n, ![d].batch = [s \in due |-> row[s]]]
    /\ UNCHANGED <<row, active, stripe, holder, sweep, form, left, history>>

Done(d, s) == [job[d] EXCEPT !.at = "item", !.slot = <<>>, !.amount = 0, !.id = 0,
                             !.batch = [t \in DOMAIN @ \ {s} |-> @[t]]]

\* _unit_amount_for: a LocalizedPrice is read now, not with the batch.
UnitAmount(d, s) ==
    IF s \in Localized THEN row[s].amount
    ELSE IF s \in National THEN DeriveBase(job[d].batch[s].amount, VatRate[s[2]])
    ELSE job[d].batch[s].amount

\* Mutant of PriceMatches: the amount is not looked at.
PriceMatchesCurrency(price, amount, currency) == price.currency = currency

\* _price_matches: an archived price will do.
PriceMatches(price, amount, currency) == price.amount = amount /\ price.currency = currency

\* Mutant of Upsert: the slot is not passed on.
UpsertAnon(d, s) ==
    /\ job' = [job EXCEPT ![d].at = "mint", ![d].amount = UnitAmount(d, s)]
    /\ UNCHANGED stripe

\* Mutant of Upsert: the archived price is not replaced.
UpsertKeeping(d, s) ==
    LET current == job[d].known[s]
        amount == UnitAmount(d, s)
        kept == current # 0
    IN  /\ job' = [job EXCEPT ![d].at = IF kept THEN "stamp" ELSE "mint",
                              ![d].slot = s, ![d].amount = amount,
                              ![d].id = IF kept THEN current ELSE 0]
        /\ stripe' = IF kept /\ ~PriceMatches(stripe[current], amount, CurrencyIn(s))
                     THEN [stripe EXCEPT ![current].live = FALSE] ELSE stripe

\* _upsert_price as far as the archiving of a price that does not match.
Upsert(d, s) ==
    LET current == job[d].known[s]
        amount == UnitAmount(d, s)
        kept == current # 0 /\ PriceMatches(stripe[current], amount, CurrencyIn(s))
    IN  /\ job' = [job EXCEPT ![d].at = IF kept THEN "stamp" ELSE "mint",
                              ![d].slot = s, ![d].amount = amount,
                              ![d].id = IF kept THEN current ELSE 0]
        /\ stripe' = IF kept \/ current = 0 THEN stripe
                     ELSE [stripe EXCEPT ![current].live = FALSE]

\* The next row of the pass; a missing LocalizedPrice calls for a sweep.
Take(d, s) ==
    /\ job[d].at = "item" /\ s \in DOMAIN job[d].batch
    /\ IF s \in Localized /\ row[s] = NoRow
       THEN job' = [job EXCEPT ![d].at = "boot", ![d].slot = s] /\ UNCHANGED stripe
       ELSE Upsert(d, s)
    /\ UNCHANGED <<row, active, holder, sweep, form, left, history>>

\* After that sweep: a row still missing is skipped.
TakeBooted(d) ==
    /\ job[d].at = "booted"
    /\ LET s == job[d].slot IN
       IF row[s] = NoRow
       THEN job' = [job EXCEPT ![d] = Done(d, s)] /\ UNCHANGED stripe
       ELSE Upsert(d, s)
    /\ UNCHANGED <<row, active, holder, sweep, form, left, history>>

\* Price.create: with transfer_lookup_key the key moves to the new price, from
\* an archived one as well.
Mint(d) ==
    /\ job[d].at = "mint"
    /\ LET s == job[d].slot IN
       /\ stripe' = Append(stripe, [key |-> LookupKey(s), amount |-> job[d].amount,
                                    currency |-> CurrencyIn(s), live |-> TRUE])
       /\ holder' = [holder EXCEPT ![LookupKey(s)] = Len(stripe) + 1]
       /\ torn' = torn \ {LookupKey(s)}
    /\ job' = [job EXCEPT ![d].at = "stamp", ![d].id = Len(stripe) + 1]
    /\ UNCHANGED <<row, active, sweep, form, left, calm, exposed>>

\* _write_price_id and the end of _sync_country_prices: the id is compared with
\* the one in the batch, or for a LocalizedPrice with the row's.
Stamp(d) ==
    /\ job[d].at = "stamp"
    /\ LET s == job[d].slot IN
       /\ row' = IF s \in Localized \/ job[d].batch[s].id # job[d].id
                 THEN [row EXCEPT ![s].id = job[d].id] ELSE row
       /\ job' = [job EXCEPT ![d] = Done(d, s)]
    /\ UNCHANGED <<active, stripe, holder, sweep, form, left, history>>

Finish(d) ==
    /\ job[d].at = "item" /\ job[d].batch = <<>> /\ job[d].pass = LastPass
    /\ job' = [job EXCEPT ![d] = Idle]
    /\ calm' = IF calm = "deploying" THEN "settled" ELSE "no"
    /\ UNCHANGED <<row, active, stripe, holder, sweep, form, left, torn, exposed>>

\* The container dies, or a call to Stripe or the database raises; a
\* transaction that was open is rolled back.
Die(d) ==
    /\ job[d] # Idle /\ Spend("crashes")
    /\ job' = [job EXCEPT ![d] = Idle]
    /\ sweep' = [sweep EXCEPT ![d] = NoSweep]
    /\ calm' = "no"
    /\ torn' = IF job[d].at = "mint" /\ job[d].known[job[d].slot] # 0
               THEN torn \cup {LookupKey(job[d].slot)} ELSE torn
    /\ UNCHANGED <<row, active, stripe, holder, form, exposed>>

----------------------------------------------------------------------------
(* The admin.  PlanPriceAdmin and ProductPriceAdmin show and save both the *)
(* amount and the id; CountryPriceAdmin shows the sticker only and saves   *)
(* every column of the row it has read.  A LocalizedPrice is read-only.    *)

OpenForm(s) ==
    /\ form = NoForm /\ s \notin Localized /\ row[s] # NoRow /\ Spend("edits")
    /\ form' = [slot |-> s, id |-> row[s].id]
    /\ UNCHANGED <<row, active, stripe, holder, job, sweep, history>>

\* CountryPriceAdmin.save_model pins is_curated.
EditedRow(amount) == [amount |-> amount, curated |-> form.slot \in National, id |-> form.id]

SaveForm(amount) ==
    /\ form # NoForm
    /\ row' = [row EXCEPT ![form.slot] = EditedRow(amount)]
    /\ form' = NoForm
    /\ calm' = "no"
    /\ exposed' = IF \E p \in Deploys \cup Beats : form.slot \in DOMAIN sweep[p].to
                  THEN exposed \cup {form.slot} ELSE exposed
    /\ UNCHANGED <<active, stripe, holder, job, sweep, left, torn>>

\* PlanAdmin, ProductAdmin: is_active is switched.
Switch(o) ==
    /\ Spend("edits")
    /\ active' = [active EXCEPT ![o] = ~@]
    /\ calm' = "no"
    /\ UNCHANGED <<row, stripe, holder, job, sweep, form, torn, exposed>>

----------------------------------------------------------------------------
Deploy(d) == \/ Seed(d) \/ FeedDown(d) \/ Fetch(d) \/ NextPass(d)
             \/ \E s \in DOMAIN job[d].batch : Take(d, s)
             \/ TakeBooted(d) \/ Mint(d) \/ Stamp(d) \/ Finish(d) \/ Die(d)

Sweep(p) == (\E quote \in Quotes : SweepRead(p, quote)) \/ SweepCommit(p)

Edit == \/ \E s \in Slots : OpenForm(s)
        \/ \E amount \in Stickers : SaveForm(amount)
        \/ \E o \in Owners : Switch(o)

CatalogueNext == \/ \E d \in Deploys : Deploy(d)
                 \/ \E p \in Deploys \cup Beats : Sweep(p)
                 \/ Edit

CatalogueSpec == Init /\ [][CatalogueNext]_catalogueVars

----------------------------------------------------------------------------
Rows == {NoRow} \cup [amount : Nat, curated : BOOLEAN, id : Nat]
Stages == {"idle", "sweep", "fetch", "item", "boot", "booted", "mint", "stamp"}

CatalogueTypeOK ==
    /\ row \in [Slots -> Rows]
    /\ active \in [Owners -> BOOLEAN]
    /\ stripe \in Seq([key : Keys, amount : Nat, currency : {USD} \cup Currencies,
                       live : BOOLEAN])
    /\ holder \in [Keys -> Nat]
    /\ \A d \in Deploys :
           /\ job[d].at \in Stages /\ job[d].pass \in 0..LastPass
           /\ job[d].amount \in Nat /\ job[d].id \in Nat
           /\ job[d].at \in {"item", "boot", "booted", "mint", "stamp"} =>
                  /\ job[d].known \in [Slots -> Nat]
                  /\ DOMAIN job[d].batch \subseteq Slots
           /\ job[d].at \in {"boot", "booted", "mint", "stamp"} =>
                  job[d].slot \in DOMAIN job[d].batch
    /\ \A p \in Deploys \cup Beats : sweep[p].new \subseteq DOMAIN sweep[p].to
    /\ form = NoForm \/ form \in [slot : Slots, id : Nat]
    /\ left \in [rollout : Seq(Releases), abreast : Nat, crashes : Nat, sweeps : Nat,
                 edits : Nat, requests : Nat]
    /\ calm \in {"no", "deploying", "settled"}
    /\ torn \subseteq Keys /\ exposed \subseteq Slots

\* No Stripe price is named by two rows, be it of a currency and of a country
\* that uses it ("France's _c_fr row and a generic _eur row are distinct Stripe
\* Prices"): whatever deployments overlap or die and whatever old id the admin
\* puts back.  Across the tables no constraint of the database says so.
OneRowPerPrice ==
    \A s, t \in Slots : s # t /\ row[s].id # 0 => row[s].id # row[t].id

\* "if amount/currency drift, the old price is archived and a new one is created
\* under the same Stripe Product, transferring the lookup key": the price that
\* the next deployment will find under a key can be sold, unless a deployment is
\* just replacing it, or died there.  _price_matches would keep an archived one.
HoldersAreLive ==
    \A s \in Slots :
        holder[LookupKey(s)] # 0 =>
            \/ stripe[holder[LookupKey(s)]].live
            \/ LookupKey(s) \in torn
            \/ \E d \in Deploys : /\ job[d].at = "mint" /\ job[d].slot = s
                                  /\ job[d].known[s] # 0

\* "a human-curated sticker (is_curated=True) is never moved by the daily FX
\* sweep", nor by a seed: only another edit moves it, and sweeps that had read it
\* before it was curated (that update is lost).
CuratedSurvives ==
    [][\A s \in Slots :
           row[s].curated /\ row'[s].amount # row[s].amount =>
               form.slot = s \/ s \in exposed]_catalogueVars
=============================================================================
