----------------------------- MODULE Storefront -----------------------------
(***************************************************************************)
(* What visitors are shown and what they are sold: the price resolution of *)
(* apps/billing/views.py and serializers.py over the rows of Catalogue,    *)
(* and the checkout and portal endpoints with get_or_create_customer and   *)
(* the sessions of saasmint_core/services/billing.py, up to the webhook    *)
(* that mirrors a plan that has been paid for.                             *)
(*                                                                         *)
(* Membership does not change here (OrgRoles is about that), nor do the    *)
(* customers of orgs, which their team checkout has created.  Credits are  *)
(* granted by CreditFulfilment's rules.  Seat counts, trials, redirects    *)
(* and locales are passed through to Stripe and stay out.                  *)
(***************************************************************************)
EXTENDS Catalogue

CONSTANTS TeamPlans,  \* plans whose context is TEAM
          Users, Orgs,
          OrgOf,      \* the membership each user's queries find first, NoOrg without one
          OrgOwners,  \* users with the role OWNER there
          OrgBillers, \* users with is_billing there
          Requests    \* requests to the checkout and portal endpoints

NoOrg == "no org"
Unknown == "unknown"
Elsewhere == "elsewhere"  \* a country without rows
Parties == Users \cup Orgs

ASSUME StorefrontAssumption ==
    /\ TeamPlans \subseteq Plans
    /\ OrgOf \in [Users -> Orgs \cup {NoOrg}]
    /\ OrgOwners \cup OrgBillers \subseteq {u \in Users : OrgOf[u] # NoOrg}
    /\ IsFiniteSet(Orgs) /\ Users \cap Orgs = {} /\ NoOrg \notin Orgs

VARIABLES customer,   \* StripeCustomer.stripe_id of each party, 0 without a row
          customers,  \* how many customers Stripe has created
          req,        \* the requests, and what has become of their sessions
          overlapped  \* history: parties whose customer two requests created

salesVars == <<customer, customers, req, overlapped>>
vars == <<catalogueVars, salesVars>>

----------------------------------------------------------------------------
(* Resolution.                                                             *)

\* _resolve_pricing_country: ?country= wins over the locale, that over the edge.
Places == Countries \cup {Elsewhere, Unknown}
PricingCountry(override, locale, edge) ==
    IF override # Unknown THEN override ELSE IF locale # Unknown THEN locale ELSE edge

\* _resolve_billing_currency: ?currency= wins over preferred_currency; what is
\* not billed falls back to USD.
BillingCurrency(query, preferred) ==
    LET target == IF query # Unknown THEN query ELSE preferred
    IN  IF target \in BillingCurrencies THEN target ELSE USD

\* The country and the currency that any request can resolve to.
Visits ==
    LET tags == {USD, Unknown} \cup Currencies
    IN  {<<PricingCountry(o, l, e), BillingCurrency(q, p)>> :
            o \in Places, l \in Places, e \in Places, q \in tags, p \in tags}

Minted(s) == row[s].id # 0

\* _get_country_stripe_price and _country_prices_prefetch
NationalPrice(o, country) == country \in Countries /\ Minted(<<o, country>>)

\* to_representation: the sticker if it can be sold, else the LocalizedPrice,
\* minted or not, else the anchor.
Displayed(o, visit) ==
    IF NationalPrice(o, visit[1]) THEN <<o, visit[1]>>
    ELSE <<o, IF row[<<o, visit[2]>>] # NoRow THEN visit[2] ELSE USD>>

\* _resolve_checkout_price and _resolve_stripe_price_id: the same, but an
\* unminted LocalizedPrice is passed over.
Sold(o, visit) ==
    IF NationalPrice(o, visit[1]) THEN <<o, visit[1]>>
    ELSE <<o, IF Minted(<<o, visit[2]>>) THEN visit[2] ELSE USD>>

\* The billing_currency that goes with it, which turns adaptive_pricing off.
BilledIn(o, visit) ==
    IF NationalPrice(o, visit[1]) THEN CurrencyIn(<<o, visit[1]>>) ELSE visit[2]

----------------------------------------------------------------------------
(* The endpoints.                                                          *)

NoRequest == [at |-> "idle", kind |-> "none", party |-> NoOrg, price |-> 0,
              customer |-> 0]
Goto(r, at) == req' = [req EXCEPT ![r].at = at]

SalesInit ==
    /\ customers = Cardinality(Orgs)
    /\ customer \in {f \in [Parties -> 0..customers] :
                        /\ \A p \in Parties : f[p] = 0 <=> p \in Users
                        /\ \A p, q \in Orgs : f[p] = f[q] => p = q}
    /\ req = [r \in Requests |-> NoRequest]
    /\ overlapped = {}

Request(at, kind, party, o, visit) ==
    [at |-> at, kind |-> kind, party |-> party, price |-> row[Sold(o, visit)].id, customer |-> 0]
OnSale(o) == active[o] /\ row[<<o, USD>>] # NoRow

\* CheckoutSessionView, for a personal plan.
AskPersonal(r, u, o, visit) ==
    /\ o \in Plans \ TeamPlans /\ OnSale(o)
    /\ req' = [req EXCEPT ![r] = Request("customer", "personal", u, o, visit)]

\* Mutant of AskTeam: the team is sold on the user's own customer.
AskTeamAsUser(r, u, o, visit) ==
    /\ o \in TeamPlans /\ OnSale(o) /\ u \notin OrgOwners
    /\ req' = [req EXCEPT ![r] = Request("customer", "team", u, o, visit)]

\* CheckoutSessionView, for a team plan: not for who owns an org already
\* (_validate_team_checkout), and on a customer of its own.
AskTeam(r, u, o, visit) ==
    /\ o \in TeamPlans /\ OnSale(o) /\ u \notin OrgOwners
    /\ req' = [req EXCEPT ![r] = Request("create", "team", u, o, visit)]

\* ProductCheckoutSessionView: for oneself, or as its owner for the org
\* (_resolve_product_purchase_context).
AskCredits(r, u, o, party, visit) ==
    /\ o \in Products /\ OnSale(o)
    /\ party = u \/ (party = OrgOf[u] /\ u \in OrgOwners)
    /\ req' = [req EXCEPT ![r] = Request("customer", "credits", party, o, visit)]

\* PortalSessionView: for oneself, or for an org one handles the billing of.
AskPortal(r, u, party) ==
    /\ party = u \/ (party = OrgOf[u] /\ u \in OrgBillers)
    /\ req' = [req EXCEPT ![r] = [NoRequest EXCEPT
           !.at = "customer", !.kind = "portal", !.party = party]]

Ask(r) ==
    /\ req[r].at = "idle" /\ Spend("requests")
    /\ \E u \in Users :
           \/ \E o \in Owners, visit \in Visits :
                  \/ AskPersonal(r, u, o, visit) \/ AskTeam(r, u, o, visit)
                  \/ \E party \in Parties : AskCredits(r, u, o, party, visit)
           \/ \E party \in Parties : AskPortal(r, u, party)
    /\ UNCHANGED <<row, active, stripe, holder, job, sweep, form, history, customer,
                   customers, overlapped>>

Creating(p) == {q \in Requests : req[q].party = p /\ req[q].kind # "team"
                                 /\ req[q].at \in {"create", "save"}}

\* get_or_create_customer looks for the row; an org's portal does not make one.
ReadCustomer(r) ==
    LET p == req[r].party
        missing == customer[p] = 0
    IN  /\ req[r].at = "customer"
        /\ req' = [req EXCEPT ![r].customer = customer[p],
                              ![r].at = IF ~missing THEN "session"
                                        ELSE IF req[r].kind = "portal" /\ p \in Orgs
                                             THEN "refused" ELSE "create"]
        /\ overlapped' = IF missing /\ Creating(p) # {} THEN overlapped \cup {p} ELSE overlapped
        /\ UNCHANGED <<catalogueVars, customer, customers>>

\* Customer.create; create_team_stripe_customer keeps no row of it.
CreateCustomer(r) ==
    /\ req[r].at = "create"
    /\ customers' = customers + 1
    /\ req' = [req EXCEPT ![r].customer = customers + 1,
                          ![r].at = IF req[r].kind = "team" THEN "session" ELSE "save"]
    /\ UNCHANGED <<catalogueVars, customer, overlapped>>

\* Mutant of SaveCustomer: the row is not saved.
SaveNoCustomer(r) ==
    /\ req[r].at = "save"
    /\ Goto(r, "session")
    /\ UNCHANGED <<catalogueVars, customer, customers, overlapped>>

\* DjangoStripeCustomerRepository.save: update_or_create by user or org.
SaveCustomer(r) ==
    /\ req[r].at = "save"
    /\ customer' = [customer EXCEPT ![req[r].party] = req[r].customer]
    /\ Goto(r, "session")
    /\ UNCHANGED <<catalogueVars, customers, overlapped>>

\* checkout.Session.create, which Stripe refuses for a price that is unknown or
\* archived; billing_portal.Session.create.
OpenSession(r) ==
    /\ req[r].at = "session"
    /\ Goto(r, IF req[r].kind = "portal" THEN "done"
               ELSE IF req[r].price # 0 /\ stripe[req[r].price].live THEN "open" ELSE "refused")
    /\ UNCHANGED <<catalogueVars, customer, customers, overlapped>>

\* A call to Stripe or the database fails, or the server dies.
RequestDies(r) ==
    /\ req[r].at \in {"customer", "create", "save", "session"}
    /\ Goto(r, "refused")
    /\ UNCHANGED <<catalogueVars, customer, customers, overlapped>>

\* Stripe (external): the visitor pays, at the price the session was opened with.
Pay(r) ==
    /\ req[r].at = "open"
    /\ Goto(r, "paid")
    /\ UNCHANGED <<catalogueVars, customer, customers, overlapped>>

\* get_price_by_stripe_id, which looks at PlanPrice only.
KnownPrice(id) == \E o \in Plans : row[<<o, USD>>].id = id

\* sync_subscription_from_data, for a team after its customer is saved: an
\* unknown customer or price is an error for good.  Credits need neither.
Webhook(r) ==
    /\ req[r].at = "paid"
    /\ LET known == /\ KnownPrice(req[r].price)
                    /\ req[r].kind = "team" \/ customer[req[r].party] = req[r].customer
       IN  Goto(r, IF req[r].kind = "credits" THEN "granted"
                   ELSE IF known THEN "mirrored" ELSE "rejected")
    /\ UNCHANGED <<catalogueVars, customer, customers, overlapped>>

----------------------------------------------------------------------------
Sell(r) == \/ Ask(r) \/ ReadCustomer(r) \/ CreateCustomer(r) \/ SaveCustomer(r)
           \/ OpenSession(r) \/ RequestDies(r) \/ Pay(r) \/ Webhook(r)

Next == \/ CatalogueNext /\ UNCHANGED salesVars
        \/ \E r \in Requests : Sell(r)

StorefrontInit == Init /\ SalesInit
Spec == StorefrontInit /\ [][Next]_vars

----------------------------------------------------------------------------
StorefrontTypeOK ==
    /\ CatalogueTypeOK
    /\ customer \in [Parties -> 0..customers]
    /\ \A r \in Requests :
           /\ req[r].at \in {"idle", "customer", "create", "save", "session", "open", "paid",
                             "mirrored", "granted", "rejected", "refused", "done"}
           /\ req[r].price \in 0..Len(stripe) /\ req[r].customer \in 0..customers
    /\ overlapped \subseteq Parties

\* What a visitor is shown is what checkout will charge: the price can be sold,
\* in the currency shown, at the amount shown, or for a tax-inclusive sticker at
\* a base that comes to it within one minor unit; and the currency handed to
\* Stripe along with it is its own, save where the FX feed has never answered.
Honest(o, visit) ==
    LET shown == Displayed(o, visit)
        id == row[Sold(o, visit)].id
    IN  /\ id # 0 /\ stripe[id].live
        /\ stripe[id].currency = CurrencyIn(shown)
        /\ IF shown \in National
           THEN Distance(WithTax(stripe[id].amount, VatRate[shown[2]]), row[shown].amount) <= 1
           ELSE stripe[id].amount = row[shown].amount
        /\ BilledIn(o, visit) = stripe[id].currency \/ row[<<o, visit[2]>>] = NoRow

\* "Displayed price equals the consumer checkout total" (openspec/specs/billing):
\* a deployment that ran to its end with nobody else writing makes it so for
\* every visitor, whatever dead or overlapping deployments, sweeps and edits
\* came before - but for a price that a dead one archived without replacing.
CleanDeployHeals ==
    calm = "settled" =>
        \A o \in Owners, visit \in Visits :
            OnSale(o) /\ LookupKey(Sold(o, visit)) \notin torn => Honest(o, visit)

\* Everything a user or an org buys is on the Stripe customer its row names,
\* requests that died half-way included, so that webhooks find the row by it;
\* unless two requests of a party without a customer overlapped.
PartiesKeepTheirCustomer ==
    \A r \in Requests :
        /\ req[r].at \in {"open", "paid"} /\ req[r].kind \in {"personal", "credits"}
        /\ req[r].party \notin overlapped
        => customer[req[r].party] = req[r].customer

\* "They must be different Stripe customers so each can keep its own locked
\* currency and payment method (rule 3)": a team checkout is on a customer that
\* no party has and no other request uses.
TeamsGetTheirOwnCustomer ==
    \A r \in Requests :
        req[r].kind = "team" /\ req[r].customer # 0 =>
            /\ \A p \in Parties : customer[p] # req[r].customer
            /\ \A q \in Requests \ {r} : req[q].customer # req[r].customer

\* "Every Subscription row SHALL be a pure mirror of a Stripe subscription" and
\* "Absence of a row SHALL mean the free tier" (openspec/specs/billing/spec.md):
\* no plan that has been paid for is turned away by the webhook that mirrors it.
PaidIsMirrored == \A r \in Requests : req[r].at # "rejected"
=============================================================================
