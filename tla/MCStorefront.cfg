SPECIFICATION Spec
CONSTANTS
    d1 = d1
    d2 = d2
    r1 = r1
    r2 = r2
    Plans <- plans
    TeamPlans <- teamPlans
    Products <- products
    Billing <- billing
    Currencies <- currencies
    ZeroDecimal = {}
    Countries <- countries
    CurrencyOf <- currencyOf
    VatRate <- vatRate
    Releases <- releases
    Stickers <- stickers
    Quotes <- quotes
    Deploys = {d1, d2}
    Beats = {beat}
    Budgets <- budgets
    Users = {"ann", "bob"}
    Orgs = {"acme"}
    OrgOf <- orgOf
    OrgOwners = {"ann"}
    OrgBillers = {"ann"}
    Requests = {r1, r2}
INVARIANTS StorefrontTypeOK OneRowPerPrice HoldersAreLive CleanDeployHeals
    PartiesKeepTheirCustomer TeamsGetTheirOwnCustomer
PROPERTIES CuratedSurvives
SYMMETRY Interchangeable
CHECK_DEADLOCK FALSE
