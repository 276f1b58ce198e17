SPECIFICATION LedgerFairSpec
CONSTANTS
    Procs = {p1, p2}
    Sessions <- MCSessions
    Owners = {"org", "user"}
    OwnerOf <- MCOwnerOf
    CreditsOf <- MCCreditsOf
    MaxBalance = 2
INVARIANTS LedgerTypeOK BalanceIsLedgerSum LocksProtectGrants
PROPERTIES ImplementsPromise EveryCallReturns
