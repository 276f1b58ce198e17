SPECIFICATION FairSpec
CONSTANTS
    Events <- MCEvents
    LiveEvents <- MCEvents
    Requests = {r1}
    Tasks = {t1, t2, t3}
    Procs = {t1, t2, t3}
    MaxRetries = 1
    MaxFaults = 1
    Sessions <- MCSessions
    Owners = {"org"}
    OwnerOf <- MCOwnerOf
    CreditsOf <- MCCreditsOf
    MaxBalance = 2
    SessionOf <- MCSessionOf
    Complete = {"s1"}
INVARIANTS TypeOK ProcessedIsFulfilled FailedIsNotGranted
PROPERTIES GrantsOnce UndisturbedCheckoutsAreGranted
