SPECIFICATION PipelineFairSpec
CONSTANTS
    Events = {e1, e2, e3}
    LiveEvents = {e1, e2}
    Requests = {r1, r2}
    Tasks = {t1, t2, t3}
    MaxRetries = 3
    MaxFaults = 2
INVARIANTS PipelineTypeOK OneTaskPerEvent ProcessedIsFinal FreshRowsAreInFlight
PROPERTY EventsSettle
