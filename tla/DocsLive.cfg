SPECIFICATION FairSpec
CONSTANTS
    Docs = {d1}
    Ingesters = {i1}
    Cleaners = {c1}
    VectorIds = {v1, v2, v3, v4}
    MaxAttempts = 2
    Faults <- CrashAndStore
    MaxFaults = 2
    None = None
INVARIANT ReadyRetrievable
PROPERTIES UploadsSettle DeletionsComplete
CHECK_DEADLOCK FALSE
