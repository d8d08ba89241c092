SPECIFICATION Spec
CONSTANTS
    Docs = {d1}
    Ingesters = {i1, i2}
    Cleaners = {c1}
    VectorIds = {v1, v2}
    MaxAttempts = 2
    Faults <- SafetyFaults
    MaxFaults = 2
    None = None
SYMMETRY Symmetric
INVARIANTS
    InFlightLeased
    FinishOwned
    CleanupScheduled
    SourceKept
PROPERTY LifecycleRefined
CHECK_DEADLOCK FALSE
