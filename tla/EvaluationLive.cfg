SPECIFICATION FairSpec
CONSTANTS
    Jobs = {j1}
    UnitCount = 2
    MaxWorkers = 1
    MaxAttempts = 2
    Budget = 2
    Keys = {k1}
    Cancels = {c1}
    Faults = {"crash", "preflight", "artifact"}
    MaxFaults = 1
    None = None
PROPERTIES
    JobsEnd
    CancellationsEnd
CHECK_DEADLOCK FALSE
