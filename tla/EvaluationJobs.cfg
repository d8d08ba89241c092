SPECIFICATION Spec
CONSTANTS
    Jobs = {j1}
    UnitCount = 2
    MaxWorkers = 2
    MaxAttempts = 2
    Budget = 2
    Keys = {k1, k2}
    Cancels = {c1}
    Faults = {"crash", "preflight", "artifact"}
    MaxFaults = 1
    None = None
SYMMETRY Symmetry
INVARIANTS
    TypeOK
    LeaseExclusive
    UnitsOwned
    TerminalQuiet
PROPERTIES
    NoReplay
    JobRefined
CHECK_DEADLOCK FALSE
