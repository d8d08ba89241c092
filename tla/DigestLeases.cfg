SPECIFICATION Spec
CONSTANTS
    None = None
    Quarantine = quarantine
    t1 = t1
    Runs = {r1}
    Pollers = {p1, p2}
    ApiTasks = {a1}
    Messages = {m1}
    ThreadOf <- OneThread
    Titles = {a}
    RunningTimeout = 0
    MaxTime = 1
    MaxFaults = 1
SYMMETRY Symmetric
INVARIANTS TypeOK LeaseExclusive
PROPERTY FreshClaimNotClobbered
