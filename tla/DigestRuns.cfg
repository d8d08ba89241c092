SPECIFICATION FairSpec
CONSTANTS
    None = None
    Quarantine = quarantine
    t1 = t1
    Runs = {r1}
    Pollers = {p1}
    ApiTasks = {a1}
    Messages = {m1, m2}
    ThreadOf <- OneThread
    Titles = {a}
    RunningTimeout = 1
    MaxTime = 2
    MaxFaults = 1
INVARIANT RawBodiesBounded
PROPERTIES
    RunRefined
    RunsFinish
    EventsPublished
