SPECIFICATION Spec
CONSTANTS
    Keys = {task, chat}
    TaskKeys = {task}
    Streams = {s1, s2}
    Cancels = {c1}
    Records = 2
    Faults = {"turn_write", "crash"}
    None = None
SYMMETRY Symmetry
INVARIANTS
    CachedDurable
    RememberedOnce
PROPERTY
    CompletedStays
CHECK_DEADLOCK TRUE
