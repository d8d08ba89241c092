SPECIFICATION Spec
CONSTANTS
    Keys = {chat}
    TaskKeys = {}
    Streams = {s1}
    Cancels = {c1}
    Records = 2
    Faults = {}
    None = None
PROPERTY CancelledStays
CHECK_DEADLOCK TRUE
