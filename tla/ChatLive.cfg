SPECIFICATION FairSpec
CONSTANTS
    Keys = {task}
    TaskKeys = {task}
    Streams = {s1, s2, s3}
    Cancels = {c1}
    Records = 1
    Faults = {"turn_write", "cancel_write", "crash"}
    None = None
PROPERTY RequestsServed
CHECK_DEADLOCK TRUE
