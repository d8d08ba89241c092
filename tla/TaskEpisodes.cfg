SPECIFICATION Spec
CONSTANTS
    Procs = {p1, p2}
    Turns = {t1, t2}
    MaxEpisodes = 2
    MaxItems = 2
    Users = {u1}
    Faults = {"unacked", "restart", "hangup", "expire"}
    MaxFaults = 1
    None = None
SYMMETRY Symmetry
INVARIANTS
    CacheBehind
    CurrentRemains
PROPERTY
    EpisodesMoveForward
CHECK_DEADLOCK FALSE
