CONSTANTS
    Requests = {q1}
    Workers = {w1, w2}
    Configs = {A, B}
    Retention = 1
    MaxBoxes = 3
    MaxRevs = 2
    MaxOps = 3
    MaxFaults = 1
    Keys = {k1}
    Outcomes = {"SUCCEEDED"}
    NoKey = none
    MaxExecs = 1
    MaxActive = 1
    Quota = 1
SPECIFICATION Spec
SYMMETRY Symmetry
CHECK_DEADLOCK FALSE
INVARIANTS
    RuntimeSound
    RanOnce
    NoStuckExecution
PROPERTY CancelledNotClaimed
