SPECIFICATION Spec
CONSTANTS
    NoExpiry = NoExpiry
    Procs = {p1, p2}
    Refs = {c1}
    NoRef = NoRef
    Grant <- SmallGrant
    Amount = 2
    Ops = {"change"}
    MaxUnits = 1
    MaxTime = 1
    MaxOps = 2
CHECK_DEADLOCK FALSE
PROPERTIES UpgradedOnce
