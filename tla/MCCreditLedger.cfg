SPECIFICATION Spec
CONSTANTS
    NoExpiry = NoExpiry
    Procs = {p1, p2}
    Refs = {c1, c2}
    NoRef = NoRef
    Grant <- SmallGrant
    Amount = 2
    Ops = {"consume", "purchase", "change", "webhook", "cancel", "prefer"}
    MaxUnits = 1
    MaxTime = 1
    MaxOps = 4
CHECK_DEADLOCK FALSE
SYMMETRY Symmetry
INVARIANTS IInv BoughtBacked
