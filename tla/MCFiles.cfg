SPECIFICATION Spec
CONSTANTS
    Keys = {k1, k2, k3}
    NoKey = nokey
    Folders = {d1, d2, d3}
    Root = root
    MaxSize = 3
    Threshold = 2
    Files = {f1, f2}
    NoFile = nofile
    Names = {"a", "b"}
    Requests = {r1, r2}
    NoRequest = norequest
    Jobs = {j1, j2}
    NoJob = nojob
    Spoofed = {k3}
    MaxFile = 2
    Quota = 3
    GuestMax = 1
    MaxTargets = 2
    Scenarios <- MCScenarios
    k1 = k1
    k2 = k2
    k3 = k3
    d1 = d1
    d2 = d2
    d3 = d3
    f1 = f1
    f2 = f2
SYMMETRY Symmetry
CHECK_DEADLOCK FALSE
INVARIANTS
    QuotaHeld
    StoreAgrees
    NothingLeftBehind
    TreeSound
