SPECIFICATION Spec
CONSTANTS
    Jobs = {j1, j2}
    NoJob = NoJob
    Guests = {j2}
    Requests = {r1, r2}
    Ops = {"guest", "batch"}
    Workers = {w1, w2}
    NStreams = 1
    MaxPubs = 1
    MaxErrors = 0
    MaxFaults = 1
SYMMETRY Symmetry
INVARIANT ChargeBacked
