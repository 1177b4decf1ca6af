SPECIFICATION Spec
CONSTANTS
    Jobs = {j1}
    NoJob = NoJob
    Guests = {}
    Requests = {r1, r2}
    Ops = {"upload", "library", "retry", "delete", "deleteRange"}
    Workers = {w1, w2}
    NStreams = 1
    MaxPubs = 2
    MaxErrors = 1
    MaxFaults = 1
SYMMETRY Symmetry
INVARIANTS IInv OutputBacked ChargedOnce NoStuckJob CompletedVisible
PROPERTY DownloadKept
