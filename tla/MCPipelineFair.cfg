SPECIFICATION FairSpec
CONSTANTS
    Jobs = {j1}
    NoJob = NoJob
    Guests = {}
    Requests = {r1, r2}
    Ops = {"upload", "retry", "delete"}
    Workers = {w1}
    NStreams = 1
    MaxPubs = 2
    MaxErrors = 1
    MaxFaults = 1
PROPERTIES Settles Announced
