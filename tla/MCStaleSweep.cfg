\* Two tiers: a read hands out two entries, which may take a timeout each.
SPECIFICATION FairStaleSpec
CONSTANTS
    Workers = {w1, w2}
    Messages = {m1, m2}
    NStreams = 2
    MaxFaults = 1
    Timeout = 1
    Margin = 1
    Tries = 2
INVARIANT HeldOnce
PROPERTY Drains
