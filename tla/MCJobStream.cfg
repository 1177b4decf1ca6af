\* Two tiers, two workers, two jobs; two faults of any kind.
SPECIFICATION Spec
CONSTANTS
    Workers = {w1, w2}
    Messages = {m1, m2}
    NStreams = 2
    MaxFaults = 2
SYMMETRY Symmetry
INVARIANTS NoLoss IInv
PROPERTY AtLeastOnce
