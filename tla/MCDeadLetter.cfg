\* A dead-letter write that fails, followed by an XACK that succeeds.
SPECIFICATION Spec
CONSTANTS
    Workers = {w1}
    Messages = {m1}
    NStreams = 1
    MaxFaults = 1
INVARIANT FailedJobKept
