\* Two workers; a lease of one tick, so that it can expire at any step.
SPECIFICATION Spec
CONSTANTS
    Workers = {w1, w2}
    NoWorker = NoWorker
    LeaseTime = 1
    Backoff = 1
    MaxAttempts = 2
    MaxInput = 1
    MaxClock = 3
SYMMETRY Symmetry
INVARIANTS TypeOK JobMatchesTask AttemptsBounded ManualFileKept
PROPERTIES ResultIsFinal
CHECK_DEADLOCK FALSE
