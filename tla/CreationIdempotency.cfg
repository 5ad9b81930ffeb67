\* Three requests with one key, two of which may be the same, and responses on
\* both sides of the limit.
SPECIFICATION FairSpec
CONSTANTS
    None = None
    Requests = {r1, r2, r3}
    Keys = {k1}
    Hashes = {a, b}
    Limit = 1
    MaxBody = 2
INVARIANTS TypeOK OneSubmission ReplayFaithful HeldByOwner
PROPERTY Answered
CHECK_DEADLOCK FALSE
