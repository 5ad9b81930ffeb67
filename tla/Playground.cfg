\* Three requests on one page; a poll long enough for the longest back-off.
SPECIFICATION FairSpec
CONSTANTS
    MaxRequests = 3
    PollLimit = 8
    None = None
    Notice = Notice
    Words = Words
INVARIANTS OwnAnswer BusyIsGenerated WaitsForSomething
PROPERTY GenerationEnds
CHECK_DEADLOCK FALSE
