\* A polling loop, a realtime fetch and a media worker on one task.
SPECIFICATION Spec
CONSTANTS
    Request = request
    Pollers = {p1}
    Fetchers = {f1}
    Workers = {w1}
    Starts <- BothStarts
    Sources <- AllSources
    Quotas <- TwoPrices
    MaxRetry = 1
    MediaStorage = TRUE
    TimeoutOn = TRUE
    ChannelsGo = TRUE
INVARIANTS BillMatchesOutcome
PROPERTIES ImplementsCharge
