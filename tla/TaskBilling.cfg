\* Two polling loops against one request; no media storage.
SPECIFICATION Spec
CONSTANTS
    Request = request
    Pollers = {p1, p2}
    Fetchers = {}
    Workers = {}
    Starts <- BothStarts
    Sources <- AllSources
    Quotas <- TwoPrices
    MaxRetry = 1
    MediaStorage = FALSE
    TimeoutOn = TRUE
    ChannelsGo = TRUE
SYMMETRY Symmetry
INVARIANTS TypeOK ChargeMatchesRow ErrorNeverCharges BillMatchesOutcome DeliveredIsLogged
PROPERTIES ImplementsCharge
