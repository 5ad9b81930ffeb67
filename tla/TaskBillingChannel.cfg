\* The channel of the task may be deleted.
SPECIFICATION FairSpec
CONSTANTS
    Request = request
    Pollers = {p1}
    Fetchers = {}
    Workers = {}
    Starts <- NewTask
    Sources <- WalletOnly
    Quotas <- TwoPrices
    MaxRetry = 1
    MediaStorage = FALSE
    TimeoutOn = TRUE
    ChannelsGo = TRUE
PROPERTIES InterruptedIsRefunded
