\* Recovery by one polling loop; the channel stays.
SPECIFICATION FairSpec
CONSTANTS
    Request = request
    Pollers = {p1}
    Fetchers = {}
    Workers = {}
    Starts <- NewTask
    Sources <- WalletOnly
    Quotas <- TwoPrices
    MaxRetry = 1
    MediaStorage = FALSE
    TimeoutOn = TRUE
    ChannelsGo = FALSE
PROPERTIES EveryTaskIsBilled
