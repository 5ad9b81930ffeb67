\* One order of any kind and provider, two handlers.
SPECIFICATION Spec
CONSTANTS
    None = None
    Handlers = {h1, h2}
    Mutexes = {m1, m2}
    Trades = {t1}
    PlanOf <- MCPlanOf
    Amount <- MCAmount
    Money <- MCMoney
    QuotaPerUnit = 3
    Plans = {monthly}
    PlanGroup <- MCGroup
    Duration <- MCOne
    MaxPurchase <- MCTwo
    NoGroup = ""
    Base = "default"
    MaxSubs = 2
    Horizon = 1
SYMMETRY Symmetry
INVARIANTS TypeOK OneAtATime PaidOutOnce OnlyWhenPaid PaidOutIsSuccess AckedIsSettled KeptWhileActive LoneUpgradeReverts
CHECK_DEADLOCK FALSE
