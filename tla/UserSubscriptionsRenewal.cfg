\* A subscription is renewed before it ends.
SPECIFICATION SubsSpec
CONSTANTS
    Plans = {monthly}
    PlanGroup <- OnePlan
    Duration <- OneTick
    MaxPurchase <- NoLimit
    NoGroup = ""
    Base = "default"
    MaxSubs = 2
    Horizon = 3
INVARIANT RevertsToPrevious
CHECK_DEADLOCK FALSE
