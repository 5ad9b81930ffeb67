\* Two requests on one subscription that is too small for both.
SPECIFICATION Spec
CONSTANTS
    Requests = {r1, r2}
    Quotas = {0, 2}
    Fees = {1}
    Total = 3
    MaxPeriods = 1
SYMMETRY Symmetry
INVARIANTS TypeOK ExactCharge NeverPaidBackTwice SubscriptionBooks
CHECK_DEADLOCK FALSE
