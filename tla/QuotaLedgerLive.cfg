CONSTANTS
    u1 = u1
    t1 = t1
    None = None
    Users = {u1}
    Tokens = {}
    Unlimited = {}
    Owner <- MCOwner
    Amounts <- MCAmounts
    InitialQuota <- MCInitialQuota
    Bound = 1
    MaxDrafts = 1
SPECIFICATION FairSpec
PROPERTY QueuedChangesDrain
