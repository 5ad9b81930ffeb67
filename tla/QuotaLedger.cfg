CONSTANTS
    u1 = u1
    t1 = t1
    None = None
    Users = {u1}
    Tokens = {t1}
    Unlimited = {}
    Owner <- MCOwner
    Amounts <- MCAmounts
    InitialQuota <- MCInitialQuota
    Bound = 1
    MaxDrafts = 1
SPECIFICATION Spec
INVARIANTS TypeOK SwappedOnlyUnderLock
PROPERTY ImplementsWallet
VIEW WithoutReply
