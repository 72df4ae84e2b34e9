CONSTANTS
    g = g
    ua = ua
    ub = ub
    c = c
    t1 = t1
    t2 = t2
    Account = {g, ua, c}
    Genesis = g
    UserA = ua
    UserB = ub
    Worker = {t1, t2}
    Amount = {1}
    NotANumber = 98
    Empty = 99
    GenesisAmount = 1
    GiveAmount = 1
    Deletable = {g, ua, c}
    CreateAmount <- UnusualAmounts
    Timestamp = {0}
    MaxTx = 2
    MaxLog = 2
    Offered <- AllActions
SYMMETRY Threads
SPECIFICATION Spec
INVARIANT TypeOK
PROPERTY BuiltOnLastUnit
