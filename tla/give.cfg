CONSTANTS
    g = g
    ua = ua
    ub = ub
    c = c
    t1 = t1
    t2 = t2
    Account = {g, ua}
    Genesis = g
    UserA = ua
    UserB = ub
    Worker = {t1, t2}
    Amount = {1}
    NotANumber = 98
    Empty = 99
    GenesisAmount = 1
    GiveAmount = 1
    Deletable = {ua}
    CreateAmount = {1}
    Timestamp = {0}
    MaxTx = 4
    MaxLog = 5
    Offered <- GiveActions
SYMMETRY Threads
VIEW WithoutAnswer
SPECIFICATION Spec
INVARIANT GrantedOnce
PROPERTIES AlreadyGiveTruthful ImplementsFaucet
