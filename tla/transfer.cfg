CONSTANTS
    g = g
    ua = ua
    ub = ub
    c = c
    t1 = t1
    t2 = t2
    Account = {g, ua}
    Genesis = g
    UserA = ua
    UserB = ub
    Worker = {t1, t2}
    Amount <- SignedAmounts
    NotANumber = 98
    Empty = 99
    GenesisAmount = 1
    GiveAmount = 1
    Deletable = {}
    CreateAmount = {1}
    Timestamp = {0}
    MaxTx = 4
    MaxLog = 4
    Offered <- TransferActions
SYMMETRY Threads
VIEW WithoutAnswer
SPECIFICATION Spec
INVARIANT TransferOutCovered
