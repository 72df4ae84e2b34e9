CONSTANTS
    g = g
    ua = ua
    ub = ub
    c = c
    t1 = t1
    r1 = r1
    Account = {g, c}
    Genesis = g
    UserA = ua
    UserB = ub
    Worker = {t1}
    Reader = {r1}
    Amount = {1}
    NotANumber = 98
    Empty = 99
    GenesisAmount = 1
    GiveAmount = 1
    Deletable = {}
    CreateAmount = {1}
    Timestamp = {0}
    MaxTx = 5
    MaxLog = 4
    Offered <- InfoActions
    Asked = {"account_info"}
VIEW WithoutReply
SPECIFICATION QueriesSpec
PROPERTIES NeverBackwards GiveOffered RefusalStands StaleOnlyIfOvertaken
