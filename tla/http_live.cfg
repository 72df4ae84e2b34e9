CONSTANTS
    c1 = c1
    c2 = c2
    Conn = {c1, c2}
    Message <- FlatPosts
    StoreError = {}
    MaxExceptions = 1
    MaxErrors = 0
    MaxRestarts = 1
    MaxAccepts = 2
SPECIFICATION FairSpec
PROPERTY EveryPostServed
CHECK_DEADLOCK FALSE
