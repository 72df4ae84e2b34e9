CONSTANTS
    c1 = c1
    c2 = c2
    Conn = {c1, c2}
    Message <- AllMessages
    StoreError = {"store_error"}
    MaxExceptions = 1
    MaxErrors = 2
    MaxRestarts = 1
    MaxAccepts = 2
SYMMETRY Clients
SPECIFICATION Spec
INVARIANTS TypeOK AcceptsAccounted OneResponse FlatBodyWhole
PROPERTY ImplementsCallService
CHECK_DEADLOCK FALSE
