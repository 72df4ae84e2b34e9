CONSTANTS
    a = a
    Account = {a}
    Owner = a
    Tag = {"x"}
    IntMax = 7
    Request <- Requests
    ClientPerPage = {1, 2}
    MaxBlocks = 3
SPECIFICATION Spec
INVARIANTS OneNameEach PageIsSlice PageBounded NothingSkipped
