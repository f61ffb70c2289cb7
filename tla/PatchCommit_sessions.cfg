CONSTANTS
    p1 = p1
    p2 = p2
    None = None
    Value = {}
    Writer = {1}
    Process = {p1}
    WriterOf <- Alone
    Slot = {1, 2}
    Api = {"createPatch", "beginPatch"}
    MaxCommits = 2
    MaxAdds = 1
    MaxLoads = 1
    MaxRestarts = 1
SPECIFICATION Spec
INVARIANTS
    ChainsAscend
    GraphDotsAreNew
CHECK_DEADLOCK FALSE
