CONSTANTS
    p1 = p1
    p2 = p2
    None = None
    Value = {}
    Writer = {1}
    Process = {p1, p2}
    WriterOf <- Contended
    Slot = {1}
    Api = {"patch"}
    MaxCommits = 2
    MaxAdds = 1
    MaxLoads = 0
    MaxRestarts = 0
SPECIFICATION Spec
INVARIANTS
    NoPatchLost
CHECK_DEADLOCK FALSE
