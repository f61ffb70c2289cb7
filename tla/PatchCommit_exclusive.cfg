CONSTANTS
    p1 = p1
    p2 = p2
    None = None
    Value = {}
    Writer = {1, 2}
    Process = {p1, p2}
    WriterOf <- OneEach
    Slot = {1}
    Api = {"patch"}
    MaxCommits = 2
    MaxAdds = 1
    MaxLoads = 1
    MaxRestarts = 0
SPECIFICATION FairSpec
INVARIANTS
    NoPatchLost
    GraphClockIsCausal
PROPERTIES
    GuardsAreReleased
CHECK_DEADLOCK FALSE
