CONSTANTS
    n1 = n1
    l1 = l1
    k1 = k1
    v1 = v1
    None = None
    Writer <- MCWriter
    Sha = {1, 2, 3}
    Node = {n1}
    Label = {l1}
    Key = {k1}
    Value = {v1}
    Menu <- MCMenu
    onDeleteWithData = "cascade"
SPECIFICATION Spec
INVARIANTS
    StateReflectsPatches
    StrongConvergence
    DotsUnique
    CausalWriteWins
    CascadeRemovesKnownEdges
PROPERTIES
    StatesOnlyGrow
    ReceiptsAreTruthful
