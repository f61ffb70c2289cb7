CONSTANTS
    None = None
    Value = {}
    Writer <- MCWriter
    CheckpointCached = FALSE
    RemoveOthers = FALSE
    MaxPatches = 3
    MaxCalls = 3
SPECIFICATION Spec
INVARIANTS
    CheckpointCoversFrontier
    MaterializeMissesNothing
    CompactionIsInvisible
