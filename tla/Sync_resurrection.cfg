CONSTANTS
    None = None
    Value = {}
    Writer <- MCWriter
    HasIsAncestor = TRUE
    Client <- MCClient
    Trusted <- MCTrusted
    Retries = 1
    MaxPatches = 3
    MaxSyncs = 2
SPECIFICATION Spec
INVARIANTS
    NothingComesBack
