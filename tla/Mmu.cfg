CONSTANTS
    user = user
    kernel = kernel
    nil = nil
    Root = {user, kernel, nil}
    NPages = 2
    NFrames = 4
    Index <- MCIndex
    Configs <- MCConfigs
    ResetConfig <- Zero
    Tables <- MCTables
    Edits <- MCEdits
    MaxEdits = 1
    Overrides <- MCOverrides
    LoadCovered = FALSE
SPECIFICATION Spec
INVARIANTS AtcCoherent CachesCoherent DirtyMarked
CHECK_DEADLOCK TRUE
