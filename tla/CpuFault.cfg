CONSTANTS
    Words = 2
    MaxDepth = 2
    Jits = {TRUE, FALSE}
    SplitVectors = FALSE
SPECIFICATION Spec
INVARIANTS FaultTaken StackBalanced
CHECK_DEADLOCK TRUE
