CONSTANTS
    Width <- MCWidth
    Regs = {0, 1}
    SP = 1
    DataValues = {135, 248}
    AddressValues = {15, 200}
    Codes <- MCCodes
    Fields = {0, 5}
    Exts = {6, 11}
    Scales = {0, 1}
    Memory <- MCMemory
    Entry = 16
    MaxSteps = 2
    M = 4
    N = 3
    Base = 3
    Digit = 4
    DecimalWords = {0, 2, 4, 10}
    ChainCodes <- MCChainCodes
SPECIFICATION MCSpec
INVARIANTS JitAgrees NumbersExact
CHECK_DEADLOCK FALSE
