\* Rings of two descriptors, three frames out and three in, one of them too big.
CONSTANTS
    RxLen = 2
    TxLen = 2
    MaxTx = 3
    MaxReads = 2
    Kind = {"syn", "ack", "probe"}
    TooBig = {"big"}
    Frames <- MCFrames
SPECIFICATION MCSpec
INVARIANTS WorkIsSignalled TapLosesOnlyAbandoned
PROPERTIES FramesInOrder RxDelivered
CHECK_DEADLOCK FALSE
