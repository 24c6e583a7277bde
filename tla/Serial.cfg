\* Two keys, two characters printed on each channel; the prod after two
\* ticks instead of sixteen.
CONSTANTS
    Keys = {"a", "b"}
    TxProd = 2
    MaxTyped = 2
    MaxPrinted = 2
SPECIFICATION SerialSpec
PROPERTIES TypedInOrder KeysDelivered OutputDrains
CHECK_DEADLOCK TRUE
