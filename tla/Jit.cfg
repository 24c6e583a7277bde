CONSTANTS
    None = None
    PageLen = 2
    Pages = 2
    Images <- MCImages
    Maps <- MCMaps
    Patches = {"lea"}
    Entries = {0, 2}
    Slots = 2
    Threshold = 1
    MinBlockLength = 1
    MaxBailouts = 2
    MaxChanges = 1
    MaxToggles = 1
SPECIFICATION Spec
INVARIANTS StaleExplained FlagsExplained
CHECK_DEADLOCK FALSE
