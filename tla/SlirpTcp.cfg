\* Two sessions of one key, hosts that send two segments, a guest with room for one.
CONSTANTS
    MaxSessions = 2
    HostData = 2
    GuestWindow = 1
    Gap = 10
SPECIFICATION Spec
INVARIANTS EofAfterAllData OrphansExplained AcknowledgedWasForwarded
PROPERTIES WindowRespected CancelledEnds
CHECK_DEADLOCK FALSE
