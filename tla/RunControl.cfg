CONSTANTS MaxQueue = 2
SPECIFICATION RunSpec
INVARIANTS RunningIsTruthful NoStaleGoal RebuildAlone
PROPERTIES StopReturns
CHECK_DEADLOCK TRUE
