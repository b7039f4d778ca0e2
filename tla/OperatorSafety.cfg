SPECIFICATION Spec
CONSTANT Scene <- MCScene
INVARIANTS TypeOK ConsistentAtRest Settled UpToDate 
PROPERTIES LevelTriggeredSpec PrerequisitesFirst
CHECK_DEADLOCK FALSE
