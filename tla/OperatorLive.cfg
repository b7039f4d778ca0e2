SPECIFICATION FairSpec
CONSTANT Scene <- MCLiveScene
PROPERTY ComesToRest
CHECK_DEADLOCK FALSE
