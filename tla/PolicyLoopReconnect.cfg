\* The session is lost and found again while the loop is not paused.
SPECIFICATION Spec
CONSTANTS
  MaxCycle = 1
  JoinTicks = 6
  Steps = 2
INVARIANTS
  FramesAlwaysContinuePose
CHECK_DEADLOCK FALSE
