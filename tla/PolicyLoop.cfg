\* Cycles of at most one period, transitions of two frames, a join of five periods.
SPECIFICATION FairSpec
CONSTANTS
  MaxCycle = 1
  JoinTicks = 5
  Steps = 2
INVARIANTS
  OneSender
  FramesContinuePose
  WalkStartsFromZero
  HandsOverLaying
  LoopEndsFirst
PROPERTIES
  EveryCommandEnds
\* The program ends.
CHECK_DEADLOCK FALSE
