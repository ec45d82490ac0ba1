\* A program ends: there is no next step then.  Sleeps are capped at three
\* units of a wait of five, and last no less than two in one of the programs.
SPECIFICATION PartSpec
CHECK_DEADLOCK FALSE
CONSTANTS
  Timeout = 5
  Cap = 3
  LeastSleep = 2
  MaxChanges = 3
  ChecksStop = TRUE
INVARIANTS
  NothingLeftOpen
  SuccessMeansClosed
  OverlooksAtMostOneSleep
PROPERTIES
  InnerFirst
  KeepsWaitContract
