\* Every command, outcome and loss of control at any time.
SPECIFICATION FairSpec
INVARIANTS
  ReleaseClearsStartedAction
  SendEndsAtRest
  ExitGivesControlBack
PROPERTIES
  SignalEndsProgram
\* The program ends.
CHECK_DEADLOCK FALSE
