\* An exit after motion that the console does not attribute to an action.
SPECIFICATION Spec
INVARIANTS
  QuitClearsVelocity
CHECK_DEADLOCK FALSE
