SPECIFICATION Spec
CONSTANTS
  Siblings <- MCSiblings
INVARIANT DrainedAtExit
CHECK_DEADLOCK FALSE
