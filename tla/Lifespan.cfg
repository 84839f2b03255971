SPECIFICATION FairSpec
CONSTANTS
  Siblings <- MCSiblings
INVARIANTS TypeOK OneWriter CleanStop RefreshBeforeTeardown QuietBeforeDrain ResourcesOutliveUsers
PROPERTIES FailsOver ShutdownEnds
CHECK_DEADLOCK FALSE
