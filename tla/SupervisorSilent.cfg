SPECIFICATION FairSupSpec
PROPERTY NeverSilent
CHECK_DEADLOCK FALSE
