SPECIFICATION FairSpec
CONSTANTS
  kis = kis
  yahoo = yahoo
  krx = krx
  us = us
  Drivers <- MCDrivers
  Symbols = {krx, us}
  Feeds <- SoleFeeds
  MaxShares = 2
  MaxQty = 2
  Cooldown = 1
  Opening <- RestartOpening
  MaxClock = 2
  MaxTicks = 3
INVARIANTS BrokerAgrees
PROPERTIES LedgerSpec TickCompletes
CHECK_DEADLOCK FALSE
