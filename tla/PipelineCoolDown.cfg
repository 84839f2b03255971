SPECIFICATION Spec
CONSTANTS
  kis = kis
  yahoo = yahoo
  krx = krx
  us = us
  Drivers <- MCDrivers
  Symbols = {krx}
  Feeds <- SharedFeeds
  MaxShares = 2
  MaxQty = 2
  Cooldown = 1
  Opening <- RestartOpening
  MaxClock = 2
  MaxTicks = 3
PROPERTY CoolDownSpacing
CHECK_DEADLOCK FALSE
