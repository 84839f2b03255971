SPECIFICATION Spec
CONSTANTS
  kis = kis
  yahoo = yahoo
  krx = krx
  us = us
  Drivers = {kis, yahoo}
  Symbols = {krx, us}
  Feeds <- MixedFeeds
  Prices = {94, 99, 100}
  Window = 4
  VolWindow = 4
  Period = 2
  Oversold = 30
  Overbought = 70
  Weight <- EqualWeights
  Threshold = 30
  Confidences = {60}
  MaxDrop = 5
  MaxCv = 3
  Linear = TRUE
  FixedQty = 1
  MinQty = 1
  MaxQty = 4
  MinConf = 50
  MaxTicks = 4
INVARIANTS TypeOK BreakerIsCurrent OrderHasBacking OrderOnTheLine
PROPERTIES PipelineSpec
CHECK_DEADLOCK FALSE
