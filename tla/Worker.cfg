SPECIFICATION FairSpec
CONSTANTS
  FlushThreshold = 2
  BufferMax = 3
  MaxPublished = 4
  MaxEnvelopes = 2
  KeyOf <- MCKeyOf
INVARIANTS TypeOK TickConservation AuditConservation BufferBelowThreshold StopSettles
PROPERTIES BufferedIsFlushed StopEnds
CHECK_DEADLOCK FALSE
