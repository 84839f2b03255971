SPECIFICATION Spec
CONSTANTS
  FlushThreshold = 2
  BufferMax = 3
  MaxPublished = 4
  MaxEnvelopes = 2
  KeyOf <- MCKeyOf
INVARIANT InsertedIsStored
CHECK_DEADLOCK FALSE
