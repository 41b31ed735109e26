SPECIFICATION StreamsSpec
CONSTANTS
  Clients = {c1}
  StateQueue = 2
  CloseAfter = 2
  DecodeQueue = 3
  History = 2
  FrameQueue = 2
  FftSize = 4
  Hop = 3
  BlockSize = 2
  MaxPublished = 4
  MaxSample = 9
INVARIANTS
  DecodesInOrder
PROPERTIES
  NewestStateArrives
  ClosedLeaves
CHECK_DEADLOCK FALSE
