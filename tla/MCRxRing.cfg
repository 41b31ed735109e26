SPECIFICATION Spec
CONSTANTS
  Capacity = 5
  SlotSamples = 3
  Block = 2
  Resync = 2
  Pending = 2
  Jitter = 1
  MaxDelay = 1
  Walls = {1, 7}
  MaxLost = 2
  MaxAdc = 8
  None = None

  
  
PROPERTIES
  ServesOwn
CHECK_DEADLOCK FALSE
