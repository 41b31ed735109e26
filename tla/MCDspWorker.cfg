SPECIFICATION FairSpec
CONSTANTS
  Encoders <- MCEncoders
  Decoders <- MCDecoders
  Nobody = Nobody
  MaxCalls = 2
INVARIANTS
  OneWorker
  GetsOwn
PROPERTIES
  CallsEnd
CHECK_DEADLOCK FALSE
