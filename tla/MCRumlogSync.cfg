SPECIFICATION SyncSpec
CONSTANTS
  Calls = {x}
  x = x
  Times = {1, 2, 4}
  Window = 2
  ConfirmRetries = 2
  BatchSize = 2
  MaxQsos = 2
  MaxRows = 1
  MaxFaults = 2
INVARIANTS
  PulledIsKept
  NeverEchoed
  
PROPERTY
  Converges
