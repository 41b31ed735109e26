SPECIFICATION FairSpec
CONSTANTS
  Stations <- MCStations
  NoCall = NoCall
  NoReason = NoReason
  MaxRetransmissions = 1
  MaxHeard = 2
  MaxArming = 1
PROPERTIES
  NeverInterrupts
  NeverSilent
  StopsWithLease
  StopEndsLoop
