SPECIFICATION FairSeqSpec
CONSTANTS
  Stations <- MCStations
  NoCall = NoCall
  NoReason = NoReason
  MaxRetransmissions = 3
  MaxHeard = 4

  
PROPERTIES
  SessionOnward
  
  KeepsContract
