SPECIFICATION FairSpec
CONSTANTS
  Stations <- MCStations
  NoCall = NoCall
  NoReason = NoReason
  NoMessage = NoMessage
  MaxRetransmissions = 1
  MaxHeard = 2
  Period = 3
  Waveform = 1
  PollCutoff = 2
  DecodeCutoff = 1
  MaxSlot = 2
  MaxSessions = 2
INVARIANT OneInFlight
PROPERTIES
  
  FlagFalls
CHECK_DEADLOCK FALSE
