SPECIFICATION CaptureSpec
CONSTANTS
  Bands = {b20, b40}
  Streak = 1
  VerifySlots = 1
  MaxBounces = 1
  MaxTroubles = 2
  MaxEvents = 2
  Absent = Absent
INVARIANTS
  OneChild
PROPERTIES
  ClearedForSilence
  Recovers
  StreamFollowsBand
CHECK_DEADLOCK FALSE
