SPECIFICATION Spec
CONSTANTS
  Sessions = {s1, s2}
  Stations = {x}
  Tasks = {t1}
  Ttl = 2
  MaxStreams = 2
  None = None
INVARIANTS
  Attended
PROPERTIES
  LeaseEnds
CHECK_DEADLOCK FALSE
