SPECIFICATION RigSpec
CONSTANTS
  Tasks = {a, b}
  Ops = {"poll", "mode", "tune", "key", "unkey", "width", "level", "read"}
  MaxOps = 3
  MaxPoisons = 1
SYMMETRY Coroutines
INVARIANTS
  RepliesAreOwn
  
CHECK_DEADLOCK FALSE
