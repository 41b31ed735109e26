SPECIFICATION FairWSpec
CONSTANTS
  Qsos <- MCQsos
  NoQso = NoQso
  MaxAttempts = 2
  MaxStarts = 2
  Readers <- MCReaders
  Imports <- MCImports
  MaxSides = 1
  MaxScans = 1
INVARIANTS
  
  
  StaleIsKnown
PROPERTY
  HeadMovesOn
CHECK_DEADLOCK FALSE
