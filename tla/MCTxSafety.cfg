SPECIFICATION FairSpec
CONSTANTS
  Tasks <- MCTasks
  Transmitters <- MCTransmitters
  Main <- MCMain
  Interlocks <- MCInterlocks
  Duration = 1
  Margin = 1
  AggregateTx = 2
  MaxCrashes = 1
INVARIANTS
  
  BudgetHolds
PROPERTIES
  
  KeyReleased
