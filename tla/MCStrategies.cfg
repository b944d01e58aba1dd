\* Every strategy, with reports that come late, in part and from others.
SPECIFICATION Spec
CONSTANTS
  Setups <- SomeSetups
  Mids <- TwoMids
  Slices = 2
  Interval = 1
  Lookback = 3
  Unit = 4
  EntryZ = 4
  ExitZ = 1
  ThresholdBps = 50
  MaxPosition = 1
  MaxStrays = 1
  None = None
CHECK_DEADLOCK FALSE
INVARIANTS
  TypeOK
  NeverOverExecutes
  InventoryWithinQuotes
  PositionWithinSize
