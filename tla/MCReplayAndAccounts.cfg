\* A file that is recorded, perhaps not to the end, and feeds that are read
\* twice; positions, the equity curve and the markout, one scenario for each.
SPECIFICATION BothSpec
CONSTANTS
  Absent = Absent
  MaxWrites = 3
  MaxOpens = 2
  FeedLists <- FourLists
  VectorTicks <- TwoTicks
  Lines <- BadInTheMiddle
  FinalNewline = FALSE
  Duration = 2
  MaxPasses = 2
  A = A
  B = B
  Symbols <- TwoSymbols
  Horizons <- TwoHorizons
  Capital = 10
  Scenarios <- ThreeScenarios
INVARIANTS
  FileHoldsWhatWasWritten
  EachPassGivesAll
  TypeOK
  ValueIsAccountedFor
  CurveIsKept
  MarkoutsResolveOnce
PROPERTIES
  CallReturns
