\* Four orders on both sides and two prices share three slots.
SPECIFICATION Spec
CONSTANTS
  Prices <- TwoPrices
  Quantities = {2}
  MaxPrice = 9
  BlockSize = 1
  MaxBlocks = 3
  MaxFill = 1
  MaxOrders = 4
\* A behaviour may stop when its orders are used up.
CHECK_DEADLOCK FALSE
INVARIANTS
  StructureOK
PROPERTIES
  ImplementsBook
