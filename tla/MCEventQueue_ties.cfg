\* Do events at the same time come out in the order of their arrival?
SPECIFICATION Spec
CONSTANTS
  NSources = 1
  Times = {1, 2}
  Never = 3
  MaxPushes = 5
  None = None
PROPERTIES
  FirstPushedFirst
