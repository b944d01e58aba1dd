\* Two queues and the merger, with one timestamp the largest there is; two
\* producers and two consumers on a ring of two slots.
SPECIFICATION QueuesSpec
CONSTANTS
  NSources = 2
  Times = {1, 2, 3}
  Never = 3
  MaxPushes = 5
  None = None
  NoEvent = NoEvent
  Events = {e1, e2, e3, e4, e5}
  Producers = {p1, p2}
  Consumers = {c1, c2}
  Capacity = 2
SYMMETRY Interchangeable
INVARIANTS
  TypeOK
  HeapOrdered
  RingTypeOK
  OneOwnerPerSlot
  NoSlotLost
PROPERTIES
  ImplementsTimeQueue
  ImplementsFifo
