CONSTANTS
  Capacity = 3
  MaxPushes = 9
  MovedFrom = MovedFrom
SPECIFICATION Spec
INVARIANTS WindowIsNewest
PROPERTY RefinesQueue
