CONSTANTS
  Cap = 2
  MaxPush = 5
  StoreReorder = TRUE
SPECIFICATION Spec
INVARIANT FifoRing
