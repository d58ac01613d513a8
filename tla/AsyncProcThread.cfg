CONSTANTS
  Cap = 2
  MaxPush = 4
  StoreReorder = FALSE
SPECIFICATION APSpec
INVARIANT APTypeOK
INVARIANT PushFailsOnlyWhenFull
INVARIANT FifoRing
INVARIANT DispatchedInOrder
PROPERTY EveryAcceptedDispatched
PROPERTY TerminateTakesEffect
