CONSTANTS
  t1 = t1
  t2 = t2
  n1 = n1
  NoThread = NoThread
  Threads <- MCThreads
  Names <- MCNames
  Lifetimes = {"default", "phoenix", "nodestroy"}
  Creates = {"new", "static"}
  MaxCalls = 2
  MaxObjects = 3
SYMMETRY MCSymmetry
SPECIFICATION Spec
INVARIANT TypeOK OneInstance OneCommunicatorPerName NoDeadReference
