CONSTANTS
  Nodes = {n1, n2}
  OOB = OOB
  HashSpace = {0, 1, 2, 3, 4}
  MaxWeight = 2
  MaxEntries = 4
SPECIFICATION Spec
INVARIANT SearchInBounds
