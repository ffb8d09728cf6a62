CONSTANTS
  Machines <- MCMachines
  Readers = {r1, r2}
  ReadCounts = {1, 4}
  BlockSize = 3
  VersionSize = 4
  MaxEnds = 2
  MaxLost = 1
SPECIFICATION Spec
INVARIANT CallerFrees
