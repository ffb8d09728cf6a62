CONSTANTS
  Machines <- MCMachines
  Readers = {r1}
  ReadCounts = {1, 4}
  BlockSize = 3
  VersionSize = 4
  MaxEnds = 2
  MaxLost = 1
SPECIFICATION FairSpec
INVARIANTS TypeOK NothingLeft FilesComplete ReadsMapped ReadsWhole TextsAccounted
PROPERTIES ReaderEnds UnloadEnds
