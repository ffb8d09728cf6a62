CONSTANTS
  Threads = {t1}
  Files = {f1}
  CPUs = {c1}
  Blocks = {b1, b2, b3, b4, b5}
  NoBlock = NoBlock
  CtlSizes = {1, 2}
  DataSizes = {0, 5}
  UseMap = {TRUE, FALSE}
  MinCtl = 2
  ListSize = 4
  MaxSpan = 8
  MaxBlock = 4
  SmallBlock = 1
  HeaderLen = 1
  MaxItems = 2
  Machines <- WithOldApi
SPECIFICATION FairSpec
INVARIANTS TypeOK NoMisuse NothingHeld BuffersFit FlashMapTrue BlocksAccounted PriorityRestored OpenHasEntry
PROPERTY CallsReturn
CHECK_DEADLOCK FALSE
