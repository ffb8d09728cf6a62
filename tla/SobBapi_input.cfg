CONSTANTS
  Threads = {t1}
  Files = {f1}
  CPUs = {c1}
  Blocks = {b1, b2, b3, b4, b5}
  NoBlock = NoBlock
  CtlSizes = {2}
  DataSizes = {1}
  UseMap = {TRUE}
  MinCtl = 2
  ListSize = 4
  MaxSpan = 8
  MaxBlock = 4
  SmallBlock = 1
  HeaderLen = 1
  MaxItems = 2
  Machines <- WithNewApi
SPECIFICATION Spec
INVARIANT InputComplete
CHECK_DEADLOCK FALSE
