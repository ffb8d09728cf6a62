CONSTANTS
  Threads = {t1}
  Files = {f1}
  CPUs = {c1}
  Blocks = {b1, b2, b3}
  NoBlock = NoBlock
  CtlSizes = {2}
  DataSizes = {0, 1}
  UseMap = {FALSE}
  MinCtl = 2
  ListSize = 4
  MaxSpan = 8
  MaxBlock = 4
  SmallBlock = 1
  HeaderLen = 1
  MaxItems = 2
  Machines <- WithNewApi
SPECIFICATION Spec
INVARIANT NoStaleAddress
CHECK_DEADLOCK FALSE
