CONSTANTS
  Threads = {t1, t2}
  Files = {f1, f2}
  CPUs = {c1}
  Blocks = {b1}
  NoBlock = NoBlock
  CtlSizes = {2}
  DataSizes = {0}
  UseMap = {FALSE}
  MinCtl = 2
  ListSize = 4
  MaxSpan = 8
  MaxBlock = 4
  SmallBlock = 1
  HeaderLen = 1
  MaxItems = 2
  Machines <- WithOrWithout
SPECIFICATION Spec
INVARIANT OpenNeedsApi
PROPERTIES ServiceSpec
CHECK_DEADLOCK FALSE
SYMMETRY Sym
