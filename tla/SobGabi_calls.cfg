CONSTANTS
  InSizes <- RequestSizes
  OutSizes <- ResponseSizes
  Counts = {0, 4098, 12289}
  UserChunks <- ShortList
  HeaderSize <- Header
  IOSize = 16
  FieldSize = 2
  WriteOfs = 20
  ReadOfs = 12
  PageSize <- Page
  MaxSpan = 8192
  MaxSegs = 3
  Modulus = 1048576
SPECIFICATION FairSpec
INVARIANTS TypeOK BlocksAccounted ListsHoldTheData CursorsAgree AnswerFits
PROPERTIES FaultsExplained CallsReturn
CHECK_DEADLOCK FALSE
