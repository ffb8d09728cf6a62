CONSTANTS
  Threads = {t1, t2}
  RegCount = 2
  Bytes = {0, 1}
  Requests <- SomeRequests
  NoRequest = NoRequest
  NoThread = NoThread
  MaxData = 3
SPECIFICATION FairSpec
INVARIANTS TypeOK IndexIsMine
PROPERTIES TransfersSpec TransferEnds
