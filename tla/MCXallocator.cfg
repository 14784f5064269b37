SPECIFICATION Spec
CONSTANTS
  Threads = {t1, t2}
  Blocks = {b1, b2, b3}
  NULL = NULL
  Requests = {24, 100, 300}
  BlockSize <- MCBlockSize
  MaxAllocators = 2
  Asserts = TRUE
  HeapCanFail = TRUE
  MaxObjects = 3
  MaxBlockCnt = 3
  MCWidth = 11
CHECK_DEADLOCK FALSE
INVARIANTS
  TypeOK
  BlocksAreExclusive
  HeaderNamesOwner
  CopyFits
  FreeListsComplete
  InUseCounts
  NothingLeftBehind
PROPERTIES
  HeapIsLastResort
  ManagesMemory
