CONSTANTS
  RingItems = {1, 2}
  vecSize = 4
  StackItems = {1, 2}
  NewPlace = 0
  MaxStack = 6
  size_ = 5
  bucketSize = 2
  Keys <- ChainedKeys
  Values = {1, 2}
  chunkSize_ = 2
  MaxObjects = 4
  Longevities = {1, 2}
  MaxTracked = 5
  bits_sets = 1
  bits_blocks_per_line = 1
  total_lines_per_set = 2
  AddressBits = 5
  Addresses = {0, 1, 2, 4, 8, 12}
  MaxAccesses = 5
  NullType = NullType
  Address = {0, 1, 2, 3, 4, 5, 6, 7}
  Paths <- Session
  Buffers <- Writings
  Sizes = {0, 1}
  MaxSize = 2
SPECIFICATION Spec
CHECK_DEADLOCK FALSE
INVARIANTS ContainersHold FilesAreTree AlgorithmsAgree ToolsAreExact
PROPERTIES ContainersImplement ImplementsFileTree RunsEnd
