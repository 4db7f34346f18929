SPECIFICATION Spec
CONSTANTS
  MAX_NUM_ATOMS = 6
  MAX_NUM_PAIRS = 0
  HEAP_LIMIT = 3
  USIZE = 1000000
  U32 = 4
  BYTE = 4
  SMALL_LEN = 2
  SMALL_TOP = 0
  ByteStrings <- SomeStrings
  Numbers <- SomeNumbers
  Smalls = {2}
  MaxEnd = 2
  MaxOperands = 1
  MaxSize = 2
  MaxNodes = 6
  MaxSaved = 0
INVARIANT HeapWithinLimit
CHECK_DEADLOCK FALSE
