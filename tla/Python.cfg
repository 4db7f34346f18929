\* Bytes are the code's own; small atoms have three bytes, not four.
CONSTANTS
  MAX_NUM_ATOMS = 1000
  MAX_NUM_PAIRS = 1000
  HEAP_LIMIT = 1000
  USIZE = 100000
  U32 = 65536
  BYTE = 256
  BITS = 8
  SMALL_LEN = 3
  SMALL_TOP = 3
  Input <- SomeInput
  Blobs <- SomeBlobs
  Ints <- SomeInts
  MaxSteps = 4
SPECIFICATION Spec
INVARIANTS CachesAreRight CursorFollowsTheStream CurryIsInvertible ReplaceIsOneByOne RustSeesTheSame
PROPERTY ObjectsAreImmutable
CHECK_DEADLOCK FALSE
