\* Bytes are the code's own; small atoms have three bytes, not four.
CONSTANTS
  MAX_NUM_ATOMS = 6
  MAX_NUM_PAIRS = 16
  HEAP_LIMIT = 9
  USIZE = 1000
  U32 = 256
  BYTE = 256
  BITS = 8
  SMALL_LEN = 3
  SMALL_TOP = 3
  Bytes <- SomeBytes
  Starts <- SomeStarts
  Atoms <- SomeAtoms
SPECIFICATION Spec
INVARIANTS ReadersAgree ArenaDecides LengthForetellsReader WriterRoundTrips SharingIsRecorded AtomsRoundTrip
PROPERTY NothingReadPastTheEnd
CHECK_DEADLOCK FALSE
