\* Bytes of three bits: the boundaries between bytes come early.
CONSTANTS
  MAX_NUM_ATOMS = 30
  MAX_NUM_PAIRS = 10
  HEAP_LIMIT = 60
  USIZE = 100000
  U32 = 64
  BYTE = 8
  BITS = 3
  SMALL_LEN = 3
  SMALL_TOP = 1
  U64_BYTES = 2
  U32_BYTES = 2
  I32_BYTES = 2
  MAX_NUM_BYTES = 9
  MAX_SHIFT = 8
  PRECOMPUTED = 3
  HASH_LEN = 2
  G1_LEN = 2
  G2_LEN = 3
  GROUP_ORDER = 5
  Sha256 <- MCSha256
  Keccak256 <- MCKeccak
  HashToG1 <- MCHash
  HashToG2 <- MCHash
  DST_G1 <- Dst1
  DST_G2 <- Dst2
  SECP_KEYS <- Keys
  SECP_SIGS <- Sigs
  SECP_SIGNED <- Signed
  OP_MAP <- NoOps
  MaxLen = 4
  Depth = 6
SPECIFICATION Spec
INVARIANTS PathsMatchReference OnlyBytesMatter BudgetOnlyRejects OnlyAdds NumberLaws StringLaws PointLaws
CHECK_DEADLOCK FALSE
