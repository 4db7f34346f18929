CONSTANTS
  MAX_NUM_ATOMS = 1000
  MAX_NUM_PAIRS = 1000
  HEAP_LIMIT = 1000
  USIZE = 1000000
  U32 = 65536
  BYTE = 256
  BITS = 8
  SMALL_LEN = 3
  SMALL_TOP = 3
  U64_BYTES = 3
  U32_BYTES = 2
  I32_BYTES = 3
  MAX_NUM_BYTES = 3
  MAX_SHIFT = 8
  PRECOMPUTED = 37
  HASH_LEN = 2
  G1_LEN = 2
  G2_LEN = 3
  GROUP_ORDER = 5
  Sha256 <- MCSha256
  Keccak256 <- MCKeccak
  HashToG1 <- MCHash
  HashToG2 <- MCHash
  DST_G1 <- Dst
  DST_G2 <- Dst
  SECP_KEYS <- Keys
  SECP_SIGS <- Signatures
  SECP_SIGNED <- Signed
  OP_MAP <- ChiaTable
  STACK_SIZE_LIMIT = 1000
  Calls <- UnlimitedCalls
SPECIFICATION FairSpec
PROPERTY CostNeverDecreases
