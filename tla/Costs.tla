-------------------------------- MODULE Costs --------------------------------
(***************************************************************************)
(* What the operators cost: the constants of the files that define them.   *)
(***************************************************************************)
EXTENDS Integers

\* Numbers, strings and hashes (more_ops.rs)
ARITH_BASE_COST == 99
ARITH_COST_PER_ARG == 320
ARITH_COST_PER_BYTE == 3
LOG_BASE_COST == 100
LOG_COST_PER_ARG == 264
LOG_COST_PER_BYTE == 3
LOGNOT_BASE_COST == 331
LOGNOT_COST_PER_BYTE == 3
MUL_BASE_COST == 92
MUL_COST_PER_OP == 885
MUL_LINEAR_COST_PER_BYTE == 6
MUL_SQUARE_COST_PER_BYTE_DIVIDER == 128
GR_BASE_COST == 498
GR_COST_PER_BYTE == 2
GRS_BASE_COST == 117
GRS_COST_PER_BYTE == 1
STRLEN_BASE_COST == 173
STRLEN_COST_PER_BYTE == 1
CONCAT_BASE_COST == 142
CONCAT_COST_PER_ARG == 135
CONCAT_COST_PER_BYTE == 3
DIVMOD_BASE_COST == 1116
DIVMOD_COST_PER_BYTE == 6
DIV_BASE_COST == 988
DIV_COST_PER_BYTE == 4
SHA256_BASE_COST == 87
SHA256_COST_PER_ARG == 134
SHA256_COST_PER_BYTE == 2
ASHIFT_BASE_COST == 596
ASHIFT_COST_PER_BYTE == 3
LSHIFT_BASE_COST == 277
LSHIFT_COST_PER_BYTE == 3
BOOL_BASE_COST == 200
BOOL_COST_PER_ARG == 300
POINT_ADD_BASE_COST == 101094
POINT_ADD_COST_PER_ARG == 1343980
PUBKEY_BASE_COST == 1325730
PUBKEY_COST_PER_BYTE == 38
COINID_COST ==
  SHA256_BASE_COST + SHA256_COST_PER_ARG * 3 + SHA256_COST_PER_BYTE * (32 + 32 + 8) - 153
MODPOW_BASE_COST == 17000
MODPOW_COST_PER_BYTE_BASE_VALUE == 38
MODPOW_COST_PER_BYTE_EXPONENT == 3
MODPOW_COST_PER_BYTE_MOD == 21

\* Curve points (bls_ops.rs)
BLS_G1_SUBTRACT_BASE_COST == 101094
BLS_G1_SUBTRACT_COST_PER_ARG == 1343980
BLS_G1_MULTIPLY_BASE_COST == 705500
BLS_G1_MULTIPLY_COST_PER_BYTE == 10
BLS_G1_NEGATE_BASE_COST == 1396 - 480
BLS_G2_ADD_BASE_COST == 80000
BLS_G2_ADD_COST_PER_ARG == 1950000
BLS_G2_SUBTRACT_BASE_COST == 80000
BLS_G2_SUBTRACT_COST_PER_ARG == 1950000
BLS_G2_MULTIPLY_BASE_COST == 2100000
BLS_G2_MULTIPLY_COST_PER_BYTE == 5
BLS_G2_NEGATE_BASE_COST == 2164 - 960
BLS_MAP_TO_G1_BASE_COST == 195000
BLS_MAP_TO_G1_COST_PER_BYTE == 4
BLS_MAP_TO_G1_COST_PER_DST_BYTE == 4
BLS_MAP_TO_G2_BASE_COST == 815000
BLS_MAP_TO_G2_COST_PER_BYTE == 4
BLS_MAP_TO_G2_COST_PER_DST_BYTE == 4
BLS_PAIRING_BASE_COST == 3000000
BLS_PAIRING_COST_PER_ARG == 1200000

\* Signatures (secp_ops.rs)
SECP256R1_VERIFY_COST == 1850000
SECP256K1_VERIFY_COST == 1300000

\* keccak256_ops.rs
KECCAK256_BASE_COST == 50
KECCAK256_COST_PER_ARG == 160
KECCAK256_COST_PER_BYTE == 2

\* core_ops.rs
FIRST_COST == 30
IF_COST == 33
CONS_COST == 50
REST_COST == 30
LISTP_COST == 19
EQ_BASE_COST == 117
EQ_COST_PER_BYTE == 1
=============================================================================
