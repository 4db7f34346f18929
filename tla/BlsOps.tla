------------------------------- MODULE BlsOps -------------------------------
(***************************************************************************)
(* The operators on curve points: src/bls_ops.rs, the two of more_ops.rs   *)
(* (pubkey_for_exp and point_add) and src/secp_ops.rs.                     *)
(*                                                                         *)
(* The curves are external libraries.  G1 and G2 are modelled as the       *)
(* integers modulo GROUP_ORDER, a point being the multiple of the          *)
(* generator it is, and the pairing as their product.  A point is written  *)
(* as the libraries write it, in compressed form: the top three bits of    *)
(* the first byte are 110 for infinity and otherwise 100 or 101, which     *)
(* tells a point from its negative; the rest stands for the x coordinate,  *)
(* which the two have in common.                                           *)
(***************************************************************************)
EXTENDS MoreOps

CONSTANTS
  GROUP_ORDER,       \* the order of the groups, an odd prime
  G1_LEN, G2_LEN,    \* bytes of a point (48, 96)
  HashToG1(_, _),    \* the point a message and a tag (dst) hash to
  HashToG2(_, _),
  DST_G1, DST_G2,    \* the tags in use when none is given
  SECP_KEYS,         \* the byte strings that are public keys,
  SECP_SIGS,         \* the ones that are signatures,
  SECP_SIGNED        \* and the <<key, digest, signature>> that verify

Scalar == 0 .. GROUP_ORDER - 1

ASSUME BlsAssumption ==
  /\ GROUP_ORDER \in Nat \ (0 .. 2) /\ GROUP_ORDER % 2 = 1
  /\ G1_LEN \in Nat \ (0 .. 1) /\ G2_LEN \in Nat \ (0 .. 1)
  /\ \A k \in 0 .. G1_LEN : BYTE^k \in Nat \ {0}
  /\ \A k \in 0 .. G2_LEN : BYTE^k \in Nat \ {0}
  /\ DST_G1 \in Seq(Byte) /\ DST_G2 \in Seq(Byte)
  /\ BYTE % 8 = 0 /\ GROUP_ORDER < BYTE
  /\ HashToG1(<<>>, DST_G1) \in Scalar /\ HashToG2(<<>>, DST_G2) \in Scalar
  /\ SECP_SIGNED \subseteq SECP_KEYS \X [1 .. HASH_LEN -> Byte] \X SECP_SIGS

-----------------------------------------------------------------------------
(* The libraries.                                                          *)

\* The first byte's flag bits.
Flag(k) == k * (BYTE \div 8)

to_bytes(point, len) ==
  LET half == GROUP_ORDER \div 2
  IN  CASE point = 0 -> <<Flag(6)>> \o ToBytes(0, len - 1)
        [] point \in 1 .. half -> <<Flag(4)>> \o ToBytes(point, len - 1)
        [] OTHER -> <<Flag(5)>> \o ToBytes(GROUP_ORDER - point, len - 1)

IsPoint(v, len) == \E p \in Scalar : to_bytes(p, len) = v
from_bytes(v, len) == CHOOSE p \in Scalar : to_bytes(p, len) = v

\* The sum of <<g1, g2>> pairings is the identity.
aggregate_pairing(items) ==
  SumSeq([k \in DOMAIN items |-> items[k][1] * items[k][2]]) % GROUP_ORDER = 0

\* Signatures add up: the key of each message times the point that the key
\* and the message hash to.
aggregate_verify(signature, items) ==
  SumSeq([k \in DOMAIN items |->
            items[k][1] * HashToG2(to_bytes(items[k][1], G1_LEN) \o items[k][2], DST_G2)])
    % GROUP_ORDER = signature

-----------------------------------------------------------------------------
(* Points as atoms (Allocator::g1, g2, new_g1, new_g2).                    *)

IsG(a, n, len) == /\ n.tag = "Bytes"
                  /\ atom_len(a, n) = len
                  /\ IsPoint(Atom(a, n), len)
PointOf(a, n, len) == from_bytes(Atom(a, n), len)

mod_group_order(n) == mod_floor(n, GROUP_ORDER)

new_point_and_cost(a, cost, point, len) ==
  Charging(cost + Malloc(len), new_atom(a, to_bytes(mod_group_order(point), len)))

\* All the arguments are points; the cost is tested after each is read.
Points(a, args, len, max_cost, per_arg, base) ==
  \A i \in DOMAIN args : IsG(a, args[i], len) /\ base + i * per_arg <= max_cost

SumOf(a, args, len) == SumSeq([i \in DOMAIN args |-> PointOf(a, args[i], len)])

\* The first point less the others.
DifferenceOf(a, args, len) ==
  SumSeq([i \in DOMAIN args |-> IF i = 1 THEN PointOf(a, args[i], len)
                                         ELSE -PointOf(a, args[i], len)])

op_pubkey_for_exp(a, l, max_cost) ==
  LET n == Arg1(a, l)
  IN  IF OneArg(a, l) /\ IsAtom(n)
      THEN new_point_and_cost(a, PUBKEY_BASE_COST + PUBKEY_COST_PER_BYTE * atom_len(a, n),
                              number(a, n), G1_LEN)
      ELSE Failed(a)

\* The cost of no arguments is not tested.
op_point_add(a, l, max_cost) ==
  LET args == Items(a, l)
  IN  IF Points(a, args, G1_LEN, max_cost, POINT_ADD_COST_PER_ARG, POINT_ADD_BASE_COST)
      THEN new_point_and_cost(a, POINT_ADD_BASE_COST + POINT_ADD_COST_PER_ARG * Len(args),
                              SumOf(a, args, G1_LEN), G1_LEN)
      ELSE Failed(a)

op_bls_g1_subtract(a, l, max_cost) ==
  LET args == Items(a, l)
      base == BLS_G1_SUBTRACT_BASE_COST
      per_arg == BLS_G1_SUBTRACT_COST_PER_ARG
  IN  IF base <= max_cost /\ Points(a, args, G1_LEN, max_cost, per_arg, base)
      THEN new_point_and_cost(a, base + per_arg * Len(args),
                              DifferenceOf(a, args, G1_LEN), G1_LEN)
      ELSE Failed(a)

op_bls_g2_add(a, l, max_cost) ==
  LET args == Items(a, l)
      base == BLS_G2_ADD_BASE_COST
      per_arg == BLS_G2_ADD_COST_PER_ARG
  IN  IF base <= max_cost /\ Points(a, args, G2_LEN, max_cost, per_arg, base)
      THEN new_point_and_cost(a, base + per_arg * Len(args),
                              SumOf(a, args, G2_LEN), G2_LEN)
      ELSE Failed(a)

op_bls_g2_subtract(a, l, max_cost) ==
  LET args == Items(a, l)
      base == BLS_G2_SUBTRACT_BASE_COST
      per_arg == BLS_G2_SUBTRACT_COST_PER_ARG
  IN  IF base <= max_cost /\ Points(a, args, G2_LEN, max_cost, per_arg, base)
      THEN new_point_and_cost(a, base + per_arg * Len(args),
                              DifferenceOf(a, args, G2_LEN), G2_LEN)
      ELSE Failed(a)

Multiply(a, l, len, base, per_byte, max_cost) ==
  LET scalar == Arg2(a, l)
      cost == base + per_byte * atom_len(a, scalar)
  IN  IF /\ TwoArgs(a, l)
         /\ IsG(a, Arg1(a, l), len) /\ IsAtom(scalar)
         /\ cost <= max_cost
      THEN new_point_and_cost(a, cost, PointOf(a, Arg1(a, l), len)
                                         * mod_group_order(number(a, scalar)), len)
      ELSE Failed(a)

op_bls_g1_multiply(a, l, max_cost) ==
  Multiply(a, l, G1_LEN, BLS_G1_MULTIPLY_BASE_COST, BLS_G1_MULTIPLY_COST_PER_BYTE, max_cost)
op_bls_g2_multiply(a, l, max_cost) ==
  Multiply(a, l, G2_LEN, BLS_G2_MULTIPLY_BASE_COST, BLS_G2_MULTIPLY_COST_PER_BYTE, max_cost)

\* Bug: infinity is not told apart from the other points.
NegateAnyPoint(a, l, len, base) ==
  LET point == Arg1(a, l)
      blob == Atom(a, point)
      flipped == IF (blob[1] \div Flag(1)) % 2 = 1 THEN blob[1] - Flag(1)
                                                  ELSE blob[1] + Flag(1)
  IN  IF ~(OneArg(a, l) /\ IsAtom(point) /\ Len(blob) = len /\ IsPoint(blob, len))
      THEN Failed(a)
      ELSE new_atom_and_cost(a, base, [blob EXCEPT ![1] = flipped])

\* No arithmetic: the bit that tells the two points of an x coordinate apart
\* is flipped (blob[0] ^= 0x20), and infinity is returned as it came.
Negate(a, l, len, base) ==
  LET point == Arg1(a, l)
      blob == Atom(a, point)
      infinity == blob[1] \div Flag(1) = 6
      flipped == IF (blob[1] \div Flag(1)) % 2 = 1 THEN blob[1] - Flag(1)
                                                  ELSE blob[1] + Flag(1)
  IN  IF ~(OneArg(a, l) /\ IsAtom(point) /\ Len(blob) = len /\ IsPoint(blob, len))
      THEN Failed(a)
      ELSE IF infinity THEN Reduced(a, base + Malloc(len), point)
      ELSE new_atom_and_cost(a, base, [blob EXCEPT ![1] = flipped])

op_bls_g1_negate(a, l, max_cost) == Negate(a, l, G1_LEN, BLS_G1_NEGATE_BASE_COST)
op_bls_g2_negate(a, l, max_cost) == Negate(a, l, G2_LEN, BLS_G2_NEGATE_BASE_COST)

\* One or two arguments: a message and, unless the default is used, a tag.
MapArgs(a, l) == LET argc == get_varargs(a, l, 2)
                 IN  /\ argc \in 1 .. 2
                     /\ IsAtom(Arg1(a, l))
                     /\ argc = 2 => IsAtom(Arg2(a, l))
MapCost(a, l, base, per_byte, per_dst_byte, dst) ==
  base + per_byte * atom_len(a, Arg1(a, l)) + per_dst_byte * Len(dst)

op_bls_map_to_g1(a, l, max_cost) ==
  LET dst == IF get_varargs(a, l, 2) = 2 THEN Atom(a, Arg2(a, l)) ELSE DST_G1
      cost == MapCost(a, l, BLS_MAP_TO_G1_BASE_COST, BLS_MAP_TO_G1_COST_PER_BYTE,
                      BLS_MAP_TO_G1_COST_PER_DST_BYTE, dst)
  IN  IF MapArgs(a, l) /\ cost <= max_cost
      THEN new_point_and_cost(a, cost, HashToG1(Atom(a, Arg1(a, l)), dst), G1_LEN)
      ELSE Failed(a)

op_bls_map_to_g2(a, l, max_cost) ==
  LET dst == IF get_varargs(a, l, 2) = 2 THEN Atom(a, Arg2(a, l)) ELSE DST_G2
      cost == MapCost(a, l, BLS_MAP_TO_G2_BASE_COST, BLS_MAP_TO_G2_COST_PER_BYTE,
                      BLS_MAP_TO_G2_COST_PER_DST_BYTE, dst)
  IN  IF MapArgs(a, l) /\ cost <= max_cost
      THEN new_point_and_cost(a, cost, HashToG2(Atom(a, Arg1(a, l)), dst), G2_LEN)
      ELSE Failed(a)

\* G1 and G2 points in turn; unlike the other lists this one must end in nil.
op_bls_pairing_identity(a, l, max_cost) ==
  LET args == Items(a, l)
      n == Len(args) \div 2
      cost == BLS_PAIRING_BASE_COST + BLS_PAIRING_COST_PER_ARG * n
      items == [i \in 1 .. n |-> <<PointOf(a, args[2 * i - 1], G1_LEN),
                                   PointOf(a, args[2 * i], G2_LEN)>>]
  IN  IF /\ nilp(a, Terminator(a, l)) /\ Len(args) = 2 * n
         /\ cost <= max_cost
         /\ \A i \in 1 .. n : /\ IsG(a, args[2 * i - 1], G1_LEN)
                             /\ IsG(a, args[2 * i], G2_LEN)
         /\ aggregate_pairing(items)
      THEN Reduced(a, cost, nil) ELSE Failed(a)

\* A signature, then public keys and messages in turn, ended by nil.
op_bls_verify(a, l, max_cost) ==
  LET args == Items(a, l)
      n == Len(args) \div 2
      bytes(k) == ByteCount(a, [i \in 1 .. k |-> args[2 * i + 1]], k)
      cost(k) == BLS_PAIRING_BASE_COST + BLS_PAIRING_COST_PER_ARG * k
                   + BLS_MAP_TO_G2_COST_PER_BYTE * bytes(k)
                   + BLS_MAP_TO_G2_COST_PER_DST_BYTE * Len(DST_G2) * k
      items == [i \in 1 .. n |-> <<PointOf(a, args[2 * i], G1_LEN),
                                   Atom(a, args[2 * i + 1])>>]
  IN  IF /\ nilp(a, Terminator(a, l)) /\ Len(args) = 2 * n + 1
         /\ IsG(a, args[1], G2_LEN)
         /\ \A i \in 1 .. n : /\ IsG(a, args[2 * i], G1_LEN)
                             /\ IsAtom(args[2 * i + 1])
         /\ cost(n) <= max_cost
         /\ aggregate_verify(PointOf(a, args[1], G2_LEN), items)
      THEN Reduced(a, cost(n), nil) ELSE Failed(a)

\* A public key, a digest and a signature.
SecpVerify(a, l, cost, max_cost) ==
  LET args == [i \in 1 .. 3 |-> Atom(a, Items(a, l)[i])]
  IN  IF /\ cost <= max_cost
         /\ ThreeArgs(a, l)
         /\ \A i \in 1 .. 3 : IsAtom(Items(a, l)[i])
         /\ args[1] \in SECP_KEYS
         /\ Len(args[2]) = HASH_LEN
         /\ args[3] \in SECP_SIGS
         /\ args \in SECP_SIGNED
      THEN Reduced(a, cost, nil) ELSE Failed(a)

op_secp256r1_verify(a, l, max_cost) == SecpVerify(a, l, SECP256R1_VERIFY_COST, max_cost)
op_secp256k1_verify(a, l, max_cost) == SecpVerify(a, l, SECP256K1_VERIFY_COST, max_cost)
=============================================================================
