---------------------------- MODULE PathTraversal ----------------------------
(***************************************************************************)
(* Looking up a node by path (src/traverse_path.rs).  A path is an atom    *)
(* whose bits, from the least significant one up to the most significant   *)
(* set one, choose left (0) or right (1) at each pair.  There are two      *)
(* implementations: one on the bytes of a heap atom and one on the value   *)
(* of a small atom.                                                        *)
(***************************************************************************)
EXTENDS Allocator

CONSTANT BITS  \* bits of a byte (8)

ASSUME BitsAssumption == BITS \in Nat \ {0} /\ BYTE = 2^BITS

\* What ^ means, up to the bits of a small atom.
ASSUME PowersOfTwo ==
  /\ 2^0 = 1
  /\ \A k \in 0 .. SMALL_LEN * BITS : 2^k \in Nat \ {0}
  /\ \A k \in 1 .. SMALL_LEN * BITS : 2^k = 2^(k - 1) * 2

TRAVERSE_BASE_COST == 40
TRAVERSE_COST_PER_ZERO_BYTE == 4
TRAVERSE_COST_PER_BIT == 4

\* A node and what finding it cost, or an error.
Reduction(cost, node) == [ok |-> TRUE, node |-> node, cost |-> cost]
PathIntoAtom == [ok |-> FALSE, node |-> nil, cost |-> 0]

Bit(n, k) == (n \div 2^k) % 2

\* Index of the most significant set bit of n, where 0 < n < 2^width (what
\* msb_mask() and the shifting loop of traverse_path_fast find).
MsbIndex(n, width) == Cardinality({k \in 1 .. width - 1 : 2^k <= n})

\* Number of leading zero bytes.
first_non_zero(v) ==
  Cardinality({i \in 1 .. Len(v) : \A j \in 1 .. i : v[j] = 0})

\* One step down from where r is; ok is false once the path enters an atom.
Descend(a, r, bit) ==
  IF ~r.ok \/ IsAtom(r.node) THEN PathIntoAtom
  ELSE Reduction(0, IF bit = 1 THEN Rest(a, r.node) ELSE First(a, r.node))

\* Follow `bits' from args.
Walk(a, args, bits) ==
  LET upto[k \in 0 .. Len(bits)] ==
        IF k = 0 THEN Reduction(0, args) ELSE Descend(a, upto[k - 1], bits[k])
  IN  upto[Len(bits)]

WithCost(r, cost) == IF r.ok THEN Reduction(cost, r.node) ELSE r

traverse_path(a, v, args) ==
  LET zeros == first_non_zero(v)
      base == TRAVERSE_BASE_COST + zeros * TRAVERSE_COST_PER_ZERO_BYTE
                + TRAVERSE_COST_PER_BIT
      steps == (Len(v) - 1 - zeros) * BITS + MsbIndex(v[zeros + 1], BITS)
      bits == [k \in 1 .. steps |->
                 Bit(v[Len(v) - (k - 1) \div BITS], (k - 1) % BITS)]
  IN  IF zeros = Len(v) THEN Reduction(base, nil)
      ELSE WithCost(Walk(a, args, bits), base + steps * TRAVERSE_COST_PER_BIT)

\* Bug: off by one bit.
NeedsZeroByteLate(num_bits) == num_bits \in {i * BITS : i \in 1 .. SMALL_LEN}

\* The positive values whose encoding needs a leading zero byte.
NeedsZeroByte(num_bits) == num_bits \in {i * BITS - 1 : i \in 1 .. SMALL_LEN}

traverse_path_fast(a, val, args) ==
  LET base == TRAVERSE_BASE_COST + TRAVERSE_COST_PER_BIT
      num_bits == MsbIndex(val, SMALL_LEN * BITS)
      bits == [k \in 1 .. num_bits |-> Bit(val, k - 1)]
      zero == IF NeedsZeroByte(num_bits) THEN TRAVERSE_COST_PER_ZERO_BYTE ELSE 0
  IN  IF val = 0 THEN Reduction(base, nil)
      ELSE WithCost(Walk(a, args, bits),
                    base + num_bits * TRAVERSE_COST_PER_BIT + zero)

\* The choice eval_pair makes between the two.
Lookup(a, path, args) ==
  IF path.tag = "Bytes" THEN traverse_path(a, Atom(a, path), args)
                        ELSE traverse_path_fast(a, path.index, args)
=============================================================================
