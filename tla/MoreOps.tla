------------------------------- MODULE MoreOps -------------------------------
(***************************************************************************)
(* The operators of src/more_ops.rs on numbers, strings and hashes, and    *)
(* the unknown operators, which cost something and return nil so that a    *)
(* later soft fork can give them a meaning.                                *)
(***************************************************************************)
EXTENDS OpUtils, Costs

CONSTANTS
  MAX_SHIFT,       \* largest shift, either way (65535)
  PRECOMPUTED,     \* number of PRECOMPUTED_HASHES (37)
  HASH_LEN,        \* bytes of a hash (32)
  Sha256(_)        \* the hash of a byte string, of HASH_LEN bytes

COST_MOD == BYTE^U64_BYTES
U32_MAX == U32 - 1

ASSUME MoreOpsAssumption ==
  /\ MAX_SHIFT \in Nat
  /\ \A k \in 0 .. MAX_SHIFT : 2^k \in Nat \ {0}
  /\ \A k \in 0 .. BITS * MAX_NUM_BYTES : 2^k \in Nat \ {0}
  /\ PRECOMPUTED \in 0 .. SignBit
  /\ HASH_LEN \in Nat \ {0}
  /\ Sha256(<<>>) \in [1 .. HASH_LEN -> Byte]
  /\ COST_MOD \in Nat \ {0}

-----------------------------------------------------------------------------
(* Arithmetic.                                                             *)

ArithCost(a, args, k, counted) ==
  ARITH_BASE_COST + ARITH_COST_PER_ARG * k + ARITH_COST_PER_BYTE * ByteCount(a, args, counted)

op_add(a, l, max_cost) ==
  LET args == Items(a, l)
      tested == [k \in DOMAIN args |-> ArithCost(a, args, k, k - 1)]
      total == SumSeq([k \in DOMAIN args |-> number(a, args[k])])
  IN  IF Admitted(a, args, max_cost, tested)
      THEN NewNumberAndCost(a, ArithCost(a, args, Len(args), Len(args)), total)
      ELSE Failed(a)

\* The first argument less the others.
op_subtract(a, l, max_cost) ==
  LET args == Items(a, l)
      tested == [k \in DOMAIN args |-> ArithCost(a, args, k, k - 1)]
      total == SumSeq([k \in DOMAIN args |-> IF k = 1 THEN number(a, args[k])
                                                     ELSE -number(a, args[k])])
  IN  IF Admitted(a, args, max_cost, tested)
      THEN NewNumberAndCost(a, ArithCost(a, args, Len(args), Len(args)), total)
      ELSE Failed(a)

MulCost(l0, l1) ==
  MUL_COST_PER_OP + (l0 + l1) * MUL_LINEAR_COST_PER_BYTE
    + (l0 * l1) \div MUL_SQUARE_COST_PER_BYTE_DIVIDER

\* The length of the first factor is that of its atom, that of a product
\* that of its magnitude.
Times(a, acc, n) ==
  LET total == acc.total * number(a, n)
      l1 == atom_len(a, n)
  IN  [total |-> total, l0 |-> limbs_for_int(total),
       cost |-> acc.cost + MulCost(acc.l0, l1)]

\* The product, and what it cost, after each argument.
Products(a, args) ==
  LET after[k \in 0 .. Len(args)] ==
        IF k = 0 THEN [total |-> 1, l0 |-> 0, cost |-> MUL_BASE_COST]
        ELSE IF k = 1 THEN [total |-> number(a, args[1]), l0 |-> atom_len(a, args[1]),
                            cost |-> MUL_BASE_COST]
        ELSE Times(a, after[k - 1], args[k])
  IN  after

op_multiply(a, l, max_cost) ==
  LET args == Items(a, l)
      after == Products(a, args)
      tested == [k \in DOMAIN args |-> after[k - 1].cost]
  IN  IF Admitted(a, args, max_cost, tested)
      THEN NewNumberAndCost(a, after[Len(args)].cost, after[Len(args)].total)
      ELSE Failed(a)

\* Two atoms, the second one not zero.
Divisible(a, l) == /\ TwoArgs(a, l)
                   /\ IsAtom(Arg1(a, l)) /\ IsAtom(Arg2(a, l))
                   /\ number(a, Arg2(a, l)) # 0

op_div(a, l, max_cost) ==
  LET cost == DIV_BASE_COST + DIV_COST_PER_BYTE * ByteCount(a, Items(a, l), 2)
  IN  IF Divisible(a, l)
      THEN NewNumberAndCost(a, cost, div_floor(number(a, Arg1(a, l)), number(a, Arg2(a, l))))
      ELSE Failed(a)

op_mod(a, l, max_cost) ==
  LET cost == DIV_BASE_COST + DIV_COST_PER_BYTE * ByteCount(a, Items(a, l), 2)
  IN  IF Divisible(a, l)
      THEN NewNumberAndCost(a, cost, mod_floor(number(a, Arg1(a, l)), number(a, Arg2(a, l))))
      ELSE Failed(a)

\* Bug: the remainder takes the sign of the dividend.
DivmodTruncated(a, l, max_cost) ==
  LET cost == DIVMOD_BASE_COST + DIVMOD_COST_PER_BYTE * ByteCount(a, Items(a, l), 2)
      x == number(a, Arg1(a, l))
      y == number(a, Arg2(a, l))
      truncated == IF x < 0 THEN -div_floor(-x, y) ELSE div_floor(x, y)
      q == new_number(a, truncated, MAX_NUM_BYTES)
      r == new_number(q.a, x - y * truncated, MAX_NUM_BYTES)
      bytes == atom_len(r.a, q.node) + atom_len(r.a, r.node)
  IN  IF ~Divisible(a, l) THEN Failed(a)
      ELSE IF q.ok /\ r.ok
      THEN Charging(cost + Malloc(bytes), new_pair(r.a, q.node, r.node))
      ELSE Failed(r.a)

\* A quotient that was allocated before an error stays.
op_divmod(a, l, max_cost) ==
  LET cost == DIVMOD_BASE_COST + DIVMOD_COST_PER_BYTE * ByteCount(a, Items(a, l), 2)
      x == number(a, Arg1(a, l))
      y == number(a, Arg2(a, l))
      q == new_number(a, div_floor(x, y), MAX_NUM_BYTES)
      r == new_number(q.a, mod_floor(x, y), MAX_NUM_BYTES)
      bytes == atom_len(r.a, q.node) + atom_len(r.a, r.node)
  IN  IF ~Divisible(a, l) THEN Failed(a)
      ELSE IF q.ok /\ r.ok
      THEN Charging(cost + Malloc(bytes), new_pair(r.a, q.node, r.node))
      ELSE Failed(IF q.ok THEN r.a ELSE q.a)

\* base^exponent modulo m, which may be negative.
Modpow(base, exponent, m) ==
  LET pow[e \in 0 .. exponent] ==
        IF e = 0 THEN mod_floor(1, m)
        ELSE LET half == pow[e \div 2]
                 square == mod_floor(half * half, m)
             IN  IF e % 2 = 0 THEN square ELSE mod_floor(square * mod_floor(base, m), m)
  IN  pow[exponent]

op_modpow(a, l, max_cost) ==
  LET len(n) == atom_len(a, n)
      exponent == number(a, Arg2(a, l))
      modulus == number(a, Arg3(a, l))
      total == MODPOW_BASE_COST
                 + MODPOW_COST_PER_BYTE_BASE_VALUE * len(Arg1(a, l))
                 + MODPOW_COST_PER_BYTE_EXPONENT * len(Arg2(a, l)) * len(Arg2(a, l))
                 + MODPOW_COST_PER_BYTE_MOD * len(Arg3(a, l)) * len(Arg3(a, l))
  IN  IF /\ ThreeArgs(a, l)
         /\ \A n \in {Arg1(a, l), Arg2(a, l), Arg3(a, l)} : IsAtom(n)
         /\ total <= max_cost
         /\ exponent >= 0 /\ modulus # 0
      THEN NewNumberAndCost(a, total, Modpow(number(a, Arg1(a, l)), exponent, modulus))
      ELSE Failed(a)

\* Two small numbers are compared without being made big.
op_gr(a, l, max_cost) ==
  LET lhs == small_number(a, Arg1(a, l))
      rhs == small_number(a, Arg2(a, l))
      cost(bytes) == GR_BASE_COST + GR_COST_PER_BYTE * bytes
  IN  IF ~TwoArgs(a, l) THEN Failed(a)
      ELSE IF lhs # None /\ rhs # None
      THEN Reduced(a, cost(len_for_value(lhs) + len_for_value(rhs)), Truth(lhs > rhs))
      ELSE IF IsAtom(Arg1(a, l)) /\ IsAtom(Arg2(a, l))
      THEN Reduced(a, cost(ByteCount(a, Items(a, l), 2)),
                   Truth(number(a, Arg1(a, l)) > number(a, Arg2(a, l))))
      ELSE Failed(a)

-----------------------------------------------------------------------------
(* Bits.  A number has infinitely many bits, its sign all the way up.      *)

\* i0 << k, or >> -k, which rounds down.
Shift(v, k) == IF k > 0 THEN v * 2^k ELSE v \div 2^(-k)

\* The shift is an i32 within limits.
ShiftOk(a, l) == /\ TwoArgs(a, l)
                 /\ IsAtom(Arg1(a, l))
                 /\ IsI32(a, Arg2(a, l))
                 /\ i32_atom(a, Arg2(a, l)) \in -MAX_SHIFT .. MAX_SHIFT

op_ash(a, l, max_cost) ==
  LET v == Shift(number(a, Arg1(a, l)), i32_atom(a, Arg2(a, l)))
      bytes == atom_len(a, Arg1(a, l)) + limbs_for_int(v)
  IN  IF ShiftOk(a, l) THEN NewNumberAndCost(a, ASHIFT_BASE_COST + ASHIFT_COST_PER_BYTE * bytes, v) ELSE Failed(a)

\* The bytes are taken as a number without a sign.
op_lsh(a, l, max_cost) ==
  LET v == Shift(BigEndian(Atom(a, Arg1(a, l))), i32_atom(a, Arg2(a, l)))
      bytes == atom_len(a, Arg1(a, l)) + limbs_for_int(v)
  IN  IF ShiftOk(a, l) THEN NewNumberAndCost(a, LSHIFT_BASE_COST + LSHIFT_COST_PER_BYTE * bytes, v) ELSE Failed(a)

\* The truth table f on the bits of x and y; the bits from `width' on are
\* those of the signs.
Bitwise2(x, y, f) ==
  LET width == BITS * MAX_NUM_BYTES
      bits == [k \in 1 .. width |-> f[Bit(x, k - 1), Bit(y, k - 1)] * 2^(k - 1)]
      sign == f[IF x < 0 THEN 1 ELSE 0, IF y < 0 THEN 1 ELSE 0]
  IN  SumSeq(bits) - sign * 2^width

logand_op == [b \in {0, 1} \X {0, 1} |-> b[1] * b[2]]
logior_op == [b \in {0, 1} \X {0, 1} |-> b[1] + b[2] - b[1] * b[2]]
logxor_op == [b \in {0, 1} \X {0, 1} |-> (b[1] + b[2]) % 2]

LogCost(a, args, k) ==
  LOG_BASE_COST + LOG_COST_PER_ARG * k + LOG_COST_PER_BYTE * ByteCount(a, args, k)

\* Here an argument's bytes count in the test made after it is read.
binop_reduction(a, initial_value, l, max_cost, op_f) ==
  LET args == Items(a, l)
      tested == [k \in DOMAIN args |-> LogCost(a, args, k)]
      total[k \in 0 .. Len(args)] ==
        IF k = 0 THEN initial_value ELSE Bitwise2(total[k - 1], number(a, args[k]), op_f)
  IN  IF Admitted(a, args, max_cost, tested)
      THEN NewNumberAndCost(a, LogCost(a, args, Len(args)), total[Len(args)])
      ELSE Failed(a)

op_logand(a, l, max_cost) == binop_reduction(a, -1, l, max_cost, logand_op)
op_logior(a, l, max_cost) == binop_reduction(a, 0, l, max_cost, logior_op)
op_logxor(a, l, max_cost) == binop_reduction(a, 0, l, max_cost, logxor_op)

op_lognot(a, l, max_cost) ==
  IF OneArg(a, l) /\ IsAtom(Arg1(a, l))
  THEN NewNumberAndCost(a, LOGNOT_BASE_COST + LOGNOT_COST_PER_BYTE * atom_len(a, Arg1(a, l)),
                        -number(a, Arg1(a, l)) - 1)
  ELSE Failed(a)

-----------------------------------------------------------------------------
(* Booleans: anything that is not nil is true.                             *)

op_not(a, l, max_cost) ==
  IF OneArg(a, l) THEN Reduced(a, BOOL_BASE_COST, Truth(nilp(a, Arg1(a, l)))) ELSE Failed(a)

BoolCost(args) == BOOL_BASE_COST + BOOL_COST_PER_ARG * Len(args)

op_any(a, l, max_cost) ==
  LET args == Items(a, l)
  IN  IF args # <<>> /\ BoolCost(args) > max_cost THEN Failed(a)
      ELSE Reduced(a, BoolCost(args), Truth(\E i \in DOMAIN args : ~nilp(a, args[i])))

op_all(a, l, max_cost) ==
  LET args == Items(a, l)
  IN  IF args # <<>> /\ BoolCost(args) > max_cost THEN Failed(a)
      ELSE Reduced(a, BoolCost(args), Truth(\A i \in DOMAIN args : ~nilp(a, args[i])))

-----------------------------------------------------------------------------
(* Byte strings.                                                           *)

\* v comes after w in the order of slices.
BytesGreater(v, w) ==
  \E i \in DOMAIN v : /\ i <= Len(w) => v[i] > w[i]
                     /\ \A j \in 1 .. i - 1 : j <= Len(w) /\ v[j] = w[j]

op_gr_bytes(a, l, max_cost) ==
  IF TwoArgs(a, l) /\ IsAtom(Arg1(a, l)) /\ IsAtom(Arg2(a, l))
  THEN Reduced(a, GRS_BASE_COST + GRS_COST_PER_BYTE * ByteCount(a, Items(a, l), 2),
               Truth(BytesGreater(Atom(a, Arg1(a, l)), Atom(a, Arg2(a, l)))))
  ELSE Failed(a)

op_strlen(a, l, max_cost) ==
  LET size == atom_len(a, Arg1(a, l))
  IN  IF OneArg(a, l) /\ IsAtom(Arg1(a, l))
      THEN NewNumberAndCost(a, STRLEN_BASE_COST + STRLEN_COST_PER_BYTE * size, size) ELSE Failed(a)

\* Costs 1: the result shares the bytes of its argument.
op_substr(a, l, max_cost) ==
  LET a0 == Arg1(a, l)
      size == atom_len(a, a0)
      start == i32_atom(a, Arg2(a, l))
      argc == get_varargs(a, l, 3)
      end == IF argc = 3 THEN i32_atom(a, Arg3(a, l)) ELSE size
  IN  IF /\ argc \in 2 .. 3
         /\ IsAtom(a0) /\ IsI32(a, Arg2(a, l))
         /\ argc = 3 => IsI32(a, Arg3(a, l))
         /\ end >= 0 /\ start >= 0 /\ end <= size /\ end >= start
      THEN Charging(1, new_substr(a, a0, start, end))
      ELSE Failed(a)

\* Allocator::new_concat as one call (AllocatorClient takes its loop apart):
\* all or nothing.
new_concat(a, new_size, nodes) ==
  LET counter(k) == ByteCount(a, nodes, k)
      rejects == \E i \in DOMAIN nodes :
                   \/ ~IsAtom(nodes[i])
                   \/ nodes[i].tag = "Bytes" /\ counter(i) > new_size
  IN  IF ~concat_admitted(a, new_size) \/ rejects \/ counter(Len(nodes)) # new_size
      THEN Err(a) ELSE PushBytes(a, AllBytes(a, nodes))

ConcatCost(a, args, k, counted) ==
  CONCAT_BASE_COST + CONCAT_COST_PER_ARG * k + CONCAT_COST_PER_BYTE * ByteCount(a, args, counted)

\* Bug: the bytes count once more in the test than in the cost.
ConcatTestedTwice(a, l, max_cost) ==
  LET args == Items(a, l)
      tested == [k \in DOMAIN args |-> ConcatCost(a, args, k, k - 1)]
      total_size == ByteCount(a, args, Len(args))
      total == ConcatCost(a, args, Len(args), Len(args)) + Malloc(total_size)
  IN  IF Admitted(a, args, max_cost, tested) /\ total + Malloc(total_size) <= max_cost
      THEN Charging(total, new_concat(a, total_size, args)) ELSE Failed(a)

op_concat(a, l, max_cost) ==
  LET args == Items(a, l)
      tested == [k \in DOMAIN args |-> ConcatCost(a, args, k, k - 1)]
      total_size == ByteCount(a, args, Len(args))
      total == ConcatCost(a, args, Len(args), Len(args)) + Malloc(total_size)
  IN  IF Admitted(a, args, max_cost, tested) /\ total <= max_cost
      THEN Charging(total, new_concat(a, total_size, args)) ELSE Failed(a)

-----------------------------------------------------------------------------
(* Hashes.                                                                 *)

\* SHA256(1 .. val), as the table was computed.
PRECOMPUTED_HASHES(val) == Sha256(<<1>> \o ToBytes(val, len_for_value(val)))

Sha256Cost(args, bytes) ==
  SHA256_BASE_COST + SHA256_COST_PER_ARG * args + SHA256_COST_PER_BYTE * bytes

\* The hash of 1 and a small number, which is how tree hashes of atoms start,
\* is looked up, and its cost is not tested.
op_sha256(a, l, max_cost) ==
  LET args == Items(a, l)
      tested == [k \in DOMAIN args |-> Sha256Cost(k, ByteCount(a, args, k - 1))]
      val == small_number(a, Arg2(a, l))
      num_bytes == IF val > 0 THEN 2 ELSE 1
  IN  IF /\ TwoArgs(a, l)
         /\ small_number(a, Arg1(a, l)) = 1
         /\ val # None /\ val < PRECOMPUTED
      THEN new_atom_and_cost(a, Sha256Cost(2, num_bytes), PRECOMPUTED_HASHES(val))
      ELSE IF Admitted(a, args, max_cost, tested)
      THEN new_atom_and_cost(a, Sha256Cost(Len(args), ByteCount(a, args, Len(args))),
                             Sha256(AllBytes(a, args)))
      ELSE Failed(a)

\* Bug: the byte that only holds the sign counts as part of the amount.
AmountOfU64Bytes(v) ==
  v # <<>> =>
    /\ v[1] < SignBit
    /\ v # <<0>>
    /\ ~(Len(v) > 1 /\ v[1] = 0 /\ v[2] < SignBit)
    /\ Len(v) <= U64_BYTES

\* A byte string that op_coinid takes for an amount.
AmountOk(v) ==
  v # <<>> =>
    /\ v[1] < SignBit
    /\ v # <<0>>
    /\ ~(Len(v) > 1 /\ v[1] = 0 /\ v[2] < SignBit)
    /\ Len(v) <= U64_BYTES + 1
    /\ Len(v) = U64_BYTES + 1 => v[1] = 0

op_coinid(a, l, max_cost) ==
  LET args == Items(a, l)
  IN  IF /\ ThreeArgs(a, l)
         /\ \A i \in 1 .. 3 : IsAtom(args[i])
         /\ \A i \in 1 .. 2 : atom_len(a, args[i]) = HASH_LEN
         /\ AmountOk(Atom(a, args[3]))
      THEN new_atom_and_cost(a, COINID_COST, Sha256(AllBytes(a, args)))
      ELSE Failed(a)

-----------------------------------------------------------------------------
(* Unknown operators.                                                      *)

\* The cost functions of unknown operators (constant, like add, like mul,
\* like concat) after the first k arguments.
UnknownCost(a, cost_function, args, k) ==
  CASE cost_function = 0 -> 1
    [] cost_function = 1 -> ArithCost(a, args, k, k)
    [] cost_function = 2 ->
         MUL_BASE_COST + SumSeq([i \in 1 .. k |->
           IF i = 1 THEN 0 ELSE MulCost(ByteCount(a, args, i - 1), atom_len(a, args[i]))])
    [] cost_function = 3 -> ConcatCost(a, args, k, k)

\* The top two bits of the last byte of the opcode choose the cost function
\* and the bytes before it, plus one, multiply the cost.
op_unknown(a, o, l, max_cost) ==
  LET v == Atom(a, o)
      args == Items(a, l)
      prefix == SubSeq(v, 1, Len(v) - 1)
      reserved == \/ v = <<>>
                  \/ Len(v) >= 2 /\ v[1] = BYTE - 1 /\ v[2] = BYTE - 1
      cost_function == v[Len(v)] \div (BYTE \div 4)
      total == UnknownCost(a, cost_function, args, Len(args))
      affordable == /\ cost_function # 0 => \A i \in DOMAIN args :
                         /\ IsAtom(args[i])
                         /\ UnknownCost(a, cost_function, args, i) <= max_cost
                    /\ total <= max_cost
      cost == (total * (BigEndian(prefix) + 1)) % COST_MOD
  IN  IF reserved \/ Len(prefix) > U32_BYTES THEN Failed(a)
      ELSE IF ~affordable THEN Failed(a)
      ELSE IF cost > U32_MAX THEN Failed(a)
      ELSE Reduced(a, cost, nil)
=============================================================================
