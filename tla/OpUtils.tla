------------------------------- MODULE OpUtils -------------------------------
(***************************************************************************)
(* What the operators share (src/op_utils.rs): taking arguments from a     *)
(* list, reading atoms as numbers, and paying for what they allocate.      *)
(*                                                                         *)
(* An operator is a definition from an allocator, an argument list and a   *)
(* budget to a Response: the allocator it leaves and, when it succeeds, a  *)
(* node and a cost.  Which error it is when it fails is left out, so the   *)
(* order of two tests that both lead to an error does not show.            *)
(***************************************************************************)
EXTENDS PathTraversal

CONSTANTS
  U64_BYTES,       \* bytes of a u64, the type of a Cost (8)
  U32_BYTES,       \* bytes of a u32: a softfork extension, a multiplier (4)
  I32_BYTES,       \* bytes of an i32: an index, a shift (4)
  MAX_NUM_BYTES    \* bound: no number that is built is longer

ASSUME OpUtilsAssumption ==
  /\ {U64_BYTES, U32_BYTES, I32_BYTES, MAX_NUM_BYTES} \subseteq Nat \ {0}
  /\ \A k \in 0 .. MAX_NUM_BYTES : BYTE^k \in Nat \ {0}
  /\ \A k \in 0 .. U64_BYTES : BYTE^k \in Nat \ {0}
  /\ U32 = BYTE^U32_BYTES

MALLOC_COST_PER_BYTE == 10

Reduced(a, cost, node) == [ok |-> TRUE, a |-> a, node |-> node, cost |-> cost]
Failed(a) == [ok |-> FALSE, a |-> a, node |-> nil, cost |-> 0]
Charging(cost, r) == IF r.ok THEN Reduced(r.a, cost, r.node) ELSE Failed(r.a)
Truth(b) == IF b THEN one ELSE nil

-----------------------------------------------------------------------------
(* Argument lists.                                                         *)

\* The list after its first item; an atom ends it.
Next1(a, n) == IF IsAtom(n) THEN n ELSE Rest(a, n)
Next2(a, n) == Next1(a, Next1(a, n))
Next3(a, n) == Next1(a, Next2(a, n))

\* get_args::<N>: a list of exactly N items, whatever atom terminates it.
OneArg(a, n) == ~IsAtom(n) /\ IsAtom(Next1(a, n))
TwoArgs(a, n) == ~IsAtom(Next1(a, n)) /\ IsAtom(Next2(a, n))
ThreeArgs(a, n) == ~IsAtom(Next2(a, n)) /\ IsAtom(Next3(a, n))
FourArgs(a, n) == ~IsAtom(Next3(a, n)) /\ IsAtom(Next1(a, Next3(a, n)))
Arg1(a, n) == First(a, n)
Arg2(a, n) == First(a, Next1(a, n))
Arg3(a, n) == First(a, Next2(a, n))
Arg4(a, n) == First(a, Next3(a, n))

\* All the items of a list, and what ends it.  A pair's members are older
\* than the pair.
Items(a, n) ==
  LET items[i \in 0 .. Len(a.pair_vec) - 1] ==
        LET p == a.pair_vec[i + 1]
        IN  <<p.first>> \o (IF IsAtom(p.rest) THEN <<>> ELSE items[p.rest.index])
  IN  IF IsAtom(n) THEN <<>> ELSE items[n.index]
Terminator(a, n) ==
  LET end[i \in 0 .. Len(a.pair_vec) - 1] ==
        LET p == a.pair_vec[i + 1]
        IN  IF IsAtom(p.rest) THEN p.rest ELSE end[p.rest.index]
  IN  IF IsAtom(n) THEN n ELSE end[n.index]

nilp(a, n) == IsAtom(n) /\ atom_len(a, n) = 0

\* get_varargs::<N>: how many items a list of at most `most' has.
get_varargs(a, n, most) ==
  LET argc == Len(Items(a, n)) IN IF argc <= most THEN argc ELSE None

\* A loop over args that tests the cost tested[i] before it is done with
\* argument i, which must be an atom.
Admitted(a, args, max_cost, tested) ==
  \A i \in DOMAIN args : IsAtom(args[i]) /\ tested[i] <= max_cost

\* The sum of a sequence of numbers.
SumSeq(s) ==
  LET upto[i \in 0 .. Len(s)] == IF i = 0 THEN 0 ELSE upto[i - 1] + s[i]
  IN  upto[Len(s)]

\* Total length of the first k arguments.
ByteCount(a, args, k) == SumSeq([i \in 1 .. k |-> atom_len(a, args[i])])

\* The bytes of all the arguments.
AllBytes(a, args) ==
  LET upto[i \in 0 .. Len(args)] ==
        IF i = 0 THEN <<>> ELSE upto[i - 1] \o Atom(a, args[i])
  IN  upto[Len(args)]

-----------------------------------------------------------------------------
(* Numbers.                                                                *)

\* Two's complement, most significant byte first: to the left of a set sign
\* bit there are but ones.
number_from_u8(v) == Extend(IF v # <<>> /\ v[1] >= SignBit THEN -1 ELSE 0, v)

\* number(), the first result of int_atom().
number(a, n) == IF n.tag = "Bytes" THEN number_from_u8(Atom(a, n)) ELSE n.index

\* A non-negative integer of at most `size' bytes, leading zeros allowed.
uint_atom(a, n, size) ==
  LET v == Atom(a, n)
      significant == SubSeq(v, first_non_zero(v) + 1, Len(v))
  IN  CASE n.tag = "Pair" -> None
        [] n.tag = "SmallAtom" -> n.index
        [] n.tag = "Bytes" ->
             IF v = <<>> THEN 0
             ELSE IF v[1] >= SignBit \/ Len(significant) > size THEN None
             ELSE BigEndian(significant)

\* Bug: a buffer of four bytes is taken to be too long.
IsI32Shorter(a, n) == \/ n.tag = "SmallAtom"
                      \/ n.tag = "Bytes" /\ atom_len(a, n) < I32_BYTES

\* i32_atom: a buffer may have leading zeros, up to four bytes.
IsI32(a, n) == \/ n.tag = "SmallAtom"
               \/ n.tag = "Bytes" /\ atom_len(a, n) <= I32_BYTES
i32_atom(a, n) == number(a, n)

\* Bytes of the magnitude of v, which is how it is stored.
limbs_for_int(v) ==
  LET magnitude == IF v < 0 THEN -v ELSE v
  IN  Cardinality({n \in 1 .. MAX_NUM_BYTES : magnitude >= BYTE^(n - 1)})

div_floor(x, y) == IF y > 0 THEN x \div y ELSE (-x) \div (-y)
mod_floor(x, y) == x - y * div_floor(x, y)

-----------------------------------------------------------------------------
(* Results that are new atoms, and their price.                            *)

Malloc(len) == len * MALLOC_COST_PER_BYTE

new_atom_and_cost(a, cost, v) == Charging(cost + Malloc(Len(v)), new_atom(a, v))

\* new_number, followed by malloc_cost.
NewNumberAndCost(a, cost, v) ==
  LET r == new_number(a, v, MAX_NUM_BYTES)
  IN  Charging(cost + Malloc(atom_len(r.a, r.node)), r)
=============================================================================
