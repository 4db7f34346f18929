----------------------------- MODULE MCOperators -----------------------------
(***************************************************************************)
(* One operator called on arguments that are put in the arena one by one,  *)
(* each as a new atom or, with the same bytes, as a concatenation, which   *)
(* is never a small atom; and paths of up to MaxLen bytes, grown a byte at *)
(* a time, looked up in trees that go on to the left, to the right, or     *)
(* alternate.  A byte has three bits, so boundaries come early.            *)
(***************************************************************************)
EXTENDS Dialect, SequencesExt

CONSTANTS MaxLen, Depth  \* of the paths, and of the trees

ASSUME BoundsAssumption == MaxLen \in Nat /\ Depth \in Nat

VARIABLES
  family,      \* the operators and arguments of this behaviour
  alloc, args, \* the arena and the arguments given so far
  last,        \* <<>>, or the call that was made
  path, shape  \* the path and the kind of tree it is looked up in

vars == <<family, alloc, args, last, path, shape>>

Unlimited == 100000000

-----------------------------------------------------------------------------
(* Arguments: numbers at the edges of one, two and three bytes; points     *)
(* and what is almost one; hashes, amounts, keys and signatures.           *)

Strings(n) == UNION {[1 .. m -> Byte] : m \in 0 .. n}
Numbers ==
  {<<>>, <<0>>, <<1>>, <<2>>, <<3>>, <<4>>, <<7>>, <<0, 2>>, <<0, 4>>, <<4, 0>>,
   <<7, 3>>, <<0, 4, 0>>, <<3, 7, 7>>, <<0, 0, 5>>}
G1 == {to_bytes(p, G1_LEN) : p \in Scalar}
G2 == {to_bytes(p, G2_LEN) : p \in Scalar}
NotPoints == {<<6, 1>>, <<4, 0>>, <<4, 0, 0>>, <<2, 1>>}
Scalars == {<<>>, <<1>>, <<3>>, <<7>>, <<0, 5>>}
Hashes == {<<1, 1>>, <<5, 0>>}

MCSha256(v) == <<FoldLeft(LAMBDA acc, b : 3 * acc + b + 1, 0, v) % BYTE, Len(v) % BYTE>>
MCHash(v, dst) == FoldLeft(LAMBDA acc, b : 2 * acc + b + 1, Len(dst), v) % GROUP_ORDER
MCKeccak(v) == <<7>> \o MCSha256(v)
NoOps == <<>>
Dst1 == <<1, 2>>
Dst2 == <<3>>
Keys == {<<2, 1>>, <<3, 1>>}
Sigs == {<<1>>, <<2>>}
Signed == {<<<<2, 1>>, <<1, 1>>, <<1>>>>, <<<<3, 1>>, <<5, 0>>, <<2>>>>}

NumberOps == {FROM_3[i] : i \in DOMAIN FROM_3} \cup {FROM_16[i] : i \in DOMAIN FROM_16}
               \cup {FROM_32[i] : i \in DOMAIN FROM_32} \cup {"op_mod", "op_modpow"}
PointOps == {FROM_29[i] : i \in DOMAIN FROM_29} \cup {FROM_48[i] : i \in 2 .. 12}

ThreeOps == {"op_if", "op_substr", "op_modpow", "op_add", "op_multiply", "op_concat",
             "op_logxor", "op_all", "op_bls_verify", "op_coinid", "op_sha256", "op_g2_add",
             "op_keccak256", "op_secp256k1_verify", "op_secp256r1_verify"}

\* The operators; the strings that may be argument 1, 2 and 3, the ways to
\* make them, whether pairs are given too; and the atoms already in use.
Families ==
  {[ops |-> NumberOps, ways |-> {"atom", "concat"}, pairs |-> TRUE, used |-> 2,
    strings |-> <<Numbers, Numbers, {<<2>>, <<7>>, <<0, 3>>}>>],
   [ops |-> {"op_divmod", "op_concat", "op_subtract", "op_sha256", "op_substr", "op_cons"},
    ways |-> {"atom"}, pairs |-> FALSE, used |-> MAX_NUM_ATOMS - 3,
    strings |-> <<{<<1>>, <<7, 3>>, <<0, 4>>}, {<<1>>, <<2>>, <<0, 4>>}, {<<2>>}>>],
   [ops |-> PointOps, ways |-> {"atom"}, pairs |-> TRUE, used |-> 2,
    strings |-> <<G1 \cup G2 \cup NotPoints \cup Scalars, G1 \cup G2 \cup NotPoints \cup Scalars,
                  {<<>>, <<1>>}>>],
   [ops |-> {"op_coinid"}, ways |-> {"atom", "concat"}, pairs |-> FALSE, used |-> 2,
    strings |-> <<Hashes, Hashes \cup {<<1, 1, 1>>}, Strings(U64_BYTES + 1)>>],
   [ops |-> {"op_secp256k1_verify", "op_secp256r1_verify", "op_keccak256"},
    ways |-> {"atom"}, pairs |-> FALSE, used |-> 2,
    strings |-> <<Keys \cup {<<1, 1>>}, Hashes \cup {<<1>>}, Sigs \cup {<<5>>}>>]}

Init ==
  /\ family \in Families
  /\ alloc = [new_limited EXCEPT !.small_atoms = family.used]
  /\ args = <<>> /\ last = <<>>
  /\ path = <<>> /\ shape \in {"left", "right", "zigzag"}

\* An atom with these bytes, made in either way.
Make(a, v, way) ==
  LET r == new_atom(a, v) IN IF way = "atom" THEN r ELSE new_concat(r.a, Len(v), <<r.node>>)

\* The argument list, as the interpreter builds it, last argument first.
MakeList(a, nodes) ==
  FoldRight(LAMBDA n, r : new_pair(r.a, n, r.node), nodes, Ok(a, nil))

Calling == last = <<>> /\ path = <<>> /\ shape = "left"

GiveAtom ==
  /\ Calling /\ Len(args) < 3
  /\ \E v \in family.strings[Len(args) + 1], way \in family.ways :
       LET r == Make(alloc, v, way)
       IN  r.ok /\ alloc' = r.a /\ args' = Append(args, r.node)
  /\ UNCHANGED <<family, last, path, shape>>

GivePair ==
  /\ Calling /\ Len(args) < 2 /\ family.pairs
  /\ LET r == new_pair(alloc, nil, one) IN alloc' = r.a /\ args' = Append(args, r.node)
  /\ UNCHANGED <<family, last, path, shape>>

CallOperator ==
  /\ Calling
  /\ \E f \in IF Len(args) = 3 THEN family.ops \cap ThreeOps ELSE family.ops :
       \E l \in {MakeList(alloc, args)} : \E r \in {Call_op(f, l.a, l.node, Unlimited)} :
         /\ last' = <<[f |-> f, a |-> l.a, list |-> l.node, r |-> r]>>
         /\ alloc' = r.a
  /\ UNCHANGED <<family, args, path, shape>>

LongerPath ==
  /\ args = <<>> /\ last = <<>> /\ family.ops = {"op_coinid"}
  /\ Len(path) < MaxLen
  /\ \E b \in Byte : path' = Append(path, b)
  /\ UNCHANGED <<family, alloc, args, last, shape>>

Next == GiveAtom \/ GivePair \/ CallOperator \/ LongerPath
Spec == Init /\ [][Next]_vars
-----------------------------------------------------------------------------
(* Paths.                                                                  *)

\* Pair i has pair i - 1 on one side and the atom i on the other.
OnLeft(i) == shape = "left" \/ (shape = "zigzag" /\ i % 2 = 0)
Arena ==
  LET child(i) == IF i = 1 THEN nil ELSE Node("Pair", i - 2)
  IN  [new_limited EXCEPT !.pair_vec =
         [i \in 1 .. Depth |->
            IF OnLeft(i) THEN [first |-> child(i), rest |-> Small(i)]
                         ELSE [first |-> Small(i), rest |-> child(i)]]]
Root == Node("Pair", Depth - 1)

\* The state is one of a path that is looked up.
Looking == args = <<>> /\ last = <<>>

\* A reference: path 0 is nil, path 1 the whole tree, path 2n (2n + 1) is
\* path n of the left (right) child.  Four a bit, and four a leading zero.
RECURSIVE Follow(_, _)
Follow(n, node) ==
  CASE n = 0 -> Reduction(44, nil)
    [] n = 1 -> Reduction(44, node)
    [] n > 1 /\ IsAtom(node) -> PathIntoAtom
    [] OTHER -> LET r == Follow(n \div 2, IF n % 2 = 0 THEN First(Arena, node)
                                                       ELSE Rest(Arena, node))
                IN  WithCost(r, r.cost + 4)

\* traverse_path() on bytes finds the node and the cost of the reference,
\* with any number of leading zero bytes and with the sentinel bit anywhere
\* in its byte.
BytesMatchReference ==
  Looking =>
    LET zeros == Cardinality({i \in DOMAIN path : \A j \in 1 .. i : path[j] = 0})
        ref == Follow(BigEndian(path), Root)
    IN  traverse_path(Arena, path, Root) = WithCost(ref, ref.cost + 4 * zeros)

\* An atom may be a small value or, with the same bytes, a heap buffer:
\* traverse_path_fast() on the value finds the node and the cost that
\* traverse_path() finds on the bytes, the cost of the leading zero byte of
\* values such as 0x80 included.
FastMatchesBytes ==
  Looking /\ fits_in_small_atom(path) =>
    traverse_path_fast(Arena, BigEndian(path), Root) =
      traverse_path(Arena, path, Root)

\* Looking up a path, by either function, is following it from the root, at
\* the cost of its bits and leading zeros, in whatever form the atom is.
PathsMatchReference == BytesMatchReference /\ FastMatchesBytes

-----------------------------------------------------------------------------
(* Operators.                                                              *)

\* The tree a node stands for: <<bytes>> or <<left, right>>.
RECURSIVE Tree(_, _)
Tree(a, n) ==
  IF IsAtom(n) THEN <<Atom(a, n)>>
  ELSE <<Tree(a, First(a, n)), Tree(a, Rest(a, n))>>

\* What a caller can tell of a response.
Seen(r) == IF r.ok THEN <<r.cost, Tree(r.a, r.node)>> ELSE <<>>

Called == last # <<>>
Done == last[1]
Again(max_cost) == Call_op(Done.f, Done.a, Done.list, max_cost)

\* f on atoms with these bytes, and the value it returns if it does.
On(f, strings) ==
  LET step(r, v) == LET m == new_atom(r.a, v) IN [a |-> m.a, nodes |-> Append(r.nodes, m.node)]
      made == FoldLeft(step, [a |-> new_limited, nodes |-> <<>>], strings)
      l == MakeList(made.a, made.nodes)
  IN  Call_op(f, l.a, l.node, Unlimited)
Bytes(r) == Atom(r.a, r.node)
ValueOf(r) == number(r.a, r.node)

\* A call on atoms, in an arena with room for a call of On; and their bytes.
Roomy == Called /\ family.used = 2 /\ \A i \in DOMAIN args : IsAtom(args[i])
Given == [i \in DOMAIN args |-> Atom(Done.a, args[i])]

\* What an operator returns and costs depends on the bytes of its arguments
\* and not on how they were made: small atoms take other branches in op_gr,
\* op_sha256, op_substr, i32_atom, uint_atom and atom_eq than heap buffers.
SameForEqualBytes ==
  Roomy => Seen(Done.r) = Seen(On(Done.f, Given))

\* The budget is a test and nothing else: a call that would cost at most
\* max_cost gets the answer and the cost it gets with any larger budget, and
\* one that fails with a large budget fails with every smaller one.  (Some
\* operators do not test it, or not at the end: the interpreter does.)
BudgetOnlyRejects ==
  Called =>
    \A m \in {0, Done.r.cost \div 2, Done.r.cost - 1, Done.r.cost} \cap Nat :
      \E r \in {Again(m)} :
        (r.ok \/ (Done.r.ok /\ m >= Done.r.cost)) => r = Done.r

\* An operator only adds to the arena, also one that fails between two
\* allocations: the limits are those of the arena, and the result is a node
\* of the arena it leaves.
OnlyAdds ==
  Called =>
    LET r == Done.r
        cp == checkpoint(Done.a)
    IN  /\ RestoreAsserts(r.a, cp) /\ restore_checkpoint(r.a, cp) = Done.a
        /\ r.ok => Valid(r.a, r.node)
        /\ AtomCount(r.a) <= MAX_NUM_ATOMS /\ Len(r.a.pair_vec) <= MAX_NUM_PAIRS

\* No shorter string has the same value.
Minimal(v) ==
  v # <<>> => /\ v # <<0>>
              /\ Len(v) > 1 => /\ ~(v[1] = 0 /\ v[2] < SignBit)
                               /\ ~(v[1] = BYTE - 1 /\ v[2] >= SignBit)

\* The operators agree on the integers: sums, differences and products are
\* right and encoded without a redundant byte; div and mod are the two halves
\* of divmod, and x = q * y + r with r between zero and y; and, or and xor are
\* tied by x + y = (x and y) + (x or y), and xor by what it lacks of or.
ArithmeticLaws ==
  (Roomy /\ Len(args) = 2 /\ Done.f = "op_divmod") =>
    \E f \in {[name \in {"op_add", "op_subtract", "op_multiply", "op_logand", "op_logior",
                        "op_logxor", "op_gr", "op_div", "op_mod"} |-> On(name, Given)]} :
      LET x == number_from_u8(Given[1])
          y == number_from_u8(Given[2])
          v(name) == ValueOf(f[name])
          q == v("op_div")
          r == v("op_mod")
      IN  /\ v("op_add") = x + y
          /\ v("op_subtract") = x - y
          /\ v("op_multiply") = x * y
          /\ v("op_logand") + v("op_logior") = x + y
          /\ v("op_logxor") = v("op_logior") - v("op_logand")
          /\ (f["op_gr"].node = one) <=> x > y
          /\ \A name \in DOMAIN f \ {"op_gr", "op_div", "op_mod"} : Minimal(Bytes(f[name]))
          /\ Done.r.ok <=> y # 0
          /\ f["op_div"].ok <=> y # 0
          /\ f["op_mod"].ok <=> y # 0
          /\ Done.r.ok => /\ Tree(Done.r.a, Done.r.node) =
                               <<<<Bytes(f["op_div"])>>, <<Bytes(f["op_mod"])>>>>
                          /\ x = q * y + r
                          /\ IF y > 0 THEN 0 <= r /\ r < y ELSE y < r /\ r <= 0

\* Shifts: left then right by the same amount is the identity, on the value
\* for ash and on the bytes as a positive number for lsh; the two agree on
\* numbers that are not negative.
ShiftLaws ==
  (Roomy /\ Done.f = "op_lsh" /\ Done.r.ok) =>
    \E ash \in {On("op_ash", Given)} :
      LET x == number_from_u8(Given[1])
          k == number_from_u8(Given[2])
          back == ToBytes(-k, SignedLen(-k, MAX_NUM_BYTES))
      IN  /\ ash.ok
          /\ k >= 0 =>
               \A p \in {<<Bytes(ash), x>>, <<Bytes(Done.r), BigEndian(Given[1])>>} :
                 ValueOf(On("op_ash", <<p[1], back>>)) = p[2]
          /\ k < 0 => ValueOf(ash) * 2^(-k) <= x /\ x < (ValueOf(ash) + 1) * 2^(-k)
          /\ x >= 0 => Bytes(ash) = Bytes(Done.r)

\* What a call costs beyond the bytes of its result depends on the lengths of
\* its arguments alone: every byte allocated is paid for, and nothing is
\* cheaper for values that are small or made in another way.
Comparisons == {"op_gr", "op_gr_bytes", "op_eq"}
CostIsByLength ==
  (/\ Roomy /\ Len(args) = 2 /\ Done.r.ok
   /\ Done.f \in Comparisons \cup {"op_add", "op_subtract", "op_multiply", "op_div", "op_mod",
                                   "op_logand", "op_logior", "op_logxor", "op_concat"}) =>
    LET beyond(r) == r.cost - (IF Done.f \in Comparisons THEN 0 ELSE Malloc(Len(Bytes(r))))
        ones == [i \in 1 .. 2 |-> [j \in DOMAIN Given[i] |-> 1]]
    IN  beyond(Done.r) = beyond(On(Done.f, ones))

\* Only the bytes of the arguments matter to what a call returns, and only
\* their number to what it costs: never how an atom was made.
OnlyBytesMatter == SameForEqualBytes /\ CostIsByLength

\* What the operators on numbers compute is arithmetic on the integers.
NumberLaws == ArithmeticLaws /\ ShiftLaws

\* The pieces of a string, put together again, are the string, wherever it is
\* cut; only cuts in order and inside it are allowed.
PiecesMakeTheWhole ==
  (Roomy /\ Len(args) = 3 /\ Done.f = "op_substr") =>
    LET v == Given[1]
        i == Given[2]
        j == Given[3]
    IN  /\ Done.r.ok <=> /\ Len(i) <= I32_BYTES /\ Len(j) <= I32_BYTES
                         /\ 0 <= number_from_u8(i) /\ number_from_u8(i) <= number_from_u8(j)
                         /\ number_from_u8(j) <= Len(v)
        /\ Done.r.ok =>
             \E piece \in {[bounds \in {<<<<>>, i>>, <<j>>} |->
                            Bytes(On("op_substr", <<v>> \o bounds))]} :
               Bytes(On("op_concat", <<piece[<<<<>>, i>>], Bytes(Done.r), piece[<<j>>]>>)) = v

\* The amounts that op_coinid takes are the canonical encodings of the u64
\* numbers, no more and no fewer, and the coin id is the hash of the three
\* byte strings.
AmountsAreU64 ==
  (Roomy /\ Len(args) = 3 /\ Done.f = "op_coinid") =>
    /\ Done.r.ok <=>
         /\ Len(Given[1]) = HASH_LEN /\ Len(Given[2]) = HASH_LEN
         /\ \E n \in 0 .. COST_MOD - 1 : Given[3] = ToBytes(n, EncodedLen(n, U64_BYTES + 1))
    /\ Done.r.ok => Bytes(Done.r) = Bytes(On("op_sha256", Given))

\* The operators that look at an atom byte by byte take exactly the arguments
\* they should: cuts inside the string, canonical amounts.
StringLaws == PiecesMakeTheWhole /\ AmountsAreU64

\* The operators of the two groups.
Groups ==
  {[negate |-> "op_g1_negate", add |-> "op_point_add", subtract |-> "op_g1_subtract",
    multiply |-> "op_g1_multiply", infinity |-> to_bytes(0, G1_LEN)],
   [negate |-> "op_g2_negate", add |-> "op_g2_add", subtract |-> "op_g2_subtract",
    multiply |-> "op_g2_multiply", infinity |-> to_bytes(0, G2_LEN)]}

\* Negating a point by flipping a bit of its encoding is negating it: it is
\* its product with -1 and the difference from infinity, the two add up to
\* infinity, and their pairings cancel.  A public key is the same multiple of
\* the generator whether op_pubkey_for_exp or op_g1_multiply computes it, also
\* for exponents that are negative or not less than the group order.
PointLaws ==
  Roomy /\ Len(args) = 1 =>
    LET p == Given[1]
        n == Bytes(Done.r)
        g1 == to_bytes(1, G1_LEN)
    IN  /\ \A g \in {gg \in Groups : gg.negate = Done.f} :
             \E product \in {On(g.multiply, <<p, <<BYTE - 1>>>>)} :
               /\ Done.r.ok <=> product.ok
               /\ Done.r.ok => /\ n = Bytes(product)
                               /\ n = Bytes(On(g.subtract, <<g.infinity, p>>))
                               /\ g.infinity = Bytes(On(g.add, <<p, n>>))
        /\ Done.f = "op_g1_negate" /\ Done.r.ok =>
             \A q \in G2 : On("op_bls_pairing_identity", <<p, q, n, q>>).ok
        /\ Done.f = "op_pubkey_for_exp" =>
             n = Bytes(On("op_g1_multiply", <<g1, p>>))
=============================================================================
