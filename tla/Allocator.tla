------------------------------ MODULE Allocator ------------------------------
(***************************************************************************)
(* The node arena of src/allocator.rs.  An allocator is a value, the       *)
(* record [u8_vec, pair_vec, atom_vec, small_atoms]; every operation is an *)
(* operator from an allocator to a result [ok, a, node], so that the       *)
(* machines that own an allocator (AllocatorClient, RunProgram) share the  *)
(* same definitions.                                                       *)
(*                                                                         *)
(* Vectors are sequences, so index i of the code is position i + 1 here;   *)
(* NodePtr.index keeps the code's zero-based value.                        *)
(***************************************************************************)
EXTENDS Integers, Sequences, FiniteSets

CONSTANTS
  MAX_NUM_ATOMS,  \* limit on atoms, small ones included (62500000)
  MAX_NUM_PAIRS,  \* limit on pairs (62500000)
  HEAP_LIMIT,     \* the argument of new_limited (u32::MAX, 500000000)
  USIZE,          \* number of values of a usize (2^64)
  U32,            \* number of values of a u32 (2^32)
  BYTE,           \* number of values of a byte (256)
  SMALL_LEN,      \* longest small atom, in bytes (4)
  SMALL_TOP       \* largest first byte of an atom of SMALL_LEN bytes (3)

ASSUME AllocatorAssumption ==
  /\ MAX_NUM_ATOMS \in Nat /\ MAX_NUM_ATOMS >= 2
  /\ MAX_NUM_PAIRS \in Nat
  /\ HEAP_LIMIT \in Nat \ {0}
  /\ U32 \in Nat /\ HEAP_LIMIT < U32   \* the assert of new_limited
  /\ USIZE \in Nat /\ U32 <= USIZE
  /\ BYTE \in Nat /\ BYTE >= 2
  /\ SMALL_LEN \in Nat \ {0}
  /\ SMALL_TOP \in Nat
  /\ \A k \in 0 .. SMALL_LEN : BYTE^k \in Nat \ {0}

\* A small atom has no sign bit (3 < 0x80); and what ^ means.
ASSUME EncodingAssumption ==
  /\ SMALL_TOP < BYTE \div 2
  /\ BYTE^0 = 1
  /\ \A k \in 1 .. SMALL_LEN : BYTE^k = BYTE^(k - 1) * BYTE

-----------------------------------------------------------------------------
(* Node pointers: a tag and an index, or the value itself of a small atom. *)

ObjectType == {"Pair", "Bytes", "SmallAtom"}
NodePtr == [tag : ObjectType, index : Nat]
Node(tag, index) == [tag |-> tag, index |-> index]
Small(val) == Node("SmallAtom", val)
nil == Small(0)
one == Small(1)

Byte == 0 .. BYTE - 1
SignBit == BYTE \div 2
NODE_PTR_IDX_MASK == (SMALL_TOP + 1) * BYTE^(SMALL_LEN - 1) - 1

\* The canonical non-negative integers that fit a node pointer's index bits.
fits_in_small_atom(v) ==
  \/ v = <<>>
  \/ /\ Len(v) <= SMALL_LEN
     /\ v # <<0>>
     /\ v[1] < SignBit
     /\ v[1] = 0 => v[2] >= SignBit
     /\ Len(v) = SMALL_LEN => v[1] <= SMALL_TOP

\* The number `start' with the bytes of v written after it.
Extend(start, v) ==
  LET upto[i \in 0 .. Len(v)] ==
        IF i = 0 THEN start ELSE upto[i - 1] * BYTE + v[i]
  IN  upto[Len(v)]

\* The big-endian value of a byte string.
BigEndian(v) == Extend(0, v)

\* The value from which an encoding needs n bytes (1, 0x80, 0x8000, ...).
Threshold(n) == IF n = 1 THEN 1 ELSE SignBit * BYTE^(n - 2)

\* Length of the minimal signed encoding of val, if at most `longest' bytes.
EncodedLen(val, longest) ==
  Cardinality({n \in 1 .. longest : val >= Threshold(n)})

\* Length of the minimal two's complement encoding of any integer.
SignedLen(val, longest) ==
  IF val >= 0 THEN EncodedLen(val, longest)
  ELSE IF val = -1 THEN 1 ELSE EncodedLen(-val - 1, longest)

\* The same for small values: val is compared with the thresholds in turn.
len_for_value(val) == EncodedLen(val, SMALL_LEN + 1)

\* The last `len' bytes of the big-endian, two's complement form of val.
ToBytes(val, len) ==
  [i \in 1 .. len |-> (val \div BYTE^(len - i)) % BYTE]

-----------------------------------------------------------------------------
(* The arena and its limits.                                               *)

\* Heap positions are kept as u32, whatever the length of the heap.
u32(n) == n % U32
AtomBuf == [start : 0 .. U32 - 1, end : 0 .. U32 - 1]
IntPair == [first : NodePtr, rest : NodePtr]
AllocatorType == [u8_vec : Seq(Byte), pair_vec : Seq(IntPair),
                  atom_vec : Seq(AtomBuf), small_atoms : Nat]

\* new_limited: one byte and two atoms are accounted for nil() and one().
heap_limit == HEAP_LIMIT - 1
new_limited == [u8_vec |-> <<>>, pair_vec |-> <<>>, atom_vec |-> <<>>,
                small_atoms |-> 2]

Ok(a, node) == [ok |-> TRUE, a |-> a, node |-> node]
Err(a) == [ok |-> FALSE, a |-> a, node |-> nil]

\* Bug: small atoms are not counted.
CheckLimitOfBytesOnly(a) == Len(a.atom_vec) # MAX_NUM_ATOMS

check_atom_limit(a) == Len(a.atom_vec) + a.small_atoms # MAX_NUM_ATOMS

\* heap_limit - start on unsigned integers (a release build wraps).
HeapRoom(start) == (heap_limit - start) % USIZE

AtomCount(a) == Len(a.atom_vec) + a.small_atoms

\* Every position of the heap, its end included, is a u32.
Addressable(a) == Len(a.u8_vec) < U32

-----------------------------------------------------------------------------
(* Reading nodes.                                                          *)

IsAtom(n) == n.tag # "Pair"
Buf(a, n) == a.atom_vec[n.index + 1]
First(a, n) == a.pair_vec[n.index + 1].first
Rest(a, n) == a.pair_vec[n.index + 1].rest

\* The slice that atom() takes exists; otherwise it panics.
Readable(a, n) ==
  n.tag = "Bytes" =>
    Buf(a, n).start <= Buf(a, n).end /\ Buf(a, n).end <= Len(a.u8_vec)

\* atom(): the bytes of an atom.
Atom(a, n) ==
  IF n.tag = "Bytes" THEN SubSeq(a.u8_vec, Buf(a, n).start + 1, Buf(a, n).end)
                     ELSE ToBytes(n.index, len_for_value(n.index))

atom_len(a, n) ==
  IF n.tag = "Bytes" THEN u32(Buf(a, n).end - Buf(a, n).start)
                     ELSE len_for_value(n.index)

\* small_number(): the value of an atom that is a canonical small integer.
None == -1
small_number(a, n) ==
  CASE n.tag = "SmallAtom" -> n.index
    [] n.tag = "Bytes" -> IF fits_in_small_atom(Atom(a, n))
                          THEN BigEndian(Atom(a, n)) ELSE None
    [] n.tag = "Pair" -> None

\* Bug: values are compared and lengths are not.
BytesEqIntAnyLength(a, n, val) == BigEndian(Atom(a, n)) = val

\* A byte buffer compared with a small value, without building its bytes.
bytes_eq_int(a, n, val) ==
  /\ atom_len(a, n) = len_for_value(val)
  /\ \/ val = 0
     \/ /\ a.u8_vec[Buf(a, n).start + 1] < SignBit
        /\ BigEndian(Atom(a, n)) = val

atom_eq(a, lhs, rhs) ==
  CASE lhs.tag = "Bytes" /\ rhs.tag = "Bytes" -> Atom(a, lhs) = Atom(a, rhs)
    [] lhs.tag = "SmallAtom" /\ rhs.tag = "SmallAtom" -> lhs.index = rhs.index
    [] lhs.tag = "SmallAtom" /\ rhs.tag = "Bytes" ->
         bytes_eq_int(a, rhs, lhs.index)
    [] lhs.tag = "Bytes" /\ rhs.tag = "SmallAtom" ->
         bytes_eq_int(a, lhs, rhs.index)

-----------------------------------------------------------------------------
(* Allocating nodes.                                                       *)

\* A new Bytes node for the buffer [start, end) of the heap `heap'.
PushAtom(a, heap, start, end) ==
  Ok([a EXCEPT !.u8_vec = heap,
               !.atom_vec = Append(@, [start |-> u32(start), end |-> u32(end)])],
     Node("Bytes", Len(a.atom_vec)))

PushSmall(a, val) == Ok([a EXCEPT !.small_atoms = @ + 1], Small(val))

\* v copied to the end of the heap.
PushBytes(a, v) ==
  PushAtom(a, a.u8_vec \o v, Len(a.u8_vec), Len(a.u8_vec) + Len(v))

\* Unlike new_concat, new_atom casts the length of the heap before it
\* subtracts it.
new_atom(a, v) ==
  IF HeapRoom(u32(Len(a.u8_vec))) < Len(v) \/ ~check_atom_limit(a) THEN Err(a)
  ELSE IF fits_in_small_atom(v) THEN PushSmall(a, BigEndian(v))
  ELSE PushBytes(a, v)

new_small_number(a, val) ==
  IF check_atom_limit(a) THEN PushSmall(a, val) ELSE Err(a)

\* Numbers of at most `longest' bytes: small, or their minimal signed
\* big-endian bytes.
new_number(a, val, longest) ==
  IF val \in 0 .. NODE_PTR_IDX_MASK THEN new_small_number(a, val)
  ELSE new_atom(a, ToBytes(val, SignedLen(val, longest)))

new_pair(a, first, rest) ==
  IF Len(a.pair_vec) = MAX_NUM_PAIRS THEN Err(a)
  ELSE Ok([a EXCEPT !.pair_vec = Append(@, [first |-> first, rest |-> rest])],
          Node("Pair", Len(a.pair_vec)))

bounds_check(start, end, len) == start <= len /\ end <= len /\ start <= end

\* A Bytes node shares its parent's buffer; a piece of a small atom that is
\* not small itself is copied to the heap, with no test of heap_limit.
new_substr(a, n, start, end) ==
  IF \/ ~check_atom_limit(a)
     \/ ~IsAtom(n)
     \/ ~bounds_check(start, end, atom_len(a, n))
  THEN Err(a)
  ELSE IF n.tag = "Bytes"
  THEN PushAtom(a, a.u8_vec, Buf(a, n).start + start, Buf(a, n).start + end)
  ELSE LET substr == SubSeq(Atom(a, n), start + 1, end)
       IN  IF fits_in_small_atom(substr) THEN PushSmall(a, BigEndian(substr))
                                         ELSE PushBytes(a, substr)

\* new_concat is a loop over its nodes that grows the heap as it goes; c is
\* the call in progress: where it started, the bytes it has appended and the
\* nodes it has yet to append.
ConcatCall == [start : Nat, new_size : Nat, counter : Nat, nodes : Seq(NodePtr)]

concat_admitted(a, new_size) ==
  check_atom_limit(a) /\ HeapRoom(Len(a.u8_vec)) >= new_size

\* The errors inside the loop (a small atom's length is not tested there).
concat_rejects(a, c) ==
  LET n == Head(c.nodes)
  IN  \/ ~IsAtom(n)
      \/ n.tag = "Bytes" /\ c.counter + atom_len(a, n) > c.new_size

concat_append(a, c) == [a EXCEPT !.u8_vec = @ \o Atom(a, Head(c.nodes))]

\* Bug: the bytes appended before the error stay.
TruncateForgotten(a, c) == a

\* Bug: as many bytes as were asked for are cut off.
TruncateBySize(a, c) ==
  [a EXCEPT !.u8_vec =
     SubSeq(@, 1, IF Len(@) > c.new_size THEN Len(@) - c.new_size ELSE 0)]

\* Bug: the newest atom goes with its bytes, as if the loop had pushed it.
TruncateAndPop(a, c) ==
  IF a.atom_vec = <<>> THEN a
  ELSE [a EXCEPT !.u8_vec = SubSeq(@, 1, a.atom_vec[Len(a.atom_vec)].start),
                 !.atom_vec = SubSeq(@, 1, Len(@) - 1)]

concat_truncate(a, c) == [a EXCEPT !.u8_vec = SubSeq(@, 1, c.start)]
concat_finish(a, c) == PushAtom(a, a.u8_vec, c.start, Len(a.u8_vec))

-----------------------------------------------------------------------------
(* Checkpoints: the lengths of the vectors.                                *)

checkpoint(a) ==
  [u8s |-> Len(a.u8_vec), pairs |-> Len(a.pair_vec),
   atoms |-> Len(a.atom_vec), small_atoms |-> a.small_atoms]

\* The asserts of restore_checkpoint; the number of small atoms has none.
RestoreAsserts(a, cp) ==
  /\ Len(a.u8_vec) >= cp.u8s
  /\ Len(a.pair_vec) >= cp.pairs
  /\ Len(a.atom_vec) >= cp.atoms

\* Bug: the count of small atoms is not put back.
RestoreAllButSmall(a, cp) ==
  [u8_vec |-> SubSeq(a.u8_vec, 1, cp.u8s),
   pair_vec |-> SubSeq(a.pair_vec, 1, cp.pairs),
   atom_vec |-> SubSeq(a.atom_vec, 1, cp.atoms),
   small_atoms |-> a.small_atoms]

restore_checkpoint(a, cp) ==
  [u8_vec |-> SubSeq(a.u8_vec, 1, cp.u8s),
   pair_vec |-> SubSeq(a.pair_vec, 1, cp.pairs),
   atom_vec |-> SubSeq(a.atom_vec, 1, cp.atoms),
   small_atoms |-> cp.small_atoms]

-----------------------------------------------------------------------------
\* n may be read in a.
Valid(a, n) ==
  CASE n.tag = "Pair" -> n.index < Len(a.pair_vec)
    [] n.tag = "Bytes" -> n.index < Len(a.atom_vec)
    [] n.tag = "SmallAtom" -> TRUE

\* An allocator within its limits, whose atoms lie in its heap and whose pairs
\* are made of older nodes.
Limits(a) == AtomCount(a) <= MAX_NUM_ATOMS /\ Len(a.pair_vec) <= MAX_NUM_PAIRS
Buffers(a) ==
  \A i \in DOMAIN a.atom_vec :
    /\ a.atom_vec[i].end <= Len(a.u8_vec)
    /\ Addressable(a) => a.atom_vec[i].start <= a.atom_vec[i].end
Pairs(a) ==
  \A i \in DOMAIN a.pair_vec :
    \A n \in {a.pair_vec[i].first, a.pair_vec[i].rest} :
      Valid(a, n) /\ (n.tag = "Pair" => n.index + 1 < i)
Sound(a) == a \in AllocatorType /\ Limits(a) /\ Buffers(a) /\ Pairs(a)
=============================================================================
