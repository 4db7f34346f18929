------------------------------ MODULE AtomCodec ------------------------------
(***************************************************************************)
(* The length prefix of a serialized atom: src/serde/write_atom.rs,        *)
(* parse_atom.rs and serialized_length.rs, with the code's own numbers.    *)
(*                                                                         *)
(* A u64 size is [high, low], high * 2^24 + low: the limits of the code    *)
(* below 2^24 bound `low' with high = 0, the others bound `high'.  Of an   *)
(* atom only its size and its first byte matter.                           *)
(***************************************************************************)
EXTENDS Integers, Sequences, FiniteSets
LOCAL INSTANCE SequencesExt

LOW == 16777216
Size == [high : Nat, low : 0 .. LOW - 1]

\* size < t for a t up to 2^24, and size < h * 2^24.
Under(size, t) == size.high = 0 /\ size.low < t
UnderHigh(size, h) == size.high < h

Zero == [high |-> 0, low |-> 0]
One == [high |-> 0, low |-> 1]
AtLeast(a, b) == a.high > b.high \/ (a.high = b.high /\ a.low >= b.low)

\* A single byte below 0x80 is its own serialization.
Plain(atom) == atom.size = One /\ atom.atom_0 < 128

\* A size cast to u32, and a size plus n.
U32Size(size) == [size EXCEPT !.high = @ % 256]
Plus(size, n) == [high |-> size.high + (size.low + n) \div LOW,
                  low |-> (size.low + n) % LOW]

\* The largest atom that Allocator::new() has room for, u32::MAX - 1 bytes.
MaxAtom == [high |-> 255, low |-> LOW - 2]

Refused == [ok |-> FALSE]
Done(value) == [ok |-> TRUE, value |-> value]

\* The n low bytes of a 24-bit number, most significant first.
LowBytes(low, n) == [i \in 1 .. n |-> (low \div 256^(n - i)) % 256]

\* write_atom_encoding_prefix_with_size
prefix(atom) ==
  LET size == atom.size
  IN  IF size = Zero THEN Done(<<128>>)
      ELSE IF Plain(atom) THEN Done(<<>>)
      ELSE IF Under(size, 64) THEN Done(<<128 + size.low>>)
      ELSE IF Under(size, 8192)
      THEN Done(<<192 + size.low \div 256>> \o LowBytes(size.low, 1))
      ELSE IF Under(size, 1048576)
      THEN Done(<<224 + size.low \div 65536>> \o LowBytes(size.low, 2))
      ELSE IF UnderHigh(size, 8)
      THEN Done(<<240 + size.high>> \o LowBytes(size.low, 3))
      ELSE IF UnderHigh(size, 1024)
      THEN Done(<<248 + size.high \div 256, size.high % 256>> \o LowBytes(size.low, 3))
      ELSE Refused

\* The size is cast to u32 before anything else, and the sum is a u32.
serialized_length_atom(atom) ==
  LET lb == U32Size(atom.size)
  IN  IF lb = Zero \/ Plain([atom EXCEPT !.size = lb]) THEN One
      ELSE U32Size(Plus(lb, IF Under(lb, 64) THEN 1
                            ELSE IF Under(lb, 8192) THEN 2
                            ELSE IF Under(lb, 1048576) THEN 3
                            ELSE IF UnderHigh(lb, 8) THEN 4
                            ELSE 5))

\* Bug: at most four are seen.
LeadingOnesToFour(b) == Cardinality({k \in 1 .. 4 : b >= 256 - 2^(8 - k)})

LeadingOnes(b) == Cardinality({k \in 1 .. 8 : b >= 256 - 2^(8 - k)})

\* The number that the bytes of a size blob stand for.
SizeNumber(bytes) == FoldLeft(LAMBDA acc, b : acc * 256 + b, 0, bytes)
SizeOf(blob) ==
  LET n == Len(blob)
      k == IF n > 3 THEN n - 3 ELSE 0
  IN  [high |-> SizeNumber(SubSeq(blob, 1, k)), low |-> SizeNumber(SubSeq(blob, k + 1, n))]

\* decode_size_with_offset: `rest' is what follows the first byte.
decode_size_with_offset(initial_b, rest) ==
  LET offset == LeadingOnes(initial_b)
      blob == <<initial_b % 2^(8 - offset)>> \o SubSeq(rest, 1, offset - 1)
  IN  IF offset >= 8 \/ Len(rest) < offset - 1 \/ offset > 6
         \/ ~UnderHigh(SizeOf(blob), 1024)
      THEN Refused
      ELSE Done([offset |-> offset, size |-> SizeOf(blob)])

\* The size of the slice parse_atom_ptr returns, on a stream that is too long
\* to be written out: `head', the bytes up to the content, and the number of
\* content bytes that are there.  read_exact fails at its end.
parse_atom_ptr_size(stream) ==
  LET first_byte == stream.head[1]
      decoded == decode_size_with_offset(first_byte, Tail(stream.head))
  IN  IF stream.head = <<>> THEN Refused
      ELSE IF first_byte <= 127 THEN Done(One)
      ELSE IF ~decoded.ok THEN Refused
      ELSE IF ~AtLeast(stream.content, decoded.value.size) THEN Refused
      ELSE Done(decoded.value.size)

\* The size of the atom parse_atom makes of it in an empty Allocator::new(),
\* whose new_atom refuses what is larger than its heap.
parse_atom_size(stream) ==
  LET found == parse_atom_ptr_size(stream)
  IN  IF stream.head # <<>> /\ stream.head[1] = 1 THEN Done(One)
      ELSE IF stream.head # <<>> /\ stream.head[1] = 128 THEN Done(Zero)
      ELSE IF ~found.ok \/ ~AtLeast(MaxAtom, found.value) THEN Refused
      ELSE found
=============================================================================
