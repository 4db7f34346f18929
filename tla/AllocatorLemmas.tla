--------------------------- MODULE AllocatorLemmas ---------------------------
(***************************************************************************)
(* What holds of the allocator's operations whoever calls them (Allocator, *)
(* src/allocator.rs), and induction in the form the provers can use.       *)
(*                                                                         *)
(* Everything rests on one relation.  Every operation that succeeds or     *)
(* fails leaves an allocator that the old one is a prefix of, so that what *)
(* was true of old nodes stays true; and truncating to the lengths of a    *)
(* prefix gives the prefix back.                                           *)
(***************************************************************************)
EXTENDS Allocator, TLAPS, FiniteSetTheorems

-----------------------------------------------------------------------------
(* Induction on a set of numbers, and functions defined by recursion.      *)

\* Strong induction, on a set.
LEMMA StrongInduction ==
  ASSUME NEW S, \A n \in Nat : (\A m \in 0 .. n - 1 : m \in S) => n \in S
  PROVE  Nat \subseteq S
<1> DEFINE T == Nat \ S
           R == OpToRel(<, Nat)
<1> SUFFICES ASSUME T # {} PROVE FALSE
  OBVIOUS
<1>1. \A x, y \in Nat : x < y => <<x, y>> \in R
  BY DEF OpToRel
<1>2. IsWellFoundedOn(R, Nat)
  BY NatLessThanWellFounded, Zenon
<1> HIDE DEF R
<1>3. PICK m \in T : \A y \in T : ~(<<y, m>> \in R)
  <2>1. T \subseteq Nat
    OBVIOUS
  <2>2. QED
    BY <1>2, <2>1, WFMin, Zenon
<1>4. m \in Nat /\ m \notin S
  OBVIOUS
<1>5. \A k \in 0 .. m - 1 : k \in S
  <2> TAKE k \in 0 .. m - 1
  <2>1. k \in Nat /\ k < m
    BY <1>4
  <2>2. <<k, m>> \in R
    BY <1>1, <1>4, <2>1
  <2>3. k \notin T
    BY <1>3, <2>2
  <2>4. QED
    BY <2>1, <2>3
<1>6. QED
  BY <1>4, <1>5

LEMMA SameSequence ==
  ASSUME NEW S, NEW s \in Seq(S), NEW T, NEW t \in Seq(T), Len(s) = Len(t),
         \A i \in 1 .. Len(s) : s[i] = t[i]
  PROVE  s = t
OBVIOUS

LEMMA TypedByInduction ==
  ASSUME NEW f, NEW X, NEW n \in Nat,
         \A i \in 0 .. n : (\A j \in 0 .. i - 1 : f[j] \in X) => f[i] \in X
  PROVE  \A i \in 0 .. n : f[i] \in X
<1> DEFINE S == {i \in Nat : i <= n => f[i] \in X}
<1>1. ASSUME NEW i \in Nat, \A j \in 0 .. i - 1 : j \in S
      PROVE  i \in S
  <2>1. CASE i <= n
    <3>1. i \in 0 .. n
      BY <2>1
    <3>2. \A j \in 0 .. i - 1 : f[j] \in X
      BY <1>1, <2>1
    <3>3. QED
      BY <3>1, <3>2
  <2>2. QED
    BY <2>1
<1>2. Nat \subseteq S
  <2> HIDE DEF S
  <2> QED BY <1>1, StrongInduction
<1>3. QED
  BY <1>2

\* A definition by recursion: at the numbers of `stop' a value is given, at
\* the others it is computed from the value at the smaller number pred[i].
WellDefined(X, n, stop, base, pred, step) ==
  /\ \A i \in 0 .. n : i \in stop => base[i] \in X
  /\ \A i \in 0 .. n : i \notin stop => pred[i] \in 0 .. i - 1
  /\ \A i \in 0 .. n : i \notin stop => \A x \in X : step[i][x] \in X
Solves(f, n, stop, base, pred, step) ==
  \A i \in 0 .. n : f[i] = IF i \in stop THEN base[i] ELSE step[i][f[pred[i]]]

LEMMA Recursion ==
  ASSUME NEW X, NEW n \in Nat, NEW stop, NEW base, NEW pred, NEW step,
         WellDefined(X, n, stop, base, pred, step)
  PROVE  \E f \in [0 .. n -> X] : Solves(f, n, stop, base, pred, step)
<1> USE DEF WellDefined, Solves
<1> DEFINE Upto(k, f) == \A i \in 0 .. k :
             f[i] = IF i \in stop THEN base[i] ELSE step[i][f[pred[i]]]
           S == {k \in Nat : k <= n => \E f \in [0 .. k -> X] : Upto(k, f)}
<1>1. ASSUME NEW k \in Nat, \A j \in 0 .. k - 1 : j \in S, k <= n
      PROVE  \E f \in [0 .. k -> X] : Upto(k, f)
  <2>1. CASE k = 0
    <3> DEFINE f == [i \in 0 .. 0 |-> base[i]]
    <3>1. 0 \in stop /\ base[0] \in X
      BY <1>1, <2>1
    <3>2. f \in [0 .. 0 -> X] /\ f[0] = base[0] /\ \A i \in 0 .. 0 : i = 0
      BY <3>1
    <3> HIDE DEF f
    <3>3. Upto(0, f)
      BY <3>1, <3>2
    <3>4. QED
      BY <2>1, <3>2, <3>3
  <2>2. CASE k > 0
    <3>1. k - 1 \in S /\ k - 1 \in Nat /\ k - 1 <= n
      BY <1>1, <2>2
    <3>2. PICK g \in [0 .. k - 1 -> X] : Upto(k - 1, g)
      BY <3>1
    <3> DEFINE last == IF k \in stop THEN base[k] ELSE step[k][g[pred[k]]]
               f == [i \in 0 .. k |-> IF i = k THEN last ELSE g[i]]
    <3>3. k \in 0 .. n /\ last \in X
      <4>1. k \in 0 .. n
        BY <1>1
      <4>2. k \notin stop => pred[k] \in 0 .. k - 1
        BY <4>1
      <4>3. k \notin stop => g[pred[k]] \in X
        BY <4>2
      <4>4. QED
        BY <4>1, <4>3
    <3> HIDE DEF last
    <3>4. /\ f \in [0 .. k -> X] /\ f[k] = last
          /\ \A i \in 0 .. k - 1 : f[i] = g[i]
      BY <3>3
    <3> HIDE DEF f
    <3>5. ASSUME NEW i \in 0 .. k
          PROVE  f[i] = IF i \in stop THEN base[i] ELSE step[i][f[pred[i]]]
      <4>0. i \in 0 .. n
        BY <1>1
      <4>1. i \notin stop => pred[i] \in 0 .. i - 1
        BY <4>0
      <4>2. i \notin stop => f[pred[i]] = g[pred[i]]
        BY <3>4, <4>1
      <4>3. CASE i = k
        BY <3>4, <4>2, <4>3 DEF last
      <4>4. CASE i # k
        <5>1. i \in 0 .. k - 1
          BY <4>4
        <5>2. g[i] = IF i \in stop THEN base[i] ELSE step[i][g[pred[i]]]
          BY <3>2, <5>1
        <5>3. QED
          BY <3>4, <4>2, <5>1, <5>2
      <4>5. QED
        BY <4>3, <4>4
    <3>6. QED
      BY <3>4, <3>5
  <2>3. QED
    BY <2>1, <2>2
<1>2. \A k \in Nat : (\A j \in 0 .. k - 1 : j \in S) => k \in S
  BY <1>1, Zenon
<1>3. Nat \subseteq S
  <2> HIDE DEF S
  <2> QED BY <1>2, StrongInduction
<1>4. n \in S
  BY <1>3
<1>5. QED
  BY <1>4

\* The usual case: from each number to the next.
StepsInto(X, n, step) == \A i \in 1 .. n : \A x \in X : step[i][x] \in X
Iterates(f, n, b, step) == f[0] = b /\ \A i \in 1 .. n : f[i] = step[i][f[i - 1]]

LEMMA PrimitiveRecursion ==
  ASSUME NEW X, NEW n \in Nat, NEW b \in X, NEW step, StepsInto(X, n, step)
  PROVE  \E f \in [0 .. n -> X] : Iterates(f, n, b, step)
<1> DEFINE stop == {0}
           base == [i \in 0 .. n |-> b]
           pred == [i \in 0 .. n |-> i - 1]
<1>1. \A i \in 0 .. n : base[i] = b /\ pred[i] = i - 1
  OBVIOUS
<1>2. \A i \in 0 .. n : i \notin stop => i \in 1 .. n
  OBVIOUS
<1>3. \A i \in 0 .. n : i \notin stop => pred[i] \in 0 .. i - 1
  BY <1>1, <1>2
<1>s. 0 \in stop /\ \A i \in 1 .. n : i \notin stop
  OBVIOUS
<1> HIDE DEF stop, base, pred
<1>4. \A i \in 0 .. n : i \in stop => base[i] \in X
  BY <1>1
<1>5. \A i \in 0 .. n : i \notin stop => \A x \in X : step[i][x] \in X
  BY <1>2 DEF StepsInto
<1>6. WellDefined(X, n, stop, base, pred, step)
  BY <1>3, <1>4, <1>5 DEF WellDefined
<1>7. PICK f \in [0 .. n -> X] : Solves(f, n, stop, base, pred, step)
  BY <1>6, Recursion
<1>8. f[0] = b /\ \A i \in 1 .. n : f[i] = step[i][f[i - 1]]
  <2>1. \A i \in 0 .. n : f[i] = IF i \in stop THEN base[i] ELSE step[i][f[pred[i]]]
    BY <1>7 DEF Solves
  <2>2. f[0] = b
    BY <1>1, <2>1, <1>s
  <2>3. ASSUME NEW i \in 1 .. n PROVE f[i] = step[i][f[i - 1]]
    <3>1. i \in 0 .. n /\ i \notin stop
      BY <1>s
    <3>2. f[i] = step[i][f[pred[i]]] /\ pred[i] = i - 1
      BY <1>1, <2>1, <3>1
    <3>3. QED
      BY <3>2
  <2>4. QED
    BY <2>2, <2>3
<1>9. QED
  BY <1>8 DEF Iterates

-----------------------------------------------------------------------------
(* Quotients, and the casts to u32.                                        *)

LEMMA ProductGrows ==
  ASSUME NEW d \in Nat \ {0}, NEW b \in Nat
  PROVE  d * b >= b
OBVIOUS

LEMMA DivMod ==
  ASSUME NEW x \in Int, NEW b \in Nat \ {0}
  PROVE  /\ x \div b \in Int /\ x % b \in Int
         /\ x = (x \div b) * b + (x % b) /\ 0 <= x % b /\ x % b < b
OBVIOUS

LEMMA QuotientUnique ==
  ASSUME NEW b \in Nat \ {0}, NEW q \in Int, NEW r \in 0 .. b - 1,
         NEW k \in Int, NEW s \in 0 .. b - 1, q * b + r = k * b + s
  PROVE  q = k /\ r = s
<1>1. (q - k) * b = s - r /\ (k - q) * b = r - s
  OBVIOUS
<1>2. ~ (q > k)
  <2> SUFFICES ASSUME q > k PROVE FALSE
    OBVIOUS
  <2>1. (q - k) * b >= b
    BY ProductGrows
  <2>2. QED
    BY <1>1, <2>1
<1>3. ~ (k > q)
  <2> SUFFICES ASSUME k > q PROVE FALSE
    OBVIOUS
  <2>1. (k - q) * b >= b
    BY ProductGrows
  <2>2. QED
    BY <1>1, <2>1
<1>4. QED
  BY <1>2, <1>3

LEMMA Divides ==
  ASSUME NEW b \in Nat \ {0}, NEW q \in Int, NEW r \in 0 .. b - 1
  PROVE  (q * b + r) \div b = q /\ (q * b + r) % b = r
<1> DEFINE x == q * b + r
           k == x \div b
           s == x % b
<1>1. x \in Int
  OBVIOUS
<1>2. k \in Int /\ s \in 0 .. b - 1 /\ x = k * b + s
  <2> HIDE DEF x
  <2>1. QED
    BY <1>1, DivMod
<1>3. q * b + r = k * b + s
  BY <1>2
<1> HIDE DEF k, s
<1>4. q = k /\ r = s
  BY <1>2, <1>3, QuotientUnique
<1>5. QED
  BY <1>4 DEF k, s

\* A cast gives a u32, and leaves a u32 as it is.
LEMMA Casts ==
  ASSUME NEW n \in Int
  PROVE  /\ U32 \in Nat \ {0}
         /\ u32(n) \in 0 .. U32 - 1
         /\ n \in 0 .. U32 - 1 => u32(n) = n
<1>1. U32 \in Nat \ {0}
  BY AllocatorAssumption
<1>2. u32(n) \in 0 .. U32 - 1
  BY <1>1, DivMod DEF u32
<1>3. ASSUME n \in 0 .. U32 - 1 PROVE u32(n) = n
  <2>1. (0 * U32 + n) % U32 = n
    BY <1>1, <1>3, Divides
  <2>2. 0 * U32 + n = n
    BY <1>1
  <2>3. QED
    BY <2>1, <2>2 DEF u32
<1>4. QED
  BY <1>1, <1>2, <1>3

-----------------------------------------------------------------------------
(* Prefixes.                                                               *)

\* The vectors of w are initial parts of those of a.
PrefixSeq(s, t) == Len(s) <= Len(t) /\ \A k \in 1 .. Len(s) : t[k] = s[k]
PrefixOf(w, a) ==
  /\ PrefixSeq(w.u8_vec, a.u8_vec)
  /\ PrefixSeq(w.pair_vec, a.pair_vec)
  /\ PrefixSeq(w.atom_vec, a.atom_vec)

LEMMA PrefixSeqTrans ==
  ASSUME NEW S, NEW r \in Seq(S), NEW s \in Seq(S), NEW t \in Seq(S),
         PrefixSeq(r, s), PrefixSeq(s, t)
  PROVE  PrefixSeq(r, t)
BY DEF PrefixSeq

\* A vector that has grown by an append has the old one as a prefix.
LEMMA AppendPrefix ==
  ASSUME NEW S, NEW s \in Seq(S), NEW x \in S
  PROVE  Append(s, x) \in Seq(S) /\ Len(Append(s, x)) = Len(s) + 1
         /\ PrefixSeq(s, Append(s, x)) /\ Append(s, x)[Len(s) + 1] = x
BY DEF PrefixSeq

LEMMA ConcatPrefix ==
  ASSUME NEW S, NEW s \in Seq(S), NEW t \in Seq(S)
  PROVE  s \o t \in Seq(S) /\ Len(s \o t) = Len(s) + Len(t) /\ PrefixSeq(s, s \o t)
BY DEF PrefixSeq

\* restore_checkpoint() only truncates; on a vector that has grown that is
\* enough to get the old one back.
LEMMA TruncateToPrefix ==
  ASSUME NEW S, NEW s \in Seq(S), NEW t \in Seq(S), PrefixSeq(s, t)
  PROVE  SubSeq(t, 1, Len(s)) = s
<1>1. /\ SubSeq(t, 1, Len(s)) \in Seq(S)
      /\ Len(SubSeq(t, 1, Len(s))) = Len(s)
      /\ \A i \in 1 .. Len(s) : SubSeq(t, 1, Len(s))[i] = t[i]
  BY DEF PrefixSeq
<1>2. QED
  BY <1>1, SameSequence DEF PrefixSeq

LEMMA PrefixRefl ==
  ASSUME NEW a \in AllocatorType
  PROVE  PrefixOf(a, a)
BY DEF PrefixOf, PrefixSeq, AllocatorType

LEMMA PrefixTrans ==
  ASSUME NEW a \in AllocatorType, NEW b \in AllocatorType, NEW c \in AllocatorType,
         PrefixOf(a, b), PrefixOf(b, c)
  PROVE  PrefixOf(a, c)
BY PrefixSeqTrans DEF PrefixOf, AllocatorType

\* What a checkpoint is for: it can be restored in every allocator that the
\* one it was taken of is a prefix of, and gives that one back.
LEMMA RestoreGivesPrefix ==
  ASSUME NEW w \in AllocatorType, NEW a \in AllocatorType, PrefixOf(w, a)
  PROVE  /\ RestoreAsserts(a, checkpoint(w))
         /\ restore_checkpoint(a, checkpoint(w)) = w
<1>1. /\ SubSeq(a.u8_vec, 1, Len(w.u8_vec)) = w.u8_vec
      /\ SubSeq(a.pair_vec, 1, Len(w.pair_vec)) = w.pair_vec
      /\ SubSeq(a.atom_vec, 1, Len(w.atom_vec)) = w.atom_vec
  BY TruncateToPrefix DEF PrefixOf, AllocatorType
<1>2. RestoreAsserts(a, checkpoint(w))
  BY DEF RestoreAsserts, checkpoint, PrefixOf, PrefixSeq, AllocatorType
<1>3. restore_checkpoint(a, checkpoint(w)) = w
  BY <1>1 DEF restore_checkpoint, checkpoint, AllocatorType
<1>4. QED
  BY <1>2, <1>3

\* Valid() by cases.
LEMMA ValidCases ==
  ASSUME NEW a, NEW n \in NodePtr
  PROVE  /\ n.index \in Nat /\ n.tag \in {"Pair", "Bytes", "SmallAtom"}
         /\ n.tag = "Pair" => (Valid(a, n) <=> n.index < Len(a.pair_vec))
         /\ n.tag = "Bytes" => (Valid(a, n) <=> n.index < Len(a.atom_vec))
         /\ n.tag = "SmallAtom" => (Valid(a, n) <=> TRUE)
BY Zenon DEF Valid, NodePtr, ObjectType

LEMMA Vectors ==
  ASSUME NEW a \in AllocatorType
  PROVE  /\ a.u8_vec \in Seq(Byte) /\ Len(a.u8_vec) \in Nat
         /\ a.pair_vec \in Seq(IntPair) /\ Len(a.pair_vec) \in Nat
         /\ a.atom_vec \in Seq(AtomBuf) /\ Len(a.atom_vec) \in Nat
         /\ a.small_atoms \in Nat
BY DEF AllocatorType

\* The buffer of a Bytes node lies in the heap, and is a slice of it as long as
\* the heap is addressable.
LEMMA BufInHeap ==
  ASSUME NEW a \in AllocatorType, Buffers(a),
         NEW n \in NodePtr, Valid(a, n), n.tag = "Bytes"
  PROVE  /\ n.index + 1 \in DOMAIN a.atom_vec
         /\ Buf(a, n) \in AtomBuf
         /\ Buf(a, n).start \in 0 .. U32 - 1 /\ Buf(a, n).end \in 0 .. U32 - 1
         /\ Buf(a, n).end <= Len(a.u8_vec)
         /\ Addressable(a) => Readable(a, n)
<1>1. n.index + 1 \in 1 .. Len(a.atom_vec)
  BY ValidCases, Vectors
<1>2. n.index + 1 \in DOMAIN a.atom_vec /\ a.atom_vec[n.index + 1] \in AtomBuf
  BY <1>1, Vectors
<1>3. QED
  BY <1>2 DEF Buf, AtomBuf, Buffers, Readable

\* In an addressable heap every atom can be read.
LEMMA AddressableReads ==
  ASSUME NEW a, Sound(a), Addressable(a), NEW n \in NodePtr, Valid(a, n)
  PROVE  Readable(a, n)
BY BufInHeap DEF Sound, Readable

\* A slice of a vector is a slice of every vector it is a prefix of.
LEMMA PrefixSlice ==
  ASSUME NEW S, NEW s \in Seq(S), NEW t \in Seq(S), PrefixSeq(s, t),
         NEW lo \in Nat, NEW hi \in Nat, lo <= hi, hi <= Len(s)
  PROVE  SubSeq(s, lo + 1, hi) = SubSeq(t, lo + 1, hi)
<1> DEFINE x == SubSeq(s, lo + 1, hi)
           y == SubSeq(t, lo + 1, hi)
<1>1. /\ x \in Seq(S) /\ y \in Seq(S)
      /\ Len(x) = hi - lo /\ Len(y) = hi - lo
      /\ \A i \in 1 .. hi - lo : x[i] = s[lo + i] /\ y[i] = t[lo + i]
  BY DEF PrefixSeq
<1>2. \A i \in 1 .. Len(x) : x[i] = y[i]
  BY <1>1 DEF PrefixSeq
<1>3. QED
  BY <1>1, <1>2, SameSequence, Zenon

\* A node of an allocator is a node of every allocator it is a prefix of, and
\* has the same content there, if it has one.
LEMMA PrefixReads ==
  ASSUME NEW a, NEW b \in AllocatorType, Sound(a), PrefixOf(a, b),
         NEW n \in NodePtr, Valid(a, n)
  PROVE  /\ Valid(b, n)
         /\ n.tag = "Pair" => First(b, n) = First(a, n) /\ Rest(b, n) = Rest(a, n)
         /\ n.tag # "Pair" => atom_len(b, n) = atom_len(a, n)
         /\ n.tag # "Pair" => (Readable(b, n) <=> Readable(a, n))
         /\ n.tag # "Pair" /\ Readable(a, n) => Atom(b, n) = Atom(a, n)
<1>0. a \in AllocatorType
  BY DEF Sound
<1>1. CASE n.tag = "Pair"
  <2>1. n.index + 1 \in 1 .. Len(a.pair_vec) /\ n.index < Len(b.pair_vec)
    BY <1>0, <1>1, ValidCases, Vectors DEF PrefixOf, PrefixSeq
  <2>2. b.pair_vec[n.index + 1] = a.pair_vec[n.index + 1]
    BY <2>1 DEF PrefixOf, PrefixSeq
  <2>3. QED
    BY <1>1, <2>1, <2>2, ValidCases DEF First, Rest
<1>2. CASE n.tag = "SmallAtom"
  BY <1>2, ValidCases DEF Atom, atom_len, Readable
<1>3. CASE n.tag = "Bytes"
  <2>1. n.index + 1 \in 1 .. Len(a.atom_vec) /\ n.index < Len(b.atom_vec)
    BY <1>0, <1>3, ValidCases, Vectors DEF PrefixOf, PrefixSeq
  <2>2. Buf(b, n) = Buf(a, n)
    BY <2>1 DEF PrefixOf, PrefixSeq, Buf
  <2>h. /\ Buf(a, n).start \in Nat /\ Buf(a, n).end \in Nat
        /\ Buf(a, n).end <= Len(a.u8_vec)
    BY <1>0, <1>3, BufInHeap DEF Sound
  <2>3. ASSUME Readable(a, n)
        PROVE  SubSeq(a.u8_vec, Buf(a, n).start + 1, Buf(a, n).end)
                 = SubSeq(b.u8_vec, Buf(a, n).start + 1, Buf(a, n).end)
    <3>1. Buf(a, n).start <= Buf(a, n).end
      BY <1>3, <2>3 DEF Readable
    <3>2. a.u8_vec \in Seq(Byte) /\ b.u8_vec \in Seq(Byte) /\ PrefixSeq(a.u8_vec, b.u8_vec)
      BY <1>0, Vectors DEF PrefixOf
    <3>3. QED
      BY <2>h, <3>1, <3>2, PrefixSlice, Zenon
  <2>4. Readable(b, n) <=> Readable(a, n)
    <3>1. Buf(a, n).end <= Len(b.u8_vec)
      BY <1>0, <2>h, Vectors DEF PrefixOf, PrefixSeq
    <3>2. QED
      BY <1>3, <2>h, <2>2, <3>1 DEF Readable
  <2>5. QED
    BY <1>3, <2>1, <2>2, <2>3, <2>4, ValidCases, Zenon DEF Atom, atom_len
<1>4. QED
  BY <1>1, <1>2, <1>3, ValidCases

-----------------------------------------------------------------------------
(* Encodings.                                                              *)

LEMMA EncodedLenBound ==
  ASSUME NEW val, NEW longest \in Nat
  PROVE  EncodedLen(val, longest) \in 0 .. longest
<1> DEFINE S == {n \in 1 .. longest : val >= Threshold(n)}
<1>1. IsFiniteSet(1 .. longest) /\ Cardinality(1 .. longest) = longest
  BY FS_Interval
<1>2. S \subseteq 1 .. longest
  OBVIOUS
<1>3. IsFiniteSet(S) /\ Cardinality(S) <= Cardinality(1 .. longest)
  BY <1>1, <1>2, FS_Subset
<1>4. Cardinality(S) \in Nat
  BY <1>3, FS_CardinalityType
<1>5. QED
  BY <1>1, <1>3, <1>4 DEF EncodedLen

\* The powers of BYTE up to the k-th are numbers (to the provers x^y may be
\* anything; TLC evaluates the assumptions that say so).
Powers(k) == \A i \in 0 .. k : BYTE^i \in Nat \ {0}

LEMMA PowersBelow ==
  ASSUME NEW m \in Nat, NEW k \in 0 .. m, Powers(m)
  PROVE  Powers(k)
BY DEF Powers

LEMMA ToBytesType ==
  ASSUME NEW val \in Int, NEW len \in Nat, len = 0 \/ Powers(len - 1)
  PROVE  ToBytes(val, len) \in Seq(Byte) /\ Len(ToBytes(val, len)) = len
<1>2. \A i \in 1 .. len : (val \div BYTE^(len - i)) % BYTE \in Byte
  <2> TAKE i \in 1 .. len
  <2>1. BYTE^(len - i) \in Nat \ {0}
    BY DEF Powers
  <2> DEFINE p == BYTE^(len - i)
  <2> HIDE DEF p
  <2>2. val \div p \in Int
    BY <2>1 DEF p
  <2> DEFINE q == val \div p
  <2> HIDE DEF q
  <2>3. q % BYTE \in 0 .. BYTE - 1
    BY <2>2, AllocatorAssumption DEF q
  <2>4. QED
    BY <2>3 DEF p, q, Byte
<1> DEFINE g(i) == (val \div BYTE^(len - i)) % BYTE
<1> HIDE DEF g
<1>3. \A i \in 1 .. len : g(i) \in Byte
  BY <1>2 DEF g
<1>4. [i \in 1 .. len |-> g(i)] \in Seq(Byte) /\ Len([i \in 1 .. len |-> g(i)]) = len
  BY <1>3
<1>5. QED
  BY <1>4 DEF ToBytes, g

\* atom() returns bytes, as many as atom_len() says.
LEMMA AtomBytes ==
  ASSUME NEW a, Sound(a), NEW n \in NodePtr, Valid(a, n), IsAtom(n), Readable(a, n)
  PROVE  Atom(a, n) \in Seq(Byte) /\ atom_len(a, n) \in Nat
         /\ Len(Atom(a, n)) = atom_len(a, n)
<1>0. a \in AllocatorType /\ a.u8_vec \in Seq(Byte) /\ n.index \in Nat
  BY Vectors, ValidCases DEF Sound
<1>1. CASE n.tag = "Bytes"
  <2>1. /\ Buf(a, n).start \in 0 .. U32 - 1 /\ Buf(a, n).end \in 0 .. U32 - 1
        /\ Buf(a, n).start <= Buf(a, n).end /\ Buf(a, n).end <= Len(a.u8_vec)
    BY <1>0, <1>1, BufInHeap DEF Sound, Readable
  <2>2. SubSeq(a.u8_vec, Buf(a, n).start + 1, Buf(a, n).end) \in Seq(Byte)
        /\ Len(SubSeq(a.u8_vec, Buf(a, n).start + 1, Buf(a, n).end))
             = Buf(a, n).end - Buf(a, n).start
    BY <1>0, <2>1
  <2>3. u32(Buf(a, n).end - Buf(a, n).start) = Buf(a, n).end - Buf(a, n).start
    BY <2>1, Casts
  <2>4. QED
    BY <1>1, <2>1, <2>2, <2>3 DEF Atom, atom_len
<1>2. CASE n.tag = "SmallAtom"
  <2>1. len_for_value(n.index) \in 0 .. SMALL_LEN + 1
    BY EncodedLenBound, AllocatorAssumption DEF len_for_value
  <2>2. /\ ToBytes(n.index, len_for_value(n.index)) \in Seq(Byte)
        /\ Len(ToBytes(n.index, len_for_value(n.index))) = len_for_value(n.index)
    <3> DEFINE len == len_for_value(n.index)
    <3>1. len \in Nat /\ (len = 0 \/ Powers(len - 1))
      BY <2>1, AllocatorAssumption DEF Powers
    <3> HIDE DEF len
    <3>2. ToBytes(n.index, len) \in Seq(Byte) /\ Len(ToBytes(n.index, len)) = len
      BY <1>0, <3>1, ToBytesType
    <3>3. QED
      BY <3>2 DEF len
  <2>3. len_for_value(n.index) \in Nat
    BY <2>1
  <2>4. QED
    BY <1>2, <2>2, <2>3 DEF Atom, atom_len
<1>3. QED
  BY <1>1, <1>2, ValidCases DEF IsAtom

-----------------------------------------------------------------------------
(* Every operation leads from a sound allocator to a sound one that it is  *)
(* a prefix of.                                                            *)

Grows(a, b) == Sound(b) /\ PrefixOf(a, b)

\* Pairs keep pointing back when the vectors grow.
LEMMA PairsGrow ==
  ASSUME NEW a, Sound(a), NEW b \in AllocatorType, PrefixOf(a, b),
         b.pair_vec = a.pair_vec
  PROVE  Pairs(b)
<1>1. a \in AllocatorType
  BY DEF Sound
<1>2. SUFFICES ASSUME NEW i \in DOMAIN a.pair_vec,
                      NEW n \in {a.pair_vec[i].first, a.pair_vec[i].rest}
               PROVE  Valid(b, n) /\ (n.tag = "Pair" => n.index + 1 < i)
  BY DEF Pairs
<1>3. Valid(a, n) /\ (n.tag = "Pair" => n.index + 1 < i)
  BY DEF Sound, Pairs
<1>4. a.pair_vec[i] \in IntPair
  BY <1>1, Vectors
<1>5. n \in NodePtr
  BY <1>4 DEF IntPair
<1>6. QED
  BY <1>3, <1>5, PrefixReads

LEMMA MaxAtoms == MAX_NUM_ATOMS \in Nat /\ MAX_NUM_PAIRS \in Nat
BY AllocatorAssumption

\* The test for equality leaves room for one more atom.
LEMMA RoomForAtom ==
  ASSUME NEW a, Sound(a), check_atom_limit(a)
  PROVE  AtomCount(a) < MAX_NUM_ATOMS
<1>1. a \in AllocatorType /\ AtomCount(a) <= MAX_NUM_ATOMS /\ AtomCount(a) # MAX_NUM_ATOMS
  BY DEF Sound, Limits, AtomCount, check_atom_limit
<1>2. AtomCount(a) \in Nat
  BY <1>1, Vectors DEF AtomCount
<1>3. QED
  BY <1>1, <1>2, MaxAtoms

\* The buffer [start, end) need lie in the heap only if that is addressable:
\* otherwise it is cut to some u32 anyway.
InHeap(heap, start, end) ==
  Len(heap) < U32 => start <= end /\ end <= Len(heap)

LEMMA PushAtomGrows ==
  ASSUME NEW a, Sound(a), check_atom_limit(a),
         NEW heap \in Seq(Byte), PrefixSeq(a.u8_vec, heap),
         NEW start \in Nat, NEW end \in Nat, InHeap(heap, start, end)
  PROVE  Grows(a, PushAtom(a, heap, start, end).a)
<1> DEFINE buf == [start |-> u32(start), end |-> u32(end)]
           b == [a EXCEPT !.u8_vec = heap, !.atom_vec = Append(@, buf)]
<1>0. a \in AllocatorType
  BY DEF Sound
<1>1. /\ buf \in AtomBuf /\ buf.start = u32(start) /\ buf.end = u32(end)
      /\ u32(start) \in 0 .. U32 - 1 /\ u32(end) \in 0 .. U32 - 1 /\ U32 \in Nat
  BY Casts DEF AtomBuf
<1>c. /\ u32(end) <= Len(heap)
      /\ Len(heap) < U32 => u32(start) <= u32(end)
  <2>1. CASE Len(heap) < U32
    <3>1. start \in 0 .. U32 - 1 /\ end \in 0 .. U32 - 1 /\ start <= end /\ end <= Len(heap)
      BY <1>1, <2>1 DEF InHeap
    <3>2. QED
      BY <3>1, Casts
  <2>2. CASE ~(Len(heap) < U32)
    BY <1>1, <2>2
  <2>3. QED
    BY <2>1, <2>2
<1>2. /\ Append(a.atom_vec, buf) \in Seq(AtomBuf)
      /\ Len(Append(a.atom_vec, buf)) = Len(a.atom_vec) + 1
      /\ PrefixSeq(a.atom_vec, Append(a.atom_vec, buf))
      /\ Append(a.atom_vec, buf)[Len(a.atom_vec) + 1] = buf
  <2>1. a.atom_vec \in Seq(AtomBuf)
    BY <1>0, Vectors
  <2> HIDE DEF buf
  <2>2. QED
    BY <1>1, <2>1, AppendPrefix
<1>3. /\ b.u8_vec = heap /\ b.pair_vec = a.pair_vec
      /\ b.atom_vec = Append(a.atom_vec, buf) /\ b.small_atoms = a.small_atoms
  BY <1>0 DEF AllocatorType
<1>4. b \in AllocatorType
  BY <1>0, <1>2, Zenon DEF AllocatorType
<1>5. PushAtom(a, heap, start, end).a = b
  BY DEF PushAtom, Ok
<1> HIDE DEF b, buf
<1>6. PrefixOf(a, b)
  BY <1>0, <1>2, <1>3, Vectors DEF PrefixOf, PrefixSeq
<1>7. Limits(b)
  <2>1. AtomCount(a) < MAX_NUM_ATOMS
    BY RoomForAtom
  <2>2. AtomCount(b) = AtomCount(a) + 1
    BY <1>0, <1>2, <1>3, Vectors DEF AtomCount
  <2>3. QED
    BY <1>0, <1>3, <2>1, <2>2, MaxAtoms, Vectors DEF Sound, Limits, AtomCount
<1>8. Buffers(b)
  <2>1. SUFFICES ASSUME NEW i \in 1 .. Len(a.atom_vec) + 1
                 PROVE  /\ b.atom_vec[i].end <= Len(b.u8_vec)
                        /\ Addressable(b) => b.atom_vec[i].start <= b.atom_vec[i].end
    BY <1>2, <1>3, <1>4, Vectors DEF Buffers
  <2>2. CASE i = Len(a.atom_vec) + 1
    BY <1>1, <1>c, <1>2, <1>3, <2>2 DEF Addressable
  <2>3. CASE i \in 1 .. Len(a.atom_vec)
    <3>1. b.atom_vec[i] = a.atom_vec[i] /\ a.atom_vec[i] \in AtomBuf
      BY <1>0, <1>6, <2>3, Vectors DEF PrefixOf, PrefixSeq
    <3>2. /\ a.atom_vec[i].end <= Len(a.u8_vec)
          /\ Addressable(a) => a.atom_vec[i].start <= a.atom_vec[i].end
      BY <1>0, <2>3, Vectors DEF Sound, Buffers
    <3>3. Len(a.u8_vec) <= Len(b.u8_vec) /\ Len(a.u8_vec) \in Nat /\ Len(b.u8_vec) \in Nat
      BY <1>0, <1>3, Vectors DEF PrefixSeq
    <3>e. a.atom_vec[i].end \in 0 .. U32 - 1
      BY <3>1 DEF AtomBuf
    <3>4. Addressable(b) => Addressable(a)
      BY <1>1, <3>3 DEF Addressable
    <3>5. QED
      BY <3>1, <3>2, <3>3, <3>e, <3>4
  <2>4. Len(a.atom_vec) \in Nat
    BY <1>0, Vectors
  <2>5. i = Len(a.atom_vec) + 1 \/ i \in 1 .. Len(a.atom_vec)
    BY <2>4
  <2>6. QED
    BY <2>2, <2>3, <2>5
<1>9. Pairs(b)
  BY <1>3, <1>4, <1>6, PairsGrow
<1>10. QED
  BY <1>4, <1>5, <1>6, <1>7, <1>8, <1>9 DEF Grows, Sound

LEMMA PushSmallGrows ==
  ASSUME NEW a, Sound(a), check_atom_limit(a), NEW val
  PROVE  Grows(a, PushSmall(a, val).a)
<1> DEFINE b == [a EXCEPT !.small_atoms = @ + 1]
<1>0. a \in AllocatorType
  BY DEF Sound
<1>1. /\ b.u8_vec = a.u8_vec /\ b.pair_vec = a.pair_vec /\ b.atom_vec = a.atom_vec
      /\ b.small_atoms = a.small_atoms + 1 /\ b \in AllocatorType
  BY <1>0 DEF AllocatorType
<1>2. PushSmall(a, val).a = b
  BY DEF PushSmall, Ok
<1> HIDE DEF b
<1>3. PrefixOf(a, b)
  BY <1>0, <1>1, Vectors DEF PrefixOf, PrefixSeq
<1>4. Limits(b)
  <2>1. AtomCount(a) < MAX_NUM_ATOMS
    BY RoomForAtom
  <2>2. AtomCount(b) = AtomCount(a) + 1
    <3>1. Len(a.atom_vec) \in Nat /\ a.small_atoms \in Nat
      BY <1>0, Vectors
    <3>2. QED
      BY <1>1, <3>1 DEF AtomCount
  <2>3. QED
    BY <1>0, <1>1, <2>1, <2>2, MaxAtoms, Vectors DEF Sound, Limits, AtomCount
<1>5. Buffers(b)
  BY <1>1 DEF Sound, Buffers, Addressable
<1>6. Pairs(b)
  BY <1>1, <1>3, PairsGrow
<1>7. QED
  BY <1>1, <1>2, <1>3, <1>4, <1>5, <1>6 DEF Grows, Sound

\* An operation that fails changes nothing.
LEMMA ErrGrows ==
  ASSUME NEW a, Sound(a)
  PROVE  Grows(a, Err(a).a)
BY PrefixRefl DEF Err, Grows, Sound

LEMMA SignedLenBound ==
  ASSUME NEW val, NEW longest \in Nat \ {0}
  PROVE  SignedLen(val, longest) \in 0 .. longest
<1>1. \A v : EncodedLen(v, longest) \in 0 .. longest
  BY EncodedLenBound
<1>2. QED
  BY <1>1 DEF SignedLen

LEMMA NewPairGrows ==
  ASSUME NEW a, Sound(a), NEW first \in NodePtr, NEW rest \in NodePtr,
         Valid(a, first), Valid(a, rest)
  PROVE  Grows(a, new_pair(a, first, rest).a)
<1>1. CASE Len(a.pair_vec) = MAX_NUM_PAIRS
  BY <1>1, ErrGrows DEF new_pair
<1>2. CASE Len(a.pair_vec) # MAX_NUM_PAIRS
  <2> DEFINE pair == [first |-> first, rest |-> rest]
             b == [a EXCEPT !.pair_vec = Append(@, pair)]
  <2>0. a \in AllocatorType /\ pair \in IntPair
    BY DEF Sound, IntPair
  <2>1. /\ Append(a.pair_vec, pair) \in Seq(IntPair)
        /\ Len(Append(a.pair_vec, pair)) = Len(a.pair_vec) + 1
        /\ PrefixSeq(a.pair_vec, Append(a.pair_vec, pair))
        /\ Append(a.pair_vec, pair)[Len(a.pair_vec) + 1] = pair
    <3>1. a.pair_vec \in Seq(IntPair)
      BY <2>0, Vectors
    <3> HIDE DEF pair
    <3>2. QED
      BY <2>0, <3>1, AppendPrefix
  <2>2. /\ b.u8_vec = a.u8_vec /\ b.atom_vec = a.atom_vec
        /\ b.pair_vec = Append(a.pair_vec, pair) /\ b.small_atoms = a.small_atoms
        /\ b \in AllocatorType
    BY <2>0, <2>1, Zenon DEF AllocatorType
  <2>3. new_pair(a, first, rest).a = b
    BY <1>2 DEF new_pair, Ok
  <2> HIDE DEF b
  <2>4. PrefixOf(a, b)
    BY <2>0, <2>1, <2>2, Vectors DEF PrefixOf, PrefixSeq
  <2>5. Limits(b)
    BY <1>2, <2>0, <2>1, <2>2, MaxAtoms, Vectors DEF Sound, Limits, AtomCount
  <2>6. Buffers(b)
    BY <2>2 DEF Sound, Buffers, Addressable
  <2>7. Pairs(b)
    <3>1. SUFFICES ASSUME NEW i \in 1 .. Len(a.pair_vec) + 1,
                          NEW n \in {b.pair_vec[i].first, b.pair_vec[i].rest}
                   PROVE  Valid(b, n) /\ (n.tag = "Pair" => n.index + 1 < i)
      BY <2>1, <2>2, Vectors DEF Pairs
    <3>2. CASE i = Len(a.pair_vec) + 1
      <4>1. n \in NodePtr /\ Valid(a, n)
        BY <2>1, <2>2, <3>2
      <4>2. Valid(b, n)
        BY <2>2, <2>4, <4>1, PrefixReads
      <4>3. n.tag = "Pair" => n.index < Len(a.pair_vec)
        BY <4>1, ValidCases
      <4>4. QED
        BY <2>0, <3>2, <4>1, <4>2, <4>3, ValidCases, Vectors
    <3>3. CASE i \in 1 .. Len(a.pair_vec)
      <4>1. b.pair_vec[i] = a.pair_vec[i] /\ a.pair_vec[i] \in IntPair
            /\ i \in DOMAIN a.pair_vec
        BY <2>0, <2>4, <3>3, Vectors DEF PrefixOf, PrefixSeq
      <4>2. n \in NodePtr /\ Valid(a, n) /\ (n.tag = "Pair" => n.index + 1 < i)
        BY <4>1 DEF Sound, Pairs, IntPair
      <4>3. QED
        BY <2>2, <2>4, <4>2, PrefixReads
    <3>4. QED
      BY <2>0, <3>2, <3>3, Vectors
  <2>8. QED
    BY <2>2, <2>3, <2>4, <2>5, <2>6, <2>7 DEF Grows, Sound
<1>3. QED
  BY <1>1, <1>2

-----------------------------------------------------------------------------
(* What the operations return: a node of the allocator they leave.         *)

LEMMA MultiplyAddType ==
  ASSUME NEW x \in Int, NEW b \in Nat, NEW y \in Nat
  PROVE  x * b + y \in Int /\ (x \in Nat => x * b + y \in Nat)
<1>1. x * b \in Int
  OBVIOUS
<1>2. x \in Nat => x * b >= 0
  OBVIOUS
<1> DEFINE p == x * b
<1> HIDE DEF p
<1>3. p + y \in Int /\ (x \in Nat => p + y \in Nat)
  BY <1>1, <1>2 DEF p
<1>4. QED
  BY <1>3 DEF p

\* f holds the values of the leading bytes of v, written after start.
Reads(f, start, v) ==
  /\ f[0] = start
  /\ \A i \in 1 .. Len(v) : f[i] = f[i - 1] * BYTE + v[i]

\* The recursion of Extend has a solution.
LEMMA ExtendReads ==
  ASSUME NEW v \in Seq(Nat), NEW start \in Int
  PROVE  \E f : Reads(f, start, v) /\ Extend(start, v) = f[Len(v)]
<1> DEFINE n == Len(v)
           Eqn(f) == f = [i \in 0 .. n |-> IF i = 0 THEN start ELSE f[i - 1] * BYTE + v[i]]
           f == CHOOSE g : Eqn(g)
<1>0. n \in Nat /\ (\A i \in 1 .. n : v[i] \in Nat) /\ BYTE \in Nat
  BY AllocatorAssumption
<1>1. \E g : Eqn(g)
  <2> DEFINE step == [i \in 1 .. n |-> [x \in Int |-> x * BYTE + v[i]]]
  <2>1. \A i \in 1 .. n : \A x \in Int : step[i][x] = x * BYTE + v[i]
    OBVIOUS
  <2> HIDE DEF step, n
  <2>2. StepsInto(Int, n, step)
    <3>1. ASSUME NEW i \in 1 .. n, NEW x \in Int PROVE step[i][x] \in Int
      <4>1. x * BYTE + v[i] \in Int
        BY <1>0, MultiplyAddType
      <4>2. QED
        BY <2>1, <4>1
    <3>2. QED
      BY <3>1 DEF StepsInto
  <2>n. n \in Nat
    BY <1>0
  <2>p. PICK g \in [0 .. n -> Int] : Iterates(g, n, start, step)
    BY <2>n, <2>2, PrimitiveRecursion, Zenon
  <2>3. g[0] = start /\ \A i \in 1 .. n : g[i] = step[i][g[i - 1]]
    BY <2>p DEF Iterates
  <2>4. ASSUME NEW i \in 0 .. n
        PROVE  g[i] = IF i = 0 THEN start ELSE g[i - 1] * BYTE + v[i]
    <3>1. CASE i = 0
      BY <2>3, <3>1
    <3>2. CASE i # 0
      <4>1. i \in 1 .. n /\ i - 1 \in 0 .. n
        BY <1>0, <3>2
      <4>2. g[i - 1] \in Int
        BY <2>3, <4>1
      <4>3. QED
        BY <2>1, <2>3, <3>2, <4>1, <4>2
    <3>3. QED
      BY <3>1, <3>2
  <2>5. Eqn(g)
    BY <2>3, <2>4
  <2>6. QED
    BY <2>5, Zenon
<1>2. Eqn(f)
  BY <1>1, Zenon
<1>3. Extend(start, v) = f[n]
  BY DEF Extend
<1>4. \A i \in 0 .. n : f[i] = IF i = 0 THEN start ELSE f[i - 1] * BYTE + v[i]
  <2> HIDE DEF f, n
  <2>1. QED
    BY <1>2, Zenon
<1>5. 0 \in 0 .. n /\ \A i \in 1 .. n : i \in 0 .. n /\ i # 0
  <2> HIDE DEF f, n
  <2>1. QED
    BY <1>0
<1> HIDE DEF f
<1>6. Reads(f, start, v)
  BY <1>4, <1>5 DEF Reads
<1>7. QED
  BY <1>3, <1>6

LEMMA ExtendType ==
  ASSUME NEW v \in Seq(Nat), NEW start \in Int
  PROVE  /\ Extend(start, v) \in Int
         /\ start \in Nat => Extend(start, v) \in Nat
<1>p. PICK f : Reads(f, start, v) /\ Extend(start, v) = f[Len(v)]
  BY ExtendReads
<1> DEFINE n == Len(v)
<1>0. n \in Nat /\ (\A i \in 1 .. n : v[i] \in Nat) /\ BYTE \in Nat
  BY AllocatorAssumption
<1>3. Extend(start, v) = f[n] /\ f[0] = start
      /\ \A i \in 1 .. n : f[i] = f[i - 1] * BYTE + v[i]
  BY <1>p DEF Reads
<1> HIDE DEF n
<1>5. n \in 0 .. n /\ \A i \in 0 .. n : i # 0 => i \in 1 .. n /\ i - 1 \in 0 .. i - 1
  BY <1>0
<1>6. ASSUME NEW X, X \in {Int, Nat}, start \in X
      PROVE  f[n] \in X
  <2>1. ASSUME NEW i \in 0 .. n, \A j \in 0 .. i - 1 : f[j] \in X
        PROVE  f[i] \in X
    <3>1. CASE i = 0
      BY <1>3, <1>6, <3>1
    <3>2. CASE i # 0
      <4>1. f[i - 1] \in X /\ v[i] \in Nat /\ f[i] = f[i - 1] * BYTE + v[i]
        BY <1>0, <1>3, <1>5, <2>1, <3>2
      <4>2. CASE X = Int
        BY <1>0, <4>1, <4>2, MultiplyAddType
      <4>3. CASE X = Nat
        <5> DEFINE x == f[i - 1]
        <5>1. x \in Nat /\ v[i] \in Nat /\ f[i] = x * BYTE + v[i]
          BY <4>1, <4>3
        <5> HIDE DEF x
        <5>2. x * BYTE + v[i] \in Nat
          BY <1>0, <5>1, MultiplyAddType
        <5>3. QED
          BY <4>3, <5>1, <5>2
      <4>4. QED
        BY <1>6, <4>2, <4>3
    <3>3. QED
      BY <3>1, <3>2
  <2>2. QED
    BY <1>0, <1>5, <2>1, TypedByInduction, Zenon
<1>7. QED
  BY <1>3, <1>6, Zenon

LEMMA BytesAreNumbers == ASSUME NEW v \in Seq(Byte) PROVE v \in Seq(Nat)
BY AllocatorAssumption DEF Byte

LEMMA BigEndianType == ASSUME NEW v \in Seq(Byte) PROVE BigEndian(v) \in Nat
BY BytesAreNumbers, ExtendType DEF BigEndian

\* The allocator has grown and r.node is one of its nodes; nil after an error.
Makes(a, r) ==
  /\ r.ok \in BOOLEAN
  /\ Grows(a, r.a)
  /\ r.node \in NodePtr /\ Valid(r.a, r.node)
MakesAtom(a, r) == Makes(a, r) /\ IsAtom(r.node)

LEMMA NilOne ==
  /\ nil \in NodePtr /\ one \in NodePtr /\ IsAtom(nil) /\ IsAtom(one)
  /\ \A a : Valid(a, nil) /\ Valid(a, one)
<1>1. nil \in NodePtr /\ one \in NodePtr /\ nil.tag = "SmallAtom" /\ one.tag = "SmallAtom"
  BY DEF nil, one, Small, Node, NodePtr, ObjectType
<1>2. QED
  BY <1>1, ValidCases DEF IsAtom

LEMMA ErrMakes ==
  ASSUME NEW a, Sound(a)
  PROVE  MakesAtom(a, Err(a))
BY NilOne, ErrGrows DEF MakesAtom, Makes, Err

LEMMA PushSmallMakes ==
  ASSUME NEW a, Sound(a), check_atom_limit(a), NEW val \in Nat
  PROVE  MakesAtom(a, PushSmall(a, val))
<1> DEFINE r == PushSmall(a, val)
<1>1. r.ok /\ r.ok \in BOOLEAN /\ r.node = Small(val)
  BY DEF PushSmall, Ok
<1>2. r.node \in NodePtr /\ r.node.tag = "SmallAtom"
  BY <1>1 DEF Small, Node, NodePtr, ObjectType
<1>3. Grows(a, r.a)
  BY PushSmallGrows
<1> HIDE DEF r
<1>4. MakesAtom(a, r)
  BY <1>1, <1>2, <1>3, ValidCases DEF MakesAtom, Makes, IsAtom
<1>5. QED
  BY <1>4 DEF r

LEMMA PushAtomMakes ==
  ASSUME NEW a, Sound(a), check_atom_limit(a),
         NEW heap \in Seq(Byte), PrefixSeq(a.u8_vec, heap),
         NEW start \in Nat, NEW end \in Nat, InHeap(heap, start, end)
  PROVE  MakesAtom(a, PushAtom(a, heap, start, end))
<1> DEFINE r == PushAtom(a, heap, start, end)
           buf == [start |-> u32(start), end |-> u32(end)]
<1>0. a \in AllocatorType /\ a.atom_vec \in Seq(AtomBuf) /\ buf \in AtomBuf
  <2>1. a \in AllocatorType /\ a.atom_vec \in Seq(AtomBuf)
    BY Vectors DEF Sound
  <2>2. buf \in AtomBuf
    BY Casts DEF AtomBuf
  <2>3. QED
    BY <2>1, <2>2
<1>1. /\ r.ok \in BOOLEAN /\ r.node = Node("Bytes", Len(a.atom_vec))
      /\ r.a.atom_vec = Append(a.atom_vec, buf)
  <2>1. /\ r.ok /\ r.node = Node("Bytes", Len(a.atom_vec))
        /\ r.a = [a EXCEPT !.u8_vec = heap, !.atom_vec = Append(@, buf)]
    BY DEF PushAtom, Ok
  <2> HIDE DEF buf, r
  <2>2. r.a.atom_vec = Append(a.atom_vec, buf)
    BY <1>0, <2>1 DEF AllocatorType
  <2>3. QED
    BY <2>1, <2>2, Zenon
<1>2. Grows(a, r.a)
  BY PushAtomGrows
<1>3. Len(a.atom_vec) \in Nat /\ Len(Append(a.atom_vec, buf)) = Len(a.atom_vec) + 1
  <2> HIDE DEF buf
  <2> QED BY <1>0
<1> HIDE DEF r, buf
<1>4. r.node \in NodePtr /\ r.node.tag = "Bytes" /\ r.node.index = Len(a.atom_vec)
  BY <1>1, <1>3 DEF Node, NodePtr, ObjectType
<1>5. r.node.index < Len(r.a.atom_vec)
  BY <1>1, <1>3, <1>4
<1>6. MakesAtom(a, r)
  BY <1>1, <1>2, <1>4, <1>5, ValidCases DEF MakesAtom, Makes, IsAtom
<1>7. QED
  BY <1>6 DEF r

LEMMA PushBytesMakes ==
  ASSUME NEW a, Sound(a), check_atom_limit(a), NEW v \in Seq(Byte)
  PROVE  MakesAtom(a, PushBytes(a, v))
<1> DEFINE heap == a.u8_vec \o v
           end == Len(a.u8_vec) + Len(v)
<1>1. a.u8_vec \in Seq(Byte) /\ Len(a.u8_vec) \in Nat /\ Len(v) \in Nat
  BY Vectors DEF Sound
<1>2. /\ heap \in Seq(Byte) /\ PrefixSeq(a.u8_vec, heap) /\ Len(heap) = end
      /\ end \in Nat /\ InHeap(heap, Len(a.u8_vec), end)
  BY <1>1, ConcatPrefix DEF InHeap
<1>3. PushBytes(a, v) = PushAtom(a, heap, Len(a.u8_vec), end)
  BY DEF PushBytes
<1> HIDE DEF heap, end
<1>4. QED
  BY <1>1, <1>2, <1>3, PushAtomMakes

LEMMA NewAtomMakes ==
  ASSUME NEW a, Sound(a), NEW v \in Seq(Byte)
  PROVE  MakesAtom(a, new_atom(a, v))
BY ErrMakes, PushSmallMakes, PushBytesMakes, BigEndianType DEF new_atom

LEMMA NewSmallNumberMakes ==
  ASSUME NEW a, Sound(a), NEW val \in Nat
  PROVE  MakesAtom(a, new_small_number(a, val))
BY ErrMakes, PushSmallMakes DEF new_small_number

LEMMA NewNumberMakes ==
  ASSUME NEW a, Sound(a), NEW val \in Int, NEW longest \in Nat \ {0}, Powers(longest - 1)
  PROVE  MakesAtom(a, new_number(a, val, longest))
<1> DEFINE len == SignedLen(val, longest)
<1>1. len \in 0 .. longest
  BY SignedLenBound
<1> HIDE DEF len
<1>2. ToBytes(val, len) \in Seq(Byte)
  <2>1. len \in Nat /\ (len = 0 \/ Powers(len - 1))
    BY <1>1 DEF Powers
  <2>2. QED
    BY <2>1, ToBytesType
<1>3. MakesAtom(a, new_atom(a, ToBytes(val, len)))
  BY <1>2, NewAtomMakes
<1>4. val \in 0 .. NODE_PTR_IDX_MASK => MakesAtom(a, new_small_number(a, val))
  <2>1. val \in 0 .. NODE_PTR_IDX_MASK => val \in Nat
    OBVIOUS
  <2>2. QED
    BY <2>1, NewSmallNumberMakes
<1>5. QED
  BY <1>3, <1>4 DEF new_number, len

LEMMA NewPairMakes ==
  ASSUME NEW a, Sound(a), NEW first \in NodePtr, NEW rest \in NodePtr,
         Valid(a, first), Valid(a, rest)
  PROVE  Makes(a, new_pair(a, first, rest))
<1> DEFINE r == new_pair(a, first, rest)
           pair == [first |-> first, rest |-> rest]
<1>0. a \in AllocatorType /\ a.pair_vec \in Seq(IntPair) /\ pair \in IntPair
  BY Vectors, Zenon DEF Sound, IntPair
<1>1. CASE Len(a.pair_vec) = MAX_NUM_PAIRS
  BY <1>1, ErrMakes DEF new_pair, MakesAtom
<1>2. CASE Len(a.pair_vec) # MAX_NUM_PAIRS
  <2>1. /\ r.ok \in BOOLEAN /\ r.node = Node("Pair", Len(a.pair_vec))
        /\ r.a.pair_vec = Append(a.pair_vec, pair)
    BY <1>0, <1>2 DEF new_pair, Ok, AllocatorType
  <2>2. Len(a.pair_vec) \in Nat /\ Len(Append(a.pair_vec, pair)) = Len(a.pair_vec) + 1
    <3> HIDE DEF pair
    <3> QED BY <1>0
  <2>3. Grows(a, r.a)
    BY NewPairGrows
  <2> HIDE DEF r, pair
  <2>4. r.node \in NodePtr /\ r.node.tag = "Pair" /\ r.node.index = Len(a.pair_vec)
    BY <2>1, <2>2 DEF Node, NodePtr, ObjectType
  <2>5. r.node.index < Len(r.a.pair_vec)
    BY <2>1, <2>2, <2>4
  <2>6. Makes(a, r)
    BY <2>1, <2>3, <2>4, <2>5, ValidCases DEF Makes
  <2>7. QED
    BY <2>6 DEF r
<1>3. QED
  BY <1>1, <1>2

LEMMA NewSubstrMakes ==
  ASSUME NEW a, Sound(a), NEW n \in NodePtr, Valid(a, n),
         NEW start \in Nat, NEW end \in Nat
  PROVE  MakesAtom(a, new_substr(a, n, start, end))
<1>1. CASE ~check_atom_limit(a) \/ ~IsAtom(n) \/ ~bounds_check(start, end, atom_len(a, n))
  BY <1>1, ErrMakes DEF new_substr
<1>2. CASE /\ check_atom_limit(a) /\ IsAtom(n) /\ bounds_check(start, end, atom_len(a, n))
           /\ n.tag = "Bytes"
  <2>1. /\ Buf(a, n).start \in 0 .. U32 - 1 /\ Buf(a, n).end \in 0 .. U32 - 1
        /\ Buf(a, n).end <= Len(a.u8_vec)
        /\ Addressable(a) => Buf(a, n).start <= Buf(a, n).end
    BY <1>2, BufInHeap DEF Sound, Readable
  <2>2. start <= end /\ end <= u32(Buf(a, n).end - Buf(a, n).start)
    BY <1>2 DEF bounds_check, atom_len
  <2>3. a.u8_vec \in Seq(Byte) /\ Len(a.u8_vec) \in Nat /\ PrefixSeq(a.u8_vec, a.u8_vec)
    BY Vectors DEF Sound, PrefixSeq
  <2>4. /\ Buf(a, n).start + start \in Nat /\ Buf(a, n).start + end \in Nat
        /\ InHeap(a.u8_vec, Buf(a, n).start + start, Buf(a, n).start + end)
    <3>1. Buf(a, n).start + start \in Nat /\ Buf(a, n).start + end \in Nat
      BY <2>1
    <3>2. ASSUME Len(a.u8_vec) < U32
          PROVE  end <= Buf(a, n).end - Buf(a, n).start
      <4>1. Buf(a, n).end - Buf(a, n).start \in 0 .. U32 - 1
        BY <2>1, <3>2, AllocatorAssumption DEF Addressable
      <4>2. QED
        BY <2>2, <4>1, Casts
    <3>3. QED
      BY <2>1, <2>2, <2>3, <3>1, <3>2 DEF InHeap
  <2>5. MakesAtom(a, PushAtom(a, a.u8_vec, Buf(a, n).start + start, Buf(a, n).start + end))
    BY <1>2, <2>3, <2>4, PushAtomMakes
  <2>6. QED
    BY <1>2, <2>5 DEF new_substr
<1>3. CASE /\ check_atom_limit(a) /\ IsAtom(n) /\ bounds_check(start, end, atom_len(a, n))
           /\ n.tag # "Bytes"
  <2>1. Atom(a, n) \in Seq(Byte) /\ Len(Atom(a, n)) = atom_len(a, n) /\ atom_len(a, n) \in Nat
    BY <1>3, AtomBytes DEF Readable
  <2>2. start <= end /\ end <= atom_len(a, n)
    BY <1>3 DEF bounds_check
  <2> DEFINE substr == SubSeq(Atom(a, n), start + 1, end)
  <2>3. substr \in Seq(Byte)
    BY <2>1, <2>2
  <2> HIDE DEF substr
  <2>4. MakesAtom(a, PushBytes(a, substr)) /\ MakesAtom(a, PushSmall(a, BigEndian(substr)))
    BY <1>3, <2>3, PushBytesMakes, PushSmallMakes, BigEndianType
  <2>5. new_substr(a, n, start, end)
          = IF fits_in_small_atom(substr) THEN PushSmall(a, BigEndian(substr))
                                          ELSE PushBytes(a, substr)
    BY <1>3 DEF new_substr, substr
  <2>6. QED
    BY <2>4, <2>5
<1>4. QED
  BY <1>1, <1>2, <1>3
=============================================================================
