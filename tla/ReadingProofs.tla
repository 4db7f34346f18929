---------------------------- MODULE ReadingProofs ----------------------------
(***************************************************************************)
(* What those who read an allocator find in it.                            *)
(*                                                                         *)
(* Of an atom: every reading sees but the bytes, and a number written is   *)
(* the number read (OpUtils, src/op_utils.rs), for all byte widths.  Of a  *)
(* tree: what the object cache says of it (ObjectCache,                    *)
(* src/serde/object_cache.rs), for every graph of nodes, every cached      *)
(* function and every sequence of calls.                                   *)
(***************************************************************************)
EXTENDS ObjectCache, OpUtils, PathProofs

-----------------------------------------------------------------------------
(* The object cache.                                                       *)

\* The root of a call stays at the bottom of the list until it has its value.
RootWaits ==
  call # <<>> =>
    IF obj_list = <<>> THEN Cached(call[1].root_node)
                       ELSE obj_list[1] = call[1].root_node

CacheInv == TypeOK /\ CacheIsRight /\ RootWaits

LEMMA ChildrenAreNodes ==
  ASSUME NEW n \in Nodes, IsPair(n)
  PROVE  /\ Left(n) \in Nodes /\ Right(n) \in Nodes
         /\ Children[n] \in Seq(Nodes) /\ Len(Children[n]) = 2
<1>1. Children[n] \in Nodes \X Nodes
  BY CacheAssumption DEF IsPair
<1>2. PICK l \in Nodes, r \in Nodes : Children[n] = <<l, r>>
  BY <1>1
<1>3. Left(n) = l /\ Right(n) = r
  BY <1>2 DEF Left, Right
<1>4. <<l, r>> \in Seq(Nodes) /\ Len(<<l, r>>) = 2
  OBVIOUS
<1>5. QED
  BY <1>2, <1>3, <1>4

LEMMA CacheInitially == Init => CacheInv
BY DEF Init, CacheInv, TypeOK, CacheIsRight, RootWaits

LEMMA Front ==
  ASSUME NEW S, NEW s \in Seq(S), NEW m \in 0 .. Len(s)
  PROVE  /\ SubSeq(s, 1, m) \in Seq(S) /\ Len(SubSeq(s, 1, m)) = m
         /\ \A i \in 1 .. m : SubSeq(s, 1, m)[i] = s[i]
OBVIOUS

\* The node on top of a list that is being worked on.
LEMMA TopNode ==
  ASSUME TypeOK, Working
  PROVE  /\ obj_list \in Seq(Nodes) /\ Len(obj_list) \in Nat \ {0}
         /\ node \in Nodes /\ Popped \in Seq(Nodes)
         /\ Len(Popped) = Len(obj_list) - 1
         /\ \A i \in 1 .. Len(Popped) : Popped[i] = obj_list[i]
         /\ Popped = <<>> => node = obj_list[1]
         /\ Popped # <<>> => Popped[1] = obj_list[1]
<1>1. obj_list \in Seq(Nodes) /\ Len(obj_list) \in Nat \ {0} /\ node \in Nodes
  BY DEF TypeOK, Working, node
<1>2. /\ Popped \in Seq(Nodes) /\ Len(Popped) = Len(obj_list) - 1
      /\ \A i \in 1 .. Len(obj_list) - 1 : Popped[i] = obj_list[i]
  <2> DEFINE m == Len(obj_list) - 1
  <2>1. m \in 0 .. Len(obj_list)
    BY <1>1
  <2> HIDE DEF m
  <2>2. QED
    BY <1>1, <2>1, Front, Zenon DEF Popped, m
<1>3. ASSUME Popped = <<>> PROVE node = obj_list[1]
  <2>1. Len(Popped) = 0
    BY <1>3
  <2>2. Len(obj_list) = 1
    BY <1>1, <1>2, <2>1
  <2>3. QED
    BY <2>2 DEF node
<1>4. Popped # <<>> => Popped[1] = obj_list[1]
  BY <1>1, <1>2
<1>5. QED
  BY <1>1, <1>2, <1>3, <1>4

LEMMA CacheInductive == CacheInv /\ [Next]_vars => CacheInv'
<1> SUFFICES ASSUME CacheInv, [Next]_vars
             PROVE  CacheInv'
  OBVIOUS
<1>0. TypeOK /\ CacheIsRight /\ RootWaits
  BY DEF CacheInv
<1>1. CASE UNCHANGED vars
  BY <1>1 DEF vars, CacheInv, TypeOK, CacheIsRight, RootWaits, Cached, f
<1>2. CASE GetOrCalculate
  <2>1. PICK root_node \in Nodes, stop_token \in Tokens :
          /\ call' = <<[root_node |-> root_node, stop_token |-> stop_token]>>
          /\ obj_list' = <<root_node>> /\ cache' = cache
    BY <1>2 DEF GetOrCalculate
  <2>2. TypeOK'
    BY <1>0, <2>1 DEF TypeOK
  <2>3. CacheIsRight' /\ RootWaits'
    BY <1>0, <2>1 DEF CacheIsRight, RootWaits, f
  <2>4. QED
    BY <2>2, <2>3 DEF CacheInv
<1>3. CASE Stop
  BY <1>0, <1>3 DEF Stop, CacheInv, TypeOK, CacheIsRight, RootWaits, f
<1>4. CASE Known
  <2>1. Working /\ Cached(node) /\ obj_list' = Popped /\ cache' = cache /\ call' = call
    BY <1>4 DEF Known
  <2>2. TypeOK'
    BY <1>0, <2>1, TopNode DEF TypeOK
  <2>3. CacheIsRight' /\ RootWaits'
    BY <1>0, <2>1, TopNode DEF CacheIsRight, RootWaits, f, Cached, Working
  <2>4. QED
    BY <2>2, <2>3 DEF CacheInv
<1>5. CASE PushChildren
  <2>1. Working /\ IsPair(node) /\ obj_list' = obj_list \o Children[node]
        /\ cache' = cache /\ call' = call
    BY <1>5 DEF PushChildren
  <2>2. Children[node] \in Seq(Nodes)
    BY <1>0, <2>1, TopNode, ChildrenAreNodes
  <2>3. obj_list' \in Seq(Nodes) /\ obj_list' # <<>> /\ obj_list'[1] = obj_list[1]
    BY <1>0, <2>1, <2>2, TopNode
  <2>4. TypeOK'
    BY <1>0, <2>1, <2>3 DEF TypeOK
  <2>5. CacheIsRight' /\ RootWaits'
    BY <1>0, <2>1, <2>3 DEF CacheIsRight, RootWaits, f, Working
  <2>6. QED
    BY <2>4, <2>5 DEF CacheInv
<1>6. CASE Calculate
  <2>1. /\ Working /\ ~Cached(node) /\ obj_list' = Popped /\ call' = call
        /\ IsPair(node) => Cached(Left(node)) /\ Cached(Right(node))
        /\ cache' = [n \in DOMAIN cache \cup {node} |-> IF n = node THEN f(n) ELSE cache[n]]
    BY <1>6 DEF Calculate
  <2>2. node \in Nodes
    BY <1>0, <2>1, TopNode
  <2>3. f(node) \in T
    BY <1>0, <2>1, <2>2, CacheAssumption DEF TypeOK, f, Cached
  <2>4. /\ DOMAIN cache' = DOMAIN cache \cup {node} /\ cache'[node] = f(node)
        /\ \A n \in DOMAIN cache : n # node /\ cache'[n] = cache[n]
    BY <2>1 DEF Cached
  <2>5. TypeOK'
    BY <1>0, <2>1, <2>2, <2>3, <2>4, TopNode DEF TypeOK
  <2>6. CacheIsRight'
    <3>1. SUFFICES ASSUME NEW n \in DOMAIN cache \cup {node}
                   PROVE  /\ IsPair(n) => Left(n) \in DOMAIN cache /\ Right(n) \in DOMAIN cache
                          /\ cache'[n] = f(n)
      BY <2>4 DEF CacheIsRight, f
    <3>2. CASE n = node
      BY <2>1, <2>4, <3>2 DEF Cached
    <3>3. CASE n \in DOMAIN cache
      BY <1>0, <2>4, <3>3 DEF CacheIsRight
    <3>4. QED
      BY <3>2, <3>3
  <2>7. RootWaits'
    BY <1>0, <2>1, <2>4, TopNode DEF RootWaits, Cached, Working
  <2>8. QED
    BY <2>5, <2>6, <2>7 DEF CacheInv
<1>7. CASE Return
  BY <1>0, <1>7 DEF Return, CacheInv, TypeOK, CacheIsRight, RootWaits, f
<1>8. QED
  BY <1>1, <1>2, <1>3, <1>4, <1>5, <1>6, <1>7 DEF Next

\* The invariant holds for every graph, function and sequence of calls.
THEOREM CacheInvariance == Spec => []CacheInv
BY CacheInitially, CacheInductive, PTL DEF Spec

\* Whatever calls were made before, with whatever stop tokens, a cached value
\* is the function's: it is made from the cached values of the children.  A
\* call that has emptied its list has put the value of its root there.
THEOREM CacheStaysSound == Spec => []CacheIsSound
<1>1. CacheInv => RootIsCached
  BY DEF CacheInv, RootWaits, RootIsCached
<1>2. CacheInv => CacheIsSound
  BY <1>1 DEF CacheInv, CacheIsSound
<1>3. QED
  BY <1>2, CacheInvariance, PTL

-----------------------------------------------------------------------------
(* What the operators read of an atom (src/op_utils.rs).                   *)

\* A leading zero adds nothing to the value.
LEMMA ZeroDropped ==
  ASSUME NEW v \in Seq(Nat), v # <<>>, v[1] = 0
  PROVE  BigEndian(SubSeq(v, 2, Len(v))) = BigEndian(v)
<1> DEFINE n == Len(v) - 1
           w == SubSeq(v, 2, Len(v))
<1>1. /\ n \in Nat /\ Len(v) = n + 1 /\ w \in Seq(Nat) /\ Len(w) = n
      /\ \A i \in 1 .. n : w[i] = v[i + 1]
  <2>1. Len(v) \in Nat \ {0}
    OBVIOUS
  <2> DEFINE m == Len(v)
  <2> HIDE DEF m
  <2>2. m \in Nat \ {0} /\ w = SubSeq(v, 2, m) /\ m = Len(v) /\ n = m - 1
    BY <2>1 DEF m
  <2>3. /\ SubSeq(v, 2, m) \in Seq(Nat) /\ Len(SubSeq(v, 2, m)) = m - 1
        /\ \A i \in 1 .. m - 1 : SubSeq(v, 2, m)[i] = v[i + 1]
    BY <2>2
  <2> HIDE DEF n, w
  <2>4. QED
    BY <2>2, <2>3
<1> HIDE DEF n, w
<1>2. PICK ext : Reads(ext, 0, v) /\ Extend(0, v) = ext[Len(v)]
  BY ExtendReads
<1>3. PICK g : Reads(g, 0, w) /\ Extend(0, w) = g[Len(w)]
  BY <1>1, ExtendReads
<1>4. /\ ext[0] = 0 /\ g[0] = 0
      /\ \A i \in 1 .. n + 1 : ext[i] = ext[i - 1] * BYTE + v[i]
      /\ \A i \in 1 .. n : g[i] = g[i - 1] * BYTE + v[i + 1]
  BY <1>1, <1>2, <1>3, Zenon DEF Reads
<1> DEFINE S == {i \in Nat : g[i] = ext[i + 1]}
<1>5. 0 \in S
  <2>1. ext[0 + 1] = 0 * BYTE + 0
    BY <1>1, <1>4
  <2>2. QED
    BY <1>4, <2>1, ByteFacts
<1>6. ASSUME NEW i \in 0 .. n - 1, i \in S PROVE i + 1 \in S
  <2>1. /\ i + 1 \in 1 .. n /\ (i + 1) + 1 \in 1 .. n + 1 /\ i + 1 \in Nat
        /\ (i + 1) - 1 = i /\ ((i + 1) + 1) - 1 = i + 1
    BY <1>1
  <2>2. QED
    BY <1>4, <1>6, <2>1
<1>7. \A i \in 0 .. n : i \in S
  <2> HIDE DEF S
  <2>1. QED
    BY <1>1, <1>5, <1>6, StepInduction, Zenon
<1>8. n \in 0 .. n
  BY <1>1
<1>9. QED
  BY <1>1, <1>2, <1>3, <1>7, <1>8 DEF BigEndian, w

\* The value of a string that fits is the one that every reader finds.
LEMMA FittingValue ==
  ASSUME NEW v \in Seq(Byte), fits_in_small_atom(v)
  PROVE  /\ number_from_u8(v) = BigEndian(v)
         /\ v # <<>> => /\ ~(v[1] >= SignBit)
                        /\ Len(SubSeq(v, first_non_zero(v) + 1, Len(v))) <= SMALL_LEN
                        /\ BigEndian(SubSeq(v, first_non_zero(v) + 1, Len(v))) = BigEndian(v)
<1>1. v # <<>> => ~(v[1] >= SignBit)
  <2> SUFFICES ASSUME v # <<>> PROVE ~(v[1] >= SignBit)
    OBVIOUS
  <2>1. v[1] \in Nat /\ v[1] < SignBit
    BY BytesAreNumbers DEF fits_in_small_atom
  <2>2. QED
    BY <2>1, SignBitFacts
<1>2. number_from_u8(v) = BigEndian(v)
  BY <1>1 DEF number_from_u8, BigEndian
<1>3. ASSUME v # <<>>
      PROVE  /\ Len(SubSeq(v, first_non_zero(v) + 1, Len(v))) <= SMALL_LEN
             /\ BigEndian(SubSeq(v, first_non_zero(v) + 1, Len(v))) = BigEndian(v)
  <2> DEFINE z == first_non_zero(v)
  <2>1. z \in {0, 1} /\ Len(v) \in 1 .. SMALL_LEN
    BY <1>3, FittingBytes
  <2>2. v \in Seq(Nat) /\ (v[1] = 0 => Len(v) > 1 /\ v[2] # 0)
    <3>1. v \in Seq(Nat) /\ (v[1] = 0 => v[2] >= SignBit) /\ v # <<0>>
      BY <1>3, BytesAreNumbers DEF fits_in_small_atom
    <3>2. v[1] = 0 => v[2] # 0
      BY <3>1, SignBitFacts
    <3>3. Len(v) = 1 /\ v[1] = 0 => v = <<0>>
      BY <3>1
    <3> DEFINE n == Len(v)
    <3>4. n \in 1 .. SMALL_LEN /\ (v[1] = 0 => n # 1)
      BY <2>1, <3>1, <3>3
    <3> HIDE DEF n
    <3>5. v[1] = 0 => n > 1
      BY <3>4, ByteFacts
    <3>6. QED
      BY <3>1, <3>2, <3>5 DEF n
  <2>3. z = IF v[1] = 0 THEN 1 ELSE 0
    BY <1>3, <2>2, LeadingZeros
  <2> HIDE DEF z
  <2>4. Len(SubSeq(v, z + 1, Len(v))) <= SMALL_LEN
    <3>1. Len(SubSeq(v, z + 1, Len(v))) <= Len(v)
      BY <2>1, <2>2
    <3>2. QED
      BY <2>1, <2>2, <3>1, ByteFacts
  <2>5. v[1] = 0 => BigEndian(SubSeq(v, z + 1, Len(v))) = BigEndian(v)
    <3>1. v[1] = 0 => z + 1 = 2
      BY <2>3
    <3>2. QED
      BY <1>3, <2>2, <3>1, ZeroDropped
  <2>6. v[1] # 0 => BigEndian(SubSeq(v, z + 1, Len(v))) = BigEndian(v)
    <3>1. SubSeq(v, 1, Len(v)) = v /\ (v[1] # 0 => z + 1 = 1)
      BY <2>2, <2>3
    <3>2. QED
      BY <3>1, Zenon
  <2>7. QED
    BY <2>4, <2>5, <2>6, Zenon DEF z
<1>4. QED
  BY <1>1, <1>2, <1>3, Zenon

\* What uint_atom() makes of a heap buffer.
UintOfBytes(v, size) ==
  LET significant == SubSeq(v, first_non_zero(v) + 1, Len(v))
  IN  IF v = <<>> THEN 0
      ELSE IF v[1] >= SignBit \/ Len(significant) > size THEN None
      ELSE BigEndian(significant)

\* Every reading of an atom is a function of its bytes.
LEMMA ReadsOnlyBytes ==
  ASSUME NEW a, Sound(a),
         NEW n \in NodePtr, Valid(a, n), IsAtom(n), Canonical(n), Readable(a, n),
         SMALL_LEN <= I32_BYTES, NEW size \in Nat, SMALL_LEN <= size, NEW args
  PROVE  /\ number(a, n) = number_from_u8(Atom(a, n))
         /\ uint_atom(a, n, size) = UintOfBytes(Atom(a, n), size)
         /\ IsI32(a, n) <=> Len(Atom(a, n)) <= I32_BYTES
         /\ Lookup(a, n, args) = traverse_path(a, Atom(a, n), args)
         /\ atom_len(a, n) = Len(Atom(a, n))
<1> DEFINE v == Atom(a, n)
<1>1. v \in Seq(Byte) /\ Len(v) = atom_len(a, n) /\ atom_len(a, n) \in Nat
  BY AtomBytes
<1>2. CASE n.tag = "Bytes"
  <2>1. number(a, n) = number_from_u8(v) /\ Lookup(a, n, args) = traverse_path(a, v, args)
    BY <1>2 DEF number, Lookup
  <2>2. uint_atom(a, n, size) = UintOfBytes(v, size)
    BY <1>2, Zenon DEF uint_atom, UintOfBytes
  <2>3. IsI32(a, n) <=> atom_len(a, n) <= I32_BYTES
    BY <1>2 DEF IsI32
  <2>4. QED
    BY <1>1, <2>1, <2>2, <2>3
<1>3. CASE n.tag = "SmallAtom"
  <2>1. /\ fits_in_small_atom(v) /\ BigEndian(v) = n.index /\ Len(v) <= SMALL_LEN
    <3>1. n.index \in 0 .. NODE_PTR_IDX_MASK
      BY <1>3 DEF Canonical
    <3>2. v = ToBytes(n.index, len_for_value(n.index))
      BY <1>3 DEF Atom
    <3>3. QED
      BY <3>1, <3>2, SmallAtomIsCanonical, ByteFacts
  <2>2. /\ number(a, n) = n.index /\ uint_atom(a, n, size) = n.index /\ IsI32(a, n)
        /\ Lookup(a, n, args) = traverse_path_fast(a, n.index, args)
    BY <1>3 DEF number, uint_atom, IsI32, Lookup
  <2> HIDE DEF v
  <2>3. number_from_u8(v) = n.index
    BY <1>1, <2>1, FittingValue
  <2>4. UintOfBytes(v, size) = n.index
    <3> DEFINE s == SubSeq(v, first_non_zero(v) + 1, Len(v))
    <3>1. v # <<>> => /\ ~(v[1] >= SignBit) /\ Len(s) <= SMALL_LEN
                      /\ BigEndian(s) = n.index /\ s \in Seq(Byte)
      <4>1. v # <<>> => first_non_zero(v) \in {0, 1}
        BY <1>1, <2>1, FittingBytes
      <4>2. v # <<>> => s \in Seq(Byte)
        BY <1>1, <4>1
      <4>3. QED
        BY <1>1, <2>1, <4>2, FittingValue
    <3>2. v = <<>> => n.index = 0
      BY <2>1, NoBytes
    <3> HIDE DEF s
    <3>3. v # <<>> => ~(Len(s) > size)
      BY <3>1, ByteFacts
    <3>4. QED
      BY <3>1, <3>2, <3>3 DEF UintOfBytes, s
  <2>5. Lookup(a, n, args) = traverse_path(a, v, args)
    BY <1>1, <2>1, <2>2, FastPathAgrees
  <2>6. Len(v) <= I32_BYTES
    BY <1>1, <2>1, ByteFacts, OpUtilsAssumption
  <2>7. QED
    BY <1>1, <2>2, <2>3, <2>4, <2>5, <2>6 DEF v
<1>4. QED
  BY <1>2, <1>3, ValidCases DEF IsAtom

\* Two atoms with the same bytes are the same argument, however each was made:
\* number(), uint_atom(), i32_atom(), small_number(), atom_len(), atom_eq()
\* and the path lookup of eval_pair() give the same for a heap buffer and for
\* a small atom.  A node does not show through in any value, any error or any
\* cost that is computed from its atom.  In an addressable heap every atom is
\* Readable (AddressableReads).
THEOREM OnlyBytesAreRead ==
  ASSUME NEW a, Sound(a),
         NEW x \in NodePtr, Valid(a, x), IsAtom(x), Canonical(x), Readable(a, x),
         NEW y \in NodePtr, Valid(a, y), IsAtom(y), Canonical(y), Readable(a, y),
         Atom(a, x) = Atom(a, y),
         SMALL_LEN <= I32_BYTES, NEW size \in Nat, SMALL_LEN <= size
  PROVE  /\ number(a, x) = number(a, y)
         /\ uint_atom(a, x, size) = uint_atom(a, y, size)
         /\ IsI32(a, x) <=> IsI32(a, y)
         /\ small_number(a, x) = small_number(a, y)
         /\ atom_len(a, x) = atom_len(a, y)
         /\ \A z \in NodePtr : Valid(a, z) /\ IsAtom(z) /\ Canonical(z) /\ Readable(a, z) =>
              (atom_eq(a, x, z) <=> atom_eq(a, y, z))
         /\ \A args : Lookup(a, x, args) = Lookup(a, y, args)
<1>1. /\ number(a, x) = number(a, y)
      /\ uint_atom(a, x, size) = uint_atom(a, y, size)
      /\ IsI32(a, x) <=> IsI32(a, y)
      /\ atom_len(a, x) = atom_len(a, y)
      /\ \A args : Lookup(a, x, args) = Lookup(a, y, args)
  BY ReadsOnlyBytes
<1>2. small_number(a, x) = small_number(a, y)
  BY OnlyBytesAreCompared
<1>3. ASSUME NEW z \in NodePtr, Valid(a, z), IsAtom(z), Canonical(z), Readable(a, z)
      PROVE  atom_eq(a, x, z) <=> atom_eq(a, y, z)
  <2>1. atom_eq(a, x, z) <=> Atom(a, x) = Atom(a, z)
    BY <1>3, OnlyBytesAreCompared
  <2>2. atom_eq(a, y, z) <=> Atom(a, y) = Atom(a, z)
    BY <1>3, OnlyBytesAreCompared
  <2>3. QED
    BY <2>1, <2>2
<1>4. QED
  BY <1>1, <1>2, <1>3

-----------------------------------------------------------------------------
(* Integers as two's complement (number_from_u8() in src/number.rs,        *)
(* new_number() in src/allocator.rs).                                      *)

LEMMA PowersBelowGrow ==
  ASSUME NEW m \in Nat, PowersGrow(m), NEW n \in 0 .. m
  PROVE  PowersGrow(n)
<1>1. 0 .. n \subseteq 0 .. m /\ 1 .. n \subseteq 1 .. m
  OBVIOUS
<1>2. QED
  BY <1>1 DEF PowersGrow

LEMMA HalfByte == BYTE = 2 * SignBit
<1> DEFINE h == Two(BITS - 1)
<1>1. BITS \in 1 .. Width /\ BITS - 1 \in 0 .. Width
  BY WidthFacts
<1>2. BYTE = h * 2 /\ h \in Nat
  BY <1>1, TwoFacts, WidthFacts
<1> HIDE DEF h
<1>3. QED
  BY <1>2 DEF SignBit

\* The integers of n bytes.
InBytes(val, n) == -(SignBit * Pow(n - 1)) <= val /\ val < SignBit * Pow(n - 1)

\* Written to enough bytes and read, an integer is itself.
LEMMA SignedReadsBack ==
  ASSUME NEW n \in Nat \ {0}, PowersGrow(n), NEW val \in Int, InBytes(val, n)
  PROVE  number_from_u8(ToBytes(val, n)) = val
<1> DEFINE p == Pow(n - 1)
           q == val \div p
           r == val % p
           b == SignBit * p
           v == ToBytes(val, n)
<1>1. p \in Nat \ {0} /\ Pow(n) = p * BYTE
  <2>1. n - 1 \in 0 .. n /\ n \in 1 .. n
    OBVIOUS
  <2>2. QED
    BY <2>1 DEF PowersGrow
<1>2. /\ v \in Seq(Byte) /\ Len(v) = n /\ v[1] = q % BYTE
      /\ Extend(val \div Pow(n), v) = val
  <2>1. n \in Nat /\ 1 \in 1 .. n
    OBVIOUS
  <2>2. QED
    BY <2>1, WriteThenExtend
<1>3. -b <= val /\ val < b
  BY DEF InBytes
<1> HIDE DEF p, v
<1>4. q \in Int /\ r \in 0 .. p - 1 /\ val = q * p + r
  BY <1>1, DivMod
<1>5. val \div Pow(n) = q \div BYTE
  <2>1. val \in Int /\ p \in Nat \ {0} /\ BYTE \in Nat \ {0}
    BY <1>1, ByteFacts
  <2>2. (val \div p) \div BYTE = val \div (p * BYTE)
    BY ONLY <2>1, DivideByProduct, Zenon
  <2>3. QED
    BY <1>1, <2>2
<1> HIDE DEF q, r
<1>6. q < SignBit
  <2> SUFFICES ASSUME SignBit <= q PROVE FALSE
    BY <1>4, SignBitFacts
  <2>1. SignBit * p <= q * p /\ SignBit * p \in Nat /\ q * p \in Nat
    BY <1>1, <1>4, SignBitFacts, ProductMonotone
  <2> DEFINE y == q * p
  <2>2. b \in Nat /\ y \in Nat /\ b <= y /\ val = y + r
    BY <1>4, <2>1
  <2> HIDE DEF b, y
  <2>3. QED
    BY <1>1, <1>3, <1>4, <2>2
<1>7. -SignBit <= q
  <2> SUFFICES ASSUME SignBit + 1 <= -q PROVE FALSE
    BY <1>4, SignBitFacts
  <2>1. (SignBit + 1) * p <= (-q) * p /\ (SignBit + 1) * p \in Nat /\ (-q) * p \in Nat
    <3>1. SignBit + 1 \in Nat /\ -q \in Nat
      BY <1>4, SignBitFacts
    <3>2. QED
      BY <1>1, <3>1, ProductMonotone
  <2>2. (SignBit + 1) * p = SignBit * p + p /\ (-q) * p = -(q * p)
    BY <1>1, <1>4, SignBitFacts
  <2>3. SignBit * p \in Nat /\ q * p \in Int
    BY <1>1, <1>4, SignBitFacts
  <2> DEFINE y == q * p
  <2>4. b \in Nat /\ y \in Int /\ b + p <= -y /\ val = y + r
    BY <1>4, <2>1, <2>2, <2>3
  <2> HIDE DEF b, y
  <2>5. QED
    BY <1>1, <1>3, <1>4, <2>4
<1>8. CASE q >= 0
  <2>1. 0 \in Int /\ q \in 0 .. BYTE - 1 /\ BYTE \in Nat \ {0} /\ 0 * BYTE + q = q
    BY <1>4, <1>6, <1>8, ByteFacts, HalfByte, SignBitFacts
  <2>2. (0 * BYTE + q) \div BYTE = 0 /\ (0 * BYTE + q) % BYTE = q
    BY <2>1, Divides
  <2>3. q \div BYTE = 0 /\ ~(v[1] >= SignBit)
    BY <1>2, <1>4, <1>6, <2>1, <2>2, SignBitFacts
  <2>4. QED
    BY <1>2, <1>5, <2>3 DEF number_from_u8, v
<1>9. CASE q < 0
  <2> DEFINE d == q + BYTE
  <2>1. -1 \in Int /\ d \in 0 .. BYTE - 1 /\ BYTE \in Nat \ {0} /\ (-1) * BYTE + d = q
        /\ d >= SignBit
    BY <1>4, <1>7, <1>9, ByteFacts, HalfByte, SignBitFacts
  <2> HIDE DEF d
  <2>2. ((-1) * BYTE + d) \div BYTE = -1 /\ ((-1) * BYTE + d) % BYTE = d
    BY <2>1, Divides
  <2>3. q \div BYTE = -1 /\ v[1] >= SignBit /\ v # <<>>
    BY <1>2, <2>1, <2>2
  <2>4. QED
    BY <1>2, <1>5, <2>3 DEF number_from_u8, v
<1>10. QED
  BY <1>4, <1>8, <1>9

\* The first byte, and what is to its left, bound the whole.
LEMMA FirstByteLeads ==
  ASSUME NEW n \in Nat \ {0}, PowersGrow(n), NEW start \in Int,
         NEW w \in Seq(Byte), Len(w) = n
  PROVE  \E r \in 0 .. Pow(n - 1) - 1 :
           Extend(start, w) = (start * BYTE + w[1]) * Pow(n - 1) + r
<1> DEFINE x == start * BYTE + w[1]
<1>1. w \in Seq(Nat) /\ (\A i \in 1 .. n : w[i] \in 0 .. BYTE - 1)
  <2>1. \A i \in 1 .. n : w[i] \in Byte
    OBVIOUS
  <2>2. QED
    BY <2>1, BytesAreNumbers DEF Byte
<1>2. PICK ext : Reads(ext, start, w) /\ Extend(start, w) = ext[Len(w)]
  BY <1>1, ExtendReads
<1>3. /\ ext[0] = start /\ Extend(start, w) = ext[n]
      /\ \A i \in 1 .. n : ext[i] = ext[i - 1] * BYTE + w[i]
  BY <1>2 DEF Reads
<1>4. x \in Int /\ 1 \in 1 .. n
  BY <1>1, ByteFacts
<1> DEFINE S == {i \in Nat : \E r \in 0 .. Pow(i) - 1 : ext[i + 1] = x * Pow(i) + r}
<1>5. 0 \in S
  <2>1. ext[0 + 1] = x
    BY <1>3, <1>4
  <2> HIDE DEF x
  <2>2. 0 \in 0 .. Pow(0) - 1 /\ ext[0 + 1] = x * Pow(0) + 0
    BY <1>4, <2>1 DEF PowersGrow
  <2>3. QED
    BY <2>2
<1> HIDE DEF x
<1>6. ASSUME NEW i \in 0 .. (n - 1) - 1, i \in S PROVE i + 1 \in S
  <2>1. PICK r \in 0 .. Pow(i) - 1 : ext[i + 1] = x * Pow(i) + r
    BY <1>6
  <2>2. /\ (i + 1) + 1 \in 1 .. n /\ ((i + 1) + 1) - 1 = i + 1 /\ i + 1 \in 1 .. n
        /\ (i + 1) - 1 = i /\ i \in 0 .. n /\ i + 1 \in Nat
    OBVIOUS
  <2> DEFINE p == Pow(i)
             d == w[(i + 1) + 1]
             s == r * BYTE + d
  <2>3. /\ p \in Nat \ {0} /\ Pow(i + 1) = p * BYTE /\ d \in 0 .. BYTE - 1
        /\ ext[(i + 1) + 1] = (x * p + r) * BYTE + d
    BY <1>1, <1>3, <2>1, <2>2, Zenon DEF PowersGrow
  <2>4. r \in 0 .. p - 1 /\ BYTE \in Nat \ {0}
    BY ByteFacts
  <2> HIDE DEF p, d
  <2>5. (x * p + r) * BYTE + d = x * (p * BYTE) + (r * BYTE + d)
    BY <1>4, <2>3, <2>4
  <2>6. r * BYTE + d \in 0 .. BYTE * p - 1
    BY <2>3, <2>4, DigitFits
  <2>7. BYTE * p = p * BYTE
    BY <2>3, <2>4
  <2>8. ext[(i + 1) + 1] = x * Pow(i + 1) + s /\ s \in 0 .. Pow(i + 1) - 1
    BY <2>3, <2>5, <2>6, <2>7
  <2> HIDE DEF s
  <2>9. QED
    BY <2>2, <2>8
<1>7. \A i \in 0 .. n - 1 : i \in S
  <2>1. n - 1 \in Nat
    OBVIOUS
  <2> HIDE DEF S
  <2>2. QED
    BY <1>5, <1>6, <2>1, StepInduction, Zenon
<1>8. n - 1 \in 0 .. n - 1 /\ (n - 1) + 1 = n
  OBVIOUS
<1>9. QED
  BY <1>3, <1>7, <1>8 DEF x

\* The value of n bytes is an integer of n bytes.
LEMMA SignedRange ==
  ASSUME NEW n \in Nat \ {0}, PowersGrow(n), NEW w \in Seq(Byte), Len(w) = n
  PROVE  InBytes(number_from_u8(w), n)
<1> DEFINE start == IF w # <<>> /\ w[1] >= SignBit THEN -1 ELSE 0
           p == Pow(n - 1)
           x == start * BYTE + w[1]
<1>1. start \in Int /\ number_from_u8(w) = Extend(start, w)
  BY DEF number_from_u8
<1>2. x \in Int /\ x + SignBit \in 0 .. BYTE - 1
  <2>1. w # <<>> /\ w[1] \in 0 .. BYTE - 1
    <3>1. w # <<>> /\ w[1] \in Byte
      OBVIOUS
    <3>2. QED
      BY <3>1 DEF Byte
  <2>2. CASE w[1] >= SignBit
    <3>1. x = -BYTE + w[1]
      BY <2>1, <2>2, ByteFacts
    <3>2. QED
      BY <2>1, <2>2, <3>1, HalfByte, SignBitFacts
  <2>3. CASE ~(w[1] >= SignBit)
    <3>1. x = w[1]
      BY <2>1, <2>3, ByteFacts
    <3>2. QED
      BY <2>1, <2>3, <3>1, HalfByte, SignBitFacts
  <2>4. QED
    BY <2>2, <2>3
<1> HIDE DEF start
<1>3. PICK r \in 0 .. p - 1 : Extend(start, w) = x * p + r
  BY <1>1, FirstByteLeads
<1>4. p \in Nat \ {0}
  <2>1. n - 1 \in 0 .. n
    OBVIOUS
  <2>2. QED
    BY <2>1 DEF PowersGrow
<1> HIDE DEF p, x
<1>5. (x + SignBit) * p + r \in 0 .. p * BYTE - 1
  <2>1. r \in 0 .. p - 1 /\ BYTE \in Nat \ {0}
    BY ByteFacts
  <2>2. QED
    BY <1>2, <1>4, <2>1, DigitFits
<1>6. (x + SignBit) * p = x * p + SignBit * p /\ p * BYTE = SignBit * p + SignBit * p
  <2>1. p * (2 * SignBit) = SignBit * p + SignBit * p
    BY <1>4, SignBitFacts
  <2>2. QED
    BY <1>2, <1>4, <2>1, SignBitFacts, HalfByte
<1> DEFINE y == x * p
           b == SignBit * p
<1>7. y \in Int /\ b \in Nat /\ (y + b) + r \in 0 .. (b + b) - 1
  BY <1>2, <1>4, <1>5, <1>6, SignBitFacts
<1>8. number_from_u8(w) = y + r
  BY <1>1, <1>3
<1> HIDE DEF y, b
<1>9. -b <= y + r /\ y + r < b
  BY <1>4, <1>7
<1>10. QED
  BY <1>8, <1>9 DEF InBytes, b, p

\* No byte string that is shorter than the length of a number has its value.
LEMMA NoShorter ==
  ASSUME NEW m \in Nat \ {0}, PowersGrow(m), NEW u \in Nat, NEW k \in 0 .. m,
         HasLength(u, k), NEW val \in {u, -u - 1},
         NEW w \in Seq(Byte), number_from_u8(w) = val
  PROVE  k <= Len(w)
<1> DEFINE l == Len(w)
<1>0. l \in Nat /\ Len(w) = l
  OBVIOUS
<1> HIDE DEF l
<1>1. SUFFICES ASSUME l < k PROVE FALSE
  BY <1>0
<1>2. /\ k # 0 /\ k \in 1 .. m + 1 /\ l + 1 \in 1 .. k /\ l + 1 \in 1 .. m + 1
      /\ l \in 0 .. m /\ m \in Nat
  BY <1>0, <1>1
<1>3. Threshold(l + 1) <= Threshold(k) /\ Threshold(k) <= u
  BY <1>2, ThresholdsGrow DEF HasLength
<1>4. Threshold(l + 1) \in Nat \ {0} /\ Threshold(k) \in Nat \ {0}
  BY <1>2, Thresholds
<1>5. CASE l = 0
  <2>1. w = <<>>
    BY <1>0, <1>5
  <2>2. number_from_u8(w) = 0
    BY <2>1, NoBytes DEF number_from_u8, BigEndian
  <2>3. QED
    BY <1>3, <1>4, <2>2
<1>6. CASE l # 0
  <2> DEFINE b == SignBit * Pow(l - 1)
  <2>1. l \in Nat \ {0} /\ l + 1 \in 2 .. m + 1 /\ (l + 1) - 2 = l - 1
    BY <1>0, <1>2, <1>6
  <2>2. Threshold(l + 1) = b
    BY <2>1, Thresholds
  <2>3. PowersGrow(l)
    BY <1>2, PowersBelowGrow
  <2>4. -b <= val /\ val < b
    BY <1>0, <2>1, <2>3, SignedRange DEF InBytes
  <2> HIDE DEF b
  <2>5. QED
    BY <1>3, <1>4, <2>2, <2>4
<1>7. QED
  BY <1>5, <1>6

\* The bytes that new_number() writes: they read as the number, and there are
\* no fewer that do.
LEMMA SignedBytes ==
  ASSUME NEW m \in Nat \ {0}, PowersGrow(m), NEW val \in Int, InBytes(val, m)
  PROVE  /\ SignedLen(val, m) \in 0 .. m
         /\ number_from_u8(ToBytes(val, SignedLen(val, m))) = val
         /\ \A w \in Seq(Byte) : number_from_u8(w) = val => SignedLen(val, m) <= Len(w)
<1> DEFINE u == IF val >= 0 THEN val ELSE -val - 1
           n == SignedLen(val, m)
<1>1. u \in Nat /\ u < Threshold(m + 1)
  <2> DEFINE b == SignBit * Pow(m - 1)
  <2>1. m + 1 \in 2 .. m + 1 /\ (m + 1) - 2 = m - 1 /\ m + 1 \in 1 .. m + 1
    OBVIOUS
  <2>2. Threshold(m + 1) = b /\ b \in Nat
    BY <2>1, Thresholds
  <2>3. -b <= val /\ val < b
    BY DEF InBytes
  <2> HIDE DEF b
  <2>4. QED
    BY <2>2, <2>3
<1>2. val \in {u, -u - 1} /\ (val = -1 => u = 0)
  OBVIOUS
<1>3. n = IF val = -1 THEN 1 ELSE EncodedLen(u, m)
  BY DEF SignedLen
<1> HIDE DEF u, n
<1>4. PICK k \in 0 .. m : HasLength(u, k)
  BY <1>1, LengthExists
<1>5. EncodedLen(u, m) = k
  <2>1. m \in 1 .. m + 1 /\ k <= m
    OBVIOUS
  <2>2. QED
    BY <1>1, <1>4, <2>1, LengthIs
<1>6. \A w \in Seq(Byte) : number_from_u8(w) = val => k <= Len(w)
  BY <1>1, <1>2, <1>4, NoShorter
<1>7. k # 0 => InBytes(val, k)
  <2> SUFFICES ASSUME k # 0 PROVE InBytes(val, k)
    OBVIOUS
  <2> DEFINE b == SignBit * Pow(k - 1)
  <2>1. k + 1 \in 2 .. m + 1 /\ (k + 1) - 2 = k - 1 /\ k + 1 \in 1 .. m + 1
    OBVIOUS
  <2>2. Threshold(k + 1) = b /\ b \in Nat /\ u < b
    BY <1>4, <2>1, Thresholds DEF HasLength
  <2> HIDE DEF b
  <2>3. -b <= val /\ val < b
    BY <1>1, <1>2, <2>2
  <2>4. QED
    BY <2>3 DEF InBytes, b
<1>8. CASE val = -1
  <2>1. n = 1 /\ 1 \in Nat \ {0} /\ 1 \in 0 .. m /\ m \in Nat
    BY <1>3, <1>8
  <2>2. InBytes(val, 1)
    <3>1. Pow(1 - 1) = 1
      BY DEF PowersGrow
    <3>2. QED
      BY <1>8, <3>1, SignBitFacts DEF InBytes
  <2>3. PowersGrow(1)
    BY <2>1, PowersBelowGrow
  <2>4. number_from_u8(ToBytes(val, 1)) = val
    BY <2>1, <2>2, <2>3, SignedReadsBack
  <2>5. ASSUME NEW w \in Seq(Byte), number_from_u8(w) = val PROVE 1 <= Len(w)
    <3>1. number_from_u8(<<>>) = 0
      BY NoBytes DEF number_from_u8, BigEndian
    <3>2. w # <<>>
      BY <1>8, <2>5, <3>1
    <3>3. QED
      BY <3>2
  <2>6. QED
    BY <2>1, <2>4, <2>5 DEF n
<1>9. CASE val # -1 /\ k = 0
  <2>1. val = 0 /\ n = 0
    BY <1>1, <1>2, <1>3, <1>4, <1>5, <1>9, Thresholds DEF HasLength
  <2>2. number_from_u8(ToBytes(val, 0)) = 0
    <3>1. ToBytes(val, 0) = <<>>
      BY DEF ToBytes
    <3>2. QED
      BY <3>1, NoBytes DEF number_from_u8, BigEndian
  <2>3. QED
    BY <2>1, <2>2 DEF n
<1>10. CASE val # -1 /\ k # 0
  <2>1. n = k /\ k \in Nat \ {0} /\ m \in Nat
    BY <1>3, <1>5, <1>10
  <2>2. PowersGrow(k)
    BY <2>1, PowersBelowGrow
  <2>3. number_from_u8(ToBytes(val, k)) = val
    BY <1>7, <1>10, <2>1, <2>2, SignedReadsBack
  <2>4. QED
    BY <1>6, <2>1, <2>3 DEF n
<1>11. QED
  BY <1>8, <1>9, <1>10

\* The number of a new atom is the number of its bytes.
LEMMA NewAtomNumber ==
  ASSUME NEW a \in AllocatorType, NEW v \in Seq(Byte), new_atom(a, v).ok,
         Addressable(new_atom(a, v).a)
  PROVE  number(new_atom(a, v).a, new_atom(a, v).node) = number_from_u8(v)
<1> DEFINE r == new_atom(a, v)
<1>1. Atom(r.a, r.node) = v
  BY NewAtomHasItsBytes
<1>2. CASE HeapRoom(u32(Len(a.u8_vec))) < Len(v) \/ ~check_atom_limit(a)
  BY <1>2 DEF new_atom, Err
<1>3. CASE ~(HeapRoom(u32(Len(a.u8_vec))) < Len(v) \/ ~check_atom_limit(a)) /\ fits_in_small_atom(v)
  <2>1. r = PushSmall(a, BigEndian(v))
    BY <1>3 DEF new_atom
  <2>2. r.node.tag = "SmallAtom" /\ r.node.index = BigEndian(v)
    BY <2>1 DEF PushSmall, Ok, Small, Node
  <2> HIDE DEF r
  <2>3. number(r.a, r.node) = BigEndian(v)
    BY <2>2 DEF number
  <2>4. QED
    BY <1>3, <2>3, FittingValue DEF r
<1>4. CASE ~(HeapRoom(u32(Len(a.u8_vec))) < Len(v) \/ ~check_atom_limit(a)) /\ ~fits_in_small_atom(v)
  <2>1. r = PushBytes(a, v)
    BY <1>4 DEF new_atom
  <2>2. r.node.tag = "Bytes"
    BY <2>1 DEF PushBytes, PushAtom, Ok, Node
  <2> HIDE DEF r
  <2>3. QED
    BY <1>1, <2>2 DEF number, r
<1>5. QED
  BY <1>2, <1>3, <1>4

\* A number that new_number() makes an atom of is the number that number()
\* reads from it, negative ones and those that are kept in the node pointer
\* included, and no shorter byte string has that value: the arithmetic
\* operators, whose arguments are the results of others, never lose a sign
\* or a byte, and never charge for a redundant one.  PowersGrow says what ^
\* means, up to the longest number.
THEOREM NumbersReadBack ==
  ASSUME NEW a \in AllocatorType, NEW longest \in Nat \ {0}, PowersGrow(longest),
         NEW val \in Int, InBytes(val, longest), new_number(a, val, longest).ok,
         Addressable(new_number(a, val, longest).a)
  PROVE  LET r == new_number(a, val, longest)
         IN  /\ number(r.a, r.node) = val
             /\ \A w \in Seq(Byte) :
                  number_from_u8(w) = val => Len(Atom(r.a, r.node)) <= Len(w)
<1> DEFINE r == new_number(a, val, longest)
<1>1. CASE val \in 0 .. NODE_PTR_IDX_MASK
  <2>1. r.node.tag = "SmallAtom" /\ r.node.index = val
    BY <1>1 DEF new_number, new_small_number, PushSmall, Ok, Small, Node, Err
  <2> HIDE DEF r
  <2>2. number(r.a, r.node) = val /\ Atom(r.a, r.node) = ToBytes(val, len_for_value(val))
    BY <2>1 DEF number, Atom
  <2>3. PICK k \in 0 .. SMALL_LEN : HasLength(val, k)
    BY <1>1, HasALength
  <2>4. val \in Nat /\ val \in {val, -val - 1} /\ SMALL_LEN \in Nat \ {0}
    BY <1>1, <2>3, ByteFacts, SmallAtomIsCanonical
  <2>5. Len(Atom(r.a, r.node)) = k
    BY <1>1, <2>2, <2>3, <2>4, SmallAtomIsCanonical, SmallLengthIs
  <2>6. ASSUME NEW w \in Seq(Byte), number_from_u8(w) = val PROVE k <= Len(w)
    BY <2>3, <2>4, <2>6, SmallPowers, NoShorter
  <2>7. QED
    BY <2>2, <2>5, <2>6 DEF r
<1>2. CASE ~(val \in 0 .. NODE_PTR_IDX_MASK)
  <2> DEFINE n == SignedLen(val, longest)
             v == ToBytes(val, n)
  <2>1. /\ n \in 0 .. longest /\ number_from_u8(v) = val
        /\ \A w \in Seq(Byte) : number_from_u8(w) = val => n <= Len(w)
    BY SignedBytes
  <2> HIDE DEF n
  <2>2. v \in Seq(Byte) /\ Len(v) = n
    <3>1. n \in Nat /\ PowersGrow(n)
      BY <2>1, PowersBelowGrow
    <3>2. QED
      BY <3>1, WriteThenExtend
  <2>3. r = new_atom(a, v)
    BY <1>2 DEF new_number, n
  <2> HIDE DEF v, r
  <2>4. number(r.a, r.node) = val /\ Atom(r.a, r.node) = v
    BY <2>1, <2>2, <2>3, NewAtomNumber, NewAtomHasItsBytes DEF r
  <2>5. QED
    BY <2>1, <2>2, <2>4 DEF r
<1>3. QED
  BY <1>1, <1>2
=============================================================================
