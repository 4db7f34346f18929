--------------------------- MODULE AllocatorProofs ---------------------------
(***************************************************************************)
(* What holds of the allocator and its client, for all limits, all byte    *)
(* widths and any number of operations (AllocatorClient, src/allocator.rs).*)
(***************************************************************************)
EXTENDS AllocatorClient, EncodingLemmas

\* A new_concat in its loop: what it will cut off again is newer than every
\* atom and every checkpoint, the atoms of the heap it will leave are slices
\* if that is addressable, and there is room for the atom it will make.
InOrder(a, len) ==
  \A i \in DOMAIN a.atom_vec :
    /\ a.atom_vec[i].end <= len
    /\ len < U32 => a.atom_vec[i].start <= a.atom_vec[i].end
ConcatOK ==
  concat # <<>> =>
    /\ concat[1].start <= Len(alloc.u8_vec)
    /\ InOrder(alloc, concat[1].start)
    /\ \A i \in DOMAIN saved : Len(saved[i].was.u8_vec) <= concat[1].start
    /\ AtomCount(alloc) < MAX_NUM_ATOMS
    /\ \A k \in DOMAIN concat[1].nodes : Valid(alloc, concat[1].nodes[k])

\* The client's checkpoints are of sound allocators, each a prefix of the
\* later ones and of the present one.
SavedOK ==
  \A i \in DOMAIN saved :
    /\ saved[i].cp = checkpoint(saved[i].was)
    /\ Sound(saved[i].was)
    /\ PrefixOf(saved[i].was, alloc)
    /\ \A j \in 1 .. i : PrefixOf(saved[j].was, saved[i].was)

\* The inductive invariant.
IInv == TypeOK /\ Sound(alloc) /\ SavedOK /\ ConcatOK

\* Of two prefixes the shorter is a prefix of the longer.
LEMMA PrefixBelow ==
  ASSUME NEW S, NEW r \in Seq(S), NEW s \in Seq(S), NEW t \in Seq(S),
         PrefixSeq(r, t), PrefixSeq(s, t), Len(r) <= Len(s)
  PROVE  PrefixSeq(r, s)
BY DEF PrefixSeq

LEMMA SubSeqPrefix ==
  ASSUME NEW S, NEW s \in Seq(S), NEW n \in 0 .. Len(s)
  PROVE  SubSeq(s, 1, n) \in Seq(S) /\ Len(SubSeq(s, 1, n)) = n
         /\ PrefixSeq(SubSeq(s, 1, n), s)
BY DEF PrefixSeq

-----------------------------------------------------------------------------
(* The invariant is inductive.                                             *)

LEMMA NodesAreValid ==
  ASSUME TypeOK, NEW n \in Nodes
  PROVE  n \in NodePtr /\ Valid(alloc, n)
<1>1. alloc \in AllocatorType
  BY DEF TypeOK
<1>2. Len(alloc.atom_vec) \in Nat /\ Len(alloc.pair_vec) \in Nat
  BY <1>1, Vectors
<1>3. CASE \E v \in 0 .. NODE_PTR_IDX_MASK : n = Small(v)
  <2>1. n \in NodePtr /\ n.tag = "SmallAtom"
    BY <1>3 DEF Small, Node, NodePtr, ObjectType
  <2>2. QED
    BY <2>1, ValidCases
<1>4. CASE \E i \in 0 .. Len(alloc.atom_vec) - 1 : n = Node("Bytes", i)
  <2>1. n \in NodePtr /\ n.tag = "Bytes" /\ n.index < Len(alloc.atom_vec)
    BY <1>2, <1>4 DEF Node, NodePtr, ObjectType
  <2>2. QED
    BY <2>1, ValidCases
<1>5. CASE \E i \in 0 .. Len(alloc.pair_vec) - 1 : n = Node("Pair", i)
  <2>1. n \in NodePtr /\ n.tag = "Pair" /\ n.index < Len(alloc.pair_vec)
    BY <1>2, <1>5 DEF Node, NodePtr, ObjectType
  <2>2. QED
    BY <2>1, ValidCases
<1>6. QED
  BY <1>3, <1>4, <1>5 DEF Nodes, HeapNodes

LEMMA ArgumentsAreValid ==
  ASSUME TypeOK, NEW n \in Arguments
  PROVE  n \in NodePtr /\ Valid(alloc, n)
<1>1. n \in Nodes
  BY ClientAssumption DEF Arguments, Nodes
<1>2. QED
  BY <1>1, NodesAreValid

SavedEntry == [cp : [u8s : Nat, pairs : Nat, atoms : Nat, small_atoms : Nat],
               was : AllocatorType]

LEMMA InitInv == Init => IInv
<1> SUFFICES ASSUME Init PROVE IInv
  OBVIOUS
<1>1. alloc \in AllocatorType
  BY DEF Init, new_limited, AllocatorType
<1>2. /\ alloc.u8_vec = <<>> /\ alloc.pair_vec = <<>> /\ alloc.atom_vec = <<>>
      /\ alloc.small_atoms = 2
  BY DEF Init, new_limited
<1>3. Limits(alloc)
  BY <1>2, AllocatorAssumption DEF Limits, AtomCount
<1>4. Buffers(alloc) /\ Pairs(alloc)
  BY <1>2 DEF Buffers, Pairs
<1>5. TypeOK /\ SavedOK /\ ConcatOK
  BY <1>1 DEF Init, TypeOK, SavedOK, ConcatOK
<1>6. QED
  BY <1>1, <1>3, <1>4, <1>5 DEF IInv, Sound

\* A call that returns at once and lets the allocator grow.
LEMMA CallStep ==
  ASSUME IInv, concat = <<>>, Grows(alloc, alloc'), UNCHANGED <<saved, concat>>
  PROVE  IInv'
<1>1. TypeOK'
  BY DEF IInv, TypeOK, Grows, Sound
<1>2. Sound(alloc)'
  BY DEF Grows
<1>3. SavedOK'
  <2>1. SUFFICES ASSUME NEW i \in DOMAIN saved
                 PROVE  PrefixOf(saved[i].was, alloc')
    BY DEF IInv, SavedOK
  <2>2. saved[i].was \in AllocatorType /\ PrefixOf(saved[i].was, alloc)
    BY DEF IInv, SavedOK, Sound
  <2>3. alloc \in AllocatorType /\ alloc' \in AllocatorType /\ PrefixOf(alloc, alloc')
    BY DEF IInv, Grows, Sound
  <2>4. QED
    BY <2>2, <2>3, PrefixTrans
<1>4. ConcatOK'
  BY DEF ConcatOK
<1>5. QED
  BY <1>1, <1>2, <1>3, <1>4 DEF IInv

\* The byte strings and operand lists that the client passes.
LEMMA ListsType ==
  ASSUME NEW S, NEW n \in Nat, NEW v \in Lists(S, n)
  PROVE  v \in Seq(S)
BY DEF Lists

LEMMA NewConcatStep ==
  ASSUME IInv, NewConcat
  PROVE  IInv'
<1>1. PICK nodes \in Lists(Arguments, MaxOperands), size \in 0 .. MaxSize :
        /\ concat = <<>> /\ concat_admitted(alloc, size)
        /\ concat' = <<[start |-> Len(alloc.u8_vec), new_size |-> size,
                        counter |-> 0, nodes |-> nodes]>>
        /\ UNCHANGED <<alloc, saved>>
  BY DEF NewConcat
<1>2. nodes \in Seq(Arguments)
  BY ListsType, ClientAssumption
<1>3. \A n \in Arguments : n \in NodePtr /\ Valid(alloc, n)
  BY ArgumentsAreValid DEF IInv
<1>4. nodes \in Seq(NodePtr) /\ \A k \in DOMAIN nodes : Valid(alloc, nodes[k])
  BY <1>2, <1>3
<1> DEFINE c == [start |-> Len(alloc.u8_vec), new_size |-> size,
                 counter |-> 0, nodes |-> nodes]
<1>5. alloc \in AllocatorType /\ Len(alloc.u8_vec) \in Nat
  BY Vectors DEF IInv, Sound
<1>6. c \in ConcatCall
  BY <1>4, <1>5 DEF ConcatCall
<1>7. c.start = Len(alloc.u8_vec) /\ c.nodes = nodes
  OBVIOUS
<1> HIDE DEF c
<1>8. concat' = <<c>> /\ concat'[1] = c
  BY <1>1 DEF c
<1>9. TypeOK'
  BY <1>1, <1>6, <1>8 DEF IInv, TypeOK
<1>10. Sound(alloc)' /\ SavedOK'
  BY <1>1 DEF IInv, SavedOK
<1>11. ConcatOK'
  <2>1. InOrder(alloc, c.start)
    BY <1>7 DEF IInv, Sound, Buffers, Addressable, InOrder
  <2>2. \A i \in DOMAIN saved : Len(saved[i].was.u8_vec) <= c.start
    BY <1>7 DEF IInv, SavedOK, PrefixOf, PrefixSeq
  <2>3. AtomCount(alloc) < MAX_NUM_ATOMS
    BY <1>1, RoomForAtom DEF IInv, concat_admitted
  <2>4. QED
    BY <1>1, <1>4, <1>5, <1>7, <1>8, <2>1, <2>2, <2>3 DEF ConcatOK
<1>12. QED
  BY <1>9, <1>10, <1>11 DEF IInv

\* Another heap under the same atoms and pairs.
LEMMA OtherHeap ==
  ASSUME NEW a, Sound(a), NEW heap \in Seq(Byte),
         InOrder(a, Len(heap))
  PROVE  LET b == [a EXCEPT !.u8_vec = heap]
         IN  /\ Sound(b) /\ b.u8_vec = heap /\ b.atom_vec = a.atom_vec
             /\ b.pair_vec = a.pair_vec /\ b.small_atoms = a.small_atoms
             /\ \A n \in NodePtr : Valid(b, n) <=> Valid(a, n)
<1> DEFINE b == [a EXCEPT !.u8_vec = heap]
<1>0. a \in AllocatorType
  BY DEF Sound
<1>1. /\ b.u8_vec = heap /\ b.atom_vec = a.atom_vec /\ b.pair_vec = a.pair_vec
      /\ b.small_atoms = a.small_atoms /\ b \in AllocatorType
  BY <1>0, Zenon DEF AllocatorType
<1> HIDE DEF b
<1>2. Limits(b)
  BY <1>1 DEF Sound, Limits, AtomCount
<1>3. Buffers(b)
  BY <1>1 DEF InOrder, Buffers, Addressable
<1>4. \A n \in NodePtr : Valid(b, n) <=> Valid(a, n)
  BY <1>1, ValidCases
<1>5. Pairs(b)
  <2>1. SUFFICES ASSUME NEW i \in DOMAIN a.pair_vec,
                        NEW n \in {a.pair_vec[i].first, a.pair_vec[i].rest}
                 PROVE  Valid(b, n) /\ (n.tag = "Pair" => n.index + 1 < i)
    BY <1>1 DEF Pairs
  <2>2. a.pair_vec[i] \in IntPair
    BY <1>0, Vectors
  <2>3. n \in NodePtr
    BY <2>2 DEF IntPair
  <2>4. QED
    BY <1>4, <2>3 DEF Sound, Pairs
<1>6. QED
  BY <1>1, <1>2, <1>3, <1>4, <1>5 DEF b, Sound

\* What the three steps of a running new_concat start from.
LEMMA ConcatFacts ==
  ASSUME IInv, concat # <<>>
  PROVE  /\ concat = <<concat[1]>> /\ concat[1] \in ConcatCall
         /\ alloc \in AllocatorType /\ alloc.u8_vec \in Seq(Byte)
         /\ Len(alloc.u8_vec) \in Nat /\ concat[1].start \in Nat
         /\ concat[1].nodes \in Seq(NodePtr)
         /\ \A i \in DOMAIN alloc.atom_vec : alloc.atom_vec[i] \in AtomBuf
         /\ \A i \in DOMAIN saved : saved[i].was \in AllocatorType
<1>1. concat \in Seq(ConcatCall) /\ Len(concat) <= 1
  BY DEF IInv, TypeOK
<1>2. Len(concat) = 1 /\ concat[1] \in ConcatCall /\ concat = <<concat[1]>>
  BY <1>1
<1>3. alloc \in AllocatorType /\ \A i \in DOMAIN saved : saved[i].was \in AllocatorType
  BY DEF IInv, Sound, SavedOK
<1>4. QED
  BY <1>2, <1>3, Vectors DEF ConcatCall

LEMMA TailElements ==
  ASSUME NEW S, NEW s \in Seq(S), s # <<>>
  PROVE  /\ Tail(s) \in Seq(S)
         /\ \A k \in DOMAIN Tail(s) : k + 1 \in DOMAIN s /\ Tail(s)[k] = s[k + 1]
OBVIOUS

LEMMA ConcatTurn ==
  ASSUME NEW c \in ConcatCall, NEW len \in Nat, Tail(c.nodes) \in Seq(NodePtr)
  PROVE  LET d == [c EXCEPT !.counter = @ + len, !.nodes = Tail(@)]
         IN  d \in ConcatCall /\ d.start = c.start /\ d.nodes = Tail(c.nodes)
<1> DEFINE k == c.counter + len
           t == Tail(c.nodes)
<1>1. k \in Nat /\ t \in Seq(NodePtr)
  BY DEF ConcatCall
<1>2. [c EXCEPT !.counter = @ + len, !.nodes = Tail(@)] = [c EXCEPT !.counter = k, !.nodes = t]
  OBVIOUS
<1> HIDE DEF k, t
<1>3. LET d == [c EXCEPT !.counter = k, !.nodes = t]
      IN  d \in ConcatCall /\ d.start = c.start /\ d.nodes = t
  BY <1>1, Zenon DEF ConcatCall
<1>4. QED
  BY <1>2, <1>3 DEF t

LEMMA ConcatAppendStep ==
  ASSUME IInv, ConcatAppend
  PROVE  IInv' /\ PrefixOf(alloc, alloc')
<1> DEFINE c == concat[1]
           n == Head(c.nodes)
           heap == alloc.u8_vec \o Atom(alloc, n)
           d == [c EXCEPT !.counter = @ + atom_len(alloc, n), !.nodes = Tail(@)]
<1>1. /\ concat # <<>> /\ c.nodes # <<>> /\ ~concat_rejects(alloc, c) /\ Readable(alloc, n)
      /\ alloc' = [alloc EXCEPT !.u8_vec = heap] /\ concat' = <<d>> /\ saved' = saved
  BY DEF ConcatAppend, concat_append
<1>2. c \in ConcatCall /\ alloc \in AllocatorType /\ alloc.u8_vec \in Seq(Byte)
      /\ Len(alloc.u8_vec) \in Nat /\ c.start \in Nat /\ c.nodes \in Seq(NodePtr)
  BY <1>1, ConcatFacts
<1>3. n \in NodePtr /\ Valid(alloc, n) /\ IsAtom(n)
  BY <1>1, <1>2 DEF IInv, ConcatOK, concat_rejects
<1>4. Atom(alloc, n) \in Seq(Byte) /\ atom_len(alloc, n) \in Nat
  BY <1>1, <1>3, AtomBytes DEF IInv
<1>5. heap \in Seq(Byte) /\ PrefixSeq(alloc.u8_vec, heap) /\ Len(heap) >= Len(alloc.u8_vec)
      /\ Len(heap) \in Nat
  <2>1. heap \in Seq(Byte) /\ PrefixSeq(alloc.u8_vec, heap)
    BY <1>2, <1>4, ConcatPrefix
  <2> HIDE DEF heap
  <2>2. QED
    BY <2>1 DEF PrefixSeq
<1>6. /\ d \in ConcatCall /\ d.start = c.start
      /\ \A k \in DOMAIN d.nodes : k + 1 \in DOMAIN c.nodes /\ d.nodes[k] = c.nodes[k + 1]
  <2>1. /\ Tail(c.nodes) \in Seq(NodePtr)
        /\ \A k \in DOMAIN Tail(c.nodes) :
             k + 1 \in DOMAIN c.nodes /\ Tail(c.nodes)[k] = c.nodes[k + 1]
    BY <1>1, <1>2, TailElements
  <2>2. d \in ConcatCall /\ d.start = c.start /\ d.nodes = Tail(c.nodes)
    <3> HIDE DEF n, c
    <3>1. QED
      BY <1>2, <1>4, <2>1, ConcatTurn, Zenon
  <2> HIDE DEF d
  <2>3. QED
    BY <2>1, <2>2
<1> HIDE DEF d, heap, n
<1>7. InOrder(alloc, Len(heap))
  <2> SUFFICES ASSUME NEW i \in DOMAIN alloc.atom_vec
               PROVE  /\ alloc.atom_vec[i].end <= Len(heap)
                      /\ Len(heap) < U32 => alloc.atom_vec[i].start <= alloc.atom_vec[i].end
    BY DEF InOrder
  <2>1. alloc.atom_vec[i].end \in Nat
    BY <1>1, ConcatFacts DEF AtomBuf
  <2>2. /\ alloc.atom_vec[i].end <= Len(alloc.u8_vec)
        /\ Len(alloc.u8_vec) < U32 => alloc.atom_vec[i].start <= alloc.atom_vec[i].end
    BY DEF IInv, Sound, Buffers, Addressable
  <2>3. U32 \in Nat
    BY AllocatorAssumption
  <2>4. QED
    BY <1>2, <1>5, <2>1, <2>2, <2>3
<1>8. /\ Sound(alloc') /\ alloc'.u8_vec = heap /\ alloc'.atom_vec = alloc.atom_vec
      /\ alloc'.pair_vec = alloc.pair_vec /\ alloc'.small_atoms = alloc.small_atoms
      /\ \A m \in NodePtr : Valid(alloc', m) <=> Valid(alloc, m)
  BY <1>1, <1>5, <1>7, OtherHeap DEF IInv
<1>9. PrefixOf(alloc, alloc') /\ alloc' \in AllocatorType
  BY <1>2, <1>5, <1>8, Vectors DEF PrefixOf, PrefixSeq, Sound
<1>10. TypeOK'
  BY <1>1, <1>6, <1>9 DEF IInv, TypeOK
<1>11. SavedOK'
  <2>1. SUFFICES ASSUME NEW i \in DOMAIN saved
                 PROVE  PrefixOf(saved[i].was, alloc')
    BY <1>1 DEF IInv, SavedOK
  <2>2. saved[i].was \in AllocatorType /\ PrefixOf(saved[i].was, alloc)
    BY DEF IInv, SavedOK, Sound
  <2>3. QED
    BY <1>2, <1>9, <2>2, PrefixTrans
<1>12. ConcatOK'
  <2>1. concat'[1] = d
    BY <1>1
  <2>2. c.start <= Len(alloc'.u8_vec)
    BY <1>1, <1>2, <1>5, <1>8 DEF IInv, ConcatOK
  <2>3. InOrder(alloc', d.start)
    BY <1>1, <1>6, <1>8 DEF IInv, ConcatOK, InOrder
  <2>4. \A i \in DOMAIN saved : Len(saved[i].was.u8_vec) <= d.start
    BY <1>1, <1>6 DEF IInv, ConcatOK
  <2>5. AtomCount(alloc') < MAX_NUM_ATOMS
    BY <1>1, <1>8 DEF IInv, ConcatOK, AtomCount
  <2>6. \A k \in DOMAIN d.nodes : Valid(alloc', d.nodes[k])
    <3> TAKE k \in DOMAIN d.nodes
    <3>1. Valid(alloc, d.nodes[k]) /\ d.nodes[k] \in NodePtr
      BY <1>1, <1>2, <1>6 DEF IInv, ConcatOK
    <3>2. QED
      BY <1>8, <3>1
  <2>7. QED
    BY <1>1, <1>6, <2>1, <2>2, <2>3, <2>4, <2>5, <2>6 DEF ConcatOK
<1>13. QED
  BY <1>8, <1>9, <1>10, <1>11, <1>12 DEF IInv

LEMMA ConcatFailStep ==
  ASSUME IInv, ConcatFail
  PROVE  IInv' /\ PrefixOf(alloc', alloc)
<1> DEFINE c == concat[1]
           heap == SubSeq(alloc.u8_vec, 1, c.start)
<1>1. concat # <<>> /\ alloc' = [alloc EXCEPT !.u8_vec = heap] /\ concat' = <<>> /\ saved' = saved
  BY DEF ConcatFail, concat_truncate
<1>2. alloc \in AllocatorType /\ alloc.u8_vec \in Seq(Byte) /\ c.start \in 0 .. Len(alloc.u8_vec)
  BY <1>1, ConcatFacts DEF IInv, ConcatOK
<1>3. heap \in Seq(Byte) /\ Len(heap) = c.start /\ PrefixSeq(heap, alloc.u8_vec)
  BY <1>2, SubSeqPrefix
<1>4. InOrder(alloc, Len(heap))
  BY <1>1, <1>3 DEF IInv, ConcatOK
<1> HIDE DEF heap
<1>5. /\ Sound(alloc') /\ alloc'.u8_vec = heap /\ alloc'.atom_vec = alloc.atom_vec
      /\ alloc'.pair_vec = alloc.pair_vec
  BY <1>1, <1>3, <1>4, OtherHeap DEF IInv
<1>6. PrefixOf(alloc', alloc) /\ alloc' \in AllocatorType
  BY <1>2, <1>3, <1>5, Vectors DEF PrefixOf, PrefixSeq, Sound
<1>7. TypeOK' /\ ConcatOK'
  BY <1>1, <1>6 DEF IInv, TypeOK, ConcatOK
<1>8. SavedOK'
  <2>1. SUFFICES ASSUME NEW i \in DOMAIN saved
                 PROVE  PrefixOf(saved[i].was, alloc')
    BY <1>1 DEF IInv, SavedOK
  <2> DEFINE w == saved[i].was
  <2>2. w \in AllocatorType /\ PrefixOf(w, alloc) /\ Len(w.u8_vec) <= c.start
    BY <1>1 DEF IInv, SavedOK, ConcatOK, Sound
  <2> HIDE DEF w
  <2>3. PrefixSeq(w.u8_vec, heap)
    BY <1>2, <1>3, <2>2, PrefixBelow, Vectors DEF PrefixOf
  <2>4. QED
    BY <1>5, <2>2, <2>3 DEF PrefixOf, w
<1>9. QED
  BY <1>5, <1>6, <1>7, <1>8 DEF IInv

LEMMA ConcatFinishStep ==
  ASSUME IInv, ConcatFinish
  PROVE  IInv' /\ PrefixOf(alloc, alloc')
<1> DEFINE c == concat[1]
<1>1. /\ concat # <<>> /\ concat' = <<>> /\ saved' = saved
      /\ alloc' = PushAtom(alloc, alloc.u8_vec, c.start, Len(alloc.u8_vec)).a
  BY DEF ConcatFinish, concat_finish
<1>2. /\ alloc \in AllocatorType /\ alloc.u8_vec \in Seq(Byte) /\ c.start \in Nat
      /\ Len(alloc.u8_vec) \in Nat /\ c.start <= Len(alloc.u8_vec)
      /\ InHeap(alloc.u8_vec, c.start, Len(alloc.u8_vec))
  BY <1>1, ConcatFacts DEF IInv, ConcatOK, InHeap
<1>3. check_atom_limit(alloc)
  <2>1. AtomCount(alloc) < MAX_NUM_ATOMS /\ AtomCount(alloc) \in Nat
    BY <1>1, <1>2, Vectors DEF IInv, ConcatOK, AtomCount
  <2>2. QED
    BY <2>1, MaxAtoms DEF check_atom_limit, AtomCount
<1>4. PrefixSeq(alloc.u8_vec, alloc.u8_vec)
  BY <1>2 DEF PrefixSeq
<1>5. Grows(alloc, alloc')
  BY <1>1, <1>2, <1>3, <1>4, PushAtomGrows DEF IInv
<1>6. TypeOK' /\ ConcatOK'
  BY <1>1, <1>5 DEF IInv, TypeOK, ConcatOK, Grows, Sound
<1>7. SavedOK'
  <2>1. SUFFICES ASSUME NEW i \in DOMAIN saved
                 PROVE  PrefixOf(saved[i].was, alloc')
    BY <1>1 DEF IInv, SavedOK
  <2>2. saved[i].was \in AllocatorType /\ PrefixOf(saved[i].was, alloc)
    BY DEF IInv, SavedOK, Sound
  <2>3. QED
    BY <1>2, <1>5, <2>2, PrefixTrans DEF Grows, Sound
<1>8. QED
  BY <1>5, <1>6, <1>7 DEF IInv, Grows

LEMMA TakeCheckpointStep ==
  ASSUME IInv, TakeCheckpoint
  PROVE  IInv'
<1> DEFINE entry == [cp |-> checkpoint(alloc), was |-> alloc]
<1>1. concat = <<>> /\ saved' = Append(saved, entry) /\ alloc' = alloc /\ concat' = concat
  BY DEF TakeCheckpoint
<1>2. /\ alloc \in AllocatorType /\ Sound(alloc)
      /\ checkpoint(alloc) \in [u8s : Nat, pairs : Nat, atoms : Nat, small_atoms : Nat]
  BY Vectors DEF IInv, Sound, checkpoint
<1>3. entry.cp = checkpoint(alloc) /\ entry.was = alloc
      /\ entry \in SavedEntry
  BY <1>2 DEF SavedEntry
<1>4. saved \in Seq(SavedEntry)
  BY DEF IInv, TypeOK, SavedEntry
<1> HIDE DEF entry
<1>5. /\ saved' \in Seq(SavedEntry) /\ DOMAIN saved' = 1 .. Len(saved) + 1
      /\ Len(saved) \in Nat /\ DOMAIN saved = 1 .. Len(saved)
      /\ \A i \in 1 .. Len(saved) : saved'[i] = saved[i]
      /\ saved'[Len(saved) + 1] = entry
  BY <1>1, <1>3, <1>4
<1>6. TypeOK'
  BY <1>1, <1>5 DEF IInv, TypeOK, SavedEntry
<1>7. SavedOK'
  <2>1. SUFFICES ASSUME NEW i \in 1 .. Len(saved) + 1
                 PROVE  /\ saved'[i].cp = checkpoint(saved'[i].was)
                        /\ Sound(saved'[i].was)
                        /\ PrefixOf(saved'[i].was, alloc)
                        /\ \A j \in 1 .. i : PrefixOf(saved'[j].was, saved'[i].was)
    BY <1>1, <1>5 DEF SavedOK
  <2>2. \A k \in 1 .. Len(saved) :
          /\ saved[k].cp = checkpoint(saved[k].was) /\ Sound(saved[k].was)
          /\ PrefixOf(saved[k].was, alloc)
          /\ \A j \in 1 .. k : PrefixOf(saved[j].was, saved[k].was)
    BY <1>5 DEF IInv, SavedOK
  <2>3. PrefixOf(alloc, alloc)
    BY <1>2, PrefixRefl
  <2>4. CASE i \in 1 .. Len(saved)
    BY <1>5, <2>2, <2>4
  <2>5. CASE i = Len(saved) + 1
    BY <1>2, <1>3, <1>5, <2>2, <2>3, <2>5
  <2>6. QED
    BY <1>5, <2>4, <2>5
<1>8. QED
  BY <1>1, <1>6, <1>7 DEF IInv, ConcatOK

LEMMA RestoreCheckpointStep ==
  ASSUME IInv, RestoreCheckpoint
  PROVE  IInv' /\ PrefixOf(alloc', alloc)
<1>1. PICK i \in 1 .. Len(saved) :
        /\ concat = <<>> /\ alloc' = restore_checkpoint(alloc, saved[i].cp)
        /\ saved' = SubSeq(saved, 1, i) /\ concat' = concat
  BY DEF RestoreCheckpoint
<1>2. /\ saved \in Seq(SavedEntry) /\ Len(saved) \in Nat
      /\ DOMAIN saved = 1 .. Len(saved)
  BY DEF IInv, TypeOK, SavedEntry
<1>3. /\ saved' \in Seq(SavedEntry) /\ DOMAIN saved' = 1 .. i
      /\ \A k \in 1 .. i : saved'[k] = saved[k]
  BY <1>1, <1>2
<1>4. \A k \in 1 .. Len(saved) :
        /\ saved[k].cp = checkpoint(saved[k].was) /\ Sound(saved[k].was)
        /\ PrefixOf(saved[k].was, alloc)
        /\ \A j \in 1 .. k : PrefixOf(saved[j].was, saved[k].was)
  BY <1>2 DEF IInv, SavedOK
<1>5. alloc' = saved[i].was
  <2>1. saved[i].was \in AllocatorType /\ alloc \in AllocatorType
    BY <1>4 DEF IInv, Sound
  <2>2. QED
    BY <1>1, <1>4, <2>1, RestoreGivesPrefix
<1>6. Sound(alloc') /\ PrefixOf(alloc', alloc) /\ alloc' \in AllocatorType
  BY <1>4, <1>5 DEF Sound
<1>7. TypeOK' /\ ConcatOK'
  BY <1>1, <1>3, <1>6 DEF IInv, TypeOK, SavedEntry, ConcatOK
<1>8. SavedOK'
  <2>1. SUFFICES ASSUME NEW k \in 1 .. i
                 PROVE  /\ saved'[k].cp = checkpoint(saved'[k].was)
                        /\ Sound(saved'[k].was)
                        /\ PrefixOf(saved'[k].was, alloc')
                        /\ \A j \in 1 .. k : PrefixOf(saved'[j].was, saved'[k].was)
    BY <1>3 DEF SavedOK
  <2>2. k \in 1 .. Len(saved) /\ saved'[k] = saved[k]
    BY <1>2, <1>3
  <2>3. \A j \in 1 .. k : saved'[j] = saved[j]
    BY <1>3
  <2>4. QED
    BY <1>4, <1>5, <2>2, <2>3
<1>9. QED
  BY <1>6, <1>7, <1>8 DEF IInv

\* Every step grows the allocator, or cuts it back to a sound prefix.
LEMMA NextStep ==
  ASSUME IInv, Next
  PROVE  IInv' /\ (PrefixOf(alloc, alloc') \/ PrefixOf(alloc', alloc))
<1>0. Sound(alloc) /\ alloc \in AllocatorType /\ PrefixOf(alloc, alloc)
  BY PrefixRefl DEF IInv, Sound
<1>1. CASE NewAtom
  <2>1. PICK v \in ByteStrings : Call(new_atom(alloc, v))
    BY <1>1 DEF NewAtom
  <2>2. v \in Seq(Byte)
    BY ClientAssumption
  <2>3. QED
    BY <1>0, <2>1, <2>2, NewAtomMakes, CallStep DEF Call, MakesAtom, Makes, Grows
<1>2. CASE NewSmallNumber
  <2>1. PICK v \in Smalls : Call(new_small_number(alloc, v))
    BY <1>2 DEF NewSmallNumber
  <2>2. v \in Nat
    <3>1. v \in 0 .. NODE_PTR_IDX_MASK
      BY ClientAssumption, Zenon
    <3>2. QED
      BY <3>1
  <2>3. QED
    BY <1>0, <2>1, <2>2, NewSmallNumberMakes, CallStep DEF Call, MakesAtom, Makes, Grows
<1>3. CASE NewNumber
  <2>1. PICK v \in Numbers : Call(new_number(alloc, v, SMALL_LEN + 1))
    BY <1>3 DEF NewNumber
  <2>2. v \in Int
    BY ClientAssumption
  <2> DEFINE longest == SMALL_LEN + 1
  <2>3. longest \in Nat \ {0} /\ Powers(longest - 1) /\ Call(new_number(alloc, v, longest))
    BY <2>1, AllocatorAssumption DEF Powers
  <2> HIDE DEF longest
  <2>4. QED
    BY <1>0, <2>2, <2>3, NewNumberMakes, CallStep DEF Call, MakesAtom, Makes, Grows
<1>4. CASE NewPair
  <2>1. PICK first \in Arguments, rest \in Arguments : Call(new_pair(alloc, first, rest))
    BY <1>4 DEF NewPair
  <2>2. first \in NodePtr /\ rest \in NodePtr /\ Valid(alloc, first) /\ Valid(alloc, rest)
    BY ArgumentsAreValid DEF IInv
  <2>3. QED
    BY <1>0, <2>1, <2>2, NewPairGrows, CallStep DEF Call, Grows
<1>5. CASE NewSubstr
  <2>1. PICK n \in Arguments, start \in 0 .. MaxEnd, end \in 0 .. MaxEnd :
          Call(new_substr(alloc, n, start, end))
    BY <1>5 DEF NewSubstr
  <2>2. n \in NodePtr /\ Valid(alloc, n) /\ start \in Nat /\ end \in Nat
    BY ArgumentsAreValid, ClientAssumption DEF IInv
  <2>3. QED
    BY <1>0, <2>1, <2>2, NewSubstrMakes, CallStep DEF Call, MakesAtom, Makes, Grows
<1>6. CASE NewConcat
  BY <1>0, <1>6, NewConcatStep DEF NewConcat
<1>7. CASE TakeCheckpoint
  BY <1>0, <1>7, TakeCheckpointStep DEF TakeCheckpoint
<1>8. QED
  BY <1>1, <1>2, <1>3, <1>4, <1>5, <1>6, <1>7, ConcatAppendStep, ConcatFailStep,
     ConcatFinishStep, RestoreCheckpointStep DEF Next

-----------------------------------------------------------------------------
(* The theorems.                                                           *)

\* IInv is an invariant of every client, whatever it calls.
THEOREM Invariance == Spec => []IInv
<1>1. IInv /\ UNCHANGED vars => IInv'
  BY DEF vars, IInv, TypeOK, SavedOK, ConcatOK
<1>2. IInv /\ [Next]_vars => IInv'
  BY <1>1, NextStep
<1>3. QED
  BY <1>2, InitInv, PTL DEF Spec

\* The vectors hold what the structs declare.  No sequence of operations and
\* restores takes the allocator past its limits, although check_atom_limit() and
\* new_pair() test them with ==; atom() and new_substr() never slice outside
\* the heap; the node graph is acyclic and has no dead child, also after
\* restores.
THEOREM ArenaStaysSound == Spec => []ArenaIsSound
<1>1. IInv => LimitsHold
  BY DEF IInv, Sound, Limits, LimitsHold
<1>2. IInv => BuffersInHeap
  BY DEF IInv, Sound, Buffers, BuffersInHeap
<1>3. IInv => PairsPointBack
  BY DEF IInv, Sound, Pairs, PairsPointBack
<1>4. IInv => ArenaIsSound
  BY <1>1, <1>2, <1>3 DEF IInv, ArenaIsSound
<1>5. QED
  BY <1>4, Invariance, PTL

\* restore_checkpoint() gives back the very allocator that checkpoint() saw,
\* for every checkpoint that the client still holds, and asserts nothing false.
THEOREM RestoreIsExact == Spec => []CheckpointsRestore
<1>1. IInv => CheckpointsRestore
  <2> SUFFICES ASSUME IInv, NEW i \in DOMAIN saved
               PROVE  /\ RestoreAsserts(alloc, saved[i].cp)
                      /\ restore_checkpoint(alloc, saved[i].cp) = saved[i].was
    BY DEF CheckpointsRestore
  <2>1. /\ saved[i].was \in AllocatorType /\ alloc \in AllocatorType
        /\ PrefixOf(saved[i].was, alloc) /\ saved[i].cp = checkpoint(saved[i].was)
    BY DEF IInv, SavedOK, Sound
  <2>2. QED
    BY <2>1, RestoreGivesPrefix
<1>2. QED
  BY <1>1, Invariance, PTL

\* An atom has the bytes it was made with, and equality, length and value of
\* atoms are those of their bytes: small atoms, shared slices and buffers of
\* their own cannot be told apart.
THEOREM AtomsKeepTheirBytes == Spec => []AtomsAreTheirBytes
<1>1. ASSUME IInv PROVE AtomEqualityIsByteEquality
  <2>1. Sound(alloc) /\ TypeOK
    BY <1>1 DEF IInv
  <2>2. ASSUME NEW n \in Nodes PROVE Canonical(n)
    <3>1. CASE \E v \in 0 .. NODE_PTR_IDX_MASK : n = Small(v)
      BY <3>1 DEF Small, Node, Canonical
    <3>2. CASE \E i \in 0 .. Len(alloc.atom_vec) - 1 : n = Node("Bytes", i)
      BY <3>2 DEF Node, Canonical
    <3>3. CASE \E i \in 0 .. Len(alloc.pair_vec) - 1 : n = Node("Pair", i)
      BY <3>3 DEF Node, Canonical
    <3>4. QED
      BY <3>1, <3>2, <3>3 DEF Nodes, HeapNodes
  <2>3. ASSUME NEW n \in Nodes, IsAtom(n), Readable(alloc, n)
        PROVE  /\ n \in NodePtr /\ Valid(alloc, n) /\ Canonical(n)
               /\ atom_len(alloc, n) = Len(Atom(alloc, n))
    <3>1. n \in NodePtr /\ Valid(alloc, n)
      BY <2>1, NodesAreValid
    <3>2. QED
      BY <2>1, <2>2, <2>3, <3>1, AtomBytes
  <2>4. SUFFICES ASSUME NEW x \in Nodes, IsAtom(x), Readable(alloc, x),
                        NEW y \in Nodes, IsAtom(y), Readable(alloc, y)
        PROVE  /\ atom_eq(alloc, x, y) <=> Atom(alloc, x) = Atom(alloc, y)
               /\ Atom(alloc, x) = Atom(alloc, y) =>
                    small_number(alloc, x) = small_number(alloc, y)
               /\ atom_len(alloc, x) = Len(Atom(alloc, x))
    BY DEF AtomEqualityIsByteEquality
  <2>5. QED
    BY <2>1, <2>3, <2>4, OnlyBytesAreCompared
<1>2. ASSUME IInv PROVE NewAtomsHaveTheirBytes
  <2>1. Sound(alloc) /\ TypeOK /\ alloc \in AllocatorType
    BY <1>2 DEF IInv, Sound
  <2>2. MaxEnd \in Nat
    BY ClientAssumption
  <2>3. ASSUME NEW v \in Lists(Byte, MaxEnd), new_atom(alloc, v).ok,
               Addressable(new_atom(alloc, v).a)
        PROVE  Atom(new_atom(alloc, v).a, new_atom(alloc, v).node) = v
    <3>1. v \in Seq(Byte)
      BY <2>2, ListsType
    <3>2. QED
      BY <2>1, <2>3, <3>1, NewAtomHasItsBytes
  <2>4. ASSUME NEW n \in Nodes, NEW start \in 0 .. MaxEnd, NEW end \in 0 .. MaxEnd,
               new_substr(alloc, n, start, end).ok,
               Addressable(new_substr(alloc, n, start, end).a)
        PROVE  Atom(new_substr(alloc, n, start, end).a, new_substr(alloc, n, start, end).node)
                 = SubSeq(Atom(alloc, n), start + 1, end)
    <3>1. n \in NodePtr /\ Valid(alloc, n) /\ start \in Nat /\ end \in Nat
      BY <2>1, <2>2, NodesAreValid
    <3>2. QED
      BY <2>1, <2>4, <3>1, NewSubstrHasItsBytes
  <2>5. QED
    BY <2>3, <2>4 DEF NewAtomsHaveTheirBytes
<1>3. IInv => AtomsAreTheirBytes
  BY <1>1, <1>2 DEF AtomsAreTheirBytes
<1>4. QED
  BY <1>3, Invariance, PTL

-----------------------------------------------------------------------------
(* The heap ends with an atom.  A new_concat in its loop remembers where   *)
(* the heap ended, and every checkpoint is of such a heap.                 *)

EndsAt(a, len) ==
  0 < len /\ len < U32 => \E i \in DOMAIN a.atom_vec : a.atom_vec[i].end = len
Tidy(a) == EndsAt(a, Len(a.u8_vec))
TidyInv ==
  /\ concat = <<>> => Tidy(alloc)
  /\ concat # <<>> => EndsAt(alloc, concat[1].start)
  /\ \A i \in DOMAIN saved : Tidy(saved[i].was)

\* No call takes an atom away.
LEMMA StillEndsAt ==
  ASSUME NEW a \in AllocatorType, NEW b \in AllocatorType, PrefixOf(a, b),
         NEW len, EndsAt(a, len)
  PROVE  EndsAt(b, len)
<1> DEFINE s == a.atom_vec
           t == b.atom_vec
<1>1. s \in Seq(AtomBuf) /\ t \in Seq(AtomBuf) /\ PrefixSeq(s, t)
  BY Vectors DEF PrefixOf
<1> HIDE DEF s, t
<1>2. DOMAIN s \subseteq DOMAIN t /\ \A i \in DOMAIN s : t[i] = s[i]
  BY <1>1 DEF PrefixSeq
<1>3. QED
  BY <1>2, Zenon DEF EndsAt, s, t

\* The heap stays as it is, or ends with a new atom.
AddsAtom(a, b) == b.u8_vec = a.u8_vec \/ Tidy(b)

LEMMA PushAddsAtom ==
  ASSUME NEW a \in AllocatorType, NEW heap \in Seq(Byte), NEW start
  PROVE  Tidy(PushAtom(a, heap, start, Len(heap)).a)
<1> DEFINE buf == [start |-> u32(start), end |-> u32(Len(heap))]
           b == PushAtom(a, heap, start, Len(heap)).a
           s == a.atom_vec
<1>1. b.u8_vec = heap /\ b.atom_vec = Append(s, buf) /\ buf.end = u32(Len(heap))
  BY Zenon DEF PushAtom, Ok, AllocatorType
<1>2. s \in Seq(AtomBuf)
  BY Vectors
<1> HIDE DEF b, buf, s
<1>3. Len(s) + 1 \in DOMAIN Append(s, buf) /\ Append(s, buf)[Len(s) + 1] = buf
  BY <1>2
<1>4. Len(heap) < U32 => u32(Len(heap)) = Len(heap)
  BY Casts
<1>5. Tidy(b)
  BY <1>1, <1>3, <1>4 DEF Tidy, EndsAt
<1>6. QED
  BY <1>5 DEF b

LEMMA PushesAddAtom ==
  ASSUME NEW a \in AllocatorType
  PROVE  /\ \A v \in Seq(Byte) : AddsAtom(a, PushBytes(a, v).a)
         /\ \A start, end : AddsAtom(a, PushAtom(a, a.u8_vec, start, end).a)
         /\ \A val : AddsAtom(a, PushSmall(a, val).a)
         /\ AddsAtom(a, Err(a).a)
<1>1. ASSUME NEW v \in Seq(Byte) PROVE AddsAtom(a, PushBytes(a, v).a)
  <2>1. a.u8_vec \in Seq(Byte)
    BY Vectors
  <2>2. a.u8_vec \o v \in Seq(Byte) /\ Len(a.u8_vec \o v) = Len(a.u8_vec) + Len(v)
    BY <2>1
  <2>3. QED
    BY <2>2, PushAddsAtom DEF PushBytes, AddsAtom
<1>2. ASSUME NEW start, NEW end PROVE AddsAtom(a, PushAtom(a, a.u8_vec, start, end).a)
  BY Zenon DEF PushAtom, Ok, AllocatorType, AddsAtom
<1>3. ASSUME NEW val PROVE AddsAtom(a, PushSmall(a, val).a)
  BY Zenon DEF PushSmall, Ok, AllocatorType, AddsAtom
<1>4. AddsAtom(a, Err(a).a)
  BY DEF Err, AddsAtom
<1>5. QED
  BY <1>1, <1>2, <1>3, <1>4

LEMMA NewAtomAdds ==
  ASSUME NEW a \in AllocatorType, NEW v \in Seq(Byte)
  PROVE  AddsAtom(a, new_atom(a, v).a)
BY PushesAddAtom DEF new_atom

LEMMA NewSmallNumberAdds ==
  ASSUME NEW a \in AllocatorType, NEW val
  PROVE  AddsAtom(a, new_small_number(a, val).a)
BY PushesAddAtom DEF new_small_number

LEMMA NewNumberAdds ==
  ASSUME NEW a \in AllocatorType, NEW val \in Int, NEW longest \in Nat \ {0},
         Powers(longest - 1)
  PROVE  AddsAtom(a, new_number(a, val, longest).a)
<1> DEFINE len == SignedLen(val, longest)
<1>1. len \in 0 .. longest
  BY SignedLenBound
<1> HIDE DEF len
<1>2. ToBytes(val, len) \in Seq(Byte)
  <2>1. len \in Nat /\ (len = 0 \/ Powers(len - 1))
    BY <1>1 DEF Powers
  <2>2. QED
    BY <2>1, ToBytesType
<1>3. QED
  BY <1>2, NewAtomAdds, NewSmallNumberAdds DEF new_number, len

LEMMA NewPairAdds ==
  ASSUME NEW a \in AllocatorType, NEW first, NEW rest
  PROVE  AddsAtom(a, new_pair(a, first, rest).a)
BY Zenon DEF new_pair, Ok, Err, AllocatorType, AddsAtom

LEMMA NewSubstrAdds ==
  ASSUME NEW a, Sound(a), NEW n \in NodePtr, Valid(a, n), NEW start \in Nat, NEW end \in Nat
  PROVE  AddsAtom(a, new_substr(a, n, start, end).a)
<1> DEFINE substr == SubSeq(Atom(a, n), start + 1, end)
<1>1. a \in AllocatorType
  BY DEF Sound
<1>2. ASSUME IsAtom(n), n.tag # "Bytes", bounds_check(start, end, atom_len(a, n))
      PROVE  substr \in Seq(Byte)
  <2>1. Readable(a, n)
    BY <1>2 DEF Readable
  <2>2. Atom(a, n) \in Seq(Byte) /\ Len(Atom(a, n)) = atom_len(a, n)
    BY <1>2, <2>1, AtomBytes
  <2>3. QED
    BY <1>2, <2>2 DEF bounds_check
<1> HIDE DEF substr
<1>3. QED
  BY <1>1, <1>2, PushesAddAtom DEF new_substr, substr

LEMMA CallIsTidy ==
  ASSUME IInv, TidyInv, concat = <<>>, UNCHANGED <<saved, concat>>,
         Grows(alloc, alloc'), AddsAtom(alloc, alloc')
  PROVE  TidyInv'
<1>1. alloc \in AllocatorType /\ alloc' \in AllocatorType /\ PrefixOf(alloc, alloc')
  BY DEF IInv, Grows, Sound
<1>2. Tidy(alloc)'
  BY <1>1, StillEndsAt DEF AddsAtom, TidyInv, Tidy
<1>3. QED
  BY <1>2 DEF TidyInv

LEMMA TidyStep ==
  ASSUME IInv, TidyInv, Next
  PROVE  TidyInv'
<1>0. Sound(alloc) /\ alloc \in AllocatorType /\ TypeOK
  BY DEF IInv, Sound
<1>1. CASE NewAtom
  <2>1. PICK v \in ByteStrings : Call(new_atom(alloc, v))
    BY <1>1 DEF NewAtom
  <2>2. v \in Seq(Byte)
    BY ClientAssumption
  <2>3. QED
    BY <1>0, <2>1, <2>2, NewAtomMakes, NewAtomAdds, CallIsTidy DEF Call, MakesAtom, Makes
<1>2. CASE NewSmallNumber
  <2>1. PICK v \in Smalls : Call(new_small_number(alloc, v))
    BY <1>2 DEF NewSmallNumber
  <2>2. v \in Nat
    <3>1. v \in 0 .. NODE_PTR_IDX_MASK
      BY ClientAssumption, Zenon
    <3>2. QED
      BY <3>1
  <2>3. QED
    BY <1>0, <2>1, <2>2, NewSmallNumberMakes, NewSmallNumberAdds, CallIsTidy
       DEF Call, MakesAtom, Makes
<1>3. CASE NewNumber
  <2>1. PICK v \in Numbers : Call(new_number(alloc, v, SMALL_LEN + 1))
    BY <1>3 DEF NewNumber
  <2>2. v \in Int
    BY ClientAssumption
  <2> DEFINE longest == SMALL_LEN + 1
  <2>3. longest \in Nat \ {0} /\ Powers(longest - 1) /\ Call(new_number(alloc, v, longest))
    BY <2>1, AllocatorAssumption DEF Powers
  <2> HIDE DEF longest
  <2>4. QED
    BY <1>0, <2>2, <2>3, NewNumberMakes, NewNumberAdds, CallIsTidy DEF Call, MakesAtom, Makes
<1>4. CASE NewPair
  <2>1. PICK first \in Arguments, rest \in Arguments : Call(new_pair(alloc, first, rest))
    BY <1>4 DEF NewPair
  <2>2. first \in NodePtr /\ rest \in NodePtr /\ Valid(alloc, first) /\ Valid(alloc, rest)
    BY <1>0, ArgumentsAreValid
  <2>3. QED
    BY <1>0, <2>1, <2>2, NewPairGrows, NewPairAdds, CallIsTidy DEF Call
<1>5. CASE NewSubstr
  <2>1. PICK n \in Arguments, start \in 0 .. MaxEnd, end \in 0 .. MaxEnd :
          Call(new_substr(alloc, n, start, end))
    BY <1>5 DEF NewSubstr
  <2>2. n \in NodePtr /\ Valid(alloc, n) /\ start \in Nat /\ end \in Nat
    BY <1>0, ArgumentsAreValid, ClientAssumption
  <2>3. QED
    BY <1>0, <2>1, <2>2, NewSubstrMakes, NewSubstrAdds, CallIsTidy DEF Call, MakesAtom, Makes
<1>6. CASE NewConcat
  <2>1. /\ concat = <<>> /\ concat' # <<>> /\ concat'[1].start = Len(alloc.u8_vec)
        /\ alloc' = alloc /\ saved' = saved
    BY <1>6 DEF NewConcat
  <2>2. QED
    BY <2>1 DEF TidyInv, Tidy
<1>7. CASE ConcatAppend
  <2>1. concat # <<>> /\ saved' = saved /\ alloc'.atom_vec = alloc.atom_vec
    BY <1>0, <1>7 DEF ConcatAppend, concat_append, AllocatorType
  <2>2. concat' # <<>> /\ concat'[1].start = concat[1].start
    <3>1. concat[1] \in ConcatCall
      BY <2>1, ConcatFacts
    <3>2. QED
      BY <1>7, <3>1 DEF ConcatAppend, ConcatCall
  <2>3. QED
    BY <2>1, <2>2 DEF TidyInv, EndsAt
<1>8. CASE ConcatFail
  <2>1. /\ concat # <<>> /\ concat' = <<>> /\ saved' = saved
        /\ alloc'.atom_vec = alloc.atom_vec
        /\ alloc'.u8_vec = SubSeq(alloc.u8_vec, 1, concat[1].start)
    BY <1>0, <1>8 DEF ConcatFail, concat_truncate, AllocatorType
  <2>2. alloc.u8_vec \in Seq(Byte) /\ concat[1].start \in 0 .. Len(alloc.u8_vec)
    BY <2>1, ConcatFacts DEF IInv, ConcatOK
  <2>3. Len(alloc'.u8_vec) = concat[1].start
    BY <2>1, <2>2, SubSeqPrefix
  <2>4. QED
    BY <2>1, <2>3 DEF TidyInv, Tidy, EndsAt
<1>9. CASE ConcatFinish
  <2>1. /\ concat # <<>> /\ concat' = <<>> /\ saved' = saved
        /\ alloc' = PushAtom(alloc, alloc.u8_vec, concat[1].start, Len(alloc.u8_vec)).a
    BY <1>9 DEF ConcatFinish, concat_finish
  <2>2. Tidy(alloc')
    BY <1>0, <2>1, Vectors, PushAddsAtom
  <2>3. QED
    BY <2>1, <2>2 DEF TidyInv
<1>10. CASE TakeCheckpoint
  <2> DEFINE entry == [cp |-> checkpoint(alloc), was |-> alloc]
  <2>1. /\ concat = <<>> /\ alloc' = alloc /\ concat' = concat
        /\ saved' = Append(saved, entry) /\ entry.was = alloc
    BY <1>10 DEF TakeCheckpoint
  <2>2. saved \in Seq(SavedEntry)
    BY <1>0 DEF TypeOK, SavedEntry
  <2> HIDE DEF entry
  <2>3. \A i \in DOMAIN saved' :
          (i \in DOMAIN saved /\ saved'[i] = saved[i]) \/ saved'[i] = entry
    BY <2>1, <2>2
  <2>4. QED
    BY <2>1, <2>3, Zenon DEF TidyInv
<1>11. CASE RestoreCheckpoint
  <2>1. PICK i \in 1 .. Len(saved) :
          /\ concat = <<>> /\ alloc' = restore_checkpoint(alloc, saved[i].cp)
          /\ saved' = SubSeq(saved, 1, i) /\ concat' = concat
    BY <1>11 DEF RestoreCheckpoint
  <2>2. saved \in Seq(SavedEntry) /\ i \in DOMAIN saved
    BY <1>0 DEF TypeOK, SavedEntry
  <2>3. \A k \in DOMAIN saved' : k \in DOMAIN saved /\ saved'[k] = saved[k]
    BY <2>1, <2>2
  <2>4. alloc' = saved[i].was
    <3>1. /\ saved[i].was \in AllocatorType /\ PrefixOf(saved[i].was, alloc)
          /\ saved[i].cp = checkpoint(saved[i].was)
      BY <2>2 DEF IInv, SavedOK, Sound
    <3>2. QED
      BY <1>0, <2>1, <3>1, RestoreGivesPrefix
  <2>5. QED
    BY <2>1, <2>2, <2>3, <2>4, Zenon DEF TidyInv
<1>12. QED
  BY <1>1, <1>2, <1>3, <1>4, <1>5, <1>6, <1>7, <1>8, <1>9, <1>10, <1>11 DEF Next

\* Between calls the heap ends with an atom: a new_concat that fails half-way
\* takes back all the bytes it has appended, and a restore cuts the heap where
\* it cuts the atoms.
THEOREM HeapEndsWithAnAtom == Spec => []NoStrayBytes
<1>1. Init => TidyInv
  BY DEF Init, new_limited, TidyInv, Tidy, EndsAt
<1>2. TidyInv /\ UNCHANGED vars => TidyInv'
  BY DEF vars, TidyInv
<1>3. IInv /\ TidyInv /\ [Next]_vars => TidyInv'
  BY <1>2, TidyStep
<1>4. IInv /\ TidyInv => NoStrayBytes
  <2> SUFFICES ASSUME IInv, TidyInv, concat = <<>>, Addressable(alloc), alloc.u8_vec # <<>>
               PROVE  \E i \in DOMAIN alloc.atom_vec :
                        alloc.atom_vec[i].end = Len(alloc.u8_vec)
    BY DEF NoStrayBytes
  <2>1. alloc.u8_vec \in Seq(Byte)
    BY Vectors DEF IInv, Sound
  <2>2. 0 < Len(alloc.u8_vec)
    BY <2>1
  <2>3. QED
    BY <2>2 DEF TidyInv, Tidy, EndsAt, Addressable
<1>5. QED
  BY <1>1, <1>3, <1>4, Invariance, PTL DEF Spec

-----------------------------------------------------------------------------
(* The allocator implements Arena.  A step that lets the allocator grow by *)
(* a node is New, one that lets only the heap grow or shrink is a stutter, *)
(* and a restore is GoBack because a checkpoint gives back the allocator   *)
(* it was taken of.                                                        *)

SmallPtr == [tag : {"SmallAtom"}, index : Nat]

SameNodes(a, b) ==
  Len(b.atom_vec) = Len(a.atom_vec) /\ Len(b.pair_vec) = Len(a.pair_vec)
AtomMore(a, b) ==
  Len(b.atom_vec) = Len(a.atom_vec) + 1 /\ Len(b.pair_vec) = Len(a.pair_vec)
PairMore(a, b) ==
  Len(b.atom_vec) = Len(a.atom_vec) /\ Len(b.pair_vec) = Len(a.pair_vec) + 1
OneMore(a, b) == SameNodes(a, b) \/ AtomMore(a, b) \/ PairMore(a, b)

-----------------------------------------------------------------------------
(* The store of an allocator.                                              *)

LEMMA HeapNodesValid ==
  ASSUME NEW a \in AllocatorType, NEW n
  PROVE  n \in HeapNodes(a) <=> n \in NodePtr /\ n.tag # "SmallAtom" /\ Valid(a, n)
<1>1. Len(a.atom_vec) \in Nat /\ Len(a.pair_vec) \in Nat
  BY Vectors
<1>2. ASSUME n \in HeapNodes(a)
      PROVE  n \in NodePtr /\ n.tag # "SmallAtom" /\ Valid(a, n)
  <2>1. CASE \E i \in 0 .. Len(a.atom_vec) - 1 : n = Node("Bytes", i)
    BY <1>1, <2>1, ValidCases DEF Node, NodePtr, ObjectType
  <2>2. CASE \E i \in 0 .. Len(a.pair_vec) - 1 : n = Node("Pair", i)
    BY <1>1, <2>2, ValidCases DEF Node, NodePtr, ObjectType
  <2>3. QED
    BY <1>2, <2>1, <2>2 DEF HeapNodes
<1>3. ASSUME n \in NodePtr, n.tag # "SmallAtom", Valid(a, n)
      PROVE  n \in HeapNodes(a)
  <2>1. n.index \in Nat /\ n = Node(n.tag, n.index)
    BY <1>3 DEF Node, NodePtr
  <2>2. CASE n.tag = "Bytes"
    <3>1. n.index \in 0 .. Len(a.atom_vec) - 1
      BY <1>1, <1>3, <2>1, <2>2, ValidCases
    <3>2. QED
      BY <2>1, <2>2, <3>1 DEF HeapNodes
  <2>3. CASE n.tag = "Pair"
    <3>1. n.index \in 0 .. Len(a.pair_vec) - 1
      BY <1>1, <1>3, <2>1, <2>3, ValidCases
    <3>2. QED
      BY <2>1, <2>3, <3>1 DEF HeapNodes
  <2>4. QED
    BY <1>3, <2>2, <2>3, ValidCases
<1>4. QED
  BY <1>2, <1>3

\* A node keeps its place in the store when the allocator grows.
LEMMA StoreGrows ==
  ASSUME NEW a, Sound(a), NEW b \in AllocatorType, PrefixOf(a, b),
         NEW n \in HeapNodes(a)
  PROVE  n \in HeapNodes(b) /\ Store(b)[n] = Store(a)[n]
<1>1. a \in AllocatorType
  BY DEF Sound
<1>2. n \in NodePtr /\ n.tag # "SmallAtom" /\ Valid(a, n)
  BY <1>1, HeapNodesValid
<1>3. Valid(b, n)
  BY <1>2, PrefixReads
<1>4. n \in HeapNodes(b)
  BY <1>2, <1>3, HeapNodesValid
<1>5. CASE n.tag = "Pair"
  <2>1. n.index + 1 \in 1 .. Len(a.pair_vec)
    BY <1>1, <1>2, <1>5, ValidCases, Vectors
  <2>2. a.pair_vec[n.index + 1] = b.pair_vec[n.index + 1]
    BY <2>1 DEF PrefixOf, PrefixSeq
  <2>3. QED
    BY <1>4, <1>5, <2>2 DEF Store
<1>6. CASE n.tag # "Pair"
  <2>1. (Readable(b, n) <=> Readable(a, n)) /\ (Readable(a, n) => Atom(b, n) = Atom(a, n))
    BY <1>2, <1>6, PrefixReads
  <2>2. QED
    BY <1>4, <1>6, <2>1, Zenon DEF Store
<1>7. QED
  BY <1>5, <1>6

LEMMA StoreSame ==
  ASSUME NEW a, Sound(a), NEW b \in AllocatorType, PrefixOf(a, b), SameNodes(a, b)
  PROVE  Store(a) = Store(b)
<1>1. HeapNodes(a) = HeapNodes(b)
  BY DEF HeapNodes, SameNodes
<1>2. \A n \in HeapNodes(a) : Store(b)[n] = Store(a)[n]
  BY StoreGrows
<1>3. /\ Store(a) = [n \in HeapNodes(a) |-> Store(a)[n]]
      /\ Store(b) = [n \in HeapNodes(b) |-> Store(b)[n]]
  BY DEF Store
<1>4. QED
  BY <1>1, <1>2, <1>3

\* The node an allocator has more than the one it grew from.
LEMMA NewNode ==
  ASSUME NEW a \in AllocatorType, NEW b \in AllocatorType,
         AtomMore(a, b) \/ PairMore(a, b)
  PROVE  \E n \in HeapNodes(b) \ HeapNodes(a) : HeapNodes(b) = HeapNodes(a) \cup {n}
<1>1. Len(a.atom_vec) \in Nat /\ Len(a.pair_vec) \in Nat
  BY Vectors
<1>2. CASE AtomMore(a, b)
  <2> DEFINE n == Node("Bytes", Len(a.atom_vec))
  <2>1. 0 .. Len(b.atom_vec) - 1 = (0 .. Len(a.atom_vec) - 1) \cup {Len(a.atom_vec)}
    BY <1>1, <1>2 DEF AtomMore
  <2>2. HeapNodes(b) = HeapNodes(a) \cup {n}
    BY <1>2, <2>1 DEF AtomMore, HeapNodes
  <2>3. n \notin HeapNodes(a)
    <3>1. n \in NodePtr /\ n.tag = "Bytes" /\ n.index = Len(a.atom_vec)
      BY <1>1 DEF Node, NodePtr, ObjectType
    <3>2. ~Valid(a, n)
      BY <1>1, <3>1, ValidCases
    <3>3. QED
      BY <3>2, HeapNodesValid
  <2>4. QED
    BY <2>2, <2>3
<1>3. CASE PairMore(a, b)
  <2> DEFINE n == Node("Pair", Len(a.pair_vec))
  <2>1. 0 .. Len(b.pair_vec) - 1 = (0 .. Len(a.pair_vec) - 1) \cup {Len(a.pair_vec)}
    BY <1>1, <1>3 DEF PairMore
  <2>2. HeapNodes(b) = HeapNodes(a) \cup {n}
    BY <1>3, <2>1 DEF PairMore, HeapNodes
  <2>3. n \notin HeapNodes(a)
    <3>1. n \in NodePtr /\ n.tag = "Pair" /\ n.index = Len(a.pair_vec)
      BY <1>1 DEF Node, NodePtr, ObjectType
    <3>2. ~Valid(a, n)
      BY <1>1, <3>1, ValidCases
    <3>3. QED
      BY <3>2, HeapNodesValid
  <2>4. QED
    BY <2>2, <2>3
<1>4. QED
  BY <1>2, <1>3

\* What a node is made of: bytes, or two nodes other than itself.
LEMMA NodeContent ==
  ASSUME NEW a, Sound(a), NEW n \in HeapNodes(a)
  PROVE  Store(a)[n] \in [bytes : Seq(Byte)]
           \cup [first : (HeapNodes(a) \ {n}) \cup SmallPtr,
                 rest : (HeapNodes(a) \ {n}) \cup SmallPtr]
<1>1. a \in AllocatorType
  BY DEF Sound
<1>2. n \in NodePtr /\ n.tag # "SmallAtom" /\ Valid(a, n)
  BY <1>1, HeapNodesValid
<1>3. CASE n.tag = "Pair"
  <2> DEFINE i == n.index + 1
             p == a.pair_vec[i]
  <2>1. i \in DOMAIN a.pair_vec /\ p \in IntPair
    BY <1>1, <1>2, <1>3, ValidCases, Vectors
  <2>2. \A m \in {p.first, p.rest} :
          m \in NodePtr /\ Valid(a, m) /\ (m.tag = "Pair" => m.index + 1 < i)
    BY <2>1 DEF Sound, Pairs, IntPair
  <2>3. \A m \in {p.first, p.rest} : m \in (HeapNodes(a) \ {n}) \cup SmallPtr
    <3> SUFFICES ASSUME NEW m \in {p.first, p.rest}
                 PROVE  m \in (HeapNodes(a) \ {n}) \cup SmallPtr
      OBVIOUS
    <3>1. CASE m.tag = "SmallAtom"
      BY <2>2, <3>1 DEF NodePtr, SmallPtr
    <3>2. CASE m.tag # "SmallAtom"
      <4>1. m \in HeapNodes(a)
        BY <1>1, <2>2, <3>2, HeapNodesValid
      <4>2. m # n
        BY <1>2, <1>3, <2>2 DEF NodePtr
      <4>3. QED
        BY <4>1, <4>2
    <3>3. QED
      BY <3>1, <3>2
  <2>4. p \in [first : (HeapNodes(a) \ {n}) \cup SmallPtr,
               rest : (HeapNodes(a) \ {n}) \cup SmallPtr]
    BY <2>1, <2>3 DEF IntPair
  <2>5. Store(a)[n] = p
    BY <1>3 DEF Store
  <2>6. QED
    BY <2>4, <2>5
<1>4. CASE n.tag # "Pair"
  <2>1. (IF Readable(a, n) THEN Atom(a, n) ELSE <<>>) \in Seq(Byte)
    BY <1>2, <1>4, AtomBytes DEF IsAtom
  <2>2. QED
    BY <1>4, <2>1 DEF Store
<1>5. QED
  BY <1>3, <1>4

\* An allocator that has grown by a node at most.
LEMMA GrowthIsNew ==
  ASSUME NEW a, Sound(a), NEW b, Sound(b), PrefixOf(a, b), OneMore(a, b)
  PROVE  \/ Store(b) = Store(a)
         \/ \E n \in DOMAIN Store(b) \ DOMAIN Store(a) :
              /\ DOMAIN Store(b) = DOMAIN Store(a) \cup {n}
              /\ Store(b)[n] \in [bytes : Seq(Byte)]
                   \cup [first : DOMAIN Store(a) \cup SmallPtr,
                         rest : DOMAIN Store(a) \cup SmallPtr]
              /\ \A m \in DOMAIN Store(a) : Store(b)[m] = Store(a)[m]
<1>1. a \in AllocatorType /\ b \in AllocatorType
  BY DEF Sound
<1>2. DOMAIN Store(a) = HeapNodes(a) /\ DOMAIN Store(b) = HeapNodes(b)
  BY DEF Store
<1>3. CASE SameNodes(a, b)
  BY <1>1, <1>3, StoreSame
<1>4. CASE AtomMore(a, b) \/ PairMore(a, b)
  <2>1. PICK n \in HeapNodes(b) \ HeapNodes(a) : HeapNodes(b) = HeapNodes(a) \cup {n}
    BY <1>1, <1>4, NewNode
  <2>2. Store(b)[n] \in [bytes : Seq(Byte)]
           \cup [first : (HeapNodes(b) \ {n}) \cup SmallPtr,
                 rest : (HeapNodes(b) \ {n}) \cup SmallPtr]
    BY <2>1, NodeContent
  <2>3. HeapNodes(b) \ {n} = HeapNodes(a)
    BY <2>1
  <2>4. \A m \in HeapNodes(a) : Store(b)[m] = Store(a)[m]
    BY <1>1, StoreGrows
  <2>5. QED
    BY <1>2, <2>1, <2>2, <2>3, <2>4
<1>5. QED
  BY <1>3, <1>4, Zenon DEF OneMore

-----------------------------------------------------------------------------
(* Every call makes one node at most.                                      *)

LEMMA PushOneMore ==
  ASSUME NEW a \in AllocatorType
  PROVE  /\ \A heap, start, end : AtomMore(a, PushAtom(a, heap, start, end).a)
         /\ \A v : AtomMore(a, PushBytes(a, v).a)
         /\ \A val : SameNodes(a, PushSmall(a, val).a)
         /\ SameNodes(a, Err(a).a)
<1>1. ASSUME NEW heap, NEW start, NEW end
      PROVE  AtomMore(a, PushAtom(a, heap, start, end).a)
  <2> DEFINE buf == [start |-> u32(start), end |-> u32(end)]
             b == [a EXCEPT !.u8_vec = heap, !.atom_vec = Append(@, buf)]
  <2>1. b.atom_vec = Append(a.atom_vec, buf) /\ b.pair_vec = a.pair_vec
    BY DEF AllocatorType
  <2>2. Len(Append(a.atom_vec, buf)) = Len(a.atom_vec) + 1
    BY Vectors
  <2>3. PushAtom(a, heap, start, end).a = b
    BY DEF PushAtom, Ok
  <2>4. QED
    BY <2>1, <2>2, <2>3 DEF AtomMore
<1>2. \A v : AtomMore(a, PushBytes(a, v).a)
  BY <1>1 DEF PushBytes
<1>3. \A val : SameNodes(a, PushSmall(a, val).a)
  BY DEF PushSmall, Ok, SameNodes, AllocatorType
<1>4. SameNodes(a, Err(a).a)
  BY DEF Err, SameNodes
<1>5. QED
  BY <1>1, <1>2, <1>3, <1>4

LEMMA NewAtomOneMore ==
  ASSUME NEW a \in AllocatorType, NEW v
  PROVE  OneMore(a, new_atom(a, v).a)
BY PushOneMore DEF new_atom, OneMore

LEMMA NewSmallNumberOneMore ==
  ASSUME NEW a \in AllocatorType, NEW val
  PROVE  OneMore(a, new_small_number(a, val).a)
BY PushOneMore DEF new_small_number, OneMore

LEMMA NewNumberOneMore ==
  ASSUME NEW a \in AllocatorType, NEW val, NEW longest
  PROVE  OneMore(a, new_number(a, val, longest).a)
BY NewAtomOneMore, NewSmallNumberOneMore DEF new_number

LEMMA NewPairOneMore ==
  ASSUME NEW a \in AllocatorType, NEW first, NEW rest
  PROVE  OneMore(a, new_pair(a, first, rest).a)
<1> DEFINE pair == [first |-> first, rest |-> rest]
           b == [a EXCEPT !.pair_vec = Append(@, pair)]
<1>1. b.pair_vec = Append(a.pair_vec, pair) /\ b.atom_vec = a.atom_vec
  BY DEF AllocatorType
<1>2. Len(Append(a.pair_vec, pair)) = Len(a.pair_vec) + 1
  BY Vectors
<1>3. PairMore(a, b)
  BY <1>1, <1>2 DEF PairMore
<1>4. new_pair(a, first, rest).a = b \/ new_pair(a, first, rest).a = Err(a).a
  BY DEF new_pair, Ok
<1>5. QED
  BY <1>3, <1>4, PushOneMore DEF OneMore

LEMMA NewSubstrOneMore ==
  ASSUME NEW a \in AllocatorType, NEW n, NEW start, NEW end
  PROVE  OneMore(a, new_substr(a, n, start, end).a)
BY PushOneMore DEF new_substr, OneMore

-----------------------------------------------------------------------------
(* The steps of a client.                                                  *)

LEMMA MarksKept ==
  ASSUME saved' = saved
  PROVE  Marks' = Marks
BY DEF Marks

\* A call whose allocator has grown by a node at most.
LEMMA CallIsNew ==
  ASSUME IInv, IInv', saved' = saved, PrefixOf(alloc, alloc'), OneMore(alloc, alloc')
  PROVE  Abstract!New \/ UNCHANGED <<Store(alloc), Marks>>
<1>1. Sound(alloc) /\ Sound(alloc')
  BY DEF IInv
<1>2. Marks' = Marks
  BY MarksKept
<1>3. QED
  BY <1>1, <1>2, GrowthIsNew, Zenon DEF Abstract!New, Abstract!Contents, Abstract!Live, SmallPtr

\* The new_concat loop makes no node before it is through.
LEMMA ConcatIsNew ==
  ASSUME IInv, NewConcat \/ ConcatAppend \/ ConcatFail \/ ConcatFinish
  PROVE  Abstract!New \/ UNCHANGED <<Store(alloc), Marks>>
<1>0. Sound(alloc) /\ alloc \in AllocatorType
  BY DEF IInv, Sound
<1>1. CASE NewConcat
  BY <1>1 DEF NewConcat, Marks
<1>2. CASE ConcatAppend
  <2>1. alloc' = concat_append(alloc, concat[1]) /\ saved' = saved
    BY <1>2 DEF ConcatAppend
  <2>2. SameNodes(alloc, alloc')
    BY <1>0, <2>1 DEF concat_append, SameNodes, AllocatorType
  <2>3. IInv' /\ PrefixOf(alloc, alloc')
    BY <1>2, ConcatAppendStep
  <2>4. QED
    BY <2>1, <2>2, <2>3, CallIsNew DEF OneMore
<1>3. CASE ConcatFail
  <2>1. alloc' = concat_truncate(alloc, concat[1]) /\ saved' = saved
    BY <1>3 DEF ConcatFail
  <2>2. SameNodes(alloc', alloc)
    BY <1>0, <2>1 DEF concat_truncate, SameNodes, AllocatorType
  <2>3. Sound(alloc') /\ PrefixOf(alloc', alloc)
    BY <1>3, ConcatFailStep DEF IInv
  <2>4. Store(alloc') = Store(alloc)
    BY <1>0, <2>2, <2>3, StoreSame
  <2>5. QED
    BY <2>1, <2>4, MarksKept
<1>4. CASE ConcatFinish
  <2>1. alloc' = concat_finish(alloc, concat[1]).a /\ saved' = saved
    BY <1>4 DEF ConcatFinish
  <2>2. AtomMore(alloc, alloc')
    BY <1>0, <2>1, PushOneMore DEF concat_finish
  <2>3. IInv' /\ PrefixOf(alloc, alloc')
    BY <1>4, ConcatFinishStep
  <2>4. QED
    BY <2>1, <2>2, <2>3, CallIsNew DEF OneMore
<1>5. QED
  BY <1>1, <1>2, <1>3, <1>4

LEMMA CallsAreNew ==
  ASSUME IInv, NewAtom \/ NewSmallNumber \/ NewNumber \/ NewPair \/ NewSubstr
  PROVE  Abstract!New \/ UNCHANGED <<Store(alloc), Marks>>
<1>0. Sound(alloc) /\ alloc \in AllocatorType
  BY DEF IInv, Sound
<1>1. IInv'
  BY NextStep DEF Next
<1>2. saved' = saved /\ OneMore(alloc, alloc')
  BY <1>0, NewAtomOneMore, NewSmallNumberOneMore, NewNumberOneMore, NewPairOneMore,
     NewSubstrOneMore
     DEF NewAtom, NewSmallNumber, NewNumber, NewPair, NewSubstr, Call
<1>3. PrefixOf(alloc, alloc') \/ PrefixOf(alloc', alloc)
  BY NextStep DEF Next
<1>4. CASE PrefixOf(alloc, alloc')
  BY <1>1, <1>2, <1>4, CallIsNew
<1>5. CASE PrefixOf(alloc', alloc)
  <2>1. alloc' \in AllocatorType /\ Sound(alloc')
    BY <1>1 DEF IInv, Sound
  <2>2. SameNodes(alloc', alloc)
    BY <1>0, <1>2, <1>5, <2>1, Vectors
       DEF OneMore, SameNodes, AtomMore, PairMore, PrefixOf, PrefixSeq
  <2>3. Store(alloc') = Store(alloc)
    BY <1>0, <1>5, <2>1, <2>2, StoreSame
  <2>4. QED
    BY <1>2, <2>3, MarksKept
<1>6. QED
  BY <1>3, <1>4, <1>5

LEMMA MarksSeq ==
  ASSUME IInv
  PROVE  /\ saved \in Seq(SavedEntry) /\ Len(saved) \in Nat
         /\ DOMAIN Marks = 1 .. Len(saved)
         /\ \E S : Marks \in Seq(S) /\ Store(alloc) \in S
         /\ Len(Marks) = Len(saved)
         /\ \A i \in 1 .. Len(saved) : Marks[i] = Store(saved[i].was)
<1>1. saved \in Seq(SavedEntry) /\ Len(saved) \in Nat /\ DOMAIN saved = 1 .. Len(saved)
  BY DEF IInv, TypeOK, SavedEntry
<1>2. DOMAIN Marks = 1 .. Len(saved) /\ \A i \in 1 .. Len(saved) : Marks[i] = Store(saved[i].was)
  BY <1>1 DEF Marks
<1> DEFINE S == {Store(saved[i].was) : i \in 1 .. Len(saved)} \cup {Store(alloc)}
<1>3. Marks \in [1 .. Len(saved) -> S]
  BY <1>1 DEF Marks
<1>4. Marks \in Seq(S) /\ Store(alloc) \in S
  BY <1>1, <1>3
<1>5. Len(Marks) = Len(saved)
  BY <1>1, <1>2, <1>4
<1>6. QED
  BY <1>1, <1>2, <1>4, <1>5

LEMMA CheckpointIsMark ==
  ASSUME IInv, TakeCheckpoint
  PROVE  Abstract!Mark
<1> DEFINE entry == [cp |-> checkpoint(alloc), was |-> alloc]
           n == Len(saved)
<1>1. alloc' = alloc /\ saved' = Append(saved, entry) /\ entry.was = alloc
  BY DEF TakeCheckpoint
<1>2. n \in Nat /\ saved \in Seq(SavedEntry)
  BY MarksSeq
<1>3. PICK S : Marks \in Seq(S) /\ Store(alloc) \in S
  BY MarksSeq
<1>4. /\ DOMAIN saved' = 1 .. n + 1 /\ saved'[n + 1] = entry
      /\ \A i \in 1 .. n : saved'[i] = saved[i]
  BY <1>1, <1>2
<1>5. /\ DOMAIN Marks' = 1 .. n + 1 /\ Marks'[n + 1] = Store(alloc)
      /\ \A i \in 1 .. n : Marks'[i] = Store(saved[i].was)
  BY <1>1, <1>2, <1>4 DEF Marks
<1>6. Marks' = [i \in 1 .. n + 1 |-> Marks'[i]]
  BY <1>4 DEF Marks
<1> DEFINE longer == Append(Marks, Store(alloc))
<1>7. /\ longer = [i \in 1 .. n + 1 |-> longer[i]] /\ longer[n + 1] = Store(alloc)
      /\ \A i \in 1 .. n : longer[i] = Marks[i]
  <2>1. Len(Marks) = n
    BY MarksSeq
  <2>2. longer \in Seq(S) /\ Len(longer) = n + 1 /\ longer[n + 1] = Store(alloc)
        /\ PrefixSeq(Marks, longer)
    BY <1>3, <2>1, AppendPrefix
  <2> HIDE DEF longer, n
  <2>3. QED
    BY <2>1, <2>2 DEF PrefixSeq
<1> HIDE DEF longer
<1>8. \A i \in 1 .. n + 1 : Marks'[i] = longer[i]
  <2> SUFFICES ASSUME NEW i \in 1 .. n + 1 PROVE Marks'[i] = longer[i]
    OBVIOUS
  <2>1. CASE i \in 1 .. n
    <3>1. Marks[i] = Store(saved[i].was)
      BY <2>1, MarksSeq
    <3>2. QED
      BY <1>5, <1>7, <2>1, <3>1
  <2>2. CASE i = n + 1
    BY <1>5, <1>7, <2>2
  <2>3. QED
    BY <1>2, <2>1, <2>2
<1>9. Marks' = longer
  BY <1>6, <1>7, <1>8
<1>10. QED
  BY <1>1, <1>9 DEF Abstract!Mark, longer

LEMMA RestoreIsGoBack ==
  ASSUME IInv, RestoreCheckpoint
  PROVE  Abstract!GoBack
<1>1. PICK i \in 1 .. Len(saved) :
        alloc' = restore_checkpoint(alloc, saved[i].cp) /\ saved' = SubSeq(saved, 1, i)
  BY DEF RestoreCheckpoint
<1>2. Len(saved) \in Nat /\ saved \in Seq(SavedEntry) /\ i \in DOMAIN saved
  BY MarksSeq
<1>3. alloc' = saved[i].was
  <2>1. /\ saved[i].was \in AllocatorType /\ alloc \in AllocatorType
        /\ PrefixOf(saved[i].was, alloc) /\ saved[i].cp = checkpoint(saved[i].was)
    BY <1>2 DEF IInv, SavedOK, Sound
  <2>2. QED
    BY <1>1, <2>1, RestoreGivesPrefix
<1>4. PICK S : Marks \in Seq(S) /\ Store(alloc) \in S
  BY MarksSeq
<1>5. DOMAIN saved' = 1 .. i /\ \A k \in 1 .. i : saved'[k] = saved[k]
  BY <1>1, <1>2
<1>6. /\ Marks' = [k \in 1 .. i |-> Marks'[k]]
      /\ \A k \in 1 .. i : Marks'[k] = Store(saved[k].was)
  BY <1>5 DEF Marks
<1> DEFINE shorter == SubSeq(Marks, 1, i)
<1>7. /\ shorter = [k \in 1 .. i |-> shorter[k]]
      /\ \A k \in 1 .. i : shorter[k] = Marks[k]
  BY <1>2, <1>4, MarksSeq
<1>8. \A k \in 1 .. i : Marks[k] = Store(saved[k].was)
  BY <1>2, MarksSeq
<1>9. Marks' = shorter
  BY <1>6, <1>7, <1>8
<1>10. Store(alloc') = Marks[i] /\ i \in DOMAIN Marks
  BY <1>2, <1>3, <1>8, MarksSeq
<1>11. QED
  BY <1>9, <1>10 DEF Abstract!GoBack

LEMMA InitIsInit == Init => Abstract!Init
<1> SUFFICES ASSUME Init PROVE Abstract!Init
  OBVIOUS
<1>1. alloc.atom_vec = <<>> /\ alloc.pair_vec = <<>> /\ saved = <<>>
  BY DEF Init, new_limited
<1>2. HeapNodes(alloc) = {}
  BY <1>1 DEF HeapNodes
<1>3. DOMAIN Store(alloc) = {}
  BY <1>2 DEF Store
<1>4. Marks = <<>>
  BY <1>1 DEF Marks
<1>5. QED
  BY <1>3, <1>4 DEF Abstract!Init

\* The allocator, with its vectors, limits and truncations, is a store of
\* immutable nodes to everyone who calls it: every step of AllocatorClient
\* makes one node of nodes that are there, marks the store, goes back to the
\* store of a mark, or changes nothing.
THEOREM AllocatorImplementsArena == Spec => ImplementsArena
<1>1. IInv /\ [Next]_vars => [Abstract!Next]_<<Store(alloc), Marks>>
  <2> SUFFICES ASSUME IInv, [Next]_vars
               PROVE  Abstract!Next \/ UNCHANGED <<Store(alloc), Marks>>
    OBVIOUS
  <2>1. CASE UNCHANGED vars
    BY <2>1 DEF vars, Marks
  <2>2. CASE Next
    BY <2>2, ConcatIsNew, CallsAreNew, CheckpointIsMark, RestoreIsGoBack
       DEF Next, Abstract!Next
  <2>3. QED
    BY <2>1, <2>2
<1>2. QED
  BY <1>1, InitIsInit, Invariance, PTL DEF Spec, ImplementsArena, Abstract!Spec
=============================================================================
