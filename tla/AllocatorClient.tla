--------------------------- MODULE AllocatorClient ---------------------------
(***************************************************************************)
(* An allocator and a client that calls every operation of it in any       *)
(* order, takes checkpoints and restores them the way run_program does: a  *)
(* restore goes back to a checkpoint that is still on the client's stack,  *)
(* and forgets the ones taken after it.  Calls do not overlap: while a     *)
(* new_concat is in its loop nothing else runs.                            *)
(*                                                                         *)
(* `saved' holds, with each checkpoint, the allocator it was taken of.     *)
(* The program has no such copy: it is there to state what a checkpoint    *)
(* stands for.                                                             *)
(***************************************************************************)
EXTENDS Allocator

CONSTANTS
  ByteStrings,  \* what is passed to new_atom
  Numbers,      \* what is passed to new_number
  Smalls,       \* the values of the small atoms that calls are made with
  MaxEnd,       \* largest bound passed to new_substr
  MaxOperands,  \* most nodes passed to new_concat
  MaxSize,      \* largest size passed to new_concat
  MaxNodes,     \* most nodes of an arena with pairs, small atoms included
  MaxSaved      \* most checkpoints held at a time

ASSUME ClientAssumption ==
  /\ ByteStrings \subseteq Seq(Byte)
  /\ Numbers \subseteq Int
  /\ Smalls \subseteq 0 .. NODE_PTR_IDX_MASK
  /\ {MaxEnd, MaxOperands, MaxSize, MaxNodes, MaxSaved} \subseteq Nat

VARIABLES
  alloc,  \* the allocator
  saved,  \* the client's checkpoints, oldest first
  concat  \* the new_concat call in progress, or <<>>

vars == <<alloc, saved, concat>>

Lists(S, n) == UNION {[1 .. m -> S] : m \in 0 .. n}
NodeCount(a) == AtomCount(a) + Len(a.pair_vec)

\* The nodes of an allocator that take memory.
HeapNodes(a) ==
  {Node("Bytes", i) : i \in 0 .. Len(a.atom_vec) - 1}
    \union {Node("Pair", i) : i \in 0 .. Len(a.pair_vec) - 1}

\* All nodes that are valid now, and those that calls are made with.
Nodes == {Small(v) : v \in 0 .. NODE_PTR_IDX_MASK} \union HeapNodes(alloc)
Arguments == {Small(v) : v \in Smalls} \union HeapNodes(alloc)

Init ==
  /\ alloc = new_limited
  /\ saved = <<>>
  /\ concat = <<>>

\* A call that returns at once.  One that fails changes nothing: no step.
Call(r) ==
  /\ concat = <<>>
  /\ r.a # alloc
  /\ r.a.pair_vec # <<>> => NodeCount(r.a) <= MaxNodes
  /\ alloc' = r.a
  /\ UNCHANGED <<saved, concat>>

NewAtom == \E v \in ByteStrings : Call(new_atom(alloc, v))
NewSmallNumber == \E v \in Smalls : Call(new_small_number(alloc, v))
NewNumber == \E v \in Numbers : Call(new_number(alloc, v, SMALL_LEN + 1))
NewPair == \E first, rest \in Arguments : Call(new_pair(alloc, first, rest))
NewSubstr == \E n \in Arguments, start, end \in 0 .. MaxEnd :
               Call(new_substr(alloc, n, start, end))

NewConcat ==
  \E nodes \in Lists(Arguments, MaxOperands), size \in 0 .. MaxSize :
    /\ concat = <<>>
    /\ alloc.pair_vec # <<>> => NodeCount(alloc) < MaxNodes
    /\ concat_admitted(alloc, size)
    /\ concat' = <<[start |-> Len(alloc.u8_vec), new_size |-> size,
                    counter |-> 0, nodes |-> nodes]>>
    /\ UNCHANGED <<alloc, saved>>

\* One iteration of the loop that does not fail.  extend_from_within panics on
\* a buffer that ends before it starts: the client stops there.
ConcatAppend ==
  /\ concat # <<>>
  /\ LET c == concat[1]
     IN  /\ c.nodes # <<>>
         /\ ~concat_rejects(alloc, c)
         /\ Readable(alloc, Head(c.nodes))
         /\ alloc' = concat_append(alloc, c)
         /\ concat' = <<[c EXCEPT !.counter = @ + atom_len(alloc, Head(c.nodes)),
                                  !.nodes = Tail(@)]>>
         /\ UNCHANGED saved

\* An error in the loop, or a wrong total after it.
ConcatFail ==
  /\ concat # <<>>
  /\ LET c == concat[1]
     IN  /\ IF c.nodes # <<>> THEN concat_rejects(alloc, c)
                              ELSE c.counter # c.new_size
         /\ alloc' = concat_truncate(alloc, c)
         /\ concat' = <<>>
         /\ UNCHANGED saved

ConcatFinish ==
  /\ concat # <<>>
  /\ LET c == concat[1]
     IN  /\ c.nodes = <<>>
         /\ c.counter = c.new_size
         /\ alloc' = concat_finish(alloc, c).a
         /\ concat' = <<>>
         /\ UNCHANGED saved

TakeCheckpoint ==
  /\ concat = <<>>
  /\ Len(saved) < MaxSaved
  /\ saved' = Append(saved, [cp |-> checkpoint(alloc), was |-> alloc])
  /\ UNCHANGED <<alloc, concat>>

\* A checkpoint is borrowed, not consumed: it may be restored again.
RestoreCheckpoint ==
  \E i \in 1 .. Len(saved) :
    /\ concat = <<>>
    /\ RestoreAsserts(alloc, saved[i].cp)
    /\ alloc' = restore_checkpoint(alloc, saved[i].cp)
    /\ saved' = SubSeq(saved, 1, i)
    /\ UNCHANGED concat

Next ==
  \/ NewAtom \/ NewSmallNumber \/ NewNumber \/ NewPair \/ NewSubstr
  \/ NewConcat \/ ConcatAppend \/ ConcatFail \/ ConcatFinish
  \/ TakeCheckpoint \/ RestoreCheckpoint

Spec == Init /\ [][Next]_vars

-----------------------------------------------------------------------------
(* Properties.                                                             *)

\* The vectors hold what the structs of allocator.rs declare.
TypeOK ==
  /\ alloc \in AllocatorType
  /\ saved \in Seq([cp : [u8s : Nat, pairs : Nat, atoms : Nat,
                          small_atoms : Nat],
                    was : AllocatorType])
  /\ concat \in Seq(ConcatCall) /\ Len(concat) <= 1

\* check_atom_limit and new_pair test their limits with ==: that is enough,
\* because no operation, and no restore, ever jumps over a limit.
LimitsHold ==
  /\ AtomCount(alloc) <= MAX_NUM_ATOMS
  /\ Len(alloc.pair_vec) <= MAX_NUM_PAIRS

\* Every atom's buffer lies inside the heap, even right after a restore or a
\* concatenation that failed; and as long as the heap is addressable it does
\* not end before it starts, so that atom() and new_substr() find their slice.
BuffersInHeap ==
  \A i \in DOMAIN alloc.atom_vec :
    /\ alloc.atom_vec[i].end <= Len(alloc.u8_vec)
    /\ Addressable(alloc) => alloc.atom_vec[i].start <= alloc.atom_vec[i].end

\* The heap has no stray bytes: between calls it ends where some atom ends.  A
\* new_concat that gave up half-way took back all it had appended, and a
\* restore cuts atoms and bytes at the same place.
NoStrayBytes ==
  (concat = <<>> /\ Addressable(alloc) /\ alloc.u8_vec # <<>>) =>
    \E i \in DOMAIN alloc.atom_vec : alloc.atom_vec[i].end = Len(alloc.u8_vec)

\* The children of a pair are valid nodes older than the pair.  Hence the
\* node graph has no cycle, and no restore leaves a pair with a dead child.
PairsPointBack ==
  \A i \in DOMAIN alloc.pair_vec :
    \A n \in {alloc.pair_vec[i].first, alloc.pair_vec[i].rest} :
      /\ Valid(alloc, n)
      /\ n.tag = "Pair" => n.index + 1 < i

\* The arena is sound whatever was allocated, given up half-way or taken back:
\* its vectors hold what the structs declare, within the limits; every atom of
\* an addressable heap is a slice of it; the pairs make a graph without cycles
\* or dead ends.
ArenaIsSound == TypeOK /\ LimitsHold /\ BuffersInHeap /\ PairsPointBack

\* A checkpoint on the client's stack is the state it was taken in:
\* restore_checkpoint(), which only truncates, brings back that very
\* allocator, and its asserts do not fire.
CheckpointsRestore ==
  \A i \in DOMAIN saved :
    /\ RestoreAsserts(alloc, saved[i].cp)
    /\ restore_checkpoint(alloc, saved[i].cp) = saved[i].was

\* Equality of atoms does not depend on their representation: atom_eq(),
\* bytes_eq_int() and small_number() agree with the bytes, although the same
\* bytes may be a small atom or (new_concat, new_substr) a heap buffer.
AtomEqualityIsByteEquality ==
  concat = <<>> =>
    \A x, y \in {n \in Nodes : IsAtom(n) /\ Readable(alloc, n)} :
      /\ atom_eq(alloc, x, y) <=> Atom(alloc, x) = Atom(alloc, y)
      /\ Atom(alloc, x) = Atom(alloc, y) =>
           small_number(alloc, x) = small_number(alloc, y)
      /\ atom_len(alloc, x) = Len(Atom(alloc, x))

\* The arena as its clients see it: the nodes that take memory, and what they
\* are made of (an atom that cannot be read is one of no bytes).
Store(a) ==
  [n \in HeapNodes(a) |-> IF n.tag = "Pair" THEN a.pair_vec[n.index + 1]
                                           ELSE [bytes |-> IF Readable(a, n) THEN Atom(a, n)
                                                                    ELSE <<>>]]
Marks == [i \in DOMAIN saved |-> Store(saved[i].was)]

Abstract == INSTANCE Arena WITH
  Bytes <- Seq(Byte), Immediate <- [tag : {"SmallAtom"}, index : Nat],
  store <- Store(alloc), marks <- Marks

\* The allocator is a store of immutable nodes: however its calls succeed,
\* fail half-way (new_concat) and are undone by checkpoints, which are but
\* four lengths, a step adds one node made of nodes that are there, makes a
\* mark, goes back to the very store of a mark, or changes nothing.
ImplementsArena == Abstract!Spec

\* A node that a call returns has the bytes that were asked for, whether it
\* is a small atom, shares its parent's buffer or got one of its own: the
\* conversions to an index and back never lose a leading zero or a sign.
NewAtomsHaveTheirBytes ==
  concat = <<>> =>
    /\ \A v \in Lists(Byte, MaxEnd) :
         LET r == new_atom(alloc, v)
         IN  r.ok /\ Addressable(r.a) => Atom(r.a, r.node) = v
    /\ \A n \in Nodes, start, end \in 0 .. MaxEnd :
         LET r == new_substr(alloc, n, start, end)
         IN  r.ok /\ Addressable(r.a) =>
               Atom(r.a, r.node) = SubSeq(Atom(alloc, n), start + 1, end)

\* An atom is its bytes: those that were asked for are those that are read and
\* compared, however it is represented.
AtomsAreTheirBytes == NewAtomsHaveTheirBytes /\ AtomEqualityIsByteEquality

\* What the comment on heap_limit says ("may not grow past this").
HeapWithinLimit == Len(alloc.u8_vec) <= heap_limit
=============================================================================
