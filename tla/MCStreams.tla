------------------------------ MODULE MCStreams ------------------------------
(***************************************************************************)
(* A buffer that grows a byte at a time, given to every reader after each  *)
(* byte; and, in behaviours of their own, an atom of any size written to a *)
(* channel that may lose the end of it.                                    *)
(***************************************************************************)
EXTENDS Streams

CONSTANTS
  Bytes,    \* the bytes a buffer is made of
  Starts,   \* what it starts with, a bound on the bytes that follow, and the
            \* allocator it is read into
  Atoms     \* the atoms written to the channel, [size, atom_0]

ASSUME StreamsAssumption ==
  /\ Bytes \subseteq 0 .. 255
  /\ \A s \in Starts : s.more \in Nat
  /\ Atoms \subseteq [size : Size, atom_0 : 0 .. 255]

VARIABLES
  blob, alloc,  \* the buffer, and the arena it is read into
  more,         \* how many more bytes may arrive
  result,       \* what every reader made of the buffer
  atom,         \* the atom written, in a sequence
  stream,       \* what is left of it in the channel, in a sequence
  truncated,    \* the end was lost
  read          \* what the readers returned, in a sequence

buffer == <<blob, alloc, more, result>>
channel == <<atom, stream, truncated, read>>
vars == <<buffer, channel>>

\* Every reader on the same bytes.
Readers(a, b) ==
  [de |-> node_from_stream(a, b),
   br |-> node_from_stream_backrefs(a, b),
   length |-> serialized_length_from_bytes(b),
   trusted |-> serialized_length_from_bytes_trusted(b),
   hash |-> tree_hash_from_stream(b),
   triples |-> parse_triples(b),
   sexp |-> sexp_from_stream(b),
   tuples |-> deserialize_as_tuples(b)]

Init ==
  /\ \E s \in Starts : blob = s.blob /\ more = s.more /\ alloc = s.alloc
  /\ result = Readers(alloc, blob)
  /\ atom = <<>> /\ stream = <<>> /\ truncated = FALSE /\ read = <<>>

\* external: one more byte arrives.  A tree that is complete gets at most
\* one byte that is not its own.
Grow ==
  /\ atom = <<>> /\ more > 0 /\ more' = more - 1
  /\ \A r \in {result.de, result.sexp} : r.ok => r.pos = Len(blob)
  /\ \E b \in Bytes : blob' = Append(blob, b)
  /\ result' = Readers(alloc, blob')
  /\ UNCHANGED <<alloc, channel>>

\* write_atom, which fails before it writes a byte.
WriteAtom(a) ==
  LET p == prefix(a)
  IN  /\ atom = <<>> /\ blob = <<>>
      /\ atom' = <<a>>
      /\ stream' = IF ~p.ok THEN <<>>
                   ELSE IF Plain(a) THEN <<[head |-> <<a.atom_0>>, content |-> Zero]>>
                   ELSE <<[head |-> p.value, content |-> a.size]>>
      /\ UNCHANGED <<buffer, truncated, read>>

\* external: the buffer the reader is given ends early.
Truncate ==
  /\ stream # <<>> /\ ~truncated /\ read = <<>>
  /\ \/ \E n \in 0 .. Len(stream[1].head) - 1 :
          stream' = <<[head |-> SubSeq(stream[1].head, 1, n), content |-> Zero]>>
     \/ /\ stream[1].content.low > 0
        /\ stream' = <<[stream[1] EXCEPT !.content.low = @ - 1]>>
  /\ truncated' = TRUE
  /\ UNCHANGED <<buffer, atom, read>>

Parse ==
  /\ stream # <<>> /\ read = <<>>
  /\ read' = <<[slice |-> parse_atom_ptr_size(stream[1]),
                node |-> parse_atom_size(stream[1])]>>
  /\ UNCHANGED <<buffer, atom, stream, truncated>>

Next == Grow \/ (\E a \in Atoms : WriteAtom(a)) \/ Truncate \/ Parse

Spec == Init /\ [][Next]_vars

-----------------------------------------------------------------------------
(* The instance.                                                           *)

Near(h, l) == {[high |-> IF x < 0 THEN h - 1 ELSE h, low |-> x % LOW] : x \in (l - 2) .. (l + 2)}

\* Sizes around every boundary of the encoding.
SomeAtoms ==
  [size : {[high |-> 0, low |-> x] : x \in 0 .. 4}
          \cup UNION {Near(0, l) : l \in {64, 256, 8192, 65536, 1048576}}
          \cup UNION {Near(h, 0) : h \in {1, 8, 256, 1024}}
          \cup {[high |-> 255, low |-> LOW - x] : x \in 3 .. 7},
   atom_0 : {0, 1, 127, 128, 254, 255}]

SomeBytes == {0, 1, 2, 6, 128, 129, 192, 254, 255}

\* An arena with little room for bytes, atoms and pairs.
Tight ==
  [u8_vec |-> <<200, 2, 3, 4, 5, 6>>, atom_vec |-> <<[start |-> 0, end |-> 6]>>,
   pair_vec |-> [i \in 1 .. MAX_NUM_PAIRS - 5 |-> [first |-> nil, rest |-> Node("Bytes", 0)]],
   small_atoms |-> MAX_NUM_ATOMS - 3]

\* Nothing; and longer buffers: atoms with a size of seven bytes, and pairs
\* that are complete but for a back reference.
SomeStarts ==
  {[blob |-> <<>>, more |-> 6, alloc |-> new_limited], [blob |-> <<>>, more |-> 5, alloc |-> Tight]}
    \cup [blob : {<<254, 0, 0, 0, 0, 0>>, <<255, 254, 0, 0, 0, 0, 0, 1, 2>>,
                  <<255, 255, 129, 1, 2, 254>>, <<255, 255, 6, 129, 128, 254, 129>>,
                  <<255, 255, 255, 1, 128, 2, 254>>, <<255, 255, 1, 254, 2, 254>>,
                  <<255, 255, 1, 2, 255, 254, 2, 254>>},
          more : {3}, alloc : {new_limited, Tight}]

-----------------------------------------------------------------------------
(* Properties of the readers and the writer.                               *)

De == result.de
Br == result.br
DeNode == De.values[1]
BrNode == First(Br.a, Br.values)
Sexp == result.sexp.values[1]

RECURSIVE HashOf(_)
HashOf(t) == IF Len(t) = 1 THEN hash_atom(t[1]) ELSE hash_pair(HashOf(t[1]), HashOf(t[2]))

\* Reading leaves every node of the arena as it was, also when it fails
\* half-way (nothing is rolled back), and never passes a limit.
ReadersOnlyAdd ==
  \A a \in {De.a, Br.a} :
    /\ SubSeq(a.u8_vec, 1, Len(alloc.u8_vec)) = alloc.u8_vec
    /\ SubSeq(a.atom_vec, 1, Len(alloc.atom_vec)) = alloc.atom_vec
    /\ SubSeq(a.pair_vec, 1, Len(alloc.pair_vec)) = alloc.pair_vec
    /\ AtomCount(a) <= MAX_NUM_ATOMS /\ Len(a.pair_vec) <= MAX_NUM_PAIRS
    /\ Len(a.u8_vec) <= heap_limit

\* Six readers written one by one, in two languages, agree on which buffers
\* hold a tree, where it ends, which tree it is and what its hash is; the
\* two Python ones also take sizes of seven bytes.
SameTree ==
  /\ alloc = new_limited => (De.ok <=> result.hash.ok)
  /\ result.hash.ok <=> result.triples.ok
  /\ result.sexp.ok <=> result.tuples.ok
  /\ result.sexp.ok /\ ~result.hash.ok => \E i \in DOMAIN blob : blob[i] = BACK_REFERENCE
  /\ result.hash.ok => /\ result.sexp.ok
                       /\ result.sexp.pos = result.hash.pos
                       /\ result.triples = result.tuples
                       /\ result.hash.values = <<HashOf(Sexp)>>
  /\ result.sexp.ok => /\ result.tuples.pos = result.sexp.pos
                       /\ result.tuples.tree_hashes[1] = HashOf(Sexp)
  /\ De.ok => De.pos = result.hash.pos /\ Content(De.a, DeNode) = Sexp

\* A buffer is read exactly when the arena has room for its atoms, their
\* bytes and its pairs: nil and one are free in their short form, any other
\* small atom counts, and its length is tested against the heap too.
PairTriples == {i \in DOMAIN result.tuples.r : blob[result.tuples.r[i].start + 1] = CONS_BOX_MARKER}
NewAtoms == {i \in DOMAIN result.tuples.r \ PairTriples :
               blob[result.tuples.r[i].start + 1] \notin {1, 128}}
BytesOf(i) == LET t == result.tuples.r[i] IN SubSeq(blob, t.start + t.third + 1, t.end)
HeapBefore(i) ==
  LET upto[k \in 0 .. i - 1] ==
        IF k = 0 THEN Len(alloc.u8_vec)
        ELSE upto[k - 1] + (IF k \in NewAtoms /\ ~fits_in_small_atom(BytesOf(k))
                            THEN Len(BytesOf(k)) ELSE 0)
  IN  upto[i - 1]
RoomDecides ==
  De.ok <=> /\ result.hash.ok
            /\ Len(alloc.pair_vec) + Cardinality(PairTriples) <= MAX_NUM_PAIRS
            /\ AtomCount(alloc) + Cardinality(NewAtoms) <= MAX_NUM_ATOMS
            /\ \A i \in NewAtoms : HeapBefore(i) + Len(BytesOf(i)) <= heap_limit

\* The arena decides whether a good buffer is read, and reading only adds to
\* it, also when it stops half-way.
ArenaDecides == ReadersOnlyAdd /\ RoomDecides

\* serialized_length_from_bytes() on its own little arena foretells what the
\* reader of back references does on a real one: it accepts what that reader
\* accepts, with the same end, and refuses only what it refuses or has no
\* room for.  The trusted length is the same wherever both are defined, and a
\* buffer without back references is to this reader what it is to the other.
LengthForetellsReader ==
  /\ Br.ok => result.length.ok /\ Br.pos = result.length.pos
              /\ Len(Br.a.pair_vec) - Len(alloc.pair_vec) = Len(result.length.a.pair_vec)
  /\ result.length.ok => result.trusted.ok /\ result.trusted.pos = result.length.pos
  /\ result.length.ok /\ ~Br.ok =>
       \/ Len(alloc.pair_vec) + Len(result.length.a.pair_vec) > MAX_NUM_PAIRS
       \/ AtomCount(Br.a) = MAX_NUM_ATOMS
       \/ Len(Br.a.u8_vec) >= heap_limit - 1
  /\ result.hash.ok => result.length.ok /\ result.length.pos = result.hash.pos
  /\ De.ok /\ Br.ok => Content(De.a, DeNode) = Content(Br.a, BrNode)

\* Every triple is about a subtree: its bytes are a serialization of it that
\* ends where the triple says, its children are the next triple and the one
\* at the right index, and its hash is the hash of that subtree.
TriplesDescribeTree ==
  result.tuples.ok =>
    \A i \in DOMAIN result.tuples.r :
      LET t == result.tuples.r[i]
          SubtreeOf(u) == sexp_from_stream(SubSeq(blob, u.start + 1, u.end))
          sub == SubtreeOf(t)
      IN  /\ sub.ok /\ sub.pos = t.end - t.start
          /\ result.tuples.tree_hashes[i] = HashOf(sub.values[1])
          /\ IF i \in PairTriples
             THEN sub.values[1] = <<SubtreeOf(result.tuples.r[i + 1]).values[1],
                                    SubtreeOf(result.tuples.r[t.third + 1]).values[1]>>
             ELSE sub.values[1] = <<BytesOf(i)>>

\* The readers agree on the tree that a buffer holds, and the triples on each
\* of its subtrees too.
ReadersAgree == SameTree /\ TriplesDescribeTree

\* No reader looks past the end of its tree: bytes that follow change
\* nothing, and a tree that is complete ends with the byte that completed it.
NothingReadPastTheEnd ==
  [][\A r \in DOMAIN result :
       /\ result[r].ok => result'[r] = result[r]
       /\ ~result[r].ok /\ result'[r].ok => result'[r].pos = Len(blob')]_<<blob, result>>

\* What the writer writes for a tree reads back as that tree, is no longer
\* than what the tree was read from, and is written whole exactly when it is
\* not longer than the limit.
Unlimited == 100
Written(a, n) == node_to_bytes_limit(a, n, Unlimited).out
WrittenReadsBack(a, n) ==
  LET out == Written(a, n)
      back == sexp_from_stream(out)
  IN  /\ back.ok /\ back.pos = Len(out) /\ back.values[1] = Content(a, n)
      /\ node_to_bytes_limit(a, n, Len(out)).out = out
      /\ \A limit \in 0 .. Len(out) - 1 : ~node_to_bytes_limit(a, n, limit).ok
WriterRoundTrips ==
  /\ De.ok => WrittenReadsBack(De.a, DeNode) /\ Len(Written(De.a, DeNode)) <= De.pos
  /\ Br.ok => WrittenReadsBack(Br.a, BrNode)

\* A pair of the tree that is met on two ways down lies below a node that was
\* recorded as the target of a back reference: whoever uses the record (to
\* find shared subtrees) misses none.
RECURSIVE Ways(_, _, _)
Ways(a, n, from) ==
  (IF n = from THEN 1 ELSE 0)
    + (IF IsAtom(from) THEN 0 ELSE Ways(a, n, First(a, from)) + Ways(a, n, Rest(a, from)))
SharingIsRecorded ==
  Br.ok => \A i \in Len(alloc.pair_vec) .. Len(Br.a.pair_vec) - 1 :
             Ways(Br.a, Node("Pair", i), BrNode) > 1 =>
               \E m \in Br.backrefs : Ways(Br.a, Node("Pair", i), m) > 0

-----------------------------------------------------------------------------
(* Properties of the channel.                                              *)

\* parse_atom_ptr() finds the size write_atom() wrote, on both sides of every
\* boundary between prefix lengths, and takes no buffer that ends early;
\* parse_atom() makes an atom of that size whenever an allocator can hold one
\* (write_atom() goes on to 2^34 bytes).
SizeRoundTrips ==
  read # <<>> =>
    IF truncated THEN ~read[1].slice.ok /\ ~read[1].node.ok
    ELSE /\ read[1].slice.ok /\ read[1].slice.value = atom[1].size
         /\ read[1].node = IF AtLeast(MaxAtom, atom[1].size) THEN read[1].slice
                                                              ELSE Refused

\* serialized_length_atom(), which decides whether a back reference pays, is
\* the number of bytes write_atom() writes, as a u32, for every atom that an
\* allocator can hold.  (That number is itself no u32 for the four largest,
\* 2^32 - 5 to 2^32 - 2 bytes: the result is then less than 4.)
LengthIsWhatIsWritten ==
  (stream # <<>> /\ ~truncated /\ AtLeast(MaxAtom, atom[1].size)) =>
    serialized_length_atom(atom[1]) =
      U32Size(Plus(stream[1].content, Len(stream[1].head)))

\* No atom starts with the byte by which every reader tells a pair (0xff) or
\* a back reference (0xfe), so an atom is never read as one of them.
NoMarker == stream # <<>> /\ stream[1].head # <<>> => stream[1].head[1] < 254

\* An atom of any size is read as what was written, is as long as foretold,
\* and is never mistaken for something else.
AtomsRoundTrip == SizeRoundTrips /\ LengthIsWhatIsWritten /\ NoMarker
=============================================================================
