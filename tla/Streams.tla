------------------------------- MODULE Streams -------------------------------
(***************************************************************************)
(* Reading and writing serialized trees (src/serde: de, de_br, tools,      *)
(* de_tree, ser; and ser.py and de.py of the Python package).  A stream is *)
(* a sequence of bytes, a cursor the number of bytes read.                 *)
(*                                                                         *)
(* Every reader is a loop over a stack of operations, modelled by its Turn *)
(* and a recursive operator that takes turns until the stack is empty or   *)
(* an error (ok is false) ends it.  Stacks grow at the head.               *)
(*                                                                         *)
(* SHA-256 is taken to have no collisions: a hash is its preimage.         *)
(***************************************************************************)
EXTENDS PathTraversal, AtomCodec

MAX_SINGLE_BYTE == 127
BACK_REFERENCE == 254
CONS_BOX_MARKER == 255

hash_atom(buf) == <<1, buf>>
hash_pair(left, right) == <<2, left, right>>

Popped(s) == [s EXCEPT !.ops = Tail(@)]
Stopped(s) == [s EXCEPT !.ok = FALSE]
AtEnd(blob, s) == s.pos >= Len(blob)
Byte1(blob, s) == blob[s.pos + 1]

-----------------------------------------------------------------------------
(* Atoms (parse_atom.rs): [ok, pos, bytes].                                *)

NoAtom == [ok |-> FALSE, pos |-> 0, bytes |-> <<>>]

\* Bug: what is there is taken.
SliceOfWhatIsThere(blob, start, size) ==
  LET end == IF start + size.low > Len(blob) THEN Len(blob) ELSE start + size.low
  IN  IF size.high > 0 \/ start > Len(blob) THEN NoAtom
      ELSE [ok |-> TRUE, pos |-> end, bytes |-> SubSeq(blob, start + 1, end)]

\* The `size' bytes of the blob from position `start', if it has as many.
Slice(blob, start, size) ==
  IF size.high > 0 \/ start + size.low > Len(blob) THEN NoAtom
  ELSE [ok |-> TRUE, pos |-> start + size.low,
        bytes |-> SubSeq(blob, start + 1, start + size.low)]

\* The slice that a size, read from `pos', is that of.
Decoded(blob, pos, decoded) ==
  IF decoded.ok THEN Slice(blob, pos + decoded.value.offset - 1, decoded.value.size) ELSE NoAtom

\* The atom whose first byte, at `pos', has been read.
parse_atom_ptr(blob, pos, first_byte) ==
  IF first_byte <= MAX_SINGLE_BYTE
  THEN [ok |-> TRUE, pos |-> pos, bytes |-> <<first_byte>>]
  ELSE Decoded(blob, pos,
               decode_size_with_offset(first_byte, SubSeq(blob, pos + 1, Len(blob))))

\* What parse_atom returns: a result of the allocator, and where the atom ends.
Parsed(r, pos) == [ok |-> r.ok, a |-> r.a, node |-> r.node, pos |-> pos]
NewAtomOf(a, ptr) == Parsed(IF ptr.ok THEN new_atom(a, ptr.bytes) ELSE Err(a), ptr.pos)

\* Bug: one() is a new atom like any other.
ParseAtomCountsOne(a, blob, pos, first_byte) ==
  IF first_byte = 128 THEN Parsed(Ok(a, nil), pos)
  ELSE NewAtomOf(a, parse_atom_ptr(blob, pos, first_byte))

\* The node of that atom; nil() and one() are not new atoms.
parse_atom(a, blob, pos, first_byte) ==
  IF first_byte = 1 THEN Parsed(Ok(a, one), pos)
  ELSE IF first_byte = 128 THEN Parsed(Ok(a, nil), pos)
  ELSE NewAtomOf(a, parse_atom_ptr(blob, pos, first_byte))

parse_path(blob, pos) ==
  IF pos >= Len(blob) THEN NoAtom ELSE parse_atom_ptr(blob, pos + 1, blob[pos + 1])

\* A reader that meets a pair has three more things to do.
ReadPair(s) == [s EXCEPT !.pos = @ + 1, !.ops = <<"SExp", "SExp", "Cons">> \o @]

-----------------------------------------------------------------------------
(* Into an arena, without and with back references (de.rs, de_br.rs).      *)

TurnDe(blob, s, op) ==
  LET pair == new_pair(s.a, s.values[2], s.values[1])
      atom == parse_atom(s.a, blob, s.pos + 1, Byte1(blob, s))
  IN  IF op = "Cons"
      THEN [s EXCEPT !.ok = pair.ok, !.a = pair.a, !.values = <<pair.node>> \o Tail(Tail(@))]
      ELSE IF AtEnd(blob, s) THEN Stopped(s)
      ELSE IF Byte1(blob, s) = CONS_BOX_MARKER THEN ReadPair(s)
      ELSE [s EXCEPT !.ok = atom.ok, !.a = atom.a, !.pos = atom.pos,
                     !.values = <<atom.node>> \o @]

RECURSIVE LoopDe(_, _)
LoopDe(blob, s) ==
  IF s.ops = <<>> \/ ~s.ok THEN s ELSE LoopDe(blob, TurnDe(blob, Popped(s), Head(s.ops)))

node_from_stream(a, blob) ==
  LoopDe(blob, [ok |-> TRUE, pos |-> 0, ops |-> <<"SExp">>, a |-> a, values |-> <<>>])

\* The value stack is a list in the arena, so that a path can lead into it.
\* push() of a value that an operation r found.
PushValue(s, r, pos) ==
  LET pair == new_pair(r.a, r.node, s.values)
  IN  IF r.ok THEN [s EXCEPT !.ok = pair.ok, !.a = pair.a, !.values = pair.node, !.pos = pos]
      ELSE [s EXCEPT !.ok = FALSE, !.a = r.a]

\* The two values on top of the stack become one.
ConsValues(s) ==
  LET right == First(s.a, s.values)
      rest == Rest(s.a, s.values)
      root == new_pair(s.a, First(s.a, rest), right)
      pair == new_pair(root.a, root.node, Rest(s.a, rest))
  IN  IF root.ok THEN [s EXCEPT !.ok = pair.ok, !.a = pair.a, !.values = pair.node]
      ELSE Stopped(s)

\* What the path at s.pos + 1 leads to on the value stack.
BackReference(blob, s) ==
  LET path == parse_path(blob, s.pos + 1)
      found == traverse_path(s.a, path.bytes, s.values)
  IN  [ok |-> path.ok /\ found.ok, a |-> s.a, node |-> found.node, pos |-> path.pos]

\* Bug: only the last one is kept.
RecordLast(s, node) == [s EXCEPT !.backrefs = {node}]

\* The callback of node_from_bytes_backrefs_record.
Record(s, node) == [s EXCEPT !.backrefs = @ \cup {node}]

TurnBr(blob, s, op) ==
  LET b == Byte1(blob, s)
      ref == BackReference(blob, s)
      atom == parse_atom(s.a, blob, s.pos + 1, b)
  IN  IF op = "Cons" THEN ConsValues(s)
      ELSE IF AtEnd(blob, s) THEN Stopped(s)
      ELSE IF b = CONS_BOX_MARKER THEN ReadPair(s)
      ELSE IF b = BACK_REFERENCE
      THEN IF ref.ok THEN PushValue(Record(s, ref.node), ref, ref.pos)
                     ELSE Stopped(s)
      ELSE PushValue(s, atom, atom.pos)

RECURSIVE LoopBr(_, _)
LoopBr(blob, s) ==
  IF s.ops = <<>> \/ ~s.ok THEN s ELSE LoopBr(blob, TurnBr(blob, Popped(s), Head(s.ops)))

node_from_stream_backrefs(a, blob) ==
  LoopBr(blob, [ok |-> TRUE, pos |-> 0, ops |-> <<"SExp">>, a |-> a, values |-> nil,
                backrefs |-> {}])

-----------------------------------------------------------------------------
(* The length and the hash of a serialized tree (tools.rs).                *)

\* Bug: a back reference is not resolved, as in the trusted version.
TurnLengthUnresolved(blob, s, op) ==
  LET b == Byte1(blob, s)
      atom == IF b = BACK_REFERENCE THEN parse_path(blob, s.pos + 1)
              ELSE parse_atom_ptr(blob, s.pos + 1, b)
  IN  IF op = "Cons" THEN ConsValues(s)
      ELSE IF AtEnd(blob, s) THEN Stopped(s)
      ELSE IF b = CONS_BOX_MARKER THEN ReadPair(s)
      ELSE PushValue(s, [ok |-> atom.ok, a |-> s.a, node |-> nil], atom.pos)

\* With back references resolved, on a tree in which every atom is nil.
TurnLength(blob, s, op) ==
  LET b == Byte1(blob, s)
      ref == BackReference(blob, s)
      atom == parse_atom_ptr(blob, s.pos + 1, b)
  IN  IF op = "Cons" THEN ConsValues(s)
      ELSE IF AtEnd(blob, s) THEN Stopped(s)
      ELSE IF b = CONS_BOX_MARKER THEN ReadPair(s)
      ELSE IF b = BACK_REFERENCE THEN PushValue(s, ref, ref.pos)
      ELSE PushValue(s, [ok |-> atom.ok, a |-> s.a, node |-> nil], atom.pos)

RECURSIVE LoopLength(_, _)
LoopLength(blob, s) ==
  IF s.ops = <<>> \/ ~s.ok THEN s
  ELSE LoopLength(blob, TurnLength(blob, Popped(s), Head(s.ops)))

serialized_length_from_bytes(blob) ==
  LoopLength(blob, [ok |-> TRUE, pos |-> 0, ops |-> <<"SExp">>, a |-> new_limited, values |-> nil])

\* Without: a counter stands for the stack of operations.
RECURSIVE LoopTrusted(_, _)
LoopTrusted(blob, s) ==
  LET b == Byte1(blob, s)
      atom == IF b = BACK_REFERENCE THEN parse_path(blob, s.pos + 1)
              ELSE parse_atom_ptr(blob, s.pos + 1, b)
  IN  IF s.ops_counter = 0 \/ ~s.ok THEN s
      ELSE IF AtEnd(blob, s) THEN Stopped(s)
      ELSE LoopTrusted(blob,
             IF b = CONS_BOX_MARKER
             THEN [s EXCEPT !.pos = @ + 1, !.ops_counter = @ + 1]
             ELSE [s EXCEPT !.ok = atom.ok, !.pos = atom.pos, !.ops_counter = @ - 1])

serialized_length_from_bytes_trusted(blob) ==
  LoopTrusted(blob, [ok |-> TRUE, pos |-> 0, ops_counter |-> 1])

\* Bug: the pair is hashed in the order in which its halves are popped.
TurnHashAsPopped(blob, s, op) ==
  LET atom == parse_atom_ptr(blob, s.pos + 1, Byte1(blob, s))
  IN  IF op = "Cons"
      THEN [s EXCEPT !.values = <<hash_pair(@[1], @[2])>> \o Tail(Tail(@))]
      ELSE IF AtEnd(blob, s) THEN Stopped(s)
      ELSE IF Byte1(blob, s) = CONS_BOX_MARKER THEN ReadPair(s)
      ELSE [s EXCEPT !.ok = atom.ok, !.pos = atom.pos, !.values = <<hash_atom(atom.bytes)>> \o @]

TurnHash(blob, s, op) ==
  LET atom == parse_atom_ptr(blob, s.pos + 1, Byte1(blob, s))
  IN  IF op = "Cons"
      THEN [s EXCEPT !.values = <<hash_pair(@[2], @[1])>> \o Tail(Tail(@))]
      ELSE IF AtEnd(blob, s) THEN Stopped(s)
      ELSE IF Byte1(blob, s) = CONS_BOX_MARKER THEN ReadPair(s)
      ELSE [s EXCEPT !.ok = atom.ok, !.pos = atom.pos, !.values = <<hash_atom(atom.bytes)>> \o @]

RECURSIVE LoopHash(_, _)
LoopHash(blob, s) ==
  IF s.ops = <<>> \/ ~s.ok THEN s ELSE LoopHash(blob, TurnHash(blob, Popped(s), Head(s.ops)))

tree_hash_from_stream(blob) ==
  LoopHash(blob, [ok |-> TRUE, pos |-> 0, ops |-> <<"SExp">>, values |-> <<>>])

-----------------------------------------------------------------------------
(* The Python package's own readers (ser.py, de.py): a size of seven bytes *)
(* is no error to them.                                                    *)

\* _atom_from_stream, and _atom_size_from_cursor without the bytes: the
\* offset is the number of bytes before the atom's own.
AtomSizePython(blob, pos, b) ==
  LET bit_count == LeadingOnes(b)
      size_blob == <<b % 2^(8 - bit_count)>> \o SubSeq(blob, pos + 1, pos + bit_count - 1)
  IN  IF b = 128 THEN [ok |-> TRUE, offset |-> 1, size |-> Zero]
      ELSE IF b <= MAX_SINGLE_BYTE THEN [ok |-> TRUE, offset |-> 0, size |-> One]
      ELSE IF pos + bit_count - 1 > Len(blob) \/ ~UnderHigh(SizeOf(size_blob), 1024)
      THEN [ok |-> FALSE, offset |-> 0, size |-> Zero]
      ELSE [ok |-> TRUE, offset |-> bit_count, size |-> SizeOf(size_blob)]

AtomPython(blob, pos, b) ==
  LET d == AtomSizePython(blob, pos, b)
  IN  IF d.ok THEN Slice(blob, pos + d.offset - 1, d.size) ELSE NoAtom

\* _op_read_sexp and _op_cons; the values are trees (see Content below).
TurnPython(blob, s, op) ==
  LET atom == AtomPython(blob, s.pos + 1, Byte1(blob, s))
  IN  IF op = "Cons"
      THEN [s EXCEPT !.values = <<<<@[2], @[1]>>>> \o Tail(Tail(@))]
      ELSE IF AtEnd(blob, s) THEN Stopped(s)
      ELSE IF Byte1(blob, s) = CONS_BOX_MARKER THEN ReadPair(s)
      ELSE [s EXCEPT !.ok = atom.ok, !.pos = atom.pos, !.values = <<<<atom.bytes>>>> \o @]

RECURSIVE LoopPython(_, _)
LoopPython(blob, s) ==
  IF s.ops = <<>> \/ ~s.ok THEN s
  ELSE LoopPython(blob, TurnPython(blob, Popped(s), Head(s.ops)))

sexp_from_stream(blob) ==
  LoopPython(blob, [ok |-> TRUE, pos |-> 0, ops |-> <<"SExp">>, values |-> <<>>])

-----------------------------------------------------------------------------
(* The triples of de_tree.rs, and of its Python port in de.py: for each    *)
(* node of the tree where it starts and ends in the blob, and a third      *)
(* number: the offset of an atom's bytes, or the index of a pair's right   *)
(* child.  Indices count from 0, as in the code.  The hashes are computed  *)
(* on the way (without them nothing else changes).                         *)

Triple(start, end, third) == [start |-> start, end |-> end, third |-> third]
TripleOp(op, index) == [op |-> op, index |-> index]

\* Rust reads a size of at most six bytes.
AtomSizeRust(blob, pos, b) ==
  LET decoded == decode_size_with_offset(b, SubSeq(blob, pos + 1, Len(blob)))
  IN  IF b <= MAX_SINGLE_BYTE THEN [ok |-> TRUE, offset |-> 0, size |-> One]
      ELSE IF decoded.ok THEN [ok |-> TRUE, offset |-> decoded.value.offset,
                               size |-> decoded.value.size]
      ELSE [ok |-> FALSE, offset |-> 0, size |-> Zero]

\* ParseObj of a pair: the rest of the work on it is pushed.
ParsePair(s) ==
  LET index == Len(s.r)
  IN  [s EXCEPT !.pos = @ + 1,
                !.r = Append(@, Triple(s.pos, 0, 0)),
                !.tree_hashes = Append(@, <<0>>),
                !.ops = <<TripleOp("ParseObj", 0), TripleOp("SaveRightIndex", index),
                          TripleOp("ParseObj", 0), TripleOp("SaveEnd", index)>> \o @]

\* The bytes are read, and hashed as tree_hash_for_byte() hashes one byte.
skip_or_sha_bytes(blob, pos, size) ==
  LET bytes == Slice(blob, pos, size)
  IN  [ok |-> bytes.ok, pos |-> bytes.pos, tree_hash |-> hash_atom(bytes.bytes)]

\* ParseObj of an atom of size d.size at d.offset from where it starts.
ParseAtom(blob, s, d) ==
  LET read == skip_or_sha_bytes(blob, s.pos + d.offset, d.size)
  IN  IF ~d.ok \/ ~read.ok THEN Stopped(s)
      ELSE [s EXCEPT !.pos = read.pos,
                     !.r = Append(@, Triple(s.pos, read.pos, d.offset)),
                     !.tree_hashes = Append(@, read.tree_hash)]

TurnTriples(native, blob, s, todo) ==
  LET i == todo.index + 1
      b == Byte1(blob, s)
  IN  CASE todo.op = "SaveRightIndex" -> [s EXCEPT !.r[i].third = Len(s.r)]
        [] todo.op = "SaveEnd" ->
             [s EXCEPT !.r[i].end = s.pos,
                       !.tree_hashes[i] = hash_pair(s.tree_hashes[i + 1],
                                                    s.tree_hashes[s.r[i].third + 1])]
        [] todo.op = "ParseObj" ->
             IF AtEnd(blob, s) THEN Stopped(s)
             ELSE IF b = CONS_BOX_MARKER THEN ParsePair(s)
             ELSE ParseAtom(blob, s, IF native THEN AtomSizeRust(blob, s.pos + 1, b)
                                     ELSE AtomSizePython(blob, s.pos + 1, b))

RECURSIVE LoopTriples(_, _, _)
LoopTriples(native, blob, s) ==
  IF s.ops = <<>> \/ ~s.ok THEN s
  ELSE LoopTriples(native, blob, TurnTriples(native, blob, Popped(s), Head(s.ops)))

TriplesStart == [ok |-> TRUE, pos |-> 0, ops |-> <<TripleOp("ParseObj", 0)>>,
                 r |-> <<>>, tree_hashes |-> <<>>]
parse_triples(blob) == LoopTriples(TRUE, blob, TriplesStart)
deserialize_as_tuples(blob) == LoopTriples(FALSE, blob, TriplesStart)

-----------------------------------------------------------------------------
(* Writing (ser.rs).                                                       *)

\* The tree at a node: <<bytes>> for an atom, <<left, right>> for a pair.
RECURSIVE Content(_, _)
Content(a, n) ==
  IF IsAtom(n) THEN <<Atom(a, n)>> ELSE <<Content(a, First(a, n)), Content(a, Rest(a, n))>>

\* Bug: the limit is for each write.
WriteAllPerWrite(w, buf) ==
  IF ~w.ok \/ buf = <<>> THEN w
  ELSE IF w.limit < Len(buf) THEN Stopped(w)
  ELSE [w EXCEPT !.out = @ \o buf]

\* LimitedWriter.write, as write_all uses it.
write_all(w, buf) ==
  IF ~w.ok \/ buf = <<>> THEN w
  ELSE IF w.limit < Len(buf) THEN Stopped(w)
  ELSE [w EXCEPT !.limit = @ - Len(buf), !.out = @ \o buf]

\* The prefix, and the atom itself, of less than 2^24 bytes.
write_atom(w, v) ==
  LET first == IF v = <<>> THEN 0 ELSE v[1]
      p == prefix([size |-> [high |-> 0, low |-> Len(v)], atom_0 |-> first])
  IN  write_all(write_all(w, p.value), v)

RECURSIVE node_to_stream(_, _, _)
node_to_stream(a, values, w) ==
  IF values = <<>> \/ ~w.ok THEN w
  ELSE LET v == Head(values)
       IN  IF IsAtom(v) THEN node_to_stream(a, Tail(values), write_atom(w, Atom(a, v)))
           ELSE node_to_stream(a, <<First(a, v), Rest(a, v)>> \o Tail(values),
                               write_all(w, <<CONS_BOX_MARKER>>))

node_to_bytes_limit(a, node, limit) ==
  node_to_stream(a, <<node>>, [ok |-> TRUE, limit |-> limit, out |-> <<>>])
=============================================================================
