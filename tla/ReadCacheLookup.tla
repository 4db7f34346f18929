--------------------------- MODULE ReadCacheLookup ---------------------------
(***************************************************************************)
(* What the compressing serializer knows of its reader (src/serde/         *)
(* read_cache_lookup.rs), and the reader itself (src/serde/de_br.rs).      *)
(*                                                                         *)
(* A tree is <<k>>, the atom with k bytes, or a pair <<left, right>>.  A   *)
(* tree hash is the tree: distinct trees are assumed to hash differently.  *)
(* Bytes have BITS bits, so that paths of several bytes appear in small    *)
(* trees, and so do the lengths at which a prefix grows, PREFIX_LIMITS.    *)
(***************************************************************************)
EXTENDS Integers, Sequences, FiniteSets
LOCAL INSTANCE SequencesExt
LOCAL INSTANCE FiniteSetsExt

CONSTANTS
  BITS,          \* bits of a byte (8)
  PREFIX_LIMITS  \* from each on, an atom's length prefix has a byte more than
                 \* one (0x40, 0x2000, 0x100000, 0x8000000)

ASSUME LookupAssumption ==
  BITS \in Nat \ {0} /\ PREFIX_LIMITS \in [1 .. 4 -> Nat \ {0}]

IsLeaf(t) == Len(t) = 1
Nil == <<0>>

\* Bytes that an atom of n bytes takes; one byte below 0x80 has no prefix.
serialized_length_atom(n, below_0x80) ==
  IF n = 0 \/ (n = 1 /\ below_0x80) THEN 1
  ELSE n + 1 + Cardinality({i \in DOMAIN PREFIX_LIMITS : n >= PREFIX_LIMITS[i]})

-----------------------------------------------------------------------------
(* Paths as bytes, the first turn in the least significant bit.            *)

\* The byte whose bits are given, least significant first.
ByteOf(bits) == FoldRight(LAMBDA bit, acc : 2 * acc + bit, bits, 0)

\* The turns of a path, from the root down, under a leading one.
reversed_path_to_vec_u8(path) ==
  LET byte_count == (Len(path) + 1 + BITS - 1) \div BITS
      bits == Append(path, 1)
      Chunk(i) == SubSeq(bits, i * BITS + 1, IF (i + 1) * BITS < Len(bits)
                                             THEN (i + 1) * BITS ELSE Len(bits))
  IN  [k \in 1 .. byte_count |-> ByteOf(Chunk(byte_count - k))]

\* The turns traverse_path takes: the bits below the most significant set one.
Turns(v) ==
  LET zeros == Cardinality({i \in DOMAIN v : \A j \in 1 .. i : v[j] = 0})
      msb == Cardinality({k \in 1 .. BITS - 1 : 2^k <= v[zeros + 1]})
  IN  [k \in 1 .. (Len(v) - 1 - zeros) * BITS + msb |->
         (v[Len(v) - (k - 1) \div BITS] \div 2^((k - 1) % BITS)) % 2]

\* traverse_path on a tree: nil if no bit is set, <<>> if it enters an atom.
traverse_path(v, t) ==
  IF \A i \in DOMAIN v : v[i] = 0 THEN Nil
  ELSE FoldLeft(LAMBDA acc, bit : IF acc = <<>> \/ IsLeaf(acc) THEN <<>> ELSE acc[1 + bit],
                t, Turns(v))

\* Bytes of a back reference: the marker and the path, written as an atom.
back_reference_size(v) ==
  1 + serialized_length_atom(Len(v), v[1] < 2^(BITS - 1))

-----------------------------------------------------------------------------
(* ReadCacheLookup.  `count' and `parent_lookup' are the hash maps; a      *)
(* parent is the pair of a hash and the side the child is on (0 is left).  *)

Get(map, key, default) == IF key \in DOMAIN map THEN map[key] ELSE default
Put(map, key, val) ==
  [k \in DOMAIN map \cup {key} |-> IF k = key THEN val ELSE map[k]]

Count(c, id) == Get(c.count, id, 0)
Counted(c, id, d) == [c EXCEPT !.count = Put(@, id, Get(@, id, 0) + d)]
WithParent(c, id, parent, dir) ==
  [c EXCEPT !.parent_lookup =
     Put(@, id, Append(Get(@, id, <<>>), [parent |-> parent, dir |-> dir]))]

NewLookup == [root_hash |-> Nil, read_stack |-> <<>>,
              count |-> Put(<<>>, Nil, 1), parent_lookup |-> <<>>]

push(c, id) ==
  LET root == <<id, c.root_hash>>
      counted == Counted(Counted(c, id, 1), root, 1)
      linked == WithParent(WithParent(counted, id, root, 0), c.root_hash, root, 1)
  IN  [linked EXCEPT !.read_stack = Append(@, [id |-> id, root |-> c.root_hash]),
                     !.root_hash = root]

TopItem(c) == c.read_stack[Len(c.read_stack)]

pop(c) ==
  LET counted == Counted(Counted(c, TopItem(c).id, -1), c.root_hash, -1)
  IN  [counted EXCEPT !.root_hash = TopItem(c).root,
                      !.read_stack = SubSeq(@, 1, Len(@) - 1)]

pop2_and_cons(c) ==
  LET right == TopItem(c).id
      left == TopItem(pop(c)).id
      new == <<left, right>>
      counted == Counted(Counted(pop(pop(c)), left, 1), right, 1)
  IN  push(WithParent(WithParent(counted, left, new, 0), right, new, 1), new)

\* One parent of a partial path p: follow it if it is still on the reader's
\* stack and not met before; give up the whole search past max_length.
Expand(c, p, max_length, acc, item) ==
  LET seen == [acc EXCEPT !.seen = @ \cup {item.parent}]
  IN  IF acc.stop THEN acc
      ELSE IF Count(c, item.parent) = 0 \/ item.parent \in acc.seen THEN seen
      ELSE IF Len(p.path) + 1 > max_length THEN [acc EXCEPT !.stop = TRUE]
      ELSE [seen EXCEPT !.next = Append(@, [node |-> item.parent,
                                            path |-> <<item.dir>> \o p.path])]

Visit(c, max_length, acc, p) ==
  IF acc.stop THEN acc
  ELSE IF p.node = c.root_hash THEN [acc EXCEPT !.found = Append(@, reversed_path_to_vec_u8(p.path))]
  ELSE FoldLeft(LAMBDA a, item : Expand(c, p, max_length, a, item), acc,
                Get(c.parent_lookup, p.node, <<>>))

\* One level after another, until a path is found or none is left.
RECURSIVE Levels(_, _, _)
Levels(c, max_length, acc) ==
  IF acc.stop \/ acc.found # <<>> \/ acc.next = <<>> THEN acc.found
  ELSE Levels(c, max_length,
              FoldLeft(LAMBDA a, p : Visit(c, max_length, a, p),
                       [acc EXCEPT !.next = <<>>], acc.next))

\* Bug: the byte of the marker is forgotten.
FindPathsTooLong(c, id, serialized_length) ==
  IF serialized_length < 4 THEN <<>>
  ELSE Levels(c, (serialized_length - 1) * BITS - 1,
              [next |-> <<[node |-> id, path |-> <<>>]>>, seen |-> {id},
               found |-> <<>>, stop |-> FALSE])

\* find_paths: breadth first from id up to the root.
find_paths(c, id, serialized_length) ==
  IF serialized_length < 4 THEN <<>>
  ELSE Levels(c, (serialized_length - 2) * BITS - 1,
              [next |-> <<[node |-> id, path |-> <<>>]>>, seen |-> {id},
               found |-> <<>>, stop |-> FALSE])

\* The order of byte strings of one length (the paths found have one).
AtMost(v, w) ==
  v = w \/ \E i \in DOMAIN v : v[i] < w[i] /\ \A j \in 1 .. i - 1 : v[j] = w[j]

\* find_path: the smallest of them, or <<>>.
find_path(c, id, serialized_length) ==
  LET paths == ToSet(find_paths(c, id, serialized_length))
  IN  IF paths = {} THEN <<>>
      ELSE <<CHOOSE v \in paths : \A w \in paths : AtMost(v, w)>>

-----------------------------------------------------------------------------
(* The reader: a stack of operations and a list of values, both fed with   *)
(* tokens.                                                                 *)

ConsToken == [kind |-> "cons"]
AtomToken(t) == [kind |-> "atom", atom |-> t]
BackRef(path) == [kind |-> "back reference", path |-> path]

NewReader == [ops |-> <<"SExp">>, values |-> Nil, ok |-> TRUE]

\* The Cons operations at the top of the stack are carried out.
ConsValues(values) == <<<<values[2][1], values[1]>>, values[2][2]>>
PendingCons(ops) ==
  Cardinality({i \in DOMAIN ops : \A j \in i .. Len(ops) : ops[j] = "Cons"})
RunCons(r) ==
  LET n == PendingCons(r.ops)
  IN  [r EXCEPT !.ops = SubSeq(@, 1, Len(@) - n),
                !.values = FoldLeft(LAMBDA acc, i : ConsValues(acc), @, [i \in 1 .. n |-> i])]

\* One SExp operation: read a token.
Read(r, token) ==
  LET rest == SubSeq(r.ops, 1, Len(r.ops) - 1)
      value == IF token.kind = "atom" THEN token.atom
               ELSE traverse_path(token.path, r.values)
  IN  IF ~r.ok \/ r.ops = <<>> THEN [r EXCEPT !.ok = FALSE]
      ELSE IF token.kind = "cons"
      THEN [r EXCEPT !.ops = rest \o <<"Cons", "SExp", "SExp">>]
      ELSE IF value = <<>> THEN [r EXCEPT !.ok = FALSE]
      ELSE RunCons([r EXCEPT !.ops = rest, !.values = <<value, @>>])

node_from_stream_backrefs(tokens) == FoldLeft(Read, NewReader, tokens)
=============================================================================
