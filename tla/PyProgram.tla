------------------------------ MODULE PyProgram ------------------------------
(***************************************************************************)
(* The Python package (wheel/python/clvm_rs): Program objects, what they   *)
(* wrap, and what they remember of their hash and serialization.           *)
(*                                                                         *)
(* h is Python's heap of CLVM objects, and an object is a position in it.  *)
(* Reading an object may add objects (a `pair' makes its members when it   *)
(* is first asked for) and fills caches, so most operations return the     *)
(* heap that they leave.  A None is <<>>, any other optional value <<v>>.  *)
(***************************************************************************)
EXTENDS Streams, SequencesExt

\* The dialect's keywords: quote, apply, cons; nil and one.
Q_KW == <<1>>
A_KW == <<2>>
C_KW == <<4>>
NULL == <<>>
ONE == <<1>>

Known(opt) == opt # <<>>

-----------------------------------------------------------------------------
(* Objects: a Program, a CLVMTree (a place in a blob) or a LazyNode (a     *)
(* node of an arena that belongs to Rust).  What all the CLVMTrees of one  *)
(* blob share, or all the LazyNodes of one arena, has a position as well.  *)

Blank(kind) ==
  [kind |-> kind, atom |-> <<>>, pair |-> <<>>, unwrapped |-> 0, unwrapped_pair |-> <<>>,
   ser |-> <<>>, hash |-> <<>>, shared |-> 0, index |-> 0]

Added(h, o) == [h |-> Append(h, o), ref |-> Len(h) + 1]

\* Program.new_atom and new_pair; an object that wraps nothing is its own
\* _unwrapped.
new_program(h, o) == Added(h, [o EXCEPT !.unwrapped = Len(h) + 1])
NewAtom(h, v) == new_program(h, [Blank("Program") EXCEPT !.atom = <<v>>])
NewPair(h, left, right) ==
  new_program(h, [Blank("Program") EXCEPT !.unwrapped_pair = <<left, right>>])

\* A LazyNode: its arena is h[shared].a.
LazyNode(h, shared, node) ==
  [Blank("LazyNode") EXCEPT !.atom = IF IsAtom(node) THEN <<Atom(h[shared].a, node)>> ELSE <<>>,
                            !.shared = shared, !.index = node]

\* CLVMTree.__init__, for the object at `index' of the tuples.
CLVMTree(h, shared, index) ==
  LET t == h[shared]
      triple == t.int_tuples[index + 1]
  IN  [Blank("CLVMTree") EXCEPT
         !.shared = shared, !.index = index,
         !.hash = IF Known(t.tree_hashes) THEN <<t.tree_hashes[1][index + 1]>> ELSE <<>>,
         !.atom = IF t.blob[triple.start + 1] = CONS_BOX_MARKER THEN <<>>
                  ELSE <<SubSeq(t.blob, triple.start + triple.third + 1, triple.end)>>]

\* Bug: the rest of the blob.
SerializationToTheEnd(h, i) ==
  IF h[i].kind # "CLVMTree" THEN h[i].ser
  ELSE LET t == h[h[i].shared]
           triple == t.int_tuples[h[i].index + 1]
       IN  <<SubSeq(t.blob, triple.start + 1, Len(t.blob))>>

\* _cached_serialization: a Program's own, or the CLVMTree's part of the blob.
CachedSerialization(h, i) ==
  IF h[i].kind # "CLVMTree" THEN h[i].ser
  ELSE LET t == h[h[i].shared]
           triple == t.int_tuples[h[i].index + 1]
       IN  <<SubSeq(t.blob, triple.start + 1, triple.end)>>

\* Where a CLVMTree's or a LazyNode's `pair' comes from: two new objects.
TwoNew(h, o1, o2) == [h |-> h \o <<o1, o2>>, pair |-> <<Len(h) + 1, Len(h) + 2>>]

\* `pair' of what is not a Program: a CLVMTree remembers it.
MadePair(made, i) == [made EXCEPT !.h[i].pair = made.pair]
RawPair(h, i) ==
  LET o == h[i]
      t == h[o.shared]
      right_index == t.int_tuples[o.index + 1].third
  IN  IF Known(o.atom) THEN [h |-> h, pair |-> <<>>]
      ELSE IF o.kind = "LazyNode"
      THEN TwoNew(h, LazyNode(h, o.shared, First(t.a, o.index)),
                     LazyNode(h, o.shared, Rest(t.a, o.index)))
      ELSE IF Known(o.pair) THEN [h |-> h, pair |-> o.pair]
      ELSE MadePair(TwoNew(h, CLVMTree(h, o.shared, o.index + 1),
                              CLVMTree(h, o.shared, right_index)), i)

\* Program.wrap: a Program for the object i, whose pair is p.
Wrapping(h, i, p) ==
  Added(p.h, [Blank("Program") EXCEPT !.atom = h[i].atom, !.unwrapped = i,
                                      !.unwrapped_pair = p.pair,
                                      !.ser = CachedSerialization(h, i),
                                      !.hash = h[i].hash])
wrap(h, i) ==
  IF h[i].kind = "Program" THEN [h |-> h, ref |-> i] ELSE Wrapping(h, i, RawPair(h, i))

\* i remembers its members: `left', which is wrapped already, and j.
Members(i, left, right) ==
  [h |-> [right.h EXCEPT ![i].pair = <<left.ref, right.ref>>], pair |-> <<left.ref, right.ref>>]
WrapSecond(i, left, j) == Members(i, left, wrap(left.h, j))

\* Bug: the wrapped pair is not remembered.
PairEveryTime(h, i) ==
  LET o == h[i]
  IN  IF o.kind # "Program" THEN RawPair(h, i)
      ELSE IF Known(o.atom) THEN [h |-> h, pair |-> o.pair]
      ELSE WrapSecond(i, wrap(h, o.unwrapped_pair[1]), o.unwrapped_pair[2])

\* `pair' of any object: a Program wraps the pair it has and remembers that.
Pair(h, i) ==
  LET o == h[i]
  IN  IF o.kind # "Program" THEN RawPair(h, i)
      ELSE IF Known(o.pair) \/ Known(o.atom) THEN [h |-> h, pair |-> o.pair]
      ELSE WrapSecond(i, wrap(h, o.unwrapped_pair[1]), o.unwrapped_pair[2])

-----------------------------------------------------------------------------
(* Serialization (ser.py) and tree hash (tree_hash.py).                    *)

\* sexp_to_bytes: the same bytes as atom_to_byte_iterator and write_atom give
\* for an atom, and what an object has cached in place of its own.
atom_to_byte_iterator(v) ==
  IF Len(v) = 1 /\ v[1] <= MAX_SINGLE_BYTE THEN v
  ELSE prefix([size |-> [high |-> 0, low |-> Len(v)],
               atom_0 |-> IF v = <<>> THEN 0 ELSE v[1]]).value \o v

RECURSIVE sexp_to_byte_iterator(_, _, _)
sexp_to_byte_iterator(h, todo_stack, out) ==
  IF todo_stack = <<>> THEN [h |-> h, bytes |-> out]
  ELSE LET sexp == Head(todo_stack)
           rest == Tail(todo_stack)
           cached == CachedSerialization(h, sexp)
           p == Pair(h, sexp)
       IN  IF Known(cached) THEN sexp_to_byte_iterator(h, rest, out \o cached[1])
           ELSE IF Known(p.pair)
           THEN sexp_to_byte_iterator(p.h, p.pair \o rest, Append(out, CONS_BOX_MARKER))
           ELSE sexp_to_byte_iterator(h, rest, out \o atom_to_byte_iterator(h[sexp].atom[1]))

sexp_to_bytes(h, i) == sexp_to_byte_iterator(h, <<i>>, <<>>)

\* Program.__bytes__
Serialized(i, r) == [h |-> [r.h EXCEPT ![i].ser = <<r.bytes>>], bytes |-> r.bytes]
bytes(h, i) ==
  IF Known(h[i].ser) THEN [h |-> h, bytes |-> h[i].ser[1]]
  ELSE Serialized(i, sexp_to_bytes(h, i))

\* setattr fails on a LazyNode, and that is ignored.
Remember(h, i, hash) ==
  IF h[i].kind = "LazyNode" THEN h ELSE [h EXCEPT ![i].hash = <<hash>>]

\* handle_obj and handle_pair; the right member is hashed first.
RECURSIVE Treehasher(_)
Treehasher(s) ==
  IF s.ops = <<>> THEN s
  ELSE LET obj == Head(s.objs)
           o == s.h[obj]
           p == Pair(s.h, obj)
           atom_hash == hash_atom(o.atom[1])
           pair_hash == hash_pair(s.hashes[1], s.hashes[2])
           popped == [s EXCEPT !.ops = Tail(@), !.objs = Tail(@)]
       IN  Treehasher(
             IF Head(s.ops) = "handle_pair"
             THEN [popped EXCEPT !.h = Remember(@, obj, pair_hash),
                                 !.hashes = <<pair_hash>> \o Tail(Tail(@))]
             ELSE IF Known(o.hash) THEN [popped EXCEPT !.hashes = o.hash \o @]
             ELSE IF Known(o.atom)
             THEN [popped EXCEPT !.h = Remember(@, obj, atom_hash),
                                 !.hashes = <<atom_hash>> \o @]
             ELSE [popped EXCEPT !.h = p.h,
                                 !.objs = <<p.pair[2], p.pair[1], obj>> \o @,
                                 !.ops = <<"handle_obj", "handle_obj", "handle_pair">> \o @])

sha256_treehash(h, i) ==
  LET s == Treehasher([h |-> h, objs |-> <<i>>, ops |-> <<"handle_obj">>, hashes |-> <<>>])
  IN  [h |-> s.h, hash |-> s.hashes[1]]

\* Program.tree_hash
Hashed(i, r) == [r EXCEPT !.h[i].hash = <<r.hash>>]
tree_hash(h, i) ==
  IF Known(h[i].hash) THEN [h |-> h, hash |-> h[i].hash[1]]
  ELSE Hashed(i, sha256_treehash(h, h[i].unwrapped))

-----------------------------------------------------------------------------
(* Reading (clvm_tree.py, program.py).                                     *)

\* Bug: counted from where the tree starts.
NewCursorOfTree(serialized, cursor) == Len(serialized)

NewCursor(serialized, cursor) == Len(serialized) + cursor

\* The CLVMTree of a blob's tuples, and the Program that wraps it.
WrapTree(tree, cursor) ==
  LET obj == wrap(tree.h, tree.ref)
  IN  [ok |-> TRUE, h |-> obj.h, ref |-> obj.ref,
       cursor |-> NewCursor(CachedSerialization(tree.h, tree.ref)[1], cursor)]
TreeOf(tuples, cursor) == WrapTree(Added(tuples.h, CLVMTree(tuples.h, tuples.ref, 0)), cursor)

\* from_bytes_with_cursor: [ok, h, ref, cursor].
from_bytes_with_cursor(h, blob, cursor, calculate_tree_hash) ==
  LET b == SubSeq(blob, cursor + 1, Len(blob))
      r == parse_triples(b)
      tree_hashes == IF calculate_tree_hash THEN <<r.tree_hashes>> ELSE <<>>
  IN  IF ~r.ok THEN [ok |-> FALSE, h |-> h, ref |-> 0, cursor |-> cursor]
      ELSE TreeOf(Added(h, [kind |-> "tuples", blob |-> b, int_tuples |-> r.r,
                            tree_hashes |-> tree_hashes]), cursor)

\* A tree built with new_atom and new_pair, members first.
RECURSIVE Build(_, _)
Build(h, t) ==
  IF Len(t) = 1 THEN NewAtom(h, t[1])
  ELSE LET left == Build(h, t[1])
           right == Build(left.h, t[2])
       IN  NewPair(right.h, left.ref, right.ref)

\* Program.parse
parse(h, blob) ==
  LET r == sexp_from_stream(blob)
      built == Build(h, r.values[1])
  IN  IF ~r.ok THEN [ok |-> FALSE, h |-> h, ref |-> 0]
      ELSE [ok |-> TRUE, h |-> built.h, ref |-> built.ref]

-----------------------------------------------------------------------------
(* Casts (casts.py).  A castable is [is, v]: an object, bytes, an int, a   *)
(* list or a pair of castables.                                            *)

bit_length(v) == Cardinality({k \in 0 .. 29 : 2^k <= (IF v < 0 THEN -v ELSE v)})

\* A first byte that only repeats the sign of the second one.
Redundant(r) == Len(r) > 1 /\ r[1] = (IF r[2] >= 128 THEN 255 ELSE 0)

RECURSIVE Minimal(_)
Minimal(r) == IF Redundant(r) THEN Minimal(Tail(r)) ELSE r

int_to_bytes(v) ==
  IF v = 0 THEN <<>> ELSE Minimal(ToBytes(v, (bit_length(v) + 8) \div 8))

int_from_bytes(blob) ==
  Extend(IF blob # <<>> /\ blob[1] >= SignBit THEN -1 ELSE 0, blob)

Obj(i) == [is |-> "object", v |-> i]
OfBytes(v) == [is |-> "bytes", v |-> v]
OfInt(v) == [is |-> "int", v |-> v]
OfList(cs) == [is |-> "list", v |-> cs]
OfTuple(left, right) == [is |-> "tuple", v |-> <<left, right>>]

\* Two values are taken from did_convert: for op 1 the left one is on top,
\* for op 2 the right one.
ConsConverted(s, op) ==
  LET x == s.did_convert[1]
      y == s.did_convert[2]
      r == IF op = 1 THEN NewPair(s.h, x, y) ELSE NewPair(s.h, y, x)
  IN  [s EXCEPT !.h = r.h, !.did_convert = <<r.ref>> \o Tail(Tail(@))]

\* op 0: an object stays, an atom is made, and a list or a tuple is taken
\* apart.  The right member of a tuple is converted first; so is the first
\* item of a list, and its terminator last.
Convert(s) ==
  LET c == Head(s.to_convert)
      popped == [s EXCEPT !.to_convert = Tail(@)]
      atom == NewAtom(s.h, IF c.is = "int" THEN int_to_bytes(c.v) ELSE c.v)
      null == NewAtom(s.h, NULL)
      Zeros(n) == [i \in 1 .. n |-> 0]
      Twos(n) == [i \in 1 .. n |-> 2]
  IN  CASE c.is = "object" -> [popped EXCEPT !.did_convert = <<c.v>> \o @]
        [] c.is \in {"bytes", "int"} ->
             [popped EXCEPT !.h = atom.h, !.did_convert = <<atom.ref>> \o @]
        [] c.is = "tuple" ->
             [popped EXCEPT !.to_convert = <<c.v[2], c.v[1]>> \o @, !.ops = <<0, 0, 1>> \o @]
        [] c.is = "list" ->
             [popped EXCEPT !.h = null.h,
                            !.to_convert = c.v \o <<Obj(null.ref)>> \o @,
                            !.ops = Zeros(Len(c.v) + 1) \o Twos(Len(c.v)) \o @]

RECURSIVE LoopConvert(_)
LoopConvert(s) ==
  IF s.ops = <<>> THEN s
  ELSE LET popped == [s EXCEPT !.ops = Tail(@)]
       IN  LoopConvert(IF Head(s.ops) = 0 THEN Convert(popped)
                       ELSE ConsConverted(popped, Head(s.ops)))

to_clvm_object(h, castable) ==
  LET s == LoopConvert([h |-> h, to_convert |-> <<castable>>, did_convert |-> <<>>, ops |-> <<0>>])
  IN  [h |-> s.h, ref |-> s.did_convert[1]]

\* Program.to
to(h, castable) == LET r == to_clvm_object(h, castable) IN wrap(r.h, r.ref)

-----------------------------------------------------------------------------
(* Paths (at.py, replace.py): sequences of "f" and "r".                    *)

\* at: <<>> when it runs into an atom.
RECURSIVE at(_, _, _)
RECURSIVE AtMember(_, _)
at(h, i, position) ==
  IF position = <<>> THEN [h |-> h, found |-> <<i>>] ELSE AtMember(Pair(h, i), position)
AtMember(p, position) ==
  IF ~Known(p.pair) THEN [h |-> p.h, found |-> <<>>]
  ELSE at(p.h, p.pair[IF Head(position) = "f" THEN 1 ELSE 2], Tail(position))

\* Whether what was found is this atom: Program.__eq__ compares hashes.
HashIs(r, v) == [h |-> r.h, yes |-> r.hash = hash_atom(v)]
FoundIs(r, v) == IF Known(r.found) THEN HashIs(tree_hash(r.h, r.found[1]), v)
                 ELSE [h |-> r.h, yes |-> FALSE]
AtIs(h, i, position, v) == FoundIs(at(h, i, position), v)

\* Bug: a path replaces the one before it.
BelowOne(kwargs, c) ==
  LET below == {k \in DOMAIN kwargs : k # <<>> /\ Head(k) = c}
      kept == CHOOSE k \in below : TRUE
  IN  [k \in IF below = {} THEN {} ELSE {Tail(kept)} |-> kwargs[kept]]

\* The replacements below one member of a pair.
Below(kwargs, c) ==
  LET below == {k \in DOMAIN kwargs : k # <<>> /\ Head(k) = c}
  IN  [k \in {Tail(k) : k \in below} |-> kwargs[<<c>> \o k]]

\* replace: a castable, or the object itself where nothing is replaced.
RECURSIVE replace(_, _, _)
replace(h, i, kwargs) ==
  LET p == Pair(h, i)
      new_f == replace(p.h, p.pair[1], Below(kwargs, "f"))
      new_r == replace(new_f.h, p.pair[2], Below(kwargs, "r"))
  IN  IF DOMAIN kwargs = {} THEN [ok |-> TRUE, h |-> h, c |-> Obj(i)]
      ELSE IF <<>> \in DOMAIN kwargs
      THEN [ok |-> Cardinality(DOMAIN kwargs) = 1, h |-> h, c |-> kwargs[<<>>]]
      ELSE IF ~Known(p.pair) THEN [ok |-> FALSE, h |-> p.h, c |-> Obj(i)]
      ELSE [ok |-> new_f.ok /\ new_r.ok, h |-> new_r.h, c |-> OfTuple(new_f.c, new_r.c)]

-----------------------------------------------------------------------------
(* Currying (curry_and_treehash.py).                                       *)

\* fixed_args, in curry.
RECURSIVE FixedArgs(_)
FixedArgs(args) ==
  IF args = <<>> THEN OfInt(1)
  ELSE OfList(<<OfBytes(C_KW), OfTuple(OfBytes(Q_KW), Head(args)), FixedArgs(Tail(args))>>)

\* Program.curry
curry(h, mod, args) ==
  to(h, OfList(<<OfBytes(A_KW), OfTuple(OfBytes(Q_KW), Obj(mod)), FixedArgs(args)>>))

RECURSIVE curried_values_tree_hash(_)
curried_values_tree_hash(arguments) ==
  IF arguments = <<>> THEN hash_atom(ONE)
  ELSE hash_pair(hash_atom(C_KW),
         hash_pair(hash_pair(hash_atom(Q_KW), Head(arguments)),
           hash_pair(curried_values_tree_hash(Tail(arguments)), hash_atom(NULL))))

calculate_hash_of_quoted_mod_hash(mod_hash) == hash_pair(hash_atom(Q_KW), mod_hash)

curry_and_treehash(hash_of_quoted_mod_hash, hashed_arguments) ==
  hash_pair(hash_atom(A_KW),
    hash_pair(hash_of_quoted_mod_hash,
      hash_pair(curried_values_tree_hash(hashed_arguments), hash_atom(NULL))))

\* Program.curry_hash
curry_hash(h, i, args) ==
  curry_and_treehash(calculate_hash_of_quoted_mod_hash(tree_hash(h, i).hash), args)

\* A condition of three, tested until one fails.
AllAtIs(h, i, tests) ==
  FoldLeft(LAMBDA r, t : IF r.yes THEN AtIs(r.h, i, t[1], t[2]) ELSE r,
           [h |-> h, yes |-> TRUE], tests)

\* Bug: more may follow.
IsFormOpen(h, i, kw) == AllAtIs(h, i, <<<<<<"f">>, kw>>, <<<<"r", "f", "f">>, Q_KW>>>>)

\* (kw (q . _) _): what every level of a curried program looks like.
IsForm(h, i, kw) ==
  AllAtIs(h, i, <<<<<<"f">>, kw>>, <<<<"r", "f", "f">>, Q_KW>>, <<<<"r", "r", "r">>, NULL>>>>)

\* What is quoted at a level, and what follows it; <<>> if it is not of the form.
Parts(form, i) ==
  LET quoted == at(form.h, i, <<"r", "f", "r">>)
      rest == at(quoted.h, i, <<"r", "r", "f">>)
  IN  IF form.yes THEN [h |-> rest.h, parts |-> quoted.found \o rest.found]
      ELSE [h |-> form.h, parts |-> <<>>]

\* The loop over the levels, the program's own first, until what follows is
\* one: what is quoted at each, in a sequence, or <<>>.
RECURSIVE NextLevel(_, _)
RECURSIVE CoreItems(_, _, _)
NextLevel(level, items) ==
  LET core == level.parts[2]
  IN  IF ~Known(level.parts) THEN [h |-> level.h, items |-> <<>>]
      ELSE CoreItems(AtIs(level.h, core, <<>>, ONE), core, Append(items, level.parts[1]))
CoreItems(last, core, items) ==
  IF last.yes THEN [h |-> last.h, items |-> <<items>>]
  ELSE NextLevel(Parts(IsForm(last.h, core, C_KW), core), items)

\* Program.uncurry: args is None when the program is no curry.
Uncurried(i, r) ==
  IF Known(r.items) THEN [h |-> r.h, mod |-> Head(r.items[1]), args |-> <<Tail(r.items[1])>>]
  ELSE [h |-> r.h, mod |-> i, args |-> <<>>]
uncurry(h, i) == Uncurried(i, NextLevel(Parts(IsForm(h, i, A_KW), i), <<>>))

-----------------------------------------------------------------------------
(* Running (program.py, and api.rs, adapt_response.rs in wheel/src).       *)

\* Bug: the two trees change places.
RunSwapped(program, args) ==
  LET p == node_from_stream(new_limited, program)
      q == node_from_stream(p.a, args)
  IN  [ok |-> p.ok /\ q.ok, a |-> q.a, program |-> q.values[1], args |-> p.values[1]]

\* run_with_cost up to run_program: both trees are serialized, and read into
\* an arena of Rust's own.
run_serialized_chia_program(program, args) ==
  LET p == node_from_stream(new_limited, program)
      q == node_from_stream(p.a, args)
  IN  IF p.ok /\ q.ok THEN [ok |-> TRUE, a |-> q.a, program |-> p.values[1], args |-> q.values[1]]
      ELSE [ok |-> FALSE, a |-> q.a, program |-> nil, args |-> nil]

\* adapt_response and wrap: the node returned, or the one the error is about.
adapt_response(h, a, node) ==
  LET arena == Added(h, [kind |-> "arena", a |-> a])
      r == Added(arena.h, LazyNode(arena.h, arena.ref, node))
  IN  wrap(r.h, r.ref)
=============================================================================
