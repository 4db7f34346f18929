------------------------------- MODULE MCPython -------------------------------
(***************************************************************************)
(* A Python program that reads trees, takes them apart, puts them together *)
(* again, hashes, serializes, curries, changes and runs them, in any       *)
(* order.  It calls methods of the Programs that it was handed; a method   *)
(* of two Programs is called with the newest, as one of them.              *)
(***************************************************************************)
EXTENDS PyProgram

CONSTANTS
  Input,     \* the blob that is read, one tree after the other
  Blobs,     \* blobs given to Program.parse
  Ints,      \* the ints that are cast
  MaxSteps   \* bound on the calls

ASSUME PythonAssumption == MaxSteps \in Nat

VARIABLES
  h,       \* the objects
  held,    \* the Programs that calls have returned
  cursor,  \* where the next tree of Input is read
  read,    \* the Programs read from Input so far
  newest,  \* the last of them
  steps,   \* calls made
  last     \* what the last call was, and gave

vars == <<h, held, cursor, read, newest, steps, last>>

Init ==
  /\ h = <<>> /\ held = {} /\ cursor = 0 /\ read = <<>> /\ newest = 0 /\ steps = 0
  /\ last = [call |-> "none"]

Call(h2, returned, about) ==
  /\ steps' = steps + 1
  /\ h' = h2 /\ held' = held \cup returned /\ last' = about
  /\ newest' = IF returned = {} THEN newest ELSE CHOOSE i \in returned : \A j \in returned : j <= i

Plainly(call) == [call |-> call]

\* `\E r \in {e}' names the value of e, and has it computed once.

FromBytes ==
  \E calculate_tree_hash \in BOOLEAN :
    \E r \in {from_bytes_with_cursor(h, Input, cursor, calculate_tree_hash)} :
      /\ Call(r.h, IF r.ok THEN {r.ref} ELSE {}, Plainly("from_bytes"))
      /\ cursor' = r.cursor
      /\ read' = IF r.ok THEN Append(read, r.ref) ELSE read

Parse ==
  \E b \in Blobs :
    \E r \in {parse(h, b)} :
      Call(r.h, {r.ref}, Plainly("parse")) /\ UNCHANGED <<cursor, read>>

\* An int that is cast, as the only call: it makes an atom like any other.
CastInt ==
  \E v \in Ints :
    \E r \in {to(h, OfInt(v))} :
      /\ steps = 0 /\ steps' = MaxSteps
      /\ h' = r.h /\ held' = {r.ref} /\ newest' = r.ref
      /\ last' = [call |-> "int", v |-> v, ref |-> r.ref]
      /\ UNCHANGED <<cursor, read>>

MakePair ==
  \E i, j \in held :
    \E r \in {NewPair(h, i, j)} :
      /\ newest \in {i, j}
      /\ Call(r.h, {r.ref}, Plainly("new_pair"))
      /\ UNCHANGED <<cursor, read>>

TakePair ==
  \E i \in held :
    \E r \in {Pair(h, i)} :
      /\ Known(r.pair)
      /\ Call(r.h, {r.pair[1], r.pair[2]}, Plainly("pair"))
      /\ UNCHANGED <<cursor, read>>

Serialize ==
  \E i \in held : Call(bytes(h, i).h, {}, Plainly("bytes")) /\ UNCHANGED <<cursor, read>>

TreeHash ==
  \E i \in held : Call(tree_hash(h, i).h, {}, Plainly("tree_hash")) /\ UNCHANGED <<cursor, read>>

Curry ==
  \E i, j \in held : \E args \in {<<Obj(j)>>, <<OfInt(1), Obj(j)>>} :
    \E r \in {curry(h, i, args)} :
      /\ newest \in {i, j}
      /\ Call(r.h, {r.ref}, [call |-> "curry", ref |-> r.ref, mod |-> i, args |-> args])
      /\ UNCHANGED <<cursor, read>>

Uncurry ==
  \E i \in held :
    \E r \in {uncurry(h, i)} :
      /\ Call(r.h, {r.mod}, [call |-> "uncurry", ref |-> i, mod |-> r.mod, args |-> r.args])
      /\ UNCHANGED <<cursor, read>>

\* Keyword arguments of replace: one path, two, and two that conflict.
Replacements(j) ==
  {[k \in paths |-> IF Head(k) = "f" THEN Obj(j) ELSE OfInt(7)] :
     paths \in {{<<"r">>}, {<<"f">>, <<"r", "r">>}, {<<"f">>, <<"f", "r">>}}}

\* Program.replace: the original is left as it is.
Replace ==
  \E i, j \in held : \E kwargs \in Replacements(j) :
    \E r \in {replace(h, i, kwargs)} : \E new \in {to(r.h, r.c)} :
      /\ newest \in {i, j}
      /\ IF r.ok
         THEN Call(new.h, {new.ref}, [call |-> "replace", ref |-> new.ref, of |-> i,
                                      ok |-> TRUE, kwargs |-> kwargs])
         ELSE Call(r.h, {}, [call |-> "replace", ref |-> 0, of |-> i,
                             ok |-> FALSE, kwargs |-> kwargs])
      /\ UNCHANGED <<cursor, read>>

\* Program.run_with_cost: what comes back, as a result or with an error, is
\* some node of the arena; here a pair of the two trees.
Run ==
  \E i, j \in held :
    \E program \in {bytes(h, i)} : \E args \in {bytes(program.h, j)} :
    \E r \in {run_serialized_chia_program(program.bytes, args.bytes)} :
    LET both == new_pair(r.a, r.args, r.program)
        result == adapt_response(args.h, both.a, both.node)
    IN  /\ newest \in {i, j}
        /\ IF r.ok
           THEN Call(result.h, {result.ref},
                     [call |-> "run", ok |-> TRUE, program |-> i, args |-> j,
                      seen |-> <<Content(r.a, r.program), Content(r.a, r.args)>>])
           ELSE Call(args.h, {}, [call |-> "run", ok |-> FALSE])
        /\ UNCHANGED <<cursor, read>>

Next ==
  /\ steps < MaxSteps
  /\ \/ FromBytes \/ Parse \/ CastInt
     \/ MakePair \/ TakePair \/ Serialize \/ TreeHash
     \/ Curry \/ Uncurry \/ Replace \/ Run

Spec == Init /\ [][Next]_vars

-----------------------------------------------------------------------------
(* What an object stands for, whatever it has cached.                      *)
RECURSIVE Meaning(_, _)
Meaning(heap, i) ==
  LET o == heap[i]
      t == heap[o.shared]
      b == SubSeq(t.blob, t.int_tuples[o.index + 1].start + 1, Len(t.blob))
      rust == node_from_stream(new_limited, b)
  IN  IF Known(o.atom) THEN <<o.atom[1]>>
      ELSE CASE o.kind = "Program" -> <<Meaning(heap, o.unwrapped_pair[1]),
                                        Meaning(heap, o.unwrapped_pair[2])>>
             [] o.kind = "CLVMTree" -> Content(rust.a, rust.values[1])
             [] o.kind = "LazyNode" -> Content(t.a, o.index)

Programs == {i \in DOMAIN h : h[i].kind = "Program"}

RECURSIVE HashOf(_)
HashOf(t) == IF Len(t) = 1 THEN hash_atom(t[1]) ELSE hash_pair(HashOf(t[1]), HashOf(t[2]))

\* What a castable stands for.
OfCastable(c) ==
  CASE c.is = "object" -> Meaning(h, c.v)
    [] c.is = "int" -> <<ToBytes(c.v, SignedLen(c.v, 3))>>

\* What an object has cached is right: its hash is that of the tree it stands
\* for, and its serialization is one that Rust reads, to the last byte, as
\* that tree.  Caches are filled when a tree is read, copied when an object
\* is wrapped, and used in place of the members' own.
CachesAreRight ==
  \A i \in Programs :
    LET cached == CachedSerialization(h, i)
        rust == node_from_stream(new_limited, cached[1])
    IN  /\ Known(h[i].hash) => h[i].hash[1] = HashOf(Meaning(h, i))
        /\ Known(cached) => /\ rust.ok /\ rust.pos = Len(cached[1])
                            /\ Content(rust.a, rust.values[1]) = Meaning(h, i)

\* from_bytes_with_cursor, called again and again with the cursor it returned,
\* finds the trees that Rust's reader finds one behind the other, also when
\* they are not encoded as the writer would have encoded them.
RECURSIVE FromStream(_, _)
FromStream(blob, n) ==
  IF n = 0 THEN [trees |-> <<>>, pos |-> 0]
  ELSE LET before == FromStream(blob, n - 1)
           r == node_from_stream(new_limited, SubSeq(blob, before.pos + 1, Len(blob)))
       IN  [trees |-> Append(before.trees, Content(r.a, r.values[1])), pos |-> before.pos + r.pos]

CursorFollowsTheStream ==
  LET rust == FromStream(Input, Len(read))
  IN  /\ cursor = rust.pos
      /\ \A n \in DOMAIN read : Meaning(h, read[n]) = rust.trees[n]

\* Program.to of an int makes the atom that Rust's new_number makes, and
\* int_from_bytes gives the int back.
NumbersAreRusts ==
  last.call = "int" =>
    LET rust == new_number(new_limited, last.v, 3) IN
    /\ h[last.ref].atom[1] = Atom(rust.a, rust.node)
    /\ int_from_bytes(h[last.ref].atom[1]) = last.v

\* "they will be the same" (program.py): curry_hash foretells the tree hash of
\* curry from the hashes of the arguments; and uncurry gives the program and
\* the arguments back.
CurryIsForetold ==
  last.call = "curry" =>
    LET args == [k \in DOMAIN last.args |-> OfCastable(last.args[k])]
        hashes == [k \in DOMAIN args |-> HashOf(args[k])]
    IN  /\ tree_hash(h, last.ref).hash = curry_hash(h, last.mod, hashes)
        /\ \E back \in {uncurry(h, last.ref)} :
             /\ Known(back.args)
             /\ Meaning(back.h, back.mod) = Meaning(h, last.mod)
             /\ [k \in DOMAIN back.args[1] |-> Meaning(back.h, back.args[1][k])] = args

\* uncurry takes a program for a curry only if it is one: currying what it
\* returns makes the same program again.
UncurryIsExact ==
  last.call = "uncurry" =>
    IF Known(last.args)
    THEN LET again == curry(h, last.mod, [k \in DOMAIN last.args[1] |-> Obj(last.args[1][k])])
         IN  Meaning(again.h, again.ref) = Meaning(h, last.ref)
    ELSE last.mod = last.ref

\* curry and uncurry are each other's inverse, on programs that are curried and
\* on those that only look like it, and the hash of a curry is known before.
CurryIsInvertible == CurryIsForetold /\ UncurryIsExact

\* The tree with one of its parts replaced, or <<>>.
RECURSIVE With(_, _, _)
With(t, path, new) ==
  IF path = <<>> THEN <<new>>
  ELSE IF Len(t) = 1 THEN <<>>
  ELSE LET side == IF Head(path) = "f" THEN 1 ELSE 2
           inner == With(t[side], Tail(path), new)
       IN  IF inner = <<>> THEN <<>> ELSE <<[t EXCEPT ![side] = inner[1]]>>

\* replace with several paths is replacing them one after the other in any
\* order; it is refused where a path leads into an atom, or through another.
ReplaceIsOneByOne ==
  last.call = "replace" =>
    LET t == Meaning(h, last.of)
        paths == DOMAIN last.kwargs
        conflict == \E p, q \in paths : p # q /\ Len(p) <= Len(q) /\ p = SubSeq(q, 1, Len(p))
        Step(s, p) == IF s = <<>> THEN <<>> ELSE With(s[1], p, OfCastable(last.kwargs[p]))
    IN  IF conflict THEN ~last.ok
        ELSE \A p, q \in paths :
               {p, q} = paths =>
                 LET s == Step(Step(<<t>>, p), q)
                 IN  /\ last.ok <=> s # <<>>
                     /\ last.ok => Meaning(h, last.ref) = s[1]

\* Rust runs the program, and the arguments, that Python holds: the bytes
\* handed over are read, whatever mixture of objects they were taken from.
RunSeesTheSameTrees ==
  last.call = "run" =>
    /\ last.ok
    /\ last.seen = <<Meaning(h, last.program), Meaning(h, last.args)>>

\* Rust and Python mean the same by a tree and by a number.
RustSeesTheSame == RunSeesTheSameTrees /\ NumbersAreRusts

\* "Program objects are immutable" (program.py): no call changes what an object
\* stands for, and what was cached, the members included, stays.
Stays(old, new) == Known(old) => new = old

ObjectsAreImmutable ==
  [][\A i \in DOMAIN h :
       IF h[i].kind \in {"tuples", "arena"} THEN h'[i] = h[i]
       ELSE /\ h'[i] = [h[i] EXCEPT !.pair = h'[i].pair, !.hash = h'[i].hash, !.ser = h'[i].ser]
            /\ Stays(h[i].pair, h'[i].pair)
            /\ Stays(h[i].hash, h'[i].hash)
            /\ Stays(h[i].ser, h'[i].ser)]_vars

-----------------------------------------------------------------------------
\* (5 . (2 (1 . 6) 1)), its first atom not in the shortest form; an atom;
\* and a tree that is cut off.
SomeInput == <<255, 129, 5, 255, 2, 255, 255, 1, 6, 255, 1, 128, 192, 1, 9, 255>>
\* (2 (1 . 6) 1 . 7), almost a curry, with an atom whose size has seven bytes.
SomeBlobs == {<<255, 2, 255, 255, 1, 254, 0, 0, 0, 0, 0, 1, 6, 255, 1, 7>>}
SomeInts == {0, 1, -1, 127, 128, -128, -129, 255, 256, 32767, 32768, -32768, -32769}
=============================================================================
