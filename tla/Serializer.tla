------------------------------ MODULE Serializer ------------------------------
(***************************************************************************)
(* The incremental serializer (src/serde/incremental.rs) and the one of    *)
(* whole trees (src/serde/ser_br.rs).  A client adds trees with sentinels  *)
(* where later trees will go, and undoes additions, latest first.          *)
(*                                                                         *)
(* ObjectCache's hashes and lengths are what they should be: functions of  *)
(* the tree, and none for a tree with a sentinel in it.                    *)
(***************************************************************************)
EXTENDS ReadCacheLookup
LOCAL INSTANCE SequencesExt
LOCAL INSTANCE FiniteSetsExt

CONSTANTS
  Trees,    \* the trees the client adds
  MaxAdds   \* most calls of add() that are not undone

ASSUME SerializerAssumption == MaxAdds \in Nat

VARIABLES
  read_op_stack, write_stack, read_cache_lookup, output,
  adding,  \* an add() is in its loop
  undo,    \* the undo states the client holds, with what was built before
  built    \* what the client has asked for so far, or <<>>

serializer == <<read_op_stack, write_stack, read_cache_lookup, output>>
vars == <<serializer, adding, undo, built>>

Sentinel == <<-1>>

\* The subtrees of a tree, itself included, and whether a sentinel is one.
RECURSIVE Subtrees(_)
Subtrees(t) ==
  {t} \cup (IF IsLeaf(t) THEN {} ELSE Subtrees(t[1]) \cup Subtrees(t[2]))
Unfinished(t) == Sentinel \in Subtrees(t)

\* The length of a tree serialized with no back reference.
RECURSIVE serialized_length(_)
serialized_length(t) ==
  IF IsLeaf(t) THEN serialized_length_atom(t[1], TRUE)
  ELSE 1 + serialized_length(t[1]) + serialized_length(t[2])

Init ==
  /\ read_op_stack = <<"Parse">>
  /\ write_stack = <<>>
  /\ read_cache_lookup = NewLookup
  /\ output = <<>>
  /\ adding = FALSE
  /\ undo = <<>>
  /\ built = <<>>

\* u takes the place of the first sentinel of t.
RECURSIVE Fill(_, _)
Fill(t, u) ==
  IF t = Sentinel THEN u
  ELSE IF IsLeaf(t) THEN t
  ELSE IF Unfinished(t[1]) THEN <<Fill(t[1], u), t[2]>>
  ELSE <<t[1], Fill(t[2], u)>>

\* add(): its start.  The assert on read_op_stack holds for a client that
\* stops once add() has returned true.
Add(t) ==
  /\ ~adding /\ read_op_stack # <<>> /\ Len(undo) < MaxAdds
  /\ undo' = Append(undo, [read_op_stack |-> read_op_stack,
                           write_stack |-> write_stack,
                           read_cache_lookup |-> read_cache_lookup,
                           output_position |-> Len(output), built |-> built])
  /\ write_stack' = Append(write_stack, t)
  /\ built' = IF built = <<>> THEN t ELSE Fill(built, t)
  /\ adding' = TRUE
  /\ UNCHANGED <<read_op_stack, read_cache_lookup, output>>

NodeToWrite == write_stack[Len(write_stack)]
Rest == SubSeq(write_stack, 1, Len(write_stack) - 1)

\* add() returns true.
AddDone ==
  /\ adding /\ write_stack = <<>>
  /\ adding' = FALSE
  /\ UNCHANGED <<serializer, undo, built>>

\* add() meets the sentinel and returns false.
AddPaused ==
  /\ adding /\ write_stack # <<>> /\ NodeToWrite = Sentinel
  /\ write_stack' = Rest
  /\ adding' = FALSE
  /\ UNCHANGED <<read_op_stack, read_cache_lookup, output, undo, built>>

\* The loop's trailing pop2_and_cons, one for each Cons on top.
Reduced(ops, lookup) ==
  LET n == PendingCons(ops)
  IN  [ops |-> SubSeq(ops, 1, Len(ops) - n),
       lookup |-> FoldLeft(LAMBDA acc, i : pop2_and_cons(acc), lookup, [i \in 1 .. n |-> i])]
Reduce(ops, lookup) ==
  /\ read_op_stack' = Reduced(ops, lookup).ops
  /\ read_cache_lookup' = Reduced(ops, lookup).lookup

\* Bug: the right child is written first.
RightFirst(t) == t

\* The children of a pair as they are pushed: the left one is written first.
LeftFirst(t) == <<t[2], t[1]>>

\* A turn of the loop: a back reference, a pair or an atom.
WriteNode ==
  LET t == NodeToWrite
      ops == SubSeq(read_op_stack, 1, Len(read_op_stack) - 1)
      path == IF Unfinished(t) THEN <<>>
              ELSE find_path(read_cache_lookup, t, serialized_length(t))
  IN  /\ adding /\ write_stack # <<>> /\ t # Sentinel
      /\ UNCHANGED <<adding, undo, built>>
      /\ \/ /\ path # <<>>
            /\ output' = Append(output, BackRef(path[1]))
            /\ write_stack' = Rest
            /\ Reduce(ops, push(read_cache_lookup, t))
         \/ /\ path = <<>> /\ ~IsLeaf(t)
            /\ output' = Append(output, ConsToken)
            /\ write_stack' = Rest \o LeftFirst(t)
            /\ Reduce(ops \o <<"Cons", "Parse", "Parse">>, read_cache_lookup)
         \/ /\ path = <<>> /\ IsLeaf(t)
            /\ output' = Append(output, AtomToken(t))
            /\ write_stack' = Rest
            /\ Reduce(ops, push(read_cache_lookup, t))

\* Bug: the nodes still to be written are not put back.
RestoreKeepingNodes ==
  \E i \in DOMAIN undo :
    /\ ~adding
    /\ read_op_stack' = undo[i].read_op_stack
    /\ read_cache_lookup' = undo[i].read_cache_lookup
    /\ output' = SubSeq(output, 1, undo[i].output_position)
    /\ built' = undo[i].built
    /\ undo' = SubSeq(undo, 1, i - 1)
    /\ UNCHANGED <<adding, write_stack>>

\* restore(): to the state before one of the additions.
Restore ==
  \E i \in DOMAIN undo :
    /\ ~adding
    /\ read_op_stack' = undo[i].read_op_stack
    /\ write_stack' = undo[i].write_stack
    /\ read_cache_lookup' = undo[i].read_cache_lookup
    /\ output' = SubSeq(output, 1, undo[i].output_position)
    /\ built' = undo[i].built
    /\ undo' = SubSeq(undo, 1, i - 1)
    /\ UNCHANGED adding

-----------------------------------------------------------------------------
(* The serializer of a whole tree (ser_br.rs), a loop of its own.          *)

\* Bug: only one Cons is carried out.
BackrefsTurnOneCons(s) ==
  LET t == Last(s.write_stack)
      path == find_path(s.lookup, t, serialized_length(t))
      Written(token, nodes, ops, lookup) ==
        LET all == Front(s.ops) \o ops
            cons == all # <<>> /\ Last(all) = "Cons"
        IN  [ops |-> IF cons THEN Front(all) ELSE all,
             lookup |-> IF cons THEN pop2_and_cons(lookup) ELSE lookup,
             write_stack |-> Front(s.write_stack) \o nodes, out |-> Append(s.out, token)]
  IN  IF path # <<>> THEN Written(BackRef(path[1]), <<>>, <<>>, push(s.lookup, t))
      ELSE IF IsLeaf(t) THEN Written(AtomToken(t), <<>>, <<>>, push(s.lookup, t))
      ELSE Written(ConsToken, <<t[2], t[1]>>, <<"Cons", "Parse", "Parse">>, s.lookup)

\* A turn of the loop: the token that is written, what there is to write and
\* to read after it, and what the reader's stack becomes.
BackrefsTurn(s) ==
  LET t == Last(s.write_stack)
      path == find_path(s.lookup, t, serialized_length(t))
      Written(token, nodes, ops, lookup) ==
        LET reduced == Reduced(Front(s.ops) \o ops, lookup)
        IN  [ops |-> reduced.ops, lookup |-> reduced.lookup,
             write_stack |-> Front(s.write_stack) \o nodes, out |-> Append(s.out, token)]
  IN  IF path # <<>> THEN Written(BackRef(path[1]), <<>>, <<>>, push(s.lookup, t))
      ELSE IF IsLeaf(t) THEN Written(AtomToken(t), <<>>, <<>>, push(s.lookup, t))
      ELSE Written(ConsToken, <<t[2], t[1]>>, <<"Cons", "Parse", "Parse">>, s.lookup)

RECURSIVE LoopBackrefs(_)
LoopBackrefs(s) == IF s.write_stack = <<>> THEN s.out ELSE LoopBackrefs(BackrefsTurn(s))

node_to_stream_backrefs(t) ==
  LoopBackrefs([ops |-> <<"Parse">>, write_stack |-> <<t>>, lookup |-> NewLookup, out |-> <<>>])

-----------------------------------------------------------------------------
Next == (\E t \in Trees : Add(t)) \/ AddDone \/ AddPaused \/ WriteNode \/ Restore

Spec == Init /\ [][Next]_vars

-----------------------------------------------------------------------------
(* Properties.                                                             *)

Reader == node_from_stream_backrefs(output)

\* The serializer's picture of its reader is right at every moment, also
\* after an undo: a reader of the output so far has the same operations to
\* do and the same values on its stack, and met no bad back reference.
PictureOfReader ==
  /\ Reader.ok
  /\ Reader.values = read_cache_lookup.root_hash
  /\ Len(Reader.ops) = Len(read_op_stack)
  /\ \A i \in DOMAIN read_op_stack :
       Reader.ops[i] = IF read_op_stack[i] = "Parse" THEN "SExp" ELSE "Cons"

\* What was asked for is what a reader gets: when add() has returned true the
\* output decodes to the tree built, whatever was added and undone before.
RoundTrip ==
  (read_op_stack = <<>> /\ ~adding) =>
    Reader.ops = <<>> /\ Reader.values = <<built, Nil>>

\* A node still to be written has its Parse waiting on read_op_stack (add()
\* asserts it), and between calls of add() exactly one more for the sentinel.
ParsesMatchNodes ==
  Cardinality({i \in DOMAIN read_op_stack : read_op_stack[i] = "Parse"}) =
    Len(write_stack) + (IF ~adding /\ read_op_stack # <<>> THEN 1 ELSE 0)

\* The reference counts tell exactly which trees are on the reader's stack
\* now: none is searched for in vain, and none is missed.
CountsTellPresence ==
  \A t \in DOMAIN read_cache_lookup.count :
    /\ Count(read_cache_lookup, t) >= 0
    /\ Count(read_cache_lookup, t) > 0 <=>
         t \in Subtrees(read_cache_lookup.root_hash)

\* What the serializer believes of its reader is true of it: its stack, the
\* operations it has left, and which trees it can refer to.
PictureIsRight == PictureOfReader /\ ParsesMatchNodes /\ CountsTellPresence

\* All the paths to t in a tree.
RECURSIVE PathsTo(_, _)
PathsTo(t, root) ==
  IF t = root THEN {<<>>}
  ELSE IF IsLeaf(root) THEN {}
  ELSE {<<0>> \o p : p \in PathsTo(t, root[1])} \cup {<<1>> \o p : p \in PathsTo(t, root[2])}

\* The node that WriteNode would write next can be looked for.
Searchable == adding /\ write_stack # <<>> /\ ~Unfinished(NodeToWrite)
Search == find_path(read_cache_lookup, NodeToWrite, serialized_length(NodeToWrite))
AllPaths == PathsTo(NodeToWrite, read_cache_lookup.root_hash)

\* A search that finds something finds a shortest path ("us quickly determine
\* which back-reference has the shortest path"), by which the reader comes to
\* the tree.
FoundPathIsShortest ==
  Searchable /\ Search # <<>> =>
    /\ traverse_path(Search[1], read_cache_lookup.root_hash) = NodeToWrite
    /\ \A p \in AllPaths : Len(Turns(Search[1])) <= Len(p)

\* A path that is found, the marker 0xfe and a length byte take no more than
\* the tree.  (A path of 0x40 bytes has a longer length prefix: then the back
\* reference can take more than what it stands for.)
FoundPathPays ==
  Searchable /\ Search # <<>> =>
    Len(Search[1]) + 2 <= serialized_length(NodeToWrite)

\* "If multiple paths exist, the lexicographically smallest one will be
\* returned."
FoundPathIsSmallest ==
  Searchable /\ Search # <<>> =>
    \A p \in AllPaths : Len(p) = Len(Turns(Search[1])) =>
                          AtMost(Search[1], reversed_path_to_vec_u8(p))

\* Of the trees long enough to be looked for, none is written out although a
\* back reference would have been shorter: neither the counts, nor the set of
\* trees met, nor the limit on the length hide a path.
NothingMissed ==
  Searchable /\ serialized_length(NodeToWrite) >= 4 /\ Search = <<>> =>
    \A p \in AllPaths :
      back_reference_size(reversed_path_to_vec_u8(p)) >= serialized_length(NodeToWrite)

\* The search for back references is the best there is: a path that it finds
\* leads the reader to the tree, is a shortest one and short enough, and it
\* finds one whenever that saves a byte.
BestReference == FoundPathIsShortest /\ FoundPathPays /\ NothingMissed

\* "serializing with the regular compressed serializer should yield the same
\* result as using the incremental one (as long as it's in a single add()
\* call)" (fuzz_targets/serializer.rs), also after additions that were undone;
\* a tree that is added in parts leaves a reader where it leaves it when it is
\* written at once.
SingleAddIsPlain ==
  (read_op_stack = <<>> /\ ~adding) =>
    LET plain == node_to_stream_backrefs(built)
    IN  /\ Len(undo) = 1 => output = plain
        /\ node_from_stream_backrefs(plain) = Reader
=============================================================================
