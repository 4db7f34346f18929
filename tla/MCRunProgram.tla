---------------------------- MODULE MCRunProgram ----------------------------
(***************************************************************************)
(* The interpreter on families of small programs, and a reference          *)
(* evaluator: a recursive definition, on trees, of what a CLVM program     *)
(* returns and costs.  An atom is <<bytes>>, a pair is <<left, right>>.    *)
(***************************************************************************)
EXTENDS RunProgram
SX == INSTANCE SequencesExt

IsLeaf(t) == Len(t) = 1
Num(n) == <<ToBytes(n, len_for_value(n))>>
Nil == <<<<>>>>
List(ts) == SX!FoldRight(LAMBDA t, acc : <<t, acc>>, ts, Nil)
Quote(t) == <<Num(1), t>>
Op(n, ts) == <<Num(n), List(ts)>>

\* The tree a node stands for.
RECURSIVE Tree(_, _)
Tree(a, n) ==
  IF IsAtom(n) THEN <<Atom(a, n)>>
  ELSE <<Tree(a, First(a, n)), Tree(a, Rest(a, n))>>

\* The tree built in an allocator.
RECURSIVE Load(_, _)
Load(a, t) ==
  IF IsLeaf(t) THEN new_atom(a, t[1])
  ELSE LET l == Load(a, t[1])
           r == Load(l.a, t[2])
       IN  IF l.ok /\ r.ok THEN new_pair(r.a, l.node, r.node) ELSE Err(r.a)

-----------------------------------------------------------------------------
(* The reference evaluator.                                                *)

Value(v, c) == [ok |-> TRUE, v |-> v, cost |-> c]
Fail == [ok |-> FALSE, v |-> Nil, cost |-> 0]
Within(r, budget) == IF r.ok /\ r.cost <= budget THEN r ELSE Fail
Plus(r, c) == IF r.ok THEN [r EXCEPT !.cost = @ + c] ELSE r

\* Path n: 1 is the whole tree, an even path goes left first, an odd one right.
RECURSIVE Follow(_, _)
Follow(n, t) ==
  CASE n = 0 -> Value(Nil, 44)
    [] n = 1 -> Value(t, 44)
    [] n > 1 /\ IsLeaf(t) -> Fail
    [] OTHER -> Plus(Follow(n \div 2, t[1 + (n % 2)]), 4)

\* The items of a list, whatever ends it, and the atom that ends it.
RECURSIVE Elements(_)
Elements(t) == IF IsLeaf(t) THEN <<>> ELSE <<t[1]>> \o Elements(t[2])
RECURSIVE ListEnd(_)
ListEnd(t) == IF IsLeaf(t) THEN t ELSE ListEnd(t[2])

Total(args) == SX!FoldLeft(LAMBDA acc, t : acc + Len(t[1]), 0, args)
Joined(args) == SX!FlattenSeq([i \in DOMAIN args |-> args[i][1]])
Leaves(args) == \A i \in DOMAIN args : IsLeaf(args[i])
Bool(b) == IF b THEN Num(1) ELSE Nil
UInt(t) == IF ~IsLeaf(t) \/ (t[1] # <<>> /\ t[1][1] >= 128) THEN None
           ELSE BigEndian(t[1])

\* The cost of the arguments is multiplied as a Cost, which may wrap around.
RefUnknown(opcode, args) ==
  LET last == opcode[Len(opcode)]
      n == Len(args)
      base == CASE last < 64 -> 1
                [] last \in 64 .. 127 -> 99 + 320 * n + 3 * Total(args)
                [] last \in 128 .. 191 ->
                     92 + SX!FoldLeft(+, 0, [i \in 1 .. n - 1 |->
                            885 + 6 * Total(SubSeq(args, 1, i + 1))
                              + (Total(SubSeq(args, 1, i))
                                   * Len(args[i + 1][1])) \div 128])
                [] OTHER -> 142 + 135 * n + 3 * Total(args)
  IN  IF opcode = <<>> \/ Len(opcode) > 3 THEN Fail
      ELSE IF Len(opcode) > 1 /\ SubSeq(opcode, 1, 2) = <<255, 255>> THEN Fail
      ELSE IF last >= 64 /\ ~Leaves(args) THEN Fail
      ELSE LET c == (base * (BigEndian(SubSeq(opcode, 1, Len(opcode) - 1)) + 1)) % COST_MOD
           IN  IF c > 65535 THEN Fail ELSE Value(Nil, c)

RefOp(opcode, args, flags, keccak) ==
  LET n == Len(args)
      is(k) == opcode = <<k>>
  IN  CASE is(3) -> IF n # 3 THEN Fail
                    ELSE Value(IF args[1] = Nil THEN args[3] ELSE args[2], 33)
        [] is(4) -> IF n = 2 THEN Value(args, 50) ELSE Fail
        [] is(5) -> IF n = 1 /\ ~IsLeaf(args[1]) THEN Value(args[1][1], 30) ELSE Fail
        [] is(6) -> IF n = 1 /\ ~IsLeaf(args[1]) THEN Value(args[1][2], 30) ELSE Fail
        [] is(7) -> IF n = 1 THEN Value(Bool(~IsLeaf(args[1])), 19) ELSE Fail
        [] is(8) -> Fail
        [] is(9) -> IF n = 2 /\ Leaves(args)
                    THEN Value(Bool(args[1] = args[2]), 117 + Total(args)) ELSE Fail
        [] is(13) -> IF n = 1 /\ Leaves(args)
                     THEN LET len == Num(Len(args[1][1]))
                          IN  Value(len, 173 + Total(args) + 10 * Len(len[1]))
                     ELSE Fail
        [] is(14) -> IF Leaves(args)
                     THEN Value(<<Joined(args)>>, 142 + 135 * n + (3 + 10) * Total(args))
                     ELSE Fail
        [] is(32) -> IF n = 1 THEN Value(Bool(args[1] = Nil), 200) ELSE Fail
        [] is(33) -> Value(Bool(\E i \in 1 .. n : args[i] # Nil), 200 + 300 * n)
        [] is(34) -> Value(Bool(\A i \in 1 .. n : args[i] # Nil), 200 + 300 * n)
        [] is(62) /\ keccak ->
             IF Leaves(args)
             THEN LET digest == Keccak256(Joined(args))
                  IN  Value(<<digest>>, 50 + 160 * n + 2 * Total(args) + 10 * Len(digest))
             ELSE Fail
        [] OTHER -> IF "NO_UNKNOWN_OPS" \in flags THEN Fail
                    ELSE RefUnknown(opcode, args)

\* keccak256 is an operator like any other.
Everywhere(flags) == "ENABLE_KECCAK_OPS_OUTSIDE_GUARD" \in flags

\* What program p returns in environment env, if it costs at most budget.
RECURSIVE Eval(_, _, _, _, _)
RECURSIVE EvalAll(_, _, _, _, _)
RECURSIVE RefApply(_, _, _, _, _)
Eval(p, env, budget, flags, keccak) ==
  IF budget < 0 THEN Fail
  ELSE IF IsLeaf(p)
  THEN Within(Plus(Follow(BigEndian(p[1]), env),
                   4 * Cardinality({i \in DOMAIN p[1] : \A j \in 1 .. i : p[1][j] = 0})),
              budget)
  ELSE IF p[1] = Num(1) THEN Within(Value(p[2], 20), budget)
  ELSE IF IsLeaf(p[1])
  THEN LET vs == EvalAll(Elements(p[2]), env, budget - 1, flags, keccak)
       IN  IF ~vs.ok \/ ListEnd(p[2]) # Nil THEN Fail
           ELSE Plus(RefApply(p[1][1], vs.v, budget - 1 - vs.cost, flags, keccak),
                     1 + vs.cost)
  ELSE IF Len(Elements(p[1])) = 1 /\ IsLeaf(p[1][1])
  THEN Plus(RefApply(p[1][1][1], Elements(p[2]), budget - 90, flags, keccak), 90)
  ELSE Fail

EvalAll(ps, env, budget, flags, keccak) ==
  IF ps = <<>> THEN Value(<<>>, 0)
  ELSE LET r == Eval(Head(ps), env, budget, flags, keccak)
           rs == EvalAll(Tail(ps), env, budget - r.cost, flags, keccak)
       IN  IF r.ok /\ rs.ok THEN Value(<<r.v>> \o rs.v, r.cost + rs.cost) ELSE Fail

RefApply(opcode, args, budget, flags, keccak) ==
  LET n == Len(args)
      declared == IF n = 0 THEN None ELSE UInt(args[1])
      extension == IF n = 4 /\ UInt(args[2]) <= 65535 THEN UInt(args[2]) ELSE None
      known == \/ extension = 0
               \/ extension = 1 /\ "ENABLE_KECCAK" \in flags
      guarded == Plus(Eval(args[3], args[4], declared - 140, flags,
                           extension = 1 \/ Everywhere(flags)), 140)
  IN  CASE opcode = <<2>> ->
             IF n # 2 THEN Fail
             ELSE Plus(Eval(args[1], args[2], budget - 90, flags, keccak), 90)
        [] opcode = <<36>> ->
             IF declared \in {None, 0} \/ declared > budget THEN Fail
             ELSE IF known
             THEN IF guarded.ok /\ guarded.cost = declared
                  THEN Value(Nil, declared) ELSE Fail
             ELSE IF "NO_UNKNOWN_OPS" \in flags THEN Fail ELSE Value(Nil, declared)
        [] OTHER -> Within(RefOp(opcode, args, flags, keccak), budget)

-----------------------------------------------------------------------------
(* Programs.                                                               *)

MkCall(program, env, max_cost, flags) ==
  LET e == Load(new_limited, env)
      p == Load(e.a, program)
  IN  [allocator |-> p.a, program |-> p.node, env |-> e.node,
       max_cost |-> max_cost, dialect |-> "ChiaDialect", flags |-> flags]

\* Hashes that tell the inputs of the programs apart.
MCKeccak(v) == <<200, (Len(v) + BigEndian(v)) % 256>>
MCSha256(v) == <<100, (Len(v) + BigEndian(v)) % 256>>
MCHash(v, dst) == (Len(v) + BigEndian(v) + Len(dst)) % GROUP_ORDER
Dst == <<1>>

\* The table of ChiaDialect for a RuntimeDialect.
ChiaTable ==
  LET tables == {<<3, FROM_3>>, <<16, FROM_16>>, <<29, FROM_29>>, <<32, FROM_32>>,
                 <<48, FROM_48>>}
      is(n, name) == \E t \in tables : /\ n - t[1] + 1 \in DOMAIN t[2]
                                       /\ t[2][n - t[1] + 1] = name
  IN  [name \in opcode_by_name \ {"op_secp256k1_verify", "op_secp256r1_verify"} |->
         <<CHOOSE n \in 3 .. 61 : is(n, name)>>]

Keys == {<<7>>}
Signatures == {<<9>>}
Signed == {<<<<7>>, <<100, 5>>, <<9>>>>}
Env == <<<<Num(5), Nil>>, Num(300)>>

Leaf == {Num(1), Num(2), Num(3), Num(4), Num(8), Quote(Nil), Quote(Num(5))}
Simple ==
  Leaf \cup {Op(n, <<x>>) : n \in 5 .. 8, x \in Leaf}
       \cup {Op(n, <<x, y>>) : n \in {4, 9}, x, y \in Leaf}
       \cup {Op(3, <<x, Num(2), y>>) : x, y \in Leaf}

\* Operators nested in operators; the three ways to apply; ill-formed lists.
CorePrograms ==
  {Op(n, <<x>>) : n \in 5 .. 7, x \in Simple}
    \cup {Op(4, <<x, y>>) : x \in Simple, y \in Leaf}
    \cup {Op(2, <<Quote(x), y>>) : x \in Simple, y \in Leaf}
    \cup {<<<<Num(n), Nil>>, List(<<x, y>>)>> : n \in {2, 4, 9}, x \in Simple,
                                                y \in {Num(2), Quote(Nil)}}
    \cup {<<<<<<Num(4), x>>, y>>, List(<<x, y>>)>> : x, y \in Leaf}
    \cup {<<Num(n), <<x, y>>>> : n \in {2, 5}, x, y \in Leaf}
    \cup {Op(2, <<Num(1), Num(1)>>), Op(2, <<Num(2), Num(1)>>), Op(2, <<Num(1)>>)}
    \cup {<<v>> : v \in {<<0>>, <<0, 1>>, <<0, 0, 2>>, <<0, 128>>, <<1, 0>>, <<0, 255>>,
                         <<1, 2, 3, 4>>}}

\* Unknown operators: every cost function, with and without a multiplier.
UnknownPrograms ==
  {<<<<op1>>, List(args)>> :
     op1 \in {<<>>, <<0>>, <<15>>, <<62>>, <<70>>, <<130>>, <<200>>, <<3, 0>>, <<2, 70>>,
              <<255, 255>>, <<255, 255, 0>>, <<1, 0, 15>>, <<0, 0, 0, 0>>, <<255, 200>>},
     args \in {<<>>, <<Quote(Num(5))>>, <<Quote(Num(5)), Quote(Num(300)), Num(3)>>,
               <<Num(1)>>, <<Num(3), Num(2)>>}}

\* The product wraps around, to less and to more than an operator may cost.
WrappingPrograms ==
  {<<<<op1>>, List(<<Quote(<<<<1, 2, 3, 4>>>>), Quote(<<v>>)>>)>> :
     op1 \in {<<127, 255, 130>>, <<127, 255, 70>>, <<255, 0, 200>>},
     v \in {<<1, 2, 3>>, <<1, 2, 3, 4>>}}

\* Operators that test the cost as they go, and what they are nested in.
ListOps ==
  {Op(n, <<x>>) : n \in {13, 14, 32, 33}, x \in Leaf}
    \cup {Op(n, <<x, y>>) : n \in {14, 33, 34}, x, y \in Leaf}
ListPrograms ==
  ListOps \cup {Op(14, <<x, Num(3), x>>) : x \in ListOps}
          \cup {Op(4, <<x, Op(13, <<x>>)>>) : x \in ListOps}

\* Softfork calls.  The declared cost is the one the program has (as far as
\* the reference can tell), or off by one.
Declared(p, flags) ==
  LET r == Eval(p, Env, 3000, flags, TRUE) IN IF r.ok THEN r.cost + 140 ELSE 300

Softfork4(c, ext, p) == Op(36, <<Quote(Num(c)), Quote(ext), Quote(p), Num(1)>>)

Guarded(ps, exts) ==
  UNION {{Softfork4(c, ext, p) : c \in {Declared(p, {"ENABLE_KECCAK"}) + d : d \in -1 .. 1},
                                 ext \in exts} : p \in ps}

Inner == {Num(3), Op(4, <<Num(2), Num(3)>>), Op(62, <<Num(3)>>), Op(62, <<Quote(Nil), Num(1)>>),
          Op(9, <<Op(62, <<>>), Op(62, <<>>)>>), Op(8, <<>>), Op(2, <<Num(1), Num(1)>>)}

Extensions == {Nil, Num(1), Num(2), <<<<0, 1>>>>, <<<<0, 0>>>>, <<<<200>>>>, <<<<1, 0, 0>>>>, Env}

OneGuard == Guarded(Inner, Extensions)

SoftforkPrograms ==
  OneGuard
    \cup {Op(4, <<Op(62, <<Num(3)>>), g>>) : g \in Guarded(Inner, {Num(1)})}
    \cup {Op(4, <<g, Op(4, <<Num(2), Op(62, <<Num(3)>>)>>)>>) : g \in Guarded(Inner, {Nil, Num(1)})}
    \cup Guarded(Guarded(Inner, {Num(1), Num(2)}), {Nil, Num(1)})
    \cup Guarded({Op(4, <<g, Op(62, <<Num(3)>>)>>) : g \in Guarded(Inner, {Nil, Num(1)})},
                 {Nil, Num(1)})
    \cup {Op(36, args) : args \in {<<>>, <<Quote(Num(200))>>, <<Quote(Nil), Quote(Nil)>>,
                                   <<Num(1), Num(1), Num(1), Num(1)>>,
                                   <<Quote(Num(200)), Quote(Nil), Quote(Nil)>>}}
    \cup {Op(4, <<x, x>>) : x \in {Softfork4(c, Num(2), Nil) : c \in {1, 500, 1000, 2000}}}

Modes == {{}, {"NO_UNKNOWN_OPS"}, {"ENABLE_KECCAK"}, {"NO_UNKNOWN_OPS", "ENABLE_KECCAK"},
          {"ENABLE_KECCAK_OPS_OUTSIDE_GUARD"}}

\* Applies its environment to itself, which in that environment never ends.
Forever == Op(2, <<Num(1), Num(1)>>)

CoreCalls ==
  {MkCall(p, Env, 700, {}) : p \in CorePrograms}
    \cup {MkCall(Forever, Forever, 2500, {})}
    \cup {MkCall(p, Env, 3000, f) : p \in UnknownPrograms, f \in SUBSET {"NO_UNKNOWN_OPS"}}
    \cup {MkCall(p, Env, m, {}) : p \in WrappingPrograms, m \in {3000, 60000}}
\* A limit of what the program costs, and of one less.
EdgeCalls ==
  UNION {LET r == Eval(p, Env, 5000, {}, FALSE)
             c == IF r.ok THEN r.cost ELSE 5000
         IN  {MkCall(p, Env, m, {}) : m \in {c - 1, c}} : p \in ListPrograms}
SoftforkCalls ==
  {MkCall(p, Env, 2500, f) : p \in SoftforkPrograms, f \in Modes}
    \cup {MkCall(p, Env, 1000, {"ENABLE_KECCAK"}) : p \in SoftforkPrograms}
AllCalls == CoreCalls \cup EdgeCalls \cup SoftforkCalls

\* No limit on the cost: a call that is not understood costs nearly all there
\* is, and a cons follows.
UnlimitedCalls ==
  {MkCall(Op(4, <<Op(36, <<Quote(<<<<0, 255, 255, b>>>>)>>), Num(1)>>), Env, 0, {}) :
     b \in {0, 50, 100, 150, 200}}

-----------------------------------------------------------------------------
\* The stack machine computes what the recursive definition says: the same
\* programs fail, and the others return the same tree at the same cost.
MatchesReference ==
  Ended =>
    LET a == call.allocator
        ref == Eval(Tree(a, call.program), Tree(a, call.env), MaxCost, call.flags,
                    Everywhere(call.flags))
    IN  /\ (status = "ok") = ref.ok
        /\ status = "ok" => Tree(allocator, result) = ref.v /\ cost = ref.cost
=============================================================================
