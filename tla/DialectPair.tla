----------------------------- MODULE DialectPair -----------------------------
(***************************************************************************)
(* The same call run by two nodes with different dialects: one that        *)
(* enforces more (the mempool, or a node that knows a soft fork) and one   *)
(* that enforces less.  The second starts from the first one's call with a *)
(* dialect given by Relaxed; they share nothing and run in turn.           *)
(***************************************************************************)
EXTENDS MCRunProgram

VARIABLES call_2, allocator_2, val_stack_2, env_stack_2, op_stack_2,
          softfork_stack_2, cost_2, operands_2, result_2, status_2

vars_2 == <<call_2, allocator_2, val_stack_2, env_stack_2, op_stack_2,
            softfork_stack_2, cost_2, operands_2, result_2, status_2>>

Second == INSTANCE RunProgram WITH
  call <- call_2, allocator <- allocator_2, val_stack <- val_stack_2,
  env_stack <- env_stack_2, op_stack <- op_stack_2,
  softfork_stack <- softfork_stack_2, cost <- cost_2, operands <- operands_2,
  result <- result_2, status <- status_2

\* The dialects of nodes that accept what a node with c's dialect accepts.
\* A RuntimeDialect has no softfork extension, no keccak256 and no operator
\* of more than one byte: it takes the two signature operators for unknown
\* ones.
Relaxed(c) ==
  {[c EXCEPT !.flags = @ \ {"NO_UNKNOWN_OPS"}],
   [c EXCEPT !.flags = @ \ {"NO_UNKNOWN_OPS", "ENABLE_KECCAK"}],
   [c EXCEPT !.flags = {}, !.dialect = "RuntimeDialect"]}

PairInit == Init /\ call_2 \in Relaxed(call) /\ Second!Fresh

PairNext ==
  \/ ~Ended /\ Next /\ UNCHANGED vars_2
  \/ Ended /\ Second!Next /\ UNCHANGED vars

PairSpec == PairInit /\ [][PairNext]_<<vars, vars_2>>

\* A soft fork and the mempool's rules only ever reject more: what a node with
\* the stricter dialect accepts, the other accepts too, with the same value and
\* the same cost, although it takes the guards it does not know for calls that
\* return nil and cost what they declare, and a signature it cannot verify for
\* an unknown operator, whose cost is in its opcode.
StricterOnlyRejects ==
  (status = "ok" /\ Second!Ended) =>
    /\ status_2 = "ok"
    /\ cost_2 = cost
    /\ Tree(allocator_2, result_2) = Tree(allocator, result)

-----------------------------------------------------------------------------
(* Programs, many of which leave little room under the limits on pairs,    *)
(* atoms, the heap and the stacks.                                         *)

\* Arithmetic, strings and hashes, on values that are small and large.
OperatorPrograms ==
  {Op(n, <<x, y>>) : n \in {11, 16, 18, 20, 22, 24}, x, y \in {Num(2), Num(3), Num(4)}}
    \cup {Op(4, <<Op(n, <<Num(3), Num(4)>>), Op(m, <<Num(3), Num(3)>>)>>) :
             n, m \in {11, 14, 20}}
    \cup {Op(12, <<x, Quote(Nil), Quote(Num(1))>>) : x \in {Num(3), Quote(<<<<0, 200>>>>)}}

\* The signature operators, with the signature verified or not.
SecpPrograms ==
  {<<<<code>>, List([i \in 1 .. 3 |-> Quote(<<v[i]>>)])>> :
     code \in {<<19, 214, 31, 0>>, <<28, 58, 143, 0>>, <<19, 214, 31, 1>>},
     v \in Signed \cup {<<<<7>>, <<100, 6>>, <<9>>>>}}

PairPrograms == SoftforkPrograms \cup UnknownPrograms \cup Simple \cup OperatorPrograms

PairCalls ==
  {MkCall(p, Env, 2500, f) :
     p \in {q \in PairPrograms : Load(Load(new_limited, Env).a, q).ok},
     f \in {{"NO_UNKNOWN_OPS"}, {"ENABLE_KECCAK"}, {"NO_UNKNOWN_OPS", "ENABLE_KECCAK"}}}
    \cup {MkCall(p, Env, m, {"NO_UNKNOWN_OPS"}) : p \in SecpPrograms,
                                                  m \in {1300061, 1300060, 2000000}}
=============================================================================
