------------------------------ MODULE RunProgram ------------------------------
(***************************************************************************)
(* The interpreter (src/run_program.rs): a loop over a stack of pending    *)
(* operations, with a stack of values, a stack of environments and a stack *)
(* of softfork guards.  One action is one turn of the loop; the loop that  *)
(* pushes the operands of an operator is unrolled, one action a turn.      *)
(*                                                                         *)
(* An error drops the stacks and keeps the allocator, so an action that    *)
(* fails leaves the stacks alone.                                          *)
(***************************************************************************)
EXTENDS Dialect

CONSTANTS
  STACK_SIZE_LIMIT,  \* limit on the value and environment stacks (20000000)
  Calls              \* the calls of run_program that are explored

CallType == [allocator : AllocatorType, program : NodePtr, env : NodePtr,
             max_cost : 0 .. COST_MOD - 1, dialect : Dialects, flags : SUBSET Flags]

ASSUME RunProgramAssumption ==
  /\ STACK_SIZE_LIMIT \in Nat
  /\ Calls \subseteq CallType
  /\ \A c \in Calls : /\ Sound(c.allocator)
                      /\ Valid(c.allocator, c.program) /\ Valid(c.allocator, c.env)

VARIABLES
  call,            \* the arguments of run_program
  allocator,
  val_stack,
  env_stack,
  op_stack,
  softfork_stack,
  cost,
  operands,        \* eval_op_atom's loop in progress, or <<>>
  result,          \* the node returned, once status is "ok"
  status           \* where the call is: started, running or how it ended

stacks == <<val_stack, env_stack, op_stack, softfork_stack>>
vars == <<call, allocator, stacks, cost, operands, result, status>>

QUOTE_COST == 20
APPLY_COST == 90
GUARD_COST == 140
OP_COST == 1

Operation == {"Apply", "Cons", "ExitGuard", "SwapEval"}
Checkpoint == [u8s : Nat, pairs : Nat, atoms : Nat, small_atoms : Nat]
SoftforkGuard == [expected_cost : Nat, allocator_state : Checkpoint,
                  operator_set : OperatorSet]
Status == {"start", "run", "ok", "error", "internal error", "panic"}

\* Stack helpers: the top, and the stack without its n topmost elements.
Top(s) == s[Len(s)]
Drop(s, n) == SubSeq(s, 1, Len(s) - n)

\* A u64 sum in a release build.
AddCost(c) == (cost + c) % COST_MOD

\* RunProgramContext::new
Fresh ==
  /\ allocator = call.allocator
  /\ val_stack = <<>> /\ env_stack = <<>> /\ op_stack = <<>>
  /\ softfork_stack = <<>>
  /\ cost = 0
  /\ operands = <<>>
  /\ result = nil
  /\ status = "start"

Init == call \in Calls /\ Fresh

-----------------------------------------------------------------------------
(* eval_pair: what it does to the caller's stacks m.  `extra' is what the  *)
(* caller adds to the cost that eval_pair returns.                         *)

Stacks(vals, envs, ops, guards) ==
  [vals |-> vals, envs |-> envs, ops |-> ops, guards |-> guards]

SetStacks(m) ==
  /\ val_stack' = m.vals
  /\ env_stack' = m.envs
  /\ op_stack' = m.ops
  /\ softfork_stack' = m.guards

Running == status' = "run"
End(how) == status' = how /\ UNCHANGED <<stacks, cost>>

\* push() and push_env() of n nodes.
Fits(stack, n) == Len(stack) + n <= STACK_SIZE_LIMIT

\* The program is an atom: a path into the environment.
EvalPath(program, env, m, extra) ==
  LET r == Lookup(allocator, program, env)
  IN  /\ IsAtom(program)
      /\ UNCHANGED operands
      /\ IF r.ok /\ Fits(m.vals, 1)
         THEN /\ SetStacks([m EXCEPT !.vals = Append(@, r.node)])
              /\ cost' = AddCost(r.cost + extra)
              /\ Running
         ELSE End("error")

\* ((X) . operands): X is applied to the operands as they are.
EvalWrapped(program, env, m, extra) ==
  LET op_node == First(allocator, program)
  IN  /\ ~IsAtom(program) /\ ~IsAtom(op_node)
      /\ UNCHANGED operands
      /\ IF /\ OneArg(allocator, op_node)
            /\ IsAtom(Arg1(allocator, op_node))
            /\ Fits(m.envs, 1) /\ Fits(m.vals, 2)
         THEN /\ SetStacks([m EXCEPT
                   !.envs = Append(@, env),
                   !.vals = @ \o <<First(allocator, op_node),
                                   Rest(allocator, program)>>,
                   !.ops = Append(@, "Apply")])
              /\ cost' = AddCost(APPLY_COST + extra)
              /\ Running
         ELSE End("error")

IsQuote(program) ==
  small_number(allocator, First(allocator, program)) = quote_kw

EvalQuote(program, m, extra) ==
  /\ ~IsAtom(program) /\ IsAtom(First(allocator, program)) /\ IsQuote(program)
  /\ UNCHANGED operands
  /\ IF Fits(m.vals, 1)
     THEN /\ SetStacks([m EXCEPT !.vals = Append(@, Rest(allocator, program))])
          /\ cost' = AddCost(QUOTE_COST + extra)
          /\ Running
     ELSE End("error")

\* Bug: the environment is not pushed.
EvalOperatorNoEnv(program, env, m, extra) ==
  /\ ~IsAtom(program) /\ IsAtom(First(allocator, program)) /\ ~IsQuote(program)
  /\ IF Fits(m.vals, 1)
     THEN /\ SetStacks([m EXCEPT
                !.ops = Append(@, "Apply"),
                !.vals = Append(@, First(allocator, program))])
          /\ operands' = <<[list |-> Rest(allocator, program),
                            extra |-> extra]>>
          /\ Running
          /\ UNCHANGED cost
     ELSE End("error") /\ UNCHANGED operands

\* (X . operands): the operator is pushed and the operand loop begins.
EvalOperator(program, env, m, extra) ==
  /\ ~IsAtom(program) /\ IsAtom(First(allocator, program)) /\ ~IsQuote(program)
  /\ IF Fits(m.envs, 1) /\ Fits(m.vals, 1)
     THEN /\ SetStacks([m EXCEPT
                !.envs = Append(@, env),
                !.ops = Append(@, "Apply"),
                !.vals = Append(@, First(allocator, program))])
          /\ operands' = <<[list |-> Rest(allocator, program),
                            extra |-> extra]>>
          /\ Running
          /\ UNCHANGED cost
     ELSE End("error") /\ UNCHANGED operands

EvalPair(program, env, m, extra) ==
  \/ EvalPath(program, env, m, extra)
  \/ EvalWrapped(program, env, m, extra)
  \/ EvalQuote(program, m, extra)
  \/ EvalOperator(program, env, m, extra)

\* Every operand is pushed with a SwapEval that will evaluate it.
PushOperand ==
  /\ status = "run" /\ operands # <<>>
  /\ LET list == operands[1].list
     IN  /\ ~IsAtom(list)
         /\ IF Fits(val_stack, 1)
            THEN /\ op_stack' = Append(op_stack, "SwapEval")
                 /\ val_stack' = Append(val_stack, First(allocator, list))
                 /\ operands' = <<[operands[1] EXCEPT
                                     !.list = Rest(allocator, list)]>>
                 /\ UNCHANGED <<env_stack, softfork_stack, cost, status>>
            ELSE End("error") /\ operands' = <<>>
  /\ UNCHANGED <<call, allocator, result>>

\* The operand list must end in nil; the list of results starts as nil.
EndOperands ==
  /\ status = "run" /\ operands # <<>>
  /\ IsAtom(operands[1].list)
  /\ IF nilp(allocator, operands[1].list) /\ Fits(val_stack, 1)
     THEN /\ val_stack' = Append(val_stack, nil)
          /\ cost' = AddCost(OP_COST + operands[1].extra)
          /\ UNCHANGED <<env_stack, op_stack, softfork_stack, status>>
     ELSE End("error")
  /\ operands' = <<>>
  /\ UNCHANGED <<call, allocator, result>>

-----------------------------------------------------------------------------
(* run_program: the start and the turns of its loop.                       *)

MaxCost == IF call.max_cost = 0 THEN COST_MOD - 1 ELSE call.max_cost

Start ==
  /\ status = "start"
  /\ LET r == new_number(allocator, MaxCost, U64_BYTES + 1)
     IN  /\ allocator' = r.a
         /\ IF r.ok
            THEN EvalPair(call.program, call.env,
                          Stacks(val_stack, env_stack, op_stack, softfork_stack), 0)
            ELSE End("error") /\ UNCHANGED operands
  /\ UNCHANGED <<call, result>>

\* Bug: guards set no limit.
MaxCostOnly == MaxCost

effective_max_cost ==
  IF softfork_stack # <<>> THEN Top(softfork_stack).expected_cost ELSE MaxCost

\* The loop gets to pop an operation.
Loop == status = "run" /\ operands = <<>> /\ cost <= effective_max_cost

\* Bug: the error is dropped and the turn taken again.
CostExceededIgnored ==
  /\ status = "run" /\ operands = <<>> /\ cost > effective_max_cost
  /\ UNCHANGED vars

CostExceeded ==
  /\ status = "run" /\ operands = <<>> /\ cost > effective_max_cost
  /\ End("error")
  /\ UNCHANGED <<call, allocator, operands, result>>

Finish ==
  /\ Loop /\ op_stack = <<>>
  /\ IF val_stack # <<>>
     THEN /\ val_stack' = Drop(val_stack, 1)
          /\ result' = Top(val_stack)
          /\ status' = "ok"
          /\ UNCHANGED <<env_stack, op_stack, softfork_stack, cost>>
     ELSE End("internal error") /\ UNCHANGED result
  /\ UNCHANGED <<call, allocator, operands>>

TopOp(o) == Loop /\ op_stack # <<>> /\ Top(op_stack) = o

\* What is left under the two operands of the topmost operation.
Popped2 == Stacks(Drop(val_stack, 2), env_stack, Drop(op_stack, 1), softfork_stack)

\* Two pops, unless the value stack runs empty.
Pop2(A) ==
  IF Len(val_stack) >= 2 THEN A
  ELSE End("internal error") /\ UNCHANGED <<allocator, operands>>

ConsOp ==
  LET v1 == Top(val_stack)
      v2 == val_stack[Len(val_stack) - 1]
      r == new_pair(allocator, v1, v2)
  IN  /\ allocator' = r.a
      /\ UNCHANGED operands
      /\ IF r.ok /\ Fits(Popped2.vals, 1)
         THEN /\ SetStacks([Popped2 EXCEPT !.vals = Append(@, r.node)])
              /\ UNCHANGED <<cost, status>>
         ELSE End("error")

ConsTurn == TopOp("Cons") /\ Pop2(ConsOp) /\ UNCHANGED <<call, result>>

\* Evaluate the next operand in the environment of the operator, keeping the
\* list of results on top of the stack for the Cons that follows.
SwapEvalOp ==
  LET v2 == Top(val_stack)
      program == val_stack[Len(val_stack) - 1]
  IN  /\ UNCHANGED allocator
      /\ IF env_stack # <<>>
         THEN EvalPair(program, Top(env_stack),
                       [Popped2 EXCEPT !.vals = Append(@, v2),
                                       !.ops = Append(@, "Cons")], 0)
         ELSE End("internal error") /\ UNCHANGED operands

SwapEval == TopOp("SwapEval") /\ Pop2(SwapEvalOp) /\ UNCHANGED <<call, result>>

\* The two nodes an Apply pops, and the operator as a keyword.
operand_list == Top(val_stack)
operator == val_stack[Len(val_stack) - 1]
op_atom == small_number(allocator, operator)

Applied == [Popped2 EXCEPT !.envs = Drop(@, 1)]

\* (a program env)
ApplyKw ==
  /\ op_atom = apply_kw
  /\ UNCHANGED allocator
  /\ IF TwoArgs(allocator, operand_list)
     THEN EvalPair(Arg1(allocator, operand_list), Arg2(allocator, operand_list),
                   Applied, APPLY_COST)
     ELSE End("error") /\ UNCHANGED operands

\* parse_softfork_arguments: the operator set, "Default" when it fails.
parse_softfork_arguments ==
  LET ext == uint_atom(allocator, Arg2(allocator, operand_list), U32_BYTES)
  IN  IF FourArgs(allocator, operand_list) /\ ext # None
      THEN softfork_extension(call.dialect, call.flags, ext) ELSE "Default"

\* (softfork cost extension program env): a call that is not understood is
\* an error, or in consensus mode costs what it says and returns nil.
Softfork ==
  LET expected_cost ==
        IF IsAtom(operand_list) THEN None
        ELSE uint_atom(allocator, Arg1(allocator, operand_list), U64_BYTES)
      ext == parse_softfork_arguments
      guard == [expected_cost |-> cost + expected_cost,
                allocator_state |-> checkpoint(allocator),
                operator_set |-> ext]
  IN  /\ op_atom = softfork_kw
      /\ UNCHANGED allocator
      /\ IF expected_cost \in {None, 0} \/ expected_cost > effective_max_cost - cost
         THEN End("error") /\ UNCHANGED operands
         ELSE IF ext # "Default"
         THEN EvalPair(Arg3(allocator, operand_list), Arg4(allocator, operand_list),
                       [Applied EXCEPT !.guards = Append(@, guard),
                                       !.ops = Append(@, "ExitGuard")],
                       GUARD_COST)
         ELSE /\ UNCHANGED operands
              /\ IF allow_unknown_ops(call.flags) /\ Fits(Applied.vals, 1)
                 THEN /\ SetStacks([Applied EXCEPT !.vals = Append(@, nil)])
                      /\ cost' = AddCost(expected_cost)
                      /\ Running
                 ELSE End("error")

\* Bug: the outermost guard decides, not the innermost.
OutermostExtensions ==
  IF softfork_stack # <<>> THEN softfork_stack[1].operator_set ELSE "Default"

current_extensions ==
  IF softfork_stack # <<>> THEN Top(softfork_stack).operator_set ELSE "Default"

\* Any other operator goes to the dialect, whose op() panics on a pair.
DialectOp ==
  /\ op_atom \notin {apply_kw, softfork_kw}
  /\ UNCHANGED operands
  /\ IF IsAtom(operator)
     THEN LET r == op(call.dialect, allocator, call.flags, operator, operand_list,
                      effective_max_cost - cost, current_extensions)
          IN  /\ allocator' = r.a
              /\ IF r.ok /\ Fits(Applied.vals, 1)
                 THEN /\ SetStacks([Applied EXCEPT !.vals = Append(@, r.node)])
                      /\ cost' = AddCost(r.cost)
                      /\ Running
                 ELSE End("error")
     ELSE End("panic") /\ UNCHANGED allocator

ApplyOp ==
  IF env_stack # <<>> THEN ApplyKw \/ Softfork \/ DialectOp
  ELSE End("internal error") /\ UNCHANGED <<allocator, operands>>

Apply == TopOp("Apply") /\ Pop2(ApplyOp) /\ UNCHANGED <<call, result>>

\* Bug: a program may cost less than declared.
GuardCostWithin == cost <= Top(softfork_stack).expected_cost

GuardCostMet == cost = Top(softfork_stack).expected_cost

\* Bug: the nil is pushed on top of the program's value.
GuardValueNotPopped == Append(val_stack, nil)

\* Bug: the program's value is returned.
GuardValueKept == val_stack

\* The value stack after a guard: nil is in the place of the program's value.
GuardValueDropped == Append(Drop(val_stack, 1), nil)

\* The cost must be what the softfork call said.  All that was allocated
\* inside the guard is dropped and its value is replaced by nil.
ExitGuard ==
  LET guard == Top(softfork_stack)
  IN  /\ TopOp("ExitGuard")
      /\ UNCHANGED <<call, operands, result>>
      /\ IF softfork_stack = <<>>
         THEN End("panic") /\ UNCHANGED allocator
         ELSE IF ~GuardCostMet
         THEN End("error") /\ UNCHANGED allocator
         ELSE IF ~RestoreAsserts(allocator, guard.allocator_state) \/ val_stack = <<>>
         THEN End("panic") /\ UNCHANGED allocator
         ELSE /\ allocator' = restore_checkpoint(allocator, guard.allocator_state)
              /\ SetStacks(Stacks(GuardValueDropped, env_stack,
                                  Drop(op_stack, 1), Drop(softfork_stack, 1)))
              /\ UNCHANGED <<cost, status>>

Ended == status \notin {"start", "run"}
Terminated == Ended /\ UNCHANGED vars

Next ==
  \/ Start \/ PushOperand \/ EndOperands
  \/ ConsTurn \/ SwapEval \/ Apply \/ ExitGuard
  \/ CostExceeded \/ Finish \/ Terminated

Spec == Init /\ [][Next]_vars

\* run_program is a plain loop: it keeps taking turns until it returns.
FairSpec == Spec /\ WF_vars(Next)

-----------------------------------------------------------------------------
(* Properties.                                                             *)

\* The stacks hold what RunProgramContext declares.
TypeOK ==
  /\ call \in CallType
  /\ allocator \in AllocatorType
  /\ val_stack \in Seq(NodePtr)
  /\ env_stack \in Seq(NodePtr)
  /\ op_stack \in Seq(Operation)
  /\ softfork_stack \in Seq(SoftforkGuard)
  /\ cost \in 0 .. COST_MOD - 1
  /\ operands \in Seq([list : NodePtr, extra : Nat]) /\ Len(operands) <= 1
  /\ result \in NodePtr
  /\ status \in Status

\* The number of guards entered by the first k operations.
Guards(k) == Cardinality({i \in 1 .. k : op_stack[i] = "ExitGuard"})
Applies == Cardinality({i \in DOMAIN op_stack : op_stack[i] = "Apply"})

\* The value stack holds one value for each pending operation other than an
\* ExitGuard (the operator of an Apply, the operand of a SwapEval, the list a
\* Cons will extend), and the latest value above them.  There is an
\* environment for each Apply and a guard for each ExitGuard.
StackDiscipline ==
  status = "run" =>
    /\ Len(val_stack) = Len(op_stack) - Len(softfork_stack)
                          + (IF operands = <<>> THEN 1 ELSE 0)
    /\ Len(softfork_stack) = Guards(Len(op_stack))
    /\ Len(env_stack) = Applies
    /\ \A i \in DOMAIN op_stack : op_stack[i] = "SwapEval" =>
         \E j \in 1 .. i - 1 : op_stack[j] = "Apply"

\* The value below an Apply is its operator, and is an atom: op() of the
\* dialect, which calls atom_len() on it, never panics.
OperatorsAreAtoms ==
  status = "run" =>
    \A i \in DOMAIN op_stack : op_stack[i] = "Apply" =>
      IsAtom(val_stack[i - Guards(i)])

\* The four stacks are in step: every pending operation will find on each of
\* them what it pops, and an Apply an atom where its operator should be.
StacksInStep == StackDiscipline /\ OperatorsAreAtoms

\* None of the "runtime error: ... stack empty" errors, expect()s and panics
\* of run_program.rs, nor an assert of restore_checkpoint, is ever met.
NeverFaults == status \notin {"internal error", "panic"}

\* No pointer into memory that a guard's exit reclaimed: every node on the
\* stacks, in the operand loop and returned is valid in the allocator.
NoDanglingNodes ==
  ~(status \in {"error", "internal error", "panic"}) =>
    /\ \A i \in DOMAIN val_stack : Valid(allocator, val_stack[i])
    /\ \A i \in DOMAIN env_stack : Valid(allocator, env_stack[i])
    /\ \A i \in DOMAIN operands : Valid(allocator, operands[i].list)
    /\ Valid(allocator, result)

\* A caller that took a checkpoint before the call can drop all that the call
\* allocated, at any moment and however it ends, also by an error deep inside
\* guards that are never left: what was there before is never touched.
CallerCanRestore ==
  LET cp == checkpoint(call.allocator)
  IN  /\ RestoreAsserts(allocator, cp)
      /\ restore_checkpoint(allocator, cp) = call.allocator

\* A guard's expected cost is within that of the guard around it and within
\* max_cost (the comment in the loop says "It's guaranteed to be <= max_cost"),
\* so replacing the limit by the innermost guard's never loosens it.
GuardsWithinMaxCost ==
  \A i \in DOMAIN softfork_stack :
    softfork_stack[i].expected_cost <=
      IF i = 1 THEN MaxCost ELSE softfork_stack[i - 1].expected_cost

\* The context is sound: its stacks hold what RunProgramContext declares, and
\* every guard is within the one around it.
ContextIsSound == TypeOK /\ GuardsWithinMaxCost

\* The cost never goes down (the comment on max_cost says that it is there
\* "to prevent wrap-around of the cost integer").
CostNeverDecreases == [][cost' >= cost]_cost

\* Every call of run_program returns: each turn that pushes operations costs
\* something, and the cost is bounded.
Terminates == <>Ended
=============================================================================
