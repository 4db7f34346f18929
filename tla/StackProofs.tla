----------------------------- MODULE StackProofs -----------------------------
(***************************************************************************)
(* The stacks of the interpreter (RunProgram, src/run_program.rs), for     *)
(* every program, allocator, dialect, cost and limit.                      *)
(*                                                                         *)
(* The first half is about the shape of the stacks and what pushing and    *)
(* popping do to it.  It needs nothing of what operators compute: it       *)
(* counts.  Every pending operation but an ExitGuard owns one value, every *)
(* Apply owns an environment and every ExitGuard a guard.                  *)
(*                                                                         *)
(* The second half shows that every step keeps that shape.  Between two    *)
(* turns of the loop one value lies above those that belong to pending     *)
(* operations, and none while operands are being pushed.  Every caller of  *)
(* eval_pair() has taken that value off, so that the shape it finds is     *)
(* always the same and one lemma is enough for its three callers.          *)
(***************************************************************************)
EXTENDS RunProgram, TLAPS, FiniteSetTheorems

\* A sequence of anything: what the stacks hold does not matter here.
Vec(s) == \E S : s \in Seq(S)

\* How many of the first k elements of s are o.
Count(s, o, k) == Cardinality({i \in 1 .. k : s[i] = o})

\* The place on the value stack that belongs to operation i.
Slot(ops, i) == i - Count(ops, "ExitGuard", i)

\* StackDiscipline and OperatorsAreAtoms, for stacks with k values above the
\* ones that belong to operations.
Shape(vals, envs, ops, guards, k) ==
  /\ Vec(vals) /\ Vec(envs) /\ Vec(ops) /\ Vec(guards)
  /\ Len(vals) = Slot(ops, Len(ops)) + k
  /\ Len(guards) = Count(ops, "ExitGuard", Len(ops))
  /\ Len(envs) = Count(ops, "Apply", Len(ops))
  /\ \A i \in 1 .. Len(ops) : ops[i] = "SwapEval" =>
       \E j \in 1 .. i - 1 : ops[j] = "Apply"
  /\ \A i \in 1 .. Len(ops) : ops[i] = "Apply" => IsAtom(vals[Slot(ops, i)])

HasApply(ops) == \E j \in 1 .. Len(ops) : ops[j] = "Apply"

-----------------------------------------------------------------------------
(* Sequences of anything.                                                  *)

LEMMA VecLen ==
  ASSUME NEW s, Vec(s)
  PROVE  Len(s) \in Nat /\ DOMAIN s = 1 .. Len(s) /\ (s = <<>> <=> Len(s) = 0)
BY DEF Vec

LEMMA VecEmpty == Vec(<<>>) /\ Len(<<>>) = 0
<1>1. <<>> \in Seq(Nat)
  OBVIOUS
<1>2. QED
  BY <1>1 DEF Vec

LEMMA VecAppend ==
  ASSUME NEW s, Vec(s), NEW x
  PROVE  /\ Vec(Append(s, x)) /\ Len(Append(s, x)) = Len(s) + 1
         /\ Append(s, x)[Len(s) + 1] = x
         /\ \A i \in 1 .. Len(s) : Append(s, x)[i] = s[i]
<1>1. PICK S : s \in Seq(S)
  BY DEF Vec
<1>2. s \in Seq(S \cup {x})
  BY <1>1
<1>3. Append(s, x) \in Seq(S \cup {x})
  BY <1>2
<1>4. QED
  BY <1>2, <1>3 DEF Vec

LEMMA VecTwo ==
  ASSUME NEW s, Vec(s), NEW x, NEW y
  PROVE  s \o <<x, y>> = Append(Append(s, x), y)
<1>1. PICK S : s \in Seq(S)
  BY DEF Vec
<1> DEFINE T == S \cup {x, y}
<1>2. s \in Seq(T) /\ x \in T /\ y \in T
  BY <1>1
<1>3. s \o <<x, y>> \in Seq(T) /\ Append(Append(s, x), y) \in Seq(T)
  BY <1>2
<1>4. Len(s \o <<x, y>>) = Len(s) + 2 /\ Len(Append(Append(s, x), y)) = Len(s) + 2
  BY <1>2
<1>5. \A i \in 1 .. Len(s) + 2 : (s \o <<x, y>>)[i] = Append(Append(s, x), y)[i]
  BY <1>2
<1>6. ASSUME NEW u \in Seq(T), NEW v \in Seq(T), Len(u) = Len(v),
             \A i \in 1 .. Len(u) : u[i] = v[i]
      PROVE  u = v
  BY <1>6
<1>7. QED
  BY <1>3, <1>4, <1>5, <1>6

LEMMA VecDrop ==
  ASSUME NEW s, Vec(s), NEW n \in 0 .. Len(s)
  PROVE  LET t == SubSeq(s, 1, Len(s) - n)
         IN  /\ Vec(t) /\ Len(t) = Len(s) - n
             /\ \A i \in 1 .. Len(s) - n : t[i] = s[i]
<1>1. PICK S : s \in Seq(S)
  BY DEF Vec
<1> DEFINE k == Len(s) - n
<1>2. k \in 0 .. Len(s)
  BY <1>1
<1>3. SubSeq(s, 1, k) \in Seq(S) /\ Len(SubSeq(s, 1, k)) = k
      /\ \A i \in 1 .. k : SubSeq(s, 1, k)[i] = s[i]
  <2> HIDE DEF k
  <2> QED
    BY <1>1, <1>2
<1>4. QED
  BY <1>3, Zenon DEF Vec

-----------------------------------------------------------------------------
(* Counting.                                                               *)

LEMMA CountFinite ==
  ASSUME NEW s, NEW o, NEW k \in Nat
  PROVE  IsFiniteSet({i \in 1 .. k : s[i] = o})
<1>1. IsFiniteSet(1 .. k)
  BY FS_Interval
<1>2. {i \in 1 .. k : s[i] = o} \subseteq 1 .. k
  OBVIOUS
<1>3. QED
  BY <1>1, <1>2, FS_Subset

LEMMA CountType ==
  ASSUME NEW s, NEW o, NEW k \in Nat
  PROVE  Count(s, o, k) \in Nat /\ Count(s, o, k) <= k
<1> DEFINE A == {i \in 1 .. k : s[i] = o}
<1>1. IsFiniteSet(1 .. k) /\ Cardinality(1 .. k) = k
  BY FS_Interval
<1>2. A \subseteq 1 .. k
  OBVIOUS
<1>3. IsFiniteSet(A) /\ Cardinality(A) <= Cardinality(1 .. k)
  <2> HIDE DEF A
  <2> QED
    BY <1>1, <1>2, FS_Subset, Zenon
<1>4. Cardinality(A) \in Nat
  BY <1>3, FS_CardinalityType
<1>5. QED
  BY <1>1, <1>3, <1>4 DEF Count

LEMMA CountZero ==
  ASSUME NEW s, NEW o
  PROVE  Count(s, o, 0) = 0
<1>1. Count(s, o, 0) \in Nat /\ Count(s, o, 0) <= 0
  BY CountType, 0 \in Nat
<1>2. QED
  BY <1>1

LEMMA CountNext ==
  ASSUME NEW s, NEW o, NEW k \in Nat
  PROVE  Count(s, o, k + 1) = Count(s, o, k) + (IF s[k + 1] = o THEN 1 ELSE 0)
<1> DEFINE A == {i \in 1 .. k : s[i] = o}
           B == {i \in 1 .. k + 1 : s[i] = o}
<1>1. IsFiniteSet(A)
  BY CountFinite
<1>2. k + 1 \notin A
  OBVIOUS
<1>3. Count(s, o, k) = Cardinality(A) /\ Count(s, o, k + 1) = Cardinality(B)
  BY DEF Count
<1>4. Cardinality(A) \in Nat
  BY <1>1, FS_CardinalityType
<1>5. CASE s[k + 1] = o
  <2>1. B = A \cup {k + 1}
    BY <1>5
  <2>2. Cardinality(A \cup {k + 1}) = Cardinality(A) + 1
    <3> HIDE DEF A
    <3> QED
      BY <1>1, <1>2, FS_AddElement
  <2> HIDE DEF A, B
  <2>3. QED
    BY <1>3, <1>5, <2>1, <2>2
<1>6. CASE s[k + 1] # o
  <2>1. B = A
    BY <1>6
  <2> HIDE DEF A, B
  <2>2. QED
    BY <1>3, <1>4, <1>6, <2>1
<1>7. QED
  BY <1>5, <1>6

LEMMA CountSame ==
  ASSUME NEW s, NEW t, NEW o, NEW k \in Nat, \A i \in 1 .. k : s[i] = t[i]
  PROVE  Count(s, o, k) = Count(t, o, k)
<1>1. {i \in 1 .. k : s[i] = o} = {i \in 1 .. k : t[i] = o}
  OBVIOUS
<1>2. QED
  BY <1>1 DEF Count

LEMMA CountGap ==
  ASSUME NEW s, NEW o, NEW i \in Nat, NEW j \in Nat, i <= j
  PROVE  Count(s, o, i) <= Count(s, o, j) /\ Count(s, o, j) <= Count(s, o, i) + (j - i)
<1> DEFINE A == {x \in 1 .. i : s[x] = o}
           B == {x \in 1 .. j : s[x] = o}
           C == i + 1 .. j
<1>1. IsFiniteSet(A)
  BY CountFinite, Zenon
<1>2. IsFiniteSet(B)
  BY CountFinite
<1>3. IsFiniteSet(C) /\ Cardinality(C) = j - i
  <2>1. i + 1 \in Int /\ j \in Int /\ (i + 1 > j => j - i = 0)
    OBVIOUS
  <2>2. IsFiniteSet(C) /\ Cardinality(C) = IF i + 1 > j THEN 0 ELSE j - (i + 1) + 1
    BY <2>1, FS_Interval
  <2>3. QED
    BY <2>1, <2>2
<1>4. A \subseteq B /\ B \subseteq A \cup C /\ A \cap C = {}
  OBVIOUS
<1>5. Count(s, o, i) = Cardinality(A) /\ Count(s, o, j) = Cardinality(B)
  BY DEF Count
<1> HIDE DEF A, B, C
<1>6. Cardinality(A) \in Nat /\ Cardinality(B) \in Nat
  BY <1>1, <1>2, FS_CardinalityType
<1>7. Cardinality(A) <= Cardinality(B)
  BY <1>2, <1>4, FS_Subset
<1>8. IsFiniteSet(A \cup C)
  BY <1>1, <1>3, FS_Union, Zenon
<1>9. Cardinality(A \cup C) = Cardinality(A) + Cardinality(C) - Cardinality(A \cap C)
  BY <1>1, <1>3, FS_Union
<1>10. Cardinality(A \cap C) = 0
  BY <1>4, FS_EmptySet
<1>11. Cardinality(B) <= Cardinality(A \cup C)
  BY <1>4, <1>8, FS_Subset
<1>12. QED
  BY <1>3, <1>5, <1>6, <1>7, <1>9, <1>10, <1>11

\* An operation that owns a value has a place of its own.
LEMMA SlotBelow ==
  ASSUME NEW ops, NEW i \in Nat, NEW j \in Nat, i <= j
  PROVE  /\ Slot(ops, i) \in Nat /\ Slot(ops, j) \in Nat /\ Slot(ops, i) <= Slot(ops, j)
<1>1. /\ Count(ops, "ExitGuard", i) \in Nat /\ Count(ops, "ExitGuard", i) <= i
      /\ Count(ops, "ExitGuard", j) \in Nat /\ Count(ops, "ExitGuard", j) <= j
      /\ Count(ops, "ExitGuard", j) <= Count(ops, "ExitGuard", i) + (j - i)
  BY CountType, CountGap
<1>2. QED
  BY <1>1 DEF Slot

LEMMA SlotNext ==
  ASSUME NEW ops, NEW k \in Nat
  PROVE  Slot(ops, k + 1) = Slot(ops, k) + (IF ops[k + 1] = "ExitGuard" THEN 0 ELSE 1)
<1>1. Count(ops, "ExitGuard", k) \in Nat
  BY CountType
<1>2. Count(ops, "ExitGuard", k + 1)
        = Count(ops, "ExitGuard", k) + (IF ops[k + 1] = "ExitGuard" THEN 1 ELSE 0)
  BY CountNext
<1>3. QED
  BY <1>1, <1>2 DEF Slot

\* Places in two stacks that agree up to k.
LEMMA SlotSame ==
  ASSUME NEW s, NEW t, NEW k \in Nat, \A i \in 1 .. k : s[i] = t[i], NEW i \in 0 .. k
  PROVE  Slot(s, i) = Slot(t, i)
<1>1. i \in Nat /\ \A x \in 1 .. i : s[x] = t[x]
  OBVIOUS
<1>2. Count(s, "ExitGuard", i) = Count(t, "ExitGuard", i)
  BY <1>1, CountSame
<1>3. QED
  BY <1>2 DEF Slot

LEMMA OwnSlot ==
  ASSUME NEW ops, NEW n \in Nat, NEW i \in 1 .. n, ops[i] # "ExitGuard"
  PROVE  Slot(ops, i) \in 1 .. Slot(ops, n)
<1>1. i - 1 \in Nat /\ (i - 1) + 1 = i /\ i \in Nat /\ i <= n
  OBVIOUS
<1>2. Slot(ops, i) = Slot(ops, i - 1) + 1
  BY <1>1, SlotNext
<1>3. Slot(ops, i - 1) \in Nat
  BY <1>1, SlotBelow
<1>4. Slot(ops, i) <= Slot(ops, n) /\ Slot(ops, n) \in Nat
  BY <1>1, SlotBelow
<1>5. QED
  BY <1>2, <1>3, <1>4

-----------------------------------------------------------------------------
(* Pushing and popping.                                                    *)

\* Only values that belong to an operation matter.
LEMMA ShapeVals ==
  ASSUME NEW v, NEW e, NEW ops, NEW g, NEW k, Shape(v, e, ops, g, k),
         NEW w, Vec(w), NEW k2 \in Nat, Len(w) = Slot(ops, Len(ops)) + k2,
         \A p \in 1 .. Slot(ops, Len(ops)) : w[p] = v[p]
  PROVE  Shape(w, e, ops, g, k2)
<1>1. Len(ops) \in Nat
  BY VecLen DEF Shape
<1>2. ASSUME NEW i \in 1 .. Len(ops), ops[i] = "Apply"
      PROVE  IsAtom(w[Slot(ops, i)])
  <2>1. Slot(ops, i) \in 1 .. Slot(ops, Len(ops))
    BY <1>1, <1>2, OwnSlot
  <2>2. QED
    BY <1>2, <2>1 DEF Shape
<1>3. QED
  BY <1>2 DEF Shape

\* How the counts change when x is pushed.
LEMMA PushCounts ==
  ASSUME NEW ops, Vec(ops), NEW x
  PROVE  LET t == Append(ops, x)
             n == Len(ops)
         IN  /\ Vec(t) /\ Len(t) = n + 1 /\ n \in Nat /\ t[n + 1] = x
             /\ \A i \in 1 .. n : t[i] = ops[i] /\ Slot(t, i) = Slot(ops, i)
             /\ Slot(t, n + 1) = Slot(ops, n) + (IF x = "ExitGuard" THEN 0 ELSE 1)
             /\ \A o : Count(t, o, n + 1) = Count(ops, o, n) + (IF x = o THEN 1 ELSE 0)
<1> DEFINE t == Append(ops, x)
           n == Len(ops)
<1>1. /\ Vec(t) /\ Len(t) = n + 1 /\ n \in Nat /\ t[n + 1] = x
      /\ \A i \in 1 .. n : t[i] = ops[i]
  BY VecAppend, VecLen
<1> HIDE DEF t, n
<1>2. \A i \in 0 .. n : Slot(t, i) = Slot(ops, i)
  BY <1>1, SlotSame, Zenon
<1>3. \A o : Count(t, o, n) = Count(ops, o, n)
  BY <1>1, CountSame
<1>4. Slot(t, n + 1) = Slot(t, n) + (IF x = "ExitGuard" THEN 0 ELSE 1)
  BY <1>1, SlotNext
<1>5. \A o : Count(t, o, n + 1) = Count(t, o, n) + (IF x = o THEN 1 ELSE 0)
  BY <1>1, CountNext
<1>6. n \in 0 .. n /\ \A i \in 1 .. n : i \in 0 .. n
  BY <1>1
<1>7. QED
  BY <1>1, <1>2, <1>3, <1>4, <1>5, <1>6 DEF t, n

\* An operation that owns a value takes one that was above the others.
LEMMA ShapePush ==
  ASSUME NEW v, NEW e, NEW ops, NEW g, NEW k \in Nat, Shape(v, e, ops, g, k),
         NEW x, NEW e2, Vec(e2), NEW g2, Vec(g2),
         x = "Apply" => IsAtom(v[Slot(ops, Len(ops)) + 1]),
         x = "SwapEval" => HasApply(ops),
         Len(e2) = Len(e) + (IF x = "Apply" THEN 1 ELSE 0),
         Len(g2) = Len(g) + (IF x = "ExitGuard" THEN 1 ELSE 0),
         NEW k2 \in Nat, k = k2 + (IF x = "ExitGuard" THEN 0 ELSE 1)
  PROVE  Shape(v, e2, Append(ops, x), g2, k2)
<1> DEFINE t == Append(ops, x)
           n == Len(ops)
<1>1. /\ Vec(t) /\ Len(t) = n + 1 /\ n \in Nat /\ t[n + 1] = x
      /\ \A i \in 1 .. n : t[i] = ops[i] /\ Slot(t, i) = Slot(ops, i)
      /\ Slot(t, n + 1) = Slot(ops, n) + (IF x = "ExitGuard" THEN 0 ELSE 1)
      /\ \A o : Count(t, o, n + 1) = Count(ops, o, n) + (IF x = o THEN 1 ELSE 0)
  BY PushCounts DEF Shape
<1>2. /\ Slot(ops, n) \in Nat /\ Len(v) = Slot(ops, n) + k
      /\ Len(g) = Count(ops, "ExitGuard", n) /\ Len(e) = Count(ops, "Apply", n)
      /\ Vec(v)
  BY <1>1, SlotBelow DEF Shape
<1>3. /\ \A i \in 1 .. n : ops[i] = "SwapEval" => \E j \in 1 .. i - 1 : ops[j] = "Apply"
      /\ \A i \in 1 .. n : ops[i] = "Apply" => IsAtom(v[Slot(ops, i)])
      /\ x = "SwapEval" => \E j \in 1 .. n : ops[j] = "Apply"
      /\ x = "Apply" => IsAtom(v[Slot(ops, n) + 1])
  BY DEF Shape, HasApply
<1> HIDE DEF t, n
<1>4. Len(v) = Slot(t, Len(t)) + k2
  BY <1>1, <1>2
<1>5. Len(g2) = Count(t, "ExitGuard", Len(t)) /\ Len(e2) = Count(t, "Apply", Len(t))
  BY <1>1, <1>2
<1>6. ASSUME NEW i \in 1 .. n + 1, t[i] = "SwapEval"
      PROVE  \E j \in 1 .. i - 1 : t[j] = "Apply"
  <2>1. CASE i \in 1 .. n
    <3>1. PICK j \in 1 .. i - 1 : ops[j] = "Apply"
      BY <1>1, <1>3, <1>6, <2>1
    <3>2. j \in 1 .. n
      BY <1>1
    <3>3. QED
      BY <1>1, <3>1, <3>2
  <2>2. CASE i = n + 1
    <3>1. PICK j \in 1 .. n : ops[j] = "Apply"
      BY <1>1, <1>3, <1>6, <2>2
    <3>2. j \in 1 .. i - 1
      BY <1>1, <2>2
    <3>3. QED
      BY <1>1, <3>1, <3>2
  <2>3. QED
    BY <1>1, <2>1, <2>2
<1>7. ASSUME NEW i \in 1 .. n + 1, t[i] = "Apply"
      PROVE  IsAtom(v[Slot(t, i)])
  <2>1. CASE i \in 1 .. n
    BY <1>1, <1>3, <1>7, <2>1
  <2>2. CASE i = n + 1
    BY <1>1, <1>3, <1>7, <2>2
  <2>3. QED
    BY <1>1, <2>1, <2>2
<1>8. QED
  BY <1>1, <1>2, <1>4, <1>5, <1>6, <1>7 DEF Shape, t

\* An operation that is popped leaves the value that belonged to it.
LEMMA ShapePop ==
  ASSUME NEW v, NEW e, NEW ops, NEW g, NEW k \in Nat, Shape(v, e, ops, g, k),
         Len(ops) >= 1, NEW e2, Vec(e2), NEW g2, Vec(g2),
         Len(e2) = Len(e) - (IF ops[Len(ops)] = "Apply" THEN 1 ELSE 0),
         Len(g2) = Len(g) - (IF ops[Len(ops)] = "ExitGuard" THEN 1 ELSE 0),
         NEW k2 \in Nat, k2 = k + (IF ops[Len(ops)] = "ExitGuard" THEN 0 ELSE 1)
  PROVE  Shape(v, e2, SubSeq(ops, 1, Len(ops) - 1), g2, k2)
<1> DEFINE n == Len(ops) - 1
           t == SubSeq(ops, 1, n)
           x == ops[Len(ops)]
<1>1. Vec(ops) /\ Vec(v) /\ Len(ops) \in Nat /\ Len(ops) = n + 1 /\ n \in Nat
  BY VecLen DEF Shape
<1>2. Vec(t) /\ Len(t) = n /\ \A i \in 1 .. n : t[i] = ops[i]
  BY <1>1, VecDrop
<1>3. /\ Len(v) = Slot(ops, n + 1) + k /\ x = ops[n + 1]
      /\ Len(g) = Count(ops, "ExitGuard", n + 1) /\ Len(e) = Count(ops, "Apply", n + 1)
      /\ \A i \in 1 .. n + 1 : ops[i] = "SwapEval" => \E j \in 1 .. i - 1 : ops[j] = "Apply"
      /\ \A i \in 1 .. n + 1 : ops[i] = "Apply" => IsAtom(v[Slot(ops, i)])
      /\ Len(e2) = Len(e) - (IF x = "Apply" THEN 1 ELSE 0)
      /\ Len(g2) = Len(g) - (IF x = "ExitGuard" THEN 1 ELSE 0)
      /\ k2 = k + (IF x = "ExitGuard" THEN 0 ELSE 1)
  BY <1>1 DEF Shape
<1> HIDE DEF n, t, x
<1>top. x = ops[n + 1] /\ n \in Nat
  BY <1>1, <1>3
<1>len. /\ Len(v) = Slot(ops, n + 1) + k
       /\ k2 = k + (IF x = "ExitGuard" THEN 0 ELSE 1)
  BY <1>3
<1>4. /\ Slot(ops, n + 1) = Slot(ops, n) + (IF x = "ExitGuard" THEN 0 ELSE 1)
      /\ \A o : Count(ops, o, n + 1) = Count(ops, o, n) + (IF x = o THEN 1 ELSE 0)
      /\ \A o : Count(ops, o, n) \in Nat
      /\ Slot(ops, n) \in Nat
  <2>1. Slot(ops, n + 1) = Slot(ops, n) + (IF x = "ExitGuard" THEN 0 ELSE 1)
    BY <1>top, SlotNext
  <2>2. \A o : Count(ops, o, n + 1) = Count(ops, o, n) + (IF x = o THEN 1 ELSE 0)
    BY <1>top, CountNext
  <2>3. \A o : Count(ops, o, n) \in Nat
    BY <1>1, CountType
  <2>4. Slot(ops, n) \in Nat
    <3>1. n <= n
      BY <1>1
    <3>2. QED
      BY <1>1, <3>1, SlotBelow
  <2>5. QED
    BY <2>1, <2>2, <2>3, <2>4
<1>5. /\ \A i \in 0 .. n : Slot(t, i) = Slot(ops, i)
      /\ \A o : Count(t, o, n) = Count(ops, o, n)
  <2>1. \A i \in 0 .. n : Slot(t, i) = Slot(ops, i)
    <3>1. \A i \in 1 .. n : t[i] = ops[i]
      BY <1>2
    <3>2. QED
      BY <1>top, <3>1, SlotSame, Zenon
  <2>2. \A o : Count(t, o, n) = Count(ops, o, n)
    BY <1>1, <1>2, CountSame
  <2>3. QED
    BY <2>1, <2>2
<1>6. n \in 0 .. n /\ \A i \in 1 .. n : i \in 0 .. n /\ i \in 1 .. n + 1
  BY <1>1
<1>7. Len(v) = Slot(t, n) + k2
  <2>1. Slot(t, n) = Slot(ops, n)
    BY <1>5, <1>6
  <2>2. QED
    BY <1>len, <1>4, <2>1
<1>8. Len(g2) = Count(t, "ExitGuard", n) /\ Len(e2) = Count(t, "Apply", n)
  BY <1>3, <1>4, <1>5
<1>9. ASSUME NEW i \in 1 .. n, t[i] = "SwapEval"
      PROVE  \E j \in 1 .. i - 1 : t[j] = "Apply"
  <2>1. PICK j \in 1 .. i - 1 : ops[j] = "Apply"
    BY <1>2, <1>3, <1>6, <1>9, Zenon
  <2>2. j \in 1 .. n
    BY <1>1
  <2>3. QED
    BY <1>2, <2>1, <2>2
<1>10. \A i \in 1 .. n : t[i] = "Apply" => IsAtom(v[Slot(t, i)])
  BY <1>2, <1>3, <1>5, <1>6
<1>11. Shape(v, e2, t, g2, k2)
  BY <1>1, <1>2, <1>7, <1>8, <1>9, <1>10, Zenon DEF Shape
<1>12. QED
  BY <1>11 DEF t, n

\* What the topmost operation finds.
LEMMA ShapeTop ==
  ASSUME NEW v, NEW e, NEW ops, NEW g, NEW k \in Nat, Shape(v, e, ops, g, k),
         Len(ops) >= 1
  PROVE  LET x == ops[Len(ops)]
             slot == Slot(ops, Len(ops))
         IN  /\ slot \in Nat /\ Len(v) = slot + k
             /\ x # "ExitGuard" => slot >= 1
             /\ x = "ExitGuard" => Len(g) >= 1
             /\ x = "Apply" => Len(e) >= 1 /\ IsAtom(v[slot])
             /\ x = "SwapEval" => Len(e) >= 1
<1> DEFINE n == Len(ops)
<1>1. n \in Nat /\ n \in 1 .. n
  BY VecLen DEF Shape
<1>2. /\ Len(v) = Slot(ops, n) + k /\ Len(g) = Count(ops, "ExitGuard", n)
      /\ Len(e) = Count(ops, "Apply", n)
      /\ ops[n] = "SwapEval" => \E j \in 1 .. n - 1 : ops[j] = "Apply"
      /\ ops[n] = "Apply" => IsAtom(v[Slot(ops, n)])
  BY <1>1 DEF Shape
<1>3. \A o, j : j \in 1 .. n /\ ops[j] = o => Count(ops, o, n) >= 1
  <2> SUFFICES ASSUME NEW j \in 1 .. n PROVE Count(ops, ops[j], n) >= 1
    OBVIOUS
  <2> DEFINE o == ops[j]
  <2> HIDE DEF o
  <2>1. j - 1 \in Nat /\ (j - 1) + 1 = j /\ j \in Nat /\ j <= n
    BY <1>1
  <2>2. Count(ops, o, j) = Count(ops, o, j - 1) + 1
    BY <2>1, CountNext DEF o
  <2>3. Count(ops, o, j - 1) \in Nat
    BY <2>1, CountType
  <2>4. Count(ops, o, j) <= Count(ops, o, n) /\ Count(ops, o, n) \in Nat
    BY <1>1, <2>1, CountGap, CountType
  <2>5. QED
    BY <2>2, <2>3, <2>4 DEF o
<1>4. Slot(ops, n) \in Nat
  BY <1>1, SlotBelow
<1>5. ops[n] # "ExitGuard" => Slot(ops, n) \in 1 .. Slot(ops, n)
  BY <1>1, OwnSlot
<1>6. ops[n] = "ExitGuard" => Len(g) >= 1
  BY <1>1, <1>2, <1>3
<1>7. ops[n] = "Apply" => Len(e) >= 1
  BY <1>1, <1>2, <1>3
<1>8. ops[n] = "SwapEval" => Len(e) >= 1
  <2> SUFFICES ASSUME ops[n] = "SwapEval" PROVE Len(e) >= 1
    OBVIOUS
  <2>1. PICK j \in 1 .. n - 1 : ops[j] = "Apply"
    BY <1>2
  <2>2. j \in 1 .. n
    BY <1>1
  <2>3. QED
    BY <1>2, <1>3, <2>1, <2>2
<1>9. QED
  BY <1>2, <1>4, <1>5, <1>6, <1>7, <1>8

\* A call starts with empty stacks.
LEMMA EmptyShape == Shape(<<>>, <<>>, <<>>, <<>>, 0)
<1>1. Vec(<<>>) /\ Len(<<>>) = 0
  BY VecEmpty
<1>2. Count(<<>>, "ExitGuard", 0) = 0 /\ Count(<<>>, "Apply", 0) = 0
  BY CountZero
<1>3. \A i \in 1 .. 0 : FALSE
  OBVIOUS
<1>4. QED
  BY <1>1, <1>2, <1>3 DEF Shape, Slot

LEMMA PushOne ==
  ASSUME NEW v, NEW e, NEW ops, NEW g, NEW k \in Nat, Shape(v, e, ops, g, k), NEW x
  PROVE  Shape(Append(v, x), e, ops, g, k + 1)
<1>1. Vec(v) /\ Len(ops) \in Nat /\ Len(v) = Slot(ops, Len(ops)) + k
  BY VecLen DEF Shape
<1>2. Slot(ops, Len(ops)) \in Nat
  BY <1>1, SlotBelow
<1>3. /\ Vec(Append(v, x)) /\ Len(Append(v, x)) = Len(v) + 1
      /\ \A i \in 1 .. Len(v) : Append(v, x)[i] = v[i]
  BY <1>1, VecAppend
<1>4. \A p \in 1 .. Slot(ops, Len(ops)) : Append(v, x)[p] = v[p]
  BY <1>1, <1>2, <1>3
<1>5. Len(Append(v, x)) = Slot(ops, Len(ops)) + (k + 1) /\ k + 1 \in Nat
  BY <1>1, <1>2, <1>3
<1>6. QED
  BY <1>3, <1>4, <1>5, ShapeVals, Zenon

\* The operator and its environment, with Apply pending.
LEMMA PushApply ==
  ASSUME NEW v, NEW e, NEW ops, NEW g, Shape(v, e, ops, g, 0),
         NEW x, IsAtom(x), NEW env
  PROVE  /\ Shape(Append(v, x), Append(e, env), Append(ops, "Apply"), g, 0)
         /\ HasApply(Append(ops, "Apply"))
<1>1. Shape(Append(v, x), e, ops, g, 1)
  BY PushOne, 0 + 1 = 1
<1>2. Vec(v) /\ Vec(e) /\ Vec(g) /\ Vec(ops) /\ Len(v) = Slot(ops, Len(ops)) + 0
  BY DEF Shape
<1>3. Len(ops) \in Nat /\ Slot(ops, Len(ops)) \in Nat
  BY <1>2, VecLen, SlotBelow
<1>4. Append(v, x)[Slot(ops, Len(ops)) + 1] = x
  BY <1>2, <1>3, VecAppend
<1>5. /\ Vec(Append(e, env))
      /\ Len(Append(e, env)) = Len(e) + (IF "Apply" = "Apply" THEN 1 ELSE 0)
  BY <1>2, VecAppend
<1>6. /\ Len(g) = Len(g) + (IF "Apply" = "ExitGuard" THEN 1 ELSE 0)
      /\ 1 = 0 + (IF "Apply" = "ExitGuard" THEN 0 ELSE 1) /\ 1 \in Nat /\ 0 \in Nat
  BY <1>2, VecLen
<1>7. /\ "Apply" = "Apply" => IsAtom(Append(v, x)[Slot(ops, Len(ops)) + 1])
      /\ "Apply" = "SwapEval" => HasApply(ops)
  BY <1>4
<1>8. Shape(Append(v, x), Append(e, env), Append(ops, "Apply"), g, 0)
  BY <1>1, <1>2, <1>5, <1>6, <1>7, ShapePush, Zenon
<1>9. Append(ops, "Apply")[Len(ops) + 1] = "Apply" /\ Len(Append(ops, "Apply")) = Len(ops) + 1
  BY <1>2, VecAppend
<1>10. QED
  BY <1>3, <1>8, <1>9 DEF HasApply

\* The list of results, now owned by a Cons.
LEMMA PushCons ==
  ASSUME NEW v, NEW e, NEW ops, NEW g, Shape(v, e, ops, g, 0), NEW x
  PROVE  Shape(Append(v, x), e, Append(ops, "Cons"), g, 0)
<1>1. Shape(Append(v, x), e, ops, g, 1)
  BY PushOne, 0 + 1 = 1
<1>2. Vec(e) /\ Vec(g) /\ Len(e) \in Nat /\ Len(g) \in Nat
  BY VecLen DEF Shape
<1>3. /\ Len(e) = Len(e) + (IF "Cons" = "Apply" THEN 1 ELSE 0)
      /\ Len(g) = Len(g) + (IF "Cons" = "ExitGuard" THEN 1 ELSE 0)
      /\ 1 = 0 + (IF "Cons" = "ExitGuard" THEN 0 ELSE 1) /\ 1 \in Nat /\ 0 \in Nat
      /\ "Cons" = "Apply" => IsAtom(Append(v, x)[Slot(ops, Len(ops)) + 1])
      /\ "Cons" = "SwapEval" => HasApply(ops)
  BY <1>2
<1>4. QED
  BY <1>1, <1>2, <1>3, ShapePush

\* A guard, which owns no value.
LEMMA PushGuard ==
  ASSUME NEW v, NEW e, NEW ops, NEW g, Shape(v, e, ops, g, 0), NEW guard
  PROVE  Shape(v, e, Append(ops, "ExitGuard"), Append(g, guard), 0)
<1>1. Vec(e) /\ Vec(g) /\ Len(e) \in Nat /\ Len(g) \in Nat
  BY VecLen DEF Shape
<1>2. /\ Vec(Append(g, guard))
      /\ Len(Append(g, guard)) = Len(g) + (IF "ExitGuard" = "ExitGuard" THEN 1 ELSE 0)
  BY <1>1, VecAppend
<1>3. /\ Len(e) = Len(e) + (IF "ExitGuard" = "Apply" THEN 1 ELSE 0)
      /\ 0 = 0 + (IF "ExitGuard" = "ExitGuard" THEN 0 ELSE 1) /\ 0 \in Nat
      /\ "ExitGuard" = "Apply" => IsAtom(v[Slot(ops, Len(ops)) + 1])
      /\ "ExitGuard" = "SwapEval" => HasApply(ops)
  BY <1>1
<1>4. QED
  BY <1>1, <1>2, <1>3, ShapePush, Zenon

\* An operation that owns a value and its two operands are popped.
LEMMA Pop2Shape ==
  ASSUME NEW v, NEW e, NEW ops, NEW g, Shape(v, e, ops, g, 1), Len(ops) >= 1,
         ops[Len(ops)] # "ExitGuard", NEW e2, Vec(e2),
         Len(e2) = Len(e) - (IF ops[Len(ops)] = "Apply" THEN 1 ELSE 0)
  PROVE  /\ Len(v) >= 2
         /\ Shape(SubSeq(v, 1, Len(v) - 2), e2, SubSeq(ops, 1, Len(ops) - 1), g, 0)
<1>1. /\ Slot(ops, Len(ops)) \in Nat /\ Len(v) = Slot(ops, Len(ops)) + 1
      /\ Slot(ops, Len(ops)) >= 1
  BY ShapeTop
<1>2. Vec(v) /\ Vec(g) /\ Vec(ops) /\ Len(g) \in Nat /\ Len(ops) \in Nat /\ Len(v) \in Nat
  BY VecLen DEF Shape
<1> DEFINE t == SubSeq(ops, 1, Len(ops) - 1)
           w == SubSeq(v, 1, Len(v) - 2)
<1>3. /\ Len(g) = Len(g) - (IF ops[Len(ops)] = "ExitGuard" THEN 1 ELSE 0)
      /\ 2 = 1 + (IF ops[Len(ops)] = "ExitGuard" THEN 0 ELSE 1) /\ 1 \in Nat /\ 2 \in Nat
  BY <1>2
<1>4. Shape(v, e2, t, g, 2)
  BY <1>2, <1>3, ShapePop
<1>5. Vec(w) /\ Len(w) = Len(v) - 2 /\ \A i \in 1 .. Len(v) - 2 : w[i] = v[i]
  <2>1. 2 \in 0 .. Len(v)
    BY <1>1, <1>2
  <2>2. QED
    BY <1>2, <2>1, VecDrop, Zenon
<1>6. Len(t) \in Nat /\ Len(v) = Slot(t, Len(t)) + 2
  BY <1>4, VecLen DEF Shape
<1>7. Slot(t, Len(t)) \in Nat
  BY <1>6, SlotBelow
<1> HIDE DEF w, t
<1>8. Len(w) = Slot(t, Len(t)) + 0 /\ \A p \in 1 .. Slot(t, Len(t)) : w[p] = v[p]
  BY <1>5, <1>6, <1>7
<1>9. Shape(w, e2, t, g, 0)
  BY <1>4, <1>5, <1>8, ShapeVals, 0 \in Nat
<1>10. QED
  BY <1>1, <1>9 DEF w, t

-----------------------------------------------------------------------------
(* The shape that every step keeps.                                        *)

Above == IF operands = <<>> THEN 1 ELSE 0

\* The inductive invariant.
StacksOK ==
  /\ status \in {"start", "run", "ok", "error", "panic"}
  /\ status = "start" =>
       /\ val_stack = <<>> /\ env_stack = <<>> /\ op_stack = <<>>
       /\ softfork_stack = <<>> /\ operands = <<>>
  /\ status = "run" => Shape(val_stack, env_stack, op_stack, softfork_stack, Above)
  /\ status = "run" /\ operands # <<>> => HasApply(op_stack)

\* A call that has ended has no stacks to keep.
LEMMA NotRunning ==
  ASSUME status' \in {"ok", "error", "panic"}
  PROVE  StacksOK'
BY DEF StacksOK

\* Between two turns one value lies above those of the operations.
LEMMA RunningAgain ==
  ASSUME status' = "run", operands' = <<>>,
         Shape(val_stack', env_stack', op_stack', softfork_stack', 1)
  PROVE  StacksOK'
BY DEF StacksOK, Above

\* eval_pair(), for whichever caller: all values on the stack belong to
\* pending operations when it is called.
LEMMA EvalPairStep ==
  ASSUME NEW program, NEW env, NEW extra, NEW v, NEW e, NEW ops, NEW g,
         Shape(v, e, ops, g, 0), operands = <<>>,
         EvalPair(program, env, Stacks(v, e, ops, g), extra)
  PROVE  StacksOK'
<1> DEFINE m == Stacks(v, e, ops, g)
<1>0. CASE status' = "error"
  BY <1>0, NotRunning
<1>1. CASE EvalPath(program, env, m, extra)
  <2> DEFINE x == Lookup(allocator, program, env).node
  <2>1. CASE status' # "error"
    <3>1. /\ SetStacks([m EXCEPT !.vals = Append(@, x)])
          /\ Running /\ operands' = operands
      BY <1>1, <2>1 DEF EvalPath, End
    <3>2. /\ val_stack' = Append(v, x) /\ env_stack' = e
          /\ op_stack' = ops /\ softfork_stack' = g
      BY <3>1 DEF SetStacks, Stacks
    <3>3. Shape(Append(v, x), e, ops, g, 1)
      BY PushOne, 0 + 1 = 1
    <3>4. QED
      BY <3>1, <3>2, <3>3, RunningAgain DEF Running
  <2>2. QED
    BY <1>0, <2>1
<1>2. CASE EvalQuote(program, m, extra)
  <2> DEFINE x == Rest(allocator, program)
  <2>1. CASE status' # "error"
    <3>1. /\ SetStacks([m EXCEPT !.vals = Append(@, x)])
          /\ Running /\ operands' = operands
      BY <1>2, <2>1 DEF EvalQuote, End
    <3>2. /\ val_stack' = Append(v, x) /\ env_stack' = e
          /\ op_stack' = ops /\ softfork_stack' = g
      BY <3>1 DEF SetStacks, Stacks
    <3>3. Shape(Append(v, x), e, ops, g, 1)
      BY PushOne, 0 + 1 = 1
    <3>4. QED
      BY <3>1, <3>2, <3>3, RunningAgain DEF Running
  <2>2. QED
    BY <1>0, <2>1
<1>3. CASE EvalWrapped(program, env, m, extra)
  <2> DEFINE op_node == First(allocator, program)
             x == First(allocator, op_node)
             y == Rest(allocator, program)
  <2>1. CASE status' # "error"
    <3>1. /\ SetStacks([m EXCEPT !.envs = Append(@, env), !.vals = @ \o <<x, y>>,
                                 !.ops = Append(@, "Apply")])
          /\ Running /\ operands' = operands /\ IsAtom(Arg1(allocator, op_node))
      BY <1>3, <2>1 DEF EvalWrapped, End
    <3>2. IsAtom(x)
      BY <3>1 DEF Arg1
    <3>3. /\ val_stack' = v \o <<x, y>> /\ env_stack' = Append(e, env)
          /\ op_stack' = Append(ops, "Apply") /\ softfork_stack' = g
      BY <3>1 DEF SetStacks, Stacks
    <3>4. val_stack' = Append(Append(v, x), y)
      BY <3>3, VecTwo DEF Shape
    <3>5. Shape(Append(v, x), Append(e, env), Append(ops, "Apply"), g, 0)
      BY <3>2, PushApply
    <3>6. Shape(Append(Append(v, x), y), Append(e, env), Append(ops, "Apply"), g, 1)
      BY <3>5, PushOne, 0 + 1 = 1
    <3>7. QED
      BY <3>1, <3>3, <3>4, <3>6, RunningAgain, Zenon DEF Running
  <2>2. QED
    BY <1>0, <2>1
<1>4. CASE EvalOperator(program, env, m, extra)
  <2> DEFINE x == First(allocator, program)
  <2>1. CASE status' # "error"
    <3>1. /\ SetStacks([m EXCEPT !.envs = Append(@, env), !.ops = Append(@, "Apply"),
                                 !.vals = Append(@, x)])
          /\ Running /\ IsAtom(x)
          /\ operands' = <<[list |-> Rest(allocator, program), extra |-> extra]>>
      BY <1>4, <2>1 DEF EvalOperator, End
    <3>2. /\ val_stack' = Append(v, x) /\ env_stack' = Append(e, env)
          /\ op_stack' = Append(ops, "Apply") /\ softfork_stack' = g
      BY <3>1 DEF SetStacks, Stacks
    <3>3. /\ Shape(val_stack', env_stack', op_stack', softfork_stack', 0)
          /\ HasApply(op_stack')
      BY <3>1, <3>2, PushApply
    <3>4. operands' # <<>>
      BY <3>1
    <3>5. QED
      BY <3>1, <3>3, <3>4 DEF StacksOK, Above, Running
  <2>2. QED
    BY <1>0, <2>1
<1>5. QED
  BY <1>1, <1>2, <1>3, <1>4 DEF EvalPair

\* A record of four stacks is known by its fields.
LEMMA StacksFields ==
  ASSUME NEW r, r = [i \in DOMAIN r |-> r[i]],
         DOMAIN r = {"vals", "envs", "ops", "guards"}
  PROVE  r = Stacks(r.vals, r.envs, r.ops, r.guards)
<1> DEFINE s == Stacks(r.vals, r.envs, r.ops, r.guards)
<1>1. /\ DOMAIN s = {"vals", "envs", "ops", "guards"} /\ s = [i \in DOMAIN s |-> s[i]]
      /\ s.vals = r.vals /\ s.envs = r.envs /\ s.ops = r.ops /\ s.guards = r.guards
  BY DEF Stacks
<1> HIDE DEF s
<1>2. \A i \in DOMAIN r : r[i] = s[i]
  BY <1>1
<1>3. r = s
  BY <1>1, <1>2
<1>4. QED
  BY <1>3 DEF s

-----------------------------------------------------------------------------
(* The turns of the loop.                                                  *)

\* The first eval_pair(), on empty stacks.
LEMMA StartStep ==
  ASSUME StacksOK, Start
  PROVE  StacksOK'
<1>1. /\ val_stack = <<>> /\ env_stack = <<>> /\ op_stack = <<>>
      /\ softfork_stack = <<>> /\ operands = <<>>
  BY DEF StacksOK, Start
<1>2. CASE status' = "error"
  BY <1>2, NotRunning
<1>3. CASE EvalPair(call.program, call.env,
                    Stacks(val_stack, env_stack, op_stack, softfork_stack), 0)
  BY <1>1, <1>3, EmptyShape, EvalPairStep
<1>4. QED
  BY <1>2, <1>3 DEF Start, End

\* An operand is pushed together with the SwapEval that owns it.
LEMMA PushOperandStep ==
  ASSUME StacksOK, PushOperand
  PROVE  StacksOK'
<1> DEFINE v == val_stack
           e == env_stack
           ops == op_stack
           g == softfork_stack
           x == First(allocator, operands[1].list)
<1>1. status = "run" /\ operands # <<>>
  BY DEF PushOperand
<1>2. Shape(v, e, ops, g, 0) /\ HasApply(ops)
  BY <1>1 DEF StacksOK, Above
<1>3. CASE status' = "error"
  BY <1>3, NotRunning
<1>4. CASE status' # "error"
  <2>1. /\ op_stack' = Append(ops, "SwapEval") /\ val_stack' = Append(v, x)
        /\ env_stack' = e /\ softfork_stack' = g /\ status' = "run"
        /\ operands' = <<[operands[1] EXCEPT !.list = Rest(allocator, operands[1].list)]>>
    BY <1>1, <1>4 DEF PushOperand, End
  <2>2. operands' # <<>>
    BY <2>1
  <2>3. Shape(Append(v, x), e, ops, g, 1)
    BY <1>2, PushOne, 0 + 1 = 1
  <2>4. Vec(e) /\ Vec(g) /\ Vec(ops) /\ Len(e) \in Nat /\ Len(g) \in Nat
    BY <1>2, VecLen DEF Shape
  <2>5. /\ Len(e) = Len(e) + (IF "SwapEval" = "Apply" THEN 1 ELSE 0)
        /\ Len(g) = Len(g) + (IF "SwapEval" = "ExitGuard" THEN 1 ELSE 0)
        /\ 1 = 0 + (IF "SwapEval" = "ExitGuard" THEN 0 ELSE 1) /\ 1 \in Nat /\ 0 \in Nat
        /\ "SwapEval" = "Apply" => IsAtom(Append(v, x)[Slot(ops, Len(ops)) + 1])
        /\ "SwapEval" = "SwapEval" => HasApply(ops)
    BY <1>2, <2>4
  <2>6. Shape(Append(v, x), e, Append(ops, "SwapEval"), g, 0)
    BY <2>3, <2>4, <2>5, ShapePush
  <2>7. HasApply(Append(ops, "SwapEval"))
    <3>1. PICK j \in 1 .. Len(ops) : ops[j] = "Apply"
      BY <1>2 DEF HasApply
    <3>2. Append(ops, "SwapEval")[j] = "Apply" /\ j \in 1 .. Len(Append(ops, "SwapEval"))
      BY <2>4, <3>1, VecAppend, VecLen
    <3>3. QED
      BY <3>2 DEF HasApply
  <2>8. QED
    BY <2>1, <2>2, <2>6, <2>7 DEF StacksOK, Above
<1>5. QED
  BY <1>3, <1>4

\* The end of the operand list pushes the list of results.
LEMMA EndOperandsStep ==
  ASSUME StacksOK, EndOperands
  PROVE  StacksOK'
<1>1. Shape(val_stack, env_stack, op_stack, softfork_stack, 0) /\ operands' = <<>>
  BY DEF StacksOK, Above, EndOperands
<1>2. CASE status' = "error"
  BY <1>2, NotRunning
<1>3. CASE status' # "error"
  <2>1. /\ val_stack' = Append(val_stack, nil) /\ env_stack' = env_stack
        /\ op_stack' = op_stack /\ softfork_stack' = softfork_stack /\ status' = "run"
    BY <1>3 DEF EndOperands, End
  <2>2. Shape(Append(val_stack, nil), env_stack, op_stack, softfork_stack, 1)
    BY <1>1, PushOne, 0 + 1 = 1
  <2>3. QED
    BY <1>1, <2>1, <2>2, RunningAgain
<1>4. QED
  BY <1>2, <1>3

\* What a turn finds when it pops an operation.
LEMMA TurnFacts ==
  ASSUME StacksOK, Loop, op_stack # <<>>
  PROVE  /\ Shape(val_stack, env_stack, op_stack, softfork_stack, 1)
         /\ operands = <<>> /\ status = "run" /\ Len(op_stack) >= 1
         /\ Vec(val_stack) /\ Vec(env_stack) /\ Vec(op_stack) /\ Vec(softfork_stack)
         /\ Len(val_stack) \in Nat /\ Len(env_stack) \in Nat /\ Len(op_stack) \in Nat
         /\ Len(softfork_stack) \in Nat
<1>1. /\ Shape(val_stack, env_stack, op_stack, softfork_stack, 1)
      /\ operands = <<>> /\ status = "run"
  BY DEF StacksOK, Above, Loop
<1>2. Vec(val_stack) /\ Vec(env_stack) /\ Vec(op_stack) /\ Vec(softfork_stack)
  BY <1>1 DEF Shape
<1>3. /\ Len(val_stack) \in Nat /\ Len(env_stack) \in Nat /\ Len(op_stack) \in Nat
      /\ Len(softfork_stack) \in Nat /\ Len(op_stack) # 0
  BY <1>2, VecLen
<1>4. QED
  BY <1>1, <1>2, <1>3

\* cons_op(): the pair takes the place of the two values popped.
LEMMA ConsStep ==
  ASSUME StacksOK, ConsTurn
  PROVE  StacksOK'
<1> DEFINE x == new_pair(allocator, Top(val_stack), val_stack[Len(val_stack) - 1]).node
           w == Drop(val_stack, 2)
           t == Drop(op_stack, 1)
<1>1. Loop /\ op_stack # <<>> /\ op_stack[Len(op_stack)] = "Cons"
  BY DEF ConsTurn, TopOp, Top
<1>2. /\ Shape(val_stack, env_stack, op_stack, softfork_stack, 1)
      /\ operands = <<>> /\ status = "run" /\ Len(op_stack) >= 1
      /\ Vec(val_stack) /\ Vec(env_stack) /\ Vec(op_stack) /\ Vec(softfork_stack)
      /\ Len(val_stack) \in Nat /\ Len(env_stack) \in Nat /\ Len(op_stack) \in Nat
      /\ Len(softfork_stack) \in Nat
  BY <1>1, TurnFacts
<1>3. Len(env_stack) = Len(env_stack) - (IF op_stack[Len(op_stack)] = "Apply" THEN 1 ELSE 0)
  BY <1>1, <1>2
<1>4. Len(val_stack) >= 2 /\ Shape(w, env_stack, t, softfork_stack, 0)
  BY <1>1, <1>2, <1>3, Pop2Shape DEF Drop
<1>5. ConsOp
  BY <1>4 DEF ConsTurn, Pop2
<1>6. CASE status' = "error"
  BY <1>6, NotRunning
<1>7. CASE status' # "error"
  <2>1. /\ SetStacks([Popped2 EXCEPT !.vals = Append(@, x)])
        /\ status' = status /\ operands' = operands
    BY <1>5, <1>7 DEF ConsOp, End
  <2>2. /\ val_stack' = Append(w, x) /\ env_stack' = env_stack
        /\ op_stack' = t /\ softfork_stack' = softfork_stack
    BY <2>1 DEF SetStacks, Popped2, Stacks
  <2>3. Shape(Append(w, x), env_stack, t, softfork_stack, 1)
    BY <1>4, PushOne, 0 + 1 = 1
  <2>4. QED
    BY <1>2, <2>1, <2>2, <2>3, RunningAgain
<1>8. QED
  BY <1>6, <1>7

\* swap_eval_op(): the list of results now belongs to a Cons.
LEMMA SwapEvalStep ==
  ASSUME StacksOK, SwapEval
  PROVE  StacksOK'
<1> DEFINE v2 == Top(val_stack)
           program == val_stack[Len(val_stack) - 1]
           w == Drop(val_stack, 2)
           t == Drop(op_stack, 1)
<1>1. Loop /\ op_stack # <<>> /\ op_stack[Len(op_stack)] = "SwapEval"
  BY DEF SwapEval, TopOp, Top
<1>2. /\ Shape(val_stack, env_stack, op_stack, softfork_stack, 1)
      /\ operands = <<>> /\ status = "run" /\ Len(op_stack) >= 1
      /\ Vec(val_stack) /\ Vec(env_stack) /\ Vec(op_stack) /\ Vec(softfork_stack)
      /\ Len(val_stack) \in Nat /\ Len(env_stack) \in Nat /\ Len(op_stack) \in Nat
      /\ Len(softfork_stack) \in Nat
  BY <1>1, TurnFacts
<1>3. Len(env_stack) = Len(env_stack) - (IF op_stack[Len(op_stack)] = "Apply" THEN 1 ELSE 0)
  BY <1>1, <1>2
<1>4. Len(val_stack) >= 2 /\ Shape(w, env_stack, t, softfork_stack, 0)
  BY <1>1, <1>2, <1>3, Pop2Shape DEF Drop
<1>5. Len(env_stack) >= 1
  BY <1>1, <1>2, ShapeTop, 1 \in Nat
<1>6. env_stack # <<>>
  BY <1>2, <1>5, VecLen
<1>7. EvalPair(program, Top(env_stack),
               [Popped2 EXCEPT !.vals = Append(@, v2), !.ops = Append(@, "Cons")], 0)
  BY <1>4, <1>6 DEF SwapEval, Pop2, SwapEvalOp
<1>8. [Popped2 EXCEPT !.vals = Append(@, v2), !.ops = Append(@, "Cons")]
        = Stacks(Append(w, v2), env_stack, Append(t, "Cons"), softfork_stack)
  <2> DEFINE r == [Popped2 EXCEPT !.vals = Append(@, v2), !.ops = Append(@, "Cons")]
  <2>1. DOMAIN r = {"vals", "envs", "ops", "guards"} /\ r = [i \in DOMAIN r |-> r[i]]
    BY Zenon DEF Popped2, Stacks
  <2>2. /\ r.vals = Append(w, v2) /\ r.envs = env_stack
        /\ r.ops = Append(t, "Cons") /\ r.guards = softfork_stack
    BY DEF Popped2, Stacks
  <2> HIDE DEF r
  <2>3. r = Stacks(r.vals, r.envs, r.ops, r.guards)
    BY <2>1, StacksFields
  <2>4. QED
    BY <2>2, <2>3, Zenon DEF r
<1>9. Shape(Append(w, v2), env_stack, Append(t, "Cons"), softfork_stack, 0)
  BY <1>4, PushCons
<1>10. QED
  BY <1>2, <1>7, <1>8, <1>9, EvalPairStep

\* apply_op(), for (a ...), (softfork ...) and the operators of the dialect.
LEMMA ApplyStep ==
  ASSUME StacksOK, Apply
  PROVE  StacksOK'
<1> DEFINE w == Drop(val_stack, 2)
           t == Drop(op_stack, 1)
           e == Drop(env_stack, 1)
           g == softfork_stack
<1>1. Loop /\ op_stack # <<>> /\ op_stack[Len(op_stack)] = "Apply"
  BY DEF Apply, TopOp, Top
<1>2. /\ Shape(val_stack, env_stack, op_stack, softfork_stack, 1)
      /\ operands = <<>> /\ status = "run" /\ Len(op_stack) >= 1
      /\ Vec(val_stack) /\ Vec(env_stack) /\ Vec(op_stack) /\ Vec(softfork_stack)
      /\ Len(val_stack) \in Nat /\ Len(env_stack) \in Nat /\ Len(op_stack) \in Nat
      /\ Len(softfork_stack) \in Nat
  BY <1>1, TurnFacts
<1>3. /\ Len(env_stack) >= 1 /\ Slot(op_stack, Len(op_stack)) \in Nat
      /\ Len(val_stack) = Slot(op_stack, Len(op_stack)) + 1
      /\ IsAtom(val_stack[Slot(op_stack, Len(op_stack))])
  BY <1>1, <1>2, ShapeTop, 1 \in Nat
<1>4. IsAtom(operator) /\ env_stack # <<>>
  <2>1. Len(val_stack) - 1 = Slot(op_stack, Len(op_stack))
    BY <1>3
  <2>2. QED
    BY <1>2, <1>3, <2>1, VecLen DEF operator
<1>5. Vec(e) /\ Len(e) = Len(env_stack) - 1
  <2>1. 1 \in 0 .. Len(env_stack)
    BY <1>2, <1>3
  <2>2. QED
    BY <1>2, <2>1, VecDrop, Zenon DEF Drop
<1>6. Len(e) = Len(env_stack) - (IF op_stack[Len(op_stack)] = "Apply" THEN 1 ELSE 0)
  BY <1>1, <1>5
<1>7. Len(val_stack) >= 2 /\ Shape(w, e, t, g, 0)
  BY <1>1, <1>2, <1>5, <1>6, Pop2Shape, Zenon DEF Drop
<1>8. ApplyKw \/ Softfork \/ DialectOp
  BY <1>4, <1>7 DEF Apply, Pop2, ApplyOp
<1>9. Applied = Stacks(w, e, t, g)
  BY DEF Applied, Popped2, Stacks
<1>10. ASSUME NEW x, SetStacks([Applied EXCEPT !.vals = Append(@, x)]),
              status' = "run", operands' = operands
       PROVE  StacksOK'
  <2>1. val_stack' = Append(w, x) /\ env_stack' = e /\ op_stack' = t /\ softfork_stack' = g
    BY <1>9, <1>10 DEF SetStacks, Stacks
  <2>2. Shape(Append(w, x), e, t, g, 1)
    BY <1>7, PushOne, 0 + 1 = 1
  <2>3. QED
    BY <1>2, <1>10, <2>1, <2>2, RunningAgain
<1>11. CASE status' = "error"
  BY <1>11, NotRunning
<1>12. CASE status' # "error" /\ ApplyKw
  <2>1. EvalPair(Arg1(allocator, operand_list), Arg2(allocator, operand_list),
                 Stacks(w, e, t, g), APPLY_COST)
    BY <1>9, <1>12 DEF ApplyKw, End
  <2>2. QED
    BY <1>2, <1>7, <2>1, EvalPairStep
<1>13. CASE status' # "error" /\ Softfork
  <2>1. \/ \E guard : EvalPair(Arg3(allocator, operand_list), Arg4(allocator, operand_list),
                        [Applied EXCEPT !.guards = Append(@, guard),
                                        !.ops = Append(@, "ExitGuard")], GUARD_COST)
        \/ /\ SetStacks([Applied EXCEPT !.vals = Append(@, nil)])
           /\ status' = "run" /\ operands' = operands
    BY <1>13, Zenon DEF Softfork, End, Running
  <2>2. CASE \E guard : EvalPair(Arg3(allocator, operand_list), Arg4(allocator, operand_list),
                        [Applied EXCEPT !.guards = Append(@, guard),
                                        !.ops = Append(@, "ExitGuard")], GUARD_COST)
    <3>1. PICK guard : EvalPair(Arg3(allocator, operand_list), Arg4(allocator, operand_list),
                        [Applied EXCEPT !.guards = Append(@, guard),
                                        !.ops = Append(@, "ExitGuard")], GUARD_COST)
      BY <2>2, Zenon
    <3>2. [Applied EXCEPT !.guards = Append(@, guard), !.ops = Append(@, "ExitGuard")]
            = Stacks(w, e, Append(t, "ExitGuard"), Append(g, guard))
      <4> DEFINE r == [Applied EXCEPT !.guards = Append(@, guard),
                                      !.ops = Append(@, "ExitGuard")]
      <4>1. DOMAIN r = {"vals", "envs", "ops", "guards"} /\ r = [i \in DOMAIN r |-> r[i]]
        BY <1>9, Zenon DEF Stacks
      <4>2. /\ r.vals = w /\ r.envs = e
            /\ r.ops = Append(t, "ExitGuard") /\ r.guards = Append(g, guard)
        BY <1>9 DEF Stacks
      <4> HIDE DEF r
      <4>3. r = Stacks(r.vals, r.envs, r.ops, r.guards)
        BY <4>1, StacksFields
      <4>4. QED
        BY <4>2, <4>3, Zenon DEF r
    <3>3. Shape(w, e, Append(t, "ExitGuard"), Append(g, guard), 0)
      BY <1>7, PushGuard
    <3>4. QED
      BY <1>2, <3>1, <3>2, <3>3, EvalPairStep
  <2>3. QED
    BY <1>10, <2>1, <2>2, Zenon
<1>14. CASE status' # "error" /\ DialectOp
  <2>1. \E x : /\ SetStacks([Applied EXCEPT !.vals = Append(@, x)])
               /\ status' = "run" /\ operands' = operands
    BY <1>4, <1>14, Zenon DEF DialectOp, End, Running
  <2>2. QED
    BY <1>10, <2>1
<1>15. QED
  BY <1>8, <1>11, <1>12, <1>13, <1>14
\* exit_guard(): nil takes the place of the value of the program.
LEMMA ExitGuardStep ==
  ASSUME StacksOK, ExitGuard
  PROVE  /\ StacksOK'
         /\ softfork_stack # <<>> /\ val_stack # <<>>
<1> DEFINE w == Drop(val_stack, 1)
           t == Drop(op_stack, 1)
           g == Drop(softfork_stack, 1)
<1>1. Loop /\ op_stack # <<>> /\ op_stack[Len(op_stack)] = "ExitGuard"
  BY DEF ExitGuard, TopOp, Top
<1>2. /\ Shape(val_stack, env_stack, op_stack, softfork_stack, 1)
      /\ operands = <<>> /\ status = "run" /\ Len(op_stack) >= 1
      /\ Vec(val_stack) /\ Vec(env_stack) /\ Vec(op_stack) /\ Vec(softfork_stack)
      /\ Len(val_stack) \in Nat /\ Len(env_stack) \in Nat /\ Len(op_stack) \in Nat
      /\ Len(softfork_stack) \in Nat
  BY <1>1, TurnFacts
<1>3. /\ Slot(op_stack, Len(op_stack)) \in Nat /\ Len(softfork_stack) >= 1
      /\ Len(val_stack) = Slot(op_stack, Len(op_stack)) + 1
  BY <1>1, <1>2, ShapeTop, 1 \in Nat
<1>4. Len(val_stack) >= 1 /\ softfork_stack # <<>> /\ val_stack # <<>>
  BY <1>2, <1>3, VecLen
<1>5. CASE status' \in {"error", "panic"}
  BY <1>4, <1>5, NotRunning
<1>6. CASE status' \notin {"error", "panic"}
  <2>1. /\ SetStacks(Stacks(GuardValueDropped, env_stack, t, g))
        /\ status' = status /\ operands' = operands
    BY <1>6 DEF ExitGuard, End
  <2>2. /\ val_stack' = Append(w, nil) /\ env_stack' = env_stack
        /\ op_stack' = t /\ softfork_stack' = g
    BY <2>1 DEF SetStacks, Stacks, GuardValueDropped
  <2>3. 1 \in 0 .. Len(softfork_stack) /\ 1 \in 0 .. Len(val_stack)
    BY <1>2, <1>3, <1>4
  <2>4. Vec(g) /\ Len(g) = Len(softfork_stack) - 1
    BY <1>2, <2>3, VecDrop, Zenon DEF Drop
  <2>5. /\ Len(env_stack)
             = Len(env_stack) - (IF op_stack[Len(op_stack)] = "Apply" THEN 1 ELSE 0)
        /\ Len(g)
             = Len(softfork_stack) - (IF op_stack[Len(op_stack)] = "ExitGuard" THEN 1 ELSE 0)
        /\ 1 = 1 + (IF op_stack[Len(op_stack)] = "ExitGuard" THEN 0 ELSE 1) /\ 1 \in Nat
    BY <1>1, <1>2, <2>4
  <2>6. Shape(val_stack, env_stack, t, g, 1)
    BY <1>2, <2>4, <2>5, ShapePop, Zenon DEF Drop
  <2>7. Vec(w) /\ Len(w) = Len(val_stack) - 1 /\ \A i \in 1 .. Len(val_stack) - 1 : w[i] = val_stack[i]
    BY <1>2, <2>3, VecDrop, Zenon DEF Drop
  <2>8. /\ Vec(Append(w, nil)) /\ Len(Append(w, nil)) = Len(w) + 1
        /\ \A i \in 1 .. Len(w) : Append(w, nil)[i] = w[i]
    BY <2>7, VecAppend
  <2>9. Len(t) \in Nat /\ Len(val_stack) = Slot(t, Len(t)) + 1
    BY <2>6, VecLen DEF Shape
  <2>10. Slot(t, Len(t)) \in Nat
    BY <2>9, SlotBelow
  <2> HIDE DEF w, t
  <2>11. /\ Len(Append(w, nil)) = Slot(t, Len(t)) + 1
         /\ \A p \in 1 .. Slot(t, Len(t)) : Append(w, nil)[p] = val_stack[p]
    BY <2>7, <2>8, <2>9, <2>10
  <2>12. Shape(Append(w, nil), env_stack, t, g, 1)
    BY <2>6, <2>8, <2>11, ShapeVals, 1 \in Nat, Zenon
  <2>13. StacksOK'
    BY <1>2, <2>1, <2>2, <2>12, RunningAgain
  <2>14. QED
    BY <1>4, <2>13
<1>7. QED
  BY <1>5, <1>6

\* The end of the loop finds a value to return.
LEMMA FinishStep ==
  ASSUME StacksOK, Finish
  PROVE  StacksOK' /\ status' = "ok"
<1>1. /\ Shape(val_stack, env_stack, op_stack, softfork_stack, 1)
      /\ op_stack = <<>>
  BY Zenon DEF StacksOK, Above, Finish, Loop
<1>2. Vec(val_stack) /\ Len(val_stack) = Slot(<<>>, 0) + 1 /\ Slot(<<>>, 0) \in Nat
  <2>1. Slot(<<>>, 0) \in Nat
    BY SlotBelow, 0 \in Nat, 0 <= 0
  <2>2. QED
    BY <1>1, <2>1 DEF Shape
<1>3. val_stack # <<>>
  BY <1>2, VecLen
<1>4. status' = "ok"
  BY <1>3 DEF Finish
<1>5. QED
  BY <1>4, NotRunning

\* A call that has ended stays as it is.
LEMMA UnchangedStep ==
  ASSUME StacksOK, UNCHANGED vars
  PROVE  StacksOK'
BY DEF StacksOK, vars, stacks, Above

-----------------------------------------------------------------------------
(* The theorems.                                                           *)

\* Every turn keeps the shape.
LEMMA StacksInductive == StacksOK /\ [Next]_vars => StacksOK'
<1> SUFFICES ASSUME StacksOK, [Next]_vars PROVE StacksOK'
  OBVIOUS
<1>1. CASE Start
  BY <1>1, StartStep
<1>2. CASE PushOperand
  BY <1>2, PushOperandStep
<1>3. CASE EndOperands
  BY <1>3, EndOperandsStep
<1>4. CASE ConsTurn
  BY <1>4, ConsStep
<1>5. CASE SwapEval
  BY <1>5, SwapEvalStep
<1>6. CASE Apply
  BY <1>6, ApplyStep
<1>7. CASE ExitGuard
  BY <1>7, ExitGuardStep
<1>8. CASE CostExceeded
  <2>1. status' = "error"
    BY <1>8 DEF CostExceeded, End
  <2>2. QED
    BY <2>1, NotRunning
<1>9. CASE Finish
  BY <1>9, FinishStep
<1>10. CASE Terminated \/ UNCHANGED vars
  BY <1>10, UnchangedStep DEF Terminated
<1>11. QED
  BY <1>1, <1>2, <1>3, <1>4, <1>5, <1>6, <1>7, <1>8, <1>9, <1>10 DEF Next

\* A call starts with empty stacks.
LEMMA StacksInitially == Init => StacksOK
BY DEF Init, Fresh, StacksOK

\* The stacks always have the shape that the pending operations call for.
THEOREM StacksInvariant == Spec => []StacksOK
BY StacksInitially, StacksInductive, PTL DEF Spec

\* The shape, in the words of StackDiscipline.
LEMMA ShapeIsDiscipline == StacksOK => StackDiscipline
<1> SUFFICES ASSUME StacksOK, status = "run" PROVE StackDiscipline
  BY DEF StackDiscipline
<1> DEFINE n == Len(op_stack)
<1>1. Shape(val_stack, env_stack, op_stack, softfork_stack, Above)
  BY DEF StacksOK
<1>2. Vec(op_stack) /\ n \in Nat /\ DOMAIN op_stack = 1 .. n
  BY <1>1, VecLen DEF Shape
<1>3. Guards(n) = Count(op_stack, "ExitGuard", n) /\ Applies = Count(op_stack, "Apply", n)
  BY <1>2 DEF Guards, Applies, Count
<1>4. /\ Len(softfork_stack) = Count(op_stack, "ExitGuard", n)
      /\ Len(env_stack) = Count(op_stack, "Apply", n)
      /\ Len(val_stack) = Slot(op_stack, n) + Above
      /\ \A i \in 1 .. n : op_stack[i] = "SwapEval" =>
           \E j \in 1 .. i - 1 : op_stack[j] = "Apply"
  BY <1>1 DEF Shape
<1>5. Len(val_stack) = n - Len(softfork_stack) + (IF operands = <<>> THEN 1 ELSE 0)
  BY <1>4 DEF Slot, Above
<1> HIDE DEF n
<1>6. QED
  BY <1>2, <1>3, <1>4, <1>5 DEF StackDiscipline, n

\* The shape, in the words of OperatorsAreAtoms.
LEMMA ShapeHasAtoms == StacksOK => OperatorsAreAtoms
<1> SUFFICES ASSUME StacksOK, status = "run",
                    NEW i \in DOMAIN op_stack, op_stack[i] = "Apply"
             PROVE  IsAtom(val_stack[i - Guards(i)])
  BY DEF OperatorsAreAtoms
<1>1. Shape(val_stack, env_stack, op_stack, softfork_stack, Above)
  BY DEF StacksOK
<1>2. DOMAIN op_stack = 1 .. Len(op_stack)
  BY <1>1, VecLen DEF Shape
<1>3. IsAtom(val_stack[Slot(op_stack, i)])
  BY <1>1, <1>2 DEF Shape
<1>4. QED
  BY <1>3 DEF Slot, Guards, Count

\* Every pending operation of run_program() finds its values, its environment
\* and its guard on the stacks; and the operator that an Apply hands to the
\* dialect is an atom, whatever ran between the moment eval_pair() pushed it
\* and the moment it is applied.
THEOREM StacksStayInStep == Spec => []StacksInStep
<1>1. StacksOK => StacksInStep
  BY ShapeIsDiscipline, ShapeHasAtoms DEF StacksInStep
<1>2. QED
  BY <1>1, StacksInvariant, PTL

\* No "runtime error: ... stack empty" of run_program() is ever returned.
THEOREM NoInternalError == Spec => [](status # "internal error")
<1>1. StacksOK => status # "internal error"
  BY Zenon DEF StacksOK
<1>2. QED
  BY <1>1, StacksInvariant, PTL
=============================================================================
