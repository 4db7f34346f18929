----------------------------- MODULE ObjectCache -----------------------------
(***************************************************************************)
(* ObjectCache (src/serde/object_cache.rs): a function on trees, computed  *)
(* without recursion and remembered by node.                               *)
(*                                                                         *)
(* Nodes is a graph of shared nodes: Children[n] is <<>> for an atom and   *)
(* <<left, right>> for a pair.  The cached function f, treehash() or       *)
(* serialized_length(), is given by its value for an atom and by how it    *)
(* combines the values of two children.                                    *)
(***************************************************************************)
EXTENDS Integers, Sequences

CONSTANTS
  Nodes,          \* the nodes of an allocator
  Children,       \* their children
  T,              \* the values of f
  AtomValue,      \* f of an atom
  Combine(_, _),  \* f of a pair, from the values of its children
  NoToken,        \* the stop_token None
  Tokens          \* the stop tokens that callers pass

IsPair(n) == Children[n] # <<>>
Left(n) == Children[n][1]
Right(n) == Children[n][2]

\* Nodes can be numbered so that children come first, as an allocator does.
ASSUME CacheAssumption ==
  /\ Nodes \subseteq Nat
  /\ Children \in [Nodes -> {<<>>} \cup (Nodes \X Nodes)]
  /\ \A n \in Nodes : IsPair(n) => Left(n) < n /\ Right(n) < n
  /\ AtomValue \in [Nodes -> T]
  /\ \A v, w \in T : Combine(v, w) \in T
  /\ NoToken \notin Nodes /\ Tokens \subseteq Nodes \cup {NoToken}

VARIABLES
  cache,      \* node -> value
  obj_list,   \* the nodes to visit
  call        \* <<>>, or the call of get_or_calculate() in its loop

vars == <<cache, obj_list, call>>

Init == cache = <<>> /\ obj_list = <<>> /\ call = <<>>

Cached(n) == n \in DOMAIN cache

\* get_or_calculate() enters calculate().
GetOrCalculate ==
  \E root_node \in Nodes, stop_token \in Tokens :
    /\ call = <<>>
    /\ call' = <<[root_node |-> root_node, stop_token |-> stop_token]>>
    /\ obj_list' = <<root_node>>
    /\ UNCHANGED cache

node == obj_list[Len(obj_list)]
Popped == SubSeq(obj_list, 1, Len(obj_list) - 1)
Working == call # <<>> /\ obj_list # <<>>

\* Bug: only the root is compared with the token.
StoppedAtRoot == Len(obj_list) = 1 /\ node = call[1].stop_token

Stopped == node = call[1].stop_token

\* The search gives up at the stop_token and leaves the list behind.
Stop ==
  /\ Working /\ Stopped
  /\ obj_list' = <<>> /\ call' = <<>>
  /\ UNCHANGED cache

\* Bug: the node is not popped.
KnownNotPopped == Working /\ ~Stopped /\ Cached(node) /\ UNCHANGED vars

Known ==
  /\ Working /\ ~Stopped /\ Cached(node)
  /\ obj_list' = Popped
  /\ UNCHANGED <<cache, call>>

\* f returned None: its children first, and then the node again.
PushChildren ==
  /\ Working /\ ~Stopped /\ ~Cached(node)
  /\ IsPair(node) /\ ~(Cached(Left(node)) /\ Cached(Right(node)))
  /\ obj_list' = obj_list \o Children[node]
  /\ UNCHANGED <<cache, call>>

f(n) == IF IsPair(n) THEN Combine(cache[Left(n)], cache[Right(n)]) ELSE AtomValue[n]

\* Bug: the left child alone is waited for.
CalculateFromLeft ==
  /\ Working /\ ~Stopped /\ ~Cached(node)
  /\ IsPair(node) => Cached(Left(node))
  /\ cache' = [n \in DOMAIN cache \cup {node} |->
                 IF n # node THEN cache[n]
                 ELSE IF ~IsPair(n) THEN AtomValue[n]
                 ELSE cache[Left(n)]]
  /\ obj_list' = Popped
  /\ UNCHANGED call

Calculate ==
  /\ Working /\ ~Stopped /\ ~Cached(node)
  /\ IsPair(node) => Cached(Left(node)) /\ Cached(Right(node))
  /\ cache' = [n \in DOMAIN cache \cup {node} |-> IF n = node THEN f(n) ELSE cache[n]]
  /\ obj_list' = Popped
  /\ UNCHANGED call

\* The list is empty and get_or_calculate() reads the cache.
Return ==
  /\ call # <<>> /\ obj_list = <<>>
  /\ call' = <<>>
  /\ UNCHANGED <<cache, obj_list>>

Next == GetOrCalculate \/ Stop \/ Known \/ PushChildren \/ Calculate \/ Return

\* A call runs to its end on its thread; nobody has to make one.
Spec == Init /\ [][Next]_vars
FairSpec == Spec /\ WF_vars(Stop \/ Known \/ PushChildren \/ Calculate \/ Return)

-----------------------------------------------------------------------------
(* Properties.                                                             *)

\* The cache and the work list hold what the struct and calculate() declare;
\* the values of serialized_length() saturate and never leave their range.
TypeOK ==
  /\ DOMAIN cache \subseteq Nodes
  /\ cache \in [DOMAIN cache -> T]
  /\ obj_list \in Seq(Nodes)
  /\ call \in {<<>>} \cup {<<c>> : c \in [root_node : Nodes, stop_token : Tokens]}

\* The cache is closed under children, and a pair's value is made from the
\* values of its children: what get_or_calculate() returns is the function,
\* however calls, shared nodes and stop tokens were interleaved before.
CacheIsRight ==
  \A n \in DOMAIN cache :
    /\ IsPair(n) => Left(n) \in DOMAIN cache /\ Right(n) \in DOMAIN cache
    /\ cache[n] = f(n)

\* A call that runs to the end of its list has the value of its root.
RootIsCached == call # <<>> /\ obj_list = <<>> => Cached(call[1].root_node)

\* Whatever calls came before, with whatever stop tokens: the cache holds
\* values of the function and nothing else, and a call that has emptied its
\* list finds its root there.
CacheIsSound == TypeOK /\ CacheIsRight /\ RootIsCached

\* Every call returns, also one on a node with heavily shared children.
CallsReturn == call # <<>> ~> call = <<>>
=============================================================================
