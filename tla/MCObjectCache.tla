---------------------------- MODULE MCObjectCache ----------------------------
(* serialized_length(), which saturates, on a graph with shared nodes.     *)
EXTENDS ObjectCache

Graph == <<<<>>, <<>>, <<1, 1>>, <<3, 3>>, <<2, 3>>, <<5, 4>>, <<4, 1>>, <<7, 6>>>>
Values == 0 .. 12
Lengths == <<1, 2, 1, 1, 1, 1, 1, 1>>
Saturating(v, w) == IF 1 + v + w > 12 THEN 12 ELSE 1 + v + w
Anything == Nodes \cup {NoToken}

\* The nodes of the tree below n, itself included.
Below[n \in Nodes] ==
  {n} \cup (IF IsPair(n) THEN Below[Left(n)] \cup Below[Right(n)] ELSE {})

\* A call never gives the first value to a tree with its stop token in it:
\* when every call names the same token, as the serializer names its sentinel,
\* no unfinished tree is ever cached.
UnfinishedHasNoValue ==
  [][\A n \in DOMAIN cache' \ DOMAIN cache :
       call[1].stop_token \in Below[n] =>
         \E m \in DOMAIN cache : call[1].stop_token \in Below[m]]_vars

\* "If the stop_token is specified and is found in the CLVM tree below node,
\* traversal will stop and `None` is returned", whatever was cached before.
StopTokenGivesNone ==
  [][call # <<>> /\ call' = <<>>
       /\ call[1].stop_token \in Below[call[1].root_node]
     => ~Cached(call[1].root_node)]_vars
=============================================================================
