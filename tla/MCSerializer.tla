---------------------------- MODULE MCSerializer ----------------------------
(* Trees for the serializer: a few shapes over two atoms, some unfinished. *)
EXTENDS Serializer

Limits == <<3, 4, 5, 6>>

Long == <<3>>
Short == <<1>>

SomeTrees ==
  {Long, Nil, Sentinel, <<Sentinel, Long>>, <<Sentinel, Sentinel>>}
    \cup {<<x, <<y, Sentinel>>>> : x, y \in {Long, <<Short, Short>>}}
    \cup {<<x, <<y, x>>>> : x, y \in {Long, <<Long, Short>>, <<Nil, Nil>>}}
=============================================================================
