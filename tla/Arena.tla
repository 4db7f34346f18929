-------------------------------- MODULE Arena --------------------------------
(***************************************************************************)
(* What an allocator promises to its clients, without vectors, lengths or  *)
(* limits: a store of immutable nodes.  A call adds one node made of nodes *)
(* that are there, or changes nothing (it fails, or its result needs no    *)
(* memory); going back to a mark brings back the store as it was then, and *)
(* forgets the marks made since.                                           *)
(***************************************************************************)
EXTENDS Sequences

CONSTANTS
  Bytes,      \* the contents of atoms
  Immediate   \* the nodes that need no memory: small atoms

VARIABLES
  store,  \* node -> content
  marks   \* the stores to go back to, oldest first

Live == DOMAIN store \cup Immediate
Contents == [bytes : Bytes] \cup [first : Live, rest : Live]

Init == DOMAIN store = {} /\ marks = <<>>

New ==
  \E n \in DOMAIN store' \ DOMAIN store :
    /\ DOMAIN store' = DOMAIN store \cup {n}
    /\ store'[n] \in Contents
    /\ \A m \in DOMAIN store : store'[m] = store[m]
    /\ UNCHANGED marks

Mark == marks' = Append(marks, store) /\ UNCHANGED store

GoBack ==
  \E i \in DOMAIN marks :
    /\ store' = marks[i]
    /\ marks' = SubSeq(marks, 1, i)

Next == New \/ Mark \/ GoBack

Spec == Init /\ [][Next]_<<store, marks>>
=============================================================================
