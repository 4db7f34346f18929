----------------------------- MODULE MCAllocator -----------------------------
(***************************************************************************)
(* The calls that the allocator's client makes in the runs, over bytes of  *)
(* two bits: a small atom of one byte, and two bytes that are a negative   *)
(* number.  Pieces of these and of the small atoms add bytes that are not  *)
(* the shortest form of a number.                                          *)
(***************************************************************************)
EXTENDS AllocatorClient

SomeStrings == {<<1>>, <<3, 1>>}
SomeNumbers == {-3}
=============================================================================
