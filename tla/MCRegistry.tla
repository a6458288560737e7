----------------------------- MODULE MCRegistry -----------------------------
(* Registry on small sets; tasks born later are interchangeable, and so are  *)
(* the numbers.                                                              *)
EXTENDS Registry, TLC

Interchangeable == Permutations(Task \ Roots) \cup Permutations(Pid)
=============================================================================
