------------------------------ MODULE MCRefObject ------------------------------
(* Model values for RefObject.                                                *)
EXTENDS RefObject, TLC

Symmetry == Permutations(Threads) \cup Permutations(Vars) \cup Permutations(Objs)
===============================================================================
