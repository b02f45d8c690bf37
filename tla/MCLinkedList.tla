----------------------------- MODULE MCLinkedList -----------------------------
(* Model values for LinkedList.                                                *)
EXTENDS LinkedList, TLC

Symmetry == Permutations(Lists) \cup Permutations(Nodes) \cup Permutations(Iterators)
===============================================================================
