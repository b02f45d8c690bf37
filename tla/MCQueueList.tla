------------------------------ MODULE MCQueueList ------------------------------
(* Model values for QueueList: two threads, each owning a list both append to. *)
EXTENDS QueueList, TLC

CONSTANTS t1, t2, l1, l2

MCOwner == l1 :> t1 @@ l2 :> t2

\* The two threads may change places if their lists do.
Unswapped == t1 :> t1 @@ t2 :> t2 @@ l1 :> l1 @@ l2 :> l2
Swapped   == t1 :> t2 @@ t2 :> t1 @@ l1 :> l2 @@ l2 :> l1
Symmetry  == {f @@ g : f \in {Unswapped, Swapped}, g \in Permutations(Mutexes)}
===============================================================================
