---------------------------- MODULE BlockOwnership ----------------------------
(***************************************************************************)
(* What an allocator of the SDK promises its callers, whatever the way it  *)
(* recycles memory: a block of memory belongs to one client at a time, a   *)
(* block handed out came from the allocator (its cache, or the system),    *)
(* and a block goes back to the system only once no client holds it, or    *)
(* when the allocator itself is destroyed.                                 *)
(***************************************************************************)
CONSTANTS Clients,  (* the threads that hold blocks                        *)
          Blocks,   (* the blocks                                          *)
          Cache,    (* owner of a block the allocator keeps for reuse      *)
          System    (* owner of a block the process does not hold; this    *)
                    (* and Cache are distinct and no clients               *)

VARIABLE owner

Init == owner = [b \in Blocks |-> System]

\* A client is given a block nobody holds.
Grant(t, b) == /\ owner[b] \in {Cache, System}
               /\ owner' = [owner EXCEPT ![b] = t]

\* The client that holds a block gives it back; the allocator keeps it.
GiveBack(t, b) == /\ owner[b] = t
                  /\ owner' = [owner EXCEPT ![b] = Cache]

\* A block the allocator keeps goes back to the system.
Reclaim(b) == /\ owner[b] = Cache
              /\ owner' = [owner EXCEPT ![b] = System]

\* The allocator is destroyed, and every block with it.
Shutdown == owner' = [b \in Blocks |-> System]

Next == \/ \E t \in Clients, b \in Blocks : Grant(t, b) \/ GiveBack(t, b)
        \/ \E b \in Blocks : Reclaim(b)
        \/ Shutdown

Spec == Init /\ [][Next]_owner
===============================================================================
