------------------------------- MODULE BatchQueue -------------------------------
(***************************************************************************)
(* What a queue list promises: a thread asks for a batch of items to be    *)
(* appended and the batch is queued whole, in one piece; a flush moves     *)
(* everything queued behind what is ready, in order; and the owner takes   *)
(* a run of items out of what is ready.                                    *)
(***************************************************************************)
EXTENDS Integers, Sequences

CONSTANTS Clients, Queues, Items,
          Nothing   (* the request of a client that asks for nothing        *)

VARIABLES request,  (* what each client is asking for                       *)
          queued,   (* the items of each queue that wait for a flush        *)
          ready     (* those its owner may take                             *)

vars == <<request, queued, ready>>

Init == /\ request = [t \in Clients |-> Nothing]
        /\ queued = [q \in Queues |-> <<>>]
        /\ ready = [q \in Queues |-> <<>>]

Ask(t) == /\ request[t] = Nothing
          /\ request'[t] \in [queue : Queues, items : Seq(Items)]
          /\ request' = [request EXCEPT ![t] = request'[t]]
          /\ UNCHANGED <<queued, ready>>

Enqueue(t) == /\ request[t] # Nothing
              /\ queued' = [queued EXCEPT ![request[t].queue] = @ \o request[t].items]
              /\ request' = [request EXCEPT ![t] = Nothing]
              /\ UNCHANGED ready

Flush(q) == /\ ready' = [ready EXCEPT ![q] = @ \o queued[q]]
            /\ queued' = [queued EXCEPT ![q] = <<>>]
            /\ UNCHANGED request

\* The items after the first i are taken up to the j-th.
Take(q, i, j) ==
  /\ ready' = [ready EXCEPT ![q] = SubSeq(@, 1, i) \o SubSeq(@, j + 1, Len(@))]
  /\ UNCHANGED <<request, queued>>

Next == \/ \E t \in Clients : Ask(t) \/ Enqueue(t)
        \/ \E q \in Queues : \/ Flush(q)
                             \/ \E i, j \in 0..Len(ready[q]) : i <= j /\ Take(q, i, j)

Spec == Init /\ [][Next]_vars
===============================================================================
