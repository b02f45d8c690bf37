------------------------------- MODULE LinkedList -------------------------------
(***************************************************************************)
(* ElsaCBaseLinkedList and ElsaCListIterator                               *)
(* (container/elsac_linked_list.h): doubly linked lists of nodes that say  *)
(* which list they are on, and iterators a list knows of, through a chain  *)
(* from m_pIterator, so that Remove can move those that stand on the node. *)
(*                                                                         *)
(* One thread uses them; every operation is one step. What a step may do   *)
(* to an iterator while others walk is what makes it hard.                 *)
(*                                                                         *)
(* The clients: a node that is linked in is on no list yet (Transfer       *)
(* asserts it), and the one it goes next to is on this list (asserted); a  *)
(* list is cleared, or an unlinked node freed, at any time, but an         *)
(* iterator of a cleared list is not used before First. ClientRules says   *)
(* whether an iterator is destroyed while its list still points to it.     *)
(* Definitions called Mut_X are X with a plausible mistake in it.          *)
(***************************************************************************)
EXTENDS Integers, FiniteSets

CONSTANTS
  Lists, Nodes, Iterators, NULL,
  ClientRules   (* {"keep_last"}, or {}: see the destructor of an iterator  *)

ASSUME NullAssumption  == NULL \notin Lists \cup Nodes \cup Iterators
ASSUME RulesAssumption == ClientRules \subseteq {"keep_last"}
ASSUME FiniteAssumption == IsFiniteSet(Nodes) /\ IsFiniteSet(Iterators)

VARIABLES
  m_pFirstNode, m_pLastNode, m_pIterator, m_iCount,  (* of each list        *)
  m_pPrev, m_pNext, m_pSelf,                         (* of each node        *)
  allocated,                                         (* the nodes there are *)
  m_pList, m_pEnuming, itPrev, itNext,               (* of each iterator    *)
  existing,                                          (* the iterators there are *)
  walk,       (* history: "none", "walking" or "ended", for each iterator   *)
  done,       (* history: the nodes it has returned that are still there    *)
  todo        (* history: those there since First that it has not           *)

endVars   == <<m_pFirstNode, m_pLastNode, m_iCount>>
nodeVars  == <<m_pPrev, m_pNext, m_pSelf, allocated>>
chainVars == <<m_pIterator, m_pList, itPrev, itNext, existing>>
walkVars  == <<m_pEnuming, walk, done, todo>>
vars == <<endVars, nodeVars, chainVars, walkVars>>

-------------------------------------------------------------------------------
NodesOf(l) == {n \in Nodes : m_pSelf[n] = l}

\* What is met from x along link: the least set that has x and what its elements
\* link to.
Closed(link, C) == \A c \in C : link[c] \in C \cup {NULL}
Along(link, x, S) ==
  {y \in S : \A C \in SUBSET S : x \in C \cup {NULL} /\ Closed(link, C) => y \in C}

\* x's field, of the object there is at x if there is one, becomes y.
Set(field, x, y) == IF x = NULL THEN field ELSE [field EXCEPT ![x] = y]

-------------------------------------------------------------------------------
(* Insertion: by data, which allocates the node, or of a node that is on no    *)
(* list.                                                                       *)

AllocNode(n) ==
  /\ n \notin allocated
  /\ allocated' = allocated \cup {n}
  /\ UNCHANGED <<endVars, m_pPrev, m_pNext, m_pSelf, chainVars, walkVars>>

FreeNode(n) ==
  /\ n \in allocated
  /\ m_pSelf[n] = NULL
  /\ allocated' = allocated \ {n}
  /\ UNCHANGED <<endVars, m_pPrev, m_pNext, m_pSelf, chainVars, walkVars>>

Mut_Link(l, n, prev, next) ==
  /\ m_pSelf[n] = NULL
  /\ allocated' = allocated \cup {n}
  /\ m_pSelf' = [m_pSelf EXCEPT ![n] = l]
  /\ m_pPrev' = [Set(m_pPrev, next, n) EXCEPT ![n] = prev]
  /\ m_pNext' = [Set(m_pNext, prev, n) EXCEPT ![n] = next]
  /\ m_pFirstNode' = IF prev = NULL THEN [m_pFirstNode EXCEPT ![l] = n] ELSE m_pFirstNode
  /\ m_pLastNode'  = IF prev = NULL /\ next = NULL THEN [m_pLastNode EXCEPT ![l] = n]
                                                   ELSE m_pLastNode
  /\ m_iCount' = [m_iCount EXCEPT ![l] = @ + 1]
  /\ UNCHANGED <<chainVars, walkVars>>

Link(l, n, prev, next) ==
  /\ m_pSelf[n] = NULL
  /\ allocated' = allocated \cup {n}
  /\ m_pSelf' = [m_pSelf EXCEPT ![n] = l]
  /\ m_pPrev' = [Set(m_pPrev, next, n) EXCEPT ![n] = prev]
  /\ m_pNext' = [Set(m_pNext, prev, n) EXCEPT ![n] = next]
  /\ m_pFirstNode' = IF prev = NULL THEN [m_pFirstNode EXCEPT ![l] = n] ELSE m_pFirstNode
  /\ m_pLastNode'  = IF next = NULL THEN [m_pLastNode EXCEPT ![l] = n] ELSE m_pLastNode
  /\ m_iCount' = [m_iCount EXCEPT ![l] = @ + 1]
  /\ UNCHANGED <<chainVars, walkVars>>

\* Before node, or first if that is null (LinkFirst).
LinkBefore(l, n, node) ==
  LET next == IF node = NULL THEN m_pFirstNode[l] ELSE node
  IN Link(l, n, IF next = NULL THEN NULL ELSE m_pPrev[next], next)

\* After node, or last if that is null (LinkLast); so does Transfer.
LinkAfter(l, n, node) ==
  LET prev == IF node = NULL THEN m_pLastNode[l] ELSE node
  IN Link(l, n, prev, IF prev = NULL THEN NULL ELSE m_pNext[prev])

-------------------------------------------------------------------------------
(* Removal. *)

\* The history no longer has nodes that have left the list.
Forget(ns) == /\ done' = [i \in Iterators |-> done[i] \ ns]
              /\ todo' = [i \in Iterators |-> todo[i] \ ns]
              /\ UNCHANGED walk

Mut_MovedOn(n, enuming)    == IF enuming = n THEN m_pNext[n] ELSE enuming
Mut_MovedOff(n, enuming)   == IF enuming = n THEN NULL ELSE enuming
Mut_NotMoved(n, enuming)   == enuming
\* Where an iterator stands that stood at enuming before n was removed.
Moved(n, enuming) == IF enuming = n THEN m_pPrev[n] ELSE enuming

Mut_IsOn(n, l) == m_pSelf[n] # NULL
IsOn(n, l) == m_pSelf[n] = l

\* The node leaves the list; every iterator of the chain that stands on it is
\* moved to the one before; the node is freed, or left to the caller, who does not
\* read its links before it is linked in again. moving is the iterator asked to
\* remove it, if it was one.
Unlink(l, n, free, moving) ==
  /\ IsOn(n, l)
  /\ m_pNext' = [Set(m_pNext, m_pPrev[n], m_pNext[n]) EXCEPT ![n] = NULL]
  /\ m_pPrev' = [Set(m_pPrev, m_pNext[n], m_pPrev[n]) EXCEPT ![n] = NULL]
  /\ m_pFirstNode' = [m_pFirstNode EXCEPT ![l] = IF @ = n THEN m_pNext[n] ELSE @]
  /\ m_pLastNode'  = [m_pLastNode EXCEPT ![l] = IF @ = n THEN m_pPrev[n] ELSE @]
  /\ m_pEnuming' = [i \in Iterators |->
                      IF i \in Along(itPrev, m_pIterator[l], Iterators) \cup moving
                      THEN Moved(n, m_pEnuming[i]) ELSE m_pEnuming[i]]
  /\ m_pSelf' = [m_pSelf EXCEPT ![n] = NULL]
  /\ allocated' = IF free THEN allocated \ {n} ELSE allocated
  /\ m_iCount' = [m_iCount EXCEPT ![l] = @ - 1]
  /\ Forget({n})
  /\ UNCHANGED chainVars

Remove(l, n, free) == Unlink(l, n, free, {})

\* Through an iterator, which is moved first.
IteratorRemove(i, n, free) ==
  /\ i \in existing
  /\ m_pList[i] # NULL
  /\ Unlink(m_pList[i], n, free, {i})

\* All nodes are freed; the iterators are left where they are. (The destructor of
\* a list does no more.)
Clear(l) ==
  LET gone == Along(m_pNext, m_pFirstNode[l], Nodes)
  IN /\ m_pFirstNode' = [m_pFirstNode EXCEPT ![l] = NULL]
     /\ m_pLastNode'  = [m_pLastNode EXCEPT ![l] = NULL]
     /\ m_iCount' = [m_iCount EXCEPT ![l] = 0]
     /\ allocated' = allocated \ gone
     /\ m_pPrev' = [n \in Nodes |-> IF n \in gone THEN NULL ELSE m_pPrev[n]]
     /\ m_pNext' = [n \in Nodes |-> IF n \in gone THEN NULL ELSE m_pNext[n]]
     /\ m_pSelf' = [n \in Nodes |-> IF n \in gone THEN NULL ELSE m_pSelf[n]]
     /\ walk' = [i \in Iterators |-> IF m_pList[i] = l THEN "none" ELSE walk[i]]
     /\ done' = [i \in Iterators |-> IF m_pList[i] = l THEN {} ELSE done[i]]
     /\ todo' = [i \in Iterators |-> IF m_pList[i] = l THEN {} ELSE todo[i]]
     /\ UNCHANGED <<m_pEnuming, chainVars>>

-------------------------------------------------------------------------------
(* Iterators. *)

\* The destructor takes an iterator out of the chain, but leaves m_pIterator as it
\* is. What the fields of the chain are once i is out of it:
WithoutNext(i) == IF m_pList[i] = NULL THEN itNext
                  ELSE [Set(itNext, itPrev[i], itNext[i]) EXCEPT ![i] = NULL]
Mut_WithoutPrev(i) == [itPrev EXCEPT ![i] = NULL]
WithoutPrev(i) == IF m_pList[i] = NULL THEN itPrev
                  ELSE [Set(itPrev, itNext[i], itPrev[i]) EXCEPT ![i] = NULL]

MayLeave(i) ==
  "keep_last" \in ClientRules /\ m_pList[i] # NULL => m_pIterator[m_pList[i]] # i

NotWalking(i) == /\ m_pEnuming' = [m_pEnuming EXCEPT ![i] = NULL]
                 /\ walk' = [walk EXCEPT ![i] = "none"]
                 /\ done' = [done EXCEPT ![i] = {}]
                 /\ todo' = [todo EXCEPT ![i] = {}]

\* An iterator becomes the last of the list's chain, whose fields are prev and next.
Join(i, l, prev, next) ==
  /\ m_pList' = [m_pList EXCEPT ![i] = l]
  /\ itPrev' = [prev EXCEPT ![i] = m_pIterator[l]]
  /\ itNext' = Set([next EXCEPT ![i] = NULL], m_pIterator[l], i)
  /\ m_pIterator' = [m_pIterator EXCEPT ![l] = i]
  /\ NotWalking(i)
  /\ UNCHANGED <<endVars, nodeVars>>

NewIterator(i) ==
  /\ i \notin existing
  /\ existing' = existing \cup {i}
  /\ UNCHANGED <<endVars, nodeVars, m_pIterator, m_pList, itPrev, itNext, walkVars>>

NewIteratorOf(i, l) ==
  /\ i \notin existing
  /\ existing' = existing \cup {i}
  /\ Join(i, l, itPrev, itNext)

SetList(i, l) ==
  /\ i \in existing
  /\ MayLeave(i)
  /\ Join(i, l, WithoutPrev(i), WithoutNext(i))
  /\ UNCHANGED existing

DeleteIterator(i) ==
  /\ i \in existing
  /\ MayLeave(i)
  /\ existing' = existing \ {i}
  /\ m_pList' = [m_pList EXCEPT ![i] = NULL]
  /\ itPrev' = WithoutPrev(i)
  /\ itNext' = WithoutNext(i)
  /\ NotWalking(i)
  /\ UNCHANGED <<endVars, nodeVars, m_pIterator>>

\* The iterator comes to n, in a walk that begins here or goes on.
Come(i, n, begins) ==
  /\ m_pEnuming' = [m_pEnuming EXCEPT ![i] = n]
  /\ walk' = [walk EXCEPT ![i] = IF n = NULL THEN "ended" ELSE "walking"]
  /\ done' = [done EXCEPT ![i] = ((IF begins THEN {} ELSE @) \cup {n}) \ {NULL}]
  /\ todo' = [todo EXCEPT ![i] = (IF begins THEN NodesOf(m_pList[i]) ELSE @) \ {n}]
  /\ UNCHANGED <<endVars, nodeVars, chainVars>>

First(i) ==
  /\ m_pList[i] # NULL
  /\ Come(i, m_pFirstNode[m_pList[i]], TRUE)

\* From no node to the first one.
NextNode(i) ==
  /\ m_pList[i] # NULL
  /\ walk[i] # "none" \/ m_pEnuming[i] = NULL
  /\ Come(i, IF m_pEnuming[i] = NULL THEN m_pFirstNode[m_pList[i]] ELSE m_pNext[m_pEnuming[i]],
          walk[i] # "walking")

-------------------------------------------------------------------------------
Init ==
  /\ m_pFirstNode = [l \in Lists |-> NULL]
  /\ m_pLastNode = [l \in Lists |-> NULL]
  /\ m_pIterator = [l \in Lists |-> NULL]
  /\ m_iCount = [l \in Lists |-> 0]
  /\ m_pPrev = [n \in Nodes |-> NULL]
  /\ m_pNext = [n \in Nodes |-> NULL]
  /\ m_pSelf = [n \in Nodes |-> NULL]
  /\ allocated = {}
  /\ m_pList = [i \in Iterators |-> NULL]
  /\ m_pEnuming = [i \in Iterators |-> NULL]
  /\ itPrev = [i \in Iterators |-> NULL]
  /\ itNext = [i \in Iterators |-> NULL]
  /\ existing = {}
  /\ walk = [i \in Iterators |-> "none"]
  /\ done = [i \in Iterators |-> {}]
  /\ todo = [i \in Iterators |-> {}]

ListCall(l) == \/ \E n \in Nodes, node \in NodesOf(l) \cup {NULL} :
                    LinkBefore(l, n, node) \/ LinkAfter(l, n, node)
               \/ \E n \in Nodes, free \in BOOLEAN : Remove(l, n, free)
               \/ Clear(l)

IteratorCall(i) == \/ NewIterator(i) \/ DeleteIterator(i) \/ First(i) \/ NextNode(i)
                   \/ \E l \in Lists : NewIteratorOf(i, l) \/ SetList(i, l)
                   \/ \E n \in Nodes, free \in BOOLEAN : IteratorRemove(i, n, free)

Next == \/ \E n \in Nodes : AllocNode(n) \/ FreeNode(n)
        \/ \E l \in Lists : ListCall(l)
        \/ \E i \in Iterators : IteratorCall(i)

Spec == Init /\ [][Next]_vars

-------------------------------------------------------------------------------
(* Properties. *)

TypeOK ==
  /\ m_pFirstNode \in [Lists -> Nodes \cup {NULL}]
  /\ m_pLastNode \in [Lists -> Nodes \cup {NULL}]
  /\ m_pIterator \in [Lists -> Iterators \cup {NULL}]
  /\ m_iCount \in [Lists -> Nat]
  /\ m_pPrev \in [Nodes -> Nodes \cup {NULL}]
  /\ m_pNext \in [Nodes -> Nodes \cup {NULL}]
  /\ m_pSelf \in [Nodes -> Lists \cup {NULL}]
  /\ allocated \subseteq Nodes
  /\ m_pList \in [Iterators -> Lists \cup {NULL}]
  /\ m_pEnuming \in [Iterators -> Nodes \cup {NULL}]
  /\ itPrev \in [Iterators -> Iterators \cup {NULL}]
  /\ itNext \in [Iterators -> Iterators \cup {NULL}]
  /\ existing \subseteq Iterators
  /\ walk \in [Iterators -> {"none", "walking", "ended"}]
  /\ done \in [Iterators -> SUBSET Nodes]
  /\ todo \in [Iterators -> SUBSET Nodes]

\* Walked from either end a list has the nodes that say they are on it, all of them
\* allocated and m_iCount in number, and neighbours agree.
WellLinked ==
  \A l \in Lists :
    /\ Along(m_pNext, m_pFirstNode[l], Nodes) = NodesOf(l)
    /\ Along(m_pPrev, m_pLastNode[l], Nodes) = NodesOf(l)
    /\ NodesOf(l) \subseteq allocated
    /\ m_iCount[l] = Cardinality(NodesOf(l))
    /\ \A n \in NodesOf(l) : /\ m_pNext[n] # NULL => m_pPrev[m_pNext[n]] = n
                            /\ m_pPrev[n] # NULL => m_pNext[m_pPrev[n]] = n

\* The chain from m_pIterator has every iterator of the list, and none that is gone:
\* Remove looks there for the iterators to move.
IteratorsRegistered ==
  \A l \in Lists : Along(itPrev, m_pIterator[l], Iterators) = {i \in existing : m_pList[i] = l}

\* An iterator in a walk stands on a node of its list, never on one removed or freed.
OnList == \A i \in Iterators :
            walk[i] # "none" /\ m_pEnuming[i] # NULL => m_pSelf[m_pEnuming[i]] = m_pList[i]

\* A walk that has come to its end has visited every node that was on the list from
\* its beginning to its end, whatever was removed meanwhile, by whatever iterator.
VisitsAll == \A i \in Iterators : walk[i] = "ended" => todo[i] = {}

\* ... and a walk visits none of them twice.
VisitsOnce ==
  [][\A i \in Iterators : walk[i] = "walking" /\ NextNode(i) => m_pEnuming'[i] \notin done[i]]_vars
===============================================================================
