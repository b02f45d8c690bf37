-------------------------------- MODULE LuaTable --------------------------------
(***************************************************************************)
(* Lua's tables (ltable.c): an array part for the keys 1 to its size and a *)
(* hash part, a scatter table with Brent's variation, whose nodes chain    *)
(* the keys that collide; when no node is free both are sized again. A     *)
(* program writes, clears and traverses, and the collector marks the keys  *)
(* of cleared entries dead.                                                *)
(* A key is a number: those that are not positive stand for strings and    *)
(* all else that cannot be in the array. A key is stored with itself as    *)
(* its value.                                                              *)
(***************************************************************************)
EXTENDS Integers, Sequences, SequencesExt, FiniteSets, FiniteSetsExt, LuaCommon

CONSTANTS Hashes,      (* the hash functions there may be, on a set of keys   *)
          Sizes,       (* <<narray, nhash>>: what tables are created with     *)
          NULL, MaxPresent

VARIABLES hash, t,     (* the hash function and the table                     *)
          present,     (* what the program stored and did not clear           *)
          visit        (* a traversal: [at, seen, due], or NULL               *)

vars == <<hash, t, present, visit>>

Keys == DOMAIN hash
Hash(k) == IF k \in Keys THEN hash[k] ELSE k
NilNode == [key |-> NULL, val |-> NULL, next |-> 0, dead |-> FALSE]
\* ceillog2 and twoto: the least power of two that is not less than n.
TwoTo(n) == CHOOSE p \in {2^i : i \in 0..8} : n <= p /\ (p = 1 \/ p < 2 * n)

\* The table: array, node (nodes count from 1, next = 0 is none), lastfree, and dummy:
\* whether node is the one shared dummy node.
Node(h, n) == h.node[n]
SetNodeVector(h, size) ==
  [h EXCEPT !.node = [i \in 1..TwoTo(size) |-> NilNode], !.dummy = (size = 0),
            !.lastfree = IF size = 0 THEN 1 ELSE TwoTo(size) + 1]
New(narray, nhash) ==
  SetNodeVector([array |-> [i \in 1..narray |-> NULL], node |-> <<>>, dummy |-> TRUE, lastfree |-> 1], nhash)

\* mainposition: a number is taken modulo an odd number, a string modulo the size.
MainPosition(h, k) ==
  1 + (IF k > 0 THEN Hash(k) % (IF Len(h.node) = 1 THEN 1 ELSE Len(h.node) - 1) ELSE Hash(k) % Len(h.node))

\* luaH_get, luaH_getnum and luaH_getstr: the node of a key on the chain of its main
\* position, and the value. A dead key equals no key.
RECURSIVE OnChain(_, _, _)
OnChain(h, n, k) == IF n = 0 \/ (Node(h, n).key = k /\ ~Node(h, n).dead) THEN n ELSE OnChain(h, Node(h, n).next, k)
InArray(h, k) == k \in 1..Len(h.array)
Get(h, k) == IF InArray(h, k) THEN h.array[k]
             ELSE LET n == OnChain(h, MainPosition(h, k), k) IN IF n = 0 THEN NULL ELSE Node(h, n).val

(* ---- rehash -------------------------------------------------------------- *)
Stored(h) == {k \in 1..Len(h.array) : h.array[k] # NULL} \cup {Node(h, n).key : n \in {m \in 1..Len(h.node) : Node(h, m).val # NULL}}
\* computesizes: the largest power of two such that more than half of the keys up to it
\* are used; the loop ends when there cannot be a larger one.
UpTo(keys, p) == Cardinality({k \in keys : k \in 1..p})
ComputeSizes(keys) ==
  LET ints == {k \in keys : k > 0}
  IN Max({0} \cup {p \in {2^i : i \in 0..8} : p \div 2 < Cardinality(ints) /\ UpTo(ints, p) > p \div 2})

\* getfreepos: the last node before lastfree whose key is nil; 0 when there is none.
Mut_FreePos(h) == Max({0} \cup {n \in 1..(h.lastfree - 1) : Node(h, n).val = NULL})
FreePos(h) == Max({0} \cup {n \in 1..(h.lastfree - 1) : Node(h, n).key = NULL})
AfterFree(h) == [h EXCEPT !.lastfree = IF h.dummy THEN @ ELSE FreePos(h)]

Previous(h, n) == CHOOSE m \in 1..Len(h.node) : Node(h, m).next = n
Place(h, n, k) == [h EXCEPT !.node[n] = [key |-> k, val |-> k, next |-> @.next, dead |-> FALSE]]

\* luaH_set with newkey, rehash and resize: a key that collides with one in its own main
\* position goes to a free node; one that is not makes room.
RECURSIVE Store(_, _), StoreAll(_, _)
StoreAll(h, keys) == IF keys = <<>> THEN h ELSE Then(Store(h, Head(keys)), LAMBDA s : StoreAll(s, Tail(keys)))
Resize(h, nasize, nhsize) ==
  LET array == [i \in 1..nasize |-> IF InArray(h, i) THEN h.array[i] ELSE NULL]
      vanishing == SelectSeq(SubSeq(h.array, nasize + 1, Len(h.array)), LAMBDA v : v # NULL)
      nodes == SelectSeq(Reverse(h.node), LAMBDA n : n.val # NULL)
  IN StoreAll(SetNodeVector([h EXCEPT !.array = array], nhsize), vanishing \o [i \in DOMAIN nodes |-> nodes[i].key])
Rehash(h, k) ==
  LET keys == Stored(h) \cup {k}
      nasize == ComputeSizes(keys)
  IN Resize(h, nasize, Cardinality(keys) - UpTo(keys, nasize))
NewKey(h, k) ==
  LET mp == MainPosition(h, k)
      n == FreePos(h)
      othern == MainPosition(h, Node(h, mp).key)
      moved == [AfterFree(h) EXCEPT !.node[Previous(h, mp)].next = n]
  IN CASE Node(h, mp).val = NULL /\ ~h.dummy -> Place(h, mp, k)
       [] h.dummy \/ n = 0 -> Then(Rehash(AfterFree(h), k), LAMBDA s : Store(s, k))
       [] othern # mp -> Place([moved EXCEPT !.node[n] = h.node[mp], !.node[mp] = NilNode], mp, k)
       [] OTHER -> [AfterFree(h) EXCEPT !.node[n] = [key |-> k, val |-> k, next |-> Node(h, mp).next, dead |-> FALSE],
                                        !.node[mp].next = n]
Store(h, k) ==
  IF InArray(h, k) THEN [h EXCEPT !.array[k] = k]
  ELSE LET n == OnChain(h, MainPosition(h, k), k) IN IF n = 0 THEN NewKey(h, k) ELSE [h EXCEPT !.node[n].val = k]
Clear(h, k) == IF InArray(h, k) THEN [h EXCEPT !.array[k] = NULL]
               ELSE [h EXCEPT !.node[OnChain(h, MainPosition(h, k), k)].val = NULL]

(* ---- the length operator --------------------------------------------------- *)
\* luaH_getn and unbound_search: a border between a stored i (or 0) and a j that is not.
RECURSIVE Border(_, _, _), Unbound(_, _)
Border(h, i, j) ==
  IF j - i <= 1 THEN i ELSE LET m == (i + j) \div 2 IN IF Get(h, m) = NULL THEN Border(h, i, m) ELSE Border(h, m, j)
Unbound(h, j) == IF Get(h, 2 * j) = NULL THEN Border(h, j, 2 * j) ELSE Unbound(h, 2 * j)
GetN(h) ==
  LET j == Len(h.array)
      unbound == IF Get(h, j + 1) = NULL THEN j ELSE Unbound(h, j + 1)
  IN IF j > 0 /\ h.array[j] = NULL THEN Border(h, 0, j) ELSE IF h.dummy THEN j ELSE unbound

(* ---- traversal ------------------------------------------------------------- *)
\* findindex: where a key is, dead or not; 0 for an invalid key. luaH_next goes on from
\* there, first in the array, then in the nodes.
RECURSIVE Find(_, _, _)
Find(h, n, k) == IF n = 0 \/ Node(h, n).key = k THEN n ELSE Find(h, Node(h, n).next, k)
Slots(h) == h.array \o [n \in DOMAIN h.node |-> Node(h, n).val]
Mut_FindIndex(h, k) == IF InArray(h, k) THEN k ELSE Len(h.array) + OnChain(h, MainPosition(h, k), k)
FindIndex(h, k) == IF InArray(h, k) THEN k
                   ELSE LET n == Find(h, MainPosition(h, k), k) IN IF n = 0 THEN 0 ELSE Len(h.array) + n
From(h, i) == SelectInSubSeq(Slots(h), i + 1, Len(Slots(h)), LAMBDA v : v # NULL)

(* ---- the program ----------------------------------------------------------- *)
Init == /\ hash \in Hashes
        /\ t \in {New(s[1], s[2]) : s \in Sizes}
        /\ present = {} /\ visit = NULL

Put == \E k \in Keys \ present :
  /\ visit = NULL /\ Cardinality(present) < MaxPresent
  /\ t' = Store(t, k) /\ present' = present \cup {k}
  /\ UNCHANGED <<hash, visit>>
\* A field may be cleared while the table is traversed.
Erase == \E k \in present :
  /\ t' = Clear(t, k) /\ present' = present \ {k}
  /\ visit' = IF visit = NULL THEN NULL ELSE [visit EXCEPT !.due = @ \ {k}]
  /\ UNCHANGED hash
\* removeentry, when the collector traverses the table: the key of an empty node that is
\* an object is dead, and what it was may be freed.
MarkDead == \E n \in DOMAIN t.node :
  /\ Node(t, n).key # NULL /\ Node(t, n).val = NULL /\ Node(t, n).key <= 0
  /\ t' = [t EXCEPT !.node[n].dead = TRUE]
  /\ UNCHANGED <<hash, present, visit>>

Begin == visit = NULL /\ visit' = [at |-> 0, seen |-> <<>>, due |-> present, valid |-> TRUE, done |-> FALSE]
         /\ UNCHANGED <<hash, t, present>>
\* lua_next, given the key it returned last.
LuaNext ==
  /\ visit # NULL /\ ~visit.done
  /\ LET i == IF visit.seen = <<>> THEN 0 ELSE FindIndex(t, Last(visit.seen))
         j == From(t, i)
     IN visit' = [visit EXCEPT !.valid = @ /\ (visit.seen = <<>> \/ i > 0),
                               !.seen = IF j = 0 THEN @ ELSE Append(@, Slots(t)[j]), !.done = (j = 0)]
  /\ UNCHANGED <<hash, t, present>>
End == visit # NULL /\ visit.done /\ visit' = NULL /\ UNCHANGED <<hash, t, present>>

Next == Put \/ Erase \/ MarkDead \/ Begin \/ LuaNext \/ End

Spec == Init /\ [][Next]_vars

(* ---- properties ------------------------------------------------------------ *)
\* A table holds what was stored and not cleared, whatever collided, moved, died or was
\* sized again; its length is a border: the last stored of a run from 1, or 0.
TableHolds == /\ \A k \in Keys : Get(t, k) = IF k \in present THEN k ELSE NULL
              /\ Stored(t) = present
Bordered == LET n == GetN(t) IN (n = 0 \/ n \in present) /\ n + 1 \notin present
\* A traversal meets every key that stays exactly once, also when fields are cleared and
\* their keys collected on the way, and never with a key next does not know.
Traverses == visit # NULL => /\ visit.valid /\ IsInjective(visit.seen)
                             /\ visit.done => visit.due \subseteq Range(visit.seen)
TablesExact == TableHolds /\ Bordered /\ Traverses
================================================================================
