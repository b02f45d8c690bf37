------------------------------ MODULE ObjectPools ------------------------------
(***************************************************************************)
(* ElsaCMemPool, ElsaCObjPool and ElsaCObjList: pools of objects of one    *)
(* size. The blocks malloc returns are runs of numbers here: the n-th      *)
(* object ever allocated is n. The free list is an ElsaCVector, of which   *)
(* its contents and capacity are kept. One thread uses a pool.             *)
(***************************************************************************)
EXTENDS Integers, Sequences, SequencesExt, FiniteSets, FiniteSetTheorems, SequenceTheorems, TLAPS

CONSTANTS Kinds,           (* the pools looked at                            *)
          ONE_TIME_COUNT,  (* objects in the first block                     *)
          MaxObjects       (* bound on the objects of a pool                 *)

VARIABLES kind,   (* "mempool", "objpool" or "objlist"                      *)
          all,    (* m_iAllSize, m_iAllObjCount: objects allocated          *)
          free,   (* m_vecFreeList, m_vecFree                               *)
          room,   (* its m_iMaxSize                                         *)
          using,  (* the objects whose m_bUsingFlag is set (mempool, objpool) *)
          alive,  (* the objects constructed and not yet destroyed          *)
          held    (* the objects clients have                               *)

vars == <<kind, all, free, room, using, alive, held>>

Init == /\ kind \in Kinds
        /\ all = 0 /\ free = <<>> /\ room = 0
        /\ using = {} /\ alive = {} /\ held = {}

\* One of the free objects, or of a new block of batch of them.
Mut_Refilled(batch) == IF free # <<>> THEN free ELSE [i \in 1..batch |-> i]
Refilled(batch) == IF free # <<>> THEN free ELSE [i \in 1..batch |-> all + i]

Take(batch) == /\ all' = IF free = <<>> THEN all + batch ELSE all
               /\ all' <= MaxObjects
               /\ free' = Front(Refilled(batch))
               /\ held' = held \cup {Last(Refilled(batch))}
               /\ UNCHANGED kind

\* Of a memory pool, whose blocks double it, or an object pool, which constructs
\* the object then.
Alloc == /\ kind # "objlist"
         /\ Take(IF all > 0 THEN 2 * all ELSE ONE_TIME_COUNT)
         /\ room' = IF free = <<>> /\ room < all' THEN all' ELSE room
         /\ using' = using \cup held'
         /\ alive' = IF kind = "objpool" THEN alive \cup held' ELSE alive

\* Of an object list, which constructs all the objects of a block.
Get == /\ kind = "objlist"
       /\ Take(ONE_TIME_COUNT)
       /\ room' = IF free = <<>> THEN all' ELSE room
       /\ alive' = IF free = <<>> THEN alive \cup ToSet(Refilled(ONE_TIME_COUNT)) ELSE alive
       /\ UNCHANGED using

\* ElsaCVector::Add
Added(p) == /\ free' = Append(free, p)
            /\ room' = IF Len(free) < room THEN room ELSE 2 * room

Destructed(p) == alive' = IF kind = "objpool" THEN alive \ {p} ELSE alive

Mut_Free(p) == /\ kind # "objlist" /\ Destructed(p) /\ Added(p)
               /\ using' = using \ {p} /\ held' = held \ {p}
               /\ UNCHANGED <<kind, all>>
\* A client gives back an object, its own or one it gave back before: the pool finds
\* the flag cleared and does nothing, but an object pool has run the destructor by then.
Free(p) == /\ kind # "objlist" /\ Destructed(p)
           /\ IF p \in using THEN Added(p) /\ using' = using \ {p}
                             ELSE UNCHANGED <<free, room, using>>
           /\ held' = held \ {p}
           /\ UNCHANGED <<kind, all>>

\* An object list has no flag to see that.
Release(p) == /\ kind = "objlist" /\ p \in held
              /\ Added(p) /\ held' = held \ {p}
              /\ UNCHANGED <<kind, all, using, alive>>

Nothing == all' = 0 /\ free' = <<>> /\ room' = 0 /\ using' = {} /\ held' = {} /\ UNCHANGED kind

\* The destructors: a pool frees its blocks, an object list destroys its free objects.
Destroy == kind # "objlist" /\ alive' = {} /\ Nothing
DestroyList == kind = "objlist" /\ all = Len(free) /\ alive' = alive \ ToSet(free) /\ Nothing

Next == \/ Alloc \/ Get \/ Destroy \/ DestroyList
        \/ \E p \in held \cup ToSet(free) : Free(p) \/ Release(p)

Spec == Init /\ [][Next]_vars

\* Every object is either with a client or once on the free list, whose memory is
\* large enough; flags tell which, so the leak check of ~ElsaCMemPool, which
\* compares what is free with what was allocated, is right; an object a client of
\* an object pool or list has is constructed.
PoolExact ==
  /\ IsInjective(free) /\ Len(free) <= room
  /\ ToSet(free) = (1..all) \ held /\ held \subseteq 1..all
  /\ kind # "objlist" => using = held
  /\ kind # "mempool" => held \subseteq alive
  /\ kind = "objlist" => alive = 1..all
-------------------------------------------------------------------------------
(* PoolExact for any number of objects in a block, and any bound.             *)

Parameters == /\ Kinds \subseteq {"mempool", "objpool", "objlist"}
              /\ ONE_TIME_COUNT \in Nat \ {0} /\ MaxObjects \in Nat

\* The memory of the free list has room for all objects that were ever allocated.
Inv == /\ all \in Nat /\ room \in Nat /\ free \in Seq(Nat)
       /\ kind \in {"mempool", "objpool", "objlist"}
       /\ all <= room
       /\ PoolExact

LEMMA FrontParts ==
  ASSUME NEW s \in Seq(Nat), s # <<>>, IsInjective(s)
  PROVE  /\ Front(s) \in Seq(Nat) /\ IsInjective(Front(s))
         /\ Last(s) \in ToSet(s) /\ ToSet(Front(s)) = ToSet(s) \ {Last(s)}
<1>1. Len(s) \in Nat /\ Len(s) > 0 /\ DOMAIN s = 1..Len(s)
  BY LenProperties, EmptySeq
<1>2. PICK f : f = Front(s)
  OBVIOUS
<1>3. /\ f \in Seq(Nat) /\ Len(f) = Len(s) - 1 /\ DOMAIN f = 1 .. Len(s) - 1
      /\ \A i \in 1 .. Len(s) - 1 : f[i] = s[i]
  <2>1. f = SubSeq(s, 1, Len(s) - 1)
    BY <1>2 DEF Front
  <2>2. \A i \in 1 .. Len(s) - 1 : s[i] \in Nat
    BY <1>1, ElementOfSeq
  <2>3. /\ f \in Seq(Nat) /\ Len(f) = Len(s) - 1
        /\ \A i \in 1 .. Len(s) - 1 : f[i] = s[i]
    BY <1>1, <2>1, <2>2, SubSeqProperties
  <2> QED
    BY <2>3, LenProperties
<1>4. IsInjective(f)
  <2>1. SUFFICES ASSUME NEW a \in DOMAIN f, NEW b \in DOMAIN f, f[a] = f[b]
                 PROVE  a = b
    BY DEF IsInjective
  <2>2. a \in DOMAIN s /\ b \in DOMAIN s /\ s[a] = s[b]
    BY <1>1, <1>3, <2>1
  <2> QED
    BY <2>2 DEF IsInjective
<1>5. ToSet(f) = ToSet(s) \ {Last(s)} /\ Last(s) \in ToSet(s)
  BY <1>1, <1>3 DEF IsInjective, ToSet, Last
<1> QED
  BY <1>2, <1>3, <1>4, <1>5

LEMMA AppendParts ==
  ASSUME NEW s \in Seq(Nat), NEW p \in Nat, IsInjective(s), p \notin ToSet(s)
  PROVE  /\ Append(s, p) \in Seq(Nat) /\ IsInjective(Append(s, p))
         /\ ToSet(Append(s, p)) = ToSet(s) \cup {p}
<1>1. PICK a : a = Append(s, p)
  OBVIOUS
<1>2. /\ a \in Seq(Nat) /\ Len(a) = Len(s) + 1 /\ Len(s) \in Nat
      /\ DOMAIN a = 1 .. Len(s) + 1 /\ DOMAIN s = 1..Len(s)
      /\ \A i \in 1..Len(s) : a[i] = s[i] /\ a[Len(s) + 1] = p
  BY <1>1, LenProperties
<1>3. a[Len(s) + 1] = p
  BY <1>1
<1>4. \A i \in 1..Len(s) : s[i] # p
  BY <1>2 DEF ToSet
<1>5. IsInjective(a)
  BY <1>2, <1>3, <1>4 DEF IsInjective
<1>6. ToSet(a) = ToSet(s) \cup {p}
  BY <1>2, <1>3 DEF ToSet
<1> QED
  BY <1>1, <1>2, <1>5, <1>6

\* A list of different numbers up to n is no longer than n, and as long only if it has
\* them all.
LEMMA Pigeons ==
  ASSUME NEW n \in Nat, NEW s \in Seq(Nat), IsInjective(s), ToSet(s) \subseteq 1..n
  PROVE  Len(s) <= n /\ (Len(s) = n => ToSet(s) = 1..n)
<1>1. Len(s) \in Nat /\ s \in [1..Len(s) -> 1..n] /\ DOMAIN s = 1..Len(s)
  BY LenProperties DEF ToSet
<1>2. s \in Injection(1..Len(s), 1..n)
  BY <1>1 DEF Injection, IsInjective
<1>3. /\ IsFiniteSet(1..n) /\ Cardinality(1..n) = n
      /\ Cardinality(1..Len(s)) = Len(s)
  <2>1. ASSUME NEW k \in Nat
        PROVE  IsFiniteSet(1..k) /\ Cardinality(1..k) = k
    <3>1. 1 \in Int /\ k \in Int
      OBVIOUS
    <3>2. IsFiniteSet(1..k) /\ Cardinality(1..k) = IF 1 > k THEN 0 ELSE k - 1 + 1
      BY <3>1, FS_Interval
    <3> QED
      BY <3>2
  <2> QED
    BY <1>1, <2>1
<1>4. Cardinality(1..Len(s)) <= Cardinality(1..n)
  BY <1>2, <1>3, FS_Injection
<1>5. Cardinality(1..Len(s)) = Cardinality(1..n) => s \in Surjection(1..Len(s), 1..n)
  BY <1>2, <1>3, FS_Injection
<1>6. s \in Surjection(1..Len(s), 1..n) => ToSet(s) = 1..n
  BY <1>1 DEF Surjection, ToSet
<1> QED
  BY <1>3, <1>4, <1>5, <1>6

\* What an object is taken from: the free list, or a new block.
LEMMA RefilledParts ==
  ASSUME Inv, NEW batch \in Nat \ {0}
  PROVE  /\ Refilled(batch) \in Seq(Nat) /\ Refilled(batch) # <<>> /\ IsInjective(Refilled(batch))
         /\ ToSet(Refilled(batch)) = IF free # <<>> THEN ToSet(free) ELSE all + 1 .. all + batch
<1>1. CASE free # <<>>
  BY <1>1 DEF Refilled, Inv, PoolExact
<1>2. CASE free = <<>>
  <2>1. PICK s : s = [i \in 1..batch |-> all + i]
    OBVIOUS
  <2>2. s \in Seq(Nat) /\ s # <<>> /\ DOMAIN s = 1..batch /\ \A i \in 1..batch : s[i] = all + i
    BY <2>1 DEF Inv
  <2>3. IsInjective(s)
    BY <2>2 DEF IsInjective, Inv
  <2>4. ToSet(s) = all + 1 .. all + batch
    <3>1. \A x \in all + 1 .. all + batch : x - all \in 1..batch /\ x = all + (x - all)
      BY DEF Inv
    <3>2. all + 1 .. all + batch \subseteq ToSet(s)
      BY <2>2, <3>1 DEF ToSet
    <3>3. ToSet(s) \subseteq all + 1 .. all + batch
      BY <2>2 DEF ToSet, Inv
    <3> QED
      BY <3>2, <3>3
  <2> QED
    BY <1>2, <2>1, <2>2, <2>3, <2>4 DEF Refilled
<1> QED
  BY <1>1, <1>2

\* An object that is taken was with nobody.
LEMMA Taken ==
  ASSUME Inv, NEW batch \in Nat \ {0}, Take(batch)
  PROVE  /\ all' \in Nat /\ all' >= all /\ (free = <<>> => all' = all + batch) /\ (free # <<>> => all' = all)
         /\ free' \in Seq(Nat) /\ IsInjective(free')
         /\ ToSet(free') = (1..all') \ held' /\ held' \subseteq 1..all' /\ held \subseteq held'
         /\ held' \subseteq held \cup ToSet(Refilled(batch))
<1>1. PICK r : r = Refilled(batch)
  OBVIOUS
<1>2. /\ r \in Seq(Nat) /\ r # <<>> /\ IsInjective(r)
      /\ ToSet(r) = IF free # <<>> THEN ToSet(free) ELSE all + 1 .. all + batch
  BY <1>1, RefilledParts
<1>3. free' = Front(r) /\ held' = held \cup {Last(r)}
  BY <1>1 DEF Take
<1>4. /\ free' \in Seq(Nat) /\ IsInjective(free')
      /\ Last(r) \in ToSet(r) /\ ToSet(free') = ToSet(r) \ {Last(r)}
  BY <1>2, <1>3, FrontParts
<1>5. /\ all \in Nat /\ ToSet(free) = (1..all) \ held /\ held \subseteq 1..all
      /\ all' = IF free = <<>> THEN all + batch ELSE all
  BY DEF Inv, PoolExact, Take
<1>6. CASE free # <<>>
  <2>1. all' = all /\ all \in Nat /\ ToSet(r) = (1..all) \ held /\ held \subseteq 1..all
    BY <1>2, <1>5, <1>6
  <2>2. held' \subseteq 1..all /\ held \subseteq held' /\ held' \subseteq held \cup ToSet(r)
        /\ ToSet(free') = (1..all) \ held'
    BY <1>3, <1>4, <2>1
  <2> QED
    BY <1>1, <1>4, <1>6, <2>1, <2>2
<1>7. CASE free = <<>>
  <2>1. ToSet(free) = {}
    BY <1>7 DEF ToSet
  <2>2. held = 1..all
    BY <1>5, <2>1
  <2>3. ToSet(r) = (1 .. all + batch) \ held
    BY <1>2, <1>5, <1>7, <2>2
  <2> QED
    BY <1>1, <1>3, <1>4, <1>5, <1>7, <2>2, <2>3
<1> QED
  BY <1>6, <1>7

LEMMA AllocStep ==
  ASSUME Parameters, Inv, Alloc
  PROVE  Inv'
<1>1. PICK batch : batch = IF all > 0 THEN 2 * all ELSE ONE_TIME_COUNT
  OBVIOUS
<1>2. batch \in Nat \ {0} /\ Take(batch)
  BY <1>1 DEF Parameters, Inv, Alloc
<1>3. /\ all' \in Nat /\ all' >= all /\ (free # <<>> => all' = all)
      /\ free' \in Seq(Nat) /\ IsInjective(free')
      /\ ToSet(free') = (1..all') \ held' /\ held' \subseteq 1..all' /\ held \subseteq held'
  BY <1>2, Taken
<1>4. /\ room' = IF free = <<>> /\ room < all' THEN all' ELSE room
      /\ using' = using \cup held' /\ kind' = kind /\ kind # "objlist"
      /\ alive' = IF kind = "objpool" THEN alive \cup held' ELSE alive
      /\ all \in Nat /\ room \in Nat /\ all <= room /\ using = held
      /\ kind \in {"mempool", "objpool"}
  BY DEF Alloc, Take, Inv, PoolExact
<1>5. room' \in Nat /\ all' <= room'
  BY <1>3, <1>4
<1>6. Len(free') <= room'
  <2>1. Len(free') <= all' /\ Len(free') \in Nat
    BY <1>3, Pigeons, LenProperties
  <2> QED
    BY <1>3, <1>5, <2>1
<1> QED
  BY <1>3, <1>4, <1>5, <1>6 DEF Inv, PoolExact

LEMMA GetStep ==
  ASSUME Parameters, Inv, Get
  PROVE  Inv'
<1>1. PICK batch : batch = ONE_TIME_COUNT
  OBVIOUS
<1>2. batch \in Nat \ {0} /\ Take(batch)
  BY <1>1 DEF Parameters, Get
<1>3. /\ all' \in Nat /\ all' >= all /\ (free = <<>> => all' = all + batch) /\ (free # <<>> => all' = all)
      /\ free' \in Seq(Nat) /\ IsInjective(free')
      /\ ToSet(free') = (1..all') \ held' /\ held' \subseteq 1..all' /\ held \subseteq held'
  BY <1>2, Taken
<1>4. /\ room' = IF free = <<>> THEN all' ELSE room
      /\ kind' = kind /\ kind = "objlist"
      /\ alive' = IF free = <<>> THEN alive \cup ToSet(Refilled(batch)) ELSE alive
      /\ all \in Nat /\ room \in Nat /\ all <= room /\ alive = 1..all
  BY <1>1 DEF Get, Take, Inv, PoolExact
<1>5. room' \in Nat /\ all' <= room'
  BY <1>3, <1>4
<1>6. Len(free') <= room'
  <2>1. Len(free') <= all' /\ Len(free') \in Nat
    BY <1>3, Pigeons, LenProperties
  <2> QED
    BY <1>3, <1>5, <2>1
<1>7. alive' = 1..all'
  <2>1. free = <<>> => ToSet(Refilled(batch)) = all + 1 .. all + batch
    BY <1>2, RefilledParts
  <2>2. CASE free = <<>>
    <3>1. alive' = (1..all) \cup (all + 1 .. all + batch) /\ all' = all + batch
      BY <1>3, <1>4, <2>1, <2>2
    <3>2. (1..all) \cup (all + 1 .. all + batch) = 1 .. all + batch
      BY <1>2, <1>4
    <3> QED
      BY <3>1, <3>2
  <2>3. CASE free # <<>>
    BY <1>3, <1>4, <2>3
  <2> QED
    BY <2>2, <2>3
<1> QED
  BY <1>3, <1>4, <1>5, <1>6, <1>7 DEF Inv, PoolExact

\* An object that is given back was not on the free list.
LEMMA GivenBack ==
  ASSUME Inv, NEW p \in held, Added(p), held' = held \ {p}, UNCHANGED all
  PROVE  /\ free' \in Seq(Nat) /\ IsInjective(free') /\ room' \in Nat /\ all' <= room'
         /\ Len(free') <= room'
         /\ ToSet(free') = (1..all') \ held' /\ held' \subseteq 1..all'
<1>1. /\ all \in Nat /\ room \in Nat /\ all <= room /\ free \in Seq(Nat) /\ IsInjective(free)
      /\ ToSet(free) = (1..all) \ held /\ held \subseteq 1..all /\ p \in 1..all /\ p \in Nat
      /\ Len(free) \in Nat /\ Len(free) <= room
  BY LenProperties DEF Inv, PoolExact
<1>2. free' = Append(free, p) /\ room' = IF Len(free) < room THEN room ELSE 2 * room
  BY DEF Added
<1>3. free' \in Seq(Nat) /\ IsInjective(free') /\ ToSet(free') = ToSet(free) \cup {p}
  BY <1>1, <1>2, AppendParts
<1>4. room' \in Nat /\ all <= room'
  BY <1>1, <1>2
<1>5. ToSet(free') = (1..all) \ held'
  BY <1>1, <1>3
<1>6. Len(free') <= all /\ Len(free') \in Nat
  BY <1>1, <1>3, <1>5, Pigeons, LenProperties
<1> QED
  BY <1>1, <1>3, <1>4, <1>5, <1>6

LEMMA FreeStep ==
  ASSUME Inv, NEW p \in held \cup ToSet(free), Free(p)
  PROVE  Inv'
<1>1. /\ kind \in {"mempool", "objpool"} /\ kind' = kind /\ all' = all /\ held' = held \ {p}
      /\ using = held /\ alive' = (IF kind = "objpool" THEN alive \ {p} ELSE alive)
      /\ kind = "objpool" => held \subseteq alive
  BY DEF Inv, PoolExact, Free, Destructed
<1>2. CASE p \in using
  <2>1. Added(p) /\ using' = using \ {p} /\ p \in held
    BY <1>1, <1>2 DEF Free
  <2>2. /\ free' \in Seq(Nat) /\ IsInjective(free') /\ room' \in Nat /\ all' <= room'
        /\ Len(free') <= room'
        /\ ToSet(free') = (1..all') \ held' /\ held' \subseteq 1..all'
    BY <1>1, <2>1, GivenBack
  <2> QED
    BY <1>1, <2>1, <2>2 DEF Inv, PoolExact
<1>3. CASE p \notin using
  BY <1>1, <1>3 DEF Free, Inv, PoolExact
<1> QED
  BY <1>2, <1>3

LEMMA ReleaseStep ==
  ASSUME Inv, NEW p, Release(p)
  PROVE  Inv'
<1>1. /\ kind = "objlist" /\ kind' = kind /\ all' = all /\ held' = held \ {p} /\ p \in held
      /\ Added(p) /\ alive' = alive
  BY DEF Release
<1>2. /\ free' \in Seq(Nat) /\ IsInjective(free') /\ room' \in Nat /\ all' <= room'
      /\ Len(free') <= room'
      /\ ToSet(free') = (1..all') \ held' /\ held' \subseteq 1..all'
  BY <1>1, GivenBack
<1> QED
  BY <1>1, <1>2 DEF Inv, PoolExact

\* The destructors leave an empty pool: an object list that is destroyed has all its
\* objects on the free list.
LEMMA DestroySteps ==
  ASSUME Inv, Destroy \/ DestroyList
  PROVE  Inv'
<1>1. /\ all' = 0 /\ free' = <<>> /\ room' = 0 /\ using' = {} /\ held' = {} /\ kind' = kind
  BY DEF Destroy, DestroyList, Nothing
<1>2. IsInjective(<<>>) /\ ToSet(<<>>) = {} /\ <<>> \in Seq(Nat) /\ Len(<<>>) = 0
  BY DEF IsInjective, ToSet
<1>3. kind = "objlist" => alive' = {}
  <2>1. SUFFICES ASSUME kind = "objlist"
                 PROVE  alive' = {}
    OBVIOUS
  <2>2. all = Len(free) /\ alive' = alive \ ToSet(free) /\ alive = 1..all
    BY <2>1 DEF Destroy, DestroyList, Inv, PoolExact
  <2>3. ToSet(free) = 1..all
    BY <2>2, Pigeons DEF Inv, PoolExact
  <2> QED
    BY <2>2, <2>3
<1>4. 1..0 = {}
  OBVIOUS
<1> QED
  BY <1>1, <1>2, <1>3, <1>4 DEF Inv, PoolExact

LEMMA InitInv ==
  ASSUME Parameters, Init
  PROVE  Inv
<1>1. IsInjective(<<>>) /\ ToSet(<<>>) = {} /\ <<>> \in Seq(Nat) /\ Len(<<>>) = 0 /\ 1..0 = {}
  BY DEF IsInjective, ToSet
<1> QED
  BY <1>1 DEF Init, Parameters, Inv, PoolExact

\* Whatever is taken and given back, twice even, no two clients of a pool have the same
\* object and none is lost.
THEOREM PoolsExact ==
  ASSUME Parameters
  PROVE  Spec => []PoolExact
<1>1. Init => Inv
  BY InitInv
<1>2. ASSUME Inv, [Next]_vars
      PROVE  Inv'
  <2>1. CASE UNCHANGED vars
    BY <1>2, <2>1 DEF vars, Inv, PoolExact
  <2> QED
    BY <1>2, <2>1, AllocStep, GetStep, FreeStep, ReleaseStep, DestroySteps DEF Next
<1>3. Inv /\ [Next]_vars => Inv'
  BY <1>2
<1>4. Inv => PoolExact
  BY DEF Inv
<1> QED
  BY <1>1, <1>3, <1>4, PTL DEF Spec
===============================================================================
