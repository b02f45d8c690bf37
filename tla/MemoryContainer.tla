---------------------------- MODULE MemoryContainer ----------------------------
(***************************************************************************)
(* ElsaCMemoryContainer: memory that is handed out and never given back,   *)
(* cut from the front of blocks, and the registry ElsaCMemoryCounter in    *)
(* which every container is entered while it lives. Sizes are in elements. *)
(***************************************************************************)
EXTENDS Integers, Sequences, FiniteSets, SequencesExt,
        FiniteSetTheorems, SequenceTheorems, WellFoundedInduction, TLAPS

CONSTANTS Containers,      (* the containers of the program                  *)
          ONE_TIME_COUNT,  (* the size of a block, unless more is asked for  *)
          MaxCount, MaxBlocks, MaxRegions   (* bounds                        *)

VARIABLES blocks,    (* of a container: its blocks, oldest first, with their
                        size and what is used of it: m_pFreePtr, m_pEndPtr   *)
          regions,   (* what it handed out: block, start and length          *)
          used,      (* its m_usedCount                                      *)
          total,     (* its m_allocTotal                                     *)
          registry   (* m_allocatorList                                      *)

vars == <<blocks, regions, used, total, registry>>

Init == /\ blocks = [c \in Containers |-> <<>>]
        /\ regions = [c \in Containers |-> {}]
        /\ used = [c \in Containers |-> 0] /\ total = [c \in Containers |-> 0]
        /\ registry = <<>>

Registered(c) == Append(registry, c)

\* The constructor and Regist.
Create(c) == /\ ~Contains(registry, c)
             /\ registry' = Registered(c)
             /\ used' = [used EXCEPT ![c] = 0] /\ total' = [total EXCEPT ![c] = 0]
             /\ UNCHANGED <<blocks, regions>>

Fits(b, n) == b.size - b.used >= n

\* The newest block that has room, or a new one.
BlockFor(c, n) ==
  LET bs == blocks[c]
      fitting == {i \in 1..Len(bs) : Fits(bs[i], n)}
  IN IF fitting # {} THEN CHOOSE i \in fitting : \A j \in fitting : j <= i ELSE Len(bs) + 1

AllocBuffer(c, n) ==
  LET i == BlockFor(c, n)
      new == [size |-> IF n > ONE_TIME_COUNT THEN n ELSE ONE_TIME_COUNT, used |-> 0]
      bs == IF i <= Len(blocks[c]) THEN blocks[c] ELSE Append(blocks[c], new)
  IN /\ Contains(registry, c) /\ i <= MaxBlocks /\ Cardinality(regions[c]) < MaxRegions
     /\ blocks' = [blocks EXCEPT ![c] = [bs EXCEPT ![i].used = @ + n]]
     /\ regions' = [regions EXCEPT ![c] = @ \cup {[block |-> i, from |-> bs[i].used, size |-> n]}]
     /\ used' = [used EXCEPT ![c] = @ + n]
     /\ total' = [total EXCEPT ![c] = @ + IF i > Len(blocks[c]) THEN new.size ELSE 0]
     /\ UNCHANGED registry

\* _FreeBuffer frees every block and leaves the counters.
FreeBuffer(c) == /\ Contains(registry, c)
                 /\ blocks' = [blocks EXCEPT ![c] = <<>>]
                 /\ regions' = [regions EXCEPT ![c] = {}]
                 /\ used[c] <= MaxCount   \* a bound: used only grows
                 /\ UNCHANGED <<used, total, registry>>

\* Unregist looks from the end for the last entry of c and removes it, if any.
Unregistered(r, c) == IF Contains(r, c) THEN RemoveAt(r, SelectLastInSeq(r, LAMBDA x : x = c)) ELSE r

\* The destructor takes the container out of the registry, and that of its base
\* class does so again.
Destroy(c) == /\ Contains(registry, c)
              /\ blocks' = [blocks EXCEPT ![c] = <<>>]
              /\ regions' = [regions EXCEPT ![c] = {}]
              /\ used' = [used EXCEPT ![c] = 0] /\ total' = [total EXCEPT ![c] = 0]
              /\ registry' = Unregistered(Unregistered(registry, c), c)

Next == \E c \in Containers : \/ Create(c) \/ FreeBuffer(c) \/ Destroy(c)
                              \/ \E n \in 1..MaxCount : AllocBuffer(c, n)

Spec == Init /\ [][Next]_vars

\* No two pieces of memory handed out overlap, each is inside its block, no more is
\* reported as used than as allocated, and a container is registered once.
RegionsApart ==
  \A c \in Containers :
    /\ \A r \in regions[c] : /\ r.from + r.size <= blocks[c][r.block].size
                             /\ \A s \in regions[c] \ {r} :
                                  r.block = s.block => r.from + r.size <= s.from \/ s.from + s.size <= r.from
    /\ used[c] <= total[c]
    /\ blocks[c] # <<>> => Cardinality({i \in DOMAIN registry : registry[i] = c}) = 1
-------------------------------------------------------------------------------
(* RegionsApart for any containers, sizes of a block, and bounds.             *)

Parameters == ONE_TIME_COUNT \in Nat /\ MaxCount \in Nat /\ MaxBlocks \in Nat /\ MaxRegions \in Nat

Block == [size : Nat, used : Nat]
Region == [block : Nat, from : Nat, size : Nat \ {0}]

\* What was handed out of a block lies before the part of it that is free.
Cut(bs, rs) ==
  /\ \A i \in 1..Len(bs) : bs[i].used <= bs[i].size
  /\ \A r \in rs : r.block \in 1..Len(bs) /\ r.from + r.size <= bs[r.block].used
  /\ \A r \in rs : \A s \in rs \ {r} :
       r.block = s.block => r.from + r.size <= s.from \/ s.from + s.size <= r.from

\* What is free in the blocks is allocated and not reported as used: free[i] is at least
\* what is free in the first i of them.
Sums(bs, free) == \A i \in 1..Len(bs) : free[i - 1] + bs[i].size - bs[i].used <= free[i]
Rising(free, n) == \A i, j \in 0..n : i <= j => free[i] <= free[j]
Counted(bs, u, tot) ==
  \E free \in [0..Len(bs) -> Nat] : Sums(bs, free) /\ Rising(free, Len(bs)) /\ free[Len(bs)] <= tot - u

Inv == /\ blocks \in [Containers -> Seq(Block)] /\ regions \in [Containers -> SUBSET Region]
       /\ used \in [Containers -> Nat] /\ total \in [Containers -> Nat]
       /\ registry \in Seq(Containers) /\ IsInjective(registry)
       /\ \A c \in Containers : /\ Cut(blocks[c], regions[c]) /\ Counted(blocks[c], used[c], total[c])
                                /\ blocks[c] # <<>> => Contains(registry, c)

\* bs becomes cs when n elements are taken of its block i, which may be a new one.
Takes(bs, cs, i, n) ==
  /\ cs \in Seq(Block) /\ i \in 1..Len(cs) /\ Len(bs) <= Len(cs)
  /\ \A j \in 1..Len(bs) : cs[j].size = bs[j].size /\ (j # i => cs[j].used = bs[j].used)
  /\ cs[i].used <= cs[i].size /\ cs[i].used >= n

LEMMA BlockAt ==
  ASSUME NEW s \in Seq(Block), NEW j \in 1..Len(s)
  PROVE  s[j] \in Block /\ s[j].used \in Nat /\ s[j].size \in Nat
<1>1. s[j] \in Block
  BY ElementOfSeq
<1> QED
  BY <1>1 DEF Block

\* ... which is the piece it hands out.
LEMMA CutTaken ==
  ASSUME NEW bs \in Seq(Block), NEW cs, NEW i, NEW n \in Nat \ {0}, NEW rs \in SUBSET Region, NEW r,
         Cut(bs, rs), Takes(bs, cs, i, n), Len(cs) = Len(bs) \/ (i = Len(cs) /\ Len(cs) = Len(bs) + 1),
         r = [block |-> i, from |-> cs[i].used - n, size |-> n],
         i <= Len(bs) => bs[i].used = cs[i].used - n
  PROVE  rs \cup {r} \in SUBSET Region /\ Cut(cs, rs \cup {r})
<1>1. /\ Len(bs) \in Nat /\ Len(cs) \in Nat /\ i \in Nat /\ i \in 1..Len(cs) /\ Len(bs) <= Len(cs)
      /\ \A j \in 1..Len(bs) : bs[j].used \in Nat /\ bs[j].size \in Nat
      /\ \A j \in 1..Len(cs) : cs[j].used \in Nat /\ cs[j].size \in Nat
  <2>1. cs \in Seq(Block) /\ i \in 1..Len(cs) /\ Len(bs) <= Len(cs)
    BY DEF Takes
  <2>2. Len(bs) \in Nat /\ Len(cs) \in Nat
    BY <2>1, LenProperties
  <2> QED
    BY <2>1, <2>2, BlockAt
<1>2. r.block = i /\ r.from \in Nat /\ r.from = cs[i].used - n /\ r.size = n /\ r \in Region
  BY <1>1 DEF Takes, Region
<1>3. \A j \in 1..Len(cs) : cs[j].used <= cs[j].size
  <2>1. ASSUME NEW j \in 1..Len(cs), j # i
        PROVE  cs[j].used <= cs[j].size
    <3>1. j \in 1..Len(bs)
      BY <1>1, <2>1
    <3> QED
      BY <2>1, <3>1 DEF Cut, Takes
  <2> QED
    BY <2>1 DEF Takes
<1>4. ASSUME NEW s \in rs
      PROVE  /\ s.block \in 1..Len(cs) /\ s.from + s.size <= cs[s.block].used
             /\ s.block = i => s.from + s.size <= r.from
             /\ s.from \in Nat /\ s.size \in Nat /\ s.size > 0
  <2>1. /\ s.block \in 1..Len(bs) /\ s.from + s.size <= bs[s.block].used
        /\ s.from \in Nat /\ s.size \in Nat /\ s.size > 0
    BY <1>4 DEF Cut, Region
  <2>2. CASE s.block = i
    BY <1>1, <1>2, <2>1, <2>2
  <2>3. CASE s.block # i
    <3>1. cs[s.block].used = bs[s.block].used
      BY <2>1, <2>3 DEF Takes
    <3> QED
      BY <1>1, <2>1, <2>3, <3>1
  <2> QED
    BY <2>2, <2>3
<1>5. \A s \in rs \cup {r} : s.block \in 1..Len(cs) /\ s.from + s.size <= cs[s.block].used
  BY <1>1, <1>2, <1>4
<1>6. \A s \in rs \cup {r} : \A q \in (rs \cup {r}) \ {s} :
         s.block = q.block => s.from + s.size <= q.from \/ q.from + q.size <= s.from
  BY <1>2, <1>4 DEF Cut
<1> QED
  BY <1>2, <1>3, <1>5, <1>6 DEF Cut

LEMMA CountedTaken ==
  ASSUME NEW bs \in Seq(Block), NEW cs, NEW i \in 1..Len(bs), NEW n \in Nat, NEW u \in Nat, NEW tot \in Nat,
         Counted(bs, u, tot), Takes(bs, cs, i, n), Len(cs) = Len(bs), cs[i].used = bs[i].used + n
  PROVE  Counted(cs, u + n, tot)
<1>1. PICK free \in [0..Len(bs) -> Nat] : Sums(bs, free) /\ Rising(free, Len(bs)) /\ free[Len(bs)] <= tot - u
  BY DEF Counted
<1>2. PICK L \in Nat : L = Len(bs) /\ L = Len(cs)
  BY LenProperties
<1>3. \A j \in 1..L : bs[j].used \in Nat /\ bs[j].size \in Nat /\ cs[j].used \in Nat /\ cs[j].size \in Nat
  <2>1. cs \in Seq(Block)
    BY DEF Takes
  <2> QED
    BY <1>2, <2>1, BlockAt
<1>4. PICK g : g = [j \in 0..L |-> IF j < i THEN free[j] ELSE free[j] - n]
  OBVIOUS
<1>5. \A j \in 0..L : free[j] \in Nat /\ (i <= j => free[i] <= free[j]) /\ (j < i => free[j] <= free[i - 1])
  BY <1>1, <1>2 DEF Rising
<1>6. i \in 1..L /\ i \in Nat /\ i - 1 \in 0..L /\ free[i - 1] + bs[i].size - bs[i].used <= free[i]
      /\ cs[i].used = bs[i].used + n /\ cs[i].used <= cs[i].size /\ cs[i].size = bs[i].size
  BY <1>1, <1>2 DEF Sums, Takes
<1>7. free[i - 1] <= free[i] - n /\ free[i - 1] \in Nat
  BY <1>3, <1>5, <1>6
<1>8. g \in [0..L -> Nat]
  <2>1. \A j \in 0..L : j >= i => free[j] - n \in Nat
    BY <1>5, <1>6, <1>7
  <2> QED
    BY <1>4, <1>5, <1>6, <2>1
<1>9. Rising(g, L)
  <2>1. SUFFICES ASSUME NEW j \in 0..L, NEW k \in 0..L, j <= k
                 PROVE  g[j] <= g[k]
    BY DEF Rising
  <2>2. free[j] <= free[k] /\ free[j] \in Nat /\ free[k] \in Nat
    BY <1>1, <1>2, <2>1 DEF Rising
  <2>3. CASE j < i /\ k >= i
    BY <1>4, <1>5, <1>6, <1>7, <2>2, <2>3
  <2>4. CASE ~(j < i /\ k >= i)
    BY <1>4, <1>6, <2>1, <2>2, <2>4
  <2> QED
    BY <2>3, <2>4
<1>10. Sums(cs, g)
  <2>1. SUFFICES ASSUME NEW j \in 1..L
                 PROVE  g[j - 1] + cs[j].size - cs[j].used <= g[j]
    BY <1>2 DEF Sums
  <2>2. j - 1 \in 0..L /\ j \in 0..L /\ free[j - 1] + bs[j].size - bs[j].used <= free[j]
    BY <1>1, <1>2 DEF Sums
  <2>3. cs[j].size = bs[j].size /\ (j # i => cs[j].used = bs[j].used)
    BY <1>2 DEF Takes
  <2>4. CASE j = i
    BY <1>3, <1>4, <1>5, <1>6, <2>2, <2>3, <2>4
  <2>5. CASE j # i
    <3>1. free[j - 1] \in Nat /\ free[j] \in Nat
      BY <1>5, <2>2
    <3>2. \/ g[j - 1] = free[j - 1] /\ g[j] = free[j]
          \/ g[j - 1] = free[j - 1] - n /\ g[j] = free[j] - n
      BY <1>4, <1>6, <2>2, <2>5
    <3> QED
      BY <1>3, <2>2, <2>3, <2>5, <3>1, <3>2
  <2> QED
    BY <2>4, <2>5
<1>11. g[L] <= tot - (u + n)
  <2>1. L \in 0..L /\ i <= L /\ free[L] <= tot - u /\ free[L] \in Nat
    BY <1>1, <1>2, <1>5, <1>6
  <2> QED
    BY <1>4, <1>6, <2>1
<1> QED
  BY <1>2, <1>8, <1>9, <1>10, <1>11 DEF Counted

LEMMA CountedNew ==
  ASSUME NEW bs \in Seq(Block), NEW cs, NEW n \in Nat, NEW u \in Nat, NEW tot \in Nat, NEW m \in Nat,
         Counted(bs, u, tot), Takes(bs, cs, Len(cs), n), Len(cs) = Len(bs) + 1,
         cs[Len(cs)].used = n, cs[Len(cs)].size = m
  PROVE  Counted(cs, u + n, tot + m)
<1>1. PICK free \in [0..Len(bs) -> Nat] : Sums(bs, free) /\ Rising(free, Len(bs)) /\ free[Len(bs)] <= tot - u
  BY DEF Counted
<1>2. PICK L \in Nat : L = Len(bs) /\ L + 1 = Len(cs)
  BY LenProperties
<1>3. \A j \in 1..L : bs[j].used \in Nat /\ bs[j].size \in Nat
  BY <1>2, BlockAt
<1>4. PICK g : g = [j \in 0 .. L + 1 |-> IF j <= L THEN free[j] ELSE free[L] + m - n]
  OBVIOUS
<1>5. n <= m /\ free[L] \in Nat /\ free[L] <= free[L] + m - n /\ \A j \in 0..L : free[j] \in Nat /\ free[j] <= free[L]
  BY <1>1, <1>2 DEF Rising, Takes
<1>6. g \in [0 .. L + 1 -> Nat] /\ g[L + 1] = free[L] + m - n /\ \A j \in 0..L : g[j] = free[j]
  BY <1>4, <1>5
<1>7. Rising(g, L + 1)
  <2>1. SUFFICES ASSUME NEW j \in 0 .. L + 1, NEW k \in 0 .. L + 1, j <= k
                 PROVE  g[j] <= g[k]
    BY DEF Rising
  <2>2. CASE k <= L
    <3>1. j \in 0..L /\ k \in 0..L
      BY <2>1, <2>2
    <3> QED
      BY <1>1, <1>2, <1>6, <2>1, <3>1 DEF Rising
  <2>3. CASE k = L + 1 /\ j <= L
    <3>1. j \in 0..L
      BY <2>3
    <3> QED
      BY <1>5, <1>6, <2>3, <3>1
  <2>4. CASE k = L + 1 /\ j = L + 1
    BY <1>5, <1>6, <2>4
  <2> QED
    BY <2>1, <2>2, <2>3, <2>4
<1>8. Sums(cs, g)
  <2>1. SUFFICES ASSUME NEW j \in 1 .. L + 1
                 PROVE  g[j - 1] + cs[j].size - cs[j].used <= g[j]
    BY <1>2 DEF Sums
  <2>2. CASE j <= L
    <3>1. j \in 1..L /\ j - 1 \in 0..L /\ j \in 0..L /\ j # L + 1
      BY <2>2
    <3>2. cs[j].size = bs[j].size /\ cs[j].used = bs[j].used
      BY <1>2, <3>1 DEF Takes
    <3>3. free[j - 1] + bs[j].size - bs[j].used <= free[j]
      BY <1>1, <1>2, <3>1 DEF Sums
    <3> QED
      BY <1>6, <3>1, <3>2, <3>3
  <2>3. CASE j = L + 1
    BY <1>2, <1>5, <1>6, <2>3
  <2> QED
    BY <2>2, <2>3
<1>9. g[L + 1] <= (tot + m) - (u + n)
  BY <1>1, <1>2, <1>5, <1>6
<1> QED
  BY <1>2, <1>6, <1>7, <1>8, <1>9 DEF Counted

LEMMA LeastOf ==
  ASSUME NEW S \in SUBSET Nat, S # {}
  PROVE  \E j \in S : \A k \in S : j <= k
<1>1. PICK R : R = OpToRel(<, Nat)
  OBVIOUS
<1>2. \A a, b \in Nat : <<a, b>> \in R <=> a < b
  BY <1>1 DEF OpToRel
<1>3. IsWellFoundedOn(R, Nat)
  BY <1>1, NatLessThanWellFounded
<1>4. PICK j \in S : \A k \in S : ~ (<<k, j>> \in R)
  BY <1>3, WFMin
<1>5. \A k \in S : j <= k
  <2>1. SUFFICES ASSUME NEW k \in S
                 PROVE  j <= k
    OBVIOUS
  <2>2. ~ (k < j) /\ k \in Nat /\ j \in Nat
    BY <1>2, <1>4
  <2> QED
    BY <2>2
<1> QED
  BY <1>5

LEMMA LastOf ==
  ASSUME NEW n \in Nat, NEW S \in SUBSET (1..n), S # {}
  PROVE  \E j \in S : \A k \in S : k <= j
<1>1. PICK T : T = {n - j : j \in S}
  OBVIOUS
<1>2. T \in SUBSET Nat /\ T # {}
  <2>1. \A j \in S : j \in Nat /\ j <= n
    OBVIOUS
  <2>2. \A j \in S : n - j \in Nat
    BY <2>1
  <2>3. \A x \in T : x \in Nat
    BY <1>1, <2>2
  <2>4. PICK k \in S : TRUE
    OBVIOUS
  <2>5. n - k \in T
    BY <1>1, <2>4
  <2> QED
    BY <2>3, <2>5
<1>3. PICK t \in T : \A x \in T : t <= x
  BY <1>2, LeastOf
<1>4. PICK j \in S : t = n - j
  BY <1>1
<1>5. \A k \in S : n - j <= n - k
  BY <1>1, <1>3, <1>4
<1>6. \A k \in S : k <= j
  BY <1>5
<1> QED
  BY <1>6

\* A container with no blocks.
LEMMA Emptied ==
  ASSUME NEW u \in Nat, NEW tot \in Nat, u <= tot
  PROVE  Cut(<<>>, {}) /\ Counted(<<>>, u, tot)
<1>1. PICK free : free = [j \in 0..0 |-> 0]
  OBVIOUS
<1>2. free \in [0..0 -> Nat] /\ free[0] = 0 /\ Len(<<>>) = 0 /\ 1..0 = {}
  BY <1>1
<1>3. Sums(<<>>, free) /\ Rising(free, 0)
  BY <1>2 DEF Sums, Rising
<1> QED
  BY <1>2, <1>3 DEF Cut, Counted

LEMMA UsedWithin ==
  ASSUME NEW bs \in Seq(Block), NEW u \in Nat, NEW tot \in Nat, Counted(bs, u, tot)
  PROVE  u <= tot
<1>1. PICK free \in [0..Len(bs) -> Nat] : free[Len(bs)] <= tot - u
  BY DEF Counted
<1>2. free[Len(bs)] \in Nat
  BY <1>1, LenProperties
<1> QED
  BY <1>1, <1>2

\* What a step of container c leaves alone.
LEMMA OneChanged ==
  ASSUME Inv, NEW c \in Containers, NEW bs \in Seq(Block), NEW rs \in SUBSET Region, NEW u \in Nat, NEW tot \in Nat,
         blocks' = [blocks EXCEPT ![c] = bs], regions' = [regions EXCEPT ![c] = rs],
         used' = [used EXCEPT ![c] = u], total' = [total EXCEPT ![c] = tot],
         Cut(bs, rs), Counted(bs, u, tot),
         registry' \in Seq(Containers), IsInjective(registry'),
         \A d \in Containers \ {c} : Contains(registry, d) => Contains(registry', d),
         bs # <<>> => Contains(registry', c)
  PROVE  Inv'
<1>1. /\ blocks' \in [Containers -> Seq(Block)] /\ regions' \in [Containers -> SUBSET Region]
      /\ used' \in [Containers -> Nat] /\ total' \in [Containers -> Nat]
  BY DEF Inv
<1>2. ASSUME NEW d \in Containers
      PROVE  /\ Cut(blocks'[d], regions'[d]) /\ Counted(blocks'[d], used'[d], total'[d])
             /\ blocks'[d] # <<>> => Contains(registry', d)
  <2>1. CASE d = c
    <3>1. blocks'[d] = bs /\ regions'[d] = rs /\ used'[d] = u /\ total'[d] = tot
      BY <2>1 DEF Inv
    <3> QED
      BY <2>1, <3>1
  <2>2. CASE d # c
    <3>1. blocks'[d] = blocks[d] /\ regions'[d] = regions[d] /\ used'[d] = used[d] /\ total'[d] = total[d]
      BY <2>2 DEF Inv
    <3> QED
      BY <2>2, <3>1 DEF Inv
  <2> QED
    BY <2>1, <2>2
<1> QED
  BY <1>1, <1>2 DEF Inv

LEMMA AllocStep ==
  ASSUME Parameters, Inv, NEW c \in Containers, NEW n \in 1..MaxCount, AllocBuffer(c, n)
  PROVE  Inv'
<1>0. PICK bs, L, i, new : /\ bs = blocks[c] /\ L = Len(bs) /\ i = BlockFor(c, n)
                           /\ new = [size |-> IF n > ONE_TIME_COUNT THEN n ELSE ONE_TIME_COUNT, used |-> 0]
  OBVIOUS
<1>1. /\ bs = blocks[c] /\ L = Len(bs) /\ i = BlockFor(c, n) /\ n \in Nat /\ n > 0
      /\ new = [size |-> IF n > ONE_TIME_COUNT THEN n ELSE ONE_TIME_COUNT, used |-> 0]
      /\ bs \in Seq(Block) /\ L \in Nat
  BY <1>0, LenProperties DEF Parameters, Inv
<1>2. PICK m : m = new.size /\ m \in Nat /\ n <= m /\ new.used = 0 /\ new \in Block
  BY <1>1 DEF Parameters, Block
<1>a. PICK old, cs : old = (IF i <= L THEN bs ELSE Append(bs, new)) /\ cs = [old EXCEPT ![i].used = @ + n]
  OBVIOUS
<1>3. /\ old = (IF i <= L THEN bs ELSE Append(bs, new)) /\ cs = [old EXCEPT ![i].used = @ + n]
      /\ blocks' = [blocks EXCEPT ![c] = cs]
      /\ regions' = [regions EXCEPT ![c] = @ \cup {[block |-> i, from |-> old[i].used, size |-> n]}]
      /\ used' = [used EXCEPT ![c] = @ + n]
      /\ total' = [total EXCEPT ![c] = @ + IF i > L THEN m ELSE 0]
      /\ registry' = registry /\ Contains(registry, c)
  BY <1>a, <1>1, <1>2 DEF AllocBuffer
<1>4. (i \in 1..L /\ Fits(bs[i], n)) \/ i = L + 1
  <2>0. PICK fitting : fitting = {j \in 1..L : Fits(bs[j], n)}
    OBVIOUS
  <2>1. i = IF fitting # {} THEN CHOOSE j \in fitting : \A k \in fitting : k <= j ELSE L + 1
    BY <1>1, <2>0 DEF BlockFor
  <2>2. CASE fitting # {}
    <3>1. fitting \in SUBSET (1..L)
      BY <2>0
    <3>2. \E j \in fitting : \A k \in fitting : k <= j
      BY <2>2, <3>1, <1>1, LastOf
    <3>3. i \in fitting
      BY <2>1, <2>2, <3>2
    <3> QED
      BY <2>0, <3>3
  <2> QED
    BY <2>1, <2>2
<1>5. /\ old \in Seq(Block) /\ Len(old) = (IF i <= L THEN L ELSE L + 1) /\ i \in 1..Len(old)
      /\ \A j \in 1..L : old[j] = bs[j]
      /\ i > L => old[i] = new
  <2>1. CASE i <= L
    BY <1>1, <1>3, <1>4, <2>1
  <2>2. CASE i > L
    BY <1>1, <1>2, <1>3, <1>4, <2>2
  <2> QED
    BY <1>1, <1>4, <2>1, <2>2
<1>6. old[i] \in Block /\ old[i].used \in Nat /\ old[i].size \in Nat /\ old[i].size - old[i].used >= n
  BY <1>1, <1>2, <1>4, <1>5, BlockAt DEF Fits
<1>b. PICK b : b = [old[i] EXCEPT !.used = @ + n]
  OBVIOUS
<1>7. b \in Block /\ b.used = old[i].used + n /\ b.size = old[i].size
  BY <1>b, <1>1, <1>6 DEF Block
<1>8. /\ cs = [old EXCEPT ![i] = b] /\ cs \in Seq(Block) /\ Len(cs) = Len(old)
      /\ cs[i] = b /\ \A j \in 1..Len(cs) : j # i => cs[j] = old[j]
  <2>1. cs = [old EXCEPT ![i] = b]
    BY <1>b, <1>3
  <2> QED
    BY <1>5, <1>7, <2>1, ExceptSeq
<1>9. Takes(bs, cs, i, n)
  <2>1. \A j \in 1..Len(bs) : cs[j].size = bs[j].size /\ (j # i => cs[j].used = bs[j].used)
    BY <1>1, <1>5, <1>7, <1>8
  <2>2. cs[i].used <= cs[i].size /\ cs[i].used >= n
    BY <1>1, <1>6, <1>7, <1>8
  <2> QED
    BY <1>1, <1>5, <1>8, <2>1, <2>2 DEF Takes
<1>r. PICK r, rs : r = [block |-> i, from |-> old[i].used, size |-> n] /\ rs = regions[c]
  OBVIOUS
<1>10. /\ r = [block |-> i, from |-> cs[i].used - n, size |-> n]
       /\ rs \in SUBSET Region /\ Cut(bs, rs) /\ rs = regions[c]
       /\ regions' = [regions EXCEPT ![c] = rs \cup {r}]
  BY <1>r, <1>1, <1>3, <1>6, <1>7, <1>8 DEF Inv
<1>11. i <= L => bs[i].used = cs[i].used - n
  BY <1>1, <1>4, <1>5, <1>6, <1>7, <1>8
<1>12. rs \cup {r} \in SUBSET Region /\ Cut(cs, rs \cup {r})
  <2>1. Len(cs) = Len(bs) \/ (i = Len(cs) /\ Len(cs) = Len(bs) + 1)
    BY <1>1, <1>4, <1>5, <1>8
  <2>2. i <= Len(bs) => bs[i].used = cs[i].used - n
    BY <1>1, <1>11
  <2>3. /\ bs \in Seq(Block) /\ n \in Nat \ {0} /\ rs \in SUBSET Region /\ Cut(bs, rs)
        /\ Takes(bs, cs, i, n) /\ r = [block |-> i, from |-> cs[i].used - n, size |-> n]
    BY <1>1, <1>9, <1>10
  <2> QED
    BY ONLY <2>1, <2>2, <2>3, CutTaken
<1>u. PICK u, tot : u = used[c] /\ tot = total[c]
  OBVIOUS
<1>13. u \in Nat /\ tot \in Nat /\ Counted(bs, u, tot) /\ u = used[c] /\ tot = total[c]
  BY <1>u, <1>1 DEF Inv
<1>14. Counted(cs, u + n, tot + IF i > L THEN m ELSE 0)
  <2>1. CASE i <= L
    <3>1. i \in 1..Len(bs) /\ Len(cs) = Len(bs) /\ cs[i].used = bs[i].used + n
      BY <1>1, <1>4, <1>5, <1>7, <1>8, <2>1
    <3>2. Counted(cs, u + n, tot)
      BY <1>1, <1>9, <1>13, <3>1, CountedTaken
    <3>3. tot + (IF i > L THEN m ELSE 0) = tot
      BY <1>1, <1>4, <1>13, <2>1
    <3> QED
      BY <3>2, <3>3
  <2>2. CASE i > L
    <3>1. i = L + 1 /\ i = Len(cs) /\ Len(cs) = Len(bs) + 1 /\ cs[Len(cs)].used = n /\ cs[Len(cs)].size = m
      BY <1>1, <1>2, <1>4, <1>5, <1>7, <1>8, <2>2
    <3>2. Counted(cs, u + n, tot + m)
      BY <1>1, <1>2, <1>9, <1>13, <3>1, CountedNew
    <3> QED
      BY <2>2, <3>2
  <2> QED
    BY <1>1, <1>4, <2>1, <2>2
<1>15. u + n \in Nat /\ tot + (IF i > L THEN m ELSE 0) \in Nat
  BY <1>1, <1>2, <1>13
<1>16. used' = [used EXCEPT ![c] = u + n] /\ total' = [total EXCEPT ![c] = tot + IF i > L THEN m ELSE 0]
  BY <1>3, <1>13
<1>17. registry' \in Seq(Containers) /\ IsInjective(registry')
  BY <1>3 DEF Inv
<1> QED
  BY <1>3, <1>8, <1>10, <1>12, <1>14, <1>15, <1>16, <1>17, OneChanged

LEMMA CreateStep ==
  ASSUME Inv, NEW c \in Containers, Create(c)
  PROVE  Inv'
<1>1. blocks[c] = <<>> /\ regions[c] \in SUBSET Region /\ Cut(blocks[c], regions[c])
  BY DEF Inv, Create
<1>2. regions[c] = {}
  <2>1. Len(<<>>) = 0 /\ 1..0 = {}
    OBVIOUS
  <2> QED
    BY <1>1, <2>1 DEF Cut
<1>3. Cut(<<>>, {}) /\ Counted(<<>>, 0, 0)
  BY Emptied
<1>4. blocks' = [blocks EXCEPT ![c] = <<>>] /\ regions' = [regions EXCEPT ![c] = {}]
  BY <1>1, <1>2 DEF Create, Inv
<1>5. used' = [used EXCEPT ![c] = 0] /\ total' = [total EXCEPT ![c] = 0]
  BY DEF Create
<1>6. /\ registry' \in Seq(Containers) /\ IsInjective(registry')
      /\ \A d \in Containers : Contains(registry, d) => Contains(registry', d)
  <2>1. /\ registry' = Append(registry, c) /\ registry \in Seq(Containers) /\ IsInjective(registry)
        /\ \A k \in 1..Len(registry) : registry[k] # c
    BY DEF Create, Registered, Contains, Inv
  <2>0. PICK r : r = registry'
    OBVIOUS
  <2>2. /\ r = registry' /\ r \in Seq(Containers) /\ Len(r) = Len(registry) + 1 /\ Len(registry) \in Nat
        /\ DOMAIN registry = 1..Len(registry) /\ DOMAIN r = 1 .. Len(registry) + 1
        /\ \A k \in 1..Len(registry) : r[k] = registry[k]
    BY <2>0, <2>1, LenProperties
  <2>3. r[Len(registry) + 1] = c
    BY <2>1, <2>2
  <2>4. IsInjective(r)
    BY <2>1, <2>2, <2>3 DEF IsInjective
  <2> QED
    BY <2>2, <2>4 DEF Contains
<1>e. PICK bs, rs, u, tot : bs = <<>> /\ rs = {} /\ u = 0 /\ tot = 0
  OBVIOUS
<1>f. /\ bs \in Seq(Block) /\ rs \in SUBSET Region /\ u \in Nat /\ tot \in Nat
      /\ blocks' = [blocks EXCEPT ![c] = bs] /\ regions' = [regions EXCEPT ![c] = rs]
      /\ used' = [used EXCEPT ![c] = u] /\ total' = [total EXCEPT ![c] = tot]
      /\ Cut(bs, rs) /\ Counted(bs, u, tot)
      /\ bs # <<>> => Contains(registry', c)
  BY <1>e, <1>3, <1>4, <1>5
<1>g. \A d \in Containers \ {c} : Contains(registry, d) => Contains(registry', d)
  BY <1>6
<1> QED
  BY <1>f, <1>g, <1>6, OneChanged

LEMMA FreeStep ==
  ASSUME Inv, NEW c \in Containers, FreeBuffer(c)
  PROVE  Inv'
<1>1. blocks[c] \in Seq(Block) /\ used[c] \in Nat /\ total[c] \in Nat /\ Counted(blocks[c], used[c], total[c])
  BY DEF Inv
<1>2. used[c] <= total[c]
  BY <1>1, UsedWithin
<1>3. Cut(<<>>, {}) /\ Counted(<<>>, used[c], total[c])
  BY <1>1, <1>2, Emptied
<1>4. /\ blocks' = [blocks EXCEPT ![c] = <<>>] /\ regions' = [regions EXCEPT ![c] = {}]
      /\ used' = [used EXCEPT ![c] = used[c]] /\ total' = [total EXCEPT ![c] = total[c]]
      /\ registry' = registry
  BY DEF FreeBuffer, Inv
<1>5. registry' \in Seq(Containers) /\ IsInjective(registry')
  BY <1>4 DEF Inv
<1>e. PICK bs, rs, u, tot : bs = <<>> /\ rs = {} /\ u = used[c] /\ tot = total[c]
  OBVIOUS
<1>f. /\ bs \in Seq(Block) /\ rs \in SUBSET Region /\ u \in Nat /\ tot \in Nat
      /\ blocks' = [blocks EXCEPT ![c] = bs] /\ regions' = [regions EXCEPT ![c] = rs]
      /\ used' = [used EXCEPT ![c] = u] /\ total' = [total EXCEPT ![c] = tot]
      /\ Cut(bs, rs) /\ Counted(bs, u, tot)
      /\ bs # <<>> => Contains(registry', c)
  BY <1>e, <1>1, <1>3, <1>4
<1>g. \A d \in Containers \ {c} : Contains(registry, d) => Contains(registry', d)
  BY <1>4, <1>5
<1> QED
  BY <1>f, <1>g, <1>4, <1>5, OneChanged

\* Unregist takes the only entry of a container out of the registry.
LEMMA UnregisteredParts ==
  ASSUME NEW r \in Seq(Containers), IsInjective(r), NEW c \in Containers
  PROVE  /\ Unregistered(r, c) \in Seq(Containers) /\ IsInjective(Unregistered(r, c))
         /\ \A d \in Containers \ {c} : Contains(r, d) => Contains(Unregistered(r, c), d)
<1>0. PICK q : q = Unregistered(r, c)
  OBVIOUS
<1>1. q = Unregistered(r, c) /\ Len(r) \in Nat /\ DOMAIN r = 1..Len(r)
  BY <1>0, LenProperties
<1>2. CASE ~ Contains(r, c)
  BY <1>1, <1>2 DEF Unregistered
<1>3. CASE Contains(r, c)
  <2>0. PICK k \in 1..Len(r) : r[k] = c
    BY <1>3 DEF Contains
  <2>1. r[k] = c /\ k \in 1..Len(r) /\ k \in Nat /\ \A i \in 1..Len(r) : r[i] = c => i = k
    BY <1>1, <2>0 DEF IsInjective
  <2>2. SelectLastInSeq(r, LAMBDA x : x = c) = k
    <3>1. {i \in 1..Len(r) : r[i] = c} = {k}
      BY <2>1
    <3>2. Max({k}) = k
      BY <2>1 DEF Max
    <3>3. SelectLastInSeq(r, LAMBDA x : x = c)
            = IF {i \in 1..Len(r) : r[i] = c} # {} THEN Max({i \in 1..Len(r) : r[i] = c}) ELSE 0
      BY DEF SelectLastInSeq
    <3> QED
      BY <3>1, <3>2, <3>3
  <2>3. q = SubSeq(r, 1, k - 1) \o SubSeq(r, k + 1, Len(r))
    BY <1>1, <1>3, <2>2 DEF Unregistered, RemoveAt
  <2>a. PICK s, t : s = SubSeq(r, 1, k - 1) /\ t = SubSeq(r, k + 1, Len(r))
    OBVIOUS
  <2>4. /\ s \in Seq(Containers) /\ Len(s) = k - 1 /\ \A i \in 1 .. k - 1 : s[i] = r[i]
    <3>1. 1 \in Int /\ k - 1 \in Int /\ \A i \in 1 .. k - 1 : r[i] \in Containers
      BY <1>1, <2>1, ElementOfSeq
    <3>2. /\ SubSeq(r, 1, k - 1) \in Seq(Containers)
          /\ Len(SubSeq(r, 1, k - 1)) = (IF 1 <= k - 1 THEN k - 1 - 1 + 1 ELSE 0)
          /\ \A i \in 1 .. k - 1 - 1 + 1 : SubSeq(r, 1, k - 1)[i] = r[1 + i - 1]
      BY <3>1, SubSeqProperties
    <3> QED
      BY <2>a, <2>1, <3>2
  <2>5. /\ t \in Seq(Containers) /\ Len(t) = Len(r) - k /\ \A i \in 1 .. Len(r) - k : t[i] = r[k + i]
    <3>1. k + 1 \in Int /\ Len(r) \in Int /\ \A i \in k + 1 .. Len(r) : r[i] \in Containers
      BY <1>1, <2>1, ElementOfSeq
    <3>2. /\ SubSeq(r, k + 1, Len(r)) \in Seq(Containers)
          /\ Len(SubSeq(r, k + 1, Len(r))) = (IF k + 1 <= Len(r) THEN Len(r) - (k + 1) + 1 ELSE 0)
          /\ \A i \in 1 .. Len(r) - (k + 1) + 1 : SubSeq(r, k + 1, Len(r))[i] = r[(k + 1) + i - 1]
      BY <3>1, SubSeqProperties
    <3>3. Len(t) = Len(r) - k /\ t \in Seq(Containers)
      <4>1. t \in Seq(Containers) /\ Len(t) = (IF k + 1 <= Len(r) THEN Len(r) - (k + 1) + 1 ELSE 0)
        BY <2>a, <3>2
      <4>2. (IF k + 1 <= Len(r) THEN Len(r) - (k + 1) + 1 ELSE 0) = Len(r) - k
        <5>1. \A n \in Nat : \A m \in 1..n : (IF m + 1 <= n THEN n - (m + 1) + 1 ELSE 0) = n - m
          OBVIOUS
        <5> QED
          BY <5>1, <1>1
      <4> QED
        BY <4>1, <4>2
    <3>4. ASSUME NEW i \in 1 .. Len(r) - k
          PROVE  t[i] = r[k + i]
      <4>1. (k + 1) + i - 1 = k + i /\ i \in 1 .. Len(r) - (k + 1) + 1
        BY <1>1, <2>1
      <4>2. t[i] = r[(k + 1) + i - 1]
        BY <2>a, <3>2, <4>1
      <4> QED
        BY <4>1, <4>2
    <3> QED
      BY <3>3, <3>4
  <2>6. /\ q \in Seq(Containers) /\ Len(q) = Len(r) - 1
        /\ \A i \in 1 .. Len(r) - 1 : q[i] = IF i <= k - 1 THEN s[i] ELSE t[i - (k - 1)]
    <3>1. q = s \o t
      BY <2>a, <2>3
    <3>2. /\ s \o t \in Seq(Containers) /\ Len(s \o t) = Len(s) + Len(t)
          /\ \A i \in 1 .. Len(s) + Len(t) : (s \o t)[i] = IF i <= Len(s) THEN s[i] ELSE t[i - Len(s)]
      BY <2>4, <2>5, ConcatProperties
    <3> QED
      BY <1>1, <2>1, <2>4, <2>5, <3>1, <3>2
  <2>7. \A i \in 1 .. Len(r) - 1 : q[i] = r[IF i < k THEN i ELSE i + 1]
    BY <1>1, <2>1, <2>4, <2>5, <2>6
  <2>8. DOMAIN q = 1 .. Len(r) - 1
    BY <2>6, LenProperties
  <2>9. IsInjective(q)
    <3>1. SUFFICES ASSUME NEW a \in 1 .. Len(r) - 1, NEW b \in 1 .. Len(r) - 1, q[a] = q[b]
                   PROVE  a = b
      BY <2>8 DEF IsInjective
    <3>0. PICK a2, b2 : a2 = (IF a < k THEN a ELSE a + 1) /\ b2 = (IF b < k THEN b ELSE b + 1)
      OBVIOUS
    <3>2. a2 \in 1..Len(r) /\ b2 \in 1..Len(r) /\ (a2 = b2 => a = b)
      BY <3>0, <1>1, <2>1
    <3>3. r[a2] = r[b2]
      BY <3>0, <2>7, <3>1
    <3> QED
      BY <1>1, <3>2, <3>3 DEF IsInjective
  <2>10. ASSUME NEW d \in Containers \ {c}, Contains(r, d)
         PROVE  Contains(q, d)
    <3>0. PICK j \in 1..Len(r) : r[j] = d
      BY <2>10 DEF Contains
    <3>1. j # k /\ j \in Nat
      BY <2>1, <2>10, <3>0
    <3>a. PICK i : i = IF j < k THEN j ELSE j - 1
      OBVIOUS
    <3>2. i \in 1 .. Len(r) - 1 /\ (IF i < k THEN i ELSE i + 1) = j
      BY <3>a, <1>1, <2>1, <3>1
    <3> QED
      BY <3>0, <2>6, <2>7, <3>2 DEF Contains
  <2> QED
    BY <1>1, <2>6, <2>9, <2>10
<1> QED
  BY <1>2, <1>3

LEMMA DestroyStep ==
  ASSUME Inv, NEW c \in Containers, Destroy(c)
  PROVE  Inv'
<1>1. Cut(<<>>, {}) /\ Counted(<<>>, 0, 0)
  BY Emptied
<1>2. /\ blocks' = [blocks EXCEPT ![c] = <<>>] /\ regions' = [regions EXCEPT ![c] = {}]
      /\ used' = [used EXCEPT ![c] = 0] /\ total' = [total EXCEPT ![c] = 0]
      /\ registry' = Unregistered(Unregistered(registry, c), c)
  BY DEF Destroy
<1>3. /\ registry' \in Seq(Containers) /\ IsInjective(registry')
      /\ \A d \in Containers \ {c} : Contains(registry, d) => Contains(registry', d)
  <2>1. registry \in Seq(Containers) /\ IsInjective(registry)
    BY DEF Inv
  <2>0. PICK q : q = Unregistered(registry, c)
    OBVIOUS
  <2>2. /\ q = Unregistered(registry, c) /\ q \in Seq(Containers) /\ IsInjective(q)
        /\ \A d \in Containers \ {c} : Contains(registry, d) => Contains(q, d)
    BY <2>0, <2>1, UnregisteredParts
  <2>3. /\ Unregistered(q, c) \in Seq(Containers) /\ IsInjective(Unregistered(q, c))
        /\ \A d \in Containers \ {c} : Contains(q, d) => Contains(Unregistered(q, c), d)
    BY <2>2, UnregisteredParts
  <2> QED
    BY <1>2, <2>2, <2>3
<1>e. PICK bs, rs, u, tot : bs = <<>> /\ rs = {} /\ u = 0 /\ tot = 0
  OBVIOUS
<1>f. /\ bs \in Seq(Block) /\ rs \in SUBSET Region /\ u \in Nat /\ tot \in Nat
      /\ blocks' = [blocks EXCEPT ![c] = bs] /\ regions' = [regions EXCEPT ![c] = rs]
      /\ used' = [used EXCEPT ![c] = u] /\ total' = [total EXCEPT ![c] = tot]
      /\ Cut(bs, rs) /\ Counted(bs, u, tot)
      /\ bs # <<>> => Contains(registry', c)
  BY <1>e, <1>1, <1>2
<1>g. \A d \in Containers \ {c} : Contains(registry, d) => Contains(registry', d)
  BY <1>3
<1> QED
  BY <1>f, <1>g, <1>3, OneChanged

LEMMA InitInv ==
  ASSUME Init
  PROVE  Inv
<1>1. Cut(<<>>, {}) /\ Counted(<<>>, 0, 0)
  BY Emptied
<1>2. IsInjective(<<>>)
  BY DEF IsInjective
<1> QED
  BY <1>1, <1>2 DEF Init, Inv

\* A container that has blocks is registered once.
LEMMA RegisteredOnce ==
  ASSUME Inv, NEW c \in Containers, blocks[c] # <<>>
  PROVE  Cardinality({i \in DOMAIN registry : registry[i] = c}) = 1
<1>1. DOMAIN registry = 1..Len(registry) /\ Contains(registry, c)
  BY LenProperties DEF Inv
<1>2. PICK k \in 1..Len(registry) : registry[k] = c
  BY <1>1 DEF Contains
<1>3. {i \in DOMAIN registry : registry[i] = c} = {k}
  BY <1>1, <1>2 DEF Inv, IsInjective
<1> QED
  BY <1>3, FS_Singleton

\* Whatever is allocated and freed, no two pieces of memory handed out overlap, each is
\* inside its block, no more is reported as used than as allocated, and a container is
\* registered once.
THEOREM PiecesApart ==
  ASSUME Parameters
  PROVE  Spec => []RegionsApart
<1>1. Init => Inv
  BY InitInv
<1>2. ASSUME Inv, [Next]_vars
      PROVE  Inv'
  <2>1. CASE UNCHANGED vars
    BY <1>2, <2>1 DEF vars, Inv
  <2> QED
    BY <1>2, <2>1, CreateStep, FreeStep, DestroyStep, AllocStep DEF Next
<1>3. Inv /\ [Next]_vars => Inv'
  BY <1>2
<1>4. ASSUME Inv, NEW c \in Containers
      PROVE  /\ \A r \in regions[c] : /\ r.from + r.size <= blocks[c][r.block].size
                                      /\ \A s \in regions[c] \ {r} :
                                           r.block = s.block => r.from + r.size <= s.from \/ s.from + s.size <= r.from
             /\ used[c] <= total[c]
  <2>1. /\ blocks[c] \in Seq(Block) /\ regions[c] \in SUBSET Region /\ Cut(blocks[c], regions[c])
        /\ used[c] \in Nat /\ total[c] \in Nat /\ Counted(blocks[c], used[c], total[c])
    BY <1>4 DEF Inv
  <2>2. ASSUME NEW r \in regions[c]
        PROVE  r.from + r.size <= blocks[c][r.block].size
    <3>1. /\ r.block \in 1..Len(blocks[c]) /\ r.from + r.size <= blocks[c][r.block].used
          /\ r.from \in Nat /\ r.size \in Nat
      BY <2>1 DEF Cut, Region
    <3>2. blocks[c][r.block].used <= blocks[c][r.block].size
          /\ blocks[c][r.block].used \in Nat /\ blocks[c][r.block].size \in Nat
      BY <2>1, <3>1, BlockAt DEF Cut
    <3> QED
      BY <3>1, <3>2
  <2>3. used[c] <= total[c]
    BY <2>1, UsedWithin
  <2> QED
    BY <2>1, <2>2, <2>3 DEF Cut
<1>5. Inv => RegionsApart
  BY <1>4, RegisteredOnce DEF RegionsApart
<1> QED
  BY <1>1, <1>3, <1>5, PTL DEF Spec
===============================================================================
