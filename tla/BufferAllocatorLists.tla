-------------------------- MODULE BufferAllocatorLists --------------------------
(***************************************************************************)
(* More proofs about ElsaCBufferAllocator: its lists miss no block, it     *)
(* implements BlockOwnership, and its counters are the sizes on the lists. *)
(*                                                                         *)
(* That a block can be reached from a list's head is not a condition on    *)
(* neighbours. ReachInv says it without recursion: a set that has the head *)
(* and what follows each of its blocks has all the blocks of the list. To  *)
(* show that an unlink keeps it, such a set after the unlink is made into  *)
(* one before it, by adding or dropping the block unlinked.                *)
(***************************************************************************)
EXTENDS BufferAllocatorProofs, FiniteSetTheorems, WellFoundedInduction

\* Whoever follows p from h meets every block of T.
Reaches(p, h, T) ==
  \A S \in SUBSET Blocks :
     (h # NULL => h \in S) /\ (\A b \in S : p[b] # NULL => p[b] \in S) => T \subseteq S

\* T is the list from h, if h reaches it: h is in it, and so is what follows.
Within(p, h, T) == (h # NULL => h \in T) /\ (\A b \in T : p[b] # NULL => p[b] \in T)

ReachInv == /\ \A c \in Classes : Reaches(m_pPrev, m_pLast[c], CachedIn(c))
            /\ Reaches(m_pPrev, m_pLastAlloced, Used)

-------------------------------------------------------------------------------
(* Lists. *)

\* A list whose links do not change stays a list.
LEMMA ReachSame ==
  ASSUME NEW p, NEW q, NEW h, NEW T \in SUBSET Blocks, Within(p, h, T), Reaches(p, h, T),
         \A x \in T : q[x] = p[x]
  PROVE  Reaches(q, h, T)
<1> SUFFICES ASSUME NEW S \in SUBSET Blocks, h # NULL => h \in S,
                    \A b \in S : q[b] # NULL => q[b] \in S
             PROVE  T \subseteq S
  BY DEF Reaches
<1> DEFINE R == S \cap T
<1>1. (h # NULL => h \in R) /\ (\A x \in R : p[x] # NULL => p[x] \in R)
  BY DEF Within
<1>2. R \in SUBSET Blocks
  OBVIOUS
<1>3. T \subseteq R
  <2> HIDE DEF R
  <2> QED
    BY <1>1, <1>2 DEF Reaches
<1> QED
  BY <1>3

\* A block put before the head becomes the head.
LEMMA ReachPush ==
  ASSUME NEW p, NEW q, NEW h, NEW T \in SUBSET Blocks, Within(p, h, T), Reaches(p, h, T),
         NEW b \in Blocks, q[b] = h, \A x \in T : q[x] = p[x]
  PROVE  Reaches(q, b, T \cup {b})
<1> SUFFICES ASSUME NEW S \in SUBSET Blocks, b # NULL => b \in S,
                    \A x \in S : q[x] # NULL => q[x] \in S
             PROVE  T \cup {b} \subseteq S
  BY DEF Reaches
<1> DEFINE R == S \cap T
<1>1. b \in S
  BY NullAssumption
<1>2. (h # NULL => h \in R) /\ (\A x \in R : p[x] # NULL => p[x] \in R)
  BY <1>1 DEF Within
<1>3. R \in SUBSET Blocks
  OBVIOUS
<1>4. T \subseteq R
  <2> HIDE DEF R
  <2> QED
    BY <1>2, <1>3 DEF Reaches
<1> QED
  BY <1>1, <1>4

\* When the head is unlinked, what followed it becomes the head.
LEMMA ReachUnlinkHead ==
  ASSUME NEW p, NEW q, NEW b \in Blocks, NEW T \in SUBSET Blocks, Within(p, b, T),
         Reaches(p, b, T), \A x \in T \ {b} : q[x] = p[x]
  PROVE  Reaches(q, p[b], T \ {b})
<1> SUFFICES ASSUME NEW S \in SUBSET Blocks, p[b] # NULL => p[b] \in S,
                    \A x \in S : q[x] # NULL => q[x] \in S
             PROVE  T \ {b} \subseteq S
  BY DEF Reaches
<1> DEFINE R == (S \cap T) \cup {b}
<1>1. b \in T
  BY NullAssumption DEF Within
<1>2. \A x \in R : p[x] # NULL => p[x] \in R
  BY <1>1 DEF Within
<1>3. R \in SUBSET Blocks /\ b \in R
  OBVIOUS
<1>4. T \subseteq R
  <2> HIDE DEF R
  <2> QED
    BY <1>2, <1>3 DEF Reaches
<1> QED
  BY <1>4

\* A block other than the head follows another.
LEMMA HasPredecessor ==
  ASSUME NEW p, NEW h, NEW T \in SUBSET Blocks, Within(p, h, T), Reaches(p, h, T),
         NEW b \in T, b # h
  PROVE  \E k \in T \ {b} : p[k] = b
<1> SUFFICES ASSUME \A k \in T \ {b} : p[k] # b PROVE FALSE
  OBVIOUS
<1> DEFINE R == T \ {b}
<1>1. (h # NULL => h \in R) /\ (\A x \in R : p[x] # NULL => p[x] \in R)
  BY DEF Within
<1>2. R \in SUBSET Blocks
  OBVIOUS
<1>3. T \subseteq R
  <2> HIDE DEF R
  <2> QED
    BY <1>1, <1>2 DEF Reaches
<1> QED
  BY <1>3

\* When the block after k, and after k only, is unlinked, nothing else is lost.
LEMMA ReachUnlinkAfter ==
  ASSUME NEW p, NEW q, NEW h, NEW T \in SUBSET Blocks, Within(p, h, T), Reaches(p, h, T),
         NEW b \in T, h # b, NEW k \in T \ {b}, \A x \in T : p[x] = b => x = k \/ x = b,
         p[k] = b, q[k] = p[b], \A x \in T \ {b, k} : q[x] = p[x]
  PROVE  Reaches(q, h, T \ {b})
<1> SUFFICES ASSUME NEW S \in SUBSET Blocks, h # NULL => h \in S,
                    \A x \in S : q[x] # NULL => q[x] \in S
             PROVE  T \ {b} \subseteq S
  BY DEF Reaches
<1>1. CASE k \in S
  <2> DEFINE R == (S \cap T) \cup {b}
  <2>1. (h # NULL => h \in R) /\ (\A x \in R : p[x] # NULL => p[x] \in R)
    BY <1>1 DEF Within
  <2>2. R \in SUBSET Blocks
    OBVIOUS
  <2>3. T \subseteq R
    <3> HIDE DEF R
    <3> QED
      BY <2>1, <2>2 DEF Reaches
  <2> QED
    BY <2>3
<1>2. CASE k \notin S
  <2> DEFINE R == (S \cap T) \ {b}
  <2>1. (h # NULL => h \in R) /\ (\A x \in R : p[x] # NULL => p[x] \in R)
    BY <1>2 DEF Within
  <2>2. R \in SUBSET Blocks
    OBVIOUS
  <2>3. T \subseteq R
    <3> HIDE DEF R
    <3> QED
      BY <2>1, <2>2 DEF Reaches
  <2> QED
    BY <2>3
<1> QED
  BY <1>1, <1>2

\* The neighbour conditions of IInv make every list one that its head can reach.
LEMMA ListsWithin ==
  ASSUME FreeInv, UsedInv
  PROVE  /\ \A c \in Classes : /\ Within(m_pPrev, m_pLast[c], CachedIn(c))
                               /\ CachedIn(c) \in SUBSET Blocks
         /\ Within(m_pPrev, m_pLastAlloced, Used) /\ Used \in SUBSET Blocks
BY DEF FreeInv, UsedInv, Within, CachedIn, Cached, Used

\* Unlinking the block a walk is at loses no other cached block.
LEMMA UnlinkReach ==
  ASSUME TypeOK, FreeInv, UsedInv, \A c \in Classes : Reaches(m_pPrev, m_pLast[c], CachedIn(c)),
         NEW c \in Classes, NEW b \in CachedIn(c), NEW k \in Blocks \cup {NULL}, k # b,
         k = NULL => b = m_pLast[c],
         k # NULL => k \in CachedIn(c) /\ m_pPrev[k] = b /\ b # m_pLast[c],
         Cached' = Cached \ {b},
         \A x \in Cached \ {b} : /\ m_size'[x] = m_size[x]
                                 /\ m_pPrev'[x] = IF x = k THEN m_pPrev[b] ELSE m_pPrev[x],
         \A d \in Classes : m_pLast'[d] = IF d = c /\ k = NULL THEN m_pPrev[b] ELSE m_pLast[d]
  PROVE  \A d \in Classes : Reaches(m_pPrev', m_pLast'[d], CachedIn(d)')
<1> USE NullAssumption
<1>1. b \in Blocks /\ b # NULL /\ ListOf(m_size[b]) = c
  BY DEF CachedIn, Cached
<1>2. \A d \in Classes : /\ CachedIn(d)' = CachedIn(d) \ {b}
                         /\ CachedIn(d) \subseteq Cached
  BY DEF CachedIn
<1> SUFFICES ASSUME NEW d \in Classes PROVE Reaches(m_pPrev', m_pLast'[d], CachedIn(d)')
  OBVIOUS
<1>3. /\ Within(m_pPrev, m_pLast[d], CachedIn(d)) /\ CachedIn(d) \in SUBSET Blocks
      /\ Reaches(m_pPrev, m_pLast[d], CachedIn(d))
  BY ListsWithin
<1>4. CASE d # c
  <2>1. CachedIn(d)' = CachedIn(d) /\ m_pLast'[d] = m_pLast[d] /\ b \notin CachedIn(d)
    BY <1>1, <1>2, <1>4 DEF CachedIn
  <2>2. \A x \in CachedIn(d) : m_pPrev'[x] = m_pPrev[x]
    <3> SUFFICES ASSUME NEW x \in CachedIn(d) PROVE m_pPrev'[x] = m_pPrev[x]
      OBVIOUS
    <3>1. x \in Cached \ {b} /\ x # NULL /\ ListOf(m_size[x]) = d
      BY <1>2, <2>1 DEF CachedIn, Cached
    <3>2. k # NULL => ListOf(m_size[k]) = c
      BY DEF CachedIn
    <3> QED
      BY <1>4, <3>1, <3>2
  <2> QED
    BY <1>3, <2>1, <2>2, ReachSame
<1>5. CASE d = c /\ k = NULL
  <2>1. m_pLast[d] = b /\ m_pLast'[d] = m_pPrev[b] /\ CachedIn(d)' = CachedIn(d) \ {b}
    BY <1>2, <1>5
  <2>2. \A x \in CachedIn(d) \ {b} : m_pPrev'[x] = m_pPrev[x]
    BY <1>2, <1>5 DEF CachedIn, Cached
  <2> QED
    BY <1>1, <1>3, <2>1, <2>2, ReachUnlinkHead
<1>6. CASE d = c /\ k # NULL
  <2>1. m_pLast'[d] = m_pLast[d] /\ m_pLast[d] # b /\ CachedIn(d)' = CachedIn(d) \ {b}
    BY <1>2, <1>6
  <2>2. k \in CachedIn(d) \ {b} /\ m_pPrev[k] = b /\ m_pPrev'[k] = m_pPrev[b]
    BY <1>2, <1>6
  <2>3. \A x \in CachedIn(d) \ {b, k} : m_pPrev'[x] = m_pPrev[x]
    BY <1>2
  <2>4. \A x \in CachedIn(d) : m_pPrev[x] = b => x = k \/ x = b
    BY <1>1, <1>2, <2>2 DEF FreeInv
  <2> QED
    BY <1>3, <1>6, <2>1, <2>2, <2>3, <2>4, ReachUnlinkAfter
<1> QED
  BY <1>4, <1>5, <1>6

\* The block traced becomes the tail of the list of used blocks, from which the
\* others are reached.
LEMMA TraceReach ==
  ASSUME FreeInv, UsedInv, Reaches(m_pPrev, m_pLastAlloced, Used), NEW b \in Blocks, b \notin Used,
         NEW prev \in [Blocks -> Blocks \cup {NULL}], \A x \in Used : prev[x] = m_pPrev[x],
         Trace(b, prev), Used' = Used \cup {b}
  PROVE  Reaches(m_pPrev', m_pLastAlloced', Used')
<1>1. /\ \A x \in Used : m_pPrev'[x] = m_pPrev[x]
      /\ m_pPrev'[b] = m_pLastAlloced /\ m_pLastAlloced' = b
  BY DEF Trace, Used
<1>2. Within(m_pPrev, m_pLastAlloced, Used) /\ Used \in SUBSET Blocks
  BY ListsWithin
<1> QED
  BY <1>1, <1>2, ReachPush

-------------------------------------------------------------------------------
(* The steps that change the lists. *)

LEMMA TakeReach ==
  ASSUME TypeOK, FreeInv, RankInv, UsedInv, WalkInv, ReachInv, NEW t \in Threads, Take(t)
  PROVE  ReachInv'
<1> DEFINE b == cur[t]
           c == list[t]
           k == keep[t]
           prev == Unlinked(b, k, m_pLast[c])
<1> USE NullAssumption
<1>1. pc[t] = "scan" /\ b # NULL /\ c \in Classes /\ k \in Blocks \cup {NULL}
  BY DEF Take, TypeOK, CallsType
<1>2. /\ b \in CachedIn(c)
      /\ k = NULL => b = m_pLast[c]
      /\ k # NULL => k \in CachedIn(c) /\ m_pPrev[k] = b
  BY <1>1 DEF WalkInv
<1>3. b \in Cached /\ b \in Blocks /\ b \notin Used
  BY <1>2 DEF CachedIn, Cached, Used
<1>4. k # NULL => b # m_pLast[c]
  BY <1>2, <1>3 DEF FreeInv, CachedIn
<1>5. /\ Trace(b, prev) /\ m_size' = m_size
      /\ m_pLast' = [m_pLast EXCEPT ![c] = IF b = m_pLast[c] THEN m_pPrev[b] ELSE m_pLast[c]]
  BY DEF Take
<1>6. /\ prev \in [Blocks -> Blocks \cup {NULL}]
      /\ \A x \in Blocks \ {b} : prev[x] = IF x = k THEN m_pPrev[b] ELSE m_pPrev[x]
  BY <1>2, <1>3, <1>4 DEF Unlinked, TypeOK, BlocksType, CachedIn, Cached
<1>7. Cached' = Cached \ {b} /\ Used' = Used \cup {b}
  BY <1>3, <1>5 DEF Trace, Cached, Used, TypeOK, BlocksType
<1>8. \A d \in Classes : Reaches(m_pPrev', m_pLast'[d], CachedIn(d)')
  <2>1. \A x \in Cached \ {b} : /\ m_size'[x] = m_size[x]
                                /\ m_pPrev'[x] = IF x = k THEN m_pPrev[b] ELSE m_pPrev[x]
    BY <1>5, <1>6 DEF Trace, Cached
  <2>2. \A d \in Classes : m_pLast'[d] = IF d = c /\ k = NULL THEN m_pPrev[b] ELSE m_pLast[d]
    BY <1>1, <1>2, <1>4, <1>5 DEF TypeOK, ListsType
  <2>3. k # b
    <3>1. k # NULL => k \in Cached /\ m_pPrev[k] = b
      BY <1>2 DEF CachedIn
    <3> QED
      BY <1>1, <1>3, <1>7, <2>1, <3>1, UnlinkRank
  <2> QED
    BY <1>1, <1>2, <1>4, <1>7, <2>1, <2>2, <2>3, UnlinkReach DEF ReachInv
<1>9. Reaches(m_pPrev', m_pLastAlloced', Used')
  <2>1. \A x \in Used : prev[x] = m_pPrev[x]
    BY <1>2, <1>3, <1>6 DEF Used, CachedIn, Cached
  <2> QED
    BY <1>3, <1>5, <1>6, <1>7, <2>1, TraceReach DEF ReachInv
<1> QED
  BY <1>8, <1>9 DEF ReachInv

LEMMA MallocReach ==
  ASSUME TypeOK, FreeInv, UsedInv, ReachInv, NEW t \in Threads, NEW b \in Blocks, Malloc(t, b)
  PROVE  ReachInv'
<1>1. b \notin Used /\ b \notin Cached
  BY DEF Malloc, Fresh, Used, Cached
<1>2. /\ Trace(b, m_pPrev) /\ m_pLast' = m_pLast
      /\ m_size' = [m_size EXCEPT ![b] = BlockSize(req[t])]
  BY DEF Malloc
<1>3. BlockSize(req[t]) \in Nat \ {0}
  BY BlockSizePositive DEF TypeOK, CallsType
<1>4. Cached' = Cached /\ Used' = Used \cup {b}
  BY <1>1, <1>2, <1>3 DEF Trace, Cached, Used, TypeOK, BlocksType
<1>5. ASSUME NEW d \in Classes PROVE Reaches(m_pPrev', m_pLast'[d], CachedIn(d)')
  <2>1. \A x \in Cached : m_pPrev'[x] = m_pPrev[x] /\ m_size'[x] = m_size[x]
    BY <1>1, <1>2 DEF Trace, Cached, TypeOK, BlocksType
  <2>2. CachedIn(d)' = CachedIn(d) /\ \A x \in CachedIn(d) : m_pPrev'[x] = m_pPrev[x]
    BY <1>4, <2>1 DEF CachedIn
  <2>3. /\ Within(m_pPrev, m_pLast[d], CachedIn(d)) /\ CachedIn(d) \in SUBSET Blocks
        /\ Reaches(m_pPrev, m_pLast[d], CachedIn(d))
    BY ListsWithin DEF ReachInv
  <2> QED
    BY <1>2, <2>2, <2>3, ReachSame
<1>6. Reaches(m_pPrev', m_pLastAlloced', Used')
  BY <1>1, <1>2, <1>4, TraceReach DEF ReachInv, TypeOK, BlocksType
<1> QED
  BY <1>5, <1>6 DEF ReachInv

LEMMA FreeReach ==
  ASSUME TypeOK, FreeInv, UsedInv, OwnInv, ReachInv, NEW t \in Threads, Free(t)
  PROVE  ReachInv'
<1> DEFINE b == arg[t]
           c == ListOf(m_size[b])
<1> USE NullAssumption
<1>1. pc[t] = "free" /\ b \in Blocks /\ b # NULL
  BY DEF Free, TypeOK, CallsType
<1>2. b \in Used /\ b \notin Cached
  BY <1>1 DEF OwnInv, Held, InHand, Used, Cached
<1>3. c \in Classes
  BY <1>1, ListOfType
<1>4. /\ m_size' = m_size
      /\ m_bUsedFlag' = [m_bUsedFlag EXCEPT ![b] = FALSE]
      /\ m_pPrev' = [x \in Blocks |-> IF x = b THEN m_pLast[c]
                                      ELSE IF x = m_pNext[b] THEN m_pPrev[b] ELSE m_pPrev[x]]
      /\ m_pLastAlloced' = IF b = m_pLastAlloced THEN m_pPrev[b] ELSE m_pLastAlloced
      /\ m_pLast' = [m_pLast EXCEPT ![c] = b]
  BY DEF Free
<1>5. Cached' = Cached \cup {b} /\ Used' = Used \ {b}
  BY <1>1, <1>2, <1>4 DEF Cached, Used, TypeOK, BlocksType
<1>6. \A x \in Cached : m_pPrev'[x] = m_pPrev[x] /\ x # b
  BY <1>1, <1>2, <1>4 DEF UsedInv, Used, Cached
<1>7. ASSUME NEW d \in Classes PROVE Reaches(m_pPrev', m_pLast'[d], CachedIn(d)')
  <2>1. CachedIn(d)' = IF d = c THEN CachedIn(d) \cup {b} ELSE CachedIn(d)
    BY <1>4, <1>5 DEF CachedIn
  <2>2. m_pPrev'[b] = m_pLast[c] /\ m_pLast'[d] = IF d = c THEN b ELSE m_pLast[d]
    BY <1>1, <1>3, <1>4 DEF TypeOK, ListsType
  <2>3. \A x \in CachedIn(d) : m_pPrev'[x] = m_pPrev[x]
    BY <1>6 DEF CachedIn
  <2>4. /\ Within(m_pPrev, m_pLast[d], CachedIn(d)) /\ CachedIn(d) \in SUBSET Blocks
        /\ Reaches(m_pPrev, m_pLast[d], CachedIn(d))
    BY ListsWithin DEF ReachInv
  <2>5. CASE d = c
    BY <1>1, <2>1, <2>2, <2>3, <2>4, <2>5, ReachPush
  <2>6. CASE d # c
    BY <2>1, <2>2, <2>3, <2>4, <2>6, ReachSame
  <2> QED
    BY <2>5, <2>6
<1>8. Reaches(m_pPrev', m_pLastAlloced', Used')
  <2>1. /\ Within(m_pPrev, m_pLastAlloced, Used) /\ Used \in SUBSET Blocks
        /\ Reaches(m_pPrev, m_pLastAlloced, Used)
    BY ListsWithin DEF ReachInv
  <2>2. \A x \in Used : m_pPrev[x] = b => x = m_pNext[b]
    BY <1>1 DEF UsedInv
  <2>3. CASE b = m_pLastAlloced
    <3>1. \A x \in Used \ {b} : m_pPrev'[x] = m_pPrev[x]
      BY <1>1, <1>4, <2>3 DEF UsedInv, Used
    <3> QED
      BY <1>1, <1>4, <1>5, <2>1, <2>3, <3>1, ReachUnlinkHead
  <2>4. CASE b # m_pLastAlloced
    <3>1. PICK k \in Used \ {b} : m_pPrev[k] = b
      BY <1>2, <2>1, <2>4, HasPredecessor
    <3>2. k = m_pNext[b] /\ m_pPrev'[k] = m_pPrev[b]
      BY <1>4, <2>2, <3>1 DEF Used
    <3>3. \A x \in Used \ {b, k} : m_pPrev'[x] = m_pPrev[x]
      BY <1>4, <3>2 DEF Used
    <3> QED
      BY <1>2, <1>4, <1>5, <2>1, <2>2, <2>4, <3>1, <3>2, <3>3, ReachUnlinkAfter
  <2> QED
    BY <2>3, <2>4
<1> QED
  BY <1>7, <1>8 DEF ReachInv

LEMMA SweepFreeReach ==
  ASSUME TypeOK, FreeInv, RankInv, UsedInv, WalkInv, ReachInv, NEW t \in Threads, SweepFree(t)
  PROVE  ReachInv'
<1> DEFINE b == cur[t]
           c == list[t]
           k == keep[t]
<1> USE NullAssumption
<1>1. pc[t] = "sweep" /\ b # NULL /\ c \in Classes /\ k \in Blocks \cup {NULL}
  BY DEF SweepFree, TypeOK, CallsType
<1>2. /\ b \in CachedIn(c)
      /\ k = NULL => b = m_pLast[c]
      /\ k # NULL => k \in CachedIn(c) /\ m_pPrev[k] = b
  BY <1>1 DEF WalkInv
<1>3. b \in Cached /\ b \in Blocks /\ b \notin Used
  BY <1>2 DEF CachedIn, Cached, Used
<1>4. k # NULL => b # m_pLast[c]
  BY <1>2, <1>3 DEF FreeInv, CachedIn
<1>5. /\ m_pLast' = [m_pLast EXCEPT ![c] = IF b = m_pLast[c] THEN m_pPrev[b] ELSE m_pLast[c]]
      /\ m_pPrev' = [x \in Blocks |-> IF x = b THEN NULL
                                      ELSE IF x = k THEN m_pPrev[b] ELSE m_pPrev[x]]
      /\ m_size' = [m_size EXCEPT ![b] = 0]
      /\ UNCHANGED <<m_pLastAlloced, m_bUsedFlag>>
  BY DEF SweepFree
<1>6. Cached' = Cached \ {b} /\ Used' = Used
  BY <1>3, <1>5 DEF Cached, Used, TypeOK, BlocksType
<1>7. \A x \in Cached \ {b} : /\ m_size'[x] = m_size[x]
                              /\ m_pPrev'[x] = IF x = k THEN m_pPrev[b] ELSE m_pPrev[x]
  BY <1>5 DEF Cached, TypeOK, BlocksType
<1>8. \A d \in Classes : m_pLast'[d] = IF d = c /\ k = NULL THEN m_pPrev[b] ELSE m_pLast[d]
  BY <1>1, <1>2, <1>4, <1>5 DEF TypeOK, ListsType
<1>9. \A d \in Classes : Reaches(m_pPrev', m_pLast'[d], CachedIn(d)')
  <2>1. k # NULL => k \in Cached /\ m_pPrev[k] = b
    BY <1>2 DEF CachedIn
  <2>2. k # b
    BY <1>1, <1>3, <1>6, <1>7, <2>1, UnlinkRank
  <2> QED
    BY <1>1, <1>2, <1>4, <1>6, <1>7, <1>8, <2>2, UnlinkReach DEF ReachInv
<1>10. Reaches(m_pPrev', m_pLastAlloced', Used')
  <2>1. \A x \in Used : m_pPrev'[x] = m_pPrev[x]
    BY <1>2, <1>3, <1>5 DEF Used, CachedIn, Cached
  <2>2. /\ Within(m_pPrev, m_pLastAlloced, Used) /\ Used \in SUBSET Blocks
        /\ Reaches(m_pPrev, m_pLastAlloced, Used)
    BY ListsWithin DEF ReachInv
  <2> QED
    BY <1>5, <1>6, <2>1, <2>2, ReachSame
<1> QED
  BY <1>9, <1>10 DEF ReachInv

\* What a step does that is neither of these: the lists are as they were.
LEMMA ReachFrame ==
  ASSUME ReachInv, UNCHANGED <<listVars, blockVars>>
  PROVE  ReachInv'
BY DEF ReachInv, CachedIn, Cached, Used, listVars, blockVars

\* Every step of a live allocator keeps every block within reach of its list.
LEMMA ReachInvariance == TypeOK /\ IInv /\ (phase = "live" => ReachInv) /\ [Next]_vars
                           => (phase' = "live" => ReachInv')
<1> SUFFICES ASSUME TypeOK, IInv, phase = "live" => ReachInv, [Next]_vars, phase' = "live"
             PROVE  ReachInv'
  OBVIOUS
<1>1. CASE UNCHANGED vars
  BY <1>1, ReachFrame DEF vars
<1> SUFFICES ASSUME Next PROVE ReachInv'
  BY <1>1
<1>2. FreeInv /\ RankInv /\ UsedInv /\ WalkInv /\ OwnInv /\ ReachInv
  BY DEF IInv, Next
<1>3. ASSUME NEW t \in Threads, Call(t) \/ Step(t)
      PROVE  ReachInv'
  <2>1. CASE QuietStep(t)
    BY <1>2, <2>1, QuietLists, ReachFrame
  <2>2. CASE Take(t)
    BY <1>2, <2>2, TakeReach
  <2>3. CASE \E b \in Blocks : Malloc(t, b)
    BY <1>2, <2>3, MallocReach
  <2>4. CASE Free(t)
    BY <1>2, <2>4, FreeReach
  <2>5. CASE SweepFree(t)
    BY <1>2, <2>5, SweepFreeReach
  <2> QED
    BY <1>3, <2>1, <2>2, <2>3, <2>4, <2>5 DEF Call, Step, QuietStep
<1>4. CASE (\E flag \in BOOLEAN : SetMultiThread(flag)) \/ Tick
  BY <1>2, <1>4, ReachFrame DEF SetMultiThread, Tick
<1>5. CASE Destroy
  BY <1>5 DEF Destroy
<1> QED
  BY <1>3, <1>4, <1>5 DEF Next

\* From the start on, every list reaches its blocks.
LEMMA ReachAlways == Spec => [](phase = "live" => ReachInv)
<1>1. Init => (phase = "live" => ReachInv)
  <2> SUFFICES ASSUME Init PROVE ReachInv
    OBVIOUS
  <2>1. Used = {} /\ \A c \in Classes : CachedIn(c) = {}
    BY DEF Init, Used, CachedIn, Cached
  <2> QED
    BY <2>1 DEF ReachInv, Reaches
<1>2. TypeOK /\ IInv /\ (phase = "live" => ReachInv) /\ [Next]_vars
        => (phase = "live" => ReachInv)'
  BY ReachInvariance
<1> QED
  BY <1>1, <1>2, TypeCorrect, Invariant, PTL DEF Spec

\* A list that is reached from its head is what a walk meets.
LEMMA ChainIs ==
  ASSUME NEW h, NEW T \in SUBSET Blocks, Within(m_pPrev, h, T), Reaches(m_pPrev, h, T)
  PROVE  Chain(h) = T
<1>1. Chain(h) \subseteq T
  BY DEF Chain, Closed, Within
<1>2. T \subseteq Chain(h)
  BY DEF Chain, Closed, Reaches
<1> QED
  BY <1>1, <1>2

LEMMA ListsAre == IInv /\ (phase = "live" => ReachInv) => ListsExact
<1> SUFFICES ASSUME phase = "live", FreeInv, UsedInv, ReachInv PROVE ListsExact
  BY DEF IInv, ListsExact
<1>1. \A c \in Classes : Chain(m_pLast[c]) = CachedIn(c)
  BY ListsWithin, ChainIs DEF ReachInv
<1>2. Chain(m_pLastAlloced) = Used
  BY ListsWithin, ChainIs DEF ReachInv
<1> QED
  BY <1>1, <1>2 DEF ListsExact

\* Walking a list of the allocator always meets exactly the blocks that belong on
\* it, whatever was taken, freed and swept before, and by whom.
THEOREM ListsKept == Spec => []ListsExact
BY ListsAre, Invariant, ReachAlways, PTL

\* What the destructor meets on the lists is all the memory the allocator has.
LEMMA DestroyAll ==
  ASSUME TypeOK, ListsExact, phase = "live", Destroy
  PROVE  \A b \in Blocks : m_size'[b] = 0
<1>1. FreeListBlocks = UNION {CachedIn(c) : c \in Classes} /\ Chain(m_pLastAlloced) = Used
  BY DEF FreeListBlocks, ListsExact
<1>2. Cached \subseteq FreeListBlocks
  <2> SUFFICES ASSUME NEW b \in Cached PROVE b \in FreeListBlocks
    OBVIOUS
  <2>1. b \in CachedIn(ListOf(m_size[b])) /\ ListOf(m_size[b]) \in Classes
    BY ListOfType DEF CachedIn, Cached
  <2> QED
    BY <1>1, <2>1
<1>3. \A b \in Blocks : m_size'[b] = IF b \in FreeListBlocks \cup Used THEN 0 ELSE m_size[b]
  BY <1>1 DEF Destroy
<1> QED
  BY <1>2, <1>3 DEF Cached, Used, TypeOK, BlocksType

\* No step but the destructor's ends the allocator normally.
LEMMA OnlyDestroy ==
  ASSUME TypeOK, Next, ~Destroy
  PROVE  phase' # "destroyed"
<1>0. phase = "live"
  BY DEF Next
<1>1. ASSUME NEW t \in Threads, Call(t) \/ Step(t)
      PROVE  phase' # "destroyed"
  <2>1. CASE QuietStep(t)
    BY <1>0, <2>1, QuietLists
  <2>2. CASE Take(t) \/ (\E b \in Blocks : Malloc(t, b)) \/ Free(t) \/ SweepFree(t)
    BY <1>0, <2>2 DEF Take, Malloc, Free, SweepFree, AssertHolds
  <2> QED
    BY <1>1, <2>1, <2>2 DEF Call, Step, QuietStep
<1>2. CASE (\E flag \in BOOLEAN : SetMultiThread(flag)) \/ Tick
  BY <1>0, <1>2 DEF SetMultiThread, Tick
<1> QED
  BY <1>1, <1>2 DEF Next

\* The destructor returns every block to the system, those the clients forgot too.
THEOREM DestroyedEmpty == Spec => []NothingLeftBehind
<1>1. Init => NothingLeftBehind
  BY DEF Init, NothingLeftBehind
<1>2. TypeOK /\ ListsExact /\ NothingLeftBehind /\ [Next]_vars => NothingLeftBehind'
  <2> SUFFICES ASSUME TypeOK, ListsExact, NothingLeftBehind, [Next]_vars
               PROVE  NothingLeftBehind'
    OBVIOUS
  <2>1. CASE UNCHANGED vars
    BY <2>1 DEF vars, blockVars, NothingLeftBehind, Fresh
  <2>2. CASE Next /\ Destroy
    BY <2>2, DestroyAll DEF Next, NothingLeftBehind, Fresh
  <2>3. CASE Next /\ ~Destroy
    BY <2>3, OnlyDestroy DEF NothingLeftBehind
  <2> QED
    BY <2>1, <2>2, <2>3
<1> QED
  BY <1>1, <1>2, TypeCorrect, ListsKept, PTL DEF Spec

-------------------------------------------------------------------------------
(* Refinement. *)

\* No block is held twice.
Apart == \A t, u \in Threads : t # u => Held(t) \cap Held(u) = {}

\* Who owns a block in BlockOwnership: the thread that holds it, or else the cache
\* or the system by its size.
OwnerRight ==
  \A b \in Blocks : /\ \A t \in Threads : b \in Held(t) => Owner[b] = t
                    /\ (\A t \in Threads : b \notin Held(t))
                         => Owner[b] = IF m_size[b] = 0 THEN "system" ELSE "cache"

LEMMA OwnerIs == Apart => OwnerRight
<1> SUFFICES ASSUME Apart, NEW b \in Blocks
             PROVE  /\ \A t \in Threads : b \in Held(t) => Owner[b] = t
                    /\ (\A t \in Threads : b \notin Held(t))
                         => Owner[b] = IF m_size[b] = 0 THEN "system" ELSE "cache"
  BY DEF OwnerRight
<1>1. ASSUME NEW t \in Threads, b \in Held(t) PROVE Owner[b] = t
  <2>1. \A u \in Threads : b \in Held(u) => u = t
    BY <1>1 DEF Apart
  <2> DEFINE o == CHOOSE u \in Threads : b \in Held(u)
  <2>2. o \in Threads /\ b \in Held(o)
    BY <1>1
  <2>3. Owner[b] = o
    BY <1>1 DEF Owner
  <2> QED
    BY <2>1, <2>2, <2>3
<1>2. ASSUME \A t \in Threads : b \notin Held(t)
      PROVE  Owner[b] = IF m_size[b] = 0 THEN "system" ELSE "cache"
  BY <1>2 DEF Owner
<1> QED
  BY <1>1, <1>2

LEMMA OwnerIsNext == Apart' => OwnerRight'
BY OwnerIs, PTL

\* A step that changes neither who holds what nor which blocks are the process's
\* changes no owner.
LEMMA OwnerSame ==
  ASSUME Apart, \A t \in Threads : Held(t)' = Held(t),
         \A b \in Blocks : m_size'[b] = m_size[b]
  PROVE  Owner' = Owner
<1>1. Apart'
  BY DEF Apart
<1>2. ASSUME NEW b \in Blocks PROVE Owner'[b] = Owner[b]
  <2>1. CASE \E t \in Threads : b \in Held(t)
    BY <1>1, <2>1, OwnerIs, OwnerIsNext DEF OwnerRight
  <2>2. CASE \A t \in Threads : b \notin Held(t)
    BY <1>1, <2>2, OwnerIs, OwnerIsNext DEF OwnerRight
  <2> QED
    BY <2>1, <2>2
<1>3. Owner = [b \in Blocks |-> Owner[b]] /\ Owner' = [b \in Blocks |-> Owner'[b]]
  BY DEF Owner
<1> QED
  BY <1>2, <1>3

\* If owners change for one block only, the new ones are the old ones but for it.
LEMMA OwnerExcept ==
  ASSUME Apart, Apart', NEW b \in Blocks,
         \A x \in Blocks \ {b}, t \in Threads : (x \in Held(t)') <=> x \in Held(t),
         \A x \in Blocks \ {b} : m_size'[x] = m_size[x]
  PROVE  Owner' = [Owner EXCEPT ![b] = Owner'[b]]
<1>1. ASSUME NEW x \in Blocks \ {b} PROVE Owner'[x] = Owner[x]
  <2>1. CASE \E t \in Threads : x \in Held(t)
    BY <2>1, OwnerIs, OwnerIsNext DEF OwnerRight
  <2>2. CASE \A t \in Threads : x \notin Held(t)
    BY <2>2, OwnerIs, OwnerIsNext DEF OwnerRight
  <2> QED
    BY <2>1, <2>2
<1>2. Owner = [x \in Blocks |-> Owner[x]] /\ Owner' = [x \in Blocks |-> Owner'[x]]
  BY DEF Owner
<1> QED
  BY <1>1, <1>2

\* Quiet steps move blocks only between a thread's code and its call.
LEMMA QuietHeld ==
  ASSUME TypeOK, OwnInv, NEW t \in Threads, QuietStep(t)
  PROVE  \A u \in Threads : Held(u)' = Held(u)
<1> USE NullAssumption DEF Held, InHand, Goto, TypeOK, CallsType
<1> DEFINE Same == \A u \in Threads : Held(u)' = Held(u)
<1>1. ASSUME NEW n \in Requests, AllocBuffer(t, n)
      PROVE  Same
  BY <1>1 DEF AllocBuffer, BeginAlloc, MayCall, clientVars
<1>2. ASSUME NEW b \in Blocks, NEW n \in Requests, ReAllocBuffer(t, b, n)
      PROVE  Same
  BY <1>2 DEF ReAllocBuffer, BeginAlloc, MayCall, clientVars
<1>3. ASSUME NEW b \in Blocks, FreeBuffer(t, b)
      PROVE  Same
  BY <1>3 DEF FreeBuffer, BeginFree, MayCall, localVars
<1>4. CASE CheckFreeBuffers(t)
  BY <1>4 DEF CheckFreeBuffers, MayCall, clientVars
<1>5. CASE AllocLock(t) \/ ScanNext(t) \/ SweepKeep(t)
  BY <1>5 DEF AllocLock, ScanNext, SweepKeep, clientVars
<1>6. CASE FreeLock(t)
  BY <1>6 DEF FreeLock, clientVars, localVars
<1>7. CASE Copy(t)
  <2>1. pc[t] = "copy" /\ arg[t] \in own[t] /\ cur[t] \notin own[t]
    BY <1>7 DEF Copy, OwnInv
  <2>2. /\ pc' = [pc EXCEPT ![t] = "release"] /\ arg' = [arg EXCEPT ![t] = arg[t]]
        /\ own' = [own EXCEPT ![t] = (own[t] \ {arg[t]}) \cup {cur[t]}]
        /\ \A u \in Threads \ {t} : cur'[u] = cur[u]
    BY <1>7 DEF Copy, BeginFree, Forget
  <2> QED
    BY <2>1, <2>2
<1>8. CASE SweepLock(t) \/ SweepNextList(t)
  <2>1. /\ pc[t] \in {"gc", "sweep"} /\ (pc' = pc \/ pc' = [pc EXCEPT ![t] = "sweep"])
        /\ \A u \in Threads \ {t} : cur'[u] = cur[u]
        /\ UNCHANGED <<arg, clientVars>>
    BY <1>8 DEF SweepLock, SweepNextList, StartList
  <2> QED
    BY <2>1 DEF clientVars
<1>9. CASE SweepEnd(t)
  BY <1>9 DEF SweepEnd, Forget, clientVars
<1> QED
  BY <1>1, <1>2, <1>3, <1>4, <1>5, <1>6, <1>7, <1>8, <1>9 DEF QuietStep

\* A delivered block is the thread's from then on.
LEMMA DeliverHeld ==
  ASSUME TypeOK, NEW t \in Threads, pc[t] = "scan", NEW b \in Blocks, Deliver(t, b), arg' = arg
  PROVE  /\ Held(t)' = Held(t) \cup {b}
         /\ \A u \in Threads \ {t} : Held(u)' = Held(u)
<1>1. \A u \in Threads \ {t} : Held(u)' = Held(u)
  BY DEF Deliver, Goto, Forget, Held, InHand, clientVars, TypeOK, CallsType
<1>2. Held(t)' = Held(t) \cup {b}
  BY DEF Deliver, Goto, Forget, Held, InHand, clientVars, TypeOK, CallsType
<1> QED
  BY <1>1, <1>2

\* To deliver a block that no thread held is to grant it.
LEMMA Granted ==
  ASSUME TypeOK, OwnInv, OwnInv', NEW t \in Threads, pc[t] = "scan", NEW b \in Blocks, b \notin Used,
         Deliver(t, b), arg' = arg, \A x \in Blocks \ {b} : m_size'[x] = m_size[x]
  PROVE  Ownership!Grant(t, b)
<1>1. Apart /\ Apart' /\ \A u \in Threads : b \notin Held(u)
  BY DEF OwnInv, Apart
<1>2. /\ Held(t)' = Held(t) \cup {b}
      /\ \A u \in Threads \ {t} : Held(u)' = Held(u)
  BY DeliverHeld
<1>3. Owner[b] \in {"cache", "system"} /\ Owner'[b] = t
  BY <1>1, <1>2, OwnerIs, OwnerIsNext DEF OwnerRight
<1>4. Owner' = [Owner EXCEPT ![b] = Owner'[b]]
  BY <1>1, <1>2, OwnerExcept
<1> QED
  BY <1>3, <1>4 DEF Ownership!Grant

\* To free a block is to give it back.
LEMMA GivenBack ==
  ASSUME TypeOK, OwnInv, OwnInv', NEW t \in Threads, Free(t)
  PROVE  Ownership!GiveBack(t, arg[t])
<1> DEFINE b == arg[t]
<1>1. /\ pc[t] = "free" /\ b \in Blocks
      /\ pc' = [pc EXCEPT ![t] = "idle"] /\ arg' = [arg EXCEPT ![t] = NULL]
      /\ UNCHANGED <<m_size, cur, own>>
  BY DEF Free, Goto, localVars, clientVars, TypeOK, CallsType
<1>2. Held(t)' = Held(t) \ {b} /\ b \in Held(t)
  BY <1>1 DEF OwnInv, Held, InHand, TypeOK, CallsType
<1>3. \A u \in Threads \ {t} : Held(u)' = Held(u)
  BY <1>1 DEF Held, InHand, TypeOK, CallsType
<1>4. Apart /\ Apart' /\ \A u \in Threads : b \notin Held(u)'
  BY <1>2, <1>3 DEF OwnInv, Apart
<1>5. m_size'[b] # 0
  BY <1>1, <1>2 DEF OwnInv, Used
<1>6. Owner[b] = t /\ Owner'[b] = "cache"
  BY <1>1, <1>2, <1>4, <1>5, OwnerIs, OwnerIsNext DEF OwnerRight
<1>7. Owner' = [Owner EXCEPT ![b] = Owner'[b]]
  <2>1. \A x \in Blocks \ {b}, u \in Threads : (x \in Held(u)') <=> x \in Held(u)
    BY <1>2, <1>3
  <2> QED
    BY <1>1, <1>4, <2>1, OwnerExcept
<1> QED
  BY <1>6, <1>7 DEF Ownership!GiveBack

\* To sweep a block away is to reclaim it.
LEMMA Reclaimed ==
  ASSUME TypeOK, WalkInv, OwnInv, OwnInv', NEW t \in Threads, SweepFree(t)
  PROVE  cur[t] \in Blocks /\ Ownership!Reclaim(cur[t])
<1> DEFINE b == cur[t]
<1>1. b \in Cached /\ b \in Blocks /\ b \notin Used
  BY DEF SweepFree, WalkInv, CachedIn, Cached, Used
<1>2. /\ m_size' = [m_size EXCEPT ![b] = 0]
      /\ cur' = [cur EXCEPT ![t] = m_pPrev[b]]
      /\ pc[t] = "sweep" /\ UNCHANGED <<pc, arg, own>>
  BY DEF SweepFree
<1>3. \A u \in Threads : Held(u)' = Held(u)
  BY <1>2 DEF Held, InHand, TypeOK, CallsType
<1>4. Apart /\ Apart' /\ \A u \in Threads : b \notin Held(u)
  BY <1>1 DEF OwnInv, Apart
<1>5. Owner[b] = "cache" /\ Owner'[b] = "system"
  BY <1>1, <1>2, <1>3, <1>4, OwnerIs, OwnerIsNext DEF OwnerRight, Cached, TypeOK, BlocksType
<1>6. Owner' = [Owner EXCEPT ![b] = Owner'[b]]
  BY <1>1, <1>2, <1>3, <1>4, OwnerExcept DEF TypeOK, BlocksType
<1> QED
  BY <1>1, <1>5, <1>6 DEF Ownership!Reclaim

\* To destroy the allocator is to shut it down.
LEMMA ShutDown ==
  ASSUME TypeOK, ListsExact, phase = "live", Destroy
  PROVE  Ownership!Shutdown
<1>1. \A b \in Blocks : m_size'[b] = 0
  BY DestroyAll
<1>2. \A t \in Threads : Held(t)' = {}
  BY DEF Destroy, Held, InHand
<1>3. \A b \in Blocks : Owner'[b] = "system"
  BY <1>1, <1>2, OwnerIsNext DEF OwnerRight, Apart
<1>4. Owner' = [b \in Blocks |-> Owner'[b]]
  BY DEF Owner
<1> QED
  BY <1>3, <1>4 DEF Ownership!Shutdown

\* Every step of the allocator is a step of BlockOwnership, or changes no owner.
LEMMA StepRefines ==
  TypeOK /\ IInv /\ ListsExact /\ [Next]_vars => [Ownership!Next]_Owner
<1> SUFFICES ASSUME TypeOK, IInv, ListsExact, [Next]_vars
             PROVE  Ownership!Next \/ Owner' = Owner
  OBVIOUS
<1>1. CASE UNCHANGED vars
  BY <1>1 DEF vars, blockVars, localVars, clientVars, Owner, Held, InHand
<1> SUFFICES ASSUME Next PROVE Ownership!Next \/ Owner' = Owner
  BY <1>1
<1>2. /\ LockInv /\ FreeInv /\ RankInv /\ UsedInv /\ WalkInv /\ OwnInv /\ ContentsInv
      /\ Apart /\ phase = "live"
  BY DEF IInv, Next, OwnInv, Apart
<1>3. ASSUME NEW t \in Threads, Call(t) \/ Step(t)
      PROVE  Ownership!Next \/ Owner' = Owner
  <2>1. CASE QuietStep(t)
    BY <1>2, <2>1, QuietHeld, QuietLists, OwnerSame DEF blockVars
  <2>2. CASE Take(t)
    <3>1. /\ cur[t] \in Blocks /\ cur[t] \notin Used /\ pc[t] = "scan"
          /\ Deliver(t, cur[t]) /\ arg' = arg /\ m_size' = m_size
      BY <1>2, <2>2 DEF Take, WalkInv, CachedIn, Cached, Used
    <3>2. OwnInv'
      BY <1>2, <2>2, TakeStep
    <3>3. Ownership!Grant(t, cur[t])
      BY <1>2, <3>1, <3>2, Granted
    <3> QED
      BY <3>1, <3>3 DEF Ownership!Next
  <2>3. ASSUME NEW b \in Blocks, Malloc(t, b)
        PROVE  Ownership!Next
    <3>1. /\ b \notin Used /\ pc[t] = "scan" /\ Deliver(t, b) /\ arg' = arg
          /\ \A x \in Blocks \ {b} : m_size'[x] = m_size[x]
      BY <2>3 DEF Malloc, Fresh, Used, TypeOK, BlocksType
    <3>2. OwnInv'
      BY <1>2, <2>3, MallocStep
    <3>3. Ownership!Grant(t, b)
      BY <1>2, <3>1, <3>2, Granted
    <3> QED
      BY <3>3 DEF Ownership!Next
  <2>4. CASE Free(t)
    <3>1. OwnInv' /\ arg[t] \in Blocks
      BY <1>2, <2>4, FreeStep DEF Free, TypeOK, CallsType
    <3>2. Ownership!GiveBack(t, arg[t])
      BY <1>2, <2>4, <3>1, GivenBack
    <3> QED
      BY <3>1, <3>2 DEF Ownership!Next
  <2>5. CASE SweepFree(t)
    <3>1. OwnInv'
      BY <1>2, <2>5, SweepFreeStep
    <3>2. cur[t] \in Blocks /\ Ownership!Reclaim(cur[t])
      BY <1>2, <2>5, <3>1, Reclaimed
    <3> QED
      BY <3>2 DEF Ownership!Next
  <2> QED
    BY <1>3, <2>1, <2>2, <2>3, <2>4, <2>5 DEF Call, Step, QuietStep
<1>4. CASE (\E flag \in BOOLEAN : SetMultiThread(flag)) \/ Tick
  <2>1. UNCHANGED <<m_size, pc, arg, cur, own>>
    BY <1>4 DEF SetMultiThread, Tick, blockVars, localVars, clientVars
  <2> QED
    BY <2>1 DEF Owner, Held, InHand
<1>5. CASE Destroy
  BY <1>2, <1>5, ShutDown DEF Ownership!Next
<1> QED
  BY <1>3, <1>4, <1>5 DEF Next

\* The allocator implements BlockOwnership, for any threads, blocks and requests.
THEOREM Implements == Spec => ImplementsOwnership
<1>1. Init => Ownership!Init
  <2> SUFFICES ASSUME Init PROVE Ownership!Init
    OBVIOUS
  <2>1. \A t \in Threads : Held(t) = {}
    BY DEF Init, Held, InHand
  <2>2. \A b \in Blocks : m_size[b] = 0
    BY DEF Init
  <2> QED
    BY <2>1, <2>2 DEF Ownership!Init, Owner
<1>2. TypeOK /\ IInv /\ ListsExact /\ [Next]_vars => [Ownership!Next]_Owner
  BY StepRefines
<1> QED
  BY <1>1, <1>2, TypeCorrect, Invariant, ListsKept, PTL
     DEF Spec, ImplementsOwnership, Ownership!Spec
-------------------------------------------------------------------------------
(* Sums over sets of blocks. *)

First(s) == CHOOSE x \in s : TRUE
\* One step of the recursion MapThenFoldSet makes: the first element and the sum of the rest.
SumFrom(f, w, s) == IF s = {} THEN 0 ELSE w[First(s)] + f[s \ {First(s)}]
\* f satisfies that recursion on every subset of S.
IsSum(f, w, S) == f = [s \in SUBSET S |-> SumFrom(f, w, s)]
\* f is the sum of w over the subsets of the finite set B.
SumOver(f, w, B) == IsFiniteSet(B) /\ w \in [B -> Nat] /\ f \in [SUBSET B -> Nat] /\ IsSum(f, w, B)
\* Any element may be the one added last.
Additive(f, w, B) == \A s \in SUBSET B : \A b \in s : f[s] = w[b] + f[s \ {b}]
Agree(v, w, S) == \A b \in S : v[b] = w[b]
SameSums(f, g, S) == \A s \in SUBSET S : f[s] = g[s]
Total(w, S) == (CHOOSE f : IsSum(f, w, S))[S]

LEMMA SumIsTotal ==
  ASSUME NEW S
  PROVE  SumSizes(S) = Total(m_size, S)
  BY DEF SumSizes, MapThenSumSet, MapThenFoldSet, Total, IsSum, SumFrom, First

\* There is no induction without operators as parameters, but a least counterexample.
LEMMA LeastOf ==
  ASSUME NEW S \in SUBSET Nat, S # {}
  PROVE  \E j \in S : \A k \in S : j <= k
<1>1. PICK R : R = OpToRel(<, Nat)
  OBVIOUS
<1>2. \A a, b \in Nat : <<a, b>> \in R <=> a < b
  BY <1>1 DEF OpToRel
<1>3. IsWellFoundedOn(R, Nat)
  BY <1>1, NatLessThanWellFounded
<1>4. PICK j \in S : \A k \in S : ~ (<<k, j>> \in R)
  BY <1>3, WFMin
<1>5. \A k \in S : j <= k
  <2>1. SUFFICES ASSUME NEW k \in S
                 PROVE  j <= k
    OBVIOUS
  <2>2. ~ (k < j) /\ k \in Nat /\ j \in Nat
    BY <1>2, <1>4
  <2> QED
    BY <2>2
<1> QED
  BY <1>5

LEMMA SmallestOf ==
  ASSUME NEW B, IsFiniteSet(B), NEW P \in SUBSET (SUBSET B), P # {}
  PROVE  \E s \in P : \A t \in P : Cardinality(s) <= Cardinality(t)
<1>1. \A t \in P : Cardinality(t) \in Nat
  BY FS_Subset, FS_CardinalityType
<1>2. PICK N : N = {Cardinality(t) : t \in P}
  OBVIOUS
<1>3. N \in SUBSET Nat /\ N # {}
  <2>1. \A n \in N : n \in Nat
    BY <1>1, <1>2
  <2>2. PICK t \in P : TRUE
    OBVIOUS
  <2>3. Cardinality(t) \in N
    BY <1>2, <2>2
  <2> QED
    BY <2>1, <2>3
<1>4. PICK n \in N : \A m \in N : n <= m
  BY <1>3, LeastOf
<1>5. PICK s \in P : n = Cardinality(s)
  BY <1>2
<1>6. \A t \in P : Cardinality(t) \in N
  BY <1>2
<1> QED
  BY <1>4, <1>5, <1>6

LEMMA Without ==
  ASSUME NEW B, IsFiniteSet(B), NEW s \in SUBSET B, NEW b \in s
  PROVE  /\ s \ {b} \in SUBSET B /\ Cardinality(s \ {b}) = Cardinality(s) - 1
         /\ Cardinality(s) \in Nat /\ Cardinality(s \ {b}) \in Nat
<1>1. IsFiniteSet(s) /\ s \ {b} \in SUBSET B
  BY FS_Subset
<1> QED
  BY <1>1, FS_RemoveElement, FS_CardinalityType, FS_Subset

LEMMA FirstIn ==
  ASSUME NEW s, s # {}
  PROVE  First(s) \in s
  BY DEF First

LEMMA SumExists ==
  ASSUME NEW B, IsFiniteSet(B), NEW w \in [B -> Nat]
  PROVE  \E f : SumOver(f, w, B)
<1> DEFINE Upto(f, n) == \A s \in SUBSET B : Cardinality(s) <= n => f[s] = SumFrom(f, w, s)
<1>1. PICK N : N = {n \in Nat : ~ \E f \in [SUBSET B -> Nat] : Upto(f, n)}
  OBVIOUS
<1>2. ASSUME NEW f \in [SUBSET B -> Nat]
      PROVE  /\ \A s \in SUBSET B : SumFrom(f, w, s) \in Nat
             /\ SumFrom(f, w, {}) = 0
  <2>1. ASSUME NEW s \in SUBSET B, s # {}
        PROVE  SumFrom(f, w, s) \in Nat
    <3>1. First(s) \in s /\ s \ {First(s)} \in SUBSET B
      BY <2>1, FirstIn
    <3>2. w[First(s)] \in Nat /\ f[s \ {First(s)}] \in Nat
      BY <3>1
    <3> QED
      BY <2>1, <3>2 DEF SumFrom
  <2> QED
    BY <2>1 DEF SumFrom
<1>3. N = {}
  <2>1. SUFFICES ASSUME N # {}
                 PROVE  FALSE
    OBVIOUS
  <2>2. PICK n \in N : \A m \in N : n <= m
    BY <1>1, <2>1, LeastOf
  <2>3. n \in Nat /\ ~ \E f \in [SUBSET B -> Nat] : Upto(f, n)
    BY <1>1, <2>2
  <2>4. n # 0
    <3>1. PICK f : f = [s \in SUBSET B |-> 0]
      OBVIOUS
    <3>2. f \in [SUBSET B -> Nat]
      BY <3>1
    <3>3. ASSUME NEW s \in SUBSET B, Cardinality(s) <= 0
          PROVE  f[s] = SumFrom(f, w, s)
      <4>1. s = {}
        BY <3>3, FS_Subset, FS_CardinalityType, FS_EmptySet
      <4> QED
        BY <1>2, <3>1, <3>2, <4>1
    <3> QED
      BY <2>3, <3>2, <3>3
  <2>5. n - 1 \in Nat /\ n - 1 \notin N
    BY <2>2, <2>3, <2>4
  <2>6. PICK f \in [SUBSET B -> Nat] : Upto(f, n - 1)
    BY <1>1, <2>5
  <2>7. PICK g : g = [s \in SUBSET B |-> SumFrom(f, w, s)]
    OBVIOUS
  <2>8. g \in [SUBSET B -> Nat]
    BY <1>2, <2>7
  <2>9. ASSUME NEW s \in SUBSET B, Cardinality(s) <= n
        PROVE  g[s] = SumFrom(g, w, s)
    <3>1. g[s] = SumFrom(f, w, s)
      BY <2>7
    <3>2. CASE s = {}
      BY <1>2, <2>8, <3>1, <3>2
    <3>3. CASE s # {}
      <4>1. PICK t : t = s \ {First(s)}
        OBVIOUS
      <4>2. First(s) \in s
        BY <3>3, FirstIn
      <4>3. t \in SUBSET B /\ Cardinality(t) <= n - 1
        BY <2>3, <2>9, <4>1, <4>2, Without
      <4>4. f[t] = SumFrom(f, w, t) /\ g[t] = SumFrom(f, w, t)
        BY <2>6, <2>7, <4>3
      <4> QED
        BY <3>1, <3>3, <4>1, <4>4 DEF SumFrom
    <3> QED
      BY <3>2, <3>3
  <2> QED
    BY <2>3, <2>8, <2>9
<1>4. Cardinality(B) \in Nat
  BY FS_CardinalityType
<1>5. PICK f \in [SUBSET B -> Nat] : Upto(f, Cardinality(B))
  BY <1>1, <1>3, <1>4
<1>6. \A s \in SUBSET B : f[s] = SumFrom(f, w, s)
  BY <1>5, FS_Subset
<1>7. IsSum(f, w, B)
  BY <1>6 DEF IsSum
<1> QED
  BY <1>7 DEF SumOver

\* Sums over the same blocks with the same sizes are the same.
LEMMA SumUnique ==
  ASSUME NEW B, NEW C, IsFiniteSet(B), B \subseteq C, NEW w, NEW v, Agree(w, v, B),
         NEW f, NEW g, IsSum(f, w, B), IsSum(g, v, C)
  PROVE  SameSums(f, g, B)
<1>1. PICK P : P = {s \in SUBSET B : f[s] # g[s]}
  OBVIOUS
<1>2. SUFFICES ASSUME P # {}
               PROVE  FALSE
  BY <1>1 DEF SameSums
<1>3. PICK s \in P : \A t \in P : Cardinality(s) <= Cardinality(t)
  <2>1. P \in SUBSET (SUBSET B) /\ P # {}
    BY <1>1, <1>2
  <2> QED
    BY <2>1, SmallestOf
<1>4. s \in SUBSET B /\ s \in SUBSET C /\ f[s] # g[s]
  BY <1>1, <1>3
<1>5. f[s] = SumFrom(f, w, s) /\ g[s] = SumFrom(g, v, s)
  BY <1>4 DEF IsSum
<1>6. s # {}
  BY <1>4, <1>5 DEF SumFrom
<1>7. PICK t : t = s \ {First(s)}
  OBVIOUS
<1>8. First(s) \in s
  BY <1>6, FirstIn
<1>9. t \in SUBSET B /\ Cardinality(t) < Cardinality(s) /\ Cardinality(t) \in Nat
      /\ Cardinality(s) \in Nat
  BY <1>4, <1>7, <1>8, Without
<1>10. f[t] = g[t]
  BY <1>1, <1>3, <1>9
<1> QED
  BY <1>4, <1>5, <1>6, <1>7, <1>8, <1>10 DEF SumFrom, Agree

\* The order of a sum does not matter.
LEMMA SumAny ==
  ASSUME NEW B, NEW w, NEW f, SumOver(f, w, B)
  PROVE  Additive(f, w, B)
<1> USE DEF SumOver
<1> DEFINE Right(s) == \A b \in s : f[s] = w[b] + f[s \ {b}]
<1>1. PICK P : P = {s \in SUBSET B : ~ Right(s)}
  OBVIOUS
<1>2. SUFFICES ASSUME P # {}
               PROVE  FALSE
  BY <1>1 DEF Additive
<1>3. PICK s \in P : \A t \in P : Cardinality(s) <= Cardinality(t)
  <2>1. P \in SUBSET (SUBSET B) /\ P # {}
    BY <1>1, <1>2
  <2> QED
    BY <2>1, SmallestOf
<1>4. s \in SUBSET B /\ ~ Right(s)
  BY <1>1, <1>3
<1>5. PICK b \in s : f[s] # w[b] + f[s \ {b}]
  BY <1>4
<1>6. PICK x : x = First(s)
  OBVIOUS
<1>7. x \in s /\ f[s] = w[x] + f[s \ {x}]
  BY <1>4, <1>5, <1>6, FirstIn DEF IsSum, SumFrom
<1>8. x # b
  BY <1>5, <1>7
<1>9. PICK u, v, r : u = s \ {x} /\ v = s \ {b} /\ r = s \ {x, b}
  OBVIOUS
<1>10. u \in SUBSET B /\ v \in SUBSET B /\ r \in SUBSET B /\ b \in u /\ x \in v /\ r = u \ {b}
       /\ r = v \ {x}
  BY <1>4, <1>5, <1>7, <1>8, <1>9
<1>11. u \notin P /\ v \notin P
  <2>1. Cardinality(u) < Cardinality(s) /\ Cardinality(v) < Cardinality(s)
        /\ Cardinality(s) \in Nat /\ Cardinality(u) \in Nat /\ Cardinality(v) \in Nat
    BY <1>4, <1>5, <1>7, <1>9, Without
  <2> QED
    BY <1>3, <2>1
<1>12. f[u] = w[b] + f[r] /\ f[v] = w[x] + f[r]
  BY <1>1, <1>10, <1>11
<1>13. f[r] \in Nat /\ w[b] \in Nat /\ w[x] \in Nat
  BY <1>4, <1>5, <1>7, <1>10
<1> QED
  BY <1>5, <1>7, <1>9, <1>12, <1>13

LEMMA TotalIs ==
  ASSUME NEW B, NEW w, NEW f, SumOver(f, w, B), NEW S, S \subseteq B, NEW v, Agree(v, w, S)
  PROVE  Total(v, S) = f[S]
<1>1. IsFiniteSet(S)
  BY FS_Subset DEF SumOver
<1>2. PICK u : u = [b \in S |-> w[b]]
  OBVIOUS
<1>3. u \in [S -> Nat]
  BY <1>2 DEF SumOver
<1>4. PICK h : SumOver(h, u, S)
  BY <1>1, <1>3, SumExists
<1>5. ASSUME NEW s \in SUBSET S
      PROVE  SumFrom(h, u, s) = SumFrom(h, v, s)
  BY <1>2, FirstIn DEF SumFrom, Agree
<1>6. IsSum(h, v, S)
  BY <1>4, <1>5 DEF IsSum, SumOver
<1>7. PICK g : g = CHOOSE q : IsSum(q, v, S)
  OBVIOUS
<1>8. IsSum(g, v, S) /\ IsSum(f, w, B)
  BY <1>6, <1>7 DEF SumOver
<1>9. SameSums(g, f, S)
  <2>1. IsFiniteSet(S) /\ S \subseteq B /\ Agree(v, w, S) /\ IsSum(g, v, S) /\ IsSum(f, w, B)
    BY <1>1, <1>8
  <2> QED
    BY <2>1, SumUnique
<1> QED
  BY <1>7, <1>9 DEF Total, SameSums

LEMMA Totals ==
  ASSUME NEW w \in [Blocks -> Nat], NEW v \in [Blocks -> Nat], NEW S \in SUBSET Blocks
  PROVE  /\ Total(w, S) \in Nat /\ Total(w, {}) = 0
         /\ (\A b \in S : v[b] = w[b]) => Total(v, S) = Total(w, S)
         /\ \A b \in S : Total(w, S) = w[b] + Total(w, S \ {b})
         /\ \A b \in Blocks \ S : Total(w, S \cup {b}) = w[b] + Total(w, S)
<1>1. PICK f : SumOver(f, w, Blocks)
  BY SumExists, BlocksAssumption
<1>2. ASSUME NEW T \in SUBSET Blocks
      PROVE  Total(w, T) = f[T]
  <2>1. T \subseteq Blocks /\ Agree(w, w, T)
    BY DEF Agree
  <2> QED
    BY <1>1, <2>1, TotalIs
<1>3. ASSUME \A b \in S : v[b] = w[b]
      PROVE  Total(v, S) = f[S]
  <2>1. S \subseteq Blocks /\ Agree(v, w, S)
    BY <1>3 DEF Agree
  <2> QED
    BY <1>1, <2>1, TotalIs
<1>4. \A T \in SUBSET Blocks : \A b \in T : f[T] = w[b] + f[T \ {b}]
  <2>1. Additive(f, w, Blocks)
    BY <1>1, SumAny
  <2> QED
    BY <2>1 DEF Additive
<1>5. {} \in SUBSET Blocks /\ f[{}] = 0 /\ f[S] \in Nat
  BY <1>1 DEF SumOver, IsSum, SumFrom
<1>6. ASSUME NEW b \in Blocks \ S
      PROVE  Total(w, S \cup {b}) = w[b] + Total(w, S)
  <2>1. S \cup {b} \in SUBSET Blocks /\ (S \cup {b}) \ {b} = S
    BY <1>6
  <2>2. f[S \cup {b}] = w[b] + f[S]
    BY <1>4, <2>1
  <2> QED
    BY <1>2, <2>1, <2>2
<1>7. ASSUME NEW b \in S
      PROVE  Total(w, S) = w[b] + Total(w, S \ {b})
  BY <1>2, <1>4
<1> QED
  BY <1>2, <1>3, <1>5, <1>6, <1>7

-------------------------------------------------------------------------------
(* The counters. They are right modulo SizeMod, and so right when the memory   *)
(* malloc has returned is less than that.                                      *)

Cong(x, y) == \E k \in Int : x = y + k * SizeMod

UsedIn(c) == {b \in Used : ListOf(m_size[b]) = c}
SuperBlocks == UsedIn(Super) \cup CachedIn(Super)

\* A super block's size is counted when it is freed, the size asked for when it is reused.
SumsInv ==
  /\ Cong(m_allocTotal, Total(m_size, Used))
  /\ \A c \in Classes \ {Super} : /\ Cong(m_szAlloced[c], Total(m_size, UsedIn(c)))
                                  /\ Cong(m_szFreed[c], Total(m_size, CachedIn(c)))
  /\ Cong(m_szAlloced[Super] + m_szFreed[Super], Total(m_size, SuperBlocks))

\* What a scan will not find it mallocs, and counts in the list it has looked at.
ScanInv == \A t \in Threads : pc[t] = "scan" => list[t] = ClassOf(req[t])

CountInv == phase = "live" => SumsInv /\ ScanInv

LEMMA Division ==
  \A x \in Int : /\ x % SizeMod \in 0 .. SizeMod - 1 /\ x \div SizeMod \in Int
                 /\ x = SizeMod * (x \div SizeMod) + (x % SizeMod)
BY SizeModAssumption

LEMMA CongPlus ==
  ASSUME NEW x \in Int, NEW y \in Int, NEW n \in Int, Cong(x, y)
  PROVE  Cong(Plus(x, n), y + n) /\ Cong(Minus(x, n), y - n)
<1>1. PICK k \in Int : x = y + k * SizeMod
  BY DEF Cong
<1>2. SizeMod \in Int
  BY SizeModAssumption
<1>3. PICK p, q : p = (x + n) \div SizeMod /\ q = (x - n) \div SizeMod
  OBVIOUS
<1>4. /\ p \in Int /\ x + n = SizeMod * p + Plus(x, n) /\ Plus(x, n) \in Int
      /\ q \in Int /\ x - n = SizeMod * q + Minus(x, n) /\ Minus(x, n) \in Int
  BY <1>3, Division, SizeModAssumption DEF Plus, Minus
<1>5. k - p \in Int /\ Plus(x, n) = (y + n) + (k - p) * SizeMod
  BY <1>1, <1>2, <1>4
<1>6. k - q \in Int /\ Minus(x, n) = (y - n) + (k - q) * SizeMod
  BY <1>1, <1>2, <1>4
<1> QED
  BY <1>5, <1>6 DEF Cong

\* What one counter of the super class gains the other loses.
LEMMA CongMove ==
  ASSUME NEW x \in Int, NEW z \in Int, NEW y \in Int, NEW n \in Int, Cong(x + z, y)
  PROVE  Cong(Plus(x, n) + Minus(z, n), y) /\ Cong(Minus(x, n) + Plus(z, n), y)
<1>1. PICK k \in Int : x + z = y + k * SizeMod
  BY DEF Cong
<1>2. SizeMod \in Int
  BY SizeModAssumption
<1>3. ASSUME NEW a \in Int, NEW b \in Int, a + b = x + z
      PROVE  Cong((a % SizeMod) + (b % SizeMod), y)
  <2>1. PICK p, q : p = a \div SizeMod /\ q = b \div SizeMod
    OBVIOUS
  <2>2. PICK r, s : r = a % SizeMod /\ s = b % SizeMod
    OBVIOUS
  <2>3. p \in Int /\ q \in Int /\ r \in Int /\ s \in Int /\ a = SizeMod * p + r /\ b = SizeMod * q + s
    BY <2>1, <2>2, Division
  <2>4. k - p - q \in Int /\ r + s = y + (k - p - q) * SizeMod
    BY <1>1, <1>2, <1>3, <2>3
  <2>5. Cong(r + s, y)
    BY <2>4 DEF Cong
  <2> QED
    BY <2>2, <2>5
<1>4. /\ x + n \in Int /\ z - n \in Int /\ (x + n) + (z - n) = x + z
      /\ x - n \in Int /\ z + n \in Int /\ (x - n) + (z + n) = x + z
  OBVIOUS
<1> QED
  BY <1>3, <1>4 DEF Plus, Minus

\* ... and one that gains or loses alone changes the sum of the two.
LEMMA CongOne ==
  ASSUME NEW x \in Int, NEW z \in Int, NEW y \in Int, NEW n \in Int, Cong(x + z, y)
  PROVE  Cong(Plus(x, n) + z, y + n) /\ Cong(x + Minus(z, n), y - n)
<1>1. PICK k \in Int : x + z = y + k * SizeMod
  BY DEF Cong
<1>2. SizeMod \in Int
  BY SizeModAssumption
<1>3. PICK p, q : p = (x + n) \div SizeMod /\ q = (z - n) \div SizeMod
  OBVIOUS
<1>4. /\ p \in Int /\ x + n = SizeMod * p + Plus(x, n) /\ Plus(x, n) \in Int
      /\ q \in Int /\ z - n = SizeMod * q + Minus(z, n) /\ Minus(z, n) \in Int
  BY <1>3, Division, SizeModAssumption DEF Plus, Minus
<1>5. k - p \in Int /\ Plus(x, n) + z = (y + n) + (k - p) * SizeMod
  BY <1>1, <1>2, <1>4
<1>6. k - q \in Int /\ x + Minus(z, n) = (y - n) + (k - q) * SizeMod
  BY <1>1, <1>2, <1>4
<1> QED
  BY <1>5, <1>6 DEF Cong

LEMMA CongEqual ==
  ASSUME NEW x \in Int, NEW y \in Int, Cong(x, y)
  PROVE  /\ x % SizeMod = y % SizeMod
         /\ x \in SizeT /\ y \in SizeT => x = y
<1>1. PICK k \in Int : x = y + k * SizeMod
  BY DEF Cong
<1>2. ASSUME NEW r \in SizeT, NEW s \in SizeT, NEW d \in Int, r = s + d * SizeMod
      PROVE  r = s
  <2>1. SizeMod \in Nat /\ SizeMod > 0 /\ r \in Int /\ s \in Int /\ r < SizeMod /\ s < SizeMod
        /\ r >= 0 /\ s >= 0
    BY SizeModAssumption DEF SizeT
  <2>2. CASE d >= 1
    <3>1. d * SizeMod >= SizeMod
      BY <2>1, <2>2
    <3> QED
      BY <1>2, <2>1, <3>1
  <2>3. CASE d <= -1
    <3>1. d * SizeMod <= -SizeMod
      BY <2>1, <2>3
    <3> QED
      BY <1>2, <2>1, <3>1
  <2>4. CASE d = 0
    BY <1>2, <2>1, <2>4
  <2> QED
    BY <2>2, <2>3, <2>4
<1>3. PICK p, q, r, s : p = x \div SizeMod /\ q = y \div SizeMod /\ r = x % SizeMod /\ s = y % SizeMod
  OBVIOUS
<1>4. /\ p \in Int /\ q \in Int /\ x = SizeMod * p + r /\ y = SizeMod * q + s /\ r \in SizeT
         /\ s \in SizeT
      /\ r \in Int /\ s \in Int /\ SizeMod \in Int
  BY <1>3, Division, SizeModAssumption DEF SizeT
<1>5. q + k - p \in Int /\ r = s + (q + k - p) * SizeMod
  BY <1>1, <1>4
<1>6. r = s
  BY <1>2, <1>4, <1>5
<1> QED
  BY <1>1, <1>2, <1>3, <1>6

\* One block's size changes, and the block may enter or leave a set.
Differ(v, w, b) == /\ w \in [Blocks -> Nat] /\ v \in [Blocks -> Nat] /\ b \in Blocks
                   /\ \A x \in Blocks \ {b} : v[x] = w[x]

TotalsChange(v, w, b) ==
  \A S \in SUBSET Blocks :
    /\ b \notin S => Total(v, S) = Total(w, S) /\ Total(v, S \cup {b}) = Total(w, S) + v[b]
    /\ b \in S => Total(v, S \ {b}) = Total(w, S) - w[b]

LEMMA TotalChange ==
  ASSUME NEW w, NEW v, NEW b, Differ(v, w, b)
  PROVE  TotalsChange(v, w, b)
<1> SUFFICES ASSUME NEW S \in SUBSET Blocks
             PROVE  /\ b \notin S => Total(v, S) = Total(w, S)
                       /\ Total(v, S \cup {b}) = Total(w, S) + v[b]
                    /\ b \in S => Total(v, S \ {b}) = Total(w, S) - w[b]
  BY DEF TotalsChange
<1> USE DEF Differ
<1>1. ASSUME NEW T \in SUBSET Blocks, \A x \in T : v[x] = w[x]
      PROVE  Total(v, T) = Total(w, T)
  BY <1>1, Totals
<1>0. \A x \in Blocks \ {b} : v[x] = w[x]
  OBVIOUS
<1>2. Total(w, S) \in Nat
  BY Totals
<1>3. ASSUME b \notin S
      PROVE  Total(v, S) = Total(w, S) /\ Total(v, S \cup {b}) = Total(w, S) + v[b]
  <2>1. Total(v, S) = Total(w, S)
    BY <1>0, <1>1, <1>3
  <2>2. Total(v, S \cup {b}) = v[b] + Total(v, S)
    BY <1>3, Totals
  <2> QED
    BY <1>2, <2>1, <2>2
<1>4. ASSUME b \in S
      PROVE  Total(v, S \ {b}) = Total(w, S) - w[b]
  <2>1. Total(w, S) = w[b] + Total(w, S \ {b})
    BY <1>4, Totals
  <2>2. Total(w, S \ {b}) \in Nat
    BY Totals
  <2>3. Total(v, S \ {b}) = Total(w, S \ {b})
    BY <1>0, <1>1
  <2> QED
    BY <2>1, <2>2, <2>3
<1> QED
  BY <1>2, <1>3, <1>4

\* The sets the counters are about.
LEMMA SetsType == /\ Used \in SUBSET Blocks /\ SuperBlocks \in SUBSET Blocks
                  /\ \A c \in Classes : UsedIn(c) \in SUBSET Blocks /\ CachedIn(c) \in SUBSET Blocks
                  /\ Super \in Classes
BY DEF Used, SuperBlocks, UsedIn, CachedIn, Cached, Classes

LEMMA SumsSame ==
  ASSUME SumsInv, UNCHANGED <<m_size, m_bUsedFlag, m_szAlloced, m_szFreed, m_allocTotal>>
  PROVE  SumsInv'
<1>1. /\ Used' = Used /\ SuperBlocks' = SuperBlocks
      /\ \A c \in Classes : UsedIn(c)' = UsedIn(c) /\ CachedIn(c)' = CachedIn(c)
  BY DEF Used, SuperBlocks, UsedIn, CachedIn, Cached
<1> QED
  BY <1>1 DEF SumsInv

LEMMA CountersInt ==
  ASSUME TypeOK
  PROVE  /\ m_allocTotal \in Int /\ m_size \in [Blocks -> Nat]
         /\ m_szAlloced \in [Classes -> Int] /\ m_szFreed \in [Classes -> Int]
         /\ \A S \in SUBSET Blocks : Total(m_size, S) \in Int
<1>1. SizeT \subseteq Int
  BY CountersType
<1>2. m_size \in [Blocks -> Nat]
  BY DEF TypeOK, BlocksType
<1>3. \A S \in SUBSET Blocks : Total(m_size, S) \in Int
  BY <1>2, Totals
<1>4. /\ m_allocTotal \in SizeT /\ m_szAlloced \in [Classes -> SizeT] /\ m_szFreed \in [Classes -> SizeT]
  BY DEF TypeOK, ListsType
<1> QED
  BY <1>1, <1>2, <1>3, <1>4

\* A cached block is reused: the total and the used blocks of its class gain it.
LEMMA TakeSums ==
  ASSUME TypeOK, WalkInv, SumsInv, NEW t \in Threads, Take(t)
  PROVE  SumsInv'
<1> USE NullAssumption
<1>0. PICK b, c, n : b = cur[t] /\ c = list[t] /\ n = IF c = Super THEN req[t] ELSE m_size[b]
  OBVIOUS
<1>1. /\ pc[t] = "scan" /\ b # NULL
      /\ m_bUsedFlag' = [m_bUsedFlag EXCEPT ![b] = TRUE] /\ m_size' = m_size
      /\ m_szFreed' = [m_szFreed EXCEPT ![c] = Minus(@, n)]
      /\ m_szAlloced' = [m_szAlloced EXCEPT ![c] = Plus(@, n)]
      /\ m_allocTotal' = Plus(m_allocTotal, m_size[b])
  BY <1>0 DEF Take, Trace
<1>2. c \in Classes /\ b \in CachedIn(c)
  BY <1>0, <1>1 DEF WalkInv, TypeOK, CallsType
<1>3. b \in Blocks /\ b \notin Used /\ ListOf(m_size[b]) = c
  BY <1>2 DEF CachedIn, Cached, Used
<1>4. m_size[b] \in Nat /\ n \in Int /\ (c # Super => n = m_size[b])
  BY <1>0, <1>3 DEF TypeOK, BlocksType, CallsType
<1>5. /\ Used' = Used \cup {b} /\ Cached' = Cached \ {b}
      /\ \A d \in Classes : /\ UsedIn(d)' = IF d = c THEN UsedIn(d) \cup {b} ELSE UsedIn(d)
                            /\ CachedIn(d)' = IF d = c THEN CachedIn(d) \ {b} ELSE CachedIn(d)
  <2>1. Used' = Used \cup {b} /\ Cached' = Cached \ {b}
    BY <1>1, <1>2, <1>3 DEF Used, Cached, CachedIn, TypeOK, BlocksType
  <2> QED
    BY <1>1, <1>3, <2>1 DEF UsedIn, CachedIn
<1>6. SuperBlocks' = SuperBlocks
  BY <1>2, <1>5, SetsType DEF SuperBlocks
<1>7. /\ Total(m_size, Used \cup {b}) = Total(m_size, Used) + m_size[b]
      /\ Total(m_size, UsedIn(c) \cup {b}) = Total(m_size, UsedIn(c)) + m_size[b]
      /\ Total(m_size, CachedIn(c) \ {b}) = Total(m_size, CachedIn(c)) - m_size[b]
  <2>1. b \notin UsedIn(c) /\ b \in CachedIn(c)
    BY <1>2, <1>3 DEF UsedIn
  <2>2. UsedIn(c) \in SUBSET Blocks /\ CachedIn(c) \in SUBSET Blocks /\ Used \in SUBSET Blocks
    BY <1>2, SetsType
  <2>3. TotalsChange(m_size, m_size, b)
    BY <1>3, CountersInt, TotalChange DEF Differ
  <2> QED
    BY <1>3, <2>1, <2>2, <2>3 DEF TotalsChange
<1>8. Cong(m_allocTotal', Total(m_size', Used'))
  BY <1>1, <1>4, <1>5, <1>7, SetsType, CountersInt, CongPlus DEF SumsInv
<1>9. ASSUME NEW d \in Classes \ {Super}
      PROVE  Cong(m_szAlloced'[d], Total(m_size', UsedIn(d)'))
             /\ Cong(m_szFreed'[d], Total(m_size', CachedIn(d)'))
  <2>1. CASE d # c
    BY <1>1, <1>2, <1>5, <2>1, CountersInt DEF SumsInv
  <2>2. CASE d = c
    <3>1. /\ Cong(m_szAlloced[c], Total(m_size, UsedIn(c)))
             /\ Cong(m_szFreed[c], Total(m_size, CachedIn(c)))
          /\ Total(m_size, UsedIn(c)) \in Int /\ Total(m_size, CachedIn(c)) \in Int
          /\ m_szAlloced[c] \in Int /\ m_szFreed[c] \in Int
      BY <1>2, <2>2, SetsType, CountersInt DEF SumsInv
    <3>2. /\ n = m_size[b] /\ m_szAlloced'[d] = Plus(m_szAlloced[c], n)
             /\ m_szFreed'[d] = Minus(m_szFreed[c], n)
      BY <1>1, <1>2, <1>4, <2>2, CountersInt
    <3>3. /\ Cong(m_szAlloced'[d], Total(m_size, UsedIn(c)) + n)
          /\ Cong(m_szFreed'[d], Total(m_size, CachedIn(c)) - n)
      BY <1>4, <3>1, <3>2, CongPlus
    <3>4. UsedIn(d)' = UsedIn(c) \cup {b} /\ CachedIn(d)' = CachedIn(c) \ {b}
      BY <1>5, <2>2
    <3> QED
      BY <1>1, <1>7, <3>2, <3>3, <3>4
  <2> QED
    BY <2>1, <2>2
<1>10. Cong(m_szAlloced'[Super] + m_szFreed'[Super], Total(m_size', SuperBlocks'))
  <2>1. CASE c # Super
    BY <1>1, <1>2, <1>6, <2>1, SetsType, CountersInt DEF SumsInv
  <2>2. CASE c = Super
    <3>1. m_szAlloced'[Super] = Plus(m_szAlloced[Super], n)
          /\ m_szFreed'[Super] = Minus(m_szFreed[Super], n)
      BY <1>1, <1>2, <2>2, CountersInt
    <3> QED
      BY <1>1, <1>4, <1>6, <3>1, SetsType, CountersInt, CongMove DEF SumsInv
  <2> QED
    BY <2>1, <2>2
<1> QED
  BY <1>8, <1>9, <1>10 DEF SumsInv

\* A block is freed: the total and the used blocks of its class lose it.
LEMMA FreeSums ==
  ASSUME TypeOK, OwnInv, SumsInv, NEW t \in Threads, Free(t)
  PROVE  SumsInv'
<1> USE NullAssumption
<1>0. PICK b, c, n : b = arg[t] /\ c = ListOf(m_size[b]) /\ n = m_size[b]
  OBVIOUS
<1>1. /\ pc[t] = "free" /\ m_size' = m_size
      /\ m_bUsedFlag' = [m_bUsedFlag EXCEPT ![b] = FALSE]
      /\ m_szFreed' = [m_szFreed EXCEPT ![c] = Plus(@, n)]
      /\ m_szAlloced' = [m_szAlloced EXCEPT ![c] = Minus(@, n)]
      /\ m_allocTotal' = Minus(m_allocTotal, n)
  BY <1>0 DEF Free
<1>2. b \in Used
  BY <1>0, <1>1 DEF OwnInv, Held, InHand
<1>3. b \in Blocks /\ b \notin Cached /\ ListOf(m_size[b]) = c /\ c \in Classes /\ b \in UsedIn(c)
  BY <1>0, <1>2, ListOfType DEF Cached, Used, UsedIn
<1>4. m_size[b] \in Nat /\ n \in Int /\ n = m_size[b]
  BY <1>0, <1>3 DEF TypeOK, BlocksType
<1>5. /\ Used' = Used \ {b} /\ Cached' = Cached \cup {b}
      /\ \A d \in Classes : /\ UsedIn(d)' = IF d = c THEN UsedIn(d) \ {b} ELSE UsedIn(d)
                            /\ CachedIn(d)' = IF d = c THEN CachedIn(d) \cup {b} ELSE CachedIn(d)
  <2>1. Used' = Used \ {b} /\ Cached' = Cached \cup {b}
    BY <1>1, <1>2, <1>3 DEF Used, Cached, TypeOK, BlocksType
  <2> QED
    BY <1>1, <1>3, <2>1 DEF UsedIn, CachedIn
<1>6. SuperBlocks' = SuperBlocks
  BY <1>3, <1>5, SetsType DEF SuperBlocks
<1>7. /\ Total(m_size, Used \ {b}) = Total(m_size, Used) - n
      /\ Total(m_size, UsedIn(c) \ {b}) = Total(m_size, UsedIn(c)) - n
      /\ Total(m_size, CachedIn(c) \cup {b}) = Total(m_size, CachedIn(c)) + n
  <2>1. b \in UsedIn(c) /\ b \notin CachedIn(c)
    BY <1>3 DEF CachedIn
  <2>2. UsedIn(c) \in SUBSET Blocks /\ CachedIn(c) \in SUBSET Blocks /\ Used \in SUBSET Blocks
    BY <1>3, SetsType
  <2>3. TotalsChange(m_size, m_size, b)
    BY <1>3, CountersInt, TotalChange DEF Differ
  <2> QED
    BY <1>2, <1>3, <1>4, <2>1, <2>2, <2>3 DEF TotalsChange
<1>8. Cong(m_allocTotal', Total(m_size', Used'))
  BY <1>1, <1>4, <1>5, <1>7, SetsType, CountersInt, CongPlus DEF SumsInv
<1>9. ASSUME NEW d \in Classes \ {Super}
      PROVE  Cong(m_szAlloced'[d], Total(m_size', UsedIn(d)'))
             /\ Cong(m_szFreed'[d], Total(m_size', CachedIn(d)'))
  <2>1. CASE d # c
    BY <1>1, <1>3, <1>5, <2>1, CountersInt DEF SumsInv
  <2>2. CASE d = c
    <3>1. /\ Cong(m_szAlloced[c], Total(m_size, UsedIn(c)))
             /\ Cong(m_szFreed[c], Total(m_size, CachedIn(c)))
          /\ Total(m_size, UsedIn(c)) \in Int /\ Total(m_size, CachedIn(c)) \in Int
          /\ m_szAlloced[c] \in Int /\ m_szFreed[c] \in Int
      BY <1>3, <2>2, SetsType, CountersInt DEF SumsInv
    <3>2. /\ m_szAlloced'[d] = Minus(m_szAlloced[c], n) /\ m_szFreed'[d] = Plus(m_szFreed[c], n)
      BY <1>1, <1>3, <1>4, <2>2, CountersInt
    <3>3. /\ Cong(m_szAlloced'[d], Total(m_size, UsedIn(c)) - n)
          /\ Cong(m_szFreed'[d], Total(m_size, CachedIn(c)) + n)
      BY <1>4, <3>1, <3>2, CongPlus
    <3>4. UsedIn(d)' = UsedIn(c) \ {b} /\ CachedIn(d)' = CachedIn(c) \cup {b}
      BY <1>5, <2>2
    <3> QED
      BY <1>1, <1>7, <3>3, <3>4
  <2> QED
    BY <2>1, <2>2
<1>10. Cong(m_szAlloced'[Super] + m_szFreed'[Super], Total(m_size', SuperBlocks'))
  <2>1. CASE c # Super
    BY <1>1, <1>3, <1>6, <2>1, SetsType, CountersInt DEF SumsInv
  <2>2. CASE c = Super
    <3>1. m_szAlloced'[Super] = Minus(m_szAlloced[Super], n)
          /\ m_szFreed'[Super] = Plus(m_szFreed[Super], n)
      BY <1>1, <1>3, <2>2, CountersInt
    <3> QED
      BY <1>1, <1>4, <1>6, <3>1, SetsType, CountersInt, CongMove DEF SumsInv
  <2> QED
    BY <2>1, <2>2
<1> QED
  BY <1>8, <1>9, <1>10 DEF SumsInv

\* The list a request is served from is the one its new block goes back to.
LEMMA ListOfBlockSize == \A n \in Nat : ListOf(BlockSize(n)) = ClassOf(n)
<1> TAKE n \in Nat
<1> USE DEF Small, Middle, Large, Super, SmallBufferSize, MiddleBufferSize, LargeBufferSize
<1>1. CASE ClassOf(n) # Super
  BY <1>1 DEF BlockSize, ClassOf, ListOf
<1>2. CASE ClassOf(n) = Super
  <2>1. BlockSize(n) >= n /\ BlockSize(n) \in Nat
    BY BlockSizeFits, BlockSizePositive
  <2>2. n > LargeBufferSize
    BY <1>2 DEF ClassOf
  <2> QED
    BY <1>2, <2>1, <2>2 DEF ListOf
<1> QED
  BY <1>1, <1>2

\* A block is malloc'ed: the total and the used blocks of its class gain it.
LEMMA MallocSums ==
  ASSUME TypeOK, SumsInv, ScanInv, NEW t \in Threads, NEW b \in Blocks, Malloc(t, b)
  PROVE  SumsInv'
<1>0. PICK c, n : c = list[t] /\ n = BlockSize(req[t])
  OBVIOUS
<1>1. /\ pc[t] = "scan" /\ m_size[b] = 0
      /\ m_bUsedFlag' = [m_bUsedFlag EXCEPT ![b] = TRUE] /\ m_size' = [m_size EXCEPT ![b] = n]
      /\ m_szFreed' = m_szFreed
      /\ m_szAlloced' = [m_szAlloced EXCEPT ![c] = Plus(@, n)]
      /\ m_allocTotal' = Plus(m_allocTotal, n)
  BY <1>0 DEF Malloc, Trace, Fresh
<1>2. c \in Classes /\ n \in Nat /\ n # 0 /\ ListOf(n) = c
  <2>1. req[t] \in Nat /\ c \in Classes
    BY <1>0 DEF TypeOK, CallsType
  <2>2. c = ClassOf(req[t])
    BY <1>0, <1>1 DEF ScanInv
  <2> QED
    BY <1>0, <2>1, <2>2, BlockSizePositive, ListOfBlockSize
<1>3. /\ b \notin Used /\ b \notin Cached
      /\ m_size' \in [Blocks -> Nat] /\ m_size'[b] = n /\ \A x \in Blocks \ {b} : m_size'[x] = m_size[x]
  BY <1>1, <1>2 DEF Used, Cached, TypeOK, BlocksType
<1>4. Used' = Used \cup {b} /\ Cached' = Cached
  BY <1>1, <1>2, <1>3 DEF Used, Cached, TypeOK, BlocksType
<1>5. /\ \A d \in Classes : /\ UsedIn(d)' = IF d = c THEN UsedIn(d) \cup {b} ELSE UsedIn(d)
                            /\ CachedIn(d)' = CachedIn(d)
                            /\ b \notin UsedIn(d) /\ b \notin CachedIn(d)
  <2>1. \A x \in Used \cup Cached : x # b /\ m_size'[x] = m_size[x]
    BY <1>3 DEF Used, Cached
  <2> QED
    BY <1>2, <1>3, <1>4, <2>1 DEF UsedIn, CachedIn
<1>6. /\ SuperBlocks' = IF c = Super THEN SuperBlocks \cup {b} ELSE SuperBlocks
      /\ b \notin SuperBlocks
  BY <1>5, SetsType DEF SuperBlocks
<1>7. ASSUME NEW S \in SUBSET Blocks, b \notin S
      PROVE  Total(m_size', S) = Total(m_size, S) /\ Total(m_size', S \cup {b}) = Total(m_size, S) + n
  <2>1. TotalsChange(m_size', m_size, b)
    BY <1>3, CountersInt, TotalChange DEF Differ
  <2> QED
    BY <1>3, <1>7, <2>1 DEF TotalsChange
<1>8. Cong(m_allocTotal', Total(m_size', Used'))
  <2>1. Cong(m_allocTotal', Total(m_size, Used) + n)
    BY <1>1, <1>2, SetsType, CountersInt, CongPlus DEF SumsInv
  <2> QED
    BY <1>3, <1>4, <1>7, <2>1, SetsType
<1>9. ASSUME NEW d \in Classes \ {Super}
      PROVE  Cong(m_szAlloced'[d], Total(m_size', UsedIn(d)'))
             /\ Cong(m_szFreed'[d], Total(m_size', CachedIn(d)'))
  <2>1. /\ Cong(m_szAlloced[d], Total(m_size, UsedIn(d)))
           /\ Cong(m_szFreed[d], Total(m_size, CachedIn(d)))
        /\ Total(m_size, UsedIn(d)) \in Int /\ m_szAlloced[d] \in Int
    BY SetsType, CountersInt DEF SumsInv
  <2>2. /\ Total(m_size', CachedIn(d)') = Total(m_size, CachedIn(d))
        /\ Total(m_size', UsedIn(d)) = Total(m_size, UsedIn(d))
        /\ Total(m_size', UsedIn(d) \cup {b}) = Total(m_size, UsedIn(d)) + n
    BY <1>5, <1>7, SetsType
  <2>3. CASE d # c
    <3>1. m_szAlloced'[d] = m_szAlloced[d] /\ m_szFreed'[d] = m_szFreed[d] /\ UsedIn(d)' = UsedIn(d)
      BY <1>1, <1>5, <2>3, CountersInt
    <3> QED
      BY <2>1, <2>2, <3>1
  <2>4. CASE d = c
    <3>1. m_szAlloced'[d] = Plus(m_szAlloced[d], n) /\ m_szFreed'[d] = m_szFreed[d]
          /\ UsedIn(d)' = UsedIn(d) \cup {b}
      BY <1>1, <1>5, <2>4, CountersInt
    <3>2. Cong(m_szAlloced'[d], Total(m_size, UsedIn(d)) + n)
      BY <1>2, <2>1, <3>1, CongPlus
    <3> QED
      BY <2>1, <2>2, <3>1, <3>2
  <2> QED
    BY <2>3, <2>4
<1>10. Cong(m_szAlloced'[Super] + m_szFreed'[Super], Total(m_size', SuperBlocks'))
  <2>1. /\ Cong(m_szAlloced[Super] + m_szFreed[Super], Total(m_size, SuperBlocks))
        /\ Total(m_size, SuperBlocks) \in Int /\ m_szAlloced[Super] \in Int /\ m_szFreed[Super] \in Int
    BY SetsType, CountersInt DEF SumsInv
  <2>2. /\ Total(m_size', SuperBlocks) = Total(m_size, SuperBlocks)
        /\ Total(m_size', SuperBlocks \cup {b}) = Total(m_size, SuperBlocks) + n
    BY <1>6, <1>7, SetsType
  <2>3. CASE c # Super
    <3>1. m_szAlloced'[Super] = m_szAlloced[Super] /\ m_szFreed'[Super] = m_szFreed[Super]
      BY <1>1, <2>3, SetsType, CountersInt
    <3> QED
      BY <1>6, <2>1, <2>2, <2>3, <3>1
  <2>4. CASE c = Super
    <3>1. m_szAlloced'[Super] = Plus(m_szAlloced[Super], n) /\ m_szFreed'[Super] = m_szFreed[Super]
      BY <1>1, <2>4, SetsType, CountersInt
    <3>2. Cong(m_szAlloced'[Super] + m_szFreed'[Super], Total(m_size, SuperBlocks) + n)
      BY <1>2, <2>1, <3>1, CongOne
    <3> QED
      BY <1>6, <2>2, <2>4, <3>2
  <2> QED
    BY <2>3, <2>4
<1> QED
  BY <1>8, <1>9, <1>10 DEF SumsInv

\* A cached block goes back to the system: its list's counter loses it.
LEMMA SweepSums ==
  ASSUME TypeOK, WalkInv, SumsInv, NEW t \in Threads, SweepFree(t)
  PROVE  SumsInv'
<1> USE NullAssumption
<1>0. PICK b, c, n : b = cur[t] /\ c = list[t] /\ n = m_size[b]
  OBVIOUS
<1>1. /\ pc[t] = "sweep" /\ b # NULL
      /\ m_bUsedFlag' = m_bUsedFlag /\ m_size' = [m_size EXCEPT ![b] = 0]
      /\ m_szFreed' = [m_szFreed EXCEPT ![c] = Minus(@, n)]
      /\ m_szAlloced' = m_szAlloced /\ m_allocTotal' = m_allocTotal
  BY <1>0 DEF SweepFree
<1>2. c \in Classes /\ b \in CachedIn(c)
  BY <1>0, <1>1 DEF WalkInv, TypeOK, CallsType
<1>3. /\ b \in Blocks /\ b \in Cached /\ b \notin Used /\ ListOf(n) = c /\ n \in Nat
      /\ m_size' \in [Blocks -> Nat] /\ m_size'[b] = 0 /\ \A x \in Blocks \ {b} : m_size'[x] = m_size[x]
  BY <1>0, <1>1, <1>2 DEF CachedIn, Cached, Used, TypeOK, BlocksType
<1>4. Used' = Used /\ Cached' = Cached \ {b}
  BY <1>1, <1>3 DEF Used, Cached
<1>5. /\ \A d \in Classes : /\ UsedIn(d)' = UsedIn(d) /\ b \notin UsedIn(d)
                            /\ CachedIn(d)' = IF d = c THEN CachedIn(d) \ {b} ELSE CachedIn(d)
                            /\ d # c => b \notin CachedIn(d)
  <2>1. \A x \in Used \cup (Cached \ {b}) : m_size'[x] = m_size[x]
    BY <1>3 DEF Used, Cached
  <2> QED
    BY <1>0, <1>3, <1>4, <2>1 DEF UsedIn, CachedIn
<1>6. /\ SuperBlocks' = IF c = Super THEN SuperBlocks \ {b} ELSE SuperBlocks
      /\ b \in SuperBlocks <=> c = Super
  BY <1>2, <1>5, SetsType DEF SuperBlocks
<1>7. ASSUME NEW S \in SUBSET Blocks
      PROVE  /\ b \notin S => Total(m_size', S) = Total(m_size, S)
             /\ b \in S => Total(m_size', S \ {b}) = Total(m_size, S) - n
  <2>1. TotalsChange(m_size', m_size, b)
    BY <1>3, CountersInt, TotalChange DEF Differ
  <2> QED
    BY <1>0, <2>1 DEF TotalsChange
<1>8. Cong(m_allocTotal', Total(m_size', Used'))
  BY <1>1, <1>3, <1>4, <1>7, SetsType DEF SumsInv
<1>9. ASSUME NEW d \in Classes \ {Super}
      PROVE  Cong(m_szAlloced'[d], Total(m_size', UsedIn(d)'))
             /\ Cong(m_szFreed'[d], Total(m_size', CachedIn(d)'))
  <2>1. /\ Cong(m_szAlloced[d], Total(m_size, UsedIn(d)))
           /\ Cong(m_szFreed[d], Total(m_size, CachedIn(d)))
        /\ Total(m_size, CachedIn(d)) \in Int /\ m_szFreed[d] \in Int
    BY SetsType, CountersInt DEF SumsInv
  <2>2. Cong(m_szAlloced'[d], Total(m_size', UsedIn(d)'))
    BY <1>1, <1>5, <1>7, <2>1, SetsType
  <2>3. CASE d # c
    <3>1. m_szFreed'[d] = m_szFreed[d] /\ CachedIn(d)' = CachedIn(d) /\ b \notin CachedIn(d)
      BY <1>1, <1>5, <2>3, CountersInt
    <3> QED
      BY <1>7, <2>1, <2>2, <3>1, SetsType
  <2>4. CASE d = c
    <3>1. m_szFreed'[d] = Minus(m_szFreed[d], n) /\ CachedIn(d)' = CachedIn(d) \ {b} /\ b \in CachedIn(d)
      BY <1>1, <1>2, <1>5, <2>4, CountersInt
    <3>2. Cong(m_szFreed'[d], Total(m_size, CachedIn(d)) - n)
      BY <1>3, <2>1, <3>1, CongPlus
    <3> QED
      BY <1>7, <2>2, <3>1, <3>2, SetsType
  <2> QED
    BY <2>3, <2>4
<1>10. Cong(m_szAlloced'[Super] + m_szFreed'[Super], Total(m_size', SuperBlocks'))
  <2>1. /\ Cong(m_szAlloced[Super] + m_szFreed[Super], Total(m_size, SuperBlocks))
        /\ Total(m_size, SuperBlocks) \in Int /\ m_szAlloced[Super] \in Int /\ m_szFreed[Super] \in Int
    BY SetsType, CountersInt DEF SumsInv
  <2>2. CASE c # Super
    <3>1. m_szFreed'[Super] = m_szFreed[Super]
      BY <1>1, <2>2, SetsType, CountersInt
    <3> QED
      BY <1>1, <1>6, <1>7, <2>1, <2>2, <3>1, SetsType
  <2>3. CASE c = Super
    <3>1. m_szFreed'[Super] = Minus(m_szFreed[Super], n)
      BY <1>1, <2>3, SetsType, CountersInt
    <3>2. Cong(m_szAlloced[Super] + Minus(m_szFreed[Super], n), Total(m_size, SuperBlocks) - n)
      BY <1>3, <2>1, CongOne
    <3> QED
      BY <1>1, <1>6, <1>7, <2>3, <3>1, <3>2, SetsType
  <2> QED
    BY <2>2, <2>3
<1> QED
  BY <1>8, <1>9, <1>10 DEF SumsInv

\* A thread begins to scan with the list of its request's class.
LEMMA ScanStep ==
  ASSUME TypeOK, ScanInv, NEW t \in Threads, Call(t) \/ Step(t)
  PROVE  ScanInv'
<1> USE DEF ScanInv, TypeOK, CallsType
<1>1. CASE (\E n \in Requests : AllocBuffer(t, n))
           \/ (\E b \in Blocks, n \in Requests : ReAllocBuffer(t, b, n))
  BY <1>1 DEF AllocBuffer, ReAllocBuffer, BeginAlloc, Goto
<1>2. CASE \E b \in Blocks : FreeBuffer(t, b)
  BY <1>2 DEF FreeBuffer, BeginFree, Goto, localVars
<1>3. CASE CheckFreeBuffers(t) \/ AllocLock(t) \/ ScanNext(t) \/ FreeLock(t)
  BY <1>3 DEF CheckFreeBuffers, AllocLock, ScanNext, FreeLock, Goto, localVars
<1>4. CASE Copy(t) \/ SweepLock(t)
  BY <1>4 DEF Copy, SweepLock, BeginFree, Goto, Forget, StartList
<1>5. CASE SweepKeep(t) \/ SweepNextList(t) \/ SweepEnd(t) \/ SweepFree(t)
  BY <1>5 DEF SweepKeep, SweepNextList, SweepEnd, SweepFree, Goto, Forget, StartList
<1>6. CASE Free(t)
  BY <1>6 DEF Free, Goto, localVars
<1>7. ASSUME NEW b, Deliver(t, b)
      PROVE  ScanInv'
  BY <1>7 DEF Deliver, Goto, Forget
<1>8. CASE Take(t) \/ \E b \in Blocks : Malloc(t, b)
  BY <1>7, <1>8 DEF Take, Malloc
<1> QED
  BY <1>1, <1>2, <1>3, <1>4, <1>5, <1>6, <1>8 DEF Call, Step

LEMMA QuietCounts ==
  ASSUME NEW t \in Threads, QuietStep(t)
  PROVE  UNCHANGED countVars
<1>1. CASE (\E n \in Requests : AllocBuffer(t, n))
           \/ (\E b \in Blocks, n \in Requests : ReAllocBuffer(t, b, n))
  BY <1>1 DEF AllocBuffer, ReAllocBuffer, BeginAlloc
<1>2. CASE (\E b \in Blocks : FreeBuffer(t, b)) \/ CheckFreeBuffers(t) \/ AllocLock(t)
           \/ ScanNext(t) \/ FreeLock(t)
  BY <1>2 DEF FreeBuffer, CheckFreeBuffers, AllocLock, ScanNext, FreeLock
<1>3. CASE Copy(t) \/ SweepLock(t) \/ SweepKeep(t) \/ SweepNextList(t) \/ SweepEnd(t)
  BY <1>3 DEF Copy, SweepLock, SweepKeep, SweepNextList, SweepEnd
<1> QED
  BY <1>1, <1>2, <1>3 DEF QuietStep

LEMMA CountInvariance == TypeOK /\ IInv /\ CountInv /\ [Next]_vars => CountInv'
<1> SUFFICES ASSUME TypeOK, IInv, CountInv, [Next]_vars, phase' = "live"
             PROVE  SumsInv' /\ ScanInv'
  BY DEF CountInv
<1>1. CASE UNCHANGED vars
  BY <1>1, SumsSame DEF vars, blockVars, countVars, localVars, CountInv, ScanInv
<1>2. ASSUME Next
      PROVE  SumsInv' /\ ScanInv'
  <2>1. WalkInv /\ OwnInv /\ SumsInv /\ ScanInv
    BY <1>2 DEF Next, IInv, CountInv
  <2>2. ASSUME NEW t \in Threads, Call(t) \/ Step(t)
        PROVE  SumsInv' /\ ScanInv'
    <3>1. CASE QuietStep(t)
      <4>1. UNCHANGED <<listVars, blockVars>> /\ UNCHANGED countVars
        BY <3>1, QuietLists, QuietCounts
      <4>2. SumsInv'
        BY <2>1, <4>1, SumsSame DEF blockVars, countVars
      <4> QED
        BY <2>1, <2>2, <4>2, ScanStep
    <3> QED
      BY <2>1, <2>2, <3>1, ScanStep, TakeSums, FreeSums, MallocSums, SweepSums DEF Call, Step, QuietStep
  <2>3. CASE (\E flag \in BOOLEAN : SetMultiThread(flag)) \/ Tick
    <3>1. UNCHANGED <<blockVars, countVars, pc, req, list>>
      BY <2>3 DEF SetMultiThread, Tick, localVars
    <3> QED
      BY <2>1, <3>1, SumsSame DEF blockVars, countVars, ScanInv
  <2>4. CASE Destroy
    BY <2>4 DEF Destroy
  <2> QED
    BY <1>2, <2>2, <2>3, <2>4 DEF Next
<1> QED
  BY <1>1, <1>2

LEMMA CountsAlways == Spec => []CountInv
<1>1. Init => CountInv
  <2>1. ASSUME Init
        PROVE  SumsInv
    <3>1. Used = {} /\ SuperBlocks = {} /\ \A c \in Classes : UsedIn(c) = {} /\ CachedIn(c) = {}
      BY <2>1, SetsType DEF Init, Used, SuperBlocks, UsedIn, CachedIn, Cached
    <3>2. Total(m_size, {}) = 0 /\ Cong(0, 0)
      <4>1. m_size \in [Blocks -> Nat] /\ 0 = 0 + 0 * SizeMod /\ {} \in SUBSET Blocks
        BY <2>1, SizeModAssumption DEF Init
      <4> QED
        BY <4>1, Totals DEF Cong
    <3>3. /\ m_allocTotal = 0 /\ m_szAlloced[Super] + m_szFreed[Super] = 0
          /\ \A c \in Classes : m_szAlloced[c] = 0 /\ m_szFreed[c] = 0
      BY <2>1, SetsType DEF Init
    <3> QED
      BY <3>1, <3>2, <3>3 DEF SumsInv
  <2> QED
    BY <2>1 DEF Init, CountInv, ScanInv
<1>2. TypeOK /\ IInv /\ CountInv /\ [Next]_vars => CountInv'
  BY CountInvariance
<1> QED
  BY <1>1, <1>2, TypeCorrect, Invariant, PTL DEF Spec

\* The memory malloc has returned fits the address space.
MemoryFits == SumSizes(Used \cup Cached) < SizeMod

LEMMA TotalWithin ==
  ASSUME NEW w \in [Blocks -> Nat], NEW T \in SUBSET Blocks, NEW S \in SUBSET T
  PROVE  Total(w, S) <= Total(w, T)
<1>1. PICK P : P = {R \in SUBSET T : Total(w, T \ R) > Total(w, T)}
  OBVIOUS
<1>2. P = {}
  <2>1. SUFFICES ASSUME P # {}
                 PROVE  FALSE
    OBVIOUS
  <2>2. P \in SUBSET (SUBSET Blocks)
    BY <1>1
  <2>3. PICK R \in P : \A Q \in P : Cardinality(R) <= Cardinality(Q)
    BY <2>1, <2>2, SmallestOf, BlocksAssumption
  <2>4. R \in SUBSET T /\ Total(w, T \ R) > Total(w, T)
    BY <1>1, <2>3
  <2>5. Total(w, T) \in Nat
    BY Totals
  <2>6. R # {}
    <3>1. T \ {} = T
      OBVIOUS
    <3> QED
      BY <2>4, <2>5, <3>1
  <2>7. PICK b \in R : TRUE
    BY <2>6
  <2>8. PICK Q, U : Q = R \ {b} /\ U = T \ R
    OBVIOUS
  <2>9. U \in SUBSET Blocks /\ b \in Blocks \ U /\ T \ Q = U \cup {b} /\ Q \in SUBSET T
        /\ R \in SUBSET Blocks
    BY <2>4, <2>7, <2>8
  <2>10. Total(w, U \cup {b}) = w[b] + Total(w, U) /\ w[b] \in Nat /\ Total(w, U) \in Nat
    BY <2>9, Totals
  <2>11. Q \in P
    BY <1>1, <2>4, <2>5, <2>8, <2>9, <2>10
  <2>12. Cardinality(Q) < Cardinality(R)
    <3>1. Cardinality(Q) = Cardinality(R) - 1 /\ Cardinality(R) \in Nat
      BY <2>7, <2>8, <2>9, Without, BlocksAssumption
    <3> QED
      BY <3>1
  <2>13. Cardinality(Q) \in Nat /\ Cardinality(R) \in Nat
    BY <2>2, <2>3, <2>11, FS_Subset, FS_CardinalityType, BlocksAssumption
  <2> QED
    BY <2>3, <2>11, <2>12, <2>13
<1>3. PICK R : R = T \ S
  OBVIOUS
<1>4. R \in SUBSET T /\ T \ R = S
  BY <1>3
<1>5. ~ (Total(w, S) > Total(w, T))
  BY <1>1, <1>2, <1>4
<1>6. Total(w, S) \in Nat /\ Total(w, T) \in Nat
  <2>1. S \in SUBSET Blocks
    OBVIOUS
  <2> QED
    BY <2>1, Totals
<1> QED
  BY <1>5, <1>6

\* While the blocks fit the address space, the counters are the sizes of the blocks on
\* the lists: what GetMemoryInfo reports, for any threads, blocks and requests.
THEOREM CountersRight == Spec => [](MemoryFits => Accounting)
<1>1. ASSUME TypeOK, CountInv, MemoryFits, phase = "live"
      PROVE  Accounting
  <2>1. SumsInv
    BY <1>1 DEF CountInv
  <2>2. ASSUME NEW S \in SUBSET (Used \cup Cached)
        PROVE  SumSizes(S) = Total(m_size, S) /\ SumSizes(S) \in SizeT /\ SumSizes(S) \in Int
    <3>1. Used \cup Cached \in SUBSET Blocks /\ S \in SUBSET Blocks /\ m_size \in [Blocks -> Nat]
      BY <1>1, CountersInt DEF Used, Cached
    <3>2. Total(m_size, S) <= Total(m_size, Used \cup Cached)
      BY <3>1, TotalWithin
    <3>3. Total(m_size, S) \in Nat /\ Total(m_size, Used \cup Cached) \in Nat
      BY <3>1, Totals
    <3>4. Total(m_size, Used \cup Cached) < SizeMod
      BY <1>1, SumIsTotal DEF MemoryFits
    <3> QED
      BY <3>2, <3>3, <3>4, SumIsTotal, SizeModAssumption DEF SizeT
  <2>3. /\ m_allocTotal \in SizeT /\ m_allocTotal \in Int
        /\ \A c \in Classes : /\ m_szAlloced[c] \in SizeT /\ m_szFreed[c] \in SizeT
                              /\ m_szAlloced[c] \in Int /\ m_szFreed[c] \in Int
    BY <1>1, CountersInt DEF TypeOK, ListsType
  <2>4. m_allocTotal = SumSizes(Used)
    BY <2>1, <2>2, <2>3, CongEqual DEF SumsInv
  <2>5. ASSUME NEW c \in Classes \ {Super}
        PROVE  m_szAlloced[c] = SumSizes(UsedIn(c)) /\ m_szFreed[c] = SumSizes(CachedIn(c))
    <3>1. UsedIn(c) \in SUBSET (Used \cup Cached) /\ CachedIn(c) \in SUBSET (Used \cup Cached)
      BY DEF UsedIn, CachedIn
    <3>2. Cong(m_szAlloced[c], SumSizes(UsedIn(c))) /\ Cong(m_szFreed[c], SumSizes(CachedIn(c)))
      BY <2>1, <2>2, <3>1 DEF SumsInv
    <3> QED
      BY <2>2, <2>3, <3>1, <3>2, CongEqual
  <2>6. (m_szAlloced[Super] + m_szFreed[Super]) % SizeMod = SumSizes(SuperBlocks) % SizeMod
    <3>1. SuperBlocks \in SUBSET (Used \cup Cached)
      BY DEF SuperBlocks, UsedIn, CachedIn
    <3>2. PICK x \in Int : x = m_szAlloced[Super] + m_szFreed[Super]
      BY <2>3, SetsType
    <3>3. Cong(x, SumSizes(SuperBlocks))
      BY <2>1, <2>2, <3>1, <3>2 DEF SumsInv
    <3> QED
      BY <2>2, <3>1, <3>2, <3>3, CongEqual
  <2> QED
    BY <2>4, <2>5, <2>6 DEF Accounting, UsedIn, SuperBlocks
<1>2. TypeOK /\ CountInv => (MemoryFits => Accounting)
  <2>1. phase # "live" => Accounting
    BY DEF Accounting
  <2> QED
    BY <1>1, <2>1
<1> QED
  BY <1>2, TypeCorrect, CountsAlways, PTL
===============================================================================
