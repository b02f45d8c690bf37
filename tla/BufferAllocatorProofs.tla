------------------------- MODULE BufferAllocatorProofs -------------------------
(***************************************************************************)
(* Proofs about ElsaCBufferAllocator, for any threads, blocks and requests.*)
(*                                                                         *)
(* ExclusiveOwnership and Integrity are not inductive: that a block taken  *)
(* off a free list is nobody's depends on the list holding cached blocks   *)
(* only, and that on each walk's pPrev being the block before the one it   *)
(* unlinks, with no other walk under way. IInv says so with conditions on  *)
(* neighbouring blocks, and a ranking in place of reachability.            *)
(***************************************************************************)
EXTENDS BufferAllocator, TLAPS

\* Mutual exclusion: in multi-threaded mode by the mutex, otherwise because the
\* calls do not overlap.
LockInv ==
  /\ \A t \in Threads : pc[t] \in Critical /\ m_bMultThread => m_bufferLock = t
  /\ m_bufferLock # NULL => m_bMultThread /\ pc[m_bufferLock] \in Critical
  /\ ~m_bMultThread => \A t, u \in Threads : t # u => pc[t] = "idle" \/ pc[u] = "idle"

\* The free lists hold cached blocks of their class, and no block follows two.
FreeInv ==
  /\ \A c \in Classes : m_pLast[c] # NULL => m_pLast[c] \in CachedIn(c)
  /\ \A b \in Cached : m_pPrev[b] # NULL => m_pPrev[b] \in CachedIn(ListOf(m_size[b]))
  /\ \A b, d \in Cached : b # d /\ m_pPrev[b] = m_pPrev[d] => m_pPrev[b] = NULL
  /\ \A b \in Cached : m_pPrev[b] # NULL => m_pPrev[b] # m_pLast[ListOf(m_size[b])]

\* No free list has a cycle: the blocks can be ranked so that ranks fall along it.
RankInv ==
  \E r \in [Blocks -> Nat] : \A b \in Cached : m_pPrev[b] # NULL => r[m_pPrev[b]] < r[b]

\* The list of used blocks is doubly linked, and its tail is its last block.
UsedInv ==
  /\ m_pLastAlloced # NULL => m_pLastAlloced \in Used /\ m_pNext[m_pLastAlloced] = NULL
  /\ \A b \in Used : m_pPrev[b] # NULL => m_pPrev[b] \in Used /\ m_pNext[m_pPrev[b]] = b
  /\ \A b \in Used : m_pNext[b] # NULL => m_pNext[b] \in Used /\ m_pPrev[m_pNext[b]] = b

\* A walk is at a block of its list, and remembers the one before it.
WalkInv ==
  \A t \in Threads : pc[t] \in {"scan", "sweep"} =>
    /\ cur[t] # NULL => cur[t] \in CachedIn(list[t])
    /\ keep[t] = NULL => cur[t] = m_pLast[list[t]]
    /\ keep[t] # NULL => keep[t] \in CachedIn(list[t]) /\ m_pPrev[keep[t]] = cur[t]

\* Who holds what, and what the locals of a call point to.
OwnInv ==
  /\ \A t, u \in Threads : t # u => Held(t) \cap Held(u) = {}
  /\ \A t \in Threads : Held(t) \subseteq Used /\ own[t] \cap InHand(t) = {}
  /\ \A t \in Threads : pc[t] \in {"alloc", "scan", "copy"} /\ arg[t] # NULL => arg[t] \in own[t]

ContentsInv == \A t \in Threads : \A b \in own[t] : contents[b] = t

IInv == phase = "live" => LockInv /\ FreeInv /\ RankInv /\ UsedInv /\ WalkInv /\ OwnInv
                             /\ ContentsInv

-------------------------------------------------------------------------------
(* Sizes. *)

\* What malloc is asked for is a positive number of bytes.
LEMMA BlockSizePositive == \A n \in Nat : BlockSize(n) \in Nat \ {0}
<1> TAKE n \in Nat
<1>1. CASE ClassOf(n) # Super
  BY <1>1 DEF BlockSize, ClassOf, Small, Middle, Large, Super, SmallBufferSize,
              MiddleBufferSize, LargeBufferSize
<1>2. CASE ClassOf(n) = Super
  <2>1. n > LargeBufferSize
    BY <1>2 DEF ClassOf, Small, Middle, Large, Super, SmallBufferSize, MiddleBufferSize,
                LargeBufferSize
  <2>2. BlockSize(n) = ((n + 511) \div 512) * 512
    BY <1>2 DEF BlockSize, Small, Middle, Large, Super
  <2>3. (n + 511) \div 512 \in Nat \ {0}
    BY <2>1, SizesAssumption DEF LargeBufferSize
  <2> QED
    BY <2>2, <2>3
<1> QED
  BY <1>1, <1>2

\* size_t arithmetic stays within size_t.
LEMMA CountersType == /\ \A x, y \in Int : Plus(x, y) \in SizeT /\ Minus(x, y) \in SizeT
                      /\ 0 \in SizeT /\ SizeT \subseteq Int
BY SizeModAssumption DEF Plus, Minus, SizeT

\* ClassOf, ListOf and NextList give classes.
LEMMA ClassesType ==
  /\ \A n \in Nat : ClassOf(n) \in Classes /\ ListOf(n) \in Classes
  /\ \A c \in Classes \ {Super} : NextList[c] \in Classes
  /\ Small \in Classes
BY DEF ClassOf, ListOf, NextList, Classes, Small, Middle, Large, Super, SmallBufferSize,
       MiddleBufferSize, LargeBufferSize

-------------------------------------------------------------------------------
(* Types. *)

\* What Deliver and Trace, parts of both ways to allocate, do to types.
LEMMA DeliverType ==
  ASSUME CallsType, contents \in [Blocks -> Threads \cup {NULL}], NEW t \in Threads,
         NEW b \in Blocks, Deliver(t, b), arg' = arg
  PROVE  CallsType' /\ contents' \in [Blocks -> Threads \cup {NULL}]
<1>1. CASE arg[t] = NULL
  BY <1>1, ClassesType DEF CallsType, Deliver, Goto, Forget
<1>2. CASE arg[t] # NULL
  BY <1>2 DEF CallsType, Deliver, Goto, clientVars
<1> QED
  BY <1>1, <1>2

LEMMA TraceType ==
  ASSUME BlocksType, m_pLastAlloced \in Blocks \cup {NULL}, NEW b \in Blocks,
         NEW prev \in [Blocks -> Blocks \cup {NULL}], Trace(b, prev)
  PROVE  /\ m_pLastAlloced' \in Blocks
         /\ m_pPrev' \in [Blocks -> Blocks \cup {NULL}]
         /\ m_pNext' \in [Blocks -> Blocks \cup {NULL}]
         /\ m_bUsedFlag' \in [Blocks -> BOOLEAN]
         /\ m_iFreeTick' \in [Blocks -> Nat]
         /\ freedAt' \in [Blocks -> Nat]
BY DEF BlocksType, Trace

\* Every variable keeps its type: a pointer is a block or null, a size a number.
THEOREM TypeCorrect == Spec => []TypeOK
<1>1. Init => TypeOK
  <2> SUFFICES ASSUME Init PROVE TypeOK
    OBVIOUS
  <2>1. ListsType
    BY CountersType DEF Init, ListsType
  <2>2. BlocksType
    BY DEF Init, BlocksType
  <2>3. CallsType
    BY ClassesType DEF Init, CallsType
  <2> QED
    BY <2>1, <2>2, <2>3 DEF Init, TypeOK
<1>2. TypeOK /\ [Next]_vars => TypeOK'
  <2> SUFFICES ASSUME TypeOK, [Next]_vars
               PROVE  TypeOK'
    OBVIOUS
  <2> USE DEF blockVars, countVars, listVars, localVars, clientVars
  <2>1. ASSUME NEW t \in Threads, NEW n \in Requests, AllocBuffer(t, n)
        PROVE  TypeOK'
    BY <2>1, SizesAssumption DEF AllocBuffer, BeginAlloc, Goto, TypeOK, ListsType, BlocksType, CallsType
  <2>2. ASSUME NEW t \in Threads, NEW b \in Blocks, FreeBuffer(t, b)
        PROVE  TypeOK'
    BY <2>2 DEF FreeBuffer, BeginFree, Goto, TypeOK, ListsType, BlocksType, CallsType
  <2>3. ASSUME NEW t \in Threads, NEW b \in Blocks, NEW n \in Requests, ReAllocBuffer(t, b, n)
        PROVE  TypeOK'
    BY <2>3, SizesAssumption DEF ReAllocBuffer, BeginAlloc, Goto, TypeOK, ListsType, BlocksType, CallsType
  <2>4. ASSUME NEW t \in Threads, CheckFreeBuffers(t)
        PROVE  TypeOK'
    BY <2>4 DEF CheckFreeBuffers, Goto, TypeOK, ListsType, BlocksType, CallsType
  <2>5. ASSUME NEW t \in Threads, AllocLock(t)
        PROVE  TypeOK'
    BY <2>5, ClassesType DEF AllocLock, Lock, Goto, TypeOK, ListsType, BlocksType, CallsType
  <2>6. ASSUME NEW t \in Threads, ScanNext(t)
        PROVE  TypeOK'
    BY <2>6 DEF ScanNext, TypeOK, ListsType, BlocksType, CallsType
  <2>7. ASSUME NEW t \in Threads, Take(t)
        PROVE  TypeOK'
    <3> DEFINE b == cur[t]
               c == list[t]
               n == IF c = Super THEN req[t] ELSE m_size[b]
    <3>1. b \in Blocks /\ c \in Classes /\ n \in Int /\ m_size[b] \in Int
      BY <2>7 DEF Take, TypeOK, ListsType, BlocksType, CallsType
    <3>2. Trace(b, Unlinked(b, keep[t], m_pLast[c])) /\ Deliver(t, b)
      BY <2>7 DEF Take
    <3>3. Unlinked(b, keep[t], m_pLast[c]) \in [Blocks -> Blocks \cup {NULL}]
      BY <3>1 DEF Unlinked, TypeOK, ListsType, BlocksType, CallsType
    <3>4. m_pLast' \in [Classes -> Blocks \cup {NULL}]
      BY <2>7, <3>1 DEF Take, TypeOK, ListsType, BlocksType, CallsType
    <3>5. m_szFreed' = [m_szFreed EXCEPT ![c] = Minus(m_szFreed[c], n)]
          /\ m_szAlloced' = [m_szAlloced EXCEPT ![c] = Plus(m_szAlloced[c], n)]
          /\ m_allocTotal' = Plus(m_allocTotal, m_size[b])
      BY <2>7 DEF Take, TypeOK, ListsType, BlocksType, CallsType
    <3>6. m_szFreed' \in [Classes -> SizeT] /\ m_szAlloced' \in [Classes -> SizeT]
          /\ m_allocTotal' \in SizeT
      BY <3>1, <3>5, CountersType DEF TypeOK, ListsType, BlocksType, CallsType
    <3>7. CallsType' /\ BlocksType' /\ ListsType'
      BY <2>7, <3>1, <3>2, <3>3, <3>4, <3>6, DeliverType, TraceType DEF Take, TypeOK, ListsType, BlocksType, CallsType
    <3> QED
      BY <2>7, <3>7 DEF Take, AssertHolds, Unlock, TypeOK
  <2>8. ASSUME NEW t \in Threads, NEW b \in Blocks, Malloc(t, b)
        PROVE  TypeOK'
    <3> DEFINE n == BlockSize(req[t])
               c == list[t]
    <3>1. n \in Nat /\ c \in Classes
      BY BlockSizePositive DEF TypeOK, ListsType, BlocksType, CallsType
    <3>2. Trace(b, m_pPrev) /\ Deliver(t, b)
      BY <2>8 DEF Malloc
    <3>3. m_szAlloced' = [m_szAlloced EXCEPT ![c] = Plus(m_szAlloced[c], n)]
          /\ m_allocTotal' = Plus(m_allocTotal, n)
          /\ m_size' = [m_size EXCEPT ![b] = n]
      BY <2>8 DEF Malloc, TypeOK, ListsType, BlocksType, CallsType
    <3>4. m_size' \in [Blocks -> Nat]
      BY <3>1, <3>3 DEF TypeOK, BlocksType
    <3>5. m_szAlloced' \in [Classes -> SizeT] /\ m_allocTotal' \in SizeT
      <4>1. m_szAlloced \in [Classes -> SizeT] /\ m_allocTotal \in SizeT /\ n \in Int
        BY <3>1 DEF TypeOK, ListsType
      <4>2. Plus(m_szAlloced[c], n) \in SizeT /\ Plus(m_allocTotal, n) \in SizeT
        BY <3>1, <4>1, CountersType
      <4> HIDE DEF n
      <4> QED
        BY <3>1, <3>3, <4>1, <4>2
    <3>6. CallsType' /\ BlocksType' /\ ListsType'
      BY <2>8, <3>2, <3>4, <3>5, DeliverType, TraceType DEF Malloc, TypeOK, ListsType, BlocksType, CallsType
    <3> QED
      BY <2>8, <3>6 DEF Malloc, Unlock, TypeOK
  <2>9. ASSUME NEW t \in Threads, FreeLock(t)
        PROVE  TypeOK'
    BY <2>9 DEF FreeLock, Lock, Goto, TypeOK, ListsType, BlocksType, CallsType
  <2>10. ASSUME NEW t \in Threads, Free(t)
         PROVE  TypeOK'
    <3> DEFINE b == arg[t]
               c == ListOf(m_size[b])
    <3>a. pc[t] = "free"
      BY <2>10 DEF Free
    <3>b. b \in Blocks /\ m_size[b] \in Nat
      BY <3>a DEF TypeOK, BlocksType, CallsType
    <3>1. b \in Blocks /\ c \in Classes /\ m_size[b] \in Int
      BY <3>b, ClassesType
    <3>2. m_szFreed' = [m_szFreed EXCEPT ![c] = Plus(m_szFreed[c], m_size[b])]
          /\ m_szAlloced' = [m_szAlloced EXCEPT ![c] = Minus(m_szAlloced[c], m_size[b])]
          /\ m_allocTotal' = Minus(m_allocTotal, m_size[b])
      BY <2>10 DEF Free, TypeOK, ListsType, BlocksType, CallsType
    <3>3. m_szFreed' \in [Classes -> SizeT] /\ m_szAlloced' \in [Classes -> SizeT]
          /\ m_allocTotal' \in SizeT
      BY <3>1, <3>2, CountersType DEF TypeOK, ListsType
    <3>4. ListsType'
      BY <2>10, <3>1, <3>3 DEF Free, TypeOK, ListsType, BlocksType, CallsType
    <3>5. m_pPrev' \in [Blocks -> Blocks \cup {NULL}]
      BY <2>10, <3>1 DEF Free, TypeOK, ListsType, BlocksType, CallsType
    <3>6. m_pNext' \in [Blocks -> Blocks \cup {NULL}]
      BY <2>10, <3>1 DEF Free, TypeOK, ListsType, BlocksType, CallsType
    <3>7. BlocksType'
      BY <2>10, <3>1, <3>5, <3>6, TimeAssumption DEF Free, TypeOK, ListsType, BlocksType, CallsType
    <3>8. CallsType'
      BY <2>10 DEF Free, Goto, TypeOK, ListsType, BlocksType, CallsType
    <3> QED
      BY <2>10, <3>4, <3>7, <3>8 DEF Free, AssertHolds, Unlock, TypeOK
  <2>11. ASSUME NEW t \in Threads, Copy(t)
         PROVE  TypeOK'
    <3>a. pc[t] = "copy" /\ arg' = [arg EXCEPT ![t] = arg[t]]
      BY <2>11 DEF Copy, BeginFree
    <3>1. arg[t] \in Blocks /\ cur[t] \in Blocks /\ arg' = arg
      BY <3>a DEF TypeOK, CallsType
    <3>2. own' \in [Threads -> SUBSET Blocks]
      BY <2>11, <3>1 DEF Copy, TypeOK, ListsType, BlocksType, CallsType
    <3>3. contents' \in [Blocks -> Threads \cup {NULL}]
      BY <2>11, <3>1 DEF Copy, TypeOK, ListsType, BlocksType, CallsType
    <3>4. CallsType'
      BY <2>11, <3>1, <3>2, ClassesType DEF Copy, BeginFree, Forget, Goto, TypeOK, ListsType, BlocksType, CallsType
    <3>5. ListsType' /\ BlocksType'
      BY <2>11, <3>3 DEF Copy, TypeOK, ListsType, BlocksType, CallsType
    <3> QED
      BY <2>11, <3>4, <3>5 DEF Copy, TypeOK
  <2>12. ASSUME NEW t \in Threads, SweepLock(t)
         PROVE  TypeOK'
    BY <2>12, ClassesType DEF SweepLock, StartList, Lock, Goto, TypeOK, ListsType, BlocksType, CallsType
  <2>13. ASSUME NEW t \in Threads, SweepFree(t)
         PROVE  TypeOK'
    <3> DEFINE b == cur[t]
               c == list[t]
    <3>1. b \in Blocks /\ c \in Classes /\ m_size[b] \in Int
      BY <2>13 DEF SweepFree, TypeOK, ListsType, BlocksType, CallsType
    <3>2. m_szFreed' = [m_szFreed EXCEPT ![c] = Minus(m_szFreed[c], m_size[b])]
      BY <2>13 DEF SweepFree, TypeOK, ListsType, BlocksType, CallsType
    <3>3. m_szFreed' \in [Classes -> SizeT]
      BY <3>1, <3>2, CountersType DEF TypeOK, ListsType, BlocksType, CallsType
    <3>4. ListsType'
      BY <2>13, <3>1, <3>3 DEF SweepFree, TypeOK, ListsType, BlocksType, CallsType
    <3>5. BlocksType'
      BY <2>13, <3>1 DEF SweepFree, TypeOK, ListsType, BlocksType, CallsType
    <3>6. CallsType'
      BY <2>13, <3>1 DEF SweepFree, TypeOK, ListsType, BlocksType, CallsType
    <3> QED
      BY <2>13, <3>4, <3>5, <3>6 DEF SweepFree, TypeOK
  <2>14. ASSUME NEW t \in Threads, SweepKeep(t)
         PROVE  TypeOK'
    BY <2>14 DEF SweepKeep, TypeOK, ListsType, BlocksType, CallsType
  <2>15. ASSUME NEW t \in Threads, SweepNextList(t)
         PROVE  TypeOK'
    BY <2>15, ClassesType DEF SweepNextList, StartList, TypeOK, ListsType, BlocksType, CallsType
  <2>16. ASSUME NEW t \in Threads, SweepEnd(t)
         PROVE  TypeOK'
    BY <2>16, ClassesType DEF SweepEnd, Forget, Unlock, Goto, TypeOK, ListsType, BlocksType, CallsType
  <2>17. ASSUME NEW flag \in BOOLEAN, SetMultiThread(flag)
         PROVE  TypeOK'
    BY <2>17 DEF SetMultiThread, TypeOK, ListsType, BlocksType, CallsType
  <2>18. CASE Destroy
    <3>1. ListsType'
      BY <2>18 DEF Destroy, TypeOK, ListsType, BlocksType, CallsType
    <3>2. BlocksType'
      BY <2>18 DEF Destroy, TypeOK, ListsType, BlocksType, CallsType
    <3>3. CallsType'
      BY <2>18 DEF Destroy, TypeOK, ListsType, BlocksType, CallsType
    <3> QED
      BY <2>18, <3>1, <3>2, <3>3 DEF Destroy, TypeOK
  <2>19. CASE Tick
    BY <2>19 DEF Tick, TypeOK, ListsType, BlocksType, CallsType
  <2>20. CASE UNCHANGED vars
    BY <2>20 DEF vars, TypeOK, ListsType, BlocksType, CallsType
  <2> QED
    BY <2>1, <2>2, <2>3, <2>4, <2>5, <2>6, <2>7, <2>8, <2>9, <2>10, <2>11, <2>12, <2>13,
       <2>14, <2>15, <2>16, <2>17, <2>18, <2>19, <2>20 DEF Next, Call, Step
<1> QED
  BY <1>1, <1>2, PTL DEF Spec

-------------------------------------------------------------------------------
(* The inductive invariant. *)

\* At most one thread is in a critical section.
LEMMA OneCritical ==
  ASSUME LockInv, NEW t \in Threads, NEW u \in Threads, pc[t] \in Critical, pc[u] \in Critical
  PROVE  t = u
BY DEF LockInv, Critical

\* What the lists say depends on the list heads and the blocks' headers only.
LEMMA ListsFrame ==
  ASSUME FreeInv, RankInv, UsedInv, UNCHANGED <<listVars, blockVars>>
  PROVE  FreeInv' /\ RankInv' /\ UsedInv'
BY DEF FreeInv, RankInv, UsedInv, Cached, CachedIn, Used, listVars, blockVars

\* Classes of blocks.
LEMMA ListOfType == TypeOK => \A b \in Blocks : ListOf(m_size[b]) \in Classes
BY ClassesType DEF TypeOK, BlocksType

\* The steps that change no list.
QuietStep(t) ==
  \/ \E n \in Requests : AllocBuffer(t, n)
  \/ \E b \in Blocks : FreeBuffer(t, b)
  \/ \E b \in Blocks, n \in Requests : ReAllocBuffer(t, b, n)
  \/ CheckFreeBuffers(t) \/ AllocLock(t) \/ ScanNext(t) \/ FreeLock(t) \/ Copy(t)
  \/ SweepLock(t) \/ SweepKeep(t) \/ SweepNextList(t) \/ SweepEnd(t)

LEMMA QuietLists ==
  ASSUME NEW t \in Threads, QuietStep(t)
  PROVE  UNCHANGED <<listVars, blockVars>> /\ phase' = phase /\ m_bMultThread' = m_bMultThread
<1> USE DEF listVars, blockVars
<1>1. ASSUME NEW n \in Requests, AllocBuffer(t, n)
      PROVE  UNCHANGED <<listVars, blockVars, phase, m_bMultThread>>
  BY <1>1 DEF AllocBuffer, BeginAlloc
<1>2. ASSUME NEW b \in Blocks, NEW n \in Requests, ReAllocBuffer(t, b, n)
      PROVE  UNCHANGED <<listVars, blockVars, phase, m_bMultThread>>
  BY <1>2 DEF ReAllocBuffer, BeginAlloc
<1>3. ASSUME NEW b \in Blocks, FreeBuffer(t, b)
      PROVE  UNCHANGED <<listVars, blockVars, phase, m_bMultThread>>
  BY <1>3 DEF FreeBuffer
<1>4. CASE CheckFreeBuffers(t) \/ AllocLock(t) \/ ScanNext(t) \/ FreeLock(t)
  BY <1>4 DEF CheckFreeBuffers, AllocLock, ScanNext, FreeLock
<1>5. CASE Copy(t) \/ SweepLock(t) \/ SweepKeep(t) \/ SweepNextList(t) \/ SweepEnd(t)
  BY <1>5 DEF Copy, SweepLock, SweepKeep, SweepNextList, SweepEnd
<1> QED
  BY <1>1, <1>2, <1>3, <1>4, <1>5 DEF QuietStep

\* The mutex and the mode keep critical sections apart, whatever the call does.
LEMMA LockStep ==
  ASSUME TypeOK, LockInv, NEW t \in Threads, Call(t) \/ Step(t)
  PROVE  LockInv'
<1> USE DEF LockInv, Critical, TypeOK, CallsType, Goto
<1>1. ASSUME NEW n \in Requests, AllocBuffer(t, n)
      PROVE  LockInv'
  BY <1>1, NullAssumption DEF AllocBuffer, BeginAlloc, MayCall
<1>2. ASSUME NEW b \in Blocks, NEW n \in Requests, ReAllocBuffer(t, b, n)
      PROVE  LockInv'
  BY <1>2, NullAssumption DEF ReAllocBuffer, BeginAlloc, MayCall
<1>3. ASSUME NEW b \in Blocks, FreeBuffer(t, b)
      PROVE  LockInv'
  BY <1>3, NullAssumption DEF FreeBuffer, BeginFree, MayCall
<1>4. CASE CheckFreeBuffers(t)
  BY <1>4, NullAssumption DEF CheckFreeBuffers, MayCall
<1>5. CASE AllocLock(t)
  BY <1>5, NullAssumption DEF AllocLock, Lock
<1>6. CASE ScanNext(t)
  BY <1>6 DEF ScanNext
<1>7. CASE Take(t)
  <2>1. /\ pc[t] = "scan"
        /\ pc' = [pc EXCEPT ![t] = "idle"] \/ pc' = [pc EXCEPT ![t] = "copy"]
        /\ m_bMultThread' = m_bMultThread /\ Unlock
    BY <1>7 DEF Take, Deliver
  <2> QED
    BY <2>1, NullAssumption DEF Unlock
<1>8. ASSUME NEW b \in Blocks, Malloc(t, b)
      PROVE  LockInv'
  <2>1. /\ pc[t] = "scan"
        /\ pc' = [pc EXCEPT ![t] = "idle"] \/ pc' = [pc EXCEPT ![t] = "copy"]
        /\ m_bMultThread' = m_bMultThread /\ Unlock
    BY <1>8 DEF Malloc, Deliver
  <2> QED
    BY <2>1, NullAssumption DEF Unlock
<1>9. CASE FreeLock(t)
  BY <1>9, NullAssumption DEF FreeLock, Lock
<1>10. CASE Free(t)
  BY <1>10, NullAssumption DEF Free, Unlock
<1>11. CASE Copy(t)
  BY <1>11, NullAssumption DEF Copy, BeginFree
<1>12. CASE SweepLock(t)
  BY <1>12, NullAssumption DEF SweepLock, Lock
<1>13. CASE SweepFree(t) \/ SweepKeep(t) \/ SweepNextList(t)
  BY <1>13 DEF SweepFree, SweepKeep, SweepNextList
<1>14. CASE SweepEnd(t)
  BY <1>14, NullAssumption DEF SweepEnd, Unlock
<1> QED
  BY <1>1, <1>2, <1>3, <1>4, <1>5, <1>6, <1>7, <1>8, <1>9, <1>10, <1>11, <1>12, <1>13, <1>14
     DEF Call, Step

\* A step that changes no list keeps every walk at a block of its list.
LEMMA QuietWalk ==
  ASSUME TypeOK, LockInv, FreeInv, WalkInv, NEW t \in Threads, QuietStep(t)
  PROVE  WalkInv'
<1> USE DEF WalkInv, Goto, TypeOK, CallsType
<1>0. UNCHANGED <<m_pLast, m_size, m_pPrev, m_bUsedFlag>>
  BY QuietLists DEF listVars, blockVars
<1>1. \A c \in Classes : CachedIn(c)' = CachedIn(c)
  BY <1>0 DEF CachedIn, Cached
<1>2. \A b \in Cached : ListOf(m_size[b]) \in Classes /\ b \in CachedIn(ListOf(m_size[b]))
  BY ListOfType DEF CachedIn, Cached
<1>3. ASSUME NEW n \in Requests, AllocBuffer(t, n)
      PROVE  WalkInv'
  BY <1>0, <1>1, <1>3 DEF AllocBuffer, BeginAlloc
<1>4. ASSUME NEW b \in Blocks, NEW n \in Requests, ReAllocBuffer(t, b, n)
      PROVE  WalkInv'
  BY <1>0, <1>1, <1>4 DEF ReAllocBuffer, BeginAlloc
<1>5. ASSUME NEW b \in Blocks, FreeBuffer(t, b)
      PROVE  WalkInv'
  BY <1>0, <1>1, <1>5 DEF FreeBuffer, BeginFree, localVars
<1>6. CASE CheckFreeBuffers(t)
  BY <1>0, <1>1, <1>6 DEF CheckFreeBuffers
<1>7. CASE AllocLock(t)
  <2>1. ClassOf(req[t]) \in Classes
    BY ClassesType
  <2>2. \A c \in Classes : m_pLast[c] # NULL => m_pLast[c] \in CachedIn(c)
    BY DEF FreeInv
  <2>3. list'[t] = ClassOf(req[t]) /\ cur'[t] = m_pLast[list'[t]] /\ keep'[t] = NULL
    BY <1>7 DEF AllocLock
  <2>4. \A u \in Threads \ {t} : /\ pc'[u] = pc[u] /\ list'[u] = list[u]
                                 /\ cur'[u] = cur[u] /\ keep'[u] = keep[u]
    BY <1>7 DEF AllocLock
  <2> QED
    BY <1>0, <1>1, <2>1, <2>2, <2>3, <2>4
<1>8. CASE ScanNext(t) \/ SweepKeep(t)
  <2>1. cur[t] \in CachedIn(list[t])
    BY <1>8 DEF ScanNext, SweepKeep
  <2>2. m_pPrev[cur[t]] # NULL => m_pPrev[cur[t]] \in CachedIn(list[t])
    BY <2>1 DEF FreeInv, CachedIn
  <2>3. cur'[t] = m_pPrev[cur[t]] /\ keep'[t] = cur[t] /\ list' = list /\ pc' = pc
    BY <1>8 DEF ScanNext, SweepKeep
  <2>4. \A u \in Threads \ {t} : cur'[u] = cur[u] /\ keep'[u] = keep[u]
    BY <1>8 DEF ScanNext, SweepKeep
  <2>5. keep'[t] # NULL
    BY <1>8, <2>3 DEF ScanNext, SweepKeep
  <2> QED
    BY <1>0, <1>1, <2>1, <2>2, <2>3, <2>4, <2>5
<1>9. CASE FreeLock(t)
  BY <1>0, <1>1, <1>9 DEF FreeLock, localVars
<1>10. CASE Copy(t)
  BY <1>0, <1>1, <1>10 DEF Copy, BeginFree, Forget
<1>11. CASE SweepLock(t) \/ SweepNextList(t)
  <2>1. PICK c \in Classes : StartList(t, c) /\ (pc' = pc \/ pc' = [pc EXCEPT ![t] = "sweep"])
    BY <1>11, ClassesType DEF SweepLock, SweepNextList
  <2>2. \A d \in Classes : m_pLast[d] # NULL => m_pLast[d] \in CachedIn(d)
    BY DEF FreeInv
  <2> QED
    BY <1>0, <1>1, <2>1, <2>2 DEF StartList
<1>12. CASE SweepEnd(t)
  BY <1>0, <1>1, <1>12 DEF SweepEnd, Forget
<1> QED
  BY <1>3, <1>4, <1>5, <1>6, <1>7, <1>8, <1>9, <1>10, <1>11, <1>12 DEF QuietStep

\* A step that changes no list moves blocks between what a thread's code holds
\* and what its call has in hand, and copies contents into the thread's own.
LEMMA QuietOwn ==
  ASSUME TypeOK, WalkInv, OwnInv, ContentsInv, NEW t \in Threads, QuietStep(t)
  PROVE  OwnInv' /\ ContentsInv'
<1> USE NullAssumption DEF OwnInv, ContentsInv, Held, InHand, Goto, TypeOK, CallsType
<1>0. Used' = Used
  BY QuietLists DEF Used, blockVars
<1>1. ASSUME NEW n \in Requests, AllocBuffer(t, n)
      PROVE  OwnInv' /\ ContentsInv'
  BY <1>0, <1>1 DEF AllocBuffer, BeginAlloc, MayCall, clientVars
<1>2. ASSUME NEW b \in Blocks, NEW n \in Requests, ReAllocBuffer(t, b, n)
      PROVE  OwnInv' /\ ContentsInv'
  BY <1>0, <1>2 DEF ReAllocBuffer, BeginAlloc, MayCall, clientVars
<1>3. ASSUME NEW b \in Blocks, FreeBuffer(t, b)
      PROVE  OwnInv' /\ ContentsInv'
  BY <1>0, <1>3 DEF FreeBuffer, BeginFree, MayCall, localVars
<1>4. CASE CheckFreeBuffers(t)
  BY <1>0, <1>4 DEF CheckFreeBuffers, MayCall, clientVars
<1>5. CASE AllocLock(t) \/ ScanNext(t) \/ SweepKeep(t)
  BY <1>0, <1>5 DEF AllocLock, ScanNext, SweepKeep, clientVars
<1>6. CASE FreeLock(t)
  BY <1>0, <1>6 DEF FreeLock, clientVars, localVars
<1>7. CASE Copy(t)
  <2>1. /\ pc[t] = "copy" /\ arg[t] \in Blocks /\ cur[t] \in Blocks
        /\ arg[t] \in own[t] /\ cur[t] \notin own[t]
    BY <1>7 DEF Copy
  <2>2. /\ pc' = [pc EXCEPT ![t] = "release"] /\ arg' = [arg EXCEPT ![t] = arg[t]]
        /\ own' = [own EXCEPT ![t] = (own[t] \ {arg[t]}) \cup {cur[t]}]
        /\ contents' = [contents EXCEPT ![cur[t]] = contents[arg[t]]]
        /\ \A u \in Threads \ {t} : cur'[u] = cur[u]
    BY <1>7 DEF Copy, BeginFree, Forget
  <2>3. Held(t)' = Held(t) /\ (own[t] \cap InHand(t) = {})'
    BY <2>1, <2>2
  <2>4. \A u \in Threads \ {t} : Held(u)' = Held(u) /\ (own[u] \cap InHand(u) = {})'
    BY <2>2
  <2>a. \A u \in Threads : Held(u)' = Held(u) /\ (own[u] \cap InHand(u) = {})'
    BY <2>3, <2>4
  <2>b. \A u \in Threads : pc'[u] \in {"alloc", "scan", "copy"} /\ arg'[u] # NULL
                            => arg'[u] \in own'[u]
    BY <2>1, <2>2
  <2>5. OwnInv'
    <3> HIDE DEF Held, InHand
    <3> QED
      BY <1>0, <2>a, <2>b
  <2>6. \A u \in Threads \ {t} : cur[t] \notin own[u]
    BY <2>1
  <2>7. ContentsInv'
    BY <2>1, <2>2, <2>6 DEF BlocksType
  <2> QED
    BY <2>5, <2>7
<1>8. CASE SweepLock(t) \/ SweepNextList(t)
  <2>1. /\ pc[t] \in {"gc", "sweep"} /\ (pc' = pc \/ pc' = [pc EXCEPT ![t] = "sweep"])
        /\ \A u \in Threads \ {t} : cur'[u] = cur[u]
        /\ UNCHANGED <<arg, clientVars>>
    BY <1>8 DEF SweepLock, SweepNextList, StartList
  <2> QED
    BY <1>0, <2>1 DEF clientVars
<1>9. CASE SweepEnd(t)
  BY <1>0, <1>9 DEF SweepEnd, Forget, clientVars
<1> QED
  BY <1>1, <1>2, <1>3, <1>4, <1>5, <1>6, <1>7, <1>8, <1>9 DEF QuietStep

-------------------------------------------------------------------------------
(* The steps that change the lists. *)

\* A block nobody holds is delivered: it becomes the thread's.
LEMMA DeliverOwn ==
  ASSUME TypeOK, OwnInv, ContentsInv, NEW t \in Threads, pc[t] = "scan", NEW b \in Blocks,
         \A u \in Threads : b \notin Held(u), Deliver(t, b), arg' = arg,
         Used \subseteq Used', b \in Used'
  PROVE  OwnInv' /\ ContentsInv'
<1>0. InHand(t) = {} /\ own[t] \subseteq Used /\ b \in Blocks /\ b # NULL
  BY NullAssumption DEF OwnInv, Held, InHand, TypeOK, CallsType
<1>1. \A u \in Threads \ {t} : /\ Held(u)' = Held(u) /\ InHand(u)' = InHand(u)
                               /\ own'[u] = own[u] /\ pc'[u] = pc[u] /\ arg'[u] = arg[u]
  BY DEF Deliver, Goto, Forget, Held, InHand, clientVars, TypeOK, CallsType
<1>2. /\ Held(t)' = Held(t) \cup {b} /\ own'[t] \cap InHand(t)' = {}
      /\ arg[t] # NULL => own'[t] = own[t]
      /\ arg[t] = NULL => own'[t] = own[t] \cup {b}
      /\ arg'[t] = arg[t]
  BY <1>0, NullAssumption DEF OwnInv, Deliver, Goto, Forget, Held, InHand, clientVars, TypeOK, CallsType
<1>3. OwnInv'
  <2>1. \A u, v \in Threads : u # v => Held(u)' \cap Held(v)' = {}
    BY <1>1, <1>2 DEF OwnInv
  <2>2. \A u \in Threads : Held(u)' \subseteq Used' /\ own'[u] \cap InHand(u)' = {}
    BY <1>1, <1>2 DEF OwnInv
  <2>3. \A u \in Threads : pc'[u] \in {"alloc", "scan", "copy"} /\ arg'[u] # NULL => arg'[u] \in own'[u]
    BY <1>1, <1>2 DEF OwnInv
  <2> QED
    BY <2>1, <2>2, <2>3 DEF OwnInv
<1>4. ContentsInv'
  <2>1. \A u \in Threads \ {t} : b \notin own[u]
    BY DEF Held
  <2>2. CASE arg[t] = NULL
    <3>1. contents' = [contents EXCEPT ![b] = t]
      BY <2>2 DEF Deliver
    <3> QED
      BY <1>1, <1>2, <2>1, <2>2, <3>1 DEF ContentsInv, TypeOK, BlocksType, CallsType
  <2>3. CASE arg[t] # NULL
    BY <1>1, <1>2, <2>3 DEF ContentsInv, Deliver, clientVars
  <2> QED
    BY <2>2, <2>3
<1> QED
  BY <1>3, <1>4

\* After a section ends no other walk is under way.
LEMMA WalkOver ==
  ASSUME TypeOK, LockInv, NEW t \in Threads, pc[t] \in Critical,
         NEW l \in {"idle", "copy"}, pc' = [pc EXCEPT ![t] = l]
  PROVE  WalkInv'
BY OneCritical DEF WalkInv, Critical, TypeOK, CallsType

\* Unlinking the block a walk is at keeps the free lists right: the block before
\* it, or the head, now points past it.
LEMMA UnlinkFree ==
  ASSUME TypeOK, FreeInv, NEW c \in Classes, NEW b \in CachedIn(c), NEW k \in Blocks \cup {NULL},
         k = NULL => b = m_pLast[c],
         k # NULL => k \in CachedIn(c) /\ m_pPrev[k] = b,
         Cached' = Cached \ {b},
         \A x \in Cached \ {b} : /\ m_size'[x] = m_size[x]
                                 /\ m_pPrev'[x] = IF x = k THEN m_pPrev[b] ELSE m_pPrev[x],
         \A d \in Classes : m_pLast'[d] = IF d = c /\ k = NULL THEN m_pPrev[b] ELSE m_pLast[d]
  PROVE  FreeInv'
<1> USE NullAssumption
<1>1. b \in Cached /\ b \in Blocks /\ b # NULL /\ ListOf(m_size[b]) = c
  BY DEF CachedIn, Cached
<1>2. \A d \in Classes : CachedIn(d)' = CachedIn(d) \ {b}
  BY DEF CachedIn
<1>3. ASSUME NEW x \in Cached, m_pPrev[x] = b
      PROVE  k # NULL /\ x = k
  <2>1. ListOf(m_size[x]) = c
    BY <1>1, <1>3 DEF FreeInv, CachedIn
  <2>2. m_pPrev[x] # m_pLast[c]
    BY <1>1, <1>3, <2>1 DEF FreeInv
  <2>3. k # NULL /\ k \in Cached
    BY <1>3, <2>2 DEF CachedIn
  <2> QED
    BY <1>1, <1>3, <2>3 DEF FreeInv
<1>4. m_pPrev[b] # NULL => m_pPrev[b] \in CachedIn(c)
  BY <1>1 DEF FreeInv
<1>5. m_pPrev[b] = b => k = b
  BY <1>1, <1>3
<1>6. k = b => \A d \in Classes : m_pLast'[d] = m_pLast[d]
  BY <1>1
<1>7. k = b => m_pPrev[b] = b
  BY <1>1
<1>8. m_pLast[c] = b => k = NULL
  BY <1>1 DEF FreeInv, CachedIn
<1>9. ASSUME NEW d \in Classes, m_pLast'[d] # NULL
      PROVE  m_pLast'[d] \in CachedIn(d)'
  <2>1. CASE d = c /\ k = NULL
    BY <1>1, <1>2, <1>4, <1>5, <1>9, <2>1
  <2>2. CASE ~(d = c /\ k = NULL)
    <3>1. m_pLast'[d] = m_pLast[d] /\ m_pLast[d] \in CachedIn(d)
      BY <1>9, <2>2 DEF FreeInv
    <3>2. m_pLast[d] # b
      BY <1>1, <1>8, <2>2, <3>1 DEF CachedIn
    <3> QED
      BY <1>2, <3>1, <3>2
  <2> QED
    BY <2>1, <2>2
<1>10. ASSUME NEW x \in Cached \ {b}
       PROVE  /\ ListOf(m_size[x]) \in Classes
              /\ ListOf(m_size'[x]) = ListOf(m_size[x])
              /\ m_pPrev'[x] # NULL => m_pPrev'[x] \in CachedIn(ListOf(m_size[x]))'
  <2>1. ListOf(m_size[x]) \in Classes /\ m_size'[x] = m_size[x]
    BY ListOfType DEF Cached
  <2>2. CASE x = k
    <3>1. ListOf(m_size[x]) = c /\ m_pPrev'[x] = m_pPrev[b] /\ m_pPrev[b] # b
      BY <1>1, <1>5, <2>2 DEF CachedIn, Cached
    <3> QED
      BY <1>2, <1>4, <2>1, <3>1
  <2>3. CASE x # k
    <3>1. m_pPrev'[x] = m_pPrev[x] /\ m_pPrev[x] # b
      BY <1>3, <2>3
    <3>2. m_pPrev[x] # NULL => m_pPrev[x] \in CachedIn(ListOf(m_size[x]))
      BY DEF FreeInv
    <3> QED
      BY <1>2, <2>1, <3>1, <3>2
  <2> QED
    BY <2>2, <2>3, <2>1
<1>11. ASSUME NEW x \in Cached \ {b}, NEW y \in Cached \ {b}, x # y, m_pPrev'[x] = m_pPrev'[y]
       PROVE  m_pPrev'[x] = NULL
  BY <1>1, <1>11 DEF FreeInv
<1>12. ASSUME NEW x \in Cached \ {b}, m_pPrev'[x] # NULL
       PROVE  m_pPrev'[x] # m_pLast'[ListOf(m_size[x])]
  <2>1. ListOf(m_size[x]) \in Classes
    BY <1>10
  <2>2. CASE x = k
    <3>1. m_pPrev'[x] = m_pPrev[b] /\ ListOf(m_size[x]) = c /\ m_pLast'[c] = m_pLast[c]
      BY <2>2 DEF CachedIn, Cached
    <3> QED
      BY <1>1, <1>12, <3>1 DEF FreeInv
  <2>3. CASE x # k
    <3>1. m_pPrev'[x] = m_pPrev[x]
      BY <2>3
    <3>2. m_pPrev[x] # m_pLast[ListOf(m_size[x])]
      BY <1>12, <3>1 DEF FreeInv
    <3>3. CASE ListOf(m_size[x]) = c /\ k = NULL
      BY <1>1, <1>12, <3>1, <3>3 DEF FreeInv
    <3>4. CASE ~(ListOf(m_size[x]) = c /\ k = NULL)
      BY <2>1, <3>1, <3>2, <3>4
    <3> QED
      BY <3>3, <3>4
  <2> QED
    BY <2>2, <2>3
<1>13. /\ \A d \in Classes : m_pLast'[d] # NULL => m_pLast'[d] \in CachedIn(d)'
       /\ \A x \in Cached' : m_pPrev'[x] # NULL => m_pPrev'[x] \in CachedIn(ListOf(m_size[x]))'
       /\ \A x \in Cached' : ListOf(m_size'[x]) = ListOf(m_size[x])
       /\ \A x, y \in Cached' : x # y /\ m_pPrev'[x] = m_pPrev'[y] => m_pPrev'[x] = NULL
       /\ \A x \in Cached' : m_pPrev'[x] # NULL => m_pPrev'[x] # m_pLast'[ListOf(m_size[x])]
  BY <1>9, <1>10, <1>11, <1>12
<1> QED
  BY <1>13 DEF FreeInv

\* Unlinking keeps the ranks right, and a walk never meets a block again.
LEMMA UnlinkRank ==
  ASSUME TypeOK, FreeInv, RankInv, NEW b \in Cached, NEW k \in Blocks \cup {NULL},
         k # NULL => k \in Cached /\ m_pPrev[k] = b,
         Cached' = Cached \ {b},
         \A x \in Cached \ {b} : m_pPrev'[x] = IF x = k THEN m_pPrev[b] ELSE m_pPrev[x]
  PROVE  RankInv' /\ m_pPrev[b] # b /\ k # b
<1> USE NullAssumption
<1>1. PICK r \in [Blocks -> Nat] : \A x \in Cached : m_pPrev[x] # NULL => r[m_pPrev[x]] < r[x]
  BY DEF RankInv
<1>2. /\ b \in Blocks /\ b # NULL
      /\ \A x \in Cached : m_pPrev[x] # NULL => m_pPrev[x] \in Blocks
  BY DEF Cached, TypeOK, BlocksType
<1>3. m_pPrev[b] # b /\ k # b
  BY <1>1, <1>2
<1>4. \A x \in Cached \ {b} : m_pPrev'[x] # NULL => r[m_pPrev'[x]] < r[x]
  <2> SUFFICES ASSUME NEW x \in Cached \ {b}, m_pPrev'[x] # NULL
               PROVE  r[m_pPrev'[x]] < r[x]
    OBVIOUS
  <2>1. CASE x = k
    <3>1. x \in Blocks /\ m_pPrev[x] = b /\ m_pPrev'[x] = m_pPrev[b] /\ m_pPrev[b] \in Blocks
      BY <1>2, <2>1 DEF Cached
    <3>2. r[m_pPrev[b]] < r[b] /\ r[b] < r[x]
      BY <1>1, <1>2, <3>1
    <3>3. r[x] \in Nat /\ r[b] \in Nat /\ r[m_pPrev[b]] \in Nat
      BY <1>2, <3>1
    <3> QED
      BY <3>1, <3>2, <3>3
  <2>2. CASE x # k
    BY <1>1, <2>2
  <2> QED
    BY <2>1, <2>2
<1> QED
  BY <1>1, <1>3, <1>4 DEF RankInv

\* A block that was not in use goes at the end of the list of used blocks.
LEMMA TraceUsed ==
  ASSUME TypeOK, UsedInv, NEW b \in Blocks, b \notin Used,
         NEW prev \in [Blocks -> Blocks \cup {NULL}], \A x \in Used : prev[x] = m_pPrev[x],
         Trace(b, prev), Used' = Used \cup {b}
  PROVE  UsedInv'
<1> USE NullAssumption
<1>1. /\ \A x \in Used : m_pPrev'[x] = m_pPrev[x]
      /\ m_pPrev'[b] = m_pLastAlloced
      /\ \A x \in Used : m_pNext'[x] = IF x = m_pLastAlloced THEN b ELSE m_pNext[x]
      /\ m_pNext'[b] = NULL
      /\ m_pLastAlloced' = b
  BY DEF Trace, Used
<1> QED
  BY <1>1 DEF UsedInv, Used

\* Take unlinks a cached block and delivers it.
LEMMA TakeStep ==
  ASSUME TypeOK, LockInv, FreeInv, RankInv, UsedInv, WalkInv, OwnInv, ContentsInv,
         NEW t \in Threads, Take(t)
  PROVE  FreeInv' /\ RankInv' /\ UsedInv' /\ WalkInv' /\ OwnInv' /\ ContentsInv'
<1> DEFINE b == cur[t]
           c == list[t]
           k == keep[t]
           prev == Unlinked(b, k, m_pLast[c])
<1> USE NullAssumption
<1>1. pc[t] = "scan" /\ b # NULL /\ c \in Classes /\ k \in Blocks \cup {NULL}
  BY DEF Take, TypeOK, CallsType
<1>2. /\ b \in CachedIn(c)
      /\ k = NULL => b = m_pLast[c]
      /\ k # NULL => k \in CachedIn(c) /\ m_pPrev[k] = b
  BY <1>1 DEF WalkInv
<1>3. b \in Cached /\ b \in Blocks /\ b \notin Used
  BY <1>2 DEF CachedIn, Cached, Used
<1>4. k # NULL => b # m_pLast[c]
  BY <1>2, <1>3 DEF FreeInv, CachedIn
<1>5. /\ Trace(b, prev) /\ Deliver(t, b) /\ arg' = arg /\ m_size' = m_size
      /\ m_pLast' = [m_pLast EXCEPT ![c] = IF b = m_pLast[c] THEN m_pPrev[b] ELSE m_pLast[c]]
  BY DEF Take
<1>6. /\ prev \in [Blocks -> Blocks \cup {NULL}]
      /\ \A x \in Blocks \ {b} : prev[x] = IF x = k THEN m_pPrev[b] ELSE m_pPrev[x]
  BY <1>2, <1>3, <1>4 DEF Unlinked, TypeOK, BlocksType, CachedIn, Cached
<1>7. Cached' = Cached \ {b} /\ Used' = Used \cup {b}
  BY <1>3, <1>5 DEF Trace, Cached, Used, TypeOK, BlocksType
<1>8. FreeInv' /\ RankInv'
  <2>1. \A x \in Cached \ {b} : /\ m_size'[x] = m_size[x]
                                /\ m_pPrev'[x] = IF x = k THEN m_pPrev[b] ELSE m_pPrev[x]
    BY <1>5, <1>6 DEF Trace, Cached
  <2>2. \A d \in Classes : m_pLast'[d] = IF d = c /\ k = NULL THEN m_pPrev[b] ELSE m_pLast[d]
    BY <1>1, <1>2, <1>4, <1>5 DEF TypeOK, ListsType
  <2>3. k # NULL => k \in Cached /\ m_pPrev[k] = b
    BY <1>2 DEF CachedIn
  <2>4. FreeInv'
    BY <1>1, <1>2, <1>7, <2>1, <2>2, UnlinkFree
  <2>5. RankInv'
    BY <1>1, <1>3, <1>7, <2>1, <2>3, UnlinkRank
  <2> QED
    BY <2>4, <2>5
<1>9. UsedInv'
  <2>1. \A x \in Used : prev[x] = m_pPrev[x]
    BY <1>2, <1>3, <1>6 DEF Used, CachedIn, Cached
  <2> QED
    BY <1>3, <1>5, <1>6, <1>7, <2>1, TraceUsed
<1>10. WalkInv'
  <2>1. pc' = [pc EXCEPT ![t] = "idle"] \/ pc' = [pc EXCEPT ![t] = "copy"]
    BY <1>5 DEF Deliver, Goto
  <2> QED
    BY <1>1, <2>1, WalkOver DEF Critical
<1>11. OwnInv' /\ ContentsInv'
  <2>1. \A u \in Threads : b \notin Held(u)
    BY <1>3 DEF OwnInv
  <2> QED
    BY <1>1, <1>3, <1>5, <1>7, <2>1, DeliverOwn
<1> QED
  BY <1>8, <1>9, <1>10, <1>11

\* Malloc delivers a block the process did not have.
LEMMA MallocStep ==
  ASSUME TypeOK, LockInv, FreeInv, RankInv, UsedInv, WalkInv, OwnInv, ContentsInv,
         NEW t \in Threads, NEW b \in Blocks, Malloc(t, b)
  PROVE  FreeInv' /\ RankInv' /\ UsedInv' /\ WalkInv' /\ OwnInv' /\ ContentsInv'
<1> USE NullAssumption
<1>1. pc[t] = "scan" /\ b \notin Used /\ b \notin Cached
  BY DEF Malloc, Fresh, Used, Cached
<1>2. /\ Trace(b, m_pPrev) /\ Deliver(t, b) /\ arg' = arg /\ m_pLast' = m_pLast
      /\ m_size' = [m_size EXCEPT ![b] = BlockSize(req[t])]
  BY DEF Malloc
<1>3. BlockSize(req[t]) \in Nat \ {0}
  BY BlockSizePositive DEF TypeOK, CallsType
<1>4. Cached' = Cached /\ Used' = Used \cup {b}
  BY <1>1, <1>2, <1>3 DEF Trace, Cached, Used, TypeOK, BlocksType
<1>5. FreeInv' /\ RankInv'
  <2>1. \A x \in Cached : m_pPrev'[x] = m_pPrev[x] /\ m_size'[x] = m_size[x]
    BY <1>1, <1>2 DEF Trace, Cached, TypeOK, BlocksType
  <2>2. \A d \in Classes : CachedIn(d)' = CachedIn(d)
    BY <1>4, <2>1 DEF CachedIn
  <2>3. FreeInv'
    BY <1>2, <1>4, <2>1, <2>2, ListOfType DEF FreeInv, Cached
  <2>4. RankInv'
    BY <1>4, <2>1 DEF RankInv
  <2> QED
    BY <2>3, <2>4
<1>6. UsedInv'
  BY <1>1, <1>2, <1>4, TraceUsed DEF TypeOK, BlocksType
<1>7. WalkInv'
  <2>1. pc' = [pc EXCEPT ![t] = "idle"] \/ pc' = [pc EXCEPT ![t] = "copy"]
    BY <1>2 DEF Deliver, Goto
  <2> QED
    BY <1>1, <2>1, WalkOver DEF Critical
<1>8. OwnInv' /\ ContentsInv'
  <2>1. \A u \in Threads : b \notin Held(u)
    BY <1>1 DEF OwnInv
  <2> QED
    BY <1>1, <1>2, <1>4, <2>1, DeliverOwn
<1> QED
  BY <1>5, <1>6, <1>7, <1>8

\* Free takes a block in use out of the list of used blocks, and makes it the head
\* of a free list.
LEMMA FreeStep ==
  ASSUME TypeOK, LockInv, FreeInv, RankInv, UsedInv, WalkInv, OwnInv, ContentsInv,
         NEW t \in Threads, Free(t)
  PROVE  FreeInv' /\ RankInv' /\ UsedInv' /\ WalkInv' /\ OwnInv' /\ ContentsInv'
<1> DEFINE b == arg[t]
           c == ListOf(m_size[b])
<1> USE NullAssumption
<1>1. pc[t] = "free" /\ b \in Blocks /\ b # NULL
  BY DEF Free, TypeOK, CallsType
<1>2. b \in Used /\ b \notin Cached
  BY <1>1 DEF OwnInv, Held, InHand, Used, Cached
<1>3. c \in Classes
  BY <1>1, ListOfType
<1>4. /\ m_size' = m_size
      /\ m_bUsedFlag' = [m_bUsedFlag EXCEPT ![b] = FALSE]
      /\ m_pNext' = [x \in Blocks |-> IF x = b THEN NULL
                                      ELSE IF x = m_pPrev[b] THEN m_pNext[b] ELSE m_pNext[x]]
      /\ m_pPrev' = [x \in Blocks |-> IF x = b THEN m_pLast[c]
                                      ELSE IF x = m_pNext[b] THEN m_pPrev[b] ELSE m_pPrev[x]]
      /\ m_pLastAlloced' = IF b = m_pLastAlloced THEN m_pPrev[b] ELSE m_pLastAlloced
      /\ m_pLast' = [m_pLast EXCEPT ![c] = b]
      /\ pc' = [pc EXCEPT ![t] = "idle"]
      /\ arg' = [arg EXCEPT ![t] = NULL]
      /\ UNCHANGED <<cur, own, contents>>
  BY DEF Free, Goto, localVars, clientVars
<1>5. Cached' = Cached \cup {b} /\ Used' = Used \ {b}
  BY <1>1, <1>2, <1>4 DEF Cached, Used, TypeOK, BlocksType
<1>6. \A x \in Cached : m_pPrev'[x] = m_pPrev[x] /\ x # b
  BY <1>1, <1>2, <1>4 DEF UsedInv, Used, Cached
<1>7. \A d \in Classes : CachedIn(d)' = IF d = c THEN CachedIn(d) \cup {b} ELSE CachedIn(d)
  BY <1>4, <1>5 DEF CachedIn
<1>8. m_pPrev'[b] = m_pLast[c] /\ \A d \in Classes : m_pLast'[d] = IF d = c THEN b ELSE m_pLast[d]
  BY <1>1, <1>3, <1>4 DEF TypeOK, ListsType
<1>9. FreeInv'
  <2>1. ASSUME NEW d \in Classes, m_pLast'[d] # NULL PROVE m_pLast'[d] \in CachedIn(d)'
    BY <1>7, <1>8, <2>1 DEF FreeInv
  <2>2. ASSUME NEW x \in Cached, m_pPrev[x] # NULL
        PROVE  m_pPrev[x] \in CachedIn(ListOf(m_size[x]))'
    BY <1>4, <1>7, <2>2, ListOfType DEF FreeInv, Cached
  <2>3. ASSUME NEW d \in Classes, d = c, m_pLast[d] # NULL
        PROVE  m_pLast[d] \in CachedIn(d)' /\ m_pLast[d] # b
    BY <1>2, <1>3, <1>7, <2>3 DEF FreeInv, CachedIn
  <2>4. ASSUME NEW x \in Cached, m_pPrev[x] = m_pLast[c] PROVE m_pPrev[x] = NULL
    <3>1. SUFFICES ASSUME m_pPrev[x] # NULL PROVE FALSE
      OBVIOUS
    <3>2. m_pPrev[x] \in CachedIn(ListOf(m_size[x])) /\ m_pPrev[x] \in CachedIn(c)
      BY <1>3, <2>4, <3>1 DEF FreeInv
    <3> QED
      BY <2>4, <3>1, <3>2 DEF FreeInv, CachedIn
  <2>5. ASSUME NEW x \in Cached, m_pPrev[x] # NULL
        PROVE  m_pPrev[x] # m_pLast'[ListOf(m_size[x])]
    <3>1. m_pPrev[x] # b /\ m_pPrev[x] # m_pLast[ListOf(m_size[x])]
      BY <1>2, <2>5 DEF FreeInv, CachedIn
    <3>2. ListOf(m_size[x]) \in Classes
      BY ListOfType DEF Cached
    <3> QED
      BY <1>8, <3>1, <3>2
  <2>6. \A x, y \in Cached : x # y /\ m_pPrev[x] = m_pPrev[y] => m_pPrev[x] = NULL
    BY DEF FreeInv
  <2>7. /\ \A d \in Classes : m_pLast'[d] # NULL => m_pLast'[d] \in CachedIn(d)'
        /\ \A x \in Cached' : m_pPrev'[x] # NULL => m_pPrev'[x] \in CachedIn(ListOf(m_size[x]))'
        /\ \A x, y \in Cached' : x # y /\ m_pPrev'[x] = m_pPrev'[y] => m_pPrev'[x] = NULL
        /\ \A x \in Cached' : m_pPrev'[x] # NULL => m_pPrev'[x] # m_pLast'[ListOf(m_size[x])]
    <3>1. \A d \in Classes : m_pLast'[d] # NULL => m_pLast'[d] \in CachedIn(d)'
      BY <2>1
    <3>2. ASSUME NEW x \in Cached', m_pPrev'[x] # NULL
          PROVE  /\ m_pPrev'[x] \in CachedIn(ListOf(m_size[x]))'
                 /\ m_pPrev'[x] # m_pLast'[ListOf(m_size[x])]
      <4>1. CASE x = b
        <5>1. m_pPrev'[x] = m_pLast[c] /\ c = ListOf(m_size[x]) /\ m_size' = m_size
          BY <1>4, <1>8, <4>1
        <5> QED
          BY <1>3, <1>8, <2>3, <3>2, <5>1
      <4>2. CASE x \in Cached
        BY <1>6, <2>2, <2>5, <3>2, <4>2
      <4> QED
        BY <1>5, <4>1, <4>2
    <3>3. \A x, y \in Cached' : x # y /\ m_pPrev'[x] = m_pPrev'[y] => m_pPrev'[x] = NULL
      BY <1>5, <1>6, <1>8, <2>4, <2>6
    <3> QED
      BY <3>1, <3>2, <3>3
  <2> QED
    BY <1>4, <2>7 DEF FreeInv
<1>10. RankInv'
  <2>1. PICK r \in [Blocks -> Nat] : \A x \in Cached : m_pPrev[x] # NULL => r[m_pPrev[x]] < r[x]
    BY DEF RankInv
  <2>2. \A x \in Cached : m_pPrev[x] # NULL => m_pPrev[x] \in Cached
    BY DEF FreeInv, CachedIn
  <2>3. m_pLast[c] # NULL => m_pLast[c] \in Blocks /\ m_pLast[c] # b
    BY <1>2, <1>3 DEF FreeInv, CachedIn, Cached
  <2>4. PICK m \in Nat : m_pLast[c] # NULL => r[m_pLast[c]] < m
    <3>1. CASE m_pLast[c] = NULL
      BY <3>1
    <3>2. CASE m_pLast[c] # NULL
      <4>1. r[m_pLast[c]] \in Nat /\ r[m_pLast[c]] < r[m_pLast[c]] + 1
        BY <2>3, <3>2
      <4> QED
        BY <4>1
    <3> QED
      BY <3>1, <3>2
  <2>5. [r EXCEPT ![b] = m] \in [Blocks -> Nat]
    BY <1>1
  <2>6. \A x \in Cached' : m_pPrev'[x] # NULL
                             => [r EXCEPT ![b] = m][m_pPrev'[x]] < [r EXCEPT ![b] = m][x]
    BY <1>1, <1>2, <1>5, <1>6, <1>8, <2>1, <2>2, <2>3, <2>4 DEF Cached
  <2> QED
    BY <2>5, <2>6 DEF RankInv
<1>11. UsedInv'
  <2>1. /\ \A x \in Used \ {b} : /\ x \in Blocks
                                 /\ m_pNext'[x] = IF x = m_pPrev[b] THEN m_pNext[b] ELSE m_pNext[x]
                                 /\ m_pPrev'[x] = IF x = m_pNext[b] THEN m_pPrev[b] ELSE m_pPrev[x]
    BY <1>4 DEF Used
  <2>2. m_pPrev[b] # NULL => m_pPrev[b] \in Used /\ m_pNext[m_pPrev[b]] = b
    BY <1>2 DEF UsedInv
  <2>3. m_pNext[b] # NULL => m_pNext[b] \in Used /\ m_pPrev[m_pNext[b]] = b
    BY <1>2 DEF UsedInv
  <2>4. m_pLastAlloced' # NULL => m_pLastAlloced' \in Used' /\ m_pNext'[m_pLastAlloced'] = NULL
    BY <1>1, <1>2, <1>4, <1>5, <2>1, <2>2 DEF UsedInv
  <2>5. ASSUME NEW x \in Used', m_pPrev'[x] # NULL
        PROVE  m_pPrev'[x] \in Used' /\ m_pNext'[m_pPrev'[x]] = x
    BY <1>1, <1>5, <2>1, <2>2, <2>3, <2>5 DEF UsedInv
  <2>6. ASSUME NEW x \in Used', m_pNext'[x] # NULL
        PROVE  m_pNext'[x] \in Used' /\ m_pPrev'[m_pNext'[x]] = x
    BY <1>1, <1>5, <2>1, <2>2, <2>3, <2>6 DEF UsedInv
  <2> QED
    BY <2>4, <2>5, <2>6 DEF UsedInv
<1>12. WalkInv'
  BY <1>1, <1>4, WalkOver DEF Critical
<1>13. OwnInv'
  <2>1. Held(t)' = Held(t) \ {b} /\ InHand(t)' = {} /\ own' = own
    BY <1>1, <1>4 DEF OwnInv, Held, InHand, TypeOK, CallsType
  <2>2. \A u \in Threads \ {t} : /\ Held(u)' = Held(u) /\ InHand(u)' = InHand(u)
                                 /\ pc'[u] = pc[u] /\ arg'[u] = arg[u]
    BY <1>4 DEF Held, InHand, TypeOK, CallsType
  <2>3. \A u \in Threads \ {t} : b \notin Held(u)
    BY <1>1 DEF OwnInv, Held, InHand
  <2>4. pc'[t] = "idle"
    BY <1>4 DEF TypeOK, CallsType
  <2> QED
    BY <1>5, <2>1, <2>2, <2>3, <2>4 DEF OwnInv
<1>14. ContentsInv'
  BY <1>4 DEF ContentsInv
<1> QED
  BY <1>9, <1>10, <1>11, <1>12, <1>13, <1>14

\* The sweep unlinks a cached block and gives it back.
LEMMA SweepFreeStep ==
  ASSUME TypeOK, LockInv, FreeInv, RankInv, UsedInv, WalkInv, OwnInv, ContentsInv,
         NEW t \in Threads, SweepFree(t)
  PROVE  FreeInv' /\ RankInv' /\ UsedInv' /\ WalkInv' /\ OwnInv' /\ ContentsInv'
<1> DEFINE b == cur[t]
           c == list[t]
           k == keep[t]
<1> USE NullAssumption
<1>1. pc[t] = "sweep" /\ b # NULL /\ c \in Classes /\ k \in Blocks \cup {NULL}
  BY DEF SweepFree, TypeOK, CallsType
<1>2. /\ b \in CachedIn(c)
      /\ k = NULL => b = m_pLast[c]
      /\ k # NULL => k \in CachedIn(c) /\ m_pPrev[k] = b
  BY <1>1 DEF WalkInv
<1>3. b \in Cached /\ b \in Blocks /\ b \notin Used
  BY <1>2 DEF CachedIn, Cached, Used
<1>4. k # NULL => b # m_pLast[c]
  BY <1>2, <1>3 DEF FreeInv, CachedIn
<1>5. /\ m_pLast' = [m_pLast EXCEPT ![c] = IF b = m_pLast[c] THEN m_pPrev[b] ELSE m_pLast[c]]
      /\ m_pPrev' = [x \in Blocks |-> IF x = b THEN NULL
                                      ELSE IF x = k THEN m_pPrev[b] ELSE m_pPrev[x]]
      /\ m_size' = [m_size EXCEPT ![b] = 0]
      /\ contents' = [contents EXCEPT ![b] = NULL]
      /\ cur' = [cur EXCEPT ![t] = m_pPrev[b]]
      /\ UNCHANGED <<m_pLastAlloced, m_pNext, m_bUsedFlag, pc, arg, keep, list, own>>
  BY DEF SweepFree
<1>6. Cached' = Cached \ {b} /\ Used' = Used
  BY <1>3, <1>5 DEF Cached, Used, TypeOK, BlocksType
<1>7. \A x \in Cached \ {b} : /\ m_size'[x] = m_size[x]
                              /\ m_pPrev'[x] = IF x = k THEN m_pPrev[b] ELSE m_pPrev[x]
  BY <1>5 DEF Cached, TypeOK, BlocksType
<1>8. \A d \in Classes : m_pLast'[d] = IF d = c /\ k = NULL THEN m_pPrev[b] ELSE m_pLast[d]
  BY <1>1, <1>2, <1>4, <1>5 DEF TypeOK, ListsType
<1>9. FreeInv'
  BY <1>1, <1>2, <1>6, <1>7, <1>8, UnlinkFree
<1>10. RankInv' /\ m_pPrev[b] # b /\ k # b
  <2>1. k # NULL => k \in Cached /\ m_pPrev[k] = b
    BY <1>2 DEF CachedIn
  <2> QED
    BY <1>1, <1>3, <1>6, <1>7, <2>1, UnlinkRank
<1>11. UsedInv'
  BY <1>2, <1>3, <1>5, <1>6 DEF UsedInv, Used, CachedIn, Cached
<1>12. WalkInv'
  <2>1. CachedIn(c)' = CachedIn(c) \ {b}
    BY <1>5, <1>6, <1>7 DEF CachedIn
  <2>2. \A u \in Threads : pc'[u] \in {"scan", "sweep"} => u = t
    BY <1>1, <1>5, OneCritical DEF Critical
  <2>3. list'[t] = c /\ keep'[t] = k /\ cur'[t] = m_pPrev[b]
    BY <1>5 DEF TypeOK, CallsType
  <2>4. m_pPrev[b] # NULL => m_pPrev[b] \in CachedIn(c)
    BY <1>2, <1>3 DEF FreeInv, CachedIn
  <2>5. m_pPrev[b] # NULL => m_pPrev[b] \in CachedIn(c)'
    BY <1>10, <2>1, <2>4
  <2>6. k = NULL => m_pPrev[b] = m_pLast'[c]
    BY <1>1, <1>8
  <2>7. k # NULL => k \in CachedIn(c)' /\ m_pPrev'[k] = m_pPrev[b]
    BY <1>2, <1>5, <1>10, <2>1 DEF CachedIn, Cached
  <2> QED
    BY <2>2, <2>3, <2>5, <2>6, <2>7 DEF WalkInv
<1>13. OwnInv'
  <2>1. \A u \in Threads : Held(u)' = Held(u) /\ InHand(u)' = InHand(u)
    BY <1>1, <1>5 DEF Held, InHand, TypeOK, CallsType
  <2> QED
    BY <1>5, <1>6, <2>1 DEF OwnInv
<1>14. ContentsInv'
  <2>1. \A u \in Threads : b \notin own[u]
    BY <1>3 DEF OwnInv, Held
  <2> QED
    BY <1>5, <2>1 DEF ContentsInv, TypeOK, BlocksType, CallsType
<1> QED
  BY <1>9, <1>10, <1>11, <1>12, <1>13, <1>14

\* Every step keeps the invariant.
LEMMA Invariance == TypeOK /\ IInv /\ [Next]_vars => IInv'
<1> SUFFICES ASSUME TypeOK, IInv, [Next]_vars, phase' = "live"
             PROVE  IInv'
  BY DEF IInv
<1>1. CASE UNCHANGED vars
  BY <1>1 DEF vars, blockVars, countVars, listVars, localVars, clientVars, IInv, LockInv,
     FreeInv, RankInv, UsedInv, WalkInv, OwnInv, ContentsInv, Cached, CachedIn, Used, Held, InHand
<1> SUFFICES ASSUME Next PROVE IInv'
  BY <1>1
<1>2. LockInv /\ FreeInv /\ RankInv /\ UsedInv /\ WalkInv /\ OwnInv /\ ContentsInv
  BY DEF IInv, Next
<1>3. ASSUME NEW t \in Threads, Call(t) \/ Step(t)
      PROVE  IInv'
  <2>1. LockInv'
    BY <1>2, <1>3, LockStep
  <2>2. CASE QuietStep(t)
    <3>1. FreeInv' /\ RankInv' /\ UsedInv'
      BY <1>2, <2>2, QuietLists, ListsFrame
    <3>2. WalkInv' /\ OwnInv' /\ ContentsInv'
      BY <1>2, <2>2, QuietWalk, QuietOwn
    <3> QED
      BY <2>1, <3>1, <3>2 DEF IInv
  <2>3. CASE Take(t)
    BY <1>2, <2>1, <2>3, TakeStep DEF IInv
  <2>4. CASE \E b \in Blocks : Malloc(t, b)
    BY <1>2, <2>1, <2>4, MallocStep DEF IInv
  <2>5. CASE Free(t)
    BY <1>2, <2>1, <2>5, FreeStep DEF IInv
  <2>6. CASE SweepFree(t)
    BY <1>2, <2>1, <2>6, SweepFreeStep DEF IInv
  <2> QED
    BY <1>3, <2>2, <2>3, <2>4, <2>5, <2>6 DEF Call, Step, QuietStep
<1>4. ASSUME NEW flag \in BOOLEAN, SetMultiThread(flag)
      PROVE  IInv'
  <2>1. /\ \A t \in Threads : pc[t] = "idle"
        /\ UNCHANGED <<m_bufferLock, listVars, blockVars, pc, arg, cur, keep, list, clientVars>>
    BY <1>4 DEF SetMultiThread, localVars
  <2>2. m_bufferLock = NULL
    BY <1>2, <2>1 DEF LockInv, Critical, TypeOK
  <2>3. LockInv'
    BY <2>1, <2>2 DEF LockInv, Critical
  <2>4. WalkInv' /\ OwnInv' /\ ContentsInv'
    BY <1>2, <2>1 DEF WalkInv, OwnInv, ContentsInv, Held, InHand, clientVars, blockVars, Used
  <2> QED
    BY <1>2, <2>1, <2>3, <2>4, ListsFrame DEF IInv
<1>5. CASE Destroy
  BY <1>5 DEF Destroy
<1>6. CASE Tick
  <2>1. UNCHANGED <<m_bMultThread, m_bufferLock, listVars, blockVars, pc, arg, cur, keep, list,
                    clientVars>>
    BY <1>6 DEF Tick, localVars
  <2>2. LockInv' /\ OwnInv' /\ ContentsInv'
    BY <1>2, <2>1 DEF LockInv, OwnInv, ContentsInv, Held, InHand, clientVars, blockVars, Used
  <2>3. WalkInv'
    BY <1>2, <2>1 DEF WalkInv, CachedIn, Cached, listVars, blockVars
  <2> QED
    BY <1>2, <2>1, <2>2, <2>3, ListsFrame DEF IInv
<1> QED
  BY <1>3, <1>4, <1>5, <1>6 DEF Next

\* The invariant holds from the start.
LEMMA InitIInv == Init => IInv
<1> SUFFICES ASSUME Init PROVE IInv
  OBVIOUS
<1> USE NullAssumption DEF Init
<1>1. Cached = {} /\ Used = {}
  BY DEF Cached, Used
<1>2. LockInv /\ WalkInv
  BY DEF LockInv, WalkInv, Critical
<1>3. FreeInv /\ UsedInv
  BY <1>1 DEF FreeInv, UsedInv
<1>4. RankInv
  <2>1. [b \in Blocks |-> 0] \in [Blocks -> Nat]
    OBVIOUS
  <2> QED
    BY <1>1, <2>1 DEF RankInv
<1>5. OwnInv /\ ContentsInv
  BY <1>1 DEF OwnInv, ContentsInv, Held, InHand
<1> QED
  BY <1>2, <1>3, <1>4, <1>5 DEF IInv

THEOREM Invariant == Spec => []IInv
<1>1. Init => IInv
  BY InitIInv
<1>2. TypeOK /\ IInv /\ [Next]_vars => IInv'
  BY Invariance
<1> QED
  BY <1>1, <1>2, TypeCorrect, PTL DEF Spec

\* However many threads, blocks and sizes there are, no two threads are ever given
\* the same block, and the allocator keeps none that a thread still holds.
THEOREM Exclusive == Spec => []ExclusiveOwnership
<1>1. IInv => ExclusiveOwnership
  BY DEF IInv, OwnInv, ExclusiveOwnership
<1> QED
  BY <1>1, Invariant, PTL

\* What a thread writes to its memory stays there, through ReAlloc's copy too.
THEOREM IntegrityKept == Spec => []Integrity
<1>1. IInv => Integrity
  BY DEF IInv, ContentsInv, Integrity
<1> QED
  BY <1>1, Invariant, PTL

-------------------------------------------------------------------------------
(* Properties of steps: what a thread is given, and what the sweep frees. *)

\* A new block has room for the request it was malloc'ed for.
LEMMA BlockSizeFits == \A n \in Nat : BlockSize(n) >= n
<1> TAKE n \in Nat
<1>1. CASE ClassOf(n) # Super
  BY <1>1 DEF BlockSize, ClassOf, Small, Middle, Large, Super, SmallBufferSize,
              MiddleBufferSize, LargeBufferSize
<1>2. CASE ClassOf(n) = Super
  <2>1. BlockSize(n) = ((n + 511) \div 512) * 512
    BY <1>2 DEF BlockSize, Small, Middle, Large, Super
  <2>2. ((n + 511) \div 512) * 512 >= n
    OBVIOUS
  <2> QED
    BY <2>1, <2>2
<1> QED
  BY <1>1, <1>2

\* The block ReAlloc obtained, and has not yet returned, fits the request.
CopyFits == \A t \in Threads : pc[t] = "copy" => m_size[cur[t]] >= req[t]

\* The times the sweep compares: the one it read is past, and a cached block's is
\* BufferFreeTick after the block was freed.
TimesInv == /\ \A t \in Threads : dwTick[t] <= now
            /\ \A b \in Cached : m_iFreeTick[b] = freedAt[b] + BufferFreeTick

StepInv == phase = "live" => CopyFits /\ TimesInv

\* Deliver gives the thread this block, or goes on to copy to it.
LEMMA DeliverFits ==
  ASSUME TypeOK, CopyFits, NEW t \in Threads, pc[t] = "scan", NEW b \in Blocks, Deliver(t, b),
         m_size'[b] >= req[t], \A u \in Threads : pc[u] = "copy" => m_size'[cur[u]] = m_size[cur[u]]
  PROVE  /\ CopyFits'
         /\ \A u \in Threads : \A x \in own'[u] \ own[u] : m_size'[x] >= req[u]
<1>1. /\ \A u \in Threads \ {t} : /\ pc'[u] = pc[u] /\ cur'[u] = cur[u] /\ req'[u] = req[u]
                                  /\ own'[u] = own[u]
      /\ own'[t] \subseteq own[t] \cup {b}
      /\ pc'[t] = "copy" => cur'[t] = b /\ req'[t] = req[t]
  BY DEF Deliver, Goto, Forget, clientVars, TypeOK, CallsType
<1> QED
  BY <1>1 DEF CopyFits

\* No step gives a thread a block too small, or frees one too early.
Fits == \A t \in Threads : \A b \in own'[t] \ own[t] : m_size'[b] >= req[t]
Kept == \A b \in Cached : m_size'[b] = 0 /\ phase' = "live" => now >= freedAt[b] + BufferFreeTick

\* Steps that change no list: a copy gives the block that CopyFits speaks of, a
\* sweep that begins reads the time, and the rest change nothing that matters here.
LEMMA QuietFits ==
  ASSUME TypeOK, CopyFits, TimesInv, NEW t \in Threads, QuietStep(t)
  PROVE  CopyFits' /\ TimesInv' /\ Fits /\ Kept
<1> USE DEF TypeOK, CallsType, Goto
<1>0. /\ UNCHANGED <<m_size, m_bUsedFlag, m_iFreeTick>> /\ Cached' = Cached
      /\ \A b \in Cached : m_size[b] # 0
  BY QuietLists DEF blockVars, Cached
<1> DEFINE Moves ==
      /\ UNCHANGED <<freedAt, now>>
      /\ \A u \in Threads \ {t} : /\ pc'[u] = pc[u] /\ cur'[u] = cur[u] /\ req'[u] = req[u]
                                  /\ own'[u] = own[u] /\ dwTick'[u] = dwTick[u]
      /\ dwTick'[t] \in {dwTick[t], now, 0}
      /\ own'[t] \subseteq own[t] \cup (IF pc[t] = "copy" THEN {cur[t]} ELSE {})
      /\ pc'[t] # "copy"
<1>1. Moves
  <2>1. ASSUME NEW n \in Requests, AllocBuffer(t, n)
        PROVE  Moves
    BY <2>1 DEF AllocBuffer, BeginAlloc, clientVars
  <2>2. ASSUME NEW b \in Blocks, NEW n \in Requests, ReAllocBuffer(t, b, n)
        PROVE  Moves
    BY <2>2 DEF ReAllocBuffer, BeginAlloc, clientVars
  <2>3. ASSUME NEW b \in Blocks, FreeBuffer(t, b)
        PROVE  Moves
    BY <2>3 DEF FreeBuffer, BeginFree, localVars
  <2>4. CASE CheckFreeBuffers(t) \/ AllocLock(t) \/ ScanNext(t) \/ FreeLock(t)
    BY <2>4 DEF CheckFreeBuffers, AllocLock, ScanNext, FreeLock, clientVars, localVars
  <2>5. CASE Copy(t)
    BY <2>5 DEF Copy, BeginFree, Forget
  <2>6. CASE SweepLock(t) \/ SweepKeep(t) \/ SweepNextList(t)
    BY <2>6 DEF SweepLock, SweepKeep, SweepNextList, StartList, clientVars
  <2>7. CASE SweepEnd(t)
    BY <2>7 DEF SweepEnd, Forget, clientVars
  <2> QED
    BY <2>1, <2>2, <2>3, <2>4, <2>5, <2>6, <2>7 DEF QuietStep
<1>2. CopyFits' /\ Fits
  BY <1>0, <1>1 DEF CopyFits, Fits
<1>3. TimesInv'
  BY <1>0, <1>1 DEF TimesInv
<1>4. Kept
  BY <1>0 DEF Kept
<1> QED
  BY <1>2, <1>3, <1>4

LEMMA StepKeeps ==
  ASSUME TypeOK, IInv, StepInv, Next
  PROVE  StepInv' /\ Fits /\ Kept
<1> USE DEF TypeOK, CallsType, BlocksType
<1>0. phase = "live" /\ CopyFits /\ TimesInv /\ FreeInv /\ WalkInv /\ OwnInv
  BY DEF Next, StepInv, IInv
<1>1. ASSUME NEW t \in Threads, Call(t) \/ Step(t)
      PROVE  StepInv' /\ Fits /\ Kept
  <2>0. \A u \in Threads : pc[u] = "copy" => cur[u] \in Used
    BY <1>0 DEF OwnInv, Held, InHand
  <2>1. CASE QuietStep(t)
    BY <1>0, <2>1, QuietFits DEF StepInv
  <2>2. CASE Take(t)
    <3> DEFINE b == cur[t]
    <3>1. /\ pc[t] = "scan" /\ b \in CachedIn(list[t]) /\ m_size[b] >= req[t]
          /\ Deliver(t, b) /\ Trace(b, Unlinked(b, keep[t], m_pLast[list[t]]))
          /\ m_size' = m_size /\ now' = now
      BY <1>0, <2>2 DEF Take, WalkInv
    <3>2. b \in Blocks /\ \A x \in Cached' : x \in Cached /\ x # b
      BY <3>1 DEF Trace, CachedIn, Cached
    <3>3. CopyFits' /\ Fits
      BY <1>0, <3>1, <3>2, DeliverFits DEF Fits
    <3>4. \A x \in Cached' : m_iFreeTick'[x] = m_iFreeTick[x] /\ freedAt'[x] = freedAt[x]
      BY <3>1, <3>2 DEF Trace
    <3>5. \A u \in Threads : dwTick'[u] <= now'
      BY <1>0, <3>1 DEF Deliver, Forget, TimesInv
    <3>6. TimesInv'
      BY <1>0, <3>2, <3>4, <3>5 DEF TimesInv
    <3> QED
      BY <3>1, <3>3, <3>6 DEF StepInv, Kept, Cached
  <2>3. ASSUME NEW b \in Blocks, Malloc(t, b)
        PROVE  StepInv' /\ Fits /\ Kept
    <3>1. /\ pc[t] = "scan" /\ b \in Fresh /\ Deliver(t, b) /\ Trace(b, m_pPrev)
          /\ m_size' = [m_size EXCEPT ![b] = BlockSize(req[t])] /\ now' = now
      BY <2>3 DEF Malloc
    <3>2. m_size'[b] >= req[t] /\ b \notin Used /\ b \notin Cached
      BY <3>1, BlockSizeFits DEF Fresh, Used, Cached
    <3>3. \A x \in Cached' : x \in Cached /\ x # b
      BY <3>1 DEF Trace, Cached
    <3>4. CopyFits' /\ Fits
      BY <1>0, <2>0, <3>1, <3>2, DeliverFits DEF Fits
    <3>5. \A x \in Cached' : m_iFreeTick'[x] = m_iFreeTick[x] /\ freedAt'[x] = freedAt[x]
      BY <3>1, <3>3 DEF Trace, Cached
    <3>6. \A u \in Threads : dwTick'[u] <= now'
      BY <1>0, <3>1 DEF Deliver, Forget, TimesInv
    <3>7. TimesInv'
      BY <1>0, <3>3, <3>5, <3>6 DEF TimesInv
    <3> QED
      BY <3>1, <3>2, <3>4, <3>7 DEF StepInv, Kept, Cached
  <2>4. CASE Free(t)
    <3> DEFINE b == arg[t]
    <3>1. /\ pc[t] = "free" /\ b \in Blocks /\ m_size' = m_size
          /\ pc' = [pc EXCEPT ![t] = "idle"]
          /\ m_bUsedFlag' = [m_bUsedFlag EXCEPT ![b] = FALSE]
          /\ m_iFreeTick' = [m_iFreeTick EXCEPT ![b] = now + BufferFreeTick]
          /\ freedAt' = [freedAt EXCEPT ![b] = now]
          /\ UNCHANGED <<req, cur, own, dwTick, now>>
      BY <2>4 DEF Free, Goto, localVars, clientVars
    <3>2. \A x \in Cached' : x \in Blocks /\ (x = b \/ x \in Cached)
      BY <3>1 DEF Cached
    <3>3. CopyFits' /\ Fits
      BY <1>0, <3>1 DEF CopyFits, Fits
    <3>4. TimesInv'
      BY <1>0, <3>1, <3>2 DEF TimesInv
    <3> QED
      BY <3>1, <3>3, <3>4 DEF StepInv, Kept, Cached
  <2>5. CASE SweepFree(t)
    <3> DEFINE b == cur[t]
    <3>1. /\ pc[t] = "sweep" /\ b \in Cached /\ dwTick[t] >= m_iFreeTick[b]
          /\ m_size' = [m_size EXCEPT ![b] = 0]
          /\ m_iFreeTick' = [m_iFreeTick EXCEPT ![b] = 0]
          /\ freedAt' = [freedAt EXCEPT ![b] = 0]
          /\ cur' = [cur EXCEPT ![t] = m_pPrev[b]]
          /\ UNCHANGED <<m_bUsedFlag, pc, req, dwTick, own, now>>
      BY <1>0, <2>5 DEF SweepFree, Expired, WalkInv, CachedIn
    <3>2. \A x \in Cached' : x \in Cached /\ x # b
      BY <3>1 DEF Cached
    <3>3. CopyFits' /\ Fits
      <4>1. \A u \in Threads : pc[u] = "copy" => cur[u] # b /\ cur'[u] = cur[u]
        BY <2>0, <3>1 DEF Used, Cached
      <4> QED
        BY <1>0, <3>1, <4>1 DEF CopyFits, Fits
    <3>4. TimesInv'
      BY <1>0, <3>1, <3>2 DEF TimesInv, Cached
    <3>5. Kept
      <4>1. now >= freedAt[b] + BufferFreeTick
        BY <1>0, <3>1, TimeAssumption DEF TimesInv, Cached
      <4> QED
        BY <3>1, <4>1 DEF Kept, Cached
    <3> QED
      BY <3>3, <3>4, <3>5 DEF StepInv
  <2> QED
    BY <1>1, <2>1, <2>2, <2>3, <2>4, <2>5 DEF Call, Step, QuietStep
<1>2. CASE (\E flag \in BOOLEAN : SetMultiThread(flag)) \/ Tick
  <2>1. /\ UNCHANGED <<blockVars, pc, req, cur, own, dwTick, freedAt>>
        /\ now' \in {now, now + 1}
    BY <1>2 DEF SetMultiThread, Tick, localVars, clientVars
  <2>2. CopyFits' /\ Fits /\ Kept
    BY <1>0, <2>1 DEF CopyFits, Fits, Kept, blockVars, Cached
  <2>3. TimesInv'
    BY <1>0, <2>1 DEF TimesInv, blockVars, Cached
  <2> QED
    BY <2>2, <2>3 DEF StepInv
<1>3. CASE Destroy
  BY <1>3 DEF Destroy, StepInv, Fits, Kept
<1> QED
  BY <1>1, <1>2, <1>3 DEF Next

\* Blocks are given, and cached blocks kept, as they should be from the start.
LEMMA StepInvAlways == Spec => []StepInv
<1>1. Init => StepInv
  BY DEF Init, StepInv, CopyFits, TimesInv, Cached
<1>2. TypeOK /\ IInv /\ StepInv /\ [Next]_vars => StepInv'
  <2>1. UNCHANGED vars /\ StepInv => StepInv'
    BY DEF vars, blockVars, localVars, StepInv, CopyFits, TimesInv, Cached
  <2> QED
    BY <2>1, StepKeeps
<1> QED
  BY <1>1, <1>2, TypeCorrect, Invariant, PTL DEF Spec

\* A thread is never given a block smaller than it asked for.
THEOREM RequestsFit == Spec => FitsRequest
<1>1. TypeOK /\ IInv /\ StepInv /\ [Next]_vars => [Fits]_vars
  BY StepKeeps
<1> QED
  BY <1>1, TypeCorrect, Invariant, StepInvAlways, PTL DEF Spec, FitsRequest, Fits

\* The sweep never frees a block less than BufferFreeTick after it was last freed.
THEOREM KeptLongEnough == Spec => KeptForAWhile
<1>1. TypeOK /\ IInv /\ StepInv /\ [Next]_vars => [Kept]_vars
  BY StepKeeps
<1> QED
  BY <1>1, TypeCorrect, Invariant, StepInvAlways, PTL DEF Spec, KeptForAWhile, Kept
===============================================================================
