---------------------------- MODULE BufferAllocator ----------------------------
(***************************************************************************)
(* ElsaCBufferAllocator, the SDK's segregated free-list allocator          *)
(* (memory/elsac_buffer_allocator), with several threads calling it.       *)
(*                                                                         *)
(* A block is known by its address. The four free lists are linked through *)
(* m_pPrevBuffer from m_pLast*Buffer; the list of blocks handed out, kept  *)
(* because _MEMORY_TRACE_ is always defined, uses the same field and       *)
(* m_pNextBuffer. A thread is inside a critical section between Lock and   *)
(* Unlock; a loop in it takes one step per iteration. The unlock is part   *)
(* of the last step of its section.                                        *)
(*                                                                         *)
(* Not in the model: the guard word behind a block and the file and line   *)
(* of its last allocation (no code decides on them), a failing malloc      *)
(* (its result is used unchecked), GetMemoryInfo (it changes nothing).     *)
(*                                                                         *)
(* Definitions called Mut_X are X with a plausible mistake in it.          *)
(***************************************************************************)
EXTENDS Integers, FiniteSets, FiniteSetsExt

CONSTANTS
  Threads,        (* the threads that call the allocator                    *)
  Blocks,         (* the addresses malloc can return; bounds the memory     *)
  NULL,           (* nullptr, or no thread                                  *)
  Requests,       (* the sizes clients ask for                              *)
  BufferFreeTick, (* how long a freed block is kept, 1000 ms in the code    *)
  MaxTick,        (* bound on the clock                                     *)
  MaxDrift,       (* bound on the error of the super class's counters       *)
  SizeMod,        (* size_t arithmetic is modulo SizeMod                    *)
  Debug           (* whether assert() is compiled in                        *)

ASSUME NullAssumption  == NULL \notin Threads /\ NULL \notin Blocks
ASSUME SizesAssumption == Requests \subseteq Nat
ASSUME TimeAssumption  == BufferFreeTick \in Nat /\ MaxTick \in Nat
ASSUME SizeModAssumption == SizeMod \in Nat \ {0}
ASSUME BlocksAssumption == IsFiniteSet(Blocks)

Small  == "small"
Middle == "middle"
Large  == "large"
Super  == "super"
Classes == {Small, Middle, Large, Super}

SmallBufferSize  == 64
MiddleBufferSize == 256
LargeBufferSize  == 1024

VARIABLES
  m_bMultThread,     (* whether the calls take the lock                     *)
  m_bufferLock,      (* the thread that holds the mutex, or NULL            *)
  m_pLast,           (* m_pLast{Small,Middle,Large,Super}Buffer             *)
  m_pLastAlloced,    (* m_pLastAllocedBuffer                                *)
  m_szAlloced,       (* m_szAlloced*Size, by class                          *)
  m_szFreed,         (* m_szFreed*Size, by class                            *)
  m_allocTotal,      (* bytes handed out, over all classes                  *)
  m_size,            (* size of each block, 0 while it is not malloc'ed     *)
  m_pPrev, m_pNext,  (* m_pPrevBuffer and m_pNextBuffer of each block       *)
  m_bUsedFlag, m_iFreeTick,
  pc,                (* where each thread is                                *)
  req,               (* the size it asks for                                *)
  arg,               (* the pointer it gave to Free or ReAlloc, or NULL     *)
  cur, keep,         (* pBuffer and pPrev (pLastBuffer in CheckFreeBuffers) *)
  list,              (* the free list it walks                              *)
  dwTick,            (* the time CheckFreeBuffers read                      *)
  own,               (* the pointers the thread's code holds                *)
  contents,          (* what each block's memory holds: its writer          *)
  freedAt,           (* history: when each block was last freed             *)
  now,               (* the tick counter                                    *)
  phase              (* "live", "destroyed", or the assertion that failed   *)

blockVars  == <<m_size, m_pPrev, m_pNext, m_bUsedFlag, m_iFreeTick>>
countVars  == <<m_szAlloced, m_szFreed, m_allocTotal>>
listVars   == <<m_pLast, m_pLastAlloced>>
localVars  == <<req, cur, keep, list, dwTick>>
clientVars == <<own, contents>>
vars == <<m_bMultThread, m_bufferLock, listVars, countVars, blockVars, pc, arg, localVars,
          clientVars, freedAt, now, phase>>

-------------------------------------------------------------------------------
(* Sizes. *)

\* The class a request is served from.
ClassOf(n) == CASE n <= SmallBufferSize  -> Small
                [] n > SmallBufferSize /\ n <= MiddleBufferSize -> Middle
                [] n > MiddleBufferSize /\ n <= LargeBufferSize -> Large
                [] OTHER -> Super

\* The free list a block of size n goes back to: sizes are compared with =.
ListOf(n) == CASE n = SmallBufferSize  -> Small
               [] n = MiddleBufferSize -> Middle
               [] n = LargeBufferSize  -> Large
               [] OTHER -> Super

Mut_BlockSize(n) == IF ClassOf(n) = Super THEN (n \div 512) * 512 ELSE n

\* What is malloc'ed for a request of n: a super block is a multiple of 512.
BlockSize(n) == CASE ClassOf(n) = Small  -> SmallBufferSize
                  [] ClassOf(n) = Middle -> MiddleBufferSize
                  [] ClassOf(n) = Large  -> LargeBufferSize
                  [] OTHER -> ((n + 511) \div 512) * 512

Fresh   == {b \in Blocks : m_size[b] = 0}
Used    == {b \in Blocks : m_size[b] # 0 /\ m_bUsedFlag[b]}
Cached  == {b \in Blocks : m_size[b] # 0 /\ ~m_bUsedFlag[b]}
CachedIn(c) == {b \in Cached : ListOf(m_size[b]) = c}

SumSizes(S) == MapThenSumSet(LAMBDA b : m_size[b], S)

\* size_t arithmetic, and two counters that do not wrap round.
SizeT == 0 .. SizeMod - 1
Plus(x, y) == (x + y) % SizeMod
Mut_MinusSigned(x, y)  == x - y
Mut_MinusClamped(x, y) == IF x < y THEN 0 ELSE x - y
Minus(x, y) == (x - y) % SizeMod

\* By how much m_szFreedSuperSize exceeds what the super list holds.
Drift == Minus(m_szFreed[Super], SumSizes(CachedIn(Super)))

\* The blocks met walking m_pPrevBuffer from h: those in every set that has h and
\* what follows.
Closed(S) == \A b \in S : m_pPrev[b] # NULL => m_pPrev[b] \in S
Chain(h) ==
  LET closed == {S \in SUBSET Blocks : (h # NULL => h \in S) /\ Closed(S)}
  IN {b \in Blocks : \A S \in closed : b \in S}

-------------------------------------------------------------------------------
(* The mutex, taken only in multi-threaded mode. *)

Critical == {"scan", "free", "sweep"}

Mut_Lock(t) == UNCHANGED m_bufferLock
Lock(t) == IF m_bMultThread
           THEN m_bufferLock = NULL /\ m_bufferLock' = t
           ELSE UNCHANGED m_bufferLock

Unlock == m_bufferLock' = IF m_bMultThread THEN NULL ELSE m_bufferLock

\* assert(cond): a failing one ends a debug build, and is nothing in a release one.
AssertHolds(cond, name) == phase' = IF Debug /\ ~cond THEN name ELSE phase

\* A client calls: it is not in a call already, and while the allocator is in
\* single-threaded mode no other thread is.
MayCall(t) == /\ pc[t] = "idle"
              /\ m_bMultThread \/ \A u \in Threads : pc[u] = "idle"

\* Bounds: every allocation under way can still malloc, and the super class's
\* counters are not yet off by more than MaxDrift.
Allocating == {u \in Threads : pc[u] \in {"alloc", "scan"}}
Room(n) == /\ Cardinality(Fresh) > Cardinality(Allocating)
           /\ ClassOf(n) = Super => Drift <= MaxDrift

Goto(t, l) == pc' = [pc EXCEPT ![t] = l]

\* The locals of a call go when it returns.
Forget(t) == /\ req'    = [req EXCEPT ![t] = 0]
             /\ cur'    = [cur EXCEPT ![t] = NULL]
             /\ keep'   = [keep EXCEPT ![t] = NULL]
             /\ list'   = [list EXCEPT ![t] = Small]
             /\ dwTick' = [dwTick EXCEPT ![t] = 0]

-------------------------------------------------------------------------------
(* _AllocBuffer *)

BeginAlloc(t, n, p) ==
  /\ Room(n)
  /\ Goto(t, "alloc")
  /\ req' = [req EXCEPT ![t] = n]
  /\ arg' = [arg EXCEPT ![t] = p]
  /\ UNCHANGED <<m_bMultThread, m_bufferLock, listVars, countVars, blockVars, cur, keep, list,
                 dwTick, clientVars, freedAt, now, phase>>

AllocBuffer(t, n) == MayCall(t) /\ BeginAlloc(t, n, NULL)

\* Lock, and read the head of the request's free list.
AllocLock(t) ==
  /\ pc[t] = "alloc"
  /\ Lock(t)
  /\ Goto(t, "scan")
  /\ list' = [list EXCEPT ![t] = ClassOf(req[t])]
  /\ cur'  = [cur EXCEPT ![t] = m_pLast[ClassOf(req[t])]]
  /\ keep' = [keep EXCEPT ![t] = NULL]
  /\ UNCHANGED <<m_bMultThread, listVars, countVars, blockVars, req, arg, dwTick,
                 clientVars, freedAt, now, phase>>

Mut_ScanNext(t) ==
  /\ pc[t] = "scan"
  /\ cur[t] # NULL
  /\ m_size[cur[t]] < req[t]
  /\ keep' = [keep EXCEPT ![t] = cur[t]]
  /\ UNCHANGED <<m_bMultThread, m_bufferLock, listVars, countVars, blockVars, pc, req, arg,
                 cur, list, dwTick, clientVars, freedAt, now, phase>>

\* First fit: a super block too small for the request is passed over. (A block
\* of the other lists always fits.)
ScanNext(t) ==
  /\ pc[t] = "scan"
  /\ cur[t] # NULL
  /\ m_size[cur[t]] < req[t]
  /\ keep' = [keep EXCEPT ![t] = cur[t]]
  /\ cur'  = [cur EXCEPT ![t] = m_pPrev[cur[t]]]
  /\ UNCHANGED <<m_bMultThread, m_bufferLock, listVars, countVars, blockVars, pc, req, arg,
                 list, dwTick, clientVars, freedAt, now, phase>>

\* The client is given the block and fills it; inside ReAlloc it is not yet.
Deliver(t, b) ==
  IF arg[t] = NULL
  THEN /\ Goto(t, "idle")
       /\ Forget(t)
       /\ own' = [own EXCEPT ![t] = @ \cup {b}]
       /\ contents' = [contents EXCEPT ![b] = t]
  ELSE /\ Goto(t, "copy")
       /\ cur' = [cur EXCEPT ![t] = b]
       /\ UNCHANGED <<req, keep, list, dwTick, clientVars>>

\* The block goes at the end of the list of blocks handed out. prev is the
\* m_pPrevBuffer the block and the others have after the block left its free list.
Trace(b, prev) ==
  /\ m_pPrev' = [prev EXCEPT ![b] = m_pLastAlloced]
  /\ m_pNext' = [x \in Blocks |-> IF x = b THEN NULL
                                  ELSE IF x = m_pLastAlloced THEN b ELSE m_pNext[x]]
  /\ m_pLastAlloced' = b
  /\ m_bUsedFlag' = [m_bUsedFlag EXCEPT ![b] = TRUE]
  /\ m_iFreeTick' = [m_iFreeTick EXCEPT ![b] = 0]
  /\ freedAt' = [freedAt EXCEPT ![b] = 0]

\* m_pPrevBuffer of the other blocks once b, found after k, leaves a free list.
Mut_Unlinked(b, k, head) == m_pPrev
Unlinked(b, k, head) == IF b # head /\ k # NULL THEN [m_pPrev EXCEPT ![k] = m_pPrev[b]]
                                               ELSE m_pPrev

\* A block of the free list is reused: unlinked, counted by the size asked for
\* when it is a super block, traced.
Take(t) ==
  LET b == cur[t]
      c == list[t]
      n == IF c = Super THEN req[t] ELSE m_size[b]
  IN /\ pc[t] = "scan"
     /\ b # NULL
     /\ m_size[b] >= req[t]
     /\ AssertHolds(c = Super => m_bUsedFlag[b], "assert_reuse")
     /\ m_pLast' = [m_pLast EXCEPT ![c] = IF b = @ THEN m_pPrev[b] ELSE @]
     /\ Trace(b, Unlinked(b, keep[t], m_pLast[c]))
     /\ m_szFreed' = [m_szFreed EXCEPT ![c] = Minus(@, n)]
     /\ m_szAlloced' = [m_szAlloced EXCEPT ![c] = Plus(@, n)]
     /\ m_allocTotal' = Plus(m_allocTotal, m_size[b])
     /\ Deliver(t, b)
     /\ Unlock
     /\ UNCHANGED <<m_bMultThread, m_size, arg, now>>

\* No block of the free list will do: malloc gives a new one.
Malloc(t, b) ==
  LET n == BlockSize(req[t])
      c == list[t]
  IN /\ pc[t] = "scan"
     /\ cur[t] = NULL
     /\ b \in Fresh
     /\ m_size' = [m_size EXCEPT ![b] = n]
     /\ Trace(b, m_pPrev)
     /\ m_szAlloced' = [m_szAlloced EXCEPT ![c] = Plus(@, n)]
     /\ m_allocTotal' = Plus(m_allocTotal, n)
     /\ Deliver(t, b)
     /\ Unlock
     /\ UNCHANGED <<m_bMultThread, m_pLast, m_szFreed, arg, now, phase>>

-------------------------------------------------------------------------------
(* _FreeBuffer *)

\* From here on the pointer is the allocator's, not the client's.
BeginFree(t, b) ==
  /\ Goto(t, "release")
  /\ arg' = [arg EXCEPT ![t] = b]

FreeBuffer(t, b) ==
  /\ MayCall(t)
  /\ b \in own[t]
  /\ BeginFree(t, b)
  /\ own' = [own EXCEPT ![t] = @ \ {b}]
  /\ UNCHANGED <<m_bMultThread, m_bufferLock, listVars, countVars, blockVars, localVars,
                 contents, freedAt, now, phase>>

Mut_FreeLock(t) ==
  /\ pc[t] = "release"
  /\ Goto(t, "free")
  /\ UNCHANGED <<m_bMultThread, m_bufferLock, listVars, countVars, blockVars, arg, localVars,
                 clientVars, freedAt, now, phase>>

FreeLock(t) ==
  /\ pc[t] = "release"
  /\ Lock(t)
  /\ Goto(t, "free")
  /\ UNCHANGED <<m_bMultThread, listVars, countVars, blockVars, arg, localVars,
                 clientVars, freedAt, now, phase>>

\* The block leaves the list of blocks handed out, whose neighbours and tail are
\* mended, and becomes the head of the free list of its size.
Free(t) ==
  LET b == arg[t]
      c == ListOf(m_size[b])
  IN /\ pc[t] = "free"
     /\ AssertHolds(m_bUsedFlag[b], "assert_double_free")
     /\ m_bUsedFlag' = [m_bUsedFlag EXCEPT ![b] = FALSE]
     /\ m_pNext' = [x \in Blocks |-> IF x = b THEN NULL
                                     ELSE IF x = m_pPrev[b] THEN m_pNext[b] ELSE m_pNext[x]]
     /\ m_pPrev' = [x \in Blocks |-> IF x = b THEN m_pLast[c]
                                     ELSE IF x = m_pNext[b] THEN m_pPrev[b] ELSE m_pPrev[x]]
     /\ m_pLastAlloced' = IF b = m_pLastAlloced THEN m_pPrev[b] ELSE m_pLastAlloced
     /\ m_pLast' = [m_pLast EXCEPT ![c] = b]
     /\ m_iFreeTick' = [m_iFreeTick EXCEPT ![b] = now + BufferFreeTick]
     /\ m_szAlloced' = [m_szAlloced EXCEPT ![c] = Minus(@, m_size[b])]
     /\ m_szFreed' = [m_szFreed EXCEPT ![c] = Plus(@, m_size[b])]
     /\ m_allocTotal' = Minus(m_allocTotal, m_size[b])
     /\ freedAt' = [freedAt EXCEPT ![b] = now]
     /\ Goto(t, "idle")
     /\ arg' = [arg EXCEPT ![t] = NULL]
     /\ Unlock
     /\ UNCHANGED <<m_bMultThread, m_size, localVars, clientVars, now>>

-------------------------------------------------------------------------------
(* _ReAllocBuffer. A size of 0 is a call of FreeBuffer, a null pointer a call  *)
(* of AllocBuffer, and a size the block already has returns the same pointer   *)
(* and changes nothing; what is left allocates, copies, frees, and takes the   *)
(* lock once for each.                                                         *)

ReAllocBuffer(t, b, n) ==
  /\ MayCall(t)
  /\ b \in own[t]
  /\ n > m_size[b]
  /\ BeginAlloc(t, n, b)

Mut_Copy(t) ==
  /\ pc[t] = "copy"
  /\ own' = [own EXCEPT ![t] = (@ \ {arg[t]}) \cup {cur[t]}]
  /\ BeginFree(t, arg[t])
  /\ Forget(t)
  /\ UNCHANGED <<m_bMultThread, m_bufferLock, listVars, countVars, blockVars, contents, freedAt,
                 now, phase>>

\* memcpy to the new block, outside the lock; then the old one is freed.
Copy(t) ==
  /\ pc[t] = "copy"
  /\ contents' = [contents EXCEPT ![cur[t]] = contents[arg[t]]]
  /\ own' = [own EXCEPT ![t] = (@ \ {arg[t]}) \cup {cur[t]}]
  /\ BeginFree(t, arg[t])
  /\ Forget(t)
  /\ UNCHANGED <<m_bMultThread, m_bufferLock, listVars, countVars, blockVars, freedAt, now,
                 phase>>

-------------------------------------------------------------------------------
(* CheckFreeBuffers, and GC which is a call of it. *)

\* The time is read before the lock is taken.
CheckFreeBuffers(t) ==
  /\ MayCall(t)
  /\ dwTick' = [dwTick EXCEPT ![t] = now]
  /\ Goto(t, "gc")
  /\ UNCHANGED <<m_bMultThread, m_bufferLock, listVars, countVars, blockVars, arg, req, cur,
                 keep, list, clientVars, freedAt, now, phase>>

StartList(t, c) ==
  /\ list' = [list EXCEPT ![t] = c]
  /\ cur'  = [cur EXCEPT ![t] = m_pLast[c]]
  /\ keep' = [keep EXCEPT ![t] = NULL]

SweepLock(t) ==
  /\ pc[t] = "gc"
  /\ Lock(t)
  /\ Goto(t, "sweep")
  /\ StartList(t, Small)
  /\ UNCHANGED <<m_bMultThread, listVars, countVars, blockVars, req, arg, dwTick,
                 clientVars, freedAt, now, phase>>

Mut_Expired(t, b) == dwTick[t] >= freedAt[b]
Expired(t, b) == dwTick[t] >= m_iFreeTick[b]

\* An expired block is unlinked and goes back to the system.
SweepFree(t) ==
  LET b == cur[t]
      c == list[t]
  IN /\ pc[t] = "sweep"
     /\ b # NULL
     /\ Expired(t, b)
     /\ m_pLast' = [m_pLast EXCEPT ![c] = IF b = @ THEN m_pPrev[b] ELSE @]
     /\ m_pPrev' = [x \in Blocks |-> IF x = b THEN NULL
                                     ELSE IF x = keep[t] THEN m_pPrev[b] ELSE m_pPrev[x]]
     /\ m_szFreed' = [m_szFreed EXCEPT ![c] = Minus(@, m_size[b])]
     /\ m_size' = [m_size EXCEPT ![b] = 0]
     /\ contents' = [contents EXCEPT ![b] = NULL]
     /\ m_iFreeTick' = [m_iFreeTick EXCEPT ![b] = 0]
     /\ freedAt' = [freedAt EXCEPT ![b] = 0]
     /\ cur' = [cur EXCEPT ![t] = m_pPrev[b]]
     /\ UNCHANGED <<m_bMultThread, m_bufferLock, m_pLastAlloced, m_szAlloced, m_allocTotal,
                    m_pNext, m_bUsedFlag, pc, req, arg, keep, list, dwTick, own, now, phase>>

SweepKeep(t) ==
  /\ pc[t] = "sweep"
  /\ cur[t] # NULL
  /\ ~Expired(t, cur[t])
  /\ keep' = [keep EXCEPT ![t] = cur[t]]
  /\ cur'  = [cur EXCEPT ![t] = m_pPrev[cur[t]]]
  /\ UNCHANGED <<m_bMultThread, m_bufferLock, listVars, countVars, blockVars, pc, req, arg,
                 list, dwTick, clientVars, freedAt, now, phase>>

NextList == [c \in {Small, Middle, Large} |->
               CASE c = Small -> Middle [] c = Middle -> Large [] c = Large -> Super]

SweepNextList(t) ==
  /\ pc[t] = "sweep"
  /\ cur[t] = NULL
  /\ list[t] # Super
  /\ StartList(t, NextList[list[t]])
  /\ UNCHANGED <<m_bMultThread, m_bufferLock, listVars, countVars, blockVars, pc, req, arg,
                 dwTick, clientVars, freedAt, now, phase>>

SweepEnd(t) ==
  /\ pc[t] = "sweep"
  /\ cur[t] = NULL
  /\ list[t] = Super
  /\ Goto(t, "idle")
  /\ Forget(t)
  /\ Unlock
  /\ UNCHANGED <<m_bMultThread, listVars, countVars, blockVars, arg, clientVars, freedAt, now,
                 phase>>

-------------------------------------------------------------------------------
(* SetMultiThread, the destructor, and time. *)

\* The mode is changed while no call is under way: Lock and Unlock each read it.
SetMultiThread(flag) ==
  /\ \A t \in Threads : pc[t] = "idle"
  /\ m_bMultThread' = flag
  /\ UNCHANGED <<m_bufferLock, listVars, countVars, blockVars, pc, arg, localVars, clientVars,
                 freedAt, now, phase>>

\* The blocks the destructor meets on the free lists.
Mut_FreeListBlocks == UNION {Chain(m_pLast[c]) : c \in Classes \ {Super}}
FreeListBlocks == UNION {Chain(m_pLast[c]) : c \in Classes}

\* They are freed, then those still handed out, which a debug build reports with
\* assert(false).
Destroy ==
  LET leaked == Chain(m_pLastAlloced)
  IN /\ \A t \in Threads : pc[t] = "idle"
     /\ phase' = IF Debug /\ leaked # {} THEN "assert_leak" ELSE "destroyed"
     /\ m_size' = [b \in Blocks |-> IF b \in FreeListBlocks \cup leaked THEN 0 ELSE m_size[b]]
     /\ own' = [t \in Threads |-> {}]
     /\ UNCHANGED <<m_bMultThread, m_bufferLock, listVars, countVars, m_pPrev, m_pNext,
                    m_bUsedFlag, m_iFreeTick, pc, arg, localVars, contents, freedAt, now>>

Tick ==
  /\ now < MaxTick
  /\ now' = now + 1
  /\ UNCHANGED <<m_bMultThread, m_bufferLock, listVars, countVars, blockVars, pc, arg,
                 localVars, clientVars, freedAt, phase>>

-------------------------------------------------------------------------------
Init ==
  /\ m_bMultThread = FALSE
  /\ m_bufferLock = NULL
  /\ m_pLast = [c \in Classes |-> NULL]
  /\ m_pLastAlloced = NULL
  /\ m_szAlloced = [c \in Classes |-> 0]
  /\ m_szFreed = [c \in Classes |-> 0]
  /\ m_allocTotal = 0
  /\ m_size = [b \in Blocks |-> 0]
  /\ m_pPrev = [b \in Blocks |-> NULL]
  /\ m_pNext = [b \in Blocks |-> NULL]
  /\ m_bUsedFlag = [b \in Blocks |-> FALSE]
  /\ m_iFreeTick = [b \in Blocks |-> 0]
  /\ pc = [t \in Threads |-> "idle"]
  /\ req = [t \in Threads |-> 0]
  /\ arg = [t \in Threads |-> NULL]
  /\ cur = [t \in Threads |-> NULL]
  /\ keep = [t \in Threads |-> NULL]
  /\ list = [t \in Threads |-> Small]
  /\ dwTick = [t \in Threads |-> 0]
  /\ own = [t \in Threads |-> {}]
  /\ contents = [b \in Blocks |-> NULL]
  /\ freedAt = [b \in Blocks |-> 0]
  /\ now = 0
  /\ phase = "live"

\* The steps of a call that has begun.
Step(t) == \/ AllocLock(t) \/ ScanNext(t) \/ Take(t) \/ (\E b \in Blocks : Malloc(t, b))
           \/ FreeLock(t) \/ Free(t) \/ Copy(t)
           \/ SweepLock(t) \/ SweepFree(t) \/ SweepKeep(t) \/ SweepNextList(t) \/ SweepEnd(t)

\* The calls a thread's code makes.
Call(t) == \/ \E n \in Requests : AllocBuffer(t, n)
           \/ \E b \in Blocks : FreeBuffer(t, b)
           \/ \E b \in Blocks, n \in Requests : ReAllocBuffer(t, b, n)
           \/ CheckFreeBuffers(t)

Next == /\ phase = "live"
        /\ \/ \E t \in Threads : Call(t) \/ Step(t)
           \/ \E flag \in BOOLEAN : SetMultiThread(flag)
           \/ Destroy
           \/ Tick

\* A thread that is in a call goes on; when a call is made is the clients' affair.
Spec == Init /\ [][Next]_vars /\ \A t \in Threads : WF_vars(phase = "live" /\ Step(t))

-------------------------------------------------------------------------------
(* Properties. *)

ListsType == /\ m_pLast \in [Classes -> Blocks \cup {NULL}]
             /\ m_pLastAlloced \in Blocks \cup {NULL}
             /\ m_szAlloced \in [Classes -> SizeT]
             /\ m_szFreed \in [Classes -> SizeT]
             /\ m_allocTotal \in SizeT
BlocksType == /\ m_size \in [Blocks -> Nat]
              /\ m_pPrev \in [Blocks -> Blocks \cup {NULL}]
              /\ m_pNext \in [Blocks -> Blocks \cup {NULL}]
              /\ m_bUsedFlag \in [Blocks -> BOOLEAN]
              /\ m_iFreeTick \in [Blocks -> Nat]
              /\ contents \in [Blocks -> Threads \cup {NULL}]
              /\ freedAt \in [Blocks -> Nat]
CallsType == /\ pc \in [Threads -> {"idle", "alloc", "scan", "copy", "release", "free", "gc",
                                    "sweep"}]
             /\ req \in [Threads -> Nat]
             /\ arg \in [Threads -> Blocks \cup {NULL}]
             /\ cur \in [Threads -> Blocks \cup {NULL}]
             /\ keep \in [Threads -> Blocks \cup {NULL}]
             /\ list \in [Threads -> Classes]
             /\ dwTick \in [Threads -> Nat]
             /\ own \in [Threads -> SUBSET Blocks]
             /\ \A t \in Threads : pc[t] \in {"copy", "release", "free"} => arg[t] \in Blocks
             /\ \A t \in Threads : pc[t] = "copy" => cur[t] \in Blocks

TypeOK == /\ m_bMultThread \in BOOLEAN
          /\ m_bufferLock \in Threads \cup {NULL}
          /\ ListsType
          /\ BlocksType
          /\ CallsType
          /\ now \in Nat
          /\ phase \in {"live", "destroyed", "assert_reuse", "assert_double_free", "assert_leak"}

\* The blocks that are some thread's: those its code holds, the one ReAlloc has
\* obtained and not yet returned, the one on its way to the free list.
InHand(t) == CASE pc[t] = "copy" -> {cur[t]}
               [] pc[t] \in {"release", "free"} -> {arg[t]}
               [] OTHER -> {}
Held(t) == own[t] \cup InHand(t)

\* Two threads never hold the same block, and a held block is marked used, so
\* that no free list hands it out again and no sweep returns it.
ExclusiveOwnership ==
  phase = "live" =>
    /\ \A t, u \in Threads : t # u => Held(t) \cap Held(u) = {}
    /\ \A t \in Threads : Held(t) \subseteq Used /\ own[t] \cap InHand(t) = {}

\* The memory a thread holds has what that thread wrote to it, across ReAlloc's
\* copy and whatever the other threads do.
Integrity == phase = "live" => \A t \in Threads : \A b \in own[t] : contents[b] = t

\* Walking a list from its tail pointer meets exactly the blocks it should: no
\* block is lost by an unlink, none is on two lists, no list has a cycle that
\* hides the rest.
ListsExact == phase = "live" =>
                /\ \A c \in Classes : Chain(m_pLast[c]) = CachedIn(c)
                /\ Chain(m_pLastAlloced) = Used

\* The counters GetMemoryInfo and the memory counter report are the sizes of the
\* blocks on the lists. For super blocks only the sum of the two is right: a
\* reused one is counted by the size asked for.
Accounting ==
  LET used(c) == {b \in Used : ListOf(m_size[b]) = c}
  IN phase = "live" =>
       /\ m_allocTotal = SumSizes(Used)
       /\ \A c \in Classes \ {Super} : /\ m_szAlloced[c] = SumSizes(used(c))
                                       /\ m_szFreed[c] = SumSizes(CachedIn(c))
       /\ (m_szAlloced[Super] + m_szFreed[Super]) % SizeMod
            = SumSizes(used(Super) \cup CachedIn(Super)) % SizeMod

\* A block a thread is given has at least the size it asked for.
FitsRequest ==
  [][\A t \in Threads : \A b \in own'[t] \ own[t] : m_size'[b] >= req[t]]_vars

\* A freed block stays at least BufferFreeTick in its free list unless it is
\* reused: the sweep's clock is read early, so it may free late but not early.
KeptForAWhile ==
  [][\A b \in Cached : m_size'[b] = 0 /\ phase' = "live" => now >= freedAt[b] + BufferFreeTick]_vars

\* The destructor returns every block to the system.
NothingLeftBehind == phase = "destroyed" => Fresh = Blocks

\* A thread inside a critical section leaves it: every walk under the lock ends.
SectionsEnd == \A t \in Threads : pc[t] \in Critical ~> pc[t] \notin Critical

\* The allocator does what BlockOwnership promises.
Owner == [b \in Blocks |-> IF \E t \in Threads : b \in Held(t)
                           THEN CHOOSE t \in Threads : b \in Held(t)
                           ELSE IF m_size[b] = 0 THEN "system" ELSE "cache"]
Ownership == INSTANCE BlockOwnership WITH Clients <- Threads, Cache <- "cache",
                                          System <- "system", owner <- Owner
ImplementsOwnership == Ownership!Spec

\* The assertion made when a super block is reused: its used flag is set (line 192).
ReuseAssertHolds == phase # "assert_reuse"
===============================================================================
