---------------------------- MODULE AlignAllocator ----------------------------
(***************************************************************************)
(* ElsaCAlignAllocator, used by several threads. A request of up to        *)
(* m_iMaxSize bytes gets a block whose size is a multiple of m_iAlign,     *)
(* counted in the header of its size class; a larger one gets what it      *)
(* asks for. A freed block is counted but never linked: _FreeBuffer sets   *)
(* m_pFirst to the m_pNext it has just set to m_pFirst. So m_pFirst is     *)
(* null for ever, the branch of _AllocBuffer that reuses a block and the   *)
(* loop of GC never run, and the lists are left out here.                  *)
(***************************************************************************)
EXTENDS Integers, FiniteSets

CONSTANTS Threads, NULL,
          MaxSize, Align,   (* m_iMaxSize and m_iAlign                       *)
          Counts,           (* the sizes asked for                           *)
          MaxTotal, MaxAllocated   (* bounds on the counters                 *)

VARIABLES total, freed,  (* m_iTotal and m_iFree of each header             *)
          allocated,     (* m_allocTotal                                    *)
          mutex,         (* who holds m_bufferLock                          *)
          pc,            (* what a thread is about to do                    *)
          want,          (* the size it asks for                            *)
          own,           (* its block: m_iSize and the size of its memory   *)
          old,           (* the block ReAlloc still has to free             *)
          seen           (* the counters as a thread read them              *)

callVars == <<pc, want, own, old>>
vars == <<total, freed, allocated, mutex, callVars, seen>>

Classes == 0 .. MaxSize \div Align - 1

\* GetAlignIdx
Idx(n) == IF n % Align = 0 THEN n \div Align - 1 ELSE n \div Align
Small(n) == n <= MaxSize

Init == /\ total = [i \in Classes |-> 0] /\ freed = [i \in Classes |-> 0]
        /\ allocated = 0 /\ mutex = NULL
        /\ pc = [t \in Threads |-> "idle"] /\ want = [t \in Threads |-> 0]
        /\ own = [t \in Threads |-> NULL] /\ old = [t \in Threads |-> NULL]
        /\ seen = [t \in Threads |-> NULL]

Goto(t, label) == pc' = [pc EXCEPT ![t] = label]

\* The bounds: no memory is asked for once a counter has gone this far.
Bounded == allocated \in 0..MaxAllocated /\ \A i \in Classes : total[i] <= MaxTotal

\* _AllocBuffer(n) and _FreeBuffer are called.
Alloc(t, n) == /\ pc[t] = "idle" /\ own[t] = NULL /\ Bounded
               /\ Goto(t, "alloc") /\ want' = [want EXCEPT ![t] = n]
               /\ UNCHANGED <<total, freed, allocated, mutex, own, old, seen>>
Free(t) == /\ pc[t] = "idle" /\ own[t] # NULL
           /\ Goto(t, "free")
           /\ own' = [own EXCEPT ![t] = NULL] /\ old' = [old EXCEPT ![t] = own[t]]
           /\ UNCHANGED <<total, freed, allocated, mutex, want, seen>>

\* _ReAllocBuffer reads the block's m_iSize and decides, without the lock; a block
\* that is large enough stays as it is.
MayGrow(t, n) == Bounded /\ pc[t] = "idle" /\ own[t] # NULL /\ n > own[t].size

\* The block's memory has room for n: only its m_iSize changes.
Grow(t, n) == /\ MayGrow(t, n) /\ Small(n) /\ Idx(own[t].size) = Idx(n)
              /\ own' = [own EXCEPT ![t].size = n]
              /\ UNCHANGED <<total, freed, allocated, mutex, pc, want, old, seen>>

\* A large block is reallocated, and m_allocTotal read to be written in a later step.
GrowLarge(t, n) ==
  /\ MayGrow(t, n) /\ ~Small(own[t].size) /\ ~Small(n)
  /\ own' = [own EXCEPT ![t] = [size |-> n, mem |-> n]]
  /\ seen' = [seen EXCEPT ![t] = allocated + n - own[t].size]
  /\ Goto(t, "resize")
  /\ UNCHANGED <<total, freed, allocated, mutex, want, old>>

Mut_Move(t, n) ==
  /\ MayGrow(t, n) /\ own' = [own EXCEPT ![t].size = n]
  /\ UNCHANGED <<total, freed, allocated, mutex, pc, want, old, seen>>
\* Otherwise a new block is allocated, and the old one copied and freed.
Move(t, n) == /\ MayGrow(t, n) /\ Small(own[t].size) /\ Idx(own[t].size) # Idx(n)
              /\ Goto(t, "alloc") /\ want' = [want EXCEPT ![t] = n]
              /\ old' = [old EXCEPT ![t] = own[t]] /\ own' = [own EXCEPT ![t] = NULL]
              /\ UNCHANGED <<total, freed, allocated, mutex, seen>>

Resize(t) == /\ pc[t] = "resize"
             /\ allocated' = seen[t] /\ seen' = [seen EXCEPT ![t] = NULL] /\ Goto(t, "idle")
             /\ UNCHANGED <<total, freed, mutex, want, own, old>>

Mut_Lock(t) == UNCHANGED mutex
Lock(t) == mutex = NULL /\ mutex' = t

\* The counters are read under the lock ...
Enter(t) == /\ pc[t] \in {"alloc", "free"} /\ seen[t] = NULL /\ Lock(t)
            /\ seen' = [seen EXCEPT ![t] = [total |-> total, freed |-> freed, allocated |-> allocated]]
            /\ UNCHANGED <<total, freed, allocated, callVars>>

\* ... and written before it is released.
Leave(t) == /\ seen' = [seen EXCEPT ![t] = NULL] /\ mutex' = NULL

Allocate(t) ==
  LET n == want[t] IN
  /\ pc[t] = "alloc" /\ seen[t] # NULL
  /\ IF Small(n)
     THEN LET mem == (Idx(n) + 1) * Align IN
          /\ total' = [total EXCEPT ![Idx(n)] = seen[t].total[Idx(n)] + 1]
          /\ allocated' = seen[t].allocated + mem
          /\ own' = [own EXCEPT ![t] = [size |-> n, mem |-> mem]]
     ELSE /\ allocated' = seen[t].allocated + n
          /\ own' = [own EXCEPT ![t] = [size |-> n, mem |-> n]]
          /\ UNCHANGED total
  /\ Goto(t, IF old[t] = NULL THEN "idle" ELSE "free")
  /\ Leave(t) /\ UNCHANGED <<freed, want, old>>

Deallocate(t) ==
  LET n == old[t].size IN
  /\ pc[t] = "free" /\ seen[t] # NULL
  /\ IF Small(n)
     THEN /\ freed' = [freed EXCEPT ![Idx(n)] = seen[t].freed[Idx(n)] + 1]
          /\ UNCHANGED allocated
     ELSE /\ allocated' = seen[t].allocated - n
          /\ UNCHANGED freed
  /\ Goto(t, "idle") /\ old' = [old EXCEPT ![t] = NULL]
  /\ Leave(t) /\ UNCHANGED <<total, want, own>>

\* The allocator is destroyed, which its destructor asserts is done when every
\* block was given back, and another one made.
Destroy == /\ \A t \in Threads : pc[t] = "idle" /\ own[t] = NULL
           /\ \A i \in Classes : total[i] = freed[i]
           /\ total' = [i \in Classes |-> 0] /\ freed' = total' /\ allocated' = 0
           /\ UNCHANGED <<mutex, callVars, seen>>

Next == \/ Destroy
        \/ \E t \in Threads :
          \/ Free(t) \/ Resize(t) \/ Enter(t) \/ Allocate(t) \/ Deallocate(t)
          \/ \E n \in Counts : Alloc(t, n) \/ Grow(t, n) \/ GrowLarge(t, n) \/ Move(t, n)

Spec == Init /\ [][Next]_vars

InUse == {b \in {<<t, own[t]>> : t \in Threads} \cup {<<t, old[t]>> : t \in Threads} : b[2] # NULL}

\* The memory of a block holds what was asked for, its m_iSize still tells the
\* class it was counted in, and the headers count exactly the blocks in use: the
\* destructor asserts that every header's m_iTotal is its m_iFree when none is.
CountersAgree ==
  /\ \A b \in InUse : b[2].size <= b[2].mem /\ (Small(b[2].size) => b[2].mem = (Idx(b[2].size) + 1) * Align)
  /\ \A i \in Classes :
       total[i] - freed[i] = Cardinality({b \in InUse : Small(b[2].size) /\ Idx(b[2].size) = i})
===============================================================================
