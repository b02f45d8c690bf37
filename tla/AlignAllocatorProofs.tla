-------------------------- MODULE AlignAllocatorProofs --------------------------
(***************************************************************************)
(* Proof that the headers of ElsaCAlignAllocator count the blocks in use,  *)
(* for any threads, sizes and alignment.                                   *)
(***************************************************************************)
EXTENDS AlignAllocator, FiniteSetTheorems, TLAPS

Sizes == Nat \ {0}
Holds(b) == b.size <= b.mem /\ (Small(b.size) => b.mem = (Idx(b.size) + 1) * Align)
Blocks == {b \in [size : Sizes, mem : Sizes] : Holds(b)}
Snapshots == [total : [Classes -> Int], freed : [Classes -> Int], allocated : Int]

\* _AllocBuffer asserts that a size is not 0, and whoever makes an allocator gives it
\* a largest size that is a multiple of the alignment (2048 and 8, 1024 and 16).
Parameters == /\ Align \in Nat \ {0} /\ MaxSize \in Nat /\ MaxSize % Align = 0
              /\ Counts \subseteq Sizes /\ IsFiniteSet(Threads)
              /\ NULL \notin Threads \cup Blocks \cup Snapshots \cup Int

\* The class of a size has a header, and its memory holds that size.
LEMMA ClassHolds ==
  ASSUME Parameters, NEW n \in Sizes
  PROVE  /\ Idx(n) \in Nat /\ n <= (Idx(n) + 1) * Align
         /\ Small(n) => Idx(n) \in Classes
<1>1. PICK q, r, k : q = n \div Align /\ r = n % Align /\ k = MaxSize \div Align
  OBVIOUS
<1>2. /\ Align \in Nat /\ Align > 0 /\ MaxSize \in Nat /\ n \in Nat /\ n > 0
      /\ q \in Nat /\ r \in Nat /\ r < Align /\ k \in Nat
      /\ n = Align * q + r /\ MaxSize = Align * k
  BY <1>1 DEF Parameters, Sizes
<1>3. CASE r = 0
  <2>1. q > 0
    BY <1>2, <1>3
  <2>2. n <= MaxSize => q <= k
    BY <1>2, <1>3
  <2> QED
    BY <1>1, <1>2, <1>3, <2>1, <2>2 DEF Idx, Small, Classes
<1>4. CASE r # 0
  <2>1. n <= MaxSize => q < k
    BY <1>2, <1>4
  <2>2. n <= (q + 1) * Align
    BY <1>2
  <2> QED
    BY <1>1, <1>2, <1>4, <2>1, <2>2 DEF Idx, Small, Classes
<1> QED
  BY <1>2, <1>3, <1>4

(* ---- the invariant --------------------------------------------------------- *)

TypeOK == /\ total \in [Classes -> Int] /\ freed \in [Classes -> Int] /\ allocated \in Int
          /\ pc \in [Threads -> {"idle", "alloc", "free", "resize"}]
          /\ want \in [Threads -> Nat]
          /\ own \in [Threads -> Blocks \cup {NULL}] /\ old \in [Threads -> Blocks \cup {NULL}]
          /\ seen \in [Threads -> Snapshots \cup Int \cup {NULL}]

\* Only who holds the lock has read the counters, which nobody changed since.
LockInv(t) ==
  /\ pc[t] = "idle" => seen[t] = NULL
  /\ pc[t] = "resize" => seen[t] \in Int
  /\ pc[t] \in {"alloc", "free"} /\ seen[t] # NULL =>
       mutex = t /\ seen[t] \in Snapshots /\ seen[t].total = total /\ seen[t].freed = freed

\* A thread has two blocks only while it moves one to a larger one.
CallInv(t) ==
  /\ pc[t] \in {"idle", "resize"} => old[t] = NULL
  /\ pc[t] = "alloc" => own[t] = NULL /\ want[t] \in Sizes /\ (old[t] # NULL => want[t] > old[t].size)
  /\ pc[t] = "free" => old[t] # NULL /\ (own[t] # NULL => own[t].size > old[t].size)

\* The blocks a header counts.
OfClass(i) == {b \in InUse : Small(b[2].size) /\ Idx(b[2].size) = i}
CountInv == \A i \in Classes : total[i] - freed[i] = Cardinality(OfClass(i))

Inv == /\ TypeOK
       /\ \A t \in Threads : LockInv(t) /\ CallInv(t)
       /\ CountInv

(* ---- the blocks in use ------------------------------------------------------ *)

\* The blocks of thread t that header i counts.
Counted(t, i) == {b \in {own[t], old[t]} : b # NULL /\ Small(b.size) /\ Idx(b.size) = i}

LEMMA InUseFinite ==
  ASSUME Parameters, NEW i
  PROVE  IsFiniteSet(OfClass(i))
<1>1. PICK P, Q : P = {<<t, own[t]>> : t \in Threads} /\ Q = {<<t, old[t]>> : t \in Threads}
  OBVIOUS
<1>2. IsFiniteSet(P)
  <2>1. [t \in Threads |-> <<t, own[t]>>] \in Surjection(Threads, P)
    BY <1>1 DEF Surjection
  <2> QED
    BY <2>1, FS_Surjection DEF Parameters
<1>3. IsFiniteSet(Q)
  <2>1. [t \in Threads |-> <<t, old[t]>>] \in Surjection(Threads, Q)
    BY <1>1 DEF Surjection
  <2> QED
    BY <2>1, FS_Surjection DEF Parameters
<1>4. IsFiniteSet(P \cup Q)
  BY <1>2, <1>3, FS_Union
<1>5. OfClass(i) \in SUBSET (P \cup Q)
  BY <1>1 DEF OfClass, InUse
<1> QED
  BY <1>4, <1>5, FS_Subset

LEMMA Pairs ==
  ASSUME NEW i, NEW x
  PROVE  /\ x \in OfClass(i) <=> \E t \in Threads : \E b \in Counted(t, i) : x = <<t, b>>
         /\ x \in OfClass(i)' <=> \E t \in Threads : \E b \in Counted(t, i)' : x = <<t, b>>
<1>1. /\ \A b \in InUse : Small(b[2].size) <=> b[2].size <= MaxSize
      /\ x \in OfClass(i) <=> x \in InUse /\ Small(x[2].size) /\ Idx(x[2].size) = i
      /\ x \in InUse <=> \E t \in Threads : (x = <<t, own[t]>> \/ x = <<t, old[t]>>) /\ x[2] # NULL
  BY DEF OfClass, InUse, Small
<1>2. x \in OfClass(i)' <=> \E t \in Threads : /\ x = <<t, own'[t]>> \/ x = <<t, old'[t]>>
                                               /\ x[2] # NULL /\ Small(x[2].size) /\ Idx(x[2].size) = i
  BY DEF OfClass, InUse
<1>3. \A t, b : /\ b \in Counted(t, i) <=> b \in {own[t], old[t]} /\ b # NULL /\ Small(b.size) /\ Idx(b.size) = i
                /\ b \in Counted(t, i)' <=> b \in {own'[t], old'[t]} /\ b # NULL /\ Small(b.size) /\ Idx(b.size) = i
  BY DEF Counted
<1> QED
  BY <1>1, <1>2, <1>3

\* A step of one thread changes what is counted of that thread only.
LEMMA StepOf ==
  ASSUME NEW t \in Threads, NEW i, \A u \in Threads \ {t} : own'[u] = own[u] /\ old'[u] = old[u]
  PROVE  OfClass(i)' = (OfClass(i) \ ({t} \X Counted(t, i))) \cup ({t} \X Counted(t, i)')
<1>1. \A u \in Threads \ {t} : Counted(u, i)' = Counted(u, i)
  BY DEF Counted
<1> QED
  BY <1>1, Pairs

\* What a step of a thread does to the number of blocks in use of a class.
LEMMA CountStep ==
  ASSUME Parameters, NEW t \in Threads, NEW i,
         \A u \in Threads \ {t} : own'[u] = own[u] /\ old'[u] = old[u]
  PROVE  /\ Counted(t, i)' = Counted(t, i) => Cardinality(OfClass(i)') = Cardinality(OfClass(i))
         /\ \A b : b \notin Counted(t, i) /\ Counted(t, i)' = Counted(t, i) \cup {b}
                     => Cardinality(OfClass(i)') = Cardinality(OfClass(i)) + 1
         /\ \A b : b \in Counted(t, i) /\ Counted(t, i)' = Counted(t, i) \ {b}
                     => Cardinality(OfClass(i)') = Cardinality(OfClass(i)) - 1
         /\ \A b, c : Counted(t, i) = {b} /\ Counted(t, i)' = {c}
                     => Cardinality(OfClass(i)') = Cardinality(OfClass(i))
<1> PICK C : C = OfClass(i)
  OBVIOUS
<1>1. IsFiniteSet(C) /\ Cardinality(C) \in Nat
  BY InUseFinite, FS_CardinalityType
<1>2. \A b : <<t, b>> \in C <=> b \in Counted(t, i)
  BY Pairs
<1>3. OfClass(i)' = (C \ ({t} \X Counted(t, i))) \cup ({t} \X Counted(t, i)')
  BY StepOf
<1>4. ASSUME Counted(t, i)' = Counted(t, i)
      PROVE  OfClass(i)' = C
  BY <1>2, <1>3, <1>4
<1>5. ASSUME NEW b, b \notin Counted(t, i), Counted(t, i)' = Counted(t, i) \cup {b}
      PROVE  Cardinality(OfClass(i)') = Cardinality(C) + 1
  <2>1. OfClass(i)' = C \cup {<<t, b>>} /\ <<t, b>> \notin C
    BY <1>2, <1>3, <1>5
  <2> QED
    BY <1>1, <2>1, FS_AddElement
<1>6. ASSUME NEW b, b \in Counted(t, i), Counted(t, i)' = Counted(t, i) \ {b}
      PROVE  Cardinality(OfClass(i)') = Cardinality(C) - 1
  <2>1. OfClass(i)' = C \ {<<t, b>>} /\ <<t, b>> \in C
    BY <1>2, <1>3, <1>6
  <2> QED
    BY <1>1, <2>1, FS_RemoveElement
<1>7. ASSUME NEW b, NEW c, Counted(t, i) = {b}, Counted(t, i)' = {c}
      PROVE  Cardinality(OfClass(i)') = Cardinality(C)
  <2> PICK D : D = C \ {<<t, b>>}
    OBVIOUS
  <2>1. /\ OfClass(i)' = D \cup {<<t, c>>}
        /\ <<t, b>> \in C /\ <<t, c>> \notin D
    BY <1>2, <1>3, <1>7
  <2>2. IsFiniteSet(C \ {<<t, b>>}) /\ Cardinality(C \ {<<t, b>>}) = Cardinality(C) - 1
    BY <1>1, <2>1, FS_RemoveElement
  <2>3. Cardinality(D \cup {<<t, c>>}) = Cardinality(D) + 1
    BY <2>1, <2>2, FS_AddElement
  <2> QED
    BY <1>1, <2>1, <2>2, <2>3
<1> QED
  BY <1>4, <1>5, <1>6, <1>7

(* ---- the steps ------------------------------------------------------------- *)

LEMMA InitInv ==
  ASSUME Parameters, Init
  PROVE  Inv
<1>1. TypeOK
  BY DEF Init, TypeOK
<1>2. \A t \in Threads : LockInv(t) /\ CallInv(t)
  BY DEF Init, LockInv, CallInv
<1>3. \A i : OfClass(i) = {}
  BY DEF Init, OfClass, InUse
<1>4. CountInv
  BY <1>3, FS_EmptySet DEF Init, CountInv
<1> QED
  BY <1>1, <1>2, <1>4 DEF Inv

\* A block of another size of the same class still fits its memory.
LEMMA SameClass ==
  ASSUME Parameters, NEW b \in Blocks, NEW n \in Sizes, Small(b.size), Small(n), Idx(b.size) = Idx(n)
  PROVE  [b EXCEPT !.size = n] \in Blocks
<1>1. n <= (Idx(n) + 1) * Align
  BY ClassHolds
<1>2. b.mem = (Idx(n) + 1) * Align /\ b.mem \in Sizes
  BY DEF Blocks, Holds
<1>3. PICK c : c = [b EXCEPT !.size = n]
  OBVIOUS
<1>4. c \in [size : Sizes, mem : Sizes] /\ c.size = n /\ c.mem = b.mem
  BY <1>3 DEF Blocks
<1> QED
  BY <1>1, <1>2, <1>3, <1>4 DEF Blocks, Holds

\* The blocks that are made.
LEMMA NewBlock ==
  ASSUME Parameters, NEW n \in Sizes
  PROVE  /\ Small(n) => [size |-> n, mem |-> (Idx(n) + 1) * Align] \in Blocks
         /\ ~Small(n) => [size |-> n, mem |-> n] \in Blocks
<1>1. PICK i : i = Idx(n)
  OBVIOUS
<1>2. i \in Nat /\ n <= (i + 1) * Align /\ n \in Nat /\ n > 0 /\ Align \in Nat
  BY <1>1, ClassHolds DEF Parameters, Sizes
<1>3. PICK m : m = (i + 1) * Align
  OBVIOUS
<1>4. m \in Sizes /\ n <= m
  BY <1>2, <1>3 DEF Sizes
<1> QED
  BY <1>1, <1>2, <1>3, <1>4 DEF Blocks, Holds, Sizes

\* A step that leaves the counters alone and what a thread has counted.
LEMMA CountKept ==
  ASSUME Parameters, CountInv, NEW t \in Threads, UNCHANGED <<total, freed>>,
         \A u \in Threads \ {t} : own'[u] = own[u] /\ old'[u] = old[u],
         \A i \in Classes : \/ Counted(t, i)' = Counted(t, i)
                            \/ \E b, c : Counted(t, i) = {b} /\ Counted(t, i)' = {c}
  PROVE  CountInv'
<1>1. \A i \in Classes : Cardinality(OfClass(i)') = Cardinality(OfClass(i))
  BY CountStep
<1> QED
  BY <1>1 DEF CountInv

\* A step of thread t leaves what another one may rely on, unless it takes the lock
\* from it: it changes the mutex or the counters when nobody else holds the lock.
LEMMA OthersKept ==
  ASSUME Parameters, Inv, NEW t \in Threads, NEW u \in Threads \ {t},
         pc'[u] = pc[u], want'[u] = want[u], own'[u] = own[u], old'[u] = old[u], seen'[u] = seen[u],
         UNCHANGED <<total, freed, mutex>> \/ mutex \in {NULL, t}
  PROVE  LockInv(u)' /\ CallInv(u)'
<1>1. LockInv(u) /\ CallInv(u)
  BY DEF Inv
<1>2. CallInv(u)'
  BY <1>1 DEF CallInv
<1>3. CASE UNCHANGED <<total, freed, mutex>>
  BY <1>1, <1>2, <1>3 DEF LockInv
<1>4. CASE mutex \in {NULL, t}
  <2>1. mutex # u
    BY <1>4 DEF Parameters
  <2> QED
    BY <1>1, <1>2, <2>1 DEF LockInv
<1> QED
  BY <1>3, <1>4

LEMMA AllocStep ==
  ASSUME Parameters, Inv, NEW t \in Threads, NEW n \in Counts, Alloc(t, n)
  PROVE  Inv'
<1>1. n \in Sizes /\ n \in Nat /\ TypeOK /\ LockInv(t) /\ CallInv(t) /\ CountInv
  BY DEF Parameters, Inv, Sizes
<1>2. TypeOK'
  BY <1>1 DEF Alloc, Goto, TypeOK
<1>3. LockInv(t)' /\ CallInv(t)'
  BY <1>1 DEF Alloc, Goto, TypeOK, LockInv, CallInv
<1>4. \A u \in Threads \ {t} : LockInv(u)' /\ CallInv(u)'
  BY OthersKept DEF Alloc, Goto, Inv, TypeOK
<1>5. \A i : Counted(t, i)' = Counted(t, i)
  BY DEF Alloc, Counted
<1>6. CountInv'
  BY <1>1, <1>5, CountKept DEF Alloc
<1> QED
  BY <1>2, <1>3, <1>4, <1>6 DEF Inv

LEMMA FreeStep ==
  ASSUME Parameters, Inv, NEW t \in Threads, Free(t)
  PROVE  Inv'
<1>1. TypeOK /\ LockInv(t) /\ CallInv(t) /\ CountInv
  BY DEF Inv
<1>2. TypeOK'
  BY <1>1 DEF Free, Goto, TypeOK
<1>3. LockInv(t)' /\ CallInv(t)'
  BY <1>1 DEF Free, Goto, TypeOK, LockInv, CallInv
<1>4. \A u \in Threads \ {t} : LockInv(u)' /\ CallInv(u)'
  BY OthersKept DEF Free, Goto, Inv, TypeOK
<1>5. \A i : Counted(t, i)' = Counted(t, i)
  BY <1>1 DEF Free, Counted, TypeOK, CallInv
<1>6. CountInv'
  BY <1>1, <1>5, CountKept DEF Free, TypeOK
<1> QED
  BY <1>2, <1>3, <1>4, <1>6 DEF Inv

LEMMA GrowStep ==
  ASSUME Parameters, Inv, NEW t \in Threads, NEW n \in Counts, Grow(t, n)
  PROVE  Inv'
<1>1. /\ n \in Sizes /\ TypeOK /\ LockInv(t) /\ CallInv(t) /\ CountInv
      /\ pc[t] = "idle" /\ old[t] = NULL
  BY DEF Parameters, Inv, Grow, MayGrow, CallInv
<1>2. PICK b \in Blocks : b = own[t] /\ b # NULL
  BY <1>1 DEF Grow, MayGrow, TypeOK
<1>3. PICK c : c = [b EXCEPT !.size = n]
  OBVIOUS
<1>4. /\ own' = [own EXCEPT ![t] = c]
      /\ b.size \in Nat /\ n \in Nat /\ MaxSize \in Nat /\ n > b.size /\ n <= MaxSize
      /\ Small(b.size) /\ Small(n) /\ Idx(b.size) = Idx(n) /\ c.size = n
  BY <1>1, <1>2, <1>3 DEF Grow, MayGrow, Blocks, Sizes, Small, Parameters
<1>5. c \in Blocks /\ c # NULL
  BY <1>1, <1>2, <1>3, <1>4, SameClass DEF Parameters
<1>6. TypeOK'
  BY <1>1, <1>4, <1>5 DEF Grow, TypeOK
<1>7. own'[t] = c /\ \A u \in Threads \ {t} : own'[u] = own[u]
  BY <1>1, <1>4 DEF TypeOK
<1>8. LockInv(t)' /\ CallInv(t)'
  BY <1>1 DEF Grow, LockInv, CallInv
<1>9. \A u \in Threads \ {t} : LockInv(u)' /\ CallInv(u)'
  BY <1>7, OthersKept DEF Grow
<1>10. \A i : \/ Counted(t, i)' = Counted(t, i)
              \/ Counted(t, i) = {b} /\ Counted(t, i)' = {c}
  BY <1>1, <1>2, <1>4, <1>5, <1>7 DEF Grow, Counted
<1>11. CountInv'
  BY <1>1, <1>7, <1>10, CountKept DEF Grow
<1> QED
  BY <1>6, <1>8, <1>9, <1>11 DEF Inv

LEMMA GrowLargeStep ==
  ASSUME Parameters, Inv, NEW t \in Threads, NEW n \in Counts, GrowLarge(t, n)
  PROVE  Inv'
<1>1. /\ n \in Sizes /\ TypeOK /\ LockInv(t) /\ CallInv(t) /\ CountInv
      /\ pc[t] = "idle" /\ old[t] = NULL
  BY DEF Parameters, Inv, GrowLarge, MayGrow, CallInv
<1>2. PICK b \in Blocks : b = own[t] /\ b # NULL /\ b.size \in Nat
  BY <1>1 DEF GrowLarge, MayGrow, TypeOK, Blocks, Sizes
<1>3. PICK c : c = [size |-> n, mem |-> n]
  OBVIOUS
<1>4. own' = [own EXCEPT ![t] = c] /\ ~Small(b.size) /\ ~Small(n) /\ c.size = n
  BY <1>2, <1>3 DEF GrowLarge
<1>5. c \in Blocks /\ c # NULL
  BY <1>1, <1>3, <1>4, NewBlock DEF Parameters
<1>6. PICK k \in Int : k = allocated + n - b.size
  BY <1>1, <1>2 DEF TypeOK, Sizes
<1>7. seen' = [seen EXCEPT ![t] = k]
  BY <1>2, <1>6 DEF GrowLarge
<1>8. TypeOK'
  BY <1>1, <1>4, <1>5, <1>6, <1>7 DEF GrowLarge, Goto, TypeOK
<1>9. /\ own'[t] = c /\ seen'[t] = k /\ pc'[t] = "resize"
      /\ \A u \in Threads \ {t} : own'[u] = own[u] /\ seen'[u] = seen[u] /\ pc'[u] = pc[u]
  BY <1>1, <1>4, <1>7 DEF GrowLarge, Goto, TypeOK
<1>10. LockInv(t)' /\ CallInv(t)'
  BY <1>1, <1>6, <1>9 DEF GrowLarge, LockInv, CallInv
<1>11. \A u \in Threads \ {t} : LockInv(u)' /\ CallInv(u)'
  BY <1>9, OthersKept DEF GrowLarge
<1>12. \A i : Counted(t, i)' = Counted(t, i)
  BY <1>1, <1>2, <1>4, <1>9 DEF GrowLarge, Counted
<1>13. CountInv'
  BY <1>1, <1>9, <1>12, CountKept DEF GrowLarge
<1> QED
  BY <1>8, <1>10, <1>11, <1>13 DEF Inv

LEMMA MoveStep ==
  ASSUME Parameters, Inv, NEW t \in Threads, NEW n \in Counts, Move(t, n)
  PROVE  Inv'
<1>1. n \in Sizes /\ n \in Nat /\ TypeOK /\ LockInv(t) /\ CallInv(t) /\ CountInv
  BY DEF Parameters, Inv, Sizes
<1>2. TypeOK'
  BY <1>1 DEF Move, Goto, TypeOK
<1>3. LockInv(t)' /\ CallInv(t)'
  BY <1>1 DEF Move, MayGrow, Goto, TypeOK, LockInv, CallInv
<1>4. \A u \in Threads \ {t} : LockInv(u)' /\ CallInv(u)'
  BY OthersKept DEF Move, Goto, Inv, TypeOK
<1>5. \A i : Counted(t, i)' = Counted(t, i)
  BY <1>1 DEF Move, MayGrow, Counted, TypeOK, CallInv
<1>6. CountInv'
  BY <1>1, <1>5, CountKept DEF Move, TypeOK
<1> QED
  BY <1>2, <1>3, <1>4, <1>6 DEF Inv

LEMMA ResizeStep ==
  ASSUME Parameters, Inv, NEW t \in Threads, Resize(t)
  PROVE  Inv'
<1>1. TypeOK /\ LockInv(t) /\ CallInv(t) /\ CountInv
  BY DEF Inv
<1>2. TypeOK'
  BY <1>1 DEF Resize, Goto, TypeOK, LockInv
<1>3. LockInv(t)' /\ CallInv(t)'
  BY <1>1 DEF Resize, Goto, TypeOK, LockInv, CallInv
<1>4. \A u \in Threads \ {t} : LockInv(u)' /\ CallInv(u)'
  BY OthersKept DEF Resize, Goto, Inv, TypeOK
<1>5. \A i : Counted(t, i)' = Counted(t, i)
  BY DEF Resize, Counted
<1>6. CountInv'
  BY <1>1, <1>5, CountKept DEF Resize
<1> QED
  BY <1>2, <1>3, <1>4, <1>6 DEF Inv

LEMMA EnterStep ==
  ASSUME Parameters, Inv, NEW t \in Threads, Enter(t)
  PROVE  Inv'
<1>1. TypeOK /\ CallInv(t) /\ CountInv
  BY DEF Inv
<1>2. PICK s \in Snapshots : s = [total |-> total, freed |-> freed, allocated |-> allocated]
  BY <1>1 DEF TypeOK, Snapshots
<1>3. /\ seen' = [seen EXCEPT ![t] = s] /\ s.total = total /\ s.freed = freed
      /\ UNCHANGED <<total, freed, allocated, pc, want, own, old>>
      /\ mutex = NULL /\ mutex' = t /\ pc[t] \in {"alloc", "free"}
  BY <1>2 DEF Enter, Lock, callVars
<1>4. TypeOK'
  BY <1>1, <1>3 DEF TypeOK
<1>5. seen'[t] = s /\ \A u \in Threads \ {t} : seen'[u] = seen[u]
  BY <1>1, <1>3 DEF TypeOK
<1>6. LockInv(t)' /\ CallInv(t)'
  BY <1>1, <1>3, <1>5 DEF LockInv, CallInv
<1>7. \A u \in Threads \ {t} : LockInv(u)' /\ CallInv(u)'
  BY <1>3, <1>5, OthersKept
<1>8. \A i : Counted(t, i)' = Counted(t, i)
  BY <1>3 DEF Counted
<1>9. CountInv'
  BY <1>1, <1>3, <1>8, CountKept
<1> QED
  BY <1>4, <1>6, <1>7, <1>9 DEF Inv

\* The counter of the block's class is one more, and the others stay.
LEMMA AllocateStep ==
  ASSUME Parameters, Inv, NEW t \in Threads, Allocate(t)
  PROVE  Inv'
<1>1. PICK n : n = want[t]
  OBVIOUS
<1>2. /\ TypeOK /\ CallInv(t) /\ CountInv /\ n \in Sizes /\ n \in Nat
      /\ own[t] = NULL /\ (old[t] # NULL => n > old[t].size)
      /\ mutex = t /\ seen[t] \in Snapshots /\ seen[t].total = total /\ seen[t].freed = freed
  BY <1>1 DEF Inv, Allocate, LockInv, CallInv, Sizes
<1>3. PICK c : c = [size |-> n, mem |-> IF Small(n) THEN (Idx(n) + 1) * Align ELSE n]
  OBVIOUS
<1>4. c \in Blocks /\ c # NULL /\ c.size = n
  BY <1>2, <1>3, NewBlock DEF Parameters
<1>5. PICK k : k = Idx(n)
  OBVIOUS
<1>6. Small(n) => k \in Classes
  BY <1>2, <1>5, ClassHolds
<1>7. /\ own' = [own EXCEPT ![t] = c] /\ seen' = [seen EXCEPT ![t] = NULL] /\ mutex' = NULL
      /\ total' = IF Small(n) THEN [total EXCEPT ![k] = total[k] + 1] ELSE total
      /\ pc' = [pc EXCEPT ![t] = IF old[t] = NULL THEN "idle" ELSE "free"]
      /\ UNCHANGED <<freed, want, old>>
  BY <1>1, <1>2, <1>3, <1>5 DEF Allocate, Goto, Leave
<1>8. allocated' \in Int
  <2>1. seen[t].allocated \in Int
    BY <1>2 DEF Snapshots
  <2>2. PICK m \in Nat : m = IF Small(n) THEN (Idx(n) + 1) * Align ELSE n
    BY <1>3, <1>4, <1>2 DEF Blocks, Sizes
  <2>3. allocated' = seen[t].allocated + m
    BY <1>1, <2>2 DEF Allocate
  <2> QED
    BY <2>1, <2>3
<1>9. TypeOK'
  BY <1>2, <1>4, <1>6, <1>7, <1>8 DEF TypeOK
<1>10. /\ own'[t] = c /\ seen'[t] = NULL /\ pc'[t] = IF old[t] = NULL THEN "idle" ELSE "free"
       /\ \A u \in Threads \ {t} : own'[u] = own[u] /\ seen'[u] = seen[u] /\ pc'[u] = pc[u]
  BY <1>2, <1>7 DEF TypeOK
<1>11. LockInv(t)' /\ CallInv(t)'
  BY <1>2, <1>4, <1>7, <1>10 DEF LockInv, CallInv
<1>12. \A u \in Threads \ {t} : LockInv(u)' /\ CallInv(u)'
  BY <1>2, <1>7, <1>10, OthersKept
<1>13. old[t] # NULL => old[t] # c
  BY <1>2, <1>4 DEF TypeOK, Blocks, Sizes
<1>14. ASSUME NEW i \in Classes
       PROVE  total'[i] - freed'[i] = Cardinality(OfClass(i))'
  <2>1. total[i] - freed[i] = Cardinality(OfClass(i)) /\ total[i] \in Int /\ freed[i] \in Int
    BY <1>2 DEF CountInv, TypeOK
  <2>2. CASE Small(n) /\ i = k
    <3>1. c \notin Counted(t, i) /\ Counted(t, i)' = Counted(t, i) \cup {c}
      BY <1>2, <1>4, <1>5, <1>7, <1>10, <1>13, <2>2 DEF Counted
    <3>2. Cardinality(OfClass(i)') = Cardinality(OfClass(i)) + 1
      BY <1>7, <1>10, <3>1, CountStep
    <3>3. total'[i] = total[i] + 1
      BY <1>2, <1>7, <2>2 DEF TypeOK
    <3> QED
      BY <1>7, <2>1, <3>2, <3>3
  <2>3. CASE ~(Small(n) /\ i = k)
    <3>1. Counted(t, i)' = Counted(t, i)
      BY <1>2, <1>4, <1>5, <1>7, <1>10, <2>3 DEF Counted
    <3>2. Cardinality(OfClass(i)') = Cardinality(OfClass(i))
      BY <1>7, <1>10, <3>1, CountStep
    <3>3. total'[i] = total[i]
      BY <1>2, <1>7, <2>3 DEF TypeOK
    <3> QED
      BY <1>7, <2>1, <3>2, <3>3
  <2> QED
    BY <2>2, <2>3
<1> QED
  BY <1>9, <1>11, <1>12, <1>14 DEF Inv, CountInv

LEMMA DeallocateStep ==
  ASSUME Parameters, Inv, NEW t \in Threads, Deallocate(t)
  PROVE  Inv'
<1>1. PICK n, b : b = old[t] /\ n = b.size
  OBVIOUS
<1>2. /\ TypeOK /\ CallInv(t) /\ CountInv /\ b # NULL
      /\ own[t] # NULL => own[t].size > b.size
      /\ mutex = t /\ seen[t] \in Snapshots /\ seen[t].total = total /\ seen[t].freed = freed
  BY <1>1 DEF Inv, Deallocate, LockInv, CallInv
<1>3. b \in Blocks /\ n \in Sizes /\ n \in Nat
  BY <1>1, <1>2 DEF TypeOK, Blocks, Sizes
<1>4. PICK k : k = Idx(n)
  OBVIOUS
<1>5. Small(n) => k \in Classes
  BY <1>3, <1>4, ClassHolds
<1>6. /\ old' = [old EXCEPT ![t] = NULL] /\ seen' = [seen EXCEPT ![t] = NULL] /\ mutex' = NULL
      /\ freed' = IF Small(n) THEN [freed EXCEPT ![k] = freed[k] + 1] ELSE freed
      /\ pc' = [pc EXCEPT ![t] = "idle"]
      /\ UNCHANGED <<total, want, own>>
  BY <1>1, <1>2, <1>4 DEF Deallocate, Goto, Leave
<1>7. allocated' \in Int
  <2>1. seen[t].allocated \in Int /\ allocated \in Int
    BY <1>2 DEF Snapshots, TypeOK
  <2>2. allocated' = IF Small(n) THEN allocated ELSE seen[t].allocated - n
    BY <1>1 DEF Deallocate
  <2> QED
    BY <1>3, <2>1, <2>2
<1>8. TypeOK'
  BY <1>2, <1>5, <1>6, <1>7 DEF TypeOK
<1>9. /\ old'[t] = NULL /\ seen'[t] = NULL /\ pc'[t] = "idle"
      /\ \A u \in Threads \ {t} : old'[u] = old[u] /\ seen'[u] = seen[u] /\ pc'[u] = pc[u]
  BY <1>2, <1>6 DEF TypeOK
<1>10. LockInv(t)' /\ CallInv(t)'
  BY <1>9 DEF LockInv, CallInv
<1>11. \A u \in Threads \ {t} : LockInv(u)' /\ CallInv(u)'
  BY <1>2, <1>6, <1>9, OthersKept
<1>12. own[t] # NULL => own[t] # b
  BY <1>2, <1>3 DEF TypeOK, Blocks, Sizes
<1>13. ASSUME NEW i \in Classes
       PROVE  total'[i] - freed'[i] = Cardinality(OfClass(i))'
  <2>1. total[i] - freed[i] = Cardinality(OfClass(i)) /\ total[i] \in Int /\ freed[i] \in Int
    BY <1>2 DEF CountInv, TypeOK
  <2>2. CASE Small(n) /\ i = k
    <3>1. b \in Counted(t, i) /\ Counted(t, i)' = Counted(t, i) \ {b}
      BY <1>1, <1>2, <1>4, <1>6, <1>9, <1>12, <2>2 DEF Counted
    <3>2. Cardinality(OfClass(i)') = Cardinality(OfClass(i)) - 1
      BY <1>6, <1>9, <3>1, CountStep
    <3>3. freed'[i] = freed[i] + 1
      BY <1>2, <1>6, <2>2 DEF TypeOK
    <3> QED
      BY <1>6, <2>1, <3>2, <3>3
  <2>3. CASE ~(Small(n) /\ i = k)
    <3>1. Counted(t, i)' = Counted(t, i)
      BY <1>1, <1>2, <1>4, <1>6, <1>9, <2>3 DEF Counted
    <3>2. Cardinality(OfClass(i)') = Cardinality(OfClass(i))
      BY <1>6, <1>9, <3>1, CountStep
    <3>3. freed'[i] = freed[i]
      BY <1>2, <1>6, <2>3 DEF TypeOK
    <3> QED
      BY <1>6, <2>1, <3>2, <3>3
  <2> QED
    BY <2>2, <2>3
<1> QED
  BY <1>8, <1>10, <1>11, <1>13 DEF Inv, CountInv

LEMMA DestroyStep ==
  ASSUME Parameters, Inv, Destroy
  PROVE  Inv'
<1>1. TypeOK /\ \A t \in Threads : pc[t] = "idle" /\ own[t] = NULL /\ LockInv(t) /\ CallInv(t)
  BY DEF Inv, Destroy
<1>2. TypeOK'
  BY <1>1 DEF Destroy, callVars, TypeOK
<1>3. \A t \in Threads : LockInv(t)' /\ CallInv(t)'
  BY <1>1 DEF Destroy, callVars, LockInv, CallInv
<1>4. \A i : OfClass(i)' = {}
  BY <1>1 DEF Destroy, callVars, CallInv, OfClass, InUse
<1>5. CountInv'
  BY <1>4, FS_EmptySet DEF Destroy, CountInv
<1> QED
  BY <1>2, <1>3, <1>5 DEF Inv

LEMMA NextInv ==
  ASSUME Parameters, Inv, [Next]_vars
  PROVE  Inv'
<1>1. CASE UNCHANGED vars
  BY <1>1 DEF Inv, TypeOK, LockInv, CallInv, CountInv, OfClass, InUse, vars, callVars
<1>2. CASE Destroy
  BY <1>2, DestroyStep
<1>3. ASSUME NEW t \in Threads, Free(t) \/ Resize(t) \/ Enter(t) \/ Allocate(t) \/ Deallocate(t)
      PROVE  Inv'
  BY <1>3, FreeStep, ResizeStep, EnterStep, AllocateStep, DeallocateStep
<1>4. ASSUME NEW t \in Threads, NEW n \in Counts, Alloc(t, n) \/ Grow(t, n) \/ GrowLarge(t, n) \/ Move(t, n)
      PROVE  Inv'
  BY <1>4, AllocStep, GrowStep, GrowLargeStep, MoveStep
<1> QED
  BY <1>1, <1>2, <1>3, <1>4 DEF Next

\* Whoever reads the counters holds the lock until it has written them, and a thread
\* has two blocks only while it moves one to a larger one.
THEOREM Invariant ==
  ASSUME Parameters
  PROVE  Spec => []Inv
<1>1. Init => Inv
  BY InitInv
<1>2. Inv /\ [Next]_vars => Inv'
  BY NextInv
<1> QED
  BY <1>1, <1>2, PTL DEF Spec

\* A block's memory holds what was asked for, its size tells the class it was counted
\* in, and the headers count exactly the blocks in use, whatever the threads do: the
\* assertion of the destructor.
THEOREM HeadersExact ==
  ASSUME Parameters
  PROVE  Spec => []CountersAgree
<1>1. ASSUME Inv
      PROVE  CountersAgree
  <2>1. \A b \in InUse : b[2] \in Blocks
    BY <1>1 DEF Inv, TypeOK, InUse
  <2>2. \A b \in InUse : b[2].size <= b[2].mem /\ (Small(b[2].size) => b[2].mem = (Idx(b[2].size) + 1) * Align)
    BY <2>1 DEF Blocks, Holds
  <2> QED
    BY <1>1, <2>2 DEF Inv, CountInv, OfClass, CountersAgree
<1>2. Inv => CountersAgree
  BY <1>1
<1> QED
  BY <1>2, Invariant, PTL
================================================================================
