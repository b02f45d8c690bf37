---------------------------- MODULE RefObjectProofs ----------------------------
(***************************************************************************)
(* Proofs about ElsaCRefObject, for any threads, handles and objects, when *)
(* the clients keep the rules and a count begins at 0: counts are exact,   *)
(* nothing freed is touched, and nothing is forgotten.                     *)
(*                                                                         *)
(* A handle under change has been given a pointer it has not counted, or   *)
(* has released the one it still holds. The others are settled: a count is *)
(* the number of settled handles that refer to the object and of calls     *)
(* that have counted it and not stored it yet. An object that a settled    *)
(* handle refers to is alive and nobody deletes it.                        *)
(***************************************************************************)
EXTENDS RefObject, FiniteSetTheorems, FunctionTheorems, SequenceTheorems, TLAPS

\* What the theorems require of the clients and of the constructor.
RulesKept == ClientRules = Rules /\ InitialCounts = {0}

Own(t) == {<<t, v>> : v \in Vars}

InChange  == {"addref", "delete", "store"}
Assigning == {"release", "delete", "store"}

Settled(h)   == \A t \in Threads : pc[t] \in InChange => dst[t] # h
Referring(o) == {h \in Handles : m_pRef[h] = o /\ Settled(h)}

\* A new object that its call has not counted.
Fresh(t, o) == /\ raw[t] /\ src[t] = NULL
               /\ \/ pc[t] = "addref" /\ m_pRef[dst[t]] = o
                  \/ pc[t] = "count" /\ pObj[t] = o
Doomed(t, o) == \E i \in 1..Len(doomed[t]) : doomed[t][i] = o

-------------------------------------------------------------------------------
(* The inductive invariant. *)

\* No two calls are on one handle, and none reads one that is being changed.
DstInv(t) ==
  pc[t] # "idle" =>
    /\ dst[t] \in Own(t) \/ (dst[t] \in Objs /\ Holds(t, dst[t]))
    /\ \A u \in Threads : pc[u] # "idle" => /\ u # t => dst[u] # dst[t]
                                            /\ src[u] # dst[t]

\* While a call may read a member handle of an object, its thread keeps the object.
SrcKept(t) == pc[t] # "idle" /\ (raw[t] => pc[t] = "count")
SrcInv(t) ==
  /\ pc[t] # "idle" /\ ~raw[t] => src[t] \in Handles
  /\ SrcKept(t) /\ src[t] \in Objs =>
       \E v \in Vars : /\ m_pRef[<<t, v>>] = src[t]
                       /\ ~raw[t] => <<t, v>> # dst[t]

\* What a call knows of the pointer it counts.
PtrInv(t) ==
  /\ pc[t] = "addref" => /\ m_pRef[dst[t]] # NULL
                         /\ ~raw[t] => m_pRef[src[t]] = m_pRef[dst[t]]
                         /\ raw[t] => src[t] = NULL
  /\ pc[t] = "count" /\ raw[t] => /\ pObj[t] # NULL
                                  /\ src[t] # NULL => m_pRef[src[t]] = pObj[t]
  /\ pc[t] \in Assigning /\ ~raw[t] => m_pRef[src[t]] = pObj[t]

\* Nobody but its maker knows of a new object.
FreshInv(t) ==
  \A o \in Objs : Fresh(t, o) => /\ live[o] /\ m_nRefer[o] = 0
                                 /\ \A u \in Threads : /\ Fresh(u, o) => u = t
                                                       /\ ~Doomed(u, o)

\* Nobody refers to an object that is being deleted, and it is deleted once.
DoomedInv(t) ==
  \A i \in 1..Len(doomed[t]) :
    /\ live[doomed[t][i]] /\ m_nRefer[doomed[t][i]] = 0
    /\ \A u \in Threads : \A j \in 1..Len(doomed[u]) :
         doomed[u][j] = doomed[t][i] => u = t /\ j = i

\* Counts are exact, freed objects are referred to by no one, and an object with
\* a count of zero is new or about to be deleted.
ObjInv(o) ==
  /\ live[o] => m_nRefer[o] = Cardinality(Referring(o)) + Cardinality(Counted(o))
  /\ ~live[o] => m_pRef[o] = NULL /\ Referring(o) = {} /\ Counted(o) = {}
  /\ live[o] /\ m_nRefer[o] = 0 => \E t \in Threads : Fresh(t, o) \/ Doomed(t, o)

ThreadInv(t) == DstInv(t) /\ SrcInv(t) /\ PtrInv(t) /\ FreshInv(t) /\ DoomedInv(t)
Inv == TypeOK /\ (\A t \in Threads : ThreadInv(t)) /\ (\A o \in Objs : ObjInv(o))

-------------------------------------------------------------------------------
(* Sets of handles and of threads. *)

LEMMA SetsFinite ==
  ASSUME NEW o
  PROVE  /\ IsFiniteSet(Referring(o)) /\ IsFiniteSet(Counted(o))
         /\ Cardinality(Referring(o)) \in Nat /\ Cardinality(Counted(o)) \in Nat
         /\ Referring(o) # {} => Cardinality(Referring(o)) >= 1
         /\ Counted(o) # {} => Cardinality(Counted(o)) >= 1
<1>1. Referring(o) \subseteq Handles /\ Counted(o) \subseteq Threads
  BY DEF Referring, Counted
<1>2. IsFiniteSet(Referring(o)) /\ IsFiniteSet(Counted(o))
  BY <1>1, FiniteAssumption, FS_Subset
<1>3. Cardinality(Referring(o)) \in Nat /\ Cardinality(Counted(o)) \in Nat
  BY <1>2, FS_CardinalityType
<1>4. /\ Cardinality(Referring(o)) = 0 <=> Referring(o) = {}
      /\ Cardinality(Counted(o)) = 0 <=> Counted(o) = {}
  BY <1>2, FS_EmptySet
<1> QED
  BY <1>2, <1>3, <1>4

\* The call of a thread has a handle; nobody else's call has a local of its own.
LEMMA HandlesOfCalls ==
  ASSUME Inv, NEW t \in Threads
  PROVE  /\ Own(t) \subseteq Handles
         /\ NULL \notin Handles
         /\ pc[t] # "idle" => dst[t] \in Handles
         /\ \A u \in Threads : u # t /\ pc[u] # "idle" => dst[u] \notin Own(t)
<1>1. Own(t) \subseteq Locals /\ NULL \notin Handles
  BY NullAssumption DEF Own, Locals, Handles
<1>2. pc[t] # "idle" => dst[t] \in Handles
  BY DEF Inv, TypeOK
<1>3. \A u \in Threads : u # t /\ pc[u] # "idle" => dst[u] \notin Own(t)
  BY <1>1, ObjsAssumption DEF Inv, ThreadInv, DstInv, Own
<1> QED
  BY <1>1, <1>2, <1>3 DEF Handles

\* What a settled handle refers to, or a call has counted, is alive, and is neither
\* new nor about to be deleted.
LEMMA ReferredTo ==
  ASSUME Inv, NEW o \in Objs, Referring(o) # {} \/ Counted(o) # {}
  PROVE  /\ live[o]
         /\ m_nRefer[o] >= 1
         /\ \A t \in Threads : ~Fresh(t, o) /\ ~Doomed(t, o)
<1>1. live[o]
  BY DEF Inv, ObjInv
<1>2. m_nRefer[o] >= 1
  BY <1>1, SetsFinite DEF Inv, ObjInv
<1>3. \A t \in Threads : ~Fresh(t, o) /\ ~Doomed(t, o)
  BY <1>2 DEF Inv, ThreadInv, FreshInv, DoomedInv, Doomed
<1> QED
  BY <1>1, <1>2, <1>3

\* The source of a call is settled.
LEMMA SourceSettled ==
  ASSUME Inv, NEW t \in Threads, pc[t] # "idle"
  PROVE  Settled(src[t])
BY DEF Inv, ThreadInv, DstInv, Settled, InChange

\* A thread's own local is settled but when it is what its call changes.
LEMMA OwnSettled ==
  ASSUME Inv, NEW t \in Threads, NEW h \in Own(t), pc[t] \in InChange => dst[t] # h
  PROVE  Settled(h)
BY HandlesOfCalls DEF Settled, InChange

\* An object whose member a call changes is alive ...
LEMMA TargetKept ==
  ASSUME Inv, NEW t \in Threads, pc[t] # "idle", dst[t] \in Objs
  PROVE  Referring(dst[t]) # {}
<1>1. PICK v \in Vars : m_pRef[<<t, v>>] = dst[t]
  BY HandlesOfCalls, ObjsAssumption DEF Inv, ThreadInv, DstInv, Own, Locals, Holds
<1>2. <<t, v>> \in Own(t) /\ <<t, v>> \in Locals /\ <<t, v>> \in Handles
  BY HandlesOfCalls DEF Own, Locals
<1>3. dst[t] # <<t, v>>
  BY <1>2, ObjsAssumption
<1>4. Settled(<<t, v>>)
  BY <1>2, <1>3, OwnSettled
<1> QED
  BY <1>1, <1>2, <1>4 DEF Referring

\* ... and so is one whose member it is going to read.
LEMMA SourceKept ==
  ASSUME Inv, NEW t \in Threads, SrcKept(t), src[t] \in Objs
  PROVE  Referring(src[t]) # {}
<1>1. PICK v \in Vars : /\ m_pRef[<<t, v>>] = src[t]
                        /\ ~raw[t] => <<t, v>> # dst[t]
  BY DEF Inv, ThreadInv, SrcInv
<1>2. <<t, v>> \in Own(t) /\ <<t, v>> \in Handles
  BY HandlesOfCalls DEF Own
<1>3. pc[t] \in InChange => dst[t] # <<t, v>>
  BY <1>1 DEF SrcKept, InChange
<1>4. Settled(<<t, v>>)
  BY <1>2, <1>3, OwnSettled
<1> QED
  BY <1>1, <1>2, <1>4 DEF Referring

\* So nobody has a call on the member of an object that is being deleted.
LEMMA DoomedMember ==
  ASSUME Inv, NEW t \in Threads, NEW o \in Objs, Doomed(t, o)
  PROVE  /\ Referring(o) = {} /\ Counted(o) = {}
         /\ Settled(o)
         /\ \A u \in Threads : /\ pc[u] # "idle" => dst[u] # o
                               /\ SrcKept(u) => src[u] # o
<1>1. Referring(o) = {} /\ Counted(o) = {}
  BY ReferredTo
<1>2. ASSUME NEW u \in Threads
      PROVE  /\ pc[u] # "idle" => dst[u] # o
             /\ SrcKept(u) => src[u] # o
  BY <1>1, TargetKept, SourceKept
<1> QED
  BY <1>1, <1>2 DEF Settled, InChange

\* The object a call has counted, or is about to, is there.
LEMMA PointerSafe ==
  ASSUME Inv, NEW t \in Threads
  PROVE  /\ pc[t] = "addref" => /\ m_pRef[dst[t]] \in Objs /\ live[m_pRef[dst[t]]]
                                /\ \A u \in Threads : ~Doomed(u, m_pRef[dst[t]])
                                /\ \A u \in Threads : Fresh(u, m_pRef[dst[t]]) => u = t
         /\ pc[t] = "count" =>
              \A p \in Assigned(t) : p # NULL => /\ p \in Objs /\ live[p]
                                                 /\ \A u \in Threads : ~Doomed(u, p)
                                                 /\ \A u \in Threads : Fresh(u, p) => u = t
<1>1. CASE pc[t] = "addref"
  <2> DEFINE o == m_pRef[dst[t]]
  <2>1. o \in Objs
    BY <1>1, HandlesOfCalls DEF Inv, TypeOK, ThreadInv, PtrInv
  <2>2. CASE raw[t]
    <3>1. Fresh(t, o)
      BY <1>1, <2>2 DEF Fresh, Inv, ThreadInv, PtrInv
    <3> QED
      BY <1>1, <2>1, <3>1 DEF Inv, ThreadInv, FreshInv
  <2>3. CASE ~raw[t]
    <3>1. src[t] \in Handles /\ m_pRef[src[t]] = o
      BY <1>1, <2>3 DEF Inv, ThreadInv, PtrInv, SrcInv
    <3>2. src[t] \in Referring(o)
      BY <1>1, <3>1, SourceSettled DEF Referring
    <3> QED
      BY <1>1, <2>1, <3>2, ReferredTo
  <2> QED
    BY <2>2, <2>3 DEF Inv, TypeOK
<1>2. CASE pc[t] = "count"
  <2> SUFFICES ASSUME NEW p \in Assigned(t), p # NULL
               PROVE  /\ p \in Objs /\ live[p]
                      /\ \A u \in Threads : ~Doomed(u, p)
                      /\ \A u \in Threads : Fresh(u, p) => u = t
    BY <1>2
  <2>1. CASE raw[t] /\ src[t] = NULL
    <3>1. p = pObj[t] /\ p \in Objs
      BY <2>1 DEF Assigned, Inv, TypeOK
    <3>2. Fresh(t, p)
      BY <1>2, <2>1, <3>1 DEF Fresh
    <3> QED
      BY <3>1, <3>2 DEF Inv, ThreadInv, FreshInv
  <2>2. CASE ~raw[t] \/ src[t] # NULL
    <3>1. src[t] \in Handles
      BY <1>2, <2>2 DEF Inv, TypeOK, ThreadInv, SrcInv
    <3>2. src[t] \in Objs => live[src[t]]
      <4>1. SrcKept(t)
        BY <1>2 DEF SrcKept
      <4> QED
        BY <4>1, SourceKept, ReferredTo
    <3>3. m_pRef[src[t]] = p
      BY <1>2, <2>2, <3>2 DEF Assigned, Read, Inv, ThreadInv, PtrInv
    <3>4. p \in Objs
      BY <3>1, <3>3 DEF Inv, TypeOK
    <3>5. src[t] \in Referring(p)
      BY <1>2, <3>1, <3>3, SourceSettled DEF Referring
    <3> QED
      BY <3>4, <3>5, ReferredTo
  <2> QED
    BY <2>1, <2>2
<1> QED
  BY <1>1, <1>2

-------------------------------------------------------------------------------
(* What a step of one thread leaves to the others. *)

\* Thread u is where it was, and what it relies on has not changed.
UnchangedFor(u) ==
  /\ pc'[u] = pc[u] /\ dst'[u] = dst[u] /\ src'[u] = src[u] /\ raw'[u] = raw[u]
  /\ pObj'[u] = pObj[u] /\ doomed'[u] = doomed[u]
  /\ \A h \in Own(u) : m_pRef'[h] = m_pRef[h]
  /\ pc[u] # "idle" => m_pRef'[dst[u]] = m_pRef[dst[u]]
  /\ SrcKept(u) /\ src[u] # NULL => m_pRef'[src[u]] = m_pRef[src[u]]
  /\ \A o \in Objs : Fresh(u, o) \/ Doomed(u, o) =>
       live'[o] = live[o] /\ m_nRefer'[o] = m_nRefer[o]

\* What the thread that acts shall see to: its own part of the invariant, and
\* that it does not meddle with the others.
ActsWell(t) ==
  /\ SrcInv(t)' /\ PtrInv(t)'
  /\ pc'[t] # "idle" =>
       /\ \/ dst'[t] \in Own(t)
          \/ dst'[t] \in Objs /\ \E v \in Vars : m_pRef'[<<t, v>>] = dst'[t]
       /\ src'[t] # dst'[t]
       /\ \A u \in Threads : u # t /\ pc[u] # "idle" =>
            dst[u] # dst'[t] /\ src[u] # dst'[t] /\ src'[t] # dst[u]
  /\ \A o \in Objs : Fresh(t, o)' => /\ live'[o] /\ m_nRefer'[o] = 0
                                     /\ ~Doomed(t, o)'
                                     /\ \A u \in Threads : u # t => ~Fresh(u, o) /\ ~Doomed(u, o)
  /\ \A i \in 1..Len(doomed'[t]) :
       /\ live'[doomed'[t][i]] /\ m_nRefer'[doomed'[t][i]] = 0
       /\ \A j \in 1..Len(doomed'[t]) : doomed'[t][j] = doomed'[t][i] => j = i
       /\ \A u \in Threads : u # t => /\ ~Fresh(u, doomed'[t][i])
                                      /\ ~Doomed(u, doomed'[t][i])

LEMMA FreshUnchanged ==
  ASSUME NEW u, UnchangedFor(u), NEW o
  PROVE  (Fresh(u, o)' <=> Fresh(u, o)) /\ (Doomed(u, o)' <=> Doomed(u, o))
BY DEF UnchangedFor, Fresh, Doomed

\* Then the invariant is kept.
LEMMA InvKept ==
  ASSUME Inv, NEW t \in Threads, TypeOK', \A u \in Threads : u # t => UnchangedFor(u),
         ActsWell(t), \A o \in Objs : ObjInv(o)'
  PROVE  Inv'
<1>1. ASSUME NEW u \in Threads
      PROVE  DstInv(u)'
  <2>1. CASE u = t
    BY <2>1 DEF DstInv, Holds, ActsWell, UnchangedFor
  <2>2. CASE u # t
    <3>1. pc'[u] # "idle" =>
            \/ dst'[u] \in Own(u)
            \/ dst'[u] \in Objs /\ \E v \in Vars : m_pRef'[<<u, v>>] = dst'[u]
      <4>1. UnchangedFor(u)
        BY <2>2
      <4>2. pc[u] # "idle" => dst[u] \in Own(u) \/ (dst[u] \in Objs /\ Holds(u, dst[u]))
        BY DEF Inv, ThreadInv, DstInv
      <4>3. \A v \in Vars : m_pRef'[<<u, v>>] = m_pRef[<<u, v>>]
        BY <4>1 DEF UnchangedFor, Own
      <4> QED
        BY <4>1, <4>2, <4>3 DEF UnchangedFor, Holds
    <3>2. ASSUME NEW w \in Threads, pc'[u] # "idle", pc'[w] # "idle"
          PROVE  (w # u => dst'[w] # dst'[u]) /\ src'[w] # dst'[u]
      <4>1. CASE w = t
        BY <2>2, <3>2, <4>1 DEF ActsWell, UnchangedFor
      <4>2. CASE w # t
        BY <2>2, <3>2, <4>2 DEF Inv, ThreadInv, DstInv, UnchangedFor
      <4> QED
        BY <4>1, <4>2
    <3> QED
      BY <3>1, <3>2 DEF DstInv, Holds
  <2> QED
    BY <2>1, <2>2
<1>2. ASSUME NEW u \in Threads
      PROVE  SrcInv(u)' /\ PtrInv(u)'
  <2>1. CASE u = t
    BY <2>1 DEF ActsWell
  <2>2. CASE u # t
    <3>1. UnchangedFor(u)
      BY <2>2
    <3>2. SrcInv(u) /\ PtrInv(u)
      BY DEF Inv, ThreadInv
    <3>3. SrcInv(u)'
      <4>1. \A v \in Vars : m_pRef'[<<u, v>>] = m_pRef[<<u, v>>]
        BY <3>1 DEF UnchangedFor, Own
      <4> QED
        BY <3>1, <3>2, <4>1 DEF UnchangedFor, SrcInv, SrcKept
    <3>4. PtrInv(u)'
      <4>1. pc[u] # "idle" /\ ~raw[u] => SrcKept(u) /\ src[u] # NULL
        BY <3>2, HandlesOfCalls DEF SrcInv, SrcKept
      <4>2. pc[u] = "count" => SrcKept(u)
        BY DEF SrcKept
      <4> QED
        BY <3>1, <3>2, <4>1, <4>2 DEF UnchangedFor, PtrInv, Assigning
    <3> QED
      BY <3>3, <3>4
  <2> QED
    BY <2>1, <2>2
<1>3. ASSUME NEW u \in Threads
      PROVE  FreshInv(u)'
  <2>1. CASE u = t
    BY <2>1, FreshUnchanged DEF FreshInv, ActsWell
  <2>2. CASE u # t
    <3> SUFFICES ASSUME NEW o \in Objs, Fresh(u, o)'
                 PROVE  /\ live'[o] /\ m_nRefer'[o] = 0
                        /\ \A w \in Threads : (Fresh(w, o)' => w = u) /\ ~Doomed(w, o)'
      BY DEF FreshInv
    <3>1. Fresh(u, o)
      BY <2>2, FreshUnchanged
    <3>2. /\ live[o] /\ m_nRefer[o] = 0
          /\ \A w \in Threads : (Fresh(w, o) => w = u) /\ ~Doomed(w, o)
      BY <3>1 DEF Inv, ThreadInv, FreshInv
    <3>3. live'[o] /\ m_nRefer'[o] = 0
      BY <2>2, <3>1, <3>2 DEF UnchangedFor
    <3>4. ASSUME NEW w \in Threads
          PROVE  (Fresh(w, o)' => w = u) /\ ~Doomed(w, o)'
      <4>1. CASE w # t
        BY <3>2, <4>1, FreshUnchanged
      <4>2. CASE w = t
        <5>1. ~Fresh(t, o)'
          BY <2>2, <3>1 DEF ActsWell
        <5>2. ~Doomed(t, o)'
          BY <2>2, <3>1 DEF ActsWell, Doomed
        <5> QED
          BY <4>2, <5>1, <5>2
      <4> QED
        BY <4>1, <4>2
    <3> QED
      BY <3>3, <3>4
  <2> QED
    BY <2>1, <2>2
<1>4. ASSUME NEW u \in Threads
      PROVE  DoomedInv(u)'
  <2> SUFFICES ASSUME NEW i \in 1..Len(doomed'[u])
               PROVE  /\ live'[doomed'[u][i]] /\ m_nRefer'[doomed'[u][i]] = 0
                      /\ \A w \in Threads : \A j \in 1..Len(doomed'[w]) :
                           doomed'[w][j] = doomed'[u][i] => w = u /\ j = i
    BY DEF DoomedInv
  <2>1. CASE u = t
    <3>1. live'[doomed'[u][i]] /\ m_nRefer'[doomed'[u][i]] = 0
      BY <2>1 DEF ActsWell
    <3>2. ASSUME NEW w \in Threads, NEW j \in 1..Len(doomed'[w]), doomed'[w][j] = doomed'[u][i]
          PROVE  w = u /\ j = i
      <4>1. CASE w = t
        BY <2>1, <3>2, <4>1 DEF ActsWell
      <4>2. CASE w # t
        <5>1. doomed'[w] = doomed[w]
          BY <4>2 DEF UnchangedFor
        <5>2. Doomed(w, doomed'[u][i])
          BY <3>2, <5>1 DEF Doomed
        <5> QED
          BY <2>1, <4>2, <5>2 DEF ActsWell
      <4> QED
        BY <4>1, <4>2
    <3> QED
      BY <3>1, <3>2
  <2>2. CASE u # t
    <3> DEFINE o == doomed[u][i]
    <3>1. doomed'[u] = doomed[u] /\ i \in 1..Len(doomed[u])
      BY <2>2 DEF UnchangedFor
    <3>2. o \in Objs /\ Doomed(u, o)
      BY <3>1, ElementOfSeq DEF Inv, TypeOK, Doomed
    <3>3. /\ live[o] /\ m_nRefer[o] = 0
          /\ \A w \in Threads : \A j \in 1..Len(doomed[w]) : doomed[w][j] = o => w = u /\ j = i
      BY <3>1 DEF Inv, ThreadInv, DoomedInv
    <3>4. live'[o] /\ m_nRefer'[o] = 0
      BY <2>2, <3>2, <3>3 DEF UnchangedFor
    <3>5. ASSUME NEW w \in Threads, NEW j \in 1..Len(doomed'[w]), doomed'[w][j] = o
          PROVE  w = u /\ j = i
      <4>1. CASE w # t
        BY <3>3, <3>5, <4>1 DEF UnchangedFor
      <4>2. CASE w = t
        BY <2>2, <3>2, <3>5, <4>2 DEF ActsWell
      <4> QED
        BY <4>1, <4>2
    <3> QED
      BY <3>1, <3>4, <3>5
  <2> QED
    BY <2>1, <2>2
<1> QED
  BY <1>1, <1>2, <1>3, <1>4 DEF Inv, ThreadInv

-------------------------------------------------------------------------------
(* What a step does to the counts. *)

\* A handle is settled as before unless the thread that acts begins or ends to
\* change it.
LEMMA SettledUnchanged ==
  ASSUME NEW t \in Threads, \A u \in Threads : u # t => pc'[u] = pc[u] /\ dst'[u] = dst[u], NEW h,
         (pc'[t] \in InChange /\ dst'[t] = h) = (pc[t] \in InChange /\ dst[t] = h)
  PROVE  Settled(h)' <=> Settled(h)
<1>1. ASSUME NEW u \in Threads
      PROVE  (pc'[u] \in InChange => dst'[u] # h) <=> (pc[u] \in InChange => dst[u] # h)
  BY <1>1
<1> QED
  BY <1>1 DEF Settled

\* Nothing about the object has changed.
LEMMA ObjKept ==
  ASSUME Inv, NEW t \in Threads, \A u \in Threads : u # t => UnchangedFor(u), NEW o \in Objs,
         live'[o] = live[o], m_nRefer'[o] = m_nRefer[o], m_pRef'[o] = m_pRef[o] \/ live[o],
         Referring(o)' = Referring(o), Counted(o)' = Counted(o),
         Fresh(t, o) \/ Doomed(t, o) => Fresh(t, o)' \/ Doomed(t, o)'
  PROVE  ObjInv(o)'
<1>1. ObjInv(o)
  BY DEF Inv
<1>2. live[o] /\ m_nRefer[o] = 0 => \E u \in Threads : Fresh(u, o)' \/ Doomed(u, o)'
  <2> SUFFICES ASSUME live[o], m_nRefer[o] = 0
               PROVE  \E u \in Threads : Fresh(u, o)' \/ Doomed(u, o)'
    OBVIOUS
  <2>1. PICK u \in Threads : Fresh(u, o) \/ Doomed(u, o)
    BY <1>1 DEF ObjInv
  <2>2. Fresh(u, o)' \/ Doomed(u, o)'
    BY <2>1, FreshUnchanged
  <2> QED
    BY <2>2
<1> QED
  BY <1>1, <1>2 DEF ObjInv

\* One more handle, or call, is counted.
LEMMA ObjGains ==
  ASSUME Inv, NEW o \in Objs, live[o], live'[o], m_nRefer'[o] = m_nRefer[o] + 1, NEW x,
         \/ /\ x \notin Referring(o) /\ Referring(o)' = Referring(o) \cup {x}
            /\ Counted(o)' = Counted(o)
         \/ /\ x \notin Counted(o) /\ Counted(o)' = Counted(o) \cup {x}
            /\ Referring(o)' = Referring(o)
  PROVE  ObjInv(o)'
<1>1. m_nRefer[o] = Cardinality(Referring(o)) + Cardinality(Counted(o))
  BY DEF Inv, ObjInv
<1>2. /\ IsFiniteSet(Referring(o)) /\ IsFiniteSet(Counted(o))
      /\ Cardinality(Referring(o)) \in Nat /\ Cardinality(Counted(o)) \in Nat
  BY SetsFinite
<1>3. Cardinality(Referring(o)') + Cardinality(Counted(o)')
        = Cardinality(Referring(o)) + Cardinality(Counted(o)) + 1
  <2>1. CASE /\ x \notin Referring(o) /\ Referring(o)' = Referring(o) \cup {x}
             /\ Counted(o)' = Counted(o)
    <3>1. Cardinality(Referring(o)') = Cardinality(Referring(o)) + 1
      BY <1>2, <2>1, FS_AddElement
    <3> QED
      BY <1>2, <2>1, <3>1
  <2>2. CASE /\ x \notin Counted(o) /\ Counted(o)' = Counted(o) \cup {x}
             /\ Referring(o)' = Referring(o)
    <3>1. Cardinality(Counted(o)') = Cardinality(Counted(o)) + 1
      BY <1>2, <2>2, FS_AddElement
    <3> QED
      BY <1>2, <2>2, <3>1
  <2> QED
    BY <2>1, <2>2
<1>4. m_nRefer'[o] # 0
  BY <1>1, <1>2
<1> QED
  BY <1>1, <1>2, <1>3, <1>4 DEF ObjInv

\* A handle is released.
LEMMA ObjLoses ==
  ASSUME Inv, NEW t \in Threads, NEW o \in Objs, live'[o], m_nRefer'[o] = m_nRefer[o] - 1,
         NEW x \in Referring(o), Referring(o)' = Referring(o) \ {x}, Counted(o)' = Counted(o),
         m_nRefer'[o] <= 0 => Doomed(t, o)'
  PROVE  ObjInv(o)' /\ (m_nRefer'[o] <= 0 => m_nRefer'[o] = 0)
<1>1. live[o]
  BY ReferredTo
<1>2. m_nRefer[o] = Cardinality(Referring(o)) + Cardinality(Counted(o))
  BY <1>1 DEF Inv, ObjInv
<1>3. /\ IsFiniteSet(Referring(o))
      /\ Cardinality(Referring(o)) \in Nat /\ Cardinality(Counted(o)) \in Nat
      /\ Cardinality(Referring(o)) >= 1
  BY SetsFinite
<1>4. Cardinality(Referring(o)') = Cardinality(Referring(o)) - 1
  BY <1>3, FS_RemoveElement
<1>5. m_nRefer'[o] = Cardinality(Referring(o)') + Cardinality(Counted(o)')
  BY <1>2, <1>3, <1>4
<1>6. m_nRefer'[o] <= 0 => m_nRefer'[o] = 0
  BY <1>2, <1>3
<1> QED
  BY <1>5, <1>6 DEF ObjInv

\* A call stores what it has counted.
LEMMA ObjStored ==
  ASSUME Inv, NEW t \in Threads, NEW o \in Objs, live'[o], m_nRefer'[o] = m_nRefer[o],
         NEW x, x \notin Referring(o), Referring(o)' = Referring(o) \cup {x},
         t \in Counted(o), Counted(o)' = Counted(o) \ {t}
  PROVE  ObjInv(o)'
<1>1. live[o] /\ m_nRefer[o] >= 1
  BY ReferredTo
<1>2. m_nRefer[o] = Cardinality(Referring(o)) + Cardinality(Counted(o))
  BY <1>1 DEF Inv, ObjInv
<1>3. /\ IsFiniteSet(Referring(o)) /\ IsFiniteSet(Counted(o))
      /\ Cardinality(Referring(o)) \in Nat /\ Cardinality(Counted(o)) \in Nat
  BY SetsFinite
<1>4. Cardinality(Referring(o)') = Cardinality(Referring(o)) + 1
  <2>1. Cardinality(Referring(o) \cup {x}) = Cardinality(Referring(o)) + 1
    BY <1>3, FS_AddElement
  <2> QED
    BY <2>1
<1>5. Cardinality(Counted(o)') = Cardinality(Counted(o)) - 1
  <2>1. Cardinality(Counted(o) \ {t}) = Cardinality(Counted(o)) - 1
    BY <1>3, FS_RemoveElement
  <2> QED
    BY <2>1
<1>6. m_nRefer'[o] = Cardinality(Referring(o)') + Cardinality(Counted(o)')
  BY <1>2, <1>3, <1>4, <1>5
<1>7. m_nRefer'[o] # 0
  <2>1. m_nRefer[o] \in Int
    BY <1>2, <1>3
  <2> QED
    BY <1>1, <2>1
<1> QED
  BY <1>6, <1>7 DEF ObjInv

-------------------------------------------------------------------------------
(* Calls. *)

\* How each operation of a handle begins: the call takes handle d, reading s or
\* given the pointer o; a constructor puts q in d; x is the object made, if any.
Begins(t, l, d, s, b, o, q, x) ==
  /\ pc[t] = "idle"
  /\ MayWrite(t, d)
  /\ Begin(t, l, d, s, b, o)
  /\ m_pRef' = [m_pRef EXCEPT ![d] = q]
  /\ IF x = NULL THEN UNCHANGED <<m_nRefer, live>>
     ELSE /\ ~live[x] /\ live' = [live EXCEPT ![x] = TRUE]
          /\ m_nRefer' = [m_nRefer EXCEPT ![x] = 0]
          /\ b /\ s = NULL /\ l # "release"
          /\ IF l = "addref" THEN q = x ELSE o = x
  /\ IF s = NULL THEN b ELSE MayUse(t, s) /\ s # d
  /\ l = "addref" => /\ d \in Own(t) /\ m_pRef[d] = NULL /\ q # NULL
                     /\ b => s = NULL /\ x # NULL
                     /\ ~b => m_pRef[s] = q
  /\ l # "addref" => q = m_pRef[d]
  /\ l = "count" /\ b => /\ o # NULL
                         /\ IF s = NULL THEN x # NULL ELSE m_pRef[s] = o
  /\ l = "release" => b /\ s = NULL /\ o = NULL
  /\ s \in Objs /\ ~b => \E v \in Vars : <<t, v>> # d /\ m_pRef[<<t, v>>] = s

LEMMA BeginsInv ==
  ASSUME Inv, RulesKept, NEW t \in Threads, NEW l \in {"addref", "count", "release"},
         NEW d \in Handles, NEW s \in Handles \cup {NULL}, NEW b \in BOOLEAN,
         NEW o \in Objs \cup {NULL}, NEW q \in Objs \cup {NULL}, NEW x \in Objs \cup {NULL},
         Begins(t, l, d, s, b, o, q, x)
  PROVE  Inv'
<1>1. /\ pc[t] = "idle"
      /\ pc' = [pc EXCEPT ![t] = l]
      /\ dst' = [dst EXCEPT ![t] = d]
      /\ src' = [src EXCEPT ![t] = s]
      /\ raw' = [raw EXCEPT ![t] = b]
      /\ pObj' = [pObj EXCEPT ![t] = o]
      /\ doomed' = doomed
      /\ m_pRef' = [m_pRef EXCEPT ![d] = q]
  BY DEF Begins, Begin
<1>2. /\ d \in Own(t) \/ (d \in Objs /\ Holds(t, d))
      /\ \A u \in Threads : pc[u] # "idle" => dst[u] # d /\ src[u] # d
  BY DEF Begins, MayWrite, RulesKept, Rules, Own
<1>3. s # NULL => /\ s # d
                  /\ s \in Locals \/ Holds(t, s)
                  /\ \A u \in Threads : pc[u] # "idle" => dst[u] # s
  BY DEF Begins, MayUse, RulesKept, Rules
<1>4. x # NULL => /\ x \in Objs /\ ~live[x]
                  /\ live' = [live EXCEPT ![x] = TRUE]
                  /\ m_nRefer' = [m_nRefer EXCEPT ![x] = 0]
  BY DEF Begins
<1>5. x = NULL => live' = live /\ m_nRefer' = m_nRefer
  BY DEF Begins
<1>6. NULL \notin Handles /\ NULL \notin Objs
  BY HandlesOfCalls, NullAssumption
<1>7. \A h \in Handles : h # d => m_pRef'[h] = m_pRef[h]
  BY <1>1 DEF Inv, TypeOK
<1>8. m_pRef'[d] = q
  BY <1>1 DEF Inv, TypeOK
<1>9. /\ pc'[t] = l /\ dst'[t] = d /\ src'[t] = s /\ raw'[t] = b /\ pObj'[t] = o
      /\ doomed'[t] = <<>> /\ Len(doomed'[t]) = 0
  BY <1>1, EmptySeq DEF Inv, TypeOK
<1>10. TypeOK'
  <2>1. /\ m_pRef' \in [Handles -> Objs \cup {NULL}]
        /\ m_nRefer' \in [Objs -> Int]
        /\ live' \in [Objs -> BOOLEAN]
    <3>1. m_pRef' \in [Handles -> Objs \cup {NULL}]
      BY <1>1 DEF Inv, TypeOK
    <3>2. CASE x = NULL
      BY <1>5, <3>1, <3>2 DEF Inv, TypeOK
    <3>3. CASE x # NULL
      <4>1. m_nRefer \in [Objs -> Int] /\ live \in [Objs -> BOOLEAN]
        BY DEF Inv, TypeOK
      <4>2. m_nRefer' \in [Objs -> Int]
        BY <1>4, <3>3, <4>1
      <4>3. live' \in [Objs -> BOOLEAN]
        BY <1>4, <3>3, <4>1
      <4> QED
        BY <3>1, <4>2, <4>3
    <3> QED
      BY <3>2, <3>3
  <2>2. /\ pc' \in [Threads -> {"idle", "addref", "count", "release", "delete", "store"}]
        /\ dst' \in [Threads -> Handles \cup {NULL}]
        /\ src' \in [Threads -> Handles \cup {NULL}]
        /\ raw' \in [Threads -> BOOLEAN]
        /\ pObj' \in [Threads -> Objs \cup {NULL}]
        /\ doomed' \in [Threads -> Seq(Objs)]
    BY <1>1 DEF Inv, TypeOK
  <2>3. ASSUME NEW u \in Threads
        PROVE  /\ pc'[u] # "idle" => dst'[u] \in Handles
               /\ pc'[u] = "addref" => m_pRef'[dst'[u]] # NULL
               /\ (pc'[u] = "delete") = (doomed'[u] # <<>>)
    <3>1. CASE u = t
      BY <1>8, <1>9, <3>1 DEF Begins
    <3>2. CASE u # t
      BY <1>1, <1>2, <1>7, <3>2 DEF Inv, TypeOK
    <3> QED
      BY <3>1, <3>2
  <2> QED
    BY <2>1, <2>2, <2>3 DEF TypeOK
<1>11. ASSUME NEW u \in Threads, u # t
       PROVE  UnchangedFor(u)
  <2>1. /\ pc'[u] = pc[u] /\ dst'[u] = dst[u] /\ src'[u] = src[u] /\ raw'[u] = raw[u]
        /\ pObj'[u] = pObj[u] /\ doomed'[u] = doomed[u]
    BY <1>1, <1>11 DEF Inv, TypeOK
  <2>2. \A h \in Own(u) : m_pRef'[h] = m_pRef[h]
    <3>1. Own(u) \subseteq Handles
      BY HandlesOfCalls
    <3>2. d \notin Own(u)
      BY <1>2, <1>11, ObjsAssumption DEF Own, Locals
    <3> QED
      BY <1>7, <3>1, <3>2
  <2>3. pc[u] # "idle" => m_pRef'[dst[u]] = m_pRef[dst[u]]
    BY <1>2, <1>7, HandlesOfCalls
  <2>4. SrcKept(u) /\ src[u] # NULL => m_pRef'[src[u]] = m_pRef[src[u]]
    BY <1>2, <1>7 DEF SrcKept, Inv, TypeOK
  <2>5. \A p \in Objs : Fresh(u, p) \/ Doomed(u, p) =>
          live'[p] = live[p] /\ m_nRefer'[p] = m_nRefer[p]
    <3> SUFFICES ASSUME NEW p \in Objs, Fresh(u, p) \/ Doomed(u, p)
                 PROVE  live'[p] = live[p] /\ m_nRefer'[p] = m_nRefer[p]
      OBVIOUS
    <3>1. live[p]
      BY DEF Inv, ThreadInv, FreshInv, DoomedInv, Doomed
    <3> QED
      BY <1>4, <1>5, <3>1 DEF Inv, TypeOK
  <2> QED
    BY <2>1, <2>2, <2>3, <2>4, <2>5 DEF UnchangedFor
<1>12. ASSUME NEW h \in Handles, l = "addref" => h # d
       PROVE  Settled(h)' <=> Settled(h)
  <2>1. (pc'[t] \in InChange /\ dst'[t] = h) = (pc[t] \in InChange /\ dst[t] = h)
    BY <1>1, <1>9, <1>12 DEF InChange
  <2> QED
    BY <1>11, <2>1, SettledUnchanged DEF UnchangedFor
<1>13. \A p \in Objs : Referring(p)' = Referring(p)
  <2> SUFFICES ASSUME NEW p \in Objs, NEW h \in Handles
               PROVE  (m_pRef'[h] = p /\ Settled(h)') <=> (m_pRef[h] = p /\ Settled(h))
    BY DEF Referring
  <2>1. CASE l = "addref" /\ h = d
    <3>1. m_pRef[h] = NULL
      BY <2>1 DEF Begins
    <3>2. ~Settled(h)'
      BY <1>9, <2>1 DEF Settled, InChange
    <3> QED
      BY <1>6, <3>1, <3>2
  <2>2. CASE l = "addref" /\ h # d
    BY <1>7, <1>12, <2>2
  <2>3. CASE l # "addref"
    <3>1. m_pRef'[h] = m_pRef[h]
      BY <1>7, <1>8, <2>3 DEF Begins
    <3> QED
      BY <1>12, <2>3, <3>1
  <2> QED
    BY <2>1, <2>2, <2>3
<1>14. \A p \in Objs : Counted(p)' = Counted(p)
  <2> SUFFICES ASSUME NEW p \in Objs, NEW u \in Threads
               PROVE  (pc'[u] \in Assigning /\ pObj'[u] = p) <=> (pc[u] \in Assigning /\ pObj[u] = p)
    BY DEF Counted, Assigning
  <2>1. CASE u = t
    BY <1>1, <1>6, <1>9, <2>1 DEF Begins, Assigning
  <2>2. CASE u # t
    BY <1>11, <2>2 DEF UnchangedFor
  <2> QED
    BY <2>1, <2>2
<1>15. ASSUME NEW p \in Objs, Fresh(t, p)'
       PROVE  p = x
  BY <1>8, <1>9, <1>15 DEF Fresh, Begins
<1>16. ActsWell(t)
  <2>1. SrcInv(t)'
    <3>1. pc'[t] # "idle" /\ ~raw'[t] => src'[t] \in Handles
      BY <1>9 DEF Begins
    <3>2. ASSUME src'[t] \in Objs
          PROVE  \E v \in Vars : /\ m_pRef'[<<t, v>>] = src'[t]
                                 /\ ~raw'[t] => <<t, v>> # dst'[t]
      <4>1. s \in Objs /\ s # NULL /\ s \notin Locals
        BY <1>6, <1>9, <3>2, ObjsAssumption
      <4>2. PICK v \in Vars : m_pRef[<<t, v>>] = s /\ (~b => <<t, v>> # d)
        BY <1>3, <4>1 DEF Begins, Holds
      <4>3. <<t, v>> \in Handles
        BY DEF Handles, Locals
      <4>4. m_pRef'[<<t, v>>] = s
        <5>1. CASE <<t, v>> # d
          BY <1>7, <4>2, <4>3, <5>1
        <5>2. CASE <<t, v>> = d
          BY <1>8, <4>1, <4>2, <5>2 DEF Begins
        <5> QED
          BY <5>1, <5>2
      <4> QED
        BY <1>9, <4>2, <4>4
    <3> QED
      BY <3>1, <3>2 DEF SrcInv
  <2>2. PtrInv(t)'
    <3>1. s # NULL => m_pRef'[s] = m_pRef[s]
      BY <1>3, <1>7
    <3>2. l = "addref" => /\ m_pRef'[d] # NULL
                          /\ ~b => m_pRef'[s] = m_pRef'[d]
                          /\ b => s = NULL
      BY <1>8, <3>1 DEF Begins
    <3>3. l = "count" /\ b => o # NULL /\ (s # NULL => m_pRef'[s] = o)
      BY <3>1 DEF Begins
    <3>4. l = "release" => b
      BY DEF Begins
    <3> QED
      BY <1>9, <3>2, <3>3, <3>4 DEF PtrInv, Assigning
  <2>3. /\ \/ dst'[t] \in Own(t)
           \/ dst'[t] \in Objs /\ \E v \in Vars : m_pRef'[<<t, v>>] = dst'[t]
        /\ src'[t] # dst'[t]
        /\ \A u \in Threads : u # t /\ pc[u] # "idle" =>
             dst[u] # dst'[t] /\ src[u] # dst'[t] /\ src'[t] # dst[u]
    <3>1. CASE d \in Own(t)
      BY <1>2, <1>3, <1>6, <1>9, <3>1, HandlesOfCalls
    <3>2. CASE d \in Objs /\ Holds(t, d)
      <4>1. PICK v \in Vars : m_pRef[<<t, v>>] = d
        BY <3>2 DEF Holds
      <4>2. <<t, v>> \in Handles /\ <<t, v>> # d
        BY <3>2, ObjsAssumption DEF Handles, Locals
      <4>3. m_pRef'[<<t, v>>] = d
        BY <1>7, <4>1, <4>2
      <4> QED
        BY <1>2, <1>3, <1>6, <1>9, <3>2, <4>3, HandlesOfCalls
    <3> QED
      BY <1>2, <3>1, <3>2
  <2>4. ASSUME NEW p \in Objs, Fresh(t, p)'
        PROVE  /\ live'[p] /\ m_nRefer'[p] = 0
               /\ ~Doomed(t, p)'
               /\ \A u \in Threads : u # t => ~Fresh(u, p) /\ ~Doomed(u, p)
    <3>1. p = x /\ x # NULL
      BY <1>6, <1>15, <2>4
    <3>2. live'[p] /\ m_nRefer'[p] = 0
      BY <1>4, <3>1 DEF Inv, TypeOK
    <3>3. ~Doomed(t, p)'
      BY <1>9 DEF Doomed
    <3>4. \A u \in Threads : ~Fresh(u, p) /\ ~Doomed(u, p)
      BY <1>4, <3>1 DEF Inv, ThreadInv, FreshInv, DoomedInv, Doomed
    <3> QED
      BY <3>2, <3>3, <3>4
  <2> QED
    BY <1>9, <2>1, <2>2, <2>3, <2>4 DEF ActsWell
<1>17. ASSUME NEW p \in Objs
       PROVE  ObjInv(p)'
  <2>1. CASE p # x
    <3>1. live'[p] = live[p] /\ m_nRefer'[p] = m_nRefer[p]
      BY <1>4, <1>5, <2>1 DEF Inv, TypeOK
    <3>2. m_pRef'[p] = m_pRef[p] \/ live[p]
      <4>1. CASE p = d
        <5>1. live[p]
          <6>1. p \notin Own(t)
            BY ObjsAssumption DEF Own, Locals
          <6>2. PICK v \in Vars : m_pRef[<<t, v>>] = p
            BY <1>2, <4>1, <6>1 DEF Holds
          <6>3. <<t, v>> \in Handles /\ <<t, v>> \in Own(t)
            BY DEF Handles, Locals, Own
          <6>4. Settled(<<t, v>>)
            BY <1>1, <6>3, OwnSettled DEF InChange
          <6>5. <<t, v>> \in Referring(p)
            BY <6>2, <6>3, <6>4 DEF Referring
          <6> QED
            BY <6>5, ReferredTo
        <5> QED
          BY <5>1
      <4>2. CASE p # d
        BY <1>7, <4>2 DEF Handles
      <4> QED
        BY <4>1, <4>2
    <3>3. ~Fresh(t, p) /\ ~Doomed(t, p)
      BY <1>1, <1>9 DEF Fresh, Doomed
    <3> QED
      BY <1>11, <1>13, <1>14, <3>1, <3>2, <3>3, ObjKept
  <2>2. CASE p = x
    <3>1. x # NULL
      BY <1>6, <2>2
    <3>2. /\ Referring(p)' = {} /\ Counted(p)' = {}
          /\ live'[p] /\ m_nRefer'[p] = 0
      BY <1>4, <1>13, <1>14, <2>2, <3>1 DEF Inv, TypeOK, ObjInv
    <3>3. Fresh(t, p)'
      BY <1>8, <1>9, <2>2, <3>1 DEF Fresh, Begins
    <3> QED
      BY <3>2, <3>3, FS_EmptySet DEF ObjInv
  <2> QED
    BY <2>1, <2>2
<1> QED
  BY <1>10, <1>11, <1>16, <1>17, InvKept

\* A new object comes without a member handle, and not counted.
LEMMA NewObject ==
  ASSUME Inv, RulesKept, NEW o \in Objs, New(o)
  PROVE  /\ o # NULL /\ ~live[o] /\ m_pRef[o] = NULL
         /\ live' = [live EXCEPT ![o] = TRUE]
         /\ m_nRefer' = [m_nRefer EXCEPT ![o] = 0]
BY NullAssumption DEF New, RulesKept, Inv, ObjInv

\* A handle a call reads is not the one it changes, for what they refer to differs.
LEMMA OtherHandle ==
  ASSUME Inv, NEW t \in Threads, NEW d \in Handles, NEW s \in Handles,
         m_pRef[s] # m_pRef[d], MayRead(t, s, d), RulesKept
  PROVE  /\ MayUse(t, s) /\ s # d /\ s # NULL
         /\ s \in Objs => \E v \in Vars : <<t, v>> # d /\ m_pRef[<<t, v>>] = s
BY HandlesOfCalls DEF MayRead, RulesKept, Rules

LEMMA CallInv ==
  ASSUME Inv, RulesKept, NEW t \in Threads, Call(t)
  PROVE  Inv'
<1>0. /\ NULL \notin Handles /\ NULL \notin Objs /\ NULL \notin Locals
      /\ m_pRef \in [Handles -> Objs \cup {NULL}]
  BY HandlesOfCalls, NullAssumption DEF Inv, TypeOK
<1>1. ASSUME NEW v \in Vars, NEW o \in Objs, ConstructFromNew(t, v, o)
      PROVE  Inv'
  <2>1. <<t, v>> \in Handles /\ <<t, v>> \in Own(t) /\ <<t, v>> # o
    BY ObjsAssumption DEF Handles, Locals, Own
  <2>2. /\ o # NULL /\ ~live[o] /\ m_pRef[o] = NULL
        /\ live' = [live EXCEPT ![o] = TRUE]
        /\ m_nRefer' = [m_nRefer EXCEPT ![o] = 0]
    BY <1>1, NewObject DEF ConstructFromNew
  <2>3. m_pRef' = [m_pRef EXCEPT ![<<t, v>>] = o]
    BY <1>0, <1>1, <2>1, <2>2 DEF ConstructFromNew, Handles
  <2>4. Begins(t, "addref", <<t, v>>, NULL, TRUE, NULL, o, o)
    BY <1>0, <1>1, <2>1, <2>2, <2>3 DEF ConstructFromNew, MayWrite, Begins
  <2> QED
    BY <2>1, <2>4, BeginsInv
<1>2. ASSUME NEW v \in Vars, NEW s \in Handles, ConstructCopy(t, v, s)
      PROVE  Inv'
  <2>1. <<t, v>> \in Handles /\ <<t, v>> \in Own(t)
    BY DEF Handles, Locals, Own
  <2>2. m_pRef[s] # NULL /\ m_pRef[s] \in Objs /\ m_pRef[s] # m_pRef[<<t, v>>]
    BY <1>0, <1>2 DEF ConstructCopy
  <2>3. /\ MayUse(t, s) /\ s # <<t, v>> /\ s # NULL
        /\ s \in Objs => \E w \in Vars : <<t, w>> # <<t, v>> /\ m_pRef[<<t, w>>] = s
    BY <1>2, <2>1, <2>2, OtherHandle DEF ConstructCopy
  <2>4. Begins(t, "addref", <<t, v>>, s, FALSE, NULL, m_pRef[s], NULL)
    BY <1>0, <1>2, <2>1, <2>2, <2>3 DEF ConstructCopy, MayWrite, Begins
  <2> QED
    BY <2>1, <2>2, <2>4, BeginsInv
<1>3. ASSUME NEW d \in Handles, NEW s \in Handles, Assign(t, d, s)
      PROVE  Inv'
  <2>1. /\ MayUse(t, s) /\ s # d /\ s # NULL
        /\ s \in Objs => \E v \in Vars : <<t, v>> # d /\ m_pRef[<<t, v>>] = s
    BY <1>3, OtherHandle DEF Assign
  <2>2. m_pRef' = [m_pRef EXCEPT ![d] = m_pRef[d]] /\ m_pRef[d] \in Objs \cup {NULL}
    BY <1>0, <1>3 DEF Assign
  <2>3. Begins(t, "count", d, s, FALSE, NULL, m_pRef[d], NULL)
    BY <1>0, <1>3, <2>1, <2>2 DEF Assign, MayWrite, Begins
  <2> QED
    BY <2>2, <2>3, BeginsInv
<1>4. ASSUME NEW d \in Handles, NEW s \in Handles, AssignPointer(t, d, s)
      PROVE  Inv'
  <2>1. MayUse(t, s) /\ s # d /\ s # NULL /\ m_pRef[s] # NULL /\ m_pRef[s] \in Objs
    BY <1>0, <1>4 DEF AssignPointer
  <2>2. m_pRef' = [m_pRef EXCEPT ![d] = m_pRef[d]] /\ m_pRef[d] \in Objs \cup {NULL}
    BY <1>0, <1>4 DEF AssignPointer
  <2>3. Begins(t, "count", d, s, TRUE, m_pRef[s], m_pRef[d], NULL)
    BY <1>0, <1>4, <2>1, <2>2 DEF AssignPointer, MayWrite, Begins
  <2> QED
    BY <2>1, <2>2, <2>3, BeginsInv
<1>5. ASSUME NEW d \in Handles, NEW o \in Objs, AssignNew(t, d, o)
      PROVE  Inv'
  <2>1. /\ o # NULL /\ ~live[o] /\ m_pRef[o] = NULL
        /\ live' = [live EXCEPT ![o] = TRUE]
        /\ m_nRefer' = [m_nRefer EXCEPT ![o] = 0]
    BY <1>5, NewObject DEF AssignNew
  <2>2. m_pRef' = [m_pRef EXCEPT ![d] = m_pRef[d]] /\ m_pRef[d] \in Objs \cup {NULL}
    BY <1>0, <1>5, <2>1 DEF AssignNew
  <2>3. Begins(t, "count", d, NULL, TRUE, o, m_pRef[d], o)
    BY <1>0, <1>5, <2>1, <2>2 DEF AssignNew, MayWrite, Begins
  <2> QED
    BY <2>1, <2>2, <2>3, BeginsInv
<1>6. ASSUME NEW d \in Handles, Reset(t, d)
      PROVE  Inv'
  <2>1. m_pRef' = [m_pRef EXCEPT ![d] = m_pRef[d]] /\ m_pRef[d] \in Objs \cup {NULL}
    BY <1>0, <1>6 DEF Reset
  <2>2. Begins(t, "release", d, NULL, TRUE, NULL, m_pRef[d], NULL)
    BY <1>0, <1>6, <2>1 DEF Reset, MayWrite, Begins
  <2> QED
    BY <2>1, <2>2, BeginsInv
<1> QED
  BY <1>1, <1>2, <1>3, <1>4, <1>5, <1>6 DEF Call

-------------------------------------------------------------------------------
(* The steps of a call. *)

OthersStay(t) ==
  \A u \in Threads : u # t =>
    /\ pc'[u] = pc[u] /\ dst'[u] = dst[u] /\ src'[u] = src[u] /\ raw'[u] = raw[u]
    /\ pObj'[u] = pObj[u] /\ doomed'[u] = doomed[u]

\* A thread in a call changes the handle the call is on, or the members of objects
\* it deletes, and counts an object that no other call has made or is deleting.
LEMMA OthersUnchanged ==
  ASSUME Inv, NEW t \in Threads, pc[t] # "idle", OthersStay(t),
         \A h \in Handles : m_pRef'[h] = m_pRef[h] \/ h = dst[t] \/ (h \in Objs /\ Doomed(t, h)),
         NEW o, \A p \in Objs : p # o => live'[p] = live[p] /\ m_nRefer'[p] = m_nRefer[p],
         o \in Objs => \A u \in Threads : u # t => ~Fresh(u, o) /\ ~Doomed(u, o)
  PROVE  \A u \in Threads : u # t => UnchangedFor(u)
<1> SUFFICES ASSUME NEW u \in Threads, u # t
             PROVE  UnchangedFor(u)
  OBVIOUS
<1>1. \A h \in Own(u) : m_pRef'[h] = m_pRef[h]
  <2>1. Own(u) \subseteq Handles /\ dst[t] \notin Own(u)
    BY HandlesOfCalls
  <2>2. \A h \in Own(u) : h \notin Objs
    BY ObjsAssumption DEF Own, Locals
  <2> QED
    BY <2>1, <2>2
<1>2. pc[u] # "idle" => m_pRef'[dst[u]] = m_pRef[dst[u]]
  <2>1. pc[u] # "idle" => dst[u] \in Handles /\ dst[u] # dst[t]
    BY HandlesOfCalls DEF Inv, ThreadInv, DstInv
  <2>2. pc[u] # "idle" => ~(dst[u] \in Objs /\ Doomed(t, dst[u]))
    BY DoomedMember
  <2> QED
    BY <2>1, <2>2
<1>3. SrcKept(u) /\ src[u] # NULL => m_pRef'[src[u]] = m_pRef[src[u]]
  <2>1. SrcKept(u) /\ src[u] # NULL => src[u] \in Handles /\ src[u] # dst[t]
    BY DEF SrcKept, Inv, TypeOK, ThreadInv, DstInv
  <2>2. SrcKept(u) => ~(src[u] \in Objs /\ Doomed(t, src[u]))
    BY DoomedMember
  <2> QED
    BY <2>1, <2>2
<1>4. \A p \in Objs : Fresh(u, p) \/ Doomed(u, p) =>
        live'[p] = live[p] /\ m_nRefer'[p] = m_nRefer[p]
  OBVIOUS
<1> QED
  BY <1>1, <1>2, <1>3, <1>4 DEF UnchangedFor, OthersStay

\* A call that goes on has still its handle and its source.
LEMMA CallGoesOn ==
  ASSUME Inv, NEW t \in Threads, pc[t] # "idle", pc'[t] \in Assigning, dst'[t] = dst[t],
         src'[t] = src[t], raw'[t] = raw[t], ~raw[t] => m_pRef[src[t]] = pObj'[t],
         \A h \in Handles : m_pRef'[h] = m_pRef[h] \/ (h \in Objs /\ Doomed(t, h))
  PROVE  /\ SrcInv(t)' /\ PtrInv(t)'
         /\ \/ dst'[t] \in Own(t)
            \/ dst'[t] \in Objs /\ \E v \in Vars : m_pRef'[<<t, v>>] = dst'[t]
         /\ src'[t] # dst'[t]
         /\ \A u \in Threads : u # t /\ pc[u] # "idle" =>
              dst[u] # dst'[t] /\ src[u] # dst'[t] /\ src'[t] # dst[u]
         /\ \A o : ~Fresh(t, o)'
<1>1. \A v \in Vars : m_pRef'[<<t, v>>] = m_pRef[<<t, v>>]
  BY ObjsAssumption DEF Handles, Locals
<1>2. ~raw[t] => SrcKept(t)
  BY DEF SrcKept
<1>3. ~raw[t] => src[t] \in Handles
  BY DEF Inv, ThreadInv, SrcInv
<1>4. ~raw[t] => m_pRef'[src[t]] = m_pRef[src[t]]
  BY <1>2, <1>3, DoomedMember
<1>5. pc'[t] \notin {"idle", "addref", "count"}
  BY DEF Assigning
<1>6. SrcInv(t)'
  BY <1>1, <1>2, <1>3, <1>5 DEF Inv, ThreadInv, SrcInv, SrcKept
<1>7. PtrInv(t)'
  BY <1>4, <1>5 DEF PtrInv
<1>8. dst'[t] \in Own(t) \/ (dst'[t] \in Objs /\ \E v \in Vars : m_pRef'[<<t, v>>] = dst'[t])
  BY <1>1 DEF Inv, ThreadInv, DstInv, Holds
<1>9. /\ src'[t] # dst'[t]
      /\ \A u \in Threads : u # t /\ pc[u] # "idle" =>
           dst[u] # dst'[t] /\ src[u] # dst'[t] /\ src'[t] # dst[u]
  BY DEF Inv, ThreadInv, DstInv
<1>10. \A o : ~Fresh(t, o)'
  BY <1>5 DEF Fresh
<1> QED
  BY <1>6, <1>7, <1>8, <1>9, <1>10

\* A call that returns leaves nothing to do.
LEMMA CallReturns ==
  ASSUME NEW t \in Threads, pc'[t] = "idle", doomed'[t] = <<>>
  PROVE  ActsWell(t)
<1>1. Len(doomed'[t]) = 0
  BY EmptySeq
<1> QED
  BY <1>1 DEF ActsWell, SrcInv, SrcKept, PtrInv, Fresh, Assigning

\* A call finds in its source handle what it found there first.
LEMMA SourceRead ==
  ASSUME Inv, NEW t \in Threads, SrcKept(t), ~raw[t]
  PROVE  /\ src[t] \in Handles /\ m_pRef[src[t]] \in Objs \cup {NULL}
         /\ Assigned(t) = {m_pRef[src[t]]}
<1>1. src[t] \in Handles
  BY DEF Inv, ThreadInv, SrcInv, SrcKept
<1>2. src[t] \in Objs => live[src[t]]
  BY SourceKept, ReferredTo
<1> QED
  BY <1>1, <1>2 DEF Assigned, Read, Inv, TypeOK

LEMMA AddRefInv ==
  ASSUME Inv, NEW t \in Threads, AddRef(t)
  PROVE  Inv'
<1>0. PICK d, o : d = dst[t] /\ o = m_pRef[d]
  OBVIOUS
<1>1. /\ pc[t] = "addref" /\ d \in Handles /\ o \in Objs /\ o # NULL /\ live[o]
      /\ \A u \in Threads : ~Doomed(u, o) /\ (Fresh(u, o) => u = t)
  BY <1>0, PointerSafe, HandlesOfCalls, NullAssumption DEF AddRef
<1>2. /\ pc' = [pc EXCEPT ![t] = "idle"] /\ dst' = [dst EXCEPT ![t] = NULL]
      /\ src' = [src EXCEPT ![t] = NULL] /\ raw' = [raw EXCEPT ![t] = FALSE]
      /\ pObj' = [pObj EXCEPT ![t] = NULL] /\ doomed' = doomed
      /\ m_pRef' = m_pRef /\ live' = live /\ m_nRefer' = [m_nRefer EXCEPT ![o] = @ + 1]
  BY <1>0 DEF AddRef, Return, Begin
<1>3. pc'[t] = "idle" /\ doomed[t] = <<>> /\ Len(doomed[t]) = 0
  BY <1>1, <1>2, EmptySeq DEF Inv, TypeOK
<1>4. OthersStay(t)
  BY <1>2 DEF OthersStay, Inv, TypeOK
<1>5. \A p \in Objs : p # o => m_nRefer'[p] = m_nRefer[p]
  BY <1>2 DEF Inv, TypeOK
<1>6. m_nRefer'[o] = m_nRefer[o] + 1
  BY <1>1, <1>2 DEF Inv, TypeOK
<1>7. \A u \in Threads : u # t => UnchangedFor(u)
  BY <1>1, <1>2, <1>4, <1>5, OthersUnchanged
<1>8. TypeOK'
  <2>1. m_nRefer \in [Objs -> Int] /\ m_nRefer[o] + 1 \in Int
    BY <1>1 DEF Inv, TypeOK
  <2>2. m_nRefer' \in [Objs -> Int]
    BY <1>2, <2>1
  <2>3. \A u \in Threads : /\ pc'[u] # "idle" => dst'[u] \in Handles
                           /\ pc'[u] = "addref" => m_pRef'[dst'[u]] # NULL
                           /\ (pc'[u] = "delete") = (doomed'[u] # <<>>)
    BY <1>2, <1>3, <1>4 DEF Inv, TypeOK, OthersStay
  <2>4. /\ pc' \in [Threads -> {"idle", "addref", "count", "release", "delete", "store"}]
        /\ dst' \in [Threads -> Handles \cup {NULL}]
        /\ src' \in [Threads -> Handles \cup {NULL}]
        /\ raw' \in [Threads -> BOOLEAN]
        /\ pObj' \in [Threads -> Objs \cup {NULL}]
    BY <1>2 DEF Inv, TypeOK
  <2> QED
    BY <1>2, <2>2, <2>3, <2>4 DEF Inv, TypeOK
<1>9. ActsWell(t)
  BY <1>2, <1>3, CallReturns
<1>10. ~Settled(d) /\ Settled(d)'
  BY <1>0, <1>1, <1>3, <1>4 DEF Settled, InChange, OthersStay, Inv, ThreadInv, DstInv
<1>11. \A h \in Handles : h # d => (Settled(h)' <=> Settled(h))
  BY <1>0, <1>3, <1>4, SettledUnchanged DEF OthersStay, InChange
<1>12. \A p \in Objs : Counted(p)' = Counted(p)
  BY <1>1, <1>3, <1>4 DEF Counted, OthersStay
<1>13. ASSUME NEW p \in Objs
       PROVE  ObjInv(p)'
  <2>1. CASE p = o
    <3>1. d \notin Referring(o) /\ Referring(o)' = Referring(o) \cup {d}
      BY <1>0, <1>1, <1>2, <1>10, <1>11 DEF Referring
    <3> QED
      BY <1>1, <1>2, <1>6, <1>12, <2>1, <3>1, ObjGains
  <2>2. CASE p # o
    <3>1. Referring(p)' = Referring(p)
      BY <1>0, <1>2, <1>11, <2>2 DEF Referring
    <3>2. ~Fresh(t, p) /\ ~Doomed(t, p)
      BY <1>0, <1>1, <1>3, <2>2 DEF Fresh, Doomed
    <3> QED
      BY <1>2, <1>5, <1>7, <1>12, <2>2, <3>1, <3>2, ObjKept
  <2> QED
    BY <2>1, <2>2
<1> QED
  BY <1>7, <1>8, <1>9, <1>13, InvKept

LEMMA CountInv ==
  ASSUME Inv, NEW t \in Threads, Count(t)
  PROVE  Inv'
<1>0. PICK p \in Assigned(t) :
        /\ m_nRefer' = IF p = NULL THEN m_nRefer ELSE [m_nRefer EXCEPT ![p] = @ + 1]
        /\ Begin(t, "release", dst[t], src[t], raw[t], p)
  BY DEF Count
<1>1. /\ pc[t] = "count" /\ dst[t] \in Handles /\ p \in Objs \cup {NULL}
      /\ p # NULL => /\ live[p]
                     /\ \A u \in Threads : ~Doomed(u, p) /\ (Fresh(u, p) => u = t)
  BY <1>0, PointerSafe, HandlesOfCalls DEF Count
<1>2. /\ pc' = [pc EXCEPT ![t] = "release"] /\ dst' = [dst EXCEPT ![t] = dst[t]]
      /\ src' = [src EXCEPT ![t] = src[t]] /\ raw' = [raw EXCEPT ![t] = raw[t]]
      /\ pObj' = [pObj EXCEPT ![t] = p] /\ doomed' = doomed
      /\ m_pRef' = m_pRef /\ live' = live
  BY <1>0 DEF Count, Begin
<1>3. /\ pc'[t] = "release" /\ dst'[t] = dst[t] /\ src'[t] = src[t] /\ raw'[t] = raw[t]
      /\ pObj'[t] = p /\ doomed[t] = <<>> /\ Len(doomed[t]) = 0
  BY <1>1, <1>2, EmptySeq DEF Inv, TypeOK
<1>4. OthersStay(t)
  BY <1>2 DEF OthersStay, Inv, TypeOK
<1>5. \A q \in Objs : q # p => m_nRefer'[q] = m_nRefer[q]
  BY <1>0 DEF Inv, TypeOK
<1>6. p # NULL => p \in Objs /\ m_nRefer'[p] = m_nRefer[p] + 1
  BY <1>0, <1>1 DEF Inv, TypeOK
<1>7. NULL \notin Objs
  BY NullAssumption
<1>8. \A u \in Threads : u # t => UnchangedFor(u)
  BY <1>1, <1>2, <1>4, <1>5, <1>7, OthersUnchanged
<1>9. TypeOK'
  <2>1. m_nRefer' \in [Objs -> Int]
    <3>1. m_nRefer \in [Objs -> Int] /\ (p # NULL => m_nRefer[p] + 1 \in Int)
      BY <1>6 DEF Inv, TypeOK
    <3> QED
      BY <1>0, <3>1
  <2>2. \A u \in Threads : /\ pc'[u] # "idle" => dst'[u] \in Handles
                           /\ pc'[u] = "addref" => m_pRef'[dst'[u]] # NULL
                           /\ (pc'[u] = "delete") = (doomed'[u] # <<>>)
    BY <1>1, <1>2, <1>3, <1>4 DEF Inv, TypeOK, OthersStay
  <2>3. /\ pc' \in [Threads -> {"idle", "addref", "count", "release", "delete", "store"}]
        /\ dst' \in [Threads -> Handles \cup {NULL}]
        /\ src' \in [Threads -> Handles \cup {NULL}]
        /\ raw' \in [Threads -> BOOLEAN]
        /\ pObj' \in [Threads -> Objs \cup {NULL}]
    BY <1>1, <1>2 DEF Inv, TypeOK
  <2> QED
    BY <1>2, <2>1, <2>2, <2>3 DEF Inv, TypeOK
<1>10. ActsWell(t)
  <2>1. ~raw[t] => m_pRef[src[t]] = pObj'[t]
    BY <1>0, <1>1, <1>3, SourceRead DEF SrcKept
  <2>2. pc'[t] \in Assigning
    BY <1>3 DEF Assigning
  <2>3. /\ SrcInv(t)' /\ PtrInv(t)'
        /\ \/ dst'[t] \in Own(t)
           \/ dst'[t] \in Objs /\ \E v \in Vars : m_pRef'[<<t, v>>] = dst'[t]
        /\ src'[t] # dst'[t]
        /\ \A u \in Threads : u # t /\ pc[u] # "idle" =>
             dst[u] # dst'[t] /\ src[u] # dst'[t] /\ src'[t] # dst[u]
        /\ \A o : ~Fresh(t, o)'
    BY <1>1, <1>2, <1>3, <2>1, <2>2, CallGoesOn
  <2> QED
    BY <1>2, <1>3, <2>3 DEF ActsWell
<1>11. \A h \in Handles : Settled(h)' <=> Settled(h)
  BY <1>1, <1>3, <1>4, SettledUnchanged DEF OthersStay, InChange
<1>12. \A q \in Objs : Referring(q)' = Referring(q)
  BY <1>2, <1>11 DEF Referring
<1>13. ASSUME NEW q \in Objs
       PROVE  ObjInv(q)'
  <2>1. CASE q = p
    <3>1. t \notin Counted(q) /\ Counted(q)' = Counted(q) \cup {t}
      BY <1>1, <1>3, <1>4, <2>1 DEF Counted, OthersStay
    <3> QED
      BY <1>1, <1>2, <1>6, <1>7, <1>12, <2>1, <3>1, ObjGains
  <2>2. CASE q # p
    <3>1. Counted(q)' = Counted(q)
      BY <1>1, <1>3, <1>4, <2>2 DEF Counted, OthersStay
    <3>2. ~Fresh(t, q) /\ ~Doomed(t, q)
      BY <1>0, <1>1, <1>3, <2>2 DEF Fresh, Doomed, Assigned
    <3> QED
      BY <1>2, <1>5, <1>8, <1>12, <2>2, <3>1, <3>2, ObjKept
  <2> QED
    BY <2>1, <2>2
<1> QED
  BY <1>8, <1>9, <1>10, <1>13, InvKept

LEMMA ReleaseOldInv ==
  ASSUME Inv, NEW t \in Threads, ReleaseOld(t)
  PROVE  Inv'
<1>0. PICK d, o : d = dst[t] /\ o = m_pRef[d]
  OBVIOUS
<1>1. /\ pc[t] = "release" /\ d \in Handles /\ o \in Objs \cup {NULL} /\ NULL \notin Objs
      /\ doomed[t] = <<>> /\ Len(doomed[t]) = 0
  BY <1>0, HandlesOfCalls, NullAssumption, EmptySeq DEF ReleaseOld, Inv, TypeOK
<1>2. /\ pc' = [pc EXCEPT ![t] = IF doomed'[t] = <<>> THEN "store" ELSE "delete"]
      /\ m_pRef' = m_pRef /\ live' = live /\ dst' = dst /\ src' = src /\ raw' = raw
      /\ pObj' = pObj
  BY DEF ReleaseOld, callVars
<1>3. o = NULL => m_nRefer' = m_nRefer /\ doomed' = doomed
  BY <1>0 DEF ReleaseOld
<1>4. o # NULL => /\ m_nRefer' = [m_nRefer EXCEPT ![o] = @ - 1]
                  /\ doomed' = IF m_nRefer[o] - 1 <= 0
                               THEN [doomed EXCEPT ![t] = <<o>> \o @] ELSE doomed
  BY <1>0 DEF ReleaseOld, Release, Unreferenced
<1>5. Settled(d)
  BY <1>0, <1>1 DEF Settled, InChange, Inv, ThreadInv, DstInv
<1>6. o # NULL => /\ d \in Referring(o) /\ live[o]
                  /\ \A u \in Threads : ~Fresh(u, o) /\ ~Doomed(u, o)
  BY <1>0, <1>1, <1>5, ReferredTo DEF Referring
<1>7. \A p \in Objs : p # o => m_nRefer'[p] = m_nRefer[p]
  BY <1>3, <1>4 DEF Inv, TypeOK
<1>8. o # NULL => m_nRefer'[o] = m_nRefer[o] - 1 /\ m_nRefer[o] - 1 \in Int
  BY <1>1, <1>4 DEF Inv, TypeOK
<1>9. o # NULL /\ m_nRefer'[o] <= 0 => doomed' = [doomed EXCEPT ![t] = <<o>>]
  <2>1. <<o>> \o <<>> = <<o>>
    OBVIOUS
  <2> QED
    BY <1>1, <1>4, <1>8, <2>1
<1>10. ~(o # NULL /\ m_nRefer'[o] <= 0) => doomed' = doomed
  BY <1>3, <1>4, <1>8
<1>11. doomed' \in [Threads -> Seq(Objs)]
  <2>1. o # NULL => <<o>> \in Seq(Objs)
    BY <1>1
  <2> QED
    BY <1>9, <1>10, <2>1 DEF Inv, TypeOK
<1>12. /\ doomed'[t] = IF o # NULL /\ m_nRefer'[o] <= 0 THEN <<o>> ELSE <<>>
       /\ pc'[t] = IF doomed'[t] = <<>> THEN "store" ELSE "delete"
  BY <1>1, <1>2, <1>9, <1>10 DEF Inv, TypeOK
<1>13. OthersStay(t)
  BY <1>2, <1>9, <1>10 DEF OthersStay, Inv, TypeOK
<1>14. \A u \in Threads : u # t => UnchangedFor(u)
  BY <1>1, <1>2, <1>6, <1>7, <1>13, OthersUnchanged
<1>15. TypeOK'
  <2>1. m_nRefer' \in [Objs -> Int]
    <3>1. m_nRefer \in [Objs -> Int]
      BY DEF Inv, TypeOK
    <3> QED
      BY <1>3, <1>4, <1>8, <3>1
  <2>2. \A u \in Threads : /\ pc'[u] # "idle" => dst'[u] \in Handles
                           /\ pc'[u] = "addref" => m_pRef'[dst'[u]] # NULL
                           /\ (pc'[u] = "delete") = (doomed'[u] # <<>>)
    BY <1>0, <1>1, <1>2, <1>12, <1>13 DEF Inv, TypeOK, OthersStay
  <2>3. pc' \in [Threads -> {"idle", "addref", "count", "release", "delete", "store"}]
    BY <1>2 DEF Inv, TypeOK
  <2> QED
    BY <1>2, <1>11, <2>1, <2>2, <2>3 DEF Inv, TypeOK
<1>16. ASSUME o # NULL
       PROVE  /\ Referring(o)' = Referring(o) \ {d}
              /\ ObjInv(o)' /\ (m_nRefer'[o] <= 0 => m_nRefer'[o] = 0)
  <2>1. Referring(o)' = Referring(o) \ {d}
    <3>1. ~Settled(d)'
      BY <1>0, <1>2, <1>12 DEF Settled, InChange
    <3>2. \A h \in Handles : h # d => (Settled(h)' <=> Settled(h))
      BY <1>0, <1>2, <1>13, SettledUnchanged DEF OthersStay
    <3> QED
      BY <1>2, <3>1, <3>2 DEF Referring
  <2>2. Counted(o)' = Counted(o)
    BY <1>1, <1>2, <1>12, <1>13 DEF Counted, OthersStay
  <2>3. m_nRefer'[o] <= 0 => Doomed(t, o)'
    <3>1. Len(<<o>>) = 1 /\ <<o>>[1] = o /\ 1 \in 1..1
      OBVIOUS
    <3> QED
      BY <1>12, <1>16, <3>1 DEF Doomed
  <2>4. o \in Objs /\ live'[o] /\ m_nRefer'[o] = m_nRefer[o] - 1 /\ d \in Referring(o)
    BY <1>1, <1>2, <1>6, <1>8, <1>16
  <2> QED
    BY <2>1, <2>2, <2>3, <2>4, ObjLoses
<1>17. ActsWell(t)
  <2>1. ~raw[t] => m_pRef[src[t]] = pObj'[t]
    BY <1>1, <1>2 DEF Inv, ThreadInv, PtrInv, Assigning
  <2>2. pc'[t] \in Assigning
    BY <1>12 DEF Assigning
  <2>3. /\ SrcInv(t)' /\ PtrInv(t)'
        /\ \/ dst'[t] \in Own(t)
           \/ dst'[t] \in Objs /\ \E v \in Vars : m_pRef'[<<t, v>>] = dst'[t]
        /\ src'[t] # dst'[t]
        /\ \A u \in Threads : u # t /\ pc[u] # "idle" =>
             dst[u] # dst'[t] /\ src[u] # dst'[t] /\ src'[t] # dst[u]
        /\ \A p : ~Fresh(t, p)'
    BY <1>1, <1>2, <2>1, <2>2, CallGoesOn
  <2>4. ASSUME NEW i \in 1..Len(doomed'[t])
        PROVE  /\ o # NULL /\ m_nRefer'[o] <= 0 /\ doomed'[t][i] = o
               /\ \A j \in 1..Len(doomed'[t]) : j = i
    <3>1. Len(<<>>) = 0 /\ Len(<<o>>) = 1
      BY EmptySeq
    <3> QED
      BY <1>12, <3>1
  <2> QED
    BY <1>2, <1>6, <1>16, <2>3, <2>4 DEF ActsWell
<1>18. ASSUME NEW p \in Objs
       PROVE  ObjInv(p)'
  <2>1. CASE p = o
    BY <1>1, <1>16, <2>1
  <2>2. CASE p # o
    <3>1. Referring(p)' = Referring(p)
      <4>1. \A h \in Handles : h # d => (Settled(h)' <=> Settled(h))
        BY <1>0, <1>2, <1>13, SettledUnchanged DEF OthersStay
      <4> QED
        BY <1>0, <1>2, <2>2, <4>1 DEF Referring
    <3>2. Counted(p)' = Counted(p)
      BY <1>1, <1>2, <1>12, <1>13 DEF Counted, OthersStay
    <3>3. ~Fresh(t, p) /\ ~Doomed(t, p)
      BY <1>1 DEF Fresh, Doomed
    <3> QED
      BY <1>2, <1>7, <1>14, <2>2, <3>1, <3>2, <3>3, ObjKept
  <2> QED
    BY <2>1, <2>2
<1> QED
  BY <1>14, <1>15, <1>17, <1>18, InvKept

\* The list of doomed objects: its first, the others, and one more in front.
LEMMA DoomedList ==
  ASSUME NEW s \in Seq(Objs)
  PROVE  /\ s # <<>> => /\ Head(s) \in Objs /\ Head(s) = s[1] /\ 1 \in 1..Len(s)
                        /\ Tail(s) \in Seq(Objs) /\ Len(Tail(s)) = Len(s) - 1
                        /\ \A i \in 1..Len(Tail(s)) : Tail(s)[i] = s[i + 1] /\ i + 1 \in 1..Len(s)
         /\ \A o \in Objs : /\ <<o>> \o s \in Seq(Objs) /\ <<o>> \o s # <<>>
                            /\ Len(<<o>> \o s) = Len(s) + 1 /\ (<<o>> \o s)[1] = o
                            /\ \A i \in 1..Len(s) : (<<o>> \o s)[i + 1] = s[i]
                            /\ \A i \in 1..Len(<<o>> \o s) : i # 1 => /\ i - 1 \in 1..Len(s)
                                                                      /\ (<<o>> \o s)[i] = s[i - 1]
<1>1. Len(s) \in Nat
  BY LenProperties
<1>2. s # <<>> => /\ Head(s) \in Objs /\ Head(s) = s[1] /\ 1 \in 1..Len(s)
                  /\ Tail(s) \in Seq(Objs) /\ Len(Tail(s)) = Len(s) - 1
                  /\ \A i \in 1..Len(Tail(s)) : Tail(s)[i] = s[i + 1] /\ i + 1 \in 1..Len(s)
  BY <1>1, HeadTailProperties, EmptySeq
<1>3. ASSUME NEW o \in Objs
      PROVE  /\ <<o>> \o s \in Seq(Objs) /\ <<o>> \o s # <<>>
             /\ Len(<<o>> \o s) = Len(s) + 1 /\ (<<o>> \o s)[1] = o
             /\ \A i \in 1..Len(s) : (<<o>> \o s)[i + 1] = s[i]
             /\ \A i \in 1..Len(<<o>> \o s) : i # 1 => /\ i - 1 \in 1..Len(s)
                                                       /\ (<<o>> \o s)[i] = s[i - 1]
  <2>1. <<o>> \in Seq(Objs) /\ Len(<<o>>) = 1 /\ <<o>>[1] = o
    OBVIOUS
  <2>2. /\ <<o>> \o s \in Seq(Objs) /\ Len(<<o>> \o s) = Len(s) + 1
        /\ \A i \in 1..(Len(s) + 1) : (<<o>> \o s)[i] = IF i <= 1 THEN <<o>>[i] ELSE s[i - 1]
    BY <1>1, <2>1, ConcatProperties
  <2> QED
    BY <1>1, <2>1, <2>2, EmptySeq
<1> QED
  BY <1>2, <1>3

\* What a thread is deleting.
LEMMA DoomedFirst ==
  ASSUME Inv, NEW t \in Threads, pc[t] = "delete", NEW o, o = Head(doomed[t])
  PROVE  /\ doomed[t] \in Seq(Objs) /\ doomed[t] # <<>>
         /\ o \in Objs /\ o = doomed[t][1] /\ 1 \in 1..Len(doomed[t]) /\ Doomed(t, o)
         /\ live[o] /\ m_nRefer[o] = 0
         /\ \A u \in Threads : u # t => ~Fresh(u, o) /\ ~Doomed(u, o)
<1>1. doomed[t] \in Seq(Objs) /\ doomed[t] # <<>>
  BY DEF Inv, TypeOK
<1>2. o \in Objs /\ o = doomed[t][1] /\ 1 \in 1..Len(doomed[t])
  BY <1>1, DoomedList
<1>3. Doomed(t, o)
  BY <1>2 DEF Doomed
<1> QED
  BY <1>1, <1>2, <1>3 DEF Inv, ThreadInv, FreshInv, DoomedInv, Doomed

LEMMA DestroyMemberInv ==
  ASSUME Inv, NEW t \in Threads, DestroyMember(t)
  PROVE  Inv'
<1>0. PICK x, o : x = Head(doomed[t]) /\ o = m_pRef[x]
  OBVIOUS
<1>1. /\ pc[t] = "delete" /\ doomed[t] \in Seq(Objs) /\ doomed[t] # <<>>
      /\ x \in Objs /\ Doomed(t, x) /\ live[x]
  BY <1>0, DoomedFirst DEF DestroyMember
<1>2. o \in Objs /\ NULL \notin Objs /\ x \in Handles
  BY <1>0, <1>1, NullAssumption DEF DestroyMember, Handles, Inv, TypeOK
<1>3. /\ m_nRefer' = [m_nRefer EXCEPT ![o] = @ - 1]
      /\ doomed' = IF m_nRefer[o] - 1 <= 0 THEN [doomed EXCEPT ![t] = <<o>> \o @] ELSE doomed
      /\ m_pRef' = [m_pRef EXCEPT ![x] = NULL]
      /\ pc' = pc /\ live' = live /\ dst' = dst /\ src' = src /\ raw' = raw /\ pObj' = pObj
  BY <1>0 DEF DestroyMember, Release, Unreferenced, callVars
<1>4. /\ Settled(x) /\ x \in Referring(o)
      /\ dst[t] # x /\ (SrcKept(t) => src[t] # x)
  BY <1>0, <1>1, <1>2, DoomedMember DEF Referring
<1>5. /\ live[o] /\ \A u \in Threads : ~Fresh(u, o) /\ ~Doomed(u, o)
  BY <1>2, <1>4, ReferredTo
<1>6. /\ \A p \in Objs : p # o => m_nRefer'[p] = m_nRefer[p]
      /\ m_nRefer'[o] = m_nRefer[o] - 1 /\ m_nRefer[o] - 1 \in Int
  BY <1>2, <1>3 DEF Inv, TypeOK
<1>7. \A h \in Handles : m_pRef'[h] = IF h = x THEN NULL ELSE m_pRef[h]
  BY <1>3 DEF Inv, TypeOK
<1>8. doomed'[t] = IF m_nRefer'[o] <= 0 THEN <<o>> \o doomed[t] ELSE doomed[t]
  BY <1>3, <1>6 DEF Inv, TypeOK
<1>9. doomed'[t] \in Seq(Objs) /\ doomed'[t] # <<>> /\ doomed' = [doomed EXCEPT ![t] = doomed'[t]]
  <2>1. <<o>> \o doomed[t] \in Seq(Objs) /\ <<o>> \o doomed[t] # <<>>
    BY <1>1, <1>2, DoomedList
  <2> QED
    BY <1>1, <1>3, <1>8, <2>1 DEF Inv, TypeOK
<1>10. OthersStay(t)
  BY <1>3, <1>9 DEF OthersStay, Inv, TypeOK
<1>11. \A u \in Threads : u # t => UnchangedFor(u)
  BY <1>1, <1>3, <1>5, <1>6, <1>7, <1>10, OthersUnchanged
<1>12. TypeOK'
  <2>1. m_nRefer' \in [Objs -> Int]
    <3>1. m_nRefer \in [Objs -> Int]
      BY DEF Inv, TypeOK
    <3> QED
      BY <1>3, <1>6, <3>1
  <2>2. m_pRef' \in [Handles -> Objs \cup {NULL}] /\ doomed' \in [Threads -> Seq(Objs)]
    BY <1>3, <1>9 DEF Inv, TypeOK
  <2>3. \A u \in Threads : /\ pc'[u] # "idle" => dst'[u] \in Handles
                           /\ pc'[u] = "addref" => m_pRef'[dst'[u]] # NULL
                           /\ (pc'[u] = "delete") = (doomed'[u] # <<>>)
    <3> SUFFICES ASSUME NEW u \in Threads
                 PROVE  /\ pc'[u] # "idle" => dst'[u] \in Handles
                        /\ pc'[u] = "addref" => m_pRef'[dst'[u]] # NULL
                        /\ (pc'[u] = "delete") = (doomed'[u] # <<>>)
      OBVIOUS
    <3>1. pc[u] # "idle" => dst[u] # x
      BY <1>1, DoomedMember
    <3>2. doomed'[u] # <<>> <=> doomed[u] # <<>>
      BY <1>1, <1>9, <1>10 DEF OthersStay
    <3> QED
      BY <1>3, <1>7, <3>1, <3>2 DEF Inv, TypeOK
  <2> QED
    BY <1>3, <2>1, <2>2, <2>3 DEF Inv, TypeOK
<1>13. \A h \in Handles : Settled(h)' <=> Settled(h)
  BY <1>3 DEF Settled
<1>14. \A p \in Objs : Counted(p)' = Counted(p)
  BY <1>3 DEF Counted
<1>15. \A p \in Objs : Doomed(t, p) => Doomed(t, p)'
  <2> SUFFICES ASSUME NEW p \in Objs, NEW i \in 1..Len(doomed[t]), doomed[t][i] = p
               PROVE  \E j \in 1..Len(doomed'[t]) : doomed'[t][j] = p
    BY DEF Doomed
  <2>1. CASE doomed'[t] = doomed[t]
    BY <2>1
  <2>2. CASE doomed'[t] = <<o>> \o doomed[t]
    <3>1. Len(doomed'[t]) = Len(doomed[t]) + 1 /\ doomed'[t][i + 1] = p /\ Len(doomed[t]) \in Nat
      BY <1>1, <1>2, <2>2, DoomedList, LenProperties
    <3>2. i + 1 \in 1..Len(doomed'[t])
      BY <3>1
    <3> QED
      BY <3>1, <3>2
  <2> QED
    BY <1>8, <2>1, <2>2
<1>16. ObjInv(o)' /\ (m_nRefer'[o] <= 0 => m_nRefer'[o] = 0)
  <2>1. Referring(o)' = Referring(o) \ {x}
    BY <1>2, <1>7, <1>13 DEF Referring
  <2>2. m_nRefer'[o] <= 0 => Doomed(t, o)'
    <3>1. Len(<<o>> \o doomed[t]) = Len(doomed[t]) + 1 /\ (<<o>> \o doomed[t])[1] = o
      BY <1>1, <1>2, DoomedList
    <3>2. 1 \in 1..Len(<<o>> \o doomed[t])
      BY <1>1, <3>1, LenProperties
    <3> QED
      BY <1>8, <3>1, <3>2 DEF Doomed
  <2>3. Counted(o)' = Counted(o)
    BY <1>2, <1>14
  <2>4. live'[o]
    BY <1>3, <1>5
  <2> QED
    BY <1>2, <1>4, <1>6, <2>1, <2>2, <2>3, <2>4, ObjLoses
<1>17. ActsWell(t)
  <2>1. ~raw[t] => m_pRef[src[t]] = pObj'[t]
    BY <1>1, <1>3 DEF Inv, ThreadInv, PtrInv, Assigning
  <2>2. pc'[t] \in Assigning
    BY <1>1, <1>3 DEF Assigning
  <2>3. /\ SrcInv(t)' /\ PtrInv(t)'
        /\ \/ dst'[t] \in Own(t)
           \/ dst'[t] \in Objs /\ \E v \in Vars : m_pRef'[<<t, v>>] = dst'[t]
        /\ src'[t] # dst'[t]
        /\ \A u \in Threads : u # t /\ pc[u] # "idle" =>
             dst[u] # dst'[t] /\ src[u] # dst'[t] /\ src'[t] # dst[u]
        /\ \A p : ~Fresh(t, p)'
    BY <1>1, <1>3, <1>7, <2>1, <2>2, CallGoesOn
  <2>4. ASSUME NEW i \in 1..Len(doomed[t])
        PROVE  /\ doomed[t][i] # o
               /\ live'[doomed[t][i]] /\ m_nRefer'[doomed[t][i]] = 0
               /\ \A j \in 1..Len(doomed[t]) : doomed[t][j] = doomed[t][i] => j = i
               /\ \A u \in Threads : u # t => /\ ~Fresh(u, doomed[t][i])
                                              /\ ~Doomed(u, doomed[t][i])
    <3>1. doomed[t][i] # o /\ doomed[t][i] \in Objs
      BY <1>1, <1>5, ElementOfSeq DEF Doomed
    <3>2. /\ live[doomed[t][i]] /\ m_nRefer[doomed[t][i]] = 0
          /\ \A j \in 1..Len(doomed[t]) : doomed[t][j] = doomed[t][i] => j = i
          /\ \A u \in Threads : u # t => ~Doomed(u, doomed[t][i])
      BY DEF Inv, ThreadInv, DoomedInv, Doomed
    <3>3. Doomed(t, doomed[t][i])
      BY DEF Doomed
    <3>4. \A u \in Threads : ~Fresh(u, doomed[t][i])
      BY <3>1, <3>3 DEF Inv, ThreadInv, FreshInv
    <3> QED
      BY <1>3, <1>6, <3>1, <3>2, <3>4
  <2>5. \A i \in 1..Len(doomed'[t]) :
          /\ live'[doomed'[t][i]] /\ m_nRefer'[doomed'[t][i]] = 0
          /\ \A j \in 1..Len(doomed'[t]) : doomed'[t][j] = doomed'[t][i] => j = i
          /\ \A u \in Threads : u # t => /\ ~Fresh(u, doomed'[t][i])
                                         /\ ~Doomed(u, doomed'[t][i])
    <3>1. CASE doomed'[t] = doomed[t]
      BY <2>4, <3>1
    <3>2. CASE m_nRefer'[o] <= 0 /\ doomed'[t] = <<o>> \o doomed[t]
      <4>1. ASSUME NEW i \in 1..Len(doomed'[t])
            PROVE  \/ i = 1 /\ doomed'[t][i] = o
                   \/ i # 1 /\ i - 1 \in 1..Len(doomed[t]) /\ doomed'[t][i] = doomed[t][i - 1]
        BY <1>1, <1>2, <3>2, DoomedList
      <4>2. live'[o] /\ m_nRefer'[o] = 0
        BY <1>3, <1>5, <1>16, <3>2
      <4> SUFFICES ASSUME NEW i \in 1..Len(doomed'[t])
                   PROVE  /\ live'[doomed'[t][i]] /\ m_nRefer'[doomed'[t][i]] = 0
                          /\ \A j \in 1..Len(doomed'[t]) : doomed'[t][j] = doomed'[t][i] => j = i
                          /\ \A u \in Threads : u # t => /\ ~Fresh(u, doomed'[t][i])
                                                         /\ ~Doomed(u, doomed'[t][i])
        OBVIOUS
      <4>3. /\ live'[doomed'[t][i]] /\ m_nRefer'[doomed'[t][i]] = 0
            /\ \A u \in Threads : u # t => /\ ~Fresh(u, doomed'[t][i])
                                           /\ ~Doomed(u, doomed'[t][i])
        BY <1>5, <2>4, <4>1, <4>2
      <4>4. ASSUME NEW j \in 1..Len(doomed'[t]), doomed'[t][j] = doomed'[t][i]
            PROVE  j = i
        <5>1. CASE i = 1 \/ j = 1
          BY <2>4, <4>1, <4>4, <5>1
        <5>2. CASE i # 1 /\ j # 1
          <6>1. /\ i - 1 \in 1..Len(doomed[t]) /\ j - 1 \in 1..Len(doomed[t])
                /\ doomed[t][j - 1] = doomed[t][i - 1]
            BY <4>1, <4>4, <5>2
          <6>2. j - 1 = i - 1
            BY <2>4, <6>1
          <6> QED
            BY <6>2
        <5> QED
          BY <5>1, <5>2
      <4> QED
        BY <4>3, <4>4
    <3> QED
      BY <1>8, <3>1, <3>2
  <2> QED
    BY <2>3, <2>5 DEF ActsWell
<1>18. ASSUME NEW p \in Objs
       PROVE  ObjInv(p)'
  <2>1. CASE p = o
    BY <1>16, <2>1
  <2>2. CASE p # o
    <3>1. Referring(p)' = Referring(p)
      BY <1>0, <1>2, <1>7, <1>13, <2>2 DEF Referring
    <3>2. m_pRef'[p] = m_pRef[p] \/ live[p]
      BY <1>1, <1>7 DEF Handles
    <3>3. ~Fresh(t, p)
      BY <1>1 DEF Fresh
    <3> QED
      BY <1>3, <1>6, <1>11, <1>14, <1>15, <2>2, <3>1, <3>2, <3>3, ObjKept
  <2> QED
    BY <2>1, <2>2
<1> QED
  BY <1>11, <1>12, <1>17, <1>18, InvKept

LEMMA DeleteInv ==
  ASSUME Inv, NEW t \in Threads, Delete(t)
  PROVE  Inv'
<1>0. PICK o : o = Head(doomed[t])
  OBVIOUS
<1>1. /\ pc[t] = "delete" /\ doomed[t] \in Seq(Objs) /\ doomed[t] # <<>>
      /\ o \in Objs /\ o = doomed[t][1] /\ 1 \in 1..Len(doomed[t]) /\ Doomed(t, o)
      /\ \A u \in Threads : u # t => ~Fresh(u, o) /\ ~Doomed(u, o)
  BY <1>0, DoomedFirst DEF Delete
<1>2. /\ m_pRef[o] = NULL
      /\ live' = [live EXCEPT ![o] = FALSE]
      /\ doomed' = [doomed EXCEPT ![t] = Tail(@)]
      /\ pc' = [pc EXCEPT ![t] = IF doomed'[t] = <<>> THEN "store" ELSE "delete"]
      /\ m_pRef' = m_pRef /\ m_nRefer' = m_nRefer
      /\ dst' = dst /\ src' = src /\ raw' = raw /\ pObj' = pObj
  BY <1>0 DEF Delete, callVars
<1>3. /\ doomed'[t] = Tail(doomed[t]) /\ doomed'[t] \in Seq(Objs)
      /\ \A i \in 1..Len(doomed'[t]) : doomed'[t][i] = doomed[t][i + 1] /\ i + 1 \in 1..Len(doomed[t])
      /\ Len(doomed'[t]) = Len(doomed[t]) - 1
      /\ pc'[t] = IF doomed'[t] = <<>> THEN "store" ELSE "delete"
  BY <1>1, <1>2, DoomedList DEF Inv, TypeOK
<1>4. OthersStay(t)
  BY <1>2 DEF OthersStay, Inv, TypeOK
<1>5. ~live'[o] /\ \A p \in Objs : p # o => live'[p] = live[p]
  BY <1>1, <1>2 DEF Inv, TypeOK
<1>6. \A u \in Threads : u # t => UnchangedFor(u)
  BY <1>1, <1>2, <1>4, <1>5, OthersUnchanged
<1>7. TypeOK'
  <2>1. live' \in [Objs -> BOOLEAN] /\ doomed' \in [Threads -> Seq(Objs)]
    <3>1. live \in [Objs -> BOOLEAN] /\ doomed \in [Threads -> Seq(Objs)]
      BY DEF Inv, TypeOK
    <3> QED
      BY <1>2, <1>3, <3>1
  <2>2. \A u \in Threads : /\ pc'[u] # "idle" => dst'[u] \in Handles
                           /\ pc'[u] = "addref" => m_pRef'[dst'[u]] # NULL
                           /\ (pc'[u] = "delete") = (doomed'[u] # <<>>)
    BY <1>1, <1>2, <1>3, <1>4 DEF Inv, TypeOK, OthersStay
  <2>3. pc' \in [Threads -> {"idle", "addref", "count", "release", "delete", "store"}]
    BY <1>2 DEF Inv, TypeOK
  <2> QED
    BY <1>2, <2>1, <2>2, <2>3 DEF Inv, TypeOK
<1>8. \A h \in Handles : Settled(h)' <=> Settled(h)
  BY <1>1, <1>2, <1>3, <1>4, SettledUnchanged DEF OthersStay, InChange
<1>9. \A p \in Objs : Referring(p)' = Referring(p)
  BY <1>2, <1>8 DEF Referring
<1>10. \A p \in Objs : Counted(p)' = Counted(p)
  BY <1>1, <1>2, <1>3, <1>4 DEF Counted, OthersStay
<1>11. ActsWell(t)
  <2>1. ~raw[t] => m_pRef[src[t]] = pObj'[t]
    BY <1>1, <1>2 DEF Inv, ThreadInv, PtrInv, Assigning
  <2>2. pc'[t] \in Assigning
    BY <1>3 DEF Assigning
  <2>3. /\ SrcInv(t)' /\ PtrInv(t)'
        /\ \/ dst'[t] \in Own(t)
           \/ dst'[t] \in Objs /\ \E v \in Vars : m_pRef'[<<t, v>>] = dst'[t]
        /\ src'[t] # dst'[t]
        /\ \A u \in Threads : u # t /\ pc[u] # "idle" =>
             dst[u] # dst'[t] /\ src[u] # dst'[t] /\ src'[t] # dst[u]
        /\ \A p : ~Fresh(t, p)'
    BY <1>1, <1>2, <2>1, <2>2, CallGoesOn
  <2>4. ASSUME NEW i \in 1..Len(doomed'[t])
        PROVE  /\ live'[doomed'[t][i]] /\ m_nRefer'[doomed'[t][i]] = 0
               /\ \A j \in 1..Len(doomed'[t]) : doomed'[t][j] = doomed'[t][i] => j = i
               /\ \A u \in Threads : u # t => /\ ~Fresh(u, doomed'[t][i])
                                              /\ ~Doomed(u, doomed'[t][i])
    <3> DEFINE k == i + 1
    <3>1. k \in 1..Len(doomed[t]) /\ doomed'[t][i] = doomed[t][k] /\ k # 1
      BY <1>3
    <3>2. /\ live[doomed[t][k]] /\ m_nRefer[doomed[t][k]] = 0
          /\ \A j \in 1..Len(doomed[t]) : doomed[t][j] = doomed[t][k] => j = k
          /\ \A u \in Threads : u # t => ~Doomed(u, doomed[t][k])
      BY <3>1 DEF Inv, ThreadInv, DoomedInv, Doomed
    <3>3. doomed[t][k] \in Objs /\ doomed[t][k] # o /\ Doomed(t, doomed[t][k])
      BY <1>1, <3>1, <3>2, ElementOfSeq DEF Doomed
    <3>4. \A u \in Threads : ~Fresh(u, doomed[t][k])
      BY <3>3 DEF Inv, ThreadInv, FreshInv
    <3>5. ASSUME NEW j \in 1..Len(doomed'[t]), doomed'[t][j] = doomed'[t][i]
          PROVE  j = i
      <4>1. j + 1 \in 1..Len(doomed[t]) /\ doomed[t][j + 1] = doomed[t][k]
        BY <1>3, <3>1, <3>5
      <4>2. j + 1 = k
        BY <3>2, <4>1
      <4> QED
        BY <4>2
    <3> QED
      BY <1>2, <1>5, <3>1, <3>2, <3>3, <3>4, <3>5
  <2> QED
    BY <2>3, <2>4 DEF ActsWell
<1>12. ASSUME NEW p \in Objs
       PROVE  ObjInv(p)'
  <2>1. CASE p = o
    <3>1. Referring(p)' = {} /\ Counted(p)' = {}
      BY <1>1, <1>9, <1>10, <2>1, DoomedMember
    <3> QED
      BY <1>2, <1>5, <2>1, <3>1 DEF ObjInv
  <2>2. CASE p # o
    <3>1. ~Fresh(t, p)
      BY <1>1 DEF Fresh
    <3>2. Doomed(t, p) => Doomed(t, p)'
      <4> SUFFICES ASSUME NEW i \in 1..Len(doomed[t]), doomed[t][i] = p
                   PROVE  \E j \in 1..Len(doomed'[t]) : doomed'[t][j] = p
        BY DEF Doomed
      <4>1. i # 1 /\ Len(doomed[t]) \in Nat
        BY <1>1, <2>2, LenProperties
      <4>2. i - 1 \in 1..Len(doomed'[t]) /\ (i - 1) + 1 = i
        BY <1>3, <4>1
      <4>3. doomed'[t][i - 1] = p
        BY <1>3, <4>2
      <4> QED
        BY <4>2, <4>3
    <3> QED
      BY <1>2, <1>5, <1>6, <1>9, <1>10, <2>2, <3>1, <3>2, ObjKept
  <2> QED
    BY <2>1, <2>2
<1> QED
  BY <1>6, <1>7, <1>11, <1>12, InvKept

LEMMA StoreInv ==
  ASSUME Inv, NEW t \in Threads, Store(t)
  PROVE  Inv'
<1>0. PICK p \in Assigned(t) : m_pRef' = [m_pRef EXCEPT ![dst[t]] = p]
  BY DEF Store
<1>1. PICK d : d = dst[t]
  OBVIOUS
<1>2. /\ pc[t] = "store" /\ d \in Handles /\ NULL \notin Objs
      /\ doomed[t] = <<>> /\ Len(doomed[t]) = 0
  BY <1>1, HandlesOfCalls, NullAssumption, EmptySeq DEF Store, Inv, TypeOK
<1>3. p = pObj[t] /\ p \in Objs \cup {NULL}
  <2>1. CASE raw[t]
    BY <1>0, <2>1 DEF Assigned, Inv, TypeOK
  <2>2. CASE ~raw[t]
    BY <1>0, <1>2, <2>2, SourceRead DEF SrcKept, Assigning, Inv, ThreadInv, PtrInv
  <2> QED
    BY <2>1, <2>2 DEF Inv, TypeOK
<1>4. /\ pc' = [pc EXCEPT ![t] = "idle"] /\ dst' = [dst EXCEPT ![t] = NULL]
      /\ src' = [src EXCEPT ![t] = NULL] /\ raw' = [raw EXCEPT ![t] = FALSE]
      /\ pObj' = [pObj EXCEPT ![t] = NULL] /\ doomed' = doomed
      /\ live' = live /\ m_nRefer' = m_nRefer
  BY DEF Store, Return, Begin
<1>5. pc'[t] = "idle"
  BY <1>4 DEF Inv, TypeOK
<1>6. OthersStay(t)
  BY <1>4 DEF OthersStay, Inv, TypeOK
<1>7. \A h \in Handles : m_pRef'[h] = IF h = d THEN p ELSE m_pRef[h]
  BY <1>0, <1>1 DEF Inv, TypeOK
<1>8. \A u \in Threads : u # t => UnchangedFor(u)
  BY <1>1, <1>2, <1>4, <1>6, <1>7, OthersUnchanged
<1>9. TypeOK'
  <2>1. m_pRef' \in [Handles -> Objs \cup {NULL}]
    BY <1>0, <1>3 DEF Inv, TypeOK
  <2>2. \A u \in Threads : /\ pc'[u] # "idle" => dst'[u] \in Handles
                           /\ pc'[u] = "addref" => m_pRef'[dst'[u]] # NULL
                           /\ (pc'[u] = "delete") = (doomed'[u] # <<>>)
    <3> SUFFICES ASSUME NEW u \in Threads, u # t
                 PROVE  /\ pc'[u] # "idle" => dst'[u] \in Handles
                        /\ pc'[u] = "addref" => m_pRef'[dst'[u]] # NULL
                        /\ (pc'[u] = "delete") = (doomed'[u] # <<>>)
      BY <1>2, <1>4, <1>5
    <3> QED
      BY <1>8 DEF UnchangedFor, Inv, TypeOK
  <2>3. /\ pc' \in [Threads -> {"idle", "addref", "count", "release", "delete", "store"}]
        /\ dst' \in [Threads -> Handles \cup {NULL}]
        /\ src' \in [Threads -> Handles \cup {NULL}]
        /\ raw' \in [Threads -> BOOLEAN]
        /\ pObj' \in [Threads -> Objs \cup {NULL}]
    BY <1>4 DEF Inv, TypeOK
  <2> QED
    BY <1>4, <2>1, <2>2, <2>3 DEF Inv, TypeOK
<1>10. ActsWell(t)
  BY <1>2, <1>4, <1>5, CallReturns
<1>11. ~Settled(d) /\ Settled(d)'
  BY <1>1, <1>2, <1>5, <1>6 DEF Settled, InChange, OthersStay, Inv, ThreadInv, DstInv
<1>12. \A h \in Handles : h # d => (Settled(h)' <=> Settled(h))
  BY <1>1, <1>5, <1>6, SettledUnchanged DEF OthersStay, InChange
<1>13. ASSUME NEW q \in Objs
       PROVE  ObjInv(q)'
  <2>1. CASE q = p
    <3>1. d \notin Referring(q) /\ Referring(q)' = Referring(q) \cup {d}
      BY <1>2, <1>7, <1>11, <1>12, <2>1 DEF Referring
    <3>2. t \in Counted(q) /\ Counted(q)' = Counted(q) \ {t}
      BY <1>2, <1>3, <1>5, <1>6, <2>1 DEF Counted, OthersStay
    <3>3. live'[q] /\ m_nRefer'[q] = m_nRefer[q]
      BY <1>4, <3>2, ReferredTo
    <3> QED
      BY <3>1, <3>2, <3>3, ObjStored
  <2>2. CASE q # p
    <3>1. Referring(q)' = Referring(q)
      BY <1>7, <1>11, <1>12, <2>2 DEF Referring
    <3>2. Counted(q)' = Counted(q)
      BY <1>2, <1>3, <1>5, <1>6, <2>2 DEF Counted, OthersStay
    <3>3. m_pRef'[q] = m_pRef[q] \/ live[q]
      <4>1. q = d => live[q]
        BY <1>1, <1>2, TargetKept, ReferredTo
      <4> QED
        BY <1>7, <4>1 DEF Handles
    <3>4. ~Fresh(t, q) /\ ~Doomed(t, q)
      BY <1>2 DEF Fresh, Doomed
    <3> QED
      BY <1>4, <1>8, <3>1, <3>2, <3>3, <3>4, ObjKept
  <2> QED
    BY <2>1, <2>2
<1> QED
  BY <1>8, <1>9, <1>10, <1>13, InvKept

-------------------------------------------------------------------------------
(* The theorems. *)

LEMMA InitInv == Init => Inv
<1> SUFFICES ASSUME Init PROVE Inv
  OBVIOUS
<1>1. NULL \notin Objs
  BY NullAssumption
<1>2. TypeOK
  <2>1. m_nRefer \in [Objs -> Int] /\ live \in [Objs -> BOOLEAN]
    BY DEF Init
  <2>2. doomed \in [Threads -> Seq(Objs)]
    BY EmptySeq DEF Init
  <2> QED
    BY <2>1, <2>2 DEF Init, TypeOK
<1>3. ASSUME NEW t \in Threads
      PROVE  ThreadInv(t)
  <2>1. Len(doomed[t]) = 0
    BY EmptySeq DEF Init
  <2> QED
    BY <2>1 DEF Init, ThreadInv, DstInv, SrcInv, SrcKept, PtrInv, FreshInv, DoomedInv, Fresh,
                Assigning
<1>4. ASSUME NEW o \in Objs
      PROVE  ObjInv(o)
  <2>1. ~live[o] /\ m_pRef[o] = NULL
    BY DEF Init, Handles
  <2>2. Referring(o) = {}
    BY <1>1 DEF Init, Referring
  <2>3. Counted(o) = {}
    BY DEF Init, Counted
  <2> QED
    BY <2>1, <2>2, <2>3 DEF ObjInv
<1> QED
  BY <1>2, <1>3, <1>4 DEF Inv

LEMMA NextInv ==
  ASSUME RulesKept, Inv, [Next]_vars
  PROVE  Inv'
<1>1. ASSUME NEW t \in Threads, Step(t)
      PROVE  Inv'
  BY <1>1, AddRefInv, CountInv, ReleaseOldInv, DestroyMemberInv, DeleteInv, StoreInv DEF Step
<1>2. CASE UNCHANGED vars
  <2>1. /\ m_pRef' = m_pRef /\ m_nRefer' = m_nRefer /\ live' = live /\ pc' = pc /\ dst' = dst
        /\ src' = src /\ raw' = raw /\ pObj' = pObj /\ doomed' = doomed
    BY <1>2 DEF vars, callVars
  <2>2. TypeOK'
    BY <2>1 DEF Inv, TypeOK
  <2>3. \A o \in Objs : Referring(o)' = Referring(o) /\ Counted(o)' = Counted(o)
    BY <2>1 DEF Referring, Counted, Settled
  <2>4. ASSUME NEW t \in Threads
        PROVE  ThreadInv(t)'
    <3>1. DstInv(t) /\ SrcInv(t) /\ PtrInv(t) /\ FreshInv(t) /\ DoomedInv(t)
      BY DEF Inv, ThreadInv
    <3>2. DstInv(t)' /\ SrcInv(t)' /\ PtrInv(t)'
      BY <2>1, <3>1 DEF DstInv, Holds, SrcInv, SrcKept, PtrInv
    <3>3. FreshInv(t)'
      BY <2>1, <3>1 DEF FreshInv, Fresh, Doomed
    <3>4. DoomedInv(t)'
      BY <2>1, <3>1 DEF DoomedInv
    <3> QED
      BY <3>2, <3>3, <3>4 DEF ThreadInv
  <2>5. ASSUME NEW o \in Objs
        PROVE  ObjInv(o)'
    <3>1. ObjInv(o)
      BY DEF Inv
    <3>2. live[o] /\ m_nRefer[o] = 0 => \E t \in Threads : Fresh(t, o)' \/ Doomed(t, o)'
      <4>1. \A t \in Threads : (Fresh(t, o)' <=> Fresh(t, o)) /\ (Doomed(t, o)' <=> Doomed(t, o))
        BY <2>1 DEF Fresh, Doomed
      <4>2. live[o] /\ m_nRefer[o] = 0 => \E t \in Threads : Fresh(t, o) \/ Doomed(t, o)
        BY <3>1 DEF ObjInv
      <4> QED
        BY <4>1, <4>2
    <3>3. /\ live[o] => m_nRefer[o] = Cardinality(Referring(o)) + Cardinality(Counted(o))
          /\ ~live[o] => m_pRef[o] = NULL /\ Referring(o) = {} /\ Counted(o) = {}
      BY <3>1 DEF ObjInv
    <3>4. Referring(o)' = Referring(o) /\ Counted(o)' = Counted(o)
      BY <2>3
    <3> QED
      BY <2>1, <3>2, <3>3, <3>4 DEF ObjInv
  <2> QED
    BY <2>2, <2>4, <2>5 DEF Inv
<1> QED
  BY <1>1, <1>2, CallInv DEF Next

\* While the clients keep the rules, every thread's call and every count stay as
\* the invariant says.
THEOREM Invariant ==
  ASSUME RulesKept
  PROVE  Spec => []Inv
<1>1. Inv /\ [Next]_vars => Inv'
  BY NextInv
<1> QED
  BY <1>1, InitInv, PTL DEF Spec

\* Types; the object a constructor or a call has to count is there; a thread is
\* deleting exactly when it has objects to delete.
THEOREM TypeCorrect ==
  ASSUME RulesKept
  PROVE  Spec => []TypeOK
<1>1. Inv => TypeOK
  BY DEF Inv
<1> QED
  BY <1>1, Invariant, PTL

\* What a handle, that is there and settled, refers to is there.
LEMMA SettledSafe ==
  ASSUME Inv, NEW h \in Handles, Settled(h), m_pRef[h] # NULL
  PROVE  m_pRef[h] \in Objs /\ live[m_pRef[h]] /\ h \in Referring(m_pRef[h])
<1>1. m_pRef[h] \in Objs
  BY DEF Inv, TypeOK
<1>2. h \in Referring(m_pRef[h])
  BY DEF Referring
<1> QED
  BY <1>1, <1>2, ReferredTo

\* The handles that refer to an object are those there are.
LEMMA ExistingReferrers ==
  ASSUME Inv, NEW o \in Objs
  PROVE  {h \in Existing : m_pRef[h] = o} = {h \in Handles : m_pRef[h] = o}
BY NullAssumption DEF Inv, ObjInv, Existing, Handles

\* No handle that is there refers to freed memory but one that its thread is about
\* to overwrite.
THEOREM NeverDangling ==
  ASSUME RulesKept
  PROVE  Spec => []NoDangling
<1>1. Inv => NoDangling
  <2> SUFFICES ASSUME Inv, NEW h \in Existing, m_pRef[h] # NULL, ~live[m_pRef[h]]
               PROVE  \E t \in Threads : pc[t] \in {"delete", "store"} /\ dst[t] = h
    BY DEF NoDangling
  <2>1. h \in Handles
    BY DEF Existing, Handles
  <2>2. ~Settled(h)
    BY <2>1, SettledSafe
  <2>3. PICK t \in Threads : pc[t] \in InChange /\ dst[t] = h
    BY <2>2 DEF Settled
  <2>4. pc[t] # "addref"
    BY <2>3, PointerSafe
  <2> QED
    BY <2>3, <2>4 DEF InChange
<1> QED
  BY <1>1, Invariant, PTL

\* No step of a call reads or writes an object, or a handle in one, that has been
\* freed: nothing is used after it was deleted, and nothing deleted twice.
THEOREM AccessSafe ==
  ASSUME RulesKept
  PROVE  Spec => []SafeAccess
<1>1. Inv => SafeAccess
  <2> SUFFICES ASSUME Inv, NEW t \in Threads, NEW o \in Touched(t), o \in Objs
               PROVE  live[o]
    BY DEF SafeAccess
  <2>1. pc[t] # "idle" /\ o = dst[t] => live[o]
    BY TargetKept, ReferredTo
  <2>2. SrcKept(t) /\ o = src[t] => live[o]
    BY SourceKept, ReferredTo
  <2>3. pc[t] \in {"idle", "addref", "count", "release", "delete", "store"}
    BY DEF Inv, TypeOK
  <2>4. CASE pc[t] = "idle"
    BY <2>4 DEF Touched
  <2>5. CASE pc[t] = "addref"
    BY <2>5, PointerSafe DEF Touched
  <2>6. CASE pc[t] = "count"
    <3>1. o = dst[t] \/ o = src[t] \/ o \in Assigned(t)
      BY <2>6 DEF Touched, Source
    <3>2. o \in Assigned(t) => live[o]
      BY <2>6, PointerSafe, NullAssumption
    <3> QED
      BY <2>1, <2>2, <2>6, <3>1, <3>2 DEF SrcKept
  <2>7. CASE pc[t] = "release"
    <3>1. o = dst[t] \/ o = m_pRef[dst[t]]
      BY <2>7 DEF Touched
    <3>2. dst[t] \in Handles /\ Settled(dst[t])
      BY <2>7, HandlesOfCalls DEF Settled, InChange, Inv, ThreadInv, DstInv
    <3>3. o = m_pRef[dst[t]] => live[o]
      BY <3>2, SettledSafe, NullAssumption
    <3> QED
      BY <2>1, <2>7, <3>1, <3>3
  <2>8. CASE pc[t] = "delete"
    <3>1. PICK x : x = Head(doomed[t])
      OBVIOUS
    <3>2. x \in Objs /\ live[x] /\ Doomed(t, x)
      BY <2>8, <3>1, DoomedFirst
    <3>3. x \in Handles /\ Settled(x)
      BY <3>2, DoomedMember DEF Handles
    <3>4. o = x \/ o = m_pRef[x]
      BY <2>8, <3>1 DEF Touched
    <3> QED
      BY <3>2, <3>3, <3>4, SettledSafe, NullAssumption
  <2>9. CASE pc[t] = "store"
    <3>1. o = dst[t] \/ (~raw[t] /\ o = src[t])
      BY <2>9 DEF Touched, Source
    <3> QED
      BY <2>1, <2>2, <2>9, <3>1 DEF SrcKept
  <2> QED
    BY <2>3, <2>4, <2>5, <2>6, <2>7, <2>8, <2>9
<1> QED
  BY <1>1, Invariant, PTL

\* An assignment stores the pointer that it counted, whatever the destructors ran
\* by its Release have changed.
THEOREM CountedStored ==
  ASSUME RulesKept
  PROVE  Spec => []StoresCounted
<1>1. Inv => StoresCounted
  <2> SUFFICES ASSUME Inv, NEW t \in Threads, pc[t] = "store"
               PROVE  Assigned(t) = {pObj[t]}
    BY DEF StoresCounted
  <2>1. CASE raw[t]
    BY <2>1 DEF Assigned
  <2>2. CASE ~raw[t]
    BY <2>2, SourceRead DEF SrcKept, Assigning, Inv, ThreadInv, PtrInv
  <2> QED
    BY <2>1, <2>2 DEF Inv, TypeOK
<1> QED
  BY <1>1, Invariant, PTL

\* Between calls every object is referred to by some handle that is there.
THEOREM NoneLeaked ==
  ASSUME RulesKept
  PROVE  Spec => []NoneForgotten
<1>1. Inv => NoneForgotten
  <2> SUFFICES ASSUME Inv, \A t \in Threads : pc[t] = "idle", NEW o \in Objs, live[o]
               PROVE  \E h \in Existing : m_pRef[h] = o
    BY DEF NoneForgotten
  <2>1. ASSUME NEW t \in Threads
        PROVE  ~Fresh(t, o) /\ ~Doomed(t, o)
    <3>1. Len(doomed[t]) = 0
      BY EmptySeq DEF Inv, TypeOK
    <3> QED
      BY <3>1 DEF Fresh, Doomed
  <2>2. m_nRefer[o] # 0
    BY <2>1 DEF Inv, ObjInv
  <2>3. Counted(o) = {}
    BY DEF Counted
  <2>4. Cardinality(Referring(o)) # 0
    BY <2>2, <2>3, FS_EmptySet, SetsFinite DEF Inv, ObjInv
  <2>5. PICK h \in Referring(o) : TRUE
    BY <2>4, FS_EmptySet
  <2>6. h \in {g \in Handles : m_pRef[g] = o}
    BY DEF Referring
  <2> QED
    BY <2>6, ExistingReferrers
<1> QED
  BY <1>1, Invariant, PTL

\* The calls that have released, or not counted yet, what their handle refers to
\* are as many as these handles.
LEMMA UnsettledHandles ==
  ASSUME Inv, NEW o \in Objs
  PROVE  /\ IsFiniteSet({h \in Handles : m_pRef[h] = o} \ Referring(o))
         /\ Cardinality({h \in Handles : m_pRef[h] = o} \ Referring(o)) = Cardinality(Uncounted(o))
<1> DEFINE D == {h \in Handles : m_pRef[h] = o} \ Referring(o)
           U == Uncounted(o)
           f == [t \in U |-> dst[t]]
<1>1. U = {t \in Threads : pc[t] \in InChange /\ m_pRef[dst[t]] = o}
  BY DEF Uncounted, InChange
<1>2. \A t \in U : dst[t] \in D
  <2> SUFFICES ASSUME NEW t \in U
               PROVE  dst[t] \in D
    OBVIOUS
  <2>1. t \in Threads /\ pc[t] \in InChange /\ m_pRef[dst[t]] = o
    BY <1>1
  <2>2. dst[t] \in Handles
    BY <2>1, HandlesOfCalls DEF InChange
  <2>3. ~Settled(dst[t])
    BY <2>1 DEF Settled
  <2> QED
    BY <2>1, <2>2, <2>3 DEF Referring
<1>3. \A h \in D : \E t \in U : dst[t] = h
  <2> SUFFICES ASSUME NEW h \in D
               PROVE  \E t \in U : dst[t] = h
    OBVIOUS
  <2>1. m_pRef[h] = o /\ ~Settled(h)
    BY DEF Referring
  <2>2. PICK t \in Threads : pc[t] \in InChange /\ dst[t] = h
    BY <2>1 DEF Settled
  <2> QED
    BY <1>1, <2>1, <2>2
<1>4. \A t, u \in U : dst[t] = dst[u] => t = u
  BY <1>1 DEF Inv, ThreadInv, DstInv, InChange
<1>5. IsFiniteSet(U)
  <2>1. U \subseteq Threads
    BY DEF Uncounted
  <2> QED
    BY <2>1, FiniteAssumption, FS_Subset
<1> HIDE DEF D, U
<1>6. f \in [U -> D] /\ (\A t, u \in U : f[t] = f[u] => t = u) /\ (\A h \in D : \E t \in U : f[t] = h)
  BY <1>2, <1>3, <1>4
<1>7. ExistsBijection(U, D)
  <2>1. f \in Injection(U, D)
    BY <1>6, Fun_IsInj
  <2>2. f \in Surjection(U, D)
    BY <1>6, Fun_IsSurj
  <2>3. f \in Bijection(U, D)
    BY <2>1, <2>2, Fun_IsBij
  <2> QED
    BY <2>3, Fun_ExistsBij
<1>8. IsFiniteSet(D) /\ Cardinality(D) = Cardinality(U)
  BY <1>5, <1>7, FS_Bijection
<1> QED
  BY <1>8 DEF D, U

\* A count is the number of handles that refer to the object, with those of the
\* calls under way taken into account: never one too many or too few.
THEOREM CountsRight ==
  ASSUME RulesKept
  PROVE  Spec => []CountsExact
<1>1. Inv => CountsExact
  <2> SUFFICES ASSUME Inv, NEW o \in Objs, live[o]
               PROVE  m_nRefer[o] = Cardinality({h \in Existing : m_pRef[h] = o})
                                      + Cardinality(Counted(o)) - Cardinality(Uncounted(o))
    BY DEF CountsExact
  <2> DEFINE A == {h \in Handles : m_pRef[h] = o}
             R == Referring(o)
             D == A \ R
  <2>1. m_nRefer[o] = Cardinality(R) + Cardinality(Counted(o))
    BY DEF Inv, ObjInv
  <2>2. R \subseteq A
    BY DEF Referring
  <2>3. IsFiniteSet(R) /\ Cardinality(R) \in Nat /\ Cardinality(Counted(o)) \in Nat
    BY SetsFinite
  <2>4. IsFiniteSet(D) /\ Cardinality(D) = Cardinality(Uncounted(o))
    BY UnsettledHandles
  <2> HIDE DEF A, R
  <2>5. R \cup D = A /\ R \cap D = {}
    BY <2>2
  <2>6. Cardinality(D) \in Nat
    BY <2>4, FS_CardinalityType
  <2>7. Cardinality(A) = Cardinality(R) + Cardinality(D)
    <3>1. Cardinality(R \cup D) = Cardinality(R) + Cardinality(D) - Cardinality(R \cap D)
      BY <2>3, <2>4, FS_Union
    <3>2. Cardinality(R \cap D) = 0
      BY <2>5, FS_EmptySet
    <3>3. Cardinality(A) = Cardinality(R \cup D)
      BY <2>5
    <3> HIDE DEF D
    <3> QED
      BY <2>3, <2>6, <3>1, <3>2, <3>3
  <2>8. {h \in Existing : m_pRef[h] = o} = A
    BY ExistingReferrers DEF A
  <2> QED
    BY <2>1, <2>3, <2>4, <2>6, <2>7, <2>8
<1> QED
  BY <1>1, Invariant, PTL
===============================================================================
