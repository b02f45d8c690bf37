------------------------------- MODULE RefObject -------------------------------
(***************************************************************************)
(* ElsaCRefObjectImpl and ElsaCRefObject (elsac_ref_obj.hpp): objects that *)
(* carry a reference count, and the handles that keep it.                  *)
(*                                                                         *)
(* A handle is a local of a thread, <<t, v>>, or a member of an object; an *)
(* object has one, called by the object's name. Each AddRef and Release is *)
(* one step, being done under the object's m_lock; the delete that follows *)
(* the last Release is outside it, destroys the member handle, and so may  *)
(* release and delete further objects. An assignment reads the source      *)
(* handle when it compares, when it counts and when it stores.             *)
(*                                                                         *)
(* What the header asks of its users is ClientRules. Definitions called    *)
(* Mut_X are X with a plausible mistake in it.                             *)
(***************************************************************************)
EXTENDS Integers, FiniteSets, Sequences

CONSTANTS
  Threads,
  Vars,         (* the local handles of a thread                            *)
  Objs,         (* addresses of ElsaCRefObjectImpl<T> instances             *)
  NULL,
  ClientRules,  (* the rules the clients keep: a subset of Rules            *)
  InitialCounts (* m_nRefer after construction: {0} by the constructor of   *)
                (* line 56; one inherited from T leaves it uninitialised    *)

Locals  == Threads \X Vars
Handles == Locals \cup Objs

\* "exclusive": nobody writes a handle that another thread uses at the time.
\* "outside": a handle inside an object is copied from only while another handle
\* of the thread than the one assigned to keeps that object.
Rules == {"exclusive", "outside"}

ASSUME RulesAssumption  == ClientRules \subseteq Rules
ASSUME NullAssumption   == NULL \notin Objs /\ NULL \notin Locals
ASSUME ObjsAssumption   == Objs \cap Locals = {}
ASSUME FiniteAssumption == IsFiniteSet(Threads) /\ IsFiniteSet(Handles)
ASSUME CountsAssumption == InitialCounts \subseteq Int

VARIABLES
  m_pRef,    (* the object each handle refers to, or NULL                   *)
  m_nRefer,  (* the reference count of each object                          *)
  live,      (* whether there is an object at the address                   *)
  pc,        (* where each thread is                                        *)
  dst,       (* the handle its call changes                                 *)
  src,       (* the handle it assigns from, or NULL                         *)
  raw,       (* whether it was given a pointer, not a handle                *)
  pObj,      (* the object it assigns; for a handle, the one it counted     *)
  doomed     (* the objects it is deleting, innermost first                 *)

callVars == <<dst, src, raw, pObj>>
vars == <<m_pRef, m_nRefer, live, pc, callVars, doomed>>

-------------------------------------------------------------------------------
(* The clients. *)

Holds(t, o) == \E v \in Vars : m_pRef[<<t, v>>] = o

\* A thread may change its own locals and members of objects it holds, and copy
\* from these and from other threads' locals.
MayWrite(t, h) ==
  /\ pc[t] = "idle"
  /\ h \in {<<t, v>> : v \in Vars} \/ (h \in Objs /\ Holds(t, h))
  /\ "exclusive" \in ClientRules =>
       \A u \in Threads : pc[u] # "idle" => h \notin {dst[u], src[u]}

MayUse(t, s) ==
  /\ s \in Locals \/ Holds(t, s)
  /\ "exclusive" \in ClientRules => \A u \in Threads : pc[u] # "idle" => s # dst[u]
MayRead(t, s, d) ==
  /\ MayUse(t, s)
  /\ "outside" \in ClientRules /\ s \in Objs =>
       \E v \in Vars : <<t, v>> # d /\ m_pRef[<<t, v>>] = s

Begin(t, l, d, s, byPointer, o) ==
  /\ pc'   = [pc EXCEPT ![t] = l]
  /\ dst'  = [dst EXCEPT ![t] = d]
  /\ src'  = [src EXCEPT ![t] = s]
  /\ raw'  = [raw EXCEPT ![t] = byPointer]
  /\ pObj' = [pObj EXCEPT ![t] = o]
  /\ UNCHANGED doomed

Return(t) == Begin(t, "idle", NULL, NULL, FALSE, NULL)

\* new ElsaCRefObjectImpl<T>, at an address that is free.
New(o) == /\ ~live[o]
          /\ live' = [live EXCEPT ![o] = TRUE]
          /\ \E n \in InitialCounts : m_nRefer' = [m_nRefer EXCEPT ![o] = n]

-------------------------------------------------------------------------------
(* The operations of a handle, up to the first change of a count. *)

\* ElsaCRefObject(ElsaCRefObjectImpl *pObj)
ConstructFromNew(t, v, o) ==
  /\ MayWrite(t, <<t, v>>)
  /\ m_pRef[<<t, v>>] = NULL
  /\ New(o)
  /\ m_pRef' = [m_pRef EXCEPT ![<<t, v>>] = o, ![o] = NULL]
  /\ Begin(t, "addref", <<t, v>>, NULL, TRUE, NULL)

Mut_ConstructCopy(t, v, s) ==
  /\ MayWrite(t, <<t, v>>)
  /\ MayRead(t, s, <<t, v>>)
  /\ m_pRef[<<t, v>>] = NULL
  /\ m_pRef' = [m_pRef EXCEPT ![<<t, v>>] = m_pRef[s]]
  /\ Begin(t, "addref", <<t, v>>, s, FALSE, NULL)
  /\ UNCHANGED <<m_nRefer, live>>

\* ElsaCRefObject(ElsaCRefObject &obj)
ConstructCopy(t, v, s) ==
  /\ MayWrite(t, <<t, v>>)
  /\ MayRead(t, s, <<t, v>>)
  /\ m_pRef[<<t, v>>] = NULL
  /\ m_pRef[s] # NULL
  /\ m_pRef' = [m_pRef EXCEPT ![<<t, v>>] = m_pRef[s]]
  /\ Begin(t, "addref", <<t, v>>, s, FALSE, NULL)
  /\ UNCHANGED <<m_nRefer, live>>

\* operator=(ElsaCRefObject &obj), which returns at once for the same object.
Assign(t, d, s) ==
  /\ MayWrite(t, d)
  /\ MayRead(t, s, d)
  /\ m_pRef[s] # m_pRef[d]
  /\ Begin(t, "count", d, s, FALSE, NULL)
  /\ UNCHANGED <<m_pRef, m_nRefer, live>>

\* operator=(ElsaCRefObjectImpl *pObj), of a new object
AssignNew(t, d, o) ==
  /\ MayWrite(t, d)
  /\ New(o)
  /\ m_pRef' = [m_pRef EXCEPT ![o] = NULL]
  /\ Begin(t, "count", d, NULL, TRUE, o)

\* ... or of the RawPtr() of a handle, read before the call
AssignPointer(t, d, s) ==
  /\ MayWrite(t, d)
  /\ MayUse(t, s)
  /\ m_pRef[s] \notin {NULL, m_pRef[d]}
  /\ Begin(t, "count", d, s, TRUE, m_pRef[s])
  /\ UNCHANGED <<m_pRef, m_nRefer, live>>

\* ~ElsaCRefObject, and operator= of a null pointer
Reset(t, d) ==
  /\ MayWrite(t, d)
  /\ m_pRef[d] # NULL
  /\ Begin(t, "release", d, NULL, TRUE, NULL)
  /\ UNCHANGED <<m_pRef, m_nRefer, live>>

-------------------------------------------------------------------------------
(* AddRef and Release. *)

\* A constructor counts what the new handle refers to.
AddRef(t) ==
  /\ pc[t] = "addref"
  /\ m_nRefer' = [m_nRefer EXCEPT ![m_pRef[dst[t]]] = @ + 1]
  /\ Return(t)
  /\ UNCHANGED <<m_pRef, live>>

\* What there is in a handle: anything once the object around it is gone.
Read(h) == IF h \in Objs /\ ~live[h] THEN Objs \cup {NULL} ELSE {m_pRef[h]}

\* The pointers an assignment may find when it looks at its source.
Assigned(t) == IF raw[t] THEN {pObj[t]} ELSE Read(src[t])

\* An assignment first counts what it assigns.
Mut_Count(t) ==
  /\ pc[t] = "count"
  /\ \E p \in Assigned(t) :
       /\ Begin(t, "release", dst[t], src[t], raw[t], p)
       /\ UNCHANGED <<m_pRef, m_nRefer, live>>
Count(t) ==
  /\ pc[t] = "count"
  /\ \E p \in Assigned(t) :
       /\ m_nRefer' = IF p = NULL THEN m_nRefer ELSE [m_nRefer EXCEPT ![p] = @ + 1]
       /\ Begin(t, "release", dst[t], src[t], raw[t], p)
       /\ UNCHANGED <<m_pRef, live>>

\* The count at which Release deletes.
Mut_UnreferencedEarly(n) == n <= 1
Mut_UnreferencedNever(n) == n < 0
Unreferenced(n) == n <= 0

\* Release of o: the count goes down under m_lock; the value it came to decides
\* whether to delete.
Release(t, o) ==
  /\ m_nRefer' = [m_nRefer EXCEPT ![o] = @ - 1]
  /\ doomed' = IF Unreferenced(m_nRefer[o] - 1) THEN [doomed EXCEPT ![t] = <<o>> \o @] ELSE doomed

\* Then it releases what the handle referred to.
ReleaseOld(t) ==
  /\ pc[t] = "release"
  /\ IF m_pRef[dst[t]] = NULL THEN UNCHANGED <<m_nRefer, doomed>> ELSE Release(t, m_pRef[dst[t]])
  /\ pc' = [pc EXCEPT ![t] = IF doomed'[t] = <<>> THEN "store" ELSE "delete"]
  /\ UNCHANGED <<m_pRef, live, callVars>>

\* FinalRelease: the destructor of T runs that of the member handle ...
DestroyMember(t) ==
  LET o == Head(doomed[t])
  IN /\ pc[t] = "delete"
     /\ m_pRef[o] # NULL
     /\ Release(t, m_pRef[o])
     /\ m_pRef' = [m_pRef EXCEPT ![o] = NULL]
     /\ UNCHANGED <<live, pc, callVars>>

\* ... and the memory is freed.
Delete(t) ==
  LET o == Head(doomed[t])
  IN /\ pc[t] = "delete"
     /\ m_pRef[o] = NULL
     /\ live' = [live EXCEPT ![o] = FALSE]
     /\ doomed' = [doomed EXCEPT ![t] = Tail(@)]
     /\ pc' = [pc EXCEPT ![t] = IF doomed'[t] = <<>> THEN "store" ELSE "delete"]
     /\ UNCHANGED <<m_pRef, m_nRefer, callVars>>

\* Last, the handle gets the new pointer, read from the source once more.
Store(t) ==
  /\ pc[t] = "store"
  /\ \E p \in Assigned(t) :
       /\ m_pRef' = [m_pRef EXCEPT ![dst[t]] = p]
       /\ Return(t)
       /\ UNCHANGED <<m_nRefer, live>>

-------------------------------------------------------------------------------
Init ==
  /\ m_pRef = [h \in Handles |-> NULL]
  /\ m_nRefer = [o \in Objs |-> 0]
  /\ live = [o \in Objs |-> FALSE]
  /\ pc = [t \in Threads |-> "idle"]
  /\ dst = [t \in Threads |-> NULL]
  /\ src = [t \in Threads |-> NULL]
  /\ raw = [t \in Threads |-> FALSE]
  /\ pObj = [t \in Threads |-> NULL]
  /\ doomed = [t \in Threads |-> <<>>]

Call(t) == \/ \E v \in Vars, o \in Objs : ConstructFromNew(t, v, o)
           \/ \E v \in Vars, s \in Handles : ConstructCopy(t, v, s)
           \/ \E d, s \in Handles : Assign(t, d, s) \/ AssignPointer(t, d, s)
           \/ \E d \in Handles, o \in Objs : AssignNew(t, d, o)
           \/ \E d \in Handles : Reset(t, d)

Step(t) == \/ AddRef(t) \/ Count(t) \/ ReleaseOld(t) \/ DestroyMember(t) \/ Delete(t)
           \/ Store(t)

Next == \E t \in Threads : Call(t) \/ Step(t)

Spec == Init /\ [][Next]_vars

-------------------------------------------------------------------------------
(* Properties. *)

TypeOK ==
  /\ m_pRef \in [Handles -> Objs \cup {NULL}]
  /\ m_nRefer \in [Objs -> Int]
  /\ live \in [Objs -> BOOLEAN]
  /\ pc \in [Threads -> {"idle", "addref", "count", "release", "delete", "store"}]
  /\ dst \in [Threads -> Handles \cup {NULL}]
  /\ src \in [Threads -> Handles \cup {NULL}]
  /\ raw \in [Threads -> BOOLEAN]
  /\ pObj \in [Threads -> Objs \cup {NULL}]
  /\ doomed \in [Threads -> Seq(Objs)]
  /\ \A t \in Threads : /\ pc[t] # "idle" => dst[t] \in Handles
                        /\ pc[t] = "addref" => m_pRef[dst[t]] # NULL
                        /\ (pc[t] = "delete") = (doomed[t] # <<>>)

\* The handles there are: those inside an object go with it.
Existing == Locals \cup {o \in Objs : live[o]}

\* A reference count is the number of handles that refer to the object, but for
\* the handles under change: counted and not yet stored, stored and not yet
\* counted, released and not yet overwritten.
Counted(o)  == {t \in Threads : pc[t] \in {"release", "delete", "store"} /\ pObj[t] = o}
Uncounted(o) == {t \in Threads : pc[t] \in {"addref", "delete", "store"} /\ m_pRef[dst[t]] = o}
CountsExact ==
  \A o \in Objs : live[o] =>
    m_nRefer[o] = Cardinality({h \in Existing : m_pRef[h] = o}) + Cardinality(Counted(o))
                    - Cardinality(Uncounted(o))

\* A handle refers to an object that is there, unless its thread is just about
\* to overwrite it.
NoDangling ==
  \A h \in Existing :
    m_pRef[h] # NULL => \/ live[m_pRef[h]]
                        \/ \E t \in Threads : pc[t] \in {"delete", "store"} /\ dst[t] = h

\* What the next step of a thread reads or writes has not been freed, so no object
\* is deleted twice, and none while a call is still using it or a handle in it.
Source(t) == IF raw[t] THEN {} ELSE {src[t]}
Touched(t) ==
  CASE pc[t] = "idle"    -> {}
    [] pc[t] = "addref"  -> {m_pRef[dst[t]]}
    [] pc[t] = "count"   -> {dst[t]} \cup Source(t) \cup Assigned(t)
    [] pc[t] = "release" -> {dst[t], m_pRef[dst[t]]}
    [] pc[t] = "delete"  -> {Head(doomed[t]), m_pRef[Head(doomed[t])]}
    [] pc[t] = "store"   -> {dst[t]} \cup Source(t)
SafeAccess == \A t \in Threads : \A o \in Touched(t) \cap Objs : live[o]

\* operator= stores the object it counted, although it reads the source handle
\* again after the Release that may have run any destructor.
StoresCounted == \A t \in Threads : pc[t] = "store" => Assigned(t) = {pObj[t]}

\* With no call under way every object there is is referred to: none is leaked
\* but in a cycle, where the objects refer to each other.
NoneForgotten ==
  (\A t \in Threads : pc[t] = "idle") =>
    \A o \in Objs : live[o] => \E h \in Existing : m_pRef[h] = o
===============================================================================
