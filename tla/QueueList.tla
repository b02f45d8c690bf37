------------------------------- MODULE QueueList -------------------------------
(***************************************************************************)
(* ElsaCQueueList (container/elsac_queue_list.h), the list threads hand    *)
(* items over with: anyone appends to its buffer under its lock, and the   *)
(* thread that owns the list flushes the buffer into the list itself,      *)
(* which it reads and shortens without the lock. Several lists may share   *)
(* one mutex.                                                              *)
(*                                                                         *)
(* Inside the lock an append takes a step to make room, one to copy the    *)
(* items and one to count them; a flush, one more to empty the buffer.     *)
(*                                                                         *)
(* The clients: a list is flushed, shortened, and given to AppendList by   *)
(* its owner only. A list has been given its lock (Lock asserts it), and   *)
(* is given another only while no call on it is under way. Definitions     *)
(* called Mut_X are X with a plausible mistake in it.                      *)
(***************************************************************************)
EXTENDS DynamicArray, FiniteSetsExt

CONSTANTS
  Threads, Lists, Mutexes,
  NULL,
  Owner,      (* the thread that owns each list                             *)
  MaxMade,    (* bound: how many items a thread makes                       *)
  MaxBatch,   (* bound: the length of the arrays given to AppendArray       *)
  MaxLength   (* bound on the items in a list and its buffer                *)

Items == Threads \X (1..MaxMade)

ASSUME NullAssumption  == /\ NULL \notin Threads /\ NULL \notin Lists
                          /\ NULL \notin [queue : Lists, items : Seq(Items)]
ASSUME OwnerAssumption == Owner \in [Lists -> Threads]
ASSUME BoundsAssumption == MaxMade \in Nat /\ MaxBatch \in Nat /\ MaxLength \in Nat

VARIABLES
  m_pLock,          (* the mutex of each list                               *)
  holder,           (* the thread that holds each mutex, or NULL            *)
  m_vecData,        (* each list itself, which is a vector                  *)
  m_vecAppendList,  (* its buffer                                           *)
  pc,               (* where each thread is                                 *)
  target,           (* the list it has called                               *)
  batch,            (* the items it appends by Append and AppendArray       *)
  source,           (* the list it appends by AppendList, or NULL           *)
  length,           (* how many items it was told to copy                   *)
  made              (* how many items it has made                           *)

callVars == <<target, batch, source>>
vars == <<m_pLock, holder, m_vecData, m_vecAppendList, pc, callVars, length, made>>

-------------------------------------------------------------------------------
\* The items a thread is to append.
Asked(t) == IF source[t] # NULL THEN Contents(m_vecData[source[t]]) ELSE batch[t]

\* The bound: what is in a list, in its buffer and on the way there, and n more.
Room(l, n) == m_vecData[l].count + m_vecAppendList[l].count + n
                + MapThenSumSet(LAMBDA t : Len(Asked(t)), {t \in Threads : target[t] = l})
              <= MaxLength

NewItems(t, n) == [i \in 1..n |-> <<t, made[t] + i>>]

Goto(t, l) == pc' = [pc EXCEPT ![t] = l]

Call(t, l, way, items, list) ==
  /\ pc[t] = "idle"
  /\ Goto(t, way)
  /\ target' = [target EXCEPT ![t] = l]
  /\ batch'  = [batch EXCEPT ![t] = items]
  /\ source' = [source EXCEPT ![t] = list]
  /\ made'   = [made EXCEPT ![t] = @ + Len(items)]
  /\ UNCHANGED <<m_pLock, holder, m_vecData, m_vecAppendList, length>>

AppendItem(t, l) ==
  /\ made[t] < MaxMade
  /\ Room(l, 1)
  /\ Call(t, l, "append", NewItems(t, 1), NULL)

AppendArray(t, l, n) ==
  /\ made[t] + n <= MaxMade
  /\ Room(l, n)
  /\ Call(t, l, "array", NewItems(t, n), NULL)

AppendList(t, l, from) ==
  /\ Owner[from] = t
  /\ Room(l, m_vecData[from].count)
  /\ Call(t, l, "array", <<>>, from)

Flush(t, l) ==
  /\ Owner[l] = t
  /\ Call(t, l, "flush", <<>>, NULL)

-------------------------------------------------------------------------------
Mut_Acquire(t) == UNCHANGED holder
Acquire(t) == LET m == m_pLock[target[t]]
              IN holder[m] = NULL /\ holder' = [holder EXCEPT ![m] = t]
Release(t) == holder' = [holder EXCEPT ![m_pLock[target[t]]] = NULL]

Return(t) == /\ Release(t)
             /\ Goto(t, "idle")
             /\ target' = [target EXCEPT ![t] = NULL]
             /\ batch'  = [batch EXCEPT ![t] = <<>>]
             /\ source' = [source EXCEPT ![t] = NULL]
             /\ length' = [length EXCEPT ![t] = 0]

\* Lock; the number of items is read before AddArray begins, that of another
\* list's too.
LockToAppend(t) ==
  /\ pc[t] \in {"append", "array"}
  /\ Acquire(t)
  /\ Goto(t, IF pc[t] = "append" THEN "grow1" ELSE "grow")
  /\ length' = [length EXCEPT ![t] = Len(Asked(t))]
  /\ UNCHANGED <<m_pLock, m_vecData, m_vecAppendList, callVars, made>>

\* Add and AddArray of the buffer make room each in its way ...
Grow(t) ==
  /\ pc[t] \in {"grow1", "grow"}
  /\ m_vecAppendList' = [m_vecAppendList EXCEPT
                           ![target[t]] = IF pc[t] = "grow1" THEN RoomForOne(@)
                                                             ELSE RoomFor(@, length[t])]
  /\ Goto(t, "copy")
  /\ UNCHANGED <<m_pLock, holder, m_vecData, callVars, length, made>>

\* ... copy the items, those of another list as they are by now ...
Copy(t) ==
  LET items == IF source[t] = NULL THEN batch[t]
               ELSE SubSeq(m_vecData[source[t]].mem, 1, length[t])
  IN /\ pc[t] = "copy"
     /\ m_vecAppendList' = [m_vecAppendList EXCEPT ![target[t]] = Appended(@, items)]
     /\ Goto(t, "count")
     /\ UNCHANGED <<m_pLock, holder, m_vecData, callVars, length, made>>

\* ... and count them; Unlock.
Count(t) ==
  /\ pc[t] = "count"
  /\ m_vecAppendList' = [m_vecAppendList EXCEPT ![target[t]] = Counted(@, length[t])]
  /\ Return(t)
  /\ UNCHANGED <<m_pLock, m_vecData, made>>

-------------------------------------------------------------------------------
\* Flush has nothing to do for an empty buffer.
FlushNothing(t) ==
  /\ pc[t] = "flush"
  /\ holder[m_pLock[target[t]]] = NULL
  /\ m_vecAppendList[target[t]].count = 0
  /\ Return(t)
  /\ UNCHANGED <<m_pLock, m_vecData, m_vecAppendList, made>>

LockToFlush(t) ==
  LET n == m_vecAppendList[target[t]].count
  IN /\ pc[t] = "flush"
     /\ n > 0
     /\ Acquire(t)
     /\ Goto(t, "flushgrow")
     /\ length' = [length EXCEPT ![t] = n]
     /\ UNCHANGED <<m_pLock, m_vecData, m_vecAppendList, callVars, made>>

FlushGrow(t) ==
  /\ pc[t] = "flushgrow"
  /\ m_vecData' = [m_vecData EXCEPT ![target[t]] = RoomFor(@, length[t])]
  /\ Goto(t, "flushcopy")
  /\ UNCHANGED <<m_pLock, holder, m_vecAppendList, callVars, length, made>>

FlushCopy(t) ==
  LET items == SubSeq(m_vecAppendList[target[t]].mem, 1, length[t])
  IN /\ pc[t] = "flushcopy"
     /\ m_vecData' = [m_vecData EXCEPT ![target[t]] = Appended(@, items)]
     /\ Goto(t, "flushcount")
     /\ UNCHANGED <<m_pLock, holder, m_vecAppendList, callVars, length, made>>

FlushCount(t) ==
  /\ pc[t] = "flushcount"
  /\ m_vecData' = [m_vecData EXCEPT ![target[t]] = Counted(@, length[t])]
  /\ Goto(t, "trunc")
  /\ UNCHANGED <<m_pLock, holder, m_vecAppendList, callVars, length, made>>

\* The buffer is emptied; Unlock.
Mut_Trunc(t) ==
  /\ pc[t] = "trunc"
  /\ Return(t)
  /\ UNCHANGED <<m_pLock, m_vecData, m_vecAppendList, made>>
Trunc(t) ==
  /\ pc[t] = "trunc"
  /\ m_vecAppendList' = [m_vecAppendList EXCEPT ![target[t]] = Truncated(@, 0)]
  /\ Return(t)
  /\ UNCHANGED <<m_pLock, m_vecData, made>>

-------------------------------------------------------------------------------
\* The owner shortens its list: Remove(index, n), Pop, Trunc, Clear.
Remove(l, index, n) ==
  /\ pc[Owner[l]] = "idle"
  /\ n > 0
  /\ index + n <= m_vecData[l].count
  /\ m_vecData' = [m_vecData EXCEPT ![l] = Removed(@, index, n)]
  /\ UNCHANGED <<m_pLock, holder, m_vecAppendList, pc, callVars, length, made>>

TruncList(l, n) ==
  /\ pc[Owner[l]] = "idle"
  /\ n < m_vecData[l].count
  /\ m_vecData' = [m_vecData EXCEPT ![l] = Truncated(@, n)]
  /\ UNCHANGED <<m_pLock, holder, m_vecAppendList, pc, callVars, length, made>>

SetLock(l, m) ==
  /\ \A t \in Threads : target[t] # l
  /\ m_pLock' = [m_pLock EXCEPT ![l] = m]
  /\ UNCHANGED <<holder, m_vecData, m_vecAppendList, pc, callVars, length, made>>

-------------------------------------------------------------------------------
Init ==
  /\ m_pLock \in [Lists -> Mutexes]
  /\ holder = [m \in Mutexes |-> NULL]
  /\ m_vecData = [l \in Lists |-> EmptyArray]
  /\ m_vecAppendList = [l \in Lists |-> EmptyArray]
  /\ pc = [t \in Threads |-> "idle"]
  /\ target = [t \in Threads |-> NULL]
  /\ batch = [t \in Threads |-> <<>>]
  /\ source = [t \in Threads |-> NULL]
  /\ length = [t \in Threads |-> 0]
  /\ made = [t \in Threads |-> 0]

Operation(t) == \E l \in Lists : \/ AppendItem(t, l)
                                 \/ \E n \in 1..MaxBatch : AppendArray(t, l, n)
                                 \/ \E from \in Lists : AppendList(t, l, from)
                                 \/ Flush(t, l)

Step(t) == \/ LockToAppend(t) \/ Grow(t) \/ Copy(t) \/ Count(t)
           \/ FlushNothing(t) \/ LockToFlush(t) \/ FlushGrow(t) \/ FlushCopy(t) \/ FlushCount(t)
           \/ Trunc(t)

Next == \/ \E t \in Threads : Operation(t) \/ Step(t)
        \/ \E l \in Lists : \/ \E index \in 0..MaxLength, n \in 1..MaxLength : Remove(l, index, n)
                            \/ \E n \in 0..MaxLength : TruncList(l, n)
                            \/ \E m \in Mutexes : SetLock(l, m)

Spec == Init /\ [][Next]_vars

-------------------------------------------------------------------------------
(* Properties. *)

Appending == {"append", "array", "grow1", "grow", "copy", "count"}
Flushing  == {"flush", "flushgrow", "flushcopy", "flushcount", "trunc"}

TypeOK ==
  /\ m_pLock \in [Lists -> Mutexes]
  /\ holder \in [Mutexes -> Threads \cup {NULL}]
  /\ m_vecData \in [Lists -> Arrays(Items)]
  /\ m_vecAppendList \in [Lists -> Arrays(Items)]
  /\ pc \in [Threads -> {"idle"} \cup Appending \cup Flushing]
  /\ target \in [Threads -> Lists \cup {NULL}]
  /\ \A t \in Threads : (pc[t] = "idle") = (target[t] = NULL)
  /\ batch \in [Threads -> Seq(Items)]
  /\ source \in [Threads -> Lists \cup {NULL}]
  /\ length \in [Threads -> Nat]
  /\ made \in [Threads -> 0..MaxMade]

\* memcpy stays in the memory of both vectors: the room one thread made has not
\* been used up by another when it comes to copy.
InBounds ==
  \A t \in Threads :
    /\ pc[t] = "copy" =>
         m_vecAppendList[target[t]].count + length[t] <= Capacity(m_vecAppendList[target[t]])
    /\ pc[t] = "flushcopy" =>
         m_vecData[target[t]].count + length[t] <= Capacity(m_vecData[target[t]])

\* Every batch arrives whole, once, in one piece, in the order the lock was taken,
\* in the list of ready items: the queue list is a BatchQueue. The items of a
\* flush are the list's from the moment they are counted there.
Request == [t \in Threads |-> IF pc[t] \in Appending
                              THEN [queue |-> target[t], items |-> Asked(t)] ELSE NULL]
Queued  == [l \in Lists |-> IF \E t \in Threads : target[t] = l /\ pc[t] = "trunc"
                            THEN <<>> ELSE Contents(m_vecAppendList[l])]
Ready   == [l \in Lists |-> Contents(m_vecData[l])]
Queue == INSTANCE BatchQueue WITH
  Clients <- Threads, Queues <- Lists, Nothing <- NULL,
  request <- Request, queued <- Queued, ready <- Ready
ImplementsQueue == Queue!Spec
===============================================================================
