------------------------------ MODULE DynamicArray ------------------------------
(***************************************************************************)
(* ElsaCVector (container/elsac_vector.h): an array that grows, as a       *)
(* record of its memory, m_iMaxSize elements long, and of m_iCount. What   *)
(* an element was before it ceased to be counted is not told apart from    *)
(* uninitialised memory. Mut_X is X with a plausible mistake in it.        *)
(***************************************************************************)
EXTENDS Integers, Sequences

CONSTANTS ONE_TIME_NUM,  (* the capacity Add first allocates, 16 by default *)
          Uninitialised  (* what realloc puts in new memory                 *)

ASSUME FirstSizeAssumption == ONE_TIME_NUM \in Nat \ {0}

EmptyArray == [mem |-> <<>>, count |-> 0]

Capacity(v) == Len(v.mem)
Contents(v) == SubSeq(v.mem, 1, v.count)

\* reverse(n): realloc to n elements, keeping what they hold; never below m_iCount.
Reserved(v, n) ==
  IF n > v.count /\ n # Capacity(v)
  THEN [v EXCEPT !.mem = [i \in 1..n |-> IF i <= Capacity(v) THEN v.mem[i] ELSE Uninitialised]]
  ELSE v

Mut_RoomForOne(v) ==
  IF v.count > Capacity(v)
  THEN Reserved(v, IF Capacity(v) > 0 THEN 2 * Capacity(v) ELSE ONE_TIME_NUM)
  ELSE v
\* Room for one more, as Add makes it: the capacity doubles.
RoomForOne(v) ==
  IF v.count >= Capacity(v)
  THEN Reserved(v, IF Capacity(v) > 0 THEN 2 * Capacity(v) ELSE ONE_TIME_NUM)
  ELSE v

\* Room for n more, as AddArray makes it: the capacity becomes what is needed.
RoomFor(v, n) == IF v.count + n > Capacity(v) THEN Reserved(v, v.count + n) ELSE v

\* The elements of xs are copied past the last element, which does not count them
\* yet; what would be past the end of the memory falls outside of the model.
Appended(v, xs) ==
  [v EXCEPT !.mem = [i \in 1..Capacity(v) |->
                       IF i \in v.count + 1 .. v.count + Len(xs) THEN xs[i - v.count] ELSE @[i]]]

\* m_iCount += n
Counted(v, n) == [v EXCEPT !.count = @ + n]

\* Trunc(n), and Clear, which is Trunc(0).
Truncated(v, n) == [mem |-> [i \in 1..Capacity(v) |-> IF i <= n THEN v.mem[i] ELSE Uninitialised],
                    count |-> n]

\* Remove(index, n), index counted from 0: what follows moves down.
Removed(v, index, n) ==
  LET moved == [i \in 1..Capacity(v) |->
                  IF i \in index + 1 .. v.count - n THEN v.mem[i + n] ELSE v.mem[i]]
  IN Truncated([v EXCEPT !.mem = moved], v.count - n)

\* The vectors of items of T.
Arrays(T) == {v \in [mem : Seq(T \cup {Uninitialised}), count : Nat] :
                /\ v.count <= Capacity(v)
                /\ \A i \in 1..v.count : v.mem[i] \in T}
===============================================================================
