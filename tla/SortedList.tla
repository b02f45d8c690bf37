------------------------------ MODULE SortedList ------------------------------
(***************************************************************************)
(* ElsaCBinaryList and ElsaCStaticBinaryList: an array that AddItem keeps  *)
(* in order by binary search and Find searches the same way. The search of *)
(* AddItem never looks at the first item, so an item smaller than all the  *)
(* others is inserted second.                                              *)
(***************************************************************************)
EXTENDS Integers, Sequences, SequencesExt

CONSTANTS Items,   (* integers                                               *)
          MAX_NUM  (* the most a static list holds; a bound for the other    *)

VARIABLES list, bag   (* bag: how many of each item were added, not removed *)

vars == <<list, bag>>

Init == list = <<>> /\ bag = [x \in Items |-> 0]

\* The binary search of AddItem, from 0: the last place whose item is at most x,
\* or the first place of all.
LastAtMost(s, x) ==
  LET search[low \in 0..Len(s), high \in 0..Len(s)] ==
        IF low >= high THEN low
        ELSE LET mid == (low + high + 1) \div 2
             IN IF s[mid + 1] <= x THEN search[mid, high] ELSE search[low, mid - 1]
  IN search[0, Len(s) - 1]

Find(s, x) ==
  LET search[low \in 0..Len(s), high \in 0..Len(s)] ==
        IF low >= high THEN low
        ELSE LET mid == (low + high) \div 2
             IN IF s[mid + 1] >= x THEN search[low, mid] ELSE search[mid + 1, high]
      found == search[0, Len(s) - 1]
  IN IF s = <<>> \/ s[found + 1] # x THEN -1 ELSE found

\* The place after the one the search ended at; an empty list has only one place.
Place(x) == IF list = <<>> THEN 0 ELSE LastAtMost(list, x) + 1

Insert(idx, x) == list' = InsertAt(list, idx + 1, x)

AddItem(x) == /\ Len(list) < MAX_NUM
              /\ Insert(Place(x), x)
              /\ bag' = [bag EXCEPT ![x] = @ + 1]

Cut(idx, num) == list' = SubSeq(list, 1, idx) \o SubSeq(list, idx + num + 1, Len(list))

\* How many of the items from place idx on are x, up to the first that is not.
Repeats(idx, x) == CHOOSE n \in 0 .. Len(list) - idx :
                     /\ \A i \in 1..n : list[idx + i] = x
                     /\ idx + n < Len(list) => list[idx + n + 1] # x

\* Only for an item Find finds: ElsaCBinaryList asserts it, the static list returns.
RemoveItem(x, bDelRepeat) ==
  LET idx == Find(list, x)
      num == IF bDelRepeat THEN Repeats(idx, x) ELSE 1
  IN /\ idx >= 0
     /\ Cut(idx, num)
     /\ bag' = [bag EXCEPT ![x] = @ - num]

Clear == list' = <<>> /\ bag' = [x \in Items |-> 0]

Next == Clear \/ \E x \in Items : AddItem(x) \/ \E all \in BOOLEAN : RemoveItem(x, all)

Spec == Init /\ [][Next]_vars

FirstPlace(s, x) == CHOOSE i \in 1..Len(s) : s[i] = x /\ \A j \in 1 .. i - 1 : s[j] # x

\* After any calls the list holds what was added and not removed, in order from its
\* second item on; and when the first item is in order too, Find returns the first
\* place of every item it holds and -1 for every other.
TailSorted ==
  /\ \A x \in Items : Len(SelectSeq(list, LAMBDA y : y = x)) = bag[x]
  /\ \A i \in 2 .. Len(list) - 1 : list[i] <= list[i + 1]
  /\ (Len(list) > 1 => list[1] <= list[2]) =>
        \A x \in Items : Find(list, x) = IF bag[x] = 0 THEN -1 ELSE FirstPlace(list, x) - 1
===============================================================================
