------------------------------- MODULE LuaTableLib ------------------------------
(***************************************************************************)
(* Lua's table library (ltablib.c): insert, remove, concat and sort, a     *)
(* quicksort that sorts by any relation a program gives it and looks for   *)
(* the ends of its segments by comparing alone. The length of a list with  *)
(* holes is any of its borders. A value is a number, nil is 0.             *)
(***************************************************************************)
EXTENDS Integers, Sequences, SequencesExt, FiniteSets, LuaCommon

CONSTANTS Lists,       (* the lists there may be, 0 in them for holes          *)
          Orders,      (* what a program may sort by: sets of pairs of values   *)
          Positions, Values

VARIABLES list,        (* the table: a function of the places                   *)
          order, call  (* call: what was asked, how far it is, what it returns  *)

vars == <<list, order, call>>

nil == 0
Wrong == <<-2>>   \* what concat raises
Places == -2..9
ListOf(q) == [i \in Places |-> IF i \in 1..Len(q) THEN q[i] ELSE nil]
\* luaH_getn.
Borders == {b \in 0..8 : (b = 0 \/ list[b] # nil) /\ list[b + 1] = nil}
Larger(a, b) == IF a > b THEN a ELSE b

\* The elements move up one by one, from the first empty place down.
TInsert(pos, v) ==
  /\ call.op = "none"
  /\ \E e \in {b + 1 : b \in Borders} :
       /\ list' = [i \in Places |-> IF i = pos THEN v ELSE IF pos < i /\ i <= Larger(e, pos) THEN list[i - 1] ELSE list[i]]
       /\ call' = [op |-> "insert", pos |-> pos, v |-> v, old |-> list, len |-> e - 1]
  /\ UNCHANGED order

TRemove(pos) ==
  /\ call.op = "none"
  /\ \E e \in Borders :
       /\ list' = IF pos \notin 1..e THEN list
                  ELSE [i \in Places |-> IF pos <= i /\ i < e THEN list[i + 1] ELSE IF i = e THEN nil ELSE list[i]]
       /\ call' = [op |-> "remove", pos |-> pos, old |-> list, len |-> e,
                  out |-> IF pos \in 1..e THEN list[pos] ELSE nil]
  /\ UNCHANGED order

\* addfield and tconcat: the fields and, but for the last, the separator (-1); a field
\* that is no text is an error.
RECURSIVE AddFields(_, _)
AddFields(i, last) ==
  IF i > last THEN <<>>
  ELSE IF list[i] = nil THEN Wrong
  ELSE IF i = last THEN <<list[i]>>
  ELSE Then(AddFields(i + 1, last), LAMBDA rest : IF rest = Wrong THEN rest ELSE <<list[i], -1>> \o rest)
TConcat(i, last) ==
  /\ call.op = "none"
  /\ call' = [op |-> "concat", i |-> i, last |-> last, out |-> AddFields(i, last)]
  /\ UNCHANGED <<list, order>>

(* ---- sort ---------------------------------------------------------------- *)
SortComp(a, b) == <<a, b>> \in order
Swapped(a, i, j) == [a EXCEPT ![i] = a[j], ![j] = a[i]]

\* The segment's first, middle and last elements in order; a segment of three is sorted then.
Median(a, l, u) ==
  Then2(a, LAMBDA b : IF SortComp(b[u], b[l]) THEN Swapped(b, l, u) ELSE b,
        LAMBDA b : LET i == (l + u) \div 2
                   IN IF u - l = 1 THEN b
                      ELSE IF SortComp(b[i], b[l]) THEN Swapped(b, i, l)
                      ELSE IF SortComp(b[u], b[i]) THEN Swapped(b, i, u) ELSE b)
\* repeat ++i until a[i] >= P, repeat --j until a[j] <= P; one past the end is the error.
RECURSIVE ScanUp(_, _, _, _), ScanDown(_, _, _, _)
ScanUp(a, P, i, u) == IF ~SortComp(a[i + 1], P) THEN i + 1
                      ELSE IF i + 1 > u THEN u + 2 ELSE ScanUp(a, P, i + 1, u)
ScanDown(a, P, j, l) == IF ~SortComp(P, a[j - 1]) THEN j - 1
                        ELSE IF j - 1 < l THEN l - 2 ELSE ScanDown(a, P, j - 1, l)
\* The partition around P: [a, i], i the place of P or 0 for the error.
RECURSIVE Partition(_, _, _, _)
Partition(a, P, ij, lu) ==
  Then(ScanUp(a, P, ij[1], lu[2]), LAMBDA i :
    IF i > lu[2] + 1 THEN [a |-> a, i |-> 0]
    ELSE Then(ScanDown(a, P, ij[2], lu[1]), LAMBDA j :
      CASE j < lu[1] - 1 -> [a |-> a, i |-> 0]
        [] j >= lu[1] - 1 /\ j < i -> [a |-> Swapped(a, lu[2] - 1, i), i |-> i]
        [] OTHER -> Partition(Swapped(a, i, j), P, <<i, j>>, lu)))

Sort ==
  /\ call.op = "none"
  /\ \E n \in Borders : call' = [op |-> "sort", old |-> list, len |-> n, todo |-> <<<<1, n>>>>, failed |-> FALSE]
  /\ UNCHANGED <<list, order>>
\* One turn of auxsort's loop; todo is what its calls still have to do, the smaller half first.
Mut_Halves(l, i, u) == IF i - l < u - i THEN <<<<l, i - 1>>, <<i + 2, u>>>> ELSE <<<<i + 1, u>>, <<l, i - 1>>>>
Halves(l, i, u) == IF i - l < u - i THEN <<<<l, i - 1>>, <<i + 1, u>>>> ELSE <<<<i + 1, u>>, <<l, i - 1>>>>
AuxSort ==
  /\ call.op = "sort" /\ call.todo # <<>> /\ ~call.failed
  /\ LET l == call.todo[1][1]
         u == call.todo[1][2]
         m == (l + u) \div 2
         a == Median(list, l, u)
     IN IF l >= u THEN /\ call' = [call EXCEPT !.todo = Tail(@)]
                       /\ UNCHANGED list
        ELSE IF u - l <= 2 THEN /\ list' = a
                                /\ call' = [call EXCEPT !.todo = Tail(@)]
        ELSE LET r == Partition(Swapped(a, m, u - 1), a[m], <<l, u - 1>>, <<l, u>>)
             IN /\ list' = r.a
                /\ call' = IF r.i = 0 THEN [call EXCEPT !.failed = TRUE]
                           ELSE [call EXCEPT !.todo = Halves(l, r.i, u) \o Tail(@)]
  /\ UNCHANGED order

Init ==
  /\ list \in {ListOf(q) : q \in Lists}
  /\ order \in Orders
  /\ call = [op |-> "none"]

Next ==
  \/ \E pos \in Positions, v \in Values : TInsert(pos, v)
  \/ \E pos \in Positions : TRemove(pos)
  \/ \E i, last \in Positions : TConcat(i, last)
  \/ Sort
  \/ AuxSort

Spec == Init /\ [][Next]_vars

(* ---- what the calls mean --------------------------------------------------- *)
Elements(a) == SelectSeq([k \in 1..Cardinality(Places) |-> a[k - 3]], LAMBDA v : v # nil)
Count(a, v) == Cardinality({i \in Places : a[i] = v})
Proper(a, n) == \A i \in Places : (a[i] # nil) = (i \in 1..n)
\* A strict weak order of the values, which is what sort asks for.
Orderly(r) == LET V == Values
                  Same(a, b) == <<a, b>> \notin r /\ <<b, a>> \notin r
              IN /\ \A a, b \in V : <<a, b>> \in r => <<b, a>> \notin r
                 /\ \A a, b, c \in V : (<<a, b>> \in r /\ <<b, c>> \in r) => <<a, c>> \in r
                 /\ \A a, b, c \in V : (Same(a, b) /\ Same(b, c)) => Same(a, c)
\* The elements of a list after one more at pos, and after the removal of pos.
Inserted(old, pos, v) == IF pos < 1 THEN <<v>> \o old ELSE IF pos > Len(old) + 1 THEN Append(old, v) ELSE InsertAt(old, pos, v)

\* Insertion and removal move the elements of a list without losing, doubling or
\* reordering one, wherever the position is (ltablib.c:90-132); sorting by a strict weak
\* order leaves exactly the old elements, each not less than those before it, and finds
\* the order function valid, which it learns only from where its searches end
\* (ltablib.c:193-254). Whatever relation a program sorts by, no element is lost or
\* doubled, and only the place just after the segment is touched besides it.
ListsKept ==
  /\ call.op = "insert" /\ Proper(call.old, call.len) =>
       Elements(list) = Inserted(Elements(call.old), call.pos, call.v)
  /\ call.op = "remove" /\ Proper(call.old, call.len) =>
       /\ Elements(list) = IF call.pos \in 1..call.len THEN RemoveAt(Elements(call.old), call.pos) ELSE Elements(call.old)
       /\ call.pos \in 1..call.len => call.out = Elements(call.old)[call.pos] /\ Proper(list, call.len - 1)
  /\ call.op = "insert" /\ ~Proper(call.old, call.len) /\ (call.pos <= call.len + 1 \/ call.old[call.pos] = nil) =>
       \A v \in Values : Count(list, v) = Count(call.old, v) + (IF v = call.v THEN 1 ELSE 0)
  /\ call.op = "concat" /\ call.out # Wrong =>
       SelectSeq(call.out, LAMBDA v : v # -1) = [k \in 1..(IF call.last < call.i THEN 0 ELSE call.last - call.i + 1) |-> list[call.i + k - 1]]
  /\ call.op = "sort" =>
       /\ \A v \in Values \cup {nil} : Count(list, v) = Count(call.old, v)
       /\ \A i \in Places \ (1..call.len + 1) : list[i] = call.old[i]
       /\ Orderly(order) /\ Proper(call.old, call.len) =>
                            /\ ~call.failed /\ list[call.len + 1] = nil
                            /\ call.todo = <<>> => \A i, j \in 1..call.len : i < j => ~SortComp(list[j], list[i])
==================================================================================
