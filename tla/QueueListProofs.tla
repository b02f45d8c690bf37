---------------------------- MODULE QueueListProofs ----------------------------
(***************************************************************************)
(* Proofs about ElsaCQueueList, for any threads, lists, mutexes and sizes: *)
(* copies stay in bounds, and the list implements BatchQueue. First, what  *)
(* the operations of ElsaCVector do to its contents, for every vector and  *)
(* every item type.                                                        *)
(*                                                                         *)
(* ThreadInv says what a thread may rely on in the middle of a call. An    *)
(* action of one thread leaves that of every other alone, which is shown   *)
(* first (UnchangedFor), so that the rest is about the thread that acts.   *)
(***************************************************************************)
EXTENDS QueueList, SequenceTheorems, TLAPS

(* ---- vectors --------------------------------------------------------------- *)

\* The items of xs are in the memory of v, past those it counts.
Copied(v, xs) == /\ v.count + Len(xs) <= Capacity(v)
                 /\ \A i \in 1..Len(xs) : v.mem[v.count + i] = xs[i]

\* What a vector is made of.
LEMMA ArrayParts ==
  ASSUME NEW T, NEW v \in Arrays(T)
  PROVE  /\ v = [mem |-> v.mem, count |-> v.count]
         /\ v.mem \in Seq(T \cup {Uninitialised})
         /\ Capacity(v) = Len(v.mem)
         /\ Capacity(v) \in Nat
         /\ v.count \in 0..Capacity(v)
         /\ \A i \in 1..Capacity(v) : v.mem[i] \in T \cup {Uninitialised}
         /\ \A i \in 1..v.count : v.mem[i] \in T
<1>1. v \in [mem : Seq(T \cup {Uninitialised}), count : Nat]
  BY DEF Arrays
<1>2. v.mem \in Seq(T \cup {Uninitialised}) /\ v.count \in Nat
  BY <1>1
<1>3. Capacity(v) = Len(v.mem) /\ Capacity(v) \in Nat
  BY <1>2, LenProperties DEF Capacity
<1>4. v.count <= Capacity(v) /\ \A i \in 1..v.count : v.mem[i] \in T
  BY DEF Arrays
<1>5. \A i \in 1..Capacity(v) : v.mem[i] \in T \cup {Uninitialised}
  BY <1>2, <1>3, ElementOfSeq
<1>6. v = [mem |-> v.mem, count |-> v.count]
  BY <1>1
<1> QED
  BY <1>2, <1>3, <1>4, <1>5, <1>6

\* A memory in the form of a function makes a vector.
LEMMA ArrayFromParts ==
  ASSUME NEW T, NEW n \in Nat, NEW c \in 0..n, NEW m \in [1..n -> T \cup {Uninitialised}],
         \A i \in 1..c : m[i] \in T
  PROVE  /\ [mem |-> m, count |-> c] \in Arrays(T)
         /\ Len(m) = n
<1>1. m \in Seq(T \cup {Uninitialised})
  BY SeqDef
<1>2. Len(m) = n
  BY <1>1, LenProperties
<1>3. [mem |-> m, count |-> c] \in [mem : Seq(T \cup {Uninitialised}), count : Nat]
  BY <1>1
<1> QED
  BY <1>2, <1>3 DEF Arrays, Capacity

\* The contents of a vector are its first count elements.
LEMMA ArrayContents ==
  ASSUME NEW T, NEW v \in Arrays(T)
  PROVE  /\ Contents(v) \in Seq(T)
         /\ Len(Contents(v)) = v.count
         /\ \A i \in 1..v.count : Contents(v)[i] = v.mem[i]
<1>0. v.count \in 0..Capacity(v) /\ \A i \in 1..v.count : v.mem[i] \in T
  BY ArrayParts
<1>1. v.count \in Nat /\ v.count \in Int
  BY <1>0
<1>2. /\ SubSeq(v.mem, 1, v.count) \in Seq(T)
      /\ Len(SubSeq(v.mem, 1, v.count)) = IF 1 <= v.count THEN v.count - 1 + 1 ELSE 0
      /\ \A i \in 1 .. v.count - 1 + 1 : SubSeq(v.mem, 1, v.count)[i] = v.mem[1 + i - 1]
  BY <1>0, <1>1, SubSeqProperties
<1> QED
  BY <1>1, <1>2 DEF Contents

\* Vectors that agree on what they count have the same contents.
LEMMA SameContents ==
  ASSUME NEW T, NEW v \in Arrays(T), NEW w \in Arrays(T), w.count = v.count,
         \A i \in 1..v.count : w.mem[i] = v.mem[i]
  PROVE  Contents(w) = Contents(v)
<1>1. /\ Contents(v) \in Seq(T) /\ Contents(w) \in Seq(T)
      /\ Len(Contents(v)) = v.count /\ Len(Contents(w)) = w.count
      /\ \A i \in 1..v.count : Contents(v)[i] = v.mem[i]
      /\ \A i \in 1..w.count : Contents(w)[i] = w.mem[i]
  BY ArrayContents
<1> QED
  BY <1>1, SeqEqual

\* realloc to a larger size leaves what is counted as it is.
LEMMA ReservedArray ==
  ASSUME NEW T, NEW v \in Arrays(T), NEW n \in Nat, n > v.count
  PROVE  /\ Reserved(v, n) \in Arrays(T)
         /\ Reserved(v, n).count = v.count
         /\ Capacity(Reserved(v, n)) = n
         /\ Contents(Reserved(v, n)) = Contents(v)
<1> DEFINE m == [i \in 1..n |-> IF i <= Capacity(v) THEN v.mem[i] ELSE Uninitialised]
           w == [mem |-> m, count |-> v.count]
<1>0. /\ v = [mem |-> v.mem, count |-> v.count]
      /\ Capacity(v) \in Nat
      /\ v.count \in 0..Capacity(v)
      /\ \A i \in 1..Capacity(v) : v.mem[i] \in T \cup {Uninitialised}
      /\ \A i \in 1..v.count : v.mem[i] \in T
  BY ArrayParts
<1>1. CASE n = Capacity(v)
  BY <1>1 DEF Reserved
<1>2. CASE n # Capacity(v)
  <2>1. Reserved(v, n) = [v EXCEPT !.mem = m]
    BY <1>2 DEF Reserved
  <2>3. Reserved(v, n) = w
    BY <1>0, <2>1
  <2>4. m \in [1..n -> T \cup {Uninitialised}]
    BY <1>0
  <2>5. \A i \in 1..v.count : m[i] \in T /\ m[i] = v.mem[i]
    BY <1>0
  <2>6. v.count \in 0..n
    BY <1>0
  <2>7. w \in Arrays(T) /\ Len(m) = n
    <3> HIDE DEF m
    <3> QED
      BY <2>4, <2>5, <2>6, ArrayFromParts
  <2>8. Contents(w) = Contents(v)
    <3> HIDE DEF m
    <3>1. w.count = v.count /\ \A i \in 1..v.count : w.mem[i] = v.mem[i]
      BY <2>5
    <3> HIDE DEF w
    <3> QED
      BY <2>7, <3>1, SameContents
  <2> QED
    BY <2>3, <2>7, <2>8 DEF Capacity
<1> QED
  BY <1>1, <1>2

\* AddArray has room for what it copies.
LEMMA RoomForArray ==
  ASSUME NEW T, NEW v \in Arrays(T), NEW n \in Nat
  PROVE  /\ RoomFor(v, n) \in Arrays(T)
         /\ RoomFor(v, n).count = v.count
         /\ v.count + n <= Capacity(RoomFor(v, n))
         /\ Contents(RoomFor(v, n)) = Contents(v)
<1>0. Capacity(v) \in Nat /\ v.count \in 0..Capacity(v)
  BY ArrayParts
<1>1. v.count \in Nat /\ Capacity(v) \in Nat /\ v.count <= Capacity(v)
  BY <1>0
<1>2. CASE v.count + n > Capacity(v)
  <2>1. v.count + n \in Nat /\ v.count + n > v.count
    BY <1>1, <1>2
  <2>2. RoomFor(v, n) = Reserved(v, v.count + n)
    BY <1>2 DEF RoomFor
  <2> QED
    BY <1>1, <2>1, <2>2, ReservedArray
<1>3. CASE ~(v.count + n > Capacity(v))
  BY <1>1, <1>3 DEF RoomFor
<1> QED
  BY <1>2, <1>3

\* Add has room for its item.
LEMMA RoomForOneArray ==
  ASSUME NEW T, NEW v \in Arrays(T)
  PROVE  /\ RoomForOne(v) \in Arrays(T)
         /\ RoomForOne(v).count = v.count
         /\ v.count + 1 <= Capacity(RoomForOne(v))
         /\ Contents(RoomForOne(v)) = Contents(v)
<1> DEFINE n == IF Capacity(v) > 0 THEN 2 * Capacity(v) ELSE ONE_TIME_NUM
<1>0. Capacity(v) \in Nat /\ v.count \in 0..Capacity(v)
  BY ArrayParts
<1>1. v.count \in Nat /\ Capacity(v) \in Nat /\ v.count <= Capacity(v)
  BY <1>0
<1>2. CASE v.count >= Capacity(v)
  <2>1. n \in Nat /\ n > v.count
    BY <1>1, <1>2, FirstSizeAssumption
  <2>2. RoomForOne(v) = Reserved(v, n)
    BY <1>2 DEF RoomForOne
  <2> HIDE DEF n
  <2> QED
    BY <1>1, <2>1, <2>2, ReservedArray
<1>3. CASE ~(v.count >= Capacity(v))
  BY <1>1, <1>3 DEF RoomForOne
<1> QED
  BY <1>2, <1>3

\* Copying items past the last one changes nothing that is counted.
LEMMA AppendedArray ==
  ASSUME NEW T, NEW v \in Arrays(T), NEW xs \in Seq(T)
  PROVE  /\ Appended(v, xs) \in Arrays(T)
         /\ Appended(v, xs).count = v.count
         /\ Capacity(Appended(v, xs)) = Capacity(v)
         /\ Contents(Appended(v, xs)) = Contents(v)
         /\ v.count + Len(xs) <= Capacity(v) => Copied(Appended(v, xs), xs)
<1> DEFINE m == [i \in 1..Capacity(v) |->
                   IF i \in v.count + 1 .. v.count + Len(xs) THEN xs[i - v.count] ELSE v.mem[i]]
           w == [mem |-> m, count |-> v.count]
<1>1. /\ v = [mem |-> v.mem, count |-> v.count]
      /\ Capacity(v) \in Nat
      /\ v.count \in 0..Capacity(v)
      /\ \A i \in 1..Capacity(v) : v.mem[i] \in T \cup {Uninitialised}
      /\ \A i \in 1..v.count : v.mem[i] \in T
  BY ArrayParts
<1>2. Len(xs) \in Nat /\ \A i \in 1..Len(xs) : xs[i] \in T
  BY ElementOfSeq, LenProperties
<1>3. Appended(v, xs) = w
  BY <1>1 DEF Appended
<1>4. m \in [1..Capacity(v) -> T \cup {Uninitialised}]
  <2> SUFFICES ASSUME NEW i \in 1..Capacity(v)
               PROVE  m[i] \in T \cup {Uninitialised}
    OBVIOUS
  <2>1. CASE i \in v.count + 1 .. v.count + Len(xs)
    <3>1. i - v.count \in 1..Len(xs)
      BY <1>1, <1>2, <2>1
    <3> QED
      BY <1>2, <2>1, <3>1
  <2>2. CASE i \notin v.count + 1 .. v.count + Len(xs)
    BY <1>1, <2>2
  <2> QED
    BY <2>1, <2>2
<1>5. \A i \in 1..v.count : m[i] \in T /\ m[i] = v.mem[i]
  BY <1>1, <1>2
<1>6. v.count + Len(xs) <= Capacity(v) => \A i \in 1..Len(xs) : m[v.count + i] = xs[i]
  <2> SUFFICES ASSUME v.count + Len(xs) <= Capacity(v), NEW i \in 1..Len(xs)
               PROVE  m[v.count + i] = xs[i]
    OBVIOUS
  <2>1. /\ v.count + i \in 1..Capacity(v)
        /\ v.count + i \in v.count + 1 .. v.count + Len(xs)
        /\ (v.count + i) - v.count = i
    BY <1>1, <1>2
  <2> QED
    BY <2>1
<1> HIDE DEF m
<1>7. w \in Arrays(T) /\ Len(m) = Capacity(v)
  BY <1>1, <1>4, <1>5, ArrayFromParts
<1>8. Contents(w) = Contents(v)
  <2>1. w.count = v.count /\ \A i \in 1..v.count : w.mem[i] = v.mem[i]
    BY <1>5
  <2> HIDE DEF w
  <2> QED
    BY <1>7, <2>1, SameContents
<1> QED
  BY <1>3, <1>6, <1>7, <1>8 DEF Capacity, Copied

\* Counting the copied items appends them.
LEMMA CountedArray ==
  ASSUME NEW T, NEW v \in Arrays(T), NEW xs \in Seq(T), Copied(v, xs)
  PROVE  /\ Counted(v, Len(xs)) \in Arrays(T)
         /\ Contents(Counted(v, Len(xs))) = Contents(v) \o xs
<1> DEFINE w == [mem |-> v.mem, count |-> v.count + Len(xs)]
<1>1. /\ v = [mem |-> v.mem, count |-> v.count]
      /\ Capacity(v) = Len(v.mem)
      /\ v.mem \in Seq(T \cup {Uninitialised})
      /\ Capacity(v) \in Nat
      /\ v.count \in 0..Capacity(v)
      /\ \A i \in 1..v.count : v.mem[i] \in T
  BY ArrayParts
<1>2. Len(xs) \in Nat /\ \A i \in 1..Len(xs) : xs[i] \in T
  BY ElementOfSeq, LenProperties
<1>3. Counted(v, Len(xs)) = w
  BY <1>1 DEF Counted
<1>4. \A i \in 1..w.count : v.mem[i] = IF i <= v.count THEN v.mem[i] ELSE xs[i - v.count]
  <2> SUFFICES ASSUME NEW i \in 1..w.count, i > v.count
               PROVE  v.mem[i] = xs[i - v.count]
    BY <1>1
  <2>1. i - v.count \in 1..Len(xs) /\ v.count + (i - v.count) = i
    BY <1>1, <1>2
  <2> QED
    BY <2>1 DEF Copied
<1>5. \A i \in 1..w.count : v.mem[i] \in T
  <2> SUFFICES ASSUME NEW i \in 1..w.count
               PROVE  v.mem[i] \in T
    OBVIOUS
  <2>1. CASE i <= v.count
    BY <1>1, <2>1
  <2>2. CASE i > v.count
    <3>1. i - v.count \in 1..Len(xs)
      BY <1>1, <1>2, <2>2
    <3> QED
      BY <1>1, <1>2, <1>4, <2>2, <3>1
  <2> QED
    BY <1>1, <1>2, <2>1, <2>2
<1>6. w \in Arrays(T)
  <2>1. w \in [mem : Seq(T \cup {Uninitialised}), count : Nat]
    BY <1>1, <1>2
  <2>2. w.count <= Capacity(w)
    BY <1>1 DEF Copied, Capacity
  <2> QED
    BY <1>5, <2>1, <2>2 DEF Arrays
<1>7. /\ Contents(v) \in Seq(T) /\ Contents(w) \in Seq(T)
      /\ Len(Contents(v)) = v.count /\ Len(Contents(w)) = w.count
      /\ \A i \in 1..v.count : Contents(v)[i] = v.mem[i]
      /\ \A i \in 1..w.count : Contents(w)[i] = v.mem[i]
  <2>1. \A i \in 1..w.count : Contents(w)[i] = w.mem[i]
    <3> HIDE DEF w
    <3> QED
      BY <1>6, ArrayContents
  <2>2. Contents(w) \in Seq(T) /\ Len(Contents(w)) = w.count
    <3> HIDE DEF w
    <3> QED
      BY <1>6, ArrayContents
  <2> QED
    BY <2>1, <2>2, ArrayContents
<1>8. /\ Contents(v) \o xs \in Seq(T)
      /\ Len(Contents(v) \o xs) = Len(Contents(v)) + Len(xs)
      /\ \A i \in 1 .. Len(Contents(v)) + Len(xs) :
           (Contents(v) \o xs)[i] = IF i <= Len(Contents(v)) THEN Contents(v)[i]
                                    ELSE xs[i - Len(Contents(v))]
  BY <1>7, ConcatProperties
<1>9. \A i \in 1..w.count : Contents(w)[i] = (Contents(v) \o xs)[i]
  <2> SUFFICES ASSUME NEW i \in 1..w.count
               PROVE  Contents(w)[i] = (Contents(v) \o xs)[i]
    OBVIOUS
  <2>1. (Contents(v) \o xs)[i] = IF i <= v.count THEN Contents(v)[i] ELSE xs[i - v.count]
    BY <1>7, <1>8
  <2>2. CASE i <= v.count
    <3>1. i \in 1..v.count
      BY <1>1, <2>2
    <3> QED
      BY <1>7, <2>1, <2>2, <3>1
  <2>3. CASE ~(i <= v.count)
    BY <1>4, <1>7, <2>1, <2>3
  <2> QED
    BY <2>2, <2>3
<1>10. Contents(w) = Contents(v) \o xs
  <2>1. Len(Contents(w)) = Len(Contents(v) \o xs)
    BY <1>7, <1>8
  <2>2. \A i \in 1..Len(Contents(w)) : Contents(w)[i] = (Contents(v) \o xs)[i]
    BY <1>7, <1>9
  <2> HIDE DEF w
  <2> QED
    BY <1>7, <1>8, <2>1, <2>2, SeqEqual
<1> QED
  BY <1>3, <1>6, <1>10

\* Trunc keeps the first n.
LEMMA TruncatedArray ==
  ASSUME NEW T, NEW v \in Arrays(T), NEW n \in 0..v.count
  PROVE  /\ Truncated(v, n) \in Arrays(T)
         /\ Truncated(v, n).count = n
         /\ \A i \in 1..n : Contents(Truncated(v, n))[i] = v.mem[i]
<1> DEFINE m == [i \in 1..Capacity(v) |-> IF i <= n THEN v.mem[i] ELSE Uninitialised]
           w == [mem |-> m, count |-> n]
<1>1. /\ Capacity(v) \in Nat
      /\ v.count \in 0..Capacity(v)
      /\ \A i \in 1..Capacity(v) : v.mem[i] \in T \cup {Uninitialised}
      /\ \A i \in 1..v.count : v.mem[i] \in T
  BY ArrayParts
<1>2. Truncated(v, n) = w
  BY DEF Truncated
<1>3. m \in [1..Capacity(v) -> T \cup {Uninitialised}]
  BY <1>1
<1>4. n \in 0..Capacity(v) /\ \A i \in 1..n : m[i] \in T /\ m[i] = v.mem[i]
  BY <1>1
<1> HIDE DEF m
<1>5. w \in Arrays(T)
  BY <1>1, <1>3, <1>4, ArrayFromParts
<1>6. \A i \in 1..w.count : Contents(w)[i] = w.mem[i]
  <2> HIDE DEF w
  <2> QED
    BY <1>5, ArrayContents
<1> QED
  BY <1>2, <1>4, <1>5, <1>6

\* What is before the n-th element, and after it all that there is.
LEMMA TruncatedContents ==
  ASSUME NEW T, NEW v \in Arrays(T), NEW n \in 0..v.count
  PROVE  Contents(Truncated(v, n)) =
           SubSeq(Contents(v), 1, n) \o SubSeq(Contents(v), v.count + 1, Len(Contents(v)))
<1> DEFINE w == Truncated(v, n)
           C == Contents(v)
<1>1. w \in Arrays(T) /\ w.count = n /\ \A i \in 1..n : Contents(w)[i] = v.mem[i]
  BY TruncatedArray
<1>2. C \in Seq(T) /\ Len(C) = v.count /\ \A i \in 1..v.count : C[i] = v.mem[i]
  BY ArrayContents
<1>3. v.count \in Nat
  <2>1. v.count \in 0..Capacity(v) /\ Capacity(v) \in Nat
    BY ArrayParts
  <2> QED
    BY <2>1
<1>4. Contents(w) \in Seq(T) /\ Len(Contents(w)) = n
  <2> HIDE DEF w
  <2> QED
    BY <1>1, ArrayContents
<1>5. SubSeq(C, v.count + 1, Len(C)) = <<>>
  <2> HIDE DEF C
  <2> QED
    BY <1>2, <1>3, SubSeqEmpty
<1>6. /\ SubSeq(C, 1, n) \in Seq(T)
      /\ Len(SubSeq(C, 1, n)) = n
      /\ \A i \in 1..n : SubSeq(C, 1, n)[i] = C[i]
  <2> HIDE DEF C
  <2>1. \A i \in 1..n : C[i] \in T
    BY <1>2, <1>3, ElementOfSeq
  <2>2. /\ SubSeq(C, 1, n) \in Seq(T)
        /\ Len(SubSeq(C, 1, n)) = IF 1 <= n THEN n - 1 + 1 ELSE 0
        /\ \A i \in 1 .. n - 1 + 1 : SubSeq(C, 1, n)[i] = C[1 + i - 1]
    BY <2>1, SubSeqProperties
  <2> QED
    BY <1>3, <2>2
<1> HIDE DEF w, C
<1>7. SubSeq(C, 1, n) \o <<>> = SubSeq(C, 1, n)
  BY <1>6, ConcatEmptySeq
<1>8. \A i \in 1..Len(Contents(w)) : Contents(w)[i] = SubSeq(C, 1, n)[i]
  BY <1>1, <1>2, <1>3, <1>4, <1>6
<1>9. Contents(w) = SubSeq(C, 1, n)
  BY <1>4, <1>6, <1>8, SeqEqual
<1> QED
  BY <1>5, <1>7, <1>9 DEF w, C

\* Remove takes out the n elements after the first index.
LEMMA RemovedArray ==
  ASSUME NEW T, NEW v \in Arrays(T), NEW index \in Nat, NEW n \in Nat, index + n <= v.count
  PROVE  /\ Removed(v, index, n) \in Arrays(T)
         /\ Contents(Removed(v, index, n)) =
              SubSeq(Contents(v), 1, index) \o SubSeq(Contents(v), index + n + 1, Len(Contents(v)))
<1> DEFINE m == [i \in 1..Capacity(v) |->
                   IF i \in index + 1 .. v.count - n THEN v.mem[i + n] ELSE v.mem[i]]
           u == [mem |-> m, count |-> v.count]
           w == Truncated(u, v.count - n)
           C == Contents(v)
           A == SubSeq(C, 1, index)
           B == SubSeq(C, index + n + 1, Len(C))
<1>1. /\ v = [mem |-> v.mem, count |-> v.count]
      /\ Capacity(v) \in Nat
      /\ v.count \in 0..Capacity(v)
      /\ \A i \in 1..Capacity(v) : v.mem[i] \in T \cup {Uninitialised}
      /\ \A i \in 1..v.count : v.mem[i] \in T
  BY ArrayParts
<1>2. Removed(v, index, n) = w
  <2>1. Removed(v, index, n) = Truncated([v EXCEPT !.mem = m], v.count - n)
    BY Zenon DEF Removed
  <2>2. [v EXCEPT !.mem = m] = u
    BY <1>1
  <2> QED
    BY <2>1, <2>2, Zenon
<1>3. m \in [1..Capacity(v) -> T \cup {Uninitialised}]
  <2> SUFFICES ASSUME NEW i \in 1..Capacity(v)
               PROVE  m[i] \in T \cup {Uninitialised}
    OBVIOUS
  <2>1. CASE i \in index + 1 .. v.count - n
    <3>1. i + n \in 1..Capacity(v)
      BY <1>1, <2>1
    <3> QED
      BY <1>1, <2>1, <3>1
  <2>2. CASE i \notin index + 1 .. v.count - n
    BY <1>1, <2>2
  <2> QED
    BY <2>1, <2>2
<1>4. \A i \in 1..v.count : m[i] \in T
  <2> SUFFICES ASSUME NEW i \in 1..v.count
               PROVE  m[i] \in T
    OBVIOUS
  <2>1. CASE i \in index + 1 .. v.count - n
    <3>1. i + n \in 1..v.count
      BY <1>1, <2>1
    <3> QED
      BY <1>1, <2>1, <3>1
  <2>2. CASE i \notin index + 1 .. v.count - n
    BY <1>1, <2>2
  <2> QED
    BY <2>1, <2>2
<1>5. \A i \in 1 .. v.count - n : m[i] = IF i <= index THEN v.mem[i] ELSE v.mem[i + n]
  BY <1>1
<1>6. u \in Arrays(T)
  <2> HIDE DEF m
  <2> QED
    BY <1>1, <1>3, <1>4, ArrayFromParts
<1> HIDE DEF m
<1>7. w \in Arrays(T) /\ w.count = v.count - n /\ \A i \in 1 .. v.count - n : Contents(w)[i] = m[i]
  <2>1. v.count - n \in 0..u.count
    BY <1>1
  <2>2. /\ w \in Arrays(T)
        /\ w.count = v.count - n
        /\ \A i \in 1 .. v.count - n : Contents(w)[i] = u.mem[i]
    <3> HIDE DEF u
    <3> QED
      BY <1>6, <2>1, TruncatedArray
  <2> QED
    BY <2>2
<1> HIDE DEF u
<1>8. Contents(w) \in Seq(T) /\ Len(Contents(w)) = v.count - n
  <2> HIDE DEF w
  <2> QED
    BY <1>7, ArrayContents
<1>9. C \in Seq(T) /\ Len(C) = v.count /\ \A i \in 1..v.count : C[i] = v.mem[i]
  BY ArrayContents
<1> HIDE DEF w, C
<1>10. /\ A \in Seq(T)
       /\ Len(A) = index
       /\ \A i \in 1..index : A[i] = v.mem[i]
  <2>1. \A i \in 1..index : C[i] \in T
    BY <1>1, <1>9
  <2>2. /\ A \in Seq(T)
        /\ Len(A) = IF 1 <= index THEN index - 1 + 1 ELSE 0
        /\ \A i \in 1 .. index - 1 + 1 : A[i] = C[1 + i - 1]
    BY <2>1, SubSeqProperties
  <2> QED
    BY <1>1, <1>9, <2>2
<1>11. /\ B \in Seq(T)
       /\ Len(B) = v.count - n - index
       /\ \A i \in 1 .. v.count - n - index : B[i] = v.mem[index + n + i]
  <2>1. \A i \in index + n + 1 .. Len(C) : C[i] \in T
    BY <1>1, <1>9
  <2>2. index + n + 1 \in Int /\ Len(C) \in Int
    BY <1>1, <1>9
  <2>3. /\ B \in Seq(T)
        /\ Len(B) = IF index + n + 1 <= Len(C) THEN Len(C) - (index + n + 1) + 1 ELSE 0
        /\ \A i \in 1 .. Len(C) - (index + n + 1) + 1 : B[i] = C[index + n + 1 + i - 1]
    BY <2>1, <2>2, SubSeqProperties
  <2>4. Len(B) = v.count - n - index
    BY <1>1, <1>9, <2>3
  <2>5. ASSUME NEW i \in 1 .. v.count - n - index
        PROVE  B[i] = v.mem[index + n + i]
    <3>1. /\ i \in 1 .. Len(C) - (index + n + 1) + 1
          /\ index + n + 1 + i - 1 = index + n + i
          /\ index + n + i \in 1..v.count
      BY <1>1, <1>9
    <3> QED
      BY <1>9, <2>3, <3>1
  <2> QED
    BY <2>3, <2>4, <2>5
<1> HIDE DEF A, B
<1>12. /\ A \o B \in Seq(T)
       /\ Len(A \o B) = Len(A) + Len(B)
       /\ \A i \in 1 .. Len(A) + Len(B) : (A \o B)[i] = IF i <= Len(A) THEN A[i] ELSE B[i - Len(A)]
  BY <1>10, <1>11, ConcatProperties
<1>13. \A i \in 1 .. v.count - n : Contents(w)[i] = (A \o B)[i]
  <2> SUFFICES ASSUME NEW i \in 1 .. v.count - n
               PROVE  Contents(w)[i] = (A \o B)[i]
    OBVIOUS
  <2>1. (A \o B)[i] = IF i <= index THEN A[i] ELSE B[i - index]
    BY <1>1, <1>10, <1>11, <1>12
  <2>2. CASE i <= index
    BY <1>5, <1>7, <1>10, <2>1, <2>2
  <2>3. CASE ~(i <= index)
    <3>1. i - index \in 1 .. v.count - n - index /\ index + n + (i - index) = i + n
      BY <1>1, <2>3
    <3>2. B[i - index] = v.mem[i + n]
      BY <1>11, <3>1
    <3> QED
      BY <1>5, <1>7, <2>1, <2>3, <3>2
  <2> QED
    BY <2>2, <2>3
<1>14. Contents(w) = A \o B
  <2>1. Len(A \o B) = Len(Contents(w))
    BY <1>1, <1>8, <1>10, <1>11, <1>12
  <2> QED
    BY <1>8, <1>12, <1>13, <2>1, SeqEqual
<1> QED
  BY <1>2, <1>7, <1>14 DEF A, B, C

(* ---- the list -------------------------------------------------------------- *)

Copying  == {"grow1", "grow", "copy", "count"}
Emptying == {"flushgrow", "flushcopy", "flushcount"}
Locked   == Copying \cup Emptying \cup {"trunc"}

\* Inside the lock a thread holds the mutex of the list.
LockInv(t) == pc[t] \in Locked => holder[m_pLock[target[t]]] = t

\* Whose lists a call may touch.
OwnerInv(t) ==
  /\ pc[t] \in Flushing => Owner[target[t]] = t
  /\ source[t] # NULL => pc[t] \in {"array", "grow", "copy", "count"} /\ Owner[source[t]] = t
  /\ pc[t] \in {"append", "grow1"} => Len(batch[t]) = 1

\* What an append has prepared in the buffer.
AppendInv(t) ==
  /\ pc[t] \in Copying => length[t] = Len(Asked(t))
  /\ pc[t] = "copy" =>
       m_vecAppendList[target[t]].count + length[t] <= Capacity(m_vecAppendList[target[t]])
  /\ pc[t] = "count" => Copied(m_vecAppendList[target[t]], Asked(t))

\* What a flush has prepared in the list.
FlushInv(t) ==
  /\ pc[t] \in Emptying => length[t] = m_vecAppendList[target[t]].count
  /\ pc[t] = "flushcopy" => m_vecData[target[t]].count + length[t] <= Capacity(m_vecData[target[t]])
  /\ pc[t] = "flushcount" => Copied(m_vecData[target[t]], Contents(m_vecAppendList[target[t]]))

ThreadInv(t) == LockInv(t) /\ OwnerInv(t) /\ AppendInv(t) /\ FlushInv(t)
Inv == TypeOK /\ \A t \in Threads : ThreadInv(t)

\* A step that does not concern thread u: where u is and what it relies on stay.
UnchangedFor(u) ==
  /\ pc'[u] = pc[u] /\ target'[u] = target[u] /\ batch'[u] = batch[u]
  /\ source'[u] = source[u] /\ length'[u] = length[u]
  /\ pc[u] \in Locked => /\ holder'[m_pLock'[target[u]]] = u
                         /\ m_vecAppendList'[target[u]] = m_vecAppendList[target[u]]
  /\ pc[u] \in Flushing => m_vecData'[target[u]] = m_vecData[target[u]]
  /\ source[u] # NULL => m_vecData'[source[u]] = m_vecData[source[u]]

-------------------------------------------------------------------------------
(* What the invariant says. *)

\* A thread in a call has a list, and what it is to append are items.
LEMMA Targets ==
  ASSUME Inv, NEW t \in Threads
  PROVE  /\ pc[t] # "idle" => /\ target[t] \in Lists
                              /\ m_pLock[target[t]] \in Mutexes
                              /\ m_vecData[target[t]] \in Arrays(Items)
                              /\ m_vecAppendList[target[t]] \in Arrays(Items)
         /\ pc[t] = "idle" => target[t] = NULL
         /\ source[t] # NULL => source[t] \in Lists /\ m_vecData[source[t]] \in Arrays(Items)
         /\ Asked(t) \in Seq(Items)
         /\ length[t] \in Nat
<1>1. /\ pc[t] # "idle" => target[t] \in Lists
      /\ pc[t] = "idle" => target[t] = NULL
      /\ source[t] # NULL => source[t] \in Lists
      /\ length[t] \in Nat
  BY DEF Inv, TypeOK
<1>2. \A l \in Lists : /\ m_pLock[l] \in Mutexes
                       /\ m_vecData[l] \in Arrays(Items)
                       /\ m_vecAppendList[l] \in Arrays(Items)
  BY DEF Inv, TypeOK
<1>3. CASE source[t] # NULL
  <2>1. Contents(m_vecData[source[t]]) \in Seq(Items)
    BY <1>1, <1>2, <1>3, ArrayContents
  <2> QED
    BY <1>1, <1>2, <1>3, <2>1 DEF Asked
<1>4. CASE source[t] = NULL
  <2>1. batch[t] \in Seq(Items)
    BY DEF Inv, TypeOK
  <2> QED
    BY <1>1, <1>2, <1>4, <2>1 DEF Asked
<1> QED
  BY <1>3, <1>4

\* Two threads inside the lock of the same mutex are one.
LEMMA Exclusion ==
  ASSUME Inv, NEW t \in Threads, NEW u \in Threads, pc[t] \in Locked, pc[u] \in Locked,
         m_pLock[target[t]] = m_pLock[target[u]]
  PROVE  t = u
BY DEF Inv, ThreadInv, LockInv

\* A list that one thread reads or flushes is not one that another flushes.
LEMMA OwnersDiffer ==
  ASSUME Inv, NEW t \in Threads, NEW u \in Threads, t # u, pc[t] \in Flushing
  PROVE  /\ pc[u] \in Flushing => target[u] # target[t]
         /\ source[u] # NULL => source[u] # target[t]
BY DEF Inv, ThreadInv, OwnerInv

\* A thread keeps its invariant, and its request, over a step that does not
\* concern it.
LEMMA KeptForOther ==
  ASSUME Inv, NEW u \in Threads, UnchangedFor(u)
  PROVE  Asked(u)' = Asked(u) /\ ThreadInv(u)'
<1>1. Asked(u)' = Asked(u)
  BY DEF UnchangedFor, Asked
<1>2. ThreadInv(u)
  BY DEF Inv
<1>3. LockInv(u)'
  BY <1>2 DEF ThreadInv, LockInv, UnchangedFor
<1>4. OwnerInv(u)'
  BY <1>2 DEF ThreadInv, OwnerInv, UnchangedFor
<1>5. AppendInv(u)'
  <2>1. pc[u] \in Copying => m_vecAppendList'[target[u]] = m_vecAppendList[target[u]]
    BY DEF UnchangedFor, Locked
  <2> QED
    BY <1>1, <1>2, <2>1 DEF ThreadInv, AppendInv, UnchangedFor, Copying
<1>6. FlushInv(u)'
  <2>1. pc[u] \in Emptying => /\ m_vecAppendList'[target[u]] = m_vecAppendList[target[u]]
                              /\ m_vecData'[target[u]] = m_vecData[target[u]]
    BY DEF UnchangedFor, Locked, Emptying, Flushing
  <2> QED
    BY <1>2, <2>1 DEF ThreadInv, FlushInv, UnchangedFor, Emptying
<1> QED
  BY <1>1, <1>3, <1>4, <1>5, <1>6 DEF ThreadInv

-------------------------------------------------------------------------------
(* Calls. *)

LEMMA InitInv == Init => Inv
<1> SUFFICES ASSUME Init PROVE Inv
  OBVIOUS
<1>1. EmptyArray \in Arrays(Items)
  BY EmptySeq DEF Arrays, EmptyArray, Capacity
<1>2. <<>> \in Seq(Items)
  BY EmptySeq
<1>3. TypeOK
  BY <1>1, <1>2, BoundsAssumption DEF Init, TypeOK
<1>4. \A t \in Threads : ThreadInv(t)
  BY DEF Init, ThreadInv, LockInv, OwnerInv, AppendInv, FlushInv, Locked, Copying, Emptying,
         Flushing
<1> QED
  BY <1>3, <1>4 DEF Inv

\* The items a thread makes.
LEMMA NewItemsType ==
  ASSUME Inv, NEW t \in Threads, NEW n \in Nat, made[t] + n <= MaxMade
  PROVE  NewItems(t, n) \in Seq(Items) /\ Len(NewItems(t, n)) = n
<1>1. made[t] \in Nat
  BY BoundsAssumption DEF Inv, TypeOK
<1>2. \A i \in 1..n : <<t, made[t] + i>> \in Items
  BY <1>1, BoundsAssumption DEF Items
<1>3. NewItems(t, n) \in [1..n -> Items]
  BY <1>2 DEF NewItems
<1>4. NewItems(t, n) \in Seq(Items)
  BY <1>3, SeqDef
<1> QED
  BY <1>3, <1>4, LenProperties

\* Any call keeps the invariant.
LEMMA CallInv ==
  ASSUME Inv, NEW t \in Threads, NEW l \in Lists, NEW way \in {"append", "array", "flush"},
         NEW items \in Seq(Items), NEW list \in Lists \cup {NULL},
         Call(t, l, way, items, list),
         made[t] + Len(items) <= MaxMade,
         way = "append" => Len(items) = 1,
         way = "flush" => Owner[l] = t,
         list # NULL => way = "array" /\ Owner[list] = t
  PROVE  Inv' /\ \A u \in Threads : u # t => UnchangedFor(u)
<1> USE DEF Call, Goto
<1>1. TypeOK'
  <2>1. made' \in [Threads -> 0..MaxMade]
    <3>1. Len(items) \in Nat
      BY LenProperties
    <3> QED
      BY <3>1, BoundsAssumption DEF Inv, TypeOK
  <2>2. /\ pc' \in [Threads -> {"idle"} \cup Appending \cup Flushing]
        /\ target' \in [Threads -> Lists \cup {NULL}]
        /\ \A u \in Threads : (pc'[u] = "idle") = (target'[u] = NULL)
        /\ batch' \in [Threads -> Seq(Items)]
        /\ source' \in [Threads -> Lists \cup {NULL}]
    BY NullAssumption DEF Inv, TypeOK, Appending, Flushing
  <2> QED
    BY <2>1, <2>2 DEF Inv, TypeOK
<1>2. ASSUME NEW u \in Threads, u # t
      PROVE  UnchangedFor(u)
  BY <1>2 DEF UnchangedFor, Inv, TypeOK, ThreadInv, LockInv
<1>3. ThreadInv(t)'
  BY DEF Inv, TypeOK, ThreadInv, LockInv, OwnerInv, AppendInv, FlushInv, Locked, Copying,
         Emptying, Flushing
<1> QED
  BY <1>1, <1>2, <1>3, KeptForOther DEF Inv

\* What each operation asks for.
LEMMA OperationInv ==
  ASSUME Inv, NEW t \in Threads, Operation(t)
  PROVE  /\ Inv'
         /\ \A u \in Threads : u # t => UnchangedFor(u)
         /\ pc[t] = "idle"
         /\ UNCHANGED <<m_vecData, m_vecAppendList>>
         /\ pc'[t] \in {"append", "array", "flush"}
<1>1. PICK l \in Lists : \/ AppendItem(t, l)
                         \/ \E n \in 1..MaxBatch : AppendArray(t, l, n)
                         \/ \E from \in Lists : AppendList(t, l, from)
                         \/ Flush(t, l)
  BY DEF Operation
<1>2. /\ made[t] \in 0..MaxMade /\ MaxMade \in Nat
      /\ <<>> \in Seq(Items) /\ Len(<<>>) = 0
  BY BoundsAssumption, EmptySeq DEF Inv, TypeOK
<1> DEFINE Good(way, items, list) ==
             /\ way \in {"append", "array", "flush"}
             /\ items \in Seq(Items)
             /\ list \in Lists \cup {NULL}
             /\ Call(t, l, way, items, list)
             /\ made[t] + Len(items) <= MaxMade
             /\ way = "append" => Len(items) = 1
             /\ way = "flush" => Owner[l] = t
             /\ list # NULL => way = "array" /\ Owner[list] = t
<1>3. \E way, items, list : Good(way, items, list)
  <2>1. CASE AppendItem(t, l)
    <3>1. made[t] + 1 <= MaxMade
      BY <1>2, <2>1 DEF AppendItem
    <3>2. NewItems(t, 1) \in Seq(Items) /\ Len(NewItems(t, 1)) = 1
      BY <3>1, NewItemsType
    <3>3. Good("append", NewItems(t, 1), NULL)
      BY <2>1, <3>1, <3>2 DEF AppendItem
    <3> HIDE DEF Good
    <3> QED
      BY <3>3
  <2>2. ASSUME NEW n \in 1..MaxBatch, AppendArray(t, l, n)
        PROVE  \E way, items, list : Good(way, items, list)
    <3>1. n \in Nat /\ made[t] + n <= MaxMade
      BY <2>2, BoundsAssumption DEF AppendArray
    <3>2. NewItems(t, n) \in Seq(Items) /\ Len(NewItems(t, n)) = n
      BY <3>1, NewItemsType
    <3>3. Good("array", NewItems(t, n), NULL)
      BY <2>2, <3>1, <3>2 DEF AppendArray
    <3> HIDE DEF Good
    <3> QED
      BY <3>3
  <2>3. ASSUME NEW from \in Lists, AppendList(t, l, from)
        PROVE  \E way, items, list : Good(way, items, list)
    <3>1. Good("array", <<>>, from)
      BY <1>2, <2>3 DEF AppendList
    <3> HIDE DEF Good
    <3> QED
      BY <3>1
  <2>4. CASE Flush(t, l)
    <3>1. Good("flush", <<>>, NULL)
      BY <1>2, <2>4 DEF Flush
    <3> HIDE DEF Good
    <3> QED
      BY <3>1
  <2> QED
    BY <1>1, <2>1, <2>2, <2>3, <2>4
<1>4. PICK way, items, list : Good(way, items, list)
  BY <1>3
<1>5. Inv' /\ \A u \in Threads : u # t => UnchangedFor(u)
  BY <1>4, CallInv
<1>6. /\ pc[t] = "idle"
      /\ UNCHANGED <<m_vecData, m_vecAppendList>>
      /\ pc'[t] \in {"append", "array", "flush"}
  BY <1>4 DEF Call, Goto, Inv, TypeOK
<1> QED
  BY <1>5, <1>6

-------------------------------------------------------------------------------
(* Steps of an append. *)

LEMMA LockToAppendInv ==
  ASSUME Inv, NEW t \in Threads, LockToAppend(t)
  PROVE  TypeOK' /\ ThreadInv(t)' /\ \A u \in Threads : u # t => UnchangedFor(u)
<1> DEFINE m == m_pLock[target[t]]
<1>1. /\ pc[t] \in {"append", "array"}
      /\ holder[m] = NULL
      /\ holder' = [holder EXCEPT ![m] = t]
      /\ pc' = [pc EXCEPT ![t] = IF pc[t] = "append" THEN "grow1" ELSE "grow"]
      /\ length' = [length EXCEPT ![t] = Len(Asked(t))]
      /\ UNCHANGED <<m_pLock, m_vecData, m_vecAppendList, target, batch, source, made>>
  BY DEF LockToAppend, Acquire, Goto, callVars
<1>2. m \in Mutexes /\ Len(Asked(t)) \in Nat
  BY <1>1, Targets, LenProperties
<1>3. Asked(t)' = Asked(t)
  BY <1>1 DEF Asked
<1> HIDE DEF m
<1>4. TypeOK'
  BY <1>1, <1>2 DEF Inv, TypeOK, Appending, Flushing
<1>5. ThreadInv(t)'
  <2>1. LockInv(t)'
    BY <1>1, <1>2 DEF m, Inv, TypeOK, LockInv
  <2>2. OwnerInv(t)' /\ FlushInv(t)'
    BY <1>1 DEF Inv, TypeOK, ThreadInv, OwnerInv, FlushInv, Flushing, Emptying
  <2>3. AppendInv(t)'
    BY <1>1, <1>3 DEF Inv, TypeOK, AppendInv, Copying
  <2> QED
    BY <2>1, <2>2, <2>3 DEF ThreadInv
<1>6. ASSUME NEW u \in Threads, u # t
      PROVE  UnchangedFor(u)
  <2>1. pc[u] \in Locked => holder[m_pLock[target[u]]] = u /\ u # NULL
    BY NullAssumption DEF Inv, ThreadInv, LockInv
  <2> QED
    BY <1>1, <1>6, <2>1 DEF m, UnchangedFor, Inv, TypeOK
<1> QED
  BY <1>4, <1>5, <1>6

\* A step inside the lock that changes only the buffer concerns no other thread.
LEMMA BufferStep ==
  ASSUME Inv, NEW t \in Threads, pc[t] \in Locked, NEW w \in Arrays(Items),
         NEW way \in Appending,
         m_vecAppendList' = [m_vecAppendList EXCEPT ![target[t]] = w],
         Goto(t, way),
         UNCHANGED <<m_pLock, holder, m_vecData, callVars, length, made>>
  PROVE  /\ TypeOK' /\ \A u \in Threads : u # t => UnchangedFor(u)
         /\ Asked(t)' = Asked(t)
         /\ m_vecAppendList'[target[t]] = w
<1>1. /\ pc' = [pc EXCEPT ![t] = way]
      /\ UNCHANGED <<target, batch, source>>
      /\ UNCHANGED <<m_pLock, holder, m_vecData, length, made>>
  BY DEF Goto, callVars
<1>2. pc[t] # "idle" /\ target[t] \in Lists
  BY Targets DEF Locked, Copying, Emptying
<1>3. TypeOK'
  BY <1>1, <1>2 DEF Inv, TypeOK, Appending
<1>4. ASSUME NEW u \in Threads, u # t
      PROVE  UnchangedFor(u)
  <2>1. pc[u] \in Locked => target[u] # target[t] /\ holder[m_pLock[target[u]]] = u
    BY <1>4, Exclusion DEF Inv, ThreadInv, LockInv
  <2> QED
    BY <1>1, <1>4, <2>1 DEF UnchangedFor, Inv, TypeOK
<1> QED
  BY <1>1, <1>2, <1>3, <1>4 DEF Asked, Inv, TypeOK

LEMMA GrowInv ==
  ASSUME Inv, NEW t \in Threads, Grow(t)
  PROVE  /\ TypeOK' /\ ThreadInv(t)' /\ \A u \in Threads : u # t => UnchangedFor(u)
         /\ Asked(t)' = Asked(t)
         /\ Contents(m_vecAppendList'[target[t]]) = Contents(m_vecAppendList[target[t]])
<1> DEFINE v == m_vecAppendList[target[t]]
           w == IF pc[t] = "grow1" THEN RoomForOne(v) ELSE RoomFor(v, length[t])
<1>1. /\ pc[t] \in {"grow1", "grow"}
      /\ m_vecAppendList' = [m_vecAppendList EXCEPT ![target[t]] = w]
      /\ Goto(t, "copy")
      /\ UNCHANGED <<m_pLock, holder, m_vecData, callVars, length, made>>
  BY DEF Grow
<1>2. pc[t] \in Locked /\ pc[t] \in Copying
  BY <1>1 DEF Locked, Copying
<1>3. v \in Arrays(Items) /\ length[t] \in Nat
  BY <1>1, Targets
<1>4. pc[t] = "grow1" => length[t] = 1
  BY <1>2 DEF Inv, ThreadInv, OwnerInv, AppendInv, Asked
<1>5. w \in Arrays(Items) /\ w.count + length[t] <= Capacity(w) /\ Contents(w) = Contents(v)
  <2> HIDE DEF v
  <2> QED
    BY <1>1, <1>3, <1>4, RoomForArray, RoomForOneArray
<1> HIDE DEF w
<1>6. "copy" \in Appending
  BY DEF Appending
<1>7. /\ TypeOK' /\ \A u \in Threads : u # t => UnchangedFor(u)
      /\ Asked(t)' = Asked(t)
      /\ m_vecAppendList'[target[t]] = w
  BY <1>1, <1>2, <1>5, <1>6, BufferStep
<1>8. ThreadInv(t)'
  <2>1. /\ pc'[t] = "copy" /\ pc[t] # "flush"
        /\ target'[t] = target[t] /\ source'[t] = source[t] /\ batch'[t] = batch[t]
        /\ length'[t] = length[t]
        /\ UNCHANGED <<m_pLock, holder>>
    BY <1>1 DEF Goto, callVars, Inv, TypeOK
  <2>2. LockInv(t)' /\ OwnerInv(t)' /\ FlushInv(t)'
    BY <1>1, <1>2, <2>1 DEF Inv, ThreadInv, LockInv, OwnerInv, FlushInv, Flushing, Emptying
  <2>3. AppendInv(t)'
    BY <1>2, <1>5, <1>7, <2>1 DEF Inv, ThreadInv, AppendInv
  <2> QED
    BY <2>2, <2>3 DEF ThreadInv
<1> QED
  BY <1>5, <1>7, <1>8

LEMMA CopyInv ==
  ASSUME Inv, NEW t \in Threads, Copy(t)
  PROVE  /\ TypeOK' /\ ThreadInv(t)' /\ \A u \in Threads : u # t => UnchangedFor(u)
         /\ Asked(t)' = Asked(t)
         /\ Contents(m_vecAppendList'[target[t]]) = Contents(m_vecAppendList[target[t]])
<1> DEFINE v == m_vecAppendList[target[t]]
           items == IF source[t] = NULL THEN batch[t]
                    ELSE SubSeq(m_vecData[source[t]].mem, 1, length[t])
           w == Appended(v, items)
<1>1. /\ pc[t] = "copy"
      /\ m_vecAppendList' = [m_vecAppendList EXCEPT ![target[t]] = w]
      /\ Goto(t, "count")
      /\ UNCHANGED <<m_pLock, holder, m_vecData, callVars, length, made>>
  BY DEF Copy
<1>2. pc[t] \in Locked /\ pc[t] \in Copying
  BY <1>1 DEF Locked, Copying
<1>3. /\ v \in Arrays(Items)
      /\ Asked(t) \in Seq(Items)
      /\ length[t] = Len(Asked(t))
      /\ v.count + length[t] <= Capacity(v)
  BY <1>1, <1>2, Targets DEF Inv, ThreadInv, AppendInv
<1>4. items = Asked(t)
  <2>1. CASE source[t] = NULL
    BY <2>1 DEF Asked
  <2>2. CASE source[t] # NULL
    <3>1. m_vecData[source[t]] \in Arrays(Items)
      BY <2>2, Targets
    <3>2. Asked(t) = Contents(m_vecData[source[t]])
      BY <2>2 DEF Asked
    <3>3. length[t] = m_vecData[source[t]].count
      BY <1>3, <3>1, <3>2, ArrayContents
    <3> QED
      BY <2>2, <3>2, <3>3 DEF Contents
  <2> QED
    BY <2>1, <2>2
<1> HIDE DEF items
<1>5. w \in Arrays(Items) /\ Contents(w) = Contents(v) /\ Copied(w, Asked(t))
  <2> HIDE DEF v
  <2> QED
    BY <1>3, <1>4, AppendedArray
<1> HIDE DEF w
<1>6. "count" \in Appending
  BY DEF Appending
<1>7. /\ TypeOK' /\ \A u \in Threads : u # t => UnchangedFor(u)
      /\ Asked(t)' = Asked(t)
      /\ m_vecAppendList'[target[t]] = w
  BY <1>1, <1>2, <1>5, <1>6, BufferStep
<1>8. ThreadInv(t)'
  <2>1. /\ pc'[t] = "count"
        /\ target'[t] = target[t] /\ source'[t] = source[t] /\ batch'[t] = batch[t]
        /\ length'[t] = length[t]
        /\ UNCHANGED <<m_pLock, holder>>
    BY <1>1 DEF Goto, callVars, Inv, TypeOK
  <2>2. LockInv(t)' /\ OwnerInv(t)' /\ FlushInv(t)'
    BY <1>1, <1>2, <2>1 DEF Inv, ThreadInv, LockInv, OwnerInv, FlushInv, Flushing, Emptying
  <2>3. AppendInv(t)'
    BY <1>3, <1>5, <1>7, <2>1 DEF AppendInv
  <2> QED
    BY <2>2, <2>3 DEF ThreadInv
<1> QED
  BY <1>5, <1>7, <1>8

\* A call that returns leaves the lock, which only it held, and nothing else.
LEMMA ReturnStep ==
  ASSUME Inv, NEW t \in Threads, Return(t), pc[t] # "idle",
         pc[t] \in Locked \/ holder[m_pLock[target[t]]] = NULL,
         UNCHANGED <<m_pLock, m_vecData, made>>,
         NEW w \in Arrays(Items), m_vecAppendList' = [m_vecAppendList EXCEPT ![target[t]] = w],
         pc[t] \in Locked \/ w = m_vecAppendList[target[t]]
  PROVE  TypeOK' /\ ThreadInv(t)' /\ \A u \in Threads : u # t => UnchangedFor(u)
<1> DEFINE m == m_pLock[target[t]]
<1>1. /\ holder' = [holder EXCEPT ![m] = NULL]
      /\ pc' = [pc EXCEPT ![t] = "idle"]
      /\ target' = [target EXCEPT ![t] = NULL]
      /\ batch' = [batch EXCEPT ![t] = <<>>]
      /\ source' = [source EXCEPT ![t] = NULL]
      /\ length' = [length EXCEPT ![t] = 0]
  BY DEF Return, Release, Goto
<1>2. m \in Mutexes /\ target[t] \in Lists
  BY Targets
<1> HIDE DEF m
<1>3. TypeOK'
  BY <1>1, <1>2, EmptySeq DEF Inv, TypeOK
<1>4. ThreadInv(t)'
  BY <1>1 DEF Inv, TypeOK, ThreadInv, LockInv, OwnerInv, AppendInv, FlushInv, Locked, Copying,
              Emptying, Flushing
<1>5. ASSUME NEW u \in Threads, u # t
      PROVE  UnchangedFor(u)
  <2>1. pc[u] \in Locked => /\ holder[m_pLock[target[u]]] = u
                            /\ u # NULL
                            /\ pc[t] \in Locked => holder[m] = t
                            /\ pc[u] # "idle"
    BY NullAssumption DEF m, Inv, ThreadInv, LockInv, Locked, Copying, Emptying
  <2>2. pc[u] \in Locked => m_pLock[target[u]] # m
    BY <1>5, <2>1 DEF m
  <2>3. pc[u] \in Locked => /\ m_pLock[target[u]] \in Mutexes
                            /\ target[u] # target[t]
    BY <2>1, <2>2, Targets DEF m
  <2> QED
    BY <1>1, <1>5, <2>1, <2>2, <2>3 DEF UnchangedFor, Inv, TypeOK
<1> QED
  BY <1>3, <1>4, <1>5

LEMMA CountInv ==
  ASSUME Inv, NEW t \in Threads, Count(t)
  PROVE  /\ TypeOK' /\ ThreadInv(t)' /\ \A u \in Threads : u # t => UnchangedFor(u)
         /\ Contents(m_vecAppendList'[target[t]]) =
              Contents(m_vecAppendList[target[t]]) \o Asked(t)
<1> DEFINE v == m_vecAppendList[target[t]]
           w == Counted(v, length[t])
<1>1. /\ pc[t] = "count"
      /\ m_vecAppendList' = [m_vecAppendList EXCEPT ![target[t]] = w]
      /\ Return(t)
      /\ UNCHANGED <<m_pLock, m_vecData, made>>
  BY DEF Count
<1>2. pc[t] \in Locked /\ pc[t] \in Copying /\ pc[t] # "idle"
  BY <1>1 DEF Locked, Copying
<1>3. /\ v \in Arrays(Items)
      /\ target[t] \in Lists
      /\ Asked(t) \in Seq(Items)
      /\ length[t] = Len(Asked(t))
      /\ Copied(v, Asked(t))
  BY <1>1, <1>2, Targets DEF Inv, ThreadInv, AppendInv
<1>4. w \in Arrays(Items) /\ Contents(w) = Contents(v) \o Asked(t)
  <2> HIDE DEF v
  <2> QED
    BY <1>3, CountedArray
<1> HIDE DEF w
<1>5. TypeOK' /\ ThreadInv(t)' /\ \A u \in Threads : u # t => UnchangedFor(u)
  BY <1>1, <1>2, <1>4, ReturnStep
<1>6. m_vecAppendList'[target[t]] = w
  BY <1>1, <1>3 DEF Inv, TypeOK
<1> QED
  BY <1>4, <1>5, <1>6

-------------------------------------------------------------------------------
(* Steps of a flush. *)

LEMMA FlushNothingInv ==
  ASSUME Inv, NEW t \in Threads, FlushNothing(t)
  PROVE  TypeOK' /\ ThreadInv(t)' /\ \A u \in Threads : u # t => UnchangedFor(u)
<1> DEFINE v == m_vecAppendList[target[t]]
<1>1. /\ pc[t] = "flush"
      /\ holder[m_pLock[target[t]]] = NULL
      /\ Return(t)
      /\ UNCHANGED <<m_pLock, m_vecData, m_vecAppendList, made>>
  BY DEF FlushNothing
<1>2. v \in Arrays(Items) /\ target[t] \in Lists /\ pc[t] # "idle"
  BY <1>1, Targets
<1>3. m_vecAppendList' = [m_vecAppendList EXCEPT ![target[t]] = v]
  BY <1>1, <1>2 DEF Inv, TypeOK
<1> QED
  BY <1>1, <1>2, <1>3, ReturnStep

LEMMA LockToFlushInv ==
  ASSUME Inv, NEW t \in Threads, LockToFlush(t)
  PROVE  TypeOK' /\ ThreadInv(t)' /\ \A u \in Threads : u # t => UnchangedFor(u)
<1> DEFINE m == m_pLock[target[t]]
           n == m_vecAppendList[target[t]].count
<1>1. /\ pc[t] = "flush"
      /\ holder[m] = NULL
      /\ holder' = [holder EXCEPT ![m] = t]
      /\ pc' = [pc EXCEPT ![t] = "flushgrow"]
      /\ length' = [length EXCEPT ![t] = n]
      /\ UNCHANGED <<m_pLock, m_vecData, m_vecAppendList, target, batch, source, made>>
  BY DEF LockToFlush, Acquire, Goto, callVars
<1>2. m \in Mutexes /\ n \in Nat
  <2>1. m \in Mutexes /\ m_vecAppendList[target[t]] \in Arrays(Items)
    BY <1>1, Targets
  <2>2. n \in 0..Capacity(m_vecAppendList[target[t]])
    BY <2>1, ArrayParts
  <2> QED
    BY <2>1, <2>2
<1> HIDE DEF m
<1>3. TypeOK'
  <2> HIDE DEF n
  <2> QED
    BY <1>1, <1>2 DEF Inv, TypeOK, Appending, Flushing
<1>4. ThreadInv(t)'
  <2>1. LockInv(t)'
    BY <1>1, <1>2 DEF m, Inv, TypeOK, LockInv
  <2>2. OwnerInv(t)' /\ AppendInv(t)'
    BY <1>1 DEF Inv, TypeOK, ThreadInv, OwnerInv, AppendInv, Flushing, Copying
  <2>3. FlushInv(t)'
    BY <1>1 DEF Inv, TypeOK, FlushInv, Emptying
  <2> QED
    BY <2>1, <2>2, <2>3 DEF ThreadInv
<1>5. ASSUME NEW u \in Threads, u # t
      PROVE  UnchangedFor(u)
  <2>1. pc[u] \in Locked => holder[m_pLock[target[u]]] = u /\ u # NULL
    BY NullAssumption DEF Inv, ThreadInv, LockInv
  <2> QED
    BY <1>1, <1>5, <2>1 DEF m, UnchangedFor, Inv, TypeOK
<1> QED
  BY <1>3, <1>4, <1>5

\* A step of a flush that changes the list itself concerns no other thread.
LEMMA ListStep ==
  ASSUME Inv, NEW t \in Threads, pc[t] \in Emptying, NEW w \in Arrays(Items),
         NEW way \in Flushing,
         m_vecData' = [m_vecData EXCEPT ![target[t]] = w],
         Goto(t, way),
         UNCHANGED <<m_pLock, holder, m_vecAppendList, callVars, length, made>>
  PROVE  /\ TypeOK' /\ \A u \in Threads : u # t => UnchangedFor(u)
         /\ LockInv(t)' /\ OwnerInv(t)'
         /\ way \notin Copying => AppendInv(t)'
         /\ m_vecData'[target[t]] = w
<1>1. /\ pc' = [pc EXCEPT ![t] = way]
      /\ UNCHANGED <<target, batch, source>>
      /\ UNCHANGED <<m_pLock, holder, m_vecAppendList, length, made>>
  BY DEF Goto, callVars
<1>2. /\ pc[t] # "idle" /\ pc[t] # "flush"
      /\ pc[t] \in Flushing /\ pc[t] \in Locked
      /\ pc[t] \notin {"array", "grow", "copy", "count"}
  BY DEF Emptying, Flushing, Locked
<1>3. target[t] \in Lists
  BY <1>2, Targets
<1>4. TypeOK'
  BY <1>1, <1>2, <1>3 DEF Inv, TypeOK, Flushing
<1>5. ASSUME NEW u \in Threads, u # t
      PROVE  UnchangedFor(u)
  <2>1. /\ pc[u] \in Flushing => target[u] # target[t]
        /\ source[u] # NULL => source[u] # target[t]
    BY <1>2, <1>5, OwnersDiffer
  <2>2. pc[u] \in Locked => holder[m_pLock[target[u]]] = u
    BY DEF Inv, ThreadInv, LockInv
  <2> QED
    BY <1>1, <1>5, <2>1, <2>2 DEF UnchangedFor, Inv, TypeOK
<1>6. LockInv(t)' /\ OwnerInv(t)'
  BY <1>1, <1>2 DEF Inv, TypeOK, ThreadInv, LockInv, OwnerInv, Flushing
<1>7. way \notin Copying => AppendInv(t)'
  BY <1>1 DEF Inv, TypeOK, AppendInv, Copying
<1> QED
  BY <1>1, <1>3, <1>4, <1>5, <1>6, <1>7 DEF Inv, TypeOK

LEMMA FlushGrowInv ==
  ASSUME Inv, NEW t \in Threads, FlushGrow(t)
  PROVE  /\ TypeOK' /\ ThreadInv(t)' /\ \A u \in Threads : u # t => UnchangedFor(u)
         /\ Contents(m_vecData'[target[t]]) = Contents(m_vecData[target[t]])
<1> DEFINE v == m_vecData[target[t]]
           w == RoomFor(v, length[t])
<1>1. /\ pc[t] = "flushgrow"
      /\ m_vecData' = [m_vecData EXCEPT ![target[t]] = w]
      /\ Goto(t, "flushcopy")
      /\ UNCHANGED <<m_pLock, holder, m_vecAppendList, callVars, length, made>>
  BY DEF FlushGrow
<1>2. pc[t] \in Emptying /\ "flushcopy" \in Flushing /\ "flushcopy" \notin Copying
  BY <1>1 DEF Emptying, Flushing, Copying
<1>3. v \in Arrays(Items) /\ length[t] \in Nat
  BY <1>1, Targets
<1>4. /\ w \in Arrays(Items)
      /\ w.count + length[t] <= Capacity(w)
      /\ Contents(w) = Contents(v)
  <2> HIDE DEF v
  <2> QED
    BY <1>3, RoomForArray
<1> HIDE DEF w
<1>5. /\ TypeOK' /\ \A u \in Threads : u # t => UnchangedFor(u)
      /\ LockInv(t)' /\ OwnerInv(t)' /\ AppendInv(t)'
      /\ m_vecData'[target[t]] = w
  BY <1>1, <1>2, <1>4, ListStep
<1>6. FlushInv(t)'
  <2>1. /\ pc'[t] = "flushcopy"
        /\ target'[t] = target[t] /\ length'[t] = length[t]
        /\ UNCHANGED m_vecAppendList
    BY <1>1 DEF Goto, callVars, Inv, TypeOK
  <2> QED
    BY <1>2, <1>4, <1>5, <2>1 DEF Inv, ThreadInv, FlushInv
<1> QED
  BY <1>4, <1>5, <1>6 DEF ThreadInv

LEMMA FlushCopyInv ==
  ASSUME Inv, NEW t \in Threads, FlushCopy(t)
  PROVE  /\ TypeOK' /\ ThreadInv(t)' /\ \A u \in Threads : u # t => UnchangedFor(u)
         /\ Contents(m_vecData'[target[t]]) = Contents(m_vecData[target[t]])
<1> DEFINE v == m_vecData[target[t]]
           items == SubSeq(m_vecAppendList[target[t]].mem, 1, length[t])
           w == Appended(v, items)
<1>1. /\ pc[t] = "flushcopy"
      /\ m_vecData' = [m_vecData EXCEPT ![target[t]] = w]
      /\ Goto(t, "flushcount")
      /\ UNCHANGED <<m_pLock, holder, m_vecAppendList, callVars, length, made>>
  BY DEF FlushCopy
<1>2. pc[t] \in Emptying /\ "flushcount" \in Flushing /\ "flushcount" \notin Copying
  BY <1>1 DEF Emptying, Flushing, Copying
<1>3. /\ v \in Arrays(Items)
      /\ m_vecAppendList[target[t]] \in Arrays(Items)
      /\ length[t] = m_vecAppendList[target[t]].count
      /\ v.count + length[t] <= Capacity(v)
  BY <1>1, <1>2, Targets DEF Inv, ThreadInv, FlushInv
<1>4. items = Contents(m_vecAppendList[target[t]])
  BY <1>3 DEF Contents
<1>5. items \in Seq(Items) /\ Len(items) = length[t]
  BY <1>3, <1>4, ArrayContents
<1> HIDE DEF items
<1>6. w \in Arrays(Items) /\ Contents(w) = Contents(v) /\ Copied(w, items)
  <2> HIDE DEF v
  <2> QED
    BY <1>3, <1>5, AppendedArray
<1> HIDE DEF w
<1>7. /\ TypeOK' /\ \A u \in Threads : u # t => UnchangedFor(u)
      /\ LockInv(t)' /\ OwnerInv(t)' /\ AppendInv(t)'
      /\ m_vecData'[target[t]] = w
  BY <1>1, <1>2, <1>6, ListStep
<1>8. FlushInv(t)'
  <2>1. /\ pc'[t] = "flushcount"
        /\ target'[t] = target[t] /\ length'[t] = length[t]
        /\ UNCHANGED m_vecAppendList
    BY <1>1 DEF Goto, callVars, Inv, TypeOK
  <2> QED
    BY <1>3, <1>4, <1>6, <1>7, <2>1 DEF FlushInv
<1> QED
  BY <1>6, <1>7, <1>8 DEF ThreadInv

LEMMA FlushCountInv ==
  ASSUME Inv, NEW t \in Threads, FlushCount(t)
  PROVE  /\ TypeOK' /\ ThreadInv(t)' /\ \A u \in Threads : u # t => UnchangedFor(u)
         /\ Contents(m_vecData'[target[t]]) =
              Contents(m_vecData[target[t]]) \o Contents(m_vecAppendList[target[t]])
<1> DEFINE v == m_vecData[target[t]]
           items == Contents(m_vecAppendList[target[t]])
           w == Counted(v, length[t])
<1>1. /\ pc[t] = "flushcount"
      /\ m_vecData' = [m_vecData EXCEPT ![target[t]] = w]
      /\ Goto(t, "trunc")
      /\ UNCHANGED <<m_pLock, holder, m_vecAppendList, callVars, length, made>>
  BY DEF FlushCount
<1>2. pc[t] \in Emptying /\ "trunc" \in Flushing /\ "trunc" \notin Copying
  BY <1>1 DEF Emptying, Flushing, Copying
<1>3. /\ v \in Arrays(Items)
      /\ m_vecAppendList[target[t]] \in Arrays(Items)
      /\ length[t] = m_vecAppendList[target[t]].count
      /\ Copied(v, items)
  BY <1>1, <1>2, Targets DEF Inv, ThreadInv, FlushInv
<1>4. items \in Seq(Items) /\ Len(items) = length[t]
  BY <1>3, ArrayContents
<1> HIDE DEF items
<1>5. w \in Arrays(Items) /\ Contents(w) = Contents(v) \o items
  <2> HIDE DEF v
  <2> QED
    BY <1>3, <1>4, CountedArray
<1> HIDE DEF w
<1>6. /\ TypeOK' /\ \A u \in Threads : u # t => UnchangedFor(u)
      /\ LockInv(t)' /\ OwnerInv(t)' /\ AppendInv(t)'
      /\ m_vecData'[target[t]] = w
  BY <1>1, <1>2, <1>5, ListStep
<1>7. FlushInv(t)'
  BY <1>1 DEF Goto, Inv, TypeOK, FlushInv, Emptying
<1> QED
  BY <1>5, <1>6, <1>7 DEF ThreadInv, items

LEMMA TruncInv ==
  ASSUME Inv, NEW t \in Threads, Trunc(t)
  PROVE  /\ TypeOK' /\ ThreadInv(t)' /\ \A u \in Threads : u # t => UnchangedFor(u)
         /\ Contents(m_vecAppendList'[target[t]]) = <<>>
<1> DEFINE v == m_vecAppendList[target[t]]
           w == Truncated(v, 0)
<1>1. /\ pc[t] = "trunc"
      /\ m_vecAppendList' = [m_vecAppendList EXCEPT ![target[t]] = w]
      /\ Return(t)
      /\ UNCHANGED <<m_pLock, m_vecData, made>>
  BY DEF Trunc
<1>2. pc[t] \in Locked /\ pc[t] # "idle"
  BY <1>1 DEF Locked
<1>3. v \in Arrays(Items) /\ target[t] \in Lists
  BY <1>1, Targets
<1>4. w \in Arrays(Items) /\ w.count = 0
  <2>1. v.count \in 0..Capacity(v) /\ Capacity(v) \in Nat
    BY <1>3, ArrayParts
  <2>2. 0 \in 0..v.count
    BY <2>1
  <2> HIDE DEF v
  <2> QED
    BY <1>3, <2>2, TruncatedArray
<1> HIDE DEF w
<1>5. Contents(w) = <<>>
  <2>1. Contents(w) \in Seq(Items) /\ Len(Contents(w)) = 0
    BY <1>4, ArrayContents
  <2> QED
    BY <2>1, EmptySeq
<1>6. TypeOK' /\ ThreadInv(t)' /\ \A u \in Threads : u # t => UnchangedFor(u)
  BY <1>1, <1>2, <1>4, ReturnStep
<1>7. m_vecAppendList'[target[t]] = w
  BY <1>1, <1>3 DEF Inv, TypeOK
<1> QED
  BY <1>5, <1>6, <1>7

-------------------------------------------------------------------------------
(* The owner's own operations, and the invariant. *)

\* What an idle owner does to its list concerns no thread.
LEMMA OwnerStep ==
  ASSUME Inv, NEW l \in Lists, pc[Owner[l]] = "idle", NEW w \in Arrays(Items),
         m_vecData' = [m_vecData EXCEPT ![l] = w],
         UNCHANGED <<m_pLock, holder, m_vecAppendList, pc, callVars, length, made>>
  PROVE  Inv' /\ \A u \in Threads : UnchangedFor(u)
<1>1. TypeOK'
  BY DEF Inv, TypeOK, callVars
<1>2. ASSUME NEW u \in Threads
      PROVE  UnchangedFor(u)
  <2>1. /\ pc[u] \in Flushing => target[u] # l
        /\ source[u] # NULL => source[u] # l
    BY DEF Inv, ThreadInv, OwnerInv, Flushing
  <2>2. pc[u] \in Locked => holder[m_pLock[target[u]]] = u
    BY DEF Inv, ThreadInv, LockInv
  <2> QED
    BY <2>1, <2>2 DEF UnchangedFor, callVars, Inv, TypeOK
<1> QED
  BY <1>1, <1>2, KeptForOther DEF Inv

LEMMA RemoveInv ==
  ASSUME Inv, NEW l \in Lists, NEW index \in Nat, NEW n \in Nat, Remove(l, index, n)
  PROVE  /\ Inv' /\ \A u \in Threads : UnchangedFor(u)
         /\ index + n <= Len(Ready[l])
         /\ Ready' = [Ready EXCEPT ![l] =
                        SubSeq(Ready[l], 1, index) \o SubSeq(Ready[l], index + n + 1, Len(Ready[l]))]
<1> DEFINE v == m_vecData[l]
           w == Removed(v, index, n)
<1>1. /\ pc[Owner[l]] = "idle"
      /\ index + n <= v.count
      /\ m_vecData' = [m_vecData EXCEPT ![l] = w]
      /\ UNCHANGED <<m_pLock, holder, m_vecAppendList, pc, callVars, length, made>>
  BY DEF Remove
<1>2. v \in Arrays(Items) /\ m_vecData \in [Lists -> Arrays(Items)]
  BY DEF Inv, TypeOK
<1>3. /\ w \in Arrays(Items)
      /\ Contents(w) = SubSeq(Contents(v), 1, index)
                         \o SubSeq(Contents(v), index + n + 1, Len(Contents(v)))
      /\ Len(Contents(v)) = v.count
  <2> HIDE DEF v
  <2> QED
    BY <1>1, <1>2, RemovedArray, ArrayContents
<1> HIDE DEF w
<1>4. Inv' /\ \A u \in Threads : UnchangedFor(u)
  BY <1>1, <1>3, OwnerStep
<1>5. Ready[l] = Contents(v)
  BY DEF Ready
<1>6. Ready' = [Ready EXCEPT ![l] = Contents(w)]
  BY <1>1, <1>2 DEF Ready
<1> QED
  BY <1>1, <1>3, <1>4, <1>5, <1>6

LEMMA TruncListInv ==
  ASSUME Inv, NEW l \in Lists, NEW n \in Nat, TruncList(l, n)
  PROVE  /\ Inv' /\ \A u \in Threads : UnchangedFor(u)
         /\ n <= Len(Ready[l])
         /\ Ready' = [Ready EXCEPT ![l] =
                        SubSeq(Ready[l], 1, n) \o SubSeq(Ready[l], Len(Ready[l]) + 1, Len(Ready[l]))]
<1> DEFINE v == m_vecData[l]
           w == Truncated(v, n)
<1>1. /\ pc[Owner[l]] = "idle"
      /\ n < v.count
      /\ m_vecData' = [m_vecData EXCEPT ![l] = w]
      /\ UNCHANGED <<m_pLock, holder, m_vecAppendList, pc, callVars, length, made>>
  BY DEF TruncList
<1>2. v \in Arrays(Items) /\ m_vecData \in [Lists -> Arrays(Items)]
  BY DEF Inv, TypeOK
<1>3. n \in 0..v.count
  <2>1. v.count \in 0..Capacity(v) /\ Capacity(v) \in Nat
    BY <1>2, ArrayParts
  <2> QED
    BY <1>1, <2>1
<1>4. /\ w \in Arrays(Items)
      /\ Contents(w) = SubSeq(Contents(v), 1, n)
                         \o SubSeq(Contents(v), v.count + 1, Len(Contents(v)))
      /\ Len(Contents(v)) = v.count
  <2> HIDE DEF v
  <2> QED
    BY <1>2, <1>3, TruncatedArray, TruncatedContents, ArrayContents
<1> HIDE DEF w
<1>5. Inv' /\ \A u \in Threads : UnchangedFor(u)
  BY <1>1, <1>4, OwnerStep
<1>6. Ready[l] = Contents(v)
  BY DEF Ready
<1>7. Ready' = [Ready EXCEPT ![l] = Contents(w)]
  BY <1>1, <1>2 DEF Ready
<1>8. v.count = Len(Ready[l]) /\ n <= Len(Ready[l])
  BY <1>3, <1>4, <1>6
<1>9. Contents(w) =
        SubSeq(Ready[l], 1, n) \o SubSeq(Ready[l], Len(Ready[l]) + 1, Len(Ready[l]))
  BY <1>4, <1>6, <1>8
<1> QED
  BY <1>5, <1>7, <1>8, <1>9

LEMMA SetLockInv ==
  ASSUME Inv, NEW l \in Lists, NEW m \in Mutexes, SetLock(l, m)
  PROVE  Inv' /\ \A u \in Threads : UnchangedFor(u)
<1>1. /\ m_pLock' = [m_pLock EXCEPT ![l] = m]
      /\ UNCHANGED <<holder, m_vecData, m_vecAppendList, pc, target, batch, source, length, made>>
  BY DEF SetLock, callVars
<1>2. TypeOK'
  BY <1>1 DEF Inv, TypeOK
<1>3. ASSUME NEW u \in Threads
      PROVE  UnchangedFor(u)
  <2>1. target[u] # l
    BY DEF SetLock
  <2>2. pc[u] \in Locked => holder[m_pLock[target[u]]] = u
    BY DEF Inv, ThreadInv, LockInv
  <2> QED
    BY <1>1, <2>1, <2>2 DEF UnchangedFor, Inv, TypeOK
<1> QED
  BY <1>2, <1>3, KeptForOther DEF Inv

LEMMA StepInv ==
  ASSUME Inv, NEW t \in Threads, Step(t)
  PROVE  Inv' /\ \A u \in Threads : u # t => UnchangedFor(u)
<1>1. TypeOK' /\ ThreadInv(t)' /\ \A u \in Threads : u # t => UnchangedFor(u)
  BY LockToAppendInv, GrowInv, CopyInv, CountInv, FlushNothingInv, LockToFlushInv, FlushGrowInv,
     FlushCopyInv, FlushCountInv, TruncInv DEF Step
<1> QED
  BY <1>1, KeptForOther DEF Inv

LEMMA NextInv == Inv /\ [Next]_vars => Inv'
<1> SUFFICES ASSUME Inv, [Next]_vars PROVE Inv'
  OBVIOUS
<1>1. ASSUME NEW t \in Threads, Operation(t)
      PROVE  Inv'
  BY <1>1, OperationInv
<1>2. ASSUME NEW t \in Threads, Step(t)
      PROVE  Inv'
  BY <1>2, StepInv
<1>3. ASSUME NEW l \in Lists, NEW index \in 0..MaxLength, NEW n \in 1..MaxLength,
             Remove(l, index, n)
      PROVE  Inv'
  <2>1. index \in Nat /\ n \in Nat
    BY BoundsAssumption
  <2> QED
    BY <1>3, <2>1, RemoveInv
<1>4. ASSUME NEW l \in Lists, NEW n \in 0..MaxLength, TruncList(l, n)
      PROVE  Inv'
  <2>1. n \in Nat
    BY BoundsAssumption
  <2> QED
    BY <1>4, <2>1, TruncListInv
<1>5. ASSUME NEW l \in Lists, NEW m \in Mutexes, SetLock(l, m)
      PROVE  Inv'
  BY <1>5, SetLockInv
<1>6. CASE UNCHANGED vars
  <2>1. \A u \in Threads : UnchangedFor(u)
    BY <1>6 DEF vars, callVars, UnchangedFor, Inv, ThreadInv, LockInv
  <2>2. TypeOK'
    BY <1>6 DEF vars, callVars, Inv, TypeOK
  <2> QED
    BY <2>1, <2>2, KeptForOther DEF Inv
<1> QED
  BY <1>1, <1>2, <1>3, <1>4, <1>5, <1>6 DEF Next

\* The inductive invariant: the mutex of a list is held by the one thread that
\* appends to its buffer or flushes it, the list a thread reads or flushes is its
\* own, and what a call has prepared in either vector is still there when it is
\* counted.
THEOREM Invariant == Spec => []Inv
<1> QED
  BY InitInv, NextInv, PTL DEF Spec

\* Every variable keeps its type; a vector never counts more than it has room
\* for, nor anything that was not appended.
THEOREM TypeCorrect == Spec => []TypeOK
<1>1. Inv => TypeOK
  BY DEF Inv
<1> QED
  BY <1>1, Invariant, PTL

\* The memcpy of AppendArray and of Flush stays inside the memory that was made
\* room for, however the appends of other threads are interleaved with it.
THEOREM CopiesInBounds == Spec => []InBounds
<1>1. Inv => InBounds
  BY DEF Inv, ThreadInv, AppendInv, FlushInv, InBounds
<1> QED
  BY <1>1, Invariant, PTL

-------------------------------------------------------------------------------
(* The refinement: what each step is to a BatchQueue. *)

TruncOf(l) == \E t \in Threads : target[t] = l /\ pc[t] = "trunc"

\* Nobody truncates the buffer that a thread inside the lock has called.
LEMMA NoOtherTrunc ==
  ASSUME Inv, NEW t \in Threads, pc[t] \in Locked, pc[t] # "trunc"
  PROVE  ~TruncOf(target[t])
BY Exclusion DEF TruncOf, Locked

\* The requests of the threads that do not act stay.
LEMMA RequestsOfOthers ==
  ASSUME Inv, NEW u \in Threads, UnchangedFor(u)
  PROVE  Request'[u] = Request[u]
<1>1. Asked(u)' = Asked(u)
  BY KeptForOther
<1> QED
  BY <1>1 DEF Request, UnchangedFor

LEMMA RequestsKept ==
  ASSUME Inv, NEW t \in Threads, \A u \in Threads : u # t => UnchangedFor(u),
         (pc'[t] \in Appending) = (pc[t] \in Appending),
         pc[t] \in Appending => target'[t] = target[t] /\ Asked(t)' = Asked(t)
  PROVE  Request' = Request
<1>1. \A u \in Threads : u # t => Request'[u] = Request[u]
  BY RequestsOfOthers
<1>2. Request'[t] = Request[t]
  BY DEF Request
<1>3. \A u \in Threads : Request'[u] = Request[u]
  BY <1>1, <1>2
<1> QED
  BY <1>3 DEF Request

\* What is queued stays while no thread begins or ends to truncate.
LEMMA QueuedKept ==
  ASSUME Inv, NEW t \in Threads, \A u \in Threads : u # t => UnchangedFor(u),
         pc[t] # "trunc", pc'[t] # "trunc",
         \A l \in Lists : Contents(m_vecAppendList'[l]) = Contents(m_vecAppendList[l])
  PROVE  Queued' = Queued
<1>1. \A l \in Lists : TruncOf(l)' <=> TruncOf(l)
  BY DEF TruncOf, UnchangedFor
<1> QED
  BY <1>1 DEF Queued, TruncOf

LEMMA ReadyKept ==
  ASSUME \A l \in Lists : Contents(m_vecData'[l]) = Contents(m_vecData[l])
  PROVE  Ready' = Ready
BY DEF Ready

\* A call that appends asks for its batch.
LEMMA OperationRefines ==
  ASSUME Inv, NEW t \in Threads, Operation(t)
  PROVE  Queue!Ask(t) \/ UNCHANGED Queue!vars
<1>1. /\ Inv'
      /\ \A u \in Threads : u # t => UnchangedFor(u)
      /\ pc[t] = "idle"
      /\ UNCHANGED <<m_vecData, m_vecAppendList>>
      /\ pc'[t] \in {"append", "array", "flush"}
  BY OperationInv
<1>2. Queued' = Queued
  BY <1>1, QueuedKept
<1>3. Ready' = Ready
  BY <1>1, ReadyKept
<1>4. Request[t] = NULL
  BY <1>1 DEF Request, Appending
<1>5. CASE pc'[t] = "flush"
  <2>1. Request' = Request
    BY <1>1, <1>5, RequestsKept DEF Appending
  <2> QED
    BY <1>2, <1>3, <2>1 DEF Queue!vars
<1>6. CASE pc'[t] \in {"append", "array"}
  <2>1. Request'[t] = [queue |-> target'[t], items |-> Asked(t)']
    BY <1>6 DEF Request, Appending
  <2>2. target'[t] \in Lists
    BY <1>1, <1>6 DEF Inv, TypeOK
  <2>3. Asked(t)' \in Seq(Items)
    <3>1. CASE source'[t] = NULL
      BY <1>1, <3>1 DEF Inv, TypeOK, Asked
    <3>2. CASE source'[t] # NULL
      <4>1. m_vecData'[source'[t]] \in Arrays(Items)
        BY <1>1, <3>2 DEF Inv, TypeOK
      <4>2. Contents(m_vecData'[source'[t]]) \in Seq(Items)
        BY <4>1, ArrayContents
      <4> QED
        BY <3>2, <4>2 DEF Asked
    <3> QED
      BY <3>1, <3>2
  <2>4. Request'[t] \in [queue : Lists, items : Seq(Items)]
    BY <2>1, <2>2, <2>3
  <2>5. \A u \in Threads : u # t => Request'[u] = Request[u]
    BY <1>1, RequestsOfOthers
  <2>6. Request' = [Request EXCEPT ![t] = Request'[t]]
    BY <2>5 DEF Request
  <2> QED
    BY <1>2, <1>3, <1>4, <2>4, <2>6 DEF Queue!Ask
<1> QED
  BY <1>1, <1>5, <1>6

\* Counting the items queues the batch.
LEMMA CountRefines ==
  ASSUME Inv, NEW t \in Threads, Count(t)
  PROVE  Queue!Enqueue(t)
<1> DEFINE l == target[t]
           r == [queue |-> l, items |-> Asked(t)]
<1>1. /\ \A u \in Threads : u # t => UnchangedFor(u)
      /\ Contents(m_vecAppendList'[l]) = Contents(m_vecAppendList[l]) \o Asked(t)
  BY CountInv
<1>2. /\ pc[t] = "count" /\ pc'[t] = "idle"
      /\ \A k \in Lists : k # l => m_vecAppendList'[k] = m_vecAppendList[k]
      /\ UNCHANGED m_vecData
  BY DEF Count, Return, Goto, Inv, TypeOK
<1>3. l \in Lists /\ Asked(t) \in Seq(Items)
  BY <1>2, Targets
<1>4. pc[t] \in Locked /\ pc[t] # "trunc" /\ pc[t] \in Appending
  BY <1>2 DEF Locked, Copying, Appending
<1>5. Request[t] = r /\ Request[t] # NULL
  <2>1. Request[t] = r
    BY <1>4 DEF Request
  <2>2. r \in [queue : Lists, items : Seq(Items)]
    BY <1>3
  <2> QED
    BY <2>1, <2>2, NullAssumption
<1>6. ~TruncOf(l)
  BY <1>4, NoOtherTrunc
<1>7. \A k \in Lists : TruncOf(k)' <=> TruncOf(k)
  BY <1>1, <1>2 DEF TruncOf, UnchangedFor
<1>8. Queued' = [Queued EXCEPT ![l] = @ \o Asked(t)]
  <2>1. Queued[l] = Contents(m_vecAppendList[l]) /\ Queued'[l] = Contents(m_vecAppendList'[l])
    BY <1>3, <1>6, <1>7 DEF Queued, TruncOf
  <2>2. \A k \in Lists : k # l => Queued'[k] = Queued[k]
    BY <1>2, <1>7 DEF Queued, TruncOf
  <2>3. DOMAIN Queued = Lists /\ DOMAIN Queued' = Lists
        /\ Queued = [k \in Lists |-> Queued[k]] /\ Queued' = [k \in Lists |-> Queued'[k]]
    BY DEF Queued
  <2> HIDE DEF l
  <2> QED
    BY <1>1, <1>3, <2>1, <2>2, <2>3
<1>9. Request' = [Request EXCEPT ![t] = NULL]
  <2>1. \A u \in Threads : u # t => Request'[u] = Request[u]
    BY <1>1, RequestsOfOthers
  <2>2. Request'[t] = NULL
    BY <1>2 DEF Request, Appending
  <2> QED
    BY <2>1, <2>2 DEF Request
<1>10. Ready' = Ready
  BY <1>2, ReadyKept
<1>11. Request[t].queue = l /\ Request[t].items = Asked(t)
  BY <1>5
<1> QED
  BY <1>5, <1>8, <1>9, <1>10, <1>11 DEF Queue!Enqueue

\* Counting the items of a flush makes them ready, and they cease to be queued.
LEMMA FlushCountRefines ==
  ASSUME Inv, NEW t \in Threads, FlushCount(t)
  PROVE  target[t] \in Lists /\ Queue!Flush(target[t])
<1> DEFINE l == target[t]
<1>1. /\ \A u \in Threads : u # t => UnchangedFor(u)
      /\ Contents(m_vecData'[l]) = Contents(m_vecData[l]) \o Contents(m_vecAppendList[l])
  BY FlushCountInv
<1>2. /\ pc[t] = "flushcount" /\ pc'[t] = "trunc"
      /\ target'[t] = l
      /\ \A k \in Lists : k # l => m_vecData'[k] = m_vecData[k]
      /\ UNCHANGED m_vecAppendList
  BY DEF FlushCount, Goto, callVars, Inv, TypeOK
<1>3. l \in Lists
  BY <1>2, Targets
<1>4. pc[t] \in Locked /\ pc[t] # "trunc" /\ pc[t] \notin Appending /\ pc'[t] \notin Appending
  BY <1>2 DEF Locked, Emptying, Appending
<1>5. ~TruncOf(l) /\ \A k \in Lists : k = l => TruncOf(k)'
  <2>1. \A k \in Lists : k = l => TruncOf(k)'
    BY <1>2 DEF TruncOf
  <2> QED
    BY <1>4, <2>1, NoOtherTrunc
<1>6. \A k \in Lists : k # l => (TruncOf(k)' <=> TruncOf(k))
  BY <1>1, <1>2 DEF TruncOf, UnchangedFor
<1>7. Queued[l] = Contents(m_vecAppendList[l]) /\ Queued'[l] = <<>>
  <2>1. /\ \A k \in Lists : Queued[k] = IF TruncOf(k) THEN <<>> ELSE Contents(m_vecAppendList[k])
        /\ \A k \in Lists : TruncOf(k)' => Queued'[k] = <<>>
    BY Zenon DEF Queued, TruncOf
  <2> HIDE DEF l
  <2> QED
    BY <1>3, <1>5, <2>1
<1>8. \A k \in Lists : k # l => Queued'[k] = Queued[k]
  BY <1>2, <1>6 DEF Queued, TruncOf
<1>9. Request' = Request
  BY <1>1, <1>4, RequestsKept
<1>10. /\ Queued = [k \in Lists |-> Queued[k]] /\ Queued' = [k \in Lists |-> Queued'[k]]
       /\ Ready = [k \in Lists |-> Ready[k]] /\ Ready' = [k \in Lists |-> Ready'[k]]
  BY DEF Queued, Ready
<1>11. Ready'[l] = Ready[l] \o Queued[l] /\ \A k \in Lists : k # l => Ready'[k] = Ready[k]
  BY <1>1, <1>2, <1>3, <1>7 DEF Ready
<1> HIDE DEF l
<1>12. Ready' = [Ready EXCEPT ![l] = Ready[l] \o Queued[l]]
  BY <1>3, <1>10, <1>11
<1>13. Queued' = [Queued EXCEPT ![l] = <<>>]
  BY <1>3, <1>7, <1>8, <1>10
<1> QED
  BY <1>3, <1>9, <1>12, <1>13 DEF l, Queue!Flush

\* The other steps leave requests, queued and ready items as they are.
LEMMA AppendingStutters ==
  ASSUME Inv, NEW t \in Threads, LockToAppend(t) \/ Grow(t) \/ Copy(t)
  PROVE  UNCHANGED Queue!vars
<1>1. /\ \A u \in Threads : u # t => UnchangedFor(u)
      /\ Asked(t)' = Asked(t)
      /\ Contents(m_vecAppendList'[target[t]]) = Contents(m_vecAppendList[target[t]])
  BY LockToAppendInv, GrowInv, CopyInv DEF LockToAppend, callVars, Asked
<1>2. /\ pc[t] \in Appending /\ pc'[t] \in Appending
      /\ target'[t] = target[t]
      /\ \A k \in Lists : k # target[t] => m_vecAppendList'[k] = m_vecAppendList[k]
      /\ UNCHANGED m_vecData
  BY DEF LockToAppend, Grow, Copy, Goto, callVars, Appending, Inv, TypeOK
<1>3. Request' = Request
  BY <1>1, <1>2, RequestsKept
<1>4. Queued' = Queued
  <2>1. pc[t] # "trunc" /\ pc'[t] # "trunc"
    BY <1>2 DEF Appending
  <2>2. \A k \in Lists : Contents(m_vecAppendList'[k]) = Contents(m_vecAppendList[k])
    BY <1>1, <1>2
  <2> QED
    BY <1>1, <2>1, <2>2, QueuedKept
<1>5. Ready' = Ready
  BY <1>2, ReadyKept
<1> QED
  BY <1>3, <1>4, <1>5 DEF Queue!vars

LEMMA FlushingStutters ==
  ASSUME Inv, NEW t \in Threads,
         FlushNothing(t) \/ LockToFlush(t) \/ FlushGrow(t) \/ FlushCopy(t)
  PROVE  UNCHANGED Queue!vars
<1>1. /\ \A u \in Threads : u # t => UnchangedFor(u)
      /\ Contents(m_vecData'[target[t]]) = Contents(m_vecData[target[t]])
  BY FlushNothingInv, LockToFlushInv, FlushGrowInv, FlushCopyInv DEF FlushNothing, LockToFlush
<1>2. /\ pc[t] \notin Appending /\ pc'[t] \notin Appending
      /\ pc[t] # "trunc" /\ pc'[t] # "trunc"
      /\ \A k \in Lists : k # target[t] => m_vecData'[k] = m_vecData[k]
      /\ UNCHANGED m_vecAppendList
  BY DEF FlushNothing, LockToFlush, FlushGrow, FlushCopy, Return, Goto, callVars, Appending, Inv,
         TypeOK
<1>3. Request' = Request
  BY <1>1, <1>2, RequestsKept
<1>4. Queued' = Queued
  BY <1>1, <1>2, QueuedKept
<1>5. Ready' = Ready
  <2>1. \A k \in Lists : Contents(m_vecData'[k]) = Contents(m_vecData[k])
    BY <1>1, <1>2
  <2> QED
    BY <2>1, ReadyKept
<1> QED
  BY <1>3, <1>4, <1>5 DEF Queue!vars

\* The buffer is emptied after its items have ceased to be queued.
LEMMA TruncStutters ==
  ASSUME Inv, NEW t \in Threads, Trunc(t)
  PROVE  UNCHANGED Queue!vars
<1> DEFINE l == target[t]
<1>1. /\ \A u \in Threads : u # t => UnchangedFor(u)
      /\ Contents(m_vecAppendList'[l]) = <<>>
  BY TruncInv
<1>2. /\ pc[t] = "trunc" /\ pc'[t] = "idle"
      /\ \A k \in Lists : k # l => m_vecAppendList'[k] = m_vecAppendList[k]
      /\ UNCHANGED m_vecData
  BY DEF Trunc, Return, Goto, Inv, TypeOK
<1>3. pc[t] \notin Appending /\ pc'[t] \notin Appending
  BY <1>2 DEF Appending
<1>4. Request' = Request
  BY <1>1, <1>3, RequestsKept
<1>5. TruncOf(l)
  BY <1>2 DEF TruncOf
<1>6. \A k \in Lists : k # l => (TruncOf(k)' <=> TruncOf(k))
  BY <1>1, <1>2 DEF TruncOf, UnchangedFor
<1>7. \A k \in Lists : Queued'[k] = Queued[k]
  BY <1>1, <1>2, <1>5, <1>6 DEF Queued, TruncOf
<1>8. Queued' = Queued
  BY <1>7 DEF Queued
<1>9. Ready' = Ready
  BY <1>2, ReadyKept
<1> QED
  BY <1>4, <1>8, <1>9 DEF Queue!vars

\* What the owner takes out of its list.
LEMMA OwnerRefines ==
  ASSUME Inv, NEW l \in Lists, NEW i \in Nat, NEW j \in Nat, i <= j, j <= Len(Ready[l]),
         Ready' = [Ready EXCEPT ![l] =
                     SubSeq(Ready[l], 1, i) \o SubSeq(Ready[l], j + 1, Len(Ready[l]))],
         UNCHANGED <<pc, target, m_vecAppendList>>,
         \A u \in Threads : UnchangedFor(u)
  PROVE  Queue!Next
<1>1. Request' = Request
  <2>1. \A u \in Threads : Request'[u] = Request[u]
    BY RequestsOfOthers
  <2> QED
    BY <2>1 DEF Request
<1>2. Queued' = Queued
  BY DEF Queued
<1>3. Queue!Take(l, i, j)
  BY <1>1, <1>2 DEF Queue!Take
<1>4. Len(Ready[l]) \in Nat
  <2>1. m_vecData[l] \in Arrays(Items)
    BY DEF Inv, TypeOK
  <2>2. Ready[l] \in Seq(Items)
    BY <2>1, ArrayContents DEF Ready
  <2> QED
    BY <2>2, LenProperties
<1>5. i \in 0..Len(Ready[l]) /\ j \in 0..Len(Ready[l])
  BY <1>4
<1> QED
  BY <1>3, <1>5 DEF Queue!Next

LEMMA NextRefines == Inv /\ [Next]_vars => [Queue!Next]_(Queue!vars)
<1> SUFFICES ASSUME Inv, [Next]_vars PROVE [Queue!Next]_(Queue!vars)
  OBVIOUS
<1>1. ASSUME NEW t \in Threads, Operation(t)
      PROVE  [Queue!Next]_(Queue!vars)
  BY <1>1, OperationRefines DEF Queue!Next
<1>2. ASSUME NEW t \in Threads, Step(t)
      PROVE  [Queue!Next]_(Queue!vars)
  <2>1. CASE Count(t)
    BY <2>1, CountRefines DEF Queue!Next
  <2>2. CASE FlushCount(t)
    BY <2>2, FlushCountRefines DEF Queue!Next
  <2>3. CASE ~Count(t) /\ ~FlushCount(t)
    BY <1>2, <2>3, AppendingStutters, FlushingStutters, TruncStutters DEF Step
  <2> QED
    BY <2>1, <2>2, <2>3
<1>3. ASSUME NEW l \in Lists, NEW index \in 0..MaxLength, NEW n \in 1..MaxLength,
             Remove(l, index, n)
      PROVE  Queue!Next
  <2>1. index \in Nat /\ n \in Nat /\ index + n \in Nat /\ index <= index + n
    BY BoundsAssumption
  <2>2. /\ \A u \in Threads : UnchangedFor(u)
        /\ index + n <= Len(Ready[l])
        /\ Ready' = [Ready EXCEPT ![l] =
                       SubSeq(Ready[l], 1, index)
                         \o SubSeq(Ready[l], index + n + 1, Len(Ready[l]))]
    BY <1>3, <2>1, RemoveInv
  <2>3. UNCHANGED <<pc, target, m_vecAppendList>>
    BY <1>3 DEF Remove, callVars
  <2> QED
    BY <2>1, <2>2, <2>3, OwnerRefines
<1>4. ASSUME NEW l \in Lists, NEW n \in 0..MaxLength, TruncList(l, n)
      PROVE  Queue!Next
  <2>1. n \in Nat
    BY BoundsAssumption
  <2>2. /\ \A u \in Threads : UnchangedFor(u)
        /\ n <= Len(Ready[l])
        /\ Ready' = [Ready EXCEPT ![l] =
                       SubSeq(Ready[l], 1, n)
                         \o SubSeq(Ready[l], Len(Ready[l]) + 1, Len(Ready[l]))]
    BY <1>4, <2>1, TruncListInv
  <2>3. UNCHANGED <<pc, target, m_vecAppendList>>
    BY <1>4 DEF TruncList, callVars
  <2>4. Len(Ready[l]) \in Nat /\ Len(Ready[l]) <= Len(Ready[l])
    <3>1. m_vecData[l] \in Arrays(Items)
      BY DEF Inv, TypeOK
    <3>2. Ready[l] \in Seq(Items)
      BY <3>1, ArrayContents DEF Ready
    <3>3. Len(Ready[l]) \in Nat
      BY <3>2, LenProperties
    <3> QED
      BY <3>3
  <2> QED
    BY <2>1, <2>2, <2>3, <2>4, OwnerRefines
<1>5. ASSUME NEW l \in Lists, NEW m \in Mutexes, SetLock(l, m)
      PROVE  UNCHANGED Queue!vars
  BY <1>5 DEF SetLock, callVars, Queue!vars, Request, Queued, Ready, Asked
<1>6. CASE UNCHANGED vars
  BY <1>6 DEF vars, callVars, Queue!vars, Request, Queued, Ready, Asked
<1> QED
  BY <1>1, <1>2, <1>3, <1>4, <1>5, <1>6 DEF Next

LEMMA InitRefines == Init => Queue!Init
<1> SUFFICES ASSUME Init PROVE Queue!Init
  OBVIOUS
<1>1. Contents(EmptyArray) = <<>>
  BY SubSeqEmpty DEF Contents, EmptyArray
<1>2. Request = [t \in Threads |-> NULL]
  BY DEF Init, Request, Appending
<1>3. Queued = [l \in Lists |-> <<>>] /\ Ready = [l \in Lists |-> <<>>]
  BY <1>1 DEF Init, Queued, Ready
<1> QED
  BY <1>2, <1>3 DEF Queue!Init

\* The queue list is a BatchQueue: a batch is queued whole and in one piece when
\* it is counted, a flush makes all that is queued ready in its order, and the
\* owner takes a run of what is ready.
THEOREM Implements == Spec => ImplementsQueue
<1>1. Init => Queue!Init
  BY InitRefines
<1>2. Inv /\ [Next]_vars => [Queue!Next]_(Queue!vars)
  BY NextRefines
<1> QED
  BY <1>1, <1>2, Invariant, PTL DEF Spec, ImplementsQueue, Queue!Spec
===============================================================================
