------------------------------ MODULE HashTables ------------------------------
(***************************************************************************)
(* ElsaCStrHashTable, which finds a string by three hashes of it and grows *)
(* without moving what it holds, and ElsaCStaticHashTable, of fixed size,  *)
(* which never removes. A string is told apart by its second and third     *)
(* hash, and a node whose first hash is 0 is taken for a free one, even    *)
(* when a string with that hash was put there.                             *)
(***************************************************************************)
EXTENDS Integers, FiniteSets, FiniteSetsExt, Functions

CONSTANTS Keys,          (* strings                                          *)
          Hash1,         (* their first hash                                 *)
          NULL,
          InitSize,      (* m_nInitSize, a power of 2                        *)
          MaxLen,        (* bound on the table                               *)
          Numbers,       (* the keys of the static table                     *)
          MAX_NODE_NUM

VARIABLES node,   (* of the string table: the key a bucket was given        *)
          len,    (* m_nLen                                                 *)
          nFree,  (* m_nFree                                                *)
          puts,   (* how many times each key was put and not removed        *)
          slot,   (* of the static table: the key and value of each bucket  *)
          size,   (* its m_size                                             *)
          latest, (* the value Get should find                              *)
          fellOff (* whether Put ran out of its loop without a result       *)

strVars == <<node, len, nFree, puts>>
staticVars == <<slot, size, latest, fellOff>>
vars == <<strVars, staticVars>>

MAX_SIZE == 2 * MAX_NODE_NUM
Values == {1, 2}

Init == /\ node = [i \in {} |-> NULL] /\ len = 0 /\ nFree = 0 /\ puts = [k \in Keys |-> 0]
        /\ slot = [i \in 0 .. MAX_SIZE - 1 |-> NULL] /\ size = 0
        /\ latest = [n \in Numbers |-> NULL] /\ fellOff = FALSE

(* ---- the string table ------------------------------------------------- *)
IsFree(nodes, i) == nodes[i] = NULL \/ Hash1[nodes[i]] = 0

\* Where k would be if the table had never grown past length n.
Home(k, n) == Hash1[k] % n
\* The first of the buckets in S met from k's own, going round.
FirstFrom(k, n, S) == CHOOSE i \in S : \A j \in S : (i - Home(k, n)) % n <= (j - Home(k, n)) % n

Lengths == {n \in InitSize..len : \E e \in 0..10 : n * 2^e = len}

Mut_GetIndex(k) == IF len = 0 THEN -1
                   ELSE LET near == {Home(k, n) : n \in Lengths}
                            here == {i \in near : node[i] = k}
                        IN IF here # {} THEN Max(here) ELSE -1
\* The bucket of k at each length the table had, longest first, then all of them.
GetIndex(k) ==
  LET near == {n \in Lengths : node[Home(k, n)] = k}
      here == {i \in 0 .. len - 1 : node[i] = k}
  IN CASE near # {} -> Home(k, Max(near))
       [] here # {} -> FirstFrom(k, len, here)
       [] OTHER -> -1

Put(k) ==
  LET grown == IF nFree > 0 THEN len ELSE IF len = 0 THEN InitSize ELSE 2 * len
      nodes == [i \in 0 .. grown - 1 |-> IF i < len THEN node[i] ELSE NULL]
      i == FirstFrom(k, grown, {j \in 0 .. grown - 1 : IsFree(nodes, j)})
  IN /\ grown <= MaxLen /\ puts[k] < 2
     /\ len' = grown
     /\ nFree' = (IF nFree > 0 THEN nFree ELSE grown - len) - 1
     /\ node' = [nodes EXCEPT ![i] = k]
     /\ puts' = [puts EXCEPT ![k] = @ + 1]
     /\ UNCHANGED staticVars

Remove(k) == /\ GetIndex(k) >= 0
             /\ node' = [node EXCEPT ![GetIndex(k)] = NULL]
             /\ nFree' = nFree + 1
             /\ puts' = [puts EXCEPT ![k] = @ - 1]
             /\ UNCHANGED <<len, staticVars>>

Clear == /\ node' = [i \in {} |-> NULL] /\ len' = 0 /\ nFree' = 0
         /\ puts' = [k \in Keys |-> 0]
         /\ UNCHANGED staticVars

(* ---- the static table ------------------------------------------------- *)
\* Where the search for a bucket of S from n's own ends; MAX_SIZE if there is none.
\* GetIndex looks at the bucket before it compares its index with MAX_SIZE.
Probe(n, S) == LET hits == {i \in S : i >= n % MAX_NODE_NUM}
               IN IF hits = {} THEN MAX_SIZE ELSE Min(hits)
Free == {i \in DOMAIN slot : slot[i] = NULL}

StaticIndex(n) ==
  LET i == Probe(n, Free \cup {j \in DOMAIN slot : slot[j] # NULL /\ slot[j].key = n})
  IN IF i = MAX_SIZE \/ i \in Free THEN -1 ELSE i

Mut_StaticPut(n, v) == LET i == Probe(n, Free) IN
  /\ fellOff' = (i = MAX_SIZE)
  /\ slot' = IF i = MAX_SIZE THEN slot ELSE [slot EXCEPT ![i] = [key |-> n, value |-> v]]
  /\ size' = IF i = MAX_SIZE THEN size ELSE size + 1
  /\ latest' = [latest EXCEPT ![n] = IF @ = NULL /\ i < MAX_SIZE THEN v ELSE @]
  /\ UNCHANGED strVars
StaticPut(n, v) ==
  LET i == Probe(n, Free) IN
  /\ size <= MAX_NODE_NUM   \* otherwise null
  /\ fellOff' = (i = MAX_SIZE)
  /\ slot' = IF i = MAX_SIZE THEN slot ELSE [slot EXCEPT ![i] = [key |-> n, value |-> v]]
  /\ size' = IF i = MAX_SIZE THEN size ELSE size + 1
  /\ latest' = [latest EXCEPT ![n] = IF @ = NULL THEN v ELSE @]
  /\ UNCHANGED strVars

Update(n, v) == /\ StaticIndex(n) >= 0
                /\ slot' = [slot EXCEPT ![StaticIndex(n)].value = v]
                /\ latest' = [latest EXCEPT ![n] = v]
                /\ UNCHANGED <<size, fellOff, strVars>>

StaticClear == /\ size > 0
               /\ slot' = [i \in DOMAIN slot |-> NULL] /\ size' = 0
               /\ latest' = [n \in Numbers |-> NULL]
               /\ UNCHANGED <<fellOff, strVars>>

StrNext == Clear \/ \E k \in Keys : Put(k) \/ Remove(k)
StaticNext == StaticClear \/ \E n \in Numbers, v \in Values : StaticPut(n, v) \/ Update(n, v)
Next == StrNext \/ StaticNext

Spec == Init /\ [][Next]_vars


\* Until it refuses a key, the static table finds a bucket for it before its end;
\* Get finds the first value put under a key, or the one it was updated to; and only
\* when the table holds one key more than MAX_NODE_NUM does a search read past it.
StaticFound ==
  /\ ~fellOff
  /\ \A n \in Numbers : IF latest[n] = NULL THEN StaticIndex(n) = -1
                        ELSE StaticIndex(n) >= 0 /\ slot[StaticIndex(n)].value = latest[n]
  /\ size <= MAX_NODE_NUM => \A n \in Numbers : Probe(n, Free) < MAX_SIZE
===============================================================================
