---------------------------- MODULE LinkedListProofs ----------------------------
(***************************************************************************)
(* Proofs about ElsaCBaseLinkedList and ElsaCListIterator, for any lists,  *)
(* nodes and iterators: the lists stay well linked, a list knows all of    *)
(* its iterators, and a walk visits every node that stays, once.           *)
(*                                                                         *)
(* A list is two chains of its nodes, from the first along m_pNext and     *)
(* from the last along m_pPrev; its iterators are a third. That a chain    *)
(* has no cycle and leaves nothing out is said without counting its        *)
(* elements: no proper part of it has the head and what its elements link  *)
(* to. What is proved of chains serves all three.                          *)
(***************************************************************************)
EXTENDS LinkedList, FiniteSetTheorems, TLAPS

-------------------------------------------------------------------------------
(* Chains. *)

\* The elements of C are met from head along link, and back is the way back.
Chain(C, head, link, back) ==
  /\ head \in C \cup {NULL}
  /\ \A x \in C : /\ link[x] \in C \cup {NULL} /\ back[x] \in C \cup {NULL}
                  /\ link[x] # NULL => back[link[x]] = x
                  /\ back[x] # NULL => link[back[x]] = x
                  /\ back[x] = NULL <=> x = head
  /\ \A D \in SUBSET C : head \in D \cup {NULL} /\ Closed(link, D) => D = C

\* What is met along a link is closed under it, and part of what is.
LEMMA AlongClosed ==
  ASSUME NEW C, NULL \notin C, NEW link, \A y \in C : link[y] \in C \cup {NULL},
         NEW x \in C \cup {NULL}
  PROVE  /\ Along(link, x, C) \in SUBSET C
         /\ x \in Along(link, x, C) \cup {NULL}
         /\ Closed(link, Along(link, x, C))
BY DEF Along, Closed

LEMMA AlongLeast ==
  ASSUME NEW C, NEW link, NEW x, NEW D \in SUBSET C, x \in D \cup {NULL}, Closed(link, D)
  PROVE  Along(link, x, C) \subseteq D
BY DEF Along

\* It is the same for links that agree.
LEMMA AlongSame ==
  ASSUME NEW C, NEW link, NEW link2, \A y \in C : link2[y] = link[y], NEW x
  PROVE  Along(link2, x, C) = Along(link, x, C)
<1>1. \A D \in SUBSET C : Closed(link2, D) <=> Closed(link, D)
  BY DEF Closed
<1> QED
  BY <1>1 DEF Along

\* The elements of a chain are what is met from its head, whatever else there is.
LEMMA ChainAlong ==
  ASSUME NEW S, NULL \notin S, NEW C \in SUBSET S, NEW head, NEW link, NEW back,
         Chain(C, head, link, back)
  PROVE  Along(link, head, S) = C
<1>1. Along(link, head, S) \subseteq C
  <2>1. head \in C \cup {NULL} /\ Closed(link, C)
    BY DEF Chain, Closed
  <2> QED
    BY <2>1, AlongLeast
<1>2. ASSUME NEW y \in C, NEW D \in SUBSET S, head \in D \cup {NULL}, Closed(link, D)
      PROVE  y \in D
  <2>1. head \in (D \cap C) \cup {NULL}
    BY <1>2 DEF Chain
  <2>2. Closed(link, D \cap C)
    BY <1>2 DEF Chain, Closed
  <2>3. D \cap C = C
    BY <2>1, <2>2 DEF Chain
  <2> QED
    BY <2>3
<1>3. C \subseteq Along(link, head, S)
  BY <1>2 DEF Along
<1> QED
  BY <1>1, <1>3

LEMMA ChainSame ==
  ASSUME NEW C, NULL \notin C, NEW head, NEW link, NEW back, NEW link2, NEW back2,
         Chain(C, head, link, back), \A x \in C : link2[x] = link[x] /\ back2[x] = back[x]
  PROVE  Chain(C, head, link2, back2)
<1>1. \A D \in SUBSET C : Closed(link2, D) <=> Closed(link, D)
  BY DEF Closed
<1>2. \A x \in C : /\ link2[x] # NULL => link2[x] \in C
                   /\ back2[x] # NULL => back2[x] \in C
  BY DEF Chain
<1> QED
  BY <1>1, <1>2 DEF Chain

LEMMA ChainEmpty ==
  ASSUME NEW link, NEW back
  PROVE  Chain({}, NULL, link, back)
BY DEF Chain

\* No element is met again after it.
LEMMA Acyclic ==
  ASSUME NEW C, NULL \notin C, NEW head, NEW link, NEW back, Chain(C, head, link, back),
         NEW x \in C
  PROVE  x \notin Along(link, link[x], C) /\ link[x] # x
<1> DEFINE A == Along(link, link[x], C)
<1>1. A \in SUBSET C /\ link[x] \in A \cup {NULL} /\ Closed(link, A)
  BY AlongClosed DEF Chain
<1>2. SUFFICES ASSUME x \in A PROVE FALSE
  <2>1. link[x] = x => x \in A
    BY <1>1
  <2> QED
    BY <1>2, <2>1
<1>3. link[x] # NULL
  <2>1. Closed(link, {}) /\ {} \in SUBSET C
    BY DEF Closed
  <2>2. link[x] \in {} \cup {NULL} => Along(link, link[x], C) \subseteq {}
    BY <2>1, AlongLeast
  <2> QED
    BY <1>2, <2>2
<1>4. ASSUME NEW y \in A
      PROVE  back[y] \in A
  <2>1. CASE y = link[x]
    BY <1>2, <1>3, <2>1 DEF Chain
  <2>2. CASE y # link[x]
    <3>1. ~Closed(link, A \ {y})
      <4> SUFFICES ASSUME Closed(link, A \ {y}) PROVE FALSE
        OBVIOUS
      <4>1. A \subseteq A \ {y}
        BY <1>1, <1>3, <2>2, AlongLeast
      <4> QED
        BY <4>1
    <3>2. PICK z \in A \ {y} : link[z] \notin (A \ {y}) \cup {NULL}
      BY <3>1 DEF Closed
    <3>3. link[z] = y /\ y # NULL
      BY <1>1, <3>2 DEF Closed
    <3> QED
      BY <1>1, <3>2, <3>3 DEF Chain
  <2> QED
    BY <2>1, <2>2
<1>5. Closed(link, C \ A)
  <2> SUFFICES ASSUME NEW z \in C \ A, link[z] # NULL
               PROVE  link[z] \in C \ A
    BY DEF Closed
  <2>1. link[z] \in C /\ back[link[z]] = z
    BY DEF Chain
  <2> QED
    BY <1>4, <2>1
<1>6. head \notin A
  BY <1>1, <1>4 DEF Chain
<1>7. C \ A = C
  BY <1>5, <1>6 DEF Chain
<1> QED
  BY <1>1, <1>2, <1>7

-------------------------------------------------------------------------------
(* Insertion of n between neighbours a and b, and its removal. *)

Inserted(C, head, link, back, n, a, b, head2, link2, back2) ==
  /\ n \notin C /\ n # NULL
  /\ a \in C \cup {NULL} /\ b = IF a = NULL THEN head ELSE link[a]
  /\ \A x \in C : /\ link2[x] = IF x = a THEN n ELSE link[x]
                  /\ back2[x] = IF x = b THEN n ELSE back[x]
  /\ link2[n] = b /\ back2[n] = a
  /\ head2 = IF a = NULL THEN n ELSE head

LEMMA ChainInsert ==
  ASSUME NEW C, NULL \notin C, NEW head, NEW link, NEW back, Chain(C, head, link, back),
         NEW n, NEW a, NEW b, NEW head2, NEW link2, NEW back2,
         Inserted(C, head, link, back, n, a, b, head2, link2, back2)
  PROVE  Chain(C \cup {n}, head2, link2, back2)
<1> DEFINE C2 == C \cup {n}
<1>1. b \in C \cup {NULL}
  BY DEF Inserted, Chain
<1>2. head2 \in C2 \cup {NULL}
  BY DEF Inserted, Chain
<1>3. b # NULL => back[b] = a
  BY DEF Inserted, Chain
<1>4. ASSUME NEW x \in C2
      PROVE  /\ link2[x] \in C2 \cup {NULL} /\ back2[x] \in C2 \cup {NULL}
             /\ link2[x] # NULL => back2[link2[x]] = x
             /\ back2[x] # NULL => link2[back2[x]] = x
             /\ back2[x] = NULL <=> x = head2
  <2>1. CASE x = n
    BY <1>1, <2>1 DEF Inserted, Chain
  <2>2. CASE x \in C
    <3>1. link2[x] \in C2 \cup {NULL} /\ back2[x] \in C2 \cup {NULL}
      BY <2>2 DEF Inserted, Chain
    <3>2. link2[x] # NULL => back2[link2[x]] = x
      <4>1. CASE x = a
        BY <2>2, <4>1 DEF Inserted
      <4>2. CASE x # a
        BY <1>1, <1>3, <2>2, <4>2 DEF Inserted, Chain
      <4> QED
        BY <4>1, <4>2
    <3>3. back2[x] # NULL => link2[back2[x]] = x
      <4>1. CASE x = b
        BY <2>2, <4>1 DEF Inserted
      <4>2. CASE x # b
        BY <1>1, <1>3, <2>2, <4>2 DEF Inserted, Chain
      <4> QED
        BY <4>1, <4>2
    <3>4. back2[x] = NULL <=> x = head2
      <4>1. CASE a = NULL
        BY <2>2, <4>1 DEF Inserted, Chain
      <4>2. CASE a # NULL
        BY <1>3, <2>2, <4>2 DEF Inserted, Chain
      <4> QED
        BY <4>1, <4>2
    <3> QED
      BY <3>1, <3>2, <3>3, <3>4
  <2> QED
    BY <2>1, <2>2
<1>5. ASSUME NEW D \in SUBSET C2, head2 \in D \cup {NULL}, Closed(link2, D)
      PROVE  D = C2
  <2>1. head \in (D \ {n}) \cup {NULL}
    BY <1>5 DEF Inserted, Chain, Closed
  <2>2. Closed(link, D \ {n})
    <3> SUFFICES ASSUME NEW x \in D \ {n}, link[x] # NULL
                 PROVE  link[x] \in D \ {n}
      BY DEF Closed
    <3>1. x \in C /\ link[x] \in C
      BY DEF Chain
    <3>2. CASE x = a
      BY <1>5, <3>1, <3>2 DEF Inserted, Closed
    <3>3. CASE x # a
      BY <1>5, <3>1, <3>3 DEF Inserted, Closed
    <3> QED
      BY <3>2, <3>3
  <2>3. D \ {n} = C
    BY <2>1, <2>2 DEF Chain
  <2>4. n \in D
    BY <1>5, <2>3 DEF Inserted, Closed
  <2> QED
    BY <2>3, <2>4
<1> QED
  BY <1>2, <1>4, <1>5 DEF Chain

\* What was met from a place before is met from it still, and nothing else but the
\* new element.
LEMMA AheadInsert ==
  ASSUME NEW C, NULL \notin C, NEW head, NEW link, NEW back, Chain(C, head, link, back),
         NEW n, NEW a, NEW b, NEW head2, NEW link2, NEW back2,
         Inserted(C, head, link, back, n, a, b, head2, link2, back2),
         NEW x \in C \cup {NULL}, NEW x2, x2 = x \/ (x2 = n /\ x = b)
  PROVE  /\ Along(link, x, C) \subseteq Along(link2, x2, C \cup {n})
         /\ Along(link2, x2, C \cup {n}) \subseteq Along(link, x, C) \cup {n}
<1> DEFINE C2 == C \cup {n}
           A  == Along(link, x, C)
           A2 == Along(link2, x2, C2)
<1>1. A \in SUBSET C /\ x \in A \cup {NULL} /\ Closed(link, A)
  BY AlongClosed DEF Chain
<1>2. /\ \A y \in C2 : link2[y] \in C2 \cup {NULL}
      /\ x2 \in C2 \cup {NULL} /\ NULL \notin C2
  BY DEF Inserted, Chain
<1>3. A2 \in SUBSET C2 /\ x2 \in A2 \cup {NULL} /\ Closed(link2, A2)
  BY <1>2, AlongClosed
<1>4. A \subseteq A2
  <2>1. A2 \ {n} \in SUBSET C
    BY <1>3
  <2>2. x \in (A2 \ {n}) \cup {NULL}
    <3>1. n \notin C
      BY DEF Inserted
    <3>2. CASE x2 = n /\ x = b
      <4>1. link2[n] = x /\ n \in A2
        BY <1>3, <3>2 DEF Inserted
      <4> QED
        BY <1>3, <3>1, <4>1 DEF Closed
    <3>3. CASE x2 = x
      BY <1>3, <3>1, <3>3
    <3> QED
      BY <3>2, <3>3
  <2>3. Closed(link, A2 \ {n})
    <3> SUFFICES ASSUME NEW y \in A2 \ {n}, link[y] # NULL
                 PROVE  link[y] \in A2 \ {n}
      BY DEF Closed
    <3>1. y \in C /\ link[y] \in C
      BY <1>3 DEF Chain
    <3>2. CASE y = a
      BY <1>3, <3>1, <3>2 DEF Inserted, Closed
    <3>3. CASE y # a
      BY <1>3, <3>1, <3>3 DEF Inserted, Closed
    <3> QED
      BY <3>2, <3>3
  <2>4. A \subseteq A2 \ {n}
    BY <2>1, <2>2, <2>3, AlongLeast
  <2> QED
    BY <2>4
<1>5. A2 \subseteq A \cup {n}
  <2>1. CASE x2 = n \/ a \in A
    <3>1. b \in A \cup {NULL}
      BY <1>1, <2>1 DEF Inserted, Closed
    <3>2. Closed(link2, A \cup {n})
      BY <1>1, <3>1 DEF Inserted, Closed
    <3>3. x2 \in (A \cup {n}) \cup {NULL} /\ A \cup {n} \in SUBSET C2
      BY <1>1
    <3> QED
      BY <3>2, <3>3, AlongLeast
  <2>2. CASE x2 # n /\ a \notin A
    <3>1. Closed(link2, A)
      BY <1>1, <2>2 DEF Inserted, Closed
    <3>2. x2 \in A \cup {NULL} /\ A \in SUBSET C2
      BY <1>1, <2>2
    <3>3. A2 \subseteq A
      BY <3>1, <3>2, AlongLeast
    <3> QED
      BY <3>3
  <2> QED
    BY <2>1, <2>2
<1> QED
  BY <1>4, <1>5

Removed(C, head, link, back, n, head2, link2, back2) ==
  /\ n \in C
  /\ \A x \in C \ {n} : /\ link2[x] = IF x = back[n] THEN link[n] ELSE link[x]
                        /\ back2[x] = IF x = link[n] THEN back[n] ELSE back[x]
  /\ head2 = IF head = n THEN link[n] ELSE head

LEMMA ChainRemove ==
  ASSUME NEW C, NULL \notin C, NEW head, NEW link, NEW back, Chain(C, head, link, back),
         NEW n, NEW head2, NEW link2, NEW back2,
         Removed(C, head, link, back, n, head2, link2, back2)
  PROVE  Chain(C \ {n}, head2, link2, back2)
<1> DEFINE C2 == C \ {n}
<1>1. /\ n \in C /\ link[n] # n /\ back[n] # n
      /\ link[n] \in C2 \cup {NULL} /\ back[n] \in C2 \cup {NULL}
  <2>1. n \in C /\ link[n] # n
    BY Acyclic DEF Removed
  <2>2. back[n] # n
    BY <2>1 DEF Chain
  <2> QED
    BY <2>1, <2>2 DEF Chain
<1>2. head2 \in C2 \cup {NULL}
  BY <1>1 DEF Removed, Chain
<1>3. ASSUME NEW x \in C2
      PROVE  /\ link2[x] \in C2 \cup {NULL} /\ back2[x] \in C2 \cup {NULL}
             /\ link2[x] # NULL => back2[link2[x]] = x
             /\ back2[x] # NULL => link2[back2[x]] = x
             /\ back2[x] = NULL <=> x = head2
  <2>1. x \in C /\ x # n
    OBVIOUS
  <2>2. link2[x] \in C2 \cup {NULL} /\ (link2[x] # NULL => back2[link2[x]] = x)
    <3>1. CASE x = back[n]
      BY <1>1, <2>1, <3>1 DEF Removed, Chain
    <3>2. CASE x # back[n]
      BY <1>1, <2>1, <3>2 DEF Removed, Chain
    <3> QED
      BY <3>1, <3>2
  <2>3. back2[x] \in C2 \cup {NULL} /\ (back2[x] # NULL => link2[back2[x]] = x)
    <3>1. CASE x = link[n]
      BY <1>1, <2>1, <3>1 DEF Removed, Chain
    <3>2. CASE x # link[n]
      BY <1>1, <2>1, <3>2 DEF Removed, Chain
    <3> QED
      BY <3>1, <3>2
  <2>4. back2[x] = NULL <=> x = head2
    BY <1>1, <2>1 DEF Removed, Chain
  <2> QED
    BY <2>2, <2>3, <2>4
<1>4. ASSUME NEW D \in SUBSET C2, head2 \in D \cup {NULL}, Closed(link2, D)
      PROVE  D = C2
  <2>1. CASE head = n \/ back[n] \in D
    <3>1. link[n] \in D \cup {NULL}
      BY <1>1, <1>4, <2>1 DEF Removed, Closed
    <3>2. Closed(link, D \cup {n})
      BY <1>1, <1>4, <3>1 DEF Removed, Closed, Chain
    <3>3. head \in (D \cup {n}) \cup {NULL} /\ D \cup {n} \in SUBSET C
      BY <1>1, <1>4 DEF Removed
    <3>4. D \cup {n} = C
      BY <3>2, <3>3 DEF Chain
    <3> QED
      BY <3>4
  <2>2. CASE head # n /\ back[n] \notin D
    <3>1. Closed(link, D)
      BY <1>4, <2>2 DEF Removed, Closed
    <3>2. head \in D \cup {NULL} /\ D \in SUBSET C
      BY <1>4, <2>2 DEF Removed
    <3>3. D = C
      BY <3>1, <3>2 DEF Chain
    <3> QED
      BY <1>1, <3>3
  <2> QED
    BY <2>1, <2>2
<1> QED
  BY <1>2, <1>3, <1>4 DEF Chain

LEMMA AheadRemove ==
  ASSUME NEW C, NULL \notin C, NEW head, NEW link, NEW back, Chain(C, head, link, back),
         NEW n, NEW head2, NEW link2, NEW back2,
         Removed(C, head, link, back, n, head2, link2, back2),
         NEW x \in C \cup {NULL}, NEW x2, x2 = IF x = n THEN link[n] ELSE x
  PROVE  Along(link2, x2, C \ {n}) = Along(link, x, C) \ {n}
<1> DEFINE C2 == C \ {n}
           A  == Along(link, x, C)
           A2 == Along(link2, x2, C2)
<1>1. A \in SUBSET C /\ x \in A \cup {NULL} /\ Closed(link, A)
  BY AlongClosed DEF Chain
<1>2. n \in C /\ n # NULL /\ link[n] # n
  BY Acyclic DEF Removed
<1>3. /\ \A y \in C2 : link2[y] \in C2 \cup {NULL}
      /\ x2 \in C2 \cup {NULL} /\ NULL \notin C2
  <2>1. Chain(C2, head2, link2, back2)
    BY ChainRemove
  <2>2. \A y \in C2 : link2[y] \in C2 \cup {NULL}
    BY <2>1 DEF Chain
  <2> QED
    BY <1>2, <2>2 DEF Chain
<1>4. A2 \in SUBSET C2 /\ x2 \in A2 \cup {NULL} /\ Closed(link2, A2)
  BY <1>3, AlongClosed
<1>5. A \ {n} \subseteq A2
  <2>1. CASE x = n \/ back[n] \in A2
    <3>1. link[n] \in A2 \cup {NULL}
      BY <1>2, <1>4, <2>1 DEF Removed, Closed
    <3>2. Closed(link, A2 \cup {n})
      <4> SUFFICES ASSUME NEW y \in A2 \cup {n}
                   PROVE  link[y] \in (A2 \cup {n}) \cup {NULL}
        BY DEF Closed
      <4>1. CASE y = n
        BY <3>1, <4>1
      <4>2. CASE y # n /\ y = back[n]
        BY <1>2, <1>4, <4>2 DEF Chain
      <4>3. CASE y # n /\ y # back[n]
        BY <1>4, <4>3 DEF Removed, Closed
      <4> QED
        BY <4>1, <4>2, <4>3
    <3>3. x \in (A2 \cup {n}) \cup {NULL} /\ A2 \cup {n} \in SUBSET C
      BY <1>2, <1>4
    <3>4. A \subseteq A2 \cup {n}
      BY <3>2, <3>3, AlongLeast
    <3> QED
      BY <3>4
  <2>2. CASE x # n /\ back[n] \notin A2
    <3>1. Closed(link, A2)
      BY <1>4, <2>2 DEF Removed, Closed
    <3>2. x \in A2 \cup {NULL} /\ A2 \in SUBSET C
      BY <1>4, <2>2
    <3>3. A \subseteq A2
      BY <3>1, <3>2, AlongLeast
    <3> QED
      BY <3>3
  <2> QED
    BY <2>1, <2>2
<1>6. A2 \subseteq A \ {n}
  <2>1. Closed(link2, A \ {n})
    <3> SUFFICES ASSUME NEW y \in A \ {n}, link2[y] # NULL
                 PROVE  link2[y] \in A \ {n}
      BY DEF Closed
    <3>1. y \in C /\ y # n
      BY <1>1
    <3>2. CASE y = back[n]
      <4>1. link2[y] = link[n] /\ link[y] = n
        BY <1>2, <3>1, <3>2 DEF Removed, Chain
      <4> QED
        BY <1>1, <1>2, <4>1 DEF Closed
    <3>3. CASE y # back[n]
      <4>1. link2[y] = link[y] /\ link[y] # n
        BY <1>2, <3>1, <3>3 DEF Removed, Chain
      <4> QED
        BY <1>1, <4>1 DEF Closed
    <3> QED
      BY <3>2, <3>3
  <2>2. x2 \in (A \ {n}) \cup {NULL}
    BY <1>1, <1>2 DEF Closed
  <2>3. A \ {n} \in SUBSET C2
    BY <1>1
  <2> QED
    BY <2>1, <2>2, <2>3, AlongLeast
<1> QED
  BY <1>5, <1>6

\* After an element everything is met that was met from it, but the element.
LEMMA AheadNext ==
  ASSUME NEW C, NULL \notin C, NEW head, NEW link, NEW back, Chain(C, head, link, back),
         NEW x \in C
  PROVE  Along(link, link[x], C) = Along(link, x, C) \ {x}
<1> DEFINE A  == Along(link, x, C)
           A2 == Along(link, link[x], C)
<1>1. A \in SUBSET C /\ x \in A /\ Closed(link, A)
  BY AlongClosed DEF Chain
<1>2. A2 \in SUBSET C /\ link[x] \in A2 \cup {NULL} /\ Closed(link, A2)
  BY AlongClosed DEF Chain
<1>3. A2 \subseteq A
  BY <1>1, AlongLeast DEF Closed
<1>4. A \subseteq A2 \cup {x}
  <2>1. Closed(link, A2 \cup {x})
    BY <1>2 DEF Closed
  <2>2. A2 \cup {x} \in SUBSET C /\ x \in (A2 \cup {x}) \cup {NULL}
    BY <1>2
  <2> QED
    BY <2>1, <2>2, AlongLeast
<1>5. x \notin A2
  BY Acyclic
<1> QED
  BY <1>3, <1>4, <1>5

\* From nowhere nothing is met.
LEMMA AheadNowhere ==
  ASSUME NEW C, NEW link
  PROVE  Along(link, NULL, C) = {}
<1>1. Closed(link, {}) /\ {} \in SUBSET C /\ NULL \in {} \cup {NULL}
  BY DEF Closed
<1>2. Along(link, NULL, C) \subseteq {}
  BY <1>1, AlongLeast
<1> QED
  BY <1>2

-------------------------------------------------------------------------------
(* The inductive invariant. *)

\* What the theorems require of the clients.
RuleKept == "keep_last" \in ClientRules

ListInv(l) ==
  /\ Chain(NodesOf(l), m_pFirstNode[l], m_pNext, m_pPrev)
  /\ Chain(NodesOf(l), m_pLastNode[l], m_pPrev, m_pNext)
  /\ NodesOf(l) \subseteq allocated
  /\ m_iCount[l] = Cardinality(NodesOf(l))

IteratorsOf(l) == {i \in Iterators : m_pList[i] = l}
ChainInv(l) == Chain(IteratorsOf(l), m_pIterator[l], itPrev, itNext)

\* Where a walk goes on, and what it still meets.
Onward(i) == IF m_pEnuming[i] = NULL THEN m_pFirstNode[m_pList[i]] ELSE m_pNext[m_pEnuming[i]]
Ahead(i)  == Along(m_pNext, Onward(i), NodesOf(m_pList[i]))

\* A walk has ahead what it has to visit and nothing that it has visited.
WalkInv(i) ==
  /\ walk[i] # "none" =>
       /\ m_pList[i] # NULL
       /\ m_pEnuming[i] # NULL => m_pSelf[m_pEnuming[i]] = m_pList[i]
       /\ done[i] \cup todo[i] \subseteq NodesOf(m_pList[i])
  /\ walk[i] = "walking" => todo[i] \subseteq Ahead(i) /\ done[i] \cap Ahead(i) = {}
  /\ walk[i] = "ended" => todo[i] = {} /\ m_pEnuming[i] = NULL

Inv ==
  /\ TypeOK
  /\ \A l \in Lists : ListInv(l) /\ ChainInv(l)
  /\ \A i \in Iterators : WalkInv(i) /\ (m_pList[i] # NULL => i \in existing)

LEMMA Members ==
  ASSUME TypeOK, NEW l \in Lists
  PROVE  /\ NULL \notin NodesOf(l) /\ NodesOf(l) \in SUBSET Nodes /\ IsFiniteSet(NodesOf(l))
         /\ NULL \notin IteratorsOf(l) /\ IteratorsOf(l) \in SUBSET Iterators
         /\ l # NULL
<1>1. NodesOf(l) \in SUBSET Nodes /\ IteratorsOf(l) \in SUBSET Iterators
  BY DEF NodesOf, IteratorsOf
<1>2. IsFiniteSet(NodesOf(l))
  BY <1>1, FiniteAssumption, FS_Subset
<1> QED
  BY <1>1, <1>2, NullAssumption

\* A list has a last node just when it has a first, and neither when it is empty.
LEMMA Ends ==
  ASSUME Inv, NEW l \in Lists
  PROVE  /\ m_pFirstNode[l] = NULL <=> NodesOf(l) = {}
         /\ m_pLastNode[l] = NULL <=> NodesOf(l) = {}
<1>1. Chain(NodesOf(l), m_pFirstNode[l], m_pNext, m_pPrev)
  BY DEF Inv, ListInv
<1>2. Chain(NodesOf(l), m_pLastNode[l], m_pPrev, m_pNext)
  BY DEF Inv, ListInv
<1>3. ASSUME NEW h, NEW link, NEW back, Chain(NodesOf(l), h, link, back)
      PROVE  h = NULL <=> NodesOf(l) = {}
  <2>1. Closed(link, {})
    BY DEF Closed
  <2>2. NULL \notin NodesOf(l)
    BY Members DEF Inv
  <2> QED
    BY <1>3, <2>1, <2>2 DEF Chain
<1> QED
  BY <1>1, <1>2, <1>3

\* Where the walk of an iterator goes on is on its list.
LEMMA OnwardOnList ==
  ASSUME Inv, NEW i \in Iterators, walk[i] # "none"
  PROVE  /\ m_pList[i] \in Lists
         /\ m_pEnuming[i] \in NodesOf(m_pList[i]) \cup {NULL}
         /\ Onward(i) \in NodesOf(m_pList[i]) \cup {NULL}
<1>1. m_pList[i] \in Lists
  BY DEF Inv, TypeOK, WalkInv
<1>2. m_pEnuming[i] \in NodesOf(m_pList[i]) \cup {NULL}
  BY DEF Inv, TypeOK, WalkInv, NodesOf
<1>3. Chain(NodesOf(m_pList[i]), m_pFirstNode[m_pList[i]], m_pNext, m_pPrev)
  BY <1>1 DEF Inv, ListInv
<1> QED
  BY <1>1, <1>2, <1>3 DEF Onward, Chain

-------------------------------------------------------------------------------
(* What a step does to the fields of the objects. *)

\* The field of an object x, if there is one, becomes y, then that of n becomes z.
BothSet(S, field, x, y, n, z, field2) ==
  /\ field2 = [Set(field, x, y) EXCEPT ![n] = z]
  /\ field \in [S -> S \cup {NULL}] /\ NULL \notin S
  /\ x \in S \cup {NULL} /\ y \in S \cup {NULL} /\ n \in S /\ z \in S \cup {NULL}

LEMMA SetFields ==
  ASSUME NEW S, NEW field, NEW x, NEW y, NEW n, NEW z, NEW field2,
         BothSet(S, field, x, y, n, z, field2)
  PROVE  /\ field2 \in [S -> S \cup {NULL}]
         /\ field2[n] = z
         /\ \A k \in S \ {n} : field2[k] = IF k = x THEN y ELSE field[k]
<1>1. CASE x = NULL
  BY <1>1 DEF Set, BothSet
<1>2. CASE x # NULL
  <2>1. Set(field, x, y) = [field EXCEPT ![x] = y]
    BY <1>2 DEF Set
  <2> QED
    BY <1>2, <2>1 DEF BothSet
<1> QED
  BY <1>1, <1>2

LEMMA OneChanged ==
  ASSUME NEW S, NEW T, NEW field \in [S -> T], NEW x \in S, NEW y \in T, NEW field2,
         field2 = [field EXCEPT ![x] = y]
  PROVE  /\ field2 \in [S -> T] /\ field2[x] = y
         /\ \A k \in S : k # x => field2[k] = field[k]
OBVIOUS

\* A node that goes to a list, or to none, from none or from a list.
LEMMA SelfChanged ==
  ASSUME TypeOK, NEW n \in Nodes, NEW k \in Lists \cup {NULL},
         m_pSelf' = [m_pSelf EXCEPT ![n] = k]
  PROVE  \A l \in Lists : NodesOf(l)' = IF l = k THEN NodesOf(l) \cup {n}
                                                ELSE NodesOf(l) \ {n}
<1>1. m_pSelf \in [Nodes -> Lists \cup {NULL}]
  BY DEF TypeOK
<1>2. \A x \in Nodes : m_pSelf'[x] = IF x = n THEN k ELSE m_pSelf[x]
  BY <1>1
<1> QED
  BY <1>2 DEF NodesOf

-------------------------------------------------------------------------------
(* What a step leaves as it is. *)

LEMMA ListKept ==
  ASSUME Inv, NEW l \in Lists, NodesOf(l)' = NodesOf(l), NodesOf(l) \subseteq allocated',
         m_pFirstNode'[l] = m_pFirstNode[l], m_pLastNode'[l] = m_pLastNode[l],
         m_iCount'[l] = m_iCount[l],
         \A n \in NodesOf(l) : m_pNext'[n] = m_pNext[n] /\ m_pPrev'[n] = m_pPrev[n]
  PROVE  ListInv(l)'
<1>1. /\ Chain(NodesOf(l), m_pFirstNode[l], m_pNext, m_pPrev)
      /\ Chain(NodesOf(l), m_pLastNode[l], m_pPrev, m_pNext)
      /\ m_iCount[l] = Cardinality(NodesOf(l))
  BY DEF Inv, ListInv
<1>2. NULL \notin NodesOf(l)
  BY Members DEF Inv
<1>3. /\ Chain(NodesOf(l), m_pFirstNode[l], m_pNext', m_pPrev')
      /\ Chain(NodesOf(l), m_pLastNode[l], m_pPrev', m_pNext')
  BY <1>1, <1>2, ChainSame
<1> QED
  BY <1>1, <1>3 DEF ListInv

LEMMA IteratorsKept ==
  ASSUME Inv, UNCHANGED <<m_pIterator, m_pList, itPrev, itNext>>, NEW l \in Lists
  PROVE  ChainInv(l)' /\ IteratorsOf(l)' = IteratorsOf(l)
BY DEF Inv, ChainInv, IteratorsOf

LEMMA WalkKept ==
  ASSUME Inv, NEW i \in Iterators, NEW l, l = m_pList[i],
         walk'[i] = walk[i], done'[i] = done[i], todo'[i] = todo[i],
         m_pEnuming'[i] = m_pEnuming[i], m_pList'[i] = l,
         walk[i] # "none" =>
           /\ NodesOf(l)' = NodesOf(l) /\ m_pFirstNode'[l] = m_pFirstNode[l]
           /\ \A n \in NodesOf(l) : m_pNext'[n] = m_pNext[n]
  PROVE  WalkInv(i)'
<1> SUFFICES ASSUME walk[i] # "none" PROVE WalkInv(i)'
  BY DEF WalkInv
<1>1. l \in Lists /\ m_pEnuming[i] \in NodesOf(l) \cup {NULL}
  BY OnwardOnList
<1>2. m_pEnuming[i] # NULL => m_pSelf'[m_pEnuming'[i]] = l
  BY <1>1 DEF NodesOf
<1>3. Onward(i)' = Onward(i)
  BY <1>1 DEF Onward
<1>4. Along(m_pNext', Onward(i), NodesOf(l)) = Along(m_pNext, Onward(i), NodesOf(l))
  BY AlongSame
<1>5. Ahead(i)' = Ahead(i)
  <2>1. Ahead(i) = Along(m_pNext, Onward(i), NodesOf(l))
    BY DEF Ahead
  <2>2. NodesOf(m_pList[i])' = NodesOf(l)
    BY DEF NodesOf
  <2>3. Ahead(i)' = Along(m_pNext', Onward(i), NodesOf(l))
    BY <1>3, <2>2 DEF Ahead
  <2> QED
    BY <1>4, <2>1, <2>3
<1>6. WalkInv(i) /\ NodesOf(m_pList[i])' = NodesOf(l)
  BY DEF Inv, NodesOf
<1> QED
  BY <1>2, <1>5, <1>6 DEF WalkInv

-------------------------------------------------------------------------------
(* Insertion and removal of a node. *)

\* A walk whose list gains a node goes on among the nodes it had ahead and the new one.
LEMMA WalkGains ==
  ASSUME Inv, NEW i \in Iterators, NEW l \in Lists, m_pList[i] = l, walk[i] # "none",
         NEW n \in Nodes, NEW prev, NEW next,
         UNCHANGED <<chainVars, walkVars>>,
         NodesOf(l)' = NodesOf(l) \cup {n},
         Inserted(NodesOf(l), m_pFirstNode[l], m_pNext, m_pPrev, n, prev, next,
                  m_pFirstNode'[l], m_pNext', m_pPrev')
  PROVE  WalkInv(i)'
<1> DEFINE C == NodesOf(l)
<1>1. /\ m_pEnuming[i] \in C \cup {NULL} /\ Onward(i) \in C \cup {NULL}
      /\ Chain(C, m_pFirstNode[l], m_pNext, m_pPrev) /\ NULL \notin C
  BY OnwardOnList, Members DEF Inv, ListInv
<1>2. /\ m_pList' = m_pList /\ m_pEnuming' = m_pEnuming
      /\ walk' = walk /\ done' = done /\ todo' = todo
  BY DEF chainVars, walkVars
<1>3. PICK x, x2 : x = Onward(i) /\ x2 = Onward(i)'
  OBVIOUS
<1>4. x2 = x \/ (x2 = n /\ x = next)
  <2>1. CASE m_pEnuming[i] = NULL
    BY <1>2, <1>3, <2>1 DEF Onward, Inserted
  <2>2. CASE m_pEnuming[i] # NULL
    BY <1>1, <1>2, <1>3, <2>2 DEF Onward, Inserted
  <2> QED
    BY <2>1, <2>2
<1>5. Ahead(i) = Along(m_pNext, x, C) /\ Ahead(i)' = Along(m_pNext', x2, C \cup {n})
  BY <1>2, <1>3 DEF Ahead, NodesOf
<1>6. Ahead(i) \subseteq Ahead(i)' /\ Ahead(i)' \subseteq Ahead(i) \cup {n}
  BY <1>1, <1>3, <1>4, <1>5, AheadInsert
<1>7. n \notin C /\ done[i] \cup todo[i] \subseteq C
  BY DEF Inv, WalkInv, Inserted
<1>8. m_pEnuming[i] # NULL => m_pSelf'[m_pEnuming[i]] = l
  BY <1>1 DEF NodesOf
<1>9. WalkInv(i)
  BY DEF Inv
<1>10. NodesOf(m_pList[i])' = NodesOf(m_pList[i]) \cup {n}
  BY <1>2
<1> QED
  BY <1>2, <1>6, <1>7, <1>8, <1>9, <1>10 DEF WalkInv

\* prev is followed by next; before the first, and after the last, there is none.
Neighbours(l, prev, next) ==
  /\ prev \in NodesOf(l) \cup {NULL} /\ next \in NodesOf(l) \cup {NULL}
  /\ next = IF prev = NULL THEN m_pFirstNode[l] ELSE m_pNext[prev]
  /\ prev = IF next = NULL THEN m_pLastNode[l] ELSE m_pPrev[next]

LEMMA LinkInv ==
  ASSUME Inv, NEW l \in Lists, NEW n \in Nodes, NEW prev, NEW next,
         Neighbours(l, prev, next), Link(l, n, prev, next)
  PROVE  Inv'
<1> DEFINE C == NodesOf(l)
<1>0. prev \in C \cup {NULL} /\ next \in C \cup {NULL}
  BY DEF Neighbours
<1>1. /\ m_pSelf[n] = NULL
      /\ allocated' = allocated \cup {n}
      /\ m_pSelf' = [m_pSelf EXCEPT ![n] = l]
      /\ m_pPrev' = [Set(m_pPrev, next, n) EXCEPT ![n] = prev]
      /\ m_pNext' = [Set(m_pNext, prev, n) EXCEPT ![n] = next]
      /\ m_pFirstNode' = IF prev = NULL THEN [m_pFirstNode EXCEPT ![l] = n] ELSE m_pFirstNode
      /\ m_pLastNode'  = IF next = NULL THEN [m_pLastNode EXCEPT ![l] = n] ELSE m_pLastNode
      /\ m_iCount' = [m_iCount EXCEPT ![l] = @ + 1]
      /\ UNCHANGED <<chainVars, walkVars>>
  BY DEF Link
<1>2. /\ m_pFirstNode \in [Lists -> Nodes \cup {NULL}]
      /\ m_pLastNode \in [Lists -> Nodes \cup {NULL}]
      /\ m_iCount \in [Lists -> Nat]
      /\ m_pPrev \in [Nodes -> Nodes \cup {NULL}]
      /\ m_pNext \in [Nodes -> Nodes \cup {NULL}]
      /\ m_pSelf \in [Nodes -> Lists \cup {NULL}]
  BY DEF Inv, TypeOK
<1>3. n \notin C /\ n # NULL /\ l # NULL /\ C \in SUBSET Nodes /\ NULL \notin C
  BY <1>1, Members, NullAssumption DEF Inv, NodesOf
<1>4. /\ m_pNext' \in [Nodes -> Nodes \cup {NULL}]
      /\ \A x \in Nodes \ {n} : m_pNext'[x] = IF x = prev THEN n ELSE m_pNext[x]
      /\ m_pNext'[n] = next
      /\ m_pPrev' \in [Nodes -> Nodes \cup {NULL}]
      /\ \A x \in Nodes \ {n} : m_pPrev'[x] = IF x = next THEN n ELSE m_pPrev[x]
      /\ m_pPrev'[n] = prev
  <2>1. /\ NULL \notin Nodes /\ prev \in Nodes \cup {NULL} /\ next \in Nodes \cup {NULL}
        /\ n \in Nodes \cup {NULL}
    BY <1>0, <1>3, NullAssumption
  <2>2. /\ m_pNext' \in [Nodes -> Nodes \cup {NULL}]
        /\ m_pNext'[n] = next
        /\ \A x \in Nodes \ {n} : m_pNext'[x] = IF x = prev THEN n ELSE m_pNext[x]
    <3>1. BothSet(Nodes, m_pNext, prev, n, n, next, m_pNext')
      BY <1>1, <1>2, <2>1 DEF BothSet
    <3> QED
      BY <3>1, SetFields
  <2>3. /\ m_pPrev' \in [Nodes -> Nodes \cup {NULL}]
        /\ m_pPrev'[n] = prev
        /\ \A x \in Nodes \ {n} : m_pPrev'[x] = IF x = next THEN n ELSE m_pPrev[x]
    <3>1. BothSet(Nodes, m_pPrev, next, n, n, prev, m_pPrev')
      BY <1>1, <1>2, <2>1 DEF BothSet
    <3> QED
      BY <3>1, SetFields
  <2> QED
    BY <2>2, <2>3
<1>5. /\ \A k \in Lists : k # l => /\ m_pFirstNode'[k] = m_pFirstNode[k]
                                   /\ m_pLastNode'[k] = m_pLastNode[k]
                                   /\ m_iCount'[k] = m_iCount[k]
      /\ m_pFirstNode'[l] = IF prev = NULL THEN n ELSE m_pFirstNode[l]
      /\ m_pLastNode'[l] = IF next = NULL THEN n ELSE m_pLastNode[l]
      /\ m_iCount'[l] = m_iCount[l] + 1
      /\ m_iCount' \in [Lists -> Nat]
  <2>1. m_iCount[l] + 1 \in Nat /\ m_iCount' = [m_iCount EXCEPT ![l] = m_iCount[l] + 1]
    <3>1. m_iCount[l] \in Nat
      BY <1>2
    <3> QED
      BY <1>1, <3>1
  <2>2. /\ m_iCount' \in [Lists -> Nat] /\ m_iCount'[l] = m_iCount[l] + 1
        /\ \A k \in Lists : k # l => m_iCount'[k] = m_iCount[k]
    BY <1>2, <2>1, OneChanged
  <2>3. /\ \A k \in Lists : k # l => m_pFirstNode'[k] = m_pFirstNode[k]
        /\ m_pFirstNode'[l] = IF prev = NULL THEN n ELSE m_pFirstNode[l]
    BY <1>1, <1>2
  <2>4. /\ \A k \in Lists : k # l => m_pLastNode'[k] = m_pLastNode[k]
        /\ m_pLastNode'[l] = IF next = NULL THEN n ELSE m_pLastNode[l]
    BY <1>1, <1>2
  <2> QED
    BY <2>2, <2>3, <2>4
<1>6. NodesOf(l)' = C \cup {n} /\ \A k \in Lists : k # l => NodesOf(k)' = NodesOf(k)
  <2>1. \A k \in Lists : NodesOf(k)' = IF k = l THEN NodesOf(k) \cup {n}
                                              ELSE NodesOf(k) \ {n}
    BY <1>1, SelfChanged DEF Inv
  <2>2. ASSUME NEW k \in Lists PROVE n \notin NodesOf(k)
    BY <1>1, NullAssumption DEF NodesOf
  <2>3. NodesOf(l)' = C \cup {n}
    BY <2>1
  <2>4. ASSUME NEW k \in Lists, k # l PROVE NodesOf(k)' = NodesOf(k)
    BY <2>1, <2>2, <2>4
  <2> QED
    BY <2>3, <2>4
<1>7. Inserted(C, m_pFirstNode[l], m_pNext, m_pPrev, n, prev, next,
               m_pFirstNode'[l], m_pNext', m_pPrev')
  BY <1>0, <1>3, <1>4, <1>5 DEF Inserted, Neighbours
<1>8. Inserted(C, m_pLastNode[l], m_pPrev, m_pNext, n, next, prev,
               m_pLastNode'[l], m_pPrev', m_pNext')
  BY <1>0, <1>3, <1>4, <1>5 DEF Inserted, Neighbours
<1>9. TypeOK'
  <2>1. /\ m_pFirstNode' \in [Lists -> Nodes \cup {NULL}]
        /\ m_pLastNode' \in [Lists -> Nodes \cup {NULL}]
        /\ m_pSelf' \in [Nodes -> Lists \cup {NULL}]
        /\ allocated' \subseteq Nodes
    BY <1>1, <1>2 DEF Inv, TypeOK
  <2> QED
    BY <1>1, <1>4, <1>5, <2>1 DEF Inv, TypeOK, chainVars, walkVars
<1>10. ASSUME NEW k \in Lists
       PROVE  ListInv(k)'
  <2>1. CASE k # l
    <3>1. n \notin NodesOf(k) /\ prev \notin NodesOf(k) /\ next \notin NodesOf(k)
      <4>1. \A x \in NodesOf(k) : m_pSelf[x] = k /\ x \in Nodes
        BY DEF NodesOf
      <4>2. \A x \in NodesOf(l) : m_pSelf[x] = l
        BY DEF NodesOf
      <4>3. n \notin NodesOf(k)
        BY <1>1, <4>1, NullAssumption
      <4>4. NULL \notin NodesOf(k)
        BY <4>1, NullAssumption
      <4> QED
        BY <1>0, <2>1, <4>1, <4>2, <4>3, <4>4
    <3>2. NodesOf(k) \subseteq Nodes /\ NodesOf(k) \subseteq allocated'
      BY <1>1, Members DEF Inv, ListInv
    <3>3. \A x \in NodesOf(k) : m_pNext'[x] = m_pNext[x] /\ m_pPrev'[x] = m_pPrev[x]
      BY <1>4, <3>1, <3>2
    <3> QED
      BY <1>5, <1>6, <2>1, <3>2, <3>3, ListKept
  <2>2. CASE k = l
    <3>1. /\ Chain(C, m_pFirstNode[l], m_pNext, m_pPrev)
          /\ Chain(C, m_pLastNode[l], m_pPrev, m_pNext)
          /\ C \subseteq allocated /\ m_iCount[l] = Cardinality(C)
      BY DEF Inv, ListInv
    <3>2. Chain(C \cup {n}, m_pFirstNode'[l], m_pNext', m_pPrev')
      BY <1>3, <1>7, <3>1, ChainInsert
    <3>3. Chain(C \cup {n}, m_pLastNode'[l], m_pPrev', m_pNext')
      BY <1>3, <1>8, <3>1, ChainInsert
    <3>4. Cardinality(C \cup {n}) = Cardinality(C) + 1
      BY <1>3, FS_AddElement, Members DEF Inv
    <3> QED
      BY <1>1, <1>5, <1>6, <2>2, <3>1, <3>2, <3>3, <3>4 DEF ListInv
  <2> QED
    BY <2>1, <2>2
<1>11. \A k \in Lists : ChainInv(k)'
  BY <1>1, IteratorsKept DEF chainVars
<1>12. ASSUME NEW i \in Iterators
       PROVE  WalkInv(i)' /\ (m_pList'[i] # NULL => i \in existing')
  <2>1. m_pList'[i] # NULL => i \in existing'
    BY <1>1 DEF Inv, chainVars
  <2>2. CASE m_pList[i] = l /\ walk[i] # "none"
    BY <1>1, <1>6, <1>7, <2>1, <2>2, WalkGains
  <2>3. CASE m_pList[i] # l \/ walk[i] = "none"
    <3>1. PICK k : k = m_pList[i]
      OBVIOUS
    <3>2. walk[i] # "none" => k \in Lists /\ k # l
      BY <2>3, <3>1, OnwardOnList
    <3>3. walk[i] # "none" =>
            /\ NodesOf(k)' = NodesOf(k) /\ m_pFirstNode'[k] = m_pFirstNode[k]
            /\ \A x \in NodesOf(k) : m_pNext'[x] = m_pNext[x]
      <4> SUFFICES ASSUME walk[i] # "none"
                   PROVE  \A x \in NodesOf(k) : m_pNext'[x] = m_pNext[x]
        BY <1>5, <1>6, <3>2
      <4>1. n \notin NodesOf(k) /\ prev \notin NodesOf(k) /\ NodesOf(k) \subseteq Nodes
        BY <1>0, <1>1, <3>2, NullAssumption DEF NodesOf
      <4> QED
        BY <1>4, <4>1
    <3> QED
      BY <1>1, <2>1, <3>1, <3>3, WalkKept DEF chainVars, walkVars
  <2> QED
    BY <2>2, <2>3
<1> QED
  BY <1>9, <1>10, <1>11, <1>12 DEF Inv

LEMMA LinkBeforeInv ==
  ASSUME Inv, NEW l \in Lists, NEW n \in Nodes, NEW node \in NodesOf(l) \cup {NULL},
         LinkBefore(l, n, node)
  PROVE  Inv'
<1>1. PICK next : next = IF node = NULL THEN m_pFirstNode[l] ELSE node
  OBVIOUS
<1>2. PICK prev : prev = IF next = NULL THEN NULL ELSE m_pPrev[next]
  OBVIOUS
<1>3. /\ Chain(NodesOf(l), m_pFirstNode[l], m_pNext, m_pPrev) /\ NULL \notin NodesOf(l)
      /\ m_pFirstNode[l] = NULL <=> m_pLastNode[l] = NULL
  BY Ends, Members DEF Inv, ListInv
<1>4. Neighbours(l, prev, next)
  BY <1>1, <1>2, <1>3 DEF Chain, Neighbours
<1>5. Link(l, n, prev, next)
  BY <1>1, <1>2 DEF LinkBefore
<1> QED
  BY <1>4, <1>5, LinkInv

LEMMA LinkAfterInv ==
  ASSUME Inv, NEW l \in Lists, NEW n \in Nodes, NEW node \in NodesOf(l) \cup {NULL},
         LinkAfter(l, n, node)
  PROVE  Inv'
<1>1. PICK prev : prev = IF node = NULL THEN m_pLastNode[l] ELSE node
  OBVIOUS
<1>2. PICK next : next = IF prev = NULL THEN NULL ELSE m_pNext[prev]
  OBVIOUS
<1>3. /\ Chain(NodesOf(l), m_pLastNode[l], m_pPrev, m_pNext) /\ NULL \notin NodesOf(l)
      /\ m_pFirstNode[l] = NULL <=> m_pLastNode[l] = NULL
  BY Ends, Members DEF Inv, ListInv
<1>4. Neighbours(l, prev, next)
  BY <1>1, <1>2, <1>3 DEF Chain, Neighbours
<1>5. Link(l, n, prev, next)
  BY <1>1, <1>2 DEF LinkAfter
<1> QED
  BY <1>4, <1>5, LinkInv

\* A walk whose list loses a node goes on among the nodes it had ahead, without it.
LEMMA WalkLoses ==
  ASSUME Inv, NEW i \in Iterators, NEW l \in Lists, m_pList[i] = l, walk[i] # "none",
         NEW n \in NodesOf(l), m_pList' = m_pList, walk' = walk,
         m_pEnuming'[i] = Moved(n, m_pEnuming[i]),
         done'[i] = done[i] \ {n}, todo'[i] = todo[i] \ {n},
         NodesOf(l)' = NodesOf(l) \ {n},
         Removed(NodesOf(l), m_pFirstNode[l], m_pNext, m_pPrev, n,
                 m_pFirstNode'[l], m_pNext', m_pPrev')
  PROVE  WalkInv(i)'
<1>1. PICK C : C = NodesOf(l)
  OBVIOUS
<1>2. PICK e, e2 : e = m_pEnuming[i] /\ e2 = m_pEnuming'[i]
  OBVIOUS
<1>3. PICK x, x2 : x = Onward(i) /\ x2 = Onward(i)'
  OBVIOUS
<1>4. /\ e \in C \cup {NULL} /\ x \in C \cup {NULL} /\ NULL \notin C /\ n \in C
      /\ Chain(C, m_pFirstNode[l], m_pNext, m_pPrev)
  BY <1>1, <1>2, <1>3, OnwardOnList, Members DEF Inv, ListInv
<1>5. m_pNext[n] # n /\ m_pPrev[n] # n /\ m_pPrev[n] \in C \cup {NULL}
  <2>1. m_pNext[n] # n
    BY <1>4, Acyclic
  <2> QED
    BY <1>4, <2>1 DEF Chain
<1>6. e2 = IF e = n THEN m_pPrev[n] ELSE e
  BY <1>2 DEF Moved
<1>7. Removed(C, m_pFirstNode[l], m_pNext, m_pPrev, n, m_pFirstNode'[l], m_pNext', m_pPrev')
  BY <1>1
<1>8. /\ x = IF e = NULL THEN m_pFirstNode[l] ELSE m_pNext[e]
      /\ x2 = IF e2 = NULL THEN m_pFirstNode'[l] ELSE m_pNext'[e2]
  BY <1>2, <1>3 DEF Onward
<1>9. x2 = IF x = n THEN m_pNext[n] ELSE x
  <2>1. CASE e = n
    <3>1. x = m_pNext[n] /\ e2 = m_pPrev[n]
      BY <1>4, <1>6, <1>8, <2>1
    <3>2. CASE e2 = NULL
      BY <1>4, <1>5, <1>7, <1>8, <3>1, <3>2 DEF Removed, Chain
    <3>3. CASE e2 # NULL
      BY <1>5, <1>7, <1>8, <3>1, <3>3 DEF Removed
    <3> QED
      BY <3>2, <3>3
  <2>2. CASE e = NULL
    BY <1>4, <1>6, <1>7, <1>8, <2>2 DEF Removed
  <2>3. CASE e # n /\ e # NULL
    <3>1. e2 = e /\ x = m_pNext[e] /\ x2 = m_pNext'[e] /\ e \in C \ {n}
      BY <1>4, <1>6, <1>8, <2>3
    <3>2. x2 = IF e = m_pPrev[n] THEN m_pNext[n] ELSE m_pNext[e]
      BY <1>7, <3>1 DEF Removed
    <3>3. e = m_pPrev[n] <=> m_pNext[e] = n
      BY <1>4, <2>3, <3>1 DEF Chain
    <3> QED
      BY <3>1, <3>2, <3>3
  <2> QED
    BY <2>1, <2>2, <2>3
<1>10. Along(m_pNext', x2, C \ {n}) = Along(m_pNext, x, C) \ {n}
  BY <1>4, <1>7, <1>9, AheadRemove
<1>11. Ahead(i) = Along(m_pNext, x, C) /\ Ahead(i)' = Along(m_pNext', x2, C \ {n})
  BY <1>1, <1>3 DEF Ahead, NodesOf
<1>12. NodesOf(m_pList[i])' = C \ {n} /\ NodesOf(m_pList[i]) = C
  BY <1>1 DEF NodesOf
<1>13. m_pEnuming'[i] # NULL => m_pSelf'[m_pEnuming'[i]] = l
  <2>1. e2 \in (C \ {n}) \cup {NULL}
    BY <1>4, <1>5, <1>6
  <2>2. \A y \in NodesOf(l)' : m_pSelf'[y] = l
    BY DEF NodesOf
  <2> QED
    BY <1>1, <1>2, <2>1, <2>2
<1>14. WalkInv(i)
  BY DEF Inv
<1>15. e = NULL => e2 = NULL
  BY <1>4, <1>6
<1> QED
  BY <1>2, <1>10, <1>11, <1>12, <1>13, <1>14, <1>15 DEF WalkInv

LEMMA UnlinkInv ==
  ASSUME Inv, NEW l \in Lists, NEW n \in Nodes, NEW free,
         NEW moving \in SUBSET IteratorsOf(l), Unlink(l, n, free, moving)
  PROVE  Inv'
<1> DEFINE C == NodesOf(l)
<1>1. /\ m_pSelf[n] = l
      /\ m_pNext' = [Set(m_pNext, m_pPrev[n], m_pNext[n]) EXCEPT ![n] = NULL]
      /\ m_pPrev' = [Set(m_pPrev, m_pNext[n], m_pPrev[n]) EXCEPT ![n] = NULL]
      /\ m_pSelf' = [m_pSelf EXCEPT ![n] = NULL]
      /\ UNCHANGED chainVars
  BY DEF Unlink, IsOn
<1>2. /\ m_pFirstNode \in [Lists -> Nodes \cup {NULL}]
      /\ m_pLastNode \in [Lists -> Nodes \cup {NULL}]
      /\ m_iCount \in [Lists -> Nat]
      /\ m_pPrev \in [Nodes -> Nodes \cup {NULL}]
      /\ m_pNext \in [Nodes -> Nodes \cup {NULL}]
      /\ m_pSelf \in [Nodes -> Lists \cup {NULL}]
  BY DEF Inv, TypeOK
<1>3. /\ n \in C /\ C \in SUBSET Nodes /\ NULL \notin C /\ l # NULL /\ NULL \notin Nodes
      /\ IsFiniteSet(C)
      /\ Chain(C, m_pFirstNode[l], m_pNext, m_pPrev)
      /\ Chain(C, m_pLastNode[l], m_pPrev, m_pNext)
      /\ C \subseteq allocated /\ m_iCount[l] = Cardinality(C)
  BY <1>1, Members, NullAssumption DEF Inv, ListInv, NodesOf
<1>4. PICK p, q : p = m_pPrev[n] /\ q = m_pNext[n]
  OBVIOUS
<1>5. p \in C \cup {NULL} /\ q \in C \cup {NULL} /\ p # n /\ q # n
  <2>1. m_pNext[n] # n /\ m_pPrev[n] # n
    BY <1>3, Acyclic
  <2> QED
    BY <1>3, <1>4, <2>1 DEF Chain
<1>6. /\ m_pNext' \in [Nodes -> Nodes \cup {NULL}] /\ m_pNext'[n] = NULL
      /\ \A x \in Nodes \ {n} : m_pNext'[x] = IF x = p THEN q ELSE m_pNext[x]
  <2>1. BothSet(Nodes, m_pNext, p, q, n, NULL, m_pNext')
    BY <1>1, <1>2, <1>3, <1>4, <1>5 DEF BothSet
  <2> QED
    BY <2>1, SetFields
<1>7. /\ m_pPrev' \in [Nodes -> Nodes \cup {NULL}] /\ m_pPrev'[n] = NULL
      /\ \A x \in Nodes \ {n} : m_pPrev'[x] = IF x = q THEN p ELSE m_pPrev[x]
  <2>1. BothSet(Nodes, m_pPrev, q, p, n, NULL, m_pPrev')
    BY <1>1, <1>2, <1>3, <1>4, <1>5 DEF BothSet
  <2> QED
    BY <2>1, SetFields
<1>8. /\ m_pFirstNode' \in [Lists -> Nodes \cup {NULL}]
      /\ m_pFirstNode'[l] = IF m_pFirstNode[l] = n THEN m_pNext[n] ELSE m_pFirstNode[l]
      /\ \A k \in Lists : k # l => m_pFirstNode'[k] = m_pFirstNode[k]
  <2>1. m_pFirstNode' = [m_pFirstNode EXCEPT ![l] = IF @ = n THEN m_pNext[n] ELSE @]
    BY DEF Unlink
  <2> QED
    BY <1>2, <2>1
<1>9. /\ m_pLastNode' \in [Lists -> Nodes \cup {NULL}]
      /\ m_pLastNode'[l] = IF m_pLastNode[l] = n THEN m_pPrev[n] ELSE m_pLastNode[l]
      /\ \A k \in Lists : k # l => m_pLastNode'[k] = m_pLastNode[k]
  <2>1. m_pLastNode' = [m_pLastNode EXCEPT ![l] = IF @ = n THEN m_pPrev[n] ELSE @]
    BY DEF Unlink
  <2> QED
    BY <1>2, <2>1
<1>10. /\ m_iCount' \in [Lists -> Nat]
       /\ m_iCount'[l] = Cardinality(C \ {n})
       /\ \A k \in Lists : k # l => m_iCount'[k] = m_iCount[k]
  <2>1. m_iCount' = [m_iCount EXCEPT ![l] = @ - 1]
    BY DEF Unlink
  <2>2. Cardinality(C \ {n}) \in Nat /\ Cardinality(C \ {n}) = Cardinality(C) - 1
    BY <1>3, FS_RemoveElement, FS_CardinalityType
  <2>3. m_iCount' = [m_iCount EXCEPT ![l] = Cardinality(C \ {n})]
    BY <1>2, <1>3, <2>1, <2>2
  <2> QED
    BY <1>2, <2>2, <2>3, OneChanged
<1>11. allocated \ {n} \subseteq allocated' /\ allocated' \subseteq allocated
  BY DEF Unlink
<1>12. NodesOf(l)' = C \ {n} /\ \A k \in Lists : k # l => NodesOf(k)' = NodesOf(k)
  <2>1. \A k \in Lists : NodesOf(k)' = NodesOf(k) \ {n}
    <3>1. TypeOK /\ NULL \in Lists \cup {NULL} /\ NULL \notin Lists
      BY NullAssumption DEF Inv
    <3> QED
      BY <1>1, <3>1, SelfChanged
  <2>2. ASSUME NEW k \in Lists, k # l PROVE n \notin NodesOf(k)
    BY <1>1, <2>2 DEF NodesOf
  <2>3. NodesOf(l)' = C \ {n}
    BY <2>1
  <2>4. ASSUME NEW k \in Lists, k # l PROVE NodesOf(k)' = NodesOf(k)
    BY <2>1, <2>2, <2>4
  <2> QED
    BY <2>3, <2>4
<1>13. Removed(C, m_pFirstNode[l], m_pNext, m_pPrev, n, m_pFirstNode'[l], m_pNext', m_pPrev')
  BY <1>3, <1>4, <1>6, <1>7, <1>8 DEF Removed
<1>14. Removed(C, m_pLastNode[l], m_pPrev, m_pNext, n, m_pLastNode'[l], m_pPrev', m_pNext')
  BY <1>3, <1>4, <1>6, <1>7, <1>9 DEF Removed
<1>15. m_pEnuming' = [i \in Iterators |-> IF m_pList[i] = l THEN Moved(n, m_pEnuming[i])
                                                          ELSE m_pEnuming[i]]
  <2>1. Along(itPrev, m_pIterator[l], Iterators) = IteratorsOf(l)
    <3>1. ChainInv(l) /\ NULL \notin Iterators /\ IteratorsOf(l) \in SUBSET Iterators
      BY NullAssumption, Members DEF Inv
    <3> QED
      BY <3>1, ChainAlong DEF ChainInv
  <2>2. \A i \in Iterators : i \in IteratorsOf(l) \cup moving <=> m_pList[i] = l
    BY DEF IteratorsOf
  <2>3. m_pEnuming' = [i \in Iterators |->
                         IF i \in Along(itPrev, m_pIterator[l], Iterators) \cup moving
                         THEN Moved(n, m_pEnuming[i]) ELSE m_pEnuming[i]]
    BY DEF Unlink
  <2> QED
    BY <2>1, <2>2, <2>3
<1>16. /\ done' = [i \in Iterators |-> done[i] \ {n}]
       /\ todo' = [i \in Iterators |-> todo[i] \ {n}]
       /\ walk' = walk
  BY DEF Unlink, Forget
<1>17. TypeOK'
  <2>1. m_pSelf' \in [Nodes -> Lists \cup {NULL}] /\ allocated' \subseteq Nodes
    BY <1>1, <1>2, <1>11 DEF Inv, TypeOK
  <2>2. \A e \in Nodes \cup {NULL} : Moved(n, e) \in Nodes \cup {NULL}
    BY <1>2 DEF Moved
  <2>3. m_pEnuming' \in [Iterators -> Nodes \cup {NULL}]
    BY <1>15, <2>2 DEF Inv, TypeOK
  <2>4. done' \in [Iterators -> SUBSET Nodes] /\ todo' \in [Iterators -> SUBSET Nodes]
    BY <1>16 DEF Inv, TypeOK
  <2> QED
    BY <1>1, <1>6, <1>7, <1>8, <1>9, <1>10, <1>16, <2>1, <2>3, <2>4
       DEF Inv, TypeOK, chainVars
<1>18. ASSUME NEW k \in Lists
       PROVE  ListInv(k)'
  <2>1. CASE k # l
    <3>1. n \notin NodesOf(k) /\ p \notin NodesOf(k) /\ q \notin NodesOf(k)
      <4>1. \A x \in NodesOf(k) : m_pSelf[x] = k /\ x \in Nodes
        BY DEF NodesOf
      <4>2. \A x \in NodesOf(l) : m_pSelf[x] = l
        BY DEF NodesOf
      <4>3. NULL \notin NodesOf(k)
        BY <1>3, <4>1
      <4> QED
        BY <1>3, <1>5, <2>1, <4>1, <4>2, <4>3
    <3>2. NodesOf(k) \subseteq Nodes /\ NodesOf(k) \subseteq allocated'
      BY <1>11, <3>1, Members DEF Inv, ListInv
    <3>3. \A x \in NodesOf(k) : m_pNext'[x] = m_pNext[x] /\ m_pPrev'[x] = m_pPrev[x]
      BY <1>6, <1>7, <3>1, <3>2
    <3> QED
      BY <1>8, <1>9, <1>10, <1>12, <2>1, <3>2, <3>3, ListKept
  <2>2. CASE k = l
    <3>1. Chain(C \ {n}, m_pFirstNode'[l], m_pNext', m_pPrev')
      BY <1>3, <1>13, ChainRemove
    <3>2. Chain(C \ {n}, m_pLastNode'[l], m_pPrev', m_pNext')
      BY <1>3, <1>14, ChainRemove
    <3>3. C \ {n} \subseteq allocated'
      BY <1>3, <1>11
    <3> QED
      BY <1>10, <1>12, <2>2, <3>1, <3>2, <3>3 DEF ListInv
  <2> QED
    BY <2>1, <2>2
<1>19. \A k \in Lists : ChainInv(k)'
  BY <1>1, IteratorsKept DEF chainVars
<1>20. ASSUME NEW i \in Iterators
       PROVE  WalkInv(i)' /\ (m_pList'[i] # NULL => i \in existing')
  <2>1. m_pList' = m_pList /\ (m_pList'[i] # NULL => i \in existing')
    BY <1>1 DEF Inv, chainVars
  <2>2. CASE walk[i] = "none"
    BY <1>16, <2>1, <2>2 DEF WalkInv
  <2>3. CASE walk[i] # "none" /\ m_pList[i] = l
    <3>1. /\ m_pEnuming'[i] = Moved(n, m_pEnuming[i])
          /\ done'[i] = done[i] \ {n} /\ todo'[i] = todo[i] \ {n}
      BY <1>15, <1>16, <2>3
    <3> QED
      BY <1>3, <1>12, <1>13, <1>16, <2>1, <2>3, <3>1, WalkLoses
  <2>4. CASE walk[i] # "none" /\ m_pList[i] # l
    <3>1. PICK k : k = m_pList[i]
      OBVIOUS
    <3>2. k \in Lists /\ k # l /\ done[i] \cup todo[i] \subseteq NodesOf(k)
      BY <2>4, <3>1, OnwardOnList DEF Inv, WalkInv
    <3>3. \A x \in NodesOf(k) : x # n /\ x # p /\ x \in Nodes
      BY <1>3, <1>5, <3>2 DEF NodesOf
    <3>4. done'[i] = done[i] /\ todo'[i] = todo[i] /\ m_pEnuming'[i] = m_pEnuming[i]
      BY <1>15, <1>16, <2>4, <3>2, <3>3
    <3>5. /\ NodesOf(k)' = NodesOf(k) /\ m_pFirstNode'[k] = m_pFirstNode[k]
          /\ \A x \in NodesOf(k) : m_pNext'[x] = m_pNext[x]
      BY <1>6, <1>8, <1>12, <3>2, <3>3
    <3> QED
      BY <1>16, <2>1, <3>1, <3>4, <3>5, WalkKept
  <2> QED
    BY <2>2, <2>3, <2>4
<1> QED
  BY <1>17, <1>18, <1>19, <1>20 DEF Inv

LEMMA ClearInv ==
  ASSUME Inv, NEW l \in Lists, Clear(l)
  PROVE  Inv'
<1> DEFINE C == NodesOf(l)
<1>1. /\ C \in SUBSET Nodes /\ NULL \notin C /\ l # NULL /\ NULL \notin Nodes /\ NULL \notin Lists
      /\ Chain(C, m_pFirstNode[l], m_pNext, m_pPrev)
  BY Members, NullAssumption DEF Inv, ListInv
<1>2. Along(m_pNext, m_pFirstNode[l], Nodes) = C
  BY <1>1, ChainAlong
<1>3. /\ m_pFirstNode' = [m_pFirstNode EXCEPT ![l] = NULL]
      /\ m_pLastNode'  = [m_pLastNode EXCEPT ![l] = NULL]
      /\ m_iCount' = [m_iCount EXCEPT ![l] = 0]
      /\ allocated' = allocated \ C
      /\ m_pPrev' = [n \in Nodes |-> IF n \in C THEN NULL ELSE m_pPrev[n]]
      /\ m_pNext' = [n \in Nodes |-> IF n \in C THEN NULL ELSE m_pNext[n]]
      /\ m_pSelf' = [n \in Nodes |-> IF n \in C THEN NULL ELSE m_pSelf[n]]
      /\ walk' = [i \in Iterators |-> IF m_pList[i] = l THEN "none" ELSE walk[i]]
      /\ done' = [i \in Iterators |-> IF m_pList[i] = l THEN {} ELSE done[i]]
      /\ todo' = [i \in Iterators |-> IF m_pList[i] = l THEN {} ELSE todo[i]]
      /\ UNCHANGED <<m_pEnuming, chainVars>>
  BY <1>2 DEF Clear
<1>4. /\ m_pFirstNode'[l] = NULL /\ m_pLastNode'[l] = NULL /\ m_iCount'[l] = 0
      /\ \A k \in Lists : k # l => /\ m_pFirstNode'[k] = m_pFirstNode[k]
                                   /\ m_pLastNode'[k] = m_pLastNode[k]
                                   /\ m_iCount'[k] = m_iCount[k]
  BY <1>3 DEF Inv, TypeOK
<1>5. NodesOf(l)' = {}
  BY <1>1, <1>3 DEF NodesOf
<1>6. ASSUME NEW k \in Lists, k # l
      PROVE  /\ NodesOf(k)' = NodesOf(k) /\ NodesOf(k) \cap C = {}
             /\ \A n \in NodesOf(k) : m_pNext'[n] = m_pNext[n] /\ m_pPrev'[n] = m_pPrev[n]
  <2>1. NodesOf(k) \cap C = {}
    BY <1>6 DEF NodesOf
  <2>2. \A n \in Nodes : m_pSelf'[n] = k <=> m_pSelf[n] = k
    BY <1>1, <1>3, <1>6 DEF NodesOf
  <2>3. NodesOf(k)' = NodesOf(k)
    BY <2>2 DEF NodesOf
  <2>4. \A n \in NodesOf(k) : n \in Nodes \ C
    BY <2>1 DEF NodesOf
  <2> QED
    BY <1>3, <2>1, <2>3, <2>4
<1>7. TypeOK'
  <2>1. /\ m_pFirstNode' \in [Lists -> Nodes \cup {NULL}]
        /\ m_pLastNode' \in [Lists -> Nodes \cup {NULL}]
        /\ m_iCount' \in [Lists -> Nat]
    BY <1>3 DEF Inv, TypeOK
  <2>2. /\ m_pPrev' \in [Nodes -> Nodes \cup {NULL}]
        /\ m_pNext' \in [Nodes -> Nodes \cup {NULL}]
        /\ m_pSelf' \in [Nodes -> Lists \cup {NULL}]
        /\ allocated' \subseteq Nodes
    BY <1>3 DEF Inv, TypeOK
  <2>3. /\ walk' \in [Iterators -> {"none", "walking", "ended"}]
        /\ done' \in [Iterators -> SUBSET Nodes]
        /\ todo' \in [Iterators -> SUBSET Nodes]
    BY <1>3 DEF Inv, TypeOK
  <2> QED
    BY <1>3, <2>1, <2>2, <2>3 DEF Inv, TypeOK, chainVars
<1>8. ASSUME NEW k \in Lists
      PROVE  ListInv(k)'
  <2>1. CASE k # l
    <3>1. NodesOf(k) \subseteq allocated'
      BY <1>3, <1>6, <2>1 DEF Inv, ListInv
    <3> QED
      BY <1>4, <1>6, <2>1, <3>1, ListKept
  <2>2. CASE k = l
    BY <1>4, <1>5, <2>2, ChainEmpty, FS_EmptySet DEF ListInv
  <2> QED
    BY <2>1, <2>2
<1>9. \A k \in Lists : ChainInv(k)'
  BY <1>3, IteratorsKept DEF chainVars
<1>10. ASSUME NEW i \in Iterators
       PROVE  WalkInv(i)' /\ (m_pList'[i] # NULL => i \in existing')
  <2>1. /\ m_pList' = m_pList /\ m_pEnuming' = m_pEnuming
        /\ m_pList'[i] # NULL => i \in existing'
    BY <1>3 DEF Inv, chainVars
  <2>2. CASE m_pList[i] = l
    <3>1. walk'[i] = "none"
      BY <1>3, <2>2
    <3> QED
      BY <2>1, <3>1 DEF WalkInv
  <2>3. CASE m_pList[i] # l
    <3>1. PICK k : k = m_pList[i]
      OBVIOUS
    <3>2. walk[i] # "none" => k \in Lists /\ k # l
      BY <2>3, <3>1, OnwardOnList
    <3>3. walk'[i] = walk[i] /\ done'[i] = done[i] /\ todo'[i] = todo[i]
      BY <1>3, <2>3
    <3>4. walk[i] # "none" =>
            /\ NodesOf(k)' = NodesOf(k) /\ m_pFirstNode'[k] = m_pFirstNode[k]
            /\ \A n \in NodesOf(k) : m_pNext'[n] = m_pNext[n]
      BY <1>4, <1>6, <3>2
    <3> QED
      BY <2>1, <3>1, <3>3, <3>4, WalkKept
  <2> QED
    BY <2>2, <2>3
<1> QED
  BY <1>7, <1>8, <1>9, <1>10 DEF Inv

\* Nothing depends on the nodes on no list or on the iterators of none.
LEMMA OthersInv ==
  ASSUME Inv, UNCHANGED <<endVars, m_pPrev, m_pNext, m_pSelf, walkVars>>,
         UNCHANGED <<m_pIterator, m_pList, itPrev, itNext>>,
         allocated' \subseteq Nodes, \A n \in allocated : m_pSelf[n] # NULL => n \in allocated',
         existing' \subseteq Iterators, existing \subseteq existing'
  PROVE  Inv'
<1>1. UNCHANGED <<m_pFirstNode, m_pLastNode, m_iCount, m_pEnuming, walk, done, todo>>
  BY DEF endVars, walkVars
<1>2. TypeOK'
  BY <1>1 DEF Inv, TypeOK
<1>3. \A k \in Lists : NodesOf(k)' = NodesOf(k)
  BY DEF NodesOf
<1>4. ASSUME NEW k \in Lists PROVE ListInv(k)'
  <2>1. NodesOf(k) \subseteq allocated'
    BY NullAssumption DEF Inv, ListInv, NodesOf
  <2> QED
    BY <1>1, <1>3, <2>1, ListKept
<1>5. \A k \in Lists : ChainInv(k)'
  BY IteratorsKept
<1>6. ASSUME NEW i \in Iterators
      PROVE  WalkInv(i)' /\ (m_pList'[i] # NULL => i \in existing')
  <2>1. m_pList'[i] # NULL => i \in existing'
    BY DEF Inv
  <2>2. PICK k : k = m_pList[i]
    OBVIOUS
  <2>3. walk[i] # "none" => k \in Lists
    BY <2>2, OnwardOnList
  <2> QED
    BY <1>1, <1>3, <2>1, <2>2, <2>3, WalkKept
<1> QED
  BY <1>2, <1>4, <1>5, <1>6 DEF Inv

-------------------------------------------------------------------------------
(* Iterators come and go. *)

LEMMA ListsSame ==
  ASSUME Inv, UNCHANGED <<endVars, nodeVars>>, NEW l \in Lists
  PROVE  ListInv(l)' /\ NodesOf(l)' = NodesOf(l)
<1>1. NodesOf(l)' = NodesOf(l)
  BY DEF NodesOf, nodeVars
<1> QED
  BY <1>1, ListKept DEF Inv, ListInv, endVars, nodeVars

LEMMA WalksSame ==
  ASSUME Inv, UNCHANGED <<endVars, nodeVars>>, NEW i \in Iterators,
         m_pList'[i] = m_pList[i], m_pEnuming'[i] = m_pEnuming[i],
         walk'[i] = walk[i], done'[i] = done[i], todo'[i] = todo[i]
  PROVE  WalkInv(i)'
<1>1. PICK k : k = m_pList[i]
  OBVIOUS
<1>2. walk[i] # "none" => k \in Lists
  BY <1>1, OnwardOnList
<1>3. walk[i] # "none" => NodesOf(k)' = NodesOf(k)
  BY <1>2, ListsSame
<1>4. m_pFirstNode' = m_pFirstNode /\ m_pNext' = m_pNext
  BY DEF endVars, nodeVars
<1> QED
  BY <1>1, <1>3, <1>4, WalkKept

\* What the chains are once an iterator is out of them.
LEMMA Without ==
  ASSUME Inv, RuleKept, NEW i \in Iterators, MayLeave(i),
         NEW prev, prev = WithoutPrev(i), NEW next, next = WithoutNext(i)
  PROVE  /\ prev \in [Iterators -> Iterators \cup {NULL}]
         /\ next \in [Iterators -> Iterators \cup {NULL}]
         /\ \A k \in Lists : Chain(IteratorsOf(k) \ {i}, m_pIterator[k], prev, next)
<1>1. /\ itPrev \in [Iterators -> Iterators \cup {NULL}]
      /\ itNext \in [Iterators -> Iterators \cup {NULL}]
      /\ m_pList \in [Iterators -> Lists \cup {NULL}]
      /\ \A k \in Lists : Chain(IteratorsOf(k), m_pIterator[k], itPrev, itNext)
  BY DEF Inv, TypeOK, ChainInv
<1>2. CASE m_pList[i] = NULL
  <2>1. prev = itPrev /\ next = itNext
    BY <1>2 DEF WithoutPrev, WithoutNext
  <2>2. \A k \in Lists : IteratorsOf(k) \ {i} = IteratorsOf(k)
    BY <1>2, NullAssumption DEF IteratorsOf
  <2> QED
    BY <1>1, <2>1, <2>2
<1>3. CASE m_pList[i] # NULL
  <2>1. PICK l \in Lists : l = m_pList[i]
    BY <1>1, <1>3
  <2>2. /\ i \in IteratorsOf(l) /\ NULL \notin Iterators
        /\ IteratorsOf(l) \in SUBSET Iterators
    BY <2>1, NullAssumption DEF IteratorsOf
  <2>3. PICK p, q : p = itPrev[i] /\ q = itNext[i]
    OBVIOUS
  <2>4. p \in IteratorsOf(l) \cup {NULL} /\ q \in IteratorsOf(l) \cup {NULL}
    BY <1>1, <2>2, <2>3 DEF Chain
  <2>5. BothSet(Iterators, itPrev, q, p, i, NULL, prev)
    BY <1>1, <1>3, <2>2, <2>3, <2>4 DEF BothSet, WithoutPrev
  <2>6. /\ prev \in [Iterators -> Iterators \cup {NULL}]
        /\ \A x \in Iterators \ {i} : prev[x] = IF x = q THEN p ELSE itPrev[x]
    BY <2>5, SetFields
  <2>7. BothSet(Iterators, itNext, p, q, i, NULL, next)
    BY <1>1, <1>3, <2>2, <2>3, <2>4 DEF BothSet, WithoutNext
  <2>8. /\ next \in [Iterators -> Iterators \cup {NULL}]
        /\ \A x \in Iterators \ {i} : next[x] = IF x = p THEN q ELSE itNext[x]
    BY <2>7, SetFields
  <2>9. ASSUME NEW k \in Lists
        PROVE  Chain(IteratorsOf(k) \ {i}, m_pIterator[k], prev, next)
    <3>1. NULL \notin IteratorsOf(k)
      BY Members DEF Inv
    <3>2. CASE k = l
      <4>1. m_pIterator[l] # i
        BY <1>3, <2>1 DEF MayLeave, RuleKept
      <4>2. Removed(IteratorsOf(k), m_pIterator[k], itPrev, itNext, i, m_pIterator[k],
                    prev, next)
        BY <2>2, <2>3, <2>6, <2>8, <3>2, <4>1 DEF Removed
      <4> QED
        BY <1>1, <3>1, <4>2, ChainRemove
    <3>3. CASE k # l
      <4>1. \A x \in IteratorsOf(k) : m_pList[x] = k /\ x \in Iterators
        BY DEF IteratorsOf
      <4>2. \A x \in IteratorsOf(l) : m_pList[x] = l
        BY DEF IteratorsOf
      <4>3. \A x \in IteratorsOf(k) : x # i /\ x # p /\ x # q
        BY <2>2, <2>4, <3>1, <3>3, <4>1, <4>2
      <4>4. \A x \in IteratorsOf(k) : prev[x] = itPrev[x] /\ next[x] = itNext[x]
        BY <2>6, <2>8, <4>1, <4>3
      <4>5. Chain(IteratorsOf(k), m_pIterator[k], prev, next)
        BY <1>1, <3>1, <4>4, ChainSame
      <4>6. IteratorsOf(k) \ {i} = IteratorsOf(k)
        BY <4>3
      <4> QED
        BY <4>5, <4>6
    <3> QED
      BY <3>2, <3>3
  <2> QED
    BY <2>6, <2>8, <2>9
<1> QED
  BY <1>2, <1>3

\* The iterators of the lists when an iterator goes to a list, or to none.
LEMMA ListChanged ==
  ASSUME TypeOK, NEW i \in Iterators, NEW k \in Lists \cup {NULL},
         m_pList' = [m_pList EXCEPT ![i] = k]
  PROVE  \A l \in Lists : IteratorsOf(l)' = IF l = k THEN IteratorsOf(l) \cup {i}
                                                    ELSE IteratorsOf(l) \ {i}
<1>1. m_pList \in [Iterators -> Lists \cup {NULL}]
  BY DEF TypeOK
<1>2. \A x \in Iterators : m_pList'[x] = IF x = i THEN k ELSE m_pList[x]
  BY <1>1
<1> QED
  BY <1>2 DEF IteratorsOf

LEMMA JoinInv ==
  ASSUME Inv, NEW i \in Iterators, NEW l \in Lists, NEW prev, NEW next,
         prev \in [Iterators -> Iterators \cup {NULL}],
         next \in [Iterators -> Iterators \cup {NULL}],
         \A k \in Lists : Chain(IteratorsOf(k) \ {i}, m_pIterator[k], prev, next),
         Join(i, l, prev, next), existing' = existing \cup {i}
  PROVE  Inv'
<1>1. PICK h : h = m_pIterator[l]
  OBVIOUS
<1>2. /\ m_pList' = [m_pList EXCEPT ![i] = l]
      /\ itPrev' = [prev EXCEPT ![i] = h]
      /\ itNext' = Set([next EXCEPT ![i] = NULL], h, i)
      /\ m_pIterator' = [m_pIterator EXCEPT ![l] = i]
      /\ NotWalking(i)
      /\ UNCHANGED <<endVars, nodeVars>>
  BY <1>1 DEF Join
<1>3. /\ m_pIterator \in [Lists -> Iterators \cup {NULL}]
      /\ m_pList \in [Iterators -> Lists \cup {NULL}]
      /\ l # NULL /\ NULL \notin Iterators
  BY NullAssumption DEF Inv, TypeOK
<1>4. h \in (IteratorsOf(l) \ {i}) \cup {NULL} /\ h # i /\ h \in Iterators \cup {NULL}
  BY <1>1, <1>3 DEF Chain, IteratorsOf
<1>5. /\ itPrev' \in [Iterators -> Iterators \cup {NULL}] /\ itPrev'[i] = h
      /\ \A x \in Iterators \ {i} : itPrev'[x] = prev[x]
  BY <1>2, <1>4
<1>6. /\ itNext' \in [Iterators -> Iterators \cup {NULL}] /\ itNext'[i] = NULL
      /\ \A x \in Iterators \ {i} : itNext'[x] = IF x = h THEN i ELSE next[x]
  <2>1. CASE h = NULL
    <3>1. itNext' = [next EXCEPT ![i] = NULL]
      BY <1>2, <2>1 DEF Set
    <3> QED
      BY <1>3, <2>1, <3>1
  <2>2. CASE h # NULL
    <3>1. itNext' = [[next EXCEPT ![i] = NULL] EXCEPT ![h] = i]
      BY <1>2, <2>2 DEF Set
    <3> QED
      BY <1>4, <2>2, <3>1
  <2> QED
    BY <2>1, <2>2
<1>7. /\ m_pIterator' \in [Lists -> Iterators \cup {NULL}] /\ m_pIterator'[l] = i
      /\ \A k \in Lists : k # l => m_pIterator'[k] = m_pIterator[k]
  BY <1>2, <1>3
<1>8. /\ m_pList' \in [Iterators -> Lists \cup {NULL}]
      /\ \A j \in Iterators : j # i => m_pList'[j] = m_pList[j]
  BY <1>2, <1>3
<1>9. \A k \in Lists : IteratorsOf(k)' = IF k = l THEN IteratorsOf(k) \cup {i}
                                                 ELSE IteratorsOf(k) \ {i}
  BY <1>2, ListChanged DEF Inv
<1>10. /\ m_pEnuming' = [m_pEnuming EXCEPT ![i] = NULL] /\ walk' = [walk EXCEPT ![i] = "none"]
       /\ done' = [done EXCEPT ![i] = {}] /\ todo' = [todo EXCEPT ![i] = {}]
  BY <1>2 DEF NotWalking
<1>11. TypeOK'
  <2>1. /\ m_pEnuming' \in [Iterators -> Nodes \cup {NULL}]
        /\ walk' \in [Iterators -> {"none", "walking", "ended"}]
    BY <1>10 DEF Inv, TypeOK
  <2>2. done' \in [Iterators -> SUBSET Nodes] /\ todo' \in [Iterators -> SUBSET Nodes]
    BY <1>10 DEF Inv, TypeOK
  <2> QED
    BY <1>2, <1>5, <1>6, <1>7, <1>8, <2>1, <2>2 DEF Inv, TypeOK, endVars, nodeVars
<1>12. \A k \in Lists : ListInv(k)'
  BY <1>2, ListsSame
<1>13. ASSUME NEW k \in Lists
       PROVE  ChainInv(k)'
  <2>1. PICK D : D = IteratorsOf(k) \ {i}
    OBVIOUS
  <2>2. /\ D \in SUBSET Iterators /\ NULL \notin D /\ i \notin D
        /\ Chain(D, m_pIterator[k], prev, next)
    BY <1>3, <2>1 DEF IteratorsOf
  <2>3. CASE k = l
    <3>1. Inserted(D, m_pIterator[k], prev, next, i, NULL, h, i, itPrev', itNext')
      BY <1>1, <1>3, <1>4, <1>5, <1>6, <2>1, <2>2, <2>3 DEF Inserted
    <3>2. Chain(D \cup {i}, i, itPrev', itNext')
      BY <2>2, <3>1, ChainInsert
    <3>3. IteratorsOf(k)' = D \cup {i}
      BY <1>9, <2>1, <2>3
    <3> QED
      BY <1>7, <2>3, <3>2, <3>3 DEF ChainInv
  <2>4. CASE k # l
    <3>1. h \notin D
      BY <1>4, <2>1, <2>2, <2>4 DEF IteratorsOf
    <3>2. \A x \in D : itPrev'[x] = prev[x] /\ itNext'[x] = next[x]
      BY <1>5, <1>6, <2>2, <3>1
    <3>3. Chain(D, m_pIterator[k], itPrev', itNext')
      BY <2>2, <3>2, ChainSame
    <3>4. IteratorsOf(k)' = D
      BY <1>9, <2>1, <2>4
    <3> QED
      BY <1>7, <2>4, <3>3, <3>4 DEF ChainInv
  <2> QED
    BY <2>3, <2>4
<1>14. ASSUME NEW j \in Iterators
       PROVE  WalkInv(j)' /\ (m_pList'[j] # NULL => j \in existing')
  <2>1. m_pList'[j] # NULL => j \in existing'
    BY <1>8 DEF Inv
  <2>2. CASE j = i
    <3>1. walk'[j] = "none"
      BY <1>10, <2>2 DEF Inv, TypeOK
    <3> QED
      BY <2>1, <3>1 DEF WalkInv
  <2>3. CASE j # i
    <3>1. m_pEnuming'[j] = m_pEnuming[j] /\ walk'[j] = walk[j]
      BY <1>10, <2>3 DEF Inv, TypeOK
    <3>2. done'[j] = done[j] /\ todo'[j] = todo[j]
      BY <1>10, <2>3 DEF Inv, TypeOK
    <3> QED
      BY <1>2, <1>8, <2>1, <2>3, <3>1, <3>2, WalksSame
  <2> QED
    BY <2>2, <2>3
<1> QED
  BY <1>11, <1>12, <1>13, <1>14 DEF Inv

LEMMA DeleteIteratorInv ==
  ASSUME Inv, RuleKept, NEW i \in Iterators, DeleteIterator(i)
  PROVE  Inv'
<1>1. /\ MayLeave(i) /\ existing' = existing \ {i}
      /\ m_pList' = [m_pList EXCEPT ![i] = NULL]
      /\ NotWalking(i)
      /\ UNCHANGED <<endVars, nodeVars, m_pIterator>>
  BY DEF DeleteIterator
<1>2. PICK prev, next : prev = WithoutPrev(i) /\ next = WithoutNext(i)
  OBVIOUS
<1>3. itPrev' = prev /\ itNext' = next
  BY <1>2 DEF DeleteIterator
<1>4. /\ prev \in [Iterators -> Iterators \cup {NULL}]
      /\ next \in [Iterators -> Iterators \cup {NULL}]
      /\ \A k \in Lists : Chain(IteratorsOf(k) \ {i}, m_pIterator[k], prev, next)
  BY <1>1, <1>2, Without
<1>5. \A k \in Lists : IteratorsOf(k)' = IteratorsOf(k) \ {i}
  <2>1. TypeOK /\ NULL \in Lists \cup {NULL} /\ NULL \notin Lists
    BY NullAssumption DEF Inv
  <2> QED
    BY <1>1, <2>1, ListChanged
<1>6. /\ m_pList' \in [Iterators -> Lists \cup {NULL}] /\ m_pList'[i] = NULL
      /\ \A j \in Iterators : j # i => m_pList'[j] = m_pList[j]
  BY <1>1 DEF Inv, TypeOK
<1>7. /\ m_pEnuming' = [m_pEnuming EXCEPT ![i] = NULL] /\ walk' = [walk EXCEPT ![i] = "none"]
      /\ done' = [done EXCEPT ![i] = {}] /\ todo' = [todo EXCEPT ![i] = {}]
  BY <1>1 DEF NotWalking
<1>8. TypeOK'
  <2>1. /\ m_pEnuming' \in [Iterators -> Nodes \cup {NULL}]
        /\ walk' \in [Iterators -> {"none", "walking", "ended"}]
    BY <1>7 DEF Inv, TypeOK
  <2>2. done' \in [Iterators -> SUBSET Nodes] /\ todo' \in [Iterators -> SUBSET Nodes]
    BY <1>7 DEF Inv, TypeOK
  <2> QED
    BY <1>1, <1>3, <1>4, <1>6, <2>1, <2>2 DEF Inv, TypeOK, endVars, nodeVars
<1>9. \A k \in Lists : ListInv(k)'
  BY <1>1, ListsSame
<1>10. \A k \in Lists : ChainInv(k)'
  BY <1>1, <1>3, <1>4, <1>5 DEF ChainInv
<1>11. ASSUME NEW j \in Iterators
       PROVE  WalkInv(j)' /\ (m_pList'[j] # NULL => j \in existing')
  <2>1. CASE j = i
    <3>1. walk'[j] = "none"
      BY <1>7, <2>1 DEF Inv, TypeOK
    <3> QED
      BY <1>6, <2>1, <3>1 DEF WalkInv
  <2>2. CASE j # i
    <3>1. m_pEnuming'[j] = m_pEnuming[j] /\ walk'[j] = walk[j]
      BY <1>7, <2>2 DEF Inv, TypeOK
    <3>2. done'[j] = done[j] /\ todo'[j] = todo[j]
      BY <1>7, <2>2 DEF Inv, TypeOK
    <3>3. m_pList'[j] # NULL => j \in existing'
      BY <1>1, <1>6, <2>2 DEF Inv
    <3> QED
      BY <1>1, <1>6, <2>2, <3>1, <3>2, <3>3, WalksSame
  <2> QED
    BY <2>1, <2>2
<1> QED
  BY <1>8, <1>9, <1>10, <1>11 DEF Inv

LEMMA NewIteratorOfInv ==
  ASSUME Inv, NEW i \in Iterators, NEW l \in Lists, NewIteratorOf(i, l)
  PROVE  Inv'
<1>1. i \notin existing /\ existing' = existing \cup {i} /\ Join(i, l, itPrev, itNext)
  BY DEF NewIteratorOf
<1>2. m_pList[i] = NULL
  BY <1>1 DEF Inv
<1>3. \A k \in Lists : IteratorsOf(k) \ {i} = IteratorsOf(k)
  BY <1>2, NullAssumption DEF IteratorsOf
<1>4. /\ itPrev \in [Iterators -> Iterators \cup {NULL}]
      /\ itNext \in [Iterators -> Iterators \cup {NULL}]
      /\ \A k \in Lists : Chain(IteratorsOf(k) \ {i}, m_pIterator[k], itPrev, itNext)
  BY <1>3 DEF Inv, TypeOK, ChainInv
<1> QED
  BY <1>1, <1>4, JoinInv

LEMMA SetListInv ==
  ASSUME Inv, RuleKept, NEW i \in Iterators, NEW l \in Lists, SetList(i, l)
  PROVE  Inv'
<1>1. PICK prev, next : prev = WithoutPrev(i) /\ next = WithoutNext(i)
  OBVIOUS
<1>2. MayLeave(i) /\ existing' = existing \cup {i} /\ Join(i, l, prev, next)
  BY <1>1 DEF SetList
<1>3. /\ prev \in [Iterators -> Iterators \cup {NULL}]
      /\ next \in [Iterators -> Iterators \cup {NULL}]
      /\ \A k \in Lists : Chain(IteratorsOf(k) \ {i}, m_pIterator[k], prev, next)
  BY <1>1, <1>2, Without
<1> QED
  BY <1>2, <1>3, JoinInv

-------------------------------------------------------------------------------
(* A walk begins, goes on or ends. *)

LEMMA ComeInv ==
  ASSUME Inv, NEW i \in Iterators, NEW l \in Lists, m_pList[i] = l,
         NEW n, NEW begins \in BOOLEAN, Come(i, n, begins),
         begins => n = m_pFirstNode[l],
         ~begins => walk[i] = "walking" /\ n = Onward(i)
  PROVE  Inv'
<1>1. PICK C, D, T : /\ C = NodesOf(l)
                     /\ D = IF begins THEN {} ELSE done[i]
                     /\ T = IF begins THEN C ELSE todo[i]
  OBVIOUS
<1>2. PICK A : A = Along(m_pNext, n, C)
  OBVIOUS
<1>3. /\ C \in SUBSET Nodes /\ NULL \notin C
      /\ Chain(C, m_pFirstNode[l], m_pNext, m_pPrev)
  BY <1>1, Members DEF Inv, ListInv
<1>4. n \in C \cup {NULL} /\ T \subseteq A /\ D \cap A = {} /\ D \cup T \subseteq C
  <2>1. CASE begins
    <3>1. A = C
      BY <1>2, <1>3, <2>1, ChainAlong
    <3> QED
      BY <1>1, <1>3, <2>1, <3>1 DEF Chain
  <2>2. CASE ~begins
    <3>1. WalkInv(i) /\ walk[i] = "walking" /\ D = done[i] /\ T = todo[i]
      BY <1>1, <2>2 DEF Inv
    <3>2. A = Ahead(i) /\ n \in C \cup {NULL}
      BY <1>1, <1>2, <2>2, OnwardOnList DEF Ahead
    <3> QED
      BY <1>1, <3>1, <3>2 DEF WalkInv
  <2> QED
    BY <2>1, <2>2
<1>5. /\ m_pEnuming' = [m_pEnuming EXCEPT ![i] = n]
      /\ walk' = [walk EXCEPT ![i] = IF n = NULL THEN "ended" ELSE "walking"]
      /\ UNCHANGED <<endVars, nodeVars, chainVars>>
  BY DEF Come
<1>6. /\ done' \in [Iterators -> SUBSET Nodes] /\ done'[i] = (D \cup {n}) \ {NULL}
      /\ \A j \in Iterators : j # i => done'[j] = done[j]
  <2>1. done' = [done EXCEPT ![i] = (D \cup {n}) \ {NULL}]
    BY <1>1 DEF Come, Inv, TypeOK
  <2>2. (D \cup {n}) \ {NULL} \in SUBSET Nodes
    BY <1>3, <1>4
  <2>3. done \in [Iterators -> SUBSET Nodes]
    BY DEF Inv, TypeOK
  <2> QED
    BY <2>1, <2>2, <2>3, OneChanged
<1>7. /\ todo' \in [Iterators -> SUBSET Nodes] /\ todo'[i] = T \ {n}
      /\ \A j \in Iterators : j # i => todo'[j] = todo[j]
  <2>1. todo' = [todo EXCEPT ![i] = T \ {n}]
    BY <1>1 DEF Come, Inv, TypeOK
  <2>2. T \ {n} \in SUBSET Nodes
    BY <1>3, <1>4
  <2>3. todo \in [Iterators -> SUBSET Nodes]
    BY DEF Inv, TypeOK
  <2> QED
    BY <2>1, <2>2, <2>3, OneChanged
<1>8. /\ m_pEnuming' \in [Iterators -> Nodes \cup {NULL}] /\ m_pEnuming'[i] = n
      /\ \A j \in Iterators : j # i => m_pEnuming'[j] = m_pEnuming[j]
  BY <1>3, <1>4, <1>5 DEF Inv, TypeOK
<1>9. /\ walk' \in [Iterators -> {"none", "walking", "ended"}]
      /\ walk'[i] = IF n = NULL THEN "ended" ELSE "walking"
      /\ \A j \in Iterators : j # i => walk'[j] = walk[j]
  BY <1>5 DEF Inv, TypeOK
<1>10. TypeOK'
  BY <1>5, <1>6, <1>7, <1>8, <1>9 DEF Inv, TypeOK, endVars, nodeVars, chainVars
<1>11. \A k \in Lists : ListInv(k)' /\ NodesOf(k)' = NodesOf(k)
  BY <1>5, ListsSame
<1>12. \A k \in Lists : ChainInv(k)'
  BY <1>5, IteratorsKept DEF chainVars
<1>13. m_pList' = m_pList /\ m_pNext' = m_pNext /\ m_pSelf' = m_pSelf
  BY <1>5 DEF chainVars, nodeVars
<1>14. WalkInv(i)'
  <2>1. NodesOf(m_pList[i])' = C /\ l # NULL
    BY <1>1, <1>13, NullAssumption DEF NodesOf
  <2>2. CASE n = NULL
    <3>1. A = {}
      BY <1>2, <2>2, AheadNowhere
    <3> QED
      BY <1>4, <1>6, <1>7, <1>8, <1>9, <1>13, <2>1, <2>2, <3>1 DEF WalkInv
  <2>3. CASE n # NULL
    <3>1. Ahead(i)' = Along(m_pNext, m_pNext[n], C)
      BY <1>8, <1>13, <2>1, <2>3 DEF Ahead, Onward
    <3>2. Ahead(i)' = A \ {n}
      BY <1>2, <1>3, <1>4, <2>3, <3>1, AheadNext
    <3>3. m_pSelf'[n] = l
      BY <1>1, <1>4, <1>13, <2>3 DEF NodesOf
    <3>4. done'[i] = D \cup {n} /\ n \in C
      BY <1>3, <1>4, <1>6, <2>3
    <3> QED
      BY <1>4, <1>7, <1>8, <1>9, <1>13, <2>1, <2>3, <3>2, <3>3, <3>4 DEF WalkInv
  <2> QED
    BY <2>2, <2>3
<1>15. ASSUME NEW j \in Iterators
       PROVE  WalkInv(j)' /\ (m_pList'[j] # NULL => j \in existing')
  <2>1. m_pList'[j] # NULL => j \in existing'
    BY <1>5 DEF Inv, chainVars
  <2>2. CASE j # i
    BY <1>5, <1>6, <1>7, <1>8, <1>9, <1>13, <2>1, <2>2, WalksSame
  <2> QED
    BY <1>14, <2>1, <2>2
<1> QED
  BY <1>10, <1>11, <1>12, <1>15 DEF Inv

LEMMA FirstInv ==
  ASSUME Inv, NEW i \in Iterators, First(i)
  PROVE  Inv'
<1>1. PICK l \in Lists : m_pList[i] = l
  BY DEF First, Inv, TypeOK
<1>2. Come(i, m_pFirstNode[l], TRUE)
  BY <1>1 DEF First
<1> QED
  BY <1>1, <1>2, ComeInv

LEMMA NextNodeInv ==
  ASSUME Inv, NEW i \in Iterators, NextNode(i)
  PROVE  Inv'
<1>1. PICK l \in Lists : m_pList[i] = l
  BY DEF NextNode, Inv, TypeOK
<1>2. PICK begins \in BOOLEAN : begins <=> walk[i] # "walking"
  OBVIOUS
<1>3. PICK n : n = Onward(i)
  OBVIOUS
<1>4. Come(i, n, begins)
  <2>1. CASE begins
    BY <1>2, <1>3, <2>1 DEF NextNode, Onward, Come
  <2>2. CASE ~begins
    BY <1>2, <1>3, <2>2 DEF NextNode, Onward, Come
  <2> QED
    BY <2>1, <2>2
<1>5. begins => n = m_pFirstNode[l]
  <2>1. begins => m_pEnuming[i] = NULL
    BY <1>2 DEF NextNode, Inv, TypeOK, WalkInv
  <2> QED
    BY <1>1, <1>3, <2>1 DEF Onward
<1> QED
  BY <1>1, <1>2, <1>3, <1>4, <1>5, ComeInv

-------------------------------------------------------------------------------
(* The invariant. *)

LEMMA InitInv ==
  ASSUME Init
  PROVE  Inv
<1>1. TypeOK
  BY DEF Init, TypeOK
<1>2. ASSUME NEW l \in Lists
      PROVE  ListInv(l) /\ ChainInv(l)
  <2>1. NodesOf(l) = {} /\ IteratorsOf(l) = {}
    BY NullAssumption DEF Init, NodesOf, IteratorsOf
  <2>2. m_pFirstNode[l] = NULL /\ m_pLastNode[l] = NULL /\ m_pIterator[l] = NULL
    BY DEF Init
  <2>3. m_iCount[l] = 0
    BY DEF Init
  <2> QED
    BY <2>1, <2>2, <2>3, ChainEmpty, FS_EmptySet DEF ListInv, ChainInv
<1>3. ASSUME NEW i \in Iterators
      PROVE  WalkInv(i) /\ (m_pList[i] # NULL => i \in existing)
  <2>1. walk[i] = "none" /\ m_pList[i] = NULL
    BY DEF Init
  <2> QED
    BY <2>1 DEF WalkInv
<1> QED
  BY <1>1, <1>2, <1>3 DEF Inv

LEMMA NextInv ==
  ASSUME Inv, RuleKept, [Next]_vars
  PROVE  Inv'
<1>1. CASE UNCHANGED vars
  <2>1. UNCHANGED <<endVars, m_pPrev, m_pNext, m_pSelf, walkVars>>
    BY <1>1 DEF vars, nodeVars
  <2>2. UNCHANGED <<m_pIterator, m_pList, itPrev, itNext, existing, allocated>>
    BY <1>1 DEF vars, nodeVars, chainVars
  <2> QED
    BY <2>1, <2>2, OthersInv DEF Inv, TypeOK
<1>2. ASSUME NEW n \in Nodes, AllocNode(n)
      PROVE  Inv'
  BY <1>2, OthersInv DEF AllocNode, chainVars, Inv, TypeOK
<1>3. ASSUME NEW n \in Nodes, FreeNode(n)
      PROVE  Inv'
  BY <1>3, OthersInv DEF FreeNode, chainVars, Inv, TypeOK
<1>4. ASSUME NEW l \in Lists, ListCall(l)
      PROVE  Inv'
  <2>1. ASSUME NEW n \in Nodes, NEW node \in NodesOf(l) \cup {NULL},
               LinkBefore(l, n, node) \/ LinkAfter(l, n, node)
        PROVE  Inv'
    BY <2>1, LinkBeforeInv, LinkAfterInv
  <2>2. ASSUME NEW n \in Nodes, NEW free \in BOOLEAN, Remove(l, n, free)
        PROVE  Inv'
    BY <2>2, UnlinkInv DEF Remove
  <2> QED
    BY <1>4, <2>1, <2>2, ClearInv DEF ListCall
<1>5. ASSUME NEW i \in Iterators, IteratorCall(i)
      PROVE  Inv'
  <2>1. ASSUME NewIterator(i)
        PROVE  Inv'
    BY <2>1, OthersInv DEF NewIterator, nodeVars, Inv, TypeOK
  <2>2. ASSUME NEW n \in Nodes, NEW free \in BOOLEAN, IteratorRemove(i, n, free)
        PROVE  Inv'
    <3>1. PICK l \in Lists : l = m_pList[i]
      BY <2>2 DEF IteratorRemove, Inv, TypeOK
    <3>2. {i} \in SUBSET IteratorsOf(l) /\ Unlink(l, n, free, {i})
      BY <2>2, <3>1 DEF IteratorRemove, IteratorsOf
    <3> QED
      BY <3>2, UnlinkInv
  <2>3. ASSUME NEW l \in Lists, NewIteratorOf(i, l) \/ SetList(i, l)
        PROVE  Inv'
    BY <2>3, NewIteratorOfInv, SetListInv
  <2> QED
    BY <1>5, <2>1, <2>2, <2>3, DeleteIteratorInv, FirstInv, NextNodeInv DEF IteratorCall
<1> QED
  BY <1>1, <1>2, <1>3, <1>4, <1>5 DEF Next

\* Every reachable state of a program that keeps the rule for its iterators satisfies
\* the inductive invariant: the nodes of a list are one chain from either end, its
\* iterators another, and a walk has ahead what it has to visit and nothing it has
\* visited. The rule: an iterator is not destroyed, nor given to another list, while
\* its list still points to it.
THEOREM Invariant ==
  ASSUME RuleKept
  PROVE  Spec => []Inv
<1>1. Init => Inv
  BY InitInv
<1>2. Inv /\ [Next]_vars => Inv'
  BY NextInv
<1> QED
  BY <1>1, <1>2, PTL DEF Spec

\* The fields of lists, nodes and iterators keep their types.
THEOREM TypeCorrect ==
  ASSUME RuleKept
  PROVE  Spec => []TypeOK
<1>1. Inv => TypeOK
  BY DEF Inv
<1> QED
  BY <1>1, Invariant, PTL

\* From either end a list is walked over exactly the nodes that say they are on it,
\* all of them there and m_iCount of them, and neighbours agree.
THEOREM Linked ==
  ASSUME RuleKept
  PROVE  Spec => []WellLinked
<1>1. ASSUME Inv, NEW l \in Lists
      PROVE  /\ Along(m_pNext, m_pFirstNode[l], Nodes) = NodesOf(l)
             /\ Along(m_pPrev, m_pLastNode[l], Nodes) = NodesOf(l)
             /\ NodesOf(l) \subseteq allocated
             /\ m_iCount[l] = Cardinality(NodesOf(l))
  <2>1. ListInv(l) /\ NULL \notin Nodes /\ NodesOf(l) \in SUBSET Nodes
    BY <1>1, NullAssumption, Members DEF Inv
  <2> QED
    BY <2>1, ChainAlong DEF ListInv
<1>2. ASSUME Inv, NEW l \in Lists, NEW n \in NodesOf(l)
      PROVE  /\ m_pNext[n] # NULL => m_pPrev[m_pNext[n]] = n
             /\ m_pPrev[n] # NULL => m_pNext[m_pPrev[n]] = n
  BY <1>2 DEF Inv, ListInv, Chain
<1>3. Inv => WellLinked
  BY <1>1, <1>2 DEF WellLinked
<1> QED
  BY <1>3, Invariant, PTL

\* A list reaches every iterator it has, and none that is gone, from m_pIterator:
\* what Remove relies on. Without the rule it is false; a run shows it.
THEOREM Registered ==
  ASSUME RuleKept
  PROVE  Spec => []IteratorsRegistered
<1>1. ASSUME Inv, NEW l \in Lists
      PROVE  Along(itPrev, m_pIterator[l], Iterators) = {i \in existing : m_pList[i] = l}
  <2>1. /\ Chain(IteratorsOf(l), m_pIterator[l], itPrev, itNext)
        /\ NULL \notin Iterators /\ IteratorsOf(l) \in SUBSET Iterators /\ l # NULL
    BY <1>1, NullAssumption, Members DEF Inv, ChainInv
  <2>2. Along(itPrev, m_pIterator[l], Iterators) = IteratorsOf(l)
    BY <2>1, ChainAlong
  <2>3. existing \subseteq Iterators /\ \A i \in IteratorsOf(l) : i \in existing
    BY <1>1, <2>1 DEF Inv, TypeOK, IteratorsOf
  <2> QED
    BY <2>2, <2>3 DEF IteratorsOf
<1>2. Inv => IteratorsRegistered
  BY <1>1 DEF IteratorsRegistered
<1> QED
  BY <1>2, Invariant, PTL

\* An iterator in a walk never stands on a node that was removed or freed, whatever
\* calls came between, on the list or through other iterators.
THEOREM StandsOnList ==
  ASSUME RuleKept
  PROVE  Spec => []OnList
<1>1. Inv => OnList
  BY DEF Inv, WalkInv, OnList
<1> QED
  BY <1>1, Invariant, PTL

\* A walk that has ended has visited every node that was on the list all along.
THEOREM VisitedAll ==
  ASSUME RuleKept
  PROVE  Spec => []VisitsAll
<1>1. Inv => VisitsAll
  BY DEF Inv, WalkInv, VisitsAll
<1> QED
  BY <1>1, Invariant, PTL

\* A walk comes to no node that it has visited, not even when the node it stood on
\* was removed and it was moved back.
THEOREM VisitedOnce ==
  ASSUME RuleKept
  PROVE  Spec => VisitsOnce
<1>1. ASSUME Inv, NEW i \in Iterators, walk[i] = "walking", NextNode(i)
      PROVE  m_pEnuming'[i] \notin done[i]
  <2> PICK l \in Lists : l = m_pList[i]
    BY <1>1, OnwardOnList
  <2> PICK C : C = NodesOf(l)
    OBVIOUS
  <2>1. l = m_pList[i] /\ C = NodesOf(l)
    OBVIOUS
  <2>2. PICK x : x = Onward(i)
    OBVIOUS
  <2>3. /\ Chain(C, m_pFirstNode[l], m_pNext, m_pPrev) /\ NULL \notin C
        /\ x \in C \cup {NULL}
    BY <1>1, <2>1, <2>2, OnwardOnList, Members DEF Inv, ListInv
  <2>4. x \in Along(m_pNext, x, C) \cup {NULL}
    BY <2>3, AlongClosed DEF Chain
  <2>5. Ahead(i) = Along(m_pNext, x, C)
    BY <2>1, <2>2 DEF Ahead
  <2>6. done[i] \cap Ahead(i) = {} /\ done[i] \subseteq C
    BY <1>1, <2>1 DEF Inv, WalkInv
  <2>7. m_pEnuming'[i] = x
    BY <1>1, <2>2 DEF NextNode, Come, Onward, Inv, TypeOK
  <2> QED
    BY <2>3, <2>4, <2>5, <2>6, <2>7
<1>2. Inv => \A i \in Iterators : walk[i] = "walking" /\ NextNode(i) => m_pEnuming'[i] \notin done[i]
  BY <1>1
<1> QED
  BY <1>2, Invariant, PTL DEF VisitsOnce
===============================================================================
