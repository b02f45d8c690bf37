------------------------------- MODULE RefString -------------------------------
(***************************************************************************)
(* ElsaCCTRefString over ElsaCAnsiString: handles to bodies that count     *)
(* their references. Every operation but an assignment between two         *)
(* non-const handles gives its handle a body of its own, stored without    *)
(* AddRef, so a body's count is one less than its handles; and the count of *)
(* a body made by an inherited constructor is not initialised at all.      *)
(***************************************************************************)
EXTENDS Integers, Sequences, FiniteSets, FiniteSetsExt

CONSTANTS Handles, Bodies, NULL,
          Chars, MaxLen,   (* the text of a body: up to MaxLen of Chars      *)
          Garbage,         (* what an uninitialised count may be             *)
          MaxCount         (* a bound: Format loses counts                   *)

VARIABLES m_pRef,   (* the body a handle refers to, or NULL                  *)
          body,     (* of each address: NULL, or the count and text there    *)
          text,     (* what the text of each handle should be                *)
          shared,   (* the bodies one handle was assigned from another       *)
          unset,    (* those whose count began uninitialised                 *)
          dropped   (* those Format took from their handle                   *)

vars == <<m_pRef, body, text, shared, unset, dropped>>

Texts == UNION {[1..n -> Chars] : n \in 0..MaxLen}

Init == /\ m_pRef = [h \in Handles |-> NULL] /\ body = [b \in Bodies |-> NULL]
        /\ text = [h \in Handles |-> <<>>]
        /\ shared = {} /\ unset = {} /\ dropped = {}

Users(b) == {h \in Handles : m_pRef[h] = b}
Dangling(h) == m_pRef[h] # NULL /\ body[m_pRef[h]] = NULL

\* Handles that are used: one to a body that is gone is undefined.
Usable(h) == ~Dangling(h)
RawStr(h) == IF m_pRef[h] = NULL THEN <<>> ELSE body[m_pRef[h]].text

\* Release: a body whose count comes to 0 or less deletes itself.
Released(bodies, b) == IF b = NULL THEN bodies ELSE
                       IF bodies[b].count - 1 <= 0 THEN [bodies EXCEPT ![b] = NULL]
                       ELSE [bodies EXCEPT ![b].count = @ - 1]

\* An address new may return: one no handle refers to, for what a handle finds at
\* an address that was given out again is not told apart from what was there.
Free(b) == body[b] = NULL /\ Users(b) = {}

\* A new body with text t takes the place of h's, which is released.
Renew(h, b, t, counts, released) ==
  /\ \E n \in counts : body' = [Released(body, released) EXCEPT ![b] = [count |-> n, text |-> t]]
  /\ m_pRef' = [m_pRef EXCEPT ![h] = b] /\ text' = [text EXCEPT ![h] = t]
  /\ shared' = shared \ {b}
  /\ unset' = IF counts = Garbage THEN unset \cup {b} ELSE unset \ {b}

\* operator= from a text or an ElsaCAnsiString; the copy constructor and an assignment
\* from a const handle come here too, through the conversion to a text.
Assign(h, b, t) == /\ Usable(h) /\ Free(b)
                   /\ Renew(h, b, t, {0}, m_pRef[h]) /\ dropped' = dropped \ {b}
Joined(h, t) == RawStr(h) \o t
\* operator+=, of a text that may be the handle's own.
Concat(h, b, t) == /\ Usable(h) /\ Free(b) /\ Len(Joined(h, t)) <= MaxLen
                   /\ Renew(h, b, Joined(h, t), {0}, m_pRef[h]) /\ dropped' = dropped \ {b}
\* SetLength, and the constructors from a length and from an ElsaCAnsiString.
SetLength(h, b, t) == /\ Usable(h) /\ Free(b)
                      /\ Renew(h, b, t, Garbage, m_pRef[h]) /\ dropped' = dropped \ {b}
\* FormatArgs, which releases nothing.
Format(h, b, t) == /\ Usable(h) /\ Free(b)
                   /\ Renew(h, b, t, {0}, NULL)
                   /\ dropped' = (dropped \ {b}) \cup ({m_pRef[h]} \ {NULL})

\* h = g, both non-const: ElsaCRefObject's own assignment.
Share(h, g) ==
  LET b == m_pRef[g] IN
  /\ Usable(h) /\ Usable(g) /\ b # m_pRef[h]
  /\ b # NULL => body[b].count < MaxCount
  /\ body' = Released(IF b = NULL THEN body ELSE [body EXCEPT ![b].count = @ + 1], m_pRef[h])
  /\ m_pRef' = [m_pRef EXCEPT ![h] = b] /\ text' = [text EXCEPT ![h] = text[g]]
  /\ shared' = shared \cup ({b} \ {NULL})
  /\ UNCHANGED <<unset, dropped>>

\* The destructor; the handle then is as a new one.
Destroy(h) == /\ Usable(h) /\ m_pRef[h] # NULL
              /\ body' = Released(body, m_pRef[h])
              /\ m_pRef' = [m_pRef EXCEPT ![h] = NULL] /\ text' = [text EXCEPT ![h] = <<>>]
              /\ UNCHANGED <<shared, unset, dropped>>

Next == \E h \in Handles :
          \/ \E b \in Bodies, t \in Texts : \/ Assign(h, b, t) \/ Concat(h, b, t)
                                            \/ SetLength(h, b, t) \/ Format(h, b, t)
          \/ \E g \in Handles : Share(h, g)
          \/ Destroy(h)

Spec == Init /\ [][Next]_vars


\* What the header says of a counted object: it is there for as long as it is used.
NoDanglingString == \A h \in Handles : ~Dangling(h)
================================================================================
