------------------------------- MODULE Messages -------------------------------
(***************************************************************************)
(* OutputMsg and OutputError of share_utils.cpp: threads format messages   *)
(* into one buffer under a lock and hand it to a function another thread   *)
(* may replace. The function is looked for before the lock is taken and    *)
(* called under it. Beside them, the table bzhashstr fills when it first   *)
(* runs, which no lock protects; its stores are taken to stay in order.    *)
(***************************************************************************)
EXTENDS Integers, FiniteSets

CONSTANTS Threads, NULL,
          Functions,    (* the functions messages are given to               *)
          Lengths,      (* of the formatted messages                         *)
          CodeLength, ErrorLength, (* of the error's number and text         *)
          TMPBUFSIZE,
          TableSize     (* of cryptTable                                     *)

VARIABLES g_OutputMsgFn, mutex, tempMsgBuf,
          pc, call,     (* where a thread is and what it is to write         *)
          delivered,    (* the last message a function was called with       *)
          cryptTable, cryptTableInited,
          filled,       (* of a thread in bzhashstr: the entries it wrote    *)
          hashes        (* which entries each finished hash read unfilled    *)

msgVars == <<g_OutputMsgFn, mutex, tempMsgBuf, pc, call, delivered>>
hashVars == <<cryptTable, cryptTableInited, filled, hashes>>
vars == <<msgVars, hashVars>>

Init == /\ g_OutputMsgFn \in Functions /\ mutex = NULL /\ tempMsgBuf = NULL
        /\ pc = [t \in Threads |-> "idle"] /\ call = [t \in Threads |-> NULL]
        /\ delivered = NULL
        /\ cryptTable = {} /\ cryptTableInited = FALSE
        /\ filled = [t \in Threads |-> -1] /\ hashes = {}

(* ---- messages --------------------------------------------------------- *)
\* SNPRINTFA and VSNPRINTFA: what vsnprintf wrote, or -1 when it did not fit in len.
Printed(length, len) == IF len <= 0 \/ length >= len THEN -1 ELSE length
Lesser(a, b) == IF a < b THEN a ELSE b

\* How far OutputError gets in the buffer: after the message, the number, the text.
AfterMessage(n) == Printed(n, TMPBUFSIZE - 1)
AfterCode(n) == AfterMessage(n) + Printed(CodeLength, TMPBUFSIZE - 1 - AfterMessage(n))
AfterError(n) == LET room == TMPBUFSIZE - 1 - AfterCode(n)
                 IN AfterCode(n) + Lesser(Printed(ErrorLength, room), room)

Output(t, kind, n) == /\ pc[t] = "idle" /\ filled[t] = -1
                      /\ g_OutputMsgFn # NULL   \* otherwise nothing is output
                      /\ pc' = [pc EXCEPT ![t] = "lock"]
                      /\ call' = [call EXCEPT ![t] = [kind |-> kind, length |-> n]]
                      /\ UNCHANGED <<g_OutputMsgFn, mutex, tempMsgBuf, delivered, hashVars>>

Mut_Lock(t) == pc[t] = "lock" /\ mutex' = t
Lock(t) == pc[t] = "lock" /\ mutex = NULL /\ mutex' = t

Format(t) == /\ Lock(t)
             /\ tempMsgBuf' = [by |-> t, length |-> call[t].length]
             /\ pc' = [pc EXCEPT ![t] = "call"]
             /\ UNCHANGED <<g_OutputMsgFn, call, delivered, hashVars>>

Deliver(t) ==
  /\ pc[t] = "call"
  /\ delivered' = [by |-> t, call |-> call[t], text |-> tempMsgBuf, fn |-> g_OutputMsgFn,
                   length |-> IF call[t].kind = "msg" THEN AfterMessage(call[t].length)
                              ELSE AfterError(call[t].length)]
  /\ mutex' = NULL /\ pc' = [pc EXCEPT ![t] = "idle"] /\ call' = [call EXCEPT ![t] = NULL]
  /\ UNCHANGED <<g_OutputMsgFn, tempMsgBuf, hashVars>>

\* The functions do not output messages themselves, and are never set to null.
SetOutputMsgFn(fn) == /\ mutex = NULL /\ g_OutputMsgFn' = fn
                      /\ UNCHANGED <<mutex, tempMsgBuf, pc, call, delivered, hashVars>>

(* ---- the hash table's seeds ------------------------------------------- *)
BeginHash(t) == /\ filled[t] = -1 /\ pc[t] = "idle"
                /\ filled' = [filled EXCEPT ![t] = IF cryptTableInited THEN TableSize ELSE 0]
                /\ UNCHANGED <<msgVars, cryptTable, cryptTableInited, hashes>>

\* initCryptrTable writes each entry once, with what it will always hold.
Fill(t) == /\ filled[t] \in 0 .. TableSize - 1
           /\ cryptTable' = cryptTable \cup {filled[t]}
           /\ filled' = [filled EXCEPT ![t] = @ + 1]
           /\ UNCHANGED <<msgVars, cryptTableInited, hashes>>

Mut_Filled(n) == n = 1
\* cryptTableInited is set after the whole table.
Filled(n) == n = TableSize

SetInited(t) == /\ Filled(filled[t]) /\ ~cryptTableInited
                /\ cryptTableInited' = TRUE
                /\ UNCHANGED <<msgVars, cryptTable, filled, hashes>>

\* The rest of bzhashstr reads the table.
Hash(t) == /\ filled[t] = TableSize /\ cryptTableInited
           /\ hashes' = hashes \cup ((0 .. TableSize - 1) \ cryptTable)
           /\ filled' = [filled EXCEPT ![t] = -1]
           /\ UNCHANGED <<msgVars, cryptTable, cryptTableInited>>

Next == \E t \in Threads :
          \/ \E n \in Lengths : Output(t, "msg", n) \/ Output(t, "error", n)
          \/ Format(t) \/ Deliver(t)
          \/ \E fn \in Functions : SetOutputMsgFn(fn)
          \/ BeginHash(t) \/ Fill(t) \/ SetInited(t) \/ Hash(t)

Spec == Init /\ [][Next]_vars

\* A function gets the message of the call that called it, and a length within the
\* buffer when the message fits, whoever else outputs or replaces the function; and no
\* string is hashed with a table another thread is still filling.
MessagesWhole ==
  /\ delivered # NULL =>
       /\ delivered.text = [by |-> delivered.by, length |-> delivered.call.length]
       /\ delivered.fn \in Functions
       /\ delivered.call.length < TMPBUFSIZE - 1 => delivered.length \in 0 .. TMPBUFSIZE - 1
  /\ hashes = {}
================================================================================
