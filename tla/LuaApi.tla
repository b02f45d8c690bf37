--------------------------------- MODULE LuaApi ---------------------------------
(***************************************************************************)
(* What C code does with Lua's stack (lapi.c): the slots from base to top  *)
(* of two threads, and on them the references of lauxlib.c, which keep     *)
(* their free slots as a list in the table itself, and its buffers, which  *)
(* put the pieces of a text on the stack and join them so that they never  *)
(* need more slots than a C function has.                                  *)
(* A value is <<"nil">>, <<"v", name>>, <<"int", n>> or a text, <<"text",  *)
(* its characters>>; the characters of a buffer are numbered as they come. *)
(***************************************************************************)
EXTENDS Integers, Sequences, SequencesExt, FiniteSets, FiniteSetsExt, LuaCommon

CONSTANTS Uses,            (* what a program does: "stack", "refs" or "buffer"  *)
          Things, LUA_MINSTACK, LUAL_BUFFERSIZE, LUAI_MAXCSTACK, MaxDepth, MaxText, MaxRefs, NULL

VARIABLES use,
          th,              (* the threads: [slot, top, lim] (ci->top)           *)
          t,               (* the table of the references                       *)
          b,               (* a luaL_Buffer: [p (its characters), lvl]          *)
          view, live, text (* what the program counts on: the values on the     *)
                           (* stacks, its references, the text of the buffer    *)

vars == <<use, th, t, b, view, live, text>>

Nil == <<"nil">>
Dead == <<"dead">>
Threads == {1, 2}
EXTRA_STACK == 2
Size == LUAI_MAXCSTACK + EXTRA_STACK
FREELIST_REF == 0
LUA_REFNIL == -1
LIMIT == LUA_MINSTACK \div 2

(* ---- the stack; slots count from 1, base is 1 ------------------------------- *)
\* index2adr: 0 is the nil object, which no slot is.
Adr(h, idx) == IF idx > 0 THEN (IF idx >= h.top THEN 0 ELSE idx) ELSE h.top + idx
At(h, idx) == IF Adr(h, idx) = 0 THEN Nil ELSE h.slot[Adr(h, idx)]
\* api_incr_top; a program that pushes past ci->top has its stack broken.
Push(h, v) == [h EXCEPT !.slot[h.top] = v, !.top = @ + 1, !.broken = @ \/ h.top > h.lim]
\* What is left above top is not looked at again.
Trim(h) == [h EXCEPT !.slot = [i \in 1..Size |-> IF i < h.top THEN h.slot[i] ELSE Dead]]
Pop(h, n) == [h EXCEPT !.top = @ - n]
SetTop(h, idx) ==
  IF idx >= 0 THEN [h EXCEPT !.slot = [i \in 1..Size |-> IF h.top <= i /\ i <= idx THEN Nil ELSE h.slot[i]], !.top = idx + 1]
  ELSE [h EXCEPT !.top = @ + idx + 1]
Removed(h, idx) ==
  [h EXCEPT !.slot = [i \in 1..Size |-> IF Adr(h, idx) <= i /\ i < h.top - 1 THEN h.slot[i + 1] ELSE h.slot[i]], !.top = @ - 1]
\* lua_insert uses the slot at top, which need not be below ci->top.
Mut_Inserted(h, idx) ==
  [h EXCEPT !.slot = [i \in 1..Size |-> IF i = Adr(h, idx) THEN h.slot[h.top]
                                       ELSE IF Adr(h, idx) < i /\ i <= h.top THEN h.slot[i - 1] ELSE h.slot[i]]]
Inserted(h, idx) ==
  LET up == [i \in 1..Size |-> IF Adr(h, idx) < i /\ i <= h.top THEN h.slot[i - 1] ELSE h.slot[i]]
  IN [h EXCEPT !.slot = [up EXCEPT ![Adr(h, idx)] = up[h.top]]]
Replaced(h, idx) == [h EXCEPT !.slot[Adr(h, idx)] = h.slot[h.top - 1], !.top = @ - 1]
PushValue(h, idx) == Push(h, At(h, idx))
\* luaV_concat joins from the top down; one value stays as it is.
Concat(h, n) ==
  IF n = 0 THEN Push(h, <<"text", <<>>>>)
  ELSE IF n = 1 THEN h
  ELSE [h EXCEPT !.slot[h.top - n] = <<"text", FlattenSeq([k \in 1..n |-> h.slot[h.top - n + k - 1][2]])>>, !.top = @ - (n - 1)]
CheckStack(h, size) ==
  IF h.top - 1 + size > LUAI_MAXCSTACK THEN h
  ELSE [h EXCEPT !.lim = IF @ < h.top - 1 + size THEN h.top - 1 + size ELSE @]

Valid(idx) == \/ idx \in 1..Len(view[1])
              \/ -idx \in 1..Len(view[1])
Pos(idx) == IF idx > 0 THEN idx ELSE Len(view[1]) + idx + 1
Room(i, n) == Len(view[i]) + n <= MaxDepth

Changes(h, v) == /\ th' = [th EXCEPT ![1] = Trim(h)]
                 /\ view' = [view EXCEPT ![1] = v]
                 /\ UNCHANGED <<use, t, b, live, text>>
lua_push(v) == use = "stack" /\ Room(1, 1) /\ Changes(Push(th[1], v), Append(view[1], v))
lua_settop(idx) ==
  /\ use = "stack" /\ idx <= MaxDepth /\ (idx < 0 => -(idx + 1) <= Len(view[1]))
  /\ Changes(SetTop(th[1], idx),
             LET n == IF idx >= 0 THEN idx ELSE Len(view[1]) + idx + 1
             IN [k \in 1..n |-> IF k <= Len(view[1]) THEN view[1][k] ELSE Nil])
lua_remove(idx) == use = "stack" /\ Valid(idx) /\ Changes(Removed(th[1], idx), RemoveAt(view[1], Pos(idx)))
lua_insert(idx) == use = "stack" /\ Valid(idx) /\ Changes(Inserted(th[1], idx), InsertAt(Front(view[1]), Pos(idx), Last(view[1])))
lua_replace(idx) == use = "stack" /\ Valid(idx) /\ Changes(Replaced(th[1], idx), Front([view[1] EXCEPT ![Pos(idx)] = Last(view[1])]))
lua_pushvalue(idx) == use = "stack" /\ Valid(idx) /\ Room(1, 1) /\ Changes(PushValue(th[1], idx), Append(view[1], view[1][Pos(idx)]))
lua_checkstack(size) == use = "stack" /\ Changes(CheckStack(th[1], size), view[1])
\* lua_xmove, to the other thread; and back, so that its stack is used too.
lua_xmove(from, n) ==
  LET to == 3 - from
      moved == SubSeq(view[from], Len(view[from]) - n + 1, Len(view[from]))
      f == Pop(th[from], n)
  IN /\ use = "stack" /\ n <= Len(view[from]) /\ Room(to, n)
     /\ th' = [th EXCEPT ![from] = Trim(f), ![to] = FoldLeft(LAMBDA h, k : Push(h, f.slot[f.top + k - 1]), th[to], [k \in 1..n |-> k])]
     /\ view' = [view EXCEPT ![from] = SubSeq(@, 1, Len(@) - n), ![to] = @ \o moved]
     /\ UNCHANGED <<use, t, b, live, text>>

(* ---- references ------------------------------------------------------------- *)
\* s: a thread and the table. The length of the table is any of its borders.
Get(s, n) == IF n \in DOMAIN s.t THEN s.t[n] ELSE Nil
RawGetI(s, n) == [s EXCEPT !.h = Push(@, Get(s, n))]
Set(tab, n, v) == [k \in DOMAIN tab \cup {n} |-> IF k = n THEN v ELSE tab[k]]
RawSetI(s, n) == [s EXCEPT !.t = Set(@, n, s.h.slot[s.h.top - 1]), !.h = Pop(@, 1)]
ToInteger(v) == IF v[1] = "int" THEN v[2] ELSE 0
Borders(s) == {n \in 0..MaxRefs : (n = 0 \/ Get(s, n) # Nil) /\ Get(s, n + 1) = Nil}

luaL_ref(v) ==
  /\ use = "refs" /\ Cardinality(live) < MaxRefs
  /\ LET s == RawGetI([h |-> Push(th[1], v), t |-> t], FREELIST_REF)
         free == ToInteger(At(s.h, -1))
         popped == [s EXCEPT !.h = Pop(@, 1)]
     IN \E n \in Borders(popped) :
          LET ref == IF free # 0 THEN free ELSE n + 1
              ready == IF free # 0 THEN RawSetI(RawGetI(popped, ref), FREELIST_REF) ELSE popped
              done == IF v = Nil THEN [h |-> Pop(Push(th[1], v), 1), t |-> t] ELSE RawSetI(ready, ref)
          IN /\ th' = [th EXCEPT ![1] = Trim(done.h)]
             /\ t' = done.t
             /\ live' = live \cup {[ref |-> IF v = Nil THEN LUA_REFNIL ELSE ref, value |-> v, n |-> Cardinality(live)]}
  /\ UNCHANGED <<use, b, view, text>>
luaL_unref(r) ==
  /\ use = "refs"
  /\ LET linked == RawSetI(RawGetI([h |-> th[1], t |-> t], FREELIST_REF), r.ref)
         done == RawSetI([linked EXCEPT !.h = Push(@, <<"int", r.ref>>)], FREELIST_REF)
     IN IF r.ref < 0 THEN UNCHANGED <<th, t>>
        ELSE /\ th' = [th EXCEPT ![1] = Trim(done.h)]
             /\ t' = done.t
  /\ live' = {[x EXCEPT !.n = IF x.n > r.n THEN x.n - 1 ELSE x.n] : x \in live \ {r}}
  /\ UNCHANGED <<use, b, view, text>>

(* ---- buffers ----------------------------------------------------------------- *)
\* s: a thread and the buffer.
EmptyBuffer(s) ==
  IF s.b.p = <<>> THEN s ELSE [h |-> Push(s.h, <<"text", s.b.p>>), b |-> [p |-> <<>>, lvl |-> s.b.lvl + 1]]
StrLen(h, idx) == Len(At(h, idx)[2])
RECURSIVE ToGet(_, _, _)
ToGet(s, toget, toplen) ==
  IF toget < s.b.lvl /\ (s.b.lvl - toget + 1 >= LIMIT \/ toplen > StrLen(s.h, -(toget + 1)))
  THEN ToGet(s, toget + 1, toplen + StrLen(s.h, -(toget + 1))) ELSE toget
AdjustStack(s) ==
  IF s.b.lvl <= 1 THEN s
  ELSE Then(ToGet(s, 1, StrLen(s.h, -1)), LAMBDA n : [h |-> Concat(s.h, n), b |-> [s.b EXCEPT !.lvl = @ - n + 1]])
PrepBuffer(s) == Then(EmptyBuffer(s), LAMBDA e : IF s.b.p = <<>> THEN e ELSE AdjustStack(e))
AddChar(s, c) == Then(IF Len(s.b.p) >= LUAL_BUFFERSIZE THEN PrepBuffer(s) ELSE s, LAMBDA r : [r EXCEPT !.b.p = Append(@, c)])
AddValue(s) ==
  IF StrLen(s.h, -1) <= LUAL_BUFFERSIZE - Len(s.b.p)
  THEN [h |-> Pop(s.h, 1), b |-> [s.b EXCEPT !.p = @ \o At(s.h, -1)[2]]]
  ELSE Then2(EmptyBuffer(s),
             LAMBDA e : [h |-> IF s.b.p = <<>> THEN e.h ELSE Inserted(e.h, -2), b |-> [e.b EXCEPT !.lvl = @ + 1]],
             AdjustStack)
PushResult(s) == Then(EmptyBuffer(s), LAMBDA e : [h |-> Concat(e.h, e.b.lvl), b |-> [e.b EXCEPT !.lvl = 1]])

NewChars(n) == [k \in 1..n |-> Len(text) + k]
Buffered(s, more) == /\ th' = [th EXCEPT ![1] = Trim(s.h)]
                     /\ b' = s.b
                     /\ text' = text \o more
                     /\ UNCHANGED <<use, t, view, live>>
InBuffer(n) == use = "buffer" /\ b # NULL /\ Len(text) + n <= MaxText
\* A function that uses a buffer has less than half of its slots in use itself.
luaL_buffinit ==
  /\ use = "buffer" /\ b = NULL /\ Len(view[1]) < LIMIT
  /\ b' = [p |-> <<>>, lvl |-> 0]
  /\ text' = <<>>
  /\ UNCHANGED <<use, th, t, view, live>>
luaL_addlstring(n) == /\ InBuffer(n)
                      /\ Buffered(FoldLeft(LAMBDA s, c : AddChar(s, c), [h |-> th[1], b |-> b], NewChars(n)), NewChars(n))
luaL_addvalue(n) == /\ InBuffer(n)
                    /\ Buffered(AddValue([h |-> Push(th[1], <<"text", NewChars(n)>>), b |-> b]), NewChars(n))
luaL_prepbuffer == /\ InBuffer(0) /\ b.p # <<>>
                   /\ Buffered(PrepBuffer([h |-> th[1], b |-> b]), <<>>)
luaL_pushresult ==
  /\ use = "buffer" /\ b # NULL
  /\ th' = [th EXCEPT ![1] = Trim(PushResult([h |-> th[1], b |-> b]).h)]
  /\ b' = NULL
  /\ view' = [view EXCEPT ![1] = Append(@, <<"text", text>>)]
  /\ UNCHANGED <<use, t, live, text>>
\* The result is used and removed.
TakeResult == /\ use = "buffer" /\ b = NULL /\ Last(view[1])[1] = "text"
              /\ th' = [th EXCEPT ![1] = Trim(Pop(@, 1))]
              /\ view' = [view EXCEPT ![1] = Front(@)]
              /\ UNCHANGED <<use, t, b, live, text>>

Stack(vs) == [slot |-> [i \in 1..Size |-> IF i <= Len(vs) THEN vs[i] ELSE Dead], top |-> Len(vs) + 1,
              lim |-> LUA_MINSTACK, broken |-> FALSE]
Init ==
  /\ use \in Uses
  /\ view = [i \in Threads |-> IF i = 1 THEN <<<<"v", "argument">>>> ELSE <<>>]
  /\ th = [i \in Threads |-> Stack(view[i])]
  /\ t = << >>
  /\ b = NULL
  /\ live = {}
  /\ text = <<>>

Next ==
  \/ \E v \in Things \cup {Nil} : lua_push(v) \/ luaL_ref(v)
  \/ \E idx \in -MaxDepth - 1..MaxDepth :
       lua_settop(idx) \/ lua_remove(idx) \/ lua_insert(idx) \/ lua_replace(idx) \/ lua_pushvalue(idx)
  \/ \E size \in {LUA_MINSTACK, LUAI_MAXCSTACK} : lua_checkstack(size)
  \/ \E from \in Threads, n \in 1..2 : lua_xmove(from, n)
  \/ \E r \in live : luaL_unref(r)
  \/ luaL_buffinit \/ luaL_prepbuffer \/ luaL_pushresult \/ TakeResult
  \/ \E n \in 0..LUAL_BUFFERSIZE + 1 : luaL_addlstring(n) \/ luaL_addvalue(n)

Spec == Init /\ [][Next]_vars

\* The slots hold what the program put there, in the order that inserts, removals and
\* moves give (lapi.c:110-233). Whatever is referenced and released, two references that
\* are in use are never the same slot and each still has its value (luaL_ref and
\* luaL_unref, lauxlib.c:481-512), although the last slot of the free list is nil. A
\* buffer's pieces are the text so far, in order, on top of what the function had there,
\* and they and the operations on them never need more slots than the LUA_MINSTACK a C
\* function has (adjuststack, lauxlib.c:410-426).
ApiKept ==
  /\ \A i \in Threads : ~th[i].broken
  /\ \A i \in Threads : \A k \in 1..Len(view[i]) : th[i].slot[k] = view[i][k]
  /\ b = NULL => \A i \in Threads : th[i].top = Len(view[i]) + 1
  /\ \A r \in live : r.value # Nil => r.ref > 0 /\ Get([t |-> t], r.ref) = r.value
  /\ \A r, s \in live : r # s /\ r.value # Nil => r.ref # s.ref
  /\ b # NULL => /\ th[1].top = Len(view[1]) + 1 + b.lvl
                 /\ b.lvl < LIMIT
                 /\ text = FlattenSeq([k \in 1..b.lvl |-> th[1].slot[Len(view[1]) + k][2]]) \o b.p
==================================================================================
