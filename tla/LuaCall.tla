-------------------------------- MODULE LuaCall --------------------------------
(***************************************************************************)
(* Calls, protected calls, errors, error handlers and coroutines (ldo.c,   *)
(* and the coroutine functions of lbaselib.c): the C stack the interpreter *)
(* really runs on, and what each Lua thread believes about its own calls.  *)
(* A Lua function runs inside luaV_execute, which calls other Lua          *)
(* functions without using the C stack; a C function, a metamethod, a      *)
(* protected call and a resume do use it. An error jumps over all of it.   *)
(***************************************************************************)
EXTENDS Integers, Sequences, SequencesExt, FiniteSets, FiniteSetsExt, LuaCommon

CONSTANTS Coroutines,
          LUAI_MAXCALLS, BASIC_CI_SIZE, LUAI_MAXCCALLS, Extra,  (* Extra is LUAI_MAXCCALLS >> 3 *)
          NULL

VARIABLES m    (* [c, th, exited, sound]: the C stack, the threads, whether the
                  program exited, and whether every return found what it should *)

Main == "L"
Threads == Coroutines \cup {Main}

\* A CallInfo: what kind of function and where in the stack it is. A Lua function has one
\* register, a C function pushes what it calls.
Ci(kind, func) == [kind |-> kind, func |-> func]
Top(kind, func) == IF kind = "lua" THEN func + 2 ELSE func + 1
NewThread == [ci |-> <<Ci("C", 0)>>, top |-> 1, nCcalls |-> 0, baseCcalls |-> 0, status |-> "ok",
              errfunc |-> FALSE, size |-> BASIC_CI_SIZE]

\* An activation: of luaV_execute, of a C function, or of the luaD_pcall or lua_resume
\* that catches errors. by says who made it: OP_CALL, luaD_call, the error handler or
\* lua_resume; n is nexeccalls; saved what luaD_pcall keeps; and expect what the caller
\* may rely on when it returns.
Activation(kind, by, t, expect) ==
  [kind |-> kind, by |-> by, t |-> t, n |-> IF kind = "lua" THEN 1 ELSE 0, saved |-> NULL, expect |-> expect]

Init == m = [c |-> <<Activation("C", "host", Main, NULL)>>, th |-> [t \in Threads |-> NewThread],
             exited |-> FALSE, sound |-> TRUE]

Running == Last(m.c).t
Pushed(s, a) == [s EXCEPT !.c = Append(@, a)]
Dropped(s) == [s EXCEPT !.c = Front(@)]

(* ---- errors ---------------------------------------------------------------- *)
\* restore_stack_limit: more CallInfos than the limit are given back as soon as they can.
RestoreLimit(h) == IF h.size > LUAI_MAXCALLS /\ Len(h.ci) < LUAI_MAXCALLS THEN [h EXCEPT !.size = LUAI_MAXCALLS] ELSE h

\* A mutant: nCcalls stays what it was where the error was raised.
Mut_PcallError(s, a) ==
  LET h == s.th[a.t]
      back == RestoreLimit([h EXCEPT !.ci = SubSeq(@, 1, a.saved.ci), !.top = a.saved.top + 1])
  IN [s EXCEPT !.th[a.t] = [back EXCEPT !.errfunc = a.saved.errfunc]]

\* The end of luaD_pcall, after an error or without one; the caller then takes the
\* message or the result from the top of its stack.
PcallError(s, a) ==
  LET h == s.th[a.t]
      back == RestoreLimit([h EXCEPT !.ci = SubSeq(@, 1, a.saved.ci), !.top = a.saved.top + 1,
                                     !.nCcalls = a.saved.nCcalls])
  IN [s EXCEPT !.th[a.t] = [back EXCEPT !.errfunc = a.saved.errfunc]]
\* What a caller relies on: everything as it was, and one value above it.
Same(h, e) == /\ h.ci = e.ci /\ h.nCcalls = e.nCcalls /\ h.baseCcalls = e.baseCcalls
              /\ h.errfunc = e.errfunc /\ h.status = e.status /\ h.top = e.top + 1
Returned(s, a) == [s EXCEPT !.sound = @ /\ Same(s.th[a.t], a.expect), !.th[a.t].top = a.expect.top]

\* luaD_throw and the end of lua_resume after an error: the innermost luaD_pcall or
\* lua_resume of this thread catches it; without one the program exits.
Catchers(s, t) == {i \in DOMAIN s.c : s.c[i].t = t /\ s.c[i].kind \in {"pcall", "resume"}}
Throw(s, t) ==
  IF Catchers(s, t) = {} THEN [s EXCEPT !.exited = TRUE]
  ELSE LET i == Max(Catchers(s, t))
           a == s.c[i]
           cut == [s EXCEPT !.c = SubSeq(@, 1, i - 1)]
       IN IF a.kind = "pcall" THEN Then(PcallError(cut, a), LAMBDA x : Returned(x, a))
          ELSE [cut EXCEPT !.th[t].status = "error", !.th[t].nCcalls = @ - 1,
                           !.sound = @ /\ s.th[Last(cut.c).t] = a.expect]

\* luaG_errormsg calls the handler, if there is one, and throws when it has returned;
\* luaD_call and luaD_precall raise errors when C calls or CallInfos run out, and throw at
\* once when they do so while such an error is being handled.
RECURSIVE Raise(_, _), Call(_, _, _, _, _)
Enter(s, t, kind, by, expect) ==
  LET h == s.th[t]
      grown == [s EXCEPT !.th[t].size = 2 * @]
      entered(x) == [x EXCEPT !.th[t].ci = Append(@, Ci(kind, h.top - 1)), !.th[t].top = Top(kind, h.top - 1)]
  IN CASE Len(h.ci) < h.size -> Pushed(entered(s), Activation(kind, by, t, expect))
       [] Len(h.ci) = h.size /\ h.size > LUAI_MAXCALLS -> Throw(s, t)
       [] Len(h.ci) = h.size /\ 2 * h.size > LUAI_MAXCALLS -> Raise(Pushed(grown, Activation("failed", by, t, expect)), t)
       [] OTHER -> Pushed(entered(grown), Activation(kind, by, t, expect))
Call(s, t, kind, by, expect) ==
  LET n == s.th[t].nCcalls + 1
      counted == [s EXCEPT !.th[t].nCcalls = n, !.th[t].top = @ + 1]
  IN CASE n = LUAI_MAXCCALLS -> Raise(Pushed(counted, Activation("failed", by, t, expect)), t)
       [] n >= LUAI_MAXCCALLS + Extra -> Throw(counted, t)
       [] OTHER -> Enter(counted, t, kind, by, expect)
Raise(s, t) == IF s.th[t].errfunc THEN Call(s, t, "C", "handler", NULL) ELSE Throw(s, t)

(* ---- returning -------------------------------------------------------------- *)
\* luaD_poscall, with one result wanted, which replaces the function.
Poscall(s, t) == [s EXCEPT !.th[t].ci = Front(@), !.th[t].top = Last(s.th[t].ci).func + 1]
Counted(s, t) == [s EXCEPT !.th[t].nCcalls = @ - 1]

\* The activation on top has ended: luaD_call goes on to its caller, or to the end of
\* luaD_pcall; the handler to the throw; and lua_resume to the thread that called it.
End(s) ==
  LET a == Last(s.c)
      d == Dropped(s)
      w == Last(d.c)
  IN CASE a.by = "op" -> [d EXCEPT !.sound = @ /\ [s.th[a.t] EXCEPT !.size = 0] = [a.expect EXCEPT !.size = 0]]
       [] a.by = "handler" -> Throw(Counted(d, a.t), a.t)
       [] a.by = "call" /\ w.kind = "pcall" ->
            Returned([Counted(Dropped(d), a.t) EXCEPT !.th[a.t].errfunc = w.saved.errfunc], w)
       [] a.by = "call" -> Returned(Counted(d, a.t), a)
       [] a.by = "resume" -> [Counted(Dropped(d), a.t) EXCEPT !.sound = @ /\ s.th[Last(Front(d.c)).t] = w.expect,
                                                              !.th[a.t].top = 1]

(* ---- what functions do ------------------------------------------------------ *)
InC == Last(m.c).kind = "C"
InLua == Last(m.c).kind = "lua"
Snapshot == m.th[Running]

\* OP_CALL of a Lua function, and of a C function.
LuaCallsLua == /\ InLua
               /\ LET e == Enter(m, Running, "lua", "op", NULL)
                  IN m' = IF Len(e.c) = Len(m.c) + 1 /\ Last(e.c).by = "op"
                          THEN [Dropped(e) EXCEPT !.c[Len(m.c)].n = @ + 1] ELSE e
LuaCallsC == InLua /\ m' = Enter(m, Running, "C", "op", Snapshot)
\* lua_call, and a metamethod, which a Lua function calls in the same way.
CallProtected(kind, ef) ==
  LET wrapper == [Activation("pcall", "pcall", Running, Snapshot) EXCEPT
                    !.saved = [ci |-> Len(Snapshot.ci), top |-> Snapshot.top,
                               nCcalls |-> Snapshot.nCcalls, errfunc |-> Snapshot.errfunc]]
  IN Call([Pushed(m, wrapper) EXCEPT !.th[Running].errfunc = ef], Running, kind, "call", NULL)
CCall == \E kind \in {"lua", "C"} : (InC \/ InLua) /\ m' = Call(m, Running, kind, "call", Snapshot)
\* lua_pcall, without an error handler or with one.
Pcall == \E kind \in {"lua", "C"}, ef \in BOOLEAN : InC /\ m' = CallProtected(kind, ef)

Return ==
  /\ Last(m.c).by # "host"
  /\ LET r == Poscall(m, Running)
     IN m' = IF InLua /\ Last(m.c).n > 1 THEN [r EXCEPT !.c[Len(m.c)].n = @ - 1, !.th[Running].top = Top("lua", Last(r.th[Running].ci).func)]
             ELSE End(r)

Error == m' = Raise(m, Running)

\* costatus, auxresume, lua_resume and resume: a coroutine starts its Lua function or
\* continues where it yielded.
CoStatus(t) == CASE t = Running -> "running"
                 [] m.th[t].status = "yield" -> "suspended"
                 [] m.th[t].status = "ok" /\ Len(m.th[t].ci) > 1 -> "normal"
                 [] m.th[t].status = "ok" /\ m.th[t].top = 2 -> "suspended"
                 [] OTHER -> "dead"
Create == \E t \in Coroutines : InC /\ m.th[t] = NewThread /\ m' = [m EXCEPT !.th[t].top = 2]
Resume == \E t \in Coroutines :
  /\ InC /\ CoStatus(t) = "suspended"
  /\ LET n == m.th[Running].nCcalls + 1
         h == m.th[t]
         s == [m EXCEPT !.th[t].nCcalls = n, !.th[t].baseCcalls = n, !.th[t].status = "ok",
                        !.c = Append(@, Activation("resume", "resume", t, Snapshot))]
         yielder == Last(h.ci)
         back == [s EXCEPT !.th[t].ci = Front(@), !.th[t].top = yielder.func + 1]
     IN m' = CASE m.th[Running].nCcalls >= LUAI_MAXCCALLS -> [m EXCEPT !.th[t].top = Last(h.ci).func + 1]
               [] m.th[Running].nCcalls < LUAI_MAXCCALLS /\ h.status = "yield" ->
                    Pushed(back, [Activation("lua", "resume", t, NULL) EXCEPT !.n = Len(back.th[t].ci) - 1])
               [] OTHER -> Enter(s, t, "lua", "resume", NULL)
\* A mutant: the test for C calls in between is for C calls at all.
Mut_CanYield(h) == h.nCcalls <= 2
\* Only when the thread has no C calls of its own since it was resumed.
CanYield(h) == h.nCcalls <= h.baseCcalls
\* lua_yield, as the result of a C function: an error when the thread has C calls of its
\* own; else luaD_precall, luaV_execute and lua_resume return.
Yield ==
  /\ InC /\ Last(m.c).by # "host"
  /\ LET t == Running
         executor == m.c[Len(m.c) - 1]
         caller == Last(SubSeq(m.c, 1, Len(m.c) - 3))
     IN m' = IF ~CanYield(m.th[t]) THEN Raise(m, t)
             ELSE [m EXCEPT !.th[t].status = "yield", !.th[t].nCcalls = @ - 1, !.c = SubSeq(@, 1, Len(@) - 3),
                            !.sound = @ /\ executor.kind = "lua" /\ executor.by = "resume" /\ executor.t = t
                                        /\ executor.n = Len(m.th[t].ci) - 2
                                        /\ m.th[caller.t] = m.c[Len(m.c) - 2].expect]

Next == /\ ~m.exited
        /\ \/ LuaCallsLua \/ LuaCallsC \/ CCall \/ Pcall \/ Return \/ Error \/ Create \/ Resume \/ Yield

Spec == Init /\ [][Next]_m

(* ---- properties ------------------------------------------------------------- *)
\* Whatever calls, errors, failing handlers, overflows and yields happen in between, a
\* caller that goes on finds its thread as it left it, with one result or message more; a
\* yield leaves nothing but the resume; and a thread is resumed at most once at a time.
Restored == /\ m.sound
            /\ \A t \in Coroutines : Cardinality({i \in DOMAIN m.c : m.c[i].kind = "resume" /\ m.c[i].t = t}) <= 1

\* nCcalls of the running thread is the depth of the C stack, through resumes and errors,
\* which keeps that depth below the limit; CallInfos stay below theirs.
Depth == Cardinality({i \in DOMAIN m.c : m.c[i].by \in {"call", "handler"} \/ m.c[i].kind = "resume"})
DepthKnown == ~m.exited => /\ m.th[Running].nCcalls = Depth
                           /\ Depth < LUAI_MAXCCALLS + Extra
                           /\ \A t \in Threads : Len(m.th[t].ci) <= m.th[t].size /\ m.th[t].size <= 2 * LUAI_MAXCALLS
CallsRestored == Restored /\ DepthKnown
================================================================================
