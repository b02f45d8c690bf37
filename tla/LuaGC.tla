--------------------------------- MODULE LuaGC ---------------------------------
(***************************************************************************)
(* Lua's garbage collector (lgc.c, lfunc.c, lstring.c) and the program it  *)
(* interrupts: an incremental mark and sweep with two whites, barriers,    *)
(* upvalues that live in stacks, weak tables and userdata with finalizers. *)
(* The state of both is one record g, so that a whole collection is an     *)
(* operator on it. A table has one entry; its fields, like those of every  *)
(* other object, hold objects or NULL, which stands for every value that   *)
(* is not collectable.                                                     *)
(***************************************************************************)
EXTENDS Integers, Sequences, SequencesExt, FiniteSets, FiniteSetsExt, Functions, LuaCommon

CONSTANTS Scenes,     (* programs: [kind, mode, gc, ops, stack, heap] with the       *)
                      (* objects there may be and their types, the __mode of a       *)
                      (* metatable, whether it has a __gc, the operations and fields *)
                      (* the program uses, a bound of its stacks, and the objects    *)
                      (* there are at first: [root, ref, at, stack]                  *)
          NULL, GCSWEEPMAX

VARIABLES scene, g

vars == <<scene, g>>

Main == "L"           (* the main thread    *)
Globals == "G"        (* the table of globals, and the registry                *)
Objects == DOMAIN scene.kind
IsKind(o, k) == o # NULL /\ scene.kind[o] = k
Whites == {"white0", "white1"}
OtherWhite(h) == IF h.white = "white0" THEN "white1" ELSE "white0"
IsDead(h, o) == h.color[o] = OtherWhite(h)
Live(h) == {o \in Objects : h.color[o] # "free"}

Fields(k) == CASE k = "table"   -> {"mt", "key", "val"}
               [] k = "udata"   -> {"mt", "env"}
               [] k = "closure" -> {"env", "p", "up"}
               [] k = "proto"   -> {"k"}
               [] k = "upval"   -> {"v"}
               [] k = "thread"  -> {"env"}
               [] k = "string"  -> {}
Empty(o) == [f \in Fields(scene.kind[o]) |-> NULL]

\* g->uvhead and the openupval of each thread: the upvalues that live in a stack,
\* at[u] being <<thread, slot>>; and where the value of an upvalue is.
OpenUpvals(h, t, level) == {u \in Live(h) : h.at[u] # NULL /\ h.at[u][1] = t /\ h.at[u][2] >= level}
UpvalValue(h, u) == IF h.at[u] = NULL THEN h.ref[u].v ELSE h.stack[h.at[u][1]][h.at[u][2]]

Uses(op) == op \in scene.ops
Given(f, o, default) == IF o \in DOMAIN scene.heap[f] THEN scene.heap[f][o] ELSE default
Init == /\ scene \in Scenes
        /\ g = [color |-> [o \in Objects |-> IF o \in Range(scene.heap.root) \/ o \in DOMAIN scene.heap.at
                                             THEN "white0" ELSE "free"],
                white |-> "white0", gcstate |-> "pause",
                gray |-> <<>>, grayagain |-> <<>>, weak |-> <<>>, tmudata |-> <<>>,
                rootgc |-> scene.heap.root, sweepgc |-> 0, strings |-> {},
                ref |-> [o \in Objects |-> Given("ref", o, IF o = Main THEN [env |-> Globals] ELSE Empty(o))],
                at |-> [o \in Objects |-> Given("at", o, NULL)],
                stack |-> [o \in {x \in Objects : scene.kind[x] = "thread"} |-> Given("stack", o, <<>>)],
                mt |-> NULL, finalized |-> {}, running |-> Main, calls |-> [o \in Objects |-> 0],
                asserts |-> TRUE]

(* ---- marking ----------------------------------------------------------- *)
\* markobject and markvalue, with reallymarkobject: only a white object is marked. A
\* userdatum is never gray and a string or an open upvalue never black.
RECURSIVE Mark(_, _)
Mark(h, o) ==
  IF o = NULL \/ (o # NULL /\ h.color[o] \notin Whites) THEN h
  ELSE CASE scene.kind[o] = "string" -> [h EXCEPT !.color[o] = "gray"]
         [] scene.kind[o] = "udata" -> Mark(Mark([h EXCEPT !.color[o] = "black"], h.ref[o].mt), h.ref[o].env)
         [] scene.kind[o] = "upval" -> LET m == Mark([h EXCEPT !.color[o] = "gray"], UpvalValue(h, o))
                                       IN IF h.at[o] = NULL THEN [m EXCEPT !.color[o] = "black"] ELSE m
         [] OTHER -> [h EXCEPT !.color[o] = "gray", !.gray = <<o>> \o @]
MarkAll(h, values) == FoldLeft(Mark, h, values)

Weakness(h, t) == IF h.ref[t].mt = NULL THEN {} ELSE scene.mode
TraverseTable(h, t) ==
  LET weak == Weakness(h, t)
      entered == IF weak # {"k", "v"} /\ h.ref[t].val = NULL THEN [h EXCEPT !.ref[t].key = NULL] ELSE h
      marked == Mark(entered, h.ref[t].mt)
      listed == IF weak = {} THEN marked ELSE [marked EXCEPT !.weak = <<t>> \o @, !.color[t] = "gray"]
      keys == IF "k" \in weak \/ h.ref[t].val = NULL THEN <<>> ELSE <<h.ref[t].key>>
  IN MarkAll(listed, IF "v" \in weak THEN keys ELSE Append(keys, h.ref[t].val))

\* One gray object. A thread stays gray, to be traversed again in the atomic step.
PropagateMark(h) ==
  LET o == Head(h.gray)
      m == [h EXCEPT !.gray = Tail(@), !.color[o] = "black"]
  IN CASE scene.kind[o] = "table" -> TraverseTable(m, o)
       [] scene.kind[o] = "closure" -> MarkAll(m, <<h.ref[o].env, h.ref[o].p, h.ref[o].up>>)
       [] scene.kind[o] = "thread" -> MarkAll([m EXCEPT !.color[o] = "gray", !.grayagain = <<o>> \o @],
                                              <<h.ref[o].env>> \o h.stack[o])
       [] scene.kind[o] = "proto" -> Mark(m, h.ref[o].k)
RECURSIVE PropagateAll(_)
PropagateAll(h) == IF h.gray = <<>> THEN h ELSE Then(PropagateMark(h), PropagateAll)

MarkRoot(h) ==
  [MarkAll([h EXCEPT !.gray = <<>>, !.grayagain = <<>>, !.weak = <<>>], <<Main, h.ref[Main].env, Globals, h.mt>>)
     EXCEPT !.gcstate = "propagate"]

RemarkUpvals(h) ==
  FoldSet(LAMBDA u, s : IF s.color[u] = "gray" THEN Mark(s, UpvalValue(s, u)) ELSE s,
          h, {u \in Objects : h.at[u] # NULL})

\* luaC_separateudata: the userdata, which follow the main thread in rootgc, that are
\* dead (or, when the state is closed, any) and have a __gc, each once.
HasGC(h, u) == h.ref[u].mt # NULL /\ scene.gc
SeparateUdata(h, all) ==
  LET due == {u \in Live(h) \ h.finalized : IsKind(u, "udata") /\ (all \/ h.color[u] \in Whites)}
      called(u) == u \in due /\ HasGC(h, u)
  IN [h EXCEPT !.finalized = @ \cup due,
               !.rootgc = SelectSeq(@, LAMBDA o : ~called(o)),
               !.tmudata = @ \o SelectSeq(h.rootgc, called)]
MarkTMU(h) == FoldLeft(LAMBDA s, u : Mark([s EXCEPT !.color[u] = h.white], u), h, h.tmudata)

\* Strings are values: they are never removed. A userdatum being finalized is removed
\* as a value but stays as a key.
IsCleared(h, o, isKey) == /\ o # NULL /\ ~IsKind(o, "string")
                          /\ h.color[o] \in Whites \/ (~isKey /\ o \in h.finalized)
ClearEntry(h, t) ==
  LET key == h.ref[t].key  val == h.ref[t].val
      keyed == IF IsKind(key, "string") THEN Mark(h, key) ELSE h
      kept == IF IsKind(val, "string") THEN Mark(keyed, val) ELSE keyed
      removed == [keyed EXCEPT !.ref[t].val = NULL, !.ref[t].key = NULL]
  IN CASE val = NULL -> h
       [] IsCleared(h, key, TRUE) -> [h EXCEPT !.ref[t].val = NULL, !.ref[t].key = NULL]
       [] IsCleared(h, val, FALSE) -> removed
       [] OTHER -> kept
ClearTable(h) == FoldLeft(ClearEntry, h, h.weak)

\* The atomic end of the mark phase.
Finish(h) == [h EXCEPT !.white = OtherWhite(h), !.sweepgc = 0, !.gcstate = "sweepstring"]
RemarkWeak(h) == PropagateAll(MarkAll([h EXCEPT !.gray = h.weak, !.weak = <<>>], <<h.running, h.mt>>))
RemarkGray(h) == PropagateAll([h EXCEPT !.gray = h.grayagain, !.grayagain = <<>>])
Preserve(h) == PropagateAll(MarkTMU(SeparateUdata(h, FALSE)))
Atomic(h) == Finish(Then(Then(Then(Then(PropagateAll(RemarkUpvals(h)),
               RemarkWeak), RemarkGray), Preserve), ClearTable))

(* ---- sweeping ---------------------------------------------------------- *)
MakeWhite(h, o) == [h EXCEPT !.color[o] = h.white]

\* luaC_barrierf, and luaC_barrier and luaC_objbarrier, which call it when a black object
\* that is not a table is given a white one; luaC_barrierback for tables. Both assert
\* what they rely on; a userdatum that waits for its finalizer stays black while others
\* are finalized, and a weak table can show it as a key: the last assertion then fails
\* for it, and what follows the assertion does no harm.
BarrierHolds(h, o, v) == /\ ~IsDead(h, o) /\ ~IsDead(h, v)
                         /\ h.gcstate \notin {"finalize", "pause"} \/ o \in Range(h.tmudata)
Barrier(h, o, v) ==
  IF v = NULL \/ h.color[o] # "black" \/ (v # NULL /\ h.color[v] \notin Whites) THEN h
  ELSE LET a == [h EXCEPT !.asserts = @ /\ BarrierHolds(h, o, v)]
       IN CASE IsKind(o, "table") -> [a EXCEPT !.color[o] = "gray", !.grayagain = <<o>> \o @]
            [] h.gcstate = "propagate" -> Mark(a, v)
            [] OTHER -> MakeWhite(a, o)

\* luaC_link and luaS_newudata: an object at the head of rootgc, userdata behind the main
\* thread. sweepgc counts the objects before it; while it points at rootgc itself what
\* is linked there is still swept.
Link(h, o) == [h EXCEPT !.rootgc = <<o>> \o @, !.sweepgc = IF @ = 0 THEN 0 ELSE @ + 1]
LinkUdata(h, u) ==
  LET main == SelectInSeq(h.rootgc, LAMBDA o : o = Main)
  IN [h EXCEPT !.rootgc = InsertAt(@, main + 1, u), !.sweepgc = IF @ > main THEN @ + 1 ELSE @]

\* luaC_linkupval: a closed upvalue joins rootgc; a gray one needs the barrier.
Mut_LinkUpval(h, u) == Link(h, u)
LinkUpval(h, u) ==
  LET linked == Link(h, u)
  IN CASE h.color[u] # "gray" -> linked
       [] h.gcstate = "propagate" -> Barrier([linked EXCEPT !.color[u] = "black"], u, h.ref[u].v)
       [] OTHER -> [MakeWhite(linked, u) EXCEPT !.asserts = @ /\ h.gcstate \notin {"finalize", "pause"}]

\* luaF_close: the open upvalues at and above a slot take its value with them, the
\* topmost first; the dead ones are freed.
FreeUpval(h, u) == [h EXCEPT !.color[u] = "free", !.at[u] = NULL, !.ref[u] = Empty(u)]
CloseUpval(h, u) ==
  IF IsDead(h, u) THEN FreeUpval(h, u)
  ELSE LinkUpval([h EXCEPT !.ref[u].v = UpvalValue(h, u), !.at[u] = NULL, !.asserts = @ /\ h.color[u] # "black"], u)
Close(h, t, level) ==
  FoldLeft(CloseUpval, h, SetToSortSeq(OpenUpvals(h, t, level), LAMBDA u, v : h.at[u][2] > h.at[v][2]))

FreeObj(h, o) ==
  CASE IsKind(o, "thread") -> LET c == Close(h, o, 1)
                              IN [c EXCEPT !.color[o] = "free", !.stack[o] = <<>>, !.ref[o] = Empty(o)]
    [] IsKind(o, "upval") -> FreeUpval(h, o)
    [] OTHER -> [h EXCEPT !.color[o] = "free", !.ref[o] = Empty(o), !.finalized = @ \ {o}]

\* sweeplist: the dead of a list are freed, the others made white; before a thread its
\* open upvalues are.
SweepOne(h, o) == IF IsDead(h, o) THEN FreeObj(h, o) ELSE MakeWhite(h, o)
SweepSet(h, objects) == FoldSet(LAMBDA o, s : SweepOne(s, o), h, objects)
RECURSIVE SweepRoot(_, _)
SweepRoot(h, count) ==
  IF count = 0 \/ h.sweepgc = Len(h.rootgc) THEN h
  ELSE LET o == h.rootgc[h.sweepgc + 1]
           upvals == IF IsKind(o, "thread") THEN SweepSet(h, OpenUpvals(h, o, 1)) ELSE h
           next == IF IsDead(h, o) THEN [upvals EXCEPT !.rootgc = RemoveAt(@, h.sweepgc + 1)]
                                   ELSE [upvals EXCEPT !.sweepgc = @ + 1]
       IN Then(SweepOne(next, o), LAMBDA s : SweepRoot(s, count - 1))
SweepStrings(h) ==
  LET dead == {s \in h.strings : IsDead(h, s)}
  IN [SweepSet(h, h.strings) EXCEPT !.strings = @ \ dead, !.gcstate = "sweep"]

(* ---- the collector's steps --------------------------------------------- *)
\* GCTM: the first userdatum of tmudata goes back to rootgc and its __gc is called.
GCTM(h) ==
  LET u == Head(h.tmudata)
  IN [MakeWhite(LinkUdata([h EXCEPT !.tmudata = Tail(@)], u), u)
        EXCEPT !.calls[u] = @ + (IF HasGC(h, u) THEN 1 ELSE 0),
               !.asserts = @ /\ (HasGC(h, u) => h.color[h.ref[u].mt] # "free")]

SingleStep(h) ==
  CASE h.gcstate = "pause" -> MarkRoot(h)
    [] h.gcstate = "propagate" -> IF h.gray # <<>> THEN PropagateMark(h) ELSE Atomic(h)
    [] h.gcstate = "sweepstring" -> SweepStrings(h)
    [] h.gcstate = "sweep" -> LET s == SweepRoot(h, GCSWEEPMAX)
                              IN IF s.sweepgc = Len(s.rootgc) THEN [s EXCEPT !.gcstate = "finalize", !.sweepgc = 0] ELSE s
    [] h.gcstate = "finalize" -> IF h.tmudata # <<>> THEN GCTM(h) ELSE [h EXCEPT !.gcstate = "pause"]
RECURSIVE StepsTo(_, _)
StepsTo(h, state) == IF h.gcstate = state THEN h ELSE Then(SingleStep(h), LAMBDA s : StepsTo(s, state))

\* luaC_fullgc: a mark phase under way is dropped and everything swept white first.
FullGC(h) ==
  LET reset == IF h.gcstate \in {"pause", "propagate"}
               THEN [h EXCEPT !.sweepgc = 0, !.gray = <<>>, !.grayagain = <<>>, !.weak = <<>>, !.gcstate = "sweepstring"]
               ELSE h
  IN Then(Then(StepsTo(reset, "finalize"), MarkRoot), LAMBDA s : StepsTo(s, "pause"))

\* lua_close: every finalizer is called, then every object freed.
RECURSIVE CallGCTM(_)
CallGCTM(h) == IF h.tmudata = <<>> THEN h ELSE Then(GCTM(h), CallGCTM)
Closing(h) == [SeparateUdata(Close(h, Main, 1), TRUE) EXCEPT !.stack[Main] = <<>>, !.running = Main]
FreeOpenUpvals(h) == FoldSet(LAMBDA u, s : FreeUpval(s, u), h, {u \in Objects : h.at[u] # NULL})
FreeAll(h) == FoldSet(LAMBDA o, s : FreeObj(s, o), h, (Range(h.rootgc) \ {Main}) \cup h.strings)
CloseState(h) == Then(Then(Then(Closing(h), CallGCTM), FreeOpenUpvals), FreeAll)

(* ---- the program ------------------------------------------------------- *)
\* It holds what its stack holds and what it reads from there or from the globals.
Held == Range(g.stack[g.running]) \ {NULL}
Top == Last(g.stack[g.running])
HasTop == g.stack[g.running] # <<>>
Room(t) == Len(g.stack[t]) < scene.stack
Pushed(h, o) == [h EXCEPT !.stack[h.running] = Append(@, o)]
Popped(h) == [h EXCEPT !.stack[h.running] = Front(@)]
Made(o) == [g EXCEPT !.color[o] = g.white, !.calls[o] = 0]
Fresh(k) == {o \in Objects : scene.kind[o] = k /\ g.color[o] = "free"}

\* luaH_new, luaF_newproto, luaE_newthread and luaS_newudata.
NewObject == \E o \in UNION {Fresh(k) : k \in {"table", "proto", "thread", "udata"}} :
  /\ Uses("new") /\ Room(g.running)
  /\ LET env == [Made(o) EXCEPT !.ref[o] = [f \in DOMAIN @ |-> IF f = "env" THEN g.ref[g.running].env ELSE NULL]]
     IN g' = Pushed(IF IsKind(o, "udata") THEN LinkUdata(env, o) ELSE Link(env, o), o)

\* luaS_newlstr: an equal string is used again, a dead one after its white is changed.
NewString == \E s \in Objects :
  /\ Uses("new") /\ scene.kind[s] = "string" /\ Room(g.running)
  /\ g' = Pushed(IF s \in g.strings THEN IF IsDead(g, s) THEN MakeWhite(g, s) ELSE g
                 ELSE [Made(s) EXCEPT !.strings = @ \cup {s}], s)

\* luaF_findupval: the open upvalue of a slot is used again, a dead one after its white
\* is changed; else a new one is made, which no list holds but the thread's.
FindUpval(u, slot) ==
  LET at == <<g.running, slot>>
      found == {v \in Live(g) : g.at[v] = at}
  IN IF found # {} THEN u \in found ELSE u \in Fresh("upval")
Mut_Opened(u, slot) == IF g.color[u] = "free" THEN [Made(u) EXCEPT !.at[u] = <<g.running, slot>>] ELSE g
Opened(u, slot) ==
  CASE g.color[u] = "free" -> [Made(u) EXCEPT !.at[u] = <<g.running, slot>>]
    [] IsDead(g, u) -> MakeWhite(g, u)
    [] OTHER -> g

\* OP_CLOSURE and f_parser: a closure of a prototype the program holds, if any, with an
\* upvalue of a stack slot, the upvalue of a closure it holds, or a new closed one.
NewClosure == \E f \in Fresh("closure"), p \in {x \in Held : IsKind(x, "proto")} \cup {NULL} :
  LET closure(h, u) == Pushed(Link([h EXCEPT !.color[f] = h.white,
                                            !.ref[f] = [env |-> g.ref[g.running].env, p |-> p, up |-> u]], f), f)
  IN /\ Uses("closure") /\ Room(g.running)
     /\ \/ \E u \in Objects, slot \in 1..Len(g.stack[g.running]) :
             FindUpval(u, slot) /\ g' = closure(Opened(u, slot), u)
        \/ \E c \in Held : IsKind(c, "closure") /\ g' = closure(g, g.ref[c].up)
        \/ \E u \in Fresh("upval") : g' = closure(Link(Made(u), u), u)
        \/ g' = closure(g, NULL)

\* Reads: of a field of an object it holds, or of the globals.
Get == \E o \in Held \cup {Globals} : \E f \in Fields(scene.kind[o]) :
  LET v == IF f = "up" /\ g.ref[o].up # NULL THEN UpvalValue(g, g.ref[o].up) ELSE g.ref[o][f]
  IN /\ Uses(f) /\ v # NULL /\ Room(g.running) /\ (f = "key" => g.ref[o].val # NULL)
     /\ g' = Pushed(g, v)

\* Writes, each with its barrier: lua_setmetatable, lua_setfenv, addk.
Set == \E o \in Held, v \in Held \cup {NULL} : \E f \in {"mt", "env", "k"} \cap Fields(scene.kind[o]) :
  /\ Uses(f) /\ (f # "k" => v = NULL \/ IsKind(v, "table")) /\ (f = "env" => v # NULL)
  /\ g' = Barrier([g EXCEPT !.ref[o][f] = v], o, v)
\* luaH_set, luaH_newkey and luaV_settable: an entry of a table, the key first.
SetEntry == \E t \in {o \in Held \cup {Globals} : IsKind(o, "table")}, k, v \in Held \cup {NULL} :
  LET keyed == IF g.ref[t].key = k THEN g ELSE Barrier([g EXCEPT !.ref[t].key = k], t, k)
  IN /\ Uses("set") /\ (k # NULL => Uses("key") /\ t # Globals)
     /\ g.ref[t].key = k \/ g.ref[t].val = NULL
     /\ g' = Barrier([keyed EXCEPT !.ref[t].val = v], t, v)
\* OP_SETUPVAL and lua_setupvalue.
SetUpval == \E f \in Held, v \in Held \cup {NULL} :
  /\ Uses("up") /\ IsKind(f, "closure") /\ g.ref[f].up # NULL
  /\ LET u == g.ref[f].up
     IN g' = IF g.at[u] = NULL THEN Barrier([g EXCEPT !.ref[u].v = v], u, v)
             ELSE Barrier([g EXCEPT !.stack[g.at[u][1]][g.at[u][2]] = v], u, v)
\* lua_setmetatable of a value that is neither a table nor a userdatum.
SetBasicMetatable == \E v \in Held \cup {NULL} :
  /\ Uses("basic") /\ (v = NULL \/ IsKind(v, "table"))
  /\ g' = [g EXCEPT !.mt = v]

\* OP_CLOSE and the end of a function: what is popped is closed first.
Pop == HasTop /\ g' = Popped(Close(g, g.running, Len(g.stack[g.running])))
\* lua_xmove, lua_resume and lua_yield.
Move == \E t \in Held : /\ Uses("switch") /\ IsKind(t, "thread") /\ t # g.running /\ Room(t)
                        /\ g' = [Popped(g) EXCEPT !.stack[t] = Append(@, Top)]
                        /\ OpenUpvals(g, g.running, Len(g.stack[g.running])) = {}
Resume == \E t \in Held : Uses("switch") /\ IsKind(t, "thread") /\ g.running = Main /\ g' = [g EXCEPT !.running = t]
Yield == g.running # Main /\ g' = [g EXCEPT !.running = Main]

\* luaC_step: at any time. A finalizer may store its userdatum where it is found again.
Step == \E saved \in BOOLEAN :
  LET s == SingleStep(g)
      finalizing == g.gcstate = "finalize" /\ g.tmudata # <<>>
      u == Head(g.tmudata)
      store == finalizing /\ s.calls[u] > g.calls[u] /\ g.ref[Globals].key = NULL
  IN /\ saved => store
     /\ g' = IF saved THEN Barrier([s EXCEPT !.ref[Globals].val = u], Globals, u) ELSE s
\* lua_gc(LUA_GCCOLLECT).
Collect == g' = FullGC(g)

Next == /\ \/ NewObject \/ NewString \/ NewClosure \/ Get \/ Set \/ SetEntry \/ SetUpval \/ SetBasicMetatable
           \/ Pop \/ Move \/ Resume \/ Yield \/ Step \/ Collect
        /\ UNCHANGED scene

Spec == Init /\ [][Next]_vars

(* ---- properties -------------------------------------------------------- *)
Strong(h, o) ==
  CASE IsKind(o, "table") ->
         LET weak == Weakness(h, o)
             entry == IF h.ref[o].val = NULL THEN {} ELSE {<<"k", h.ref[o].key>>, <<"v", h.ref[o].val>>}
         IN {h.ref[o].mt} \cup {e[2] : e \in {x \in entry : x[1] \notin weak \/ IsKind(x[2], "string")}}
    [] IsKind(o, "upval") -> {UpvalValue(h, o)}
    [] IsKind(o, "thread") -> {h.ref[o].env} \cup Range(h.stack[o])
    [] OTHER -> Range(h.ref[o])
Weak(h, o) == IF IsKind(o, "table") /\ h.ref[o].val # NULL THEN {h.ref[o].key, h.ref[o].val} ELSE {}
RECURSIVE Closure(_, _, _)
Closure(h, found, weak) ==
  Then(found \cup (UNION {Strong(h, o) \cup (IF weak THEN Weak(h, o) ELSE {}) : o \in found} \ {NULL}),
       LAMBDA more : IF more = found THEN found ELSE Closure(h, more, weak))
Roots(h) == {Main, h.running, Globals, h.mt} \ {NULL}

\* The collector never frees what the program can still reach, through a weak table or
\* a pending finalizer too, wherever between its steps the program writes: the barriers
\* of tables, closures, upvalues and prototypes, the second look at threads, open
\* upvalues and basic metatables, and what is found dead and used again. An object is on
\* one gray list only, and no mark is left when a cycle has swept.
ListsApart == LET lists == g.gray \o g.grayagain \o g.weak IN IsInjective(lists)
WhiteAtRest == g.gcstate \in {"pause", "finalize"} =>
  \A o \in Range(g.rootgc) \cup g.strings : g.color[o] = g.white
Safe(h) == \A o \in Closure(h, Roots(h) \cup Range(h.tmudata), TRUE) : h.color[o] # "free"

\* Two full collections, from any step of an incremental one, leave exactly what the
\* program reaches (the second takes what the first finalized), a finalizer is called
\* once at most, and closing the state frees everything after every finalizer is called.
GCCollects ==
  /\ Then(Then(FullGC(g), FullGC), LAMBDA f : Live(f) = Closure(f, Roots(f), FALSE))
  /\ Then(CloseState(g), LAMBDA c :
        /\ Live(c) = {Main}
        /\ \A u \in Live(g) : IsKind(u, "udata") =>
             c.calls[u] = g.calls[u] + (IF HasGC(g, u) /\ (u \in Range(g.tmudata) \/ u \notin g.finalized) THEN 1 ELSE 0))
  /\ \A u \in Live(g) : g.calls[u] <= 1
================================================================================
