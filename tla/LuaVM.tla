--------------------------------- MODULE LuaVM ---------------------------------
(***************************************************************************)
(* Lua's virtual machine (lvm.c), with the entering and leaving of Lua     *)
(* functions (ldo.c), the upvalues (lfunc.c) and the code checker          *)
(* (ldebug.c). It compiles a program and runs it, one instruction a step.  *)
(* Stack positions count from 0. Tables have no metatables and keep their  *)
(* items in a function of the keys; strings are neither ordered nor turned *)
(* into numbers.                                                           *)
(***************************************************************************)
EXTENDS LuaCompiler, TLC

CONSTANTS Programs,   (* the syntax trees of the programs that are run *)
          Mistakes    (* token sequences that are not programs *)
VARIABLES program, vm
vars == <<program, vm>>

LOCAL M == INSTANCE LuaMeaning

(* ---- the code checker ------------------------------------------------------------ *)
Arithmetic == {"ADD", "SUB", "MUL", "DIV", "MOD", "POW"}
Comparison == {"EQ", "LT", "LE"}
BMode(op) ==
  CASE op \in {"MOVE", "LOADNIL", "GETTABLE", "SELF", "UNM", "NOT", "LEN", "CONCAT", "TEST", "TESTSET"} -> "R"
    [] op \in {"JMP", "FORLOOP", "FORPREP"} -> "R"
    [] op \in {"LOADK", "GETGLOBAL", "SETGLOBAL", "SETTABLE"} \cup Arithmetic \cup Comparison -> "K"
    [] op \in {"TFORLOOP", "CLOSE"} -> "N"
    [] OTHER -> "U"
CMode(op) ==
  CASE op = "CONCAT" -> "R"
    [] op \in {"GETTABLE", "SETTABLE", "SELF"} \cup Arithmetic \cup Comparison -> "K"
    [] op \in {"LOADBOOL", "NEWTABLE", "TEST", "TESTSET", "CALL", "TAILCALL", "TFORLOOP", "SETLIST"} -> "U"
    [] OTHER -> "N"
HasBx(op) == op \in {"LOADK", "GETGLOBAL", "SETGLOBAL", "CLOSURE"}
Jumping(op) == op \in {"JMP", "FORLOOP", "FORPREP"}

CheckReg(p, r) == r < p.maxstacksize
CheckArgMode(p, r, mode) ==
  CASE mode = "N" -> r = 0
    [] mode = "R" -> CheckReg(p, r)
    [] mode = "K" -> IF r >= BITRK THEN r - BITRK < Len(p.k) ELSE CheckReg(p, r)
    [] OTHER -> TRUE
CheckOpenOp(i) == i.op \in {"CALL", "TAILCALL", "RETURN", "SETLIST"} /\ i.b = 0
PreCheck(p) ==
  /\ p.maxstacksize <= MAXSTACK
  /\ p.numparams + (IF "HASARG" \in p.is_vararg THEN 1 ELSE 0) <= p.maxstacksize
  /\ "NEEDSARG" \in p.is_vararg => "HASARG" \in p.is_vararg
  /\ p.code # <<>> /\ Last(p.code).op = "RETURN"

\* symbexec's checks of the instruction at pc, and of how it goes with those behind it.
CheckOperands(p, pc, i) ==
  CASE HasBx(i.op) -> BMode(i.op) = "K" => i.b < Len(p.k)
    [] Jumping(i.op) -> pc + 1 + i.b \in 0..(Len(p.code) - 1)
    [] OTHER -> CheckArgMode(p, i.b, BMode(i.op)) /\ CheckArgMode(p, i.c, CMode(i.op))
CheckInstruction(p, pc, i) ==
  /\ CheckReg(p, i.a) /\ CheckOperands(p, pc, i)
  /\ i.op \in TestMode => pc + 2 < Len(p.code) /\ p.code[pc + 2].op = "JMP"
  /\ CASE i.op = "LOADBOOL" -> i.c = 1 => pc + 2 < Len(p.code)
       [] i.op \in {"GETUPVAL", "SETUPVAL"} -> i.b < p.nups
       [] i.op \in {"GETGLOBAL", "SETGLOBAL"} -> p.k[i.b + 1][1] = "string"
       [] i.op = "SELF" -> CheckReg(p, i.a + 1)
       [] i.op = "CONCAT" -> i.b < i.c
       [] i.op = "TFORLOOP" -> i.c >= 1 /\ CheckReg(p, i.a + 2 + i.c)
       [] i.op \in {"FORLOOP", "FORPREP"} -> CheckReg(p, i.a + 3)
       [] i.op \in {"CALL", "TAILCALL"} -> /\ i.b # 0 => CheckReg(p, i.a + i.b - 1)
                                           /\ IF i.c = 0 THEN CheckOpenOp(p.code[pc + 2]) ELSE CheckReg(p, i.a + i.c - 2)
       [] i.op = "RETURN" -> i.b > 1 => CheckReg(p, i.a + i.b - 2)
       [] i.op = "SETLIST" -> i.b > 0 => CheckReg(p, i.a + i.b)
       [] i.op = "CLOSURE" -> /\ i.b < Len(p.p) /\ pc + p.p[i.b + 1].nups < Len(p.code)
                              /\ \A j \in 1..p.p[i.b + 1].nups : p.code[pc + 1 + j].op \in {"GETUPVAL", "MOVE"}
       [] i.op = "VARARG" -> /\ "ISVARARG" \in p.is_vararg /\ "NEEDSARG" \notin p.is_vararg
                             /\ i.b = 0 => CheckOpenOp(p.code[pc + 2])
                             /\ CheckReg(p, i.a + i.b - 2)
       [] OTHER -> TRUE
RECURSIVE CheckCode(_)
CheckCode(p) == /\ PreCheck(p)
                /\ \A pc \in 0..(Len(p.code) - 1) : CheckInstruction(p, pc, p.code[pc + 1])
                /\ \A j \in DOMAIN p.p : CheckCode(p.p[j])

(* ---- the stack and the upvalues ---------------------------------------------------- *)
Nil == <<"nil">>
Bool(b) == <<"boolean", b>>
IsFalse(v) == v \in {Nil, Bool(FALSE)}
IsNum(v) == v[1] = "number"

Ci(s) == Last(s.ci)
At(s, pos) == s.stack[pos + 1]
Put(s, pos, v) == [s EXCEPT !.stack[pos + 1] = v]
CheckStackSize(s, n) ==
  IF Len(s.stack) >= s.top + n THEN s ELSE [s EXCEPT !.stack = @ \o [j \in 1..(s.top + n - Len(s.stack)) |-> Nil]]
\* The values are written from pos on, and the top is put behind them.
PutAll(s, pos, vs) == [CheckStackSize([s EXCEPT !.top = pos], Len(vs)) EXCEPT
                         !.stack = [j \in DOMAIN @ |-> IF j - pos \in DOMAIN vs THEN vs[j - pos] ELSE @[j]], !.top = pos + Len(vs)]
Values(s, from, to) == SubSeq(s.stack, from + 1, to)       \* at the positions from .. to - 1
SetTop(s) == [s EXCEPT !.top = Ci(s).top]

Closure(s) == s.closures[At(s, Ci(s).func)[2]]
Current(s) == Closure(s).p.code[Ci(s).pc + 1]
R(s, r) == At(s, Ci(s).base + r)
SetR(s, r, v) == Put(s, Ci(s).base + r, v)
K(s, x) == Closure(s).p.k[x + 1]
RKValue(s, x) == IF x >= BITRK THEN K(s, x - BITRK) ELSE R(s, x)
Advance(s, n) == [s EXCEPT !.ci[Len(s.ci)].pc = @ + n]
\* The jump that follows a test is taken when holds, and passed over when not.
Branch(s, holds) == Advance(s, IF holds THEN 1 + Current(Advance(s, 1)).b + 1 ELSE 2)
RunError(s) == [s EXCEPT !.status = "error"]

Opened(s) == {u \in DOMAIN s.upvals : s.upvals[u].open}
UpValue(s, u) == IF s.upvals[u].open THEN At(s, s.upvals[u].v) ELSE s.upvals[u].v
SetUpValue(s, u, v) == IF s.upvals[u].open THEN Put(s, s.upvals[u].v, v) ELSE [s EXCEPT !.upvals[u].v = v]
\* The upvalue of a stack position is found, or made: [s, u].
FindUpval(s, level) ==
  LET here == {u \in Opened(s) : s.upvals[u].v = level}
  IN IF here # {} THEN [s |-> s, u |-> CHOOSE u \in here : TRUE]
     ELSE [s |-> [s EXCEPT !.upvals = Append(@, [open |-> TRUE, v |-> level])], u |-> Len(s.upvals) + 1]
\* A mutant: the upvalue of the lowest position stays open.
Mut_CloseUpvals(s, level) ==
  [s EXCEPT !.upvals = [u \in DOMAIN @ |-> IF @[u].open /\ @[u].v > level THEN [open |-> FALSE, v |-> At(s, @[u].v)] ELSE @[u]]]
CloseUpvals(s, level) ==
  [s EXCEPT !.upvals = [u \in DOMAIN @ |-> IF @[u].open /\ @[u].v >= level THEN [open |-> FALSE, v |-> At(s, @[u].v)] ELSE @[u]]]

(* ---- tables ------------------------------------------------------------------------- *)
NewTable(s) == [s EXCEPT !.tables = Append(@, <<>>)]
Ref(s) == <<"table", Len(s.tables)>>
WithItem(t, k, v) == IF v = Nil THEN [x \in DOMAIN t \ {k} |-> t[x]] ELSE (k :> v) @@ t
Item(t, k) == IF k \in DOMAIN t THEN t[k] ELSE Nil
SetItem(s, h, k, v) == [s EXCEPT !.tables[h[2]] = WithItem(@, k, v)]
\* luaH_getn of a table without a gap.
GetN(t) == CHOOSE n \in 0..Cardinality(DOMAIN t) : (\A j \in 1..n : KNumber(j) \in DOMAIN t) /\ KNumber(n + 1) \notin DOMAIN t
\* luaV_gettable into a register, and luaV_settable.
GetTable(s, t, k, ra) == IF t[1] = "table" THEN SetR(s, ra, Item(s.tables[t[2]], k)) ELSE RunError(s)
SetTable(s, t, k, v) == IF t[1] = "table" /\ k # Nil THEN SetItem(s, t, k, v) ELSE RunError(s)

(* ---- calls ---------------------------------------------------------------------------- *)
\* The missing parameters are nil; the old-style arg has the extra arguments; and the
\* fixed parameters move behind all of them.
ArgTable(extra) == [k \in {KNumber(j) : j \in DOMAIN extra} |-> extra[k[2]]] @@ (KString("n") :> KNumber(Len(extra)))
WithoutNils(t) == [k \in {k \in DOMAIN t : t[k] # Nil} |-> t[k]]
AdjustVarargs(s, p, func) ==
  LET given == Values(s, func + 1, s.top)
      args == given \o [j \in 1..Max({0, p.numparams - Len(given)}) |-> Nil]
      fixed == SubSeq(args, 1, p.numparams)
      extra == SubSeq(args, p.numparams + 1, Len(args))
      moved == [j \in 1..p.numparams |-> Nil] \o extra
      arg == [s EXCEPT !.tables = Append(@, WithoutNils(ArgTable(extra)))]
  IN IF "NEEDSARG" \in p.is_vararg THEN PutAll(arg, func + 1, moved \o fixed \o <<Ref(arg)>>)
     ELSE PutAll(s, func + 1, moved \o fixed)
\* luaD_poscall: the results go where the function was.
PosCall(s, first) ==
  LET c == Ci(s)
      results == Values(s, first, s.top)
      kept == IF c.nresults = MULTRET THEN results
              ELSE [j \in 1..c.nresults |-> IF j \in DOMAIN results THEN results[j] ELSE Nil]
  IN PutAll([s EXCEPT !.ci = Front(@)], c.func, kept)
CallInfo(func, base, top, nresults, caller) ==
  [func |-> func, base |-> base, top |-> top, pc |-> 0, nresults |-> nresults, caller |-> caller]
\* luaD_precall of a Lua function: the parameters, a frame, and nil in its other registers.
EnterLua(s, func, nresults, caller) ==
  LET p == s.closures[At(s, func)[2]].p
      plain(x) == [x EXCEPT !.top = Min({@, func + 1 + p.numparams})]
      args(x) == IF p.is_vararg = {} THEN plain(x) ELSE AdjustVarargs(x, p, func)
      base(x) == IF p.is_vararg = {} THEN func + 1 ELSE s.top + Max({0, p.numparams - (s.top - func - 1)})
      frame(x) == PutAll([x EXCEPT !.ci = Append(@, CallInfo(func, base(x), base(x) + p.maxstacksize, nresults, caller))],
                         x.top, [j \in 1..(base(x) + p.maxstacksize - x.top) |-> Nil])
  IN Then2(CheckStackSize(s, p.maxstacksize), args, frame)
\* The C function out outputs its arguments and returns them.
EnterC(s, func, nresults) ==
  LET args == Values(s, func + 1, s.top)
      entered == [s EXCEPT !.ci = Append(@, CallInfo(func, func + 1, s.top, nresults, "C")), !.out = Append(@, args)]
  IN PosCall(entered, func + 1)
PreCall(s, func, nresults, caller, forC(_)) ==
  CASE At(s, func)[1] = "function" -> EnterLua(s, func, nresults, caller)
    [] At(s, func)[1] = "builtin" -> Then(EnterC(s, func, nresults), forC)
    [] OTHER -> RunError(s)

(* ---- the instructions ------------------------------------------------------------------ *)
\* Executes(ops, Op): the current instruction, of one of the kinds, does Op.
Executes(ops, Op(_, _)) ==
  /\ vm.status = "running" /\ Current(vm).op \in ops
  /\ vm' = Op(Advance(vm, 1), Current(vm))
  /\ UNCHANGED program

Move == Executes({"MOVE"}, LAMBDA s, i : SetR(s, i.a, R(s, i.b)))
LoadK == Executes({"LOADK"}, LAMBDA s, i : SetR(s, i.a, K(s, i.b)))
LoadBool == Executes({"LOADBOOL"}, LAMBDA s, i : SetR(Advance(s, i.c), i.a, Bool(i.b = 1)))
LoadNils ==
  Executes({"LOADNIL"}, LAMBDA s, i : [s EXCEPT !.stack = [j \in DOMAIN @ |-> IF j - 1 - Ci(s).base \in i.a..i.b THEN Nil ELSE @[j]]])
GetUpval == Executes({"GETUPVAL"}, LAMBDA s, i : SetR(s, i.a, UpValue(s, Closure(s).upvals[i.b + 1])))
SetUpval == Executes({"SETUPVAL"}, LAMBDA s, i : SetUpValue(s, Closure(s).upvals[i.b + 1], R(s, i.a)))
GetGlobal == Executes({"GETGLOBAL"}, LAMBDA s, i : SetR(s, i.a, Item(s.globals, K(s, i.b))))
SetGlobal == Executes({"SETGLOBAL"}, LAMBDA s, i : [s EXCEPT !.globals = WithItem(@, K(s, i.b), R(s, i.a))])
GetTableOp == Executes({"GETTABLE"}, LAMBDA s, i : GetTable(s, R(s, i.b), RKValue(s, i.c), i.a))
SetTableOp == Executes({"SETTABLE"}, LAMBDA s, i : SetTable(s, R(s, i.a), RKValue(s, i.b), RKValue(s, i.c)))
NewTableOp == Executes({"NEWTABLE"}, LAMBDA s, i : SetR(NewTable(s), i.a, Ref(NewTable(s))))
SelfOp == Executes({"SELF"}, LAMBDA s, i : GetTable(SetR(s, i.a + 1, R(s, i.b)), R(s, i.b), RKValue(s, i.c), i.a))
ArithOp ==
  Executes(Arithmetic, LAMBDA s, i : IF IsNum(RKValue(s, i.b)) /\ IsNum(RKValue(s, i.c))
                                     THEN SetR(s, i.a, KNumber(Arith(i.op, RKValue(s, i.b)[2], RKValue(s, i.c)[2]))) ELSE RunError(s))
Unm == Executes({"UNM"}, LAMBDA s, i : IF IsNum(R(s, i.b)) THEN SetR(s, i.a, KNumber(-R(s, i.b)[2])) ELSE RunError(s))
Not == Executes({"NOT"}, LAMBDA s, i : SetR(s, i.a, Bool(IsFalse(R(s, i.b)))))
LenOp ==
  LET length(s, v) == IF v[1] = "table" THEN GetN(s.tables[v[2]]) ELSE Len(v[2])
  IN Executes({"LEN"}, LAMBDA s, i : IF R(s, i.b)[1] \in {"table", "string"} THEN SetR(s, i.a, KNumber(length(s, R(s, i.b))))
                                     ELSE RunError(s))

\* luaV_concat joins, from the last on, as many as are strings or numbers, and two when the
\* last is empty.
ToStr(v) == IF IsNum(v) THEN ToString(v[2]) ELSE v[2]
IsStr(v) == v[1] \in {"number", "string"}
Joining(vs) ==
  LET run == Max({n \in 0..Len(vs) : \A j \in (Len(vs) - n + 1)..Len(vs) : IsStr(vs[j])})
  IN IF Last(vs) = KString("") THEN 2 ELSE run
RECURSIVE Concatenated(_)
Concatenated(vs) ==
  LET keep == SubSeq(vs, 1, Len(vs) - Joining(vs))
      joined == FoldLeft(LAMBDA acc, v : acc \o ToStr(v), "", SubSeq(vs, Len(vs) - Joining(vs) + 1, Len(vs)))
  IN CASE Len(vs) = 1 -> vs[1]
       [] Len(vs) > 1 /\ (~IsStr(vs[Len(vs) - 1]) \/ ~IsStr(Last(vs))) -> Nil
       [] OTHER -> Concatenated(Append(keep, KString(joined)))
ConcatOp ==
  LET stored(s, i, v) == IF v = Nil THEN RunError(s) ELSE SetR(SetR(s, i.b, v), i.a, v)
  IN Executes({"CONCAT"}, LAMBDA s, i : stored(s, i, Concatenated(Values(s, Ci(s).base + i.b, Ci(s).base + i.c + 1))))

JmpOp == Executes({"JMP"}, LAMBDA s, i : Advance(s, i.b))
\* Branch looks at the jump from the test itself.
Tests(ops, Holds(_, _), Op(_, _)) ==
  /\ vm.status = "running" /\ Current(vm).op \in ops
  /\ vm' = IF Holds(vm, Current(vm)) THEN Op(Branch(vm, TRUE), Current(vm)) ELSE Branch(vm, FALSE)
  /\ UNCHANGED program
EqOp == Tests({"EQ"}, LAMBDA s, i : (RKValue(s, i.b) = RKValue(s, i.c)) = (i.a = 1), LAMBDA s, i : s)
\* Two values that are not both numbers have no order.
Compare ==
  LET less(s, i) == IF i.op = "LT" THEN RKValue(s, i.b)[2] < RKValue(s, i.c)[2] ELSE RKValue(s, i.b)[2] <= RKValue(s, i.c)[2]
      branch(s, i) == Branch(s, less(s, i) = (i.a = 1))
  IN /\ vm.status = "running" /\ Current(vm).op \in {"LT", "LE"}
     /\ vm' = IF IsNum(RKValue(vm, Current(vm).b)) /\ IsNum(RKValue(vm, Current(vm).c)) THEN branch(vm, Current(vm)) ELSE RunError(vm)
     /\ UNCHANGED program
TestOp == Tests({"TEST"}, LAMBDA s, i : IsFalse(R(s, i.a)) # (i.c = 1), LAMBDA s, i : s)
TestSetOp == Tests({"TESTSET"}, LAMBDA s, i : IsFalse(R(s, i.b)) # (i.c = 1), LAMBDA s, i : SetR(s, i.a, R(s, i.b)))

\* The arguments end at the top, which the instruction sets unless the one before it did.
SetArgs(s, i) == IF i.b # 0 THEN [s EXCEPT !.top = Ci(s).base + i.a + i.b] ELSE s
CallOp ==
  Executes({"CALL"}, LAMBDA s, i :
    PreCall(SetArgs(s, i), Ci(s).base + i.a, i.c - 1, "call", LAMBDA x : IF i.c - 1 >= 0 THEN SetTop(x) ELSE x))
\* OP_TAILCALL puts the new frame in place of the one that calls.
TailCall ==
  LET p(s) == Closure(s).p
      replaced(s) ==
        LET ci == s.ci[Len(s.ci) - 1]
            new == Ci(s)
            closed == CloseUpvals(s, ci.base)
            base == ci.func + (new.base - new.func)
            moved == PutAll(closed, ci.func, Values(closed, new.func, s.top))
        IN [moved EXCEPT !.ci = Append(Front(Front(@)), [ci EXCEPT !.base = base, !.top = moved.top, !.pc = 0]),
                         !.ok = @ /\ moved.top = base + p(s).maxstacksize]
      called(s, i) == PreCall(SetArgs([s EXCEPT !.ok = @ /\ i.c = 0], i), Ci(s).base + i.a, MULTRET, "call", LAMBDA x : x)
  IN Executes({"TAILCALL"}, LAMBDA s, i : Then(called(s, i), LAMBDA x : IF Len(x.ci) > Len(s.ci) THEN replaced(x) ELSE x))
\* OP_TFORLOOP once its iterator returned: the control variable, and the jump that follows.
Iterated(s) ==
  LET a == Current(Advance(s, -1)).a
      more == R(s, a + 3) # Nil
      kept == IF more THEN SetR(s, a + 2, R(s, a + 3)) ELSE s
  IN SetTop(Advance(kept, IF more THEN 1 + Current(s).b ELSE 1))
TForLoop ==
  LET called(s, i) ==
        LET cb == Ci(s).base + i.a + 3
        IN PreCall(PutAll(s, cb, <<R(s, i.a), R(s, i.a + 1), R(s, i.a + 2)>>), cb, i.c, "tforloop", Iterated)
  IN Executes({"TFORLOOP"}, called)
\* OP_RETURN, to an OP_CALL, to an iterator's OP_TFORLOOP, or to the host.
Return ==
  LET topped(s, i) == IF i.b # 0 THEN [s EXCEPT !.top = Ci(s).base + i.a + i.b - 1] ELSE s
      closed(s) == IF Opened(s) # {} THEN CloseUpvals(s, Ci(s).base) ELSE s
      left(s, c) ==
        CASE c.caller = "host" -> [s EXCEPT !.status = "halted", !.result = Values(s, c.func, s.top)]
          [] c.caller = "tforloop" -> Iterated(s)
          [] OTHER -> [IF c.nresults # MULTRET THEN SetTop(s) ELSE s EXCEPT !.ok = @ /\ Current(Advance(s, -1)).op = "CALL"]
  IN Executes({"RETURN"}, LAMBDA s, i : Then2(topped(s, i), closed, LAMBDA x : left(PosCall(x, Ci(x).base + i.a), Ci(x))))

ForLoop ==
  LET next(s, i) ==
        LET step == R(s, i.a + 2)[2]
            idx == R(s, i.a)[2] + step
            limit == R(s, i.a + 1)[2]
            goes == IF 0 < step THEN idx <= limit ELSE limit <= idx
        IN IF goes THEN SetR(SetR(Advance(s, i.b), i.a, KNumber(idx)), i.a + 3, KNumber(idx)) ELSE s
  IN Executes({"FORLOOP"}, next)
ForPrep ==
  Executes({"FORPREP"}, LAMBDA s, i :
    IF \A j \in 0..2 : IsNum(R(s, i.a + j)) THEN SetR(Advance(s, i.b), i.a, KNumber(R(s, i.a)[2] - R(s, i.a + 2)[2])) ELSE RunError(s))
SetListOp ==
  LET n(s, i) == IF i.b = 0 THEN s.top - (Ci(s).base + i.a) - 1 ELSE i.b
      stored(s, i, count) ==
        Each(IF i.b = 0 THEN SetTop(s) ELSE s, [j \in 1..count |-> j],
             LAMBDA x, j : SetItem(x, R(s, i.a), KNumber((i.c - 1) * LFIELDS_PER_FLUSH + j), R(s, i.a + j)))
  IN Executes({"SETLIST"}, LAMBDA s, i : stored(s, i, n(s, i)))
CloseOp == Executes({"CLOSE"}, LAMBDA s, i : CloseUpvals(s, Ci(s).base + i.a))
\* OP_CLOSURE takes its upvalues from the instructions behind it.
ClosureOp ==
  LET captured(x, i) == IF i.op = "GETUPVAL" THEN [s |-> x.s, us |-> Append(x.us, Closure(x.s).upvals[i.b + 1])]
                        ELSE Then(FindUpval(x.s, Ci(x.s).base + i.b), LAMBDA r : [s |-> r.s, us |-> Append(x.us, r.u)])
      made(s, a, p) ==
        Then(Each([s |-> s, us |-> <<>>], SubSeq(Closure(s).p.code, Ci(s).pc + 1, Ci(s).pc + p.nups), captured),
             LAMBDA x : SetR([Advance(x.s, p.nups) EXCEPT !.closures = Append(@, [p |-> p, upvals |-> x.us])],
                             a, <<"function", Len(x.s.closures) + 1>>))
  IN Executes({"CLOSURE"}, LAMBDA s, i : made(s, i.a, Closure(s).p.p[i.b + 1]))
VarargOp ==
  LET spread(s, i) ==
        LET c == Ci(s)
            n == c.base - c.func - Closure(s).p.numparams - 1
            extra == Values(s, c.base - n, c.base)
            b == i.b - 1
        IN IF i.b = 0 THEN PutAll(s, c.base + i.a, extra)
           ELSE [PutAll(s, c.base + i.a, [j \in 1..b |-> IF j <= n THEN extra[j] ELSE Nil]) EXCEPT !.top = s.top]
  IN Executes({"VARARG"}, spread)

(* ---- a program --------------------------------------------------------------------------- *)
Source == [status |-> "source", stack |-> <<>>, top |-> 0, ci |-> <<>>, upvals |-> <<>>, closures |-> <<>>, tables |-> <<>>,
           globals |-> (KString("out") :> <<"builtin", "out">>), out |-> <<>>, result |-> <<>>, ok |-> TRUE]
Init == /\ program \in {<<"tree", p>> : p \in Programs} \cup {<<"mistake", t>> : t \in Mistakes}
        /\ vm = Source
\* The program is compiled, and its main function called.
Load ==
  LET toks == IF program[1] = "tree" THEN M!BlockTokens(program[2]) ELSE program[2]
      main(r) == [Source EXCEPT !.status = "running", !.stack = <<<<"function", 1>>>>, !.top = 1,
                                !.closures = <<[p |-> r.proto, upvals |-> <<>>]>>, !.ok = r.ok /\ CheckCode(r.proto)]
  IN /\ vm.status = "source"
     /\ vm' = Then(Parse(toks), LAMBDA r : IF r.rejected THEN [Source EXCEPT !.status = "rejected"]
                                           ELSE EnterLua(main(r), 0, MULTRET, "host"))
     /\ UNCHANGED program

Next == \/ Load \/ Move \/ LoadK \/ LoadBool \/ LoadNils \/ GetUpval \/ SetUpval \/ GetGlobal \/ SetGlobal \/ GetTableOp
        \/ SetTableOp \/ NewTableOp \/ SelfOp \/ ArithOp \/ Unm \/ Not \/ LenOp \/ ConcatOp \/ JmpOp \/ EqOp \/ Compare
        \/ TestOp \/ TestSetOp \/ CallOp \/ TailCall \/ TForLoop \/ Return \/ ForLoop \/ ForPrep \/ SetListOp \/ CloseOp
        \/ ClosureOp \/ VarargOp
Spec == Init /\ [][Next]_vars

(* ---- properties ----------------------------------------------------------------------------- *)
\* The compiler accepts exactly the programs; the code it makes of one passes the code
\* checker, keeps every assertion of the parser and the machine, and outputs and returns
\* what the program means, or fails where the program does.
CodeComputes ==
  /\ vm.ok
  /\ vm.status # "source" => ((vm.status = "rejected") <=> (program[1] = "mistake"))
  /\ vm.status = "running" => vm.top = Ci(vm).top \/ CheckOpenOp(Current(vm))
  /\ vm.status \in {"halted", "error"} => M!Outcome(vm.out, vm.result, vm.status = "error") = M!Meaning(program[2])
================================================================================
