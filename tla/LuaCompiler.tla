------------------------------ MODULE LuaCompiler ------------------------------
(***************************************************************************)
(* Lua's compiler: the code generator (lcode.c) and the parser (lparser.c),*)
(* which generates code as it reads. A FuncState fs is the function that   *)
(* is being compiled; fs.ex are the expression descriptors the parser is   *)
(* working on, and an operator says by its index i which it changes. Code  *)
(* positions and registers count from 0. ok is FALSE once an assertion of  *)
(* the code failed, and failed is TRUE once a limit was exceeded. The      *)
(* parser's state s has the tokens not yet read, the function being        *)
(* compiled, those around it, and the depth of the recursion; a token is   *)
(* <<type>> or <<type, value>>. An operator that reads an expression       *)
(* leaves its descriptor on the stack s.fs.ex. A syntax error ends the     *)
(* input.                                                                  *)
(***************************************************************************)
EXTENDS Integers, Sequences, SequencesExt, FiniteSetsExt, LuaCommon

CONSTANTS MAXINDEXRK, MAXSTACK, LFIELDS_PER_FLUSH,
          LUAI_MAXVARS, LUAI_MAXUPVALUES, MAXLEVELS   (* MAXLEVELS is LUAI_MAXCCALLS *)

NO_JUMP == -1
NO_REG == 255
BITRK == 256
MULTRET == -1

I(op, a, b, c) == [op |-> op, a |-> a, b |-> b, c |-> c]
ExpDesc(kind, info) == [k |-> kind, info |-> info, aux |-> 0, nval |-> 0, t |-> NO_JUMP, f |-> NO_JUMP]
Number(n) == [ExpDesc("VKNUM", 0) EXCEPT !.nval = n]
HasJumps(e) == e.t # e.f
IsNumeral(e) == e.k = "VKNUM" /\ e.t = NO_JUMP /\ e.f = NO_JUMP
HasMultRet(e) == e.k \in {"VCALL", "VVARARG"}

Pc(fs) == Len(fs.code)
Instr(fs, pc) == fs.code[pc + 1]
LastExp(fs) == Len(fs.ex)
PushExp(fs, e) == [fs EXCEPT !.ex = Append(@, e)]
PopExp(fs) == [fs EXCEPT !.ex = Front(@)]
SetExp(fs, i, kind, info) == [fs EXCEPT !.ex[i].k = kind, !.ex[i].info = info]

\* Call(x, <<f, ...>>): what the function f does to the FuncState or the parser's state x.
RECURSIVE Call(_, _)

(* ---- jump lists ------------------------------------------------------------- *)
\* A list of jumps that wait for their destination runs through the jumps themselves.
GetJump(fs, pc) == IF Instr(fs, pc).b = NO_JUMP THEN NO_JUMP ELSE pc + 1 + Instr(fs, pc).b
RECURSIVE Jumps(_, _)
Jumps(fs, list) == IF list = NO_JUMP THEN <<>> ELSE <<list>> \o Jumps(fs, GetJump(fs, list))
FixJump(fs, pc, dest) == [fs EXCEPT !.code[pc + 1].b = dest - (pc + 1)]

\* luaK_concat: what it does to the code, and the list that results.
Concat(fs, l1, l2) == IF NO_JUMP \in {l1, l2} THEN fs ELSE FixJump(fs, Last(Jumps(fs, l1)), l2)
Joined(l1, l2) == IF l1 = NO_JUMP THEN l2 ELSE l1
ConcatT(fs, i, l) == [Concat(fs, fs.ex[i].t, l) EXCEPT !.ex[i].t = Joined(@, l)]
ConcatF(fs, i, l) == [Concat(fs, fs.ex[i].f, l) EXCEPT !.ex[i].f = Joined(@, l)]

\* The instruction before a jump that decides whether it is taken, if there is one.
TestMode == {"EQ", "LT", "LE", "TEST", "TESTSET", "TFORLOOP"}
Control(fs, pc) == IF pc >= 1 /\ Instr(fs, pc - 1).op \in TestMode THEN pc - 1 ELSE pc
IsTestSet(fs, pc) == Instr(fs, Control(fs, pc)).op = "TESTSET"
NeedValue(fs, list) == \E j \in Range(Jumps(fs, list)) : ~IsTestSet(fs, j)

PatchTestReg(fs, node, reg) ==
  LET i == Instr(fs, Control(fs, node))
  IN IF i.op # "TESTSET" THEN fs
     ELSE [fs EXCEPT !.code[Control(fs, node) + 1] = IF reg # NO_REG /\ reg # i.b THEN [i EXCEPT !.a = reg]
                                                     ELSE I("TEST", i.b, 0, i.c)]
RemoveValues(fs, list) == Each(fs, Jumps(fs, list), LAMBDA x, j : PatchTestReg(x, j, NO_REG))
\* A mutant: a jump that produces its value goes where the others go.
Mut_PatchListAux(fs, list, vtarget, reg, dtarget) ==
  Each(fs, Jumps(fs, list), LAMBDA x, j : FixJump(PatchTestReg(x, j, reg), j, dtarget))
PatchListAux(fs, list, vtarget, reg, dtarget) ==
  Each(fs, Jumps(fs, list),
       LAMBDA x, j : FixJump(PatchTestReg(x, j, reg), j, IF IsTestSet(x, j) THEN vtarget ELSE dtarget))

(* ---- instructions ----------------------------------------------------------- *)
DischargeJpc(fs) == [Call(fs, <<"patchlistaux", fs.jpc, Pc(fs), NO_REG, Pc(fs)>>) EXCEPT !.jpc = NO_JUMP]
Code(fs, i) == Then(DischargeJpc(fs), LAMBDA x : [x EXCEPT !.code = Append(@, i)])
\* An instruction whose register is chosen later.
CodeReloc(fs, i, instr) == Then(Call(fs, <<"code", instr>>), LAMBDA x : SetExp(x, i, "VRELOCABLE", Pc(x) - 1))

GetLabel(fs) == [fs EXCEPT !.lasttarget = Pc(fs)]
PatchToHere(fs, list) == Then(GetLabel(fs), LAMBDA x : [Concat(x, x.jpc, list) EXCEPT !.jpc = Joined(@, list)])
PatchList(fs, list, target) ==
  IF target = Pc(fs) THEN Call(fs, <<"patchtohere", list>>) ELSE Call(fs, <<"patchlistaux", list, target, NO_REG, target>>)
\* luaK_jump and condjump: the new jump is the last instruction.
Jump(fs) ==
  Then(Call([fs EXCEPT !.jpc = NO_JUMP], <<"code", I("JMP", 0, NO_JUMP, 0)>>), LAMBDA x : Concat(x, Pc(x) - 1, fs.jpc))
CondJump(fs, op, a, b, c) == Then(Call(fs, <<"code", I(op, a, b, c)>>), LAMBDA x : Call(x, <<"jump">>))
Ret(fs, first, nret) == Call(fs, <<"code", I("RETURN", first, nret + 1, 0)>>)

\* luaK_nil: at the start of a function, and after a LOADNIL no jump leads behind, it may
\* need no instruction of its own.
LoadNil(fs, from, n) ==
  LET previous == Instr(fs, Pc(fs) - 1)
      atStart == Pc(fs) = 0 /\ from >= fs.nactvar
      connects == Pc(fs) > 0 /\ previous.op = "LOADNIL" /\ previous.a <= from /\ from <= previous.b + 1
  IN CASE Pc(fs) > fs.lasttarget /\ atStart -> fs
       [] Pc(fs) > fs.lasttarget /\ connects -> [fs EXCEPT !.code[Pc(fs)].b = Max({@, from + n - 1})]
       [] OTHER -> Call(fs, <<"code", I("LOADNIL", from, from + n - 1, 0)>>)

(* ---- registers and constants ------------------------------------------------ *)
CheckStack(fs, n) == [fs EXCEPT !.maxstacksize = Max({@, fs.freereg + n}), !.failed = @ \/ fs.freereg + n >= MAXSTACK]
ReserveRegs(fs, n) == [CheckStack(fs, n) EXCEPT !.freereg = @ + n]
FreeReg(fs, reg) ==
  IF reg >= BITRK \/ reg < fs.nactvar THEN fs ELSE [fs EXCEPT !.freereg = @ - 1, !.ok = @ /\ reg = fs.freereg - 1]
FreeExp(fs, i) == IF fs.ex[i].k = "VNONRELOC" THEN FreeReg(fs, fs.ex[i].info) ELSE fs

\* addk: a constant is kept once.
AddK(fs, v) == IF v \in Range(fs.k) THEN fs ELSE [fs EXCEPT !.k = Append(@, v)]
IndexK(fs, v) == CHOOSE j \in 0..(Len(fs.k) - 1) : fs.k[j + 1] = v
KNumber(n) == <<"number", n>>
KString(x) == <<"string", x>>
ConstantK(e) == CASE e.k = "VNIL" -> <<"nil">> [] e.k = "VKNUM" -> KNumber(e.nval) [] OTHER -> <<"boolean", e.k = "VTRUE">>
StringExp(fs, x) == Then(AddK(fs, KString(x)), LAMBDA y : PushExp(y, ExpDesc("VK", IndexK(y, KString(x)))))

(* ---- putting expressions into registers --------------------------------------- *)
SetReturns(fs, i, nresults) ==
  LET at == fs.ex[i].info + 1
  IN CASE fs.ex[i].k = "VCALL" -> [fs EXCEPT !.code[at].c = nresults + 1]
       [] fs.ex[i].k = "VVARARG" -> ReserveRegs([fs EXCEPT !.code[at].b = nresults + 1, !.code[at].a = fs.freereg], 1)
       [] OTHER -> fs
SetOneRet(fs, i) ==
  CASE fs.ex[i].k = "VCALL" -> SetExp(fs, i, "VNONRELOC", Instr(fs, fs.ex[i].info).a)
    [] fs.ex[i].k = "VVARARG" -> [fs EXCEPT !.code[fs.ex[i].info + 1].b = 2, !.ex[i].k = "VRELOCABLE"]
    [] OTHER -> fs

DischargeVars(fs, i) ==
  LET e == fs.ex[i]
  IN CASE e.k = "VLOCAL" -> [fs EXCEPT !.ex[i].k = "VNONRELOC"]
       [] e.k = "VUPVAL" -> CodeReloc(fs, i, I("GETUPVAL", 0, e.info, 0))
       [] e.k = "VGLOBAL" -> CodeReloc(fs, i, I("GETGLOBAL", 0, e.info, 0))
       [] e.k = "VINDEXED" -> CodeReloc(FreeReg(FreeReg(fs, e.aux), e.info), i, I("GETTABLE", 0, e.info, e.aux))
       [] OTHER -> Call(fs, <<"setoneret", i>>)

\* discharge2reg; only a comparison, still a jump, has no value of its own.
IntoReg(fs, i, reg) ==
  LET e == fs.ex[i]
  IN CASE e.k = "VNIL" -> Call(fs, <<"nil", reg, 1>>)
       [] e.k \in {"VFALSE", "VTRUE"} -> Call(fs, <<"code", I("LOADBOOL", reg, IF e.k = "VTRUE" THEN 1 ELSE 0, 0)>>)
       [] e.k = "VK" -> Call(fs, <<"code", I("LOADK", reg, e.info, 0)>>)
       [] e.k = "VKNUM" -> Then(AddK(fs, KNumber(e.nval)), LAMBDA x : Call(x, <<"code", I("LOADK", reg, IndexK(x, KNumber(e.nval)), 0)>>))
       [] e.k = "VRELOCABLE" -> [fs EXCEPT !.code[e.info + 1].a = reg]
       [] e.k = "VNONRELOC" -> IF reg = e.info THEN fs ELSE Call(fs, <<"code", I("MOVE", reg, e.info, 0)>>)
       [] OTHER -> fs
Discharge2Reg(fs, i, reg) ==
  Then2(fs, LAMBDA x : Call(x, <<"dischargevars", i>>),
        LAMBDA x : IF x.ex[i].k \in {"VVOID", "VJMP"} THEN x ELSE SetExp(IntoReg(x, i, reg), i, "VNONRELOC", reg))
Discharge2AnyReg(fs, i) ==
  IF fs.ex[i].k = "VNONRELOC" THEN fs
  ELSE Then(ReserveRegs(fs, 1), LAMBDA x : Discharge2Reg(x, i, x.freereg - 1))

\* exp2reg: jumps out of the expression lead behind it, those that made no value by way
\* of a LOADBOOL of false or of true.
Settle(fs, i, reg, pf, pt) ==
  Then3(fs, GetLabel, LAMBDA x : Call(x, <<"patchlistaux", x.ex[i].f, Pc(fs), reg, pf>>),
        LAMBDA x : Call(x, <<"patchlistaux", x.ex[i].t, Pc(fs), reg, pt>>))
Booleans(fs, i, reg) ==
  LET over(x) == IF x.ex[i].k = "VJMP" THEN x ELSE Call(x, <<"jump">>)
      fj(x) == IF x.ex[i].k = "VJMP" THEN NO_JUMP ELSE Pc(x) - 1
  IN Then(over(fs), LAMBDA y :
       Then3(y, LAMBDA x : Call(GetLabel(x), <<"code", I("LOADBOOL", reg, 0, 1)>>), LAMBDA x : Call(GetLabel(x), <<"code", I("LOADBOOL", reg, 1, 0)>>),
             LAMBDA x : Call(x, <<"patchtohere", fj(y)>>)))
Exp2Reg(fs, i, reg) ==
  LET listed(x) == IF x.ex[i].k = "VJMP" THEN ConcatT(x, i, x.ex[i].info) ELSE x
      valued(x) == IF NeedValue(x, x.ex[i].t) \/ NeedValue(x, x.ex[i].f)
                   THEN Then(Booleans(x, i, reg), LAMBDA y : Settle(y, i, reg, Pc(y) - 2, Pc(y) - 1))
                   ELSE Settle(x, i, reg, NO_JUMP, NO_JUMP)
      settled(x) == IF HasJumps(x.ex[i]) THEN valued(x) ELSE x
  IN [Then3(fs, LAMBDA x : Discharge2Reg(x, i, reg), listed, settled) EXCEPT !.ex[i] = ExpDesc("VNONRELOC", reg)]

Exp2NextReg(fs, i) ==
  Then3(fs, LAMBDA x : Call(x, <<"dischargevars", i>>), LAMBDA x : ReserveRegs(FreeExp(x, i), 1),
        LAMBDA x : Call(x, <<"exp2reg", i, x.freereg - 1>>))
Exp2AnyReg(fs, i) ==
  Then(Call(fs, <<"dischargevars", i>>),
       LAMBDA x : CASE x.ex[i].k = "VNONRELOC" /\ ~HasJumps(x.ex[i]) -> x
                    [] x.ex[i].k = "VNONRELOC" /\ HasJumps(x.ex[i]) /\ x.ex[i].info >= x.nactvar -> Call(x, <<"exp2reg", i, x.ex[i].info>>)
                    [] OTHER -> Call(x, <<"exp2nextreg", i>>))
Exp2Val(fs, i) == IF HasJumps(fs.ex[i]) THEN Call(fs, <<"exp2anyreg", i>>) ELSE Call(fs, <<"dischargevars", i>>)

\* luaK_exp2RK, and the operand it returns.
Exp2RK(fs, i) ==
  Then(Call(fs, <<"exp2val", i>>),
       LAMBDA x : CASE x.ex[i].k \in {"VKNUM", "VTRUE", "VFALSE", "VNIL"} /\ Len(x.k) <= MAXINDEXRK ->
                         Then(AddK(x, ConstantK(x.ex[i])), LAMBDA y : SetExp(y, i, "VK", IndexK(y, ConstantK(x.ex[i]))))
                    [] x.ex[i].k = "VK" /\ x.ex[i].info <= MAXINDEXRK -> x
                    [] OTHER -> Call(x, <<"exp2anyreg", i>>))
RK(fs, i) == IF fs.ex[i].k = "VK" THEN fs.ex[i].info + BITRK ELSE fs.ex[i].info

\* luaK_storevar, of expression i, which it takes from the stack.
StoreVar(fs, var, i) ==
  PopExp(CASE var.k = "VLOCAL" -> Call(FreeExp(fs, i), <<"exp2reg", i, var.info>>)
           [] var.k \in {"VUPVAL", "VGLOBAL"} ->
                Then2(fs, LAMBDA x : Call(x, <<"exp2anyreg", i>>),
                      LAMBDA x : FreeExp(Call(x, <<"code", I(IF var.k = "VUPVAL" THEN "SETUPVAL" ELSE "SETGLOBAL", x.ex[i].info, var.info, 0)>>), i))
           [] var.k = "VINDEXED" ->
                Then2(fs, LAMBDA x : Call(x, <<"exp2RK", i>>), LAMBDA x : FreeExp(Call(x, <<"code", I("SETTABLE", var.info, var.aux, RK(x, i))>>), i)))

\* luaK_self and luaK_indexed, of the last two expressions.
Self(fs) ==
  LET i == LastExp(fs) - 1
      object(x) == FreeExp(x, i)
      coded(x) == Then(Call(x, <<"exp2RK", i + 1>>), LAMBDA y : FreeExp(Call(y, <<"code", I("SELF", x.freereg - 2, y.ex[i].info, RK(y, i + 1))>>), i + 1))
  IN Then3(fs, LAMBDA x : ReserveRegs(object(Call(x, <<"exp2anyreg", i>>)), 2), LAMBDA x : <<x, coded(x)>>,
           LAMBDA p : PopExp(SetExp(p[2], i, "VNONRELOC", p[1].freereg - 2)))
Indexed(fs) ==
  LET i == LastExp(fs) - 1
  IN Then(Call(fs, <<"exp2RK", i + 1>>), LAMBDA x : PopExp([x EXCEPT !.ex[i].aux = RK(x, i + 1), !.ex[i].k = "VINDEXED"]))

(* ---- conditions --------------------------------------------------------------- *)
InvertJump(fs, i) == [fs EXCEPT !.code[Control(fs, fs.ex[i].info) + 1].a = 1 - @]
\* jumponcond: the new jump is the last instruction.
JumpOnCond(fs, i, cond) ==
  LET instr == Instr(fs, fs.ex[i].info)
  IN IF fs.ex[i].k = "VRELOCABLE" /\ instr.op = "NOT"
     THEN Call([fs EXCEPT !.code = Front(@)], <<"condjump", "TEST", instr.b, 0, 1 - cond>>)
     ELSE Then(Call(fs, <<"discharge2anyreg", i>>), LAMBDA x : Call(FreeExp(x, i), <<"condjump", "TESTSET", NO_REG, x.ex[i].info, cond>>))

\* luaK_goiftrue falls through when the expression is true, luaK_goiffalse when it is false.
JumpIfFalse(fs, i) ==
  Then2(fs, LAMBDA x : Call(x, <<"dischargevars", i>>),
        LAMBDA x : CASE x.ex[i].k \in {"VK", "VKNUM", "VTRUE"} -> x
                     [] x.ex[i].k = "VJMP" -> ConcatF(InvertJump(x, i), i, x.ex[i].info)
                     [] OTHER -> Then(JumpOnCond(x, i, 0), LAMBDA y : ConcatF(y, i, Pc(y) - 1)))
GoIfTrue(fs, i) == Then(JumpIfFalse(fs, i), LAMBDA x : [Call(x, <<"patchtohere", x.ex[i].t>>) EXCEPT !.ex[i].t = NO_JUMP])
JumpIfTrue(fs, i) ==
  Then2(fs, LAMBDA x : Call(x, <<"dischargevars", i>>),
        LAMBDA x : CASE x.ex[i].k \in {"VNIL", "VFALSE"} -> x
                     [] x.ex[i].k = "VJMP" -> ConcatT(x, i, x.ex[i].info)
                     [] OTHER -> Then(JumpOnCond(x, i, 1), LAMBDA y : ConcatT(y, i, Pc(y) - 1)))
GoIfFalse(fs, i) == Then(JumpIfTrue(fs, i), LAMBDA x : [Call(x, <<"patchtohere", x.ex[i].f>>) EXCEPT !.ex[i].f = NO_JUMP])

CodeNot(fs, i) ==
  LET negated(x) == CASE x.ex[i].k \in {"VNIL", "VFALSE"} -> [x EXCEPT !.ex[i].k = "VTRUE"]
                      [] x.ex[i].k \in {"VK", "VKNUM", "VTRUE"} -> [x EXCEPT !.ex[i].k = "VFALSE"]
                      [] x.ex[i].k = "VJMP" -> InvertJump(x, i)
                      [] OTHER -> Then(Call(x, <<"discharge2anyreg", i>>), LAMBDA y : CodeReloc(FreeExp(y, i), i, I("NOT", 0, y.ex[i].info, 0)))
      swapped(x) == [x EXCEPT !.ex[i].t = x.ex[i].f, !.ex[i].f = x.ex[i].t]
  IN Then(Then3(fs, LAMBDA x : Call(x, <<"dischargevars", i>>), negated, swapped),
          LAMBDA x : Then(RemoveValues(x, x.ex[i].f), LAMBDA y : RemoveValues(y, y.ex[i].t)))

(* ---- operators ------------------------------------------------------------------ *)
\* luai_nummod and the others, on the integers; a quotient is taken only where it is one.
Div(a, b) == IF b > 0 THEN a \div b ELSE (-a) \div (-b)
Arith(op, a, b) ==
  CASE op = "ADD" -> a + b [] op = "SUB" -> a - b [] op = "MUL" -> a * b [] op = "DIV" -> Div(a, b)
    [] op = "MOD" -> a - Div(a, b) * b [] op = "POW" -> a ^ b [] op = "UNM" -> -a
Folds(op, e1, e2) == op # "LEN" /\ IsNumeral(e1) /\ IsNumeral(e2) /\ ~(op \in {"DIV", "MOD"} /\ e2.nval = 0)

\* codearith, of expressions i and i + 1; a unary operator has no second operand.
CodeArith(fs, op, i) ==
  LET unary == op \in {"UNM", "LEN"}
      second(x) == IF unary THEN x ELSE Call(x, <<"exp2RK", i + 1>>)
      o2(x) == IF unary THEN 0 ELSE RK(x, i + 1)
      freed(x, o) == IF RK(x, i) > o THEN FreeExp(FreeExp(x, i), i + 1) ELSE FreeExp(FreeExp(x, i + 1), i)
  IN IF Folds(op, fs.ex[i], fs.ex[i + 1]) THEN [fs EXCEPT !.ex[i].nval = Arith(op, @, fs.ex[i + 1].nval)]
     ELSE Then2(fs, second, LAMBDA x :
            Then(Call(x, <<"exp2RK", i>>), LAMBDA y : CodeReloc(freed(y, o2(x)), i, I(op, 0, RK(y, i), o2(x)))))
\* A mutant: > and >= keep their operands in order.
Mut_CodeComp(fs, op, cond, i) ==
  Then2(fs, LAMBDA x : Call(x, <<"exp2RK", i>>), LAMBDA x :
    Then2(Call(x, <<"exp2RK", i + 1>>), LAMBDA y : Call(FreeExp(FreeExp(y, i + 1), i), <<"condjump", op, 1, RK(x, i), RK(y, i + 1)>>),
          LAMBDA y : SetExp(y, i, "VJMP", Pc(y) - 1)))
CodeComp(fs, op, cond, i) ==
  LET jumped(x, o1, o2) == IF cond = 0 /\ op # "EQ" THEN Call(x, <<"condjump", op, 1, o2, o1>>) ELSE Call(x, <<"condjump", op, cond, o1, o2>>)
  IN Then2(fs, LAMBDA x : Call(x, <<"exp2RK", i>>), LAMBDA x :
       Then2(Call(x, <<"exp2RK", i + 1>>), LAMBDA y : jumped(FreeExp(FreeExp(y, i + 1), i), RK(x, i), RK(y, i + 1)),
             LAMBDA y : SetExp(y, i, "VJMP", Pc(y) - 1)))

Prefix(fs, op) ==
  LET i == LastExp(fs)
      ready == IF op = "LEN" \/ ~IsNumeral(fs.ex[i]) THEN Call(fs, <<"exp2anyreg", i>>) ELSE fs
  IN IF op = "NOT" THEN CodeNot(fs, i)
     ELSE Then2(ready, LAMBDA x : Call(PushExp(x, Number(0)), <<"codearith", op, i>>), PopExp)
Infix(fs, op) ==
  LET i == LastExp(fs)
  IN CASE op = "and" -> Call(fs, <<"goiftrue", i>>)
       [] op = "or" -> Call(fs, <<"goiffalse", i>>)
       [] op = ".." -> Call(fs, <<"exp2nextreg", i>>)
       [] op \in {"+", "-", "*", "/", "%", "^"} /\ IsNumeral(fs.ex[i]) -> fs
       [] OTHER -> Call(fs, <<"exp2RK", i>>)

Opcode == [x \in {"+", "-", "*", "/", "%", "^", "==", "~=", "<", ">=", "<=", ">"} |->
             CASE x = "+" -> "ADD" [] x = "-" -> "SUB" [] x = "*" -> "MUL" [] x = "/" -> "DIV" [] x = "%" -> "MOD"
               [] x = "^" -> "POW" [] x \in {"==", "~="} -> "EQ" [] x \in {"<", ">"} -> "LT" [] OTHER -> "LE"]
\* luaK_posfix, of the last two expressions.
Posfix(fs, op) ==
  LET i == LastExp(fs) - 1
      replaced(x) == [x EXCEPT !.ex[i] = x.ex[i + 1]]
      extends(x) == x.ex[i + 1].k = "VRELOCABLE" /\ Instr(x, x.ex[i + 1].info).op = "CONCAT"
      extended(x) == [SetExp(FreeExp(x, i), i, "VRELOCABLE", x.ex[i + 1].info)
                        EXCEPT !.code[x.ex[i + 1].info + 1].b = x.ex[i].info, !.ok = @ /\ x.ex[i].info = Instr(x, x.ex[i + 1].info).b - 1]
  IN PopExp(CASE op = "and" -> Then3(fs, LAMBDA x : Call(x, <<"dischargevars", i + 1>>), LAMBDA x : ConcatF(x, i + 1, x.ex[i].f), replaced)
              [] op = "or" -> Then3(fs, LAMBDA x : Call(x, <<"dischargevars", i + 1>>), LAMBDA x : ConcatT(x, i + 1, x.ex[i].t), replaced)
              [] op = ".." -> Then(Call(fs, <<"exp2val", i + 1>>), LAMBDA x :
                                IF extends(x) THEN extended(x)
                                ELSE Then(Call(x, <<"exp2nextreg", i + 1>>), LAMBDA y : Call(y, <<"codearith", "CONCAT", i>>)))
              [] op \in {"==", "<", "<="} -> CodeComp(fs, Opcode[op], 1, i)
              [] op \in {"~=", ">", ">="} -> CodeComp(fs, Opcode[op], 0, i)
              [] OTHER -> Call(fs, <<"codearith", Opcode[op], i>>))

\* luaK_setlist; the count of a long constructor, which does not fit C, is left out.
SetList(fs, base, nelems, tostore) ==
  [Call(fs, <<"code", I("SETLIST", base, IF tostore = MULTRET THEN 0 ELSE tostore, ((nelems - 1) \div LFIELDS_PER_FLUSH) + 1)>>)
     EXCEPT !.freereg = base + 1]

(* ---- the parser ------------------------------------------------------------- *)
EOS == <<"<eof>">>
Token(s) == Head(s.toks)[1]
Sem(s) == Head(s.toks)[2]
Reject(s) == [s EXCEPT !.failed = TRUE, !.toks = <<EOS>>]
NextToken(s) == IF Len(s.toks) = 1 THEN s ELSE [s EXCEPT !.toks = Tail(@)]
Check(s, c) == IF Token(s) = c THEN s ELSE Reject(s)
CheckNext(s, c) == IF Token(s) = c THEN NextToken(s) ELSE Reject(s)
EnterLevel(s) == IF s.level < MAXLEVELS THEN [s EXCEPT !.level = @ + 1] ELSE Reject(s)
LeaveLevel(s) == [s EXCEPT !.level = @ - 1]

\* Code is generated for the current function.
Gen(s, Op(_)) == [s EXCEPT !.fs = Op(@)]
LimitTo(fs, n, limit) == [fs EXCEPT !.failed = @ \/ n > limit]
V(s) == Last(s.fs.ex)

(* ---- functions and variables -------------------------------------------------- *)
NewFuncState == [code |-> <<>>, k |-> <<>>, p |-> <<>>, lasttarget |-> -1, jpc |-> NO_JUMP, freereg |-> 0,
                 nactvar |-> 0, maxstacksize |-> 2, ex |-> <<>>, bl |-> <<>>, actvar |-> <<>>, upvalues |-> <<>>,
                 numparams |-> 0, is_vararg |-> {}, ok |-> TRUE, failed |-> FALSE]
OpenFunc(s) == [s EXCEPT !.prev = Append(@, s.fs), !.fs = NewFuncState]
Proto(fs) == [code |-> fs.code, k |-> fs.k, p |-> fs.p, numparams |-> fs.numparams, is_vararg |-> fs.is_vararg,
              maxstacksize |-> fs.maxstacksize, nups |-> Len(fs.upvalues)]

\* The n-th new variable after the active ones; adjustlocalvars makes it active.
NewLocalVar(fs, x, n) ==
  LimitTo([fs EXCEPT !.actvar = Append(SubSeq(@, 1, fs.nactvar + n), x)], fs.nactvar + n + 1, LUAI_MAXVARS)
NewLocalVars(fs, names) == Each(fs, [j \in DOMAIN names |-> j], LAMBDA x, j : NewLocalVar(x, names[j], j - 1))
AdjustLocalVars(fs, n) == [fs EXCEPT !.nactvar = @ + n]
SearchVar(fs, x) == Max({j - 1 : j \in {j \in 1..fs.nactvar : fs.actvar[j] = x}} \cup {-1})

\* A mutant: the block is not told.
Mut_MarkUpval(fs, level) == fs
MarkUpval(fs, level) ==
  LET around == {j \in DOMAIN fs.bl : fs.bl[j].nactvar <= level}
  IN IF around = {} THEN fs ELSE [fs EXCEPT !.bl[Max(around)].upval = TRUE]
IndexUpvalue(fs, u) ==
  IF u \in Range(fs.upvalues) THEN fs
  ELSE LimitTo([fs EXCEPT !.upvalues = Append(@, u)], Len(fs.upvalues) + 1, LUAI_MAXUPVALUES)
UpvalueOf(fs, u) == (CHOOSE j \in DOMAIN fs.upvalues : fs.upvalues[j] = u) - 1

\* singlevaraux: a variable of a function around this one becomes an upvalue of every
\* function on the way, and the block it belongs to has to close it.
RECURSIVE SingleVarAux(_, _, _, _)
SingleVarAux(fss, n, x, base) ==
  IF n = 0 THEN [fss |-> fss, k |-> "VGLOBAL", info |-> NO_REG]
  ELSE LET v == SearchVar(fss[n], x)
           passed(r) == LET u == [k |-> r.k, info |-> r.info]
                        IN Then([r.fss EXCEPT ![n] = IndexUpvalue(@, u)],
                                LAMBDA y : [fss |-> y, k |-> "VUPVAL", info |-> UpvalueOf(y[n], u)])
       IN CASE v >= 0 -> [fss |-> IF base THEN fss ELSE [fss EXCEPT ![n] = MarkUpval(@, v)], k |-> "VLOCAL", info |-> v]
            [] v < 0 -> Then(SingleVarAux(fss, n - 1, x, FALSE), LAMBDA r : IF r.k = "VGLOBAL" THEN r ELSE passed(r))
SingleVar(s) ==
  LET x == Sem(s)
      resolved(y) == Then(SingleVarAux(Append(y.prev, y.fs), Len(y.prev) + 1, x, TRUE),
                          LAMBDA r : [y EXCEPT !.prev = Front(r.fss), !.fs = PushExp(Last(r.fss), ExpDesc(r.k, r.info))])
      named(f) == IF Last(f.ex).k # "VGLOBAL" THEN f
                  ELSE Then(AddK(f, KString(x)), LAMBDA g : [g EXCEPT !.ex[LastExp(g)].info = IndexK(g, KString(x))])
  IN IF Token(s) # "name" THEN Reject(s) ELSE Then2(NextToken(s), resolved, LAMBDA y : Gen(y, named))
CheckName(s) == IF Token(s) # "name" THEN Reject(s) ELSE NextToken(Gen(s, LAMBDA f : Call(f, <<"stringK", Sem(s)>>)))

EnterBlock(fs, isbreakable) ==
  [fs EXCEPT !.bl = Append(@, [breaklist |-> NO_JUMP, nactvar |-> fs.nactvar, upval |-> FALSE, isbreakable |-> isbreakable]),
             !.ok = @ /\ fs.freereg = fs.nactvar]
LeaveBlock(fs) ==
  LET bl == Last(fs.bl)
      left == [fs EXCEPT !.bl = Front(@), !.nactvar = bl.nactvar, !.ok = @ /\ ~(bl.isbreakable /\ bl.upval)]
  IN Then3(left, LAMBDA x : IF bl.upval THEN Call(x, <<"code", I("CLOSE", bl.nactvar, 0, 0)>>) ELSE x,
           LAMBDA x : [x EXCEPT !.freereg = x.nactvar], LAMBDA x : Call(x, <<"patchtohere", bl.breaklist>>))

\* close_func, and pushclosure in the function around it.
CloseFunc(fs) == Call([fs EXCEPT !.nactvar = 0], <<"ret", 0, 0>>)
PushClosure(s) ==
  Then(CloseFunc(s.fs), LAMBDA func :
    LET outer == Last(s.prev)
        closure == [outer EXCEPT !.p = Append(@, Proto(func)), !.ok = @ /\ func.ok, !.failed = @ \/ func.failed]
        coded == Call(closure, <<"code", I("CLOSURE", 0, Len(outer.p), 0)>>)
        described(x) == PushExp(x, ExpDesc("VRELOCABLE", Pc(x) - 1))
        capture(x, u) == Call(x, <<"code", I(IF u.k = "VLOCAL" THEN "MOVE" ELSE "GETUPVAL", 0, u.info, 0)>>)
    IN [s EXCEPT !.prev = Front(@), !.fs = Then2(coded, described, LAMBDA x : Each(x, func.upvalues, capture))])

\* adjust_assign, of the last of nexps expressions, which it takes from the stack.
AdjustAssign(fs, nvars, nexps) ==
  LET i == LastExp(fs)
      extra == nvars - nexps
      open == Max({extra + 1, 0})
      closed == IF fs.ex[i].k = "VVOID" THEN fs ELSE Call(fs, <<"exp2nextreg", i>>)
  IN PopExp(IF HasMultRet(fs.ex[i])
            THEN Then(Call(fs, <<"setreturns", i, open>>), LAMBDA x : IF open > 1 THEN ReserveRegs(x, open - 1) ELSE x)
            ELSE Then(closed, LAMBDA x : IF extra > 0 THEN Call(ReserveRegs(x, extra), <<"nil", x.freereg, extra>>) ELSE x))

(* ---- expressions --------------------------------------------------------------- *)
Void(s) == Gen(s, LAMBDA f : PushExp(f, ExpDesc("VVOID", 0)))
ToReg(s) == Gen(s, LAMBDA f : Call(f, <<"exp2anyreg", LastExp(f)>>))
CloseLast(s) == Gen(s, LAMBDA f : PopExp(Call(f, <<"exp2nextreg", LastExp(f)>>)))

Field(s) == Then3(ToReg(s), NextToken, CheckName, LAMBDA x : Gen(x, LAMBDA f : Call(f, <<"indexed">>)))
YIndex(s) == Then3(NextToken(s), LAMBDA x : Call(x, <<"expr">>), LAMBDA x : Gen(x, LAMBDA f : Call(f, <<"exp2val", LastExp(f)>>)), LAMBDA x : CheckNext(x, "]"))

\* explist1 closes every expression but the last: [s, n] has how many there are.
ExpList1(s, n) == Then(Call(s, <<"expr">>), LAMBDA x : IF Token(x) = "," THEN Call(NextToken(CloseLast(x)), <<"explist1", n + 1>>) ELSE [s |-> x, n |-> n])

\* The items of a constructor: [s, na, nh, tostore, pending], whose table is in register t;
\* pending when the last list item is still an expression.
CloseListField(cc, t) ==
  LET closed == [cc EXCEPT !.s = CloseLast(@), !.pending = FALSE]
  IN CASE ~cc.pending -> cc
       [] cc.pending /\ cc.tostore # LFIELDS_PER_FLUSH -> closed
       [] OTHER -> [closed EXCEPT !.s = Gen(@, LAMBDA f : Call(f, <<"setlist", t, cc.na, cc.tostore>>)), !.tostore = 0]
LastListField(cc, t) ==
  LET i == LastExp(cc.s.fs)
  IN CASE cc.tostore = 0 -> cc
       [] cc.tostore # 0 /\ cc.pending /\ HasMultRet(V(cc.s)) ->
            [cc EXCEPT !.s = Gen(@, LAMBDA f : PopExp(Call(SetReturns(f, i, MULTRET), <<"setlist", t, cc.na, MULTRET>>))), !.na = @ - 1]
       [] OTHER -> [cc EXCEPT !.s = Then(IF cc.pending THEN CloseLast(@) ELSE @,
                                         LAMBDA x : Gen(x, LAMBDA f : Call(f, <<"setlist", t, cc.na, cc.tostore>>)))]
ListField(cc) == [cc EXCEPT !.s = Call(@, <<"expr">>), !.na = @ + 1, !.tostore = @ + 1, !.pending = TRUE]
RecField(cc, t) ==
  LET keyed(x) == IF Token(x) = "name" THEN CheckName(x) ELSE YIndex(x)
      key(x) == LastExp(x.fs)
      set(f, i) == Then(Call(f, <<"exp2RK", i + 1>>), LAMBDA g : Call(g, <<"code", I("SETTABLE", t, RK(f, i), RK(g, i + 1))>>))
  IN [cc EXCEPT !.nh = @ + 1,
                !.s = Then3(@, keyed, LAMBDA x : CheckNext(Gen(x, LAMBDA f : Call(f, <<"exp2RK", LastExp(f)>>)), "="),
                            LAMBDA x : Gen(Call(x, <<"expr">>), LAMBDA f : [PopExp(PopExp(set(f, LastExp(f) - 1))) EXCEPT !.freereg = cc.s.fs.freereg]))]
RECURSIVE ConsItems(_, _)
ConsItems(cc, t) ==
  LET item(c) == IF Token(c.s) = "[" \/ (Token(c.s) = "name" /\ c.s.toks[2][1] = "=") THEN RecField(c, t) ELSE ListField(c)
      more(c) == IF Token(c.s) \in {",", ";"} THEN ConsItems([c EXCEPT !.s = NextToken(@)], t) ELSE c
  IN IF Token(cc.s) = "}" THEN cc ELSE Then2(CloseListField(cc, t), item, more)
\* The sizes in NEWTABLE are below 8, where luaO_int2fb changes nothing.
Constructor(s) ==
  LET pc == Pc(s.fs)
      table(f) == Then(CodeReloc(PushExp(f, ExpDesc("VVOID", 0)), LastExp(f) + 1, I("NEWTABLE", 0, 0, 0)),
                       LAMBDA x : Call(x, <<"exp2nextreg", LastExp(x)>>))
      start(x) == [s |-> CheckNext(x, "{"), na |-> 0, nh |-> 0, tostore |-> 0, pending |-> FALSE]
      sized(c) == Gen(c.s, LAMBDA f : [f EXCEPT !.code[pc + 1].b = c.na, !.code[pc + 1].c = c.nh])
  IN Then(Gen(s, table), LAMBDA x :
       Then3(ConsItems(start(x), V(x).info), LAMBDA c : [c EXCEPT !.s = CheckNext(@, "}")],
             LAMBDA c : LastListField(c, V(x).info), sized))

\* parlist, whose last parameter "..." has a variable "arg" for the old style; body.
RECURSIVE ParList(_, _)
ParList(s, n) ==
  CASE Token(s) = "name" ->
         Then(NextToken(Gen(s, LAMBDA f : NewLocalVar(f, Sem(s), n))),
              LAMBDA x : IF Token(x) = "," THEN ParList(NextToken(x), n + 1) ELSE [s |-> x, n |-> n + 1])
    [] Token(s) = "..." ->
         [s |-> NextToken(Gen(s, LAMBDA f : [NewLocalVar(f, "arg", n) EXCEPT !.is_vararg = {"HASARG", "NEEDSARG", "ISVARARG"}])), n |-> n + 1]
    [] OTHER -> [s |-> Reject(s), n |-> n]
Parameters(f, n) ==
  Then(AdjustLocalVars(f, n), LAMBDA x :
    ReserveRegs([x EXCEPT !.numparams = x.nactvar - (IF "HASARG" \in x.is_vararg THEN 1 ELSE 0)], x.nactvar))
Body(s, needself) ==
  LET selfed(f) == IF needself THEN AdjustLocalVars(NewLocalVar(f, "self", 0), 1) ELSE f
      params(x) == Then(IF Token(x) = ")" THEN [s |-> x, n |-> 0] ELSE ParList(x, 0),
                        LAMBDA r : CheckNext(Gen(r.s, LAMBDA f : Parameters(f, r.n)), ")"))
  IN Then3(Gen(CheckNext(OpenFunc(s), "("), selfed), params, LAMBDA x : Call(x, <<"chunk">>), LAMBDA x : PushClosure(CheckNext(x, "end")))

\* funcargs: the function is the last expression, in the register the call begins at.
FuncArgs(s) ==
  LET i == LastExp(s.fs)
      base == V(s).info
      open(x) == Gen(x, LAMBDA f : Call(f, <<"setreturns", i + 1, MULTRET>>))
      args == CASE Token(s) = "(" /\ s.toks[2][1] = ")" -> CheckNext(NextToken(Void(s)), ")")
                [] Token(s) = "(" /\ s.toks[2][1] # ")" -> Then(Call(NextToken(s), <<"explist1", 1>>), LAMBDA r : CheckNext(open(r.s), ")"))
                [] Token(s) = "{" -> Call(s, <<"constructor">>)
                [] Token(s) = "string" -> NextToken(Gen(s, LAMBDA f : Call(f, <<"stringK", Sem(s)>>)))
                [] OTHER -> Reject(Void(s))
      closed(f) == IF Last(f.ex).k = "VVOID" \/ HasMultRet(Last(f.ex)) THEN f ELSE Call(f, <<"exp2nextreg", LastExp(f)>>)
      nparams(f) == IF HasMultRet(Last(f.ex)) THEN MULTRET ELSE f.freereg - (base + 1)
      called(f) == Then(Call(f, <<"code", I("CALL", base, nparams(f) + 1, 2)>>),
                        LAMBDA x : [PopExp(x) EXCEPT !.ex[i] = ExpDesc("VCALL", Pc(x) - 1), !.freereg = base + 1, !.ok = @ /\ V(s).k = "VNONRELOC"])
  IN Then(args, LAMBDA x : Gen(x, LAMBDA f : Then2(f, closed, called)))

PrefixExp(s) ==
  CASE Token(s) = "(" -> Then3(NextToken(s), LAMBDA x : Call(x, <<"expr">>), LAMBDA x : CheckNext(x, ")"), LAMBDA x : Gen(x, LAMBDA f : Call(f, <<"dischargevars", LastExp(f)>>)))
    [] Token(s) = "name" -> SingleVar(s)
    [] OTHER -> Reject(Void(s))
RECURSIVE Selectors(_)
Selectors(s) ==
  CASE Token(s) = "." -> Then(Field(s), Selectors)
    [] Token(s) = "[" -> Then3(ToReg(s), YIndex, LAMBDA x : Gen(x, LAMBDA f : Call(f, <<"indexed">>)), Selectors)
    [] Token(s) = ":" -> Then3(CheckName(NextToken(s)), LAMBDA x : Gen(x, LAMBDA f : Call(f, <<"self">>)), FuncArgs, Selectors)
    [] Token(s) \in {"(", "string", "{"} -> Then2(Gen(s, LAMBDA f : Call(f, <<"exp2nextreg", LastExp(f)>>)), FuncArgs, Selectors)
    [] OTHER -> s
PrimaryExp(s) == Then(PrefixExp(s), Selectors)

Vararg(f) == Then(Call(f, <<"code", I("VARARG", 0, 1, 0)>>), LAMBDA x : PushExp([x EXCEPT !.is_vararg = @ \ {"NEEDSARG"}], ExpDesc("VVARARG", Pc(x) - 1)))
SimpleExp(s) ==
  LET literal(e) == NextToken(Gen(s, LAMBDA f : PushExp(f, e)))
  IN CASE Token(s) = "number" -> literal(Number(Sem(s)))
       [] Token(s) = "string" -> NextToken(Gen(s, LAMBDA f : Call(f, <<"stringK", Sem(s)>>)))
       [] Token(s) = "nil" -> literal(ExpDesc("VNIL", 0))
       [] Token(s) = "true" -> literal(ExpDesc("VTRUE", 0))
       [] Token(s) = "false" -> literal(ExpDesc("VFALSE", 0))
       [] Token(s) = "..." -> IF s.fs.is_vararg = {} THEN Reject(Void(s)) ELSE NextToken(Gen(s, Vararg))
       [] Token(s) = "{" -> Call(s, <<"constructor">>)
       [] Token(s) = "function" -> Call(NextToken(s), <<"body", FALSE>>)
       [] OTHER -> Call(s, <<"primaryexp">>)

UnOpr == [x \in {"not", "-", "#"} |-> CASE x = "not" -> "NOT" [] x = "-" -> "UNM" [] x = "#" -> "LEN"]
BinOpr == {"+", "-", "*", "/", "%", "^", "..", "~=", "==", "<", "<=", ">", ">=", "and", "or"}
Priority(op) == CASE op \in {"+", "-"} -> [left |-> 6, right |-> 6] [] op \in {"*", "/", "%"} -> [left |-> 7, right |-> 7]
                  [] op = "^" -> [left |-> 10, right |-> 9] [] op = ".." -> [left |-> 5, right |-> 4]
                  [] op = "and" -> [left |-> 2, right |-> 2] [] op = "or" -> [left |-> 1, right |-> 1]
                  [] OTHER -> [left |-> 3, right |-> 3]
UNARY_PRIORITY == 8
RECURSIVE Operations(_, _)
Operations(s, limit) ==
  LET op == Token(s)
  IN IF op \notin BinOpr \/ (op \in BinOpr /\ Priority(op).left <= limit) THEN s
     ELSE Then3(Gen(NextToken(s), LAMBDA f : Call(f, <<"infix", op>>)), LAMBDA x : Call(x, <<"subexpr", Priority(op).right>>),
                LAMBDA x : Gen(x, LAMBDA f : Call(f, <<"posfix", op>>)), LAMBDA x : Operations(x, limit))
SubExpr(s, limit) ==
  LET unary(x) == Then(Call(NextToken(x), <<"subexpr", UNARY_PRIORITY>>), LAMBDA y : Gen(y, LAMBDA f : Call(f, <<"prefix", UnOpr[Token(s)]>>)))
  IN Then3(EnterLevel(s), LAMBDA x : IF Token(x) \in DOMAIN UnOpr THEN unary(x) ELSE SimpleExp(x),
           LAMBDA x : Operations(x, limit), LeaveLevel)
Expr(s) == Call(s, <<"subexpr", 0>>)

(* ---- statements ------------------------------------------------------------------ *)
Block(s) == Then2(Gen(s, LAMBDA f : EnterBlock(f, FALSE)), LAMBDA x : Call(x, <<"chunk">>), LAMBDA x : Gen(x, LeaveBlock))

\* check_conflict: a table or key an earlier target uses is the local variable v.
Conflicts(lhs, v) == \E j \in DOMAIN lhs : lhs[j].k = "VINDEXED" /\ v.info \in {lhs[j].info, lhs[j].aux}
Resolved(lhs, v, extra) ==
  [j \in DOMAIN lhs |-> IF lhs[j].k # "VINDEXED" THEN lhs[j]
                        ELSE [lhs[j] EXCEPT !.info = IF @ = v.info THEN extra ELSE @, !.aux = IF @ = v.info THEN extra ELSE @]]
\* A mutant: targets before are not looked at.
Mut_CheckConflict(s, lhs) == [s |-> Gen(s, PopExp), lhs |-> Append(lhs, V(s))]
CheckConflict(s, lhs) ==
  LET v == V(s)
      copied(f) == ReserveRegs(Call(f, <<"code", I("MOVE", f.freereg, v.info, 0)>>), 1)
  IN IF v.k = "VLOCAL" /\ Conflicts(lhs, v)
     THEN [s |-> Gen(s, LAMBDA f : copied(PopExp(f))), lhs |-> Append(Resolved(lhs, v, s.fs.freereg), v)]
     ELSE [s |-> Gen(s, PopExp), lhs |-> Append(lhs, v)]
\* assignment: the last target takes the last value, and each before it the one below.
StoreLast(f, lhs, nexps) ==
  LET n == Len(lhs)
      adjusted(x) == [AdjustAssign(x, n, nexps) EXCEPT !.freereg = @ - (IF nexps > n THEN nexps - n ELSE 0)]
  IN IF nexps = n THEN Call(SetOneRet(f, LastExp(f)), <<"storevar", Last(lhs), LastExp(f)>>)
     ELSE Then(adjusted(f), LAMBDA x : Call(PushExp(x, ExpDesc("VNONRELOC", x.freereg - 1)), <<"storevar", Last(lhs), LastExp(x) + 1>>))
StoreRest(f, lhs) ==
  Each(f, Reverse(Front(lhs)), LAMBDA x, var : Call(PushExp(x, ExpDesc("VNONRELOC", x.freereg - 1)), <<"storevar", var, LastExp(x) + 1>>))
RECURSIVE Assignment(_, _)
Assignment(s, lhs) ==
  IF Last(lhs).k \notin {"VLOCAL", "VUPVAL", "VGLOBAL", "VINDEXED"} THEN Reject(s)
  ELSE IF Token(s) = ","
  THEN Then2(Call(NextToken(s), <<"primaryexp">>), LAMBDA x : CheckConflict(x, lhs),
             LAMBDA r : IF Len(lhs) > MAXLEVELS - s.level THEN Reject(r.s) ELSE Assignment(r.s, r.lhs))
  ELSE Then(Call(CheckNext(s, "="), <<"explist1", 1>>), LAMBDA r :
         Gen(r.s, LAMBDA f : Then(StoreLast(f, lhs, r.n), LAMBDA x : StoreRest(x, lhs))))
ExprStat(s) ==
  Then(Call(s, <<"primaryexp">>), LAMBDA x : IF V(x).k = "VCALL" THEN Gen(x, LAMBDA f : PopExp([f EXCEPT !.code[V(x).info + 1].c = 1]))
                                 ELSE Assignment(Gen(x, PopExp), <<V(x)>>))

\* cond: [s, exit] with the jumps taken when the condition is false.
Cond(s) ==
  LET falsed(f) == [f EXCEPT !.ex[LastExp(f)].k = IF @ = "VNIL" THEN "VFALSE" ELSE @]
  IN Then2(Call(s, <<"expr">>), LAMBDA x : Gen(x, LAMBDA f : Call(falsed(f), <<"goiftrue", LastExp(f)>>)),
           LAMBDA x : [s |-> Gen(x, PopExp), exit |-> V(x).f])

BreakStat(s) ==
  LET loops == {j \in DOMAIN s.fs.bl : s.fs.bl[j].isbreakable}
      loop == Max(loops)
      upval == \E j \in DOMAIN s.fs.bl : j > loop /\ s.fs.bl[j].upval
      closed(f) == IF upval THEN Call(f, <<"code", I("CLOSE", f.bl[loop].nactvar, 0, 0)>>) ELSE f
      listed(f) == [Concat(f, f.bl[loop].breaklist, Pc(f) - 1) EXCEPT !.bl[loop].breaklist = Joined(@, Pc(f) - 1)]
  IN IF loops = {} THEN Reject(s) ELSE Gen(s, LAMBDA f : Then3(f, closed, LAMBDA x : Call(x, <<"jump">>), listed))

\* A jump back to the position pc.
JumpBack(f, pc) == Then(Call(f, <<"jump">>), LAMBDA x : Call(x, <<"patchlist", Pc(x) - 1, pc>>))
WhileStat(s) ==
  LET init == Pc(s.fs)
      loop(r) == Then3(CheckNext(Gen(r.s, LAMBDA f : EnterBlock(f, TRUE)), "do"), LAMBDA x : Call(x, <<"block">>),
                       LAMBDA x : CheckNext(Gen(x, LAMBDA f : JumpBack(f, init)), "end"),
                       LAMBDA x : Gen(x, LAMBDA f : Then(LeaveBlock(f), LAMBDA y : Call(y, <<"patchtohere", r.exit>>))))
  IN Then2(Gen(NextToken(s), GetLabel), Cond, loop)

RepeatStat(s) ==
  LET init == Pc(s.fs)
      entered(f) == EnterBlock(EnterBlock(GetLabel(f), TRUE), FALSE)
      again(f, exit) == Then(LeaveBlock(f), LAMBDA x : Call(x, <<"patchlist", exit, init>>))
      closing(f, exit) == Then2(Call(f, <<"patchtohere", exit>>), LeaveBlock, LAMBDA x : JumpBack(x, init))
      ended(r) == IF Last(r.s.fs.bl).upval THEN Then(BreakStat(r.s), LAMBDA x : Gen(x, LAMBDA f : closing(f, r.exit)))
                  ELSE Gen(r.s, LAMBDA f : again(f, r.exit))
  IN Then3(Call(NextToken(Gen(s, entered)), <<"chunk">>), LAMBDA x : Cond(CheckNext(x, "until")), ended, LAMBDA x : Gen(x, LeaveBlock))

\* The names of a list, from the first on.
RECURSIVE NameList(_, _)
NameList(s, names) ==
  LET all == Append(names, Sem(s))
      y == NextToken(s)
  IN IF Token(s) # "name" THEN [s |-> Reject(s), names |-> names]
     ELSE IF Token(y) = "," THEN NameList(NextToken(y), all) ELSE [s |-> y, names |-> all]

ForBody(s, base, nvars, isnum) ==
  LET prep(f) == Then(AdjustLocalVars(f, 3), LAMBDA x : IF isnum THEN Call(x, <<"code", I("FORPREP", base, NO_JUMP, 0)>>) ELSE Call(x, <<"jump">>))
      scope(f) == ReserveRegs(AdjustLocalVars(EnterBlock(f, FALSE), nvars), nvars)
      loop(f, pc) == Then2(Call(LeaveBlock(f), <<"patchtohere", pc>>),
                           LAMBDA x : IF isnum THEN Call(x, <<"code", I("FORLOOP", base, NO_JUMP, 0)>>) ELSE Call(x, <<"condjump", "TFORLOOP", base, 0, nvars>>),
                           LAMBDA x : Call(x, <<"patchlist", Pc(x) - 1, pc + 1>>))
  IN Then(Gen(CheckNext(s, "do"), prep), LAMBDA x :
       Then2(Gen(x, scope), LAMBDA y : Call(y, <<"block">>), LAMBDA y : Gen(y, LAMBDA f : loop(f, Pc(x.fs) - 1))))
Exp1(s) == Then(Call(s, <<"expr">>), CloseLast)
ForNum(s, x) ==
  LET one(f) == Then(AddK(f, KNumber(1)), LAMBDA y : ReserveRegs(Call(y, <<"code", I("LOADK", y.freereg, IndexK(y, KNumber(1)), 0)>>), 1))
      step(y) == IF Token(y) = "," THEN Exp1(NextToken(y)) ELSE Gen(y, one)
      variables == <<"(for index)", "(for limit)", "(for step)", x>>
  IN Then3(CheckNext(Gen(s, LAMBDA f : NewLocalVars(f, variables)), "="), Exp1, LAMBDA y : Exp1(CheckNext(y, ",")),
           LAMBDA y : ForBody(step(y), s.fs.freereg, 1, TRUE))
ForList(r, base) ==
  LET variables == <<"(for generator)", "(for state)", "(for control)">> \o r.names
      adjusted(f, n) == CheckStack(AdjustAssign(f, 3, n), 3)
  IN Then2(Call(CheckNext(Gen(r.s, LAMBDA f : NewLocalVars(f, variables)), "in"), <<"explist1", 1>>),
           LAMBDA e : Gen(e.s, LAMBDA f : adjusted(f, e.n)), LAMBDA x : ForBody(x, base, Len(r.names), FALSE))
ForStat(s) ==
  LET loop(r) == IF Len(r.names) = 1 /\ Token(r.s) = "=" THEN ForNum(r.s, r.names[1]) ELSE ForList(r, s.fs.freereg)
  IN Then3(Gen(NextToken(s), LAMBDA f : EnterBlock(f, TRUE)), LAMBDA x : NameList(x, <<>>), loop,
           LAMBDA x : Gen(CheckNext(x, "end"), LeaveBlock))

\* test_then_block, and what follows it: [s, escape] with the jumps to the end.
TestThenBlock(s) ==
  Then(Cond(NextToken(s)), LAMBDA r : [s |-> Call(CheckNext(r.s, "then"), <<"block">>), exit |-> r.exit])
RECURSIVE ElseParts(_, _)
ElseParts(r, escape) ==
  LET escaping(f) == Then(Call(f, <<"jump">>), LAMBDA x : Call(Concat(x, escape, Pc(x) - 1), <<"patchtohere", r.exit>>))
      jump == Pc(r.s.fs)
  IN CASE Token(r.s) = "elseif" -> Then2(Gen(r.s, escaping), TestThenBlock, LAMBDA q : ElseParts(q, Joined(escape, jump)))
       [] Token(r.s) = "else" -> Then(Call(NextToken(Gen(r.s, escaping)), <<"block">>), LAMBDA x : Gen(x, LAMBDA f : Call(f, <<"patchtohere", Joined(escape, jump)>>)))
       [] OTHER -> Gen(r.s, LAMBDA f : Then(Concat(f, escape, r.exit), LAMBDA x : Call(x, <<"patchtohere", Joined(escape, r.exit)>>)))
IfStat(s) == Then2(TestThenBlock(s), LAMBDA r : ElseParts(r, NO_JUMP), LAMBDA x : CheckNext(x, "end"))

LocalFunc(s) ==
  LET reg == s.fs.freereg
      declared(f) == AdjustLocalVars(ReserveRegs(NewLocalVar(f, Sem(s), 0), 1), 1)
  IN IF Token(s) # "name" THEN Reject(s)
     ELSE Then(Call(NextToken(Gen(s, declared)), <<"body", FALSE>>),
               LAMBDA x : Gen(x, LAMBDA f : Call(f, <<"storevar", ExpDesc("VLOCAL", reg), LastExp(f)>>)))
LocalStat(s) ==
  LET values(x) == IF Token(x) = "=" THEN Call(NextToken(x), <<"explist1", 1>>) ELSE [s |-> Void(x), n |-> 0]
      declared(f, n, nexps) == AdjustLocalVars(AdjustAssign(f, n, nexps), n)
  IN Then(NameList(s, <<>>), LAMBDA r :
       Then(values(Gen(r.s, LAMBDA f : NewLocalVars(f, r.names))),
            LAMBDA e : Gen(e.s, LAMBDA f : declared(f, Len(r.names), e.n))))

\* funcstat and funcname: a name, fields, and possibly a method.
RECURSIVE FuncName(_)
FuncName(s) == CASE Token(s) = "." -> Then(Field(s), FuncName)
                 [] Token(s) = ":" -> [s |-> Field(s), needself |-> TRUE]
                 [] OTHER -> [s |-> s, needself |-> FALSE]
FuncStat(s) ==
  Then2(SingleVar(NextToken(s)), FuncName, LAMBDA r :
    Then(Call(Gen(r.s, PopExp), <<"body", r.needself>>), LAMBDA x : Gen(x, LAMBDA f : Call(f, <<"storevar", V(r.s), LastExp(f)>>))))

BlockFollow == {"else", "elseif", "end", "until", "<eof>"}
RetStat(s) ==
  LET open(f, n) == LET tail == Last(f.ex).k = "VCALL" /\ n = 1
                        at == Last(f.ex).info + 1
                    IN Then(Call(f, <<"setreturns", LastExp(f), MULTRET>>), LAMBDA x :
                         Call([x EXCEPT !.code[at].op = IF tail THEN "TAILCALL" ELSE @, !.ok = @ /\ (tail => x.code[at].a = x.nactvar)], <<"ret", x.nactvar, MULTRET>>))
      one(f) == Then(Call(f, <<"exp2anyreg", LastExp(f)>>), LAMBDA x : Call(x, <<"ret", Last(x.ex).info, 1>>))
      many(f, n) == Then(Call(f, <<"exp2nextreg", LastExp(f)>>), LAMBDA x : Call([x EXCEPT !.ok = @ /\ n = x.freereg - x.nactvar], <<"ret", x.nactvar, n>>))
      values(f, n) == CASE HasMultRet(Last(f.ex)) -> open(f, n)
                        [] ~HasMultRet(Last(f.ex)) /\ n = 1 -> one(f)
                        [] OTHER -> many(f, n)
  IN Then(NextToken(s), LAMBDA x :
       IF Token(x) \in BlockFollow \cup {";"} THEN Gen(x, LAMBDA f : Call(f, <<"ret", 0, 0>>))
       ELSE Then(Call(x, <<"explist1", 1>>), LAMBDA r : Gen(r.s, LAMBDA f : PopExp(values(f, r.n)))))

Statement(s) ==
  CASE Token(s) = "if" -> IfStat(s)
    [] Token(s) = "while" -> WhileStat(s)
    [] Token(s) = "do" -> Then(Call(NextToken(s), <<"block">>), LAMBDA x : CheckNext(x, "end"))
    [] Token(s) = "for" -> ForStat(s)
    [] Token(s) = "repeat" -> RepeatStat(s)
    [] Token(s) = "function" -> FuncStat(s)
    [] Token(s) = "local" -> IF s.toks[2][1] = "function" THEN LocalFunc(NextToken(NextToken(s))) ELSE LocalStat(NextToken(s))
    [] Token(s) = "return" -> RetStat(s)
    [] Token(s) = "break" -> BreakStat(NextToken(s))
    [] OTHER -> ExprStat(s)
RECURSIVE Statements(_)
Statements(s) ==
  LET freed(f) == [f EXCEPT !.freereg = f.nactvar, !.ok = @ /\ f.maxstacksize >= f.freereg /\ f.freereg >= f.nactvar]
      ended(x) == Gen(IF Token(x) = ";" THEN NextToken(x) ELSE x, freed)
  IN IF Token(s) \in BlockFollow THEN s
     ELSE Then2(Statement(s), ended, LAMBDA x : IF Token(s) \in {"return", "break"} THEN x ELSE Statements(x))
Chunk(s) == Then2(EnterLevel(s), Statements, LeaveLevel)

Call(x, c) ==
  CASE c[1] = "code" -> Code(x, c[2]) [] c[1] = "jump" -> Jump(x)
    [] c[1] = "condjump" -> CondJump(x, c[2], c[3], c[4], c[5]) [] c[1] = "patchtohere" -> PatchToHere(x, c[2])
    [] c[1] = "patchlist" -> PatchList(x, c[2], c[3]) [] c[1] = "nil" -> LoadNil(x, c[2], c[3])
    [] c[1] = "stringK" -> StringExp(x, c[2]) [] c[1] = "setreturns" -> SetReturns(x, c[2], c[3])
    [] c[1] = "dischargevars" -> DischargeVars(x, c[2]) [] c[1] = "exp2reg" -> Exp2Reg(x, c[2], c[3])
    [] c[1] = "exp2nextreg" -> Exp2NextReg(x, c[2]) [] c[1] = "exp2anyreg" -> Exp2AnyReg(x, c[2])
    [] c[1] = "exp2val" -> Exp2Val(x, c[2]) [] c[1] = "exp2RK" -> Exp2RK(x, c[2])
    [] c[1] = "storevar" -> StoreVar(x, c[2], c[3]) [] c[1] = "self" -> Self(x)
    [] c[1] = "indexed" -> Indexed(x) [] c[1] = "goiftrue" -> GoIfTrue(x, c[2])
    [] c[1] = "goiffalse" -> GoIfFalse(x, c[2]) [] c[1] = "prefix" -> Prefix(x, c[2])
    [] c[1] = "infix" -> Infix(x, c[2]) [] c[1] = "posfix" -> Posfix(x, c[2])
    [] c[1] = "setlist" -> SetList(x, c[2], c[3], c[4]) [] c[1] = "discharge2anyreg" -> Discharge2AnyReg(x, c[2])
    [] c[1] = "codearith" -> CodeArith(x, c[2], c[3]) [] c[1] = "patchlistaux" -> PatchListAux(x, c[2], c[3], c[4], c[5])
    [] c[1] = "setoneret" -> SetOneRet(x, c[2]) [] c[1] = "ret" -> Ret(x, c[2], c[3])
    [] c[1] = "expr" -> Expr(x) [] c[1] = "subexpr" -> SubExpr(x, c[2]) [] c[1] = "explist1" -> ExpList1(x, c[2])
    [] c[1] = "primaryexp" -> PrimaryExp(x) [] c[1] = "constructor" -> Constructor(x) [] c[1] = "body" -> Body(x, c[2])
    [] c[1] = "block" -> Block(x) [] c[1] = "chunk" -> Chunk(x)

\* luaY_parser: a Proto, or that the program was rejected.
Parse(toks) ==
  LET start == [toks |-> Append(toks, EOS), prev |-> <<>>, level |-> 0, failed |-> FALSE,
                fs |-> [NewFuncState EXCEPT !.is_vararg = {"ISVARARG"}]]
      closed(s) == Then(CloseFunc(s.fs), LAMBDA f : [proto |-> Proto(f), ok |-> f.ok /\ s.prev = <<>> /\ f.ex = <<>>,
                                                     rejected |-> s.failed \/ f.failed])
  IN Then2(Call(start, <<"chunk">>), LAMBDA x : Check(x, "<eof>"), closed)
================================================================================
