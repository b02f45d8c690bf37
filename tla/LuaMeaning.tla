------------------------------- MODULE LuaMeaning -------------------------------
(***************************************************************************)
(* What a Lua program means, for the compiler to be compared with: the     *)
(* syntax trees of programs, the tokens they are written with, and an      *)
(* evaluator of the trees after the reference manual, which knows nothing  *)
(* of registers, jumps or stacks. A tree is a tuple with its kind first.   *)
(***************************************************************************)
EXTENDS Integers, Sequences, SequencesExt, FiniteSets, FiniteSetsExt, TLC, LuaCommon

(* ---- how trees are written ----------------------------------------------------- *)
Level(op) == CASE op = "or" -> 1 [] op = "and" -> 2 [] op \in {"<", ">", "<=", ">=", "~=", "=="} -> 3
               [] op = ".." -> 4 [] op \in {"+", "-"} -> 5 [] op \in {"*", "/", "%"} -> 6 [] op = "^" -> 8
RightAssociative(op) == op \in {"..", "^"}
Binds(e) == CASE e[1] = "bin" -> Level(e[2]) [] e[1] = "un" -> 7 [] OTHER -> 9

RECURSIVE ExpTokens(_), BlockTokens(_), StatTokens(_)
Word(x) == <<<<x>>>>
Name(x) == <<<<"name", x>>>>
Within(open, toks, close) == Word(open) \o toks \o Word(close)
RECURSIVE Separated(_)
Separated(parts) == IF Len(parts) <= 1 THEN FlattenSeq(parts) ELSE Head(parts) \o Word(",") \o Separated(Tail(parts))
Names(xs) == Separated([j \in DOMAIN xs |-> IF xs[j] = "..." THEN Word("...") ELSE Name(xs[j])])
Expressions(es) == Separated([j \in DOMAIN es |-> ExpTokens(es[j])])
Operand(e, min) == IF Binds(e) >= min THEN ExpTokens(e) ELSE Within("(", ExpTokens(e), ")")
Callee(e) == IF e[1] \in {"var", "index", "call", "method"} THEN ExpTokens(e) ELSE Within("(", ExpTokens(e), ")")
Arguments(es) == Within("(", Expressions(es), ")")
FuncTokens(params, block) == Within("(", Names(params), ")") \o BlockTokens(block) \o Word("end")
Item(f) == IF f[1] = "item" THEN ExpTokens(f[2]) ELSE Within("[", ExpTokens(f[2]), "]") \o Word("=") \o ExpTokens(f[3])
ExpTokens(e) ==
  CASE e[1] \in {"nil", "true", "false", "..."} -> Word(e[1])
    [] e[1] \in {"number", "string"} -> <<e>>
    [] e[1] = "var" -> Name(e[2])
    [] e[1] = "index" -> IF e[3][1] = "string" THEN Callee(e[2]) \o Word(".") \o Name(e[3][2])
                         ELSE Callee(e[2]) \o Within("[", ExpTokens(e[3]), "]")
    [] e[1] = "call" -> Callee(e[2]) \o Arguments(e[3])
    [] e[1] = "method" -> Callee(e[2]) \o Word(":") \o Name(e[3]) \o Arguments(e[4])
    [] e[1] = "function" -> Word("function") \o FuncTokens(e[2], e[3])
    [] e[1] = "un" -> Word(e[2]) \o Operand(e[3], 7)
    [] e[1] = "bin" -> LET l == Level(e[2])
                           up == IF RightAssociative(e[2]) THEN 1 ELSE 0
                       IN Operand(e[3], l + up) \o Word(e[2]) \o (IF e[4][1] = "un" THEN ExpTokens(e[4]) ELSE Operand(e[4], l + 1 - up))
    [] e[1] = "paren" -> Within("(", ExpTokens(e[2]), ")")
    [] e[1] = "table" -> Within("{", Separated([j \in DOMAIN e[2] |-> Item(e[2][j])]), "}")
Conditions(s) ==
  FlattenSeq([j \in DOMAIN s[2] |-> Word(IF j = 1 THEN "if" ELSE "elseif") \o ExpTokens(s[2][j][1]) \o Word("then") \o BlockTokens(s[2][j][2])])
StatTokens(s) ==
  CASE s[1] = "local" -> Word("local") \o Names(s[2]) \o (IF s[3] = <<>> THEN <<>> ELSE Word("=") \o Expressions(s[3]))
    [] s[1] = "assign" -> Expressions(s[2]) \o Word("=") \o Expressions(s[3])
    [] s[1] \in {"call", "method"} -> ExpTokens(s)
    [] s[1] = "do" -> Within("do", BlockTokens(s[2]), "end")
    [] s[1] = "while" -> Word("while") \o ExpTokens(s[2]) \o Within("do", BlockTokens(s[3]), "end")
    [] s[1] = "repeat" -> Within("repeat", BlockTokens(s[2]), "until") \o ExpTokens(s[3])
    [] s[1] = "if" -> Conditions(s) \o (IF s[3] = <<>> THEN <<>> ELSE Word("else") \o BlockTokens(s[3])) \o Word("end")
    [] s[1] = "for" -> Word("for") \o Name(s[2]) \o Word("=") \o Expressions(s[3]) \o Within("do", BlockTokens(s[4]), "end")
    [] s[1] = "forin" -> Word("for") \o Names(s[2]) \o Word("in") \o Expressions(s[3]) \o Within("do", BlockTokens(s[4]), "end")
    [] s[1] = "localfunction" -> Word("local") \o Word("function") \o Name(s[2]) \o FuncTokens(s[3], s[4])
    [] s[1] = "methodstat" -> Word("function") \o Name(s[2]) \o Word(":") \o Name(s[3]) \o FuncTokens(s[4], s[5])
    [] s[1] = "return" -> Word("return") \o Expressions(s[2])
    [] s[1] = "break" -> Word("break")
BlockTokens(b) == FlattenSeq([j \in DOMAIN b |-> StatTokens(b[j]) \o (IF j % 2 = 0 THEN Word(";") ELSE <<>>)])

(* ---- values ---------------------------------------------------------------------- *)
Nil == <<"nil">>
Bool(b) == <<"boolean", b>>
Truth(v) == v \notin {Nil, Bool(FALSE)}
IsNumber(v) == v[1] = "number"
IsText(v) == v[1] \in {"number", "string"}
Text(v) == IF IsNumber(v) THEN ToString(v[2]) ELSE v[2]
First1(vs) == IF vs = <<>> THEN Nil ELSE vs[1]
Nth(vs, j) == IF j \in DOMAIN vs THEN vs[j] ELSE Nil
Lookup(f, k) == IF k \in DOMAIN f THEN f[k] ELSE Nil
Updated(f, k, v) == IF v = Nil THEN [x \in DOMAIN f \ {k} |-> f[x]] ELSE (k :> v) @@ f
Length(f) == CHOOSE n \in 0..Cardinality(DOMAIN f) : (\A j \in 1..n : <<"number", j>> \in DOMAIN f) /\ <<"number", n + 1>> \notin DOMAIN f

\* The number, boolean or string an operator gives, or NoValue where it raises an error.
NoValue == <<"none">>
Floor(a, b) == IF b > 0 THEN a \div b ELSE (-a) \div (-b)
Calculated(op, a, b) == CASE op = "+" -> a + b [] op = "-" -> a - b [] op = "*" -> a * b [] op = "/" -> Floor(a, b)
                          [] op = "%" -> a - b * Floor(a, b) [] op = "^" -> a ^ b
Compared(op, a, b) == CASE op = "<" -> a < b [] op = "<=" -> a <= b [] op = ">" -> b < a [] op = ">=" -> b <= a
Binary(op, v, w) ==
  CASE op = "==" -> Bool(v = w)
    [] op = "~=" -> Bool(v # w)
    [] op = ".." -> IF IsText(v) /\ IsText(w) THEN <<"string", Text(v) \o Text(w)>> ELSE NoValue
    [] op \in {"<", "<=", ">", ">="} -> IF IsNumber(v) /\ IsNumber(w) THEN Bool(Compared(op, v[2], w[2])) ELSE NoValue
    [] OTHER -> IF IsNumber(v) /\ IsNumber(w) THEN <<"number", Calculated(op, v[2], w[2])>> ELSE NoValue

(* ---- evaluation ------------------------------------------------------------------ *)
\* The store st: variables (cells), tables, functions, globals, what was output, and
\* whether an error was raised, after which nothing happens. env has the cells of the
\* variables in scope and the extra arguments. A result is [st, vs].
RECURSIVE Eval(_, _, _), Exec(_, _, _), Run(_, _, _)
Result(st, vs) == [st |-> st, vs |-> vs]
Raised(st) == Result([st EXCEPT !.bad = TRUE], <<>>)
Made(st, v) == IF v = NoValue THEN Raised(st) ELSE Result(st, <<v>>)
RECURSIVE EvalList(_, _, _)
EvalList(st, env, es) ==
  CASE es = <<>> -> Result(st, <<>>)
    [] Len(es) = 1 -> Eval(st, env, es[1])
    [] OTHER -> Then(Eval(st, env, es[1]), LAMBDA a :
                  Then(EvalList(a.st, env, Tail(es)), LAMBDA b : Result(b.st, <<First1(a.vs)>> \o b.vs)))
Eval1(st, env, e) == Then(Eval(st, env, e), LAMBDA r : Result(r.st, <<First1(r.vs)>>))
NewCells(st, env, xs, vs) ==
  LET n == Len(st.cells)
  IN [st |-> [st EXCEPT !.cells = @ \o [j \in DOMAIN xs |-> Nth(vs, j)]],
      env |-> [env EXCEPT !.vars = [x \in Range(xs) |-> n + Max({j \in DOMAIN xs : xs[j] = x})] @@ @]]
NewFunction(st, env, params, block) ==
  Result([st EXCEPT !.funs = Append(@, [params |-> params, block |-> block, env |-> env])], <<<<"function", Len(st.funs) + 1>>>>)
NewTable(st) == Result([st EXCEPT !.tabs = Append(@, <<>>)], <<<<"table", Len(st.tabs) + 1>>>>)
GetIndex(st, t, k) == IF t[1] = "table" THEN Result(st, <<Lookup(st.tabs[t[2]], k)>>) ELSE Raised(st)
SetIndex(st, t, k, v) ==
  IF st.bad \/ t[1] # "table" \/ (t[1] = "table" /\ k = Nil) THEN [st EXCEPT !.bad = TRUE] ELSE [st EXCEPT !.tabs[t[2]] = Updated(@, k, v)]
Apply(st, f, args) ==
  CASE st.bad -> Result(st, <<>>)
    [] ~st.bad /\ f = <<"builtin", "out">> -> Result([st EXCEPT !.out = Append(@, args)], args)
    [] ~st.bad /\ f[1] = "function" ->
         LET g == st.funs[f[2]]
             fixed == SelectSeq(g.params, LAMBDA x : x # "...")
             extra == SubSeq(args, Len(fixed) + 1, Len(args))
         IN Then(NewCells(st, [g.env EXCEPT !.va = extra], fixed, args), LAMBDA r :
              Then(Run(r.st, r.env, g.block), LAMBDA x : Result(x.st, x.vs)))
    [] OTHER -> Raised(st)
Fields(st, env, t, fields) ==
  LET positions(j) == Cardinality({i \in 1..j : fields[i][1] = "item"})
      set(s, j) ==
        IF fields[j][1] = "pair"
        THEN Then(Eval1(s, env, fields[j][2]), LAMBDA k : Then(Eval1(k.st, env, fields[j][3]), LAMBDA v : SetIndex(v.st, t, k.vs[1], v.vs[1])))
        ELSE IF j = Len(fields)
        THEN Then(Eval(s, env, fields[j][2]), LAMBDA r :
               Each(r.st, [i \in DOMAIN r.vs |-> i], LAMBDA x, i : SetIndex(x, t, <<"number", positions(j) - 1 + i>>, r.vs[i])))
        ELSE Then(Eval1(s, env, fields[j][2]), LAMBDA r : SetIndex(r.st, t, <<"number", positions(j)>>, r.vs[1]))
  IN Each(st, [j \in DOMAIN fields |-> j], set)
Eval(st, env, e) ==
  IF st.bad THEN Result(st, <<>>)
  ELSE CASE e[1] = "nil" -> Result(st, <<Nil>>)
         [] e[1] \in {"true", "false"} -> Result(st, <<Bool(e[1] = "true")>>)
         [] e[1] \in {"number", "string"} -> Result(st, <<e>>)
         [] e[1] = "..." -> Result(st, env.va)
         [] e[1] = "var" -> Result(st, <<IF e[2] \in DOMAIN env.vars THEN st.cells[env.vars[e[2]]] ELSE Lookup(st.globals, e[2])>>)
         [] e[1] = "paren" -> Eval1(st, env, e[2])
         [] e[1] = "function" -> NewFunction(st, env, e[2], e[3])
         [] e[1] = "index" -> Then(Eval1(st, env, e[2]), LAMBDA t : Then(Eval1(t.st, env, e[3]), LAMBDA k :
                                IF k.st.bad THEN k ELSE GetIndex(k.st, t.vs[1], k.vs[1])))
         [] e[1] = "call" -> Then(Eval1(st, env, e[2]), LAMBDA f : Then(EvalList(f.st, env, e[3]), LAMBDA a : Apply(a.st, f.vs[1], a.vs)))
         [] e[1] = "method" -> Then(Eval1(st, env, e[2]), LAMBDA o :
              IF o.st.bad THEN o ELSE Then(GetIndex(o.st, o.vs[1], <<"string", e[3]>>), LAMBDA f :
                Then(EvalList(f.st, env, e[4]), LAMBDA a : Apply(a.st, First1(f.vs), o.vs \o a.vs))))
         [] e[1] = "un" -> Then(Eval1(st, env, e[3]), LAMBDA r :
              LET v == r.vs[1]
              IN CASE r.st.bad -> r
                   [] ~r.st.bad /\ e[2] = "not" -> Result(r.st, <<Bool(~Truth(v))>>)
                   [] ~r.st.bad /\ e[2] = "-" -> Made(r.st, IF IsNumber(v) THEN <<"number", -v[2]>> ELSE NoValue)
                   [] ~r.st.bad /\ e[2] = "#" -> Made(r.st, CASE v[1] = "table" -> <<"number", Length(r.st.tabs[v[2]])>>
                                                             [] v[1] = "string" -> <<"number", Len(v[2])>>
                                                             [] OTHER -> NoValue))
         [] e[1] = "bin" -> Then(Eval1(st, env, e[3]), LAMBDA l :
              IF e[2] \in {"and", "or"}
              THEN (IF Truth(l.vs[1]) = (e[2] = "or") THEN l ELSE Eval1(l.st, env, e[4]))
              ELSE Then(Eval1(l.st, env, e[4]), LAMBDA r : IF r.st.bad THEN r ELSE Made(r.st, Binary(e[2], l.vs[1], r.vs[1]))))
         [] e[1] = "table" -> Then(NewTable(st), LAMBDA t : Result(Fields(t.st, env, t.vs[1], e[2]), t.vs))

\* What a statement does: [st, env, sig, vs], sig being "next", "break" or "return".
Done(st, env, sig, vs) == [st |-> st, env |-> env, sig |-> sig, vs |-> vs]
\* A block: its statements in order, up to one that leaves it.
RunFrom(st, env, block) ==
  LET after[j \in 0..Len(block)] ==
        IF j = 0 THEN Done(st, env, "next", <<>>)
        ELSE Then(after[j - 1], LAMBDA r : IF r.st.bad \/ r.sig # "next" THEN r ELSE Exec(r.st, r.env, block[j]))
  IN after[Len(block)]
Run(st, env, block) == [RunFrom(st, env, block) EXCEPT !.env = env]
\* A target of an assignment, evaluated, and the assignment of a value to it.
Target(st, env, e) ==
  IF e[1] = "var" THEN Result(st, e)
  ELSE Then(Eval1(st, env, e[2]), LAMBDA t : Then(Eval1(t.st, env, e[3]), LAMBDA k : Result(k.st, <<"index", t.vs[1], k.vs[1]>>)))
Assign(st, env, target, v) ==
  CASE st.bad -> st
    [] ~st.bad /\ target[1] = "index" -> SetIndex(st, target[2], target[3], v)
    [] ~st.bad /\ target[1] = "var" /\ target[2] \in DOMAIN env.vars -> [st EXCEPT !.cells[env.vars[target[2]]] = v]
    [] OTHER -> [st EXCEPT !.globals = Updated(@, target[2], v)]
RECURSIVE While(_, _, _, _), Repeat(_, _, _, _), For(_, _, _, _), ForIn(_, _, _, _)
Left(r, env) == Done(r.st, env, IF r.sig = "break" THEN "next" ELSE r.sig, r.vs)
Stops(r) == r.st.bad \/ r.sig # "next"
While(st, env, cond, block) ==
  Then(Eval1(st, env, cond), LAMBDA c :
    IF c.st.bad \/ ~Truth(c.vs[1]) THEN Done(c.st, env, "next", <<>>)
    ELSE Then(Run(c.st, env, block), LAMBDA r : IF Stops(r) THEN Left(r, env) ELSE While(r.st, env, cond, block)))
Repeat(st, env, block, cond) ==
  Then(RunFrom(st, env, block), LAMBDA r :
    IF Stops(r) THEN Left(r, env)
    ELSE Then(Eval1(r.st, r.env, cond), LAMBDA c :
           IF c.st.bad \/ Truth(c.vs[1]) THEN Done(c.st, env, "next", <<>>) ELSE Repeat(c.st, env, block, cond)))
For(st, env, range, s) ==
  IF (range.step > 0 /\ range.i > range.limit) \/ (range.step <= 0 /\ range.i < range.limit) THEN Done(st, env, "next", <<>>)
  ELSE Then(NewCells(st, env, <<s[2]>>, <<<<"number", range.i>>>>), LAMBDA n :
         Then(Run(n.st, n.env, s[4]), LAMBDA r :
           IF Stops(r) THEN Left(r, env) ELSE For(r.st, env, [range EXCEPT !.i = @ + range.step], s)))
ForIn(st, env, iter, s) ==
  Then(Apply(st, iter[1], <<iter[2], iter[3]>>), LAMBDA a :
    IF a.st.bad \/ First1(a.vs) = Nil THEN Done(a.st, env, "next", <<>>)
    ELSE Then(NewCells(a.st, env, s[2], a.vs), LAMBDA n :
           Then(Run(n.st, n.env, s[4]), LAMBDA r : IF Stops(r) THEN Left(r, env) ELSE ForIn(r.st, env, [iter EXCEPT ![3] = a.vs[1]], s))))
RECURSIVE If(_, _, _, _)
If(st, env, s, j) ==
  IF j > Len(s[2]) THEN Run(st, env, s[3])
  ELSE Then(Eval1(st, env, s[2][j][1]), LAMBDA c :
         CASE c.st.bad -> Done(c.st, env, "next", <<>>)
           [] ~c.st.bad /\ Truth(c.vs[1]) -> Run(c.st, env, s[2][j][2])
           [] OTHER -> If(c.st, env, s, j + 1))
Exec(st, env, s) ==
  LET next(x) == Done(x, env, "next", <<>>)
  IN CASE s[1] = "local" -> Then(EvalList(st, env, s[3]), LAMBDA r : Then(NewCells(r.st, env, s[2], r.vs), LAMBDA n : Done(n.st, n.env, "next", <<>>)))
       [] s[1] = "assign" ->
            LET targets == Each(Result(st, <<>>), s[2], LAMBDA x, e : Then(Target(x.st, env, e), LAMBDA t : Result(t.st, Append(x.vs, t.vs))))
            IN Then(targets, LAMBDA t : Then(EvalList(t.st, env, s[3]), LAMBDA r :
                 next(Each(r.st, Reverse([j \in DOMAIN s[2] |-> j]), LAMBDA x, j : Assign(x, env, t.vs[j], Nth(r.vs, j))))))
       [] s[1] \in {"call", "method"} -> Then(Eval(st, env, s), LAMBDA r : next(r.st))
       [] s[1] = "do" -> Run(st, env, s[2])
       [] s[1] = "while" -> While(st, env, s[2], s[3])
       [] s[1] = "repeat" -> Repeat(st, env, s[2], s[3])
       [] s[1] = "if" -> If(st, env, s, 1)
       [] s[1] = "for" -> Then(EvalList(st, env, s[3]), LAMBDA r :
            IF r.st.bad \/ \E v \in Range(r.vs) : ~IsNumber(v) THEN next([r.st EXCEPT !.bad = TRUE])
            ELSE For(r.st, env, [i |-> r.vs[1][2], limit |-> r.vs[2][2], step |-> IF Len(r.vs) = 3 THEN r.vs[3][2] ELSE 1], s))
       [] s[1] = "forin" -> Then(EvalList(st, env, s[3]), LAMBDA r : ForIn(r.st, env, <<Nth(r.vs, 1), Nth(r.vs, 2), Nth(r.vs, 3)>>, s))
       [] s[1] = "localfunction" -> Then(NewCells(st, env, <<s[2]>>, <<>>), LAMBDA n : Then(NewFunction(n.st, n.env, s[3], s[4]), LAMBDA f :
            Done(Assign(f.st, n.env, <<"var", s[2]>>, f.vs[1]), n.env, "next", <<>>)))
       [] s[1] = "methodstat" -> Then(NewFunction(st, env, <<"self">> \o s[4], s[5]), LAMBDA f : Then(Eval1(f.st, env, <<"var", s[2]>>), LAMBDA t :
            next(SetIndex(t.st, t.vs[1], <<"string", s[3]>>, f.vs[1]))))
       [] s[1] = "return" -> Then(EvalList(st, env, s[2]), LAMBDA r : Done(r.st, env, "return", r.vs))
       [] s[1] = "break" -> Done(st, env, "break", <<>>)

\* The outcome of a whole program, tables and functions being seen as such only.
Shown(v) == IF v[1] \in {"table", "function"} THEN <<v[1]>> ELSE v
ShownAll(vs) == [j \in DOMAIN vs |-> Shown(vs[j])]
Outcome(out, vs, bad) == [out |-> [j \in DOMAIN out |-> ShownAll(out[j])], vs |-> IF bad THEN <<>> ELSE ShownAll(vs), bad |-> bad]
Meaning(program) ==
  LET start == [cells |-> <<>>, tabs |-> <<>>, funs |-> <<>>, globals |-> ("out" :> <<"builtin", "out">>), out |-> <<>>, bad |-> FALSE]
  IN Then(Run(start, [vars |-> <<>>, va |-> <<>>], program), LAMBDA r : Outcome(r.st.out, r.vs, r.st.bad))
================================================================================
