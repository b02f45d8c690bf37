------------------------------- MODULE LuaInputs --------------------------------
(***************************************************************************)
(* What the parts of Lua are given: the lexemes and separators that the    *)
(* scanner's texts consist of, and what they mean; the patterns, lists of  *)
(* items, that the string library looks for, and the texts it looks in;    *)
(* the programs that are compiled and run, as syntax trees. Of each also   *)
(* some that are none.                                                     *)
(***************************************************************************)
EXTENDS Integers, Sequences, TLC

CONSTANT NULL

(* ---- the scanner ----------------------------------------------------------- *)
Lexeme(text, kind, token, value) == [text |-> text, kind |-> kind, token |-> token, value |-> value, newlines |-> 0]
String(text, value) == Lexeme(text, "string", "<string>", value)
Lines(l, n) == [l EXCEPT !.newlines = n]

Operators == {Lexeme(op, "operator", op, NULL) :
                op \in {"+", "-", "[", "=", "==", "<", "<=", ">=", "~=", ".", "..", "..."}}
Names == {Lexeme("end", "word", "end", NULL), Lexeme("a", "word", "<name>", <<"a">>), Lexeme("_e1", "word", "<name>", <<"_", "e", "1">>)}
Numbers == {Lexeme("3", "number", "<number>", <<"3">>), Lexeme("3.1", "number", "<number>", <<"3", ".", "1">>),
            Lexeme(".5", "number", "<number>", <<".", "5">>), Lexeme("1.e+1", "number", "<number>", <<"1", ".", "e", "+", "1">>),
            Lexeme("0xE1", "number", "<number>", <<"0", "x", "E", "1">>)}
Strings == {String("''", <<>>), String("'\"a'", <<"\"", "a">>), String("\"\\n\\'\\\"\"", <<"\n", "'", "\"">>),
            String("'\\0651\\5'", <<"\\65", "1", "\\5">>), Lines(String("'a\\\r\nb'", <<"a", "\n", "b">>), 1),
            String("[[a]b]]", <<"a", "]", "b">>), Lines(String("[[\r\na\r\n]]", <<"a", "\n">>), 2),
            String("[==[]]]=]]==]", <<"]", "]", "]", "=", "]">>), Lines(String("[=[[==[\n\n]=]", <<"[", "=", "=", "[", "\n", "\n">>), 2)}
Lexemes == Operators \cup Names \cup Numbers \cup Strings

Separator(text, n) == [text |-> text, newlines |-> n]
Separators == {Separator(" ", 0), Separator("\n", 1), Separator("\r\n", 1), Separator("\n\r\n\n", 3), Separator("\r\r", 2),
               Separator(" --a'\n", 1), Separator(" --[=a]]\n", 1), Separator(" --[[\n--]]", 1), Separator("\t--[=[a]]\r\n]==]\n]=]", 2)}

Mistake(text, why, n) == [text |-> text, why |-> why, newlines |-> n]
BadTokens == {Mistake("'a", "unfinished string", 0), Mistake("'a\n'", "unfinished string", 0), Mistake("'\\", "unfinished string", 0),
             Mistake("[[\n]", "unfinished long string", 1), Mistake("--[==[\n\n]]", "unfinished long comment", 2),
             Mistake("[=a", "invalid long string delimiter", 0), Mistake("[[\n[[", "nesting of [[...]] is deprecated", 1),
             Mistake("'\\256'", "escape sequence too large", 0), Mistake("3..1", "malformed number", 0),
             Mistake("3a", "malformed number", 0), Mistake("0x", "malformed number", 0), Mistake("1e+", "malformed number", 0)}

Reserved == {"and", "end"}
Alpha == {"a", "b", "d", "e", "n", "x", "E", "F"}
Digit == {"0", "1", "2", "3", "4", "5", "6", "7", "8", "9"}

(* ---- the string library ----------------------------------------------------- *)
AllChars == {"\\0", " ", "$", "%", "(", ")", "*", "+", ",", "-", ".", "0", "1", "2", "?", "A", "D", "S", "[", "]", "^",
           "a", "b", "c", "d", "f", "s", "w", "z"}
\* Items: a class as it is written, the characters it is, and how often.
Lit(c, r) == <<"class", <<c>>, {c}, r>>
Dot(r) == <<"class", <<".">>, AllChars, r>>
AB(r) == <<"class", <<"[", "a", "-", "b", "]">>, {"a", "b"}, r>>
NotA(r) == <<"class", <<"[", "^", "a", "]">>, AllChars \ {"a"}, r>>
Dig(r) == <<"class", <<"%", "d">>, {"0", "1", "2"}, r>>
NoDig(r) == <<"class", <<"%", "D">>, AllChars \ {"0", "1", "2"}, r>>
Spaced(r) == <<"class", <<"[", "%", "s", "1", "-", "2", "b", "-", "]">>, {" ", "1", "2", "b", "-"}, r>>
Pct(r) == <<"class", <<"%", "%">>, {"%"}, r>>
Open == <<"open">>
Close == <<"close">>
Posi == <<"position">>
Back(i) == <<"back", i, IF i = "1" THEN 1 ELSE 2>>
Fr == <<"frontier", <<"[", "%", "w", "]">>, {"A","D","S","a","b","c","d","f","s","w","z","0","1","2"}>>
FrZ == <<"frontier", <<"[", "%", "z", "]">>, {"\\0"}>>
Bal == <<"balance", "(", ")">>
BalS == <<"balance", "a", "a">>
End == <<"end">>
Start == <<"start">>
r0 == <<>>
Q == <<"?">>
St == <<"*">>
Pl == <<"+">>
Mi == <<"-">>

Patterns == {
 <<>>, <<Lit("a", r0), Lit("b", r0)>>, <<Dot(r0)>>, <<AB(Pl)>>, <<AB(St)>>, <<Dot(Mi), Lit("b", r0)>>, <<NotA(Q), Lit("a", r0)>>,
 <<Dig(Pl)>>, <<NoDig(St), End>>, <<Spaced(Pl)>>, <<Pct(r0)>>, <<Open, AB(Pl), Close, Back("1")>>, <<Open, Dot(St), Close, Back("1"), End>>,
 <<Open, Dot(Q), Close, Open, Dot(Mi), Close, Back("2"), End>>, <<Open, Open, Lit("a", St), Close, Lit("b", Q), Close>>,
 <<Open, Lit("a", St), Open, Dot(Q), Close, Close, Back("1")>>,
 <<Posi, Lit("a", St), Posi>>, <<Posi, Back("1")>>, <<Fr, Dot(r0)>>, <<FrZ>>, <<Bal>>, <<BalS>>, <<Dot(St), BalS, End>>,
 <<Start, Lit("a", r0)>>, <<Start, Lit("a", St), End>>, <<Start>>, <<End>>, <<Open, Lit("a", Q), Open, Lit("a", Q), Close, Lit("b", r0), Close, Back("2")>>,
 <<Open, Lit("a", Pl), Close, Lit("b", Q), Back("1")>>, <<Lit("a", Mi), Open, Dot(Q), Close, End>>
}

BadPatterns == {<<"[">>, <<"[", "a">>, <<"%">>, <<"%", "b">>, <<"%", "b", "a">>, <<"%", "f">>, <<"%", "f", "[", "a">>, <<"(">>, <<")">>, <<"%", "1">>,
  <<"(", "%", "1">>, <<"a", ")">>, <<"[", "]">>, <<"[", "^">>, <<"[", "^", "]">>, <<"[", "%">>, <<"[", "a", "-">>, <<"a", "%">>, <<"(", "(", "(", "a", ")", ")", ")">>, <<"a", "-", "[">>, <<"(", "a">>}

Subjects == {<<>>, <<"a">>, <<"a", "b">>, <<"a", "a", "b">>, <<"b", "a", "a", "b">>, <<"a", "b", "a", "b">>, <<"a", "1", "2", " ">>, <<"1", "a", "%", "-">>,
   <<"(", "(", "a", ")", "(">>, <<"^", "a", "^", "a">>, <<"a", "a", "a", "a">>}

Replacements == {<<"string", <<>>>>, <<"string", <<<<"text", "x">>, <<"capture", "0", 0>>, <<"capture", "1", 1>>>>>>, <<"string", <<<<"capture", "2", 2>>>>>>,
  <<"table", (<<"a">> :> <<"text", <<"x", "y">>>>) @@ (<<"a", "b">> :> <<"false">>) @@ (<<"1">> :> <<"other">>)>>,
  <<"function", "twice">>, <<"function", "false">>, <<"function", "other">>}

(* ---- the compiler and the machine -------------------------------------------- *)
\* One program for each way in which statements, scopes, assignments, calls and conditions
\* meet in the code generator, all the conditions of two and of three operands, and token
\* sequences that are no programs.
N(n) == <<"number", n>>
S(x) == <<"string", x>>
X(x) == <<"var", x>>
Ix(t, k) == <<"index", t, k>>
Fun(params, b) == <<"function", params, b>>
Un(op, e) == <<"un", op, e>>
Bin(a, op, b) == <<"bin", op, a, b>>
Tab(items) == <<"table", [j \in DOMAIN items |-> <<"item", items[j]>>]>>
CallX(f, args) == <<"call", f, args>>
Out(args) == <<"call", X("out"), args>>
Local(names, es) == <<"local", names, es>>
Set(targets, es) == <<"assign", targets, es>>
Ret(es) == <<"return", es>>
If(c, b, e) == <<"if", <<<<c, b>>>>, e>>
Varargs == <<"...">>
Null == <<"nil">>
True == <<"true">>
False == <<"false">>

Singles == {
 <<Out(<<N(1), S("a"), True, Null, False>>), Ret(<<N(2)>>)>>,
 <<Local(<<"a", "b", "c">>, <<N(1)>>), Out(<<X("a"), X("b"), X("c")>>)>>,
 \* closures made in a loop that is left by break
 <<Local(<<"fs">>, <<Tab(<<>>)>>),
   <<"for", "i", <<N(1), N(3)>>, <<Local(<<"x">>, <<Bin(X("i"), "*", N(2))>>),
      Set(<<Ix(X("fs"), X("i"))>>, <<Fun(<<>>, <<Set(<<X("x")>>, <<Bin(X("x"), "+", N(1))>>), Ret(<<X("x")>>)>>)>>),
      If(Bin(X("i"), "==", N(2)), <<<<"break">>>>, <<>>)>>>>,
   Local(<<"y">>, <<N(7)>>),
   Out(<<CallX(Ix(X("fs"), N(1)), <<>>), CallX(Ix(X("fs"), N(1)), <<>>), CallX(Ix(X("fs"), N(2)), <<>>), Ix(X("fs"), N(3)), X("y")>>)>>,
 \* repeat whose condition uses a captured local
 <<Local(<<"n", "f">>, <<N(0)>>),
   <<"repeat", <<Local(<<"k">>, <<X("n")>>), Set(<<X("f")>>, <<Fun(<<>>, <<Ret(<<X("k")>>)>>)>>), Set(<<X("n")>>, <<Bin(X("n"), "+", N(1))>>)>>, Bin(X("k"), ">=", N(2))>>,
   Out(<<X("n"), CallX(X("f"), <<>>)>>)>>,
 <<Local(<<"n">>, <<N(0)>>), <<"repeat", <<Local(<<"k">>, <<X("n")>>), Set(<<X("n")>>, <<Bin(X("n"), "+", N(1))>>)>>, Bin(X("k"), ">", N(1))>>, Ret(<<X("n")>>)>>,
 \* assignments whose targets and values meet
 <<Local(<<"a", "i">>, <<Tab(<<N(10), N(20), N(30)>>), N(1)>>), Set(<<X("i"), Ix(X("a"), X("i"))>>, <<Bin(X("i"), "+", N(1)), N(99)>>),
   Out(<<X("i"), Ix(X("a"), N(1)), Ix(X("a"), N(2))>>)>>,
 <<Local(<<"a", "i">>, <<Tab(<<N(10), N(20), N(30)>>), N(1)>>), Set(<<Ix(X("a"), X("i")), X("i")>>, <<N(98), N(2)>>),
   Out(<<X("i"), Ix(X("a"), N(1)), Ix(X("a"), N(2))>>)>>,
 <<Local(<<"a">>, <<Tab(<<N(10), N(20), N(30)>>)>>), Local(<<"b">>, <<X("a")>>), Set(<<Ix(X("a"), N(1)), X("a"), Ix(X("b"), N(2))>>, <<N(5), N(6), N(7)>>),
   Out(<<X("a"), Ix(X("b"), N(1)), Ix(X("b"), N(2))>>)>>,
 <<Local(<<"a", "b">>, <<N(1), N(2)>>), Set(<<X("a"), X("b")>>, <<X("b"), X("a")>>), Set(<<X("g"), X("a")>>, <<X("a")>>), Out(<<X("a"), X("b"), X("g")>>)>>,
 \* variable arguments
 <<Local(<<"f">>, <<Fun(<<"a", "...">>, <<Local(<<"x", "y">>, <<Varargs>>), Out(<<X("a"), X("x"), X("y"), Varargs>>), Ret(<<Varargs>>)>>)>>),
   Out(<<CallX(X("f"), <<N(1), N(2), N(3)>>), CallX(X("f"), <<>>), CallX(X("f"), <<N(4), N(5)>>)>>),
   Local(<<"t">>, <<Tab(<<N(0), CallX(X("f"), <<N(1), N(2), N(3), N(4)>>)>>)>>), Ret(<<Un("#", X("t")), Ix(X("t"), N(4)), <<"paren", CallX(X("f"), <<N(1), N(2), N(3)>>)>>>>)>>,
 <<Local(<<"f">>, <<Fun(<<"a", "...">>, <<Ret(<<X("a")>>)>>)>>), Ret(<<CallX(X("f"), <<N(1), N(2)>>), CallX(X("f"), <<>>)>>)>>,
 \* methods
 <<Local(<<"o">>, <<<<"table", <<<<"pair", S("v"), N(3)>>>>>>>>), <<"methodstat", "o", "add", <<"d">>, <<Set(<<Ix(X("self"), S("v"))>>, <<Bin(Ix(X("self"), S("v")), "+", X("d"))>>), Ret(<<X("self")>>)>>>>,
   Ret(<<Ix(<<"method", <<"method", X("o"), "add", <<N(2)>>>>, "add", <<N(4)>>>>, S("v"))>>)>>,
 \* constructors
 <<Local(<<"t">>, <<<<"table", <<<<"item", N(1)>>, <<"pair", S("k"), N(9)>>, <<"item", N(2)>>, <<"item", N(3)>>, <<"pair", N(1), N(8)>>, <<"item", N(4)>>, <<"item", N(5)>>>>>>>>),
   Out(<<Un("#", X("t")), Ix(X("t"), N(1)), Ix(X("t"), N(3)), Ix(X("t"), N(5)), Ix(X("t"), S("k"))>>)>>,
 <<Local(<<"f">>, <<Fun(<<>>, <<Ret(<<N(1), N(2), N(3)>>)>>)>>), Local(<<"t">>, <<Tab(<<CallX(X("f"), <<>>), N(7), CallX(X("f"), <<>>)>>)>>), Ret(<<Un("#", X("t")), Ix(X("t"), N(5)), Ix(X("t"), N(2))>>)>>,
 \* numeric loops
 <<<<"for", "i", <<N(3), N(1), N(-1)>>, <<Out(<<X("i")>>)>>>>, <<"for", "i", <<N(2), N(1)>>, <<Out(<<S("no")>>)>>>>, <<"for", "i", <<N(1), N(5), N(3)>>, <<Local(<<"i">>, <<Bin(X("i"), "+", N(1))>>), Out(<<X("i")>>)>>>>>>,
 <<<<"for", "i", <<N(1), S("x")>>, <<Out(<<X("i")>>)>>>>>>,
 \* generic loops
 <<Local(<<"it">>, <<Fun(<<"s", "i">>, <<If(Bin(X("i"), "<", X("s")), <<Ret(<<Bin(X("i"), "+", N(1)), X("i")>>)>>, <<>>)>>)>>),
   <<"forin", <<"a", "b">>, <<X("it"), N(3), N(0)>>, <<If(Bin(X("a"), "==", N(3)), <<<<"break">>>>, <<>>), Out(<<X("a"), X("b")>>)>>>>, Ret(<<X("a")>>)>>,
 <<<<"forin", <<"a">>, <<X("out"), Null, N(0)>>, <<Ret(<<N(1)>>)>>>>, Ret(<<N(2)>>)>>,
 \* upvalues of upvalues, and shared ones
 <<<<"localfunction", "counter", <<"c">>, <<Ret(<<Fun(<<>>, <<Local(<<"g">>, <<Fun(<<"d">>, <<Set(<<X("c")>>, <<Bin(X("c"), "+", X("d"))>>), Ret(<<X("c")>>)>>)>>), Ret(<<CallX(X("g"), <<N(2)>>)>>)>>), Fun(<<>>, <<Ret(<<X("c")>>)>>)>>)>>>>,
   Local(<<"u", "w">>, <<CallX(X("counter"), <<N(5)>>)>>), Out(<<CallX(X("u"), <<>>), CallX(X("w"), <<>>), CallX(X("u"), <<>>)>>), Ret(<<CallX(X("w"), <<>>)>>)>>,
 \* recursion and tail calls
 <<<<"localfunction", "f", <<"n", "a">>, <<If(Bin(X("n"), "==", N(0)), <<Ret(<<X("a")>>)>>, <<Ret(<<CallX(X("f"), <<Bin(X("n"), "-", N(1)), Bin(X("a"), "*", N(2))>>)>>)>>)>>>>, Ret(<<CallX(X("f"), <<N(3), N(1)>>)>>)>>,
 <<<<"localfunction", "f", <<"x">>, <<Local(<<"g">>, <<Fun(<<>>, <<Ret(<<X("x")>>)>>)>>), Ret(<<CallX(X("out"), <<X("x"), CallX(X("g"), <<>>)>>)>>)>>>>, Ret(<<CallX(X("f"), <<N(3)>>)>>)>>,
 <<<<"localfunction", "f", <<"x", "g">>, <<If(X("g"), <<Ret(<<CallX(X("g"), <<>>)>>)>>, <<>>), Ret(<<CallX(X("f"), <<N(9), Fun(<<>>, <<Ret(<<X("x")>>)>>)>>)>>)>>>>, Ret(<<CallX(X("f"), <<N(3)>>)>>)>>,
 \* errors
 <<Out(<<N(1)>>), CallX(X("nothing"), <<>>), Out(<<N(2)>>)>>,
 <<Local(<<"t">>, <<Tab(<<>>)>>), Set(<<Ix(X("t"), Null)>>, <<N(1)>>)>>,
 <<Ret(<<Bin(Null, "+", N(1))>>)>>, <<Ret(<<Bin(S("a"), "..", Null)>>)>>, <<Ret(<<Un("-", Tab(<<>>))>>)>>, <<Ret(<<Un("#", N(1))>>)>>, <<Ret(<<Ix(N(1), N(2))>>)>>, <<Ret(<<Bin(N(1), "<", Null)>>)>>,
 \* arithmetic of variables, which is not folded, and of constants, which is
 <<Local(<<"a", "b">>, <<N(7), N(2)>>), Out(<<Bin(X("a"), "%", X("b")), Bin(Un("-", X("a")), "%", X("b")), Bin(X("a"), "%", Un("-", X("b"))), Bin(X("a"), "^", X("b"))>>),
   Out(<<Bin(N(6), "/", X("b")), Un("-", Bin(X("a"), "^", N(2))), Bin(Bin(N(7), "%", N(3)), "*", N(2)), Un("-", N(2))>>)>>,
 \* nil runs at the start of a function and in a loop
 <<<<"while", Bin(X("x"), "~=", N(1)), <<Local(<<"a">>, <<>>), Local(<<"b">>, <<>>), Out(<<X("a"), X("b")>>), Set(<<X("a"), X("b"), X("x")>>, <<N(1), N(2), N(1)>>)>>>>, Ret(<<X("x")>>)>>,
 <<<<"for", "i", <<N(1), N(2)>>, <<Local(<<"a">>, <<>>), Out(<<X("a")>>), Set(<<X("a")>>, <<N(1)>>)>>>>>>,
 <<<<"if", <<<<Bin(X("x"), "==", Null), <<Out(<<N(1)>>)>>>>, <<True, <<Out(<<N(2)>>)>>>>>>, <<Out(<<N(3)>>)>>>>, <<"if", <<<<False, <<Out(<<N(1)>>)>>>>, <<Null, <<Out(<<N(2)>>)>>>>>>, <<Out(<<N(3)>>)>>>>>>,
 <<<<"while", True, <<Local(<<"x">>, <<N(1)>>), Local(<<"f">>, <<Fun(<<>>, <<Ret(<<X("x")>>)>>)>>), <<"do", <<Local(<<"y">>, <<CallX(X("f"), <<>>)>>), If(X("y"), <<<<"break">>>>, <<>>)>>>>>>>>, Out(<<S("end")>>)>>,
 <<Local(<<"s">>, <<Bin(S("a"), "..", Bin(N(1), "..", Bin(S(""), "..", S("b"))))>>), Ret(<<X("s"), Bin(Bin(X("s"), "..", S("")), "..", N(2)), Un("#", X("s"))>>)>>
}
\* What is no program.
W(x) == <<x>>
Nm(x) == <<"name", x>>
BadPrograms == { <<W("break")>>, <<W("local"), W("=")>>, <<W("return"), W("end")>>,
  <<W("local"), W("function"), Nm("f"), W("("), W(")"), W("return"), W("..."), W("end")>>,
  <<Nm("a"), W("("), W(")"), W("="), <<"number", 1>>>>, <<W("if"), W("true"), W("then")>>, <<Nm("a")>>,
  [j \in 1..11 |-> CASE j = 1 -> W("local") [] j > 1 /\ j % 2 = 0 -> Nm("v") [] OTHER -> W(",")] ,
  [j \in 1..14 |-> IF j = 1 THEN W("return") ELSE IF j = 14 THEN W("nil") ELSE W("(")] }
\* Conditions, for their value and for the branch they take.
A == {X("p"), X("q"), Null, True, Bin(X("q"), "<", N(2))}
L1 == A \cup {Un("not", a) : a \in A} \cup {Bin(a, op, b) : a \in A, b \in A, op \in {"and", "or"}}
E == {Bin(a, op, b) : a \in L1, b \in A, op \in {"and", "or"}} \cup {Bin(b, op, a) : a \in L1, b \in A, op \in {"and", "or"}} \cup {Un("not", a) : a \in L1}
Given == Local(<<"p", "q">>, <<False, N(2)>>)
Family == {<<Given, Local(<<"y">>, <<e>>), Ret(<<X("y")>>)>> : e \in E} \cup {<<Given, If(e, <<Ret(<<N(1)>>)>>, <<Ret(<<N(2)>>)>>)>> : e \in E}

Programs == Singles \cup Family
================================================================================
