------------------------------- MODULE LuaScanner -------------------------------
(***************************************************************************)
(* Lua's scanner (llex.c): the tokens of a text, one at a time and one in  *)
(* advance, with the number of the line. A character is a string of length *)
(* 1, a text a sequence of them. Numbers are converted by the C library,   *)
(* whose decimal point is that of a locale a program may change.           *)
(* A text is put together from lexemes and what separates them, so that    *)
(* its tokens can be told from those.                                      *)
(***************************************************************************)
EXTENDS Integers, Sequences, SequencesExt, TLC, LuaCommon

CONSTANTS Lexemes,     (* [text, kind, token, value, newlines]                *)
          Separators,  (* [text, newlines]                                    *)
          Mistakes,    (* [text, why, newlines]: texts that are no lexemes    *)
          Reserved, Alpha, Digit, Points, NULL

VARIABLES source,      (* [words, mistake]: <<separator, lexeme>> pairs, and  *)
                       (* the mistake after them, or NULL                     *)
          point,       (* the decimal point of the locale                     *)
          ls, taken    (* the scanner; the tokens the parser has taken        *)

vars == <<source, point, ls, taken>>

EOZ == "<eoz>"
EOS == [token |-> "<eof>", value |-> NULL]
Newline == {"\n", "\r"}
Word == Alpha \cup Digit \cup {"_"}
Chars(s) == [i \in 1..Len(s) |-> SubSeq(s, i, i)]

(* ---- the scanner: [text, at, line, lastline, buff, t, ahead, read, decpoint, err] *)
Current(x) == IF x.at > Len(x.text) THEN EOZ ELSE x.text[x.at]
Skip(x) == [x EXCEPT !.at = @ + 1]
Save(x, c) == [x EXCEPT !.buff = Append(@, c)]
SaveAndNext(x) == Skip(Save(x, Current(x)))
LexError(x, why) == [x EXCEPT !.err = why]
Token(x, token, value) == [x EXCEPT !.read = [token |-> token, value |-> value]]
ResetBuffer(x) == [x EXCEPT !.buff = <<>>]
\* A mutant: every line end character counts.
Mut_IncLineNumber(x) == [Skip(x) EXCEPT !.line = @ + 1]
\* inclinenumber: \r\n and \n\r are one line end.
IncLineNumber(x) ==
  LET y == Skip(x)
  IN [y EXCEPT !.line = @ + 1, !.at = IF Current(y) \in Newline \ {Current(x)} THEN @ + 1 ELSE @]
CheckNext(x, set) == IF Current(x) \in set THEN SaveAndNext(x) ELSE x
RECURSIVE SaveWhile(_, _)
SaveWhile(x, set) == IF Current(x) \in set THEN SaveWhile(SaveAndNext(x), set) ELSE x

\* strtod and strtoul: what they read completely, when p is the decimal point.
Digits(q) == q # <<>> /\ ToSet(q) \subseteq Digit
Mantissa(q, p) == \/ Digits(q)
                  \/ \E i \in 1..Len(q) : q[i] = p /\ Len(q) > 1 /\ ToSet(RemoveAt(q, i)) \subseteq Digit
Exponent(q) == Len(q) > 1 /\ q[1] \in {"e", "E"} /\ (Digits(Tail(q)) \/ (q[2] \in {"+", "-"} /\ Digits(SubSeq(q, 3, Len(q)))))
Hexadecimal(q) == Len(q) > 2 /\ q[1] = "0" /\ q[2] \in {"x", "X"}
                  /\ ToSet(SubSeq(q, 3, Len(q))) \subseteq Digit \cup {"a", "b", "e", "E", "F"}
Str2d(q, p) == \/ Mantissa(q, p) \/ Hexadecimal(q)
               \/ \E i \in 1..Len(q) : Mantissa(SubSeq(q, 1, i), p) /\ Exponent(SubSeq(q, i + 1, Len(q)))
\* buffreplace; the number that is read, as it is written with a point.
Replaced(q, from, to) == [i \in 1..Len(q) |-> IF q[i] = from THEN to ELSE q[i]]
NumberOf(q, p) == Replaced(q, p, ".")
\* A mutant: the buffer is taken to have the text's points, not those put in for them.
Mut_TryDecPoint(x) ==
  LET y == [x EXCEPT !.decpoint = point, !.buff = Replaced(@, ".", point)]
  IN IF Str2d(y.buff, point) THEN Token(y, "<number>", NumberOf(y.buff, point)) ELSE LexError(y, "malformed number")
\* trydecpoint: the point may be another than when the scanner looked last.
TryDecPoint(x) ==
  LET y == [x EXCEPT !.decpoint = point, !.buff = Replaced(@, x.decpoint, point)]
  IN IF Str2d(y.buff, point) THEN Token(y, "<number>", NumberOf(y.buff, point)) ELSE LexError(y, "malformed number")
ReadNumeral(x) ==
  LET digits == SaveWhile(SaveAndNext(x), Digit \cup {"."})
      e == CheckNext(digits, {"E", "e"})
      signed == IF e # digits THEN CheckNext(e, {"+", "-"}) ELSE e
      whole == SaveWhile(signed, Word)
      local == [whole EXCEPT !.buff = Replaced(@, ".", whole.decpoint)]
  IN IF Str2d(local.buff, point) THEN Token(local, "<number>", NumberOf(local.buff, point)) ELSE TryDecPoint(local)

\* skip_sep: from a bracket x to y; the number of = up to the second one, or less than 0.
SkipSep(x) == SaveWhile(SaveAndNext(x), {"="})
Sep(x, y) == LET count == y.at - x.at - 1 IN IF Current(y) = Current(x) THEN count ELSE -count - 1

\* read_long_string up to the closing bracket; a comment (keep = FALSE) is not stored.
RECURSIVE LongString(_, _, _)
LongString(x, keep, sep) ==
  LET c == Current(x)
      y == SkipSep(x)
  IN CASE c = EOZ -> LexError(x, IF keep THEN "unfinished long string" ELSE "unfinished long comment")
       [] c = "[" -> IF Sep(x, y) # sep THEN LongString(y, keep, sep)
                     ELSE IF sep = 0 THEN LexError(SaveAndNext(y), "nesting of [[...]] is deprecated")
                     ELSE LongString(SaveAndNext(y), keep, sep)
       [] c = "]" -> IF Sep(x, y) = sep THEN SaveAndNext(y) ELSE LongString(y, keep, sep)
       [] c \in Newline -> LET z == IncLineNumber(Save(x, "\n")) IN LongString(IF keep THEN z ELSE ResetBuffer(z), keep, sep)
       [] OTHER -> LongString(IF keep THEN SaveAndNext(x) ELSE Skip(x), keep, sep)
ReadLongString(x, keep, sep) ==
  LET y == SaveAndNext(x)
      z == LongString(IF Current(y) \in Newline THEN IncLineNumber(y) ELSE y, keep, sep)
  IN IF z.err # NULL \/ ~keep THEN z ELSE Token(z, "<string>", SubSeq(z.buff, 3 + sep, Len(z.buff) - 2 - sep))

\* read_string: the escapes; a character is known by its code if it has no name.
Escapes == [n |-> "\n", r |-> "\r", t |-> "\t", a |-> "\\7", b |-> "\\8", v |-> "\\11", f |-> "\\12"]
CharOf(code) == IF code \in 48..57 THEN ToString(code - 48) ELSE "\\" \o ToString(code)
DigitOf(c) == CHOOSE n \in 0..9 : ToString(n) = c
RECURSIVE Decimal(_, _, _)
Decimal(x, i, c) == IF i < 3 /\ Current(x) \in Digit THEN Decimal(Skip(x), i + 1, 10 * c + DigitOf(Current(x)))
                    ELSE IF c > 255 THEN LexError(x, "escape sequence too large") ELSE Save(x, CharOf(c))
Escape(x) ==
  LET c == Current(x)
  IN CASE c \in DOMAIN Escapes -> Skip(Save(x, Escapes[c]))
       [] c \in Newline -> IncLineNumber(Save(x, "\n"))
       [] c = EOZ -> x
       [] c \in Digit -> Decimal(x, 0, 0)
       [] OTHER -> SaveAndNext(x)
RECURSIVE Quoted(_, _)
Quoted(x, del) ==
  LET c == Current(x)
  IN CASE x.err # NULL -> x
       [] x.err = NULL /\ c = del -> SaveAndNext(x)
       [] x.err = NULL /\ c \in Newline \cup {EOZ} -> LexError(x, "unfinished string")
       [] x.err = NULL /\ c = "\\" -> Quoted(Escape(Skip(x)), del)
       [] OTHER -> Quoted(SaveAndNext(x), del)
ReadString(x) ==
  LET y == Quoted(SaveAndNext(x), Current(x))
  IN IF y.err # NULL THEN y ELSE Token(y, "<string>", SubSeq(y.buff, 2, Len(y.buff) - 1))

RECURSIVE ToLineEnd(_)
ToLineEnd(x) == IF Current(x) \in Newline \cup {EOZ} THEN x ELSE ToLineEnd(Skip(x))
\* A comment; x is after its --.
Comment(x) ==
  IF Current(x) # "[" THEN ToLineEnd(x)
  ELSE LET y == SkipSep(x)
       IN IF Sep(x, y) >= 0 THEN ResetBuffer(ReadLongString(ResetBuffer(y), FALSE, Sep(x, y))) ELSE ToLineEnd(ResetBuffer(y))
Single(x) == Token(Skip(x), Current(x), NULL)
OrEqual(x) == IF Current(Skip(x)) = "=" THEN Token(Skip(Skip(x)), Current(x) \o "=", NULL) ELSE Single(x)
Dots(x) ==
  LET one == SaveAndNext(x)
      two == CheckNext(one, {"."})
      three == CheckNext(two, {"."})
  IN IF two # one THEN (IF three # two THEN Token(three, "...", NULL) ELSE Token(two, "..", NULL))
     ELSE IF Current(one) \in Digit THEN ReadNumeral(one) ELSE Token(one, ".", NULL)
Bracket(x) ==
  LET y == SkipSep(x)
  IN CASE Sep(x, y) >= 0 -> ReadLongString(y, TRUE, Sep(x, y))
       [] Sep(x, y) = -1 -> Token(y, "[", NULL)
       [] OTHER -> LexError(y, "invalid long string delimiter")
Name(x) ==
  LET y == SaveWhile(x, Word)
      text == FoldLeft(LAMBDA a, b : a \o b, "", y.buff)
  IN IF text \in Reserved THEN Token(y, text, NULL) ELSE Token(y, "<name>", y.buff)
RECURSIVE Llex(_)
Llex(x) ==
  LET c == Current(x)
  IN CASE x.err # NULL -> x
       [] x.err = NULL /\ c \in Newline -> Llex(IncLineNumber(x))
       [] x.err = NULL /\ c \in {" ", "\t"} -> Llex(Skip(x))
       [] x.err = NULL /\ c = "-" -> IF Current(Skip(x)) = "-" THEN Llex(Comment(Skip(Skip(x)))) ELSE Single(x)
       [] x.err = NULL /\ c = "[" -> Bracket(x)
       [] x.err = NULL /\ c \in {"=", "<", ">", "~"} -> OrEqual(x)
       [] x.err = NULL /\ c \in {"\"", "'"} -> ReadString(x)
       [] x.err = NULL /\ c = "." -> Dots(x)
       [] x.err = NULL /\ c = EOZ -> [x EXCEPT !.read = EOS]
       [] x.err = NULL /\ c \in Digit -> ReadNumeral(x)
       [] x.err = NULL /\ c \in Alpha \cup {"_"} -> Name(x)
       [] OTHER -> Single(x)

\* luaX_setinput
SetInput(text) ==
  [text |-> text, at |-> 1, line |-> 1, lastline |-> 1, buff |-> <<>>, t |-> NULL, ahead |-> EOS, read |-> NULL, decpoint |-> ".", err |-> NULL]
\* luaX_next: the token in advance, or the next one.
XNext(x) ==
  LET y == [x EXCEPT !.lastline = x.line]
      z == Llex(ResetBuffer(y))
  IN IF x.ahead # EOS THEN [y EXCEPT !.t = x.ahead, !.ahead = EOS] ELSE [z EXCEPT !.t = z.read]
XLookahead(x) == LET y == Llex(ResetBuffer(x)) IN IF y.err = NULL THEN [y EXCEPT !.ahead = y.read] ELSE y

(* ---- texts, and the program that scans them ---------------------------------- *)
TextOf(words) == FlattenSeq([i \in 1..Len(words) |-> Chars(words[i][1].text) \o Chars(words[i][2].text)])
Text(s) == TextOf(s.words) \o (IF s.mistake = NULL THEN <<>> ELSE Chars(s.mistake.text))
\* Lexemes that are two even if nothing separates them.
Apart(a, b) == \/ a.kind = "string" \/ (a.kind = "word" /\ b.kind \in {"string", "operator"})
               \/ (a.kind = "operator" /\ b.kind = "word")
Nothing == [text |-> "", newlines |-> 0]
Pairs == {<<<<Nothing, a>>, <<s, b>>>> : a \in Lexemes, s \in Separators \cup {Nothing}, b \in Lexemes}
Words == {q \in Pairs : q[2][1] # Nothing \/ Apart(q[1][2], q[2][2])}

Init == /\ \/ \E q \in Words : source = [words |-> q, mistake |-> NULL]
           \/ \E m \in Mistakes, s \in Separators, l \in Lexemes :
                source = [words |-> <<<<Nothing, l>>>>, mistake |-> [m EXCEPT !.text = s.text \o @, !.newlines = @ + s.newlines]]
        /\ point \in Points
        /\ ls = SetInput(Text(source)) /\ taken = <<>>

Running == ls.err = NULL /\ (taken # <<>> => Last(taken) # EOS)
NextToken == /\ Running
             /\ ls' = XNext(ls) /\ taken' = IF ls'.err = NULL THEN Append(taken, ls'.t) ELSE taken
             /\ UNCHANGED <<source, point>>
Lookahead == Running /\ taken # <<>> /\ ls.ahead = EOS /\ ls' = XLookahead(ls) /\ UNCHANGED <<source, point, taken>>
\* setlocale, by a function of the program that gives the text
SetLocale == /\ Running /\ taken # <<>> /\ \E i \in 1..Len(source.words) : source.words[i][2].kind = "number"
             /\ point' \in Points \ {point} /\ UNCHANGED <<source, ls, taken>>
Next == NextToken \/ Lookahead \/ SetLocale
Spec == Init /\ [][Next]_vars

(* ---- what the text says -------------------------------------------------------- *)
Expected(i) == IF i > Len(source.words) THEN EOS ELSE LET l == source.words[i][2] IN [token |-> l.token, value |-> l.value]
LineOf(i) == 1 + FoldLeft(LAMBDA n, w : n + w[1].newlines + w[2].newlines, 0, SubSeq(source.words, 1, i))
LastLine == LineOf(Len(source.words)) + (IF source.mistake = NULL THEN 0 ELSE source.mistake.newlines)
Scanned == Len(taken) + (IF ls.ahead # EOS THEN 1 ELSE 0)

\* The tokens that the parser takes are those of the text, in their order and on their lines,
\* whatever separates them, whether they were read in advance, and whatever the locale; a
\* mistake is found, and on its line, when the parser comes to it.
TokensExact ==
  /\ taken = [i \in 1..Len(taken) |-> Expected(i)]
  /\ ls.ahead # EOS => ls.ahead = Expected(Len(taken) + 1)
  /\ ls.err # NULL => source.mistake # NULL /\ ls.err = source.mistake.why /\ Scanned >= Len(source.words) /\ ls.line = LastLine
  /\ (taken # <<>> /\ Last(taken) = EOS) => source.mistake = NULL
  /\ (ls.err = NULL /\ Scanned <= Len(source.words)) => ls.line = LineOf(Scanned)
  /\ Len(taken) > 1 /\ Len(taken) <= Len(source.words) => ls.lastline \in LineOf(Len(taken) - 1)..ls.line
================================================================================
