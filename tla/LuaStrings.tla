------------------------------- MODULE LuaStrings -------------------------------
(***************************************************************************)
(* Lua's string library (lstrlib.c): the matcher of patterns, which        *)
(* backtracks over one record of captures that it changes in place, and    *)
(* find, match, gmatch and gsub on top of it. A character is a string of   *)
(* length 1, text a sequence of them; a pattern is read up to NUL, which   *)
(* ends it, and reading past that is an error of the evaluation.           *)
(* A pattern is generated from a list of items, so that what it should     *)
(* match can be told from the items: all its matches, best first.          *)
(***************************************************************************)
EXTENDS Integers, Sequences, SequencesExt, FiniteSets, TLC, LuaCommon

CONSTANTS Patterns,          (* lists of items                                *)
          Mistakes,          (* texts that are no patterns                    *)
          Subjects, Starts,  (* texts to search, and from where               *)
          Replacements, LUA_MAXCAPTURES

VARIABLES pattern,           (* <<"items", list>> or <<"mistake", text>>      *)
          subject, call      (* what was asked, how far it is, its results    *)

vars == <<pattern, subject, call>>

NUL == "\\0"
\* The characters in use, in the order of their codes, and their classes.
Ascii == <<NUL, " ", "$", "%", "(", ")", "*", "+", ",", "-", ".", "0", "1", "2", "?", "A", "D", "S", "[", "]", "^",
           "a", "b", "c", "d", "f", "s", "w", "z">>
Code == [c \in Range(Ascii) |-> CHOOSE i \in 1..Len(Ascii) : Ascii[i] = c]
Upper == {"A", "D", "S"}
LowerCase == {"a", "b", "c", "d", "f", "s", "w", "z"}
Digit == {"0", "1", "2"}
ToLower(c) == CASE c = "A" -> "a" [] c = "D" -> "d" [] c = "S" -> "s" [] OTHER -> c
Class == [a |-> Upper \cup LowerCase, d |-> Digit, s |-> {" "}, w |-> Upper \cup LowerCase \cup Digit, z |-> {NUL}]

(* ---- the matcher --------------------------------------------------------- *)
\* x: the subject src, the pattern pat, the places s and p in them (from 0), the captures
\* [init, len] below level, and how the search stands: "at", "null" (no match) or "error".
CAP_UNFINISHED == -1
CAP_POSITION == -2
At(text, i) == text[i + 1]
End(x) == Len(x.src)
Char(x, s) == IF s < End(x) THEN At(x.src, s) ELSE NUL
Error(x) == [x EXCEPT !.kind = "error"]
Null(x) == [x EXCEPT !.kind = "null"]
Put(x, s, p) == [x EXCEPT !.s = s, !.p = p, !.kind = "at"]

\* check_capture: the capture a %1 to %9 means; -1 is the error.
CheckCapture(x, c) == LET l == Code[c] - Code["1"]
                      IN IF l < 0 \/ l >= x.level THEN -1 ELSE IF x.capture[l + 1].len = CAP_UNFINISHED THEN -1 ELSE l
CaptureToClose(x) == LET open == {l \in 0..x.level - 1 : x.capture[l + 1].len = CAP_UNFINISHED}
                     IN IF open = {} THEN -1 ELSE CHOOSE l \in open : \A k \in open : k <= l

\* classend: where the item at p ends; -1 is the error.
RECURSIVE ToBracket(_, _)
ToBracket(pat, p) ==
  IF At(pat, p) = NUL THEN -1
  ELSE Then(IF At(pat, p) = "%" /\ At(pat, p + 1) # NUL THEN p + 2 ELSE p + 1,
            LAMBDA q : IF At(pat, q) = "]" THEN q + 1 ELSE ToBracket(pat, q))
ClassEnd(pat, p) ==
  CASE At(pat, p) = "%" -> IF At(pat, p + 1) = NUL THEN -1 ELSE p + 2
    [] At(pat, p) = "[" -> ToBracket(pat, IF At(pat, p + 1) = "^" THEN p + 2 ELSE p + 1)
    [] OTHER -> p + 1

MatchClass(c, cl) ==
  IF ToLower(cl) \notin DOMAIN Class THEN cl = c
  ELSE (c \in Class[ToLower(cl)]) = (cl \in LowerCase)

RECURSIVE InBracket(_, _, _, _)
InBracket(pat, c, p, ec) ==
  IF p >= ec THEN FALSE
  ELSE CASE At(pat, p) = "%" -> MatchClass(c, At(pat, p + 1)) \/ InBracket(pat, c, p + 2, ec)
         [] At(pat, p) # "%" /\ At(pat, p + 1) = "-" /\ p + 2 < ec ->
              (Code[At(pat, p)] <= Code[c] /\ Code[c] <= Code[At(pat, p + 2)]) \/ InBracket(pat, c, p + 3, ec)
         [] OTHER -> At(pat, p) = c \/ InBracket(pat, c, p + 1, ec)
MatchBracketClass(pat, c, p, ec) ==
  IF At(pat, p + 1) = "^" THEN ~InBracket(pat, c, p + 2, ec) ELSE InBracket(pat, c, p + 1, ec)

SingleMatch(pat, c, p, ep) ==
  CASE At(pat, p) = "." -> TRUE
    [] At(pat, p) = "%" -> MatchClass(c, At(pat, p + 1))
    [] At(pat, p) = "[" -> MatchBracketClass(pat, c, p, ep - 1)
    [] OTHER -> At(pat, p) = c
HereMatches(x, s, p, ep) == s < End(x) /\ SingleMatch(x.pat, Char(x, s), p, ep)

\* matchbalance: after the text that b opens and e closes; -1 is none, -2 the error.
MatchBalance(x) ==
  IF At(x.pat, x.p + 2) = NUL \/ At(x.pat, x.p + 3) = NUL THEN -2
  ELSE LET b == At(x.pat, x.p + 2)
           e == At(x.pat, x.p + 3)
           cont[i \in x.s..End(x)] ==   \* after the characters before i; 0 once it is closed
             IF i = x.s THEN 1
             ELSE IF i = x.s + 1 THEN cont[x.s]
             ELSE IF cont[i - 1] = 0 THEN 0
             ELSE cont[i - 1] + (IF Char(x, i - 1) = e THEN -1 ELSE IF Char(x, i - 1) = b THEN 1 ELSE 0)
           closed == {i \in x.s..End(x) : cont[i] = 0}
       IN IF Char(x, x.s) # b \/ closed = {} THEN -1 ELSE CHOOSE i \in closed : \A k \in closed : i <= k

MatchCapture(x, l) ==
  LET from == x.capture[l + 1].init
      len == x.capture[l + 1].len
  IN IF len >= 0 /\ End(x) - x.s >= len /\ SubSeq(x.src, from + 1, from + len) = SubSeq(x.src, x.s + 1, x.s + len)
     THEN x.s + len ELSE -1

RECURSIVE Match(_), MaxExpand(_, _, _, _), MinExpand(_, _)
\* max_expand: from the most repetitions down; min_expand: from none up.
MaxExpand(x, s, i, ep) ==
  Then2(Put(x, s + i, ep + 1), Match,
        LAMBDA r : IF r.kind # "null" THEN r ELSE IF i = 0 THEN Null(r)
                   ELSE MaxExpand([r EXCEPT !.p = x.p], s, i - 1, ep))
MaxMatches(x, s, ep) ==
  CHOOSE i \in 0..End(x) - s : /\ \A k \in 0..i - 1 : HereMatches(x, s + k, x.p, ep)
                               /\ ~HereMatches(x, s + i, x.p, ep)
MinExpand(x, ep) ==
  Then2(Put(x, x.s, ep + 1), Match,
        LAMBDA r : IF r.kind # "null" THEN r
                   ELSE IF HereMatches(x, x.s, x.p, ep) THEN MinExpand(Put(r, x.s + 1, x.p), ep)
                   ELSE Null(r))

\* start_capture and end_capture undo what they did when the rest does not match.
StartCapture(x, p, what) ==
  IF x.level >= LUA_MAXCAPTURES THEN Error(x)
  ELSE Then2([x EXCEPT !.p = p, !.level = @ + 1,
                       !.capture = [k \in 1..x.level + 1 |-> IF k <= x.level THEN x.capture[k]
                                                             ELSE [init |-> x.s, len |-> what]]],
             Match, LAMBDA r : IF r.kind = "null" THEN [r EXCEPT !.level = @ - 1] ELSE r)
Mut_EndCapture(x, l) == Match([x EXCEPT !.p = x.p + 1, !.capture[l + 1].len = x.s - x.capture[l + 1].init])
EndCapture(x, l) ==
  IF l = -1 THEN Error(x)
  ELSE Then2([x EXCEPT !.p = x.p + 1, !.capture[l + 1].len = x.s - x.capture[l + 1].init],
             Match, LAMBDA r : IF r.kind = "null" THEN [r EXCEPT !.capture[l + 1].len = CAP_UNFINISHED] ELSE r)

Frontier(x, ep) ==
  IF At(x.pat, x.p + 2) # "[" \/ ep = -1 THEN Error(x)
  ELSE IF \/ MatchBracketClass(x.pat, IF x.s = 0 THEN NUL ELSE Char(x, x.s - 1), x.p + 2, ep - 1)
          \/ ~MatchBracketClass(x.pat, Char(x, x.s), x.p + 2, ep - 1)
  THEN Null(x) ELSE Match(Put(x, x.s, ep))

Repeated(x, ep) ==
  IF ep = -1 THEN Error(x)
  ELSE Then(HereMatches(x, x.s, x.p, ep), LAMBDA m :
    CASE At(x.pat, ep) = "?" ->
           IF ~m THEN Match(Put(x, x.s, ep + 1))
           ELSE Then2(Put(x, x.s + 1, ep + 1), Match,
                      LAMBDA r : IF r.kind # "null" THEN r ELSE Match(Put(r, x.s, ep + 1)))
      [] At(x.pat, ep) = "*" -> MaxExpand(x, x.s, MaxMatches(x, x.s, ep), ep)
      [] At(x.pat, ep) = "+" -> IF m THEN MaxExpand(x, x.s + 1, MaxMatches(x, x.s + 1, ep), ep) ELSE Null(x)
      [] At(x.pat, ep) = "-" -> MinExpand(x, ep)
      [] OTHER -> IF m THEN Match(Put(x, x.s + 1, ep)) ELSE Null(x))

Match(x) ==
  LET c == At(x.pat, x.p)
      d == At(x.pat, x.p + 1)
      To(s) == IF s = -2 THEN Error(x) ELSE IF s = -1 THEN Null(x)
               ELSE Match(Put(x, s, IF d = "b" THEN x.p + 4 ELSE x.p + 2))
  IN CASE c = NUL -> x
       [] c = "(" -> StartCapture(x, IF d = ")" THEN x.p + 2 ELSE x.p + 1, IF d = ")" THEN CAP_POSITION ELSE CAP_UNFINISHED)
       [] c = ")" -> Then(CaptureToClose(x), LAMBDA l : EndCapture(x, l))
       [] c = "$" /\ d = NUL -> IF x.s = End(x) THEN x ELSE Null(x)
       [] c = "%" /\ d = "b" -> Then(MatchBalance(x), To)
       [] c = "%" /\ d = "f" -> Then(IF At(x.pat, x.p + 2) = "[" THEN ClassEnd(x.pat, x.p + 2) ELSE -1, LAMBDA ep : Frontier(x, ep))
       [] c = "%" /\ d \in Digit -> Then2(CheckCapture(x, d), LAMBDA l : IF l = -1 THEN -2 ELSE MatchCapture(x, l), To)
       [] OTHER -> Then(ClassEnd(x.pat, x.p), LAMBDA ep : Repeated(x, ep))

\* push_onecapture and push_captures; <<"error">> is the error.
PushOneCapture(x, i, s, e) ==
  IF i >= x.level THEN IF i = 0 THEN SubSeq(x.src, s + 1, e) ELSE <<"error">>
  ELSE LET c == x.capture[i + 1]
       IN CASE c.len = CAP_UNFINISHED -> <<"error">>
            [] c.len = CAP_POSITION -> <<"position", c.init + 1>>
            [] OTHER -> SubSeq(x.src, c.init + 1, c.init + c.len)
PushCaptures(x, whole, s, e) ==
  [i \in 1..(IF x.level = 0 /\ whole THEN 1 ELSE x.level) |-> PushOneCapture(x, i - 1, s, e)]

(* ---- find, match, gmatch, gsub ------------------------------------------- *)
Items(p) == SelectSeq(p, LAMBDA it : it[1] # "start")
TextOf(p) == FlattenSeq([i \in 1..Len(p) |->
  CASE p[i][1] = "class" -> p[i][2] \o p[i][4]
    [] p[i][1] = "start" -> <<"^">>
    [] p[i][1] = "open" -> <<"(">>
    [] p[i][1] = "close" -> <<")">>
    [] p[i][1] = "position" -> <<"(", ")">>
    [] p[i][1] = "balance" -> <<"%", "b", p[i][2], p[i][3]>>
    [] p[i][1] = "frontier" -> <<"%", "f">> \o p[i][2]
    [] p[i][1] = "back" -> <<"%", p[i][2]>>
    [] p[i][1] = "end" -> <<"$">>])
Text == IF pattern[1] = "items" THEN TextOf(pattern[2]) ELSE pattern[2]
Anchored == Text # <<>> /\ Text[1] = "^"

Prepared(s, anchored) ==
  [src |-> subject, pat |-> Append(Text, NUL), s |-> s, p |-> IF anchored THEN 1 ELSE 0,
   level |-> 0, capture |-> <<>>, kind |-> "at"]
\* The first place from s on where the pattern matches: [x, s]; x.s is where the match ends.
RECURSIVE Search(_, _, _)
Search(s, anchored, once) ==
  Then2(Prepared(s, anchored), Match,
        LAMBDA x : IF x.kind = "null" /\ s < Len(subject) /\ ~once THEN Search(s + 1, anchored, once)
                   ELSE [x |-> x, s |-> s])

PosRelat(pos, len) == IF pos < 0 THEN (IF pos + len + 1 >= 0 THEN pos + len + 1 ELSE 0) ELSE pos
StartOf(init) == LET i == PosRelat(init, Len(subject)) - 1
                 IN IF i < 0 THEN 0 ELSE IF i > Len(subject) THEN Len(subject) ELSE i
Specials == {"^", "$", "*", "+", "?", ".", "(", "[", "%", "-"}
\* lmemfind: -1 is none.
LMemFind(s, text) ==
  LET at == {i \in s..Len(subject) - Len(text) : SubSeq(subject, i + 1, i + Len(text)) = text}
  IN IF at = {} THEN -1 ELSE CHOOSE i \in at : \A k \in at : i <= k

\* What a call found: from, to (0 for none) and its captures; an error has kind "error".
Nothing == [kind |-> "nil", from |-> 0, to |-> 0, captures |-> <<>>]
Failed == [Nothing EXCEPT !.kind = "error"]
Found(from, to, captures) ==
  IF <<"error">> \in Range(captures) THEN Failed
  ELSE [kind |-> "found", from |-> from, to |-> to, captures |-> captures]
Result(r, find) ==
  CASE r.x.kind = "null" -> Nothing
    [] r.x.kind = "error" -> Failed
    [] OTHER -> Found(r.s + 1, r.x.s, PushCaptures(r.x, ~find, r.s, r.x.s))

StrFindAux(find, init, plain) ==
  /\ call.op = "none"
  /\ LET start == StartOf(init)
         at == LMemFind(start, Text)
     IN call' = [op |-> IF find THEN "find" ELSE "match", init |-> init, plain |-> plain,
                 out |-> IF find /\ (plain \/ Specials \cap Range(Text) = {})
                         THEN (IF at = -1 THEN Nothing ELSE Found(at + 1, at + Len(Text), <<>>))
                         ELSE Then(Search(start, Anchored, Anchored), LAMBDA r : Result(r, find))]
  /\ UNCHANGED <<pattern, subject>>

\* gmatch makes an iterator, each call of which is gmatch_aux.
GMatch ==
  /\ call.op = "none"
  /\ call' = [op |-> "gmatch", src |-> 0, visits |-> <<>>, over |-> FALSE]
  /\ UNCHANGED <<pattern, subject>>
NewStart(x, s) == IF x.s = s THEN x.s + 1 ELSE x.s
GMatchAux ==
  /\ call.op = "gmatch" /\ ~call.over
  /\ call' = IF call.src > Len(subject) THEN [call EXCEPT !.over = TRUE]
             ELSE Then(Search(call.src, FALSE, FALSE), LAMBDA r :
                    IF r.x.kind # "at" THEN [call EXCEPT !.over = TRUE]
                    ELSE [call EXCEPT !.src = NewStart(r.x, r.s),
                                      !.visits = Append(@, Result(r, FALSE))])
  /\ UNCHANGED <<pattern, subject>>

\* add_s and add_value: what takes the place of a match. A replacement is a text, a table
\* (of texts) or a function (what it makes of its first argument).
ReplacementText(items) == FlattenSeq([i \in 1..Len(items) |-> IF items[i][1] = "text" THEN <<items[i][2]>> ELSE <<"%", items[i][2]>>])
ToText(capture) == IF capture # <<>> /\ capture[1] = "position" THEN <<ToString(capture[2])>> ELSE capture
RECURSIVE AddS(_, _, _, _)
AddS(x, s, e, news) ==
  IF news = <<>> THEN <<>>
  ELSE IF news[1] # "%" THEN <<news[1]>> \o AddS(x, s, e, Tail(news))
  ELSE LET c == IF news[2] \notin Digit THEN <<news[2]>>
                ELSE IF news[2] = "0" THEN SubSeq(x.src, s + 1, e)
                ELSE ToText(PushOneCapture(x, Code[news[2]] - Code["1"], s, e))
       IN IF c = <<"error">> THEN <<"error">> ELSE c \o AddS(x, s, e, Tail(Tail(news)))
AddValue(x, s, e, repl) ==
  LET key == PushOneCapture(x, 0, s, e)
      value == CASE repl[1] = "string" -> <<"text", AddS(x, s, e, ReplacementText(repl[2]))>>
                 [] repl[1] = "table" -> IF key \in DOMAIN repl[2] THEN repl[2][key] ELSE <<"false">>
                 [] repl[1] = "function" -> IF repl[2] = "twice" THEN <<"text", ToText(key) \o ToText(key)>> ELSE <<repl[2]>>
  IN CASE <<"error">> \in {key} \cup (IF repl[1] = "function" THEN Range(PushCaptures(x, TRUE, s, e)) ELSE {}) /\ repl[1] # "string" -> <<"error">>
       [] value[1] = "false" -> SubSeq(x.src, s + 1, e)
       [] value[1] = "other" -> <<"error">>
       [] OTHER -> value[2]

GSub(repl, max) ==
  /\ call.op = "none"
  /\ call' = [op |-> "gsub", repl |-> repl, max |-> max, src |-> 0, n |-> 0, b |-> <<>>, state |-> "running"]
  /\ UNCHANGED <<pattern, subject>>
Stop(c) == [c EXCEPT !.b = @ \o SubSeq(subject, c.src + 1, Len(subject)), !.state = "done"]
Replaced(c, x) ==
  CASE x.kind = "error" -> [c EXCEPT !.state = "error"]
    [] x.kind = "null" -> c
    [] OTHER -> Then(AddValue(x, c.src, x.s, c.repl),
                     LAMBDA v : IF v = <<>> \/ v[Len(v)] # "error" THEN [c EXCEPT !.n = @ + 1, !.b = @ \o v]
                                ELSE [c EXCEPT !.state = "error"])
GSubLoop ==
  /\ call.op = "gsub" /\ call.state = "running"
  /\ call' = IF call.n >= call.max THEN Stop(call)
             ELSE Then2(Prepared(call.src, Anchored), Match, LAMBDA x :
                    Then(Replaced(call, x), LAMBDA c :
                      LET next == IF x.kind = "at" /\ x.s > c.src THEN [c EXCEPT !.src = x.s]
                                  ELSE [c EXCEPT !.src = @ + 1, !.b = Append(@, Char(x, c.src))]
                      IN CASE c.state = "error" -> c
                           [] c.src >= Len(subject) /\ ~(x.kind = "at" /\ x.s > c.src) -> Stop(c)
                           [] OTHER -> IF Anchored THEN Stop(next) ELSE next))
  /\ UNCHANGED <<pattern, subject>>

(* ---- parts of a text ----------------------------------------------------- *)
StrSub(i, j) ==
  LET start == PosRelat(i, Len(subject))
      end == PosRelat(j, Len(subject))
      from == IF start < 1 THEN 1 ELSE start
      to == IF end > Len(subject) THEN Len(subject) ELSE end
  IN /\ call.op = "none"
     /\ call' = [op |-> "sub", i |-> i, j |-> j, out |-> IF from <= to THEN SubSeq(subject, from, to) ELSE <<>>]
     /\ UNCHANGED <<pattern, subject>>
\* pose is compared as a size_t, but posrelat has made it not negative.
StrByte(i, j) ==
  LET start == PosRelat(i, Len(subject))
      end == PosRelat(j, Len(subject))
      from == IF start <= 0 THEN 1 ELSE start
      to == IF end > Len(subject) THEN Len(subject) ELSE end
  IN /\ call.op = "none"
     /\ call' = [op |-> "byte", i |-> i, j |-> j,
                 out |-> IF from > to THEN <<>> ELSE [k \in 1..to - from + 1 |-> Code[subject[from + k - 1]]]]
     /\ UNCHANGED <<pattern, subject>>
\* str_reverse: from the last character to the first.
StrReverse ==
  /\ call.op = "none"
  /\ call' = [op |-> "reverse", out |-> [i \in 1..Len(subject) |-> At(subject, Len(subject) - i)]]
  /\ UNCHANGED <<pattern, subject>>

Init ==
  /\ pattern \in ({"items"} \X Patterns) \cup ({"mistake"} \X Mistakes)
  /\ subject \in Subjects
  /\ call = [op |-> "none"]

Next ==
  \/ \E find, plain \in BOOLEAN, init \in Starts : StrFindAux(find, init, plain)
  \/ GMatch \/ GMatchAux
  \/ \E repl \in Replacements, max \in {1, Len(subject) + 1} : GSub(repl, max)
  \/ GSubLoop
  \/ \E i, j \in Starts : StrSub(i, j) \/ StrByte(i, j)
  \/ StrReverse

Spec == Init /\ [][Next]_vars

(* ---- what the items mean -------------------------------------------------- *)
\* From one way to match the items so far, [at, captures], the ways that go on with an
\* item, best first. A capture is [from, to]: -1 while it is open, -2 for a position.
Counts(rep, run) ==
  CASE rep = <<>> -> IF run > 0 THEN <<1>> ELSE <<>>
    [] rep = <<"?">> -> IF run > 0 THEN <<1, 0>> ELSE <<0>>
    [] rep = <<"*">> -> [i \in 1..run + 1 |-> run + 1 - i]
    [] rep = <<"+">> -> [i \in 1..run |-> run + 1 - i]
    [] rep = <<"-">> -> [i \in 1..run + 1 |-> i - 1]
CharAt(s) == IF s < Len(subject) THEN subject[s + 1] ELSE NUL
OpenOnes(w) == {i \in 1..Len(w.captures) : w.captures[i].to = -1}
Ways(w, it) ==
  CASE it[1] = "class" ->
         LET run == CHOOSE n \in 0..Len(subject) - w.at :
                      /\ \A k \in 1..n : subject[w.at + k] \in it[3]
                      /\ n < Len(subject) - w.at => subject[w.at + n + 1] \notin it[3]
             counts == Counts(it[4], run)
         IN [i \in 1..Len(counts) |-> [w EXCEPT !.at = @ + counts[i]]]
    [] it[1] = "open" -> <<[w EXCEPT !.captures = Append(@, [from |-> w.at, to |-> -1])]>>
    [] it[1] = "position" -> <<[w EXCEPT !.captures = Append(@, [from |-> w.at, to |-> -2])]>>
    [] it[1] = "close" -> LET last == CHOOSE i \in OpenOnes(w) : \A k \in OpenOnes(w) : k <= i
                          IN <<[w EXCEPT !.captures[last].to = w.at]>>
    [] it[1] = "balance" ->
         LET Opens(to) == Cardinality({k \in w.at + 1..to : subject[k] = it[2] /\ it[2] # it[3]})
             Closes(to) == Cardinality({k \in w.at + 2..to : subject[k] = it[3]})
             first == IF it[2] = it[3] THEN 1 ELSE 0
             ends == {to \in w.at + 2..Len(subject) : Closes(to) = Opens(to) + first}
         IN IF CharAt(w.at) # it[2] \/ ends = {} THEN <<>>
            ELSE <<[w EXCEPT !.at = CHOOSE to \in ends : \A k \in ends : to <= k]>>
    [] it[1] = "frontier" -> IF (w.at = 0 \/ subject[w.at] \notin it[3]) /\ (w.at = 0 => NUL \notin it[3]) /\ CharAt(w.at) \in it[3]
                             THEN <<w>> ELSE <<>>
    [] it[1] = "back" -> LET c == w.captures[it[3]]
                             len == c.to - c.from
                         IN IF c.to >= 0 /\ w.at + len <= Len(subject) /\ SubSeq(subject, w.at + 1, w.at + len) = SubSeq(subject, c.from + 1, c.to)
                            THEN <<[w EXCEPT !.at = @ + len]>> ELSE <<>>
    [] it[1] = "end" -> IF w.at = Len(subject) THEN <<w>> ELSE <<>>
    [] it[1] = "start" -> IF CharAt(w.at) = "^" THEN <<[w EXCEPT !.at = @ + 1]>> ELSE <<>>
AllWays(items, s) ==
  FoldLeft(LAMBDA ways, it : FlattenSeq([i \in 1..Len(ways) |-> Ways(ways[i], it)]), <<[at |-> s, captures |-> <<>>]>>, items)

\* The first match from s on: [s, at, captures], or s = -1.
NoMatch == [s |-> -1, at |-> 0, captures |-> <<>>]
FirstFrom(items, s, once) ==
  FoldLeft(LAMBDA m, i : IF m # NoMatch THEN m
                         ELSE Then(AllWays(items, i), LAMBDA ways : IF ways = <<>> THEN NoMatch
                                                                    ELSE [s |-> i, at |-> ways[1].at, captures |-> ways[1].captures]),
           NoMatch, [k \in 1..(IF once THEN 1 ELSE Len(subject) + 1 - s) |-> s + k - 1])
Captured(c) == IF c.to = -2 THEN <<"position", c.from + 1>> ELSE SubSeq(subject, c.from + 1, c.to)
CapturesOf(m, whole) ==
  IF m.captures = <<>> /\ whole THEN <<SubSeq(subject, m.s + 1, m.at)>>
  ELSE [i \in 1..Len(m.captures) |-> Captured(m.captures[i])]
Meant(m, whole) == IF m.s = -1 THEN Nothing ELSE [kind |-> "found", from |-> m.s + 1, to |-> m.at, captures |-> CapturesOf(m, whole)]

\* The matches one after the other, an empty one followed by the next place.
RECURSIVE Visits(_, _)
Visits(items, s) ==
  IF s > Len(subject) THEN <<>>
  ELSE Then(FirstFrom(items, s, FALSE), LAMBDA m :
         IF m = NoMatch THEN <<>> ELSE <<m>> \o Visits(items, IF m.at = m.s THEN m.s + 1 ELSE m.at))
Values(m) ==
  Then(CapturesOf(m, TRUE), LAMBDA caps :
    LET repl == call.repl[2]
        old == SubSeq(subject, m.s + 1, m.at)
        Item(it) == IF it[1] = "text" THEN <<it[2]>> ELSE IF it[3] = 0 THEN old ELSE ToText(caps[it[3]])
        made == IF call.repl[1] = "function" THEN (IF repl = "twice" THEN <<"text", ToText(caps[1]) \o ToText(caps[1])>> ELSE <<repl>>)
                ELSE IF caps[1] \in DOMAIN repl THEN repl[caps[1]] ELSE <<"false">>
    IN IF call.repl[1] = "string"
       THEN IF \E k \in 1..Len(repl) : repl[k][1] = "capture" /\ repl[k][3] > Len(caps) THEN <<"error">>
            ELSE FlattenSeq([k \in 1..Len(repl) |-> Item(repl[k])])
       ELSE CASE made[1] = "false" -> old [] made[1] = "other" -> <<"error">> [] OTHER -> made[2])
Substituted(ms) ==
  LET Before(k) == SubSeq(subject, (IF k = 1 THEN 0 ELSE ms[k - 1].at) + 1, IF k > Len(ms) THEN Len(subject) ELSE ms[k].s)
  IN Then([k \in 1..Len(ms) |-> Values(ms[k])], LAMBDA values :
       IF <<"error">> \in Range(values) THEN <<"error">>
       ELSE <<FlattenSeq([k \in 1..Len(ms) |-> Before(k) \o values[k]]) \o Before(Len(ms) + 1), Len(ms)>>)
\* The matches that the call is about.
Meaning ==
  CASE call.op \in {"find", "match"} -> <<FirstFrom(Items(pattern[2]), StartOf(call.init), Anchored)>>
    [] call.op = "gsub" /\ Anchored -> SelectSeq(<<FirstFrom(Items(pattern[2]), 0, TRUE)>>, LAMBDA m : m # NoMatch)
    [] call.op \in {"gmatch", "gsub"} -> Visits(pattern[2], 0)
    [] OTHER -> <<>>
AsMeant(ms) ==
  CASE call.op \in {"find", "match"} -> (call.op = "find" /\ call.plain) \/ call.out = Meant(ms[1], call.op = "match")
    [] call.op = "gmatch" -> /\ IsPrefix(call.visits, [i \in 1..Len(ms) |-> Meant(ms[i], TRUE)])
                             /\ call.over => Len(call.visits) = Len(ms)
    [] call.op = "gsub" -> \/ call.state = "running"
                           \/ Then(Substituted(SubSeq(ms, 1, IF Len(ms) < call.max THEN Len(ms) ELSE call.max)),
                                   LAMBDA meant : IF call.state = "error" THEN meant = <<"error">> ELSE meant = <<call.b, call.n>>)
    [] OTHER -> TRUE

\* The characters from i to j, counted from the end when negative.
Between(i, j) ==
  LET Place(k) == IF k < 0 THEN Len(subject) + 1 + k ELSE k
  IN SelectSeq([k \in 1..Len(subject) |-> <<subject[k], k>>], LAMBDA c : Place(i) <= c[2] /\ c[2] <= Place(j))

\* The library finds what a pattern's items mean: the leftmost match, and of those that
\* start there the first in the order of preference, with the captures that belong to it
\* although the matcher went back over others (match, lstrlib.c:365-440); gmatch and gsub
\* visit the same matches, one after the other and each once, also when they are empty
\* (lstrlib.c:548-571, 644-680), and what gsub returns is the subject with just those
\* replaced; sub and byte give the characters between the places, however far outside.
StringsExact ==
  /\ pattern[1] = "items" => Then(Meaning, AsMeant)
  /\ call.op = "sub" => call.out = [k \in 1..Len(Between(call.i, call.j)) |-> Between(call.i, call.j)[k][1]]
  /\ call.op = "byte" => call.out = [k \in 1..Len(Between(call.i, call.j)) |-> Code[Between(call.i, call.j)[k][1]]]
  /\ call.op = "reverse" => call.out = Reverse(subject)
==================================================================================
