-------------------------------- MODULE LuaDump ---------------------------------
(***************************************************************************)
(* Precompiled chunks (ldump.c, lundump.c): a function is written as blocks*)
(* to a writer that may fail, and read back from the pieces a reader gives *)
(* (lzio.c), which end anywhere. A number, a character and an instruction  *)
(* are one item each, whatever their width; strings are sequences.         *)
(***************************************************************************)
EXTENDS Integers, Sequences, SequencesExt, FiniteSetsExt, LuaCommon

CONSTANTS Functions,   (* the functions that are dumped                       *)
          Texts,       (* files that are no precompiled chunks                *)
          Rooms,       (* how many items a writer takes before it fails       *)
          BufferSizes, (* LUAL_BUFFERSIZE: what is read of a file at once     *)
          Depths,      (* nested C calls at the time of loading               *)
          LUAI_MAXCCALLS, MAXSTACK, NULL

VARIABLES function, chunk, (* [kind, items, strip]: what is loaded, or NULL   *)
          got              (* how it went                                     *)

vars == <<function, chunk, got>>

SIGNATURE == 27
NEWLINE == 10
HASH == 35
OP_RETURN == 30
Unknown == <<61, 63>>   \* "=?"

\* luaU_header: the signature, and the version and the sizes of this build.
Header == <<SIGNATURE, 76, 117, 97, 81, 0, 1, 4, 4, 4, 8, 0>>

(* ---- ldump.c: the blocks of a function ------------------------------------- *)
DumpString(s) == IF s = NULL THEN <<<<0>>>> ELSE <<<<Len(s) + 1>>, Append(s, 0)>>
DumpVector(v) == <<<<Len(v)>>, v>>
Concatenated(v, Op(_)) == FlattenSeq([i \in 1..Len(v) |-> Op(v[i])])
DumpConstant(c) ==
  CASE c.type = "nil" -> <<<<0>>>>
    [] c.type = "boolean" -> <<<<1>>, <<c.value>>>>
    [] c.type = "number" -> <<<<3>>, <<c.value>>>>
    [] c.type = "string" -> <<<<4>>>> \o DumpString(c.value)
Kept(v, strip) == IF strip THEN <<>> ELSE v
DumpDebug(f, strip) ==
  DumpVector(Kept(f.lineinfo, strip))
  \o <<<<Len(Kept(f.locvars, strip))>>>>
  \o Concatenated(Kept(f.locvars, strip), LAMBDA l : DumpString(l.varname) \o <<<<l.startpc>>, <<l.endpc>>>>)
  \o <<<<Len(Kept(f.upvalues, strip))>>>> \o Concatenated(Kept(f.upvalues, strip), DumpString)
RECURSIVE DumpFunction(_, _, _)
DumpFunction(f, p, strip) ==
  DumpString(IF f.source = p \/ strip THEN NULL ELSE f.source)
  \o <<<<f.linedefined>>, <<f.lastlinedefined>>, <<f.nups>>, <<f.numparams>>, <<f.is_vararg>>, <<f.maxstacksize>>>>
  \o DumpVector(f.code)
  \o <<<<Len(f.k)>>>> \o Concatenated(f.k, DumpConstant)
  \o <<<<Len(f.p)>>>> \o Concatenated(f.p, LAMBDA g : DumpFunction(g, f.source, strip))
  \o DumpDebug(f, strip)
\* DumpBlock: after the writer failed nothing more is written.
DumpBlock(d, b) ==
  IF d.status # 0 THEN d
  ELSE IF Len(d.items) + Len(b) > d.room THEN [d EXCEPT !.status = 1] ELSE [d EXCEPT !.items = @ \o b]
DumpChunk(f, strip, room) ==
  FoldLeft(DumpBlock, [items |-> <<>>, status |-> 0, room |-> room], <<Header>> \o DumpFunction(f, NULL, strip))

(* ---- lzio.c: the stream z of pieces, of which p is what is left of one ------ *)
\* luaZ_fill, luaZ_lookahead: an empty piece is the end.
Fill(z) == IF z.p = <<>> /\ z.pieces # <<>> THEN [p |-> Head(z.pieces), pieces |-> Tail(z.pieces)] ELSE z
AtEOZ(z) == Fill(z).p = <<>>
\* luaZ_read: n items; fewer when the stream ends.
RECURSIVE Read(_, _)
Read(z, n) ==
  IF n = 0 THEN [z |-> z, v |-> <<>>] ELSE IF AtEOZ(z) THEN [z |-> Fill(z), v |-> <<>>]
  ELSE LET full == Fill(z)
           m == Min({n, Len(full.p)})
           rest == Read([full EXCEPT !.p = SubSeq(@, m + 1, Len(@))], n - m)
       IN [rest EXCEPT !.v = SubSeq(full.p, 1, m) \o @]

(* ---- lundump.c: s has the stream, the value v that was read last, the function f *)
(* that is filled, the nested C calls, and the error that ended it, or NULL.        *)
Error(s, why) == [s EXCEPT !.err = why, !.v = NULL]
Bind(s, Op(_)) == IF s.err = NULL THEN Op(s) ELSE s
LoadBlock(s, n) ==
  LET r == Read(s.z, n) IN IF Len(r.v) < n THEN Error(s, "unexpected end") ELSE [s EXCEPT !.z = r.z, !.v = r.v]
LoadItem(s) == Bind(LoadBlock(s, 1), LAMBDA x : [x EXCEPT !.v = x.v[1]])
LoadInt(s) == Bind(LoadItem(s), LAMBDA x : IF x.v < 0 THEN Error(x, "bad integer") ELSE x)
LoadString(s) ==
  Bind(LoadItem(s), LAMBDA x : IF x.v = 0 THEN [x EXCEPT !.v = NULL]
                               ELSE Bind(LoadBlock(x, x.v), LAMBDA y : [y EXCEPT !.v = SubSeq(@, 1, x.v - 1)]))
LoadVector(s) == Bind(LoadInt(s), LAMBDA x : LoadBlock(x, x.v))
Many(s, Op(_)) ==
  LET More(x, i) == Bind(x, LAMBDA y : Bind(Op(y), LAMBDA w : [w EXCEPT !.v = Append(y.v, w.v)]))
  IN Bind(LoadInt(s), LAMBDA x : Each([x EXCEPT !.v = <<>>], [i \in 1..x.v |-> i], More))
LoadConstant(s) ==
  Bind(LoadItem(s), LAMBDA x :
    CASE x.v = 0 -> [x EXCEPT !.v = [type |-> "nil"]]
      [] x.v = 1 -> Bind(LoadItem(x), LAMBDA y : [y EXCEPT !.v = [type |-> "boolean", value |-> IF y.v # 0 THEN 1 ELSE 0]])
      [] x.v = 3 -> Bind(LoadItem(x), LAMBDA y : [y EXCEPT !.v = [type |-> "number", value |-> y.v]])
      [] x.v = 4 -> Bind(LoadString(x), LAMBDA y : [y EXCEPT !.v = [type |-> "string", value |-> y.v]])
      [] OTHER -> Error(x, "bad constant"))
LoadLocVar(s) ==
  Bind(LoadString(s), LAMBDA x : Bind(LoadInt(x), LAMBDA y : Bind(LoadInt(y), LAMBDA w :
    [w EXCEPT !.v = [varname |-> x.v, startpc |-> y.v, endpc |-> w.v]])))

\* luaG_checkcode: of what it checks, that the sizes agree (precheck).
CheckCode(f) == /\ f.maxstacksize <= MAXSTACK /\ f.numparams + (f.is_vararg % 2) <= f.maxstacksize
                /\ Len(f.upvalues) <= f.nups
                /\ Len(f.lineinfo) \in {0, Len(f.code)}
                /\ f.code # <<>> /\ Last(f.code) = OP_RETURN

Into(s, name, Op(_)) == Bind(s, LAMBDA x : Bind(Op(x), LAMBDA y : [y EXCEPT !.f = @ @@ [n \in {name} |-> y.v]]))
Inherited(s, p) == Bind(s, LAMBDA x : [x EXCEPT !.v = IF x.v = NULL THEN p ELSE x.v])
Enter(s) == IF s.nCcalls + 1 > LUAI_MAXCCALLS THEN Error(s, "code too deep") ELSE [s EXCEPT !.nCcalls = @ + 1, !.f = <<>>]
\* A mutant: a nested function that is loaded counts as nested for what follows it.
Mut_Leave(s, outer) == [s EXCEPT !.v = s.f, !.f = outer]
Leave(s, outer) == [s EXCEPT !.nCcalls = @ - 1, !.v = s.f, !.f = outer]
\* LoadFunction: p is the source of a function that has none of its own.
RECURSIVE LoadFunction(_, _)
LoadFunction(s, p) ==
  LET ints == <<"linedefined", "lastlinedefined">>
      bytes == <<"nups", "numparams", "is_vararg", "maxstacksize">>
      named == Into(Bind(s, Enter), "source", LAMBDA x : Inherited(LoadString(x), p))
      placed == Each(named, ints, LAMBDA x, name : Into(x, name, LoadInt))
      sized == Each(placed, bytes, LAMBDA x, name : Into(x, name, LoadItem))
      coded == Into(Into(sized, "code", LoadVector), "k", LAMBDA x : Many(x, LoadConstant))
      nested == Into(coded, "p", LAMBDA x : Many(x, LAMBDA y : LoadFunction(y, x.f.source)))
      debug == Into(Into(nested, "lineinfo", LoadVector), "locvars", LAMBDA x : Many(x, LoadLocVar))
      whole == Into(debug, "upvalues", LAMBDA x : Many(x, LoadString))
  IN Bind(whole, LAMBDA x : IF CheckCode(x.f) THEN Leave(x, s.f) ELSE Error(x, "bad code"))
LoadHeader(s) == Bind(LoadBlock(s, Len(Header)), LAMBDA x : IF x.v # Header THEN Error(x, "bad header") ELSE x)
Undump(z, c) == LET s == [z |-> z, v |-> NULL, f |-> <<>>, nCcalls |-> c, err |-> NULL]
                IN Bind(LoadHeader(s), LAMBDA x : LoadFunction(x, Unknown))

(* ---- lauxlib.c: a file is given piece by piece ------------------------------ *)
From(q, n) == SubSeq(q, n, Len(q))
Before(q, c) == SelectInSeq(q, LAMBDA x : x = c)
\* getF; the buffer holds n items.
Pieces(q, n) == [i \in 1..((Len(q) + n - 1) \div n) |-> SubSeq(q, (i - 1) * n + 1, Min({i * n, Len(q)}))]
\* luaL_loadfile: a first line that begins with # is skipped, and for a text an empty line
\* takes its place. It has a line end, or the file ends with it.
Skipped(q) == IF q = <<>> \/ q[1] # HASH THEN q
              ELSE IF Before(q, NEWLINE) = 0 THEN <<>> ELSE From(q, Before(q, NEWLINE) + 1)
IsBinary(q) == Skipped(q) # <<>> /\ Skipped(q)[1] = SIGNATURE
Opened(q, n) ==
  LET extra == IF Skipped(q) # q THEN <<<<NEWLINE>>>> ELSE <<>>
  IN [p |-> <<>>, pieces |-> IF IsBinary(q) THEN Pieces(From(q, Before(q, SIGNATURE)), n) ELSE extra \o Pieces(Skipped(q), n)]
\* f_parser: the first character tells which of the two it is.
LoadFile(q, n, c) ==
  LET z == Fill(Opened(q, n))
  IN IF ~AtEOZ(z) /\ z.p[1] = SIGNATURE THEN Undump(z, c)
     ELSE [v |-> FlattenSeq(<<z.p>> \o z.pieces), err |-> "text"]

Init == function \in Functions /\ chunk = NULL /\ got = NULL

Dump == /\ chunk = NULL
        /\ \E strip \in BOOLEAN, room \in Rooms :
             LET d == DumpChunk(function, strip, room)
             IN chunk' = [kind |-> IF d.status = 0 THEN "whole" ELSE "cut", items |-> d.items, strip |-> strip]
        /\ UNCHANGED <<function, got>>
\* What is left of a file, one of another version or of a machine with other sizes,
\* and one that is a program's text.
Cut == /\ chunk # NULL /\ chunk.kind = "whole" /\ got = NULL
       /\ \E n \in 1..(Len(chunk.items) - 1) : chunk' = [chunk EXCEPT !.kind = "cut", !.items = SubSeq(@, 1, n)]
       /\ UNCHANGED <<function, got>>
Foreign == /\ chunk # NULL /\ chunk.kind = "whole" /\ got = NULL
           /\ \E i \in 5..Len(Header) : chunk' = [chunk EXCEPT !.kind = "foreign", !.items[i] = @ + 1]
           /\ UNCHANGED <<function, got>>
Write == /\ chunk = NULL
         /\ \E t \in Texts : chunk' = [kind |-> "text", items |-> t, strip |-> FALSE]
         /\ UNCHANGED <<function, got>>
Load == /\ chunk # NULL /\ got = NULL
        /\ \E n \in BufferSizes, c \in Depths, line \in {<<>>, <<HASH, 33, NEWLINE>>} :
             got' = [result |-> LoadFile(line \o chunk.items, n, c), file |-> line \o chunk.items, nCcalls |-> c]
        /\ UNCHANGED <<function, chunk>>
Next == Dump \/ Cut \/ Foreign \/ Write \/ Load
Spec == Init /\ [][Next]_vars

(* ---- what a chunk is for ------------------------------------------------------ *)
RECURSIVE KeptOf(_, _)
KeptOf(f, strip) ==
  [f EXCEPT !.source = IF strip THEN Unknown ELSE @, !.p = [i \in 1..Len(f.p) |-> KeptOf(f.p[i], strip)],
            !.lineinfo = Kept(@, strip), !.locvars = Kept(@, strip), !.upvalues = Kept(@, strip)]
RECURSIVE Depth(_)
Depth(f) == 1 + Max({0} \cup {Depth(f.p[i]) : i \in 1..Len(f.p)})
\* A text without its first line when that begins with #, its lines numbered as they were.
TextOf(q) == IF q = <<>> \/ q[1] # HASH THEN q
             ELSE IF NEWLINE \in {q[i] : i \in 1..Len(q)} THEN From(q, Before(q, NEWLINE)) ELSE <<NEWLINE>>

\* A function that was dumped is loaded again as it was, but for what was stripped, in
\* whatever pieces and after whatever first line; and nothing is loaded of a part of it, of
\* a dump of another build, or of one that is nested too deep. A text reaches the parser
\* whole.
ChunksWhole ==
  got # NULL =>
    LET r == got.result
        deep == Depth(function) + got.nCcalls > LUAI_MAXCCALLS
    IN CASE chunk.kind = "text" \/ chunk.items = <<>> -> r.err = "text" /\ r.v = TextOf(got.file)
         [] chunk.kind = "foreign" -> r.err = "bad header"
         [] chunk.kind = "cut" -> r.err \in {"unexpected end"} \cup (IF deep THEN {"code too deep"} ELSE {})
         [] chunk.kind = "whole" /\ deep -> r.err = "code too deep"
         [] OTHER -> r.err = NULL /\ r.v = KeptOf(function, chunk.strip) /\ r.nCcalls = got.nCcalls /\ AtEOZ(r.z)
================================================================================
