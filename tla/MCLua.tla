--------------------------------- MODULE MCLua ---------------------------------
(***************************************************************************)
(* The parts of Lua, checked in one run: part says which of them a         *)
(* behaviour is of, and as only that one runs, they share the variables v1 *)
(* to v7, which hold its variables in the order of its WITH list; the rest *)
(* of them stay NULL.                                                      *)
(***************************************************************************)
EXTENDS Integers, Sequences, TLC

CONSTANT NULL

VARIABLES part, v1, v2, v3, v4, v5, v6, v7

vars == <<part, v1, v2, v3, v4, v5, v6, v7>>

(* ---- the collector: programs with the objects they may use --------------- *)
Base == "L" :> "thread" @@ "G" :> "table"
None ==
  [x \in {} |-> x]
Scene(k, m, f, o, n) ==
  [kind |-> Base @@ k, mode |-> m, gc |-> f, ops |-> o, stack |-> n, heap |-> [root |-> <<"G", "L">>, ref |-> None, at |-> None, stack |-> None]]
DeadThread ==
  [root |-> <<"f", "T", "G", "L">>, ref |-> [x \in {"f", "G", "T"} |-> CASE x = "f" -> [env |-> "G", p |-> NULL, up |-> "u"] [] x = "G" -> [mt |-> NULL, key |-> NULL, val |-> "f"] [] x = "T" -> [env |-> "G"]],
   at |-> "u" :> <<"T", 1>>, stack |-> "T" :> <<NULL>>]
Pending ==
  [root |-> <<"a", "G", "L", "w">>, ref |-> "a" :> [mt |-> "a", key |-> NULL, val |-> NULL] @@ "G" :> [mt |-> NULL, key |-> NULL, val |-> "a"] @@ "w" :> [mt |-> "a", env |-> "G"],
   at |-> None, stack |-> "L" :> <<"w">>]
Keyed ==
  [Pending EXCEPT !.ref["a"].key = "w", !.ref["a"].val = "a"]
WeakTable ==
  [root |-> <<"a", "G", "L">>, ref |-> "a" :> [mt |-> "a", key |-> NULL, val |-> NULL] @@ "G" :> [mt |-> NULL, key |-> NULL, val |-> "a"],
   at |-> None, stack |-> None]

Scenes == {
  [Scene("a" :> "table" @@ "s" :> "string", {"v"}, FALSE, {"new", "val", "set"}, 2) EXCEPT !.heap = WeakTable],
  [Scene("a" :> "table" @@ "f" :> "closure", {"k"}, FALSE, {"closure", "key", "val", "set"}, 2) EXCEPT !.heap = WeakTable],
  [Scene("a" :> "table" @@ "w" :> "udata", {"k"}, TRUE, {"mt", "key", "val"}, 2) EXCEPT !.heap = Keyed],
  [Scene("a" :> "table" @@ "w" :> "udata", {"v"}, TRUE, {"val", "set"}, 2) EXCEPT !.heap = Pending],
  Scene("a" :> "table" @@ "f" :> "closure", {}, FALSE, {"new", "closure", "val", "basic"}, 2),
  Scene("T" :> "thread" @@ "f" :> "closure" @@ "u" :> "upval", {}, FALSE, {"new", "closure", "up", "val", "set", "switch"}, 1),
  [Scene("T" :> "thread" @@ "f" :> "closure" @@ "u" :> "upval" @@ "s" :> "string", {}, FALSE, {"new", "up", "val"}, 2) EXCEPT !.heap = DeadThread],
  Scene("f" :> "closure" @@ "u" :> "upval" @@ "s" :> "string", {}, FALSE, {"new", "closure", "up", "set", "val"}, 3),
  Scene("a" :> "table" @@ "w" :> "udata", {}, TRUE, {"new", "mt"}, 2),
  Scene("a" :> "table" @@ "w" :> "udata" @@ "f" :> "closure", {}, TRUE, {"new", "closure", "env"}, 2),
  Scene("p" :> "proto" @@ "f" :> "closure" @@ "s" :> "string", {}, FALSE, {"new", "closure", "k"}, 2)}

GC == INSTANCE LuaGC WITH Scenes <- Scenes, GCSWEEPMAX <- 1, scene <- v1, g <- v2

(* ---- tables: all numbers, and keys that collide ------------------------------ *)
Hashes == {[k \in {1, 2, 3, -1, -2} |-> CASE k = 1 -> 3 [] k = 2 -> 5 [] k = 3 -> 4 [] k = -1 -> 5 [] k = -2 -> 1],
           [k \in {1, 2, 3, -1, -2} |-> CASE k = 1 -> 3 [] k = 2 -> 5 [] k = 3 -> 2 [] k = -1 -> 1 [] k = -2 -> 0]}
Table == INSTANCE LuaTable WITH
  Hashes <- Hashes, Sizes <- {<<0, 0>>, <<2, 0>>, <<0, 2>>}, MaxPresent <- 4,
  hash <- v1, t <- v2, present <- v3, visit <- v4

\* Handlers of reading, storing and comparing, as functions, tables and other values.
Handled(userdata, plain, values) == [userdata |-> userdata, plain |-> plain, values |-> values]
Meta == INSTANCE LuaMeta WITH
  Tables <- {"a", "m"}, Functions <- {"f", "g"}, MAXTAGLOOP <- 3,
  Scenes <- {Handled({}, {"n"}, "k" :> {"v"} @@ "__index" :> {"f", "a", "m", "n"}),
             Handled({}, {}, "k" :> {"v"} @@ "__newindex" :> {"f", "a", "m"}),
             Handled({"w", "x"}, {}, "__eq" :> {"f", "g"})},
  scene <- v1, mem <- v2

Call == INSTANCE LuaCall WITH
  Coroutines <- {"co"}, LUAI_MAXCALLS <- 3, BASIC_CI_SIZE <- 3, LUAI_MAXCCALLS <- 3, Extra <- 1, m <- v1

Input == INSTANCE LuaInputs

VM == INSTANCE LuaVM WITH
  MAXINDEXRK <- 1, MAXSTACK <- 30, LFIELDS_PER_FLUSH <- 2, LUAI_MAXVARS <- 8, LUAI_MAXUPVALUES <- 3, MAXLEVELS <- 12,
  Programs <- Input!Programs, Mistakes <- Input!BadPrograms, program <- v1, vm <- v2

\* Functions with nested ones, of the same source and of another, and constants of each type.
Function(nups, code, k, p) ==
  [source |-> <<64, 120>>, linedefined |-> 1, lastlinedefined |-> 9, nups |-> nups, numparams |-> 1, is_vararg |-> 3, maxstacksize |-> 2,
   code |-> code, k |-> k, p |-> p, lineinfo |-> [i \in 1..Len(code) |-> i],
   locvars |-> <<[varname |-> <<97>>, startpc |-> 0, endpc |-> 2]>>, upvalues |-> [i \in 1..nups |-> <<98 + i>>]]
Constant(type, value) == [type |-> type, value |-> value]
Leaf == Function(1, <<5, 30>>, <<[type |-> "nil"], Constant("boolean", 1), Constant("number", -2)>>, <<>>)
Chunks == INSTANCE LuaDump WITH
  Functions <- {Leaf, Function(0, <<30>>, <<Constant("string", <<>>), Constant("string", <<98, 0>>)>>, <<Leaf, [Leaf EXCEPT !.source = <<61>>]>>),
                Function(0, <<30>>, <<>>, <<Function(0, <<30>>, <<>>, <<Leaf>>), Leaf>>)},
  Texts <- {<<>>, <<8>>, <<8, 10, 8>>, <<35>>, <<35, 8, 10>>, <<35, 8, 10, 8>>},
  Rooms <- {0, 20, 40, 1000}, BufferSizes <- {1, 5}, Depths <- {0, 1}, LUAI_MAXCCALLS <- 3, MAXSTACK <- 250,
  function <- v1, chunk <- v2, got <- v3

Scanner == INSTANCE LuaScanner WITH
  Lexemes <- Input!Lexemes, Separators <- Input!Separators, Mistakes <- Input!BadTokens, Reserved <- Input!Reserved,
  Alpha <- Input!Alpha, Digit <- Input!Digit, Points <- {".", ","},
  source <- v1, point <- v2, ls <- v3, taken <- v4

Strings == INSTANCE LuaStrings WITH
  Patterns <- Input!Patterns, Mistakes <- Input!BadPatterns, Subjects <- Input!Subjects,
  Starts <- {0, 1, 3, 9, -1, -2, -9}, Replacements <- Input!Replacements, LUA_MAXCAPTURES <- 2,
  pattern <- v1, subject <- v2, call <- v3

\* Lists up to five numbers with every order of three of them; some longer ones and ones
\* with holes; and all the relations of two numbers and nil, of which most are no orders.
Values == 1..3
SeqsOf(S, n) == UNION {[1..k -> S] : k \in 0..n}
WeakOrders == {{p \in Values \X Values : rank[p[1]] < rank[p[2]]} : rank \in [Values -> Values]}
Relations == {{p \in (0..2) \X (0..2) : r[p]} : r \in [(0..2) \X (0..2) -> BOOLEAN]}
Sorting == INSTANCE LuaTableLib WITH
  Lists <- SeqsOf(Values, 4) \cup {<<3, 1, 2, 1, 3>>, <<1, 2, 3, 1, 2, 3>>, <<2, 2, 1, 3, 1, 3, 2>>, <<3, 3, 2, 2, 1, 1, 1>>, <<1, 0, 2>>, <<0, 1>>, <<1, 2, 0, 0, 3>>},
  Orders <- WeakOrders, Positions <- {-1, 0, 1, 2, 3, 4, 6}, Values <- Values,
  list <- v1, order <- v2, call <- v3
Unordered == INSTANCE LuaTableLib WITH
  Lists <- SeqsOf({1, 2}, 4) \cup {<<1, 2, 1, 2, 1>>, <<2, 2, 1, 1, 2>>}, Orders <- Relations, Positions <- {}, Values <- Values,
  list <- v1, order <- v2, call <- v3

Api == INSTANCE LuaApi WITH
  Uses <- {"stack", "refs", "buffer"}, Things <- {<<"v", "x">>}, LUA_MINSTACK <- 8, LUAL_BUFFERSIZE <- 2,
  LUAI_MAXCSTACK <- 10, MaxDepth <- 3, MaxText <- 16, MaxRefs <- 4,
  use <- v1, th <- v2, t <- v3, b <- v4, view <- v5, live <- v6, text <- v7

Steps(asks, names) == asks \X names
Value == <<"return", <<"value">>>>
NoValue == <<"return", NULL>>
Bodies == {<<NoValue>>, <<Value>>, <<<<"error">>>>}
          \cup {<<<<"module">>, ask, r>> : ask \in Steps({"require", "try"}, {"a"}), r \in {NoValue, Value}}
          \cup {<<ask, last, NoValue>> : ask \in Steps({"require", "try"}, {"b", "c"}), last \in {<<"require", "c">>, <<"module">>, <<"error">>}}
Require == INSTANCE LuaRequire WITH
  Names <- {"a", "b", "c"}, Bodies <- Bodies, MaxCalls <- 2, nil <- NULL,
  body <- v1, loaded <- v2, frames <- v3, calls <- v4, runs <- v5, got <- v6

Rest2 == v2 = NULL
Rest3 == v3 = NULL
Rest4 == v4 = NULL
Rest7 == v5 = NULL /\ v6 = NULL /\ v7 = NULL

Init == \/ part = "gc" /\ GC!Init /\ Rest3 /\ Rest4 /\ Rest7
        \/ part = "table" /\ Table!Init /\ Rest7
        \/ part = "meta" /\ Meta!Init /\ Rest3 /\ Rest4 /\ Rest7
        \/ part = "chunks" /\ Chunks!Init /\ Rest4 /\ Rest7
        \/ part = "scanner" /\ Scanner!Init /\ Rest7
        \/ part = "call" /\ Call!Init /\ Rest2 /\ Rest3 /\ Rest4 /\ Rest7
        \/ part = "vm" /\ VM!Init /\ Rest3 /\ Rest4 /\ Rest7
        \/ part = "strings" /\ Strings!Init /\ Rest4 /\ Rest7
        \/ part = "sorting" /\ Sorting!Init /\ Rest4 /\ Rest7
        \/ part = "unordered" /\ Unordered!Init /\ Rest4 /\ Rest7
        \/ part = "api" /\ Api!Init
        \/ part = "require" /\ Require!Init /\ v7 = NULL

Next == /\ UNCHANGED part
        /\ \/ part = "gc" /\ GC!Next /\ UNCHANGED <<v3, v4, v5, v6, v7>>
           \/ part = "table" /\ Table!Next /\ UNCHANGED <<v5, v6, v7>>
           \/ part = "meta" /\ Meta!Next /\ UNCHANGED <<v3, v4, v5, v6, v7>>
           \/ part = "chunks" /\ Chunks!Next /\ UNCHANGED <<v4, v5, v6, v7>>
           \/ part = "scanner" /\ Scanner!Next /\ UNCHANGED <<v5, v6, v7>>
           \/ part = "call" /\ Call!Next /\ UNCHANGED <<v2, v3, v4, v5, v6, v7>>
           \/ part = "vm" /\ VM!Next /\ UNCHANGED <<v3, v4, v5, v6, v7>>
           \/ part = "strings" /\ Strings!Next /\ UNCHANGED <<v4, v5, v6, v7>>
           \/ part = "sorting" /\ Sorting!Next /\ UNCHANGED <<v4, v5, v6, v7>>
           \/ part = "unordered" /\ (Unordered!Sort \/ Unordered!AuxSort) /\ UNCHANGED <<v4, v5, v6, v7>>
           \/ part = "api" /\ Api!Next
           \/ part = "require" /\ Require!Next /\ UNCHANGED v7

Spec == Init /\ [][Next]_vars

GCCollects == part = "gc" => GC!GCCollects

\* A table holds what was stored and only that, wherever its keys moved, and a traversal
\* during which entries are cleared visits every other key once. Metatables are asked as
\* the manual says, whatever a table remembers of the handlers it has not.
TablesExact == /\ part = "table" => Table!TablesExact
               /\ part = "meta" => Meta!MetaExact

\* Calls, errors, and coroutines leave the stacks of calls as the caller had them.
CallsRestored == part = "call" => Call!CallsRestored

\* The code that is generated for a program does what the program says, and passes the
\* check of bytecode; what is no program is refused. The tokens it is made of are those of
\* its text, on their lines, and what is loaded of a precompiled chunk is what was dumped.
CodeComputes == /\ part = "vm" => VM!CodeComputes
                /\ part = "scanner" => Scanner!TokensExact
                /\ part = "chunks" => Chunks!ChunksWhole

\* Patterns match what their items mean, replacements replace just the matches; lists
\* keep their elements, and are sorted by any order there is.
LibrariesAgree == /\ part = "strings" => Strings!StringsExact
                  /\ part = "sorting" => Sorting!ListsKept
                  /\ part = "unordered" => Unordered!ListsKept

\* The stack of C code is what it was told to be, references in use are distinct and
\* buffers whole within their slots; and a module is run once.
ApiKept == /\ part = "api" => Api!ApiKept
           /\ part = "require" => Require!RequireKept
================================================================================
