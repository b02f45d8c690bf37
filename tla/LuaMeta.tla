-------------------------------- MODULE LuaMeta ---------------------------------
(***************************************************************************)
(* Lua's metatables (ltm.c, lvm.c): what indexing, storing and comparing   *)
(* do for objects that do not answer themselves, and the flags in which a  *)
(* table remembers which events it has no handler for, so that the lookup  *)
(* is saved the next time. Whatever may give it one has to forget that.    *)
(***************************************************************************)
EXTENDS Integers, FiniteSets

CONSTANTS Tables,      (* the program's tables                                *)
          Functions,   (* the handlers that are functions                     *)
          Scenes,      (* what a program uses: [userdata, plain, values]: its *)
                       (* userdata, other values, and what each key may hold  *)
          MAXTAGLOOP, NULL

VARIABLES scene,
          mem          (* [field, mt, flags]: the tables' entries, the        *)
                       (* metatable of each object, the events found absent   *)

vars == <<scene, mem>>

Objects == Tables \cup scene.userdata \cup scene.plain
Keys == DOMAIN scene.values
Values(k) == scene.values[k] \cup {NULL}

Field(m, t, k) == IF k \in Keys THEN m.field[t][k] ELSE NULL

\* fasttm, luaT_gettm: the handler for an event, unless it is known that there is none;
\* and the memory in which its absence has been noted.
FastTM(m, mt, event) == IF mt = NULL \/ event \in m.flags[mt] THEN NULL ELSE Field(m, mt, event)
Noted(m, mt, event) ==
  IF mt # NULL /\ Field(m, mt, event) = NULL THEN [m EXCEPT !.flags[mt] = @ \cup {event}] ELSE m
\* luaT_gettmbyobj
GetTMByObj(m, o, event) == IF m.mt[o] = NULL THEN NULL ELSE Field(m, m.mt[o], event)

\* luaH_set: to look for a place to store forgets what is absent.
Touched(m, t, event) == IF event = "__newindex" THEN [m EXCEPT !.flags[t] = {}] ELSE m
\* A mutant: the absence of a handler is not forgotten when one is stored.
Mut_Stored(m, t, k, v) == [m EXCEPT !.field[t][k] = v]
\* luaV_settable, lua_rawset: an entry is stored.
Stored(m, t, k, v) == [m EXCEPT !.field[t][k] = v, !.flags[t] = {}]

\* luaV_gettable and luaV_settable up to where they read or store: the object at which
\* they do, or the function they call for it, or why they fail.
RECURSIVE Loop(_, _, _, _, _)
Loop(m, t, k, event, n) ==
  LET touched == IF t \in Tables THEN Touched(m, t, event) ELSE m
      tm == IF t \in Tables THEN FastTM(touched, m.mt[t], event) ELSE GetTMByObj(m, t, event)
      noted == IF t \in Tables THEN Noted(touched, m.mt[t], event) ELSE m
  IN IF n = 0 THEN [m |-> m, out |-> <<"error", "loop">>]
     ELSE IF t \in Tables /\ Field(m, t, k) # NULL THEN [m |-> touched, out |-> <<"here", t>>]
     ELSE IF tm = NULL THEN [m |-> noted, out |-> IF t \in Tables THEN <<"here", t>> ELSE <<"error", "index">>]
     ELSE IF tm \in Functions THEN [m |-> noted, out |-> <<"call", tm, t>>]
     ELSE Loop(noted, tm, k, event, n - 1)

GetTable(m, t, k) == Loop(m, t, k, "__index", MAXTAGLOOP)
SetTable(m, t, k, v) ==
  LET l == Loop(m, t, k, "__newindex", MAXTAGLOOP)
  IN IF l.out[1] = "here" THEN [l EXCEPT !.m = Stored(l.m, l.out[2], k, v)] ELSE l

\* get_compTM: both must have the same handler.
GetCompTM(m, mt1, mt2) ==
  LET first == Noted(m, mt1, "__eq")
      tm1 == FastTM(m, mt1, "__eq")
      tm2 == FastTM(first, mt2, "__eq")
  IN IF tm1 = NULL \/ mt1 = mt2 THEN [m |-> first, tm |-> tm1]
     ELSE [m |-> Noted(first, mt2, "__eq"), tm |-> IF tm1 = tm2 THEN tm1 ELSE NULL]

\* luaV_equalval, of two tables or two userdata
EqualVal(m, a, b) ==
  IF a = b THEN [m |-> m, out |-> <<"value", TRUE>>]
  ELSE LET c == GetCompTM(m, m.mt[a], m.mt[b])
       IN [m |-> c.m, out |-> IF c.tm = NULL THEN <<"value", FALSE>> ELSE <<"call", c.tm, a, b>>]
Comparable(a, b) == {a, b} \subseteq Tables \/ {a, b} \subseteq scene.userdata

Init == /\ scene \in Scenes
        /\ mem = [field |-> [t \in Tables |-> [k \in Keys |-> NULL]],
                  mt |-> [o \in Objects |-> NULL],
                  flags |-> [t \in Tables |-> {"__index", "__newindex", "__eq"}]]

Get == \E o \in Objects, k \in Keys : mem' = GetTable(mem, o, k).m
Set == \E o \in Objects, k \in Keys : \E v \in Values(k) : mem' = SetTable(mem, o, k, v).m
Equal == \E a, b \in Objects : Comparable(a, b) /\ mem' = EqualVal(mem, a, b).m
RawSet == \E t \in Tables, k \in Keys : \E v \in Values(k) : mem' = Stored(mem, t, k, v)
SetMetatable == \E o \in Objects, mt \in Tables \cup {NULL} : mem' = [mem EXCEPT !.mt[o] = mt]
\* The collector clears an entry of a weak table: nothing is told about it.
Clear == \E t \in Tables, k \in Keys :
           mem.field[t][k] \in Functions \cup Tables /\ mem' = [mem EXCEPT !.field[t][k] = NULL]

Next == UNCHANGED scene /\ (Get \/ Set \/ Equal \/ RawSet \/ SetMetatable \/ Clear)
Spec == Init /\ [][Next]_vars

(* ---- what the manual says of events (2.8), which knows of no flags --------- *)
\* An object answers itself, or its handler does; a handler that is no function is
\* asked in its place.
Answer(o, k, event) ==
  LET h == GetTMByObj(mem, o, event)
  IN CASE o \in Tables /\ (Field(mem, o, k) # NULL \/ h = NULL) -> <<"here", o>>
       [] o \notin Tables /\ h = NULL -> <<"error", "index">>
       [] h \in Functions /\ (o \in Tables => Field(mem, o, k) = NULL) -> <<"call", h, o>>
       [] OTHER -> <<"ask", h>>
RECURSIVE Asked(_, _, _)
Asked(S, k, event) ==
  LET all == S \cup {Answer(o, k, event)[2] : o \in {x \in S : Answer(x, k, event)[1] = "ask"}}
  IN IF all = S THEN S ELSE Asked(all, k, event)
Answers(o, k, event) == {Answer(x, k, event) : x \in Asked({o}, k, event)}
Meant(o, k, event) ==
  LET last == {a \in Answers(o, k, event) : a[1] # "ask"}
  IN IF last = {} THEN <<"error", "loop">> ELSE CHOOSE a \in last : TRUE
Written(o, k, v) ==
  LET a == Meant(o, k, "__newindex") IN IF a[1] = "here" THEN [mem.field EXCEPT ![a[2]][k] = v] ELSE mem.field
MeantEqual(a, b) ==
  LET h == GetTMByObj(mem, a, "__eq")
  IN IF a = b THEN <<"value", TRUE>>
     ELSE IF h # NULL /\ h = GetTMByObj(mem, b, "__eq") THEN <<"call", h, a, b>> ELSE <<"value", FALSE>>

\* Reading, storing and comparing through metatables do as the manual says, whatever was
\* asked, stored, cleared or made a metatable before: no handler is missed for a flag, and
\* handlers that ask each other in a circle end in an error.
MetaExact ==
  /\ \A o \in Objects, k \in Keys : GetTable(mem, o, k).out = Meant(o, k, "__index")
  /\ \A o \in Objects, k \in Keys : \A v \in Values(k) :
       LET s == SetTable(mem, o, k, v) IN s.out = Meant(o, k, "__newindex") /\ s.m.field = Written(o, k, v)
  /\ \A a, b \in Objects : Comparable(a, b) => EqualVal(mem, a, b).out = MeantEqual(a, b)
================================================================================
