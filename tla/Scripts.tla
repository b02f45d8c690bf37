-------------------------------- MODULE Scripts --------------------------------
(***************************************************************************)
(* ElsaCBaseLua: scripts set one after the other in one Lua machine, their *)
(* require, which loads a module again when the script's version is new;   *)
(* and ElsaCBaseLuaConfig, which keeps the names of the tables it opened   *)
(* beside the Lua stack they stand on. lua_pop(L, -1), meant to pop one    *)
(* value, empties that stack.                                              *)
(***************************************************************************)
EXTENDS Integers, Sequences, SequencesExt, FiniteSets

CONSTANTS Modules,
          Mains,      (* the modules a script may require, in order          *)
          Requires,   (* the modules a module requires, in order             *)
          NULL, Sentinel,
          Names,      (* of global tables and of fields                      *)
          Tables,     (* the tables there are: the names that lead to each   *)
          MaxVersion, MaxStack, MaxDepth   (* bounds; MaxDepth is Lua's own  *)

VARIABLES vm,        (* whether m_pLua is not null                           *)
          version,   (* _script_version                                     *)
          loaded,    (* package.loaded: NULL, Sentinel or a value            *)
          setAt,     (* _script_version_set                                 *)
          running,   (* the script and the modules being loaded, innermost last *)
          runs,      (* how often each module ran at this version            *)
          failed,    (* whether one failed at this version                   *)
          stack,     (* the Lua stack                                       *)
          names,     (* m_vecTableStacks                                     *)
          sound      (* whether the stack still is what names says           *)

requireVars == <<loaded, setAt, runs, failed>>
configVars == <<names, sound>>
vars == <<vm, version, running, requireVars, stack, configVars>>

Main == "main"
Frame(m, todo) == [module |-> m, todo |-> todo]
Table(path) == [kind |-> "table", path |-> path]
Function == [kind |-> "function"]
Key == [kind |-> "key"]
Named(name, kind) == [name |-> name, kind |-> kind]
DropLast(s, n) == SubSeq(s, 1, Len(s) - n)

Init == /\ vm = FALSE /\ version = 0
        /\ loaded = [m \in Modules |-> NULL] /\ setAt = [m \in Modules |-> 0]
        /\ running = <<>> /\ runs = [m \in Modules |-> 0] /\ failed = FALSE
        /\ stack = <<>> /\ names = <<>> /\ sound = TRUE

(* ---- scripts ---------------------------------------------------------- *)
\* SetScript, SetBinScript and ResetBinScript: the machine is made at the first, and
\* its version counts the scripts. Compiling one leaves its function on the stack.
SetScript(todo, compile) ==
  /\ running = <<>> /\ version < MaxVersion /\ Len(stack) < MaxStack
  /\ vm' = TRUE /\ version' = version + 1
  /\ running' = <<Frame(Main, todo)>>
  /\ stack' = IF compile THEN Append(stack, Function) ELSE stack
  /\ sound' = (sound /\ (compile => names = <<>>))
  /\ runs' = [m \in Modules |-> 0] /\ failed' = FALSE
  /\ UNCHANGED <<loaded, setAt, names>>

\* SetScript(nullptr) closes the machine; the names stay.
CloseScript == /\ running = <<>> /\ vm
               /\ vm' = FALSE /\ version' = 0 /\ stack' = <<>>
               /\ loaded' = [m \in Modules |-> NULL] /\ setAt' = [m \in Modules |-> 0]
               /\ runs' = [m \in Modules |-> 0] /\ failed' = FALSE
               /\ sound' = (names = <<>>)
               /\ UNCHANGED <<running, names>>

\* LcCheck after an error: of a script that does not compile, of a module, of Lua.
Fail == /\ running' = <<>> /\ failed' = TRUE
        /\ stack' = <<>> /\ sound' = (sound /\ names = <<>>)
        /\ UNCHANGED <<vm, version, loaded, setAt, runs, names>>
Raise == running # <<>> /\ Fail

Frames == Front(running)
Required == Head(Last(running).todo)
Goes == running' = Append(Frames, [Last(running) EXCEPT !.todo = Tail(@)])

\* What the registry says of m being loaded at this version.
Current(m) == loaded[m] # NULL /\ setAt[m] = version

\* LuaMyRequires returns what is loaded, or fails when that is still the sentinel ...
RequireLoaded == /\ running # <<>> /\ Last(running).todo # <<>>
                 /\ Current(Required)
                 /\ IF loaded[Required] = Sentinel THEN Fail
                    ELSE Goes /\ UNCHANGED <<vm, version, requireVars, stack, configVars>>

\* ... or runs the module, until there is no room for a further call.
Require == /\ running # <<>> /\ Last(running).todo # <<>>
           /\ ~Current(Required)
           /\ IF Len(running) > MaxDepth THEN Fail
              ELSE /\ loaded' = [loaded EXCEPT ![Required] = Sentinel]
                   /\ running' = Append(running, Frame(Required, Requires[Required]))
                   /\ runs' = [runs EXCEPT ![Required] = @ + 1]
                   /\ UNCHANGED <<vm, version, setAt, failed, stack, configVars>>

Mut_Recorded(m) == setAt' = setAt
Recorded(m) == setAt' = [setAt EXCEPT ![m] = version]

\* A module returns, with a value or with none: true then takes the sentinel's place.
Return == /\ Len(running) > 1 /\ Last(running).todo = <<>>
          /\ LET m == Last(running).module
                 below == Last(Frames)
             IN /\ loaded' = [loaded EXCEPT ![m] = "value"]
                /\ Recorded(m)
                /\ running' = Append(Front(Frames), [below EXCEPT !.todo = Tail(@)])
          /\ UNCHANGED <<vm, version, runs, failed, stack, configVars>>

Finish == /\ Len(running) = 1 /\ Last(running).todo = <<>>
          /\ running' = <<>>
          /\ UNCHANGED <<vm, version, requireVars, stack, configVars>>

(* ---- the configuration ------------------------------------------------ *)
Ready == vm /\ running = <<>> /\ sound /\ Len(stack) < MaxStack
OnTable == stack # <<>> /\ Last(stack).kind = "table"
Configured == UNCHANGED <<vm, version, running, requireVars>>

\* The table is pushed and its name kept, or the stack emptied.
Open(path, name, kind) ==
  /\ IF path \in Tables
     THEN stack' = Append(stack, Table(path)) /\ names' = Append(names, Named(name, kind)) /\ sound' = TRUE
     ELSE stack' = <<>> /\ names' = names /\ sound' = (names = <<>>)
  /\ Configured

OpenGlobalTable(n) == Ready /\ Open(<<n>>, n, "field")
OpenFieldTable(n) == Ready /\ OnTable /\ Open(Append(Last(stack).path, n), n, "field")

\* Pops only the element it found not to be a table.
GetFieldIndexTable(n) == /\ Ready /\ OnTable
                         /\ IF Append(Last(stack).path, n) \in Tables
                            THEN Open(Append(Last(stack).path, n), n, "field")
                            ELSE UNCHANGED vars

\* The first key and value of a table, the value one of its tables or not a table.
EnumTableFirst(n) ==
  /\ Ready /\ OnTable
  /\ LET path == Append(Last(stack).path, n)
     IN stack' = stack \o <<Key, IF path \in Tables THEN Table(path) ELSE [kind |-> "value"]>>
  /\ names' = Append(names, Named(n, "enum"))
  /\ UNCHANGED sound /\ Configured

\* Empties the stack before it looks for the next key there.
EnumTableNext == /\ Ready /\ names # <<>> /\ Last(names).kind = "enum"
                 /\ stack' = <<>> /\ sound' = FALSE
                 /\ UNCHANGED names /\ Configured

EndTableEnum == /\ Ready /\ names # <<>> /\ Last(names).kind = "enum"
                /\ stack' = DropLast(stack, 2) /\ names' = Front(names)
                /\ UNCHANGED sound /\ Configured

CloseTable == /\ Ready /\ names # <<>> /\ Last(names).kind = "field"
              /\ stack' = DropLast(stack, 1) /\ names' = Front(names)
              /\ UNCHANGED sound /\ Configured

\* Pops what it looked at, and all the rest. The GetField functions pop only that.
FieldTableExists == /\ Ready /\ OnTable
                    /\ stack' = <<>> /\ sound' = FALSE
                    /\ UNCHANGED names /\ Configured

\* A new object.
NewConfig == /\ running = <<>>
             /\ names' = <<>> /\ stack' = <<>> /\ sound' = TRUE
             /\ Configured

Next == \/ \E todo \in Mains, compile \in BOOLEAN : SetScript(todo, compile)
        \/ CloseScript \/ Raise \/ RequireLoaded \/ Require \/ Return \/ Finish
        \/ \E n \in Names : \/ OpenGlobalTable(n) \/ OpenFieldTable(n)
                            \/ GetFieldIndexTable(n) \/ EnumTableFirst(n)
        \/ EnumTableNext \/ EndTableEnum \/ CloseTable \/ FieldTableExists \/ NewConfig

Spec == Init /\ [][Next]_vars

\* While modules do not require each other in a circle, each runs once at a version
\* however often it is required, and before whoever required it goes on; no require
\* returns the sentinel; and a version whose script ended has it nowhere it was required.
LoadedOnce ==
  /\ ~failed => \A m \in Modules : runs[m] <= 1
  /\ ~failed /\ running = <<>> => \A m \in Modules : runs[m] = 1 => Current(m) /\ loaded[m] # Sentinel
  /\ \A i \in 2..Len(running) : LET m == running[i].module IN
       \A d \in 1 .. Len(Requires[m]) - Len(running[i].todo) : Current(Requires[m][d])

\* Until a table was not there, the stack holds for each name the table it was opened
\* with, or the key and value of an enumeration, in that order, above what compiled
\* scripts left; so the names are the path of the table a field is read from.
PathOnStack ==
  sound => LET kinds == FoldLeft(LAMBDA s, n : s \o IF n.kind = "enum" THEN <<"key", "any">> ELSE <<"table">>,
                                 <<>>, names)
               own == SelectSeq(stack, LAMBDA e : e # Function)
           IN /\ Len(own) = Len(kinds)
              /\ \A i \in DOMAIN own : kinds[i] \in {own[i].kind, "any"}
              /\ names # <<>> /\ Last(stack).kind = "table" =>
                   IsSuffix([i \in DOMAIN Last(stack).path |-> Last(stack).path[i]],
                            [i \in DOMAIN names |-> names[i].name])
================================================================================
