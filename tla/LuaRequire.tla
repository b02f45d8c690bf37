------------------------------- MODULE LuaRequire -------------------------------
(***************************************************************************)
(* require and module (loadlib.c): a module is run when it is first asked  *)
(* for, a mark in _LOADED stands for it meanwhile, and it may leave its    *)
(* value there itself, return it, or leave none. Modules ask for others,   *)
(* with or without pcall, in circles too, and fail.                        *)
(***************************************************************************)
EXTENDS Integers, Sequences, SequencesExt, FiniteSets, LuaCommon

CONSTANTS Names,        (* of modules                                           *)
          Bodies,       (* what a module may do: lists of steps                 *)
          MaxCalls,     (* how many modules the program asks for                *)
          nil

VARIABLES body,         (* the body of each module, nil: no loader finds it      *)
          loaded,       (* _LOADED                                              *)
          frames,       (* the modules that run, innermost last: [name, pc]     *)
          calls,        (* what the program asked for itself                    *)
          runs, got     (* how often each was run, and what require returned    *)

vars == <<body, loaded, frames, calls, runs, got>>

sentinel == <<"sentinel">>
Top == frames[Len(frames)]
Step == body[Top.name][Top.pc]
Advance(fs) == [fs EXCEPT ![Len(fs)].pc = @ + 1]

\* An error ends the modules up to the innermost pcall, or all.
Caught(fs) == {k \in 1..Len(fs) : body[fs[k].name][fs[k].pc][1] = "try"}
Unwind(fs) == IF Caught(fs) = {} THEN <<>>
              ELSE Advance(SubSeq(fs, 1, CHOOSE k \in Caught(fs) : \A j \in Caught(fs) : j <= k))
Raise(fs) == /\ frames' = Unwind(fs)
             /\ UNCHANGED <<loaded, runs, got>>

\* ll_require up to the call of the module; fs are the frames of who asks.
Mut_IsLoop(v) == FALSE
IsLoop(v) == v = sentinel
LlRequire(n, fs) ==
  IF loaded[n] # nil
  THEN IF IsLoop(loaded[n]) THEN Raise(fs)
       ELSE /\ frames' = IF fs = <<>> THEN fs ELSE Advance(fs)
            /\ got' = got \cup {[name |-> n, value |-> loaded[n], running |-> n \in {fs[k].name : k \in 1..Len(fs)}]}
            /\ UNCHANGED <<loaded, runs>>
  ELSE IF body[n] = nil THEN Raise(fs)
  ELSE /\ loaded' = [loaded EXCEPT ![n] = sentinel]
       /\ frames' = Append(fs, [name |-> n, pc |-> 1])
       /\ runs' = [runs EXCEPT ![n] = @ + 1]
       /\ UNCHANGED got

\* ll_require after it: a value that was returned counts, then one that was left, then true.
Returned(n, v) ==
  LET kept == IF v # nil THEN v ELSE IF loaded[n] = sentinel THEN <<"true">> ELSE loaded[n]
      fs == Front(frames)
  IN /\ loaded' = [loaded EXCEPT ![n] = kept]
     /\ frames' = IF fs = <<>> THEN fs ELSE Advance(fs)
     /\ got' = got \cup {[name |-> n, value |-> kept, running |-> FALSE]}
     /\ UNCHANGED runs

AskFor(n) ==
  /\ frames = <<>> /\ calls < MaxCalls
  /\ calls' = calls + 1
  /\ LlRequire(n, <<>>)
  /\ UNCHANGED body

Require == frames # <<>> /\ Step[1] \in {"require", "try"} /\ LlRequire(Step[2], frames) /\ UNCHANGED <<body, calls>>
\* ll_module: the module's table, in _LOADED already or a new one in place of the mark.
LlModule ==
  /\ frames # <<>> /\ Step[1] = "module"
  /\ loaded' = [loaded EXCEPT ![Top.name] = IF @ # nil /\ @[1] = "table" THEN @ ELSE <<"table", Top.name>>]
  /\ frames' = Advance(frames)
  /\ UNCHANGED <<body, calls, runs, got>>
Fail == frames # <<>> /\ Step[1] = "error" /\ Raise(frames) /\ UNCHANGED <<body, calls>>
Return == frames # <<>> /\ Step[1] = "return" /\ Returned(Top.name, Step[2]) /\ UNCHANGED <<body, calls>>

Init ==
  /\ body \in [Names -> Bodies \cup {nil}]
  /\ loaded = [n \in Names |-> nil]
  /\ frames = <<>>
  /\ calls = 0
  /\ runs = [n \in Names |-> 0]
  /\ got = {}

Next == (\E n \in Names : AskFor(n)) \/ Require \/ LlModule \/ Fail \/ Return

Spec == Init /\ [][Next]_vars

Does(n, what) == body[n] # nil /\ \E k \in 1..Len(body[n]) : body[n][k][1] = what
Returns(n) == body[n] # nil /\ \E k \in 1..Len(body[n]) : body[n][k][1] = "return" /\ body[n][k][2] # nil

\* A module runs at most once, whatever circles there are and whatever fails; require
\* never returns the mark, returns while the module still runs only what module() has
\* left, and always the same value of a module that does not both leave and return one;
\* and the mark stays exactly for the modules that run and for those that failed before
\* they left a value, which are never tried again (ll_require, loadlib.c:451-494).
RequireKept ==
  /\ \A n \in Names : runs[n] <= 1
  /\ \A g \in got : g.value # sentinel /\ (g.running => Does(g.name, "module"))
  /\ \A g, h \in got : g.name = h.name /\ ~(Does(g.name, "module") /\ Returns(g.name)) => g.value = h.value
  /\ \A n \in Names : loaded[n] = sentinel /\ frames = <<>> => \A g \in got : g.name # n
  /\ \A n \in Names : Cardinality({k \in 1..Len(frames) : frames[k].name = n}) <= 1
==================================================================================
