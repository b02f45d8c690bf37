------------------------------- MODULE LuaCommon -------------------------------
(***************************************************************************)
(* Shared by the models of Lua: the steps of a function follow each other, *)
(* and each is applied to a value that is computed once.                   *)
(***************************************************************************)
EXTENDS Integers, Sequences

Then(h, Op(_)) == CHOOSE r \in {Op(x) : x \in {h}} : TRUE
Then2(h, A(_), B(_)) == Then(Then(h, A), B)
Then3(h, A(_), B(_), C(_)) == Then(Then2(h, A, B), C)

\* Op applied to each element of q in turn.
Each(h, q, Op(_, _)) ==
  LET after[i \in 0..Len(q)] == IF i = 0 THEN h ELSE Then(after[i - 1], LAMBDA x : Op(x, q[i]))
  IN after[Len(q)]
================================================================================
