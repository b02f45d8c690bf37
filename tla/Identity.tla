------------------------------- MODULE Identity -------------------------------
(***************************************************************************)
(* CheckIdentity of share_utils.cpp: whether a citizen's number, 15 digits *)
(* or 17 and a check character, is well formed, and whether its holder is  *)
(* 18. A character is its digit, 10 for x or X, or NotDigit; the number is *)
(* typed with mistakes.                                                    *)
(***************************************************************************)
EXTENDS Integers, Sequences, FiniteSetsExt

CONSTANTS Ids,      (* correct numbers                                       *)
          Todays,   (* dates: year, month and day                            *)
          NotDigit

VARIABLES correct, id,
          mistakes  (* how many were made                                    *)

vars == <<correct, id, mistakes>>

Digit == 0..9

Init == correct \in Ids /\ id = correct /\ mistakes = 0

Mistype(i, c) == /\ mistakes = 0 /\ id' = [id EXCEPT ![i] = c] /\ id' # id
                 /\ mistakes' = 1 /\ UNCHANGED correct
Transpose(i) == /\ mistakes = 0
                /\ id' = [id EXCEPT ![i] = id[i + 1], ![i + 1] = id[i]] /\ id' # id
                /\ mistakes' = 1 /\ UNCHANGED correct
Forget == /\ mistakes = 0 /\ id' = SubSeq(id, 1, Len(id) - 1)
          /\ mistakes' = 1 /\ UNCHANGED correct

Next == \/ \E i \in DOMAIN id : \E c \in Digit \cup {10, NotDigit} : Mistype(i, c)
        \/ \E i \in 1 .. Len(id) - 1 : Transpose(i)
        \/ Forget

Spec == Init /\ [][Next]_vars

\* atoi of the digits from place i to place j.
Number(s, i, j) == MapThenSumSet(LAMBDA k : s[k] * 10^(j - k), i..j)

weight == <<7, 9, 10, 5, 8, 4, 2, 1, 6, 3, 7, 9, 10, 5, 8, 4, 2>>
parity == <<1, 0, 10, 9, 8, 7, 6, 5, 4, 3, 2>>

Checks(s) == s[18] = parity[(MapThenSumSet(LAMBDA i : s[i] * weight[i], 1..17) % 11) + 1]

\* The year since 1900, the month and the day.
Birth(s) == IF Len(s) = 15 THEN [y |-> Number(s, 7, 8), m |-> Number(s, 9, 10), d |-> Number(s, 11, 12)]
            ELSE [y |-> Number(s, 7, 10) - 1900, m |-> Number(s, 11, 12), d |-> Number(s, 13, 14)]
Dated(s) == LET b == Birth(s) IN
            /\ b.y \in IF Len(s) = 15 THEN 0..99 ELSE 0..120
            /\ b.m \in 1..12 /\ b.d \in 1..31

CheckIdentity(s) ==
  \/ Len(s) = 15 /\ (\A i \in 1..15 : s[i] \in Digit) /\ Dated(s)
  \/ /\ Len(s) = 18
     /\ \A i \in 1..17 : s[i] \in Digit
     /\ s[18] \in Digit \cup {10}
     /\ Dated(s) /\ Checks(s)

enough18(s, today) ==
  LET b == Birth(s)
      delta_y == today.y - 1900 - b.y
      delta_m == today.m - b.m
  IN \/ delta_y > 18
     \/ delta_y = 18 /\ delta_m > 0
     \/ delta_y = 18 /\ delta_m = 0 /\ today.d >= b.d

\* A correct number is accepted, and a number of 18 with one digit mistyped, two
\* neighbours exchanged or the last left out is not; who is accepted is said to be 18
\* from the 18th birthday on.
MistakesSeen ==
  /\ mistakes = 0 => CheckIdentity(id)
  /\ mistakes = 1 /\ Len(correct) = 18 => ~CheckIdentity(id)
  /\ CheckIdentity(id) =>
       \A today \in Todays :
         enough18(id, today) <=>
           LET b == Birth(id)
           IN (b.y + 1918) * 10000 + b.m * 100 + b.d <= today.y * 10000 + today.m * 100 + today.d
================================================================================
