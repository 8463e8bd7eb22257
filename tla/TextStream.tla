----------------------------- MODULE TextStream -----------------------------
(***************************************************************************)
(* What a reader who follows the cursors is promised: a text arrives in      *)
(* pieces, from its beginning to its end and in its order, whatever the      *)
(* sizes asked for.  A character is its place in the text.                  *)
(***************************************************************************)
EXTENDS Naturals, Sequences

VARIABLES
  length,  \* the characters of the text
  given,   \* those the reader has, in the order they came
  over     \* whether the reader was told that this is all

vars == <<length, given, over>>

FirstOnes(n) == [k \in 1..n |-> k]

Init == length \in Nat \ {0} /\ given = <<>> /\ over = FALSE

\* The next piece, of one character at least.
Give ==
  /\ ~over
  /\ \E n \in Len(given) + 1..length : given' = FirstOnes(n) /\ over' = (n = length)
  /\ UNCHANGED length

Next == Give

Spec == Init /\ [][Next]_vars
=============================================================================
