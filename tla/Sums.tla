--------------------------------- MODULE Sums ---------------------------------
(***************************************************************************)
(* Sums of sequences of numbers, for what a list of buffers holds.         *)
(***************************************************************************)
EXTENDS Integers, Sequences

(* The sum of the first n elements of s.                                      *)
SumTo(s, n) == LET Sum[k \in 0 .. n] == IF k = 0 THEN 0 ELSE Sum[k - 1] + s[k] IN Sum[n]

Total(s) == SumTo(s, Len(s))
=============================================================================
