------------------------------- MODULE Arrays ------------------------------
(***************************************************************************)
(* Loops and arrays of the pure algorithms: a fold that hands every step   *)
(* the value of the one before it, and arrays whose cells are evaluated.   *)
(***************************************************************************)
EXTENDS Integers, Sequences, SequencesExt

UpTo(n) == [i \in 1 .. n |-> i]
Run(Step(_, _), base, s) ==
    LET run[i \in 0 .. Len(s)] ==
          IF i = 0 THEN base ELSE LET p == run[i - 1] IN [q \in {p} |-> Step(q, s[i])][p]
    IN  run[Len(s)]
Array(n, F(_)) == SubSeq([i \in 1 .. n |-> F(i)], 1, n)
=============================================================================
