------------------------------ MODULE MCFleet ------------------------------
EXTENDS Fleet

\* Listening ports are outside the range of descriptor numbers.
MCPortOf(p) == 31000 + p

\* The built-in table of the default-port node, in units of ten.
MCStatic == << [port |-> 31234, weight |-> 4, member |-> 2] >>
MCNoStatic == << >>

V(m, e, r, p) == [member |-> m, epoch |-> e, round |-> r, pref |-> p]

\* Two preferences in one round; in one round of two epochs; in two rounds;
\* the two peers for and against each other; the all-zero
\* preference against another.
MCStatements ==
    { {V(3, 0, 0, 1), V(3, 0, 0, 2)}, {V(3, 0, 1, 2), V(3, 1, 1, 1)},
      {V(2, 0, 0, 1), V(2, 0, 1, 2)}, {V(2, 0, 0, 1), V(3, 0, 0, 2)},
      {V(2, 0, 0, 2), V(3, 0, 1, 2)}, {V(3, 0, 0, 0), V(2, 0, 1, 1)} }

\* Both peers state the all-zero preference, against NeverLeftSuspended.
MCZeroStatements == { {V(2, 0, 0, 0), V(3, 0, 0, 0)} }
=============================================================================
