------------------------------ MODULE MCShelf ------------------------------
(* Shelf for TLC: two threads, a shelf of two, and small budgets.          *)
EXTENDS Shelf, TLC

CONSTANTS k1, k2

TwoKeys == {k1, k2}

\* Any two operations overlap, while the server saves, and comes up or a step of them
\* fails.
ShelfLimits == [requests |-> 2, saves |-> 1, events |-> 1]

Symmetry == Permutations(Admins) \cup Permutations({k1, k2})
=============================================================================
