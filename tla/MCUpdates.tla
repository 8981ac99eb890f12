----------------------------- MODULE MCUpdates -----------------------------
(* Updates for TLC: one branch, a request next to the automatic update,    *)
(* and small budgets.                                                       *)
EXTENDS Updates, TLC

CONSTANTS stable, a1, none

OneBranch == {stable}
OneAdmin == {a1}

UpdateLimits == [requests |-> 2, checks |-> 1, faults |-> 2]
=============================================================================
