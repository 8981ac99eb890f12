------------------------------ MODULE MCFleet ------------------------------
(* A small instance of Fleet for TLC: two servers may be there at a time.  *)
EXTENDS Fleet, TLC

\* All kinds of port are treated alike and apart.
OneKind == {"game"}

TwoPorts == [k \in OneKind |-> {1, 2}]

\* Two times within one grace period, at the end of the day.
TwoTimesOrNone == {{}, {1, 2}}

Alike == Permutations(Servers) \cup Permutations(Threads)

FleetLimits == [requests |-> 2, breaks |-> 1]
=============================================================================
