---------------------------- MODULE MCLifecycle ----------------------------
(* Small instances of Lifecycle for TLC: the bounds of each run.           *)
EXTENDS Lifecycle, TLC

Bound(requests, schedules, faults, exits, boots) ==
  [requests |-> requests, schedules |-> schedules, faults |-> faults,
   exits |-> exits, boots |-> boots]

\* A failure of every kind and a new process, by shutdown, kill or host reboot,
\* while two operations run; or a crash and three.
FailureLimits == {Bound(2, 1, 1, 1, 1), Bound(3, 0, 0, 1, 0)}

\* The first of them, then quiet.
RecoveryLimits == {Bound(2, 1, 1, 1, 1)}

\* Admins are alike, and so are templates.
Symmetry == Permutations(Admins) \cup Permutations(Templates)
=============================================================================
