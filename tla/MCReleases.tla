----------------------------- MODULE MCReleases -----------------------------
(* Small instances of Releases for TLC: one bound per run.                 *)
EXTENDS Releases, TLC

Bound(writes, imports, releases, threads, lapses) ==
  [writes |-> writes, imports |-> imports, releases |-> releases,
   threads |-> threads, lapses |-> lapses]

\* Both templates are released, one into the other or each as new, while one is
\* edited, copied, pinned or deleted and its id used again.
ReleaseLimits == Bound(1, 1, 2, 2, 1)

Symmetry == Permutations(Tabs)
=============================================================================
