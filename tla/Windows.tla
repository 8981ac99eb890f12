------------------------------ MODULE Windows ------------------------------
(* The times of a client's attempts, kept in the order they were made in:  *)
(* the window of an _AttemptRecord (auth.py).                               *)
EXTENDS Integers, Sequences, FiniteSetsExt

\* Popped from the left until one is no older than oldest.
Since(times, oldest) ==
  LET recent == {i \in DOMAIN times : times[i] >= oldest}
  IN  IF recent = {} THEN <<>> ELSE SubSeq(times, Min(recent), Len(times))
=============================================================================
