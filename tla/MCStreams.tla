----------------------------- MODULE MCStreams -----------------------------
(* Streams for TLC: interchangeable pages; the bounds are in the cfg files. *)
EXTENDS Streams, TLC

CONSTANTS p1, p2

TwoPages == {p1, p2}
OnePage == {p1}
PageSymmetry == Permutations(TwoPages)
=============================================================================
