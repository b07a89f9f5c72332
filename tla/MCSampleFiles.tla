---------------------------- MODULE MCSampleFiles ----------------------------
(* SampleFiles for TLC: it does not matter which run is which. *)
EXTENDS SampleFiles, TLC

Symmetry == Permutations(Procs)
===============================================================================
