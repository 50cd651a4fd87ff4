------------------------------ MODULE MCMedia -------------------------------
(***************************************************************************)
(* A small instance of Media: jobs of a worker are interchangeable.        *)
(***************************************************************************)
EXTENDS Media, TLC

Symmetry == Permutations(Covers) \cup Permutations(Syncs) \cup Permutations(Keys)
=============================================================================
