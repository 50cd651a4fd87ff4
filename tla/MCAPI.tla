------------------------------- MODULE MCAPI -------------------------------
(***************************************************************************)
(* Three concurrent requests and two structs: a struct is reused.          *)
(***************************************************************************)
EXTENDS API, TLC

Symmetry == Permutations(Requests) \cup Permutations(Structs)
=============================================================================
