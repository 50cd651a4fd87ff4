----------------------------- MODULE MCDispatch -----------------------------
(***************************************************************************)
(* Small instances of Dispatch for TLC.  Jobs are interchangeable, and so  *)
(* are the workers that neither Stoppable nor SyncWorkers tells apart.     *)
(***************************************************************************)
EXTENDS DispatchProperties, TLC

Symmetry == Permutations(Jobs) \cup Permutations(Workers \ (Stoppable \cup SyncWorkers))
=============================================================================
