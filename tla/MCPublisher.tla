---------------------------- MODULE MCPublisher -----------------------------
(***************************************************************************)
(* Publisher has no parameter and finitely many states: TLC checks all of  *)
(* them, without a bound.                                                  *)
(***************************************************************************)
EXTENDS Publisher
=============================================================================
