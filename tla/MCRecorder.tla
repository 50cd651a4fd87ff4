----------------------------- MODULE MCRecorder -----------------------------
(***************************************************************************)
(* Instances of Recorder for TLC: requests that may overlap or follow one  *)
(* another, so that a topic is recorded, ended and recorded again.         *)
(***************************************************************************)
EXTENDS Recorder
=============================================================================
