---------------------------- MODULE MCJobCompletion ----------------------------
(***************************************************************************)
(* Instances of JobCompletion for TLC.                                     *)
(***************************************************************************)
EXTENDS JobCompletion, TLC

Symmetric == Permutations(Targets)
================================================================================
