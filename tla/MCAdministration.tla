---------------------------- MODULE MCAdministration ---------------------------
(* Instances of Administration for TLC.                                       *)
EXTENDS Administration, TLC

MCSymmetry == Permutations(Request)
================================================================================
