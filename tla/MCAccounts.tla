------------------------------- MODULE MCAccounts ------------------------------
(* Instances of Accounts for TLC.                                             *)
EXTENDS Accounts, TLC

MCSymmetry == Permutations(Request) \cup Permutations(Identity)
================================================================================
