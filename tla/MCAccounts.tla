----------------------------- MODULE MCAccounts -----------------------------
(* Accounts on small instances.                                            *)
EXTENDS Accounts, TLC

Symmetry == Permutations(Users)
=============================================================================
