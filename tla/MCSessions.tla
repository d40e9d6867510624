----------------------------- MODULE MCSessions -----------------------------
(* Sessions on a small instance, in which requests and tabs are alike.      *)
EXTENDS Sessions, TLC

Symmetry == Permutations(Requests) \cup Permutations(Tabs)
=============================================================================
