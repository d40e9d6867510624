----------------------- MODULE MCEncryptionRotation -----------------------
(* EncryptionRotation on small instances.                                  *)
EXTENDS EncryptionRotation, TLC

Symmetry == Permutations(Objects) \cup Permutations(Requests)
=============================================================================
