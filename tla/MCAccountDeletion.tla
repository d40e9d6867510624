------------------------- MODULE MCAccountDeletion -------------------------
(* AccountDeletion on small instances.                                     *)
EXTENDS AccountDeletion, TLC

MCSize == [c \in Contents |-> IF c = CHOOSE d \in Contents : TRUE THEN 1 ELSE 2]

\* Administrators are treated alike, and so are the ids of rows.
Symmetry == Permutations(Admins) \cup Permutations(Ids)
=============================================================================
