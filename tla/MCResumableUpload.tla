------------------------- MODULE MCResumableUpload -------------------------
(* ResumableUpload on small instances.                                     *)
EXTENDS ResumableUpload, TLC

CONSTANTS small, large

MCSizeOf == (small :> 2) @@ (large :> 3)

Symmetry == Permutations(Sessions) \cup Permutations(Paths)
=============================================================================
