-------------------------- MODULE MCThumbnailQueue --------------------------
(* ThumbnailQueue on small instances.                                      *)
EXTENDS ThumbnailQueue, TLC

Symmetry ==
  Permutations(TaskKeys) \cup Permutations(Workers) \cup Permutations(Handlers)
=============================================================================
