------------------------------- MODULE MCNode -------------------------------
(* Instances of NodeService for TLC.                                       *)
EXTENDS NodeInvariant, TLC

Symmetry ==
    Permutations(Blocks) \cup Permutations(Volumes \ Blocks)
      \cup Permutations(Slots) \cup Permutations(Devs) \cup Permutations(Calls)

=============================================================================
