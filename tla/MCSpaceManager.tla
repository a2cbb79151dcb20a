--------------------------- MODULE MCSpaceManager ---------------------------
(* SpaceManager for TLC: the symmetry of the sets of model values.         *)
EXTENDS SpaceManager, TLC

Symmetry == Permutations(Callers) \cup Permutations(Passwords) \cup Permutations(KeyRefs)
              \cup Permutations(Spaces)
=============================================================================
