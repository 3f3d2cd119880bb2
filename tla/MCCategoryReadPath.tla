------------------------- MODULE MCCategoryReadPath -------------------------
(***************************************************************************)
(* CategoryReadPath for TLC: one collection, one hierarchy, two            *)
(* categories, requests enough for a reader to lie in the cache while the  *)
(* writer commits and to be borrowed again afterwards.                     *)
(***************************************************************************)
EXTENDS CategoryReadPath, TLC

Symmetry ==
    Permutations(Handles) \cup Permutations(Workers)
        \cup Permutations(CategoryIds)

=============================================================================
