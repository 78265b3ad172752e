--------------------------- MODULE MCCategoryTree ---------------------------
(* Instances of CategoryTree for TLC. *)
EXTENDS CategoryTree, TLC

Symmetry == Permutations(Category) \cup Permutations(Content) \cup Permutations(Request)
=============================================================================
