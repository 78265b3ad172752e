--------------------------- MODULE MCMediaLibrary ---------------------------
(* Model values, symmetry and sizes for checking MediaLibrary with TLC. *)
EXTENDS MediaLibrary, TLC

CONSTANTS m1, m2, m3, k1, k2, k3, k4, r1, r2, s1, e1, o1

Ids2 == {m1, m2}
Ids3 == {m1, m2, m3}
Keys3 == {k1, k2, k3}
Keys4 == {k1, k2, k3, k4}
One == {r1}
Two == {r1, r2}

Symmetry23 == Permutations(Ids2) \cup Permutations(Keys3) \cup Permutations(Two)
=============================================================================
