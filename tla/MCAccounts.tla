----------------------------- MODULE MCAccounts -----------------------------
(* Model values, symmetry and sizes for checking Accounts with TLC. *)
EXTENDS Accounts, TLC

CONSTANTS u1, u2, s1, s2, t1, t2, r1, r2

Users2 == {u1, u2}
Sessions2 == {s1, s2}
Tokens2 == {t1, t2}
One == {r1}
Two == {r1, r2}

SymmetryUsers == Permutations(Users2) \cup Permutations(Two)
=============================================================================
