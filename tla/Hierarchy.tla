----------------------------- MODULE Hierarchy ------------------------------
(***************************************************************************)
(* Rows that name a parent of their own table: departments and menu items. *)
(* The database keeps the name of a row that exists, and clears it when    *)
(* the parent is deleted (ON DELETE SET NULL).  It does not keep a row     *)
(* from being its own ancestor.                                            *)
(***************************************************************************)
EXTENDS Handlers

\* The rows above x, at any distance, by the parent column p: the least set with
\* the parent of x and the parent of every row in it.
Above(p, x) ==
  {y \in DOMAIN p :
     \A C \in SUBSET DOMAIN p :
       (\A z \in C : p[z] \in C \cup {NONE}) /\ p[x] \in C \cup {NONE} => y \in C}

OnCycle(p, x) == x \in Above(p, x)

\* What becomes of the column when the rows of a set are deleted.
Cleared(p, gone) ==
  [x \in DOMAIN p |-> IF x \in gone \/ p[x] \in gone THEN NONE ELSE p[x]]
=============================================================================
