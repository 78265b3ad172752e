------------------------------ MODULE Handlers ------------------------------
(***************************************************************************)
(* What the models of the record-keeping modules share: the handlers of    *)
(* requests that may be in flight at once, and the value of a column that  *)
(* holds nothing.  NestJS runs every request as an async function of its   *)
(* own; others run at each await.                                          *)
(***************************************************************************)
EXTENDS Naturals, FiniteSets

CONSTANTS Request, NONE

\* A process holds finitely many requests.
ASSUME HandlersAssumption == IsFiniteSet(Request)
=============================================================================
