------------------------------ MODULE MCReads ------------------------------
(* The login limit, the breadcrumbs and the router for TLC: what a request   *)
(* reads statement by statement or layer by layer.  They share no table, so  *)
(* one run checks each in its turn: the first state says which of them       *)
(* moves, and the others stand still.  ReadsProofs is about all at once.     *)
EXTENDS LoginThrottle, Navigation, Router

VARIABLE part

readsVars == <<part, vars, navVars, routerVars>>

ReadsInit == /\ part \in {"logins", "menus", "routes"}
             /\ Init /\ NavInit /\ RouterInit

\* A step A of one part; Others are the variables of the other two.
StepOf(n, A, Others) == part = n /\ A /\ UNCHANGED <<part, Others>>

ReadsNext == \/ StepOf("logins", Next, <<navVars, routerVars>>)
             \/ StepOf("menus", NavNext, <<vars, routerVars>>)
             \/ StepOf("routes", RouterNext, <<vars, navVars>>)

ReadsFairness ==
  /\ \A a \in Attempt :
       WF_readsVars(StepOf("logins", Expire(a), <<navVars, routerVars>>))
  /\ \A r \in Request :
       /\ WF_readsVars(StepOf("logins", Step(r), <<navVars, routerVars>>))
       /\ WF_readsVars(StepOf("menus", Breadcrumb(r), <<vars, routerVars>>))

ReadsSpec == ReadsInit /\ [][ReadsNext]_readsVars /\ ReadsFairness

\* The rows, requests and walks of every module are well formed.
ReadsTypeOK == TypeOK /\ NavTypeOK /\ RouterTypeOK
=============================================================================
