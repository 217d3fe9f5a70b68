---- MODULE MCRouteReload ----
(***************************************************************************)
(* Instances of RouteReload for TLC.                                       *)
(***************************************************************************)
EXTENDS RouteReload, TLC

Alike == Permutations(Route) \cup Permutations(Operator)
====
