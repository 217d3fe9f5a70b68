---- MODULE MCExecutionService ----
(***************************************************************************)
(* Instances of ExecutionService for TLC.                                  *)
(***************************************************************************)
EXTENDS ExecutionService, TLC

CONSTANTS e1, e2, e3, alice, bob

OneOwner == [e \in Execution |-> alice]
OwnOwner == [e \in Execution |-> IF e = e1 THEN alice ELSE bob]

\* Connections are always alike, and so are probes.
Pools == Permutations(Conn) \cup Permutations(Probe)

\* All executions are of the same owner and kind.
Alike == Permutations(Execution) \cup Pools

\* Two executions of the same kind change places together with their owners.
AlikeWithOwners == {e1 :> e2 @@ e2 :> e1 @@ alice :> bob @@ bob :> alice} \cup Pools
====
