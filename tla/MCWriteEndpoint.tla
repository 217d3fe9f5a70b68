---- MODULE MCWriteEndpoint ----
(***************************************************************************)
(* Instances of WriteEndpoint for TLC.                                     *)
(***************************************************************************)
EXTENDS WriteEndpoint, TLC

CONSTANTS a1, a2, a3, s1, s2, k1, k2

OneKeyEach == [s \in Scope |-> IF s = s2 THEN k2 ELSE k1]

\* All attempts under one Idempotency-Key.
Retries == [a \in Attempt |-> s1]

\* One attempt of a first client, two of a second one with a key of its own.
TwoClients == [a \in Attempt |-> IF a = a1 THEN s1 ELSE s2]

\* The two attempts of the second client are alike.
Alike == Permutations({a2, a3})
====
