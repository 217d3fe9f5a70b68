---- MODULE ExecutionContract ----
(***************************************************************************)
(* What ExecutionService.execute promises to the code that calls it, for   *)
(* each call: one answer, and at most one effect on Firebird.              *)
(*                                                                         *)
(*   "ok"       the result was returned: a write is committed;             *)
(*   "stopped"  refused for capacity, or canceled: it has no effect, and   *)
(*              never will;                                                *)
(*   "unknown"  timed out, failed or aborted: a write may be committed,    *)
(*              may not be, and may still be committed after the answer.   *)
(*                                                                         *)
(* The detailed module ExecutionService implements this one, and           *)
(* WriteEndpoint builds on it.                                             *)
(***************************************************************************)
CONSTANTS Execution,   \* the calls of execute
          Write        \* those whose success commits a Firebird transaction

VARIABLES answer,      \* what the caller of each execution has been told
          effect       \* the executions whose Firebird transaction committed

vars == <<answer, effect>>

Init == /\ answer = [e \in Execution |-> "none"]
        /\ effect = {}

\* The transaction of a write commits, once, unless the caller was told that
\* the execution was stopped.
Commit(e) == /\ e \in Write \ effect
             /\ answer[e] \in {"none", "unknown"}
             /\ effect' = effect \cup {e}
             /\ UNCHANGED answer

Answer(e, a) == /\ answer[e] = "none"
                /\ answer' = [answer EXCEPT ![e] = a]
                /\ UNCHANGED effect

Succeed(e) == (e \in Write => e \in effect) /\ Answer(e, "ok")

Stop(e) == e \notin effect /\ Answer(e, "stopped")

LoseTrack(e) == Answer(e, "unknown")

Next == \E e \in Execution : Commit(e) \/ Succeed(e) \/ Stop(e) \/ LoseTrack(e)

Spec == Init /\ [][Next]_vars
====
