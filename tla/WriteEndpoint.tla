---- MODULE WriteEndpoint ----
(***************************************************************************)
(* The endpoint of a dynamic write route (app/core/dynamic_loader.py,      *)
(* _add_route.endpoint) between its two collaborators: the idempotency     *)
(* store and the execution service, the latter through ExecutionContract,  *)
(* which ExecutionService implements.                                      *)
(*                                                                         *)
(* An attempt is one HTTP request that passed authentication and binding.  *)
(* Several attempts carry the same Idempotency-Key: a client that retries, *)
(* or two clients at once. The process may crash: the table survives,      *)
(* attempts and Firebird transactions in progress do not.                  *)
(***************************************************************************)
EXTENDS Idempotency

CONSTANTS Attempt,        \* HTTP requests to write routes
          ScopeOf,        \* the idempotency scope of each
          Deletable,      \* access keys an administrator may delete
          MaxTime,        \* bound on the clock
          MaxMetaFaults,  \* bound on metastore failures
          MaxCrashes      \* bound on crashes

ASSUME EndpointAssumption == /\ ScopeOf \in [Attempt -> Scope]
                             /\ Deletable \subseteq AccessKey
                             /\ MaxTime \in Nat /\ MaxMetaFaults \in Nat
                             /\ MaxCrashes \in Nat

VARIABLES at,        \* where each attempt is, or how it ended
          record,    \* the record_id each attempt holds
          begun,     \* when each attempt began
          running,   \* attempts whose Firebird work may still act
          answer,    \* what execute answered, in terms of ExecutionContract
          effect,    \* attempts whose Firebird transaction committed
          faults, crashes

execVars == <<answer, effect>>
attemptVars == <<at, record, begun, running>>
vars == <<storeVars, attemptVars, execVars, faults, crashes>>

Execution == INSTANCE ExecutionContract WITH Execution <- Attempt, Write <- Attempt

InFlight(a) == at[a] = "executing"

Init == /\ InitStore /\ Execution!Init
        /\ at = [a \in Attempt |-> "idle"]
        /\ record = [a \in Attempt |-> 0]
        /\ begun = [a \in Attempt |-> 0]
        /\ running = {}
        /\ faults = 0 /\ crashes = 0

MetaFails == faults < MaxMetaFaults /\ faults' = faults + 1 /\ UNCHANGED storeVars
MetaWorks == UNCHANGED faults

Ends(a, how) == at' = [at EXCEPT ![a] = how] /\ UNCHANGED <<record, begun>>

-----------------------------------------------------------------------------

\* The key is taken and the execution starts.
Begin(a) ==
  /\ at[a] = "idle"
  /\ BeginAdmits(ScopeOf[a]) /\ MetaWorks
  /\ at' = [at EXCEPT ![a] = "executing"]
  /\ record' = [record EXCEPT ![a] = NextId(Unexpired)]
  /\ begun' = [begun EXCEPT ![a] = now]
  /\ running' = running \cup {a}
  /\ UNCHANGED <<execVars, crashes>>

\* 409 for a key in use or used; 500, before anything is executed, when the row
\* cannot be inserted.
Refuse(a) ==
  /\ at[a] = "idle"
  /\ \/ BeginRefuses(ScopeOf[a]) /\ MetaWorks /\ Ends(a, "conflict")
     \/ BeginFails(ScopeOf[a]) /\ MetaWorks /\ Ends(a, "rejected")
     \/ MetaFails /\ Ends(a, "rejected")
  /\ UNCHANGED <<running, execVars, crashes>>

\* The execution service: what ExecutionContract allows it.
Effect(a) ==
  /\ a \in running
  /\ Execution!Commit(a)
  /\ UNCHANGED <<storeVars, attemptVars, faults, crashes>>

Answer(a) ==
  /\ InFlight(a)
  /\ Execution!Succeed(a) \/ Execution!Stop(a) \/ Execution!LoseTrack(a)
  /\ UNCHANGED <<storeVars, attemptVars, faults, crashes>>

\* Mutant of KeepRow: the row is given back although the write was executed.
KeepRowOnlyIfSaved(a) == Abandon(record[a])

KeepRow(a) == UNCHANGED storeVars

\* The result was returned: 200 once the key is completed. When the response
\* cannot be encoded, or there is no running row to complete, 500 and the rows stay.
Succeed(a) ==
  /\ InFlight(a) /\ answer[a] = "ok"
  /\ \/ IsRunning(record[a]) /\ Complete(record[a]) /\ MetaWorks /\ Ends(a, "ok")
     \/ KeepRow(a) /\ MetaWorks /\ Ends(a, "unsaved")
     \/ MetaFails /\ Ends(a, "unsaved")
  /\ UNCHANGED <<running, execVars, crashes>>

\* Any other answer gives the key back: 429 or 409 for an execution that was
\* stopped, 504 or 500 for one whose outcome is unknown. A coroutine that is
\* canceled (shutdown) leaves the row as it is, and so does a failing metastore.
Fail(a) ==
  /\ InFlight(a) /\ answer[a] \in {"stopped", "unknown"}
  /\ \/ Abandon(record[a]) /\ MetaWorks /\ Ends(a, answer[a])
     \/ MetaFails /\ Ends(a, answer[a])
     \/ answer[a] = "unknown" /\ UNCHANGED storeVars /\ MetaWorks /\ Ends(a, "lost")
  /\ UNCHANGED <<running, execVars, crashes>>

-----------------------------------------------------------------------------
(* The environment *)

Crash ==
  /\ crashes < MaxCrashes /\ crashes' = crashes + 1
  /\ at' = [a \in Attempt |-> IF InFlight(a) THEN "lost" ELSE at[a]]
  /\ running' = {}
  /\ UNCHANGED <<storeVars, record, begun, execVars, faults>>

Delete == /\ \E k \in Deletable : DeleteKey(k)
          /\ UNCHANGED <<attemptVars, execVars, faults, crashes>>

\* Time passes; an attempt is answered long before its row expires, since the
\* limits on waiting and executing are seconds and the TTL is hours.
Tick == /\ now < MaxTime
        /\ \A a \in Attempt : InFlight(a) => now + 1 < begun[a] + TTL
        /\ now' = now + 1
        /\ UNCHANGED <<records, accessKeys, attemptVars, execVars, faults, crashes>>

Next == \/ \E a \in Attempt : \/ Begin(a) \/ Refuse(a) \/ Effect(a) \/ Answer(a)
                              \/ Succeed(a) \/ Fail(a)
        \/ Crash \/ Delete \/ Tick

Spec == Init /\ [][Next]_vars

-----------------------------------------------------------------------------

\* Type invariant.
TypeOK ==
  /\ records \subseteq Record
  /\ accessKeys \subseteq AccessKey
  /\ now \in 0..MaxTime
  /\ at \in [Attempt -> {"idle", "executing", "conflict", "rejected", "ok", "unsaved",
                         "stopped", "unknown", "lost"}]
  /\ record \in [Attempt -> Nat]
  /\ begun \in [Attempt -> Nat]
  /\ running \subseteq Attempt /\ effect \subseteq Attempt
  /\ answer \in [Attempt -> {"none", "ok", "stopped", "unknown"}]
  /\ faults \in 0..MaxMetaFaults /\ crashes \in 0..MaxCrashes

SameKey(a, b) == a # b /\ ScopeOf[a] = ScopeOf[b]

Within(a, b) == begun[a] < begun[b] + TTL /\ begun[b] < begun[a] + TTL

KeyExists(a) == KeyOf[ScopeOf[a]] \in accessKeys

\* No other Access Key was deleted. Deleting one frees the ids of its rows, and a request
\* that was running under it may then complete or remove a row that got its id.
OthersKept(a) == AccessKey \ {KeyOf[ScopeOf[a]]} \subseteq accessKeys

\* At any time at most one attempt executes under an Idempotency-Key, and the row
\* it holds is its own, unless its Access Key was deleted with it, or another one whose
\* request then removed the row.
OneAtATime ==
  \A a \in Attempt : InFlight(a) /\ OthersKept(a) =>
    /\ KeyExists(a) =>
         \E r \in records : r.id = record[a] /\ r.scope = ScopeOf[a] /\ r.status = "running"
    /\ \A b \in Attempt : SameKey(a, b) => ~InFlight(b)

\* Two requests with one Idempotency-Key both take effect within its lifetime only
\* if the execution of one of them ended without a known outcome (it timed out or
\* failed, and its late or uncertain commit took effect). Crashes, failures of
\* the metastore, responses that could not be saved and the deletion of their own
\* Access Key never cause it.
TwiceOnlyIfUnknown ==
  \A a, b \in effect : SameKey(a, b) /\ Within(a, b) /\ OthersKept(a) =>
    answer[a] = "unknown" \/ answer[b] = "unknown"

\* A request answered 200 has taken effect, and its key stays taken for the TTL, while
\* its Access Key exists and no other was deleted.
SuccessIsRemembered ==
  \A a \in Attempt : at[a] = "ok" =>
    /\ a \in effect
    /\ now < begun[a] + TTL /\ KeyExists(a) /\ OthersKept(a) =>
         \E r \in records : r.scope = ScopeOf[a] /\ r.status = "completed"

\* README, Write idempotency: a key that was processed, is in use, or whose result
\* is unavailable never authorizes a replay.
NeverReplayed ==
  \A a, b \in effect : ~(SameKey(a, b) /\ Within(a, b))
====
