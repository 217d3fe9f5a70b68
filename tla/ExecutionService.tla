---- MODULE ExecutionService ----
(***************************************************************************)
(* Executions of Firebird statements: app/core/execution_service.py with   *)
(* the part of app/core/query_service.py its worker threads run.           *)
(*                                                                         *)
(* Four kinds of process act on the shared state:                          *)
(*   - the handler of each call of execute, a coroutine of the event loop: *)
(*     it records the execution, takes a global and a per-owner slot,      *)
(*     submits the work, and waits for it with a time limit;               *)
(*   - the thread that runs the work: it takes a pooled connection, runs   *)
(*     the statement in a transaction, looks at the cancel event at fixed  *)
(*     points, and records the outcome;                                    *)
(*   - whoever cancels: an administrator's request (another thread), the   *)
(*     watcher of the client's connection, the time limit, the shutdown;   *)
(*   - readiness probes (/ready), whose threads take a connection of the   *)
(*     same pool for a moment.                                             *)
(* The metastore may refuse any statement (SQLite busy or failing), at     *)
(* most MaxMetaFaults times in a behaviour; Firebird may fail at any time. *)
(***************************************************************************)
EXTENDS Integers, FiniteSets, Sequences

CONSTANTS Execution,      \* the calls of execute
          Write,          \* those that commit; the others (GET, tests) roll back
          Watched,        \* those whose client's connection is watched
          Owner,          \* owners: hashes of Access Keys, and the administrator
          OwnerOf,        \* the owner of each execution
          Conn,           \* connections of the pool (pool_size + max_overflow)
          NoConn,         \* no connection
          Request,        \* administrators' requests to cancel an execution
          Probe,          \* threads of the server that may answer /ready at the same time
          GlobalLimit,    \* query_max_concurrency_global
          OwnerLimit,     \* query_max_concurrency_per_token
          HistorySize,    \* query_history_size
          MaxMetaFaults   \* bound on metastore failures

ASSUME ExecutionAssumption ==
  /\ IsFiniteSet(Execution) /\ IsFiniteSet(Conn) /\ IsFiniteSet(Probe)
  /\ Write \subseteq Execution
  /\ Watched \subseteq Execution
  /\ OwnerOf \in [Execution -> Owner]
  /\ NoConn \notin Conn
  /\ GlobalLimit \in Nat \ {0}
  /\ OwnerLimit \in Nat \ {0}
  /\ HistorySize \in Nat \ {0}
  /\ MaxMetaFaults \in Nat

VARIABLES
  pc,           \* where the handler of each execution is
  watch,        \* executions whose disconnect watcher is running
  contexts,     \* executions registered in ExecutionService.contexts
  event,        \* executions whose cancel_event is set
  dbapi,        \* dbapi_connection of each context
  slots,        \* executions whose context holds both slots
  globalFree,   \* value of global_sem
  ownerFree,    \* value of each owner's semaphore
  queue,        \* work queue of the thread pool
  work,         \* where the work of each execution is
  result,       \* what the work returned or raised
  conn,         \* the connection the work has checked out
  interrupted,  \* executions whose statement the driver interrupted
  committed,    \* executions whose Firebird transaction is committed
  hist,         \* status of the row of each execution in execution_history
  born,         \* order of the rows' created_at
  request,      \* where each request to cancel is, and its target
  probing,      \* the connection each readiness probe has checked out
  up,           \* the executor exists
  faults        \* metastore failures so far

contextVars == <<contexts, event, dbapi>>
slotVars == <<slots, globalFree, ownerFree>>
workVars == <<queue, work, result, conn, committed>>
histVars == <<hist, born>>
vars == <<pc, watch, contextVars, slotVars, workVars, interrupted, histVars,
          request, probing, up, faults>>

-----------------------------------------------------------------------------
(* Values *)

Live == {"queued", "running", "cancel_requested"}
Terminal == {"completed", "failed", "canceled", "timeout"}

Answered == {"ok", "canceled", "timeout", "capacity", "error", "aborted"}
Waiting == {"inserted", "global", "owner", "denied", "granted", "waiting", "expiring"}

\* Phases in which the statement may still be stopped by the cancel event.
Stoppable == {"queued", "detached", "connecting", "begun", "fetching", "deciding"}
\* Phases in which the work has a connection checked out, and a thread; a thread also
\* waits for the pool, and records.
Connected == {"begun", "executing", "fetching", "retrieving", "deciding", "committing"}
OnThread == Connected \cup {"connecting", "recording", "leaving"}
Phase == {"none", "queued", "detached", "left", "done"} \cup OnThread

\* Mutant of Workers: the size of the pool is forgotten.
WorkersGlobal == GlobalLimit

\* The thread pool never has more threads than connections.
Workers == IF GlobalLimit < Cardinality(Conn) THEN GlobalLimit
           ELSE IF Conn = {} THEN 1 ELSE Cardinality(Conn)

Init ==
  /\ pc = [e \in Execution |-> "idle"]
  /\ watch = {} /\ contexts = {} /\ event = {} /\ slots = {}
  /\ dbapi = [e \in Execution |-> NoConn]
  /\ globalFree = GlobalLimit
  /\ ownerFree = [o \in Owner |-> OwnerLimit]
  /\ queue = <<>>
  /\ work = [e \in Execution |-> "none"]
  /\ result = [e \in Execution |-> "none"]
  /\ conn = [e \in Execution |-> NoConn]
  /\ interrupted = {} /\ committed = {}
  /\ hist = [e \in Execution |-> "none"]
  /\ born = [e \in Execution |-> 0]
  /\ request = [r \in Request |-> [at |-> "idle"]]
  /\ probing = [p \in Probe |-> NoConn]
  /\ up = TRUE
  /\ faults = 0

-----------------------------------------------------------------------------
(* The metastore: one transaction per call, which may fail as a whole *)

MetaFails == faults < MaxMetaFaults /\ faults' = faults + 1

\* Mutants of Updated: no WHERE clause on the status; one that asks for 'running'.
UpdatedAlways(e, s) == [hist EXCEPT ![e] = s]
UpdatedIfRunning(e, s) == IF hist[e] = "running" THEN [hist EXCEPT ![e] = s] ELSE hist

\* UPDATE ... WHERE status NOT IN (the terminal ones).
Updated(e, s) == IF hist[e] \in Live THEN [hist EXCEPT ![e] = s] ELSE hist

\* Mutant of Excess: oldest rows kept.
ExcessOfNewest(h, e) ==
  Cardinality({f \in Execution : h[f] \in Terminal /\ born[f] < born[e]}) >= HistorySize

\* Terminal rows beyond the HistorySize most recent ones.
Excess(h, e) ==
  Cardinality({f \in Execution : h[f] \in Terminal /\ born[f] > born[e]}) >= HistorySize

\* They are deleted in the transaction that makes another row terminal.
Pruned(h) ==
  [e \in Execution |-> IF h[e] \in Terminal /\ Excess(h, e) THEN "pruned" ELSE h[e]]

Status(e, s) ==
  /\ hist' = IF s \in Terminal THEN Pruned(Updated(e, s)) ELSE Updated(e, s)
  /\ UNCHANGED <<born, faults>>

StatusFails == MetaFails /\ UNCHANGED histVars

-----------------------------------------------------------------------------
(* Cancelling: set the event, then ask the driver of the connection the      *)
(* context remembers. The driver interrupts the statement that this          *)
(* connection is running, if there is one and if the driver supports it.     *)

RunningOn(cs) == {e \in Execution : conn[e] \in cs /\ work[e] \in {"executing", "retrieving"}}

Cancel(es) ==
  /\ event' = event \cup es
  /\ \E hit \in SUBSET RunningOn({dbapi[e] : e \in es} \ {NoConn}) :
       interrupted' = interrupted \cup hit

NoCancel == UNCHANGED <<event, interrupted>>

-----------------------------------------------------------------------------
(* The handler: ExecutionService.execute on the event loop *)

Goto(e, label) == pc' = [pc EXCEPT ![e] = label]

\* The handler returns or raises; its disconnect watcher is canceled.
Leave(e, a) == Goto(e, a) /\ watch' = watch \ {e}

\* The record is inserted before the context is registered.
Call(e) ==
  /\ pc[e] = "idle"
  /\ \/ /\ up
        /\ Goto(e, "inserted")
        /\ hist' = [hist EXCEPT ![e] = "queued"]
        /\ born' = [born EXCEPT ![e] = 1 + Cardinality({f \in Execution : born[f] > 0})]
        /\ UNCHANGED faults
     \/ /\ up /\ StatusFails /\ Goto(e, "error")
     \/ /\ ~up /\ Goto(e, "error") /\ UNCHANGED <<histVars, faults>>
  /\ UNCHANGED <<watch, contextVars, slotVars, workVars, interrupted, request, probing, up>>

Register(e) ==
  /\ pc[e] = "inserted"
  /\ Goto(e, "global")
  /\ contexts' = contexts \cup {e}
  /\ UNCHANGED <<watch, event, dbapi, slotVars, workVars, interrupted, histVars,
                 request, probing, up, faults>>

\* A wait that ends without a slot ends by its time limit.
AwaitGlobal(e) ==
  /\ pc[e] = "global"
  /\ IF globalFree > 0 THEN Goto(e, "owner") /\ globalFree' = globalFree - 1
                       ELSE Goto(e, "denied") /\ UNCHANGED globalFree
  /\ UNCHANGED <<watch, contextVars, slots, ownerFree, workVars, interrupted,
                 histVars, request, probing, up, faults>>

\* Without an owner's slot, the global one taken before it goes back.
AwaitOwner(e) ==
  /\ pc[e] = "owner"
  /\ IF ownerFree[OwnerOf[e]] > 0
     THEN /\ Goto(e, "granted")
          /\ ownerFree' = [ownerFree EXCEPT ![OwnerOf[e]] = @ - 1]
          /\ slots' = slots \cup {e}
          /\ UNCHANGED globalFree
     ELSE /\ Goto(e, "denied")
          /\ globalFree' = globalFree + 1
          /\ UNCHANGED <<ownerFree, slots>>
  /\ UNCHANGED <<watch, contextVars, workVars, interrupted, histVars, request, probing, up, faults>>

Deny(e) ==
  /\ pc[e] = "denied"
  /\ \/ Status(e, "failed") /\ Goto(e, "capacity") /\ contexts' = contexts \ {e}
     \/ StatusFails /\ Goto(e, "error") /\ UNCHANGED contexts
  /\ UNCHANGED <<watch, event, dbapi, slotVars, workVars, interrupted, request, probing, up>>

\* Without an executor run_in_executor falls back on the loop's default one.
Submit(e) ==
  IF up THEN /\ queue' = Append(queue, e)
             /\ work' = [work EXCEPT ![e] = "queued"]
        ELSE /\ work' = [work EXCEPT ![e] = "detached"]
             /\ UNCHANGED queue

\* When "running" cannot be recorded, the call fails with its slots taken and its
\* context registered: the callback that releases them is not installed yet.
Start(e) ==
  /\ pc[e] = "granted"
  /\ \/ /\ Status(e, "running") /\ Submit(e)
        /\ Goto(e, "waiting")
        /\ watch' = IF e \in Watched THEN watch \cup {e} ELSE watch
     \/ StatusFails /\ Goto(e, "error") /\ UNCHANGED <<queue, work, watch>>
  /\ UNCHANGED <<contextVars, slotVars, result, conn, committed, interrupted, request, probing, up>>

\* Mutant of Outcome: an error after a cancellation is answered as a cancellation.
OutcomeByEvent(e) == CASE result[e] = "rows" -> "ok"
                       [] result[e] = "aborted" -> "aborted"
                       [] e \in event -> "canceled"
                       [] OTHER -> "error"

Outcome(e) == CASE result[e] = "rows" -> "ok"
                [] result[e] \in {"canceled", "aborted"} -> result[e]
                [] OTHER -> "error"

\* The future's outcome reaches the handler.
Resume(e) ==
  /\ pc[e] = "waiting" /\ work[e] = "done"
  /\ Leave(e, Outcome(e))
  /\ UNCHANGED <<contextVars, slotVars, workVars, interrupted, histVars,
                 request, probing, up, faults>>

Expire(e) ==
  /\ Cancel({e})
  /\ Goto(e, "expiring")
  /\ UNCHANGED <<watch, contexts, dbapi, slotVars, workVars, histVars,
                 request, probing, up, faults>>

\* Mutant of TimeOut: the time limit counts from the start of the work.
TimeOutOfRunning(e) == pc[e] = "waiting" /\ work[e] \in OnThread /\ Expire(e)

\* The time limit passes before the handler resumes, whatever the work is doing.
TimeOut(e) == pc[e] = "waiting" /\ Expire(e)

RecordTimeout(e) ==
  /\ pc[e] = "expiring"
  /\ \/ Status(e, "timeout") /\ Leave(e, "timeout")
     \/ StatusFails /\ Leave(e, "error")
  /\ UNCHANGED <<contextVars, slotVars, workVars, interrupted, request, probing, up>>

Handler(e) == \/ Register(e) \/ AwaitGlobal(e) \/ AwaitOwner(e) \/ Deny(e)
              \/ Start(e) \/ Resume(e) \/ TimeOut(e) \/ RecordTimeout(e)

-----------------------------------------------------------------------------
(* The work: ExecutionService._worker and QueryService.execute_query, on a   *)
(* thread of the pool                                                        *)

Only(unchanged) == UNCHANGED <<unchanged, pc, watch, contexts, event, slotVars,
                               interrupted, born, request, probing, up>>

Enter(e, p) == work' = [work EXCEPT ![e] = p]

\* The transaction is over, the connection back in the pool; the context keeps
\* its reference to it.
Finish(e, res) == /\ Enter(e, "recording")
                  /\ result' = [result EXCEPT ![e] = res]
                  /\ conn' = [conn EXCEPT ![e] = NoConn]

\* The pool: what neither an execution nor a probe has checked out.
Taken == {conn[e] : e \in Execution} \cup {probing[p] : p \in Probe}
FreeConn == Conn \ Taken

ThreadFree == Cardinality({e \in Execution : work[e] \in OnThread}) < Workers

\* A thread takes the oldest item of the queue, and asks the pool for a connection.
Take(e) ==
  /\ \/ /\ work[e] = "queued" /\ queue # <<>> /\ e = Head(queue) /\ ThreadFree
        /\ queue' = Tail(queue)
     \/ work[e] = "detached" /\ UNCHANGED queue
  /\ Enter(e, "connecting")
  /\ Only(<<result, conn, dbapi, committed, hist, faults>>)

\* The connection is registered in the context. The statement may have been refused
\* before, the wait for the pool may end by its time limit and the connection may fail.
Begin(e) ==
  /\ work[e] = "connecting"
  /\ \/ \E c \in FreeConn : /\ Enter(e, "begun")
                            /\ conn' = [conn EXCEPT ![e] = c]
                            /\ dbapi' = [dbapi EXCEPT ![e] = c]
                            /\ UNCHANGED result
     \/ Finish(e, "error") /\ UNCHANGED dbapi
  /\ Only(<<queue, committed, hist, faults>>)

\* Mutant of GoOnUnlessCanceled: no last look before the commit.
GoOnToCommit(e, next) ==
  IF e \in event /\ next # "committing"
  THEN Finish(e, "canceled") ELSE Enter(e, next) /\ UNCHANGED <<result, conn>>

\* The thread looks at the cancel event before it goes on.
GoOnUnlessCanceled(e, next) ==
  IF e \in event THEN Finish(e, "canceled")
                 ELSE Enter(e, next) /\ UNCHANGED <<result, conn>>

\* A call of the driver returns, or raises; an interrupted one always raises.
DriverReturns(e, nexts) ==
  \/ e \notin interrupted /\ (\E p \in nexts : Enter(e, p)) /\ UNCHANGED <<result, conn>>
  \/ Finish(e, "error")

\* Mutant of RollsBack: nothing does.
RollsBackNever(e) == FALSE

RollsBack(e) == e \notin Write

\* The statement is sent, its rows are fetched if it has any (one turn of the
\* fetch loop: the turns before the last change nothing here), and then reads and
\* tests roll back, while a write looks at the event one last time.
Execute(e) ==
  /\ \/ work[e] = "begun" /\ GoOnUnlessCanceled(e, "executing")
     \/ work[e] = "executing" /\ DriverReturns(e, {"fetching", "deciding"})
     \/ work[e] = "fetching" /\ GoOnUnlessCanceled(e, "retrieving")
     \/ work[e] = "retrieving" /\ DriverReturns(e, {"deciding"})
     \/ /\ work[e] = "deciding" /\ RollsBack(e)
        /\ \E res \in {"rows", "error"} : Finish(e, res)
     \/ /\ work[e] = "deciding" /\ ~RollsBack(e)
        /\ GoOnUnlessCanceled(e, "committing")
  /\ Only(<<queue, dbapi, committed, hist, faults>>)

\* The commit succeeds, or fails before or after Firebird made it durable.
Commit(e) ==
  /\ work[e] = "committing"
  /\ \/ Finish(e, "rows") /\ committed' = committed \cup {e}
     \/ Finish(e, "error") /\ committed' \in {committed, committed \cup {e}}
  /\ Only(<<queue, dbapi, hist, faults>>)

\* Mutant of FinalStatus: an error after a cancellation is recorded as one.
FinalStatusByEvent(e) == CASE result[e] = "rows" -> "completed"
                           [] e \in event -> "canceled"
                           [] OTHER -> "failed"

FinalStatus(e) == CASE result[e] = "rows" -> "completed"
                    [] result[e] = "canceled" -> "canceled"
                    [] OTHER -> "failed"

\* The status is recorded. A failure to record "completed" is handled as a failed
\* execution, which is recorded in turn; any other failure is raised.
Record(e) ==
  /\ work[e] = "recording"
  /\ \/ /\ Status(e, FinalStatus(e))
        /\ Enter(e, "leaving") /\ UNCHANGED result
     \/ /\ StatusFails
        /\ result' = [result EXCEPT ![e] = "error"]
        /\ IF result[e] = "rows" THEN UNCHANGED work ELSE Enter(e, "leaving")
  /\ Only(<<queue, dbapi, conn, committed>>)

\* The context is dropped and the thread is done with the future.
Drop(e) ==
  /\ work[e] = "leaving"
  /\ Enter(e, "left")
  /\ contexts' = contexts \ {e}
  /\ UNCHANGED <<pc, watch, event, dbapi, slotVars, queue, result, conn, committed,
                 interrupted, histVars, request, probing, up, faults>>

\* Mutant of HoldsSlots: the context is looked up among the registered ones.
HoldsSlotsAndContext(e) == e \in slots /\ e \in contexts

HoldsSlots(e) == e \in slots

\* Mutant of GiveBack: the owner's slot is forgotten.
GiveBackGlobal(e) == /\ globalFree' = globalFree + 1
                     /\ slots' = slots \ {e}
                     /\ UNCHANGED ownerFree

GiveBack(e) == /\ globalFree' = globalFree + 1
               /\ ownerFree' = [ownerFree EXCEPT ![OwnerOf[e]] = @ + 1]
               /\ slots' = slots \ {e}

\* Back on the event loop, the future's callback releases the slots.
Release(e) ==
  /\ work[e] = "left"
  /\ Enter(e, "done")
  /\ IF HoldsSlots(e) THEN GiveBack(e) ELSE UNCHANGED slotVars
  /\ UNCHANGED <<pc, watch, contextVars, queue, result, conn, committed, interrupted,
                 histVars, request, probing, up, faults>>

Worker(e) == \/ Take(e) \/ Begin(e) \/ Execute(e) \/ Commit(e) \/ Record(e)
             \/ Drop(e) \/ Release(e)

-----------------------------------------------------------------------------
(* Readiness probes: ready of app/main.py, on a thread of the server *)

\* A probe takes a free connection; one that finds none changes nothing here.
Ready(p) ==
  /\ probing[p] = NoConn
  /\ \E c \in FreeConn : probing' = [probing EXCEPT ![p] = c]
  /\ UNCHANGED <<pc, watch, contextVars, slotVars, workVars, interrupted, histVars,
                 request, up, faults>>

\* Its statement returns or fails.
ReadyEnds(p) ==
  /\ probing[p] # NoConn
  /\ probing' = [probing EXCEPT ![p] = NoConn]
  /\ UNCHANGED <<pc, watch, contextVars, slotVars, workVars, interrupted, histVars,
                 request, up, faults>>

-----------------------------------------------------------------------------
(* Cancelling *)

\* The watcher finds the client gone, or finds that the execution has ended.
WatchDisconnect(e) ==
  /\ e \in watch
  /\ \/ Cancel({e})
     \/ e \notin contexts /\ NoCancel
  /\ watch' = watch \ {e}
  /\ UNCHANGED <<pc, contexts, dbapi, slotVars, workVars, histVars, request, probing, up, faults>>

\* request_cancel reads the row, then looks the context up and cancels it, then
\* records the request.
CancelRead(r, e) ==
  /\ request[r].at = "idle" /\ hist[e] # "none"
  /\ \E at \in {"read", "refused", "failed"} :
       /\ request' = [request EXCEPT ![r] = [at |-> at, target |-> e]]
       /\ IF at = "failed" THEN MetaFails
          ELSE (at = "read" <=> hist[e] \in Live) /\ UNCHANGED faults
  /\ UNCHANGED <<pc, watch, contextVars, slotVars, workVars, interrupted, histVars, probing, up>>

CancelSignal(r) ==
  /\ request[r].at = "read"
  /\ IF request[r].target \in contexts THEN Cancel({request[r].target}) ELSE NoCancel
  /\ request' = [request EXCEPT ![r].at = "signaled"]
  /\ UNCHANGED <<pc, watch, contexts, dbapi, slotVars, workVars, histVars, probing, up, faults>>

CancelRecord(r) ==
  /\ request[r].at = "signaled"
  /\ \/ Status(request[r].target, "cancel_requested")
        /\ request' = [request EXCEPT ![r].at = "ok"]
     \/ StatusFails /\ request' = [request EXCEPT ![r].at = "failed"]
  /\ UNCHANGED <<pc, watch, contextVars, slotVars, workVars, interrupted, probing, up>>

\* shutdown is a coroutine too: it never runs inside another coroutine's step
\* from insertion to registration, or from time limit to status.
Shutdown ==
  /\ up /\ \A e \in Execution : pc[e] \notin {"inserted", "expiring"}
  /\ Cancel(contexts)
  /\ contexts' = {}
  /\ up' = FALSE
  /\ queue' = <<>>
  /\ LET dropped == {e \in Execution : work[e] = "queued"}
     IN  /\ work' = [e \in Execution |-> IF e \in dropped THEN "left" ELSE work[e]]
         /\ result' = [e \in Execution |-> IF e \in dropped THEN "aborted" ELSE result[e]]
  /\ UNCHANGED <<pc, watch, dbapi, slotVars, conn, committed, histVars, request, probing, faults>>

-----------------------------------------------------------------------------

Next == \/ \E e \in Execution : Call(e) \/ Handler(e) \/ Worker(e) \/ WatchDisconnect(e)
        \/ \E r \in Request, e \in Execution : CancelRead(r, e)
        \/ \E r \in Request : CancelSignal(r) \/ CancelRecord(r)
        \/ \E p \in Probe : Ready(p) \/ ReadyEnds(p)
        \/ Shutdown

Spec == Init /\ [][Next]_vars

-----------------------------------------------------------------------------
(* Safety *)

\* Type invariant.
TypeOK ==
  /\ pc \in [Execution -> {"idle"} \cup Waiting \cup Answered]
  /\ watch \subseteq Watched
  /\ contexts \subseteq Execution /\ event \subseteq Execution
  /\ slots \subseteq Execution
  /\ interrupted \subseteq Execution /\ committed \subseteq Write
  /\ dbapi \in [Execution -> Conn \cup {NoConn}]
  /\ conn \in [Execution -> Conn \cup {NoConn}]
  /\ globalFree \in Nat
  /\ ownerFree \in [Owner -> Nat]
  /\ queue \in Seq(Execution)
  /\ work \in [Execution -> Phase]
  /\ result \in [Execution -> {"none", "rows", "canceled", "error", "aborted"}]
  /\ hist \in [Execution -> {"none", "pruned"} \cup Live \cup Terminal]
  /\ born \in [Execution -> Nat]
  /\ request \in [Request -> [at : {"idle"}] \cup
                             [at : {"read", "signaled", "ok", "refused", "failed"},
                              target : Execution]]
  /\ probing \in [Probe -> Conn \cup {NoConn}]
  /\ up \in BOOLEAN
  /\ faults \in 0..MaxMetaFaults

\* What the place of the handler and of the work say of each other, of the slots,
\* of the transaction and of the recorded status: with TypeOK, an inductive
\* invariant.
Over == {"recording", "leaving", "left", "done"}
Submitted == {"waiting", "expiring", "ok", "canceled", "timeout", "error", "aborted"}

PlacedAt(e) ==
  /\ work[e] # "none" => pc[e] \in Submitted
  /\ pc[e] \in {"waiting", "expiring"} => work[e] # "none"
  /\ pc[e] \in {"ok", "canceled"} => work[e] = "done"
  /\ e \in slots => pc[e] \in {"granted"} \cup Submitted
  /\ pc[e] = "granted" => e \in slots
  /\ work[e] = "committing" => e \in Write
  /\ e \in committed => work[e] \in Over /\ result[e] # "canceled"
  /\ result[e] = "rows" /\ e \in Write => e \in committed
  /\ work[e] \in Over => result[e] # "none"
  /\ work[e] \notin Over => result[e] = "none"
  /\ hist[e] = "canceled" => e \notin committed /\ work[e] \in Over
  /\ hist[e] = "completed" /\ e \in Write => e \in committed

Placed == \A e \in Execution : PlacedAt(e)

\* Both semaphores account for exactly the executions that hold them: no path
\* through acquisition, refusal, shutdown and the release callback loses a slot
\* or gives one back twice.
SlotAccounting ==
  /\ globalFree = GlobalLimit -
       Cardinality({e \in Execution : e \in slots \/ pc[e] = "owner"})
  /\ \A o \in Owner :
       ownerFree[o] = OwnerLimit - Cardinality({e \in slots : OwnerOf[e] = o})

\* The only slots that outlive their execution are those of a call that failed
\* between acquiring them and submitting the work.
SlotsFollowWork ==
  \A e \in slots :
    \/ pc[e] = "granted"
    \/ work[e] \notin {"none", "done"}
    \/ pc[e] = "error" /\ work[e] = "none" /\ faults > 0

\* No two threads, of executions or of probes, share a Firebird connection, and while the
\* service is up no more threads wait for one than there are connections that are free or
\* that probes have: only probes make a thread wait, and each of them one at most.
ConnectionsSuffice ==
  /\ \A e, f \in Execution : e # f /\ conn[e] = conn[f] => conn[e] = NoConn
  /\ \A p, q \in Probe : p # q /\ probing[p] = probing[q] => probing[p] = NoConn
  /\ \A e \in Execution, p \in Probe : conn[e] = probing[p] => conn[e] = NoConn
  /\ up /\ Conn # {} =>
       Cardinality({e \in Execution : work[e] = "connecting"})
         <= Cardinality(FreeConn) + Cardinality({p \in Probe : probing[p] # NoConn})

\* execution_history: the outcome it shows agrees with Firebird where it claims
\* to know it.
HistoryIsTrue ==
  \A e \in Write : /\ hist[e] = "canceled" => e \notin committed
                   /\ hist[e] = "completed" => e \in committed

\* Threads, the event loop and administrators update the same row: whichever
\* finishes it first wins, and only pruning touches it afterwards.
FirstOutcomeStands ==
  [][\A e \in Execution :
       hist[e] \in Terminal \cup {"pruned"} => hist'[e] \in {hist[e], "pruned"}]_hist

\* Every final status prunes the table (_status): never more than query_history_size
\* finished executions stay, none is removed while there are fewer, and those that are
\* removed are older than those that stay, in whatever order they finished.
PrunesOldest ==
  [][LET finished == {e \in Execution : hist'[e] \in Terminal}
         removed == {e \in Execution : hist[e] # "pruned" /\ hist'[e] = "pruned"}
     IN  /\ Cardinality(finished) <= HistorySize
         /\ removed # {} => Cardinality(finished) = HistorySize
         /\ \A e \in removed, f \in finished : born[f] > born[e]]_hist

\* A cancellation that sets the event before the thread's last look at it is
\* honoured: the execution never commits.
CancelIsHonoured ==
  \A e \in Execution :
    [](e \in event /\ work[e] \in {"none"} \cup Stoppable => [](e \notin committed))

\* What callers are promised: ExecutionContract.
Answer(e) == CASE pc[e] = "ok" -> "ok"
               [] pc[e] \in {"canceled", "capacity"} -> "stopped"
               [] pc[e] \in {"timeout", "error", "aborted"} -> "unknown"
               [] OTHER -> "none"

Contract == INSTANCE ExecutionContract WITH
              answer <- [e \in Execution |-> Answer(e)], effect <- committed

ImplementsContract == Contract!Spec

-----------------------------------------------------------------------------
(* Liveness *)

\* The event loop runs the handlers: every wait in them has a time limit.
HandlerFairness == \A e \in Execution : WF_vars(Handler(e))

\* Firebird and its driver answer, the threads and the callbacks run.
WorkerFairness == \A e \in Execution : WF_vars(Worker(e))

HandlerSpec == Spec /\ HandlerFairness

\* Every call is answered, even if Firebird never is.
CallsReturn == \A e \in Execution : pc[e] \in Waiting ~> pc[e] \in Answered

\* If Firebird answers, every slot comes back, unless the metastore failed between
\* taking it and submitting the work.
SlotsComeBack ==
  WorkerFairness => \A e \in Execution :
    e \in slots ~> e \notin slots \/ (pc[e] = "error" /\ work[e] = "none")

\* If Firebird answers, and while the service is up and the metastore answers too,
\* every recorded execution gets an outcome.
HistorySettles ==
  WorkerFairness => \A e \in Execution :
    hist[e] \in Live ~> hist[e] \notin Live \/ ~up \/ faults > 0
====
