---- MODULE ExecutionServiceProofs ----
(***************************************************************************)
(* What is proved of ExecutionService for every value of its constants:    *)
(* every execution is where its context, its thread and its history row    *)
(* say; the two levels of semaphores account for exactly the executions    *)
(* that hold them, and only readiness probes make a thread wait for a      *)
(* connection of the pool. The service                                     *)
(* implements ExecutionContract, its history rows keep the first outcome   *)
(* recorded, the table keeps the latest ones, and a cancellation that      *)
(* comes in time is honoured.                                              *)
(***************************************************************************)
EXTENDS ExecutionService, FiniteSetTheorems, WellFoundedInduction, TLAPS

USE DEF contextVars, slotVars, workVars, histVars

\* The inductive invariant.
IInv == TypeOK /\ Placed /\ SlotsFollowWork

-----------------------------------------------------------------------------
(* What the helpers do *)

HistType == {"none", "pruned"} \cup Live \cup Terminal

\* A recorded status: it reaches its own row if that row is not finished; the
\* other rows are kept or pruned.
LEMMA StatusFrame ==
  ASSUME TypeOK, NEW e \in Execution, NEW s \in Live \cup Terminal, Status(e, s)
  PROVE  /\ hist' \in [Execution -> HistType]
         /\ \A f \in Execution : \/ hist'[f] \in {hist[f], "pruned"}
                                 \/ f = e /\ hist'[f] = s /\ hist[f] \in Live
         /\ \A f \in Execution : hist[f] \in Terminal \cup {"pruned"}
                                   => hist'[f] \in {hist[f], "pruned"}
         /\ UNCHANGED <<born, faults>>
<1>1. hist \in [Execution -> HistType]
  BY DEF TypeOK, HistType
<1>2. /\ Updated(e, s) \in [Execution -> HistType]
      /\ \A f \in Execution : \/ Updated(e, s)[f] = hist[f]
                              \/ f = e /\ Updated(e, s)[f] = s /\ hist[f] \in Live
  BY <1>1 DEF Updated, HistType
<1>3. hist' = Pruned(Updated(e, s)) \/ hist' = Updated(e, s)
  BY DEF Status
<1>4. /\ hist' \in [Execution -> HistType]
      /\ \A f \in Execution : hist'[f] \in {Updated(e, s)[f], "pruned"}
  BY <1>2, <1>3 DEF Pruned, HistType
<1>5. Live \cap (Terminal \cup {"pruned"}) = {}
  BY DEF Live, Terminal
<1> QED
  BY <1>2, <1>4, <1>5 DEF Status

\* Cancelling sets events and interrupts statements of known executions.
LEMMA CancelFrame ==
  ASSUME TypeOK, NEW es \in SUBSET Execution, Cancel(es)
  PROVE  event' \subseteq Execution /\ interrupted' \subseteq Execution
  BY DEF TypeOK, Cancel, RunningOn

-----------------------------------------------------------------------------
(* The first state *)

\* The invariant holds when the process starts.
LEMMA InitIInv == Init => IInv
  BY ExecutionAssumption
  DEF Init, IInv, TypeOK, Placed, PlacedAt, SlotsFollowWork, Waiting, Answered, Phase, OnThread,
      Connected, Over, Submitted

-----------------------------------------------------------------------------
(* The handler *)

PcType == {"idle"} \cup Waiting \cup Answered

\* Goto keeps the type of the handlers.
LEMMA GotoFrame ==
  ASSUME TypeOK, NEW e \in Execution, NEW label \in PcType, Goto(e, label)
  PROVE  /\ pc' \in [Execution -> PcType]
         /\ pc'[e] = label
         /\ \A f \in Execution \ {e} : pc'[f] = pc[f]
<1>1. pc' = [pc EXCEPT ![e] = label] /\ pc \in [Execution -> PcType]
  BY DEF TypeOK, Goto, PcType
<1> QED BY <1>1

\* Call preserves the invariant.
LEMMA CallIInv == ASSUME IInv, NEW e \in Execution, Call(e) PROVE IInv'
<1> USE DEF IInv
<1> DEFINE rows == {f \in Execution : born[f] > 0}
<1>1. Cardinality(rows) \in Nat
  BY FS_Subset, FS_CardinalityType, ExecutionAssumption
<1>2. UNCHANGED <<watch, contextVars, slotVars, workVars, interrupted, request, probing, up>>
  BY DEF Call
<1>3. /\ pc[e] = "idle"
      /\ pc' \in [Execution -> PcType]
      /\ \A f \in Execution : pc'[f] = pc[f] \/ (f = e /\ pc'[f] \in {"inserted", "error"})
  <2>1. PICK label \in {"inserted", "error"} : Goto(e, label)
    BY DEF Call
  <2>2. {"inserted", "error"} \subseteq PcType
    BY DEF PcType, Waiting, Answered
  <2>3. pc[e] = "idle"
    BY DEF Call
  <2>4. label \in PcType
    BY <2>1, <2>2
  <2>5. /\ pc' \in [Execution -> PcType]
        /\ pc'[e] = label
        /\ \A f \in Execution \ {e} : pc'[f] = pc[f]
    BY <2>1, <2>4, GotoFrame
  <2> QED
    BY <2>1, <2>3, <2>5
<1>4. /\ hist' \in [Execution -> HistType]
      /\ \A f \in Execution : hist'[f] \in {hist[f], "queued"}
  <2>1. hist' = hist \/ hist' = [hist EXCEPT ![e] = "queued"]
    BY DEF Call, StatusFails
  <2> QED
    BY <2>1 DEF TypeOK, HistType, Live
<1>5. born' \in [Execution -> Nat]
  BY <1>1 DEF TypeOK, Call, StatusFails
<1>6. faults' \in 0..MaxMetaFaults /\ faults' >= faults
  BY ExecutionAssumption DEF TypeOK, Call, StatusFails, MetaFails
<1>7. TypeOK'
  BY <1>2, <1>3, <1>4, <1>5, <1>6 DEF TypeOK, PcType, HistType
<1>8. Placed'
  BY <1>2, <1>3, <1>4 DEF TypeOK, Placed, PlacedAt, Submitted
<1>9. SlotsFollowWork'
  <2> SUFFICES ASSUME NEW f \in slots
               PROVE  \/ pc'[f] = "granted"
                      \/ work[f] \notin {"none", "done"}
                      \/ pc'[f] = "error" /\ work[f] = "none" /\ faults' > 0
    BY <1>2 DEF SlotsFollowWork
  <2>1. f # e
    BY <1>3 DEF TypeOK, Placed, PlacedAt, Submitted
  <2> QED
    BY <1>3, <1>6, <2>1, ExecutionAssumption DEF TypeOK, SlotsFollowWork
<1> QED BY <1>7, <1>8, <1>9

\* Register preserves the invariant.
LEMMA RegisterIInv == ASSUME IInv, NEW e \in Execution, Register(e) PROVE IInv'
<1>1. TypeOK'
  BY DEF IInv, TypeOK, Register, Goto, Waiting
<1>2. Placed'
  BY DEF IInv, TypeOK, Placed, PlacedAt, Register, Goto, Submitted, Over
<1>3. SlotsFollowWork'
  BY DEF IInv, TypeOK, Placed, PlacedAt, SlotsFollowWork, Register, Goto, Submitted
<1> QED BY <1>1, <1>2, <1>3 DEF IInv

\* AwaitGlobal preserves the invariant.
LEMMA AwaitGlobalIInv == ASSUME IInv, NEW e \in Execution, AwaitGlobal(e) PROVE IInv'
<1> USE DEF IInv
<1>1. pc' \in [Execution -> PcType]
  BY DEF TypeOK, AwaitGlobal, Goto, Waiting, PcType
<1>2. globalFree' \in Nat
  BY DEF TypeOK, AwaitGlobal
<1>5. TypeOK'
  BY <1>1, <1>2 DEF TypeOK, AwaitGlobal, PcType
<1>3. Placed'
  BY DEF TypeOK, Placed, PlacedAt, AwaitGlobal, Goto, Submitted, Over
<1>4. SlotsFollowWork'
  BY DEF TypeOK, Placed, PlacedAt, SlotsFollowWork, AwaitGlobal, Goto, Submitted
<1> QED BY <1>3, <1>4, <1>5

\* AwaitOwner preserves the invariant.
LEMMA AwaitOwnerIInv == ASSUME IInv, NEW e \in Execution, AwaitOwner(e) PROVE IInv'
<1> USE DEF IInv
<1>1. OwnerOf[e] \in Owner
  BY ExecutionAssumption
<1>2. pc' \in [Execution -> PcType]
  BY DEF TypeOK, AwaitOwner, Goto, Waiting, PcType
<1>3. slots' \subseteq Execution /\ globalFree' \in Nat
  BY DEF TypeOK, AwaitOwner
<1>4. ownerFree' \in [Owner -> Nat]
  <2>1. ownerFree \in [Owner -> Nat]
    BY DEF TypeOK
  <2>2. \/ /\ ownerFree[OwnerOf[e]] > 0
           /\ ownerFree' = [ownerFree EXCEPT ![OwnerOf[e]] = @ - 1]
        \/ ownerFree' = ownerFree
    BY DEF AwaitOwner
  <2> QED BY <1>1, <2>1, <2>2
<1>5. TypeOK'
  BY <1>2, <1>3, <1>4 DEF TypeOK, AwaitOwner, PcType
<1>6. /\ pc[e] = "owner"
      /\ \A f \in Execution \ {e} : pc'[f] = pc[f]
      /\ \/ slots' = slots /\ pc'[e] = "denied"
         \/ slots' = slots \cup {e} /\ pc'[e] = "granted"
      /\ UNCHANGED <<workVars, histVars, faults>>
  <2>1. {"granted", "denied"} \subseteq PcType
    BY DEF PcType, Waiting
  <2>2. \/ slots' = slots /\ Goto(e, "denied")
        \/ slots' = slots \cup {e} /\ Goto(e, "granted")
    BY DEF AwaitOwner
  <2> QED
    BY <2>1, <2>2, GotoFrame DEF AwaitOwner
<1>7. Placed'
  BY <1>6 DEF TypeOK, Placed, PlacedAt, Submitted, Over
<1>8. SlotsFollowWork'
  BY <1>6 DEF TypeOK, Placed, PlacedAt, SlotsFollowWork, Submitted
<1> QED BY <1>5, <1>7, <1>8

\* Deny preserves the invariant.
LEMMA DenyIInv == ASSUME IInv, NEW e \in Execution, Deny(e) PROVE IInv'
<1> USE DEF IInv
<1>1. /\ hist' \in [Execution -> HistType]
      /\ \A f \in Execution : hist'[f] \in {hist[f], "pruned", "failed"}
      /\ born' = born
  BY StatusFrame DEF TypeOK, Deny, StatusFails, HistType, Terminal
<1>2. faults' \in 0..MaxMetaFaults /\ faults' >= faults
  BY ExecutionAssumption DEF TypeOK, Deny, Status, StatusFails, MetaFails
<1>3. /\ pc[e] = "denied"
      /\ pc' \in [Execution -> PcType]
      /\ \A f \in Execution : pc'[f] = pc[f] \/ (f = e /\ pc'[f] \in {"capacity", "error"})
  <2>1. PICK label \in {"capacity", "error"} : Goto(e, label)
    BY DEF Deny
  <2>2. {"capacity", "error"} \subseteq PcType
    BY DEF PcType, Answered
  <2>3. pc[e] = "denied"
    BY DEF Deny
  <2>4. label \in PcType
    BY <2>1, <2>2
  <2>5. /\ pc' \in [Execution -> PcType]
        /\ pc'[e] = label
        /\ \A f \in Execution \ {e} : pc'[f] = pc[f]
    BY <2>1, <2>4, GotoFrame
  <2> QED
    BY <2>1, <2>3, <2>5
<1>4. /\ contexts' \subseteq Execution
      /\ UNCHANGED <<watch, event, dbapi, slotVars, workVars, interrupted, request, probing, up>>
  BY DEF TypeOK, Deny
<1>5. TypeOK'
  BY <1>1, <1>2, <1>3, <1>4 DEF TypeOK, HistType, PcType
<1>6. Placed'
  BY <1>1, <1>3, <1>4 DEF TypeOK, Placed, PlacedAt, Submitted
<1>7. SlotsFollowWork'
  <2>1. e \notin slots
    BY <1>3 DEF TypeOK, Placed, PlacedAt, Submitted
  <2> QED
    BY <1>2, <1>3, <1>4, <2>1, ExecutionAssumption DEF TypeOK, SlotsFollowWork
<1> QED BY <1>5, <1>6, <1>7

\* Start preserves the invariant.
LEMMA StartIInv == ASSUME IInv, NEW e \in Execution, Start(e) PROVE IInv'
<1> USE DEF IInv
<1>1. /\ pc[e] = "granted" /\ work[e] = "none" /\ result[e] = "none"
      /\ e \notin committed
      /\ UNCHANGED <<contextVars, slotVars, result, conn, committed, interrupted,
                     request, probing, up>>
  BY DEF Start, Placed, PlacedAt, TypeOK, Submitted, Over
<1>2. CASE Status(e, "running") /\ Submit(e) /\ Goto(e, "waiting")
  <2>1. /\ hist' \in [Execution -> HistType]
        /\ \A f \in Execution : hist'[f] \in {hist[f], "pruned", "running"}
        /\ UNCHANGED <<born, faults>>
    BY <1>2, StatusFrame DEF TypeOK, Live
  <2>2. /\ pc' \in [Execution -> PcType]
        /\ pc'[e] = "waiting"
        /\ \A f \in Execution \ {e} : pc'[f] = pc[f]
    BY <1>2, GotoFrame DEF TypeOK, PcType, Waiting
  <2>3. /\ work' \in [Execution -> Phase]
        /\ work'[e] \in {"queued", "detached"}
        /\ \A f \in Execution \ {e} : work'[f] = work[f]
    BY <1>2 DEF TypeOK, Submit, Phase
  <2>4. queue' \in Seq(Execution)
    <3>1. queue \in Seq(Execution) /\ queue' \in {queue, Append(queue, e)}
      BY <1>2 DEF TypeOK, Submit
    <3> QED BY <3>1
  <2>5. watch' \subseteq Watched
    BY <1>2 DEF TypeOK, Start
  <2>6. TypeOK'
    BY <1>1, <2>1, <2>2, <2>3, <2>4, <2>5 DEF TypeOK, PcType, HistType
  <2>7. PlacedAt(e)'
    BY <1>1, <2>1, <2>2, <2>3 DEF TypeOK, Placed, PlacedAt, Submitted, Over
  <2>8. ASSUME NEW f \in Execution \ {e} PROVE PlacedAt(f)'
    BY <1>1, <2>1, <2>2, <2>3 DEF TypeOK, Placed, PlacedAt
  <2>9. Placed'
    BY <2>7, <2>8 DEF Placed
  <2>10. SlotsFollowWork'
    BY <1>1, <2>1, <2>2, <2>3 DEF TypeOK, SlotsFollowWork
  <2> QED BY <2>6, <2>9, <2>10
<1>3. CASE StatusFails /\ Goto(e, "error") /\ UNCHANGED <<queue, work, watch>>
  <2>1. /\ pc' \in [Execution -> PcType]
        /\ pc'[e] = "error"
        /\ \A f \in Execution \ {e} : pc'[f] = pc[f]
    BY <1>3, GotoFrame DEF TypeOK, PcType, Answered
  <2>2. faults' \in 0..MaxMetaFaults /\ faults' > 0 /\ UNCHANGED histVars
    BY <1>3, ExecutionAssumption DEF TypeOK, StatusFails, MetaFails
  <2>3. TypeOK'
    BY <1>1, <1>3, <2>1, <2>2 DEF TypeOK, PcType
  <2>4. Placed'
    BY <1>1, <1>3, <2>1, <2>2 DEF TypeOK, Placed, PlacedAt, Submitted
  <2>5. SlotsFollowWork'
    BY <1>1, <1>3, <2>1, <2>2 DEF TypeOK, SlotsFollowWork
  <2> QED BY <2>3, <2>4, <2>5
<1> QED BY <1>2, <1>3 DEF Start

\* Resume preserves the invariant.
LEMMA ResumeIInv == ASSUME IInv, NEW e \in Execution, Resume(e) PROVE IInv'
<1> USE DEF IInv
<1>1. /\ work[e] = "done"
      /\ e \notin slots
      /\ watch' \subseteq Watched
      /\ UNCHANGED <<contextVars, slotVars, workVars, interrupted, histVars,
                     request, probing, up, faults>>
  BY DEF Resume, Leave, TypeOK, SlotsFollowWork
<1>2. Outcome(e) \in {"ok", "canceled", "aborted", "error"}
  BY DEF Outcome
<1>3. /\ pc' \in [Execution -> PcType]
      /\ pc'[e] \in {"ok", "canceled", "aborted", "error"}
      /\ \A f \in Execution \ {e} : pc'[f] = pc[f]
  BY <1>2, GotoFrame DEF Resume, Leave, PcType, Answered
<1>4. TypeOK'
  BY <1>1, <1>3 DEF TypeOK, PcType
<1>5. Placed'
  BY <1>1, <1>3 DEF TypeOK, Placed, PlacedAt, Submitted
<1>6. SlotsFollowWork'
  BY <1>1, <1>3 DEF TypeOK, SlotsFollowWork
<1> QED BY <1>4, <1>5, <1>6

\* TimeOut preserves the invariant.
LEMMA TimeOutIInv == ASSUME IInv, NEW e \in Execution, TimeOut(e) PROVE IInv'
<1> USE DEF IInv
<1>1. /\ pc[e] = "waiting" /\ work[e] # "none"
      /\ UNCHANGED <<watch, contexts, dbapi, slotVars, workVars, histVars,
                     request, probing, up, faults>>
  BY DEF TimeOut, Expire, TypeOK, Placed, PlacedAt
<1>2. event' \subseteq Execution /\ interrupted' \subseteq Execution
  BY CancelFrame DEF TimeOut, Expire
<1>3. /\ pc' \in [Execution -> PcType]
      /\ pc'[e] = "expiring"
      /\ \A f \in Execution \ {e} : pc'[f] = pc[f]
  BY GotoFrame DEF TimeOut, Expire, PcType, Waiting
<1>4. TypeOK'
  BY <1>1, <1>2, <1>3 DEF TypeOK, PcType
<1>5. Placed'
  BY <1>1, <1>3 DEF TypeOK, Placed, PlacedAt, Submitted
<1>6. SlotsFollowWork'
  BY <1>1, <1>3 DEF TypeOK, SlotsFollowWork
<1> QED BY <1>4, <1>5, <1>6

\* RecordTimeout preserves the invariant.
LEMMA RecordTimeoutIInv == ASSUME IInv, NEW e \in Execution, RecordTimeout(e) PROVE IInv'
<1> USE DEF IInv
<1>1. /\ pc[e] = "expiring" /\ work[e] # "none"
      /\ watch' \subseteq Watched
      /\ UNCHANGED <<contextVars, slotVars, workVars, interrupted, request, probing, up>>
  BY DEF RecordTimeout, Leave, TypeOK, Placed, PlacedAt
<1>2. /\ hist' \in [Execution -> HistType]
      /\ \A f \in Execution : hist'[f] \in {hist[f], "pruned", "timeout"}
      /\ born' = born
  BY StatusFrame DEF TypeOK, RecordTimeout, StatusFails, HistType, Terminal
<1>3. faults' \in 0..MaxMetaFaults /\ faults' >= faults
  BY ExecutionAssumption DEF TypeOK, RecordTimeout, Status, StatusFails, MetaFails
<1>4. /\ pc' \in [Execution -> PcType]
      /\ pc'[e] \in {"timeout", "error"}
      /\ \A f \in Execution \ {e} : pc'[f] = pc[f]
  BY GotoFrame DEF RecordTimeout, Leave, PcType, Answered
<1>5. TypeOK'
  BY <1>1, <1>2, <1>3, <1>4 DEF TypeOK, HistType, PcType
<1>6. Placed'
  BY <1>1, <1>2, <1>4 DEF TypeOK, Placed, PlacedAt, Submitted
<1>7. SlotsFollowWork'
  BY <1>1, <1>3, <1>4, ExecutionAssumption DEF TypeOK, SlotsFollowWork
<1> QED BY <1>5, <1>6, <1>7

-----------------------------------------------------------------------------
(* The work *)

ResultType == {"none", "rows", "canceled", "error", "aborted"}

\* The part of the invariant a step of the work cannot disturb, once its types
\* and its own place are known.
LEMMA WorkerFrame ==
  ASSUME IInv, NEW e \in Execution, Only(<<>>),
         work[e] \notin {"none", "done"},
         work' \in [Execution -> Phase], work'[e] \notin {"none", "done"},
         \A f \in Execution \ {e} : work'[f] = work[f],
         result' \in [Execution -> ResultType],
         \A f \in Execution \ {e} : result'[f] = result[f],
         committed' \subseteq Write,
         \A f \in Execution \ {e} : f \in committed' <=> f \in committed,
         conn' \in [Execution -> Conn \cup {NoConn}],
         dbapi' \in [Execution -> Conn \cup {NoConn}],
         queue' \in Seq(Execution),
         hist' \in [Execution -> HistType],
         \A f \in Execution \ {e} : hist'[f] \in {hist[f], "pruned"},
         faults' \in 0..MaxMetaFaults, faults' >= faults,
         PlacedAt(e)'
  PROVE  IInv'
<1> USE DEF IInv
<1>1. UNCHANGED <<pc, watch, contexts, event, slots, globalFree, ownerFree, interrupted,
                  born, request, probing, up>>
  BY DEF Only
<1>2. TypeOK'
  BY <1>1 DEF TypeOK, ResultType, HistType
<1>3. ASSUME NEW f \in Execution \ {e} PROVE PlacedAt(f)'
  BY <1>1 DEF TypeOK, Placed, PlacedAt
<1>4. Placed'
  BY <1>3 DEF Placed
<1>5. SlotsFollowWork'
  BY <1>1, ExecutionAssumption DEF TypeOK, SlotsFollowWork
<1> QED BY <1>2, <1>4, <1>5

\* The work of an execution whose transaction is not over stands in Connected.
LEMMA FinishFrame ==
  ASSUME TypeOK, NEW e \in Execution, NEW res \in ResultType, Finish(e, res)
  PROVE  /\ work' \in [Execution -> Phase]
         /\ work'[e] = "recording"
         /\ \A f \in Execution \ {e} : work'[f] = work[f]
         /\ result' \in [Execution -> ResultType]
         /\ result'[e] = res
         /\ \A f \in Execution \ {e} : result'[f] = result[f]
         /\ conn' \in [Execution -> Conn \cup {NoConn}]
<1>1. /\ work' = [work EXCEPT ![e] = "recording"] /\ work \in [Execution -> Phase]
      /\ "recording" \in Phase
  BY DEF TypeOK, Finish, Enter, Phase, OnThread
<1>2. result' = [result EXCEPT ![e] = res] /\ result \in [Execution -> ResultType]
  BY DEF TypeOK, Finish, ResultType
<1>3. conn' = [conn EXCEPT ![e] = NoConn] /\ conn \in [Execution -> Conn \cup {NoConn}]
  BY DEF TypeOK, Finish
<1> QED BY <1>1, <1>2, <1>3

\* Enter moves the work of one execution.
LEMMA EnterFrame ==
  ASSUME TypeOK, NEW e \in Execution, NEW p \in Phase, Enter(e, p)
  PROVE  /\ work' \in [Execution -> Phase]
         /\ work'[e] = p
         /\ \A f \in Execution \ {e} : work'[f] = work[f]
<1>1. work' = [work EXCEPT ![e] = p] /\ work \in [Execution -> Phase]
  BY DEF TypeOK, Enter
<1> QED BY <1>1

\* Commit preserves the invariant.
LEMMA CommitIInv == ASSUME IInv, NEW e \in Execution, Commit(e) PROVE IInv'
<1> USE DEF IInv
<1>1. /\ work[e] = "committing" /\ e \in Write /\ pc[e] \in Submitted
      /\ pc[e] \notin {"ok", "canceled"}
      /\ hist[e] # "completed" \/ e \in committed
      /\ hist[e] # "canceled"
  BY DEF Commit, TypeOK, Placed, PlacedAt, Over
<1>2. /\ UNCHANGED <<queue, dbapi, hist, faults>>
      /\ Only(<<>>)
  BY DEF Commit, Only
<1>3. committed' \in {committed, committed \cup {e}}
  BY DEF Commit
<1>4. PICK res \in {"rows", "error"} : Finish(e, res) /\ (res = "rows" => e \in committed')
  BY DEF Commit
<1>5. res \in ResultType
  BY DEF ResultType
<1>6. /\ work' \in [Execution -> Phase]
      /\ work'[e] = "recording"
      /\ \A f \in Execution \ {e} : work'[f] = work[f]
      /\ result' \in [Execution -> ResultType]
      /\ result'[e] = res
      /\ \A f \in Execution \ {e} : result'[f] = result[f]
      /\ conn' \in [Execution -> Conn \cup {NoConn}]
  BY <1>4, <1>5, FinishFrame
<1>7. PlacedAt(e)'
  BY <1>1, <1>2, <1>3, <1>4, <1>6 DEF Only, TypeOK, Placed, PlacedAt, Over
<1>8. /\ committed' \subseteq Write
      /\ \A f \in Execution \ {e} : f \in committed' <=> f \in committed
  BY <1>1, <1>3 DEF TypeOK
<1>9. /\ dbapi' \in [Execution -> Conn \cup {NoConn}]
      /\ queue' \in Seq(Execution)
      /\ hist' \in [Execution -> HistType]
      /\ \A f \in Execution \ {e} : hist'[f] \in {hist[f], "pruned"}
      /\ faults' \in 0..MaxMetaFaults /\ faults' >= faults
  BY <1>2, ExecutionAssumption DEF TypeOK, HistType
<1> QED BY <1>1, <1>2, <1>6, <1>7, <1>8, <1>9, WorkerFrame

\* Take preserves the invariant.
LEMMA TakeIInv == ASSUME IInv, NEW e \in Execution, Take(e) PROVE IInv'
<1> USE DEF IInv
<1>1. /\ work[e] \in {"queued", "detached"} /\ pc[e] \in Submitted
      /\ pc[e] \notin {"ok", "canceled"}
      /\ e \notin committed /\ result[e] = "none"
      /\ hist[e] # "canceled"
  BY DEF Take, TypeOK, Placed, PlacedAt, Over
<1>2. UNCHANGED <<result, conn, dbapi, committed, hist, faults>> /\ Only(<<>>)
  BY DEF Take, Only
<1>3. queue' \in Seq(Execution)
  <2>1. queue \in Seq(Execution) /\ (queue' = queue \/ (queue # <<>> /\ queue' = Tail(queue)))
    BY DEF Take, TypeOK
  <2> QED BY <2>1
<1>4. /\ committed' \subseteq Write
      /\ \A f \in Execution \ {e} : f \in committed' <=> f \in committed
      /\ result' \in [Execution -> ResultType]
      /\ \A f \in Execution \ {e} : result'[f] = result[f]
      /\ conn' \in [Execution -> Conn \cup {NoConn}]
      /\ dbapi' \in [Execution -> Conn \cup {NoConn}]
      /\ hist' \in [Execution -> HistType]
      /\ \A f \in Execution \ {e} : hist'[f] \in {hist[f], "pruned"}
      /\ faults' \in 0..MaxMetaFaults /\ faults' >= faults
  BY <1>2, ExecutionAssumption DEF TypeOK, HistType, ResultType
<1>5. /\ work' \in [Execution -> Phase]
      /\ work'[e] = "connecting"
      /\ \A f \in Execution \ {e} : work'[f] = work[f]
  BY EnterFrame DEF Take, Phase, OnThread
<1>6. PlacedAt(e)'
  BY <1>1, <1>2, <1>5 DEF Only, TypeOK, Placed, PlacedAt, Over
<1> QED BY <1>1, <1>2, <1>3, <1>4, <1>5, <1>6, WorkerFrame

\* Begin preserves the invariant.
LEMMA BeginIInv == ASSUME IInv, NEW e \in Execution, Begin(e) PROVE IInv'
<1> USE DEF IInv
<1>1. /\ work[e] = "connecting" /\ pc[e] \in Submitted
      /\ pc[e] \notin {"ok", "canceled"}
      /\ e \notin committed /\ result[e] = "none"
      /\ hist[e] # "canceled"
  BY DEF Begin, TypeOK, Placed, PlacedAt, Over
<1>2. UNCHANGED <<queue, committed, hist, faults>> /\ Only(<<>>)
  BY DEF Begin, Only
<1>3. queue' \in Seq(Execution)
  BY <1>2 DEF TypeOK
<1>4. /\ committed' \subseteq Write
      /\ \A f \in Execution \ {e} : f \in committed' <=> f \in committed
      /\ hist' \in [Execution -> HistType]
      /\ \A f \in Execution \ {e} : hist'[f] \in {hist[f], "pruned"}
      /\ faults' \in 0..MaxMetaFaults /\ faults' >= faults
  BY <1>2, ExecutionAssumption DEF TypeOK, HistType
<1>5. CASE Finish(e, "error") /\ UNCHANGED dbapi
  <2>1. "error" \in ResultType
    BY DEF ResultType
  <2>2. /\ work' \in [Execution -> Phase]
        /\ work'[e] = "recording"
        /\ \A f \in Execution \ {e} : work'[f] = work[f]
        /\ result' \in [Execution -> ResultType]
        /\ result'[e] = "error"
        /\ \A f \in Execution \ {e} : result'[f] = result[f]
        /\ conn' \in [Execution -> Conn \cup {NoConn}]
    BY <1>5, <2>1, FinishFrame
  <2>3. dbapi' \in [Execution -> Conn \cup {NoConn}]
    BY <1>5 DEF TypeOK
  <2>4. PlacedAt(e)'
    BY <1>1, <1>2, <2>2 DEF Only, TypeOK, Placed, PlacedAt, Over
  <2> QED BY <1>1, <1>2, <1>3, <1>4, <2>2, <2>3, <2>4, WorkerFrame
<1>6. ASSUME NEW c \in FreeConn, Enter(e, "begun"), UNCHANGED result,
             conn' = [conn EXCEPT ![e] = c], dbapi' = [dbapi EXCEPT ![e] = c]
      PROVE  IInv'
  <2>1. "begun" \in Phase
    BY DEF Phase, OnThread, Connected
  <2>2. /\ work' \in [Execution -> Phase]
        /\ work'[e] = "begun"
        /\ \A f \in Execution \ {e} : work'[f] = work[f]
    BY <1>6, <2>1, EnterFrame
  <2>3. /\ conn' \in [Execution -> Conn \cup {NoConn}]
        /\ dbapi' \in [Execution -> Conn \cup {NoConn}]
    BY <1>6 DEF TypeOK, FreeConn
  <2>4. /\ result' \in [Execution -> ResultType]
        /\ \A f \in Execution \ {e} : result'[f] = result[f]
    BY <1>6 DEF TypeOK, ResultType
  <2>5. PlacedAt(e)'
    BY <1>1, <1>2, <1>6, <2>2 DEF Only, TypeOK, Placed, PlacedAt, Over
  <2> QED BY <1>1, <1>2, <1>3, <1>4, <2>2, <2>3, <2>4, <2>5, WorkerFrame
<1> QED BY <1>5, <1>6 DEF Begin

\* A step of the statement enters another phase of it, or ends the transaction.
LEMMA ExecuteMoves ==
  ASSUME NEW e \in Execution, Execute(e)
  PROVE  /\ work[e] \in Connected \ {"committing"}
         /\ \/ \E p \in Connected : /\ Enter(e, p) /\ UNCHANGED <<result, conn>>
                                    /\ p = "committing" => e \in Write
            \/ \E res \in {"canceled", "error"} : Finish(e, res)
            \/ Finish(e, "rows") /\ e \notin Write
  BY DEF Execute, GoOnUnlessCanceled, DriverReturns, RollsBack, Connected

\* Execute preserves the invariant.
LEMMA ExecuteIInv == ASSUME IInv, NEW e \in Execution, Execute(e) PROVE IInv'
<1> USE DEF IInv
<1>1. /\ work[e] \in Connected \ {"committing"} /\ pc[e] \in Submitted
      /\ pc[e] \notin {"ok", "canceled"}
      /\ e \notin committed /\ result[e] = "none"
      /\ hist[e] # "canceled"
  BY ExecuteMoves DEF TypeOK, Placed, PlacedAt, Over, Connected
<1>2. UNCHANGED <<queue, dbapi, committed, hist, faults>> /\ Only(<<>>)
  BY DEF Execute, Only
<1>3. /\ committed' \subseteq Write
      /\ \A f \in Execution \ {e} : f \in committed' <=> f \in committed
      /\ dbapi' \in [Execution -> Conn \cup {NoConn}]
      /\ queue' \in Seq(Execution)
      /\ hist' \in [Execution -> HistType]
      /\ \A f \in Execution \ {e} : hist'[f] \in {hist[f], "pruned"}
      /\ faults' \in 0..MaxMetaFaults /\ faults' >= faults
  BY <1>2, ExecutionAssumption DEF TypeOK, HistType
<1>4. work[e] \notin {"none", "done"}
  BY <1>1 DEF Connected
<1>5. ASSUME NEW p \in Connected, Enter(e, p), UNCHANGED <<result, conn>>,
             p = "committing" => e \in Write
      PROVE  IInv'
  <2>1. p \in Phase /\ p \notin {"none", "done"}
    BY DEF Phase, OnThread, Connected
  <2>2. /\ work' \in [Execution -> Phase]
        /\ work'[e] = p
        /\ \A f \in Execution \ {e} : work'[f] = work[f]
    BY <1>5, <2>1, EnterFrame
  <2>3. /\ conn' \in [Execution -> Conn \cup {NoConn}]
        /\ result' \in [Execution -> ResultType]
        /\ \A f \in Execution \ {e} : result'[f] = result[f]
    BY <1>5 DEF TypeOK, ResultType
  <2>4. PlacedAt(e)'
    BY <1>1, <1>2, <1>5, <2>2 DEF Only, TypeOK, Placed, PlacedAt, Over, Connected
  <2> QED BY <1>2, <1>3, <1>4, <2>1, <2>2, <2>3, <2>4, WorkerFrame
<1>6. ASSUME NEW res \in {"rows", "canceled", "error"}, Finish(e, res),
             res = "rows" => e \notin Write
      PROVE  IInv'
  <2>1. res \in ResultType
    BY DEF ResultType
  <2>2. /\ work' \in [Execution -> Phase]
        /\ work'[e] = "recording"
        /\ \A f \in Execution \ {e} : work'[f] = work[f]
        /\ result' \in [Execution -> ResultType]
        /\ result'[e] = res
        /\ \A f \in Execution \ {e} : result'[f] = result[f]
        /\ conn' \in [Execution -> Conn \cup {NoConn}]
    BY <1>6, <2>1, FinishFrame
  <2>3. PlacedAt(e)'
    BY <1>1, <1>2, <1>6, <2>2 DEF Only, TypeOK, Placed, PlacedAt, Over
  <2> QED BY <1>2, <1>3, <1>4, <2>2, <2>3, WorkerFrame
<1> QED BY <1>5, <1>6, ExecuteMoves

\* Record preserves the invariant.
LEMMA RecordIInv == ASSUME IInv, NEW e \in Execution, Record(e) PROVE IInv'
<1> USE DEF IInv
<1>1. /\ work[e] = "recording" /\ pc[e] \in Submitted
      /\ pc[e] \notin {"ok", "canceled"}
      /\ result[e] \in ResultType \ {"none"}
      /\ e \in committed => result[e] # "canceled"
      /\ result[e] = "rows" /\ e \in Write => e \in committed
      /\ hist[e] = "canceled" => e \notin committed
      /\ hist[e] = "completed" /\ e \in Write => e \in committed
  BY DEF Record, TypeOK, Placed, PlacedAt, Over, ResultType
<1>2. UNCHANGED <<queue, dbapi, conn, committed>> /\ Only(<<>>)
  BY DEF Record, Only
<1>3. /\ committed' \subseteq Write
      /\ \A f \in Execution \ {e} : f \in committed' <=> f \in committed
      /\ conn' \in [Execution -> Conn \cup {NoConn}]
      /\ dbapi' \in [Execution -> Conn \cup {NoConn}]
      /\ queue' \in Seq(Execution)
  BY <1>2 DEF TypeOK
<1>4. "leaving" \in Phase
  BY DEF Phase, OnThread
<1>5. CASE Status(e, FinalStatus(e)) /\ Enter(e, "leaving") /\ UNCHANGED result
  <2>1. FinalStatus(e) \in {"completed", "canceled", "failed"}
    BY DEF FinalStatus
  <2>2. FinalStatus(e) \in Live \cup Terminal
    BY <2>1 DEF Terminal
  <2>3. /\ hist' \in [Execution -> HistType]
        /\ \A f \in Execution : \/ hist'[f] \in {hist[f], "pruned"}
                                \/ f = e /\ hist'[f] = FinalStatus(e) /\ hist[f] \in Live
        /\ UNCHANGED <<born, faults>>
    BY <1>5, <2>2, StatusFrame
  <2>4. /\ work' \in [Execution -> Phase]
        /\ work'[e] = "leaving"
        /\ \A f \in Execution \ {e} : work'[f] = work[f]
    BY <1>4, <1>5, EnterFrame
  <2>5. /\ result' \in [Execution -> ResultType]
        /\ \A f \in Execution \ {e} : result'[f] = result[f]
        /\ \A f \in Execution \ {e} : hist'[f] \in {hist[f], "pruned"}
        /\ faults' \in 0..MaxMetaFaults /\ faults' >= faults
    BY <1>5, <2>3, ExecutionAssumption DEF TypeOK, ResultType
  <2>6. hist'[e] \in {hist[e], "pruned", FinalStatus(e)}
    BY <2>3
  <2>7. /\ FinalStatus(e) = "completed" => result[e] = "rows"
        /\ FinalStatus(e) = "canceled" => result[e] = "canceled"
    BY DEF FinalStatus
  <2>8. PlacedAt(e)'
    BY <1>1, <1>2, <1>5, <2>4, <2>6, <2>7 DEF Only, TypeOK, Placed, PlacedAt, Over, ResultType
  <2> QED BY <1>1, <1>2, <1>3, <2>3, <2>4, <2>5, <2>8, WorkerFrame
<1>6. CASE /\ StatusFails
           /\ result' = [result EXCEPT ![e] = "error"]
           /\ IF result[e] = "rows" THEN UNCHANGED work ELSE Enter(e, "leaving")
  <2>1. /\ work' \in [Execution -> Phase]
        /\ work'[e] \in {"recording", "leaving"}
        /\ \A f \in Execution \ {e} : work'[f] = work[f]
    <3>1. CASE UNCHANGED work
      BY <1>1, <3>1 DEF TypeOK
    <3>2. CASE Enter(e, "leaving")
      BY <1>4, <3>2, EnterFrame
    <3> QED BY <1>6, <3>1, <3>2
  <2>2. /\ result' \in [Execution -> ResultType]
        /\ result'[e] = "error"
        /\ \A f \in Execution \ {e} : result'[f] = result[f]
    BY <1>6 DEF TypeOK, ResultType
  <2>3. /\ hist' = hist
        /\ hist' \in [Execution -> HistType]
        /\ \A f \in Execution \ {e} : hist'[f] \in {hist[f], "pruned"}
    BY <1>6 DEF StatusFails, TypeOK, HistType
  <2>4. faults' \in 0..MaxMetaFaults /\ faults' >= faults
    BY <1>6, ExecutionAssumption DEF StatusFails, MetaFails, TypeOK
  <2>5. PlacedAt(e)'
    BY <1>1, <1>2, <2>1, <2>2, <2>3 DEF Only, TypeOK, Placed, PlacedAt, Over
  <2> QED BY <1>1, <1>2, <1>3, <2>1, <2>2, <2>3, <2>4, <2>5, WorkerFrame
<1> QED BY <1>5, <1>6 DEF Record

\* Drop preserves the invariant.
LEMMA DropIInv == ASSUME IInv, NEW e \in Execution, Drop(e) PROVE IInv'
<1> USE DEF IInv
<1>1. /\ work[e] = "leaving" /\ contexts' \subseteq Execution
      /\ UNCHANGED <<pc, watch, event, dbapi, slotVars, queue, result, conn, committed,
                     interrupted, histVars, request, probing, up, faults>>
  BY DEF Drop, TypeOK
<1>2. /\ work' \in [Execution -> Phase]
      /\ work'[e] = "left"
      /\ \A f \in Execution \ {e} : work'[f] = work[f]
  BY EnterFrame DEF Drop, Phase
<1>3. TypeOK'
  BY <1>1, <1>2 DEF TypeOK
<1>4. Placed'
  BY <1>1, <1>2 DEF TypeOK, Placed, PlacedAt, Over
<1>5. SlotsFollowWork'
  BY <1>1, <1>2 DEF TypeOK, SlotsFollowWork
<1> QED BY <1>3, <1>4, <1>5

\* Release preserves the invariant.
LEMMA ReleaseIInv == ASSUME IInv, NEW e \in Execution, Release(e) PROVE IInv'
<1> USE DEF IInv
<1>1. /\ work[e] = "left"
      /\ UNCHANGED <<pc, watch, contextVars, queue, result, conn, committed, interrupted,
                     histVars, request, probing, up, faults>>
  BY DEF Release
<1>2. /\ work' \in [Execution -> Phase]
      /\ work'[e] = "done"
      /\ \A f \in Execution \ {e} : work'[f] = work[f]
  BY EnterFrame DEF Release, Phase
<1>3. slots' = slots \ {e}
  BY DEF Release, HoldsSlots, GiveBack
<1>4. OwnerOf[e] \in Owner
  BY ExecutionAssumption
<1>5. globalFree' \in Nat /\ ownerFree' \in [Owner -> Nat]
  <2>1. CASE HoldsSlots(e)
    <3>1. /\ globalFree' = globalFree + 1
          /\ ownerFree' = [ownerFree EXCEPT ![OwnerOf[e]] = @ + 1]
      BY <2>1 DEF Release, GiveBack
    <3>2. globalFree \in Nat /\ ownerFree \in [Owner -> Nat]
      BY DEF TypeOK
    <3>3. globalFree' \in Nat
      BY <3>1, <3>2
    <3>4. ownerFree' \in [Owner -> Nat]
      BY <1>4, <3>1, <3>2
    <3> QED BY <3>3, <3>4
  <2>2. CASE ~HoldsSlots(e)
    BY <2>2 DEF Release, TypeOK
  <2> QED BY <2>1, <2>2
<1>6. TypeOK'
  BY <1>1, <1>2, <1>3, <1>5 DEF TypeOK
<1>7. PlacedAt(e)'
  BY <1>1, <1>2, <1>3 DEF TypeOK, Placed, PlacedAt, Over, Submitted
<1>8. ASSUME NEW f \in Execution \ {e} PROVE PlacedAt(f)'
  BY <1>1, <1>2, <1>3 DEF TypeOK, Placed, PlacedAt
<1>9. Placed'
  BY <1>7, <1>8 DEF Placed
<1>10. SlotsFollowWork'
  BY <1>1, <1>2, <1>3 DEF TypeOK, SlotsFollowWork
<1> QED BY <1>6, <1>9, <1>10

-----------------------------------------------------------------------------
(* Cancelling *)

\* WatchDisconnect preserves the invariant.
LEMMA WatchIInv == ASSUME IInv, NEW e \in Execution, WatchDisconnect(e) PROVE IInv'
<1> USE DEF IInv
<1>1. event' \subseteq Execution /\ interrupted' \subseteq Execution
  BY CancelFrame DEF WatchDisconnect, NoCancel, TypeOK
<1>2. /\ watch' \subseteq Watched
      /\ UNCHANGED <<pc, contexts, dbapi, slotVars, workVars, histVars,
                     request, probing, up, faults>>
  BY DEF WatchDisconnect, TypeOK
<1>3. TypeOK'
  BY <1>1, <1>2 DEF TypeOK
<1>4. Placed' /\ SlotsFollowWork'
  BY <1>2 DEF Placed, PlacedAt, SlotsFollowWork
<1> QED BY <1>3, <1>4

RequestType == [at : {"idle"}] \cup
               [at : {"read", "signaled", "ok", "refused", "failed"}, target : Execution]

\* CancelRead preserves the invariant.
LEMMA CancelReadIInv ==
  ASSUME IInv, NEW r \in Request, NEW e \in Execution, CancelRead(r, e) PROVE IInv'
<1> USE DEF IInv
<1>1. UNCHANGED <<pc, watch, contextVars, slotVars, workVars, interrupted, histVars, probing, up>>
  BY DEF CancelRead
<1>2. PICK at \in {"read", "refused", "failed"} :
        request' = [request EXCEPT ![r] = [at |-> at, target |-> e]]
  BY DEF CancelRead
<1>3. [at |-> at, target |-> e] \in RequestType
  BY <1>2 DEF RequestType
<1>4. request' \in [Request -> RequestType]
  BY <1>2, <1>3 DEF TypeOK, RequestType
<1>5. faults' \in 0..MaxMetaFaults /\ faults' >= faults
  BY ExecutionAssumption DEF CancelRead, MetaFails, TypeOK
<1>6. TypeOK'
  BY <1>1, <1>4, <1>5 DEF TypeOK, RequestType
<1>7. Placed'
  BY <1>1 DEF Placed, PlacedAt
<1>8. SlotsFollowWork'
  BY <1>1, <1>5, ExecutionAssumption DEF TypeOK, SlotsFollowWork
<1> QED BY <1>6, <1>7, <1>8

\* A step that moves only requests and statuses keeps the rest of the types.
LEMMA RequestFrame ==
  ASSUME TypeOK, NEW r \in Request, request[r].at # "idle",
         NEW at \in {"read", "signaled", "ok", "refused", "failed"},
         request' = [request EXCEPT ![r].at = at]
  PROVE  request' \in [Request -> RequestType] /\ request[r].target \in Execution
<1>1. request[r] \in [at : {"read", "signaled", "ok", "refused", "failed"}, target : Execution]
  BY DEF TypeOK
<1>2. [request[r] EXCEPT !.at = at] \in RequestType
  BY <1>1 DEF RequestType
<1>3. request' = [request EXCEPT ![r] = [request[r] EXCEPT !.at = at]]
  OBVIOUS
<1> QED BY <1>1, <1>2, <1>3 DEF TypeOK, RequestType

\* CancelSignal preserves the invariant.
LEMMA CancelSignalIInv == ASSUME IInv, NEW r \in Request, CancelSignal(r) PROVE IInv'
<1> USE DEF IInv
<1>1. UNCHANGED <<pc, watch, contexts, dbapi, slotVars, workVars, histVars, probing, up, faults>>
  BY DEF CancelSignal
<1>2. request' \in [Request -> RequestType] /\ request[r].target \in Execution
  BY RequestFrame DEF CancelSignal
<1>3. event' \subseteq Execution /\ interrupted' \subseteq Execution
  BY <1>2, CancelFrame DEF CancelSignal, NoCancel, TypeOK
<1>4. TypeOK'
  BY <1>1, <1>2, <1>3 DEF TypeOK, RequestType
<1>5. Placed' /\ SlotsFollowWork'
  BY <1>1 DEF Placed, PlacedAt, SlotsFollowWork
<1> QED BY <1>4, <1>5

\* CancelRecord preserves the invariant.
LEMMA CancelRecordIInv == ASSUME IInv, NEW r \in Request, CancelRecord(r) PROVE IInv'
<1> USE DEF IInv
<1>1. UNCHANGED <<pc, watch, contextVars, slotVars, workVars, interrupted, probing, up>>
  BY DEF CancelRecord
<1>2. request' \in [Request -> RequestType] /\ request[r].target \in Execution
  BY RequestFrame DEF CancelRecord
<1>3. /\ hist' \in [Execution -> HistType]
      /\ \A f \in Execution : hist'[f] \in {hist[f], "pruned", "cancel_requested"}
      /\ born' = born
  BY <1>2, StatusFrame DEF TypeOK, CancelRecord, StatusFails, HistType, Live
<1>4. faults' \in 0..MaxMetaFaults /\ faults' >= faults
  BY ExecutionAssumption DEF TypeOK, CancelRecord, Status, StatusFails, MetaFails
<1>5. TypeOK'
  BY <1>1, <1>2, <1>3, <1>4 DEF TypeOK, RequestType, HistType
<1>6. Placed'
  BY <1>1, <1>3 DEF Placed, PlacedAt
<1>7. SlotsFollowWork'
  BY <1>1, <1>4, ExecutionAssumption DEF TypeOK, SlotsFollowWork
<1> QED BY <1>5, <1>6, <1>7

\* Shutdown preserves the invariant.
LEMMA ShutdownIInv == ASSUME IInv, Shutdown PROVE IInv'
<1> USE DEF IInv
<1> DEFINE dropped == {e \in Execution : work[e] = "queued"}
<1>1. UNCHANGED <<pc, watch, dbapi, slotVars, conn, committed, histVars, request, probing, faults>>
  BY DEF Shutdown
<1>2. /\ event' \subseteq Execution /\ interrupted' \subseteq Execution
  BY CancelFrame DEF Shutdown, TypeOK
<1>3. contexts' \subseteq Execution /\ queue' \in Seq(Execution) /\ up' \in BOOLEAN
  <2>1. contexts' = {} /\ queue' = <<>> /\ up' = FALSE
    BY DEF Shutdown
  <2>2. <<>> \in Seq(Execution)
    OBVIOUS
  <2> QED BY <2>1, <2>2
<1>4. /\ work' = [e \in Execution |-> IF e \in dropped THEN "left" ELSE work[e]]
      /\ result' = [e \in Execution |-> IF e \in dropped THEN "aborted" ELSE result[e]]
  BY DEF Shutdown
<1>5. work' \in [Execution -> Phase]
  BY <1>4 DEF TypeOK, Phase
<1>6. result' \in [Execution -> ResultType]
  BY <1>4 DEF TypeOK, ResultType
<1>7. TypeOK'
  BY <1>1, <1>2, <1>3, <1>5, <1>6 DEF TypeOK, ResultType
<1>8. ASSUME NEW f \in Execution PROVE PlacedAt(f)'
  <2>1. CASE f \in dropped
    BY <1>1, <1>4, <2>1 DEF TypeOK, Placed, PlacedAt, Over, Submitted
  <2>2. CASE f \notin dropped
    BY <1>1, <1>4, <2>2 DEF Placed, PlacedAt
  <2> QED BY <2>1, <2>2
<1>9. Placed'
  BY <1>8 DEF Placed
<1>10. SlotsFollowWork'
  BY <1>1, <1>4 DEF TypeOK, SlotsFollowWork
<1> QED BY <1>7, <1>9, <1>10

-----------------------------------------------------------------------------
(* Probes *)

\* A step of a readiness probe.
ProbeStep == \E p \in Probe : Ready(p) \/ ReadyEnds(p)

\* A probe touches nothing but what it has checked out.
LEMMA ProbeFrame ==
  ASSUME ProbeStep
  PROVE  UNCHANGED <<pc, watch, contextVars, slotVars, workVars, interrupted, histVars,
                     request, up, faults>>
  BY DEF ProbeStep, Ready, ReadyEnds

\* Ready and ReadyEnds preserve the invariant.
LEMMA ProbeIInv == ASSUME IInv, ProbeStep PROVE IInv'
<1> USE DEF IInv
<1>1. probing' \in [Probe -> Conn \cup {NoConn}]
  BY DEF ProbeStep, Ready, ReadyEnds, FreeConn, TypeOK
<1>2. TypeOK'
  BY <1>1, ProbeFrame DEF TypeOK
<1>3. Placed' /\ SlotsFollowWork'
  BY ProbeFrame DEF Placed, PlacedAt, SlotsFollowWork
<1> QED BY <1>2, <1>3

-----------------------------------------------------------------------------
(* The invariants *)

\* Every step, and stuttering, preserves the invariant.
LEMMA NextIInv == ASSUME IInv, [Next]_vars PROVE IInv'
<1>1. CASE UNCHANGED vars
  BY <1>1 DEF vars, IInv, TypeOK, Placed, PlacedAt, SlotsFollowWork
<1>2. ASSUME NEW e \in Execution, Call(e) \/ Handler(e) PROVE IInv'
  BY <1>2, CallIInv, RegisterIInv, AwaitGlobalIInv, AwaitOwnerIInv, DenyIInv, StartIInv,
     ResumeIInv, TimeOutIInv, RecordTimeoutIInv DEF Handler
<1>3. ASSUME NEW e \in Execution, Worker(e) \/ WatchDisconnect(e) PROVE IInv'
  BY <1>3, TakeIInv, BeginIInv, ExecuteIInv, CommitIInv, RecordIInv, DropIInv, ReleaseIInv,
     WatchIInv DEF Worker
<1>4. ASSUME NEW r \in Request, NEW e \in Execution, CancelRead(r, e) PROVE IInv'
  BY <1>4, CancelReadIInv
<1>5. ASSUME NEW r \in Request, CancelSignal(r) \/ CancelRecord(r) PROVE IInv'
  BY <1>5, CancelSignalIInv, CancelRecordIInv
<1> QED BY <1>1, <1>2, <1>3, <1>4, <1>5, ShutdownIInv, ProbeIInv DEF Next, ProbeStep

\* IInv, the inductive invariant, holds in every reachable state.
THEOREM Invariant == Spec => []IInv
  BY InitIInv, NextIInv, PTL DEF Spec

\* Every variable keeps its type; in particular neither semaphore's value ever
\* falls below zero, and nothing that is not a write is ever committed.
THEOREM TypeCorrect == Spec => []TypeOK
<1>1. IInv => TypeOK BY DEF IInv
<1> QED BY <1>1, Invariant, PTL

\* Whatever threads, time limits, cancellations, metastore failures and shutdown do,
\* the places of handler and work agree with slots, transaction and history.
THEOREM PlacedHolds == Spec => []Placed
<1>1. IInv => Placed BY DEF IInv
<1> QED BY <1>1, Invariant, PTL

\* A row of the history that says "canceled" or "completed" says what Firebird did.
THEOREM HistoryTruth == Spec => []HistoryIsTrue
<1>1. IInv => HistoryIsTrue
  BY ExecutionAssumption DEF IInv, Placed, PlacedAt, HistoryIsTrue
<1> QED BY <1>1, Invariant, PTL

\* The callback gives back the slots of every execution whose work was submitted.
THEOREM SlotsFollow == Spec => []SlotsFollowWork
<1>1. IInv => SlotsFollowWork BY DEF IInv
<1> QED BY <1>1, Invariant, PTL

-----------------------------------------------------------------------------
(* Semaphores *)

\* The executions that hold a global slot, and those that hold a slot of an owner.
GlobalHolders == {e \in Execution : e \in slots \/ pc[e] = "owner"}
OwnerHolders(o) == {e \in slots : OwnerOf[e] = o}

\* The counts of SlotAccounting, with the sets they count named.
LEMMA Accounting ==
  SlotAccounting <=> /\ globalFree = GlobalLimit - Cardinality(GlobalHolders)
                     /\ \A o \in Owner :
                          ownerFree[o] = OwnerLimit - Cardinality(OwnerHolders(o))
  BY DEF SlotAccounting, GlobalHolders, OwnerHolders

\* The sets that are counted are finite.
LEMMA Finite ==
  ASSUME IInv
  PROVE  /\ IsFiniteSet(GlobalHolders) /\ Cardinality(GlobalHolders) \in Nat
         /\ \A o : IsFiniteSet(OwnerHolders(o)) /\ Cardinality(OwnerHolders(o)) \in Nat
<1>1. GlobalHolders \subseteq Execution /\ \A o : OwnerHolders(o) \subseteq Execution
  BY DEF GlobalHolders, OwnerHolders, IInv, TypeOK
<1> QED BY <1>1, FS_Subset, FS_CardinalityType, ExecutionAssumption

\* A step that neither takes nor returns a slot.
LEMMA SlotFrame ==
  ASSUME SlotAccounting, UNCHANGED slotVars,
         \A e \in Execution : pc'[e] = "owner" <=> pc[e] = "owner"
  PROVE  SlotAccounting'
<1>1. GlobalHolders' = GlobalHolders
  BY DEF GlobalHolders
<1>2. \A o : OwnerHolders(o)' = OwnerHolders(o)
  BY DEF OwnerHolders
<1> QED BY <1>1, <1>2 DEF SlotAccounting, GlobalHolders, OwnerHolders

\* Taking the global slot keeps the account.
LEMMA AwaitGlobalAccounts ==
  ASSUME IInv, SlotAccounting, NEW e \in Execution, AwaitGlobal(e) PROVE SlotAccounting'
<1>1. pc[e] = "global" /\ UNCHANGED <<slots, ownerFree>> /\ e \notin GlobalHolders
  BY DEF AwaitGlobal, IInv, Placed, PlacedAt, Submitted, GlobalHolders
<1>2. CASE Goto(e, "denied") /\ UNCHANGED globalFree
  <2>1. \A f \in Execution : pc'[f] = "owner" <=> pc[f] = "owner"
    BY <1>1, <1>2 DEF Goto, IInv, TypeOK
  <2> QED BY <1>1, <1>2, <2>1, SlotFrame
<1>3. CASE Goto(e, "owner") /\ globalFree' = globalFree - 1
  <2>1. GlobalHolders' = GlobalHolders \cup {e}
    BY <1>1, <1>3 DEF Goto, IInv, TypeOK, GlobalHolders
  <2>2. Cardinality(GlobalHolders') = Cardinality(GlobalHolders) + 1
    BY <1>1, <2>1, Finite, FS_AddElement
  <2>3. \A o : OwnerHolders(o)' = OwnerHolders(o)
    BY <1>1 DEF OwnerHolders
  <2>4. globalFree' = GlobalLimit - Cardinality(GlobalHolders')
    BY <1>3, <2>2, Accounting, Finite, ExecutionAssumption
  <2> QED BY <1>1, <2>3, <2>4 DEF SlotAccounting, GlobalHolders, OwnerHolders
<1> QED BY <1>2, <1>3 DEF AwaitGlobal

\* Taking the owner's slot, or giving the global one back, keeps the account.
LEMMA AwaitOwnerAccounts ==
  ASSUME IInv, SlotAccounting, NEW e \in Execution, AwaitOwner(e) PROVE SlotAccounting'
<1>1. /\ pc[e] = "owner" /\ e \notin slots /\ e \in GlobalHolders
      /\ OwnerOf[e] \in Owner /\ ownerFree \in [Owner -> Nat]
  BY ExecutionAssumption
  DEF AwaitOwner, IInv, TypeOK, Placed, PlacedAt, Submitted, GlobalHolders
<1>2. CASE /\ Goto(e, "granted")
           /\ ownerFree' = [ownerFree EXCEPT ![OwnerOf[e]] = @ - 1]
           /\ slots' = slots \cup {e}
           /\ UNCHANGED globalFree
  <2>1. GlobalHolders' = GlobalHolders
    BY <1>1, <1>2 DEF Goto, IInv, TypeOK, GlobalHolders
  <2>2. ASSUME NEW o \in Owner
        PROVE  ownerFree'[o] = OwnerLimit - Cardinality(OwnerHolders(o)')
    <3>1. CASE o = OwnerOf[e]
      <4>1. OwnerHolders(o)' = OwnerHolders(o) \cup {e} /\ e \notin OwnerHolders(o)
        BY <1>1, <1>2, <3>1 DEF OwnerHolders
      <4>2. Cardinality(OwnerHolders(o)') = Cardinality(OwnerHolders(o)) + 1
        BY <4>1, Finite, FS_AddElement
      <4>3. ownerFree'[o] = ownerFree[o] - 1
        BY <1>1, <1>2, <3>1
      <4> QED BY <4>2, <4>3, Accounting, Finite, ExecutionAssumption
    <3>2. CASE o # OwnerOf[e]
      <4>1. OwnerHolders(o)' = OwnerHolders(o)
        BY <1>2, <3>2 DEF OwnerHolders
      <4>2. ownerFree'[o] = ownerFree[o]
        BY <1>1, <1>2, <3>2
      <4> QED BY <4>1, <4>2, Accounting
    <3> QED BY <3>1, <3>2
  <2> QED BY <1>2, <2>1, <2>2 DEF SlotAccounting, GlobalHolders, OwnerHolders
<1>3. CASE /\ Goto(e, "denied")
           /\ globalFree' = globalFree + 1
           /\ UNCHANGED <<ownerFree, slots>>
  <2>1. GlobalHolders' = GlobalHolders \ {e}
    BY <1>1, <1>3 DEF Goto, IInv, TypeOK, GlobalHolders
  <2>2. Cardinality(GlobalHolders') = Cardinality(GlobalHolders) - 1
    BY <1>1, <2>1, Finite, FS_RemoveElement
  <2>3. globalFree' = GlobalLimit - Cardinality(GlobalHolders')
    BY <1>3, <2>2, Accounting, Finite, ExecutionAssumption
  <2>4. \A o : OwnerHolders(o)' = OwnerHolders(o)
    BY <1>3 DEF OwnerHolders
  <2> QED BY <1>3, <2>3, <2>4 DEF SlotAccounting, GlobalHolders, OwnerHolders
<1> QED BY <1>2, <1>3 DEF AwaitOwner

\* The callback gives back what its execution holds, once.
LEMMA ReleaseAccounts ==
  ASSUME IInv, SlotAccounting, NEW e \in Execution, Release(e) PROVE SlotAccounting'
<1>1. UNCHANGED pc
  BY DEF Release
<1>2. CASE ~HoldsSlots(e)
  BY <1>1, <1>2, SlotFrame DEF Release
<1>3. CASE HoldsSlots(e)
  <2>1. /\ e \in slots /\ slots' = slots \ {e}
        /\ globalFree' = globalFree + 1
        /\ ownerFree' = [ownerFree EXCEPT ![OwnerOf[e]] = @ + 1]
    BY <1>3 DEF Release, HoldsSlots, GiveBack
  <2>2. /\ e \in GlobalHolders /\ pc[e] # "owner"
        /\ OwnerOf[e] \in Owner /\ ownerFree \in [Owner -> Nat]
    BY <2>1, ExecutionAssumption
    DEF IInv, TypeOK, Placed, PlacedAt, Submitted, GlobalHolders
  <2>3. GlobalHolders' = GlobalHolders \ {e}
    BY <1>1, <2>1, <2>2 DEF GlobalHolders
  <2>4. Cardinality(GlobalHolders') = Cardinality(GlobalHolders) - 1
    BY <2>2, <2>3, Finite, FS_RemoveElement
  <2>5. globalFree' = GlobalLimit - Cardinality(GlobalHolders')
    BY <2>1, <2>4, Accounting, Finite, ExecutionAssumption
  <2>6. ASSUME NEW o \in Owner
        PROVE  ownerFree'[o] = OwnerLimit - Cardinality(OwnerHolders(o)')
    <3>1. CASE o = OwnerOf[e]
      <4>1. OwnerHolders(o)' = OwnerHolders(o) \ {e} /\ e \in OwnerHolders(o)
        BY <2>1, <3>1 DEF OwnerHolders
      <4>2. Cardinality(OwnerHolders(o)') = Cardinality(OwnerHolders(o)) - 1
        BY <4>1, Finite, FS_RemoveElement
      <4>3. ownerFree'[o] = ownerFree[o] + 1
        BY <2>1, <2>2, <3>1
      <4> QED BY <4>2, <4>3, Accounting, Finite, ExecutionAssumption
    <3>2. CASE o # OwnerOf[e]
      <4>1. OwnerHolders(o)' = OwnerHolders(o)
        BY <2>1, <3>2 DEF OwnerHolders
      <4>2. ownerFree'[o] = ownerFree[o]
        BY <2>1, <2>2, <3>2
      <4> QED BY <4>1, <4>2, Accounting
    <3> QED BY <3>1, <3>2
  <2> QED BY <2>5, <2>6 DEF SlotAccounting, GlobalHolders, OwnerHolders
<1> QED BY <1>2, <1>3

\* Every step keeps the account.
LEMMA NextAccounts == ASSUME IInv, SlotAccounting, [Next]_vars PROVE SlotAccounting'
<1>1. CASE UNCHANGED vars
  BY <1>1, SlotFrame DEF vars
<1>2. ASSUME NEW e \in Execution,
             Call(e) \/ Register(e) \/ Deny(e) \/ Start(e) \/ Resume(e) \/ TimeOut(e)
               \/ RecordTimeout(e)
      PROVE  SlotAccounting'
  <2>1. PICK label \in PcType \ {"owner"} : Goto(e, label)
    <3>1. CASE Call(e) \/ Register(e) \/ Deny(e) \/ Start(e)
      BY <3>1 DEF Call, Register, Deny, Start, PcType, Waiting, Answered
    <3>2. CASE Resume(e)
      <4>1. Outcome(e) \in {"ok", "canceled", "aborted", "error"}
        BY DEF Outcome
      <4>2. Goto(e, Outcome(e))
        BY <3>2 DEF Resume, Leave
      <4>3. Outcome(e) \in PcType \ {"owner"}
        BY <4>1 DEF PcType, Answered
      <4> QED BY <4>2, <4>3
    <3>3. CASE TimeOut(e) \/ RecordTimeout(e)
      BY <3>3 DEF TimeOut, Expire, RecordTimeout, Leave, PcType, Waiting, Answered
    <3> QED BY <1>2, <3>1, <3>2, <3>3
  <2>2. pc[e] # "owner" /\ UNCHANGED slotVars
    BY <1>2 DEF Call, Register, Deny, Start, Resume, TimeOut, Expire, RecordTimeout
  <2>3. \A f \in Execution : pc'[f] = "owner" <=> pc[f] = "owner"
    BY <2>1, <2>2, GotoFrame DEF IInv
  <2> QED BY <2>2, <2>3, SlotFrame
<1>3. ASSUME NEW e \in Execution,
             \/ Take(e) \/ Begin(e) \/ Execute(e) \/ Commit(e) \/ Record(e) \/ Drop(e)
             \/ WatchDisconnect(e)
      PROVE  SlotAccounting'
  <2>1. UNCHANGED pc /\ UNCHANGED slotVars
    BY <1>3 DEF Take, Begin, Execute, Commit, Record, Drop, WatchDisconnect, Only
  <2> QED BY <2>1, SlotFrame
<1>4. ASSUME NEW r \in Request,
             CancelSignal(r) \/ CancelRecord(r) \/ \E e \in Execution : CancelRead(r, e)
      PROVE  SlotAccounting'
  <2>1. UNCHANGED pc /\ UNCHANGED slotVars
    BY <1>4 DEF CancelRead, CancelSignal, CancelRecord
  <2> QED BY <2>1, SlotFrame
<1>5. CASE Shutdown
  BY <1>5, SlotFrame DEF Shutdown
<1>6. CASE ProbeStep
  BY <1>6, ProbeFrame, SlotFrame
<1> QED
  BY <1>1, <1>2, <1>3, <1>4, <1>5, <1>6, AwaitGlobalAccounts, AwaitOwnerAccounts, ReleaseAccounts
  DEF Next, Handler, Worker, ProbeStep

\* No path through acquisition, refusal, time limit, shutdown and the release callback
\* loses a slot or gives one back twice.
THEOREM SlotsAccounted == Spec => []SlotAccounting
<1>1. ASSUME Init PROVE SlotAccounting
  <2>1. GlobalHolders = {} /\ \A o : OwnerHolders(o) = {}
    BY <1>1 DEF Init, GlobalHolders, OwnerHolders
  <2>2. Cardinality(GlobalHolders) = 0 /\ \A o : Cardinality(OwnerHolders(o)) = 0
    BY <2>1, FS_EmptySet
  <2>3. globalFree = GlobalLimit - 0 /\ \A o \in Owner : ownerFree[o] = OwnerLimit - 0
    BY <1>1, ExecutionAssumption DEF Init
  <2> QED BY <2>2, <2>3, Accounting
<1>2. IInv /\ SlotAccounting /\ [Next]_vars => SlotAccounting'
  BY NextAccounts
<1> QED BY <1>1, <1>2, Invariant, PTL DEF Spec

-----------------------------------------------------------------------------
(* Connections *)

\* Who has a connection has a thread, and nobody else has it: with IInv, inductive.
ConnFollowsWork ==
  /\ \A e \in Execution : conn[e] # NoConn => work[e] \in Connected
  /\ \A e, f \in Execution : e # f /\ conn[e] = conn[f] => conn[e] = NoConn
  /\ \A p, q \in Probe : p # q /\ probing[p] = probing[q] => probing[p] = NoConn
  /\ \A e \in Execution, p \in Probe : conn[e] = probing[p] => conn[e] = NoConn

\* A step of one execution that keeps, takes a free or gives back its connection.
LEMMA ConnStep ==
  ASSUME IInv, ConnFollowsWork, NEW e \in Execution, UNCHANGED probing,
         \A f \in Execution \ {e} : work'[f] = work[f] /\ conn'[f] = conn[f],
         conn'[e] \in FreeConn \cup {conn[e], NoConn},
         conn'[e] # NoConn => work'[e] \in Connected
  PROVE  ConnFollowsWork'
<1>1. \A f \in Execution : conn'[f] # NoConn => work'[f] \in Connected
  BY DEF ConnFollowsWork
<1>2. /\ \A f \in Execution : conn'[e] \in FreeConn => conn[f] # conn'[e]
      /\ \A p \in Probe : conn'[e] \in FreeConn => probing[p] # conn'[e]
  BY DEF FreeConn, Taken
<1>3. \A f, g \in Execution : f # g /\ conn'[f] = conn'[g] => conn'[f] = NoConn
  BY <1>2 DEF ConnFollowsWork
<1>4. \A f \in Execution, p \in Probe : conn'[f] = probing'[p] => conn'[f] = NoConn
  BY <1>2 DEF ConnFollowsWork
<1> QED BY <1>1, <1>3, <1>4 DEF ConnFollowsWork

\* A probe takes a connection that is free, and gives it back.
LEMMA ProbeConn == ASSUME IInv, ConnFollowsWork, ProbeStep PROVE ConnFollowsWork'
<1>1. PICK p \in Probe : Ready(p) \/ ReadyEnds(p)
  BY DEF ProbeStep
<1>2. UNCHANGED <<work, conn>>
  BY ProbeFrame
<1>3. PICK c \in FreeConn \cup {NoConn} : probing' = [probing EXCEPT ![p] = c]
  BY <1>1 DEF Ready, ReadyEnds
<1>4. probing'[p] = c /\ \A q \in Probe \ {p} : probing'[q] = probing[q]
  BY <1>3 DEF IInv, TypeOK
<1>5. /\ \A f \in Execution : c \in FreeConn => conn[f] # c
      /\ \A q \in Probe : c \in FreeConn => probing[q] # c
  BY DEF FreeConn, Taken
<1>6. \A q, s \in Probe : q # s /\ probing'[q] = probing'[s] => probing'[q] = NoConn
  BY <1>4, <1>5 DEF ConnFollowsWork
<1>7. \A f \in Execution, q \in Probe : conn[f] = probing'[q] => conn[f] = NoConn
  BY <1>4, <1>5 DEF ConnFollowsWork
<1> QED BY <1>2, <1>6, <1>7 DEF ConnFollowsWork

\* A transaction that is over gives its connection back.
LEMMA FinishGivesBack ==
  ASSUME IInv, ConnFollowsWork, NEW e \in Execution, NEW res \in ResultType, Finish(e, res),
         UNCHANGED probing
  PROVE  ConnFollowsWork'
<1>1. \A f \in Execution \ {e} : work'[f] = work[f]
  BY FinishFrame DEF IInv
<1>2. conn' = [conn EXCEPT ![e] = NoConn] /\ conn \in [Execution -> Conn \cup {NoConn}]
  BY DEF Finish, IInv, TypeOK
<1>3. conn'[e] = NoConn /\ \A f \in Execution \ {e} : conn'[f] = conn[f]
  BY <1>2
<1> QED BY <1>1, <1>3, ConnStep

\* The work goes on where it may keep the connection it has, if it has one.
LEMMA EnterKeeps ==
  ASSUME IInv, ConnFollowsWork, NEW e \in Execution, NEW p \in Phase, Enter(e, p),
         UNCHANGED <<conn, probing>>, work[e] \in Connected => p \in Connected
  PROVE  ConnFollowsWork'
<1>1. work'[e] = p /\ \A f \in Execution \ {e} : work'[f] = work[f]
  BY EnterFrame DEF IInv
<1>2. conn'[e] # NoConn => work'[e] \in Connected
  BY <1>1 DEF ConnFollowsWork
<1> QED BY <1>1, <1>2, ConnStep

\* The thread and the callback keep it.
LEMMA WorkerConn ==
  ASSUME IInv, ConnFollowsWork, NEW e \in Execution, Worker(e)
  PROVE  ConnFollowsWork'
<1>0. UNCHANGED probing
  BY DEF Worker, Take, Begin, Execute, Commit, Record, Drop, Release, Only
<1>1. CASE Begin(e)
  <2>1. CASE Finish(e, "error")
    BY <1>0, <2>1, FinishGivesBack DEF ResultType
  <2>2. ASSUME NEW c \in FreeConn, Enter(e, "begun"), conn' = [conn EXCEPT ![e] = c]
        PROVE  ConnFollowsWork'
    <3>1. "begun" \in Phase /\ "begun" \in Connected
      BY DEF Phase, OnThread, Connected
    <3>2. work'[e] = "begun" /\ \A f \in Execution \ {e} : work'[f] = work[f]
      BY <2>2, <3>1, EnterFrame DEF IInv
    <3>3. conn'[e] = c /\ \A f \in Execution \ {e} : conn'[f] = conn[f]
      BY <2>2 DEF IInv, TypeOK
    <3> QED BY <1>0, <3>1, <3>2, <3>3, ConnStep
  <2> QED BY <1>1, <2>1, <2>2 DEF Begin
<1>2. CASE Execute(e)
  <2>1. CASE \E res \in {"canceled", "error", "rows"} : Finish(e, res)
    BY <1>0, <2>1, FinishGivesBack DEF ResultType
  <2>2. CASE \E p \in Connected : Enter(e, p) /\ UNCHANGED conn
    BY <1>0, <2>2, EnterKeeps DEF Phase, OnThread
  <2> QED BY <1>2, <2>1, <2>2, ExecuteMoves
<1>3. CASE Commit(e)
  BY <1>0, <1>3, FinishGivesBack DEF Commit, ResultType
<1>4. CASE Record(e)
  <2>1. UNCHANGED conn /\ work[e] = "recording" /\ (UNCHANGED work \/ Enter(e, "leaving"))
    BY <1>4 DEF Record, Only
  <2>2. "leaving" \in Phase /\ "recording" \notin Connected
    BY DEF Phase, OnThread, Connected
  <2>3. CASE UNCHANGED work
    BY <1>0, <2>1, <2>3 DEF ConnFollowsWork
  <2> QED BY <1>0, <2>1, <2>2, <2>3, EnterKeeps
<1>5. CASE Take(e) \/ Drop(e) \/ Release(e)
  <2>1. PICK p \in {"connecting", "left", "done"} :
          /\ Enter(e, p) /\ UNCHANGED conn
          /\ work[e] \in {"queued", "detached", "leaving", "left"}
    BY <1>5 DEF Take, Drop, Release, Only
  <2>2. p \in Phase /\ work[e] \notin Connected
    BY <2>1 DEF Phase, OnThread, Connected
  <2> QED BY <1>0, <2>1, <2>2, EnterKeeps
<1> QED BY <1>1, <1>2, <1>3, <1>4, <1>5 DEF Worker

\* Every step keeps it.
LEMMA NextConn == ASSUME IInv, ConnFollowsWork, [Next]_vars PROVE ConnFollowsWork'
<1>1. CASE \E e \in Execution : Worker(e)
  BY <1>1, WorkerConn
<1>2. ASSUME NEW e \in Execution, Start(e) PROVE ConnFollowsWork'
  <2>1. UNCHANGED <<conn, probing>> /\ pc[e] = "granted"
    BY <1>2 DEF Start
  <2>2. work[e] = "none"
    BY <2>1 DEF IInv, Placed, PlacedAt, Submitted
  <2>3. UNCHANGED work \/ Enter(e, "queued") \/ Enter(e, "detached")
    BY <1>2 DEF Start, Submit, Enter
  <2>4. "queued" \in Phase /\ "detached" \in Phase /\ "none" \notin Connected
    BY DEF Phase, Connected
  <2>5. CASE UNCHANGED work
    BY <2>1, <2>5 DEF ConnFollowsWork
  <2> QED BY <2>1, <2>2, <2>3, <2>4, <2>5, EnterKeeps
<1>3. CASE Shutdown
  <2>1. /\ UNCHANGED <<conn, probing>>
        /\ work' = [e \in Execution |-> IF e \in {f \in Execution : work[f] = "queued"}
                                        THEN "left" ELSE work[e]]
    BY <1>3 DEF Shutdown
  <2>2. \A e \in Execution : work[e] \in Connected => work'[e] = work[e]
    BY <2>1 DEF Connected
  <2> QED BY <2>1, <2>2 DEF ConnFollowsWork
<1>4. CASE UNCHANGED <<work, conn, probing>>
  BY <1>4 DEF ConnFollowsWork
<1>5. CASE \/ \E e \in Execution : WatchDisconnect(e) \/ Call(e)
           \/ \E r \in Request, e \in Execution : CancelRead(r, e)
           \/ \E r \in Request : CancelSignal(r) \/ CancelRecord(r)
           \/ UNCHANGED vars
  <2>1. UNCHANGED <<work, conn, probing>>
    BY <1>5 DEF WatchDisconnect, Call, CancelRead, CancelSignal, CancelRecord, vars
  <2> QED BY <1>4, <2>1
<1>6. ASSUME NEW e \in Execution,
             \/ Register(e) \/ AwaitGlobal(e) \/ AwaitOwner(e) \/ Deny(e)
             \/ Resume(e) \/ TimeOut(e) \/ RecordTimeout(e)
      PROVE  ConnFollowsWork'
  <2>1. UNCHANGED <<work, conn, probing>>
    BY <1>6 DEF Register, AwaitGlobal, AwaitOwner, Deny, Resume, TimeOut, Expire, RecordTimeout
  <2> QED BY <1>4, <2>1
<1> QED BY <1>1, <1>2, <1>3, <1>5, <1>6, ProbeConn DEF Next, Handler, ProbeStep

\* The executions a thread of the pool is busy with.
Threads == {e \in Execution : work[e] \in OnThread}

\* Until the shutdown all work runs on the pool, which has no more than Workers threads:
\* with IInv, inductive.
ThreadsBounded ==
  up => /\ \A e \in Execution : work[e] # "detached"
        /\ Cardinality(Threads) <= Workers

\* The threads of the pool are finitely many.
LEMMA ThreadsFinite ==
  /\ IsFiniteSet(Threads) /\ Cardinality(Threads) \in Nat
  /\ Workers \in Nat /\ (Conn # {} => Workers <= Cardinality(Conn))
  /\ Cardinality(Conn) \in Nat
<1>1. Cardinality(Conn) \in Nat
  BY FS_CardinalityType, ExecutionAssumption
<1>2. IsFiniteSet(Threads) /\ Cardinality(Threads) \in Nat
  BY FS_Subset, FS_CardinalityType, ExecutionAssumption DEF Threads
<1> QED BY <1>1, <1>2, ExecutionAssumption DEF Workers

\* A step in which no execution gets a thread.
LEMMA ThreadStep ==
  ASSUME ThreadsBounded, up' => up,
         \A f \in Execution : work'[f] \in OnThread => work[f] \in OnThread,
         up' => \A f \in Execution : work'[f] = "detached" => work[f] = "detached"
  PROVE  ThreadsBounded'
<1>1. Threads' \subseteq Threads
  BY DEF Threads
<1>2. Cardinality(Threads') <= Cardinality(Threads) /\ Cardinality(Threads') \in Nat
  BY <1>1, ThreadsFinite, FS_Subset, FS_CardinalityType
<1>3. up' => \A f \in Execution : work'[f] # "detached"
  BY DEF ThreadsBounded
<1>4. up' => Cardinality(Threads') <= Workers
  BY <1>2, ThreadsFinite DEF ThreadsBounded
<1> HIDE DEF Threads
<1>5. Workers' = Workers
  BY DEF Workers
<1> QED BY <1>3, <1>4, <1>5 DEF ThreadsBounded

\* An execution that had a thread, or gets none, moves.
LEMMA ThreadEnter ==
  ASSUME IInv, ThreadsBounded, NEW e \in Execution, NEW p \in Phase, Enter(e, p),
         UNCHANGED up, p \in OnThread => work[e] \in OnThread, p = "detached" => ~up
  PROVE  ThreadsBounded'
<1>1. work'[e] = p /\ \A f \in Execution \ {e} : work'[f] = work[f]
  BY EnterFrame DEF IInv
<1> QED BY <1>1, ThreadStep

\* An execution of the queue gets a thread only if one is free.
LEMMA TakeBounded ==
  ASSUME IInv, ThreadsBounded, NEW e \in Execution, Take(e) PROVE ThreadsBounded'
<1>1. UNCHANGED up /\ Enter(e, "connecting")
  BY DEF Take, Only
<1>2. work'[e] = "connecting" /\ \A f \in Execution \ {e} : work'[f] = work[f]
  BY <1>1, EnterFrame DEF IInv, Phase, OnThread
<1>3. SUFFICES ASSUME up PROVE ThreadsBounded'
  BY <1>1 DEF ThreadsBounded
<1>4. Cardinality(Threads) < Workers /\ work[e] = "queued"
  BY <1>3 DEF Take, ThreadsBounded, ThreadFree, Threads
<1>5. Threads' = Threads \cup {e} /\ e \notin Threads
  BY <1>2, <1>4 DEF Threads, OnThread, Connected
<1>6. Cardinality(Threads') = Cardinality(Threads) + 1
  BY <1>5, ThreadsFinite, FS_AddElement
<1>7. \A f \in Execution : work'[f] # "detached"
  BY <1>2, <1>3 DEF ThreadsBounded
<1>8. Workers' = Workers
  BY DEF Workers
<1>9. Cardinality(Threads') <= Workers
  BY <1>4, <1>6, ThreadsFinite
<1> QED BY <1>7, <1>8, <1>9 DEF ThreadsBounded

\* Every step keeps the bound.
LEMMA NextBounded == ASSUME IInv, ThreadsBounded, [Next]_vars PROVE ThreadsBounded'
<1>1. CASE UNCHANGED <<work, up>>
  BY <1>1, ThreadStep
<1>2. ASSUME NEW e \in Execution, NEW res, Finish(e, res), work[e] \in OnThread, UNCHANGED up
      PROVE  ThreadsBounded'
  BY <1>2, ThreadEnter DEF Finish, Phase, OnThread
<1>3. ASSUME NEW e \in Execution, Begin(e) PROVE ThreadsBounded'
  <2>1. UNCHANGED up /\ work[e] \in OnThread
    BY <1>3 DEF Begin, Only, OnThread
  <2>2. "begun" \in Phase /\ "begun" # "detached"
    BY DEF Phase, OnThread, Connected
  <2> QED BY <1>2, <1>3, <2>1, <2>2, ThreadEnter DEF Begin
<1>4. ASSUME NEW e \in Execution, Execute(e) PROVE ThreadsBounded'
  <2>1. UNCHANGED up /\ work[e] \in OnThread
    BY <1>4, ExecuteMoves DEF Execute, Only, OnThread
  <2>2. \A p \in Connected : p \in Phase /\ p # "detached"
    BY DEF Phase, OnThread, Connected
  <2> QED BY <1>2, <1>4, <2>1, <2>2, ExecuteMoves, ThreadEnter
<1>5. ASSUME NEW e \in Execution, Commit(e) PROVE ThreadsBounded'
  BY <1>2, <1>5 DEF Commit, Only, OnThread, Connected
<1>6. ASSUME NEW e \in Execution, Record(e) \/ Drop(e) \/ Release(e) PROVE ThreadsBounded'
  <2>1. UNCHANGED up
    BY <1>6 DEF Record, Drop, Release, Only
  <2>2. \/ UNCHANGED work
        \/ Enter(e, "leaving") /\ work[e] = "recording"
        \/ Enter(e, "left") \/ Enter(e, "done")
    BY <1>6 DEF Record, Drop, Release
  <2>3. /\ {"leaving", "left", "done"} \subseteq Phase /\ "recording" \in OnThread
        /\ "left" \notin OnThread /\ "done" \notin OnThread
    BY DEF Phase, OnThread, Connected
  <2> QED BY <1>1, <2>1, <2>2, <2>3, ThreadEnter
<1>7. ASSUME NEW e \in Execution, Start(e) PROVE ThreadsBounded'
  <2>1. UNCHANGED up
    BY <1>7 DEF Start
  <2>2. UNCHANGED work \/ Enter(e, "queued") \/ (Enter(e, "detached") /\ ~up)
    BY <1>7 DEF Start, Submit, Enter
  <2>3. /\ {"queued", "detached"} \subseteq Phase
        /\ "queued" \notin OnThread /\ "detached" \notin OnThread
    BY DEF Phase, OnThread, Connected
  <2> QED BY <1>1, <2>1, <2>2, <2>3, ThreadEnter
<1>8. CASE Shutdown
  BY <1>8 DEF Shutdown, ThreadsBounded
<1>9. CASE \/ \E e \in Execution : WatchDisconnect(e) \/ Call(e)
           \/ \E r \in Request, e \in Execution : CancelRead(r, e)
           \/ \E r \in Request : CancelSignal(r) \/ CancelRecord(r)
           \/ UNCHANGED vars
  <2>1. UNCHANGED <<work, up>>
    BY <1>9 DEF WatchDisconnect, Call, CancelRead, CancelSignal, CancelRecord, vars
  <2> QED BY <1>1, <2>1
<1>10. ASSUME NEW e \in Execution,
              \/ Register(e) \/ AwaitGlobal(e) \/ AwaitOwner(e) \/ Deny(e)
              \/ Resume(e) \/ TimeOut(e) \/ RecordTimeout(e)
       PROVE  ThreadsBounded'
  <2>1. UNCHANGED <<work, up>>
    BY <1>10 DEF Register, AwaitGlobal, AwaitOwner, Deny, Resume, TimeOut, Expire, RecordTimeout
  <2> QED BY <1>1, <2>1
<1>11. CASE ProbeStep
  BY <1>1, <1>11, ProbeFrame
<1> QED
  BY <1>3, <1>4, <1>5, <1>6, <1>7, <1>8, <1>9, <1>10, <1>11, TakeBounded
  DEF Next, Handler, Worker, ProbeStep

\* A union has at most as many members as its parts together.
LEMMA CardinalityOfUnion ==
  ASSUME NEW S, NEW T, IsFiniteSet(S), IsFiniteSet(T)
  PROVE  /\ IsFiniteSet(S \cup T)
         /\ Cardinality(S \cup T) <= Cardinality(S) + Cardinality(T)
<1>1. /\ IsFiniteSet(S \cup T)
      /\ Cardinality(S \cup T) = Cardinality(S) + Cardinality(T) - Cardinality(S \cap T)
  BY FS_Union
<1>2. Cardinality(S \cap T) \in Nat /\ Cardinality(S) \in Nat /\ Cardinality(T) \in Nat
  BY FS_Intersection, FS_CardinalityType
<1> QED BY <1>1, <1>2

\* A function has at most as many values as arguments.
LEMMA ValuesBounded ==
  ASSUME NEW S, IsFiniteSet(S), NEW f
  PROVE  /\ IsFiniteSet({f[x] : x \in S})
         /\ Cardinality({f[x] : x \in S}) <= Cardinality(S)
<1> DEFINE T == {f[x] : x \in S}
           g == [x \in S |-> f[x]]
<1>1. g \in Surjection(S, T)
  BY DEF Surjection
<1> HIDE DEF T, g
<1>2. IsFiniteSet(T) /\ Cardinality(T) <= Cardinality(S)
  BY <1>1, FS_Surjection
<1> QED BY <1>2 DEF T

\* Who waits for a connection, who has one, and which these are.
Connecting == {e \in Execution : work[e] = "connecting"}
Holders == {e \in Execution : conn[e] # NoConn}
Probing == {p \in Probe : probing[p] # NoConn}
Held == {conn[e] : e \in Holders}
Probed == {probing[p] : p \in Probing}

\* There are never more threads than connections: who waits and who has one fit into them,
\* so that as many as wait are free, or in the hands of probes.
LEMMA FreeOrProbed ==
  ASSUME IInv, ConnFollowsWork, ThreadsBounded, up, Conn # {}
  PROVE  Cardinality(Connecting) <= Cardinality(FreeConn) + Cardinality(Probing)
<1>1. /\ IsFiniteSet(Connecting) /\ IsFiniteSet(Holders) /\ IsFiniteSet(Probing)
      /\ IsFiniteSet(FreeConn) /\ IsFiniteSet(Conn)
  BY FS_Subset, ExecutionAssumption DEF Connecting, Holders, Probing, FreeConn
<1>2. /\ Connecting \cap Holders = {} /\ Connecting \cup Holders \subseteq Threads
  BY ExecutionAssumption
  DEF Connecting, Holders, Threads, ConnFollowsWork, OnThread, Connected
<1>3. /\ IsFiniteSet(Held) /\ Cardinality(Held) <= Cardinality(Holders)
      /\ IsFiniteSet(Probed) /\ Cardinality(Probed) <= Cardinality(Probing)
  BY <1>1, ValuesBounded DEF Held, Probed
<1>4. Conn \subseteq (FreeConn \cup Held) \cup Probed
  BY ExecutionAssumption DEF FreeConn, Taken, Held, Probed, Holders, Probing
<1> HIDE DEF Connecting, Holders, Held, Probing, Probed, FreeConn, Threads
<1>5. Cardinality(Connecting) + Cardinality(Holders) <= Cardinality(Threads)
  <2>1. /\ IsFiniteSet(Connecting \cup Holders)
        /\ Cardinality(Connecting \cup Holders) = Cardinality(Connecting) + Cardinality(Holders)
    <3>1. Cardinality(Connecting \cap Holders) = 0
      BY <1>2, FS_EmptySet
    <3>2. /\ IsFiniteSet(Connecting \cup Holders)
          /\ Cardinality(Connecting \cup Holders) =
               Cardinality(Connecting) + Cardinality(Holders)
                 - Cardinality(Connecting \cap Holders)
      BY <1>1, FS_Union
    <3>3. Cardinality(Connecting) \in Nat /\ Cardinality(Holders) \in Nat
      BY <1>1, FS_CardinalityType
    <3> QED BY <3>1, <3>2, <3>3
  <2>2. Cardinality(Connecting \cup Holders) <= Cardinality(Threads)
    BY <1>2, ThreadsFinite, FS_Subset
  <2> QED BY <2>1, <2>2
<1>6. Cardinality(Conn) <= Cardinality(FreeConn) + Cardinality(Held) + Cardinality(Probed)
  <2>1. /\ IsFiniteSet(FreeConn \cup Held) /\ IsFiniteSet((FreeConn \cup Held) \cup Probed)
        /\ Cardinality(FreeConn \cup Held) <= Cardinality(FreeConn) + Cardinality(Held)
        /\ Cardinality((FreeConn \cup Held) \cup Probed)
             <= Cardinality(FreeConn \cup Held) + Cardinality(Probed)
    BY <1>1, <1>3, CardinalityOfUnion
  <2>2. Cardinality(Conn) <= Cardinality((FreeConn \cup Held) \cup Probed)
    BY <1>4, <2>1, FS_Subset
  <2> QED BY <1>1, <1>3, <2>1, <2>2, FS_CardinalityType
<1>7. Cardinality(Threads) <= Workers /\ Workers <= Cardinality(Conn)
  BY ThreadsFinite DEF ThreadsBounded
<1> QED BY <1>1, <1>3, <1>5, <1>6, <1>7, ThreadsFinite, FS_CardinalityType

\* No two threads share a connection, and more executions never wait for one than are free
\* or in the hands of readiness probes, however the sizes of pool and queue are chosen.
THEOREM Connections == Spec => []ConnectionsSuffice
<1>1. Init => ConnFollowsWork /\ ThreadsBounded
  <2> SUFFICES ASSUME Init PROVE ConnFollowsWork /\ ThreadsBounded
    OBVIOUS
  <2>1. Threads = {}
    BY DEF Init, Threads, OnThread, Connected
  <2>2. Cardinality(Threads) = 0
    BY <2>1, FS_EmptySet
  <2>3. ThreadsBounded
    BY <2>2, ThreadsFinite DEF ThreadsBounded, Init
  <2> QED BY <2>3 DEF Init, ConnFollowsWork
<1>2. IInv /\ ConnFollowsWork /\ ThreadsBounded /\ [Next]_vars =>
        ConnFollowsWork' /\ ThreadsBounded'
  BY NextConn, NextBounded
<1>3. IInv /\ ConnFollowsWork /\ ThreadsBounded => ConnectionsSuffice
  BY FreeOrProbed DEF ConnectionsSuffice, ConnFollowsWork, Connecting, Probing
<1> QED BY <1>1, <1>2, <1>3, Invariant, PTL DEF Spec

-----------------------------------------------------------------------------
(* The answers that callers see *)

Answers == [e \in Execution |-> Answer(e)]

-----------------------------------------------------------------------------
(* Refinement *)

\* A step that moves one handler changes one answer.
LEMMA AnswerFrame ==
  ASSUME NEW e \in Execution, \A f \in Execution \ {e} : pc'[f] = pc[f]
  PROVE  Answers' = [Answers EXCEPT ![e] = Answer(e)']
<1>1. ASSUME NEW f \in Execution \ {e} PROVE Answer(f)' = Answer(f)
  BY DEF Answer
<1> QED BY <1>1 DEF Answers

\* A step that moves no handler changes no answer.
LEMMA AnswerStays ==
  ASSUME UNCHANGED pc PROVE UNCHANGED Answers
  BY DEF Answers, Answer

\* Goto moves one handler.
LEMMA GotoAnswers ==
  ASSUME IInv, NEW e \in Execution, NEW label \in PcType, Goto(e, label)
  PROVE  /\ pc'[e] = label
         /\ Answers' = [Answers EXCEPT ![e] = Answer(e)']
         /\ Answers[e] = Answer(e)
<1>1. pc'[e] = label /\ \A f \in Execution \ {e} : pc'[f] = pc[f]
  BY GotoFrame DEF IInv
<1> QED BY <1>1, AnswerFrame DEF Answers

Pending == {"idle"} \cup Waiting

\* A handler that goes on without answering.
LEMMA GoesOn ==
  ASSUME IInv, NEW e \in Execution, pc[e] \in Pending, NEW label \in Pending,
         Goto(e, label)
  PROVE  UNCHANGED Answers
<1>1. label \in PcType
  BY DEF Pending, PcType
<1>2. pc'[e] = label /\ Answers' = [Answers EXCEPT ![e] = Answer(e)'] /\ Answers[e] = Answer(e)
  BY <1>1, GotoAnswers
<1>3. Answer(e) = "none" /\ Answer(e)' = "none"
  BY <1>2 DEF Answer, Pending, Waiting
<1> QED BY <1>2, <1>3 DEF Answers

\* A handler that answers.
LEMMA Answering ==
  ASSUME IInv, NEW e \in Execution, pc[e] \in Pending, NEW label \in Answered,
         Goto(e, label), UNCHANGED committed
  PROVE  /\ label = "ok" /\ (e \in Write => e \in committed) => Contract!Succeed(e)
         /\ label \in {"canceled", "capacity"} /\ e \notin committed => Contract!Stop(e)
         /\ label \in {"timeout", "error", "aborted"} => Contract!LoseTrack(e)
<1>1. label \in PcType
  BY DEF PcType
<1>2. pc'[e] = label /\ Answers' = [Answers EXCEPT ![e] = Answer(e)'] /\ Answers[e] = Answer(e)
  BY <1>1, GotoAnswers
<1>3. Answers[e] = "none"
  BY <1>2 DEF Answer, Pending, Waiting
<1>4. ASSUME NEW a, Answer(e)' = a PROVE Contract!Answer(e, a)
  BY <1>2, <1>3, <1>4 DEF Contract!Answer, Answers
<1>5. CASE label = "ok"
  BY <1>2, <1>4, <1>5 DEF Answer, Contract!Succeed
<1>6. CASE label \in {"canceled", "capacity"}
  BY <1>2, <1>4, <1>6 DEF Answer, Contract!Stop
<1>7. CASE label \in {"timeout", "error", "aborted"}
  BY <1>2, <1>4, <1>7 DEF Answer, Contract!LoseTrack
<1> QED BY <1>5, <1>6, <1>7

ContractStep == Contract!Next \/ UNCHANGED <<Answers, committed>>

\* Every step of a handler is an answer of the contract, or a stutter.
LEMMA HandlerRefines ==
  ASSUME IInv, NEW e \in Execution, Call(e) \/ Handler(e) PROVE ContractStep
<1>1. UNCHANGED committed
  BY DEF Call, Handler, Register, AwaitGlobal, AwaitOwner, Deny, Start, Resume, TimeOut,
     Expire, RecordTimeout
<1>2. pc[e] \in Pending
  BY DEF Pending, Waiting, Call, Handler, Register, AwaitGlobal, AwaitOwner, Deny, Start,
     Resume, TimeOut, Expire, RecordTimeout
<1>3. ASSUME NEW label \in Pending, Goto(e, label) PROVE ContractStep
  BY <1>1, <1>2, <1>3, GoesOn DEF ContractStep
<1>4. ASSUME NEW label \in {"timeout", "error", "aborted"}, Goto(e, label) PROVE ContractStep
  BY <1>1, <1>2, <1>4, Answering DEF ContractStep, Contract!Next, Answered
<1>5. ASSUME NEW label \in {"canceled", "capacity"}, Goto(e, label), e \notin committed
      PROVE  ContractStep
  BY <1>1, <1>2, <1>5, Answering DEF ContractStep, Contract!Next, Answered
<1>6. ASSUME Goto(e, "ok"), e \in Write => e \in committed PROVE ContractStep
  BY <1>1, <1>2, <1>6, Answering DEF ContractStep, Contract!Next, Answered
<1>7. CASE Call(e)
  BY <1>3, <1>4, <1>7 DEF Call, Pending, Waiting
<1>8. CASE Register(e) \/ AwaitGlobal(e) \/ AwaitOwner(e)
  BY <1>3, <1>8 DEF Register, AwaitGlobal, AwaitOwner, Pending, Waiting
<1>9. CASE Deny(e)
  <2>1. e \notin committed
    BY <1>9 DEF Deny, IInv, Placed, PlacedAt, Over, Submitted
  <2> QED BY <1>4, <1>5, <1>9, <2>1 DEF Deny
<1>10. CASE Start(e)
  BY <1>3, <1>4, <1>10 DEF Start, Pending, Waiting
<1>11. CASE Resume(e)
  <2>1. Goto(e, Outcome(e)) /\ Outcome(e) \in {"ok", "canceled", "aborted", "error"}
    BY <1>11 DEF Resume, Leave, Outcome
  <2>2. Outcome(e) = "ok" => (e \in Write => e \in committed)
    BY DEF Outcome, IInv, Placed, PlacedAt
  <2>3. Outcome(e) = "canceled" => e \notin committed
    BY DEF Outcome, IInv, Placed, PlacedAt
  <2> QED BY <1>4, <1>5, <1>6, <2>1, <2>2, <2>3
<1>12. CASE TimeOut(e)
  BY <1>3, <1>12 DEF TimeOut, Expire, Pending, Waiting
<1>13. CASE RecordTimeout(e)
  BY <1>4, <1>13 DEF RecordTimeout, Leave
<1> QED BY <1>7, <1>8, <1>9, <1>10, <1>11, <1>12, <1>13 DEF Handler

\* The commit of the thread is the commit of the contract.
LEMMA CommitRefines == ASSUME IInv, NEW e \in Execution, Commit(e) PROVE ContractStep
<1>1. UNCHANGED Answers
  BY AnswerStays DEF Commit, Only
<1>2. e \in Write \ committed
  BY DEF Commit, IInv, Placed, PlacedAt, Over
<1>3. Answer(e) \in {"none", "unknown"}
  BY DEF Commit, IInv, Placed, PlacedAt, Submitted, Answer
<1>4. committed' = committed \/ committed' = committed \cup {e}
  BY DEF Commit
<1>5. ASSUME committed' = committed \cup {e} PROVE Contract!Commit(e)
  BY <1>1, <1>2, <1>3, <1>5 DEF Contract!Commit, Answers
<1> QED BY <1>1, <1>4, <1>5 DEF ContractStep, Contract!Next

\* The other steps touch neither an answer nor a commit.
LEMMA OthersStutter ==
  ASSUME UNCHANGED <<pc, committed>> PROVE ContractStep
  BY AnswerStays DEF ContractStep

\* Every step maps to a step of the contract or a stutter.
LEMMA NextRefines == ASSUME IInv, [Next]_vars PROVE ContractStep
<1>1. CASE UNCHANGED vars
  BY <1>1, OthersStutter DEF vars
<1>2. ASSUME NEW e \in Execution, Call(e) \/ Handler(e) PROVE ContractStep
  BY <1>2, HandlerRefines
<1>3. ASSUME NEW e \in Execution, Worker(e) \/ WatchDisconnect(e) PROVE ContractStep
  <2>1. CASE Commit(e)
    BY <2>1, CommitRefines
  <2>2. CASE ~Commit(e)
    <3>1. UNCHANGED <<pc, committed>>
      BY <1>3, <2>2 DEF Worker, Take, Begin, Execute, Record, Drop, Release, WatchDisconnect, Only
    <3> QED BY <3>1, OthersStutter
  <2> QED BY <2>1, <2>2
<1>4. ASSUME NEW r \in Request,
             CancelSignal(r) \/ CancelRecord(r) \/ \E e \in Execution : CancelRead(r, e)
      PROVE  ContractStep
  <2>1. UNCHANGED <<pc, committed>>
    BY <1>4 DEF CancelRead, CancelSignal, CancelRecord
  <2> QED BY <2>1, OthersStutter
<1>5. CASE Shutdown
  BY <1>5, OthersStutter DEF Shutdown
<1>6. CASE ProbeStep
  BY <1>6, ProbeFrame, OthersStutter
<1> QED BY <1>1, <1>2, <1>3, <1>4, <1>5, <1>6 DEF Next, ProbeStep

\* Every caller of execute gets at most one answer, and an answer that means the same
\* in Firebird: "ok" only after the commit, "canceled" and "capacity" only if there was
\* none and there never will be.
THEOREM Refinement == Spec => ImplementsContract
<1>1. Init => Contract!Init
  BY DEF Init, Contract!Init, Answer
<1>2. IInv /\ [Next]_vars => [Contract!Next]_(Contract!vars)
  BY NextRefines DEF ContractStep, Contract!vars, Answers
<1> QED BY <1>1, <1>2, Invariant, PTL DEF Spec, ImplementsContract, Contract!Spec

-----------------------------------------------------------------------------
(* The first outcome recorded stands *)

\* A call that has not begun has no row.
Unrecorded == \A e \in Execution : pc[e] = "idle" => hist[e] = "none"

\* What an insertion writes: a row that is younger than those there are.
CallRecorded(e) ==
  /\ hist' = [hist EXCEPT ![e] = "queued"]
  /\ born' = [born EXCEPT ![e] = 1 + Cardinality({f \in Execution : born[f] > 0})]

\* The only writers of execution_history: an insertion, and a recorded status.
LEMMA HistoryWriters ==
  ASSUME IInv, [Next]_vars
  PROVE  \/ UNCHANGED histVars
         \/ \E e \in Execution : /\ pc[e] = "idle" /\ pc'[e] # "idle"
                                /\ CallRecorded(e)
         \/ \E e \in Execution, s \in Live \cup Terminal : Status(e, s)
<1> DEFINE Writers == \/ UNCHANGED histVars
                      \/ \E e \in Execution : /\ pc[e] = "idle" /\ pc'[e] # "idle"
                                             /\ CallRecorded(e)
                      \/ \E e \in Execution, s \in Live \cup Terminal : Status(e, s)
<1> SUFFICES Writers
  OBVIOUS
<1>1. CASE UNCHANGED vars
  BY <1>1 DEF vars
<1>2. ASSUME NEW e \in Execution, Call(e) PROVE Writers
  <2>1. UNCHANGED histVars \/ (CallRecorded(e) /\ Goto(e, "inserted"))
    BY <1>2 DEF Call, StatusFails, CallRecorded
  <2>2. pc[e] = "idle"
    BY <1>2 DEF Call
  <2>3. Goto(e, "inserted") => pc'[e] # "idle"
    BY DEF Goto, IInv, TypeOK
  <2> QED BY <2>1, <2>2, <2>3
<1>3. ASSUME NEW e \in Execution, Handler(e) PROVE Writers
  BY <1>3 DEF Handler, Register, AwaitGlobal, AwaitOwner, Deny, Start, Resume, TimeOut,
     Expire, RecordTimeout, StatusFails, Live, Terminal
<1>4. ASSUME NEW e \in Execution, Worker(e) \/ WatchDisconnect(e) PROVE Writers
  <2>1. CASE Record(e)
    <3>1. FinalStatus(e) \in Live \cup Terminal
      BY DEF FinalStatus, Terminal
    <3> QED BY <2>1, <3>1 DEF Record, StatusFails
  <2>2. CASE ~Record(e)
    BY <1>4, <2>2 DEF Worker, Take, Begin, Execute, Commit, Drop, Release, WatchDisconnect, Only
  <2> QED BY <2>1, <2>2
<1>5. ASSUME NEW r \in Request, CancelRecord(r) PROVE Writers
  <2>1. request[r].target \in Execution
    BY <1>5, RequestFrame DEF CancelRecord, IInv, TypeOK
  <2> QED BY <1>5, <2>1 DEF CancelRecord, StatusFails, Live
<1>6. ASSUME NEW r \in Request, CancelSignal(r) \/ \E e \in Execution : CancelRead(r, e)
      PROVE  Writers
  BY <1>6 DEF CancelSignal, CancelRead
<1>7. CASE Shutdown
  BY <1>7 DEF Shutdown
<1>8. CASE ProbeStep
  BY <1>8, ProbeFrame
<1> QED BY <1>1, <1>2, <1>3, <1>4, <1>5, <1>6, <1>7, <1>8 DEF Next, ProbeStep

\* A status is recorded in a row that exists, and pruning removes finished rows.
LEMMA StatusKeepsNone ==
  ASSUME NEW e \in Execution, NEW s \in Live \cup Terminal, Status(e, s), TypeOK,
         NEW f \in Execution, hist[f] = "none"
  PROVE  hist'[f] = "none"
<1>1. Updated(e, s)[f] = "none"
  BY DEF Updated, Live, TypeOK
<1>2. Pruned(Updated(e, s))[f] = "none"
  BY <1>1 DEF Pruned, Terminal
<1> QED BY <1>1, <1>2 DEF Status

\* No handler becomes idle again.
LEMMA IdleIsFirst ==
  ASSUME IInv, [Next]_vars, NEW f \in Execution, pc'[f] = "idle"
  PROVE  pc[f] = "idle"
<1>1. CASE UNCHANGED pc
  BY <1>1
<1>2. ASSUME NEW e \in Execution, NEW label \in PcType \ {"idle"}, Goto(e, label)
      PROVE  pc[f] = "idle"
  BY <1>2, GotoFrame DEF IInv
<1>3. ASSUME NEW e \in Execution, Call(e) \/ Handler(e)
      PROVE  \E label \in PcType \ {"idle"} : Goto(e, label)
  <2>1. CASE Call(e)
    BY <2>1 DEF Call, PcType, Waiting, Answered
  <2>2. CASE Register(e) \/ AwaitGlobal(e) \/ AwaitOwner(e) \/ Deny(e) \/ Start(e)
    BY <2>2 DEF Register, AwaitGlobal, AwaitOwner, Deny, Start, PcType, Waiting, Answered
  <2>3. CASE Resume(e)
    BY <2>3 DEF Resume, Leave, Outcome, PcType, Answered
  <2>4. CASE TimeOut(e) \/ RecordTimeout(e)
    BY <2>4 DEF TimeOut, Expire, RecordTimeout, Leave, PcType, Waiting, Answered
  <2> QED BY <1>3, <2>1, <2>2, <2>3, <2>4 DEF Handler
<1>4. ASSUME NEW e \in Execution, Worker(e) \/ WatchDisconnect(e) PROVE UNCHANGED pc
  BY <1>4 DEF Worker, Take, Begin, Execute, Commit, Record, Drop, Release, WatchDisconnect, Only
<1>5. ASSUME NEW r \in Request,
             CancelSignal(r) \/ CancelRecord(r) \/ \E e \in Execution : CancelRead(r, e)
      PROVE  UNCHANGED pc
  BY <1>5 DEF CancelRead, CancelSignal, CancelRecord
<1>6. CASE Shutdown
  BY <1>1, <1>6 DEF Shutdown
<1>7. CASE ProbeStep
  BY <1>1, <1>7, ProbeFrame
<1> QED BY <1>1, <1>2, <1>3, <1>4, <1>5, <1>6, <1>7 DEF Next, vars, ProbeStep

\* An execution that was not called has no row.
LEMMA NextUnrecorded == ASSUME IInv, Unrecorded, [Next]_vars PROVE Unrecorded'
<1> SUFFICES ASSUME NEW f \in Execution, pc'[f] = "idle" PROVE hist'[f] = "none"
  BY DEF Unrecorded
<1>1. hist[f] = "none"
  BY IdleIsFirst DEF Unrecorded
<1>2. CASE UNCHANGED hist
  BY <1>1, <1>2
<1>3. ASSUME NEW e \in Execution, pc'[e] # "idle", hist' = [hist EXCEPT ![e] = "queued"]
      PROVE  hist'[f] = "none"
  BY <1>1, <1>3 DEF IInv, TypeOK
<1>4. ASSUME NEW e \in Execution, NEW s \in Live \cup Terminal, Status(e, s)
      PROVE  hist'[f] = "none"
  BY <1>1, <1>4, StatusKeepsNone DEF IInv
<1> QED BY <1>2, <1>3, <1>4, HistoryWriters DEF CallRecorded

\* One step: a recorded outcome is kept, or pruned.
LEMMA NextFirstOutcome ==
  ASSUME IInv, Unrecorded, [Next]_vars,
         NEW f \in Execution, hist[f] \in Terminal \cup {"pruned"}
  PROVE  hist'[f] \in {hist[f], "pruned"}
<1>1. CASE UNCHANGED hist
  BY <1>1
<1>2. ASSUME NEW e \in Execution, pc[e] = "idle", hist' = [hist EXCEPT ![e] = "queued"]
      PROVE  hist'[f] \in {hist[f], "pruned"}
  <2>1. e # f
    BY <1>2 DEF Unrecorded, Terminal
  <2> QED BY <1>2, <2>1 DEF IInv, TypeOK
<1>3. ASSUME NEW e \in Execution, NEW s \in Live \cup Terminal, Status(e, s)
      PROVE  hist'[f] \in {hist[f], "pruned"}
  BY <1>3, StatusFrame DEF IInv
<1> QED BY <1>1, <1>2, <1>3, HistoryWriters DEF CallRecorded

\* Threads, the event loop and administrators race to finish the same row: the first
\* outcome recorded stands, and only pruning touches the row afterwards.
THEOREM FirstOutcome == Spec => FirstOutcomeStands
<1>1. Init => Unrecorded
  BY DEF Init, Unrecorded
<1>2. IInv /\ Unrecorded /\ [Next]_vars => Unrecorded'
  BY NextUnrecorded
<1>3. IInv /\ Unrecorded /\ [Next]_vars
        => [\A e \in Execution :
              hist[e] \in Terminal \cup {"pruned"} => hist'[e] \in {hist[e], "pruned"}]_hist
  BY NextFirstOutcome
<1> QED BY <1>1, <1>2, <1>3, Invariant, PTL DEF Spec, FirstOutcomeStands

-----------------------------------------------------------------------------
(* The latest outcomes stay *)

\* Rows are born in an order, once, when their execution is called; of those with an
\* outcome no more than HistorySize stay: with IInv, inductive.
Births ==
  /\ \A e \in Execution : pc[e] = "idle" => born[e] = 0
  /\ \A e \in Execution : hist[e] # "none" => born[e] > 0
  /\ \A e, f \in Execution : born[e] > 0 /\ born[e] = born[f] => e = f
  /\ \A e \in Execution : born[e] <= Cardinality({f \in Execution : born[f] > 0})

Finished(h) == {e \in Execution : h[e] \in Terminal}
Newer(h, e) == {f \in Execution : h[f] \in Terminal /\ born[f] > born[e]}

Kept == Cardinality(Finished(hist)) <= HistorySize

\* A set of naturals that is not empty has a least element.
LEMMA Least ==
  ASSUME NEW T \in SUBSET Nat, T # {}
  PROVE  \E m \in T : \A n \in T : m <= n
<1>1. PICK m \in T : \A n \in T : ~ (<<n, m>> \in OpToRel(<, Nat))
  BY NatLessThanWellFounded, WFMin
<1>2. \A n \in T : ~ (n < m)
  BY <1>1 DEF OpToRel
<1> QED BY <1>2

\* Pruning keeps the HistorySize rows with an outcome that were born last, or all of them.
LEMMA PrunesExcess ==
  ASSUME TypeOK, NEW h \in [Execution -> HistType],
         \A e, f \in Finished(h) : born[e] = born[f] => e = f
  PROVE  /\ Cardinality(Finished(Pruned(h))) <= HistorySize
         /\ \A e \in Finished(h) \ Finished(Pruned(h)) :
              /\ Cardinality(Finished(Pruned(h))) = HistorySize
              /\ \A f \in Finished(Pruned(h)) : born[f] > born[e]
<1> DEFINE All == Finished(h)
           Stay == {e \in All : Cardinality(Newer(h, e)) < HistorySize}
<1>1. Finished(Pruned(h)) = Stay
  <2>1. \A e \in Execution : Excess(h, e) <=> Cardinality(Newer(h, e)) >= HistorySize
    BY DEF Excess, Newer
  <2>2. \A e \in Execution : Cardinality(Newer(h, e)) \in Nat
    BY FS_Subset, FS_CardinalityType, ExecutionAssumption DEF Newer
  <2>3. \A e \in Execution : Pruned(h)[e] \in Terminal <=> h[e] \in Terminal /\ ~Excess(h, e)
    BY DEF Pruned, Terminal
  <2> QED BY <2>1, <2>2, <2>3, ExecutionAssumption DEF Finished
<1>2. /\ IsFiniteSet(All) /\ All \subseteq Execution /\ IsFiniteSet(Stay) /\ Stay \subseteq All
      /\ Cardinality(Stay) \in Nat
  BY FS_Subset, FS_CardinalityType, ExecutionAssumption DEF Finished
<1>3. \A e \in Execution : /\ IsFiniteSet(Newer(h, e)) /\ Cardinality(Newer(h, e)) \in Nat
                           /\ Newer(h, e) \subseteq All /\ born[e] \in Nat
  BY FS_Subset, FS_CardinalityType, ExecutionAssumption DEF Newer, Finished, TypeOK
<1>4. \A e, f \in All : born[e] <= born[f] => Cardinality(Newer(h, f)) <= Cardinality(Newer(h, e))
  <2> SUFFICES ASSUME NEW e \in All, NEW f \in All, born[e] <= born[f]
               PROVE  Cardinality(Newer(h, f)) <= Cardinality(Newer(h, e))
    OBVIOUS
  <2>1. Newer(h, f) \subseteq Newer(h, e)
    BY <1>2, <1>3 DEF Newer, TypeOK
  <2> QED BY <1>2, <1>3, <2>1, FS_Subset
<1>5. Cardinality(Stay) <= HistorySize
  <2>1. CASE Stay = {}
    <3> HIDE DEF Stay
    <3>1. Cardinality(Stay) = 0
      BY <2>1, FS_EmptySet
    <3> QED BY <3>1, ExecutionAssumption
  <2>2. CASE Stay # {}
    <3> DEFINE births == {born[e] : e \in Stay}
    <3>1. births \in SUBSET Nat /\ births # {}
      BY <1>2, <1>3, <2>2
    <3>2. PICK m \in births : \A n \in births : m <= n
      <4> HIDE DEF births
      <4> QED BY <3>1, Least
    <3>3. PICK x \in Stay : \A e \in Stay : born[x] <= born[e]
      BY <3>2
    <3>4. Stay \ {x} \subseteq Newer(h, x)
      <4> SUFFICES ASSUME NEW e \in Stay, e # x PROVE e \in Newer(h, x)
        OBVIOUS
      <4>1. born[x] <= born[e] /\ born[x] # born[e] /\ born[x] \in Nat /\ born[e] \in Nat
        BY <1>2, <1>3, <3>3
      <4> QED BY <1>2, <4>1 DEF Newer, Finished
    <3>5. Cardinality(Stay \ {x}) = Cardinality(Stay) - 1
      BY <1>2, FS_RemoveElement
    <3>6. Cardinality(Stay \ {x}) <= Cardinality(Newer(h, x))
      BY <1>2, <1>3, <3>4, FS_Subset
    <3>7. Cardinality(Newer(h, x)) < HistorySize /\ Cardinality(Newer(h, x)) \in Nat
      BY <1>2, <1>3
    <3> HIDE DEF Stay
    <3> QED BY <1>2, <3>5, <3>6, <3>7, ExecutionAssumption
  <2> QED BY <2>1, <2>2
<1>6. ASSUME NEW e \in All \ Stay PROVE Cardinality(Stay) >= HistorySize
  <2> DEFINE counts == {Cardinality(Newer(h, f)) : f \in All \ Stay}
  <2>1. counts \in SUBSET Nat /\ counts # {}
    BY <1>2, <1>3
  <2>2. PICK m \in counts : \A n \in counts : m <= n
    <3> HIDE DEF counts
    <3> QED BY <2>1, Least
  <2>3. PICK x \in All \ Stay :
          \A f \in All \ Stay : Cardinality(Newer(h, x)) <= Cardinality(Newer(h, f))
    BY <2>2
  <2>4. Newer(h, x) \subseteq Stay
    <3> SUFFICES ASSUME NEW f \in Newer(h, x), f \notin Stay PROVE FALSE
      OBVIOUS
    <3>1. f \in All \ Stay /\ born[f] > born[x]
      BY <1>2, <1>3 DEF Newer, Finished
    <3>2. Newer(h, f) \subseteq Newer(h, x) \ {f}
      BY <1>2, <1>3, <3>1 DEF Newer, TypeOK
    <3>3. Cardinality(Newer(h, x) \ {f}) = Cardinality(Newer(h, x)) - 1
      BY <1>2, <1>3, FS_RemoveElement
    <3>4. Cardinality(Newer(h, f)) <= Cardinality(Newer(h, x) \ {f})
      <4>1. IsFiniteSet(Newer(h, x) \ {f})
        BY <1>2, <1>3, FS_RemoveElement
      <4> QED BY <3>2, <4>1, FS_Subset
    <3>5. Cardinality(Newer(h, f)) \in Nat /\ Cardinality(Newer(h, x)) \in Nat
      BY <1>2, <1>3, <3>1
    <3>6. Cardinality(Newer(h, x)) <= Cardinality(Newer(h, f))
      BY <2>3, <3>1
    <3> QED BY <3>3, <3>4, <3>5, <3>6
  <2>5. Cardinality(Newer(h, x)) <= Cardinality(Stay)
    BY <1>2, <2>4, FS_Subset
  <2>6. Cardinality(Newer(h, x)) >= HistorySize /\ Cardinality(Newer(h, x)) \in Nat
    BY <1>2, <1>3, <2>3, ExecutionAssumption
  <2> HIDE DEF Stay
  <2> QED BY <1>2, <2>5, <2>6, ExecutionAssumption
<1>7. ASSUME NEW e \in All \ Stay, NEW f \in Stay PROVE born[f] > born[e]
  <2>1. /\ born[e] \in Nat /\ born[f] \in Nat
        /\ Cardinality(Newer(h, e)) \in Nat /\ Cardinality(Newer(h, f)) \in Nat
    BY <1>2, <1>3
  <2>2. Cardinality(Newer(h, f)) < HistorySize /\ ~(Cardinality(Newer(h, e)) < HistorySize)
    OBVIOUS
  <2>3. ~(Cardinality(Newer(h, e)) <= Cardinality(Newer(h, f)))
    BY <2>1, <2>2, ExecutionAssumption
  <2>4. ~(born[f] <= born[e])
    BY <1>2, <1>4, <2>3
  <2> QED BY <2>1, <2>4
<1> HIDE DEF Stay, All
<1>8. \A e \in All \ Stay : Cardinality(Stay) = HistorySize
  BY <1>2, <1>5, <1>6, ExecutionAssumption
<1> QED BY <1>1, <1>5, <1>7, <1>8 DEF All

\* The table after a recorded status: the row may have an outcome, and what is too much
\* is removed.
LEMMA StatusPrunes ==
  ASSUME IInv, Births, Kept, NEW e \in Execution, NEW s \in Live \cup Terminal, Status(e, s)
  PROVE  /\ Cardinality(Finished(hist')) <= HistorySize
         /\ \A f \in Execution : hist[f] # "pruned" /\ hist'[f] = "pruned" =>
              /\ Cardinality(Finished(hist')) = HistorySize
              /\ \A g \in Finished(hist') : born[g] > born[f]
<1> DEFINE h == Updated(e, s)
<1>1. /\ h \in [Execution -> HistType] /\ hist \in [Execution -> HistType]
      /\ \A f \in Execution : h[f] = hist[f] \/ (f = e /\ h[f] = s /\ hist[f] \in Live)
  BY DEF Updated, HistType, IInv, TypeOK
<1> HIDE DEF h
<1>2. CASE s \in Terminal /\ hist' = Pruned(h)
  <2>1. \A f, g \in Finished(h) : born[f] = born[g] => f = g
    <3>1. \A f \in Finished(h) : f \in Execution /\ hist[f] # "none"
      BY <1>1 DEF Finished, Live, Terminal
    <3> QED BY <3>1 DEF Births
  <2>2. \A f \in Execution : hist[f] # "pruned" /\ hist'[f] = "pruned" =>
          f \in Finished(h) \ Finished(hist')
    <3> SUFFICES ASSUME NEW f \in Execution, hist[f] # "pruned", hist'[f] = "pruned"
                 PROVE  f \in Finished(h) \ Finished(hist')
      OBVIOUS
    <3>1. h[f] # "pruned"
      BY <1>1, <1>2 DEF Terminal
    <3>2. h[f] \in Terminal
      BY <1>2, <3>1 DEF Pruned
    <3> QED BY <3>2 DEF Finished, Terminal
  <2> QED BY <1>1, <1>2, <2>1, <2>2, PrunesExcess DEF IInv
<1>3. CASE s \in Live /\ hist' = h
  <2>1. Finished(hist') = Finished(hist)
    BY <1>1, <1>3 DEF Finished, Live, Terminal
  <2>2. \A f \in Execution : hist'[f] = "pruned" => hist[f] = "pruned"
    BY <1>1, <1>3 DEF Live
  <2> QED BY <2>1, <2>2 DEF Kept
<1>4. Live \cap Terminal = {}
  BY DEF Live, Terminal
<1> QED BY <1>2, <1>3, <1>4 DEF Status, h

\* One step keeps the table as short as it may be, and removes the oldest rows.
LEMMA NextPrunes ==
  ASSUME IInv, Births, Kept, Unrecorded, [Next]_vars
  PROVE  /\ Cardinality(Finished(hist')) <= HistorySize
         /\ \A f \in Execution : hist[f] # "pruned" /\ hist'[f] = "pruned" =>
              /\ Cardinality(Finished(hist')) = HistorySize
              /\ \A g \in Finished(hist') : born[g] > born[f]
<1>1. CASE UNCHANGED histVars
  <2>1. Finished(hist') = Finished(hist)
    BY <1>1 DEF Finished
  <2> QED BY <1>1, <2>1 DEF Kept
<1>2. ASSUME NEW e \in Execution, pc[e] = "idle", CallRecorded(e)
       PROVE  /\ Finished(hist') = Finished(hist)
              /\ \A f \in Execution : hist'[f] \in {hist[f], "queued"}
  <2>1. hist' = [hist EXCEPT ![e] = "queued"] /\ hist[e] = "none"
    BY <1>2 DEF CallRecorded, Unrecorded
  <2> QED BY <2>1 DEF Finished, Terminal, IInv, TypeOK
<1>3. ASSUME NEW e \in Execution, pc[e] = "idle", CallRecorded(e)
      PROVE  /\ Cardinality(Finished(hist')) <= HistorySize
             /\ \A f \in Execution : hist[f] = "pruned" \/ hist'[f] # "pruned"
  BY <1>2, <1>3 DEF Kept
<1> QED BY <1>1, <1>3, StatusPrunes, HistoryWriters

\* The youngest row is the one that was inserted last.
LEMMA NextBirths ==
  ASSUME IInv, Births, Unrecorded, [Next]_vars
  PROVE  Births'
<1> DEFINE rows == {f \in Execution : born[f] > 0}
<1>1. \A f \in Execution : pc'[f] = "idle" => pc[f] = "idle"
  BY IdleIsFirst
<1>2. CASE UNCHANGED histVars
  <2>1. rows' = rows
    BY <1>2
  <2> QED BY <1>1, <1>2, <2>1 DEF Births
<1>3. ASSUME NEW e \in Execution, NEW s \in Live \cup Terminal, Status(e, s) PROVE Births'
  <2>1. UNCHANGED born
    BY <1>3 DEF Status
  <2>2. \A f \in Execution : hist'[f] # "none" => hist[f] # "none"
    BY <1>3, StatusKeepsNone DEF IInv
  <2> QED BY <1>1, <2>1, <2>2 DEF Births
<1>4. ASSUME NEW e \in Execution, pc[e] = "idle", pc'[e] # "idle", CallRecorded(e) PROVE Births'
  <2>1. IsFiniteSet(rows) /\ Cardinality(rows) \in Nat
    BY FS_Subset, FS_CardinalityType, ExecutionAssumption
  <2>2. /\ born[e] = 0 /\ born \in [Execution -> Nat]
        /\ born' = [born EXCEPT ![e] = 1 + Cardinality(rows)]
        /\ hist' = [hist EXCEPT ![e] = "queued"]
    BY <1>4 DEF Births, CallRecorded, IInv, TypeOK
  <2>3. born'[e] = 1 + Cardinality(rows) /\ \A f \in Execution \ {e} : born'[f] = born[f]
    BY <2>2
  <2>4. rows' = rows \cup {e} /\ e \notin rows
    BY <2>1, <2>2, <2>3
  <2>5. Cardinality(rows') = Cardinality(rows) + 1
    BY <2>1, <2>4, FS_AddElement
  <2>6. \A f \in Execution : pc'[f] = "idle" => born'[f] = 0
    BY <1>1, <1>4, <2>3 DEF Births
  <2>7. \A f \in Execution : hist'[f] # "none" => born'[f] > 0
    BY <2>1, <2>2, <2>3 DEF Births, IInv, TypeOK
  <2>8. \A f \in Execution \ {e} : born'[f] <= Cardinality(rows) /\ born'[f] \in Nat
    BY <2>2, <2>3 DEF Births
  <2>9. \A f, g \in Execution : born'[f] > 0 /\ born'[f] = born'[g] => f = g
    <3> HIDE DEF rows
    <3>1. \A f \in Execution \ {e} : born'[f] # born'[e]
      BY <2>1, <2>3, <2>8
    <3>2. \A f, g \in Execution \ {e} : born'[f] > 0 /\ born'[f] = born'[g] => f = g
      BY <2>3 DEF Births
    <3> QED BY <3>1, <3>2
  <2>10. \A f \in Execution : born'[f] <= Cardinality(rows')
    <3> HIDE DEF rows
    <3> QED BY <2>1, <2>3, <2>5, <2>8
  <2> QED BY <2>6, <2>7, <2>9, <2>10 DEF Births
<1> QED BY <1>2, <1>3, <1>4, HistoryWriters

\* However executions finish in whatever order, never more than query_history_size of
\* them stay in the table, and pruning removes older ones than it leaves.
THEOREM Prunes == Spec => PrunesOldest
<1>1. Init => Unrecorded /\ Births /\ Kept
  <2> SUFFICES ASSUME Init PROVE Births /\ Kept
    BY DEF Init, Unrecorded
  <2>1. {f \in Execution : born[f] > 0} = {} /\ Finished(hist) = {}
    BY DEF Init, Finished, Terminal
  <2>2. Cardinality({}) = 0
    BY FS_EmptySet
  <2>3. Kept
    BY <2>1, <2>2, ExecutionAssumption DEF Kept
  <2>4. \A e \in Execution : born[e] = 0 /\ hist[e] = "none"
    BY DEF Init
  <2>5. Cardinality({f \in Execution : born[f] > 0}) = 0
    BY <2>1, <2>2
  <2>6. Births
    BY <2>4, <2>5 DEF Births
  <2> QED BY <2>3, <2>6
<1>2. IInv /\ Unrecorded /\ Births /\ Kept /\ [Next]_vars => Unrecorded' /\ Births' /\ Kept'
  BY NextUnrecorded, NextBirths, NextPrunes DEF Kept, Finished
<1>3. IInv /\ Unrecorded /\ Births /\ Kept /\ [Next]_vars =>
        [LET finished == {e \in Execution : hist'[e] \in Terminal}
             removed == {e \in Execution : hist[e] # "pruned" /\ hist'[e] = "pruned"}
         IN  /\ Cardinality(finished) <= HistorySize
             /\ removed # {} => Cardinality(finished) = HistorySize
             /\ \A e \in removed, f \in finished : born[f] > born[e]]_hist
  BY NextPrunes DEF Finished
<1> QED BY <1>1, <1>2, <1>3, Invariant, PTL DEF Spec, PrunesOldest

-----------------------------------------------------------------------------
(* Cancellations are honoured *)

\* The event was set before the last look at it.
Caught(e) == e \in event /\ work[e] \in {"none"} \cup Stoppable

\* What stays so from then on.
Doomed(e) == e \in event /\ e \notin committed /\ work[e] # "committing"

\* Once set, the event of an execution is never cleared.
LEMMA EventStays == ASSUME [Next]_vars PROVE event \subseteq event'
<1>1. CASE UNCHANGED event
  BY <1>1
<1>2. ASSUME NEW es, Cancel(es) PROVE event \subseteq event'
  BY <1>2 DEF Cancel
<1>3. ASSUME NEW e \in Execution, Call(e) \/ Handler(e) \/ Worker(e) \/ WatchDisconnect(e)
      PROVE  UNCHANGED event \/ \E es : Cancel(es)
  BY <1>3 DEF Call, Handler, Register, AwaitGlobal, AwaitOwner, Deny, Start, Resume, TimeOut,
     Expire, RecordTimeout, Worker, Take, Begin, Execute, Commit, Record, Drop, Release,
     WatchDisconnect, NoCancel, Only
<1>4. ASSUME NEW r \in Request,
             CancelSignal(r) \/ CancelRecord(r) \/ \E e \in Execution : CancelRead(r, e)
      PROVE  UNCHANGED event \/ \E es : Cancel(es)
  BY <1>4 DEF CancelRead, CancelSignal, CancelRecord, NoCancel
<1>5. Shutdown => Cancel(contexts)
  BY DEF Shutdown
<1>6. ProbeStep => UNCHANGED event
  BY ProbeFrame
<1> QED BY <1>1, <1>2, <1>3, <1>4, <1>5, <1>6 DEF Next, vars, ProbeStep

\* Only Take, Begin, Execute, ..., Start and Shutdown move the work of an execution, and of
\* them only Execute, on an event that is not set, goes on to the commit.
LEMMA CommitUncanceled ==
  ASSUME IInv, [Next]_vars, NEW f \in Execution, f \in event, work[f] # "committing"
  PROVE  work'[f] # "committing"
<1>1. CASE UNCHANGED work
  BY <1>1
<1>2. ASSUME NEW e \in Execution, NEW p \in Phase \ {"committing"}, Enter(e, p)
      PROVE  work'[f] # "committing"
  BY <1>2, EnterFrame DEF IInv
<1>3. ASSUME NEW e \in Execution, Call(e) \/ Handler(e) \/ WatchDisconnect(e)
      PROVE  UNCHANGED work \/ \E p \in Phase \ {"committing"} : Enter(e, p)
  BY <1>3 DEF Call, Handler, Register, AwaitGlobal, AwaitOwner, Deny, Start, Submit, Enter,
     Resume, TimeOut, Expire, RecordTimeout, WatchDisconnect, Phase
<1>4. ASSUME NEW e \in Execution,
             Take(e) \/ Begin(e) \/ Commit(e) \/ Record(e) \/ Drop(e) \/ Release(e)
      PROVE  UNCHANGED work \/ \E p \in Phase \ {"committing"} : Enter(e, p)
  BY <1>4 DEF Take, Begin, Commit, Record, Drop, Release, Finish, Phase, OnThread, Connected
<1>5. ASSUME NEW e \in Execution, Execute(e) PROVE work'[f] # "committing"
  <2>1. (\E p \in Phase \ {"committing"} : Enter(e, p))
          \/ (e \notin event /\ Enter(e, "committing"))
    BY <1>5 DEF Execute, GoOnUnlessCanceled, DriverReturns, Finish, Phase, OnThread, Connected
  <2>2. CASE e \notin event /\ Enter(e, "committing")
    BY <2>2 DEF Enter, IInv, TypeOK
  <2> QED BY <1>2, <2>1, <2>2
<1>6. ASSUME NEW r \in Request,
             CancelSignal(r) \/ CancelRecord(r) \/ \E e \in Execution : CancelRead(r, e)
      PROVE  UNCHANGED work
  BY <1>6 DEF CancelRead, CancelSignal, CancelRecord
<1>7. CASE Shutdown
  BY <1>7 DEF Shutdown
<1>8. ProbeStep => UNCHANGED work
  BY ProbeFrame
<1> QED BY <1>1, <1>2, <1>3, <1>4, <1>5, <1>6, <1>7, <1>8 DEF Next, Worker, vars, ProbeStep

\* Only the commit of an execution makes it committed.
LEMMA CommittedOnlyByCommit ==
  ASSUME [Next]_vars
  PROVE  UNCHANGED committed \/ \E e \in Execution : Commit(e)
<1>1. ASSUME NEW e \in Execution, Call(e) \/ Handler(e) \/ WatchDisconnect(e)
      PROVE  UNCHANGED committed
  BY <1>1 DEF Call, Handler, Register, AwaitGlobal, AwaitOwner, Deny, Start,
     Resume, TimeOut, Expire, RecordTimeout, WatchDisconnect
<1>2. ASSUME NEW e \in Execution, Worker(e) PROVE UNCHANGED committed \/ Commit(e)
  BY <1>2 DEF Worker, Take, Begin, Execute, Record, Drop, Release, Only
<1>3. ASSUME NEW r \in Request,
             CancelSignal(r) \/ CancelRecord(r) \/ \E e \in Execution : CancelRead(r, e)
      PROVE  UNCHANGED committed
  BY <1>3 DEF CancelRead, CancelSignal, CancelRecord
<1>4. ProbeStep => UNCHANGED committed
  BY ProbeFrame
<1> QED BY <1>1, <1>2, <1>3, <1>4 DEF Next, vars, Shutdown, ProbeStep

\* One step: an execution canceled in time stays uncommitted.
LEMMA NextDoomed ==
  ASSUME IInv, [Next]_vars, NEW f \in Execution, Doomed(f) PROVE Doomed(f)'
<1>1. f \in event' /\ work'[f] # "committing"
  BY EventStays, CommitUncanceled DEF Doomed
<1>2. f \notin committed'
  BY CommittedOnlyByCommit DEF Doomed, Commit
<1> QED BY <1>1, <1>2 DEF Doomed

\* A cancellation that comes before the thread's last look at the event is honoured:
\* the transaction is never committed.
THEOREM Honoured == Spec => CancelIsHonoured
<1> SUFFICES ASSUME NEW e \in Execution
             PROVE  Spec => [](Caught(e) => [](e \notin committed))
  BY DEF CancelIsHonoured, Caught
<1>1. IInv /\ Caught(e) => Doomed(e)
  BY DEF IInv, Placed, PlacedAt, Caught, Doomed, Stoppable, Over
<1>2. IInv /\ [Next]_vars /\ Doomed(e) => Doomed(e)'
  BY NextDoomed
<1>3. Doomed(e) => e \notin committed
  BY DEF Doomed
<1> QED BY <1>1, <1>2, <1>3, Invariant, PTL DEF Spec
====
