---- MODULE RouteReloadProofs ----
(***************************************************************************)
(* What is proved of RouteReload for every value of its constants.         *)
(***************************************************************************)
EXTENDS RouteReload, SequenceTheorems, TLAPS

USE DEF loadVars, appVars, docVars, life

-----------------------------------------------------------------------------
(* The inductive invariant *)

Applying == {"include", "place", "clear"}

\* The lock is held by the operation that is applying routes, and what the
\* application has then is known. When nobody holds it the application has one
\* generation, which is the loader's unless an operation has yet to apply it.
Shape ==
  /\ \A o \in Operator : o \in lock <=> pc[o] \in Applying
  /\ \A o \in Operator :
       /\ pc[o] = "include" => front = <<>> /\ behind = <<>>
       /\ pc[o] = "place" => front = <<>> /\ behind = <<router>>
       /\ pc[o] = "clear" => front = <<router>> /\ behind = <<>>
  /\ lock = {} /\ process = "serving" =>
       /\ behind = <<>>
       /\ \E p \in Published : front = <<p>>
       /\ (\A o \in Operator : pc[o] # "apply") => front = <<router>>

\* While nothing overlapped or failed: one operation at a time, with no schema
\* being generated; what it has read is what is stored, and then the router what of it
\* is valid.
Undisturbed ==
  /\ \A o1, o2 \in Operator : pc[o1] # "idle" /\ pc[o2] # "idle" => o1 = o2
  /\ ~Quiet => building = NoSchema
  /\ \A o \in Operator :
       /\ pc[o] = "parameters" => rows[o] = stored
       /\ pc[o] = "swap" => rows[o] = Loaded(stored)
       /\ pc[o] \in {"apply"} \cup Applying => router = Loaded(stored)
  /\ Quiet => router = Loaded(stored)
  /\ Quiet => building \in {NoSchema, <<front>>}
  /\ Quiet /\ building = NoSchema => schema \in {NoSchema, <<front>>}

Fresh ==
  /\ process # "serving" => building = NoSchema /\ schema = NoSchema
  /\ ~mixed /\ process = "serving" => Undisturbed

IInv == TypeOK /\ Shape /\ Fresh

-----------------------------------------------------------------------------
(* What the helpers do *)

PcType == {"idle", "load", "parameters", "swap", "apply"} \cup Applying

\* Goto moves one operation and no other.
LEMMA GotoFrame ==
  ASSUME TypeOK, NEW o \in Operator, NEW from, NEW to \in PcType, Goto(o, from, to)
  PROVE  /\ pc[o] = from
         /\ pc' \in [Operator -> PcType]
         /\ pc'[o] = to
         /\ \A p \in Operator \ {o} : pc'[p] = pc[p]
<1>1. pc' = [pc EXCEPT ![o] = to] /\ pc[o] = from /\ pc \in [Operator -> PcType]
  BY DEF TypeOK, Goto, PcType, Applying
<1> QED BY <1>1

\* A router and its single generation are of their types; so is no schema.
LEMMA SequenceTypes ==
  /\ \A p \in Published : <<p>> \in Seq(Published) /\ <<p>> # <<>>
  /\ <<>> \in Seq(Published)
  /\ NoSchema \in Seq(Seq(Published))
  /\ \A s \in Seq(Published) : <<s>> \in Seq(Seq(Published))
  /\ Nothing \in Published
  BY RouteAssumption DEF NoSchema, Nothing, Published, Definition, Inactive

\* What the loader makes of queries that are of their type is of their type.
LEMMA LoadedTypes == \A read \in Published : Loaded(read) \in Published
<1>1. Inactive \in Definition
  BY RouteAssumption DEF Definition, Inactive
<1> QED BY <1>1 DEF Loaded, Published

\* The first state satisfies the invariant.
LEMMA InitIInv == Init => IInv
<1> SUFFICES ASSUME Init PROVE IInv
  OBVIOUS
<1>1. TypeOK
  <2>1. /\ stored \in Published /\ rows \in [Operator -> Published] /\ router \in Published
        /\ front \in Seq(Published) /\ behind \in Seq(Published)
        /\ schema \in Seq(Seq(Published)) /\ building \in Seq(Seq(Published))
    BY SequenceTypes DEF Init
  <2>2. edits \in 0..MaxEdits /\ crashes \in 0..MaxCrashes /\ faults \in 0..MaxMetaFaults
    BY RouteAssumption DEF Init
  <2> QED BY <2>1, <2>2 DEF Init, TypeOK, Quiet
<1>2. Shape
  BY DEF Init, Shape, Applying
<1>3. Fresh
  BY DEF Init, Fresh
<1> QED BY <1>1, <1>2, <1>3 DEF IInv

-----------------------------------------------------------------------------
(* The process *)

\* Boot preserves the invariant.
LEMMA BootIInv == ASSUME IInv, Boot PROVE IInv'
<1>1. TypeOK'
  BY DEF IInv, TypeOK, Boot, Quiet
<1>2. Shape'
  BY DEF IInv, Shape, Boot
<1>3. Fresh'
  BY DEF IInv, Fresh, Boot
<1> QED BY <1>1, <1>2, <1>3 DEF IInv

\* Migrate preserves the invariant.
LEMMA MigrateIInv == ASSUME IInv, Migrate PROVE IInv'
<1>1. TypeOK'
  BY DEF IInv, TypeOK, Migrate, Quiet
<1>2. Shape'
  BY DEF IInv, Shape, Migrate
<1>3. Fresh'
  BY DEF IInv, Fresh, Migrate
<1> QED BY <1>1, <1>2, <1>3 DEF IInv

\* Serve preserves the invariant: the first routes are those stored that are valid.
LEMMA ServeIInv == ASSUME IInv, Serve PROVE IInv'
<1>1. /\ Loaded(stored) \in Published
      /\ front' = <<Loaded(stored)>> /\ router' = Loaded(stored)
  BY LoadedTypes DEF IInv, TypeOK, Serve
<1>2. TypeOK'
  <2>1. front' \in Seq(Published)
    BY <1>1, SequenceTypes
  <2>2. tables = "all"
    BY DEF IInv, TypeOK, Serve
  <2>3. process' = "serving" /\ mixed' = FALSE
    BY DEF Serve
  <2>4. UNCHANGED <<tables, crashes, stored, edits, pc, rows, lock, behind, docVars, faults>>
    BY DEF Serve
  <2>5. router' \in Published
    BY <1>1
  <2> QED BY <2>1, <2>2, <2>3, <2>4, <2>5 DEF IInv, TypeOK
<1>3. Quiet /\ behind = <<>> /\ UNCHANGED <<pc, lock, behind, rows, docVars, stored>>
  BY DEF IInv, TypeOK, Serve
<1>4. Shape'
  BY <1>1, <1>3 DEF IInv, Shape, Quiet, Applying
<1>5. Undisturbed'
  BY <1>1, <1>3 DEF IInv, Fresh, Serve, Undisturbed, Quiet, Applying
<1>6. Fresh'
  BY <1>3, <1>5 DEF IInv, Fresh, Serve
<1> QED BY <1>2, <1>4, <1>6 DEF IInv

\* Crash preserves the invariant: all that was in memory is gone.
LEMMA CrashIInv == ASSUME IInv, Crash PROVE IInv'
<1>1. TypeOK'
  <2>1. pc' \in [Operator -> PcType] /\ \A o \in Operator : pc'[o] = "idle"
    BY DEF Crash, PcType
  <2>2. rows' \in [Operator -> Published] /\ router' \in Published
    BY SequenceTypes DEF Crash
  <2>3. crashes' \in 0..MaxCrashes
    BY RouteAssumption DEF IInv, TypeOK, Crash
  <2> QED BY <2>1, <2>2, <2>3, SequenceTypes
          DEF IInv, TypeOK, Crash, Quiet, PcType, Applying
<1>2. Shape'
  BY DEF Shape, Crash, Applying
<1>3. Fresh'
  BY DEF IInv, Fresh, Crash
<1> QED BY <1>1, <1>2, <1>3 DEF IInv

-----------------------------------------------------------------------------
(* The operation *)

\* An operation that begins keeps what the application has, and is alone if nothing
\* overlaps it.
LEMMA BeginFrame ==
  ASSUME IInv, NEW o \in Operator, process = "serving", Goto(o, "idle", "load"), Begins,
         UNCHANGED <<life, loadVars, appVars, docVars>>
  PROVE  /\ pc' \in [Operator -> PcType]
         /\ mixed' \in BOOLEAN
         /\ Shape'
         /\ ~mixed' => Undisturbed'
<1>1. /\ pc[o] = "idle"
      /\ pc' \in [Operator -> PcType]
      /\ pc'[o] = "load"
      /\ \A p \in Operator \ {o} : pc'[p] = pc[p]
  BY GotoFrame DEF IInv, PcType
<1>2. mixed' \in BOOLEAN
  BY DEF Begins
<1>3. Shape'
  BY <1>1 DEF IInv, Shape, Applying
<1>4. ASSUME ~mixed' PROVE Undisturbed'
  <2>1. Quiet /\ building = NoSchema
    BY <1>4 DEF Begins
  <2>2. \A p \in Operator : pc'[p] = IF p = o THEN "load" ELSE "idle"
    BY <1>1, <2>1 DEF Quiet
  <2>3. ~Quiet'
    BY <2>2 DEF Quiet
  <2> QED BY <2>1, <2>2, <2>3 DEF Undisturbed, Applying
<1> QED BY <1>1, <1>2, <1>3, <1>4

\* Edit preserves the invariant.
LEMMA EditIInv == ASSUME IInv, NEW o \in Operator, Edit(o) PROVE IInv'
<1>1. /\ pc' \in [Operator -> PcType]
      /\ mixed' \in BOOLEAN
      /\ Shape'
      /\ ~mixed' => Undisturbed'
  BY BeginFrame DEF Edit
<1>2. edits' \in 0..MaxEdits /\ process = "serving"
  BY RouteAssumption DEF IInv, TypeOK, Edit
<1>3. stored' \in Published
  <2> DEFINE new(query, valid) == [query |-> query, parameters |-> edits', valid |-> valid]
  <2>1. stored \in Published
    BY DEF IInv, TypeOK
  <2>2. Inactive \in Definition
    BY RouteAssumption DEF Definition, Inactive
  <2>3. ASSUME NEW q \in Route, NEW query \in {stored[q].query, edits'}, NEW valid \in BOOLEAN
        PROVE  new(query, valid) \in Definition
    BY <1>2, <2>1 DEF Published, Definition
  <2>4. PICK q \in Route :
          \/ stored' = [stored EXCEPT ![q] = Inactive]
          \/ \E query \in {stored[q].query, edits'}, valid \in BOOLEAN :
               stored' = [stored EXCEPT ![q] = new(query, valid)]
    BY DEF Edit
  <2>5. PICK d \in Definition : stored' = [stored EXCEPT ![q] = d]
    BY <2>2, <2>3, <2>4
  <2> QED BY <2>1, <2>5 DEF Published
<1>4. UNCHANGED <<life, loadVars, appVars, docVars, faults>>
  BY DEF Edit
<1>5. TypeOK'
  BY <1>1, <1>2, <1>3, <1>4 DEF IInv, TypeOK, PcType, Applying
<1>6. Fresh'
  BY <1>1, <1>2, <1>3, <1>4 DEF IInv, Fresh
<1> QED BY <1>1, <1>5, <1>6 DEF IInv

\* Refresh preserves the invariant.
LEMMA RefreshIInv == ASSUME IInv, NEW o \in Operator, Refresh(o) PROVE IInv'
<1>1. /\ pc' \in [Operator -> PcType]
      /\ mixed' \in BOOLEAN
      /\ Shape'
      /\ ~mixed' => Undisturbed'
  BY BeginFrame DEF Refresh
<1>2. process = "serving" /\ UNCHANGED <<life, stored, edits, loadVars, appVars, docVars, faults>>
  BY DEF Refresh
<1>3. TypeOK'
  BY <1>1, <1>2 DEF IInv, TypeOK, PcType, Applying
<1>4. Fresh'
  BY <1>1, <1>2 DEF IInv, Fresh
<1> QED BY <1>1, <1>3, <1>4 DEF IInv

\* An operation is under way only while the process serves requests.
LEMMA UnderWay ==
  ASSUME TypeOK, NEW o \in Operator, pc[o] # "idle"
  PROVE  process = "serving" /\ ~Quiet
  BY DEF TypeOK, Quiet

\* LoadQueries preserves the invariant.
LEMMA LoadQueriesIInv == ASSUME IInv, NEW o \in Operator, LoadQueries(o) PROVE IInv'
<1>1. /\ pc[o] = "load"
      /\ pc' \in [Operator -> PcType]
      /\ pc'[o] = "parameters"
      /\ \A p \in Operator \ {o} : pc'[p] = pc[p]
  BY GotoFrame DEF IInv, LoadQueries, PcType
<1>2. rows' = [rows EXCEPT ![o] = stored]
  BY DEF LoadQueries
<1>3. UNCHANGED <<life, stored, edits, router, appVars, docVars, faults, mixed>>
  BY DEF LoadQueries
<1>4. process = "serving" /\ ~Quiet
  BY <1>1, UnderWay DEF IInv
<1>5. TypeOK'
  <2>1. rows' \in [Operator -> Published]
    BY <1>2 DEF IInv, TypeOK
  <2> QED BY <1>1, <1>3, <1>4, <2>1 DEF IInv, TypeOK, PcType, Applying
<1>6. Shape'
  BY <1>1, <1>3 DEF IInv, Shape, Applying
<1>7. ASSUME Undisturbed PROVE Undisturbed'
  <2>1. rows'[o] = stored /\ \A p \in Operator \ {o} : rows'[p] = rows[p]
    BY <1>2 DEF IInv, TypeOK
  <2>2. ~Quiet'
    BY <1>1 DEF Quiet
  <2> QED BY <1>1, <1>3, <1>4, <1>7, <2>1, <2>2 DEF Undisturbed, Applying
<1>8. Fresh'
  BY <1>3, <1>4, <1>7 DEF IInv, Fresh
<1> QED BY <1>5, <1>6, <1>8 DEF IInv

\* LoadFails preserves the invariant.
LEMMA LoadFailsIInv == ASSUME IInv, NEW o \in Operator, LoadFails(o) PROVE IInv'
<1>1. /\ pc[o] \in {"load", "parameters"}
      /\ pc' \in [Operator -> PcType]
      /\ pc'[o] = "idle"
      /\ \A p \in Operator \ {o} : pc'[p] = pc[p]
  <2>1. PICK from \in {"load", "parameters"} : Goto(o, from, "idle")
    BY DEF LoadFails
  <2> QED BY <2>1, GotoFrame DEF IInv, PcType
<1>2. UNCHANGED <<life, stored, edits, loadVars, appVars, docVars>> /\ mixed' = TRUE
  BY DEF LoadFails
<1>3. faults' \in 0..MaxMetaFaults
  BY RouteAssumption DEF IInv, TypeOK, LoadFails
<1>4. process = "serving"
  BY <1>1, UnderWay DEF IInv
<1>5. TypeOK'
  BY <1>1, <1>2, <1>3, <1>4 DEF IInv, TypeOK, PcType, Applying
<1>6. Shape'
  BY <1>1, <1>2 DEF IInv, Shape, Applying
<1>7. Fresh'
  BY <1>2, <1>4 DEF IInv, Fresh
<1> QED BY <1>5, <1>6, <1>7 DEF IInv

\* LoadParameters preserves the invariant: what has not changed meanwhile is not torn.
LEMMA LoadParametersIInv == ASSUME IInv, NEW o \in Operator, LoadParameters(o) PROVE IInv'
<1>1. /\ pc[o] = "parameters"
      /\ pc' \in [Operator -> PcType]
      /\ pc'[o] = "swap"
      /\ \A p \in Operator \ {o} : pc'[p] = pc[p]
  BY GotoFrame DEF IInv, LoadParameters, PcType
<1>2. UNCHANGED <<life, stored, edits, router, appVars, docVars, faults, mixed>>
  BY DEF LoadParameters
<1>3. process = "serving" /\ ~Quiet
  BY <1>1, UnderWay DEF IInv
<1> DEFINE torn == {q \in Route : /\ rows[o][q].query # 0
                                  /\ rows[o][q].parameters # stored[q].parameters}
           Read(q, fit) == IF q \in torn
                           THEN [query |-> rows[o][q].query,
                                 parameters |-> stored[q].parameters, valid |-> q \in fit]
                           ELSE rows[o][q]
<1>4. PICK fit \in SUBSET torn :
        rows' = [rows EXCEPT ![o] = Loaded([q \in Route |-> Read(q, fit)])]
  BY DEF LoadParameters
<1>5. stored \in Published /\ rows \in [Operator -> Published]
  BY DEF IInv, TypeOK
<1>6. /\ rows'[o] = Loaded([q \in Route |-> Read(q, fit)])
      /\ \A p \in Operator \ {o} : rows'[p] = rows[p]
  BY <1>4, <1>5
<1>7. rows' \in [Operator -> Published]
  <2>1. ASSUME NEW q \in Route PROVE Read(q, fit) \in Definition
    <3>1. stored[q] \in Definition /\ rows[o][q] \in Definition
      BY <1>5 DEF Published
    <3>2. (q \in fit) \in BOOLEAN
      OBVIOUS
    <3> QED BY <3>1, <3>2 DEF Definition
  <2>2. [q \in Route |-> Read(q, fit)] \in Published
    BY <2>1 DEF Published
  <2> QED BY <1>4, <1>5, <2>2, LoadedTypes
<1>8. TypeOK'
  BY <1>1, <1>2, <1>3, <1>7 DEF IInv, TypeOK, PcType, Applying
<1>9. Shape'
  BY <1>1, <1>2 DEF IInv, Shape, Applying
<1>10. ASSUME Undisturbed PROVE Undisturbed'
  <2>1. rows[o] = stored
    BY <1>1, <1>10 DEF Undisturbed
  <2>2. torn = {}
    BY <2>1
  <2>3. \A q \in Route : Read(q, fit) = stored[q]
    BY <2>1, <2>2
  <2>4. [q \in Route |-> Read(q, fit)] = stored
    BY <1>5, <2>3 DEF Published
  <2>5. rows'[o] = Loaded(stored)
    BY <1>6, <2>4
  <2>6. ~Quiet'
    BY <1>1 DEF Quiet
  <2> QED BY <1>1, <1>2, <1>3, <1>6, <1>10, <2>5, <2>6 DEF Undisturbed, Applying
<1>11. Fresh'
  BY <1>2, <1>3, <1>10 DEF IInv, Fresh
<1> QED BY <1>8, <1>9, <1>11 DEF IInv

\* Swap preserves the invariant: nobody is applying routes meanwhile.
LEMMA SwapIInv == ASSUME IInv, NEW o \in Operator, Swap(o) PROVE IInv'
<1>1. /\ pc[o] = "swap"
      /\ pc' \in [Operator -> PcType]
      /\ pc'[o] = "apply"
      /\ \A p \in Operator \ {o} : pc'[p] = pc[p]
  BY GotoFrame DEF IInv, Swap, PcType
<1>2. /\ lock = {} /\ router' = rows[o]
      /\ UNCHANGED <<life, stored, edits, rows, appVars, docVars, faults, mixed>>
  BY DEF Swap, Unlocked
<1>3. process = "serving" /\ ~Quiet
  BY <1>1, UnderWay DEF IInv
<1>4. TypeOK'
  <2>1. router' \in Published
    BY <1>2 DEF IInv, TypeOK
  <2> QED BY <1>1, <1>2, <1>3, <2>1 DEF IInv, TypeOK, PcType, Applying
<1>5. Shape'
  BY <1>1, <1>2 DEF IInv, Shape, Applying
<1>6. ASSUME Undisturbed PROVE Undisturbed'
  <2>1. ~Quiet' /\ router' = Loaded(stored)
    BY <1>1, <1>2, <1>6 DEF Quiet, Undisturbed
  <2> QED BY <1>1, <1>2, <1>3, <1>6, <2>1 DEF Undisturbed, Applying
<1>7. Fresh'
  BY <1>2, <1>3, <1>6 DEF IInv, Fresh
<1> QED BY <1>4, <1>5, <1>7 DEF IInv

\* A step of apply_to_app that leaves the schema alone keeps what is undisturbed.
LEMMA ApplyingFrame ==
  ASSUME IInv, NEW o \in Operator, pc[o] \in {"apply", "include", "place"},
         pc'[o] \in Applying, \A p \in Operator \ {o} : pc'[p] = pc[p],
         UNCHANGED <<process, stored, loadVars, docVars, mixed>>
  PROVE  Fresh'
<1>1. process = "serving" /\ ~Quiet
  BY UnderWay DEF IInv
<1>2. ~Quiet'
  BY DEF Quiet, Applying
<1>3. ASSUME Undisturbed PROVE Undisturbed'
  BY <1>1, <1>2, <1>3 DEF Undisturbed, Applying
<1> QED BY <1>1, <1>3 DEF IInv, Fresh

\* Remove preserves the invariant: no dynamic route is left.
LEMMA RemoveIInv == ASSUME IInv, NEW o \in Operator, Remove(o) PROVE IInv'
<1>1. /\ pc[o] = "apply"
      /\ pc' \in [Operator -> PcType]
      /\ pc'[o] = "include"
      /\ \A p \in Operator \ {o} : pc'[p] = pc[p]
  BY GotoFrame DEF IInv, Remove, PcType, Applying
<1>2. /\ lock = {} /\ lock' = {o} /\ front' = <<>> /\ behind' = <<>>
      /\ UNCHANGED <<life, stored, edits, loadVars, docVars, faults, mixed>>
  BY DEF Remove, Unlocked, Kept
<1>3. process = "serving"
  BY <1>1, UnderWay DEF IInv
<1>4. TypeOK'
  BY <1>1, <1>2, <1>3, SequenceTypes DEF IInv, TypeOK, PcType, Applying
<1>5. Shape'
  BY <1>1, <1>2 DEF IInv, Shape, Applying
<1>6. Fresh'
  BY <1>1, <1>2, ApplyingFrame DEF Applying
<1> QED BY <1>4, <1>5, <1>6 DEF IInv

\* While an operation applies routes, no other does.
LEMMA Alone ==
  ASSUME IInv, NEW o \in Operator, pc[o] \in Applying
  PROVE  lock = {o} /\ \A p \in Operator \ {o} : pc[p] \notin Applying
  BY DEF IInv, TypeOK, Shape

\* Include preserves the invariant.
LEMMA IncludeIInv == ASSUME IInv, NEW o \in Operator, Include(o) PROVE IInv'
<1>1. /\ pc[o] = "include"
      /\ pc' \in [Operator -> PcType]
      /\ pc'[o] = "place"
      /\ \A p \in Operator \ {o} : pc'[p] = pc[p]
  BY GotoFrame DEF IInv, Include, PcType, Applying
<1>2. UNCHANGED <<life, stored, edits, loadVars, lock, front, docVars, faults, mixed>>
  BY DEF Include
<1>3. lock = {o} /\ \A p \in Operator \ {o} : pc[p] \notin Applying
  BY <1>1, Alone DEF Applying
<1>4. process = "serving"
  BY <1>1, UnderWay DEF IInv
<1>5. front = <<>> /\ behind' = <<router>>
  <2>1. front = <<>> /\ behind = <<>> /\ router \in Published
    BY <1>1 DEF IInv, TypeOK, Shape
  <2>2. behind \in Seq(Published) /\ <<router>> \in Seq(Published)
    BY <2>1, SequenceTypes
  <2>3. Append(behind, router) = behind \o <<router>>
    BY <2>1, <2>2, AppendIsConcat
  <2> QED BY <2>1, <2>2, <2>3, ConcatEmptySeq DEF Include
<1>6. TypeOK'
  <2>1. behind' \in Seq(Published)
    BY <1>5, SequenceTypes DEF IInv, TypeOK
  <2> QED BY <1>1, <1>2, <1>4, <2>1 DEF IInv, TypeOK, PcType, Applying
<1>7. Shape'
  BY <1>1, <1>2, <1>3, <1>5 DEF IInv, Shape, Applying
<1>8. Fresh'
  BY <1>1, <1>2, ApplyingFrame DEF Applying
<1> QED BY <1>6, <1>7, <1>8 DEF IInv

\* Place preserves the invariant: the router is now ahead of the mount.
LEMMA PlaceIInv == ASSUME IInv, NEW o \in Operator, Place(o) PROVE IInv'
<1>1. /\ pc[o] = "place"
      /\ pc' \in [Operator -> PcType]
      /\ pc'[o] = "clear"
      /\ \A p \in Operator \ {o} : pc'[p] = pc[p]
  BY GotoFrame DEF IInv, Place, PcType, Applying
<1>2. /\ UNCHANGED <<life, stored, edits, loadVars, lock, docVars, faults, mixed>>
      /\ front' = front \o behind /\ behind' = <<>>
  BY DEF Place
<1>3. lock = {o} /\ \A p \in Operator \ {o} : pc[p] \notin Applying
  BY <1>1, Alone DEF Applying
<1>4. process = "serving"
  BY <1>1, UnderWay DEF IInv
<1>5. front' = <<router>>
  BY <1>1, <1>2, SequenceTypes, ConcatEmptySeq DEF IInv, TypeOK, Shape
<1>6. TypeOK'
  <2>1. front' \in Seq(Published) /\ behind' \in Seq(Published)
    BY <1>2, <1>5, SequenceTypes DEF IInv, TypeOK
  <2> QED BY <1>1, <1>2, <1>4, <2>1 DEF IInv, TypeOK, PcType, Applying
<1>7. Shape'
  BY <1>1, <1>2, <1>3, <1>5 DEF IInv, Shape, Applying
<1>8. Fresh'
  BY <1>1, <1>2, ApplyingFrame DEF Applying
<1> QED BY <1>6, <1>7, <1>8 DEF IInv

\* ClearSchema preserves the invariant: the lock is free, and the loader's router served.
LEMMA ClearSchemaIInv == ASSUME IInv, NEW o \in Operator, ClearSchema(o) PROVE IInv'
<1>1. /\ pc[o] = "clear"
      /\ pc' \in [Operator -> PcType]
      /\ pc'[o] = "idle"
      /\ \A p \in Operator \ {o} : pc'[p] = pc[p]
  BY GotoFrame DEF IInv, ClearSchema, PcType
<1>2. UNCHANGED <<life, stored, edits, loadVars, front, behind, building, faults, mixed>>
  BY DEF ClearSchema
<1>3. lock = {o} /\ \A p \in Operator \ {o} : pc[p] \notin Applying
  BY <1>1, Alone DEF Applying
<1>4. lock' = {} /\ schema' = NoSchema
  BY <1>3 DEF ClearSchema
<1>5. process = "serving" /\ ~Quiet
  BY <1>1, UnderWay DEF IInv
<1>6. front = <<router>> /\ behind = <<>> /\ router \in Published
  BY <1>1 DEF IInv, TypeOK, Shape
<1>7. TypeOK'
  BY <1>1, <1>2, <1>4, <1>5, SequenceTypes DEF IInv, TypeOK, PcType, Applying
<1>8. Shape'
  BY <1>1, <1>2, <1>3, <1>4, <1>6 DEF Shape, Applying
<1>9. ASSUME Undisturbed PROVE Undisturbed'
  BY <1>1, <1>2, <1>4, <1>5, <1>9 DEF Undisturbed, Applying
<1>10. Fresh'
  BY <1>2, <1>5, <1>9 DEF IInv, Fresh
<1> QED BY <1>7, <1>8, <1>10 DEF IInv

-----------------------------------------------------------------------------
(* The schema *)

\* BuildSchema preserves the invariant.
LEMMA BuildSchemaIInv == ASSUME IInv, BuildSchema PROVE IInv'
<1>1. /\ process = "serving" /\ schema = NoSchema /\ building' = <<front \o behind>>
      /\ UNCHANGED <<life, stored, edits, pc, loadVars, appVars, schema, faults>>
  BY DEF BuildSchema
<1>2. front \in Seq(Published) /\ behind \in Seq(Published) /\ mixed' \in BOOLEAN
  BY DEF IInv, TypeOK, BuildSchema
<1>3. front \o behind \in Seq(Published)
  BY <1>2, ConcatProperties
<1>4. TypeOK'
  <2>1. building' \in Seq(Seq(Published))
    BY <1>1, <1>3, SequenceTypes
  <2> QED BY <1>1, <1>2, <2>1 DEF IInv, TypeOK, Quiet
<1>5. Shape'
  BY <1>1 DEF IInv, Shape
<1>6. ASSUME ~mixed' PROVE Undisturbed'
  <2>1. ~mixed /\ Quiet
    BY <1>6 DEF BuildSchema
  <2>2. behind = <<>>
    <3>1. lock = {}
      BY <2>1 DEF IInv, TypeOK, Shape, Quiet, Applying
    <3> QED BY <1>1, <3>1 DEF IInv, Shape
  <2>3. building' = <<front>>
    BY <1>1, <1>2, <2>2, ConcatEmptySeq
  <2> QED BY <1>1, <2>1, <2>3 DEF IInv, Fresh, Undisturbed, Quiet
<1>7. Fresh'
  BY <1>1, <1>6 DEF IInv, Fresh
<1> QED BY <1>4, <1>5, <1>7 DEF IInv

\* CacheSchema preserves the invariant.
LEMMA CacheSchemaIInv == ASSUME IInv, CacheSchema PROVE IInv'
<1>1. /\ building # NoSchema /\ schema' = building /\ building' = NoSchema
      /\ UNCHANGED <<life, stored, edits, pc, loadVars, appVars, faults, mixed>>
  BY DEF CacheSchema
<1>2. process = "serving"
  BY <1>1 DEF IInv, Fresh
<1>3. TypeOK'
  BY <1>1, SequenceTypes DEF IInv, TypeOK, Quiet
<1>4. Shape'
  BY <1>1 DEF IInv, Shape
<1>5. ASSUME Undisturbed PROVE Undisturbed'
  <2>1. Quiet /\ schema' = <<front>>
    BY <1>1, <1>5 DEF Undisturbed
  <2> QED BY <1>1, <1>5, <2>1 DEF Undisturbed, Quiet
<1>6. Fresh'
  BY <1>1, <1>2, <1>5 DEF IInv, Fresh
<1> QED BY <1>3, <1>4, <1>6 DEF IInv

-----------------------------------------------------------------------------
(* The theorems *)

\* Every step preserves the invariant.
LEMMA StepIInv == IInv /\ [Next]_vars => IInv'
<1> SUFFICES ASSUME IInv, [Next]_vars PROVE IInv'
  OBVIOUS
<1>1. ASSUME NEW o \in Operator, Edit(o) \/ Refresh(o) \/ Reload(o) PROVE IInv'
  BY <1>1, EditIInv, RefreshIInv, LoadQueriesIInv, LoadParametersIInv, LoadFailsIInv, SwapIInv,
     RemoveIInv, IncludeIInv, PlaceIInv, ClearSchemaIInv DEF Reload
<1>2. CASE BuildSchema
  BY <1>2, BuildSchemaIInv
<1>3. CASE CacheSchema
  BY <1>3, CacheSchemaIInv
<1>4. CASE Boot \/ Migrate \/ Serve \/ Crash
  BY <1>4, BootIInv, MigrateIInv, ServeIInv, CrashIInv
<1>5. CASE UNCHANGED vars
  BY <1>5 DEF IInv, TypeOK, Shape, Fresh, Undisturbed, Quiet, vars
<1>6. CASE BootFails
  BY <1>5, <1>6 DEF BootFails
<1> QED BY <1>1, <1>2, <1>3, <1>4, <1>5, <1>6 DEF Next

\* The invariant holds always.
LEMMA Invariance == Spec => []IInv
  BY InitIInv, StepIInv, PTL DEF Spec

\* Type correctness: in particular, requests, operations and schemas meet a whole metastore,
\* also after any number of ends of the process (migrations.py, dynamic_loader.py).
THEOREM Types == Spec => []TypeOK
<1>1. IInv => TypeOK
  BY DEF IInv
<1> QED BY <1>1, Invariance, PTL

\* No interleaving of reloads leaves two generations of dynamic routes in the application
\* (apply_to_app, dynamic_loader.py).
THEOREM OnlyOneGeneration == Spec => []OneGeneration
<1>1. IInv => OneGeneration
  <2> SUFFICES ASSUME IInv PROVE OneGeneration
    OBVIOUS
  <2>1. Len(<<>>) = 0 /\ \A p \in Published : Len(<<p>>) = 1
    OBVIOUS
  <2>2. ASSUME NEW s \in Seq(Published) PROVE <<>> \o s = s /\ s \o <<>> = s
    BY <2>2, ConcatEmptySeq
  <2>3. /\ front \in Seq(Published) /\ behind \in Seq(Published) /\ router \in Published
        /\ <<router>> \in Seq(Published)
    BY SequenceTypes DEF IInv, TypeOK
  <2>4. CASE process # "serving"
    <3>1. front = <<>> /\ behind = <<>>
      BY <2>4 DEF IInv, TypeOK
    <3> QED BY <2>1, <2>2, <2>3, <3>1 DEF OneGeneration
  <2>5. CASE lock = {} /\ process = "serving"
    <3>1. behind = <<>> /\ \E p \in Published : front = <<p>>
      BY <2>5 DEF IInv, Shape
    <3> QED BY <2>1, <2>2, <2>3, <3>1 DEF OneGeneration
  <2>6. CASE lock # {}
    <3>1. PICK o \in Operator : lock = {o} /\ pc[o] \in Applying
      BY <2>6 DEF IInv, TypeOK, Shape
    <3>2. \/ front = <<>> /\ behind = <<>>
          \/ front = <<>> /\ behind = <<router>>
          \/ front = <<router>> /\ behind = <<>>
      BY <3>1 DEF IInv, Shape, Applying
    <3>3. front \o behind \in {<<>>, <<router>>}
      BY <2>2, <2>3, <3>2
    <3>4. Len(<<router>>) = 1
      BY <2>1, <2>3
    <3>5. Len(front \o behind) \in {0, 1}
      BY <2>1, <3>3, <3>4
    <3> QED BY <3>5 DEF OneGeneration
  <2> QED BY <2>4, <2>5, <2>6
<1> QED BY <1>1, Invariance, PTL

\* At rest the application routes what the loader holds; unless operations overlapped or
\* failed, that is exactly the stored routes whose configuration is valid, as they are
\* stored, and a cached schema describes them (load_routes, reload_app, custom_openapi).
THEOREM AtRestCurrent == Spec => []QuietIsCurrent
<1>1. IInv => QuietIsCurrent
  <2> SUFFICES ASSUME IInv, process = "serving", Quiet
               PROVE  /\ front = <<router>> /\ behind = <<>>
                      /\ ~mixed =>
                           /\ \A q \in Route :
                                router[q] = IF stored[q].valid THEN stored[q] ELSE Inactive
                           /\ building = NoSchema => schema \in {NoSchema, <<front>>}
    BY DEF QuietIsCurrent
  <2>1. lock = {}
    BY DEF IInv, TypeOK, Shape, Quiet, Applying
  <2>2. front = <<router>> /\ behind = <<>>
    BY <2>1 DEF IInv, Shape, Quiet
  <2>3. ~mixed => Undisturbed
    BY DEF IInv, Fresh
  <2>4. ~mixed => router = Loaded(stored)
    BY <2>3 DEF Undisturbed
  <2>5. ~mixed => (building = NoSchema => schema \in {NoSchema, <<front>>})
    BY <2>3 DEF Undisturbed
  <2> QED BY <2>2, <2>4, <2>5 DEF Loaded
<1> QED BY <1>1, Invariance, PTL
====
