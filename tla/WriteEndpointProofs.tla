---- MODULE WriteEndpointProofs ----
(***************************************************************************)
(* What is proved of WriteEndpoint for every value of its constants.       *)
(***************************************************************************)
EXTENDS WriteEndpoint, WellFoundedInduction, TLAPS

USE DEF storeVars, execVars, attemptVars

-----------------------------------------------------------------------------
(* The inductive invariant *)

\* Whose row is still there: nothing took it back.
Holding(a) == at[a] \in {"executing", "ok", "unsaved", "lost"}

AllKept == accessKeys = AccessKey

\* The row of an attempt, as it inserted it or completed it.
OwnRow(a, r) == /\ r.id = record[a] /\ r.scope = ScopeOf[a]
                /\ r.expires = begun[a] + TTL
                /\ r.status = IF at[a] = "ok" THEN "completed" ELSE "running"

\* The table: ids are bounded, and neither ids nor scopes repeat.
Rows == /\ \E n \in Nat : \A r \in records : r.id <= n
        /\ \A r, s \in records : r.id = s.id \/ r.scope = s.scope => r = s

\* Time: what began began before, and what executes has not expired.
Times == \A a \in Attempt : /\ Holding(a) => begun[a] <= now
                            /\ InFlight(a) => now < begun[a] + TTL

\* As long as no Access Key was deleted, what holds a row and is not expired has it.
RowsKept == AllKept => \A a \in Attempt :
              Holding(a) /\ now < begun[a] + TTL => \E r \in records : OwnRow(a, r)

\* Two attempts under one Idempotency-Key both hold its row only far apart in time.
Apart == \A a, b \in Attempt :
           SameKey(a, b) /\ OthersKept(a) /\ Holding(a) /\ Holding(b) => ~Within(a, b)

\* What has, or may still have, an effect without being known to be uncertain holds its row.
EffectsHeld ==
  /\ \A a \in Attempt : at[a] \in {"idle", "conflict", "rejected"} =>
       a \notin running /\ a \notin effect /\ answer[a] = "none"
  /\ \A a \in Attempt : answer[a] = "ok" => a \in effect
  /\ \A a \in effect : answer[a] \in {"none", "ok", "unknown"}
  /\ \A a \in Attempt : at[a] \in {"ok", "unsaved"} => answer[a] = "ok"
  /\ \A a \in Attempt : at[a] \in {"stopped", "unknown"} => answer[a] = at[a]

IInv == TypeOK /\ Rows /\ Times /\ RowsKept /\ Apart /\ EffectsHeld

-----------------------------------------------------------------------------
(* Ids *)

\* A set of naturals that is not empty has a least element.
LEMMA Least ==
  ASSUME NEW T \in SUBSET Nat, T # {}
  PROVE  \E m \in T : \A n \in T : m <= n
<1>1. PICK m \in T : \A n \in T : ~ (<<n, m>> \in OpToRel(<, Nat))
  BY NatLessThanWellFounded, WFMin
<1>2. \A n \in T : ~ (n < m)
  BY <1>1 DEF OpToRel
<1> QED BY <1>2

\* Rows whose ids are bounded have a row with the largest one.
LEMMA NextIdIsNew ==
  ASSUME NEW rows \in SUBSET Record, NEW n \in Nat, \A r \in rows : r.id <= n
  PROVE  /\ NextId(rows) \in Nat \ {0}
         /\ \A r \in rows : r.id < NextId(rows)
<1>1. CASE rows = {}
  BY <1>1 DEF NextId
<1>2. CASE rows # {}
  <2> DEFINE bounds == {m \in Nat : \A r \in rows : r.id <= m}
             ids == {r.id : r \in rows}
  <2>1. PICK m \in bounds : \A b \in bounds : m <= b
    <3>1. n \in bounds /\ bounds \in SUBSET Nat
      OBVIOUS
    <3> HIDE DEF bounds
    <3> QED BY <3>1, Least
  <2>2. ids \subseteq Nat \ {0}
    BY DEF Record
  <2>3. m \in ids
    <3> SUFFICES ASSUME m \notin ids PROVE FALSE
      OBVIOUS
    <3>1. PICK r \in rows : TRUE
      BY <1>2
    <3>2. ASSUME NEW s \in rows PROVE s.id <= m - 1 /\ s.id \in Nat \ {0}
      <4>1. s.id <= m /\ s.id \in ids /\ m \in Nat
        BY <2>1
      <4>2. s.id # m /\ s.id \in Nat \ {0}
        BY <2>2, <4>1
      <4> QED BY <4>1, <4>2
    <3>3. m - 1 \in Nat
      BY <2>1, <3>1, <3>2
    <3>4. m - 1 \in bounds
      BY <3>2, <3>3
    <3> QED BY <2>1, <3>4
  <2>4. \A s \in rows : s.id <= m
    BY <2>1
  <2> DEFINE last == CHOOSE i \in ids : \A r \in rows : r.id <= i
  <2>5. last \in ids /\ \A r \in rows : r.id <= last
    BY <2>3, <2>4
  <2>6. NextId(rows) = 1 + last
    BY <1>2, Zenon DEF NextId
  <2>7. \A r \in rows : r.id \in Nat
    BY DEF Record
  <2> HIDE DEF last
  <2> QED BY <2>2, <2>5, <2>6, <2>7
<1> QED BY <1>1, <1>2

-----------------------------------------------------------------------------
(* What the parts of the invariant need *)

AtType == {"idle", "executing", "conflict", "rejected", "ok", "unsaved", "stopped", "unknown",
           "lost"}

\* Times and intervals are natural numbers.
LEMMA Numbers ==
  ASSUME TypeOK
  PROVE  /\ now \in Nat /\ TTL \in Nat \ {0}
         /\ \A a \in Attempt : begun[a] \in Nat /\ ScopeOf[a] \in Scope
         /\ \A s \in Scope : KeyOf[s] \in AccessKey
  BY IdempotencyAssumption, EndpointAssumption DEF TypeOK

\* Where nobody begins, and no Access Key comes back, times and distances stay.
LEMMA NobodyBegins ==
  ASSUME IInv, UNCHANGED <<begun, now>>, accessKeys' \subseteq accessKeys,
         \A a \in Attempt : Holding(a)' => Holding(a),
         \A a \in Attempt : InFlight(a)' => InFlight(a)
  PROVE  Times' /\ Apart'
<1>1. Times'
  BY DEF IInv, Times
<1>2. Apart'
  BY DEF IInv, Apart, SameKey, OthersKept, Within
<1> QED BY <1>1, <1>2

\* Rows that go, or stay, repeat nothing.
LEMMA FewerRows == ASSUME Rows, records' \subseteq records PROVE Rows'
  BY DEF Rows

\* While no Access Key was deleted, the row with the id of an executing attempt is its own.
LEMMA RowIsOwn ==
  ASSUME IInv, AllKept, NEW a \in Attempt, NEW b \in Attempt, NEW r \in records,
         Holding(a), now < begun[a] + TTL, OwnRow(a, r), InFlight(b), r.id = record[b]
  PROVE  a = b
<1>1. Holding(b) /\ now < begun[b] + TTL /\ begun[a] <= now /\ begun[b] <= now
  BY DEF IInv, Times, Holding, InFlight
<1>2. PICK s \in records : OwnRow(b, s)
  BY <1>1 DEF IInv, RowsKept
<1>3. r = s /\ ScopeOf[a] = ScopeOf[b]
  BY <1>2 DEF IInv, Rows, OwnRow
<1>4. Within(a, b)
  BY <1>1, Numbers DEF IInv, Within
<1>5. OthersKept(a)
  BY DEF AllKept, OthersKept
<1> QED BY <1>1, <1>3, <1>4, <1>5 DEF IInv, Apart, SameKey

\* The invariant holds when the process first starts.
LEMMA InitIInv == Init => IInv
<1> SUFFICES ASSUME Init PROVE IInv
  OBVIOUS
<1>1. \A a \in Attempt : at[a] = "idle" /\ answer[a] = "none"
  BY DEF Init, Execution!Init
<1>2. TypeOK
  BY EndpointAssumption DEF Init, InitStore, Execution!Init, TypeOK
<1>3. records = {} /\ running = {} /\ effect = {} /\ now = 0
  BY DEF Init, InitStore, Execution!Init
<1>4. Rows
  BY <1>3 DEF Rows
<1>5. Times /\ RowsKept /\ Apart
  BY <1>1 DEF Times, RowsKept, Apart, Holding, InFlight
<1>6. EffectsHeld
  BY <1>1, <1>3 DEF EffectsHeld
<1> QED BY <1>2, <1>4, <1>5, <1>6 DEF IInv

-----------------------------------------------------------------------------
(* The steps of an attempt *)

\* Begin preserves the invariant: who takes the key finds no row of an earlier attempt that
\* has not expired.
LEMMA BeginIInv == ASSUME IInv, NEW a \in Attempt, Begin(a) PROVE IInv'
<1> DEFINE row == [id |-> NextId(Unexpired), scope |-> ScopeOf[a], status |-> "running",
                   expires |-> now + TTL]
<1>1. /\ at[a] = "idle" /\ ~Taken(ScopeOf[a]) /\ KeyOf[ScopeOf[a]] \in accessKeys
      /\ records' = Unexpired \cup {row}
      /\ running' = running \cup {a}
      /\ UNCHANGED <<accessKeys, now, answer, effect, faults, crashes>>
  BY DEF Begin, BeginAdmits, MetaWorks
<1>2. /\ at' \in [Attempt -> AtType] /\ at'[a] = "executing"
      /\ \A b \in Attempt \ {a} : at'[b] = at[b]
  BY DEF IInv, TypeOK, Begin, AtType
<1>3. /\ begun' \in [Attempt -> Nat] /\ begun'[a] = now
      /\ \A b \in Attempt \ {a} : begun'[b] = begun[b]
  BY Numbers DEF IInv, TypeOK, Begin
<1>4. PICK n \in Nat : \A r \in records : r.id <= n
  BY DEF IInv, Rows
<1>5. NextId(Unexpired) \in Nat \ {0} /\ \A r \in Unexpired : r.id < NextId(Unexpired)
  <2>1. Unexpired \in SUBSET Record /\ \A r \in Unexpired : r.id <= n
    BY <1>4 DEF IInv, TypeOK, Unexpired
  <2> HIDE DEF row
  <2> QED BY <2>1, NextIdIsNew
<1>6. /\ record' \in [Attempt -> Nat] /\ record'[a] = NextId(Unexpired)
      /\ \A b \in Attempt \ {a} : record'[b] = record[b]
  BY <1>5 DEF IInv, TypeOK, Begin
<1>7. /\ row \in Record /\ row.id = NextId(Unexpired) /\ row.scope = ScopeOf[a]
      /\ row.status = "running" /\ row.expires = now + TTL
  BY <1>5, Numbers DEF IInv, Record
<1> HIDE DEF row
<1>8. Unexpired \subseteq records /\ \A r \in Unexpired : r.scope # ScopeOf[a]
  BY <1>1 DEF Unexpired, Taken
<1>9. TypeOK'
  BY <1>1, <1>2, <1>3, <1>6, <1>7, <1>8 DEF IInv, TypeOK, AtType
<1>10. Rows'
  <2>1. \A r \in records' : r.id <= NextId(Unexpired)
    <3>1. \A r \in Unexpired : r.id \in Nat
      BY <1>8 DEF IInv, TypeOK, Record
    <3> QED BY <1>1, <1>5, <1>7, <3>1
  <2>2. ASSUME NEW r \in Unexpired PROVE r.id # row.id /\ r.scope # row.scope
    <3>1. r.id \in Nat
      BY <1>8 DEF IInv, TypeOK, Record
    <3> QED BY <1>5, <1>7, <1>8, <3>1
  <2>3. \A r, s \in records' : r.id = s.id \/ r.scope = s.scope => r = s
    BY <1>1, <1>8, <2>2 DEF IInv, Rows
  <2> QED BY <1>5, <2>1, <2>3 DEF Rows
<1>11. Times'
  <2>1. now \in Nat /\ now < now + TTL
    BY Numbers DEF IInv
  <2> QED BY <1>1, <1>2, <1>3, <2>1 DEF IInv, Times, Holding, InFlight
<1>12. RowsKept'
  <2> SUFFICES ASSUME AllKept', NEW b \in Attempt, Holding(b)', now' < begun'[b] + TTL
               PROVE  \E r \in records' : OwnRow(b, r)'
    BY DEF RowsKept
  <2>1. CASE b = a
    BY <1>1, <1>2, <1>3, <1>6, <1>7, <2>1 DEF OwnRow
  <2>2. CASE b # a
    <3>1. PICK r \in records : OwnRow(b, r)
      BY <1>1, <1>2, <1>3, <2>2 DEF IInv, RowsKept, AllKept, Holding
    <3>2. r \in Unexpired
      <4>1. r.expires = begun[b] + TTL /\ now < begun[b] + TTL
        BY <1>1, <1>3, <2>2, <3>1 DEF OwnRow
      <4>2. r.expires > now
        BY <4>1, Numbers DEF IInv
      <4> QED BY <4>2 DEF Unexpired
    <3> QED BY <1>1, <1>2, <1>3, <1>6, <2>2, <3>1, <3>2 DEF OwnRow
  <2> QED BY <2>1, <2>2
<1>13. Apart'
  <2>1. ASSUME NEW b \in Attempt, SameKey(a, b), OthersKept(a), Holding(b)
        PROVE  ~ (now < begun[b] + TTL)
    <3>1. AllKept
      BY <1>1, <2>1 DEF IInv, TypeOK, AllKept, OthersKept
    <3> SUFFICES ASSUME now < begun[b] + TTL PROVE FALSE
      OBVIOUS
    <3>2. PICK r \in records : OwnRow(b, r)
      BY <2>1, <3>1 DEF IInv, RowsKept
    <3>3. r \in Unexpired
      <4>1. r.expires > now
        BY <3>2, Numbers DEF IInv, OwnRow
      <4> QED BY <4>1 DEF Unexpired
    <3> QED BY <1>8, <2>1, <3>2, <3>3 DEF OwnRow, SameKey
  <2> SUFFICES ASSUME NEW b \in Attempt, NEW c \in Attempt, SameKey(b, c), OthersKept(b)',
                      Holding(b)', Holding(c)'
               PROVE  ~Within(b, c)'
    BY DEF Apart, SameKey
  <2>2. OthersKept(b) /\ OthersKept(c) /\ SameKey(c, b)
    BY <1>1 DEF OthersKept, SameKey
  <2>3. CASE b = a
    BY <1>2, <1>3, <2>1, <2>2, <2>3 DEF SameKey, Within, Holding
  <2>4. CASE c = a
    BY <1>2, <1>3, <2>1, <2>2, <2>4 DEF SameKey, Within, Holding
  <2>5. CASE b # a /\ c # a
    BY <1>2, <1>3, <2>2, <2>5 DEF IInv, Apart, Within, Holding
  <2> QED BY <2>3, <2>4, <2>5
<1>14. EffectsHeld'
  BY <1>1, <1>2 DEF IInv, EffectsHeld
<1> QED BY <1>9, <1>10, <1>11, <1>12, <1>13, <1>14 DEF IInv

\* Ends moves one attempt and no other.
LEMMA EndsFrame ==
  ASSUME TypeOK, NEW a \in Attempt, NEW how \in AtType, Ends(a, how)
  PROVE  /\ at' \in [Attempt -> AtType] /\ at'[a] = how
         /\ \A b \in Attempt \ {a} : at'[b] = at[b]
         /\ UNCHANGED <<record, begun>>
<1>1. at' = [at EXCEPT ![a] = how] /\ UNCHANGED <<record, begun>> /\ at \in [Attempt -> AtType]
  BY DEF TypeOK, Ends, AtType
<1> QED BY <1>1

\* Rows are kept where those of who still holds one are.
LEMMA RowsStay ==
  ASSUME IInv, UNCHANGED <<record, begun, now>>, AllKept' => AllKept,
         \A a \in Attempt : Holding(a)' => Holding(a) /\ (at'[a] = "ok" <=> at[a] = "ok"),
         AllKept' => \A a \in Attempt, r \in records :
           Holding(a)' /\ now < begun[a] + TTL /\ OwnRow(a, r) => r \in records'
  PROVE  RowsKept'
  BY DEF IInv, RowsKept, OwnRow

\* Refuse preserves the invariant.
LEMMA RefuseIInv == ASSUME IInv, NEW a \in Attempt, Refuse(a) PROVE IInv'
<1>1. /\ at[a] = "idle" /\ records' \in {records, Unexpired}
      /\ UNCHANGED <<accessKeys, now, running, answer, effect, crashes>>
  BY DEF Refuse, BeginRefuses, BeginFails, MetaFails
<1>2. PICK how \in {"conflict", "rejected"} : Ends(a, how)
  BY DEF Refuse
<1>3. /\ at' \in [Attempt -> AtType] /\ at'[a] = how
      /\ \A b \in Attempt \ {a} : at'[b] = at[b]
      /\ UNCHANGED <<record, begun>>
  BY <1>2, EndsFrame DEF IInv, AtType
<1>4. faults' \in 0..MaxMetaFaults
  BY EndpointAssumption DEF IInv, TypeOK, Refuse, MetaFails, MetaWorks
<1>5. records' \subseteq records
  BY <1>1 DEF Unexpired
<1>6. TypeOK'
  BY <1>1, <1>3, <1>4, <1>5 DEF IInv, TypeOK, AtType
<1>7. \A b \in Attempt : /\ Holding(b)' => Holding(b) /\ (at'[b] = "ok" <=> at[b] = "ok")
                         /\ InFlight(b)' => InFlight(b)
  BY <1>3 DEF Holding, InFlight
<1>8. Rows' /\ Times' /\ Apart'
  BY <1>1, <1>3, <1>5, <1>7, FewerRows, NobodyBegins DEF IInv
<1>9. RowsKept'
  <2>1. ASSUME NEW b \in Attempt, NEW r \in records, now < begun[b] + TTL, OwnRow(b, r)
        PROVE  r \in records'
    <3>1. r.expires > now
      BY <2>1, Numbers DEF IInv, OwnRow
    <3> QED BY <1>1, <3>1 DEF Unexpired
  <2>2. AllKept' => AllKept
    BY <1>1 DEF AllKept
  <2> QED BY <1>1, <1>3, <1>7, <2>1, <2>2, RowsStay
<1>10. EffectsHeld'
  BY <1>1, <1>3 DEF IInv, EffectsHeld
<1> QED BY <1>6, <1>8, <1>9, <1>10 DEF IInv

\* A step of the execution leaves table and attempts alone.
LEMMA ExecutionSteps ==
  ASSUME IInv, UNCHANGED <<storeVars, attemptVars, faults, crashes>>,
         answer' \in [Attempt -> {"none", "ok", "stopped", "unknown"}], effect' \subseteq Attempt,
         EffectsHeld'
  PROVE  IInv'
<1>1. TypeOK'
  BY DEF IInv, TypeOK
<1>2. Rows' /\ RowsKept'
  BY DEF IInv, Rows, RowsKept, AllKept, Holding, OwnRow
<1>3. Times' /\ Apart'
  BY NobodyBegins DEF Holding, InFlight
<1> QED BY <1>1, <1>2, <1>3 DEF IInv

\* Effect preserves the invariant.
LEMMA EffectIInv == ASSUME IInv, NEW a \in Attempt, Effect(a) PROVE IInv'
<1>1. /\ a \in running /\ answer[a] \in {"none", "unknown"} /\ effect' = effect \cup {a}
      /\ UNCHANGED <<storeVars, attemptVars, answer, faults, crashes>>
  BY DEF Effect, Execution!Commit
<1>2. EffectsHeld'
  BY <1>1 DEF IInv, EffectsHeld
<1>3. answer' \in [Attempt -> {"none", "ok", "stopped", "unknown"}] /\ effect' \subseteq Attempt
  BY <1>1 DEF IInv, TypeOK
<1> QED BY <1>1, <1>2, <1>3, ExecutionSteps

\* Answer preserves the invariant.
LEMMA AnswerIInv == ASSUME IInv, NEW a \in Attempt, Answer(a) PROVE IInv'
<1>1. /\ at[a] = "executing" /\ answer[a] = "none"
      /\ UNCHANGED <<storeVars, attemptVars, effect, faults, crashes>>
  BY DEF Answer, InFlight, Execution!Succeed, Execution!Stop, Execution!LoseTrack,
         Execution!Answer
<1>2. PICK said \in {"ok", "stopped", "unknown"} :
        /\ answer' = [answer EXCEPT ![a] = said]
        /\ said = "ok" => a \in effect
        /\ said = "stopped" => a \notin effect
  BY DEF Answer, Execution!Succeed, Execution!Stop, Execution!LoseTrack, Execution!Answer
<1>3. /\ answer' \in [Attempt -> {"none", "ok", "stopped", "unknown"}] /\ answer'[a] = said
      /\ \A b \in Attempt \ {a} : answer'[b] = answer[b]
  BY <1>2 DEF IInv, TypeOK
<1>4. effect' \subseteq Attempt
  BY <1>1 DEF IInv, TypeOK
<1>5. EffectsHeld'
  BY <1>1, <1>2, <1>3, <1>4 DEF IInv, EffectsHeld
<1> QED BY <1>1, <1>3, <1>4, <1>5, ExecutionSteps

\* A row that is completed keeps its id, scope and expiry; the others stay as they are.
LEMMA CompleteFrame ==
  ASSUME TypeOK, Rows, NEW i \in Nat, Complete(i)
  PROVE  /\ records' \subseteq Record
         /\ Rows'
         /\ \A r \in records : r.id # i => r \in records'
         /\ \A r \in records : r.id = i /\ r.status = "running" =>
              \E s \in records' : /\ s.id = i /\ s.scope = r.scope /\ s.expires = r.expires
                                  /\ s.status = "completed"
<1> DEFINE Done(r) == IF r.id = i /\ r.status = "running"
                      THEN [r EXCEPT !.status = "completed"] ELSE r
<1>1. records' = {Done(r) : r \in records}
  BY DEF Complete
<1>2. ASSUME NEW r \in records
      PROVE  /\ Done(r) \in Record
             /\ Done(r).id = r.id /\ Done(r).scope = r.scope /\ Done(r).expires = r.expires
             /\ r.id # i => Done(r) = r
             /\ r.id = i /\ r.status = "running" => Done(r).status = "completed"
  BY DEF TypeOK, Record
<1> HIDE DEF Done
<1>3. records' \subseteq Record
  BY <1>1, <1>2
<1>4. Rows'
  <2>1. PICK n \in Nat : \A r \in records : r.id <= n
    BY DEF Rows
  <2>2. \A r \in records' : r.id <= n
    BY <1>1, <1>2, <2>1
  <2>3. \A r, s \in records' : r.id = s.id \/ r.scope = s.scope => r = s
    BY <1>1, <1>2 DEF Rows
  <2> QED BY <2>2, <2>3 DEF Rows
<1>5. \A r \in records : r.id # i => r \in records'
  BY <1>1, <1>2
<1>6. ASSUME NEW r \in records, r.id = i, r.status = "running"
      PROVE  \E s \in records' : /\ s.id = i /\ s.scope = r.scope /\ s.expires = r.expires
                                 /\ s.status = "completed"
  <2>1. Done(r) \in records'
    BY <1>1
  <2> QED BY <1>2, <1>6, <2>1
<1> QED BY <1>3, <1>4, <1>5, <1>6

\* Succeed preserves the invariant: it completes its own row, or leaves it.
LEMMA SucceedIInv == ASSUME IInv, NEW a \in Attempt, Succeed(a) PROVE IInv'
<1>1. /\ at[a] = "executing" /\ answer[a] = "ok"
      /\ UNCHANGED <<accessKeys, now, running, answer, effect, crashes>>
  BY DEF Succeed, InFlight, Complete, KeepRow, MetaFails
<1>2. PICK how \in {"ok", "unsaved"} :
        Ends(a, how) /\ IF how = "ok" THEN Complete(record[a]) ELSE UNCHANGED records
  BY DEF Succeed, KeepRow, MetaFails
<1>3. /\ at' \in [Attempt -> AtType] /\ at'[a] = how
      /\ \A b \in Attempt \ {a} : at'[b] = at[b]
      /\ UNCHANGED <<record, begun>>
  BY <1>2, EndsFrame DEF IInv, AtType
<1>4. faults' \in 0..MaxMetaFaults
  BY EndpointAssumption DEF IInv, TypeOK, Succeed, MetaFails, MetaWorks
<1>5. \A b \in Attempt : (Holding(b)' => Holding(b)) /\ (InFlight(b)' => InFlight(b))
  BY <1>1, <1>3 DEF Holding, InFlight
<1>6. Times' /\ Apart'
  BY <1>1, <1>3, <1>5, NobodyBegins
<1>7. EffectsHeld'
  BY <1>1, <1>2, <1>3 DEF IInv, EffectsHeld
<1>8. CASE how = "unsaved"
  <2>1. UNCHANGED records
    BY <1>2, <1>8
  <2>2. TypeOK'
    BY <1>1, <1>3, <1>4, <2>1 DEF IInv, TypeOK, AtType
  <2>3. Rows'
    BY <2>1, FewerRows DEF IInv
  <2>4. RowsKept'
    BY <1>1, <1>3, <1>8, <2>1 DEF IInv, RowsKept, AllKept, OwnRow, Holding
  <2> QED BY <1>6, <1>7, <2>2, <2>3, <2>4 DEF IInv
<1>9. CASE how = "ok"
  <2>1. Complete(record[a]) /\ record[a] \in Nat /\ TypeOK /\ Rows
    BY <1>2, <1>9 DEF IInv, TypeOK
  <2>2. /\ records' \subseteq Record
        /\ Rows'
        /\ \A r \in records : r.id # record[a] => r \in records'
        /\ \A r \in records : r.id = record[a] /\ r.status = "running" =>
             \E s \in records' : /\ s.id = record[a] /\ s.scope = r.scope
                                 /\ s.expires = r.expires /\ s.status = "completed"
    BY <2>1, CompleteFrame
  <2>3. TypeOK'
    BY <1>1, <1>3, <1>4, <2>2 DEF IInv, TypeOK, AtType
  <2>4. RowsKept'
    <3> SUFFICES ASSUME AllKept', NEW b \in Attempt, Holding(b)', now' < begun'[b] + TTL
                 PROVE  \E r \in records' : OwnRow(b, r)'
      BY DEF RowsKept
    <3>1. AllKept /\ Holding(b) /\ now < begun[b] + TTL
      BY <1>1, <1>3, <1>5 DEF AllKept
    <3>2. PICK r \in records : OwnRow(b, r)
      BY <3>1 DEF IInv, RowsKept
    <3>3. CASE b = a
      <4>1. r.id = record[a] /\ r.status = "running"
        BY <1>1, <3>2, <3>3 DEF OwnRow
      <4>2. PICK s \in records' : /\ s.id = record[a] /\ s.scope = r.scope
                                  /\ s.expires = r.expires /\ s.status = "completed"
        BY <2>2, <4>1
      <4>3. OwnRow(b, s)'
        BY <1>3, <1>9, <3>2, <3>3, <4>2 DEF OwnRow
      <4> QED BY <4>3
    <3>4. CASE b # a
      <4>1. r.id # record[a]
        BY <1>1, <3>1, <3>2, <3>4, RowIsOwn DEF InFlight
      <4>2. OwnRow(b, r)'
        BY <1>3, <3>2, <3>4 DEF OwnRow
      <4> QED BY <2>2, <4>1, <4>2
    <3> QED BY <3>3, <3>4
  <2> QED BY <1>6, <1>7, <2>2, <2>3, <2>4 DEF IInv
<1> QED BY <1>8, <1>9

\* Fail preserves the invariant: it removes its own row and no other, or leaves it.
LEMMA FailIInv == ASSUME IInv, NEW a \in Attempt, Fail(a) PROVE IInv'
<1>1. /\ at[a] = "executing" /\ answer[a] \in {"stopped", "unknown"}
      /\ UNCHANGED <<accessKeys, now, running, answer, effect, crashes>>
  BY DEF Fail, InFlight, Abandon, MetaFails
<1>2. PICK how \in {"stopped", "unknown", "lost"} :
        /\ Ends(a, how)
        /\ how # "lost" => how = answer[a]
        /\ \/ Abandon(record[a]) /\ how # "lost"
           \/ UNCHANGED records
  BY <1>1 DEF Fail, MetaFails
<1>3. /\ at' \in [Attempt -> AtType] /\ at'[a] = how
      /\ \A b \in Attempt \ {a} : at'[b] = at[b]
      /\ UNCHANGED <<record, begun>>
  BY <1>2, EndsFrame DEF IInv, AtType
<1>4. faults' \in 0..MaxMetaFaults
  BY EndpointAssumption DEF IInv, TypeOK, Fail, MetaFails, MetaWorks
<1>5. records' \subseteq records /\ \A r \in records : r.id # record[a] => r \in records'
  BY <1>2 DEF Abandon
<1>6. TypeOK'
  BY <1>1, <1>3, <1>4, <1>5 DEF IInv, TypeOK, AtType
<1>7. \A b \in Attempt : /\ Holding(b)' => Holding(b) /\ (at'[b] = "ok" <=> at[b] = "ok")
                         /\ InFlight(b)' => InFlight(b)
  BY <1>1, <1>3 DEF Holding, InFlight
<1>8. Rows' /\ Times' /\ Apart'
  BY <1>1, <1>3, <1>5, <1>7, FewerRows, NobodyBegins DEF IInv
<1>9. RowsKept'
  <2>1. AllKept' => AllKept
    BY <1>1 DEF AllKept
  <2>2. ASSUME AllKept', NEW b \in Attempt, NEW r \in records,
               Holding(b)', now < begun[b] + TTL, OwnRow(b, r)
        PROVE  r \in records'
    <3>1. CASE b = a
      BY <1>2, <1>3, <2>2, <3>1 DEF Holding
    <3>2. CASE b # a
      BY <1>1, <1>5, <1>7, <2>1, <2>2, <3>2, RowIsOwn DEF InFlight
    <3> QED BY <3>1, <3>2
  <2> QED BY <1>1, <1>3, <1>7, <2>1, <2>2, RowsStay
<1>10. EffectsHeld'
  BY <1>1, <1>2, <1>3 DEF IInv, EffectsHeld
<1> QED BY <1>6, <1>8, <1>9, <1>10 DEF IInv

-----------------------------------------------------------------------------
(* The environment *)

\* Crash preserves the invariant: the rows stay.
LEMMA CrashIInv == ASSUME IInv, Crash PROVE IInv'
<1>1. UNCHANGED <<storeVars, record, begun, execVars, faults>> /\ running' = {}
  BY DEF Crash
<1>2. /\ at' \in [Attempt -> AtType]
      /\ \A a \in Attempt : at'[a] = IF at[a] = "executing" THEN "lost" ELSE at[a]
  BY DEF IInv, TypeOK, Crash, InFlight, AtType
<1>3. crashes' \in 0..MaxCrashes
  BY EndpointAssumption DEF IInv, TypeOK, Crash
<1>4. TypeOK'
  BY <1>1, <1>2, <1>3 DEF IInv, TypeOK, AtType
<1>5. \A a \in Attempt : /\ Holding(a)' => Holding(a) /\ (at'[a] = "ok" <=> at[a] = "ok")
                         /\ InFlight(a)' => InFlight(a)
  BY <1>2 DEF Holding, InFlight
<1>6. Rows' /\ Times' /\ Apart'
  BY <1>1, <1>5, FewerRows, NobodyBegins DEF IInv
<1>7. RowsKept'
  BY <1>1, <1>5, RowsStay DEF AllKept
<1>8. EffectsHeld'
  BY <1>1, <1>2 DEF IInv, EffectsHeld
<1> QED BY <1>4, <1>6, <1>7, <1>8 DEF IInv

\* Delete preserves the invariant: an Access Key is missing afterwards.
LEMMA DeleteIInv == ASSUME IInv, Delete PROVE IInv'
<1>1. PICK k \in Deletable : DeleteKey(k)
  BY DEF Delete
<1>2. /\ k \in accessKeys /\ accessKeys' = accessKeys \ {k} /\ records' \subseteq records
      /\ UNCHANGED <<now, attemptVars, execVars, faults, crashes>>
  BY <1>1 DEF DeleteKey, Delete
<1>3. TypeOK'
  BY <1>2 DEF IInv, TypeOK
<1>4. Rows' /\ Times' /\ Apart'
  BY <1>2, FewerRows, NobodyBegins DEF IInv, Holding, InFlight
<1>5. RowsKept'
  BY <1>2 DEF IInv, TypeOK, RowsKept, AllKept
<1>6. EffectsHeld'
  BY <1>2 DEF IInv, EffectsHeld
<1> QED BY <1>3, <1>4, <1>5, <1>6 DEF IInv

\* Tick preserves the invariant.
LEMMA TickIInv == ASSUME IInv, Tick PROVE IInv'
<1>1. /\ now < MaxTime /\ now' = now + 1
      /\ \A a \in Attempt : InFlight(a) => now + 1 < begun[a] + TTL
      /\ UNCHANGED <<records, accessKeys, attemptVars, execVars, faults, crashes>>
  BY DEF Tick
<1>2. TypeOK'
  <2>1. now' \in 0..MaxTime
    BY <1>1, EndpointAssumption DEF IInv, TypeOK
  <2> QED BY <1>1, <2>1 DEF IInv, TypeOK
<1>3. Rows' /\ EffectsHeld' /\ Apart'
  BY <1>1 DEF IInv, Rows, EffectsHeld, Apart, SameKey, OthersKept, Holding, Within
<1>4. Times'
  BY <1>1, Numbers DEF IInv, Times, Holding, InFlight
<1>5. RowsKept'
  <2>1. \A a \in Attempt : now' < begun'[a] + TTL => now < begun[a] + TTL
    BY <1>1, Numbers DEF IInv
  <2> QED BY <1>1, <2>1 DEF IInv, RowsKept, AllKept, Holding, OwnRow
<1> QED BY <1>2, <1>3, <1>4, <1>5 DEF IInv

-----------------------------------------------------------------------------
(* The theorems *)

\* Every step preserves the invariant.
LEMMA StepIInv == IInv /\ [Next]_vars => IInv'
<1> SUFFICES ASSUME IInv, [Next]_vars PROVE IInv'
  OBVIOUS
<1>1. ASSUME NEW a \in Attempt,
             Begin(a) \/ Refuse(a) \/ Effect(a) \/ Answer(a) \/ Succeed(a) \/ Fail(a)
      PROVE  IInv'
  BY <1>1, BeginIInv, RefuseIInv, EffectIInv, AnswerIInv, SucceedIInv, FailIInv
<1>2. CASE Crash \/ Delete \/ Tick
  BY <1>2, CrashIInv, DeleteIInv, TickIInv
<1>3. CASE UNCHANGED vars
  <2>1. UNCHANGED <<storeVars, attemptVars, answer, effect, faults, crashes>>
    BY <1>3 DEF vars
  <2>2. /\ answer' \in [Attempt -> {"none", "ok", "stopped", "unknown"}]
        /\ effect' \subseteq Attempt
    BY <2>1 DEF IInv, TypeOK
  <2>3. EffectsHeld'
    BY <2>1 DEF IInv, EffectsHeld
  <2> QED BY <2>1, <2>2, <2>3, ExecutionSteps
<1> QED BY <1>1, <1>2, <1>3 DEF Next

\* The invariant holds always.
LEMMA Invariance == Spec => []IInv
  BY InitIInv, StepIInv, PTL DEF Spec

\* Type correctness of the records and of the endpoint (idempotency.py, dynamic_loader.py).
THEOREM Types == Spec => []TypeOK
<1>1. IInv => TypeOK
  BY DEF IInv
<1> QED BY <1>1, Invariance, PTL

\* However many requests come under an Idempotency-Key, one at most executes at a time, and
\* the row it will complete or remove is its own, unless Access Keys are deleted
\* (dynamic_loader.py, the endpoint; idempotency.py, begin).
THEOREM Exclusive == Spec => []OneAtATime
<1>1. IInv => OneAtATime
  <2> SUFFICES ASSUME IInv, NEW a \in Attempt, InFlight(a), OthersKept(a)
               PROVE  /\ KeyExists(a) => \E r \in records : r.id = record[a]
                           /\ r.scope = ScopeOf[a] /\ r.status = "running"
                      /\ \A b \in Attempt : SameKey(a, b) => ~InFlight(b)
    BY DEF OneAtATime
  <2>1. Holding(a) /\ now < begun[a] + TTL
    BY DEF IInv, Times, Holding, InFlight
  <2>2. ASSUME KeyExists(a)
        PROVE  \E r \in records : r.id = record[a] /\ r.scope = ScopeOf[a]
                                  /\ r.status = "running"
    <3>1. AllKept
      BY <2>2 DEF IInv, TypeOK, AllKept, OthersKept, KeyExists
    <3>2. PICK r \in records : OwnRow(a, r)
      BY <2>1, <3>1 DEF IInv, RowsKept
    <3> QED BY <3>2 DEF OwnRow, InFlight
  <2>3. ASSUME NEW b \in Attempt, SameKey(a, b), InFlight(b) PROVE FALSE
    <3>1. Holding(b) /\ begun[a] <= now /\ begun[b] <= now /\ now < begun[b] + TTL
      BY <2>1, <2>3 DEF IInv, Times, Holding, InFlight
    <3>2. Within(a, b)
      BY <2>1, <3>1, Numbers DEF IInv, Within
    <3> QED BY <2>1, <2>3, <3>1, <3>2 DEF IInv, Apart
  <2> QED BY <2>2, <2>3
<1> QED BY <1>1, Invariance, PTL

\* Two effects under one Idempotency-Key within its lifetime need an execution whose outcome
\* was unknown, whatever crashes and metastore failures there are.
THEOREM Twice == Spec => []TwiceOnlyIfUnknown
<1>1. IInv => TwiceOnlyIfUnknown
  <2> SUFFICES ASSUME IInv, NEW a \in effect, NEW b \in effect, SameKey(a, b), Within(a, b),
                      OthersKept(a), answer[a] # "unknown", answer[b] # "unknown"
               PROVE  FALSE
    BY DEF TwiceOnlyIfUnknown
  <2>1. \A c \in effect : answer[c] # "unknown" => Holding(c)
    BY DEF IInv, TypeOK, EffectsHeld, Holding
  <2>2. a \in Attempt /\ b \in Attempt /\ Holding(a) /\ Holding(b)
    BY <2>1 DEF IInv, TypeOK
  <2> QED BY <2>2 DEF IInv, Apart
<1> QED BY <1>1, Invariance, PTL

\* What was answered 200 took effect, and keeps its Idempotency-Key for the TTL
\* (idempotency.py, complete).
THEOREM Remembered == Spec => []SuccessIsRemembered
<1>1. IInv => SuccessIsRemembered
  <2> SUFFICES ASSUME IInv, NEW a \in Attempt, at[a] = "ok"
               PROVE  /\ a \in effect
                      /\ now < begun[a] + TTL /\ KeyExists(a) /\ OthersKept(a) =>
                           \E r \in records : r.scope = ScopeOf[a] /\ r.status = "completed"
    BY DEF SuccessIsRemembered
  <2>1. a \in effect
    BY DEF IInv, EffectsHeld
  <2>2. ASSUME now < begun[a] + TTL, KeyExists(a), OthersKept(a)
        PROVE  \E r \in records : r.scope = ScopeOf[a] /\ r.status = "completed"
    <3>1. AllKept /\ Holding(a)
      BY <2>2 DEF IInv, TypeOK, AllKept, OthersKept, KeyExists, Holding
    <3>2. PICK r \in records : OwnRow(a, r)
      BY <2>2, <3>1 DEF IInv, RowsKept
    <3> QED BY <3>2 DEF OwnRow
  <2> QED BY <2>1, <2>2
<1> QED BY <1>1, Invariance, PTL
====
