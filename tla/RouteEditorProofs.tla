---- MODULE RouteEditorProofs ----
(***************************************************************************)
(* What is proved of QueryStore and RouteEditor for every set of texts,    *)
(* names and sessions: the keys of the tables, what a save stores, and     *)
(* what editors and detection may lose.                                    *)
(***************************************************************************)
EXTENDS RouteEditor, FiniteSetTheorems, SequenceTheorems, WellFoundedInduction, TLAPS

USE DEF storeVars, counters

-----------------------------------------------------------------------------
(* The inductive invariant *)

Row == [id : Nat \ {0}, query : Nat \ {0}, name : Name, source : Source, position : Nat]

EditorState == [open : {TRUE}, query : Nat, text : Text, drafts : Seq(Draft),
                suppressed : SUBSET Name, detected : SUBSET Name, generation : Nat,
                timers : SUBSET Nat]

\* The keys, row by row: no two rows share an id, nor a route and a name, and no two
\* routes an address.
StoreInv ==
  /\ lastQuery \in Nat /\ lastRow \in Nat /\ DOMAIN reorder.order \subseteq Nat
  /\ queries \in [DOMAIN queries -> Text] /\ DOMAIN queries \subseteq 1..lastQuery
  /\ \A q \in DOMAIN queries : queries[q] \in Accepted
  /\ \A p, q \in DOMAIN queries : Address[queries[p]] = Address[queries[q]] => p = q
  /\ \A r \in rows : r \in Row /\ r.id <= lastRow /\ r.query \in DOMAIN queries
  /\ \A r, s \in rows : r.id = s.id \/ (r.query = s.query /\ r.name = s.name) => r = s

\* The drafts have ids that were given, so that no later row gets one of them, and no
\* row of another route has one.
Owned(ps, q, last, table) ==
  \A i \in DOMAIN ps : /\ ps[i].id <= last
                       /\ \A r \in table : r.id = ps[i].id => r.query = q

\* What holds of an editor over tables with these last ids and these rows. The last
\* detection that was scheduled is still to come, or it has been made.
Sound(ed, top, last, table) ==
  \/ ed = Closed
  \/ /\ ed \in EditorState /\ ed.query <= top /\ ed.timers \subseteq 1..ed.generation
     /\ \/ ed.generation \in ed.timers
        \/ ed.timers = {} /\ ed.detected = Detected(ed.text)
     /\ Owned(ed.drafts, ed.query, last, table)

Sessions == /\ editor \in [Session -> {Closed} \cup EditorState]
            /\ \A s \in Session : Sound(editor[s], lastQuery, lastRow, rows)
            /\ said \in [Session -> {"nothing", "saved", "refused", "conflict", "failed"}]
            /\ saving \subseteq Opens

\* Only the API reorders parameters.
Orders == /\ requests \in Nat
          /\ requests = 0 => reorder = NoReorder

IInv == StoreInv /\ Sessions /\ Orders /\ EditorsKeepConfigurations

-----------------------------------------------------------------------------
(* Induction over naturals, as a set *)

\* A set of naturals has a least element.
LEMMA Least ==
  ASSUME NEW T \in SUBSET Nat, T # {}
  PROVE  \E m \in T : \A n \in T : m <= n
<1>1. PICK m \in T : \A n \in T : ~ (<<n, m>> \in OpToRel(<, Nat))
  BY NatLessThanWellFounded, WFMin
<1>2. \A n \in T : ~ (n < m)
  BY <1>1 DEF OpToRel
<1> QED BY <1>2

\* What holds of 0 and passes from each i to i + 1 holds up to n.
LEMMA Steps ==
  ASSUME NEW n \in Nat, NEW T, 0 \in T, \A i \in 0..n - 1 : i \in T => i + 1 \in T
  PROVE  0..n \subseteq T
<1> DEFINE bad == {i \in 0..n : i \notin T}
<1> SUFFICES ASSUME bad # {} PROVE FALSE
  OBVIOUS
<1>1. bad \in SUBSET Nat
  OBVIOUS
<1>2. PICK m \in bad : \A i \in bad : m <= i
  <2> HIDE DEF bad
  <2> QED BY <1>1, Least
<1>3. m \in 1..n
  BY <1>2
<1>4. m - 1 \in 0..n - 1 /\ m - 1 \notin bad /\ (m - 1) + 1 = m
  BY <1>2, <1>3
<1> QED BY <1>2, <1>4

-----------------------------------------------------------------------------
(* Reading the table *)

\* Rows of one query: finitely many, with ids and names of their own.
Keyed(own) == /\ own \subseteq Row /\ IsFiniteSet(own)
              /\ \A r, s \in own : r.id = s.id \/ r.name = s.name => r = s

\* The rows of every query have ids and names of their own.
LEMMA OwnRows ==
  ASSUME StoreInv, NEW q
  PROVE  Keyed(Own(q)) /\ \A r \in Own(q) : r.id <= lastRow
<1>1. Own(q) \subseteq Row /\ \A r \in Own(q) : r.id <= lastRow
  <2>1. \A r \in rows : r \in Row /\ r.id <= lastRow
    BY DEF StoreInv
  <2> QED BY <2>1 DEF Own
<1>2. \A r, s \in Own(q) : r.id = s.id \/ r.name = s.name => r = s
  BY DEF StoreInv, Own
<1>3. IsFiniteSet(Own(q))
  <2> DEFINE id == [r \in Own(q) |-> r.id]
  <2>1. id \in [Own(q) -> 1..lastRow]
    BY <1>1 DEF StoreInv, Row
  <2>2. id \in Injection(Own(q), 1..lastRow)
    BY <1>2, <2>1 DEF Injection, IsInjective
  <2>3. IsFiniteSet(1..lastRow)
    BY FS_Interval DEF StoreInv
  <2> HIDE DEF id
  <2> QED BY <2>2, <2>3, FS_Injection
<1> QED BY <1>1, <1>2, <1>3 DEF Keyed

\* Before is a strict order, and total on the rows of a query.
LEMMA BeforeOrder ==
  ASSUME NEW own, Keyed(own)
  PROVE  /\ \A r \in own : ~Before(r, r)
         /\ \A r, s, t \in own : Before(r, s) /\ Before(s, t) => Before(r, t)
         /\ \A r, s \in own : r # s => Before(r, s) \/ Before(s, r)
<1>1. \A r \in own : r.position \in Nat /\ r.name \in Nat
  BY StoreAssumption DEF Keyed, Row
<1>2. \A r, s \in own : r.name = s.name => r = s
  BY DEF Keyed
<1> QED BY <1>1, <1>2 DEF Before

\* The list of a query's parameters has each of its rows once, in order.
LEMMA OrderedRows ==
  ASSUME NEW S, Keyed(S)
  PROVE  /\ Cardinality(S) \in Nat
         /\ Ordered(S) \in [1..Cardinality(S) -> S]
         /\ \A i, j \in 1..Cardinality(S) :
              /\ i < j => Before(Ordered(S)[i], Ordered(S)[j])
              /\ Ordered(S)[i] = Ordered(S)[j] => i = j
         /\ \A r \in S : \E i \in 1..Cardinality(S) : Ordered(S)[i] = r
<1> DEFINE n == Cardinality(S)
           below == [r \in S |-> {s \in S : Before(s, r)}]
           rank == [r \in S |-> Cardinality(below[r]) + 1]
           Sorted(list) == \A i, j \in DOMAIN list : i < j => Before(list[i], list[j])
<1>1. IsFiniteSet(S) /\ n \in Nat
  BY FS_CardinalityType DEF Keyed
<1>2. \A r \in S : ~Before(r, r)
  BY BeforeOrder
<1>3. \A r, s, t \in S : Before(r, s) /\ Before(s, t) => Before(r, t)
  BY BeforeOrder
<1>4. \A r, s \in S : r # s => Before(r, s) \/ Before(s, r)
  BY BeforeOrder
<1> HIDE DEF n
<1>5. \A r \in S : /\ below[r] \subseteq S \ {r} /\ IsFiniteSet(below[r])
                   /\ Cardinality(below[r]) \in Nat /\ Cardinality(below[r]) < n
  <2> SUFFICES ASSUME NEW r \in S
               PROVE  /\ below[r] \subseteq S \ {r} /\ IsFiniteSet(below[r])
                      /\ Cardinality(below[r]) \in Nat /\ Cardinality(below[r]) < n
    OBVIOUS
  <2>1. below[r] \subseteq S \ {r}
    BY <1>2
  <2>2. IsFiniteSet(S \ {r}) /\ Cardinality(S \ {r}) = n - 1
    BY <1>1, FS_RemoveElement DEF n
  <2>3. IsFiniteSet(below[r]) /\ Cardinality(below[r]) <= Cardinality(S \ {r})
    BY <2>1, <2>2, FS_Subset
  <2>4. Cardinality(below[r]) \in Nat
    BY <2>3, FS_CardinalityType
  <2> QED BY <1>1, <2>1, <2>2, <2>3, <2>4
<1>6. \A r, s \in S : Before(r, s) => Cardinality(below[r]) < Cardinality(below[s])
  <2> SUFFICES ASSUME NEW r \in S, NEW s \in S, Before(r, s)
               PROVE  Cardinality(below[r]) < Cardinality(below[s])
    OBVIOUS
  <2>1. r \notin below[r] /\ below[r] \cup {r} \subseteq below[s]
    BY <1>2, <1>3
  <2>2. /\ IsFiniteSet(below[r]) /\ IsFiniteSet(below[s])
        /\ Cardinality(below[r]) \in Nat /\ Cardinality(below[s]) \in Nat
    BY <1>5
  <2>3. Cardinality(below[r] \cup {r}) = Cardinality(below[r]) + 1
    BY <2>1, <2>2, FS_AddElement
  <2>4. Cardinality(below[r] \cup {r}) <= Cardinality(below[s])
    BY <2>1, <2>2, FS_Subset
  <2> QED BY <2>2, <2>3, <2>4
<1> HIDE DEF below
<1>7. rank \in [S -> 1..n] /\ \A r, s \in S : Before(r, s) => rank[r] < rank[s]
  BY <1>1, <1>5, <1>6
<1> HIDE DEF rank
<1>8. \A r, s \in S : rank[r] = rank[s] => r = s
  <2>1. \A r \in S : rank[r] \in Nat
    BY <1>7
  <2> QED BY <1>4, <1>7, <2>1
<1>9. \A i \in 1..n : \E r \in S : rank[r] = i
  <2>1. rank \in Injection(S, 1..n)
    BY <1>7, <1>8 DEF Injection, IsInjective
  <2>2. IsFiniteSet(1..n) /\ Cardinality(1..n) = n
    BY <1>1, FS_Interval
  <2>3. rank \in Surjection(S, 1..n)
    BY <2>1, <2>2, FS_Injection DEF n
  <2> QED BY <2>3 DEF Surjection
<1> DEFINE sorted == [i \in 1..n |-> CHOOSE r \in S : rank[r] = i]
<1>10. sorted \in [1..n -> S] /\ \A i \in 1..n : rank[sorted[i]] = i
  BY <1>9
<1>11. sorted \in SetToSeqs(S) /\ Sorted(sorted)
  <2> HIDE DEF sorted
  <2>1. \A i, j \in 1..n : i # j => sorted[i] # sorted[j]
    BY <1>10
  <2>2. \A i, j \in 1..n : i < j => Before(sorted[i], sorted[j])
    <3> SUFFICES ASSUME NEW i \in 1..n, NEW j \in 1..n, i < j, ~Before(sorted[i], sorted[j])
                 PROVE  FALSE
      OBVIOUS
    <3>1. sorted[i] \in S /\ sorted[j] \in S /\ rank[sorted[i]] = i /\ rank[sorted[j]] = j
      BY <1>10
    <3>2. Before(sorted[j], sorted[i])
      BY <1>4, <2>1, <3>1
    <3> QED BY <1>7, <3>1, <3>2
  <2>3. sorted \in SetToSeqs(S)
    BY <1>10, <2>1 DEF SetToSeqs, n
  <2> QED BY <1>10, <2>2, <2>3
<1>12. Ordered(S) \in SetToSeqs(S) /\ Sorted(Ordered(S))
  <2>1. Ordered(S) = CHOOSE list \in SetToSeqs(S) : Sorted(list)
    BY DEF Ordered
  <2> HIDE DEF Sorted, sorted
  <2> QED BY <1>11, <2>1
<1>13. Ordered(S) \in [1..n -> S] /\ \A i, j \in 1..n : i # j => Ordered(S)[i] # Ordered(S)[j]
  BY <1>12 DEF SetToSeqs, n
<1>14. \A r \in S : \E i \in 1..n : Ordered(S)[i] = r
  <2>1. Ordered(S) \in Injection(1..n, S)
    BY <1>13 DEF Injection, IsInjective
  <2>2. IsFiniteSet(1..n) /\ Cardinality(1..n) = n
    BY <1>1, FS_Interval
  <2>3. Ordered(S) \in Surjection(1..n, S)
    BY <1>1, <2>1, <2>2, FS_Injection DEF n
  <2> QED BY <2>3 DEF Surjection
<1> QED BY <1>1, <1>12, <1>13, <1>14 DEF n

-----------------------------------------------------------------------------
(* Writing a snapshot *)

\* The row of the draft at position j, if its id is id[j].
RowAt(q, ps, id, j) == [id |-> id[j], query |-> q, name |-> Canonical[ps[j].name],
                        source |-> ps[j].source, position |-> j]

\* The rows of a snapshot.
Snapshot(q, ps, id) == {RowAt(q, ps, id, j) : j \in 1..Len(ps)}

StartTable(own, ps) == [ok |-> ~InTheWay(Kept(own, ps), ps), own |-> Parked(Kept(own, ps)),
                        last |-> lastRow]

\* No row has the name under which the row of a draft is parked, if that is another one.
Untemporary(own, ps) ==
  \A i \in DOMAIN ps : \A r \in own :
    ps[i].id # 0 /\ r.id # ps[i].id => r.name # TemporaryName(ps[i].id)

\* Written goes from table to table, a draft at a time.
LEMMA WrittenTables ==
  ASSUME NEW q, NEW own, NEW ps, Len(ps) \in Nat
  PROVE  \E table : /\ table[0] = StartTable(own, ps)
                    /\ \A i \in 1..Len(ps) : table[i] = Put(q, ps, table[i - 1], i)
                    /\ Written(q, own, ps) = table[Len(ps)]
<1> DEFINE n == Len(ps)
           start == StartTable(own, ps)
           Loop(t, m) == t = [i \in 0..m |-> IF i = 0 THEN start ELSE Put(q, ps, t[i - 1], i)]
           reached == {m \in 0..n : \E t : Loop(t, m)}
<1>1. 0 \in reached
  <2>1. Loop([i \in 0..0 |-> start], 0)
    OBVIOUS
  <2> HIDE DEF Loop
  <2> QED BY <2>1
<1>2. ASSUME NEW m \in 0..n - 1, m \in reached PROVE m + 1 \in reached
  <2>1. PICK t : Loop(t, m)
    BY <1>2
  <2> DEFINE u == [i \in 0..m + 1 |-> IF i = m + 1 THEN Put(q, ps, t[m], m + 1) ELSE t[i]]
  <2>2. \A i \in 0..m + 1 : u[i] = IF i = 0 THEN start ELSE Put(q, ps, u[i - 1], i)
    <3> SUFFICES ASSUME NEW i \in 0..m + 1
                 PROVE  u[i] = IF i = 0 THEN start ELSE Put(q, ps, u[i - 1], i)
      OBVIOUS
    <3>1. CASE i = m + 1
      <4>1. i # 0 /\ m \in 0..m + 1 /\ m # m + 1 /\ i - 1 = m
        BY <3>1
      <4>2. u[i] = Put(q, ps, t[m], i) /\ u[i - 1] = t[m]
        BY <3>1, <4>1
      <4> QED BY <4>1, <4>2
    <3>2. CASE i # m + 1
      <4>1. i \in 0..m
        BY <3>2
      <4>2. t[i] = IF i = 0 THEN start ELSE Put(q, ps, t[i - 1], i)
        BY <2>1, <4>1
      <4>3. i # 0 => i - 1 \in 0..m + 1 /\ i - 1 # m + 1
        BY <4>1
      <4> QED BY <3>2, <4>1, <4>2, <4>3
    <3> QED BY <3>1, <3>2
  <2>3. Loop(u, m + 1)
    <3> DEFINE v == [i \in 0..m + 1 |-> IF i = 0 THEN start ELSE Put(q, ps, u[i - 1], i)]
    <3>1. DOMAIN u = 0..m + 1 /\ u = [i \in 0..m + 1 |-> u[i]]
      OBVIOUS
    <3> HIDE DEF u
    <3> QED BY <2>2, <3>1
  <2> HIDE DEF Loop, u
  <2> QED BY <2>3
<1>3. n \in reached
  <2> HIDE DEF reached
  <2>1. 0..n \subseteq reached
    BY <1>1, <1>2, Steps
  <2> QED BY <2>1
<1> DEFINE table == CHOOSE t : Loop(t, n)
<1>4. Loop(table, n)
  <2> HIDE DEF Loop
  <2> QED BY <1>3
<1>5. Written(q, own, ps) = table[n]
  BY DEF Written, StartTable
<1> HIDE DEF table
<1>6. table[0] = start /\ \A i \in 1..n : table[i] = Put(q, ps, table[i - 1], i)
  BY <1>4
<1> QED BY <1>5, <1>6

\* Of a snapshot whose names differ and are not reserved, and whose ids are those of rows of
\* the route, each once, what is written is a row for each draft and no other, in their
\* order. No name collides unless a row has the temporary one of another.
LEMMA WrittenRows ==
  ASSUME NEW q, NEW own \in SUBSET Row, lastRow \in Nat, \A r \in own : r.id <= lastRow,
         NEW ps \in Seq(Draft), OwnIds(own, ps),
         \A i \in DOMAIN ps : Canonical[ps[i].name] \notin Reserved,
         \A i, j \in DOMAIN ps : Canonical[ps[i].name] = Canonical[ps[j].name] => i = j
  PROVE  LET w == Written(q, own, ps) IN
         /\ w.ok \in BOOLEAN /\ (Untemporary(own, ps) => w.ok = TRUE)
         /\ w.ok = TRUE =>
              /\ w.last \in Nat /\ w.last >= lastRow
              /\ \E id \in [1..Len(ps) -> Nat \ {0}] :
                   /\ w.own = Snapshot(q, ps, id)
                   /\ \A j \in 1..Len(ps) : /\ id[j] <= w.last
                                            /\ ps[j].id # 0 => id[j] = ps[j].id
                                            /\ ps[j].id = 0 => id[j] > lastRow
                   /\ \A i, j \in 1..Len(ps) : id[i] = id[j] => i = j
<1> DEFINE n == Len(ps)
<1>1. n \in Nat /\ DOMAIN ps = 1..n /\ \A j \in 1..n : ps[j] \in Draft
  BY LenProperties, ElementOfSeq
<1>2. PICK table : /\ table[0] = StartTable(own, ps)
                   /\ \A i \in 1..n : table[i] = Put(q, ps, table[i - 1], i)
                   /\ Written(q, own, ps) = table[n]
  BY <1>1, WrittenTables
<1> DEFINE id == [j \in 1..n |-> IF ps[j].id = 0 THEN table[j].last ELSE ps[j].id]
           parked(i) == {p \in Parked(Kept(own, ps)) : \A j \in 1..i : ps[j].id # p.id}
           Done(i) == /\ table[i].ok = TRUE /\ table[i].last \in Nat /\ table[i].last >= lastRow
                      /\ table[i].own = {RowAt(q, ps, id, j) : j \in 1..i} \cup parked(i)
                      /\ \A j \in 1..i : /\ id[j] \in Nat \ {0} /\ id[j] <= table[i].last
                                         /\ ps[j].id # 0 => id[j] = ps[j].id
                                         /\ ps[j].id = 0 => id[j] > lastRow
                      /\ \A j, k \in 1..i : id[j] = id[k] => j = k
<1>3. \A p \in Parked(Kept(own, ps)) : /\ p.id \in Retained(ps) /\ p.id <= lastRow
                                       /\ p.id \in Nat \ {0} /\ p.name = TemporaryName(p.id)
  <2>1. \A r \in Kept(own, ps) : /\ r \in Row /\ r.id <= lastRow /\ r.id \in Retained(ps)
                                 /\ [r EXCEPT !.name = TemporaryName(r.id)].id = r.id
                                 /\ [r EXCEPT !.name = TemporaryName(r.id)].name
                                      = TemporaryName(r.id)
    BY DEF Kept, Row
  <2>2. \A r \in Kept(own, ps) : r.id \in Nat \ {0}
    BY <2>1 DEF Row
  <2> QED BY <2>1, <2>2 DEF Parked
<1>4. \A j \in 1..n : /\ Canonical[ps[j].name] \in Nat \ {0}
                      /\ ps[j].id \in Nat
                      /\ ps[j].id # 0 => ps[j].id <= lastRow
  <2>1. \A j \in 1..n : ps[j].name \in Name /\ ps[j].id \in Nat
    BY <1>1 DEF Draft
  <2>2. \A j \in 1..n : ps[j].id # 0 => ps[j].id \in {r.id : r \in own}
    BY <1>1 DEF OwnIds, Retained
  <2>3. Name \subseteq Nat \ {0} /\ \A m \in Name : Canonical[m] \in Name
    BY StoreAssumption
  <2> QED BY <2>1, <2>2, <2>3
<1> DEFINE Given(k) == IF ps[k].id = 0 THEN table[k - 1].last + 1 ELSE ps[k].id
           Free(k) == ~Clashes(table[k - 1].own, Given(k), Canonical[ps[k].name])
<1>5. /\ \A i \in 0..n : table[i].ok \in BOOLEAN
      /\ \A k \in 1..n : table[k].ok = TRUE <=> table[k - 1].ok = TRUE /\ Free(k)
      /\ table[0].ok = TRUE <=> ~InTheWay(Kept(own, ps), ps)
  <2>1. table[0].ok \in BOOLEAN /\ (table[0].ok = TRUE <=> ~InTheWay(Kept(own, ps), ps))
    <3>1. table[0].ok = ~InTheWay(Kept(own, ps), ps)
      BY <1>2 DEF StartTable
    <3>2. (~InTheWay(Kept(own, ps), ps)) \in BOOLEAN
      BY Zenon DEF InTheWay
    <3> QED BY <3>1, <3>2
  <2>2. ASSUME NEW k \in 1..n PROVE table[k].ok \in BOOLEAN
    <3>1. table[k] = Put(q, ps, table[k - 1], k)
      BY <1>2
    <3>2. Put(q, ps, table[k - 1], k).ok \in {TRUE, FALSE}
      BY DEF Put
    <3> QED BY <3>1, <3>2
  <2>3. \A i \in 0..n : table[i].ok \in BOOLEAN
    BY <2>1, <2>2
  <2>4. ASSUME NEW k \in 1..n PROVE table[k].ok = TRUE <=> table[k - 1].ok = TRUE /\ Free(k)
    <3>1. table[k] = Put(q, ps, table[k - 1], k) /\ table[k - 1].ok \in BOOLEAN
      BY <1>1, <1>2, <2>3
    <3> QED BY <3>1 DEF Put, NextRow
  <2> QED BY <2>1, <2>3, <2>4
<1>6. ASSUME table[0].ok = TRUE PROVE Done(0)
  <2>1. table[0].last = lastRow /\ table[0].own = Parked(Kept(own, ps))
    BY <1>2 DEF StartTable
  <2> QED BY <1>6, <2>1
<1>7. ASSUME NEW i \in 0..n - 1, Done(i), table[i + 1].ok = TRUE PROVE Done(i + 1)
  <2> DEFINE k == i + 1
             old == table[i]
             row == RowAt(q, ps, id, k)
  <2>1. k \in 1..n /\ k - 1 = i
    BY <1>1
  <2>2. table[k] = Put(q, ps, old, k)
    BY <1>2, <2>1
  <2> DEFINE new == IF ps[k].id = 0 THEN old.last + 1 ELSE ps[k].id
  <2>3. ~Clashes(old.own, new, Canonical[ps[k].name])
    BY <1>5, <1>7, <2>1
  <2>4. /\ table[k].ok = TRUE
        /\ table[k].last = IF ps[k].id = 0 THEN new ELSE old.last
        /\ table[k].own = Stored(old.own, [id |-> new, query |-> q,
                                           name |-> Canonical[ps[k].name],
                                           source |-> ps[k].source, position |-> k])
    <3> HIDE DEF old
    <3> QED BY <1>7, <2>2, <2>3 DEF Put, NextRow, old
  <2>5. id[k] = new
    BY <2>1, <2>4
  <2>6. table[k].own = {r \in old.own : r.id # id[k]} \cup {row}
    BY <2>4, <2>5 DEF Stored, RowAt
  <2> HIDE DEF id
  <2>7. /\ table[k].last \in Nat /\ table[k].last >= old.last /\ old.last >= lastRow
        /\ id[k] \in Nat \ {0} /\ id[k] <= table[k].last
        /\ ps[k].id # 0 => id[k] = ps[k].id
        /\ ps[k].id = 0 => id[k] = old.last + 1
    BY <1>4, <1>7, <2>1, <2>4, <2>5
  <2>8. \A j \in 1..i : id[j] # id[k]
    <3> SUFFICES ASSUME NEW j \in 1..i, id[j] = id[k] PROVE FALSE
      OBVIOUS
    <3>1. j \in 1..n /\ j # k /\ id[j] \in Nat /\ id[j] <= old.last /\ old.last \in Nat
      BY <1>1, <1>7
    <3>2. CASE ps[k].id = 0
      BY <2>7, <3>1, <3>2
    <3>3. CASE ps[k].id # 0
      <4>1. id[k] <= lastRow
        BY <1>4, <2>1, <2>7, <3>3
      <4>2. ps[j].id # 0 /\ ps[j].id = ps[k].id
        BY <1>7, <2>7, <3>1, <3>3, <4>1
      <4> QED BY <1>1, <2>1, <3>1, <4>2 DEF OwnIds
    <3> QED BY <3>2, <3>3
  <2>9. {r \in old.own : r.id # id[k]} = {RowAt(q, ps, id, j) : j \in 1..i} \cup parked(k)
    <3>1. \A j \in 1..i : RowAt(q, ps, id, j).id # id[k]
      BY <2>8 DEF RowAt
    <3>2. \A p \in Parked(Kept(own, ps)) : p.id # id[k] <=> p.id # ps[k].id
      BY <1>3, <1>7, <2>7
    <3>3. parked(k) = {p \in parked(i) : p.id # id[k]}
      <4>1. \A p : (\A j \in 1..k : ps[j].id # p.id)
                   <=> (\A j \in 1..i : ps[j].id # p.id) /\ ps[k].id # p.id
        BY <2>1
      <4> QED BY <3>2, <4>1
    <3> HIDE DEF parked
    <3> QED BY <1>7, <3>1, <3>3
  <2>10. table[k].own = {RowAt(q, ps, id, j) : j \in 1..k} \cup parked(k)
    <3>1. {RowAt(q, ps, id, j) : j \in 1..k} = {RowAt(q, ps, id, j) : j \in 1..i} \cup {row}
      <4>1. 1..k = 1..i \cup {k}
        BY <2>1
      <4> QED BY <4>1
    <3> HIDE DEF parked, row
    <3> QED BY <2>6, <2>9, <3>1
  <2>11. \A j \in 1..k : /\ id[j] \in Nat \ {0} /\ id[j] <= table[k].last
                         /\ ps[j].id # 0 => id[j] = ps[j].id
                         /\ ps[j].id = 0 => id[j] > lastRow
    <3> SUFFICES ASSUME NEW j \in 1..k
                 PROVE  /\ id[j] \in Nat \ {0} /\ id[j] <= table[k].last
                        /\ ps[j].id # 0 => id[j] = ps[j].id
                        /\ ps[j].id = 0 => id[j] > lastRow
      OBVIOUS
    <3>1. CASE j = k
      BY <1>7, <2>7, <3>1
    <3>2. CASE j \in 1..i
      BY <1>7, <2>7, <3>2
    <3> QED BY <2>1, <3>1, <3>2
  <2>12. \A j, m \in 1..k : id[j] = id[m] => j = m
    <3>1. \A j \in 1..k : j = k \/ j \in 1..i
      BY <2>1
    <3> QED BY <1>7, <2>8, <3>1
  <2> HIDE DEF parked, k
  <2>13. /\ table[k].ok = TRUE /\ table[k].last \in Nat
         /\ table[k].last >= lastRow
    BY <1>7, <2>4, <2>7
  <2>14. Done(k)
    BY <2>10, <2>11, <2>12, <2>13
  <2> QED BY <2>14 DEF k
<1> DEFINE Claim(i) == table[i].ok = TRUE => Done(i)
<1>8. \A i \in 0..n : Claim(i)
  <2> DEFINE done == {i \in 0..n : Claim(i)}
  <2>1. Claim(0)
    BY <1>6
  <2>2. ASSUME NEW i \in 0..n - 1, Claim(i) PROVE Claim(i + 1)
    <3> SUFFICES ASSUME table[i + 1].ok = TRUE PROVE Done(i + 1)
      OBVIOUS
    <3>1. i + 1 \in 1..n /\ (i + 1) - 1 = i
      BY <1>1
    <3>2. table[i].ok = TRUE
      BY <1>5, <3>1
    <3>3. Done(i)
      BY <2>2, <3>2
    <3> HIDE DEF Done
    <3> QED BY <1>7, <3>3
  <2> HIDE DEF Claim
  <2>3. 0 \in done /\ \A i \in 0..n - 1 : i \in done => i + 1 \in done
    BY <1>1, <2>1, <2>2
  <2>4. 0..n \subseteq done
    <3> HIDE DEF done
    <3> QED BY <1>1, <2>3, Steps
  <2> QED BY <2>4
<1>9. ASSUME Untemporary(own, ps) PROVE table[n].ok = TRUE
  <2> DEFINE Fine(i) == table[i].ok = TRUE
             fine == {i \in 0..n : Fine(i)}
  <2>1. ~InTheWay(Kept(own, ps), ps)
    BY <1>9 DEF InTheWay, Kept, Untemporary
  <2>2. ASSUME NEW i \in 0..n - 1, Fine(i) PROVE Fine(i + 1)
    <3> DEFINE k == i + 1
    <3>1. k \in 1..n /\ k - 1 = i /\ i \in 0..n
      BY <1>1
    <3>2. table[i].own = {RowAt(q, ps, id, j) : j \in 1..i} \cup parked(i)
      BY <1>8, <2>2, <3>1
    <3>3. Free(k)
      <4> SUFFICES ASSUME NEW r \in table[i].own, r.id # Given(k), r.name = Canonical[ps[k].name]
                   PROVE  FALSE
        BY <3>1 DEF Clashes
      <4>1. CASE r \in parked(i)
        <5>1. Canonical[ps[k].name] = TemporaryName(r.id) /\ r.id \in Nat
          BY <1>3, <4>1
        <5>2. r.id \in DOMAIN Temporary
          BY <1>4, <3>1, <5>1 DEF TemporaryName
        <5>3. TemporaryName(r.id) \in Reserved
          BY <5>2, StoreAssumption DEF TemporaryName
        <5> QED BY <1>1, <3>1, <5>1, <5>3
      <4>2. ASSUME NEW j \in 1..i, r = RowAt(q, ps, id, j) PROVE FALSE
        <5>1. j \in 1..n /\ j # k /\ Canonical[ps[j].name] = Canonical[ps[k].name]
          BY <1>1, <4>2 DEF RowAt
        <5> QED BY <1>1, <3>1, <5>1
      <4> QED BY <3>2, <4>1, <4>2
    <3> QED BY <1>5, <2>2, <3>1, <3>3
  <2>3. Fine(0)
    BY <1>5, <2>1
  <2> HIDE DEF Fine
  <2>4. 0 \in fine /\ \A i \in 0..n - 1 : i \in fine => i + 1 \in fine
    BY <1>1, <2>2, <2>3
  <2>5. 0..n \subseteq fine
    <3> HIDE DEF fine
    <3> QED BY <1>1, <2>4, Steps
  <2>6. Fine(n)
    BY <1>1, <2>5
  <2> QED BY <2>6 DEF Fine
<1>10. parked(n) = {}
  BY <1>1, <1>3 DEF Retained
<1>11. ASSUME table[n].ok = TRUE PROVE Done(n) /\ id \in [1..n -> Nat \ {0}]
  <2>1. Claim(n)
    <3> HIDE DEF Claim
    <3> QED BY <1>1, <1>8
  <2>2. Done(n)
    BY <1>11, <2>1
  <2> QED BY <2>2
<1>12. table[n].ok \in BOOLEAN
  BY <1>1, <1>5
<1> HIDE DEF id, parked
<1> QED BY <1>2, <1>9, <1>10, <1>11, <1>12 DEF Snapshot

-----------------------------------------------------------------------------
(* Drafts and their validity *)

\* The drafts read from the rows of a query name each of them once, in their order.
LEMMA DraftRows ==
  ASSUME NEW S, Keyed(S)
  PROVE  LET list == Ordered(S) IN
         /\ DraftsOf(list) \in Seq(Draft) /\ DOMAIN DraftsOf(list) = DOMAIN list
         /\ Len(DraftsOf(list)) = Cardinality(S)
         /\ \A i \in DOMAIN list : /\ list[i] \in S
                                   /\ DraftsOf(list)[i].id = list[i].id
                                   /\ DraftsOf(list)[i].name = list[i].name
                                   /\ DraftsOf(list)[i].source = list[i].source
         /\ \A i, j \in DOMAIN list : list[i] = list[j] => i = j
         /\ \A r \in S : \E i \in DOMAIN list : list[i] = r
<1> DEFINE n == Cardinality(S)
           list == Ordered(S)
<1>1. n \in Nat /\ list \in [1..n -> S] /\ DOMAIN list = 1..n
  BY OrderedRows
<1>2. \A i \in 1..n : list[i] \in Row
  BY <1>1 DEF Keyed
<1>3. DraftsOf(list) \in [1..n -> Draft]
  BY <1>1, <1>2 DEF DraftsOf, Draft, Row
<1>4. DraftsOf(list) \in Seq(Draft) /\ Len(DraftsOf(list)) = n
  BY <1>1, <1>3, SeqDef, LenProperties
<1>5. \A i \in DOMAIN list : /\ list[i] \in S
                             /\ DraftsOf(list)[i].id = list[i].id
                             /\ DraftsOf(list)[i].name = list[i].name
                             /\ DraftsOf(list)[i].source = list[i].source
  BY <1>1 DEF DraftsOf
<1>6. /\ \A i, j \in DOMAIN list : list[i] = list[j] => i = j
      /\ \A r \in S : \E i \in DOMAIN list : list[i] = r
  BY <1>1, OrderedRows
<1>7. DOMAIN DraftsOf(list) = DOMAIN list
  BY DEF DraftsOf
<1> QED BY <1>4, <1>5, <1>6, <1>7

\* What validation says of the parameters of a route, as a set of rows or drafts.
ValidSet(t, S) ==
  /\ t \in Accepted
  /\ NoName \notin {Canonical[p.name] : p \in S}
  /\ {Canonical[p.name] : p \in S} \cap Reserved = {}
  /\ Detected(t) \subseteq {Canonical[p.name] : p \in S}
  /\ PathNames(t) = {Canonical[p.name] : p \in {p \in S : p.source = "path"}}
  /\ t \in Get => \A p \in S : p.source # "body"

\* Validation sees the set of the drafts, but for names that are given twice.
LEMMA ValidDrafts ==
  ASSUME NEW t, NEW ps
  PROVE  Valid(t, ps) <=> /\ ValidSet(t, ToSet(ps))
                          /\ \A i, j \in DOMAIN ps :
                               Canonical[ps[i].name] = Canonical[ps[j].name] => i = j
BY DEF Valid, ValidSet, NamesOf

\* Validity depends on names, up to case, and sources only.
LEMMA SameValidity ==
  ASSUME NEW t, NEW S, NEW T,
         \A p \in S : \E r \in T : Canonical[p.name] = Canonical[r.name] /\ p.source = r.source,
         \A r \in T : \E p \in S : Canonical[p.name] = Canonical[r.name] /\ p.source = r.source,
         ValidSet(t, S)
  PROVE  ValidSet(t, T)
<1>1. {Canonical[p.name] : p \in S} = {Canonical[r.name] : r \in T}
  OBVIOUS
<1>2. {Canonical[p.name] : p \in {p \in S : p.source = "path"}}
      = {Canonical[r.name] : r \in {r \in T : r.source = "path"}}
  OBVIOUS
<1>3. t \in Get => \A r \in T : r.source # "body"
  BY DEF ValidSet
<1> QED BY <1>1, <1>2, <1>3 DEF ValidSet

-----------------------------------------------------------------------------
(* What a save leaves in the table *)

\* Rows written at the positions 1 to n are listed at these positions.
LEMMA SnapshotOrder ==
  ASSUME NEW q \in Nat \ {0}, NEW ps \in Seq(Draft),
         NEW id \in [1..Len(ps) -> Nat \ {0}],
         \A i, j \in 1..Len(ps) : id[i] = id[j] => i = j,
         \A i, j \in DOMAIN ps : Canonical[ps[i].name] = Canonical[ps[j].name] => i = j
  PROVE  LET S == Snapshot(q, ps, id) IN
         /\ Keyed(S) /\ Cardinality(S) = Len(ps)
         /\ \A i \in 1..Len(ps) : Ordered(S)[i] = RowAt(q, ps, id, i)
<1> DEFINE n == Len(ps)
           S == Snapshot(q, ps, id)
           row == [j \in 1..n |-> RowAt(q, ps, id, j)]
<1>1. n \in Nat /\ DOMAIN ps = 1..n /\ \A j \in 1..n : ps[j] \in Draft
  BY LenProperties, ElementOfSeq
<1> HIDE DEF n
<1>2. \A j \in 1..n : row[j] \in Row /\ row[j].position = j /\ row[j].id = id[j]
                      /\ row[j].name = Canonical[ps[j].name]
  <2> SUFFICES ASSUME NEW j \in 1..n
               PROVE  /\ row[j] \in Row /\ row[j].position = j /\ row[j].id = id[j]
                      /\ row[j].name = Canonical[ps[j].name]
    OBVIOUS
  <2>1. ps[j].source \in Source /\ ps[j].name \in Name /\ Canonical[ps[j].name] \in Name
    BY <1>1, StoreAssumption DEF Draft
  <2>2. id[j] \in Nat \ {0} /\ j \in Nat
    BY <1>1 DEF n
  <2>3. row[j] = RowAt(q, ps, id, j)
    OBVIOUS
  <2> QED BY <2>1, <2>2, <2>3 DEF RowAt, Row
<1>3. S = {row[j] : j \in 1..n} /\ row \in [1..n -> S]
  BY DEF n, Snapshot
<1> HIDE DEF row, S
<1>4. \A i, j \in 1..n : row[i] = row[j] => i = j
  BY <1>2
<1>5. IsFiniteSet(S) /\ Cardinality(S) = n
  <2>1. row \in Bijection(1..n, S)
    BY <1>3, <1>4 DEF Bijection, Injection, Surjection, IsInjective
  <2>2. IsFiniteSet(1..n) /\ Cardinality(1..n) = n
    BY <1>1, FS_Interval
  <2> QED BY <2>1, <2>2, FS_Bijection DEF ExistsBijection
<1>6. Keyed(S)
  <2>1. \A r, s \in S : r.id = s.id \/ r.name = s.name => r = s
    <3>1. \A i, j \in 1..n : id[i] = id[j] => i = j
      BY DEF n
    <3>2. ASSUME NEW r \in S, NEW s \in S, r.id = s.id \/ r.name = s.name PROVE r = s
      <4>1. PICK i \in 1..n : r = row[i]
        BY <1>3
      <4>2. PICK j \in 1..n : s = row[j]
        BY <1>3
      <4>3. i = j
        BY <1>1, <1>2, <3>1, <3>2, <4>1, <4>2
      <4> QED BY <4>1, <4>2, <4>3
    <3> QED BY <3>2
  <2> QED BY <1>2, <1>3, <1>5, <2>1 DEF Keyed
<1> DEFINE list == Ordered(S)
           p == [i \in 1..n |-> list[i].position]
<1>7. /\ list \in [1..n -> S]
      /\ \A i, j \in 1..n : i < j => Before(list[i], list[j])
      /\ \A r \in S : \E i \in 1..n : list[i] = r
  BY <1>5, <1>6, OrderedRows
<1> HIDE DEF list
<1>8. p \in [1..n -> 1..n] /\ \A i \in 1..n : list[i] = row[p[i]]
  <2>1. \A i \in 1..n : \E j \in 1..n : list[i] = row[j]
    BY <1>3, <1>7
  <2>2. \A i \in 1..n : \E j \in 1..n : list[i] = row[j] /\ p[i] = j
    BY <1>2, <2>1
  <2> HIDE DEF p
  <2>3. \A i \in 1..n : p[i] \in 1..n /\ list[i] = row[p[i]]
    BY <2>2
  <2> QED BY <2>3 DEF p
<1>9. \A i, j \in 1..n : i < j => p[i] < p[j]
  <2> SUFFICES ASSUME NEW i \in 1..n, NEW j \in 1..n, i < j PROVE p[i] < p[j]
    OBVIOUS
  <2>1. Before(list[i], list[j]) /\ list[i] \in S /\ list[j] \in S
    BY <1>7
  <2>2. list[i] # list[j]
    BY <1>6, <2>1, BeforeOrder
  <2>3. p[i] # p[j] /\ p[i] \in Nat /\ p[j] \in Nat
    BY <1>8, <2>2
  <2> QED BY <2>1, <2>3 DEF Before
<1>10. \A k \in 1..n : \E i \in 1..n : p[i] = k
  <2> SUFFICES ASSUME NEW k \in 1..n PROVE \E i \in 1..n : p[i] = k
    OBVIOUS
  <2>1. PICK i \in 1..n : list[i] = row[k]
    BY <1>3, <1>7
  <2>2. p[i] = k
    BY <1>2, <2>1
  <2> QED BY <2>2
<1> HIDE DEF p
<1>11. \A i \in 1..n : p[i] = i
  <2> DEFINE bad == {i \in 1..n : p[i] # i}
  <2> SUFFICES ASSUME bad # {} PROVE FALSE
    OBVIOUS
  <2>1. bad \in SUBSET Nat
    OBVIOUS
  <2>2. PICK m \in bad : \A i \in bad : m <= i
    <3> HIDE DEF bad
    <3> QED BY <2>1, Least
  <2>3. m \in 1..n /\ p[m] # m /\ \A i \in 1..m - 1 : p[i] = i
    BY <1>1, <2>2
  <2>4. PICK k \in 1..n : p[k] = m
    BY <1>10, <2>3
  <2>5. k # m /\ p[m] \in 1..n
    BY <1>8, <2>3, <2>4
  <2>6. CASE k < m
    BY <2>3, <2>4, <2>6
  <2>7. CASE m < k
    <3>1. p[m] < m
      BY <1>9, <2>3, <2>4, <2>7
    <3>2. p[m] \in 1..m - 1 /\ p[p[m]] = p[m]
      BY <2>3, <2>5, <3>1
    <3>3. p[p[m]] < p[m]
      BY <1>9, <2>3, <2>5, <3>1
    <3> QED BY <2>5, <3>2, <3>3
  <2> QED BY <2>3, <2>5, <2>6, <2>7
<1>12. \A i \in 1..n : list[i] = row[i]
  BY <1>8, <1>11
<1> QED BY <1>5, <1>6, <1>12 DEF list, row, n, S

\* Valid parameters have no reserved name.
LEMMA NamesAllowed ==
  ASSUME NEW t, NEW ps, Valid(t, ps)
  PROVE  \A i \in DOMAIN ps : Canonical[ps[i].name] \notin Reserved
<1>1. \A i \in DOMAIN ps : Canonical[ps[i].name] \in NamesOf(ps)
  BY DEF NamesOf, ToSet
<1> QED BY <1>1 DEF Valid

\* A valid snapshot of rows of its route is written, so that only the address of another
\* route, or a row with the temporary name of another, makes a conflict.
LEMMA Outcomes ==
  ASSUME StoreInv, NEW q \in Nat, NEW t, NEW ps \in Seq(Draft)
  PROVE  /\ SaveOutcome(q, t, ps) \in {"stored", "refused", "conflict"}
         /\ SaveOutcome(q, t, ps) = "conflict" =>
              AddressTaken(t, q) \/ ~Untemporary(Own(q), ps)
         /\ SaveOutcome(q, t, ps) = "stored" =>
              /\ Valid(t, ps) /\ (q = 0 \/ q \in DOMAIN queries)
              /\ ~AddressTaken(t, q) /\ OwnIds(Own(q), ps)
              /\ Written(Target(q), Own(q), ps).ok = TRUE
<1>1. ASSUME Valid(t, ps), OwnIds(Own(q), ps)
      PROVE  /\ Written(Target(q), Own(q), ps).ok \in BOOLEAN
             /\ Untemporary(Own(q), ps) => Written(Target(q), Own(q), ps).ok = TRUE
  <2>1. Own(q) \in SUBSET Row /\ \A r \in Own(q) : r.id <= lastRow
    BY OwnRows DEF Keyed
  <2>2. \A i, j \in DOMAIN ps : Canonical[ps[i].name] = Canonical[ps[j].name] => i = j
    BY <1>1 DEF Valid
  <2>3. lastRow \in Nat
    BY DEF StoreInv
  <2>4. \A i \in DOMAIN ps : Canonical[ps[i].name] \notin Reserved
    BY <1>1, NamesAllowed
  <2> QED BY <1>1, <2>1, <2>2, <2>3, <2>4, WrittenRows
<1>2. CASE ~Valid(t, ps) \/ (q # 0 /\ q \notin DOMAIN queries)
  BY <1>2 DEF SaveOutcome
<1>3. CASE Valid(t, ps) /\ (q = 0 \/ q \in DOMAIN queries) /\ AddressTaken(t, q)
  BY <1>3 DEF SaveOutcome
<1>4. CASE Valid(t, ps) /\ (q = 0 \/ q \in DOMAIN queries) /\ ~AddressTaken(t, q)
  <2>1. SaveOutcome(q, t, ps) =
          IF ~OwnIds(Own(q), ps) THEN "refused"
          ELSE IF Written(Target(q), Own(q), ps).ok THEN "stored" ELSE "conflict"
    BY <1>4 DEF SaveOutcome
  <2>2. CASE ~OwnIds(Own(q), ps)
    BY <2>1, <2>2
  <2>3. CASE OwnIds(Own(q), ps)
    BY <1>1, <1>4, <2>1, <2>3
  <2> QED BY <2>2, <2>3
<1> QED BY <1>2, <1>3, <1>4

\* A save replaces the rows of its route by its snapshot, and no others.
LEMMA StoredRows ==
  ASSUME StoreInv, NEW q \in Nat, NEW t, NEW ps \in Seq(Draft),
         SaveOutcome(q, t, ps) = "stored", Store(q, t, ps)
  PROVE  LET k == Target(q) IN
         /\ k \in Nat \ {0} /\ (k \in DOMAIN queries => q = k)
         /\ Own(q) = Own(k) /\ lastRow' \in Nat /\ lastRow' >= lastRow
         /\ \E id \in [1..Len(ps) -> Nat \ {0}] :
              /\ rows' = {r \in rows : r.query # k} \cup Snapshot(k, ps, id)
              /\ \A j \in 1..Len(ps) : /\ id[j] <= lastRow'
                                       /\ ps[j].id # 0 => id[j] = ps[j].id
                                       /\ ps[j].id = 0 => id[j] > lastRow
              /\ \A i, j \in 1..Len(ps) : id[i] = id[j] => i = j
<1> DEFINE k == Target(q)
           w == Written(k, Own(q), ps)
<1>1. Valid(t, ps) /\ (q = 0 \/ q \in DOMAIN queries) /\ OwnIds(Own(q), ps) /\ w.ok = TRUE
  BY Outcomes
<1>2. \A r \in rows : r.query \in DOMAIN queries /\ r.query \in 1..lastQuery
  BY DEF StoreInv
<1>3. k \in Nat \ {0} /\ (k \in DOMAIN queries => q = k)
  BY <1>1 DEF Target, StoreInv
<1>4. Own(q) = Own(k)
  <2>1. CASE q = 0
    <3>1. k = lastQuery + 1 /\ lastQuery \in Nat
      BY <2>1 DEF Target, StoreInv
    <3>2. \A r \in rows : r.query # k /\ r.query # q
      BY <1>2, <2>1, <3>1
    <3> QED BY <3>2 DEF Own
  <2>2. CASE q # 0
    BY <2>2 DEF Target
  <2> QED BY <2>1, <2>2
<1>5. rows' = (rows \ Own(q)) \cup w.own /\ lastRow' = w.last
  BY DEF Store
<1>6. rows \ Own(q) = {r \in rows : r.query # k}
  BY <1>4 DEF Own
<1>7. Own(q) \in SUBSET Row /\ \A r \in Own(q) : r.id <= lastRow
  BY OwnRows DEF Keyed
<1>8. \A i, j \in DOMAIN ps : Canonical[ps[i].name] = Canonical[ps[j].name] => i = j
  BY <1>1 DEF Valid
<1>9. /\ lastRow \in Nat
      /\ \A i \in DOMAIN ps : Canonical[ps[i].name] \notin Reserved
  BY <1>1, NamesAllowed DEF StoreInv
<1> HIDE DEF k
<1>10. /\ w.last \in Nat /\ w.last >= lastRow
       /\ \E id \in [1..Len(ps) -> Nat \ {0}] :
            /\ w.own = Snapshot(k, ps, id)
            /\ \A j \in 1..Len(ps) : /\ id[j] <= w.last
                                     /\ ps[j].id # 0 => id[j] = ps[j].id
                                     /\ ps[j].id = 0 => id[j] > lastRow
            /\ \A i, j \in 1..Len(ps) : id[i] = id[j] => i = j
  BY <1>1, <1>7, <1>8, <1>9, WrittenRows
<1> HIDE DEF w
<1> QED BY <1>3, <1>4, <1>5, <1>6, <1>10 DEF k

-----------------------------------------------------------------------------
(* What an operation of the store may do to the tables *)

\* Ids are never given twice, and a row never passes to another route.
Grows == /\ lastQuery' >= lastQuery /\ lastRow' >= lastRow
         /\ \A r \in rows' : \/ r.id > lastRow
                             \/ \E old \in rows : old.id = r.id /\ old.query = r.query

\* The keys of the tables, as TypeOK states them.
LEMMA KeysHold ==
  ASSUME StoreInv
  PROVE  Keys
<1>1. \A q \in DOMAIN queries : queries[q] \in Accepted /\ ~AddressTaken(queries[q], q)
  BY DEF AddressTaken, StoreInv
<1>2. \A r \in rows : /\ r.id \in 1..lastRow /\ r.query \in DOMAIN queries
                      /\ r.name \in Name /\ r.source \in Source /\ r.position \in Nat
  BY DEF Row, StoreInv
<1>3. \A r \in rows : /\ ~Clashes(Own(r.query), r.id, r.name)
                      /\ \A other \in rows : other.id = r.id => other = r
  BY DEF Clashes, Own, StoreInv
<1> QED BY <1>1, <1>2, <1>3 DEF Keys, StoreInv

\* A new route.
LEMMA CreateQueryKeeps ==
  ASSUME StoreInv, NEW t \in Text, CreateQuery(t)
  PROVE  StoreInv' /\ Grows
<1> DEFINE new == lastQuery + 1
<1>1. /\ t \in Accepted /\ lastQuery' = new /\ lastRow' = lastRow /\ rows' = rows
      /\ reorder' = reorder
      /\ queries' = [p \in DOMAIN queries \cup {new} |-> IF p = new THEN t ELSE queries[p]]
      /\ \A p \in DOMAIN queries : p # 0 => Address[queries[p]] # Address[t]
  BY DEF CreateQuery, AddressTaken
<1>2. new \in Nat /\ new \notin DOMAIN queries /\ 0 \notin DOMAIN queries
  BY DEF StoreInv
<1>3. DOMAIN queries' = DOMAIN queries \cup {new} /\ queries' \in [DOMAIN queries' -> Text]
  BY <1>1 DEF StoreInv
<1>4. queries'[new] = t /\ \A p \in DOMAIN queries : queries'[p] = queries[p]
  BY <1>1, <1>2
<1>5. \A p, q \in DOMAIN queries' : Address[queries'[p]] = Address[queries'[q]] => p = q
  BY <1>1, <1>2, <1>3, <1>4 DEF StoreInv
<1>6. \A q \in DOMAIN queries' : queries'[q] \in Accepted
  BY <1>1, <1>3, <1>4 DEF StoreInv
<1>7. DOMAIN queries' \subseteq 1..lastQuery'
  BY <1>1, <1>2, <1>3 DEF StoreInv
<1>8. \A r \in rows' : r \in Row /\ r.id <= lastRow' /\ r.query \in DOMAIN queries'
  BY <1>1, <1>3 DEF StoreInv
<1> HIDE DEF new
<1>9. StoreInv'
  BY <1>1, <1>2, <1>3, <1>5, <1>6, <1>7, <1>8 DEF StoreInv
<1>10. Grows
  BY <1>1 DEF Grows, StoreInv, new
<1> QED BY <1>9, <1>10

\* Another text for a route.
LEMMA UpdateQueryKeeps ==
  ASSUME StoreInv, NEW t \in Text, NEW q \in DOMAIN queries, UpdateQuery(q, t)
  PROVE  StoreInv' /\ Grows
<1>1. /\ t \in Accepted /\ lastQuery' = lastQuery /\ lastRow' = lastRow /\ rows' = rows
      /\ reorder' = reorder /\ queries' = [queries EXCEPT ![q] = t]
      /\ \A p \in DOMAIN queries : p # q => Address[queries[p]] # Address[t]
  BY DEF UpdateQuery, AddressTaken
<1>2. DOMAIN queries' = DOMAIN queries /\ queries' \in [DOMAIN queries' -> Text]
  BY <1>1 DEF StoreInv
<1>3. queries'[q] = t /\ \A p \in DOMAIN queries : p # q => queries'[p] = queries[p]
  BY <1>1 DEF StoreInv
<1>4. \A p, r \in DOMAIN queries' : Address[queries'[p]] = Address[queries'[r]] => p = r
  BY <1>1, <1>2, <1>3 DEF StoreInv
<1>5. \A p \in DOMAIN queries' : queries'[p] \in Accepted
  BY <1>1, <1>2, <1>3 DEF StoreInv
<1>6. StoreInv'
  BY <1>1, <1>2, <1>4, <1>5 DEF StoreInv
<1>7. Grows
  BY <1>1 DEF Grows, StoreInv
<1> QED BY <1>6, <1>7

\* A route goes with its rows.
LEMMA DeleteQueryKeeps ==
  ASSUME StoreInv, NEW q, DeleteQuery(q)
  PROVE  StoreInv' /\ Grows
<1>1. /\ lastQuery' = lastQuery /\ lastRow' = lastRow /\ reorder' = reorder
      /\ rows' = {r \in rows : r.query # q}
      /\ DOMAIN queries' = DOMAIN queries \ {q}
      /\ \A p \in DOMAIN queries' : queries'[p] = queries[p]
      /\ queries' = [p \in DOMAIN queries' |-> queries'[p]]
  BY DEF DeleteQuery, Own
<1>2. queries' \in [DOMAIN queries' -> Text]
  BY <1>1 DEF StoreInv
<1>3. \A r \in rows' : r \in Row /\ r.id <= lastRow' /\ r.query \in DOMAIN queries'
  BY <1>1 DEF StoreInv
<1>4. \A p, r \in DOMAIN queries' : Address[queries'[p]] = Address[queries'[r]] => p = r
  BY <1>1 DEF StoreInv
<1>5. \A r, s \in rows' : r.id = s.id \/ (r.query = s.query /\ r.name = s.name) => r = s
  BY <1>1 DEF StoreInv
<1>6. StoreInv'
  BY <1>1, <1>2, <1>3, <1>4, <1>5 DEF StoreInv
<1>7. Grows
  BY <1>1 DEF Grows, StoreInv
<1> QED BY <1>6, <1>7

\* One more parameter, with an id that no row has had.
LEMMA AddParameterKeeps ==
  ASSUME StoreInv, NEW q, NEW n \in Name, NEW source \in Source, NEW position \in Nat,
         AddParameter(q, n, source, position)
  PROVE  StoreInv' /\ Grows
<1> DEFINE new == [id |-> lastRow + 1, query |-> q, name |-> Canonical[n],
                   source |-> source, position |-> position]
<1>1. /\ q \in DOMAIN queries /\ queries' = queries /\ lastQuery' = lastQuery
      /\ reorder' = reorder /\ lastRow' = lastRow + 1 /\ rows' = rows \cup {new}
  BY DEF AddParameter, NextRow
<1>2. /\ new \in Row /\ new.id = lastRow + 1 /\ new.query = q /\ new.name = Canonical[n]
  BY <1>1, StoreAssumption DEF Row, StoreInv
<1>3. \A r \in rows : r.query = q => r.name # Canonical[n]
  <2>1. \A r \in rows : r.id # 0
    BY DEF StoreInv, Row
  <2> QED BY <2>1 DEF AddParameter, Clashes, Own
<1>4. \A r \in rows : r \in Row /\ r.id <= lastRow /\ lastRow \in Nat /\ r.id \in Nat
  BY DEF StoreInv, Row
<1> HIDE DEF new
<1>5. \A r \in rows' : r \in Row /\ r.id <= lastRow' /\ r.query \in DOMAIN queries'
  BY <1>1, <1>2, <1>4 DEF StoreInv
<1>6. \A r, s \in rows' : r.id = s.id \/ (r.query = s.query /\ r.name = s.name) => r = s
  BY <1>1, <1>2, <1>3, <1>4 DEF StoreInv
<1>7. StoreInv'
  BY <1>1, <1>5, <1>6 DEF StoreInv
<1>8. Grows
  BY <1>1, <1>2, <1>4 DEF Grows, StoreInv
<1> QED BY <1>7, <1>8

\* Another name, source or position for a parameter.
LEMMA UpdateParameterKeeps ==
  ASSUME StoreInv, NEW r \in rows, NEW n \in Name, NEW source \in Source, NEW position \in Nat,
         UpdateParameter(r, n, source, position)
  PROVE  StoreInv' /\ Grows
<1> DEFINE new == [r EXCEPT !.name = Canonical[n], !.source = source, !.position = position]
<1>1. /\ queries' = queries /\ lastQuery' = lastQuery /\ lastRow' = lastRow
      /\ reorder' = reorder /\ rows' = (rows \ {r}) \cup {new}
  BY DEF UpdateParameter
<1>2. r \in Row
  BY DEF StoreInv
<1>3. new \in Row /\ new.id = r.id /\ new.query = r.query /\ new.name = Canonical[n]
  BY <1>2, StoreAssumption DEF Row
<1>4. \A s \in rows : s.query = r.query /\ s.id # r.id => s.name # Canonical[n]
  BY DEF UpdateParameter, Clashes, Own
<1> HIDE DEF new
<1>5. \A s \in rows' : s \in Row /\ s.id <= lastRow' /\ s.query \in DOMAIN queries'
  BY <1>1, <1>3 DEF StoreInv
<1>6. \A s, u \in rows' : s.id = u.id \/ (s.query = u.query /\ s.name = u.name) => s = u
  <2>1. \A s \in rows \ {r} : s.id # r.id
    BY DEF StoreInv
  <2>2. \A s, u \in rows \ {r} : s.id = u.id \/ (s.query = u.query /\ s.name = u.name) => s = u
    BY DEF StoreInv
  <2>3. \A s \in rows \ {r} : s.id # new.id /\ ~(s.query = new.query /\ s.name = new.name)
    BY <1>3, <1>4, <2>1
  <2> QED BY <1>1, <2>2, <2>3
<1>7. StoreInv'
  BY <1>1, <1>5, <1>6 DEF StoreInv
<1>8. Grows
  BY <1>1, <1>3 DEF Grows, StoreInv
<1> QED BY <1>7, <1>8

\* One parameter less.
LEMMA DeleteParameterKeeps ==
  ASSUME StoreInv, NEW r, DeleteParameter(r)
  PROVE  StoreInv' /\ Grows
<1>1. /\ queries' = queries /\ lastQuery' = lastQuery /\ lastRow' = lastRow
      /\ reorder' = reorder /\ rows' = rows \ {r}
  BY DEF DeleteParameter
<1>2. StoreInv'
  BY <1>1 DEF StoreInv
<1>3. Grows
  BY <1>1 DEF Grows, StoreInv
<1> QED BY <1>2, <1>3

\* The ids of a new order are read.
LEMMA CheckOrderKeeps ==
  ASSUME StoreInv, NEW q, NEW order, DOMAIN order \subseteq Nat, CheckOrder(q, order)
  PROVE  StoreInv' /\ Grows
<1>1. /\ queries' = queries /\ lastQuery' = lastQuery /\ lastRow' = lastRow /\ rows' = rows
      /\ reorder'.order = order
  BY DEF CheckOrder
<1>2. StoreInv'
  BY <1>1 DEF StoreInv
<1>3. Grows
  BY <1>1 DEF Grows, StoreInv
<1> QED BY <1>2, <1>3

\* New positions change no key.
LEMMA WriteOrderKeeps ==
  ASSUME StoreInv, WriteOrder
  PROVE  StoreInv' /\ Grows
<1> DEFINE order == reorder.order
           moved == [r \in rows |-> IF r.id \in ToSet(order)
                                    THEN [r EXCEPT !.position =
                                            CHOOSE i \in DOMAIN order : order[i] = r.id]
                                    ELSE r]
<1>1. /\ queries' = queries /\ lastQuery' = lastQuery /\ lastRow' = lastRow
      /\ reorder' = NoReorder /\ rows' = {moved[r] : r \in rows}
  BY DEF WriteOrder
<1>2. \A r \in rows : /\ moved[r] \in Row /\ moved[r].id = r.id /\ moved[r].query = r.query
                      /\ moved[r].name = r.name
  <2> SUFFICES ASSUME NEW r \in rows
               PROVE  /\ moved[r] \in Row /\ moved[r].id = r.id /\ moved[r].query = r.query
                      /\ moved[r].name = r.name
    OBVIOUS
  <2>1. r \in Row
    BY DEF StoreInv
  <2>2. CASE r.id \in ToSet(order)
    <3> DEFINE place == CHOOSE i \in DOMAIN order : order[i] = r.id
    <3>1. \E i \in DOMAIN order : order[i] = r.id
      BY <2>2 DEF ToSet
    <3>2. place \in DOMAIN order
      BY <3>1
    <3>3. place \in Nat
      BY <3>2 DEF StoreInv
    <3>4. moved[r] = [r EXCEPT !.position = place]
      BY <2>2
    <3> HIDE DEF place, moved
    <3> QED BY <2>1, <3>3, <3>4 DEF Row
  <2>3. CASE r.id \notin ToSet(order)
    BY <2>1, <2>3
  <2> QED BY <2>2, <2>3
<1> HIDE DEF moved
<1>3. \A r \in rows' : r \in Row /\ r.id <= lastRow' /\ r.query \in DOMAIN queries'
  BY <1>1, <1>2 DEF StoreInv
<1>4. \A r, s \in rows' : r.id = s.id \/ (r.query = s.query /\ r.name = s.name) => r = s
  BY <1>1, <1>2 DEF StoreInv
<1>5. DOMAIN reorder'.order = {}
  BY <1>1 DEF NoReorder
<1>6. StoreInv'
  BY <1>1, <1>3, <1>4, <1>5 DEF StoreInv
<1>7. Grows
  BY <1>1, <1>2 DEF Grows, StoreInv
<1> QED BY <1>6, <1>7

\* A save: the snapshot takes the place of the rows of its route.
LEMMA StoreKeeps ==
  ASSUME StoreInv, NEW q \in Nat, NEW t \in Text, NEW ps \in Seq(Draft),
         SaveOutcome(q, t, ps) = "stored", Store(q, t, ps)
  PROVE  StoreInv' /\ Grows
<1> DEFINE k == Target(q)
<1>1. /\ k \in Nat \ {0} /\ (k \in DOMAIN queries => q = k) /\ Own(q) = Own(k)
      /\ lastRow' \in Nat /\ lastRow' >= lastRow
  BY StoredRows
<1>2. PICK id \in [1..Len(ps) -> Nat \ {0}] :
        /\ rows' = {r \in rows : r.query # k} \cup Snapshot(k, ps, id)
        /\ \A j \in 1..Len(ps) : /\ id[j] <= lastRow'
                                 /\ ps[j].id # 0 => id[j] = ps[j].id
                                 /\ ps[j].id = 0 => id[j] > lastRow
        /\ \A i, j \in 1..Len(ps) : id[i] = id[j] => i = j
  BY StoredRows
<1>3. Valid(t, ps) /\ (q = 0 \/ q \in DOMAIN queries) /\ ~AddressTaken(t, q) /\ OwnIds(Own(q), ps)
  BY Outcomes
<1>4. /\ queries' = [p \in DOMAIN queries \cup {k} |-> IF p = k THEN t ELSE queries[p]]
      /\ lastQuery' = (IF q = 0 THEN k ELSE lastQuery) /\ reorder' = reorder
  BY DEF Store
<1>5. lastQuery' \in Nat /\ lastQuery' >= lastQuery /\ k \in 1..lastQuery'
  BY <1>1, <1>3, <1>4 DEF Target, StoreInv
<1>6. \A p \in DOMAIN queries : p # k => Address[queries[p]] # Address[t]
  <2>1. \A p \in DOMAIN queries \ {q} : Address[queries[p]] # Address[t]
    BY <1>3 DEF AddressTaken
  <2>2. \A p \in DOMAIN queries : p # k => p # q
    BY DEF Target, StoreInv
  <2> QED BY <2>1, <2>2
<1> HIDE DEF k
<1>7. /\ DOMAIN queries' = DOMAIN queries \cup {k} /\ queries'[k] = t
      /\ \A p \in DOMAIN queries : p # k => queries'[p] = queries[p]
  BY <1>4
<1>8. /\ queries' \in [DOMAIN queries' -> Text] /\ DOMAIN queries' \subseteq 1..lastQuery'
      /\ \A p \in DOMAIN queries' : queries'[p] \in Accepted
  <2>1. t \in Accepted
    BY <1>3 DEF Valid
  <2>2. \A p \in DOMAIN queries : queries[p] \in Text /\ queries[p] \in Accepted
                                  /\ p \in 1..lastQuery
    BY DEF StoreInv
  <2>3. \A p \in DOMAIN queries' : queries'[p] \in Text /\ queries'[p] \in Accepted
                                   /\ p \in 1..lastQuery'
    BY <1>5, <1>7, <2>1, <2>2 DEF StoreInv
  <2>4. queries' = [p \in DOMAIN queries' |-> queries'[p]]
    BY <1>4
  <2> QED BY <2>3, <2>4
<1>9. \A p, r \in DOMAIN queries' : Address[queries'[p]] = Address[queries'[r]] => p = r
  BY <1>6, <1>7 DEF StoreInv
<1>10. /\ Snapshot(k, ps, id) \subseteq Row
       /\ \A r, s \in Snapshot(k, ps, id) : r.id = s.id \/ r.name = s.name => r = s
  <2>1. \A i, j \in DOMAIN ps : Canonical[ps[i].name] = Canonical[ps[j].name] => i = j
    BY <1>3 DEF Valid
  <2> QED BY <1>1, <1>2, <2>1, SnapshotOrder DEF Keyed
<1>11. \A r \in Snapshot(k, ps, id) : /\ r.query = k /\ r.id \in Nat /\ r.id <= lastRow'
                                      /\ \/ r.id > lastRow
                                         \/ \E old \in rows : old.id = r.id /\ old.query = k
  <2> SUFFICES ASSUME NEW j \in 1..Len(ps)
               PROVE  /\ RowAt(k, ps, id, j).query = k /\ RowAt(k, ps, id, j).id = id[j]
                      /\ id[j] \in Nat /\ id[j] <= lastRow'
                      /\ \/ id[j] > lastRow
                         \/ \E old \in rows : old.id = id[j] /\ old.query = k
    BY DEF Snapshot
  <2>1. DOMAIN ps = 1..Len(ps)
    BY LenProperties
  <2>2. ASSUME ps[j].id # 0 PROVE \E old \in rows : old.id = id[j] /\ old.query = k
    <3>1. ps[j].id \in Retained(ps)
      BY <2>1, <2>2 DEF Retained
    <3>2. PICK old \in Own(k) : old.id = ps[j].id
      BY <1>1, <1>3, <3>1 DEF OwnIds
    <3> QED BY <1>2, <2>2, <3>2 DEF Own
  <2> QED BY <1>2, <2>2 DEF RowAt
<1>12. \A r \in rows : r \in Row /\ r.id <= lastRow /\ r.query \in DOMAIN queries /\ r.id \in Nat
  BY DEF StoreInv, Row
<1>13. lastRow \in Nat
  BY DEF StoreInv
<1>14. \A r \in rows' : r \in Row /\ r.id <= lastRow' /\ r.query \in DOMAIN queries'
  <2>1. \A r \in rows : r.id <= lastRow'
    BY <1>1, <1>12, <1>13
  <2> QED BY <1>2, <1>7, <1>10, <1>11, <1>12, <2>1
<1>15. \A r, s \in rows' : r.id = s.id \/ (r.query = s.query /\ r.name = s.name) => r = s
  <2>1. \A r, s \in rows : r.id = s.id \/ (r.query = s.query /\ r.name = s.name) => r = s
    BY DEF StoreInv
  <2>2. ASSUME NEW r \in rows, r.query # k, NEW s \in Snapshot(k, ps, id)
        PROVE  r.id # s.id /\ r.query # s.query
    <3>1. s.query = k /\ s.id \in Nat
          /\ (s.id > lastRow \/ \E old \in rows : old.id = s.id /\ old.query = k)
      BY <1>11
    <3> QED BY <1>12, <1>13, <2>1, <2>2, <3>1
  <2> QED BY <1>2, <1>10, <2>1, <2>2
<1>16. StoreInv'
  BY <1>1, <1>4, <1>5, <1>8, <1>9, <1>14, <1>15 DEF StoreInv
<1>17. Grows
  BY <1>1, <1>2, <1>5, <1>11 DEF Grows
<1> QED BY <1>16, <1>17

-----------------------------------------------------------------------------
(* Detection *)

\* What is detected in a text are names, with sources.
LEMMA Found ==
  ASSUME NEW t \in Text
  PROVE  /\ Len(Candidates[t]) \in Nat
         /\ \A i \in 1..Len(Candidates[t]) : /\ Candidates[t][i].name \in Name
                                             /\ Candidates[t][i].source \in Source
         /\ Detected(t) \subseteq Name
<1>1. Candidates[t] \in Seq([name : Name, source : Source])
  BY StoreAssumption DEF Source
<1>2. Len(Candidates[t]) \in Nat /\ DOMAIN Candidates[t] = 1..Len(Candidates[t])
  BY <1>1, LenProperties
<1>3. \A i \in 1..Len(Candidates[t]) : Candidates[t][i] \in [name : Name, source : Source]
  BY <1>1, ElementOfSeq
<1>4. Detected(t) \subseteq Name
  BY <1>2, <1>3 DEF Detected, ToSet
<1> QED BY <1>2, <1>3, <1>4

\* The drafts that were there, with canonical names.
LEMMA RenamedDrafts ==
  ASSUME NEW ps \in Seq(Draft), NEW t
  PROVE  /\ Renamed(ps, t) \in Seq(Draft) /\ Len(Renamed(ps, t)) = Len(ps)
         /\ \A i \in 1..Len(ps) :
              /\ Renamed(ps, t)[i].id = ps[i].id
              /\ Renamed(ps, t)[i].name = Canonical[ps[i].name]
              /\ \/ Renamed(ps, t)[i].source = ps[i].source
                 \/ /\ Renamed(ps, t)[i].source = "path"
                    /\ Renamed(ps, t)[i].name \in PathNames(t)
<1> DEFINE n == Len(ps)
           new == Renamed(ps, t)
<1>1. n \in Nat /\ DOMAIN ps = 1..n /\ \A i \in 1..n : ps[i] \in Draft
  BY LenProperties, ElementOfSeq
<1> HIDE DEF n
<1>2. DOMAIN new = 1..n /\ new = [i \in 1..n |-> new[i]]
  BY <1>1 DEF Renamed
<1>3. ASSUME NEW i \in 1..n
      PROVE  /\ new[i] \in Draft /\ new[i].id = ps[i].id /\ new[i].name = Canonical[ps[i].name]
             /\ \/ new[i].source = ps[i].source
                \/ new[i].source = "path" /\ new[i].name \in PathNames(t)
  <2>1. PICK source \in {ps[i].source} \cup {"path"} :
          /\ new[i] = [ps[i] EXCEPT !.name = Canonical[ps[i].name], !.source = source]
          /\ source # ps[i].source => Canonical[ps[i].name] \in PathNames(t)
    BY <1>1, <1>3 DEF Renamed
  <2>2. ps[i] \in Draft /\ Canonical[ps[i].name] \in Name /\ source \in Source
    BY <1>1, <1>3, StoreAssumption DEF Draft, Source
  <2> HIDE DEF new
  <2> QED BY <2>1, <2>2 DEF Draft
<1> HIDE DEF new
<1>4. new \in [1..n -> Draft]
  BY <1>2, <1>3
<1>5. new \in Seq(Draft) /\ Len(new) = n
  BY <1>1, <1>4, SeqDef, LenProperties
<1> QED BY <1>3, <1>5 DEF n, new

\* Merged goes from drafts to drafts, a candidate at a time.
LEMMA MergedSteps ==
  ASSUME NEW ps, NEW t, NEW sup, Len(Candidates[t]) \in Nat
  PROVE  \E m : /\ m[0] = Renamed(ps, t)
                /\ \A i \in 1..Len(Candidates[t]) :
                     \/ m[i] = m[i - 1]
                     \/ m[i] = Append(m[i - 1], [id |-> 0, name |-> Candidates[t][i].name,
                                                source |-> Candidates[t][i].source])
                /\ Merged(ps, t, sup) = m[Len(Candidates[t])]
<1> DEFINE n == Len(Candidates[t])
           start == Renamed(ps, t)
           more(m, i) == IF Candidates[t][i].name \in NamesOf(ps) \cup sup THEN m
                         ELSE Append(m, [id |-> 0, name |-> Candidates[t][i].name,
                                         source |-> Candidates[t][i].source])
           Loop(m, k) == m = [i \in 0..k |-> IF i = 0 THEN start ELSE more(m[i - 1], i)]
           reached == {k \in 0..n : \E m : Loop(m, k)}
<1> HIDE DEF more
<1>1. 0 \in reached
  <2>1. Loop([i \in 0..0 |-> start], 0)
    OBVIOUS
  <2> HIDE DEF Loop
  <2> QED BY <2>1
<1>2. ASSUME NEW k \in 0..n - 1, k \in reached PROVE k + 1 \in reached
  <2>1. PICK m : Loop(m, k)
    BY <1>2
  <2> DEFINE u == [i \in 0..k + 1 |-> IF i = k + 1 THEN more(m[k], k + 1) ELSE m[i]]
  <2>2. \A i \in 0..k + 1 : u[i] = IF i = 0 THEN start ELSE more(u[i - 1], i)
    <3> SUFFICES ASSUME NEW i \in 0..k + 1
                 PROVE  u[i] = IF i = 0 THEN start ELSE more(u[i - 1], i)
      OBVIOUS
    <3>1. CASE i = k + 1
      <4>1. i # 0 /\ k \in 0..k + 1 /\ k # k + 1 /\ i - 1 = k
        BY <3>1
      <4>2. u[i] = more(m[k], i) /\ u[i - 1] = m[k]
        BY <3>1, <4>1
      <4> QED BY <4>1, <4>2
    <3>2. CASE i # k + 1
      <4>1. i \in 0..k
        BY <3>2
      <4>2. m[i] = IF i = 0 THEN start ELSE more(m[i - 1], i)
        BY <2>1, <4>1
      <4>3. i # 0 => i - 1 \in 0..k + 1 /\ i - 1 # k + 1
        BY <4>1
      <4> QED BY <3>2, <4>1, <4>2, <4>3
    <3> QED BY <3>1, <3>2
  <2>3. Loop(u, k + 1)
    <3>1. DOMAIN u = 0..k + 1 /\ u = [i \in 0..k + 1 |-> u[i]]
      OBVIOUS
    <3> HIDE DEF u
    <3> QED BY <2>2, <3>1
  <2> HIDE DEF Loop, u
  <2> QED BY <2>3
<1>3. n \in reached
  <2> HIDE DEF reached
  <2>1. 0..n \subseteq reached
    BY <1>1, <1>2, Steps
  <2> QED BY <2>1
<1> DEFINE m == CHOOSE m : Loop(m, n)
<1>4. Loop(m, n)
  <2> HIDE DEF Loop
  <2> QED BY <1>3
<1>5. Merged(ps, t, sup) = m[n]
  BY DEF Merged, more
<1> HIDE DEF m
<1>6. m[0] = start /\ \A i \in 1..n : m[i] = more(m[i - 1], i)
  BY <1>4
<1>7. \A i \in 1..n : \/ m[i] = m[i - 1]
                      \/ m[i] = Append(m[i - 1], [id |-> 0, name |-> Candidates[t][i].name,
                                                 source |-> Candidates[t][i].source])
  BY <1>6 DEF more
<1> QED BY <1>5, <1>6, <1>7

\* Detection appends drafts without an id to the renamed ones.
LEMMA MergedDrafts ==
  ASSUME NEW ps \in Seq(Draft), NEW t \in Text, NEW sup
  PROVE  LET new == Merged(ps, t, sup) IN
         /\ new \in Seq(Draft) /\ Len(new) >= Len(ps)
         /\ \A i \in 1..Len(ps) : new[i] = Renamed(ps, t)[i]
         /\ \A i \in DOMAIN new : i > Len(ps) => new[i].id = 0
<1> DEFINE n == Len(Candidates[t])
           start == Renamed(ps, t)
<1>1. n \in Nat /\ Len(ps) \in Nat
  BY Found, LenProperties
<1>2. PICK m : /\ m[0] = start
               /\ \A i \in 1..n :
                    \/ m[i] = m[i - 1]
                    \/ m[i] = Append(m[i - 1], [id |-> 0, name |-> Candidates[t][i].name,
                                               source |-> Candidates[t][i].source])
               /\ Merged(ps, t, sup) = m[n]
  BY <1>1, MergedSteps
<1> DEFINE Good(s) == /\ s \in Seq(Draft) /\ Len(s) >= Len(ps)
                      /\ \A i \in 1..Len(ps) : s[i] = start[i]
                      /\ \A i \in 1..Len(s) : i > Len(ps) => s[i].id = 0
<1>3. start \in Seq(Draft) /\ Len(start) = Len(ps)
  BY RenamedDrafts
<1> HIDE DEF n, start
<1>4. Good(m[0])
  BY <1>1, <1>2, <1>3
<1>5. ASSUME NEW i \in 0..n - 1, Good(m[i]) PROVE Good(m[i + 1])
  <2>1. i + 1 \in 1..n /\ (i + 1) - 1 = i
    BY <1>1
  <2> DEFINE added == [id |-> 0, name |-> Candidates[t][i + 1].name,
                       source |-> Candidates[t][i + 1].source]
  <2>2. m[i + 1] = m[i] \/ m[i + 1] = Append(m[i], added)
    BY <1>2, <2>1
  <2>3. added \in Draft /\ added.id = 0
    BY <2>1, Found DEF Draft, n
  <2> HIDE DEF added
  <2>4. CASE m[i + 1] = Append(m[i], added)
    <3> DEFINE s == m[i]
               u == Append(s, added)
    <3>1. s \in Seq(Draft) /\ Len(s) \in Nat
      BY <1>5, LenProperties
    <3>2. /\ u \in Seq(Draft) /\ Len(u) = Len(s) + 1
          /\ \A j \in 1..Len(s) : u[j] = s[j]
          /\ u[Len(s) + 1] = added
      <4> HIDE DEF s
      <4> QED BY <2>3, <3>1, AppendProperties
    <3> HIDE DEF s, u
    <3>3. \A j \in 1..Len(ps) : j \in 1..Len(s)
      BY <1>1, <1>5, <3>1 DEF s
    <3>4. \A j \in 1..Len(u) : j \in 1..Len(s) \/ j = Len(s) + 1
      BY <3>1, <3>2
    <3>5. /\ Len(s) >= Len(ps) /\ \A j \in 1..Len(ps) : s[j] = start[j]
          /\ \A j \in 1..Len(s) : j > Len(ps) => s[j].id = 0
      BY <1>5 DEF s
    <3>6. u \in Seq(Draft) /\ Len(u) >= Len(ps)
      BY <1>1, <3>1, <3>2, <3>5
    <3>7. \A j \in 1..Len(ps) : u[j] = start[j]
      BY <3>2, <3>3, <3>5
    <3>8. \A j \in 1..Len(u) : j > Len(ps) => u[j].id = 0
      BY <2>3, <3>2, <3>4, <3>5
    <3>9. Good(u)
      BY <3>6, <3>7, <3>8
    <3> QED BY <2>4, <3>9 DEF u, s
  <2> QED BY <1>5, <2>2, <2>4
<1>6. Good(m[n])
  <2> DEFINE good == {i \in 0..n : Good(m[i])}
  <2> HIDE DEF Good
  <2>1. 0 \in good /\ \A i \in 0..n - 1 : i \in good => i + 1 \in good
    BY <1>1, <1>4, <1>5
  <2> HIDE DEF good
  <2>2. 0..n \subseteq good
    BY <1>1, <2>1, Steps
  <2> QED BY <1>1, <2>2 DEF good
<1>7. DOMAIN m[n] = 1..Len(m[n])
  BY <1>6, LenProperties
<1> QED BY <1>2, <1>6, <1>7 DEF start

\* Synchronizing an editor gives it what its text names, and no draft an id that it had
\* not; the draft at each position stays there.
LEMMA SynchronizedEditor ==
  ASSUME NEW ed \in EditorState
  PROVE  LET new == Synchronized(ed) IN
         /\ new \in EditorState /\ new.detected = Detected(ed.text)
         /\ new.query = ed.query /\ new.text = ed.text
         /\ new.generation = ed.generation /\ new.timers = ed.timers
         /\ \A i \in DOMAIN new.drafts : \/ new.drafts[i].id = 0
                                         \/ /\ i \in DOMAIN ed.drafts
                                            /\ new.drafts[i].id = ed.drafts[i].id
<1> DEFINE sup == ed.suppressed \cap Detected(ed.text)
           ps == Merged(ed.drafts, ed.text, sup)
           new == Synchronized(ed)
<1>1. ed.drafts \in Seq(Draft) /\ ed.text \in Text /\ ed.suppressed \subseteq Name
  BY DEF EditorState
<1>2. Detected(ed.text) \subseteq Name
  BY <1>1, Found
<1>3. /\ ps \in Seq(Draft) /\ Len(ps) >= Len(ed.drafts)
      /\ \A i \in 1..Len(ed.drafts) : ps[i] = Renamed(ed.drafts, ed.text)[i]
      /\ \A i \in DOMAIN ps : i > Len(ed.drafts) => ps[i].id = 0
  BY <1>1, MergedDrafts
<1>4. /\ DOMAIN ps = 1..Len(ps) /\ DOMAIN ed.drafts = 1..Len(ed.drafts)
      /\ Len(ps) \in Nat /\ Len(ed.drafts) \in Nat
  BY <1>1, <1>3, LenProperties
<1>5. \A i \in 1..Len(ed.drafts) : Renamed(ed.drafts, ed.text)[i].id = ed.drafts[i].id
  BY <1>1, RenamedDrafts
<1>6. \A i \in DOMAIN ps : ps[i].id = 0 \/ (i \in DOMAIN ed.drafts /\ ps[i].id = ed.drafts[i].id)
  <2> SUFFICES ASSUME NEW i \in DOMAIN ps, ps[i].id # 0
               PROVE  i \in DOMAIN ed.drafts /\ ps[i].id = ed.drafts[i].id
    OBVIOUS
  <2> HIDE DEF ps
  <2>1. i \in 1..Len(ed.drafts)
    BY <1>3, <1>4
  <2>2. ps[i].id = ed.drafts[i].id
    BY <1>3, <1>5, <2>1
  <2> QED BY <1>4, <2>1, <2>2
<1>7. new = [ed EXCEPT !.detected = Detected(ed.text), !.suppressed = sup, !.drafts = ps]
  BY DEF Synchronized
<1> HIDE DEF ps, new
<1>8. /\ new \in EditorState /\ new.detected = Detected(ed.text) /\ new.drafts = ps
      /\ new.query = ed.query /\ new.text = ed.text
      /\ new.generation = ed.generation /\ new.timers = ed.timers
  BY <1>2, <1>3, <1>7 DEF EditorState
<1> QED BY <1>6, <1>8 DEF new

-----------------------------------------------------------------------------
(* Editors over tables that change *)

\* An editor that is open is not the closed one.
LEMMA OpenEditor ==
  ASSUME Sessions, NEW s \in Session, editor[s].open
  PROVE  LET ed == editor[s] IN
         /\ ed \in EditorState /\ ed.query <= lastQuery /\ ed.timers \subseteq 1..ed.generation
         /\ \/ ed.generation \in ed.timers
            \/ ed.timers = {} /\ ed.detected = Detected(ed.text)
         /\ Owned(ed.drafts, ed.query, lastRow, rows)
BY DEF Sessions, Sound, Closed

\* Nothing happens in the store.
LEMMA StoreRests ==
  ASSUME StoreInv, UNCHANGED storeVars
  PROVE  StoreInv' /\ Grows
<1>1. StoreInv'
  BY DEF StoreInv
<1>2. Grows
  BY DEF Grows, StoreInv
<1> QED BY <1>1, <1>2

\* An editor stays sound whatever happens in the store.
LEMMA SoundStays ==
  ASSUME StoreInv, StoreInv', Grows,
         NEW ed, Sound(ed, lastQuery, lastRow, rows)
  PROVE  Sound(ed, lastQuery', lastRow', rows')
<1>1. CASE ed = Closed
  BY <1>1 DEF Sound
<1>2. CASE ed # Closed
  <2>1. ed \in EditorState /\ ed.query <= lastQuery /\ Owned(ed.drafts, ed.query, lastRow, rows)
    BY <1>2 DEF Sound
  <2>2. lastQuery \in Nat /\ lastQuery' \in Nat /\ lastRow \in Nat /\ lastRow' \in Nat
    BY DEF StoreInv
  <2>3. ed.query <= lastQuery'
    BY <2>1, <2>2 DEF Grows, EditorState
  <2>4. \A i \in DOMAIN ed.drafts : ed.drafts[i].id \in Nat
    <3>1. ed.drafts \in Seq(Draft)
      BY <2>1 DEF EditorState
    <3>2. \A i \in DOMAIN ed.drafts : ed.drafts[i] \in Draft
      BY <3>1, ElementOfSeq, LenProperties
    <3> QED BY <3>2 DEF Draft
  <2>5. Owned(ed.drafts, ed.query, lastRow', rows')
    <3> SUFFICES ASSUME NEW i \in DOMAIN ed.drafts
                 PROVE  /\ ed.drafts[i].id <= lastRow'
                        /\ \A r \in rows' : r.id = ed.drafts[i].id => r.query = ed.query
      BY DEF Owned
    <3>1. ed.drafts[i].id <= lastRow /\ \A r \in rows : r.id = ed.drafts[i].id => r.query = ed.query
      BY <2>1 DEF Owned
    <3>2. ed.drafts[i].id <= lastRow'
      BY <2>2, <2>4, <3>1 DEF Grows
    <3>3. ASSUME NEW r \in rows', r.id = ed.drafts[i].id PROVE r.query = ed.query
      <4>1. ~(r.id > lastRow)
        BY <2>2, <2>4, <3>1, <3>3
      <4> QED BY <3>1, <3>3, <4>1 DEF Grows
    <3> QED BY <3>2, <3>3
  <2> QED BY <1>2, <2>3, <2>5 DEF Sound
<1> QED BY <1>1, <1>2

\* A step of one session leaves the others' editors sound.
LEMMA OneSession ==
  ASSUME StoreInv, Sessions, StoreInv', Grows,
         NEW s \in Session, NEW ed, editor' = [editor EXCEPT ![s] = ed],
         Sound(ed, lastQuery', lastRow', rows'),
         said' \in [Session -> {"nothing", "saved", "refused", "conflict", "failed"}],
         saving' = {} \/ (saving' = {s} /\ ed.open)
  PROVE  Sessions'
<1>1. DOMAIN editor' = Session /\ editor'[s] = ed
  BY DEF Sessions
<1>2. \A o \in Session : Sound(editor'[o], lastQuery', lastRow', rows')
  <2> SUFFICES ASSUME NEW o \in Session, o # s
               PROVE  Sound(editor'[o], lastQuery', lastRow', rows')
    BY <1>1
  <2>1. editor'[o] = editor[o]
    BY DEF Sessions
  <2>2. Sound(editor[o], lastQuery, lastRow, rows)
    BY DEF Sessions
  <2> QED BY <2>1, <2>2, SoundStays
<1>3. saving' \subseteq Opens'
  BY <1>1 DEF Opens
<1>4. editor' \in [Session -> {Closed} \cup EditorState]
  BY DEF Sessions, Sound
<1> QED BY <1>2, <1>3, <1>4 DEF Sessions

\* A step of the API leaves all editors sound.
LEMMA NoSession ==
  ASSUME StoreInv, Sessions, StoreInv', Grows, UNCHANGED <<editor, said, saving>>
  PROVE  Sessions'
<1>1. \A o \in Session : Sound(editor'[o], lastQuery', lastRow', rows')
  <2> SUFFICES ASSUME NEW o \in Session PROVE Sound(editor'[o], lastQuery', lastRow', rows')
    OBVIOUS
  <2>1. Sound(editor[o], lastQuery, lastRow, rows)
    BY DEF Sessions
  <2> QED BY <2>1, SoundStays
<1> QED BY <1>1 DEF Sessions, Opens

\* The drafts read from the table are those of its rows.
LEMMA ReadDrafts ==
  ASSUME StoreInv, NEW q
  PROVE  Drafts(q) \in Seq(Draft) /\ Owned(Drafts(q), q, lastRow, rows)
<1>1. Keyed(Own(q)) /\ \A r \in Own(q) : r.id <= lastRow
  BY OwnRows
<1>2. /\ Drafts(q) \in Seq(Draft)
      /\ \A i \in DOMAIN Drafts(q) : \E r \in Own(q) : Drafts(q)[i].id = r.id
  BY <1>1, DraftRows DEF Drafts, Listed
<1>3. \A r, o \in rows : r.id = o.id => r = o
  BY DEF StoreInv
<1>4. Own(q) = {r \in rows : r.query = q}
  BY DEF Own
<1> QED BY <1>1, <1>2, <1>3, <1>4 DEF Owned

\* An editor that has just been synchronized and waits for no detection is sound.
LEMMA SynchronizedSound ==
  ASSUME StoreInv, NEW ed \in EditorState, ed.query <= lastQuery,
         Owned(ed.drafts, ed.query, lastRow, rows)
  PROVE  /\ Synchronized(ed) \in EditorState
         /\ Sound([Synchronized(ed) EXCEPT !.timers = {}], lastQuery, lastRow, rows)
         /\ ed.timers = {} => Sound(Synchronized(ed), lastQuery, lastRow, rows)
<1> DEFINE new == Synchronized(ed)
           done == [new EXCEPT !.timers = {}]
<1>1. /\ new \in EditorState /\ new.detected = Detected(ed.text)
      /\ new.query = ed.query /\ new.text = ed.text /\ new.timers = ed.timers
      /\ \A i \in DOMAIN new.drafts : \/ new.drafts[i].id = 0
                                      \/ /\ i \in DOMAIN ed.drafts
                                         /\ new.drafts[i].id = ed.drafts[i].id
  BY SynchronizedEditor
<1> HIDE DEF new
<1>2. Owned(new.drafts, new.query, lastRow, rows)
  <2>1. 0 <= lastRow /\ \A r \in rows : r.id # 0
    BY DEF StoreInv, Row
  <2> SUFFICES ASSUME NEW i \in DOMAIN new.drafts
               PROVE  /\ new.drafts[i].id <= lastRow
                      /\ \A r \in rows : r.id = new.drafts[i].id => r.query = new.query
    BY DEF Owned
  <2>2. CASE new.drafts[i].id = 0
    BY <2>1, <2>2
  <2>3. CASE i \in DOMAIN ed.drafts /\ new.drafts[i].id = ed.drafts[i].id
    BY <1>1, <2>3 DEF Owned
  <2> QED BY <1>1, <2>2, <2>3
<1>3. /\ done \in EditorState /\ done.timers = {} /\ done.detected = Detected(done.text)
      /\ done.query <= lastQuery /\ done.drafts = new.drafts /\ done.query = new.query
  BY <1>1 DEF EditorState
<1> HIDE DEF done
<1>4. Sound(done, lastQuery, lastRow, rows)
  BY <1>2, <1>3 DEF Sound
<1>5. ed.timers = {} => Sound(new, lastQuery, lastRow, rows)
  BY <1>1, <1>2 DEF Sound
<1> QED BY <1>1, <1>4, <1>5 DEF new, done

-----------------------------------------------------------------------------
(* The steps of the sessions *)

\* A handler that changes the drafts of an editor keeps ids or gives none.
LEMMA DraftsEdited ==
  ASSUME StoreInv, Sessions, NEW s \in Session, Edits(s), NEW ps \in Seq(Draft),
         \A i \in DOMAIN ps : ps[i].id = 0 \/ \E j \in DOMAIN editor[s].drafts :
                                                ps[i].id = editor[s].drafts[j].id,
         NEW sup \in SUBSET Name,
         editor' = [editor EXCEPT ![s] = [editor[s] EXCEPT !.drafts = ps, !.suppressed = sup]]
  PROVE  Sessions'
<1> DEFINE ed == editor[s]
           new == [ed EXCEPT !.drafts = ps, !.suppressed = sup]
<1>1. /\ ed \in EditorState /\ ed.query <= lastQuery /\ ed.timers \subseteq 1..ed.generation
      /\ \/ ed.generation \in ed.timers
         \/ ed.timers = {} /\ ed.detected = Detected(ed.text)
      /\ Owned(ed.drafts, ed.query, lastRow, rows)
  BY OpenEditor DEF Edits
<1>2. /\ new \in EditorState /\ new.query = ed.query /\ new.timers = ed.timers
      /\ new.generation = ed.generation /\ new.detected = ed.detected /\ new.text = ed.text
      /\ new.drafts = ps
  BY <1>1 DEF EditorState
<1>3. Owned(ps, ed.query, lastRow, rows)
  <2>1. 0 <= lastRow /\ \A r \in rows : r.id # 0
    BY DEF StoreInv, Row
  <2> QED BY <1>1, <2>1 DEF Owned
<1> HIDE DEF new
<1>4. Sound(new, lastQuery, lastRow, rows)
  BY <1>1, <1>2, <1>3 DEF Sound
<1>5. /\ UNCHANGED storeVars /\ said' = said /\ saving' = {}
  BY DEF Edits
<1>6. StoreInv' /\ Grows
  BY <1>5, StoreRests
<1>7. said' \in [Session -> {"nothing", "saved", "refused", "conflict", "failed"}]
  BY <1>5 DEF Sessions
<1> QED BY <1>4, <1>5, <1>6, <1>7, OneSession DEF new

\* The drafts of an open editor.
LEMMA OpenDrafts ==
  ASSUME Sessions, NEW s \in Session, editor[s].open
  PROVE  /\ editor[s].drafts \in Seq(Draft) /\ Len(editor[s].drafts) \in Nat
         /\ DOMAIN editor[s].drafts = 1..Len(editor[s].drafts)
         /\ \A i \in DOMAIN editor[s].drafts : editor[s].drafts[i] \in Draft
         /\ editor[s].suppressed \subseteq Name /\ editor[s].detected \subseteq Name
         /\ editor[s].text \in Text
         /\ \A ps : [editor[s] EXCEPT !.drafts = ps]
                   = [editor[s] EXCEPT !.drafts = ps, !.suppressed = editor[s].suppressed]
<1>1. editor[s] \in EditorState
  BY OpenEditor
<1>2. editor[s].drafts \in Seq(Draft)
  BY <1>1 DEF EditorState
<1>3. /\ Len(editor[s].drafts) \in Nat
      /\ DOMAIN editor[s].drafts = 1..Len(editor[s].drafts)
      /\ \A i \in DOMAIN editor[s].drafts : editor[s].drafts[i] \in Draft
  BY <1>2, LenProperties, ElementOfSeq
<1>4. \A ps : [editor[s] EXCEPT !.drafts = ps]
             = [editor[s] EXCEPT !.drafts = ps, !.suppressed = editor[s].suppressed]
  <2> DEFINE ed == editor[s]
  <2> HIDE DEF ed
  <2>1. ed \in EditorState => \A ps : [ed EXCEPT !.drafts = ps]
                                     = [ed EXCEPT !.drafts = ps, !.suppressed = ed.suppressed]
    BY DEF EditorState
  <2> QED BY <1>1, <2>1 DEF ed
<1> QED BY <1>1, <1>2, <1>3, <1>4 DEF EditorState

\* A draft of a name still to be typed.
LEMMA AddKeeps ==
  ASSUME StoreInv, Sessions, NEW s \in Session, Add(s)
  PROVE  Sessions'
<1> DEFINE old == editor[s].drafts
           new == [id |-> 0, name |-> NoName,
                   source |-> IF editor[s].text \in Get THEN "query" ELSE "body"]
<1>1. Edits(s) /\ editor[s].open
  BY DEF Add, Edits
<1>2. old \in Seq(Draft) /\ Len(old) \in Nat /\ DOMAIN old = 1..Len(old)
  BY <1>1, OpenDrafts
<1>3. new \in Draft /\ new.id = 0
  BY StoreAssumption DEF Draft, Source
<1>4. editor' = [editor EXCEPT ![s] = [editor[s] EXCEPT !.drafts = Append(old, new),
                                                        !.suppressed = editor[s].suppressed]]
  BY <1>1, OpenDrafts DEF Add
<1>5. editor[s].suppressed \in SUBSET Name
  BY <1>1, OpenDrafts
<1> HIDE DEF new, old
<1>6. /\ Append(old, new) \in Seq(Draft) /\ Len(Append(old, new)) = Len(old) + 1
      /\ \A i \in 1..Len(old) : Append(old, new)[i] = old[i]
      /\ Append(old, new)[Len(old) + 1] = new
  BY <1>2, <1>3, AppendProperties
<1>7. \A i \in DOMAIN Append(old, new) :
        Append(old, new)[i].id = 0 \/ \E j \in DOMAIN old : Append(old, new)[i].id = old[j].id
  <2>1. DOMAIN Append(old, new) = 1..Len(old) + 1
    BY <1>6, LenProperties
  <2>2. \A i \in 1..Len(old) + 1 : i \in 1..Len(old) \/ i = Len(old) + 1
    BY <1>2
  <2> QED BY <1>2, <1>3, <1>6, <2>1, <2>2
<1> QED BY <1>1, <1>4, <1>5, <1>6, <1>7, DraftsEdited DEF old

\* A change of one draft that keeps its id.
LEMMA DraftChanged ==
  ASSUME StoreInv, Sessions, NEW s \in Session, Edits(s),
         NEW i \in DOMAIN editor[s].drafts, NEW d \in Draft, d.id = editor[s].drafts[i].id,
         editor' = [editor EXCEPT ![s] = [editor[s] EXCEPT
                      !.drafts = [editor[s].drafts EXCEPT ![i] = d]]]
  PROVE  Sessions'
<1> DEFINE old == editor[s].drafts
           ps == [old EXCEPT ![i] = d]
<1>1. editor[s].open
  BY DEF Edits
<1>2. /\ old \in Seq(Draft) /\ Len(old) \in Nat /\ DOMAIN old = 1..Len(old)
      /\ editor[s].suppressed \in SUBSET Name
  BY <1>1, OpenDrafts
<1>3. ps \in Seq(Draft)
  BY <1>2, ExceptSeq
<1>4. \A j \in DOMAIN ps : j \in DOMAIN old /\ ps[j].id = old[j].id
  BY <1>2
<1> HIDE DEF ps
<1>5. editor' = [editor EXCEPT ![s] = [editor[s] EXCEPT !.drafts = ps,
                                                        !.suppressed = editor[s].suppressed]]
  BY <1>1, OpenDrafts DEF ps
<1>6. \A j \in DOMAIN ps : ps[j].id = 0 \/ \E k \in DOMAIN editor[s].drafts :
                                             ps[j].id = editor[s].drafts[k].id
  BY <1>4
<1> QED BY <1>2, <1>3, <1>5, <1>6, DraftsEdited

\* Another name for a draft.
LEMMA RenameKeeps ==
  ASSUME StoreInv, Sessions, NEW s \in Session, NEW i, NEW n \in Name, Rename(s, i, n)
  PROVE  Sessions'
<1> DEFINE d == [editor[s].drafts[i] EXCEPT !.name = n]
<1>1. Edits(s) /\ editor[s].open /\ i \in DOMAIN editor[s].drafts
  BY DEF Rename, Edits
<1>2. editor[s].drafts[i] \in Draft
  BY <1>1, OpenDrafts
<1>3. d \in Draft /\ d.id = editor[s].drafts[i].id
  BY <1>2 DEF Draft
<1>4. editor' = [editor EXCEPT ![s] = [editor[s] EXCEPT
                   !.drafts = [editor[s].drafts EXCEPT ![i] = d]]]
  BY DEF Rename
<1> HIDE DEF d
<1> QED BY <1>1, <1>3, <1>4, DraftChanged

\* Another source for a draft.
LEMMA SetSourceKeeps ==
  ASSUME StoreInv, Sessions, NEW s \in Session, NEW i, NEW source \in Source,
         SetSource(s, i, source)
  PROVE  Sessions'
<1> DEFINE d == [editor[s].drafts[i] EXCEPT !.source = source]
<1>1. Edits(s) /\ editor[s].open /\ i \in DOMAIN editor[s].drafts
  BY DEF SetSource, Edits
<1>2. editor[s].drafts[i] \in Draft
  BY <1>1, OpenDrafts
<1>3. d \in Draft /\ d.id = editor[s].drafts[i].id
  BY <1>2 DEF Draft
<1>4. editor' = [editor EXCEPT ![s] = [editor[s] EXCEPT
                   !.drafts = [editor[s].drafts EXCEPT ![i] = d]]]
  BY DEF SetSource
<1> HIDE DEF d
<1> QED BY <1>1, <1>3, <1>4, DraftChanged

\* Two drafts that change places.
LEMMA MoveUpKeeps ==
  ASSUME StoreInv, Sessions, NEW s \in Session, NEW i, MoveUp(s, i)
  PROVE  Sessions'
<1> DEFINE old == editor[s].drafts
           ps == [old EXCEPT ![i] = old[i - 1], ![i - 1] = old[i]]
<1>1. Edits(s) /\ editor[s].open /\ i \in DOMAIN old /\ i > 1
  BY DEF MoveUp, Edits
<1>2. /\ old \in Seq(Draft) /\ Len(old) \in Nat /\ DOMAIN old = 1..Len(old)
      /\ editor[s].suppressed \in SUBSET Name
      /\ \A j \in DOMAIN old : old[j] \in Draft
  BY <1>1, OpenDrafts
<1>3. editor' = [editor EXCEPT ![s] = [editor[s] EXCEPT !.drafts = ps]]
  BY DEF MoveUp
<1> HIDE DEF old
<1>4. i \in DOMAIN old /\ i - 1 \in DOMAIN old
  BY <1>1, <1>2
<1>5. ps \in [1..Len(old) -> Draft]
  BY <1>2, <1>4
<1>6. ps \in Seq(Draft)
  <2> DEFINE n == Len(old)
  <2>1. n \in Nat /\ ps \in [1..n -> Draft]
    BY <1>2, <1>5
  <2> HIDE DEF n, ps
  <2> QED BY <2>1, SeqDef
<1>7. \A j \in DOMAIN ps : \E k \in DOMAIN old : ps[j].id = old[k].id
  BY <1>2, <1>4
<1> HIDE DEF ps
<1>8. editor' = [editor EXCEPT ![s] = [editor[s] EXCEPT !.drafts = ps,
                                                        !.suppressed = editor[s].suppressed]]
  BY <1>1, <1>3, OpenDrafts
<1> QED BY <1>1, <1>2, <1>6, <1>7, <1>8, DraftsEdited DEF old

\* A draft less.
LEMMA RemoveDraftKeeps ==
  ASSUME StoreInv, Sessions, NEW s \in Session, NEW i, RemoveDraft(s, i)
  PROVE  Sessions'
<1> DEFINE old == editor[s].drafts
           n == Len(old)
           front == SubSeq(old, 1, i - 1)
           back == SubSeq(old, i + 1, n)
           ps == front \o back
           sup == editor[s].suppressed \cup ({old[i].name} \cap editor[s].detected)
<1>1. Edits(s) /\ editor[s].open /\ i \in DOMAIN old
  BY DEF RemoveDraft, Edits
<1>2. /\ old \in Seq(Draft) /\ n \in Nat /\ DOMAIN old = 1..n
      /\ \A j \in 1..n : old[j] \in Draft
      /\ sup \in SUBSET Name
  BY <1>1, OpenDrafts
<1>3. editor' = [editor EXCEPT ![s] = [editor[s] EXCEPT !.drafts = ps, !.suppressed = sup]]
  BY DEF RemoveDraft, RemoveAt
<1> HIDE DEF sup, old, n
<1>4. i \in 1..n
  BY <1>1, <1>2
<1>5. /\ front \in Seq(Draft) /\ Len(front) = i - 1
      /\ \A j \in 1..i - 1 : front[j] = old[j]
  <2>1. 1 \in Int /\ i - 1 \in Int /\ \A j \in 1..i - 1 : old[j] \in Draft
    BY <1>2, <1>4
  <2>2. /\ front \in Seq(Draft) /\ Len(front) = IF 1 <= i - 1 THEN (i - 1) - 1 + 1 ELSE 0
        /\ \A j \in 1..((i - 1) - 1 + 1) : front[j] = old[1 + j - 1]
    BY <2>1, SubSeqProperties
  <2> HIDE DEF front
  <2> QED BY <1>4, <2>2
<1>6. /\ back \in Seq(Draft) /\ Len(back) = n - i
      /\ \A j \in 1..n - i : back[j] = old[i + j]
  <2>1. i + 1 \in Int /\ n \in Int /\ \A j \in i + 1..n : old[j] \in Draft
    BY <1>2, <1>4
  <2>2. /\ back \in Seq(Draft) /\ Len(back) = IF i + 1 <= n THEN n - (i + 1) + 1 ELSE 0
        /\ \A j \in 1..(n - (i + 1) + 1) : back[j] = old[(i + 1) + j - 1]
    BY <2>1, SubSeqProperties
  <2> HIDE DEF back
  <2> QED BY <1>2, <1>4, <2>2
<1> HIDE DEF front, back
<1>7. /\ ps \in Seq(Draft) /\ Len(ps) = Len(front) + Len(back)
      /\ \A j \in 1..Len(front) + Len(back) :
           ps[j] = IF j <= Len(front) THEN front[j] ELSE back[j - Len(front)]
  BY <1>5, <1>6, ConcatProperties
<1> HIDE DEF ps
<1>8. \A j \in DOMAIN ps : \E k \in DOMAIN old : ps[j].id = old[k].id
  <2> SUFFICES ASSUME NEW j \in DOMAIN ps PROVE \E k \in DOMAIN old : ps[j] = old[k]
    OBVIOUS
  <2>1. j \in 1..Len(ps) /\ Len(ps) = n - 1
    BY <1>2, <1>4, <1>5, <1>6, <1>7, LenProperties
  <2>2. CASE j <= i - 1
    BY <1>2, <1>4, <1>5, <1>6, <1>7, <2>1, <2>2
  <2>3. CASE ~(j <= i - 1)
    <3>1. j - (i - 1) \in 1..n - i /\ i + (j - (i - 1)) = j + 1 /\ j + 1 \in 1..n
      BY <1>2, <1>4, <2>1, <2>3
    <3>2. ps[j] = back[j - (i - 1)]
      BY <1>2, <1>4, <1>5, <1>6, <1>7, <2>1, <2>3
    <3> QED BY <1>2, <1>6, <3>1, <3>2
  <2> QED BY <2>2, <2>3
<1> QED BY <1>1, <1>2, <1>3, <1>7, <1>8, DraftsEdited DEF old

\* An editor that opens on a route, or on none.
LEMMA OpenedSound ==
  ASSUME StoreInv, NEW q \in Nat, q <= lastQuery, NEW t \in Text, NEW ps \in Seq(Draft),
         Owned(ps, q, lastRow, rows)
  PROVE  Sound(Opened(q, t, ps), lastQuery, lastRow, rows)
<1> DEFINE ed == [open |-> TRUE, query |-> q, text |-> t, drafts |-> ps, suppressed |-> {},
                  detected |-> {}, generation |-> 0, timers |-> {}]
<1>1. ed \in EditorState
  BY DEF EditorState
<1>2. ed.query <= lastQuery /\ Owned(ed.drafts, ed.query, lastRow, rows) /\ ed.timers = {}
  OBVIOUS
<1>3. Opened(q, t, ps) = Synchronized(ed)
  BY DEF Opened
<1> HIDE DEF ed
<1> QED BY <1>1, <1>2, <1>3, SynchronizedSound

\* A session opens an editor.
LEMMA OpenKeeps ==
  ASSUME StoreInv, Sessions, NEW s \in Session, Open(s)
  PROVE  Sessions'
<1>1. /\ UNCHANGED storeVars /\ saving' = {} /\ said' = [said EXCEPT ![s] = "nothing"]
  BY DEF Open
<1>2. StoreInv' /\ Grows
  BY <1>1, StoreRests
<1>3. said' \in [Session -> {"nothing", "saved", "refused", "conflict", "failed"}]
  BY <1>1 DEF Sessions
<1>4. \E ed : editor' = [editor EXCEPT ![s] = ed] /\ Sound(ed, lastQuery, lastRow, rows)
  <2>1. CASE editor' = [editor EXCEPT ![s] = Opened(0, NewText, <<>>)]
    <3>1. NewText \in Text /\ 0 \in Nat /\ 0 <= lastQuery
      BY EditorAssumption DEF StoreInv
    <3>2. <<>> \in Seq(Draft) /\ Owned(<<>>, 0, lastRow, rows)
      BY DEF Owned
    <3>3. Sound(Opened(0, NewText, <<>>), lastQuery, lastRow, rows)
      BY <3>1, <3>2, OpenedSound
    <3> QED BY <2>1, <3>3
  <2>2. ASSUME NEW q \in DOMAIN queries,
               editor' = [editor EXCEPT ![s] = Opened(q, queries[q], Drafts(q))]
        PROVE  \E ed : editor' = [editor EXCEPT ![s] = ed] /\ Sound(ed, lastQuery, lastRow, rows)
    <3>1. q \in Nat /\ q <= lastQuery /\ queries[q] \in Text
      BY DEF StoreInv
    <3>2. Drafts(q) \in Seq(Draft) /\ Owned(Drafts(q), q, lastRow, rows)
      BY ReadDrafts
    <3>3. Sound(Opened(q, queries[q], Drafts(q)), lastQuery, lastRow, rows)
      BY <3>1, <3>2, OpenedSound
    <3> QED BY <2>2, <3>3
  <2> QED BY <2>1, <2>2 DEF Open
<1>5. PICK ed : editor' = [editor EXCEPT ![s] = ed] /\ Sound(ed, lastQuery, lastRow, rows)
  BY <1>4
<1>6. Sound(ed, lastQuery', lastRow', rows')
  BY <1>1, <1>5
<1> QED BY <1>1, <1>2, <1>3, <1>5, <1>6, OneSession

\* The text changes, and one more detection is to come.
LEMMA TypeKeeps ==
  ASSUME StoreInv, Sessions, NEW s \in Session, NEW t \in Text, Type(s, t)
  PROVE  Sessions'
<1> DEFINE ed == editor[s]
           new == [ed EXCEPT !.text = t, !.generation = ed.generation + 1,
                             !.timers = ed.timers \cup {ed.generation + 1}]
<1>1. Edits(s) /\ ed.open
  BY DEF Type, Edits
<1>2. /\ ed \in EditorState /\ ed.query <= lastQuery /\ ed.timers \subseteq 1..ed.generation
      /\ Owned(ed.drafts, ed.query, lastRow, rows)
  BY <1>1, OpenEditor
<1>3. /\ UNCHANGED storeVars /\ saving' = {} /\ said' = said
  BY <1>1 DEF Edits
<1>4. StoreInv' /\ Grows
  BY <1>3, StoreRests
<1>5. said' \in [Session -> {"nothing", "saved", "refused", "conflict", "failed"}]
  BY <1>3 DEF Sessions
<1>6. editor' = [editor EXCEPT ![s] = new]
  BY DEF Type
<1>7. /\ new \in EditorState /\ new.query = ed.query /\ new.drafts = ed.drafts
      /\ new.generation \in new.timers /\ new.timers \subseteq 1..new.generation
  <2>1. ed.generation \in Nat /\ ed.timers \in SUBSET Nat
    BY <1>2 DEF EditorState
  <2>2. /\ ed.timers \cup {ed.generation + 1} \in SUBSET Nat
        /\ ed.timers \cup {ed.generation + 1} \subseteq 1..ed.generation + 1
    BY <1>2, <2>1
  <2>3. /\ new.query = ed.query /\ new.drafts = ed.drafts /\ new.generation = ed.generation + 1
        /\ new.timers = ed.timers \cup {ed.generation + 1}
    BY <1>2 DEF EditorState
  <2>4. new \in EditorState
    BY <1>2, <2>1, <2>2 DEF EditorState
  <2> QED BY <2>2, <2>3, <2>4
<1> HIDE DEF new
<1>8. Sound(new, lastQuery', lastRow', rows')
  BY <1>2, <1>3, <1>7 DEF Sound
<1> QED BY <1>3, <1>4, <1>5, <1>6, <1>8, OneSession

\* A detection that is outdated changes nothing; the current one is the last.
LEMMA DetectKeeps ==
  ASSUME StoreInv, Sessions, NEW s \in Session, Detect(s)
  PROVE  Sessions'
<1> DEFINE ed == editor[s]
<1>1. ed.open
  BY DEF Detect
<1>2. /\ ed \in EditorState /\ ed.query <= lastQuery /\ ed.timers \subseteq 1..ed.generation
      /\ \/ ed.generation \in ed.timers
         \/ ed.timers = {} /\ ed.detected = Detected(ed.text)
      /\ Owned(ed.drafts, ed.query, lastRow, rows)
  BY <1>1, OpenEditor
<1>3. /\ UNCHANGED storeVars /\ saving' = {} /\ said' = said
  BY DEF Detect
<1>4. StoreInv' /\ Grows
  BY <1>3, StoreRests
<1>5. said' \in [Session -> {"nothing", "saved", "refused", "conflict", "failed"}]
  BY <1>3 DEF Sessions
<1>6. PICK g \in ed.timers :
        /\ \A h \in ed.timers : g <= h
        /\ editor' = [editor EXCEPT ![s] = IF g = ed.generation
                                           THEN Synchronized([ed EXCEPT !.timers = @ \ {g}])
                                           ELSE [ed EXCEPT !.timers = @ \ {g}]]
  BY DEF Detect, Current
<1> DEFINE rest == [ed EXCEPT !.timers = @ \ {g}]
<1>7. ed.generation \in ed.timers /\ ed.generation \in Nat /\ ed.timers \in SUBSET Nat
  BY <1>2, <1>6 DEF EditorState
<1>8. /\ rest \in EditorState /\ rest.query = ed.query /\ rest.text = ed.text
      /\ rest.drafts = ed.drafts /\ rest.generation = ed.generation
      /\ rest.timers = ed.timers \ {g}
  BY <1>2, <1>7 DEF EditorState
<1> HIDE DEF rest
<1>9. CASE g = ed.generation
  <2>1. rest.timers = {}
    <3> SUFFICES ASSUME NEW h \in ed.timers, h # g PROVE FALSE
      BY <1>8
    <3>1. g <= h /\ h \in 1..ed.generation
      BY <1>2, <1>6
    <3> QED BY <1>7, <1>9, <3>1
  <2>2. Sound(Synchronized(rest), lastQuery, lastRow, rows)
    BY <1>2, <1>8, <2>1, SynchronizedSound
  <2>3. Sound(Synchronized(rest), lastQuery', lastRow', rows')
    BY <1>3, <2>2
  <2>4. editor' = [editor EXCEPT ![s] = Synchronized(rest)]
    BY <1>6, <1>9 DEF rest
  <2> QED BY <1>3, <1>4, <1>5, <2>3, <2>4, OneSession
<1>10. CASE g # ed.generation
  <2>1. Sound(rest, lastQuery', lastRow', rows')
    BY <1>2, <1>3, <1>7, <1>8, <1>10 DEF Sound
  <2>2. editor' = [editor EXCEPT ![s] = rest]
    BY <1>6, <1>10 DEF rest
  <2> QED BY <1>3, <1>4, <1>5, <2>1, <2>2, OneSession
<1> QED BY <1>9, <1>10

\* An editor is closed.
LEMMA CloseKeeps ==
  ASSUME StoreInv, Sessions, NEW s \in Session, Close(s)
  PROVE  Sessions'
<1>1. /\ UNCHANGED storeVars /\ saving' = {} /\ said' = said
      /\ editor' = [editor EXCEPT ![s] = Closed]
  BY DEF Close
<1>2. StoreInv' /\ Grows
  BY <1>1, StoreRests
<1>3. said' \in [Session -> {"nothing", "saved", "refused", "conflict", "failed"}]
  BY <1>1 DEF Sessions
<1>4. Sound(Closed, lastQuery', lastRow', rows')
  BY DEF Sound
<1> QED BY <1>1, <1>2, <1>3, <1>4, OneSession

\* A route is removed, and perhaps its editor stays.
LEMMA RemoveRouteKeeps ==
  ASSUME StoreInv, Sessions, NEW s \in Session, RemoveRoute(s)
  PROVE  StoreInv' /\ Sessions'
<1>1. /\ saving' = {} /\ said' = said /\ editor[s].open
      /\ DeleteQuery(editor[s].query) \/ UNCHANGED storeVars
      /\ editor' = [editor EXCEPT ![s] = Closed] \/ editor' = editor
  BY DEF RemoveRoute
<1>2. StoreInv' /\ Grows
  BY <1>1, StoreRests, DeleteQueryKeeps
<1>3. said' \in [Session -> {"nothing", "saved", "refused", "conflict", "failed"}]
  BY <1>1 DEF Sessions
<1>4. CASE editor' = [editor EXCEPT ![s] = Closed]
  <2>1. Sound(Closed, lastQuery', lastRow', rows')
    BY DEF Sound
  <2> QED BY <1>1, <1>2, <1>3, <1>4, <2>1, OneSession
<1>5. CASE editor' = editor
  <2>1. editor' = [editor EXCEPT ![s] = editor[s]]
    BY <1>5 DEF Sessions
  <2>2. Sound(editor[s], lastQuery, lastRow, rows)
    BY DEF Sessions
  <2>3. Sound(editor[s], lastQuery', lastRow', rows')
    BY <1>2, <2>2, SoundStays
  <2> QED BY <1>1, <1>2, <1>3, <2>1, <2>3, OneSession
<1> QED BY <1>1, <1>2, <1>4, <1>5

\* A save stores the snapshot and gives the editor its route, or says why it did not.
LEMMA SaveKeeps ==
  ASSUME StoreInv, Sessions, NEW s \in Session, Save(s)
  PROVE  StoreInv' /\ Sessions'
<1> DEFINE ed == editor[s]
           q == ed.query
           k == Target(q)
           outcome == SaveOutcome(q, ed.text, ed.drafts)
<1>1. ed.open /\ saving = {}
  BY DEF Save
<1>2. /\ ed \in EditorState /\ q <= lastQuery /\ ed.timers \subseteq 1..ed.generation
      /\ \/ ed.generation \in ed.timers
         \/ ed.timers = {} /\ ed.detected = Detected(ed.text)
      /\ Owned(ed.drafts, q, lastRow, rows)
  BY <1>1, OpenEditor
<1>3. q \in Nat /\ ed.text \in Text /\ ed.drafts \in Seq(Draft)
  BY <1>2 DEF EditorState
<1>4. Sound(ed, lastQuery, lastRow, rows)
  BY DEF Sessions
<1>5. ASSUME outcome = "stored", Store(q, ed.text, ed.drafts), said' = said, saving' = {s},
             editor' = [editor EXCEPT ![s].query = k]
      PROVE  StoreInv' /\ Sessions'
  <2> DEFINE new == [ed EXCEPT !.query = k]
  <2>1. StoreInv' /\ Grows
    BY <1>3, <1>5, StoreKeeps
  <2>2. Sound(ed, lastQuery', lastRow', rows')
    BY <1>4, <2>1, SoundStays
  <2>3. /\ k \in Nat /\ k <= lastQuery' /\ (q # 0 => k = q)
    BY <1>2, <1>3, <1>5 DEF Store, Target, StoreInv
  <2>4. Owned(ed.drafts, k, lastRow', rows')
    <3>1. Owned(ed.drafts, q, lastRow', rows')
      BY <1>1, <2>2 DEF Sound, Closed
    <3>2. \A r \in rows' : r.query # 0
      BY <2>1 DEF StoreInv, Row
    <3> QED BY <2>3, <3>1, <3>2 DEF Owned
  <2>5. /\ new \in EditorState /\ new.query = k /\ new.drafts = ed.drafts /\ new.open
        /\ new.timers = ed.timers /\ new.generation = ed.generation
        /\ new.detected = ed.detected /\ new.text = ed.text
    BY <1>2, <2>3 DEF EditorState
  <2>6. editor' = [editor EXCEPT ![s] = new]
    BY <1>5
  <2>7. said' \in [Session -> {"nothing", "saved", "refused", "conflict", "failed"}]
    BY <1>5 DEF Sessions
  <2> HIDE DEF new, k
  <2>8. Sound(new, lastQuery', lastRow', rows')
    BY <1>2, <2>3, <2>4, <2>5 DEF Sound
  <2> QED BY <1>5, <2>1, <2>5, <2>6, <2>7, <2>8, OneSession
<1>6. ASSUME UNCHANGED <<storeVars, editor, saving>>,
             NEW what \in {"refused", "conflict", "failed"}, said' = [said EXCEPT ![s] = what]
      PROVE  StoreInv' /\ Sessions'
  <2>1. StoreInv' /\ Grows
    BY <1>6, StoreRests
  <2>2. editor' = [editor EXCEPT ![s] = ed] /\ saving' = {}
    BY <1>1, <1>6 DEF Sessions
  <2>3. said' \in [Session -> {"nothing", "saved", "refused", "conflict", "failed"}]
    BY <1>6 DEF Sessions
  <2>4. Sound(ed, lastQuery', lastRow', rows')
    BY <1>4, <2>1, SoundStays
  <2> QED BY <2>1, <2>2, <2>3, <2>4, OneSession
<1>7. outcome \in {"stored", "refused", "conflict"}
  BY <1>3, Outcomes
<1>8. \/ /\ outcome = "stored" /\ Store(q, ed.text, ed.drafts)
         /\ editor' = [editor EXCEPT ![s].query = k] /\ saving' = {s} /\ said' = said
      \/ /\ UNCHANGED <<storeVars, editor, saving>>
         /\ \E what \in {"refused", "conflict", "failed"} : said' = [said EXCEPT ![s] = what]
  <2> HIDE DEF k, outcome
  <2>1. \/ /\ outcome = "stored" /\ Store(q, ed.text, ed.drafts)
           /\ editor' = [editor EXCEPT ![s].query = k] /\ saving' = {s} /\ said' = said
        \/ /\ \E other \in ({outcome} \ {"stored"}) \cup {"refused" : d \in ToSet(ed.drafts)} :
                said' = [said EXCEPT ![s] = other]
           /\ UNCHANGED <<storeVars, editor, saving>>
        \/ /\ said' = [said EXCEPT ![s] = "failed"]
           /\ UNCHANGED <<storeVars, editor, saving>>
    BY DEF Save, Says, k, outcome
  <2>2. \A other \in ({outcome} \ {"stored"}) \cup {"refused" : d \in ToSet(ed.drafts)} :
          other \in {"refused", "conflict", "failed"}
    BY <1>7
  <2> QED BY <2>1, <2>2
<1> QED BY <1>5, <1>6, <1>8

\* The editor gets the drafts that are stored, or keeps its own.
LEMMA ReadBackKeeps ==
  ASSUME StoreInv, Sessions, NEW s \in Session, ReadBack(s)
  PROVE  StoreInv' /\ Sessions'
<1> DEFINE ed == editor[s]
           q == ed.query
           ps == IF q \in DOMAIN queries THEN Drafts(q) ELSE ed.drafts
           read == [ed EXCEPT !.drafts = ps]
           done == [Synchronized(read) EXCEPT !.timers = {}]
<1>1. ed.open
  BY DEF ReadBack, Sessions, Opens
<1>2. /\ ed \in EditorState /\ q <= lastQuery /\ ed.timers \subseteq 1..ed.generation
      /\ \/ ed.generation \in ed.timers
         \/ ed.timers = {} /\ ed.detected = Detected(ed.text)
      /\ Owned(ed.drafts, q, lastRow, rows)
  BY <1>1, OpenEditor
<1>3. /\ UNCHANGED storeVars /\ saving' = {}
      /\ \E what \in {"saved", "failed"} : said' = [said EXCEPT ![s] = what]
      /\ \/ editor' = [editor EXCEPT ![s] = done]
         \/ editor' = [editor EXCEPT ![s] = read]
         \/ editor' = editor
  <2> DEFINE back == [editor EXCEPT ![s].drafts = IF q \in DOMAIN queries THEN Drafts(q) ELSE @]
  <2>1. back = [editor EXCEPT ![s] = read]
    OBVIOUS
  <2>2. back[s] = read
    BY <2>1 DEF Sessions
  <2> HIDE DEF read
  <2>3. [back EXCEPT ![s] = [Synchronized(@) EXCEPT !.timers = {}]]
        = [editor EXCEPT ![s] = done]
    <3>1. [back EXCEPT ![s] = [Synchronized(@) EXCEPT !.timers = {}]]
          = [back EXCEPT ![s] = done]
      BY <2>2
    <3> HIDE DEF done, back
    <3>2. [back EXCEPT ![s] = done] = [editor EXCEPT ![s] = done]
      BY <2>1 DEF Sessions
    <3> QED BY <3>1, <3>2
  <2>4. \/ /\ editor' = [back EXCEPT ![s] = [Synchronized(@) EXCEPT !.timers = {}]]
           /\ said' = [said EXCEPT ![s] = "saved"]
        \/ /\ said' = [said EXCEPT ![s] = "failed"] /\ editor' \in {editor, back}
    BY DEF ReadBack, Says
  <2>5. UNCHANGED storeVars /\ saving' = {}
    BY DEF ReadBack
  <2> HIDE DEF back, done
  <2> QED BY <2>1, <2>3, <2>4, <2>5
<1>4. ps \in Seq(Draft) /\ Owned(ps, q, lastRow, rows)
  <2>1. ed.drafts \in Seq(Draft)
    BY <1>2 DEF EditorState
  <2> QED BY <1>2, <2>1, ReadDrafts
<1> HIDE DEF ps
<1>5. /\ read \in EditorState /\ read.query = q /\ read.drafts = ps
      /\ read.timers = ed.timers /\ read.generation = ed.generation
      /\ read.detected = ed.detected /\ read.text = ed.text
  BY <1>2, <1>4 DEF EditorState
<1> HIDE DEF read
<1>6. Sound(read, lastQuery, lastRow, rows)
  BY <1>2, <1>4, <1>5 DEF Sound
<1>7. Sound(done, lastQuery, lastRow, rows)
  BY <1>2, <1>4, <1>5, SynchronizedSound
<1>8. Sound(ed, lastQuery, lastRow, rows)
  BY DEF Sessions
<1> HIDE DEF done
<1>9. PICK new \in {done, read, ed} : editor' = [editor EXCEPT ![s] = new]
  BY <1>3 DEF Sessions
<1>10. StoreInv' /\ Grows
  BY <1>3, StoreRests
<1>11. Sound(new, lastQuery', lastRow', rows')
  <2>1. Sound(new, lastQuery, lastRow, rows)
    BY <1>6, <1>7, <1>8, <1>9
  <2> QED BY <1>3, <2>1
<1>12. said' \in [Session -> {"nothing", "saved", "refused", "conflict", "failed"}]
  BY <1>3 DEF Sessions
<1> QED BY <1>3, <1>9, <1>10, <1>11, <1>12, OneSession

-----------------------------------------------------------------------------
(* What is read after a save *)

\* After a save its route has the drafts of the snapshot in their order, with canonical
\* names, and the rows of other routes are those they were.
LEMMA SavedDrafts ==
  ASSUME StoreInv, NEW q \in Nat, NEW t, NEW ps \in Seq(Draft),
         SaveOutcome(q, t, ps) = "stored", Store(q, t, ps)
  PROVE  LET stored == DraftsOf(Ordered({r \in rows' : r.query = Target(q)})) IN
         /\ Len(stored) = Len(ps) /\ DOMAIN stored = 1..Len(ps)
         /\ \A i \in 1..Len(ps) : /\ stored[i].name = Canonical[ps[i].name]
                                  /\ stored[i].source = ps[i].source
                                  /\ ps[i].id # 0 => stored[i].id = ps[i].id
         /\ {r \in rows' : r.query # Target(q)} = {r \in rows : r.query # Target(q)}
<1> DEFINE k == Target(q)
           S == {r \in rows' : r.query = k}
<1>1. k \in Nat \ {0}
  BY StoredRows
<1>2. PICK id \in [1..Len(ps) -> Nat \ {0}] :
        /\ rows' = {r \in rows : r.query # k} \cup Snapshot(k, ps, id)
        /\ \A j \in 1..Len(ps) : ps[j].id # 0 => id[j] = ps[j].id
        /\ \A i, j \in 1..Len(ps) : id[i] = id[j] => i = j
  BY StoredRows
<1>3. \A i, j \in DOMAIN ps : Canonical[ps[i].name] = Canonical[ps[j].name] => i = j
  BY Outcomes DEF Valid
<1> HIDE DEF k
<1>4. \A r \in Snapshot(k, ps, id) : r.query = k
  BY DEF Snapshot, RowAt
<1>5. S = Snapshot(k, ps, id) /\ {r \in rows' : r.query # k} = {r \in rows : r.query # k}
  BY <1>2, <1>4
<1> HIDE DEF S
<1>6. /\ Keyed(S) /\ Cardinality(S) = Len(ps)
      /\ \A i \in 1..Len(ps) : Ordered(S)[i] = RowAt(k, ps, id, i)
  BY <1>1, <1>2, <1>3, <1>5, SnapshotOrder
<1> DEFINE list == Ordered(S)
           stored == DraftsOf(list)
<1>7. /\ stored \in Seq(Draft) /\ DOMAIN stored = DOMAIN list /\ Len(stored) = Len(ps)
      /\ \A i \in DOMAIN list : /\ stored[i].id = list[i].id
                                /\ stored[i].name = list[i].name
                                /\ stored[i].source = list[i].source
  BY <1>6, DraftRows
<1>8. DOMAIN stored = 1..Len(ps)
  <2> HIDE DEF stored
  <2> QED BY <1>7, LenProperties
<1> HIDE DEF stored, list
<1>9. \A i \in 1..Len(ps) : /\ stored[i].name = Canonical[ps[i].name]
                            /\ stored[i].source = ps[i].source
                            /\ ps[i].id # 0 => stored[i].id = ps[i].id
  <2> SUFFICES ASSUME NEW i \in 1..Len(ps)
               PROVE  /\ stored[i].name = Canonical[ps[i].name]
                      /\ stored[i].source = ps[i].source
                      /\ ps[i].id # 0 => stored[i].id = ps[i].id
    OBVIOUS
  <2>1. list[i] = RowAt(k, ps, id, i)
    BY <1>6 DEF list
  <2>2. /\ stored[i].id = list[i].id /\ stored[i].name = list[i].name
        /\ stored[i].source = list[i].source
    BY <1>7, <1>8
  <2>3. /\ list[i].id = id[i] /\ list[i].name = Canonical[ps[i].name]
        /\ list[i].source = ps[i].source
    BY <2>1 DEF RowAt
  <2>4. ps[i].id # 0 => id[i] = ps[i].id
    BY <1>2
  <2> QED BY <2>2, <2>3, <2>4
<1> QED BY <1>5, <1>7, <1>8, <1>9 DEF stored, list, S, k

\* Validity is that of the snapshot: upper case twice is upper case once.
LEMMA SavedValid ==
  ASSUME NEW t, NEW ps \in Seq(Draft), Valid(t, ps), NEW stored, DOMAIN stored = 1..Len(ps),
         \A i \in 1..Len(ps) : /\ stored[i].name = Canonical[ps[i].name]
                               /\ stored[i].source = ps[i].source
  PROVE  Valid(t, stored)
<1> DEFINE n == Len(ps)
<1>1. DOMAIN ps = 1..n /\ \A i \in 1..n : ps[i].name \in Name
  <2>1. DOMAIN ps = 1..n /\ \A i \in 1..n : ps[i] \in Draft
    BY LenProperties, ElementOfSeq
  <2> QED BY <2>1 DEF Draft
<1>2. \A i \in 1..n : Canonical[stored[i].name] = Canonical[ps[i].name]
  BY <1>1, StoreAssumption
<1>3. ValidSet(t, ToSet(ps))
      /\ \A i, j \in DOMAIN ps : Canonical[ps[i].name] = Canonical[ps[j].name] => i = j
  BY ValidDrafts
<1> HIDE DEF n
<1>4. ToSet(ps) = {ps[i] : i \in 1..n} /\ ToSet(stored) = {stored[i] : i \in 1..n}
  BY <1>1 DEF ToSet, n
<1>5. /\ \A p \in ToSet(ps) : \E r \in ToSet(stored) :
           Canonical[p.name] = Canonical[r.name] /\ p.source = r.source
      /\ \A r \in ToSet(stored) : \E p \in ToSet(ps) :
           Canonical[p.name] = Canonical[r.name] /\ p.source = r.source
  BY <1>2, <1>4 DEF n
<1>6. ValidSet(t, ToSet(stored))
  BY <1>3, <1>5, SameValidity
<1>7. \A i, j \in DOMAIN stored : Canonical[stored[i].name] = Canonical[stored[j].name] => i = j
  BY <1>1, <1>2, <1>3 DEF n
<1> QED BY <1>6, <1>7, ValidDrafts

\* A save leaves valid configurations.
LEMMA SaveConfigurations ==
  ASSUME StoreInv, Sessions, EditorsKeepConfigurations, requests' = requests,
         NEW s \in Session, Save(s)
  PROVE  EditorsKeepConfigurations'
<1> DEFINE ed == editor[s]
           q == ed.query
           t == ed.text
           ps == ed.drafts
           k == Target(q)
<1>1. ed.open
  BY DEF Save
<1>2. q \in Nat /\ t \in Text /\ ps \in Seq(Draft)
  BY <1>1, OpenEditor DEF EditorState
<1>3. CASE UNCHANGED storeVars
  BY <1>3 DEF EditorsKeepConfigurations, Drafts, Listed, Own
<1>4. CASE SaveOutcome(q, t, ps) = "stored" /\ Store(q, t, ps)
  <2>1. Valid(t, ps)
    BY <1>2, <1>4, Outcomes
  <2> DEFINE stored == DraftsOf(Ordered({r \in rows' : r.query = k}))
  <2>2. /\ DOMAIN stored = 1..Len(ps)
        /\ \A i \in 1..Len(ps) : /\ stored[i].name = Canonical[ps[i].name]
                                 /\ stored[i].source = ps[i].source
        /\ {r \in rows' : r.query # k} = {r \in rows : r.query # k}
    BY <1>2, <1>4, SavedDrafts
  <2>3. Valid(t, stored)
    <3> HIDE DEF stored
    <3> QED BY <1>2, <2>1, <2>2, SavedValid
  <2>4. /\ DOMAIN queries' = DOMAIN queries \cup {k} /\ queries'[k] = t
        /\ \A p \in DOMAIN queries : p # k => queries'[p] = queries[p]
    <3>1. queries' = [p \in DOMAIN queries \cup {k} |-> IF p = k THEN t ELSE queries[p]]
      BY <1>4 DEF Store
    <3> HIDE DEF k, t
    <3> QED BY <3>1
  <2> HIDE DEF k, t, ps
  <2> SUFFICES ASSUME requests = 0, NEW p \in DOMAIN queries'
               PROVE  Valid(queries'[p], DraftsOf(Ordered({r \in rows' : r.query = p})))
    BY DEF EditorsKeepConfigurations, Drafts, Listed, Own
  <2>5. CASE p = k
    BY <2>3, <2>4, <2>5
  <2>6. CASE p # k
    <3>1. p \in DOMAIN queries /\ queries'[p] = queries[p]
      BY <2>4, <2>6
    <3>2. {r \in rows' : r.query = p} = {r \in rows : r.query = p}
      BY <2>2, <2>6
    <3>3. Valid(queries[p], DraftsOf(Ordered({r \in rows : r.query = p})))
      BY <3>1 DEF EditorsKeepConfigurations, Drafts, Listed, Own
    <3> QED BY <3>1, <3>2, <3>3
  <2> QED BY <2>5, <2>6
<1>5. UNCHANGED storeVars \/ (SaveOutcome(q, t, ps) = "stored" /\ Store(q, t, ps))
  BY DEF Save
<1> QED BY <1>3, <1>4, <1>5

\* The removal of a route leaves the others' configurations.
LEMMA RemoveConfigurations ==
  ASSUME EditorsKeepConfigurations, requests' = requests, NEW s \in Session, RemoveRoute(s)
  PROVE  EditorsKeepConfigurations'
<1> DEFINE q == editor[s].query
<1>1. CASE UNCHANGED storeVars
  BY <1>1 DEF EditorsKeepConfigurations, Drafts, Listed, Own
<1>2. CASE DeleteQuery(q)
  <2> HIDE DEF q
  <2>1. /\ rows' = {r \in rows : r.query # q} /\ DOMAIN queries' = DOMAIN queries \ {q}
        /\ \A p \in DOMAIN queries' : queries'[p] = queries[p]
    BY <1>2 DEF DeleteQuery, Own
  <2> SUFFICES ASSUME requests = 0, NEW p \in DOMAIN queries'
               PROVE  Valid(queries'[p], DraftsOf(Ordered({r \in rows' : r.query = p})))
    BY DEF EditorsKeepConfigurations, Drafts, Listed, Own
  <2>2. p \in DOMAIN queries /\ queries'[p] = queries[p] /\ p # q
    BY <2>1
  <2>3. {r \in rows' : r.query = p} = {r \in rows : r.query = p}
    BY <2>1, <2>2
  <2>4. Valid(queries[p], DraftsOf(Ordered({r \in rows : r.query = p})))
    BY <2>2 DEF EditorsKeepConfigurations, Drafts, Listed, Own
  <2> QED BY <2>2, <2>3, <2>4
<1> QED BY <1>1, <1>2 DEF RemoveRoute

-----------------------------------------------------------------------------
(* The invariant *)

\* The route that is stored at first has the parameters of its text.
LEMMA InitHolds ==
  ASSUME Init
  PROVE  IInv
<1> DEFINE found == Candidates[FirstText]
           n == Len(found)
           row == [i \in 1..n |-> [id |-> i, query |-> 1, name |-> found[i].name,
                                   source |-> found[i].source, position |-> i]]
<1>1. FirstText \in Text /\ Valid(FirstText, found) /\ FirstText \in Accepted
  BY EditorAssumption DEF Valid
<1>2. /\ n \in Nat /\ DOMAIN found = 1..n
      /\ \A i \in 1..n : found[i].name \in Name /\ found[i].source \in Source
  <2>1. found \in Seq([name : Name, source : Source])
    BY <1>1, StoreAssumption DEF Source
  <2> QED BY <1>1, <2>1, Found, LenProperties
<1>3. \A i, j \in 1..n : Canonical[found[i].name] = Canonical[found[j].name] => i = j
  BY <1>1, <1>2 DEF Valid
<1>4. /\ queries = <<FirstText>> /\ lastQuery = 1 /\ lastRow = n /\ reorder = NoReorder
      /\ rows = {row[i] : i \in 1..n}
  BY <1>2 DEF Init, InitStore
<1> HIDE DEF n, found
<1>5. \A i \in 1..n : /\ row[i] \in Row /\ row[i].id = i /\ row[i].query = 1
                      /\ row[i].name = found[i].name /\ row[i].source = found[i].source
  BY <1>2 DEF Row
<1> HIDE DEF row
<1>6. /\ DOMAIN queries = {1} /\ queries[1] = FirstText /\ queries \in [DOMAIN queries -> Text]
  BY <1>1, <1>4
<1>7. /\ \A r \in rows : r \in Row /\ r.id <= lastRow /\ r.query = 1
      /\ \A r, s \in rows : r.id = s.id \/ r.name = s.name => r = s
  BY <1>2, <1>3, <1>4, <1>5
<1>8. StoreInv
  <2>1. DOMAIN reorder.order = {}
    BY <1>4 DEF NoReorder
  <2> QED BY <1>1, <1>2, <1>4, <1>6, <1>7, <2>1 DEF StoreInv
<1>9. Sessions
  BY DEF Init, Sessions, Sound, Opens
<1>10. Orders
  BY <1>4, EditorAssumption DEF Orders, Init
<1>11. EditorsKeepConfigurations
  <2> DEFINE list == Ordered(Own(1))
             ds == DraftsOf(list)
  <2>1. Own(1) = rows
    BY <1>7 DEF Own
  <2>2. Keyed(Own(1))
    BY <1>8, OwnRows
  <2>3. /\ DOMAIN ds = DOMAIN list
        /\ \A i \in DOMAIN list : /\ list[i] \in rows
                                  /\ ds[i].name = list[i].name /\ ds[i].source = list[i].source
        /\ \A i, j \in DOMAIN list : list[i] = list[j] => i = j
        /\ \A r \in rows : \E i \in DOMAIN list : list[i] = r
    BY <2>1, <2>2, DraftRows
  <2> HIDE DEF list, ds
  <2>4. /\ \A p \in ToSet(found) : \E r \in ToSet(ds) :
             Canonical[p.name] = Canonical[r.name] /\ p.source = r.source
        /\ \A r \in ToSet(ds) : \E p \in ToSet(found) :
             Canonical[p.name] = Canonical[r.name] /\ p.source = r.source
    <3>1. ASSUME NEW p \in ToSet(found)
          PROVE  \E r \in ToSet(ds) : Canonical[p.name] = Canonical[r.name] /\ p.source = r.source
      <4>1. PICK i \in 1..n : p = found[i]
        BY <1>2, <3>1 DEF ToSet
      <4>2. PICK j \in DOMAIN list : list[j] = row[i]
        BY <1>4, <2>3
      <4>3. ds[j] \in ToSet(ds) /\ ds[j].name = p.name /\ ds[j].source = p.source
        BY <1>5, <2>3, <4>1, <4>2 DEF ToSet
      <4> QED BY <4>3
    <3>2. ASSUME NEW r \in ToSet(ds)
          PROVE  \E p \in ToSet(found) :
                   Canonical[p.name] = Canonical[r.name] /\ p.source = r.source
      <4>1. PICK j \in DOMAIN list : r = ds[j]
        BY <2>3, <3>2 DEF ToSet
      <4>2. PICK i \in 1..n : list[j] = row[i]
        BY <1>4, <2>3
      <4>3. found[i] \in ToSet(found) /\ r.name = found[i].name /\ r.source = found[i].source
        BY <1>2, <1>5, <2>3, <4>1, <4>2 DEF ToSet
      <4> QED BY <4>3
    <3> QED BY <3>1, <3>2
  <2>5. ValidSet(FirstText, ToSet(ds))
    <3>1. ValidSet(FirstText, ToSet(found))
      BY <1>1, ValidDrafts DEF found
    <3> QED BY <2>4, <3>1, SameValidity
  <2>6. \A i, j \in DOMAIN ds : Canonical[ds[i].name] = Canonical[ds[j].name] => i = j
    <3> SUFFICES ASSUME NEW i \in DOMAIN list, NEW j \in DOMAIN list,
                        Canonical[ds[i].name] = Canonical[ds[j].name]
                 PROVE  i = j
      BY <2>3
    <3>1. PICK a \in 1..n : list[i] = row[a]
      BY <1>4, <2>3
    <3>2. PICK b \in 1..n : list[j] = row[b]
      BY <1>4, <2>3
    <3>3. a = b
      BY <1>3, <1>5, <2>3, <3>1, <3>2
    <3> QED BY <2>3, <3>1, <3>2, <3>3
  <2>7. Valid(FirstText, ds)
    BY <2>5, <2>6, ValidDrafts
  <2> QED BY <1>6, <2>7 DEF EditorsKeepConfigurations, Drafts, Listed, ds, list
<1> QED BY <1>8, <1>9, <1>10, <1>11 DEF IInv

\* A step of the API.
LEMMA ApiHolds ==
  ASSUME IInv, Api
  PROVE  IInv'
<1>1. StoreInv /\ Sessions /\ requests \in Nat
  BY DEF IInv, Orders
<1>2. requests' = requests + 1 /\ UNCHANGED <<editor, said, saving>>
  BY DEF Api
<1>3. 1..2 \subseteq Nat /\ Name \ {NoName} \subseteq Name
  OBVIOUS
<1>4. StoreInv' /\ Grows
  <2>1. ASSUME NEW t \in Text, CreateQuery(t) PROVE StoreInv' /\ Grows
    BY <1>1, <2>1, CreateQueryKeeps
  <2>2. ASSUME NEW q \in DOMAIN queries, NEW t \in Text, UpdateQuery(q, t)
        PROVE  StoreInv' /\ Grows
    BY <1>1, <2>2, UpdateQueryKeeps
  <2>3. ASSUME NEW q \in DOMAIN queries, DeleteQuery(q) PROVE StoreInv' /\ Grows
    BY <1>1, <2>3, DeleteQueryKeeps
  <2>4. ASSUME NEW q \in DOMAIN queries, NEW n \in Name \ {NoName}, NEW source \in Source,
               NEW i \in 1..2, AddParameter(q, n, source, i)
        PROVE  StoreInv' /\ Grows
    BY <1>1, <1>3, <2>4, AddParameterKeeps
  <2>5. ASSUME NEW r \in rows, NEW n \in Name \ {NoName}, NEW source \in Source,
               NEW i \in 1..2, UpdateParameter(r, n, source, i)
        PROVE  StoreInv' /\ Grows
    BY <1>1, <1>3, <2>5, UpdateParameterKeeps
  <2>6. ASSUME NEW r \in rows, DeleteParameter(r) PROVE StoreInv' /\ Grows
    BY <1>1, <2>6, DeleteParameterKeeps
  <2>7. ASSUME NEW q \in DOMAIN queries, NEW order \in SetToSeqs({r.id : r \in Own(q)}),
               CheckOrder(q, order)
        PROVE  StoreInv' /\ Grows
    <3>1. IsFiniteSet({r.id : r \in Own(q)})
      <4>1. {r.id : r \in Own(q)} \subseteq 1..lastRow /\ lastRow \in Nat
        BY <1>1 DEF Own, StoreInv, Row
      <4>2. IsFiniteSet(1..lastRow)
        BY <4>1, FS_Interval
      <4> QED BY <4>1, <4>2, FS_Subset
    <3>2. DOMAIN order = 1..Cardinality({r.id : r \in Own(q)})
      BY <2>7 DEF SetToSeqs
    <3>3. DOMAIN order \subseteq Nat
      BY <3>1, <3>2, FS_CardinalityType
    <3> QED BY <1>1, <2>7, <3>3, CheckOrderKeeps
  <2> QED BY <2>1, <2>2, <2>3, <2>4, <2>5, <2>6, <2>7 DEF Api
<1>5. Sessions'
  BY <1>1, <1>2, <1>4, NoSession
<1>6. Orders' /\ EditorsKeepConfigurations'
  BY <1>1, <1>2 DEF Orders, EditorsKeepConfigurations
<1> QED BY <1>4, <1>5, <1>6 DEF IInv

\* The second half of a reordering.
LEMMA FinishOrderHolds ==
  ASSUME IInv, FinishOrder
  PROVE  IInv'
<1>1. StoreInv /\ Sessions /\ WriteOrder /\ UNCHANGED <<editor, said, saving>>
  BY DEF IInv, FinishOrder
<1>2. StoreInv' /\ Grows
  BY <1>1, WriteOrderKeeps
<1>3. Sessions'
  BY <1>1, <1>2, NoSession
<1>4. requests' = requests /\ reorder # NoReorder
  BY DEF FinishOrder, WriteOrder
<1>5. Orders' /\ EditorsKeepConfigurations'
  BY <1>4 DEF IInv, Orders, EditorsKeepConfigurations
<1> QED BY <1>2, <1>3, <1>5 DEF IInv

\* Steps of a session that leave the store alone.
LEMMA StoreUntouched ==
  ASSUME IInv, UNCHANGED <<storeVars, requests>>
  PROVE  StoreInv' /\ Orders' /\ EditorsKeepConfigurations'
<1>1. StoreInv'
  BY StoreRests DEF IInv
<1> QED BY <1>1 DEF IInv, Orders, EditorsKeepConfigurations, Drafts, Listed, Own

\* A step of a session.
LEMMA EditorHolds ==
  ASSUME IInv, NEW s \in Session, Editor(s)
  PROVE  IInv'
<1>1. StoreInv /\ Sessions /\ Orders /\ EditorsKeepConfigurations
  BY DEF IInv
<1>2. ASSUME Sessions', UNCHANGED <<storeVars, requests>> PROVE IInv'
  BY <1>2, StoreUntouched DEF IInv
<1>3. CASE Open(s)
  <2>1. Sessions'
    BY <1>1, <1>3, OpenKeeps
  <2> QED BY <1>2, <1>3, <2>1 DEF Open
<1>4. CASE Detect(s)
  <2>1. Sessions'
    BY <1>1, <1>4, DetectKeeps
  <2> QED BY <1>2, <1>4, <2>1 DEF Detect
<1>5. CASE Add(s)
  <2>1. Sessions'
    BY <1>1, <1>5, AddKeeps
  <2> QED BY <1>2, <1>5, <2>1 DEF Add, Edits
<1>6. CASE RemoveRoute(s)
  <2>1. StoreInv' /\ Sessions'
    BY <1>1, <1>6, RemoveRouteKeeps
  <2>2. requests' = requests /\ reorder' = reorder
    BY <1>6 DEF RemoveRoute, DeleteQuery
  <2>3. EditorsKeepConfigurations'
    BY <1>1, <1>6, <2>2, RemoveConfigurations
  <2> QED BY <1>1, <2>1, <2>2, <2>3 DEF IInv, Orders
<1>7. CASE Close(s)
  <2>1. Sessions'
    BY <1>1, <1>7, CloseKeeps
  <2> QED BY <1>2, <1>7, <2>1 DEF Close
<1>8. CASE Save(s)
  <2>1. StoreInv' /\ Sessions'
    BY <1>1, <1>8, SaveKeeps
  <2>2. requests' = requests /\ reorder' = reorder
    BY <1>8 DEF Save, Store
  <2>3. EditorsKeepConfigurations'
    BY <1>1, <1>8, <2>2, SaveConfigurations
  <2> QED BY <1>1, <2>1, <2>2, <2>3 DEF IInv, Orders
<1>9. CASE ReadBack(s)
  <2>1. Sessions'
    BY <1>1, <1>9, ReadBackKeeps
  <2> QED BY <1>2, <1>9, <2>1 DEF ReadBack
<1>10. ASSUME NEW t \in Text, Type(s, t) PROVE IInv'
  <2>1. Sessions'
    BY <1>1, <1>10, TypeKeeps
  <2> QED BY <1>2, <1>10, <2>1 DEF Type, Edits
<1>11. ASSUME NEW i, MoveUp(s, i) PROVE IInv'
  <2>1. Sessions'
    BY <1>1, <1>11, MoveUpKeeps
  <2> QED BY <1>2, <1>11, <2>1 DEF MoveUp, Edits
<1>12. ASSUME NEW i, RemoveDraft(s, i) PROVE IInv'
  <2>1. Sessions'
    BY <1>1, <1>12, RemoveDraftKeeps
  <2> QED BY <1>2, <1>12, <2>1 DEF RemoveDraft, Edits
<1>13. ASSUME NEW i, NEW n \in Name, Rename(s, i, n) PROVE IInv'
  <2>1. Sessions'
    BY <1>1, <1>13, RenameKeeps
  <2> QED BY <1>2, <1>13, <2>1 DEF Rename, Edits
<1>14. ASSUME NEW i, NEW source \in Source, SetSource(s, i, source) PROVE IInv'
  <2>1. Sessions'
    BY <1>1, <1>14, SetSourceKeeps
  <2> QED BY <1>2, <1>14, <2>1 DEF SetSource, Edits
<1> QED BY <1>3, <1>4, <1>5, <1>6, <1>7, <1>8, <1>9, <1>10, <1>11, <1>12, <1>13, <1>14 DEF Editor

\* No step leaves the invariant.
LEMMA NextHolds ==
  IInv /\ [Next]_vars => IInv'
<1> SUFFICES ASSUME IInv, [Next]_vars PROVE IInv'
  OBVIOUS
<1>1. CASE Api
  BY <1>1, ApiHolds
<1>2. CASE FinishOrder
  BY <1>2, FinishOrderHolds
<1>3. ASSUME NEW s \in Session, Editor(s) PROVE IInv'
  BY <1>3, EditorHolds
<1>4. CASE UNCHANGED vars
  <2>1. UNCHANGED <<storeVars, requests, editor, said, saving>>
    BY <1>4 DEF vars
  <2>2. Sessions'
    BY <2>1 DEF IInv, Sessions, Opens
  <2> QED BY <2>1, <2>2, StoreUntouched DEF IInv
<1> QED BY <1>1, <1>2, <1>3, <1>4 DEF Next

\* The invariant holds of every behaviour.
LEMMA Holds == Spec => []IInv
<1>1. Init => IInv
  BY InitHolds
<1> QED BY <1>1, NextHolds, PTL DEF Spec

-----------------------------------------------------------------------------
(* Theorems *)

\* What the invariant says of the properties.
LEMMA Follows ==
  ASSUME IInv
  PROVE  TypeOK /\ DetectionIsCurrent /\ DraftsStayOwn /\ EditorsKeepConfigurations
<1>1. \A s \in Opens : LET ed == editor[s] IN
        /\ ed \in EditorState /\ ed.query <= lastQuery /\ ed.timers \subseteq 1..ed.generation
        /\ \/ ed.generation \in ed.timers
           \/ ed.timers = {} /\ ed.detected = Detected(ed.text)
        /\ Owned(ed.drafts, ed.query, lastRow, rows)
  BY OpenEditor DEF IInv, Opens
<1>2. TypeOK
  <2>1. \A s \in Opens : /\ editor[s].query \in 0..lastQuery /\ editor[s].text \in Text
                         /\ editor[s].drafts \in Seq(Draft)
                         /\ editor[s].timers \subseteq 1..editor[s].generation
    <3> SUFFICES ASSUME NEW s \in Opens
                 PROVE  /\ editor[s].query \in 0..lastQuery /\ editor[s].text \in Text
                        /\ editor[s].drafts \in Seq(Draft)
                        /\ editor[s].timers \subseteq 1..editor[s].generation
      OBVIOUS
    <3>1. editor[s] \in EditorState /\ lastQuery \in Nat
      BY <1>1 DEF IInv, StoreInv
    <3>2. /\ editor[s].query \in Nat /\ editor[s].text \in Text
          /\ editor[s].drafts \in Seq(Draft)
      BY <3>1 DEF EditorState
    <3> QED BY <1>1, <3>1, <3>2
  <2> QED BY <2>1, KeysHold DEF TypeOK, IInv, Sessions
<1>3. DetectionIsCurrent
  BY <1>1 DEF DetectionIsCurrent
<1>4. DraftsStayOwn
  BY <1>1 DEF DraftsStayOwn, Owned
<1> QED BY <1>2, <1>3, <1>4 DEF IInv

\* Types, and the keys of the tables: no two routes have one address, no two parameters
\* of a route one name, and no id is given twice, whatever sessions and API do together.
THEOREM Types == Spec => []TypeOK
BY Holds, Follows, PTL

\* An editor that waits for no detection shows what its last text names.
THEOREM Detections == Spec => []DetectionIsCurrent
BY Holds, Follows, PTL

\* No draft names a row of another route.
THEOREM Ownership == Spec => []DraftsStayOwn
BY Holds, Follows, PTL

\* Editors alone leave every stored route with a valid configuration.
THEOREM Configurations == Spec => []EditorsKeepConfigurations
BY Holds, Follows, PTL

\* A save that ends in a conflict had the address of another route, or one of its rows has
\* the temporary name of another, which the API alone can give it
\* (save_query_configuration): no other names ever collide while the snapshot is written.
THEOREM Conflicts == Spec => SwapsDoNotConflict
<1> DEFINE Goal == \A s \in Session : said'[s] = "conflict" /\ said[s] # "conflict" =>
                     \/ AddressTaken(editor[s].text, editor[s].query)
                     \/ requests > 0 /\ TemporaryNamed(s)
<1>1. ASSUME IInv, [Next]_vars, NEW s \in Session, said'[s] = "conflict", said[s] # "conflict"
      PROVE  \/ AddressTaken(editor[s].text, editor[s].query)
             \/ requests > 0 /\ TemporaryNamed(s)
  <2> DEFINE ed == editor[s]
  <2>1. said \in [Session -> {"nothing", "saved", "refused", "conflict", "failed"}]
    BY <1>1 DEF IInv, Sessions
  <2>2. PICK o \in Session : Editor(o)
    BY <1>1 DEF Next, Api, FinishOrder, vars, counters
  <2>3. Save(s)
    <3>1. Save(o) \/ Open(o) \/ ReadBack(o)
      BY <1>1, <2>2 DEF Editor, Detect, Add, RemoveRoute, Close, Type, MoveUp, RemoveDraft,
                        Rename, SetSource, Edits
    <3>2. ~Open(o) /\ ~ReadBack(o)
      BY <1>1, <2>1 DEF Open, ReadBack, Says
    <3>3. o = s
      BY <1>1, <2>1, <3>1, <3>2 DEF Save, Says
    <3> QED BY <3>1, <3>2, <3>3
  <2>4. ed.query \in Nat /\ ed.drafts \in Seq(Draft)
    BY <1>1, <2>3, OpenEditor DEF Save, IInv, EditorState
  <2>5. SaveOutcome(ed.query, ed.text, ed.drafts) = "conflict"
    <3> DEFINE outcome == SaveOutcome(ed.query, ed.text, ed.drafts)
    <3>1. \/ said' = said
          \/ \E other \in ({outcome} \ {"stored"}) \cup {"refused" : d \in ToSet(ed.drafts)} :
               said' = [said EXCEPT ![s] = other]
          \/ said' = [said EXCEPT ![s] = "failed"]
      BY <2>3 DEF Save, Says
    <3> HIDE DEF outcome
    <3>2. outcome = "conflict"
      BY <1>1, <2>1, <3>1
    <3> QED BY <3>2 DEF outcome
  <2>6. AddressTaken(ed.text, ed.query) \/ ~Untemporary(Own(ed.query), ed.drafts)
    BY <1>1, <2>4, <2>5, Outcomes DEF IInv
  <2>7. ASSUME ~Untemporary(Own(ed.query), ed.drafts) PROVE requests > 0 /\ TemporaryNamed(s)
    <3>1. PICK i \in DOMAIN ed.drafts, r \in Own(ed.query) :
            /\ ed.drafts[i].id # 0 /\ r.id # ed.drafts[i].id
            /\ r.name = TemporaryName(ed.drafts[i].id)
      BY <2>7 DEF Untemporary
    <3>2. TemporaryNamed(s)
      BY <3>1 DEF TemporaryNamed, ToSet
    <3>3. requests # 0
      <4> SUFFICES ASSUME requests = 0 PROVE FALSE
        OBVIOUS
      <4>1. r \in rows /\ r.query = ed.query /\ ed.query \in DOMAIN queries
        BY <1>1, <3>1 DEF Own, IInv, StoreInv
      <4>2. Valid(queries[ed.query], Drafts(ed.query))
        BY <1>1, <4>1 DEF IInv, EditorsKeepConfigurations
      <4>3. Canonical[r.name] \notin Reserved
        <5>1. Keyed(Own(ed.query))
          BY <1>1, OwnRows DEF IInv
        <5>2. PICK j \in DOMAIN Listed(ed.query) :
                /\ j \in DOMAIN Drafts(ed.query)
                /\ Drafts(ed.query)[j].name = r.name
          BY <3>1, <5>1, DraftRows DEF Drafts, Listed
        <5> QED BY <4>2, <5>2, NamesAllowed
      <4>4. r.name \in Nat
        BY <1>1, <4>1, StoreAssumption DEF IInv, StoreInv, Row
      <4>5. ed.drafts[i].id \in Nat \ {0}
        <5> DEFINE ps == ed.drafts
        <5>1. ps \in Seq(Draft)
          BY <2>4
        <5>2. ps[i].id # 0 /\ i \in DOMAIN ps
          BY <3>1
        <5> HIDE DEF ps
        <5>3. DOMAIN ps = 1..Len(ps)
          BY <5>1, LenProperties
        <5>4. ps[i] \in Draft
          BY <5>1, <5>2, <5>3, ElementOfSeq
        <5>5. ps[i].id \in Nat \ {0}
          BY <5>2, <5>4 DEF Draft
        <5> QED BY <5>5 DEF ps
      <4>6. r.name \in Reserved /\ Canonical[r.name] = r.name
        BY <3>1, <4>4, <4>5, StoreAssumption DEF TemporaryName
      <4> QED BY <4>3, <4>6
    <3> QED BY <1>1, <3>2, <3>3 DEF IInv, Orders
  <2> QED BY <2>6, <2>7
<1>2. IInv /\ [Next]_vars => [Goal]_vars
  BY <1>1
<1>3. Spec => [][Goal]_vars
  BY <1>2, Holds, PTL DEF Spec
<1> QED BY <1>3 DEF SwapsDoNotConflict

\* A save stores the drafts the session sees, in their order, keeps the ids it had read
\* and leaves the rows of other routes alone.
THEOREM Snapshots == Spec => SaveStoresSnapshot
<1> DEFINE Goal ==
      \A s \in Session : \A q \in DOMAIN queries' :
        s \in saving' \ saving /\ q = editor'[s].query =>
        LET drafts == editor[s].drafts
            stored == Drafts(q)'
        IN  /\ queries'[q] = editor[s].text
            /\ Len(stored) = Len(drafts)
            /\ \A i \in DOMAIN drafts :
                 /\ stored[i].name = Canonical[drafts[i].name]
                 /\ stored[i].source = drafts[i].source
                 /\ drafts[i].id # 0 => stored[i].id = drafts[i].id
            /\ {r \in rows' : r.query # q} = {r \in rows : r.query # q}
<1>1. ASSUME IInv, [Next]_vars, NEW s \in Session, NEW q \in DOMAIN queries',
             s \in saving' \ saving, q = editor'[s].query
      PROVE  LET drafts == editor[s].drafts
                 stored == DraftsOf(Ordered({r \in rows' : r.query = q}))
             IN  /\ queries'[q] = editor[s].text
                 /\ Len(stored) = Len(drafts)
                 /\ \A i \in DOMAIN drafts :
                      /\ stored[i].name = Canonical[drafts[i].name]
                      /\ stored[i].source = drafts[i].source
                      /\ drafts[i].id # 0 => stored[i].id = drafts[i].id
                 /\ {r \in rows' : r.query # q} = {r \in rows : r.query # q}
  <2> DEFINE ed == editor[s]
  <2>1. PICK o \in Session : Editor(o)
    BY <1>1 DEF Next, Api, FinishOrder, vars, counters
  <2>2. Save(s)
    <3>1. Save(o)
      BY <1>1, <2>1 DEF Editor, Open, ReadBack, Detect, Add, RemoveRoute, Close, Type, MoveUp,
                        RemoveDraft, Rename, SetSource, Edits
    <3>2. o = s
      BY <1>1, <3>1 DEF Save
    <3> QED BY <3>1, <3>2
  <2>3. ed.query \in Nat /\ ed.drafts \in Seq(Draft) /\ DOMAIN ed.drafts = 1..Len(ed.drafts)
    BY <1>1, <2>2, OpenEditor, OpenDrafts DEF Save, IInv, EditorState
  <2>4. /\ SaveOutcome(ed.query, ed.text, ed.drafts) = "stored"
        /\ Store(ed.query, ed.text, ed.drafts)
        /\ editor' = [editor EXCEPT ![s].query = Target(ed.query)]
    BY <1>1, <2>2 DEF Save
  <2>5. q = Target(ed.query)
    BY <1>1, <2>3, <2>4, OpenEditor DEF IInv, Sessions, Save, EditorState
  <2>6. queries'[q] = ed.text
    <3>1. queries' = [p \in DOMAIN queries \cup {q} |-> IF p = q THEN ed.text ELSE queries[p]]
      BY <2>4, <2>5 DEF Store
    <3> QED BY <3>1
  <2> DEFINE stored == DraftsOf(Ordered({r \in rows' : r.query = q}))
  <2>7. /\ Len(stored) = Len(ed.drafts)
        /\ \A i \in 1..Len(ed.drafts) : /\ stored[i].name = Canonical[ed.drafts[i].name]
                                        /\ stored[i].source = ed.drafts[i].source
                                        /\ ed.drafts[i].id # 0 => stored[i].id = ed.drafts[i].id
        /\ {r \in rows' : r.query # q} = {r \in rows : r.query # q}
    <3>1. StoreInv
      BY <1>1 DEF IInv
    <3> DEFINE k == Target(ed.query)
               read == DraftsOf(Ordered({r \in rows' : r.query = k}))
    <3>2. /\ Len(read) = Len(ed.drafts)
          /\ \A i \in 1..Len(ed.drafts) :
               /\ read[i].name = Canonical[ed.drafts[i].name]
               /\ read[i].source = ed.drafts[i].source
               /\ ed.drafts[i].id # 0 => read[i].id = ed.drafts[i].id
          /\ {r \in rows' : r.query # k} = {r \in rows : r.query # k}
      BY <2>3, <2>4, <3>1, SavedDrafts
    <3> HIDE DEF k
    <3>3. q = k
      BY <2>5 DEF k
    <3> QED BY <3>2, <3>3
  <2> HIDE DEF stored
  <2> QED BY <2>3, <2>6, <2>7 DEF stored
<1>2. IInv /\ [Next]_vars => [Goal]_vars
  BY <1>1 DEF Drafts, Listed, Own
<1>3. Spec => [][Goal]_vars
  BY <1>2, Holds, PTL DEF Spec
<1> QED BY <1>3 DEF SaveStoresSnapshot

\* A detection removes no draft and moves none, and changes of one only the case of its
\* name and the source of a placeholder.
THEOREM Keeping == Spec => DetectionKeepsDrafts
<1> DEFINE Goal ==
      \A s \in Session : Detect(s) =>
        LET before == editor[s].drafts
            after == editor'[s].drafts
        IN  /\ Len(after) >= Len(before)
            /\ \A i \in DOMAIN before :
                 /\ after[i].id = before[i].id
                 /\ Canonical[after[i].name] = Canonical[before[i].name]
                 /\ \/ after[i].source = before[i].source
                    \/ after[i].source = "path" /\ after[i].name \in PathNames(editor[s].text)
<1>1. ASSUME IInv, NEW s \in Session, Detect(s)
      PROVE  LET before == editor[s].drafts
                 after == editor'[s].drafts
             IN  /\ Len(after) >= Len(before)
                 /\ \A i \in DOMAIN before :
                      /\ after[i].id = before[i].id
                      /\ Canonical[after[i].name] = Canonical[before[i].name]
                      /\ \/ after[i].source = before[i].source
                         \/ /\ after[i].source = "path"
                            /\ after[i].name \in PathNames(editor[s].text)
  <2> DEFINE ed == editor[s]
             before == ed.drafts
             after == editor'[s].drafts
             n == Len(before)
  <2>1. /\ ed \in EditorState /\ before \in Seq(Draft) /\ n \in Nat /\ DOMAIN before = 1..n
        /\ \A i \in 1..n : before[i] \in Draft
        /\ ed.text \in Text
    BY <1>1, OpenEditor, OpenDrafts DEF IInv, Detect
  <2>2. \/ after = before
        \/ \E sup : after = Merged(before, ed.text, sup)
    <3>1. PICK g : \/ editor'[s] = [ed EXCEPT !.timers = @ \ {g}]
                   \/ editor'[s] = Synchronized([ed EXCEPT !.timers = @ \ {g}])
      BY <1>1 DEF Detect, IInv, Sessions
    <3> DEFINE rest == [ed EXCEPT !.timers = @ \ {g}]
    <3>2. rest.drafts = before /\ rest.text = ed.text /\ rest.suppressed = ed.suppressed
      BY <2>1 DEF EditorState
    <3>3. rest \in EditorState
      BY <2>1 DEF EditorState
    <3> HIDE DEF rest
    <3>4. Synchronized(rest).drafts
          = Merged(before, ed.text, ed.suppressed \cap Detected(ed.text))
      BY <3>2, <3>3 DEF Synchronized, EditorState
    <3> QED BY <3>1, <3>2, <3>4 DEF rest
  <2>3. CASE after = before
    BY <2>1, <2>3
  <2>4. ASSUME NEW sup, after = Merged(before, ed.text, sup)
        PROVE  /\ Len(after) >= n
               /\ \A i \in 1..n :
                    /\ after[i].id = before[i].id
                    /\ Canonical[after[i].name] = Canonical[before[i].name]
                    /\ \/ after[i].source = before[i].source
                       \/ after[i].source = "path" /\ after[i].name \in PathNames(ed.text)
    <3> HIDE DEF before, after
    <3>1. Len(after) >= n /\ \A i \in 1..n : after[i] = Renamed(before, ed.text)[i]
      BY <2>1, <2>4, MergedDrafts
    <3>2. \A i \in 1..n :
            /\ Renamed(before, ed.text)[i].id = before[i].id
            /\ Renamed(before, ed.text)[i].name = Canonical[before[i].name]
            /\ \/ Renamed(before, ed.text)[i].source = before[i].source
               \/ /\ Renamed(before, ed.text)[i].source = "path"
                  /\ Renamed(before, ed.text)[i].name \in PathNames(ed.text)
      BY <2>1, RenamedDrafts
    <3>3. \A i \in 1..n : Canonical[Canonical[before[i].name]] = Canonical[before[i].name]
      BY <2>1, StoreAssumption DEF Draft
    <3> QED BY <3>1, <3>2, <3>3
  <2> QED BY <2>1, <2>2, <2>3, <2>4
<1>2. IInv => Goal
  BY <1>1
<1>3. Spec => [][Goal]_vars
  BY <1>2, Holds, PTL DEF Spec
<1> QED BY <1>3 DEF DetectionKeepsDrafts
====
