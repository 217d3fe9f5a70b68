---- MODULE QueryStore ----
(***************************************************************************)
(* The tables queries and parameters, and the operations of                *)
(* app/core/query_service.py on them. Each operation is one transaction,   *)
(* but for reordering, which reads the parameters before it opens one.     *)
(*                                                                         *)
(* A text stands for the path, the method and the SQL of a route: what the *)
(* lexer and the SQL policy say of it is given by constants. Types,        *)
(* defaults, rules and descriptions of parameters are data nobody here     *)
(* tells apart. Names are numbers, ordered as the table orders them; the   *)
(* temporary names of a save are among them where somebody may type them.  *)
(***************************************************************************)
EXTENDS Integers, Sequences, FiniteSets, SequencesExt

CONSTANTS Text,        \* texts of routes
          Address,     \* normalized path and method of each text
          Candidates,  \* what detect_parameters finds in each text, in order
          Accepted,    \* texts that pass the schema and the SQL policy
          Get,         \* texts whose method is GET
          Name,        \* names of parameters as they may be typed
          NoName,      \* the empty name
          Canonical,   \* upper case
          Reserved,    \* names of the query options, and those that begin with "__F2A_"
          Temporary    \* by the id of a parameter, its temporary name, if that is in Name

Source == {"path", "query", "body"}

ASSUME StoreAssumption ==
  /\ Name \subseteq Nat \ {0} /\ NoName \in Name
  /\ Canonical \in [Name -> Name]
  /\ \A n \in Name : Canonical[Canonical[n]] = Canonical[n]
  /\ Reserved \subseteq Name
  /\ Candidates \in [Text -> Seq([name : Name, source : {"path", "query", "body"}])]
  /\ Accepted \subseteq Text /\ Get \subseteq Text
  /\ DOMAIN Address = Text
  /\ DOMAIN Temporary \subseteq Nat \ {0} /\ IsInjective(Temporary)
  /\ \A id \in DOMAIN Temporary : /\ Temporary[id] \in Reserved
                                  /\ Canonical[Temporary[id]] = Temporary[id]

VARIABLES queries,    \* the text of each row of queries
          rows,       \* the rows of parameters
          lastQuery,  \* the last id given in queries (AUTOINCREMENT)
          lastRow,    \* the last id given in parameters
          reorder     \* a reordering that has read the ids of its query

storeVars == <<queries, rows, lastQuery, lastRow, reorder>>

NoReorder == [query |-> 0, order |-> <<>>]

\* A metastore in which one route has been saved with what was detected in it.
InitStore(first) ==
  /\ queries = <<first>>
  /\ rows = {[id |-> i, query |-> 1, name |-> Candidates[first][i].name,
              source |-> Candidates[first][i].source, position |-> i] :
             i \in DOMAIN Candidates[first]}
  /\ lastQuery = 1 /\ lastRow = Len(Candidates[first])
  /\ reorder = NoReorder

-----------------------------------------------------------------------------
(* Reading and validating *)

Own(q) == {r \in rows : r.query = q}

\* ORDER BY position, name.
Before(r, s) == r.position < s.position \/ (r.position = s.position /\ r.name < s.name)
Ordered(own) == CHOOSE list \in SetToSeqs(own) :
                  \A i, j \in DOMAIN list : i < j => Before(list[i], list[j])
Listed(q) == Ordered(Own(q))

Detected(t) == {c.name : c \in ToSet(Candidates[t])}
PathNames(t) == {c.name : c \in {d \in ToSet(Candidates[t]) : d.source = "path"}}

NamesOf(ps) == {Canonical[p.name] : p \in ToSet(ps)}

\* validate_parameter_configuration.
Valid(t, ps) ==
  /\ t \in Accepted
  /\ NoName \notin NamesOf(ps) /\ NamesOf(ps) \cap Reserved = {}
  /\ \A i, j \in DOMAIN ps : Canonical[ps[i].name] = Canonical[ps[j].name] => i = j
  /\ Detected(t) \subseteq NamesOf(ps)
  /\ PathNames(t) = {Canonical[p.name] : p \in {p \in ToSet(ps) : p.source = "path"}}
  /\ t \in Get => \A p \in ToSet(ps) : p.source # "body"

\* UNIQUE(route_path, method).
AddressTaken(t, q) == \E p \in DOMAIN queries \ {q} : Address[queries[p]] = Address[t]

\* UNIQUE(query_id, name), without regard to case.
Clashes(own, id, name) == \E r \in own : r.id # id /\ r.name = name

-----------------------------------------------------------------------------
(* save_query_configuration *)

Retained(ps) == {ps[i].id : i \in DOMAIN ps} \ {0}

\* Every draft that came from the table came from this route, once.
OwnIds(own, ps) == /\ \A i, j \in DOMAIN ps : ps[i].id = ps[j].id /\ ps[i].id # 0 => i = j
                   /\ Retained(ps) \subseteq {r.id : r \in own}

\* "__f2a_tmp_<id>", as the index compares it.
TemporaryName(id) == IF id \in DOMAIN Temporary THEN Temporary[id] ELSE -id

\* The rows that stay get temporary names, one by one in the order of the drafts: a row
\* that has its own name still may have the one that comes next.
InTheWay(own, ps) ==
  \E i \in DOMAIN ps : \E r \in own :
    /\ ps[i].id # 0 /\ r.id # ps[i].id /\ r.name = TemporaryName(ps[i].id)
    /\ \A j \in 1..i - 1 : ps[j].id # r.id

\* Mutant of Parked: the rows keep their names until they get the new ones.
ParkedNot(own) == own

\* All of them parked, so that renames and swaps do not collide.
Parked(own) == {[r EXCEPT !.name = TemporaryName(r.id)] : r \in own}

\* Mutant of NextRow: the ids of removed rows are given again.
NextRowReused(own, last) == Cardinality(own) + 1
NextRow(own, last) == last + 1

\* Mutant of Stored: the update of a row leaves its source out.
StoredSourceKept(own, row) ==
  {r \in own : r.id # row.id}
  \cup {IF \E r \in own : r.id = row.id
        THEN [row EXCEPT !.source = (CHOOSE r \in own : r.id = row.id).source] ELSE row}

Stored(own, row) == {r \in own : r.id # row.id} \cup {row}

\* One draft inserted or updated, at position i, unless a name collides.
Put(q, ps, table, i) ==
  LET id == IF ps[i].id = 0 THEN NextRow(table.own, table.last) ELSE ps[i].id
      name == Canonical[ps[i].name]
      row == [id |-> id, query |-> q, name |-> name, source |-> ps[i].source, position |-> i]
  IN  IF ~table.ok \/ Clashes(table.own, id, name)
      THEN [ok |-> FALSE, own |-> table.own, last |-> table.last]
      ELSE [ok |-> TRUE, own |-> Stored(table.own, row),
            last |-> IF ps[i].id = 0 THEN id ELSE table.last]

\* Mutant of Written: the rows that are no longer among the drafts stay.
WrittenOver(q, own, ps) ==
  LET table[i \in 0..Len(ps)] ==
        IF i = 0 THEN [ok |-> ~InTheWay(own, ps), own |-> Parked(own), last |-> lastRow]
        ELSE Put(q, ps, table[i - 1], i)
  IN  table[Len(ps)]

Kept(own, ps) == {r \in own : r.id \in Retained(ps)}

\* Rows that are not retained are deleted, the others parked, then the drafts written.
Written(q, own, ps) ==
  LET table[i \in 0..Len(ps)] ==
        IF i = 0 THEN [ok |-> ~InTheWay(Kept(own, ps), ps), own |-> Parked(Kept(own, ps)),
                       last |-> lastRow]
        ELSE Put(q, ps, table[i - 1], i)
  IN  table[Len(ps)]

\* The query the snapshot is saved in; 0 asks for a new one.
Target(q) == IF q = 0 THEN lastQuery + 1 ELSE q

\* How a save ends: "refused" is a ValueError, "conflict" an IntegrityError.
SaveOutcome(q, t, ps) ==
  CASE ~Valid(t, ps) \/ (q # 0 /\ q \notin DOMAIN queries) -> "refused"
    [] Valid(t, ps) /\ (q = 0 \/ q \in DOMAIN queries) /\ AddressTaken(t, q) -> "conflict"
    [] OTHER -> IF ~OwnIds(Own(q), ps) THEN "refused"
                ELSE IF Written(Target(q), Own(q), ps).ok THEN "stored" ELSE "conflict"

\* The whole snapshot or nothing.
Store(q, t, ps) ==
  LET id == Target(q)
      written == Written(id, Own(q), ps)
  IN  /\ queries' = [p \in DOMAIN queries \cup {id} |-> IF p = id THEN t ELSE queries[p]]
      /\ rows' = (rows \ Own(q)) \cup written.own
      /\ lastQuery' = IF q = 0 THEN id ELSE lastQuery
      /\ lastRow' = written.last
      /\ UNCHANGED reorder

-----------------------------------------------------------------------------
(* The operations of the administrative API. What they refuse changes nothing. *)

CreateQuery(t) ==
  /\ t \in Accepted /\ ~AddressTaken(t, 0)
  /\ lastQuery' = lastQuery + 1
  /\ queries' = [p \in DOMAIN queries \cup {lastQuery + 1} |->
                   IF p = lastQuery + 1 THEN t ELSE queries[p]]
  /\ UNCHANGED <<rows, lastRow, reorder>>

UpdateQuery(q, t) ==
  /\ q \in DOMAIN queries /\ t \in Accepted /\ ~AddressTaken(t, q)
  /\ queries' = [queries EXCEPT ![q] = t]
  /\ UNCHANGED <<rows, lastQuery, lastRow, reorder>>

\* The rows of parameters go with their query (ON DELETE CASCADE).
DeleteQuery(q) ==
  /\ q \in DOMAIN queries
  /\ queries' = [p \in DOMAIN queries \ {q} |-> queries[p]]
  /\ rows' = rows \ Own(q)
  /\ UNCHANGED <<lastQuery, lastRow, reorder>>

\* The caller may give a position; without one it is the largest and one more,
\* which another addition may have taken since.
AddParameter(q, name, source, position) ==
  /\ q \in DOMAIN queries
  /\ ~Clashes(Own(q), 0, Canonical[name])
  /\ lastRow' = NextRow(rows, lastRow)
  /\ rows' = rows \cup {[id |-> NextRow(rows, lastRow), query |-> q, name |-> Canonical[name],
                         source |-> source, position |-> position]}
  /\ UNCHANGED <<queries, lastQuery, reorder>>

UpdateParameter(r, name, source, position) ==
  /\ r \in rows
  /\ ~Clashes(Own(r.query), r.id, Canonical[name])
  /\ rows' = (rows \ {r}) \cup {[r EXCEPT !.name = Canonical[name], !.source = source,
                                          !.position = position]}
  /\ UNCHANGED <<queries, lastQuery, lastRow, reorder>>

DeleteParameter(r) ==
  /\ r \in rows
  /\ rows' = rows \ {r}
  /\ UNCHANGED <<queries, lastQuery, lastRow, reorder>>

\* The new order must name the ids of the query, each once; they are read outside
\* the transaction that writes the positions.
CheckOrder(q, order) ==
  /\ reorder = NoReorder
  /\ order # <<>> /\ IsInjective(order) /\ ToSet(order) = {r.id : r \in Own(q)}
  /\ reorder' = [query |-> q, order |-> order]
  /\ UNCHANGED <<queries, rows, lastQuery, lastRow>>

WriteOrder ==
  LET order == reorder.order
  IN  /\ reorder # NoReorder
      /\ rows' = {IF r.id \in ToSet(order)
                  THEN [r EXCEPT !.position = CHOOSE i \in DOMAIN order : order[i] = r.id]
                  ELSE r : r \in rows}
      /\ reorder' = NoReorder
      /\ UNCHANGED <<queries, lastQuery, lastRow>>
====
