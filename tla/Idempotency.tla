---- MODULE Idempotency ----
(***************************************************************************)
(* The table idempotency_records and its operations: app/core/             *)
(* idempotency.py. Each operation is one SQLite transaction, so it is one  *)
(* action here; the modules that use it say who calls it and when.         *)
(*                                                                         *)
(* A scope stands for (access key, method, route path, hash of the         *)
(* Idempotency-Key). A second request in the same scope is refused whether *)
(* or not its payload differs (only the message changes), so payloads are  *)
(* not represented. The primary key is a plain SQLite INTEGER PRIMARY KEY  *)
(* (no AUTOINCREMENT): a new row gets one more than the largest id left.   *)
(***************************************************************************)
EXTENDS Integers, FiniteSets

CONSTANTS Scope,       \* scopes of idempotency keys
          AccessKey,   \* access keys
          KeyOf,       \* the access key each scope belongs to
          TTL          \* idempotency_ttl_hours, in units of the clock

ASSUME IdempotencyAssumption == /\ KeyOf \in [Scope -> AccessKey]
                                /\ TTL \in Nat \ {0}

VARIABLES records,     \* the rows of idempotency_records
          accessKeys,  \* the access keys that exist
          now          \* the clock

storeVars == <<records, accessKeys, now>>

Record == [id : Nat \ {0}, scope : Scope, status : {"running", "completed"}, expires : Nat]

InitStore == records = {} /\ accessKeys = AccessKey /\ now = 0

\* Mutant of Unexpired: rows expire one tick early.
UnexpiredEarly == {r \in records : r.expires > now + 1}

Unexpired == {r \in records : r.expires > now}

\* Mutant of NextId: ids from zero.
NextIdFromZero(rows) == Cardinality(rows)

NextId(rows) == IF rows = {} THEN 1
                ELSE 1 + (CHOOSE i \in {r.id : r \in rows} : \A r \in rows : r.id <= i)

\* Mutant of Taken: a row still in progress does not count.
TakenIfCompleted(s) == \E r \in Unexpired : r.scope = s /\ r.status = "completed"

Taken(s) == \E r \in Unexpired : r.scope = s

\* begin: expired rows go; a scope with a row left is refused, and otherwise its
\* row is inserted, if its access key still exists (foreign key).
BeginAdmits(s) == /\ ~Taken(s)
                  /\ KeyOf[s] \in accessKeys
                  /\ records' = Unexpired \cup
                       {[id |-> NextId(Unexpired), scope |-> s, status |-> "running",
                         expires |-> now + TTL]}
                  /\ UNCHANGED <<accessKeys, now>>

BeginRefuses(s) == /\ Taken(s)
                   /\ records' = Unexpired
                   /\ UNCHANGED <<accessKeys, now>>

\* The foreign key fails and the transaction rolls back.
BeginFails(s) == /\ ~Taken(s)
                 /\ KeyOf[s] \notin accessKeys
                 /\ UNCHANGED storeVars

IsRunning(i) == \E r \in records : r.id = i /\ r.status = "running"

\* complete: UPDATE ... WHERE id = ? AND status = 'running'; the caller raises
\* when no row is left to update.
Complete(i) == /\ records' = {IF r.id = i /\ r.status = "running"
                              THEN [r EXCEPT !.status = "completed"] ELSE r : r \in records}
               /\ UNCHANGED <<accessKeys, now>>

\* Mutant of Abandon: the id is forgotten.
AbandonAny(i) == /\ records' = {r \in records : r.status # "running"}
                 /\ UNCHANGED <<accessKeys, now>>

\* abandon: DELETE ... WHERE id = ? AND status = 'running'.
Abandon(i) == /\ records' = {r \in records : r.id # i \/ r.status # "running"}
              /\ UNCHANGED <<accessKeys, now>>

\* Deleting an access key deletes its rows (ON DELETE CASCADE).
DeleteKey(k) == /\ k \in accessKeys
                /\ accessKeys' = accessKeys \ {k}
                /\ records' = {r \in records : KeyOf[r.scope] # k}
                /\ UNCHANGED now
====
