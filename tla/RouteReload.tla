---- MODULE RouteReload ----
(***************************************************************************)
(* Publication of the dynamic routes: app/core/dynamic_loader.py, the      *)
(* administrative operations that call it (app/admin/router.py, app/ui.py) *)
(* and the cached OpenAPI schema of app/main.py.                           *)
(*                                                                         *)
(* Each administrative operation changes the metastore and then reloads:   *)
(* it reads the active routes, stores a new router in the loader, and      *)
(* replaces the dynamic routes of the application by that router. The last *)
(* two are each done under the loader's lock, the whole is not. Operations *)
(* run in threads of their own, requests are routed and the schema is      *)
(* generated on the event loop meanwhile. The process may end anywhere;    *)
(* when it starts, it brings the metastore to its revision and loads.      *)
(***************************************************************************)
EXTENDS Integers, FiniteSets, Sequences

CONSTANTS Route,     \* (path, method) pairs
          Operator,  \* administrative operations, which may overlap
          MaxEdits,      \* bound on changes of the metastore
          MaxMetaFaults, \* bound on its failures
          MaxCrashes     \* bound on ends of the process

ASSUME RouteAssumption == MaxEdits \in Nat /\ MaxMetaFaults \in Nat /\ MaxCrashes \in Nat

VARIABLES
  process,   \* where the process is in its life
  tables,    \* which tables the metastore has; the mark of its revision comes last
  crashes,   \* ends of the process so far
  stored,    \* the queries and parameters tables: per route, its two versions
  edits,     \* changes made so far; each gives what it changes a new version
  pc,        \* where each operation is
  rows,      \* queries each operation has read, completed with their parameters
  lock,      \* who is applying routes to the application
  router,    \* routes of the loader's current router
  front,     \* dynamic routers in the application, ahead of the "/" mount
  behind,    \* dynamic routers just included, still behind it
  schema,    \* app.openapi_schema
  building,  \* the schema being generated
  faults,    \* failures of the metastore so far
  mixed      \* whether operations, or one and a schema, overlapped, or one failed, since
             \* the last operation that began with nothing under way

loadVars == <<rows, router>>
appVars == <<lock, front, behind>>
docVars == <<schema, building>>
life == <<process, tables, crashes>>
vars == <<life, stored, edits, pc, loadVars, appVars, docVars, faults, mixed>>

\* A route's row in queries and its rows in parameters, by version, and whether the loader's
\* validation accepts the two together; version 0 is an inactive or deleted route.
Definition == [query : 0..MaxEdits, parameters : 0..MaxEdits, valid : BOOLEAN]
Inactive == [query |-> 0, parameters |-> 0, valid |-> FALSE]
Published == [Route -> Definition]

Nothing == [q \in Route |-> Inactive]
NoSchema == <<>>

Init == /\ process = "down" /\ tables = "none" /\ crashes = 0
        /\ stored = Nothing /\ edits = 0
        /\ pc = [o \in Operator |-> "idle"]
        /\ rows = [o \in Operator |-> Nothing]
        /\ lock = {}
        /\ router = Nothing
        /\ front = <<>> /\ behind = <<>>
        /\ schema = NoSchema /\ building = NoSchema
        /\ faults = 0 /\ mixed = FALSE

Goto(o, from, to) == pc[o] = from /\ pc' = [pc EXCEPT ![o] = to]

Quiet == \A o \in Operator : pc[o] = "idle"

\* An operation begins.
Begins == mixed' = (~Quiet \/ building # NoSchema)

\* Mutant of Loaded: no route is validated.
LoadedUnchecked(read) == read

\* The routes of what was read: a route with an invalid configuration is logged and left out.
Loaded(read) == [q \in Route |-> IF read[q].valid THEN read[q] ELSE Inactive]

-----------------------------------------------------------------------------
(* The process: the revision of the metastore, the routes, requests           *)

\* upgrade_metastore: nothing to do for a metastore that has its revision.
Boot == /\ process = "down" /\ tables # "some"
        /\ process' = IF tables = "all" THEN "loading" ELSE "migrating"
        /\ UNCHANGED <<tables, crashes, stored, edits, pc, loadVars, appVars, docVars, faults,
                       mixed>>

\* A revision that was begun and not marked is begun again, and meets its own tables.
BootFails == process = "down" /\ tables = "some" /\ UNCHANGED vars

\* Each CREATE commits by itself (transactional_ddl=False); the mark comes last.
Migrate == /\ process = "migrating"
           /\ IF tables = "none" THEN tables' = "some" /\ UNCHANGED process
              ELSE tables' = "all" /\ process' = "loading"
           /\ UNCHANGED <<crashes, stored, edits, pc, loadVars, appVars, docVars, faults, mixed>>

\* load_routes and apply_to_app, before the first request.
Serve == /\ process = "loading" /\ process' = "serving"
         /\ router' = Loaded(stored) /\ front' = <<Loaded(stored)>>
         /\ mixed' = FALSE
         /\ UNCHANGED <<tables, crashes, stored, edits, pc, rows, lock, behind, docVars, faults>>

\* The process ends anywhere, by itself if a read of the start fails; what is stored stays.
Crash == /\ process # "down" /\ process' = "down"
         /\ crashes < MaxCrashes /\ crashes' = crashes + 1
         /\ pc' = [o \in Operator |-> "idle"] /\ rows' = [o \in Operator |-> Nothing]
         /\ lock' = {} /\ router' = Nothing /\ front' = <<>> /\ behind' = <<>>
         /\ schema' = NoSchema /\ building' = NoSchema /\ mixed' = FALSE
         /\ UNCHANGED <<tables, stored, edits, faults>>

-----------------------------------------------------------------------------
(* The operation: one transaction, then the reload *)

\* Create, update, delete or save a route with its parameters, or change its
\* parameters alone. The administrative API stores a route before its parameters, and these
\* one by one: what is stored need not be valid.
Edit(o) ==
  /\ process = "serving" /\ edits < MaxEdits /\ edits' = edits + 1
  /\ Goto(o, "idle", "load")
  /\ \E q \in Route :
       \/ stored' = [stored EXCEPT ![q] = Inactive]
       \/ \E query \in {stored[q].query, edits'}, valid \in BOOLEAN :
            /\ query # 0
            /\ stored' = [stored EXCEPT ![q] =
                            [query |-> query, parameters |-> edits', valid |-> valid]]
  /\ Begins
  /\ UNCHANGED <<life, loadVars, appVars, docVars, faults>>

\* POST /routes/refresh: the reload alone.
Refresh(o) ==
  /\ process = "serving" /\ Goto(o, "idle", "load") /\ Begins
  /\ UNCHANGED <<life, stored, edits, loadVars, appVars, docVars, faults>>

\* load_routes: the active queries are one SELECT, their parameters further ones.
LoadQueries(o) ==
  /\ Goto(o, "load", "parameters")
  /\ rows' = [rows EXCEPT ![o] = stored]
  /\ UNCHANGED <<life, stored, edits, router, appVars, docVars, faults, mixed>>

\* Either read fails: the operation ends with an error, its change stored and the
\* routes as they were.
LoadFails(o) ==
  /\ faults < MaxMetaFaults /\ faults' = faults + 1 /\ mixed' = TRUE
  /\ Goto(o, "load", "idle") \/ Goto(o, "parameters", "idle")
  /\ UNCHANGED <<life, stored, edits, loadVars, appVars, docVars>>

\* A statement and parameters that were read with a change between them may fit or not.
LoadParameters(o) ==
  /\ Goto(o, "parameters", "swap")
  /\ LET torn == {q \in Route : /\ rows[o][q].query # 0
                                /\ rows[o][q].parameters # stored[q].parameters}
     IN  \E fit \in SUBSET torn :
           rows' = [rows EXCEPT ![o] = Loaded([q \in Route |->
             IF q \in torn
             THEN [query |-> rows[o][q].query, parameters |-> stored[q].parameters,
                   valid |-> q \in fit]
             ELSE rows[o][q]])]
  /\ UNCHANGED <<life, stored, edits, router, appVars, docVars, faults, mixed>>

\* Mutant of Unlocked: the lock is missing.
UnlockedAlways == TRUE

Unlocked == lock = {}

Swap(o) ==
  /\ Unlocked
  /\ Goto(o, "swap", "apply")
  /\ router' = rows[o]
  /\ UNCHANGED <<life, stored, edits, rows, appVars, docVars, faults, mixed>>

\* Mutant of Kept: the previous dynamic routes are not recognised.
KeptAll == front

\* What the application keeps of its dynamic routes.
Kept == <<>>

\* apply_to_app, in the steps the event loop can observe.
Remove(o) ==
  /\ Unlocked /\ lock' = lock \cup {o}
  /\ Goto(o, "apply", "include")
  /\ front' = Kept /\ behind' = <<>>
  /\ UNCHANGED <<life, stored, edits, loadVars, docVars, faults, mixed>>

\* Mutant of Include: the operation includes the router it has read itself.
IncludeOwn(o) ==
  /\ Goto(o, "include", "place")
  /\ behind' = Append(behind, rows[o])
  /\ UNCHANGED <<life, stored, edits, loadVars, lock, front, docVars, faults, mixed>>

Include(o) ==
  /\ Goto(o, "include", "place")
  /\ behind' = Append(behind, router)
  /\ UNCHANGED <<life, stored, edits, loadVars, lock, front, docVars, faults, mixed>>

Place(o) ==
  /\ Goto(o, "place", "clear")
  /\ front' = front \o behind /\ behind' = <<>>
  /\ UNCHANGED <<life, stored, edits, loadVars, lock, docVars, faults, mixed>>

ClearSchema(o) ==
  /\ Goto(o, "clear", "idle")
  /\ schema' = NoSchema
  /\ lock' = lock \ {o}
  /\ UNCHANGED <<life, stored, edits, loadVars, front, behind, building, faults, mixed>>

Reload(o) == \/ LoadQueries(o) \/ LoadParameters(o) \/ LoadFails(o) \/ Swap(o)
             \/ Remove(o) \/ Include(o) \/ Place(o) \/ ClearSchema(o)

-----------------------------------------------------------------------------
(* custom_openapi, on the event loop: the schema is generated from the routes *)
(* as they are, and cached when it is ready                                   *)

BuildSchema == /\ process = "serving" /\ schema = NoSchema /\ building = NoSchema
               /\ building' = <<front \o behind>>
               /\ mixed' = (mixed \/ ~Quiet)
               /\ UNCHANGED <<life, stored, edits, pc, loadVars, appVars, schema, faults>>

CacheSchema == /\ building # NoSchema
               /\ schema' = building /\ building' = NoSchema
               /\ UNCHANGED <<life, stored, edits, pc, loadVars, appVars, faults, mixed>>

-----------------------------------------------------------------------------

Next == \/ \E o \in Operator : Edit(o) \/ Refresh(o) \/ Reload(o)
        \/ BuildSchema \/ CacheSchema
        \/ Boot \/ BootFails \/ Migrate \/ Serve \/ Crash

Spec == Init /\ [][Next]_vars

\* Type invariant. Loading, requests and operations meet a whole metastore.
TypeOK ==
  /\ process \in {"down", "migrating", "loading", "serving"}
  /\ tables \in {"none", "some", "all"} /\ crashes \in 0..MaxCrashes
  /\ stored \in Published /\ edits \in 0..MaxEdits
  /\ pc \in [Operator -> {"idle", "load", "parameters", "swap", "apply", "include",
                          "place", "clear"}]
  /\ rows \in [Operator -> Published] /\ router \in Published
  /\ lock \in {{}} \cup {{o} : o \in Operator}
  /\ front \in Seq(Published) /\ behind \in Seq(Published)
  /\ schema \in Seq(Seq(Published)) /\ building \in Seq(Seq(Published))
  /\ faults \in 0..MaxMetaFaults /\ mixed \in BOOLEAN
  /\ process \in {"loading", "serving"} => tables = "all"
  /\ process # "serving" => Quiet /\ front = <<>> /\ behind = <<>>

\* Requests never meet two generations of dynamic routes at once: overlapping
\* reloads leave no copy behind and include none twice.
OneGeneration == Len(front \o behind) <= 1

\* At rest the application routes what the loader holds, ahead of the user interface's
\* mount, also after a crash between a change and its reload. Unless operations overlapped
\* or failed (reload_app reads outside the lock, dynamic_loader.py:302) or a schema was
\* generated during one (main.py:122-134), it routes exactly the stored routes whose
\* configuration is valid, as they are stored (the others are active and missing), and a
\* cached schema describes them.
QuietIsCurrent ==
  process = "serving" /\ Quiet =>
    /\ front = <<router>> /\ behind = <<>>
    /\ ~mixed => /\ \A q \in Route :
                       router[q] = IF stored[q].valid THEN stored[q] ELSE Inactive
                 /\ building = NoSchema => schema \in {NoSchema, <<front>>}
====
