# A TLA+ model of Fire2API

Fire2API turns SQL statements, stored by an administrator, into HTTP routes that run
them on a Firebird database. This directory models the parts of it where processes meet,
where a step can fail, or where an order matters: TLA+ modules, TLC configurations that
check them on small instances, and theorems that TLAPS proves for every instance. Paths
below are relative to `src/`.

## 1. Inventory

| Component | Source | State | Operations |
|---|---|---|---|
| Execution service | `app/core/execution_service.py`, `execute_query` and `request_cancel` of `app/core/query_service.py` | contexts, semaphores, thread pool, `execution_history` | `execute`, `_worker`, `_release`, `request_cancel`, `_watch_disconnect`, `shutdown`; `/ready` of `app/main.py` at its pool |
| Idempotency records | `app/core/idempotency.py` | `idempotency_records` | `begin`, `complete`, `abandon` |
| Write endpoints | handler in `app/core/dynamic_loader.py` | the record and the outcome of each request | a request; a crash |
| Route loader, OpenAPI cache, start | `app/core/dynamic_loader.py`, `app/main.py`, `app/core/migrations.py` | loader's router, application's routes, cached schema, revision of the metastore | `lifespan`, `upgrade_metastore`, `load_routes`, `apply_to_app`, `custom_openapi` |
| Administrative API | `app/admin/router.py` | none of its own | change the store, reload, audit, read back |
| Rate limit of authentication | `app/core/rate_limit.py` | failures and lockout per source | `retry_after`, `register_failure`, `register_success` |
| Access Keys, authentication | `app/core/access_key_service.py`, `auth_middleware.py` | `access_keys` | create, change, delete, validate, count a use |
| Query store | `app/core/query_service.py` | `queries`, `parameters` | CRUD, detect, synchronise, save a configuration, reorder |
| SQL policy, binding, options | `app/core/query_service.py` | none | classify a statement; convert and bind values; order and page |
| Web administration | `app/ui.py`, `app/ui_components.py` | drafts of the editor, dialogs | edit, detect, test, save; keys; cancel |
| Release tool | `version.py` | files of the repository, git index | bump, commit, restore after a failure |
| Request security | `app/core/middleware.py` | bytes received of a body | limit, request id, headers |
| Metastore, Firebird pool, settings, audit, schemas | `app/core/*.py` | tables, pools | transactions; checkout |

How they interact. A request passes request security and authentication, which asks the
rate limit and the Access Keys; a dynamic route's handler binds the parameters, opens an
idempotency record for a write, awaits `execute`, and completes or abandons the record.
`execute` runs in the event loop and hands the statement to a thread of the pool; both
write the same row of `execution_history`, as does the administrator who cancels, and a
callback of the thread's future gives the slots back. A readiness probe (`/ready`) takes a
connection of the same Firebird pool in a thread of the server. Administrative requests run
in threads of their own; each change is committed first and the routes are reloaded after.
All of them share one SQLite file, which may refuse any transaction.

What is hard. Handler, thread and canceller race for one row and one event; the time limit
leaves the thread running; the metastore fails between two steps; a connection returned to
the pool is somebody else's; row ids are reused; reloads overlap; a cached schema is stored
late. `PROJECT.json` lists each hazard with its line and the properties aimed at it.

## 2. Plan

Done: `ExecutionService` with `ExecutionContract`; `Idempotency` and `WriteEndpoint`, which
composes the records with the contract; `RouteReload`; `QueryStore` and, on it,
`RouteEditor`; `RateLimit` and, on it, `Authentication`; `SqlText` and, on it, `Binding` and
`DynamicRequest`; `VersionRelease`; and of each of them the proofs of section 5. Next, in
this order:

1. An abstract store of configurations that `RouteEditor` implements.
2. Sessions and test runs of the web administration.

## 3. Modules

**ExecutionService.** One call of `execute` is an element of `Execution`. `pc[e]` is where its
handler is: each value is an `await` or a transaction of the metastore, the places where
other coroutines, threads or failures come between. `work[e]` is where its thread is.

| Code | Model |
|---|---|
| `execute`: insert row; register context; acquire; refuse; start; result; time limit | `Call`, `Register`, `AwaitGlobal`, `AwaitOwner`, `Deny`, `Start` (with `Submit`), `Resume`, `TimeOut`, `RecordTimeout` |
| `_worker`, `execute_query` | `Take`, `Begin` (the checkout), `Execute` (its phases are the looks at the cancel event), `Commit`, `Record`, `Drop` |
| the future's callback | `Release` |
| `/ready` (`app/main.py`), which checks out a connection and returns it | `Ready`, `ReadyEnds` |
| `_watch_disconnect`; `request_cancel`; `shutdown` | `WatchDisconnect`; `CancelRead`, `CancelSignal`, `CancelRecord`; `Shutdown` |
| `_status` with its WHERE clause and pruning | `Status`, `Updated`, `Pruned` |
| `context.cancel` | `Cancel`: sets the event, then interrupts whatever runs on the remembered connection |

A statement is abstracted to whether it commits (`Write`) and to what the driver does with
it. A refused transaction of the metastore raises, and the exception goes where the code
lets it: `MetaFails` counts them. A shutdown lets running threads finish and drops queued
work, whose handlers then see a cancelled future.

**ExecutionContract** is what callers may rely on: an answer `ok` only after the commit,
`stopped` only if there is none and never will be, `unknown` otherwise. `ExecutionService`
implements it (`ImplementsContract`), mapping the place of the handler to the answer and
`committed` to `effect`.

**Idempotency** has the rows with their ids, which SQLite takes as one more than the largest
present: this table is declared without AUTOINCREMENT, so the ids of removed rows return.
**WriteEndpoint** runs attempts of clients over it, with an instance of `ExecutionContract`
for `execute`; `Crash` loses every request in progress and keeps rows and effects.

**RouteReload** has one reload in its real steps: read the queries, read the parameters,
swap the loader's router under the lock, then remove, include, place and clear under the
lock. `front` and `behind` are the dynamic routes before and after the UI's mount.
`BuildSchema` and `CacheSchema` are the two ends of `custom_openapi`. A definition is the
number of its last edit, for the query and for its parameters, and whether the two together
are valid: the API may store a route that is not, and the loader leaves it out (`Loaded`).
Around it is the life of the process: `Boot`, `Migrate` (the tables of the first revision
commit one by one and its mark last, so a crash between them leaves a metastore that every
later start refuses, `BootFails`), `Serve`, and `Crash` at any point. `mixed` is history:
whether operations overlapped or failed since the last calm moment.

**QueryStore** has the tables `queries` and `parameters` as a function and a set of rows,
with their unique keys and their AUTOINCREMENT ids (`lastQuery`, `lastRow`: ids never
return). A route's path, method and SQL are one *text*; what normalization, detection and
the SQL policy say of it are constants (`Address`, `Candidates`, `Accepted`, `Get`). A save
(`Store`) deletes the rows without a draft, gives the others their temporary names
(`TemporaryName`, `Parked`) and writes the drafts one by one (`Written`), all or nothing.
The temporary names are names like others: a row that the API gave the one of another row,
and that is parked after it, makes the save fail (`InTheWay`). `Temporary` says which of
them may be typed; the names of the query options and all that begin like a temporary one
are `Reserved` for the validator, which the API does not call for a parameter. Reordering
reads the ids first (`CheckOrder`) and writes the positions in a transaction (`WriteOrder`).
Types, defaults, rules and required marks of parameters are data: a save may be refused for
them.
**RouteEditor** has the editor of each browser session: text, drafts, removed names,
detected names, and the generation that makes an outdated timer do nothing. Handlers run
one at a time in the event loop, the API (`Api`) runs between any two transactions, and a
save's read back (`ReadBack`) is such a transaction of its own.

**SqlText** is the SQL policy as pure operators on sequences of symbols: punctuation, single
letters, keywords as one symbol each, and other marks (the constant `Symbol` has the
punctuation; `Word` is what words are made of). `StripComments`, `StripLiterals`,
`SplitStatements`, `TopLevelWords`, `StatementType`, `ValidQuery` and `Binds` follow the
functions of the same names, with each loop a function that is recursive in the index: what
is left from there on, or the state after it (`Ended`, `SplitStep`, `WordStep`). A pattern
that asks for words at the start is `StartsWith`: a prefix of words and spaces that has
exactly these words. `DriverBinds` are the binds that `text()` of SQLAlchemy finds.
`Reading` is the reference, one pass that knows what is code, comment, literal and delimited
identifier (a name between double quotes, which the program does not know), and `Code` what
it leaves. A text is `Regular` if no delimited identifier has a quote or a comment mark in
it, and `Whole` if all that it opens is closed. **Binding** has the parameters and query
options on it: `Detected`, `Definitions` (what the editor may store: whatever is detected is
declared, and `Declared` are names that may be so without a bind), `Binds422`, `Options422`,
`Window`, `Prepared` (the statement with its paging), `ExecutionBindings` and `Fetched` (the
loop over `fetchmany`). A value is good or bad for the type and rule of its parameter, or
null.
**DynamicRequest** uses both: an administrator types a text a symbol at a time and saves it,
and one request goes through the body limit of the middleware (`Enter`, `Read`), the
handler (`Parse`, `Bind`) and the execution, while the watch for a disconnect (`Watch`)
reads from the same body. The rest of the handler is `WriteEndpoint`'s.

**VersionRelease** has one action per git command, read and write of `version.py`, each of
which may fail, an interruption anywhere, and a developer who stages, tags, commits or
throws away what a run left. `pyproject.toml` is the sequence of its version lines; a write
may leave a part of it (`Torn`). `before`, `damaged` and `late` are history: what the run
found, whether its own repair failed, and whether the developer came after its checks.

**RateLimit** has time in ticks; `judged` records when tokens were judged, which the code
does not keep and `BurstBound` needs. **Authentication** drives it as the middleware and the
login page do: one attempt at a time in the event loop, an Access Key in three transactions
(`TryKey`, `Judge`, `CountUse`) between which administrators (`Administer`) change keys.
`admitted` and `watch` are history: the requests let in, and what was active meanwhile.

## 4. What the runs show

All bounds are in the `.cfg` files. Deadlock is not checked where the model is of a finite
number of calls or edits that may all be over (`ExecutionService`, `WriteEndpoint`,
`RouteEditor`, `Authentication`, `DynamicRequest`).

| Run | Shows | Instance |
|---|---|---|
| `execution_faults` | `Placed`, `SlotsFollowWork`, `HistoryIsTrue`, `ImplementsContract`, `FirstOutcomeStands` | 2 writes of 2 owners on 2 connections, a request to cancel, 1 metastore failure, shutdown |
| `execution_capacity` | `TypeOK`, `SlotAccounting`, `ConnectionsSuffice`, `PrunesOldest` | 3 reads of 1 owner, 3 global slots, 2 per owner, 1 connection, a readiness probe, history of 1; shutdown |
| `execution_liveness` | `CallsReturn`, `SlotsComeBack`, `HistorySettles`, `CancelIsHonoured` | a watched write and a read, 1 slot for both, 1 connection, 1 metastore failure, shutdown |
| `write_endpoint` | `TypeOK`, `OneAtATime`, `TwiceOnlyIfUnknown`, `SuccessIsRemembered` | 3 attempts, 2 of them with one key; expiry, a crash, a failure, deletion of either Access Key |
| `route_reload` | `TypeOK`, `OneGeneration`, `QuietIsCurrent` | 2 routes, 2 administrators, 2 edits, 1 failure, 2 crashes |
| `route_editor` | `TypeOK`, `DetectionIsCurrent`, `EditorsKeepConfigurations`, `DraftsStayOwn`, `SaveStoresSnapshot`, `SwapsDoNotConflict`, `DetectionKeepsDrafts` | 2 sessions, a stored route, 3 acceptable texts, 2 parameters, a spelling of one and the temporary name of one, 3 edits, 1 request, 1 failure |
| `authentication` | `TypeOK`, `BurstBound`, `AcceptedWasActive`, `UsesAreCounted`, `HoldersAreNotPunished` | window 3, lockout 3, 2 attempts, 6 ticks; 2 sources, 3 tokens, one of them not ASCII, 2 keys, 4 attempts in all, 1 failure |
| `version_release` | `TypeOK`, `ReleasesOnlyTheVersion`, `AnswersAreTrue` | 6 forms of the file, versions up to 1.1.1, 3 commits |
| `dynamic_request` | `TypeOK`, `PolicyReadsCode`, `DetectedAreBound`, `WindowIsAsked`, `RefusalsHaveNoEffect` | 23 drafts and up to 4 typed symbols, a declared name without a bind, 3 of 5 rows, bodies of 2 chunks where 1 is allowed |

Why these bounds are enough: two executions make every race of handler, thread and
canceller, and contention for one slot; a third gives contention for two and for the
connection, also against a probe, pruning, and an overtaking. One failure of the metastore
reaches each error path; the paths do not combine except by a second failure of the same
kind. A stranger's attempt and two under one key give a running one, its retry, and a
foreign row to damage; two edits let an older reload finish last. Opening a stored route and
two edits swap the names of two parameters, or change the text twice while a detection is
pending; one request deletes the route under an open editor. Four attempts overrun a limit
of two within a window, and two keys let one take the place of another while its request is
judged. Two crashes are one in the first start and one later. Three commits are a release,
what the developer makes of a half done run, and another release; the forms of the file have
the version line once, twice, in another table only, and in a form the helper does not
write. Four symbols make every pair of comment marks and quotes, single or double, and what
follows them; the drafts have the keywords of each decision of the policy. Five rows with a
limit of three and chunks of two cut a window, a chunk and the hard limit. Executions of the
same owner and kind, connections, attempts under one key, routes, administrators and
sessions are symmetric where the `.cfg` says so.

Runs that find a claim violated (the findings of `PROJECT.json`):

| Run | Claim | What happens |
|---|---|---|
| `write_replay` | a processed key is never replayed | the time limit passes after the thread's last look at the event: the caller gets the error, the thread commits, the handler abandons the record, and the retry executes again |
| `temporary_names` | temporary names make swaps and renames safe | the API names the row after parameter 1 `__F2A_TMP_1`, and a save that renames it ends in an IntegrityError |
| `trailing_comment` | SQL that ends with a comment is accepted for GET, and GET routes page | `_paginate_sql` puts ` ROWS :__f2a_row_limit` into the comment, where the driver finds a bind to which nothing gives a value |

Three more deviations are exceptions of properties that hold otherwise. The deletion of an
Access Key frees row ids, and a request that was running under it may then complete or
remove a record of another client, whose processed key executes again (`OthersKept` in
`OneAtATime`, `TwiceOnlyIfUnknown`, `SuccessIsRemembered`). The reload that read first may
finish last and leave older routes, and a schema generated before a reload may be cached
after it (`mixed` in `QuietIsCurrent`; that invalid routes are missing is part of the
property and no exception). The release helper finds its line by the text alone:
if `[project]` writes its version in another form, the matching line of another table is
changed, committed and tagged (the last conjunct but one of `AnswersAreTrue`). Two more are
left open by the properties: a column named like a word of Firebird's paging in `ORDER_BY`
switches LIMIT and OFFSET off (`OwnPaging` in `WindowIsAsked`), and binds named like a query
option or like paging get no value (`DetectedAreBound`). `PolicyReadsCode` and
`DetectedAreBound` are about `Regular` texts. The program knows no delimited identifiers: in
`SELECT "--", :a` it takes what follows the first double quote for a comment, so that the
bind is not detected and the route is accepted without a parameter for it; a quote between
double quotes hides keywords in the same way.

**Fairness.** `HandlerFairness`, in the specification of `execution_liveness`: the event loop
runs every handler, and each of its waits has a time limit. `WorkerFairness`: Firebird and
its driver answer and the threads run; only `SlotsComeBack` and `HistorySettles` assume it,
as the premise of the property, so that `CallsReturn` holds of a Firebird that hangs. Nothing is
assumed of administrators, clients or shutdown.

## 5. What is proved

Everything below holds for all values of the constants that satisfy the assumption of the
module (each is named in it, and TLC evaluates it on the instances of the runs):

| Part | For |
|---|---|
| Execution service | every finite set of executions and of connections, any owners, any finite set of readiness probes, limits greater than zero, any number of metastore failures (`ExecutionAssumption`) |
| Write endpoints | any attempts, Access Keys and scopes, finite or not, every TTL greater than zero, any bounds on time, failures and crashes (`IdempotencyAssumption`, `EndpointAssumption`) |
| Route reload | any routes and operations, finite or not, any bounds on changes, failures and ends of the process (`RouteAssumption`) |
| Query store, route editor | any texts, names and sessions, whatever detection finds in a text, any bounds on edits, requests and failures; spellings of a name have one canonical form, temporary names differ and are reserved, and the text of a stored route is valid (`StoreAssumption`, `EditorAssumption`) |
| Authentication | any sources, tokens and numbers of keys; window, lockout and attempts greater than zero (`RateLimitAssumption`, `AuthenticationAssumption`) |
| SQL policy | texts of any length in any symbols that include the punctuation the policy looks for, any of the others being parts of words (`SymbolAssumption`) |
| Dynamic requests | any drafts, orders and typed symbols, any numbers of rows, any chunk and hard limit greater than zero; what the query options write is made of word symbols, and no declared name is reserved (`BindingAssumption`, `RequestAssumption`) |
| Release tool | any files in which at most one line is a version of `[project]`, as TOML demands (`OneProject`), any versions and numbers of commits (`ReleaseAssumption`) |

| Theorem | Module | Statement |
|---|---|---|
| `TypeCorrect` | `ExecutionServiceProofs` | `[]TypeOK` |
| `PlacedHolds` | `ExecutionServiceProofs` | `[]Placed` |
| `HistoryTruth` | `ExecutionServiceProofs` | `[]HistoryIsTrue` |
| `SlotsFollow` | `ExecutionServiceProofs` | `[]SlotsFollowWork` |
| `SlotsAccounted` | `ExecutionServiceProofs` | `[]SlotAccounting` |
| `Connections` | `ExecutionServiceProofs` | `[]ConnectionsSuffice` |
| `Refinement` | `ExecutionServiceProofs` | `ImplementsContract` |
| `FirstOutcome` | `ExecutionServiceProofs` | `FirstOutcomeStands` |
| `Prunes` | `ExecutionServiceProofs` | `PrunesOldest` |
| `Honoured` | `ExecutionServiceProofs` | `CancelIsHonoured` |
| `Types` | `WriteEndpointProofs` | `[]TypeOK` of `WriteEndpoint` |
| `Exclusive` | `WriteEndpointProofs` | `[]OneAtATime` |
| `Twice` | `WriteEndpointProofs` | `[]TwiceOnlyIfUnknown` |
| `Remembered` | `WriteEndpointProofs` | `[]SuccessIsRemembered` |
| `Types` | `RouteReloadProofs` | `[]TypeOK` of `RouteReload` |
| `OnlyOneGeneration` | `RouteReloadProofs` | `[]OneGeneration` |
| `AtRestCurrent` | `RouteReloadProofs` | `[]QuietIsCurrent` |
| `Types` | `RouteEditorProofs` | `[]TypeOK` of `RouteEditor`, with the keys of the tables |
| `Detections` | `RouteEditorProofs` | `[]DetectionIsCurrent` |
| `Ownership` | `RouteEditorProofs` | `[]DraftsStayOwn` |
| `Configurations` | `RouteEditorProofs` | `[]EditorsKeepConfigurations` |
| `Conflicts` | `RouteEditorProofs` | `SwapsDoNotConflict` |
| `Snapshots` | `RouteEditorProofs` | `SaveStoresSnapshot` |
| `Keeping` | `RouteEditorProofs` | `DetectionKeepsDrafts` |
| `Types` | `AuthenticationProofs` | `[]TypeOK` of `Authentication` |
| `Accepted` | `AuthenticationProofs` | `[]AcceptedWasActive` |
| `Counted` | `AuthenticationProofs` | `[]UsesAreCounted` |
| `Bounded` | `AuthenticationProofs` | `[]BurstBound` |
| `NotPunished` | `AuthenticationProofs` | `HoldersAreNotPunished` |
| `Types` | `DynamicRequestProofs` | `[]TypeOK` of `DynamicRequest` |
| `Windows` | `DynamicRequestProofs` | `[]WindowIsAsked` |
| `Refusals` | `DynamicRequestProofs` | `[]RefusalsHaveNoEffect` |
| `Policies` | `DynamicRequestProofs` | `[]PolicyReadsCode` |
| `Bindings` | `DynamicRequestProofs` | `[]DetectedAreBound` |
| `ScrubbedIsCode` | `SqlTextProofs` | comments and literals stripped, every `Regular` text is its `Code` |
| `VerdictOnCode` | `SqlTextProofs` | `ValidQuery` judges every `Regular` text as its `Code` |
| `BindsKept` | `SqlTextProofs` | what is written after a text, and a space, takes no bind from what is seen of it |
| `Types` | `VersionReleaseProofs` | `[]TypeOK` of `VersionRelease` |
| `Releases` | `VersionReleaseProofs` | `[]ReleasesOnlyTheVersion` |
| `Answers` | `VersionReleaseProofs` | `AnswersAreTrue` |

Each component has an inductive invariant `IInv`, one lemma per action, or per group of
similar ones, that says it is preserved, and the theorems as consequences. TLC agrees with
each `IInv` on the instance of its run.

The argument for `ExecutionService`. None of its properties is inductive alone: that a
thread may not commit after the answer `canceled` depends on where the thread is when the
handler gets that answer, and that the callback returns slots once depends on `work` and
`slots` moving together. `Placed` relates, for each execution, the two places, the slots,
the transaction and the recorded status; `IInv` is `TypeOK`, `Placed` and `SlotsFollowWork`,
and is inductive. `SlotAccounting` is proved on top of it with the cardinality theorems of
the library: each acquisition adds one execution to the set that holds the semaphore, each
release removes one. `Refinement` shows that a handler's step answers at most once and as
the contract allows, `Commit` is the contract's `Commit`, and all else stutters. `Honoured`
uses that once the event is set and the commit has not begun, no step begins it.

`Connections` adds `ConnFollowsWork`: an execution has a connection only while its thread is
in a transaction, a probe only while it asks, and no two have the same. The threads are no
more than the connections, so the executions that wait for one are never more than those
that are free or in the hands of probes. `Prunes` adds `Births`: rows
are numbered in the order of their insertion, each number once. With the cardinality
theorems of the library, a pruned row then has at least HistorySize finished ones after it,
and at most HistorySize have an outcome.

The argument for `RouteReload`. `OneGeneration` speaks of the application at each moment and
`QuietIsCurrent` of moments of rest, so neither says what a reload that is under way will
leave. The inductive invariant adds `Shape`: who holds the lock, what the application has at
each step of `apply_to_app`, and that without a holder it has one generation, the loader's
unless an operation has yet to apply it. It adds `Fresh`: while nothing overlapped or
failed, one operation is under way at most, what it has read is what is stored, and then the
valid routes of it are the router. The reads are not under the lock, and this is where the
proof needs that nothing overlapped: `LoadParameters` finds no torn row only if nobody
changed the parameters after `LoadQueries`.

The argument for `WriteEndpoint`. `OneAtATime` speaks of attempts that execute, but what
keeps a second one out is the row the first inserted, and rows outlive their attempts.
`RowsKept` says that an attempt which nobody took back has its row until it expires, as
long as no Access Key was deleted; `Apart`, that two attempts under one key which both hold
it began a TTL apart, also after another client's deletion left the ids to others;
`EffectsHeld`, that an effect without a row belongs to an attempt with an unknown outcome.
Ids return, so `Rows` says only that they are bounded and distinct in the present table.

The argument for `RouteEditor`. A draft names a row by its id, while other sessions and the
API delete, create and reorder. The invariant says that an id in a draft was given
(`Owned`), and every step that ids are never given twice and rows never change their route
(`Grows`): so no later row can take the id. A save parks the rows it keeps under their
temporary names and then writes draft after draft. The drafts have no reserved names, since
the validator refused them, so while nothing is in the way (`InTheWay`) no row that is
written meets one that is parked: `WrittenRows` follows this loop. A row is in the way only
if it has the temporary name of another, and as editors store valid configurations
(`Configurations`), in which no name is reserved, only after a request of the API. What the
editor and the validator read is the list that ORDER BY gives: `OrderedRows` shows that it
has each row of the route once and in order, and `SnapshotOrder` that rows at the positions
1 to n are listed there, so that what was saved is read back draft by draft. `Detections`
needs that the last timer scheduled is still to come or has detected this text (`Sound`).

The argument for `Authentication`. The deque of the limiter forgets: failures outside the
window, and those before a lockout. `Remembered` says that it is the end of the history, and
that what it forgot lies `Gap`, the shorter of window and lockout, before the last failure
or the end of the block. From it `Spaced` follows for each new failure: of MaxAttempts + 1
in a row, the first and the last are a `Gap` apart, and `Bounded` counts how many such rows
fit in a window. For the keys, `Watching` says that what was seen of a key since the request
came includes what holds now, so that what `Judge` reads was active at that time.

The argument for `DynamicRequest`. `FetchesAll` proves of the loop over `fetchmany`, for
every chunk, that it ends with all rows or MaxRows of them; `RowsAsked`, that the paging
made of LIMIT and OFFSET and this loop together give the window that was asked. `Reads` says
that a write executes only after its whole body was read, so that no watch can meet the body
limit then, and `Effects` that what is committed is past every check.

The argument for `SqlText`. `_strip_comments` looks one symbol ahead and jumps over
comments; the reader of what the policy sees (`Seen`, which like it knows no delimited
identifiers) goes on a symbol at a time and takes the last symbol back when it turns out to
start a comment. The proof goes over the text with the reader and keeps a *raw* text: what
`_strip_comments` has left so far (`Follows`). How far the two are apart is one of five
cases (`Agrees`): nothing pending, a dash or slash that only the reader has seen, inside a
literal, or inside either kind of comment, whose end is known to one and not to the other.
At the end the reader of what was left has left what the reader of the text has
(`CommentsStripped`). What is left is `Plain`: in it the reader meets no comment, and takes
each symbol in one of five ways (`IsRead`). Of plain texts `_strip_literals`
(`LiteralsStripped`), the loop that splits (`SplitAsCode`, with `Together` as its invariant)
and the stripping of spaces (`StrippedAsCode`) commute with what is seen; and a plain text
is the same as what is seen of it up to the first quote (`AlikeCode`), so patterns for the
start of a statement find the same. That gives `VerdictOnSeen`. From there to the code it
needs that the text is `Regular`: as long as no quote and no comment mark was met between
double quotes, both readers have the same (`InStep`, `StaysInStep`, `CodeIsSeen`). For the
binds, `Grown` says that what the reader has left begins with what is seen of the SQL, whose
last name is over and of which nothing is taken back: a space after it makes this true, and
every further symbol, even one that starts a comment or a literal that never ends, keeps it
(`Grows`). `PagingKeeps` applies it to each form of the statement that ORDER_BY and paging
build.

The argument for `VersionRelease`. `Progress` says for each step of a run what it can rely
on whatever the developer stages, tags or commits meanwhile: until the write, work tree and
index are as they were found and as in the last commit; until the commit, the file is the
text found with one line replaced; on the way back, either the index is restored or the run
knows that it is damaged. `Answers` reads off, at each way a run ends, what it left.

Induction. The induction theorems of the library take an operator as a parameter, which the
provers cannot instantiate. Where the proofs need induction over numbers (the loops of a
save, of a merge of drafts, of `fetchmany`, and the length of a deque) it is stated of a set
of naturals: the least number that is not in it (`Least`), which follows from
`NatLessThanWellFounded` and `WFMin`. Induction over texts is the same, of a set of texts
that is closed under `Append` (`TextInduction`). That a recursively defined function
satisfies its equation is proved in this way too, from the functions on 0..n that do: upwards,
when each value is made of the one before (`Folding`), and downwards, when it is made of
any later ones (`Recursion`), as in the nested functions of `StripComments`.

Only model-checked: liveness (`CallsReturn`, `SlotsComeBack`, `HistorySettles`), which is
outside the prover. Every other property of a passing run is stated by a theorem.

## 6. What is not modelled, and why

Contents of rows, bindings, headers, wording and layout; logging and audit rows. A handler
whose own task is cancelled at an `await`: the server does so only when it is forced to
stop. A `TimeoutError` raised by Firebird inside the work, which the handler would take for
its own time limit. The listing of executions reads and changes nothing.
`sync_detected_parameters` is called by tests only. That two sessions overwrite each other's
edits of one route is what the code does, and no property forbids it; the same holds for a
cancellation that arrives before the context is registered, which is answered `ok` and
reaches nobody. `Cancel` interrupts the connection that it remembers, which may have been
checked out by another meanwhile: that one then fails, and no property forbids it either.
In `SqlText` an upper and a lower case exist of one letter only, and words
are told apart by what the policy asks of them; letters that are not ASCII, which `isalnum`
takes and the driver's pattern does not all take, and the backslash that escapes a colon are
no symbols of the texts. Conversions of values, rules, placeholders of paths, lists of
`ORDER_BY` items and configurations that the API stored without validation are not in
`Binding`, which is about routes that the loader serves. `ADMIN_API_KEY` is taken to be
ASCII: `compare_digest` refuses to compare any other. `dispose_engines`, at the end of the
process, is left out. In `VersionRelease` the developer does not edit `pyproject.toml`
during a run, and git does not disappear during one. Request ids and security headers,
settings (read once; their limits are constants), audit rows (inserted, never read) and
response envelopes are declarations and formatting. Sessions, dialogs and test runs of the
web administration are left for later.
