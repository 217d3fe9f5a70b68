---- MODULE DynamicRequest ----
(***************************************************************************)
(* The life of a dynamic route: an administrator types its SQL a symbol at *)
(* a time and saves it, and a request for it comes through the body limit  *)
(* of app/core/middleware.py and the handler of app/core/dynamic_loader.py *)
(* while its client still sends, or leaves.                                *)
(*                                                                         *)
(* Access Keys, idempotency, slots and history are left to the modules     *)
(* about them: an execution here succeeds or fails, and a write that was   *)
(* sent to Firebird may be committed though it is answered as an error.    *)
(* A body comes in chunks of equal length, the unit of its size.           *)
(***************************************************************************)
EXTENDS Binding

CONSTANTS Drafts,   \* texts the administrator starts from, and how much is typed
          Alphabet, \* symbols that are typed
          Names,    \* names of parameters that requests use
          Limits, Offsets, Orders, \* values of the query options
          Total,    \* rows in the result of a GET request
          Chunk,    \* query_fetch_chunk_size
          MaxBody   \* max_request_body_bytes

ASSUME RequestAssumption ==
  /\ Total \in Nat /\ Chunk \in Nat \ {0} /\ MaxBody \in Nat
  /\ Limits \subseteq Option /\ Offsets \subseteq Option
  /\ \A d \in Drafts : d.text \in Seq(Symbol) /\ d.room \in Nat
  /\ Alphabet \subseteq Symbol /\ Orders \subseteq Seq(Symbol)

VARIABLES sql,         \* the SQL of the route
          room,        \* how many symbols may still be typed
          method,
          definitions, \* its parameters
          phase,       \* where the request is
          request,     \* what it asks, and the form of its body
          consumed,    \* chunks of the body that the application was handed
          watch,       \* the task that watches for a disconnect
          gone,        \* whether the client has left
          committed,   \* whether Firebird has committed a write
          answer,      \* the status of the response
          rows         \* the rows in it

route == <<sql, room, method, definitions>>
vars == <<route, phase, request, consumed, watch, gone, committed, answer, rows>>

NoRequest == [query |-> <<>>, body |-> <<>>, form |-> "object", size |-> 0, announced |-> FALSE,
              limit |-> Absent, offset |-> Absent, order |-> <<>>]

Init ==
  /\ \E d \in Drafts : sql = d.text /\ room = d.room
  /\ method = "GET" /\ definitions = <<>>
  /\ phase = "typing" /\ request = NoRequest /\ consumed = 0
  /\ watch = "off" /\ gone = FALSE /\ committed = FALSE /\ answer = 0 /\ rows = {}

-----------------------------------------------------------------------------
(* The administrator *)

Type(c) == /\ phase = "typing" /\ room > 0
           /\ sql' = Append(sql, c) /\ room' = room - 1
           /\ UNCHANGED <<method, definitions, phase, request, consumed, watch, gone,
                          committed, answer, rows>>

\* validate_parameter_configuration accepts the text with these parameters.
Save(m) ==
  /\ phase = "typing" /\ ValidQuery(sql, m)
  /\ method' = m /\ definitions' \in Definitions(sql, m)
  /\ room' = 0 /\ phase' = "served"
  /\ UNCHANGED <<sql, request, consumed, watch, gone, committed, answer, rows>>

-----------------------------------------------------------------------------
(* The request *)

Answers(status) == answer' = status /\ phase' = "answered" /\ watch' = "off"

\* Values of the parameters as clients write them; null exists in a body only.
Written(values) == UNION {[N -> values] : N \in SUBSET Names}

\* What clients send: query values with a body that a GET request should not have, query
\* options, values in a body, and bodies that are no flat object. What is in a body that
\* is too large does not matter.
Asked ==
  [query : Written({"good", "bad"}), body : {<<>>}, form : {"object"}, size : 0..MaxBody + 1,
   announced : {FALSE}, limit : {Absent}, offset : {Absent}, order : {<<>>}]
  \cup [query : {<<>>}, body : Written(Value), form : {"object"}, size : 1..MaxBody,
        announced : {TRUE}, limit : {Absent}, offset : {Absent}, order : {<<>>}]
  \cup [query : {<<>>}, body : {<<>>}, form : {"malformed", "nested"}, size : {1, MaxBody + 1},
        announced : BOOLEAN, limit : {Absent}, offset : {Absent}, order : {<<>>}]
  \cup (IF method # "GET" THEN {}
        ELSE [query : Written({"good"}), body : {<<>>}, form : {"object"}, size : {0},
              announced : {FALSE}, limit : Limits, offset : Offsets, order : {<<>>}]
             \cup
             [query : Written({"good"}), body : {<<>>}, form : {"object"}, size : {0},
              announced : {FALSE}, limit : {Absent}, offset : Offsets, order : Orders])

Arrive == /\ phase = "served"
          /\ request' \in Asked
          /\ phase' = "arrived"
          /\ UNCHANGED <<route, consumed, watch, gone, committed, answer, rows>>

\* Mutant of ReadsBody: the handler leaves the body of DELETE requests unread.
ReadsBodyButDelete(m) == m \notin {"GET", "DELETE"}
ReadsBody(m) == m # "GET"

\* The middleware looks at Content-Length, the handler at the method.
Enter ==
  /\ phase = "arrived"
  /\ IF request.announced /\ request.size > MaxBody
     THEN Answers(413)
     ELSE phase' = (IF ReadsBody(method) THEN "reading" ELSE "binding")
          /\ UNCHANGED <<watch, answer>>
  /\ UNCHANGED <<route, request, consumed, gone, committed, rows>>

\* limited_receive, under request.body(): one chunk, or more than there may be.
Read ==
  /\ phase = "reading" /\ consumed < request.size
  /\ consumed' = consumed + 1
  /\ IF consumed' > MaxBody THEN Answers(413) ELSE UNCHANGED <<phase, watch, answer>>
  /\ UNCHANGED <<route, request, gone, committed, rows>>

\* The whole body is there; an empty one is none.
Parse ==
  /\ phase = "reading" /\ consumed = request.size
  /\ CASE request.size > 0 /\ request.form = "malformed" -> Answers(400)
       [] request.size > 0 /\ request.form = "nested" -> Answers(422)
       [] OTHER -> phase' = "binding" /\ UNCHANGED <<watch, answer>>
  /\ UNCHANGED <<route, request, consumed, gone, committed, rows>>

RequestSources == [query |-> request.query,
                   body |-> IF ReadsBody(method) THEN request.body ELSE <<>>]

Bind ==
  /\ phase = "binding"
  /\ IF Binds422(definitions, RequestSources) \/ (method = "GET" /\ Options422(sql, request))
     THEN Answers(422)
     ELSE phase' = "executing" /\ watch' = "on" /\ UNCHANGED answer
  /\ UNCHANGED <<route, request, consumed, gone, committed, rows>>

\* The statement the worker sends, and the names it has values for.
Statement == IF method = "GET" THEN Prepared(sql, request) ELSE sql
Values == DOMAIN Bound(definitions, RequestSources)
          \cup (IF method = "GET" THEN PagingBinds(sql, request) ELSE {})

\* Firebird commits the write of the worker.
Commit ==
  /\ phase = "executing" /\ method # "GET" /\ ~committed
  /\ Runnable(Statement, Values)
  /\ committed' = TRUE
  /\ UNCHANGED <<route, phase, request, consumed, watch, gone, answer, rows>>

\* is_disconnected takes what the client has sent from the same limited_receive.
Watch ==
  /\ phase = "executing" /\ watch = "on" /\ consumed < request.size /\ ~gone
  /\ consumed' = consumed + 1
  /\ watch' = IF consumed' > MaxBody THEN "broken" ELSE "on"
  /\ UNCHANGED <<route, phase, request, gone, committed, answer, rows>>

\* The result is there; awaiting a watch that broke raises its error instead, which the
\* handler takes for a failed execution.
Succeed ==
  /\ phase = "executing" /\ Runnable(Statement, Values)
  /\ method # "GET" => committed
  /\ IF watch = "broken" THEN Answers(500) /\ UNCHANGED rows
     ELSE /\ Answers(200)
          /\ rows' = IF method = "GET" THEN RowsOf(sql, request, Total, Chunk) ELSE {}
  /\ UNCHANGED <<route, request, consumed, gone, committed>>

\* A failure, a time limit or a cancellation (500, 504, 409), which does not say what
\* Firebird did, or no capacity (429).
Fail ==
  /\ phase = "executing"
  /\ Answers(500)
  /\ UNCHANGED <<route, request, consumed, gone, committed, rows>>

\* A client that leaves while its body is read gets no answer.
Leave ==
  /\ phase \in {"reading", "executing"} /\ ~gone /\ gone' = TRUE
  /\ IF phase = "reading" THEN phase' = "answered" ELSE UNCHANGED phase
  /\ UNCHANGED <<route, request, consumed, watch, committed, answer, rows>>

Next == \/ \E c \in Alphabet : Type(c)
        \/ \E m \in Method : Save(m)
        \/ Arrive \/ Enter \/ Read \/ Parse \/ Bind
        \/ Commit \/ Watch \/ Succeed \/ Fail \/ Leave

Spec == Init /\ [][Next]_vars

-----------------------------------------------------------------------------
(* Properties *)

\* Types. The response is sent once the request has ended, and only then.
TypeOK ==
  /\ room \in Nat /\ method \in Method
  /\ phase = "typing" \/ definitions \in Definitions(sql, method)
  /\ phase \in {"typing", "served", "arrived", "reading", "binding", "executing", "answered"}
  /\ consumed \in 0..request.size /\ watch \in {"off", "on", "broken"}
  /\ gone \in BOOLEAN /\ committed \in BOOLEAN
  /\ answer \in {0, 200, 400, 413, 422, 500}
  /\ rows \subseteq 1..Total /\ Cardinality(rows) <= MaxRows
  /\ answer # 0 => phase = "answered"

\* Whatever was typed, as long as no delimited identifier has a quote or a comment mark in
\* it, the policy and the detection of parameters see exactly the code of the SQL: a reader
\* that goes over the text once leaves the same text as _strip_comments and _strip_literals
\* (query_service.py:961-1009), and the verdict of validate_query and the detected names are
\* those of that text.
PolicyReadsCode ==
  phase = "typing" /\ Regular(sql) =>
    /\ Scrubbed(sql) = Code(sql)
    /\ \A m \in Method : ValidQuery(sql, m) = ValidQuery(Code(sql), m)
    /\ Detected(sql) = Detected(Code(sql))

\* A request that passed bind_parameters has a value, if only NULL, for every bind in the
\* code of the route's SQL, in whatever case it is written (query_service.py:778-789); the
\* names of the query options and of paging are not parameters, and delimited identifiers
\* have no quote or comment mark in them.
DetectedAreBound ==
  phase = "executing" /\ Regular(sql) =>
    \A n \in Binds(Code(sql)) :
      Upper(n) \in OptionNames \cup Private \/ n \in ExecutionBindings(Statement, Values)

\* A GET request gets the rows from OFFSET + 1 on, LIMIT of them at most, and never more
\* than QUERY_MAX_ROWS_HARD, over paging and the loop that fetches chunks
\* (query_service.py:842-862, 899-906), unless its SQL, or the column ORDER_BY names, has
\* a word of Firebird's own paging.
WindowIsAsked ==
  answer = 200 /\ method = "GET" /\ ~OwnPaging(Ordered(sql, request.order)) =>
    rows = {i \in 1..Total : /\ i > request.offset.value
                             /\ i <= request.offset.value + MaxRows
                             /\ request.limit.kind = "number" =>
                                  i <= request.offset.value + request.limit.value}

\* Who is told that the request was refused, for its body or its values, can send it
\* again: nothing was committed. And no committed write is answered as an error because
\* the watch for a disconnect met the body limit (middleware.py:50-57,
\* execution_service.py:175-178): handlers of writes read the body first.
RefusalsHaveNoEffect ==
  committed => answer \notin {400, 413, 422} /\ watch # "broken"

\* A GET route accepts LIMIT and OFFSET (src/README.md:206), also one whose SQL ends with
\* "-- end", which validate_query accepts (tests/test_core.py:498): if every literal, name
\* and comment in its SQL is closed, Firebird reads the paging that is put after it.
PagingIsRead ==
  phase = "executing" /\ method = "GET" /\ Whole(sql) =>
    PagingBinds(sql, request) \subseteq Binds(Code(Statement))
====
