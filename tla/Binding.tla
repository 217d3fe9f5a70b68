---- MODULE Binding ----
(***************************************************************************)
(* Parameters and query options of app/core/query_service.py: what a route *)
(* declares, what a request may give, and the statement that is executed.  *)
(*                                                                         *)
(* A value is good or bad for the type and the rule of its parameter, or   *)
(* null. Types, rules and defaults that do not fit were refused when the   *)
(* route was saved.                                                        *)
(***************************************************************************)
EXTENDS SqlText

CONSTANTS MaxRows, \* query_max_rows_hard
          Declared \* names of parameters that a route may have without a bind for them

\* The words that the query options add.
Added == {"ORDER", "BY", "ROWS", "TO", "__f2a_row_start", "__f2a_row_end", "__f2a_row_limit"}

Sources == {"query", "body"}
Value == {"good", "bad", "null"}

OptionNames == {<<"LIMIT">>, <<"OFFSET">>, <<"ORDER_BY">>}
\* The binds that paging adds.
RowStart == <<"__f2a_row_start">>
RowEnd == <<"__f2a_row_end">>
RowLimit == <<"__f2a_row_limit">>
Private == {RowStart, RowEnd, RowLimit}

\* Those names are reserved.
ASSUME BindingAssumption ==
  /\ MaxRows \in Nat \ {0} /\ Added \subseteq Word
  /\ Declared \cap (OptionNames \cup Private) = {}

-----------------------------------------------------------------------------
(* Parameters *)

\* detect_parameters, for a path without placeholders.
Detected(sql) == {Upper(n) : n \in Binds(Scrubbed(sql))} \ (OptionNames \cup Private)

\* What validate_parameter_configuration accepts: whatever was detected is defined, and more
\* may be. Sources, defaults and whether a value is required are the administrator's; a GET
\* route has no body.
Definitions(sql, method) ==
  UNION {[Detected(sql) \cup more -> [source : IF method = "GET" THEN {"query"} ELSE Sources,
                                     required : BOOLEAN, default : {"null", "good"}]] :
         more \in SUBSET Declared}

\* Two names of one source that differ in case only.
Doubled(given) == \E n, m \in DOMAIN given : n # m /\ Upper(n) = Upper(m)

Given(given, name) == given[CHOOSE n \in DOMAIN given : Upper(n) = name]
IsGiven(given, name) == \E n \in DOMAIN given : Upper(n) = name

\* What the request says of the definitions d.
Known(d, source) == {n \in DOMAIN d : d[n].source = source}
                    \cup (IF source = "query" THEN OptionNames ELSE {})

\* The value of a parameter before its conversion.
Raw(d, sources, n) ==
  IF IsGiven(sources[d[n].source], n) THEN Given(sources[d[n].source], n) ELSE d[n].default

Present(d, sources, n) ==
  IsGiven(sources[d[n].source], n) \/ d[n].default # "null" \/ ~d[n].required

\* bind_parameters raises no ValueError.
Binds422(d, sources) ==
  ~ /\ \A s \in Sources : ~Doubled(sources[s])
    /\ \A s \in Sources : {Upper(n) : n \in DOMAIN sources[s]} \subseteq Known(d, s)
    /\ \A n \in DOMAIN d : Present(d, sources, n) /\ Raw(d, sources, n) # "bad"

Bound(d, sources) == [n \in DOMAIN d |-> Raw(d, sources, n)]

-----------------------------------------------------------------------------
(* Query options. An option is absent, a number, or a text that is none. *)

Option == [kind : {"absent", "text"}, value : {0}] \cup [kind : {"number"}, value : Int]
Absent == [kind |-> "absent", value |-> 0]
Number(n) == [kind |-> "number", value |-> n]

Limit(limit) == IF limit.kind = "number" THEN Min({limit.value, MaxRows}) ELSE MaxRows

\* One item of ORDER_BY, a name with ASC or DESC.
OrderItem(order) ==
  /\ order # <<>> /\ IsLetter(order[1])
  /\ \A i \in DOMAIN order : IsWord(order[i]) \/ order[i] = " "
  /\ Len(TopLevelWords(order)) \in {1, 2}
  /\ Len(TopLevelWords(order)) = 2 => TopLevelWords(order)[2] \in {<<"ASC">>, <<"DESC">>}

HasOrder(sql) ==
  LET words == TopLevelWords(Scrubbed(sql)) IN
  \E i \in 1..Len(words) - 1 : words[i] = <<"ORDER">> /\ words[i + 1] = <<"BY">>

Paging == {<<"ROWS">>, <<"FIRST">>, <<"SKIP">>, <<"OFFSET">>, <<"FETCH">>}
OwnPaging(sql) == ToSet(TopLevelWords(Scrubbed(sql))) \cap Paging # {}

Ordered(sql, order) ==
  IF order = <<>> THEN sql ELSE RightStripped(sql) \o <<" ", "ORDER", " ", "BY", " ">> \o order

\* apply_query_options raises a ValueError.
Options422(sql, options) ==
  \/ options.order # <<>> /\ (~OrderItem(options.order) \/ HasOrder(sql))
  \/ "text" \in {options.limit.kind, options.offset.kind}
  \/ Limit(options.limit) <= 0 \/ options.offset.value < 0

\* Mutant of Window: the row before the first one asked for.
WindowBefore(options) == <<options.offset.value, options.offset.value + Limit(options.limit)>>

\* The first and last row asked for.
Window(options) == <<options.offset.value + 1, options.offset.value + Limit(options.limit)>>

\* The values of the binds that paging added.
PagingBinds(sql, options) ==
  CASE OwnPaging(Ordered(sql, options.order)) -> {}
    [] ~OwnPaging(Ordered(sql, options.order)) /\ options.offset.value # 0 -> {RowStart, RowEnd}
    [] OTHER -> {RowLimit}

\* The statement of a GET request.
Prepared(sql, options) ==
  LET text == Ordered(sql, options.order)
      rows == PagingBinds(sql, options)
  IN  CASE rows = {} -> text
        [] rows = {RowLimit} -> RightStripped(text) \o <<" ", "ROWS", " ", ":">> \o RowLimit
        [] OTHER -> RightStripped(text) \o <<" ", "ROWS", " ", ":">> \o RowStart
                    \o <<" ", "TO", " ", ":">> \o RowEnd

-----------------------------------------------------------------------------
(* The execution *)

\* Mutant of HasValue: names are compared as they are written.
HasValueAsWritten(n, names) == n \in names
HasValue(n, names) == n \in names \/ Upper(n) \in names

\* _execution_bindings: the binds of the statement that get a value.
ExecutionBindings(statement, names) == {n \in Binds(Scrubbed(statement)) : HasValue(n, names)}

\* The driver has a value for every bind it finds, and there is one statement.
Runnable(statement, names) ==
  /\ DriverBinds(statement) \subseteq ExecutionBindings(statement, names)
  /\ Len(SplitStatements(StripComments(statement))) = 1

\* Mutant of Fetched: the loop has no bound.
FetchedAll(n, chunk) == n

\* How many of n rows the loop over fetchmany collects, chunk by chunk.
Fetched(n, chunk) ==
  LET got[k \in 0..MaxRows] == IF k = MaxRows \/ k = n THEN k
                               ELSE got[Min({k + chunk, MaxRows, n})]
  IN  got[0]

\* The rows of a result of total rows that a GET request gets.
RowsOf(sql, options, total, chunk) ==
  LET first == IF OwnPaging(Ordered(sql, options.order)) THEN 1
               ELSE IF options.offset.value # 0 THEN Window(options)[1] ELSE 1
      last == IF OwnPaging(Ordered(sql, options.order)) THEN total
              ELSE Min({total, Window(options)[2]})
  IN  {first + i : i \in 0..Fetched(Max({0, last - first + 1}), chunk) - 1}
====
