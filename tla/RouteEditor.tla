---- MODULE RouteEditor ----
(***************************************************************************)
(* The route editor of the web administration (app/ui.py, start_editor and *)
(* route_editor_page) over QueryStore, while other sessions and the        *)
(* administrative API change the same routes.                              *)
(*                                                                         *)
(* The handlers of the sessions run in the event loop, one at a time; the  *)
(* API runs in threads of its own, between any two transactions. Detection *)
(* runs from a timer some time after the text was typed. The reload that   *)
(* follows a change of a route is in RouteReload.                          *)
(***************************************************************************)
EXTENDS QueryStore

CONSTANTS Session,        \* browser sessions
          NewText,        \* the text a new route starts with
          FirstText,      \* the text of the route that is stored at first
          MaxEdits,       \* bound on what the sessions do in their editors
          MaxRequests,    \* bound on changes through the API
          MaxMetaFaults   \* bound on metastore failures

ASSUME EditorAssumption == /\ NewText \in Text \ Accepted
                           /\ FirstText \in Text /\ Valid(FirstText, Candidates[FirstText])
                           /\ MaxEdits \in Nat /\ MaxRequests \in Nat
                           /\ MaxMetaFaults \in Nat

VARIABLES editor,    \* the editor of each session, or Closed
          said,      \* what the last save told each session
          saving,    \* the sessions whose save has yet to read the route back
          edits, requests, faults

vars == <<storeVars, editor, said, saving, edits, requests, faults>>
counters == <<edits, requests, faults>>

Closed == [open |-> FALSE]

Draft == [id : Nat, name : Name, source : Source]

Init == /\ InitStore(FirstText)
        /\ editor = [s \in Session |-> Closed]
        /\ said = [s \in Session |-> "nothing"]
        /\ saving = {}
        /\ edits = 0 /\ requests = 0 /\ faults = 0

DraftsOf(list) == [i \in DOMAIN list |->
                     [id |-> list[i].id, name |-> list[i].name, source |-> list[i].source]]
Drafts(q) == DraftsOf(Listed(q))

-----------------------------------------------------------------------------
(* merge_parameter_drafts *)

\* Mutant of Renamed: the drafts of names that are not in the text are dropped.
RenamedPruning(drafts, t) ==
  SelectSeq(drafts, LAMBDA d : Canonical[d.name] \in Detected(t))

\* The drafts that were there stay, with canonical names, and those of the path's
\* placeholders get its source; of several with one name, only the last does.
Renamed(drafts, t) ==
  LET last(i) == \A j \in DOMAIN drafts :
                   Canonical[drafts[j].name] = Canonical[drafts[i].name] => j <= i
  IN  [i \in DOMAIN drafts |->
         [drafts[i] EXCEPT !.name = Canonical[@],
                           !.source = IF Canonical[drafts[i].name] \in PathNames(t) /\ last(i)
                                      THEN "path" ELSE @]]

\* Candidates without a draft are added unless the user removed them.
Merged(drafts, t, suppressed) ==
  LET found == Candidates[t]
      merged[i \in 0..Len(found)] ==
        IF i = 0 THEN Renamed(drafts, t)
        ELSE IF found[i].name \in NamesOf(drafts) \cup suppressed THEN merged[i - 1]
        ELSE Append(merged[i - 1], [id |-> 0, name |-> found[i].name, source |-> found[i].source])
  IN  merged[Len(found)]

\* synchronize_parameters. A removed parameter is forgotten once the text no longer has it.
Synchronized(ed) ==
  LET suppressed == ed.suppressed \cap Detected(ed.text)
  IN  [ed EXCEPT !.detected = Detected(ed.text), !.suppressed = suppressed,
                 !.drafts = Merged(@, ed.text, suppressed)]

Opened(q, t, drafts) ==
  Synchronized([open |-> TRUE, query |-> q, text |-> t, drafts |-> drafts, suppressed |-> {},
                detected |-> {}, generation |-> 0, timers |-> {}])

-----------------------------------------------------------------------------
(* The editor *)

\* A handler of the event loop that works on an open editor.
Edits(s) == /\ saving = {} /\ editor[s].open
            /\ edits < MaxEdits /\ edits' = edits + 1
            /\ UNCHANGED <<storeVars, said, saving, requests, faults>>

Open(s) ==
  /\ saving = {} /\ ~editor[s].open
  /\ edits < MaxEdits /\ edits' = edits + 1
  /\ editor' = [editor EXCEPT ![s] = Opened(0, NewText, <<>>)]
               \/ \E q \in DOMAIN queries :
                    editor' = [editor EXCEPT ![s] = Opened(q, queries[q], Drafts(q))]
  /\ said' = [said EXCEPT ![s] = "nothing"]
  /\ UNCHANGED <<storeVars, saving, requests, faults>>

\* Path, method or SQL changes; the detection of an earlier change is outdated.
Type(s, t) ==
  /\ Edits(s)
  /\ editor' = [editor EXCEPT ![s].text = t, ![s].generation = @ + 1,
                              ![s].timers = @ \cup {editor[s].generation + 1}]

\* Mutant of Current: the detection that was scheduled first is the one applied.
CurrentFirst(s, g) == g = 1

Current(s, g) == g = editor[s].generation

\* 0.12 seconds later. The timers of a session fire in the order they were set.
Detect(s) ==
  /\ saving = {} /\ editor[s].open
  /\ \E g \in editor[s].timers :
       /\ \A h \in editor[s].timers : g <= h
       /\ LET ed == [editor[s] EXCEPT !.timers = @ \ {g}]
          IN  editor' = [editor EXCEPT ![s] = IF Current(s, g) THEN Synchronized(ed) ELSE ed]
  /\ UNCHANGED <<storeVars, said, saving, counters>>

Add(s) ==
  /\ Edits(s)
  /\ editor' = [editor EXCEPT ![s].drafts =
                  Append(@, [id |-> 0, name |-> NoName,
                             source |-> IF editor[s].text \in Get THEN "query" ELSE "body"])]

Rename(s, i, n) == /\ Edits(s) /\ i \in DOMAIN editor[s].drafts
                   /\ editor' = [editor EXCEPT ![s].drafts[i].name = n]

\* The control is disabled when the card is drawn for a placeholder of the path, but
\* not when its name becomes one afterwards.
SetSource(s, i, source) == /\ Edits(s) /\ i \in DOMAIN editor[s].drafts
                           /\ editor' = [editor EXCEPT ![s].drafts[i].source = source]

MoveUp(s, i) ==
  /\ Edits(s) /\ i \in DOMAIN editor[s].drafts /\ i > 1
  /\ editor' = [editor EXCEPT ![s].drafts =
                  [@ EXCEPT ![i] = editor[s].drafts[i - 1], ![i - 1] = editor[s].drafts[i]]]

RemoveDraft(s, i) ==
  /\ Edits(s) /\ i \in DOMAIN editor[s].drafts
  /\ editor' = [editor EXCEPT ![s].drafts = RemoveAt(@, i),
                              ![s].suppressed = @ \cup ({editor[s].drafts[i].name}
                                                        \cap editor[s].detected)]

MetaFails == faults < MaxMetaFaults /\ faults' = faults + 1

\* remove_route, without the reload; the page stays when the audit fails.
RemoveRoute(s) ==
  /\ saving = {} /\ editor[s].open /\ editor[s].query # 0
  /\ \/ DeleteQuery(editor[s].query)
     \/ editor[s].query \notin DOMAIN queries /\ UNCHANGED storeVars
  /\ \/ editor' = [editor EXCEPT ![s] = Closed] /\ UNCHANGED faults
     \/ MetaFails /\ UNCHANGED editor
  /\ UNCHANGED <<said, saving, edits, requests>>

Close(s) == /\ saving = {} /\ editor[s].open
            /\ editor' = [editor EXCEPT ![s] = Closed]
            /\ UNCHANGED <<storeVars, said, saving, counters>>

-----------------------------------------------------------------------------
(* Saving: the transaction, then the route is read back *)

Says(s, what) == said' = [said EXCEPT ![s] = what]

\* A draft's type, default, rule or required mark may be refused as well.
Save(s) ==
  LET ed == editor[s]
      outcome == SaveOutcome(ed.query, ed.text, ed.drafts)
  IN  /\ saving = {} /\ ed.open
      /\ \/ /\ outcome = "stored"
            /\ Store(ed.query, ed.text, ed.drafts)
            /\ editor' = [editor EXCEPT ![s].query = Target(ed.query)]
            /\ saving' = {s}
            /\ UNCHANGED <<said, faults>>
         \/ /\ \E other \in ({outcome} \ {"stored"}) \cup {"refused" : d \in ToSet(ed.drafts)} :
                 Says(s, other)
            /\ UNCHANGED <<storeVars, editor, saving, faults>>
         \/ /\ MetaFails /\ Says(s, "failed")
            /\ UNCHANGED <<storeVars, editor, saving>>
      /\ UNCHANGED <<edits, requests>>

\* The drafts become those stored, with their ids; if the route is already gone they
\* stay. The page is drawn again: a detection, and the end of its timers. A failure
\* of the read or of the audit that follows it leaves the page as it is.
ReadBack(s) ==
  LET q == editor[s].query
      read == [editor EXCEPT ![s].drafts = IF q \in DOMAIN queries THEN Drafts(q) ELSE @]
  IN  /\ s \in saving /\ saving' = {}
      /\ \/ /\ editor' = [read EXCEPT ![s] = [Synchronized(@) EXCEPT !.timers = {}]]
            /\ Says(s, "saved") /\ UNCHANGED faults
         \/ /\ MetaFails /\ Says(s, "failed")
            /\ editor' \in {editor, read}
      /\ UNCHANGED <<storeVars, edits, requests>>

-----------------------------------------------------------------------------
(* The administrative API *)

Api ==
  /\ requests < MaxRequests
  /\ \/ \E t \in Text : CreateQuery(t)
     \/ \E q \in DOMAIN queries, t \in Text : UpdateQuery(q, t)
     \/ \E q \in DOMAIN queries : DeleteQuery(q)
     \/ \E q \in DOMAIN queries, n \in Name \ {NoName}, source \in Source, i \in 1..2 :
          AddParameter(q, n, source, i)
     \/ \E r \in rows, n \in Name \ {NoName}, source \in Source, i \in 1..2 :
          UpdateParameter(r, n, source, i)
     \/ \E r \in rows : DeleteParameter(r)
     \/ \E q \in DOMAIN queries :
          \E order \in SetToSeqs({r.id : r \in Own(q)}) : CheckOrder(q, order)
  /\ requests' = requests + 1
  /\ UNCHANGED <<editor, said, saving, edits, faults>>

FinishOrder == WriteOrder /\ UNCHANGED <<editor, said, saving, counters>>

Editor(s) ==
  \/ Open(s) \/ Detect(s) \/ Add(s) \/ RemoveRoute(s) \/ Close(s) \/ Save(s) \/ ReadBack(s)
  \/ \E t \in Text : Type(s, t)
  \/ \E i \in DOMAIN (IF editor[s].open THEN editor[s].drafts ELSE <<>>) :
       \/ MoveUp(s, i) \/ RemoveDraft(s, i)
       \/ \E n \in Name : Rename(s, i, n)
       \/ \E source \in Source : SetSource(s, i, source)

Next == Api \/ FinishOrder \/ \E s \in Session : Editor(s)

Spec == Init /\ [][Next]_vars

-----------------------------------------------------------------------------
(* Properties *)

Opens == {s \in Session : editor[s].open}

\* The table keeps its keys: one row for an id, one name for a parameter of a query,
\* one query for an address.
Keys ==
  /\ DOMAIN queries \subseteq 1..lastQuery
  /\ \A q \in DOMAIN queries : queries[q] \in Accepted /\ ~AddressTaken(queries[q], q)
  /\ \A r \in rows : /\ r.id \in 1..lastRow /\ r.query \in DOMAIN queries
                     /\ r.name \in Name /\ r.source \in Source /\ r.position \in Nat
                     /\ ~Clashes(Own(r.query), r.id, r.name)
                     /\ \A other \in rows : other.id = r.id => other = r

\* Every variable has its type, and the tables their keys.
TypeOK ==
  /\ Keys
  /\ said \in [Session -> {"nothing", "saved", "refused", "conflict", "failed"}]
  /\ saving \subseteq Opens
  /\ \A s \in Opens : /\ editor[s].query \in 0..lastQuery /\ editor[s].text \in Text
                      /\ editor[s].drafts \in Seq(Draft)
                      /\ editor[s].timers \subseteq 1..editor[s].generation

\* A save stores the drafts the session sees, all of them and no other, in their
\* order, keeps the ids of those it had read, and leaves the other routes alone.
SaveStoresSnapshot ==
  [][\A s \in Session : \A q \in DOMAIN queries' :
       s \in saving' \ saving /\ q = editor'[s].query =>
       LET drafts == editor[s].drafts
           stored == Drafts(q)'
       IN  /\ queries'[q] = editor[s].text
           /\ Len(stored) = Len(drafts)
           /\ \A i \in DOMAIN drafts :
                /\ stored[i].name = Canonical[drafts[i].name]
                /\ stored[i].source = drafts[i].source
                /\ drafts[i].id # 0 => stored[i].id = drafts[i].id
           /\ {r \in rows' : r.query # q} = {r \in rows : r.query # q}]_vars

\* A row of the session's route has the name by which its save parks another one.
TemporaryNamed(s) ==
  \E d \in ToSet(editor[s].drafts) : \E r \in Own(editor[s].query) :
    d.id # 0 /\ r.id # d.id /\ r.name = TemporaryName(d.id)

\* A save ends in a conflict only over the address of another route, or over a row to which
\* the API, which does not refuse such names, gave the temporary name of another
\* (query_service.py:498-503): all other names can be swapped and reused at will.
SwapsDoNotConflict ==
  [][\A s \in Session : said'[s] = "conflict" /\ said[s] # "conflict" =>
       \/ AddressTaken(editor[s].text, editor[s].query)
       \/ requests > 0 /\ TemporaryNamed(s)]_vars

\* "Temporary unique names make swaps and renames safe in the snapshot"
\* (query_service.py:498): a save never ends in a conflict over names of parameters.
TemporaryNamesAreUnique ==
  [][\A s \in Session : said'[s] = "conflict" /\ said[s] # "conflict" =>
       AddressTaken(editor[s].text, editor[s].query)]_vars

\* Once no detection is pending, the editor shows what its last text names, however
\* many detections were scheduled while it was typed.
DetectionIsCurrent ==
  \A s \in Opens : editor[s].timers = {} => editor[s].detected = Detected(editor[s].text)

\* A detection removes no draft and moves none, and changes of one nothing but the
\* case of its name and the source of a placeholder of the path.
DetectionKeepsDrafts ==
  [][\A s \in Session : Detect(s) =>
       LET before == editor[s].drafts
           after == editor'[s].drafts
       IN  /\ Len(after) >= Len(before)
           /\ \A i \in DOMAIN before :
                /\ after[i].id = before[i].id
                /\ Canonical[after[i].name] = Canonical[before[i].name]
                /\ \/ after[i].source = before[i].source
                   \/ after[i].source = "path" /\ after[i].name \in PathNames(editor[s].text)]_vars

\* As long as routes are changed only in editors, whatever the order in which their
\* sessions save and whatever fails, every stored route has a valid configuration.
EditorsKeepConfigurations ==
  requests = 0 => \A q \in DOMAIN queries : Valid(queries[q], Drafts(q))

\* A draft read from the table never names a parameter of another route, even when
\* the route it was read from has been deleted since.
DraftsStayOwn ==
  \A s \in Opens : \A i \in DOMAIN editor[s].drafts : \A r \in rows :
    r.id = editor[s].drafts[i].id => r.query = editor[s].query
====
