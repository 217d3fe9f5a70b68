---- MODULE SqlText ----
(***************************************************************************)
(* The SQL policy of app/core/query_service.py: how a text is stripped of  *)
(* comments and literals, split and judged, and which binds it names.      *)
(*                                                                         *)
(* A text is a sequence of symbols: punctuation, single letters and digits,*)
(* whole keywords, and marks such as a comma that nothing here looks for.  *)
(* Keywords next to letters, digits or each other are parts of a longer    *)
(* word. Only the letter a is told apart from its upper case, and letters  *)
(* are those of ASCII.                                                     *)
(***************************************************************************)
EXTENDS Integers, Sequences, FiniteSetsExt, SequencesExt

CONSTANTS Symbol, \* the symbols of texts
          Word    \* those of words: letters, digits, underscores and keywords

Space == {" ", "\n"}
DoubleQuote == "double quote"
Punctuation == Space \cup {"'", DoubleQuote, "-", "/", "*", ";", ":", "(", ")"}
Digit == {"1"}

\* Whatever is punctuation may stand in a text and in no word, and the upper case of what
\* may stand in it may too.
ASSUME SymbolAssumption ==
  /\ Punctuation \subseteq Symbol /\ Word \subseteq Symbol /\ Punctuation \cap Word = {}
  /\ "A" \in Word /\ ("a" \in Symbol => "a" \in Word) /\ "" \notin Symbol

IsWord(c) == c \in Word
IsLetter(c) == IsWord(c) /\ c \notin Digit
Upper(s) == [i \in DOMAIN s |-> IF s[i] = "a" THEN "A" ELSE s[i]]

Blank(s) == \A i \in DOMAIN s : s[i] \in Space
\* str.rstrip and str.lstrip.
RightStripped(s) == SubSeq(s, 1, Max({0} \cup {i \in DOMAIN s : s[i] \notin Space}))
LeftStripped(s) == SubSeq(s, Min({Len(s) + 1} \cup {i \in DOMAIN s : s[i] \notin Space}), Len(s))

-----------------------------------------------------------------------------
(* Comments and literals *)

PairAt(s, i, c, d) == i < Len(s) /\ s[i] = c /\ s[i + 1] = d

\* Where reading goes on after a comment whose text starts at i.
LineEnd(s, i) == Min({Len(s) + 1} \cup {j \in i..Len(s) : s[j] = "\n"})
BlockEnd(s, i) == Min({Len(s) + 1} \cup {j + 2 : j \in {k \in i..Len(s) : PairAt(s, k, "*", "/")}})

\* Mutant of StripComments: comment marks are found inside literals too.
StripCommentsAnywhere(s) ==
  LET from[i \in 1..Len(s) + 1] ==
        CASE i > Len(s) -> <<>>
          [] PairAt(s, i, "-", "-") -> <<" ">> \o from[LineEnd(s, i + 2)]
          [] PairAt(s, i, "/", "*") -> <<" ">> \o from[BlockEnd(s, i + 2)]
          [] OTHER -> <<s[i]>> \o from[i + 1]
  IN  from[1]

StripComments(s) ==
  LET from[i \in 1..Len(s) + 1] == [mode \in {"code", "literal"} |->
        CASE i > Len(s) -> <<>>
          [] mode = "code" /\ i <= Len(s) /\ s[i] = "'" -> <<"'">> \o from[i + 1]["literal"]
          [] mode = "code" /\ PairAt(s, i, "-", "-") -> <<" ">> \o from[LineEnd(s, i + 2)][mode]
          [] mode = "code" /\ PairAt(s, i, "/", "*") -> <<" ">> \o from[BlockEnd(s, i + 2)][mode]
          [] mode = "literal" /\ PairAt(s, i, "'", "'") -> <<"'", "'">> \o from[i + 2][mode]
          [] mode = "literal" /\ i <= Len(s) /\ s[i] = "'" /\ ~PairAt(s, i, "'", "'") ->
               <<"'">> \o from[i + 1]["code"]
          [] OTHER -> <<s[i]>> \o from[i + 1][mode]]
  IN  from[1]["code"]

\* Where reading goes on after a literal whose text starts at i.
LiteralEnd(s, i) ==
  LET after[j \in 1..Len(s) + 1] ==
        CASE j > Len(s) -> j
          [] PairAt(s, j, "'", "'") -> after[j + 2]
          [] j <= Len(s) /\ s[j] = "'" /\ ~PairAt(s, j, "'", "'") -> j + 1
          [] OTHER -> after[j + 1]
  IN  after[i]

StripLiterals(s) ==
  LET from[i \in 1..Len(s) + 1] ==
        IF i > Len(s) THEN <<>>
        ELSE IF s[i] = "'" THEN <<"'", "'">> \o from[LiteralEnd(s, i + 1)]
        ELSE <<s[i]>> \o from[i + 1]
  IN  from[1]

Scrubbed(s) == StripLiterals(StripComments(s))

\* The statement that was read, unless it is blank, is one more.
Ended(acc) == IF Blank(acc.current) THEN acc.parts ELSE Append(acc.parts, acc.current)

\* A quote inside a literal, doubled or not, leaves quoted as the code's loop does.
SplitStep(acc, c) ==
  CASE c = "'" -> [acc EXCEPT !.current = Append(@, c), !.quoted = ~@]
    [] c = ";" /\ ~acc.quoted -> [acc EXCEPT !.parts = Ended(acc), !.current = <<>>]
    [] OTHER -> [acc EXCEPT !.current = Append(@, c)]

Splitting(s) ==
  LET read[i \in 0..Len(s)] == IF i = 0 THEN [parts |-> <<>>, current |-> <<>>, quoted |-> FALSE]
                               ELSE SplitStep(read[i - 1], s[i])
  IN  read[Len(s)]

SplitStatements(s) == Ended(Splitting(s))

-----------------------------------------------------------------------------
(* Words *)

Balanced(text) ==
  LET Count(c, i) == Cardinality({j \in 1..i : text[j] = c})
  IN  /\ \A i \in DOMAIN text : Count("(", i) >= Count(")", i)
      /\ Count("(", Len(text)) = Count(")", Len(text))

Flushed(acc) ==
  IF acc.current = <<>> THEN acc
  ELSE [acc EXCEPT !.words = Append(@, acc.current), !.current = <<>>]

WordStep(acc, c) ==
  CASE c = "(" -> [Flushed(acc) EXCEPT !.depth = @ + 1]
    [] c = ")" -> [acc EXCEPT !.depth = Max({0, @ - 1})]
    [] acc.depth = 0 /\ IsWord(c) -> [acc EXCEPT !.current = Append(@, c)]
    [] acc.depth = 0 /\ ~IsWord(c) /\ c \notin {"(", ")"} -> Flushed(acc)
    [] OTHER -> acc

\* The words outside parentheses, in upper case.
TopLevelWords(s) ==
  LET text == Upper(s)
      read[i \in 0..Len(s)] == IF i = 0 THEN [words |-> <<>>, current |-> <<>>, depth |-> 0]
                               ELSE WordStep(read[i - 1], text[i])
  IN  Flushed(read[Len(s)]).words

\* All words.
Tokens(s) ==
  ToSet(TopLevelWords([i \in DOMAIN s |-> IF s[i] \in {"(", ")"} THEN " " ELSE s[i]]))

\* s starts with these words, in this order, spaces between them, and the last one is whole.
StartsWith(s, words) ==
  \E n \in 0..Len(s) :
    /\ n = Len(s) \/ ~IsWord(s[n + 1])
    /\ \A i \in 1..n : s[i] \in Space \/ IsWord(s[i])
    /\ TopLevelWords(SubSeq(s, 1, n)) = [i \in DOMAIN words |-> <<words[i]>>]

\* The letters s starts with.
Leading(s) == SubSeq(s, 1, Min({Len(s)} \cup {i - 1 : i \in {j \in DOMAIN s : ~IsLetter(s[j])}}))

Operation == {<<"SELECT">>, <<"INSERT">>, <<"UPDATE">>, <<"DELETE">>, <<"MERGE">>}

TypeOf(text) ==
  LET operations == SelectSeq(TopLevelWords(text), LAMBDA w : w \in Operation)
  IN  IF StartsWith(text, <<"EXECUTE", "PROCEDURE">>) THEN <<"PROCEDURE">>
      ELSE IF StartsWith(text, <<"UPDATE", "OR", "INSERT">>) THEN <<"UPSERT">>
      ELSE IF text # <<>> /\ text[1] = "WITH"
      THEN IF operations = <<>> THEN <<>> ELSE Last(operations)
      ELSE Leading(text)

StatementType(s) == TypeOf(LeftStripped(Upper(Scrubbed(s))))

Forbidden == {"CREATE", "ALTER", "DROP", "TRUNCATE", "GRANT", "REVOKE", "COMMIT",
              "ROLLBACK", "SAVEPOINT", "CONNECT", "DISCONNECT"}

Method == {"GET", "POST", "PUT", "PATCH", "DELETE"}

Allowed(method) ==
  CASE method = "GET" -> {<<"SELECT">>}
    [] method = "POST" -> {<<"INSERT">>, <<"PROCEDURE">>}
    [] method \in {"PUT", "PATCH"} -> {<<"UPDATE">>, <<"MERGE">>, <<"UPSERT">>, <<"PROCEDURE">>}
    [] method = "DELETE" -> {<<"DELETE">>, <<"PROCEDURE">>}

Spoken(statement) == Tokens(StripLiterals(statement))

ValidStatement(statement, method) ==
  /\ \A w \in {"TRANSACTION", "AUTODDL", "TERM"} : ~StartsWith(statement, <<"SET", w>>)
  /\ Balanced(StripLiterals(statement))
  /\ ~({<<"EXECUTE">>, <<"BLOCK">>} \subseteq Spoken(statement))
  /\ {<<w>> : w \in Forbidden} \cap Spoken(statement) = {}
  /\ StatementType(statement) \in Allowed(method)

\* validate_query.
ValidQuery(s, method) ==
  LET statements == SplitStatements(StripComments(s))
  IN  Len(statements) = 1 /\ ValidStatement(LeftStripped(RightStripped(statements[1])), method)

-----------------------------------------------------------------------------
(* Binds *)

\* The name that starts at i, as far as word symbols go.
NameAt(s, i) ==
  SubSeq(s, i, Min({Len(s)} \cup {j - 1 : j \in {k \in i..Len(s) : ~IsWord(s[k])}}))

\* (?<!:):([A-Za-z_][A-Za-z0-9_]*)
Binds(s) == {NameAt(s, i + 1) : i \in {j \in 1..Len(s) - 1 :
                /\ s[j] = ":" /\ IsLetter(s[j + 1])
                /\ j = 1 \/ s[j - 1] # ":"}}

\* What is left of a name before a colon: \w+(?!:) gives back its last symbol.
BeforeColon(s, i) ==
  LET n == NameAt(s, i)
      end == i + Len(n) - 1
  IN  IF end < Len(s) /\ s[end + 1] = ":" THEN Front(n) ELSE n

\* The binds that text() of SQLAlchemy asks values for, wherever they stand: a colon
\* after a colon or a word names none, and digits may start a name.
DriverBinds(s) == {BeforeColon(s, i + 1) : i \in {j \in 1..Len(s) - 1 :
                      /\ s[j] = ":" /\ IsWord(s[j + 1])
                      /\ j = 1 \/ (~IsWord(s[j - 1]) /\ s[j - 1] # ":")}} \ {<<>>}

-----------------------------------------------------------------------------
(* What SQL means by a text: one pass, a symbol at a time *)

\* c opens a literal or, with the symbol before it, a comment.
Opens(last, c) == c = "'" \/ (last = "-" /\ c = "-") \/ (last = "/" /\ c = "*")

\* A comment becomes a space and a literal two quotes; a delimited identifier, a name
\* between double quotes, is code, whatever stands in it. "last" is the last symbol of the
\* code, if the next one may make a pair with it; "odd" notes that a literal or a comment
\* would have begun inside a name.
CodeStep(acc, c) ==
  CASE acc.mode = "line" /\ c # "\n" -> acc
    [] acc.mode = "line" /\ c = "\n" ->
         [acc EXCEPT !.mode = "code", !.out = Append(@, c), !.last = c]
    [] acc.mode = "block" /\ c = "/" /\ acc.last = "*" -> [acc EXCEPT !.mode = "code", !.last = ""]
    [] acc.mode = "block" /\ ~(c = "/" /\ acc.last = "*") -> [acc EXCEPT !.last = c]
    [] acc.mode = "literal" /\ c = "'" -> [acc EXCEPT !.mode = "code", !.last = c]
    [] acc.mode = "literal" /\ c # "'" -> acc
    [] acc.mode = "name" ->
         [acc EXCEPT !.mode = IF c = DoubleQuote THEN "code" ELSE "name",
                     !.out = Append(@, c), !.last = c, !.odd = @ \/ Opens(acc.last, c)]
    [] acc.mode = "code" /\ c = DoubleQuote ->
         [acc EXCEPT !.mode = "name", !.out = Append(@, c), !.last = c]
    [] acc.mode = "code" /\ c = "'" ->
         [acc EXCEPT !.mode = "literal",
                     !.out = IF acc.last = "'" THEN @ ELSE @ \o <<"'", "'">>]
    [] acc.mode = "code" /\ c = acc.last /\ c = "-" ->
         [acc EXCEPT !.mode = "line", !.out = Append(Front(@), " ")]
    [] acc.mode = "code" /\ c = "*" /\ acc.last = "/" ->
         [acc EXCEPT !.mode = "block", !.out = Append(Front(@), " "), !.last = ""]
    [] OTHER -> [acc EXCEPT !.out = Append(@, c), !.last = c]

Reading(s) ==
  LET read[i \in 0..Len(s)] ==
        IF i = 0 THEN [mode |-> "code", out |-> <<>>, last |-> "", odd |-> FALSE]
        ELSE CodeStep(read[i - 1], s[i])
  IN  read[Len(s)]

Code(s) == Reading(s).out

\* Delimited identifiers have no quote and no comment mark in them.
Regular(s) == ~Reading(s).odd

\* Every literal, name and comment of more lines is closed.
Whole(s) == Reading(s).mode \in {"code", "line"}
====
