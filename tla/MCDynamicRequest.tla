---- MODULE MCDynamicRequest ----
(***************************************************************************)
(* An instance of DynamicRequest for TLC.                                  *)
(***************************************************************************)
EXTENDS DynamicRequest

D(text, typed) == [text |-> text, room |-> typed]

\* From nothing any text of four symbols; one or two more after statements of each kind,
\* after a literal, comments and names that hide words, and for what is refused.
SomeDrafts ==
  {D(<<"SELECT", " ", "a", c>>, 1) : c \in {"'", DoubleQuote, "-", "/", ":"}} \cup
  {D(<<>>, 4), D(<<"'", "-">>, 3), D(<<"SELECT", " ", "a">>, 1),
   D(<<"SELECT", " ", ":", "a", " ">>, 1),
   D(<<"SELECT", " ", ":", "a", " ", "ROWS", " ", "1">>, 0),
   D(<<"SELECT", "(", "SELECT", " ", "FIRST", " ", "1", " ", "a", ")">>, 1),
   D(<<"SELECT", " ", "a", " ", "ORDER", " ", "BY", " ", "a">>, 0),
   D(<<"SELECT", " ", "'", "DROP">>, 1),
   D(<<"SELECT", " ", DoubleQuote, "a", ":", "a">>, 2),
   D(<<"SELECT", " ", DoubleQuote, "-", "-", DoubleQuote, ",", ":", "a">>, 0),
   D(<<"SELECT", " ", "a", " ", "-", "-", "end">>, 0),
   D(<<"WITH", " ", "a", "(", "SELECT", " ", "a", ")", " ", "UPDATE", " ", "a">>, 0),
   D(<<"INSERT", " ", "a", "(", ":", "a">>, 1),
   D(<<"UPDATE", " ", "OR", " ", "INSERT", " ", ":", "a">>, 0),
   D(<<"EXECUTE", " ", "PROCEDURE", " ", "a">>, 1),
   D(<<"EXECUTE", " ", "BLOCK", " ", "a">>, 0),
   D(<<"SET", " ", "TRANSACTION", " ", "a">>, 0),
   D(<<"DELETE", " ", "a", " ", "/", "*", "DROP">>, 1)}

SomeAlphabet == {"'", DoubleQuote, "-", "/", "*", ";", ":", "a", ")", " ", "\n"}
SomeNames == {<<"a">>, <<"A">>}
SomeLimits == {Absent, [kind |-> "text", value |-> 0], Number(0), Number(2), Number(5)}
SomeOffsets == {Absent, Number(-1), Number(3)}
SomeOrders == {<<>>, <<"a", " ", "DESC">>, <<"ROWS">>, <<"a", ";">>}
SomeDeclared == {<<"A">>}
SomeSymbols == Punctuation \cup Digit \cup Added \cup {"A"} \cup SomeAlphabet
               \cup UNION {ToSet(d.text) : d \in SomeDrafts} \cup UNION {ToSet(o) : o \in SomeOrders}
SomeWords == SomeSymbols \ (Punctuation \cup {","})
====
