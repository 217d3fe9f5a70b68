---- MODULE MCRouteEditor ----
(***************************************************************************)
(* The text a new route starts with, "/" and "SELECT "; a GET with a       *)
(* placeholder A in its path and a bind B; a POST with the binds A and B;  *)
(* a GET at the first one's address that names only A. 3 is "a", 4 the     *)
(* temporary name of parameter 1, 9 the empty name.                        *)
(***************************************************************************)
EXTENDS RouteEditor

Found(name, source) == [name |-> name, source |-> source]

TheTexts == {"blank", "get", "post", "short"}
TheAccepted == TheTexts \ {"blank"}
TheAddress == [t \in TheTexts |-> IF t \in {"blank", "post"} THEN t ELSE "get"]
TheCandidates == [t \in TheTexts |->
  CASE t = "get" -> <<Found(1, "path"), Found(2, "query")>>
    [] t = "post" -> <<Found(1, "body"), Found(2, "body")>>
    [] t = "short" -> <<Found(1, "path")>>
    [] OTHER -> <<>>]
TheGets == {"blank", "get", "short"}
TheNames == {1, 2, 3, 4, 9}
TheCanonical == [n \in TheNames |-> IF n = 3 THEN 1 ELSE n]
TheTemporary == [id \in {1} |-> 4]
\* The sessions are alike.
Sessions == Permutations(Session)
====
