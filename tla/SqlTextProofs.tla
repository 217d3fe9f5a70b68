---- MODULE SqlTextProofs ----
(***************************************************************************)
(* What is proved of SqlText for every text, in any symbols: the policy of *)
(* app/core/query_service.py, in several passes, sees and judges what one  *)
(* pass over the text sees, which is its code unless a name between double *)
(* quotes has a quote or a comment mark in it, and a text that goes on     *)
(* keeps its binds.                                                        *)
(***************************************************************************)
EXTENDS SqlText, SequenceTheorems, WellFoundedInduction, TLAPS

\* The texts.
Text == Seq(Symbol)

-----------------------------------------------------------------------------
(* Induction and recursion over numbers, as sets *)

\* A set of naturals that is not empty has a least element.
LEMMA Least ==
  ASSUME NEW T \in SUBSET Nat, T # {}
  PROVE  \E m \in T : \A n \in T : m <= n
<1>1. PICK m \in T : \A n \in T : ~ (<<n, m>> \in OpToRel(<, Nat))
  BY NatLessThanWellFounded, WFMin
<1>2. \A n \in T : ~ (n < m)
  BY <1>1 DEF OpToRel
<1> QED BY <1>2

\* The least of a set is the one element that no other is below.
LEMMA MinIs ==
  ASSUME NEW T \in SUBSET Nat, NEW m \in T, \A n \in T : m <= n
  PROVE  Min(T) = m
<1>1. \A x \in T : (\A y \in T : x <= y) => x = m
  OBVIOUS
<1> QED BY <1>1 DEF Min

\* A set of numbers that is not empty has the number Min chooses.
LEMMA MinIn ==
  ASSUME NEW T \in SUBSET Nat, T # {}
  PROVE  Min(T) \in T /\ \A n \in T : Min(T) <= n
BY Least DEF Min

\* What holds of 0 and passes from each i to i + 1 holds up to n.
LEMMA Steps ==
  ASSUME NEW n \in Nat, NEW T, 0 \in T, \A i \in 0..n - 1 : i \in T => i + 1 \in T
  PROVE  0..n \subseteq T
<1> DEFINE bad == {i \in 0..n : i \notin T}
<1> SUFFICES ASSUME bad # {} PROVE FALSE
  OBVIOUS
<1>1. bad \in SUBSET Nat
  OBVIOUS
<1>2. PICK m \in bad : \A i \in bad : m <= i
  <2> HIDE DEF bad
  <2> QED BY <1>1, Least
<1>3. m \in 1..n
  BY <1>2
<1>4. m - 1 \in 0..n - 1 /\ m - 1 \notin bad /\ (m - 1) + 1 = m
  BY <1>2, <1>3
<1> QED BY <1>2, <1>4

\* What holds of n + 1 and of each place if it holds of all later ones holds from 1 on.
LEMMA StepsDown ==
  ASSUME NEW n \in Nat, NEW T, n + 1 \in T,
         \A i \in 1..n : (\A j \in i + 1..n + 1 : j \in T) => i \in T
  PROVE  1..n + 1 \subseteq T
<1> DEFINE K == {k \in 0..n : \A j \in n + 1 - k..n + 1 : j \in T}
<1>1. 0 \in K
  OBVIOUS
<1>2. ASSUME NEW k \in 0..n - 1, k \in K PROVE k + 1 \in K
  <2>1. n - k \in 1..n /\ (n - k) + 1 = n + 1 - k /\ n + 1 - (k + 1) = n - k
    OBVIOUS
  <2>2. \A j \in (n - k) + 1..n + 1 : j \in T
    BY <1>2, <2>1
  <2>3. n - k \in T
    BY <2>1, <2>2
  <2>4. \A j \in n - k..n + 1 : j = n - k \/ j \in (n - k) + 1..n + 1
    OBVIOUS
  <2> QED BY <2>1, <2>2, <2>3, <2>4
<1>3. n \in K
  <2> HIDE DEF K
  <2>1. 0..n \subseteq K
    BY <1>1, <1>2, Steps
  <2> QED BY <2>1
<1> QED BY <1>3

\* What is below i + 1 is i or below it.
LEMMA Below == \A n \in Nat : \A i, j \in 0..n : j < i + 1 => j = i \/ j < i
OBVIOUS

\* What F makes of a function at a place depends on its values at places of lower rank.
Local(D, V, rank, F) ==
  \A d \in D : \A g, h \in [D -> V] :
    (\A e \in D : rank[e] < rank[d] => g[e] = h[e]) => F[d][g] = F[d][h]

\* Some function is what F makes of it.
Solved(D, V, F) == \E f \in [D -> V] : \A d \in D : f[d] = F[d][f]

\* Then there is a function that F defines.
LEMMA Recursion ==
  ASSUME NEW D, NEW V, V # {}, NEW n \in Nat, NEW rank \in [D -> 0..n],
         NEW F \in [D -> [[D -> V] -> V]], Local(D, V, rank, F)
  PROVE  Solved(D, V, F)
<1> DEFINE Upto(f, k) == \A d \in D : rank[d] < k => f[d] = F[d][f]
           T == {k \in Nat : \E f \in [D -> V] : Upto(f, k)}
<1>1. 0 \in T
  <2>1. PICK v \in V : TRUE
    OBVIOUS
  <2>2. [d \in D |-> v] \in [D -> V]
    OBVIOUS
  <2>3. Upto([d \in D |-> v], 0)
    OBVIOUS
  <2> QED BY <2>2, <2>3
<1>2. ASSUME NEW k \in 0..n, k \in T PROVE k + 1 \in T
  <2>1. PICK f \in [D -> V] : Upto(f, k)
    BY <1>2
  <2> DEFINE g == [d \in D |-> IF rank[d] = k THEN F[d][f] ELSE f[d]]
  <2>2. g \in [D -> V] /\ \A d \in D : g[d] = IF rank[d] = k THEN F[d][f] ELSE f[d]
    OBVIOUS
  <2> HIDE DEF g
  <2>3. \A e \in D : rank[e] < k => g[e] = f[e]
    BY <2>2
  <2>4. ASSUME NEW d \in D, rank[d] < k + 1 PROVE g[d] = F[d][g]
    <3>1. \A e \in D : rank[e] < rank[d] => g[e] = f[e]
      BY <2>3, <2>4
    <3>2. F[d][g] = F[d][f]
      BY <2>2, <3>1, Zenon DEF Local
    <3>3. CASE rank[d] = k
      BY <2>2, <3>2, <3>3
    <3>4. CASE rank[d] < k
      BY <2>1, <2>3, <3>2, <3>4
    <3>5. rank[d] = k \/ rank[d] < k
      <4>1. rank[d] \in 0..n
        OBVIOUS
      <4> QED BY <2>4, <4>1, Below
    <3> QED BY <3>3, <3>4, <3>5
  <2>5. Upto(g, k + 1)
    BY <2>4
  <2> QED BY <2>2, <2>5
<1>3. n + 1 \in T
  <2> HIDE DEF T
  <2>1. 0..n + 1 \subseteq T
    BY <1>1, <1>2, Steps
  <2> QED BY <2>1
<1>4. PICK f \in [D -> V] : Upto(f, n + 1)
  BY <1>3
<1>5. \A d \in D : rank[d] < n + 1
  OBVIOUS
<1> QED BY <1>4, <1>5, Zenon DEF Solved

-----------------------------------------------------------------------------
(* Sequences *)

\* A symbol that is appended, and its removal.
LEMMA Appended ==
  ASSUME NEW u \in Text, NEW c \in Symbol
  PROVE  /\ Append(u, c) \in Text /\ Len(Append(u, c)) = Len(u) + 1
         /\ Append(u, c)[Len(u) + 1] = c
         /\ \A i \in 1..Len(u) : Append(u, c)[i] = u[i]
         /\ Front(Append(u, c)) = u
<1>1. /\ Append(u, c) \in Text /\ Len(Append(u, c)) = Len(u) + 1
      /\ Append(u, c)[Len(u) + 1] = c
      /\ \A i \in 1..Len(u) : Append(u, c)[i] = u[i]
  BY DEF Text
<1>2. Front(Append(u, c)) = u
  BY <1>1, AppendProperties DEF Text, Front
<1> QED BY <1>1, <1>2

\* The symbol a text ends with after Append.
LEMMA EndOfAppended ==
  ASSUME NEW u \in Text, NEW c \in Symbol
  PROVE  /\ Append(u, c) \in Text /\ Append(u, c) # <<>>
         /\ Append(u, c)[Len(Append(u, c))] = c
BY DEF Text

\* A text without its last symbol.
LEMMA Fronts ==
  ASSUME NEW u \in Text, u # <<>>
  PROVE  /\ Front(u) \in Text /\ Len(Front(u)) = Len(u) - 1
         /\ u = Append(Front(u), u[Len(u)]) /\ u[Len(u)] \in Symbol
<1>1. Len(u) \in Nat /\ Len(u) # 0 /\ \A i \in 1..Len(u) : u[i] \in Symbol
  BY DEF Text
<1>2. Front(u) \in Text /\ u[Len(u)] \in Symbol
  BY <1>1 DEF Front, Text
<1>4. Len(Front(u)) = Len(u) - 1
  <2> DEFINE m == Len(u) - 1
  <2>1. m \in Nat /\ \A i \in 1..m : u[i] \in Symbol
    BY <1>1
  <2>2. Len(Front(u)) = IF 1 <= m THEN m - 1 + 1 ELSE 0
    <3> HIDE DEF m
    <3>1. Len(SubSeq(u, 1, m)) = IF 1 <= m THEN m - 1 + 1 ELSE 0
      BY <2>1, SubSeqProperties
    <3> QED BY <3>1, Zenon DEF Front, m
  <2>3. Len(Front(u)) = m
    <3> HIDE DEF m
    <3> QED BY <2>1, <2>2
  <2> QED BY <2>3
<1>3. \A i \in 1..Len(u) - 1 : Front(u)[i] = u[i]
  BY <1>1 DEF Front, Text
<1> QED BY <1>1, <1>2, <1>3, <1>4 DEF Text

\* Short texts, and texts one after the other.
LEMMA Short == \A a, b \in Symbol : <<a>> \in Text /\ <<a, b>> \in Text /\ <<>> \in Text
BY DEF Text

\* Two texts make one.
LEMMA Joined ==
  ASSUME NEW u \in Text, NEW v \in Text
  PROVE  u \o v \in Text
BY DEF Text

\* What the policy writes into texts.
LEMMA WrittenTexts ==
  /\ "'" \in Symbol /\ " " \in Symbol /\ "\n" \in Symbol
  /\ <<>> \in Text /\ <<" ">> \in Text /\ <<"'">> \in Text /\ <<"'", "'">> \in Text
<1>1. "'" \in Symbol /\ " " \in Symbol /\ "\n" \in Symbol
  BY SymbolAssumption DEF Punctuation, Space
<1> QED BY <1>1, Short

\* The first k symbols of a text.
Pre(u, k) == SubSeq(u, 1, k)

\* Prefixes are texts, each one symbol longer than the one before.
LEMMA PrefixOf ==
  ASSUME NEW u \in Text
  PROVE  /\ Len(u) \in Nat /\ Pre(u, 0) = <<>> /\ Pre(u, Len(u)) = u
         /\ \A i \in 1..Len(u) : u[i] \in Symbol
         /\ \A k \in 0..Len(u) : /\ Pre(u, k) \in Text /\ Len(Pre(u, k)) = k
                                 /\ \A i \in 1..k : Pre(u, k)[i] = u[i]
<1>1. Len(u) \in Nat /\ \A i \in 1..Len(u) : u[i] \in Symbol
  BY DEF Text
<1>2. Pre(u, 0) = <<>> /\ Pre(u, Len(u)) = u
  BY <1>1 DEF Pre, Text
<1>3. ASSUME NEW k \in 0..Len(u)
      PROVE  /\ Pre(u, k) \in Text /\ Len(Pre(u, k)) = k
             /\ \A i \in 1..k : Pre(u, k)[i] = u[i]
  BY <1>1 DEF Pre, Text
<1> QED BY <1>1, <1>2, <1>3

\* The next prefix.
LEMMA NextPrefix ==
  ASSUME NEW u \in Text, NEW k \in 0..Len(u) - 1
  PROVE  u[k + 1] \in Symbol /\ Pre(u, k + 1) = Append(Pre(u, k), u[k + 1])
<1>1. Len(u) \in Nat /\ DOMAIN u = 1..Len(u) /\ \A i \in 1..Len(u) : u[i] \in Symbol
  BY DEF Text
<1>2. k + 1 \in 1..Len(u)
  BY <1>1
<1> QED BY <1>1, <1>2 DEF Pre, Text

\* Prefixes of what is appended to.
LEMMA PrefixOfAppended ==
  ASSUME NEW u \in Text, NEW c \in Symbol
  PROVE  /\ \A k \in 0..Len(u) : Pre(Append(u, c), k) = Pre(u, k)
         /\ Pre(Append(u, c), Len(u) + 1) = Append(u, c)
<1>1. Append(u, c) \in Text /\ Len(Append(u, c)) = Len(u) + 1 /\ Len(u) \in Nat
  BY Appended, PrefixOf
<1>2. Pre(Append(u, c), Len(u) + 1) = Append(u, c)
  BY <1>1, PrefixOf
<1>3. ASSUME NEW k \in 0..Len(u) PROVE Pre(Append(u, c), k) = Pre(u, k)
  <2>1. \A i \in 1..k : Append(u, c)[i] = u[i]
    BY <1>1, Appended
  <2> QED BY <1>1, <2>1 DEF Pre, Text
<1> QED BY <1>2, <1>3

\* The length of a text is a number.
LEMMA LenNat == ASSUME NEW u \in Text PROVE Len(u) \in Nat
BY DEF Text

\* The places after one in a text.
LEMMA Places ==
  ASSUME NEW u \in Text, NEW i \in 0..Len(u) - 1
  PROVE  /\ i + 1 \in 1..Len(u) /\ i + 1 \in 0..Len(u) /\ i + 1 \in 1..Len(u) + 1
         /\ (i + 1) + 1 \in 1..Len(u) + 1 /\ i \in 0..Len(u)
BY LenNat

\* Induction over texts.
LEMMA TextInduction ==
  ASSUME NEW T, <<>> \in T,
         \A u \in Text, c \in Symbol : u \in T => Append(u, c) \in T
  PROVE  Text \subseteq T
<1> SUFFICES ASSUME NEW u \in Text PROVE u \in T
  OBVIOUS
<1> DEFINE K == {k \in 0..Len(u) : Pre(u, k) \in T}
<1>1. 0 \in K
  BY PrefixOf
<1>2. ASSUME NEW k \in 0..Len(u) - 1, k \in K PROVE k + 1 \in K
  <2>1. k \in 0..Len(u) /\ k + 1 \in 0..Len(u)
    BY PrefixOf
  <2>2. Pre(u, k + 1) = Append(Pre(u, k), u[k + 1]) /\ u[k + 1] \in Symbol
    BY NextPrefix
  <2>3. Pre(u, k) \in Text /\ Pre(u, k) \in T
    BY <1>2, <2>1, PrefixOf
  <2> QED BY <2>1, <2>2, <2>3
<1>3. Len(u) \in Nat
  BY PrefixOf
<1>4. 0..Len(u) \subseteq K
  <2> HIDE DEF K
  <2> QED BY <1>1, <1>2, <1>3, Steps
<1> QED BY <1>3, <1>4, PrefixOf

\* A fold over the symbols of a text is a function of the places in it.
LEMMA Folding ==
  ASSUME NEW u \in Text, NEW V, NEW v0 \in V, NEW step \in [Symbol -> [V -> V]]
  PROVE  \E f \in [0..Len(u) -> V] :
           \A i \in 0..Len(u) : f[i] = IF i = 0 THEN v0 ELSE step[u[i]][f[i - 1]]
<1> DEFINE D == 0..Len(u)
           rank == [i \in D |-> i]
           F == [i \in D |-> [g \in [D -> V] |-> IF i = 0 THEN v0 ELSE step[u[i]][g[i - 1]]]]
<1>1. Len(u) \in Nat /\ \A i \in 1..Len(u) : u[i] \in Symbol
  BY PrefixOf
<1>2. \A i \in D : i # 0 => u[i] \in Symbol /\ i - 1 \in D
  BY <1>1
<1>3. \A i \in D : \A g \in [D -> V] : (IF i = 0 THEN v0 ELSE step[u[i]][g[i - 1]]) \in V
  <2> SUFFICES ASSUME NEW i \in D, NEW g \in [D -> V], i # 0 PROVE step[u[i]][g[i - 1]] \in V
    OBVIOUS
  <2>1. step[u[i]] \in [V -> V] /\ g[i - 1] \in V
    BY <1>2
  <2> QED BY <2>1
<1>4. F \in [D -> [[D -> V] -> V]]
  BY <1>3
<1>5. rank \in [D -> 0..Len(u)] /\ V # {}
  OBVIOUS
<1>6. ASSUME NEW i \in D, NEW g \in [D -> V], NEW h \in [D -> V],
             \A e \in D : rank[e] < rank[i] => g[e] = h[e]
      PROVE  F[i][g] = F[i][h]
  <2>1. i # 0 => g[i - 1] = h[i - 1]
    <3>1. i # 0 => i - 1 \in D /\ i - 1 < i
      BY <1>1
    <3> QED BY <1>6, <3>1
  <2> QED BY <2>1
<1>7. Local(D, V, rank, F)
  <2> HIDE DEF F, rank, D
  <2> QED BY <1>6, Zenon DEF Local
<1>8. Solved(D, V, F)
  <2> HIDE DEF F, rank, D
  <2> QED BY <1>1, <1>4, <1>5, <1>7, Recursion, Zenon
<1>9. PICK f \in [D -> V] : \A i \in D : f[i] = F[i][f]
  <2> HIDE DEF F, rank, D
  <2> QED BY <1>8, Zenon DEF Solved
<1> QED BY <1>9

-----------------------------------------------------------------------------
(* The reader of the policy: what it sees of a text, name or not, in one pass *)

\* A step of the reader, which does not know of delimited identifiers.
SeenStep(acc, c) ==
  CASE acc.mode = "line" /\ c # "\n" -> acc
    [] acc.mode = "line" /\ c = "\n" ->
         [acc EXCEPT !.mode = "code", !.out = Append(@, c), !.last = c]
    [] acc.mode = "block" /\ c = "/" /\ acc.last = "*" -> [acc EXCEPT !.mode = "code", !.last = ""]
    [] acc.mode = "block" /\ ~(c = "/" /\ acc.last = "*") -> [acc EXCEPT !.last = c]
    [] acc.mode = "literal" /\ c = "'" -> [acc EXCEPT !.mode = "code", !.last = c]
    [] acc.mode = "literal" /\ c # "'" -> acc
    [] acc.mode = "code" /\ c = "'" ->
         [acc EXCEPT !.mode = "literal",
                     !.out = IF acc.last = "'" THEN @ ELSE @ \o <<"'", "'">>]
    [] acc.mode = "code" /\ c = acc.last /\ c = "-" ->
         [acc EXCEPT !.mode = "line", !.out = Append(Front(@), " ")]
    [] acc.mode = "code" /\ c = "*" /\ acc.last = "/" ->
         [acc EXCEPT !.mode = "block", !.out = Append(Front(@), " "), !.last = ""]
    [] OTHER -> [acc EXCEPT !.out = Append(@, c), !.last = c]

\* What it knows after a text.
Seeing(s) ==
  LET read[i \in 0..Len(s)] == IF i = 0 THEN [mode |-> "code", out |-> <<>>, last |-> ""]
                               ELSE SeenStep(read[i - 1], s[i])
  IN  read[Len(s)]

\* What it leaves of a text.
Seen(s) == Seeing(s).out

\* What the reader knows after a prefix; the symbol it may pair with the next one is the
\* last of the code, unless it ends a comment or a literal.
State ==
  {st \in [mode : {"code", "literal", "line", "block"}, out : Text, last : Symbol \cup {""}] :
     st.mode = "code" /\ st.last \notin {"", "'"} =>
       st.out # <<>> /\ st.out[Len(st.out)] = st.last}

\* The reader before the first symbol.
Start == [mode |-> "code", out |-> <<>>, last |-> ""]

\* A step of the reader, by what it reads in which mode.
LEMMA Stepping ==
  ASSUME NEW st \in State, NEW c \in Symbol
  PROVE  SeenStep(st, c) \in State
<1>1. /\ st.mode \in {"code", "literal", "line", "block"} /\ st.out \in Text
      /\ st.last \in Symbol \cup {""}
      /\ st = [mode |-> st.mode, out |-> st.out, last |-> st.last]
  BY DEF State
<1>2. /\ Append(st.out, c) \in Text /\ Append(st.out, c) # <<>>
      /\ Append(st.out, c)[Len(Append(st.out, c))] = c
  BY <1>1, EndOfAppended
<1>3. st.out # <<>> => Front(st.out) \in Text
  BY <1>1, Fronts
<1>4. st.mode = "code" /\ st.last \in {"-", "/"} => Append(Front(st.out), " ") \in Text
  <2>1. st.mode = "code" /\ st.last \in {"-", "/"} => Front(st.out) \in Text
    BY <1>3 DEF State
  <2> QED BY <2>1, WrittenTexts, Appended
<1>5. st.out \o <<"'", "'">> \in Text /\ "'" \in Symbol
  BY <1>1, WrittenTexts, Joined
<1>6. SeenStep(st, c) \in [mode : {"code", "literal", "line", "block"}, out : Text,
                            last : Symbol \cup {""}]
  BY <1>1, <1>2, <1>4, <1>5 DEF SeenStep
<1> QED BY <1>1, <1>2, <1>6 DEF SeenStep, State

\* The reader goes from state to state.
LEMMA SeeingOf ==
  ASSUME NEW u \in Text
  PROVE  \E r \in [0..Len(u) -> State] :
           /\ r[0] = Start /\ Seeing(u) = r[Len(u)]
           /\ \A i \in 1..Len(u) : r[i] = SeenStep(r[i - 1], u[i])
<1> DEFINE step == [c \in Symbol |-> [v \in State |-> SeenStep(v, c)]]
           Reads(r) == r = [i \in 0..Len(u) |-> IF i = 0 THEN Start
                                               ELSE SeenStep(r[i - 1], u[i])]
           read == CHOOSE r : Reads(r)
<1>1. step \in [Symbol -> [State -> State]]
  BY Stepping
<1>2. Len(u) \in Nat /\ \A i \in 1..Len(u) : u[i] \in Symbol
  BY PrefixOf
<1>3. Start \in State
  BY WrittenTexts DEF Start, State
<1>4. PICK f \in [0..Len(u) -> State] :
             \A i \in 0..Len(u) : f[i] = IF i = 0 THEN Start ELSE step[u[i]][f[i - 1]]
  <2> HIDE DEF step
  <2> QED BY <1>1, <1>3, Folding
<1>5. \A i \in 0..Len(u) : f[i] = IF i = 0 THEN Start ELSE SeenStep(f[i - 1], u[i])
  <2> SUFFICES ASSUME NEW i \in 0..Len(u), i # 0 PROVE f[i] = SeenStep(f[i - 1], u[i])
    BY <1>4
  <2>1. i - 1 \in 0..Len(u) /\ i \in 1..Len(u)
    BY <1>2
  <2>2. f[i - 1] \in State /\ u[i] \in Symbol
    BY <1>2, <2>1
  <2>3. f[i] = step[u[i]][f[i - 1]]
    BY <1>4
  <2> QED BY <2>2, <2>3
<1>6. Reads(f)
  BY <1>5
<1>7. Reads(read)
  <2> HIDE DEF Reads
  <2> QED BY <1>6
<1>8. read[0] = Start /\ \A i \in 1..Len(u) : read[i] = SeenStep(read[i - 1], u[i])
  <2> HIDE DEF read
  <2> QED BY <1>2, <1>7
<1>9. \A i \in 0..Len(u) : read[i] = f[i]
  <2> DEFINE T == {i \in 0..Len(u) : read[i] = f[i]}
  <2>1. 0 \in T
    <3> HIDE DEF read
    <3> QED BY <1>2, <1>5, <1>8
  <2>2. ASSUME NEW i \in 0..Len(u) - 1, i \in T PROVE i + 1 \in T
    <3> HIDE DEF read
    <3>1. i + 1 \in 1..Len(u) /\ i + 1 # 0 /\ (i + 1) - 1 = i
      BY <1>2
    <3> QED BY <1>2, <1>5, <1>8, <2>2, <3>1
  <2> HIDE DEF T
  <2>3. 0..Len(u) \subseteq T
    BY <1>2, <2>1, <2>2, Steps
  <2> QED BY <2>3 DEF T
<1>10. Seeing(u) = read[Len(u)]
  BY DEF Seeing, Start
<1>11. Seeing(u) = f[Len(u)]
  <2> HIDE DEF read
  <2> QED BY <1>2, <1>9, <1>10
<1>12. f[0] = Start /\ \A i \in 1..Len(u) : f[i] = SeenStep(f[i - 1], u[i])
  BY <1>2, <1>5
<1> QED BY <1>11, <1>12

\* What it knows after one more symbol.
LEMMA SeeingSteps ==
  ASSUME NEW u \in Text
  PROVE  /\ Seeing(u) \in State /\ Seeing(<<>>) = Start
         /\ \A c \in Symbol : Seeing(Append(u, c)) = SeenStep(Seeing(u), c)
<1>1. PICK r \in [0..Len(u) -> State] :
             /\ r[0] = Start /\ Seeing(u) = r[Len(u)]
             /\ \A i \in 1..Len(u) : r[i] = SeenStep(r[i - 1], u[i])
  BY SeeingOf
<1>2. Len(u) \in Nat /\ \A i \in 1..Len(u) : u[i] \in Symbol
  BY PrefixOf
<1>3. Seeing(u) \in State
  BY <1>1, <1>2
<1>4. Seeing(<<>>) = Start
  <2>1. <<>> \in Text /\ Len(<<>>) = 0
    BY WrittenTexts
  <2> QED BY <2>1, SeeingOf
<1>5. ASSUME NEW c \in Symbol PROVE Seeing(Append(u, c)) = SeenStep(Seeing(u), c)
  <2> DEFINE w == Append(u, c)
  <2>1. w \in Text /\ Len(w) = Len(u) + 1 /\ w[Len(u) + 1] = c /\ \A i \in 1..Len(u) : w[i] = u[i]
    BY Appended
  <2> HIDE DEF w
  <2>2. PICK q \in [0..Len(w) -> State] :
               /\ q[0] = Start /\ Seeing(w) = q[Len(w)]
               /\ \A i \in 1..Len(w) : q[i] = SeenStep(q[i - 1], w[i])
    BY <2>1, SeeingOf
  <2> DEFINE T == {i \in 0..Len(u) : r[i] = q[i]}
  <2>3. 0 \in T
    BY <1>1, <1>2, <2>2
  <2>4. ASSUME NEW i \in 0..Len(u) - 1, i \in T PROVE i + 1 \in T
    <3>1. i + 1 \in 1..Len(u) /\ i + 1 \in 1..Len(w) /\ (i + 1) - 1 = i
      BY <1>2, <2>1
    <3> QED BY <1>1, <2>1, <2>2, <2>4, <3>1
  <2>5. r[Len(u)] = q[Len(u)]
    <3> HIDE DEF T
    <3>1. 0..Len(u) \subseteq T
      BY <1>2, <2>3, <2>4, Steps
    <3> QED BY <1>2, <3>1 DEF T
  <2>6. Len(w) \in 1..Len(w) /\ Len(w) - 1 = Len(u)
    BY <1>2, <2>1
  <2>7. Seeing(w) = SeenStep(Seeing(u), c)
    BY <1>1, <2>1, <2>2, <2>5, <2>6
  <2> QED BY <2>7 DEF w
<1> QED BY <1>3, <1>4, <1>5

-----------------------------------------------------------------------------
(* The ends of comments and literals *)

\* Where a line ends, symbol by symbol.
LEMMA LineEnds ==
  ASSUME NEW s \in Text, NEW i \in 1..Len(s) + 1
  PROVE  /\ LineEnd(s, i) \in i..Len(s) + 1
         /\ i <= Len(s) /\ s[i] = "\n" => LineEnd(s, i) = i
         /\ i <= Len(s) /\ s[i] # "\n" => LineEnd(s, i) = LineEnd(s, i + 1)
         /\ i = Len(s) + 1 => LineEnd(s, i) = Len(s) + 1
<1> DEFINE ends(k) == {Len(s) + 1} \cup {j \in k..Len(s) : s[j] = "\n"}
<1>1. Len(s) \in Nat
  BY PrefixOf
<1>2. \A k \in 1..Len(s) + 1 :
        ends(k) \in SUBSET Nat /\ ends(k) # {} /\ ends(k) \subseteq k..Len(s) + 1
  BY <1>1
<1>3. \A k : LineEnd(s, k) = Min(ends(k))
  BY DEF LineEnd
<1>4. LineEnd(s, i) \in i..Len(s) + 1
  <2> HIDE DEF ends
  <2> QED BY <1>2, <1>3, MinIn
<1>5. ASSUME i <= Len(s), s[i] = "\n" PROVE LineEnd(s, i) = i
  <2>1. i \in ends(i) /\ \A j \in ends(i) : i <= j
    BY <1>1, <1>5
  <2> HIDE DEF ends
  <2> QED BY <1>2, <1>3, <2>1, MinIs
<1>6. ASSUME i <= Len(s), s[i] # "\n" PROVE LineEnd(s, i) = LineEnd(s, i + 1)
  <2>1. ends(i) = ends(i + 1)
    BY <1>1, <1>6
  <2> HIDE DEF ends
  <2> QED BY <1>3, <2>1
<1>7. i = Len(s) + 1 => LineEnd(s, i) = Len(s) + 1
  BY <1>1, <1>4
<1> QED BY <1>4, <1>5, <1>6, <1>7

\* Where a block comment ends, symbol by symbol.
LEMMA BlockEnds ==
  ASSUME NEW s \in Text, NEW i \in 1..Len(s) + 1
  PROVE  /\ BlockEnd(s, i) \in i..Len(s) + 1
         /\ PairAt(s, i, "*", "/") => BlockEnd(s, i) = i + 2
         /\ i <= Len(s) /\ ~PairAt(s, i, "*", "/") => BlockEnd(s, i) = BlockEnd(s, i + 1)
         /\ i = Len(s) + 1 => BlockEnd(s, i) = Len(s) + 1
<1> DEFINE ends(k) == {Len(s) + 1} \cup {j + 2 : j \in {h \in k..Len(s) : PairAt(s, h, "*", "/")}}
<1>1. Len(s) \in Nat
  BY PrefixOf
<1>2. \A k \in 1..Len(s) + 1 :
        ends(k) \in SUBSET Nat /\ ends(k) # {} /\ ends(k) \subseteq k..Len(s) + 1
  BY <1>1 DEF PairAt
<1>3. \A k : BlockEnd(s, k) = Min(ends(k))
  BY DEF BlockEnd
<1>4. BlockEnd(s, i) \in i..Len(s) + 1
  <2> HIDE DEF ends
  <2> QED BY <1>2, <1>3, MinIn
<1>5. ASSUME PairAt(s, i, "*", "/") PROVE BlockEnd(s, i) = i + 2
  <2>1. i + 2 \in ends(i) /\ \A j \in ends(i) : i + 2 <= j
    BY <1>1, <1>5 DEF PairAt
  <2> HIDE DEF ends
  <2> QED BY <1>2, <1>3, <2>1, MinIs
<1>6. ASSUME i <= Len(s), ~PairAt(s, i, "*", "/") PROVE BlockEnd(s, i) = BlockEnd(s, i + 1)
  <2>1. ends(i) = ends(i + 1)
    <3>1. {h \in i..Len(s) : PairAt(s, h, "*", "/")}
          = {h \in i + 1..Len(s) : PairAt(s, h, "*", "/")}
      BY <1>1, <1>6
    <3> QED BY <3>1
  <2> HIDE DEF ends
  <2> QED BY <1>3, <2>1
<1>7. i = Len(s) + 1 => BlockEnd(s, i) = Len(s) + 1
  BY <1>1, <1>4
<1> QED BY <1>4, <1>5, <1>6, <1>7

\* What is defined from the end of a text: the value at a place is made of values at later
\* places.
LEMMA FromTheEnd ==
  ASSUME NEW n \in Nat, NEW V, V # {}, NEW F \in [1..n + 1 -> [[1..n + 1 -> V] -> V]],
         \A i \in 1..n + 1 : \A g, h \in [1..n + 1 -> V] :
           (\A j \in i + 1..n + 1 : g[j] = h[j]) => F[i][g] = F[i][h]
  PROVE  Solved(1..n + 1, V, F)
<1> DEFINE D == 1..n + 1
           rank == [i \in D |-> n + 1 - i]
<1>1. rank \in [D -> 0..n]
  OBVIOUS
<1>2. ASSUME NEW i \in D, NEW g \in [D -> V], NEW h \in [D -> V],
             \A e \in D : rank[e] < rank[i] => g[e] = h[e]
      PROVE  F[i][g] = F[i][h]
  <2>1. \A j \in i + 1..n + 1 : j \in D /\ rank[j] < rank[i]
    OBVIOUS
  <2>2. \A j \in i + 1..n + 1 : g[j] = h[j]
    BY <1>2, <2>1
  <2> QED BY <2>2, Zenon
<1>3. Local(D, V, rank, F)
  <2> HIDE DEF rank, D
  <2> QED BY <1>2, Zenon DEF Local
<1>4. Solved(D, V, F)
  <2>1. F \in [D -> [[D -> V] -> V]]
    OBVIOUS
  <2> HIDE DEF rank, D
  <2> QED BY <1>1, <1>3, <2>1, Recursion, Zenon
<1> QED BY <1>4

-----------------------------------------------------------------------------
(* _strip_comments *)

\* What is left of a text from each place on, in code and in a literal.
Stripping(s, code, literal) ==
  /\ code \in [1..Len(s) + 1 -> Text] /\ literal \in [1..Len(s) + 1 -> Text]
  /\ code[Len(s) + 1] = <<>> /\ literal[Len(s) + 1] = <<>>
  /\ \A i \in 1..Len(s) :
       /\ s[i] = "'" => code[i] = <<"'">> \o literal[i + 1]
       /\ PairAt(s, i, "-", "-") => code[i] = <<" ">> \o code[LineEnd(s, i + 2)]
       /\ PairAt(s, i, "/", "*") => code[i] = <<" ">> \o code[BlockEnd(s, i + 2)]
       /\ s[i] # "'" /\ ~PairAt(s, i, "-", "-") /\ ~PairAt(s, i, "/", "*") =>
            code[i] = <<s[i]>> \o code[i + 1]
       /\ PairAt(s, i, "'", "'") => literal[i] = <<"'", "'">> \o literal[i + 2]
       /\ s[i] = "'" /\ ~PairAt(s, i, "'", "'") => literal[i] = <<"'">> \o code[i + 1]
       /\ s[i] # "'" => literal[i] = <<s[i]>> \o literal[i + 1]

\* What is left from place i on, if that is what is left from later places on.
Left(s, from, i, mode) ==
  CASE i > Len(s) -> <<>>
    [] mode = "code" /\ i <= Len(s) /\ s[i] = "'" -> <<"'">> \o from[i + 1]["literal"]
    [] mode = "code" /\ PairAt(s, i, "-", "-") -> <<" ">> \o from[LineEnd(s, i + 2)][mode]
    [] mode = "code" /\ PairAt(s, i, "/", "*") -> <<" ">> \o from[BlockEnd(s, i + 2)][mode]
    [] mode = "literal" /\ PairAt(s, i, "'", "'") -> <<"'", "'">> \o from[i + 2][mode]
    [] mode = "literal" /\ i <= Len(s) /\ s[i] = "'" /\ ~PairAt(s, i, "'", "'") ->
         <<"'">> \o from[i + 1]["code"]
    [] OTHER -> <<s[i]>> \o from[i + 1][mode]

\* That, case by case.
Cases(s, from, i) ==
  /\ s[i] = "'" => Left(s, from, i, "code") = <<"'">> \o from[i + 1]["literal"]
  /\ PairAt(s, i, "-", "-") =>
       Left(s, from, i, "code") = <<" ">> \o from[LineEnd(s, i + 2)]["code"]
  /\ PairAt(s, i, "/", "*") =>
       Left(s, from, i, "code") = <<" ">> \o from[BlockEnd(s, i + 2)]["code"]
  /\ s[i] # "'" /\ ~PairAt(s, i, "-", "-") /\ ~PairAt(s, i, "/", "*") =>
       Left(s, from, i, "code") = <<s[i]>> \o from[i + 1]["code"]
  /\ PairAt(s, i, "'", "'") =>
       Left(s, from, i, "literal") = <<"'", "'">> \o from[i + 2]["literal"]
  /\ s[i] = "'" /\ ~PairAt(s, i, "'", "'") =>
       Left(s, from, i, "literal") = <<"'">> \o from[i + 1]["code"]
  /\ s[i] # "'" => Left(s, from, i, "literal") = <<s[i]>> \o from[i + 1]["literal"]

\* The cases are all there are.
LEMMA LeftCases ==
  ASSUME NEW s \in Text, NEW from, NEW i \in 1..Len(s)
  PROVE  Cases(s, from, i)
<1>1. i <= Len(s) /\ ~(i > Len(s))
  BY PrefixOf
<1>2. ASSUME s[i] = "'"
      PROVE  Left(s, from, i, "code") = <<"'">> \o from[i + 1]["literal"]
  BY <1>1, <1>2 DEF Left, PairAt
<1>3. ASSUME PairAt(s, i, "-", "-")
      PROVE  Left(s, from, i, "code") = <<" ">> \o from[LineEnd(s, i + 2)]["code"]
  <2>1. s[i] # "'" /\ ~PairAt(s, i, "/", "*")
    BY <1>3 DEF PairAt
  <2> QED BY <1>1, <1>3, <2>1 DEF Left
<1>4. ASSUME PairAt(s, i, "/", "*")
      PROVE  Left(s, from, i, "code") = <<" ">> \o from[BlockEnd(s, i + 2)]["code"]
  <2>1. s[i] # "'" /\ ~PairAt(s, i, "-", "-")
    BY <1>4 DEF PairAt
  <2> QED BY <1>1, <1>4, <2>1 DEF Left
<1>5. ASSUME s[i] # "'", ~PairAt(s, i, "-", "-"), ~PairAt(s, i, "/", "*")
      PROVE  Left(s, from, i, "code") = <<s[i]>> \o from[i + 1]["code"]
  BY <1>1, <1>5 DEF Left
<1>6. ASSUME PairAt(s, i, "'", "'")
      PROVE  Left(s, from, i, "literal") = <<"'", "'">> \o from[i + 2]["literal"]
  BY <1>1, <1>6 DEF Left
<1>7. ASSUME s[i] = "'", ~PairAt(s, i, "'", "'")
      PROVE  Left(s, from, i, "literal") = <<"'">> \o from[i + 1]["code"]
  BY <1>1, <1>7 DEF Left
<1>8. ASSUME s[i] # "'"
      PROVE  Left(s, from, i, "literal") = <<s[i]>> \o from[i + 1]["literal"]
  <2>1. ~PairAt(s, i, "'", "'")
    BY <1>8 DEF PairAt
  <2> QED BY <1>1, <1>8, <2>1 DEF Left
<1> QED BY <1>2, <1>3, <1>4, <1>5, <1>6, <1>7, <1>8 DEF Cases

\* At the end nothing is left.
LEMMA LeftAtEnd ==
  ASSUME NEW s \in Text, NEW from, NEW mode
  PROVE  Left(s, from, Len(s) + 1, mode) = <<>>
<1>1. Len(s) \in Nat
  BY PrefixOf
<1>2. Len(s) + 1 > Len(s) /\ ~(Len(s) + 1 <= Len(s)) /\ \A c, d : ~PairAt(s, Len(s) + 1, c, d)
  BY <1>1 DEF PairAt
<1> QED BY <1>2 DEF Left

\* It is made of what is left from later places on.
LEMMA LeftLater ==
  ASSUME NEW s \in Text, NEW i \in 1..Len(s), NEW g, NEW h,
         \A j \in i + 1..Len(s) + 1 : g[j] = h[j]
  PROVE  /\ Left(s, g, i, "code") = Left(s, h, i, "code")
         /\ Left(s, g, i, "literal") = Left(s, h, i, "literal")
<1>1. Len(s) \in Nat
  BY PrefixOf
<1>2. g[i + 1] = h[i + 1] /\ \A c, d : PairAt(s, i, c, d) => g[i + 2] = h[i + 2]
  BY <1>1 DEF PairAt
<1>3. \A c, d : PairAt(s, i, c, d) => i + 2 \in 1..Len(s) + 1
  BY <1>1 DEF PairAt
<1>4. PairAt(s, i, "-", "-") => g[LineEnd(s, i + 2)] = h[LineEnd(s, i + 2)]
  <2>1. PairAt(s, i, "-", "-") => LineEnd(s, i + 2) \in i + 2..Len(s) + 1
    BY <1>3, LineEnds
  <2> QED BY <1>1, <2>1
<1>5. PairAt(s, i, "/", "*") => g[BlockEnd(s, i + 2)] = h[BlockEnd(s, i + 2)]
  <2>1. PairAt(s, i, "/", "*") => BlockEnd(s, i + 2) \in i + 2..Len(s) + 1
    BY <1>3, BlockEnds
  <2> QED BY <1>1, <2>1
<1>8. Cases(s, g, i) /\ Cases(s, h, i)
  BY LeftCases
<1>6. Left(s, g, i, "code") = Left(s, h, i, "code")
  BY <1>2, <1>4, <1>5, <1>8 DEF Cases
<1>7. Left(s, g, i, "literal") = Left(s, h, i, "literal")
  BY <1>2, <1>8 DEF Cases
<1> QED BY <1>6, <1>7

\* It is a text.
LEMMA LeftText ==
  ASSUME NEW s \in Text, NEW i \in 1..Len(s),
         NEW g \in [1..Len(s) + 1 -> [{"code", "literal"} -> Text]]
  PROVE  Left(s, g, i, "code") \in Text /\ Left(s, g, i, "literal") \in Text
<1>1. Len(s) \in Nat /\ s[i] \in Symbol /\ <<s[i]>> \in Text
  BY PrefixOf, Short
<1>2. \A j \in 1..Len(s) + 1 : g[j]["code"] \in Text /\ g[j]["literal"] \in Text
  OBVIOUS
<1>3. \A c, d : PairAt(s, i, c, d) => i + 2 \in 1..Len(s) + 1
  BY <1>1 DEF PairAt
<1>4. PairAt(s, i, "-", "-") => LineEnd(s, i + 2) \in 1..Len(s) + 1
  <2>1. PairAt(s, i, "-", "-") => LineEnd(s, i + 2) \in i + 2..Len(s) + 1
    BY <1>3, LineEnds
  <2> QED BY <1>1, <2>1
<1>5. PairAt(s, i, "/", "*") => BlockEnd(s, i + 2) \in 1..Len(s) + 1
  <2>1. PairAt(s, i, "/", "*") => BlockEnd(s, i + 2) \in i + 2..Len(s) + 1
    BY <1>3, BlockEnds
  <2> QED BY <1>1, <2>1
<1>6. i + 1 \in 1..Len(s) + 1
  BY <1>1
<1>9. Cases(s, g, i)
  BY LeftCases
<1>7. Left(s, g, i, "code") \in Text
  <2>1. CASE s[i] = "'" BY <1>2, <1>6, <2>1, <1>9, WrittenTexts, Joined DEF Cases
  <2>2. CASE PairAt(s, i, "-", "-") BY <1>2, <1>4, <2>2, <1>9, WrittenTexts, Joined DEF Cases
  <2>3. CASE PairAt(s, i, "/", "*") BY <1>2, <1>5, <2>3, <1>9, WrittenTexts, Joined DEF Cases
  <2>4. CASE s[i] # "'" /\ ~PairAt(s, i, "-", "-") /\ ~PairAt(s, i, "/", "*")
    BY <1>1, <1>2, <1>6, <2>4, <1>9, Joined DEF Cases
  <2> QED BY <2>1, <2>2, <2>3, <2>4
<1>8. Left(s, g, i, "literal") \in Text
  <2>1. CASE PairAt(s, i, "'", "'") BY <1>2, <1>3, <2>1, <1>9, WrittenTexts, Joined DEF Cases
  <2>2. CASE s[i] = "'" /\ ~PairAt(s, i, "'", "'")
    BY <1>2, <1>6, <2>2, <1>9, WrittenTexts, Joined DEF Cases
  <2>3. CASE s[i] # "'" BY <1>1, <1>2, <1>6, <2>3, <1>9, Joined DEF Cases
  <2> QED BY <2>1, <2>2, <2>3
<1> QED BY <1>7, <1>8

\* _strip_comments leaves what is left from the first place on.
LEMMA StripsComments ==
  ASSUME NEW s \in Text
  PROVE  \E code, literal : Stripping(s, code, literal) /\ StripComments(s) = code[1]
<1> DEFINE n == Len(s)
           D == 1..n + 1
           M == {"code", "literal"}
           V == [M -> Text]
           F == [i \in D |-> [g \in [D -> V] |-> [mode \in M |-> Left(s, g, i, mode)]]]
           Strips(from) == from = [i \in D |-> [mode \in M |-> Left(s, from, i, mode)]]
           strip == CHOOSE from : Strips(from)
<1>1. n \in Nat /\ n + 1 > Len(s)
  BY PrefixOf
<1>2. \A i \in D : i = n + 1 \/ i \in 1..n
  BY <1>1
<1>3. \A g, mode : Left(s, g, n + 1, mode) = <<>>
  BY LeftAtEnd
<1>4. \A i \in D, g \in [D -> V], mode \in M : Left(s, g, i, mode) \in Text
  <2> SUFFICES ASSUME NEW i \in D, NEW g \in [D -> V], NEW mode \in M
               PROVE  Left(s, g, i, mode) \in Text
    OBVIOUS
  <2>1. CASE i = n + 1 BY <1>3, <2>1, WrittenTexts
  <2>2. CASE i \in 1..n BY <2>2, LeftText
  <2> QED BY <1>2, <2>1, <2>2
<1>5. ASSUME NEW i \in D, NEW g \in [D -> V], NEW h \in [D -> V],
             \A j \in i + 1..n + 1 : g[j] = h[j]
      PROVE  F[i][g] = F[i][h]
  <2>1. ASSUME NEW mode \in M PROVE Left(s, g, i, mode) = Left(s, h, i, mode)
    <3>1. CASE i = n + 1 BY <1>3, <3>1
    <3>2. CASE i \in 1..n BY <1>5, <3>2, LeftLater
    <3> QED BY <1>2, <3>1, <3>2
  <2>2. /\ F[i][g] = [mode \in M |-> Left(s, g, i, mode)]
        /\ F[i][h] = [mode \in M |-> Left(s, h, i, mode)]
    <3> HIDE DEF D, M, V
    <3> QED OBVIOUS
  <2> HIDE DEF F
  <2> QED BY <2>1, <2>2, Zenon
<1>6. F \in [D -> [[D -> V] -> V]]
  <2>1. \A i \in D : \A g \in [D -> V] : [mode \in M |-> Left(s, g, i, mode)] \in V
    <3> HIDE DEF D
    <3> QED BY <1>4
  <2> HIDE DEF V, D, M
  <2> QED BY <2>1
<1>7. Solved(D, V, F)
  <2>1. V # {}
    <3>1. [mode \in M |-> <<>>] \in V
      BY WrittenTexts
    <3> QED BY <3>1
  <2>2. \A i \in 1..n + 1 : \A g, h \in [1..n + 1 -> V] :
          (\A j \in i + 1..n + 1 : g[j] = h[j]) => F[i][g] = F[i][h]
    <3> HIDE DEF F, V
    <3> QED BY <1>5, Zenon
  <2> HIDE DEF F, V, n
  <2> QED BY <1>1, <1>6, <2>1, <2>2, FromTheEnd, Zenon
<1>8. PICK f \in [D -> V] : \A i \in D : f[i] = F[i][f]
  <2> HIDE DEF F, V, D
  <2> QED BY <1>7, Zenon DEF Solved
<1>9. Strips(f)
  <2> HIDE DEF V, D, M
  <2> QED BY <1>8
<1>10. Strips(strip)
  <2> HIDE DEF Strips
  <2> QED BY <1>9
<1>11. \A i \in D : /\ strip[i]["code"] = Left(s, strip, i, "code")
                    /\ strip[i]["literal"] = Left(s, strip, i, "literal")
  <2> HIDE DEF strip, D
  <2> QED BY <1>10
<1>12. \A i \in D : strip[i] = f[i]
  <2> DEFINE T == {i \in D : strip[i] = f[i]}
  <2>1. \A i \in D : /\ strip[i] = [mode \in M |-> Left(s, strip, i, mode)]
                     /\ f[i] = [mode \in M |-> Left(s, f, i, mode)]
    <3> HIDE DEF strip, D, M
    <3> QED BY <1>9, <1>10
  <2> HIDE DEF strip
  <2>2. ASSUME NEW i \in D, \A mode \in M : Left(s, strip, i, mode) = Left(s, f, i, mode)
        PROVE  strip[i] = f[i]
    <3> HIDE DEF D, M
    <3> QED BY <2>1, <2>2, Zenon
  <2>3. n + 1 \in T
    <3>1. n + 1 \in D
      BY <1>1
    <3> QED BY <1>3, <2>2, <3>1
  <2>4. ASSUME NEW i \in 1..n, \A j \in i + 1..n + 1 : j \in T PROVE i \in T
    <3>1. i \in D /\ \A j \in i + 1..n + 1 : strip[j] = f[j]
      BY <1>1, <2>4
    <3>2. /\ Left(s, strip, i, "code") = Left(s, f, i, "code")
          /\ Left(s, strip, i, "literal") = Left(s, f, i, "literal")
      BY <3>1, LeftLater
    <3> QED BY <2>2, <3>1, <3>2
  <2>5. 1..n + 1 \subseteq T
    <3> HIDE DEF T, n
    <3> QED BY <1>1, <2>3, <2>4, StepsDown
  <2> QED BY <2>5
<1> DEFINE code == [i \in D |-> strip[i]["code"]]
           literal == [i \in D |-> strip[i]["literal"]]
<1>13. StripComments(s) = code[1]
  <2>1. StripComments(s) = strip[1]["code"]
    BY DEF StripComments, Left
  <2>2. 1 \in D
    BY <1>1
  <2> HIDE DEF strip
  <2> QED BY <2>1, <2>2
<1>14. code \in [D -> Text] /\ literal \in [D -> Text]
  <2> HIDE DEF strip
  <2> QED BY <1>12
<1>15. code[n + 1] = <<>> /\ literal[n + 1] = <<>>
  <2>1. n + 1 \in D
    BY <1>1
  <2> HIDE DEF strip
  <2> QED BY <1>3, <1>11, <2>1
<1>16. ASSUME NEW i \in 1..n
       PROVE  /\ s[i] = "'" => code[i] = <<"'">> \o literal[i + 1]
              /\ PairAt(s, i, "-", "-") => code[i] = <<" ">> \o code[LineEnd(s, i + 2)]
              /\ PairAt(s, i, "/", "*") => code[i] = <<" ">> \o code[BlockEnd(s, i + 2)]
              /\ s[i] # "'" /\ ~PairAt(s, i, "-", "-") /\ ~PairAt(s, i, "/", "*") =>
                   code[i] = <<s[i]>> \o code[i + 1]
              /\ PairAt(s, i, "'", "'") => literal[i] = <<"'", "'">> \o literal[i + 2]
              /\ s[i] = "'" /\ ~PairAt(s, i, "'", "'") => literal[i] = <<"'">> \o code[i + 1]
              /\ s[i] # "'" => literal[i] = <<s[i]>> \o literal[i + 1]
  <2>1. Cases(s, strip, i)
    BY LeftCases
  <2>2. i \in D /\ i + 1 \in D /\ \A c, d : PairAt(s, i, c, d) => i + 2 \in D
    BY <1>1 DEF PairAt
  <2>3. PairAt(s, i, "-", "-") => LineEnd(s, i + 2) \in D
    <3>1. PairAt(s, i, "-", "-") => LineEnd(s, i + 2) \in i + 2..n + 1
      BY <2>2, LineEnds
    <3> QED BY <1>1, <3>1
  <2>4. PairAt(s, i, "/", "*") => BlockEnd(s, i + 2) \in D
    <3>1. PairAt(s, i, "/", "*") => BlockEnd(s, i + 2) \in i + 2..n + 1
      BY <2>2, BlockEnds
    <3> QED BY <1>1, <3>1
  <2>5. \A j \in D : code[j] = strip[j]["code"] /\ literal[j] = strip[j]["literal"]
    <3> HIDE DEF strip, D
    <3> QED OBVIOUS
  <2> HIDE DEF strip, code, literal, D
  <2> QED BY <1>11, <2>1, <2>2, <2>3, <2>4, <2>5 DEF Cases
<1>17. Stripping(s, code, literal)
  <2> HIDE DEF code, literal
  <2> QED BY <1>14, <1>15, <1>16 DEF Stripping
<1> QED BY <1>13, <1>17

-----------------------------------------------------------------------------
(* The steps of the reader, mode by mode *)

\* A quote in code begins a literal, or goes on with the one that ended before.
LEMMA StepToLiteral ==
  ASSUME NEW st \in State, NEW c \in Symbol, st.mode = "code", c = "'"
  PROVE  /\ SeenStep(st, c).mode = "literal" /\ SeenStep(st, c).last = st.last
         /\ st.last = "'" => SeenStep(st, c).out = st.out
         /\ st.last # "'" => SeenStep(st, c).out = st.out \o <<"'", "'">>
BY DEF SeenStep, State

\* A second dash starts a line comment; the first one becomes a space.
LEMMA StepToLine ==
  ASSUME NEW st \in State, NEW c \in Symbol, st.mode = "code", c = "-", st.last = "-"
  PROVE  SeenStep(st, c).mode = "line" /\ SeenStep(st, c).out = Append(Front(st.out), " ")
BY DEF SeenStep, State

\* A star after a slash starts a block comment; the slash becomes a space.
LEMMA StepToBlock ==
  ASSUME NEW st \in State, NEW c \in Symbol, st.mode = "code", c = "*", st.last = "/"
  PROVE  /\ SeenStep(st, c).mode = "block" /\ SeenStep(st, c).out = Append(Front(st.out), " ")
         /\ SeenStep(st, c).last = ""
BY DEF SeenStep, State

\* Any other symbol is code.
LEMMA StepInCode ==
  ASSUME NEW st \in State, NEW c \in Symbol, st.mode = "code", c # "'",
         ~(c = "-" /\ st.last = "-"), ~(c = "*" /\ st.last = "/")
  PROVE  /\ SeenStep(st, c).mode = "code" /\ SeenStep(st, c).out = Append(st.out, c)
         /\ SeenStep(st, c).last = c
BY DEF SeenStep, State

\* A literal goes on until a quote.
LEMMA StepInLiteral ==
  ASSUME NEW st \in State, NEW c \in Symbol, st.mode = "literal"
  PROVE  /\ c = "'" => /\ SeenStep(st, c).mode = "code" /\ SeenStep(st, c).last = "'"
                       /\ SeenStep(st, c).out = st.out
         /\ c # "'" => SeenStep(st, c) = st
BY DEF SeenStep, State

\* A line comment goes on until the end of the line.
LEMMA StepInLine ==
  ASSUME NEW st \in State, NEW c \in Symbol, st.mode = "line"
  PROVE  /\ c = "\n" => /\ SeenStep(st, c).mode = "code" /\ SeenStep(st, c).last = c
                        /\ SeenStep(st, c).out = Append(st.out, c)
         /\ c # "\n" => SeenStep(st, c) = st
BY DEF SeenStep, State

\* A star and a slash end a block comment.
LEMMA StepFromBlock ==
  ASSUME NEW st \in State, NEW c \in Symbol, st.mode = "block", c = "/", st.last = "*"
  PROVE  /\ SeenStep(st, c).out = st.out
         /\ SeenStep(st, c).mode = "code" /\ SeenStep(st, c).last = ""
BY DEF SeenStep, State

\* A block comment goes on until its mark, whatever else is read.
LEMMA StepInBlock ==
  ASSUME NEW st \in State, NEW c \in Symbol, st.mode = "block", ~(c = "/" /\ st.last = "*")
  PROVE  /\ SeenStep(st, c).out = st.out
         /\ SeenStep(st, c).mode = "block" /\ SeenStep(st, c).last = c
BY DEF SeenStep, State

\* A text without comments: the reader is in no comment after any prefix.
Plain(u) == \A k \in 0..Len(u) : Seeing(Pre(u, k)).mode \in {"code", "literal"}

\* Symbol by symbol.
LEMMA PlainSteps ==
  ASSUME NEW u \in Text
  PROVE  /\ Plain(<<>>)
         /\ Plain(u) => Seeing(u).mode \in {"code", "literal"}
         /\ \A c \in Symbol : Plain(Append(u, c)) <=>
              Plain(u) /\ SeenStep(Seeing(u), c).mode \in {"code", "literal"}
<1>1. Len(u) \in Nat /\ Pre(u, Len(u)) = u
  BY PrefixOf
<1>2. Plain(<<>>)
  <2>1. <<>> \in Text /\ Len(<<>>) = 0 /\ Pre(<<>>, 0) = <<>>
    BY WrittenTexts, PrefixOf
  <2>2. Seeing(<<>>).mode = "code"
    <3>1. Seeing(<<>>) = Start
      BY <2>1, SeeingSteps
    <3>2. Start.mode = "code"
      BY DEF Start
    <3> QED BY <3>1, <3>2, Zenon
  <2> QED BY <2>1, <2>2 DEF Plain
<1>3. Plain(u) => Seeing(u).mode \in {"code", "literal"}
  BY <1>1 DEF Plain
<1>4. ASSUME NEW c \in Symbol
      PROVE  Plain(Append(u, c)) <=>
               Plain(u) /\ SeenStep(Seeing(u), c).mode \in {"code", "literal"}
  <2>1. Len(Append(u, c)) = Len(u) + 1 /\ Seeing(Append(u, c)) = SeenStep(Seeing(u), c)
    BY Appended, SeeingSteps
  <2>2. /\ \A k \in 0..Len(u) : Pre(Append(u, c), k) = Pre(u, k)
        /\ Pre(Append(u, c), Len(u) + 1) = Append(u, c)
    BY PrefixOfAppended
  <2>3. \A k \in 0..Len(u) + 1 : k \in 0..Len(u) \/ k = Len(u) + 1
    BY <1>1
  <2>4. 0..Len(u) \subseteq 0..Len(u) + 1 /\ Len(u) + 1 \in 0..Len(u) + 1
    BY <1>1
  <2> QED BY <2>1, <2>2, <2>3, <2>4 DEF Plain
<1> QED BY <1>2, <1>3, <1>4

\* Texts one after the other, moved.
LEMMA Moved ==
  ASSUME NEW u \in Text, NEW c \in Symbol, NEW v \in Text
  PROVE  u \o (<<c>> \o v) = Append(u, c) \o v
<1>1. <<c>> \in Seq(Symbol) /\ u \in Seq(Symbol) /\ v \in Seq(Symbol)
  BY DEF Text
<1>2. u \o <<c>> = Append(u, c)
  BY DEF Text
<1>3. (u \o <<c>>) \o v = u \o (<<c>> \o v)
  BY <1>1, ConcatAssociative
<1> QED BY <1>2, <1>3, Zenon

\* Two texts of one symbol each, joined, are the text of the two symbols.
LEMMA PairOfOnes ==
  ASSUME NEW a \in Text, NEW b \in Text, NEW e \in Text,
         Len(a) = 1, Len(b) = 1, Len(e) = 2, e[1] = a[1], e[2] = b[1]
  PROVE  a \o b = e
<1>1. a \o b \in Text /\ Len(a \o b) = 2
  BY ConcatProperties DEF Text
<1>2. (a \o b)[1] = a[1] /\ (a \o b)[2] = b[1]
  <2>1. /\ 1 \in 1..Len(a) + Len(b) /\ 2 \in 1..Len(a) + Len(b)
        /\ 2 - Len(a) = 1 /\ 1 <= Len(a) /\ ~(2 <= Len(a))
    OBVIOUS
  <2>2. \A i \in 1..Len(a) + Len(b) : (a \o b)[i] = IF i <= Len(a) THEN a[i] ELSE b[i - Len(a)]
    BY ConcatProperties DEF Text
  <2> QED BY <2>1, <2>2
<1>3. \A i \in 1..2 : (a \o b)[i] = e[i]
  <2>1. \A i \in 1..2 : i = 1 \/ i = 2
    OBVIOUS
  <2> QED BY <1>2, <2>1
<1> QED BY <1>1, <1>3, SeqEqual DEF Text

\* The same, for the symbols themselves.
LEMMA TwoOnes ==
  ASSUME NEW c \in Symbol, NEW d \in Symbol
  PROVE  <<c>> \o <<d>> = <<c, d>>
<1> DEFINE a == <<c>>
           b == <<d>>
           e == <<c, d>>
<1>1. a \in Text /\ b \in Text /\ e \in Text
  BY Short
<1>2. Len(a) = 1 /\ Len(b) = 1 /\ Len(e) = 2 /\ e[1] = a[1] /\ e[2] = b[1]
  OBVIOUS
<1>3. a \o b = e
  <2> HIDE DEF a, b, e
  <2> QED BY <1>1, <1>2, PairOfOnes, Zenon
<1> QED BY <1>3

\* Two symbols before a text, one after the other, are a pair before it.
LEMMA MovedPair ==
  ASSUME NEW c \in Symbol, NEW d \in Symbol, NEW v \in Text
  PROVE  <<c>> \o (<<d>> \o v) = <<c, d>> \o v
<1>1. <<c>> \in Seq(Symbol) /\ <<d>> \in Seq(Symbol) /\ v \in Seq(Symbol)
  BY DEF Text
<1>2. <<c>> \o <<d>> = <<c, d>>
  BY TwoOnes
<1>3. (<<c>> \o <<d>>) \o v = <<c>> \o (<<d>> \o v)
  BY <1>1, ConcatAssociative
<1> QED BY <1>2, <1>3, Zenon

\* The empty text adds nothing.
LEMMA NothingMore ==
  ASSUME NEW u \in Text
  PROVE  u \o <<>> = u /\ <<>> \o u = u
BY DEF Text

-----------------------------------------------------------------------------
(* _strip_comments and the reader *)

\* A quote in a literal, doubled or not, is a quote before code.
LEMMA QuotesEnd ==
  ASSUME NEW s \in Text, NEW code, NEW literal, Stripping(s, code, literal),
         NEW i \in 1..Len(s), s[i] = "'"
  PROVE  literal[i] = <<"'">> \o code[i + 1]
<1>1. CASE PairAt(s, i, "'", "'")
  <2>1. i + 1 \in 1..Len(s) /\ i + 2 \in 1..Len(s) + 1 /\ s[i + 1] = "'" /\ (i + 1) + 1 = i + 2
    BY <1>1, PrefixOf DEF PairAt
  <2>2. literal[i] = <<"'", "'">> \o literal[i + 2] /\ code[i + 1] = <<"'">> \o literal[i + 2]
    BY <1>1, <2>1 DEF Stripping
  <2>3. literal[i + 2] \in Text
    BY <2>1 DEF Stripping
  <2>4. <<"'">> \o (<<"'">> \o literal[i + 2]) = <<"'", "'">> \o literal[i + 2]
    BY <2>3, WrittenTexts, MovedPair
  <2> QED BY <2>2, <2>4, Zenon
<1>2. CASE ~PairAt(s, i, "'", "'")
  BY <1>2 DEF Stripping
<1> QED BY <1>1, <1>2

\* What is left from place k on.
Rest(code, literal, mode, k) == IF mode = "code" THEN code[k] ELSE literal[k]

\* _strip_comments has left raw when it is at place k, and the reader, after i symbols, may
\* be a symbol behind or ahead. In a text without comments all is left.
Follows(s, i, code, literal, raw, k) ==
  /\ raw \in Text /\ k \in 1..Len(s) + 1 /\ Plain(raw)
  /\ code[1] = raw \o Rest(code, literal, Seeing(raw).mode, k)
  /\ Plain(Pre(s, i)) => raw = Pre(s, k - 1)

\* The reader of what is left, raw, knows what the reader of the text knows: in code, if the
\* next symbol makes no pair with the last.
Fresh(s, i, raw, k) ==
  LET st == Seeing(Pre(s, i))
      r == Seeing(raw) IN
  /\ st.mode = "code" /\ (st.last = "" \/ st.last = "'")
  /\ k = i + 1 /\ r.mode = "code" /\ r.out = st.out
  /\ st.last = "'" => r.last = "'"
  /\ st.last = "" => r.last = "" \/ r.last = " "

\* In code, the symbol at i has not been left yet.
Pending(s, i, raw, k) ==
  LET st == Seeing(Pre(s, i))
      r == Seeing(raw) IN
  /\ st.mode = "code" /\ st.last # "" /\ st.last # "'"
  /\ k = i /\ i \in 1..Len(s) /\ s[i] = st.last
  /\ r.mode = "code" /\ st.out = Append(r.out, st.last)
  /\ ~(st.last = "-" /\ r.last = "-") /\ ~(st.last = "*" /\ r.last = "/")

\* In a literal.
Quoted(s, i, raw, k) ==
  LET st == Seeing(Pre(s, i))
      r == Seeing(raw) IN
  st.mode = "literal" /\ k = i + 1 /\ r.mode = "literal" /\ r.out = st.out

\* In a comment, of which a space is left.
Lined(s, i, raw, k) ==
  LET st == Seeing(Pre(s, i))
      r == Seeing(raw) IN
  /\ st.mode = "line" /\ k = LineEnd(s, i + 1)
  /\ r.mode = "code" /\ r.last = " " /\ r.out = st.out

\* The same, in a block comment, whose star may be followed by a slash.
Blocked(s, i, raw, k) ==
  LET st == Seeing(Pre(s, i))
      r == Seeing(raw) IN
  /\ st.mode = "block"
  /\ st.last = "*" => i \in 1..Len(s) /\ s[i] = "*" /\ k = BlockEnd(s, i)
  /\ st.last # "*" => k = BlockEnd(s, i + 1)
  /\ r.mode = "code" /\ r.last = " " /\ r.out = st.out

\* One of these is how the two stand.
Agrees(s, i, raw, k) ==
  \/ Fresh(s, i, raw, k) \/ Pending(s, i, raw, k) \/ Quoted(s, i, raw, k)
  \/ Lined(s, i, raw, k) \/ Blocked(s, i, raw, k)

\* One more symbol is left, and what is left from k2 on.
Takes(s, i, code, literal, raw, k, c, k2) ==
  /\ s \in Text /\ i \in 0..Len(s) /\ Stripping(s, code, literal)
  /\ Follows(s, i, code, literal, raw, k)
  /\ c \in Symbol /\ k2 \in 1..Len(s) + 1
  /\ SeenStep(Seeing(raw), c).mode \in {"code", "literal"}
  /\ Rest(code, literal, Seeing(raw).mode, k) =
       <<c>> \o Rest(code, literal, SeenStep(Seeing(raw), c).mode, k2)
  /\ Plain(Pre(s, i)) => k2 = k + 1 /\ c = s[k]

\* Having taken it, the text goes on and the reader is one step further.
LEMMA Take ==
  ASSUME NEW s, NEW i, NEW code, NEW literal, NEW raw, NEW k, NEW c, NEW k2,
         Takes(s, i, code, literal, raw, k, c, k2)
  PROVE  /\ Follows(s, i, code, literal, Append(raw, c), k2)
         /\ Seeing(Append(raw, c)) = SeenStep(Seeing(raw), c)
<1> USE DEF Takes
<1>1. raw \in Text /\ k \in 1..Len(s) + 1 /\ Plain(raw) /\ Len(s) \in Nat
  BY PrefixOf DEF Follows
<1>2. Append(raw, c) \in Text /\ Seeing(Append(raw, c)) = SeenStep(Seeing(raw), c)
  BY <1>1, Appended, SeeingSteps
<1>3. Plain(Append(raw, c))
  BY <1>1, PlainSteps
<1> DEFINE rest == Rest(code, literal, SeenStep(Seeing(raw), c).mode, k2)
<1>4. rest \in Text
  BY DEF Stripping, Rest
<1>5. code[1] = Append(raw, c) \o rest
  <2>1. code[1] = raw \o (<<c>> \o rest)
    BY DEF Follows
  <2> HIDE DEF rest
  <2> QED BY <1>1, <1>4, <2>1, Moved
<1>6. Plain(Pre(s, i)) => Append(raw, c) = Pre(s, k2 - 1)
  <2> SUFFICES ASSUME Plain(Pre(s, i)) PROVE Append(raw, c) = Pre(s, k2 - 1)
    OBVIOUS
  <2>1. raw = Pre(s, k - 1) /\ k2 = k + 1 /\ c = s[k]
    BY DEF Follows
  <2>2. k - 1 \in 0..Len(s) - 1 /\ (k - 1) + 1 = k /\ k2 - 1 = k
    BY <1>1, <2>1
  <2>3. Pre(s, (k - 1) + 1) = Append(Pre(s, k - 1), s[(k - 1) + 1])
    BY <2>2, NextPrefix
  <2> QED BY <2>1, <2>2, <2>3
<1> QED BY <1>1, <1>2, <1>3, <1>5, <1>6 DEF Follows

\* The reader is a symbol ahead.
LEMMA Ahead ==
  ASSUME NEW s \in Text, NEW i \in 0..Len(s) - 1, NEW code, NEW literal,
         NEW raw, NEW k, Follows(s, i, code, literal, raw, k)
  PROVE  /\ Follows(s, i + 1, code, literal, raw, k)
         /\ s[i + 1] \in Symbol /\ Seeing(Pre(s, i)) \in State /\ Seeing(raw) \in State
         /\ Seeing(Pre(s, i + 1)) = SeenStep(Seeing(Pre(s, i)), s[i + 1])
         /\ Plain(Pre(s, i + 1)) => Seeing(Pre(s, i + 1)).mode \in {"code", "literal"}
<1>1. i \in 0..Len(s) /\ i + 1 \in 0..Len(s)
  BY PrefixOf
<1>2. Pre(s, i) \in Text /\ Pre(s, i + 1) \in Text
  BY <1>1, PrefixOf
<1>3. s[i + 1] \in Symbol /\ Pre(s, i + 1) = Append(Pre(s, i), s[i + 1])
  BY NextPrefix
<1>5. Seeing(Pre(s, i + 1)) = SeenStep(Seeing(Pre(s, i)), s[i + 1])
  BY <1>2, <1>3, SeeingSteps
<1>4. Plain(Pre(s, i + 1)) =>
        Plain(Pre(s, i)) /\ Seeing(Pre(s, i + 1)).mode \in {"code", "literal"}
  <2>1. Plain(Append(Pre(s, i), s[i + 1])) <=>
          Plain(Pre(s, i)) /\ SeenStep(Seeing(Pre(s, i)), s[i + 1]).mode \in {"code", "literal"}
    BY <1>2, <1>3, PlainSteps
  <2> QED BY <1>3, <1>5, <2>1
<1>6. Seeing(Pre(s, i)) \in State /\ Seeing(raw) \in State
  BY <1>2, SeeingSteps DEF Follows
<1>7. Follows(s, i + 1, code, literal, raw, k)
  BY <1>4 DEF Follows
<1> QED BY <1>3, <1>4, <1>5, <1>6, <1>7

\* What _strip_comments and the reader do after i symbols, they do after i + 1.
Keeps(s, i, code, literal) ==
  \E raw, k : Follows(s, i, code, literal, raw, k) /\ Agrees(s, i, raw, k)

\* The reader is in code and the next symbol makes no pair with the last.
LEMMA KeepsFresh ==
  ASSUME NEW s \in Text, NEW i \in 0..Len(s) - 1, NEW code, NEW literal,
         Stripping(s, code, literal),
         NEW raw, NEW k, Follows(s, i, code, literal, raw, k),
         Fresh(s, i, raw, k)
  PROVE  Keeps(s, i + 1, code, literal)
<1> DEFINE c == s[i + 1]
           st == Seeing(Pre(s, i))
           st2 == Seeing(Pre(s, i + 1))
           r == Seeing(raw)
<1>1. /\ Follows(s, i + 1, code, literal, raw, k)
      /\ c \in Symbol /\ st \in State /\ r \in State /\ st2 = SeenStep(st, c)
  BY Ahead
<1>2. /\ k = i + 1 /\ r.mode = "code" /\ r.out = st.out
      /\ st.mode = "code" /\ (st.last = "" \/ st.last = "'")
      /\ st.last = "'" => r.last = "'"
      /\ st.last = "" => r.last = "" \/ r.last = " "
  BY DEF Fresh
<1> HIDE DEF c, st, st2, r
<1>3. i + 1 \in 1..Len(s) /\ i + 1 \in 0..Len(s) /\ k + 1 \in 1..Len(s) + 1
  <2>1. k = i + 1
    BY <1>2
  <2> QED BY <2>1, Places, Zenon
<1>4. CASE c = "'"
  <2>1. /\ st2.mode = "literal" /\ SeenStep(r, c).mode = "literal"
        /\ SeenStep(r, c).out = st2.out
    <3>1. /\ st2.mode = "literal" /\ SeenStep(r, c).mode = "literal"
          /\ st.last = "'" => st2.out = st.out
          /\ st.last # "'" => st2.out = st.out \o <<"'", "'">>
      BY <1>1, <1>2, <1>4, StepToLiteral
    <3>2. /\ r.last = "'" => SeenStep(r, c).out = r.out
          /\ r.last # "'" => SeenStep(r, c).out = r.out \o <<"'", "'">>
      BY <1>1, <1>2, <1>4, StepToLiteral
    <3>3. st.last = "'" <=> r.last = "'"
      BY <1>2
    <3> QED BY <1>2, <3>1, <3>2, <3>3
  <2>2. code[k] = <<c>> \o literal[k + 1]
    BY <1>2, <1>3, <1>4 DEF Stripping, c
  <2>3. /\ Follows(s, i + 1, code, literal, Append(raw, c), k + 1)
        /\ Seeing(Append(raw, c)) = SeenStep(r, c)
    <3>1. Rest(code, literal, r.mode, k) =
            <<c>> \o Rest(code, literal, SeenStep(r, c).mode, k + 1)
      BY <1>2, <2>1, <2>2 DEF Rest
    <3>2. SeenStep(r, c).mode \in {"code", "literal"} /\ c = s[k]
      BY <1>2, <2>1 DEF c
    <3>3. Takes(s, i + 1, code, literal, raw, k, c, k + 1)
      BY <1>1, <1>3, <3>1, <3>2 DEF r, Takes
    <3> QED BY <3>3, Take DEF r
  <2>4. Quoted(s, i + 1, Append(raw, c), k + 1)
    BY <1>2, <2>1, <2>3 DEF Quoted, st2, r
  <2> QED BY <2>3, <2>4 DEF Keeps, Agrees
<1>5. CASE c # "'"
  <2>1. st2.mode = "code" /\ st2.out = Append(st.out, c) /\ st2.last = c
    BY <1>1, <1>2, <1>5, StepInCode
  <2>2. c # "" /\ c # "'"
    BY <1>1, <1>5, SymbolAssumption
  <2>3. ~(c = "-" /\ r.last = "-") /\ ~(c = "*" /\ r.last = "/")
    BY <1>2
  <2>4. Pending(s, i + 1, raw, k)
    BY <1>2, <1>3, <2>1, <2>2, <2>3 DEF Pending, st2, r, c
  <2> QED BY <1>1, <2>4 DEF Keeps, Agrees
<1> QED BY <1>4, <1>5

\* The reader is in a literal.
LEMMA KeepsLiteral ==
  ASSUME NEW s \in Text, NEW i \in 0..Len(s) - 1, NEW code, NEW literal,
         Stripping(s, code, literal),
         NEW raw, NEW k, Follows(s, i, code, literal, raw, k),
         Quoted(s, i, raw, k)
  PROVE  Keeps(s, i + 1, code, literal)
<1> DEFINE c == s[i + 1]
           st == Seeing(Pre(s, i))
           st2 == Seeing(Pre(s, i + 1))
           r == Seeing(raw)
<1>1. /\ Follows(s, i + 1, code, literal, raw, k)
      /\ c \in Symbol /\ st \in State /\ r \in State /\ st2 = SeenStep(st, c)
  BY Ahead
<1>2. k = i + 1 /\ r.mode = "literal" /\ r.out = st.out /\ st.mode = "literal"
  BY DEF Quoted
<1> HIDE DEF c, st, st2, r
<1>3. i + 1 \in 1..Len(s) /\ i + 1 \in 0..Len(s) /\ k + 1 \in 1..Len(s) + 1
  <2>1. k = i + 1
    BY <1>2
  <2> QED BY <2>1, Places, Zenon
<1>4. /\ c = "'" => /\ st2.mode = "code" /\ st2.last = "'" /\ st2.out = st.out
                    /\ SeenStep(r, c).mode = "code" /\ SeenStep(r, c).last = "'"
                    /\ SeenStep(r, c).out = r.out
      /\ c # "'" => st2 = st /\ SeenStep(r, c) = r
  BY <1>1, <1>2, StepInLiteral
<1>5. /\ c = "'" => literal[k] = <<c>> \o code[k + 1]
      /\ c # "'" => literal[k] = <<c>> \o literal[k + 1]
  <2>1. c = "'" => literal[k] = <<c>> \o code[k + 1]
    BY <1>2, <1>3, QuotesEnd DEF c
  <2>2. c # "'" => literal[k] = <<c>> \o literal[k + 1]
    BY <1>2, <1>3 DEF Stripping, c
  <2> QED BY <2>1, <2>2
<1>6. /\ Follows(s, i + 1, code, literal, Append(raw, c), k + 1)
      /\ Seeing(Append(raw, c)) = SeenStep(r, c)
  <2>1. Rest(code, literal, r.mode, k) =
          <<c>> \o Rest(code, literal, SeenStep(r, c).mode, k + 1)
    BY <1>2, <1>4, <1>5 DEF Rest
  <2>2. SeenStep(r, c).mode \in {"code", "literal"} /\ c = s[k]
    BY <1>2, <1>4 DEF c
  <2>3. Takes(s, i + 1, code, literal, raw, k, c, k + 1)
    BY <1>1, <1>3, <2>1, <2>2 DEF r, Takes
  <2> QED BY <2>3, Take DEF r
<1>7. Agrees(s, i + 1, Append(raw, c), k + 1)
  <2>1. CASE c = "'" BY <1>2, <1>4, <1>6, <2>1 DEF Agrees, Fresh, st, st2, r
  <2>2. CASE c # "'" BY <1>2, <1>4, <1>6, <2>2 DEF Agrees, Quoted, st, st2, r
  <2> QED BY <2>1, <2>2
<1> QED BY <1>6, <1>7 DEF Keeps

\* A symbol of code is taken as it is, if it makes no pair with the one before or after.
IsSingle(s, i, j, code, literal, raw) ==
  /\ s \in Text /\ i \in 1..Len(s) /\ j \in 0..Len(s) /\ Stripping(s, code, literal)
  /\ Follows(s, j, code, literal, raw, i) /\ Seeing(raw).mode = "code" /\ s[i] # "'"
  /\ ~PairAt(s, i, "-", "-") /\ ~PairAt(s, i, "/", "*")
  /\ ~(s[i] = "-" /\ Seeing(raw).last = "-") /\ ~(s[i] = "*" /\ Seeing(raw).last = "/")

\* It is taken as code.
LEMMA TakesSymbol ==
  ASSUME NEW s, NEW i, NEW j, NEW code, NEW literal, NEW raw,
         IsSingle(s, i, j, code, literal, raw)
  PROVE  /\ Follows(s, j, code, literal, Append(raw, s[i]), i + 1)
         /\ Seeing(Append(raw, s[i])).mode = "code" /\ Seeing(Append(raw, s[i])).last = s[i]
         /\ Seeing(Append(raw, s[i])).out = Append(Seeing(raw).out, s[i])
<1> DEFINE r == Seeing(raw)
           x == s[i]
<1>0. /\ s \in Text /\ i \in 1..Len(s) /\ j \in 0..Len(s) /\ Stripping(s, code, literal)
      /\ Follows(s, j, code, literal, raw, i)
  BY DEF IsSingle
<1>1. r \in State /\ x \in Symbol /\ i + 1 \in 1..Len(s) + 1
  BY <1>0, SeeingSteps, PrefixOf DEF Follows
<1>2. r.mode = "code" /\ ~(x = "-" /\ r.last = "-") /\ ~(x = "*" /\ r.last = "/") /\ x # "'"
  BY DEF IsSingle
<1>3. /\ SeenStep(r, x).mode = "code" /\ SeenStep(r, x).last = x
      /\ SeenStep(r, x).out = Append(r.out, x)
  <2> HIDE DEF r, x
  <2> QED BY <1>1, <1>2, StepInCode
<1>4. code[i] = <<x>> \o code[i + 1]
  BY DEF IsSingle, Stripping
<1>5. Takes(s, j, code, literal, raw, i, x, i + 1)
  <2>1. Rest(code, literal, r.mode, i) = <<x>> \o Rest(code, literal, SeenStep(r, x).mode, i + 1)
    BY <1>2, <1>3, <1>4 DEF Rest
  <2> QED BY <1>0, <1>1, <1>3, <2>1 DEF Takes
<1> QED BY <1>3, <1>5, Take

\* A comment is taken as a space.
IsComment(s, j, code, literal, raw, k, c, k2) ==
  /\ s \in Text /\ j \in 0..Len(s) /\ Stripping(s, code, literal)
  /\ Follows(s, j, code, literal, raw, k) /\ ~Plain(Pre(s, j)) /\ Seeing(raw).mode = "code"
  /\ c \in Symbol /\ c = " " /\ k2 \in 1..Len(s) + 1 /\ code[k] = <<c>> \o code[k2]

\* The space in the place of a comment is taken as code.
LEMMA TakesSpace ==
  ASSUME NEW s, NEW j, NEW code, NEW literal, NEW raw, NEW k, NEW c, NEW k2,
         IsComment(s, j, code, literal, raw, k, c, k2)
  PROVE  /\ Follows(s, j, code, literal, Append(raw, c), k2)
         /\ Seeing(Append(raw, c)).mode = "code" /\ Seeing(Append(raw, c)).last = c
         /\ Seeing(Append(raw, c)).out = Append(Seeing(raw).out, c)
<1> DEFINE r == Seeing(raw)
<1>1. r \in State /\ r.mode = "code" /\ c \in Symbol /\ c = " "
  BY SeeingSteps DEF IsComment, Follows
<1>3. /\ SeenStep(r, c).mode = "code" /\ SeenStep(r, c).last = c
      /\ SeenStep(r, c).out = Append(r.out, c)
  <2> HIDE DEF r
  <2> QED BY <1>1, StepInCode
<1>4. code[k] = <<c>> \o code[k2]
  BY DEF IsComment
<1>5. Takes(s, j, code, literal, raw, k, c, k2)
  <2>1. Rest(code, literal, r.mode, k) = <<c>> \o Rest(code, literal, SeenStep(r, c).mode, k2)
    BY <1>1, <1>3, <1>4 DEF Rest
  <2>2. SeenStep(r, c).mode \in {"code", "literal"}
    BY <1>3
  <2> QED BY <2>1, <2>2 DEF IsComment, Takes
<1>6. /\ Follows(s, j, code, literal, Append(raw, c), k2)
      /\ Seeing(Append(raw, c)) = SeenStep(r, c)
  BY <1>5, Take
<1> QED BY <1>3, <1>6, Zenon

\* The reader is in code, and the last symbol may make a pair with the next.
LEMMA KeepsPending ==
  ASSUME NEW s \in Text, NEW i \in 0..Len(s) - 1, NEW code, NEW literal,
         Stripping(s, code, literal),
         NEW raw, NEW k, Follows(s, i, code, literal, raw, k),
         Pending(s, i, raw, k)
  PROVE  Keeps(s, i + 1, code, literal)
<1> DEFINE c == s[i + 1]
           x == s[i]
           st == Seeing(Pre(s, i))
           st2 == Seeing(Pre(s, i + 1))
           r == Seeing(raw)
<1>1. /\ Follows(s, i + 1, code, literal, raw, k)
      /\ c \in Symbol /\ st \in State /\ r \in State /\ st2 = SeenStep(st, c)
  BY Ahead
<1>10. Plain(Pre(s, i + 1)) => st2.mode \in {"code", "literal"}
  BY Ahead
<1>2. /\ k = i /\ i \in 1..Len(s) /\ r.mode = "code" /\ st.out = Append(r.out, x)
      /\ st.mode = "code" /\ st.last = x /\ x # "" /\ x # "'"
      /\ ~(x = "-" /\ r.last = "-") /\ ~(x = "*" /\ r.last = "/")
  BY DEF Pending
<1>3. i + 1 \in 1..Len(s) /\ i + 1 \in 0..Len(s) /\ (i + 1) + 1 = i + 2 /\ i + 2 \in 1..Len(s) + 1
      /\ i < Len(s)
  BY LenNat
<1>11. r.out \in Text /\ x \in Symbol
  BY <1>1, <1>2, PrefixOf DEF State
<1>12. /\ PairAt(s, i, "-", "-") <=> x = "-" /\ c = "-"
       /\ PairAt(s, i, "/", "*") <=> x = "/" /\ c = "*"
  BY <1>3 DEF PairAt
<1>14. /\ Seeing(raw).mode = "code" /\ s[i] # "'"
       /\ ~(s[i] = "-" /\ Seeing(raw).last = "-") /\ ~(s[i] = "*" /\ Seeing(raw).last = "/")
       /\ Follows(s, i + 1, code, literal, raw, i)
  BY <1>1, <1>2
<1> HIDE DEF c, st, st2, r
<1>13. Front(st.out) = r.out
  <2>1. Front(Append(r.out, x)) = r.out
    BY <1>11, Appended
  <2> QED BY <1>2, <2>1
<1>4. ASSUME ~PairAt(s, i, "-", "-"), ~PairAt(s, i, "/", "*")
      PROVE  /\ Follows(s, i + 1, code, literal, Append(raw, x), i + 1)
             /\ Seeing(Append(raw, x)).mode = "code" /\ Seeing(Append(raw, x)).last = x
             /\ Seeing(Append(raw, x)).out = st.out
  <2>1. /\ Follows(s, i + 1, code, literal, Append(raw, x), i + 1)
        /\ Seeing(Append(raw, x)).mode = "code" /\ Seeing(Append(raw, x)).last = x
        /\ Seeing(Append(raw, x)).out = Append(r.out, x)
    <3>1. IsSingle(s, i, i + 1, code, literal, raw)
      BY <1>2, <1>3, <1>4, <1>14 DEF IsSingle
    <3> QED BY <3>1, TakesSymbol DEF r, x
  <2> QED BY <1>2, <2>1
<1> HIDE DEF x
<1>5. CASE c = "'"
  <2> DEFINE raw2 == Append(raw, x)
             r2 == Seeing(raw2)
  <2>1. /\ Follows(s, i + 1, code, literal, raw2, i + 1)
        /\ r2.mode = "code" /\ r2.last = x /\ r2.out = st.out
    BY <1>4, <1>5, <1>12
  <2>2. r2 \in State
    BY <2>1, SeeingSteps DEF Follows
  <2> HIDE DEF raw2, r2
  <2>3. /\ st2.mode = "literal" /\ st2.out = st.out \o <<"'", "'">>
        /\ SeenStep(r2, c).mode = "literal" /\ SeenStep(r2, c).out = st.out \o <<"'", "'">>
    BY <1>1, <1>2, <1>5, <2>1, <2>2, StepToLiteral
  <2>4. code[i + 1] = <<c>> \o literal[i + 2]
    BY <1>3, <1>5 DEF Stripping, c
  <2>5. Takes(s, i + 1, code, literal, raw2, i + 1, c, i + 2)
    <3>1. Rest(code, literal, r2.mode, i + 1) =
            <<c>> \o Rest(code, literal, SeenStep(r2, c).mode, i + 2)
      BY <2>1, <2>3, <2>4 DEF Rest
    <3> QED BY <1>1, <1>3, <2>1, <2>3, <3>1 DEF Takes, r2, c
  <2>6. /\ Follows(s, i + 1, code, literal, Append(raw2, c), i + 2)
        /\ Seeing(Append(raw2, c)) = SeenStep(r2, c)
    BY <2>5, Take DEF r2
  <2>7. Quoted(s, i + 1, Append(raw2, c), i + 2)
    BY <1>3, <2>3, <2>6 DEF Quoted, st2
  <2> QED BY <2>6, <2>7 DEF Keeps, Agrees
<1>6. CASE x = "-" /\ c = "-"
  <2>1. st2.mode = "line" /\ st2.out = Append(r.out, " ")
    BY <1>1, <1>2, <1>6, <1>13, StepToLine
  <2>2. code[k] = <<" ">> \o code[LineEnd(s, i + 2)]
    BY <1>2, <1>6, <1>12 DEF Stripping
  <2>6. PICK b \in Symbol : b = " "
    BY WrittenTexts
  <2>3. LineEnd(s, i + 2) \in 1..Len(s) + 1
    <3>1. LineEnd(s, i + 2) \in i + 2..Len(s) + 1
      BY <1>3, LineEnds
    <3> QED BY <3>1, LenNat
  <2>4. /\ Follows(s, i + 1, code, literal, Append(raw, b), LineEnd(s, i + 2))
        /\ Seeing(Append(raw, b)).mode = "code" /\ Seeing(Append(raw, b)).last = b
        /\ Seeing(Append(raw, b)).out = Append(Seeing(raw).out, b)
    <3>1. ~Plain(Pre(s, i + 1))
      BY <1>10, <2>1
    <3>2. Seeing(raw).mode = "code" /\ Follows(s, i + 1, code, literal, raw, k)
      BY <1>1, <1>2 DEF r
    <3>3. code[k] = <<b>> \o code[LineEnd(s, i + 2)]
      BY <2>2, <2>6
    <3>4. IsComment(s, i + 1, code, literal, raw, k, b, LineEnd(s, i + 2))
      BY <1>3, <2>3, <2>6, <3>1, <3>2, <3>3 DEF IsComment
    <3> QED BY <3>4, TakesSpace
  <2>5. Lined(s, i + 1, Append(raw, b), LineEnd(s, i + 2))
    BY <1>3, <2>1, <2>4, <2>6 DEF Lined, st2, r
  <2> QED BY <2>4, <2>5 DEF Keeps, Agrees
<1>7. CASE x = "/" /\ c = "*"
  <2>1. st2.mode = "block" /\ st2.out = Append(r.out, " ") /\ st2.last = ""
    BY <1>1, <1>2, <1>7, <1>13, StepToBlock
  <2>2. code[k] = <<" ">> \o code[BlockEnd(s, i + 2)]
    BY <1>2, <1>7, <1>12 DEF Stripping
  <2>6. PICK b \in Symbol : b = " "
    BY WrittenTexts
  <2>3. BlockEnd(s, i + 2) \in 1..Len(s) + 1
    <3>1. BlockEnd(s, i + 2) \in i + 2..Len(s) + 1
      BY <1>3, BlockEnds
    <3> QED BY <3>1, LenNat
  <2>4. /\ Follows(s, i + 1, code, literal, Append(raw, b), BlockEnd(s, i + 2))
        /\ Seeing(Append(raw, b)).mode = "code" /\ Seeing(Append(raw, b)).last = b
        /\ Seeing(Append(raw, b)).out = Append(Seeing(raw).out, b)
    <3>1. ~Plain(Pre(s, i + 1))
      BY <1>10, <2>1
    <3>2. Seeing(raw).mode = "code" /\ Follows(s, i + 1, code, literal, raw, k)
      BY <1>1, <1>2 DEF r
    <3>3. code[k] = <<b>> \o code[BlockEnd(s, i + 2)]
      BY <2>2, <2>6
    <3>4. IsComment(s, i + 1, code, literal, raw, k, b, BlockEnd(s, i + 2))
      BY <1>3, <2>3, <2>6, <3>1, <3>2, <3>3 DEF IsComment
    <3> QED BY <3>4, TakesSpace
  <2>5. Blocked(s, i + 1, Append(raw, b), BlockEnd(s, i + 2))
    BY <1>3, <2>1, <2>4, <2>6 DEF Blocked, st2, r
  <2> QED BY <2>4, <2>5 DEF Keeps, Agrees
<1>8. CASE c # "'" /\ ~(x = "-" /\ c = "-") /\ ~(x = "/" /\ c = "*")
  <2>1. /\ Follows(s, i + 1, code, literal, Append(raw, x), i + 1)
        /\ Seeing(Append(raw, x)).mode = "code" /\ Seeing(Append(raw, x)).last = x
        /\ Seeing(Append(raw, x)).out = st.out
    BY <1>4, <1>8, <1>12
  <2>2. st2.mode = "code" /\ st2.out = Append(st.out, c) /\ st2.last = c
    BY <1>1, <1>2, <1>8, StepInCode
  <2>3. c # ""
    BY <1>1, SymbolAssumption
  <2>4. Pending(s, i + 1, Append(raw, x), i + 1)
    BY <1>3, <1>8, <2>1, <2>2, <2>3 DEF Pending, st2, c
  <2> QED BY <2>1, <2>4 DEF Keeps, Agrees
<1> QED BY <1>5, <1>6, <1>7, <1>8

\* The reader is in a line comment.
LEMMA KeepsLined ==
  ASSUME NEW s \in Text, NEW i \in 0..Len(s) - 1, NEW code, NEW literal,
         Stripping(s, code, literal),
         NEW raw, NEW k, Follows(s, i, code, literal, raw, k),
         Lined(s, i, raw, k)
  PROVE  Keeps(s, i + 1, code, literal)
<1> DEFINE c == s[i + 1]
           st == Seeing(Pre(s, i))
           st2 == Seeing(Pre(s, i + 1))
           r == Seeing(raw)
<1>1. /\ Follows(s, i + 1, code, literal, raw, k)
      /\ c \in Symbol /\ st \in State /\ r \in State /\ st2 = SeenStep(st, c)
  BY Ahead
<1>2. /\ st.mode = "line" /\ k = LineEnd(s, i + 1)
      /\ r.mode = "code" /\ r.last = " " /\ r.out = st.out
  BY DEF Lined
<1>3. i + 1 \in 1..Len(s) /\ i + 1 \in 0..Len(s) /\ i + 1 \in 1..Len(s) + 1 /\ i + 1 <= Len(s)
  BY LenNat
<1> HIDE DEF c, st, st2, r
<1>4. CASE c = "\n"
  <2>1. k = i + 1
    BY <1>2, <1>3, <1>4, LineEnds DEF c
  <2>2. st2.mode = "code" /\ st2.last = c /\ st2.out = Append(st.out, c)
    BY <1>1, <1>2, <1>4, StepInLine
  <2>3. c # "" /\ c # "'"
    BY <1>1, <1>4, SymbolAssumption
  <2>4. Pending(s, i + 1, raw, k)
    BY <1>2, <1>3, <1>4, <2>1, <2>2, <2>3 DEF Pending, st2, r, c
  <2> QED BY <1>1, <2>4 DEF Keeps, Agrees
<1>5. CASE c # "\n"
  <2>1. k = LineEnd(s, (i + 1) + 1)
    BY <1>2, <1>3, <1>5, LineEnds DEF c
  <2>2. st2 = st
    BY <1>1, <1>2, <1>5, StepInLine
  <2>3. Lined(s, i + 1, raw, k)
    BY <1>2, <2>1, <2>2 DEF Lined, st2, r
  <2> QED BY <1>1, <2>3 DEF Keeps, Agrees
<1> QED BY <1>4, <1>5

\* The reader is in a block comment.
LEMMA KeepsBlocked ==
  ASSUME NEW s \in Text, NEW i \in 0..Len(s) - 1, NEW code, NEW literal,
         Stripping(s, code, literal),
         NEW raw, NEW k, Follows(s, i, code, literal, raw, k),
         Blocked(s, i, raw, k)
  PROVE  Keeps(s, i + 1, code, literal)
<1> DEFINE c == s[i + 1]
           st == Seeing(Pre(s, i))
           st2 == Seeing(Pre(s, i + 1))
           r == Seeing(raw)
<1>1. /\ Follows(s, i + 1, code, literal, raw, k)
      /\ c \in Symbol /\ st \in State /\ r \in State /\ st2 = SeenStep(st, c)
  BY Ahead
<1>2. /\ st.mode = "block" /\ r.mode = "code" /\ r.last = " " /\ r.out = st.out
      /\ st.last = "*" => i \in 1..Len(s) /\ s[i] = "*" /\ k = BlockEnd(s, i)
      /\ st.last # "*" => k = BlockEnd(s, i + 1)
  BY DEF Blocked
<1>3. /\ i + 1 \in 1..Len(s) /\ i + 1 \in 0..Len(s) /\ i + 1 \in 1..Len(s) + 1 /\ i + 1 <= Len(s)
      /\ i < Len(s) /\ i <= Len(s)
      /\ i \in 1..Len(s) => i \in 1..Len(s) + 1
      /\ i + 2 = (i + 1) + 1
  BY LenNat
<1> HIDE DEF st, st2, r
<1>7. c = s[i + 1]
  OBVIOUS
<1> HIDE DEF c
<1>5. CASE c = "/" /\ st.last = "*"
  <2>1. PairAt(s, i, "*", "/")
    BY <1>2, <1>3, <1>5, <1>7 DEF PairAt
  <2>2. k = (i + 1) + 1
    BY <1>2, <1>3, <1>5, <2>1, BlockEnds
  <2>3. st2.mode = "code" /\ st2.last = "" /\ st2.out = st.out
    BY <1>1, <1>2, <1>5, StepFromBlock
  <2>4. Fresh(s, i + 1, raw, k)
    BY <1>2, <2>2, <2>3 DEF Fresh, st2, r
  <2> QED BY <1>1, <2>4 DEF Keeps, Agrees
<1>6. CASE ~(c = "/" /\ st.last = "*")
  <2>1. st2.mode = "block" /\ st2.last = c /\ st2.out = st.out
    BY <1>1, <1>2, <1>6, StepInBlock
  <2>2. k = BlockEnd(s, i + 1)
    <3>1. CASE st.last = "*"
      <4>1. ~PairAt(s, i, "*", "/")
        BY <1>6, <1>7, <3>1 DEF PairAt
      <4> QED BY <1>2, <1>3, <3>1, <4>1, BlockEnds
    <3>2. CASE st.last # "*"
      BY <1>2, <3>2
    <3> QED BY <3>1, <3>2
  <2>3. c # "*" => k = BlockEnd(s, (i + 1) + 1)
    <3>1. c # "*" => ~PairAt(s, i + 1, "*", "/")
      BY <1>7 DEF PairAt
    <3> QED BY <1>3, <2>2, <3>1, BlockEnds
  <2>4. Blocked(s, i + 1, raw, k)
    BY <1>2, <1>3, <2>1, <2>2, <2>3 DEF Blocked, st2, r, c
  <2> QED BY <1>1, <2>4 DEF Keeps, Agrees
<1> QED BY <1>5, <1>6

\* What the reader knows before the first symbol.
LEMMA SeeingOfNothing ==
  ASSUME NEW u, u = <<>>
  PROVE  /\ u \in Text /\ Plain(u) /\ Len(u) = 0
         /\ Seeing(u).mode = "code" /\ Seeing(u).last = "" /\ Seeing(u).out = u
<1>1. u \in Text /\ Len(u) = 0
  BY WrittenTexts
<1>2. Plain(u)
  <2>1. Plain(<<>>)
    BY WrittenTexts, PlainSteps
  <2> QED BY <2>1
<1>3. Seeing(u) = Start
  BY <1>1, SeeingSteps
<1>4. Start.mode = "code" /\ Start.last = "" /\ Start.out = u
  BY DEF Start
<1> QED BY <1>1, <1>2, <1>3, <1>4, Zenon

\* They agree before the first symbol.
LEMMA KeepsStart ==
  ASSUME NEW s \in Text, NEW code, NEW literal, Stripping(s, code, literal)
  PROVE  Keeps(s, 0, code, literal)
<1>0. PICK e : e = <<>>
  OBVIOUS
<1>1. /\ e \in Text /\ Plain(e)
      /\ Seeing(e).mode = "code" /\ Seeing(e).last = "" /\ Seeing(e).out = e
  BY <1>0, SeeingOfNothing
<1>2. Pre(s, 0) = e /\ Len(s) \in Nat
  BY <1>0, PrefixOf
<1>6. 1 \in 1..Len(s) + 1 /\ 1 - 1 = 0 /\ 0 + 1 = 1
  BY <1>2
<1>3. code[1] = e \o Rest(code, literal, Seeing(e).mode, 1)
  <2>1. code[1] \in Text
    <3>1. code \in [1..Len(s) + 1 -> Text]
      BY DEF Stripping
    <3> QED BY <1>6, <3>1
  <2>2. e \o code[1] = code[1]
    BY <1>0, <2>1, NothingMore
  <2> QED BY <1>1, <2>2 DEF Rest
<1>4. Follows(s, 0, code, literal, e, 1)
  BY <1>1, <1>2, <1>3, <1>6 DEF Follows
<1>5. Fresh(s, 0, e, 1)
  <2>1. Seeing(Pre(s, 0)) = Seeing(e)
    BY <1>2
  <2>2. Seeing(e).out = Seeing(Pre(s, 0)).out /\ Seeing(Pre(s, 0)).mode = "code"
    BY <1>1, <2>1
  <2>3. Seeing(Pre(s, 0)).last = "" /\ Seeing(e).last = ""
    BY <1>1, <2>1
  <2> QED BY <1>1, <1>6, <2>2, <2>3 DEF Fresh
<1> QED BY <1>4, <1>5 DEF Keeps, Agrees

\* They agree after every symbol.
LEMMA KeepsOn ==
  ASSUME NEW s \in Text, NEW code, NEW literal, Stripping(s, code, literal)
  PROVE  Keeps(s, Len(s), code, literal)
<1> DEFINE T == {i \in 0..Len(s) : Keeps(s, i, code, literal)}
<1>1. Len(s) \in Nat
  BY LenNat
<1>2. 0 \in T
  BY <1>1, KeepsStart
<1>3. ASSUME NEW i \in 0..Len(s) - 1, i \in T PROVE i + 1 \in T
  <2>1. Keeps(s, i, code, literal) /\ i + 1 \in 0..Len(s)
    BY <1>1, <1>3
  <2>2. PICK raw, k : Follows(s, i, code, literal, raw, k) /\ Agrees(s, i, raw, k)
    BY <2>1 DEF Keeps
  <2>3. Keeps(s, i + 1, code, literal)
    BY <2>2, KeepsFresh, KeepsPending, KeepsLiteral, KeepsLined, KeepsBlocked DEF Agrees
  <2> QED BY <2>1, <2>3
<1>4. 0..Len(s) \subseteq T
  <2> HIDE DEF T
  <2> QED BY <1>1, <1>2, <1>3, Steps
<1> QED BY <1>1, <1>4

\* What _strip_comments leaves is a text without comments that the reader reads like s.
LEMMA CommentsStripped ==
  ASSUME NEW s \in Text
  PROVE  /\ StripComments(s) \in Text /\ Plain(StripComments(s))
         /\ Seen(StripComments(s)) = Seen(s)
         /\ Plain(s) => StripComments(s) = s
<1>1. PICK code, literal : Stripping(s, code, literal) /\ StripComments(s) = code[1]
  BY StripsComments
<1>2. PICK raw, k : Follows(s, Len(s), code, literal, raw, k) /\ Agrees(s, Len(s), raw, k)
  BY <1>1, KeepsOn DEF Keeps
<1>3. Len(s) \in Nat /\ Len(s) \in 0..Len(s) /\ Len(s) + 1 \in 1..Len(s) + 1 /\ Pre(s, Len(s)) = s
  BY PrefixOf
<1>4. /\ code[Len(s) + 1] = <<>> /\ literal[Len(s) + 1] = <<>>
      /\ \A c, d : ~PairAt(s, Len(s), c, d)
  <2>1. ~(Len(s) < Len(s))
    BY <1>3
  <2>2. \A c, d : ~PairAt(s, Len(s), c, d)
    BY <2>1 DEF PairAt
  <2> QED BY <1>1, <2>2 DEF Stripping
<1> DEFINE Done(t) == /\ Follows(s, Len(s), code, literal, t, Len(s) + 1)
                      /\ Seeing(t).out = Seeing(s).out
<1>5. \E t : Done(t)
  <2>1. CASE Pending(s, Len(s), raw, k)
    <3> DEFINE x == s[Len(s)]
    <3>1. /\ k = Len(s) /\ Len(s) \in 1..Len(s) /\ x # "'" /\ Seeing(raw).mode = "code"
          /\ Seeing(s).out = Append(Seeing(raw).out, x)
          /\ ~(x = "-" /\ Seeing(raw).last = "-") /\ ~(x = "*" /\ Seeing(raw).last = "/")
      BY <1>3, <2>1 DEF Pending
    <3>2. IsSingle(s, Len(s), Len(s), code, literal, raw)
      BY <1>1, <1>2, <1>3, <1>4, <3>1 DEF IsSingle
    <3>3. /\ Follows(s, Len(s), code, literal, Append(raw, x), Len(s) + 1)
          /\ Seeing(Append(raw, x)).out = Append(Seeing(raw).out, x)
      BY <3>2, TakesSymbol
    <3> QED BY <3>1, <3>3
  <2>2. CASE ~Pending(s, Len(s), raw, k)
    <3>1. LineEnd(s, Len(s) + 1) = Len(s) + 1 /\ BlockEnd(s, Len(s) + 1) = Len(s) + 1
      BY <1>3, LineEnds, BlockEnds
    <3>2. Len(s) \in 1..Len(s) => BlockEnd(s, Len(s)) = Len(s) + 1
      <4>1. Len(s) \in 1..Len(s) => Len(s) \in 1..Len(s) + 1 /\ Len(s) <= Len(s)
        BY <1>3
      <4> QED BY <1>4, <3>1, <4>1, BlockEnds
    <3>3. k = Len(s) + 1 /\ Seeing(raw).out = Seeing(s).out
      BY <1>2, <1>3, <2>2, <3>1, <3>2 DEF Agrees, Fresh, Quoted, Lined, Blocked
    <3> QED BY <1>2, <3>3
  <2> QED BY <2>1, <2>2
<1>6. PICK t : Done(t)
  BY <1>5
<1>7. /\ t \in Text /\ Plain(t) /\ code[1] = t \o Rest(code, literal, Seeing(t).mode, Len(s) + 1)
      /\ Plain(s) => t = Pre(s, (Len(s) + 1) - 1)
  BY <1>3, <1>6 DEF Follows
<1>8. code[1] = t
  <2>1. code[1] = t \o <<>>
    BY <1>4, <1>7 DEF Rest
  <2> QED BY <1>7, <2>1, NothingMore
<1>9. Plain(s) => t = s
  <2>1. (Len(s) + 1) - 1 = Len(s)
    BY <1>3
  <2> QED BY <1>3, <1>7, <2>1
<1> QED BY <1>1, <1>6, <1>7, <1>8, <1>9 DEF Seen

-----------------------------------------------------------------------------
(* _strip_literals and the reader *)

\* Where reading goes on, if that is known of later places.
After(s, g, j) ==
  CASE j > Len(s) -> j
    [] PairAt(s, j, "'", "'") -> g[j + 2]
    [] j <= Len(s) /\ s[j] = "'" /\ ~PairAt(s, j, "'", "'") -> j + 1
    [] OTHER -> g[j + 1]

\* That, case by case.
LEMMA AfterCases ==
  ASSUME NEW s \in Text, NEW g, NEW j \in 1..Len(s) + 1
  PROVE  /\ j = Len(s) + 1 => After(s, g, j) = j
         /\ PairAt(s, j, "'", "'") => j + 2 \in 1..Len(s) + 1 /\ After(s, g, j) = g[j + 2]
         /\ j <= Len(s) /\ s[j] = "'" /\ ~PairAt(s, j, "'", "'") => After(s, g, j) = j + 1
         /\ j <= Len(s) /\ s[j] # "'" => After(s, g, j) = g[j + 1]
<1>1. Len(s) \in Nat
  BY LenNat
<1>2. j = Len(s) + 1 => After(s, g, j) = j
  <2> SUFFICES ASSUME j = Len(s) + 1 PROVE After(s, g, j) = j
    OBVIOUS
  <2>1. j > Len(s) /\ ~(j <= Len(s)) /\ ~PairAt(s, j, "'", "'")
    BY <1>1 DEF PairAt
  <2> QED BY <2>1 DEF After
<1>3. PairAt(s, j, "'", "'") => j + 2 \in 1..Len(s) + 1 /\ After(s, g, j) = g[j + 2]
  <2> SUFFICES ASSUME PairAt(s, j, "'", "'")
               PROVE  j + 2 \in 1..Len(s) + 1 /\ After(s, g, j) = g[j + 2]
    OBVIOUS
  <2>1. j <= Len(s) /\ ~(j > Len(s)) /\ j + 2 \in 1..Len(s) + 1
    BY <1>1 DEF PairAt
  <2> QED BY <2>1 DEF After
<1>4. j <= Len(s) /\ s[j] = "'" /\ ~PairAt(s, j, "'", "'") => After(s, g, j) = j + 1
  <2>1. j <= Len(s) => ~(j > Len(s))
    BY <1>1
  <2> QED BY <2>1 DEF After
<1>5. j <= Len(s) /\ s[j] # "'" => After(s, g, j) = g[j + 1]
  <2>1. j <= Len(s) => ~(j > Len(s))
    BY <1>1
  <2>2. s[j] # "'" => ~PairAt(s, j, "'", "'")
    BY DEF PairAt
  <2> QED BY <2>1, <2>2 DEF After
<1> QED BY <1>2, <1>3, <1>4, <1>5

\* Where a literal ends, symbol by symbol.
LEMMA LiteralEnds ==
  ASSUME NEW s \in Text, NEW i \in 1..Len(s) + 1
  PROVE  /\ LiteralEnd(s, i) \in 1..Len(s) + 1
         /\ i = Len(s) + 1 => LiteralEnd(s, i) = i
         /\ PairAt(s, i, "'", "'") => LiteralEnd(s, i) = LiteralEnd(s, i + 2)
         /\ i <= Len(s) /\ s[i] = "'" /\ ~PairAt(s, i, "'", "'") => LiteralEnd(s, i) = i + 1
         /\ i <= Len(s) /\ s[i] # "'" => LiteralEnd(s, i) = LiteralEnd(s, i + 1)
<1> DEFINE n == Len(s)
           D == 1..n + 1
           F == [j \in D |-> [g \in [D -> D] |-> After(s, g, j)]]
           Ends(after) == after = [j \in D |-> After(s, after, j)]
           end == CHOOSE after : Ends(after)
<1>1. n \in Nat
  BY LenNat
<1>2. \A j \in D : j = n + 1 \/ (j <= n /\ j + 1 \in D /\ j + 1 \in j + 1..n + 1)
  BY <1>1
<1>3. \A j \in D, g \in [D -> D] : After(s, g, j) \in D
  <2> SUFFICES ASSUME NEW j \in D, NEW g \in [D -> D] PROVE After(s, g, j) \in D
    OBVIOUS
  <2>1. CASE j = n + 1 BY <2>1, AfterCases
  <2>2. CASE j <= n /\ j + 1 \in D
    <3>1. CASE PairAt(s, j, "'", "'") BY <3>1, AfterCases
    <3>2. CASE s[j] = "'" /\ ~PairAt(s, j, "'", "'") BY <2>2, <3>2, AfterCases
    <3>3. CASE s[j] # "'" BY <2>2, <3>3, AfterCases
    <3> QED BY <3>1, <3>2, <3>3
  <2> QED BY <1>2, <2>1, <2>2
<1>4. ASSUME NEW j \in D, NEW g \in [D -> D], NEW h \in [D -> D],
             \A e \in j + 1..n + 1 : g[e] = h[e]
      PROVE  F[j][g] = F[j][h]
  <2>1. After(s, g, j) = After(s, h, j)
    <3>1. CASE j = n + 1 BY <3>1, AfterCases
    <3>2. CASE j <= n /\ j + 1 \in j + 1..n + 1
      <4>1. CASE PairAt(s, j, "'", "'")
        <5>1. j + 2 \in j + 1..n + 1
          BY <1>1, <4>1 DEF PairAt
        <5> QED BY <1>4, <4>1, <5>1, AfterCases
      <4>2. CASE s[j] = "'" /\ ~PairAt(s, j, "'", "'") BY <3>2, <4>2, AfterCases
      <4>3. CASE s[j] # "'" BY <1>4, <3>2, <4>3, AfterCases
      <4> QED BY <4>1, <4>2, <4>3
    <3> QED BY <1>2, <3>1, <3>2
  <2>2. F[j][g] = After(s, g, j) /\ F[j][h] = After(s, h, j)
    <3> HIDE DEF D
    <3> QED OBVIOUS
  <2> QED BY <2>1, <2>2, Zenon
<1>5. F \in [D -> [[D -> D] -> D]]
  <2> HIDE DEF D
  <2> QED BY <1>3
<1>6. D # {}
  BY <1>1
<1>7. Solved(D, D, F)
  <2>1. \A j \in 1..n + 1 : \A g, h \in [1..n + 1 -> D] :
          (\A e \in j + 1..n + 1 : g[e] = h[e]) => F[j][g] = F[j][h]
    <3> HIDE DEF F
    <3> QED BY <1>4, Zenon
  <2> HIDE DEF F, n
  <2> QED BY <1>1, <1>5, <1>6, <2>1, FromTheEnd, Zenon
<1>8. PICK f \in [D -> D] : \A j \in D : f[j] = F[j][f]
  <2> HIDE DEF F, D
  <2> QED BY <1>7, Zenon DEF Solved
<1>9. Ends(f)
  <2> HIDE DEF D
  <2> QED BY <1>8
<1>10. Ends(end)
  <2> HIDE DEF Ends
  <2> QED BY <1>9
<1>11. \A j \in D : end[j] = After(s, end, j)
  <2> HIDE DEF end, D
  <2> QED BY <1>10
<1>12. \A j \in D : LiteralEnd(s, j) = end[j]
  BY DEF LiteralEnd, After
<1> HIDE DEF end, F
<1>13. \A j \in D : end[j] \in D
  <2> DEFINE T == {j \in D : end[j] \in D}
  <2>1. n + 1 \in T
    <3>1. n + 1 \in D
      BY <1>1
    <3> QED BY <1>11, <3>1, AfterCases
  <2>2. ASSUME NEW j \in 1..n, \A e \in j + 1..n + 1 : e \in T PROVE j \in T
    <3>1. j \in D /\ j <= n /\ j + 1 \in T /\ j + 1 \in D
      BY <1>1, <2>2
    <3>2. CASE PairAt(s, j, "'", "'")
      <4>1. j + 2 \in j + 1..n + 1
        BY <1>1, <3>2 DEF PairAt
      <4> QED BY <1>11, <2>2, <3>1, <3>2, <4>1, AfterCases
    <3>3. CASE s[j] = "'" /\ ~PairAt(s, j, "'", "'") BY <1>11, <3>1, <3>3, AfterCases
    <3>4. CASE s[j] # "'" BY <1>11, <3>1, <3>4, AfterCases
    <3> QED BY <3>2, <3>3, <3>4
  <2>3. 1..n + 1 \subseteq T
    <3> HIDE DEF T, n
    <3> QED BY <1>1, <2>1, <2>2, StepsDown
  <2> QED BY <2>3
<1>14. i <= n => i + 1 \in D
  BY <1>1
<1> QED BY <1>11, <1>12, <1>13, <1>14, AfterCases

\* What _strip_literals leaves from place i on, if that is what it leaves from later places on.
Kept(s, g, i) ==
  IF i > Len(s) THEN <<>>
  ELSE IF s[i] = "'" THEN <<"'", "'">> \o g[LiteralEnd(s, i + 1)]
  ELSE <<s[i]>> \o g[i + 1]

\* That, case by case.
LEMMA KeptCases ==
  ASSUME NEW s \in Text, NEW g, NEW i \in 1..Len(s) + 1
  PROVE  /\ i = Len(s) + 1 => Kept(s, g, i) = <<>>
         /\ i <= Len(s) /\ s[i] = "'" => Kept(s, g, i) = <<"'", "'">> \o g[LiteralEnd(s, i + 1)]
         /\ i <= Len(s) /\ s[i] # "'" => Kept(s, g, i) = <<s[i]>> \o g[i + 1]
<1>1. Len(s) \in Nat
  BY LenNat
<1>2. /\ i = Len(s) + 1 => i > Len(s)
      /\ i <= Len(s) => ~(i > Len(s))
  BY <1>1
<1> QED BY <1>2 DEF Kept

\* A literal ends after it began.
LEMMA LiteralGoesOn ==
  ASSUME NEW s \in Text
  PROVE  \A i \in 1..Len(s) + 1 : LiteralEnd(s, i) \in i..Len(s) + 1
<1> DEFINE n == Len(s)
           T == {j \in 1..n + 1 : LiteralEnd(s, j) \in j..n + 1}
<1>1. n \in Nat
  BY LenNat
<1>2. n + 1 \in T
  <2>1. n + 1 \in 1..n + 1
    BY <1>1
  <2> QED BY <2>1, LiteralEnds
<1>3. ASSUME NEW j \in 1..n, \A e \in j + 1..n + 1 : e \in T PROVE j \in T
  <2>1. j \in 1..n + 1 /\ j <= n /\ j + 1 \in T
    BY <1>1, <1>3
  <2>2. CASE PairAt(s, j, "'", "'")
    <3>1. j + 2 \in T
      BY <1>1, <1>3, <2>2 DEF PairAt
    <3> QED BY <2>1, <2>2, <3>1, LiteralEnds
  <2>3. CASE s[j] = "'" /\ ~PairAt(s, j, "'", "'") BY <2>1, <2>3, LiteralEnds
  <2>4. CASE s[j] # "'" BY <2>1, <2>4, LiteralEnds
  <2> QED BY <2>2, <2>3, <2>4
<1>4. 1..n + 1 \subseteq T
  <2> HIDE DEF T, n
  <2> QED BY <1>1, <1>2, <1>3, StepsDown
<1> QED BY <1>4

\* What _strip_literals leaves, from each place on.
IsLeft(s, lit) ==
  /\ lit \in [1..Len(s) + 1 -> Text] /\ lit[Len(s) + 1] = <<>>
  /\ \A i \in 1..Len(s) :
       /\ s[i] = "'" => lit[i] = <<"'", "'">> \o lit[LiteralEnd(s, i + 1)]
       /\ s[i] # "'" => lit[i] = <<s[i]>> \o lit[i + 1]

\* _strip_literals leaves what is left from the first place on.
LEMMA StripsLiterals ==
  ASSUME NEW s \in Text
  PROVE  \E lit : IsLeft(s, lit) /\ StripLiterals(s) = lit[1]
<1> DEFINE n == Len(s)
           D == 1..n + 1
           F == [j \in D |-> [g \in [D -> Text] |-> Kept(s, g, j)]]
           Keeping(from) == from = [j \in D |-> Kept(s, from, j)]
           strip == CHOOSE from : Keeping(from)
<1>1. n \in Nat
  BY LenNat
<1>2. \A j \in D : \/ j = n + 1
                   \/ /\ j <= n /\ j + 1 \in D /\ j + 1 \in j + 1..n + 1 /\ s[j] \in Symbol
                      /\ LiteralEnd(s, j + 1) \in D /\ LiteralEnd(s, j + 1) \in j + 1..n + 1
  <2> SUFFICES ASSUME NEW j \in D, j # n + 1
               PROVE  /\ j <= n /\ j + 1 \in D /\ j + 1 \in j + 1..n + 1 /\ s[j] \in Symbol
                      /\ LiteralEnd(s, j + 1) \in D /\ LiteralEnd(s, j + 1) \in j + 1..n + 1
    OBVIOUS
  <2>1. j <= n /\ j + 1 \in D /\ j + 1 \in j + 1..n + 1 /\ j \in 1..n
    BY <1>1
  <2>2. LiteralEnd(s, j + 1) \in j + 1..n + 1
    BY <2>1, LiteralGoesOn
  <2> QED BY <1>1, <2>1, <2>2, PrefixOf
<1>3. \A j \in D, g \in [D -> Text] : Kept(s, g, j) \in Text
  <2> SUFFICES ASSUME NEW j \in D, NEW g \in [D -> Text] PROVE Kept(s, g, j) \in Text
    OBVIOUS
  <2>1. CASE j = n + 1 BY <2>1, KeptCases, WrittenTexts
  <2>2. CASE j # n + 1
    <3>1. /\ j <= n /\ g[j + 1] \in Text /\ g[LiteralEnd(s, j + 1)] \in Text
          /\ <<s[j]>> \in Text
      BY <1>2, <2>2, Short
    <3>2. CASE s[j] = "'"
      <4>1. <<"'", "'">> \o g[LiteralEnd(s, j + 1)] \in Text
        BY <3>1, WrittenTexts, Joined
      <4> QED BY <3>1, <3>2, <4>1, KeptCases
    <3>3. CASE s[j] # "'"
      <4>1. <<s[j]>> \o g[j + 1] \in Text
        BY <3>1, Joined
      <4> QED BY <3>1, <3>3, <4>1, KeptCases
    <3> QED BY <3>2, <3>3
  <2> QED BY <2>1, <2>2
<1>4. ASSUME NEW j \in D, NEW g \in [D -> Text], NEW h \in [D -> Text],
             \A e \in j + 1..n + 1 : g[e] = h[e]
      PROVE  F[j][g] = F[j][h]
  <2>1. Kept(s, g, j) = Kept(s, h, j)
    <3>1. CASE j = n + 1 BY <3>1, KeptCases
    <3>2. CASE j # n + 1
      <4>1. /\ j <= n /\ g[j + 1] = h[j + 1]
            /\ g[LiteralEnd(s, j + 1)] = h[LiteralEnd(s, j + 1)]
        BY <1>2, <1>4, <3>2
      <4> QED BY <4>1, KeptCases
    <3> QED BY <3>1, <3>2
  <2>2. F[j][g] = Kept(s, g, j) /\ F[j][h] = Kept(s, h, j)
    <3> HIDE DEF D
    <3> QED OBVIOUS
  <2> QED BY <2>1, <2>2, Zenon
<1>5. F \in [D -> [[D -> Text] -> Text]]
  <2> HIDE DEF D
  <2> QED BY <1>3
<1>7. Solved(D, Text, F)
  <2>1. \A j \in 1..n + 1 : \A g, h \in [1..n + 1 -> Text] :
          (\A e \in j + 1..n + 1 : g[e] = h[e]) => F[j][g] = F[j][h]
    <3> HIDE DEF F
    <3> QED BY <1>4, Zenon
  <2>2. Text # {}
    BY WrittenTexts
  <2> HIDE DEF F, n
  <2> QED BY <1>1, <1>5, <2>1, <2>2, FromTheEnd, Zenon
<1>8. PICK f \in [D -> Text] : \A j \in D : f[j] = F[j][f]
  <2> HIDE DEF F, D
  <2> QED BY <1>7, Zenon DEF Solved
<1>9. Keeping(f)
  <2> HIDE DEF D
  <2> QED BY <1>8
<1>10. Keeping(strip)
  <2> HIDE DEF Keeping
  <2> QED BY <1>9
<1>11. \A j \in D : strip[j] = Kept(s, strip, j)
  <2> HIDE DEF strip, D
  <2> QED BY <1>10
<1>12. StripLiterals(s) = strip[1]
  BY DEF StripLiterals, Kept
<1>13. strip = [j \in D |-> Kept(s, strip, j)]
  <2> HIDE DEF strip
  <2> QED BY <1>10
<1> HIDE DEF strip, F
<1>14. \A j \in D : strip[j] \in Text
  <2> DEFINE T == {j \in D : strip[j] \in Text}
  <2>1. n + 1 \in T
    <3>1. n + 1 \in D
      BY <1>1
    <3> QED BY <1>11, <3>1, KeptCases, WrittenTexts
  <2>2. ASSUME NEW j \in 1..n, \A e \in j + 1..n + 1 : e \in T PROVE j \in T
    <3>1. j \in D /\ j # n + 1
      BY <1>1
    <3>2. /\ j <= n /\ strip[j + 1] \in Text /\ strip[LiteralEnd(s, j + 1)] \in Text
          /\ <<s[j]>> \in Text
      BY <1>2, <2>2, <3>1, Short
    <3>3. CASE s[j] = "'"
      <4>1. <<"'", "'">> \o strip[LiteralEnd(s, j + 1)] \in Text
        BY <3>2, WrittenTexts, Joined
      <4> QED BY <1>11, <3>1, <3>2, <3>3, <4>1, KeptCases
    <3>4. CASE s[j] # "'"
      <4>1. <<s[j]>> \o strip[j + 1] \in Text
        BY <3>2, Joined
      <4> QED BY <1>11, <3>1, <3>2, <3>4, <4>1, KeptCases
    <3> QED BY <3>3, <3>4
  <2>3. 1..n + 1 \subseteq T
    <3> HIDE DEF T, n
    <3> QED BY <1>1, <2>1, <2>2, StepsDown
  <2> QED BY <2>3
<1>15. IsLeft(s, strip)
  <2>1. n + 1 \in D /\ \A j \in 1..n : j \in D /\ j <= n
    BY <1>1
  <2>2. strip \in [1..Len(s) + 1 -> Text]
    <3> HIDE DEF D
    <3>1. strip \in [D -> Text]
      BY <1>13, <1>14
    <3> QED BY <3>1 DEF D
  <2>3. strip[Len(s) + 1] = <<>>
    BY <1>11, <2>1, KeptCases
  <2>4. ASSUME NEW j \in 1..Len(s)
        PROVE  /\ s[j] = "'" => strip[j] = <<"'", "'">> \o strip[LiteralEnd(s, j + 1)]
               /\ s[j] # "'" => strip[j] = <<s[j]>> \o strip[j + 1]
    BY <1>11, <2>1, KeptCases
  <2> QED BY <2>2, <2>3, <2>4 DEF IsLeft
<1> QED BY <1>12, <1>15

\* What the reader has after k symbols, with what _strip_literals leaves of the others, is
\* what it leaves of all. In code, after a literal, it goes on where that literal ends.
Leaves(u, lit, k) ==
  LET st == Seeing(Pre(u, k)) IN
  /\ st.mode = "literal" => lit[1] = st.out \o lit[LiteralEnd(u, k + 1)]
  /\ st.mode = "code" /\ st.last = "'" =>
       k \in 1..Len(u) /\ u[k] = "'" /\ lit[1] = st.out \o lit[LiteralEnd(u, k)]
  /\ st.mode = "code" /\ st.last # "'" => lit[1] = st.out \o lit[k + 1]

\* Associativity.
LEMMA Regrouped ==
  ASSUME NEW a \in Text, NEW b \in Text, NEW c \in Text
  PROVE  a \o (b \o c) = (a \o b) \o c
BY ConcatAssociative DEF Text

\* The last symbol is left.
LEMMA LeavesMore ==
  ASSUME NEW u \in Text, NEW k \in 0..Len(u) - 1, NEW lit, IsLeft(u, lit), Leaves(u, lit, k),
         Seeing(Pre(u, k)).mode \in {"code", "literal"},
         Seeing(Pre(u, k + 1)).mode \in {"code", "literal"}
  PROVE  Leaves(u, lit, k + 1)
<1> DEFINE c == u[k + 1]
           st == Seeing(Pre(u, k))
           st2 == Seeing(Pre(u, k + 1))
<1>1. /\ k + 1 \in 1..Len(u) /\ k + 1 \in 1..Len(u) + 1 /\ k + 1 <= Len(u)
      /\ (k + 1) + 1 = k + 2 /\ k + 2 \in 1..Len(u) + 1 /\ k \in 0..Len(u)
      /\ k \in 1..Len(u) => k <= Len(u) /\ k < Len(u) /\ k \in 1..Len(u) + 1
  BY LenNat
<1>2. c \in Symbol /\ st \in State /\ st2 = SeenStep(st, c)
  <2>1. Pre(u, k) \in Text
    BY <1>1, PrefixOf
  <2>2. c \in Symbol /\ Pre(u, k + 1) = Append(Pre(u, k), c)
    BY NextPrefix
  <2> QED BY <2>1, <2>2, SeeingSteps
<1>3. /\ st.mode = "literal" => lit[1] = st.out \o lit[LiteralEnd(u, k + 1)]
      /\ st.mode = "code" /\ st.last = "'" =>
           k \in 1..Len(u) /\ u[k] = "'" /\ lit[1] = st.out \o lit[LiteralEnd(u, k)]
      /\ st.mode = "code" /\ st.last # "'" => lit[1] = st.out \o lit[k + 1]
  BY DEF Leaves
<1>4. /\ lit \in [1..Len(u) + 1 -> Text]
      /\ c = "'" => lit[k + 1] = <<"'", "'">> \o lit[LiteralEnd(u, k + 2)]
      /\ c # "'" => lit[k + 1] = <<c>> \o lit[k + 2]
  BY <1>1 DEF IsLeft
<1>5. st.mode \in {"code", "literal"} /\ st2.mode \in {"code", "literal"} /\ st.out \in Text
  BY <1>2 DEF State
<1>6. /\ LiteralEnd(u, k + 2) \in 1..Len(u) + 1
      /\ lit[LiteralEnd(u, k + 2)] \in Text /\ lit[k + 2] \in Text
  BY <1>1, <1>4, LiteralEnds
<1>7. CASE st.mode = "literal" /\ c = "'"
  <2>1. st2.mode = "code" /\ st2.last = "'" /\ st2.out = st.out
    BY <1>2, <1>7, StepInLiteral
  <2> QED BY <1>1, <1>3, <1>7, <2>1 DEF Leaves
<1>8. CASE st.mode = "literal" /\ c # "'"
  <2>1. st2 = st
    BY <1>2, <1>8, StepInLiteral
  <2>2. LiteralEnd(u, k + 1) = LiteralEnd(u, k + 2)
    BY <1>1, <1>8, LiteralEnds
  <2>3. lit[1] = st2.out \o lit[LiteralEnd(u, (k + 1) + 1)] /\ st2.mode = "literal"
    BY <1>1, <1>3, <1>8, <2>1, <2>2
  <2> QED BY <2>3 DEF Leaves
<1>9. CASE st.mode = "code" /\ c = "'"
  <2>1. /\ st2.mode = "literal"
        /\ st.last = "'" => st2.out = st.out
        /\ st.last # "'" => st2.out = st.out \o <<"'", "'">>
    BY <1>2, <1>9, StepToLiteral
  <2>2. lit[1] = st2.out \o lit[LiteralEnd(u, k + 2)]
    <3>1. CASE st.last = "'"
      <4>1. PairAt(u, k, "'", "'")
        BY <1>1, <1>3, <1>9, <3>1 DEF PairAt
      <4>2. LiteralEnd(u, k) = LiteralEnd(u, k + 2)
        BY <1>1, <1>3, <1>9, <3>1, <4>1, LiteralEnds
      <4> QED BY <1>3, <1>9, <2>1, <3>1, <4>2
    <3>2. CASE st.last # "'"
      <4>1. lit[1] = st.out \o (<<"'", "'">> \o lit[LiteralEnd(u, k + 2)])
        BY <1>3, <1>4, <1>9, <3>2
      <4>2. st.out \o (<<"'", "'">> \o lit[LiteralEnd(u, k + 2)])
              = (st.out \o <<"'", "'">>) \o lit[LiteralEnd(u, k + 2)]
        <5>1. PICK q \in Text : q = <<"'", "'">>
          BY WrittenTexts
        <5>2. st.out \o (q \o lit[LiteralEnd(u, k + 2)])
              = (st.out \o q) \o lit[LiteralEnd(u, k + 2)]
          BY <1>5, <1>6, Regrouped
        <5> QED BY <5>1, <5>2, Zenon
      <4> QED BY <2>1, <3>2, <4>1, <4>2
    <3> QED BY <3>1, <3>2
  <2>3. lit[1] = st2.out \o lit[LiteralEnd(u, (k + 1) + 1)]
    BY <1>1, <2>2
  <2> QED BY <2>1, <2>3 DEF Leaves
<1>10. CASE st.mode = "code" /\ c # "'"
  <2>1. st2.out = Append(st.out, c) /\ st2.last = c /\ st2.mode = "code"
    <3>1. ~(c = "-" /\ st.last = "-")
      BY <1>2, <1>5, <1>10, StepToLine
    <3>2. ~(c = "*" /\ st.last = "/")
      BY <1>2, <1>5, <1>10, StepToBlock
    <3> QED BY <1>2, <1>10, <3>1, <3>2, StepInCode
  <2>2. lit[1] = st.out \o lit[k + 1]
    <3>1. CASE st.last = "'"
      <4>1. ~PairAt(u, k, "'", "'")
        BY <1>10 DEF PairAt
      <4>2. LiteralEnd(u, k) = k + 1
        BY <1>1, <1>3, <1>10, <3>1, <4>1, LiteralEnds
      <4> QED BY <1>3, <1>10, <3>1, <4>2
    <3>2. CASE st.last # "'"
      BY <1>3, <1>10, <3>2
    <3> QED BY <3>1, <3>2
  <2>3. lit[1] = st2.out \o lit[k + 2]
    <3>1. st.out \o (<<c>> \o lit[k + 2]) = Append(st.out, c) \o lit[k + 2]
      BY <1>2, <1>5, <1>6, Moved
    <3> QED BY <1>4, <1>10, <2>1, <2>2, <3>1
  <2>4. lit[1] = st2.out \o lit[(k + 1) + 1]
    BY <1>1, <2>3
  <2> QED BY <1>10, <2>1, <2>4 DEF Leaves
<1> QED BY <1>5, <1>7, <1>8, <1>9, <1>10

\* Of a text without comments _strip_literals leaves what the reader leaves.
LEMMA LiteralsStripped ==
  ASSUME NEW u \in Text, Plain(u)
  PROVE  StripLiterals(u) = Seen(u)
<1>1. PICK lit : IsLeft(u, lit) /\ StripLiterals(u) = lit[1]
  BY StripsLiterals
<1>2. Len(u) \in Nat /\ Pre(u, Len(u)) = u
  BY PrefixOf
<1>3. lit \in [1..Len(u) + 1 -> Text] /\ lit[Len(u) + 1] = <<>>
  BY <1>1 DEF IsLeft
<1> DEFINE T == {k \in 0..Len(u) : Leaves(u, lit, k)}
<1>4. 0 \in T
  <2>1. PICK e : e = <<>>
    OBVIOUS
  <2>2. /\ Seeing(e).mode = "code" /\ Seeing(e).last = "" /\ Seeing(e).out = e
        /\ e \in Text /\ Pre(u, 0) = e
    BY <2>1, SeeingOfNothing, PrefixOf
  <2>3. lit[1] \in Text /\ 0 + 1 = 1
    BY <1>2, <1>3
  <2>4. lit[1] = e \o lit[0 + 1]
    BY <2>1, <2>3, NothingMore
  <2>5. Seeing(Pre(u, 0)) = Seeing(e)
    BY <2>2
  <2>6. Leaves(u, lit, 0)
    BY <2>2, <2>4, <2>5 DEF Leaves
  <2> QED BY <1>2, <2>6
<1>5. ASSUME NEW k \in 0..Len(u) - 1, k \in T PROVE k + 1 \in T
  <2>1. k \in 0..Len(u) /\ k + 1 \in 0..Len(u)
    BY <1>2
  <2>2. /\ Seeing(Pre(u, k)).mode \in {"code", "literal"}
        /\ Seeing(Pre(u, k + 1)).mode \in {"code", "literal"}
    BY <2>1 DEF Plain
  <2> QED BY <1>1, <1>5, <2>1, <2>2, LeavesMore
<1>6. Leaves(u, lit, Len(u))
  <2>1. 0..Len(u) \subseteq T
    <3> HIDE DEF T
    <3> QED BY <1>2, <1>4, <1>5, Steps
  <2> QED BY <1>2, <2>1
<1> DEFINE st == Seeing(u)
<1>7. st \in State /\ st.mode \in {"code", "literal"} /\ st.out \in Text
  <2>1. st \in State /\ st.mode \in {"code", "literal"}
    BY SeeingSteps, PlainSteps
  <2> QED BY <2>1 DEF State
<1>8. LiteralEnd(u, Len(u) + 1) = Len(u) + 1
  <2>1. Len(u) + 1 \in 1..Len(u) + 1
    BY <1>2
  <2> QED BY <2>1, LiteralEnds
<1>9. Len(u) \in 1..Len(u) /\ u[Len(u)] = "'" => LiteralEnd(u, Len(u)) = Len(u) + 1
  <2>1. Len(u) \in 1..Len(u) => Len(u) \in 1..Len(u) + 1 /\ Len(u) <= Len(u)
    BY <1>2
  <2>2. ~PairAt(u, Len(u), "'", "'")
    BY <1>2 DEF PairAt
  <2> QED BY <2>1, <2>2, LiteralEnds
<1>10. lit[1] = st.out \o <<>>
  <2>1. Seeing(Pre(u, Len(u))) = st
    BY <1>2
  <2> HIDE DEF st
  <2> QED BY <1>3, <1>6, <1>7, <1>8, <1>9, <2>1 DEF Leaves
<1> QED BY <1>1, <1>7, <1>10, NothingMore DEF Seen

\* Whatever the text is, _strip_comments and _strip_literals (query_service.py:961-1009)
\* leave the text that the one-pass reader leaves: no comment mark inside a literal and no
\* quote inside a comment misleads them.
LEMMA ScrubbedIsSeen == \A s \in Text : Scrubbed(s) = Seen(s)
<1> SUFFICES ASSUME NEW s \in Text PROVE Scrubbed(s) = Seen(s)
  OBVIOUS
<1>1. /\ StripComments(s) \in Text /\ Plain(StripComments(s))
      /\ Seen(StripComments(s)) = Seen(s)
  BY CommentsStripped
<1> QED BY <1>1, LiteralsStripped DEF Scrubbed

-----------------------------------------------------------------------------
(* Seen is its own code *)

\* An empty literal, quote by quote.
LEMMA EmptyLiteral ==
  ASSUME NEW u \in Text, NEW q \in Symbol, q = "'"
  PROVE  /\ u \o <<"'", "'">> = Append(Append(u, q), q)
         /\ u \o <<"'", "'">> \in Text /\ Append(u, q) \in Text
<1>1. <<q>> \in Text /\ <<>> \in Text /\ Append(u, q) \in Text /\ Append(Append(u, q), q) \in Text
  BY Short, Appended
<1>2. <<q>> \o <<q>> = <<q, q>>
  BY TwoOnes
<1>3. u \o (<<q>> \o <<q>>) = Append(u, q) \o <<q>>
  BY <1>1, Moved
<1>4. Append(u, q) \o (<<q>> \o <<>>) = Append(Append(u, q), q) \o <<>>
  BY <1>1, Moved
<1>5. <<q>> \o <<>> = <<q>> /\ Append(Append(u, q), q) \o <<>> = Append(Append(u, q), q)
  BY <1>1, NothingMore
<1>6. u \o <<q, q>> = Append(Append(u, q), q)
  BY <1>2, <1>3, <1>4, <1>5, Zenon
<1> QED BY <1>1, <1>6

\* The ways the reader may take one more symbol of a text without comments. A quote starts a
\* literal.
NewLiteral(st, st2, c) ==
  /\ st.mode = "code" /\ c = "'" /\ st.last # "'"
  /\ st2.mode = "literal" /\ st2.out = st.out \o <<"'", "'">> /\ st2.last = st.last

\* A quote after a quote goes on with the literal.
SameLiteral(st, st2, c) ==
  /\ st.mode = "code" /\ c = "'" /\ st.last = "'"
  /\ st2.mode = "literal" /\ st2.out = st.out /\ st2.last = st.last

\* A symbol in a literal is left out.
InLiteral(st, st2, c) == st.mode = "literal" /\ c # "'" /\ st2 = st

\* A quote ends the literal.
LiteralOver(st, st2, c) ==
  /\ st.mode = "literal" /\ c = "'"
  /\ st2.mode = "code" /\ st2.out = st.out /\ st2.last = "'"

\* A symbol of code is kept.
MoreCode(st, st2, c) ==
  /\ st.mode = "code" /\ c # "'" /\ ~(c = "-" /\ st.last = "-") /\ ~(c = "*" /\ st.last = "/")
  /\ st2.mode = "code" /\ st2.out = Append(st.out, c) /\ st2.last = c

\* One of these five is what happens in a text without comments.
IsRead(st, st2, c) ==
  \/ NewLiteral(st, st2, c) \/ SameLiteral(st, st2, c) \/ InLiteral(st, st2, c)
  \/ LiteralOver(st, st2, c) \/ MoreCode(st, st2, c)

\* No other way is left when a text goes on without comments.
LEMMA PlainCases ==
  ASSUME NEW u \in Text, NEW c \in Symbol, Plain(Append(u, c))
  PROVE  /\ Plain(u) /\ Seeing(u) \in State /\ Seeing(Append(u, c)) \in State
         /\ Seeing(u).out \in Text /\ IsRead(Seeing(u), Seeing(Append(u, c)), c)
<1> DEFINE st == Seeing(u)
           st2 == Seeing(Append(u, c))
<1>1. /\ Plain(u) /\ st \in State /\ st2 \in State /\ st2 = SeenStep(st, c)
      /\ st.mode \in {"code", "literal"} /\ st2.mode \in {"code", "literal"}
  BY PlainSteps, SeeingSteps, Appended
<1>2. st.out \in Text
  BY <1>1 DEF State
<1> HIDE DEF st, st2
<1>7. IsRead(st, st2, c)
  <2>3. CASE st.mode = "code" /\ c = "'"
    <3>1. /\ st2.mode = "literal" /\ st2.last = st.last
          /\ st.last = "'" => st2.out = st.out
          /\ st.last # "'" => st2.out = st.out \o <<"'", "'">>
      BY <1>1, <2>3, StepToLiteral
    <3> QED BY <2>3, <3>1 DEF IsRead, NewLiteral, SameLiteral
  <2>4. CASE st.mode = "code" /\ c # "'"
    <3>1. ~(c = "-" /\ st.last = "-")
      BY <1>1, <2>4, StepToLine
    <3>2. ~(c = "*" /\ st.last = "/")
      BY <1>1, <2>4, StepToBlock
    <3>3. st2.out = Append(st.out, c) /\ st2.last = c /\ st2.mode = "code"
      BY <1>1, <2>4, <3>1, <3>2, StepInCode
    <3> QED BY <2>4, <3>1, <3>2, <3>3 DEF IsRead, MoreCode
  <2>5. CASE st.mode = "literal" /\ c = "'"
    <3>1. st2.mode = "code" /\ st2.last = "'" /\ st2.out = st.out
      BY <1>1, <2>5, StepInLiteral
    <3> QED BY <2>5, <3>1 DEF IsRead, LiteralOver
  <2>6. CASE st.mode = "literal" /\ c # "'"
    <3>1. st2 = st
      BY <1>1, <2>6, StepInLiteral
    <3> QED BY <2>6, <3>1 DEF IsRead, InLiteral
  <2> QED BY <1>1, <2>3, <2>4, <2>5, <2>6
<1> QED BY <1>1, <1>2, <1>7 DEF st, st2

\* The reader reads what it has left of u as it has read u, with empty literals.
ReadAgain(u) ==
  LET st == Seeing(u)
      r == Seeing(st.out) IN
  /\ Plain(st.out) /\ r.mode = "code" /\ r.out = st.out
  /\ st.mode = "literal" => r.last = "'"
  /\ st.mode = "code" => r.last = st.last

\* It does so after one more symbol.
LEMMA ReadAgainOn ==
  ASSUME NEW u \in Text, NEW c \in Symbol, Plain(Append(u, c)), ReadAgain(u)
  PROVE  ReadAgain(Append(u, c))
<1> DEFINE st == Seeing(u)
           st2 == Seeing(Append(u, c))
           r == Seeing(st.out)
           r2 == Seeing(st2.out)
<1>1. /\ Plain(u) /\ st \in State /\ st2 \in State /\ st.out \in Text
      /\ IsRead(st, st2, c)
  BY PlainCases
<1>2. /\ Plain(st.out) /\ r.mode = "code" /\ r.out = st.out
      /\ st.mode = "literal" => r.last = "'"
      /\ st.mode = "code" => r.last = st.last
  BY DEF ReadAgain
<1>3. r \in State
  BY <1>1, SeeingSteps
<1>4. /\ Seeing(Append(st.out, c)) = SeenStep(r, c)
      /\ SeenStep(r, c).mode \in {"code", "literal"} => Plain(Append(st.out, c))
  BY <1>1, <1>2, PlainSteps, SeeingSteps
<1>5. ASSUME /\ Plain(st2.out) /\ r2.mode = "code" /\ r2.out = st2.out
             /\ st2.mode = "literal" => r2.last = "'"
             /\ st2.mode = "code" => r2.last = st2.last
      PROVE  ReadAgain(Append(u, c))
  BY <1>5 DEF ReadAgain
<1>6. st2.out = st.out => r2 = r
  OBVIOUS
<1>7. st2.out = Append(st.out, c) => r2 = SeenStep(r, c)
  BY <1>4
<1> HIDE DEF st, st2, r, r2
<1>8. CASE NewLiteral(st, st2, c)
  <2> DEFINE w == Append(st.out, c)
             rw == Seeing(w)
  <2>1. c = "'" /\ st.last # "'" /\ st.mode = "code" /\ st2.out = st.out \o <<"'", "'">>
        /\ st2.mode = "literal"
    BY <1>8 DEF NewLiteral
  <2>2. w \in Text /\ st2.out = Append(w, c)
    BY <1>1, <2>1, EmptyLiteral
  <2>3. rw = SeenStep(r, c) /\ rw \in State
    BY <1>4, <2>2, SeeingSteps
  <2>4. SeenStep(r, c).mode = "literal" /\ SeenStep(r, c).out = r.out \o <<"'", "'">>
    BY <1>2, <1>3, <2>1, StepToLiteral
  <2>5. Plain(w)
    BY <1>4, <2>4
  <2>6. Seeing(Append(w, c)) = SeenStep(rw, c)
        /\ (SeenStep(rw, c).mode \in {"code", "literal"} => Plain(Append(w, c)))
    BY <2>2, <2>5, PlainSteps, SeeingSteps
  <2> HIDE DEF w, rw
  <2>7. rw.mode = "literal" /\ rw.out = st2.out
    BY <1>2, <2>1, <2>3, <2>4
  <2>8. SeenStep(rw, c).mode = "code" /\ SeenStep(rw, c).last = "'" /\ SeenStep(rw, c).out = rw.out
    BY <2>1, <2>3, <2>7, StepInLiteral
  <2>9. r2 = SeenStep(rw, c) /\ Plain(st2.out)
    BY <2>2, <2>6, <2>8 DEF r2
  <2> QED BY <1>5, <2>1, <2>7, <2>8, <2>9
<1>9. CASE SameLiteral(st, st2, c) BY <1>2, <1>5, <1>6, <1>9 DEF SameLiteral
<1>10. CASE InLiteral(st, st2, c) BY <1>2, <1>5, <1>6, <1>10 DEF InLiteral
<1>11. CASE LiteralOver(st, st2, c) BY <1>2, <1>5, <1>6, <1>11 DEF LiteralOver
<1>12. CASE MoreCode(st, st2, c)
  <2>1. /\ st.mode = "code" /\ c # "'" /\ ~(c = "-" /\ st.last = "-") /\ ~(c = "*" /\ st.last = "/")
        /\ st2.mode = "code" /\ st2.out = Append(st.out, c) /\ st2.last = c
    BY <1>12 DEF MoreCode
  <2>2. /\ SeenStep(r, c).mode = "code"
        /\ SeenStep(r, c).out = Append(r.out, c)
        /\ SeenStep(r, c).last = c
    BY <1>2, <1>3, <2>1, StepInCode
  <2> QED BY <1>2, <1>4, <1>5, <1>7, <2>1, <2>2
<1> QED BY <1>1, <1>8, <1>9, <1>10, <1>11, <1>12 DEF IsRead

\* It does so for every text without comments.
LEMMA ReadsAgain ==
  ASSUME NEW u \in Text, Plain(u)
  PROVE  ReadAgain(u)
<1> DEFINE T == {v \in Text : Plain(v) => ReadAgain(v)}
<1>1. <<>> \in T
  <2>1. PICK e : e = <<>>
    OBVIOUS
  <2>2. /\ e \in Text /\ Plain(e)
        /\ Seeing(e).mode = "code" /\ Seeing(e).last = "" /\ Seeing(e).out = e
    BY <2>1, SeeingOfNothing
  <2>3. ReadAgain(e)
    BY <2>2 DEF ReadAgain
  <2> QED BY <2>1, <2>2, <2>3
<1>2. ASSUME NEW v \in Text, NEW c \in Symbol, v \in T PROVE Append(v, c) \in T
  <2>1. Append(v, c) \in Text
    BY Appended
  <2>2. Plain(Append(v, c)) => Plain(v)
    BY PlainSteps
  <2> QED BY <1>2, <2>1, <2>2, ReadAgainOn
<1>3. Text \subseteq T
  <2> HIDE DEF T
  <2> QED BY <1>1, <1>2, TextInduction
<1> QED BY <1>3

\* The reader leaves a text without comments and literals in which it finds nothing more to
\* leave out: stripping a second time changes nothing.
LEMMA SeenOfSeen ==
  \A s \in Text : Seen(s) \in Text /\ Plain(Seen(s)) /\ Seen(Seen(s)) = Seen(s)
<1> SUFFICES ASSUME NEW s \in Text
             PROVE  Seen(s) \in Text /\ Plain(Seen(s)) /\ Seen(Seen(s)) = Seen(s)
  OBVIOUS
<1>1. /\ StripComments(s) \in Text /\ Plain(StripComments(s))
      /\ Seen(StripComments(s)) = Seen(s)
  BY CommentsStripped
<1>2. ReadAgain(StripComments(s))
  BY <1>1, ReadsAgain
<1>3. Plain(Seen(s)) /\ Seen(Seen(s)) = Seen(s)
  BY <1>1, <1>2 DEF ReadAgain, Seen
<1>4. Seen(s) \in Text
  BY SeeingSteps DEF State, Seen
<1> QED BY <1>3, <1>4

-----------------------------------------------------------------------------
(* Binds, in texts that go on *)

\* A symbol in the place of the last one.
LEMMA LastReplaced ==
  ASSUME NEW o \in Text, o # <<>>, NEW b \in Symbol
  PROVE  /\ Append(Front(o), b) \in Text /\ Append(Front(o), b) # <<>>
         /\ Len(Append(Front(o), b)) = Len(o) /\ Append(Front(o), b)[Len(o)] = b
         /\ \A i \in 1..Len(o) - 1 : Append(Front(o), b)[i] = o[i]
<1>1. /\ Front(o) \in Text /\ Len(Front(o)) = Len(o) - 1 /\ o = Append(Front(o), o[Len(o)])
      /\ o[Len(o)] \in Symbol
  BY Fronts
<1>2. PICK g \in Text, d \in Symbol : g = Front(o) /\ d = o[Len(o)]
  BY <1>1
<1>3. o = Append(g, d) /\ Len(g) = Len(o) - 1
  BY <1>1, <1>2
<1>4. /\ Append(g, b) \in Text /\ Len(Append(g, b)) = Len(g) + 1 /\ Append(g, b)[Len(g) + 1] = b
      /\ \A i \in 1..Len(g) : Append(g, b)[i] = g[i]
  BY Appended
<1>5. \A i \in 1..Len(g) : Append(g, d)[i] = g[i]
  BY Appended
<1>6. Append(g, b) # <<>>
  BY EndOfAppended
<1>7. Len(o) \in Nat
  BY LenNat
<1>8. Len(g) + 1 = Len(o)
  BY <1>3, <1>7
<1> QED BY <1>2, <1>3, <1>4, <1>5, <1>6, <1>8, Zenon

\* The last symbol of a text, replaced by a space.
LEMMA SpaceForLast ==
  ASSUME NEW o \in Text, o # <<>>
  PROVE  /\ Append(Front(o), " ") \in Text /\ Append(Front(o), " ") # <<>>
         /\ Len(Append(Front(o), " ")) = Len(o) /\ Append(Front(o), " ")[Len(o)] = " "
         /\ \A i \in 1..Len(o) - 1 : Append(Front(o), " ")[i] = o[i]
BY WrittenTexts, LastReplaced, Zenon

\* Comments and literals end the word before them.
EndsWord(st) ==
  /\ st.mode = "literal" \/ (st.mode = "code" /\ st.last = "'") =>
       st.out # <<>> /\ st.out[Len(st.out)] = "'"
  /\ st.mode = "line" \/ st.mode = "block" => st.out # <<>> /\ st.out[Len(st.out)] = " "

\* They do in every text.
LEMMA EndsWords ==
  ASSUME NEW u \in Text
  PROVE  EndsWord(Seeing(u))
<1> DEFINE T == {v \in Text : EndsWord(Seeing(v))}
<1>1. <<>> \in T
  <2>1. PICK e : e = <<>>
    OBVIOUS
  <2>2. e \in Text /\ Seeing(e).mode = "code" /\ Seeing(e).last = ""
    BY <2>1, SeeingOfNothing
  <2>3. EndsWord(Seeing(e))
    BY <2>2 DEF EndsWord
  <2> QED BY <2>1, <2>2, <2>3
<1>2. ASSUME NEW v \in Text, NEW c \in Symbol, v \in T PROVE Append(v, c) \in T
  <2> DEFINE st == Seeing(v)
             st2 == Seeing(Append(v, c))
  <2>1. Append(v, c) \in Text /\ st \in State /\ st2 = SeenStep(st, c) /\ EndsWord(st)
    BY <1>2, Appended, SeeingSteps
  <2> HIDE DEF st, st2
  <2>2. st.out \in Text /\ st.mode \in {"code", "literal", "line", "block"}
    BY <2>1 DEF State
  <2>3. EndsWord(st2)
    <3>1. CASE st.mode = "code" /\ c = "'"
      <4>1. PICK q \in Symbol : q = "'"
        BY WrittenTexts
      <4>2. /\ st2.mode = "literal"
            /\ st.last = "'" => st2.out = st.out
            /\ st.last # "'" => st2.out = st.out \o <<"'", "'">>
        BY <2>1, <3>1, StepToLiteral
      <4>3. st.last = "'" => st.out # <<>> /\ st.out[Len(st.out)] = "'"
        BY <2>1, <3>1 DEF EndsWord
      <4>4. /\ st.out \o <<"'", "'">> = Append(Append(st.out, q), q)
            /\ Append(st.out, q) \in Text
        BY <2>2, <4>1, EmptyLiteral
      <4>5. /\ Append(Append(st.out, q), q) # <<>>
            /\ Append(Append(st.out, q), q)[Len(Append(Append(st.out, q), q))] = q
        BY <4>4, EndOfAppended
      <4>6. st2.out # <<>> /\ st2.out[Len(st2.out)] = "'"
        BY <4>1, <4>2, <4>3, <4>4, <4>5
      <4> QED BY <4>2, <4>6 DEF EndsWord
    <3>2. CASE st.mode = "code" /\ c = "-" /\ st.last = "-"
      <4>1. st2.mode = "line" /\ st2.out = Append(Front(st.out), " ")
        BY <2>1, <3>2, StepToLine
      <4>2. st.out # <<>>
        BY <2>1, <3>2 DEF State
      <4>3. st2.out # <<>> /\ st2.out[Len(st2.out)] = " "
        <5>1. /\ Append(Front(st.out), " ") # <<>>
              /\ Len(Append(Front(st.out), " ")) = Len(st.out)
              /\ Append(Front(st.out), " ")[Len(st.out)] = " "
          BY <2>2, <4>2, SpaceForLast, Zenon
        <5> QED BY <4>1, <5>1, Zenon
      <4> QED BY <4>1, <4>3 DEF EndsWord
    <3>3. CASE st.mode = "code" /\ c = "*" /\ st.last = "/"
      <4>1. st2.mode = "block" /\ st2.out = Append(Front(st.out), " ")
        BY <2>1, <3>3, StepToBlock
      <4>2. st.out # <<>>
        BY <2>1, <3>3 DEF State
      <4>3. st2.out # <<>> /\ st2.out[Len(st2.out)] = " "
        <5>1. /\ Append(Front(st.out), " ") # <<>>
              /\ Len(Append(Front(st.out), " ")) = Len(st.out)
              /\ Append(Front(st.out), " ")[Len(st.out)] = " "
          BY <2>2, <4>2, SpaceForLast, Zenon
        <5> QED BY <4>1, <5>1, Zenon
      <4> QED BY <4>1, <4>3 DEF EndsWord
    <3>4. CASE /\ st.mode = "code" /\ c # "'"
               /\ ~(c = "-" /\ st.last = "-")
               /\ ~(c = "*" /\ st.last = "/")
      <4>1. st2.mode = "code" /\ st2.last = c
        BY <2>1, <3>4, StepInCode
      <4> QED BY <3>4, <4>1 DEF EndsWord
    <3>5. CASE st.mode = "literal" /\ c = "'"
      <4>1. st2.mode = "code" /\ st2.out = st.out
        BY <2>1, <3>5, StepInLiteral
      <4> QED BY <2>1, <3>5, <4>1 DEF EndsWord
    <3>6. CASE st.mode = "literal" /\ c # "'"
      BY <2>1, <3>6, StepInLiteral
    <3>7. CASE st.mode = "line" /\ c = "\n"
      <4>1. st2.mode = "code" /\ st2.last = c
        BY <2>1, <3>7, StepInLine
      <4> QED BY <3>7, <4>1 DEF EndsWord
    <3>8. CASE st.mode = "line" /\ c # "\n"
      BY <2>1, <3>8, StepInLine
    <3>9. CASE st.mode = "block" /\ c = "/" /\ st.last = "*"
      <4>1. st2.mode = "code" /\ st2.last = ""
        BY <2>1, <3>9, StepFromBlock
      <4> QED BY <4>1 DEF EndsWord
    <3>10. CASE st.mode = "block" /\ ~(c = "/" /\ st.last = "*")
      <4>1. st2.mode = "block" /\ st2.out = st.out
        BY <2>1, <3>10, StepInBlock
      <4> QED BY <2>1, <3>10, <4>1 DEF EndsWord
    <3> QED BY <2>2, <3>1, <3>2, <3>3, <3>4, <3>5, <3>6, <3>7, <3>8, <3>9, <3>10
  <2> QED BY <2>1, <2>3 DEF st2
<1>3. Text \subseteq T
  <2> HIDE DEF T
  <2> QED BY <1>1, <1>2, TextInduction
<1> QED BY <1>3

\* w goes on with o, whose last word ends there.
Sealed(o, w) ==
  /\ Len(o) <= Len(w) /\ \A i \in 1..Len(o) : w[i] = o[i]
  /\ \/ Len(w) = Len(o)
     \/ o # <<>> /\ ~IsWord(o[Len(o)])
     \/ Len(w) > Len(o) /\ ~IsWord(w[Len(o) + 1])
     \/ o = <<>>

\* The names in o are names in w.
LEMMA SameName ==
  ASSUME NEW o \in Text, NEW w \in Text, Sealed(o, w), NEW i \in 1..Len(o)
  PROVE  NameAt(w, i) = NameAt(o, i)
<1> DEFINE ends(s) == {Len(s)} \cup {j - 1 : j \in {k \in i..Len(s) : ~IsWord(s[k])}}
<1>1. Len(o) \in Nat /\ Len(w) \in Nat
  BY LenNat
<1>2. Len(o) <= Len(w) /\ \A j \in 1..Len(o) : w[j] = o[j]
  BY DEF Sealed
<1>3. ends(o) \in SUBSET Nat /\ ends(w) \in SUBSET Nat /\ ends(o) # {} /\ ends(w) # {}
  BY <1>1
<1>4. Min(ends(o)) \in ends(o) /\ \A n \in ends(o) : Min(ends(o)) <= n
  <2> HIDE DEF ends
  <2> QED BY <1>3, MinIn
<1> DEFINE m == Min(ends(o))
<1>5. m \in ends(w)
  <2> HIDE DEF m
  <2>0. m \in ends(o) /\ \A n \in ends(o) : m <= n
    BY <1>4 DEF m
  <2>1. CASE m # Len(o)
    <3>1. PICK k \in i..Len(o) : ~IsWord(o[k]) /\ m = k - 1
      BY <2>0, <2>1
    <3>2. k \in i..Len(w) /\ w[k] = o[k]
      BY <1>1, <1>2
    <3> QED BY <3>1, <3>2
  <2>2. CASE m = Len(o)
    <3>1. \A k \in i..Len(o) : IsWord(o[k])
      <4> SUFFICES ASSUME NEW k \in i..Len(o), ~IsWord(o[k]) PROVE FALSE
        OBVIOUS
      <4>1. k - 1 \in ends(o)
        OBVIOUS
      <4> QED BY <1>1, <2>0, <2>2, <4>1
    <3>2. o # <<>> /\ IsWord(o[Len(o)])
      BY <1>1, <3>1
    <3>3. Len(w) = Len(o) \/ (Len(w) > Len(o) /\ ~IsWord(w[Len(o) + 1]))
      BY <3>2 DEF Sealed
    <3>4. CASE Len(w) = Len(o)
      BY <2>2, <3>4
    <3>5. CASE Len(w) > Len(o) /\ ~IsWord(w[Len(o) + 1])
      <4>1. Len(o) + 1 \in i..Len(w) /\ (Len(o) + 1) - 1 = m
        BY <1>1, <2>2, <3>5
      <4> QED BY <3>5, <4>1
    <3> QED BY <3>3, <3>4, <3>5
  <2> QED BY <2>1, <2>2
<1>6. \A n \in ends(w) : m <= n
  <2> HIDE DEF m
  <2>0. m \in ends(o) /\ \A n \in ends(o) : m <= n
    BY <1>4 DEF m
  <2>1. m <= Len(o) /\ m \in Nat
    BY <1>3, <2>0
  <2> SUFFICES ASSUME NEW n \in ends(w) PROVE m <= n
    OBVIOUS
  <2>2. CASE n = Len(w)
    BY <1>1, <1>2, <2>1, <2>2
  <2>3. CASE n # Len(w)
    <3>1. PICK k \in i..Len(w) : ~IsWord(w[k]) /\ n = k - 1
      BY <2>3
    <3>2. CASE k <= Len(o)
      <4>1. k \in i..Len(o) /\ o[k] = w[k]
        BY <1>1, <1>2, <3>2
      <4>2. n \in ends(o)
        BY <3>1, <4>1
      <4> QED BY <2>0, <4>2
    <3>3. CASE ~(k <= Len(o))
      BY <1>1, <2>1, <3>1, <3>3
    <3> QED BY <3>2, <3>3
  <2> QED BY <2>2, <2>3
<1>7. Min(ends(w)) = m
  <2> HIDE DEF m, ends
  <2> QED BY <1>3, <1>5, <1>6, MinIs
<1>8. m <= Len(o) /\ m \in Nat
  BY <1>1, <1>3, <1>4
<1>9. SubSeq(w, i, m) = SubSeq(o, i, m)
  <2> HIDE DEF m
  <2>1. \A j \in i..m : w[j] = o[j] /\ j \in 1..Len(o) /\ j \in 1..Len(w)
    BY <1>1, <1>2, <1>8
  <2> QED BY <1>1, <1>8, <2>1 DEF Text
<1>10. NameAt(w, i) = SubSeq(w, i, Min(ends(w))) /\ NameAt(o, i) = SubSeq(o, i, Min(ends(o)))
  BY DEF NameAt
<1> QED BY <1>7, <1>9, <1>10

\* The binds in o are binds in w.
LEMMA BindsStay ==
  ASSUME NEW o \in Text, NEW w \in Text, Sealed(o, w)
  PROVE  Binds(o) \subseteq Binds(w)
<1>1. Len(o) \in Nat /\ Len(w) \in Nat
  BY LenNat
<1>2. Len(o) <= Len(w) /\ \A j \in 1..Len(o) : w[j] = o[j]
  BY DEF Sealed
<1> SUFFICES ASSUME NEW i \in 1..Len(o) - 1, o[i] = ":", IsLetter(o[i + 1]),
                    i = 1 \/ o[i - 1] # ":"
             PROVE  NameAt(o, i + 1) \in Binds(w)
  BY DEF Binds
<1>3. i + 1 \in 1..Len(o) /\ i \in 1..Len(o) /\ i \in 1..Len(w) - 1
  BY <1>1, <1>2
<1>4. i # 1 => i - 1 \in 1..Len(o)
  BY <1>1
<1>5. w[i] = ":" /\ IsLetter(w[i + 1]) /\ (i = 1 \/ w[i - 1] # ":")
  BY <1>2, <1>3, <1>4
<1>6. NameAt(w, i + 1) = NameAt(o, i + 1)
  BY <1>3, SameName
<1> QED BY <1>3, <1>5, <1>6 DEF Binds

\* w is o and spaces.
Spaced(o, w) ==
  /\ Len(o) <= Len(w) /\ \A i \in 1..Len(o) : w[i] = o[i]
  /\ \A i \in Len(o) + 1..Len(w) : w[i] \in Space

\* Spaces after a text name no bind.
LEMMA BindsBeforeSpaces ==
  ASSUME NEW o \in Text, NEW w \in Text, Spaced(o, w)
  PROVE  Binds(w) \subseteq Binds(o)
<1>1. Len(o) \in Nat /\ Len(w) \in Nat
  BY LenNat
<1>2. /\ Len(o) <= Len(w) /\ \A j \in 1..Len(o) : w[j] = o[j]
      /\ \A j \in Len(o) + 1..Len(w) : w[j] \in Space
  BY DEF Spaced
<1>3. \A j \in Len(o) + 1..Len(w) : ~IsWord(w[j])
  <2>1. \A c \in Space : ~IsWord(c)
    BY SymbolAssumption, Zenon DEF IsWord, Punctuation
  <2> QED BY <1>2, <2>1
<1> SUFFICES ASSUME NEW i \in 1..Len(w) - 1, w[i] = ":", IsLetter(w[i + 1]),
                    i = 1 \/ w[i - 1] # ":"
             PROVE  NameAt(w, i + 1) \in Binds(o)
  BY DEF Binds
<1>4. i + 1 \in 1..Len(o)
  <2>1. i + 1 \in Len(o) + 1..Len(w) \/ i + 1 \in 1..Len(o)
    BY <1>1
  <2>2. IsWord(w[i + 1])
    BY DEF IsLetter
  <2> QED BY <1>3, <2>1, <2>2
<1>5. i \in 1..Len(o) - 1 /\ i \in 1..Len(o)
  BY <1>1, <1>4
<1>6. i # 1 => i - 1 \in 1..Len(o)
  BY <1>1, <1>5
<1>7. o[i] = ":" /\ IsLetter(o[i + 1]) /\ (i = 1 \/ o[i - 1] # ":")
  BY <1>2, <1>4, <1>5, <1>6
<1>8. Sealed(o, w)
  <2>1. Len(w) = Len(o) \/ Len(o) + 1 \in Len(o) + 1..Len(w)
    BY <1>1, <1>2
  <2>2. Len(w) = Len(o) \/ (Len(w) > Len(o) /\ ~IsWord(w[Len(o) + 1]))
    BY <1>1, <1>3, <2>1
  <2> QED BY <1>2, <2>2 DEF Sealed
<1>9. NameAt(w, i + 1) = NameAt(o, i + 1)
  BY <1>4, <1>8, SameName
<1> QED BY <1>5, <1>7, <1>9 DEF Binds

\* A space is left as it is or not at all.
LEMMA StepOnSpace ==
  ASSUME NEW st \in State, NEW c \in Space
  PROVE  SeenStep(st, c).out = st.out \/ SeenStep(st, c).out = Append(st.out, c)
<1>1. c # "'" /\ c # "-" /\ c # "*" /\ c # "/"
  BY DEF Space
<1>2. c \in Symbol
  BY SymbolAssumption DEF Punctuation
<1>3. st.mode \in {"code", "literal", "line", "block"}
  BY DEF State
<1>4. CASE st.mode = "code" BY <1>1, <1>2, <1>4, StepInCode
<1>5. CASE st.mode = "literal" BY <1>1, <1>2, <1>5, StepInLiteral
<1>6. CASE st.mode = "line" BY <1>1, <1>2, <1>6, StepInLine
<1>7. CASE st.mode = "block" BY <1>1, <1>2, <1>7, StepInBlock
<1> QED BY <1>3, <1>4, <1>5, <1>6, <1>7

\* Spaces at the end of a text are at most spaces at the end of its code.
LEMMA CodeBeforeSpaces ==
  ASSUME NEW s \in Text, NEW m \in 0..Len(s), \A i \in m + 1..Len(s) : s[i] \in Space
  PROVE  Spaced(Seen(Pre(s, m)), Seen(s))
<1> DEFINE o == Seen(Pre(s, m))
           T == {k \in 0..Len(s) : k >= m => Spaced(o, Seen(Pre(s, k)))}
<1>1. Len(s) \in Nat /\ Pre(s, Len(s)) = s /\ \A k \in 0..Len(s) : Pre(s, k) \in Text
  BY PrefixOf
<1>2. \A k \in 0..Len(s) : Seen(Pre(s, k)) \in Text /\ Len(Seen(Pre(s, k))) \in Nat
  BY <1>1, SeenOfSeen, LenNat
<1>3. o \in Text /\ Len(o) \in Nat /\ Spaced(o, o)
  <2>1. o \in Text /\ Len(o) \in Nat
    BY <1>2
  <2> HIDE DEF o
  <2> QED BY <2>1 DEF Spaced
<1> HIDE DEF o
<1>4. 0 \in T
  BY <1>1, <1>3 DEF o
<1>5. ASSUME NEW k \in 0..Len(s) - 1, k \in T PROVE k + 1 \in T
  <2>1. k \in 0..Len(s) /\ k + 1 \in 0..Len(s)
    BY <1>1
  <2> SUFFICES ASSUME k + 1 >= m PROVE Spaced(o, Seen(Pre(s, k + 1)))
    BY <2>1
  <2>2. CASE k + 1 = m
    BY <1>3, <2>2 DEF o
  <2>3. CASE k + 1 # m
    <3>1. k >= m /\ k + 1 \in m + 1..Len(s)
      BY <1>1, <2>3
    <3> DEFINE st == Seeing(Pre(s, k))
               c == s[k + 1]
               w == st.out
               w2 == Seen(Pre(s, k + 1))
    <3>2. c \in Space /\ c \in Symbol /\ Pre(s, k + 1) = Append(Pre(s, k), c) /\ st \in State
      BY <1>1, <2>1, <3>1, NextPrefix, SeeingSteps
    <3>3. w2 = SeenStep(st, c).out
      BY <1>1, <2>1, <3>2, SeeingSteps DEF Seen
    <3>4. w2 = w \/ w2 = Append(w, c)
      BY <3>2, <3>3, StepOnSpace
    <3>5. w \in Text /\ Len(w) \in Nat /\ Spaced(o, w)
      BY <1>2, <1>5, <2>1, <3>1 DEF Seen
    <3> HIDE DEF c, w, w2
    <3>6. CASE w2 = w
      BY <3>5, <3>6 DEF w2
    <3>7. CASE w2 = Append(w, c)
      <4>1. /\ Len(w2) = Len(w) + 1 /\ w2[Len(w) + 1] = c
            /\ \A i \in 1..Len(w) : w2[i] = w[i]
        BY <3>2, <3>5, <3>7, Appended
      <4>2. Spaced(o, w2)
        <5>1. /\ Len(o) <= Len(w) /\ \A i \in 1..Len(o) : w[i] = o[i]
              /\ \A i \in Len(o) + 1..Len(w) : w[i] \in Space
          BY <3>5 DEF Spaced
        <5>2. \A i \in 1..Len(o) : i \in 1..Len(w)
          BY <1>3, <3>5, <5>1
        <5>3. \A i \in Len(o) + 1..Len(w2) :
                i = Len(w) + 1 \/ (i \in Len(o) + 1..Len(w) /\ i \in 1..Len(w))
          BY <1>3, <3>5, <4>1
        <5>4. Len(o) <= Len(w2)
          BY <1>3, <3>5, <4>1, <5>1
        <5>5. \A i \in 1..Len(o) : w2[i] = o[i]
          BY <4>1, <5>1, <5>2
        <5>6. \A i \in Len(o) + 1..Len(w2) : w2[i] \in Space
          BY <3>2, <4>1, <5>1, <5>3
        <5> QED BY <5>4, <5>5, <5>6 DEF Spaced
      <4> QED BY <4>2 DEF w2
    <3> QED BY <3>4, <3>6, <3>7
  <2> QED BY <2>2, <2>3
<1>6. Len(s) \in T
  <2>1. 0..Len(s) \subseteq T
    <3> HIDE DEF T
    <3> QED BY <1>1, <1>4, <1>5, Steps
  <2> QED BY <1>1, <2>1
<1> QED BY <1>1, <1>6 DEF o

\* What the reader leaves goes on with o, whose last word ends there, and nothing will be
\* taken back from it.
Grown(o, st) ==
  /\ st \in State /\ Len(o) <= Len(st.out) /\ \A i \in 1..Len(o) : st.out[i] = o[i]
  /\ \/ o = <<>> \/ ~IsWord(o[Len(o)])
     \/ Len(st.out) > Len(o) /\ ~IsWord(st.out[Len(o) + 1])
  /\ st.mode = "code" /\ (st.last = "-" \/ st.last = "/") => Len(st.out) > Len(o)

\* Quotes and spaces are parts of no word.
LEMMA NonWords == ~IsWord("'") /\ ~IsWord(" ")
BY SymbolAssumption, Zenon DEF IsWord, Punctuation, Space

\* It does so with one symbol more.
LEMMA GrownMore ==
  ASSUME NEW o \in Text, NEW w \in Text, NEW c \in Symbol, Len(o) <= Len(w),
         \A i \in 1..Len(o) : w[i] = o[i],
         o = <<>> \/ ~IsWord(o[Len(o)]) \/ (Len(w) > Len(o) /\ ~IsWord(w[Len(o) + 1]))
  PROVE  /\ Append(w, c) \in Text /\ Len(o) < Len(Append(w, c))
         /\ \A i \in 1..Len(o) : Append(w, c)[i] = o[i]
         /\ \/ o = <<>> \/ ~IsWord(o[Len(o)])
            \/ Len(Append(w, c)) > Len(o) /\ ~IsWord(Append(w, c)[Len(o) + 1])
<1>1. /\ Append(w, c) \in Text /\ Len(Append(w, c)) = Len(w) + 1
      /\ \A i \in 1..Len(w) : Append(w, c)[i] = w[i]
  BY Appended
<1> DEFINE w2 == Append(w, c)
<1> HIDE DEF w2
<1>2. Len(o) \in Nat /\ Len(w) \in Nat
  BY LenNat
<1>3. /\ \A i \in 1..Len(o) : i \in 1..Len(w)
      /\ Len(w) > Len(o) => Len(o) + 1 \in 1..Len(w)
  BY <1>2
<1>4. /\ w2 \in Text /\ Len(w2) = Len(w) + 1 /\ \A i \in 1..Len(w) : w2[i] = w[i]
  BY <1>1 DEF w2
<1>5. Len(o) < Len(w2) /\ \A i \in 1..Len(o) : w2[i] = o[i]
  BY <1>2, <1>3, <1>4
<1>6. Len(w) > Len(o) /\ ~IsWord(w[Len(o) + 1]) => Len(w2) > Len(o) /\ ~IsWord(w2[Len(o) + 1])
  BY <1>2, <1>3, <1>4
<1> QED BY <1>4, <1>5, <1>6 DEF w2

\* It goes on so with every symbol.
LEMMA Grows ==
  ASSUME NEW o \in Text, NEW st, Grown(o, st), NEW c \in Symbol
  PROVE  Grown(o, SeenStep(st, c))
<1> DEFINE st2 == SeenStep(st, c)
           w == st.out
<1>1. /\ st \in State /\ Len(o) <= Len(w) /\ \A i \in 1..Len(o) : w[i] = o[i]
      /\ o = <<>> \/ ~IsWord(o[Len(o)]) \/ (Len(w) > Len(o) /\ ~IsWord(w[Len(o) + 1]))
      /\ st.mode = "code" /\ (st.last = "-" \/ st.last = "/") => Len(w) > Len(o)
  BY DEF Grown
<1>2. /\ w \in Text /\ st.mode \in {"code", "literal", "line", "block"} /\ st2 \in State
  BY <1>1, Stepping DEF State
<1>3. Len(o) \in Nat /\ Len(w) \in Nat
  BY <1>2, LenNat
<1>4. st2 = SeenStep(st, c)
  OBVIOUS
<1> HIDE DEF st2, w
<1>5. ASSUME st2.out = w,
             ~(st2.mode = "code" /\ (st2.last = "-" \/ st2.last = "/")) \/ Len(w) > Len(o)
      PROVE  Grown(o, st2)
  BY <1>1, <1>2, <1>5 DEF Grown
<1>6. /\ Append(w, c) \in Text /\ Len(o) < Len(Append(w, c))
      /\ \A i \in 1..Len(o) : Append(w, c)[i] = o[i]
      /\ \/ o = <<>> \/ ~IsWord(o[Len(o)])
         \/ Len(Append(w, c)) > Len(o) /\ ~IsWord(Append(w, c)[Len(o) + 1])
  BY <1>1, <1>2, GrownMore
<1>7. ASSUME st2.out = Append(w, c) PROVE Grown(o, st2)
  <2> DEFINE x == Append(w, c)
  <2>1. /\ Len(o) < Len(x) /\ \A i \in 1..Len(o) : x[i] = o[i]
        /\ o = <<>> \/ ~IsWord(o[Len(o)]) \/ (Len(x) > Len(o) /\ ~IsWord(x[Len(o) + 1]))
        /\ x = st2.out /\ Len(x) \in Nat
    BY <1>6, <1>7, LenNat
  <2> HIDE DEF x
  <2>2. Len(o) <= Len(x) /\ Len(x) > Len(o)
    BY <1>3, <2>1
  <2> QED BY <1>2, <2>1, <2>2 DEF Grown
<1>8. ASSUME st2.out = w \o <<"'", "'">>, c = "'", st2.mode = "literal" PROVE Grown(o, st2)
  <2> DEFINE x == Append(w, c)
             y == Append(x, c)
  <2>1. st2.out = y /\ x \in Text
    BY <1>2, <1>8, EmptyLiteral
  <2>2. /\ Len(o) < Len(x) /\ \A i \in 1..Len(o) : x[i] = o[i]
        /\ o = <<>> \/ ~IsWord(o[Len(o)]) \/ (Len(x) > Len(o) /\ ~IsWord(x[Len(o) + 1]))
    BY <1>6
  <2> HIDE DEF x
  <2>3. Len(x) \in Nat /\ Len(o) <= Len(x)
    BY <1>3, <2>1, <2>2, LenNat
  <2>4. /\ y \in Text /\ Len(o) < Len(y) /\ \A i \in 1..Len(o) : y[i] = o[i]
        /\ o = <<>> \/ ~IsWord(o[Len(o)]) \/ (Len(y) > Len(o) /\ ~IsWord(y[Len(o) + 1]))
    BY <2>1, <2>2, <2>3, GrownMore
  <2> HIDE DEF y
  <2>5. Len(y) \in Nat /\ Len(o) <= Len(y) /\ Len(y) > Len(o)
    BY <1>3, <2>4, LenNat
  <2> QED BY <1>2, <2>1, <2>4, <2>5 DEF Grown
<1>9. ASSUME NEW b \in Symbol, ~IsWord(b), st2.out = Append(Front(w), b), st2.mode # "code",
             st.mode = "code", st.last = "-" \/ st.last = "/"
      PROVE  Grown(o, st2)
  <2> DEFINE y == Append(Front(w), b)
  <2>1. Len(w) > Len(o) /\ w # <<>>
    BY <1>1, <1>3, <1>9
  <2>2. /\ Len(y) = Len(w) /\ y[Len(w)] = b /\ \A i \in 1..Len(w) - 1 : y[i] = w[i]
    BY <1>2, <2>1, LastReplaced
  <2>3. st2.out = y
    BY <1>9
  <2> HIDE DEF y
  <2>4. /\ \A i \in 1..Len(o) : i \in 1..Len(w) - 1
        /\ Len(o) + 1 = Len(w) \/ Len(o) + 1 \in 1..Len(w) - 1
    BY <1>3, <2>1
  <2>5. \A i \in 1..Len(o) : y[i] = o[i]
    BY <1>1, <2>2, <2>4
  <2>6. ~IsWord(w[Len(o) + 1]) => ~IsWord(y[Len(o) + 1])
    BY <1>9, <2>2, <2>4
  <2>7. Len(o) <= Len(y) /\ Len(y) > Len(o)
    BY <1>3, <2>1, <2>2
  <2> QED BY <1>1, <1>2, <1>9, <2>3, <2>5, <2>6, <2>7 DEF Grown
<1>21. PICK b \in Symbol : b = " " /\ ~IsWord(b)
  BY WrittenTexts, NonWords
<1> SUFFICES Grown(o, st2)
  BY <1>4
<1>10. CASE st.mode = "code" /\ c = "'"
  <2>1. /\ st2.mode = "literal"
        /\ st.last = "'" => st2.out = w
        /\ st.last # "'" => st2.out = w \o <<"'", "'">>
    BY <1>1, <1>4, <1>10, StepToLiteral DEF w
  <2> QED BY <1>5, <1>8, <1>10, <2>1
<1>11. CASE st.mode = "code" /\ c = "-" /\ st.last = "-"
  <2>1. st2.mode # "code" /\ st2.out = Append(Front(w), b)
    BY <1>1, <1>4, <1>11, <1>21, StepToLine DEF w
  <2> QED BY <1>9, <1>11, <1>21, <2>1
<1>12. CASE st.mode = "code" /\ c = "*" /\ st.last = "/"
  <2>1. st2.mode # "code" /\ st2.out = Append(Front(w), b)
    BY <1>1, <1>4, <1>12, <1>21, StepToBlock DEF w
  <2> QED BY <1>9, <1>12, <1>21, <2>1
<1>13. CASE /\ st.mode = "code" /\ c # "'"
            /\ ~(c = "-" /\ st.last = "-")
            /\ ~(c = "*" /\ st.last = "/")
  BY <1>1, <1>4, <1>7, <1>13, StepInCode DEF w
<1>14. CASE st.mode = "literal" /\ c = "'"
  <2>1. st2.out = w /\ st2.last = "'"
    BY <1>1, <1>4, <1>14, StepInLiteral DEF w
  <2> QED BY <1>5, <2>1
<1>15. CASE st.mode = "literal" /\ c # "'"
  <2>1. st2.out = w /\ st2.mode = "literal"
    BY <1>1, <1>4, <1>15, StepInLiteral DEF w
  <2> QED BY <1>5, <2>1
<1>16. CASE st.mode = "line" /\ c = "\n"
  BY <1>1, <1>4, <1>7, <1>16, StepInLine DEF w
<1>17. CASE st.mode = "line" /\ c # "\n"
  <2>1. st2.out = w /\ st2.mode = "line"
    BY <1>1, <1>4, <1>17, StepInLine DEF w
  <2> QED BY <1>5, <2>1
<1>18. CASE st.mode = "block" /\ c = "/" /\ st.last = "*"
  <2>1. st2.out = w /\ st2.last = ""
    BY <1>1, <1>4, <1>18, StepFromBlock DEF w
  <2> QED BY <1>5, <2>1
<1>19. CASE st.mode = "block" /\ ~(c = "/" /\ st.last = "*")
  <2>1. st2.out = w /\ st2.mode = "block"
    BY <1>1, <1>4, <1>19, StepInBlock DEF w
  <2> QED BY <1>5, <2>1
<1> QED BY <1>2, <1>10, <1>11, <1>12, <1>13, <1>14, <1>15, <1>16, <1>17, <1>18, <1>19

\* The symbol after a text, if it is a space, ends its last word.
IsSpace(c) == c = " "

\* Such a symbol starts and ends nothing.
LEMMA SpaceIsNoMark ==
  ASSUME NEW c, IsSpace(c)
  PROVE  c # "'" /\ c # "-" /\ c # "*" /\ c # "/" /\ c # "\n" /\ ~IsWord(c)
BY NonWords DEF IsSpace

\* A text that is one symbol longer has grown, if that symbol is none of a word or none follows.
LEMMA OneMore ==
  ASSUME NEW o \in Text, NEW c \in Symbol, ~IsWord(c), NEW st, st \in State,
         st.out = Append(o, c)
  PROVE  Grown(o, st)
<1>1. /\ Len(Append(o, c)) = Len(o) + 1 /\ Append(o, c)[Len(o) + 1] = c
      /\ \A i \in 1..Len(o) : Append(o, c)[i] = o[i]
  BY Appended
<1>2. Len(o) \in Nat
  BY LenNat
<1> DEFINE w == st.out
<1>3. /\ Len(w) = Len(o) + 1 /\ w[Len(o) + 1] = c
      /\ \A i \in 1..Len(o) : w[i] = o[i]
  BY <1>1
<1> HIDE DEF w
<1>4. Len(o) <= Len(w) /\ Len(w) > Len(o)
  BY <1>2, <1>3
<1>5. ~IsWord(w[Len(o) + 1])
  BY <1>3
<1> QED BY <1>3, <1>4, <1>5 DEF Grown, w

\* It does when a space follows what was read.
LEMMA GrowsFirst ==
  ASSUME NEW p \in Text, NEW c \in Symbol, IsSpace(c)
  PROVE  Grown(Seen(p), SeenStep(Seeing(p), c))
<1> DEFINE st == Seeing(p)
           st2 == SeenStep(st, c)
           o == Seen(p)
<1>1. /\ st \in State /\ o = st.out /\ o \in Text /\ st2 \in State /\ EndsWord(st)
      /\ st.mode \in {"code", "literal", "line", "block"} /\ Len(o) \in Nat
  <2>1. st \in State /\ o = st.out /\ EndsWord(st) /\ o \in Text
    BY SeeingSteps, EndsWords, SeenOfSeen DEF Seen
  <2>2. st2 \in State /\ Len(o) \in Nat
    BY <2>1, Stepping, LenNat
  <2> QED BY <2>1, <2>2 DEF State
<1>2. c # "'" /\ c # "-" /\ c # "*" /\ c # "/" /\ c # "\n" /\ ~IsWord(c)
  BY SpaceIsNoMark
<1>3. st2 = SeenStep(st, c)
  OBVIOUS
<1> SUFFICES Grown(o, st2)
  OBVIOUS
<1> HIDE DEF st, st2, o
<1>4. ASSUME st2.out = o, o # <<>>, ~IsWord(o[Len(o)]), st2.mode # "code"
      PROVE  Grown(o, st2)
  BY <1>1, <1>4 DEF Grown
<1>5. CASE st.mode = "code"
  <2>1. st2.out = Append(o, c)
    BY <1>1, <1>2, <1>3, <1>5, StepInCode
  <2> QED BY <1>1, <1>2, <2>1, OneMore
<1>6. CASE st.mode = "literal"
  <2>1. st2 = st
    BY <1>1, <1>2, <1>3, <1>6, StepInLiteral
  <2>2. o # <<>> /\ o[Len(o)] = "'"
    BY <1>1, <1>6 DEF EndsWord
  <2> QED BY <1>1, <1>4, <1>6, <2>1, <2>2, NonWords
<1>7. CASE st.mode = "line"
  <2>1. st2 = st
    BY <1>1, <1>2, <1>3, <1>7, StepInLine
  <2>2. o # <<>> /\ o[Len(o)] = " "
    BY <1>1, <1>7 DEF EndsWord
  <2> QED BY <1>1, <1>4, <1>7, <2>1, <2>2, NonWords
<1>8. CASE st.mode = "block"
  <2>1. st2.out = st.out /\ st2.mode = "block"
    BY <1>1, <1>2, <1>3, <1>8, StepInBlock
  <2>2. o # <<>> /\ o[Len(o)] = " "
    BY <1>1, <1>8 DEF EndsWord
  <2> QED BY <1>1, <1>4, <2>1, <2>2, NonWords
<1> QED BY <1>1, <1>5, <1>6, <1>7, <1>8

\* q goes on after p with a space.
GoesOn(p, q) == Len(q) > Len(p) /\ Pre(q, Len(p)) = p /\ IsSpace(q[Len(p) + 1])

\* What is written after a text and a space adds binds at most.
LEMMA BindsGoOn ==
  ASSUME NEW p \in Text, NEW q \in Text, GoesOn(p, q)
  PROVE  Binds(Seen(p)) \subseteq Binds(Seen(q))
<1> DEFINE o == Seen(p)
           T == {k \in 0..Len(q) : k > Len(p) => Grown(o, Seeing(Pre(q, k)))}
<1>1. Len(q) \in Nat /\ Len(p) \in Nat /\ Pre(q, Len(q)) = q /\ o \in Text
  BY PrefixOf, SeenOfSeen
<1>2. 0 \in T
  BY <1>1
<1>3. ASSUME NEW k \in 0..Len(q) - 1, k \in T PROVE k + 1 \in T
  <2> DEFINE c == q[k + 1]
  <2>1. k \in 0..Len(q) /\ k + 1 \in 0..Len(q)
    BY <1>1
  <2>2. Pre(q, k) \in Text
    BY <2>1, PrefixOf
  <2>3. c \in Symbol /\ Pre(q, k + 1) = Append(Pre(q, k), c)
    BY NextPrefix
  <2>4. Seeing(Pre(q, k + 1)) = SeenStep(Seeing(Pre(q, k)), c)
    BY <2>2, <2>3, SeeingSteps
  <2> HIDE DEF c
  <2> SUFFICES ASSUME k + 1 > Len(p) PROVE Grown(o, Seeing(Pre(q, k + 1)))
    BY <2>1
  <2>5. CASE k = Len(p)
    <3>1. Pre(q, k) = p /\ IsSpace(c)
      BY <2>5 DEF c, GoesOn
    <3>2. Grown(o, SeenStep(Seeing(p), c))
      BY <2>3, <3>1, GrowsFirst
    <3> QED BY <2>4, <3>1, <3>2
  <2>6. CASE k # Len(p)
    <3>1. Grown(o, Seeing(Pre(q, k)))
      BY <1>1, <1>3, <2>6
    <3> QED BY <1>1, <2>3, <2>4, <3>1, Grows
  <2> QED BY <2>5, <2>6
<1>4. Grown(o, Seeing(q))
  <2>1. 0..Len(q) \subseteq T
    <3> HIDE DEF T
    <3> QED BY <1>1, <1>2, <1>3, Steps
  <2>2. Len(q) > Len(p)
    BY DEF GoesOn
  <2> QED BY <1>1, <2>1, <2>2
<1>5. Seen(q) \in Text /\ Len(Seen(q)) \in Nat
  BY SeenOfSeen, LenNat
<1>6. Sealed(o, Seen(q))
  <2> HIDE DEF o
  <2>1. /\ Len(o) <= Len(Seen(q)) /\ \A i \in 1..Len(o) : Seen(q)[i] = o[i]
        /\ \/ o = <<>> \/ ~IsWord(o[Len(o)])
           \/ Len(Seen(q)) > Len(o) /\ ~IsWord(Seen(q)[Len(o) + 1])
    BY <1>4 DEF Grown, Seen
  <2> QED BY <2>1 DEF Sealed
<1> QED BY <1>1, <1>5, <1>6, BindsStay

\* What str.rstrip leaves.
LEMMA Stripped ==
  ASSUME NEW s \in Text
  PROVE  \E m \in 0..Len(s) : /\ RightStripped(s) = Pre(s, m)
                              /\ \A i \in m + 1..Len(s) : s[i] \in Space
                              /\ m > 0 => s[m] \notin Space
<1> DEFINE T == {0} \cup {i \in DOMAIN s : s[i] \notin Space}
           m == Max(T)
<1>1. Len(s) \in Nat /\ DOMAIN s = 1..Len(s)
  BY DEF Text
<1>2. \E x \in T : \A y \in T : y <= x
  <2> DEFINE U == {Len(s) - i : i \in T}
  <2>1. U \in SUBSET Nat /\ U # {}
    BY <1>1
  <2>2. PICK u \in U : \A v \in U : u <= v
    <3> HIDE DEF U
    <3> QED BY <2>1, Least
  <2>3. PICK x \in T : u = Len(s) - x
    OBVIOUS
  <2>4. \A y \in T : Len(s) - x <= Len(s) - y
    BY <2>2, <2>3
  <2>5. \A y \in T : y \in Int
    BY <1>1
  <2> QED BY <1>1, <2>4, <2>5
<1>3. m \in T /\ \A y \in T : y <= m
  <2> HIDE DEF T
  <2> QED BY <1>2 DEF Max
<1>4. m \in 0..Len(s)
  BY <1>1, <1>3
<1>5. \A i \in m + 1..Len(s) : s[i] \in Space
  <2> HIDE DEF m
  <2> SUFFICES ASSUME NEW i \in m + 1..Len(s), s[i] \notin Space PROVE FALSE
    OBVIOUS
  <2>1. i \in T
    BY <1>1, <1>4
  <2> QED BY <1>3, <1>4, <2>1
<1>6. m > 0 => s[m] \notin Space
  <2> HIDE DEF m
  <2> QED BY <1>3
<1>7. RightStripped(s) = Pre(s, m)
  BY DEF RightStripped, Pre
<1> QED BY <1>4, <1>5, <1>6, <1>7

\* Two texts, one written after the other.
LEMMA Concatenated ==
  ASSUME NEW p \in Text, NEW t \in Text
  PROVE  /\ p \o t \in Text /\ Len(p \o t) = Len(p) + Len(t) /\ Pre(p \o t, Len(p)) = p
         /\ \A i \in 1..Len(p) : (p \o t)[i] = p[i]
         /\ \A i \in 1..Len(t) : (p \o t)[Len(p) + i] = t[i]
<1>1. Len(p) \in Nat /\ Len(t) \in Nat
  BY LenNat
<1>2. p \o t \in Text /\ Len(p \o t) = Len(p) + Len(t)
  BY Joined DEF Text
<1>3. \A i \in 1..Len(p) + Len(t) : (p \o t)[i] = IF i <= Len(p) THEN p[i] ELSE t[i - Len(p)]
  BY DEF Text
<1> DEFINE q == p \o t
<1> SUFFICES /\ q \in Text /\ Len(q) = Len(p) + Len(t) /\ Pre(q, Len(p)) = p
             /\ \A i \in 1..Len(p) : q[i] = p[i]
             /\ \A i \in 1..Len(t) : q[Len(p) + i] = t[i]
  OBVIOUS
<1> HIDE DEF q
<1>4. q \in Text /\ Len(q) = Len(p) + Len(t)
      /\ \A i \in 1..Len(p) + Len(t) : q[i] = IF i <= Len(p) THEN p[i] ELSE t[i - Len(p)]
  BY <1>2, <1>3 DEF q
<1>5. \A i \in 1..Len(p) : q[i] = p[i]
  BY <1>1, <1>4
<1>6. \A i \in 1..Len(t) : q[Len(p) + i] = t[i]
  <2> SUFFICES ASSUME NEW i \in 1..Len(t) PROVE q[Len(p) + i] = t[i]
    OBVIOUS
  <2>1. /\ Len(p) + i \in 1..Len(p) + Len(t) /\ ~(Len(p) + i <= Len(p))
        /\ (Len(p) + i) - Len(p) = i
    BY <1>1
  <2> QED BY <1>4, <2>1
<1>7. Pre(q, Len(p)) = p
  <2>1. Len(p) \in 0..Len(q)
    BY <1>1, <1>4
  <2>2. Pre(q, Len(p)) \in Text /\ Len(Pre(q, Len(p))) = Len(p)
        /\ \A i \in 1..Len(p) : Pre(q, Len(p))[i] = q[i]
    BY <1>4, <2>1, PrefixOf
  <2> QED BY <1>1, <1>5, <2>2, SeqEqual DEF Text
<1> QED BY <1>4, <1>5, <1>6, <1>7

\* t begins with a space.
SpaceFirst(t) == t # <<>> /\ IsSpace(t[1])

\* The binds in a text stay when it is stripped and something is written after a space: what
\* the query options add takes no bind from the SQL (query_service.py:842-906).
THEOREM BindsKept ==
  \A s, t \in Text : SpaceFirst(t) =>
    /\ RightStripped(s) \o t \in Text
    /\ Binds(Seen(s)) \subseteq Binds(Seen(RightStripped(s) \o t))
<1> SUFFICES ASSUME NEW s \in Text, NEW t \in Text, SpaceFirst(t)
             PROVE  /\ RightStripped(s) \o t \in Text
                    /\ Binds(Seen(s)) \subseteq Binds(Seen(RightStripped(s) \o t))
  OBVIOUS
<1>1. PICK m \in 0..Len(s) : /\ RightStripped(s) = Pre(s, m)
                             /\ \A i \in m + 1..Len(s) : s[i] \in Space
  BY Stripped
<1> DEFINE p == Pre(s, m)
           q == p \o t
<1>2. p \in Text /\ Len(t) \in Nat /\ Len(p) \in Nat
  BY PrefixOf, LenNat
<1>3. Binds(Seen(s)) \subseteq Binds(Seen(p))
  <2>1. Seen(p) \in Text /\ Seen(s) \in Text
    BY <1>2, SeenOfSeen
  <2>2. Spaced(Seen(p), Seen(s))
    BY <1>1, CodeBeforeSpaces
  <2> QED BY <2>1, <2>2, BindsBeforeSpaces
<1> HIDE DEF p
<1>4. q \in Text /\ Len(q) = Len(p) + Len(t) /\ Pre(q, Len(p)) = p
      /\ \A i \in 1..Len(t) : q[Len(p) + i] = t[i]
  BY <1>2, Concatenated
<1>5. Len(t) # 0 /\ IsSpace(t[1])
  BY DEF Text, SpaceFirst
<1> HIDE DEF q
<1>6. Len(q) > Len(p) /\ IsSpace(q[Len(p) + 1])
  <2>1. 1 \in 1..Len(t) /\ Len(q) > Len(p)
    BY <1>2, <1>4, <1>5
  <2> QED BY <1>4, <1>5, <2>1
<1>7. Binds(Seen(p)) \subseteq Binds(Seen(q))
  BY <1>2, <1>4, <1>6, BindsGoOn DEF GoesOn
<1> QED BY <1>1, <1>3, <1>4, <1>7 DEF p, q

-----------------------------------------------------------------------------
(* The verdict on a text is the verdict on what is seen of it *)

\* A prefix of a text without comments has none.
LEMMA PlainPrefix ==
  ASSUME NEW u \in Text, Plain(u), NEW m \in 0..Len(u)
  PROVE  Pre(u, m) \in Text /\ Plain(Pre(u, m))
<1>1. Len(u) \in Nat /\ Pre(u, m) \in Text /\ Len(Pre(u, m)) = m
  BY PrefixOf
<1>2. ASSUME NEW k \in 0..m PROVE Pre(Pre(u, m), k) = Pre(u, k)
  <2>1. k \in 0..Len(u)
    BY <1>1
  <2>2. /\ Pre(u, k) \in Text /\ Len(Pre(u, k)) = k /\ \A i \in 1..k : Pre(u, k)[i] = u[i]
        /\ \A i \in 1..m : Pre(u, m)[i] = u[i]
    BY <2>1, PrefixOf
  <2> DEFINE p == Pre(u, m)
  <2>3. p \in Text /\ Len(p) = m /\ \A i \in 1..m : p[i] = u[i]
    BY <1>1, <2>2
  <2> HIDE DEF p
  <2>4. Pre(p, k) \in Text /\ Len(Pre(p, k)) = k /\ \A i \in 1..k : Pre(p, k)[i] = p[i]
    BY <2>3, PrefixOf
  <2>5. \A i \in 1..k : i \in 1..m
    BY <1>1
  <2>6. \A i \in 1..k : Pre(p, k)[i] = Pre(u, k)[i]
    BY <2>2, <2>3, <2>4, <2>5
  <2>7. Pre(p, k) = Pre(u, k)
    BY <2>2, <2>4, <2>6, SeqEqual DEF Text
  <2> QED BY <2>7 DEF p
<1>3. \A k \in 0..m : k \in 0..Len(u)
  BY <1>1
<1>4. \A k \in 0..m : Seeing(Pre(Pre(u, m), k)).mode \in {"code", "literal"}
  BY <1>2, <1>3 DEF Plain
<1> QED BY <1>1, <1>4 DEF Plain

\* What starts and ends a literal.
IsQuote(c) == c = "'"

\* Two texts are the same up to their first quotes, after k symbols, if they have any.
Alike(u, v, k) ==
  /\ k \in Nat /\ k <= Len(u) /\ k <= Len(v)
  /\ \A i \in 1..k : u[i] = v[i] /\ ~IsQuote(u[i])
  /\ \/ k = Len(u) /\ k = Len(v)
     \/ k < Len(u) /\ k < Len(v) /\ IsQuote(u[k + 1]) /\ IsQuote(v[k + 1])

\* What the reader leaves only grows.
LEMMA OutGrows ==
  ASSUME NEW u \in Text, NEW c \in Symbol, Plain(Append(u, c))
  PROVE  /\ Len(Seen(u)) <= Len(Seen(Append(u, c)))
         /\ \A i \in 1..Len(Seen(u)) : Seen(Append(u, c))[i] = Seen(u)[i]
<1> DEFINE st == Seeing(u)
           st2 == Seeing(Append(u, c))
           o == st.out
           o2 == st2.out
<1>1. o \in Text /\ IsRead(st, st2, c)
  BY PlainCases
<1>2. Len(o) \in Nat
  BY <1>1, LenNat
<1>3. PICK q : q = "'"
  OBVIOUS
<1>4. q \in Symbol
  BY <1>3, WrittenTexts
<1>5. o2 = o \/ o2 = Append(o, c) \/ o2 = Append(Append(o, q), q)
  <2>1. o \o <<"'", "'">> = Append(Append(o, q), q)
    BY <1>1, <1>3, <1>4, EmptyLiteral
  <2> HIDE DEF st, st2
  <2> QED BY <1>1, <2>1 DEF IsRead, NewLiteral, SameLiteral, InLiteral, LiteralOver, MoreCode
<1>6. Seen(u) = o /\ Seen(Append(u, c)) = o2
  BY DEF Seen
<1> HIDE DEF o, o2, st, st2
<1>7. /\ Len(o) <= Len(Append(o, c)) /\ \A i \in 1..Len(o) : Append(o, c)[i] = o[i]
  BY <1>1, <1>2, Appended
<1>8. /\ Len(o) <= Len(Append(Append(o, q), q))
      /\ \A i \in 1..Len(o) : Append(Append(o, q), q)[i] = o[i]
  <2> DEFINE w == Append(o, q)
  <2>1. w \in Text /\ Len(w) = Len(o) + 1 /\ \A i \in 1..Len(o) : w[i] = o[i]
    BY <1>1, <1>4, Appended
  <2> HIDE DEF w
  <2>2. Len(Append(w, q)) = Len(w) + 1 /\ \A i \in 1..Len(w) : Append(w, q)[i] = w[i]
    BY <1>4, <2>1, Appended
  <2>3. \A i \in 1..Len(o) : i \in 1..Len(w)
    BY <1>2, <2>1
  <2>4. Len(o) <= Len(Append(w, q)) /\ \A i \in 1..Len(o) : Append(w, q)[i] = o[i]
    BY <1>2, <2>1, <2>2, <2>3
  <2> QED BY <2>4 DEF w
<1>9. Len(o) <= Len(o) /\ \A i \in 1..Len(o) : o[i] = o[i]
  BY <1>2
<1> QED BY <1>5, <1>6, <1>7, <1>8, <1>9

\* A text without quotes is its own code; one with quotes has the first where its code has it.
Unquoted(u) ==
  /\ Seen(u) = u /\ Seeing(u).mode = "code" /\ ~IsQuote(Seeing(u).last)
  /\ \A i \in 1..Len(u) : ~IsQuote(u[i])

\* They have their first quote after the same k symbols.
QuotedAt(u, v, k) ==
  /\ k \in Nat /\ k < Len(u) /\ k < Len(v) /\ IsQuote(u[k + 1]) /\ IsQuote(v[k + 1])
  /\ \A i \in 1..k : u[i] = v[i] /\ ~IsQuote(u[i])

\* It stays their first quote when both go on.
LEMMA QuoteStays ==
  ASSUME NEW u \in Text, NEW v \in Text, NEW k, QuotedAt(u, v, k),
         NEW u2, Len(u) <= Len(u2), Len(u2) \in Nat, \A i \in 1..Len(u) : u2[i] = u[i],
         NEW v2, Len(v) <= Len(v2), Len(v2) \in Nat, \A i \in 1..Len(v) : v2[i] = v[i]
  PROVE  QuotedAt(u2, v2, k)
<1>1. Len(u) \in Nat /\ Len(v) \in Nat /\ k \in Nat /\ k < Len(u) /\ k < Len(v)
  BY LenNat DEF QuotedAt
<1>2. /\ k + 1 \in 1..Len(u) /\ k + 1 \in 1..Len(v)
      /\ \A i \in 1..k : i \in 1..Len(u) /\ i \in 1..Len(v)
  BY <1>1
<1>3. k < Len(u2) /\ k < Len(v2)
  BY <1>1
<1> QED BY <1>1, <1>2, <1>3 DEF QuotedAt

\* The first quote comes at the end of a text that has none.
LEMMA FirstQuote ==
  ASSUME NEW u \in Text, NEW q \in Symbol, IsQuote(q), \A i \in 1..Len(u) : ~IsQuote(u[i])
  PROVE  QuotedAt(Append(u, q), Append(Append(u, q), q), Len(u))
<1> DEFINE w == Append(u, q)
           x == Append(w, q)
<1>1. /\ w \in Text /\ Len(w) = Len(u) + 1 /\ w[Len(u) + 1] = q
      /\ \A i \in 1..Len(u) : w[i] = u[i]
  BY Appended
<1>2. Len(u) \in Nat
  BY LenNat
<1> HIDE DEF w
<1>3. Len(x) = Len(w) + 1 /\ \A i \in 1..Len(w) : x[i] = w[i]
  BY <1>1, Appended
<1> HIDE DEF x
<1>4. Len(u) + 1 \in 1..Len(w) /\ \A i \in 1..Len(u) : i \in 1..Len(w)
  BY <1>1, <1>2
<1>5. Len(u) < Len(w) /\ Len(u) < Len(x)
  BY <1>1, <1>2, <1>3
<1>6. QuotedAt(w, x, Len(u))
  BY <1>1, <1>2, <1>3, <1>4, <1>5 DEF QuotedAt
<1> QED BY <1>6 DEF w, x

\* One symbol more.
LEMMA AlikeOn ==
  ASSUME NEW u \in Text, NEW c \in Symbol, Plain(Append(u, c)),
         Unquoted(u) \/ \E k \in Nat : QuotedAt(u, Seen(u), k)
  PROVE  Unquoted(Append(u, c)) \/ \E k \in Nat : QuotedAt(Append(u, c), Seen(Append(u, c)), k)
<1> DEFINE w == Append(u, c)
           st == Seeing(u)
           st2 == Seeing(w)
<1>1. /\ st.out = Seen(u) /\ st2.out = Seen(w) /\ Seen(u) \in Text /\ IsRead(st, st2, c)
      /\ Seen(w) \in Text
  BY PlainCases, Appended, SeenOfSeen DEF Seen
<1>2. /\ w \in Text /\ Len(w) = Len(u) + 1 /\ w[Len(u) + 1] = c
      /\ \A i \in 1..Len(u) : w[i] = u[i]
  BY Appended
<1>3. Len(u) \in Nat /\ Len(w) \in Nat /\ Len(Seen(w)) \in Nat /\ Len(u) <= Len(w)
  BY <1>1, <1>2, LenNat
<1>4. CASE \E k \in Nat : QuotedAt(u, Seen(u), k)
  <2>1. PICK k \in Nat : QuotedAt(u, Seen(u), k)
    BY <1>4
  <2>2. Len(Seen(u)) <= Len(Seen(w)) /\ \A i \in 1..Len(Seen(u)) : Seen(w)[i] = Seen(u)[i]
    BY OutGrows
  <2> HIDE DEF w
  <2>3. QuotedAt(w, Seen(w), k)
    BY <1>1, <1>2, <1>3, <2>1, <2>2, QuoteStays
  <2> QED BY <2>3 DEF w
<1>5. CASE Unquoted(u)
  <2>1. /\ Seen(u) = u /\ st.mode = "code" /\ ~IsQuote(st.last)
        /\ \A i \in 1..Len(u) : ~IsQuote(u[i])
    BY <1>5 DEF Unquoted
  <2>2. NewLiteral(st, st2, c) \/ MoreCode(st, st2, c)
    <3> HIDE DEF st, st2
    <3> QED BY <1>1, <2>1 DEF IsRead, SameLiteral, InLiteral, LiteralOver, IsQuote
  <2>3. CASE NewLiteral(st, st2, c)
    <3>1. IsQuote(c) /\ st2.out = st.out \o <<"'", "'">>
      BY <2>3 DEF NewLiteral, IsQuote
    <3>2. u \o <<"'", "'">> = Append(Append(u, c), c)
      BY <3>1, EmptyLiteral DEF IsQuote
    <3>3. Seen(w) = Append(Append(u, c), c)
      BY <1>1, <2>1, <3>1, <3>2
    <3>4. QuotedAt(w, Seen(w), Len(u))
      BY <2>1, <3>1, <3>3, FirstQuote
    <3> QED BY <1>3, <3>4
  <2>4. CASE MoreCode(st, st2, c)
    <3>1. ~IsQuote(c) /\ st2.mode = "code" /\ st2.out = Append(st.out, c) /\ st2.last = c
      BY <2>4 DEF MoreCode, IsQuote
    <3>2. Seen(w) = w
      BY <1>1, <2>1, <3>1
    <3>3. \A i \in 1..Len(w) : i = Len(u) + 1 \/ i \in 1..Len(u)
      BY <1>2, <1>3
    <3>4. \A i \in 1..Len(w) : ~IsQuote(w[i])
      BY <1>2, <2>1, <3>1, <3>3
    <3>5. Unquoted(w)
      BY <3>1, <3>2, <3>4 DEF Unquoted
    <3> QED BY <3>5
  <2> QED BY <2>2, <2>3, <2>4
<1> QED BY <1>4, <1>5

\* A text without comments and its code are the same up to their first quotes.
LEMMA AlikeCode ==
  ASSUME NEW u \in Text, Plain(u)
  PROVE  \E k \in Nat : Alike(u, Seen(u), k)
<1> DEFINE T == {v \in Text : Plain(v) => Unquoted(v) \/ \E k \in Nat : QuotedAt(v, Seen(v), k)}
<1>1. <<>> \in T
  <2>1. PICK e : e = <<>>
    OBVIOUS
  <2>2. /\ e \in Text /\ Len(e) = 0
        /\ Seeing(e).mode = "code" /\ Seeing(e).last = "" /\ Seeing(e).out = e
    BY <2>1, SeeingOfNothing
  <2>3. Seen(e) = e /\ Seeing(e).mode = "code" /\ ~IsQuote(Seeing(e).last)
    BY <2>2 DEF IsQuote, Seen
  <2>5. \A i \in 1..Len(e) : ~IsQuote(e[i])
    <3>1. Len(e) = 0
      BY <2>2
    <3> QED BY <3>1
  <2>4. Unquoted(e)
    BY <2>3, <2>5 DEF Unquoted
  <2> QED BY <2>1, <2>2, <2>4
<1>2. \A v \in Text, c \in Symbol : v \in T => Append(v, c) \in T
  <2> SUFFICES ASSUME NEW v \in Text, NEW c \in Symbol, v \in T, Plain(Append(v, c))
               PROVE  Unquoted(Append(v, c))
                      \/ \E k \in Nat : QuotedAt(Append(v, c), Seen(Append(v, c)), k)
    BY Appended
  <2>1. Plain(v)
    BY PlainCases
  <2> QED BY <2>1, AlikeOn
<1>3. Unquoted(u) \/ \E k \in Nat : QuotedAt(u, Seen(u), k)
  <2> HIDE DEF T
  <2>1. Text \subseteq T
    BY <1>1, <1>2, TextInduction
  <2> QED BY <2>1 DEF T
<1>4. CASE Unquoted(u)
  <2>1. Alike(u, Seen(u), Len(u))
    BY <1>4, LenNat DEF Unquoted, Alike
  <2> QED BY <2>1, LenNat
<1>5. ASSUME NEW k \in Nat, QuotedAt(u, Seen(u), k)
      PROVE  Alike(u, Seen(u), k)
  <2>1. Len(u) \in Nat /\ Len(Seen(u)) \in Nat
    BY SeenOfSeen, LenNat
  <2> QED BY <1>5, <2>1 DEF QuotedAt, Alike
<1> QED BY <1>3, <1>4, <1>5

\* Each is like the other.
LEMMA AlikeBothWays ==
  ASSUME NEW u \in Text, NEW v \in Text, NEW k, Alike(u, v, k)
  PROVE  Alike(v, u, k)
<1>1. Len(u) \in Nat /\ Len(v) \in Nat
  BY LenNat
<1> QED BY <1>1 DEF Alike

\* A quote is neither a space nor part of a word.
LEMMA QuoteIsNone ==
  ASSUME NEW c, IsQuote(c)
  PROVE  c \notin Space /\ ~IsWord(c)
BY NonWords DEF IsQuote, Space

\* Blank texts have no quotes.
LEMMA BlankAlike ==
  ASSUME NEW u \in Text, NEW v \in Text, NEW k, Alike(u, v, k), Blank(u)
  PROVE  Blank(v)
<1>1. Len(u) \in Nat /\ Len(v) \in Nat /\ DOMAIN u = 1..Len(u) /\ DOMAIN v = 1..Len(v)
  BY LenNat DEF Text
<1>2. \A i \in 1..Len(u) : u[i] \in Space
  BY <1>1 DEF Blank
<1>3. k \in Nat /\ k <= Len(u) /\ k <= Len(v) /\ \A i \in 1..k : u[i] = v[i]
  BY DEF Alike
<1>4. ~(k < Len(u) /\ IsQuote(u[k + 1]))
  <2> SUFFICES ASSUME k < Len(u), IsQuote(u[k + 1]) PROVE FALSE
    OBVIOUS
  <2>1. k + 1 \in 1..Len(u)
    BY <1>1, <1>3
  <2> QED BY <1>2, <2>1, QuoteIsNone
<1>5. k = Len(u) /\ k = Len(v)
  BY <1>4 DEF Alike
<1>6. \A i \in 1..Len(v) : v[i] \in Space
  BY <1>2, <1>3, <1>5
<1> QED BY <1>1, <1>6 DEF Blank

\* The words a text starts with come before its first quote.
LEMMA StartsAlike ==
  ASSUME NEW u \in Text, NEW v \in Text, NEW k, Alike(u, v, k), NEW words, StartsWith(u, words)
  PROVE  StartsWith(v, words)
<1>1. Len(u) \in Nat /\ Len(v) \in Nat
  BY LenNat
<1>2. PICK n \in 0..Len(u) : /\ n = Len(u) \/ ~IsWord(u[n + 1])
                             /\ \A i \in 1..n : u[i] \in Space \/ IsWord(u[i])
                             /\ TopLevelWords(Pre(u, n)) = [i \in DOMAIN words |-> <<words[i]>>]
  BY DEF StartsWith, Pre
<1>3. k \in Nat /\ k <= Len(u) /\ k <= Len(v) /\ \A i \in 1..k : u[i] = v[i]
  BY DEF Alike
<1>4. \/ k = Len(u) /\ k = Len(v)
      \/ k < Len(u) /\ k < Len(v) /\ IsQuote(u[k + 1]) /\ IsQuote(v[k + 1])
  BY DEF Alike
<1>5. n <= k
  <2> SUFFICES ASSUME k < n PROVE FALSE
    BY <1>1, <1>3
  <2>1. k + 1 \in 1..n /\ k # Len(u)
    BY <1>1, <1>3
  <2>2. IsQuote(u[k + 1])
    BY <1>4, <2>1
  <2> QED BY <1>2, <2>1, <2>2, QuoteIsNone
<1>6. n \in 0..Len(v) /\ n \in 0..Len(u)
  BY <1>1, <1>3, <1>5
<1>7. \A i \in 1..n : u[i] = v[i]
  BY <1>3, <1>5
<1>8. Pre(v, n) = Pre(u, n)
  <2>1. /\ Pre(u, n) \in Text /\ Len(Pre(u, n)) = n /\ \A i \in 1..n : Pre(u, n)[i] = u[i]
        /\ Pre(v, n) \in Text /\ Len(Pre(v, n)) = n /\ \A i \in 1..n : Pre(v, n)[i] = v[i]
    BY <1>6, PrefixOf
  <2>2. \A i \in 1..n : Pre(v, n)[i] = Pre(u, n)[i]
    BY <1>7, <2>1
  <2> QED BY <2>1, <2>2, SeqEqual DEF Text
<1>9. n = Len(v) \/ ~IsWord(v[n + 1])
  <2>1. CASE n = k
    BY <1>3, <1>4, <2>1, QuoteIsNone
  <2>2. CASE n # k
    <3>1. n + 1 \in 1..k /\ n # Len(u)
      BY <1>1, <1>3, <1>5, <2>2
    <3> QED BY <1>2, <1>3, <3>1
  <2> QED BY <2>1, <2>2
<1>10. \A i \in 1..n : v[i] \in Space \/ IsWord(v[i])
  BY <1>2, <1>7
<1>11. TopLevelWords(Pre(v, n)) = [i \in DOMAIN words |-> <<words[i]>>]
  BY <1>2, <1>8
<1> QED BY <1>6, <1>9, <1>10, <1>11 DEF StartsWith, Pre

\* The words a text without comments starts with, and whether it is blank, is up to its code.
LEMMA StartsAsCode ==
  ASSUME NEW u \in Text, Plain(u)
  PROVE  /\ Blank(u) <=> Blank(Seen(u))
         /\ \A words : StartsWith(u, words) <=> StartsWith(Seen(u), words)
<1>1. PICK k \in Nat : Alike(u, Seen(u), k)
  BY AlikeCode
<1>2. Seen(u) \in Text
  BY SeenOfSeen
<1>3. Alike(Seen(u), u, k)
  BY <1>1, <1>2, AlikeBothWays
<1>4. Blank(u) <=> Blank(Seen(u))
  BY <1>1, <1>2, <1>3, BlankAlike
<1>5. ASSUME NEW words PROVE StartsWith(u, words) <=> StartsWith(Seen(u), words)
  <2>1. StartsWith(u, words) => StartsWith(Seen(u), words)
    BY <1>1, <1>2, StartsAlike
  <2>2. StartsWith(Seen(u), words) => StartsWith(u, words)
    BY <1>2, <1>3, StartsAlike
  <2> QED BY <2>1, <2>2
<1> QED BY <1>4, <1>5

\* The verdict on a statement without comments is the verdict on its code.
LEMMA StatementAsCode ==
  ASSUME NEW u \in Text, Plain(u), NEW method
  PROVE  ValidStatement(u, method) <=> ValidStatement(Seen(u), method)
<1> DEFINE v == Seen(u)
<1>1. v \in Text /\ Plain(v) /\ Seen(v) = v
  BY SeenOfSeen
<1>2. \A words : StartsWith(u, words) <=> StartsWith(v, words)
  BY StartsAsCode
<1>3. StripLiterals(u) = v
  BY LiteralsStripped
<1>4. StripLiterals(v) = v /\ Scrubbed(v) = v /\ Scrubbed(u) = v
  <2> HIDE DEF v
  <2>1. StripLiterals(v) = v /\ Scrubbed(v) = v
    BY <1>1, LiteralsStripped, ScrubbedIsSeen
  <2>2. Scrubbed(u) = v
    BY ScrubbedIsSeen DEF v
  <2> QED BY <2>1, <2>2
<1> HIDE DEF v
<1>5. StatementType(u) = StatementType(v)
  BY <1>4, Zenon DEF StatementType
<1>6. Spoken(u) = Spoken(v)
  BY <1>3, <1>4, Zenon DEF Spoken
<1>7. Balanced(StripLiterals(u)) <=> Balanced(StripLiterals(v))
  BY <1>3, <1>4
<1>8. ValidStatement(u, method) <=> ValidStatement(v, method)
  BY <1>2, <1>5, <1>6, <1>7, Zenon DEF ValidStatement
<1> QED BY <1>8 DEF v

-----------------------------------------------------------------------------
(* Spaces around a statement *)

\* The reader is alike after two texts that differ in what came long before.
Likewise(st, st2) ==
  /\ st.mode = st2.mode
  /\ st.last = st2.last \/ (st2.last = "" /\ st.last \in Space \cup {";", ""})

\* In the same way it takes one more symbol.
TakesLikewise(st, st2, r, r2, c) ==
  \/ NewLiteral(st, st2, c) /\ NewLiteral(r, r2, c)
  \/ SameLiteral(st, st2, c) /\ SameLiteral(r, r2, c)
  \/ InLiteral(st, st2, c) /\ InLiteral(r, r2, c)
  \/ LiteralOver(st, st2, c) /\ LiteralOver(r, r2, c)
  \/ MoreCode(st, st2, c) /\ MoreCode(r, r2, c)

\* Two readers that are alike take the same symbol in the same way.
LEMMA ReadsLikewise ==
  ASSUME NEW u \in Text, NEW v \in Text, NEW c \in Symbol, Plain(Append(u, c)), Plain(v),
         Likewise(Seeing(u), Seeing(v))
  PROVE  /\ Plain(Append(v, c)) /\ Likewise(Seeing(Append(u, c)), Seeing(Append(v, c)))
         /\ TakesLikewise(Seeing(u), Seeing(Append(u, c)), Seeing(v), Seeing(Append(v, c)), c)
<1> DEFINE st == Seeing(u)
           st2 == Seeing(Append(u, c))
           r == Seeing(v)
           r2 == Seeing(Append(v, c))
<1>1. st \in State /\ st2 \in State /\ IsRead(st, st2, c)
  BY PlainCases
<1>2. r \in State /\ r2 \in State /\ r2 = SeenStep(r, c)
  BY SeeingSteps, Appended
<1>3. r2.mode \in {"code", "literal"} => Plain(Append(v, c))
  BY <1>2, PlainSteps
<1>4. /\ st.mode = r.mode
      /\ \/ st.last = r.last
         \/ r.last = "" /\ (st.last = " " \/ st.last = "\n" \/ st.last = ";" \/ st.last = "")
  BY DEF Likewise, Space
<1> SUFFICES /\ r2.mode \in {"code", "literal"} /\ Likewise(st2, r2)
             /\ TakesLikewise(st, st2, r, r2, c)
  BY <1>3
<1> HIDE DEF st, st2, r, r2
<1>5. CASE NewLiteral(st, st2, c)
  <2>1. r.mode = "code" /\ c = "'" /\ r.last # "'"
    BY <1>4, <1>5 DEF NewLiteral
  <2>2. r2.mode = "literal" /\ r2.out = r.out \o <<"'", "'">> /\ r2.last = r.last
    BY <1>2, <2>1, StepToLiteral
  <2>3. NewLiteral(r, r2, c)
    BY <2>1, <2>2 DEF NewLiteral
  <2>4. Likewise(st2, r2)
    BY <1>4, <1>5, <2>2 DEF NewLiteral, Likewise, Space
  <2> QED BY <1>5, <2>2, <2>3, <2>4 DEF TakesLikewise
<1>6. CASE SameLiteral(st, st2, c)
  <2>1. r.mode = "code" /\ c = "'" /\ r.last = "'"
    BY <1>4, <1>6 DEF SameLiteral
  <2>2. r2.mode = "literal" /\ r2.out = r.out /\ r2.last = r.last
    BY <1>2, <2>1, StepToLiteral
  <2>3. SameLiteral(r, r2, c)
    BY <2>1, <2>2 DEF SameLiteral
  <2>4. Likewise(st2, r2)
    BY <1>4, <1>6, <2>2 DEF SameLiteral, Likewise, Space
  <2> QED BY <1>6, <2>2, <2>3, <2>4 DEF TakesLikewise
<1>7. CASE InLiteral(st, st2, c)
  <2>1. r.mode = "literal" /\ c # "'"
    BY <1>4, <1>7 DEF InLiteral
  <2>2. r2 = r
    BY <1>2, <2>1, StepInLiteral
  <2>3. InLiteral(r, r2, c)
    BY <2>1, <2>2 DEF InLiteral
  <2>4. Likewise(st2, r2)
    BY <1>4, <1>7, <2>2 DEF InLiteral, Likewise, Space
  <2> QED BY <1>7, <2>1, <2>2, <2>3, <2>4 DEF TakesLikewise
<1>8. CASE LiteralOver(st, st2, c)
  <2>1. r.mode = "literal" /\ c = "'"
    BY <1>4, <1>8 DEF LiteralOver
  <2>2. r2.mode = "code" /\ r2.last = "'" /\ r2.out = r.out
    BY <1>2, <2>1, StepInLiteral
  <2>3. LiteralOver(r, r2, c)
    BY <2>1, <2>2 DEF LiteralOver
  <2>4. Likewise(st2, r2)
    BY <1>8, <2>2 DEF LiteralOver, Likewise
  <2> QED BY <1>8, <2>2, <2>3, <2>4 DEF TakesLikewise
<1>9. CASE MoreCode(st, st2, c)
  <2>1. r.mode = "code" /\ c # "'" /\ ~(c = "-" /\ r.last = "-") /\ ~(c = "*" /\ r.last = "/")
    BY <1>4, <1>9 DEF MoreCode
  <2>2. r2.mode = "code" /\ r2.out = Append(r.out, c) /\ r2.last = c
    BY <1>2, <2>1, StepInCode
  <2>3. MoreCode(r, r2, c)
    BY <2>1, <2>2 DEF MoreCode
  <2>4. Likewise(st2, r2)
    BY <1>9, <2>2 DEF MoreCode, Likewise
  <2> QED BY <1>9, <2>2, <2>3, <2>4 DEF TakesLikewise
<1> QED BY <1>1, <1>5, <1>6, <1>7, <1>8, <1>9 DEF IsRead

\* A text that str.rstrip leaves as it is.
NoSpaceLast(o) == o = <<>> \/ o[Len(o)] \notin Space

\* A symbol that is no space leaves code that ends with none.
LEMMA EndsInNoSpace ==
  ASSUME NEW v \in Text, NEW c \in Symbol, Plain(Append(v, c)), c \notin Space
  PROVE  NoSpaceLast(Seen(Append(v, c)))
<1> DEFINE w == Append(v, c)
           st == Seeing(v)
           st2 == Seeing(w)
<1>1. /\ w \in Text /\ st.out \in Text /\ IsRead(st, st2, c) /\ EndsWord(st2) /\ Seen(w) = st2.out
  BY PlainCases, Appended, EndsWords DEF Seen
<1> HIDE DEF w, st, st2
<1>2. "'" \notin Space
  BY DEF Space
<1>3. CASE st2.mode = "literal" \/ (st2.mode = "code" /\ st2.last = "'")
  <2>1. st2.out # <<>> /\ st2.out[Len(st2.out)] = "'"
    BY <1>1, <1>3 DEF EndsWord
  <2> QED BY <1>1, <1>2, <2>1 DEF NoSpaceLast, w
<1>4. CASE MoreCode(st, st2, c)
  <2>1. st2.out = Append(st.out, c)
    BY <1>4 DEF MoreCode
  <2>2. Append(st.out, c)[Len(Append(st.out, c))] = c
    BY <1>1, EndOfAppended
  <2> QED BY <1>1, <2>1, <2>2 DEF NoSpaceLast, w
<1>5. st2.mode = "literal" \/ (st2.mode = "code" /\ st2.last = "'") \/ MoreCode(st, st2, c)
  BY <1>1 DEF IsRead, NewLiteral, SameLiteral, InLiteral, LiteralOver
<1> QED BY <1>3, <1>4, <1>5

\* str.rstrip takes the spaces after a text that ends with none.
LEMMA SpacesStripped ==
  ASSUME NEW o \in Text, NEW w \in Text, Spaced(o, w), NoSpaceLast(o)
  PROVE  RightStripped(w) = o
<1>1. Len(o) \in Nat /\ Len(w) \in Nat
  BY LenNat
<1>2. PICK m \in 0..Len(w) : /\ RightStripped(w) = Pre(w, m)
                             /\ \A i \in m + 1..Len(w) : w[i] \in Space
                             /\ m > 0 => w[m] \notin Space
  BY Stripped
<1>3. /\ Len(o) <= Len(w) /\ \A i \in 1..Len(o) : w[i] = o[i]
      /\ \A i \in Len(o) + 1..Len(w) : w[i] \in Space
  BY DEF Spaced
<1>4. m <= Len(o)
  <2> SUFFICES ASSUME m > Len(o) PROVE FALSE
    BY <1>1
  <2>1. m \in Len(o) + 1..Len(w) /\ m > 0
    BY <1>1
  <2> QED BY <1>2, <1>3, <2>1
<1>5. m >= Len(o)
  <2> SUFFICES ASSUME m < Len(o) PROVE FALSE
    BY <1>1
  <2>1. Len(o) \in m + 1..Len(w) /\ Len(o) \in 1..Len(o) /\ Len(o) # 0
    BY <1>1, <1>3
  <2>2. o # <<>>
    BY <2>1
  <2>3. o[Len(o)] \notin Space
    BY <2>2 DEF NoSpaceLast
  <2> QED BY <1>2, <1>3, <2>1, <2>3
<1>6. m = Len(o)
  BY <1>1, <1>4, <1>5
<1>7. Pre(w, m) \in Text /\ Len(Pre(w, m)) = m /\ \A i \in 1..m : Pre(w, m)[i] = w[i]
  BY PrefixOf
<1>8. \A i \in 1..Len(o) : o[i] = Pre(w, m)[i]
  BY <1>3, <1>6, <1>7
<1>9. o = Pre(w, m)
  BY <1>6, <1>7, <1>8, SeqEqual DEF Text
<1> QED BY <1>2, <1>9

\* It strips a text without comments as it strips its code.
LEMMA RightStrippedAsCode ==
  ASSUME NEW p \in Text, Plain(p)
  PROVE  /\ RightStripped(p) \in Text /\ Plain(RightStripped(p))
         /\ Seen(RightStripped(p)) = RightStripped(Seen(p))
<1>1. PICK m \in 0..Len(p) : /\ RightStripped(p) = Pre(p, m)
                             /\ \A i \in m + 1..Len(p) : p[i] \in Space
                             /\ m > 0 => p[m] \notin Space
  BY Stripped
<1>2. Pre(p, m) \in Text /\ Plain(Pre(p, m)) /\ Len(p) \in Nat
  BY PlainPrefix, LenNat
<1>3. Spaced(Seen(Pre(p, m)), Seen(p))
  BY <1>1, CodeBeforeSpaces
<1>4. NoSpaceLast(Seen(Pre(p, m)))
  <2>1. CASE m = 0
    <3>1. PICK e : e = <<>>
      OBVIOUS
    <3>2. Seeing(e).out = e
      BY <3>1, SeeingOfNothing
    <3>3. Pre(p, m) = e
      BY <2>1, <3>1, PrefixOf
    <3> QED BY <3>1, <3>2, <3>3 DEF NoSpaceLast, Seen
  <2>2. CASE m # 0
    <3> DEFINE k == m - 1
    <3>1. k \in 0..Len(p) - 1 /\ k \in 0..Len(p) /\ k + 1 = m /\ m > 0
      BY <1>2, <2>2
    <3> HIDE DEF k
    <3>2. Pre(p, k) \in Text
      BY <3>1, PrefixOf
    <3>3. p[k + 1] \in Symbol /\ Pre(p, k + 1) = Append(Pre(p, k), p[k + 1])
      BY <3>1, NextPrefix
    <3>4. p[m] \in Symbol /\ Pre(p, m) = Append(Pre(p, k), p[m])
      BY <3>1, <3>3
    <3>5. p[m] \notin Space
      BY <1>1, <3>1
    <3> QED BY <1>2, <3>2, <3>4, <3>5, EndsInNoSpace
  <2> QED BY <2>1, <2>2
<1>5. Seen(Pre(p, m)) \in Text /\ Seen(p) \in Text
  BY <1>2, SeenOfSeen
<1>6. RightStripped(Seen(p)) = Seen(Pre(p, m))
  BY <1>3, <1>4, <1>5, SpacesStripped
<1> QED BY <1>1, <1>2, <1>6

\* What is left of a text after its first n symbols.
LEMMA Suffix ==
  ASSUME NEW u \in Text, NEW n \in 0..Len(u)
  PROVE  /\ SubSeq(u, n + 1, Len(u)) \in Text /\ Len(SubSeq(u, n + 1, Len(u))) = Len(u) - n
         /\ \A i \in 1..Len(u) - n : SubSeq(u, n + 1, Len(u))[i] = u[n + i]
<1>1. Len(u) \in Nat
  BY LenNat
<1> QED BY <1>1 DEF Text

\* A text that str.lstrip leaves as it is.
NoSpaceFirst(y) == y = <<>> \/ y[1] \notin Space

\* str.lstrip takes the spaces before a text that starts with none.
LEMMA SpacesBefore ==
  ASSUME NEW sp \in Text, NEW y \in Text, Blank(sp), NoSpaceFirst(y)
  PROVE  LeftStripped(sp \o y) = y
<1> DEFINE w == sp \o y
           n == Len(sp)
           T == {Len(w) + 1} \cup {i \in DOMAIN w : w[i] \notin Space}
<1>1. n \in Nat /\ Len(y) \in Nat /\ DOMAIN sp = 1..n
  BY LenNat DEF Text
<1>2. /\ w \in Text /\ Len(w) = n + Len(y)
      /\ \A i \in 1..n : w[i] = sp[i]
  BY Concatenated
<1>3. \A i \in 1..Len(y) : w[n + i] = y[i]
  BY Concatenated
<1>4. \A i \in 1..n : w[i] \in Space
  BY <1>1, Concatenated DEF Blank
<1>5. DOMAIN w = 1..Len(w)
  BY <1>2 DEF Text
<1> HIDE DEF w, n
<1>6. T \in SUBSET Nat
  BY <1>1, <1>2, <1>5
<1>7. n + 1 \in T
  <2>1. CASE Len(y) = 0
    BY <1>1, <1>2, <2>1
  <2>2. CASE Len(y) # 0
    <3>1. y # <<>>
      BY <2>2
    <3>2. y[1] \notin Space
      BY <3>1 DEF NoSpaceFirst
    <3>3. 1 \in 1..Len(y) /\ n + 1 \in 1..Len(w)
      BY <1>1, <1>2, <2>2
    <3> QED BY <1>3, <1>5, <3>2, <3>3
  <2> QED BY <2>1, <2>2
<1>8. \A i \in T : n + 1 <= i
  <2> SUFFICES ASSUME NEW i \in T, i <= n PROVE FALSE
    BY <1>1, <1>6
  <2>1. i \in 1..n /\ i # Len(w) + 1
    BY <1>1, <1>2, <1>5
  <2> QED BY <1>4, <2>1
<1>9. Min(T) = n + 1
  <2> HIDE DEF T
  <2> QED BY <1>6, <1>7, <1>8, MinIs
<1>10. LeftStripped(w) = SubSeq(w, n + 1, Len(w))
  BY <1>9 DEF LeftStripped
<1> DEFINE z == SubSeq(w, n + 1, Len(w))
<1>11. z \in Text /\ Len(z) = Len(y) /\ \A i \in 1..Len(y) : z[i] = w[n + i]
  <2>1. n \in 0..Len(w) /\ Len(w) - n = Len(y)
    BY <1>1, <1>2
  <2> HIDE DEF z
  <2> QED BY <1>2, <2>1, Suffix DEF z
<1> HIDE DEF z
<1>12. \A i \in 1..Len(y) : z[i] = y[i]
  BY <1>3, <1>11
<1>13. z = y
  BY <1>11, <1>12, SeqEqual DEF Text
<1> QED BY <1>10, <1>13 DEF z, w

\* Every text is some spaces and what str.lstrip leaves.
LEMMA LeftStrips ==
  ASSUME NEW x \in Text
  PROVE  \E sp, y \in Text : x = sp \o y /\ Blank(sp) /\ NoSpaceFirst(y) /\ LeftStripped(x) = y
<1> DEFINE T == {Len(x) + 1} \cup {i \in DOMAIN x : x[i] \notin Space}
           m == Min(T)
           n == m - 1
           sp == Pre(x, n)
           y == SubSeq(x, n + 1, Len(x))
<1>1. Len(x) \in Nat /\ DOMAIN x = 1..Len(x)
  BY LenNat DEF Text
<1>2. T \in SUBSET Nat /\ T # {}
  BY <1>1
<1>3. m \in T /\ \A i \in T : m <= i
  <2> HIDE DEF T
  <2> QED BY <1>2, MinIn
<1>4. m \in 1..Len(x) + 1
  <2> HIDE DEF m
  <2> QED BY <1>1, <1>3
<1>5. \A i \in 1..Len(x) : i < m => x[i] \in Space
  <2> HIDE DEF m
  <2> SUFFICES ASSUME NEW i \in 1..Len(x), i < m, x[i] \notin Space PROVE FALSE
    OBVIOUS
  <2>1. i \in T
    BY <1>1
  <2> QED BY <1>3, <1>4, <2>1
<1>6. m <= Len(x) => x[m] \notin Space
  <2> HIDE DEF m
  <2> QED BY <1>1, <1>3
<1> HIDE DEF m, T
<1>7. n \in 0..Len(x) /\ n + 1 = m
  BY <1>1, <1>4
<1> HIDE DEF n
<1>8. sp \in Text /\ Len(sp) = n /\ \A i \in 1..n : sp[i] = x[i]
  BY <1>7, PrefixOf
<1>9. y \in Text /\ Len(y) = Len(x) - n /\ \A i \in 1..Len(x) - n : y[i] = x[n + i]
  BY <1>7, Suffix
<1>10. x = sp \o y
  <2>1. 1 \in 1..Len(x) + 1 /\ n \in 1 - 1..Len(x) /\ Len(x) \in n..Len(x)
    BY <1>1, <1>7
  <2>2. SubSeq(x, 1, n) \o SubSeq(x, n + 1, Len(x)) = SubSeq(x, 1, Len(x))
    BY <2>1, ConcatAdjacentSubSeq DEF Text
  <2>3. SubSeq(x, 1, Len(x)) = x
    BY PrefixOf DEF Pre
  <2> QED BY <2>2, <2>3 DEF Pre
<1> HIDE DEF sp, y
<1>11. Blank(sp)
  <2>1. DOMAIN sp = 1..n
    BY <1>8 DEF Text
  <2>2. \A i \in 1..n : sp[i] \in Space
    BY <1>1, <1>5, <1>7, <1>8
  <2> QED BY <2>1, <2>2 DEF Blank
<1>12. NoSpaceFirst(y)
  <2>1. CASE m <= Len(x)
    <3>1. 1 \in 1..Len(x) - n
      BY <1>1, <1>7, <2>1
    <3>2. y[1] = x[m]
      BY <1>7, <1>9, <3>1
    <3> QED BY <1>6, <2>1, <3>2 DEF NoSpaceFirst
  <2>2. CASE m > Len(x)
    <3>3. m = Len(x) + 1
      BY <1>1, <1>4, <2>2
    <3>4. n = Len(x)
      <4>1. Len(x) \in Int /\ n \in Int /\ n + 1 = Len(x) + 1
        BY <1>1, <1>7, <3>3
      <4> QED BY <4>1
    <3>1. Len(y) = 0
      BY <1>1, <1>9, <3>4
    <3>2. y = <<>>
      BY <1>9, <3>1 DEF Text
    <3> QED BY <3>2 DEF NoSpaceFirst
  <2> QED BY <1>1, <1>4, <2>1, <2>2
<1>13. LeftStripped(x) = y
  BY <1>8, <1>9, <1>10, <1>11, <1>12, SpacesBefore
<1> QED BY <1>8, <1>9, <1>10, <1>11, <1>12, <1>13

\* The reader takes spaces as they are.
SpacesRead(v) ==
  /\ Plain(v) /\ Seen(v) = v /\ Seeing(v).mode = "code" /\ Seeing(v).last \in Space \cup {""}

\* One more space is taken as it is.
LEMMA SpaceRead ==
  ASSUME NEW v \in Text, NEW c \in Symbol, c \in Space, SpacesRead(v)
  PROVE  SpacesRead(Append(v, c))
<1> DEFINE st == Seeing(v)
           st2 == SeenStep(st, c)
<1>1. /\ st \in State /\ Seeing(Append(v, c)) = st2 /\ Plain(v) /\ st.out = v /\ st.mode = "code"
  BY SeeingSteps DEF SpacesRead, Seen
<1>2. c # "'" /\ c # "-" /\ c # "*"
  BY DEF Space
<1>3. st2.mode = "code" /\ st2.out = Append(st.out, c) /\ st2.last = c
  <2> HIDE DEF st
  <2> QED BY <1>1, <1>2, StepInCode
<1>4. Plain(Append(v, c))
  BY <1>1, <1>3, PlainSteps
<1> HIDE DEF st, st2
<1> QED BY <1>1, <1>3, <1>4 DEF SpacesRead, Seen

\* So are all spaces of a blank text.
LEMMA SeeingSpaces ==
  ASSUME NEW sp \in Text, Blank(sp)
  PROVE  SpacesRead(sp)
<1> DEFINE T == {v \in Text : Blank(v) => SpacesRead(v)}
<1>1. <<>> \in T
  <2>1. PICK e : e = <<>>
    OBVIOUS
  <2>2. /\ e \in Text /\ Plain(e)
        /\ Seeing(e).mode = "code" /\ Seeing(e).last = "" /\ Seeing(e).out = e
    BY <2>1, SeeingOfNothing
  <2>3. SpacesRead(e)
    BY <2>2 DEF SpacesRead, Seen
  <2> QED BY <2>1, <2>2, <2>3
<1>2. \A v \in Text, c \in Symbol : v \in T => Append(v, c) \in T
  <2> SUFFICES ASSUME NEW v \in Text, NEW c \in Symbol, v \in T, Blank(Append(v, c))
               PROVE  SpacesRead(Append(v, c))
    BY Appended
  <2>1. /\ Append(v, c) \in Text /\ Len(Append(v, c)) = Len(v) + 1
        /\ Append(v, c)[Len(v) + 1] = c /\ \A i \in 1..Len(v) : Append(v, c)[i] = v[i]
    BY Appended
  <2>2. Len(v) \in Nat /\ DOMAIN v = 1..Len(v)
    BY LenNat DEF Text
  <2> DEFINE w == Append(v, c)
  <2>3. DOMAIN w = 1..Len(w)
    BY <2>1 DEF Text
  <2> HIDE DEF w
  <2>4. \A i \in 1..Len(w) : w[i] \in Space
    BY <2>3 DEF Blank, w
  <2>5. Len(w) = Len(v) + 1 /\ w[Len(v) + 1] = c /\ \A i \in 1..Len(v) : w[i] = v[i]
    BY <2>1 DEF w
  <2>6. c \in Space /\ \A i \in 1..Len(v) : v[i] \in Space
    BY <2>2, <2>4, <2>5
  <2>7. SpacesRead(v)
    BY <2>2, <2>6 DEF Blank
  <2> QED BY <2>6, <2>7, SpaceRead
<1> HIDE DEF T
<1>3. Text \subseteq T
  BY <1>1, <1>2, TextInduction
<1> QED BY <1>3 DEF T

\* What is appended to the second of two texts is appended to both together.
LEMMA JoinedAppend ==
  ASSUME NEW u \in Text, NEW v \in Text, NEW c \in Symbol
  PROVE  u \o Append(v, c) = Append(u \o v, c)
BY AppendIsConcat, ConcatAssociative, Joined, Short DEF Text

\* What the reader leaves of a text after a prefix sp, and how it goes on, is what it leaves
\* of the text alone.
AsAlone(sp, y) ==
  /\ Plain(y) /\ Likewise(Seeing(sp \o y), Seeing(y)) /\ Seen(sp \o y) = sp \o Seen(y)

\* It does so with one more symbol.
LEMMA AloneOn ==
  ASSUME NEW sp \in Text, NEW y \in Text, NEW c \in Symbol, Plain(Append(sp \o y, c)),
         AsAlone(sp, y)
  PROVE  AsAlone(sp, Append(y, c))
<1> DEFINE u == sp \o y
           st == Seeing(u)
           st2 == Seeing(Append(u, c))
           r == Seeing(y)
           r2 == Seeing(Append(y, c))
<1>1. u \in Text /\ Plain(u) /\ Plain(y) /\ Likewise(st, r) /\ st.out = sp \o r.out
  BY Joined, PlainCases DEF AsAlone, Seen
<1>2. r.out \in Text
  <2>1. Seen(y) \in Text
    BY SeenOfSeen
  <2> QED BY <2>1 DEF Seen
<1>3. sp \o Append(y, c) = Append(u, c)
  BY JoinedAppend
<1> HIDE DEF u
<1>4. Plain(Append(y, c)) /\ Likewise(st2, r2) /\ TakesLikewise(st, st2, r, r2, c)
  BY <1>1, ReadsLikewise DEF u
<1> HIDE DEF st, st2, r, r2
<1>5. st2.out = sp \o r2.out
  <2>1. PICK q : q = "'"
    OBVIOUS
  <2>2. q \in Symbol
    BY <2>1, WrittenTexts
  <2>3. sp \o Append(r.out, c) = Append(sp \o r.out, c)
    BY <1>2, JoinedAppend
  <2>4. sp \o (r.out \o <<"'", "'">>) = (sp \o r.out) \o <<"'", "'">>
    <3> DEFINE a == r.out
               sa == sp \o r.out
    <3>1. a \in Text /\ sa \in Text
      BY <1>2, Joined
    <3>2. sp \o Append(a, q) = Append(sa, q)
      BY <2>2, <3>1, JoinedAppend
    <3>3. Append(a, q) \in Text
      BY <2>2, <3>1, Appended
    <3>4. sp \o Append(Append(a, q), q) = Append(sp \o Append(a, q), q)
      BY <2>2, <3>3, JoinedAppend
    <3>5. /\ a \o <<"'", "'">> = Append(Append(a, q), q)
          /\ sa \o <<"'", "'">> = Append(Append(sa, q), q)
      BY <2>1, <2>2, <3>1, EmptyLiteral
    <3> QED BY <3>2, <3>4, <3>5, Zenon
  <2>5. \/ st2.out = st.out \o <<"'", "'">> /\ r2.out = r.out \o <<"'", "'">>
        \/ st2.out = Append(st.out, c) /\ r2.out = Append(r.out, c)
        \/ st2.out = st.out /\ r2.out = r.out
    BY <1>4 DEF TakesLikewise, NewLiteral, SameLiteral, InLiteral, LiteralOver, MoreCode
  <2> QED BY <1>1, <2>3, <2>4, <2>5, Zenon
<1>6. Likewise(Seeing(sp \o Append(y, c)), Seeing(Append(y, c)))
  BY <1>3, <1>4, Zenon DEF st2, r2
<1>7. Seen(sp \o Append(y, c)) = sp \o Seen(Append(y, c))
  BY <1>3, <1>5, Zenon DEF st2, r2, Seen
<1> QED BY <1>4, <1>6, <1>7 DEF AsAlone

\* So it is after spaces.
LEMMA AloneAfterSpaces ==
  ASSUME NEW sp \in Text, Blank(sp), NEW y \in Text, Plain(sp \o y)
  PROVE  AsAlone(sp, y)
<1> DEFINE T == {v \in Text : Plain(sp \o v) => AsAlone(sp, v)}
<1>1. <<>> \in T
  <2>1. PICK e : e = <<>>
    OBVIOUS
  <2>2. /\ e \in Text /\ Plain(e)
        /\ Seeing(e).mode = "code" /\ Seeing(e).last = "" /\ Seeing(e).out = e
    BY <2>1, SeeingOfNothing
  <2>3. sp \o e = sp
    BY <2>1, NothingMore
  <2>4. SpacesRead(sp)
    BY SeeingSpaces
  <2>5. Likewise(Seeing(sp \o e), Seeing(e))
    BY <2>2, <2>3, <2>4 DEF Likewise, SpacesRead
  <2>6. Seen(sp \o e) = sp \o Seen(e)
    <3>1. Seen(e) = e /\ Seen(sp) = sp
      BY <2>2, <2>4 DEF Seen, SpacesRead
    <3> QED BY <2>3, <3>1, Zenon
  <2>7. AsAlone(sp, e)
    BY <2>2, <2>5, <2>6 DEF AsAlone
  <2> QED BY <2>1, <2>2, <2>7
<1>2. \A v \in Text, c \in Symbol : v \in T => Append(v, c) \in T
  <2> SUFFICES ASSUME NEW v \in Text, NEW c \in Symbol, v \in T, Plain(sp \o Append(v, c))
               PROVE  AsAlone(sp, Append(v, c))
    BY Appended
  <2>1. sp \o Append(v, c) = Append(sp \o v, c) /\ sp \o v \in Text
    BY JoinedAppend, Joined
  <2>2. Plain(Append(sp \o v, c))
    BY <2>1, Zenon
  <2>3. Plain(sp \o v)
    BY <2>1, <2>2, PlainCases
  <2> QED BY <2>2, <2>3, AloneOn
<1> HIDE DEF T
<1>3. Text \subseteq T
  BY <1>1, <1>2, TextInduction
<1> QED BY <1>3 DEF T

\* The code of a text that starts with no space starts with none.
LEMMA CodeNoSpaceFirst ==
  ASSUME NEW y \in Text, Plain(y), NoSpaceFirst(y)
  PROVE  NoSpaceFirst(Seen(y))
<1>1. PICK k \in Nat : Alike(y, Seen(y), k)
  BY AlikeCode
<1> DEFINE z == Seen(y)
<1>2. z \in Text /\ Len(z) \in Nat /\ Len(y) \in Nat
  BY SeenOfSeen, LenNat
<1>3. /\ k <= Len(y) /\ k <= Len(z) /\ \A i \in 1..k : y[i] = z[i]
      /\ \/ k = Len(y) /\ k = Len(z)
         \/ k < Len(y) /\ k < Len(z) /\ IsQuote(y[k + 1]) /\ IsQuote(z[k + 1])
  BY <1>1 DEF Alike
<1> HIDE DEF z
<1>4. CASE Len(z) = 0
  <2>1. z = <<>>
    BY <1>2, <1>4 DEF Text
  <2> QED BY <2>1 DEF NoSpaceFirst, z
<1>5. CASE k = 0 /\ Len(z) # 0
  <2>1. IsQuote(z[1])
    BY <1>3, <1>5
  <2> QED BY <2>1, QuoteIsNone DEF NoSpaceFirst, z
<1>6. CASE k # 0
  <2>1. 1 \in 1..k /\ Len(y) # 0
    BY <1>2, <1>3, <1>6
  <2>2. y # <<>>
    BY <2>1
  <2>3. y[1] \notin Space
    BY <2>2 DEF NoSpaceFirst
  <2> QED BY <1>3, <2>1, <2>3 DEF NoSpaceFirst, z
<1> QED BY <1>4, <1>5, <1>6

\* str.lstrip strips a text without comments as it strips its code.
LEMMA LeftStrippedAsCode ==
  ASSUME NEW x \in Text, Plain(x)
  PROVE  /\ LeftStripped(x) \in Text /\ Plain(LeftStripped(x))
         /\ Seen(LeftStripped(x)) = LeftStripped(Seen(x))
<1>1. PICK sp, y \in Text : x = sp \o y /\ Blank(sp) /\ NoSpaceFirst(y) /\ LeftStripped(x) = y
  BY LeftStrips
<1>2. AsAlone(sp, y)
  BY <1>1, AloneAfterSpaces
<1>3. Plain(y) /\ Seen(x) = sp \o Seen(y)
  BY <1>1, <1>2 DEF AsAlone
<1>4. Seen(y) \in Text /\ NoSpaceFirst(Seen(y))
  BY <1>1, <1>3, SeenOfSeen, CodeNoSpaceFirst
<1>5. LeftStripped(sp \o Seen(y)) = Seen(y)
  BY <1>1, <1>4, SpacesBefore
<1> QED BY <1>1, <1>3, <1>5, Zenon

\* What validate_query judges: a statement without the spaces around it.
LEMMA StrippedAsCode ==
  ASSUME NEW p \in Text, Plain(p), NEW method
  PROVE  ValidStatement(LeftStripped(RightStripped(p)), method)
         <=> ValidStatement(LeftStripped(RightStripped(Seen(p))), method)
<1> DEFINE x == RightStripped(p)
           y == LeftStripped(x)
<1>1. x \in Text /\ Plain(x) /\ Seen(x) = RightStripped(Seen(p))
  BY RightStrippedAsCode
<1> HIDE DEF x
<1>2. y \in Text /\ Plain(y) /\ Seen(y) = LeftStripped(Seen(x))
  BY <1>1, LeftStrippedAsCode
<1> HIDE DEF y
<1>3. ValidStatement(y, method) <=> ValidStatement(Seen(y), method)
  BY <1>2, StatementAsCode
<1> QED BY <1>1, <1>2, <1>3, Zenon DEF x, y

-----------------------------------------------------------------------------
(* Statements *)

\* What _split_statements keeps while it reads.
SplitState == [parts : Seq(Text), current : Text, quoted : BOOLEAN]

\* What it keeps before the first symbol.
SplitStart == [parts |-> <<>>, current |-> <<>>, quoted |-> FALSE]

\* The statements after the end of one.
LEMMA EndedParts ==
  ASSUME NEW a \in SplitState
  PROVE  /\ Ended(a) \in Seq(Text)
         /\ Blank(a.current) => Ended(a) = a.parts
         /\ ~Blank(a.current) => Ended(a) = Append(a.parts, a.current)
BY DEF Ended, SplitState

\* It goes from state to state.
LEMMA Splits ==
  ASSUME NEW a \in SplitState, NEW c \in Symbol
  PROVE  SplitStep(a, c) \in SplitState
<1>1. /\ a.parts \in Seq(Text) /\ a.current \in Text /\ a.quoted \in BOOLEAN
      /\ Append(a.current, c) \in Text /\ <<>> \in Text /\ Ended(a) \in Seq(Text)
  BY Appended, Short, EndedParts DEF SplitState
<1>2. /\ a = [parts |-> a.parts, current |-> a.current, quoted |-> a.quoted]
  BY DEF SplitState
<1> QED BY <1>1, <1>2 DEF SplitStep, SplitState

\* A quote is kept and turns quoted, a semicolon in code ends a statement, and the rest is kept.
LEMMA SplitsSteps ==
  ASSUME NEW a \in SplitState, NEW c \in Symbol
  PROVE  /\ IsQuote(c) => SplitStep(a, c) = [parts |-> a.parts, current |-> Append(a.current, c),
                                             quoted |-> ~a.quoted]
         /\ c = ";" /\ ~a.quoted => SplitStep(a, c) = [parts |-> Ended(a), current |-> <<>>,
                                                       quoted |-> FALSE]
         /\ ~IsQuote(c) /\ (a.quoted \/ c # ";") =>
              SplitStep(a, c) = [parts |-> a.parts, current |-> Append(a.current, c),
                                 quoted |-> a.quoted]
<1>1. /\ a = [parts |-> a.parts, current |-> a.current, quoted |-> a.quoted]
      /\ a.quoted \in BOOLEAN
  BY DEF SplitState
<1> QED BY <1>1 DEF SplitStep, IsQuote

\* It reads symbol by symbol.
LEMMA SplittingOf ==
  ASSUME NEW u \in Text
  PROVE  \E r \in [0..Len(u) -> SplitState] :
           /\ r[0] = SplitStart /\ Splitting(u) = r[Len(u)]
           /\ \A i \in 1..Len(u) : r[i] = SplitStep(r[i - 1], u[i])
<1> DEFINE step == [c \in Symbol |-> [v \in SplitState |-> SplitStep(v, c)]]
           SplitReads(r) == r = [i \in 0..Len(u) |-> IF i = 0 THEN SplitStart
                                               ELSE SplitStep(r[i - 1], u[i])]
           read == CHOOSE r : SplitReads(r)
<1>1. step \in [Symbol -> [SplitState -> SplitState]]
  BY Splits
<1>2. Len(u) \in Nat /\ \A i \in 1..Len(u) : u[i] \in Symbol
  BY PrefixOf
<1>3. SplitStart \in SplitState
  <2>1. <<>> \in Text
    BY WrittenTexts
  <2>2. <<>> \in Seq(Text)
    OBVIOUS
  <2> QED BY <2>1, <2>2 DEF SplitStart, SplitState
<1>4. PICK f \in [0..Len(u) -> SplitState] :
             \A i \in 0..Len(u) : f[i] = IF i = 0 THEN SplitStart ELSE step[u[i]][f[i - 1]]
  <2> HIDE DEF step
  <2> QED BY <1>1, <1>3, Folding
<1>5. \A i \in 0..Len(u) : f[i] = IF i = 0 THEN SplitStart ELSE SplitStep(f[i - 1], u[i])
  <2> SUFFICES ASSUME NEW i \in 0..Len(u), i # 0 PROVE f[i] = SplitStep(f[i - 1], u[i])
    BY <1>4
  <2>1. i - 1 \in 0..Len(u) /\ i \in 1..Len(u)
    BY <1>2
  <2>2. f[i - 1] \in SplitState /\ u[i] \in Symbol
    BY <1>2, <2>1
  <2>3. f[i] = step[u[i]][f[i - 1]]
    BY <1>4
  <2> QED BY <2>2, <2>3
<1>6. SplitReads(f)
  BY <1>5
<1>7. SplitReads(read)
  <2> HIDE DEF SplitReads
  <2> QED BY <1>6
<1>8. read[0] = SplitStart /\ \A i \in 1..Len(u) : read[i] = SplitStep(read[i - 1], u[i])
  <2> HIDE DEF read
  <2> QED BY <1>2, <1>7
<1>9. \A i \in 0..Len(u) : read[i] = f[i]
  <2> DEFINE T == {i \in 0..Len(u) : read[i] = f[i]}
  <2>1. 0 \in T
    <3> HIDE DEF read
    <3> QED BY <1>2, <1>5, <1>8
  <2>2. ASSUME NEW i \in 0..Len(u) - 1, i \in T PROVE i + 1 \in T
    <3> HIDE DEF read
    <3>1. i + 1 \in 1..Len(u) /\ i + 1 # 0 /\ (i + 1) - 1 = i
      BY <1>2
    <3> QED BY <1>2, <1>5, <1>8, <2>2, <3>1
  <2> HIDE DEF T
  <2>3. 0..Len(u) \subseteq T
    BY <1>2, <2>1, <2>2, Steps
  <2> QED BY <2>3 DEF T
<1>10. Splitting(u) = read[Len(u)]
  BY DEF Splitting, SplitStart
<1>11. Splitting(u) = f[Len(u)]
  <2> HIDE DEF read
  <2> QED BY <1>2, <1>9, <1>10
<1>12. f[0] = SplitStart /\ \A i \in 1..Len(u) : f[i] = SplitStep(f[i - 1], u[i])
  BY <1>2, <1>5
<1> QED BY <1>11, <1>12

\* What it keeps after one more symbol.
LEMMA SplittingSteps ==
  ASSUME NEW u \in Text
  PROVE  /\ Splitting(u) \in SplitState /\ Splitting(<<>>) = SplitStart
         /\ \A c \in Symbol : Splitting(Append(u, c)) = SplitStep(Splitting(u), c)
<1>1. PICK r \in [0..Len(u) -> SplitState] :
             /\ r[0] = SplitStart /\ Splitting(u) = r[Len(u)]
             /\ \A i \in 1..Len(u) : r[i] = SplitStep(r[i - 1], u[i])
  BY SplittingOf
<1>2. Len(u) \in Nat /\ \A i \in 1..Len(u) : u[i] \in Symbol
  BY PrefixOf
<1>3. Splitting(u) \in SplitState
  BY <1>1, <1>2
<1>4. Splitting(<<>>) = SplitStart
  <2>1. <<>> \in Text /\ Len(<<>>) = 0
    BY WrittenTexts
  <2> QED BY <2>1, SplittingOf
<1>5. ASSUME NEW c \in Symbol PROVE Splitting(Append(u, c)) = SplitStep(Splitting(u), c)
  <2> DEFINE w == Append(u, c)
  <2>1. w \in Text /\ Len(w) = Len(u) + 1 /\ w[Len(u) + 1] = c /\ \A i \in 1..Len(u) : w[i] = u[i]
    BY Appended
  <2> HIDE DEF w
  <2>2. PICK q \in [0..Len(w) -> SplitState] :
               /\ q[0] = SplitStart /\ Splitting(w) = q[Len(w)]
               /\ \A i \in 1..Len(w) : q[i] = SplitStep(q[i - 1], w[i])
    BY <2>1, SplittingOf
  <2> DEFINE T == {i \in 0..Len(u) : r[i] = q[i]}
  <2>3. 0 \in T
    BY <1>1, <1>2, <2>2
  <2>4. ASSUME NEW i \in 0..Len(u) - 1, i \in T PROVE i + 1 \in T
    <3>1. i + 1 \in 1..Len(u) /\ i + 1 \in 1..Len(w) /\ (i + 1) - 1 = i
      BY <1>2, <2>1
    <3> QED BY <1>1, <2>1, <2>2, <2>4, <3>1
  <2>5. r[Len(u)] = q[Len(u)]
    <3> HIDE DEF T
    <3>1. 0..Len(u) \subseteq T
      BY <1>2, <2>3, <2>4, Steps
    <3> QED BY <1>2, <3>1 DEF T
  <2>6. Len(w) \in 1..Len(w) /\ Len(w) - 1 = Len(u)
    BY <1>2, <2>1
  <2>7. Splitting(w) = SplitStep(Splitting(u), c)
    BY <1>1, <2>1, <2>2, <2>5, <2>6
  <2> QED BY <2>7 DEF w
<1> QED BY <1>3, <1>4, <1>5

\* Statements without comments, and the code of each.
PartsAlike(p, q) ==
  /\ p \in Seq(Text) /\ q \in Seq(Text) /\ Len(p) = Len(q)
  /\ \A i \in 1..Len(p) : Plain(p[i]) /\ q[i] = Seen(p[i])

\* They stay so with one more statement.
LEMMA OnePartMore ==
  ASSUME NEW p, NEW q, PartsAlike(p, q), NEW x \in Text, Plain(x), NEW y \in Text, y = Seen(x)
  PROVE  PartsAlike(Append(p, x), Append(q, y))
<1>1. p \in Seq(Text) /\ q \in Seq(Text) /\ Len(p) = Len(q) /\ Len(p) \in Nat
  BY DEF PartsAlike
<1> DEFINE p2 == Append(p, x)
           q2 == Append(q, y)
<1>2. /\ p2 \in Seq(Text) /\ Len(p2) = Len(p) + 1 /\ p2[Len(p) + 1] = x
      /\ \A i \in 1..Len(p) : p2[i] = p[i]
  BY <1>1
<1>3. /\ q2 \in Seq(Text) /\ Len(q2) = Len(q) + 1 /\ q2[Len(q) + 1] = y
      /\ \A i \in 1..Len(q) : q2[i] = q[i]
  BY <1>1
<1> HIDE DEF p2, q2
<1>4. ASSUME NEW i \in 1..Len(p2) PROVE Plain(p2[i]) /\ q2[i] = Seen(p2[i])
  <2>1. CASE i = Len(p) + 1
    BY <1>1, <1>2, <1>3, <2>1
  <2>2. CASE i # Len(p) + 1
    <3>1. i \in 1..Len(p)
      BY <1>1, <1>2, <2>2
    <3> QED BY <1>1, <1>2, <1>3, <3>1 DEF PartsAlike
  <2> QED BY <2>1, <2>2
<1>5. PartsAlike(p2, q2)
  BY <1>1, <1>2, <1>3, <1>4 DEF PartsAlike
<1> QED BY <1>5 DEF p2, q2

\* A statement that was read is blank if its code is.
LEMMA EndedAlike ==
  ASSUME NEW a \in SplitState, NEW b \in SplitState, PartsAlike(a.parts, b.parts),
         Plain(a.current), b.current = Seen(a.current)
  PROVE  PartsAlike(Ended(a), Ended(b))
<1>1. a.current \in Text /\ b.current \in Text
  BY DEF SplitState
<1>2. Blank(a.current) <=> Blank(b.current)
  BY <1>1, StartsAsCode
<1>3. CASE Blank(a.current)
  BY <1>2, <1>3 DEF Ended
<1>4. CASE ~Blank(a.current)
  <2>1. Ended(a) = Append(a.parts, a.current) /\ Ended(b) = Append(b.parts, b.current)
    BY <1>2, <1>4 DEF Ended
  <2> QED BY <1>1, <2>1, OnePartMore
<1> QED BY <1>3, <1>4

\* A text without comments is split as its code is: the reader is st after it, a is what was
\* read of the text, and b what was read of the code.
Together(st, a, b) ==
  /\ a.quoted <=> st.mode = "literal"
  /\ ~b.quoted
  /\ Plain(a.current) /\ b.current = Seen(a.current) /\ Likewise(st, Seeing(a.current))
  /\ PartsAlike(a.parts, b.parts)

\* They do so after a symbol that ends no statement.
LEMMA InOneStatement ==
  ASSUME NEW st, NEW st2, NEW a \in SplitState, NEW b \in SplitState, NEW b2 \in SplitState,
         NEW c \in Symbol, Together(st, a, b), Plain(Append(a.current, c)),
         Likewise(st2, Seeing(Append(a.current, c))),
         NEW quoted \in BOOLEAN, quoted <=> st2.mode = "literal",
         SplitStep(a, c) = [parts |-> a.parts, current |-> Append(a.current, c), quoted |-> quoted],
         ~b2.quoted, b2.parts = b.parts, b2.current = Seen(Append(a.current, c))
  PROVE  Together(st2, SplitStep(a, c), b2)
<1>1. PartsAlike(a.parts, b2.parts)
  BY DEF Together
<1> DEFINE a2 == SplitStep(a, c)
<1>2. a2.parts = a.parts /\ a2.current = Append(a.current, c) /\ a2.quoted = quoted
  OBVIOUS
<1> HIDE DEF a2
<1>3. Together(st2, a2, b2)
  BY <1>1, <1>2 DEF Together
<1> QED BY <1>3 DEF a2

\* The loop of _split_statements goes on as the reader does.
LEMMA SplitsTogether ==
  ASSUME NEW u \in Text, NEW c \in Symbol, Plain(Append(u, c)),
         Together(Seeing(u), Splitting(u), Splitting(Seen(u)))
  PROVE  Together(Seeing(Append(u, c)), Splitting(Append(u, c)), Splitting(Seen(Append(u, c))))
<1> DEFINE w == Append(u, c)
           st == Seeing(u)
           st2 == Seeing(w)
           a == Splitting(u)
           b == Splitting(Seen(u))
           b2 == Splitting(Seen(w))
           r == Seeing(a.current)
           r2 == Seeing(Append(a.current, c))
<1>1. /\ w \in Text /\ Seen(u) \in Text /\ Seen(w) \in Text /\ st.out = Seen(u) /\ st2.out = Seen(w)
  BY Appended, SeenOfSeen DEF Seen
<1>2. /\ a \in SplitState /\ b \in SplitState /\ b2 \in SplitState
      /\ Splitting(w) = SplitStep(a, c)
  BY <1>1, SplittingSteps
<1>3. /\ a.current \in Text /\ a.quoted \in BOOLEAN /\ b.quoted \in BOOLEAN
  BY <1>2 DEF SplitState
<1>4. /\ a.quoted <=> st.mode = "literal"
      /\ ~b.quoted
      /\ Plain(a.current) /\ b.current = Seen(a.current) /\ Likewise(st, r)
      /\ PartsAlike(a.parts, b.parts)
  BY DEF Together
<1>5. /\ Plain(Append(a.current, c)) /\ Likewise(st2, r2) /\ TakesLikewise(st, st2, r, r2, c)
  BY <1>3, <1>4, ReadsLikewise
<1>6. r.out = Seen(a.current) /\ r2.out = Seen(Append(a.current, c)) /\ r.out \in Text
  BY <1>3, SeenOfSeen DEF Seen
<1>7. st2.out = st.out => b2 = b
  BY <1>1
<1>8. st2.out = Append(st.out, c) => b2 = SplitStep(b, c)
  BY <1>1, SplittingSteps
<1>9. Together(st, a, b)
  OBVIOUS
<1> SUFFICES Together(st2, SplitStep(a, c), b2)
  BY <1>2
<1> HIDE DEF w, st, st2, a, b, b2, r, r2
<1>10. CASE NewLiteral(st, st2, c) /\ NewLiteral(r, r2, c)
  <2>1. IsQuote(c) /\ ~a.quoted /\ st2.mode = "literal"
    BY <1>4, <1>10 DEF NewLiteral, IsQuote
  <2>2. SplitStep(a, c) = [parts |-> a.parts, current |-> Append(a.current, c), quoted |-> TRUE]
    BY <1>2, <2>1, SplitsSteps
  <2>3. /\ Seen(w) = Append(Append(Seen(u), c), c) /\ Append(Seen(u), c) \in Text
        /\ r2.out = Append(Append(r.out, c), c)
    <3>1. Seen(w) = Seen(u) \o <<"'", "'">> /\ r2.out = r.out \o <<"'", "'">> /\ c = "'"
      BY <1>1, <1>10 DEF NewLiteral
    <3>2. Seen(u) \o <<"'", "'">> = Append(Append(Seen(u), c), c) /\ Append(Seen(u), c) \in Text
      BY <1>1, <3>1, EmptyLiteral
    <3>3. r.out \o <<"'", "'">> = Append(Append(r.out, c), c)
      BY <1>6, <3>1, EmptyLiteral
    <3> QED BY <3>1, <3>2, <3>3, Zenon
  <2>4. b2 = SplitStep(SplitStep(b, c), c)
    <3> DEFINE x == Append(Seen(u), c)
    <3>1. Splitting(x) = SplitStep(Splitting(Seen(u)), c)
      <4> DEFINE k == Seen(u)
      <4>1. k \in Text
        BY <1>1
      <4> HIDE DEF k
      <4>2. Splitting(Append(k, c)) = SplitStep(Splitting(k), c)
        BY <4>1, SplittingSteps
      <4> QED BY <4>2, Zenon DEF k, x
    <3>2. x \in Text
      BY <2>3, Zenon DEF x
    <3>3. Splitting(Append(x, c)) = SplitStep(Splitting(x), c)
      <4> HIDE DEF x
      <4> QED BY <3>2, SplittingSteps
    <3> QED BY <2>3, <3>1, <3>3, Zenon DEF b, b2, x
  <2>5. SplitStep(b, c) = [parts |-> b.parts, current |-> Append(b.current, c), quoted |-> TRUE]
    BY <1>2, <1>3, <1>4, <2>1, SplitsSteps
  <2> DEFINE d == SplitStep(b, c)
  <2>6. d \in SplitState
    BY <1>2, Splits
  <2>12. d.parts = b.parts /\ d.current = Append(b.current, c) /\ d.quoted = TRUE
    BY <2>5
  <2> HIDE DEF d
  <2>7. SplitStep(d, c) = [parts |-> d.parts, current |-> Append(d.current, c), quoted |-> FALSE]
    BY <2>1, <2>6, <2>12, SplitsSteps
  <2>8. /\ b2.parts = b.parts /\ b2.current = Append(Append(b.current, c), c) /\ ~b2.quoted
    BY <2>4, <2>12, <2>7 DEF d
  <2>9. b2.current = Seen(Append(a.current, c))
    BY <1>4, <1>6, <2>3, <2>8
  <2> QED BY <1>2, <1>5, <1>9, <2>1, <2>2, <2>8, <2>9, InOneStatement DEF r2
<1>11. CASE SameLiteral(st, st2, c) /\ SameLiteral(r, r2, c)
  <2>1. /\ IsQuote(c) /\ ~a.quoted /\ st2.mode = "literal" /\ st2.out = st.out /\ r2.out = r.out
    BY <1>4, <1>11 DEF SameLiteral, IsQuote
  <2>2. SplitStep(a, c) = [parts |-> a.parts, current |-> Append(a.current, c), quoted |-> TRUE]
    BY <1>2, <2>1, SplitsSteps
  <2>3. b2 = b /\ b2.current = Seen(Append(a.current, c))
    BY <1>4, <1>6, <1>7, <2>1
  <2> QED BY <1>2, <1>4, <1>5, <1>9, <2>1, <2>2, <2>3, InOneStatement DEF r2
<1>12. CASE InLiteral(st, st2, c) /\ InLiteral(r, r2, c)
  <2>1. /\ ~IsQuote(c) /\ a.quoted /\ st2.mode = "literal" /\ st2.out = st.out /\ r2.out = r.out
    BY <1>4, <1>12 DEF InLiteral, IsQuote
  <2>2. SplitStep(a, c) = [parts |-> a.parts, current |-> Append(a.current, c), quoted |-> TRUE]
    BY <1>2, <1>3, <2>1, SplitsSteps
  <2>3. b2 = b /\ b2.current = Seen(Append(a.current, c))
    BY <1>4, <1>6, <1>7, <2>1
  <2> QED BY <1>2, <1>4, <1>5, <1>9, <2>1, <2>2, <2>3, InOneStatement DEF r2
<1>13. CASE LiteralOver(st, st2, c) /\ LiteralOver(r, r2, c)
  <2>1. /\ IsQuote(c) /\ a.quoted /\ ~(st2.mode = "literal") /\ st2.out = st.out /\ r2.out = r.out
    BY <1>4, <1>13 DEF LiteralOver, IsQuote
  <2>2. SplitStep(a, c) = [parts |-> a.parts, current |-> Append(a.current, c), quoted |-> FALSE]
    BY <1>2, <1>3, <2>1, SplitsSteps
  <2>3. b2 = b /\ b2.current = Seen(Append(a.current, c))
    BY <1>4, <1>6, <1>7, <2>1
  <2> QED BY <1>2, <1>4, <1>5, <1>9, <2>1, <2>2, <2>3, InOneStatement DEF r2
<1>14. CASE MoreCode(st, st2, c) /\ MoreCode(r, r2, c) /\ c # ";"
  <2>1. /\ ~IsQuote(c) /\ ~a.quoted /\ ~(st2.mode = "literal") /\ st2.out = Append(st.out, c)
        /\ r2.out = Append(r.out, c)
    BY <1>4, <1>14 DEF MoreCode, IsQuote
  <2>2. SplitStep(a, c) = [parts |-> a.parts, current |-> Append(a.current, c), quoted |-> FALSE]
    BY <1>2, <1>3, <1>14, <2>1, SplitsSteps
  <2>3. b2 = [parts |-> b.parts, current |-> Append(b.current, c), quoted |-> FALSE]
    BY <1>2, <1>3, <1>4, <1>8, <1>14, <2>1, SplitsSteps
  <2>4. ~b2.quoted /\ b2.parts = b.parts /\ b2.current = Append(b.current, c)
    BY <2>3
  <2>5. b2.current = Seen(Append(a.current, c))
    BY <1>4, <1>6, <2>1, <2>4
  <2> QED BY <1>2, <1>5, <1>9, <2>1, <2>2, <2>4, <2>5, InOneStatement DEF r2
<1>15. CASE MoreCode(st, st2, c) /\ c = ";"
  <2>1. /\ ~a.quoted /\ st2.mode = "code" /\ st2.last = ";" /\ st2.out = Append(st.out, c)
    BY <1>4, <1>15 DEF MoreCode
  <2>2. PICK e : e = <<>>
    OBVIOUS
  <2>3. Plain(e) /\ Seeing(e).mode = "code" /\ Seeing(e).last = "" /\ Seen(e) = e
    BY <2>2, SeeingOfNothing DEF Seen
  <2>4. SplitStep(a, c) = [parts |-> Ended(a), current |-> e, quoted |-> FALSE]
    BY <1>2, <1>15, <2>1, <2>2, SplitsSteps
  <2>5. b2 = [parts |-> Ended(b), current |-> e, quoted |-> FALSE]
    BY <1>2, <1>4, <1>8, <1>15, <2>1, <2>2, SplitsSteps
  <2>6. PartsAlike(Ended(a), Ended(b))
    BY <1>2, <1>4, EndedAlike
  <2>7. Likewise(st2, Seeing(e))
    BY <2>1, <2>3 DEF Likewise
  <2>8. ~(st2.mode = "literal")
    BY <2>1
  <2>9. b2.parts = Ended(b) /\ b2.current = e /\ ~b2.quoted
    BY <2>5
  <2> DEFINE a2 == SplitStep(a, c)
  <2>10. a2.parts = Ended(a) /\ a2.current = e /\ ~a2.quoted
    BY <2>4
  <2> HIDE DEF a2
  <2>11. Together(st2, a2, b2)
    BY <2>3, <2>6, <2>7, <2>8, <2>9, <2>10 DEF Together
  <2> QED BY <2>11 DEF a2
<1> QED BY <1>5, <1>10, <1>11, <1>12, <1>13, <1>14, <1>15 DEF TakesLikewise

\* A text without comments is split into statements whose code is what its code is split into.
LEMMA SplitAsCode ==
  ASSUME NEW u \in Text, Plain(u)
  PROVE  PartsAlike(SplitStatements(u), SplitStatements(Seen(u)))
<1> DEFINE T == {v \in Text : Plain(v) => Together(Seeing(v), Splitting(v), Splitting(Seen(v)))}
<1>1. <<>> \in T
  <2>1. PICK e : e = <<>>
    OBVIOUS
  <2>2. e \in Text /\ Plain(e) /\ Seeing(e).mode = "code" /\ Seeing(e).out = e
    BY <2>1, SeeingOfNothing
  <2>3. Seen(e) = e
    BY <2>2 DEF Seen
  <2> DEFINE a == Splitting(e)
  <2>4. a = SplitStart
    BY <2>1, <2>2, SplittingSteps
  <2>5. a.parts = <<>> /\ a.current = e /\ a.quoted = FALSE
    BY <2>1, <2>4 DEF SplitStart
  <2> HIDE DEF a
  <2>6. PartsAlike(a.parts, a.parts)
    BY <2>5 DEF PartsAlike
  <2>7. Likewise(Seeing(e), Seeing(e))
    BY DEF Likewise
  <2>8. ~(Seeing(e).mode = "literal")
    BY <2>2
  <2>9. Together(Seeing(e), a, a)
    BY <2>2, <2>3, <2>5, <2>6, <2>7, <2>8 DEF Together
  <2>10. e \in T
    BY <2>2, <2>3, <2>9, Zenon DEF a
  <2> QED BY <2>1, <2>10, Zenon
<1>2. ASSUME NEW v \in Text, NEW c \in Symbol, v \in T PROVE Append(v, c) \in T
  <2>1. Append(v, c) \in Text
    BY Appended
  <2>2. ASSUME Plain(Append(v, c))
        PROVE  Together(Seeing(Append(v, c)), Splitting(Append(v, c)),
                        Splitting(Seen(Append(v, c))))
    <3>1. Plain(v)
      BY <2>2, PlainSteps
    <3>2. Together(Seeing(v), Splitting(v), Splitting(Seen(v)))
      BY <1>2, <3>1
    <3> QED BY <2>2, <3>2, SplitsTogether
  <2> QED BY <2>1, <2>2
<1> HIDE DEF T
<1>3. u \in T
  BY <1>1, <1>2, TextInduction
<1>4. Together(Seeing(u), Splitting(u), Splitting(Seen(u)))
  BY <1>3 DEF T
<1>5. Seen(u) \in Text
  BY SeenOfSeen
<1> DEFINE a == Splitting(u)
           b == Splitting(Seen(u))
<1>6. a \in SplitState /\ b \in SplitState
  BY <1>5, SplittingSteps
<1>7. PartsAlike(a.parts, b.parts) /\ Plain(a.current) /\ b.current = Seen(a.current)
  BY <1>4 DEF Together
<1> HIDE DEF a, b
<1>8. PartsAlike(Ended(a), Ended(b))
  BY <1>6, <1>7, EndedAlike
<1> QED BY <1>8, Zenon DEF a, b, SplitStatements

\* validate_query (query_service.py:641-678) judges a text as it judges what is seen of it.
LEMMA VerdictOnSeen ==
  \A s \in Text : \A method : ValidQuery(s, method) <=> ValidQuery(Seen(s), method)
<1> SUFFICES ASSUME NEW s \in Text, NEW method
             PROVE  ValidQuery(s, method) <=> ValidQuery(Seen(s), method)
  OBVIOUS
<1> DEFINE u == StripComments(s)
           v == Seen(s)
           p == SplitStatements(u)
           q == SplitStatements(v)
<1>1. u \in Text /\ Plain(u) /\ Seen(u) = v
  BY CommentsStripped
<1>2. v \in Text /\ Plain(v)
  BY SeenOfSeen
<1>3. StripComments(v) = v
  <2> HIDE DEF v
  <2> QED BY <1>2, CommentsStripped
<1>4. PartsAlike(p, q)
  <2> HIDE DEF u, v
  <2>1. PartsAlike(SplitStatements(u), SplitStatements(Seen(u)))
    BY <1>1, SplitAsCode
  <2> QED BY <1>1, <2>1, Zenon
<1>5. /\ ValidQuery(s, method) <=>
           Len(p) = 1 /\ ValidStatement(LeftStripped(RightStripped(p[1])), method)
      /\ ValidQuery(v, method) <=>
           Len(q) = 1 /\ ValidStatement(LeftStripped(RightStripped(q[1])), method)
  BY <1>3, Zenon DEF ValidQuery
<1> HIDE DEF u, v, p, q
<1>6. CASE Len(p) = 1
  <2>1. Len(q) = 1 /\ p[1] \in Text /\ Plain(p[1]) /\ q[1] = Seen(p[1])
    <3>1. p \in Seq(Text) /\ Len(q) = 1
      BY <1>4, <1>6 DEF PartsAlike
    <3>2. 1 \in 1..Len(p)
      BY <1>6
    <3>3. p[1] \in Text
      BY <3>1, <3>2
    <3>4. Plain(p[1]) /\ q[1] = Seen(p[1])
      BY <1>4, <3>2 DEF PartsAlike
    <3> QED BY <3>1, <3>3, <3>4
  <2>2. ValidStatement(LeftStripped(RightStripped(p[1])), method)
        <=> ValidStatement(LeftStripped(RightStripped(Seen(p[1]))), method)
    BY <2>1, StrippedAsCode
  <2>3. ValidQuery(s, method) <=> ValidQuery(v, method)
    BY <1>5, <1>6, <2>1, <2>2, Zenon
  <2> QED BY <2>3 DEF v
<1>7. CASE Len(p) # 1
  <2>1. Len(q) # 1
    BY <1>4, <1>7 DEF PartsAlike
  <2>2. ValidQuery(s, method) <=> ValidQuery(v, method)
    BY <1>5, <1>7, <2>1
  <2> QED BY <2>2 DEF v
<1> QED BY <1>6, <1>7

-----------------------------------------------------------------------------
(* The reader of SQL, which knows delimited identifiers, sees the same in regular texts *)

\* What the reader knows after a prefix, as of the reader of the policy.
CodeState ==
  {st \in [mode : {"code", "literal", "line", "block", "name"}, out : Text,
           last : Symbol \cup {""}, odd : BOOLEAN] :
     st.mode = "code" /\ st.last \notin {"", "'"} =>
       st.out # <<>> /\ st.out[Len(st.out)] = st.last}

\* The reader before the first symbol.
CodeStart == [mode |-> "code", out |-> <<>>, last |-> "", odd |-> FALSE]

\* A step of the reader, by what it reads in which mode.
LEMMA CodeStepping ==
  ASSUME NEW st \in CodeState, NEW c \in Symbol
  PROVE  CodeStep(st, c) \in CodeState
<1>1. /\ st.mode \in {"code", "literal", "line", "block", "name"} /\ st.out \in Text
      /\ st.last \in Symbol \cup {""} /\ st.odd \in BOOLEAN
      /\ st = [mode |-> st.mode, out |-> st.out, last |-> st.last, odd |-> st.odd]
  BY DEF CodeState
<1>2. /\ Append(st.out, c) \in Text /\ Append(st.out, c) # <<>>
      /\ Append(st.out, c)[Len(Append(st.out, c))] = c
  BY <1>1, EndOfAppended
<1>3. st.out # <<>> => Front(st.out) \in Text
  BY <1>1, Fronts
<1>4. st.mode = "code" /\ st.last \in {"-", "/"} => Append(Front(st.out), " ") \in Text
  <2>1. st.mode = "code" /\ st.last \in {"-", "/"} => Front(st.out) \in Text
    BY <1>3 DEF CodeState
  <2> QED BY <2>1, WrittenTexts, Appended
<1>5. st.out \o <<"'", "'">> \in Text /\ "'" \in Symbol
  BY <1>1, WrittenTexts, Joined
<1>6. (st.odd \/ Opens(st.last, c)) \in BOOLEAN
  BY <1>1, Zenon DEF Opens
<1>7. CodeStep(st, c) \in [mode : {"code", "literal", "line", "block", "name"}, out : Text,
                            last : Symbol \cup {""}, odd : BOOLEAN]
  BY <1>1, <1>2, <1>4, <1>5, <1>6 DEF CodeStep
<1> QED BY <1>1, <1>2, <1>7 DEF CodeStep, CodeState

\* The reader goes from state to state.
LEMMA ReadingOf ==
  ASSUME NEW u \in Text
  PROVE  \E r \in [0..Len(u) -> CodeState] :
           /\ r[0] = CodeStart /\ Reading(u) = r[Len(u)]
           /\ \A i \in 1..Len(u) : r[i] = CodeStep(r[i - 1], u[i])
<1> DEFINE step == [c \in Symbol |-> [v \in CodeState |-> CodeStep(v, c)]]
           Reads(r) == r = [i \in 0..Len(u) |-> IF i = 0 THEN CodeStart
                                               ELSE CodeStep(r[i - 1], u[i])]
           read == CHOOSE r : Reads(r)
<1>1. step \in [Symbol -> [CodeState -> CodeState]]
  BY CodeStepping
<1>2. Len(u) \in Nat /\ \A i \in 1..Len(u) : u[i] \in Symbol
  BY PrefixOf
<1>3. CodeStart \in CodeState
  BY WrittenTexts DEF CodeStart, CodeState
<1>4. PICK f \in [0..Len(u) -> CodeState] :
             \A i \in 0..Len(u) : f[i] = IF i = 0 THEN CodeStart ELSE step[u[i]][f[i - 1]]
  <2> HIDE DEF step
  <2> QED BY <1>1, <1>3, Folding
<1>5. \A i \in 0..Len(u) : f[i] = IF i = 0 THEN CodeStart ELSE CodeStep(f[i - 1], u[i])
  <2> SUFFICES ASSUME NEW i \in 0..Len(u), i # 0 PROVE f[i] = CodeStep(f[i - 1], u[i])
    BY <1>4
  <2>1. i - 1 \in 0..Len(u) /\ i \in 1..Len(u)
    BY <1>2
  <2>2. f[i - 1] \in CodeState /\ u[i] \in Symbol
    BY <1>2, <2>1
  <2>3. f[i] = step[u[i]][f[i - 1]]
    BY <1>4
  <2> QED BY <2>2, <2>3
<1>6. Reads(f)
  BY <1>5
<1>7. Reads(read)
  <2> HIDE DEF Reads
  <2> QED BY <1>6
<1>8. read[0] = CodeStart /\ \A i \in 1..Len(u) : read[i] = CodeStep(read[i - 1], u[i])
  <2> HIDE DEF read
  <2> QED BY <1>2, <1>7
<1>9. \A i \in 0..Len(u) : read[i] = f[i]
  <2> DEFINE T == {i \in 0..Len(u) : read[i] = f[i]}
  <2>1. 0 \in T
    <3> HIDE DEF read
    <3> QED BY <1>2, <1>5, <1>8
  <2>2. ASSUME NEW i \in 0..Len(u) - 1, i \in T PROVE i + 1 \in T
    <3> HIDE DEF read
    <3>1. i + 1 \in 1..Len(u) /\ i + 1 # 0 /\ (i + 1) - 1 = i
      BY <1>2
    <3> QED BY <1>2, <1>5, <1>8, <2>2, <3>1
  <2> HIDE DEF T
  <2>3. 0..Len(u) \subseteq T
    BY <1>2, <2>1, <2>2, Steps
  <2> QED BY <2>3 DEF T
<1>10. Reading(u) = read[Len(u)]
  BY DEF Reading, CodeStart
<1>11. Reading(u) = f[Len(u)]
  <2> HIDE DEF read
  <2> QED BY <1>2, <1>9, <1>10
<1>12. f[0] = CodeStart /\ \A i \in 1..Len(u) : f[i] = CodeStep(f[i - 1], u[i])
  BY <1>2, <1>5
<1> QED BY <1>11, <1>12

\* What both readers know: the same, until a literal or a comment would begin in a name.
InStep(st, r) ==
  st.odd \/ /\ st.out = r.out /\ st.last = r.last
            /\ st.mode = "name" => r.mode = "code"
            /\ st.mode # "name" => r.mode = st.mode

\* They still do so after one more symbol.
LEMMA StaysInStep ==
  ASSUME NEW st \in CodeState, NEW r \in State, NEW c \in Symbol, InStep(st, r)
  PROVE  InStep(CodeStep(st, c), SeenStep(r, c))
<1>1. /\ st.mode \in {"code", "literal", "line", "block", "name"} /\ st.odd \in BOOLEAN
      /\ st = [mode |-> st.mode, out |-> st.out, last |-> st.last, odd |-> st.odd]
  BY DEF CodeState
<1>2. r = [mode |-> r.mode, out |-> r.out, last |-> r.last]
  BY DEF State
<1> DEFINE st2 == CodeStep(st, c)
           r2 == SeenStep(r, c)
<1>3. st.odd => st2.odd
  BY <1>1 DEF CodeStep
<1>4. CASE st.odd
  <2> HIDE DEF st2, r2
  <2>1. InStep(st2, r2)
    BY <1>3, <1>4 DEF InStep
  <2> QED BY <2>1 DEF st2, r2
<1>5. CASE ~st.odd /\ st.mode = "name"
  <2>1. r.mode = "code" /\ r.out = st.out /\ r.last = st.last
    BY <1>5 DEF InStep
  <2>2. /\ st2.mode = IF c = DoubleQuote THEN "code" ELSE "name"
        /\ st2.out = Append(st.out, c) /\ st2.last = c /\ (st2.odd <=> Opens(st.last, c))
    BY <1>1, <1>5 DEF CodeStep
  <2>3. ~Opens(r.last, c) => r2.mode = "code" /\ r2.out = Append(r.out, c) /\ r2.last = c
    BY <1>2, <2>1 DEF SeenStep, Opens
  <2> HIDE DEF st2, r2
  <2>4. InStep(st2, r2)
    BY <2>1, <2>2, <2>3 DEF InStep
  <2> QED BY <2>4 DEF st2, r2
<1>6. CASE ~st.odd /\ st.mode # "name" /\ ~(st.mode = "code" /\ c = DoubleQuote)
  <2>1. r.mode = st.mode /\ r.out = st.out /\ r.last = st.last
    BY <1>6 DEF InStep
  <2>2. st2.mode = r2.mode /\ st2.out = r2.out /\ st2.last = r2.last /\ st2.mode # "name"
    BY <1>1, <1>2, <1>6, <2>1 DEF CodeStep, SeenStep
  <2> HIDE DEF st2, r2
  <2>3. InStep(st2, r2)
    BY <2>2 DEF InStep
  <2> QED BY <2>3 DEF st2, r2
<1>7. CASE ~st.odd /\ st.mode = "code" /\ c = DoubleQuote
  <2>1. r.mode = "code" /\ r.out = st.out /\ r.last = st.last
    BY <1>7 DEF InStep
  <2>2. st2.mode = "name" /\ st2.out = Append(st.out, c) /\ st2.last = c
    BY <1>1, <1>7 DEF CodeStep, DoubleQuote
  <2>3. r2.mode = "code" /\ r2.out = Append(r.out, c) /\ r2.last = c
    BY <1>2, <1>7, <2>1 DEF SeenStep, DoubleQuote
  <2> HIDE DEF st2, r2
  <2>4. InStep(st2, r2)
    BY <2>1, <2>2, <2>3 DEF InStep
  <2> QED BY <2>4 DEF st2, r2
<1> QED BY <1>1, <1>4, <1>5, <1>6, <1>7

\* In a regular text the policy sees the code.
LEMMA CodeIsSeen == \A s \in Text : Regular(s) => Code(s) = Seen(s)
<1> SUFFICES ASSUME NEW s \in Text PROVE InStep(Reading(s), Seeing(s))
  BY Zenon DEF InStep, Regular, Code, Seen
<1>1. PICK f \in [0..Len(s) -> CodeState] :
             /\ f[0] = CodeStart /\ Reading(s) = f[Len(s)]
             /\ \A i \in 1..Len(s) : f[i] = CodeStep(f[i - 1], s[i])
  BY ReadingOf
<1>2. PICK g \in [0..Len(s) -> State] :
             /\ g[0] = Start /\ Seeing(s) = g[Len(s)]
             /\ \A i \in 1..Len(s) : g[i] = SeenStep(g[i - 1], s[i])
  BY SeeingOf
<1>3. Len(s) \in Nat /\ \A i \in 1..Len(s) : s[i] \in Symbol
  BY PrefixOf
<1> DEFINE T == {i \in 0..Len(s) : InStep(f[i], g[i])}
<1>4. 0 \in T
  <2>1. InStep(CodeStart, Start)
    BY DEF InStep, CodeStart, Start
  <2> QED BY <1>1, <1>2, <1>3, <2>1
<1>5. ASSUME NEW i \in 0..Len(s) - 1, i \in T PROVE i + 1 \in T
  <2>1. i + 1 \in 1..Len(s) /\ (i + 1) - 1 = i /\ i \in 0..Len(s) /\ i + 1 \in 0..Len(s)
    BY <1>3
  <2>2. f[i] \in CodeState /\ g[i] \in State /\ s[i + 1] \in Symbol
    BY <1>1, <1>2, <1>3, <2>1
  <2>3. f[i + 1] = CodeStep(f[i], s[i + 1]) /\ g[i + 1] = SeenStep(g[i], s[i + 1])
    BY <1>1, <1>2, <2>1
  <2>4. InStep(CodeStep(f[i], s[i + 1]), SeenStep(g[i], s[i + 1]))
    BY <1>5, <2>2, StaysInStep
  <2> QED BY <2>1, <2>3, <2>4
<1> HIDE DEF T
<1>6. 0..Len(s) \subseteq T
  BY <1>3, <1>4, <1>5, Steps
<1> QED BY <1>1, <1>2, <1>3, <1>6 DEF T

\* Whatever the text is, _strip_comments and _strip_literals (query_service.py:961-1009)
\* leave its code: no comment mark inside a literal and no quote inside a comment misleads
\* them. Only a quote or a comment mark in a delimited identifier does.
THEOREM ScrubbedIsCode == \A s \in Text : Regular(s) => Scrubbed(s) = Code(s)
BY ScrubbedIsSeen, CodeIsSeen

\* validate_query (query_service.py:641-678) judges a regular text as it judges its code: no
\* comment and no literal, whatever stands in it, lets a text pass that its code alone would
\* not, or hides a statement, a keyword or a parenthesis that the code has.
THEOREM VerdictOnCode ==
  \A s \in Text : Regular(s) =>
    \A method : ValidQuery(s, method) <=> ValidQuery(Code(s), method)
<1> SUFFICES ASSUME NEW s \in Text, Regular(s), NEW method
             PROVE  ValidQuery(s, method) <=> ValidQuery(Code(s), method)
  OBVIOUS
<1>1. Code(s) = Seen(s)
  BY CodeIsSeen
<1>2. ValidQuery(s, method) <=> ValidQuery(Seen(s), method)
  BY VerdictOnSeen
<1> QED BY <1>1, <1>2, Zenon
====
