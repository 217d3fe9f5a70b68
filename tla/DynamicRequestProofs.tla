---- MODULE DynamicRequestProofs ----
(***************************************************************************)
(* What is proved of DynamicRequest for every set of drafts, parameters,   *)
(* option values and limits, and for every SQL in any symbols: the window  *)
(* of rows a GET request gets, the loop that fetches it, that refusals have*)
(* no effect, that every bind has a value, and that the policy reads the   *)
(* code of the SQL.                                                        *)
(***************************************************************************)
EXTENDS DynamicRequest, SqlTextProofs, FiniteSetTheorems

USE DEF route

-----------------------------------------------------------------------------
(* What the helpers do *)

\* Min and Max of the community modules, on the small sets the code asks them of.
LEMMA MinOfTwo ==
  ASSUME NEW a \in Int, NEW b \in Int
  PROVE  Min({a, b}) = IF a <= b THEN a ELSE b
<1>1. \A x \in {a, b} : (\A y \in {a, b} : x <= y) <=> x = (IF a <= b THEN a ELSE b)
  OBVIOUS
<1> QED BY <1>1 DEF Min

\* The same, of three numbers.
LEMMA MinOfThree ==
  ASSUME NEW a \in Int, NEW b \in Int, NEW c \in Int
  PROVE  /\ Min({a, b, c}) \in {a, b, c}
         /\ Min({a, b, c}) <= a /\ Min({a, b, c}) <= b /\ Min({a, b, c}) <= c
<1>1. \E x \in {a, b, c} : \A y \in {a, b, c} : x <= y
  <2>1. CASE a <= b /\ a <= c BY <2>1
  <2>2. CASE b <= a /\ b <= c BY <2>2
  <2>3. CASE c <= a /\ c <= b BY <2>3
  <2> QED BY <2>1, <2>2, <2>3
<1>2. /\ Min({a, b, c}) \in {a, b, c}
      /\ \A y \in {a, b, c} : Min({a, b, c}) <= y
  BY <1>1 DEF Min
<1> QED BY <1>2

\* The same, of zero and a number.
LEMMA MaxWithZero ==
  ASSUME NEW a \in Int
  PROVE  Max({0, a}) = IF a >= 0 THEN a ELSE 0
<1>1. \A x \in {0, a} : (\A y \in {0, a} : x >= y) <=> x = (IF a >= 0 THEN a ELSE 0)
  OBVIOUS
<1> QED BY <1>1 DEF Max

\* The loop over fetchmany ends, in whatever chunks, with the rows there are, but no more
\* than QUERY_MAX_ROWS_HARD.
LEMMA FetchesAll ==
  ASSUME NEW n \in Nat, NEW chunk \in Nat \ {0}
  PROVE  Fetched(n, chunk) = IF n <= MaxRows THEN n ELSE MaxRows
<1> DEFINE all == IF n <= MaxRows THEN n ELSE MaxRows
           next(k) == Min({k + chunk, MaxRows, n})
           Loop(g) == g = [k \in 0..MaxRows |-> IF k = MaxRows \/ k = n THEN k ELSE g[next(k)]]
           end == [k \in 0..MaxRows |-> IF k = MaxRows THEN MaxRows ELSE all]
           got == CHOOSE g : Loop(g)
<1>1. MaxRows \in Nat \ {0} /\ all \in 0..MaxRows /\ all <= n
  BY BindingAssumption
<1>2. \A k \in 0..MaxRows : /\ next(k) \in 0..MaxRows /\ next(k) <= n
                            /\ k # MaxRows /\ n <= k => next(k) = n
                            /\ k # MaxRows /\ n > k => next(k) > k
  <2> SUFFICES ASSUME NEW k \in 0..MaxRows
               PROVE  /\ next(k) \in 0..MaxRows /\ next(k) <= n
                      /\ k # MaxRows /\ n <= k => next(k) = n
                      /\ k # MaxRows /\ n > k => next(k) > k
    OBVIOUS
  <2>1. k + chunk \in Int /\ MaxRows \in Int /\ n \in Int
    BY <1>1
  <2>2. /\ next(k) \in {k + chunk, MaxRows, n}
        /\ next(k) <= k + chunk /\ next(k) <= MaxRows /\ next(k) <= n
    BY <2>1, MinOfThree
  <2> HIDE DEF next
  <2> QED BY <1>1, <2>2
<1> HIDE DEF next
<1>3. Loop(end)
  <2>1. \A k \in 0..MaxRows :
          end[k] = IF k = MaxRows \/ k = n THEN k ELSE end[next(k)]
    <3> SUFFICES ASSUME NEW k \in 0..MaxRows
                 PROVE  end[k] = IF k = MaxRows \/ k = n THEN k ELSE end[next(k)]
      OBVIOUS
    <3>1. CASE k = MaxRows \/ k = n
      BY <1>1, <3>1
    <3>2. CASE k # MaxRows /\ k # n /\ n < k
      <4>1. next(k) = n /\ n # MaxRows /\ n \in 0..MaxRows
        BY <1>1, <1>2, <3>2
      <4> QED BY <1>1, <3>2, <4>1
    <3>3. CASE k # MaxRows /\ n > k
      <4>1. next(k) \in 0..MaxRows /\ (next(k) = MaxRows => all = MaxRows)
        BY <1>1, <1>2, <3>3
      <4> QED BY <1>1, <3>3, <4>1
    <3> QED BY <1>1, <3>1, <3>2, <3>3
  <2> QED BY <2>1
<1>4. Loop(got)
  <2> HIDE DEF Loop, end
  <2> QED BY <1>3
<1>5. Fetched(n, chunk) = got[0]
  BY DEF Fetched, next
<1> HIDE DEF got
<1>6. \A k \in 0..MaxRows : k <= n => got[k] = all
  <2> DEFINE bad == {d \in 0..MaxRows : MaxRows - d <= n /\ got[MaxRows - d] # all}
  <2>1. CASE bad = {}
    <3>1. \A k \in 0..MaxRows : MaxRows - k \in 0..MaxRows /\ MaxRows - (MaxRows - k) = k
      BY <1>1
    <3> QED BY <2>1, <3>1
  <2>2. CASE bad # {}
    <3>1. bad \in SUBSET Nat
      BY <1>1
    <3>2. PICK d \in bad : \A c \in bad : d <= c
      <4> HIDE DEF bad
      <4> QED BY <2>2, <3>1, Least
    <3> DEFINE k == MaxRows - d
    <3>3. k \in 0..MaxRows /\ k <= n /\ got[k] # all /\ d \in Nat
      BY <1>1, <3>2
    <3>4. got[k] = IF k = MaxRows \/ k = n THEN k ELSE got[next(k)]
      BY <1>4, <3>3
    <3>5. k # MaxRows /\ k < n
      BY <1>1, <3>3, <3>4
    <3>6. next(k) \in 0..MaxRows /\ next(k) > k /\ next(k) <= n
      BY <1>1, <1>2, <3>3, <3>5
    <3>7. MaxRows - next(k) \in 0..MaxRows /\ MaxRows - (MaxRows - next(k)) = next(k)
          /\ MaxRows - next(k) < d
      BY <1>1, <3>3, <3>6
    <3>8. got[next(k)] # all
      BY <3>3, <3>4, <3>5
    <3>9. MaxRows - next(k) \in bad
      BY <3>6, <3>7, <3>8
    <3> QED BY <3>2, <3>3, <3>7, <3>9
  <2> QED BY <2>1, <2>2
<1> QED BY <1>1, <1>5, <1>6

\* LIMIT never asks for more than QUERY_MAX_ROWS_HARD.
LEMMA LimitOf ==
  ASSUME NEW limit \in Option
  PROVE  /\ Limit(limit) \in Int /\ Limit(limit) <= MaxRows
         /\ Limit(limit) = IF limit.kind = "number" /\ limit.value <= MaxRows
                           THEN limit.value ELSE MaxRows
<1>1. limit.value \in Int /\ MaxRows \in Int
  BY BindingAssumption DEF Option
<1>2. Min({limit.value, MaxRows}) = IF limit.value <= MaxRows THEN limit.value ELSE MaxRows
  BY <1>1, MinOfTwo
<1> QED BY <1>1, <1>2 DEF Limit

\* The rows of a request whose options were accepted: never more than
\* QUERY_MAX_ROWS_HARD, and the window they ask for unless the SQL pages by itself.
LEMMA RowsAsked ==
  ASSUME NEW s, NEW o, o.limit \in Option, o.offset \in Option, ~Options422(s, o)
  PROVE  /\ RowsOf(s, o, Total, Chunk) \subseteq 1..Total
         /\ Cardinality(RowsOf(s, o, Total, Chunk)) <= MaxRows
         /\ ~OwnPaging(Ordered(s, o.order)) =>
              RowsOf(s, o, Total, Chunk) =
                {i \in 1..Total : /\ i > o.offset.value
                                  /\ i <= o.offset.value + MaxRows
                                  /\ o.limit.kind = "number" => i <= o.offset.value + o.limit.value}
<1> DEFINE own == OwnPaging(Ordered(s, o.order))
           v == o.offset.value
           L == Limit(o.limit)
           first == IF own THEN 1 ELSE IF v # 0 THEN Window(o)[1] ELSE 1
           last == IF own THEN Total ELSE Min({Total, Window(o)[2]})
           count == Max({0, last - first + 1})
           got == Fetched(count, Chunk)
<1>1. /\ MaxRows \in Nat \ {0} /\ Total \in Nat /\ Chunk \in Nat \ {0}
      /\ v \in Nat /\ L \in Nat \ {0} /\ L <= MaxRows
  BY LimitOf, BindingAssumption, RequestAssumption DEF Options422, Option
<1>2. RowsOf(s, o, Total, Chunk) = {first + i : i \in 0..got - 1}
  BY DEF RowsOf
<1>3. Window(o)[1] = v + 1 /\ Window(o)[2] = v + L
  BY DEF Window
<1>4. first \in Nat \ {0} /\ first = IF own THEN 1 ELSE v + 1
  <2> HIDE DEF v, L, own
  <2> QED BY <1>1, <1>3
<1>5. /\ last \in Nat /\ last <= Total
      /\ last = IF own \/ Total <= v + L THEN Total ELSE v + L
  <2>1. Min({Total, v + L}) = IF Total <= v + L THEN Total ELSE v + L
    <3> HIDE DEF v, L
    <3> QED BY <1>1, MinOfTwo
  <2> HIDE DEF v, L, own
  <2> QED BY <1>1, <1>3, <2>1
<1> HIDE DEF first, last, v, L, own
<1>6. count \in Nat /\ count = IF last - first + 1 >= 0 THEN last - first + 1 ELSE 0
  <2>1. last - first + 1 \in Int
    BY <1>4, <1>5
  <2> QED BY <2>1, MaxWithZero
<1>7. /\ got \in 0..MaxRows /\ got <= count
      /\ ~own => got = count
  <2>1. got = IF count <= MaxRows THEN count ELSE MaxRows
    BY <1>1, <1>6, FetchesAll
  <2>2. ~own => count <= L
    <3> HIDE DEF count
    <3> QED BY <1>1, <1>4, <1>5, <1>6
  <2> HIDE DEF got, count
  <2> QED BY <1>1, <1>6, <2>1, <2>2
<1> HIDE DEF got, count
<1>8. RowsOf(s, o, Total, Chunk) = first..first + got - 1
  <2>1. \A k \in first..first + got - 1 : k - first \in 0..got - 1 /\ first + (k - first) = k
    BY <1>4, <1>7
  <2>2. \A i \in 0..got - 1 : first + i \in first..first + got - 1
    BY <1>4, <1>7
  <2> QED BY <1>2, <2>1, <2>2
<1>9. RowsOf(s, o, Total, Chunk) \subseteq 1..Total
  BY <1>1, <1>4, <1>5, <1>6, <1>7, <1>8
<1>10. Cardinality(RowsOf(s, o, Total, Chunk)) <= MaxRows
  <2>1. first \in Int /\ first + got - 1 \in Int
    BY <1>4, <1>7
  <2>2. Cardinality(first..first + got - 1) =
          IF first > first + got - 1 THEN 0 ELSE (first + got - 1) - first + 1
    BY <2>1, FS_Interval
  <2> QED BY <1>1, <1>4, <1>7, <1>8, <2>2
<1>11. ASSUME ~own
       PROVE  first..first + got - 1 = {i \in 1..Total : i > v /\ i <= v + L}
  BY <1>1, <1>4, <1>5, <1>6, <1>7, <1>11
<1>12. \A i \in 1..Total :
         (i <= v + L) <=> (/\ i <= v + MaxRows
                           /\ (o.limit.kind = "number" => i <= v + o.limit.value))
  <2>1. o.limit.kind = "number" => o.limit.value \in Int
    BY DEF Option
  <2>2. L = IF o.limit.kind = "number" /\ o.limit.value <= MaxRows THEN o.limit.value ELSE MaxRows
    BY LimitOf DEF L
  <2> QED BY <1>1, <2>1, <2>2
<1> QED BY <1>8, <1>9, <1>10, <1>11, <1>12 DEF own, v

-----------------------------------------------------------------------------
(* The inductive invariant *)

\* What a request asks for is in its range.
Shape == request.size \in Nat /\ request.limit \in Option /\ request.offset \in Option

\* A handler of a write has read the whole body before it executes.
Reads == /\ phase \in {"typing", "served", "arrived"} => consumed = 0
         /\ phase \in {"binding", "executing"} /\ method # "GET" => consumed = request.size

\* Query options were checked before the execution.
Checked == phase = "executing" /\ method = "GET" => ~Options422(sql, request)

\* What is committed was executed for a write, and is answered as an execution is. Only a
\* request that executes is watched, and only the watch of a GET request can break.
Effects == /\ committed => /\ method # "GET" /\ phase \in {"executing", "answered"}
                           /\ answer \in {0, 200, 500}
           /\ watch # "off" => phase = "executing"
           /\ watch = "broken" => method = "GET"

\* The inductive invariant.
IInv == TypeOK /\ Shape /\ Reads /\ Checked /\ Effects /\ WindowIsAsked

\* The request that is asked has a size and options.
LEMMA AskedShape ==
  ASSUME NEW r \in Asked
  PROVE  r.size \in Nat /\ r.limit \in Option /\ r.offset \in Option
<1>1. Absent \in Option
  BY DEF Absent, Option
<1>2. 0..MaxBody + 1 \subseteq Nat /\ 1..MaxBody \subseteq Nat /\ {1, MaxBody + 1} \subseteq Nat
  BY RequestAssumption
<1>3. r.size \in 0..MaxBody + 1 \cup 1..MaxBody \cup {1, MaxBody + 1} \cup {0}
  BY DEF Asked
<1>4. r.limit \in {Absent} \cup Limits
  BY DEF Asked
<1>5. r.offset \in {Absent} \cup Offsets
  BY DEF Asked
<1> QED BY <1>1, <1>2, <1>3, <1>4, <1>5, RequestAssumption

\* At first an administrator types.
LEMMA Initially == Init => IInv
<1> SUFFICES ASSUME Init PROVE IInv
  OBVIOUS
<1>1. room \in Nat
  BY RequestAssumption DEF Init
<1>2. Cardinality({}) = 0 /\ MaxRows \in Nat
  BY FS_EmptySet, BindingAssumption
<1>3. Absent \in Option
  BY DEF Absent, Option
<1>4. TypeOK
  <2>1. consumed \in 0..request.size
    BY DEF Init, NoRequest
  <2>2. rows \subseteq 1..Total /\ Cardinality(rows) <= MaxRows
    BY <1>2 DEF Init
  <2> QED BY <1>1, <2>1, <2>2 DEF Init, TypeOK, Method
<1>5. Shape /\ Reads /\ Checked /\ Effects /\ WindowIsAsked
  BY <1>3 DEF Init, Shape, Reads, Checked, Effects, WindowIsAsked, NoRequest
<1> QED BY <1>4, <1>5 DEF IInv

\* Typing and saving a route.
LEMMA Typing ==
  ASSUME IInv, (\E c \in Alphabet : Type(c)) \/ (\E m \in Method : Save(m))
  PROVE  IInv'
<1>1. ASSUME NEW c \in Alphabet, Type(c) PROVE IInv'
  <2>1. TypeOK'
    BY <1>1 DEF IInv, TypeOK, Type
  <2> QED BY <1>1, <2>1 DEF IInv, TypeOK, Type, Shape, Reads, Checked, Effects, WindowIsAsked
<1>2. ASSUME NEW m \in Method, Save(m) PROVE IInv'
  <2>1. TypeOK'
    BY <1>2 DEF IInv, TypeOK, Save
  <2> QED BY <1>2, <2>1 DEF IInv, TypeOK, Save, Shape, Reads, Checked, Effects, WindowIsAsked
<1> QED BY <1>1, <1>2

\* The request arrives, and is refused or read.
LEMMA Arriving == ASSUME IInv, Arrive \/ Enter \/ Read \/ Parse \/ Bind PROVE IInv'
<1>1. CASE Arrive
  <2>1. request'.size \in Nat /\ request'.limit \in Option /\ request'.offset \in Option
    BY <1>1, AskedShape DEF Arrive
  <2>2. TypeOK'
    BY <1>1, <2>1 DEF IInv, TypeOK, Arrive, Reads
  <2> QED BY <1>1, <2>1, <2>2 DEF IInv, TypeOK, Arrive, Shape, Reads, Checked, Effects,
             WindowIsAsked
<1>2. CASE Enter
  <2>1. TypeOK'
    BY <1>2 DEF IInv, TypeOK, Enter, Answers
  <2> QED BY <1>2, <2>1 DEF IInv, TypeOK, Enter, Answers, ReadsBody, Shape, Reads, Checked,
             Effects, WindowIsAsked
<1>3. CASE Read
  <2>1. TypeOK'
    BY <1>3 DEF IInv, TypeOK, Read, Answers, Shape
  <2> QED BY <1>3, <2>1 DEF IInv, TypeOK, Read, Answers, Shape, Reads, Checked, Effects,
             WindowIsAsked
<1>4. CASE Parse
  <2>1. TypeOK'
    BY <1>4 DEF IInv, TypeOK, Parse, Answers
  <2> QED BY <1>4, <2>1 DEF IInv, TypeOK, Parse, Answers, Shape, Reads, Checked, Effects,
             WindowIsAsked
<1>5. CASE Bind
  <2>1. TypeOK'
    BY <1>5 DEF IInv, TypeOK, Bind, Answers
  <2> QED BY <1>5, <2>1 DEF IInv, TypeOK, Bind, Answers, Shape, Reads, Checked, Effects,
             WindowIsAsked
<1> QED BY <1>1, <1>2, <1>3, <1>4, <1>5

\* The execution, while the client may leave.
LEMMA Executing == ASSUME IInv, Commit \/ Watch \/ Succeed \/ Fail \/ Leave PROVE IInv'
<1>1. CASE Commit
  <2>1. TypeOK'
    BY <1>1 DEF IInv, TypeOK, Commit
  <2> QED BY <1>1, <2>1 DEF IInv, TypeOK, Commit, Shape, Reads, Checked, Effects, WindowIsAsked
<1>2. CASE Watch
  <2>1. TypeOK'
    BY <1>2 DEF IInv, TypeOK, Watch, Shape
  <2> QED BY <1>2, <2>1 DEF IInv, TypeOK, Watch, Shape, Reads, Checked, Effects, WindowIsAsked
<1>3. CASE Succeed
  <2> DEFINE asked == RowsOf(sql, request, Total, Chunk)
  <2>1. method = "GET" => /\ asked \subseteq 1..Total /\ Cardinality(asked) <= MaxRows
                          /\ ~OwnPaging(Ordered(sql, request.order)) =>
                               asked = {i \in 1..Total :
                                 /\ i > request.offset.value
                                 /\ i <= request.offset.value + MaxRows
                                 /\ request.limit.kind = "number" =>
                                      i <= request.offset.value + request.limit.value}
    BY <1>3, RowsAsked DEF IInv, Shape, Checked, Succeed
  <2>2. Cardinality({}) = 0 /\ MaxRows \in Nat
    BY FS_EmptySet, BindingAssumption
  <2> HIDE DEF asked
  <2>3. /\ UNCHANGED <<route, request, consumed, gone, committed>>
        /\ phase = "executing" /\ (method # "GET" => committed)
        /\ phase' = "answered" /\ watch' = "off"
        /\ \/ answer' = 500 /\ UNCHANGED rows
           \/ answer' = 200 /\ rows' = IF method = "GET" THEN asked ELSE {}
    BY <1>3 DEF Succeed, Answers, asked
  <2>4. TypeOK'
    <3>1. rows' \subseteq 1..Total /\ Cardinality(rows') <= MaxRows
      <4>1. rows' = rows \/ rows' = {} \/ (method = "GET" /\ rows' = asked)
        BY <2>3
      <4>2. method = "GET" => asked \subseteq 1..Total /\ Cardinality(asked) <= MaxRows
        BY <2>1
      <4>3. rows \subseteq 1..Total /\ Cardinality(rows) <= MaxRows
        BY DEF IInv, TypeOK
      <4>4. Cardinality({}) <= MaxRows
        BY <2>2
      <4> QED BY <4>1, <4>2, <4>3, <4>4
    <3> QED BY <2>3, <3>1 DEF IInv, TypeOK
  <2>5. WindowIsAsked'
    BY <2>1, <2>3 DEF WindowIsAsked
  <2> QED BY <2>3, <2>4, <2>5 DEF IInv, TypeOK, Shape, Reads, Checked, Effects
<1>4. CASE Fail
  <2>1. TypeOK'
    BY <1>4 DEF IInv, TypeOK, Fail, Answers
  <2> QED BY <1>4, <2>1 DEF IInv, TypeOK, Fail, Answers, Shape, Reads, Checked, Effects,
             WindowIsAsked
<1>5. CASE Leave
  <2>1. TypeOK'
    BY <1>5 DEF IInv, TypeOK, Leave
  <2> QED BY <1>5, <2>1 DEF IInv, TypeOK, Leave, Shape, Reads, Checked, Effects, WindowIsAsked
<1> QED BY <1>1, <1>2, <1>3, <1>4, <1>5

\* The invariant holds at every moment.
THEOREM Invariance == Spec => []IInv
<1>1. IInv /\ UNCHANGED vars => IInv'
  BY DEF IInv, TypeOK, Shape, Reads, Checked, Effects, WindowIsAsked, vars
<1>2. IInv /\ [Next]_vars => IInv'
  BY <1>1, Typing, Arriving, Executing DEF Next
<1> QED BY <1>2, Initially, PTL DEF Spec

-----------------------------------------------------------------------------
(* The theorems *)

\* For any drafts, parameters and limits, the request and its answer keep their types; the
\* body is never read past its end, and no answer has more rows than QUERY_MAX_ROWS_HARD.
THEOREM Types == Spec => []TypeOK
<1>1. IInv => TypeOK
  BY DEF IInv
<1> QED BY <1>1, Invariance, PTL

\* A GET request gets the rows its LIMIT and OFFSET ask for, over paging and the loop that
\* fetches chunks (query_service.py, apply_query_options and the fetch loop).
THEOREM Windows == Spec => []WindowIsAsked
<1>1. IInv => WindowIsAsked
  BY DEF IInv
<1> QED BY <1>1, Invariance, PTL

\* A request that is refused for its body or its values has committed nothing, and the body
\* limit never turns a committed write into an error (middleware.py, limited_receive).
THEOREM Refusals == Spec => []RefusalsHaveNoEffect
<1>1. IInv => RefusalsHaveNoEffect
  BY DEF IInv, Effects, RefusalsHaveNoEffect
<1> QED BY <1>1, Invariance, PTL

-----------------------------------------------------------------------------
(* The binds of a statement *)

\* What a query option writes after the SQL: some words after a space, and a text.
LEMMA FourAndText ==
  ASSUME NEW a \in Symbol, NEW b \in Symbol, NEW c \in Symbol, NEW d \in Symbol, IsSpace(a),
         NEW t \in Text
  PROVE  <<a, b, c, d>> \in Text /\ <<a, b, c, d>> \o t \in Text /\ SpaceFirst(<<a, b, c, d>> \o t)
<1> DEFINE w == <<a, b, c, d>>
<1>1. w \in Text /\ Len(w) = 4 /\ w[1] = a
  BY DEF Text
<1> HIDE DEF w
<1>2. w \o t \in Text /\ Len(w \o t) = Len(w) + Len(t) /\ \A i \in 1..Len(w) : (w \o t)[i] = w[i]
  BY <1>1, Concatenated
<1>3. (w \o t)[1] = a /\ Len(w \o t) # 0
  BY <1>1, <1>2, LenNat
<1>4. w \o t # <<>>
  BY <1>3, LenNat DEF Text
<1> QED BY <1>1, <1>2, <1>3, <1>4 DEF SpaceFirst, w

\* Five symbols before a text, the first of them a space.
LEMMA FiveAndText ==
  ASSUME NEW a \in Symbol, NEW b \in Symbol, NEW c \in Symbol, NEW d \in Symbol, NEW e \in Symbol,
         IsSpace(a), NEW t \in Text
  PROVE  /\ <<a, b, c, d, e>> \in Text /\ <<a, b, c, d, e>> \o t \in Text
         /\ SpaceFirst(<<a, b, c, d, e>> \o t)
<1> DEFINE w == <<a, b, c, d, e>>
<1>1. w \in Text /\ Len(w) = 5 /\ w[1] = a
  BY DEF Text
<1> HIDE DEF w
<1>2. w \o t \in Text /\ Len(w \o t) = Len(w) + Len(t) /\ \A i \in 1..Len(w) : (w \o t)[i] = w[i]
  BY <1>1, Concatenated
<1>3. (w \o t)[1] = a /\ Len(w \o t) # 0
  BY <1>1, <1>2, LenNat
<1>4. w \o t # <<>>
  BY <1>3, LenNat DEF Text
<1> QED BY <1>1, <1>2, <1>3, <1>4 DEF SpaceFirst, w

\* The symbols that the query options write.
LEMMA WordsAdded ==
  /\ " " \in Symbol /\ ":" \in Symbol /\ IsSpace(" ") /\ "ORDER" \in Symbol /\ "BY" \in Symbol
  /\ "ROWS" \in Symbol /\ "TO" \in Symbol
  /\ RowStart \in Text /\ RowEnd \in Text /\ RowLimit \in Text
<1>1. " " \in Symbol /\ ":" \in Symbol
  BY SymbolAssumption DEF Punctuation, Space
<1>2. Added \subseteq Symbol
  BY BindingAssumption, SymbolAssumption
<1>3. /\ "ORDER" \in Symbol /\ "BY" \in Symbol /\ "ROWS" \in Symbol /\ "TO" \in Symbol
      /\ "__f2a_row_start" \in Symbol /\ "__f2a_row_end" \in Symbol /\ "__f2a_row_limit" \in Symbol
  BY <1>2 DEF Added
<1>4. \A c \in Symbol : <<c>> \in Text
  BY DEF Text
<1> QED BY <1>1, <1>3, <1>4 DEF RowStart, RowEnd, RowLimit, IsSpace

\* The binds in the SQL are in the statement with its order.
LEMMA OrderKeeps ==
  ASSUME NEW s \in Text, NEW order \in Text
  PROVE  Ordered(s, order) \in Text /\ Binds(Seen(s)) \subseteq Binds(Seen(Ordered(s, order)))
<1>1. CASE order = <<>>
  BY <1>1 DEF Ordered
<1>2. CASE order # <<>>
  <2> DEFINE w == <<" ", "ORDER", " ", "BY", " ">>
  <2>1. w \in Text /\ w \o order \in Text /\ SpaceFirst(w \o order)
    BY WordsAdded, FiveAndText
  <2>2. RightStripped(s) \in Text
    BY Stripped, PrefixOf
  <2> HIDE DEF w
  <2>3. RightStripped(s) \o w \o order = RightStripped(s) \o (w \o order)
    BY <2>1, <2>2, ConcatAssociative DEF Text
  <2>4. Ordered(s, order) = RightStripped(s) \o (w \o order)
    BY <1>2, <2>3 DEF Ordered, w
  <2> QED BY <2>1, <2>4, BindsKept
<1> QED BY <1>1, <1>2

\* Texts may be joined from either end.
Associates(u, v, t) == u \o v \o t = u \o (v \o t)

\* So it is for all texts.
LEMMA JoinedInAnyOrder == \A u, v, t \in Text : Associates(u, v, t) /\ u \o v \in Text
BY ConcatAssociative DEF Text, Associates

\* The same, for five texts.
AllAssociate(r, w, a, x, b) ==
  r \o w \o a \o x \o b = r \o (w \o (a \o (x \o b))) /\ a \o (x \o b) \in Text

\* Five texts in a row, as _paged_select joins them.
LEMMA FiveJoined == \A r, w, a, x, b \in Text : AllAssociate(r, w, a, x, b)
<1> SUFFICES ASSUME NEW r \in Text, NEW w \in Text, NEW a \in Text, NEW x \in Text,
                    NEW b \in Text
             PROVE  r \o w \o a \o x \o b = r \o (w \o (a \o (x \o b))) /\ a \o (x \o b) \in Text
  BY DEF AllAssociate
<1>1. r \o w \in Text /\ x \o b \in Text
  BY JoinedInAnyOrder, Zenon
<1>2. r \o w \o a \in Text /\ a \o (x \o b) \in Text
  BY <1>1, JoinedInAnyOrder, Zenon
<1>3. Associates(r \o w \o a, x, b)
  BY <1>2, JoinedInAnyOrder, Zenon
<1>4. Associates(r \o w, a, x \o b)
  BY <1>1, JoinedInAnyOrder, Zenon
<1>5. Associates(r, w, a \o (x \o b))
  BY <1>2, JoinedInAnyOrder, Zenon
<1> QED BY <1>2, <1>3, <1>4, <1>5, Zenon DEF Associates

\* The binds in the SQL are in the statement of a GET request.
LEMMA PagingKeeps ==
  ASSUME NEW s \in Text, NEW o, o.order \in Text
  PROVE  Binds(Seen(s)) \subseteq Binds(Seen(Prepared(s, o)))
         /\ Prepared(s, o) \in Text
<1> DEFINE text == Ordered(s, o.order)
           w == <<" ", "ROWS", " ", ":">>
           x == <<" ", "TO", " ", ":">>
           r == RightStripped(text)
<1>1. text \in Text /\ Binds(Seen(s)) \subseteq Binds(Seen(text))
  BY OrderKeeps
<1>2. Prepared(s, o) = text \/ Prepared(s, o) = r \o w \o RowLimit
      \/ Prepared(s, o) = r \o w \o RowStart \o x \o RowEnd
  BY DEF Prepared
<1>3. r \in Text
  <2> HIDE DEF text
  <2> QED BY <1>1, Stripped, PrefixOf
<1>4. \A t \in Text : w \in Text /\ w \o t \in Text /\ SpaceFirst(w \o t)
  BY WordsAdded, FourAndText
<1>5. \A t \in Text : x \in Text /\ x \o t \in Text
  BY WordsAdded, FourAndText
<1> HIDE DEF w, x
<1>6. RowStart \in Text /\ RowEnd \in Text /\ RowLimit \in Text
  BY WordsAdded
<1> HIDE DEF text
<1>7. \A t \in Text :
        r \o (w \o t) \in Text /\ Binds(Seen(text)) \subseteq Binds(Seen(r \o (w \o t)))
  BY <1>1, <1>4, BindsKept
<1> HIDE DEF r
<1>8. w \in Text /\ x \in Text
  BY <1>4, <1>5, <1>6
<1>9. Associates(r, w, RowLimit)
  BY <1>3, <1>6, <1>8, JoinedInAnyOrder, Zenon
<1>10. AllAssociate(r, w, RowStart, x, RowEnd)
  BY <1>3, <1>6, <1>8, FiveJoined, Zenon
<1> QED BY <1>1, <1>2, <1>6, <1>7, <1>9, <1>10, Zenon DEF Associates, AllAssociate

\* What is typed, and the column of an order, are texts.
Texts == sql \in Text /\ request.order \in Text

\* Every SQL and every order is a sequence of symbols.
THEOREM TextsStay == Spec => []Texts
<1>1. Init => Texts
  BY RequestAssumption DEF Init, Texts, NoRequest, Text
<1>2. Texts /\ [Next]_vars => Texts'
  <2> SUFFICES ASSUME Texts, [Next]_vars PROVE Texts'
    OBVIOUS
  <2>1. CASE \E c \in Alphabet : Type(c)
    <3>1. PICK c \in Alphabet : Type(c)
      BY <2>1
    <3>2. c \in Symbol
      BY RequestAssumption
    <3> QED BY <3>1, <3>2 DEF Type, Texts, Text
  <2>2. CASE Arrive
    <3>1. request'.order \in {<<>>} \cup Orders /\ sql' = sql
      BY <2>2 DEF Arrive, Asked
    <3>2. <<>> \in Text /\ Orders \subseteq Text
      BY RequestAssumption DEF Text
    <3> QED BY <3>1, <3>2 DEF Texts
  <2>3. CASE \/ UNCHANGED vars \/ (\E m \in Method : Save(m)) \/ Enter \/ Read \/ Parse \/ Bind
             \/ Commit \/ Watch \/ Succeed \/ Fail \/ Leave
    <3>1. UNCHANGED <<sql, request>>
      BY <2>3 DEF vars, Save, Enter, Read, Parse, Bind, Commit, Watch, Succeed, Fail, Leave
    <3> QED BY <3>1 DEF Texts
  <2> QED BY <2>1, <2>2, <2>3 DEF Next
<1> QED BY <1>1, <1>2, PTL DEF Spec

\* For any SQL, in whatever symbols, whose delimited identifiers have no quote and no comment
\* mark in them: a request that executes has a value for every bind in the code of its SQL
\* (query_service.py, detect_parameters, bind_parameters, apply_query_options and
\* _execution_bindings).
THEOREM Bindings == Spec => []DetectedAreBound
<1>1. TypeOK /\ Texts => DetectedAreBound
  <2> SUFFICES ASSUME TypeOK, Texts, phase = "executing", Regular(sql), NEW n \in Binds(Code(sql)),
                      Upper(n) \notin OptionNames \cup Private
               PROVE  n \in ExecutionBindings(Statement, Values)
    BY DEF DetectedAreBound
  <2>1. sql \in Text /\ request.order \in Text
    BY DEF Texts
  <2>2. Scrubbed(sql) = Code(sql) /\ Code(sql) = Seen(sql)
    BY <2>1, ScrubbedIsCode, CodeIsSeen
  <2>3. Upper(n) \in Detected(sql)
    BY <2>2 DEF Detected
  <2>4. Detected(sql) \subseteq DOMAIN definitions
    <3>1. definitions \in Definitions(sql, method)
      BY DEF TypeOK
    <3> DEFINE of(more) == [source : IF method = "GET" THEN {"query"} ELSE Sources,
                            required : BOOLEAN, default : {"null", "good"}]
    <3>2. PICK more \in SUBSET Declared : definitions \in [Detected(sql) \cup more -> of(more)]
      BY <3>1, Zenon DEF Definitions
    <3>3. DOMAIN definitions = Detected(sql) \cup more
      BY <3>2, Zenon
    <3> QED BY <3>3
  <2>5. Upper(n) \in Values
    BY <2>3, <2>4 DEF Values, Bound
  <2>6. Statement \in Text /\ Binds(Seen(sql)) \subseteq Binds(Seen(Statement))
    BY <2>1, PagingKeeps DEF Statement
  <2>7. n \in Binds(Scrubbed(Statement))
    BY <2>2, <2>6, ScrubbedIsSeen
  <2> QED BY <2>5, <2>7 DEF ExecutionBindings, HasValue
<1> QED BY <1>1, Types, TextsStay, PTL

\* For any SQL, in whatever symbols, whose delimited identifiers have no quote and no comment
\* mark in them: the policy and the detection of parameters see exactly its code, so that no
\* comment and no literal changes what validate_query decides or which parameters
\* detect_parameters finds (query_service.py:641-678, 961-1035).
THEOREM Policies == Spec => []PolicyReadsCode
<1>1. Texts => PolicyReadsCode
  <2> SUFFICES ASSUME Texts, Regular(sql)
               PROVE  /\ Scrubbed(sql) = Code(sql)
                      /\ \A m \in Method : ValidQuery(sql, m) = ValidQuery(Code(sql), m)
                      /\ Detected(sql) = Detected(Code(sql))
    BY DEF PolicyReadsCode
  <2>1. sql \in Text
    BY DEF Texts
  <2>2. Scrubbed(sql) = Code(sql)
    BY <2>1, ScrubbedIsCode
  <2>3. Scrubbed(Code(sql)) = Code(sql)
    <3> DEFINE v == Code(sql)
    <3>1. v = Seen(sql)
      BY <2>1, CodeIsSeen
    <3>2. v \in Text /\ Seen(v) = v
      <4> HIDE DEF v
      <4> QED BY <2>1, <3>1, SeenOfSeen
    <3> HIDE DEF v
    <3>3. Scrubbed(v) = v
      BY <3>2, ScrubbedIsSeen
    <3> QED BY <3>3 DEF v
  <2>4. Detected(sql) = Detected(Code(sql))
    BY <2>2, <2>3, Zenon DEF Detected
  <2>5. \A m \in Method : ValidQuery(sql, m) <=> ValidQuery(Code(sql), m)
    BY <2>1, VerdictOnCode
  <2>6. \A s, m : ValidQuery(s, m) \in BOOLEAN
    BY Zenon DEF ValidQuery
  <2>7. \A m \in Method : ValidQuery(sql, m) = ValidQuery(Code(sql), m)
    BY <2>5, <2>6, Zenon
  <2> QED BY <2>2, <2>4, <2>7
<1> QED BY <1>1, TextsStay, PTL
====
