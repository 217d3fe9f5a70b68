---- MODULE AuthenticationProofs ----
(***************************************************************************)
(* What is proved of Authentication, and of the RateLimit it stands on,    *)
(* for every value of their constants.                                     *)
(***************************************************************************)
EXTENDS Authentication, FiniteSetTheorems, SequenceTheorems, WellFoundedInduction, TLAPS

USE DEF limiterVars, keyVars

-----------------------------------------------------------------------------
(* The inductive invariant of the rate limit                                *)

\* What MaxAttempts failures in a row are apart from the next one, at least.
Gap == IF Lockout < Window THEN Lockout ELSE Window

\* The failures of a source come in the order of time.
InOrder(s) ==
  /\ \A i \in DOMAIN judged[s] : judged[s][i] <= now
  /\ \A i, j \in DOMAIN judged[s] : i <= j => judged[s][i] <= judged[s][j]

\* The deque holds the last failures. What it no longer holds was a Gap before the last
\* one, or a block came after it that lasts for a Gap.
Remembered(s) ==
  LET gone == Len(judged[s]) - Len(failures[s])
  IN  /\ gone >= 0
      /\ \A k \in DOMAIN failures[s] : failures[s][k] = judged[s][gone + k]
      /\ gone > 0 => \/ judged[s][gone] + Gap <= blockedUntil[s]
                     \/ judged[s][gone] + Gap <= judged[s][Len(judged[s])]

\* Of any MaxAttempts + 1 failures in a row, the first and the last are a Gap apart.
Spaced(s) == \A i \in DOMAIN judged[s] : i + MaxAttempts \in DOMAIN judged[s] =>
               judged[s][i] + Gap <= judged[s][i + MaxAttempts]

Limits == \A s \in Source : InOrder(s) /\ Remembered(s) /\ Spaced(s)

-----------------------------------------------------------------------------
(* The inductive invariant of the Access Keys and the attempt               *)

Row == [token : Token, active : BOOLEAN, uses : 0..MaxRequests]

Attempt == {NoAttempt} \cup [at : {"judging"}, source : ApiSource, token : Token]
           \cup [at : {"counting"}, source : ApiSource, token : Token, key : 1..MaxKeys]

Records == /\ keys \in [DOMAIN keys -> Row] /\ attempt \in Attempt
           /\ watch \in [seen : SUBSET (1..MaxKeys), steady : BOOLEAN]
           /\ admitted \in [1..MaxKeys -> Nat]

\* Ids that were not given have no use, and the attempt in progress is not yet a use.
Uses == \A k \in 1..MaxKeys : /\ k > lastKey => admitted[k] = 0
                              /\ admitted[k] <= requests
                              /\ attempt.at # "none" => admitted[k] < requests

\* What is watched includes what holds now, and the source that is judged is not blocked.
Watching ==
  /\ attempt.at # "none" =>
       /\ Holders(keys, attempt.token) \subseteq watch.seen
       /\ watch.steady => Holders(keys, attempt.token) # {}
  /\ attempt.at = "judging" => ~Blocked(attempt.source)

IInv == /\ TypeOK /\ Limits /\ Records /\ Uses /\ Watching
        /\ AcceptedWasActive /\ UsesAreCounted

-----------------------------------------------------------------------------
(* The deque                                                                *)

\* A set of naturals that is not empty has a least element.
LEMMA Least ==
  ASSUME NEW T \in SUBSET Nat, T # {}
  PROVE  \E m \in T : \A n \in T : m <= n
<1>1. PICK m \in T : \A n \in T : ~ (<<n, m>> \in OpToRel(<, Nat))
  BY NatLessThanWellFounded, WFMin
<1>2. \A n \in T : ~ (n < m)
  BY <1>1 DEF OpToRel
<1> QED BY <1>2

\* Times.
LEMMA Constants == /\ MaxAttempts \in Nat \ {0} /\ Window \in Nat \ {0} /\ Lockout \in Nat \ {0}
                   /\ MaxTime \in Nat
                   /\ Gap \in Nat \ {0} /\ Gap <= Window /\ Gap <= Lockout
  BY RateLimitAssumption DEF Gap

\* The types of what is kept of a source.
LEMMA Source1 ==
  ASSUME LimiterTypeOK, NEW s \in Source
  PROVE  /\ failures[s] \in Seq(0..MaxTime) /\ Len(failures[s]) \in Nat
         /\ DOMAIN failures[s] = 1..Len(failures[s])
         /\ \A i \in DOMAIN failures[s] : failures[s][i] \in 0..MaxTime
         /\ Len(failures[s]) < MaxAttempts
         /\ judged[s] \in Seq(0..MaxTime) /\ Len(judged[s]) \in Nat
         /\ DOMAIN judged[s] = 1..Len(judged[s])
         /\ \A i \in DOMAIN judged[s] : judged[s][i] \in 0..MaxTime
         /\ blockedUntil[s] \in 0..(MaxTime + Lockout) /\ now \in 0..MaxTime
<1>1. failures[s] \in Seq(0..MaxTime) /\ judged[s] \in Seq(0..MaxTime)
  BY DEF LimiterTypeOK
<1>2. /\ Len(failures[s]) \in Nat /\ failures[s] \in [1..Len(failures[s]) -> 0..MaxTime]
      /\ DOMAIN failures[s] = 1..Len(failures[s])
  BY <1>1, LenProperties
<1>3. /\ Len(judged[s]) \in Nat /\ judged[s] \in [1..Len(judged[s]) -> 0..MaxTime]
      /\ DOMAIN judged[s] = 1..Len(judged[s])
  BY <1>1, LenProperties
<1> QED BY <1>1, <1>2, <1>3 DEF LimiterTypeOK

\* The deque loses its first p failures, the last of which is not after the cutoff.
LEMMA LivePart ==
  ASSUME LimiterTypeOK, NEW s \in Source, NEW cutoff \in Int
  PROVE  \E p \in 0..Len(failures[s]) :
           /\ Live(s, cutoff) \in Seq(0..MaxTime)
           /\ Len(Live(s, cutoff)) = Len(failures[s]) - p
           /\ \A k \in 1..Len(failures[s]) - p : Live(s, cutoff)[k] = failures[s][p + k]
           /\ p > 0 => failures[s][p] <= cutoff
<1> DEFINE d == failures[s]
           kept == {i \in 1..Len(d) + 1 : i <= Len(d) => d[i] > cutoff}
           first == CHOOSE i \in kept : \A j \in kept : i <= j
<1>1. /\ Len(d) \in Nat /\ DOMAIN d = 1..Len(d)
      /\ \A i \in 1..Len(d) : d[i] \in 0..MaxTime
  BY Source1
<1>2. Live(s, cutoff) = SubSeq(d, first, Len(d))
  BY DEF Live
<1>3. first \in kept /\ \A j \in kept : first <= j
  <2>1. kept \in SUBSET Nat /\ Len(d) + 1 \in kept
    BY <1>1
  <2>2. \E i \in kept : \A j \in kept : i <= j
    <3> HIDE DEF kept
    <3> QED BY <2>1, Least
  <2> QED BY <2>2
<1> HIDE DEF first
<1>4. first \in 1..Len(d) + 1 /\ (first > 1 => d[first - 1] <= cutoff)
  <2>1. first \in 1..Len(d) + 1
    BY <1>3
  <2>2. ASSUME first > 1 PROVE d[first - 1] <= cutoff
    <3>1. first - 1 \in 1..Len(d) /\ first - 1 \notin kept
      BY <1>1, <1>3, <2>1, <2>2
    <3> QED BY <1>1, <3>1
  <2> QED BY <2>1, <2>2
<1> HIDE DEF d, kept
<1>5. /\ SubSeq(d, first, Len(d)) \in Seq(0..MaxTime)
      /\ Len(SubSeq(d, first, Len(d))) = IF first <= Len(d) THEN Len(d) - first + 1 ELSE 0
      /\ \A i \in 1..Len(d) - first + 1 : SubSeq(d, first, Len(d))[i] = d[first + i - 1]
  <2>1. \A i \in first..Len(d) : d[i] \in 0..MaxTime
    BY <1>1, <1>4
  <2> QED BY <1>1, <1>4, <2>1, SubSeqProperties
<1>6. first - 1 \in 0..Len(d)
  BY <1>1, <1>4
<1>7. Len(Live(s, cutoff)) = Len(d) - (first - 1)
  BY <1>1, <1>2, <1>4, <1>5
<1>8. \A k \in 1..Len(d) - (first - 1) : Live(s, cutoff)[k] = d[first - 1 + k]
  BY <1>1, <1>2, <1>4, <1>5
<1> QED BY <1>2, <1>4, <1>5, <1>6, <1>7, <1>8 DEF d

\* The same of the deque with the new failure.
LEMMA RecentPart ==
  ASSUME LimiterTypeOK, NEW s \in Source
  PROVE  \E p \in 0..Len(failures[s]) :
           /\ Recent(s) \in Seq(0..MaxTime)
           /\ Len(Recent(s)) = Len(failures[s]) - p + 1
           /\ \A k \in 1..Len(failures[s]) - p : Recent(s)[k] = failures[s][p + k]
           /\ Recent(s)[Len(failures[s]) - p + 1] = now
           /\ p > 0 => failures[s][p] + Window <= now
<1>1. now \in 0..MaxTime /\ now - Window \in Int /\ Len(failures[s]) \in Nat
  BY Source1, Constants
<1>2. PICK p \in 0..Len(failures[s]) :
        /\ Live(s, now - Window) \in Seq(0..MaxTime)
        /\ Len(Live(s, now - Window)) = Len(failures[s]) - p
        /\ \A k \in 1..Len(failures[s]) - p : Live(s, now - Window)[k] = failures[s][p + k]
        /\ p > 0 => failures[s][p] <= now - Window
  BY <1>1, LivePart
<1> DEFINE live == Live(s, now - Window)
<1> HIDE DEF live
<1>3. /\ Append(live, now) \in Seq(0..MaxTime) /\ Len(Append(live, now)) = Len(live) + 1
      /\ \A k \in 1..Len(live) : Append(live, now)[k] = live[k]
      /\ Append(live, now)[Len(live) + 1] = now
  BY <1>1, <1>2, AppendProperties DEF live
<1>4. p > 0 => failures[s][p] + Window <= now
  <2>1. p > 0 => p \in DOMAIN failures[s] /\ failures[s][p] \in Int
    BY <1>2, Source1
  <2> QED BY <1>1, <1>2, <2>1, Constants
<1>5. Recent(s) = Append(live, now)
  BY DEF Recent, live
<1>6. /\ Len(live) = Len(failures[s]) - p
      /\ \A k \in 1..Len(failures[s]) - p : live[k] = failures[s][p + k]
  BY <1>2 DEF live
<1>7. WITNESS p \in 0..Len(failures[s])
<1> QED BY <1>3, <1>4, <1>5, <1>6

-----------------------------------------------------------------------------
(* The limiter and what it keeps of a source                                *)

\* What a step leaves alone of a source stays true of it while time passes.
LEMMA SourceFrame ==
  ASSUME LimiterTypeOK, NEW s \in Source, InOrder(s), Remembered(s), Spaced(s),
         failures'[s] = failures[s], judged'[s] = judged[s], blockedUntil'[s] = blockedUntil[s],
         now' \in 0..MaxTime, now <= now'
  PROVE  InOrder(s)' /\ Remembered(s)' /\ Spaced(s)'
<1>1. InOrder(s)'
  BY Source1 DEF InOrder
<1>2. Remembered(s)'
  BY DEF Remembered
<1>3. Spaced(s)'
  BY DEF Spaced
<1> QED BY <1>1, <1>2, <1>3

\* After a success nothing is remembered.
LEMMA SuccessLimits ==
  ASSUME LimiterTypeOK, Limits, NEW s \in Source, Success(s)
  PROVE  LimiterTypeOK' /\ Limits'
<1>1. /\ failures' = [failures EXCEPT ![s] = <<>>] /\ judged' = [judged EXCEPT ![s] = <<>>]
      /\ blockedUntil' = [blockedUntil EXCEPT ![s] = 0] /\ UNCHANGED now
  BY DEF Success
<1>2. LimiterTypeOK'
  BY <1>1, Constants, EmptySeq DEF LimiterTypeOK
<1>3. ASSUME NEW t \in Source PROVE InOrder(t)' /\ Remembered(t)' /\ Spaced(t)'
  <2>1. CASE t = s
    <3>1. failures'[s] = <<>> /\ judged'[s] = <<>>
      BY <1>1 DEF LimiterTypeOK
    <3> QED BY <2>1, <3>1 DEF InOrder, Remembered, Spaced
  <2>2. CASE t # s
    <3>1. /\ failures'[t] = failures[t] /\ judged'[t] = judged[t]
          /\ blockedUntil'[t] = blockedUntil[t] /\ now' \in 0..MaxTime /\ now <= now'
      BY <1>1, <2>2, Source1 DEF LimiterTypeOK
    <3> QED BY <3>1, SourceFrame DEF Limits
  <2> QED BY <2>1, <2>2
<1> QED BY <1>2, <1>3 DEF Limits

\* A failure comes last, and a Gap after those the deque has lost.
LEMMA FailureTracked ==
  ASSUME LimiterTypeOK, NEW s \in Source, InOrder(s), Remembered(s), Spaced(s), ~Blocked(s),
         Failure(s)
  PROVE  InOrder(s)' /\ Remembered(s)' /\ Spaced(s)'
<1> DEFINE j == judged[s]
           n == Len(j)
           d == Len(failures[s])
<1>1. /\ j \in Seq(0..MaxTime) /\ n \in Nat /\ DOMAIN j = 1..n
      /\ \A i \in 1..n : j[i] \in 0..MaxTime
      /\ d \in Nat /\ d < MaxAttempts /\ DOMAIN failures[s] = 1..d
      /\ now \in 0..MaxTime /\ blockedUntil[s] \in Nat
  BY Source1, Constants
<1>2. /\ \A i \in 1..n : j[i] <= now
      /\ \A i, k \in 1..n : i <= k => j[i] <= j[k]
  BY <1>1 DEF InOrder
<1>3. /\ n - d >= 0 /\ \A k \in 1..d : failures[s][k] = j[n - d + k]
      /\ n - d > 0 => j[n - d] + Gap <= blockedUntil[s] \/ j[n - d] + Gap <= j[n]
  BY <1>1 DEF Remembered
<1>4. blockedUntil[s] <= now
  BY <1>1 DEF Blocked
<1> HIDE DEF j, n, d
<1>5. n - d > 0 => j[n - d] + Gap <= now
  <2>1. n - d > 0 => n - d \in 1..n /\ n \in 1..n
    BY <1>1, <1>3
  <2> QED BY <1>1, <1>2, <1>3, <1>4, <2>1, Constants
<1>6. judged' = [judged EXCEPT ![s] = Append(j, now)] /\ UNCHANGED now
  BY DEF Failure, j
<1> DEFINE jj == judged'[s]
<1>7. /\ jj \in Seq(0..MaxTime) /\ Len(jj) = n + 1 /\ DOMAIN jj = 1..n + 1
      /\ \A i \in 1..n : jj[i] = j[i]
      /\ jj[n + 1] = now
  <2>1. jj = Append(j, now)
    BY <1>6 DEF LimiterTypeOK
  <2>2. /\ Append(j, now) \in Seq(0..MaxTime) /\ Len(Append(j, now)) = n + 1
        /\ \A i \in 1..n : Append(j, now)[i] = j[i]
        /\ Append(j, now)[n + 1] = now
    BY <1>1, AppendProperties
  <2>3. DOMAIN Append(j, now) = 1..n + 1
    BY <2>2, LenProperties
  <2> QED BY <2>1, <2>2, <2>3
<1> HIDE DEF jj
<1>8. InOrder(s)'
  <2>1. \A i \in 1..n + 1 : i \in 1..n \/ i = n + 1
    BY <1>1
  <2>2. \A i \in 1..n + 1 : jj[i] <= now
    BY <1>1, <1>2, <1>7, <2>1
  <2>3. \A i, k \in 1..n + 1 : i <= k => jj[i] <= jj[k]
    BY <1>1, <1>2, <1>7, <2>1, <2>2
  <2> QED BY <1>6, <1>7, <2>2, <2>3 DEF InOrder, jj
<1>9. Spaced(s)'
  <2> SUFFICES ASSUME NEW i \in 1..n + 1, i + MaxAttempts \in 1..n + 1
               PROVE  jj[i] + Gap <= jj[i + MaxAttempts]
    BY <1>7 DEF Spaced, jj
  <2>1. i \in 1..n
    BY <1>1, Constants
  <2>2. CASE i + MaxAttempts \in 1..n
    <3>1. j[i] + Gap <= j[i + MaxAttempts]
      BY <1>1, <2>1, <2>2 DEF Spaced, j
    <3> QED BY <1>7, <2>1, <2>2, <3>1
  <2>3. CASE i + MaxAttempts = n + 1
    <3>1. n - d \in 1..n /\ i <= n - d
      BY <1>1, <1>3, <2>1, <2>3, Constants
    <3>2. j[i] <= j[n - d] /\ j[i] \in Nat /\ j[n - d] \in Nat
      BY <1>1, <1>2, <2>1, <3>1
    <3>3. j[n - d] + Gap <= now
      BY <1>1, <1>5, <3>1
    <3>4. jj[i] = j[i] /\ jj[i + MaxAttempts] = now
      BY <1>7, <2>1, <2>3
    <3>5. now \in Int /\ Gap \in Int
      BY <1>1, Constants
    <3>6. j[i] + Gap <= now
      BY <3>2, <3>3, <3>5
    <3> QED BY <3>4, <3>6
  <2> QED BY <1>1, <2>2, <2>3, Constants
<1>10. Remembered(s)'
  <2>1. CASE ~Exhausted(s)
    <3>1. failures'[s] = Recent(s)
      BY <2>1 DEF Failure, LimiterTypeOK
    <3>2. PICK p \in 0..d :
            /\ Recent(s) \in Seq(0..MaxTime) /\ Len(Recent(s)) = d - p + 1
            /\ \A k \in 1..d - p : Recent(s)[k] = failures[s][p + k]
            /\ Recent(s)[d - p + 1] = now
            /\ p > 0 => failures[s][p] + Window <= now
      BY RecentPart DEF d
    <3>3. DOMAIN Recent(s) = 1..d - p + 1
      BY <3>2, LenProperties
    <3> DEFINE gone == n + 1 - (d - p + 1)
    <3>4. gone = n - d + p /\ gone \in 0..n
      BY <1>1, <1>3
    <3>5. ASSUME NEW k \in 1..d - p + 1 PROVE Recent(s)[k] = jj[gone + k]
      <4>1. CASE k = d - p + 1
        <5>1. gone + k = n + 1
          BY <1>1, <3>4, <4>1
        <5> QED BY <1>7, <3>2, <4>1, <5>1
      <4>2. CASE k \in 1..d - p
        <5>1. p + k \in 1..d /\ n - d + (p + k) \in 1..n /\ gone + k = n - d + (p + k)
          BY <1>1, <1>3, <3>4, <4>2
        <5>2. Recent(s)[k] = j[n - d + (p + k)]
          BY <1>3, <3>2, <4>2, <5>1
        <5> QED BY <1>7, <5>1, <5>2
      <4> QED BY <1>1, <4>1, <4>2
    <3>6. ASSUME gone > 0 PROVE jj[gone] + Gap <= now
      <4>1. gone \in 1..n /\ jj[gone] = j[gone] /\ j[gone] \in Nat
        BY <1>1, <1>7, <3>4, <3>6
      <4>2. CASE p > 0
        <5>1. p \in 1..d /\ failures[s][p] = j[gone]
          BY <1>1, <1>3, <3>4, <4>2
        <5> QED BY <1>1, <3>2, <4>1, <4>2, <5>1, Constants
      <4>3. CASE p = 0
        <5>1. gone = n - d
          BY <1>1, <3>4, <4>3
        <5> QED BY <1>1, <1>5, <3>6, <4>1, <5>1
      <4> QED BY <4>2, <4>3
    <3> HIDE DEF gone
    <3>7. gone = Len(judged'[s]) - Len(failures'[s]) /\ gone >= 0
      BY <1>1, <1>7, <3>1, <3>2, <3>4 DEF gone, jj
    <3>8. \A k \in DOMAIN failures'[s] : failures'[s][k] = judged'[s][gone + k]
      BY <3>1, <3>3, <3>5 DEF jj
    <3>9. gone > 0 => judged'[s][gone] + Gap <= judged'[s][Len(judged'[s])]
      BY <1>7, <3>6 DEF jj
    <3> QED BY <3>7, <3>8, <3>9 DEF Remembered
  <2>2. CASE Exhausted(s)
    <3>1. failures'[s] = <<>> /\ blockedUntil'[s] = now + Lockout
      BY <2>2 DEF Failure, LimiterTypeOK
    <3>2. Len(failures'[s]) = 0 /\ DOMAIN failures'[s] = {}
      BY <3>1
    <3>3. judged'[s][n + 1] + Gap <= blockedUntil'[s]
      BY <1>1, <1>7, <3>1, Constants DEF jj
    <3> QED BY <1>1, <1>7, <3>2, <3>3 DEF Remembered, jj
  <2> QED BY <2>1, <2>2
<1> QED BY <1>8, <1>9, <1>10

\* A failure keeps the limits.
LEMMA FailureLimits ==
  ASSUME LimiterTypeOK, Limits, NEW s \in Source, ~Blocked(s), Failure(s)
  PROVE  LimiterTypeOK' /\ Limits'
<1>1. /\ judged' = [judged EXCEPT ![s] = Append(judged[s], now)] /\ UNCHANGED now
      /\ \/ /\ ~Exhausted(s) /\ failures' = [failures EXCEPT ![s] = Recent(s)]
            /\ UNCHANGED blockedUntil
         \/ /\ failures' = [failures EXCEPT ![s] = <<>>]
            /\ blockedUntil' = [blockedUntil EXCEPT ![s] = now + Lockout]
  BY DEF Failure
<1>2. now \in 0..MaxTime /\ judged[s] \in Seq(0..MaxTime)
  BY Source1
<1>3. Append(judged[s], now) \in Seq(0..MaxTime)
  BY <1>2, AppendProperties
<1>4. judged' \in [Source -> Seq(0..MaxTime)]
  BY <1>1, <1>3 DEF LimiterTypeOK
<1>5. failures' \in [Source -> Seq(0..MaxTime)] /\ \A t \in Source : Len(failures'[t]) < MaxAttempts
  <2>1. CASE ~Exhausted(s) /\ failures' = [failures EXCEPT ![s] = Recent(s)]
    <3>1. Recent(s) \in Seq(0..MaxTime) /\ Len(Recent(s)) < MaxAttempts
      <4>1. Recent(s) \in Seq(0..MaxTime)
        BY RecentPart
      <4>2. Len(Recent(s)) \in Nat
        BY <4>1, LenProperties
      <4> QED BY <2>1, <4>1, <4>2, Constants DEF Exhausted
    <3> QED BY <2>1, <3>1 DEF LimiterTypeOK
  <2>2. CASE failures' = [failures EXCEPT ![s] = <<>>]
    BY <2>2, Constants, EmptySeq DEF LimiterTypeOK
  <2> QED BY <1>1, <2>1, <2>2
<1>6. blockedUntil' \in [Source -> 0..(MaxTime + Lockout)]
  <2>1. now + Lockout \in 0..(MaxTime + Lockout)
    BY <1>2, Constants
  <2> QED BY <1>1, <2>1 DEF LimiterTypeOK
<1>7. LimiterTypeOK'
  BY <1>1, <1>4, <1>5, <1>6 DEF LimiterTypeOK
<1>8. ASSUME NEW t \in Source PROVE InOrder(t)' /\ Remembered(t)' /\ Spaced(t)'
  <2>1. CASE t = s
    BY <2>1, FailureTracked DEF Limits
  <2>2. CASE t # s
    <3>1. /\ failures'[t] = failures[t] /\ judged'[t] = judged[t]
          /\ blockedUntil'[t] = blockedUntil[t] /\ now' \in 0..MaxTime /\ now <= now'
      BY <1>1, <1>2, <2>2 DEF LimiterTypeOK
    <3> QED BY <3>1, SourceFrame DEF Limits
  <2> QED BY <2>1, <2>2
<1> QED BY <1>7, <1>8 DEF Limits

\* Time passes.
LEMMA TickLimits ==
  ASSUME LimiterTypeOK, Limits, Tick \/ UNCHANGED limiterVars
  PROVE  LimiterTypeOK' /\ Limits'
<1>1. now' \in 0..MaxTime /\ now <= now' /\ UNCHANGED <<failures, blockedUntil, judged>>
  BY Constants DEF Tick, LimiterTypeOK
<1>2. LimiterTypeOK'
  BY <1>1 DEF LimiterTypeOK
<1>3. \A s \in Source : InOrder(s)' /\ Remembered(s)' /\ Spaced(s)'
  BY <1>1, SourceFrame DEF Limits
<1> QED BY <1>2, <1>3 DEF Limits

-----------------------------------------------------------------------------
(* What a source may have judged in a window                                *)

\* Failures that are r times MaxAttempts apart are r Gaps apart in time.
LEMMA Stride ==
  ASSUME LimiterTypeOK, NEW s \in Source, Spaced(s), NEW i \in DOMAIN judged[s],
         NEW r \in Nat, i + MaxAttempts * r \in DOMAIN judged[s]
  PROVE  judged[s][i] + r * Gap <= judged[s][i + MaxAttempts * r]
<1> DEFINE j == judged[s]
           short == {q \in Nat : /\ i + MaxAttempts * q \in DOMAIN j
                                 /\ ~ (j[i] + q * Gap <= j[i + MaxAttempts * q])}
<1>1. /\ Len(j) \in Nat /\ DOMAIN j = 1..Len(j)
      /\ \A k \in 1..Len(j) : j[k] \in Nat
  <2>1. /\ Len(j) \in Nat /\ DOMAIN j = 1..Len(j)
        /\ \A k \in DOMAIN j : j[k] \in 0..MaxTime
    BY Source1
  <2>2. 0..MaxTime \subseteq Nat
    BY Constants
  <2> HIDE DEF j, short
  <2> QED BY <2>1, <2>2
<1>2. \A k \in 1..Len(j) : k + MaxAttempts \in 1..Len(j) => j[k] + Gap <= j[k + MaxAttempts]
  BY <1>1 DEF Spaced
<1>3. i \in 1..Len(j)
  BY <1>1
<1> HIDE DEF j
<1>4. ASSUME short # {} PROVE FALSE
  <2>1. short \in SUBSET Nat
    OBVIOUS
  <2>2. PICK q \in short : \A p \in short : q <= p
    <3> HIDE DEF short
    <3> QED BY <1>4, <2>1, Least
  <2>3. /\ q \in Nat /\ i + MaxAttempts * q \in 1..Len(j)
        /\ ~ (j[i] + q * Gap <= j[i + MaxAttempts * q])
    BY <1>1, <2>2
  <2>4. q # 0
    BY <1>1, <1>3, <2>3, Constants
  <2> DEFINE k == i + MaxAttempts * (q - 1)
  <2>5. q - 1 \in Nat /\ k + MaxAttempts = i + MaxAttempts * q
    BY <1>3, <2>3, <2>4, Constants
  <2>6. MaxAttempts * (q - 1) \in Nat
    BY <2>5, Constants
  <2>7. k \in 1..Len(j)
    BY <1>1, <1>3, <2>3, <2>5, <2>6, Constants
  <2>8. q - 1 \notin short
    BY <2>2, <2>3, <2>5
  <2>9. j[i] + (q - 1) * Gap <= j[k]
    BY <1>1, <2>5, <2>7, <2>8
  <2> HIDE DEF k
  <2>10. j[k] + Gap <= j[i + MaxAttempts * q]
    BY <1>2, <2>3, <2>5, <2>7
  <2>11. q * Gap = (q - 1) * Gap + Gap /\ (q - 1) * Gap \in Nat
    BY <2>3, <2>5, Constants
  <2>12. j[i] \in Nat /\ j[k] \in Nat /\ j[i + MaxAttempts * q] \in Nat
    BY <1>1, <1>3, <2>3, <2>7
  <2> QED BY <2>3, <2>9, <2>10, <2>11, <2>12, Constants
<1>5. r \notin short
  BY <1>4
<1> QED BY <1>5 DEF j

\* As many Gaps as bursts are promised make a window.
LEMMA WindowIsFull ==
  LET bursts == 1 + (Window - 1) \div Lockout
  IN  bursts \in Nat \ {0} /\ bursts * Gap >= Window
<1> DEFINE q == (Window - 1) \div Lockout
<1>1. q \in Nat /\ Window - 1 < Lockout * (q + 1)
  BY Constants
<1> HIDE DEF q
<1>2. CASE Lockout < Window
  <2>1. Gap = Lockout
    BY <1>2 DEF Gap
  <2> QED BY <1>1, <2>1, Constants DEF q
<1>3. CASE ~ (Lockout < Window)
  <2>1. Gap = Window
    BY <1>3 DEF Gap
  <2>2. (1 + q) * Window = Window + q * Window /\ q * Window \in Nat
    BY <1>1, Constants
  <2> QED BY <1>1, <2>1, <2>2, Constants DEF q
<1> QED BY <1>2, <1>3

\* The limits bound every burst.
LEMMA Bursts ==
  ASSUME LimiterTypeOK, NEW s \in Source, InOrder(s), Spaced(s), NEW from \in Int
  PROVE  JudgedWithin(s, from) <= MaxAttempts * (1 + (Window - 1) \div Lockout)
<1> DEFINE j == judged[s]
           within == {i \in DOMAIN j : from < j[i] /\ j[i] <= from + Window}
           bursts == 1 + (Window - 1) \div Lockout
           K == MaxAttempts * bursts
<1>1. /\ Len(j) \in Nat /\ DOMAIN j = 1..Len(j)
      /\ \A i \in 1..Len(j) : j[i] \in Nat
  BY Source1, Constants
<1>2. \A i, k \in 1..Len(j) : i <= k => j[i] <= j[k]
  BY <1>1 DEF InOrder
<1>3. bursts \in Nat \ {0} /\ bursts * Gap >= Window
  BY WindowIsFull
<1> HIDE DEF bursts
<1>4. K \in Nat /\ K > 0
  <2>1. ASSUME NEW a \in Nat \ {0}, NEW b \in Nat \ {0} PROVE a * b \in Nat /\ a * b > 0
    OBVIOUS
  <2> QED BY <1>3, <2>1, Constants
<1>5. JudgedWithin(s, from) = Cardinality(within)
  BY DEF JudgedWithin
<1>6. CASE within = {}
  <2>1. Cardinality(within) = 0
    BY <1>6, FS_EmptySet
  <2>2. 0 <= K
    BY <1>4
  <2> HIDE DEF within
  <2> QED BY <1>5, <2>1, <2>2 DEF bursts
<1>7. CASE within # {}
  <2>1. within \in SUBSET Nat
    BY <1>1
  <2>2. PICK lo \in within : \A i \in within : lo <= i
    <3> HIDE DEF within
    <3> QED BY <1>7, <2>1, Least
  <2>3. lo \in 1..Len(j) /\ from < j[lo]
    BY <1>1, <2>2
  <2>4. within \subseteq lo..(lo + K - 1)
    <3> SUFFICES ASSUME NEW i \in within, i >= lo + K PROVE FALSE
      BY <1>1, <1>4, <2>2, <2>3
    <3>1. i \in 1..Len(j) /\ j[i] <= from + Window
      BY <1>1
    <3>2. lo + K \in 1..Len(j)
      BY <1>1, <1>4, <2>3, <3>1
    <3>3. j[lo + K] <= j[i]
      BY <1>2, <3>1, <3>2
    <3>4. j[lo] + bursts * Gap <= j[lo + K]
      BY <1>1, <1>3, <2>3, <3>2, Stride
    <3>5. bursts * Gap \in Int
      BY <1>3, Constants
    <3>6. j[lo] \in Nat /\ j[i] \in Nat /\ j[lo + K] \in Nat
      BY <1>1, <2>3, <3>1, <3>2
    <3> HIDE DEF K, within, j
    <3> QED BY <1>3, <2>3, <3>1, <3>3, <3>4, <3>5, <3>6, Constants
  <2>5. IsFiniteSet(lo..(lo + K - 1)) /\ Cardinality(lo..(lo + K - 1)) = K
    <3> HIDE DEF K
    <3>1. lo \in Int /\ lo + K - 1 \in Int /\ ~ (lo > lo + K - 1) /\ (lo + K - 1) - lo + 1 = K
      BY <1>4, <2>3
    <3> QED BY <3>1, FS_Interval
  <2>6. Cardinality(within) <= K
    <3> HIDE DEF within
    <3> QED BY <2>4, <2>5, FS_Subset
  <2> QED BY <1>5, <2>6 DEF bursts
<1> QED BY <1>6, <1>7

-----------------------------------------------------------------------------
(* Access Keys                                                              *)

\* The parts of the invariant that the steps need.
LEMMA Parts ==
  ASSUME IInv
  PROVE  /\ LimiterTypeOK /\ Limits
         /\ MaxKeys \in Nat /\ MaxRequests \in Nat /\ MaxMetaFaults \in Nat
         /\ lastKey \in 0..MaxKeys /\ DOMAIN keys \subseteq 1..lastKey
         /\ DOMAIN keys \subseteq 1..MaxKeys
         /\ \A k \in DOMAIN keys : /\ keys[k] \in Row /\ keys[k].uses = admitted[k]
                                   /\ \A i \in DOMAIN keys : keys[i].token = keys[k].token => i = k
         /\ requests \in 0..MaxRequests /\ faults \in 0..MaxMetaFaults
         /\ attempt \in Attempt /\ watch \in [seen : SUBSET (1..MaxKeys), steady : BOOLEAN]
         /\ admitted \in [1..MaxKeys -> Nat]
<1>1. keys \in [DOMAIN keys -> Row]
  BY DEF IInv, Records
<1> QED BY <1>1, AuthenticationAssumption DEF IInv, TypeOK, Records, UsesAreCounted

\* What an attempt is.
LEMMA Attempts ==
  ASSUME NEW a \in Attempt
  PROVE  /\ a.at \in {"none", "judging", "counting"}
         /\ a.at = "none" <=> a = NoAttempt
         /\ a.at # "none" => a.source \in ApiSource /\ a.token \in Token
         /\ a.at = "counting" => a.key \in 1..MaxKeys
BY DEF Attempt, NoAttempt

\* Ids are not given twice, so a table whose rows are as before, or new with no use, keeps
\* the invariant; whatever the attempt in progress may meet in it is watched.
LEMMA TableIInv ==
  ASSUME IInv, UNCHANGED <<limiterVars, attempt, requests, faults, admitted>>,
         watch' = Watched(attempt, watch, keys'),
         keys' \in [DOMAIN keys' -> Row], lastKey' \in lastKey..MaxKeys,
         DOMAIN keys' \subseteq 1..lastKey',
         \A k \in DOMAIN keys' : /\ keys'[k].uses = admitted[k]
                                 /\ \A i \in DOMAIN keys' : keys'[i].token = keys'[k].token => i = k
  PROVE  IInv'
<1> DEFINE active == Holders(keys', attempt.token)
<1>1. LimiterTypeOK' /\ Limits'
  BY TickLimits, Parts
<1>2. \A k \in DOMAIN keys' : keys'[k] \in Row
  OBVIOUS
<1>3. lastKey' \in 0..MaxKeys /\ DOMAIN keys' \subseteq 1..MaxKeys
  BY Parts
<1>4. TypeOK'
  <2>1. \A k \in DOMAIN keys' : /\ keys'[k].token \in Token /\ keys'[k].active \in BOOLEAN
                                /\ keys'[k].uses \in 0..MaxRequests
    BY <1>2 DEF Row
  <2>2. attempt.at \in {"none", "judging", "counting"}
    BY Parts, Attempts
  <2>3. attempt.at = "counting" => attempt.key \in 1..lastKey'
    <3>1. attempt.at = "counting" => attempt.key \in 1..lastKey
      BY DEF IInv, TypeOK
    <3> QED BY <3>1, Parts
  <2> QED BY <1>1, <1>3, <2>1, <2>2, <2>3, Parts DEF TypeOK
<1>5. watch' \in [seen : SUBSET (1..MaxKeys), steady : BOOLEAN]
  <2>1. CASE attempt = NoAttempt
    BY <2>1 DEF Watched, NoWatch
  <2>2. CASE attempt # NoAttempt
    <3>1. watch' = [seen |-> watch.seen \cup {k \in DOMAIN keys' : keys'[k].token = attempt.token
                                                                   /\ keys'[k].active},
                    steady |-> watch.steady /\ \E k \in DOMAIN keys' :
                                 keys'[k].token = attempt.token /\ keys'[k].active]
      BY <2>2 DEF Watched
    <3>2. watch.seen \subseteq 1..MaxKeys
      BY Parts
    <3> QED BY <1>3, <3>1, <3>2
  <2> QED BY <2>1, <2>2
<1>6. Records'
  BY <1>5, Parts DEF Records
<1>7. Uses'
  BY Parts DEF IInv, Uses
<1>8. attempt.at # "none" => /\ watch.seen \subseteq watch'.seen /\ active \subseteq watch'.seen
                             /\ watch'.steady => active # {}
  <2> SUFFICES ASSUME attempt.at # "none"
               PROVE  /\ watch.seen \subseteq watch'.seen /\ active \subseteq watch'.seen
                      /\ watch'.steady => active # {}
    OBVIOUS
  <2>1. attempt # NoAttempt
    BY DEF NoAttempt
  <2>2. active = {k \in DOMAIN keys' : keys'[k].token = attempt.token /\ keys'[k].active}
    BY DEF Holders, Holds
  <2>3. watch'.seen = watch.seen \cup active
    BY <2>1, <2>2 DEF Watched
  <2>4. watch'.steady => \E k \in DOMAIN keys' : keys'[k].token = attempt.token /\ keys'[k].active
    BY <2>1 DEF Watched
  <2> QED BY <2>2, <2>3, <2>4
<1>9. attempt.at = "judging" => ~ Blocked(attempt.source)'
  BY DEF IInv, Watching, Blocked
<1>10. Watching'
  BY <1>8, <1>9 DEF Watching, active
<1>11. AcceptedWasActive'
  BY <1>8 DEF IInv, AcceptedWasActive
<1>12. UsesAreCounted'
  BY DEF UsesAreCounted
<1> QED BY <1>4, <1>1, <1>6, <1>7, <1>10, <1>11, <1>12 DEF IInv

\* Administrators preserve the invariant, at whatever moment of an attempt.
LEMMA AdministerIInv == ASSUME IInv, Administer PROVE IInv'
<1>1. /\ UNCHANGED <<limiterVars, attempt, requests, faults, admitted>>
      /\ watch' = Watched(attempt, watch, keys')
  BY DEF Administer
<1>2. ASSUME NEW t \in Token, NEW active \in BOOLEAN, CreateKey(t, active) PROVE IInv'
  <2> DEFINE row == [token |-> t, active |-> active, uses |-> 0]
  <2>1. /\ lastKey < MaxKeys /\ lastKey' = lastKey + 1
        /\ \A k \in DOMAIN keys : keys[k].token # t
        /\ keys' = [k \in DOMAIN keys \cup {lastKey + 1} |->
                     IF k = lastKey + 1 THEN row ELSE keys[k]]
    BY <1>2 DEF CreateKey, NextKey
  <2>2. row \in Row /\ row.token = t /\ row.uses = 0
    BY Parts DEF Row
  <2> HIDE DEF row
  <2>3. /\ lastKey + 1 \notin DOMAIN keys /\ DOMAIN keys' = DOMAIN keys \cup {lastKey + 1}
        /\ keys'[lastKey + 1] = row /\ \A k \in DOMAIN keys : keys'[k] = keys[k]
    BY <2>1, Parts
  <2>4. admitted[lastKey + 1] = 0
    BY <2>1, Parts DEF IInv, Uses
  <2>5. lastKey' \in lastKey..MaxKeys /\ DOMAIN keys' \subseteq 1..lastKey'
    BY <2>1, <2>3, Parts
  <2>6. \A k \in DOMAIN keys' : keys'[k] \in Row /\ keys'[k].uses = admitted[k]
    BY <2>2, <2>3, <2>4, Parts
  <2>7. keys' \in [DOMAIN keys' -> Row]
    BY <2>1, <2>6
  <2>8. \A i, k \in DOMAIN keys' : keys'[i].token = keys'[k].token => i = k
    BY <2>1, <2>2, <2>3, Parts
  <2> QED BY <1>1, <2>5, <2>6, <2>7, <2>8, TableIInv
<1>3. ASSUME NEW k \in DOMAIN keys, NEW active \in BOOLEAN, UpdateKey(k, active) PROVE IInv'
  <2>1. keys' = [keys EXCEPT ![k].active = active] /\ UNCHANGED lastKey
    BY <1>3 DEF UpdateKey
  <2>2. DOMAIN keys' = DOMAIN keys /\ keys' \in [DOMAIN keys' -> Row]
    <3>1. keys[k] \in Row
      BY Parts
    <3>2. [keys[k] EXCEPT !.active = active] \in Row
      BY <3>1 DEF Row
    <3>3. /\ DOMAIN keys' = DOMAIN keys
          /\ keys' = [i \in DOMAIN keys |->
                       IF i = k THEN [keys[k] EXCEPT !.active = active] ELSE keys[i]]
      BY <2>1, Parts DEF IInv, Records
    <3> QED BY <3>2, <3>3, Parts
  <2>3. \A i \in DOMAIN keys : keys'[i].token = keys[i].token /\ keys'[i].uses = keys[i].uses
    BY <2>1, Parts DEF Row
  <2> QED BY <1>1, <2>1, <2>2, <2>3, Parts, TableIInv
<1>4. ASSUME NEW k \in DOMAIN keys, DeleteKey(k) PROVE IInv'
  <2>1. keys' = [i \in DOMAIN keys \ {k} |-> keys[i]] /\ UNCHANGED lastKey
    BY <1>4 DEF DeleteKey
  <2>2. /\ DOMAIN keys' = DOMAIN keys \ {k} /\ keys' \in [DOMAIN keys' -> Row]
        /\ \A i \in DOMAIN keys' : keys'[i] = keys[i]
    BY <2>1, Parts
  <2> QED BY <1>1, <2>1, <2>2, Parts, TableIInv
<1> QED BY <1>2, <1>3, <1>4 DEF Administer

-----------------------------------------------------------------------------
(* Attempts                                                                 *)

\* An attempt that ends, or goes on with the table as it is, keeps the invariant if its
\* own parts are kept.
LEMMA AttemptIInv ==
  ASSUME IInv, UNCHANGED keyVars, LimiterTypeOK', Limits',
         requests' \in 0..MaxRequests, faults' \in 0..MaxMetaFaults, requests <= requests',
         attempt' \in Attempt, watch' \in [seen : SUBSET (1..MaxKeys), steady : BOOLEAN],
         admitted' = admitted,
         attempt'.at # "none" => attempt.at # "none" \/ requests < requests',
         attempt'.at = "counting" => attempt'.key \in 1..lastKey,
         Watching', AcceptedWasActive'
  PROVE  IInv'
<1>1. TypeOK'
  <2>1. attempt'.at \in {"none", "judging", "counting"}
    BY Attempts
  <2> QED BY <2>1 DEF IInv, TypeOK
<1>2. Records'
  BY DEF IInv, Records
<1>3. Uses'
  <2> SUFFICES ASSUME NEW k \in 1..MaxKeys
               PROVE  /\ k > lastKey' => admitted'[k] = 0
                      /\ admitted'[k] <= requests'
                      /\ attempt'.at # "none" => admitted'[k] < requests'
    BY DEF Uses
  <2>1. /\ k > lastKey => admitted[k] = 0
        /\ admitted[k] <= requests
        /\ attempt.at # "none" => admitted[k] < requests
    BY DEF IInv, Uses
  <2>2. admitted[k] \in Nat /\ requests \in Nat /\ requests' \in Nat
    BY Parts
  <2> QED BY <2>1, <2>2
<1>4. UsesAreCounted'
  BY DEF IInv, UsesAreCounted
<1> QED BY <1>1, <1>2, <1>3, <1>4 DEF IInv

\* An attempt that does not go on has nothing to watch.
LEMMA NoneToWatch ==
  /\ NoAttempt.at = "none" /\ NoAttempt \in Attempt
  /\ NoWatch \in [seen : SUBSET (1..MaxKeys), steady : BOOLEAN]
  /\ attempt' = NoAttempt => Watching' /\ AcceptedWasActive'
<1>1. NoAttempt.at = "none"
  BY DEF NoAttempt
<1>2. attempt' = NoAttempt => attempt'.at = "none"
  BY <1>1
<1> QED BY <1>1, <1>2 DEF Attempt, NoWatch, Watching, AcceptedWasActive

\* Asking is counted.
LEMMA Asked ==
  ASSUME IInv, NEW s \in Source, Asks(s)
  PROVE  /\ attempt = NoAttempt /\ ~Blocked(s)
         /\ requests' = requests + 1 /\ requests' \in 0..MaxRequests /\ requests < requests'
BY Parts DEF Asks, MayTry

\* A metastore failure is counted.
LEMMA Faulted ==
  ASSUME IInv, MetaFails \/ UNCHANGED faults
  PROVE  faults' \in 0..MaxMetaFaults
BY Parts DEF MetaFails

\* TryAdmin preserves the invariant.
LEMMA TryAdminIInv ==
  ASSUME IInv, NEW s \in Source, NEW t \in Token, TryAdmin(s, t) PROVE IInv'
<1>1. /\ Asks(s) /\ UNCHANGED <<keyVars, attempt, faults, admitted, watch>>
      /\ Success(s) \/ Failure(s) \/ UNCHANGED limiterVars
  BY DEF TryAdmin
<1>2. attempt = NoAttempt /\ ~Blocked(s) /\ requests' \in 0..MaxRequests /\ requests <= requests'
  BY <1>1, Asked, Parts
<1>3. LimiterTypeOK' /\ Limits'
  BY <1>1, <1>2, Parts, SuccessLimits, FailureLimits, TickLimits
<1>4. Watching' /\ AcceptedWasActive'
  BY <1>1, <1>2, NoneToWatch
<1>5. attempt'.at = "none"
  BY <1>1, <1>2, NoneToWatch
<1> QED BY <1>1, <1>2, <1>3, <1>4, <1>5, Parts, AttemptIInv

\* TryKey preserves the invariant: what it begins to watch is what holds now.
LEMMA TryKeyIInv ==
  ASSUME IInv, NEW s \in Source, NEW t \in Token, TryKey(s, t) PROVE IInv'
<1>1. s \in ApiSource /\ Asks(s) /\ UNCHANGED <<limiterVars, keyVars, admitted>>
  BY DEF TryKey
<1>2. /\ attempt = NoAttempt /\ ~Blocked(s) /\ requests' \in 0..MaxRequests
      /\ requests < requests' /\ requests <= requests'
  BY <1>1, Asked, Parts
<1>3. LimiterTypeOK' /\ Limits'
  BY <1>1, Parts, TickLimits
<1>4. faults' \in 0..MaxMetaFaults
  BY Faulted DEF TryKey
<1>5. CASE UNCHANGED <<attempt, watch>>
  <2>1. Watching' /\ AcceptedWasActive' /\ attempt'.at = "none"
    BY <1>2, <1>5, NoneToWatch
  <2> QED BY <1>1, <1>2, <1>3, <1>4, <1>5, <2>1, Parts, AttemptIInv
<1>6. CASE /\ AnyActive
           /\ attempt' = [at |-> "judging", source |-> s, token |-> t]
           /\ watch' = Watched(attempt', [seen |-> {}, steady |-> TRUE], keys)
  <2>1. /\ attempt' \in Attempt /\ attempt'.at = "judging" /\ attempt'.source = s
        /\ attempt'.token = t /\ attempt' # NoAttempt
    <3>1. attempt'.at = "judging" /\ attempt'.source = s /\ attempt'.token = t
      BY <1>6
    <3>2. attempt' # NoAttempt
      BY <3>1, NoneToWatch
    <3> QED BY <1>1, <1>6, <3>1, <3>2 DEF Attempt
  <2> DEFINE active == Holders(keys, t)
  <2>2. active = {k \in DOMAIN keys : keys[k].token = t /\ keys[k].active}
    BY DEF Holders, Holds
  <2>3. /\ watch'.seen = active
        /\ watch' \in [seen : SUBSET (1..MaxKeys), steady : BOOLEAN]
        /\ watch'.steady => active # {}
    <3>1. watch' = [seen |-> {} \cup {k \in DOMAIN keys : keys[k].token = t /\ keys[k].active},
                    steady |-> TRUE /\ \E k \in DOMAIN keys : keys[k].token = t /\ keys[k].active]
      BY <1>6, <2>1 DEF Watched
    <3>2. active \subseteq 1..MaxKeys
      BY <2>2, Parts
    <3>3. watch'.seen = active
      BY <2>2, <3>1
    <3>4. watch'.steady = (\E k \in DOMAIN keys : keys[k].token = t /\ keys[k].active)
      BY <3>1
    <3>5. watch' \in [seen : SUBSET (1..MaxKeys), steady : BOOLEAN]
      BY <2>2, <3>1, <3>2
    <3> QED BY <2>2, <3>3, <3>4, <3>5
  <2> HIDE DEF active
  <2>4. Holders(keys, attempt.token)' = active
    BY <1>1, <2>1 DEF Holders, active
  <2>5. ~ Blocked(attempt.source)'
    BY <1>1, <1>2, <2>1 DEF Blocked
  <2>6. Watching'
    BY <2>3, <2>4, <2>5 DEF Watching
  <2>7. AcceptedWasActive'
    BY <2>1 DEF AcceptedWasActive
  <2> QED BY <1>1, <1>2, <1>3, <1>4, <2>1, <2>3, <2>6, <2>7, AttemptIInv
<1> QED BY <1>5, <1>6 DEF TryKey

\* Judge preserves the invariant: the key it accepts holds now, and the source it blames
\* is not blocked.
LEMMA JudgeIInv == ASSUME IInv, Judge PROVE IInv'
<1> DEFINE s == attempt.source
           holders == Holders(keys, attempt.token)
<1>1. attempt.at = "judging" /\ UNCHANGED <<keyVars, requests, admitted>>
  BY DEF Judge
<1>2. /\ attempt \in Attempt /\ attempt.source \in ApiSource /\ attempt.token \in Token
      /\ s \in Source /\ ~Blocked(s)
  BY <1>1, Parts, Attempts, AuthenticationAssumption DEF IInv, Watching
<1>3. /\ holders \subseteq watch.seen
      /\ watch.steady => holders # {}
      /\ holders \subseteq DOMAIN keys
  BY <1>1 DEF IInv, Watching, Holders
<1>4. requests' \in 0..MaxRequests /\ requests <= requests'
  BY <1>1, Parts
<1>5. ASSUME Ends, Failure(s) \/ UNCHANGED limiterVars, MetaFails \/ UNCHANGED faults PROVE IInv'
  <2>1. LimiterTypeOK' /\ Limits'
    BY <1>2, <1>5, Parts, FailureLimits, TickLimits
  <2>2. faults' \in 0..MaxMetaFaults
    BY <1>5, Faulted
  <2>3. /\ attempt' \in Attempt /\ attempt'.at = "none"
        /\ watch' \in [seen : SUBSET (1..MaxKeys), steady : BOOLEAN]
        /\ Watching' /\ AcceptedWasActive'
    BY <1>5, NoneToWatch DEF Ends
  <2> QED BY <1>1, <1>4, <2>1, <2>2, <2>3, AttemptIInv
<1>6. ASSUME NEW k \in holders, Success(s), UNCHANGED <<faults, watch>>,
             attempt' = [at |-> "counting", source |-> s, token |-> attempt.token, key |-> k]
      PROVE  IInv'
  <2>1. LimiterTypeOK' /\ Limits'
    BY <1>2, <1>6, Parts, SuccessLimits
  <2>2. k \in 1..lastKey /\ k \in 1..MaxKeys
    BY <1>3, Parts
  <2>3. /\ attempt'.at = "counting" /\ attempt'.token = attempt.token /\ attempt'.key = k
        /\ attempt' \in Attempt
    BY <1>2, <1>6, <2>2 DEF Attempt
  <2>4. Holders(keys, attempt.token)' = holders
    BY <1>1, <2>3 DEF Holders
  <2>5. Watching'
    BY <1>3, <1>6, <2>3, <2>4 DEF Watching
  <2>6. AcceptedWasActive'
    BY <1>3, <1>6, <2>3 DEF AcceptedWasActive
  <2> QED BY <1>1, <1>4, <1>6, <2>1, <2>2, <2>3, <2>5, <2>6, Parts, AttemptIInv
<1> QED BY <1>5, <1>6 DEF Judge, JudgeFails

\* CountUse preserves the invariant: the use is counted in the row and in the history alike.
LEMMA CountUseIInv == ASSUME IInv, CountUse PROVE IInv'
<1>1. /\ attempt.at = "counting" /\ Ends /\ UNCHANGED <<limiterVars, lastKey, requests>>
  BY DEF CountUse
<1>2. LimiterTypeOK' /\ Limits'
  BY <1>1, Parts, TickLimits
<1>3. /\ attempt' \in Attempt /\ attempt'.at = "none"
      /\ watch' \in [seen : SUBSET (1..MaxKeys), steady : BOOLEAN]
      /\ Watching' /\ AcceptedWasActive'
  BY <1>1, NoneToWatch DEF Ends
<1>4. CASE MetaFails /\ UNCHANGED <<keys, admitted>>
  <2>1. faults' \in 0..MaxMetaFaults
    BY <1>4, Faulted
  <2> QED BY <1>1, <1>2, <1>3, <1>4, <2>1, Parts, AttemptIInv
<1>5. CASE /\ keys' = [k \in DOMAIN keys |->
                         IF k = attempt.key THEN [keys[k] EXCEPT !.uses = @ + 1] ELSE keys[k]]
           /\ admitted' = [admitted EXCEPT ![attempt.key] = @ + 1]
           /\ UNCHANGED faults
  <2> DEFINE key == attempt.key
  <2>1. key \in 1..lastKey /\ key \in 1..MaxKeys
    BY <1>1, Parts, Attempts DEF IInv, TypeOK
  <2>2. \A k \in 1..MaxKeys : /\ k > lastKey => admitted[k] = 0
                              /\ admitted[k] < requests /\ admitted[k] \in Nat
    BY <1>1, Parts DEF IInv, Uses
  <2>3. /\ admitted' \in [1..MaxKeys -> Nat]
        /\ admitted'[key] = admitted[key] + 1
        /\ \A k \in 1..MaxKeys \ {key} : admitted'[k] = admitted[k]
    BY <1>5, <2>1, Parts
  <2>4. DOMAIN keys' = DOMAIN keys
    BY <1>5
  <2>5. ASSUME NEW k \in DOMAIN keys
        PROVE  /\ keys'[k] \in Row /\ keys'[k].uses = admitted'[k]
               /\ keys'[k].token = keys[k].token
    <3>1. /\ keys[k] \in Row /\ keys[k].uses = admitted[k] /\ k \in 1..MaxKeys
      BY Parts
    <3>2. CASE k = key
      <4> DEFINE row == [keys[k] EXCEPT !.uses = @ + 1]
      <4>1. keys'[k] = row
        BY <1>5, <3>2
      <4>2. row.uses = keys[k].uses + 1 /\ row.token = keys[k].token /\ row.active = keys[k].active
        BY <3>1 DEF Row
      <4>3. keys[k].uses + 1 \in 0..MaxRequests
        BY <2>2, <3>1, Parts
      <4>4. row \in Row
        BY <3>1, <4>3 DEF Row
      <4> HIDE DEF row
      <4> QED BY <2>3, <3>1, <3>2, <4>1, <4>2, <4>4
    <3>3. CASE k # key
      BY <1>5, <2>3, <3>1, <3>3
    <3> QED BY <3>2, <3>3
  <2>6. keys' \in [DOMAIN keys' -> Row]
    BY <1>5, <2>4, <2>5
  <2>7. TypeOK'
    <3>1. \A k \in DOMAIN keys' :
            /\ keys'[k].token \in Token /\ keys'[k].active \in BOOLEAN
            /\ keys'[k].uses \in 0..MaxRequests
      BY <2>4, <2>5 DEF Row
    <3>2. \A i, k \in DOMAIN keys' : keys'[i].token = keys'[k].token => i = k
      BY <2>4, <2>5, Parts
    <3> QED BY <1>1, <1>2, <1>3, <1>5, <2>4, <3>1, <3>2, Parts DEF TypeOK
  <2>8. Records'
    BY <1>3, <2>3, <2>6 DEF Records
  <2>9. Uses'
    <3> SUFFICES ASSUME NEW k \in 1..MaxKeys
                 PROVE  (k > lastKey => admitted'[k] = 0) /\ admitted'[k] <= requests
      BY <1>1, <1>3 DEF Uses
    <3>1. CASE k = key
      BY <2>1, <2>2, <2>3, <3>1, Parts
    <3>2. CASE k # key
      BY <2>2, <2>3, <3>2, Parts
    <3> QED BY <3>1, <3>2
  <2>10. UsesAreCounted'
    BY <2>4, <2>5 DEF UsesAreCounted
  <2> QED BY <1>2, <1>3, <2>7, <2>8, <2>9, <2>10 DEF IInv
<1> QED BY <1>4, <1>5 DEF CountUse

\* Clock, and nothing, preserve the invariant.
LEMMA ClockIInv == ASSUME IInv, Clock \/ UNCHANGED vars PROVE IInv'
<1>1. /\ Tick \/ UNCHANGED limiterVars
      /\ UNCHANGED <<keyVars, attempt, requests, faults, admitted, watch>>
  BY DEF Clock, vars
<1>2. LimiterTypeOK' /\ Limits' /\ UNCHANGED blockedUntil /\ now <= now'
  BY <1>1, Parts, TickLimits DEF Tick, LimiterTypeOK
<1>3. attempt.at = "judging" => ~Blocked(attempt.source)'
  <2> SUFFICES ASSUME attempt.at = "judging" PROVE ~Blocked(attempt.source)'
    OBVIOUS
  <2>1. attempt.source \in Source /\ ~Blocked(attempt.source)
    BY Parts, Attempts, AuthenticationAssumption DEF IInv, Watching
  <2>2. blockedUntil[attempt.source] \in Nat /\ now \in Nat /\ now' \in Nat
    <3>1. blockedUntil[attempt.source] \in 0..(MaxTime + Lockout) /\ now \in 0..MaxTime
      BY <2>1, Parts, Source1
    <3>2. now' \in 0..MaxTime
      BY <1>2 DEF LimiterTypeOK
    <3> QED BY <3>1, <3>2, Constants
  <2>3. UNCHANGED <<blockedUntil, attempt>>
    BY <1>1, <1>2
  <2> QED BY <1>2, <2>1, <2>2, <2>3 DEF Blocked
<1>4. Watching'
  BY <1>1, <1>3 DEF IInv, Watching
<1>5. AcceptedWasActive'
  BY <1>1 DEF IInv, AcceptedWasActive
<1>6. attempt'.at = "counting" => attempt'.key \in 1..lastKey
  BY <1>1 DEF IInv, TypeOK
<1> QED BY <1>1, <1>2, <1>4, <1>5, <1>6, Parts, AttemptIInv

-----------------------------------------------------------------------------
(* Theorems                                                                 *)

\* The invariant holds before the first attempt.
LEMMA InitIInv == Init => IInv
<1> SUFFICES ASSUME Init PROVE IInv
  OBVIOUS
<1>1. /\ failures = [s \in Source |-> <<>>] /\ blockedUntil = [s \in Source |-> 0] /\ now = 0
      /\ judged = [s \in Source |-> <<>>]
      /\ keys = <<>> /\ lastKey = 0 /\ attempt = NoAttempt /\ requests = 0 /\ faults = 0
      /\ admitted = [k \in 1..MaxKeys |-> 0] /\ watch = NoWatch
  BY DEF Init, InitLimiter
<1>2. DOMAIN keys = {}
  BY <1>1
<1>3. LimiterTypeOK
  BY <1>1, Constants, EmptySeq DEF LimiterTypeOK
<1>4. Limits
  BY <1>1 DEF Limits, InOrder, Remembered, Spaced
<1>5. attempt.at = "none" /\ attempt \in Attempt
      /\ watch \in [seen : SUBSET (1..MaxKeys), steady : BOOLEAN]
  BY <1>1, NoneToWatch
<1>6. TypeOK
  BY <1>1, <1>2, <1>3, <1>5, AuthenticationAssumption DEF TypeOK
<1>7. Records
  <2>1. keys \in [DOMAIN keys -> Row]
    BY <1>2
  <2> QED BY <1>1, <1>5, <2>1 DEF Records
<1>8. Uses
  BY <1>1, <1>5 DEF Uses
<1>9. Watching /\ AcceptedWasActive /\ UsesAreCounted
  BY <1>2, <1>5 DEF Watching, AcceptedWasActive, UsesAreCounted
<1> QED BY <1>4, <1>6, <1>7, <1>8, <1>9 DEF IInv

\* Every step preserves the invariant.
LEMMA StepIInv == IInv /\ [Next]_vars => IInv'
BY AdministerIInv, TryAdminIInv, TryKeyIInv, JudgeIInv, CountUseIInv, ClockIInv DEF Next

\* The invariant holds in every state.
LEMMA Invariance == Spec => []IInv
BY InitIInv, StepIInv, PTL DEF Spec

\* The variables of the limiter, the table and the attempt have their types in every state.
THEOREM Types == Spec => []TypeOK
<1>1. IInv => TypeOK
  BY DEF IInv
<1> QED BY <1>1, Invariance, PTL

\* A request is accepted only under a key that was active at some moment of the attempt,
\* for any number of keys and administrators.
THEOREM Accepted == Spec => []AcceptedWasActive
<1>1. IInv => AcceptedWasActive
  BY DEF IInv
<1> QED BY <1>1, Invariance, PTL

\* The use counter of a key is the number of requests let in under it.
THEOREM Counted == Spec => []UsesAreCounted
<1>1. IInv => UsesAreCounted
  BY DEF IInv
<1> QED BY <1>1, Invariance, PTL

\* However a source times its attempts, and whatever the number of attempts, the window
\* and the lockout are, the failures that are judged in one window are bounded by as many
\* bursts of MaxAttempts as lockouts begin in it, and one more.
THEOREM Bounded == Spec => []BurstBound
<1>1. ASSUME IInv PROVE BurstBound
  <2>1. ASSUME NEW s \in Source, NEW from \in -1..MaxTime
        PROVE  JudgedWithin(s, from) <= MaxAttempts * (1 + (Window - 1) \div Lockout)
    BY <1>1, <2>1, Parts, Constants, Bursts DEF Limits
  <2> QED BY <2>1 DEF BurstBound
<1> QED BY <1>1, Invariance, PTL

\* Attempts alone hold failures against sources, and a source that
\* shows Access Keys has one held against it only while no key of its token is active.
LEMMA Punishes ==
  ASSUME IInv, [Next]_vars, NEW s \in ApiSource, Len(judged'[s]) > Len(judged[s])
  PROVE  ~watch.steady
<1>1. s \in Source /\ Len(judged[s]) \in Nat
  BY Parts, Source1, AuthenticationAssumption
<1>2. judged' # judged
  BY <1>1
<1>3. CASE \E a \in Source, t \in Token : TryAdmin(a, t)
  <2>1. PICK a \in Source, t \in Token : TryAdmin(a, t)
    BY <1>3
  <2>2. a # s
    BY <2>1 DEF TryAdmin
  <2>3. judged'[s] = judged[s]
    <3>1. UNCHANGED judged \/ Success(a) \/ Failure(a)
      BY <2>1, Zenon DEF TryAdmin, limiterVars
    <3> QED BY <1>1, <2>2, <3>1, Parts DEF Success, Failure, LimiterTypeOK
  <2> QED BY <1>1, <2>3
<1>4. CASE Judge
  <2>1. CASE Holders(keys, attempt.token) = {}
    BY <1>4, <2>1 DEF Judge, IInv, Watching
  <2>2. CASE Success(attempt.source)
    <3>1. /\ judged' = [judged EXCEPT ![attempt.source] = <<>>]
          /\ judged \in [Source -> Seq(0..MaxTime)]
      BY <2>2, Parts DEF Success, LimiterTypeOK
    <3>2. judged'[s] = <<>> \/ judged'[s] = judged[s]
      BY <1>1, <3>1
    <3>3. Len(judged'[s]) = 0 \/ judged'[s] = judged[s]
      BY <3>2
    <3> QED BY <1>1, <3>3
  <2>3. CASE UNCHANGED limiterVars
    BY <1>2, <2>3
  <2> QED BY <1>4, <2>1, <2>2, <2>3 DEF Judge, JudgeFails
<1>5. CASE \/ Administer \/ CountUse \/ Clock \/ UNCHANGED vars
           \/ \E a \in Source, t \in Token : TryKey(a, t)
  BY <1>2, <1>5 DEF Administer, CountUse, Clock, Tick, TryKey, vars
<1> QED BY <1>3, <1>4, <1>5 DEF Next

\* A failure is held against a source only when its Access Key was not active at some
\* moment of the attempt.
THEOREM NotPunished == Spec => HoldersAreNotPunished
<1>1. IInv /\ [Next]_vars =>
        [\A s \in ApiSource : Len(judged'[s]) > Len(judged[s]) => ~watch.steady]_vars
  BY Punishes
<1> QED BY <1>1, Invariance, PTL DEF Spec, HoldersAreNotPunished
====
