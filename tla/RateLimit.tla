---- MODULE RateLimit ----
(***************************************************************************)
(* The guard against guessing keys: AuthRateLimiter (app/core/             *)
(* rate_limit.py). Who calls it, and when, is in Authentication.           *)
(*                                                                         *)
(* A source is a (scope, remote address) pair. Time is time.monotonic in   *)
(* seconds; several attempts may fall within one second.                   *)
(***************************************************************************)
EXTENDS Integers, Sequences, FiniteSets

CONSTANTS Source,       \* (scope, remote) pairs
          MaxAttempts,  \* auth_rate_limit_attempts
          Window,       \* auth_rate_limit_window_seconds
          Lockout,      \* auth_rate_limit_lockout_seconds
          MaxTime       \* bound on the clock

ASSUME RateLimitAssumption == /\ MaxAttempts \in Nat \ {0} /\ Window \in Nat \ {0}
                              /\ Lockout \in Nat \ {0} /\ MaxTime \in Nat

VARIABLES failures,      \* recent failures of each source, oldest first
          blockedUntil,  \* until when each source is blocked; 0 when it is not
          now,
          judged         \* history: all failures since the source's last success

limiterVars == <<failures, blockedUntil, now, judged>>

InitLimiter == /\ failures = [s \in Source |-> <<>>]
               /\ blockedUntil = [s \in Source |-> 0]
               /\ now = 0
               /\ judged = [s \in Source |-> <<>>]

Blocked(s) == blockedUntil[s] > now

\* register_success. That retry_after forgets a block that is over changes no answer.
Success(s) ==
  /\ failures' = [failures EXCEPT ![s] = <<>>]
  /\ blockedUntil' = [blockedUntil EXCEPT ![s] = 0]
  /\ judged' = [judged EXCEPT ![s] = <<>>]
  /\ UNCHANGED now

\* The deque from its first failure after the cutoff on.
Live(s, cutoff) ==
  LET kept == {i \in 1..Len(failures[s]) + 1 : i <= Len(failures[s]) => failures[s][i] > cutoff}
  IN  SubSeq(failures[s], CHOOSE i \in kept : \A j \in kept : i <= j, Len(failures[s]))

\* Mutant of Recent: failures leave the window one second early.
RecentShort(s) == Append(Live(s, now + 1 - Window), now)

Recent(s) == Append(Live(s, now - Window), now)

\* Mutant of Exhausted: off by one.
ExhaustedLate(s) == Len(Recent(s)) > MaxAttempts

Exhausted(s) == Len(Recent(s)) >= MaxAttempts

\* register_failure.
Failure(s) ==
  /\ IF ~Exhausted(s)
     THEN /\ failures' = [failures EXCEPT ![s] = Recent(s)]
          /\ UNCHANGED blockedUntil
     ELSE /\ failures' = [failures EXCEPT ![s] = <<>>]
          /\ blockedUntil' = [blockedUntil EXCEPT ![s] = now + Lockout]
  /\ judged' = [judged EXCEPT ![s] = Append(@, now)]
  /\ UNCHANGED now

Tick == now < MaxTime /\ now' = now + 1 /\ UNCHANGED <<failures, blockedUntil, judged>>

\* The deque of a source never reaches MaxAttempts.
LimiterTypeOK == /\ failures \in [Source -> Seq(0..MaxTime)]
                 /\ \A s \in Source : Len(failures[s]) < MaxAttempts
                 /\ blockedUntil \in [Source -> 0..(MaxTime + Lockout)]
                 /\ now \in 0..MaxTime
                 /\ judged \in [Source -> Seq(0..MaxTime)]

JudgedWithin(s, from) ==
  Cardinality({i \in DOMAIN judged[s] : from < judged[s][i] /\ judged[s][i] <= from + Window})

\* However a source times its attempts, between two successes at most MaxAttempts
\* of its failures are judged in any window, if the lockout is at least as long
\* as the window; a shorter one admits one more such burst per lockout.
BurstBound ==
  \A s \in Source, from \in -1..MaxTime :
    JudgedWithin(s, from) <= MaxAttempts * (1 + (Window - 1) \div Lockout)
====
