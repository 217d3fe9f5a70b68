\* Two attempts with one key; no failure, no crash, no time.
CONSTANTS
  a1 = a1
  a2 = a2
  a3 = a3
  s1 = s1
  s2 = s2
  k1 = k1
  k2 = k2
  Attempt = {a1, a2}
  Scope = {s1, s2}
  AccessKey = {k1, k2}
  Deletable = {}
  TTL = 2
  MaxTime = 0
  MaxMetaFaults = 0
  MaxCrashes = 0
  ScopeOf <- Retries
  KeyOf <- OneKeyEach
SPECIFICATION Spec
INVARIANTS NeverReplayed
\* Each attempt is made once: the behaviour may stop.
CHECK_DEADLOCK FALSE
