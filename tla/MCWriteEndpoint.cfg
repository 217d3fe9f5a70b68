\* A client with its own Access Key and two attempts under one Idempotency-Key, one
\* metastore failure, one crash, enough time for the key to expire, and either Access Key,
\* or both, deleted.
CONSTANTS
  a1 = a1
  a2 = a2
  a3 = a3
  s1 = s1
  s2 = s2
  k1 = k1
  k2 = k2
  Attempt = {a1, a2, a3}
  Scope = {s1, s2}
  AccessKey = {k1, k2}
  Deletable = {k1, k2}
  TTL = 2
  MaxTime = 3
  MaxMetaFaults = 1
  MaxCrashes = 1
  ScopeOf <- TwoClients
  KeyOf <- OneKeyEach
SPECIFICATION Spec
INVARIANTS TypeOK OneAtATime TwiceOnlyIfUnknown SuccessIsRemembered
SYMMETRY Alike
CHECK_DEADLOCK FALSE
