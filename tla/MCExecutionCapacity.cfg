\* Three reading executions of one owner, whose limit binds, a readiness probe, one
\* connection for all of them and a history of one row; a shutdown at any time, no failure of
\* the metastore and no cancellation but the time limit.
CONSTANTS
  e1 = e1
  e2 = e2
  e3 = e3
  alice = alice
  bob = bob
  Execution = {e1, e2, e3}
  Write = {}
  Watched = {}
  Owner = {alice}
  OwnerOf <- OneOwner
  Conn = {c1}
  NoConn = NoConn
  Request = {}
  Probe = {p1}
  GlobalLimit = 3
  OwnerLimit = 2
  HistorySize = 1
  MaxMetaFaults = 0
SPECIFICATION Spec
INVARIANTS TypeOK SlotAccounting ConnectionsSuffice
PROPERTIES PrunesOldest
\* Every execution ends and each is called once: the behaviour may stop.
SYMMETRY Alike
CHECK_DEADLOCK FALSE
