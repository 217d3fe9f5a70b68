\* Two writes of different owners on two connections, a request to cancel, one metastore
\* failure, shutdown at any time.
CONSTANTS
  e1 = e1
  e2 = e2
  e3 = e3
  alice = alice
  bob = bob
  Execution = {e1, e2}
  Write = {e1, e2}
  Watched = {}
  Owner = {alice, bob}
  OwnerOf <- OwnOwner
  Conn = {c1, c2}
  NoConn = NoConn
  Request = {r1}
  Probe = {}
  GlobalLimit = 2
  OwnerLimit = 1
  HistorySize = 1
  MaxMetaFaults = 1
SPECIFICATION Spec
INVARIANTS Placed SlotsFollowWork HistoryIsTrue
PROPERTIES ImplementsContract FirstOutcomeStands
SYMMETRY AlikeWithOwners
CHECK_DEADLOCK FALSE
