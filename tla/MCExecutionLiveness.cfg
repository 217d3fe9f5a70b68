\* Only the handlers are fair; the properties that need the threads too assume it.
CONSTANTS
  e1 = e1
  e2 = e2
  e3 = e3
  alice = alice
  bob = bob
  Execution = {e1, e2}
  Write = {e1}
  Watched = {e1}
  Owner = {alice}
  OwnerOf <- OneOwner
  Conn = {c1}
  NoConn = NoConn
  Request = {}
  Probe = {}
  GlobalLimit = 1
  OwnerLimit = 1
  HistorySize = 1
  MaxMetaFaults = 1
SPECIFICATION HandlerSpec
PROPERTIES CallsReturn SlotsComeBack HistorySettles CancelIsHonoured
\* Only the handlers are fair; the properties that need the threads too assume it.
CHECK_DEADLOCK FALSE
