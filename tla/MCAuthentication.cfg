\* One consumer and one administrator, two tokens of which one is ADMIN_API_KEY, and a
\* lockout as long as the window.
CONSTANTS
  consumer = consumer
  admin = admin
  secret = secret
  token = token
  accented = accented
  Source = {consumer, admin}
  ApiSource = {consumer}
  Token = {token, accented, secret}
  AdminKey = secret
  NonAscii = {accented}
  MaxAttempts = 2
  Window = 3
  Lockout = 3
  MaxTime = 6
  MaxKeys = 2
  MaxRequests = 4
  MaxMetaFaults = 1
SPECIFICATION Spec
INVARIANTS TypeOK BurstBound AcceptedWasActive UsesAreCounted
PROPERTIES HoldersAreNotPunished
\* Only the bounds stop the model.
CHECK_DEADLOCK FALSE
