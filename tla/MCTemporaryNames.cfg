SPECIFICATION Spec
CONSTANTS
  Session = {s1, s2}
  Text <- TheTexts
  Address <- TheAddress
  Candidates <- TheCandidates
  Accepted <- TheAccepted
  Get <- TheGets
  Name <- TheNames
  NoName = 9
  Canonical <- TheCanonical
  Reserved = {4}
  Temporary <- TheTemporary
  NewText = "blank"
  FirstText = "get"
  MaxEdits = 3
  MaxRequests = 1
  MaxMetaFaults = 1
SYMMETRY Sessions
PROPERTY TemporaryNamesAreUnique
\* Only the bounds stop the model.
CHECK_DEADLOCK FALSE
