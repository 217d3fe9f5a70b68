\* Two routes, two overlapping operations, two changes, the schema generated meanwhile,
\* and two ends of the process, of which one may be in its first start.
CONSTANTS
  Route = {q1, q2}
  Operator = {o1, o2}
  MaxEdits = 2
  MaxMetaFaults = 1
  MaxCrashes = 2
SPECIFICATION Spec
INVARIANTS TypeOK OneGeneration QuietIsCurrent
SYMMETRY Alike
