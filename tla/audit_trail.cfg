\* Two requests, two applications, failures, restarts and one change to a file.
SPECIFICATION Spec
CONSTANTS
  Apps = {a1, a2}
  Requests = {r1, r2}
  Texts = {"utf8"}
  Faults = TRUE
  RotateSize = 2
  MaxLogs = 3
  MaxTime = 1
  MaxEdits = 1
  None = None
SYMMETRY Symmetry
INVARIANTS ConsecutiveVerifies CountNeverAhead 
CHECK_DEADLOCK FALSE
