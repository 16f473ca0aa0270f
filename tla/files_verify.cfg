\* Two applications, no fault.
SPECIFICATION Spec
CONSTANTS
  Apps = {a1, a2}
  Requests = {r1, r2}
  Texts = {"utf8"}
  Faults = FALSE
  RotateSize = 2
  MaxLogs = 3
  MaxTime = 0
  MaxEdits = 0
  None = None
SYMMETRY Symmetry
INVARIANTS FilesVerify
CHECK_DEADLOCK FALSE
