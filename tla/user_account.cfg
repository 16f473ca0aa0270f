\* Two requests on one user name: up to three accounts and profiles, at most two
\* of each, and two passwords; or on two uploads of one name.
SPECIFICATION AllSpec
CONSTANTS
  Requests = {r1, r2}
  Passwords = {p1, p2}
  MaxUsers = 2
  MaxDocs = 2
  MaxRecords = 3
  FileNames = {n1}
  MaxSecond = 1
  MaxUploads = 2
INVARIANTS TypesOK FilesMatchRecords
PROPERTIES ReplacedPasswordDead RevivedOnlyByOverlap WritesOnlyAsked DeletedWhole
SYMMETRY Symmetry
\* The bounds stop the behaviours that use them up.
CHECK_DEADLOCK FALSE
