\* Two requests: on a plugin with two configurations that load and one that does
\* not; or on the codes of an address, three sends and two instances; or on a
\* user's configurations, two secrets, two addresses and a device.
SPECIFICATION AllSpec
CONSTANTS
  Requests = {r1, r2}
  Good = {c1, c2}
  Bad = {b1}
  MaxInstances = 2
  MaxMaps = 2
  MaxSends = 3
  Ips = {i1, i2}
  Devices = {d1}
  Blank = Blank
  MaxSecrets = 2
INVARIANTS TypesOK StuckOnlyByFailure LiveIsTheRows MailedCodeVerifies ShownIsStored
PROPERTIES TransitionsValid ChangesOnlyByItsCode TrustIsEarned
SYMMETRY Symmetry
\* The bounds stop the behaviours that use them up.
CHECK_DEADLOCK FALSE
