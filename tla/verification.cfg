\* Two request goroutines, used again and again; one account at the start.
SPECIFICATION Spec
CONSTANTS
  Users = {u1}
  Newcomers = {n1}
  Requests = {r1, r2}
  Pending = Pending
  Mandatory = {email}
  Optional = {totp}
  Installations = {{}, {email, totp}}
  MaxStamp = 5
PROPERTIES NeverUnverified VerificationSpent OwnSessionFound
SYMMETRY Symmetry
\* A behaviour ends when every stamp is used.
CHECK_DEADLOCK FALSE
