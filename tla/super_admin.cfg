\* Two requests, two users, and two instances that start, fail and restart.  A page
\* holds one user.  Deadlock is not checked: once a race has emptied the table, and
\* the bounds on ids and crashes are used up, nothing more can happen.
SPECIFICATION FairSpec
CONSTANTS
  Users = {u1, u2}
  NoUser = NoUser
  Requests = {r1, r2}
  Instances = {i1, i2}
  PageSize = 1
  MaxCrashes = 2
INVARIANTS TypeOK
PROPERTIES LastGoesOnlyInARace ServesWithAdmin StartCompletes
CHECK_DEADLOCK FALSE
