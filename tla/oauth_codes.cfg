\* Two clients, one of them with a secret, and two requests at a time.
SPECIFICATION Spec
CONSTANTS
  Clients = {k1, k2}
  Secrets = {s1}
  Codes = {c1}
  None = None
  Requests = {r1, r2}
  Scopes <- ScopeSet
  Uris <- UriSet
  Rows <- RowSet
  Updates <- UpdateSet
  Administered = {k1}
  CodeLifetime = 1
  SecretLifetime = 1
  MaxTime = 1
SYMMETRY Symmetry
INVARIANTS TypeOK IssuedAsAuthorized 
