\* One client exchanges one code, one request at a time.
SPECIFICATION Spec
CONSTANTS
  Clients = {k1}
  Secrets = {s1}
  Codes = {c1}
  None = None
  Requests = {r1}
  Scopes <- ScopeSet
  Uris <- UriSet
  Rows <- RowSet
  Updates <- UpdateSet
  Administered = {k1}
  CodeLifetime = 1
  SecretLifetime = 2
  MaxTime = 0
PROPERTIES CodeUsedOnce
