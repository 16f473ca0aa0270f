----------------------- MODULE MCAuthorizationServer ------------------------
EXTENDS AuthorizationServer, TLC

CONSTANT Administered   \* the clients that are updated

ScopeSet == {"openid", "read"}

\* A URI with a query, which is registered, and another one.
UriSet == {<<"a", "q">>, <<"b", "">>}

\* A client that asks who the user is and may not read.
RowSet == {[status |-> TRUE, grant |-> TRUE, scopes |-> {"openid"}, uris |-> {<<"a", "q">>}]}

\* An update that disables a client and moves it to another URI, and one that
\* takes the grant from it and lets it read: each leaves the other's columns out.
ChangeSet ==
  {[status |-> FALSE, grant |-> None, scopes |-> {}, uris |-> {<<"b", "">>}],
   [status |-> None, grant |-> FALSE, scopes |-> ScopeSet, uris |-> {}]}

UpdateSet == Administered \X ChangeSet

Symmetry == Permutations(Requests) \cup Permutations(Clients \ Administered)
              \cup Permutations(Codes) \cup Permutations(Secrets)
=============================================================================
