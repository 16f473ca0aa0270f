------------------------ MODULE AuthorizationServer -------------------------
(***************************************************************************)
(* The OAuth 2.0 server: internal/service/authorization.go and             *)
(* oauth_client.go over the tables oauth_clients, oauth_client_secrets and *)
(* oauth_authorization_codes.                                              *)
(*                                                                         *)
(* Requests run concurrently, one SQL statement at a time: an action is a  *)
(* statement and the local code that follows it.  What a request has read  *)
(* (row, code) may be stale by the time it writes.  No foreign key ties    *)
(* the tables together.  Issuing the token pair is one step here; its own  *)
(* steps are those of TokenService.                                        *)
(***************************************************************************)
EXTENDS FiniteSets, Naturals

CONSTANTS Clients, Secrets, Codes,   \* ids that can be handed out (bound the run)
          None,                      \* no row
          Requests,
          Scopes,                    \* the scopes clients are registered with
          Uris,                      \* redirect URIs, as <<base, query>>
          Rows,                      \* the rows clients are created with
          Updates,                   \* what updates ask for, as <<client, change>>
          CodeLifetime, SecretLifetime,
          MaxTime                    \* bound on the clock

OpenID == "openid"

ClientRow == [status : BOOLEAN, grant : BOOLEAN,
              scopes : SUBSET Scopes, uris : SUBSET Uris]

\* What an update asks for.  A list that is empty, and a status that is not
\* there, ask for nothing.
Change == [status : BOOLEAN \cup {None}, grant : BOOLEAN \cup {None},
           scopes : SUBSET Scopes, uris : SUBSET Uris]

SecretRow == [client : Clients, until : Nat]
CodeRow   == [client : Clients, uri : Uris, scope : SUBSET Scopes, until : Nat]

\* The history's entry for a code.
Grant == [code : CodeRow, allowed : SUBSET Scopes]

ASSUME AuthorizationServerAssumption ==
  /\ None \notin Clients \cup Secrets \cup Codes \cup BOOLEAN
  /\ None \notin ClientRow \cup Change \cup SecretRow \cup CodeRow \cup Grant
  /\ CodeLifetime \in Nat /\ SecretLifetime \in Nat /\ MaxTime \in Nat
  /\ Rows \subseteq ClientRow /\ Updates \subseteq Clients \X Change

VARIABLES
  now,
  client, secret, code,   \* the three tables, None for no row
  pc, job,                \* where a request stands and what it was asked
  row,                    \* the client row, or the code row, a request has read
  granted,                \* history: each code's row, and the scopes its client then had
  ownerOf,                \* history: the client each secret was made for
  issues,                 \* history: token pairs issued for a code
  removed,                \* history: clients deleted by a request that succeeded
  asked,                  \* history: the row administrators asked for, while that is known
  contended               \* history: clients saved from a row that had changed

tables   == <<client, secret, code>>
request  == <<pc, job, row>>
intended == <<asked, contended>>
history  == <<granted, ownerOf, issues, removed, intended>>
vars     == <<now, tables, request, history>>

\* What a request was asked; fields its operation has no use for are None.
Job == [op : {"none", "authorize", "exchange", "update", "addSecret", "dropSecret"},
        client : Clients \cup {None}, secret : Secrets \cup {None},
        code : Codes \cup {None}, uri : Uris \cup {None},
        scope : SUBSET Scopes, change : Change \cup {None}]
NoJob == [op |-> "none", client |-> None, secret |-> None, code |-> None,
          uri |-> None, scope |-> {}, change |-> None]

Labels == {"idle", "getClient", "createCode", "checkSecret", "getCode", "issue",
           "loadUser", "deleteCode", "getRow", "save", "createSecret",
           "getSecret", "deleteSecret"}

\* Every table holds rows of its own, and a request that goes on to use a row
\* has one in hand: it never dereferences the nil of a lookup without result.
TypeOK ==
  /\ now \in 0..MaxTime
  /\ client \in [Clients -> ClientRow \cup {None}]
  /\ secret \in [Secrets -> SecretRow \cup {None}]
  /\ code \in [Codes -> CodeRow \cup {None}]
  /\ pc \in [Requests -> Labels]
  /\ job \in [Requests -> Job]
  /\ row \in [Requests -> ClientRow \cup CodeRow \cup {None}]
  /\ \A r \in Requests :
       /\ pc[r] \in {"createCode", "save"} => row[r] \in ClientRow
       /\ pc[r] \in {"issue", "loadUser", "deleteCode"} => row[r] \in CodeRow
  /\ ownerOf \in [Secrets -> Clients \cup {None}]
  /\ removed \subseteq Clients /\ contended \subseteq Clients
  /\ asked \in [Clients -> ClientRow \cup {None}]

Init ==
  /\ now = 0
  /\ client = [k \in Clients |-> None]
  /\ secret = [s \in Secrets |-> None]
  /\ code = [c \in Codes |-> None]
  /\ pc = [r \in Requests |-> "idle"]
  /\ job = [r \in Requests |-> NoJob]
  /\ row = [r \in Requests |-> None]
  /\ granted = [c \in Codes |-> None]
  /\ ownerOf = [s \in Secrets |-> None]
  /\ issues = {} /\ removed = {} /\ contended = {}
  /\ asked = [k \in Clients |-> None]

-----------------------------------------------------------------------------
Base(uri) == uri[1]

Goto(r, label) == pc' = [pc EXCEPT ![r] = label]

Keep(r, x) == row' = [row EXCEPT ![r] = x]

Finish(r) ==
  /\ Goto(r, "idle")
  /\ job' = [job EXCEPT ![r] = NoJob]
  /\ row' = [row EXCEPT ![r] = None]

Begin(r, what, label) ==
  /\ pc[r] = "idle"
  /\ job' = [job EXCEPT ![r] = what]
  /\ Goto(r, label)
  /\ UNCHANGED <<now, tables, row, history>>

\* Go on to label with x in hand when ok, give up otherwise.
Proceed(r, ok, label, x) ==
  \/ ok /\ Goto(r, label) /\ Keep(r, x) /\ UNCHANGED job
  \/ ~ok /\ Finish(r)

-----------------------------------------------------------------------------
(* Authorize, for a signed-in user.                                        *)

BeginAuthorize(r, k, uri, scope) ==
  /\ scope # {}
  /\ Begin(r, [NoJob EXCEPT !.op = "authorize", !.client = k, !.uri = uri,
                            !.scope = scope], "getClient")

\* The client's row allows what the request asks for.
MayAuthorize(row0, j) ==
  /\ row0.status /\ row0.grant
  /\ j.uri \in row0.uris
  /\ j.scope \subseteq row0.scopes

\* IssueToken looks for the row only; a disabled client passes.
GetClient(r) ==
  /\ pc[r] = "getClient"
  /\ LET k == client[job[r].client] IN
       IF job[r].op = "authorize"
         THEN Proceed(r, k # None /\ MayAuthorize(k, job[r]), "createCode", k)
         ELSE Proceed(r, k # None, "checkSecret", None)
  /\ UNCHANGED <<now, tables, history>>

CreateCode(r) ==
  /\ pc[r] = "createCode"
  /\ \E c \in Codes :
       LET new == [client |-> job[r].client, uri |-> job[r].uri,
                   scope |-> job[r].scope, until |-> now + CodeLifetime] IN
         /\ granted[c] = None
         /\ code' = [code EXCEPT ![c] = new]
         /\ granted' = [granted EXCEPT ![c] = [code |-> new, allowed |-> row[r].scopes]]
  /\ Finish(r)
  /\ UNCHANGED <<now, client, secret, ownerOf, issues, removed, intended>>

-----------------------------------------------------------------------------
(* IssueToken with a code.                                                 *)

\* A request knows a secret and a code only when they were handed out.
BeginExchange(r, k, s, c, uri) ==
  /\ ownerOf[s] # None /\ granted[c] # None
  /\ Begin(r, [NoJob EXCEPT !.op = "exchange", !.client = k, !.secret = s,
                            !.code = c, !.uri = uri], "getClient")

\* Mutant: any client's secret will do.
CheckAnySecret(r) ==
  /\ pc[r] = "checkSecret"
  /\ LET s == secret[job[r].secret] IN
       Proceed(r, s # None /\ now < s.until, "getCode", None)
  /\ UNCHANGED <<now, tables, history>>

CheckSecret(r) ==
  /\ pc[r] = "checkSecret"
  /\ LET s == secret[job[r].secret] IN
       Proceed(r, s # None /\ s.client = job[r].client /\ now < s.until,
               "getCode", None)
  /\ UNCHANGED <<now, tables, history>>

\* validateAuthCodeRequest: the query of the redirect URI does not count.
AcceptsCode(c, j) ==
  /\ c.client = j.client
  /\ Base(c.uri) = Base(j.uri)
  /\ now <= c.until

GetCode(r) ==
  /\ pc[r] = "getCode"
  /\ LET c == code[job[r].code] IN
       Proceed(r, c # None /\ now < c.until /\ AcceptsCode(c, job[r]), "issue", c)
  /\ UNCHANGED <<now, tables, history>>

\* GenerateTokenPair, by the code row read before
Issue(r) ==
  /\ pc[r] = "issue"
  /\ issues' = issues \cup {[code |-> job[r].code, client |-> job[r].client,
                             uri |-> job[r].uri, secret |-> job[r].secret,
                             scope |-> row[r].scope]}
  /\ Goto(r, IF OpenID \in row[r].scope THEN "loadUser" ELSE "deleteCode")
  /\ UNCHANGED <<now, tables, job, row, granted, ownerOf, removed, intended>>

\* The ID token needs the user's row; without it the request fails, the
\* tokens it issued and the code staying behind.
LoadUser(r) ==
  /\ pc[r] = "loadUser"
  /\ \/ Goto(r, "deleteCode") /\ UNCHANGED <<job, row>>
     \/ Finish(r)
  /\ UNCHANGED <<now, tables, history>>

\* DELETE ... WHERE code = <id of the code>: codes are never ids, so the
\* statement matches no row.
DeleteCode(r) ==
  /\ pc[r] = "deleteCode"
  /\ Finish(r)
  /\ UNCHANGED <<now, tables, history>>

-----------------------------------------------------------------------------
(* Administration of clients and secrets.                                  *)

CreateClient(k, new) ==
  /\ client[k] = None /\ k \notin removed
  /\ client' = [client EXCEPT ![k] = new]
  /\ asked' = [asked EXCEPT ![k] = new]
  /\ UNCHANGED <<now, secret, code, request, granted, ownerOf, issues, removed, contended>>

\* Deletes the client's row only, not its secrets and codes.
DeleteClient(k) ==
  /\ client[k] # None
  /\ client' = [client EXCEPT ![k] = None]
  /\ removed' = removed \cup {k}
  /\ asked' = [asked EXCEPT ![k] = None] /\ contended' = contended \ {k}
  /\ UNCHANGED <<now, secret, code, request, granted, ownerOf, issues>>

BeginUpdate(r, k, change) ==
  Begin(r, [NoJob EXCEPT !.op = "update", !.client = k, !.change = change], "getRow")

\* Mutant: the row is used whether or not there is one.
GetRowUnguarded(r) ==
  /\ pc[r] = "getRow" /\ job[r].op = "update"
  /\ Proceed(r, TRUE, "save", client[job[r].client])
  /\ UNCHANGED <<now, tables, history>>

GetRow(r) ==
  /\ pc[r] = "getRow" /\ job[r].op = "update"
  /\ LET k == client[job[r].client] IN Proceed(r, k # None, "save", k)
  /\ UNCHANGED <<now, tables, history>>

\* The row x with what the update asks for.
Apply(change, x) ==
  [status |-> IF change.status = None THEN x.status ELSE change.status,
   grant  |-> IF change.grant = None THEN x.grant ELSE change.grant,
   scopes |-> IF change.scopes = {} THEN x.scopes ELSE change.scopes,
   uris   |-> IF change.uris = {} THEN x.uris ELSE change.uris]

\* What the administrators meant, unless another write came between.
Intend(r, k) ==
  IF client[k] = row[r] /\ asked[k] # None
    THEN /\ asked' = [asked EXCEPT ![k] = Apply(job[r].change, @)]
         /\ UNCHANGED contended
    ELSE /\ asked' = [asked EXCEPT ![k] = None]
         /\ contended' = contended \cup {k}

\* Mutant: an update that names no scopes clears them.
SaveBlank(r) ==
  /\ pc[r] = "save"
  /\ LET k == job[r].client IN
       /\ client' = [client EXCEPT ![k] =
                       [Apply(job[r].change, row[r]) EXCEPT !.scopes = job[r].change.scopes]]
       /\ Intend(r, k)
  /\ Finish(r)
  /\ UNCHANGED <<now, secret, code, granted, ownerOf, issues, removed>>

\* Save writes every column of the row read before.  When the row is gone it
\* inserts it, and a status of FALSE gives way to the column's default, TRUE.
Save(r) ==
  /\ pc[r] = "save"
  /\ LET k == job[r].client IN
       /\ client' = [client EXCEPT ![k] =
                       [Apply(job[r].change, row[r]) EXCEPT !.status = @ \/ client[k] = None]]
       /\ Intend(r, k)
  /\ Finish(r)
  /\ UNCHANGED <<now, secret, code, granted, ownerOf, issues, removed>>

BeginAddSecret(r, k) ==
  Begin(r, [NoJob EXCEPT !.op = "addSecret", !.client = k], "getRow")

GetSecretClient(r) ==
  /\ pc[r] = "getRow" /\ job[r].op = "addSecret"
  /\ Proceed(r, client[job[r].client] # None, "createSecret", None)
  /\ UNCHANGED <<now, tables, history>>

CreateSecret(r) ==
  /\ pc[r] = "createSecret"
  /\ \E s \in Secrets :
       /\ ownerOf[s] = None
       /\ secret' = [secret EXCEPT ![s] = [client |-> job[r].client,
                                           until |-> now + SecretLifetime]]
       /\ ownerOf' = [ownerOf EXCEPT ![s] = job[r].client]
  /\ Finish(r)
  /\ UNCHANGED <<now, client, code, granted, issues, removed, intended>>

BeginDropSecret(r, k, s) ==
  Begin(r, [NoJob EXCEPT !.op = "dropSecret", !.client = k, !.secret = s], "getSecret")

GetSecret(r) ==
  /\ pc[r] = "getSecret"
  /\ LET s == secret[job[r].secret] IN
       Proceed(r, s # None /\ s.client = job[r].client, "deleteSecret", None)
  /\ UNCHANGED <<now, tables, history>>

DeleteSecret(r) ==
  /\ pc[r] = "deleteSecret"
  /\ secret' = [secret EXCEPT ![job[r].secret] = None]
  /\ Finish(r)
  /\ UNCHANGED <<now, client, code, history>>

\* A statement fails: every caller but the last delete gives up.
DbError(r) ==
  /\ pc[r] # "idle"
  /\ Finish(r)
  /\ UNCHANGED <<now, tables, history>>

Tick ==
  /\ now < MaxTime
  /\ now' = now + 1
  /\ UNCHANGED <<tables, request, history>>

Authorize(r) ==
  \/ \E k \in Clients, uri \in Uris, scope \in SUBSET Scopes :
       BeginAuthorize(r, k, uri, scope)
  \/ CreateCode(r)

Exchange(r) ==
  \/ \E k \in Clients, s \in Secrets, c \in Codes, uri \in Uris :
       BeginExchange(r, k, s, c, uri)
  \/ CheckSecret(r) \/ GetCode(r) \/ Issue(r) \/ LoadUser(r) \/ DeleteCode(r)

Administer(r) ==
  \/ \E u \in Updates : BeginUpdate(r, u[1], u[2])
  \/ \E k \in Clients : BeginAddSecret(r, k)
  \/ \E k \in Clients, s \in Secrets : ownerOf[s] # None /\ BeginDropSecret(r, k, s)
  \/ GetRow(r) \/ Save(r) \/ GetSecretClient(r) \/ CreateSecret(r)
  \/ GetSecret(r) \/ DeleteSecret(r)

Next ==
  \/ \E r \in Requests :
       Authorize(r) \/ Exchange(r) \/ Administer(r) \/ GetClient(r) \/ DbError(r)
  \/ \E k \in Clients : DeleteClient(k) \/ \E new \in Rows : CreateClient(k, new)
  \/ Tick

Spec == Init /\ [][Next]_vars

-----------------------------------------------------------------------------
(* Properties.                                                             *)

\* Every token pair bought with a code goes to the client the code was made
\* for, which showed a secret of its own and the code's redirect URI, and
\* carries the scope the user authorised, all of it the client's when the
\* user did.  Rows that change or go away in the meantime do not matter.
IssuedAsAuthorized ==
  \A x \in issues :
    LET g == granted[x.code] IN
      /\ x.client = g.code.client
      /\ ownerOf[x.secret] = x.client
      /\ Base(x.uri) = Base(g.code.uri)
      /\ x.scope = g.code.scope
      /\ x.scope \subseteq g.allowed

\* A client's row is the one it was created with and, column by column, what
\* the updates since have asked for, in the order of their saves: disabled and
\* not enabled since, it is disabled, whatever else was changed, and a deleted
\* client is gone.  Only a save from a row that somebody has changed or deleted
\* since the update read it breaks this, and it breaks it for its own client.
AsAdministered == \A k \in Clients \ contended : client[k] = asked[k]

\* A code that has bought tokens is deleted, as the comment at the end of
\* handleAuthorizationCodeGrant says, so nobody buys a second pair with it
\* in a request that begins later.
CodeUsedOnce == [][\A r \in Requests : GetCode(r) /\ pc'[r] = "issue"
                      => (\A x \in issues : x.code # job[r].code)
                           \/ \E s \in Requests \ {r} :
                                pc[s] # "idle" /\ job[s].code = job[r].code]_vars
=============================================================================
