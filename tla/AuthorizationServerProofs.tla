---------------------- MODULE AuthorizationServerProofs ----------------------
(***************************************************************************)
(* What the OAuth server promises for any clients, secrets, codes and      *)
(* requests, any lifetimes and any bound on the clock.  Requests work on   *)
(* what they read before, so the invariant says what a request still knows *)
(* when the rows it read have changed or gone: history never changes.      *)
(***************************************************************************)
EXTENDS AuthorizationServer, TLAPS

\* The tables against the history.
TableInv ==
  /\ granted \in [Codes -> Grant \cup {None}]
  /\ \A c \in Codes : granted[c] # None => granted[c].code.scope \subseteq granted[c].allowed
  /\ \A c \in Codes : code[c] # None => granted[c] # None /\ code[c] = granted[c].code
  /\ \A s \in Secrets : secret[s] # None => ownerOf[s] = secret[s].client

\* What a request for job j knows at a label, x being the row it has in hand:
\* the job names what the next statement needs, and the row is what was granted
\* (history g), or the secret whose it is (history o), once and for all.
Exchanging == {"checkSecret", "getCode", "issue", "loadUser", "deleteCode"}

Knows(label, j, x, g, o) ==
  /\ label # "idle" => j.client \in Clients
  /\ label \in {"getClient", "createCode"} => j.uri \in Uris
  /\ label \in Exchanging \/ (label = "getClient" /\ j.op # "authorize") =>
       j.secret \in Secrets /\ j.code \in Codes /\ j.uri \in Uris
  /\ label = "createCode" => j.scope \subseteq x.scopes
  /\ label \in {"getCode", "issue"} => o[j.secret] = j.client
  /\ label = "issue" => /\ g[j.code] # None /\ x = g[j.code].code
                        /\ x.client = j.client /\ Base(x.uri) = Base(j.uri)
  /\ label = "save" \/ (label = "getRow" /\ j.op = "update") => j.change \in Change

RequestInv == \A r \in Requests : Knows(pc[r], job[r], row[r], granted, ownerOf)

IssuesInv ==
  \A x \in issues :
    /\ x.client \in Clients /\ x.secret \in Secrets /\ x.code \in Codes
    /\ granted[x.code] # None

IInv == TypeOK /\ TableInv /\ RequestInv /\ IssuesInv /\ IssuedAsAuthorized /\ AsAdministered

LEMMA InitInv == Init => IInv
<1> SUFFICES ASSUME Init PROVE IInv
  OBVIOUS
<1> USE AuthorizationServerAssumption DEF Init
<1>1. TypeOK
  BY DEF TypeOK, Job, NoJob, Labels
<1>2. TableInv /\ RequestInv
  BY DEF TableInv, RequestInv, Knows, Exchanging
<1>3. IssuesInv /\ IssuedAsAuthorized /\ AsAdministered
  BY DEF IssuesInv, IssuedAsAuthorized, AsAdministered
<1> QED
  BY <1>1, <1>2, <1>3 DEF IInv

\* The types of what a request keeps, apart from those of the tables.
RequestOK ==
  /\ pc \in [Requests -> Labels]
  /\ job \in [Requests -> Job]
  /\ row \in [Requests -> ClientRow \cup CodeRow \cup {None}]
  /\ \A r \in Requests :
       /\ pc[r] \in {"createCode", "save"} => row[r] \in ClientRow
       /\ pc[r] \in {"issue", "loadUser", "deleteCode"} => row[r] \in CodeRow

\* A row in hand fits the label a request goes on to.
Fits(label, x) ==
  /\ label \in Labels /\ x \in ClientRow \cup CodeRow \cup {None}
  /\ label \in {"createCode", "save"} => x \in ClientRow
  /\ label \in {"issue", "loadUser", "deleteCode"} => x \in CodeRow

\* Every operation begins with a job of its own.
LEMMA JobsTyped ==
  ASSUME NEW k \in Clients
  PROVE  /\ \A uri \in Uris, scope \in SUBSET Scopes :
              [NoJob EXCEPT !.op = "authorize", !.client = k, !.uri = uri, !.scope = scope] \in Job
         /\ \A s \in Secrets, c \in Codes, uri \in Uris :
              [NoJob EXCEPT !.op = "exchange", !.client = k, !.secret = s,
                            !.code = c, !.uri = uri] \in Job
         /\ \A change \in Change :
              [NoJob EXCEPT !.op = "update", !.client = k, !.change = change] \in Job
         /\ [NoJob EXCEPT !.op = "addSecret", !.client = k] \in Job
         /\ \A s \in Secrets :
              [NoJob EXCEPT !.op = "dropSecret", !.client = k, !.secret = s] \in Job
<1>1. ASSUME NEW uri \in Uris, NEW scope \in SUBSET Scopes
      PROVE  [NoJob EXCEPT !.op = "authorize", !.client = k, !.uri = uri, !.scope = scope] \in Job
  BY DEF Job, NoJob
<1>2. ASSUME NEW s \in Secrets, NEW c \in Codes, NEW uri \in Uris
      PROVE  [NoJob EXCEPT !.op = "exchange", !.client = k, !.secret = s,
                           !.code = c, !.uri = uri] \in Job
  BY DEF Job, NoJob
<1>3. ASSUME NEW change \in Change
      PROVE  [NoJob EXCEPT !.op = "update", !.client = k, !.change = change] \in Job
  BY DEF Job, NoJob
<1>4. [NoJob EXCEPT !.op = "addSecret", !.client = k] \in Job
  BY DEF Job, NoJob
<1>5. ASSUME NEW s \in Secrets
      PROVE  [NoJob EXCEPT !.op = "dropSecret", !.client = k, !.secret = s] \in Job
  BY DEF Job, NoJob
<1> QED
  BY <1>1, <1>2, <1>3, <1>4, <1>5

\* An update is of a client and asks for a change.
LEMMA UpdateBegun ==
  ASSUME NEW r, \E u \in Updates : BeginUpdate(r, u[1], u[2])
  PROVE  \E k \in Clients, change \in Change : BeginUpdate(r, k, change)
BY AuthorizationServerAssumption

\* A row that is given what an update asks for is a row.
LEMMA ApplyTyped ==
  ASSUME NEW x \in ClientRow, NEW change \in Change
  PROVE  /\ Apply(change, x) \in ClientRow
         /\ \A b \in BOOLEAN : [Apply(change, x) EXCEPT !.status = b] \in ClientRow
<1> DEFINE new == Apply(change, x)
<1>1. x.status \in BOOLEAN /\ x.grant \in BOOLEAN /\ x.scopes \in SUBSET Scopes /\ x.uris \in SUBSET Uris
  BY DEF ClientRow
<1>2. /\ change.status \in BOOLEAN \cup {None} /\ change.grant \in BOOLEAN \cup {None}
      /\ change.scopes \in SUBSET Scopes /\ change.uris \in SUBSET Uris
  BY DEF Change
<1>3. new \in ClientRow
  BY <1>1, <1>2 DEF Apply, ClientRow
<1> HIDE DEF new
<1>4. \A b \in BOOLEAN : [new EXCEPT !.status = b] \in ClientRow
  BY <1>3 DEF ClientRow
<1> QED
  BY <1>3, <1>4 DEF new

LEMMA NoJobTyped == NoJob \in Job
BY DEF Job, NoJob

LEMMA FinishTyped ==
  ASSUME RequestOK, NEW r \in Requests, Finish(r)
  PROVE  RequestOK'
BY NoJobTyped DEF RequestOK, Finish, Goto, Labels

LEMMA ProceedTyped ==
  ASSUME RequestOK, NEW r \in Requests, NEW ok, NEW label, NEW x,
         ok => Fits(label, x), Proceed(r, ok, label, x)
  PROVE  RequestOK'
<1>1. CASE Finish(r)
  BY <1>1, FinishTyped
<1>2. CASE ok /\ Goto(r, label) /\ Keep(r, x) /\ UNCHANGED job
  BY <1>2 DEF RequestOK, Goto, Keep, Fits
<1> QED
  BY <1>1, <1>2 DEF Proceed

LEMMA BeginTyped ==
  ASSUME RequestOK, NEW r \in Requests, NEW what \in Job, NEW label,
         label \in {"getClient", "getRow", "getSecret"}, Begin(r, what, label)
  PROVE  RequestOK'
BY DEF RequestOK, Begin, Goto, Labels

\* Every step preserves the types of the requests ...
LEMMA RequestStep == IInv /\ [Next]_vars => RequestOK'
<1> SUFFICES ASSUME IInv, [Next]_vars PROVE RequestOK'
  OBVIOUS
<1>0. RequestOK /\ RequestInv
  BY DEF IInv, TypeOK, RequestOK
<1>1. ASSUME NEW r \in Requests, NEW what \in Job, NEW label \in {"getClient", "getRow", "getSecret"},
             Begin(r, what, label)
      PROVE  RequestOK'
  BY <1>0, <1>1, BeginTyped
<1>2. ASSUME NEW r \in Requests, NEW k \in Clients, NEW uri \in Uris, NEW scope \in SUBSET Scopes,
             BeginAuthorize(r, k, uri, scope)
      PROVE  RequestOK'
  BY <1>1, <1>2, JobsTyped DEF BeginAuthorize
<1>3. ASSUME NEW r \in Requests, NEW k \in Clients, NEW s \in Secrets, NEW c \in Codes, NEW uri \in Uris,
             BeginExchange(r, k, s, c, uri)
      PROVE  RequestOK'
  BY <1>1, <1>3, JobsTyped DEF BeginExchange
<1>4. ASSUME NEW r \in Requests, NEW k \in Clients,
              \/ \E change \in Change : BeginUpdate(r, k, change)
              \/ BeginAddSecret(r, k)
              \/ \E s \in Secrets : BeginDropSecret(r, k, s)
      PROVE  RequestOK'
  BY <1>1, <1>4, JobsTyped DEF BeginUpdate, BeginAddSecret, BeginDropSecret
<1>5. ASSUME NEW r \in Requests, GetClient(r) \/ GetRow(r)
      PROVE  RequestOK'
  <2>1. client[job[r].client] # None => client[job[r].client] \in ClientRow
    BY <1>0, <1>5 DEF IInv, TypeOK, RequestInv, Knows, GetClient, GetRow
  <2>2. client[job[r].client] # None => /\ Fits("createCode", client[job[r].client])
                                        /\ Fits("save", client[job[r].client])
    BY <2>1 DEF Fits, Labels
  <2>3. Fits("checkSecret", None)
    BY DEF Fits, Labels
  <2> QED
    BY <1>0, <1>5, <2>2, <2>3, ProceedTyped DEF GetClient, GetRow
<1>6. ASSUME NEW r \in Requests, CheckSecret(r) \/ GetSecretClient(r) \/ GetSecret(r)
      PROVE  RequestOK'
  <2>1. Fits("getCode", None) /\ Fits("createSecret", None) /\ Fits("deleteSecret", None)
    BY DEF Fits, Labels
  <2> QED
    BY <1>0, <1>6, <2>1, ProceedTyped DEF CheckSecret, GetSecretClient, GetSecret
<1>7. ASSUME NEW r \in Requests, GetCode(r)
      PROVE  RequestOK'
  <2>1. code[job[r].code] # None => code[job[r].code] \in CodeRow
    BY <1>0, <1>7 DEF IInv, TypeOK, RequestInv, Knows, Exchanging, GetCode
  <2>2. code[job[r].code] # None => Fits("issue", code[job[r].code])
    BY <2>1 DEF Fits, Labels
  <2> QED
    BY <1>0, <1>7, <2>2, ProceedTyped DEF GetCode
<1>8. ASSUME NEW r \in Requests, Issue(r) \/ LoadUser(r)
      PROVE  RequestOK'
  BY <1>0, <1>8, FinishTyped DEF RequestOK, Issue, LoadUser, Goto, Labels
<1>9. ASSUME NEW r \in Requests, \/ CreateCode(r) \/ DeleteCode(r) \/ Save(r) \/ CreateSecret(r)
                                 \/ DeleteSecret(r) \/ DbError(r)
      PROVE  RequestOK'
  BY <1>0, <1>9, FinishTyped DEF CreateCode, DeleteCode, Save, CreateSecret, DeleteSecret, DbError
<1>10. CASE UNCHANGED request
  BY <1>0, <1>10 DEF RequestOK, request
<1> QED
  BY <1>2, <1>3, <1>4, <1>5, <1>6, <1>7, <1>8, <1>9, <1>10, UpdateBegun
  DEF Next, Authorize, Exchange, Administer, DeleteClient, CreateClient, Tick, vars

-----------------------------------------------------------------------------
\* What was granted or made stays in the history, and the tables agree with it.
Grows ==
  /\ \A c \in Codes : granted[c] # None => granted'[c] = granted[c]
  /\ \A s \in Secrets : ownerOf[s] # None => ownerOf'[s] = ownerOf[s]

TablesOK ==
  /\ now \in 0..MaxTime
  /\ client \in [Clients -> ClientRow \cup {None}]
  /\ secret \in [Secrets -> SecretRow \cup {None}]
  /\ code \in [Codes -> CodeRow \cup {None}]
  /\ ownerOf \in [Secrets -> Clients \cup {None}]
  /\ removed \subseteq Clients

LEMMA TableStep == IInv /\ [Next]_vars => TablesOK' /\ TableInv' /\ Grows
<1> DEFINE Goal == TablesOK' /\ TableInv' /\ Grows
<1> SUFFICES ASSUME IInv, [Next]_vars PROVE Goal
  OBVIOUS
<1>0. TablesOK /\ TableInv
  BY DEF IInv, TypeOK, TablesOK
<1> USE <1>0, AuthorizationServerAssumption DEF TablesOK, TableInv, Grows
<1>1. ASSUME NEW r \in Requests, CreateCode(r)
      PROVE  Goal
  <2>1. PICK c \in Codes :
          LET new == [client |-> job[r].client, uri |-> job[r].uri,
                      scope |-> job[r].scope, until |-> now + CodeLifetime] IN
            /\ granted[c] = None
            /\ code' = [code EXCEPT ![c] = new]
            /\ granted' = [granted EXCEPT ![c] = [code |-> new, allowed |-> row[r].scopes]]
    BY <1>1 DEF CreateCode
  <2> DEFINE new == [client |-> job[r].client, uri |-> job[r].uri,
                     scope |-> job[r].scope, until |-> now + CodeLifetime]
             grant == [code |-> new, allowed |-> row[r].scopes]
  <2>2. /\ job[r].client \in Clients /\ job[r].uri \in Uris /\ job[r].scope \in SUBSET Scopes
        /\ row[r] \in ClientRow /\ job[r].scope \subseteq row[r].scopes
    BY <1>1 DEF CreateCode, IInv, TypeOK, RequestInv, Knows, Job
  <2>3. new \in CodeRow /\ new.scope = job[r].scope
    BY <2>2 DEF CodeRow
  <2>4. grant \in Grant /\ grant.code = new /\ new.scope \subseteq grant.allowed
    BY <2>2, <2>3 DEF Grant, ClientRow
  <2>5. /\ granted[c] = None /\ code' = [code EXCEPT ![c] = new]
        /\ granted' = [granted EXCEPT ![c] = grant]
    BY <2>1
  <2>6. UNCHANGED <<now, client, secret, ownerOf, removed>>
    BY <1>1 DEF CreateCode
  <2> HIDE DEF new, grant
  <2> QED
    BY <2>3, <2>4, <2>5, <2>6
<1>2. ASSUME NEW r \in Requests, CreateSecret(r)
      PROVE  Goal
  <2>1. job[r].client \in Clients
    BY <1>2 DEF CreateSecret, IInv, RequestInv, Knows
  <2> QED
    BY <1>2, <2>1 DEF CreateSecret, SecretRow
<1>3. ASSUME NEW r \in Requests, DeleteSecret(r)
      PROVE  Goal
  BY <1>3 DEF DeleteSecret, history
<1>4. ASSUME NEW r \in Requests, Save(r)
      PROVE  Goal
  <2>1. row[r] \in ClientRow /\ job[r].client \in Clients /\ job[r].change \in Change
    BY <1>4 DEF Save, IInv, TypeOK, RequestInv, Knows
  <2>2. LET new == Apply(job[r].change, row[r]) IN
          [new EXCEPT !.status = @ \/ client[job[r].client] = None] \in ClientRow
    <3>1. Apply(job[r].change, row[r]).status \in BOOLEAN
      BY <2>1, ApplyTyped DEF ClientRow
    <3> QED
      BY <2>1, <3>1, ApplyTyped
  <2>3. \E new \in ClientRow : client' = [client EXCEPT ![job[r].client] = new]
    BY <1>4, <2>2 DEF Save
  <2>4. UNCHANGED <<now, secret, code, granted, ownerOf, removed>>
    BY <1>4 DEF Save, history
  <2>5. client' \in [Clients -> ClientRow \cup {None}]
    BY <2>1, <2>3
  <2> QED
    BY <2>4, <2>5
<1>5. ASSUME NEW k \in Clients, DeleteClient(k) \/ \E new \in Rows : CreateClient(k, new)
      PROVE  Goal
  BY <1>5 DEF DeleteClient, CreateClient, history
<1>6. CASE Tick
  BY <1>6 DEF Tick, tables, history
<1>7. CASE UNCHANGED <<now, tables, granted, ownerOf, removed>>
  BY <1>7 DEF tables
<1>8. ASSUME NEW r \in Requests,
             \/ Exchange(r) \/ GetClient(r) \/ DbError(r)
             \/ \E k \in Clients, uri \in Uris, scope \in SUBSET Scopes : BeginAuthorize(r, k, uri, scope)
      PROVE  UNCHANGED <<now, tables, granted, ownerOf, removed>>
  BY <1>8 DEF Exchange, BeginExchange, BeginAuthorize, Begin, CheckSecret, GetCode, Issue, LoadUser,
              DeleteCode, GetClient, DbError, tables, history
<1>9. ASSUME NEW r \in Requests,
             \/ \E u \in Updates : BeginUpdate(r, u[1], u[2])
             \/ \E k \in Clients : BeginAddSecret(r, k)
             \/ \E k \in Clients, s \in Secrets : BeginDropSecret(r, k, s)
             \/ GetRow(r) \/ GetSecretClient(r) \/ GetSecret(r)
      PROVE  UNCHANGED <<now, tables, granted, ownerOf, removed>>
  BY <1>9 DEF BeginUpdate, BeginAddSecret, BeginDropSecret, Begin, GetRow, GetSecretClient, GetSecret,
              tables, history
<1>10. UNCHANGED vars => UNCHANGED <<now, tables, granted, ownerOf, removed>>
  BY DEF vars, history
<1> QED
  BY <1>1, <1>2, <1>3, <1>4, <1>5, <1>6, <1>7, <1>8, <1>9, <1>10 DEF Next, Authorize, Administer

-----------------------------------------------------------------------------
AskedOK == asked \in [Clients -> ClientRow \cup {None}] /\ contended \subseteq Clients

\* A save from the row as it is gives the table and the history the same row.
LEMMA SaveAsAsked ==
  ASSUME IInv, NEW r \in Requests, Save(r)
  PROVE  AskedOK' /\ AsAdministered'
<1> DEFINE k == job[r].client
           new == Apply(job[r].change, row[r])
<1>1. k \in Clients /\ row[r] \in ClientRow /\ job[r].change \in Change
  BY DEF Save, IInv, TypeOK, RequestInv, Knows
<1>2. new \in ClientRow /\ [new EXCEPT !.status = @ \/ FALSE] = new
  <2>1. new \in ClientRow
    BY <1>1, ApplyTyped
  <2> HIDE DEF new
  <2> QED
    BY <2>1 DEF ClientRow
<1>3. client' = [client EXCEPT ![k] = [new EXCEPT !.status = @ \/ client[k] = None]]
  BY DEF Save
<1>4. /\ client \in [Clients -> ClientRow \cup {None}] /\ AskedOK
      /\ \A c \in Clients \ contended : client[c] = asked[c]
  BY DEF IInv, TypeOK, AsAdministered, AskedOK
<1>5. Intend(r, k)
  BY DEF Save
<1>6. CASE client[k] = row[r] /\ asked[k] # None
  <2>1. /\ asked' = [asked EXCEPT ![k] = Apply(job[r].change, @)] /\ contended' = contended
    BY <1>5, <1>6 DEF Intend
  <2>2. asked[k] \in ClientRow
    BY <1>1, <1>4, <1>6 DEF AskedOK
  <2>3. Apply(job[r].change, asked[k]) \in ClientRow
    BY <1>1, <2>2, ApplyTyped
  <2>4. client[k] # None
    BY <1>1, <1>6, AuthorizationServerAssumption
  <2>5. client' = [client EXCEPT ![k] = new]
    BY <1>2, <1>3, <2>4
  <2>6. k \notin contended => Apply(job[r].change, asked[k]) = new
    BY <1>1, <1>4, <1>6
  <2> HIDE DEF new, k
  <2> QED
    BY <1>1, <1>4, <2>1, <2>3, <2>5, <2>6 DEF AskedOK, AsAdministered
<1>7. CASE ~(client[k] = row[r] /\ asked[k] # None)
  <2>1. asked' = [asked EXCEPT ![k] = None] /\ contended' = contended \cup {k}
    BY <1>5, <1>7 DEF Intend
  <2> HIDE DEF new, k
  <2> QED
    BY <1>1, <1>3, <1>4, <2>1 DEF AskedOK, AsAdministered
<1> QED
  BY <1>6, <1>7

\* Creation and deletion change the table and the history alike.
LEMMA AskedStep == IInv /\ [Next]_vars => AskedOK' /\ AsAdministered'
<1> SUFFICES ASSUME IInv, [Next]_vars PROVE AskedOK' /\ AsAdministered'
  OBVIOUS
<1>0. /\ client \in [Clients -> ClientRow \cup {None}] /\ AskedOK
      /\ \A c \in Clients \ contended : client[c] = asked[c]
  BY DEF IInv, TypeOK, AsAdministered, AskedOK
<1>1. ASSUME NEW k \in Clients, NEW new \in Rows, CreateClient(k, new)
      PROVE  AskedOK' /\ AsAdministered'
  BY <1>0, <1>1, AuthorizationServerAssumption DEF CreateClient, AskedOK, AsAdministered
<1>2. ASSUME NEW k \in Clients, DeleteClient(k)
      PROVE  AskedOK' /\ AsAdministered'
  BY <1>0, <1>2 DEF DeleteClient, AskedOK, AsAdministered
<1>3. CASE UNCHANGED <<client, asked, contended>>
  BY <1>0, <1>3 DEF AskedOK, AsAdministered
<1>4. ASSUME NEW r \in Requests, Authorize(r) \/ Exchange(r) \/ GetClient(r) \/ DbError(r)
      PROVE  UNCHANGED <<client, asked, contended>>
  BY <1>4 DEF Authorize, BeginAuthorize, CreateCode, Exchange, BeginExchange, Begin, CheckSecret,
              GetCode, Issue, LoadUser, DeleteCode, GetClient, DbError, tables, history, intended
<1>5. ASSUME NEW r \in Requests, Administer(r), ~ Save(r)
      PROVE  UNCHANGED <<client, asked, contended>>
  BY <1>5 DEF Administer, BeginUpdate, BeginAddSecret, BeginDropSecret, Begin, GetRow,
              GetSecretClient, CreateSecret, GetSecret, DeleteSecret, tables, history, intended
<1>6. Tick \/ UNCHANGED vars => UNCHANGED <<client, asked, contended>>
  BY DEF Tick, vars, tables, history, intended
<1> QED
  BY <1>1, <1>2, <1>3, <1>4, <1>5, <1>6, SaveAsAsked DEF Next

-----------------------------------------------------------------------------
\* What a request knows stays true while others work.
LEMMA KnowsStays ==
  ASSUME IInv, Grows, AuthorizationServerAssumption, NEW q \in Requests,
         UNCHANGED <<pc[q], job[q], row[q]>>
  PROVE  Knows(pc'[q], job'[q], row'[q], granted', ownerOf')
BY DEF IInv, RequestInv, Knows, Exchanging, Grows

\* A request that ends, or begins, or goes on knows what it has to.
LEMMA KnowsIdle ==
  ASSUME NEW j, NEW x, NEW g, NEW o
  PROVE  Knows("idle", j, x, g, o)
BY DEF Knows, Exchanging

LEMMA KnowsStep ==
  ASSUME IInv, [Next]_vars
  PROVE  RequestInv'
<1> DEFINE Now(r) == Knows(pc'[r], job'[r], row'[r], granted', ownerOf')
           Mine(r) == \A q \in Requests \ {r} : UNCHANGED <<pc[q], job[q], row[q]>>
<1>0. /\ pc \in [Requests -> Labels] /\ job \in [Requests -> Job]
      /\ row \in [Requests -> ClientRow \cup CodeRow \cup {None}]
      /\ \A q \in Requests : Knows(pc[q], job[q], row[q], granted, ownerOf)
  BY DEF IInv, TypeOK, RequestInv
<1>1. Grows
  BY TableStep
<1>2. ASSUME NEW r \in Requests, Now(r), Mine(r)
      PROVE  RequestInv'
  BY <1>1, <1>2, KnowsStays, AuthorizationServerAssumption DEF RequestInv
<1>3. ASSUME NEW r \in Requests, Finish(r)
      PROVE  Now(r) /\ Mine(r)
  <2>1. pc'[r] = "idle" /\ Mine(r)
    BY <1>0, <1>3 DEF Finish, Goto
  <2> QED
    BY <2>1, KnowsIdle
<1>4. ASSUME NEW r \in Requests, NEW what, NEW label, Begin(r, what, label),
             Knows(label, what, row[r], granted, ownerOf)
      PROVE  Now(r) /\ Mine(r)
  <2>1. pc'[r] = label /\ job'[r] = what /\ row'[r] = row[r] /\ Mine(r)
    BY <1>0, <1>4 DEF Begin, Goto
  <2>2. granted' = granted /\ ownerOf' = ownerOf
    BY <1>4 DEF Begin, history
  <2> QED
    BY <1>4, <2>1, <2>2
<1>5. ASSUME NEW r \in Requests, NEW ok, NEW label, NEW x, Proceed(r, ok, label, x),
             UNCHANGED history, ok => Knows(label, job[r], x, granted, ownerOf)
      PROVE  Now(r) /\ Mine(r)
  <2>1. CASE Finish(r)
    BY <1>3, <2>1
  <2>2. CASE ok /\ Goto(r, label) /\ Keep(r, x) /\ UNCHANGED job
    <3>1. pc'[r] = label /\ job'[r] = job[r] /\ row'[r] = x /\ Mine(r)
      BY <1>0, <2>2 DEF Goto, Keep
    <3>2. granted' = granted /\ ownerOf' = ownerOf
      BY <1>5 DEF history
    <3> QED
      BY <1>5, <2>2, <3>1, <3>2
  <2> QED
    BY <1>5, <2>1, <2>2 DEF Proceed
<1> HIDE DEF Now, Mine
<1>6. ASSUME NEW r \in Requests, NEW k \in Clients, NEW uri \in Uris, NEW scope \in SUBSET Scopes,
             BeginAuthorize(r, k, uri, scope)
      PROVE  RequestInv'
  <2> DEFINE what == [NoJob EXCEPT !.op = "authorize", !.client = k, !.uri = uri, !.scope = scope]
  <2>1. what.op = "authorize" /\ what.client = k /\ what.uri = uri
    BY DEF NoJob
  <2>2. Begin(r, what, "getClient")
    BY <1>6 DEF BeginAuthorize
  <2> HIDE DEF what
  <2>3. Knows("getClient", what, row[r], granted, ownerOf)
    BY <2>1 DEF Knows, Exchanging
  <2> QED
    BY <1>2, <1>4, <2>2, <2>3
<1>7. ASSUME NEW r \in Requests, NEW k \in Clients, NEW s \in Secrets, NEW c \in Codes, NEW uri \in Uris,
             BeginExchange(r, k, s, c, uri)
      PROVE  RequestInv'
  <2> DEFINE what == [NoJob EXCEPT !.op = "exchange", !.client = k, !.secret = s,
                                   !.code = c, !.uri = uri]
  <2>1. what.client = k /\ what.uri = uri /\ what.secret = s /\ what.code = c
    BY DEF NoJob
  <2>2. Begin(r, what, "getClient")
    BY <1>7 DEF BeginExchange
  <2> HIDE DEF what
  <2>3. Knows("getClient", what, row[r], granted, ownerOf)
    BY <2>1 DEF Knows, Exchanging
  <2> QED
    BY <1>2, <1>4, <2>2, <2>3
<1>8. ASSUME NEW r \in Requests, NEW k \in Clients,
             \/ \E change \in Change : BeginUpdate(r, k, change)
             \/ BeginAddSecret(r, k)
             \/ \E s \in Secrets : BeginDropSecret(r, k, s)
      PROVE  RequestInv'
  <2>1. \E what, label : /\ what.client = k /\ label \in {"getRow", "getSecret"}
                         /\ what.op = "update" => what.change \in Change
                         /\ Begin(r, what, label)
    BY <1>8 DEF BeginUpdate, BeginAddSecret, BeginDropSecret, NoJob
  <2>2. ASSUME NEW what, what.client = k, NEW label \in {"getRow", "getSecret"},
               what.op = "update" => what.change \in Change
        PROVE  Knows(label, what, row[r], granted, ownerOf)
    BY <2>2 DEF Knows, Exchanging
  <2> QED
    BY <1>2, <1>4, <2>1, <2>2
<1>9. ASSUME NEW r \in Requests, GetClient(r)
      PROVE  RequestInv'
  <2>1. ASSUME NEW x, MayAuthorize(x, job[r])
        PROVE  Knows("createCode", job[r], x, granted, ownerOf)
    BY <1>0, <1>9, <2>1 DEF GetClient, MayAuthorize, Knows, Exchanging
  <2>2. job[r].op # "authorize" => Knows("checkSecret", job[r], None, granted, ownerOf)
    BY <1>0, <1>9 DEF GetClient, Knows, Exchanging
  <2>3. UNCHANGED history
    BY <1>9 DEF GetClient
  <2>4. CASE job[r].op = "authorize"
    BY <1>2, <1>5, <1>9, <2>1, <2>3, <2>4 DEF GetClient
  <2>5. CASE job[r].op # "authorize"
    BY <1>2, <1>5, <1>9, <2>2, <2>3, <2>5 DEF GetClient
  <2> QED
    BY <2>4, <2>5
<1>10. ASSUME NEW r \in Requests, CheckSecret(r)
       PROVE  RequestInv'
  <2> DEFINE s == secret[job[r].secret]
  <2>1. s # None /\ s.client = job[r].client /\ now < s.until
          => Knows("getCode", job[r], None, granted, ownerOf)
    BY <1>0, <1>10 DEF CheckSecret, Knows, Exchanging, IInv, TableInv
  <2> QED
    BY <1>2, <1>5, <1>10, <2>1 DEF CheckSecret
<1>11. ASSUME NEW r \in Requests, GetCode(r)
       PROVE  RequestInv'
  <2> DEFINE c == code[job[r].code]
  <2>1. c # None /\ AcceptsCode(c, job[r]) => Knows("issue", job[r], c, granted, ownerOf)
    BY <1>0, <1>11 DEF GetCode, AcceptsCode, Knows, Exchanging, IInv, TableInv
  <2> QED
    BY <1>2, <1>5, <1>11, <2>1 DEF GetCode
<1>12. ASSUME NEW r \in Requests, GetRow(r) \/ GetSecretClient(r) \/ GetSecret(r)
       PROVE  RequestInv'
  <2>1. ASSUME NEW label \in {"createSecret", "deleteSecret"}, NEW x
        PROVE  Knows(label, job[r], x, granted, ownerOf)
    BY <1>0, <1>12, <2>1 DEF GetRow, GetSecretClient, GetSecret, Knows, Exchanging
  <2>2. ASSUME NEW x, GetRow(r)
        PROVE  Knows("save", job[r], x, granted, ownerOf)
    BY <1>0, <2>2 DEF GetRow, Knows, Exchanging
  <2> QED
    BY <1>2, <1>5, <1>12, <2>1, <2>2 DEF GetRow, GetSecretClient, GetSecret
<1>13. ASSUME NEW r \in Requests, Issue(r)
       PROVE  RequestInv'
  <2>1. pc'[r] \in {"loadUser", "deleteCode"} /\ UNCHANGED <<job, row>> /\ Mine(r)
    BY <1>0, <1>13 DEF Issue, Goto, Mine
  <2>2. Knows("issue", job[r], row[r], granted, ownerOf)
    BY <1>0, <1>13 DEF Issue
  <2>3. Now(r)
    BY <2>1, <2>2 DEF Now, Knows, Exchanging
  <2> QED
    BY <1>2, <2>1, <2>3
<1>14. ASSUME NEW r \in Requests, LoadUser(r)
       PROVE  RequestInv'
  <2>1. CASE Goto(r, "deleteCode") /\ UNCHANGED <<job, row>>
    <3>1. pc'[r] = "deleteCode" /\ Mine(r)
      BY <1>0, <2>1 DEF Goto, Mine
    <3>2. Now(r)
      BY <1>0, <1>14, <2>1, <3>1 DEF LoadUser, Now, Knows, Exchanging
    <3> QED
      BY <1>2, <3>1, <3>2
  <2> QED
    BY <1>2, <1>3, <1>14, <2>1 DEF LoadUser
<1>15. ASSUME NEW r \in Requests, \/ CreateCode(r) \/ DeleteCode(r) \/ Save(r) \/ CreateSecret(r)
                                  \/ DeleteSecret(r) \/ DbError(r)
       PROVE  RequestInv'
  BY <1>2, <1>3, <1>15 DEF CreateCode, DeleteCode, Save, CreateSecret, DeleteSecret, DbError
<1>16. CASE UNCHANGED request
  BY <1>1, <1>16, KnowsStays, AuthorizationServerAssumption DEF request, RequestInv
<1> QED
  BY <1>6, <1>7, <1>8, <1>9, <1>10, <1>11, <1>12, <1>13, <1>14, <1>15, <1>16, UpdateBegun
  DEF Next, Authorize, Exchange, Administer, DeleteClient, CreateClient, Tick, vars

-----------------------------------------------------------------------------
\* The tokens bought so far are explained by the history, which keeps what it
\* holds, and those of this step by what the request knows.
LEMMA IssuesStep == IInv /\ [Next]_vars => IssuesInv' /\ IssuedAsAuthorized'
<1> SUFFICES ASSUME IInv, [Next]_vars PROVE IssuesInv' /\ IssuedAsAuthorized'
  OBVIOUS
<1> DEFINE Explained(x) ==
      /\ x.client \in Clients /\ x.secret \in Secrets /\ x.code \in Codes
      /\ granted'[x.code] # None
      /\ LET g == granted'[x.code] IN
           /\ x.client = g.code.client
           /\ ownerOf'[x.secret] = x.client
           /\ Base(x.uri) = Base(g.code.uri)
           /\ x.scope = g.code.scope
           /\ x.scope \subseteq g.allowed
<1>1. Grows
  BY TableStep
<1>2. ASSUME NEW x \in issues
      PROVE  Explained(x)
  <2>1. ownerOf[x.secret] # None
    BY AuthorizationServerAssumption DEF IInv, IssuesInv, IssuedAsAuthorized
  <2> QED
    BY <1>1, <2>1 DEF Grows, IInv, IssuesInv, IssuedAsAuthorized
<1>3. ASSUME NEW r \in Requests, Issue(r), NEW x \in issues', x \notin issues
      PROVE  Explained(x)
  <2>1. x = [code |-> job[r].code, client |-> job[r].client, uri |-> job[r].uri,
             secret |-> job[r].secret, scope |-> row[r].scope]
    BY <1>3 DEF Issue
  <2>2. granted' = granted /\ ownerOf' = ownerOf
    BY <1>3 DEF Issue
  <2>3. pc[r] = "issue" /\ Knows("issue", job[r], row[r], granted, ownerOf)
    BY <1>3 DEF Issue, IInv, RequestInv
  <2>4. /\ granted[job[r].code] # None /\ row[r] = granted[job[r].code].code
        /\ row[r].client = job[r].client /\ Base(row[r].uri) = Base(job[r].uri)
        /\ ownerOf[job[r].secret] = job[r].client
        /\ job[r].client \in Clients /\ job[r].secret \in Secrets /\ job[r].code \in Codes
    BY <2>3 DEF Knows, Exchanging
  <2>5. granted[job[r].code].code.scope \subseteq granted[job[r].code].allowed
    BY <2>4 DEF IInv, TableInv
  <2> QED
    BY <2>1, <2>2, <2>4, <2>5
<1>4. (\A r \in Requests : ~ Issue(r)) => issues' = issues
  BY DEF Next, vars, Authorize, Exchange, Administer, BeginAuthorize, BeginExchange, BeginUpdate,
         BeginAddSecret, BeginDropSecret, Begin, GetClient, CreateCode, CheckSecret, GetCode, LoadUser,
         DeleteCode, CreateClient, DeleteClient, GetRow, Save, GetSecretClient, CreateSecret,
         GetSecret, DeleteSecret, DbError, Tick, history
<1>5. \A x \in issues' : Explained(x)
  BY <1>2, <1>3, <1>4
<1> QED
  BY <1>5 DEF IssuesInv, IssuedAsAuthorized

\* The invariant holds throughout, whatever fails and however requests overlap.
THEOREM Invariance == Spec => []IInv
<1>1. IInv /\ [Next]_vars => IInv'
  <2> SUFFICES ASSUME IInv, [Next]_vars PROVE IInv'
    OBVIOUS
  <2>1. TypeOK'
    BY RequestStep, TableStep, AskedStep DEF TypeOK, RequestOK, TablesOK, AskedOK
  <2> QED
    BY <2>1, TableStep, AskedStep, KnowsStep, IssuesStep DEF IInv
<1> QED
  BY InitInv, <1>1, PTL DEF Spec

\* Every reachable state has its types: no request ever uses the nil of a lookup
\* that found nothing.
THEOREM TypeCorrect == Spec => []TypeOK
BY Invariance, PTL DEF IInv

\* Every pair of tokens is issued as it was authorised, although codes are read
\* long before, and clients and secrets come and go.
THEOREM TokensAsAuthorized == Spec => []IssuedAsAuthorized
BY Invariance, PTL DEF IInv

\* A client's row is what administrators asked for, update after update, as long
\* as no save of that client was made from a row that had changed meanwhile.
THEOREM AdministeredAsAsked == Spec => []AsAdministered
BY Invariance, PTL DEF IInv
=============================================================================
