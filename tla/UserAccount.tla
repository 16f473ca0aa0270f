------------------------------ MODULE UserAccount ------------------------------
(***************************************************************************)
(* The accounts that one user name has had in an application, one after    *)
(* another, and the profiles of these accounts: internal/service/user.go   *)
(* and profile.go with their repositories, the hooks of model/user.go, and *)
(* Register and Login of auth_account.go as far as they touch the row.     *)
(* Accounts are rows of PostgreSQL (no transactions), profiles documents   *)
(* of MongoDB: an action is one statement and the local code after it.     *)
(*                                                                         *)
(* A password column holds a bcrypt hash: of a password, or, when a hash   *)
(* was taken for a password, of a hash.                                    *)
(***************************************************************************)
EXTENDS FiniteSets, Naturals

CONSTANTS Requests,     \* request goroutines
          Passwords,    \* the passwords people choose
          MaxUsers,     \* bound on the accounts registered
          MaxDocs,      \* bound on the profiles inserted
          MaxRecords    \* bound on both together

ASSUME UserAssumption ==
  MaxUsers \in Nat /\ MaxDocs \in Nat /\ MaxRecords \in Nat

VARIABLES
  row,            \* the row of table users with the user name, if there is one
  docs,           \* documents of collection profiles
  users, made,    \* how many accounts and profiles there have been
  pc, op, loc,    \* where a request stands, what it is, and its locals
  doubled         \* history: accounts two requests created a profile for at once

tables  == <<row, docs, users, made>>
request == <<pc, op, loc>>
vars    == <<tables, request, doubled>>

UserIds == 1..MaxUsers
DocIds  == 1..MaxDocs
Fields  == {"card", "custom"}     \* custom_data, and all the other fields

Hash == [of : Passwords, rehashed : BOOLEAN]
Row  == [id : UserIds, hash : Hash, login : BOOLEAN]
Doc  == [id : DocIds, user : UserIds, filled : SUBSET Fields]

\* What is written to a column: a password, or a hash where one is expected.
Plain(p) == [of |-> p, rehashed |-> FALSE]

Ops == {"none", "register", "signIn", "update", "password", "delete",
        "profile", "edit"}

\* id: the account; secret: what goes into the password column, hashed: it is
\* a hash already; seen, doc: what was read; asked: the fields to fill.
\* For the properties: what was read was changed since (stale); another
\* request of the account overlapped a deletion, or a statement of it failed.
Local == [id : 0..MaxUsers, secret : SUBSET Hash, hashed : BOOLEAN,
          seen : SUBSET Row, doc : SUBSET Doc,
          asked : SUBSET Fields,
          stale : BOOLEAN, disturbed : BOOLEAN, failed : BOOLEAN]
NoLocal == [id |-> 0, secret |-> {}, hashed |-> FALSE, seen |-> {}, doc |-> {},
            asked |-> {},
            stale |-> FALSE, disturbed |-> FALSE, failed |-> FALSE]

Labels == {"idle", "create", "touch", "existing", "save", "insert",
           "findDoc", "loadDoc", "putDoc", "dropDoc", "dropRow",
           "checkDoc", "insertDoc"}

TypeOK ==
  /\ users \in 0..MaxUsers /\ made \in 0..MaxDocs
  /\ row \subseteq Row /\ Cardinality(row) <= 1
  /\ \A x \in row : x.id <= users
  /\ docs \subseteq Doc
  /\ \A d \in docs : d.id <= made /\ d.user <= users
  /\ \A d, e \in docs : d.id = e.id => d = e
  /\ pc \in [Requests -> Labels] /\ op \in [Requests -> Ops]
  /\ loc \in [Requests -> Local]
  /\ doubled \subseteq UserIds

Init ==
  /\ row = {} /\ docs = {} /\ users = 0 /\ made = 0
  /\ pc = [r \in Requests |-> "idle"] /\ op = [r \in Requests |-> "none"]
  /\ loc = [r \in Requests |-> NoLocal]
  /\ doubled = {}

-----------------------------------------------------------------------------
(* Requests.                                                               *)

RowOf(u)  == {x \in row : x.id = u}
DocsOf(u) == {d \in docs : d.user = u}
DocById(d) == {e \in docs : e.id = d.id}

RoomForUser == users < MaxUsers /\ users + made < MaxRecords

Goto(r, label) == pc' = [pc EXCEPT ![r] = label]

Finish(r) ==
  /\ Goto(r, "idle")
  /\ op' = [op EXCEPT ![r] = "none"]

\* Who is about to write from a copy of the row of account u, or of a document
\* with one of the identities ds.
RowHolders(u)  == {q \in Requests : pc[q] \in {"save", "insert"} /\ loc[q].id = u}
DocHolders(ds) == {q \in Requests : pc[q] = "putDoc" /\ \E d \in loc[q].doc : d.id \in ds}

\* r's locals become mine; those that hold what r changes go stale.
Changing(r, mine, holders) ==
  loc' = [q \in Requests |-> IF q = r THEN mine
                             ELSE [loc[q] EXCEPT !.stale = @ \/ q \in holders]]

Keep(r, mine) == loc' = [loc EXCEPT ![r] = mine]

\* A request begins, on account u: a deletion notes what overlaps it.
Begin(r, what, u, label, local) ==
  /\ pc[r] = "idle"
  /\ Goto(r, label)
  /\ op' = [op EXCEPT ![r] = what]
  /\ LET others == {q \in Requests \ {r} : pc[q] # "idle" /\ loc[q].id = u}
     IN  loc' = [q \in Requests |->
           IF q = r THEN [local EXCEPT !.id = u,
                            !.disturbed = what = "delete" /\ others # {}]
           ELSE [loc[q] EXCEPT !.disturbed = @ \/ (q \in others /\ op[q] = "delete")]]
  /\ UNCHANGED tables

\* A statement fails and the request with it, or the process stops.
Fail(r) ==
  /\ pc[r] # "idle"
  /\ Finish(r) /\ Keep(r, NoLocal)
  /\ UNCHANGED <<tables, doubled>>

-----------------------------------------------------------------------------
(* Register and Login.                                                     *)

BeginRegister(r, p, f) ==
  /\ row = {} /\ RoomForUser
  /\ Begin(r, "register", 0, "create",
           [NoLocal EXCEPT !.secret = {Plain(p)}, !.asked = f])
  /\ UNCHANGED doubled

\* Mutant: the index does not keep the user name unique.
CreateAnother(r) ==
  /\ pc[r] = "create"
  /\ RoomForUser
  /\ users' = users + 1
  /\ row' = row \cup
       {[id |-> users + 1, hash |-> h, login |-> FALSE] : h \in loc[r].secret}
  /\ Finish(r) /\ Keep(r, NoLocal)
  /\ UNCHANGED <<docs, made, doubled>>

\* The unique index on the user name refuses a second row (Fail).
Create(r) ==
  /\ pc[r] = "create"
  /\ row = {} /\ RoomForUser
  /\ users' = users + 1
  /\ row' = {[id |-> users + 1, hash |-> h, login |-> FALSE] : h \in loc[r].secret}
  /\ IF loc[r].asked = {}
       THEN Finish(r) /\ Keep(r, NoLocal)
       ELSE Goto(r, "checkDoc") /\ Keep(r, [NoLocal EXCEPT !.id = users + 1])
              /\ UNCHANGED op
  /\ UNCHANGED <<docs, made, doubled>>

BeginSignIn(r, p) ==
  /\ \E x \in row : x.hash = Plain(p) /\ Begin(r, "signIn", x.id, "touch", NoLocal)
  /\ UNCHANGED doubled

\* UpdateLastLogin.
Touch(r) ==
  /\ pc[r] = "touch"
  /\ row' = {IF x.id = loc[r].id THEN [x EXCEPT !.login = TRUE] ELSE x : x \in row}
  /\ Changing(r, NoLocal, RowHolders(loc[r].id))
  /\ Finish(r)
  /\ UNCHANGED <<docs, users, made, doubled>>

-----------------------------------------------------------------------------
(* UpdateUser and UpdatePassword: GetByID, then the repository's Update,    *)
(* which reads the row again and saves all of it.                          *)

\* What UpdateUser passes for a password is the hash it read.
BeginUpdate(r, f) ==
  /\ \E x \in row : Begin(r, "update", x.id, "existing",
       [NoLocal EXCEPT !.seen = {x}, !.secret = {x.hash}, !.hashed = TRUE,
                       !.asked = f])
  /\ UNCHANGED doubled

BeginPassword(r, old, new) ==
  /\ \E x \in row :
       /\ x.hash = Plain(old)
       /\ Begin(r, "password", x.id, "existing",
                [NoLocal EXCEPT !.seen = {x}, !.secret = {Plain(new)}])
  /\ UNCHANGED doubled

\* FirstChangePassword, by an administrator: without the old password, and first or
\* not.
BeginFirstChange(r, new) ==
  /\ \E x \in row : Begin(r, "password", x.id, "existing",
       [NoLocal EXCEPT !.seen = {x}, !.secret = {Plain(new)}])
  /\ UNCHANGED doubled

\* Mutant: the row to save is the one the service read.
ExistingAsRead(r) ==
  /\ pc[r] = "existing"
  /\ Goto(r, "save")
  /\ UNCHANGED <<tables, doubled, op, loc>>

\* Mutant: a row that is not found is not an error.
ExistingOrAsRead(r) ==
  /\ pc[r] = "existing"
  /\ Goto(r, "save")
  /\ Keep(r, [loc[r] EXCEPT !.seen = IF RowOf(loc[r].id) = {} THEN @ ELSE RowOf(loc[r].id)])
  /\ UNCHANGED <<tables, doubled, op>>

Existing(r) ==
  /\ pc[r] = "existing"
  /\ IF RowOf(loc[r].id) = {}
       THEN Finish(r) /\ Keep(r, NoLocal)
       ELSE /\ Goto(r, "save")
            /\ Keep(r, [loc[r] EXCEPT !.seen = RowOf(loc[r].id)])
            /\ UNCHANGED op
  /\ UNCHANGED <<tables, doubled>>

\* Mutant: the hook leaves a password alone that is a hash already.
BeforeUpdateOnce(secret, hashed) == secret

BeforeUpdate(secret, hashed) ==
  {IF hashed THEN [h EXCEPT !.rehashed = TRUE] ELSE h : h \in secret}

Written(r) ==
  {[x EXCEPT !.hash = h] :
     x \in loc[r].seen, h \in BeforeUpdate(loc[r].secret, loc[r].hashed)}

\* What an update does once the row is written.
AfterWrite(r) ==
  /\ IF op[r] = "update" /\ loc[r].asked # {}
       THEN Goto(r, "findDoc") /\ UNCHANGED op
       ELSE Finish(r)
  /\ Changing(r, IF op[r] = "update" /\ loc[r].asked # {}
                   THEN [NoLocal EXCEPT !.id = loc[r].id, !.asked = loc[r].asked]
                   ELSE NoLocal,
              RowHolders(loc[r].id))

Save(r) ==
  /\ pc[r] = "save"
  /\ IF RowOf(loc[r].id) = {}
       THEN Goto(r, "insert") /\ UNCHANGED <<row, op, loc>>
       ELSE row' = Written(r) /\ AfterWrite(r)
  /\ UNCHANGED <<docs, users, made, doubled>>

\* gorm's Save inserts the row that an UPDATE did not find, or updates it if it
\* is there by now.  The name may have another account since (Fail).
Insert(r) ==
  /\ pc[r] = "insert"
  /\ row = RowOf(loc[r].id)
  /\ row' = Written(r) /\ AfterWrite(r)
  /\ UNCHANGED <<docs, users, made, doubled>>

-----------------------------------------------------------------------------
(* Profiles.                                                               *)

\* A registration asks as CreateProfile does, and goes on without an error.
CheckDoc(r) ==
  /\ pc[r] = "checkDoc"
  /\ IF DocsOf(loc[r].id) = {}
       THEN Goto(r, "insertDoc") /\ UNCHANGED <<op, loc>>
       ELSE Finish(r) /\ Keep(r, NoLocal)
  /\ doubled' = IF \E q \in Requests : pc[q] = "insertDoc" /\ loc[q].id = loc[r].id
                  THEN doubled \cup {loc[r].id} ELSE doubled
  /\ UNCHANGED tables

\* The account is that of the token: it may be deleted by now.
BeginProfile(r, u) ==
  /\ u <= users
  /\ DocsOf(u) = {}
  /\ Begin(r, "profile", u, "insertDoc", NoLocal)
  /\ doubled' = IF \E q \in Requests : pc[q] = "insertDoc" /\ loc[q].id = u
                  THEN doubled \cup {u} ELSE doubled

InsertDoc(r) ==
  /\ pc[r] = "insertDoc"
  /\ made < MaxDocs /\ users + made < MaxRecords
  /\ made' = made + 1
  /\ docs' = docs \cup
       {[id |-> made + 1, user |-> loc[r].id, filled |-> {}]}
  /\ Finish(r) /\ Keep(r, NoLocal)
  /\ UNCHANGED <<row, users, doubled>>

\* UpdateProfileByUserID: what it reads is what it writes back.
BeginEdit(r, u, f) ==
  /\ \E d \in docs :
       /\ d.user = u
       /\ Begin(r, "edit", u, "putDoc",
                [NoLocal EXCEPT !.doc = {d}, !.asked = f])
  /\ UNCHANGED doubled

\* GetProfileByUserID in UpdateUser and DeleteUser: a user may have none.
FindDoc(r) ==
  /\ pc[r] = "findDoc"
  /\ \/ /\ DocsOf(loc[r].id) = {} /\ op[r] = "update"
        /\ Finish(r) /\ Keep(r, NoLocal)
     \/ /\ DocsOf(loc[r].id) = {} /\ op[r] = "delete"
        /\ Goto(r, "dropRow") /\ UNCHANGED <<op, loc>>
     \/ \E d \in DocsOf(loc[r].id) :
          /\ Goto(r, IF op[r] = "update" THEN "loadDoc" ELSE "dropDoc")
          /\ Keep(r, [loc[r] EXCEPT !.doc = {d}])
          /\ UNCHANGED op
  /\ UNCHANGED <<tables, doubled>>

\* UpdateProfile reads the profile again; one that is gone is only logged.
LoadDoc(r) ==
  /\ pc[r] = "loadDoc"
  /\ LET found == UNION {DocById(d) : d \in loc[r].doc}
     IN  IF found = {} THEN Finish(r) /\ Keep(r, NoLocal)
         ELSE /\ Goto(r, "putDoc") /\ UNCHANGED op
              /\ Keep(r, [loc[r] EXCEPT !.doc = found])
  /\ UNCHANGED <<tables, doubled>>

\* Mutant: a field that was not sent is written as empty.
UpdateFieldsAll(filled, asked) == asked

UpdateFields(filled, asked) == filled \cup asked

\* The whole document goes into the $set of one UpdateOne; none is inserted.
PutDoc(r) ==
  /\ pc[r] = "putDoc"
  /\ LET news == {[d EXCEPT !.filled = UpdateFields(@, loc[r].asked)] : d \in loc[r].doc}
         ids  == {d.id : d \in news}
     IN  /\ docs' = {d \in docs : d.id \notin ids} \cup {d \in news : DocById(d) # {}}
         /\ Changing(r, NoLocal, DocHolders(ids))
  /\ Finish(r)
  /\ UNCHANGED <<row, users, made, doubled>>

\* UpdateCustomData and DeleteProfile, by the profile's own id: one statement.
SetCustom(r, d) ==
  /\ pc[r] = "idle"
  /\ docs' = (docs \ {d}) \cup {[d EXCEPT !.filled = @ \cup {"custom"}]}
  /\ Changing(r, NoLocal, DocHolders({d.id}))
  /\ UNCHANGED <<row, users, made, pc, op, doubled>>

DeleteProfile(r, d) ==
  /\ pc[r] = "idle"
  /\ docs' = docs \ {d}
  /\ Changing(r, NoLocal, DocHolders({d.id}))
  /\ UNCHANGED <<row, users, made, pc, op, doubled>>

-----------------------------------------------------------------------------
(* DeleteUser.                                                             *)

BeginDelete(r) ==
  /\ \E x \in row : Begin(r, "delete", x.id, "findDoc", NoLocal)
  /\ UNCHANGED doubled

\* A profile that cannot be deleted is only logged.
DropDocFails(r) ==
  /\ pc[r] = "dropDoc"
  /\ Goto(r, "dropRow")
  /\ Keep(r, [loc[r] EXCEPT !.doc = {}, !.failed = TRUE])
  /\ UNCHANGED <<tables, op, doubled>>

\* Mutant: the profile is looked for under the account's id.
DropDocByUser(r) ==
  /\ pc[r] = "dropDoc"
  /\ docs' = {d \in docs : d.id # loc[r].id}
  /\ Goto(r, "dropRow")
  /\ Keep(r, [loc[r] EXCEPT !.doc = {}])
  /\ UNCHANGED <<row, users, made, op, doubled>>

DropDoc(r) ==
  /\ pc[r] = "dropDoc"
  /\ LET ids == {d.id : d \in loc[r].doc}
     IN  /\ docs' = {d \in docs : d.id \notin ids}
         /\ Changing(r, [loc[r] EXCEPT !.doc = {}], DocHolders(ids))
  /\ Goto(r, "dropRow")
  /\ UNCHANGED <<row, users, made, op, doubled>>

DropRow(r) ==
  /\ pc[r] = "dropRow"
  /\ row' = row \ RowOf(loc[r].id)
  /\ Changing(r, NoLocal, RowHolders(loc[r].id))
  /\ Finish(r)
  /\ UNCHANGED <<docs, users, made, doubled>>

-----------------------------------------------------------------------------
Account(r) ==
  \/ \E p \in Passwords : \E f \in {{}, Fields} : BeginRegister(r, p, f)
  \/ \E p \in Passwords : BeginSignIn(r, p)
  \/ \E f \in {{}, {"card"}} : BeginUpdate(r, f)
  \/ \E old, new \in Passwords : BeginPassword(r, old, new)
  \/ \E new \in Passwords : BeginFirstChange(r, new)
  \/ BeginDelete(r)
  \/ Create(r) \/ Touch(r) \/ Existing(r) \/ Save(r) \/ Insert(r) \/ DropRow(r)

Profile(r) ==
  \/ \E u \in UserIds : BeginProfile(r, u)
  \/ \E u \in UserIds, g \in Fields : BeginEdit(r, u, {g})
  \/ \E d \in docs : DeleteProfile(r, d) \/ SetCustom(r, d)
  \/ CheckDoc(r) \/ InsertDoc(r) \/ FindDoc(r) \/ LoadDoc(r) \/ PutDoc(r)
  \/ DropDoc(r) \/ DropDocFails(r)

Next == \E r \in Requests : Account(r) \/ Profile(r) \/ Fail(r)

Spec == Init /\ [][Next]_vars

-----------------------------------------------------------------------------
(* Properties.                                                             *)

\* The passwords that sign in.
Good == {x.hash.of : x \in {y \in row : ~ y.hash.rehashed}}

\* A password begins to sign in only by the statement of a request that was
\* given it for the account: whatever updates, changes of the password, deletions
\* and registrations overlap, one that was replaced does not come back.
ReplacedPasswordDead ==
  [][\A p \in Good' \ Good :
       \E r \in Requests : /\ op[r] \in {"register", "password"}
                           /\ loc[r].secret = {Plain(p)}
                           /\ Create(r) \/ Save(r) \/ Insert(r)]_vars

\* A deleted account comes back only by the INSERT of an update whose two
\* statements its deletion fell between.
RevivedOnlyByOverlap ==
  [][\A x \in row' : x.id <= users /\ RowOf(x.id) = {} =>
       \E r \in Requests : Insert(r) /\ loc[r].id = x.id /\ loc[r].stale]_vars

\* What is written back whole (a row by Update, a profile by its Update) takes
\* nothing back that was not asked for, unless it was changed after it was read.
WritesOnlyAsked ==
  [][\A r \in Requests : ~ loc[r].stale =>
       /\ Save(r) => \A x \in row, y \in row' : x.id = y.id => x.login = y.login
       /\ PutDoc(r) => \A d \in docs, e \in docs' :
                         d.id = e.id => d.filled \ loc[r].asked = e.filled \ loc[r].asked]_vars

\* A DeleteUser that no request of the account overlapped, and in which nothing
\* failed, leaves neither the account nor a profile of it, provided two
\* creations of the profile never overlapped.
DeletedWhole ==
  [][\A r \in Requests :
       DropRow(r) /\ ~ loc[r].disturbed /\ ~ loc[r].failed /\ loc[r].id \notin doubled
         => /\ \A x \in row' : x.id # loc[r].id
            /\ \A d \in docs' : d.user # loc[r].id]_vars
=============================================================================
