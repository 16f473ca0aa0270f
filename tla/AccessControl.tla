----------------------------- MODULE AccessControl -----------------------------
(***************************************************************************)
(* Roles and permissions of one application, and a user who asks what they *)
(* may do: internal/service/role.go and permission.go, their repositories  *)
(* and handlers.  Four tables of PostgreSQL without foreign keys; an       *)
(* action is one statement, or one transaction, and the code after it.     *)
(*                                                                         *)
(* The code column of permissions is unique and no handler sets it, so of  *)
(* the permissions made by a request one at most exists at a time; others  *)
(* were put into the table with their codes.                               *)
(***************************************************************************)
EXTENDS FiniteSets, Naturals

CONSTANTS Requests,     \* request goroutines
          Names,        \* names of roles
          Coded,        \* permissions in the table from the start
          Blank,        \* ids for permissions made by requests
          RoleIds,      \* ids for roles
          NoRole,       \* no role
          MaxRecords    \* bound on the roles and permissions made

ASSUME AccessControlAssumption ==
  /\ NoRole \notin RoleIds
  /\ Coded \cap Blank = {}
  /\ MaxRecords \in Nat

VARIABLES
  roles,          \* rows of roles
  perms, spent,   \* rows of permissions, and the ids of Blank given so far
  grants,         \* rows of role_permissions
  members,        \* rows of user_roles for the user
  made,           \* the ids of roles given so far
  pc, loc,        \* where a request stands, and its locals
  raced           \* history: roles deleted while something was added to them

tables == <<roles, perms, spent, grants, members, made>>
vars   == <<tables, pc, loc, raced>>

Room == Cardinality(made) + Cardinality(spent) < MaxRecords
Perms   == Coded \cup Blank
Role    == [id : RoleIds, name : Names, system : BOOLEAN]

\* role, seen: the role of the request and its row as read; name: the new name;
\* perm: the permission; todo, found: roles to read, permissions read.  For the
\* properties: before, what the user had when the question began; changes, how
\* often the tables changed since (up to two).
Local == [role : RoleIds \cup {NoRole}, seen : SUBSET Role, name : SUBSET Names, perm : SUBSET Perms,
          todo : SUBSET RoleIds, found : SUBSET Perms,
          before : SUBSET Perms, changes : 0..2]
NoLocal == [role |-> NoRole, seen |-> {}, name |-> {}, perm |-> {},
            todo |-> {}, found |-> {}, before |-> {}, changes |-> 0]

Adding == {"addPerm", "readAgain", "addUser"}
Asking == {"ask", "find", "read"}
Labels == Adding \cup Asking \cup
  {"idle", "insertRole", "again", "nameFree", "saveRole", "dropRole", "delPerm",
   "delUser", "insertPerm", "againPerm", "savePerm", "dropPerm"}

TypeOK ==
  /\ made \subseteq RoleIds
  /\ roles \subseteq Role /\ \A x \in roles : x.id \in made
  /\ \A x, y \in roles : x = y \/ (x.id # y.id /\ x.name # y.name)
  /\ perms \subseteq Perms /\ spent \subseteq Blank
  /\ Cardinality(perms \cap Blank) <= 1
  /\ grants \subseteq RoleIds \X Perms /\ members \subseteq RoleIds
  /\ pc \in [Requests -> Labels] /\ loc \in [Requests -> Local]
  /\ raced \subseteq RoleIds

Init ==
  /\ roles = {} /\ perms = Coded /\ spent = {} /\ grants = {} /\ members = {}
  /\ made = {}
  /\ pc = [r \in Requests |-> "idle"] /\ loc = [r \in Requests |-> NoLocal]
  /\ raced = {}

-----------------------------------------------------------------------------
(* The tables.                                                             *)

ById(i) == {x \in roles : x.id = i}
ByName(ns) == {x \in roles : x.name \in ns}

\* GetUserRoles joins user_roles and roles, GetPermissions role_permissions and
\* permissions: a row that leads nowhere counts for nothing.
RolesOf == {i \in members : ById(i) # {}}
PermsOf(i) == {p \in perms : <<i, p>> \in grants}

\* What the user may do.
Has == UNION {PermsOf(i) : i \in RolesOf}

\* The rows an answer can depend on.
Rights == <<{x.id : x \in roles}, perms, grants, members>>

-----------------------------------------------------------------------------
(* Requests.                                                               *)

\* Every other request that asks takes note when a row changes.
Noting(r, mine) ==
  loc' = [q \in Requests |->
            IF q = r THEN mine
            ELSE IF pc[q] \in Asking /\ Rights' # Rights /\ loc[q].changes < 2
                   THEN [loc[q] EXCEPT !.changes = @ + 1]
                   ELSE loc[q]]

Step(r, label, mine) == pc' = [pc EXCEPT ![r] = label] /\ Noting(r, mine)
Finish(r) == Step(r, "idle", NoLocal)
Read(r, label, mine) == UNCHANGED <<tables, raced>> /\ Step(r, label, mine)

Fail(r) ==
  /\ pc[r] # "idle"
  /\ Read(r, "idle", NoLocal)

-----------------------------------------------------------------------------
(* Roles.                                                                  *)

BeginCreate(r, n) ==
  /\ pc[r] = "idle" /\ Room
  /\ ByName({n}) = {}
  /\ Read(r, "insertRole", [NoLocal EXCEPT !.name = {n}])

\* Mutant: the index does not keep the name unique.
InsertRoleAnyway(r, i, system) ==
  /\ pc[r] = "insertRole" /\ Room
  /\ i \notin made /\ made' = made \cup {i}
  /\ roles' = roles \cup {[id |-> i, name |-> n, system |-> system] : n \in loc[r].name}
  /\ UNCHANGED <<perms, spent, grants, members, raced>>
  /\ Finish(r)

\* The unique index refuses a name that was taken meanwhile (Fail).
InsertRole(r, i, system) ==
  /\ pc[r] = "insertRole" /\ Room
  /\ ByName(loc[r].name) = {}
  /\ i \notin made /\ made' = made \cup {i}
  /\ roles' = roles \cup {[id |-> i, name |-> n, system |-> system] : n \in loc[r].name}
  /\ UNCHANGED <<perms, spent, grants, members, raced>>
  /\ Finish(r)

\* The handler reads the role and changes the copy, which is what is saved.
BeginUpdate(r, x, n) ==
  /\ pc[r] = "idle"
  /\ Read(r, "again", [NoLocal EXCEPT !.role = x.id, !.seen = {x}, !.name = {n}])

\* The service reads the role again, for its lock and its name only.
Again(r) ==
  /\ pc[r] = "again"
  /\ LET now == ById(loc[r].role)
     IN  IF \A x \in now : x.system
           THEN Read(r, "idle", NoLocal)
           ELSE \E x \in now :
                  Read(r, IF x.name \in loc[r].name THEN "saveRole" ELSE "nameFree", loc[r])

NameFree(r) ==
  /\ pc[r] = "nameFree"
  /\ IF \A x \in ByName(loc[r].name) : x.id = loc[r].role
       THEN Read(r, "saveRole", loc[r])
       ELSE Read(r, "idle", NoLocal)

\* gorm's Save: the whole row, inserted again if it was deleted meanwhile.
SaveRole(r) ==
  /\ pc[r] = "saveRole"
  /\ \A x \in ByName(loc[r].name) : x.id = loc[r].role
  /\ roles' = {x \in roles : x.id # loc[r].role}
                \cup {[x EXCEPT !.name = n] : x \in loc[r].seen, n \in loc[r].name}
  /\ UNCHANGED <<perms, spent, grants, members, made, raced>>
  /\ Finish(r)

\* Delete, AddPermissions, RemovePermissions, AddUsers and RemoveUsers read the
\* role first; the first three refuse a system role.
BeginOnRole(r, x, label, perm) ==
  /\ pc[r] = "idle"
  /\ label \in {"dropRole", "addPerm", "delPerm"} => ~ x.system
  /\ Read(r, label, [NoLocal EXCEPT !.role = x.id, !.perm = perm])

\* Mutant: the users of the role keep it.
DropRoleOnly(r) ==
  /\ pc[r] = "dropRole"
  /\ grants' = {g \in grants : g[1] # loc[r].role}
  /\ roles' = roles \ ById(loc[r].role)
  /\ UNCHANGED <<perms, spent, members, made, raced>>
  /\ Finish(r)

DropRole(r) ==
  /\ pc[r] = "dropRole"
  /\ grants' = {g \in grants : g[1] # loc[r].role}
  /\ members' = members \ {loc[r].role}
  /\ roles' = roles \ ById(loc[r].role)
  /\ raced' = IF \E q \in Requests : pc[q] \in Adding /\ loc[q].role = loc[r].role
                THEN raced \cup {loc[r].role} ELSE raced
  /\ UNCHANGED <<perms, spent, made>>
  /\ Finish(r)

\* Nobody asks whether the permission exists.
AddPerm(r) ==
  /\ pc[r] = "addPerm"
  /\ grants' = grants \cup ({loc[r].role} \X loc[r].perm)
  /\ UNCHANGED <<roles, perms, spent, members, made, raced>>
  /\ Finish(r)

DelPerm(r) ==
  /\ pc[r] = "delPerm"
  /\ grants' = grants \ ({loc[r].role} \X loc[r].perm)
  /\ UNCHANGED <<roles, perms, spent, members, made, raced>>
  /\ Finish(r)

\* The repository's AddUsers reads the role once more, for its application.
ReadAgain(r) ==
  /\ pc[r] = "readAgain"
  /\ IF ById(loc[r].role) = {} THEN Read(r, "idle", NoLocal)
     ELSE Read(r, "addUser", loc[r])

AddUser(r) ==
  /\ pc[r] = "addUser"
  /\ members' = members \cup {loc[r].role}
  /\ UNCHANGED <<roles, perms, spent, grants, made, raced>>
  /\ Finish(r)

DelUser(r) ==
  /\ pc[r] = "delUser"
  /\ members' = members \ {loc[r].role}
  /\ UNCHANGED <<roles, perms, spent, grants, made, raced>>
  /\ Finish(r)

-----------------------------------------------------------------------------
(* Permissions.                                                            *)

BeginPermission(r, p) ==
  /\ pc[r] = "idle" /\ p \in Blank \ spent
  /\ Read(r, "insertPerm", [NoLocal EXCEPT !.perm = {p}])

\* The unique index refuses a second row with the empty code (Fail).
InsertPerm(r) ==
  /\ pc[r] = "insertPerm"
  /\ perms \cap Blank = {} /\ loc[r].perm \cap spent = {}
  /\ Room
  /\ perms' = perms \cup loc[r].perm /\ spent' = spent \cup loc[r].perm
  /\ UNCHANGED <<roles, grants, members, made, raced>>
  /\ Finish(r)

\* Update and Delete begin with the handler's or the service's GetByID.
BeginOnPerm(r, p, label) ==
  /\ pc[r] = "idle" /\ p \in perms
  /\ Read(r, label, [NoLocal EXCEPT !.perm = {p}])

AgainPerm(r) ==
  /\ pc[r] = "againPerm"
  /\ IF loc[r].perm \subseteq perms THEN Read(r, "savePerm", loc[r])
     ELSE Read(r, "idle", NoLocal)

\* gorm's Save again: a permission deleted meanwhile is back.
SavePerm(r) ==
  /\ pc[r] = "savePerm"
  /\ Cardinality((perms \cup loc[r].perm) \cap Blank) <= 1
  /\ perms' = perms \cup loc[r].perm
  /\ UNCHANGED <<roles, spent, grants, members, made, raced>>
  /\ Finish(r)

DropPerm(r) ==
  /\ pc[r] = "dropPerm"
  /\ grants' = {g \in grants : g[2] \notin loc[r].perm}
  /\ perms' = perms \ loc[r].perm
  /\ UNCHANGED <<roles, spent, members, made, raced>>
  /\ Finish(r)

-----------------------------------------------------------------------------
(* GetUserPermissions, and HasPermission, which looks for each role again   *)
(* before it reads its permissions.  Of a super administrator HasPermission *)
(* asks nothing: the user here is none.                                     *)

Ask(r, label) ==
  /\ pc[r] = "idle"
  /\ Read(r, label, [NoLocal EXCEPT !.todo = RolesOf, !.before = Has])

\* HasPermission fails when a role it read is gone.
FindRole(r, i) ==
  /\ pc[r] = "find" /\ i \in loc[r].todo
  /\ IF ById(i) = {} THEN Read(r, "idle", NoLocal)
     ELSE Read(r, "read", [loc[r] EXCEPT !.role = i])

\* Mutant: a permission is read from the table of grants alone.
ReadRoleUnjoined(r, i) ==
  /\ pc[r] = "ask" \/ (pc[r] = "read" /\ i = loc[r].role)
  /\ i \in loc[r].todo
  /\ Read(r, IF pc[r] = "read" THEN "find" ELSE "ask",
          [loc[r] EXCEPT !.todo = @ \ {i}, !.role = NoRole,
                         !.found = @ \cup {p \in Perms : <<i, p>> \in grants}])

ReadRole(r, i) ==
  /\ pc[r] = "ask" \/ (pc[r] = "read" /\ i = loc[r].role)
  /\ i \in loc[r].todo
  /\ Read(r, IF pc[r] = "read" THEN "find" ELSE "ask",
          [loc[r] EXCEPT !.todo = @ \ {i}, !.role = NoRole, !.found = @ \cup PermsOf(i)])

Answered(r) == pc[r] \in {"ask", "find"} /\ loc[r].todo = {}

\* HasPermission looks no further once it has found the one it is asked for.
FoundOne(r) == pc[r] = "find" /\ loc[r].found # {}

Answer(r) ==
  /\ Answered(r) \/ FoundOne(r)
  /\ Read(r, "idle", NoLocal)

-----------------------------------------------------------------------------
OnRoles(r) ==
  \/ \E n \in Names : BeginCreate(r, n) \/ \E x \in roles : BeginUpdate(r, x, n)
  \/ \E i \in RoleIds, system \in BOOLEAN : InsertRole(r, i, system)
  \/ \E x \in roles :
       \/ \E label \in {"dropRole", "readAgain", "delUser"} : BeginOnRole(r, x, label, {})
       \/ \E label \in {"addPerm", "delPerm"}, p \in Perms : BeginOnRole(r, x, label, {p})
  \/ Again(r) \/ NameFree(r) \/ SaveRole(r) \/ DropRole(r)
  \/ AddPerm(r) \/ DelPerm(r) \/ ReadAgain(r) \/ AddUser(r) \/ DelUser(r)

OnPerms(r) ==
  \/ \E p \in Perms :
       \/ BeginPermission(r, p)
       \/ \E label \in {"againPerm", "dropPerm"} : BeginOnPerm(r, p, label)
  \/ InsertPerm(r) \/ AgainPerm(r) \/ SavePerm(r) \/ DropPerm(r)

Asks(r) ==
  \/ \E label \in {"ask", "find"} : Ask(r, label)
  \/ \E i \in RoleIds : FindRole(r, i) \/ ReadRole(r, i)
  \/ Answer(r)

Next == \E r \in Requests : OnRoles(r) \/ OnPerms(r) \/ Asks(r) \/ Fail(r)

Spec == Init /\ [][Next]_vars

-----------------------------------------------------------------------------
(* Properties.                                                             *)

\* A role that is gone has neither permissions nor users left, unless it was
\* deleted between the question whether it is there and an insertion.
GoneRoleIsBare ==
  \A i \in RoleIds \ raced :
    ById(i) = {} => i \notin members /\ \A g \in grants : g[1] # i

\* An answer put together from several statements is what the user may do before
\* or after a change of the tables between them; it takes two changes to mix.  What
\* is found before all roles are read, the user had or has.
AnswerIsOfAMoment ==
  \A r \in Requests : loc[r].changes < 2 =>
    /\ Answered(r) => loc[r].found \in {loc[r].before, Has}
    /\ FoundOne(r) => loc[r].found \subseteq loc[r].before \cup Has
=============================================================================
