----------------------------- MODULE SuperAdmin -----------------------------
(***************************************************************************)
(* Super administrators: internal/service/super_admin.go, its repository,  *)
(* the middleware that guards its routes and the initialisation main.go    *)
(* runs before it serves requests.                                         *)
(*                                                                         *)
(* The table super_admins has a unique index on user_id and, as gorm runs  *)
(* with foreign keys disabled, no tie to the table of users.  One action   *)
(* is one SQL statement with the local code that follows it.               *)
(***************************************************************************)
EXTENDS FiniteSets, Naturals

CONSTANTS Users,        \* user ids, taken or not
          NoUser,
          Requests,     \* request goroutines, of any instance
          Instances,    \* server processes that share the database
          PageSize,     \* rows a start lists of the app's users (100 in the code)
          MaxCrashes    \* bound on crashes

ASSUME SuperAdminAssumption ==
  NoUser \notin Users /\ PageSize \in Nat \ {0} /\ MaxCrashes \in Nat

VARIABLES
  users,        \* rows of the table users
  admin,        \* the user called "admin" in the default app, or NoUser
  app,          \* whether the default app exists
  admins,       \* rows of the table super_admins
  pc, target,   \* where a request stands, and the user it adds or removes
  counted,      \* the rows a removal saw when it counted them
  known,        \* history: the users that ever existed
  stage, made,  \* where an instance stands, and the user it is about to appoint
  crashes

tables   == <<users, admin, app, admins, known>>
request  == <<pc, target, counted>>
instance == <<stage, made>>
vars     == <<tables, request, instance, crashes>>

Labels == {"idle", "addLookup", "addCheck", "addInsert",
           "removeCheck", "removeCount", "removeDelete"}
Stages == {"down", "listAdmins", "listApps", "createApp", "listUsers",
           "checkAdmin", "createUser", "appoint", "running"}

TypeOK ==
  /\ users \subseteq Users /\ known \subseteq Users
  /\ admin \in Users \cup {NoUser}
  /\ app \in BOOLEAN
  /\ admins \subseteq Users
  /\ pc \in [Requests -> Labels]
  /\ target \in [Requests -> Users \cup {NoUser}]
  /\ counted \in [Requests -> SUBSET Users]
  /\ stage \in [Instances -> Stages]
  /\ made \in [Instances -> Users \cup {NoUser}]
  /\ crashes \in 0..MaxCrashes

\* An empty database and every instance about to start.
Init ==
  /\ users = {} /\ known = {} /\ admin = NoUser /\ app = FALSE /\ admins = {}
  /\ pc = [r \in Requests |-> "idle"]
  /\ target = [r \in Requests |-> NoUser]
  /\ counted = [r \in Requests |-> {}]
  /\ stage = [i \in Instances |-> "listAdmins"]
  /\ made = [i \in Instances |-> NoUser]
  /\ crashes = 0

Serving == \E i \in Instances : stage[i] = "running"

-----------------------------------------------------------------------------
(* Requests.  The middleware lets a request through when the table has a   *)
(* row for its caller.                                                     *)

Goto(r, label) == pc' = [pc EXCEPT ![r] = label]

Finish(r) ==
  /\ Goto(r, "idle")
  /\ target' = [target EXCEPT ![r] = NoUser]
  /\ counted' = [counted EXCEPT ![r] = {}]

\* CheckSuperAdmin, then the handler: any row of the table may be the caller's.
Begin(r, u, label) ==
  /\ pc[r] = "idle" /\ Serving
  /\ admins # {}
  /\ target' = [target EXCEPT ![r] = u]
  /\ Goto(r, label)
  /\ UNCHANGED <<tables, counted, instance, crashes>>

BeginAdd(r, u)    == Begin(r, u, "addLookup")
BeginRemove(r, u) == Begin(r, u, "removeCheck")

\* The lookup of a user who does not exist returns nil and no error: the
\* request goes on whether or not it found one.
AddLookup(r) ==
  /\ pc[r] = "addLookup"
  /\ Goto(r, "addCheck")
  /\ UNCHANGED <<tables, target, counted, instance, crashes>>

AddCheck(r) ==
  /\ pc[r] = "addCheck"
  /\ IF target[r] \in admins
       THEN Finish(r)
       ELSE Goto(r, "addInsert") /\ UNCHANGED <<target, counted>>
  /\ UNCHANGED <<tables, instance, crashes>>

\* The unique index refuses a row another request inserted meanwhile.
AddInsert(r) ==
  /\ pc[r] = "addInsert"
  /\ admins' = admins \cup {target[r]}
  /\ Finish(r)
  /\ UNCHANGED <<users, admin, app, known, instance, crashes>>

RemoveCheck(r) ==
  /\ pc[r] = "removeCheck"
  /\ IF target[r] \in admins
       THEN Goto(r, "removeCount") /\ UNCHANGED <<target, counted>>
       ELSE Finish(r)
  /\ UNCHANGED <<tables, instance, crashes>>

\* Mutant: one row left is taken for enough.
RemoveCountOffByOne(r) ==
  /\ pc[r] = "removeCount"
  /\ IF Cardinality(admins) < 1
       THEN Finish(r)
       ELSE /\ counted' = [counted EXCEPT ![r] = admins]
            /\ Goto(r, "removeDelete")
            /\ UNCHANGED target
  /\ UNCHANGED <<tables, instance, crashes>>

RemoveCount(r) ==
  /\ pc[r] = "removeCount"
  /\ IF Cardinality(admins) <= 1
       THEN Finish(r)
       ELSE /\ counted' = [counted EXCEPT ![r] = admins]
            /\ Goto(r, "removeDelete")
            /\ UNCHANGED target
  /\ UNCHANGED <<tables, instance, crashes>>

RemoveDelete(r) ==
  /\ pc[r] = "removeDelete"
  /\ admins' = admins \ {target[r]}
  /\ Finish(r)
  /\ UNCHANGED <<users, admin, app, known, instance, crashes>>

\* A statement fails, or the connection is lost: the request ends.
RequestFails(r) ==
  /\ pc[r] # "idle"
  /\ Finish(r)
  /\ UNCHANGED <<tables, instance, crashes>>

-----------------------------------------------------------------------------
(* The rest of the server, as far as it touches the table of users.        *)

\* User ids are fresh.  The bound on them leaves one for an "admin" that has
\* yet to be created.
Register(u) ==
  /\ Serving
  /\ u \notin known /\ (admin = NoUser => Users \ known # {u})
  /\ users' = users \cup {u} /\ known' = known \cup {u}
  /\ UNCHANGED <<admin, app, admins, request, instance, crashes>>

\* Deleting a user leaves the row of super_admins behind.
DeleteUser(u) ==
  /\ Serving
  /\ u \in users /\ (u = admin => Users \ known # {})
  /\ users' = users \ {u}
  /\ admin' = IF admin = u THEN NoUser ELSE admin
  /\ UNCHANGED <<app, admins, known, request, instance, crashes>>

-----------------------------------------------------------------------------
(* CheckAndInitSuperAdmin.  An error makes main.go exit.                   *)

Enter(i, s) == stage' = [stage EXCEPT ![i] = s]

\* log.Fatal: nothing but the writes already made is left of the start.
Exit(i) ==
  /\ Enter(i, "down")
  /\ made' = [made EXCEPT ![i] = NoUser]

ListAdmins(i) ==
  /\ stage[i] = "listAdmins"
  /\ Enter(i, IF admins = {} THEN "listApps" ELSE "running")
  /\ UNCHANGED <<tables, request, made, crashes>>

ListApps(i) ==
  /\ stage[i] = "listApps"
  /\ Enter(i, IF app THEN "listUsers" ELSE "createApp")
  /\ UNCHANGED <<tables, request, made, crashes>>

\* The name of an app is unique.
CreateApp(i) ==
  /\ stage[i] = "createApp"
  /\ \/ ~app /\ Enter(i, "listUsers") /\ UNCHANGED made
     \/ app /\ Exit(i)
  /\ app' = TRUE
  /\ UNCHANGED <<users, admin, admins, known, request, crashes>>

\* Mutant: the list is not searched, so the user left there is never found.
ListUsersBlind(i) ==
  /\ stage[i] = "listUsers"
  /\ Enter(i, "createUser")
  /\ UNCHANGED <<tables, request, made, crashes>>

\* Mutant: the user is appointed whether or not the list had one.
ListUsersUnguarded(i) ==
  /\ stage[i] = "listUsers"
  /\ made' = [made EXCEPT ![i] = admin]
  /\ Enter(i, "checkAdmin")
  /\ UNCHANGED <<tables, request, crashes>>

\* A page of the app's users, in no order: beyond one page, "admin" may be
\* among the users that are not listed.
ListUsers(i) ==
  /\ stage[i] = "listUsers"
  /\ \/ /\ admin # NoUser
        /\ made' = [made EXCEPT ![i] = admin]
        /\ Enter(i, "checkAdmin")
     \/ /\ admin = NoUser \/ Cardinality(users) > PageSize
        /\ Enter(i, "createUser")
        /\ UNCHANGED made
  /\ UNCHANGED <<tables, request, crashes>>

\* An "admin" is there already, left by a start that failed or was overtaken.
CheckAdmin(i) ==
  /\ stage[i] = "checkAdmin"
  /\ Enter(i, IF made[i] \in admins THEN "running" ELSE "appoint")
  /\ UNCHANGED <<tables, request, made, crashes>>

\* The username is unique: of two instances one creates the user, one exits.
CreateUser(i) ==
  /\ stage[i] = "createUser"
  /\ \/ /\ admin = NoUser
        /\ \E u \in Users \ known :
             /\ users' = users \cup {u} /\ known' = known \cup {u}
             /\ admin' = u
             /\ made' = [made EXCEPT ![i] = u]
        /\ Enter(i, "appoint")
     \/ /\ admin # NoUser
        /\ Exit(i)
        /\ UNCHANGED <<users, admin, known>>
  /\ UNCHANGED <<app, admins, request, crashes>>

\* Mutant: the start goes on without the row of super_admins.
AppointNobody(i) ==
  /\ stage[i] = "appoint"
  /\ Enter(i, "running")
  /\ UNCHANGED <<tables, request, made, crashes>>

Appoint(i) ==
  /\ stage[i] = "appoint"
  /\ \/ made[i] \notin admins /\ Enter(i, "running") /\ UNCHANGED made
     \/ made[i] \in admins /\ Exit(i)
  /\ admins' = admins \cup {made[i]}
  /\ UNCHANGED <<users, admin, app, known, request, crashes>>

\* A process may die anywhere in its start or while it serves.
Crash(i) ==
  /\ stage[i] # "down"
  /\ crashes < MaxCrashes
  /\ crashes' = crashes + 1
  /\ Exit(i)
  /\ UNCHANGED <<tables, request>>

\* The supervisor of the process starts it again.
Restart(i) ==
  /\ stage[i] = "down"
  /\ Enter(i, "listAdmins")
  /\ UNCHANGED <<tables, request, made, crashes>>

Start(i) == ListAdmins(i) \/ ListApps(i) \/ CreateApp(i) \/ ListUsers(i)
              \/ CheckAdmin(i) \/ CreateUser(i) \/ Appoint(i)

Request(r) ==
  \/ \E u \in Users : BeginAdd(r, u) \/ BeginRemove(r, u)
  \/ AddLookup(r) \/ AddCheck(r) \/ AddInsert(r)
  \/ RemoveCheck(r) \/ RemoveCount(r) \/ RemoveDelete(r)
  \/ RequestFails(r)

Next ==
  \/ \E r \in Requests : Request(r)
  \/ \E u \in Users : Register(u) \/ DeleteUser(u)
  \/ \E i \in Instances : Start(i) \/ Crash(i) \/ Restart(i)

Spec == Init /\ [][Next]_vars

\* Statements of a start return, and a process that went down is restarted.
FairSpec == Spec /\ \A i \in Instances : WF_vars(Start(i)) /\ WF_vars(Restart(i))

-----------------------------------------------------------------------------
(* Properties.                                                             *)

\* The table is emptied only by a removal, and only if the table changed after
\* the removal counted it: alone, the check for the last administrator is
\* right, and no start, crash or deletion of a user undoes it.
LastGoesOnlyInARace ==
  [][admins # {} /\ admins' = {} =>
       \E r \in Requests : RemoveDelete(r) /\ admins # counted[r]]_vars

\* An instance that starts to serve does so with an administrator, whether it
\* found the row, appointed the "admin" another start left, or made its own,
\* and although other instances start, exit on its rows and start again.
ServesWithAdmin ==
  [][\A i \in Instances :
       stage[i] # "running" /\ stage'[i] = "running" => admins' # {}]_vars

\* A start that is repeated completes: no state that interrupted starts,
\* crashes and removals leave behind makes every later one fail.  Two things
\* would: requests that go on for ever adding and removing administrators
\* between the statements of the start, and an "admin" the start does not find
\* among more users than a page holds while nobody is an administrator.
StartCompletes ==
  (/\ <>[](\A r \in Requests : pc[r] = "idle")
   /\ <>[](admins # {} \/ Cardinality(users) <= PageSize))
  => \A i \in Instances : <>(stage[i] = "running")
=============================================================================
