---------------------------- MODULE Verification ----------------------------
(***************************************************************************)
(* Registration and login behind verification plugins, in one application: *)
(* internal/service/auth_account.go over verification_session.go,          *)
(* verification_plugin.go and verification_status.go, their repositories   *)
(* and ExecutePlugin of api/v1/plugin.go.  Rows live in PostgreSQL without *)
(* transactions: an action is one SQL statement with the local code that   *)
(* follows it.                                                             *)
(*                                                                         *)
(* Time.  Each row a request inserts takes the next stamp, so stamps order *)
(* creation and update times, and rows with a stamp up to horizon are more *)
(* than thirty minutes old: a session that old is gone, a status that old  *)
(* is not inherited.  A request ends before the session it opened expires. *)
(***************************************************************************)
EXTENDS FiniteSets, Naturals

CONSTANTS Users,        \* accounts at the start
          Newcomers,    \* accounts that may be registered
          Requests,     \* request goroutines
          Pending,      \* the user id "pending" of everyone who registers
          Mandatory,    \* plugins with Required set (email): login and register
          Optional,     \* plugins a user turns on (totp): login only
          Installations,  \* the sets of plugins an application may have installed
          MaxStamp      \* bound on the rows inserted

ASSUME VerificationAssumption ==
  /\ Pending \notin Users \cup Newcomers
  /\ Mandatory \cap Optional = {}
  /\ Installations \subseteq SUBSET (Mandatory \cup Optional)
  /\ MaxStamp \in Nat

Owners  == Users \cup Newcomers \cup {Pending}
Actions == {"login", "register"}
Plugins == Mandatory \cup Optional
Marks   == Owners \X Actions \X Plugins

VARIABLES
  stamp, horizon,
  sessions,     \* rows of verification_sessions that have not expired
  status,       \* newest stamp of the completed rows of a mark, 0 when none
  installed,    \* the plugins installed and enabled, fixed from the start
  asked,        \* <<user, plugin>>: the optional plugins users turned on
  accounts,     \* rows of users
  pc, user, action, loc,   \* where a request stands, and its locals
  ever,         \* history: <<user id, mandatory plugin>> executed at least once
  earned        \* history: the marks earned and not spent since

tables  == <<sessions, status, installed, asked, accounts>>
clock   == <<stamp, horizon>>
request == <<pc, user, action, loc>>
history == <<ever, earned>>
vars    == <<tables, clock, request, history>>

Session == [id : 1..MaxStamp, user : Owners, action : Actions]

\* own: the session it created, or works in; account: the account it is for;
\* seen: the session it last read; found, need: plugins it last read;
\* disturbed: another request got in its way, which only the properties ask.
Local == [own : 0..MaxStamp, account : Owners, seen : SUBSET Session,
          found : SUBSET Plugins, need : SUBSET Plugins,
          disturbed : BOOLEAN]
NoLocal == [own |-> 0, account |-> Pending,
            seen |-> {}, found |-> {}, need |-> {}, disturbed |-> FALSE]

Executing == {"execute", "reread", "mark"}
Labels == Executing \cup
  {"idle", "listRecent", "inherit", "findExisting", "dropExisting", "open", "readNeed",
   "findSession", "loadSession", "readStatus", "decide",
   "account", "reload", "resave", "token",
   "findOwn", "dropOwn", "findPending", "dropPending",
   "listOwn", "wipeOwn", "listPending", "wipePending"}

TypeOK ==
  /\ stamp \in 0..MaxStamp /\ horizon \in 0..stamp
  /\ sessions \subseteq Session
  /\ \A s \in sessions : s.user \in accounts \cup {Pending}
  /\ status \in [Marks -> 0..MaxStamp]
  /\ installed \subseteq Plugins
  /\ asked \subseteq (Users \cup Newcomers) \X Optional
  /\ accounts \subseteq Users \cup Newcomers
  /\ pc \in [Requests -> Labels]
  /\ user \in [Requests -> Owners]
  /\ action \in [Requests -> Actions]
  /\ loc \in [Requests -> Local]
  /\ earned \subseteq Marks /\ ever \subseteq Owners \X Mandatory

Init ==
  /\ stamp = 0 /\ horizon = 0
  /\ sessions = {} /\ status = [m \in Marks |-> 0]
  /\ installed \in Installations /\ asked = {}
  /\ accounts = Users
  /\ pc = [r \in Requests |-> "idle"]
  /\ user = [r \in Requests |-> Pending]
  /\ action = [r \in Requests |-> "register"]
  /\ loc = [r \in Requests |-> NoLocal]
  /\ ever = {} /\ earned = {}

-----------------------------------------------------------------------------
(* The tables, as the repositories read them.                              *)

ById(id) == {s \in sessions : s.id = id}

\* GetActiveSession: the newest session of the user, whatever its action.
ActiveSession(u) ==
  {s \in sessions : s.user = u /\ \A t \in sessions : t.user = u => t.id <= s.id}

\* ListStatus; every row there is says "completed".
Completed(u, a) == {p \in Plugins : status[<<u, a, p>>] > 0}

\* The plugin of the newest status, if that is less than thirty minutes old.
RecentlyCompleted(u, a) ==
  {p \in Completed(u, a) :
     /\ status[<<u, a, p>>] > horizon
     /\ \A q \in Completed(u, a) : status[<<u, a, q>>] <= status[<<u, a, p>>]}

\* GetRequiredPlugins: the mandatory ones, and at login those the user turned on.
RequiredPlugins(u, a) ==
  {p \in installed : p \in Mandatory \/ (a = "login" /\ <<u, p>> \in asked)}

Supports(p, a) == p \in Mandatory \/ a = "login"

-----------------------------------------------------------------------------
(* Requests.                                                               *)

Active == {r \in Requests : pc[r] # "idle"}

Goto(r, label) == pc' = [pc EXCEPT ![r] = label]

\* A request forgets its locals when it ends.
Finish(r) ==
  /\ Goto(r, "idle")
  /\ user' = [user EXCEPT ![r] = Pending]
  /\ action' = [action EXCEPT ![r] = "register"]
  /\ loc' = [loc EXCEPT ![r] = NoLocal]

\* A request of user v gets in the way of one of user u when they share rows:
\* the user's own, or those of "pending", which every request removes.
Disturbs(v, u) == v = u \/ u = Pending

\* A registration ends on the rows of the account it made.
Touched(r) == {user[r], loc[r].account}

\* The rows a request may still insert: none starts that could pass the bound.
Inserts(label) ==
  CASE label \in {"listRecent", "inherit"} -> {1, 2}
    [] label \in {"findExisting", "dropExisting", "open"} \cup Executing -> {1}
    [] OTHER -> {}

Reserved == UNION {{q} \X Inserts(pc[q]) : q \in Requests}

Begin(r, u, a, label, local) ==
  /\ r \notin Active
  /\ stamp + Cardinality(Reserved) + Cardinality(Inserts(label)) <= MaxStamp
  /\ user' = [user EXCEPT ![r] = u]
  /\ action' = [action EXCEPT ![r] = a]
  /\ Goto(r, label)
  /\ loc' = [q \in Requests |->
       IF q = r THEN [local EXCEPT !.disturbed =
                        \E p \in Active : \E v \in Touched(p) : Disturbs(v, u)]
       ELSE [loc[q] EXCEPT !.disturbed = @ \/ (q \in Active /\ Disturbs(u, user[q]))]]
  /\ UNCHANGED <<tables, clock, history>>

\* Login, once the password is right; UpdateLastLogin changes nothing here.
BeginLogin(r, u) ==
  /\ u \in accounts
  /\ Begin(r, u, "login", "listRecent", [NoLocal EXCEPT !.account = u])

\* Register, once the user name is free; every newcomer is "pending".
BeginRegister(r, n) ==
  /\ n \notin accounts
  /\ Begin(r, Pending, "register", "listRecent", [NoLocal EXCEPT !.account = n])

-----------------------------------------------------------------------------
(* CreateSession.                                                          *)

ListRecent(r) ==
  /\ pc[r] = "listRecent"
  /\ LET recent == RecentlyCompleted(user[r], action[r])
     IN  /\ Goto(r, IF recent = {} THEN "findExisting" ELSE "inherit")
         /\ loc' = [loc EXCEPT ![r].found = recent]
  /\ UNCHANGED <<tables, clock, user, action, history>>

\* Inserts a new status for the plugin found, whatever became of the old one.
Inherit(r) ==
  /\ pc[r] = "inherit"
  /\ stamp' = stamp + 1
  /\ \E p \in loc[r].found :
       status' = [status EXCEPT ![<<user[r], action[r], p>>] = stamp + 1]
  /\ Goto(r, "findExisting")
  /\ loc' = [loc EXCEPT ![r].found = {}]
  /\ UNCHANGED <<sessions, installed, asked, accounts, horizon, user, action, history>>

\* GetActiveSession(u), then the label for a session found or for none.
Find(r, from, u, some, none) ==
  /\ pc[r] = from
  /\ LET s == ActiveSession(u)
     IN  /\ Goto(r, IF s = {} THEN none ELSE some)
         /\ loc' = [loc EXCEPT ![r].seen = s]
  /\ UNCHANGED <<tables, clock, user, action, history>>

\* Delete of the session found, if it is still there.
Drop(r, from, to) ==
  /\ pc[r] = from
  /\ sessions' = {s \in sessions : \A t \in loc[r].seen : s.id # t.id}
  /\ Goto(r, to)
  /\ loc' = [loc EXCEPT ![r].seen = {}]
  /\ UNCHANGED <<status, installed, asked, accounts, clock, user, action, history>>

FindExisting(r) == Find(r, "findExisting", user[r], "dropExisting", "open")
DropExisting(r) == Drop(r, "dropExisting", "open")

\* Mutant: the user's sessions are deleted after the insertion, not before.
OpenSessionDeleteAfter(r) ==
  /\ pc[r] = "open"
  /\ stamp' = stamp + 1
  /\ sessions' = {s \in sessions : s.user # user[r]}
  /\ Goto(r, "readNeed")
  /\ loc' = [loc EXCEPT ![r].own = stamp + 1]
  /\ UNCHANGED <<status, installed, asked, accounts, horizon, user, action, history>>

OpenSession(r) ==
  /\ pc[r] = "open"
  /\ stamp' = stamp + 1
  /\ sessions' = sessions \cup
       {[id |-> stamp + 1, user |-> user[r], action |-> action[r]]}
  /\ Goto(r, "readNeed")
  /\ loc' = [loc EXCEPT ![r].own = stamp + 1]
  /\ UNCHANGED <<status, installed, asked, accounts, horizon, user, action, history>>

-----------------------------------------------------------------------------
(* The rest of handleVerification: GetRequiredPlugins, then                *)
(* ValidatePluginStatus, which looks the session up again.                 *)

ReadNeed(r) ==
  /\ pc[r] = "readNeed"
  /\ Goto(r, "findSession")
  /\ loc' = [loc EXCEPT ![r].need = RequiredPlugins(user[r], action[r])]
  /\ UNCHANGED <<tables, clock, user, action, history>>

\* "no active session found" and "session not found" end the request.
NoSession(r) ==
  /\ pc[r] \in {"findSession", "loadSession"}
  /\ IF pc[r] = "findSession"
       THEN ActiveSession(user[r]) = {}
       ELSE \A s \in loc[r].seen : ById(s.id) = {}
  /\ Finish(r)
  /\ UNCHANGED <<tables, clock, history>>

FindSession(r) ==
  /\ ActiveSession(user[r]) # {}
  /\ Find(r, "findSession", user[r], "loadSession", "loadSession")

LoadSession(r) ==
  /\ pc[r] = "loadSession"
  /\ \E s \in loc[r].seen :
       /\ ById(s.id) # {}
       /\ loc' = [loc EXCEPT ![r].seen = ById(s.id)]
  /\ Goto(r, "readStatus")
  /\ UNCHANGED <<tables, clock, user, action, history>>

\* Mutant: the statuses are selected without the condition on the user.
ReadStatusOfAll(r) ==
  /\ pc[r] = "readStatus"
  /\ \E s \in loc[r].seen :
       loc' = [loc EXCEPT ![r].found = UNION {Completed(u, s.action) : u \in Owners}]
  /\ Goto(r, "decide")
  /\ UNCHANGED <<tables, clock, user, action, history>>

ReadStatus(r) ==
  /\ pc[r] = "readStatus"
  /\ \E s \in loc[r].seen : loc' = [loc EXCEPT ![r].found = Completed(s.user, s.action)]
  /\ Goto(r, "decide")
  /\ UNCHANGED <<tables, clock, user, action, history>>

\* What is required is read again, for the session's user and action.
Missing(r) ==
  {p \in Plugins : \E s \in loc[r].seen :
     p \in RequiredPlugins(s.user, s.action) \ loc[r].found}

Verified(r) == loc[r].need = {} \/ Missing(r) = {}

\* ErrPluginRequired: the caller is given the session and told what to do.
AskForPlugins(r) ==
  /\ pc[r] = "decide"
  /\ ~ Verified(r)
  /\ Finish(r)
  /\ UNCHANGED <<tables, clock, history>>

Pass(r) ==
  /\ pc[r] = "decide"
  /\ Verified(r)
  /\ Goto(r, IF action[r] = "login" THEN "token" ELSE "account")
  /\ loc' = [loc EXCEPT ![r].seen = {}, ![r].found = {}, ![r].need = {}]
  /\ UNCHANGED <<tables, clock, user, action, history>>

-----------------------------------------------------------------------------
(* What follows a verification that passed.                                *)

\* The unique index on the user name refuses a second account (Fail).
CreateAccount(r) ==
  /\ pc[r] = "account"
  /\ loc[r].account \notin accounts
  /\ accounts' = accounts \cup {loc[r].account}
  /\ Goto(r, "reload")
  /\ UNCHANGED <<sessions, status, installed, asked, clock, user, action, loc, history>>

\* UpdateSessionUserID: reads the session; one that is gone is only logged.
Reload(r) ==
  /\ pc[r] = "reload"
  /\ loc' = [loc EXCEPT ![r].seen = ById(loc[r].own)]
  /\ Goto(r, IF ById(loc[r].own) = {} THEN "findOwn" ELSE "resave")
  /\ UNCHANGED <<tables, clock, user, action, history>>

\* gorm's Save inserts the row again if it was deleted meanwhile.
Resave(r) ==
  /\ pc[r] = "resave"
  /\ sessions' = {s \in sessions : s.id # loc[r].own}
                   \cup {[s EXCEPT !.user = loc[r].account] : s \in loc[r].seen}
  /\ Goto(r, "findOwn")
  /\ loc' = [loc EXCEPT ![r].seen = {}]
  /\ UNCHANGED <<status, installed, asked, accounts, clock, user, action, history>>

\* GenerateTokenPair: a login clears after it, a registration has cleared.
IssueToken(r) ==
  /\ pc[r] = "token"
  /\ IF action[r] = "login"
       THEN Goto(r, "findOwn") /\ UNCHANGED <<user, action, loc>>
       ELSE Finish(r)
  /\ UNCHANGED <<tables, clock, history>>

-----------------------------------------------------------------------------
(* ClearVerification: the session of the user and that of "pending", then  *)
(* the statuses of both for the action.                                    *)

FindOwn(r)     == Find(r, "findOwn", loc[r].account, "dropOwn", "findPending")
DropOwn(r)     == Drop(r, "dropOwn", "findPending")
FindPending(r) == Find(r, "findPending", Pending, "dropPending", "listOwn")
DropPending(r) == Drop(r, "dropPending", "listOwn")

List(r, from, u, to) ==
  /\ pc[r] = from
  /\ loc' = [loc EXCEPT ![r].found = Completed(u, action[r])]
  /\ Goto(r, to)
  /\ UNCHANGED <<tables, clock, user, action, history>>

\* One DeleteStatus for each plugin listed.
Wipe(r, at, u) ==
  /\ pc[r] = at
  /\ \E p \in loc[r].found :
       /\ status' = [status EXCEPT ![<<u, action[r], p>>] = 0]
       /\ loc' = [loc EXCEPT ![r].found = @ \ {p}]
  /\ UNCHANGED <<sessions, installed, asked, accounts, clock, pc, user, action, history>>

ListOwn(r)     == List(r, "listOwn", loc[r].account, "wipeOwn")
WipeOwn(r)     == Wipe(r, "wipeOwn", loc[r].account)
WipePending(r) == Wipe(r, "wipePending", Pending)

\* Mutant: the statuses of the user are left.
ListPendingNoWipe(r) ==
  List(r, "wipeOwn", Pending, "wipePending")

ListPending(r) ==
  /\ loc[r].found = {}
  /\ List(r, "wipeOwn", Pending, "wipePending")

\* The end of the clearing.  If nothing got in the way, what was executed for
\* these rows until now is spent.
Cleared(r) ==
  /\ pc[r] = "wipePending" /\ loc[r].found = {}
  /\ IF action[r] = "login"
       THEN Finish(r)
       ELSE Goto(r, "token") /\ UNCHANGED <<user, action, loc>>
  /\ earned' = IF loc[r].disturbed THEN earned
               ELSE earned \ ({loc[r].account, Pending} \X {action[r]} \X Plugins)
  /\ UNCHANGED <<tables, clock, ever>>

-----------------------------------------------------------------------------
(* ExecutePlugin, for an operation that needs a session: any operation of  *)
(* the email plugin, setup and verify of TOTP.                             *)

BeginExecute(r, s, p) ==
  /\ p \in installed /\ Supports(p, s.action)
  /\ Begin(r, s.user, s.action, "execute",
           [NoLocal EXCEPT !.own = s.id, !.found = {p}])

\* The operation succeeds; TOTP looks the session up for its user, and setup
\* turns the plugin on.  One that fails ends the request (Fail).
Execute(r) ==
  /\ pc[r] = "execute"
  /\ \/ loc[r].found \subseteq Mandatory /\ UNCHANGED asked
     \/ \E s \in ById(loc[r].own) : \E p \in loc[r].found \cap Optional :
          asked' \in {asked, asked \cup {<<s.user, p>>}}
  /\ Goto(r, "reread")
  /\ UNCHANGED <<sessions, status, installed, accounts, clock, user, action, loc, history>>

\* UpdatePluginStatusBySession reads the session again.
Reread(r) ==
  /\ pc[r] = "reread"
  /\ LET s == ById(loc[r].own)
     IN  IF s = {} THEN Finish(r)
         ELSE /\ loc' = [loc EXCEPT ![r].seen = s]
              /\ Goto(r, "mark")
              /\ UNCHANGED <<user, action>>
  /\ UNCHANGED <<tables, clock, history>>

\* Saves a completed status.  OnVerificationSuccess then records what only
\* the exemptions of a plugin that is not mandatory would read.
Mark(r) ==
  /\ pc[r] = "mark"
  /\ \E s \in loc[r].seen : \E p \in loc[r].found :
       /\ status' = [status EXCEPT ![<<s.user, s.action, p>>] = stamp + 1]
       /\ ever' = ever \cup ({s.user} \X (Mandatory \cap {p}))
       /\ earned' = earned \cup {<<s.user, s.action, p>>}
  /\ stamp' = stamp + 1
  /\ Finish(r)
  /\ UNCHANGED <<sessions, installed, asked, accounts, horizon>>

\* disable, which needs no session, with the right code.
Disable(u, p) ==
  /\ <<u, p>> \in asked /\ p \in installed
  /\ asked' = asked \ {<<u, p>>}
  /\ UNCHANGED <<sessions, status, installed, accounts, clock, request, history>>

-----------------------------------------------------------------------------
\* A statement or a plugin fails.  Where a session is moved to its account the
\* error is only logged; elsewhere the request ends where it stands.
Fail(r) ==
  /\ r \in Active
  /\ IF pc[r] \in {"reload", "resave"}
       THEN /\ Goto(r, "findOwn")
            /\ loc' = [loc EXCEPT ![r].seen = {}]
            /\ UNCHANGED <<user, action>>
       ELSE Finish(r)
  /\ UNCHANGED <<tables, clock, history>>

\* Half an hour passes for the oldest young row, but not for the session of the
\* request that opened it.  No statement returns an expired session again.
Age ==
  /\ horizon < stamp
  /\ \A r \in Active : pc[r] \in Executing \/ loc[r].own # horizon + 1
  /\ horizon' = horizon + 1
  /\ sessions' = {s \in sessions : s.id # horizon + 1}
  /\ UNCHANGED <<status, installed, asked, accounts, stamp, request, history>>

CreateSession(r) ==
  \/ ListRecent(r) \/ Inherit(r)
  \/ FindExisting(r) \/ DropExisting(r) \/ OpenSession(r)

Validate(r) ==
  \/ ReadNeed(r) \/ FindSession(r) \/ LoadSession(r) \/ NoSession(r) \/ ReadStatus(r)

ClearVerification(r) ==
  \/ FindOwn(r) \/ DropOwn(r) \/ FindPending(r) \/ DropPending(r)
  \/ ListOwn(r) \/ WipeOwn(r) \/ ListPending(r) \/ WipePending(r) \/ Cleared(r)

Next ==
  \/ \E r \in Requests :
       \/ \E u \in accounts : BeginLogin(r, u)
       \/ \E n \in Newcomers : BeginRegister(r, n)
       \/ \E s \in sessions, p \in Plugins : BeginExecute(r, s, p)
       \/ CreateSession(r) \/ Validate(r)
       \/ AskForPlugins(r) \/ Pass(r)
       \/ CreateAccount(r) \/ Reload(r) \/ Resave(r) \/ IssueToken(r)
       \/ ClearVerification(r)
       \/ Execute(r) \/ Reread(r) \/ Mark(r)
       \/ Fail(r)
  \/ \E u \in accounts, p \in Optional : Disable(u, p)
  \/ Age

Spec == Init /\ [][Next]_vars

-----------------------------------------------------------------------------
(* Properties.                                                             *)

Passes(r) == pc[r] = "decide" /\ pc'[r] \in {"token", "account"}

\* Whatever the races, no login and no registration passes before each mandatory
\* plugin was executed at least once for its user id (validateSinglePlugin of
\* verification_plugin.go).  For its action would be too much: a login may find
\* the session the account was registered with, and pass on that one's statuses.
PassesVerified ==
  \A r \in Requests : Passes(r) =>
    \A p \in Mandatory \cap installed : <<user[r], p>> \in ever

NeverUnverified == [][PassesVerified]_vars

\* A verification serves one login: a request nothing got in the way of passes
\* only if each plugin required was executed since the last login or registration
\* of that user id that cleared undisturbed (CreateSession's inheritance against
\* ClearVerification).
PassesOnUnspent ==
  \A r \in Requests : Passes(r) /\ ~ loc[r].disturbed =>
    \A p \in RequiredPlugins(user[r], action[r]) : <<user[r], action[r], p>> \in earned

VerificationSpent == [][PassesOnUnspent]_vars

\* handleVerification loses the session it has just created (getActiveSession's
\* "no active session found") only when another request disturbed it: one of the
\* same user id, or, for a registration, a login of any user.
LostOnlyToOthers == \A r \in Requests : NoSession(r) => loc[r].disturbed

OwnSessionFound == [][LostOnlyToOthers]_vars
=============================================================================
