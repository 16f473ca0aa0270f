-------------------------- MODULE VerificationProofs --------------------------
(***************************************************************************)
(* Verification for any accounts, newcomers, plugins and requests, however *)
(* they are interleaved.                                                   *)
(*                                                                         *)
(* Requests work on copies of session rows (loc[r].seen), which may have   *)
(* been deleted or moved to another user since.  What makes the properties *)
(* hold is that a row is moved once, from "pending" to the account of the  *)
(* request that opened it, after that request has passed (CopyInv), and    *)
(* that who shares rows with a request is known to have disturbed it       *)
(* (DisturbInv).                                                           *)
(***************************************************************************)
EXTENDS Verification, TLAPS

\* A request that opened the session its local "own" names ...
Owning == {"readNeed", "findSession", "loadSession", "readStatus", "decide",
           "account", "reload", "resave"}

\* ... or that found one, and is on the way to its statuses.
Validating == {"findSession", "loadSession", "readStatus", "decide"}

Row   == [id : Nat, user : Owners, action : Actions]
Frame == [own : Nat, account : Owners, seen : SUBSET Row, found : SUBSET Plugins,
          need : SUBSET Plugins, disturbed : BOOLEAN]

TypeInv ==
  /\ stamp \in Nat /\ horizon \in Nat
  /\ sessions \subseteq Row
  /\ status \in [Marks -> Nat]
  /\ installed \subseteq Plugins
  /\ accounts \subseteq Users \cup Newcomers
  /\ pc \in [Requests -> Labels]
  /\ user \in [Requests -> Owners]
  /\ action \in [Requests -> Actions]
  /\ loc \in [Requests -> Frame]

\* Every mandatory plugin installed has been executed for u.
EverVerified(u) == \A p \in Mandatory \cap installed : <<u, p>> \in ever

\* A row of the table, or what a request remembers of one.
IsCopy(s) == s \in sessions \/ \E r \in Requests : s \in loc[r].seen

\* Ids are never used again; a row keeps its action and, unless a registration
\* that passed has moved it, its user.
CopyInv ==
  /\ \A s \in Row : IsCopy(s) =>
       /\ s.id <= stamp
       /\ s.user \in accounts \cup {Pending}
       /\ s.action = "login" => s.user # Pending
  /\ \A s, t \in Row : IsCopy(s) /\ IsCopy(t) /\ s.id = t.id =>
       s.action = t.action /\ (s.action = "login" => s.user = t.user)
  /\ \A s, t \in sessions : s.id = t.id => s = t
  /\ \A t \in sessions, r \in Requests : \A s \in loc[r].seen : s.id = t.id =>
       s.user = t.user \/ (s.user = Pending /\ EverVerified(Pending))

\* Nobody else has moved or opened the session a request is the owner of.
OwnerInv ==
  \A r \in Requests : pc[r] \in Owning =>
    /\ loc[r].own <= stamp
    /\ \A s \in Row : IsCopy(s) /\ s.id = loc[r].own => s.user = user[r] /\ s.action = action[r]
    /\ \A q \in Requests \ {r} : pc[q] \in Owning => loc[q].own # loc[r].own

\* Whom a request works for.
RoleInv ==
  \A r \in Requests : pc[r] # "idle" =>
    /\ user[r] \in accounts \cup {Pending}
    /\ action[r] = "login" => user[r] # Pending
    /\ pc[r] \notin Executing =>
         IF action[r] = "login" THEN loc[r].account = user[r]
         ELSE user[r] = Pending /\ loc[r].account \in Newcomers
    /\ pc[r] \in {"account", "reload", "resave"} => action[r] = "register"
    /\ pc[r] \in {"reload", "resave"} => loc[r].account \in accounts
    /\ pc[r] \in Executing =>
         /\ loc[r].own <= stamp
         /\ \A p \in loc[r].found \cap Optional : action[r] = "login"
         /\ \A s \in Row : IsCopy(s) /\ s.id = loc[r].own =>
              s.action = action[r] /\ (s.action = "login" => s.user = user[r])

\* Whose rows a request has read, and what it knows of them.
SeenInv ==
  \A r \in Requests :
    /\ pc[r] \in {"dropExisting", "loadSession"} => \A s \in loc[r].seen : s.user = user[r]
    /\ pc[r] = "dropOwn" => \A s \in loc[r].seen : s.user = loc[r].account
    /\ pc[r] = "dropPending" => \A s \in loc[r].seen : s.user = Pending
    /\ pc[r] \in {"resave", "mark"} => \A s \in loc[r].seen : s.id = loc[r].own
    /\ pc[r] \in {"readStatus", "decide"} => \A s \in loc[r].seen :
         s.user = user[r] \/ (user[r] = Pending /\ EverVerified(Pending))
    /\ pc[r] \in {"loadSession", "readStatus", "decide"} => loc[r].seen # {}
    /\ pc[r] \in {"readStatus", "decide"} => \A s, t \in loc[r].seen : s = t

\* A plugin that counts as completed was executed.
EverInv ==
  /\ \A u \in Owners, a \in Actions, p \in Mandatory : status[<<u, a, p>>] > 0 => <<u, p>> \in ever
  /\ \A r \in Requests :
       /\ pc[r] = "inherit" => \A p \in loc[r].found \cap Mandatory : <<user[r], p>> \in ever
       /\ pc[r] = "decide" => \A s \in loc[r].seen, p \in loc[r].found \cap Mandatory :
                                <<s.user, p>> \in ever
       /\ pc[r] \in Validating => Mandatory \cap installed \subseteq loc[r].need
       /\ pc[r] \in {"account", "reload", "resave"} => EverVerified(Pending)

\* Who is not disturbed shares neither user nor account with another request,
\* and a registration that is not disturbed is alone.
Undisturbed(r) == pc[r] # "idle" /\ ~ loc[r].disturbed

DisturbInv ==
  \A r \in Requests : Undisturbed(r) =>
    \A q \in Requests \ {r} : pc[q] # "idle" =>
      user[r] # Pending /\ user[q] # user[r] /\ loc[q].account # user[r]

\* The session of a request that is not disturbed is there, and the newest.
OwnInv ==
  \A r \in Requests : Undisturbed(r) =>
    /\ pc[r] \in {"readNeed", "findSession", "loadSession"} =>
         /\ [id |-> loc[r].own, user |-> user[r], action |-> action[r]] \in sessions
         /\ \A t \in sessions : t.user = user[r] => t.id <= loc[r].own
    /\ pc[r] = "loadSession" => \A s \in loc[r].seen : s.id = loc[r].own
    /\ pc[r] \in {"readStatus", "decide"} =>
         \A s \in loc[r].seen : s.user = user[r] /\ s.action = action[r]

\* What counts as completed has been earned and is not spent: what a clearing
\* that was not disturbed spends, it has deleted.
SpentInv ==
  /\ \A m \in Marks : status[m] > 0 => m \in earned
  /\ \A p \in Plugins : status[<<Pending, "login", p>>] = 0
  /\ \A r \in Requests :
       pc[r] = "inherit" => \A p \in loc[r].found : <<user[r], action[r], p>> \in earned
  /\ \A r \in Requests : Undisturbed(r) =>
       /\ pc[r] \in Validating => RequiredPlugins(user[r], action[r]) \subseteq loc[r].need
       /\ pc[r] = "decide" => \A p \in loc[r].found : <<user[r], action[r], p>> \in earned
       /\ pc[r] = "wipeOwn" => Completed(loc[r].account, action[r]) \subseteq loc[r].found
       /\ pc[r] = "wipePending" =>
            /\ Completed(loc[r].account, action[r]) = {}
            /\ Completed(Pending, action[r]) \subseteq loc[r].found

IInv == /\ TypeInv /\ CopyInv /\ OwnerInv /\ RoleInv /\ SeenInv /\ EverInv
        /\ DisturbInv /\ OwnInv /\ SpentInv

-----------------------------------------------------------------------------
(* What a step leaves alone.                                               *)

\* What a request does once it has begun.
Turn(r) ==
  \/ CreateSession(r) \/ Validate(r)
  \/ AskForPlugins(r) \/ Pass(r)
  \/ CreateAccount(r) \/ Reload(r) \/ Resave(r) \/ IssueToken(r)
  \/ ClearVerification(r)
  \/ Execute(r) \/ Reread(r) \/ Mark(r)
  \/ Fail(r)

\* How a request begins.
Start(r) ==
  \/ \E u \in accounts : BeginLogin(r, u)
  \/ \E n \in Newcomers : BeginRegister(r, n)
  \/ \E s \in sessions, p \in Plugins : BeginExecute(r, s, p)

\* What is left of another request: it may only have been disturbed.
Stays(q) ==
  /\ pc'[q] = pc[q] /\ user'[q] = user[q] /\ action'[q] = action[q]
  /\ loc'[q] \in Frame
  /\ loc'[q].own = loc[q].own /\ loc'[q].account = loc[q].account
  /\ loc'[q].seen = loc[q].seen /\ loc'[q].found = loc[q].found
  /\ loc'[q].need = loc[q].need
  /\ loc[q].disturbed => loc'[q].disturbed

\* The tables a request leaves alone, and those that only grow.
Lasts ==
  /\ installed' = installed
  /\ accounts \subseteq accounts' /\ ever \subseteq ever'
  /\ stamp' \in {stamp, stamp + 1}

LEMMA StepOf ==
  ASSUME [Next]_vars
  PROVE  \/ UNCHANGED vars
         \/ Age
         \/ \E u \in accounts, p \in Optional : Disable(u, p)
         \/ \E r \in Requests : Turn(r)
         \/ \E r \in Requests : Start(r)
BY Zenon DEF Next, Turn, Start

LEMMA FinishFrame ==
  ASSUME TypeInv, NEW r \in Requests, Finish(r)
  PROVE  /\ \A q \in Requests \ {r} : Stays(q)
         /\ pc'[r] = "idle"
         /\ loc'[r] = NoLocal
BY DEF TypeInv, Finish, Goto, Stays

LEMMA TurnFrame ==
  ASSUME TypeInv, NEW r \in Requests, Turn(r)
  PROVE  \A q \in Requests \ {r} : Stays(q)
<1>1. CASE CreateSession(r)
  BY <1>1 DEF TypeInv, CreateSession, ListRecent, Inherit, FindExisting, Find, DropExisting,
              Drop, OpenSession, Goto, Stays
<1>2. CASE NoSession(r) \/ AskForPlugins(r) \/ Mark(r)
  BY <1>2, FinishFrame DEF NoSession, AskForPlugins, Mark
<1>3. CASE ReadNeed(r) \/ FindSession(r) \/ LoadSession(r) \/ ReadStatus(r) \/ Pass(r)
  BY <1>3 DEF TypeInv, ReadNeed, FindSession, Find, LoadSession, ReadStatus, Pass, Goto, Stays
<1>4. CASE CreateAccount(r) \/ Reload(r) \/ Resave(r) \/ Execute(r)
  BY <1>4 DEF TypeInv, CreateAccount, Reload, Resave, Execute, Goto, Stays, request
<1>5. CASE IssueToken(r) \/ Reread(r)
  BY <1>5, FinishFrame DEF TypeInv, IssueToken, Reread, Goto, Stays
<1>6. CASE FindOwn(r) \/ DropOwn(r) \/ FindPending(r) \/ DropPending(r)
  BY <1>6 DEF TypeInv, FindOwn, DropOwn, FindPending, DropPending, Find, Drop, Goto, Stays
<1>7. CASE ListOwn(r) \/ WipeOwn(r) \/ ListPending(r) \/ WipePending(r)
  BY <1>7 DEF TypeInv, ListOwn, WipeOwn, ListPending, WipePending, List, Wipe, Goto, Stays
<1>8. CASE Cleared(r)
  BY <1>8, FinishFrame DEF TypeInv, Cleared, Goto, Stays
<1>9. CASE Fail(r)
  BY <1>9, FinishFrame DEF TypeInv, Fail, Goto, Stays
<1> QED
  BY <1>1, <1>2, <1>3, <1>4, <1>5, <1>6, <1>7, <1>8, <1>9 DEF Turn, Validate, ClearVerification

\* The request that begins, the job it has taken on, and whom that disturbs.
Started(r) ==
  /\ pc[r] = "idle"
  /\ user'[r] \in Owners /\ action'[r] \in Actions /\ loc'[r] \in Frame
  /\ loc'[r].seen = {}
  /\ \/ /\ pc'[r] = "listRecent" /\ action'[r] = "login"
        /\ user'[r] \in accounts /\ loc'[r].account = user'[r]
     \/ /\ pc'[r] = "listRecent" /\ action'[r] = "register"
        /\ user'[r] = Pending /\ loc'[r].account \in Newcomers \ accounts
     \/ /\ pc'[r] = "execute" /\ loc'[r].account = Pending
        /\ \E s \in sessions, p \in Plugins :
             /\ user'[r] = s.user /\ action'[r] = s.action
             /\ loc'[r].own = s.id /\ loc'[r].found = {p} /\ Supports(p, s.action)
  /\ loc'[r].disturbed \/
       \A p \in Requests : pc[p] # "idle" =>
         user'[r] # Pending /\ user[p] # user'[r] /\ loc[p].account # user'[r]
  /\ \A q \in Requests \ {r} :
       /\ Stays(q)
       /\ pc[q] # "idle" /\ ~ loc'[q].disturbed => user[q] # Pending /\ user[q] # user'[r]
  /\ UNCHANGED <<tables, clock, history>>

LEMMA BeginFrame ==
  ASSUME TypeInv, NEW r \in Requests, NEW u, NEW a, NEW label, NEW local \in Frame,
         Begin(r, u, a, label, local)
  PROVE  /\ pc[r] = "idle" /\ pc'[r] = label /\ user'[r] = u /\ action'[r] = a
         /\ loc'[r].disturbed \/
              \A p \in Requests : pc[p] # "idle" =>
                u # Pending /\ user[p] # u /\ loc[p].account # u
         /\ loc'[r] \in Frame
         /\ loc'[r].seen = local.seen /\ loc'[r].account = local.account
         /\ loc'[r].own = local.own /\ loc'[r].found = local.found
         /\ \A q \in Requests \ {r} :
              /\ Stays(q)
              /\ pc[q] # "idle" /\ ~ loc'[q].disturbed => user[q] # Pending /\ user[q] # u
         /\ UNCHANGED <<tables, clock, history>>
<1> DEFINE hit == \E p \in Active : \E v \in Touched(p) : Disturbs(v, u)
           hits(q) == q \in Active /\ Disturbs(u, user[q])
<1>1. /\ pc[r] = "idle"
      /\ pc' = [pc EXCEPT ![r] = label]
      /\ user' = [user EXCEPT ![r] = u]
      /\ action' = [action EXCEPT ![r] = a]
      /\ UNCHANGED <<tables, clock, history>>
  BY DEF Begin, Active, Goto
<1>2. loc' = [q \in Requests |-> IF q = r THEN [local EXCEPT !.disturbed = hit]
                                 ELSE [loc[q] EXCEPT !.disturbed = @ \/ hits(q)]]
  BY DEF Begin
<1>3. hit \/ \A p \in Requests : pc[p] # "idle" =>
                u # Pending /\ user[p] # u /\ loc[p].account # u
  BY DEF Active, Touched, Disturbs
<1>4. \A q \in Requests \ {r} :
        pc[q] # "idle" /\ ~ hits(q) => user[q] # Pending /\ user[q] # u
  BY DEF Active, Disturbs
<1>5. hit \in BOOLEAN
  OBVIOUS
<1> HIDE DEF hit, hits
<1>6. loc'[r] = [local EXCEPT !.disturbed = hit]
  BY <1>2
<1>7. /\ loc'[r] \in Frame /\ loc'[r].disturbed = hit
      /\ loc'[r].seen = local.seen /\ loc'[r].account = local.account
      /\ loc'[r].own = local.own /\ loc'[r].found = local.found
  BY <1>5, <1>6 DEF Frame
<1>8. ASSUME NEW q \in Requests \ {r}
      PROVE  /\ Stays(q)
             /\ ~ loc'[q].disturbed => ~ hits(q)
  BY <1>1, <1>2 DEF TypeInv, Frame, Stays
<1> QED
  BY <1>1, <1>3, <1>4, <1>7, <1>8 DEF TypeInv

LEMMA StartFrame ==
  ASSUME TypeInv, NEW r \in Requests, Start(r)
  PROVE  Started(r)
<1>1. ASSUME NEW u \in accounts, BeginLogin(r, u)
      PROVE  Started(r)
  <2> DEFINE local == [NoLocal EXCEPT !.account = u]
  <2>1. local \in Frame /\ local.seen = {} /\ local.account = u /\ u \in Owners
    BY DEF TypeInv, NoLocal, Frame, Owners
  <2>2. Begin(r, u, "login", "listRecent", local)
    BY <1>1 DEF BeginLogin
  <2> HIDE DEF local
  <2> QED
    BY <2>1, <2>2, BeginFrame DEF Started, Actions
<1>2. ASSUME NEW n \in Newcomers, BeginRegister(r, n)
      PROVE  Started(r)
  <2> DEFINE local == [NoLocal EXCEPT !.account = n]
  <2>1. local \in Frame /\ local.seen = {} /\ local.account = n /\ Pending \in Owners
    BY DEF NoLocal, Frame, Owners
  <2>2. Begin(r, Pending, "register", "listRecent", local) /\ n \notin accounts
    BY <1>2 DEF BeginRegister
  <2> HIDE DEF local
  <2> QED
    BY <2>1, <2>2, BeginFrame DEF Started, Actions
<1>3. ASSUME NEW s \in sessions, NEW p \in Plugins, BeginExecute(r, s, p)
      PROVE  Started(r)
  <2> DEFINE local == [NoLocal EXCEPT !.own = s.id, !.found = {p}]
  <2>1. s \in Row
    BY DEF TypeInv
  <2>2. /\ local \in Frame /\ local.seen = {} /\ local.account = Pending
        /\ local.own = s.id /\ local.found = {p}
    BY <2>1 DEF NoLocal, Frame, Owners, Row
  <2>3. Begin(r, s.user, s.action, "execute", local) /\ Supports(p, s.action)
    BY <1>3 DEF BeginExecute
  <2>4. s.user \in Owners /\ s.action \in Actions
    BY <2>1 DEF Row
  <2> HIDE DEF local
  <2> QED
    BY <2>2, <2>3, <2>4, BeginFrame DEF Started
<1> QED
  BY <1>1, <1>2, <1>3 DEF Start

\* Whatever happens, the tables last.
LEMMA Lasting == TypeInv /\ [Next]_vars => Lasts
<1> SUFFICES ASSUME TypeInv, [Next]_vars PROVE Lasts
  OBVIOUS
<1>1. CASE UNCHANGED vars \/ Age \/ \E u \in accounts, p \in Optional : Disable(u, p)
  BY <1>1 DEF Lasts, vars, tables, clock, history, Age, Disable
<1>2. ASSUME NEW r \in Requests, Start(r) PROVE Lasts
  BY <1>2, StartFrame DEF Started, Lasts, tables, clock, history
<1>3. ASSUME NEW r \in Requests, Turn(r) PROVE Lasts
  <2>1. CASE CreateSession(r)
    BY <2>1 DEF CreateSession, ListRecent, Inherit, FindExisting, Find, DropExisting,
                Drop, OpenSession, Lasts, tables, clock, history
  <2>2. CASE Validate(r) \/ AskForPlugins(r) \/ Pass(r)
    BY <2>2 DEF Validate, ReadNeed, FindSession, Find, LoadSession, NoSession, ReadStatus,
                AskForPlugins, Pass, Lasts, tables, clock, history
  <2>3. CASE CreateAccount(r) \/ Reload(r) \/ Resave(r) \/ IssueToken(r)
    BY <2>3 DEF CreateAccount, Reload, Resave, IssueToken, Lasts, tables, clock, history
  <2>4. CASE ClearVerification(r)
    BY <2>4 DEF ClearVerification, FindOwn, DropOwn, FindPending, DropPending, Find, Drop,
                ListOwn, WipeOwn, ListPending, WipePending, List, Wipe, Cleared,
                Lasts, tables, clock, history
  <2>5. CASE Execute(r) \/ Reread(r) \/ Mark(r) \/ Fail(r)
    BY <2>5 DEF Execute, Reread, Mark, Fail, Lasts, tables, clock, history
  <2> QED
    BY <1>3, <2>1, <2>2, <2>3, <2>4, <2>5 DEF Turn
<1> QED
  BY <1>1, <1>2, <1>3, StepOf

\* A step makes no session and no copy of one but of the sessions there are.
Copies ==
  /\ sessions' \subseteq sessions
  /\ \A q \in Requests : \A s \in loc'[q].seen : s \in loc[q].seen \/ s \in sessions

\* Only two steps do more than that.
LEMMA Copying ==
  TypeInv /\ [Next]_vars => Copies \/ \E r \in Requests : OpenSession(r) \/ Resave(r)
<1> SUFFICES ASSUME TypeInv, [Next]_vars
             PROVE  Copies \/ \E r \in Requests : OpenSession(r) \/ Resave(r)
  OBVIOUS
<1>1. CASE UNCHANGED vars \/ Age \/ \E u \in accounts, p \in Optional : Disable(u, p)
  BY <1>1 DEF Copies, vars, tables, request, Age, Disable
<1>2. ASSUME NEW r \in Requests, Start(r) PROVE Copies
  BY <1>2, StartFrame DEF Started, Copies, tables, Stays
<1>3. ASSUME NEW r \in Requests, Turn(r), ~ OpenSession(r), ~ Resave(r) PROVE Copies
  <2>0. SUFFICES sessions' \subseteq sessions
                 /\ \A s \in loc'[r].seen : s \in loc[r].seen \/ s \in sessions
    BY <1>3, TurnFrame DEF Copies, Stays
  <2>1. CASE Finish(r) /\ UNCHANGED sessions
    BY <2>1, FinishFrame DEF NoLocal
  <2>2. CASE CreateSession(r)
    BY <1>3, <2>2 DEF TypeInv, Frame, CreateSession, ListRecent, Inherit, FindExisting, Find, DropExisting,
                Drop, ActiveSession, tables
  <2>3. CASE Validate(r) \/ AskForPlugins(r) \/ Pass(r)
    BY <2>1, <2>3 DEF TypeInv, Frame, Validate, ReadNeed, FindSession, Find, LoadSession, NoSession, ReadStatus,
                AskForPlugins, Pass, ActiveSession, ById, tables
  <2>4. CASE CreateAccount(r) \/ Reload(r) \/ IssueToken(r)
    BY <2>1, <2>4 DEF TypeInv, Frame, CreateAccount, Reload, IssueToken, ById, tables
  <2>5. CASE ClearVerification(r)
    <3>1. CASE FindOwn(r) \/ DropOwn(r) \/ FindPending(r) \/ DropPending(r)
      BY <3>1 DEF TypeInv, Frame, FindOwn, DropOwn, FindPending, DropPending, Find, Drop,
                  ActiveSession, tables
    <3>2. CASE ListOwn(r) \/ ListPending(r)
      BY <3>2 DEF TypeInv, Frame, ListOwn, ListPending, List, tables
    <3>3. ASSUME NEW u, NEW at, Wipe(r, at, u)
          PROVE  sessions' = sessions /\ loc'[r].seen = loc[r].seen
      BY <3>3 DEF TypeInv, Frame, Wipe
    <3>4. CASE Cleared(r)
      BY <2>1, <3>4 DEF Cleared, tables
    <3> QED
      BY <2>5, <3>1, <3>2, <3>3, <3>4 DEF ClearVerification, WipeOwn, WipePending
  <2>6. CASE Execute(r) \/ Reread(r) \/ Mark(r) \/ Fail(r)
    BY <2>1, <2>6 DEF TypeInv, Frame, Execute, Reread, Mark, Fail, ById, tables
  <2> QED
    BY <1>3, <2>2, <2>3, <2>4, <2>5, <2>6 DEF Turn
<1> QED
  BY <1>1, <1>2, <1>3, StepOf

\* What the two do.
LEMMA Opening ==
  ASSUME TypeInv, NEW r \in Requests, OpenSession(r)
  PROVE  /\ pc[r] = "open" /\ pc'[r] = "readNeed"
         /\ stamp' = stamp + 1
         /\ sessions' = sessions \cup {[id |-> stamp + 1, user |-> user[r], action |-> action[r]]}
         /\ loc'[r].own = stamp + 1 /\ loc'[r].seen = loc[r].seen
         /\ UNCHANGED <<status, installed, asked, accounts, user, action, ever, earned>>
         /\ \A q \in Requests \ {r} : pc'[q] = pc[q] /\ loc'[q] = loc[q]
BY DEF TypeInv, OpenSession, Goto, history

LEMMA Resaving ==
  ASSUME TypeInv, NEW r \in Requests, Resave(r)
  PROVE  /\ pc[r] = "resave" /\ pc'[r] = "findOwn"
         /\ sessions' = {s \in sessions : s.id # loc[r].own}
                          \cup {[s EXCEPT !.user = loc[r].account] : s \in loc[r].seen}
         /\ loc'[r].seen = {} /\ loc'[r].own = loc[r].own
         /\ UNCHANGED <<stamp, status, installed, asked, accounts, user, action, ever, earned>>
         /\ \A q \in Requests \ {r} : pc'[q] = pc[q] /\ loc'[q] = loc[q]
BY DEF TypeInv, Resave, Goto, history, clock

LEMMA CopyStep == IInv /\ [Next]_vars => CopyInv'
<1> SUFFICES ASSUME IInv, [Next]_vars PROVE CopyInv'
  OBVIOUS
<1>0. TypeInv /\ CopyInv /\ Lasts
  BY Lasting DEF IInv
<1>1. CASE Copies
  <2>1. \A s \in Row : IsCopy(s)' => IsCopy(s)
    BY <1>1 DEF Copies, IsCopy
  <2>2. EverVerified(Pending) => EverVerified(Pending)'
    BY <1>0 DEF EverVerified, Lasts
  <2>3. \A s \in Row : IsCopy(s)' =>
          /\ s.id <= stamp'
          /\ s.user \in accounts' \cup {Pending}
          /\ s.action = "login" => s.user # Pending
    BY <1>0, <2>1 DEF CopyInv, TypeInv, Row, Lasts
  <2>4. \A s, t \in Row : IsCopy(s)' /\ IsCopy(t)' /\ s.id = t.id =>
          s.action = t.action /\ (s.action = "login" => s.user = t.user)
    BY <1>0, <2>1 DEF CopyInv
  <2>5. \A s, t \in sessions' : s.id = t.id => s = t
    BY <1>0, <1>1 DEF CopyInv, Copies
  <2>6. \A t \in sessions', r \in Requests : \A s \in loc'[r].seen : s.id = t.id =>
          s.user = t.user \/ (s.user = Pending /\ EverVerified(Pending)')
    BY <1>0, <1>1, <2>2 DEF CopyInv, Copies
  <2> QED
    BY <2>3, <2>4, <2>5, <2>6 DEF CopyInv
<1>2. ASSUME NEW r \in Requests, OpenSession(r) PROVE CopyInv'
  <2> DEFINE new == [id |-> stamp + 1, user |-> user[r], action |-> action[r]]
  <2>1. /\ new \in Row /\ new.id = stamp + 1 /\ new.user = user[r] /\ new.action = action[r]
        /\ user[r] \in accounts \cup {Pending} /\ (action[r] = "login" => user[r] # Pending)
    <3>1. pc[r] = "open"
      BY <1>0, <1>2, Opening
    <3> QED
      BY <1>0, <3>1 DEF TypeInv, Row, IInv, RoleInv
  <2>2. sessions' = sessions \cup {new} /\ stamp' = stamp + 1 /\ accounts' = accounts
        /\ \A q \in Requests : loc'[q].seen = loc[q].seen
        /\ EverVerified(Pending)' = EverVerified(Pending)
    BY <1>0, <1>2, Opening DEF EverVerified
  <2> HIDE DEF new
  <2>3. \A s \in Row : IsCopy(s)' => IsCopy(s) \/ s = new
    BY <2>2 DEF IsCopy
  <2>4. \A s \in Row : IsCopy(s) => s.id <= stamp /\ s.id # stamp + 1
    BY <1>0 DEF CopyInv, TypeInv, Row
  <2>5. \A s \in Row : IsCopy(s)' =>
          /\ s.id <= stamp'
          /\ s.user \in accounts' \cup {Pending}
          /\ s.action = "login" => s.user # Pending
    BY <1>0, <2>1, <2>2, <2>3, <2>4 DEF CopyInv, TypeInv, Row
  <2>6. \A s, t \in Row : IsCopy(s)' /\ IsCopy(t)' /\ s.id = t.id =>
          s.action = t.action /\ (s.action = "login" => s.user = t.user)
    BY <1>0, <2>1, <2>3, <2>4 DEF CopyInv
  <2>7. /\ \A s \in sessions : s \in Row /\ IsCopy(s)
        /\ \A q \in Requests : \A s \in loc[q].seen : s \in Row /\ IsCopy(s)
    BY <1>0 DEF IsCopy, TypeInv, Frame
  <2>8. \A s, t \in sessions' : s.id = t.id => s = t
    BY <1>0, <2>1, <2>2, <2>4, <2>7 DEF CopyInv
  <2>9. \A t \in sessions', q \in Requests : \A s \in loc'[q].seen : s.id = t.id =>
          s.user = t.user \/ (s.user = Pending /\ EverVerified(Pending)')
    BY <1>0, <2>1, <2>2, <2>4, <2>7 DEF CopyInv
  <2> QED
    BY <2>5, <2>6, <2>8, <2>9 DEF CopyInv
<1>3. ASSUME NEW r \in Requests, Resave(r) PROVE CopyInv'
  <2> DEFINE moved(s) == [s EXCEPT !.user = loc[r].account]
  <2>1. /\ pc[r] = "resave"
        /\ sessions' = {s \in sessions : s.id # loc[r].own} \cup {moved(s) : s \in loc[r].seen}
        /\ stamp' = stamp /\ accounts' = accounts
        /\ \A q \in Requests : loc'[q].seen \subseteq loc[q].seen
        /\ EverVerified(Pending)' = EverVerified(Pending)
    BY <1>0, <1>3, Resaving DEF EverVerified
  <2>2. /\ action[r] = "register" /\ user[r] = Pending /\ loc[r].account \in accounts
        /\ EverVerified(Pending)
        /\ loc[r].account # Pending
    BY <2>1, <1>0, VerificationAssumption DEF IInv, RoleInv, EverInv, Executing, TypeInv
  <2>3. \A s \in loc[r].seen : s \in Row /\ IsCopy(s) /\ s.id = loc[r].own
    BY <1>0, <2>1 DEF IInv, SeenInv, IsCopy, TypeInv, Frame
  <2>4. \A s \in Row : IsCopy(s) /\ s.id = loc[r].own => s.user = Pending /\ s.action = "register"
    BY <1>0, <2>1, <2>2 DEF IInv, OwnerInv, Owning
  <2>5. ASSUME NEW s \in loc[r].seen
        PROVE  /\ moved(s) \in Row /\ moved(s).id = loc[r].own /\ moved(s).action = "register"
               /\ moved(s).user = loc[r].account
    BY <1>0, <2>3, <2>4 DEF TypeInv, Frame, Row
  <2> HIDE DEF moved
  <2>6. \A s \in Row : IsCopy(s)' =>
          IsCopy(s) \/ (\E t \in loc[r].seen : s = moved(t))
    BY <2>1 DEF IsCopy
  <2>7. \A s \in Row : IsCopy(s)' =>
          /\ s.id <= stamp'
          /\ s.user \in accounts' \cup {Pending}
          /\ s.action = "login" => s.user # Pending
    BY <1>0, <2>1, <2>2, <2>3, <2>5, <2>6 DEF CopyInv
  <2>8. \A s, t \in Row : IsCopy(s)' /\ IsCopy(t)' /\ s.id = t.id =>
          s.action = t.action /\ (s.action = "login" => s.user = t.user)
    BY <1>0, <2>3, <2>4, <2>5, <2>6 DEF CopyInv
  <2>9. \A s, t \in sessions' : s.id = t.id => s = t
    <3>1. ASSUME NEW s \in loc[r].seen, NEW t \in loc[r].seen PROVE moved(s) = moved(t)
      BY <2>3, <2>5 DEF Row
    <3> QED
      BY <1>0, <2>1, <2>5, <3>1 DEF CopyInv
  <2>10. \A t \in sessions', q \in Requests : \A s \in loc'[q].seen : s.id = t.id =>
          s.user = t.user \/ (s.user = Pending /\ EverVerified(Pending)')
    <3>1. \A q \in Requests : \A s \in loc[q].seen : s \in Row /\ IsCopy(s)
      BY <1>0 DEF IsCopy, TypeInv, Frame
    <3> QED
      BY <1>0, <2>1, <2>2, <2>4, <2>5, <3>1 DEF CopyInv
  <2> QED
    BY <2>7, <2>8, <2>9, <2>10 DEF CopyInv
<1> QED
  BY <1>0, <1>1, <1>2, <1>3, Copying

\* A request that goes on keeps its job, and goes where the code goes.
Flows(r) ==
  /\ pc[r] # "idle"
  /\ user'[r] = user[r] /\ action'[r] = action[r]
  /\ loc'[r].account = loc[r].account /\ loc'[r].disturbed = loc[r].disturbed
  /\ OpenSession(r) \/ (loc'[r].own = loc[r].own /\ (pc'[r] \in Owning => pc[r] \in Owning))
  /\ pc'[r] \in Executing <=> pc[r] \in Executing
  /\ pc'[r] \in Executing => loc'[r].found = loc[r].found

LEMMA TurnFlows ==
  ASSUME TypeInv, NEW r \in Requests, Turn(r), pc'[r] # "idle"
  PROVE  Flows(r)
<1>0. loc[r] \in Frame /\ ~ Finish(r)
  BY FinishFrame DEF TypeInv
<1> USE DEF Owning, Executing
<1>1. CASE ListRecent(r) \/ Inherit(r) \/ FindExisting(r) \/ DropExisting(r)
  BY <1>0, <1>1 DEF TypeInv, Frame, ListRecent, Inherit, FindExisting, Find, DropExisting,
              Drop, Goto, Flows
<1>2. CASE OpenSession(r)
  BY <1>0, <1>2 DEF TypeInv, Frame, OpenSession, Goto, Flows
<1>3. CASE ReadNeed(r) \/ FindSession(r) \/ LoadSession(r)
  BY <1>0, <1>3 DEF TypeInv, Frame, ReadNeed, FindSession, Find, LoadSession, Goto, Flows
<1>4. CASE ReadStatus(r)
  BY <1>0, <1>4 DEF TypeInv, Frame, ReadStatus, Goto, Flows
<1>5. CASE Pass(r)
  BY <1>0, <1>5 DEF TypeInv, Frame, Pass, Goto, Flows
<1>6. CASE CreateAccount(r) \/ Reload(r) \/ Resave(r)
  BY <1>0, <1>6 DEF TypeInv, Frame, CreateAccount, Reload, Resave, Goto, Flows
<1>7. CASE Execute(r) \/ Reread(r)
  BY <1>0, <1>7 DEF TypeInv, Frame, Execute, Reread, Goto, Flows
<1>8. CASE IssueToken(r) \/ Cleared(r) \/ Fail(r)
  BY <1>0, <1>8 DEF TypeInv, Frame, IssueToken, Cleared, Fail, Active, Goto, Flows
<1>9. CASE FindOwn(r) \/ DropOwn(r) \/ FindPending(r) \/ DropPending(r)
  BY <1>0, <1>9 DEF TypeInv, Frame, FindOwn, DropOwn, FindPending, DropPending, Find, Drop, Goto, Flows
<1>10. CASE ListOwn(r) \/ ListPending(r)
  BY <1>0, <1>10 DEF TypeInv, Frame, ListOwn, ListPending, List, Goto, Flows
<1>11. ASSUME NEW u, NEW at \in {"wipeOwn", "wipePending"}, Wipe(r, at, u)
       PROVE  Flows(r)
  BY <1>0, <1>11 DEF TypeInv, Frame, Wipe, Flows
<1>12. CASE NoSession(r) \/ AskForPlugins(r) \/ Mark(r)
  BY <1>0, <1>12 DEF NoSession, AskForPlugins, Mark
<1> QED
  BY <1>1, <1>2, <1>3, <1>4, <1>5, <1>6, <1>7, <1>8, <1>9, <1>10, <1>11, <1>12
     DEF Turn, CreateSession, Validate, ClearVerification, WipeOwn, WipePending

\* No request stands at a label of Owning that did not before, unless it opens
\* its session now.
LEMMA OwnersKept ==
  ASSUME TypeInv, [Next]_vars, NEW q \in Requests, pc'[q] # "idle"
  PROVE  \/ Start(q)
         \/ Turn(q) /\ Flows(q)
         \/ Stays(q) /\ ~ OpenSession(q)
<1>1. CASE UNCHANGED vars \/ Age \/ \E u \in accounts, p \in Optional : Disable(u, p)
  BY <1>1 DEF vars, request, Age, Disable, Stays, OpenSession, Goto, TypeInv
<1>2. ASSUME NEW r \in Requests, Start(r)
      PROVE  Start(q) \/ (Stays(q) /\ ~ OpenSession(q))
  <2>1. CASE q = r
    BY <1>2, <2>1
  <2>2. CASE q # r
    <3>1. Stays(q) /\ stamp' = stamp /\ stamp \in Nat
      BY <1>2, <2>2, StartFrame DEF Started, clock, TypeInv
    <3> QED
      BY <3>1 DEF OpenSession
  <2> QED
    BY <2>1, <2>2
<1>3. ASSUME NEW r \in Requests, Turn(r)
      PROVE  (Turn(q) /\ Flows(q)) \/ (Stays(q) /\ ~ OpenSession(q))
  <2>1. CASE q = r
    BY <1>3, <2>1, TurnFlows
  <2>2. CASE q # r
    <3>1. Stays(q)
      BY <1>3, <2>2, TurnFrame
    <3> QED
      BY <3>1 DEF OpenSession, Stays, Goto, TypeInv
  <2> QED
    BY <2>1, <2>2
<1> QED
  BY <1>1, <1>2, <1>3, StepOf

LEMMA OwnerStep == IInv /\ [Next]_vars => OwnerInv'
<1> SUFFICES ASSUME IInv, [Next]_vars PROVE OwnerInv'
  OBVIOUS
<1>0. TypeInv /\ CopyInv /\ OwnerInv /\ RoleInv /\ SeenInv /\ Lasts
  BY Lasting DEF IInv
<1>1. ASSUME NEW q \in Requests, pc'[q] \in Owning, ~ OpenSession(q)
      PROVE  /\ pc[q] \in Owning /\ loc'[q].own = loc[q].own
             /\ user'[q] = user[q] /\ action'[q] = action[q]
  <2>1. ~ Start(q) /\ pc'[q] # "idle"
    BY <1>0, <1>1, StartFrame DEF Started, Owning
  <2> QED
    BY <1>0, <1>1, <2>1, OwnersKept DEF Stays, Flows
<1>2. CASE Copies /\ \A q \in Requests : ~ OpenSession(q)
  <2>1. \A s \in Row : IsCopy(s)' => IsCopy(s)
    BY <1>2 DEF Copies, IsCopy
  <2>2. \A q \in Requests : pc[q] \in Owning => loc[q].own <= stamp'
    BY <1>0 DEF OwnerInv, Lasts, TypeInv, Frame
  <2> QED
    BY <1>0, <1>1, <1>2, <2>1, <2>2 DEF OwnerInv
<1>3. ASSUME NEW r \in Requests, OpenSession(r) PROVE OwnerInv'
  <2> DEFINE new == [id |-> stamp + 1, user |-> user[r], action |-> action[r]]
  <2>1. /\ new \in Row /\ new.id = stamp + 1 /\ new.user = user[r] /\ new.action = action[r]
    BY <1>0 DEF TypeInv, Row
  <2>2. /\ sessions' = sessions \cup {new} /\ stamp' = stamp + 1 /\ loc'[r].own = stamp + 1
        /\ user' = user /\ action' = action
        /\ \A q \in Requests : loc'[q].seen = loc[q].seen
        /\ \A q \in Requests \ {r} : pc'[q] = pc[q] /\ loc'[q].own = loc[q].own
    BY <1>0, <1>3, Opening
  <2> HIDE DEF new
  <2>3. \A s \in Row : IsCopy(s)' => IsCopy(s) \/ s = new
    BY <2>2 DEF IsCopy
  <2>4. \A s \in Row : IsCopy(s) => s.id <= stamp /\ s.id # stamp + 1
    BY <1>0 DEF CopyInv, TypeInv, Row
  <2>5. \A q \in Requests \ {r} : pc[q] \in Owning => loc[q].own <= stamp /\ loc[q].own # stamp + 1
    BY <1>0 DEF OwnerInv, TypeInv, Frame
  <2>6. loc'[r].own <= stamp' /\ \A q \in Requests \ {r} : pc[q] \in Owning => loc'[q].own <= stamp'
    BY <1>0, <2>2, <2>5 DEF TypeInv, Frame
  <2>7. ASSUME NEW q \in Requests, pc'[q] \in Owning, NEW s \in Row, IsCopy(s)', s.id = loc'[q].own
        PROVE  s.user = user'[q] /\ s.action = action'[q]
    <3>1. CASE q = r
      BY <2>1, <2>2, <2>3, <2>4, <2>7, <3>1
    <3>2. CASE q # r
      BY <1>0, <2>1, <2>2, <2>3, <2>5, <2>7, <3>2 DEF OwnerInv
    <3> QED
      BY <3>1, <3>2
  <2>8. ASSUME NEW q \in Requests, pc'[q] \in Owning, NEW p \in Requests \ {q}, pc'[p] \in Owning
        PROVE  loc'[p].own # loc'[q].own
    BY <1>0, <2>2, <2>5, <2>8 DEF OwnerInv
  <2> QED
    BY <2>2, <2>6, <2>7, <2>8 DEF OwnerInv
<1>4. ASSUME NEW r \in Requests, Resave(r) PROVE OwnerInv'
  <2> DEFINE moved(s) == [s EXCEPT !.user = loc[r].account]
  <2>1. /\ pc[r] = "resave" /\ pc'[r] = "findOwn"
        /\ sessions' = {s \in sessions : s.id # loc[r].own} \cup {moved(s) : s \in loc[r].seen}
        /\ stamp' = stamp /\ user' = user /\ action' = action
        /\ \A q \in Requests : loc'[q].seen \subseteq loc[q].seen
        /\ \A q \in Requests \ {r} : pc'[q] = pc[q] /\ loc'[q].own = loc[q].own
    BY <1>0, <1>4, Resaving
  <2>2. \A s \in loc[r].seen : s \in Row /\ s.id = loc[r].own
    BY <1>0, <2>1 DEF SeenInv, TypeInv, Frame
  <2>3. \A s \in loc[r].seen : moved(s).id = loc[r].own
    BY <2>2 DEF Row
  <2> HIDE DEF moved
  <2>4. \A s \in Row : IsCopy(s)' =>
          IsCopy(s) \/ s.id = loc[r].own
    BY <2>1, <2>3 DEF IsCopy
  <2>5. \A q \in Requests : pc'[q] \in Owning => q # r /\ pc[q] \in Owning /\ loc[q].own # loc[r].own
    BY <1>0, <2>1 DEF OwnerInv, Owning
  <2> QED
    BY <1>0, <2>1, <2>4, <2>5 DEF OwnerInv
<1> QED
  BY <1>0, <1>2, <1>3, <1>4, Copying

\* The statement that leads to a label.
CameFrom(r) ==
  /\ pc'[r] \notin {"listRecent", "execute"}
  /\ pc'[r] = "inherit" => ListRecent(r)
  /\ pc'[r] = "dropExisting" => FindExisting(r)
  /\ pc'[r] = "findSession" => ReadNeed(r)
  /\ pc'[r] = "loadSession" => FindSession(r)
  /\ pc'[r] = "readStatus" => LoadSession(r)
  /\ pc'[r] = "decide" => ReadStatus(r)
  /\ pc'[r] = "account" => Pass(r)
  /\ pc'[r] = "reload" => CreateAccount(r)
  /\ pc'[r] = "resave" => Reload(r)
  /\ pc'[r] = "dropOwn" => FindOwn(r)
  /\ pc'[r] = "dropPending" => FindPending(r)
  /\ pc'[r] = "wipeOwn" => ListOwn(r) \/ WipeOwn(r)
  /\ pc'[r] = "wipePending" => ListPending(r) \/ WipePending(r)
  /\ pc'[r] = "readNeed" => OpenSession(r)
  /\ pc'[r] = "reread" => Execute(r)
  /\ pc'[r] = "mark" => Reread(r)

LEMMA LeadsTo ==
  ASSUME TypeInv, NEW r \in Requests, Turn(r), pc'[r] # "idle"
  PROVE  CameFrom(r)
<1>0. pc \in [Requests -> Labels] /\ ~ Finish(r)
  BY FinishFrame DEF TypeInv
<1>1. CASE CreateSession(r)
  BY <1>0, <1>1 DEF CreateSession, ListRecent, Inherit, FindExisting, Find, DropExisting,
                    Drop, OpenSession, Goto, CameFrom
<1>2. CASE Validate(r)
  BY <1>0, <1>2 DEF Validate, ReadNeed, FindSession, Find, LoadSession, NoSession, ReadStatus,
                    Goto, CameFrom
<1>3. CASE Pass(r) \/ CreateAccount(r) \/ Reload(r) \/ Resave(r)
  BY <1>0, <1>3 DEF Pass, CreateAccount, Reload, Resave, Goto, CameFrom
<1>4. CASE AskForPlugins(r) \/ IssueToken(r) \/ Mark(r) \/ Fail(r)
  BY <1>0, <1>4 DEF AskForPlugins, IssueToken, Mark, Fail, Goto, CameFrom
<1>5. CASE FindOwn(r) \/ DropOwn(r) \/ FindPending(r) \/ DropPending(r) \/ Cleared(r)
  BY <1>0, <1>5 DEF FindOwn, DropOwn, FindPending, DropPending, Find, Drop, Cleared, Goto, CameFrom
<1>6. CASE ListOwn(r) \/ WipeOwn(r) \/ ListPending(r) \/ WipePending(r)
  BY <1>0, <1>6 DEF ListOwn, WipeOwn, ListPending, WipePending, List, Wipe, Goto, CameFrom
<1>7. CASE Execute(r) \/ Reread(r)
  BY <1>0, <1>7 DEF Execute, Reread, Goto, CameFrom
<1> QED
  BY <1>1, <1>2, <1>3, <1>4, <1>5, <1>6, <1>7 DEF Turn, ClearVerification

LEMMA RoleStep == IInv /\ [Next]_vars => RoleInv'
<1> SUFFICES ASSUME IInv, [Next]_vars,
                    NEW q \in Requests, pc'[q] # "idle"
             PROVE
    /\ user'[q] \in accounts' \cup {Pending}
    /\ action'[q] = "login" => user'[q] # Pending
    /\ pc'[q] \notin Executing =>
         IF action'[q] = "login" THEN loc'[q].account = user'[q]
         ELSE user'[q] = Pending /\ loc'[q].account \in Newcomers
    /\ pc'[q] \in {"account", "reload", "resave"} => action'[q] = "register"
    /\ pc'[q] \in {"reload", "resave"} => loc'[q].account \in accounts'
    /\ pc'[q] \in Executing =>
         /\ loc'[q].own <= stamp'
         /\ \A p \in loc'[q].found \cap Optional : action'[q] = "login"
         /\ \A s \in Row : IsCopy(s)' /\ s.id = loc'[q].own =>
              s.action = action'[q] /\ (s.action = "login" => s.user = user'[q])
  BY DEF RoleInv
<1>0. TypeInv /\ CopyInv /\ OwnerInv /\ RoleInv /\ SeenInv /\ Lasts
  BY Lasting DEF IInv
\* What executing relies on: a session is neither moved nor opened under its id.
<1>1. ASSUME pc[q] \in Executing, NEW s \in Row, IsCopy(s)', s.id = loc[q].own
      PROVE  s.action = action[q] /\ (s.action = "login" => s.user = user[q])
  <2>0. pc[q] # "idle"
    BY <1>1 DEF Executing
  <2>1. CASE Copies
    BY <1>0, <1>1, <2>0, <2>1 DEF Copies, IsCopy, RoleInv
  <2>2. ASSUME NEW r \in Requests, OpenSession(r) PROVE IsCopy(s)
    <3>1. /\ sessions' = sessions \cup {[id |-> stamp + 1, user |-> user[r], action |-> action[r]]}
          /\ \A p \in Requests : loc'[p].seen = loc[p].seen
      BY <1>0, <2>2, Opening
    <3>2. s.id # stamp + 1
      BY <1>0, <1>1, <2>0 DEF RoleInv, TypeInv, Row
    <3> QED
      BY <1>1, <3>1, <3>2 DEF IsCopy
  <2>3. ASSUME NEW r \in Requests, Resave(r), ~ IsCopy(s)
        PROVE  \E t \in Row : IsCopy(t) /\ t.id = loc[q].own
                              /\ t.action = "register" /\ s.action = "register"
    <3>1. /\ pc[r] = "resave"
          /\ sessions' = {t \in sessions : t.id # loc[r].own}
                           \cup {[t EXCEPT !.user = loc[r].account] : t \in loc[r].seen}
          /\ \A p \in Requests : loc'[p].seen \subseteq loc[p].seen
      BY <1>0, <2>3, Resaving
    <3>2. PICK t \in loc[r].seen : s = [t EXCEPT !.user = loc[r].account]
      BY <1>1, <2>3, <3>1 DEF IsCopy
    <3>3. t \in Row /\ IsCopy(t) /\ t.id = loc[r].own
      BY <1>0, <3>1 DEF SeenInv, TypeInv, Frame, IsCopy
    <3>4. t.action = "register"
      BY <1>0, <3>1, <3>3 DEF OwnerInv, RoleInv, Owning
    <3>5. s.id = t.id /\ s.action = t.action
      BY <3>2, <3>3 DEF Row
    <3> QED
      BY <1>1, <3>3, <3>4, <3>5
  <2>4. IsCopy(s) => s.action = action[q] /\ (s.action = "login" => s.user = user[q])
    BY <1>0, <1>1, <2>0 DEF RoleInv
  <2>5. \A t \in Row : IsCopy(t) /\ t.id = loc[q].own => t.action = action[q]
    BY <1>0, <1>1, <2>0 DEF RoleInv
  <2> QED
    BY <1>0, <2>1, <2>2, <2>3, <2>4, <2>5, Copying DEF Copies, IsCopy, RoleInv
<1>2. CASE Start(q)
  <2>1. Started(q)
    BY <1>0, <1>2, StartFrame
  <2>2. CASE pc'[q] = "listRecent"
    <3>1. accounts' = accounts /\ Pending \notin accounts
      BY <1>0, <2>1, VerificationAssumption DEF Started, tables, TypeInv
    <3>2. \/ /\ action'[q] = "login" /\ user'[q] \in accounts /\ loc'[q].account = user'[q]
          \/ /\ action'[q] = "register" /\ user'[q] = Pending /\ loc'[q].account \in Newcomers
      BY <2>1, <2>2 DEF Started
    <3> QED
      BY <2>2, <3>1, <3>2 DEF Executing
  <2>3. CASE pc'[q] = "execute"
    <3>1. PICK s \in sessions, p \in Plugins :
             /\ user'[q] = s.user /\ action'[q] = s.action
             /\ loc'[q].own = s.id /\ loc'[q].found = {p} /\ Supports(p, s.action)
      BY <2>1, <2>3 DEF Started
    <3>2. s \in Row /\ IsCopy(s) /\ accounts' = accounts /\ stamp' = stamp
      BY <1>0, <2>1 DEF TypeInv, IsCopy, Started, tables, clock
    <3>3. \A t \in Row : IsCopy(t)' => IsCopy(t)
      BY <2>1 DEF Started, IsCopy, Stays, tables
    <3>4. \A x \in loc'[q].found \cap Optional : action'[q] = "login"
      BY <3>1, VerificationAssumption DEF Supports
    <3>5. /\ user'[q] \in accounts' \cup {Pending}
          /\ action'[q] = "login" => user'[q] # Pending
          /\ loc'[q].own <= stamp'
      BY <1>0, <3>1, <3>2 DEF CopyInv
    <3>6. \A t \in Row : IsCopy(t)' /\ t.id = loc'[q].own =>
            t.action = action'[q] /\ (t.action = "login" => t.user = user'[q])
      BY <1>0, <3>1, <3>2, <3>3 DEF CopyInv
    <3> QED
      BY <2>3, <3>4, <3>5, <3>6 DEF Executing
  <2> QED
    BY <2>1, <2>2, <2>3 DEF Started
<1>3. CASE Stays(q)
  BY <1>0, <1>1, <1>3 DEF Stays, RoleInv, Lasts, TypeInv, Frame
<1>4. CASE Turn(q) /\ Flows(q)
  <2>1. CameFrom(q)
    BY <1>0, <1>4, LeadsTo
  <2>2. /\ user'[q] \in accounts' \cup {Pending}
        /\ action'[q] = "login" => user'[q] # Pending
        /\ pc'[q] \notin Executing =>
             IF action'[q] = "login" THEN loc'[q].account = user'[q]
         ELSE user'[q] = Pending /\ loc'[q].account \in Newcomers
    BY <1>0, <1>4 DEF Flows, RoleInv, Lasts
  <2>3. pc'[q] \in {"account", "reload", "resave"} => action'[q] = "register"
    BY <1>0, <1>4, <2>1 DEF Flows, RoleInv, CameFrom, Pass, CreateAccount, Reload, Goto, TypeInv, Actions
  <2>4. pc'[q] \in {"reload", "resave"} => loc'[q].account \in accounts'
    BY <1>0, <1>4, <2>1 DEF Flows, RoleInv, CameFrom, CreateAccount, Reload, Lasts
  <2>5. CASE pc'[q] \in Executing
    <3>1. /\ pc[q] \in Executing /\ loc'[q].own = loc[q].own /\ loc'[q].found = loc[q].found
          /\ user'[q] = user[q] /\ action'[q] = action[q] /\ pc[q] # "idle"
      BY <1>4, <2>5 DEF Flows, OpenSession, Executing
    <3>2. loc'[q].own <= stamp' /\ \A p \in loc'[q].found \cap Optional : action'[q] = "login"
      BY <1>0, <3>1 DEF RoleInv, Lasts, TypeInv, Frame
    <3> QED
      BY <1>1, <2>2, <2>3, <2>4, <3>1, <3>2
  <2> QED
    BY <2>2, <2>3, <2>4, <2>5
<1> QED
  BY <1>0, <1>2, <1>3, <1>4, OwnersKept

\* A verification that passes was one: every mandatory plugin was executed.
LEMMA PassMeansVerified ==
  ASSUME TypeInv, SeenInv, EverInv, NEW r \in Requests, pc[r] = "decide", Verified(r)
  PROVE  EverVerified(user[r])
<1>1. CASE loc[r].need = {}
  BY <1>1 DEF EverInv, EverVerified, Validating
<1>2. CASE Missing(r) = {}
  <2>1. PICK s \in loc[r].seen : TRUE
    BY DEF SeenInv
  <2>2. \A p \in Mandatory \cap installed : p \in loc[r].found
    BY <1>2, <2>1 DEF Missing, RequiredPlugins, TypeInv
  <2>3. EverVerified(s.user)
    BY <2>1, <2>2 DEF EverVerified, EverInv
  <2> QED
    BY <2>1, <2>3 DEF SeenInv
<1> QED
  BY <1>1, <1>2 DEF Verified

LEMMA SeenStep == IInv /\ [Next]_vars => SeenInv'
<1> DEFINE Seen(q) ==
    /\ pc[q] \in {"dropExisting", "loadSession"} => \A s \in loc[q].seen : s.user = user[q]
    /\ pc[q] = "dropOwn" => \A s \in loc[q].seen : s.user = loc[q].account
    /\ pc[q] = "dropPending" => \A s \in loc[q].seen : s.user = Pending
    /\ pc[q] \in {"resave", "mark"} => \A s \in loc[q].seen : s.id = loc[q].own
    /\ pc[q] \in {"readStatus", "decide"} => \A s \in loc[q].seen :
         s.user = user[q] \/ (user[q] = Pending /\ EverVerified(Pending))
    /\ pc[q] \in {"loadSession", "readStatus", "decide"} => loc[q].seen # {}
    /\ pc[q] \in {"readStatus", "decide"} => \A s, t \in loc[q].seen : s = t
<1> SUFFICES ASSUME IInv, [Next]_vars, NEW q \in Requests PROVE Seen(q)'
  BY DEF SeenInv
<1>0. TypeInv /\ CopyInv /\ Lasts /\ Seen(q)
  BY Lasting DEF IInv, SeenInv
<1>1. EverVerified(Pending) => EverVerified(Pending)'
  BY <1>0 DEF EverVerified, Lasts
<1>2. CASE pc'[q] = "idle"
  BY <1>2
<1>3. CASE Start(q)
  <2>1. pc'[q] \in {"listRecent", "execute"}
    BY <1>0, <1>3, StartFrame DEF Started
  <2> QED
    BY <2>1
<1>4. CASE Stays(q)
  BY <1>0, <1>1, <1>4 DEF Stays
<1>5. CASE Turn(q) /\ Flows(q) /\ pc'[q] # "idle"
  <2>1. CameFrom(q) /\ loc[q] \in Frame
    BY <1>0, <1>5, LeadsTo DEF TypeInv
  <2>2. user'[q] = user[q] /\ loc'[q].account = loc[q].account
    BY <1>5 DEF Flows
  <2>3. CASE pc'[q] = "dropExisting"
    BY <1>0, <2>1, <2>2, <2>3 DEF CameFrom, FindExisting, Find, ActiveSession, TypeInv, Frame
  <2>4. CASE pc'[q] = "loadSession"
    BY <1>0, <2>1, <2>2, <2>4 DEF CameFrom, FindSession, Find, ActiveSession, TypeInv, Frame
  <2>5. CASE pc'[q] = "dropOwn"
    BY <1>0, <2>1, <2>2, <2>5 DEF CameFrom, FindOwn, Find, ActiveSession, TypeInv, Frame
  <2>6. CASE pc'[q] = "dropPending"
    BY <1>0, <2>1, <2>6 DEF CameFrom, FindPending, Find, ActiveSession, TypeInv, Frame
  <2>7. CASE pc'[q] = "resave"
    BY <1>0, <2>1, <2>7 DEF CameFrom, Reload, ById, TypeInv, Frame
  <2>8. CASE pc'[q] = "mark"
    <3>1. ~ Finish(q)
      BY <1>0, <2>8, FinishFrame
    <3> QED
      BY <1>0, <2>1, <2>8, <3>1 DEF CameFrom, Reread, ById, TypeInv, Frame
  <2>9. CASE pc'[q] = "readStatus"
    <3>1. PICK s \in loc[q].seen : ById(s.id) # {} /\ loc'[q].seen = ById(s.id) /\ pc[q] = "loadSession"
      <4>1. LoadSession(q) /\ loc \in [Requests -> Frame] /\ loc[q] \in Frame
        BY <1>0, <2>1, <2>9 DEF CameFrom, TypeInv
      <4> HIDE DEF Seen
      <4> QED
        BY <4>1 DEF LoadSession, Frame
    <3>2. s.user = user[q]
      BY <1>0, <3>1
    <3>3. \A t \in ById(s.id) : s.user = t.user \/ (s.user = Pending /\ EverVerified(Pending))
      BY <1>0 DEF CopyInv, ById
    <3>4. \A t, u \in ById(s.id) : t = u
      BY <1>0 DEF CopyInv, ById
    <3> QED
      BY <1>1, <2>2, <2>9, <3>1, <3>2, <3>3, <3>4
  <2>10. CASE pc'[q] = "decide"
    <3>1. loc'[q].seen = loc[q].seen /\ pc[q] = "readStatus"
      BY <1>0, <2>1, <2>10 DEF CameFrom, ReadStatus, TypeInv, Frame
    <3> QED
      BY <1>0, <1>1, <2>2, <2>10, <3>1
  <2> QED
    BY <2>3, <2>4, <2>5, <2>6, <2>7, <2>8, <2>9, <2>10
<1> QED
  BY <1>0, <1>2, <1>3, <1>4, <1>5, OwnersKept

\* A mark that counts as completed did so before, or is inherited or made now.
Inherited(r, m) == Inherit(r) /\ \E p \in loc[r].found : m = <<user[r], action[r], p>>
Marked(r, m)    == Mark(r) /\ \E s \in loc[r].seen, p \in loc[r].found :
                     m = <<s.user, s.action, p>> /\ m \in earned'
                       /\ (p \in Mandatory => <<s.user, p>> \in ever')

LEMMA Statuses ==
  ASSUME TypeInv, [Next]_vars, NEW m \in Marks, status'[m] > 0
  PROVE  \/ status[m] > 0
         \/ \E r \in Requests : Inherited(r, m) \/ Marked(r, m)
<1>1. CASE UNCHANGED vars \/ Age \/ \E u \in accounts, p \in Optional : Disable(u, p)
  BY <1>1 DEF vars, tables, Age, Disable
<1>2. ASSUME NEW r \in Requests, Start(r) PROVE status' = status
  BY <1>2, StartFrame DEF Started, tables
<1>3. ASSUME NEW r \in Requests, Turn(r), ~ Inherited(r, m), ~ Marked(r, m) PROVE status[m] > 0
  <2>1. CASE Inherit(r)
    <3>1. PICK p \in loc[r].found : status' = [status EXCEPT ![<<user[r], action[r], p>>] = stamp + 1]
      BY <2>1 DEF Inherit
    <3> QED
      BY <1>3, <2>1, <3>1 DEF TypeInv, Inherited
  <2>2. CASE Mark(r)
    <3>1. PICK s \in loc[r].seen, p \in loc[r].found :
             /\ status' = [status EXCEPT ![<<s.user, s.action, p>>] = stamp + 1]
             /\ ever' = ever \cup ({s.user} \X (Mandatory \cap {p}))
             /\ earned' = earned \cup {<<s.user, s.action, p>>}
      BY <2>2 DEF Mark
    <3>2. m # <<s.user, s.action, p>>
      BY <1>3, <2>2, <3>1 DEF Marked
    <3> QED
      BY <3>1, <3>2 DEF TypeInv
  <2>3. ASSUME NEW u, NEW at, Wipe(r, at, u) PROVE status[m] > 0
    <3>1. PICK p \in loc[r].found : status' = [status EXCEPT ![<<u, action[r], p>>] = 0]
      BY <2>3 DEF Wipe
    <3> QED
      BY <3>1 DEF TypeInv
  <2>4. CASE ListRecent(r) \/ FindExisting(r) \/ DropExisting(r) \/ OpenSession(r)
    BY <2>4 DEF ListRecent, FindExisting, Find, DropExisting, Drop, OpenSession, tables
  <2>5. CASE Validate(r) \/ AskForPlugins(r) \/ Pass(r)
    BY <2>5 DEF Validate, ReadNeed, FindSession, Find, LoadSession, NoSession, ReadStatus,
                AskForPlugins, Pass, tables
  <2>6. CASE CreateAccount(r) \/ Reload(r) \/ Resave(r) \/ IssueToken(r)
    BY <2>6 DEF CreateAccount, Reload, Resave, IssueToken, tables
  <2>7. CASE FindOwn(r) \/ DropOwn(r) \/ FindPending(r) \/ DropPending(r)
    BY <2>7 DEF FindOwn, DropOwn, FindPending, DropPending, Find, Drop, tables
  <2>8. CASE ListOwn(r) \/ ListPending(r) \/ Cleared(r)
    BY <2>8 DEF ListOwn, ListPending, List, Cleared, tables
  <2>9. CASE Execute(r) \/ Reread(r) \/ Fail(r)
    BY <2>9 DEF Execute, Reread, Fail, tables
  <2> QED
    BY <1>3, <2>1, <2>2, <2>3, <2>4, <2>5, <2>6, <2>7, <2>8, <2>9
       DEF Turn, CreateSession, ClearVerification, WipeOwn, WipePending
<1> QED
  BY <1>1, <1>2, <1>3, StepOf

LEMMA EverStep == IInv /\ [Next]_vars => EverInv'
<1> SUFFICES ASSUME IInv, [Next]_vars PROVE EverInv'
  OBVIOUS
<1>0. TypeInv /\ SeenInv /\ EverInv /\ RoleInv /\ Lasts
  BY Lasting DEF IInv
<1>1. \A u : EverVerified(u) => EverVerified(u)'
  BY <1>0 DEF EverVerified, Lasts
<1>2. ASSUME NEW u \in Owners, NEW a \in Actions, NEW p \in Mandatory, status'[<<u, a, p>>] > 0
      PROVE  <<u, p>> \in ever'
  <2> DEFINE m == <<u, a, p>>
  <2>0. m \in Marks
    BY DEF Marks, Plugins
  <2>1. CASE status[m] > 0
    BY <1>0, <2>1 DEF EverInv, Lasts
  <2>2. ASSUME NEW r \in Requests, Inherited(r, m) PROVE <<u, p>> \in ever'
    <3>1. pc[r] = "inherit" /\ u = user[r] /\ p \in loc[r].found
      BY <2>2 DEF Inherited, Inherit
    <3> QED
      BY <1>0, <3>1 DEF EverInv, Lasts
  <2>3. ASSUME NEW r \in Requests, Marked(r, m) PROVE <<u, p>> \in ever'
    BY <2>3 DEF Marked
  <2> HIDE DEF m
  <2>4. status[m] > 0 \/ \E r \in Requests : Inherited(r, m) \/ Marked(r, m)
    BY <1>0, <1>2, <2>0, Statuses DEF m
  <2> QED
    BY <2>1, <2>2, <2>3, <2>4
<1> DEFINE Knows(q) ==
       /\ pc[q] = "inherit" => \A p \in loc[q].found \cap Mandatory : <<user[q], p>> \in ever
       /\ pc[q] = "decide" => \A s \in loc[q].seen, p \in loc[q].found \cap Mandatory :
                                <<s.user, p>> \in ever
       /\ pc[q] \in Validating => Mandatory \cap installed \subseteq loc[q].need
       /\ pc[q] \in {"account", "reload", "resave"} => EverVerified(Pending)
<1>3. ASSUME NEW q \in Requests PROVE Knows(q)'
  <2>0. Knows(q)
    BY <1>0 DEF EverInv
  <2>1. CASE pc'[q] = "idle"
    BY <2>1 DEF Validating
  <2>2. CASE Start(q)
    <3>1. pc'[q] \in {"listRecent", "execute"}
      BY <1>0, <2>2, StartFrame DEF Started
    <3> QED
      BY <3>1 DEF Validating
  <2>3. CASE Stays(q)
    BY <1>0, <1>1, <2>0, <2>3 DEF Stays, Lasts
  <2>4. CASE Turn(q) /\ Flows(q) /\ pc'[q] # "idle"
    <3>0. CameFrom(q) /\ loc[q] \in Frame /\ user'[q] = user[q]
      BY <1>0, <2>4, LeadsTo DEF TypeInv, Flows
    <3>1. CASE pc'[q] = "inherit"
      <4>1. loc'[q].found = RecentlyCompleted(user[q], action[q])
        BY <1>0, <3>0, <3>1 DEF CameFrom, ListRecent, TypeInv, Frame
      <4>2. \A p \in loc'[q].found : status[<<user[q], action[q], p>>] > 0
        BY <4>1 DEF RecentlyCompleted, Completed
      <4>3. \A p \in loc'[q].found \cap Mandatory : <<user[q], p>> \in ever'
        BY <1>0, <4>2 DEF EverInv, TypeInv, Lasts
      <4> QED
        BY <3>0, <3>1, <4>3 DEF Validating
    <3>2. CASE pc'[q] = "findSession"
      <4>1. loc'[q].need = RequiredPlugins(user[q], action[q])
        BY <1>0, <3>0, <3>2 DEF CameFrom, ReadNeed, TypeInv, Frame
      <4> QED
        BY <1>0, <3>2, <4>1 DEF RequiredPlugins, Lasts, Validating
    <3>3. CASE pc'[q] \in {"loadSession", "readStatus"}
      <4>1. loc'[q].need = loc[q].need /\ pc[q] \in Validating
        BY <1>0, <3>0, <3>3 DEF CameFrom, FindSession, Find, LoadSession, TypeInv, Frame, Validating
      <4> QED
        BY <1>0, <2>0, <3>3, <4>1 DEF Lasts
    <3>4. CASE pc'[q] = "decide"
      <4>1. PICK t \in loc[q].seen :
              /\ loc' = [loc EXCEPT ![q].found = Completed(t.user, t.action)]
              /\ pc[q] = "readStatus"
        BY <3>0, <3>4 DEF CameFrom, ReadStatus
      <4>2. /\ loc'[q].need = loc[q].need /\ pc[q] \in Validating
            /\ loc'[q].seen = loc[q].seen
            /\ loc'[q].found = Completed(t.user, t.action)
        BY <1>0, <3>0, <4>1 DEF TypeInv, Frame, Validating
      <4>3. \A s \in loc[q].seen : s = t
        BY <1>0, <4>1 DEF SeenInv
      <4>4. \A p \in loc'[q].found \cap Mandatory : <<t.user, p>> \in ever'
        BY <1>0, <4>2, <3>0 DEF EverInv, Lasts, Completed, Frame, Row
      <4> QED
        BY <1>0, <2>0, <3>4, <4>2, <4>3, <4>4 DEF Lasts
    <3>5. CASE pc'[q] = "account"
      <4>1. pc[q] = "decide" /\ Verified(q) /\ action[q] # "login"
        BY <1>0, <3>0, <3>5 DEF CameFrom, Pass, Goto, TypeInv
      <4>2. user[q] = Pending
        BY <1>0, <4>1 DEF RoleInv, Executing
      <4> QED
        BY <1>0, <1>1, <3>5, <4>1, <4>2, PassMeansVerified DEF Validating
    <3>6. CASE pc'[q] \in {"reload", "resave"}
      <4>1. pc[q] \in {"account", "reload"}
        BY <3>0, <3>6 DEF CameFrom, CreateAccount, Reload
      <4> QED
        BY <1>1, <2>0, <3>6, <4>1 DEF Validating
    <3> QED
      BY <3>1, <3>2, <3>3, <3>4, <3>5, <3>6 DEF Validating
  <2> QED
    BY <1>0, <2>1, <2>2, <2>3, <2>4, OwnersKept
<1> QED
  BY <1>2, <1>3 DEF EverInv

LEMMA DisturbStep == IInv /\ [Next]_vars => DisturbInv'
<1> SUFFICES ASSUME IInv, [Next]_vars,
                    NEW r \in Requests, Undisturbed(r)',
                    NEW q \in Requests \ {r}, pc'[q] # "idle"
             PROVE  user'[r] # Pending /\ user'[q] # user'[r] /\ loc'[q].account # user'[r]
  BY DEF DisturbInv
<1>0. TypeInv /\ DisturbInv /\ RoleInv
  BY DEF IInv
<1>1. ASSUME NEW p \in Requests, pc'[p] # "idle", ~ Start(p)
      PROVE  /\ pc[p] # "idle" /\ user'[p] = user[p] /\ loc'[p].account = loc[p].account
             /\ loc[p].disturbed => loc'[p].disturbed
  BY <1>0, <1>1, OwnersKept DEF Stays, Flows
<1>2. CASE Start(r)
  <2>1. Started(r)
    BY <1>0, <1>2, StartFrame
  <2>2. Stays(q)
    BY <2>1 DEF Started
  <2> QED
    BY <2>1, <2>2 DEF Started, Stays, Undisturbed
<1>3. CASE Start(q)
  <2>1. Started(q)
    BY <1>0, <1>3, StartFrame
  <2>2. Stays(r)
    BY <2>1 DEF Started
  <2>3. user[r] # Pending /\ user[r] # user'[q] /\ user'[r] = user[r] /\ pc[r] # "idle"
    BY <2>1, <2>2 DEF Started, Stays, Undisturbed
  <2>4. user[r] \in accounts
    BY <1>0, <2>3 DEF RoleInv
  <2>5. loc'[q].account # user[r]
    BY <2>1, <2>3, <2>4 DEF Started
  <2> QED
    BY <2>3, <2>5
<1>4. CASE ~ Start(r) /\ ~ Start(q)
  BY <1>0, <1>1, <1>4 DEF DisturbInv, Undisturbed
<1> QED
  BY <1>2, <1>3, <1>4

\* The sessions a step removes: those of a user the request works for, of
\* "pending", of the id it owns, or grown old.
LEMMA Removing ==
  ASSUME IInv, [Next]_vars, NEW s \in sessions, s \notin sessions'
  PROVE  \/ \E q \in Requests :
              /\ pc[q] # "idle"
              /\ \/ /\ pc[q] \in {"dropExisting", "dropOwn", "dropPending"}
                    /\ \E t \in loc[q].seen :
                         /\ s.id = t.id
                         /\ t.user = user[q] \/ t.user = loc[q].account \/ t.user = Pending
                 \/ pc[q] = "resave" /\ s.id = loc[q].own
         \/ Age /\ s.id = horizon + 1
<1>0. TypeInv /\ SeenInv /\ pc \in [Requests -> Labels]
  BY DEF IInv, TypeInv
<1>1. CASE UNCHANGED vars \/ Age \/ \E u \in accounts, p \in Optional : Disable(u, p)
  BY <1>1 DEF vars, tables, Age, Disable
<1>2. ASSUME NEW r \in Requests, Start(r) PROVE sessions' = sessions
  BY <1>2, StartFrame, <1>0 DEF Started, tables
<1>3. ASSUME NEW r \in Requests, Turn(r),
             ~ DropExisting(r), ~ DropOwn(r), ~ DropPending(r), ~ Resave(r)
      PROVE  s \in sessions'
  <2>1. CASE ListRecent(r) \/ FindExisting(r) \/ Inherit(r) \/ OpenSession(r)
    BY <2>1 DEF ListRecent, FindExisting, Find, Inherit, OpenSession, tables
  <2>2. CASE Validate(r) \/ AskForPlugins(r) \/ Pass(r)
    BY <2>2 DEF Validate, ReadNeed, FindSession, Find, LoadSession, NoSession, ReadStatus,
                AskForPlugins, Pass, tables
  <2>3. CASE CreateAccount(r) \/ Reload(r) \/ IssueToken(r)
    BY <2>3 DEF CreateAccount, Reload, IssueToken, tables
  <2>4. CASE FindOwn(r) \/ FindPending(r) \/ ListOwn(r) \/ WipeOwn(r) \/ ListPending(r) \/ WipePending(r)
    BY <2>4 DEF FindOwn, FindPending, Find, ListOwn, ListPending, List, WipeOwn, WipePending, Wipe, tables
  <2>5. CASE Cleared(r) \/ Execute(r) \/ Reread(r) \/ Mark(r) \/ Fail(r)
    BY <2>5 DEF Cleared, Execute, Reread, Mark, Fail, tables
  <2> QED
    BY <1>3, <2>1, <2>2, <2>3, <2>4, <2>5 DEF Turn, CreateSession, ClearVerification
<1>4. ASSUME NEW r \in Requests, DropExisting(r) \/ DropOwn(r) \/ DropPending(r)
      PROVE  /\ pc[r] # "idle" /\ pc[r] \in {"dropExisting", "dropOwn", "dropPending"}
             /\ \E t \in loc[r].seen :
                  /\ s.id = t.id
                  /\ t.user = user[r] \/ t.user = loc[r].account \/ t.user = Pending
  <2>1. pc[r] \in {"dropExisting", "dropOwn", "dropPending"} /\ \E t \in loc[r].seen : s.id = t.id
    BY <1>4 DEF DropExisting, DropOwn, DropPending, Drop
  <2> QED
    BY <1>0, <2>1 DEF SeenInv
<1>5. ASSUME NEW r \in Requests, Resave(r)
      PROVE  pc[r] # "idle" /\ pc[r] = "resave" /\ s.id = loc[r].own
  BY <1>5 DEF Resave
<1> QED
  BY <1>1, <1>2, <1>3, <1>4, <1>5, StepOf, <1>0

LEMMA OwnStep == IInv /\ [Next]_vars => OwnInv'
<1> DEFINE own(r)    == [id |-> loc[r].own, user |-> user[r], action |-> action[r]]
           HasOwn(r) == own(r) \in sessions /\ \A t \in sessions : t.user = user[r] => t.id <= loc[r].own
           Held      == {"readNeed", "findSession", "loadSession"}
<1> SUFFICES ASSUME IInv, [Next]_vars, NEW r \in Requests, Undisturbed(r)'
             PROVE  /\ pc'[r] \in Held => HasOwn(r)'
                    /\ pc'[r] = "loadSession" => \A s \in loc'[r].seen : s.id = loc'[r].own
                    /\ pc'[r] \in {"readStatus", "decide"} =>
                         \A s \in loc'[r].seen : s.user = user'[r] /\ s.action = action'[r]
  BY DEF OwnInv
<1>0. TypeInv /\ CopyInv /\ OwnerInv /\ RoleInv /\ DisturbInv /\ OwnInv /\ SeenInv
  BY DEF IInv
<1>1. pc'[r] # "idle"
  BY DEF Undisturbed
<1>2. CASE Start(r)
  <2>1. pc'[r] \in {"listRecent", "execute"}
    BY <1>0, <1>2, StartFrame DEF Started
  <2> QED
    BY <2>1
<1>3. ASSUME pc[r] \in Held, Undisturbed(r), loc'[r].own = loc[r].own,
             user'[r] = user[r], action'[r] = action[r]
      PROVE  HasOwn(r)'
  <2>1. HasOwn(r) /\ pc[r] \in Owning /\ pc[r] # "idle" /\ pc[r] \notin Executing
    BY <1>0, <1>3 DEF OwnInv, Owning, Executing
  <2>2. own(r) \in Row /\ IsCopy(own(r)) /\ own(r).id = loc[r].own /\ own(r).user = user[r]
    BY <1>0, <2>1 DEF TypeInv, IsCopy
  <2>3. own(r)' = own(r)
    BY <1>3
  <2>4. \A s \in Row : IsCopy(s) /\ s.id = loc[r].own => s.user = user[r]
    BY <1>0, <2>1 DEF OwnerInv
  <2>5. \A q \in Requests \ {r} : pc[q] # "idle" =>
          user[r] # Pending /\ user[q] # user[r] /\ loc[q].account # user[r]
    BY <1>0, <1>3 DEF DisturbInv
  <2>6. \A q \in Requests : \A t \in loc[q].seen : t \in Row /\ IsCopy(t)
    BY <1>0 DEF TypeInv, Frame, IsCopy
  <2> HIDE DEF own
  <2>7. own(r) \in sessions'
    <3>1. SUFFICES ASSUME own(r) \notin sessions' PROVE FALSE
      OBVIOUS
    <3>2. CASE Age /\ own(r).id = horizon + 1
      BY <2>1, <2>2, <3>2 DEF Age, Active
    <3>3. ASSUME NEW q \in Requests, pc[q] \in {"dropExisting", "dropOwn", "dropPending"}, pc[q] # "idle",
                 NEW t \in loc[q].seen, own(r).id = t.id,
                 t.user = user[q] \/ t.user = loc[q].account \/ t.user = Pending
          PROVE  FALSE
      <4>1. q # r
        BY <1>3, <3>3
      <4>2. t.user = user[r]
        BY <2>2, <2>4, <2>6, <3>3
      <4> QED
        BY <2>5, <3>3, <4>1, <4>2
    <3>4. ASSUME NEW q \in Requests, pc[q] = "resave", own(r).id = loc[q].own PROVE FALSE
      BY <1>0, <1>3, <2>1, <2>2, <3>4 DEF OwnerInv, Owning
    <3> QED
      BY <2>1, <3>1, <3>2, <3>3, <3>4, Removing
  <2>8. ASSUME NEW t \in sessions', t.user = user[r] PROVE t.id <= loc[r].own
    <3>1. t \in sessions => t.id <= loc[r].own
      BY <2>1, <2>8
    <3>2. ASSUME NEW q \in Requests, OpenSession(q) PROVE t \in sessions
      <4>1. /\ pc[q] = "open"
            /\ sessions' = sessions \cup {[id |-> stamp + 1, user |-> user[q], action |-> action[q]]}
        BY <1>0, <3>2, Opening
      <4>2. user[q] # user[r]
        BY <1>3, <2>5, <4>1
      <4> QED
        BY <2>8, <4>1, <4>2
    <3>3. ASSUME NEW q \in Requests, Resave(q) PROVE t \in sessions
      <4>1. /\ pc[q] = "resave"
            /\ sessions' = {s \in sessions : s.id # loc[q].own}
                             \cup {[s EXCEPT !.user = loc[q].account] : s \in loc[q].seen}
        BY <1>0, <3>3, Resaving
      <4>2. loc[q].account # user[r]
        BY <1>3, <2>5, <4>1
      <4>3. \A s \in loc[q].seen : [s EXCEPT !.user = loc[q].account].user = loc[q].account
        BY <2>6 DEF Row
      <4> QED
        BY <2>8, <4>1, <4>2, <4>3
    <3> QED
      BY <1>0, <3>1, <3>2, <3>3, Copying DEF Copies
  <2> QED
    BY <1>3, <2>3, <2>7, <2>8
<1>4. CASE Stays(r)
  <2>1. Undisturbed(r)
    BY <1>4 DEF Undisturbed, Stays
  <2>2. pc'[r] \in Held => HasOwn(r)'
    BY <1>3, <1>4, <2>1 DEF Stays
  <2> QED
    BY <1>0, <1>4, <2>1, <2>2 DEF OwnInv, Stays
<1>5. CASE Turn(r) /\ Flows(r)
  <2>0. CameFrom(r) /\ loc[r] \in Frame /\ user'[r] = user[r] /\ action'[r] = action[r]
        /\ Undisturbed(r) /\ loc \in [Requests -> Frame]
    BY <1>0, <1>1, <1>5, LeadsTo DEF TypeInv, Flows, Undisturbed
  <2> HIDE DEF HasOwn
  <2>1. CASE pc'[r] = "readNeed"
    <3>1. /\ sessions' = sessions \cup {[id |-> stamp + 1, user |-> user[r], action |-> action[r]]}
          /\ loc'[r].own = stamp + 1
      BY <1>0, <2>0, <2>1, Opening DEF CameFrom
    <3>2. \A t \in sessions : t.id <= stamp + 1
      BY <1>0 DEF CopyInv, TypeInv, Row, IsCopy
    <3>3. own(r)' \in sessions'
      BY <2>0, <3>1
    <3>4. \A t \in sessions' : t.user = user'[r] => t.id <= loc'[r].own
      BY <1>0, <2>0, <3>1, <3>2 DEF TypeInv
    <3> QED
      BY <2>1, <3>3, <3>4 DEF HasOwn
  <2>2. CASE pc'[r] = "findSession"
    <3>1. pc[r] \in Held /\ loc'[r].own = loc[r].own
      BY <2>0, <2>2 DEF CameFrom, ReadNeed, Frame
    <3> QED
      BY <1>3, <2>0, <2>2, <3>1
  <2>3. CASE pc'[r] = "loadSession"
    <3>1. pc[r] = "findSession" /\ loc'[r].own = loc[r].own /\ loc'[r].seen = ActiveSession(user[r])
      BY <2>0, <2>3 DEF CameFrom, FindSession, Find, Frame
    <3>2. HasOwn(r)
      BY <1>0, <2>0, <3>1 DEF HasOwn, OwnInv
    <3>3. \A s \in ActiveSession(user[r]) : s.id = loc[r].own
      <4>1. own(r) \in sessions /\ own(r).user = user[r] /\ own(r).id = loc[r].own
            /\ \A t \in sessions : t.user = user[r] => t.id <= loc[r].own
        BY <3>2 DEF HasOwn
      <4>2. loc[r].own \in Nat /\ \A s \in sessions : s.id \in Nat
        BY <1>0, <2>0 DEF TypeInv, Row, Frame
      <4> HIDE DEF own
      <4>3. ASSUME NEW s \in ActiveSession(user[r])
            PROVE  s \in sessions /\ s.id <= loc[r].own /\ loc[r].own <= s.id
        BY <4>1 DEF ActiveSession
      <4> QED
        BY <4>2, <4>3
    <3> QED
      BY <1>3, <2>0, <2>3, <3>1, <3>3
  <2>4. CASE pc'[r] = "readStatus"
    <3>1. PICK s \in loc[r].seen : loc'[r].seen = ById(s.id) /\ pc[r] = "loadSession"
      BY <2>0, <2>4 DEF CameFrom, LoadSession, Frame
    <3>2. s.id = loc[r].own
      BY <1>0, <2>0, <3>1 DEF OwnInv
    <3>3. \A t \in ById(s.id) : t.user = user[r] /\ t.action = action[r]
      BY <1>0, <3>1, <3>2 DEF OwnerInv, Owning, ById, IsCopy, TypeInv
    <3> QED
      BY <2>0, <2>4, <3>1, <3>3
  <2>5. CASE pc'[r] = "decide"
    <3>1. pc[r] = "readStatus" /\ loc'[r].seen = loc[r].seen
      BY <2>0, <2>5 DEF CameFrom, ReadStatus, Frame
    <3> QED
      BY <1>0, <2>0, <2>5, <3>1 DEF OwnInv
  <2> QED
    BY <2>1, <2>2, <2>3, <2>4, <2>5
<1> QED
  BY <1>0, <1>1, <1>2, <1>4, <1>5, OwnersKept

-----------------------------------------------------------------------------
(* Types.                                                                  *)

\* The types of a request's state.
RequestOK(r) ==
  pc[r] \in Labels /\ user[r] \in Owners /\ action[r] \in Actions /\ loc[r] \in Frame

LEMMA InitInv == Init => IInv
<1> SUFFICES ASSUME Init PROVE IInv
  OBVIOUS
<1> USE VerificationAssumption DEF Init
<1>1. TypeInv
  BY DEF TypeInv, Owners, Actions, Labels, Plugins, NoLocal, Frame
<1>2. CopyInv /\ OwnerInv /\ RoleInv /\ SeenInv
  BY DEF CopyInv, OwnerInv, RoleInv, SeenInv, IsCopy, Owning, NoLocal
<1>3. EverInv /\ DisturbInv /\ OwnInv
  BY DEF EverInv, DisturbInv, OwnInv, Undisturbed, Validating, Marks, Plugins
<1>4. SpentInv
  BY DEF SpentInv, Undisturbed, Validating, Marks, Owners, Actions
<1> QED
  BY <1>1, <1>2, <1>3, <1>4 DEF IInv

LEMMA RequestTyped ==
  ASSUME TypeInv, NEW r \in Requests, Turn(r)
  PROVE  RequestOK(r)'
<1>0. /\ pc \in [Requests -> Labels] /\ loc \in [Requests -> Frame] /\ stamp + 1 \in Nat
      /\ pc[r] \in Labels /\ user[r] \in Owners /\ action[r] \in Actions
  BY DEF TypeInv
<1>1. /\ RecentlyCompleted(user[r], action[r]) \in SUBSET Plugins
      /\ RequiredPlugins(user[r], action[r]) \in SUBSET Plugins
      /\ ById(loc[r].own) \in SUBSET Row
      /\ \A s \in loc[r].seen : ById(s.id) \in SUBSET Row
      /\ \A u \in Owners : ActiveSession(u) \in SUBSET Row
      /\ \A u, a : Completed(u, a) \in SUBSET Plugins
  BY DEF TypeInv, RecentlyCompleted, Completed, ActiveSession, ById, RequiredPlugins
<1>2. /\ \A x \in loc[r].found : loc[r].found \ {x} \in SUBSET Plugins
      /\ Pending \in Owners /\ loc[r].account \in Owners
  BY <1>0 DEF Frame, Owners
<1>3. CASE Finish(r)
  BY <1>3, <1>2 DEF TypeInv, Finish, Goto, RequestOK, NoLocal, Frame, Labels, Actions
<1> DEFINE Typed == pc'[r] \in Labels /\ loc'[r] \in Frame
<1>4. Typed /\ UNCHANGED <<user, action>> => RequestOK(r)'
  BY <1>0 DEF RequestOK
<1>5. CASE ListRecent(r) \/ Inherit(r) \/ OpenSession(r)
  <2>1. Typed
    BY <1>0, <1>1, <1>5 DEF ListRecent, Inherit, OpenSession, Goto, Labels, Frame
  <2> QED
    BY <1>4, <1>5, <2>1 DEF ListRecent, Inherit, OpenSession
<1>6. ASSUME NEW from, NEW u \in Owners, NEW some \in Labels, NEW none \in Labels,
             Find(r, from, u, some, none)
      PROVE  RequestOK(r)'
  <2>1. Typed
    BY <1>0, <1>1, <1>6 DEF Find, Goto, Frame
  <2> QED
    BY <1>4, <1>6, <2>1 DEF Find
<1>7. ASSUME NEW from, NEW to \in Labels, Drop(r, from, to)
      PROVE  RequestOK(r)'
  <2>1. Typed
    BY <1>0, <1>7 DEF Drop, Goto, Frame
  <2> QED
    BY <1>4, <1>7, <2>1 DEF Drop
<1>8. CASE FindExisting(r) \/ FindSession(r) \/ FindOwn(r) \/ FindPending(r)
           \/ DropExisting(r) \/ DropOwn(r) \/ DropPending(r)
  <2>1. {"dropExisting", "open", "loadSession", "dropOwn", "findPending", "dropPending", "listOwn"}
          \subseteq Labels
    BY DEF Labels
  <2> QED
    BY <1>0, <1>2, <1>6, <1>7, <1>8, <2>1
       DEF FindExisting, FindSession, FindOwn, FindPending, DropExisting, DropOwn, DropPending
<1>9. CASE ReadNeed(r)
  <2>1. Typed
    BY <1>0, <1>1, <1>9 DEF ReadNeed, Goto, Labels, Frame
  <2> QED
    BY <1>4, <1>9, <2>1 DEF ReadNeed
<1>10. CASE LoadSession(r) \/ ReadStatus(r)
  <2>1. Typed
    BY <1>0, <1>1, <1>10 DEF LoadSession, ReadStatus, Goto, Labels, Frame
  <2> QED
    BY <1>4, <1>10, <2>1 DEF LoadSession, ReadStatus
<1>11. CASE Pass(r)
  <2>1. Typed
    BY <1>0, <1>11 DEF Pass, Goto, Labels, Frame
  <2> QED
    BY <1>4, <1>11, <2>1 DEF Pass
<1>12. CASE CreateAccount(r) \/ Reload(r) \/ Resave(r)
  <2>1. Typed
    BY <1>0, <1>1, <1>12 DEF CreateAccount, Reload, Resave, Goto, Labels, Frame
  <2> QED
    BY <1>4, <1>12, <2>1 DEF CreateAccount, Reload, Resave
<1>13. ASSUME NEW from, NEW u, NEW to \in Labels, List(r, from, u, to)
       PROVE  RequestOK(r)'
  <2>1. Typed
    BY <1>0, <1>1, <1>13 DEF List, Goto, Frame
  <2> QED
    BY <1>4, <1>13, <2>1 DEF List
<1>14. ASSUME NEW u, NEW at, Wipe(r, at, u)
       PROVE  RequestOK(r)'
  <2>1. PICK p \in loc[r].found : loc' = [loc EXCEPT ![r].found = @ \ {p}]
    BY <1>14 DEF Wipe
  <2>2. Typed
    BY <1>0, <1>2, <1>14, <2>1 DEF Wipe, Frame
  <2> QED
    BY <1>4, <1>14, <2>2 DEF Wipe
<1>15. CASE ListOwn(r) \/ WipeOwn(r) \/ ListPending(r) \/ WipePending(r)
  <2>1. "wipeOwn" \in Labels /\ "wipePending" \in Labels
    BY DEF Labels
  <2> QED
    BY <1>13, <1>14, <1>15, <2>1 DEF ListOwn, WipeOwn, ListPending, WipePending
<1>16. CASE NoSession(r) \/ AskForPlugins(r) \/ Mark(r)
  BY <1>3, <1>16 DEF NoSession, AskForPlugins, Mark
<1>17. CASE IssueToken(r) \/ Cleared(r) \/ Fail(r)
  <2>1. Finish(r) \/ (Typed /\ UNCHANGED <<user, action>>)
    BY <1>0, <1>17 DEF IssueToken, Cleared, Fail, Goto, Labels, Frame
  <2> QED
    BY <1>3, <1>4, <2>1
<1>18. CASE Execute(r) \/ Reread(r)
  <2>1. Finish(r) \/ (Typed /\ UNCHANGED <<user, action>>)
    BY <1>0, <1>1, <1>18 DEF Execute, Reread, Goto, Labels, Executing, Frame
  <2> QED
    BY <1>3, <1>4, <2>1
<1> QED
  BY <1>5, <1>8, <1>9, <1>10, <1>11, <1>12, <1>15, <1>16, <1>17, <1>18
     DEF Turn, CreateSession, Validate, ClearVerification

\* The requests keep their state in functions.
Shaped ==
  /\ pc' = [q \in Requests |-> pc'[q]] /\ user' = [q \in Requests |-> user'[q]]
  /\ action' = [q \in Requests |-> action'[q]] /\ loc' = [q \in Requests |-> loc'[q]]

LEMMA ShapeKept == TypeInv /\ [Next]_vars => Shaped
<1> SUFFICES ASSUME TypeInv, [Next]_vars PROVE Shaped
  OBVIOUS
<1>0. UNCHANGED request => Shaped
  BY DEF TypeInv, request, Shaped
<1>1. CASE UNCHANGED vars \/ Age \/ \E u \in accounts, p \in Optional : Disable(u, p)
  BY <1>0, <1>1 DEF vars, Age, Disable
<1>2. ASSUME NEW r \in Requests, NEW u, NEW a, NEW label, NEW local, Begin(r, u, a, label, local)
      PROVE  Shaped
  BY <1>2 DEF TypeInv, Begin, Goto, Shaped
<1>3. ASSUME NEW r \in Requests, Finish(r) PROVE Shaped
  BY <1>3 DEF TypeInv, Finish, Goto, Shaped
<1>4. ASSUME NEW r \in Requests, Turn(r) PROVE Shaped
  <2>1. CASE CreateSession(r)
    BY <2>1 DEF TypeInv, CreateSession, ListRecent, Inherit, FindExisting, Find, DropExisting,
                Drop, OpenSession, Goto, Shaped
  <2>2. CASE NoSession(r) \/ AskForPlugins(r) \/ Mark(r)
    BY <1>3, <2>2 DEF NoSession, AskForPlugins, Mark
  <2>3. CASE ReadNeed(r) \/ FindSession(r) \/ LoadSession(r) \/ ReadStatus(r) \/ Pass(r)
    BY <2>3 DEF TypeInv, ReadNeed, FindSession, Find, LoadSession, ReadStatus, Pass, Goto, Shaped
  <2>4. CASE CreateAccount(r) \/ Reload(r) \/ Resave(r) \/ Execute(r)
    BY <2>4 DEF TypeInv, CreateAccount, Reload, Resave, Execute, Goto, Shaped
  <2>5. CASE IssueToken(r) \/ Reread(r) \/ Cleared(r) \/ Fail(r)
    BY <1>3, <2>5 DEF TypeInv, IssueToken, Reread, Cleared, Fail, Goto, Shaped
  <2>6. CASE FindOwn(r) \/ DropOwn(r) \/ FindPending(r) \/ DropPending(r)
    BY <2>6 DEF TypeInv, FindOwn, DropOwn, FindPending, DropPending, Find, Drop, Goto, Shaped
  <2>7. CASE ListOwn(r) \/ WipeOwn(r) \/ ListPending(r) \/ WipePending(r)
    BY <2>7 DEF TypeInv, ListOwn, WipeOwn, ListPending, WipePending, List, Wipe, Goto, Shaped
  <2> QED
    BY <1>4, <2>1, <2>2, <2>3, <2>4, <2>5, <2>6, <2>7 DEF Turn, Validate, ClearVerification
<1> QED
  BY <1>1, <1>2, <1>4, StepOf DEF Start, BeginLogin, BeginRegister, BeginExecute

LEMMA TypeStep == IInv /\ [Next]_vars => TypeInv'
<1> SUFFICES ASSUME IInv, [Next]_vars PROVE TypeInv'
  OBVIOUS
<1>0. TypeInv /\ RoleInv /\ SeenInv /\ Lasts
  BY Lasting DEF IInv
\* Requests.
<1>1. ASSUME NEW q \in Requests PROVE RequestOK(q)'
  <2>0. RequestOK(q)
    BY <1>0 DEF TypeInv, RequestOK
  <2>1. CASE UNCHANGED request
    BY <2>0, <2>1 DEF RequestOK, request
  <2>2. ASSUME NEW r \in Requests, Turn(r) PROVE RequestOK(q)'
    <3>1. CASE q = r
      BY <1>0, <2>2, <3>1, RequestTyped
    <3>2. CASE q # r
      BY <1>0, <2>0, <2>2, <3>2, TurnFrame DEF Stays, RequestOK
    <3> QED
      BY <3>1, <3>2
  <2>3. ASSUME NEW r \in Requests, Start(r) PROVE RequestOK(q)'
    <3>1. CASE q = r
      BY <1>0, <2>3, <3>1, StartFrame DEF Started, RequestOK, Labels, Executing
    <3>2. CASE q # r
      BY <1>0, <2>0, <2>3, <3>2, StartFrame DEF Started, Stays, RequestOK
    <3> QED
      BY <3>1, <3>2
  <2> QED
    BY <2>1, <2>2, <2>3, StepOf DEF vars, Age, Disable
<1>2. /\ pc' \in [Requests -> Labels] /\ user' \in [Requests -> Owners]
      /\ action' \in [Requests -> Actions] /\ loc' \in [Requests -> Frame]
  BY <1>0, <1>1, ShapeKept DEF Shaped, RequestOK
\* Tables.
<1>3. sessions' \subseteq Row
  <2>1. CASE Copies
    BY <1>0, <2>1 DEF Copies, TypeInv
  <2>2. ASSUME NEW r \in Requests, OpenSession(r) PROVE sessions' \subseteq Row
    BY <1>0, <2>2, Opening DEF TypeInv, Row
  <2>3. ASSUME NEW r \in Requests, Resave(r) PROVE sessions' \subseteq Row
    <3>1. loc[r].account \in Owners /\ loc[r].seen \subseteq Row
      BY <1>0 DEF TypeInv, Frame
    <3>2. \A s \in loc[r].seen : [s EXCEPT !.user = loc[r].account] \in Row
      BY <3>1 DEF Row
    <3> QED
      BY <1>0, <2>3, <3>2, Resaving DEF TypeInv
  <2> QED
    BY <1>0, <2>1, <2>2, <2>3, Copying
<1>4. accounts' \subseteq Users \cup Newcomers /\ status' \in [Marks -> Nat] /\ horizon' \in Nat
  <2>1. CASE UNCHANGED <<accounts, status, horizon>>
    BY <1>0, <2>1 DEF TypeInv
  <2>2. CASE Age
    BY <1>0, <2>2 DEF TypeInv, Age
  <2>3. ASSUME NEW r \in Requests, CreateAccount(r) PROVE accounts' \subseteq Users \cup Newcomers
                                                         /\ UNCHANGED <<status, horizon>>
    <3>1. pc[r] = "account"
      BY <2>3 DEF CreateAccount
    <3>2. loc[r].account \in Newcomers
      BY <1>0, <3>1 DEF RoleInv, Executing
    <3> QED
      BY <1>0, <2>3, <3>2 DEF TypeInv, CreateAccount, clock
  <2>4. ASSUME NEW r \in Requests, Inherit(r) PROVE status' \in [Marks -> Nat] /\ UNCHANGED <<accounts, horizon>>
    <3>1. loc[r].found \subseteq Plugins
      BY <1>0 DEF TypeInv, Frame
    <3>2. PICK p \in loc[r].found : status' = [status EXCEPT ![<<user[r], action[r], p>>] = stamp + 1]
      BY <2>4 DEF Inherit
    <3> QED
      BY <1>0, <2>4, <3>1, <3>2 DEF TypeInv, Inherit, Marks
  <2>5. ASSUME NEW r \in Requests, Mark(r) PROVE status' \in [Marks -> Nat] /\ UNCHANGED <<accounts, horizon>>
    <3>1. loc[r].found \subseteq Plugins /\ loc[r].seen \subseteq Row
      BY <1>0 DEF TypeInv, Frame
    <3>2. PICK s \in loc[r].seen, p \in loc[r].found :
            status' = [status EXCEPT ![<<s.user, s.action, p>>] = stamp + 1]
      BY <2>5 DEF Mark
    <3> QED
      BY <1>0, <2>5, <3>1, <3>2 DEF TypeInv, Mark, Marks, Row
  <2>6. ASSUME NEW r \in Requests, NEW at, NEW u, Wipe(r, at, u)
        PROVE  status' \in [Marks -> Nat] /\ UNCHANGED <<accounts, horizon>>
    <3>1. PICK p \in loc[r].found : status' = [status EXCEPT ![<<u, action[r], p>>] = 0]
      BY <2>6 DEF Wipe
    <3> QED
      BY <1>0, <2>6, <3>1 DEF TypeInv, Wipe, clock
  <2>7. ASSUME NEW r \in Requests, Turn(r), ~ CreateAccount(r), ~ Inherit(r), ~ Mark(r),
               ~ WipeOwn(r), ~ WipePending(r)
        PROVE  UNCHANGED <<accounts, status, horizon>>
    <3>1. CASE CreateSession(r)
      BY <2>7, <3>1 DEF CreateSession, ListRecent, FindExisting, Find, DropExisting,
                  Drop, OpenSession, tables, clock
    <3>2. CASE Validate(r) \/ AskForPlugins(r) \/ Pass(r)
      BY <3>2 DEF Validate, ReadNeed, FindSession, Find, LoadSession, NoSession, ReadStatus,
                  AskForPlugins, Pass, tables, clock
    <3>3. CASE Reload(r) \/ Resave(r) \/ IssueToken(r)
      BY <3>3 DEF Reload, Resave, IssueToken, tables, clock
    <3>4. CASE ClearVerification(r)
      BY <2>7, <3>4 DEF ClearVerification, FindOwn, DropOwn, FindPending, DropPending, Find, Drop,
                  ListOwn, ListPending, List, Cleared, tables, clock
    <3>5. CASE Execute(r) \/ Reread(r) \/ Fail(r)
      BY <3>5 DEF Execute, Reread, Fail, tables, clock
    <3> QED
      BY <2>7, <3>1, <3>2, <3>3, <3>4, <3>5 DEF Turn
  <2>8. ASSUME NEW r \in Requests, Start(r) PROVE UNCHANGED <<accounts, status, horizon>>
    BY <1>0, <2>8, StartFrame DEF Started, tables, clock
  <2> QED
    BY <1>0, <2>1, <2>2, <2>3, <2>4, <2>5, <2>6, <2>7, <2>8, StepOf
       DEF TypeInv, WipeOwn, WipePending, vars, tables, clock, Disable
<1> QED
  BY <1>0, <1>2, <1>3, <1>4 DEF TypeInv, Lasts

-----------------------------------------------------------------------------
(* What is spent.                                                          *)

\* Who is not disturbed, and does not execute, logs in if it is not alone.
LEMMA Separate ==
  ASSUME IInv, NEW r \in Requests, Undisturbed(r), pc[r] \notin Executing,
         NEW q \in Requests \ {r}, pc[q] # "idle"
  PROVE  /\ action[r] = "login" /\ loc[r].account = user[r] /\ user[r] # Pending
         /\ user[q] # user[r] /\ loc[q].account # user[r]
         /\ action[q] = "login" => user[q] # Pending
<1>1. user[r] # Pending /\ user[q] # user[r] /\ loc[q].account # user[r]
  BY DEF IInv, DisturbInv
<1> QED
  BY <1>1 DEF IInv, RoleInv, Undisturbed

\* What a step spends, and what it leaves.
Spends(q, m) ==
  /\ Cleared(q) /\ ~ loc[q].disturbed
  /\ \E p \in Plugins : m = <<loc[q].account, action[q], p>> \/ m = <<Pending, action[q], p>>

LEMMA EarnedStays ==
  ASSUME TypeInv, [Next]_vars, NEW m \in earned, \A q \in Requests : ~ Spends(q, m)
  PROVE  m \in earned'
<1>1. CASE UNCHANGED earned
  BY <1>1
<1>2. ASSUME NEW r \in Requests, Start(r) PROVE m \in earned'
  BY <1>2, StartFrame DEF Started, history
<1>3. ASSUME NEW r \in Requests, Turn(r), ~ Cleared(r) PROVE m \in earned'
  <2>1. CASE CreateSession(r)
    BY <2>1 DEF CreateSession, ListRecent, Inherit, FindExisting, Find, DropExisting,
                Drop, OpenSession, history
  <2>2. CASE Validate(r) \/ AskForPlugins(r) \/ Pass(r)
    BY <2>2 DEF Validate, ReadNeed, FindSession, Find, LoadSession, NoSession, ReadStatus,
                AskForPlugins, Pass, history
  <2>3. CASE CreateAccount(r) \/ Reload(r) \/ Resave(r) \/ IssueToken(r)
    BY <2>3 DEF CreateAccount, Reload, Resave, IssueToken, history
  <2>4. CASE ClearVerification(r)
    BY <1>3, <2>4 DEF ClearVerification, FindOwn, DropOwn, FindPending, DropPending, Find, Drop,
                ListOwn, WipeOwn, ListPending, WipePending, List, Wipe, history
  <2>5. CASE Execute(r) \/ Reread(r) \/ Mark(r) \/ Fail(r)
    BY <2>5 DEF Execute, Reread, Mark, Fail, history
  <2> QED
    BY <1>3, <2>1, <2>2, <2>3, <2>4, <2>5 DEF Turn
<1>4. ASSUME NEW r \in Requests, Cleared(r) PROVE m \in earned'
  <2>1. CASE loc[r].disturbed
    BY <1>4, <2>1 DEF Cleared
  <2>2. CASE ~ loc[r].disturbed
    <3>1. earned' = earned \ ({loc[r].account, Pending} \X {action[r]} \X Plugins)
      BY <1>4, <2>2 DEF Cleared
    <3>2. m \notin {loc[r].account, Pending} \X {action[r]} \X Plugins
      BY <1>4, <2>2 DEF Spends
    <3> QED
      BY <3>1, <3>2
  <2> QED
    BY <2>1, <2>2
<1> QED
  BY <1>1, <1>2, <1>3, <1>4, StepOf DEF vars, history, Age, Disable

\* What a request still counts on is not spent by the others.
LEMMA OwnMarksStay ==
  ASSUME IInv, [Next]_vars, NEW r \in Requests, pc[r] # "idle", ~ Cleared(r),
         NEW p, <<user[r], action[r], p>> \in earned
  PROVE  <<user[r], action[r], p>> \in earned'
<1> DEFINE m == <<user[r], action[r], p>>
<1>1. ASSUME NEW q \in Requests, Spends(q, m) PROVE FALSE
  <2>1. Undisturbed(q) /\ pc[q] = "wipePending" /\ q # r
    BY <1>1 DEF Spends, Cleared, Undisturbed
  <2>2. /\ action[q] = "login" /\ loc[q].account = user[q]
        /\ user[r] # user[q] /\ (action[r] = "login" => user[r] # Pending)
    BY <2>1, Separate DEF Executing
  <2>3. action[r] = action[q] /\ (user[r] = loc[q].account \/ user[r] = Pending)
    BY <1>1 DEF Spends
  <2> QED
    BY <2>2, <2>3
<1> HIDE DEF m
<1> QED
  BY <1>1, EarnedStays DEF m, IInv

\* The optional plugins of a user who logs in undisturbed are turned on by no one
\* else.
LEMMA AskedByOwner ==
  ASSUME IInv, [Next]_vars, NEW r \in Requests, Undisturbed(r), pc[r] \notin Executing,
         NEW p, <<user[r], p>> \in asked'
  PROVE  <<user[r], p>> \in asked
<1>0. TypeInv /\ RoleInv
  BY DEF IInv
<1>1. ASSUME NEW q \in Requests, Execute(q), <<user[r], p>> \notin asked PROVE FALSE
  <2>1. PICK s \in ById(loc[q].own) : \E x \in loc[q].found \cap Optional :
          asked' \in {asked, asked \cup {<<s.user, x>>}}
    BY <1>1 DEF Execute
  <2>2. pc[q] \in Executing /\ pc[q] # "idle" /\ q # r
    BY <1>1 DEF Execute, Executing
  <2>3. s.user = user[r]
    BY <1>1, <2>1
  <2>4. s \in Row /\ IsCopy(s) /\ s.id = loc[q].own
    BY <1>0 DEF ById, IsCopy, TypeInv
  <2>5. action[q] = "login"
    BY <1>0, <2>1, <2>2 DEF RoleInv
  <2>6. s.user = user[q]
    BY <1>0, <2>2, <2>4, <2>5 DEF RoleInv
  <2> QED
    BY <2>2, <2>3, <2>6, Separate
<1>2. ASSUME NEW q \in Requests, Start(q) PROVE asked' = asked
  BY <1>0, <1>2, StartFrame DEF Started, tables
<1>3. ASSUME NEW q \in Requests, Turn(q), ~ Execute(q) PROVE asked' = asked
  <2>1. CASE CreateSession(q)
    BY <2>1 DEF CreateSession, ListRecent, Inherit, FindExisting, Find, DropExisting,
                Drop, OpenSession, tables
  <2>2. CASE Validate(q) \/ AskForPlugins(q) \/ Pass(q)
    BY <2>2 DEF Validate, ReadNeed, FindSession, Find, LoadSession, NoSession, ReadStatus,
                AskForPlugins, Pass, tables
  <2>3. CASE CreateAccount(q) \/ Reload(q) \/ Resave(q) \/ IssueToken(q)
    BY <2>3 DEF CreateAccount, Reload, Resave, IssueToken, tables
  <2>4. CASE ClearVerification(q)
    BY <2>4 DEF ClearVerification, FindOwn, DropOwn, FindPending, DropPending, Find, Drop,
                ListOwn, WipeOwn, ListPending, WipePending, List, Wipe, Cleared, tables
  <2>5. CASE Reread(q) \/ Mark(q) \/ Fail(q)
    BY <2>5 DEF Reread, Mark, Fail, tables
  <2> QED
    BY <1>3, <2>1, <2>2, <2>3, <2>4, <2>5 DEF Turn
<1> QED
  BY <1>1, <1>2, <1>3, StepOf DEF vars, tables, Age, Disable

\* What counts as completed after a step is earned then ...
LEMMA CompletedEarned ==
  ASSUME IInv, [Next]_vars, NEW m \in Marks, status'[m] > 0
  PROVE  m \in earned'
<1>0. TypeInv /\ RoleInv /\ SpentInv
  BY DEF IInv
<1>1. CASE status[m] > 0
  <2>1. m \in earned
    BY <1>0, <1>1 DEF SpentInv
  <2>2. ASSUME NEW q \in Requests, Spends(q, m) PROVE FALSE
    <3>1. Undisturbed(q) /\ pc[q] = "wipePending" /\ loc[q].found = {}
      BY <2>2 DEF Spends, Cleared, Undisturbed
    <3>2. Completed(loc[q].account, action[q]) = {} /\ Completed(Pending, action[q]) = {}
      BY <1>0, <3>1 DEF SpentInv
    <3> QED
      BY <1>1, <2>2, <3>2 DEF Spends, Completed
  <2> QED
    BY <1>0, <2>1, <2>2, EarnedStays
<1>2. ASSUME NEW r \in Requests, Inherited(r, m) PROVE m \in earned'
  <2>1. m \in earned /\ pc[r] = "inherit"
    BY <1>0, <1>2 DEF Inherited, Inherit, SpentInv
  <2>2. earned' = earned
    BY <1>2 DEF Inherited, Inherit, history
  <2> QED
    BY <2>1, <2>2
<1>3. ASSUME NEW r \in Requests, Marked(r, m) PROVE m \in earned'
  BY <1>3 DEF Marked
<1> QED
  BY <1>0, <1>1, <1>2, <1>3, Statuses

\* ... and is not a login of "pending" ...
LEMMA PendingNeverLogsIn ==
  ASSUME IInv, [Next]_vars, NEW p \in Plugins
  PROVE  status'[<<Pending, "login", p>>] = 0
<1> DEFINE m == <<Pending, "login", p>>
<1>0. TypeInv /\ RoleInv /\ SpentInv /\ CopyInv /\ TypeInv'
  BY TypeStep DEF IInv
<1>1. m \in Marks
  BY DEF Marks, Owners, Actions
<1>2. ~ (status[m] > 0)
  BY <1>0 DEF SpentInv
<1>3. ASSUME NEW r \in Requests, Inherited(r, m) PROVE FALSE
  <2>1. user[r] = Pending /\ action[r] = "login" /\ pc[r] = "inherit"
    BY <1>3 DEF Inherited, Inherit
  <2> QED
    BY <1>0, <2>1 DEF RoleInv
<1>4. ASSUME NEW r \in Requests, Marked(r, m) PROVE FALSE
  <2>1. PICK s \in loc[r].seen : s.user = Pending /\ s.action = "login"
    BY <1>4 DEF Marked
  <2>2. s \in Row /\ IsCopy(s)
    BY <1>0 DEF TypeInv, Frame, IsCopy
  <2> QED
    BY <1>0, <2>1, <2>2 DEF CopyInv
<1> HIDE DEF m
<1>5. ~ (status'[m] > 0) /\ status'[m] \in Nat
  BY <1>0, <1>1, <1>2, <1>3, <1>4, Statuses DEF TypeInv
<1> QED
  BY <1>5 DEF m

\* ... nor one that another request has completed for a user who clears undisturbed.
LEMMA NoneCompletes ==
  ASSUME IInv, [Next]_vars, NEW r \in Requests, Undisturbed(r),
         pc[r] \in {"wipeOwn", "wipePending"}, NEW p \in Plugins,
         status'[<<loc[r].account, action[r], p>>] > 0
  PROVE  status[<<loc[r].account, action[r], p>>] > 0
<1> DEFINE m == <<loc[r].account, action[r], p>>
<1>0. TypeInv /\ RoleInv /\ SeenInv /\ pc[r] \notin Executing /\ pc[r] # "idle"
  BY DEF IInv, Executing, Undisturbed
<1>1. m \in Marks
  BY <1>0 DEF TypeInv, Frame, Marks
<1>2. ASSUME NEW q \in Requests, Inherited(q, m) PROVE FALSE
  <2>1. user[q] = loc[r].account /\ pc[q] = "inherit"
    BY <1>2 DEF Inherited, Inherit
  <2>2. q # r
    BY <2>1
  <2> QED
    BY <1>0, <2>1, <2>2, Separate
<1>3. ASSUME NEW q \in Requests, Marked(q, m) PROVE FALSE
  <2>1. PICK s \in loc[q].seen : s.user = loc[r].account /\ s.action = action[r]
    BY <1>3 DEF Marked
  <2>2. pc[q] = "mark" /\ q # r
    BY <1>3 DEF Marked, Mark
  <2>3. s \in Row /\ IsCopy(s) /\ s.id = loc[q].own
    BY <1>0, <2>2 DEF TypeInv, Frame, IsCopy, SeenInv
  <2>4. action[r] = "login" /\ loc[r].account = user[r] /\ user[q] # user[r]
    BY <1>0, <2>2, Separate
  <2>5. s.user = user[q]
    BY <1>0, <2>1, <2>2, <2>3, <2>4 DEF RoleInv, Executing
  <2> QED
    BY <2>1, <2>4, <2>5
<1> HIDE DEF m
<1>4. status'[m] > 0
  BY DEF m
<1>5. status[m] > 0
  BY <1>0, <1>1, <1>2, <1>3, <1>4, Statuses
<1> QED
  BY <1>5 DEF m

LEMMA SpentStep == IInv /\ [Next]_vars => SpentInv'
<1> SUFFICES ASSUME IInv, [Next]_vars PROVE SpentInv'
  OBVIOUS
<1>0. TypeInv /\ RoleInv /\ SpentInv /\ OwnInv /\ SeenInv /\ Lasts
  BY Lasting DEF IInv
<1>1. /\ \A m \in Marks : status'[m] > 0 => m \in earned'
      /\ \A p \in Plugins : status'[<<Pending, "login", p>>] = 0
  BY CompletedEarned, PendingNeverLogsIn
<1>2. ASSUME NEW r \in Requests, pc'[r] = "inherit", NEW p \in loc'[r].found
      PROVE  <<user'[r], action'[r], p>> \in earned'
  <2>1. CASE Start(r)
    BY <1>0, <1>2, <2>1, StartFrame DEF Started
  <2>2. CASE Stays(r)
    <3>1. pc[r] = "inherit" /\ <<user[r], action[r], p>> \in earned
      BY <1>0, <1>2, <2>2 DEF Stays, SpentInv
    <3>2. ~ Cleared(r)
      BY <3>1 DEF Cleared
    <3> QED
      BY <2>2, <3>1, <3>2, OwnMarksStay DEF Stays
  <2>3. CASE Turn(r) /\ Flows(r)
    <3>1. ListRecent(r) /\ loc[r] \in Frame
      BY <1>0, <1>2, <2>3, LeadsTo DEF CameFrom, TypeInv
    <3>2. loc'[r].found = RecentlyCompleted(user[r], action[r]) /\ earned' = earned
      BY <1>0, <3>1 DEF ListRecent, TypeInv, Frame, history
    <3>3. p \in Plugins /\ status[<<user[r], action[r], p>>] > 0
      BY <1>2, <3>2 DEF RecentlyCompleted, Completed
    <3>4. <<user[r], action[r], p>> \in earned
      BY <1>0, <3>3 DEF SpentInv, Marks, TypeInv
    <3> QED
      BY <2>3, <3>2, <3>4 DEF Flows
  <2> QED
    BY <1>0, <1>2, <2>1, <2>2, <2>3, OwnersKept
<1> DEFINE Counts(q) ==
       /\ pc[q] \in Validating => RequiredPlugins(user[q], action[q]) \subseteq loc[q].need
       /\ pc[q] = "decide" => \A p \in loc[q].found : <<user[q], action[q], p>> \in earned
       /\ pc[q] = "wipeOwn" => Completed(loc[q].account, action[q]) \subseteq loc[q].found
       /\ pc[q] = "wipePending" =>
            /\ Completed(loc[q].account, action[q]) = {}
            /\ Completed(Pending, action[q]) \subseteq loc[q].found
<1>3. ASSUME NEW r \in Requests, Undisturbed(r)' PROVE Counts(r)'
  <2>0. pc'[r] # "idle"
    BY <1>3 DEF Undisturbed
  <2>1. CASE Start(r)
    <3>1. pc'[r] \in {"listRecent", "execute"}
      BY <1>0, <2>1, StartFrame DEF Started
    <3> QED
      BY <3>1 DEF Validating
  <2>2. CASE Stays(r)
    <3>0. Undisturbed(r) /\ Counts(r)
      BY <1>0, <1>3, <2>2 DEF Stays, Undisturbed, SpentInv
    <3>1. ASSUME pc'[r] \in Validating
          PROVE  RequiredPlugins(user[r], action[r])' \subseteq loc'[r].need
      <4>1. pc[r] \in Validating /\ pc[r] \notin Executing /\ installed' = installed
        BY <1>0, <2>2, <3>1 DEF Stays, Validating, Executing, Lasts
      <4>2. RequiredPlugins(user[r], action[r])' \subseteq RequiredPlugins(user[r], action[r])
        BY <2>2, <3>0, <4>1, AskedByOwner DEF RequiredPlugins, Stays
      <4> QED
        BY <2>2, <3>0, <4>1, <4>2 DEF Stays
    <3>2. ASSUME pc'[r] = "decide", NEW p \in loc'[r].found
          PROVE  <<user'[r], action'[r], p>> \in earned'
      <4>1. pc[r] = "decide" /\ <<user[r], action[r], p>> \in earned
        BY <2>2, <3>0, <3>2 DEF Stays
      <4>2. ~ Cleared(r) /\ pc[r] # "idle"
        BY <4>1 DEF Cleared
      <4> QED
        BY <2>2, <4>1, <4>2, OwnMarksStay DEF Stays
    <3>3. ASSUME pc'[r] \in {"wipeOwn", "wipePending"}
          PROVE  Completed(loc[r].account, action[r])' \subseteq Completed(loc[r].account, action[r])
      BY <2>2, <3>0, <3>3, NoneCompletes DEF Stays, Completed
    <3>4. ASSUME pc'[r] = "wipePending"
          PROVE  Completed(Pending, action[r])' \subseteq loc'[r].found
      <4>1. CASE action[r] = "login"
        BY <1>1, <2>2, <4>1 DEF Completed, Stays
      <4>2. CASE action[r] # "login"
        <5>1. \A q \in Requests \ {r} : pc[q] = "idle"
          BY <2>2, <3>0, <3>4, <4>2, Separate DEF Stays, Executing
        <5>2. \A m : ~ \E q \in Requests : Inherited(q, m) \/ Marked(q, m)
          BY <2>2, <3>4, <5>1 DEF Inherited, Marked, Inherit, Mark, Stays
        <5>3. ASSUME NEW p \in Plugins, status'[<<Pending, action[r], p>>] > 0
              PROVE  status[<<Pending, action[r], p>>] > 0
          <6>1. <<Pending, action[r], p>> \in Marks
            BY <1>0 DEF TypeInv, Marks, Owners
          <6> QED
            BY <1>0, <5>2, <5>3, <6>1, Statuses
        <5>4. Completed(Pending, action[r])' \subseteq Completed(Pending, action[r])
          BY <2>2, <5>3 DEF Completed, Stays
        <5> QED
          BY <2>2, <3>0, <3>4, <5>4 DEF Stays
      <4> QED
        BY <4>1, <4>2
    <3> QED
      BY <2>2, <3>0, <3>1, <3>2, <3>3, <3>4 DEF Stays
  <2>3. CASE Turn(r) /\ Flows(r)
    <3>0. /\ CameFrom(r) /\ loc[r] \in Frame /\ user'[r] = user[r] /\ action'[r] = action[r]
          /\ Undisturbed(r) /\ loc \in [Requests -> Frame] /\ Counts(r)
          /\ loc'[r].account = loc[r].account
      BY <1>0, <1>3, <2>0, <2>3, LeadsTo DEF TypeInv, Flows, Undisturbed, SpentInv
    <3>1. CASE pc'[r] = "findSession"
      <4>1. loc'[r].need = RequiredPlugins(user[r], action[r])
            /\ UNCHANGED <<installed, asked, user, action>>
        BY <3>0, <3>1 DEF CameFrom, ReadNeed, Frame, tables
      <4> QED
        BY <3>1, <4>1 DEF RequiredPlugins
    <3>2. ASSUME pc'[r] \in {"loadSession", "readStatus", "decide"}
          PROVE  RequiredPlugins(user[r], action[r])' \subseteq loc'[r].need
      <4>1. pc[r] \in Validating /\ loc'[r].need = loc[r].need
            /\ UNCHANGED <<installed, asked, user, action>>
        BY <3>0, <3>2 DEF CameFrom, FindSession, Find, LoadSession, ReadStatus, Frame, tables, Validating
      <4>2. RequiredPlugins(user[r], action[r])' = RequiredPlugins(user[r], action[r])
        BY <4>1 DEF RequiredPlugins
      <4> QED
        BY <3>0, <4>1, <4>2
    <3>3. ASSUME pc'[r] = "decide", NEW p \in loc'[r].found
          PROVE  <<user'[r], action'[r], p>> \in earned'
      <4>1. PICK t \in loc[r].seen :
              /\ loc' = [loc EXCEPT ![r].found = Completed(t.user, t.action)]
              /\ pc[r] = "readStatus" /\ earned' = earned
        BY <3>0, <3>3 DEF CameFrom, ReadStatus, history
      <4>2. t.user = user[r] /\ t.action = action[r]
        BY <1>0, <3>0, <4>1 DEF OwnInv
      <4>3. p \in Plugins /\ status[<<user[r], action[r], p>>] > 0
        BY <3>0, <3>3, <4>1, <4>2 DEF Completed, Frame
      <4>4. <<user[r], action[r], p>> \in earned
        BY <1>0, <4>3 DEF SpentInv, Marks, TypeInv
      <4> QED
        BY <3>0, <4>1, <4>4
    <3>4. CASE pc'[r] = "wipeOwn"
      <4>1. CASE ListOwn(r)
        <5>1. loc'[r].found = Completed(loc[r].account, action[r]) /\ status' = status
          BY <3>0, <4>1 DEF ListOwn, List, Frame, tables
        <5> QED
          BY <3>0, <3>4, <5>1 DEF Completed, Validating
      <4>2. CASE WipeOwn(r)
        <5>1. PICK p \in loc[r].found :
                /\ status' = [status EXCEPT ![<<loc[r].account, action[r], p>>] = 0]
                /\ loc' = [loc EXCEPT ![r].found = @ \ {p}] /\ pc[r] = "wipeOwn"
          BY <4>2 DEF WipeOwn, Wipe
        <5>2. loc'[r].found = loc[r].found \ {p}
          BY <3>0, <5>1 DEF Frame
        <5>3. \A x \in Completed(loc[r].account, action[r])' : x \in Completed(loc[r].account, action[r]) /\ x # p
          BY <1>0, <3>0, <5>1 DEF Completed, TypeInv, Marks, Frame
        <5> QED
          BY <3>0, <3>4, <5>1, <5>2, <5>3 DEF Validating
      <4> QED
        BY <3>0, <3>4, <4>1, <4>2 DEF CameFrom
    <3>5. CASE pc'[r] = "wipePending"
      <4>1. CASE ListPending(r)
        <5>1. /\ loc'[r].found = Completed(Pending, action[r]) /\ status' = status
              /\ pc[r] = "wipeOwn" /\ loc[r].found = {}
          BY <3>0, <4>1 DEF ListPending, List, Frame, tables
        <5> QED
          BY <3>0, <3>5, <5>1 DEF Completed, Validating
      <4>2. CASE WipePending(r)
        <5>1. PICK p \in loc[r].found :
                /\ status' = [status EXCEPT ![<<Pending, action[r], p>>] = 0]
                /\ loc' = [loc EXCEPT ![r].found = @ \ {p}] /\ pc[r] = "wipePending"
          BY <4>2 DEF WipePending, Wipe
        <5>2. loc'[r].found = loc[r].found \ {p}
          BY <3>0, <5>1 DEF Frame
        <5>3. \A x \in Completed(Pending, action[r])' : x \in Completed(Pending, action[r]) /\ x # p
          BY <1>0, <3>0, <5>1 DEF Completed, TypeInv, Marks, Frame, Owners
        <5>4. Completed(loc[r].account, action[r])' = {}
          BY <1>0, <3>0, <5>1 DEF Completed, TypeInv, Marks, Frame
        <5> QED
          BY <3>0, <3>5, <5>1, <5>2, <5>3, <5>4 DEF Validating
      <4> QED
        BY <3>0, <3>5, <4>1, <4>2 DEF CameFrom
    <3> QED
      BY <3>1, <3>2, <3>3, <3>4, <3>5 DEF Validating
  <2> QED
    BY <1>0, <2>0, <2>1, <2>2, <2>3, OwnersKept
<1> QED
  BY <1>1, <1>2, <1>3 DEF SpentInv

-----------------------------------------------------------------------------
(* The theorems.                                                           *)

\* IInv is an invariant of the specification (all of auth_account.go,
\* verification_session.go, verification_plugin.go, verification_status.go).
THEOREM Invariance == Spec => []IInv
<1>1. IInv /\ [Next]_vars => IInv'
  BY TypeStep, CopyStep, OwnerStep, RoleStep, SeenStep, EverStep, DisturbStep, OwnStep, SpentStep
     DEF IInv
<1> QED
  BY <1>1, InitInv, PTL DEF Spec

\* A request passes by the code that decides.
LEMMA PassingPasses ==
  ASSUME IInv, [Next]_vars, NEW r \in Requests, Passes(r)
  PROVE  Verified(r)
<1>0. TypeInv /\ pc[r] = "decide" /\ pc'[r] \in {"token", "account"}
  BY DEF IInv, Passes
<1>1. Turn(r) /\ ~ Finish(r)
  <2>1. ~ Start(r)
    BY <1>0, StartFrame DEF Started
  <2>2. ~ Stays(r)
    BY <1>0 DEF Stays
  <2> QED
    BY <1>0, <2>1, <2>2, OwnersKept, FinishFrame
<1>2. pc[r] = "decide" => Pass(r)
  BY <1>0, <1>1 DEF Turn, CreateSession, ListRecent, Inherit, FindExisting, Find, DropExisting, Drop,
     OpenSession, Validate, ReadNeed, FindSession, LoadSession, NoSession, ReadStatus, AskForPlugins,
     CreateAccount, Reload, Resave, IssueToken, ClearVerification, FindOwn, DropOwn, FindPending,
     DropPending, ListOwn, WipeOwn, ListPending, WipePending, List, Wipe, Cleared, Execute, Reread,
     Mark, Fail
<1> QED
  BY <1>0, <1>2 DEF Pass

\* No login and no registration passes before each mandatory plugin that is
\* installed was executed for its user id (validateSinglePlugin of
\* verification_plugin.go), whatever sessions and statuses are moved, inherited
\* and deleted meanwhile.
THEOREM NoneUnverified == Spec => NeverUnverified
<1>1. ASSUME IInv, [Next]_vars PROVE PassesVerified
  <2> SUFFICES ASSUME NEW r \in Requests, Passes(r) PROVE EverVerified(user[r])
    BY DEF PassesVerified, EverVerified
  <2> QED
    BY <1>1, PassingPasses, PassMeansVerified DEF IInv, Passes
<1>2. IInv /\ [Next]_vars => [PassesVerified]_vars
  BY <1>1
<1> QED
  BY <1>2, Invariance, PTL DEF Spec, NeverUnverified

\* A verification serves one login: a request nothing got in the way of passes
\* only on plugins executed since the last login or registration that cleared
\* undisturbed (CreateSession's inheritance against ClearVerification).
THEOREM EachVerificationOnce == Spec => VerificationSpent
<1>1. ASSUME IInv, [Next]_vars PROVE PassesOnUnspent
  <2> SUFFICES ASSUME NEW r \in Requests, Passes(r), ~ loc[r].disturbed,
                      NEW p \in RequiredPlugins(user[r], action[r])
               PROVE  <<user[r], action[r], p>> \in earned
    BY DEF PassesOnUnspent
  <2>1. Undisturbed(r) /\ pc[r] = "decide" /\ Verified(r)
    BY <1>1, PassingPasses DEF Undisturbed, Passes
  <2>2. p \in loc[r].need
    BY <1>1, <2>1 DEF IInv, SpentInv, Validating
  <2>3. PICK s \in loc[r].seen : s.user = user[r] /\ s.action = action[r]
    BY <1>1, <2>1 DEF IInv, SeenInv, OwnInv
  <2>4. p \in loc[r].found
    BY <1>1, <2>1, <2>2, <2>3 DEF Verified, Missing, RequiredPlugins, IInv, TypeInv
  <2> QED
    BY <1>1, <2>1, <2>4 DEF IInv, SpentInv
<1>2. IInv /\ [Next]_vars => [PassesOnUnspent]_vars
  BY <1>1
<1> QED
  BY <1>2, Invariance, PTL DEF Spec, VerificationSpent

\* handleVerification finds the session it has created unless another request
\* of the same user id got in its way (getActiveSession of verification_session.go).
THEOREM FindsItsSession == Spec => OwnSessionFound
<1>1. ASSUME IInv, [Next]_vars PROVE LostOnlyToOthers
  <2> SUFFICES ASSUME NEW r \in Requests, NoSession(r), ~ loc[r].disturbed PROVE FALSE
    BY <1>1 DEF LostOnlyToOthers, IInv, TypeInv, Frame
  <2> DEFINE own == [id |-> loc[r].own, user |-> user[r], action |-> action[r]]
  <2>1. pc[r] \in {"findSession", "loadSession"} /\ Undisturbed(r)
    BY DEF NoSession, Undisturbed
  <2>2. own \in sessions /\ \A t \in sessions : t.user = user[r] => t.id <= loc[r].own
    BY <1>1, <2>1 DEF IInv, OwnInv
  <2>3. own.id = loc[r].own /\ own.user = user[r]
    OBVIOUS
  <2> HIDE DEF own
  <2>4. ActiveSession(user[r]) # {}
    BY <2>2, <2>3 DEF ActiveSession
  <2>5. ById(loc[r].own) # {}
    BY <2>2, <2>3 DEF ById
  <2>6. pc[r] = "loadSession" => \E s \in loc[r].seen : s.id = loc[r].own
    BY <1>1, <2>1 DEF IInv, OwnInv, SeenInv
  <2> QED
    BY <2>1, <2>4, <2>5, <2>6 DEF NoSession
<1>2. IInv /\ [Next]_vars => [LostOnlyToOthers]_vars
  BY <1>1
<1> QED
  BY <1>2, Invariance, PTL DEF Spec, OwnSessionFound
=============================================================================
