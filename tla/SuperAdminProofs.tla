-------------------------- MODULE SuperAdminProofs --------------------------
(***************************************************************************)
(* What holds of the administrators' table for any number of users,        *)
(* requests and instances.  The invariant is that a removal about to       *)
(* delete has counted two rows or more; what it deletes is one row, so the *)
(* table it empties is not the one it counted.                             *)
(***************************************************************************)
EXTENDS SuperAdmin, FiniteSetTheorems, TLAPS

CountInv == \A r \in Requests :
              pc[r] = "removeDelete" => ~(Cardinality(counted[r]) <= 1)

\* Whoever is being added, removed or appointed is a user id.
TargetInv ==
  /\ \A r \in Requests : pc[r] # "idle" => target[r] \in Users
  /\ \A i \in Instances : stage[i] \in {"checkAdmin", "appoint"} => made[i] \in Users

Inv == TypeOK /\ TargetInv /\ CountInv

LEMMA InitInv == Init => Inv
<1> SUFFICES ASSUME Init PROVE Inv
  OBVIOUS
<1>1. TypeOK
  <2>1. crashes \in 0..MaxCrashes
    BY SuperAdminAssumption DEF Init
  <2>2. QED
    BY <2>1 DEF Init, TypeOK, Labels, Stages
<1>2. TargetInv
  BY DEF Init, TargetInv
<1>3. CountInv
  BY DEF Init, CountInv
<1>4. QED
  BY <1>1, <1>2, <1>3 DEF Inv

\* The steps of the start and of the rest of the server leave requests alone.
LEMMA StartStep ==
  ASSUME NEW i, Start(i) \/ Crash(i) \/ Restart(i)
  PROVE  request' = request
BY DEF Start, ListAdmins, ListApps, CreateApp, ListUsers, CheckAdmin, CreateUser,
       Appoint, Crash, Restart, request

LEMMA UserStep ==
  ASSUME NEW u, Register(u) \/ DeleteUser(u)
  PROVE  request' = request
BY DEF Register, DeleteUser, request

LEMMA TypeStep == Inv /\ [Next]_vars => TypeOK' /\ TargetInv'
<1> DEFINE Goal == TypeOK' /\ TargetInv'
<1> SUFFICES ASSUME Inv, [Next]_vars PROVE Goal
  OBVIOUS
<1> USE SuperAdminAssumption DEF Inv, TypeOK, TargetInv, Labels, Stages
<1>1. ASSUME NEW r \in Requests, NEW u \in Users, BeginAdd(r, u) \/ BeginRemove(r, u)
      PROVE  Goal
  BY <1>1 DEF BeginAdd, BeginRemove, Begin, Goto, tables, instance
<1>2. ASSUME NEW r \in Requests,
             AddLookup(r) \/ AddCheck(r) \/ AddInsert(r) \/ RequestFails(r)
      PROVE  Goal
  BY <1>2 DEF AddLookup, AddCheck, AddInsert, RequestFails, Finish, Goto, tables, instance
<1>3. ASSUME NEW r \in Requests, RemoveCheck(r) \/ RemoveCount(r) \/ RemoveDelete(r)
      PROVE  Goal
  BY <1>3 DEF RemoveCheck, RemoveCount, RemoveDelete, Finish, Goto, tables, instance
<1>4. ASSUME NEW u \in Users, Register(u) \/ DeleteUser(u)
      PROVE  Goal
  BY <1>4 DEF Register, DeleteUser, request, instance
<1>5. ASSUME NEW i \in Instances, ListAdmins(i) \/ ListApps(i) \/ CreateApp(i)
      PROVE  Goal
  BY <1>5 DEF ListAdmins, ListApps, CreateApp, Enter, Exit, tables, request
<1>6. ASSUME NEW i \in Instances, ListUsers(i) \/ CheckAdmin(i) \/ CreateUser(i) \/ Appoint(i)
      PROVE  Goal
  BY <1>6 DEF ListUsers, CheckAdmin, CreateUser, Appoint, Enter, Exit, tables, request
<1>7. ASSUME NEW i \in Instances, Crash(i) \/ Restart(i)
      PROVE  Goal
  BY <1>7 DEF Crash, Restart, Enter, Exit, tables, request
<1>8. CASE UNCHANGED vars
  BY <1>8 DEF vars, tables, request, instance
<1>9. QED
  BY <1>1, <1>2, <1>3, <1>4, <1>5, <1>6, <1>7, <1>8 DEF Next, Request, Start

LEMMA CountStep == Inv /\ [Next]_vars => CountInv'
<1> SUFFICES ASSUME Inv, [Next]_vars PROVE CountInv'
  OBVIOUS
<1> USE DEF Inv, CountInv, TypeOK
<1>1. ASSUME NEW r \in Requests, Request(r)
      PROVE  CountInv'
  <2>1. CASE RemoveCount(r)
    BY <2>1 DEF RemoveCount, Finish, Goto
  <2>2. CASE \E u \in Users : BeginAdd(r, u) \/ BeginRemove(r, u)
    BY <2>2 DEF BeginAdd, BeginRemove, Begin, Goto
  <2>3. CASE AddLookup(r) \/ AddCheck(r) \/ AddInsert(r) \/ RemoveCheck(r)
                \/ RemoveDelete(r) \/ RequestFails(r)
    BY <2>3 DEF AddLookup, AddCheck, AddInsert, RemoveCheck, RemoveDelete, RequestFails,
                Finish, Goto
  <2>4. QED
    BY <1>1, <2>1, <2>2, <2>3 DEF Request
<1>2. CASE UNCHANGED request
  BY <1>2 DEF request
<1>3. QED
  BY <1>1, <1>2, StartStep, UserStep DEF Next, vars

\* Type correctness and the count hold throughout.
THEOREM Invariance == Spec => []Inv
<1>1. Inv /\ [Next]_vars => Inv'
  BY TypeStep, CountStep DEF Inv
<1>2. QED
  BY InitInv, <1>1, PTL DEF Spec

\* No step but a removal takes a row from the table.
LEMMA RowsStay ==
  ASSUME [Next]_vars, \A r \in Requests : ~RemoveDelete(r)
  PROVE  admins \subseteq admins'
<1>1. ASSUME NEW r \in Requests, Request(r)
      PROVE  admins \subseteq admins'
  BY <1>1 DEF Request, BeginAdd, BeginRemove, Begin, AddLookup, AddCheck, AddInsert,
              RemoveCheck, RemoveCount, RequestFails, tables
<1>2. ASSUME NEW u \in Users, Register(u) \/ DeleteUser(u)
      PROVE  admins \subseteq admins'
  BY <1>2 DEF Register, DeleteUser
<1>3. ASSUME NEW i \in Instances, Start(i) \/ Crash(i) \/ Restart(i)
      PROVE  admins \subseteq admins'
  BY <1>3 DEF Start, ListAdmins, ListApps, CreateApp, ListUsers, CheckAdmin, CreateUser,
              Appoint, Crash, Restart, tables
<1>4. CASE UNCHANGED vars
  BY <1>4 DEF vars, tables
<1>5. QED
  BY <1>1, <1>2, <1>3, <1>4 DEF Next

\* Whatever empties the table is a removal, and did not count the table it empties.
THEOREM LastOnlyInARace == Spec => LastGoesOnlyInARace
<1>1. ASSUME Inv, [Next]_vars, admins # {}, admins' = {}
      PROVE  \E r \in Requests : RemoveDelete(r) /\ admins # counted[r]
  <2>1. PICK r \in Requests : RemoveDelete(r)
    BY <1>1, RowsStay
  <2>2. admins = {target[r]}
    BY <1>1, <2>1 DEF RemoveDelete, Inv, TypeOK
  <2>3. Cardinality(admins) = 1
    BY <2>2, FS_Singleton
  <2>4. Cardinality(admins) <= 1
    BY <2>3
  <2>5. ~(Cardinality(counted[r]) <= 1)
    BY <1>1, <2>1 DEF Inv, CountInv, RemoveDelete
  <2>6. QED
    BY <2>1, <2>4, <2>5
<1>2. Inv /\ [Next]_vars =>
        [admins # {} /\ admins' = {} =>
           \E r \in Requests : RemoveDelete(r) /\ admins # counted[r]]_vars
  BY <1>1
<1>3. QED
  BY Invariance, <1>2, PTL DEF Spec, LastGoesOnlyInARace

\* Each of the three ways into service leaves a row in the table.
THEOREM ServiceNeedsAdmin == Spec => ServesWithAdmin
<1>1. ASSUME Inv, [Next]_vars, NEW i \in Instances,
             stage[i] # "running", stage'[i] = "running"
      PROVE  admins' # {}
  <2> USE DEF Inv, TypeOK, Stages
  <2>1. PICK j \in Instances : Start(j) \/ Crash(j) \/ Restart(j)
    <3>1. ~UNCHANGED stage
      BY <1>1
    <3>2. ASSUME NEW r \in Requests, Request(r)
          PROVE  UNCHANGED stage
      BY <3>2 DEF Request, BeginAdd, BeginRemove, Begin, AddLookup, AddCheck, AddInsert,
                  RemoveCheck, RemoveCount, RemoveDelete, RequestFails, instance
    <3>3. ASSUME NEW u \in Users, Register(u) \/ DeleteUser(u)
          PROVE  UNCHANGED stage
      BY <3>3 DEF Register, DeleteUser, instance
    <3>4. QED
      BY <1>1, <3>1, <3>2, <3>3 DEF Next, vars, instance
  <2>2. CASE ListAdmins(j)
    BY <1>1, <2>2 DEF ListAdmins, Enter, tables
  <2>3. CASE CheckAdmin(j)
    BY <1>1, <2>3 DEF CheckAdmin, Enter, tables
  <2>4. CASE Appoint(j)
    BY <2>4 DEF Appoint
  <2>5. CASE ListApps(j) \/ CreateApp(j) \/ ListUsers(j) \/ CreateUser(j)
    BY <1>1, <2>5 DEF ListApps, CreateApp, ListUsers, CreateUser, Enter, Exit
  <2>6. CASE Crash(j) \/ Restart(j)
    BY <1>1, <2>6 DEF Crash, Restart, Enter, Exit
  <2>7. QED
    BY <2>1, <2>2, <2>3, <2>4, <2>5, <2>6 DEF Start
<1>2. Inv /\ [Next]_vars =>
        [\A i \in Instances :
           stage[i] # "running" /\ stage'[i] = "running" => admins' # {}]_vars
  BY <1>1
<1>3. QED
  BY Invariance, <1>2, PTL DEF Spec, ServesWithAdmin

\* Every variable keeps its type; ids are never reused.
THEOREM TypeCorrect == Spec => []TypeOK
<1>1. Inv => TypeOK
  BY DEF Inv
<1>2. QED
  BY Invariance, <1>1, PTL
=============================================================================
