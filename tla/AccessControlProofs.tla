------------------------- MODULE AccessControlProofs -------------------------
(***************************************************************************)
(* What holds of roles and permissions, of the cache of rules and of the   *)
(* evaluation of rules, for any number of requests, roles, permissions and *)
(* rules.                                                                  *)
(***************************************************************************)
EXTENDS MCAccessControl, FiniteSetTheorems, TLAPS

(***************************************************************************)
(* Roles and permissions.                                                  *)
(***************************************************************************)
RolesInv ==
  /\ made \subseteq RoleIds
  /\ roles \subseteq Role /\ \A x \in roles : x.id \in made
  /\ \A x, y \in roles : x = y \/ (x.id # y.id /\ x.name # y.name)
  /\ grants \subseteq RoleIds \X Perms /\ members \subseteq RoleIds /\ raced \subseteq RoleIds

\* One row at most has no code.
PermsInv ==
  /\ perms \subseteq Perms /\ spent \subseteq Blank
  /\ \A p, q \in perms \cap Blank : p = q

\* What a request holds on to, by the place where it stands and the ids given.
LocalOK(label, l, given) ==
  /\ label \in {"insertRole", "again", "nameFree", "saveRole"} => \E n \in Names : l.name = {n}
  /\ label \in {"again", "nameFree", "saveRole"} =>
       \E x \in Role : l.seen = {x} /\ x.id = l.role /\ x.id \in given
  /\ label \in {"dropRole", "delPerm", "delUser"} \cup Adding => l.role \in RoleIds
  /\ label \in {"addPerm", "delPerm", "insertPerm", "againPerm", "savePerm", "dropPerm"} =>
       \E p \in Perms : l.perm = {p}
  /\ label = "insertPerm" => l.perm \subseteq Blank

LocalInv ==
  /\ pc \in [Requests -> Labels] /\ loc \in [Requests -> Local]
  /\ \A r \in Requests : LocalOK(pc[r], loc[r], made)

\* The role somebody adds to is there, or was deleted under them.
AddingInv ==
  \A r \in Requests : pc[r] \in Adding => ById(loc[r].role) # {} \/ loc[r].role \in raced

\* The permissions of some roles.
AllOf(S) == UNION {PermsOf(i) : i \in S}

\* A question during which nothing changed has read what is there; one during
\* which something changed once comes, if nothing changes any more, to what was
\* there or to what is.
AskOK(l) ==
  /\ l.changes = 0 =>
       /\ l.before = Has
       /\ l.todo \subseteq RolesOf
       /\ l.found = AllOf(RolesOf \ l.todo)
  /\ l.changes = 1 => l.found \cup AllOf(l.todo) \in {l.before, Has}

AskingInv == \A r \in Requests : pc[r] \in Asking => AskOK(loc[r])

Inv == RolesInv /\ PermsInv /\ LocalInv /\ GoneRoleIsBare /\ AddingInv /\ AskingInv

(***************************************************************************)
(* The cache of rules.                                                     *)
(***************************************************************************)
CacheTypeInv ==
  /\ enabled \in [Rules -> BOOLEAN \cup {None}]
  /\ conditions \in [Rules -> SUBSET Conditions]
  /\ cachePc \in [Requests -> {"idle", "get", "list", "conditions", "set", "again",
                               "getRule", "lookup", "write", "invalidate"}]
  /\ job \in [Requests -> C!Job]
  /\ seen \in [Requests -> BOOLEAN \cup {None}]
  /\ \A r \in Requests :
       job[r].op = "update" /\ cachePc[r] \in {"lookup", "write"} => seen[r] \in BOOLEAN
  /\ overtaken \subseteq Requests /\ doubtful \in BOOLEAN
  /\ fresh \subseteq Rules
  /\ \A x \in fresh : enabled[x] = None /\ conditions[x] = {}
  /\ \A r \in Requests : job[r].rule \notin fresh
  /\ \A r \in Requests : cachePc[r] = "getRule" => job[r].rule \in Rules

Load == [rules : SUBSET Rules, read : UNION {[S -> SUBSET Conditions] : S \in SUBSET Rules}]

\* A load that no write overtook has read the enabled rules as they are.
LoadInv ==
  /\ loading \in [Requests -> Load]
  /\ \A r \in Requests : DOMAIN loading[r].read \subseteq loading[r].rules
  /\ \A r \in Requests : cachePc[r] = "set" => DOMAIN loading[r].read = loading[r].rules
  /\ \A r \in Requests \ overtaken : cachePc[r] \in {"conditions", "set"} =>
       /\ loading[r].rules = C!Active
       /\ \A x \in DOMAIN loading[r].read : loading[r].read[x] = conditions[x]

CacheInv == CacheTypeInv /\ LoadInv /\ C!CurrentUnlessRaced

(***************************************************************************)
(* The evaluation of rules.                                                *)
(***************************************************************************)
EngineInv ==
  focus = "engine" =>
    /\ data \in Inputs
    /\ Len(rules) \in Nat /\ DOMAIN rules = 1..Len(rules)
    /\ \A i, j \in DOMAIN rules : i < j => rules[i].priority >= rules[j].priority
    /\ \A i \in DOMAIN rules : rules[i].priority \in Int
    /\ at \in 1..(Len(rules) + 1)
    /\ \A i \in DOMAIN rules : i < at => ~ E!Satisfied(rules[i])
    /\ result \in {"none", "denied", "allowed"}
    /\ result = "denied" => at = Len(rules) + 1
    /\ result = "allowed" => at \in DOMAIN rules /\ E!Satisfied(rules[at])

-----------------------------------------------------------------------------
(* Roles and permissions: a step of one request.                           *)

LEMMA NoLocalType == NoLocal \in Local
BY DEF NoLocal, Local

\* A step moves its request and bumps the counts of the others that ask.
LEMMA Stepped ==
  ASSUME pc \in [Requests -> Labels], loc \in [Requests -> Local], NEW r \in Requests,
         NEW label \in Labels, NEW mine \in Local, Step(r, label, mine)
  PROVE  /\ pc' \in [Requests -> Labels] /\ loc' \in [Requests -> Local]
         /\ pc'[r] = label /\ loc'[r] = mine
         /\ \A q \in Requests \ {r} : pc'[q] = pc[q]
         /\ \A q \in Requests \ {r} : pc[q] \notin Asking \/ Rights' = Rights => loc'[q] = loc[q]
         /\ \A q \in Requests \ {r} : pc[q] \in Asking /\ Rights' # Rights =>
              /\ loc'[q].todo = loc[q].todo /\ loc'[q].found = loc[q].found
              /\ loc'[q].before = loc[q].before
              /\ loc'[q].changes = IF loc[q].changes < 2 THEN loc[q].changes + 1 ELSE 2
<1> HIDE DEF Labels, Asking, Rights
<1>1. pc' = [pc EXCEPT ![r] = label]
  BY DEF Step
<1>2. ASSUME NEW q \in Requests \ {r}
      PROVE  /\ loc'[q] \in Local
             /\ pc[q] \notin Asking \/ Rights' = Rights => loc'[q] = loc[q]
             /\ pc[q] \in Asking /\ Rights' # Rights =>
                  /\ loc'[q].todo = loc[q].todo /\ loc'[q].found = loc[q].found
                  /\ loc'[q].before = loc[q].before
                  /\ loc'[q].changes = IF loc[q].changes < 2 THEN loc[q].changes + 1 ELSE 2
  <2>1. loc[q] \in Local
    OBVIOUS
  <2>2. loc'[q] = IF pc[q] \in Asking /\ Rights' # Rights /\ loc[q].changes < 2
                    THEN [loc[q] EXCEPT !.changes = loc[q].changes + 1]
                    ELSE loc[q]
    BY DEF Step, Noting
  <2>3. QED
    BY <2>1, <2>2 DEF Local
<1>3. loc'[r] = mine
  BY DEF Step, Noting
<1>4. loc' \in [Requests -> Local]
  <2>1. loc' = [q \in Requests |-> loc'[q]]
    BY DEF Step, Noting
  <2>2. \A q \in Requests : loc'[q] \in Local
    BY <1>2, <1>3
  <2> HIDE DEF Local
  <2>3. QED
    BY <2>1, <2>2
<1> HIDE DEF Local
<1>5. QED
  BY <1>1, <1>2, <1>3, <1>4

LEMMA InAllOf ==
  /\ \A S, p : p \in AllOf(S) <=> \E i \in S : p \in PermsOf(i)
  /\ \A S, p : p \in AllOf(S)' <=> \E i \in S : p \in PermsOf(i)'
<1> HIDE DEF PermsOf
<1>1. QED
  BY DEF AllOf

LEMMA HasIsAllOf == Has = AllOf(RolesOf) /\ Has' = AllOf(RolesOf)'
BY DEF Has, AllOf

\* What the user may do is a matter of the rows an answer can depend on.
LEMMA SameRights ==
  ASSUME Rights' = Rights
  PROVE  RolesOf' = RolesOf /\ Has' = Has /\ \A S : AllOf(S)' = AllOf(S)
<1>1. {x.id : x \in roles'} = {x.id : x \in roles} /\ perms' = perms
      /\ grants' = grants /\ members' = members
  BY DEF Rights
<1>2. \A i : ById(i)' # {} <=> ById(i) # {}
  BY <1>1 DEF ById
<1>3. RolesOf' = RolesOf
  BY <1>1, <1>2 DEF RolesOf
<1>4. \A i : PermsOf(i)' = PermsOf(i)
  BY <1>1 DEF PermsOf
<1>5. \A S : AllOf(S)' = AllOf(S)
  <2> SUFFICES ASSUME NEW S PROVE AllOf(S)' = AllOf(S)
    OBVIOUS
  <2>1. \A p : p \in AllOf(S)' <=> p \in AllOf(S)
    BY <1>4, InAllOf
  <2> HIDE DEF AllOf
  <2>2. QED
    BY <2>1
<1>6. Has' = Has
  <2>1. Has' = AllOf(RolesOf)' /\ Has = AllOf(RolesOf)
    BY HasIsAllOf
  <2>2. QED
    BY <2>1, <1>3, <1>4 DEF AllOf
<1>7. QED
  BY <1>3, <1>5, <1>6

(***************************************************************************)
(* One change of the tables: what was read before it and what is read      *)
(* after it together are what was there or what is.                        *)
(***************************************************************************)
OneChange == \A T \in SUBSET RolesOf : AllOf(RolesOf \ T) \cup AllOf(T)' \in {Has, Has'}

LEMMA SamePerms ==
  ASSUME \A i \in RolesOf : PermsOf(i)' = PermsOf(i)
  PROVE  OneChange
<1> SUFFICES ASSUME NEW T \in SUBSET RolesOf
             PROVE  AllOf(RolesOf \ T) \cup AllOf(T)' = Has
  BY DEF OneChange
<1>1. ASSUME NEW p
      PROVE  p \in AllOf(RolesOf \ T) \cup AllOf(T)' <=> p \in AllOf(RolesOf)
  <2> HIDE DEF AllOf, PermsOf, RolesOf
  <2>1. p \in AllOf(RolesOf \ T) <=> \E i \in RolesOf \ T : p \in PermsOf(i)
    BY InAllOf
  <2>2. p \in AllOf(T)' <=> \E i \in T : p \in PermsOf(i)'
    BY InAllOf
  <2>3. p \in AllOf(RolesOf) <=> \E i \in RolesOf : p \in PermsOf(i)
    BY InAllOf
  <2>4. QED
    BY <2>1, <2>2, <2>3
<1> HIDE DEF AllOf, RolesOf
<1>2. QED
  BY <1>1, HasIsAllOf

LEMMA OnePerm ==
  ASSUME RolesOf' = RolesOf, NEW p,
         \A i \in RolesOf : \A x : x # p => (x \in PermsOf(i)' <=> x \in PermsOf(i)),
         \/ \A i \in RolesOf : p \in PermsOf(i) => p \in PermsOf(i)'
         \/ \A i \in RolesOf : p \in PermsOf(i)' => p \in PermsOf(i)
  PROVE  OneChange
<1> SUFFICES ASSUME NEW T \in SUBSET RolesOf
             PROVE  AllOf(RolesOf \ T) \cup AllOf(T)' \in {Has, Has'}
  BY DEF OneChange
<1> DEFINE F == AllOf(RolesOf \ T) \cup AllOf(T)'
<1>1. \A x : x \in F <=> \/ \E i \in RolesOf \ T : x \in PermsOf(i)
                        \/ \E i \in T : x \in PermsOf(i)'
  <2> HIDE DEF AllOf, PermsOf, RolesOf
  <2>1. \A x : x \in AllOf(RolesOf \ T) <=> \E i \in RolesOf \ T : x \in PermsOf(i)
    BY InAllOf
  <2>2. \A x : x \in AllOf(T)' <=> \E i \in T : x \in PermsOf(i)'
    BY InAllOf
  <2>3. QED
    BY <2>1, <2>2
<1>2. \A x : x \in Has <=> \E i \in RolesOf : x \in PermsOf(i)
  <2> HIDE DEF PermsOf, RolesOf
  <2>1. QED
    BY DEF Has
<1>3. \A x : x \in Has' <=> \E i \in RolesOf : x \in PermsOf(i)'
  <2> HIDE DEF PermsOf
  <2>1. \A x : x \in Has' <=> \E i \in RolesOf' : x \in PermsOf(i)'
    BY DEF Has
  <2>2. QED
    BY <2>1
<1> HIDE DEF F, PermsOf, RolesOf, Has
<1>4. \A x : x # p => (x \in F <=> x \in Has) /\ (x \in F <=> x \in Has')
  BY <1>1, <1>2, <1>3
<1>5. (p \in F <=> p \in Has) \/ (p \in F <=> p \in Has')
  BY <1>1, <1>2, <1>3
<1>6. F = Has \/ F = Has'
  BY <1>4, <1>5
<1>7. QED
  BY <1>6 DEF F

LEMMA RoleGone ==
  ASSUME NEW k, RolesOf' = RolesOf \ {k}, PermsOf(k)' = {},
         \A i \in RolesOf \ {k} : PermsOf(i)' = PermsOf(i)
  PROVE  OneChange
<1> SUFFICES ASSUME NEW T \in SUBSET RolesOf
             PROVE  AllOf(RolesOf \ T) \cup AllOf(T)' \in {Has, Has'}
  BY DEF OneChange
<1> DEFINE F == AllOf(RolesOf \ T) \cup AllOf(T)'
<1>1. \A x : x \in F <=> \/ \E i \in RolesOf \ T : x \in PermsOf(i)
                        \/ \E i \in T : x \in PermsOf(i)'
  <2> HIDE DEF AllOf, PermsOf, RolesOf
  <2>1. \A x : x \in AllOf(RolesOf \ T) <=> \E i \in RolesOf \ T : x \in PermsOf(i)
    BY InAllOf
  <2>2. \A x : x \in AllOf(T)' <=> \E i \in T : x \in PermsOf(i)'
    BY InAllOf
  <2>3. QED
    BY <2>1, <2>2
<1>2. \A x : x \in Has <=> \E i \in RolesOf : x \in PermsOf(i)
  <2> HIDE DEF PermsOf, RolesOf
  <2>1. QED
    BY DEF Has
<1>3. \A x : x \in Has' <=> \E i \in RolesOf \ {k} : x \in PermsOf(i)'
  <2> HIDE DEF PermsOf
  <2>1. \A x : x \in Has' <=> \E i \in RolesOf' : x \in PermsOf(i)'
    BY DEF Has
  <2>2. QED
    BY <2>1
<1> HIDE DEF F, PermsOf, RolesOf, Has
<1>4. CASE k \in T
  <2>1. \A x : x \in F <=> x \in Has'
    BY <1>1, <1>3, <1>4
  <2>2. QED
    BY <2>1 DEF F
<1>5. CASE k \notin T
  <2>1. \A x : x \in F <=> x \in Has
    BY <1>1, <1>2, <1>5
  <2>2. QED
    BY <2>1 DEF F
<1>6. QED
  BY <1>4, <1>5

\* Questions survive one change of the tables by a request that ends with it.
LEMMA AskingKept ==
  ASSUME LocalInv, AskingInv, NEW r \in Requests, Finish(r), OneChange
  PROVE  AskingInv'
<1>1. /\ pc' \in [Requests -> Labels] /\ pc'[r] = "idle"
      /\ \A q \in Requests \ {r} : pc'[q] = pc[q]
      /\ \A q \in Requests \ {r} : pc[q] \notin Asking \/ Rights' = Rights => loc'[q] = loc[q]
      /\ \A q \in Requests \ {r} : pc[q] \in Asking /\ Rights' # Rights =>
           /\ loc'[q].todo = loc[q].todo /\ loc'[q].found = loc[q].found
           /\ loc'[q].before = loc[q].before
           /\ loc'[q].changes = IF loc[q].changes < 2 THEN loc[q].changes + 1 ELSE 2
  <2>1. "idle" \in Labels /\ Step(r, "idle", NoLocal)
    BY DEF Labels, Finish
  <2>2. QED
    BY <2>1, NoLocalType, Stepped DEF LocalInv
<1>2. ASSUME NEW q \in Requests, pc'[q] \in Asking
      PROVE  AskOK(loc[q])'
  <2>1. q # r /\ pc[q] \in Asking /\ AskOK(loc[q])
    BY <1>1, <1>2 DEF Asking, AskingInv
  <2>2. CASE Rights' = Rights
    <3>1. loc'[q] = loc[q]
      BY <1>1, <2>1, <2>2
    <3>2. RolesOf' = RolesOf /\ Has' = Has /\ \A S : AllOf(S)' = AllOf(S)
      BY <2>2, SameRights
    <3> HIDE DEF RolesOf, Has, AllOf
    <3>3. AllOf(RolesOf \ loc[q].todo)' = AllOf(RolesOf \ loc[q].todo)
      <4>1. (RolesOf \ loc[q].todo)' = RolesOf \ loc[q].todo
        BY <3>1, <3>2
      <4>2. \A S : S = RolesOf \ loc[q].todo => AllOf(S)' = AllOf(RolesOf \ loc[q].todo)
        BY <3>2
      <4>3. QED
        BY <4>1, <4>2, SameRights, <2>2 DEF AllOf, PermsOf, Rights
    <3>4. AllOf(loc[q].todo)' = AllOf(loc[q].todo)
      BY <3>1, <2>2 DEF AllOf, PermsOf, Rights
    <3>5. QED
      BY <3>1, <3>2, <3>3, <3>4, <2>1 DEF AskOK
  <2>3. CASE Rights' # Rights
    <3>1. /\ loc'[q].todo = loc[q].todo /\ loc'[q].found = loc[q].found
          /\ loc'[q].before = loc[q].before
          /\ loc'[q].changes = IF loc[q].changes < 2 THEN loc[q].changes + 1 ELSE 2
      BY <1>1, <2>1, <2>3
    <3>2. loc[q].changes \in 0..2
      BY DEF LocalInv, Local
    <3>3. CASE loc[q].changes = 0
      <4>1. /\ loc[q].before = Has /\ loc[q].todo \subseteq RolesOf
            /\ loc[q].found = AllOf(RolesOf \ loc[q].todo)
        BY <3>3, <2>1 DEF AskOK
      <4> DEFINE T == loc[q].todo
      <4>2. AllOf(RolesOf \ T) \cup AllOf(T)' \in {Has, Has'}
        <5>1. \A S \in SUBSET RolesOf : AllOf(RolesOf \ S) \cup AllOf(S)' \in {Has, Has'}
          BY DEF OneChange
        <5>2. \A S : S = T => AllOf(S)' = AllOf(T)'
          BY <3>1 DEF AllOf
        <5> HIDE DEF RolesOf, Has, AllOf
        <5>3. QED
          BY <5>1, <5>2, <4>1
      <4>3. QED
        BY <4>1, <4>2, <3>1, <3>3 DEF AskOK
    <3>4. CASE loc[q].changes # 0
      BY <3>1, <3>2, <3>4 DEF AskOK
    <3>5. QED
      BY <3>3, <3>4
  <2>4. QED
    BY <2>2, <2>3
<1> HIDE DEF AskOK
<1>3. QED
  BY <1>2 DEF AskingInv

LEMMA ReadStep ==
  ASSUME Inv, NEW r \in Requests, NEW label \in Labels, NEW mine \in Local,
         Read(r, label, mine), LocalOK(label, mine, made),
         label \in Adding => ById(mine.role) # {} \/ mine.role \in raced,
         label \in Asking => AskOK(mine)
  PROVE  Inv'
<1>1. /\ UNCHANGED <<roles, perms, spent, grants, members, made, raced>>
      /\ Step(r, label, mine)
  BY DEF Read, tables
<1>2. Rights' = Rights /\ \A i : ById(i)' = ById(i)
  BY <1>1 DEF Rights, ById
<1>3. /\ pc' \in [Requests -> Labels] /\ loc' \in [Requests -> Local]
      /\ pc'[r] = label /\ loc'[r] = mine
      /\ \A q \in Requests \ {r} : pc'[q] = pc[q] /\ loc'[q] = loc[q]
  BY <1>1, <1>2, Stepped DEF Inv, LocalInv
<1>4. RolesInv'
  BY <1>1 DEF Inv, RolesInv
<1>5. PermsInv'
  BY <1>1 DEF Inv, PermsInv
<1>6. LocalInv'
  <2>1. \A q \in Requests : LocalOK(pc[q], loc[q], made)
    BY DEF Inv, LocalInv
  <2> HIDE DEF LocalOK
  <2>2. \A q \in Requests : LocalOK(pc'[q], loc'[q], made')
    BY <1>1, <1>3, <2>1
  <2>3. QED
    BY <1>3, <2>2 DEF LocalInv, LocalOK
<1>7. GoneRoleIsBare'
  BY <1>1 DEF Inv, GoneRoleIsBare, ById
<1>8. AddingInv'
  <2>1. AddingInv
    BY DEF Inv
  <2>2. ASSUME NEW q \in Requests, pc'[q] \in Adding
        PROVE  (\E x \in roles : x.id = loc'[q].role) \/ loc'[q].role \in raced
    BY <2>1, <2>2, <1>3 DEF AddingInv, ById
  <2>3. QED
    BY <2>2, <1>1 DEF AddingInv, ById
<1>9. AskingInv'
  <2>1. RolesOf' = RolesOf /\ Has' = Has /\ \A S : AllOf(S)' = AllOf(S)
    BY <1>2, SameRights
  <2>2. ASSUME NEW q \in Requests, pc'[q] \in Asking
        PROVE  AskOK(loc[q])'
    <3>1. AskOK(loc'[q])
      BY <2>2, <1>3 DEF Inv, AskingInv
    <3> DEFINE l == loc'[q]
    <3>2. AllOf(RolesOf \ loc[q].todo)' = AllOf(RolesOf \ l.todo)
      BY <1>1, <2>1 DEF AllOf, PermsOf
    <3>3. AllOf(loc[q].todo)' = AllOf(l.todo)
      BY <1>1 DEF AllOf, PermsOf
    <3> HIDE DEF AllOf, RolesOf, Has
    <3>4. QED
      BY <3>1, <3>2, <3>3, <2>1 DEF AskOK
  <2> HIDE DEF AskOK
  <2>3. QED
    BY <2>2 DEF AskingInv
<1>10. QED
  BY <1>4, <1>5, <1>6, <1>7, <1>8, <1>9 DEF Inv

LEMMA WriteStep ==
  ASSUME Inv, NEW r \in Requests, Finish(r), OneChange, made \subseteq made',
         RolesInv', PermsInv', GoneRoleIsBare',
         \A q \in Requests \ {r} : pc[q] \in Adding =>
           (\E x \in roles' : x.id = loc[q].role) \/ loc[q].role \in raced'
  PROVE  Inv'
<1>1. /\ pc' \in [Requests -> Labels] /\ loc' \in [Requests -> Local]
      /\ pc'[r] = "idle" /\ loc'[r] = NoLocal
      /\ \A q \in Requests \ {r} : pc'[q] = pc[q]
      /\ \A q \in Requests \ {r} : pc[q] \notin Asking => loc'[q] = loc[q]
  <2>1. "idle" \in Labels /\ Step(r, "idle", NoLocal)
    BY DEF Labels, Finish
  <2>2. QED
    BY <2>1, NoLocalType, Stepped DEF Inv, LocalInv
<1>2. LocalInv'
  <2>1. ASSUME NEW q \in Requests
        PROVE  LocalOK(pc'[q], loc'[q], made')
    <3>1. CASE pc'[q] \in Asking \cup {"idle"}
      BY <3>1 DEF Asking, Adding, LocalOK
    <3>2. CASE pc'[q] \notin Asking \cup {"idle"}
      <4>1. q # r /\ pc'[q] = pc[q] /\ loc'[q] = loc[q]
        BY <1>1, <3>2
      <4>2. LocalOK(pc[q], loc[q], made)
        BY DEF Inv, LocalInv
      <4>3. QED
        BY <4>1, <4>2 DEF LocalOK
    <3>3. QED
      BY <3>1, <3>2
  <2> HIDE DEF LocalOK
  <2>2. QED
    BY <1>1, <2>1 DEF LocalInv, LocalOK
<1>3. AddingInv'
  <2>1. ASSUME NEW q \in Requests, pc'[q] \in Adding
        PROVE  (\E x \in roles' : x.id = loc'[q].role) \/ loc'[q].role \in raced'
    <3>1. q # r /\ pc[q] \in Adding /\ loc'[q] = loc[q]
      BY <2>1, <1>1 DEF Adding, Asking
    <3>2. QED
      BY <3>1
  <2>2. QED
    BY <2>1 DEF AddingInv, ById
<1>4. AskingInv'
  BY AskingKept DEF Inv
<1>5. QED
  BY <1>2, <1>3, <1>4 DEF Inv

-----------------------------------------------------------------------------
(* Roles and permissions: every action.                                    *)

LEMMA FailStep == ASSUME Inv, NEW r \in Requests, Fail(r) PROVE Inv'
<1>1. Read(r, "idle", NoLocal) /\ "idle" \in Labels
  BY DEF Fail, Labels
<1>2. LocalOK("idle", NoLocal, made)
  BY DEF LocalOK, Adding
<1>3. "idle" \notin Adding /\ "idle" \notin Asking
  BY DEF Adding, Asking
<1> HIDE DEF Inv, LocalOK, Read, NoLocal
<1>4. QED
  BY <1>1, <1>2, <1>3, ReadStep, NoLocalType

\* Finishing without a change is as good as failing.
LEMMA GiveUp == ASSUME Inv, NEW r \in Requests, pc[r] # "idle", Read(r, "idle", NoLocal) PROVE Inv'
BY FailStep DEF Fail

LEMMA BeginStep ==
  ASSUME Inv, NEW r \in Requests, NEW n \in Names,
         BeginCreate(r, n) \/ \E x \in roles : BeginUpdate(r, x, n)
  PROVE  Inv'
<1>1. CASE BeginCreate(r, n)
  <2> DEFINE mine == [NoLocal EXCEPT !.name = {n}]
  <2>1. mine \in Local /\ Read(r, "insertRole", mine) /\ "insertRole" \in Labels
    BY <1>1 DEF BeginCreate, Local, NoLocal, Labels
  <2>2. LocalOK("insertRole", mine, made) /\ "insertRole" \notin Adding \cup Asking
    BY DEF LocalOK, NoLocal, Adding, Asking
  <2> HIDE DEF mine, Inv, Read, LocalOK
  <2>3. QED
    BY <2>1, <2>2, ReadStep
<1>2. ASSUME NEW x \in roles, BeginUpdate(r, x, n)
      PROVE  Inv'
  <2> DEFINE mine == [NoLocal EXCEPT !.role = x.id, !.seen = {x}, !.name = {n}]
  <2>0. x \in Role /\ x.id \in made /\ x.id \in RoleIds
    BY DEF Inv, RolesInv
  <2>1. mine \in Local /\ Read(r, "again", mine) /\ "again" \in Labels
    <3>1. mine \in Local
      <4>1. /\ x.id \in RoleIds \cup {NoRole} /\ {x} \in SUBSET Role /\ {n} \in SUBSET Names
            /\ 0 \in 0..2
        BY <2>0
      <4> HIDE DEF NoLocal
      <4>2. QED
        BY <4>1, NoLocalType DEF Local
    <3>2. Read(r, "again", mine)
      BY <1>2 DEF BeginUpdate
    <3>3. QED
      BY <3>1, <3>2 DEF Labels
  <2>2. LocalOK("again", mine, made) /\ "again" \notin Adding \cup Asking
    BY <2>0 DEF LocalOK, NoLocal, Adding, Asking
  <2> HIDE DEF mine, Inv, Read, LocalOK
  <2>3. QED
    BY <2>1, <2>2, ReadStep
<1>3. QED
  BY <1>1, <1>2

LEMMA OnRoleStep ==
  ASSUME Inv, NEW r \in Requests, NEW x \in roles, NEW label, NEW perm,
         \/ label \in {"dropRole", "readAgain", "delUser"} /\ perm = {}
         \/ label \in {"addPerm", "delPerm"} /\ \E p \in Perms : perm = {p},
         BeginOnRole(r, x, label, perm)
  PROVE  Inv'
<1> DEFINE mine == [NoLocal EXCEPT !.role = x.id, !.perm = perm]
<1>0. x.id \in RoleIds /\ perm \subseteq Perms
  BY DEF Inv, RolesInv
<1>1. mine \in Local /\ Read(r, label, mine) /\ label \in Labels
  <2>1. mine \in Local
    <3>1. /\ x.id \in RoleIds \cup {NoRole} /\ perm \in SUBSET Perms
          /\ 0 \in 0..2
      BY <1>0
    <3> HIDE DEF NoLocal
    <3>2. QED
      BY <3>1, NoLocalType DEF Local
  <2>2. Read(r, label, mine)
    BY DEF BeginOnRole
  <2>3. QED
    BY <2>1, <2>2 DEF Labels, Adding
<1>2. LocalOK(label, mine, made) /\ label \notin Asking
  BY <1>0 DEF LocalOK, NoLocal, Adding, Asking
<1>3. ById(mine.role) # {}
  BY DEF ById, NoLocal
<1> HIDE DEF mine, Inv, Read, LocalOK
<1>4. QED
  BY <1>1, <1>2, <1>3, ReadStep

\* A request that goes on with what it holds.
LEMMA GoOn ==
  ASSUME Inv, NEW r \in Requests, NEW label \in {"saveRole", "nameFree"},
         pc[r] \in {"again", "nameFree"}, Read(r, label, loc[r])
  PROVE  Inv'
<1>1. loc[r] \in Local /\ LocalOK(pc[r], loc[r], made)
  BY DEF Inv, LocalInv
<1>2. LocalOK(label, loc[r], made) /\ label \in Labels /\ label \notin Adding \cup Asking
  BY <1>1 DEF LocalOK, Adding, Asking, Labels
<1> HIDE DEF Inv, Read, LocalOK
<1>3. QED
  BY <1>1, <1>2, ReadStep

LEMMA UpdateSteps ==
  ASSUME Inv, NEW r \in Requests, Again(r) \/ NameFree(r)
  PROVE  Inv'
<1>1. pc[r] \in {"again", "nameFree"}
  BY DEF Again, NameFree
<1>2. \/ Read(r, "idle", NoLocal)
      \/ \E label \in {"saveRole", "nameFree"} : Read(r, label, loc[r])
  <2> HIDE DEF Read, NoLocal
  <2>1. CASE Again(r)
    BY <2>1 DEF Again
  <2>2. CASE NameFree(r)
    BY <2>2 DEF NameFree
  <2>3. QED
    BY <2>1, <2>2
<1> HIDE DEF Inv, Read
<1>3. QED
  BY <1>1, <1>2, GoOn, GiveUp

\* No role's permissions change unless grants or permissions do.
LEMMA SameGrants ==
  ASSUME UNCHANGED <<perms, grants>>
  PROVE  OneChange
<1>1. \A i \in RolesOf : PermsOf(i)' = PermsOf(i)
  BY DEF PermsOf
<1> HIDE DEF RolesOf, PermsOf, OneChange
<1>2. QED
  BY <1>1, SamePerms

LEMMA InsertRoleStep ==
  ASSUME Inv, NEW r \in Requests, NEW i \in RoleIds, NEW system \in BOOLEAN,
         InsertRole(r, i, system)
  PROVE  Inv'
<1>1. PICK n \in Names : loc[r].name = {n}
  BY DEF InsertRole, Inv, LocalInv, LocalOK
<1> DEFINE x0 == [id |-> i, name |-> n, system |-> system]
<1>2. /\ roles' = roles \cup {x0} /\ x0 \in Role
      /\ i \notin made /\ made' = made \cup {i}
      /\ ByName({n}) = {}
      /\ UNCHANGED <<perms, spent, grants, members, raced>>
      /\ Finish(r)
  BY <1>1 DEF InsertRole, Role
<1>3. RolesInv'
  <2>1. \A x \in roles : x.id # i /\ x.name # n
    BY <1>2 DEF Inv, RolesInv, ByName
  <2>2. x0.id = i /\ x0.name = n
    OBVIOUS
  <2>3. RolesInv
    BY DEF Inv
  <2> HIDE DEF x0
  <2>4. QED
    BY <1>2, <2>1, <2>2, <2>3 DEF RolesInv
<1>4. PermsInv'
  BY <1>2 DEF Inv, PermsInv
<1>5. GoneRoleIsBare'
  <2>1. \A k : ById(k)' = {} => ById(k) = {}
    BY <1>2 DEF ById
  <2>2. QED
    BY <1>2, <2>1 DEF Inv, GoneRoleIsBare
<1>6. \A q \in Requests \ {r} : pc[q] \in Adding =>
        (\E x \in roles' : x.id = loc[q].role) \/ loc[q].role \in raced'
  BY <1>2 DEF Inv, AddingInv, ById
<1>7. OneChange
  BY <1>2, SameGrants
<1> HIDE DEF Inv, RolesInv, PermsInv, GoneRoleIsBare, OneChange, Finish, x0
<1>8. QED
  BY <1>2, <1>3, <1>4, <1>5, <1>6, <1>7, WriteStep

LEMMA SaveRoleStep == ASSUME Inv, NEW r \in Requests, SaveRole(r) PROVE Inv'
<1>1. PICK n \in Names : loc[r].name = {n}
  BY DEF SaveRole, Inv, LocalInv, LocalOK
<1>2. PICK x0 \in Role : loc[r].seen = {x0} /\ x0.id = loc[r].role /\ x0.id \in made
  BY DEF SaveRole, Inv, LocalInv, LocalOK
<1> DEFINE x1 == [x0 EXCEPT !.name = n]
           i  == loc[r].role
<1>3. /\ roles' = {x \in roles : x.id # i} \cup {x1}
      /\ x1 \in Role /\ x1.id = i /\ x1.name = n /\ i \in made
      /\ \A x \in roles : x.name = n => x.id = i
      /\ UNCHANGED <<perms, spent, grants, members, made, raced>>
      /\ Finish(r)
  BY <1>1, <1>2 DEF SaveRole, Role, ByName
<1> HIDE DEF x1, i
<1>4. RolesInv'
  <2>1. RolesInv
    BY DEF Inv
  <2>2. roles' \subseteq Role /\ \A x \in roles' : x.id \in made'
    BY <1>3, <2>1 DEF RolesInv
  <2>3. \A x, y \in roles' : x = y \/ (x.id # y.id /\ x.name # y.name)
    BY <1>3, <2>1 DEF RolesInv
  <2>4. QED
    BY <1>3, <2>1, <2>2, <2>3 DEF RolesInv
<1>5. PermsInv'
  BY <1>3 DEF Inv, PermsInv
<1>6. \A k : ById(k) # {} => \E x \in roles' : x.id = k
  BY <1>3 DEF ById
<1>7. GoneRoleIsBare'
  <2>1. \A k : ById(k)' = {} => ById(k) = {}
    BY <1>6 DEF ById
  <2>2. QED
    BY <1>3, <2>1 DEF Inv, GoneRoleIsBare
<1>8. \A q \in Requests \ {r} : pc[q] \in Adding =>
        (\E x \in roles' : x.id = loc[q].role) \/ loc[q].role \in raced'
  BY <1>3, <1>6 DEF Inv, AddingInv
<1>9. OneChange
  BY <1>3, SameGrants
<1> HIDE DEF Inv, RolesInv, PermsInv, GoneRoleIsBare, OneChange, Finish
<1>10. QED
  BY <1>3, <1>4, <1>5, <1>7, <1>8, <1>9, WriteStep

LEMMA DropRoleStep == ASSUME Inv, NEW r \in Requests, DropRole(r) PROVE Inv'
<1>0. PICK i \in RoleIds : i = loc[r].role
  BY DEF DropRole, Inv, LocalInv, LocalOK
<1>1. /\ grants' = {g \in grants : g[1] # i}
      /\ members' = members \ {i}
      /\ roles' = {x \in roles : x.id # i}
      /\ raced \subseteq raced' /\ raced' \subseteq raced \cup {i}
      /\ \A q \in Requests : pc[q] \in Adding /\ loc[q].role = i => i \in raced'
      /\ UNCHANGED <<perms, spent, made>>
      /\ Finish(r)
  BY <1>0 DEF DropRole, ById
<1>3. RolesInv'
  BY <1>1 DEF Inv, RolesInv
<1>4. PermsInv'
  BY <1>1 DEF Inv, PermsInv
<1>5. \A k : k # i => ById(k)' = ById(k)
  BY <1>1 DEF ById
<1>6. GoneRoleIsBare'
  BY <1>1, <1>5 DEF Inv, GoneRoleIsBare
<1>7. \A q \in Requests \ {r} : pc[q] \in Adding =>
        (\E x \in roles' : x.id = loc[q].role) \/ loc[q].role \in raced'
  BY <1>1 DEF Inv, AddingInv, ById
<1>8. OneChange
  <2>1. RolesOf' = RolesOf \ {i}
    <3>1. ASSUME NEW k
          PROVE  k \in RolesOf' <=> k \in RolesOf \ {i}
      <4>1. CASE k = i
        BY <4>1, <1>1 DEF RolesOf
      <4>2. CASE k # i
        BY <4>2, <1>1, <1>5 DEF RolesOf
      <4>3. QED
        BY <4>1, <4>2
    <3> HIDE DEF RolesOf
    <3>2. QED
      BY <3>1
  <2>2. PermsOf(i)' = {}
    BY <1>1 DEF PermsOf
  <2>3. \A k \in RolesOf \ {i} : PermsOf(k)' = PermsOf(k)
    BY <1>1 DEF PermsOf
  <2> HIDE DEF RolesOf, PermsOf, OneChange
  <2>4. QED
    BY <2>1, <2>2, <2>3, RoleGone
<1> HIDE DEF Inv, RolesInv, PermsInv, GoneRoleIsBare, OneChange, Finish
<1>9. QED
  BY <1>1, <1>3, <1>4, <1>6, <1>7, <1>8, WriteStep

LEMMA ReadAgainStep == ASSUME Inv, NEW r \in Requests, ReadAgain(r) PROVE Inv'
<1>1. pc[r] = "readAgain"
  BY DEF ReadAgain
<1>2. CASE ById(loc[r].role) = {}
  <2>1. Read(r, "idle", NoLocal)
    BY <1>2 DEF ReadAgain
  <2> HIDE DEF Read, Inv
  <2>2. QED
    BY <1>1, <2>1, GiveUp
<1>3. CASE ById(loc[r].role) # {}
  <2>1. Read(r, "addUser", loc[r])
    BY <1>3 DEF ReadAgain
  <2>2. loc[r] \in Local /\ LocalOK(pc[r], loc[r], made)
    BY DEF Inv, LocalInv
  <2>3. LocalOK("addUser", loc[r], made) /\ "addUser" \in Labels /\ "addUser" \notin Asking
    BY <1>1, <2>2 DEF LocalOK, Adding, Asking, Labels
  <2> HIDE DEF Inv, Read, LocalOK
  <2>4. QED
    BY <1>3, <2>1, <2>2, <2>3, ReadStep
<1>4. QED
  BY <1>2, <1>3

\* A role that is added to is there, or raced.
LEMMA GrantStep ==
  ASSUME Inv, NEW r \in Requests, AddPerm(r) \/ DelPerm(r)
  PROVE  Inv'
<1>1. PICK i \in RoleIds, p \in Perms : i = loc[r].role /\ {p} = loc[r].perm
  BY DEF AddPerm, DelPerm, Inv, LocalInv, LocalOK, Adding
<1>2. /\ \/ AddPerm(r) /\ grants' = grants \cup {<<i, p>>}
         \/ DelPerm(r) /\ grants' = grants \ {<<i, p>>}
      /\ UNCHANGED <<roles, perms, spent, members, made, raced>>
      /\ Finish(r)
  BY <1>1 DEF AddPerm, DelPerm
<1>3. RolesInv'
  BY <1>2 DEF Inv, RolesInv
<1>4. PermsInv'
  BY <1>2 DEF Inv, PermsInv
<1>5. GoneRoleIsBare'
  <2>1. \A k : ById(k)' = ById(k)
    BY <1>2 DEF ById
  <2>2. AddPerm(r) => ById(i) # {} \/ i \in raced
    BY <1>1 DEF AddPerm, Inv, AddingInv, Adding
  <2> HIDE DEF ById
  <2>3. QED
    BY <1>2, <2>1, <2>2 DEF Inv, GoneRoleIsBare
<1>6. \A q \in Requests \ {r} : pc[q] \in Adding =>
        (\E x \in roles' : x.id = loc[q].role) \/ loc[q].role \in raced'
  BY <1>2 DEF Inv, AddingInv, ById
<1>7. OneChange
  <2>1. RolesOf' = RolesOf
    BY <1>2 DEF RolesOf, ById
  <2>2. \A k \in RolesOf : \A x : x # p => (x \in PermsOf(k)' <=> x \in PermsOf(k))
    BY <1>2 DEF PermsOf
  <2>3. \/ \A k \in RolesOf : p \in PermsOf(k) => p \in PermsOf(k)'
        \/ \A k \in RolesOf : p \in PermsOf(k)' => p \in PermsOf(k)
    BY <1>2 DEF PermsOf
  <2> HIDE DEF RolesOf, PermsOf, OneChange
  <2>4. QED
    BY <2>1, <2>2, <2>3, OnePerm
<1> HIDE DEF Inv, RolesInv, PermsInv, GoneRoleIsBare, OneChange, Finish
<1>8. QED
  BY <1>2, <1>3, <1>4, <1>5, <1>6, <1>7, WriteStep

LEMMA MemberStep ==
  ASSUME Inv, NEW r \in Requests, AddUser(r) \/ DelUser(r)
  PROVE  Inv'
<1>1. PICK i \in RoleIds : i = loc[r].role
  BY DEF AddUser, DelUser, Inv, LocalInv, LocalOK, Adding
<1>2. /\ \/ AddUser(r) /\ members' = members \cup {i}
         \/ DelUser(r) /\ members' = members \ {i}
      /\ UNCHANGED <<roles, perms, spent, grants, made, raced>>
      /\ Finish(r)
  BY <1>1 DEF AddUser, DelUser
<1>3. RolesInv'
  BY <1>2 DEF Inv, RolesInv
<1>4. PermsInv'
  BY <1>2 DEF Inv, PermsInv
<1>5. GoneRoleIsBare'
  <2>1. \A k : ById(k)' = ById(k)
    BY <1>2 DEF ById
  <2>2. AddUser(r) => ById(i) # {} \/ i \in raced
    BY <1>1 DEF AddUser, Inv, AddingInv, Adding
  <2> HIDE DEF ById
  <2>3. QED
    BY <1>2, <2>1, <2>2 DEF Inv, GoneRoleIsBare
<1>6. \A q \in Requests \ {r} : pc[q] \in Adding =>
        (\E x \in roles' : x.id = loc[q].role) \/ loc[q].role \in raced'
  BY <1>2 DEF Inv, AddingInv, ById
<1>7. OneChange
  BY <1>2, SameGrants
<1> HIDE DEF Inv, RolesInv, PermsInv, GoneRoleIsBare, OneChange, Finish
<1>8. QED
  BY <1>2, <1>3, <1>4, <1>5, <1>6, <1>7, WriteStep

\* One request that makes, changes or deletes a permission.
LEMMA BeginPermStep ==
  ASSUME Inv, NEW r \in Requests, NEW p \in Perms,
         \/ BeginPermission(r, p)
         \/ \E label \in {"againPerm", "dropPerm"} : BeginOnPerm(r, p, label)
  PROVE  Inv'
<1> DEFINE mine == [NoLocal EXCEPT !.perm = {p}]
<1>1. PICK label \in {"insertPerm", "againPerm", "dropPerm"} :
        Read(r, label, mine) /\ (label = "insertPerm" => p \in Blank)
  BY DEF BeginPermission, BeginOnPerm
<1>2. mine \in Local
  <2> HIDE DEF NoLocal, Perms
  <2>1. QED
    BY NoLocalType DEF Local
<1>3. /\ LocalOK(label, mine, made) /\ label \in Labels /\ label \notin Adding \cup Asking
  BY <1>1 DEF LocalOK, NoLocal, Adding, Asking, Labels
<1> HIDE DEF mine, Inv, Read, LocalOK
<1>4. QED
  BY <1>1, <1>2, <1>3, ReadStep

LEMMA AgainPermStep == ASSUME Inv, NEW r \in Requests, AgainPerm(r) PROVE Inv'
<1>1. pc[r] = "againPerm"
  BY DEF AgainPerm
<1>2. CASE Read(r, "idle", NoLocal)
  <2> HIDE DEF Read, Inv
  <2>1. QED
    BY <1>1, <1>2, GiveUp
<1>3. CASE Read(r, "savePerm", loc[r])
  <2>1. loc[r] \in Local /\ LocalOK(pc[r], loc[r], made)
    BY DEF Inv, LocalInv
  <2>2. LocalOK("savePerm", loc[r], made) /\ "savePerm" \in Labels
        /\ "savePerm" \notin Asking \cup Adding
    BY <1>1, <2>1 DEF LocalOK, Adding, Asking, Labels
  <2> HIDE DEF Inv, Read, LocalOK
  <2>3. QED
    BY <1>3, <2>1, <2>2, ReadStep
<1>4. QED
  <2> HIDE DEF Read
  <2>1. QED
    BY <1>2, <1>3 DEF AgainPerm

\* A set of one element at most, by its cardinality.
LEMMA AtMostOne ==
  /\ \A S : (\A p, q \in S : p = q) => Cardinality(S) <= 1 /\ IsFiniteSet(S)
  /\ \A S : IsFiniteSet(S) /\ Cardinality(S) <= 1 => \A p, q \in S : p = q
<1>1. ASSUME NEW S, \A p, q \in S : p = q
      PROVE  Cardinality(S) <= 1 /\ IsFiniteSet(S)
  <2>1. CASE S = {}
    BY <2>1, FS_EmptySet
  <2>2. ASSUME NEW x \in S
        PROVE  Cardinality(S) <= 1 /\ IsFiniteSet(S)
    <3>1. S = {x}
      BY <1>1
    <3>2. IsFiniteSet({x}) /\ Cardinality({x}) = 1
      BY FS_Singleton
    <3>3. QED
      BY <3>1, <3>2
  <2>3. QED
    BY <2>1, <2>2
<1>2. ASSUME NEW S, IsFiniteSet(S), Cardinality(S) <= 1
      PROVE  \A p, q \in S : p = q
  <2>1. Cardinality(S) \in Nat
    BY <1>2, FS_CardinalityType
  <2>2. CASE Cardinality(S) = 0
    BY <1>2, <2>2, FS_EmptySet
  <2>3. CASE Cardinality(S) = 1
    <3>1. \E x : S = {x}
      BY <1>2, <2>3, FS_Singleton
    <3>2. QED
      BY <3>1
  <2>4. QED
    BY <1>2, <2>1, <2>2, <2>3
<1>3. QED
  BY <1>1, <1>2

LEMMA PermStep ==
  ASSUME Inv, NEW r \in Requests, InsertPerm(r) \/ SavePerm(r) \/ DropPerm(r)
  PROVE  Inv'
<1>1. PICK p \in Perms : {p} = loc[r].perm
  BY DEF InsertPerm, SavePerm, DropPerm, Inv, LocalInv, LocalOK
<1>2. /\ \/ InsertPerm(r) /\ perms' = perms \cup {p} /\ spent' = spent \cup {p} /\ grants' = grants
         \/ SavePerm(r) /\ perms' = perms \cup {p} /\ spent' = spent /\ grants' = grants
         \/ /\ DropPerm(r) /\ perms' = perms \ {p} /\ spent' = spent
            /\ grants' = {g \in grants : g[2] # p}
      /\ UNCHANGED <<roles, members, made, raced>>
      /\ Finish(r)
  BY <1>1 DEF InsertPerm, SavePerm, DropPerm
<1>3. RolesInv'
  BY <1>2 DEF Inv, RolesInv
<1>4. PermsInv'
  <2>1. PermsInv
    BY DEF Inv
  <2>2. CASE InsertPerm(r)
    <3>1. perms \cap Blank = {} /\ p \in Blank
      BY <1>1, <2>2 DEF InsertPerm, Inv, LocalInv, LocalOK
    <3>2. perms' = perms \cup {p} /\ spent' = spent \cup {p}
      BY <1>1, <2>2 DEF InsertPerm
    <3>3. QED
      BY <2>1, <3>1, <3>2 DEF PermsInv
  <2>3. CASE SavePerm(r)
    <3>1. perms' = perms \cup {p} /\ spent' = spent /\ Cardinality((perms \cup {p}) \cap Blank) <= 1
      BY <1>1, <2>3 DEF SavePerm
    <3>2. IsFiniteSet(perms \cap Blank)
      BY <2>1, AtMostOne DEF PermsInv
    <3>3. IsFiniteSet((perms \cap Blank) \cup {p})
      BY <3>2, FS_AddElement
    <3>4. IsFiniteSet((perms \cup {p}) \cap Blank)
      <4>1. (perms \cup {p}) \cap Blank \in SUBSET ((perms \cap Blank) \cup {p})
        OBVIOUS
      <4>2. QED
        BY <3>3, <4>1, FS_Subset
    <3>5. \A x, y \in (perms \cup {p}) \cap Blank : x = y
      BY <3>1, <3>4, AtMostOne
    <3>6. QED
      BY <2>1, <3>1, <3>5 DEF PermsInv
  <2>4. CASE DropPerm(r)
    BY <1>1, <2>1, <2>4 DEF DropPerm, PermsInv
  <2>5. QED
    BY <2>2, <2>3, <2>4
<1>5. GoneRoleIsBare'
  <2>1. \A k : ById(k)' = ById(k)
    BY <1>2 DEF ById
  <2>2. grants' \subseteq grants
    BY <1>2
  <2> HIDE DEF ById
  <2>3. QED
    BY <1>2, <2>1, <2>2 DEF Inv, GoneRoleIsBare
<1>6. \A q \in Requests \ {r} : pc[q] \in Adding =>
        (\E x \in roles' : x.id = loc[q].role) \/ loc[q].role \in raced'
  BY <1>2 DEF Inv, AddingInv, ById
<1>7. OneChange
  <2>1. RolesOf' = RolesOf
    BY <1>2 DEF RolesOf, ById
  <2>2. \A k \in RolesOf : \A x : x # p => (x \in PermsOf(k)' <=> x \in PermsOf(k))
    BY <1>2 DEF PermsOf
  <2>3. \/ \A k \in RolesOf : p \in PermsOf(k) => p \in PermsOf(k)'
        \/ \A k \in RolesOf : p \in PermsOf(k)' => p \in PermsOf(k)
    BY <1>2 DEF PermsOf
  <2> HIDE DEF RolesOf, PermsOf, OneChange
  <2>4. QED
    BY <2>1, <2>2, <2>3, OnePerm
<1> HIDE DEF Inv, RolesInv, PermsInv, GoneRoleIsBare, OneChange, Finish
<1>8. QED
  BY <1>2, <1>3, <1>4, <1>5, <1>6, <1>7, WriteStep

\* Questions.
LEMMA AskStep ==
  ASSUME Inv, NEW r \in Requests, NEW label \in {"ask", "find"}, Ask(r, label)
  PROVE  Inv'
<1> DEFINE mine == [NoLocal EXCEPT !.todo = RolesOf, !.before = Has]
<1>1. RolesOf \in SUBSET RoleIds /\ Has \in SUBSET Perms
  BY DEF RolesOf, Has, PermsOf, Inv, RolesInv, PermsInv
<1>2. mine \in Local /\ mine.todo = RolesOf /\ mine.before = Has /\ mine.found = {}
      /\ mine.changes = 0
  <2>1. NoLocal.found = {} /\ NoLocal.changes = 0
    BY DEF NoLocal
  <2> HIDE DEF NoLocal, RolesOf, Has
  <2>2. QED
    BY <1>1, <2>1, NoLocalType DEF Local
<1>3. Read(r, label, mine) /\ label \in Labels /\ label \notin Adding
  BY DEF Ask, Labels, Asking, Adding
<1>4. LocalOK(label, mine, made)
  BY DEF LocalOK, Adding
<1> HIDE DEF mine
<1>5. AskOK(mine)
  <2>1. AllOf(RolesOf \ RolesOf) = {}
    BY DEF AllOf
  <2>2. QED
    BY <1>2, <2>1 DEF AskOK
<1> HIDE DEF Inv, Read, LocalOK, AskOK
<1>6. QED
  BY <1>2, <1>3, <1>4, <1>5, ReadStep

LEMMA FindStep ==
  ASSUME Inv, NEW r \in Requests, NEW i \in RoleIds, FindRole(r, i)
  PROVE  Inv'
<1> DEFINE mine == [loc[r] EXCEPT !.role = i]
<1>1. pc[r] = "find" /\ loc[r] \in Local
  BY DEF FindRole, Inv, LocalInv
<1>2. CASE Read(r, "idle", NoLocal)
  <2> HIDE DEF Read, Inv
  <2>1. QED
    BY <1>1, <1>2, GiveUp
<1>3. CASE Read(r, "read", mine)
  <2>1. /\ mine \in Local /\ mine.todo = loc[r].todo /\ mine.before = loc[r].before
        /\ mine.found = loc[r].found /\ mine.changes = loc[r].changes
    BY <1>1 DEF Local
  <2>2. AskOK(loc[r])
    BY <1>1 DEF Inv, AskingInv, Asking
  <2>3. LocalOK("read", mine, made) /\ "read" \in Labels /\ "read" \notin Adding
    BY DEF LocalOK, Labels, Asking, Adding
  <2> HIDE DEF mine
  <2>4. AskOK(mine)
    BY <2>1, <2>2 DEF AskOK
  <2> HIDE DEF Inv, Read, LocalOK, AskOK
  <2>5. QED
    BY <1>3, <2>1, <2>3, <2>4, ReadStep
<1>4. QED
  <2> HIDE DEF Read
  <2>1. QED
    BY <1>2, <1>3 DEF FindRole

LEMMA ReadRoleStep ==
  ASSUME Inv, NEW r \in Requests, NEW i \in RoleIds, ReadRole(r, i)
  PROVE  Inv'
<1> DEFINE mine == [loc[r] EXCEPT !.todo = @ \ {i}, !.role = NoRole, !.found = @ \cup PermsOf(i)]
<1>1. pc[r] \in Asking /\ loc[r] \in Local /\ i \in loc[r].todo
  BY DEF ReadRole, Inv, LocalInv, Asking
<1>2. PICK label \in {"find", "ask"} : Read(r, label, mine)
  <2> HIDE DEF Read
  <2>1. QED
    BY DEF ReadRole
<1>3. PermsOf(i) \in SUBSET Perms
  BY DEF PermsOf, Inv, PermsInv
<1>4. /\ mine \in Local /\ mine.todo = loc[r].todo \ {i} /\ mine.before = loc[r].before
      /\ mine.found = loc[r].found \cup PermsOf(i) /\ mine.changes = loc[r].changes
  <2> HIDE DEF PermsOf, Perms
  <2>1. QED
    BY <1>1, <1>3 DEF Local
<1>5. LocalOK(label, mine, made) /\ label \in Labels /\ label \notin Adding
  BY DEF LocalOK, Labels, Asking, Adding
<1> HIDE DEF mine
<1>6. AskOK(mine)
  <2>1. AskOK(loc[r])
    BY <1>1 DEF Inv, AskingInv
  <2> DEFINE t == loc[r].todo
  <2>2. AllOf(t) = AllOf(t \ {i}) \cup PermsOf(i)
    <3>1. ASSUME NEW p
          PROVE  p \in AllOf(t) <=> p \in AllOf(t \ {i}) \cup PermsOf(i)
      <4>1. p \in AllOf(t) <=> \E k \in t : p \in PermsOf(k)
        BY InAllOf
      <4>2. p \in AllOf(t \ {i}) <=> \E k \in t \ {i} : p \in PermsOf(k)
        BY InAllOf
      <4> HIDE DEF AllOf, PermsOf
      <4>3. QED
        BY <4>1, <4>2, <1>1
    <3> HIDE DEF AllOf, PermsOf
    <3>2. QED
      BY <3>1
  <2>3. CASE loc[r].changes = 0
    <3>1. /\ loc[r].before = Has /\ t \subseteq RolesOf /\ loc[r].found = AllOf(RolesOf \ t)
      BY <2>1, <2>3 DEF AskOK
    <3>2. AllOf(RolesOf \ (t \ {i})) = AllOf(RolesOf \ t) \cup PermsOf(i)
      <4>1. ASSUME NEW p
            PROVE  p \in AllOf(RolesOf \ (t \ {i})) <=> p \in AllOf(RolesOf \ t) \cup PermsOf(i)
        <5>1. p \in AllOf(RolesOf \ t) <=> \E k \in RolesOf \ t : p \in PermsOf(k)
          BY InAllOf
        <5>2. p \in AllOf(RolesOf \ (t \ {i})) <=> \E k \in RolesOf \ (t \ {i}) : p \in PermsOf(k)
          BY InAllOf
        <5>3. i \in RolesOf
          BY <3>1, <1>1
        <5> HIDE DEF AllOf, PermsOf, RolesOf
        <5>4. QED
          BY <5>1, <5>2, <5>3, <1>1
      <4> HIDE DEF AllOf, PermsOf, RolesOf
      <4>2. QED
        BY <4>1
    <3> HIDE DEF AllOf, PermsOf, RolesOf, Has
    <3>3. QED
      BY <3>1, <3>2, <1>4, <2>3 DEF AskOK
  <2>4. CASE loc[r].changes # 0
    <3> HIDE DEF AllOf, PermsOf, RolesOf, Has
    <3>1. mine.found \cup AllOf(mine.todo) = loc[r].found \cup AllOf(t)
      BY <1>4, <2>2
    <3>2. QED
      BY <3>1, <1>4, <2>1, <2>4 DEF AskOK
  <2>5. QED
    BY <2>3, <2>4
<1> HIDE DEF Inv, Read, LocalOK, AskOK
<1>7. QED
  BY <1>2, <1>4, <1>5, <1>6, ReadStep

LEMMA AnswerStep == ASSUME Inv, NEW r \in Requests, Answer(r) PROVE Inv'
<1>1. Read(r, "idle", NoLocal) /\ pc[r] # "idle"
  BY DEF Answer, Answered, FoundOne
<1> HIDE DEF Inv, Read
<1>2. QED
  BY <1>1, GiveUp

-----------------------------------------------------------------------------
(* Roles and permissions: the theorems.                                    *)

LEMMA InitInv == Init => Inv
<1> SUFFICES ASSUME Init PROVE Inv
  OBVIOUS
<1>1. RolesInv /\ GoneRoleIsBare
  BY DEF Init, RolesInv, GoneRoleIsBare
<1>2. PermsInv
  BY AccessControlAssumption DEF Init, PermsInv, Perms
<1>3. LocalInv
  <2>1. \A r \in Requests : LocalOK("idle", NoLocal, made)
    BY DEF LocalOK, Adding
  <2>2. pc \in [Requests -> Labels] /\ loc \in [Requests -> Local]
    <3> HIDE DEF NoLocal
    <3>1. QED
      BY NoLocalType DEF Init, Labels
  <2> HIDE DEF NoLocal, LocalOK
  <2>3. QED
    BY <2>1, <2>2 DEF LocalInv, Init
<1>4. AddingInv /\ AskingInv
  BY DEF Init, AddingInv, AskingInv, Adding, Asking
<1>5. QED
  BY <1>1, <1>2, <1>3, <1>4 DEF Inv

LEMMA RolesNext == Inv /\ Next => Inv'
<1> SUFFICES ASSUME Inv, NEW r \in Requests, OnRoles(r) \/ OnPerms(r) \/ Asks(r) \/ Fail(r)
             PROVE  Inv'
  BY DEF Next
<1> HIDE DEF Inv
<1>1. CASE OnRoles(r)
  <2>1. ASSUME NEW n \in Names, BeginCreate(r, n) \/ \E x \in roles : BeginUpdate(r, x, n)
        PROVE  Inv'
    BY <2>1, BeginStep
  <2>2. ASSUME NEW i \in RoleIds, NEW system \in BOOLEAN, InsertRole(r, i, system)
        PROVE  Inv'
    BY <2>2, InsertRoleStep
  <2>3. ASSUME NEW x \in roles, NEW label \in {"dropRole", "readAgain", "delUser"},
               BeginOnRole(r, x, label, {})
        PROVE  Inv'
    BY <2>3, OnRoleStep
  <2>4. ASSUME NEW x \in roles, NEW label \in {"addPerm", "delPerm"}, NEW p \in Perms,
               BeginOnRole(r, x, label, {p})
        PROVE  Inv'
    <3>1. \E q \in Perms : {p} = {q}
      OBVIOUS
    <3>2. QED
      BY <2>4, <3>1, OnRoleStep
  <2>5. CASE Again(r) \/ NameFree(r)
    BY <2>5, UpdateSteps
  <2>6. CASE SaveRole(r) \/ DropRole(r) \/ ReadAgain(r)
    BY <2>6, SaveRoleStep, DropRoleStep, ReadAgainStep
  <2>7. CASE AddPerm(r) \/ DelPerm(r) \/ AddUser(r) \/ DelUser(r)
    BY <2>7, GrantStep, MemberStep
  <2>8. QED
    BY <1>1, <2>1, <2>2, <2>3, <2>4, <2>5, <2>6, <2>7 DEF OnRoles
<1>2. CASE OnPerms(r)
  <2>1. ASSUME NEW p \in Perms,
               \/ BeginPermission(r, p)
               \/ \E label \in {"againPerm", "dropPerm"} : BeginOnPerm(r, p, label)
        PROVE  Inv'
    BY <2>1, BeginPermStep
  <2>2. CASE InsertPerm(r) \/ SavePerm(r) \/ DropPerm(r)
    BY <2>2, PermStep
  <2>3. CASE AgainPerm(r)
    BY <2>3, AgainPermStep
  <2>4. QED
    BY <1>2, <2>1, <2>2, <2>3 DEF OnPerms
<1>3. CASE Asks(r)
  <2>1. ASSUME NEW label \in {"ask", "find"}, Ask(r, label)
        PROVE  Inv'
    BY <2>1, AskStep
  <2>2. ASSUME NEW i \in RoleIds, FindRole(r, i) \/ ReadRole(r, i)
        PROVE  Inv'
    BY <2>2, FindStep, ReadRoleStep
  <2>3. QED
    BY <1>3, <2>1, <2>2, AnswerStep DEF Asks
<1>4. QED
  BY <1>1, <1>2, <1>3, FailStep

LEMMA RolesStutter == Inv /\ UNCHANGED vars => Inv'
<1> SUFFICES ASSUME Inv, UNCHANGED vars PROVE Inv'
  OBVIOUS
<1>1. UNCHANGED <<roles, perms, spent, grants, members, made, pc, loc, raced>>
  BY DEF vars, tables
<1>2. \A i : ById(i)' = ById(i)
  BY <1>1 DEF ById
<1>3. Has' = Has /\ RolesOf' = RolesOf /\ \A S : AllOf(S)' = AllOf(S)
  <2>1. RolesOf' = RolesOf /\ \A i : PermsOf(i)' = PermsOf(i)
    BY <1>1, <1>2 DEF RolesOf, PermsOf
  <2>2. QED
    BY <2>1 DEF Has, AllOf
<1>4. RolesInv' /\ PermsInv' /\ LocalInv'
  BY <1>1 DEF Inv, RolesInv, PermsInv, LocalInv
<1>5. GoneRoleIsBare' /\ AddingInv'
  BY <1>1, <1>2 DEF Inv, GoneRoleIsBare, AddingInv
<1>6. AskingInv'
  BY <1>1, <1>3 DEF Inv, AskingInv, AskOK
<1>7. QED
  BY <1>4, <1>5, <1>6 DEF Inv

LEMMA RolesInvStep == Inv /\ [Next]_vars => Inv'
BY RolesNext, RolesStutter

\* The invariant of the tables of roles and permissions and of the requests on them.
THEOREM Invariance == Spec => []Inv
<1>1. Inv /\ [Next]_vars => Inv'
  BY RolesInvStep
<1>2. QED
  BY InitInv, <1>1, PTL DEF Spec

LEMMA TypeFollows == Inv => TypeOK
<1> SUFFICES ASSUME Inv PROVE TypeOK
  OBVIOUS
<1>1. Cardinality(perms \cap Blank) <= 1
  BY AtMostOne DEF Inv, PermsInv
<1>2. QED
  BY <1>1 DEF Inv, RolesInv, PermsInv, LocalInv, TypeOK

\* The names of roles stay unique, and so does the empty code of a permission.
THEOREM TypeCorrect == Spec => []TypeOK
BY Invariance, TypeFollows, PTL

\* A role that is gone keeps neither users nor permissions, unless it was deleted
\* between the question whether it is there and an insertion.
THEOREM GoneIsBare == Spec => []GoneRoleIsBare
<1>1. Inv => GoneRoleIsBare
  BY DEF Inv
<1>2. QED
  BY <1>1, Invariance, PTL

LEMMA AnswerFollows == Inv => AnswerIsOfAMoment
<1> SUFFICES ASSUME Inv, NEW r \in Requests, loc[r].changes < 2, Answered(r) \/ FoundOne(r)
             PROVE  /\ Answered(r) => loc[r].found \in {loc[r].before, Has}
                    /\ loc[r].found \subseteq loc[r].before \cup Has
  BY DEF AnswerIsOfAMoment
<1>1. AskOK(loc[r]) /\ (Answered(r) => loc[r].todo = {})
  BY DEF Answered, FoundOne, Asking, Inv, AskingInv
<1>2. loc[r].changes \in {0, 1}
  <2>1. loc[r] \in Local
    BY DEF Inv, LocalInv
  <2>2. QED
    BY <2>1 DEF Local
<1>3. AllOf({}) = {}
  BY DEF AllOf
<1> HIDE DEF Answered, FoundOne
<1>4. CASE loc[r].changes = 0
  <2>1. loc[r].found = AllOf(RolesOf \ loc[r].todo) /\ loc[r].before = Has
    BY <1>1, <1>4 DEF AskOK
  <2>2. loc[r].found \subseteq AllOf(RolesOf)
    BY <2>1 DEF AllOf
  <2>3. Answered(r) => loc[r].found = AllOf(RolesOf)
    BY <1>1, <2>1
  <2>4. QED
    BY <2>1, <2>2, <2>3, HasIsAllOf
<1>5. CASE loc[r].changes = 1
  BY <1>1, <1>3, <1>5 DEF AskOK
<1>6. QED
  BY <1>2, <1>4, <1>5

\* An answer put together from several statements, during which the tables changed
\* at most once, is what the user might do before the change or after it.
THEOREM AnswersAreOfAMoment == Spec => []AnswerIsOfAMoment
BY Invariance, AnswerFollows, PTL

-----------------------------------------------------------------------------
(* The cache of rules.                                                     *)

LEMMA EmptyLoad == C!NoLoad \in Load /\ DOMAIN C!NoLoad.read = {} /\ C!NoLoad.rules = {}
<1>1. << >> \in [{} -> SUBSET Conditions] /\ DOMAIN << >> = {}
  OBVIOUS
<1>2. QED
  BY <1>1 DEF C!NoLoad, Load

LEMMA EmptyJob == C!NoJob \in C!Job /\ C!NoJob.op = "none" /\ C!NoJob.rule = None
BY DEF C!NoJob, C!Job

LEMMA CacheInit == C!Init => CacheInv
<1> SUFFICES ASSUME C!Init PROVE CacheInv
  OBVIOUS
<1> HIDE DEF C!NoLoad, C!NoJob, C!Job, Load
<1>1. CacheTypeInv
  BY EmptyJob, RulesAssumption DEF C!Init, CacheTypeInv
<1>2. LoadInv
  BY EmptyLoad DEF C!Init, LoadInv
<1>3. C!CurrentUnlessRaced
  BY DEF C!Init, C!CurrentUnlessRaced
<1>4. QED
  BY <1>1, <1>2, <1>3 DEF CacheInv

\* A request at its end holds nothing on to.
LEMMA CacheFinish ==
  ASSUME CacheTypeInv, LoadInv, NEW r \in Requests, C!Finish(r),
         UNCHANGED <<enabled, conditions, writes, fresh, overtaken>>, doubtful' \in BOOLEAN
  PROVE  /\ CacheTypeInv' /\ LoadInv'
         /\ cachePc' = [cachePc EXCEPT ![r] = "idle"]
<1> HIDE DEF C!NoLoad, C!NoJob, C!Job, Load
<1>1. /\ cachePc' = [cachePc EXCEPT ![r] = "idle"]
      /\ job' = [job EXCEPT ![r] = C!NoJob]
      /\ seen' = [seen EXCEPT ![r] = None]
      /\ loading' = [loading EXCEPT ![r] = C!NoLoad]
  BY DEF C!Finish, C!Goto
<1>2. CacheTypeInv'
  BY <1>1, EmptyJob, RulesAssumption DEF CacheTypeInv
<1>3. C!Active' = C!Active
  BY DEF C!Active
<1>4. LoadInv'
  BY <1>1, <1>3, EmptyLoad DEF LoadInv, CacheTypeInv
<1>5. QED
  BY <1>1, <1>2, <1>4

LEMMA SameCurrent ==
  ASSUME C!CurrentUnlessRaced, UNCHANGED <<enabled, conditions>>,
         \/ cache' = None
         \/ cache' = cache /\ doubtful' = (cache # None)
         \/ cache' = cache /\ doubtful' = doubtful /\ (C!Invalidating => C!Invalidating')
  PROVE  C!CurrentUnlessRaced'
<1>1. C!Current' = C!Current
  BY DEF C!Current, C!Active
<1> HIDE DEF C!Current
<1>2. QED
  BY <1>1 DEF C!CurrentUnlessRaced

\* A request goes on, or ends, and what the cache is about stays.
LEMMA CacheGoesOn ==
  ASSUME CacheInv, NEW r \in Requests, cachePc[r] # "invalidate",
         UNCHANGED <<enabled, conditions, cache, writes, fresh, overtaken, doubtful>>,
         \/ C!Finish(r)
         \/ /\ UNCHANGED <<job, seen, loading>>
            /\ \/ cachePc[r] = "get" /\ C!Goto(r, "list")
               \/ cachePc[r] = "lookup" /\ C!Goto(r, "write")
               \/ /\ cachePc[r] = "conditions" /\ loading[r].rules = DOMAIN loading[r].read
                  /\ C!Goto(r, "set")
  PROVE  CacheInv'
<1>1. CacheTypeInv /\ LoadInv /\ C!CurrentUnlessRaced
  BY DEF CacheInv
<1>2. \E label : cachePc' = [cachePc EXCEPT ![r] = label]
  BY DEF C!Finish, C!Goto
<1>3. C!CurrentUnlessRaced'
  <2>1. C!Invalidating => C!Invalidating'
    BY <1>1, <1>2 DEF C!Invalidating, CacheTypeInv
  <2>2. QED
    BY <1>1, <2>1, SameCurrent
<1>4. CASE C!Finish(r)
  <2>1. doubtful' \in BOOLEAN
    BY <1>1 DEF CacheTypeInv
  <2>2. QED
    BY <1>1, <1>3, <1>4, <2>1, CacheFinish DEF CacheInv
<1>5. CASE ~ C!Finish(r)
  <2> HIDE DEF C!NoLoad, C!NoJob, C!Job, Load
  <2>1. CacheTypeInv'
    BY <1>1, <1>5 DEF CacheTypeInv, C!Goto
  <2>2. C!Active' = C!Active
    BY DEF C!Active
  <2>3. LoadInv'
    BY <1>1, <1>5, <2>2 DEF LoadInv, CacheTypeInv, C!Goto
  <2>4. QED
    BY <1>3, <2>1, <2>3 DEF CacheInv
<1>6. QED
  BY <1>4, <1>5

LEMMA CacheBegin ==
  ASSUME CacheInv, NEW r \in Requests, NEW what \in C!Job, NEW label, C!Begin(r, what, label),
         label \in {"get", "getRule", "lookup"}, what.op = "update" => label = "getRule",
         label = "getRule" => what.rule \in Rules, what.rule \notin fresh', fresh' \subseteq fresh
  PROVE  CacheInv'
<1> HIDE DEF C!NoLoad, C!NoJob, C!Job, Load
<1>1. /\ CacheTypeInv /\ LoadInv /\ C!CurrentUnlessRaced
      /\ cachePc[r] = "idle" /\ cachePc' = [cachePc EXCEPT ![r] = label]
      /\ job' = [job EXCEPT ![r] = what]
      /\ UNCHANGED <<enabled, conditions, cache, seen, loading, overtaken, doubtful>>
  BY DEF CacheInv, C!Begin, C!Goto, C!table, C!history
<1>2. CacheTypeInv'
  BY <1>1 DEF CacheTypeInv
<1>3. C!Active' = C!Active
  BY <1>1 DEF C!Active
<1>4. LoadInv'
  BY <1>1, <1>3 DEF LoadInv, CacheTypeInv
<1>5. C!CurrentUnlessRaced'
  <2>1. C!Invalidating => C!Invalidating'
    BY <1>1 DEF C!Invalidating, CacheTypeInv
  <2>2. QED
    BY <1>1, <2>1, SameCurrent
<1>6. QED
  BY <1>2, <1>4, <1>5 DEF CacheInv

\* A load reads the rules, then the conditions of each of them, and fills the cache.
LEMMA CacheLoad ==
  ASSUME CacheInv, NEW r \in Requests, C!GetActiveRules(r) \/ C!GetConditions(r) \/ C!Set(r)
  PROVE  CacheInv'
<1> HIDE DEF C!NoLoad, C!NoJob, C!Job, Load
<1>1. CacheTypeInv /\ LoadInv /\ C!CurrentUnlessRaced
  BY DEF CacheInv
<1>2. CASE C!GetActiveRules(r)
  <2> DEFINE l == [rules |-> C!Active, read |-> << >>]
  <2>1. /\ cachePc[r] = "list" /\ cachePc' = [cachePc EXCEPT ![r] = "conditions"]
        /\ loading' = [loading EXCEPT ![r] = l]
        /\ overtaken' = overtaken \ {r}
        /\ UNCHANGED <<enabled, conditions, cache, job, seen, writes, fresh, doubtful>>
    BY <1>2 DEF C!GetActiveRules, C!Goto, C!table
  <2>2. l \in Load /\ DOMAIN l.read = {} /\ l.rules = C!Active
    <3>1. << >> \in [{} -> SUBSET Conditions] /\ DOMAIN << >> = {}
      OBVIOUS
    <3>2. QED
      BY <3>1 DEF Load, C!Active
  <2> HIDE DEF l
  <2>3. CacheTypeInv'
    BY <1>1, <2>1 DEF CacheTypeInv
  <2>4. C!Active' = C!Active
    BY <2>1 DEF C!Active
  <2>5. LoadInv'
    BY <1>1, <2>1, <2>2, <2>4 DEF LoadInv, CacheTypeInv
  <2>6. C!CurrentUnlessRaced'
    <3>1. C!Invalidating => C!Invalidating'
      BY <1>1, <2>1 DEF C!Invalidating, CacheTypeInv
    <3>2. QED
      BY <1>1, <2>1, <3>1, SameCurrent
  <2>7. QED
    BY <2>3, <2>5, <2>6 DEF CacheInv
<1>3. CASE cachePc[r] = "conditions" /\ C!GetConditions(r) /\ loading' = loading
  <2>1. \/ loading[r].rules = DOMAIN loading[r].read /\ C!Goto(r, "set")
        \/ cachePc' = cachePc
    BY <1>3 DEF C!GetConditions
  <2>2. UNCHANGED <<enabled, conditions, cache, job, seen, loading, writes, fresh, overtaken, doubtful>>
    BY <1>3 DEF C!GetConditions, C!table, C!history
  <2>3. CASE cachePc' = cachePc
    <3>1. CacheTypeInv'
      BY <1>1, <2>2, <2>3 DEF CacheTypeInv
    <3>2. C!Active' = C!Active
      BY <2>2 DEF C!Active
    <3>3. LoadInv'
      BY <1>1, <2>2, <2>3, <3>2 DEF LoadInv
    <3>4. C!CurrentUnlessRaced'
      BY <1>1, <2>2, <2>3, SameCurrent DEF C!Invalidating
    <3>5. QED
      BY <3>1, <3>3, <3>4 DEF CacheInv
  <2>4. QED
    BY <1>3, <2>1, <2>2, <2>3, CacheGoesOn
<1>4. ASSUME C!GetConditions(r), NEW x \in loading[r].rules \ DOMAIN loading[r].read,
             loading' = [loading EXCEPT ![r].read = C!With(@, x, conditions[x])], cachePc' = cachePc
      PROVE  CacheInv'
  <2>1. /\ cachePc[r] = "conditions"
        /\ UNCHANGED <<enabled, conditions, cache, job, seen, writes, fresh, overtaken, doubtful>>
    BY <1>4 DEF C!GetConditions, C!table, C!history
  <2> DEFINE f == loading[r].read
             g == C!With(f, x, conditions[x])
             l == [loading[r] EXCEPT !.read = g]
  <2>2. /\ loading[r] \in Load /\ x \in Rules /\ conditions[x] \in SUBSET Conditions
        /\ loading' = [loading EXCEPT ![r] = l]
    <3>1. loading[r] \in Load
      BY <1>1 DEF LoadInv
    <3>2. x \in Rules
      BY <3>1, <1>4 DEF Load
    <3>3. QED
      BY <1>1, <1>4, <3>1, <3>2 DEF LoadInv, CacheTypeInv
  <2>3. /\ DOMAIN g = DOMAIN f \cup {x}
        /\ g = [z \in DOMAIN g |-> g[z]]
        /\ \A z \in DOMAIN g : g[z] = IF z = x THEN conditions[x] ELSE f[z]
    BY DEF C!With
  <2>4. PICK S \in SUBSET Rules : f \in [S -> SUBSET Conditions]
    BY <2>2 DEF Load
  <2>5. DOMAIN g \in SUBSET Rules /\ g \in [DOMAIN g -> SUBSET Conditions]
    BY <2>2, <2>3, <2>4
  <2>6. l \in Load /\ l.read = g /\ l.rules = loading[r].rules
    <3> HIDE DEF g, f
    <3>1. QED
      BY <2>2, <2>5 DEF Load
  <2> HIDE DEF l, g
  <2>7. CacheTypeInv'
    BY <1>1, <1>4, <2>1 DEF CacheTypeInv
  <2>8. C!Active' = C!Active
    BY <2>1 DEF C!Active
  <2>9. LoadInv'
    <3>1. loading' \in [Requests -> Load] /\ loading'[r] = l
          /\ \A q \in Requests \ {r} : loading'[q] = loading[q]
      BY <1>1, <2>2, <2>6 DEF LoadInv
    <3>2. \A q \in Requests \ {r} : DOMAIN loading'[q].read \subseteq loading'[q].rules
      BY <1>1, <3>1 DEF LoadInv
    <3>3. DOMAIN l.read \subseteq l.rules
      BY <1>1, <1>4, <2>3, <2>6 DEF LoadInv
    <3>4. \A q \in Requests : cachePc'[q] = "set" => DOMAIN loading'[q].read = loading'[q].rules
      BY <1>1, <1>4, <2>1, <3>1 DEF LoadInv
    <3>5. r \notin overtaken =>
            l.rules = C!Active /\ \A z \in DOMAIN l.read : l.read[z] = conditions[z]
      BY <1>1, <2>1, <2>3, <2>6 DEF LoadInv
    <3>6. ASSUME NEW q \in Requests \ overtaken', cachePc'[q] \in {"conditions", "set"}
          PROVE  /\ loading'[q].rules = C!Active'
                 /\ \A z \in DOMAIN loading'[q].read : loading'[q].read[z] = conditions'[z]
      <4>1. q \in Requests \ overtaken /\ cachePc[q] \in {"conditions", "set"}
        BY <1>4, <2>1, <3>6
      <4>2. CASE q = r
        BY <2>1, <2>8, <3>1, <3>5, <4>1, <4>2
      <4>3. CASE q # r
        <5>1. loading'[q] = loading[q]
          BY <3>1, <4>3
        <5>2. /\ loading[q].rules = C!Active
              /\ \A z \in DOMAIN loading[q].read : loading[q].read[z] = conditions[z]
          BY <1>1, <4>1 DEF LoadInv
        <5>3. QED
          BY <2>1, <2>8, <5>1, <5>2
      <4>4. QED
        BY <4>2, <4>3
    <3>7. QED
      BY <3>1, <3>2, <3>3, <3>4, <3>6 DEF LoadInv
  <2>10. C!CurrentUnlessRaced'
    BY <1>1, <1>4, <2>1, SameCurrent DEF C!Invalidating
  <2>11. QED
    BY <2>7, <2>9, <2>10 DEF CacheInv
<1>5. CASE C!Set(r)
  <2>1. /\ cachePc[r] = "set" /\ cachePc' = [cachePc EXCEPT ![r] = "again"]
        /\ cache' = loading[r].read /\ doubtful' = (r \in overtaken)
        /\ UNCHANGED <<enabled, conditions, job, seen, loading, writes, fresh, overtaken>>
    BY <1>5 DEF C!Set, C!Goto, C!table
  <2>2. CacheTypeInv'
    BY <1>1, <2>1 DEF CacheTypeInv
  <2>3. C!Active' = C!Active
    BY <2>1 DEF C!Active
  <2>4. LoadInv'
    BY <1>1, <2>1, <2>3 DEF LoadInv, CacheTypeInv
  <2>5. C!CurrentUnlessRaced'
    <3>1. SUFFICES ASSUME r \notin overtaken
                   PROVE  cache' = C!Current'
      BY <2>1 DEF C!CurrentUnlessRaced
    <3>2. PICK S \in SUBSET Rules : loading[r].read \in [S -> SUBSET Conditions]
      <4>1. loading[r] \in Load
        BY <1>1 DEF LoadInv
      <4>2. QED
        BY <4>1 DEF Load
    <3>3. /\ DOMAIN loading[r].read = C!Active
          /\ \A x \in DOMAIN loading[r].read : loading[r].read[x] = conditions[x]
      BY <1>1, <2>1, <3>1 DEF LoadInv
    <3>4. loading[r].read = [x \in C!Active |-> conditions[x]]
      BY <3>2, <3>3
    <3>5. QED
      BY <2>1, <2>3, <3>4 DEF C!Current
  <2>6. QED
    BY <2>2, <2>4, <2>5 DEF CacheInv
<1>6. CASE C!GetConditions(r)
  <2>1. /\ cachePc[r] = "conditions"
        /\ \/ loading' = loading
           \/ /\ cachePc' = cachePc
              /\ \E x \in loading[r].rules \ DOMAIN loading[r].read :
                   loading' = [loading EXCEPT ![r].read = C!With(@, x, conditions[x])]
    BY <1>6 DEF C!GetConditions
  <2>2. QED
    BY <1>3, <1>4, <1>6, <2>1
<1>7. QED
  BY <1>2, <1>5, <1>6

\* A write of a rule, with the loads it overtakes.
LEMMA CacheWritten ==
  ASSUME CacheInv, NEW r \in Requests, C!Written(r),
         enabled' \in [Rules -> BOOLEAN \cup {None}], conditions' \in [Rules -> SUBSET Conditions],
         \A x \in Rules \ {job[r].rule} : enabled'[x] = enabled[x] /\ conditions'[x] = conditions[x]
  PROVE  CacheInv'
<1> HIDE DEF C!NoLoad, C!NoJob, C!Job, Load
<1>1. /\ CacheTypeInv /\ LoadInv
      /\ cachePc[r] = "write" /\ cachePc' = [cachePc EXCEPT ![r] = "invalidate"]
      /\ overtaken' = overtaken \cup {q \in Requests : cachePc[q] \in {"conditions", "set"}}
      /\ UNCHANGED <<cache, job, seen, loading, writes, fresh, doubtful>>
  BY DEF CacheInv, C!Written, C!Goto, C!Loading
<1>2. CacheTypeInv'
  BY <1>1 DEF CacheTypeInv
<1>3. LoadInv'
  BY <1>1 DEF LoadInv, CacheTypeInv
<1>4. C!CurrentUnlessRaced'
  BY <1>1 DEF C!CurrentUnlessRaced, C!Invalidating, CacheTypeInv
<1>5. QED
  BY <1>2, <1>3, <1>4 DEF CacheInv

LEMMA CacheWrites ==
  ASSUME CacheInv, NEW r \in Requests,
         \/ C!Create(r) \/ C!Update(r) \/ C!Delete(r)
         \/ C!AddConditions(r) \/ C!UpdateConditions(r) \/ C!RemoveConditions(r)
  PROVE  CacheInv'
<1>1. C!Written(r)
  BY DEF C!Create, C!Update, C!Delete, C!AddConditions, C!UpdateConditions, C!RemoveConditions
<1>2. /\ enabled \in [Rules -> BOOLEAN \cup {None}] /\ conditions \in [Rules -> SUBSET Conditions]
      /\ job[r].enabled \in BOOLEAN /\ job[r].conditions \in SUBSET Conditions
  BY DEF CacheInv, CacheTypeInv, C!Job
<1> DEFINE x == job[r].rule
<1>3. /\ enabled' \in [Rules -> BOOLEAN \cup {None}] /\ conditions' \in [Rules -> SUBSET Conditions]
      /\ \A y \in Rules \ {x} : enabled'[y] = enabled[y] /\ conditions'[y] = conditions[y]
  <2> HIDE DEF x, C!Written
  <2>1. CASE C!Create(r)
    BY <1>2, <2>1 DEF C!Create, x
  <2>2. CASE C!Update(r)
    <3>1. enabled' = [enabled EXCEPT ![x] = job[r].enabled \/ enabled[x] = None]
          /\ conditions' = conditions
      BY <2>2 DEF C!Update, x
    <3> DEFINE b == job[r].enabled \/ enabled[x] = None
    <3>2. b \in BOOLEAN
      BY <1>2
    <3>3. enabled' = [enabled EXCEPT ![x] = b]
      BY <3>1
    <3> HIDE DEF b
    <3>4. QED
      BY <1>2, <3>1, <3>2, <3>3
  <2>3. CASE C!Delete(r)
    BY <1>2, <2>3 DEF C!Delete, x
  <2>4. CASE C!AddConditions(r)
    BY <1>2, <2>4 DEF C!AddConditions, x
  <2>5. CASE C!UpdateConditions(r)
    BY <1>2, <2>5 DEF C!UpdateConditions, x
  <2>6. CASE C!RemoveConditions(r)
    BY <1>2, <2>6 DEF C!RemoveConditions, x
  <2>7. QED
    BY <2>1, <2>2, <2>3, <2>4, <2>5, <2>6
<1>4. QED
  BY <1>1, <1>3, CacheWritten

\* The end of a write, with or without its invalidation, and the end of a cache.
LEMMA CacheDropped ==
  ASSUME CacheInv,
         C!Expire \/ \E r \in Requests : C!InvalidateCache(r) \/ C!InvalidateFails(r)
  PROVE  CacheInv'
<1>1. CacheTypeInv /\ LoadInv /\ C!CurrentUnlessRaced
  BY DEF CacheInv
<1>2. CASE C!Expire
  <2>1. /\ cache' = None /\ doubtful' = FALSE
        /\ UNCHANGED <<enabled, conditions, cachePc, job, seen, loading, writes, fresh, overtaken>>
    BY <1>2 DEF C!Expire, C!table, C!request
  <2>2. CacheTypeInv'
    BY <1>1, <2>1 DEF CacheTypeInv
  <2>3. C!Active' = C!Active
    BY <2>1 DEF C!Active
  <2>4. LoadInv'
    BY <1>1, <2>1, <2>3 DEF LoadInv
  <2>5. C!CurrentUnlessRaced'
    BY <1>1, <2>1, SameCurrent
  <2>6. QED
    BY <2>2, <2>4, <2>5 DEF CacheInv
<1>3. ASSUME NEW r \in Requests, C!InvalidateCache(r) \/ C!InvalidateFails(r)
      PROVE  CacheInv'
  <2>1. /\ C!Finish(r) /\ UNCHANGED <<enabled, conditions, writes, fresh, overtaken>>
        /\ \/ cache' = None /\ doubtful' = FALSE
           \/ cache' = cache /\ doubtful' = (cache # None)
    BY <1>3 DEF C!InvalidateCache, C!InvalidateFails, C!table
  <2>2. doubtful' \in BOOLEAN
    BY <2>1
  <2>3. C!CurrentUnlessRaced'
    BY <1>1, <2>1, SameCurrent
  <2>4. CacheTypeInv' /\ LoadInv'
    BY <1>1, <2>1, <2>2, CacheFinish
  <2>5. QED
    BY <2>3, <2>4 DEF CacheInv
<1>4. QED
  BY <1>2, <1>3

LEMMA CacheBeginsWrite ==
  ASSUME CacheInv, NEW r \in Requests, NEW what \in C!Job, what.rule \in Rules,
         C!BeginWrite(r, what)
  PROVE  CacheInv'
<1> DEFINE label == IF what.op = "update" THEN "getRule" ELSE "lookup"
<1>1. fresh' = fresh \ {what.rule} /\ C!Begin(r, what, label)
  BY DEF C!BeginWrite
<1>2. label \in {"get", "getRule", "lookup"} /\ (what.op = "update" => label = "getRule")
  OBVIOUS
<1> HIDE DEF label, C!Begin, CacheInv
<1>3. QED
  BY <1>1, <1>2, CacheBegin

LEMMA CacheReads ==
  ASSUME CacheInv, NEW r \in Requests,
         \/ C!Get(r) \/ C!SetFails(r) \/ C!GetAgain(r)
         \/ C!Lookup(r) \/ C!SaveFails(r) \/ C!GetRule(r)
  PROVE  CacheInv'
<1> HIDE DEF CacheInv
<1>1. CASE C!Get(r) \/ C!SetFails(r) \/ C!GetAgain(r) \/ C!Lookup(r) \/ C!SaveFails(r)
  <2>1. /\ cachePc[r] # "invalidate"
        /\ UNCHANGED <<enabled, conditions, cache, writes, fresh, overtaken, doubtful>>
    BY <1>1 DEF C!Get, C!SetFails, C!GetAgain, C!Lookup, C!SaveFails, C!table, C!history
  <2>2. \/ C!Finish(r)
        \/ /\ UNCHANGED <<job, seen, loading>>
           /\ \/ cachePc[r] = "get" /\ C!Goto(r, "list")
              \/ cachePc[r] = "lookup" /\ C!Goto(r, "write")
    <3> HIDE DEF C!Finish, C!Goto
    <3>1. QED
      BY <1>1 DEF C!Get, C!SetFails, C!GetAgain, C!Lookup, C!SaveFails
  <2> HIDE DEF C!Finish, C!Goto
  <2>3. QED
    BY <2>1, <2>2, CacheGoesOn
<1>2. CASE C!GetRule(r) /\ C!Finish(r)
  <2>1. /\ cachePc[r] # "invalidate"
        /\ UNCHANGED <<enabled, conditions, cache, writes, fresh, overtaken, doubtful>>
    BY <1>2 DEF C!GetRule, C!table, C!history
  <2> HIDE DEF C!Finish, C!Goto
  <2>2. QED
    BY <1>2, <2>1, CacheGoesOn
<1>3. CASE C!GetRule(r) /\ ~ C!Finish(r)
  <2> DEFINE x == enabled[job[r].rule]
  <2>1. /\ cachePc[r] = "getRule" /\ cachePc' = [cachePc EXCEPT ![r] = "lookup"]
        /\ x # None /\ seen' = [seen EXCEPT ![r] = x]
        /\ UNCHANGED <<enabled, conditions, cache, job, loading, writes, fresh, overtaken, doubtful>>
    BY <1>3 DEF C!GetRule, C!Goto, C!table, C!history
  <2>2. CacheTypeInv /\ LoadInv /\ C!CurrentUnlessRaced
    BY DEF CacheInv
  <2>3. x \in BOOLEAN
    BY <2>1, <2>2 DEF CacheTypeInv
  <2> HIDE DEF x
  <2>4. CacheTypeInv'
    BY <2>1, <2>2, <2>3 DEF CacheTypeInv
  <2>5. C!Active' = C!Active
    BY <2>1 DEF C!Active
  <2>6. LoadInv'
    BY <2>1, <2>2, <2>5 DEF LoadInv, CacheTypeInv
  <2>7. C!CurrentUnlessRaced'
    <3>1. C!Invalidating => C!Invalidating'
      BY <2>1, <2>2 DEF C!Invalidating, CacheTypeInv
    <3>2. QED
      BY <2>1, <2>2, <3>1, SameCurrent
  <2>8. QED
    BY <2>4, <2>6, <2>7 DEF CacheInv
<1>4. QED
  BY <1>1, <1>2, <1>3

LEMMA CacheNext == CacheInv /\ C!Next => CacheInv'
<1> SUFFICES ASSUME CacheInv, C!Next PROVE CacheInv'
  OBVIOUS
<1> HIDE DEF CacheInv
<1>1. ASSUME NEW r \in Requests, C!BeginEvaluate(r)
      PROVE  CacheInv'
  <2> DEFINE what == [C!NoJob EXCEPT !.op = "evaluate"]
  <2>1. what \in C!Job /\ what.op = "evaluate" /\ what.rule = None
    BY DEF C!NoJob, C!Job
  <2>2. C!Begin(r, what, "get") /\ fresh' = fresh
    BY <1>1 DEF C!BeginEvaluate
  <2>3. None \notin fresh
    BY RulesAssumption DEF CacheInv, CacheTypeInv
  <2> HIDE DEF what, C!Begin
  <2>4. QED
    BY <2>1, <2>2, <2>3, CacheBegin
<1>2. ASSUME NEW r \in Requests, NEW x \in Rules, NEW op \in {"create", "update"}, NEW e \in BOOLEAN,
             C!BeginWrite(r, [C!NoJob EXCEPT !.op = op, !.rule = x, !.enabled = e])
      PROVE  CacheInv'
  <2> DEFINE what == [C!NoJob EXCEPT !.op = op, !.rule = x, !.enabled = e]
  <2>1. what \in C!Job /\ what.rule = x
    BY DEF C!NoJob, C!Job
  <2> HIDE DEF what, C!BeginWrite
  <2>2. C!BeginWrite(r, what)
    BY <1>2 DEF what
  <2>3. QED
    BY <2>1, <2>2, CacheBeginsWrite
<1>3. ASSUME NEW r \in Requests, NEW x \in Rules, NEW op \in {"delete", "clear"},
             C!BeginWrite(r, [C!NoJob EXCEPT !.op = op, !.rule = x])
      PROVE  CacheInv'
  <2> DEFINE what == [C!NoJob EXCEPT !.op = op, !.rule = x]
  <2>1. what \in C!Job /\ what.rule = x
    BY DEF C!NoJob, C!Job
  <2> HIDE DEF what, C!BeginWrite
  <2>2. C!BeginWrite(r, what)
    BY <1>3 DEF what
  <2>3. QED
    BY <2>1, <2>2, CacheBeginsWrite
<1>4. ASSUME NEW r \in Requests, NEW x \in Rules, NEW op \in {"add", "replace"},
             NEW K \in SUBSET Conditions,
             C!BeginWrite(r, [C!NoJob EXCEPT !.op = op, !.rule = x, !.conditions = K])
      PROVE  CacheInv'
  <2> DEFINE what == [C!NoJob EXCEPT !.op = op, !.rule = x, !.conditions = K]
  <2>1. what \in C!Job /\ what.rule = x
    BY DEF C!NoJob, C!Job
  <2> HIDE DEF what, C!BeginWrite
  <2>2. C!BeginWrite(r, what)
    BY <1>4 DEF what
  <2>3. QED
    BY <2>1, <2>2, CacheBeginsWrite
<1>5. ASSUME NEW r \in Requests, C!Evaluate(r)
      PROVE  CacheInv'
  BY <1>5, <1>1, CacheReads, CacheLoad DEF C!Evaluate
<1>6. ASSUME NEW r \in Requests, C!Write(r)
      PROVE  CacheInv'
  BY <1>6, <1>2, <1>3, <1>4, CacheReads, CacheWrites, CacheDropped DEF C!Write
<1>7. QED
  BY <1>5, <1>6, CacheDropped DEF C!Next

LEMMA CacheStutter == CacheInv /\ UNCHANGED cacheVars => CacheInv'
<1> SUFFICES ASSUME CacheInv, UNCHANGED cacheVars PROVE CacheInv'
  OBVIOUS
<1>1. UNCHANGED <<enabled, conditions, cache, cachePc, job, seen, loading, writes, fresh, overtaken,
                  doubtful>>
  BY DEF cacheVars
<1>2. C!Active' = C!Active
  BY <1>1 DEF C!Active
<1>3. CacheTypeInv'
  BY <1>1 DEF CacheInv, CacheTypeInv
<1>4. LoadInv'
  BY <1>1, <1>2 DEF CacheInv, LoadInv
<1>5. C!CurrentUnlessRaced'
  BY <1>1, SameCurrent DEF CacheInv, C!Invalidating
<1>6. QED
  BY <1>3, <1>4, <1>5 DEF CacheInv

-----------------------------------------------------------------------------
(* The specification that holds all three parts.                           *)

allVars == <<focus, vars, cacheVars, engineVars>>
AllNext == RolesStep \/ CacheStep \/ EngineStep

\* The invariant of the rules' tables, their cache and the requests on them.
THEOREM CacheInvariance == AllSpec => []CacheInv
<1>1. AllInit => CacheInv
  BY CacheInit DEF AllInit
<1>2. CacheInv /\ [AllNext]_allVars => CacheInv'
  <2> HIDE DEF CacheInv, cacheVars
  <2>1. [AllNext]_allVars => C!Next \/ UNCHANGED cacheVars
    BY DEF AllNext, allVars, RolesStep, CacheStep, EngineStep
  <2>2. QED
    BY <2>1, CacheNext, CacheStutter
<1>3. QED
  BY <1>1, <1>2, PTL DEF AllSpec, AllNext, allVars

\* The cache holds the enabled rules and their conditions as they are, but between
\* a write and its invalidation, after a write that overtook the load, and after
\* Redis failed to invalidate.
THEOREM CacheIsCurrent == AllSpec => []CurrentUnlessRaced
<1>1. CacheInv => CurrentUnlessRaced
  BY DEF CacheInv, CurrentUnlessRaced
<1>2. QED
  BY <1>1, CacheInvariance, PTL

\* Every behaviour is one of roles and permissions as well.
LEMMA RolesPart == AllSpec => Spec
<1>1. AllInit => Init
  BY DEF AllInit
<1>2. [AllNext]_allVars => [Next]_vars
  <2> HIDE DEF vars
  <2>1. QED
    BY DEF AllNext, allVars, RolesStep, CacheStep, EngineStep
<1>3. QED
  BY <1>1, <1>2, PTL DEF AllSpec, Spec, AllNext, allVars

\* The tables, the requests and the cache have their types; in particular a row that
\* is saved has been read, and the ids not given yet have no rows.
THEOREM AllTyped == AllSpec => []TypesOK
<1>1. TypeOK /\ CacheInv => TypesOK
  <2> SUFFICES ASSUME TypeOK, CacheInv PROVE C!TypeOK
    BY DEF TypesOK
  <2> HIDE DEF C!Job
  <2>1. QED
    BY DEF CacheInv, CacheTypeInv, LoadInv, C!TypeOK
<1>2. QED
  BY <1>1, RolesPart, TypeCorrect, CacheInvariance, PTL

-----------------------------------------------------------------------------
(* The evaluation of rules.                                                *)

LEMMA FunctionIsSequence ==
  ASSUME NEW n \in Nat, NEW S, NEW s \in [1..n -> S]
  PROVE  s \in Seq(S) /\ Len(s) = n /\ DOMAIN s = 1..n
OBVIOUS

\* A rule is found to hold just when it has conditions and all of them hold, in
\* whichever order they are evaluated.
LEMMA VerdictIsMeaning ==
  ASSUME NEW K, NEW d, NEW v \in E!EvaluateRule(K, d)
  PROVE  v = "true" <=> K # {} /\ \A c \in K : E!Holds(c, d) = "true"
<1> HIDE DEF E!Holds
<1> DEFINE verdicts == {E!Holds(c, d) : c \in K}
<1>1. v \in (IF K = {} THEN {"error"}
             ELSE IF verdicts = {"true"} THEN {"true"} ELSE verdicts \ {"true"})
  BY DEF E!EvaluateRule
<1>2. verdicts = {"true"} <=> K # {} /\ \A c \in K : E!Holds(c, d) = "true"
  OBVIOUS
<1> HIDE DEF verdicts
<1>3. QED
  BY <1>1, <1>2

LEMMA EngineInit == AllInit => EngineInv
<1> SUFFICES ASSUME AllInit, focus = "engine" PROVE EngineInv
  BY DEF EngineInv
<1>1. E!Init
  BY DEF AllInit
<1>2. PICK R \in RuleSets : rules \in E!GetActiveRules(R)
  BY <1>1 DEF E!Init
<1> DEFINE active == {x \in R : x.enabled}
           n == Cardinality(active)
<1>3. IsFiniteSet(active) /\ \A x \in active : x.priority \in Int
  BY EngineAssumption, FS_Subset
<1>4. n \in Nat
  BY <1>3, FS_CardinalityType
<1>5. /\ rules \in [1..n -> active]
      /\ \A i, j \in DOMAIN rules : i < j => rules[i].priority >= rules[j].priority
  <2>0. E!Cardinality(active) = n
    BY DEF Cardinality, E!Cardinality
  <2>1. rules \in {s \in [1..n -> active] :
                    /\ {s[i] : i \in DOMAIN s} = active
                    /\ \A i, j \in DOMAIN s : i < j => s[i].priority >= s[j].priority}
    BY <1>2, <2>0 DEF E!GetActiveRules
  <2> HIDE DEF n, active
  <2>2. QED
    BY <2>1
<1> HIDE DEF n, active
<1>6. Len(rules) = n /\ DOMAIN rules = 1..n
  BY <1>4, <1>5, FunctionIsSequence
<1>7. QED
  BY <1>1, <1>3, <1>4, <1>5, <1>6 DEF E!Init, EngineInv

LEMMA EngineNext == EngineInv /\ EngineStep => EngineInv'
<1> SUFFICES ASSUME EngineInv, EngineStep PROVE EngineInv'
  OBVIOUS
<1>1. /\ focus = "engine" /\ focus' = focus /\ rules' = rules /\ data' = data
      /\ E!TryRule \/ E!Deny
  BY DEF EngineStep, E!Next, E!TryRule, E!Deny
<1>2. /\ Len(rules) \in Nat /\ DOMAIN rules = 1..Len(rules)
      /\ \A i, j \in DOMAIN rules : i < j => rules[i].priority >= rules[j].priority
      /\ \A i \in DOMAIN rules : rules[i].priority \in Int
      /\ at \in 1..(Len(rules) + 1)
      /\ \A i \in DOMAIN rules : i < at => ~ E!Satisfied(rules[i])
  BY <1>1 DEF EngineInv
<1>3. \A x : E!Satisfied(x)' <=> E!Satisfied(x)
  BY <1>1 DEF E!Satisfied
<1>4. CASE E!TryRule
  <2>1. PICK verdict \in E!EvaluateRule(rules[at].conditions, data) :
          result' = IF verdict = "true" /\ rules[at].enabled THEN "allowed" ELSE "none"
    BY <1>4 DEF E!TryRule
  <2>2. verdict = "true" /\ rules[at].enabled <=> E!Satisfied(rules[at])
    BY VerdictIsMeaning DEF E!Satisfied
  <2>3. at <= Len(rules) /\ at' = (IF result' = "allowed" THEN at ELSE at + 1)
    BY <1>4 DEF E!TryRule
  <2> HIDE DEF E!Satisfied
  <2>4. CASE E!Satisfied(rules[at])
    BY <1>1, <1>2, <1>3, <2>1, <2>2, <2>3, <2>4 DEF EngineInv
  <2>5. CASE ~ E!Satisfied(rules[at])
    BY <1>1, <1>2, <1>3, <2>1, <2>2, <2>3, <2>5 DEF EngineInv
  <2>6. QED
    BY <2>4, <2>5
<1>5. CASE E!Deny
  <2>1. result' = "denied" /\ at' = at /\ at = Len(rules) + 1
    BY <1>2, <1>5 DEF E!Deny
  <2> HIDE DEF E!Satisfied
  <2>2. QED
    BY <1>1, <1>2, <1>3, <2>1 DEF EngineInv
<1>6. QED
  BY <1>1, <1>4, <1>5

\* The rules are sorted, and those passed over do not hold.
THEOREM EngineInvariance == AllSpec => []EngineInv
<1>1. EngineInv /\ [AllNext]_allVars => EngineInv'
  <2> SUFFICES ASSUME EngineInv, UNCHANGED <<focus, engineVars>> PROVE EngineInv'
    BY EngineNext DEF AllNext, allVars, RolesStep, CacheStep
  <2>1. UNCHANGED <<focus, rules, data, at, result>>
    BY DEF engineVars
  <2>2. \A x : E!Satisfied(x)' <=> E!Satisfied(x)
    BY <2>1 DEF E!Satisfied
  <2> HIDE DEF E!Satisfied
  <2>3. QED
    BY <2>1, <2>2 DEF EngineInv
<1>2. QED
  BY EngineInit, <1>1, PTL DEF AllSpec, AllNext, allVars

LEMMA MeaningFollows == EngineInv => AnswerIsMeaning
<1> SUFFICES ASSUME EngineInv, focus = "engine" PROVE E!AnswerIsMeaning
  BY DEF AnswerIsMeaning
<1> HIDE DEF E!Satisfied
<1>1. ASSUME result = "denied", NEW i \in DOMAIN rules
      PROVE  ~ E!Satisfied(rules[i])
  BY <1>1 DEF EngineInv
<1>2. ASSUME result = "allowed"
      PROVE  /\ E!Satisfied(rules[at])
             /\ \A i \in DOMAIN rules : E!Satisfied(rules[i]) => rules[i].priority <= rules[at].priority
  <2>1. ASSUME NEW i \in DOMAIN rules, E!Satisfied(rules[i])
        PROVE  rules[i].priority <= rules[at].priority
    <3>1. at \in DOMAIN rules /\ ~ (i < at)
      BY <1>2, <2>1 DEF EngineInv
    <3>2. i = at \/ at < i
      BY <3>1 DEF EngineInv
    <3>3. rules[i].priority \in Int /\ rules[at].priority \in Int
      BY <3>1 DEF EngineInv
    <3>4. at < i => rules[at].priority >= rules[i].priority
      BY <3>1 DEF EngineInv
    <3>5. QED
      BY <3>2, <3>3, <3>4
  <2>2. QED
    BY <1>2, <2>1 DEF EngineInv
<1>3. QED
  BY <1>1, <1>2 DEF E!AnswerIsMeaning

\* The answer of the engine is the meaning of the rules, in whichever order rules of
\* one priority and the conditions of a rule came from the database.
THEOREM AnswersAreTheMeaning == AllSpec => []AnswerIsMeaning
BY EngineInvariance, MeaningFollows, PTL

\* What comparing operators say of data that are there.
LEMMA Comparing ==
  ASSUME NEW f, NEW s, data[f].kind # "absent"
  PROVE  LET v == E!CompareValues(data[f], s) IN
           /\ E!Meets(f, "eq", s) <=> data[f] = E!String(s)
           /\ E!Meets(f, "ne", s) <=> data[f] # E!String(s)
           /\ E!Meets(f, "gt", s) <=> v > 0
           /\ E!Meets(f, "gte", s) <=> v >= 0
           /\ E!Meets(f, "lt", s) <=> v < 0
           /\ E!Meets(f, "lte", s) <=> v <= 0
<1> DEFINE c(op) == [field |-> f, op |-> op, value |-> s]
<1>1. ASSUME NEW op \in {"eq", "ne", "gt", "gte", "lt", "lte"}
      PROVE  E!Meets(f, op, s) <=> E!Says(c(op), data[f])
  <2>1. c(op).field = f /\ c(op).op = op
    OBVIOUS
  <2>2. E!Holds(c(op), data) = IF E!Says(c(op), data[f]) THEN "true" ELSE "false"
    <3> HIDE DEF c, E!Says
    <3>1. QED
      BY <2>1 DEF E!Holds
  <2> HIDE DEF E!Says
  <2>3. QED
    BY <2>2 DEF E!Meets
<1>2. ASSUME NEW op \in {"eq", "ne", "gt", "gte", "lt", "lte"}
      PROVE  E!Says(c(op), data[f]) <=>
               \/ op = "eq" /\ data[f] = E!String(s)
               \/ op = "ne" /\ data[f] # E!String(s)
               \/ E!Compares(op, data[f], s)
  <2>1. c(op).op = op /\ c(op).value = s
    OBVIOUS
  <2> HIDE DEF c, E!Compares
  <2>2. QED
    BY <2>1 DEF E!Says
<1> HIDE DEF E!Meets, E!CompareValues, E!String, E!Says
<1>3. QED
  BY <1>1, <1>2 DEF E!Compares

LEMMA Sides ==
  ASSUME EngineInv, focus = "engine"
  PROVE  E!OneSideOfTheValue
<1> SUFFICES ASSUME NEW f \in DataFields, NEW s \in Strings
    PROVE
    /\ data[f].kind = "string" =>
         \E side \in {"lt", "eq", "gt"} :
           /\ \A op \in {"lt", "eq", "gt"} : E!Meets(f, op, s) <=> op = side
           /\ E!Meets(f, "lte", s) <=> side \in {"lt", "eq"}
           /\ E!Meets(f, "gte", s) <=> side \in {"gt", "eq"}
           /\ E!Meets(f, "ne", s) <=> side # "eq"
    /\ data[f].kind \notin {"string", "absent"} =>
         \A op \in {"eq", "ne", "gt", "gte", "lt", "lte"} :
           E!Meets(f, op, s) <=> op \in {"ne", "gte", "lte"}
    /\ data[f].kind = "absent" => \A op \in E!Ops : ~ E!Meets(f, op, s)
  <2> HIDE DEF E!Meets, E!Ops
  <2>1. QED
    BY DEF E!OneSideOfTheValue
<1> DEFINE x == data[f]
           v == E!CompareValues(x, s)
<1>1. CASE x.kind = "string"
  <2>1. x \in [kind : {"string"}, is : Strings]
    BY <1>1, EngineAssumption DEF EngineInv
  <2>2. x.is \in Strings /\ (x = E!String(s) <=> x.is = s)
    BY <2>1 DEF E!String
  <2>3. \/ <<x.is, s>> \in Before /\ x.is # s /\ v = -1
        \/ <<s, x.is>> \in Before /\ x.is # s /\ v = 1
        \/ x.is = s /\ v = 0
    BY <2>2, <1>1, EngineAssumption DEF E!CompareValues
  <2>4. /\ E!Meets(f, "eq", s) <=> x.is = s
        /\ E!Meets(f, "ne", s) <=> x.is # s
        /\ E!Meets(f, "gt", s) <=> v > 0
        /\ E!Meets(f, "gte", s) <=> v >= 0
        /\ E!Meets(f, "lt", s) <=> v < 0
        /\ E!Meets(f, "lte", s) <=> v <= 0
    <3> HIDE DEF E!Meets, E!CompareValues, E!String
    <3>1. QED
      BY <1>1, <2>2, Comparing
  <2> HIDE DEF x, v, E!Meets
  <2>5. CASE v = -1 /\ x.is # s
    BY <2>4, <2>5, <1>1 DEF x
  <2>6. CASE v = 1 /\ x.is # s
    BY <2>4, <2>6, <1>1 DEF x
  <2>7. CASE v = 0 /\ x.is = s
    BY <2>4, <2>7, <1>1 DEF x
  <2>8. QED
    BY <2>3, <2>5, <2>6, <2>7
<1>2. CASE x.kind \notin {"string", "absent"}
  <2>1. v = 0 /\ x # E!String(s)
    BY <1>2 DEF E!CompareValues, E!String
  <2> HIDE DEF E!Meets, E!CompareValues, E!String
  <2>2. QED
    BY <1>2, <2>1, Comparing
<1>3. CASE x.kind = "absent"
  <2>1. ASSUME NEW op
        PROVE  ~ E!Meets(f, op, s)
    BY <1>3 DEF E!Meets, E!Holds
  <2> HIDE DEF E!Meets
  <2>2. QED
    BY <1>3, <2>1
<1> HIDE DEF E!Meets
<1>4. QED
  BY <1>1, <1>2, <1>3

\* Whatever the strings, their order and the data: a string is on one side of the value
\* of a condition whichever operator asks, data of another kind are on none, and no
\* condition holds of data that are absent.
THEOREM OneSide == AllSpec => []OneSideOfTheValue
<1>1. EngineInv => OneSideOfTheValue
  BY Sides DEF OneSideOfTheValue
<1>2. QED
  BY EngineInvariance, <1>1, PTL
==============================================================================
