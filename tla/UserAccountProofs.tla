-------------------------- MODULE UserAccountProofs --------------------------
(***************************************************************************)
(* Accounts, profiles and files for any passwords and requests and any     *)
(* bounds.                                                                 *)
(*                                                                         *)
(* A request writes back what it read: what makes that sound is that       *)
(* whoever changes a row or a document marks those that hold a copy of it  *)
(* as stale (WriteInv, DocInv), and that a deletion nobody overlapped has  *)
(* the account to itself (DeleteInv).                                      *)
(*                                                                         *)
(* A file has an entry, a record and copies of the record that requests    *)
(* hold: they belong to one upload as long as no other got its path        *)
(* (PathsInv, UploadInv), and the entry goes first (StrayInv).             *)
(***************************************************************************)
EXTENDS MCUserAccount, FiniteSetTheorems, TLAPS

AtMostOne(S) == \A x, y \in S : x = y

TypeInv == TypeOK /\ AtMostOne(row)

\* What a request for an account has read of it and will write.
Saving == {"save", "insert"}

WriteInv ==
  \A r \in Requests :
    /\ pc[r] # "idle" => loc[r].id <= users
    /\ pc[r] \notin {"idle", "create"} => loc[r].id # 0
    /\ pc[r] = "create" => op[r] = "register" /\ \E p \in Passwords : loc[r].secret = {Plain(p)}
    /\ pc[r] \in {"existing"} \cup Saving =>
         /\ \A x \in loc[r].seen : x.id = loc[r].id
         /\ AtMostOne(loc[r].seen) /\ AtMostOne(loc[r].secret)
         /\ \/ op[r] = "update" /\ loc[r].hashed
            \/ op[r] = "password" /\ \E p \in Passwords : loc[r].secret = {Plain(p)}
    /\ pc[r] \in Saving =>
         loc[r].seen # {} /\ (~ loc[r].stale => loc[r].seen = RowOf(loc[r].id))

\* Profiles, and the copies requests have of them.
DocInv ==
  /\ \A u \in UserIds \ doubled :
       /\ AtMostOne(DocsOf(u))
       /\ \A q, r \in Requests :
            /\ pc[q] = "insertDoc" /\ loc[q].id = u => DocsOf(u) = {}
            /\ pc[q] = "insertDoc" /\ loc[q].id = u /\ pc[r] = "insertDoc" /\ loc[r].id = u => q = r
  /\ \A r \in Requests :
       /\ AtMostOne(loc[r].doc)
       /\ \A e \in loc[r].doc : e.id <= made /\ \A d \in docs : d.id = e.id => d.user = e.user
       /\ pc[r] = "putDoc" /\ ~ loc[r].stale => loc[r].doc \subseteq docs

\* A deletion that no request of the account overlaps.
Deleting(r) == pc[r] # "idle" /\ op[r] = "delete" /\ ~ loc[r].disturbed

DeleteInv ==
  \A r \in Requests :
    /\ pc[r] = "findDoc" => op[r] \in {"update", "delete"}
    /\ pc[r] \in {"dropDoc", "dropRow"} => op[r] = "delete"
    /\ Deleting(r) => \A q \in Requests \ {r} : pc[q] # "idle" => loc[q].id # loc[r].id
    /\ Deleting(r) /\ loc[r].id \notin doubled =>
         /\ pc[r] = "dropDoc" => \A d \in DocsOf(loc[r].id) : \E e \in loc[r].doc : d.id = e.id
         /\ pc[r] = "dropRow" /\ ~ loc[r].failed => DocsOf(loc[r].id) = {}

IInv == TypeInv /\ WriteInv /\ DocInv /\ DeleteInv

-----------------------------------------------------------------------------
(* What a step leaves of the requests.                                     *)

\* A request keeps its place and its locals, but may go stale or be disturbed.
Stays(q) ==
  /\ pc'[q] = pc[q] /\ op'[q] = op[q]
  /\ loc'[q].id = loc[q].id /\ loc'[q].secret = loc[q].secret
  /\ loc'[q].hashed = loc[q].hashed /\ loc'[q].seen = loc[q].seen
  /\ loc'[q].doc = loc[q].doc /\ loc'[q].failed = loc[q].failed
  /\ loc[q].stale => loc'[q].stale
  /\ loc[q].disturbed => loc'[q].disturbed

RequestsOK ==
  /\ pc \in [Requests -> Labels] /\ op \in [Requests -> Ops] /\ loc \in [Requests -> Local]

LEMMA NoLocalTyped == NoLocal \in Local
BY UserAssumption DEF Local, NoLocal

LEMMA FinishFrame ==
  ASSUME RequestsOK, NEW r \in Requests, Finish(r)
  PROVE  /\ pc' \in [Requests -> Labels] /\ op' \in [Requests -> Ops]
         /\ pc'[r] = "idle" /\ op'[r] = "none"
         /\ \A q \in Requests \ {r} : pc'[q] = pc[q] /\ op'[q] = op[q]
BY DEF RequestsOK, Finish, Goto, Labels, Ops

LEMMA GotoFrame ==
  ASSUME RequestsOK, NEW r \in Requests, NEW label \in Labels, Goto(r, label)
  PROVE  /\ pc' \in [Requests -> Labels]
         /\ pc'[r] = label
         /\ \A q \in Requests \ {r} : pc'[q] = pc[q]
BY DEF RequestsOK, Goto

LEMMA KeepFrame ==
  ASSUME RequestsOK, NEW r \in Requests, NEW mine \in Local, Keep(r, mine)
  PROVE  /\ loc' \in [Requests -> Local]
         /\ loc'[r] = mine
         /\ \A q \in Requests \ {r} : loc'[q] = loc[q]
BY DEF RequestsOK, Keep

\* Those who hold a copy of what r changes go stale.
LEMMA ChangingFrame ==
  ASSUME RequestsOK, NEW r \in Requests, NEW mine \in Local, NEW holders, Changing(r, mine, holders)
  PROVE  /\ loc' \in [Requests -> Local]
         /\ loc'[r] = mine
         /\ \A q \in Requests \ {r} :
              /\ pc'[q] = pc[q] /\ op'[q] = op[q] => Stays(q)
              /\ q \in holders => loc'[q].stale
<1> DEFINE hits(q) == q \in holders
<1>1. loc' = [q \in Requests |-> IF q = r THEN mine
                                 ELSE [loc[q] EXCEPT !.stale = @ \/ hits(q)]]
  BY DEF Changing
<1> HIDE DEF hits
<1>2. loc'[r] = mine
  BY <1>1
<1>3. ASSUME NEW q \in Requests \ {r}
      PROVE  /\ pc'[q] = pc[q] /\ op'[q] = op[q] => Stays(q)
             /\ hits(q) => loc'[q].stale
             /\ loc'[q] \in Local
  <2>1. loc'[q] = [loc[q] EXCEPT !.stale = @ \/ hits(q)]
    BY <1>1
  <2> QED
    BY <2>1 DEF RequestsOK, Local, Stays
<1>4. loc' \in [Requests -> Local]
  <2>1. loc' = [q \in Requests |-> loc'[q]]
    BY <1>1
  <2>2. \A q \in Requests : loc'[q] \in Local
    BY <1>2, <1>3
  <2> QED
    BY <2>1, <2>2
<1> QED
  BY <1>2, <1>3, <1>4 DEF hits

\* Whom a request that begins disturbs, and who disturbs it.
LEMMA BeginFrame ==
  ASSUME RequestsOK, NEW r \in Requests, NEW what \in Ops, NEW u \in 0..MaxUsers,
         NEW label \in Labels, NEW local \in Local, Begin(r, what, u, label, local)
  PROVE  /\ RequestsOK'
         /\ pc[r] = "idle" /\ pc'[r] = label /\ op'[r] = what
         /\ loc'[r].id = u /\ loc'[r].secret = local.secret /\ loc'[r].hashed = local.hashed
         /\ loc'[r].seen = local.seen /\ loc'[r].doc = local.doc
         /\ loc'[r].stale = local.stale /\ loc'[r].failed = local.failed
         /\ what = "delete" /\ ~ loc'[r].disturbed =>
              \A q \in Requests \ {r} : pc[q] # "idle" => loc[q].id # u
         /\ \A q \in Requests \ {r} :
              /\ Stays(q)
              /\ pc[q] # "idle" /\ loc[q].id = u /\ op[q] = "delete" => loc'[q].disturbed
         /\ UNCHANGED tables
<1> DEFINE others == {q \in Requests \ {r} : pc[q] # "idle" /\ loc[q].id = u}
           hit    == what = "delete" /\ others # {}
           hits(q) == q \in others /\ op[q] = "delete"
<1>1. /\ pc[r] = "idle" /\ pc' = [pc EXCEPT ![r] = label] /\ op' = [op EXCEPT ![r] = what]
      /\ UNCHANGED tables
  BY DEF Begin, Goto
<1>2. loc' = [q \in Requests |->
           IF q = r THEN [local EXCEPT !.id = u, !.disturbed = hit]
           ELSE [loc[q] EXCEPT !.disturbed = @ \/ hits(q)]]
  BY DEF Begin
<1>3. /\ hit \in BOOLEAN
      /\ what = "delete" /\ ~ hit => \A q \in Requests \ {r} : pc[q] # "idle" => loc[q].id # u
      /\ \A q \in Requests \ {r} : pc[q] # "idle" /\ loc[q].id = u /\ op[q] = "delete" => hits(q)
  OBVIOUS
<1> HIDE DEF hit, hits
<1>4. loc'[r] = [local EXCEPT !.id = u, !.disturbed = hit]
  BY <1>2
<1>5. /\ loc'[r] \in Local /\ loc'[r].disturbed = hit /\ loc'[r].id = u
      /\ loc'[r].secret = local.secret /\ loc'[r].hashed = local.hashed
      /\ loc'[r].seen = local.seen /\ loc'[r].doc = local.doc
      /\ loc'[r].stale = local.stale /\ loc'[r].failed = local.failed
  BY <1>3, <1>4 DEF Local
<1>6. ASSUME NEW q \in Requests \ {r}
      PROVE  /\ Stays(q) /\ loc'[q] \in Local
             /\ hits(q) => loc'[q].disturbed
  <2>1. loc'[q] = [loc[q] EXCEPT !.disturbed = @ \/ hits(q)]
    BY <1>2
  <2>2. pc'[q] = pc[q] /\ op'[q] = op[q]
    BY <1>1 DEF RequestsOK
  <2> QED
    BY <2>1, <2>2 DEF RequestsOK, Local, Stays
<1>7. RequestsOK'
  <2>1. loc' = [q \in Requests |-> loc'[q]]
    BY <1>2
  <2>2. \A q \in Requests : loc'[q] \in Local
    BY <1>5, <1>6
  <2> QED
    BY <1>1, <2>1, <2>2 DEF RequestsOK
<1> QED
  BY <1>1, <1>3, <1>5, <1>6, <1>7 DEF RequestsOK

\* The ways to begin.
Opens(r) ==
  \/ \E p \in Passwords : \E f \in {{}, Fields} : BeginRegister(r, p, f)
  \/ \E p \in Passwords : BeginSignIn(r, p)
  \/ \E f \in {{}, {"card"}} : BeginUpdate(r, f)
  \/ \E old, new \in Passwords : BeginPassword(r, old, new)
  \/ \E new \in Passwords : BeginFirstChange(r, new)
  \/ BeginDelete(r)
  \/ \E u \in UserIds : BeginProfile(r, u)
  \/ \E u \in UserIds, g \in Fields : BeginEdit(r, u, {g})

\* A statement of a request that has begun.
Turn(r) ==
  \/ Create(r) \/ Touch(r) \/ Existing(r) \/ Save(r) \/ Insert(r) \/ DropRow(r)
  \/ CheckDoc(r) \/ InsertDoc(r) \/ FindDoc(r) \/ LoadDoc(r) \/ PutDoc(r)
  \/ DropDoc(r) \/ DropDocFails(r) \/ Fail(r)

\* One statement on a profile, by its own id.
Direct(r) == \E d \in docs : DeleteProfile(r, d) \/ SetCustom(r, d)

LEMMA StepOf ==
  ASSUME [Next]_vars
  PROVE  UNCHANGED vars \/ \E r \in Requests : Opens(r) \/ Turn(r) \/ Direct(r)
BY Zenon DEF Next, Account, Profile, Opens, Turn, Direct

\* What a request has when it has begun.
Started(r) ==
  /\ pc[r] = "idle" /\ RequestsOK' /\ UNCHANGED tables
  /\ ~ loc'[r].stale /\ ~ loc'[r].failed
  /\ op'[r] = "delete" /\ ~ loc'[r].disturbed =>
       \A q \in Requests \ {r} : pc[q] # "idle" => loc[q].id # loc'[r].id
  /\ \A q \in Requests \ {r} :
       /\ Stays(q)
       /\ pc[q] # "idle" /\ loc[q].id = loc'[r].id /\ op[q] = "delete" => loc'[q].disturbed
  /\ pc'[r] # "putDoc" => loc'[r].doc = {}
  /\ pc'[r] # "insertDoc" => doubled' = doubled
  /\ \/ /\ pc'[r] = "create" /\ op'[r] = "register" /\ loc'[r].id = 0
        /\ \E p \in Passwords : loc'[r].secret = {Plain(p)}
     \/ /\ pc'[r] = "touch" /\ op'[r] = "signIn"
        /\ \E x \in row : loc'[r].id = x.id
     \/ /\ pc'[r] = "existing"
        /\ \E x \in row :
             /\ loc'[r].id = x.id /\ loc'[r].seen = {x}
             /\ \/ op'[r] = "update" /\ loc'[r].secret = {x.hash} /\ loc'[r].hashed
                \/ op'[r] = "password" /\ \E p \in Passwords : loc'[r].secret = {Plain(p)}
     \/ /\ pc'[r] = "findDoc" /\ op'[r] = "delete"
        /\ \E x \in row : loc'[r].id = x.id
     \/ /\ pc'[r] = "insertDoc" /\ op'[r] = "profile"
        /\ loc'[r].id \in 1..users /\ DocsOf(loc'[r].id) = {}
        /\ doubled' = IF \E q \in Requests : pc[q] = "insertDoc" /\ loc[q].id = loc'[r].id
                        THEN doubled \cup {loc'[r].id} ELSE doubled
     \/ /\ pc'[r] = "putDoc" /\ op'[r] = "edit"
        /\ \E d \in docs : loc'[r].id = d.user /\ loc'[r].doc = {d}

LEMMA OpensFrame ==
  ASSUME TypeInv, NEW r \in Requests, Opens(r)
  PROVE  Started(r)
<1>0. /\ RequestsOK /\ users \in 0..MaxUsers /\ row \subseteq Row /\ docs \subseteq Doc
      /\ NoLocal.stale = FALSE /\ NoLocal.failed = FALSE /\ NoLocal.doc = {}
      /\ UserIds \subseteq 0..MaxUsers /\ MaxUsers \in Nat
  BY UserAssumption DEF TypeInv, TypeOK, RequestsOK, NoLocal, UserIds
<1>1. ASSUME NEW p \in Passwords, NEW f \in {{}, Fields}, BeginRegister(r, p, f)
      PROVE  Started(r)
  <2> DEFINE local == [NoLocal EXCEPT !.secret = {Plain(p)}, !.asked = f]
  <2>1. /\ local \in Local /\ local.secret = {Plain(p)} /\ local.doc = {}
        /\ local.stale = FALSE /\ local.failed = FALSE
    <3>1. {Plain(p)} \in SUBSET Hash /\ f \in SUBSET Fields /\ 0 \in 0..MaxUsers
      BY <1>0 DEF Hash, Plain
    <3> QED
      BY <3>1 DEF NoLocal, Local
  <2>2. Begin(r, "register", 0, "create", local) /\ UNCHANGED doubled
    BY <1>1 DEF BeginRegister
  <2>3. "register" \in Ops /\ "create" \in Labels /\ 0 \in 0..MaxUsers
    BY <1>0 DEF Ops, Labels
  <2> HIDE DEF local
  <2> QED
    BY <1>0, <2>1, <2>2, <2>3, BeginFrame DEF Started
<1>2. ASSUME NEW p \in Passwords, BeginSignIn(r, p)
      PROVE  Started(r)
  <2>1. PICK x \in row : Begin(r, "signIn", x.id, "touch", NoLocal) /\ UNCHANGED doubled
    BY <1>2 DEF BeginSignIn
  <2>2. "signIn" \in Ops /\ "touch" \in Labels /\ x.id \in 0..MaxUsers
    BY <1>0 DEF Ops, Labels, Row
  <2> QED
    BY <1>0, <2>1, <2>2, BeginFrame, NoLocalTyped DEF Started
<1>3. ASSUME NEW f \in {{}, {"card"}}, BeginUpdate(r, f)
      PROVE  Started(r)
  <2>1. PICK x \in row : UNCHANGED doubled /\ Begin(r, "update", x.id, "existing",
           [NoLocal EXCEPT !.seen = {x}, !.secret = {x.hash}, !.hashed = TRUE, !.asked = f])
    BY <1>3 DEF BeginUpdate
  <2> DEFINE local == [NoLocal EXCEPT !.seen = {x}, !.secret = {x.hash}, !.hashed = TRUE, !.asked = f]
  <2>2. x \in Row
    BY <1>0
  <2>3. /\ local \in Local /\ local.secret = {x.hash} /\ local.doc = {} /\ local.seen = {x}
        /\ local.stale = FALSE /\ local.failed = FALSE /\ local.hashed = TRUE
    <3>1. {x.hash} \in SUBSET Hash /\ {x} \in SUBSET Row /\ f \in SUBSET Fields /\ 0 \in 0..MaxUsers
      BY <1>0, <2>2 DEF Row, Fields
    <3> QED
      BY <3>1 DEF NoLocal, Local
  <2>4. "update" \in Ops /\ "existing" \in Labels /\ x.id \in 0..MaxUsers
    BY <1>0, <2>2 DEF Ops, Labels, Row
  <2>5. Begin(r, "update", x.id, "existing", local)
    BY <2>1
  <2> HIDE DEF local
  <2> QED
    BY <1>0, <2>1, <2>3, <2>4, <2>5, BeginFrame DEF Started
<1>4. ASSUME NEW new \in Passwords,
             BeginFirstChange(r, new) \/ \E old \in Passwords : BeginPassword(r, old, new)
      PROVE  Started(r)
  <2>1. PICK x \in row : UNCHANGED doubled /\ Begin(r, "password", x.id, "existing",
           [NoLocal EXCEPT !.seen = {x}, !.secret = {Plain(new)}])
    BY <1>4 DEF BeginPassword, BeginFirstChange
  <2> DEFINE local == [NoLocal EXCEPT !.seen = {x}, !.secret = {Plain(new)}]
  <2>2. x \in Row
    BY <1>0
  <2>3. /\ local \in Local /\ local.secret = {Plain(new)} /\ local.doc = {} /\ local.seen = {x}
        /\ local.stale = FALSE /\ local.failed = FALSE
    <3>1. {Plain(new)} \in SUBSET Hash /\ {x} \in SUBSET Row /\ 0 \in 0..MaxUsers
      BY <1>0, <2>2 DEF Hash, Plain
    <3> QED
      BY <3>1 DEF NoLocal, Local
  <2>4. "password" \in Ops /\ "existing" \in Labels /\ x.id \in 0..MaxUsers
    BY <1>0, <2>2 DEF Ops, Labels, Row
  <2>5. Begin(r, "password", x.id, "existing", local)
    BY <2>1
  <2> HIDE DEF local
  <2> QED
    BY <1>0, <2>1, <2>3, <2>4, <2>5, BeginFrame DEF Started
<1>5. ASSUME BeginDelete(r)
      PROVE  Started(r)
  <2>1. PICK x \in row : Begin(r, "delete", x.id, "findDoc", NoLocal) /\ UNCHANGED doubled
    BY <1>5 DEF BeginDelete
  <2>2. "delete" \in Ops /\ "findDoc" \in Labels /\ x.id \in 0..MaxUsers
    BY <1>0 DEF Ops, Labels, Row
  <2> QED
    BY <1>0, <2>1, <2>2, BeginFrame, NoLocalTyped DEF Started
<1>6. ASSUME NEW u \in UserIds, BeginProfile(r, u)
      PROVE  Started(r)
  <2>1. Begin(r, "profile", u, "insertDoc", NoLocal) /\ u \in 1..users /\ DocsOf(u) = {}
    BY <1>0, <1>6 DEF BeginProfile, UserIds
  <2>2. doubled' = IF \E q \in Requests : pc[q] = "insertDoc" /\ loc[q].id = u
                     THEN doubled \cup {u} ELSE doubled
    BY <1>6 DEF BeginProfile
  <2>3. "profile" \in Ops /\ "insertDoc" \in Labels /\ u \in 0..MaxUsers
    BY <1>0 DEF Ops, Labels
  <2>4. /\ pc'[r] = "insertDoc" /\ op'[r] = "profile" /\ loc'[r].id = u
        /\ ~ loc'[r].stale /\ ~ loc'[r].failed /\ loc'[r].doc = {} /\ pc[r] = "idle"
        /\ RequestsOK' /\ UNCHANGED tables
        /\ \A q \in Requests \ {r} :
             /\ Stays(q)
             /\ pc[q] # "idle" /\ loc[q].id = u /\ op[q] = "delete" => loc'[q].disturbed
    BY <1>0, <2>1, <2>3, BeginFrame, NoLocalTyped
  <2> QED
    BY <2>1, <2>2, <2>4 DEF Started
<1>7. ASSUME NEW u \in UserIds, NEW g \in Fields, BeginEdit(r, u, {g})
      PROVE  Started(r)
  <2>1. PICK d \in docs : /\ d.user = u /\ UNCHANGED doubled
                          /\ Begin(r, "edit", u, "putDoc", [NoLocal EXCEPT !.doc = {d}, !.asked = {g}])
    BY <1>7 DEF BeginEdit
  <2> DEFINE local == [NoLocal EXCEPT !.doc = {d}, !.asked = {g}]
  <2>2. /\ local \in Local /\ local.doc = {d}
        /\ local.stale = FALSE /\ local.failed = FALSE
    <3>1. {d} \in SUBSET Doc /\ {g} \in SUBSET Fields /\ 0 \in 0..MaxUsers
      BY <1>0
    <3> QED
      BY <3>1 DEF NoLocal, Local
  <2>3. "edit" \in Ops /\ "putDoc" \in Labels /\ u \in 0..MaxUsers
    BY <1>0 DEF Ops, Labels
  <2>4. Begin(r, "edit", u, "putDoc", local)
    BY <2>1
  <2> HIDE DEF local
  <2> QED
    BY <1>0, <2>1, <2>2, <2>3, <2>4, BeginFrame DEF Started
<1> QED
  BY <1>1, <1>2, <1>3, <1>4, <1>5, <1>6, <1>7 DEF Opens

\* What a statement leaves: others stay, a request that goes on keeps what it is
\* for, and rows and profiles keep account and id.
Goes(r) ==
  /\ pc[r] # "idle" /\ op'[r] = op[r]
  /\ Create(r) \/ loc'[r].id = loc[r].id

LEMMA TurnFrame ==
  ASSUME TypeInv, WriteInv, NEW r \in Requests, Turn(r) \/ Direct(r)
  PROVE  /\ RequestsOK'
         /\ \A q \in Requests \ {r} : Stays(q)
         /\ pc'[r] = "idle" \/ (Turn(r) /\ Goes(r))
<1> DEFINE Goal == /\ RequestsOK'
                   /\ \A q \in Requests \ {r} : Stays(q)
                   /\ pc'[r] = "idle" \/ (Turn(r) /\ Goes(r))
<1> SUFFICES Goal
  OBVIOUS
<1>0. /\ RequestsOK /\ loc[r] \in Local /\ pc[r] \in Labels /\ users \in 0..MaxUsers
      /\ row \subseteq Row /\ docs \subseteq Doc /\ NoLocal \in Local
  BY NoLocalTyped DEF TypeInv, TypeOK, RequestsOK
<1>1. /\ \A q : pc'[q] = pc[q] /\ op'[q] = op[q] /\ loc'[q] = loc[q] => Stays(q)
      /\ op' = op => op' \in [Requests -> Ops]
      /\ loc' = loc => loc' \in [Requests -> Local]
  BY <1>0 DEF Stays, RequestsOK
\* The ends.
<1>2. ASSUME Finish(r), Keep(r, NoLocal) PROVE Goal
  BY <1>0, <1>1, <1>2, FinishFrame, KeepFrame DEF RequestsOK
<1>3. ASSUME NEW holders, Finish(r), Changing(r, NoLocal, holders) PROVE Goal
  BY <1>0, <1>3, FinishFrame, ChangingFrame DEF RequestsOK
\* The others.
<1>4. ASSUME Turn(r), ~ Finish(r), NEW label \in Labels, Goto(r, label), op' = op,
             NEW mine \in Local, Keep(r, mine), mine.id = loc[r].id \/ Create(r), pc[r] # "idle"
      PROVE  Goal
  BY <1>0, <1>1, <1>4, GotoFrame, KeepFrame DEF RequestsOK, Goes
<1>5. ASSUME Turn(r), NEW label \in Labels, Goto(r, label), op' = op, loc' = loc, pc[r] # "idle"
      PROVE  Goal
  BY <1>0, <1>1, <1>5, GotoFrame DEF RequestsOK, Goes
<1>6. ASSUME Turn(r), NEW label \in Labels, Goto(r, label), op' = op, NEW holders,
             NEW mine \in Local, Changing(r, mine, holders), mine.id = loc[r].id, pc[r] # "idle"
      PROVE  Goal
  BY <1>0, <1>1, <1>6, GotoFrame, ChangingFrame DEF RequestsOK, Goes
<1> HIDE DEF Goal
<1>7. /\ {"save", "checkDoc", "findDoc", "insert", "insertDoc", "dropRow", "dropDoc", "loadDoc", "putDoc",
          "create", "touch", "existing"} \subseteq Labels
      /\ [loc[r] EXCEPT !.seen = RowOf(loc[r].id)] \in Local
      /\ [loc[r] EXCEPT !.seen = RowOf(loc[r].id)].id = loc[r].id
      /\ [loc[r] EXCEPT !.doc = {}] \in Local
      /\ [loc[r] EXCEPT !.doc = {}].id = loc[r].id
      /\ [loc[r] EXCEPT !.doc = {}, !.failed = TRUE] \in Local
      /\ [loc[r] EXCEPT !.doc = {}, !.failed = TRUE].id = loc[r].id
  BY <1>0 DEF Labels, Local, RowOf
<1>8. \A ds \in SUBSET Doc : /\ [loc[r] EXCEPT !.doc = ds] \in Local
                             /\ [loc[r] EXCEPT !.doc = ds].id = loc[r].id
  BY <1>0 DEF Local
<1>9. CASE Create(r)
  <2>1. ASSUME loc[r].asked # {} PROVE Goal
    <3>1. [NoLocal EXCEPT !.id = users + 1] \in Local
      <4>1. users + 1 \in 0..MaxUsers
        BY <1>0, <1>9, UserAssumption DEF Create, RoomForUser
      <4> QED
        BY <1>0, <4>1 DEF Local
    <3>2. ~ Finish(r) /\ pc[r] # "idle"
      BY <1>0, <1>9, <2>1 DEF Create, Finish, Goto, RequestsOK
    <3> QED
      BY <1>4, <1>7, <1>9, <2>1, <3>1, <3>2 DEF Create, Turn
  <2> QED
    BY <1>2, <1>9, <2>1 DEF Create
<1>10. CASE Touch(r) \/ DropRow(r)
  BY <1>3, <1>10 DEF Touch, DropRow
<1>11. CASE Existing(r)
  <2>1. ASSUME RowOf(loc[r].id) # {} PROVE Goal
    <3>1. ~ Finish(r) /\ pc[r] # "idle"
      BY <1>0, <1>11, <2>1 DEF Existing, Finish, Goto, RequestsOK
    <3> QED
      BY <1>4, <1>7, <1>11, <2>1, <3>1 DEF Existing, Turn
  <2> QED
    BY <1>2, <1>11, <2>1 DEF Existing
<1>12. ASSUME AfterWrite(r), Turn(r), pc[r] # "idle" PROVE Goal
  <2>1. ASSUME op[r] = "update" /\ loc[r].asked # {} PROVE Goal
    <3> DEFINE mine == [NoLocal EXCEPT !.id = loc[r].id, !.asked = loc[r].asked]
    <3>1. mine \in Local /\ mine.id = loc[r].id
      BY <1>0 DEF Local, NoLocal
    <3>2. Goto(r, "findDoc") /\ op' = op /\ Changing(r, mine, RowHolders(loc[r].id))
      BY <1>12, <2>1 DEF AfterWrite
    <3> HIDE DEF mine
    <3> QED
      BY <1>6, <1>7, <1>12, <3>1, <3>2
  <2>2. ASSUME ~ (op[r] = "update" /\ loc[r].asked # {}) PROVE Goal
    BY <1>3, <1>12, <2>2 DEF AfterWrite
  <2> QED
    BY <2>1, <2>2
<1>13. CASE Save(r) \/ Insert(r)
  <2>1. pc[r] # "idle" /\ Turn(r)
    BY <1>13 DEF Save, Insert, Turn
  <2>2. ASSUME Goto(r, "insert"), UNCHANGED <<op, loc>> PROVE Goal
    BY <1>5, <1>7, <2>1, <2>2
  <2> QED
    BY <1>12, <1>13, <2>1, <2>2 DEF Save, Insert
<1>14. CASE CheckDoc(r)
  <2>1. pc[r] # "idle" /\ Turn(r)
    BY <1>14 DEF CheckDoc, Turn
  <2>2. ASSUME Goto(r, "insertDoc"), UNCHANGED <<op, loc>> PROVE Goal
    BY <1>5, <1>7, <2>1, <2>2
  <2> QED
    BY <1>2, <1>14, <2>1, <2>2 DEF CheckDoc
<1>15. CASE InsertDoc(r) \/ Fail(r)
  BY <1>2, <1>15 DEF InsertDoc, Fail
<1>16. CASE FindDoc(r)
  <2>1. pc[r] = "findDoc" /\ pc[r] # "idle" /\ Turn(r)
    BY <1>16 DEF FindDoc, Turn
  <2>2. ASSUME Goto(r, "dropRow"), UNCHANGED <<op, loc>> PROVE Goal
    BY <1>5, <1>7, <2>1, <2>2
  <2>3. ASSUME NEW d \in DocsOf(loc[r].id), NEW label \in {"loadDoc", "dropDoc"}, Goto(r, label),
               Keep(r, [loc[r] EXCEPT !.doc = {d}]), UNCHANGED op
        PROVE  Goal
    <3>1. {d} \in SUBSET Doc /\ ~ Finish(r)
      BY <1>0, <2>3 DEF DocsOf, Finish, Goto, RequestsOK
    <3> QED
      BY <1>4, <1>7, <1>8, <2>1, <2>3, <3>1
  <2> QED
    BY <1>2, <1>16, <2>2, <2>3 DEF FindDoc
<1>17. CASE LoadDoc(r)
  <2> DEFINE found == UNION {DocById(d) : d \in loc[r].doc}
  <2>1. pc[r] = "loadDoc" /\ pc[r] # "idle" /\ Turn(r) /\ found \in SUBSET Doc
    BY <1>0, <1>17 DEF LoadDoc, Turn, DocById
  <2>2. \/ Finish(r) /\ Keep(r, NoLocal)
        \/ Goto(r, "putDoc") /\ UNCHANGED op /\ Keep(r, [loc[r] EXCEPT !.doc = found])
    BY <1>17 DEF LoadDoc
  <2> HIDE DEF found
  <2>3. ASSUME Goto(r, "putDoc"), UNCHANGED op, Keep(r, [loc[r] EXCEPT !.doc = found])
        PROVE  Goal
    <3>1. ~ Finish(r)
      BY <1>0, <2>3 DEF Finish, Goto, RequestsOK
    <3> QED
      BY <1>4, <1>7, <1>8, <2>1, <2>3, <3>1
  <2> QED
    BY <1>2, <2>2, <2>3
<1>18. CASE PutDoc(r)
  BY <1>3, <1>18 DEF PutDoc
<1>19. CASE DropDoc(r)
  <2>1. /\ pc[r] = "dropDoc" /\ pc[r] # "idle" /\ Turn(r) /\ Goto(r, "dropRow") /\ op' = op
        /\ Changing(r, [loc[r] EXCEPT !.doc = {}], DocHolders({d.id : d \in loc[r].doc}))
    BY <1>19 DEF DropDoc, Turn
  <2> QED
    BY <1>6, <1>7, <2>1
<1>20. CASE DropDocFails(r)
  <2>1. /\ pc[r] = "dropDoc" /\ pc[r] # "idle" /\ Turn(r) /\ Goto(r, "dropRow") /\ op' = op
        /\ Keep(r, [loc[r] EXCEPT !.doc = {}, !.failed = TRUE])
    BY <1>20 DEF DropDocFails, Turn
  <2>2. ~ Finish(r)
    BY <1>0, <2>1 DEF Finish, Goto, RequestsOK
  <2> QED
    BY <1>4, <1>7, <2>1, <2>2
<1>21. CASE Direct(r)
  <2>1. PICK holders : Changing(r, NoLocal, holders) /\ UNCHANGED <<pc, op>> /\ pc[r] = "idle"
    BY <1>21 DEF Direct, DeleteProfile, SetCustom
  <2> QED
    BY <1>0, <2>1, ChangingFrame DEF RequestsOK, Goal
<1> QED
  BY <1>9, <1>10, <1>11, <1>13, <1>14, <1>15, <1>16, <1>17, <1>18, <1>19, <1>20, <1>21 DEF Turn

-----------------------------------------------------------------------------
(* What a step does to the tables.                                         *)

\* The row, as the statements write it.
RowAfter(r) ==
  \/ row' = row
  \/ Create(r)
  \/ /\ Touch(r) \/ DropRow(r)
     /\ \A x \in row' : \E y \in row : x.id = y.id /\ x.hash = y.hash
  \/ /\ (Save(r) /\ RowOf(loc[r].id) # {}) \/ (Insert(r) /\ row = RowOf(loc[r].id))
     /\ row' = Written(r) /\ AfterWrite(r)

LEMMA RowSteps ==
  ASSUME TypeInv, NEW r \in Requests, Opens(r) \/ Turn(r) \/ Direct(r)
  PROVE  RowAfter(r)
<1>1. CASE Opens(r)
  BY <1>1, OpensFrame DEF Started, tables, RowAfter
<1>2. CASE Touch(r)
  <2>1. row' = {IF x.id = loc[r].id THEN [x EXCEPT !.login = TRUE] ELSE x : x \in row} /\ row \subseteq Row
    BY <1>2 DEF Touch, TypeInv, TypeOK
  <2>2. \A x \in row : /\ [x EXCEPT !.login = TRUE].id = x.id
                       /\ [x EXCEPT !.login = TRUE].hash = x.hash
    BY <2>1 DEF Row
  <2> QED
    BY <1>2, <2>1, <2>2 DEF RowAfter
<1>3. CASE DropRow(r)
  BY <1>3 DEF DropRow, RowAfter
<1>4. CASE Create(r)
  BY <1>4 DEF RowAfter
<1>5. CASE Save(r)
  <2>1. CASE RowOf(loc[r].id) = {}
    BY <1>5, <2>1 DEF Save, RowAfter
  <2>2. CASE RowOf(loc[r].id) # {}
    <3>1. row' = Written(r) /\ AfterWrite(r)
      BY <1>5, <2>2 DEF Save
    <3> QED
      BY <1>5, <2>2, <3>1 DEF RowAfter
  <2> QED
    BY <2>1, <2>2
<1>6. CASE Insert(r)
  <2>1. row = RowOf(loc[r].id) /\ row' = Written(r) /\ AfterWrite(r)
    BY <1>6 DEF Insert
  <2> QED
    BY <1>6, <2>1 DEF RowAfter
<1>7. CASE Existing(r) \/ CheckDoc(r) \/ InsertDoc(r) \/ FindDoc(r) \/ LoadDoc(r) \/ PutDoc(r)
           \/ DropDoc(r) \/ DropDocFails(r) \/ Fail(r) \/ Direct(r)
  BY <1>7 DEF Existing, CheckDoc, InsertDoc, FindDoc, LoadDoc, PutDoc, DropDoc, DropDocFails, Fail,
              Direct, DeleteProfile, SetCustom, tables, RowAfter
<1> QED
  BY <1>1, <1>2, <1>3, <1>4, <1>5, <1>6, <1>7 DEF Turn

\* What Save and Insert write has the account's id and a hash of what was asked.
LEMMA WrittenRow ==
  ASSUME TypeInv, WriteInv, NEW r \in Requests, pc[r] \in Saving
  PROVE  /\ Written(r) \subseteq Row
         /\ \A x \in Written(r) :
              /\ x.id = loc[r].id
              /\ \E y \in loc[r].seen : x.login = y.login
              /\ x.hash.rehashed \/ (op[r] = "password" /\ loc[r].secret = {x.hash})
         /\ AtMostOne(Written(r))
<1>1. /\ loc[r].seen \subseteq Row /\ loc[r].secret \subseteq Hash
      /\ \A x \in loc[r].seen : x.id = loc[r].id
      /\ AtMostOne(loc[r].seen) /\ AtMostOne(loc[r].secret)
      /\ (op[r] = "update" /\ loc[r].hashed)
         \/ (op[r] = "password" /\ \E p \in Passwords : loc[r].secret = {Plain(p)})
  BY DEF TypeInv, TypeOK, WriteInv, Local
<1> DEFINE put(h) == IF loc[r].hashed THEN [h EXCEPT !.rehashed = TRUE] ELSE h
<1>2. \A h \in loc[r].secret : put(h) \in Hash /\ (loc[r].hashed => put(h).rehashed) /\ (~ loc[r].hashed => put(h) = h)
  BY <1>1 DEF Hash
<1>3. Written(r) = {[x EXCEPT !.hash = h] : x \in loc[r].seen, h \in {put(g) : g \in loc[r].secret}}
  BY DEF Written, BeforeUpdate
<1> HIDE DEF put
<1>4. \A x \in loc[r].seen, h \in Hash :
        /\ [x EXCEPT !.hash = h] \in Row /\ [x EXCEPT !.hash = h].id = x.id
        /\ [x EXCEPT !.hash = h].login = x.login /\ [x EXCEPT !.hash = h].hash = h
  BY <1>1 DEF Row
<1>5. ASSUME NEW w \in Written(r)
      PROVE  \E x \in loc[r].seen, g \in loc[r].secret : w = [x EXCEPT !.hash = put(g)]
  BY <1>3
<1>6. ASSUME NEW w \in Written(r)
      PROVE  w \in Row /\ w.id = loc[r].id /\ \E y \in loc[r].seen : w.login = y.login
  <2>1. PICK x \in loc[r].seen, g \in loc[r].secret : w = [x EXCEPT !.hash = put(g)]
    BY <1>5
  <2>2. w \in Row /\ w.id = x.id /\ w.login = x.login
    BY <1>2, <1>4, <2>1
  <2> QED
    BY <1>1, <2>2
<1>7. ASSUME NEW w \in Written(r)
      PROVE  w.hash.rehashed \/ (op[r] = "password" /\ loc[r].secret = {w.hash})
  <2>1. PICK x \in loc[r].seen, g \in loc[r].secret : w = [x EXCEPT !.hash = put(g)]
    BY <1>5
  <2>2. w.hash = put(g)
    BY <1>2, <1>4, <2>1
  <2>3. CASE loc[r].hashed
    BY <1>2, <2>2, <2>3
  <2>4. CASE ~ loc[r].hashed
    <3>1. op[r] = "password" /\ loc[r].secret = {g} /\ w.hash = g
      BY <1>1, <1>2, <2>2, <2>4
    <3> QED
      BY <3>1
  <2> QED
    BY <2>3, <2>4
<1>8. AtMostOne(Written(r))
  BY <1>1, <1>5 DEF AtMostOne
<1> QED
  BY <1>6, <1>7, <1>8

\* A copy of the row is stale once the row is not what was read.
LEMMA CopiesGoStale ==
  ASSUME IInv, NEW r \in Requests, Opens(r) \/ Turn(r) \/ Direct(r),
         NEW q \in Requests \ {r}, pc[q] \in Saving
  PROVE  loc'[q].stale \/ RowOf(loc[q].id)' = RowOf(loc[q].id)
<1>0. /\ TypeInv /\ WriteInv /\ RequestsOK /\ row \subseteq Row
      /\ users \in Nat /\ loc[q].id <= users /\ loc[q].id \in Nat
  BY UserAssumption DEF IInv, TypeInv, TypeOK, WriteInv, RequestsOK, Saving, Local
<1>1. loc'[q].id = loc[q].id
  BY <1>0, OpensFrame, TurnFrame DEF Started, Stays
<1>2. CASE row' = row
  BY <1>1, <1>2 DEF RowOf
<1>3. CASE Create(r)
  <2>1. row = {} /\ \A x \in row' : x.id = users + 1
    BY <1>3 DEF Create
  <2> QED
    BY <1>0, <1>1, <2>1 DEF RowOf
\* r writes the row of its account: who holds that row goes stale.
<1>4. ASSUME NEW mine \in Local, Changing(r, mine, RowHolders(loc[r].id)),
             \A x \in row \cup row' : (x \in row /\ x \in row') \/ x.id = loc[r].id
      PROVE  loc'[q].stale \/ RowOf(loc[q].id)' = RowOf(loc[q].id)
  <2>1. CASE loc[q].id = loc[r].id
    <3>1. q \in RowHolders(loc[r].id)
      BY <2>1 DEF RowHolders, Saving
    <3> QED
      BY <1>0, <1>4, <3>1, ChangingFrame
  <2>2. CASE loc[q].id # loc[r].id
    BY <1>1, <1>4, <2>2 DEF RowOf
  <2> QED
    BY <2>1, <2>2
<1>5. CASE Touch(r)
  <2>1. \A x \in row : [x EXCEPT !.login = TRUE].id = x.id
    BY <1>0 DEF Row
  <2>2. \A x \in row \cup row' : (x \in row /\ x \in row') \/ x.id = loc[r].id
    BY <1>5, <2>1 DEF Touch
  <2> QED
    BY <1>4, <1>5, <2>2, NoLocalTyped DEF Touch
<1>6. CASE DropRow(r)
  BY <1>4, <1>6, NoLocalTyped DEF DropRow, RowOf
<1>7. CASE /\ (Save(r) /\ RowOf(loc[r].id) # {}) \/ (Insert(r) /\ row = RowOf(loc[r].id))
           /\ row' = Written(r) /\ AfterWrite(r)
  <2>1. \A x \in row' : x.id = loc[r].id
    BY <1>0, <1>7, WrittenRow DEF Save, Insert, Saving
  <2>2. \A x \in row : x.id = loc[r].id
    BY <1>0, <1>7 DEF TypeInv, AtMostOne, RowOf
  <2>3. PICK mine \in Local : Changing(r, mine, RowHolders(loc[r].id))
    <3>1. NoLocal \in Local /\ [NoLocal EXCEPT !.id = loc[r].id, !.asked = loc[r].asked] \in Local
      BY <1>0, NoLocalTyped DEF Local, RequestsOK
    <3> QED
      BY <1>7, <3>1 DEF AfterWrite
  <2> QED
    BY <1>4, <2>1, <2>2, <2>3
<1> QED
  BY <1>0, <1>2, <1>3, <1>5, <1>6, <1>7, RowSteps DEF RowAfter

\* The profiles, as the statements write them: whoever holds a copy of one that
\* is written or deleted goes stale.
DocsKept ==
  /\ made' = made /\ docs' \subseteq Doc
  /\ \A e \in docs' : \E d \in docs : d.id = e.id /\ d.user = e.user
  /\ \A d, e \in docs' : d.id = e.id => d = e

DocsAfter(r) ==
  \/ docs' = docs /\ made' = made
  \/ InsertDoc(r)
  \/ /\ DocsKept
     /\ \E mine \in Local : \E ids : /\ Changing(r, mine, DocHolders(ids)) /\ mine.doc = {}
                                     /\ \A d \in docs \ docs' : d.id \in ids

LEMMA DocSteps ==
  ASSUME IInv, NEW r \in Requests, Opens(r) \/ Turn(r) \/ Direct(r)
  PROVE  DocsAfter(r)
<1>0. /\ TypeInv /\ docs \subseteq Doc /\ loc[r] \in Local /\ NoLocal \in Local /\ NoLocal.doc = {}
      /\ \A d, e \in docs : d.id = e.id => d = e
      /\ AtMostOne(loc[r].doc)
      /\ \A e \in loc[r].doc : \A d \in docs : d.id = e.id => d.user = e.user
  BY NoLocalTyped DEF IInv, TypeInv, TypeOK, DocInv, NoLocal
<1>1. CASE Opens(r)
  BY <1>0, <1>1, OpensFrame DEF Started, tables, DocsAfter
<1>2. CASE Create(r) \/ Touch(r) \/ Existing(r) \/ Save(r) \/ Insert(r) \/ DropRow(r)
           \/ CheckDoc(r) \/ FindDoc(r) \/ LoadDoc(r) \/ DropDocFails(r) \/ Fail(r)
  BY <1>2 DEF Create, Touch, Existing, Save, Insert, DropRow, CheckDoc, FindDoc, LoadDoc, DropDocFails,
              Fail, tables, DocsAfter
<1>3. CASE PutDoc(r)
  <2> DEFINE new(d) == [d EXCEPT !.filled = UpdateFields(@, loc[r].asked)]
             news   == {new(d) : d \in loc[r].doc}
             ids    == {d.id : d \in news}
  <2>1. /\ docs' = {d \in docs : d.id \notin ids} \cup {d \in news : DocById(d) # {}}
        /\ Changing(r, NoLocal, DocHolders(ids)) /\ made' = made
    BY <1>3 DEF PutDoc
  <2>2. \A d \in loc[r].doc : new(d) \in Doc /\ new(d).id = d.id /\ new(d).user = d.user
    BY <1>0 DEF Local, Doc, UpdateFields
  <2> HIDE DEF new
  <2>3. AtMostOne(news) /\ news \subseteq Doc
    BY <1>0, <2>2 DEF AtMostOne
  <2>4. \A e \in news : DocById(e) # {} => \E d \in docs : d.id = e.id /\ d.user = e.user
    BY <1>0, <2>2 DEF DocById
  <2>5. \A d \in docs \ docs' : d.id \in ids
    BY <2>1
  <2>6. DocsKept
    <3>1. docs' \subseteq Doc /\ \A e \in docs' : \E d \in docs : d.id = e.id /\ d.user = e.user
      BY <1>0, <2>1, <2>3, <2>4
    <3>2. \A d, e \in docs' : d.id = e.id => d = e
      BY <1>0, <2>1, <2>3 DEF AtMostOne
    <3> QED
      BY <2>1, <3>1, <3>2 DEF DocsKept
  <2> HIDE DEF ids, news
  <2> QED
    BY <1>0, <2>1, <2>5, <2>6 DEF DocsAfter
<1>4. CASE DropDoc(r)
  <2> DEFINE ids  == {d.id : d \in loc[r].doc}
             mine == [loc[r] EXCEPT !.doc = {}]
  <2>1. docs' = {d \in docs : d.id \notin ids} /\ Changing(r, mine, DocHolders(ids)) /\ made' = made
    BY <1>4 DEF DropDoc
  <2>2. mine \in Local /\ mine.doc = {}
    BY <1>0 DEF Local
  <2>3. DocsKept /\ \A d \in docs \ docs' : d.id \in ids
    BY <1>0, <2>1 DEF DocsKept
  <2> HIDE DEF mine, ids
  <2> QED
    BY <2>1, <2>2, <2>3 DEF DocsAfter
<1>5. CASE Direct(r)
  <2>1. PICK c \in docs : DeleteProfile(r, c) \/ SetCustom(r, c)
    BY <1>5 DEF Direct
  <2> DEFINE new == [c EXCEPT !.filled = @ \cup {"custom"}]
  <2>2. new \in Doc /\ new.id = c.id /\ new.user = c.user /\ c \in Doc
    BY <1>0, <2>1 DEF Doc, Fields
  <2>3. /\ docs' = docs \ {c} \/ docs' = (docs \ {c}) \cup {new}
        /\ Changing(r, NoLocal, DocHolders({c.id})) /\ made' = made
    BY <2>1 DEF DeleteProfile, SetCustom
  <2> HIDE DEF new
  <2>4. DocsKept /\ \A d \in docs \ docs' : d.id \in {c.id}
    BY <1>0, <2>2, <2>3 DEF DocsKept
  <2> QED
    BY <1>0, <2>3, <2>4 DEF DocsAfter
<1>6. CASE InsertDoc(r)
  BY <1>6 DEF DocsAfter
<1> QED
  BY <1>1, <1>2, <1>3, <1>4, <1>5, <1>6 DEF Turn

-----------------------------------------------------------------------------
(* The invariant.                                                          *)

LEMMA InitInv == Init => IInv
<1> SUFFICES ASSUME Init PROVE IInv
  OBVIOUS
<1>1. Cardinality(row) = 0
  BY FS_EmptySet DEF Init
<1>2. TypeInv
  BY <1>1, UserAssumption, NoLocalTyped DEF Init, TypeInv, TypeOK, AtMostOne, Labels, Ops
<1>3. \A r \in Requests : pc[r] = "idle" /\ loc[r].doc = {}
  BY DEF Init, NoLocal
<1>4. WriteInv /\ DeleteInv
  BY <1>3 DEF WriteInv, DeleteInv, Deleting, Saving
<1>5. DocInv
  BY <1>3 DEF Init, DocInv, AtMostOne, DocsOf
<1> QED
  BY <1>2, <1>4, <1>5 DEF IInv

LEMMA StutterInv == IInv /\ UNCHANGED vars => IInv'
BY DEF vars, tables, request, IInv, TypeInv, TypeOK, WriteInv, DocInv, DeleteInv, Deleting, RowOf, DocsOf

LEMMA TypeStep ==
  ASSUME IInv, NEW r \in Requests, Opens(r) \/ Turn(r) \/ Direct(r)
  PROVE  TypeInv'
<1>0. /\ TypeInv /\ TypeOK /\ WriteInv /\ DocInv /\ RequestsOK /\ loc[r] \in Local
      /\ MaxUsers \in Nat /\ MaxDocs \in Nat
      /\ users \in 0..MaxUsers /\ made \in 0..MaxDocs
  BY UserAssumption DEF IInv, TypeInv, TypeOK, RequestsOK
<1>1. RequestsOK'
  BY <1>0, OpensFrame, TurnFrame DEF Started
<1>2. (Create(r) /\ users' = users + 1) \/ users' = users
  <2>1. CASE Opens(r)
    BY <1>0, <2>1, OpensFrame DEF Started, tables
  <2>2. CASE Turn(r) \/ Direct(r)
    BY <2>2 DEF Turn, Direct, Create, Touch, Existing, Save, Insert, DropRow, CheckDoc, InsertDoc, FindDoc,
                LoadDoc, PutDoc, DropDoc, DropDocFails, Fail, DeleteProfile, SetCustom, tables
  <2> QED
    BY <2>1, <2>2
<1>3. users' \in 0..MaxUsers /\ users <= users'
  BY <1>0, <1>2 DEF Create, RoomForUser
<1>4. /\ row' \subseteq Row /\ AtMostOne(row') /\ \A x \in row' : x.id <= users'
  <2>1. CASE row' = row
    BY <1>0, <1>3, <2>1 DEF TypeInv, TypeOK, Row, UserIds
  <2>2. CASE Create(r)
    <3>1. PICK p \in Passwords : loc[r].secret = {Plain(p)}
      BY <1>0, <2>2 DEF WriteInv, Create
    <3> DEFINE new == [id |-> users + 1, hash |-> Plain(p), login |-> FALSE]
    <3>2. row' = {new} /\ users' = users + 1
      BY <2>2, <3>1 DEF Create
    <3>3. new \in Row /\ new.id = users + 1
      <4>1. users + 1 \in UserIds /\ Plain(p) \in Hash
        BY <1>0, <1>3, <3>2 DEF UserIds, Plain, Hash
      <4> QED
        BY <4>1 DEF Row
    <3> HIDE DEF new
    <3> QED
      BY <1>0, <3>2, <3>3 DEF AtMostOne
  <2>3. CASE Touch(r)
    <3> DEFINE new(x) == [x EXCEPT !.login = TRUE]
    <3>1. \A x \in row : new(x) \in Row /\ new(x).id = x.id
      BY <1>0 DEF TypeOK, Row
    <3>2. row' = {IF x.id = loc[r].id THEN new(x) ELSE x : x \in row}
      BY <2>3 DEF Touch
    <3> HIDE DEF new
    <3>3. row' \subseteq Row /\ \A x \in row' : \E y \in row : x.id = y.id
      BY <1>0, <3>1, <3>2 DEF TypeOK
    <3>4. \A x \in row' : x.id <= users'
      BY <1>0, <1>3, <3>3 DEF TypeOK, Row, UserIds
    <3> QED
      BY <1>0, <3>2, <3>3, <3>4 DEF TypeInv, AtMostOne
  <2>4. CASE DropRow(r)
    BY <1>0, <1>3, <2>4 DEF DropRow, TypeInv, TypeOK, AtMostOne, Row, UserIds
  <2>5. CASE (Save(r) \/ Insert(r)) /\ row' = Written(r)
    <3>1. pc[r] \in Saving /\ loc[r].id <= users /\ loc[r].id \in 0..MaxUsers
      BY <1>0, <2>5 DEF Save, Insert, Saving, WriteInv, Local
    <3> QED
      BY <1>0, <1>3, <2>5, <3>1, WrittenRow DEF UserIds
  <2> QED
    BY <1>0, <2>1, <2>2, <2>3, <2>4, <2>5, RowSteps DEF RowAfter
<1>5. Cardinality(row') <= 1
  <2>1. CASE row' = {}
    BY <2>1, FS_EmptySet
  <2>2. CASE row' # {}
    <3>1. PICK x : row' = {x}
      BY <1>4, <2>2 DEF AtMostOne
    <3>2. Cardinality({x}) = 1
      BY FS_Singleton
    <3> QED
      BY <3>1, <3>2
  <2> QED
    BY <2>1, <2>2
<1>6. /\ made' \in 0..MaxDocs /\ docs' \subseteq Doc
      /\ \A d \in docs' : d.id <= made' /\ d.user <= users'
      /\ \A d, e \in docs' : d.id = e.id => d = e
  <2>0. /\ docs \subseteq Doc /\ \A d \in docs : d.id <= made /\ d.user <= users /\ d.user <= users'
        /\ \A d, e \in docs : d.id = e.id => d = e
    BY <1>0, <1>3 DEF TypeOK, Doc, UserIds
  <2>1. CASE docs' = docs /\ made' = made
    BY <1>0, <2>0, <2>1
  <2>2. CASE InsertDoc(r)
    <3> DEFINE new == [id |-> made + 1, user |-> loc[r].id, filled |-> {}]
    <3>1. made' = made + 1 /\ made < MaxDocs /\ docs' = docs \cup {new}
      BY <2>2 DEF InsertDoc
    <3>2. new \in Doc /\ new.id = made + 1 /\ new.user = loc[r].id
      <4>1. made + 1 \in DocIds /\ loc[r].id \in UserIds
        BY <1>0, <2>2, <3>1 DEF InsertDoc, WriteInv, Local, DocIds, UserIds
      <4> QED
        BY <4>1 DEF Doc
    <3>3. loc[r].id <= users'
      BY <1>0, <1>3, <2>2 DEF InsertDoc, WriteInv, Local
    <3> HIDE DEF new
    <3>4. \A d \in docs : d.id # made + 1 /\ d.id <= made + 1
      BY <1>0, <2>0 DEF Doc, DocIds
    <3> QED
      BY <1>0, <2>0, <3>1, <3>2, <3>3, <3>4
  <2>3. CASE DocsKept
    BY <1>0, <2>0, <2>3 DEF DocsKept
  <2> QED
    BY <2>1, <2>2, <2>3, DocSteps DEF DocsAfter
<1>7. doubled' \subseteq UserIds
  <2>0. doubled \subseteq UserIds
    BY <1>0 DEF TypeOK
  <2>1. CASE Opens(r)
    <3>1. Started(r)
      BY <1>0, <2>1, OpensFrame
    <3>3. \/ doubled' = doubled
          \/ loc'[r].id \in 1..users /\ doubled' \subseteq doubled \cup {loc'[r].id}
      BY <3>1 DEF Started
    <3>4. 1..users \subseteq UserIds
      BY <1>0 DEF UserIds
    <3> QED
      BY <2>0, <3>3, <3>4
  <2>2. CASE CheckDoc(r)
    <3>1. loc[r].id \in UserIds
      BY <1>0, <2>2 DEF CheckDoc, WriteInv, Local, UserIds
    <3> QED
      BY <2>0, <2>2, <3>1 DEF CheckDoc
  <2>3. CASE (Turn(r) \/ Direct(r)) /\ ~ CheckDoc(r)
    BY <2>0, <2>3 DEF Turn, Direct, Create, Touch, Existing, Save, Insert, DropRow, InsertDoc, FindDoc,
                LoadDoc, PutDoc, DropDoc, DropDocFails, Fail, DeleteProfile, SetCustom
  <2> QED
    BY <2>1, <2>2, <2>3
<1> QED
  BY <1>1, <1>3, <1>4, <1>5, <1>6, <1>7 DEF TypeInv, TypeOK, RequestsOK

\* Where the statements take the request itself.
Onward(r) ==
  \/ pc'[r] = "idle"
  \/ /\ pc'[r] = "checkDoc" /\ Create(r) /\ users' = users + 1 /\ loc'[r].id = users + 1
     /\ loc'[r].doc = {}
  \/ /\ pc'[r] = "save" /\ Existing(r) /\ UNCHANGED tables
     /\ RowOf(loc[r].id) # {} /\ loc'[r].seen = RowOf(loc[r].id)
     /\ loc'[r].secret = loc[r].secret /\ loc'[r].hashed = loc[r].hashed
     /\ loc'[r].doc = loc[r].doc
  \/ /\ pc'[r] = "insert" /\ pc[r] = "save" /\ loc' = loc /\ row' = row /\ RowOf(loc[r].id) = {}
  \/ pc'[r] = "findDoc" /\ op[r] = "update" /\ loc'[r].doc = {}
  \/ /\ pc'[r] = "insertDoc" /\ CheckDoc(r) /\ UNCHANGED tables /\ loc' = loc
     /\ DocsOf(loc[r].id) = {}
     /\ doubled' = IF \E q \in Requests : pc[q] = "insertDoc" /\ loc[q].id = loc[r].id
                     THEN doubled \cup {loc[r].id} ELSE doubled
  \/ /\ pc'[r] = "loadDoc" /\ op[r] = "update" /\ FindDoc(r) /\ UNCHANGED tables
     /\ \E d \in docs : loc'[r].doc = {d}
  \/ /\ pc'[r] = "dropDoc" /\ op[r] # "update" /\ FindDoc(r) /\ UNCHANGED tables
     /\ \E d \in DocsOf(loc[r].id) : loc'[r].doc = {d}
  \/ /\ pc'[r] = "putDoc" /\ UNCHANGED tables
     /\ loc'[r].doc = UNION {DocById(d) : d \in loc[r].doc}
  \/ /\ pc'[r] = "dropRow" /\ op[r] = "delete" /\ FindDoc(r) /\ UNCHANGED tables /\ loc' = loc
     /\ DocsOf(loc[r].id) = {}
  \/ pc'[r] = "dropRow" /\ DropDocFails(r) /\ loc'[r].failed /\ loc'[r].doc = {}
  \/ /\ pc'[r] = "dropRow" /\ DropDoc(r) /\ loc'[r].doc = {}
     /\ docs' = {d \in docs : \A e \in loc[r].doc : d.id # e.id}

LEMMA TurnOnward ==
  ASSUME TypeInv, WriteInv, NEW r \in Requests, Turn(r)
  PROVE  Onward(r)
<1>0. /\ RequestsOK /\ loc[r] \in Local /\ pc[r] \in Labels /\ users \in 0..MaxUsers
      /\ NoLocal.doc = {}
  BY DEF TypeInv, TypeOK, RequestsOK, NoLocal
<1>1. ASSUME Finish(r) PROVE Onward(r)
  BY <1>0, <1>1, FinishFrame DEF Onward
<1>2. \A label : Goto(r, label) => pc'[r] = label
  BY <1>0 DEF Goto, RequestsOK
<1>3. \A mine : Keep(r, mine) => loc'[r] = mine
  BY <1>0 DEF Keep, RequestsOK
<1>4. CASE Create(r) /\ loc[r].asked # {}
  <2>1. /\ users' = users + 1 /\ Goto(r, "checkDoc")
        /\ Keep(r, [NoLocal EXCEPT !.id = users + 1])
    BY <1>4 DEF Create
  <2>2. [NoLocal EXCEPT !.id = users + 1].id = users + 1 /\ [NoLocal EXCEPT !.id = users + 1].doc = {}
    BY DEF NoLocal
  <2> QED
    BY <1>2, <1>3, <1>4, <2>1, <2>2 DEF Onward
<1>5. CASE Existing(r) /\ RowOf(loc[r].id) # {}
  <2> DEFINE mine == [loc[r] EXCEPT !.seen = RowOf(loc[r].id)]
  <2>1. Goto(r, "save") /\ Keep(r, mine) /\ UNCHANGED tables
    BY <1>5 DEF Existing
  <2>2. /\ mine.seen = RowOf(loc[r].id) /\ mine.secret = loc[r].secret /\ mine.hashed = loc[r].hashed
        /\ mine.doc = loc[r].doc
    BY <1>0 DEF Local
  <2> HIDE DEF mine
  <2> QED
    BY <1>2, <1>3, <1>5, <2>1, <2>2 DEF Onward
<1>6. ASSUME AfterWrite(r) PROVE Onward(r)
  <2>1. ASSUME op[r] = "update" /\ loc[r].asked # {} PROVE Onward(r)
    <3> DEFINE mine == [NoLocal EXCEPT !.id = loc[r].id, !.asked = loc[r].asked]
    <3>1. mine \in Local /\ mine.doc = {}
      BY <1>0, NoLocalTyped DEF Local, NoLocal
    <3>2. Goto(r, "findDoc") /\ Changing(r, mine, RowHolders(loc[r].id))
      BY <1>6, <2>1 DEF AfterWrite
    <3> HIDE DEF mine
    <3> QED
      BY <1>0, <1>2, <2>1, <3>1, <3>2, ChangingFrame DEF Onward
  <2>2. ASSUME ~ (op[r] = "update" /\ loc[r].asked # {}) PROVE Onward(r)
    BY <1>1, <1>6, <2>2 DEF AfterWrite
  <2> QED
    BY <2>1, <2>2
<1>7. CASE Save(r) \/ Insert(r)
  <2>1. ASSUME Save(r), RowOf(loc[r].id) = {} PROVE Onward(r)
    BY <1>2, <2>1 DEF Save, Onward
  <2> QED
    BY <1>6, <1>7, <2>1 DEF Save, Insert
<1>8. CASE CheckDoc(r) /\ DocsOf(loc[r].id) = {}
  BY <1>2, <1>8 DEF CheckDoc, Onward
<1>9. CASE FindDoc(r)
  <2>1. UNCHANGED tables
    BY <1>9 DEF FindDoc
  <2>2. ASSUME DocsOf(loc[r].id) = {}, op[r] = "delete", Goto(r, "dropRow"), UNCHANGED <<op, loc>>
        PROVE  Onward(r)
    BY <1>2, <1>9, <2>1, <2>2 DEF Onward
  <2>3. ASSUME NEW d \in DocsOf(loc[r].id), Goto(r, IF op[r] = "update" THEN "loadDoc" ELSE "dropDoc"),
               Keep(r, [loc[r] EXCEPT !.doc = {d}])
        PROVE  Onward(r)
    <3>1. loc'[r].doc = {d} /\ d \in docs
      <4>1. [loc[r] EXCEPT !.doc = {d}].doc = {d}
        BY <1>0 DEF Local
      <4> QED
        BY <1>3, <2>3, <4>1 DEF DocsOf
    <3>2. CASE op[r] = "update"
      BY <1>2, <1>9, <2>1, <2>3, <3>1, <3>2 DEF Onward
    <3>3. CASE op[r] # "update"
      BY <1>2, <1>9, <2>1, <2>3, <3>1, <3>3 DEF Onward
    <3> QED
      BY <3>2, <3>3
  <2> QED
    BY <1>1, <1>9, <2>2, <2>3 DEF FindDoc
<1>10. CASE LoadDoc(r)
  <2> DEFINE found == UNION {DocById(d) : d \in loc[r].doc}
  <2>1. /\ Finish(r) \/ (Goto(r, "putDoc") /\ Keep(r, [loc[r] EXCEPT !.doc = found]))
        /\ UNCHANGED tables
    BY <1>10 DEF LoadDoc
  <2>2. [loc[r] EXCEPT !.doc = found].doc = found
    BY <1>0 DEF Local
  <2>3. Goto(r, "putDoc") /\ Keep(r, [loc[r] EXCEPT !.doc = found]) => Onward(r)
    <3> SUFFICES ASSUME Goto(r, "putDoc"), Keep(r, [loc[r] EXCEPT !.doc = found]) PROVE Onward(r)
      OBVIOUS
    <3>1. pc'[r] = "putDoc" /\ loc'[r].doc = found
      BY <1>2, <1>3, <2>2
    <3> QED
      BY <2>1, <3>1 DEF Onward
  <2> QED
    BY <1>1, <2>1, <2>3
<1>11. CASE DropDoc(r)
  <2> DEFINE mine == [loc[r] EXCEPT !.doc = {}]
             ids  == {d.id : d \in loc[r].doc}
  <2>1. docs' = {d \in docs : d.id \notin ids} /\ Changing(r, mine, DocHolders(ids)) /\ Goto(r, "dropRow")
    BY <1>11 DEF DropDoc
  <2>2. mine \in Local /\ mine.doc = {}
    BY <1>0 DEF Local
  <2>3. docs' = {d \in docs : \A e \in loc[r].doc : d.id # e.id}
    BY <2>1
  <2> HIDE DEF mine, ids
  <2>4. loc'[r].doc = {} /\ pc'[r] = "dropRow"
    BY <1>0, <1>2, <2>1, <2>2, ChangingFrame
  <2> QED
    BY <1>11, <2>3, <2>4 DEF Onward
<1>12. CASE DropDocFails(r)
  <2> DEFINE mine == [loc[r] EXCEPT !.doc = {}, !.failed = TRUE]
  <2>1. mine.doc = {} /\ mine.failed
    BY <1>0 DEF Local
  <2>2. Keep(r, mine) /\ Goto(r, "dropRow")
    BY <1>12 DEF DropDocFails
  <2> HIDE DEF mine
  <2> QED
    BY <1>2, <1>3, <1>12, <2>1, <2>2 DEF Onward
<1> QED
  BY <1>1, <1>4, <1>5, <1>7, <1>8, <1>9, <1>10, <1>11, <1>12
     DEF Turn, Create, Touch, Existing, CheckDoc, InsertDoc, PutDoc, DropRow, Fail

LEMMA WriteStep ==
  ASSUME IInv, NEW r \in Requests, Opens(r) \/ Turn(r) \/ Direct(r)
  PROVE  WriteInv'
<1>0. /\ TypeInv /\ WriteInv /\ RequestsOK /\ TypeInv' /\ RequestsOK'
      /\ users \in Nat /\ users' \in Nat /\ row \subseteq Row
  BY TypeStep, UserAssumption DEF IInv, TypeInv, TypeOK, RequestsOK
<1>1. (Create(r) /\ users' = users + 1) \/ users' = users
  <2>1. CASE Opens(r)
    BY <1>0, <2>1, OpensFrame DEF Started, tables
  <2>2. CASE Turn(r) \/ Direct(r)
    BY <2>2 DEF Turn, Direct, Create, Touch, Existing, Save, Insert, DropRow, CheckDoc, InsertDoc, FindDoc,
                LoadDoc, PutDoc, DropDoc, DropDocFails, Fail, DeleteProfile, SetCustom, tables
  <2> QED
    BY <2>1, <2>2
<1> DEFINE OK(q) ==
      /\ pc[q] # "idle" => loc[q].id <= users
      /\ pc[q] \notin {"idle", "create"} => loc[q].id # 0
      /\ pc[q] = "create" => op[q] = "register" /\ \E p \in Passwords : loc[q].secret = {Plain(p)}
      /\ pc[q] \in {"existing"} \cup Saving =>
           /\ \A x \in loc[q].seen : x.id = loc[q].id
           /\ AtMostOne(loc[q].seen) /\ AtMostOne(loc[q].secret)
           /\ \/ op[q] = "update" /\ loc[q].hashed
              \/ op[q] = "password" /\ \E p \in Passwords : loc[q].secret = {Plain(p)}
      /\ pc[q] \in Saving =>
           loc[q].seen # {} /\ (~ loc[q].stale => loc[q].seen = RowOf(loc[q].id))
<1>2. \A q \in Requests : OK(q)
  BY <1>0 DEF WriteInv
<1>3. ASSUME NEW q \in Requests \ {r} PROVE OK(q)'
  <2>1. Stays(q)
    BY <1>0, OpensFrame, TurnFrame DEF Started
  <2>2. loc[q].id \in Nat
    BY <1>0, UserAssumption DEF RequestsOK, Local
  <2>3. pc[q] # "idle" => loc[q].id <= users'
    BY <1>0, <1>1, <1>2, <2>2
  <2>4. pc[q] \in Saving => (~ loc'[q].stale => loc[q].seen = RowOf(loc[q].id)')
    BY <1>0, <1>2, <2>1, CopiesGoStale DEF Stays
  <2> QED
    BY <1>2, <2>1, <2>3, <2>4, CopiesGoStale DEF Stays, Saving
<1>4. OK(r)'
  <2>1. CASE Opens(r)
    <3>1. Started(r) /\ users' = users
      BY <1>0, <2>1, OpensFrame DEF Started, tables
    <3>2. \A x \in row : x.id \in Nat /\ x.id # 0 /\ x.id <= users
      BY <1>0, UserAssumption DEF TypeInv, TypeOK, Row, UserIds
    <3>3. \A d \in docs : d.user \in Nat /\ d.user # 0 /\ d.user <= users
      BY <1>0, UserAssumption DEF TypeInv, TypeOK, Doc, UserIds
    <3>4. /\ pc'[r] # "idle" /\ loc'[r].id <= users'
          /\ pc'[r] # "create" => loc'[r].id # 0
      BY <1>0, <3>1, <3>2, <3>3 DEF Started
    <3>5. pc'[r] \notin Saving
      BY <3>1 DEF Started, Saving
    <3>6. pc'[r] = "create" => op'[r] = "register" /\ \E p \in Passwords : loc'[r].secret = {Plain(p)}
      BY <3>1 DEF Started
    <3>7. pc'[r] = "existing" =>
            \E x \in row :
              /\ loc'[r].id = x.id /\ loc'[r].seen = {x}
              /\ \/ op'[r] = "update" /\ loc'[r].secret = {x.hash} /\ loc'[r].hashed
                 \/ op'[r] = "password" /\ \E p \in Passwords : loc'[r].secret = {Plain(p)}
      BY <3>1 DEF Started
    <3>8. pc'[r] = "existing" =>
           /\ \A x \in loc'[r].seen : x.id = loc'[r].id
           /\ AtMostOne(loc'[r].seen) /\ AtMostOne(loc'[r].secret)
           /\ \/ op'[r] = "update" /\ loc'[r].hashed
              \/ op'[r] = "password" /\ \E p \in Passwords : loc'[r].secret = {Plain(p)}
      BY <3>7 DEF AtMostOne
    <3> QED
      BY <3>4, <3>5, <3>6, <3>8
  <2>2. CASE Turn(r) \/ Direct(r)
    <3>1. CASE pc'[r] = "idle"
      BY <3>1 DEF Saving
    <3>2. CASE pc'[r] # "idle"
      <4>1. Turn(r) /\ Goes(r) /\ Onward(r)
        BY <1>0, <2>2, <3>2, TurnFrame, TurnOnward
      <4>2. CASE Create(r)
        <5>1. pc'[r] = "checkDoc" /\ users' = users + 1 /\ loc'[r].id = users + 1
          <6>1. pc[r] = "create" /\ op[r] = "register" /\ row' # row
            <7>1. op[r] = "register" /\ \E p \in Passwords : loc[r].secret = {Plain(p)}
              BY <1>0, <4>2 DEF Create, WriteInv
            <7> QED
              BY <4>2, <7>1 DEF Create
          <6>2. ~ Existing(r) /\ ~ FindDoc(r) /\ ~ CheckDoc(r) /\ ~ DropDoc(r) /\ ~ DropDocFails(r)
            BY <6>1 DEF Existing, FindDoc, CheckDoc, DropDoc, DropDocFails
          <6>3. ~ UNCHANGED tables
            BY <6>1 DEF tables
          <6> QED
            BY <3>2, <4>1, <6>1, <6>2, <6>3 DEF Onward
        <5> QED
          BY <1>0, <5>1 DEF Saving
      <4>3. CASE ~ Create(r)
        <5>1. loc'[r].id = loc[r].id /\ op'[r] = op[r] /\ users' = users /\ pc[r] # "idle"
          BY <1>1, <4>1, <4>3 DEF Goes
        <5>2. pc[r] # "create"
          <6>1. ~ Fail(r)
            BY <1>0, <3>2, FinishFrame DEF Fail
          <6> QED
            BY <4>1, <4>3, <6>1 DEF Turn, Touch, Existing, Save, Insert, DropRow, CheckDoc, InsertDoc, FindDoc,
                LoadDoc, PutDoc, DropDoc, DropDocFails
        <5>3. CASE pc'[r] = "save"
          <6>1. /\ pc[r] = "existing" /\ loc'[r].seen = RowOf(loc[r].id) /\ RowOf(loc[r].id) # {}
                /\ RowOf(loc[r].id)' = RowOf(loc[r].id)
                /\ loc'[r].secret = loc[r].secret /\ loc'[r].hashed = loc[r].hashed
            BY <4>1, <5>1, <5>3 DEF Onward, Existing, RowOf, tables
          <6>2. AtMostOne(RowOf(loc[r].id)) /\ \A x \in RowOf(loc[r].id) : x.id = loc[r].id
            BY <1>0 DEF TypeInv, AtMostOne, RowOf
          <6> QED
            BY <1>2, <5>1, <5>2, <5>3, <6>1, <6>2
        <5>4. CASE pc'[r] = "insert"
          <6>1. pc[r] = "save" /\ loc' = loc /\ RowOf(loc[r].id)' = RowOf(loc[r].id)
            BY <4>1, <5>1, <5>4 DEF Onward, RowOf
          <6> QED
            BY <1>2, <5>1, <5>4, <6>1 DEF Saving
        <5>5. CASE pc'[r] \notin {"save", "insert"}
          <6>1. pc'[r] \notin {"create", "existing"} \cup Saving
            BY <4>1, <5>5, <3>2 DEF Onward, Saving
          <6> QED
            BY <1>2, <5>1, <5>2, <6>1
        <5> QED
          BY <5>3, <5>4, <5>5
      <4> QED
        BY <4>2, <4>3
    <3> QED
      BY <3>1, <3>2
  <2> QED
    BY <2>1, <2>2
<1>5. \A q \in Requests : OK(q)'
  BY <1>3, <1>4
<1> HIDE DEF OK
<1>6. (\A q \in Requests : OK(q))' => WriteInv'
  BY DEF OK, WriteInv
<1> QED
  BY <1>5, <1>6

\* Only one who is about to insert a profile makes an account doubled.
LEMMA DoubledSteps ==
  ASSUME IInv, NEW r \in Requests, Opens(r) \/ Turn(r) \/ Direct(r)
  PROVE  /\ doubled \subseteq doubled'
         /\ pc'[r] = "insertDoc" =>
              /\ UNCHANGED tables /\ DocsOf(loc'[r].id) = {}
              /\ \A q \in Requests \ {r} :
                   pc[q] = "insertDoc" /\ loc[q].id = loc'[r].id => loc'[r].id \in doubled'
<1>0. TypeInv /\ WriteInv /\ RequestsOK
  BY DEF IInv, TypeInv, TypeOK, RequestsOK
<1>1. CASE Opens(r)
  <2>1. /\ pc'[r] # "insertDoc" => doubled' = doubled
        /\ pc'[r] = "insertDoc" => /\ DocsOf(loc'[r].id) = {}
                                   /\ doubled' = IF \E q \in Requests : pc[q] = "insertDoc" /\ loc[q].id = loc'[r].id
                                                   THEN doubled \cup {loc'[r].id} ELSE doubled
        /\ UNCHANGED tables
    BY <1>0, <1>1, OpensFrame DEF Started
  <2> QED
    BY <2>1
<1>2. CASE Turn(r) \/ Direct(r)
  <2>1. CASE pc'[r] = "insertDoc"
    <3>1. Onward(r)
      BY <1>0, <1>2, <2>1, TurnFrame, TurnOnward
    <3>2. /\ UNCHANGED tables /\ loc' = loc /\ DocsOf(loc[r].id) = {}
          /\ doubled' = IF \E q \in Requests : pc[q] = "insertDoc" /\ loc[q].id = loc[r].id
                          THEN doubled \cup {loc[r].id} ELSE doubled
      BY <2>1, <3>1 DEF Onward
    <3> QED
      BY <3>2
  <2>2. CASE pc'[r] # "insertDoc"
    <3>1. CASE CheckDoc(r)
      BY <2>2, <3>1 DEF CheckDoc
    <3>2. CASE ~ CheckDoc(r)
      BY <1>2, <2>2, <3>2 DEF Turn, Direct, Create, Touch, Existing, Save, Insert, DropRow, InsertDoc, FindDoc,
                LoadDoc, PutDoc, DropDoc, DropDocFails, Fail, DeleteProfile, SetCustom
    <3> QED
      BY <2>2, <3>1, <3>2
  <2> QED
    BY <2>1, <2>2
<1> QED
  BY <1>1, <1>2

LEMMA DocStep ==
  ASSUME IInv, NEW r \in Requests, Opens(r) \/ Turn(r) \/ Direct(r)
  PROVE  DocInv'
<1>0. /\ TypeInv /\ WriteInv /\ DocInv /\ RequestsOK /\ RequestsOK' /\ TypeInv'
      /\ docs \subseteq Doc /\ made \in Nat /\ MaxUsers \in Nat
      /\ \A d \in docs : d.id \in Nat /\ d.id <= made
      /\ \A d, e \in docs : d.id = e.id => d = e
      /\ \A q \in Requests : loc[q] \in Local
  BY TypeStep, UserAssumption DEF IInv, TypeInv, TypeOK, RequestsOK, Doc, DocIds
<1>1. /\ \A q \in Requests \ {r} : Stays(q)
      /\ doubled \subseteq doubled'
  BY <1>0, OpensFrame, TurnFrame, DoubledSteps DEF Started
<1>2. DocsAfter(r)
  BY DocSteps
\* The profiles of an account.
<1>3. ASSUME NEW u \in UserIds \ doubled' PROVE AtMostOne(DocsOf(u)')
  <2>1. AtMostOne(DocsOf(u))
    BY <1>0, <1>1, <1>3 DEF DocInv
  <2>2. CASE docs' = docs
    BY <2>1, <2>2 DEF DocsOf
  <2>3. CASE InsertDoc(r)
    <3> DEFINE new == [id |-> made + 1, user |-> loc[r].id, filled |-> {}]
    <3>1. docs' = docs \cup {new} /\ new.user = loc[r].id
      BY <2>3 DEF InsertDoc
    <3>2. loc[r].id = u => DocsOf(u) = {}
      BY <1>0, <1>1, <1>3, <2>3 DEF DocInv, InsertDoc
    <3> HIDE DEF new
    <3> QED
      BY <2>1, <3>1, <3>2 DEF DocsOf, AtMostOne
  <2>4. CASE DocsKept
    BY <2>1, <2>4 DEF DocsKept, DocsOf, AtMostOne
  <2> QED
    BY <1>2, <2>2, <2>3, <2>4 DEF DocsAfter
<1>4. ASSUME NEW u \in UserIds \ doubled', NEW q \in Requests, NEW p \in Requests
      PROVE  /\ pc'[q] = "insertDoc" /\ loc'[q].id = u => DocsOf(u)' = {}
             /\ /\ pc'[q] = "insertDoc" /\ loc'[q].id = u
                /\ pc'[p] = "insertDoc" /\ loc'[p].id = u
                => q = p
  <2>1. ASSUME NEW s \in Requests, NEW t \in Requests
        PROVE  /\ pc[s] = "insertDoc" /\ loc[s].id = u => DocsOf(u) = {}
               /\ /\ pc[s] = "insertDoc" /\ loc[s].id = u
                  /\ pc[t] = "insertDoc" /\ loc[t].id = u
                  => s = t
    BY <1>0, <1>1, <1>4 DEF DocInv
  <2>2. /\ pc'[r] = "insertDoc" /\ loc'[r].id = u =>
             /\ docs' = docs /\ DocsOf(u) = {}
             /\ \A s \in Requests \ {r} : ~ (pc[s] = "insertDoc" /\ loc[s].id = u)
    BY <1>4, DoubledSteps DEF tables
  <2>3. \A s \in Requests \ {r} : pc'[s] = pc[s] /\ loc'[s].id = loc[s].id
    BY <1>1 DEF Stays
  <2>4. ASSUME NEW s \in Requests \ {r}, pc[s] = "insertDoc", loc[s].id = u
        PROVE  DocsOf(u)' = {}
    <3>1. DocsOf(u) = {}
      BY <2>1, <2>4
    <3>2. CASE docs' = docs
      BY <3>1, <3>2 DEF DocsOf
    <3>3. CASE InsertDoc(r)
      <4> DEFINE new == [id |-> made + 1, user |-> loc[r].id, filled |-> {}]
      <4>1. docs' = docs \cup {new} /\ new.user = loc[r].id /\ pc[r] = "insertDoc"
        BY <3>3 DEF InsertDoc
      <4>2. loc[r].id # u
        BY <2>1, <2>4, <4>1
      <4> HIDE DEF new
      <4> QED
        BY <3>1, <4>1, <4>2 DEF DocsOf
    <3>4. CASE DocsKept
      BY <3>1, <3>4 DEF DocsKept, DocsOf
    <3> QED
      BY <1>2, <3>2, <3>3, <3>4 DEF DocsAfter
  <2>5. CASE q = r
    <3>1. pc'[r] = "insertDoc" /\ loc'[r].id = u => DocsOf(u)' = {}
      BY <2>2 DEF DocsOf
    <3> QED
      BY <2>2, <2>3, <2>5, <3>1
  <2>6. CASE q # r
    <3>1. pc'[q] = "insertDoc" /\ loc'[q].id = u => DocsOf(u)' = {}
      BY <2>3, <2>4, <2>6
    <3> QED
      BY <2>1, <2>2, <2>3, <2>6, <3>1
  <2> QED
    BY <2>5, <2>6
\* The copies.
<1>5. ASSUME NEW q \in Requests, NEW e \in loc[q].doc
      PROVE  e.id <= made' /\ \A d \in docs' : d.id = e.id => d.user = e.user
  <2>1. e.id \in Nat /\ e.id <= made /\ \A d \in docs : d.id = e.id => d.user = e.user
    BY <1>0 DEF DocInv, Local, Doc, DocIds
  <2>2. CASE docs' = docs /\ made' = made
    BY <2>1, <2>2
  <2>3. CASE InsertDoc(r)
    <3> DEFINE new == [id |-> made + 1, user |-> loc[r].id, filled |-> {}]
    <3>1. docs' = docs \cup {new} /\ new.id = made + 1 /\ made' = made + 1
      BY <2>3 DEF InsertDoc
    <3> HIDE DEF new
    <3>2. new.id # e.id /\ e.id <= made + 1
      BY <1>0, <2>1, <3>1
    <3> QED
      BY <2>1, <3>1, <3>2
  <2>4. CASE DocsKept
    BY <2>1, <2>4 DEF DocsKept
  <2> QED
    BY <1>2, <2>2, <2>3, <2>4 DEF DocsAfter
<1>6. \A e \in docs : docs' = docs /\ made' = made => e.id <= made' /\ \A d \in docs' : d.id = e.id => d.user = e.user
  BY <1>0
<1> DEFINE Copies(q) == /\ AtMostOne(loc[q].doc)
                        /\ \A e \in loc[q].doc : e.id <= made /\ \A d \in docs : d.id = e.id => d.user = e.user
                        /\ pc[q] = "putDoc" /\ ~ loc[q].stale => loc[q].doc \subseteq docs
<1>7. \A q \in Requests : Copies(q)
  BY <1>0 DEF DocInv
<1>8. ASSUME NEW q \in Requests \ {r} PROVE Copies(q)'
  <2>1. Stays(q) /\ loc'[q].doc = loc[q].doc
    BY <1>1 DEF Stays
  <2>2. ASSUME pc[q] = "putDoc", ~ loc'[q].stale PROVE loc[q].doc \subseteq docs'
    <3>1. loc[q].doc \subseteq docs
      BY <1>7, <2>1, <2>2 DEF Stays
    <3>2. CASE docs' = docs
      BY <3>1, <3>2
    <3>3. CASE InsertDoc(r)
      BY <3>1, <3>3 DEF InsertDoc
    <3>4. ASSUME NEW mine \in Local, NEW ids, Changing(r, mine, DocHolders(ids)),
                 \A d \in docs \ docs' : d.id \in ids
          PROVE  loc[q].doc \subseteq docs'
      <4>1. q \notin DocHolders(ids)
        BY <1>0, <2>2, <3>4, ChangingFrame
      <4> QED
        BY <2>2, <3>1, <3>4, <4>1 DEF DocHolders
    <3> QED
      BY <1>2, <3>2, <3>3, <3>4 DEF DocsAfter
  <2> QED
    BY <1>5, <1>7, <2>1, <2>2 DEF Stays
<1>9. Copies(r)'
  <2>1. ASSUME loc'[r].doc = {} PROVE Copies(r)'
    BY <2>1 DEF AtMostOne
  <2>2. ASSUME loc'[r].doc = loc[r].doc, pc'[r] # "putDoc" PROVE Copies(r)'
    BY <1>5, <1>7, <2>2
  <2>3. ASSUME docs' = docs, made' = made, AtMostOne(loc'[r].doc), loc'[r].doc \subseteq docs PROVE Copies(r)'
    BY <1>6, <2>3
  <2> HIDE DEF Copies
  <2>4. \A d \in docs : AtMostOne({d}) /\ {d} \subseteq docs
    BY DEF AtMostOne
  <2>5. CASE Opens(r)
    <3>1. \/ loc'[r].doc = {}
          \/ docs' = docs /\ made' = made /\ \E d \in docs : loc'[r].doc = {d}
      BY <1>0, <2>5, OpensFrame DEF Started, tables
    <3> QED
      BY <2>1, <2>3, <2>4, <3>1
  <2>6. CASE Turn(r)
    <3>1. CASE pc'[r] = "idle"
      <4>1. loc'[r].doc = {} \/ loc'[r].doc = loc[r].doc
        <5>1. NoLocal.doc = {} /\ NoLocal \in Local
          BY NoLocalTyped DEF NoLocal
        <5>2. ASSUME Keep(r, NoLocal) PROVE loc'[r].doc = {}
          BY <1>0, <5>1, <5>2, KeepFrame
        <5>3. ASSUME NEW holders, Changing(r, NoLocal, holders) PROVE loc'[r].doc = {}
          BY <1>0, <5>1, <5>3, ChangingFrame
        <5>4. ASSUME AfterWrite(r) PROVE loc'[r].doc = {}
          <6>1. ~ (op[r] = "update" /\ loc[r].asked # {})
            BY <1>0, <3>1, <5>4 DEF AfterWrite, Goto, RequestsOK
          <6> QED
            BY <5>3, <5>4, <6>1 DEF AfterWrite
        <5>5. \/ Keep(r, NoLocal) \/ AfterWrite(r)
              \/ \E holders : Changing(r, NoLocal, holders)
              \/ \E label \in Labels \ {"idle"} : Goto(r, label)
          <6>1. {"save", "checkDoc", "findDoc", "insert", "insertDoc", "dropRow", "dropDoc", "loadDoc", "putDoc"}
                   \subseteq Labels \ {"idle"}
            BY DEF Labels
          <6>2. CASE FindDoc(r)
            <7>1. (IF op[r] = "update" THEN "loadDoc" ELSE "dropDoc") \in Labels \ {"idle"}
              BY DEF Labels
            <7> QED
              BY <6>1, <6>2, <7>1 DEF FindDoc
          <6>3. CASE Create(r) \/ Existing(r) \/ Save(r) \/ Insert(r) \/ CheckDoc(r) \/ InsertDoc(r) \/ Fail(r)
            BY <6>1, <6>3 DEF Create, Existing, Save, Insert, CheckDoc, InsertDoc, Fail
          <6>4. CASE LoadDoc(r)
            BY <6>1, <6>4 DEF LoadDoc
          <6>5. CASE Touch(r) \/ DropRow(r)
            BY <6>5 DEF Touch, DropRow
          <6>6. CASE PutDoc(r)
            <7>1. \E ids : Changing(r, NoLocal, DocHolders(ids))
              BY <6>6 DEF PutDoc
            <7> QED
              BY <7>1
          <6>7. CASE DropDoc(r) \/ DropDocFails(r)
            BY <6>1, <6>7 DEF DropDoc, DropDocFails
          <6> QED
            BY <2>6, <6>2, <6>3, <6>4, <6>5, <6>6, <6>7 DEF Turn
        <5>6. \A label \in Labels \ {"idle"} : ~ Goto(r, label)
          BY <1>0, <3>1 DEF Goto, RequestsOK
        <5> QED
          BY <5>2, <5>3, <5>4, <5>5, <5>6
      <4> QED
        BY <2>1, <2>2, <3>1, <4>1
    <3>2. CASE pc'[r] = "putDoc"
      <4>1. UNCHANGED tables /\ loc'[r].doc = UNION {DocById(d) : d \in loc[r].doc}
        BY <1>0, <2>6, <3>2, TurnOnward DEF Onward
      <4>2. AtMostOne(loc'[r].doc) /\ loc'[r].doc \subseteq docs
        BY <1>0, <4>1 DEF DocInv, AtMostOne, DocById
      <4> QED
        BY <2>3, <4>1, <4>2 DEF tables
    <3>3. CASE pc'[r] \notin {"idle", "putDoc"}
      <4>1. Onward(r)
        BY <1>0, <2>6, TurnOnward
      <4>2. \/ loc'[r].doc = {} \/ loc'[r].doc = loc[r].doc
            \/ docs' = docs /\ made' = made /\ \E d \in docs : loc'[r].doc = {d}
        BY <3>3, <4>1 DEF Onward, tables, DocsOf
      <4> QED
        BY <2>1, <2>2, <2>3, <2>4, <3>3, <4>2
    <3> QED
      BY <3>1, <3>2, <3>3
  <2>7. CASE Direct(r)
    <3>1. \E holders : Changing(r, NoLocal, holders)
      BY <2>7 DEF Direct, DeleteProfile, SetCustom
    <3>2. loc'[r].doc = {}
      <4>1. NoLocal.doc = {} /\ NoLocal \in Local
        BY NoLocalTyped DEF NoLocal
      <4> QED
        BY <1>0, <3>1, <4>1, ChangingFrame
    <3> QED
      BY <2>1, <3>2
  <2> QED
    BY <2>5, <2>6, <2>7
<1>10. (\A q \in Requests : Copies(q))'
  BY <1>8, <1>9
<1>11. (\A u \in UserIds \ doubled :
       /\ AtMostOne(DocsOf(u))
       /\ \A q, p \in Requests :
            /\ pc[q] = "insertDoc" /\ loc[q].id = u => DocsOf(u) = {}
            /\ pc[q] = "insertDoc" /\ loc[q].id = u /\ pc[p] = "insertDoc" /\ loc[p].id = u => q = p)'
  BY <1>3, <1>4 DEF AtMostOne
<1> QED
  BY <1>10, <1>11 DEF DocInv

LEMMA DeleteStep ==
  ASSUME IInv, NEW r \in Requests, Opens(r) \/ Turn(r) \/ Direct(r)
  PROVE  DeleteInv'
<1>0. /\ TypeInv /\ WriteInv /\ DocInv /\ DeleteInv /\ RequestsOK /\ RequestsOK'
      /\ users \in Nat /\ MaxUsers \in Nat
      /\ \A q \in Requests : loc[q].id \in Nat /\ loc'[q].id \in Nat /\ loc[q].id \in 0..MaxUsers
  BY TypeStep, UserAssumption DEF IInv, TypeInv, TypeOK, RequestsOK, Local
<1>1. /\ \A q \in Requests \ {r} : Stays(q)
      /\ doubled \subseteq doubled'
  BY <1>0, OpensFrame, TurnFrame, DoubledSteps DEF Started
<1>2. DocsAfter(r)
  BY DocSteps
<1>3. ASSUME Turn(r) \/ Direct(r), pc'[r] # "idle"
      PROVE  Turn(r) /\ Goes(r) /\ Onward(r)
  BY <1>0, <1>3, TurnFrame, TurnOnward
\* A deletion that nobody disturbed was so before, and nobody got in between.
<1>4. ASSUME NEW q \in Requests \ {r}, Deleting(q)'
      PROVE  Deleting(q) /\ loc'[q].id = loc[q].id /\ pc'[q] = pc[q] /\ loc'[q].doc = loc[q].doc
             /\ loc'[q].failed = loc[q].failed
  BY <1>1, <1>4 DEF Stays, Deleting
<1>5. ASSUME Deleting(r)', ~ Opens(r)
      PROVE  Deleting(r) /\ loc'[r].id = loc[r].id /\ ~ Create(r)
  <2>1. Turn(r) /\ Goes(r) /\ Onward(r)
    BY <1>3, <1>5 DEF Deleting
  <2>2. ~ Create(r)
    <3>1. op[r] # "register"
      BY <1>5, <2>1 DEF Deleting, Goes
    <3> QED
      BY <1>0, <3>1 DEF Create, WriteInv
  <2>3. op[r] = "delete" /\ pc[r] # "idle"
    BY <1>5, <2>1 DEF Deleting, Goes
  <2>4. ~ loc[r].disturbed
    <3>0. loc[r] \in Local /\ loc[r].seen \in SUBSET Row
      BY <1>0 DEF RequestsOK, Local
    <3>1. ASSUME NEW holders, Changing(r, [loc[r] EXCEPT !.doc = {}], holders) PROVE ~ loc[r].disturbed
      <4>1. [loc[r] EXCEPT !.doc = {}] \in Local /\ [loc[r] EXCEPT !.doc = {}].disturbed = loc[r].disturbed
        BY <3>0 DEF Local
      <4>2. loc'[r] = [loc[r] EXCEPT !.doc = {}]
        BY <1>0, <3>1, <4>1, ChangingFrame
      <4> QED
        BY <1>5, <4>1, <4>2 DEF Deleting
    <3>2. ASSUME loc' = loc PROVE ~ loc[r].disturbed
      BY <1>5, <3>2 DEF Deleting
    <3>3. ASSUME NEW d, Keep(r, [loc[r] EXCEPT !.doc = {d}]) PROVE ~ loc[r].disturbed
      <4>1. loc'[r] = [loc[r] EXCEPT !.doc = {d}]
        BY <1>0, <3>3 DEF Keep, RequestsOK
      <4> QED
        BY <1>5, <3>0, <4>1 DEF Deleting, Local
    <3>4. ASSUME Keep(r, [loc[r] EXCEPT !.doc = {}, !.failed = TRUE]) PROVE ~ loc[r].disturbed
      <4>1. loc'[r] = [loc[r] EXCEPT !.doc = {}, !.failed = TRUE]
        BY <1>0, <3>4 DEF Keep, RequestsOK
      <4> QED
        BY <1>5, <3>0, <4>1 DEF Deleting, Local
    <3>5. pc[r] \notin {"existing", "save", "insert"}
      BY <1>0, <2>3 DEF WriteInv, Saving
    <3>6. CASE DropDoc(r)
      BY <3>1, <3>6 DEF DropDoc
    <3>7. CASE DropDocFails(r)
      BY <3>4, <3>7 DEF DropDocFails
    <3>8. CASE FindDoc(r)
      <4>1. ~ Finish(r)
        BY <1>0, <2>3, <1>5, FinishFrame DEF Deleting
      <4> QED
        BY <3>2, <3>3, <3>8, <4>1 DEF FindDoc
    <3>9. CASE CheckDoc(r)
      <4>1. ~ Finish(r)
        BY <1>0, <1>5, FinishFrame DEF Deleting
      <4> QED
        BY <3>2, <3>9, <4>1 DEF CheckDoc
    <3>10. CASE LoadDoc(r)
      <4> DEFINE found == UNION {DocById(d) : d \in loc[r].doc}
      <4>1. ~ Finish(r)
        BY <1>0, <1>5, FinishFrame DEF Deleting
      <4>2. Keep(r, [loc[r] EXCEPT !.doc = found])
        BY <3>10, <4>1 DEF LoadDoc
      <4>3. loc'[r] = [loc[r] EXCEPT !.doc = found]
        BY <1>0, <4>2 DEF Keep, RequestsOK
      <4> HIDE DEF found
      <4> QED
        BY <1>5, <3>0, <4>3 DEF Deleting, Local
    <3>11. CASE Touch(r) \/ DropRow(r) \/ InsertDoc(r) \/ PutDoc(r) \/ Fail(r)
      <4>1. Finish(r)
        BY <3>11 DEF Touch, DropRow, InsertDoc, PutDoc, Fail
      <4> QED
        BY <1>0, <1>5, <4>1, FinishFrame DEF Deleting
    <3> QED
      BY <2>1, <2>2, <3>5, <3>6, <3>7, <3>8, <3>9, <3>10, <3>11 DEF Turn, Existing, Save, Insert
  <2> QED
    BY <2>1, <2>2, <2>3, <2>4 DEF Deleting, Goes
<1>6. ASSUME NEW q \in Requests, pc[q] # "idle" PROVE loc[q].id <= users
  BY <1>0, <1>6 DEF WriteInv
<1>7. ASSUME NEW q \in Requests, Deleting(q)', NEW p \in Requests \ {q}, pc'[p] # "idle"
      PROVE  loc'[p].id # loc'[q].id
  <2>1. CASE q = r
    <3>1. Stays(p)
      BY <1>1, <2>1
    <3>2. CASE Opens(r)
      BY <1>0, <1>7, <2>1, <3>1, <3>2, OpensFrame DEF Started, Stays, Deleting
    <3>3. CASE ~ Opens(r)
      BY <1>0, <1>5, <1>7, <2>1, <3>1, <3>3 DEF DeleteInv, Stays
    <3> QED
      BY <3>2, <3>3
  <2>2. CASE q # r
    <3>1. Deleting(q) /\ loc'[q].id = loc[q].id /\ pc[q] # "idle" /\ op[q] = "delete"
      BY <1>4, <1>7, <2>2 DEF Deleting
    <3>2. CASE p # r
      BY <1>0, <1>1, <1>7, <3>1, <3>2 DEF DeleteInv, Stays
    <3>3. CASE p = r /\ Opens(r)
      <4>1. ~ loc'[q].disturbed
        BY <1>7 DEF Deleting
      <4> QED
        BY <1>0, <2>2, <3>1, <3>3, <4>1, OpensFrame DEF Started
    <3>4. CASE p = r /\ ~ Opens(r)
      <4>1. Goes(r) /\ Onward(r)
        BY <1>3, <1>7, <3>4
      <4>2. loc'[r].id = loc[r].id \/ (Create(r) /\ pc[r] # "idle")
        BY <4>1 DEF Goes
      <4>3. CASE loc'[r].id = loc[r].id
        BY <1>0, <1>7, <3>1, <3>4, <4>1, <4>3 DEF DeleteInv, Goes
      <4>4. CASE Create(r) /\ loc'[r].id # loc[r].id
        <5>1. op[r] = "register" /\ \E h \in Passwords : loc[r].secret = {Plain(h)}
          BY <1>0, <4>4 DEF Create, WriteInv
        <5>2. row' # row
          BY <4>4, <5>1 DEF Create
        <5>3. loc'[r].id = users + 1
          <6>1. ~ UNCHANGED tables /\ loc' # loc
            BY <4>4, <5>2 DEF tables
          <6>2. pc'[r] = "checkDoc"
            <7>1. pc[r] = "create" /\ loc[r].asked # {}
              <8>1. ~ Finish(r)
                BY <1>0, <1>7, <3>4, FinishFrame
              <8> QED
                BY <4>4, <8>1 DEF Create
            <7> QED
              BY <1>0, <4>4, <7>1 DEF Create, Goto, RequestsOK
          <6> QED
            BY <4>1, <6>1, <6>2 DEF Onward
        <5> QED
          BY <1>0, <1>6, <3>1, <3>4, <5>3
      <4> QED
        BY <4>2, <4>3, <4>4
    <3> QED
      BY <3>2, <3>3, <3>4
  <2> QED
    BY <2>1, <2>2
\* The labels.
<1>8. ASSUME NEW q \in Requests
      PROVE  /\ pc'[q] = "findDoc" => op'[q] \in {"update", "delete"}
             /\ pc'[q] \in {"dropDoc", "dropRow"} => op'[q] = "delete"
  <2>1. CASE q # r
    BY <1>0, <1>1, <2>1 DEF DeleteInv, Stays
  <2>2. CASE q = r /\ Opens(r)
    BY <1>0, <2>2, OpensFrame DEF Started
  <2>3. CASE q = r /\ ~ Opens(r) /\ pc'[r] # "idle"
    <3>1. Goes(r) /\ Onward(r) /\ op'[r] = op[r]
      BY <1>3, <2>3 DEF Goes
    <3>2. /\ FindDoc(r) => op[r] \in {"update", "delete"}
          /\ DropDoc(r) \/ DropDocFails(r) => op[r] = "delete"
      BY <1>0 DEF FindDoc, DropDoc, DropDocFails, DeleteInv
    <3>3. pc'[r] = "findDoc" => op[r] = "update"
      BY <3>1 DEF Onward
    <3>4. pc'[r] \in {"dropDoc", "dropRow"} => op[r] = "delete"
      BY <3>1, <3>2 DEF Onward
    <3> QED
      BY <2>3, <3>1, <3>3, <3>4
  <2> QED
    BY <2>1, <2>2, <2>3
\* Its profile.
<1>9. ASSUME NEW q \in Requests, Deleting(q)', loc'[q].id \notin doubled'
      PROVE  /\ pc'[q] = "dropDoc" => \A d \in DocsOf(loc[q].id)' : \E e \in loc'[q].doc : d.id = e.id
             /\ pc'[q] = "dropRow" /\ ~ loc'[q].failed => DocsOf(loc[q].id)' = {}
  <2>1. CASE q # r
    <3>1. /\ Deleting(q) /\ loc'[q].id = loc[q].id /\ pc'[q] = pc[q] /\ loc'[q].doc = loc[q].doc
          /\ loc'[q].failed = loc[q].failed /\ pc[q] # "idle" /\ loc[q].id \notin doubled
      BY <1>1, <1>4, <1>9, <2>1 DEF Deleting
    <3>2. ~ (pc[r] # "idle" /\ loc[r].id = loc[q].id)
      BY <1>0, <2>1, <3>1 DEF DeleteInv
    <3>3. \A d \in docs' : d.user = loc[q].id => \E e \in docs : e.id = d.id /\ e.user = d.user
      <4>1. CASE docs' = docs
        BY <4>1
      <4>2. CASE InsertDoc(r)
        <5> DEFINE new == [id |-> made + 1, user |-> loc[r].id, filled |-> {}]
        <5>1. docs' = docs \cup {new} /\ new.user = loc[r].id /\ pc[r] # "idle"
          BY <4>2 DEF InsertDoc
        <5> HIDE DEF new
        <5> QED
          BY <3>2, <5>1
      <4>3. CASE DocsKept
        BY <4>3 DEF DocsKept
      <4> QED
        BY <1>2, <4>1, <4>2, <4>3 DEF DocsAfter
    <3>4. \A d \in DocsOf(loc[q].id)' : \E e \in DocsOf(loc[q].id) : e.id = d.id
      BY <3>1, <3>3 DEF DocsOf
    <3> QED
      BY <1>0, <3>1, <3>4 DEF DeleteInv
  <2>2. CASE q = r /\ Opens(r)
    BY <1>0, <2>2, OpensFrame DEF Started
  <2>3. CASE q = r /\ ~ Opens(r)
    <3>1. Turn(r) /\ Goes(r) /\ Onward(r) /\ Deleting(r) /\ loc'[r].id = loc[r].id
      BY <1>3, <1>5, <1>9, <2>3 DEF Deleting
    <3>2. loc[r].id \notin doubled /\ loc[r].id \in UserIds
      <4>1. pc[r] \notin {"idle", "create"}
        BY <1>0, <3>1 DEF Deleting, WriteInv
      <4>2. loc[r].id # 0
        BY <1>0, <4>1 DEF WriteInv
      <4> QED
        BY <1>0, <1>1, <1>9, <2>3, <3>1, <4>2 DEF UserIds
    <3>3. CASE pc'[r] = "dropDoc"
      <4>1. UNCHANGED tables /\ \E d \in DocsOf(loc[r].id) : loc'[r].doc = {d}
        BY <3>1, <3>3 DEF Onward
      <4>2. AtMostOne(DocsOf(loc[r].id)) /\ DocsOf(loc[r].id)' = DocsOf(loc[r].id)
        BY <1>0, <3>1, <3>2, <4>1 DEF DocInv, DocsOf, tables
      <4> QED
        BY <2>3, <3>3, <4>1, <4>2 DEF AtMostOne
    <3>4. CASE pc'[r] = "dropRow" /\ ~ loc'[r].failed
      <4>1. CASE UNCHANGED tables /\ DocsOf(loc[r].id) = {}
        BY <2>3, <3>1, <3>4, <4>1 DEF DocsOf, tables
      <4>2. CASE DropDoc(r) /\ docs' = {d \in docs : \A e \in loc[r].doc : d.id # e.id}
        <5>1. \A d \in DocsOf(loc[r].id) : \E e \in loc[r].doc : d.id = e.id
          BY <1>0, <3>1, <3>2, <4>2 DEF DeleteInv, DropDoc
        <5> QED
          BY <2>3, <3>1, <3>4, <4>2, <5>1 DEF DocsOf
      <4> QED
        BY <3>1, <3>4, <4>1, <4>2 DEF Onward
    <3> QED
      BY <2>3, <3>3, <3>4
  <2> QED
    BY <2>1, <2>2, <2>3
<1>10. (\A q \in Requests :
    /\ pc[q] = "findDoc" => op[q] \in {"update", "delete"}
    /\ pc[q] \in {"dropDoc", "dropRow"} => op[q] = "delete"
    /\ Deleting(q) => \A p \in Requests \ {q} : pc[p] # "idle" => loc[p].id # loc[q].id
    /\ Deleting(q) /\ loc[q].id \notin doubled =>
         /\ pc[q] = "dropDoc" => \A d \in DocsOf(loc[q].id) : \E e \in loc[q].doc : d.id = e.id
         /\ pc[q] = "dropRow" /\ ~ loc[q].failed => DocsOf(loc[q].id) = {})'
  BY <1>7, <1>8, <1>9
<1> QED
  BY <1>10 DEF DeleteInv

-----------------------------------------------------------------------------
(* What holds of every behaviour.                                          *)

\* What the properties rest on: each step of a request leaves its own copy, and
\* those of others, either true to the tables or marked as stale.
THEOREM Invariance == Spec => []IInv
<1>1. IInv /\ [Next]_vars => IInv'
  <2> SUFFICES ASSUME IInv, [Next]_vars PROVE IInv'
    OBVIOUS
  <2>1. CASE UNCHANGED vars
    BY <2>1, StutterInv
  <2>2. ASSUME NEW r \in Requests, Opens(r) \/ Turn(r) \/ Direct(r) PROVE IInv'
    BY <2>2, TypeStep, WriteStep, DocStep, DeleteStep DEF IInv
  <2> QED
    BY <2>1, <2>2, StepOf
<1> QED
  BY <1>1, InitInv, PTL DEF Spec

\* The tables keep their keys (a user name has one row, a profile one document
\* with its id, both of accounts there have been), and the requests their types.
THEOREM TypeCorrect == Spec => []TypeOK
<1>1. IInv => TypeOK
  BY DEF IInv, TypeInv
<1> QED
  BY <1>1, Invariance, PTL

\* In a step of a request from a state of the invariant.
LEMMA RowOfStep ==
  ASSUME IInv, NEW x \in row', x.id <= users, RowOf(x.id) = {}, [Next]_vars
  PROVE  \E r \in Requests : Insert(r) /\ loc[r].id = x.id /\ loc[r].stale
<1>0. /\ TypeInv /\ WriteInv /\ users \in Nat /\ \A y \in row : y.id # x.id
  BY UserAssumption DEF IInv, TypeInv, TypeOK, RowOf
<1>1. row' # row
  BY <1>0
<1>2. PICK r \in Requests : Opens(r) \/ Turn(r) \/ Direct(r)
  BY <1>1, StepOf DEF vars, tables
<1>3. ~ Create(r)
  <2>1. Create(r) => x.id = users + 1
    BY DEF Create
  <2> QED
    BY <1>0, <2>1
<1>4. /\ row' = Written(r)
      /\ (Save(r) /\ RowOf(loc[r].id) # {}) \/ (Insert(r) /\ row = RowOf(loc[r].id))
  BY <1>0, <1>1, <1>2, <1>3, RowSteps DEF RowAfter
<1>5. x.id = loc[r].id /\ pc[r] \in Saving
  BY <1>0, <1>4, WrittenRow DEF Save, Insert, Saving
<1>6. Insert(r) /\ RowOf(loc[r].id) = {}
  BY <1>4, <1>5
<1>7. loc[r].stale
  BY <1>0, <1>5, <1>6 DEF WriteInv
<1> QED
  BY <1>5, <1>6, <1>7

\* A password begins to sign in only by a statement of a request that was given
\* it: UpdateUser writes a hash of a hash, which nobody's password matches.
THEOREM ReplacedStaysDead == Spec => ReplacedPasswordDead
<1>1. ASSUME IInv, [Next]_vars, NEW p \in Good' \ Good
      PROVE  \E r \in Requests : /\ op[r] \in {"register", "password"}
                                 /\ loc[r].secret = {Plain(p)}
                                 /\ Create(r) \/ Save(r) \/ Insert(r)
  <2>0. TypeInv /\ WriteInv
    BY <1>1 DEF IInv
  <2>1. PICK x \in row' : ~ x.hash.rehashed /\ p = x.hash.of
    BY <1>1 DEF Good
  <2>2. ~ \E y \in row : x.hash = y.hash
    BY <1>1, <2>1 DEF Good
  <2>3. row' # row
    BY <2>1, <2>2
  <2>4. PICK r \in Requests : Opens(r) \/ Turn(r) \/ Direct(r)
    BY <1>1, <2>3, StepOf DEF vars, tables
  <2>5. CASE Create(r)
    <3>1. PICK q \in Passwords : op[r] = "register" /\ loc[r].secret = {Plain(q)}
      BY <2>0, <2>5 DEF WriteInv, Create
    <3>2. row' = {[id |-> users + 1, hash |-> Plain(q), login |-> FALSE]}
      BY <2>5, <3>1 DEF Create
    <3>3. x.hash = Plain(q)
      BY <2>1, <3>2
    <3>4. p = q
      BY <2>1, <3>3 DEF Plain
    <3> QED
      BY <2>5, <3>1, <3>4
  <2>6. CASE (Save(r) \/ Insert(r)) /\ row' = Written(r)
    <3>1. pc[r] \in Saving
      BY <2>6 DEF Save, Insert, Saving
    <3>2. op[r] = "password" /\ loc[r].secret = {x.hash}
      BY <2>0, <2>1, <2>6, <3>1, WrittenRow
    <3>3. PICK q \in Passwords : loc[r].secret = {Plain(q)}
      BY <2>0, <3>1, <3>2 DEF WriteInv
    <3>4. x.hash = Plain(q)
      BY <3>2, <3>3
    <3>5. p = q
      BY <2>1, <3>4 DEF Plain
    <3> QED
      BY <2>6, <3>2, <3>3, <3>5
  <2> QED
    BY <2>0, <2>2, <2>3, <2>4, <2>5, <2>6, RowSteps DEF RowAfter
<1>2. IInv /\ [Next]_vars =>
        \A p \in Good' \ Good :
          \E r \in Requests : /\ op[r] \in {"register", "password"}
                              /\ loc[r].secret = {Plain(p)}
                              /\ Create(r) \/ Save(r) \/ Insert(r)
  BY <1>1
<1> QED
  BY <1>2, Invariance, PTL DEF Spec, ReplacedPasswordDead

\* A deleted account comes back only by the INSERT of gorm's Save, of a request
\* whose copy of the row is from before the deletion.
THEOREM RevivalNeedsOverlap == Spec => RevivedOnlyByOverlap
<1>1. ASSUME IInv, [Next]_vars
      PROVE  \A x \in row' : x.id <= users /\ RowOf(x.id) = {} =>
               \E r \in Requests : Insert(r) /\ loc[r].id = x.id /\ loc[r].stale
  BY <1>1, RowOfStep
<1> QED
  BY <1>1, Invariance, PTL DEF Spec, RevivedOnlyByOverlap

\* A row and a profile that are written back whole lose nothing that happened
\* before they were read.
THEOREM WholeWritesAreOfWhatIsThere == Spec => WritesOnlyAsked
<1>1. ASSUME IInv, [Next]_vars, NEW r \in Requests, ~ loc[r].stale
      PROVE  /\ Save(r) => \A x \in row, y \in row' : x.id = y.id => x.login = y.login
             /\ PutDoc(r) => \A d \in docs, e \in docs' :
                   d.id = e.id => d.filled \ loc[r].asked = e.filled \ loc[r].asked
  <2>0. /\ TypeInv /\ WriteInv /\ AtMostOne(row) /\ loc[r] \in Local /\ docs \subseteq Doc
        /\ \A d, e \in docs : d.id = e.id => d = e
    BY <1>1 DEF IInv, TypeInv, TypeOK
  <2>1. ASSUME Save(r), NEW x \in row, NEW y \in row', x.id = y.id PROVE x.login = y.login
    <3>1. CASE RowOf(loc[r].id) = {}
      BY <2>0, <2>1, <3>1 DEF Save, AtMostOne
    <3>2. CASE RowOf(loc[r].id) # {}
      <4>1. row' = Written(r) /\ pc[r] \in Saving
        BY <2>1, <3>2 DEF Save, Saving
      <4>2. PICK z \in loc[r].seen : y.login = z.login
        BY <2>0, <4>1, WrittenRow
      <4>3. z \in row
        BY <1>1, <2>0, <4>1 DEF WriteInv, RowOf
      <4> QED
        BY <2>0, <4>2, <4>3 DEF AtMostOne
    <3> QED
      BY <3>1, <3>2
  <2>2. ASSUME PutDoc(r), NEW d \in docs, NEW e \in docs', d.id = e.id
        PROVE  d.filled \ loc[r].asked = e.filled \ loc[r].asked
    <3> DEFINE new(c) == [c EXCEPT !.filled = UpdateFields(@, loc[r].asked)]
    <3>1. loc[r].doc \subseteq docs
      BY <1>1, <2>2 DEF IInv, DocInv, PutDoc
    <3>2. \A c \in loc[r].doc : new(c).id = c.id /\ new(c).filled = c.filled \cup loc[r].asked
      BY <2>0, <3>1 DEF Doc, UpdateFields
    <3>3. e \in docs \/ \E c \in loc[r].doc : e = new(c)
      BY <2>2 DEF PutDoc
    <3> HIDE DEF new
    <3>4. CASE e \in docs
      BY <2>0, <2>2, <3>4
    <3>5. CASE \E c \in loc[r].doc : e = new(c)
      <4>1. PICK c \in loc[r].doc : e = new(c)
        BY <3>5
      <4>2. c = d /\ e.filled = d.filled \cup loc[r].asked
        BY <2>0, <2>2, <3>1, <3>2, <4>1
      <4> QED
        BY <4>2
    <3> QED
      BY <3>3, <3>4, <3>5
  <2> QED
    BY <2>1, <2>2
<1>2. IInv /\ [Next]_vars =>
        \A r \in Requests : ~ loc[r].stale =>
          /\ Save(r) => \A x \in row, y \in row' : x.id = y.id => x.login = y.login
          /\ PutDoc(r) => \A d \in docs, e \in docs' :
                            d.id = e.id => d.filled \ loc[r].asked = e.filled \ loc[r].asked
  BY <1>1
<1> QED
  BY <1>2, Invariance, PTL DEF Spec, WritesOnlyAsked

\* A deletion that had the account to itself leaves nothing of it.
THEOREM DeletionIsWhole == Spec => DeletedWhole
<1>1. ASSUME IInv, [Next]_vars, NEW r \in Requests,
             DropRow(r), ~ loc[r].disturbed, ~ loc[r].failed, loc[r].id \notin doubled
      PROVE  /\ \A x \in row' : x.id # loc[r].id
             /\ \A d \in docs' : d.user # loc[r].id
  <2>1. pc[r] = "dropRow" /\ row' = row \ RowOf(loc[r].id) /\ docs' = docs
    BY <1>1 DEF DropRow
  <2>2. DocsOf(loc[r].id) = {}
    BY <1>1, <2>1 DEF IInv, DeleteInv, Deleting
  <2> QED
    BY <2>1, <2>2 DEF RowOf, DocsOf
<1>2. IInv /\ [Next]_vars =>
        \A r \in Requests :
          DropRow(r) /\ ~ loc[r].disturbed /\ ~ loc[r].failed /\ loc[r].id \notin doubled
            => /\ \A x \in row' : x.id # loc[r].id
               /\ \A d \in docs' : d.user # loc[r].id
  BY <1>1
<1> QED
  BY <1>2, Invariance, PTL DEF Spec, DeletedWhole

-----------------------------------------------------------------------------
(* Files.                                                                  *)

\* Upload u is of path p: a record, an upload under way, a copy of a record or
\* the entry of the directory says so.
UploadOf(u, p) ==
  \/ \E f \in records : f.id = u /\ f.path = p
  \/ \E r \in Requests : /\ filePc[r] \in F!Uploading /\ fileLoc[r].path = p
                         /\ fileLoc[r].upload = u \/ (fileLoc[r].inode = u /\ u # 0)
  \/ \E r \in Requests : \E f \in fileLoc[r].seen : f.id = u /\ f.path = p
  \/ u # 0 /\ disk[p] = u

\* An upload has one path, and a path that was given once one upload.
PathsInv ==
  \A p \in F!Paths : \A u \in 0..MaxUploads : UploadOf(u, p) =>
    /\ u # 0 /\ u <= uploads /\ given[p] # 0
    /\ \A q \in F!Paths : UploadOf(u, q) => p = q
    /\ \A v \in 0..MaxUploads : UploadOf(v, p) => given[p] > 1 \/ u = v

Unrecorded(u) ==
  /\ \A f \in records : f.id # u
  /\ \A q \in Requests : \A f \in fileLoc[q].seen : f.id # u

\* What an upload has done before its record is inserted, and the copies of
\* records that requests have.
UploadInv ==
  /\ \A f \in records : f.hash = f.id
  /\ \A r \in Requests :
       /\ AtMostOne(fileLoc[r].seen) /\ \A f \in fileLoc[r].seen : f.hash = f.id
       /\ filePc[r] \in F!Uploading =>
            \A q \in Requests : filePc[q] \in F!Uploading /\ fileLoc[q].upload = fileLoc[r].upload => q = r
       /\ filePc[r] \in {"copy", "insert"} => fileLoc[r].inode # 0
       /\ filePc[r] \in {"open", "copy", "insert"} => Unrecorded(fileLoc[r].upload)
       /\ filePc[r] = "undo" /\ fileLoc[r].path \notin broken => Unrecorded(fileLoc[r].upload)
       /\ filePc[r] \in {"copy", "insert"} /\ ~ given[fileLoc[r].path] > 1 =>
            disk[fileLoc[r].path] = fileLoc[r].inode
       /\ filePc[r] = "copy" /\ ~ given[fileLoc[r].path] > 1 => content[fileLoc[r].inode] = F!Empty
       /\ filePc[r] = "insert" /\ ~ given[fileLoc[r].path] > 1 =>
            content[fileLoc[r].inode] = fileLoc[r].upload

\* A record whose deletion is half done.
Going(f) == \E r \in Requests : filePc[r] = "delete" /\ f.id \in {g.id : g \in fileLoc[r].seen}

\* An entry comes from an upload, and goes before its record does.
StrayInv ==
  \A p \in F!Paths : disk[p] # 0 =>
    \/ \E f \in records : f.path = p /\ ~ Going(f)
    \/ p \in broken
    \/ \E r \in Requests : filePc[r] \in {"copy", "insert", "undo"} /\ fileLoc[r].path = p

FilesInv == F!TypeOK /\ PathsInv /\ UploadInv /\ StrayInv /\ F!RecordHasItsContent

-----------------------------------------------------------------------------
(* What a step does to the files.                                          *)

LEMMA FilesTyped ==
  ASSUME FilesInv
  PROVE  /\ MaxUploads \in Nat /\ uploads \in 0..MaxUploads /\ records \subseteq F!Record
         /\ filePc \in [Requests -> F!Labels] /\ fileLoc \in [Requests -> F!Local]
         /\ disk \in [F!Paths -> 0..uploads] /\ given \in [F!Paths -> 0..uploads]
         /\ content \in [F!Uploads -> F!Empty..F!Mixed]
         /\ F!Uploads = 1..MaxUploads /\ broken \subseteq F!Paths
         /\ \A r \in Requests : /\ fileLoc[r] \in F!Local
                                /\ fileLoc[r].upload \in 0..MaxUploads /\ fileLoc[r].path \in F!Paths
                                /\ fileLoc[r].inode \in 0..MaxUploads /\ fileLoc[r].seen \subseteq F!Record
         /\ F!NoLocal \in F!Local /\ F!NoLocal.upload = 0 /\ F!NoLocal.inode = 0 /\ F!NoLocal.seen = {}
         /\ \A f \in F!Record : f.id \in 1..MaxUploads /\ f.path \in F!Paths /\ f.hash \in 1..MaxUploads
<1>1. F!NoPath \in F!Paths /\ MaxUploads \in Nat
  <2>1. (CHOOSE n \in FileNames : TRUE) \in FileNames
    BY FilesAssumption
  <2> QED
    BY <2>1, FilesAssumption DEF F!NoPath, F!Paths
<1>2. F!NoLocal \in F!Local /\ F!NoLocal.upload = 0 /\ F!NoLocal.inode = 0 /\ F!NoLocal.seen = {}
  BY <1>1 DEF F!NoLocal, F!Local
<1>3. F!TypeOK
  BY DEF FilesInv
<1>4. \A f \in F!Record : f.id \in 1..MaxUploads /\ f.path \in F!Paths /\ f.hash \in 1..MaxUploads
  BY DEF F!Record, F!Uploads
<1>5. \A l \in F!Local : /\ l.upload \in 0..MaxUploads /\ l.path \in F!Paths
                         /\ l.inode \in 0..MaxUploads /\ l.seen \subseteq F!Record
  BY DEF F!Local
<1> QED
  BY <1>1, <1>2, <1>3, <1>4, <1>5 DEF F!TypeOK, F!Uploads

LEMMA FileStepFrame ==
  ASSUME filePc \in [Requests -> F!Labels], fileLoc \in [Requests -> F!Local],
         NEW r \in Requests, NEW label \in F!Labels, NEW mine \in F!Local, F!Step(r, label, mine)
  PROVE  /\ filePc' \in [Requests -> F!Labels] /\ fileLoc' \in [Requests -> F!Local]
         /\ filePc'[r] = label /\ fileLoc'[r] = mine
         /\ \A q \in Requests \ {r} : filePc'[q] = filePc[q] /\ fileLoc'[q] = fileLoc[q]
BY DEF F!Step

\* All that a request does but begin an upload.
FileTurn(r) ==
  \/ \E f \in records : F!BeginDelete(r, f) \/ F!BeginUpdate(r, f) \/ F!SetCustom(r, f)
  \/ F!Open(r) \/ F!Copy(r) \/ F!Insert(r) \/ F!InsertFails(r) \/ F!Undo(r)
  \/ F!Remove(r) \/ F!DeleteRecord(r) \/ F!Put(r)
  \/ F!Fail(r)

RecordsAfter(r) ==
  /\ records' \subseteq F!Record
  /\ \A f \in records' :
       \/ \E g \in records : g.id = f.id /\ g.path = f.path /\ g.hash = f.hash
       \/ (F!Insert(r) \/ F!InsertFails(r)) /\ f = F!NewRecord(r)
  /\ ~ F!Insert(r) /\ ~ F!InsertFails(r) => \A f, g \in records' : f.id = g.id => f = g
  /\ \A g \in records : \/ \E f \in records' : f.id = g.id /\ f.path = g.path
                        \/ F!DeleteRecord(r) /\ g.id \in {h.id : h \in fileLoc[r].seen}

DiskAfter(r) ==
  /\ disk' \in [F!Paths -> 0..uploads]
  /\ \A p \in F!Paths :
       \/ disk'[p] = disk[p]
       \/ F!Open(r) /\ p = fileLoc[r].path /\ disk'[p] = fileLoc'[r].inode
       \/ /\ disk'[p] = 0
          /\ \/ F!Undo(r) /\ p = fileLoc[r].path
             \/ F!Remove(r) /\ \E f \in fileLoc[r].seen : f.path = p
  /\ F!Remove(r) => \A f \in fileLoc[r].seen : disk'[f.path] = 0

ContentAfter(r) ==
  /\ content' \in [F!Uploads -> F!Empty..F!Mixed]
  /\ \A i \in F!Uploads : \/ content'[i] = content[i]
                          \/ F!Open(r) /\ i = fileLoc'[r].inode
                          \/ F!Copy(r) /\ i = fileLoc[r].inode

OwnAfter(r) ==
  /\ \/ fileLoc'[r].seen = {} \/ fileLoc'[r].seen = fileLoc[r].seen
     \/ \E f \in records : fileLoc'[r].seen = {f}
  /\ filePc'[r] \in F!Uploading =>
       /\ filePc[r] \in F!Uploading /\ filePc[r] # "undo"
       /\ fileLoc'[r].path = fileLoc[r].path /\ fileLoc'[r].upload = fileLoc[r].upload
       /\ fileLoc'[r].inode = fileLoc[r].inode \/ F!Open(r)
  /\ filePc'[r] # "open"
  /\ filePc'[r] = "copy" => F!Open(r)
  /\ filePc'[r] = "insert" => F!Copy(r)
  /\ filePc'[r] = "undo" => F!InsertFails(r)
  /\ filePc'[r] = "delete" => F!Remove(r) /\ fileLoc'[r] = fileLoc[r]
  /\ F!Open(r) =>
       /\ fileLoc'[r].inode = IF disk[fileLoc[r].path] = 0 THEN fileLoc[r].upload ELSE disk[fileLoc[r].path]
       /\ disk'[fileLoc[r].path] = fileLoc'[r].inode
       /\ content'[fileLoc'[r].inode] = F!Empty
       /\ filePc[r] = "open" /\ filePc'[r] = "copy" /\ records' = records

FileEffect(r) ==
  /\ UNCHANGED <<second, uploads, given>> /\ broken \subseteq broken' /\ broken' \subseteq F!Paths
  /\ filePc' \in [Requests -> F!Labels] /\ fileLoc' \in [Requests -> F!Local]
  /\ \A q \in Requests \ {r} : filePc'[q] = filePc[q] /\ fileLoc'[q] = fileLoc[q]
  /\ RecordsAfter(r) /\ DiskAfter(r) /\ ContentAfter(r) /\ OwnAfter(r)

LEMMA FileEffects ==
  ASSUME FilesInv, NEW r \in Requests, FileTurn(r)
  PROVE  FileEffect(r)
<1>0. /\ records \subseteq F!Record /\ fileLoc[r] \in F!Local /\ filePc[r] \in F!Labels /\ filePc \in [Requests -> F!Labels]
      /\ fileLoc \in [Requests -> F!Local] /\ fileLoc[r].path \in F!Paths /\ uploads \in 0..MaxUploads
      /\ F!NoLocal \in F!Local /\ F!NoLocal.upload = 0 /\ F!NoLocal.inode = 0 /\ F!NoLocal.seen = {}
      /\ disk \in [F!Paths -> 0..uploads] /\ content \in [F!Uploads -> F!Empty..F!Mixed]
      /\ broken \subseteq F!Paths /\ fileLoc[r].seen \subseteq F!Record
      /\ fileLoc[r].upload \in 0..MaxUploads /\ fileLoc[r].inode \in 0..MaxUploads /\ MaxUploads \in Nat
      /\ \A f, g \in records : f.id = g.id => f = g
      /\ F!Uploads = 1..MaxUploads /\ \A f \in F!Record : f.path \in F!Paths
  BY FilesTyped DEF FilesInv, F!TypeOK
<1>1. {"idle", "open", "copy", "insert", "undo", "remove", "delete", "put"} = F!Labels
      /\ F!Uploading = {"open", "copy", "insert", "undo"}
  BY DEF F!Labels, F!Uploading
<1>2. /\ records' = records => RecordsAfter(r)
      /\ disk' = disk /\ ~ F!Open(r) /\ ~ F!Remove(r) => DiskAfter(r)
      /\ content' = content => ContentAfter(r)
  BY <1>0 DEF RecordsAfter, DiskAfter, ContentAfter
<1>3. ASSUME NEW label \in F!Labels, NEW mine \in F!Local, F!Step(r, label, mine)
      PROVE  /\ filePc' \in [Requests -> F!Labels] /\ fileLoc' \in [Requests -> F!Local]
             /\ filePc'[r] = label /\ fileLoc'[r] = mine
             /\ \A q \in Requests \ {r} : filePc'[q] = filePc[q] /\ fileLoc'[q] = fileLoc[q]
  BY <1>0, <1>3, FileStepFrame
<1>4. ASSUME F!Finish(r)
      PROVE  /\ filePc' \in [Requests -> F!Labels] /\ fileLoc' \in [Requests -> F!Local]
             /\ filePc'[r] = "idle" /\ fileLoc'[r] = F!NoLocal
             /\ \A q \in Requests \ {r} : filePc'[q] = filePc[q] /\ fileLoc'[q] = fileLoc[q]
  BY <1>0, <1>1, <1>3, <1>4 DEF F!Finish
<1>5. F!Finish(r) /\ ~ F!Open(r) => OwnAfter(r)
  BY <1>0, <1>1, <1>4 DEF OwnAfter
<1>6. CASE \E f \in records : F!BeginDelete(r, f) \/ F!BeginUpdate(r, f)
  <2>1. PICK f \in records : F!BeginDelete(r, f) \/ F!BeginUpdate(r, f)
    BY <1>6
  <2> DEFINE mine == [F!NoLocal EXCEPT !.seen = {f}]
  <2>2. mine \in F!Local /\ mine.seen = {f}
    <3>1. {f} \in SUBSET F!Record
      BY <1>0
    <3> QED
      BY <1>0, <3>1 DEF F!Local
  <2>3. /\ F!Step(r, "remove", mine) \/ F!Step(r, "put", mine)
        /\ UNCHANGED <<second, disk, content, records, uploads, given, broken>> /\ ~ F!Open(r) /\ ~ F!Remove(r)
    BY <2>1 DEF F!BeginDelete, F!BeginUpdate, F!Open, F!Remove
  <2> HIDE DEF mine
  <2>4. /\ filePc' \in [Requests -> F!Labels] /\ fileLoc' \in [Requests -> F!Local]
        /\ filePc'[r] \in {"remove", "put"} /\ fileLoc'[r] = mine
        /\ \A q \in Requests \ {r} : filePc'[q] = filePc[q] /\ fileLoc'[q] = fileLoc[q]
    BY <1>1, <1>3, <2>2, <2>3
  <2>5. OwnAfter(r)
    BY <1>1, <2>1, <2>2, <2>3, <2>4 DEF OwnAfter
  <2> QED
    BY <1>0, <1>2, <2>3, <2>4, <2>5 DEF FileEffect
<1>7. CASE \E f \in records : F!SetCustom(r, f)
  <2>1. PICK f \in records : F!SetCustom(r, f)
    BY <1>7
  <2> DEFINE new == [f EXCEPT !.edited = TRUE]
  <2>2. new \in F!Record /\ new.id = f.id /\ new.path = f.path /\ new.hash = f.hash
    BY <1>0 DEF F!Record
  <2>3. records' = (records \ {f}) \cup {new} /\ F!Finish(r) /\ ~ F!Open(r) /\ ~ F!Remove(r)
        /\ UNCHANGED <<second, disk, content, uploads, given, broken>>
    <3>1. ~ F!Open(r) /\ ~ F!Remove(r)
      BY <2>1 DEF F!SetCustom, F!Open, F!Remove
    <3> QED
      BY <2>1, <3>1 DEF F!SetCustom
  <2> HIDE DEF new
  <2>4. RecordsAfter(r)
    BY <1>0, <2>2, <2>3 DEF RecordsAfter
  <2> QED
    BY <1>0, <1>2, <1>4, <1>5, <2>3, <2>4 DEF FileEffect
<1>8. CASE F!Open(r)
  <2> DEFINE p == fileLoc[r].path
             i == IF disk[p] = 0 THEN fileLoc[r].upload ELSE disk[p]
             mine == [fileLoc[r] EXCEPT !.inode = i]
  <2>1. /\ disk' = [disk EXCEPT ![p] = i] /\ content' = [content EXCEPT ![i] = F!Empty]
        /\ F!Step(r, "copy", mine) /\ filePc[r] = "open"
        /\ UNCHANGED <<second, records, uploads, given, broken>>
    BY <1>8 DEF F!Open
  <2>2. i \in 1..uploads
    <3>1. UploadOf(fileLoc[r].upload, p)
      BY <1>1, <2>1 DEF UploadOf
    <3>2. fileLoc[r].upload # 0 /\ fileLoc[r].upload <= uploads
      BY <1>0, <3>1 DEF FilesInv, PathsInv
    <3> QED
      BY <1>0, <3>2
  <2>3. i \in 0..MaxUploads /\ i \in F!Uploads
    BY <1>0, <2>2
  <2> HIDE DEF i
  <2>4. mine \in F!Local /\ mine.inode = i /\ mine.seen = fileLoc[r].seen
        /\ mine.path = fileLoc[r].path /\ mine.upload = fileLoc[r].upload
    BY <1>0, <2>3 DEF F!Local
  <2> HIDE DEF mine
  <2>5. /\ filePc' \in [Requests -> F!Labels] /\ fileLoc' \in [Requests -> F!Local]
        /\ filePc'[r] = "copy" /\ fileLoc'[r] = mine
        /\ \A q \in Requests \ {r} : filePc'[q] = filePc[q] /\ fileLoc'[q] = fileLoc[q]
    BY <1>1, <1>3, <2>1, <2>4
  <2>6. DiskAfter(r) /\ disk'[p] = i
    BY <1>0, <1>8, <2>1, <2>2, <2>4, <2>5 DEF DiskAfter, F!Remove
  <2>7. ContentAfter(r) /\ content'[i] = F!Empty
    <3>1. F!Empty \in F!Empty..F!Mixed
      BY <1>0 DEF F!Empty, F!Mixed
    <3> QED
      BY <1>0, <1>8, <2>1, <2>3, <2>4, <2>5, <3>1 DEF ContentAfter
  <2>8. OwnAfter(r)
    BY <1>1, <1>8, <2>1, <2>4, <2>5, <2>6, <2>7 DEF OwnAfter, i
  <2> QED
    BY <1>0, <1>2, <2>1, <2>5, <2>6, <2>7, <2>8 DEF FileEffect
<1>9. CASE F!Copy(r)
  <2>1. /\ F!Step(r, "insert", fileLoc[r]) /\ filePc[r] = "copy" /\ ~ F!Open(r) /\ ~ F!Remove(r)
        /\ UNCHANGED <<second, disk, records, uploads, given, broken>>
        /\ \/ content' = [content EXCEPT ![fileLoc[r].inode] = fileLoc[r].upload]
           \/ content' = [content EXCEPT ![fileLoc[r].inode] = F!Mixed]
    BY <1>9 DEF F!Copy, F!Open, F!Remove
  <2>2. ContentAfter(r)
    <3>1. F!Mixed \in F!Empty..F!Mixed /\ fileLoc[r].upload \in F!Empty..F!Mixed
      BY <1>0 DEF F!Empty, F!Mixed
    <3> QED
      BY <1>0, <1>9, <2>1, <3>1 DEF ContentAfter
  <2>3. /\ filePc' \in [Requests -> F!Labels] /\ fileLoc' \in [Requests -> F!Local]
        /\ filePc'[r] = "insert" /\ fileLoc'[r] = fileLoc[r]
        /\ \A q \in Requests \ {r} : filePc'[q] = filePc[q] /\ fileLoc'[q] = fileLoc[q]
    BY <1>0, <1>1, <1>3, <2>1
  <2>4. OwnAfter(r)
    BY <1>1, <1>9, <2>1, <2>3 DEF OwnAfter
  <2> QED
    BY <1>0, <1>2, <2>1, <2>2, <2>3, <2>4 DEF FileEffect
<1>11. F!Insert(r) \/ F!InsertFails(r) => F!NewRecord(r) \in F!Record
  <2> SUFFICES ASSUME F!Insert(r) \/ F!InsertFails(r) PROVE F!NewRecord(r) \in F!Record
    OBVIOUS
  <2>1. UploadOf(fileLoc[r].upload, fileLoc[r].path)
    BY <1>1 DEF UploadOf, F!Insert, F!InsertFails
  <2>2. fileLoc[r].upload # 0
    BY <1>0, <2>1 DEF FilesInv, PathsInv
  <2>3. fileLoc[r].upload \in F!Uploads
    BY <1>0, <2>2
  <2> QED
    BY <1>0, <2>3 DEF F!NewRecord, F!Record
<1>12. CASE F!Insert(r)
  <2>1. /\ records' = records \cup {F!NewRecord(r)} /\ F!Finish(r) /\ ~ F!Open(r) /\ ~ F!Remove(r)
        /\ UNCHANGED <<second, disk, content, uploads, given, broken>>
    BY <1>12 DEF F!Insert, F!Open, F!Remove
  <2>2. RecordsAfter(r)
    BY <1>0, <1>11, <1>12, <2>1 DEF RecordsAfter
  <2> QED
    BY <1>0, <1>2, <1>4, <1>5, <2>1, <2>2 DEF FileEffect
<1>13. CASE F!InsertFails(r)
  <2>1. /\ records' = records \/ records' = records \cup {F!NewRecord(r)}
        /\ broken' = broken \/ broken' = broken \cup {fileLoc[r].path}
        /\ F!Step(r, "undo", fileLoc[r]) /\ ~ F!Open(r) /\ ~ F!Remove(r) /\ filePc[r] = "insert"
        /\ UNCHANGED <<second, disk, content, uploads, given>>
    BY <1>13 DEF F!InsertFails, F!Open, F!Remove
  <2>2. RecordsAfter(r)
    BY <1>0, <1>11, <1>13, <2>1 DEF RecordsAfter
  <2>3. /\ filePc' \in [Requests -> F!Labels] /\ fileLoc' \in [Requests -> F!Local]
        /\ filePc'[r] = "undo" /\ fileLoc'[r] = fileLoc[r]
        /\ \A q \in Requests \ {r} : filePc'[q] = filePc[q] /\ fileLoc'[q] = fileLoc[q]
    BY <1>0, <1>1, <1>3, <2>1
  <2>4. OwnAfter(r)
    BY <1>1, <1>13, <2>1, <2>3 DEF OwnAfter
  <2> QED
    BY <1>0, <1>2, <2>1, <2>2, <2>3, <2>4 DEF FileEffect
<1>14. CASE F!Undo(r)
  <2>1. /\ disk' = [disk EXCEPT ![fileLoc[r].path] = 0] /\ F!Finish(r) /\ ~ F!Open(r)
        /\ UNCHANGED <<second, content, records, uploads, given, broken>>
    BY <1>14 DEF F!Undo, F!Open
  <2>2. DiskAfter(r)
    BY <1>0, <1>14, <2>1 DEF DiskAfter, F!Undo, F!Remove
  <2> QED
    BY <1>0, <1>2, <1>4, <1>5, <2>1, <2>2 DEF FileEffect
<1>15. CASE F!Remove(r)
  <2>1. /\ disk' = [p \in F!Paths |-> IF \E f \in fileLoc[r].seen : f.path = p THEN 0 ELSE disk[p]]
        /\ F!Step(r, "delete", fileLoc[r]) /\ ~ F!Open(r)
        /\ UNCHANGED <<second, content, records, uploads, given, broken>>
    BY <1>15 DEF F!Remove, F!Open
  <2>2. DiskAfter(r)
    BY <1>0, <1>15, <2>1 DEF DiskAfter
  <2>3. /\ filePc' \in [Requests -> F!Labels] /\ fileLoc' \in [Requests -> F!Local]
        /\ filePc'[r] = "delete" /\ fileLoc'[r] = fileLoc[r]
        /\ \A q \in Requests \ {r} : filePc'[q] = filePc[q] /\ fileLoc'[q] = fileLoc[q]
    BY <1>0, <1>1, <1>3, <2>1
  <2>4. OwnAfter(r)
    BY <1>1, <1>15, <2>1, <2>3 DEF OwnAfter
  <2> QED
    BY <1>0, <1>2, <2>1, <2>2, <2>3, <2>4 DEF FileEffect
<1>16. CASE F!DeleteRecord(r)
  <2>1. /\ records' \subseteq records /\ F!Finish(r) /\ ~ F!Open(r) /\ ~ F!Remove(r)
        /\ UNCHANGED <<second, disk, content, uploads, given, broken>>
    BY <1>16 DEF F!DeleteRecord, F!Open, F!Remove
  <2>2. RecordsAfter(r)
    <3>1. records' = {f \in records : f.id \notin {h.id : h \in fileLoc[r].seen}}
      BY <1>16 DEF F!DeleteRecord
    <3> QED
      BY <1>0, <1>16, <3>1 DEF RecordsAfter
  <2> QED
    BY <1>0, <1>2, <1>4, <1>5, <2>1, <2>2 DEF FileEffect
<1>17. CASE F!Put(r)
  <2> DEFINE new(f) == [f EXCEPT !.edited = TRUE]
             news == {new(f) : f \in fileLoc[r].seen}
             ids  == {f.id : f \in news}
  <2>1. /\ records' = {f \in records : f.id \notin ids} \cup {f \in news : \E g \in records : f.id = g.id}
        /\ F!Finish(r) /\ ~ F!Open(r) /\ ~ F!Remove(r)
        /\ UNCHANGED <<second, disk, content, uploads, given, broken>>
    BY <1>17 DEF F!Put, F!Open, F!Remove
  <2>2. \A f \in fileLoc[r].seen : /\ new(f) \in F!Record /\ new(f).id = f.id
                                   /\ new(f).path = f.path /\ new(f).hash = f.hash
    BY <1>0 DEF F!Record
  <2> HIDE DEF new
  <2>3. \A f \in fileLoc[r].seen : \A g \in records : f.id = g.id => f.path = g.path /\ f.hash = g.hash
    <3> SUFFICES ASSUME NEW f \in fileLoc[r].seen, NEW g \in records, f.id = g.id
                 PROVE  f.path = g.path /\ f.hash = g.hash
      OBVIOUS
    <3>1. UploadOf(f.id, f.path) /\ UploadOf(f.id, g.path)
      BY DEF UploadOf
    <3>2. f.id \in 0..MaxUploads /\ f.path \in F!Paths /\ g.path \in F!Paths
      BY <1>0, FilesTyped
    <3> QED
      BY <3>1, <3>2 DEF FilesInv, PathsInv, UploadInv
  <2>4. AtMostOne(news) /\ news \subseteq F!Record
    BY <2>2 DEF FilesInv, UploadInv, AtMostOne
  <2>5. \A f \in news : (\E g \in records : f.id = g.id) =>
          \E g \in records : g.id = f.id /\ g.path = f.path /\ g.hash = f.hash
    BY <2>2, <2>3
  <2>6. RecordsAfter(r)
    <3>1. /\ records' \subseteq F!Record
          /\ \A f \in records' : \E g \in records : g.id = f.id /\ g.path = f.path /\ g.hash = f.hash
      BY <1>0, <2>1, <2>4, <2>5
    <3>2. \A f, g \in records' : f.id = g.id => f = g
      BY <1>0, <2>1, <2>4 DEF AtMostOne
    <3>3. ASSUME NEW g \in records PROVE \E f \in records' : f.id = g.id /\ f.path = g.path
      <4>1. CASE g.id \in ids
        <5>1. PICK h \in news : h.id = g.id
          BY <4>1
        <5>2. h.path = g.path
          BY <2>2, <2>3, <5>1
        <5>3. h \in records'
          BY <2>1, <5>1
        <5> QED
          BY <5>1, <5>2, <5>3
      <4> QED
        BY <2>1, <4>1
    <3> QED
      BY <3>1, <3>2, <3>3 DEF RecordsAfter
  <2> QED
    BY <1>0, <1>2, <1>4, <1>5, <2>1, <2>6 DEF FileEffect
<1>18. CASE F!Fail(r)
  <2>1. /\ F!Finish(r)
        /\ broken' = broken \cup
             IF filePc[r] \in {"copy", "insert", "undo"} THEN {fileLoc[r].path}
             ELSE IF filePc[r] = "delete" THEN {f.path : f \in fileLoc[r].seen} ELSE {}
        /\ UNCHANGED <<second, disk, content, records, uploads, given>>
    BY <1>18 DEF F!Fail
  <2>2. broken \subseteq broken' /\ broken' \subseteq F!Paths
    BY <1>0, <2>1
  <2>3. ~ F!Open(r) /\ ~ F!Remove(r)
    BY <1>1, <1>4, <2>1, <1>0 DEF F!Open, F!Remove, F!Step, F!Finish
  <2> QED
    BY <1>0, <1>2, <1>4, <1>5, <2>1, <2>2, <2>3 DEF FileEffect
<1> QED
  BY <1>6, <1>7, <1>8, <1>9, <1>12, <1>13, <1>14, <1>15, <1>16, <1>17, <1>18 DEF FileTurn

\* Nothing but the beginning of an upload gives a path an upload.
LEMMA NoNewUpload ==
  ASSUME FilesInv, NEW r \in Requests, FileTurn(r), NEW u \in 0..MaxUploads, NEW p \in F!Paths, UploadOf(u, p)'
  PROVE  UploadOf(u, p)
<1>0. FileEffect(r) /\ records \subseteq F!Record /\ fileLoc[r].path \in F!Paths
  BY FileEffects, FilesTyped
<1>1. CASE \E f \in records' : f.id = u /\ f.path = p
  <2>1. PICK f \in records' : f.id = u /\ f.path = p
    BY <1>1
  <2>2. CASE f = F!NewRecord(r) /\ filePc[r] = "insert"
    BY <2>1, <2>2 DEF UploadOf, F!NewRecord, F!Uploading
  <2>3. CASE \E g \in records : g.id = f.id /\ g.path = f.path
    BY <2>1, <2>3 DEF UploadOf
  <2> QED
    BY <1>0, <2>2, <2>3 DEF FileEffect, RecordsAfter, F!Insert, F!InsertFails
<1>2. ASSUME F!Open(r), p = fileLoc[r].path, fileLoc'[r].inode = u, u # 0
      PROVE  UploadOf(u, p)
  <2>1. u = fileLoc[r].upload \/ disk[p] = u
    BY <1>0, <1>2 DEF FileEffect, OwnAfter
  <2> QED
    BY <1>2, <2>1 DEF UploadOf, F!Open, F!Uploading
<1>3. ASSUME NEW q \in Requests, filePc'[q] \in F!Uploading, fileLoc'[q].path = p,
             fileLoc'[q].upload = u \/ (fileLoc'[q].inode = u /\ u # 0)
      PROVE  UploadOf(u, p)
  <2>1. CASE q # r
    BY <1>0, <1>3, <2>1 DEF FileEffect, UploadOf
  <2>2. CASE q = r
    <3>1. /\ filePc[r] \in F!Uploading /\ fileLoc[r].path = p /\ fileLoc'[r].upload = fileLoc[r].upload
          /\ fileLoc'[r].inode = fileLoc[r].inode \/ F!Open(r)
      BY <1>0, <1>3, <2>2 DEF FileEffect, OwnAfter
    <3> QED
      BY <1>2, <1>3, <2>2, <3>1 DEF UploadOf
  <2> QED
    BY <2>1, <2>2
<1>4. ASSUME NEW q \in Requests, NEW f \in fileLoc'[q].seen, f.id = u, f.path = p
      PROVE  UploadOf(u, p)
  <2>1. f \in fileLoc[q].seen \/ f \in records
    BY <1>0, <1>4 DEF FileEffect, OwnAfter
  <2> QED
    BY <1>4, <2>1 DEF UploadOf
<1>5. CASE u # 0 /\ disk'[p] = u
  <2>1. disk[p] = u \/ (F!Open(r) /\ p = fileLoc[r].path /\ u = fileLoc'[r].inode)
    BY <1>0, <1>5 DEF FileEffect, DiskAfter
  <2> QED
    BY <1>2, <1>5, <2>1 DEF UploadOf
<1> QED
  BY <1>1, <1>3, <1>4, <1>5 DEF UploadOf

\* What the beginning of an upload does.
LEMMA UploadBegins ==
  ASSUME FilesInv, NEW r \in Requests, NEW n \in FileNames, F!BeginUpload(r, n)
  PROVE  /\ filePc' \in [Requests -> F!Labels] /\ fileLoc' \in [Requests -> F!Local]
         /\ \A q \in Requests \ {r} : filePc'[q] = filePc[q] /\ fileLoc'[q] = fileLoc[q]
         /\ filePc[r] = "idle" /\ filePc'[r] = "open" /\ uploads' = uploads + 1 /\ uploads < MaxUploads
         /\ fileLoc'[r].upload = uploads + 1 /\ fileLoc'[r].path \in F!Paths
         /\ fileLoc'[r].inode = 0 /\ fileLoc'[r].seen = {}
         /\ given' = [given EXCEPT ![fileLoc'[r].path] = @ + 1]
         /\ UNCHANGED <<second, disk, content, records, broken>>
<1> DEFINE p == <<second, n>>
           mine == [F!NoLocal EXCEPT !.upload = uploads + 1, !.path = p]
<1>0. /\ uploads \in 0..MaxUploads /\ MaxUploads \in Nat /\ filePc \in [Requests -> F!Labels]
      /\ fileLoc \in [Requests -> F!Local] /\ second \in 0..MaxSecond
      /\ F!NoLocal \in F!Local /\ F!NoLocal.inode = 0 /\ F!NoLocal.seen = {}
  BY FilesTyped DEF FilesInv, F!TypeOK
<1>1. /\ uploads' = uploads + 1 /\ uploads < MaxUploads /\ F!Step(r, "open", mine) /\ filePc[r] = "idle"
      /\ given' = [given EXCEPT ![p] = @ + 1] /\ UNCHANGED <<second, disk, content, records, broken>>
  BY DEF F!BeginUpload
<1>2. p \in F!Paths
  BY <1>0 DEF F!Paths
<1> HIDE DEF p
<1>3. mine \in F!Local /\ mine.upload = uploads + 1 /\ mine.path = p /\ mine.inode = 0 /\ mine.seen = {}
  <2>1. uploads + 1 \in 0..MaxUploads
    BY <1>0, <1>1
  <2> QED
    BY <1>0, <1>2, <2>1 DEF F!Local
<1>4. "open" \in F!Labels
  BY DEF F!Labels, F!Uploading
<1> HIDE DEF mine
<1> QED
  BY <1>0, <1>1, <1>2, <1>3, <1>4, FileStepFrame

LEMMA PathsStep ==
  ASSUME FilesInv, NEW r \in Requests,
         FileTurn(r) \/ \E n \in FileNames : F!BeginUpload(r, n)
  PROVE  PathsInv'
<1>0. /\ uploads \in 0..MaxUploads /\ MaxUploads \in Nat /\ given \in [F!Paths -> 0..uploads]
      /\ PathsInv
  BY FilesTyped DEF FilesInv
<1>1. CASE FileTurn(r)
  <2>1. uploads' = uploads /\ given' = given
    BY <1>1, FileEffects DEF FileEffect
  <2>2. \A u \in 0..MaxUploads : \A p \in F!Paths : UploadOf(u, p)' => UploadOf(u, p)
    BY <1>1, NoNewUpload
  <2>3. (\A p \in F!Paths : \A u \in 0..MaxUploads : UploadOf(u, p) =>
    /\ u # 0 /\ u <= uploads /\ given[p] # 0
    /\ \A q \in F!Paths : UploadOf(u, q) => p = q
    /\ \A v \in 0..MaxUploads : UploadOf(v, p) => given[p] > 1 \/ u = v)'
    BY <1>0, <2>1, <2>2 DEF PathsInv
  <2> QED
    BY <2>3 DEF PathsInv
<1>2. ASSUME NEW n \in FileNames, F!BeginUpload(r, n) PROVE PathsInv'
  <2> DEFINE new == fileLoc'[r].path
  <2>0. /\ new \in F!Paths /\ uploads' = uploads + 1 /\ given' = [given EXCEPT ![new] = @ + 1]
        /\ fileLoc'[r].upload = uploads + 1 /\ fileLoc'[r].inode = 0 /\ fileLoc'[r].seen = {}
        /\ UNCHANGED <<disk, records>>
        /\ \A q \in Requests \ {r} : filePc'[q] = filePc[q] /\ fileLoc'[q] = fileLoc[q]
    BY <1>2, UploadBegins
  <2>1. ASSUME NEW u \in 0..MaxUploads, NEW p \in F!Paths, UploadOf(u, p)'
        PROVE  UploadOf(u, p) \/ (u = uploads + 1 /\ p = new)
    <3>1. CASE (\E f \in records : f.id = u /\ f.path = p) \/ (u # 0 /\ disk[p] = u)
      BY <3>1 DEF UploadOf
    <3>2. ASSUME NEW q \in Requests, filePc'[q] \in F!Uploading, fileLoc'[q].path = p,
                 fileLoc'[q].upload = u \/ (fileLoc'[q].inode = u /\ u # 0)
          PROVE  UploadOf(u, p) \/ (u = uploads + 1 /\ p = new)
      BY <2>0, <3>2 DEF UploadOf
    <3>3. ASSUME NEW q \in Requests, NEW f \in fileLoc'[q].seen, f.id = u, f.path = p
          PROVE  UploadOf(u, p)
      BY <2>0, <3>3 DEF UploadOf
    <3> QED
      BY <2>0, <2>1, <3>1, <3>2, <3>3 DEF UploadOf
  <2>2. \A p \in F!Paths : /\ given[p] \in Nat /\ given'[p] = IF p = new THEN given[p] + 1 ELSE given[p]
    BY <1>0, <2>0
  <2> HIDE DEF new
  <2>3. ASSUME NEW p \in F!Paths, NEW u \in 0..MaxUploads, UploadOf(u, p)'
        PROVE  /\ u # 0 /\ u <= uploads' /\ given'[p] # 0
               /\ \A q \in F!Paths : UploadOf(u, q)' => p = q
               /\ \A v \in 0..MaxUploads : UploadOf(v, p)' => given'[p] > 1 \/ u = v
    <3>1. CASE UploadOf(u, p)
      <4>1. u # 0 /\ u <= uploads /\ given[p] # 0
        BY <1>0, <3>1 DEF PathsInv
      <4>2. ASSUME NEW q \in F!Paths, UploadOf(u, q)' PROVE p = q
        <5>1. UploadOf(u, q)
          BY <1>0, <2>1, <4>1, <4>2
        <5> QED
          BY <1>0, <3>1, <5>1 DEF PathsInv
      <4>3. ASSUME NEW v \in 0..MaxUploads, UploadOf(v, p)' PROVE given'[p] > 1 \/ u = v
        <5>1. CASE UploadOf(v, p)
          <6>1. given[p] > 1 \/ u = v
            BY <1>0, <3>1, <5>1 DEF PathsInv
          <6> QED
            BY <2>2, <6>1
        <5>2. CASE v = uploads + 1 /\ p = new
          BY <2>2, <4>1, <5>2
        <5> QED
          BY <2>1, <4>3, <5>1, <5>2
      <4> QED
        BY <1>0, <2>0, <2>2, <4>1, <4>2, <4>3
    <3>2. CASE u = uploads + 1 /\ p = new
      <4>1. \A q \in F!Paths : ~ UploadOf(u, q)
        BY <1>0, <3>2 DEF PathsInv
      <4>2. \A q \in F!Paths : UploadOf(u, q)' => p = q
        BY <2>1, <3>2, <4>1
      <4>3. ASSUME NEW v \in 0..MaxUploads, UploadOf(v, p)' PROVE given'[p] > 1 \/ u = v
        <5>1. CASE UploadOf(v, p)
          <6>1. given[p] # 0
            BY <1>0, <5>1 DEF PathsInv
          <6> QED
            BY <2>2, <3>2, <6>1
        <5> QED
          BY <2>1, <3>2, <4>3, <5>1
      <4> QED
        BY <1>0, <2>0, <2>2, <3>2, <4>2, <4>3
    <3> QED
      BY <2>1, <2>3, <3>1, <3>2
  <2> QED
    BY <2>3 DEF PathsInv
<1> QED
  BY <1>1, <1>2

LEMMA FileTypeStep ==
  ASSUME FilesInv, NEW r \in Requests,
         FileTurn(r) \/ \E n \in FileNames : F!BeginUpload(r, n)
  PROVE  F!TypeOK'
<1>0. /\ F!TypeOK /\ PathsInv' /\ uploads \in 0..MaxUploads /\ MaxUploads \in Nat
      /\ given \in [F!Paths -> 0..uploads] /\ disk \in [F!Paths -> 0..uploads]
      /\ fileLoc[r].upload \in 0..MaxUploads
  BY PathsStep, FilesTyped DEF FilesInv
<1>1. ASSUME disk' \in [F!Paths -> 0..MaxUploads]
      PROVE  (\A p, q \in F!Paths : disk[p] = disk[q] => p = q \/ disk[p] = 0)'
  <2> SUFFICES ASSUME NEW p \in F!Paths, NEW q \in F!Paths, disk'[p] = disk'[q], disk'[p] # 0
               PROVE  p = q
    OBVIOUS
  <2>1. UploadOf(disk[p], p)' /\ UploadOf(disk[p], q)' /\ disk'[p] \in 0..MaxUploads
    BY <1>1 DEF UploadOf
  <2>2. (\A o \in F!Paths : \A u \in 0..MaxUploads : UploadOf(u, o) =>
          \A t \in F!Paths : UploadOf(u, t) => o = t)'
    BY <1>0 DEF PathsInv
  <2> QED
    BY <2>1, <2>2
<1>2. CASE FileTurn(r)
  <2>1. FileEffect(r)
    BY <1>2, FileEffects
  <2>2. disk' \in [F!Paths -> 0..MaxUploads]
    BY <1>0, <2>1 DEF FileEffect, DiskAfter
  <2>3. \A f, g \in records' : f.id = g.id => f = g
    <3>1. CASE F!Insert(r) \/ F!InsertFails(r)
      <4>1. /\ records' \subseteq records \cup {F!NewRecord(r)} /\ filePc[r] = "insert"
        BY <3>1 DEF F!Insert, F!InsertFails
      <4>2. F!NewRecord(r).id = fileLoc[r].upload
        BY DEF F!NewRecord
      <4>3. \A f \in records : f.id # fileLoc[r].upload
        BY <4>1 DEF FilesInv, UploadInv, Unrecorded
      <4> QED
        BY <1>0, <4>1, <4>2, <4>3 DEF F!TypeOK
    <3> QED
      BY <2>1, <3>1 DEF FileEffect, RecordsAfter
  <2> QED
    BY <1>0, <1>1, <2>1, <2>2, <2>3 DEF F!TypeOK, FileEffect, RecordsAfter, DiskAfter, ContentAfter
<1>3. ASSUME NEW n \in FileNames, F!BeginUpload(r, n) PROVE F!TypeOK'
  <2> DEFINE new == fileLoc'[r].path
  <2>1. /\ filePc' \in [Requests -> F!Labels] /\ fileLoc' \in [Requests -> F!Local]
        /\ uploads' = uploads + 1 /\ uploads < MaxUploads
        /\ given' = [given EXCEPT ![new] = @ + 1] /\ new \in F!Paths
        /\ UNCHANGED <<second, disk, content, records, broken>>
    BY <1>3, UploadBegins
  <2> HIDE DEF new
  <2>2. uploads' \in 0..MaxUploads /\ disk' \in [F!Paths -> 0..uploads'] /\ disk' \in [F!Paths -> 0..MaxUploads]
    BY <1>0, <2>1
  <2>3. given' \in [F!Paths -> 0..uploads']
    <3>1. \A p \in F!Paths : given'[p] \in 0..uploads'
      BY <1>0, <2>1
    <3> QED
      BY <1>0, <2>1, <3>1
  <2> QED
    BY <1>0, <1>1, <2>1, <2>2, <2>3 DEF F!TypeOK
<1> QED
  BY <1>2, <1>3

\* Two uploads under way at one path, or one and a record or a copy of one, have
\* two contents.
LEMMA Shared ==
  ASSUME FilesInv, NEW r \in Requests, filePc[r] \in F!Uploading
  PROVE  /\ \A q \in Requests \ {r} : filePc[q] \in F!Uploading /\ fileLoc[q].path = fileLoc[r].path
                                        => given[fileLoc[r].path] > 1
         /\ Unrecorded(fileLoc[r].upload) =>
              /\ \A f \in records : f.path = fileLoc[r].path => given[fileLoc[r].path] > 1
              /\ \A q \in Requests : \A f \in fileLoc[q].seen :
                   f.path = fileLoc[r].path => given[fileLoc[r].path] > 1
<1> DEFINE p == fileLoc[r].path
           u == fileLoc[r].upload
<1>0. p \in F!Paths /\ u \in 0..MaxUploads /\ UploadOf(u, p)
  BY FilesTyped DEF UploadOf
<1>1. ASSUME NEW q \in Requests \ {r}, filePc[q] \in F!Uploading, fileLoc[q].path = p
      PROVE  given[p] > 1
  <2>1. UploadOf(fileLoc[q].upload, p) /\ fileLoc[q].upload \in 0..MaxUploads
    BY <1>1, FilesTyped DEF UploadOf
  <2>2. fileLoc[q].upload # u
    BY <1>1 DEF FilesInv, UploadInv
  <2> QED
    BY <1>0, <2>1, <2>2 DEF FilesInv, PathsInv
<1>2. ASSUME Unrecorded(u), NEW f \in F!Record, f.path = p,
             f \in records \/ \E q \in Requests : f \in fileLoc[q].seen
      PROVE  given[p] > 1
  <2>1. UploadOf(f.id, p) /\ f.id \in 0..MaxUploads
    BY <1>2, FilesTyped DEF UploadOf
  <2>2. f.id # u
    BY <1>2 DEF Unrecorded
  <2> QED
    BY <1>0, <2>1, <2>2 DEF FilesInv, PathsInv
<1>3. records \subseteq F!Record /\ \A q \in Requests : fileLoc[q].seen \subseteq F!Record
  BY FilesTyped
<1> QED
  BY <1>1, <1>2, <1>3

LEMMA StaysUnrecorded ==
  ASSUME FilesInv, NEW r \in Requests, FileTurn(r), NEW u, Unrecorded(u),
         F!Insert(r) \/ F!InsertFails(r) => u # fileLoc[r].upload
  PROVE  Unrecorded(u)'
<1>1. FileEffect(r)
  BY FileEffects
<1>2. \A f \in records' : f.id # u
  BY <1>1 DEF FileEffect, RecordsAfter, Unrecorded, F!NewRecord
<1>3. \A q \in Requests : \A f \in fileLoc'[q].seen : f.id # u
  BY <1>1 DEF FileEffect, OwnAfter, Unrecorded
<1> QED
  BY <1>2, <1>3 DEF Unrecorded

LEMMA UploadStep ==
  ASSUME FilesInv, NEW r \in Requests,
         FileTurn(r) \/ \E n \in FileNames : F!BeginUpload(r, n)
  PROVE  UploadInv'
<1>0. /\ UploadInv /\ PathsInv /\ uploads \in 0..MaxUploads /\ MaxUploads \in Nat
      /\ given \in [F!Paths -> 0..uploads]
      /\ \A q \in Requests : /\ fileLoc[q].upload \in 0..MaxUploads /\ fileLoc[q].path \in F!Paths
                             /\ fileLoc[q].inode \in 0..MaxUploads /\ fileLoc[q].seen \subseteq F!Record
      /\ F!Uploading = {"open", "copy", "insert", "undo"} /\ F!Uploads = 1..MaxUploads
  BY FilesTyped DEF FilesInv, F!Uploading
<1> DEFINE Own(q) ==
       /\ AtMostOne(fileLoc[q].seen) /\ \A f \in fileLoc[q].seen : f.hash = f.id
       /\ filePc[q] \in F!Uploading =>
            \A s \in Requests : filePc[s] \in F!Uploading /\ fileLoc[s].upload = fileLoc[q].upload => s = q
       /\ filePc[q] \in {"copy", "insert"} => fileLoc[q].inode # 0
       /\ filePc[q] \in {"open", "copy", "insert"} => Unrecorded(fileLoc[q].upload)
       /\ filePc[q] = "undo" /\ fileLoc[q].path \notin broken => Unrecorded(fileLoc[q].upload)
       /\ filePc[q] \in {"copy", "insert"} /\ ~ given[fileLoc[q].path] > 1 =>
            disk[fileLoc[q].path] = fileLoc[q].inode
       /\ filePc[q] = "copy" /\ ~ given[fileLoc[q].path] > 1 => content[fileLoc[q].inode] = F!Empty
       /\ filePc[q] = "insert" /\ ~ given[fileLoc[q].path] > 1 =>
            content[fileLoc[q].inode] = fileLoc[q].upload
<1>1. (\A f \in records : f.hash = f.id) /\ \A q \in Requests : Own(q)
  BY <1>0 DEF UploadInv
<1>2. CASE FileTurn(r)
  <2>0. /\ FileEffect(r) /\ given' = given /\ broken \subseteq broken'
        /\ \A q \in Requests \ {r} : filePc'[q] = filePc[q] /\ fileLoc'[q] = fileLoc[q]
    BY <1>2, FileEffects DEF FileEffect
  <2>1. \A f \in records' : f.hash = f.id
    BY <1>1, <2>0 DEF FileEffect, RecordsAfter, F!NewRecord
  <2>2. \A q \in Requests : filePc'[q] \in F!Uploading =>
          filePc[q] \in F!Uploading /\ fileLoc'[q].path = fileLoc[q].path /\ fileLoc'[q].upload = fileLoc[q].upload
    BY <2>0 DEF FileEffect, OwnAfter
  <2>3. \A q, s \in Requests :
          filePc'[q] \in F!Uploading /\ filePc'[s] \in F!Uploading /\ fileLoc'[s].upload = fileLoc'[q].upload
            => s = q
    BY <1>1, <2>2
  <2>4. ASSUME NEW q \in Requests \ {r} PROVE Own(q)'
    <3>1. filePc'[q] = filePc[q] /\ fileLoc'[q] = fileLoc[q]
      BY <2>0
    <3>2. ASSUME filePc[q] \in F!Uploading, Unrecorded(fileLoc[q].upload) PROVE Unrecorded(fileLoc[q].upload)'
      <4>1. F!Insert(r) \/ F!InsertFails(r) => fileLoc[q].upload # fileLoc[r].upload
        BY <1>0, <1>1, <3>2 DEF F!Insert, F!InsertFails
      <4>2. \A u : u = fileLoc[q].upload => Unrecorded(u)'
        BY <1>2, <3>2, <4>1, StaysUnrecorded
      <4>3. fileLoc'[q].upload = fileLoc[q].upload
        BY <3>1
      <4> QED
        BY <4>2, <4>3 DEF Unrecorded
    <3>3. ASSUME filePc[q] \in {"copy", "insert"}, ~ given[fileLoc[q].path] > 1
          PROVE  /\ disk'[fileLoc[q].path] = fileLoc[q].inode
                 /\ content'[fileLoc[q].inode] = content[fileLoc[q].inode]
      <4> DEFINE p == fileLoc[q].path
                 i == fileLoc[q].inode
      <4>0. /\ p \in F!Paths /\ i \in F!Uploads /\ filePc[q] \in F!Uploading /\ disk[p] = i
            /\ Unrecorded(fileLoc[q].upload)
        BY <1>0, <1>1, <3>3
      <4>1. filePc[r] \in F!Uploading => fileLoc[r].path # p
        BY <3>3, <4>0, Shared
      <4>2. \A f \in fileLoc[r].seen : f.path # p
        BY <3>3, <4>0, Shared
      <4>3. disk'[p] = i
        <5>1. ~ (F!Open(r) /\ p = fileLoc[r].path) /\ ~ (F!Undo(r) /\ p = fileLoc[r].path)
          BY <1>0, <4>1 DEF F!Open, F!Undo
        <5> QED
          BY <2>0, <4>0, <4>2, <5>1 DEF FileEffect, DiskAfter
      <4>4. content'[i] = content[i]
        <5>1. UploadOf(i, p)
          BY <1>0, <4>0 DEF UploadOf
        <5>2. ASSUME F!Copy(r), i = fileLoc[r].inode PROVE FALSE
          <6>1. UploadOf(i, fileLoc[r].path) /\ filePc[r] \in F!Uploading
            BY <1>0, <4>0, <5>2 DEF UploadOf, F!Copy
          <6> QED
            BY <1>0, <4>0, <4>1, <5>1, <6>1 DEF PathsInv
        <5>3. ASSUME F!Open(r), i = fileLoc'[r].inode PROVE FALSE
          <6>1. /\ filePc[r] \in F!Uploading
                /\ i = fileLoc[r].upload \/ disk[fileLoc[r].path] = i
            BY <1>0, <2>0, <5>3 DEF FileEffect, OwnAfter, F!Open
          <6>2. UploadOf(i, fileLoc[r].path)
            BY <1>0, <4>0, <6>1 DEF UploadOf
          <6> QED
            BY <1>0, <4>0, <4>1, <5>1, <6>1, <6>2 DEF PathsInv
        <5> QED
          BY <2>0, <4>0, <5>2, <5>3 DEF FileEffect, ContentAfter
      <4> QED
        BY <4>3, <4>4
    <3>4. Own(q)
      BY <1>1
    <3>5. fileLoc[q].path \notin broken' => fileLoc[q].path \notin broken
      BY <2>0
    <3>6. filePc'[q] \in F!Uploading =>
            \A s \in Requests : filePc'[s] \in F!Uploading /\ fileLoc'[s].upload = fileLoc'[q].upload => s = q
      BY <2>3
    <3> QED
      BY <1>0, <2>0, <3>1, <3>2, <3>3, <3>4, <3>5, <3>6
  <2>5. Own(r)'
    <3>1. Own(r)
      BY <1>1
    <3>2. AtMostOne(fileLoc'[r].seen) /\ \A f \in fileLoc'[r].seen : f.hash = f.id
      BY <1>1, <2>0, <3>1 DEF FileEffect, OwnAfter, AtMostOne
    <3>3. filePc'[r] \in F!Uploading =>
            \A s \in Requests : filePc'[s] \in F!Uploading /\ fileLoc'[s].upload = fileLoc'[r].upload => s = r
      BY <2>3
    <3>4. CASE filePc'[r] = "copy"
      <4>1. /\ F!Open(r) /\ filePc[r] = "open"
            /\ fileLoc'[r].path = fileLoc[r].path /\ fileLoc'[r].upload = fileLoc[r].upload
            /\ disk'[fileLoc[r].path] = fileLoc'[r].inode /\ content'[fileLoc'[r].inode] = F!Empty
            /\ fileLoc'[r].inode = IF disk[fileLoc[r].path] = 0 THEN fileLoc[r].upload
                                   ELSE disk[fileLoc[r].path]
        BY <1>0, <2>0, <3>4 DEF FileEffect, OwnAfter
      <4>2. fileLoc[r].upload # 0
        <5>1. UploadOf(fileLoc[r].upload, fileLoc[r].path)
          BY <1>0, <4>1 DEF UploadOf
        <5> QED
          BY <1>0, <5>1 DEF PathsInv
      <4>3. Unrecorded(fileLoc[r].upload)'
        <5>1. \A u : u = fileLoc[r].upload => Unrecorded(u)'
          BY <1>2, <3>1, <4>1, StaysUnrecorded DEF F!Insert, F!InsertFails
        <5> QED
          BY <4>1, <5>1 DEF Unrecorded
      <4> QED
        BY <3>2, <3>3, <3>4, <4>1, <4>2, <4>3
    <3>5. CASE filePc'[r] = "insert"
      <4>1. /\ F!Copy(r) /\ filePc[r] = "copy" /\ F!Step(r, "insert", fileLoc[r]) /\ disk' = disk
            /\ \/ content' = [content EXCEPT ![fileLoc[r].inode] = fileLoc[r].upload]
               \/ content[fileLoc[r].inode] # F!Empty
        BY <2>0, <3>5 DEF FileEffect, OwnAfter, F!Copy
      <4>2. fileLoc'[r] = fileLoc[r]
        BY <4>1, FilesTyped DEF F!Step
      <4>3. Unrecorded(fileLoc[r].upload)'
        <5>1. \A u : u = fileLoc[r].upload => Unrecorded(u)'
          BY <1>2, <3>1, <4>1, StaysUnrecorded DEF F!Insert, F!InsertFails
        <5> QED
          BY <4>2, <5>1 DEF Unrecorded
      <4>4. fileLoc[r].inode \in F!Uploads /\ content \in [F!Uploads -> F!Empty..F!Mixed]
        BY <1>0, <3>1, <4>1, FilesTyped
      <4> QED
        BY <2>0, <3>1, <3>2, <3>3, <3>5, <4>1, <4>2, <4>3, <4>4
    <3>6. CASE filePc'[r] = "undo"
      <4>1. /\ F!InsertFails(r) /\ filePc[r] = "insert" /\ F!Step(r, "undo", fileLoc[r])
            /\ records' = records \/ fileLoc[r].path \in broken'
        BY <2>0, <3>6 DEF FileEffect, OwnAfter, F!InsertFails
      <4>2. fileLoc' = fileLoc
        BY <4>1, FilesTyped DEF F!Step
      <4>3. fileLoc'[r].path \notin broken' => Unrecorded(fileLoc[r].upload)'
        BY <3>1, <4>1, <4>2 DEF Unrecorded
      <4> QED
        BY <3>2, <3>3, <3>6, <4>2, <4>3
    <3>7. CASE filePc'[r] \notin F!Uploading
      BY <1>0, <3>2, <3>7
    <3>8. filePc'[r] # "open"
      BY <2>0 DEF FileEffect, OwnAfter
    <3> QED
      BY <1>0, <3>4, <3>5, <3>6, <3>7, <3>8
  <2>6. \A q \in Requests : Own(q)'
    BY <2>4, <2>5
  <2> HIDE DEF Own
  <2>7. ((\A f \in records : f.hash = f.id) /\ \A q \in Requests : Own(q))' => UploadInv'
    BY DEF Own, UploadInv
  <2> QED
    BY <2>1, <2>6, <2>7
<1>3. ASSUME NEW n \in FileNames, F!BeginUpload(r, n) PROVE UploadInv'
  <2>0. /\ \A q \in Requests \ {r} : filePc'[q] = filePc[q] /\ fileLoc'[q] = fileLoc[q]
        /\ filePc[r] = "idle" /\ filePc'[r] = "open"
        /\ fileLoc'[r].upload = uploads + 1 /\ fileLoc'[r].path \in F!Paths /\ fileLoc'[r].seen = {}
        /\ given' = [given EXCEPT ![fileLoc'[r].path] = @ + 1]
        /\ UNCHANGED <<disk, content, records, broken>>
    BY <1>3, UploadBegins
  <2>1. \A q \in Requests : filePc[q] \in F!Uploading => fileLoc[q].upload <= uploads
    BY <1>0 DEF PathsInv, UploadOf
  <2>2. Unrecorded(uploads + 1)
    <3>1. ASSUME NEW f \in F!Record, f \in records \/ \E q \in Requests : f \in fileLoc[q].seen
          PROVE  f.id # uploads + 1
      <4>1. UploadOf(f.id, f.path) /\ f.id \in 0..MaxUploads /\ f.path \in F!Paths
        BY <3>1, FilesTyped DEF UploadOf
      <4>2. f.id <= uploads
        BY <1>0, <4>1 DEF PathsInv
      <4> QED
        BY <1>0, <4>1, <4>2
    <3> QED
      BY <3>1, FilesTyped DEF Unrecorded
  <2>3. \A u : Unrecorded(u) => \A f \in records' : f.id # u
    BY <2>0 DEF Unrecorded
  <2>4. \A u : Unrecorded(u) => \A q \in Requests : \A f \in fileLoc'[q].seen : f.id # u
    BY <2>0 DEF Unrecorded
  <2>5. \A p \in F!Paths : ~ given'[p] > 1 => ~ given[p] > 1
    BY <1>0, <2>0
  <2>6. ASSUME NEW q \in Requests \ {r} PROVE Own(q)'
    <3>1. filePc'[q] = filePc[q] /\ fileLoc'[q] = fileLoc[q] /\ Own(q)
      BY <1>1, <2>0
    <3>2. Unrecorded(fileLoc[q].upload) => Unrecorded(fileLoc[q].upload)'
      BY <2>3, <2>4, <3>1 DEF Unrecorded
    <3>3. ASSUME filePc[q] \in F!Uploading, NEW s \in Requests, filePc'[s] \in F!Uploading,
                 fileLoc'[s].upload = fileLoc[q].upload
          PROVE  s = q
      BY <1>0, <2>0, <2>1, <3>1, <3>3
    <3> QED
      BY <1>0, <2>0, <2>5, <3>1, <3>2, <3>3
  <2>7. Own(r)'
    <3>1. Unrecorded(fileLoc[r].upload)'
      BY <2>0, <2>2, <2>3, <2>4 DEF Unrecorded
    <3>2. \A s \in Requests : filePc'[s] \in F!Uploading /\ fileLoc'[s].upload = fileLoc'[r].upload => s = r
      BY <1>0, <2>0, <2>1
    <3> QED
      BY <2>0, <3>1, <3>2 DEF AtMostOne
  <2>8. \A q \in Requests : Own(q)'
    BY <2>6, <2>7
  <2>9. \A f \in records' : f.hash = f.id
    BY <1>1, <2>0
  <2> HIDE DEF Own
  <2>10. ((\A f \in records : f.hash = f.id) /\ \A q \in Requests : Own(q))' => UploadInv'
    BY DEF Own, UploadInv
  <2> QED
    BY <2>8, <2>9, <2>10
<1> QED
  BY <1>2, <1>3

\* What an upload that nobody shares a path with, and a record, say of each other.
LEMMA OwnPath ==
  ASSUME FilesInv, NEW r \in Requests, filePc[r] \in F!Uploading, Unrecorded(fileLoc[r].upload),
         NEW f \in records, ~ given[f.path] > 1
  PROVE  f.path # fileLoc[r].path
BY Shared

LEMMA ContentStep ==
  ASSUME FilesInv, NEW r \in Requests,
         FileTurn(r) \/ \E n \in FileNames : F!BeginUpload(r, n)
  PROVE  F!RecordHasItsContent'
<1>0. /\ UploadInv /\ PathsInv /\ F!RecordHasItsContent /\ PathsInv'
      /\ uploads \in 0..MaxUploads /\ MaxUploads \in Nat
      /\ given \in [F!Paths -> 0..uploads] /\ disk \in [F!Paths -> 0..uploads]
      /\ records \subseteq F!Record /\ F!Uploads = 1..MaxUploads
      /\ \A f \in F!Record : f.id \in 1..MaxUploads /\ f.path \in F!Paths
      /\ \A q \in Requests : /\ fileLoc[q].upload \in 0..MaxUploads /\ fileLoc[q].path \in F!Paths
                             /\ fileLoc[q].inode \in 0..MaxUploads /\ fileLoc[q].seen \subseteq F!Record
      /\ F!Uploading = {"open", "copy", "insert", "undo"}
  BY PathsStep, FilesTyped DEF FilesInv, F!Uploading
<1>1. CASE FileTurn(r)
  <2>0. /\ FileEffect(r) /\ given' = given /\ broken \subseteq broken'
        /\ \A q \in Requests \ {r} : filePc'[q] = filePc[q] /\ fileLoc'[q] = fileLoc[q]
    BY <1>1, FileEffects DEF FileEffect
  <2>1. ASSUME NEW f \in records', ~ given'[f.path] > 1, f.path \notin broken', ~ Going(f)'
        PROVE  disk'[f.path] # 0 /\ content'[disk'[f.path]] = f.hash
    <3>1. CASE F!Insert(r) /\ f = F!NewRecord(r)
      <4>1. /\ filePc[r] = "insert" /\ disk' = disk /\ content' = content
            /\ f.path = fileLoc[r].path /\ f.hash = fileLoc[r].upload
        BY <3>1 DEF F!Insert, F!NewRecord
      <4> QED
        BY <1>0, <2>0, <2>1, <4>1 DEF UploadInv
    <3>2. CASE F!InsertFails(r) /\ f = F!NewRecord(r) /\ f \notin records
      <4>1. f.path = fileLoc[r].path
        BY <3>2 DEF F!NewRecord
      <4> QED
        BY <2>1, <3>2, <4>1 DEF F!InsertFails
    <3>3. ASSUME NEW g \in records, g.id = f.id, g.path = f.path, g.hash = f.hash
          PROVE  disk'[f.path] # 0 /\ content'[disk'[f.path]] = f.hash
      <4> DEFINE p == f.path
                 i == disk[p]
      <4>0. /\ ~ given[p] > 1 /\ p \notin broken /\ p \in F!Paths /\ g.id \in 0..MaxUploads
            /\ UploadOf(g.id, p)
        BY <1>0, <2>0, <2>1, <3>3 DEF UploadOf
      \* Whoever was deleting the record goes on, or has deleted it, or failed.
      <4>1. ~ Going(g)
        <5> SUFFICES ASSUME NEW q \in Requests, filePc[q] = "delete", NEW h \in fileLoc[q].seen, h.id = g.id
                     PROVE  FALSE
          BY DEF Going
        <5>1. CASE q # r
          BY <2>0, <2>1, <3>3, <5>1 DEF Going
        <5>2. CASE q = r
          <6>1. F!DeleteRecord(r) \/ F!Fail(r)
            BY <1>1, <5>2 DEF FileTurn, F!BeginDelete, F!BeginUpdate, F!SetCustom, F!Open, F!Copy, F!Insert,
                              F!InsertFails, F!Undo, F!Remove, F!Put
          <6>2. CASE F!DeleteRecord(r)
            BY <3>3, <5>2, <6>2 DEF F!DeleteRecord
          <6>3. CASE F!Fail(r)
            <7>1. h.path \in broken'
              BY <5>2, <6>3 DEF F!Fail
            <7>2. UploadOf(h.id, h.path) /\ h.path \in F!Paths
              BY <1>0 DEF UploadOf
            <7>3. h.path = p
              BY <1>0, <4>0, <7>2 DEF PathsInv
            <7> QED
              BY <2>1, <7>1, <7>3
          <6> QED
            BY <6>1, <6>2, <6>3
        <5> QED
          BY <5>1, <5>2
      <4>2. i # 0 /\ content[i] = f.hash
        BY <1>0, <3>3, <4>0, <4>1 DEF F!RecordHasItsContent, Going
      <4>3. i \in F!Uploads /\ UploadOf(i, p)
        BY <1>0, <4>0, <4>2 DEF UploadOf
      <4>4. filePc[r] \in {"open", "copy", "insert"} \/ F!Undo(r) => fileLoc[r].path # p
        <5>1. CASE filePc[r] \in {"open", "copy", "insert"}
          <6>1. Unrecorded(fileLoc[r].upload)
            BY <1>0, <5>1 DEF UploadInv
          <6> QED
            BY <1>0, <3>3, <4>0, <5>1, <6>1, OwnPath
        <5>2. CASE F!Undo(r) /\ fileLoc[r].path = p
          <6>1. Unrecorded(fileLoc[r].upload) /\ filePc[r] = "undo"
            BY <1>0, <4>0, <5>2 DEF UploadInv, F!Undo
          <6> QED
            BY <1>0, <3>3, <4>0, <5>2, <6>1, OwnPath
        <5> QED
          BY <5>1, <5>2
      <4>5. ASSUME F!Remove(r), NEW h \in fileLoc[r].seen, h.path = p PROVE FALSE
        <5>1. UploadOf(h.id, p) /\ h.id \in 0..MaxUploads
          BY <1>0, <4>5 DEF UploadOf
        <5>2. h.id = f.id
          BY <1>0, <3>3, <4>0, <5>1 DEF PathsInv
        <5>3. filePc'[r] = "delete" /\ fileLoc'[r] = fileLoc[r]
          BY <4>5, FilesTyped DEF F!Remove, F!Step
        <5> QED
          BY <2>1, <5>2, <5>3 DEF Going
      <4>6. disk'[p] = i
        <5>1. ~ (F!Open(r) /\ p = fileLoc[r].path) /\ ~ (F!Undo(r) /\ p = fileLoc[r].path)
          BY <4>4 DEF F!Open
        <5> QED
          BY <2>0, <4>0, <4>5, <5>1 DEF FileEffect, DiskAfter
      <4>7. content'[i] = content[i]
        <5>1. ASSUME F!Copy(r), i = fileLoc[r].inode PROVE FALSE
          <6>1. UploadOf(i, fileLoc[r].path) /\ filePc[r] = "copy"
            BY <1>0, <4>2, <5>1 DEF UploadOf, F!Copy
          <6> QED
            BY <1>0, <4>0, <4>3, <4>4, <6>1 DEF PathsInv
        <5>2. ASSUME F!Open(r), i = fileLoc'[r].inode PROVE FALSE
          <6>1. /\ filePc[r] = "open"
                /\ i = fileLoc[r].upload \/ disk[fileLoc[r].path] = i
            BY <1>0, <2>0, <5>2 DEF FileEffect, OwnAfter, F!Open
          <6>2. UploadOf(i, fileLoc[r].path)
            BY <1>0, <4>2, <6>1 DEF UploadOf
          <6> QED
            BY <1>0, <4>0, <4>3, <4>4, <6>1, <6>2 DEF PathsInv
        <5> QED
          BY <2>0, <4>3, <5>1, <5>2 DEF FileEffect, ContentAfter
      <4> QED
        BY <4>2, <4>6, <4>7
    <3>4. \/ \E g \in records : g.id = f.id /\ g.path = f.path /\ g.hash = f.hash
          \/ (F!Insert(r) \/ F!InsertFails(r)) /\ f = F!NewRecord(r)
      BY <2>0 DEF FileEffect, RecordsAfter
    <3> QED
      BY <3>1, <3>2, <3>3, <3>4
  <2>2. (\A f \in records : ~ given[f.path] > 1 /\ f.path \notin broken /\ ~ Going(f) =>
           disk[f.path] # 0 /\ content[disk[f.path]] = f.hash)'
    BY <2>1
  <2> QED
    BY <2>2 DEF F!RecordHasItsContent, Going
<1>2. ASSUME NEW n \in FileNames, F!BeginUpload(r, n) PROVE F!RecordHasItsContent'
  <2>0. /\ \A q \in Requests \ {r} : filePc'[q] = filePc[q] /\ fileLoc'[q] = fileLoc[q]
        /\ filePc[r] = "idle" /\ fileLoc'[r].path \in F!Paths
        /\ given' = [given EXCEPT ![fileLoc'[r].path] = @ + 1]
        /\ UNCHANGED <<disk, content, records, broken>>
    BY <1>2, UploadBegins
  <2>1. \A f \in records : given[f.path] > 1 => given'[f.path] > 1
    BY <1>0, <2>0
  <2>2. \A f \in records : Going(f) => Going(f)'
    BY <2>0 DEF Going
  <2>3. \A f \in records : \/ disk[f.path] # 0 /\ content[disk[f.path]] = f.hash
                           \/ given[f.path] > 1 \/ f.path \in broken \/ Going(f)
    BY <1>0 DEF F!RecordHasItsContent, Going
  <2>4. (\A f \in records : \/ disk[f.path] # 0 /\ content[disk[f.path]] = f.hash
                            \/ given[f.path] > 1 \/ f.path \in broken \/ Going(f))'
    BY <2>0, <2>1, <2>2, <2>3
  <2> QED
    BY <2>4 DEF F!RecordHasItsContent, Going
<1> QED
  BY <1>1, <1>2

LEMMA StrayStep ==
  ASSUME FilesInv, NEW r \in Requests,
         FileTurn(r) \/ \E n \in FileNames : F!BeginUpload(r, n)
  PROVE  StrayInv'
<1>0. /\ UploadInv /\ PathsInv /\ StrayInv /\ records \subseteq F!Record
      /\ disk \in [F!Paths -> 0..uploads]
      /\ \A f \in F!Record : f.id \in 1..MaxUploads /\ f.path \in F!Paths
      /\ \A q \in Requests : /\ fileLoc[q].upload \in 0..MaxUploads /\ fileLoc[q].path \in F!Paths
                             /\ fileLoc[q].seen \subseteq F!Record
      /\ F!Uploading = {"open", "copy", "insert", "undo"} /\ 1..MaxUploads \subseteq 0..MaxUploads
      /\ filePc \in [Requests -> F!Labels] /\ fileLoc \in [Requests -> F!Local]
  BY FilesTyped DEF FilesInv, F!Uploading
<1> DEFINE Known(p) == \/ \E f \in records : f.path = p /\ ~ Going(f)
                       \/ p \in broken
                       \/ \E q \in Requests : filePc[q] \in {"copy", "insert", "undo"} /\ fileLoc[q].path = p
<1>1. CASE FileTurn(r)
  <2>0. /\ FileEffect(r) /\ broken \subseteq broken'
        /\ \A q \in Requests \ {r} : filePc'[q] = filePc[q] /\ fileLoc'[q] = fileLoc[q]
    BY <1>1, FileEffects DEF FileEffect
  <2>1. ASSUME NEW p \in F!Paths, disk'[p] # 0 PROVE Known(p)'
    <3>1. CASE F!Open(r) /\ p = fileLoc[r].path
      BY <2>0, <3>1 DEF FileEffect, OwnAfter, F!Uploading
    <3>2. CASE ~ (F!Open(r) /\ p = fileLoc[r].path)
      <4>1. disk'[p] = disk[p] /\ disk[p] # 0
        BY <2>0, <2>1, <3>2 DEF FileEffect, DiskAfter
      <4>2. CASE p \in broken
        BY <2>0, <4>2
      \* A record that nobody was deleting is there, and who begins to delete it
      \* has removed the entry.
      <4>3. ASSUME NEW g \in records, g.path = p, ~ Going(g) PROVE Known(p)'
        <5>1. ~ (F!DeleteRecord(r) /\ g.id \in {h.id : h \in fileLoc[r].seen})
          BY <4>3 DEF Going, F!DeleteRecord
        <5>2. PICK f \in records' : f.id = g.id /\ f.path = g.path
          BY <2>0, <5>1 DEF FileEffect, RecordsAfter
        <5>3. ASSUME NEW q \in Requests, filePc'[q] = "delete", NEW h \in fileLoc'[q].seen, h.id = f.id
              PROVE  FALSE
          <6>1. CASE q # r
            BY <2>0, <4>3, <5>2, <5>3, <6>1 DEF Going
          <6>2. CASE q = r
            <7>1. F!Remove(r) /\ h \in fileLoc[r].seen
              BY <2>0, <5>3, <6>2 DEF FileEffect, OwnAfter
            <7>2. disk'[h.path] = 0
              BY <2>0, <7>1 DEF FileEffect, DiskAfter
            <7>3. UploadOf(h.id, h.path) /\ UploadOf(h.id, p) /\ h.path \in F!Paths /\ h.id \in 0..MaxUploads
              BY <1>0, <4>3, <5>2, <5>3, <7>1 DEF UploadOf
            <7>4. h.path = p
              BY <1>0, <7>3 DEF PathsInv
            <7> QED
              BY <2>1, <7>2, <7>4
          <6> QED
            BY <6>1, <6>2
        <5>4. ~ Going(f)'
          BY <5>3 DEF Going
        <5> QED
          BY <4>3, <5>2, <5>4
      <4>4. ASSUME NEW q \in Requests, filePc[q] \in {"copy", "insert", "undo"}, fileLoc[q].path = p
            PROVE  Known(p)'
        <5>1. CASE q # r
          BY <2>0, <4>4, <5>1
        <5>2. CASE q = r
          <6>1. F!Copy(r) \/ F!Insert(r) \/ F!InsertFails(r) \/ F!Undo(r) \/ F!Fail(r)
            BY <1>1, <4>4, <5>2 DEF FileTurn, F!BeginDelete, F!BeginUpdate, F!SetCustom, F!Open, F!Remove,
                                    F!DeleteRecord, F!Put
          <6>2. CASE F!Copy(r) \/ F!InsertFails(r)
            <7>1. filePc'[r] \in {"insert", "undo"} /\ fileLoc'[r] = fileLoc[r]
              BY <1>0, <6>2 DEF F!Copy, F!InsertFails, F!Step
            <7> QED
              BY <4>4, <5>2, <7>1
          <6>3. CASE F!Insert(r)
            <7>1. /\ F!NewRecord(r) \in records' /\ F!NewRecord(r).path = p
                  /\ F!NewRecord(r).id = fileLoc[r].upload
              BY <4>4, <5>2, <6>3 DEF F!Insert, F!NewRecord
            <7>2. filePc'[r] = "idle" /\ Unrecorded(fileLoc[r].upload)
              BY <1>0, <6>3 DEF F!Insert, F!Finish, F!Step, UploadInv
            <7>3. \A f : f.id = fileLoc[r].upload => ~ Going(f)'
              BY <2>0, <7>2 DEF Going, Unrecorded
            <7> QED
              BY <7>1, <7>3
          <6>4. CASE F!Undo(r)
            <7>1. disk'[p] = 0
              BY <1>0, <2>1, <4>4, <5>2, <6>4 DEF F!Undo
            <7> QED
              BY <2>1, <7>1
          <6>5. CASE F!Fail(r)
            BY <4>4, <5>2, <6>5 DEF F!Fail
          <6> QED
            BY <6>1, <6>2, <6>3, <6>4, <6>5
        <5> QED
          BY <5>1, <5>2
      <4> QED
        BY <1>0, <4>1, <4>2, <4>3, <4>4 DEF StrayInv
    <3> QED
      BY <3>1, <3>2
  <2> HIDE DEF Known
  <2>2. (\A p \in F!Paths : disk[p] # 0 => Known(p))'
    BY <2>1
  <2> QED
    BY <2>2 DEF StrayInv, Known
<1>2. ASSUME NEW n \in FileNames, F!BeginUpload(r, n) PROVE StrayInv'
  <2>0. /\ \A q \in Requests \ {r} : filePc'[q] = filePc[q] /\ fileLoc'[q] = fileLoc[q]
        /\ filePc[r] = "idle" /\ filePc'[r] = "open"
        /\ UNCHANGED <<disk, content, records, broken>>
    BY <1>2, UploadBegins
  <2>1. \A f : Going(f)' => Going(f)
    BY <2>0 DEF Going
  <2>2. ASSUME NEW p \in F!Paths, disk'[p] # 0 PROVE Known(p)'
    <3>1. Known(p)
      BY <1>0, <2>0, <2>2 DEF StrayInv
    <3> QED
      BY <2>0, <2>1, <3>1
  <2> HIDE DEF Known
  <2>3. (\A p \in F!Paths : disk[p] # 0 => Known(p))'
    BY <2>2
  <2> QED
    BY <2>3 DEF StrayInv, Known
<1> QED
  BY <1>1, <1>2

-----------------------------------------------------------------------------
(* Accounts and files.                                                     *)

LEMMA FilesInit == F!Init => FilesInv
<1> SUFFICES ASSUME F!Init PROVE FilesInv
  OBVIOUS
<1>1. F!NoPath \in F!Paths
  <2>1. (CHOOSE n \in FileNames : TRUE) \in FileNames
    BY FilesAssumption
  <2> QED
    BY <2>1, FilesAssumption DEF F!NoPath, F!Paths
<1>2. F!NoLocal \in F!Local /\ F!NoLocal.seen = {}
  BY <1>1, FilesAssumption DEF F!NoLocal, F!Local
<1>3. F!TypeOK
  BY <1>2, FilesAssumption DEF F!Init, F!TypeOK, F!Labels, F!Empty, F!Mixed, F!Uploads
<1>4. /\ \A r \in Requests : filePc[r] = "idle" /\ fileLoc[r].seen = {}
      /\ \A p \in F!Paths : disk[p] = 0
      /\ records = {}
  BY <1>2 DEF F!Init
<1>5. \A u \in 0..MaxUploads : \A p \in F!Paths : ~ UploadOf(u, p)
  BY <1>4 DEF UploadOf, F!Uploading
<1> QED
  BY <1>3, <1>4, <1>5 DEF FilesInv, PathsInv, UploadInv, StrayInv, F!RecordHasItsContent, AtMostOne, F!Uploading

\* The invariant of the files: an upload keeps one path and one content through
\* its entry, its record and the copies requests have of it.
THEOREM FilesInvariance == AllSpec => []FilesInv
<1>1. AllInit => FilesInv
  BY FilesInit DEF AllInit
<1>2. FilesInv /\ [AccountsStep \/ FilesStep]_<<focus, vars, fileVars>> => FilesInv'
  <2> SUFFICES ASSUME FilesInv, [AccountsStep \/ FilesStep]_<<focus, vars, fileVars>> PROVE FilesInv'
    OBVIOUS
  <2>1. CASE UNCHANGED <<disk, content, records, uploads, filePc, fileLoc, given, broken>>
             /\ second' \in 0..MaxSecond
    BY <2>1 DEF FilesInv, F!TypeOK, PathsInv, UploadInv, StrayInv, F!RecordHasItsContent, UploadOf,
                Unrecorded, Going
  <2>2. CASE UNCHANGED fileVars
    BY <2>1, <2>2 DEF fileVars, FilesInv, F!TypeOK
  <2>3. CASE F!Tick
    <3>1. second' \in 0..MaxSecond
      BY <2>3, FilesAssumption DEF F!Tick, FilesInv, F!TypeOK
    <3> QED
      BY <2>1, <2>3, <3>1 DEF F!Tick
  <2>4. ASSUME NEW r \in Requests, F!Request(r) PROVE FilesInv'
    <3>1. FileTurn(r) \/ \E n \in FileNames : F!BeginUpload(r, n)
      BY <2>4 DEF F!Request, FileTurn
    <3> QED
      BY <3>1, PathsStep, FileTypeStep, UploadStep, ContentStep, StrayStep DEF FilesInv
  <2> QED
    BY <2>2, <2>3, <2>4 DEF AccountsStep, FilesStep, F!Next
<1> QED
  BY <1>1, <1>2, PTL DEF AllSpec

\* A behaviour of both is one of the accounts.
LEMMA AccountsOfAll == AllSpec => Spec
<1>1. [AccountsStep \/ FilesStep]_<<focus, vars, fileVars>> => [Next]_vars
  BY DEF AccountsStep, FilesStep
<1> QED
  BY <1>1, PTL DEF AllSpec, AllInit, Spec

\* Both type invariants.
THEOREM AllTyped == AllSpec => []TypesOK
<1>1. FilesInv => F!TypeOK
  BY DEF FilesInv
<1> QED
  BY <1>1, AccountsOfAll, TypeCorrect, FilesInvariance, PTL DEF TypesOK

\* The disk and the records agree: a record's file is there and holds what it was
\* uploaded for, and a file no record leads to is of an upload under way, unless
\* uploads shared the path, its deletion is half done or a request failed there.
THEOREM FilesAndRecordsAgree == AllSpec => []FilesMatchRecords
<1>1. FilesInv => FilesMatchRecords
  BY DEF FilesInv, FilesMatchRecords, StrayInv, F!NoStrayFile, F!Uploading
<1> QED
  BY <1>1, FilesInvariance, PTL
=============================================================================
