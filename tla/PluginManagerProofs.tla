-------------------------- MODULE PluginManagerProofs --------------------------
(***************************************************************************)
(* What holds of the plugin manager, of the codes and links of an address  *)
(* and of the users' configurations, for any number of requests,           *)
(* configurations, instances and codes.                                    *)
(***************************************************************************)
EXTENDS MCPluginManager, FiniteSetTheorems, TLAPS

(***************************************************************************)
(* The manager.                                                            *)
(***************************************************************************)
Single(S) == \A x, y \in S : x = y

TypesInv ==
  /\ row \subseteq Configs /\ Single(row)
  /\ maps \in 0..MaxMaps /\ home = maps
  /\ slot \in [Maps -> 0..born] /\ \A m \in Maps : m > maps => slot[m] = 0
  /\ born \in 0..MaxInstances /\ inst \in [Instances -> Instance]
  /\ \A i \in Instances : i > born => inst[i] = NoInstance
  /\ \A i \in Instances : inst[i].state \in {"Uninitialized", "Running", "Stopped"}
  /\ pc \in [Requests -> Labels] /\ loc \in [Requests -> Local]
  /\ broken \subseteq Instances /\ raced \in BOOLEAN

\* What a request holds on to, by the place where it stands.
HoldsOK(label, l, ms, is) ==
  /\ Single(l.config) /\ Single(l.want)
  /\ l.got <= is /\ l.map <= ms
  /\ label \in {"lookup", "readRow"} => l.got = 0
  /\ label \in {"stop", "stopped", "unloadOld", "drop", "saveNew", "store", "deleteRow", "dropSlot"} =>
       l.got # 0
  /\ label \in {"saveNew", "store", "deleteRow", "dropSlot"} => l.map # 0

HoldsInv == \A r \in Requests : HoldsOK(pc[r], loc[r], maps, born)

\* An instance goes to one place, once: where it is unloaded, or it is still with
\* the request that made it.
PlaceInv ==
  /\ \A m, n \in Maps : m # n /\ slot[m] # 0 => slot[m] # slot[n]
  /\ \A r \in Requests : pc[r] \in {"deleteRow", "dropSlot"} =>
       \A m \in Maps : slot[m] = loc[r].got => m = loc[r].map
  /\ \A r \in Requests : pc[r] \in {"saveNew", "store"} =>
       /\ inst[loc[r].got].state = "Running"
       /\ \A m \in Maps : slot[m] # loc[r].got
       /\ \A q \in Requests \ {r} : loc[q].got # loc[r].got

\* What was stopped does not run again.
WornInv ==
  \A r \in Requests : pc[r] \in Stopping \ {"stopped"} /\ loc[r].got # 0 =>
    inst[loc[r].got].state # "Running"

\* Somebody is at work on an instance that was stopped or unloaded, or failed there.
WithStopped  == {"unloadOld", "unload"}
WithUnloaded == {"drop", "deleteRow", "dropSlot"}

StuckInv ==
  Live # 0 =>
    /\ inst[Live].state = "Stopped" =>
         Live \in broken \/ \E r \in Requests : pc[r] \in WithStopped /\ loc[r].got = Live
    /\ inst[Live].state = "Uninitialized" =>
         Live \in broken \/ \E r \in Requests : pc[r] \in WithUnloaded /\ loc[r].got = Live

\* What a request may conclude from what it has read, with c in the row.
KnowsOK(label, l, c) ==
  /\ label \in {"readRow", "makeMap", "saveNew", "store", "save"} => Live = 0
  /\ label \in {"findMap", "makeMap"} /\ l.lazy => Live = 0 /\ l.config = c
  /\ label = "saveNew" => inst[l.got].config = l.config
  /\ label = "store" => inst[l.got].config = c
  /\ label \in Stopping => Live \in {0, l.got}
  /\ label \in {"deleteRow", "dropSlot"} => l.map = home
  /\ label = "stop" => inst[l.got].state # "Running" \/ Live = l.got

\* It may while no change overlapped another request.
KnowsInv == ~ raced => \A r \in Requests : KnowsOK(pc[r], loc[r], row)

RowInv == ~ raced /\ Live # 0 /\ inst[Live].state = "Running" => inst[Live].config = row

Inv == TypesInv /\ HoldsInv /\ PlaceInv /\ WornInv /\ StuckInv /\ KnowsInv /\ RowInv

(***************************************************************************)
(* The codes of an address.                                                *)
(***************************************************************************)
CodesTypeInv ==
  /\ mode \in {"code", "link"} /\ live \in Instances /\ sends \in 0..MaxSends
  /\ stored \in [Instances -> 0..sends] /\ expired \in [Instances -> BOOLEAN]
  /\ lock \in [Instances -> SUBSET Requests]
  /\ \A i \in Instances :
       /\ Single(lock[i])
       /\ lock[i] = {r \in Requests : mode = "code" /\ mailPc[r] = "mail" /\ mailLoc[r].at = i}
  /\ mailPc \in [Requests -> {"idle", "mail"}] /\ mailLoc \in [Requests -> C!Local]
  /\ \A r \in Requests : mailPc[r] = "mail" => mailLoc[r].code \in 1..sends
  /\ last \in 0..sends /\ used \subseteq C!Codes /\ dead \subseteq C!Codes

\* The last code in the mailbox, and a link on its way, verify, unless they are
\* spent or cannot be expected to.
Verifies(c) == c \notin used \cup dead \cup {0} => stored[live] = c /\ ~ expired[live]

VerifiesInv ==
  /\ Verifies(last)
  /\ \A r \in Requests :
       mode = "link" /\ mailPc[r] = "mail" /\ mailLoc[r].at = live => Verifies(mailLoc[r].code)

CodesInv == CodesTypeInv /\ VerifiesInv

(***************************************************************************)
(* The users' configurations.                                              *)
(***************************************************************************)
ConfigsTypeInv ==
  /\ always \in BOOLEAN /\ totp \in U!Totp /\ trust \in U!Trust
  /\ totp.on => totp.secret # 0
  /\ secrets \in U!Secrets /\ totp.secret <= secrets /\ device \in 0..secrets
  /\ userPc \in [Requests -> U!Labels] /\ userLoc \in [Requests -> U!Local]
  /\ unshown \in BOOLEAN /\ proved \subseteq Ips \cup U!AnyDevice
  /\ \A r \in Requests :
       /\ userPc[r] \in {"setup", "show"} =>
            userLoc[r].totp.on /\ userLoc[r].totp.secret \in 1..secrets
       /\ userPc[r] = "disable" => ~ userLoc[r].totp.on /\ userLoc[r].totp.secret <= secrets

\* The secret that is wanted was shown, or is about to be.
ShownInv ==
  totp.on /\ ~ unshown => device = totp.secret \/ \E r \in Requests : userPc[r] = "show"

\* What a request that nobody overtook knows of the row it will write or has written.
ReadInv ==
  \A r \in Requests : ~ userLoc[r].overtaken =>
    /\ userPc[r] = "setup" /\ ~ userLoc[r].blind => ~ totp.on
    /\ userPc[r] = "show" => userLoc[r].totp.secret = totp.secret
    /\ userPc[r] = "disable" => totp.on /\ userLoc[r].totp.secret = totp.secret
    /\ userPc[r] = "trust" =>
         trust.ips \subseteq userLoc[r].trust.ips /\ trust.devices \subseteq userLoc[r].trust.devices

EarnedInv ==
  /\ trust.ips \cup trust.devices \subseteq proved
  /\ \A r \in Requests :
       userPc[r] = "trust" => userLoc[r].trust.ips \cup userLoc[r].trust.devices \subseteq proved

ConfigsInv == ConfigsTypeInv /\ ShownInv /\ ReadInv /\ EarnedInv

-----------------------------------------------------------------------------
(* The users' configurations: one lemma for each action.                   *)

LEMMA NoUserLocal ==
  /\ U!NoLocal \in U!Local /\ U!NoLocal.overtaken = FALSE /\ U!NoLocal.blind = FALSE
  /\ [on |-> FALSE, secret |-> 0] \in U!Totp /\ U!NoTrust \in U!Trust
<1>1. 0 \in U!Secrets
  BY BoundsAssumption DEF U!Secrets
<1>2. QED
  BY <1>1 DEF U!NoLocal, U!Local, U!Totp, U!Trust, U!NoTrust

LEMMA ConfigsInit == U!Init => ConfigsInv
<1> SUFFICES ASSUME U!Init PROVE ConfigsInv
  OBVIOUS
<1> HIDE DEF U!NoLocal, U!Local
<1>1. ConfigsTypeInv
  <2>1. /\ totp \in U!Totp /\ totp.on = FALSE /\ totp.secret = 0 /\ secrets = 0 /\ device = 0
        /\ trust \in U!Trust /\ userLoc = [r \in Requests |-> U!NoLocal]
        /\ userPc = [r \in Requests |-> "idle"]
        /\ always \in BOOLEAN /\ unshown = FALSE /\ proved = {}
    BY NoUserLocal DEF U!Init
  <2>2. 0 \in U!Secrets /\ 0 \in 0..0 /\ 0 <= 0 /\ "idle" \in U!Labels
    BY BoundsAssumption DEF U!Secrets, U!Labels
  <2> HIDE DEF U!Totp, U!Trust
  <2>3. QED
    BY <2>1, <2>2, NoUserLocal DEF ConfigsTypeInv
<1>2. ShownInv /\ ReadInv /\ EarnedInv
  BY DEF U!Init, ShownInv, ReadInv, EarnedInv, U!NoTrust
<1>3. QED
  BY <1>1, <1>2 DEF ConfigsInv

\* A request takes a step of its own, and the rows stay.
LEMMA UserSteps ==
  ASSUME ConfigsInv, NEW r \in Requests, NEW label \in U!Labels, NEW mine \in U!Local,
         U!Step(r, label, mine), UNCHANGED <<always, totp, trust>>,
         secrets' \in U!Secrets, secrets' >= secrets, device' \in 0..secrets',
         unshown' \in BOOLEAN, proved' \in SUBSET (Ips \cup U!AnyDevice), proved \subseteq proved',
         label \notin {"show"},
         label = "setup" => mine.totp.on /\ mine.totp.secret \in 1..secrets' /\ (mine.blind \/ ~ totp.on),
         label = "disable" => ~ mine.totp.on /\ totp.on /\ mine.totp.secret = totp.secret,
         label = "trust" => /\ trust.ips \subseteq mine.trust.ips
                            /\ trust.devices \subseteq mine.trust.devices
                            /\ mine.trust.ips \cup mine.trust.devices \subseteq proved',
         \/ userPc[r] = "show" /\ (unshown' = TRUE \/ device' = totp.secret)
         \/ userPc[r] # "show" /\ UNCHANGED <<device, unshown>>
  PROVE  ConfigsInv'
<1> HIDE DEF U!Local, U!Totp, U!Trust
<1>1. /\ ConfigsTypeInv /\ ShownInv /\ ReadInv /\ EarnedInv
      /\ userPc' = [userPc EXCEPT ![r] = label] /\ userLoc' = [userLoc EXCEPT ![r] = mine]
  BY DEF ConfigsInv, U!Step
<1>2. totp.secret \in Nat /\ secrets \in Nat /\ secrets' \in Nat
  BY <1>1, BoundsAssumption DEF ConfigsTypeInv, U!Totp, U!Secrets
<1>3. ConfigsTypeInv'
  <2>1. \A q \in Requests : userPc'[q] \in {"setup", "show"} =>
          userLoc'[q].totp.on /\ userLoc'[q].totp.secret \in 1..secrets'
    BY <1>1, <1>2 DEF ConfigsTypeInv
  <2>2. ASSUME NEW q \in Requests, userPc'[q] = "disable"
        PROVE  ~ userLoc'[q].totp.on /\ userLoc'[q].totp.secret <= secrets'
    <3>1. CASE q = r
      BY <1>1, <1>2, <2>2, <3>1 DEF ConfigsTypeInv
    <3>2. CASE q # r
      <4>1. userLoc[q].totp.secret \in Nat
        BY <1>1, BoundsAssumption DEF ConfigsTypeInv, U!Local, U!Totp, U!Secrets
      <4>2. QED
        BY <1>1, <1>2, <2>2, <3>2, <4>1 DEF ConfigsTypeInv
    <3>3. QED
      BY <3>1, <3>2
  <2>3. QED
    BY <1>1, <1>2, <2>1, <2>2 DEF ConfigsTypeInv
<1>4. ShownInv'
  BY <1>1 DEF ShownInv, ConfigsTypeInv
<1>5. ReadInv'
  BY <1>1 DEF ReadInv, ConfigsTypeInv
<1>6. EarnedInv'
  BY <1>1 DEF EarnedInv, ConfigsTypeInv
<1>7. QED
  BY <1>3, <1>4, <1>5, <1>6 DEF ConfigsInv

LEMMA UserOwnSteps ==
  ASSUME ConfigsInv, NEW r \in Requests,
         \/ \E ok \in BOOLEAN : U!BeginSetup(r, ok)
         \/ U!Show(r) \/ U!ShowParams(r) \/ U!Fail(r)
         \/ \E s \in U!Secrets : U!BeginDisable(r, s)
         \/ \E i \in Ips, d \in U!AnyDevice : U!BeginTrust(r, i, d)
  PROVE  ConfigsInv'
<1>1. ConfigsTypeInv /\ EarnedInv
  BY DEF ConfigsInv
<1>2. /\ secrets \in Nat /\ totp.secret \in Nat /\ totp \in U!Totp /\ trust \in U!Trust
      /\ totp.on \in BOOLEAN
  BY <1>1, BoundsAssumption DEF ConfigsTypeInv, U!Secrets, U!Totp
<1> HIDE DEF ConfigsInv
<1>3. ASSUME NEW ok \in BOOLEAN, U!BeginSetup(r, ok)
      PROVE  ConfigsInv'
  <2> DEFINE mine == [U!NoLocal EXCEPT !.totp = [on |-> TRUE, secret |-> secrets + 1], !.blind = ~ ok]
  <2>1. secrets + 1 \in U!Secrets
    <3>1. secrets < MaxSecrets
      BY <1>3 DEF U!BeginSetup
    <3>2. QED
      BY <1>2, <3>1, BoundsAssumption DEF U!Secrets
  <2>2. mine \in U!Local /\ mine.totp.on = TRUE /\ mine.totp.secret = secrets + 1 /\ mine.blind = ~ ok
    BY <2>1, NoUserLocal DEF U!Local, U!Totp, U!NoLocal
  <2>3. ok => ~ totp.on
    BY <1>3 DEF U!BeginSetup, U!MaySetUp, U!Read
  <2>4. /\ U!Step(r, "setup", mine) /\ userPc[r] = "idle" /\ secrets' = secrets + 1
        /\ UNCHANGED <<always, totp, trust, device, unshown, proved>>
    BY <1>3 DEF U!BeginSetup
  <2>5. /\ device' \in 0..secrets' /\ unshown' \in BOOLEAN /\ secrets' >= secrets
        /\ proved' \in SUBSET (Ips \cup U!AnyDevice) /\ mine.totp.secret \in 1..secrets'
    BY <1>1, <1>2, <2>2, <2>4 DEF ConfigsTypeInv
  <2> HIDE DEF mine, U!Step
  <2>6. QED
    BY <2>1, <2>2, <2>3, <2>4, <2>5, UserSteps DEF U!Labels
<1>4. ASSUME NEW s \in U!Secrets, U!BeginDisable(r, s)
      PROVE  ConfigsInv'
  <2> DEFINE mine == [U!NoLocal EXCEPT !.totp = [on |-> FALSE, secret |-> s]]
  <2>1. mine \in U!Local /\ mine.totp.on = FALSE /\ mine.totp.secret = s
    BY NoUserLocal DEF U!Local, U!Totp, U!NoLocal
  <2>2. /\ U!Step(r, "disable", mine) /\ userPc[r] = "idle" /\ totp.on /\ totp.secret = s
        /\ UNCHANGED <<always, totp, trust, secrets, device, unshown, proved>>
    BY <1>4 DEF U!BeginDisable
  <2>3. /\ device' \in 0..secrets' /\ unshown' \in BOOLEAN /\ secrets' >= secrets
        /\ secrets' \in U!Secrets /\ proved' \in SUBSET (Ips \cup U!AnyDevice)
    BY <1>1, <1>2, <2>2 DEF ConfigsTypeInv
  <2> HIDE DEF mine, U!Step
  <2>4. QED
    BY <2>1, <2>2, <2>3, UserSteps DEF U!Labels
<1>5. ASSUME NEW i \in Ips, NEW d \in U!AnyDevice, U!BeginTrust(r, i, d)
      PROVE  ConfigsInv'
  <2> DEFINE mine == [U!NoLocal EXCEPT !.trust = U!With(trust, i, d)]
  <2>1. /\ mine \in U!Local /\ mine.trust.ips = trust.ips \cup {i}
        /\ mine.trust.devices = trust.devices \cup {d}
    BY <1>2, NoUserLocal DEF U!Local, U!Trust, U!With, U!NoLocal
  <2>2. /\ U!Step(r, "trust", mine) /\ userPc[r] = "idle" /\ proved' = proved \cup {i, d}
        /\ UNCHANGED <<always, totp, trust, secrets, device, unshown>>
    BY <1>5 DEF U!BeginTrust
  <2>3. /\ device' \in 0..secrets' /\ unshown' \in BOOLEAN /\ secrets' >= secrets
        /\ secrets' \in U!Secrets /\ proved' \in SUBSET (Ips \cup U!AnyDevice)
    BY <1>1, <1>2, <2>2 DEF ConfigsTypeInv
  <2>4. mine.trust.ips \cup mine.trust.devices \subseteq proved'
    BY <1>1, <2>1, <2>2 DEF EarnedInv
  <2> HIDE DEF mine, U!Step
  <2>5. QED
    BY <2>1, <2>2, <2>3, <2>4, UserSteps DEF U!Labels
<1>6. ASSUME U!Show(r) \/ U!ShowParams(r) \/ U!Fail(r)
      PROVE  ConfigsInv'
  <2>0. ASSUME userPc[r] = "show"
        PROVE  /\ userLoc[r].totp.secret \in 0..secrets /\ userLoc[r].overtaken \in BOOLEAN
               /\ userLoc[r].overtaken = TRUE \/ userLoc[r].totp.secret = totp.secret
    <3>1. userLoc[r].overtaken \in BOOLEAN
      BY <1>1 DEF ConfigsTypeInv, U!Local
    <3>2. userLoc[r].totp.secret \in 1..secrets
      BY <1>1, <2>0 DEF ConfigsTypeInv
    <3>3. ~ userLoc[r].overtaken => userLoc[r].totp.secret = totp.secret
      BY <2>0 DEF ConfigsInv, ReadInv
    <3>4. QED
      BY <1>2, <3>1, <3>2, <3>3
  <2>1. /\ U!Step(r, "idle", U!NoLocal)
        /\ UNCHANGED <<always, totp, trust, secrets, proved>>
        /\ \/ userPc[r] = "show" /\ device' = totp.secret /\ unshown' = FALSE
           \/ /\ userPc[r] = "show" /\ device' = userLoc[r].totp.secret
              /\ unshown' = userLoc[r].overtaken
           \/ userPc[r] = "show" /\ device' = device /\ unshown' = TRUE
           \/ userPc[r] # "show" /\ UNCHANGED <<device, unshown>>
    BY <1>1, <1>6 DEF U!Show, U!ShowParams, U!Fail, U!Shows, U!Own, ConfigsTypeInv
  <2>2. /\ device' \in 0..secrets' /\ unshown' \in BOOLEAN /\ secrets' >= secrets
        /\ secrets' \in U!Secrets /\ proved' \in SUBSET (Ips \cup U!AnyDevice)
    <3>1. /\ device \in 0..secrets /\ totp.secret \in 0..secrets /\ unshown \in BOOLEAN
          /\ secrets \in U!Secrets /\ proved \subseteq Ips \cup U!AnyDevice
      BY <1>1, <1>2 DEF ConfigsTypeInv
    <3>2. device' \in 0..secrets /\ unshown' \in BOOLEAN /\ secrets' = secrets /\ proved' = proved
      BY <2>0, <2>1, <3>1
    <3>3. QED
      BY <1>2, <3>1, <3>2
  <2>3. \/ userPc[r] = "show" /\ (unshown' = TRUE \/ device' = totp.secret)
        \/ userPc[r] # "show" /\ UNCHANGED <<device, unshown>>
    BY <2>0, <2>1
  <2> HIDE DEF U!Step, U!NoLocal
  <2>4. QED
    BY <2>1, <2>2, <2>3, NoUserLocal, UserSteps DEF U!Labels
<1>7. QED
  BY <1>3, <1>4, <1>5, <1>6

\* A request writes a row: others that have read it are overtaken.
LEMMA UserSaves ==
  ASSUME ConfigsInv, NEW r \in Requests, U!SaveSetup(r) \/ U!SaveDisable(r) \/ U!SaveTrust(r)
  PROVE  ConfigsInv'
<1>1. ConfigsTypeInv /\ ShownInv /\ ReadInv /\ EarnedInv
  BY DEF ConfigsInv
<1>2. \A q \in Requests : userLoc[q] \in U!Local
  BY <1>1 DEF ConfigsTypeInv
<1>3. /\ secrets \in Nat
      /\ \A q \in Requests : userLoc[q].totp \in U!Totp /\ userLoc[q].trust \in U!Trust
  BY <1>1, <1>2, BoundsAssumption DEF ConfigsTypeInv, U!Secrets, U!Local
<1>4. \A q \in Requests, b \in BOOLEAN :
        /\ [userLoc[q] EXCEPT !.overtaken = b] \in U!Local
        /\ [userLoc[q] EXCEPT !.overtaken = b].overtaken = b
        /\ [userLoc[q] EXCEPT !.overtaken = b].totp = userLoc[q].totp
        /\ [userLoc[q] EXCEPT !.overtaken = b].trust = userLoc[q].trust
        /\ [userLoc[q] EXCEPT !.overtaken = b].blind = userLoc[q].blind
  <2>1. ASSUME NEW q \in Requests, NEW b \in BOOLEAN
        PROVE  /\ [userLoc[q] EXCEPT !.overtaken = b] \in U!Local
               /\ [userLoc[q] EXCEPT !.overtaken = b].overtaken = b
               /\ [userLoc[q] EXCEPT !.overtaken = b].totp = userLoc[q].totp
               /\ [userLoc[q] EXCEPT !.overtaken = b].trust = userLoc[q].trust
               /\ [userLoc[q] EXCEPT !.overtaken = b].blind = userLoc[q].blind
    <3>1. userLoc[q] \in U!Local
      BY <1>2
    <3>2. QED
      BY <3>1 DEF U!Local
  <2>2. QED
    BY <2>1
<1> DEFINE labels == IF userPc[r] = "trust" THEN {"trust"} ELSE {"setup", "show", "disable"}
           late(q) == userLoc[q].overtaken \/ userPc[q] \in labels
<1>5. \A q \in Requests : late(q) \in BOOLEAN
  <2>1. \A q \in Requests : userLoc[q].overtaken \in BOOLEAN
    BY <1>2 DEF U!Local
  <2>2. QED
    BY <2>1
<1>6. /\ userLoc' = [q \in Requests |-> userLoc'[q]]
      /\ \A q \in Requests \ {r} : userLoc'[q] = [userLoc[q] EXCEPT !.overtaken = late(q)]
      /\ userPc[r] \in {"setup", "disable", "trust"}
      /\ userPc[r] = "setup" => userLoc'[r] = [userLoc[r] EXCEPT !.overtaken = FALSE]
                                /\ userPc' = [userPc EXCEPT ![r] = "show"]
      /\ userPc[r] # "setup" => userLoc'[r] = U!NoLocal /\ userPc' = [userPc EXCEPT ![r] = "idle"]
  BY DEF U!SaveSetup, U!SaveDisable, U!SaveTrust, U!Written, U!OnTotp
<1>7. /\ always' = always /\ secrets' = secrets /\ device' = device /\ unshown' = unshown /\ proved' = proved
      /\ userPc[r] \in {"setup", "disable"} => totp' = userLoc[r].totp /\ trust' = trust
      /\ userPc[r] = "trust" => trust' = userLoc[r].trust /\ totp' = totp
  BY DEF U!SaveSetup, U!SaveDisable, U!SaveTrust
<1>8. /\ userLoc' \in [Requests -> U!Local]
      /\ \A q \in Requests \ {r} : /\ userLoc'[q].overtaken = late(q)
                                   /\ userLoc'[q].totp = userLoc[q].totp
                                   /\ userLoc'[q].trust = userLoc[q].trust
                                   /\ userLoc'[q].blind = userLoc[q].blind
  <2> HIDE DEF late, U!Local
  <2>1. \A q \in Requests \ {r} : /\ userLoc'[q] \in U!Local
                                  /\ userLoc'[q].overtaken = late(q)
                                  /\ userLoc'[q].totp = userLoc[q].totp
                                  /\ userLoc'[q].trust = userLoc[q].trust
                                  /\ userLoc'[q].blind = userLoc[q].blind
    <3>1. ASSUME NEW q \in Requests \ {r}
          PROVE  /\ userLoc'[q] \in U!Local
                 /\ userLoc'[q].overtaken = late(q)
                 /\ userLoc'[q].totp = userLoc[q].totp
                 /\ userLoc'[q].trust = userLoc[q].trust
                 /\ userLoc'[q].blind = userLoc[q].blind
      <4>1. late(q) \in BOOLEAN /\ userLoc'[q] = [userLoc[q] EXCEPT !.overtaken = late(q)]
        BY <1>5, <1>6
      <4>2. PICK b \in BOOLEAN : b = late(q)
        BY <4>1
      <4>3. userLoc'[q] = [userLoc[q] EXCEPT !.overtaken = b]
        BY <4>1, <4>2
      <4>4. QED
        BY <1>4, <4>2, <4>3
    <3>2. QED
      BY <3>1
  <2>2. userLoc'[r] \in U!Local
    BY <1>4, <1>6, NoUserLocal
  <2>3. QED
    BY <1>6, <2>1, <2>2
<1> HIDE DEF U!Local, U!Totp, U!Trust, U!NoLocal
<1>9. \A q \in Requests : userPc'[q] = IF q # r THEN userPc[q] ELSE IF userPc[r] = "setup" THEN "show" ELSE "idle"
  BY <1>1, <1>6 DEF ConfigsTypeInv
<1>10. ConfigsTypeInv'
  <2>1. totp' \in U!Totp /\ trust' \in U!Trust
    BY <1>1, <1>3, <1>6, <1>7 DEF ConfigsTypeInv
  <2>2. (totp'.on => totp'.secret # 0) /\ totp'.secret <= secrets
    BY <1>1, <1>3, <1>6, <1>7 DEF ConfigsTypeInv
  <2>3. userPc' \in [Requests -> U!Labels]
    BY <1>1, <1>6 DEF ConfigsTypeInv, U!Labels
  <2>4. \A q \in Requests :
          /\ userPc'[q] \in {"setup", "show"} =>
               userLoc'[q].totp.on /\ userLoc'[q].totp.secret \in 1..secrets
          /\ userPc'[q] = "disable" => ~ userLoc'[q].totp.on /\ userLoc'[q].totp.secret <= secrets
    <3>1. userPc[r] = "setup" => userLoc'[r].totp = userLoc[r].totp
      BY <1>4, <1>6
    <3>2. QED
      BY <1>1, <1>6, <1>8, <1>9, <3>1 DEF ConfigsTypeInv
  <2>5. QED
    BY <1>1, <1>7, <1>8, <2>1, <2>2, <2>3, <2>4 DEF ConfigsTypeInv
<1>11. ShownInv'
  <2>1. CASE userPc[r] = "setup"
    BY <1>9, <2>1 DEF ShownInv
  <2>2. CASE userPc[r] = "disable"
    BY <1>1, <1>7, <2>2 DEF ShownInv, ConfigsTypeInv
  <2>3. CASE userPc[r] = "trust"
    BY <1>1, <1>7, <1>9, <2>3 DEF ShownInv
  <2>4. QED
    BY <1>6, <2>1, <2>2, <2>3
<1>12. ReadInv'
  <2>1. ASSUME NEW q \in Requests, ~ userLoc'[q].overtaken, q # r,
               userPc'[q] \in {"setup", "show", "disable", "trust"}
        PROVE  /\ userPc'[q] = userPc[q] /\ ~ userLoc[q].overtaken /\ userPc[q] \notin labels
               /\ userLoc'[q].totp = userLoc[q].totp /\ userLoc'[q].trust = userLoc[q].trust
               /\ userLoc'[q].blind = userLoc[q].blind
    BY <1>8, <1>9, <2>1
  <2>2. userPc'[r] \notin {"setup", "disable", "trust"}
    BY <1>9
  <2>3. userPc'[r] = "show" => userLoc'[r].totp.secret = totp'.secret
    <3>1. userPc'[r] = "show" => userPc[r] = "setup"
      BY <1>9
    <3>2. userPc[r] = "setup" => userLoc'[r].totp = userLoc[r].totp
      BY <1>4, <1>6
    <3>3. QED
      BY <1>7, <3>1, <3>2
  <2>4. CASE userPc[r] = "trust"
    <3>1. totp' = totp /\ labels = {"trust"}
      BY <1>7, <2>4
    <3> HIDE DEF labels
    <3>2. QED
      BY <1>1, <2>1, <2>2, <2>3, <3>1 DEF ReadInv
  <2>5. CASE userPc[r] # "trust"
    <3>1. trust' = trust /\ labels = {"setup", "show", "disable"}
      BY <1>6, <1>7, <2>5
    <3> HIDE DEF labels
    <3>2. QED
      BY <1>1, <2>1, <2>2, <2>3, <3>1 DEF ReadInv
  <2>6. QED
    BY <2>4, <2>5
<1>13. EarnedInv'
  BY <1>1, <1>6, <1>7, <1>8, <1>9 DEF EarnedInv
<1>14. QED
  BY <1>10, <1>11, <1>12, <1>13 DEF ConfigsInv

LEMMA UserElapses == ConfigsInv /\ U!Elapse => ConfigsInv'
<1> SUFFICES ASSUME ConfigsInv, U!Elapse PROVE ConfigsInv'
  OBVIOUS
<1>1. ConfigsTypeInv /\ ShownInv /\ ReadInv /\ EarnedInv
  BY DEF ConfigsInv
<1>2. UNCHANGED <<always, totp, secrets, userPc, userLoc, device, unshown, proved>>
  BY DEF U!Elapse
<1>3. trust' \in U!Trust /\ trust'.ips = trust.ips /\ trust'.devices = trust.devices
  BY <1>1 DEF U!Elapse, ConfigsTypeInv, U!Trust
<1> HIDE DEF U!Trust, U!Totp, U!Local
<1>4. ConfigsTypeInv'
  BY <1>1, <1>2, <1>3 DEF ConfigsTypeInv
<1>5. ShownInv' /\ ReadInv' /\ EarnedInv'
  BY <1>1, <1>2, <1>3 DEF ShownInv, ReadInv, EarnedInv
<1>6. QED
  BY <1>4, <1>5 DEF ConfigsInv

LEMMA ConfigsNext == ConfigsInv /\ U!Next => ConfigsInv'
BY UserElapses, UserOwnSteps, UserSaves DEF U!Next, U!Request

LEMMA ConfigsStutter == ConfigsInv /\ UNCHANGED configVars => ConfigsInv'
BY DEF configVars, ConfigsInv, ConfigsTypeInv, ShownInv, ReadInv, EarnedInv

LEMMA CodeChanges == ConfigsInv /\ U!Next => U!ChangedByItsCode
<1> SUFFICES ASSUME ConfigsInv, U!Next, totp.on, totp' # totp
             PROVE  \E r \in Requests :
                      \/ userLoc[r].overtaken /\ (U!SaveSetup(r) \/ U!SaveDisable(r))
                      \/ userLoc[r].blind /\ U!SaveSetup(r)
                      \/ U!SaveDisable(r) /\ userLoc[r].totp.secret = totp.secret
  BY DEF U!ChangedByItsCode
<1>1. PICK r \in Requests : U!SaveSetup(r) \/ U!SaveDisable(r)
  BY DEF U!Next, U!Request, U!Elapse, U!BeginSetup, U!Show, U!ShowParams, U!Fail, U!BeginDisable,
         U!BeginTrust, U!SaveTrust
<1>2. ReadInv
  BY DEF ConfigsInv
<1>3. CASE U!SaveSetup(r)
  <2>1. userPc[r] = "setup"
    BY <1>3 DEF U!SaveSetup
  <2> HIDE DEF U!SaveSetup, U!SaveDisable
  <2>2. QED
    BY <1>2, <1>3, <2>1 DEF ReadInv
<1>4. CASE U!SaveDisable(r)
  <2>1. userPc[r] = "disable"
    BY <1>4 DEF U!SaveDisable
  <2> HIDE DEF U!SaveSetup, U!SaveDisable
  <2>2. QED
    BY <1>2, <1>4, <2>1 DEF ReadInv
<1>5. QED
  BY <1>1, <1>3, <1>4

LEMMA NobodySpared ==
  ConfigsInv => \A i \in Ips, d \in U!AnyDevice :
    ~ U!Needs(i, d) => i \in proved \/ d \in proved \ {Blank} \/ (~ always /\ trust.fresh)
<1>1. ConfigsInv => trust.ips \cup trust.devices \subseteq proved
  BY DEF ConfigsInv, EarnedInv
<1>2. ConfigsInv => always \in BOOLEAN /\ trust.fresh \in BOOLEAN
  BY DEF ConfigsInv, ConfigsTypeInv, U!Trust
<1>3. QED
  BY <1>1, <1>2 DEF U!Needs, U!Exempt, U!IPRule, U!DeviceRule

LEMMA TrustKept ==
  ConfigsInv /\ U!Next /\ (trust.ips \cup trust.devices) \ (trust'.ips \cup trust'.devices) # {} =>
    \E r \in Requests : U!SaveTrust(r) /\ userLoc[r].overtaken
<1> SUFFICES ASSUME ConfigsInv, U!Next,
                    (trust.ips \cup trust.devices) \ (trust'.ips \cup trust'.devices) # {}
             PROVE  \E r \in Requests : U!SaveTrust(r) /\ userLoc[r].overtaken
  OBVIOUS
<1>1. CASE U!Elapse
  <2>1. trust'.ips = trust.ips /\ trust'.devices = trust.devices
    BY <1>1 DEF U!Elapse, ConfigsInv, ConfigsTypeInv, U!Trust
  <2>2. QED
    BY <2>1
<1>2. ASSUME NEW r \in Requests, U!Request(r)
      PROVE  U!SaveTrust(r) /\ userLoc[r].overtaken
  <2>1. trust' # trust
    OBVIOUS
  <2>2. U!SaveTrust(r)
    BY <1>2, <2>1 DEF U!Request, U!BeginSetup, U!SaveSetup, U!Show, U!ShowParams, U!BeginDisable,
                      U!SaveDisable, U!BeginTrust, U!Fail
  <2>3. userPc[r] = "trust" /\ trust' = userLoc[r].trust
    BY <2>2 DEF U!SaveTrust
  <2> HIDE DEF U!SaveTrust
  <2>4. QED
    BY <2>2, <2>3 DEF ConfigsInv, ReadInv
<1>3. QED
  BY <1>1, <1>2 DEF U!Next

-----------------------------------------------------------------------------
(* The specification that holds all three parts.                           *)

allVars == <<focus, vars, codeVars, configVars>>

LEMMA ConfigsMove == [AllNext]_allVars => U!Next \/ UNCHANGED configVars
<1> HIDE DEF configVars
<1>1. QED
  BY DEF AllNext, allVars, ManagerStep, CodesStep, ConfigsStep

\* The invariant of the users' configurations: what a request that nobody overtook
\* knows of the row it will write.
THEOREM ConfigsInvariance == AllSpec => []ConfigsInv
<1>1. AllInit => ConfigsInv
  BY ConfigsInit DEF AllInit
<1>2. ConfigsInv /\ [AllNext]_allVars => ConfigsInv'
  BY ConfigsMove, ConfigsNext, ConfigsStutter
<1>3. QED
  BY <1>1, <1>2, PTL DEF AllSpec, allVars

\* With TOTP on, and nobody under way, the secret it wants is the one a setup showed
\* last, however setups overlapped, unless one failed since or was answered without
\* another reading and overtaken before that.
THEOREM StoredWasShown == AllSpec => []ShownIsStored
<1>1. ConfigsInv => ShownIsStored
  BY DEF ConfigsInv, ShownInv, ShownIsStored, U!ShownIsStored
<1>2. QED
  BY <1>1, ConfigsInvariance, PTL

\* TOTP that is on goes off, or changes its secret, only by a code of that secret,
\* unless the request was overtaken or a reading failed.
THEOREM OnlyItsCodeChanges == AllSpec => ChangesOnlyByItsCode
<1>1. ConfigsInv /\ [AllNext]_allVars => [U!ChangedByItsCode]_configVars
  <2> HIDE DEF configVars, U!ChangedByItsCode
  <2>1. QED
    BY ConfigsMove, CodeChanges
<1>2. QED
  BY <1>1, ConfigsInvariance, PTL DEF AllSpec, allVars, ChangesOnlyByItsCode

\* Addresses and devices are forgotten only by a verification that another one
\* overtook, and spare a verification only to who has verified from them.
THEOREM EarnedAndKept == AllSpec => TrustIsEarned
<1>1. ConfigsInv /\ [AllNext]_allVars => [U!TrustEarned]_configVars
  <2>1. ConfigsInv /\ U!Next => U!TrustEarned
    BY NobodySpared, TrustKept DEF U!TrustEarned
  <2> HIDE DEF configVars, U!TrustEarned
  <2>2. QED
    BY <2>1, ConfigsMove
<1>2. QED
  BY <1>1, ConfigsInvariance, PTL DEF AllSpec, allVars, TrustIsEarned

-----------------------------------------------------------------------------
(* The codes of an address: one lemma for each action.                     *)

LEMMA CodesTypes ==
  ASSUME CodesInv
  PROVE  /\ sends \in Nat /\ MaxSends \in Nat /\ sends <= MaxSends /\ last \in 0..sends
         /\ live \in Instances /\ mode \in {"code", "link"}
         /\ \A i \in Instances : stored[i] \in 0..sends /\ expired[i] \in BOOLEAN
         /\ \A r \in Requests : mailLoc[r].at \in Instances /\ mailLoc[r].code \in 0..MaxSends
         /\ \A r \in Requests : mailPc[r] = "mail" => mailLoc[r].code \in 1..sends
BY BoundsAssumption DEF CodesInv, CodesTypeInv, C!Local, C!Codes, C!None, C!Instances, Instances

LEMMA CodesInit == C!Init => CodesInv
<1> SUFFICES ASSUME C!Init PROVE CodesInv
  OBVIOUS
<1>1. 1 \in Instances
  BY BoundsAssumption, PluginAssumption DEF Instances
<1>2. C!NoLocal \in C!Local
  BY <1>1 DEF C!NoLocal, C!Local, C!None, C!Instances, Instances
<1>3. CodesTypeInv
  <2> HIDE DEF C!Local, C!NoLocal
  <2>1. QED
    BY <1>1, <1>2, BoundsAssumption DEF C!Init, CodesTypeInv, Single, C!None, C!Instances, Instances
<1>4. VerifiesInv
  BY DEF C!Init, VerifiesInv, Verifies, C!None
<1>5. QED
  BY <1>3, <1>4 DEF CodesInv

\* A request begins to mail.
LEMMA MailingTypes ==
  ASSUME CodesInv, NEW r \in Requests, C!Mailing(r, live)
  PROVE  /\ sends' = sends + 1 /\ sends' \in 0..MaxSends
         /\ mailPc' \in [Requests -> {"idle", "mail"}] /\ mailLoc' \in [Requests -> C!Local]
         /\ mailPc'[r] = "mail" /\ mailLoc'[r].code = sends' /\ mailLoc'[r].at = live
         /\ \A q \in Requests \ {r} : mailPc'[q] = mailPc[q] /\ mailLoc'[q] = mailLoc[q]
<1>1. CodesTypeInv
  BY DEF CodesInv
<1>2. sends' = sends + 1 /\ sends' \in 0..MaxSends /\ sends + 1 \in 1..MaxSends
  BY CodesTypes DEF C!Mailing
<1>3. [code |-> sends + 1, at |-> live] \in C!Local
  BY <1>2, CodesTypes DEF C!Local, C!Codes, C!Instances, Instances
<1> HIDE DEF C!Local
<1>4. QED
  BY <1>1, <1>2, <1>3 DEF C!Mailing, CodesTypeInv

LEMMA BeginsCode ==
  ASSUME CodesInv, NEW r \in Requests, C!BeginCode(r)
  PROVE  CodesInv'
<1>1. CodesTypeInv /\ VerifiesInv
  BY DEF CodesInv
<1>2. /\ mode = "code" /\ mailPc[r] = "idle" /\ lock[live] = {}
      /\ lock' = [lock EXCEPT ![live] = {r}]
      /\ C!Mailing(r, live)
      /\ UNCHANGED <<mode, live, stored, expired, last, used, dead>>
  BY DEF C!BeginCode
<1> HIDE DEF C!Mailing, C!Local
<1>3. CodesTypeInv'
  <2>1. stored \in [Instances -> 0..sends'] /\ last \in 0..sends'
    BY <1>1, <1>2, MailingTypes, CodesTypes DEF CodesTypeInv
  <2>2. \A i \in Instances :
          lock'[i] = {q \in Requests : mode' = "code" /\ mailPc'[q] = "mail" /\ mailLoc'[q].at = i}
    BY <1>1, <1>2, MailingTypes DEF CodesTypeInv
  <2>3. \A i \in Instances : Single(lock'[i])
    BY <1>1, <1>2 DEF CodesTypeInv, Single
  <2>4. \A q \in Requests : mailPc'[q] = "mail" => mailLoc'[q].code \in 1..sends'
    <3>1. ASSUME NEW q \in Requests, mailPc'[q] = "mail"
          PROVE  mailLoc'[q].code \in 1..sends'
      <4>1. CASE q = r
        BY <1>2, <4>1, MailingTypes, CodesTypes
      <4>2. CASE q # r
        BY <1>2, <3>1, <4>2, MailingTypes, CodesTypes
      <4>3. QED
        BY <4>1, <4>2
    <3>2. QED
      BY <3>1
  <2>5. QED
    BY <1>1, <1>2, <2>1, <2>2, <2>3, <2>4, MailingTypes DEF CodesTypeInv
<1>4. VerifiesInv'
  BY <1>1, <1>2 DEF VerifiesInv, Verifies
<1>5. QED
  BY <1>3, <1>4 DEF CodesInv

LEMMA BeginsLink ==
  ASSUME CodesInv, NEW r \in Requests, C!BeginLink(r)
  PROVE  CodesInv'
<1>1. CodesTypeInv /\ VerifiesInv
  BY DEF CodesInv
<1>2. /\ mode = "link" /\ mailPc[r] = "idle"
      /\ stored' = [stored EXCEPT ![live] = sends + 1] /\ expired' = [expired EXCEPT ![live] = FALSE]
      /\ dead' = dead \cup {mailLoc[q].code : q \in {q \in Requests : mailPc[q] = "mail"}} \cup ({last} \ {0})
      /\ C!Mailing(r, live)
      /\ UNCHANGED <<mode, live, lock, last, used>>
  BY DEF C!BeginLink, C!Put, C!None
<1> HIDE DEF C!Mailing, C!Local
<1>3. CodesTypeInv'
  <2>1. stored' \in [Instances -> 0..sends'] /\ last \in 0..sends'
    BY <1>1, <1>2, MailingTypes, CodesTypes DEF CodesTypeInv
  <2>2. \A i \in Instances :
          lock'[i] = {q \in Requests : mode' = "code" /\ mailPc'[q] = "mail" /\ mailLoc'[q].at = i}
    BY <1>1, <1>2 DEF CodesTypeInv
  <2>3. \A q \in Requests : mailPc'[q] = "mail" => mailLoc'[q].code \in 1..sends'
    <3>1. ASSUME NEW q \in Requests, mailPc'[q] = "mail"
          PROVE  mailLoc'[q].code \in 1..sends'
      <4>1. CASE q = r
        BY <1>2, <4>1, MailingTypes, CodesTypes
      <4>2. CASE q # r
        BY <1>2, <3>1, <4>2, MailingTypes, CodesTypes
      <4>3. QED
        BY <4>1, <4>2
    <3>2. QED
      BY <3>1
  <2>4. dead' \subseteq C!Codes
    <3>1. dead \subseteq C!Codes /\ last \in 0..sends
      BY <1>1 DEF CodesTypeInv
    <3>2. \A q \in Requests : mailPc[q] = "mail" => mailLoc[q].code \in C!Codes
      BY CodesTypes DEF C!Codes
    <3>3. {last} \ {0} \subseteq C!Codes
      BY <3>1, CodesTypes DEF C!Codes
    <3> HIDE DEF C!Codes
    <3>4. QED
      BY <1>2, <3>1, <3>2, <3>3
  <2>5. expired' \in [Instances -> BOOLEAN]
    BY <1>1, <1>2 DEF CodesTypeInv
  <2>6. QED
    BY <1>1, <1>2, <2>1, <2>2, <2>3, <2>4, <2>5, MailingTypes DEF CodesTypeInv
<1>4. VerifiesInv'
  <2>1. last' \in dead' \cup {0}
    BY <1>2
  <2>2. ASSUME NEW q \in Requests, mailPc'[q] = "mail", mailLoc'[q].at = live'
        PROVE  Verifies(mailLoc[q].code)'
    <3>1. CASE q = r
      <4>1. mailLoc'[q].code = sends + 1
        BY <1>2, <3>1, MailingTypes
      <4>2. stored'[live'] = sends + 1 /\ expired'[live'] = FALSE
        BY <1>1, <1>2 DEF CodesTypeInv
      <4>3. QED
        BY <4>1, <4>2 DEF Verifies
    <3>2. CASE q # r
      BY <1>2, <2>2, <3>2, MailingTypes DEF Verifies
    <3>3. QED
      BY <3>1, <3>2
  <2>3. QED
    BY <2>1, <2>2 DEF VerifiesInv, Verifies
<1>5. QED
  BY <1>3, <1>4 DEF CodesInv

LEMMA MailReturns ==
  ASSUME CodesInv, NEW r \in Requests, NEW delivered \in BOOLEAN, NEW ok \in BOOLEAN,
         C!Mailed(r, delivered, ok)
  PROVE  CodesInv'
<1>1. CodesTypeInv /\ VerifiesInv
  BY DEF CodesInv
<1> DEFINE c == mailLoc[r].code
           i == mailLoc[r].at
           late == (mode = "code" /\ ~ ok) \/ i # live
           kept == mode = "code" /\ ok
<1>2. /\ mailPc[r] = "mail"
      /\ kept => stored' = [stored EXCEPT ![i] = c] /\ expired' = [expired EXCEPT ![i] = FALSE]
      /\ ~ kept => stored' = stored /\ expired' = expired
      /\ lock' = [lock EXCEPT ![i] = lock[i] \ {r}]
      /\ mailPc' = [mailPc EXCEPT ![r] = "idle"] /\ mailLoc' = [mailLoc EXCEPT ![r] = C!NoLocal]
      /\ delivered => last' = c
      /\ ~ delivered => last' = last
      /\ late => c \in dead'
      /\ kept /\ ~ delivered => last \in dead' \cup {0}
      /\ dead \subseteq dead' /\ dead' \subseteq dead \cup {c} \cup ({last} \ {0})
      /\ UNCHANGED <<mode, live, sends, used>>
  BY CodesTypes DEF C!Mailed, C!Keeps, C!Put, C!None, CodesInv, CodesTypeInv
<1>3. c \in 1..sends /\ i \in Instances
  BY <1>2, CodesTypes
<1>4. C!NoLocal \in C!Local
  BY BoundsAssumption, PluginAssumption DEF C!NoLocal, C!Local, C!None, C!Instances
<1> HIDE DEF late, kept, c, i, C!Local, C!NoLocal
<1>5. i = mailLoc[r].at /\ c = mailLoc[r].code
  BY DEF i, c
<1>6. CodesTypeInv'
  <2>1. /\ stored' \in [Instances -> 0..sends'] /\ expired' \in [Instances -> BOOLEAN]
        /\ last' \in 0..sends'
    <3>1. /\ stored \in [Instances -> 0..sends] /\ expired \in [Instances -> BOOLEAN]
          /\ last \in 0..sends /\ sends' = sends /\ c \in 0..sends
      BY <1>1, <1>2, <1>3, CodesTypes DEF CodesTypeInv
    <3>2. stored' \in [Instances -> 0..sends] /\ expired' \in [Instances -> BOOLEAN]
      <4>1. CASE kept
        BY <1>2, <3>1, <4>1
      <4>2. CASE ~ kept
        BY <1>2, <3>1, <4>2
      <4>3. QED
        BY <4>1, <4>2
    <3>3. last' \in 0..sends
      BY <1>2, <3>1
    <3>4. QED
      BY <3>1, <3>2, <3>3
  <2>2. /\ mailPc' \in [Requests -> {"idle", "mail"}] /\ mailLoc' \in [Requests -> C!Local]
        /\ \A q \in Requests : mailPc'[q] = "mail" => q # r /\ mailPc[q] = "mail" /\ mailLoc'[q] = mailLoc[q]
        /\ \A q \in Requests \ {r} : mailPc'[q] = mailPc[q] /\ mailLoc'[q] = mailLoc[q]
    BY <1>1, <1>2, <1>4 DEF CodesTypeInv
  <2>3. \A j \in Instances :
          lock'[j] = {q \in Requests : mode' = "code" /\ mailPc'[q] = "mail" /\ mailLoc'[q].at = j}
    <3>1. ASSUME NEW j \in Instances
          PROVE  lock'[j] = {q \in Requests : mode' = "code" /\ mailPc'[q] = "mail" /\ mailLoc'[q].at = j}
      <4>1. lock[j] = {q \in Requests : mode = "code" /\ mailPc[q] = "mail" /\ mailLoc[q].at = j}
        BY <1>1 DEF CodesTypeInv
      <4>2. lock'[j] = IF j = i THEN lock[j] \ {r} ELSE lock[j]
        BY <1>1, <1>2 DEF CodesTypeInv
      <4>3. \A q \in Requests : mailPc'[q] = "mail" /\ mailLoc'[q].at = j
                                <=> q # r /\ mailPc[q] = "mail" /\ mailLoc[q].at = j
        BY <2>2
      <4>4. mode' = mode
        BY <1>2
      <4>5. QED
        BY <1>5, <4>1, <4>2, <4>3, <4>4
    <3>2. QED
      BY <3>1
  <2>4. \A j \in Instances : Single(lock'[j]) /\ lock'[j] \in SUBSET Requests
    BY <1>1, <1>2 DEF CodesTypeInv, Single
  <2>5. lock' \in [Instances -> SUBSET Requests]
    BY <1>1, <1>2 DEF CodesTypeInv
  <2>6. dead' \subseteq C!Codes
    BY <1>1, <1>2, <1>3, CodesTypes DEF CodesTypeInv, C!Codes
  <2>7. QED
    BY <1>1, <1>2, <2>1, <2>2, <2>3, <2>4, <2>5, <2>6 DEF CodesTypeInv
<1>7. VerifiesInv'
  <2>1. ASSUME ~ kept, NEW x, Verifies(x)
        PROVE  Verifies(x)'
    BY <1>2, <2>1 DEF Verifies
  <2>2. ASSUME i # live, Verifies(last)
        PROVE  Verifies(last)'
    <3>1. stored'[live] = stored[live] /\ expired'[live] = expired[live]
      BY <1>1, <1>2, <2>2, CodesTypes DEF CodesTypeInv
    <3>2. delivered => last' \in dead'
      BY <1>2, <2>2 DEF late
    <3>3. QED
      BY <1>2, <2>2, <3>1, <3>2 DEF Verifies
  <2>3. ASSUME i = live
        PROVE  Verifies(last)'
    <3>1. CASE kept
      <4>1. stored'[live] = c /\ ~ expired'[live]
        BY <1>1, <1>2, <2>3, <3>1, CodesTypes DEF CodesTypeInv
      <4>2. QED
        BY <1>2, <3>1, <4>1 DEF Verifies
    <3>2. CASE ~ kept /\ mode = "code"
      <4>1. c \in dead'
        BY <1>2, <3>2 DEF kept, late
      <4>2. QED
        BY <1>1, <1>2, <2>1, <3>2, <4>1 DEF Verifies, VerifiesInv
    <3>3. CASE ~ kept /\ mode = "link"
      <4>1. Verifies(c) /\ Verifies(last)
        BY <1>1, <1>2, <1>5, <2>3, <3>3 DEF VerifiesInv
      <4>2. QED
        BY <1>2, <3>3, <4>1 DEF Verifies
    <3>4. QED
      BY <3>1, <3>2, <3>3, CodesTypes
  <2>4. ASSUME NEW q \in Requests, mode' = "link", mailPc'[q] = "mail", mailLoc'[q].at = live'
        PROVE  Verifies(mailLoc[q].code)'
    <3>1. q # r /\ mailPc[q] = "mail" /\ mailLoc'[q] = mailLoc[q]
      BY <1>1, <1>2, <2>4 DEF CodesTypeInv
    <3>2. ~ kept
      BY <1>2, <2>4 DEF kept
    <3>3. QED
      BY <1>1, <1>2, <2>4, <3>1, <3>2 DEF VerifiesInv, Verifies
  <2>5. Verifies(last)'
    BY <1>1, <2>2, <2>3 DEF VerifiesInv
  <2>6. QED
    BY <2>4, <2>5 DEF VerifiesInv
<1>8. QED
  BY <1>6, <1>7 DEF CodesInv

\* A code is spent, expires, or is lost with its instance.
LEMMA CodesEnd ==
  ASSUME CodesInv, (\E c \in C!Codes : C!Verify(c)) \/ C!Expire \/ C!Replace
  PROVE  CodesInv'
<1>1. CodesTypeInv /\ VerifiesInv
  BY DEF CodesInv
<1>2. UNCHANGED <<mode, lock, sends, mailPc, mailLoc, last>>
  BY DEF C!Verify, C!Expire, C!Replace
<1>3. /\ live' \in Instances
      /\ stored' \in [Instances -> 0..sends] /\ expired' \in [Instances -> BOOLEAN]
      /\ used \subseteq used' /\ used' \subseteq C!Codes
      /\ dead \subseteq dead' /\ dead' \subseteq C!Codes
  <2>1. ASSUME NEW c \in C!Codes, C!Verify(c)
        PROVE  <1>3!:
    BY <1>1, <2>1, CodesTypes DEF CodesTypeInv, C!Verify, C!Put, C!None
  <2>2. ASSUME C!Expire
        PROVE  <1>3!:
    <3>1. stored[live] \in C!Codes
      BY <2>2, CodesTypes DEF C!Expire, C!None, C!Codes
    <3>2. QED
      BY <1>1, <2>2, <3>1 DEF CodesTypeInv, C!Expire
  <2>3. ASSUME C!Replace
        PROVE  <1>3!:
    BY <1>1, <2>3, CodesTypes, PluginAssumption DEF CodesTypeInv, C!Replace, C!Codes, Instances
  <2>4. QED
    BY <2>1, <2>2, <2>3
<1>4. ASSUME NEW x \in 0..sends, Verifies(x)
      PROVE  Verifies(x)'
  <2>1. CASE x \in used \cup dead \cup {0}
    BY <1>3, <2>1 DEF Verifies
  <2>2. CASE x \notin used \cup dead \cup {0}
    <3>1. stored[live] = x /\ ~ expired[live] /\ x # 0
      BY <1>4, <2>2 DEF Verifies
    <3>2. x \in used' \cup dead'
      BY <3>1, CodesTypes DEF C!Verify, C!Spends, C!Expire, C!Replace
    <3>3. QED
      BY <3>2 DEF Verifies
  <2>3. QED
    BY <2>1, <2>2
<1>5. CodesTypeInv'
  <2> HIDE DEF C!Local
  <2>1. QED
    BY <1>1, <1>2, <1>3 DEF CodesTypeInv
<1>6. VerifiesInv'
  <2>1. Verifies(last)'
    BY <1>1, <1>2, <1>4, CodesTypes DEF VerifiesInv, Verifies
  <2>2. ASSUME NEW q \in Requests, mode' = "link", mailPc'[q] = "mail", mailLoc'[q].at = live'
        PROVE  Verifies(mailLoc[q].code)'
    <3>1. mode = "link" /\ mailPc[q] = "mail" /\ mailLoc'[q] = mailLoc[q]
      BY <1>2, <2>2
    <3>2. mailLoc[q].code \in 0..sends /\ mailLoc[q].code \in 1..sends
      BY <3>1, CodesTypes
    <3>3. CASE live' = live
      BY <1>1, <1>4, <2>2, <3>1, <3>2, <3>3 DEF VerifiesInv, Verifies
    <3>4. CASE live' # live
      <4>1. dead' = dead \cup 1..sends
        BY <3>4 DEF C!Verify, C!Expire, C!Replace
      <4>2. QED
        BY <3>1, <3>2, <4>1 DEF Verifies
    <3>5. QED
      BY <3>3, <3>4
  <2>3. QED
    BY <2>1, <2>2 DEF VerifiesInv
<1>7. QED
  BY <1>5, <1>6 DEF CodesInv

LEMMA CodesNext == CodesInv /\ C!Next => CodesInv'
BY BeginsCode, BeginsLink, MailReturns, CodesEnd DEF C!Next, C!Sending, C!Verifying

LEMMA CodesStutter == CodesInv /\ UNCHANGED codeVars => CodesInv'
BY DEF codeVars, CodesInv, CodesTypeInv, VerifiesInv, Verifies

LEMMA CodesMove == [AllNext]_allVars => C!Next \/ UNCHANGED codeVars
<1> HIDE DEF codeVars
<1>1. QED
  BY DEF AllNext, allVars, ManagerStep, CodesStep, ConfigsStep

\* The invariant of the codes: what is in the mailbox, and a link on its way there,
\* verify unless they are spent or cannot be expected to.
THEOREM CodesInvariance == AllSpec => []CodesInv
<1>1. AllInit => CodesInv
  BY CodesInit DEF AllInit
<1>2. CodesInv /\ [AllNext]_allVars => CodesInv'
  BY CodesMove, CodesNext, CodesStutter
<1>3. QED
  BY <1>1, <1>2, PTL DEF AllSpec, allVars

\* When no mail is under way, the last code or link that reached the mailbox is the
\* one that verifies, unless it was spent, replaced, or not to be expected to.
THEOREM MailboxVerifies == AllSpec => []MailedCodeVerifies
<1>1. CodesInv => MailedCodeVerifies
  BY DEF CodesInv, VerifiesInv, Verifies, MailedCodeVerifies, C!MailedCodeVerifies, C!None
<1>2. QED
  BY <1>1, CodesInvariance, PTL

-----------------------------------------------------------------------------
(* The manager.                                                            *)

LEMMA ManagerTypes ==
  ASSUME Inv
  PROVE  /\ row \subseteq Configs /\ Single(row)
         /\ maps \in Nat /\ MaxMaps \in Nat /\ maps <= MaxMaps /\ home = maps
         /\ born \in Nat /\ MaxInstances \in Nat /\ born <= MaxInstances
         /\ \A m \in Maps : slot[m] \in 0..born /\ (m > maps => slot[m] = 0)
         /\ Live \in 0..born /\ (home # 0 => home \in Maps /\ Live = slot[home])
         /\ home = 0 => Live = 0
         /\ \A r \in Requests : pc[r] \in Labels /\ loc[r] \in Local
         /\ \A i \in 1..born : i \in Instances /\ inst[i].state \in {"Uninitialized", "Running", "Stopped"}
<1>1. TypesInv
  BY DEF Inv
<1>2. /\ MaxMaps \in Nat /\ MaxInstances \in Nat /\ maps \in 0..MaxMaps /\ home = maps
      /\ born \in 0..MaxInstances /\ slot \in [Maps -> 0..born]
      /\ \A m \in Maps : m > maps => slot[m] = 0
  BY <1>1, PluginAssumption DEF TypesInv
<1>3. home # 0 => home \in Maps /\ Live = slot[home]
  BY <1>2 DEF Live, Maps
<1>4. home = 0 => Live = 0
  BY DEF Live
<1>5. QED
  BY <1>1, <1>2, <1>3, <1>4 DEF TypesInv, Instances

LEMMA LocalTypes ==
  ASSUME Inv, NEW r \in Requests
  PROVE  /\ loc[r].op \in Ops /\ loc[r].config \in SUBSET Configs /\ loc[r].want \in SUBSET Configs
         /\ loc[r].lazy \in BOOLEAN /\ loc[r].map \in 0..maps /\ loc[r].got \in 0..born
         /\ Single(loc[r].config) /\ Single(loc[r].want)
         /\ HoldsOK(pc[r], loc[r], maps, born)
<1>1. loc[r] \in Local /\ HoldsOK(pc[r], loc[r], maps, born)
  BY ManagerTypes DEF Inv, HoldsInv
<1>2. /\ loc[r].op \in Ops /\ loc[r].config \in SUBSET Configs /\ loc[r].want \in SUBSET Configs
      /\ loc[r].lazy \in BOOLEAN /\ loc[r].map \in 0..MaxMaps /\ loc[r].got \in 0..MaxInstances
  BY <1>1 DEF Local
<1>3. QED
  BY <1>1, <1>2, ManagerTypes DEF HoldsOK

LEMMA NoLocalType ==
  /\ NoLocal \in Local /\ NoLocal.op = "none" /\ NoLocal.config = {} /\ NoLocal.want = {}
  /\ NoLocal.lazy = FALSE /\ NoLocal.map = 0 /\ NoLocal.got = 0
BY PluginAssumption DEF NoLocal, Local, Ops

\* The locals of a request that found an instance, loads the row's configuration,
\* saved one, made an instance, or has dropped its own.
Fields(n, config, want, got, map, lazy) ==
  n.config = config /\ n.want = want /\ n.got = got /\ n.map = map /\ n.lazy = lazy

LEMMA LocalsMade ==
  \A l \in Local :
    /\ \A g \in 0..MaxInstances :
         \E n \in Local : /\ n = [l EXCEPT !.got = g, !.config = {}, !.lazy = FALSE]
                          /\ Fields(n, {}, l.want, g, l.map, FALSE)
    /\ \A c \in SUBSET Configs :
         \E n \in Local : /\ n = [l EXCEPT !.config = c, !.lazy = TRUE]
                          /\ Fields(n, c, l.want, l.got, l.map, TRUE)
    /\ \A c \in SUBSET Configs :
         \E n \in Local : /\ n = [l EXCEPT !.config = c, !.want = {}]
                          /\ Fields(n, c, {}, l.got, l.map, l.lazy)
    /\ \A g \in 0..MaxInstances, m \in 0..MaxMaps :
         \E n \in Local : /\ n = [l EXCEPT !.map = m, !.got = g]
                          /\ Fields(n, l.config, l.want, g, m, l.lazy)
    /\ \E n \in Local : /\ n = [l EXCEPT !.got = 0]
                        /\ Fields(n, l.config, l.want, 0, l.map, l.lazy)
<1>1. ASSUME NEW l \in Local, NEW g \in 0..MaxInstances
      PROVE  \E n \in Local : /\ n = [l EXCEPT !.got = g, !.config = {}, !.lazy = FALSE]
                              /\ Fields(n, {}, l.want, g, l.map, FALSE)
  <2> DEFINE n == [l EXCEPT !.got = g, !.config = {}, !.lazy = FALSE]
  <2>1. n \in Local /\ Fields(n, {}, l.want, g, l.map, FALSE)
    BY DEF Local, Fields
  <2>2. QED
    BY <2>1, Zenon
<1>2. ASSUME NEW l \in Local, NEW c \in SUBSET Configs
      PROVE  \E n \in Local : /\ n = [l EXCEPT !.config = c, !.lazy = TRUE]
                              /\ Fields(n, c, l.want, l.got, l.map, TRUE)
  <2> DEFINE n == [l EXCEPT !.config = c, !.lazy = TRUE]
  <2>1. n \in Local /\ Fields(n, c, l.want, l.got, l.map, TRUE)
    BY DEF Local, Fields
  <2>2. QED
    BY <2>1, Zenon
<1>3. ASSUME NEW l \in Local, NEW c \in SUBSET Configs
      PROVE  \E n \in Local : /\ n = [l EXCEPT !.config = c, !.want = {}]
                              /\ Fields(n, c, {}, l.got, l.map, l.lazy)
  <2> DEFINE n == [l EXCEPT !.config = c, !.want = {}]
  <2>1. n \in Local /\ Fields(n, c, {}, l.got, l.map, l.lazy)
    BY DEF Local, Fields
  <2>2. QED
    BY <2>1, Zenon
<1>4. ASSUME NEW l \in Local, NEW g \in 0..MaxInstances, NEW m \in 0..MaxMaps
      PROVE  \E n \in Local : /\ n = [l EXCEPT !.map = m, !.got = g]
                              /\ Fields(n, l.config, l.want, g, m, l.lazy)
  <2> DEFINE n == [l EXCEPT !.map = m, !.got = g]
  <2>1. n \in Local /\ Fields(n, l.config, l.want, g, m, l.lazy)
    BY DEF Local, Fields
  <2>2. QED
    BY <2>1, Zenon
<1>5. ASSUME NEW l \in Local
      PROVE  \E n \in Local : /\ n = [l EXCEPT !.got = 0]
                              /\ Fields(n, l.config, l.want, 0, l.map, l.lazy)
  <2> DEFINE n == [l EXCEPT !.got = 0]
  <2>1. n \in Local /\ Fields(n, l.config, l.want, 0, l.map, l.lazy)
    BY PluginAssumption DEF Local, Fields
  <2>2. QED
    BY <2>1, Zenon
<1>6. QED
  BY <1>1, <1>2, <1>3, <1>4, <1>5

\* Where r is, and where the others are, after it has moved.
LEMMA Moved ==
  ASSUME Inv, NEW r \in Requests, NEW label \in Labels, NEW mine \in Local,
         Goto(r, label), Keep(r, mine)
  PROVE  /\ pc' \in [Requests -> Labels] /\ loc' \in [Requests -> Local]
         /\ pc'[r] = label /\ loc'[r] = mine
         /\ \A q \in Requests \ {r} : pc'[q] = pc[q] /\ loc'[q] = loc[q]
<1> HIDE DEF Local, Labels
<1>1. QED
  BY DEF Inv, TypesInv, Goto, Keep

\* A request moves on, and may have written the row.  Every conjunct that could
\* break asks something of where it goes, with what, and of what it leaves.
LEMMA Moves ==
  ASSUME Inv, NEW r \in Requests, NEW label \in Labels, NEW mine \in Local,
         Goto(r, label), Keep(r, mine),
         UNCHANGED <<maps, home, slot, born, inst>>,
         row' \in SUBSET Configs, Single(row'),
         broken' \in SUBSET Instances, broken \subseteq broken',
         \/ row' = row /\ raced' = raced
         \/ /\ raced' = (raced \/ \E q \in Requests \ {r} : pc[q] \notin {"idle", "lookup", "stop"})
            /\ row' = row \/ raced \/ Live = 0 \/ inst[Live].state # "Running",
         HoldsOK(label, mine, maps, born),
         mine.got \in {0, loc[r].got, Live},
         label \in {"saveNew", "store", "deleteRow", "dropSlot"} =>
           /\ mine.got = loc[r].got /\ mine.map = loc[r].map
           /\ <<pc[r], label>> \in {<<"saveNew", "store">>, <<"deleteRow", "dropSlot">>},
         label \in Stopping \ {"stopped"} =>
           mine.got = 0 \/ (pc[r] \in Stopping \ {"stopped"} /\ mine.got = loc[r].got),
         Live # 0 /\ loc[r].got = Live /\ pc[r] \in WithStopped =>
           Live \in broken' \/ inst[Live].state # "Stopped",
         Live # 0 /\ loc[r].got = Live /\ pc[r] \in WithUnloaded =>
           \/ Live \in broken' \/ inst[Live].state # "Uninitialized"
           \/ label \in WithUnloaded /\ mine.got = Live,
         ~ raced' => KnowsOK(label, mine, row')
  PROVE  Inv'
<1>1. TypesInv /\ HoldsInv /\ PlaceInv /\ WornInv /\ StuckInv /\ KnowsInv /\ RowInv
  BY DEF Inv
<1>2. /\ pc' \in [Requests -> Labels] /\ loc' \in [Requests -> Local]
      /\ pc'[r] = label /\ loc'[r] = mine
      /\ \A q \in Requests \ {r} : pc'[q] = pc[q] /\ loc'[q] = loc[q]
  BY Moved
<1>3. Live' = Live /\ raced' \in BOOLEAN /\ (~ raced' => ~ raced)
  BY <1>1 DEF Live, TypesInv
<1> HIDE DEF Goto, Keep, Local, Labels, Instance, NoInstance
<1>4. TypesInv'
  BY <1>1, <1>2, <1>3 DEF TypesInv
<1>5. HoldsInv'
  BY <1>1, <1>2 DEF HoldsInv
<1>6. PlaceInv'
  <2>1. ASSUME NEW q \in Requests, pc'[q] \in {"deleteRow", "dropSlot"}
        PROVE  \A m \in Maps : slot'[m] = loc'[q].got => m = loc'[q].map
    BY <1>1, <1>2, <2>1 DEF PlaceInv
  <2>2. ASSUME NEW q \in Requests, pc'[q] \in {"saveNew", "store"}
        PROVE  /\ inst'[loc'[q].got].state = "Running"
               /\ \A m \in Maps : slot'[m] # loc'[q].got
               /\ \A p \in Requests \ {q} : loc'[p].got # loc'[q].got
    <3>1. pc[q] \in {"saveNew", "store"} /\ loc'[q].got = loc[q].got
      BY <1>2, <2>2
    <3>2. /\ inst[loc[q].got].state = "Running" /\ \A m \in Maps : slot[m] # loc[q].got
          /\ \A p \in Requests \ {q} : loc[p].got # loc[q].got
      BY <1>1, <3>1 DEF PlaceInv
    <3>3. loc[q].got # 0 /\ loc[q].got # Live
      BY <3>1, <3>2, LocalTypes, ManagerTypes DEF HoldsOK
    <3>4. ASSUME NEW p \in Requests \ {q}
          PROVE  loc'[p].got # loc[q].got
      BY <1>2, <3>2, <3>3
    <3>5. QED
      BY <3>1, <3>2, <3>4
  <2>3. QED
    BY <1>1, <2>1, <2>2 DEF PlaceInv
<1>7. WornInv'
  BY <1>1, <1>2 DEF WornInv
<1>8. StuckInv'
  <2>1. ASSUME Live # 0, inst[Live].state = "Stopped", Live \notin broken'
        PROVE  \E q \in Requests : pc'[q] \in WithStopped /\ loc'[q].got = Live
    <3>1. PICK q \in Requests : pc[q] \in WithStopped /\ loc[q].got = Live
      BY <1>1, <2>1 DEF StuckInv
    <3>2. q # r
      BY <2>1, <3>1
    <3>3. QED
      BY <1>2, <3>1, <3>2
  <2>2. ASSUME Live # 0, inst[Live].state = "Uninitialized", Live \notin broken'
        PROVE  \E q \in Requests : pc'[q] \in WithUnloaded /\ loc'[q].got = Live
    <3>1. PICK q \in Requests : pc[q] \in WithUnloaded /\ loc[q].got = Live
      BY <1>1, <2>2 DEF StuckInv
    <3>2. q = r => label \in WithUnloaded /\ mine.got = Live
      BY <2>2, <3>1
    <3>3. QED
      BY <1>2, <3>1, <3>2
  <2>3. QED
    BY <1>3, <2>1, <2>2 DEF StuckInv
<1>9. KnowsInv'
  <2> SUFFICES ASSUME ~ raced', NEW q \in Requests
               PROVE  KnowsOK(pc[q], loc[q], row)'
    BY DEF KnowsInv
  <2>1. CASE q = r
    BY <1>2, <1>3, <2>1 DEF KnowsOK
  <2>2. CASE q # r
    <3>1. KnowsOK(pc[q], loc[q], row)
      BY <1>1, <1>3 DEF KnowsInv
    <3>2. row' = row \/ pc[q] \in {"idle", "lookup", "stop"}
      BY <2>2
    <3>3. KnowsOK(pc[q], loc[q], row')
      BY <3>1, <3>2 DEF KnowsOK, Stopping
    <3>4. QED
      BY <1>2, <1>3, <2>2, <3>3 DEF KnowsOK
  <2>3. QED
    BY <2>1, <2>2
<1>10. RowInv'
  BY <1>1, <1>3 DEF RowInv
<1>11. QED
  BY <1>4, <1>5, <1>6, <1>7, <1>8, <1>9, <1>10 DEF Inv

\* A request is done, or has failed.
LEMMA Finishes ==
  ASSUME Inv, NEW r \in Requests, Finish(r), UNCHANGED shared,
         broken' \in SUBSET Instances, broken \subseteq broken',
         \/ raced' = raced
         \/ raced' = (raced \/ \E q \in Requests \ {r} : pc[q] \notin {"idle", "lookup", "stop"}),
         Live # 0 /\ loc[r].got = Live /\ pc[r] \in WithStopped =>
           Live \in broken' \/ inst[Live].state # "Stopped",
         Live # 0 /\ loc[r].got = Live /\ pc[r] \in WithUnloaded =>
           Live \in broken' \/ inst[Live].state # "Uninitialized"
  PROVE  Inv'
<1>1. Goto(r, "idle") /\ Keep(r, NoLocal)
  BY DEF Finish
<1>2. UNCHANGED <<row, maps, home, slot, born, inst>> /\ "idle" \in Labels
  BY DEF shared, Labels
<1>3. NoLocal \in Local /\ NoLocal.got = 0 /\ HoldsOK("idle", NoLocal, maps, born)
  BY NoLocalType, ManagerTypes DEF HoldsOK, Single
<1>4. KnowsOK("idle", NoLocal, row') /\ "idle" \notin Stopping
  BY DEF KnowsOK, Stopping
<1> HIDE DEF Goto, Keep, Inv, Local, Labels, NoLocal, Stopping, HoldsOK, KnowsOK
<1>5. row' \in SUBSET Configs /\ Single(row')
  BY <1>2, ManagerTypes
<1>6. QED
  BY <1>1, <1>2, <1>3, <1>4, <1>5, Moves

LEMMA Begins ==
  ASSUME Inv, NEW r \in Requests, NEW op \in Ops \ {"none"},
         NEW c \in {{}} \cup {{x} : x \in Configs}, Begin(r, op, c)
  PROVE  Inv'
<1>1. c \in SUBSET Configs /\ Single(c)
  BY DEF Single
<1>2. /\ pc[r] = "idle"
      /\ UNCHANGED <<row, maps, home, slot, born, inst>> /\ broken' = broken /\ raced' = raced
  BY DEF Begin, shared, Same
<1>3. /\ row' \in SUBSET Configs /\ Single(row') /\ broken' \in SUBSET Instances
  BY <1>2, ManagerTypes DEF Inv, TypesInv
<1>4. CASE op = "install"
  <2> DEFINE mine == [NoLocal EXCEPT !.op = op, !.config = c]
  <2>1. mine \in Local /\ mine.got = 0 /\ mine.config = c /\ mine.want = {} /\ mine.map = 0 /\ mine.lazy = FALSE
    BY <1>1, NoLocalType DEF Local
  <2>2. Goto(r, "findMap") /\ Keep(r, mine)
    BY <1>4 DEF Begin
  <2>3. HoldsOK("findMap", mine, maps, born) /\ KnowsOK("findMap", mine, row')
    BY <1>1, <2>1, ManagerTypes DEF HoldsOK, KnowsOK, Single, Stopping
  <2>4. "findMap" \in Labels /\ "findMap" \notin Stopping
    BY DEF Labels, Stopping
  <2> HIDE DEF mine, Goto, Keep, Inv, Local, Labels, Stopping, HoldsOK, KnowsOK
  <2>5. QED
    BY <1>2, <1>3, <2>1, <2>2, <2>3, <2>4, Moves DEF WithStopped, WithUnloaded
<1>5. CASE op # "install"
  <2> DEFINE mine == [NoLocal EXCEPT !.op = op, !.want = c]
  <2>1. mine \in Local /\ mine.got = 0 /\ mine.config = {} /\ mine.want = c /\ mine.map = 0
    BY <1>1, NoLocalType DEF Local
  <2>2. Goto(r, "lookup") /\ Keep(r, mine)
    BY <1>5 DEF Begin
  <2>3. HoldsOK("lookup", mine, maps, born) /\ KnowsOK("lookup", mine, row')
    BY <1>1, <2>1, ManagerTypes DEF HoldsOK, KnowsOK, Single, Stopping
  <2>4. "lookup" \in Labels /\ "lookup" \notin Stopping
    BY DEF Labels, Stopping
  <2> HIDE DEF mine, Goto, Keep, Inv, Local, Labels, Stopping, HoldsOK, KnowsOK
  <2>5. QED
    BY <1>2, <1>3, <2>1, <2>2, <2>3, <2>4, Moves DEF WithStopped, WithUnloaded
<1>6. QED
  BY <1>4, <1>5

\* A request takes a step of its own and keeps its locals.
LEMMA Steps ==
  ASSUME Inv, NEW r \in Requests, NEW label \in {"readRow", "unload", "save", "stopped", "makeMap"},
         Step(r, label), UNCHANGED shared, broken' = broken,
         pc[r] \in {"lookup", "readRow", "stop", "findMap"},
         \/ raced' = raced
         \/ raced' = (raced \/ \E q \in Requests \ {r} : pc[q] \notin {"idle", "lookup", "stop"}),
         label \in {"readRow", "unload", "save"} => loc[r].got = 0,
         label = "readRow" => Live = 0,
         label = "stopped" => pc[r] = "stop",
         ~ raced /\ label \in {"unload", "save", "makeMap"} => Live = 0,
         ~ raced /\ label = "makeMap" /\ loc[r].lazy => loc[r].config = row,
         ~ raced /\ label = "stopped" => Live = loc[r].got
  PROVE  Inv'
<1>1. PICK mine \in Local : mine = loc[r]
  BY ManagerTypes
<1>2. Goto(r, label) /\ Keep(r, mine)
  <2>1. loc' = loc /\ loc \in [Requests -> Local]
    BY DEF Step, Inv, TypesInv
  <2>2. loc' = [loc EXCEPT ![r] = mine]
    BY <1>1, <2>1
  <2>3. QED
    BY <2>2 DEF Step, Keep
<1>3. UNCHANGED <<row, maps, home, slot, born, inst>> /\ label \in Labels
  BY DEF shared, Labels, Stopping
<1>4. row' \in SUBSET Configs /\ Single(row') /\ broken' \in SUBSET Instances
  BY <1>3, ManagerTypes DEF Inv, TypesInv
<1>5. HoldsOK(label, mine, maps, born)
  BY <1>1, LocalTypes DEF HoldsOK
<1>6. ~ raced' => KnowsOK(label, mine, row')
  <2>1. SUFFICES ASSUME ~ raced' PROVE KnowsOK(label, mine, row)
    BY <1>3
  <2>2. ~ raced
    BY <2>1 DEF Inv, TypesInv
  <2>3. /\ label \in {"readRow", "unload", "save", "makeMap"} => Live = 0
        /\ label = "makeMap" /\ mine.lazy => mine.config = row
        /\ label = "stopped" => Live = mine.got
    BY <1>1, <2>2
  <2>4. QED
    BY <2>3 DEF KnowsOK, Stopping
<1>7. /\ label \notin {"saveNew", "store", "deleteRow", "dropSlot"}
      /\ label \in Stopping \ {"stopped"} => mine.got = 0
      /\ pc[r] \notin WithStopped \cup WithUnloaded
      /\ mine.got \in {0, loc[r].got, Live}
  BY <1>1 DEF WithStopped, WithUnloaded, Stopping
<1> HIDE DEF Goto, Keep, Inv, Local, Labels, Stopping, HoldsOK, KnowsOK, Step
<1>8. QED
  BY <1>2, <1>3, <1>4, <1>5, <1>6, <1>7, Moves

\* GetPlugin up to the map, and the first look of Stop.
LEMMA Looks ==
  ASSUME Inv, NEW r \in Requests, Lookup(r) \/ ReadRow(r) \/ Stop(r)
  PROVE  Inv'
<1>1. /\ UNCHANGED shared /\ broken' = broken /\ raced' = raced
      /\ pc[r] \in {"lookup", "readRow", "stop"}
  BY DEF Lookup, ReadRow, Stop, Same
<1>2. /\ broken' \in SUBSET Instances /\ pc[r] \notin WithStopped \cup WithUnloaded
      /\ UNCHANGED <<row, maps, home, slot, born, inst>>
  BY <1>1 DEF Inv, TypesInv, WithStopped, WithUnloaded, shared
<1>3. /\ pc[r] \in {"lookup", "readRow"} => loc[r].got = 0
      /\ ~ raced /\ pc[r] = "readRow" => Live = 0
      /\ ~ raced /\ pc[r] = "stop" /\ inst[loc[r].got].state = "Running" => Live = loc[r].got
  BY LocalTypes DEF HoldsOK, Inv, KnowsInv, KnowsOK
<1>4. row \in SUBSET Configs /\ Single(row)
  BY ManagerTypes
<1>5. CASE Finish(r)
  <2> HIDE DEF Finish, Inv
  <2>1. QED
    BY <1>1, <1>2, <1>5, Finishes
<1>6. ASSUME NEW label \in {"readRow", "unload", "save", "stopped"}, Step(r, label),
             label = "readRow" => Live = 0 /\ pc[r] = "lookup",
             label \in {"unload", "save"} => pc[r] = "readRow",
             label = "stopped" => pc[r] = "stop" /\ inst[loc[r].got].state = "Running"
      PROVE  Inv'
  <2> HIDE DEF Step, Inv, shared
  <2>1. QED
    BY <1>1, <1>3, <1>6, Steps
<1>7. CASE Lookup(r) /\ Live # 0 /\ loc[r].op # "use"
  <2>1. Live \in 0..MaxInstances /\ Live <= born
    BY ManagerTypes
  <2>2. PICK mine \in Local : /\ mine = [loc[r] EXCEPT !.got = Live, !.config = {}, !.lazy = FALSE]
                              /\ Fields(mine, {}, loc[r].want, Live, loc[r].map, FALSE)
    BY <2>1, LocalsMade, ManagerTypes
  <2>3. Goto(r, "stop") /\ Keep(r, mine)
    BY <1>7, <2>2 DEF Lookup, Found
  <2>4. HoldsOK("stop", mine, maps, born) /\ KnowsOK("stop", mine, row')
    BY <1>7, <2>1, <2>2, LocalTypes DEF HoldsOK, KnowsOK, Single, Fields, Stopping
  <2>5. "stop" \in Labels /\ "stop" \notin Stopping /\ mine.got = Live
    BY <2>2 DEF Labels, Stopping, Fields
  <2> HIDE DEF Goto, Keep, Inv, Local, Labels, Stopping, HoldsOK, KnowsOK
  <2>6. QED
    BY <1>1, <1>2, <1>4, <2>3, <2>4, <2>5, Moves
<1>8. CASE ReadRow(r) /\ Creatable /\ ~ NotFound(r)
  <2>1. PICK mine \in Local : /\ mine = [loc[r] EXCEPT !.config = row, !.lazy = TRUE]
                              /\ Fields(mine, row, loc[r].want, loc[r].got, loc[r].map, TRUE)
    BY <1>4, LocalsMade, ManagerTypes
  <2>2. Goto(r, "findMap") /\ Keep(r, mine) /\ pc[r] = "readRow"
    BY <1>8, <2>1 DEF ReadRow
  <2>3. HoldsOK("findMap", mine, maps, born)
    BY <1>4, <2>1, LocalTypes DEF HoldsOK, Fields
  <2>4. ~ raced' => KnowsOK("findMap", mine, row')
    BY <1>1, <1>2, <1>3, <2>1, <2>2 DEF KnowsOK, Stopping, Fields
  <2>5. "findMap" \in Labels /\ "findMap" \notin Stopping /\ mine.got = loc[r].got
    BY <2>1 DEF Labels, Stopping, Fields
  <2> HIDE DEF Goto, Keep, Inv, Local, Labels, Stopping, HoldsOK, KnowsOK
  <2>6. QED
    BY <1>1, <1>2, <1>4, <2>2, <2>3, <2>4, <2>5, Moves
<1>9. CASE Lookup(r)
  <2>1. CASE Live = 0
    <3>1. Step(r, "readRow") /\ pc[r] = "lookup"
      BY <1>9, <2>1 DEF Lookup
    <3> HIDE DEF Step, Inv
    <3>2. QED
      BY <1>6, <2>1, <3>1
  <2>2. CASE Live # 0 /\ loc[r].op = "use"
    BY <1>5, <1>9, <2>2 DEF Lookup, Found
  <2>3. QED
    BY <1>7, <1>9, <2>1, <2>2
<1>10. CASE ReadRow(r)
  <2>1. pc[r] = "readRow" /\ (NotFound(r) \/ Creatable)
    BY <1>10 DEF ReadRow
  <2>2. CASE NotFound(r)
    <3>1. Finish(r) \/ Step(r, "unload") \/ Step(r, "save")
      BY <2>2 DEF NotFound
    <3> HIDE DEF Step, Finish, Inv
    <3>2. QED
      BY <1>5, <1>6, <2>1, <3>1
  <2>3. QED
    BY <1>8, <1>10, <2>1, <2>2
<1>11. CASE Stop(r)
  <2>1. /\ pc[r] = "stop"
        /\ Finish(r) \/ (Step(r, "stopped") /\ inst[loc[r].got].state = "Running")
    BY <1>11 DEF Stop
  <2> HIDE DEF Step, Finish, Inv
  <2>2. QED
    BY <1>5, <1>6, <2>1
<1>12. QED
  BY <1>9, <1>10, <1>11

LEMMA Fails ==
  ASSUME Inv, NEW r \in Requests, Fail(r)
  PROVE  Inv'
<1>1. /\ Finish(r) /\ UNCHANGED shared /\ raced' = raced
      /\ pc[r] \in Stopping \ {"stopped"} => broken' = broken \cup ({loc[r].got} \ {0})
      /\ pc[r] \notin Stopping \ {"stopped"} => broken' = broken
  BY DEF Fail
<1>2. {loc[r].got} \ {0} \subseteq Instances
  BY LocalTypes, ManagerTypes DEF Instances
<1>3. broken' \in SUBSET Instances /\ broken \subseteq broken'
  BY <1>1, <1>2 DEF Inv, TypesInv
<1>4. Live # 0 /\ loc[r].got = Live /\ pc[r] \in WithStopped \cup WithUnloaded => Live \in broken'
  BY <1>1 DEF WithStopped, WithUnloaded, Stopping
<1> HIDE DEF Finish, Inv, shared
<1>5. QED
  BY <1>1, <1>3, <1>4, Finishes

\* A request that others have not overlapped writes the row: the map holds nothing,
\* or an instance that was stopped.
LEMMA WritesRow ==
  ASSUME Inv, NEW r \in Requests, SaveNew(r) \/ Save(r) \/ DeleteRow(r)
  PROVE  Inv'
<1>1. /\ UNCHANGED <<maps, home, slot, born, inst>> /\ broken' = broken
      /\ raced' = (raced \/ \E q \in Requests \ {r} : pc[q] \notin {"idle", "lookup", "stop"})
  BY DEF SaveNew, Save, DeleteRow, Changing
<1>2. broken' \in SUBSET Instances /\ (~ raced' => ~ raced) /\ raced \in BOOLEAN
  BY <1>1 DEF Inv, TypesInv
<1>3. ~ raced => KnowsOK(pc[r], loc[r], row)
  BY DEF Inv, KnowsInv
<1>4. pc[r] \in {"deleteRow", "dropSlot"} /\ Live = loc[r].got /\ Live # 0 => inst[Live].state # "Running"
  BY DEF Inv, WornInv, Stopping
<1>5. raced \/ Live = 0 \/ inst[Live].state # "Running"
  BY <1>2, <1>3, <1>4 DEF KnowsOK, SaveNew, Save, DeleteRow, Stopping
<1>6. CASE SaveNew(r)
  <2>1. PICK mine \in Local : /\ mine = [loc[r] EXCEPT !.config = loc[r].config, !.want = {}]
                              /\ Fields(mine, loc[r].config, {}, loc[r].got, loc[r].map, loc[r].lazy)
    BY LocalTypes, LocalsMade, ManagerTypes
  <2>2. Goto(r, "store") /\ Keep(r, mine) /\ pc[r] = "saveNew" /\ row' = loc[r].config
    BY <1>6, <2>1 DEF SaveNew, SaveConfig
  <2>3. HoldsOK("store", mine, maps, born)
    BY <2>1, <2>2, LocalTypes DEF HoldsOK, Fields, Single
  <2>4. ~ raced' => KnowsOK("store", mine, row')
    BY <1>2, <1>3, <2>1, <2>2 DEF KnowsOK, Stopping, Fields
  <2>5. /\ "store" \in Labels /\ "store" \notin Stopping /\ mine.got = loc[r].got /\ mine.map = loc[r].map
        /\ pc[r] \notin WithStopped \cup WithUnloaded
    BY <2>1, <2>2 DEF Labels, Stopping, Fields, WithStopped, WithUnloaded
  <2>6. row' \in SUBSET Configs /\ Single(row')
    BY <2>2, LocalTypes
  <2> HIDE DEF Goto, Keep, Inv, Local, Labels, Stopping, HoldsOK, KnowsOK
  <2>7. QED
    BY <1>1, <1>2, <1>5, <2>2, <2>3, <2>4, <2>5, <2>6, Moves
<1>7. CASE Save(r)
  <2>1. PICK mine \in Local : /\ mine = [loc[r] EXCEPT !.config = loc[r].want, !.want = {}]
                              /\ Fields(mine, loc[r].want, {}, loc[r].got, loc[r].map, loc[r].lazy)
    BY LocalTypes, LocalsMade, ManagerTypes
  <2>2. Goto(r, "findMap") /\ Keep(r, mine) /\ pc[r] = "save" /\ row' = loc[r].want
    BY <1>7, <2>1 DEF Save, SaveConfig
  <2>3. HoldsOK("findMap", mine, maps, born)
    BY <2>1, <2>2, LocalTypes DEF HoldsOK, Fields, Single
  <2>4. ~ raced' => KnowsOK("findMap", mine, row')
    BY <1>2, <1>3, <2>1, <2>2 DEF KnowsOK, Stopping, Fields
  <2>5. /\ "findMap" \in Labels /\ "findMap" \notin Stopping /\ mine.got = loc[r].got
        /\ pc[r] \notin WithStopped \cup WithUnloaded
    BY <2>1, <2>2 DEF Labels, Stopping, Fields, WithStopped, WithUnloaded
  <2>6. row' \in SUBSET Configs /\ Single(row')
    BY <2>2, LocalTypes
  <2> HIDE DEF Goto, Keep, Inv, Local, Labels, Stopping, HoldsOK, KnowsOK
  <2>7. QED
    BY <1>1, <1>2, <1>5, <2>2, <2>3, <2>4, <2>5, <2>6, Moves
<1>8. CASE DeleteRow(r)
  <2>1. PICK mine \in Local : mine = loc[r]
    BY ManagerTypes
  <2>2. Goto(r, "dropSlot") /\ Keep(r, mine) /\ pc[r] = "deleteRow" /\ row' = {}
    <3>1. loc' = loc /\ loc \in [Requests -> Local]
      BY <1>8 DEF DeleteRow, Step, Inv, TypesInv
    <3>2. loc' = [loc EXCEPT ![r] = mine]
      BY <2>1, <3>1
    <3>3. QED
      BY <1>8, <3>2 DEF DeleteRow, Step, Keep
  <2>3. HoldsOK("dropSlot", mine, maps, born)
    BY <2>1, <2>2, LocalTypes DEF HoldsOK
  <2>4. ~ raced' => KnowsOK("dropSlot", mine, row')
    BY <1>2, <1>3, <2>1, <2>2 DEF KnowsOK, Stopping
  <2>5. /\ "dropSlot" \in Labels /\ "deleteRow" \in Stopping \ {"stopped"}
        /\ "dropSlot" \in WithUnloaded /\ "deleteRow" \notin WithStopped
    BY DEF Labels, Stopping, WithStopped, WithUnloaded
  <2>6. row' \in SUBSET Configs /\ Single(row')
    BY <2>2 DEF Single
  <2> HIDE DEF Goto, Keep, Inv, Local, Labels, Stopping, HoldsOK, KnowsOK
  <2>7. QED
    BY <1>1, <1>2, <1>5, <2>1, <2>2, <2>3, <2>4, <2>5, <2>6, Moves
<1>9. QED
  BY <1>6, <1>7, <1>8

\* What a request stops or unloads is not an instance another has just made, and
\* the request goes where the new state of it is accounted for.
LEMMA Ends ==
  ASSUME Inv, NEW r \in Requests, NEW label \in Labels, NEW mine \in Local,
         Goto(r, label), Keep(r, mine),
         UNCHANGED <<row, maps, home, slot, born, broken, raced>>,
         NEW i \in 1..born, i \in {Live, loc[r].got},
         pc[r] \in {"stopped", "unloadOld", "unload"},
         inst' \in [Instances -> Instance],
         \A j \in Instances \ {i} : inst'[j] = inst[j],
         mine.got = i, HoldsOK(label, mine, maps, born),
         \/ inst'[i].state = "Stopped" /\ label \in WithStopped
         \/ inst'[i].state = "Uninitialized" /\ label \in {"drop", "deleteRow"},
         Live # i => pc[r] = "stopped" \/ loc[r].got # Live,
         label = "deleteRow" => Live = i /\ mine.map = home
  PROVE  Inv'
<1>1. TypesInv /\ HoldsInv /\ PlaceInv /\ WornInv /\ StuckInv /\ KnowsInv /\ RowInv
  BY DEF Inv
<1>2. /\ pc' \in [Requests -> Labels] /\ loc' \in [Requests -> Local]
      /\ pc'[r] = label /\ loc'[r] = mine
      /\ \A q \in Requests \ {r} : pc'[q] = pc[q] /\ loc'[q] = loc[q]
  BY Moved
<1>3. Live' = Live /\ i \in Instances
  BY ManagerTypes DEF Live
<1>4. label \in {"unloadOld", "unload", "drop", "deleteRow"}
  BY DEF WithStopped
<1>5. \A q \in Requests : pc[q] \in {"saveNew", "store"} => i # loc[q].got
  <2>1. ASSUME NEW q \in Requests, pc[q] \in {"saveNew", "store"}
        PROVE  i # loc[q].got
    <3>1. /\ \A m \in Maps : slot[m] # loc[q].got
          /\ \A p \in Requests \ {q} : loc[p].got # loc[q].got
      BY <1>1, <2>1 DEF PlaceInv
    <3>2. i # 0 /\ (i = Live => \E m \in Maps : slot[m] = i) /\ r # q
      BY <2>1, ManagerTypes
    <3>3. QED
      BY <3>1, <3>2
  <2>2. QED
    BY <2>1
<1>6. \A q \in Requests : loc[q].got \in Instances \cup {0} /\ (loc[q].got = 0 \/ loc[q].got \in 1..born)
  BY LocalTypes, ManagerTypes DEF Instances
<1> HIDE DEF Goto, Keep, Local, Labels, Instance, NoInstance
<1>7. TypesInv'
  BY <1>1, <1>2, <1>3 DEF TypesInv
<1>8. HoldsInv'
  BY <1>1, <1>2 DEF HoldsInv
<1>9. PlaceInv'
  <2>1. ASSUME NEW q \in Requests, pc'[q] \in {"deleteRow", "dropSlot"}
        PROVE  \A m \in Maps : slot'[m] = loc'[q].got => m = loc'[q].map
    <3>1. CASE q = r
      <4>1. loc'[q].got = i /\ Live = i /\ loc'[q].map = home
        BY <1>2, <1>4, <2>1, <3>1
      <4>2. home \in Maps /\ slot[home] = i /\ i # 0
        BY <4>1, ManagerTypes
      <4>3. QED
        BY <1>1, <4>1, <4>2 DEF PlaceInv
    <3>2. CASE q # r
      BY <1>1, <1>2, <2>1, <3>2 DEF PlaceInv
    <3>3. QED
      BY <3>1, <3>2
  <2>2. ASSUME NEW q \in Requests, pc'[q] \in {"saveNew", "store"}
        PROVE  /\ inst'[loc'[q].got].state = "Running"
               /\ \A m \in Maps : slot'[m] # loc'[q].got
               /\ \A p \in Requests \ {q} : loc'[p].got # loc'[q].got
    <3>1. q # r /\ pc[q] \in {"saveNew", "store"} /\ loc'[q].got = loc[q].got
      BY <1>2, <1>4, <2>2
    <3>2. /\ inst[loc[q].got].state = "Running" /\ \A m \in Maps : slot[m] # loc[q].got
          /\ \A p \in Requests \ {q} : loc[p].got # loc[q].got
      BY <1>1, <3>1 DEF PlaceInv
    <3>3. i # loc[q].got
      BY <1>5, <3>1
    <3>4. loc[q].got \in Instances
      BY <1>6, <3>1, LocalTypes DEF HoldsOK
    <3>5. \A p \in Requests \ {q} : loc'[p].got # loc[q].got
      BY <1>2, <3>2, <3>3
    <3>6. QED
      BY <3>1, <3>2, <3>3, <3>4, <3>5
  <2>3. QED
    BY <1>1, <2>1, <2>2 DEF PlaceInv
<1>10. WornInv'
  <2>1. ASSUME NEW q \in Requests, pc'[q] \in Stopping \ {"stopped"}, loc'[q].got # 0
        PROVE  inst'[loc'[q].got].state # "Running"
    <3>1. CASE q = r
      BY <1>2, <3>1
    <3>2. CASE q # r
      <4>1. inst[loc[q].got].state # "Running" /\ loc[q].got \in Instances /\ loc'[q].got = loc[q].got
        BY <1>1, <1>2, <1>6, <2>1, <3>2 DEF WornInv
      <4>2. QED
        BY <4>1
    <3>3. QED
      BY <3>1, <3>2
  <2>2. QED
    BY <2>1 DEF WornInv
<1>11. StuckInv'
  <2>1. CASE Live = i
    BY <1>2, <1>3, <2>1 DEF StuckInv, WithUnloaded
  <2>2. CASE Live # i
    <3>1. Live # 0 => inst'[Live] = inst[Live]
      BY <2>2, ManagerTypes
    <3>2. \A q \in Requests : pc[q] \in WithStopped \cup WithUnloaded /\ loc[q].got = Live =>
            pc'[q] = pc[q] /\ loc'[q].got = Live
      BY <1>2, <2>2 DEF WithStopped, WithUnloaded
    <3>3. QED
      BY <1>1, <1>3, <3>1, <3>2 DEF StuckInv
  <2>3. QED
    BY <2>1, <2>2
<1>12. KnowsInv'
  <2> SUFFICES ASSUME ~ raced, NEW q \in Requests
               PROVE  KnowsOK(pc[q], loc[q], row)'
    BY DEF KnowsInv
  <2>1. CASE q = r
    <3>1. Live \in {0, loc[r].got}
      BY <1>1 DEF KnowsInv, KnowsOK, Stopping
    <3>2. Live \in {0, i}
      BY <3>1
    <3>3. QED
      BY <1>2, <1>3, <1>4, <2>1, <3>2 DEF KnowsOK
  <2>2. CASE q # r
    <3>1. KnowsOK(pc[q], loc[q], row)
      BY <1>1 DEF KnowsInv
    <3>2. pc[q] \in {"saveNew", "store"} => inst'[loc[q].got] = inst[loc[q].got]
      BY <1>5, <1>6, LocalTypes DEF HoldsOK
    <3>3. pc[q] = "stop" /\ inst[loc[q].got].state # "Running" => inst'[loc[q].got].state # "Running"
      BY <1>6, LocalTypes DEF HoldsOK
    <3>4. QED
      BY <1>2, <1>3, <2>2, <3>1, <3>2, <3>3 DEF KnowsOK
  <2>3. QED
    BY <2>1, <2>2
<1>13. RowInv'
  <2>1. Live = i => inst'[Live].state # "Running"
    OBVIOUS
  <2>2. Live # i /\ Live # 0 => inst'[Live] = inst[Live]
    BY ManagerTypes
  <2>3. QED
    BY <1>1, <1>3, <2>1, <2>2 DEF RowInv
<1>14. QED
  BY <1>7, <1>8, <1>9, <1>10, <1>11, <1>12, <1>13 DEF Inv

\* What Stop and Unload do to the instance.
LEMMA Changed ==
  ASSUME Inv, NEW i \in 1..born
  PROVE  /\ [inst EXCEPT ![i].state = "Stopped"] \in [Instances -> Instance]
         /\ [inst EXCEPT ![i].state = "Stopped"][i].state = "Stopped"
         /\ \A j \in Instances \ {i} : [inst EXCEPT ![i].state = "Stopped"][j] = inst[j]
         /\ Unloaded(i, TRUE) => /\ inst[i].state = "Stopped"
                                 /\ inst' \in [Instances -> Instance] /\ inst'[i].state = "Uninitialized"
                                 /\ \A j \in Instances \ {i} : inst'[j] = inst[j]
         /\ Unloaded(i, FALSE) => /\ inst[i].state = "Running" /\ inst'[i].state = "Running"
                                  /\ inst' \in [Instances -> Instance]
                                  /\ \A j \in Instances \ {i} : inst'[j] = inst[j]
<1>1. inst \in [Instances -> Instance] /\ i \in Instances
  BY ManagerTypes DEF Inv, TypesInv
<1>2. inst[i] \in Instance /\ inst[i].state \in {"Uninitialized", "Running", "Stopped"}
  BY <1>1, ManagerTypes
<1>3. /\ [inst EXCEPT ![i].state = "Stopped"] \in [Instances -> Instance]
      /\ [inst EXCEPT ![i].state = "Stopped"][i].state = "Stopped"
      /\ \A j \in Instances \ {i} : [inst EXCEPT ![i].state = "Stopped"][j] = inst[j]
  <2>1. [inst[i] EXCEPT !.state = "Stopped"] \in Instance
        /\ [inst[i] EXCEPT !.state = "Stopped"].state = "Stopped"
    BY <1>2 DEF Instance, States
  <2> HIDE DEF Instance
  <2>2. QED
    BY <1>1, <2>1
<1>4. \A b \in BOOLEAN : Unloaded(i, b) =>
        /\ inst[i].state # "Uninitialized"
        /\ b = (<<inst[i].state, "Uninitialized">> \in Valid)
        /\ inst' \in [Instances -> Instance]
        /\ inst'[i].state = IF b THEN "Uninitialized" ELSE inst[i].state
        /\ \A j \in Instances \ {i} : inst'[j] = inst[j]
  <2> SUFFICES ASSUME NEW b \in BOOLEAN, Unloaded(i, b)
               PROVE  /\ inst' \in [Instances -> Instance]
                      /\ inst'[i].state = IF b THEN "Uninitialized" ELSE inst[i].state
                      /\ \A j \in Instances \ {i} : inst'[j] = inst[j]
    BY DEF Unloaded
  <2> DEFINE s == IF b THEN "Uninitialized" ELSE inst[i].state
             f == [inst EXCEPT ![i].config = {}]
  <2>1. f \in [Instances -> Instance] /\ f[i].state = inst[i].state
        /\ \A j \in Instances \ {i} : f[j] = inst[j]
    <3>1. [inst[i] EXCEPT !.config = {}] \in Instance
          /\ [inst[i] EXCEPT !.config = {}].state = inst[i].state
      BY <1>2 DEF Instance
    <3> HIDE DEF Instance
    <3>2. QED
      BY <1>1, <3>1
  <2>2. inst' = [f EXCEPT ![i].state = s]
    <3>1. inst' = [f EXCEPT ![i].state = IF b THEN "Uninitialized" ELSE f[i].state]
      BY DEF Unloaded
    <3>2. QED
      BY <2>1, <3>1
  <2> HIDE DEF f
  <2>3. s \in States
    BY <1>2 DEF States
  <2> HIDE DEF s
  <2>4. [f[i] EXCEPT !.state = s] \in Instance /\ [f[i] EXCEPT !.state = s].state = s
    <3>1. f[i] \in Instance
      BY <1>1, <2>1
    <3>2. QED
      BY <2>3, <3>1 DEF Instance
  <2>5. inst' \in [Instances -> Instance] /\ inst'[i].state = s
        /\ \A j \in Instances \ {i} : inst'[j] = inst[j]
    <3> HIDE DEF Instance
    <3>1. QED
      BY <1>1, <2>1, <2>2, <2>4
  <2>6. QED
    BY <2>5 DEF s
<1>5. QED
  BY <1>2, <1>3, <1>4 DEF Valid

\* r keeps its locals.
LEMMA KeepsLocals ==
  ASSUME Inv, NEW r \in Requests, NEW label, Step(r, label)
  PROVE  \E mine \in Local : mine = loc[r] /\ Goto(r, label) /\ Keep(r, mine)
<1>1. loc' = loc /\ loc \in [Requests -> Local]
  BY DEF Step, Inv, TypesInv
<1>2. PICK mine \in Local : mine = loc[r]
  BY <1>1
<1>3. loc' = [loc EXCEPT ![r] = mine]
  BY <1>1, <1>2
<1>4. QED
  BY <1>2, <1>3 DEF Step, Keep

LEMMA StopsInstance ==
  ASSUME Inv, NEW r \in Requests, Stopped(r)
  PROVE  Inv'
<1>1. /\ pc[r] = "stopped" /\ UNCHANGED <<row, maps, home, slot, born, broken, raced>>
      /\ inst' = [inst EXCEPT ![loc[r].got].state = "Stopped"]
  BY DEF Stopped, Same
<1>2. HoldsOK("stopped", loc[r], maps, born) /\ loc[r].got \in 0..born
  BY <1>1, LocalTypes
<1>3. PICK i \in 1..born : i = loc[r].got
  BY <1>2, ManagerTypes DEF HoldsOK
<1>4. /\ inst' \in [Instances -> Instance] /\ inst'[i].state = "Stopped"
      /\ \A j \in Instances \ {i} : inst'[j] = inst[j]
  <2>1. inst' = [inst EXCEPT ![i].state = "Stopped"]
    BY <1>1, <1>3
  <2> DEFINE f == [inst EXCEPT ![i].state = "Stopped"]
  <2>2. /\ f \in [Instances -> Instance] /\ f[i].state = "Stopped"
        /\ \A j \in Instances \ {i} : f[j] = inst[j]
    BY Changed, Zenon
  <2> HIDE DEF f, Instance
  <2>3. inst' = f
    BY <2>1 DEF f
  <2>4. QED
    BY <2>2, <2>3
<1>5. PICK label \in WithStopped : Step(r, label)
  BY DEF Stopped, WithStopped
<1>6. PICK mine \in Local : mine = loc[r] /\ Goto(r, label) /\ Keep(r, mine)
  <2> HIDE DEF Step, Goto, Keep, Local, Inv
  <2>1. QED
    BY <1>5, KeepsLocals
<1>7. label \in Labels /\ label # "deleteRow" /\ HoldsOK(label, mine, maps, born)
  BY <1>2, <1>6 DEF WithStopped, Labels, Stopping, HoldsOK
<1> HIDE DEF Goto, Keep, Inv, Local, Labels, Instance, HoldsOK
<1>8. QED
  BY <1>1, <1>3, <1>4, <1>5, <1>6, <1>7, Ends

LEMMA UnloadsOld ==
  ASSUME Inv, NEW r \in Requests, UnloadOld(r)
  PROVE  Inv'
<1>1. /\ pc[r] = "unloadOld" /\ UNCHANGED <<row, maps, home, slot, born, broken, raced>>
      /\ \/ Unloaded(loc[r].got, TRUE) /\ Step(r, "drop")
         \/ Unloaded(loc[r].got, FALSE) /\ Finish(r)
         \/ inst[loc[r].got].state = "Uninitialized" /\ Finish(r) /\ inst' = inst
  BY DEF UnloadOld, Same
<1>2. HoldsOK("unloadOld", loc[r], maps, born) /\ loc[r].got \in 0..born
  BY <1>1, LocalTypes
<1>3. PICK i \in 1..born : i = loc[r].got
  BY <1>2, ManagerTypes DEF HoldsOK
<1>4. inst[i].state # "Running"
  BY <1>1, <1>3 DEF Inv, WornInv, Stopping
<1>5. CASE Unloaded(i, TRUE) /\ Step(r, "drop")
  <2>1. /\ inst' \in [Instances -> Instance] /\ inst'[i].state = "Uninitialized"
        /\ \A j \in Instances \ {i} : inst'[j] = inst[j]
    BY <1>5, Changed
  <2>2. PICK mine \in Local : mine = loc[r] /\ Goto(r, "drop") /\ Keep(r, mine)
    <3> HIDE DEF Step, Goto, Keep, Local, Inv
    <3>1. QED
      BY <1>5, KeepsLocals
  <2>3. "drop" \in Labels /\ HoldsOK("drop", mine, maps, born)
    BY <1>2, <2>2 DEF Labels, Stopping, HoldsOK
  <2> HIDE DEF Goto, Keep, Inv, Local, Labels, Instance, HoldsOK, Unloaded
  <2>4. QED
    BY <1>1, <1>3, <2>1, <2>2, <2>3, Ends
<1>6. CASE Unloaded(i, FALSE)
  BY <1>4, <1>6, Changed
<1>7. CASE inst[i].state = "Uninitialized" /\ Finish(r) /\ inst' = inst
  <2>1. UNCHANGED shared /\ broken' \in SUBSET Instances
    BY <1>1, <1>7 DEF shared, Inv, TypesInv
  <2> HIDE DEF Finish, Inv, shared
  <2>2. QED
    BY <1>1, <1>3, <1>7, <2>1, Finishes DEF WithUnloaded
<1>8. QED
  BY <1>1, <1>3, <1>5, <1>6, <1>7

\* Unload finds an instance that another request has put there: what it has not
\* stopped loses its configuration, and runs on.
LEMMA UnloadsRunning ==
  ASSUME Inv, NEW r \in Requests, pc[r] = "unload", Live # 0, Unloaded(Live, FALSE), Finish(r),
         UNCHANGED <<row, maps, home, slot, born, broken, raced>>
  PROVE  Inv'
<1>1. TypesInv /\ HoldsInv /\ PlaceInv /\ WornInv /\ StuckInv /\ KnowsInv /\ RowInv
  BY DEF Inv
<1>2. PICK i \in 1..born : i = Live
  BY ManagerTypes
<1>3. /\ inst[i].state = "Running" /\ inst'[i].state = "Running" /\ inst' \in [Instances -> Instance]
      /\ \A j \in Instances \ {i} : inst'[j] = inst[j]
  BY <1>2, Changed
<1>4. /\ pc' \in [Requests -> Labels] /\ loc' \in [Requests -> Local]
      /\ pc'[r] = "idle" /\ loc'[r] = NoLocal
      /\ \A q \in Requests \ {r} : pc'[q] = pc[q] /\ loc'[q] = loc[q]
  <2>1. "idle" \in Labels /\ NoLocal \in Local /\ Goto(r, "idle") /\ Keep(r, NoLocal)
    BY NoLocalType DEF Labels, Finish
  <2> HIDE DEF Labels, Local, NoLocal, Goto, Keep, Inv
  <2>2. QED
    BY <2>1, Moved
<1>5. Live' = Live /\ \A j \in Instances : inst'[j].state = inst[j].state
  BY <1>3 DEF Live
<1>6. raced
  <2>1. Live = loc[r].got => inst[Live].state # "Running"
    BY <1>1 DEF WornInv, Stopping
  <2>2. ~ raced => Live = loc[r].got
    BY <1>1 DEF KnowsInv, KnowsOK, Stopping
  <2>3. QED
    BY <1>2, <1>3, <2>1, <2>2
<1>7. \A q \in Requests : loc[q].got = 0 \/ loc[q].got \in Instances
  BY LocalTypes, ManagerTypes DEF Instances
<1> HIDE DEF Local, Labels, Instance, NoInstance, NoLocal
<1>8. TypesInv'
  BY <1>1, <1>2, <1>3, <1>4, ManagerTypes DEF TypesInv
<1>9. HoldsInv'
  <2>1. HoldsOK("idle", NoLocal, maps, born)
    BY NoLocalType, ManagerTypes DEF HoldsOK, Single
  <2>2. QED
    BY <1>1, <1>4, <2>1 DEF HoldsInv
<1>10. PlaceInv'
  <2>1. ASSUME NEW q \in Requests, pc'[q] \in {"deleteRow", "dropSlot"}
        PROVE  \A m \in Maps : slot'[m] = loc'[q].got => m = loc'[q].map
    BY <1>1, <1>4, <2>1 DEF PlaceInv
  <2>2. ASSUME NEW q \in Requests, pc'[q] \in {"saveNew", "store"}
        PROVE  /\ inst'[loc'[q].got].state = "Running"
               /\ \A m \in Maps : slot'[m] # loc'[q].got
               /\ \A p \in Requests \ {q} : loc'[p].got # loc'[q].got
    <3>1. q # r /\ pc[q] \in {"saveNew", "store"} /\ loc'[q].got = loc[q].got /\ loc[q].got # 0
      BY <1>4, <2>2, LocalTypes DEF HoldsOK
    <3>2. /\ inst[loc[q].got].state = "Running" /\ \A m \in Maps : slot[m] # loc[q].got
          /\ \A p \in Requests \ {q} : loc[p].got # loc[q].got
      BY <1>1, <3>1 DEF PlaceInv
    <3>3. QED
      BY <1>4, <1>5, <1>7, <3>1, <3>2, NoLocalType
  <2>3. QED
    BY <1>1, <2>1, <2>2 DEF PlaceInv
<1>11. WornInv'
  BY <1>1, <1>4, <1>5, <1>7, NoLocalType DEF WornInv
<1>12. StuckInv'
  BY <1>2, <1>3, <1>5 DEF StuckInv
<1>13. QED
  BY <1>6, <1>8, <1>9, <1>10, <1>11, <1>12 DEF Inv, KnowsInv, RowInv

LEMMA Unloads ==
  ASSUME Inv, NEW r \in Requests, Unload(r)
  PROVE  Inv'
<1>1. /\ pc[r] = "unload" /\ UNCHANGED <<row, maps, home, slot, born, broken, raced>>
      /\ Live = 0 => Finish(r) /\ inst' = inst
      /\ Live # 0 =>
           \/ /\ Unloaded(Live, TRUE)
              /\ Goto(r, "deleteRow") /\ Keep(r, [loc[r] EXCEPT !.map = home, !.got = Live])
           \/ Unloaded(Live, FALSE) /\ Finish(r)
           \/ inst[Live].state = "Uninitialized" /\ Finish(r) /\ inst' = inst
  BY DEF Unload, Same
<1>2. CASE Finish(r) /\ inst' = inst /\ (Live = 0 \/ inst[Live].state = "Uninitialized")
  <2>1. UNCHANGED shared /\ broken' \in SUBSET Instances
    BY <1>1, <1>2 DEF shared, Inv, TypesInv
  <2> HIDE DEF Finish, Inv, shared
  <2>2. QED
    BY <1>1, <1>2, <2>1, Finishes DEF WithUnloaded
<1>3. CASE Live # 0 /\ Unloaded(Live, FALSE) /\ Finish(r)
  BY <1>1, <1>3, UnloadsRunning
<1>4. CASE /\ Live # 0 /\ Unloaded(Live, TRUE)
           /\ Goto(r, "deleteRow") /\ Keep(r, [loc[r] EXCEPT !.map = home, !.got = Live])
  <2>1. PICK i \in 1..born : i = Live
    BY <1>4, ManagerTypes
  <2>2. /\ inst' \in [Instances -> Instance] /\ inst'[i].state = "Uninitialized"
        /\ \A j \in Instances \ {i} : inst'[j] = inst[j]
    BY <1>4, <2>1, Changed
  <2>3. home \in 0..MaxMaps /\ i \in 0..MaxInstances /\ home # 0
    BY <1>4, <2>1, ManagerTypes
  <2>4. PICK mine \in Local : /\ mine = [loc[r] EXCEPT !.map = home, !.got = i]
                              /\ Fields(mine, loc[r].config, loc[r].want, i, home, loc[r].lazy)
    BY <2>3, LocalsMade, ManagerTypes
  <2>5. Goto(r, "deleteRow") /\ Keep(r, mine)
    BY <1>4, <2>1, <2>4
  <2>6. HoldsOK("deleteRow", mine, maps, born)
    BY <2>1, <2>3, <2>4, LocalTypes, ManagerTypes DEF HoldsOK, Fields
  <2>7. "deleteRow" \in Labels /\ mine.got = i /\ mine.map = home
    BY <2>4 DEF Labels, Stopping, Fields
  <2> HIDE DEF Goto, Keep, Inv, Local, Labels, Instance, HoldsOK, Unloaded
  <2>8. QED
    BY <1>1, <2>1, <2>2, <2>5, <2>6, <2>7, Ends
<1>5. QED
  BY <1>1, <1>2, <1>3, <1>4

\* Of the requests that a change finds at a standstill, those about to stop an
\* instance know whether it is the one in the map.
LEMMA Others ==
  ASSUME Inv, NEW r \in Requests,
         raced' = (raced \/ \E q \in Requests \ {r} : pc[q] \notin {"idle", "lookup", "stop"})
  PROVE  /\ raced' \in BOOLEAN /\ (~ raced' => ~ raced)
         /\ ~ raced' => \A q \in Requests \ {r} :
              /\ pc[q] \in {"idle", "lookup", "stop"}
              /\ pc[q] = "stop" => /\ loc[q].got \in 1..born
                                   /\ inst[loc[q].got].state # "Running" \/ Live = loc[q].got
         /\ \A q \in Requests \ {r} : pc[q] = "stop" => loc[q].got \in Instances
<1>1. raced \in BOOLEAN
  BY DEF Inv, TypesInv
<1>2. ~ raced => \A q \in Requests : KnowsOK(pc[q], loc[q], row)
  BY DEF Inv, KnowsInv
<1>3. \A q \in Requests : pc[q] = "stop" => loc[q].got \in 1..born /\ loc[q].got \in Instances
  BY LocalTypes, ManagerTypes DEF HoldsOK
<1>4. QED
  BY <1>1, <1>2, <1>3 DEF KnowsOK

\* A slot is emptied.
LEMMA Empties ==
  ASSUME Inv, NEW r \in Requests, NEW label \in {"idle", "save"}, NEW mine \in Local,
         Goto(r, label), Keep(r, mine), mine.got = 0, HoldsOK(label, mine, maps, born),
         UNCHANGED <<row, maps, home, born, inst, broken>>,
         raced' = (raced \/ \E q \in Requests \ {r} : pc[q] \notin {"idle", "lookup", "stop"}),
         NEW m \in Maps, slot' = [slot EXCEPT ![m] = 0],
         pc[r] \in {"drop", "dropSlot"},
         label = "save" \/ Live = loc[r].got \/ ~ raced => m = home
  PROVE  Inv'
<1>1. TypesInv /\ HoldsInv /\ PlaceInv /\ WornInv /\ StuckInv /\ KnowsInv /\ RowInv
  BY DEF Inv
<1>2. /\ pc' \in [Requests -> Labels] /\ loc' \in [Requests -> Local]
      /\ pc'[r] = label /\ loc'[r] = mine
      /\ \A q \in Requests \ {r} : pc'[q] = pc[q] /\ loc'[q] = loc[q]
  <2>1. label \in Labels
    BY DEF Labels
  <2> HIDE DEF Labels, Local, Goto, Keep, Inv
  <2>2. QED
    BY <2>1, Moved
<1>3. slot' \in [Maps -> 0..born] /\ \A n \in Maps : slot'[n] = IF n = m THEN 0 ELSE slot[n]
  BY <1>1, ManagerTypes DEF TypesInv
<1>4. (m = home => Live' = 0) /\ (m # home => Live' = Live)
  BY <1>3, ManagerTypes DEF Live, Maps
<1> HIDE DEF Goto, Keep, Local, Labels, Instance, NoInstance
<1>5. TypesInv'
  BY <1>1, <1>2, <1>3, Others DEF TypesInv
<1>6. HoldsInv'
  BY <1>1, <1>2 DEF HoldsInv
<1>7. PlaceInv'
  <2>1. \A n, k \in Maps : n # k /\ slot'[n] # 0 => slot'[n] # slot'[k]
    BY <1>1, <1>3 DEF PlaceInv
  <2>2. ASSUME NEW q \in Requests, pc'[q] \in {"deleteRow", "dropSlot"}
        PROVE  \A n \in Maps : slot'[n] = loc'[q].got => n = loc'[q].map
    <3>1. q # r /\ pc[q] \in {"deleteRow", "dropSlot"} /\ loc'[q] = loc[q] /\ loc[q].got # 0
      BY <1>2, <2>2, LocalTypes DEF HoldsOK
    <3>2. QED
      BY <1>1, <1>3, <3>1 DEF PlaceInv
  <2>3. ASSUME NEW q \in Requests, pc'[q] \in {"saveNew", "store"}
        PROVE  /\ inst'[loc'[q].got].state = "Running"
               /\ \A n \in Maps : slot'[n] # loc'[q].got
               /\ \A p \in Requests \ {q} : loc'[p].got # loc'[q].got
    <3>1. q # r /\ pc[q] \in {"saveNew", "store"} /\ loc'[q] = loc[q] /\ loc[q].got # 0
      BY <1>2, <2>3, LocalTypes DEF HoldsOK
    <3>2. /\ inst[loc[q].got].state = "Running" /\ \A n \in Maps : slot[n] # loc[q].got
          /\ \A p \in Requests \ {q} : loc[p].got # loc[q].got
      BY <1>1, <3>1 DEF PlaceInv
    <3>3. QED
      BY <1>2, <1>3, <3>1, <3>2
  <2>4. QED
    BY <2>1, <2>2, <2>3 DEF PlaceInv
<1>8. WornInv'
  BY <1>1, <1>2 DEF WornInv
<1>9. StuckInv'
  <2>1. CASE m = home
    BY <1>4, <2>1 DEF StuckInv
  <2>2. CASE m # home
    <3>1. \A q \in Requests : loc[q].got = Live => q # r
      BY <2>2
    <3>2. QED
      BY <1>1, <1>2, <1>4, <2>2, <3>1 DEF StuckInv
  <2>3. QED
    BY <2>1, <2>2
<1>10. KnowsInv'
  <2> SUFFICES ASSUME ~ raced', NEW q \in Requests
               PROVE  KnowsOK(pc[q], loc[q], row)'
    BY DEF KnowsInv
  <2>1. ~ raced /\ m = home /\ Live' = 0
    BY <1>4, Others
  <2>2. CASE q = r
    BY <1>2, <2>1, <2>2 DEF KnowsOK, Stopping
  <2>3. CASE q # r
    <3>1. /\ pc[q] \in {"idle", "lookup", "stop"} /\ pc'[q] = pc[q] /\ loc'[q] = loc[q]
          /\ pc[q] = "stop" => loc[q].got \in 1..born /\ (inst[loc[q].got].state # "Running" \/ Live = loc[q].got)
      BY <1>2, <2>3, Others
    <3>2. Live = loc[r].got /\ Live # 0 => inst[Live].state # "Running"
      BY <1>1 DEF WornInv, Stopping
    <3>3. Live \in {0, loc[r].got}
      BY <1>1, <2>1 DEF KnowsInv, KnowsOK, Stopping
    <3>4. pc[q] = "stop" => inst[loc[q].got].state # "Running"
      BY <3>1, <3>2, <3>3
    <3>5. QED
      BY <3>1, <3>4 DEF KnowsOK, Stopping
  <2>4. QED
    BY <2>2, <2>3
<1>11. RowInv'
  BY <1>4, Others DEF RowInv
<1>12. QED
  BY <1>5, <1>6, <1>7, <1>8, <1>9, <1>10, <1>11 DEF Inv

LEMMA Drops ==
  ASSUME Inv, NEW r \in Requests, Drop(r) \/ DropSlot(r)
  PROVE  Inv'
<1>1. /\ UNCHANGED <<row, maps, home, born, inst, broken>>
      /\ raced' = (raced \/ \E q \in Requests \ {r} : pc[q] \notin {"idle", "lookup", "stop"})
  BY DEF Drop, DropSlot, Changing
<1>2. CASE DropSlot(r)
  <2>1. /\ pc[r] = "dropSlot" /\ slot' = [slot EXCEPT ![loc[r].map] = 0]
        /\ Goto(r, "idle") /\ Keep(r, NoLocal)
    BY <1>2 DEF DropSlot, Finish
  <2>2. loc[r].got \in 1..born /\ loc[r].map \in Maps
    BY <2>1, LocalTypes, ManagerTypes DEF HoldsOK, Maps
  <2>3. PICK m \in Maps : m = loc[r].map
    BY <2>2
  <2>4. Live = loc[r].got \/ ~ raced => m = home
    <3>1. Live = loc[r].got => m = home
      BY <2>1, <2>2, <2>3, ManagerTypes DEF Inv, PlaceInv
    <3>2. ~ raced => m = home
      BY <2>1, <2>3 DEF Inv, KnowsInv, KnowsOK
    <3>3. QED
      BY <3>1, <3>2
  <2>5. NoLocal \in Local /\ NoLocal.got = 0 /\ HoldsOK("idle", NoLocal, maps, born)
    BY NoLocalType, ManagerTypes DEF HoldsOK, Single
  <2>6. slot' = [slot EXCEPT ![m] = 0]
    BY <2>1, <2>3
  <2> HIDE DEF Goto, Keep, Inv, Local, NoLocal, HoldsOK
  <2>7. QED
    BY <1>1, <2>1, <2>4, <2>5, <2>6, Empties
<1>3. CASE Drop(r)
  <2>1. /\ pc[r] = "drop" /\ Goto(r, "save") /\ Keep(r, [loc[r] EXCEPT !.got = 0])
        /\ home # 0 => slot' = [slot EXCEPT ![home] = 0]
        /\ home = 0 => slot' = slot
    BY <1>3 DEF Drop
  <2>2. PICK mine \in Local : /\ mine = [loc[r] EXCEPT !.got = 0]
                              /\ Fields(mine, loc[r].config, loc[r].want, 0, loc[r].map, loc[r].lazy)
    BY LocalsMade, ManagerTypes
  <2>3. Keep(r, mine) /\ mine.got = 0
    BY <2>1, <2>2 DEF Fields
  <2>4. HoldsOK("save", mine, maps, born)
    BY <2>2, LocalTypes, ManagerTypes DEF HoldsOK, Fields
  <2>5. CASE home # 0
    <3>1. PICK m \in Maps : m = home
      BY <2>5, ManagerTypes
    <3>2. slot' = [slot EXCEPT ![m] = 0]
      BY <2>1, <2>5, <3>1
    <3> HIDE DEF Goto, Keep, Inv, Local, HoldsOK
    <3>3. QED
      BY <1>1, <2>1, <2>3, <2>4, <3>1, <3>2, Empties
  <2>6. CASE home = 0
    <3>1. Live = 0 /\ UNCHANGED <<maps, home, slot, born, inst>>
      BY <1>1, <2>1, <2>6, ManagerTypes
    <3>2. /\ row' \in SUBSET Configs /\ Single(row') /\ broken' \in SUBSET Instances
          /\ "save" \in Labels /\ "save" \notin Stopping
      BY <1>1, ManagerTypes DEF Inv, TypesInv, Labels, Stopping
    <3>3. KnowsOK("save", mine, row')
      BY <3>1 DEF KnowsOK, Stopping
    <3> HIDE DEF Goto, Keep, Inv, Local, HoldsOK, KnowsOK, Labels, Stopping
    <3>4. QED
      BY <1>1, <2>1, <2>3, <2>4, <3>1, <3>2, <3>3, Moves
  <2>7. QED
    BY <2>5, <2>6
<1>4. QED
  BY <1>2, <1>3

\* A request puts the instance it has made into its map.
LEMMA Stores ==
  ASSUME Inv, NEW r \in Requests, Store(r)
  PROVE  Inv'
<1>1. TypesInv /\ HoldsInv /\ PlaceInv /\ WornInv /\ StuckInv /\ KnowsInv /\ RowInv
  BY DEF Inv
<1>2. /\ pc[r] = "store" /\ slot' = [slot EXCEPT ![loc[r].map] = loc[r].got]
      /\ UNCHANGED <<row, maps, home, born, inst, broken>>
      /\ raced' = (raced \/ \E q \in Requests \ {r} : pc[q] \notin {"idle", "lookup", "stop"})
      /\ Goto(r, "idle") /\ Keep(r, NoLocal)
  BY DEF Store, Changing, Finish
<1>3. loc[r].got \in 1..born /\ loc[r].map \in Maps /\ loc[r].map <= maps
  BY <1>2, LocalTypes, ManagerTypes DEF HoldsOK, Maps
<1>4. PICK x \in 1..born, m \in Maps : x = loc[r].got /\ m = loc[r].map /\ m <= maps
  BY <1>3
<1>5. /\ pc' \in [Requests -> Labels] /\ loc' \in [Requests -> Local]
      /\ pc'[r] = "idle" /\ loc'[r] = NoLocal
      /\ \A q \in Requests \ {r} : pc'[q] = pc[q] /\ loc'[q] = loc[q]
  <2>1. "idle" \in Labels /\ NoLocal \in Local
    BY NoLocalType DEF Labels
  <2> HIDE DEF Labels, Local, NoLocal, Goto, Keep, Inv
  <2>2. QED
    BY <1>2, <2>1, Moved
<1>6. slot' \in [Maps -> 0..born] /\ \A n \in Maps : slot'[n] = IF n = m THEN x ELSE slot[n]
  BY <1>1, <1>2, <1>4, ManagerTypes DEF TypesInv
<1>7. (m = home => Live' = x) /\ (m # home => Live' = Live)
  BY <1>2, <1>6, ManagerTypes DEF Live, Maps
<1>8. /\ inst[x].state = "Running" /\ \A n \in Maps : slot[n] # x
      /\ \A q \in Requests \ {r} : loc[q].got # x
  BY <1>1, <1>2, <1>4 DEF PlaceInv
<1> HIDE DEF Goto, Keep, Local, Labels, Instance, NoInstance, NoLocal
<1>9. TypesInv'
  <2>1. \A n \in Maps : n > maps => slot'[n] = 0
    BY <1>4, <1>6, ManagerTypes DEF Maps
  <2>2. QED
    BY <1>1, <1>2, <1>5, <1>6, <2>1, Others DEF TypesInv
<1>10. HoldsInv'
  <2>1. HoldsOK("idle", NoLocal, maps, born)
    BY NoLocalType, ManagerTypes DEF HoldsOK, Single
  <2>2. QED
    BY <1>1, <1>2, <1>5, <2>1 DEF HoldsInv
<1>11. PlaceInv'
  <2>1. \A n, k \in Maps : n # k /\ slot'[n] # 0 => slot'[n] # slot'[k]
    BY <1>1, <1>6, <1>8 DEF PlaceInv
  <2>2. ASSUME NEW q \in Requests, pc'[q] \in {"deleteRow", "dropSlot"}
        PROVE  \A n \in Maps : slot'[n] = loc'[q].got => n = loc'[q].map
    <3>1. q # r /\ pc[q] \in {"deleteRow", "dropSlot"} /\ loc'[q] = loc[q]
      BY <1>5, <2>2
    <3>2. QED
      BY <1>1, <1>6, <1>8, <3>1 DEF PlaceInv
  <2>3. ASSUME NEW q \in Requests, pc'[q] \in {"saveNew", "store"}
        PROVE  /\ inst'[loc'[q].got].state = "Running"
               /\ \A n \in Maps : slot'[n] # loc'[q].got
               /\ \A p \in Requests \ {q} : loc'[p].got # loc'[q].got
    <3>1. q # r /\ pc[q] \in {"saveNew", "store"} /\ loc'[q] = loc[q] /\ loc[q].got # 0
      BY <1>5, <2>3, LocalTypes DEF HoldsOK
    <3>2. /\ inst[loc[q].got].state = "Running" /\ \A n \in Maps : slot[n] # loc[q].got
          /\ \A p \in Requests \ {q} : loc[p].got # loc[q].got
      BY <1>1, <3>1 DEF PlaceInv
    <3>3. QED
      BY <1>2, <1>5, <1>6, <1>8, <3>1, <3>2, NoLocalType
  <2>4. QED
    BY <2>1, <2>2, <2>3 DEF PlaceInv
<1>12. WornInv'
  BY <1>1, <1>2, <1>5, NoLocalType DEF WornInv
<1>13. StuckInv'
  <2>1. CASE m = home
    BY <1>2, <1>7, <1>8, <2>1 DEF StuckInv
  <2>2. CASE m # home
    BY <1>1, <1>2, <1>5, <1>7, <2>2 DEF StuckInv, WithStopped, WithUnloaded
  <2>3. QED
    BY <2>1, <2>2
<1>14. KnowsInv'
  <2> SUFFICES ASSUME ~ raced', NEW q \in Requests
               PROVE  KnowsOK(pc[q], loc[q], row)'
    BY DEF KnowsInv
  <2>1. Live = 0
    BY <1>1, <1>2, Others DEF KnowsInv, KnowsOK
  <2>2. CASE q = r
    BY <1>5, <2>2 DEF KnowsOK, Stopping
  <2>3. CASE q # r
    <3>1. /\ pc[q] \in {"idle", "lookup", "stop"} /\ pc'[q] = pc[q] /\ loc'[q] = loc[q]
          /\ pc[q] = "stop" => inst[loc[q].got].state # "Running"
      BY <1>2, <1>5, <2>1, <2>3, Others
    <3>2. QED
      BY <1>2, <3>1 DEF KnowsOK, Stopping
  <2>4. QED
    BY <2>2, <2>3
<1>15. RowInv'
  <2>1. ~ raced => inst[x].config = row /\ Live = 0
    BY <1>1, <1>2, <1>4 DEF KnowsInv, KnowsOK
  <2>2. QED
    BY <1>2, <1>7, <2>1, Others DEF RowInv
<1>16. QED
  BY <1>9, <1>10, <1>11, <1>12, <1>13, <1>14, <1>15 DEF Inv

\* The map that r enters is the application's: the one it found, or a new one.
Enters(r, m) ==
  /\ pc[r] \in {"findMap", "makeMap"}
  /\ \/ m = home /\ UNCHANGED <<maps, home>>
     \/ pc[r] = "makeMap" /\ m = maps + 1 /\ maps' = m /\ home' = m
  /\ UNCHANGED <<row, broken>>
  /\ raced' = (raced \/ \E q \in Requests \ {r} : pc[q] \notin {"idle", "lookup", "stop"})

LEMMA Entered ==
  ASSUME Inv, NEW r \in Requests, NEW m \in Maps, Enters(r, m)
  PROVE  /\ maps' \in 0..MaxMaps /\ home' = maps' /\ home' = m /\ m \in 1..maps' /\ maps' >= maps
         /\ Live' = slot'[m] /\ row' = row /\ broken' = broken
         /\ raced' \in BOOLEAN /\ (~ raced' => ~ raced)
         /\ m # home => slot[m] = 0
         /\ ~ raced /\ (loc[r].lazy \/ slot[m] = 0) => Live = 0
<1>1. /\ maps' \in 0..MaxMaps /\ home' = maps' /\ home' = m /\ m \in 1..maps' /\ maps' >= maps
      /\ m # home => slot[m] = 0
  BY ManagerTypes DEF Enters, Maps
<1>2. Live' = slot'[m]
  BY <1>1 DEF Live
<1>3. ~ raced => KnowsOK(pc[r], loc[r], row)
  BY DEF Inv, KnowsInv
<1>4. ~ raced /\ (loc[r].lazy \/ slot[m] = 0) => Live = 0
  BY <1>3, ManagerTypes DEF Enters, KnowsOK
<1>5. QED
  BY <1>1, <1>2, <1>4, Others DEF Enters

\* It makes an instance, and stores it or goes on to save the configuration.
LEMMA Makes ==
  ASSUME Inv, NEW r \in Requests, NEW m \in Maps, Enters(r, m), New(loc[r].config),
         NEW label \in {"idle", "stop", "saveNew"}, NEW mine \in Local, Goto(r, label), Keep(r, mine),
         HoldsOK(label, mine, maps', born'), mine.got \in {0, born + 1},
         label \in {"stop", "saveNew"} => mine.got = born + 1,
         \/ loc[r].lazy /\ slot' = [slot EXCEPT ![m] = born + 1] /\ label \in {"idle", "stop"}
         \/ slot[m] = 0 /\ slot' = slot /\ label = "saveNew" /\ mine.config = loc[r].config
  PROVE  Inv'
<1>1. TypesInv /\ HoldsInv /\ PlaceInv /\ WornInv /\ StuckInv /\ KnowsInv /\ RowInv
  BY DEF Inv
<1>2. PICK x \in Instances : x = born + 1
  BY ManagerTypes DEF New, Instances
<1>3. /\ pc' \in [Requests -> Labels] /\ loc' \in [Requests -> Local]
      /\ pc'[r] = label /\ loc'[r] = mine
      /\ \A q \in Requests \ {r} : pc'[q] = pc[q] /\ loc'[q] = loc[q]
  <2>1. label \in Labels
    BY DEF Labels
  <2> HIDE DEF Labels, Local, Goto, Keep, Inv
  <2>2. QED
    BY <2>1, Moved
<1>4. /\ born' = x /\ inst' \in [Instances -> Instance]
      /\ inst'[x].state = "Running" /\ inst'[x].config = loc[r].config
      /\ \A i \in Instances \ {x} : inst'[i] = inst[i]
  <2>1. Started(loc[r].config) \in Instance
    BY LocalTypes DEF Started, Instance, States
  <2>2. inst \in [Instances -> Instance]
    BY <1>1 DEF TypesInv
  <2>3. inst' = [inst EXCEPT ![x] = Started(loc[r].config)] /\ born' = x
    BY <1>2 DEF New
  <2> HIDE DEF Instance
  <2>4. QED
    BY <2>1, <2>2, <2>3 DEF Started
<1>5. \A q \in Requests : /\ loc[q].got # x /\ loc[q].got \in 0..born
                          /\ loc[q].got # 0 => loc[q].got \in Instances
                          /\ HoldsOK(pc[q], loc[q], maps, born)
  BY <1>2, LocalTypes, ManagerTypes DEF Instances
<1>6. pc[r] \in {"findMap", "makeMap"}
  BY DEF Enters
<1>7. /\ slot' \in [Maps -> 0..x]
      /\ \A n \in Maps : slot[n] \in 0..born /\ slot[n] # x
      /\ \A n \in Maps \ {m} : slot'[n] = slot[n]
      /\ slot'[m] \in {0, x}
      /\ \/ loc[r].lazy /\ label \in {"idle", "stop"} /\ slot'[m] = x
         \/ label = "saveNew" /\ slot' = slot /\ slot[m] = 0 /\ mine.config = loc[r].config
  <2>1. slot \in [Maps -> 0..born] /\ \A n \in Maps : slot[n] \in 0..born /\ slot[n] # x
    BY <1>1, <1>2, ManagerTypes DEF TypesInv
  <2>2. slot \in [Maps -> 0..x]
    BY <1>2, <2>1, ManagerTypes
  <2>3. CASE loc[r].lazy /\ slot' = [slot EXCEPT ![m] = born + 1] /\ label \in {"idle", "stop"}
    <3>1. x \in 0..x /\ slot' = [slot EXCEPT ![m] = x]
      BY <1>2, <2>3, ManagerTypes
    <3>2. QED
      BY <2>1, <2>2, <2>3, <3>1
  <2>4. CASE slot[m] = 0 /\ slot' = slot /\ label = "saveNew" /\ mine.config = loc[r].config
    BY <2>1, <2>2, <2>4
  <2>5. QED
    BY <2>3, <2>4
<1>8. mine.got \in {0, x} /\ (label \in {"stop", "saveNew"} => mine.got = x) /\ x # 0
  BY <1>2 DEF Instances
<1>9. /\ maps' \in 0..MaxMaps /\ home' = maps' /\ home' = m /\ m \in 1..maps' /\ maps' >= maps
      /\ Live' = slot'[m] /\ row' = row /\ broken' = broken
      /\ raced' \in BOOLEAN /\ (~ raced' => ~ raced)
      /\ ~ raced => Live = 0
  BY <1>7, Entered
<1> HIDE DEF Goto, Keep, Local, Labels, Instance, NoInstance, New, Enters
<1>10. TypesInv'
  <2>1. \A n \in Maps : n > maps' => slot'[n] = 0
    BY <1>7, <1>9, ManagerTypes DEF Maps
  <2>2. \A i \in Instances : i > x => inst'[i] = NoInstance
    BY <1>1, <1>2, <1>4, ManagerTypes DEF TypesInv, Instances
  <2>3. \A i \in Instances : inst'[i].state \in {"Uninitialized", "Running", "Stopped"}
    BY <1>1, <1>4 DEF TypesInv
  <2>4. x \in 0..MaxInstances
    BY ManagerTypes DEF Instances
  <2>5. QED
    BY <1>1, <1>3, <1>4, <1>7, <1>9, <2>1, <2>2, <2>3, <2>4 DEF TypesInv
<1>11. HoldsInv'
  <2>1. ASSUME NEW q \in Requests \ {r}
        PROVE  HoldsOK(pc[q], loc[q], maps', born')
    BY <1>2, <1>4, <1>5, <1>9, LocalTypes, ManagerTypes DEF HoldsOK
  <2>2. QED
    BY <1>3, <2>1 DEF HoldsInv
<1>12. PlaceInv'
  <2>1. \A n, k \in Maps : n # k /\ slot'[n] # 0 => slot'[n] # slot'[k]
    BY <1>1, <1>7 DEF PlaceInv
  <2>2. ASSUME NEW q \in Requests, pc'[q] \in {"deleteRow", "dropSlot"}
        PROVE  \A n \in Maps : slot'[n] = loc'[q].got => n = loc'[q].map
    <3>1. q # r /\ pc[q] \in {"deleteRow", "dropSlot"} /\ loc'[q] = loc[q] /\ loc[q].got # 0
      BY <1>3, <1>5, <2>2 DEF HoldsOK
    <3>2. QED
      BY <1>1, <1>5, <1>7, <3>1 DEF PlaceInv
  <2>3. ASSUME NEW q \in Requests, pc'[q] \in {"saveNew", "store"}
        PROVE  /\ inst'[loc'[q].got].state = "Running"
               /\ \A n \in Maps : slot'[n] # loc'[q].got
               /\ \A p \in Requests \ {q} : loc'[p].got # loc'[q].got
    <3>1. CASE q = r
      <4>1. loc'[q].got = x /\ slot' = slot
        BY <1>3, <1>7, <1>8, <2>3, <3>1
      <4>2. QED
        BY <1>3, <1>4, <1>5, <1>7, <3>1, <4>1
    <3>2. CASE q # r
      <4>1. pc[q] \in {"saveNew", "store"} /\ loc'[q] = loc[q] /\ loc[q].got # 0
        BY <1>3, <1>5, <2>3, <3>2 DEF HoldsOK
      <4>2. /\ inst[loc[q].got].state = "Running" /\ \A n \in Maps : slot[n] # loc[q].got
            /\ \A p \in Requests \ {q} : loc[p].got # loc[q].got
        BY <1>1, <4>1 DEF PlaceInv
      <4>3. \A p \in Requests \ {q} : loc'[p].got # loc[q].got
        BY <1>3, <1>5, <1>8, <4>1, <4>2
      <4>4. QED
        BY <1>4, <1>5, <1>7, <4>1, <4>2, <4>3
    <3>3. QED
      BY <3>1, <3>2
  <2>4. QED
    BY <2>1, <2>2, <2>3 DEF PlaceInv
<1>13. WornInv'
  <2>1. label \notin Stopping
    BY DEF Stopping
  <2>2. QED
    BY <1>1, <1>3, <1>4, <1>5, <2>1 DEF WornInv
<1>14. StuckInv'
  BY <1>4, <1>7, <1>9 DEF StuckInv
<1>15. KnowsInv'
  <2> SUFFICES ASSUME ~ raced', NEW q \in Requests
               PROVE  KnowsOK(pc[q], loc[q], row)'
    BY DEF KnowsInv
  <2>1. CASE q = r
    BY <1>3, <1>4, <1>7, <1>8, <1>9, <2>1 DEF KnowsOK, Stopping
  <2>2. CASE q # r
    <3>1. /\ pc[q] \in {"idle", "lookup", "stop"} /\ pc'[q] = pc[q] /\ loc'[q] = loc[q]
          /\ pc[q] = "stop" => inst[loc[q].got].state # "Running" /\ loc[q].got \in Instances
      BY <1>3, <1>9, <2>2, Others, ManagerTypes DEF Enters
    <3>2. pc[q] = "stop" => inst'[loc[q].got].state # "Running"
      BY <1>4, <1>5, <3>1
    <3>3. QED
      BY <3>1, <3>2 DEF KnowsOK, Stopping
  <2>3. QED
    BY <2>1, <2>2
<1>16. RowInv'
  <2>1. ~ raced /\ loc[r].lazy => loc[r].config = row
    BY <1>1, <1>6 DEF KnowsInv, KnowsOK
  <2>2. QED
    BY <1>4, <1>7, <1>9, <2>1 DEF RowInv
<1>17. QED
  BY <1>10, <1>11, <1>12, <1>13, <1>14, <1>15, <1>16 DEF Inv

\* It makes the map, and no instance: the configuration does not load.
LEMMA MakesMap ==
  ASSUME Inv, NEW r \in Requests, NEW m \in Maps, Enters(r, m), slot[m] = 0, Finish(r),
         UNCHANGED <<slot, born, inst>>
  PROVE  Inv'
<1>1. TypesInv /\ HoldsInv /\ PlaceInv /\ WornInv /\ StuckInv /\ KnowsInv /\ RowInv
  BY DEF Inv
<1>2. /\ pc' \in [Requests -> Labels] /\ loc' \in [Requests -> Local]
      /\ pc'[r] = "idle" /\ loc'[r] = NoLocal
      /\ \A q \in Requests \ {r} : pc'[q] = pc[q] /\ loc'[q] = loc[q]
  <2>1. "idle" \in Labels /\ NoLocal \in Local /\ Goto(r, "idle") /\ Keep(r, NoLocal)
    BY NoLocalType DEF Labels, Finish
  <2> HIDE DEF Labels, Local, NoLocal, Goto, Keep, Inv
  <2>2. QED
    BY <2>1, Moved
<1>3. /\ maps' \in 0..MaxMaps /\ home' = maps' /\ home' = m /\ m \in 1..maps' /\ maps' >= maps
      /\ Live' = 0 /\ row' = row /\ broken' = broken
      /\ raced' \in BOOLEAN /\ (~ raced' => ~ raced)
      /\ ~ raced => Live = 0
  BY Entered
<1> HIDE DEF Finish, Local, Labels, Instance, NoInstance, NoLocal
<1>4. TypesInv'
  <2>1. \A n \in Maps : n > maps' => slot'[n] = 0
    BY <1>3, ManagerTypes DEF Maps
  <2>2. QED
    BY <1>1, <1>2, <1>3, <2>1 DEF TypesInv
<1>5. HoldsInv'
  <2>1. HoldsOK("idle", NoLocal, maps', born)
    BY <1>3, NoLocalType, ManagerTypes DEF HoldsOK, Single
  <2>2. ASSUME NEW q \in Requests \ {r}
        PROVE  HoldsOK(pc[q], loc[q], maps', born)
    BY <1>3, LocalTypes, ManagerTypes DEF HoldsOK
  <2>3. QED
    BY <1>2, <2>1, <2>2 DEF HoldsInv
<1>6. PlaceInv'
  <2>1. ASSUME NEW q \in Requests, pc'[q] \in {"saveNew", "store"}
        PROVE  /\ inst'[loc'[q].got].state = "Running"
               /\ \A n \in Maps : slot'[n] # loc'[q].got
               /\ \A p \in Requests \ {q} : loc'[p].got # loc'[q].got
    <3>1. q # r /\ pc[q] \in {"saveNew", "store"} /\ loc'[q] = loc[q] /\ loc[q].got # 0
      BY <1>2, <2>1, LocalTypes DEF HoldsOK
    <3>2. /\ inst[loc[q].got].state = "Running" /\ \A n \in Maps : slot[n] # loc[q].got
          /\ \A p \in Requests \ {q} : loc[p].got # loc[q].got
      BY <1>1, <3>1 DEF PlaceInv
    <3>3. QED
      BY <1>2, <3>1, <3>2, NoLocalType
  <2>2. ASSUME NEW q \in Requests, pc'[q] \in {"deleteRow", "dropSlot"}
        PROVE  \A n \in Maps : slot'[n] = loc'[q].got => n = loc'[q].map
    BY <1>1, <1>2, <2>2 DEF PlaceInv
  <2>3. QED
    BY <1>1, <2>1, <2>2 DEF PlaceInv
<1>7. WornInv'
  BY <1>1, <1>2, NoLocalType DEF WornInv
<1>8. StuckInv' /\ RowInv'
  BY <1>3 DEF StuckInv, RowInv
<1>9. KnowsInv'
  <2> SUFFICES ASSUME ~ raced', NEW q \in Requests
               PROVE  KnowsOK(pc[q], loc[q], row)'
    BY DEF KnowsInv
  <2>1. CASE q = r
    BY <1>2, <2>1 DEF KnowsOK, Stopping
  <2>2. CASE q # r
    <3>1. /\ pc[q] \in {"idle", "lookup", "stop"} /\ pc'[q] = pc[q] /\ loc'[q] = loc[q]
          /\ pc[q] = "stop" => inst[loc[q].got].state # "Running"
      BY <1>2, <1>3, <2>2, Others, ManagerTypes DEF Enters
    <3>2. QED
      BY <3>1 DEF KnowsOK, Stopping
  <2>3. QED
    BY <2>1, <2>2
<1>10. QED
  BY <1>4, <1>5, <1>6, <1>7, <1>8, <1>9 DEF Inv

LEMMA EntersMap ==
  ASSUME Inv, NEW r \in Requests, NEW m \in Maps, Enters(r, m), Enter(r, m)
  PROVE  Inv'
<1>1. /\ maps' \in Nat /\ maps <= maps' /\ m <= maps' /\ m # 0 /\ m \in 0..MaxMaps
      /\ Inv => HoldsOK(pc[r], loc[r], maps, born)
  BY Entered, LocalTypes, ManagerTypes DEF Maps
<1>2. CASE loc[r].lazy
  <2>1. /\ New(loc[r].config) /\ slot' = [slot EXCEPT ![m] = born + 1] /\ Found(r, born + 1)
    BY <1>2 DEF Enter
  <2>2. born + 1 \in 0..MaxInstances /\ born' = born + 1
    BY <2>1, ManagerTypes DEF New
  <2>3. CASE Finish(r)
    <3>1. Goto(r, "idle") /\ Keep(r, NoLocal)
      BY <2>3 DEF Finish
    <3>2. NoLocal \in Local /\ NoLocal.got = 0 /\ HoldsOK("idle", NoLocal, maps', born')
      BY <1>1, <2>2, NoLocalType, ManagerTypes DEF HoldsOK, Single
    <3> HIDE DEF Goto, Keep, Inv, Local, NoLocal, HoldsOK, Enters, Enter, New
    <3>3. QED
      BY <1>2, <2>1, <3>1, <3>2, Makes
  <2>4. CASE Goto(r, "stop") /\ Keep(r, [loc[r] EXCEPT !.got = born + 1, !.config = {}, !.lazy = FALSE])
    <3>1. PICK mine \in Local :
            /\ mine = [loc[r] EXCEPT !.got = born + 1, !.config = {}, !.lazy = FALSE]
            /\ Fields(mine, {}, loc[r].want, born + 1, loc[r].map, FALSE)
      BY <2>2, LocalsMade, ManagerTypes
    <3>2. Goto(r, "stop") /\ Keep(r, mine) /\ mine.got = born + 1
      BY <2>4, <3>1 DEF Fields
    <3>3. HoldsOK("stop", mine, maps', born')
      BY <1>1, <2>2, <3>1, LocalTypes, ManagerTypes DEF HoldsOK, Single, Fields
    <3> HIDE DEF Goto, Keep, Inv, Local, HoldsOK, Enters, Enter, New
    <3>4. QED
      BY <1>2, <2>1, <3>2, <3>3, Makes
  <2>5. QED
    BY <2>1, <2>3, <2>4 DEF Found
<1>3. CASE ~ loc[r].lazy /\ (slot[m] # 0 \/ loc[r].config \subseteq Bad)
  <2>1. Finish(r) /\ UNCHANGED <<slot, born, inst>>
    BY <1>3 DEF Enter
  <2>2. CASE slot[m] = 0
    BY <2>1, <2>2, MakesMap
  <2>3. CASE slot[m] # 0
    <3>1. m = home /\ UNCHANGED shared
      BY <2>1, <2>3, Entered, ManagerTypes DEF Enters, shared
    <3>2. /\ broken' \in SUBSET Instances /\ broken' = broken
          /\ pc[r] \notin WithStopped \cup WithUnloaded
          /\ raced' = (raced \/ \E q \in Requests \ {r} : pc[q] \notin {"idle", "lookup", "stop"})
      BY DEF Enters, WithStopped, WithUnloaded, Inv, TypesInv
    <3> HIDE DEF Finish, Inv, shared
    <3>3. QED
      BY <2>1, <3>1, <3>2, Finishes
  <2>4. QED
    BY <2>2, <2>3
<1>4. CASE ~ loc[r].lazy /\ slot[m] = 0 /\ ~ loc[r].config \subseteq Bad
  <2>1. /\ New(loc[r].config) /\ slot' = slot
        /\ Goto(r, "saveNew") /\ Keep(r, [loc[r] EXCEPT !.map = m, !.got = born + 1])
    BY <1>4 DEF Enter
  <2>2. born + 1 \in 0..MaxInstances /\ born' = born + 1
    BY <2>1, ManagerTypes DEF New
  <2>3. PICK mine \in Local : /\ mine = [loc[r] EXCEPT !.map = m, !.got = born + 1]
                              /\ Fields(mine, loc[r].config, loc[r].want, born + 1, m, loc[r].lazy)
    BY <1>1, <2>2, LocalsMade, ManagerTypes
  <2>4. Keep(r, mine) /\ mine.got = born + 1 /\ mine.config = loc[r].config
    BY <2>1, <2>3 DEF Fields
  <2>5. HoldsOK("saveNew", mine, maps', born')
    BY <1>1, <2>2, <2>3, LocalTypes, ManagerTypes DEF HoldsOK, Fields
  <2> HIDE DEF Goto, Keep, Inv, Local, HoldsOK, Enters, Enter, New
  <2>6. QED
    BY <1>4, <2>1, <2>4, <2>5, Makes
<1>5. QED
  BY <1>2, <1>3, <1>4

LEMMA FindsMap ==
  ASSUME Inv, NEW r \in Requests, FindMap(r) \/ MakeMap(r)
  PROVE  Inv'
<1>1. CASE FindMap(r) /\ home = 0
  <2>1. /\ pc[r] = "findMap" /\ Step(r, "makeMap") /\ UNCHANGED shared /\ broken' = broken
        /\ raced' = (raced \/ \E q \in Requests \ {r} : pc[q] \notin {"idle", "lookup", "stop"})
    BY <1>1 DEF FindMap, Changing, shared
  <2>2. Live = 0 /\ (~ raced /\ loc[r].lazy => loc[r].config = row)
    BY <1>1, <2>1, ManagerTypes DEF Inv, KnowsInv, KnowsOK
  <2> HIDE DEF Step, Inv, shared
  <2>3. QED
    BY <2>1, <2>2, Steps
<1>2. CASE FindMap(r) /\ home # 0
  <2>1. PICK m \in Maps : m = home
    BY <1>2, ManagerTypes
  <2>2. Enters(r, m) /\ Enter(r, m)
    BY <1>2, <2>1 DEF FindMap, Changing, Enters
  <2> HIDE DEF Inv, Enter, Enters
  <2>3. QED
    BY <2>2, EntersMap
<1>3. CASE MakeMap(r)
  <2>1. PICK m \in Maps : m = maps + 1
    BY <1>3, ManagerTypes DEF MakeMap, Maps
  <2>2. Enters(r, m) /\ Enter(r, m)
    BY <1>3, <2>1 DEF MakeMap, Changing, Enters
  <2> HIDE DEF Inv, Enter, Enters
  <2>3. QED
    BY <2>2, EntersMap
<1>4. QED
  BY <1>1, <1>2, <1>3

Fresh == row \subseteq Configs /\ Single(row) /\ NoMemory

LEMMA ManagerStarts == Fresh => Inv
<1> SUFFICES ASSUME Fresh PROVE Inv
  OBVIOUS
<1>1. /\ maps = 0 /\ home = 0 /\ born = 0 /\ slot = [m \in Maps |-> 0]
      /\ inst = [i \in Instances |-> NoInstance]
      /\ pc = [r \in Requests |-> "idle"] /\ loc = [r \in Requests |-> NoLocal]
      /\ broken = {} /\ raced = FALSE /\ row \subseteq Configs /\ Single(row)
  BY DEF Fresh, NoMemory
<1>2. TypesInv
  <2>1. NoInstance \in Instance /\ NoInstance.state = "Uninitialized" /\ "idle" \in Labels
    BY DEF NoInstance, Instance, States, Labels
  <2>2. 0 \in 0..MaxMaps /\ 0 \in 0..MaxInstances /\ 0 \in 0..0
    BY PluginAssumption
  <2> HIDE DEF Instance, NoInstance, Labels, Local, NoLocal
  <2>3. /\ slot \in [Maps -> 0..0] /\ \A m \in Maps : slot[m] = 0
        /\ inst \in [Instances -> Instance] /\ \A i \in Instances : inst[i] = NoInstance
        /\ pc \in [Requests -> Labels] /\ loc \in [Requests -> Local]
    BY <1>1, <2>1, <2>2, NoLocalType
  <2>4. QED
    BY <1>1, <2>1, <2>2, <2>3 DEF TypesInv
<1>3. HoldsInv
  BY <1>1, NoLocalType DEF HoldsInv, HoldsOK, Single
<1>4. PlaceInv /\ WornInv /\ StuckInv /\ KnowsInv /\ RowInv
  BY <1>1 DEF PlaceInv, WornInv, StuckInv, KnowsInv, KnowsOK, RowInv, Live, Stopping
<1>5. QED
  BY <1>2, <1>3, <1>4 DEF Inv

LEMMA ManagerInit == Init => Inv
BY ManagerStarts DEF Init, Fresh, Single

\* A restart leaves the row.
LEMMA Restarts == Inv /\ Restart => Inv'
<1>1. Inv /\ Restart => Fresh'
  <2>1. Inv => row \subseteq Configs /\ Single(row)
    BY ManagerTypes
  <2>2. QED
    BY <2>1 DEF Restart, Fresh, NoMemory
<1>2. Fresh' => Inv'
  BY ManagerStarts, PTL
<1>3. QED
  BY <1>1, <1>2

LEMMA ManagerNext == Inv /\ Next => Inv'
<1> SUFFICES ASSUME Inv, Next PROVE Inv'
  OBVIOUS
<1>1. CASE Restart
  BY <1>1, Restarts
<1>2. ASSUME NEW r \in Requests, Request(r)
      PROVE  Inv'
  <2> HIDE DEF Inv
  <2>1. CASE Handle(r)
    BY <2>1, Begins DEF Handle
  <2>2. CASE Lookup(r) \/ ReadRow(r) \/ Stop(r)
    BY <2>2, Looks
  <2>3. CASE FindMap(r) \/ MakeMap(r)
    BY <2>3, FindsMap
  <2>4. CASE SaveNew(r) \/ Save(r) \/ DeleteRow(r)
    BY <2>4, WritesRow
  <2>5. CASE Drop(r) \/ DropSlot(r)
    BY <2>5, Drops
  <2>6. QED
    BY <1>2, <2>1, <2>2, <2>3, <2>4, <2>5, Stores, StopsInstance, UnloadsOld, Unloads, Fails DEF Request
<1>3. QED
  BY <1>1, <1>2 DEF Next

LEMMA ManagerStutter == Inv /\ UNCHANGED vars => Inv'
<1> SUFFICES ASSUME Inv, UNCHANGED vars PROVE Inv'
  OBVIOUS
<1>1. /\ row' = row /\ maps' = maps /\ home' = home /\ slot' = slot /\ born' = born /\ inst' = inst
      /\ pc' = pc /\ loc' = loc /\ broken' = broken /\ raced' = raced
  BY DEF vars, shared
<1>2. Live' = Live
  BY <1>1 DEF Live
<1>3. TypesInv' /\ HoldsInv' /\ PlaceInv' /\ WornInv'
  BY <1>1 DEF Inv, TypesInv, HoldsInv, HoldsOK, PlaceInv, WornInv
<1>4. StuckInv' /\ RowInv'
  BY <1>1, <1>2 DEF Inv, StuckInv, RowInv
<1>5. KnowsInv'
  BY <1>1, <1>2 DEF Inv, KnowsInv, KnowsOK
<1>6. QED
  BY <1>3, <1>4, <1>5 DEF Inv

\* The invariant of the manager: an instance is in one place, what was stopped does
\* not run again, somebody is at work on it, and what a request concludes from what
\* it has read holds while no change overlaps another request.
THEOREM ManagerInvariance == Spec => []Inv
<1>1. Inv /\ [Next]_vars => Inv'
  BY ManagerNext, ManagerStutter
<1>2. QED
  BY <1>1, ManagerInit, PTL DEF Spec

\* A plugin that was stopped or unloaded stays in the map only when a request failed
\* after it had stopped it, for any number of requests in any order.
THEOREM NoneLeftBehind == Spec => []StuckOnlyByFailure
<1>1. Inv => StuckOnlyByFailure
  <2> SUFFICES ASSUME Inv, Live # 0, inst[Live].state # "Running"
               PROVE  \/ Live \in broken
                      \/ \E r \in Requests : pc[r] \in Stopping /\ loc[r].got = Live
    BY DEF StuckOnlyByFailure
  <2>1. Live \in 1..born
    BY ManagerTypes
  <2>2. inst[Live].state \in {"Uninitialized", "Stopped"}
    BY <2>1, ManagerTypes
  <2>3. QED
    BY <2>2 DEF Inv, StuckInv, WithStopped, WithUnloaded, Stopping
<1>2. QED
  BY <1>1, ManagerInvariance, PTL

\* The instance in memory is one of the row's configuration, unless requests
\* overlapped, one failed half-way or is under way.
THEOREM MemoryIsTheRow == Spec => []LiveIsTheRows
<1>1. Inv => LiveIsTheRows
  <2> SUFFICES ASSUME Inv, ~ raced, Live # 0
               PROVE  \/ inst[Live].config = row
                      \/ Live \in broken
                      \/ \E r \in Requests : pc[r] \in Stopping
    BY DEF LiveIsTheRows
  <2>1. Live \in 1..born
    BY ManagerTypes
  <2>2. inst[Live].state \in {"Uninitialized", "Running", "Stopped"}
    BY <2>1, ManagerTypes
  <2>3. CASE inst[Live].state = "Running"
    BY <2>3 DEF Inv, RowInv
  <2>4. CASE inst[Live].state # "Running"
    BY <2>2, <2>4 DEF Inv, StuckInv, WithStopped, WithUnloaded, Stopping
  <2>5. QED
    BY <2>3, <2>4
<1>2. QED
  BY <1>1, ManagerInvariance, PTL

\* Instances change their states as isValidTransition allows, except for a Stop that
\* looked before another request's Unload, and stores after it.
THEOREM TransitionsAreValid == Spec => TransitionsValid
<1>1. Inv /\ Next => ValidTransition
  <2> SUFFICES ASSUME Inv, Next, NEW i \in 1..born, i <= born',
                      inst'[i].state # inst[i].state
               PROVE  \/ <<inst[i].state, inst'[i].state>> \in Valid
                      \/ /\ inst[i].state = "Uninitialized" /\ inst'[i].state = "Stopped"
                         /\ \E r \in Requests : Stopped(r) /\ loc[r].got = i
    BY DEF ValidTransition
  <2>1. i \in Instances /\ inst[i].state \in {"Uninitialized", "Running", "Stopped"}
    BY ManagerTypes
  <2>2. born \in Nat /\ i # 0 /\ ~ Restart
    BY ManagerTypes DEF Restart
  <2>3. PICK r \in Requests : Request(r)
    BY <2>2 DEF Next
  <2>4. CASE Stopped(r)
    <3>1. loc[r].got \in 1..born /\ inst' = [inst EXCEPT ![loc[r].got].state = "Stopped"]
      BY <2>4, LocalTypes, ManagerTypes DEF Stopped, HoldsOK
    <3>2. PICK k \in 1..born : k = loc[r].got
      BY <3>1
    <3>3. inst' = [inst EXCEPT ![k].state = "Stopped"]
      BY <3>1, <3>2
    <3>4. /\ inst'[k].state = "Stopped" /\ \A j \in Instances \ {k} : inst'[j] = inst[j]
      BY <3>3, Changed, Zenon
    <3>5. i = k
      BY <2>1, <3>4
    <3>6. QED
      BY <2>1, <2>4, <3>2, <3>4, <3>5 DEF Valid
  <2>5. ASSUME NEW k \in 1..born, NEW b \in BOOLEAN, Unloaded(k, b)
        PROVE  <<inst[i].state, inst'[i].state>> \in Valid
    <3>1. CASE b = TRUE
      BY <2>1, <2>5, <3>1, Changed DEF Valid
    <3>2. CASE b = FALSE
      BY <2>1, <2>5, <3>2, Changed
    <3>3. QED
      BY <3>1, <3>2
  <2>6. CASE UnloadOld(r)
    <3>1. loc[r].got \in 1..born
      BY <2>6, LocalTypes, ManagerTypes DEF UnloadOld, HoldsOK
    <3>2. Unloaded(loc[r].got, TRUE) \/ Unloaded(loc[r].got, FALSE)
      BY <2>6 DEF UnloadOld
    <3>3. PICK k \in 1..born : k = loc[r].got
      BY <3>1
    <3> HIDE DEF Unloaded
    <3>4. QED
      BY <2>5, <3>2, <3>3
  <2>7. CASE Unload(r)
    <3>1. Live # 0 /\ (Unloaded(Live, TRUE) \/ Unloaded(Live, FALSE))
      BY <2>7 DEF Unload
    <3>2. PICK k \in 1..born : k = Live
      BY <3>1, ManagerTypes
    <3> HIDE DEF Unloaded
    <3>3. QED
      BY <2>5, <3>1, <3>2
  <2>8. CASE FindMap(r) \/ MakeMap(r)
    <3>1. inst' = inst \/ inst' = [inst EXCEPT ![born + 1] = Started(loc[r].config)]
      BY <2>8 DEF FindMap, MakeMap, Enter, New
    <3>2. i # born + 1
      BY <2>2
    <3>3. inst'[i] = inst[i]
      BY <2>1, <3>1, <3>2 DEF Inv, TypesInv
    <3>4. QED
      BY <3>3
  <2>9. inst' = inst \/ Stopped(r) \/ UnloadOld(r) \/ Unload(r) \/ FindMap(r) \/ MakeMap(r)
    BY <2>3 DEF Request, Handle, Begin, Lookup, ReadRow, SaveNew, Store, Stop, Drop, Save, DeleteRow,
                DropSlot, Fail, shared
  <2>10. QED
    BY <2>4, <2>6, <2>7, <2>8, <2>9
<1>2. Inv /\ [Next]_vars => [ValidTransition]_vars
  BY <1>1
<1>3. QED
  BY <1>2, ManagerInvariance, PTL DEF Spec, TransitionsValid

\* A running instance is never lost - replaced in the map, dropped from it, or left
\* behind in another map - unless a change overlaps another request: LoadPlugin
\* and GetPlugin then find it there, and a request drops only what it has stopped.
THEOREM RunningStays ==
  Spec => [][Live # 0 /\ inst[Live].state = "Running" /\ ~ raced' => Live' = Live \/ Restart]_vars
<1> DEFINE Stays == Live # 0 /\ inst[Live].state = "Running" /\ ~ raced' => Live' = Live \/ Restart
<1>1. Inv /\ Next => Stays
  <2> SUFFICES ASSUME Inv, Next, Live # 0, inst[Live].state = "Running", ~ raced', ~ Restart
               PROVE  Live' = Live
    OBVIOUS
  <2>1. PICK r \in Requests : Request(r)
    BY DEF Next
  <2>2. UNCHANGED <<home, slot>> => Live' = Live
    BY DEF Live
  <2>3. Changing(r) => ~ raced
    BY DEF Changing
  <2>4. ASSUME ~ raced
        PROVE  KnowsOK(pc[r], loc[r], row)
    BY <2>4 DEF Inv, KnowsInv
  <2>5. CASE FindMap(r) /\ home # 0
    <3>1. pc[r] = "findMap" /\ Changing(r) /\ Enter(r, home) /\ home' = home
      BY <2>5 DEF FindMap
    <3>2. ~ loc[r].lazy
      BY <2>3, <2>4, <3>1 DEF KnowsOK
    <3>3. slot[home] # 0
      BY <2>5, ManagerTypes
    <3>4. UNCHANGED slot
      BY <3>1, <3>2, <3>3 DEF Enter
    <3>5. QED
      BY <2>2, <3>1, <3>4
  <2>6. CASE FindMap(r) /\ home = 0
    BY <2>6, ManagerTypes
  <2>7. CASE MakeMap(r) \/ Store(r)
    <3>1. pc[r] \in {"makeMap", "store"} /\ Changing(r)
      BY <2>7 DEF MakeMap, Store
    <3>2. QED
      BY <2>3, <2>4, <3>1 DEF KnowsOK
  <2>8. CASE Drop(r) \/ DropSlot(r)
    <3>1. pc[r] \in {"drop", "dropSlot"} /\ Changing(r)
      BY <2>8 DEF Drop, DropSlot
    <3>2. pc[r] \in Stopping \ {"stopped"}
      BY <3>1 DEF Stopping
    <3>3. Live = loc[r].got
      BY <2>3, <2>4, <3>1, <3>2 DEF KnowsOK
    <3>4. QED
      BY <3>2, <3>3 DEF Inv, WornInv
  <2>9. CASE Handle(r) \/ Lookup(r) \/ ReadRow(r) \/ Fail(r)
    <3>1. UNCHANGED shared
      <4>1. Handle(r) => UNCHANGED shared
        BY DEF Handle, Begin
      <4>2. Lookup(r) \/ ReadRow(r) => UNCHANGED shared
        BY DEF Lookup, ReadRow
      <4>3. Fail(r) => UNCHANGED shared
        BY DEF Fail
      <4>4. QED
        BY <2>9, <4>1, <4>2, <4>3
    <3>2. QED
      BY <2>2, <3>1 DEF shared
  <2>10. CASE \/ SaveNew(r) \/ Save(r) \/ Stop(r) \/ Stopped(r)
              \/ UnloadOld(r) \/ Unload(r) \/ DeleteRow(r)
    <3> HIDE DEF Live
    <3>1. UNCHANGED <<home, slot>>
      BY <2>10 DEF SaveNew, Save, Stop, Stopped, UnloadOld, Unload, DeleteRow, shared
    <3>2. QED
      BY <2>2, <3>1
  <2>11. QED
    BY <2>1, <2>5, <2>6, <2>7, <2>8, <2>9, <2>10 DEF Request
<1>2. Inv /\ [Next]_vars => [Stays]_vars
  <2> HIDE DEF Stays
  <2>1. QED
    BY <1>1
<1>3. QED
  BY <1>2, ManagerInvariance, PTL DEF Spec

LEMMA ManagerPart == AllSpec => Spec
<1>1. AllInit => Init
  BY DEF AllInit
<1>2. [AllNext]_allVars => [Next]_vars
  <2> HIDE DEF vars
  <2>1. QED
    BY DEF AllNext, allVars, ManagerStep, CodesStep, ConfigsStep
<1>3. QED
  BY <1>1, <1>2, PTL DEF AllSpec, Spec, allVars

LEMMA AtMostOne == \A S : Single(S) => Cardinality(S) <= 1
<1>1. ASSUME NEW S, Single(S)
      PROVE  Cardinality(S) <= 1
  <2>1. CASE S = {}
    BY <2>1, FS_EmptySet
  <2>2. ASSUME NEW x \in S
        PROVE  Cardinality(S) <= 1
    <3>1. S = {x}
      BY <1>1 DEF Single
    <3>2. Cardinality({x}) = 1
      BY FS_Singleton
    <3>3. QED
      BY <3>1, <3>2
  <2>3. QED
    BY <2>1, <2>2
<1>2. QED
  BY <1>1

\* The three type invariants.
THEOREM TypeCorrect == AllSpec => []TypesOK
<1>1. Inv => TypeOK
  <2> SUFFICES ASSUME Inv PROVE TypeOK
    OBVIOUS
  <2>1. TypesInv
    BY DEF Inv
  <2>2. Cardinality(row) <= 1 /\ home \in 0..maps
    BY <2>1, AtMostOne, ManagerTypes DEF TypesInv
  <2> HIDE DEF Local, Instance, NoInstance, Labels
  <2>3. QED
    BY <2>1, <2>2 DEF TypesInv, TypeOK
<1>2. CodesInv => C!TypeOK
  <2> SUFFICES ASSUME CodesInv PROVE C!TypeOK
    OBVIOUS
  <2>1. CodesTypeInv
    BY DEF CodesInv
  <2>2. \A i \in Instances : C!Cardinality(lock[i]) <= 1
    <3>1. \A S : C!Cardinality(S) = Cardinality(S)
      BY DEF C!Cardinality, Cardinality
    <3>2. QED
      BY <2>1, <3>1, AtMostOne DEF CodesTypeInv
  <2>3. C!Instances = Instances
    BY DEF C!Instances, Instances
  <2> HIDE DEF C!Local, C!Instances, Instances, Single
  <2>4. QED
    BY <2>1, <2>2, <2>3 DEF CodesTypeInv, C!TypeOK
<1>3. ConfigsInv => U!TypeOK
  <2> HIDE DEF U!Local, U!Totp, U!Trust
  <2>1. QED
    BY DEF ConfigsInv, ConfigsTypeInv, U!TypeOK
<1>4. QED
  BY <1>1, <1>2, <1>3, ManagerPart, ManagerInvariance, CodesInvariance, ConfigsInvariance, PTL
     DEF TypesOK
==============================================================================
