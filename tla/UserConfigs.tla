------------------------------ MODULE UserConfigs ------------------------------
(***************************************************************************)
(* What the plugins keep of one user, in plugin_user_configs through       *)
(* user_config_manager.go of internal/plugin/verification: whether TOTP is *)
(* on and its secret (internal/plugin/totp), and the addresses and devices *)
(* the user has verified from (internal/plugin/email, types/exemption.go). *)
(* Each plugin has a row of its own; there are no transactions, and the    *)
(* whole row is read, changed and written back: an action is one statement *)
(* and the local code after it.                                            *)
(*                                                                         *)
(* A code of the authenticator goes by the secret it was made with.        *)
(***************************************************************************)
EXTENDS Naturals

CONSTANTS Requests,     \* request goroutines
          Ips, Devices, \* addresses and device ids of clients
          Blank,        \* the device id of a client that sends none
          MaxSecrets    \* bound on the secrets made

VARIABLES
  always,         \* the email plugin's policy: always_verify
  totp,           \* the TOTP row: on, and the secret (0: none yet)
  trust,          \* the email row: ips, devices, and fresh: verified within the interval
  secrets,        \* the secrets made
  pc, loc,        \* where a request stands, and its locals
  device,         \* history: the secret the user was shown last
  unshown,        \* history: a setup after that showed none, or showed its own when
                  \* another request had written the row
  proved          \* history: the addresses and devices the user verified from

vars == <<always, totp, trust, secrets, pc, loc, device, unshown, proved>>

Secrets == 0..MaxSecrets
AnyDevice == Devices \cup {Blank}

Totp  == [on : BOOLEAN, secret : Secrets]
Trust == [ips : SUBSET Ips, devices : SUBSET AnyDevice, fresh : BOOLEAN]

NoTrust == [ips |-> {}, devices |-> {}, fresh |-> FALSE]

\* row: what will be written; for the properties: the row was written by another
\* request since it was read (overtaken), or the read failed (blind).
Local   == [totp : Totp, trust : Trust, overtaken : BOOLEAN, blind : BOOLEAN]
NoLocal == [totp |-> [on |-> FALSE, secret |-> 0], trust |-> NoTrust,
            overtaken |-> FALSE, blind |-> FALSE]

Labels == {"idle", "setup", "show", "disable", "trust"}
OnTotp == {"setup", "show", "disable"}

TypeOK ==
  /\ always \in BOOLEAN /\ totp \in Totp /\ trust \in Trust
  /\ totp.on => totp.secret # 0
  /\ secrets \in Secrets /\ totp.secret <= secrets /\ device \in 0..secrets
  /\ pc \in [Requests -> Labels] /\ loc \in [Requests -> Local]
  /\ unshown \in BOOLEAN /\ proved \subseteq Ips \cup AnyDevice

Init ==
  /\ always \in BOOLEAN
  /\ totp = [on |-> FALSE, secret |-> 0] /\ trust = NoTrust /\ secrets = 0
  /\ pc = [r \in Requests |-> "idle"] /\ loc = [r \in Requests |-> NoLocal]
  /\ device = 0 /\ unshown = FALSE /\ proved = {}

-----------------------------------------------------------------------------
Step(r, label, mine) ==
  /\ pc' = [pc EXCEPT ![r] = label]
  /\ loc' = [loc EXCEPT ![r] = mine]

\* r has written a row: requests with a label of it hold what it was before.
Written(r, label, labels) ==
  /\ pc' = [pc EXCEPT ![r] = label]
  /\ loc' = [q \in Requests |->
       IF q = r THEN NoLocal
       ELSE [loc[q] EXCEPT !.overtaken = @ \/ pc[q] \in labels]]

\* A statement fails, or the process stops.
Fail(r) ==
  /\ pc[r] # "idle"
  /\ Step(r, "idle", NoLocal)
  /\ unshown' = (unshown \/ pc[r] = "show")
  /\ UNCHANGED <<always, totp, trust, secrets, device, proved>>

-----------------------------------------------------------------------------
(* TOTP.                                                                   *)

\* getUserConfig: an error reads as "not enabled", without a secret.
Read(ok) == IF ok THEN totp ELSE [on |-> FALSE, secret |-> 0]

\* Mutant: setup does not look whether TOTP is on.
SetupAllowed(row) == row \in Totp

\* ErrTOTPAlreadyEnabled.
MaySetUp(row) == ~ row.on

\* A new secret is made, and the row read.
BeginSetup(r, ok) ==
  /\ pc[r] = "idle" /\ secrets < MaxSecrets
  /\ MaySetUp(Read(ok))
  /\ secrets' = secrets + 1
  /\ Step(r, "setup", [NoLocal EXCEPT !.totp = [on |-> TRUE, secret |-> secrets + 1], !.blind = ~ ok])
  /\ UNCHANGED <<always, totp, trust, device, unshown, proved>>

\* saveUserConfig: it reads the row once more for other keys, of which there
\* are none, and writes it.
SaveSetup(r) ==
  /\ pc[r] = "setup"
  /\ totp' = loc[r].totp
  /\ pc' = [pc EXCEPT ![r] = "show"]
  /\ loc' = [q \in Requests |->
       [loc[q] EXCEPT !.overtaken = q # r /\ (@ \/ pc[q] \in OnTotp)]]
  /\ UNCHANGED <<always, trust, secrets, device, unshown, proved>>

\* The secret that setup made, which it leaves in the parameters.
Own(r) == loc[r].totp.secret

\* What the row says by now.  An error of this reading shows no secret (Fail).
Shows(r) == totp.secret

\* The answer of the plugin's own route for setup.
Show(r) ==
  /\ pc[r] = "show"
  /\ device' = Shows(r) /\ unshown' = FALSE
  /\ Step(r, "idle", NoLocal)
  /\ UNCHANGED <<always, totp, trust, secrets, proved>>

\* The answer of the route that executes any plugin: the parameters.
ShowParams(r) ==
  /\ pc[r] = "show"
  /\ device' = Own(r) /\ unshown' = loc[r].overtaken
  /\ Step(r, "idle", NoLocal)
  /\ UNCHANGED <<always, totp, trust, secrets, proved>>

\* Disabling wants the code of the secret it reads.
BeginDisable(r, s) ==
  /\ pc[r] = "idle"
  /\ totp.on /\ totp.secret = s
  /\ Step(r, "disable", [NoLocal EXCEPT !.totp = [on |-> FALSE, secret |-> s]])
  /\ UNCHANGED <<always, totp, trust, secrets, device, unshown, proved>>

SaveDisable(r) ==
  /\ pc[r] = "disable"
  /\ totp' = loc[r].totp
  /\ Written(r, "idle", OnTotp)
  /\ UNCHANGED <<always, trust, secrets, device, unshown, proved>>

-----------------------------------------------------------------------------
(* The addresses and devices of the email plugin.                          *)

\* Mutant: only the address of this verification is kept.
WithOnly(t, i, d) == [ips |-> {i}, devices |-> t.devices \cup {d}, fresh |-> TRUE]

With(t, i, d) == [ips |-> t.ips \cup {i}, devices |-> t.devices \cup {d}, fresh |-> TRUE]

\* OnVerificationSuccess for a session of address i and device d: the row is
\* read after the record is stored.
BeginTrust(r, i, d) ==
  /\ pc[r] = "idle"
  /\ proved' = proved \cup {i, d}
  /\ Step(r, "trust", [NoLocal EXCEPT !.trust = With(trust, i, d)])
  /\ UNCHANGED <<always, totp, trust, secrets, device, unshown>>

SaveTrust(r) ==
  /\ pc[r] = "trust"
  /\ trust' = loc[r].trust
  /\ Written(r, "idle", {"trust"})
  /\ UNCHANGED <<always, totp, secrets, device, unshown, proved>>

Elapse ==
  /\ trust.fresh
  /\ trust' = [trust EXCEPT !.fresh = FALSE]
  /\ UNCHANGED <<always, totp, secrets, pc, loc, device, unshown, proved>>

\* The lists of the policy match nothing.
IPRule(i)     == i \in trust.ips
DeviceRule(d) == d # Blank /\ d \in trust.devices

Exempt(i, d) == IPRule(i) \/ DeviceRule(d)

\* NeedsVerification, of a running plugin, for an action other than register.
\* It is the answer to whoever asks; login does not ask a required plugin.
Needs(i, d) == ~ Exempt(i, d) /\ (always \/ ~ trust.fresh)

-----------------------------------------------------------------------------
Request(r) ==
  \/ \E ok \in BOOLEAN : BeginSetup(r, ok)
  \/ SaveSetup(r) \/ Show(r) \/ ShowParams(r)
  \/ \E s \in Secrets : BeginDisable(r, s)
  \/ SaveDisable(r)
  \/ \E i \in Ips, d \in AnyDevice : BeginTrust(r, i, d)
  \/ SaveTrust(r)
  \/ Fail(r)

Next == Elapse \/ \E r \in Requests : Request(r)

Spec == Init /\ [][Next]_vars

-----------------------------------------------------------------------------
(* Properties.                                                             *)

\* TOTP that is on goes off, or changes its secret, only by a request that gave
\* a code of that secret, unless another request wrote the row after the request
\* had read it, or the reading failed and passed for "not enabled".
ChangedByItsCode ==
  totp.on /\ totp' # totp =>
    \E r \in Requests :
      \/ loc[r].overtaken /\ (SaveSetup(r) \/ SaveDisable(r))
      \/ loc[r].blind /\ SaveSetup(r)
      \/ SaveDisable(r) /\ loc[r].totp.secret = totp.secret

\* The same, of every step.
ChangesOnlyByItsCode == [][ChangedByItsCode]_vars

\* When no request is under way and TOTP is on, the secret it wants is the one
\* a setup showed last, however setups overlapped - unless one failed since, or was
\* answered by the route that does not read the row again and overtaken between its
\* write and its answer.
ShownIsStored ==
  totp.on /\ ~ unshown /\ (\A r \in Requests : pc[r] = "idle") => device = totp.secret

\* An address or device once stored is forgotten only by a verification that
\* another one overtook; and nobody is spared a verification who comes neither
\* from an address or a device verified before nor within the interval.
TrustEarned ==
  /\ \A i \in Ips, d \in AnyDevice :
       ~ Needs(i, d) => i \in proved \/ d \in proved \ {Blank} \/ (~ always /\ trust.fresh)
  /\ (trust.ips \cup trust.devices) \ (trust'.ips \cup trust'.devices) # {} =>
       \E r \in Requests : SaveTrust(r) /\ loc[r].overtaken

\* The same, of every step.
TrustIsEarned == [][TrustEarned]_vars
=============================================================================
