--------------------------- MODULE MCPluginManager ---------------------------
(***************************************************************************)
(* The manager, the codes of an instance and the users' configurations: a  *)
(* behaviour is one of PluginManager, EmailCodes or UserConfigs, which     *)
(* share no state (Replace of EmailCodes is the manager's Store, seen from *)
(* the codes), and focus says of which.                                    *)
(***************************************************************************)
EXTENDS PluginManager, TLC

CONSTANTS MaxSends, Ips, Devices, Blank, MaxSecrets

ASSUME BoundsAssumption == MaxInstances # 0 /\ MaxSends \in Nat /\ MaxSecrets \in Nat

VARIABLES
  focus,
  mode, live, stored, expired, lock, sends, mailPc, mailLoc, last, used, dead,
  always, totp, trust, secrets, userPc, userLoc, device, unshown, proved

C == INSTANCE EmailCodes WITH pc <- mailPc, loc <- mailLoc
U == INSTANCE UserConfigs WITH pc <- userPc, loc <- userLoc

codeVars   == <<mode, live, stored, expired, lock, sends, mailPc, mailLoc, last, used, dead>>
configVars == <<always, totp, trust, secrets, userPc, userLoc, device, unshown, proved>>

AllInit ==
  /\ focus \in {"manager", "codes", "configs"}
  /\ Init /\ C!Init /\ U!Init
  /\ focus # "codes" => mode = "code"
  /\ focus # "configs" => ~ always

ManagerStep == focus = "manager" /\ Next /\ UNCHANGED <<focus, codeVars, configVars>>
CodesStep   == focus = "codes" /\ C!Next /\ UNCHANGED <<focus, vars, configVars>>
ConfigsStep == focus = "configs" /\ U!Next /\ UNCHANGED <<focus, vars, codeVars>>

AllNext == ManagerStep \/ CodesStep \/ ConfigsStep

AllSpec == AllInit /\ [][AllNext]_<<focus, vars, codeVars, configVars>>

Symmetry == UNION {Permutations(S) : S \in {Requests, Good, Ips}}

-----------------------------------------------------------------------------
\* The three type invariants.
TypesOK == TypeOK /\ C!TypeOK /\ U!TypeOK

\* When no mail is under way, the last code or link that reached the mailbox is
\* the one that verifies, unless it was used, expired, lost with its instance,
\* overtaken, or followed by one that did not arrive.
MailedCodeVerifies == C!MailedCodeVerifies

\* When TOTP is on and no request is under way, it wants the secret a setup
\* showed last, unless one failed since, or was answered without another reading
\* of the row and overtaken before that.
ShownIsStored == U!ShownIsStored

\* TOTP that is on goes off, or changes its secret, only by a code of it, unless
\* the request was overtaken by another one or a reading failed.
ChangesOnlyByItsCode == [][U!ChangedByItsCode]_configVars

\* Addresses and devices are forgotten only by a verification another overtook,
\* and spare a verification only to who verified from them.
TrustIsEarned == [][U!TrustEarned]_configVars
=============================================================================
