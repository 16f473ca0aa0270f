------------------------------ MODULE EmailCodes ------------------------------
(***************************************************************************)
(* The codes and links of one address: code_manager.go and link_manager.go *)
(* of internal/plugin/verification, driven by internal/plugin/email.  They *)
(* live in an instance of the plugin; a new one - the configuration was    *)
(* updated, the process restarted - begins with none, and requests that    *)
(* got the old one go on with it.                                          *)
(*                                                                         *)
(* Code mode mails under the lock of the instance and stores afterwards;   *)
(* link mode stores first and mails with no lock held.  A code is a number *)
(* that counts the sends; real ones are random and may be guessed.         *)
(***************************************************************************)
EXTENDS FiniteSets, Naturals

CONSTANTS Requests,     \* request goroutines
          MaxSends,     \* bound on the codes and links made
          MaxInstances  \* bound on the instances of the plugin

VARIABLES
  mode,            \* the verification mode of the application
  live,            \* the instance new requests get
  stored, expired, \* instance -> what it keeps for the address, and whether that expired
  lock,            \* instance -> the request that holds its lock, if any
  sends,           \* the codes made
  pc, loc,         \* where a request stands, and its locals
  last,            \* history: the code that reached the mailbox last
  used, dead       \* history: codes that verified; codes that cannot be expected to

vars == <<mode, live, stored, expired, lock, sends, pc, loc, last, used, dead>>

Codes     == 1..MaxSends
None      == 0
Instances == 1..MaxInstances

Local   == [code : Codes \cup {None}, at : Instances]
NoLocal == [code |-> None, at |-> 1]

TypeOK ==
  /\ mode \in {"code", "link"} /\ live \in Instances /\ sends \in 0..MaxSends
  /\ stored \in [Instances -> 0..sends] /\ expired \in [Instances -> BOOLEAN]
  /\ lock \in [Instances -> SUBSET Requests]
  /\ \A i \in Instances : lock[i] = {r \in Requests : mode = "code" /\ pc[r] = "mail" /\ loc[r].at = i}
  /\ \A i \in Instances : Cardinality(lock[i]) <= 1
  /\ pc \in [Requests -> {"idle", "mail"}] /\ loc \in [Requests -> Local]
  /\ last \in 0..sends /\ used \subseteq Codes /\ dead \subseteq Codes

Init ==
  /\ mode \in {"code", "link"} /\ live = 1 /\ sends = 0
  /\ stored = [i \in Instances |-> None] /\ expired = [i \in Instances |-> FALSE]
  /\ lock = [i \in Instances |-> {}]
  /\ pc = [r \in Requests |-> "idle"] /\ loc = [r \in Requests |-> NoLocal]
  /\ last = None /\ used = {} /\ dead = {}

-----------------------------------------------------------------------------
(* Send.                                                                   *)

Put(i, c) == stored' = [stored EXCEPT ![i] = c] /\ expired' = [expired EXCEPT ![i] = FALSE]

Mailing(r, i) ==
  /\ sends < MaxSends /\ sends' = sends + 1
  /\ pc' = [pc EXCEPT ![r] = "mail"] /\ loc' = [loc EXCEPT ![r] = [code |-> sends + 1, at |-> i]]

\* DefaultCodeManager.Send, up to the mail.
BeginCode(r) ==
  /\ mode = "code" /\ pc[r] = "idle" /\ lock[live] = {}
  /\ lock' = [lock EXCEPT ![live] = {r}]
  /\ Mailing(r, live)
  /\ UNCHANGED <<mode, live, stored, expired, last, used, dead>>

\* DefaultLinkManager.Generate: the link a mail under way brings, and the one
\* in the mailbox, are replaced before the new one is mailed.
BeginLink(r) ==
  /\ mode = "link" /\ pc[r] = "idle"
  /\ Mailing(r, live) /\ Put(live, sends + 1)
  /\ dead' = dead \cup {loc[q].code : q \in {q \in Requests : pc[q] = "mail"}} \cup ({last} \ {None})
  /\ UNCHANGED <<mode, live, lock, last, used>>

\* Mutant: the code is stored however the mail went.
KeepsAnyway(ok) == mode = "code" /\ ok \in BOOLEAN

\* The code manager stores a code once it is sent; a link is stored already.
Keeps(ok) == mode = "code" /\ ok

\* The sender returns: delivered, whether the mail reached the mailbox; ok,
\* whether there was no error.  A mail may arrive though an error was reported,
\* and the log sender, used when there is no SMTP service, delivers nothing.
Mailed(r, delivered, ok) ==
  LET c == loc[r].code
      i == loc[r].at
  IN
  /\ pc[r] = "mail"
  /\ IF Keeps(ok) THEN Put(i, c) ELSE UNCHANGED <<stored, expired>>
  /\ lock' = [lock EXCEPT ![i] = @ \ {r}]
  /\ pc' = [pc EXCEPT ![r] = "idle"] /\ loc' = [loc EXCEPT ![r] = NoLocal]
  /\ last' = IF delivered THEN c ELSE last
  /\ dead' = dead \cup (IF (mode = "code" /\ ~ ok) \/ i # live THEN {c} ELSE {})
                  \cup (IF Keeps(ok) /\ ok /\ ~ delivered THEN {last} \ {None} ELSE {})
  /\ UNCHANGED <<mode, live, sends, used>>

-----------------------------------------------------------------------------
(* Verify, and what happens to a code otherwise.                           *)

\* What is stored goes when it is c, and when it expired.
Spends(c) == stored[live] # None /\ (stored[live] = c \/ expired[live])

\* Somebody has the code c: from the mailbox, or from an earlier mail.
Verify(c) ==
  /\ lock[live] = {} /\ c <= sends
  /\ Spends(c)
  /\ Put(live, None)
  /\ used' = IF expired[live] THEN used ELSE used \cup {c}
  /\ UNCHANGED <<mode, live, lock, sends, pc, loc, last, dead>>

Expire ==
  /\ stored[live] # None /\ ~ expired[live]
  /\ expired' = [expired EXCEPT ![live] = TRUE]
  /\ dead' = dead \cup {stored[live]}
  /\ UNCHANGED <<mode, live, stored, lock, sends, pc, loc, last, used>>

\* The manager of plugins has stored a new instance.
Replace ==
  /\ live < MaxInstances /\ live' = live + 1
  /\ dead' = dead \cup 1..sends
  /\ UNCHANGED <<mode, stored, expired, lock, sends, pc, loc, last, used>>

Sending(r) ==
  \/ BeginCode(r) \/ BeginLink(r)
  \/ \E delivered, ok \in BOOLEAN : Mailed(r, delivered, ok)

Verifying == \E c \in Codes : Verify(c)

Next == (\E r \in Requests : Sending(r)) \/ Verifying \/ Expire \/ Replace

Spec == Init /\ [][Next]_vars

-----------------------------------------------------------------------------
(* Properties.                                                             *)

\* When no mail is under way, the last code or link that reached the mailbox is
\* the one that verifies, unless it verified or expired, its instance was
\* replaced, the sender reported an error for the code that arrived, or a link
\* was made (or a code stored) after it that did not arrive.
MailedCodeVerifies ==
  (\A r \in Requests : pc[r] = "idle") /\ last \notin used \cup dead \cup {None} =>
    stored[live] = last /\ ~ expired[live]
=============================================================================
