--------------------------- MODULE TokenLifecycle ---------------------------
(***************************************************************************)
(* What internal/service/token.go promises about the tokens it signs, with *)
(* Redis, the clock and the concurrency of requests hidden.  A pair is one *)
(* access token and one refresh token.  A token is "none" until its pair   *)
(* is recorded, "live" while some call would still honour it, and then     *)
(* "dead" for ever; a user has at most one live refresh token.             *)
(***************************************************************************)
EXTENDS Naturals

CONSTANTS Users,   \* the users tokens are issued to
          Pairs,   \* token pairs, each issued at most once
          NoUser   \* the holder of a pair that is not recorded

Kinds  == {"access", "refresh"}
Tokens == Pairs \X Kinds

VARIABLES life,    \* the stage each token is in
          holder   \* the user each recorded pair belongs to

lifecycleVars == <<life, holder>>

LifecycleTypeOK ==
  /\ life \in [Tokens -> {"none", "live", "dead"}]
  /\ holder \in [Pairs -> Users \cup {NoUser}]

Init ==
  /\ life = [t \in Tokens |-> "none"]
  /\ holder = [p \in Pairs |-> NoUser]

\* A pair is recorded for a user: it displaces the user's live refresh token.
\* A slow request may record a pair some token of which has already expired.
Bear(p, u) ==
  /\ holder[p] = NoUser
  /\ holder' = [holder EXCEPT ![p] = u]
  /\ \E alive \in SUBSET Kinds :
       life' = [t \in Tokens |->
                  IF t[1] = p THEN IF t[2] \in alive THEN "live" ELSE "dead"
                  ELSE IF /\ t[2] = "refresh"
                          /\ holder[t[1]] = u
                          /\ life[t] = "live"
                       THEN "dead" ELSE life[t]]

\* Tokens expire, or are revoked: several at once when the clock moves.
Retire(gone) ==
  /\ gone \subseteq {t \in Tokens : life[t] = "live"}
  /\ life' = [t \in Tokens |-> IF t \in gone THEN "dead" ELSE life[t]]
  /\ UNCHANGED holder

Next ==
  \/ \E p \in Pairs, u \in Users : Bear(p, u)
  \/ \E gone \in SUBSET Tokens : Retire(gone)

Spec == Init /\ [][Next]_lifecycleVars
=============================================================================
