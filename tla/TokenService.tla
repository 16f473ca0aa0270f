---------------------------- MODULE TokenService ----------------------------
(***************************************************************************)
(* The token service: internal/service/token.go and its first-party and    *)
(* OAuth callers.  Every HTTP request is a goroutine of its own; it talks  *)
(* to Redis one command at a time, so one action below is one Redis        *)
(* command together with the local code up to the next command.            *)
(*                                                                         *)
(*   refresh_token:<user>   slot, slotUntil     one slot per user          *)
(*   revoked_token:<token>  revokedUntil        one entry per token        *)
(*                                                                         *)
(* A token is <<pair, kind>>: GenerateTokenPair signs the two tokens of a  *)
(* pair together.  A token has no state of its own but its signed claims   *)
(* (owner, iat); whether it is honoured depends on the clock and on Redis. *)
(***************************************************************************)
EXTENDS Naturals

CONSTANTS Users,          \* users that log in
          Pairs,          \* token pairs that can be signed (bounds the run)
          Requests,       \* request goroutines
          NoUser, NoPair,
          AccessExpiry, RefreshExpiry,   \* config.Auth expiries, in ticks
          MaxTime,        \* bound on the clock
          RedisMayFail    \* whether a Redis command may return an error

ASSUME TokenServiceAssumption ==
  /\ NoUser \notin Users /\ NoPair \notin Pairs
  /\ AccessExpiry \in Nat /\ RefreshExpiry \in Nat /\ MaxTime \in Nat
  /\ RedisMayFail \in BOOLEAN

Kinds   == {"access", "refresh"}
Tokens  == Pairs \X Kinds
NoToken == <<NoPair, "access">>

Expiry(kind) == IF kind = "access" THEN AccessExpiry ELSE RefreshExpiry

VARIABLES
  now,           \* the clock
  owner, iat,    \* claims of a signed pair: its user (NoUser: unsigned) and issue time
  slot, slotUntil,   \* Redis refresh_token:<user> and the end of its TTL
  revokedUntil,  \* Redis revoked_token:<token>: end of its TTL, 0 when never set
  stored,        \* history: pairs that were ever written to a slot
  revoked,       \* history: tokens whose revocation entry was ever written
  delivered,     \* pairs a client has received
  ended,         \* history: pairs in the slot of a logout that returned success
  swallowed,     \* history: those of them that an ignored error left unrevoked
  pc, op,        \* where a request stands and what it was asked
  tok,           \* the token a request is refreshing or revoking
  new            \* the pair a request has signed

claims  == <<owner, iat>>
redis   == <<slot, slotUntil, revokedUntil, stored, revoked>>
request == <<pc, op, tok, new>>
vars    == <<now, claims, redis, delivered, ended, swallowed, request>>

Labels == {"idle", "validate", "compare", "store", "recheck", "loadUser",
           "revokeCheck", "revokeSet", "getSlot", "delSlot"}
Operations == {"none", "issue", "refresh", "grant", "logout"}

TypeOK ==
  /\ now \in Nat
  /\ owner \in [Pairs -> Users \cup {NoUser}]
  /\ iat \in [Pairs -> Nat]
  /\ slot \in [Users -> Pairs \cup {NoPair}]
  /\ slotUntil \in [Users -> Nat]
  /\ revokedUntil \in [Tokens -> Nat]
  /\ stored \subseteq Pairs
  /\ revoked \subseteq Tokens
  /\ delivered \subseteq Pairs
  /\ ended \subseteq Pairs
  /\ swallowed \subseteq Pairs
  /\ pc \in [Requests -> Labels]
  /\ op \in [Requests -> Operations]
  /\ tok \in [Requests -> Tokens \cup {NoToken}]
  /\ new \in [Requests -> Pairs \cup {NoPair}]

Init ==
  /\ now = 0
  /\ owner = [p \in Pairs |-> NoUser]
  /\ iat = [p \in Pairs |-> 0]
  /\ slot = [u \in Users |-> NoPair]
  /\ slotUntil = [u \in Users |-> 0]
  /\ revokedUntil = [t \in Tokens |-> 0]
  /\ stored = {} /\ revoked = {} /\ delivered = {}
  /\ ended = {} /\ swallowed = {}
  /\ pc = [r \in Requests |-> "idle"]
  /\ op = [r \in Requests |-> "none"]
  /\ tok = [r \in Requests |-> NoToken]
  /\ new = [r \in Requests |-> NoPair]

-----------------------------------------------------------------------------
(* What the code reads from the claims, the clock and Redis.               *)

ExpiresAt(t) == iat[t[1]] + Expiry(t[2])

\* Redis EXISTS revoked_token:<token>
RevokedEntry(t) == now < revokedUntil[t]

\* ValidateToken returns claims rather than an error.
Accepts(t, kind) ==
  /\ t[2] = kind
  /\ ~RevokedEntry(t)
  /\ now < ExpiresAt(t)

\* Redis GET refresh_token:<user>, NoPair standing for redis.Nil
SlotPair(u) == IF now < slotUntil[u] THEN slot[u] ELSE NoPair

\* Some call would honour the token: an access token is accepted, a refresh
\* token is accepted and is the one in its user's slot.
Usable(t) ==
  /\ Accepts(t, t[2])
  /\ t[2] = "refresh" => SlotPair(owner[t[1]]) = t[1]

Presented(t) == t \in delivered \X Kinds

-----------------------------------------------------------------------------
(* Steps shared by several operations.                                     *)

Goto(r, label) == pc' = [pc EXCEPT ![r] = label]

Finish(r) ==
  /\ Goto(r, "idle")
  /\ op' = [op EXCEPT ![r] = "none"]
  /\ tok' = [tok EXCEPT ![r] = NoToken]
  /\ new' = [new EXCEPT ![r] = NoPair]

\* The two generateToken calls of GenerateTokenPair: local, no Redis command.
SignPair(r, u) ==
  \E p \in Pairs :
    /\ owner[p] = NoUser
    /\ owner' = [owner EXCEPT ![p] = u]
    /\ iat' = [iat EXCEPT ![p] = now]
    /\ new' = [new EXCEPT ![r] = p]
    /\ Goto(r, "store")

\* Redis SET refresh_token:<user>: whatever was in the slot is displaced.
SetSlot(u, p) ==
  /\ slot' = [slot EXCEPT ![u] = p]
  /\ slotUntil' = [slotUntil EXCEPT ![u] = now + RefreshExpiry]
  /\ stored' = stored \cup {p}
  /\ UNCHANGED <<revokedUntil, revoked>>

\* Mutant: every revocation entry gets the lifetime of an access token.
SetRevokedBriefly(t) ==
  /\ revokedUntil' = [revokedUntil EXCEPT ![t] = now + AccessExpiry]
  /\ revoked' = revoked \cup {t}
  /\ UNCHANGED <<slot, slotUntil, stored>>

\* Redis SET revoked_token:<token>, for the whole lifetime of its kind
SetRevoked(t) ==
  /\ revokedUntil' = [revokedUntil EXCEPT ![t] = now + Expiry(t[2])]
  /\ revoked' = revoked \cup {t}
  /\ UNCHANGED <<slot, slotUntil, stored>>

\* Redis DEL refresh_token:<user>: whichever token the slot holds by now
DelSlotKey(u) ==
  /\ slot' = [slot EXCEPT ![u] = NoPair]
  /\ slotUntil' = [slotUntil EXCEPT ![u] = 0]
  /\ UNCHANGED <<stored, revokedUntil, revoked>>

-----------------------------------------------------------------------------
(* GenerateTokenPair for a login, a registration or an authorization code. *)

BeginIssue(r, u) ==
  /\ pc[r] = "idle"
  /\ op' = [op EXCEPT ![r] = "issue"]
  /\ SignPair(r, u)
  /\ UNCHANGED <<now, redis, delivered, ended, swallowed, tok>>

\* The pair is returned to the caller once the slot is written; the
\* first-party refresh first looks at the token and the user again.
Store(r) ==
  /\ pc[r] = "store"
  /\ SetSlot(owner[new[r]], new[r])
  /\ IF op[r] = "refresh"
       THEN Goto(r, "recheck") /\ UNCHANGED <<op, tok, new, delivered>>
       ELSE Finish(r) /\ delivered' = delivered \cup {new[r]}
  /\ UNCHANGED <<now, claims, ended, swallowed>>

-----------------------------------------------------------------------------
(* RefreshToken, called by the first-party refresh endpoint and by the     *)
(* OAuth refresh_token grant.                                              *)

\* authTokenService.RefreshToken goes straight to tokenService.RefreshToken.
BeginRefresh(r, t) ==
  /\ pc[r] = "idle"
  /\ Presented(t) /\ Accepts(t, "refresh")
  /\ op' = [op EXCEPT ![r] = "refresh"]
  /\ tok' = [tok EXCEPT ![r] = t]
  /\ Goto(r, "compare")
  /\ UNCHANGED <<now, claims, redis, delivered, ended, swallowed, new>>

\* handleRefreshTokenGrant validates the token itself and then calls
\* tokenService.RefreshToken, which validates it a second time.
BeginGrant(r, t) ==
  /\ pc[r] = "idle"
  /\ Presented(t) /\ Accepts(t, "refresh")
  /\ op' = [op EXCEPT ![r] = "grant"]
  /\ tok' = [tok EXCEPT ![r] = t]
  /\ Goto(r, "validate")
  /\ UNCHANGED <<now, claims, redis, delivered, ended, swallowed, new>>

Revalidate(r) ==
  /\ pc[r] = "validate"
  /\ IF Accepts(tok[r], "refresh")
       THEN Goto(r, "compare") /\ UNCHANGED <<op, tok, new>>
       ELSE Finish(r)
  /\ UNCHANGED <<now, claims, redis, delivered, ended, swallowed>>

\* Mutant: the presented pair is signed anew with a later expiry.
CompareSlotSliding(r) ==
  /\ pc[r] = "compare"
  /\ LET p == tok[r][1] IN
       \/ /\ SlotPair(owner[p]) = p
          /\ iat' = [iat EXCEPT ![p] = now]
          /\ new' = [new EXCEPT ![r] = p]
          /\ Goto(r, "store")
          /\ UNCHANGED <<op, tok>>
       \/ /\ SlotPair(owner[p]) # p
          /\ Finish(r)
          /\ UNCHANGED iat
  /\ UNCHANGED <<now, owner, redis, delivered, ended, swallowed>>

\* Mutant: no rotation, the presented refresh token is stored again.
CompareSlotWithoutRotation(r) ==
  /\ pc[r] = "compare"
  /\ LET p == tok[r][1] IN
       \/ /\ SlotPair(owner[p]) = p
          /\ new' = [new EXCEPT ![r] = p]
          /\ Goto(r, "store")
          /\ UNCHANGED <<op, tok>>
       \/ /\ SlotPair(owner[p]) # p
          /\ Finish(r)
  /\ UNCHANGED <<now, claims, redis, delivered, ended, swallowed>>

\* The slot must hold the presented token; the new pair is signed from its
\* claims and stored by a later command.
CompareSlot(r) ==
  /\ pc[r] = "compare"
  /\ LET p == tok[r][1] IN
       \/ /\ SlotPair(owner[p]) = p
          /\ SignPair(r, owner[p])
          /\ UNCHANGED <<op, tok>>
       \/ /\ SlotPair(owner[p]) # p
          /\ Finish(r)
          /\ UNCHANGED claims
  /\ UNCHANGED <<now, redis, delivered, ended, swallowed>>

\* authTokenService.RefreshToken validates the token it has just been given
Recheck(r) ==
  /\ pc[r] = "recheck"
  /\ IF Accepts(<<new[r], "refresh">>, "refresh")
       THEN Goto(r, "loadUser") /\ UNCHANGED <<op, tok, new>>
       ELSE Finish(r)
  /\ UNCHANGED <<now, claims, redis, delivered, ended, swallowed>>

\* ... and drops it when the user is unknown, disabled or cannot be read.
LoadUser(r) ==
  /\ pc[r] = "loadUser"
  /\ delivered' \in {delivered, delivered \cup {new[r]}}
  /\ Finish(r)
  /\ UNCHANGED <<now, claims, redis, ended, swallowed>>

-----------------------------------------------------------------------------
(* Logout: RevokeToken of the access token, then of whatever refresh token *)
(* the user's slot holds.                                                  *)

BeginLogout(r, t) ==
  /\ pc[r] = "idle"
  /\ Presented(t) /\ Accepts(t, "access")
  /\ op' = [op EXCEPT ![r] = "logout"]
  /\ tok' = [tok EXCEPT ![r] = t]
  /\ Goto(r, "revokeCheck")
  /\ UNCHANGED <<now, claims, redis, delivered, ended, swallowed, new>>

\* Mutant: the refresh token is revoked as if it were an access token.
RevokeCheckAsAccess(r) ==
  /\ pc[r] = "revokeCheck"
  /\ IF Accepts(tok[r], "access")
       THEN Goto(r, "revokeSet") /\ UNCHANGED <<op, tok, new, ended>>
       ELSE /\ Finish(r)
            /\ ended' = IF tok[r][2] = "refresh" THEN ended \cup {tok[r][1]}
                                                 ELSE ended
  /\ UNCHANGED <<now, claims, redis, delivered, swallowed>>

\* RevokeToken validates first.  An error on the access token fails the
\* logout; on the refresh token it is ignored, and the logout succeeds.
RevokeCheck(r) ==
  /\ pc[r] = "revokeCheck"
  /\ IF Accepts(tok[r], tok[r][2])
       THEN Goto(r, "revokeSet") /\ UNCHANGED <<op, tok, new, ended>>
       ELSE /\ Finish(r)
            /\ ended' = IF tok[r][2] = "refresh" THEN ended \cup {tok[r][1]}
                                                 ELSE ended
  /\ UNCHANGED <<now, claims, redis, delivered, swallowed>>

RevokeSet(r) ==
  /\ pc[r] = "revokeSet"
  /\ SetRevoked(tok[r])
  /\ Goto(r, IF tok[r][2] = "refresh" THEN "delSlot" ELSE "getSlot")
  /\ UNCHANGED <<now, claims, delivered, ended, swallowed, op, tok, new>>

\* Mutant: the empty slot is not told from a token.
GetSlotUnguarded(r) ==
  /\ pc[r] = "getSlot"
  /\ tok' = [tok EXCEPT ![r] = <<SlotPair(owner[tok[r][1]]), "refresh">>]
  /\ Goto(r, "revokeCheck")
  /\ UNCHANGED <<now, claims, redis, delivered, ended, swallowed, op, new>>

\* No refresh token in the slot: the logout is over.
GetSlot(r) ==
  /\ pc[r] = "getSlot"
  /\ LET p == SlotPair(owner[tok[r][1]]) IN
       \/ p = NoPair /\ Finish(r)
       \/ /\ p # NoPair
          /\ tok' = [tok EXCEPT ![r] = <<p, "refresh">>]
          /\ Goto(r, "revokeCheck")
          /\ UNCHANGED <<op, new>>
  /\ UNCHANGED <<now, claims, redis, delivered, ended, swallowed>>

DelSlot(r) ==
  /\ pc[r] = "delSlot"
  /\ DelSlotKey(owner[tok[r][1]])
  /\ ended' = ended \cup {tok[r][1]}
  /\ Finish(r)
  /\ UNCHANGED <<now, claims, delivered, swallowed>>

-----------------------------------------------------------------------------
(* A Redis command returns an error: every caller gives up at once.  A     *)
(* write may have been applied although its reply was lost.                *)

\* The pair whose refresh token a logout is about, once its access token is
\* revoked: the one in the slot it is reading, then the one it read there.
LogoutPair(r) ==
  {p \in Pairs : op[r] = "logout" /\ \/ pc[r] = "getSlot" /\ SlotPair(owner[tok[r][1]]) = p
                                     \/ pc[r] # "getSlot" /\ tok[r] = <<p, "refresh">>}

\* Logout ignores every error of its refresh part, the GET of the slot and
\* the RevokeToken of what it found, and returns success all the same: with
\* the refresh token unrevoked, if the error came before its entry was written.
RedisError(r) ==
  /\ RedisMayFail
  /\ pc[r] \notin {"idle", "loadUser"}
  /\ Finish(r)
  /\ ended' = ended \cup LogoutPair(r)
  /\ \/ /\ UNCHANGED redis
        /\ swallowed' = swallowed \cup {p \in LogoutPair(r) : <<p, "refresh">> \notin revoked}
     \/ /\ \/ pc[r] = "store" /\ SetSlot(owner[new[r]], new[r])
           \/ pc[r] = "revokeSet" /\ SetRevoked(tok[r])
           \/ pc[r] = "delSlot" /\ DelSlotKey(owner[tok[r][1]])
        /\ UNCHANGED swallowed
  /\ UNCHANGED <<now, claims, delivered>>

Tick ==
  /\ now < MaxTime
  /\ now' = now + 1
  /\ UNCHANGED <<claims, redis, delivered, ended, swallowed, request>>

Next ==
  \/ \E r \in Requests :
       \/ \E u \in Users : BeginIssue(r, u)
       \/ \E t \in Tokens : BeginRefresh(r, t) \/ BeginGrant(r, t) \/ BeginLogout(r, t)
       \/ Store(r) \/ Revalidate(r) \/ CompareSlot(r) \/ Recheck(r) \/ LoadUser(r)
       \/ RevokeCheck(r) \/ RevokeSet(r) \/ GetSlot(r) \/ DelSlot(r)
       \/ RedisError(r)
  \/ Tick

Spec == Init /\ [][Next]_vars

-----------------------------------------------------------------------------
(* The inductive invariant behind the theorems of TokenServiceProofs.      *)

\* No pair was issued in the future; what is stored was signed before.
ClaimsInv ==
  /\ \A p \in Pairs : owner[p] # NoUser => iat[p] <= now
  /\ \A p \in stored : owner[p] # NoUser
  /\ delivered \subseteq stored

\* A revocation entry covers the rest of its token's lifetime.
RevocationInv ==
  /\ \A t \in revoked : t[1] \in stored /\ ExpiresAt(t) <= revokedUntil[t]
  /\ \A t \in Tokens \ revoked : revokedUntil[t] = 0

\* A slot holds a pair of its own user.
SlotInv ==
  \A u \in Users : slot[u] # NoPair => slot[u] \in stored /\ owner[slot[u]] = u

\* A pair waiting to be stored is known to one request only and was never
\* stored before; a request works on a stored token of a signed pair.
RequestInv ==
  /\ \A r \in Requests :
       /\ pc[r] = "store" => /\ new[r] \in Pairs \ stored
                             /\ owner[new[r]] # NoUser
       /\ pc[r] \in {"recheck", "loadUser"} => new[r] \in stored
       /\ pc[r] \in {"validate", "compare", "revokeCheck", "revokeSet",
                      "getSlot", "delSlot"}
            => tok[r] \in Tokens /\ tok[r][1] \in stored
       /\ pc[r] = "delSlot" => tok[r] \in revoked /\ tok[r][2] = "refresh"
       /\ op[r] = "logout" => pc[r] \in {"revokeCheck", "revokeSet", "getSlot", "delSlot"}
  /\ \A r, s \in Requests :
       pc[r] = "store" /\ pc[s] = "store" /\ new[r] = new[s] => r = s

\* The refresh token a logout ended is revoked, unless it had expired or the
\* logout ignored an error.
EndedInv ==
  \A p \in ended : /\ p \in stored
                   /\ \/ <<p, "refresh">> \in revoked
                      \/ iat[p] + RefreshExpiry <= now
                      \/ p \in swallowed

IInv == TypeOK /\ ClaimsInv /\ RevocationInv /\ SlotInv /\ RequestInv /\ EndedInv

-----------------------------------------------------------------------------
(* Properties.                                                             *)

\* A token whose revocation was once recorded is never accepted again: its
\* entry in Redis does not run out before the token itself does, whatever
\* the two expiries are and however late the revocation came.
RevokedNeverAccepted == \A t \in revoked : ~Accepts(t, t[2])

\* A refresh token that left its slot, displaced by a rotation or a login or
\* deleted by a logout, never comes back to it, in whatever order the
\* requests that signed pairs get to write them.
NoResurrection ==
  [][\A u \in Users : slot'[u] \in stored => slot'[u] = slot[u]]_vars

\* The refresh token a logout found in its user's slot is of no use once the
\* logout has returned success, whatever other requests did meanwhile, with one
\* exception: Logout returns success over a Redis error of its refresh part too,
\* and the token lives on if that error came before its revocation was written
\* (and no other logout has written it since).  An error that comes later, or
\* whose command was applied all the same, leaves nothing behind.
LogoutEndsItsToken ==
  \A p \in ended : Usable(<<p, "refresh">>) => p \in swallowed /\ <<p, "refresh">> \notin revoked

\* The stage of each token as a client sees it, and the user of each recorded pair
lifeOf == [t \in Tokens |-> IF t[1] \notin stored THEN "none"
                            ELSE IF Usable(t) THEN "live" ELSE "dead"]
holderOf == [p \in Pairs |-> IF p \in stored THEN owner[p] ELSE NoUser]

\* Tokens live and die as TokenLifecycle says: once dead, dead for ever, and
\* one live refresh token per user.
Lifecycle == INSTANCE TokenLifecycle WITH life <- lifeOf, holder <- holderOf

ImplementsLifecycle == Lifecycle!Spec

=============================================================================
