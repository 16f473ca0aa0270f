------------------------- MODULE TokenServiceProofs -------------------------
(***************************************************************************)
(* Theorems of TokenService for any sets of users, pairs and requests, any *)
(* expiries and any bound on the clock, with Redis failing or not.         *)
(***************************************************************************)
EXTENDS TokenService, TLAPS

\* The initial state satisfies the invariant.
LEMMA InitInv == Init => IInv
  <1> SUFFICES ASSUME Init PROVE IInv
    OBVIOUS
  <1> USE DEF Init
  <1>1. TypeOK
    BY DEF TypeOK, Labels, Operations, NoToken
  <1>2. ClaimsInv /\ RevocationInv /\ SlotInv /\ RequestInv /\ EndedInv
    BY TokenServiceAssumption
    DEF ClaimsInv, RevocationInv, SlotInv, RequestInv, EndedInv, Tokens, Kinds
  <1> QED  BY <1>1, <1>2 DEF IInv

\* Expiries are numbers, so are expiry times, and a slot read is a pair or none.
LEMMA Numbers ==
  ASSUME TypeOK
  PROVE  /\ \A k \in Kinds : Expiry(k) \in Nat
         /\ \A t \in Tokens : /\ t[1] \in Pairs /\ t[2] \in Kinds
                              /\ ExpiresAt(t) \in Nat /\ revokedUntil[t] \in Nat
         /\ \A u \in Users : SlotPair(u) \in Pairs \cup {NoPair}
  BY TokenServiceAssumption DEF TypeOK, Expiry, ExpiresAt, Tokens, Kinds, SlotPair

\* A token is the tuple of its pair and its kind.
LEMMA TokenParts ==
  ASSUME NEW t \in Tokens
  PROVE  t = <<t[1], t[2]>> /\ t[1] \in Pairs /\ t[2] \in Kinds
  BY DEF Tokens

\* The slot a logout reads holds a stored pair, or none.
LEMMA SlotRead ==
  ASSUME IInv, NEW r \in Requests, pc[r] = "getSlot",
         NEW p, p = SlotPair(owner[tok[r][1]])
  PROVE  /\ p \in Pairs \cup {NoPair}
         /\ p # NoPair => <<p, "refresh">> \in Tokens /\ p \in stored
  <1>1. tok[r] \in Tokens /\ tok[r][1] \in stored
    BY DEF IInv, RequestInv
  <1>2. owner[tok[r][1]] \in Users
    BY <1>1 DEF IInv, ClaimsInv, TypeOK, Tokens
  <1> QED
    BY <1>2, Numbers, TokenServiceAssumption DEF SlotPair, IInv, SlotInv, TypeOK, Tokens, Kinds

\* Every step preserves the types: RequestInv says which tokens and pairs the
\* requests hold when they use them.
LEMMA TypeStep == IInv /\ [Next]_vars => TypeOK'
  <1> SUFFICES ASSUME IInv, [Next]_vars PROVE TypeOK'
    OBVIOUS
  <1> USE TokenServiceAssumption, Numbers
      DEF IInv, TypeOK, Labels, Operations, claims, redis, request
  <1>1. ASSUME NEW r \in Requests, NEW u \in Users, BeginIssue(r, u)
        PROVE  TypeOK'
    BY <1>1 DEF BeginIssue, SignPair, Goto
  <1>2. ASSUME NEW r \in Requests, NEW t \in Tokens,
               BeginRefresh(r, t) \/ BeginGrant(r, t) \/ BeginLogout(r, t)
        PROVE  TypeOK'
    BY <1>2 DEF BeginRefresh, BeginGrant, BeginLogout, Goto
  <1>3. ASSUME NEW r \in Requests, Store(r)
        PROVE  TypeOK'
    BY <1>3 DEF Store, SetSlot, Finish, Goto, RequestInv
  <1>4. ASSUME NEW r \in Requests, Revalidate(r) \/ Recheck(r) \/ LoadUser(r)
        PROVE  TypeOK'
    BY <1>4 DEF Revalidate, Recheck, LoadUser, Finish, Goto, RequestInv, ClaimsInv
  <1>5. ASSUME NEW r \in Requests, CompareSlot(r)
        PROVE  TypeOK'
    <2>1. tok[r] \in Tokens /\ owner[tok[r][1]] \in Users
      BY <1>5 DEF CompareSlot, RequestInv, ClaimsInv, Tokens
    <2>2. CASE SignPair(r, owner[tok[r][1]]) /\ UNCHANGED <<op, tok>>
      BY <1>5, <2>1, <2>2 DEF CompareSlot, SignPair, Goto
    <2>3. CASE Finish(r) /\ UNCHANGED claims
      BY <1>5, <2>3 DEF CompareSlot, Finish, Goto
    <2> QED
      BY <1>5, <2>2, <2>3 DEF CompareSlot
  <1>6. ASSUME NEW r \in Requests, RevokeCheck(r) \/ RevokeSet(r)
        PROVE  TypeOK'
    BY <1>6 DEF RevokeCheck, RevokeSet, SetRevoked, Finish, Goto, RequestInv
  <1>7. ASSUME NEW r \in Requests, GetSlot(r)
        PROVE  TypeOK'
    <2>1. tok' \in [Requests -> Tokens \cup {NoToken}]
      BY <1>7, SlotRead DEF GetSlot, Finish
    <2> QED
      BY <1>7, <2>1 DEF GetSlot, Finish, Goto
  <1>8. ASSUME NEW r \in Requests, DelSlot(r)
        PROVE  TypeOK'
    BY <1>8 DEF DelSlot, DelSlotKey, Finish, Goto, RequestInv, ClaimsInv
  <1>9. ASSUME NEW r \in Requests, RedisError(r)
        PROVE  TypeOK'
    <2>1. ended' \subseteq Pairs /\ swallowed' \subseteq Pairs
      BY <1>9 DEF RedisError, LogoutPair
    <2>2. CASE UNCHANGED redis
      BY <1>9, <2>1, <2>2 DEF RedisError, Finish, Goto
    <2>3. CASE pc[r] = "store" /\ SetSlot(owner[new[r]], new[r])
      BY <1>9, <2>1, <2>3 DEF RedisError, SetSlot, Finish, Goto, RequestInv
    <2>4. CASE pc[r] = "revokeSet" /\ SetRevoked(tok[r])
      BY <1>9, <2>1, <2>4 DEF RedisError, SetRevoked, Finish, Goto, RequestInv
    <2>5. CASE pc[r] = "delSlot" /\ DelSlotKey(owner[tok[r][1]])
      BY <1>9, <2>1, <2>5 DEF RedisError, DelSlotKey, Finish, Goto, RequestInv, ClaimsInv
    <2> QED
      BY <1>9, <2>2, <2>3, <2>4, <2>5 DEF RedisError
  <1>10. CASE Tick
    BY <1>10 DEF Tick
  <1>11. CASE UNCHANGED vars
    BY <1>11 DEF vars
  <1> QED
    BY <1>1, <1>2, <1>3, <1>4, <1>5, <1>6, <1>7, <1>8, <1>9, <1>10, <1>11 DEF Next

\* A pair is signed with the current time and stored only once it is signed.
LEMMA ClaimsStep == IInv /\ [Next]_vars => ClaimsInv'
  <1> SUFFICES ASSUME IInv, [Next]_vars PROVE ClaimsInv'
    BY TypeStep
  <1> USE TokenServiceAssumption
      DEF IInv, TypeOK, claims, redis, request, ClaimsInv, RequestInv
  <1>1. ASSUME NEW r \in Requests, NEW u \in Users, BeginIssue(r, u)
        PROVE  ClaimsInv'
    BY <1>1 DEF BeginIssue, SignPair, Goto
  <1>2. ASSUME NEW r \in Requests, NEW t \in Tokens,
               BeginRefresh(r, t) \/ BeginGrant(r, t) \/ BeginLogout(r, t)
        PROVE  ClaimsInv'
    BY <1>2 DEF BeginRefresh, BeginGrant, BeginLogout, Goto
  <1>3. ASSUME NEW r \in Requests, Store(r)
        PROVE  ClaimsInv'
    BY <1>3 DEF Store, SetSlot, Finish, Goto
  <1>4. ASSUME NEW r \in Requests, Revalidate(r) \/ Recheck(r) \/ LoadUser(r)
        PROVE  ClaimsInv'
    BY <1>4 DEF Revalidate, Recheck, LoadUser, Finish, Goto
  <1>5. ASSUME NEW r \in Requests, CompareSlot(r)
        PROVE  ClaimsInv'
    BY <1>5 DEF CompareSlot, SignPair, Finish, Goto
  <1>6. ASSUME NEW r \in Requests, RevokeCheck(r) \/ RevokeSet(r)
        PROVE  ClaimsInv'
    BY <1>6 DEF RevokeCheck, RevokeSet, SetRevoked, Finish, Goto
  <1>7. ASSUME NEW r \in Requests, GetSlot(r)
        PROVE  ClaimsInv'
    BY <1>7 DEF GetSlot, Finish, Goto
  <1>8. ASSUME NEW r \in Requests, DelSlot(r)
        PROVE  ClaimsInv'
    BY <1>8 DEF DelSlot, DelSlotKey, Finish, Goto
  <1>9. ASSUME NEW r \in Requests, RedisError(r)
        PROVE  ClaimsInv'
    BY <1>9 DEF RedisError, SetSlot, SetRevoked, DelSlotKey, Finish, Goto
  <1>10. CASE Tick
    BY <1>10 DEF Tick
  <1>11. CASE UNCHANGED vars
    BY <1>11 DEF vars
  <1> QED
    BY <1>1, <1>2, <1>3, <1>4, <1>5, <1>6, <1>7, <1>8, <1>9, <1>10, <1>11 DEF Next

\* A revocation is written no earlier than its token was issued and lasts a
\* full lifetime, so it ends no earlier than the token.
LEMMA RevocationStep == IInv /\ [Next]_vars => RevocationInv'
  <1> SUFFICES ASSUME IInv, [Next]_vars PROVE RevocationInv'
    BY TypeStep
  <1> USE TokenServiceAssumption, Numbers
      DEF IInv, TypeOK, claims, redis, request, ClaimsInv, RequestInv, RevocationInv, ExpiresAt
  <1>1. ASSUME NEW r \in Requests, NEW u \in Users, BeginIssue(r, u)
        PROVE  RevocationInv'
    BY <1>1 DEF BeginIssue, SignPair, Goto
  <1>2. ASSUME NEW r \in Requests, NEW t \in Tokens,
               BeginRefresh(r, t) \/ BeginGrant(r, t) \/ BeginLogout(r, t)
        PROVE  RevocationInv'
    BY <1>2 DEF BeginRefresh, BeginGrant, BeginLogout, Goto
  <1>3. ASSUME NEW r \in Requests, Store(r)
        PROVE  RevocationInv'
    BY <1>3 DEF Store, SetSlot, Finish, Goto
  <1>4. ASSUME NEW r \in Requests, Revalidate(r) \/ Recheck(r) \/ LoadUser(r)
        PROVE  RevocationInv'
    BY <1>4 DEF Revalidate, Recheck, LoadUser, Finish, Goto
  <1>5. ASSUME NEW r \in Requests, CompareSlot(r)
        PROVE  RevocationInv'
    BY <1>5 DEF CompareSlot, SignPair, Finish, Goto
  <1>6. ASSUME NEW r \in Requests, RevokeCheck(r) \/ RevokeSet(r)
        PROVE  RevocationInv'
    BY <1>6 DEF RevokeCheck, RevokeSet, SetRevoked, Finish, Goto
  <1>7. ASSUME NEW r \in Requests, GetSlot(r)
        PROVE  RevocationInv'
    BY <1>7 DEF GetSlot, Finish, Goto
  <1>8. ASSUME NEW r \in Requests, DelSlot(r)
        PROVE  RevocationInv'
    BY <1>8 DEF DelSlot, DelSlotKey, Finish, Goto
  <1>9. ASSUME NEW r \in Requests, RedisError(r)
        PROVE  RevocationInv'
    BY <1>9 DEF RedisError, SetSlot, SetRevoked, DelSlotKey, Finish, Goto
  <1>10. CASE Tick
    BY <1>10 DEF Tick
  <1>11. CASE UNCHANGED vars
    BY <1>11 DEF vars
  <1> QED
    BY <1>1, <1>2, <1>3, <1>4, <1>5, <1>6, <1>7, <1>8, <1>9, <1>10, <1>11 DEF Next

\* A pair is stored in the slot of the user it was signed for.
LEMMA SlotStep == IInv /\ [Next]_vars => SlotInv'
  <1> SUFFICES ASSUME IInv, [Next]_vars PROVE SlotInv'
    BY TypeStep
  <1> USE TokenServiceAssumption
      DEF IInv, TypeOK, claims, redis, request, ClaimsInv, RequestInv, SlotInv
  <1>1. ASSUME NEW r \in Requests, NEW u \in Users, BeginIssue(r, u)
        PROVE  SlotInv'
    BY <1>1 DEF BeginIssue, SignPair, Goto
  <1>2. ASSUME NEW r \in Requests, NEW t \in Tokens,
               BeginRefresh(r, t) \/ BeginGrant(r, t) \/ BeginLogout(r, t)
        PROVE  SlotInv'
    BY <1>2 DEF BeginRefresh, BeginGrant, BeginLogout, Goto
  <1>3. ASSUME NEW r \in Requests, Store(r)
        PROVE  SlotInv'
    BY <1>3 DEF Store, SetSlot, Finish, Goto
  <1>4. ASSUME NEW r \in Requests, Revalidate(r) \/ Recheck(r) \/ LoadUser(r)
        PROVE  SlotInv'
    BY <1>4 DEF Revalidate, Recheck, LoadUser, Finish, Goto
  <1>5. ASSUME NEW r \in Requests, CompareSlot(r)
        PROVE  SlotInv'
    BY <1>5 DEF CompareSlot, SignPair, Finish, Goto
  <1>6. ASSUME NEW r \in Requests, RevokeCheck(r) \/ RevokeSet(r)
        PROVE  SlotInv'
    BY <1>6 DEF RevokeCheck, RevokeSet, SetRevoked, Finish, Goto
  <1>7. ASSUME NEW r \in Requests, GetSlot(r)
        PROVE  SlotInv'
    BY <1>7 DEF GetSlot, Finish, Goto
  <1>8. ASSUME NEW r \in Requests, DelSlot(r)
        PROVE  SlotInv'
    BY <1>8 DEF DelSlot, DelSlotKey, Finish, Goto
  <1>9. ASSUME NEW r \in Requests, RedisError(r)
        PROVE  SlotInv'
    BY <1>9 DEF RedisError, SetSlot, SetRevoked, DelSlotKey, Finish, Goto
  <1>10. CASE Tick
    BY <1>10 DEF Tick
  <1>11. CASE UNCHANGED vars
    BY <1>11 DEF vars
  <1> QED
    BY <1>1, <1>2, <1>3, <1>4, <1>5, <1>6, <1>7, <1>8, <1>9, <1>10, <1>11 DEF Next

\* A signed pair is fresh, so it is no other request's pair and is not stored.
LEMMA RequestStep == IInv /\ [Next]_vars => RequestInv'
  <1> SUFFICES ASSUME IInv, [Next]_vars PROVE RequestInv'
    BY TypeStep
  <1> USE TokenServiceAssumption, Numbers
      DEF IInv, TypeOK, claims, redis, request, ClaimsInv, RequestInv, SlotInv
  <1>1. ASSUME NEW r \in Requests, NEW u \in Users, BeginIssue(r, u)
        PROVE  RequestInv'
    BY <1>1 DEF BeginIssue, SignPair, Goto
  <1>2. ASSUME NEW r \in Requests, NEW t \in Tokens,
               BeginRefresh(r, t) \/ BeginGrant(r, t) \/ BeginLogout(r, t)
        PROVE  RequestInv'
    BY <1>2 DEF BeginRefresh, BeginGrant, BeginLogout, Goto, Presented
  <1>3. ASSUME NEW r \in Requests, Store(r)
        PROVE  RequestInv'
    BY <1>3 DEF Store, SetSlot, Finish, Goto
  <1>4. ASSUME NEW r \in Requests, Revalidate(r) \/ Recheck(r) \/ LoadUser(r)
        PROVE  RequestInv'
    BY <1>4 DEF Revalidate, Recheck, LoadUser, Finish, Goto
  <1>5. ASSUME NEW r \in Requests, CompareSlot(r)
        PROVE  RequestInv'
    BY <1>5 DEF CompareSlot, SignPair, Finish, Goto
  <1>6. ASSUME NEW r \in Requests, RevokeCheck(r) \/ RevokeSet(r)
        PROVE  RequestInv'
    BY <1>6 DEF RevokeCheck, RevokeSet, SetRevoked, Finish, Goto
  <1>7. ASSUME NEW r \in Requests, GetSlot(r)
        PROVE  RequestInv'
    BY <1>7, SlotRead DEF GetSlot, Finish, Goto
  <1>8. ASSUME NEW r \in Requests, DelSlot(r)
        PROVE  RequestInv'
    BY <1>8 DEF DelSlot, DelSlotKey, Finish, Goto
  <1>9. ASSUME NEW r \in Requests, RedisError(r)
        PROVE  RequestInv'
    BY <1>9 DEF RedisError, SetSlot, SetRevoked, DelSlotKey, Finish, Goto
  <1>10. CASE Tick
    BY <1>10 DEF Tick
  <1>11. CASE UNCHANGED vars
    BY <1>11 DEF vars
  <1> QED
    BY <1>1, <1>2, <1>3, <1>4, <1>5, <1>6, <1>7, <1>8, <1>9, <1>10, <1>11 DEF Next

\* Time moves forward, history is kept, and the claims of a stored pair are fixed.
Onward ==
  /\ now <= now'
  /\ stored \subseteq stored' /\ revoked \subseteq revoked'
  /\ \A p \in stored : owner'[p] = owner[p] /\ iat'[p] = iat[p]

LEMMA OnwardStep == IInv /\ [Next]_vars => Onward
  <1> SUFFICES ASSUME IInv, [Next]_vars PROVE Onward
    OBVIOUS
  <1> USE DEF IInv, TypeOK, ClaimsInv, Onward, claims, redis, request
  <1>1. CASE \E r \in Requests : (\E u \in Users : BeginIssue(r, u)) \/ CompareSlot(r)
    BY <1>1 DEF BeginIssue, CompareSlot, SignPair
  <1>2. CASE \E r \in Requests, t \in Tokens :
               BeginRefresh(r, t) \/ BeginGrant(r, t) \/ BeginLogout(r, t)
    BY <1>2 DEF BeginRefresh, BeginGrant, BeginLogout
  <1>3. CASE \E r \in Requests : Store(r) \/ RevokeSet(r) \/ DelSlot(r) \/ RedisError(r)
    BY <1>3 DEF Store, RevokeSet, DelSlot, RedisError, SetSlot, SetRevoked, DelSlotKey
  <1>4. CASE \E r \in Requests : \/ Revalidate(r) \/ Recheck(r) \/ LoadUser(r)
                                 \/ RevokeCheck(r) \/ GetSlot(r)
    BY <1>4 DEF Revalidate, Recheck, LoadUser, RevokeCheck, GetSlot
  <1>5. CASE Tick \/ UNCHANGED vars
    BY <1>5 DEF Tick, vars
  <1> QED
    BY <1>1, <1>2, <1>3, <1>4, <1>5 DEF Next

\* A logout ends a token that it has revoked, or that was already revoked or
\* expired when it looked; what an error left unrevoked is on record.
LEMMA EndedStep == IInv /\ [Next]_vars => EndedInv'
  <1> SUFFICES ASSUME IInv, [Next]_vars, NEW p \in ended'
               PROVE  /\ p \in stored'
                      /\ \/ <<p, "refresh">> \in revoked'
                         \/ iat'[p] + RefreshExpiry <= now'
                         \/ p \in swallowed'
    BY DEF EndedInv
  <1>1. Onward /\ TypeOK'
    BY OnwardStep, TypeStep
  <1>2. CASE p \in ended
    <2>1. p \in stored /\ (\/ <<p, "refresh">> \in revoked
                            \/ iat[p] + RefreshExpiry <= now
                            \/ p \in swallowed)
      BY <1>2 DEF IInv, EndedInv
    <2>2. /\ iat[p] \in Nat /\ iat'[p] = iat[p]
          /\ now \in Nat /\ now' \in Nat /\ now <= now' /\ RefreshExpiry \in Nat
      BY <1>1, <2>1, TokenServiceAssumption DEF IInv, TypeOK, Onward
    <2>3. swallowed \subseteq swallowed'
      BY DEF Next, vars, request, BeginIssue, BeginRefresh, BeginGrant, BeginLogout,
             Store, Revalidate, CompareSlot, Recheck, LoadUser, RevokeCheck, RevokeSet,
             GetSlot, DelSlot, RedisError, Tick
    <2> QED
      BY <1>1, <2>1, <2>2, <2>3 DEF Onward
  <1>3. ASSUME NEW r \in Requests, RevokeCheck(r), p \notin ended
        PROVE  /\ p \in stored'
               /\ \/ <<p, "refresh">> \in revoked'
                  \/ iat'[p] + RefreshExpiry <= now'
    <2>1. /\ tok[r] \in Tokens /\ p = tok[r][1] /\ p \in stored
          /\ tok[r] = <<p, "refresh">> /\ ~Accepts(tok[r], "refresh")
      BY <1>3, TokenParts DEF RevokeCheck, IInv, RequestInv
    <2>2. RevokedEntry(tok[r]) => tok[r] \in revoked
      BY <2>1 DEF RevokedEntry, IInv, RevocationInv, TypeOK
    <2>3. ~(now < ExpiresAt(tok[r])) => iat[p] + RefreshExpiry <= now
      BY <2>1, TokenServiceAssumption DEF ExpiresAt, Expiry, IInv, TypeOK
    <2>4. UNCHANGED <<now, iat, revoked, stored>>
      BY <1>3 DEF RevokeCheck, claims, redis
    <2> QED
      BY <2>1, <2>2, <2>3, <2>4 DEF Accepts
  <1>4. ASSUME NEW r \in Requests, DelSlot(r), p \notin ended
        PROVE  p \in stored' /\ <<p, "refresh">> \in revoked'
    BY <1>4, TokenParts DEF DelSlot, DelSlotKey, IInv, RequestInv
  <1>5. ASSUME NEW r \in Requests, RedisError(r), p \notin ended
        PROVE  p \in stored' /\ (<<p, "refresh">> \in revoked' \/ p \in swallowed')
    <2>1. p \in LogoutPair(r)
      BY <1>5 DEF RedisError
    <2>2. p \in stored
      <3>1. CASE pc[r] = "getSlot" /\ SlotPair(owner[tok[r][1]]) = p
        <4>1. tok[r] \in Tokens /\ tok[r][1] \in stored
          BY <3>1 DEF IInv, RequestInv
        <4>2. owner[tok[r][1]] \in Users
          BY <4>1 DEF IInv, ClaimsInv, TypeOK
        <4> QED
          BY <2>1, <3>1, <4>2, TokenServiceAssumption
          DEF SlotPair, LogoutPair, IInv, SlotInv, TypeOK
      <3>2. CASE pc[r] # "getSlot" /\ tok[r] = <<p, "refresh">>
        <4>1. pc[r] \in {"revokeCheck", "revokeSet", "delSlot"}
          BY <1>5, <3>2, <2>1 DEF LogoutPair, RedisError, IInv, TypeOK, Labels, RequestInv
        <4> QED
          BY <3>2, <4>1 DEF IInv, RequestInv
      <3> QED
        BY <2>1, <3>1, <3>2 DEF LogoutPair
    <2>3. stored \subseteq stored' /\ revoked \subseteq revoked'
      BY <1>1 DEF Onward
    <2>4. CASE /\ UNCHANGED redis
               /\ swallowed' = swallowed \cup {q \in LogoutPair(r) : <<q, "refresh">> \notin revoked}
      BY <2>1, <2>2, <2>3, <2>4
    <2>5. CASE pc[r] = "store" /\ SetSlot(owner[new[r]], new[r])
      BY <2>1, <2>5 DEF LogoutPair, IInv, RequestInv
    <2>6. CASE pc[r] = "revokeSet" /\ SetRevoked(tok[r])
      <3>1. tok[r] = <<p, "refresh">>
        BY <2>1, <2>6 DEF LogoutPair
      <3> QED
        BY <2>2, <2>3, <2>6, <3>1 DEF SetRevoked
    <2>7. CASE pc[r] = "delSlot" /\ DelSlotKey(owner[tok[r][1]])
      <3>1. tok[r] = <<p, "refresh">> /\ tok[r] \in revoked
        BY <2>1, <2>7 DEF LogoutPair, IInv, RequestInv
      <3> QED
        BY <2>2, <2>3, <3>1
    <2> QED
      BY <1>5, <2>4, <2>5, <2>6, <2>7 DEF RedisError
  <1>6. ended' # ended => \E r \in Requests : RevokeCheck(r) \/ DelSlot(r) \/ RedisError(r)
    BY DEF Next, vars, request, BeginIssue, BeginRefresh, BeginGrant, BeginLogout,
           Store, Revalidate, CompareSlot, Recheck, LoadUser, RevokeSet, GetSlot, Tick
  <1> QED
    BY <1>2, <1>3, <1>4, <1>5, <1>6

\* The invariant holds in every reachable state.
THEOREM Invariance == Spec => []IInv
  <1>1. IInv /\ [Next]_vars => IInv'
    BY TypeStep, ClaimsStep, RevocationStep, SlotStep, RequestStep, EndedStep DEF IInv
  <1> QED
    BY InitInv, <1>1, PTL DEF Spec

\* Whatever the requests do, the state keeps its types.
THEOREM TypeCorrect == Spec => []TypeOK
  BY Invariance, PTL DEF IInv

-----------------------------------------------------------------------------

LEMMA RevokedNotAccepted == IInv => RevokedNeverAccepted
  <1> SUFFICES ASSUME IInv, NEW t \in revoked PROVE ~Accepts(t, t[2])
    BY DEF RevokedNeverAccepted
  <1>1. ExpiresAt(t) <= revokedUntil[t] /\ t \in Tokens
    BY DEF IInv, RevocationInv, TypeOK
  <1>2. ExpiresAt(t) \in Nat /\ revokedUntil[t] \in Nat /\ now \in Nat
    BY <1>1, Numbers DEF IInv, TypeOK
  <1> QED
    BY <1>1, <1>2 DEF Accepts, RevokedEntry

\* A recorded revocation outlives the token, for every pair of expiries: no
\* request accepts a revoked token, ever.
THEOREM RevocationIsFinal == Spec => []RevokedNeverAccepted
  BY Invariance, RevokedNotAccepted, PTL

LEMMA EndedNotUsable == IInv => LogoutEndsItsToken
  <1> SUFFICES ASSUME IInv, NEW p \in ended, Usable(<<p, "refresh">>)
               PROVE  p \in swallowed /\ <<p, "refresh">> \notin revoked
    BY DEF LogoutEndsItsToken
  <1>1. \/ <<p, "refresh">> \in revoked
        \/ iat[p] + RefreshExpiry <= now
        \/ p \in swallowed
    BY DEF IInv, EndedInv
  <1>2. <<p, "refresh">> \notin revoked
    BY RevokedNotAccepted DEF RevokedNeverAccepted, Usable
  <1>3. ~(iat[p] + RefreshExpiry <= now)
    <2>1. iat[p] \in Nat /\ now \in Nat /\ RefreshExpiry \in Nat
      BY TokenServiceAssumption DEF IInv, TypeOK
    <2> QED
      BY <2>1 DEF Usable, Accepts, ExpiresAt, Expiry
  <1> QED
    BY <1>1, <1>2, <1>3

\* The refresh token a successful logout found is of no use afterwards, under
\* every interleaving with refreshes, logins and other logouts, unless the
\* logout ignored a Redis error and the revocation was never written.
THEOREM LogoutIsEffective == Spec => []LogoutEndsItsToken
  BY Invariance, EndedNotUsable, PTL

-----------------------------------------------------------------------------

\* The commands that change what is stored, revoked or in the slots.
Writes(r) == Store(r) \/ RevokeSet(r) \/ DelSlot(r) \/ RedisError(r)

LEMMA OnlyWrites ==
  [Next]_vars => \/ UNCHANGED redis
                 \/ \E r \in Requests : Writes(r)
  BY DEF Next, vars, Writes, BeginIssue, BeginRefresh, BeginGrant, BeginLogout,
         Revalidate, CompareSlot, Recheck, LoadUser, RevokeCheck, GetSlot, Tick

\* ... and each of them is one Redis command.
LEMMA WriteIsCommand ==
  ASSUME IInv, NEW r \in Requests, Writes(r)
  PROVE  /\ UNCHANGED <<now, claims>>
         /\ \/ UNCHANGED redis
            \/ /\ new[r] \in Pairs \ stored /\ owner[new[r]] \in Users
               /\ SetSlot(owner[new[r]], new[r])
            \/ tok[r] \in Tokens /\ tok[r][1] \in stored /\ SetRevoked(tok[r])
            \/ \E u \in Users : DelSlotKey(u)
  BY DEF Writes, Store, RevokeSet, DelSlot, RedisError, IInv, TypeOK, RequestInv,
         ClaimsInv

\* A pair that left its slot is never written to it again: a pair is signed
\* once, and only the request that signed it writes it, once.
THEOREM NoTokenReturns == Spec => NoResurrection
  <1>1. IInv /\ [Next]_vars =>
          [\A u \in Users : slot'[u] \in stored => slot'[u] = slot[u]]_vars
    <2> SUFFICES ASSUME IInv, [Next]_vars, NEW u \in Users, slot'[u] \in stored
                 PROVE  slot'[u] = slot[u]
      OBVIOUS
    <2>1. CASE UNCHANGED redis
      BY <2>1 DEF redis
    <2>2. ASSUME NEW r \in Requests, Writes(r)
          PROVE  slot'[u] = slot[u]
      BY <2>2, WriteIsCommand, TokenServiceAssumption
      DEF SetSlot, SetRevoked, DelSlotKey, redis, IInv, TypeOK
    <2> QED
      BY <2>1, <2>2, OnlyWrites
  <1> QED
    BY Invariance, <1>1, PTL DEF Spec, NoResurrection

-----------------------------------------------------------------------------
(* Refinement: TokenService implements TokenLifecycle.                     *)

LEMMA InitLifecycle == Init => Lifecycle!Init
  BY DEF Init, Lifecycle!Init, lifeOf, holderOf, Lifecycle!Tokens, Tokens,
         Lifecycle!Kinds, Kinds

\* A step that stores no pair only ever ends tokens.
LEMMA OnlyRetires ==
  ASSUME IInv, [Next]_vars, stored' = stored,
         \A t \in Tokens : t[1] \in stored /\ Usable(t)' => Usable(t)
  PROVE  [Lifecycle!Next]_(Lifecycle!lifecycleVars)
  <1> DEFINE gone == {t \in Tokens : t[1] \in stored /\ Usable(t) /\ ~Usable(t)'}
  <1>1. lifeOf' = [t \in Tokens |-> IF t \in gone THEN "dead" ELSE lifeOf[t]]
    BY DEF lifeOf
  <1>2. gone \subseteq {t \in Tokens : lifeOf[t] = "live"}
    BY DEF lifeOf
  <1>3. holderOf' = holderOf
    BY OnwardStep DEF Onward, holderOf
  <1>4. Lifecycle!Retire(gone)
    BY <1>1, <1>2, <1>3 DEF Lifecycle!Retire, Lifecycle!Tokens, Tokens,
       Lifecycle!Kinds, Kinds
  <1> QED
    BY <1>4, <1>2 DEF Lifecycle!Next, Lifecycle!Tokens, Tokens, Lifecycle!Kinds, Kinds

\* Storing a pair bears it, and displaces the live refresh token of its user.
LEMMA StoreBears ==
  ASSUME IInv, IInv', NEW p \in Pairs \ stored, owner[p] \in Users,
         SetSlot(owner[p], p), UNCHANGED <<now, claims>>
  PROVE  Lifecycle!Bear(p, owner[p])
  <1> DEFINE u == owner[p]
             alive == {k \in Kinds : Usable(<<p, k>>)'}
  <1> USE DEF IInv, TypeOK, claims
  <1>1. holderOf[p] = NoUser /\ holderOf' = [holderOf EXCEPT ![p] = u]
    BY DEF holderOf, SetSlot
  <1>2. \A t \in Tokens : t[1] # p => (Accepts(t, t[2])' <=> Accepts(t, t[2]))
    BY DEF Accepts, RevokedEntry, ExpiresAt, Expiry, SetSlot
  <1>3. \A t \in Tokens : t[1] # p /\ t[2] = "refresh" /\ owner[t[1]] = u
                            => ~Usable(t)'
    BY TokenServiceAssumption, TokenParts DEF Usable, SlotPair, SetSlot
  <1>4. \A t \in Tokens : /\ t[1] # p /\ t[1] \in stored
                           /\ ~(t[2] = "refresh" /\ owner[t[1]] = u)
                            => (Usable(t)' <=> Usable(t))
    BY <1>2, TokenParts DEF Usable, SlotPair, SetSlot, ClaimsInv
  <1>5. \A t \in Tokens : lifeOf'[t] =
           IF t[1] = p THEN IF t[2] \in alive THEN "live" ELSE "dead"
           ELSE IF /\ t[2] = "refresh"
                   /\ holderOf[t[1]] = u
                   /\ lifeOf[t] = "live"
                THEN "dead" ELSE lifeOf[t]
    BY <1>3, <1>4, TokenParts, TokenServiceAssumption DEF lifeOf, holderOf, SetSlot
  <1>6. lifeOf' = [t \in Tokens |->
           IF t[1] = p THEN IF t[2] \in alive THEN "live" ELSE "dead"
           ELSE IF /\ t[2] = "refresh"
                   /\ holderOf[t[1]] = u
                   /\ lifeOf[t] = "live"
                THEN "dead" ELSE lifeOf[t]]
    BY <1>5 DEF lifeOf
  <1>7. alive \in SUBSET Kinds
    OBVIOUS
  <1> QED
    BY <1>1, <1>6, <1>7 DEF Lifecycle!Bear, Lifecycle!Tokens, Tokens,
       Lifecycle!Kinds, Kinds

LEMMA RevokedNotAcceptedNext == IInv' => RevokedNeverAccepted'
  BY RevokedNotAccepted, PTL

\* A token not accepted before the clock moves or an entry is written is not
\* accepted after it either.
LEMMA StepLifecycle ==
  IInv /\ IInv' /\ [Next]_vars => [Lifecycle!Next]_(Lifecycle!lifecycleVars)
  <1> SUFFICES ASSUME IInv, IInv', [Next]_vars
               PROVE  [Lifecycle!Next]_(Lifecycle!lifecycleVars)
    OBVIOUS
  <1>1. ASSUME stored' = stored,
               \A u \in Users : slot'[u] = NoPair \/ (slot'[u] = slot[u] /\ slotUntil'[u] = slotUntil[u])
        PROVE  \A t \in Tokens : t[1] \in stored /\ Usable(t)' => Usable(t)
    <2> SUFFICES ASSUME NEW t \in Tokens, t[1] \in stored, Usable(t)'
                 PROVE  Usable(t)
      OBVIOUS
    <2>1. t \notin revoked
      <3>1. t \notin revoked'
        BY RevokedNotAcceptedNext DEF RevokedNeverAccepted, Usable
      <3> QED
        BY <3>1, OnwardStep DEF Onward
    <2>2. Accepts(t, t[2])
      <3>1. ~RevokedEntry(t)
        BY <2>1 DEF RevokedEntry, IInv, RevocationInv, TypeOK
      <3>2. now < ExpiresAt(t)
        <4>1. now' < ExpiresAt(t)' /\ ExpiresAt(t)' = ExpiresAt(t)
          BY OnwardStep DEF Onward, Usable, Accepts, ExpiresAt, Expiry
        <4>2. now \in Nat /\ now' \in Nat /\ ExpiresAt(t) \in Nat /\ now <= now'
          BY OnwardStep, Numbers DEF Onward, IInv, TypeOK
        <4> QED
          BY <4>1, <4>2
      <3> QED
        BY <3>1, <3>2 DEF Accepts
    <2>3. ASSUME t[2] = "refresh"
          PROVE  SlotPair(owner[t[1]]) = t[1]
      <3> DEFINE u == owner[t[1]]
      <3>1. u \in Users /\ t[1] \in Pairs /\ t[1] # NoPair /\ owner'[t[1]] = u
        BY OnwardStep, TokenServiceAssumption, TokenParts
        DEF Onward, IInv, TypeOK, ClaimsInv
      <3>2. now' < slotUntil'[u] /\ slot'[u] = t[1]
        BY <2>3, <3>1 DEF Usable, SlotPair
      <3>3. /\ now \in Nat /\ now' \in Nat /\ now <= now'
            /\ slotUntil[u] \in Nat
        BY <3>1, OnwardStep DEF Onward, IInv, TypeOK
      <3> QED
        BY <1>1, <3>1, <3>2, <3>3 DEF SlotPair
    <2> QED
      BY <2>2, <2>3 DEF Usable
  <1>2. CASE UNCHANGED redis
    BY <1>1, <1>2, OnlyRetires DEF redis
  <1>3. ASSUME NEW r \in Requests, Writes(r)
        PROVE  [Lifecycle!Next]_(Lifecycle!lifecycleVars)
    <2>1. CASE /\ new[r] \in Pairs \ stored /\ owner[new[r]] \in Users
               /\ SetSlot(owner[new[r]], new[r])
      BY <1>3, <2>1, WriteIsCommand, StoreBears DEF Lifecycle!Next
    <2>2. CASE SetRevoked(tok[r])
      BY <1>1, <2>2, OnlyRetires DEF SetRevoked
    <2>3. CASE \E u \in Users : DelSlotKey(u)
      BY <1>1, <2>3, OnlyRetires DEF DelSlotKey, IInv, TypeOK
    <2> QED
      BY <1>2, <1>3, <2>1, <2>2, <2>3, WriteIsCommand
  <1> QED
    BY <1>2, <1>3, OnlyWrites

\* Every behaviour of the token service is a behaviour of the life cycle:
\* once a token is not honoured it never is again, and a user never has two
\* live refresh tokens.
THEOREM Refinement == Spec => ImplementsLifecycle
  BY InitLifecycle, StepLifecycle, Invariance, PTL
  DEF Spec, ImplementsLifecycle, Lifecycle!Spec

\* What the life cycle means for a token the service has recorded: once no call
\* would honour it, because it expired, was revoked or left its slot, no later
\* step of any request brings it back, and its pair is never forgotten.
THEOREM DeadForGood ==
  Spec => [][\A t \in Tokens :
               t[1] \in stored /\ ~Usable(t) => t[1] \in stored' /\ ~Usable(t)']_vars
  <1>1. ASSUME IInv, IInv', [Next]_vars
        PROVE  \A t \in Tokens :
                 t[1] \in stored /\ ~Usable(t) => t[1] \in stored' /\ ~Usable(t)'
    <2> SUFFICES ASSUME NEW t \in Tokens, t[1] \in stored, ~Usable(t)
                 PROVE  t[1] \in stored' /\ ~Usable(t)'
      OBVIOUS
    <2>1. t[1] \in stored' /\ lifeOf[t] = "dead" /\ t[1] \in Pairs
      BY <1>1, OnwardStep, TokenParts DEF Onward, lifeOf
    <2>2. holderOf[t[1]] # NoUser
      BY <1>1, <2>1, TokenServiceAssumption DEF holderOf, IInv, ClaimsInv, TypeOK
    <2>3. lifeOf'[t] = "dead"
      <3>1. CASE UNCHANGED Lifecycle!lifecycleVars
        BY <3>1, <2>1 DEF Lifecycle!lifecycleVars
      <3>2. ASSUME NEW p \in Pairs, NEW u \in Users, Lifecycle!Bear(p, u)
            PROVE  lifeOf'[t] = "dead"
        BY <3>2, <2>1, <2>2 DEF Lifecycle!Bear, Lifecycle!Tokens, Tokens,
           Lifecycle!Kinds, Kinds
      <3>3. ASSUME NEW gone, Lifecycle!Retire(gone)
            PROVE  lifeOf'[t] = "dead"
        BY <3>3, <2>1 DEF Lifecycle!Retire, Lifecycle!Tokens, Tokens,
           Lifecycle!Kinds, Kinds
      <3> QED
        BY <1>1, StepLifecycle, <3>1, <3>2, <3>3 DEF Lifecycle!Next
    <2> QED
      BY <2>1, <2>3 DEF lifeOf
  <1>2. IInv /\ IInv' /\ [Next]_vars =>
          [\A t \in Tokens :
             t[1] \in stored /\ ~Usable(t) => t[1] \in stored' /\ ~Usable(t)']_vars
    BY <1>1
  <1> QED
    BY Invariance, <1>2, PTL DEF Spec

\* The second half of the promise: in every state of the life cycle a user has
\* at most one refresh token that would be honoured.
OneLiveRefresh ==
  \A p, q \in Pairs :
    /\ lifeOf[<<p, "refresh">>] = "live"
    /\ lifeOf[<<q, "refresh">>] = "live"
    /\ holderOf[p] = holderOf[q]
    => p = q

\* It follows from the life cycle alone: a pair is borne with its user's older
\* refresh token displaced in the same step, and nothing dead comes alive.
LEMMA LifecycleOneSession == ImplementsLifecycle => []OneLiveRefresh
  <1>1. Lifecycle!Init => OneLiveRefresh
    BY DEF Lifecycle!Init, Lifecycle!Tokens, Lifecycle!Kinds, OneLiveRefresh
  <1>2. OneLiveRefresh /\ [Lifecycle!Next]_(Lifecycle!lifecycleVars) => OneLiveRefresh'
    <2> SUFFICES ASSUME OneLiveRefresh, [Lifecycle!Next]_(Lifecycle!lifecycleVars),
                        NEW p \in Pairs, NEW q \in Pairs,
                        lifeOf'[<<p, "refresh">>] = "live",
                        lifeOf'[<<q, "refresh">>] = "live",
                        holderOf'[p] = holderOf'[q]
                 PROVE  p = q
      BY DEF OneLiveRefresh
    <2>1. /\ <<p, "refresh">> \in Lifecycle!Tokens
          /\ <<q, "refresh">> \in Lifecycle!Tokens
      BY DEF Lifecycle!Tokens, Lifecycle!Kinds
    <2>2. CASE UNCHANGED Lifecycle!lifecycleVars
      BY <2>2 DEF Lifecycle!lifecycleVars, OneLiveRefresh
    <2>3. ASSUME NEW b \in Pairs, NEW u \in Users, Lifecycle!Bear(b, u)
          PROVE  p = q
      <3>1. \A x \in Pairs : holderOf'[x] = IF x = b THEN u ELSE holderOf[x]
        BY <2>3 DEF Lifecycle!Bear, holderOf
      <3>2. \A x \in {p, q} :
              x # b => lifeOf[<<x, "refresh">>] = "live" /\ holderOf[x] # u
        BY <2>1, <2>3 DEF Lifecycle!Bear
      <3> QED
        BY <3>1, <3>2 DEF OneLiveRefresh
    <2>4. ASSUME NEW gone, Lifecycle!Retire(gone)
          PROVE  p = q
      <3>1. /\ lifeOf[<<p, "refresh">>] = "live"
            /\ lifeOf[<<q, "refresh">>] = "live"
            /\ holderOf' = holderOf
        BY <2>1, <2>4 DEF Lifecycle!Retire
      <3> QED
        BY <3>1 DEF OneLiveRefresh
    <2> QED
      BY <2>2, <2>3, <2>4 DEF Lifecycle!Next
  <1> QED
    BY <1>1, <1>2, PTL DEF ImplementsLifecycle, Lifecycle!Spec

\* Whatever the interleaving of logins, rotations and logouts, two different
\* recorded refresh tokens of one user are never both honoured.
THEOREM OneSession == Spec => []OneLiveRefresh
  BY Refinement, LifecycleOneSession
=============================================================================
