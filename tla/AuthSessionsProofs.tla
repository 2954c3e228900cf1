------------------------- MODULE AuthSessionsProofs -------------------------
(****************************************************************************)
(* Theorems about AuthSessions for any users, browsers, concurrent requests  *)
(* and faults, and every lifetime of a refresh token.                        *)
(****************************************************************************)
EXTENDS AuthSessions, FiniteSetTheorems, TLAPS

----------------------------------------------------------------------------
(* Types                                                                     *)

\* A request that works on a refresh token has one; a login has none.
Holding ==
  \A r \in Requests :
    /\ req[r].at \in {"check", "lookup", "load", "rotate", "revoke"} => req[r].token # NoToken
    /\ req[r].at \in {"idle", "password"} => req[r].token = NoToken

States == [at : Stages, token : Tokens \cup {NoToken}, out : Tokens \cup {NoToken}]

\* The empty cookie is not a token, and a token's second is a number.
LEMMA TokenShape ==
  /\ NoToken \notin Tokens
  /\ \A t \in Tokens : t[2] \in Nat /\ t[2] <= MaxTime
  /\ \A u \in Users, n \in 0..MaxTime : <<u, n>> \in Tokens
  BY SessionBounds DEF Tokens, NoToken

LEMMA TypeInit == Init => TypeOK /\ Holding
  BY SessionBounds, TTLAssumption
  DEF Init, TypeOK, Holding, Idle, NoToken, Stages

\* The token a request works on is one that was issued.
LEMMA TokenHeld ==
  ASSUME TypeOK, Holding, NEW r \in Requests,
         req[r].at \in {"check", "lookup", "load", "rotate", "revoke"}
  PROVE  req[r].token \in issued /\ req[r].token \in Tokens
  BY DEF TypeOK, Holding

\* What SetRevoked leaves behind, whether or not Redis fails.
LEMMA SetRevokedTyped ==
  ASSUME TypeOK, NEW t \in Tokens, SetRevoked(t)
  PROVE  /\ revoked' \in [Tokens -> 0..(MaxTime + RefreshTTL)]
         /\ faults' \in 0..MaxFaults
<1>1. now + KeyLife \in 0..(MaxTime + RefreshTTL)
  BY SessionBounds, TTLAssumption DEF TypeOK, KeyLife
<1>2. QED
  BY <1>1, SessionBounds DEF TypeOK, SetRevoked, Fault

\* A request starts to work on a token that was issued, and shares it unless
\* it is the one of its cookie.
LEMMA PresentTyped ==
  ASSUME TypeOK, Holding, NEW r \in Requests, NEW stage \in {"check", "revoke"},
         Present(r, stage),
         UNCHANGED <<now, active, cookie, revoked, issued, exchanged, faults>>
  PROVE  TypeOK' /\ Holding'
<1>1. PICK t \in Presented(r) :
        /\ req' = [req EXCEPT ![r].at = stage, ![r].token = t]
        /\ shared' = IF t = cookie[Owner[r]] THEN shared ELSE shared \cup {t}
  BY DEF Present
<1>2. t \in issued /\ t # NoToken
  BY OwnerAssumption, TokenShape DEF Presented, TypeOK
<1>3. shared' \subseteq issued'
  BY <1>1, <1>2 DEF TypeOK
<1>4. TypeOK'
  <2>1. req' \in [Requests -> [at : Stages, token : issued \cup {NoToken},
                              out : issued \cup {NoToken}]]
    BY <1>1, <1>2 DEF TypeOK, Stages
  <2>2. QED
    BY <1>1, <1>3, <2>1 DEF TypeOK
<1>5. Holding'
  BY <1>1, <1>2 DEF Holding, TypeOK
<1>6. QED
  BY <1>4, <1>5

LEMMA TypeStep == TypeOK /\ Holding /\ [Next]_vars => TypeOK' /\ Holding'
<1> SUFFICES ASSUME TypeOK, Holding, [Next]_vars
             PROVE  TypeOK' /\ Holding'
  OBVIOUS
<1> USE DEF TypeOK, Holding, Stages, GoTo, Done
<1>1. ASSUME NEW r \in Requests, Login(r) PROVE TypeOK' /\ Holding'
  BY <1>1 DEF Login
<1>2. ASSUME NEW r \in Requests, Password(r) PROVE TypeOK' /\ Holding'
  <2>1. CASE req' = [req EXCEPT ![r].at = "issue"]
    BY <1>2, <2>1 DEF Password
  <2>2. CASE req' = [req EXCEPT ![r] = Idle]
    BY <1>2, <2>2 DEF Password, Idle
  <2>3. QED
    BY <1>2, <2>1, <2>2 DEF Password
<1>3. ASSUME NEW r \in Requests, Refresh(r) PROVE TypeOK' /\ Holding'
  BY <1>3, PresentTyped DEF Refresh
<1>4. ASSUME NEW r \in Requests, Logout(r) PROVE TypeOK' /\ Holding'
  <2>1. CASE Present(r, "revoke")
    BY <1>4, <2>1, PresentTyped DEF Logout
  <2>2. CASE GoTo(r, "answered") /\ UNCHANGED shared
    <3>1. /\ req' = [req EXCEPT ![r].at = "answered"]
          /\ UNCHANGED <<now, active, cookie, revoked, issued, shared, exchanged, faults>>
      BY <1>4, <2>2 DEF Logout
    <3>2. TypeOK'
      BY <3>1
    <3>3. Holding'
      BY <3>1
    <3>4. QED
      BY <3>2, <3>3
  <2>3. QED
    BY <1>4, <2>1, <2>2 DEF Logout
<1>5. ASSUME NEW r \in Requests, Parse(r) \/ Lookup(r) PROVE TypeOK' /\ Holding'
  <2>1. CASE Parse(r)
    BY <2>1 DEF Parse
  <2>2. CASE Lookup(r)
    BY <2>2, SessionBounds DEF Lookup, Fault
  <2>3. QED
    BY <1>5, <2>1, <2>2
<1>6. ASSUME NEW r \in Requests, Load(r) PROVE TypeOK' /\ Holding'
  BY <1>6, SessionBounds DEF Load, Fault
<1>7. ASSUME NEW r \in Requests, Rotate(r) PROVE TypeOK' /\ Holding'
  <2>1. req[r].token \in Tokens
    BY <1>7, TokenHeld DEF Rotate
  <2>2. /\ revoked' \in [Tokens -> 0..(MaxTime + RefreshTTL)]
        /\ faults' \in 0..MaxFaults
    BY <1>7, <2>1, SetRevokedTyped DEF Rotate
  <2>3. QED
    BY <1>7, <2>2 DEF Rotate
<1>8. ASSUME NEW r \in Requests, Issue(r) PROVE TypeOK' /\ Holding'
  <2> DEFINE new == <<User(r), now>>
  <2>1. new \in Tokens
    BY TokenShape, AccountAssumption, OwnerAssumption DEF User
  <2>2. issued' = issued \cup {new} /\ issued' \subseteq Tokens
    BY <1>8, <2>1 DEF Issue
  <2>3. shared' \subseteq issued'
    BY <1>8, <2>2 DEF Issue
  <2>4. exchanged' \in [Tokens -> Nat]
    BY <1>8 DEF Issue
  <2>5. req' = [req EXCEPT ![r].at = "answered", ![r].out = new]
    BY <1>8 DEF Issue
  <2>6. now' = now /\ active' = active /\ cookie' = cookie /\ revoked' = revoked
        /\ faults' = faults
    BY <1>8 DEF Issue
  <2> HIDE DEF new
  <2>7. req' \in [Requests -> [at : Stages, token : issued' \cup {NoToken},
                                out : issued' \cup {NoToken}]]
    <3>1. req'[r] = [at |-> "answered", token |-> req[r].token, out |-> new]
      BY <2>5
    <3>2. /\ new \in issued'
          /\ req[r].token \in issued' \cup {NoToken}
      BY <2>2
    <3>3. \A x \in Requests : x # r => req'[x] = req[x]
      BY <2>5
    <3>4. req'[r] \in [at : Stages, token : issued' \cup {NoToken},
                      out : issued' \cup {NoToken}]
      BY <3>1, <3>2
    <3>5. ASSUME NEW x \in Requests, x # r
          PROVE  req'[x] \in [at : Stages, token : issued' \cup {NoToken},
                             out : issued' \cup {NoToken}]
      <4>1. req[x] \in [at : Stages, token : issued \cup {NoToken},
                       out : issued \cup {NoToken}]
        OBVIOUS
      <4>2. issued \cup {NoToken} \subseteq issued' \cup {NoToken}
        BY <2>2
      <4> HIDE DEF Stages
      <4>3. QED
        BY <3>3, <3>5, <4>1, <4>2
    <3>6. QED
      BY <2>5, <3>4, <3>5
  <2>8. TypeOK'
    BY <2>2, <2>3, <2>4, <2>6, <2>7
  <2>9. Holding'
    BY <2>5
  <2>10. QED
    BY <2>8, <2>9
<1>9. ASSUME NEW r \in Requests, Revoke(r) PROVE TypeOK' /\ Holding'
  <2>1. req[r].token \in Tokens
    BY <1>9, TokenHeld DEF Revoke
  <2>2. /\ revoked' \in [Tokens -> 0..(MaxTime + RefreshTTL)]
        /\ faults' \in 0..MaxFaults
    BY <1>9, <2>1, SetRevokedTyped DEF Revoke
  <2>3. QED
    BY <1>9, <2>2 DEF Revoke
<1>10. ASSUME NEW r \in Requests, Answer(r) PROVE TypeOK' /\ Holding'
  BY <1>10, OwnerAssumption DEF Answer, NewCookie, Idle
<1>11. ASSUME NEW r \in Requests, LoseAnswer(r) PROVE TypeOK' /\ Holding'
  BY <1>11, SessionBounds DEF LoseAnswer, Idle, Fault
<1>12. ASSUME NEW u \in Users, Deactivate(u) PROVE TypeOK' /\ Holding'
  BY <1>12 DEF Deactivate
<1>13. CASE Tick
  BY <1>13, SessionBounds DEF Tick
<1>14. CASE Crash
  BY <1>14, SessionBounds DEF Crash, Idle, Fault
<1>15. CASE UNCHANGED vars
  BY <1>15 DEF vars
<1>16. QED
  BY <1>1, <1>2, <1>3, <1>4, <1>5, <1>6, <1>7, <1>8, <1>9, <1>10, <1>11, <1>12,
     <1>13, <1>14, <1>15 DEF Next

\* Every reachable state is well typed, and a cookie, a request and an answer
\* only ever carry a token that was issued (service.go:146-194).
THEOREM SessionsTyped == Spec => []TypeOK
<1>1. Spec => [](TypeOK /\ Holding)
  BY TypeInit, TypeStep, PTL DEF Spec
<1>2. QED
  BY <1>1, PTL

----------------------------------------------------------------------------
(* A revocation key outlives its token                                       *)

\* Tokens are stamped with a second that has come, and the key of a revoked
\* token expires no earlier than the token.
Keys ==
  /\ \A t \in issued : t[2] <= now
  /\ \A t \in Tokens : revoked[t] # 0 => t[2] + RefreshTTL <= revoked[t]

\* Revoking a token that was issued gives it a key that is long enough.
LEMMA SetRevokedKeys ==
  ASSUME TypeOK, Keys, NEW t \in issued, SetRevoked(t), UNCHANGED <<now, issued>>
  PROVE  Keys'
<1>1. t \in Tokens /\ t[2] \in Nat /\ t[2] <= now /\ now \in Nat
  BY TokenShape, SessionBounds DEF TypeOK, Keys
<1>2. t[2] + RefreshTTL <= now + KeyLife
  BY <1>1, TTLAssumption DEF KeyLife
<1>3. revoked' = [revoked EXCEPT ![t] = now + KeyLife] \/ revoked' = revoked
  BY DEF SetRevoked
<1>4. revoked \in [Tokens -> 0..(MaxTime + RefreshTTL)]
  BY DEF TypeOK
<1>5. \A x \in Tokens : revoked'[x] # 0 => x[2] + RefreshTTL <= revoked'[x]
  BY <1>1, <1>2, <1>3, <1>4 DEF Keys
<1>6. QED
  BY <1>5 DEF Keys

LEMMA KeysStep == TypeOK /\ Holding /\ Keys /\ [Next]_vars => Keys'
<1> SUFFICES ASSUME TypeOK, Holding, Keys, [Next]_vars
             PROVE  Keys'
  OBVIOUS
<1>1. ASSUME UNCHANGED <<now, issued, revoked>>
      PROVE  Keys'
  BY <1>1 DEF Keys
<1>2. ASSUME NEW r \in Requests,
             Login(r) \/ Password(r) \/ Refresh(r) \/ Logout(r) \/ Parse(r) \/ Lookup(r)
               \/ Load(r) \/ Answer(r) \/ LoseAnswer(r)
      PROVE  Keys'
  BY <1>1, <1>2
  DEF Login, Password, Refresh, Logout, Present, Parse, Lookup, Load, Answer, LoseAnswer
<1>3. ASSUME NEW r \in Requests, Rotate(r) PROVE Keys'
  <2>1. req[r].token \in issued
    BY <1>3, TokenHeld DEF Rotate
  <2>2. SetRevoked(req[r].token) /\ UNCHANGED <<now, issued>>
    BY <1>3 DEF Rotate
  <2>3. QED
    BY <2>1, <2>2, SetRevokedKeys
<1>4. ASSUME NEW r \in Requests, Revoke(r) PROVE Keys'
  <2>1. req[r].token \in issued
    BY <1>4, TokenHeld DEF Revoke
  <2>2. SetRevoked(req[r].token) /\ UNCHANGED <<now, issued>>
    BY <1>4 DEF Revoke
  <2>3. QED
    BY <2>1, <2>2, SetRevokedKeys
<1>5. ASSUME NEW r \in Requests, Issue(r) PROVE Keys'
  <2>1. /\ issued' = issued \cup {<<User(r), now>>}
        /\ now' = now
        /\ revoked' = revoked
    BY <1>5 DEF Issue
  <2>2. \A t \in issued' : t[2] <= now
    BY <2>1, SessionBounds DEF Keys, TypeOK
  <2>3. QED
    BY <2>1, <2>2 DEF Keys
<1>6. CASE Tick
  <2>1. now \in Nat /\ now' = now + 1 /\ issued' = issued /\ revoked' = revoked
    BY <1>6, SessionBounds DEF Tick, TypeOK
  <2>2. \A t \in issued : t[2] \in Nat
    BY TokenShape DEF TypeOK
  <2>3. \A t \in issued : t[2] <= now + 1
    BY <2>1, <2>2 DEF Keys
  <2>4. QED
    BY <2>1, <2>3 DEF Keys
<1>7. CASE Crash \/ UNCHANGED vars
  BY <1>1, <1>7 DEF Crash, vars
<1>8. ASSUME NEW u \in Users, Deactivate(u) PROVE Keys'
  BY <1>1, <1>8 DEF Deactivate
<1>9. QED
  BY <1>2, <1>3, <1>4, <1>5, <1>6, <1>7, <1>8 DEF Next

LEMMA SessionKeys == Spec => [](TypeOK /\ Holding /\ Keys)
<1>1. Init => Keys
  BY SessionBounds DEF Init, Keys
<1>2. QED
  BY <1>1, TypeInit, TypeStep, KeysStep, PTL DEF Spec

\* A lookup that passes without a fault before the token's end was of a token
\* never revoked.
LEMMA PassedLookup ==
  ASSUME TypeOK, Holding, Keys, NEW r \in Requests, Lookup(r),
         req'[r].at = "load", faults' = faults, ~Expired(req[r].token)
  PROVE  revoked[req[r].token] = 0
<1> DEFINE t == req[r].token
<1>1. t \in issued /\ t \in Tokens
  BY TokenHeld DEF Lookup
<1>2. t[2] \in Nat /\ now \in Nat /\ revoked[t] \in Nat /\ faults \in Nat
  BY <1>1, TokenShape, SessionBounds, TTLAssumption DEF TypeOK
<1>3. ~Refuses(t) \/ KeyMayBeGone(t)
  <2>1. req'[r].at = "refused" \/ ~Refuses(t) \/ KeyMayBeGone(t) \/ Fault
    BY DEF Lookup, GoTo, TypeOK
  <2>2. ~Fault
    BY <1>2 DEF Fault
  <2>3. QED
    BY <2>1, <2>2
<1>4. now < t[2] + RefreshTTL /\ (revoked[t] = 0 \/ revoked[t] <= now)
  BY <1>2, <1>3, TTLAssumption DEF Refuses, Expired, KeyMayBeThere, KeyMayBeGone
<1>5. revoked[t] # 0 => t[2] + RefreshTTL <= revoked[t]
  BY <1>1 DEF Keys
<1>6. QED
  BY <1>2, <1>4, <1>5, TTLAssumption

\* Only the lookup of the request itself takes it past the lookup.
LEMMA OnlyLookupPasses ==
  ASSUME TypeOK, [Next]_vars, NEW r \in Requests,
         req[r].at = "lookup", req'[r].at = "load"
  PROVE  Lookup(r)
<1> USE DEF TypeOK, GoTo, Done, Idle
<1>1. ASSUME NEW x \in Requests,
             Login(x) \/ Password(x) \/ Refresh(x) \/ Logout(x) \/ Parse(x) \/ Load(x)
               \/ Rotate(x) \/ Issue(x) \/ Revoke(x) \/ Answer(x) \/ LoseAnswer(x)
      PROVE  FALSE
  <2>1. CASE x = r
    BY <1>1, <2>1 DEF Login, Password, Refresh, Logout, Present, Parse, Load, Rotate, Issue,
                      Revoke, Answer, LoseAnswer
  <2>2. CASE x # r
    BY <1>1, <2>2 DEF Login, Password, Refresh, Logout, Present, Parse, Load, Rotate, Issue,
                      Revoke, Answer, LoseAnswer
  <2>3. QED
    BY <2>1, <2>2
<1>2. ASSUME NEW x \in Requests, Lookup(x), x # r PROVE FALSE
  BY <1>2 DEF Lookup
<1>3. ~Tick /\ ~Crash /\ ~UNCHANGED vars /\ \A u \in Users : ~Deactivate(u)
  BY DEF Tick, Crash, vars, Deactivate
<1>4. QED
  BY <1>1, <1>2, <1>3 DEF Next

\* While Redis answers, no lookup made during a token's life lets it pass once
\* it was revoked (service.go:153, :168, :193): its key outlives it, whatever its
\* lifetime.
THEOREM RevokedNeverPasses == Spec => RevokedStaysOut
<1>1. ASSUME TypeOK, Holding, Keys, [Next]_vars
      PROVE  \A r \in Requests :
               /\ req[r].at = "lookup" /\ req'[r].at = "load"
               /\ ~Expired(req[r].token)
               /\ faults' = faults
               => revoked[req[r].token] = 0
  BY <1>1, OnlyLookupPasses, PassedLookup
<1>2. QED
  BY <1>1, SessionKeys, PTL DEF Spec, RevokedStaysOut

----------------------------------------------------------------------------
(* How often a token can pay                                                 *)

\* The requests at one of the stages of q with the token t.
At(q, t, stages) == {r \in Requests : q[r].token = t /\ q[r].at \in stages}

Past == {"load", "rotate", "issue"}
Ahead == {"lookup", "load", "rotate", "issue"}

Issuing(t) == Cardinality(At(req, t, {"issue"}))
PastLookup(t) == Cardinality(At(req, t, Past))
AtHand(t) == Cardinality(At(req, t, Ahead))

\* A token never revoked has been rotated only by calls that failed; of one
\* that was revoked every request past the lookup may still pay; of one that
\* has come to its end too, every request that was parsed before.
Covered(t) ==
  IF revoked[t] = 0 THEN exchanged[t] + Issuing(t) <= faults
  ELSE IF ~Expired(t) THEN exchanged[t] + PastLookup(t) <= Cardinality(Requests) + faults
  ELSE exchanged[t] + AtHand(t) <= 2 * Cardinality(Requests) + faults

Paid == \A t \in Tokens : Covered(t)

\* Counting requests: one set more, one less, none more.
LEMMA AtCount ==
  ASSUME NEW q, NEW t, NEW stages
  PROVE  /\ IsFiniteSet(At(q, t, stages))
         /\ Cardinality(At(q, t, stages)) \in Nat
         /\ Cardinality(Requests) \in Nat
         /\ Cardinality(At(q, t, stages)) <= Cardinality(Requests)
<1>1. At(q, t, stages) \subseteq Requests
  BY DEF At
<1>2. QED
  BY <1>1, OwnerAssumption, FS_Subset, FS_CardinalityType

LEMMA NoneMore ==
  ASSUME NEW q, NEW p, NEW t, NEW stages, At(p, t, stages) \subseteq At(q, t, stages)
  PROVE  Cardinality(At(p, t, stages)) <= Cardinality(At(q, t, stages))
  BY AtCount, FS_Subset

LEMMA OneMore ==
  ASSUME NEW q, NEW p, NEW t, NEW stages, NEW r,
         At(p, t, stages) \subseteq At(q, t, stages) \cup {r}
  PROVE  Cardinality(At(p, t, stages)) <= Cardinality(At(q, t, stages)) + 1
<1> DEFINE S == At(q, t, stages)
<1>1. IsFiniteSet(S) /\ Cardinality(S) \in Nat
  BY AtCount
<1> HIDE DEF S
<1>2. /\ IsFiniteSet(S \cup {r})
      /\ Cardinality(S \cup {r}) = IF r \in S THEN Cardinality(S) ELSE Cardinality(S) + 1
  BY <1>1, FS_AddElement
<1>3. Cardinality(At(p, t, stages)) <= Cardinality(S \cup {r})
  BY <1>2, FS_Subset DEF S
<1>4. Cardinality(At(p, t, stages)) \in Nat /\ Cardinality(S \cup {r}) \in Nat
  BY AtCount, <1>2, FS_CardinalityType
<1>5. Cardinality(At(p, t, stages)) <= Cardinality(S) + 1
  BY <1>1, <1>2, <1>3, <1>4
<1>6. QED
  BY <1>5 DEF S

LEMMA OneLess ==
  ASSUME NEW q, NEW p, NEW t, NEW stages, NEW r, r \in At(q, t, stages),
         At(p, t, stages) \subseteq At(q, t, stages) \ {r}
  PROVE  Cardinality(At(p, t, stages)) + 1 <= Cardinality(At(q, t, stages))
<1> DEFINE S == At(q, t, stages)
<1>1. IsFiniteSet(S) /\ Cardinality(S) \in Nat /\ r \in S
  BY AtCount
<1> HIDE DEF S
<1>2. /\ IsFiniteSet(S \ {r})
      /\ Cardinality(S \ {r}) = IF r \in S THEN Cardinality(S) - 1 ELSE Cardinality(S)
  BY <1>1, FS_RemoveElement
<1>3. Cardinality(At(p, t, stages)) <= Cardinality(S \ {r})
  BY <1>2, FS_Subset DEF S
<1>4. Cardinality(At(p, t, stages)) \in Nat
  BY AtCount
<1>5. Cardinality(At(p, t, stages)) + 1 <= Cardinality(S)
  BY <1>1, <1>2, <1>3, <1>4
<1>6. QED
  BY <1>5 DEF S

\* The numbers Covered speaks of.
LEMMA CoveredTypes ==
  ASSUME TypeOK, NEW t \in Tokens
  PROVE  /\ exchanged[t] \in Nat /\ faults \in Nat /\ revoked[t] \in Nat
         /\ Issuing(t) \in Nat /\ PastLookup(t) \in Nat /\ AtHand(t) \in Nat
         /\ Cardinality(Requests) \in Nat
         /\ PastLookup(t) <= AtHand(t) /\ AtHand(t) <= Cardinality(Requests)
<1>1. At(req, t, Past) \subseteq At(req, t, Ahead)
  BY DEF At, Past, Ahead
<1>2. PastLookup(t) <= AtHand(t)
  BY <1>1, AtCount, FS_Subset DEF PastLookup, AtHand
<1>3. /\ Issuing(t) \in Nat /\ PastLookup(t) \in Nat /\ AtHand(t) \in Nat
      /\ Cardinality(Requests) \in Nat /\ AtHand(t) <= Cardinality(Requests)
  BY AtCount DEF Issuing, PastLookup, AtHand
<1>4. QED
  BY <1>2, <1>3, SessionBounds, TTLAssumption DEF TypeOK

\* The counts of the next state.
LEMMA CountsNext ==
  ASSUME NEW t
  PROVE  /\ Issuing(t)' = Cardinality(At(req', t, {"issue"})) /\ Issuing(t)' \in Nat
         /\ PastLookup(t)' = Cardinality(At(req', t, Past)) /\ PastLookup(t)' \in Nat
         /\ AtHand(t)' = Cardinality(At(req', t, Ahead)) /\ AtHand(t)' \in Nat
         /\ PastLookup(t)' <= AtHand(t)' /\ AtHand(t)' <= Cardinality(Requests)
<1>1. At(req', t, Past) \subseteq At(req', t, Ahead)
  BY DEF At, Past, Ahead
<1>2. Cardinality(At(req', t, Past)) <= Cardinality(At(req', t, Ahead))
  BY <1>1, AtCount, FS_Subset
<1>3. /\ Issuing(t)' = Cardinality(At(req', t, {"issue"}))
      /\ PastLookup(t)' = Cardinality(At(req', t, Past))
      /\ AtHand(t)' = Cardinality(At(req', t, Ahead))
  BY DEF Issuing, PastLookup, AtHand, At, Past, Ahead
<1>4. /\ Cardinality(At(req', t, {"issue"})) \in Nat
      /\ Cardinality(At(req', t, Past)) \in Nat
      /\ Cardinality(At(req', t, Ahead)) \in Nat
      /\ Cardinality(At(req', t, Ahead)) <= Cardinality(Requests)
  BY AtCount
<1>5. QED
  BY <1>2, <1>3, <1>4

\* A step that brings no request further with a token keeps it covered.
LEMMA CoveredFrame ==
  ASSUME TypeOK, TypeOK', NEW t \in Tokens, Covered(t), now' = now,
         revoked'[t] = revoked[t], exchanged'[t] = exchanged[t], faults <= faults',
         At(req', t, {"issue"}) \subseteq At(req, t, {"issue"}),
         At(req', t, Past) \subseteq At(req, t, Past),
         Expired(t) => At(req', t, Ahead) \subseteq At(req, t, Ahead)
  PROVE  Covered(t)'
<1>1. Cardinality(At(req', t, {"issue"})) <= Issuing(t)
  BY NoneMore DEF Issuing
<1>2. Cardinality(At(req', t, Past)) <= PastLookup(t)
  BY NoneMore DEF PastLookup
<1>3. Expired(t) => Cardinality(At(req', t, Ahead)) <= AtHand(t)
  BY NoneMore DEF AtHand
<1>4. faults' \in Nat
  BY SessionBounds DEF TypeOK
<1>5. Expired(t)' <=> Expired(t)
  BY DEF Expired
<1>6. QED
  BY <1>1, <1>2, <1>3, <1>4, <1>5, CountsNext, CoveredTypes DEF Covered

\* Where a request is past the lookup with a token now, it was before; and
\* where it is parsed with a token that has come to its end.
Unmoved(x, t) ==
  /\ req'[x].token = t /\ req'[x].at \in Past =>
       /\ req[x].token = t /\ req[x].at \in Past
       /\ req'[x].at = "issue" => req[x].at = "issue"
  /\ Expired(t) /\ req'[x].token = t /\ req'[x].at \in Ahead =>
       req[x].token = t /\ req[x].at \in Ahead

LEMMA UnmovedSets ==
  ASSUME NEW t, \A x \in Requests : Unmoved(x, t)
  PROVE  /\ At(req', t, {"issue"}) \subseteq At(req, t, {"issue"})
         /\ At(req', t, Past) \subseteq At(req, t, Past)
         /\ Expired(t) => At(req', t, Ahead) \subseteq At(req, t, Ahead)
  BY DEF Unmoved, At, Past, Ahead

\* Most steps.
LEMMA PaidFrame ==
  ASSUME TypeOK, TypeOK', Paid, UNCHANGED <<now, revoked, exchanged>>, faults <= faults',
         \A x \in Requests, t \in Tokens : Unmoved(x, t)
  PROVE  Paid'
<1>1. ASSUME NEW t \in Tokens PROVE Covered(t)'
  BY CoveredFrame, UnmovedSets DEF Paid
<1>2. QED
  BY <1>1 DEF Paid

LEMMA LookupPaid ==
  ASSUME TypeOK, TypeOK', Holding, Keys, Paid, NEW r \in Requests, Lookup(r)
  PROVE  Paid'
<1>0. PICK own \in Tokens : own = req[r].token
  BY TokenHeld DEF Lookup
<1>1. /\ UNCHANGED <<now, revoked, exchanged>>
      /\ req' = [req EXCEPT ![r].at = "refused"] \/ req' = [req EXCEPT ![r].at = "load"]
      /\ req[r].at = "lookup"
      /\ faults' = faults \/ faults' = faults + 1
  BY DEF Lookup, GoTo, Fault
<1>2. \A x \in Requests, t \in Tokens : x # r \/ t # own => Unmoved(x, t)
  BY <1>0, <1>1 DEF TypeOK, Unmoved
<1>3. faults \in Nat
  BY SessionBounds DEF TypeOK
<1>4. ASSUME NEW t \in Tokens, t # own PROVE Covered(t)'
  BY <1>1, <1>2, <1>3, <1>4, CoveredFrame, UnmovedSets DEF Paid
<1>5. CASE req'[r].at = "refused"
  <2>1. Unmoved(r, own)
    BY <1>5 DEF Unmoved, Past, Ahead
  <2>2. QED
    BY <1>1, <1>2, <1>3, <2>1, PaidFrame
<1>6. CASE req'[r].at = "load"
  <2>1. /\ At(req', own, {"issue"}) \subseteq At(req, own, {"issue"})
        /\ At(req', own, Past) \subseteq At(req, own, Past) \cup {r}
        /\ At(req', own, Ahead) \subseteq At(req, own, Ahead)
    BY <1>0, <1>1, <1>6 DEF TypeOK, At, Past, Ahead
  <2>2. /\ Issuing(own)' <= Issuing(own)
        /\ PastLookup(own)' <= PastLookup(own) + 1
        /\ AtHand(own)' <= AtHand(own)
    BY <2>1, NoneMore, OneMore, CountsNext DEF Issuing, PastLookup, AtHand
  <2>3. faults' = faults /\ ~Expired(own) => revoked[own] = 0
    BY <1>0, <1>6, PassedLookup
  <2>4. /\ revoked' = revoked /\ exchanged' = exchanged
        /\ Expired(own)' <=> Expired(own)
    BY <1>1 DEF Expired
  <2>5. Covered(own)'
    BY <1>1, <1>3, <2>2, <2>3, <2>4, CoveredTypes, CountsNext DEF Covered, Paid
  <2>6. QED
    BY <1>4, <2>5 DEF Paid
<1>7. QED
  BY <1>1, <1>5, <1>6 DEF TypeOK

\* Revoking a token whose requests past the check move nowhere but from the
\* rotation to the issue.
LEMMA SetRevokedPaid ==
  ASSUME TypeOK, TypeOK', Paid, NEW r \in Requests, req[r].token \in Tokens,
         SetRevoked(req[r].token), UNCHANGED <<now, exchanged>>,
         \/ req[r].at = "rotate" /\ req' = [req EXCEPT ![r].at = "issue"]
         \/ req[r].at = "revoke" /\ req' = [req EXCEPT ![r].at = "answered"]
  PROVE  Paid'
<1>0. PICK own \in Tokens : own = req[r].token
  OBVIOUS
<1>1. \A x \in Requests, t \in Tokens : x # r \/ t # own => Unmoved(x, t)
  BY <1>0 DEF TypeOK, Unmoved
<1>2. /\ \/ revoked' = [revoked EXCEPT ![own] = now + KeyLife] /\ faults' = faults
         \/ revoked' = revoked /\ faults' = faults + 1
      /\ now + KeyLife # 0 /\ faults \in Nat
  BY <1>0, SessionBounds, TTLAssumption DEF SetRevoked, Fault, TypeOK, KeyLife
<1>3. ASSUME NEW t \in Tokens, t # own PROVE Covered(t)'
  <2>1. revoked'[t] = revoked[t] /\ faults <= faults'
    BY <1>2, <1>3 DEF TypeOK
  <2>2. QED
    BY <1>1, <1>3, <2>1, CoveredFrame, UnmovedSets DEF Paid
<1>4. /\ At(req', own, {"issue"}) \subseteq At(req, own, {"issue"}) \cup {r}
      /\ At(req', own, Past) \subseteq At(req, own, Past)
      /\ At(req', own, Ahead) \subseteq At(req, own, Ahead)
  BY <1>0 DEF TypeOK, At, Past, Ahead
<1>5. /\ Issuing(own)' <= Issuing(own) + 1
      /\ PastLookup(own)' <= PastLookup(own)
      /\ AtHand(own)' <= AtHand(own)
  BY <1>4, NoneMore, OneMore, CountsNext DEF Issuing, PastLookup, AtHand
<1>6. Expired(own)' <=> Expired(own)
  BY DEF Expired
<1>7. ASSUME revoked' = revoked, faults' = faults + 1
      PROVE  Covered(own)'
  BY <1>5, <1>6, <1>7, CoveredTypes, CountsNext DEF Covered, Paid
<1>8. ASSUME revoked' = [revoked EXCEPT ![own] = now + KeyLife], faults' = faults
      PROVE  Covered(own)'
  <2>1. revoked'[own] # 0
    BY <1>2, <1>8 DEF TypeOK
  <2>2. QED
    BY <1>5, <1>6, <1>8, <2>1, CoveredTypes, CountsNext DEF Covered, Paid
<1>9. Covered(own)'
  BY <1>2, <1>7, <1>8
<1>10. QED
  BY <1>3, <1>9 DEF Paid

LEMMA IssuePaid ==
  ASSUME TypeOK, TypeOK', Paid, NEW r \in Requests, Issue(r)
  PROVE  Paid'
<1> DEFINE new == <<User(r), now>>
<1>1. /\ req[r].at = "issue"
      /\ req' = [req EXCEPT ![r].at = "answered", ![r].out = new]
      /\ now' = now /\ revoked' = revoked /\ faults' = faults
      /\ exchanged' = IF req[r].token = NoToken THEN exchanged
                      ELSE [exchanged EXCEPT ![req[r].token] = @ + 1]
  BY DEF Issue, Done
<1> HIDE DEF new
<1>2. \A x \in Requests, t \in Tokens : Unmoved(x, t)
  BY <1>1 DEF TypeOK, Unmoved, Past, Ahead
<1>3. faults \in Nat
  BY SessionBounds DEF TypeOK
<1>4. CASE req[r].token = NoToken
  BY <1>1, <1>2, <1>3, <1>4, PaidFrame
<1>5. CASE req[r].token # NoToken
  <2>1. PICK own \in Tokens : own = req[r].token
    BY <1>5 DEF TypeOK
  <2>2. exchanged' = [exchanged EXCEPT ![own] = @ + 1]
    BY <1>1, <1>5, <2>1
  <2>3. ASSUME NEW t \in Tokens, t # own PROVE Covered(t)'
    <3>1. exchanged'[t] = exchanged[t]
      BY <2>2, <2>3 DEF TypeOK
    <3>2. QED
      <4>1. revoked'[t] = revoked[t] /\ faults <= faults'
        BY <1>1, <1>3
      <4>2. /\ At(req', t, {"issue"}) \subseteq At(req, t, {"issue"})
            /\ At(req', t, Past) \subseteq At(req, t, Past)
            /\ Expired(t) => At(req', t, Ahead) \subseteq At(req, t, Ahead)
        BY <1>2, UnmovedSets
      <4>3. QED
        BY <1>1, <3>1, <4>1, <4>2, CoveredFrame DEF Paid
  <2>4. /\ r \in At(req, own, {"issue"}) /\ r \in At(req, own, Past)
        /\ r \in At(req, own, Ahead)
        /\ At(req', own, {"issue"}) \subseteq At(req, own, {"issue"}) \ {r}
        /\ At(req', own, Past) \subseteq At(req, own, Past) \ {r}
        /\ At(req', own, Ahead) \subseteq At(req, own, Ahead) \ {r}
    BY <1>1, <2>1 DEF TypeOK, At, Past, Ahead
  <2>5. /\ Issuing(own)' + 1 <= Issuing(own)
        /\ PastLookup(own)' + 1 <= PastLookup(own)
        /\ AtHand(own)' + 1 <= AtHand(own)
    BY <2>4, OneLess, CountsNext DEF Issuing, PastLookup, AtHand
  <2>6. Expired(own)' <=> Expired(own)
    BY <1>1 DEF Expired
  <2>7. exchanged'[own] = exchanged[own] + 1
    BY <2>2 DEF TypeOK
  <2>8. Covered(own)'
    BY <1>1, <2>5, <2>6, <2>7, CoveredTypes, CountsNext DEF Covered, Paid
  <2>9. QED
    BY <2>3, <2>8 DEF Paid
<1>6. QED
  BY <1>4, <1>5

\* A token comes to its end: the requests parsed before are no more than there
\* are requests.
LEMMA TickPaid ==
  ASSUME TypeOK, TypeOK', Paid, Tick
  PROVE  Paid'
<1> SUFFICES ASSUME NEW t \in Tokens PROVE Covered(t)'
  BY DEF Paid
<1>1. /\ now' = now + 1 /\ revoked' = revoked /\ exchanged' = exchanged
      /\ faults' = faults /\ req' = req
  BY DEF Tick
<1>2. /\ Issuing(t)' = Issuing(t) /\ PastLookup(t)' = PastLookup(t)
      /\ AtHand(t)' = AtHand(t)
  BY <1>1, CountsNext DEF Issuing, PastLookup, AtHand
<1>3. Expired(t) => Expired(t)'
  BY <1>1, TokenShape, TTLAssumption, SessionBounds DEF Expired, TypeOK
<1>4. QED
  BY <1>1, <1>2, <1>3, CoveredTypes DEF Covered, Paid

LEMMA PaidStep ==
  TypeOK /\ Holding /\ Keys /\ Paid /\ [Next]_vars => Paid'
<1> SUFFICES ASSUME TypeOK, Holding, Keys, Paid, [Next]_vars
             PROVE  Paid'
  OBVIOUS
<1>1. TypeOK'
  BY TypeStep
<1>2. faults \in Nat
  BY SessionBounds DEF TypeOK
<1>3. \A x \in Requests, t \in Tokens : req'[x] = req[x] => Unmoved(x, t)
  BY DEF Unmoved
<1>4. ASSUME NEW r \in Requests,
             Login(r) \/ Password(r) \/ Refresh(r) \/ Logout(r) \/ Parse(r)
               \/ Load(r) \/ Answer(r) \/ LoseAnswer(r)
      PROVE  Paid'
  <2>1. UNCHANGED <<now, revoked, exchanged>> /\ faults <= faults'
    BY <1>2, <1>4 DEF Login, Password, Refresh, Logout, Parse, Load, Answer, LoseAnswer, Fault
  <2>2. \A x \in Requests : x # r => req'[x] = req[x]
    BY <1>4 DEF Login, Password, Refresh, Logout, Present, Parse, Load, Answer,
                LoseAnswer, GoTo, TypeOK
  <2>3. ASSUME NEW t \in Tokens PROVE Unmoved(r, t)
    <3>1. CASE Login(r) \/ Refresh(r) \/ Logout(r)
      BY <3>1 DEF Login, Refresh, Logout, Present, GoTo, TypeOK, Unmoved, Past, Ahead
    <3>2. CASE Answer(r) \/ LoseAnswer(r)
      BY <3>2 DEF Answer, LoseAnswer, Idle, TypeOK, Unmoved, Past, Ahead
    <3>3. CASE Load(r)
      BY <3>3 DEF Load, GoTo, TypeOK, Unmoved, Past, Ahead
    <3>4. CASE Password(r)
      <4>1. req[r].token = NoToken /\ req'[r].token = NoToken
        BY <3>4 DEF Password, GoTo, Idle, TypeOK, Holding
      <4>2. QED
        BY <4>1, TokenShape DEF Unmoved
    <3>5. CASE Parse(r)
      <4>1. /\ req'[r].token = req[r].token
            /\ req'[r].at = IF Expired(req[r].token) THEN "refused" ELSE "lookup"
        BY <3>5 DEF Parse, GoTo, TypeOK
      <4>2. QED
        BY <4>1 DEF Unmoved, Past, Ahead
    <3>6. QED
      BY <1>4, <3>1, <3>2, <3>3, <3>4, <3>5
  <2>4. QED
    BY <1>1, <1>3, <2>1, <2>2, <2>3, PaidFrame
<1>5. ASSUME NEW r \in Requests, Lookup(r) PROVE Paid'
  BY <1>1, <1>5, LookupPaid
<1>6. ASSUME NEW r \in Requests, Rotate(r) \/ Revoke(r) PROVE Paid'
  <2>1. req[r].token \in Tokens
    BY <1>6, TokenHeld DEF Rotate, Revoke
  <2>2. /\ SetRevoked(req[r].token) /\ UNCHANGED <<now, exchanged>>
        /\ \/ req[r].at = "rotate" /\ req' = [req EXCEPT ![r].at = "issue"]
           \/ req[r].at = "revoke" /\ req' = [req EXCEPT ![r].at = "answered"]
    BY <1>6 DEF Rotate, Revoke, GoTo
  <2>3. QED
    BY <1>1, <2>1, <2>2, SetRevokedPaid
<1>7. ASSUME NEW r \in Requests, Issue(r) PROVE Paid'
  BY <1>1, <1>7, IssuePaid
<1>8. ASSUME (\E u \in Users : Deactivate(u)) \/ UNCHANGED vars
      PROVE  Paid'
  <2>1. UNCHANGED <<now, req, revoked, exchanged, faults>>
    BY <1>8 DEF Deactivate, vars
  <2>2. QED
    BY <1>1, <1>2, <1>3, <2>1, PaidFrame
<1>9. CASE Tick
  BY <1>1, <1>9, TickPaid
<1>10. CASE Crash
  <2>1. UNCHANGED <<now, revoked, exchanged>> /\ faults <= faults'
    BY <1>2, <1>10 DEF Crash, Fault
  <2>2. \A x \in Requests, t \in Tokens : Unmoved(x, t)
    BY <1>10 DEF Crash, Idle, Unmoved, Past, Ahead
  <2>3. QED
    BY <1>1, <2>1, <2>2, PaidFrame
<1>11. QED
  BY <1>4, <1>5, <1>6, <1>7, <1>8, <1>9, <1>10 DEF Next

LEMMA PaidInit == Init => Paid
<1> SUFFICES ASSUME Init, NEW t \in Tokens PROVE Covered(t)
  BY DEF Paid
<1>1. At(req, t, {"issue"}) = {}
  BY DEF Init, Idle, At
<1>2. Issuing(t) = 0
  BY <1>1, FS_EmptySet DEF Issuing
<1>3. QED
  BY <1>2 DEF Init, Covered

\* A token pays for no more refreshes during its life than there can be requests
\* past the lookup at once, for as many again after it by requests parsed before
\* its end, and for one more with each fault (service.go:148-168), for any number
\* of requests, clients that share it, and seconds.
THEOREM ReuseIsBounded == Spec => []ReuseBounded
<1>1. Spec => [](TypeOK /\ Holding /\ Keys /\ Paid)
  BY PaidInit, PaidStep, SessionKeys, PTL DEF Spec
<1>2. ASSUME TypeOK, Paid PROVE ReuseBounded
  BY <1>2, CoveredTypes DEF Covered, Paid, ReuseBounded
<1>3. QED
  BY <1>1, <1>2, PTL

----------------------------------------------------------------------------
(* Why a browser is refused                                                  *)

\* A browser holds the token of its cookie and those of its requests.
Held(c, t) ==
  \/ cookie[c] = t
  \/ \E r \in Requests : Owner[r] = c /\ (req[r].token = t \/ req[r].out = t)

\* Only tokens once issued are revoked, only answers carry a new token, and no
\* two browsers hold a token that was issued once and never sent in a body.
Separate ==
  /\ \A t \in Tokens : revoked[t] # 0 => t \in issued
  /\ \A r \in Requests :
       /\ req[r].at # "answered" => req[r].out = NoToken
       /\ req[r].at = "refused" => req[r].token # NoToken
  /\ \A c, d \in Clients, t \in Tokens :
       c # d /\ Held(c, t) /\ Held(d, t) => t \in shared

\* A token that the server will accept until it expires, or that was issued
\* twice or sent in a body; or none.
Good(t) == t = NoToken \/ t \in shared \/ revoked[t] = 0

Cause(r) ==
  Expired(req[r].token) \/ ~active[User(r)] \/ req[r].token \in shared

\* What a browser with one request at a time relies on before, during and after
\* a refresh.
Reliable(r) ==
  /\ req[r].at \in {"idle", "password"} => Good(cookie[Owner[r]])
  /\ req[r].at \in {"check", "lookup", "load", "rotate"} => Good(req[r].token)
  /\ req[r].at = "answered" => Good(req[r].out)
  /\ req[r].at = "refused" => Cause(r)

Reliance ==
  faults = 0 => \A r \in Requests : OneAtATime(Owner[r]) => Reliable(r)

LEMMA OwnAlone ==
  ASSUME NEW r \in Requests, NEW x \in Requests, OneAtATime(Owner[r]), Owner[x] = Owner[r]
  PROVE  x = r
<1> DEFINE own == {y \in Requests : Owner[y] = Owner[r]}
<1>1. IsFiniteSet(own) /\ Cardinality(own) <= 1
  BY OwnerAssumption, FS_Subset DEF OneAtATime
<1>2. SUFFICES ASSUME x # r PROVE FALSE
  OBVIOUS
<1>3. {x, r} \subseteq own
  OBVIOUS
<1>4. IsFiniteSet({x}) /\ Cardinality({x}) = 1
  BY FS_Singleton
<1>5. Cardinality({x} \cup {r}) = 2
  BY <1>2, <1>4, FS_AddElement
<1>6. {x} \cup {r} \subseteq own
  BY <1>3
<1> HIDE DEF own
<1>7. Cardinality({x} \cup {r}) <= Cardinality(own) /\ Cardinality(own) \in Nat
  BY <1>1, <1>6, FS_Subset, FS_CardinalityType
<1>8. QED
  BY <1>1, <1>5, <1>7

\* The steps of a request that issue nothing hand no browser a token it did not
\* hold, unless they read it from a body.
LEMMA NothingNewHeld ==
  ASSUME TypeOK, Separate, NEW x \in Requests,
         \/ Login(x) \/ Password(x) \/ Refresh(x) \/ Logout(x) \/ Parse(x) \/ Lookup(x) \/ Load(x)
         \/ Rotate(x) \/ Revoke(x) \/ Answer(x) \/ LoseAnswer(x),
         NEW c \in Clients, NEW t \in Tokens, Held(c, t)'
  PROVE  Held(c, t) \/ t \in shared'
<1> USE DEF TypeOK, GoTo, Done, Idle
<1>0. t # NoToken /\ Owner[x] \in Clients
  BY TokenShape, OwnerAssumption
<1>1. \A r \in Requests : req'[r].out = t => req[r].out = t
  BY <1>0 DEF Login, Password, Refresh, Logout, Present, Parse, Lookup, Load, Rotate, Revoke, Answer, LoseAnswer
<1>2. \A r \in Requests : req'[r].token = t =>
        req[r].token = t \/ (r = x /\ (cookie[Owner[x]] = t \/ t \in shared'))
  BY <1>0 DEF Login, Password, Refresh, Logout, Present, Parse, Lookup, Load, Rotate, Revoke, Answer, LoseAnswer
<1>3. cookie'[c] = t => cookie[c] = t \/ (c = Owner[x] /\ req[x].out = t)
  BY <1>0 DEF Login, Password, Refresh, Logout, Present, Parse, Lookup, Load, Rotate, Revoke, Answer, LoseAnswer,
              NewCookie
<1>4. QED
  BY <1>1, <1>2, <1>3 DEF Held

LEMMA SeparateStep == TypeOK /\ TypeOK' /\ Holding /\ Separate /\ [Next]_vars => Separate'
<1> SUFFICES ASSUME TypeOK, TypeOK', Holding, Separate, [Next]_vars PROVE Separate'
  OBVIOUS
<1>1. ASSUME NEW x \in Requests,
             \/ Login(x) \/ Password(x) \/ Refresh(x) \/ Logout(x) \/ Parse(x) \/ Lookup(x) \/ Load(x)
             \/ Rotate(x) \/ Revoke(x) \/ Answer(x) \/ LoseAnswer(x)
      PROVE  Separate'
  <2>1. issued' = issued /\ shared \subseteq shared'
    BY <1>1 DEF Login, Password, Refresh, Logout, Present, Parse, Lookup, Load, Rotate,
                Revoke, Answer, LoseAnswer
  <2>2. \A t \in Tokens : revoked'[t] # 0 => t \in issued
    <3>1. CASE Rotate(x) \/ Revoke(x)
      <4>1. req[x].token \in issued /\ SetRevoked(req[x].token)
        BY <3>1, TokenHeld DEF Rotate, Revoke
      <4>2. QED
        BY <4>1 DEF SetRevoked, Separate, TypeOK
    <3>2. CASE revoked' = revoked
      BY <3>2 DEF Separate
    <3>3. QED
      BY <1>1, <3>1, <3>2 DEF Login, Password, Refresh, Logout, Parse, Lookup, Load, Answer, LoseAnswer
  <2>3. \A r \in Requests :
          /\ req'[r].at # "answered" => req'[r].out = NoToken
          /\ req'[r].at = "refused" => req'[r].token # NoToken
    BY <1>1 DEF Login, Password, Refresh, Logout, Present, Parse, Lookup, Load, Rotate,
                Revoke, Answer, LoseAnswer, Separate, Holding, GoTo, Done, Idle, TypeOK
  <2>4. \A c \in Clients, t \in Tokens : Held(c, t)' => Held(c, t) \/ t \in shared'
    BY <1>1, NothingNewHeld
  <2>5. QED
    BY <2>1, <2>2, <2>3, <2>4 DEF Separate
<1>2. ASSUME NEW x \in Requests, Issue(x) PROVE Separate'
  <2> DEFINE new == <<User(x), now>>
  <2>1. /\ req' = [req EXCEPT ![x].at = "answered", ![x].out = new]
        /\ issued' = issued \cup {new} /\ shared' = shared \cup (issued \cap {new})
        /\ revoked' = revoked /\ cookie' = cookie
    BY <1>2 DEF Issue, Done
  <2> HIDE DEF new
  <2>2. \A c \in Clients, t \in Tokens :
          Held(c, t)' => Held(c, t) \/ (c = Owner[x] /\ t = new)
    <3>1. \A r \in Requests :
            /\ req'[r].token = req[r].token
            /\ req'[r].out = req[r].out \/ (r = x /\ req'[r].out = new)
      BY <2>1 DEF TypeOK
    <3>2. QED
      BY <2>1, <3>1 DEF Held
  <2>3. \A c \in Clients, t \in Tokens : Held(c, t) => t \in issued
    BY TokenShape DEF Held, TypeOK
  <2>4. \A c, d \in Clients, t \in Tokens :
          c # d /\ Held(c, t)' /\ Held(d, t)' => t \in shared'
    BY <2>1, <2>2, <2>3 DEF Separate
  <2>5. \A r \in Requests :
          /\ req'[r].at # "answered" => req'[r].out = NoToken
          /\ req'[r].at = "refused" => req'[r].token # NoToken
    BY <2>1 DEF Separate, TypeOK
  <2>6. QED
    BY <2>1, <2>4, <2>5 DEF Separate
<1>3. CASE UNCHANGED <<req, cookie, revoked, issued, shared>>
  BY <1>3 DEF Separate, Held
<1>4. CASE Crash
  <2>1. /\ req' = [r \in Requests |-> Idle]
        /\ UNCHANGED <<cookie, revoked, issued, shared>>
    BY <1>4 DEF Crash
  <2>2. \A c \in Clients, t \in Tokens : Held(c, t)' => Held(c, t)
    BY <2>1, TokenShape DEF Held, Idle
  <2>3. QED
    BY <2>1, <2>2 DEF Separate, Idle
<1>5. QED
  BY <1>1, <1>2, <1>3, <1>4 DEF Next, Deactivate, Tick, vars

\* No step undoes a cause, revives a user or makes a token issued once of one
\* issued twice.
LEMMA Monotone ==
  ASSUME TypeOK, TypeOK', [Next]_vars
  PROVE  /\ shared \subseteq shared' /\ now <= now' /\ now \in Nat /\ now' \in Nat
         /\ faults \in Nat /\ (faults' = 0 => faults = 0)
         /\ \A u \in Users : active'[u] => active[u]
<1>1. now \in Nat /\ now' \in Nat /\ faults \in Nat /\ faults' \in Nat
  BY SessionBounds DEF TypeOK
<1>2. now' = now \/ now' = now + 1
  BY DEF Next, Login, Password, Refresh, Logout, Present, Parse, Lookup, Load, Rotate, Issue, Revoke, Answer,
         LoseAnswer, Deactivate, Tick, Crash, vars
<1>3. faults' = faults \/ faults' = faults + 1
  BY DEF Next, Login, Password, Refresh, Logout, Present, Parse, Lookup, Load, Rotate, Issue, Revoke, Answer,
         LoseAnswer, Deactivate, Tick, Crash, vars, Fault, SetRevoked
<1>4. shared \subseteq shared'
  BY DEF Next, Login, Password, Refresh, Logout, Present, Parse, Lookup, Load, Rotate, Issue, Revoke, Answer,
         LoseAnswer, Deactivate, Tick, Crash, vars
<1>5. active' = active \/ \E u \in Users : active' = [active EXCEPT ![u] = FALSE]
  BY DEF Next, Login, Password, Refresh, Logout, Present, Parse, Lookup, Load, Rotate, Issue, Revoke, Answer,
         LoseAnswer, Deactivate, Tick, Crash, vars
<1>6. \A u \in Users : active'[u] => active[u]
  BY <1>5 DEF TypeOK
<1>7. QED
  BY <1>1, <1>2, <1>3, <1>4, <1>6

LEMMA CauseStays ==
  ASSUME TypeOK, TypeOK', [Next]_vars, NEW r \in Requests, req'[r].token = req[r].token,
         req[r].token \in Tokens, Cause(r)
  PROVE  Cause(r)'
<1>1. req[r].token[2] \in Nat /\ User(r) \in Users
  BY TokenShape, OwnerAssumption, AccountAssumption DEF User
<1>2. Expired(req[r].token) => Expired(req[r].token)'
  BY <1>1, Monotone, TTLAssumption DEF Expired
<1>3. ~active[User(r)] => ~active'[User(r)]
  BY <1>1, Monotone
<1>4. QED
  BY <1>2, <1>3, Monotone DEF Cause, User, Expired

\* A revocation concerns the browser that asks for it: what another browser
\* holds stays good, or was issued twice.
LEMMA GoodStays ==
  ASSUME TypeOK, TypeOK', Holding, Separate, [Next]_vars, NEW CONSTANT c, c \in Clients,
         NEW CONSTANT t, t \in Tokens \cup {NoToken}, Good(t), t # NoToken => Held(c, t),
         \A x \in Requests : Rotate(x) \/ Revoke(x) => Owner[x] # c
  PROVE  Good(t)'
<1>1. ASSUME NEW x \in Requests, Rotate(x) \/ Revoke(x) PROVE Good(t)'
  <2>1. /\ req[x].token \in Tokens /\ SetRevoked(req[x].token) /\ shared' = shared
        /\ Owner[x] \in Clients /\ Owner[x] # c
    BY <1>1, TokenHeld, OwnerAssumption DEF Rotate, Revoke
  <2>2. Held(Owner[x], req[x].token)
    BY DEF Held
  <2>3. t = req[x].token => t \in shared
    BY <2>1, <2>2, TokenShape DEF Separate
  <2>4. QED
    BY <2>1, <2>3 DEF Good, SetRevoked, TypeOK
<1>2. CASE revoked' = revoked
  BY <1>2, Monotone DEF Good
<1>3. QED
  BY <1>1, <1>2 DEF Next, Login, Password, Refresh, Logout, Parse, Lookup, Load, Issue, Answer,
     LoseAnswer, Deactivate, Tick, Crash, vars

\* The steps of other browsers, of time and of administrators.
LEMMA OthersLeave ==
  ASSUME TypeOK, TypeOK', Holding, Separate, [Next]_vars, NEW r \in Requests, Reliable(r),
         req'[r] = req[r], cookie'[Owner[r]] = cookie[Owner[r]],
         \A x \in Requests : Rotate(x) \/ Revoke(x) => Owner[x] # Owner[r]
  PROVE  Reliable(r)'
<1> DEFINE c == Owner[r]
<1>0. c \in Clients /\ req[r] \in States /\ cookie[c] \in Tokens \cup {NoToken}
  BY OwnerAssumption DEF TypeOK, States
<1>1. ASSUME NEW CONSTANT t, t \in Tokens \cup {NoToken}, Good(t), t # NoToken => Held(c, t)
      PROVE  Good(t)'
  BY <1>0, <1>1, GoodStays
<1>2. PICK token \in Tokens \cup {NoToken} : token = req[r].token
  BY <1>0 DEF States
<1>3. PICK out \in Tokens \cup {NoToken} : out = req[r].out
  BY <1>0 DEF States
<1>4. PICK kept \in Tokens \cup {NoToken} : kept = cookie[c]
  BY <1>0
<1>5. Held(c, token) /\ Held(c, out) /\ Held(c, kept)
  BY <1>2, <1>3, <1>4 DEF Held
<1>6. Good(token) => Good(token)'
  BY <1>1, <1>5
<1>7. Good(out) => Good(out)'
  BY <1>1, <1>5
<1>8. Good(kept) => Good(kept)'
  BY <1>1, <1>5
<1>9. req'[r].token = token /\ req'[r].out = out /\ cookie'[c] = kept
  BY <1>2, <1>3, <1>4
<1>10. req[r].at = "refused" => Cause(r)'
  <2>1. CASE token \in Tokens
    BY <1>2, <2>1, CauseStays DEF Reliable
  <2>2. CASE token = NoToken
    BY <1>2, <2>2 DEF Separate
  <2>3. QED
    BY <2>1, <2>2
<1>11. QED
  BY <1>2, <1>3, <1>4, <1>6, <1>7, <1>8, <1>9, <1>10 DEF Reliable, Good

\* The steps of the browser's own request.
LEMMA OwnStep ==
  ASSUME TypeOK, TypeOK', Holding, Separate, NEW r \in Requests, Reliable(r),
         \/ Login(r) \/ Password(r) \/ Refresh(r) \/ Logout(r) \/ Parse(r) \/ Lookup(r) \/ Load(r)
         \/ Rotate(r) \/ Issue(r) \/ Revoke(r) \/ Answer(r),
         faults' = faults
  PROVE  Reliable(r)'
<1> USE DEF Reliable, GoTo, Done
<1>0. /\ req[r] \in States /\ req \in [Requests -> States] /\ Owner[r] \in Clients
      /\ cookie \in [Clients -> Tokens \cup {NoToken}] /\ faults \in Nat /\ ~Fault
  BY OwnerAssumption, SessionBounds DEF TypeOK, States, Fault
<1>1. CASE Login(r)
  <2>1. req'[r].at = "password" /\ UNCHANGED <<cookie, revoked, shared>>
    BY <1>0, <1>1 DEF Login, States
  <2>2. QED
    BY <1>1, <2>1 DEF Login, Good
<1>2. CASE Password(r)
  <2>1. req'[r].at \in {"issue", "idle"} /\ UNCHANGED <<cookie, revoked, shared>>
    BY <1>0, <1>2 DEF Password, States, Idle
  <2>2. QED
    BY <1>2, <2>1 DEF Password, Good
<1>3. CASE Refresh(r)
  <2>1. /\ req'[r].at = "check" /\ req[r].at = "idle" /\ UNCHANGED <<cookie, revoked>>
        /\ \/ req'[r].token = cookie[Owner[r]] /\ shared' = shared
           \/ req'[r].token \in shared'
    <3>1. PICK t \in Presented(r) :
            /\ req' = [req EXCEPT ![r].at = "check", ![r].token = t]
            /\ shared' = IF t = cookie[Owner[r]] THEN shared ELSE shared \cup {t}
      BY <1>3 DEF Refresh, Present
    <3>2. req'[r].at = "check" /\ req'[r].token = t
      BY <1>0, <3>1 DEF States
    <3>3. QED
      BY <1>3, <3>1, <3>2 DEF Refresh
  <2>2. QED
    BY <2>1 DEF Good
<1>4. CASE Logout(r)
  <2>1. /\ req'[r].at \in {"answered", "revoke"} /\ req'[r].out = req[r].out
        /\ req[r].at = "idle"
    BY <1>0, <1>4 DEF Logout, Present, States
  <2>2. QED
    BY <2>1 DEF Good, Separate
<1>5. CASE Parse(r) \/ Lookup(r)
  <2>1. /\ req[r].at \in {"check", "lookup"} /\ req[r].token \in Tokens
        /\ req'[r].token = req[r].token
        /\ UNCHANGED <<now, active, revoked, shared>>
    BY <1>0, <1>5, TokenHeld DEF Parse, Lookup, States
  <2>2. \/ req'[r].at \in {"lookup", "load"}
        \/ req'[r].at = "refused" /\ (Expired(req[r].token) \/ Refuses(req[r].token))
    BY <1>0, <1>5 DEF Parse, Lookup, States
  <2>3. CASE req'[r].at \in {"lookup", "load"}
    BY <2>1, <2>3 DEF Good
  <2>4. CASE req'[r].at = "refused" /\ (Expired(req[r].token) \/ Refuses(req[r].token))
    <3>1. Refuses(req[r].token) => req[r].token \in shared
      BY <2>1, TokenShape DEF Good, Refuses, KeyMayBeThere
    <3>2. Cause(r)
      BY <2>4, <3>1 DEF Cause
    <3>3. Cause(r)'
      BY <2>1, <3>2 DEF Cause, Expired, User
    <3>4. QED
      BY <2>4, <3>3
  <2>5. QED
    BY <2>2, <2>3, <2>4
<1>6. CASE Load(r)
  <2>1. /\ req[r].at = "load" /\ req'[r].token = req[r].token
        /\ req'[r].at = "rotate" \/ (req'[r].at = "refused" /\ ~active[User(r)])
        /\ UNCHANGED <<active, revoked, shared>>
    BY <1>0, <1>6 DEF Load, States
  <2>2. QED
    BY <2>1 DEF Good, Cause, User
<1>7. CASE Rotate(r)
  <2>1. req'[r].at = "issue"
    BY <1>0, <1>7 DEF Rotate, States
  <2>2. QED
    BY <2>1
<1>8. CASE Issue(r)
  <2>1. /\ req'[r].at = "answered" /\ req'[r].out = <<User(r), now>>
        /\ shared' = shared \cup (issued \cap {<<User(r), now>>}) /\ revoked' = revoked
    BY <1>0, <1>8 DEF Issue, States
  <2>2. <<User(r), now>> \in Tokens
    BY TokenShape, OwnerAssumption, AccountAssumption DEF User, TypeOK
  <2>3. QED
    BY <2>1, <2>2 DEF Good, Separate
<1>9. CASE Revoke(r)
  <2>1. req'[r].at = "answered" /\ req'[r].out = req[r].out /\ req[r].at = "revoke"
    BY <1>0, <1>9 DEF Revoke, States
  <2>2. QED
    BY <2>1 DEF Good, Separate
<1>10. CASE Answer(r)
  <2>1. /\ req'[r].at = "idle" /\ cookie'[Owner[r]] = req[r].out
        /\ req[r].at \in {"answered", "refused"} /\ UNCHANGED <<revoked, shared>>
    BY <1>0, <1>10 DEF Answer, NewCookie, Idle
  <2>2. QED
    BY <2>1 DEF Good, Separate
<1>11. QED
  BY <1>1, <1>2, <1>3, <1>4, <1>5, <1>6, <1>7, <1>8, <1>9, <1>10

LEMMA RelianceStep ==
  TypeOK /\ TypeOK' /\ Holding /\ Separate /\ Reliance /\ [Next]_vars => Reliance'
<1> SUFFICES ASSUME TypeOK, TypeOK', Holding, Separate, Reliance, [Next]_vars, faults' = 0,
                    NEW r \in Requests, OneAtATime(Owner[r])
             PROVE  Reliable(r)'
  BY DEF Reliance, OneAtATime
<1>1. faults = 0 /\ faults' = faults /\ Reliable(r)
  BY Monotone DEF Reliance
<1>2. ~Fault
  BY <1>1 DEF Fault
<1>3. \A x \in Requests : x # r => Owner[x] # Owner[r]
  BY OwnAlone
<1>4. CASE req'[r] = req[r] /\ cookie'[Owner[r]] = cookie[Owner[r]]
  <2>1. ~Rotate(r) /\ ~Revoke(r)
    BY <1>4 DEF Rotate, Revoke, GoTo, TypeOK
  <2>2. \A x \in Requests : Rotate(x) \/ Revoke(x) => Owner[x] # Owner[r]
    BY <1>3, <2>1
  <2>3. QED
    BY <1>1, <1>4, <2>2, OthersLeave
<1>5. ASSUME NEW x \in Requests,
             \/ Login(x) \/ Password(x) \/ Refresh(x) \/ Logout(x) \/ Parse(x) \/ Lookup(x) \/ Load(x)
             \/ Rotate(x) \/ Issue(x) \/ Revoke(x) \/ Answer(x)
      PROVE  Reliable(r)'
  <2>1. CASE x = r
    BY <1>1, <1>5, <2>1, OwnStep
  <2>2. CASE x # r
    <3>1. req'[r] = req[r] /\ cookie'[Owner[r]] = cookie[Owner[r]]
      <4>1. req'[r] = req[r]
        BY <1>5, <2>2 DEF Login, Password, Refresh, Logout, Present, Parse, Lookup, Load, Rotate, Issue,
           Revoke, Answer, GoTo, Done, TypeOK
      <4>2. cookie' = cookie \/ \E t : cookie' = [cookie EXCEPT ![Owner[x]] = t]
        BY <1>5 DEF Login, Password, Refresh, Logout, Parse, Lookup, Load, Rotate, Issue,
           Revoke, Answer
      <4>3. Owner[x] # Owner[r] /\ Owner[r] \in Clients
        BY <1>3, <2>2, OwnerAssumption
      <4>4. cookie'[Owner[r]] = cookie[Owner[r]]
        BY <4>2, <4>3 DEF TypeOK
      <4>5. QED
        BY <4>1, <4>4
    <3>2. QED
      BY <1>4, <3>1
  <2>3. QED
    BY <2>1, <2>2
<1>6. QED
  BY <1>2, <1>4, <1>5 DEF Next, LoseAnswer, Crash, Deactivate, Tick, vars

\* Without faults a browser that runs one request at a time is refused a refresh
\* only because its token expired, its user is inactive, or the token was issued
\* twice in one second or sent in a body, whatever other browsers of the user do
\* (service.go:146-168).
THEOREM RefusalsHaveCauses == Spec => []RefusedForCause
<1>1. Init => Separate /\ Reliance
  BY OwnerAssumption, TokenShape
  DEF Init, Idle, Separate, Held, Reliance, Reliable, Good
<1>2. Reliance => RefusedForCause
  BY DEF Reliance, Reliable, Cause, RefusedForCause
<1>3. QED
  BY <1>1, <1>2, TypeInit, TypeStep, SeparateStep, RelianceStep, PTL DEF Spec
=============================================================================
