---------------------------- MODULE AuthSessions ----------------------------
(****************************************************************************)
(* Login, token refresh and logout of internal/auth (service.go, handler.go) *)
(* with the refresh tokens of pkg/jwt/jwt.go and the Redis keys of revoked   *)
(* tokens.  A refresh token is a JWT over the user and times in whole        *)
(* seconds, nothing else: two tokens issued to a user in one second are one  *)
(* string, so a token is <<user, second of issue>>.                          *)
(*                                                                          *)
(* A request runs step by step between its calls to Redis and PostgreSQL;    *)
(* its owner, a browser, keeps one refresh cookie and may run several         *)
(* requests at once (tabs).  A client without the cookie may send a token in  *)
(* the body instead, any that was issued to its user.  Redis errors are       *)
(* ignored where the code ignores them.  The password check, the allowlist    *)
(* and the access token, which has no state, are not modelled; nor is the     *)
(* cookie's own end of life, which comes no earlier than its token's.        *)
(****************************************************************************)
EXTENDS Integers, FiniteSets

CONSTANTS
  Users,
  Clients,     \* browsers
  Account,     \* the user a browser signs in as
  Requests,    \* requests in progress, at most this many
  Owner,       \* the browser that sends them
  RefreshTTL,  \* refreshExpiry, in seconds
  MaxTime,     \* bound: seconds
  MaxFaults    \* bound: Redis errors, lost answers and restarts

ASSUME AccountAssumption == Account \in [Clients -> Users]
ASSUME OwnerAssumption   == Owner \in [Requests -> Clients] /\ IsFiniteSet(Requests)
ASSUME TTLAssumption     == RefreshTTL \in Nat \ {0}
ASSUME SessionBounds     == MaxTime \in Nat /\ MaxFaults \in Nat

VARIABLES
  now,
  active,     \* users.is_active
  cookie,     \* the refresh token a browser holds
  revoked,    \* second in which the key revoked_rt:<token> expires, 0 if never set
  req,        \* where each request is, the token it presented, the one it returns
  issued,     \* history: tokens issued
  shared,     \* history: tokens issued more than once, or sent in a body
  exchanged,  \* history: refreshes that each token has paid for
  faults

vars == <<now, active, cookie, revoked, req, issued, shared, exchanged, faults>>

Tokens == Users \X (0..MaxTime)
NoToken == <<>>

Stages == {"idle", "password", "check", "lookup", "load", "rotate", "issue", "revoke",
           "answered", "refused"}

Idle == [at |-> "idle", token |-> NoToken, out |-> NoToken]

User(r) == Account[Owner[r]]

Init ==
  /\ now = 0
  /\ active = [u \in Users |-> TRUE]
  /\ cookie = [c \in Clients |-> NoToken]
  /\ revoked = [t \in Tokens |-> 0]
  /\ req = [r \in Requests |-> Idle]
  /\ issued = {}
  /\ shared = {}
  /\ exchanged = [t \in Tokens |-> 0]
  /\ faults = 0

TypeOK ==
  /\ now \in 0..MaxTime
  /\ active \in [Users -> BOOLEAN]
  /\ cookie \in [Clients -> issued \cup {NoToken}]
  /\ revoked \in [Tokens -> 0..(MaxTime + RefreshTTL)]
  /\ req \in [Requests -> [at : Stages, token : issued \cup {NoToken},
                           out : issued \cup {NoToken}]]
  /\ issued \subseteq Tokens
  /\ shared \subseteq issued
  /\ exchanged \in [Tokens -> Nat]
  /\ faults \in 0..MaxFaults

Fault == faults < MaxFaults /\ faults' = faults + 1

Expired(t) == now >= t[2] + RefreshTTL

\* The life given to the key of a revoked token.
\* Mutants: one second less than the life of a token; another life on top.
ShortKeyLife == RefreshTTL - 1
LongKeyLife == 2 * RefreshTTL
KeyLife == RefreshTTL

\* The key goes at some moment of the second revoked[t], so that a lookup in
\* that second may find it or not.
KeyMayBeThere(t) == revoked[t] # 0 /\ now <= revoked[t]
KeyMayBeGone(t) == now >= revoked[t]

GoTo(r, stage) == req' = [req EXCEPT ![r].at = stage]
Done(r, stage, t) == req' = [req EXCEPT ![r].at = stage, ![r].out = t]

----------------------------------------------------------------------------
(* Requests                                                                  *)

\* POST /auth/login arrives, with credentials.
Login(r) ==
  /\ req[r].at = "idle"
  /\ GoTo(r, "password")
  /\ UNCHANGED <<now, active, cookie, revoked, issued, shared, exchanged, faults>>

\* Service.Login reads the user; a refusal leaves the cookie alone.
Password(r) ==
  /\ req[r].at = "password"
  /\ IF active[User(r)] THEN GoTo(r, "issue") ELSE req' = [req EXCEPT ![r] = Idle]
  /\ UNCHANGED <<now, active, cookie, revoked, issued, shared, exchanged, faults>>

\* extractRefreshToken: the cookie, or a token in the body of a request without
\* one.
Presented(r) ==
  IF cookie[Owner[r]] # NoToken THEN {cookie[Owner[r]]}
  ELSE {t \in issued : t[1] = User(r)}

\* A request starts to work on a token; history: one taken from a body is shared.
Present(r, stage) ==
  \E t \in Presented(r) :
    /\ req' = [req EXCEPT ![r].at = stage, ![r].token = t]
    /\ shared' = IF t = cookie[Owner[r]] THEN shared ELSE shared \cup {t}

\* POST /auth/refresh arrives with a token (without one it is refused and
\* nothing changes).
Refresh(r) ==
  /\ req[r].at = "idle"
  /\ Present(r, "check")
  /\ UNCHANGED <<now, active, cookie, revoked, issued, exchanged, faults>>

\* POST /auth/logout arrives; with an access token that has expired it ends in
\* the Auth middleware and changes nothing, without a token it revokes nothing.
Logout(r) ==
  /\ req[r].at = "idle"
  /\ \/ Present(r, "revoke")
     \/ /\ cookie[Owner[r]] = NoToken
        /\ GoTo(r, "answered")
        /\ UNCHANGED shared
  /\ UNCHANGED <<now, active, cookie, revoked, issued, exchanged, faults>>

\* Service.Refresh: ParseRefreshToken looks at the clock.
Parse(r) ==
  /\ req[r].at = "check"
  /\ GoTo(r, IF Expired(req[r].token) THEN "refused" ELSE "lookup")
  /\ UNCHANGED <<now, active, cookie, revoked, issued, shared, exchanged, faults>>

\* The answer of Redis Exists that refuses a request.
\* Mutant: the revocation key is not looked up.
NeverRefuses(t) == FALSE
Refuses(t) == KeyMayBeThere(t)

\* Redis Exists, later; its error counts as "not revoked".
Lookup(r) ==
  /\ req[r].at = "lookup"
  /\ LET t == req[r].token
     IN  \/ Refuses(t) /\ GoTo(r, "refused") /\ UNCHANGED faults
         \/ (~Refuses(t) \/ KeyMayBeGone(t)) /\ GoTo(r, "load") /\ UNCHANGED faults
         \/ Refuses(t) /\ GoTo(r, "load") /\ Fault
  /\ UNCHANGED <<now, active, cookie, revoked, issued, shared, exchanged>>

\* User.Get; an error or an inactive user ends in a refusal.
Load(r) ==
  /\ req[r].at = "load"
  /\ IF active[User(r)]
     THEN \/ GoTo(r, "rotate") /\ UNCHANGED faults
          \/ GoTo(r, "refused") /\ Fault
     ELSE GoTo(r, "refused") /\ UNCHANGED faults
  /\ UNCHANGED <<now, active, cookie, revoked, issued, shared, exchanged>>

\* Redis Set of the key, or an error that nobody looks at.
SetRevoked(t) ==
  \/ revoked' = [revoked EXCEPT ![t] = now + KeyLife] /\ UNCHANGED faults
  \/ UNCHANGED revoked /\ Fault

\* "Rotate: revoke old token".
Rotate(r) ==
  /\ req[r].at = "rotate"
  /\ SetRevoked(req[r].token)
  /\ GoTo(r, "issue")
  /\ UNCHANGED <<now, active, cookie, issued, shared, exchanged>>

\* IssueRefreshToken, after a password or a rotation.
Issue(r) ==
  /\ req[r].at = "issue"
  /\ LET new == <<User(r), now>>
         old == req[r].token
     IN  /\ Done(r, "answered", new)
         /\ issued' = issued \cup {new}
         /\ shared' = shared \cup (issued \cap {new})
         /\ exchanged' = IF old = NoToken THEN exchanged
                         ELSE [exchanged EXCEPT ![old] = @ + 1]
  /\ UNCHANGED <<now, active, cookie, revoked, faults>>

\* Service.Logout; its error is dropped by the handler.
Revoke(r) ==
  /\ req[r].at = "revoke"
  /\ SetRevoked(req[r].token)
  /\ GoTo(r, "answered")
  /\ UNCHANGED <<now, active, cookie, issued, shared, exchanged>>

\* The answer reaches the browser: setRefreshCookie with the new token, or
\* clearRefreshCookie.
\* Mutant: a refresh leaves the old cookie in place.
StaleCookie(r) ==
  IF req[r].token = NoToken THEN req[r].out ELSE cookie[Owner[r]]
NewCookie(r) == req[r].out

Answer(r) ==
  /\ req[r].at \in {"answered", "refused"}
  /\ cookie' = [cookie EXCEPT ![Owner[r]] = NewCookie(r)]
  /\ req' = [req EXCEPT ![r] = Idle]
  /\ UNCHANGED <<now, active, revoked, issued, shared, exchanged, faults>>

\* The answer is lost on its way.
LoseAnswer(r) ==
  /\ req[r].at \in {"answered", "refused"}
  /\ req' = [req EXCEPT ![r] = Idle]
  /\ Fault
  /\ UNCHANGED <<now, active, cookie, revoked, issued, shared, exchanged>>

----------------------------------------------------------------------------
(* Environment                                                               *)

\* users.is_active is only ever cleared by hand, in the database.
Deactivate(u) ==
  /\ active[u]
  /\ active' = [active EXCEPT ![u] = FALSE]
  /\ UNCHANGED <<now, cookie, revoked, req, issued, shared, exchanged, faults>>

Tick ==
  /\ now < MaxTime
  /\ now' = now + 1
  /\ UNCHANGED <<active, cookie, revoked, req, issued, shared, exchanged, faults>>

\* The server restarts: its requests are gone, Redis keeps its keys.
Crash ==
  /\ \E r \in Requests : req[r].at # "idle"
  /\ req' = [r \in Requests |-> Idle]
  /\ Fault
  /\ UNCHANGED <<now, active, cookie, revoked, issued, shared, exchanged>>

Next ==
  \/ \E r \in Requests :
       \/ Login(r) \/ Password(r) \/ Refresh(r) \/ Logout(r)
       \/ Parse(r) \/ Lookup(r) \/ Load(r) \/ Rotate(r) \/ Issue(r)
       \/ Revoke(r) \/ Answer(r) \/ LoseAnswer(r)
  \/ \E u \in Users : Deactivate(u)
  \/ Tick
  \/ Crash

Spec == Init /\ [][Next]_vars

----------------------------------------------------------------------------
(* Properties                                                                *)

\* "refresh token revoked" (service.go:154): while Redis answers, no lookup made
\* during the life of a token that was revoked once, by a refresh or a logout,
\* lets it pass: the key outlives the token.  A request whose token ends between
\* ParseRefreshToken and the lookup is left out: it may find the key gone.
RevokedStaysOut ==
  [][ \A r \in Requests :
        /\ req[r].at = "lookup" /\ req'[r].at = "load"
        /\ ~Expired(req[r].token)
        /\ faults' = faults
        => revoked[req[r].token] = 0 ]_vars

\* Looking a token up and revoking it are two steps, so a token can pay for more
\* than one refresh: during its life for those of the requests that passed the
\* lookup together, after it once more for those that were parsed before its end
\* and looked up after its key was gone, and one more for each fault.
ReuseBounded ==
  \A t \in Tokens :
    exchanged[t] <= (IF Expired(t) THEN 2 ELSE 1) * Cardinality(Requests) + faults

\* A browser that runs one request at a time is refused a refresh only if its
\* token has expired, its user is inactive, or the token was issued twice in
\* one second or sent in a body; otherwise the cookie it was given is good.
OneAtATime(c) == Cardinality({r \in Requests : Owner[r] = c}) <= 1

RefusedForCause ==
  \A r \in Requests :
    /\ req[r].at = "refused"
    /\ OneAtATime(Owner[r])
    /\ faults = 0
    => \/ Expired(req[r].token)
       \/ ~active[User(r)]
       \/ req[r].token \in shared

\* "Refresh rotates the refresh token and issues a new access token."
\* (service.go:146): the token that a refresh returns is not one that has just
\* been revoked.
RefreshedTokenUsable ==
  [][ \A r \in Requests :
        /\ req[r].at = "issue" /\ req[r].token # NoToken
        /\ req'[r].at = "answered"
        => ~(now < revoked[req'[r].out]) ]_vars
=============================================================================
