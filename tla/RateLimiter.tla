----------------------------- MODULE RateLimiter -----------------------------
(****************************************************************************)
(* The rate limiter of internal/middleware/ratelimit.go for one client       *)
(* address, over the Redis key rl:<ip> (internal/database/redis.go,          *)
(* IncrWithTTL).  All route groups of internal/api/router.go count on the    *)
(* same key, each against its own burst; every hit, also a rejected one,     *)
(* renews the key's time to live.  INCR and EXPIRE travel in one pipeline    *)
(* and are executed together, but the pipeline can break between them or its *)
(* reply can be lost, and the client library then sends it again (MaxRetries  *)
(* is not set in redis.go and is 3 by default; here a pipeline is repeated as *)
(* often as there are faults left).                                          *)
(*                                                                          *)
(* The rps argument of RateLimiter is never read; Rps stands for the value    *)
(* the configuration documents and only a property mentions it.              *)
(****************************************************************************)
EXTENDS Integers, FiniteSets

CONSTANTS
  Requests,   \* requests of the client in progress, at most this many
  Groups,     \* route groups
  Burst,      \* the burst of each group
  Rps,        \* requests the configuration grants per window
  Window,     \* windowDur, in ticks
  MaxCount,   \* bound: hits counted on one key
  MaxFaults   \* bound: executions of a pipeline that bring no reply

ASSUME BurstAssumption  == Burst \in [Groups -> Nat \ {0}]
ASSUME WindowAssumption == Window \in Nat \ {0}
ASSUME RequestsFinite   == IsFiniteSet(Requests)
ASSUME RateBounds       == MaxCount \in Nat /\ MaxFaults \in Nat

VARIABLES
  count,      \* value of the key, 0 if there is none
  ttl,        \* ticks until it expires; NoTTL if no EXPIRE has reached it
  req,        \* the requests in progress: their group and what INCR returned
  remaining,  \* the last X-RateLimit-Remaining of each group
  hits,       \* history: hits counted on the key, by the age they have at most
  admitted,   \* history: requests of each group let through, likewise
  faults

vars == <<count, ttl, req, remaining, hits, admitted, faults>>

Ages == 0..(Window - 1)
NoTTL == Window + 1

Idle == [group |-> "none", got |-> 0]

Init ==
  /\ count = 0
  /\ ttl = NoTTL
  /\ req = [r \in Requests |-> Idle]
  /\ remaining = Burst
  /\ hits = [a \in Ages |-> 0]
  /\ admitted = [g \in Groups |-> [a \in Ages |-> 0]]
  /\ faults = 0

TypeOK ==
  /\ count \in 0..MaxCount
  /\ ttl \in 1..NoTTL
  /\ req \in [Requests -> {Idle} \cup [group : Groups, got : 0..MaxCount]]
  /\ remaining \in [Groups -> Nat]
  /\ \A g \in Groups : remaining[g] <= Burst[g]
  /\ hits \in [Ages -> Nat]
  /\ admitted \in [Groups -> [Ages -> Nat]]
  /\ faults \in 0..MaxFaults

Fault == faults < MaxFaults /\ faults' = faults + 1

\* A history says under a how many events are at most a ticks old, and forgets
\* what is older than a window.
InWindow(history) == history[Window - 1]

Record(history, n) == [a \in Ages |-> history[a] + n]
Shift(history) == [a \in Ages |-> IF a = 0 THEN 0 ELSE history[a - 1]]

----------------------------------------------------------------------------

\* The time to live after an EXPIRE that follows an INCR up to n: every hit
\* starts the window anew.
\* Mutants: only the first hit starts it; only a repeated hit does.
RenewOnFirst(n) == IF n = 1 THEN Window ELSE ttl
RenewOnRepeat(n) == IF n > 1 THEN Window ELSE ttl
Renewed(n) == Window

\* No reply to the pipeline so far: got = 0.
Unanswered(r, g) == req[r] \in {Idle, [group |-> g, got |-> 0]}

\* IncrWithTTL for a request of group g, one execution of its pipeline: complete
\* and answered (ok), or a fault, after which INCR was executed or not and EXPIRE
\* after it or not.  Without a reply the client library sends the pipeline
\* again, time passing in between, or returns the error to Decide.
Count(r, g) ==
  /\ Unanswered(r, g)
  /\ count < MaxCount
  /\ \E times \in 0..1, expired, ok \in BOOLEAN :
       /\ ok => expired
       /\ expired => times = 1
       /\ IF ok THEN UNCHANGED faults ELSE Fault
       /\ count' = count + times
       /\ ttl' = IF expired THEN Renewed(count') ELSE ttl
       /\ hits' = Record(hits, times)
       /\ req' = [req EXCEPT ![r] = [group |-> g, got |-> IF ok THEN count' ELSE 0]]
  /\ UNCHANGED <<remaining, admitted>>

\* Mutant: the header without its lower bound.
LeftUnclamped(g, n) == Burst[g] - n
Left(g, n) == IF n < Burst[g] THEN Burst[g] - n ELSE 0

\* count > burst; an error lets the request through.
Exceeds(g, n) == n > Burst[g]

Decide(r) ==
  /\ req[r] # Idle
  /\ LET g == req[r].group
         n == req[r].got
     IN  /\ remaining' = IF n = 0 THEN remaining
                         ELSE [remaining EXCEPT ![g] = Left(g, n)]
         /\ admitted' = IF Exceeds(g, n) THEN admitted
                        ELSE [admitted EXCEPT ![g] = Record(@, 1)]
  /\ req' = [req EXCEPT ![r] = Idle]
  /\ UNCHANGED <<count, ttl, hits, faults>>

\* Time passes; Redis drops the key when its time is over.
Tick ==
  /\ ttl' = IF ttl \in 2..Window THEN ttl - 1 ELSE NoTTL
  /\ count' = IF ttl = 1 THEN 0 ELSE count
  /\ hits' = Shift(hits)
  /\ admitted' = [g \in Groups |-> Shift(admitted[g])]
  /\ UNCHANGED <<req, remaining, faults>>

Next ==
  \/ \E r \in Requests, g \in Groups : Count(r, g)
  \/ \E r \in Requests : Decide(r)
  \/ Tick

Spec == Init /\ [][Next]_vars

----------------------------------------------------------------------------
(* Properties                                                                *)

\* No group lets more than its burst through in any stretch of one window,
\* wherever the stretch begins (a window fixed at its first hit would let
\* through twice the burst around its end).  The slack: requests counted on a
\* key that has expired by the time they are decided, and one per fault.
RateHolds ==
  \A g \in Groups :
    InWindow(admitted[g]) <= Burst[g] + Cardinality(Requests) + faults

\* "Retry-After: 1" (ratelimit.go:36): once the client has been silent for a
\* window the key is gone and its next request is the first of a new count.
\* Only a pipeline that broke before its EXPIRE leaves a count behind: at most
\* one hit for each execution that broke.
Silent == \A a \in Ages : hits[a] = 0
RetryAfterHonest == Silent => count <= faults

\* RATE_LIMIT_RPS (.env.example:28): a request is turned away only if the
\* client made more requests in the last window than the configured rate.
RejectedOnlyAboveRate ==
  [][ \A r \in Requests :
        /\ req[r] = Idle /\ req'[r] # Idle
        /\ Exceeds(req'[r].group, req'[r].got)
        => InWindow(hits') > Rps ]_vars
=============================================================================
