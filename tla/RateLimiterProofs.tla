-------------------------- MODULE RateLimiterProofs --------------------------
(****************************************************************************)
(* Theorems about RateLimiter for any number of requests and groups, any       *)
(* bursts, window and faults.                                                 *)
(****************************************************************************)
EXTENDS RateLimiter, FiniteSetTheorems, TLAPS

LEMMA TypeInit == Init => TypeOK
BY BurstAssumption, WindowAssumption, RateBounds DEF Init, TypeOK, NoTTL, Ages, Idle

LEMMA TypeStep == TypeOK /\ [Next]_vars => TypeOK'
<1> SUFFICES ASSUME TypeOK, [Next]_vars PROVE TypeOK'
  OBVIOUS
<1> USE BurstAssumption, WindowAssumption, RateBounds
<1>1. ASSUME NEW r \in Requests, NEW g \in Groups, Count(r, g) PROVE TypeOK'
  <2>1. PICK times \in 0..1, expired, ok \in BOOLEAN :
          /\ IF ok THEN UNCHANGED faults ELSE Fault
          /\ count' = count + times
          /\ ttl' = IF expired THEN Renewed(count') ELSE ttl
          /\ hits' = Record(hits, times)
          /\ req' = [req EXCEPT ![r] = [group |-> g, got |-> IF ok THEN count' ELSE 0]]
    BY <1>1, Zenon DEF Count
  <2>2. count < MaxCount /\ count \in Nat
    BY <1>1 DEF Count, TypeOK
  <2>3. count' \in 0..MaxCount
    BY <2>1, <2>2
  <2>4. [group |-> g, got |-> IF ok THEN count' ELSE 0]
          \in [group : Groups, got : 0..MaxCount]
    BY <2>3
  <2>5. req' \in [Requests -> {Idle} \cup [group : Groups, got : 0..MaxCount]]
    BY <2>1, <2>4 DEF TypeOK
  <2>6. ttl' \in 1..NoTTL
    BY <2>1 DEF TypeOK, Renewed, NoTTL
  <2>7. hits' \in [Ages -> Nat]
    BY <2>1 DEF TypeOK, Record
  <2>8. faults' \in 0..MaxFaults
    BY <2>1 DEF TypeOK, Fault
  <2>9. QED
    BY <1>1, <2>3, <2>5, <2>6, <2>7, <2>8 DEF Count, TypeOK
<1>2. ASSUME NEW r \in Requests, Decide(r) PROVE TypeOK'
  <2> DEFINE g == req[r].group
             n == req[r].got
  <2>1. g \in Groups /\ n \in 0..MaxCount
    BY <1>2 DEF Decide, TypeOK
  <2>2. Left(g, n) \in Nat /\ Left(g, n) <= Burst[g]
    BY <2>1 DEF Left
  <2>3. /\ remaining' \in [Groups -> Nat]
        /\ \A h \in Groups : remaining'[h] <= Burst[h]
    BY <1>2, <2>1, <2>2 DEF Decide, TypeOK
  <2>4. Record(admitted[g], 1) \in [Ages -> Nat]
    BY <2>1 DEF Record, TypeOK
  <2>5. admitted' \in [Groups -> [Ages -> Nat]]
    BY <1>2, <2>1, <2>4 DEF Decide, TypeOK
  <2>6. QED
    BY <1>2, <2>3, <2>5 DEF Decide, TypeOK
<1>3. CASE Tick
  <2>1. ttl' \in 1..NoTTL /\ count' \in 0..MaxCount
    BY <1>3 DEF Tick, TypeOK, NoTTL
  <2>2. ASSUME NEW history \in [Ages -> Nat] PROVE Shift(history) \in [Ages -> Nat]
    BY DEF Shift, Ages
  <2>3. hits' \in [Ages -> Nat] /\ admitted' \in [Groups -> [Ages -> Nat]]
    BY <1>3, <2>2 DEF Tick, TypeOK
  <2>4. QED
    BY <1>3, <2>1, <2>3 DEF Tick, TypeOK
<1>4. CASE UNCHANGED vars
  BY <1>4 DEF vars, TypeOK
<1>5. QED
  BY <1>1, <1>2, <1>3, <1>4 DEF Next

\* The key, its hits, the decisions and the headers of all groups keep their
\* types; the header never leaves 0..burst (IncrWithTTL and RateLimiter).
THEOREM RateTyped == Spec => []TypeOK
BY TypeInit, TypeStep, PTL DEF Spec

----------------------------------------------------------------------------
\* The hit that last renewed the time to live is still in the window while the
\* key has one, and only broken pipelines counted on a key that has none.
KeyIsRecent ==
  /\ ttl # NoTTL => hits[Window - ttl] > 0
  /\ ttl = NoTTL => count <= faults

LEMMA RecentStep == TypeOK /\ TypeOK' /\ KeyIsRecent /\ [Next]_vars => KeyIsRecent'
<1> SUFFICES ASSUME TypeOK, TypeOK', KeyIsRecent, [Next]_vars PROVE KeyIsRecent'
  OBVIOUS
<1> USE WindowAssumption, RateBounds
<1>0. /\ ttl \in 1..NoTTL /\ hits \in [Ages -> Nat] /\ count \in Nat /\ faults \in Nat
      /\ NoTTL = Window + 1 /\ \A t \in 1..Window : Window - t \in Ages
  BY DEF TypeOK, NoTTL, Ages
<1>1. ASSUME NEW r \in Requests, NEW g \in Groups, Count(r, g) PROVE KeyIsRecent'
  <2>1. PICK times \in 0..1, expired, ok \in BOOLEAN :
          /\ ok => expired
          /\ expired => times = 1
          /\ IF ok THEN UNCHANGED faults ELSE Fault
          /\ count' = count + times
          /\ ttl' = IF expired THEN Renewed(count') ELSE ttl
          /\ hits' = Record(hits, times)
    BY <1>1, Zenon DEF Count
  <2>2. CASE expired
    <3>1. ttl' = Window /\ 0 \in Ages
      BY <2>1, <2>2 DEF Renewed, Ages
    <3>2. hits'[0] > 0
      BY <1>0, <2>1, <2>2, <3>1 DEF Record
    <3>3. QED
      BY <1>0, <3>1, <3>2 DEF KeyIsRecent
  <2>3. CASE ~expired
    <3>1. ttl' = ttl /\ faults' = faults + 1
      BY <2>1, <2>3 DEF Fault
    <3>2. ttl # NoTTL => hits'[Window - ttl] > 0
      BY <1>0, <2>1 DEF KeyIsRecent, Record
    <3>3. ttl = NoTTL => count' <= faults'
      BY <1>0, <2>1, <3>1 DEF KeyIsRecent
    <3>4. QED
      BY <3>1, <3>2, <3>3 DEF KeyIsRecent, NoTTL
  <2>4. QED
    BY <2>2, <2>3
<1>2. CASE Tick
  <2>1. /\ ttl' = IF ttl \in 2..Window THEN ttl - 1 ELSE NoTTL
        /\ count' = IF ttl = 1 THEN 0 ELSE count
        /\ hits' = Shift(hits) /\ faults' = faults
    BY <1>2 DEF Tick
  <2>2. CASE ttl \in 2..Window
    <3>1. ttl' = ttl - 1 /\ Window - ttl \in Ages /\ Window - ttl' \in Ages
      BY <1>0, <2>1, <2>2 DEF Ages
    <3>2. hits'[Window - ttl'] = hits[Window - ttl]
      BY <2>1, <2>2, <3>1 DEF Shift, Ages
    <3>3. QED
      BY <1>0, <2>2, <3>1, <3>2 DEF KeyIsRecent
  <2>3. CASE ttl \notin 2..Window
    BY <1>0, <2>1, <2>3 DEF KeyIsRecent
  <2>4. QED
    BY <2>2, <2>3
<1>3. CASE UNCHANGED <<ttl, hits, count, faults>>
  BY <1>3 DEF KeyIsRecent, NoTTL
<1>4. QED
  BY <1>1, <1>2, <1>3 DEF Next, Decide, vars

\* A client that was silent for a window starts a new count, whatever failed
\* before: "Retry-After: 1" (ratelimit.go).
THEOREM SilenceRestoresCredit == Spec => []RetryAfterHonest
<1>1. Init => KeyIsRecent
  BY WindowAssumption DEF Init, KeyIsRecent, NoTTL
<1>2. TypeOK /\ KeyIsRecent => RetryAfterHonest
  <2> SUFFICES ASSUME TypeOK, KeyIsRecent, Silent PROVE count <= faults
    BY DEF RetryAfterHonest
  <2>1. ttl \in 1..Window => Window - ttl \in Ages
    BY WindowAssumption DEF Ages
  <2>2. ttl \in 1..Window \/ ttl = NoTTL
    BY WindowAssumption DEF TypeOK, NoTTL
  <2>3. QED
    BY <2>1, <2>2, WindowAssumption DEF Silent, KeyIsRecent, NoTTL
<1>3. QED
  BY <1>1, <1>2, TypeInit, TypeStep, RecentStep, PTL DEF Spec

----------------------------------------------------------------------------
(* The rate                                                                  *)

\* Requests between their INCR and their answer, and those of a group that will
\* be let through.
Pending == {r \in Requests : req[r] # Idle}
Passing(g) ==
  {r \in Requests :
     req[r] # Idle /\ req[r].group = g /\ ~Exceeds(g, req[r].got)}

\* Admissions of a group later than the tick of the hit that last renewed the
\* key, all there are when there is no key.
LateAdmissions(g) ==
  IF ttl = Window THEN 0
  ELSE IF ttl = NoTTL THEN InWindow(admitted[g])
  ELSE admitted[g][Window - ttl - 1]

\* Every late admission used up a request that was pending by then.  All others
\* of the window, and those to come, are of requests counted on the present key:
\* as many as it counts, and no more than the burst.
Slack == Cardinality(Requests) + faults
Grown == \A g \in Groups : \A a, b \in Ages : a <= b => admitted[g][a] <= admitted[g][b]
LateArePending == \A g \in Groups : LateAdmissions(g) + Cardinality(Pending) <= Slack
OthersAreCounted ==
  \A g \in Groups :
    /\ InWindow(admitted[g]) + Cardinality(Passing(g)) <= count + Slack
    /\ InWindow(admitted[g]) + Cardinality(Passing(g)) <= Burst[g] + Slack
RateInv == Grown /\ LateArePending /\ OthersAreCounted

LEMMA PendingSize ==
  ASSUME NEW g
  PROVE  /\ IsFiniteSet(Pending) /\ IsFiniteSet(Passing(g))
         /\ Cardinality(Pending) \in Nat /\ Cardinality(Passing(g)) \in Nat
         /\ Cardinality(Requests) \in Nat
         /\ Cardinality(Pending) <= Cardinality(Requests)
         /\ Cardinality(Passing(g)) <= Cardinality(Pending)
<1>1. Pending \subseteq Requests /\ Passing(g) \subseteq Pending
  BY DEF Pending, Passing
<1>2. QED
  BY <1>1, RequestsFinite, FS_Subset, FS_CardinalityType

\* The same of the next state.
LEMMA PendingSizeAfter ==
  ASSUME NEW g
  PROVE  /\ Cardinality(Pending') \in Nat /\ Cardinality(Passing(g)') \in Nat
         /\ Cardinality(Pending') <= Cardinality(Requests)
         /\ Cardinality(Passing(g)') <= Cardinality(Pending')
<1>1. Pending' \subseteq Requests /\ Passing(g)' \subseteq Pending'
  BY DEF Pending, Passing
<1>2. QED
  BY <1>1, RequestsFinite, FS_Subset, FS_CardinalityType

LEMMA OneMore ==
  ASSUME NEW S, IsFiniteSet(S), NEW T, NEW r, T \subseteq S \cup {r}
  PROVE  Cardinality(T) \in Nat /\ Cardinality(T) <= Cardinality(S) + 1
<1>1. /\ IsFiniteSet(S \cup {r}) /\ Cardinality(S) \in Nat
      /\ Cardinality(S \cup {r}) <= Cardinality(S) + 1
  BY FS_AddElement, FS_CardinalityType
<1>2. QED
  BY <1>1, FS_Subset, FS_CardinalityType

LEMMA OneLess ==
  ASSUME NEW S, IsFiniteSet(S), NEW r \in S
  PROVE  Cardinality(S \ {r}) \in Nat /\ Cardinality(S \ {r}) = Cardinality(S) - 1
  BY FS_RemoveElement, FS_CardinalityType

LEMMA Histories ==
  ASSUME TypeOK, NEW g \in Groups
  PROVE  /\ admitted[g] \in [Ages -> Nat]
         /\ InWindow(admitted[g]) \in Nat /\ LateAdmissions(g) \in Nat
         /\ Burst[g] \in Nat /\ count \in Nat /\ faults \in Nat
         /\ ttl \in 1..Window \/ ttl = NoTTL
         /\ Window \in Nat \ {0} /\ NoTTL = Window + 1
         /\ \A t \in 1..Window : Window - t \in Ages
         /\ Window - 1 \in Ages /\ 0 \in Ages
<1>1. Window \in Nat \ {0} /\ NoTTL = Window + 1
  BY WindowAssumption DEF NoTTL
<1>2. Window - 1 \in Ages /\ 0 \in Ages /\ \A t \in 1..Window : Window - t \in Ages
  BY <1>1 DEF Ages
<1>3. admitted[g] \in [Ages -> Nat] /\ (ttl \in 1..Window \/ ttl = NoTTL)
  BY <1>1 DEF TypeOK
<1>4. ttl \notin {Window, NoTTL} => Window - ttl - 1 \in Ages
  BY <1>1, <1>3 DEF Ages
<1>5. QED
  BY <1>1, <1>2, <1>3, <1>4, BurstAssumption, RateBounds DEF TypeOK, InWindow, LateAdmissions

LEMMA CountKeepsRate ==
  ASSUME TypeOK, RateInv, NEW r \in Requests, NEW h \in Groups, Count(r, h)
  PROVE  RateInv'
<1>1. PICK times \in 0..1, expired, ok \in BOOLEAN :
        /\ ok => expired
        /\ expired => times = 1
        /\ IF ok THEN UNCHANGED faults ELSE Fault
        /\ count' = count + times
        /\ ttl' = IF expired THEN Renewed(count') ELSE ttl
        /\ req' = [req EXCEPT ![r] = [group |-> h, got |-> IF ok THEN count' ELSE 0]]
  BY Zenon DEF Count
<1>2. admitted' = admitted
  BY DEF Count
<1>3. /\ req'[r] = [group |-> h, got |-> IF ok THEN count' ELSE 0]
      /\ \A q \in Requests \ {r} : req'[q] = req[q]
  BY <1>1 DEF TypeOK
<1>4. Grown'
  BY <1>2 DEF RateInv, Grown
<1>5. faults' = IF ok THEN faults ELSE faults + 1
  BY <1>1 DEF Fault
<1>6. ASSUME NEW g \in Groups
      PROVE  LateAdmissions(g)' + Cardinality(Pending)' <= Slack'
  <2>1. CASE expired
    <3>1. LateAdmissions(g)' = 0
      BY <1>1, <2>1 DEF LateAdmissions, Renewed
    <3>2. QED
      BY <1>5, <3>1, PendingSizeAfter, PendingSize, Histories DEF Slack
  <2>2. CASE ~expired
    <3>1. ttl' = ttl /\ faults' = faults + 1
      BY <1>1, <1>5, <2>2
    <3>2. LateAdmissions(g)' = LateAdmissions(g)
      BY <1>2, <3>1 DEF LateAdmissions, InWindow, NoTTL
    <3>3. Pending' \subseteq Pending \cup {r}
      BY <1>3 DEF Pending
    <3>4. Cardinality(Pending') \in Nat /\ Cardinality(Pending') <= Cardinality(Pending) + 1
      BY <3>3, OneMore, PendingSize
    <3>5. LateAdmissions(g) + Cardinality(Pending) <= Slack
      BY DEF RateInv, LateArePending
    <3>6. /\ Cardinality(Requests) \in Nat /\ faults \in Nat
          /\ Cardinality(Pending) \in Nat /\ LateAdmissions(g) \in Nat
      BY PendingSize, Histories
    <3>7. Slack = Cardinality(Requests) + faults /\ Slack' = Cardinality(Requests) + faults'
      BY DEF Slack
    <3>8. QED
      BY <3>1, <3>2, <3>4, <3>5, <3>6, <3>7
  <2>3. QED
    BY <2>1, <2>2
<1>7. ASSUME NEW g \in Groups
      PROVE  /\ InWindow(admitted[g])' + Cardinality(Passing(g))' <= count' + Slack'
             /\ InWindow(admitted[g])' + Cardinality(Passing(g))' <= Burst[g] + Slack'
  <2> DEFINE shown == InWindow(admitted[g])
             old == Cardinality(Passing(g))
             new == Cardinality(Passing(g)')
             size == Cardinality(Requests)
  <2>1. InWindow(admitted[g])' = shown
    BY <1>2 DEF InWindow
  <2>2. shown + old <= count + (size + faults) /\ shown + old <= Burst[g] + (size + faults)
    BY DEF RateInv, OthersAreCounted, Slack
  <2>3. shown \in Nat /\ old \in Nat /\ size \in Nat /\ Burst[g] \in Nat
        /\ count \in Nat /\ faults \in Nat /\ times \in Nat /\ count' = count + times
    BY <1>1, PendingSize, Histories
  <2>4. Passing(g)' \subseteq Passing(g) \cup {r}
    BY <1>3 DEF Passing, Exceeds
  <2>5. new \in Nat /\ new <= old + 1
    BY <2>4, OneMore, PendingSize
  <2>6. ok /\ ~(count + 1 <= Burst[g]) => new <= old
    <3> SUFFICES ASSUME ok, ~(count + 1 <= Burst[g]) PROVE new <= old
      OBVIOUS
    <3>1. Passing(g)' \subseteq Passing(g)
      BY <1>1, <1>3, <2>3 DEF Passing, Exceeds
    <3>2. QED
      BY <3>1, PendingSize, FS_Subset
  <2> HIDE DEF shown, old, new, size
  <2>7. CASE ok
    BY <1>1, <1>5, <2>1, <2>2, <2>3, <2>5, <2>6, <2>7 DEF old, new, Slack, size
  <2>8. CASE ~ok
    BY <1>5, <2>1, <2>2, <2>3, <2>5, <2>8 DEF new, Slack, size
  <2>9. QED
    BY <2>1, <2>7, <2>8 DEF new
<1>8. QED
  BY <1>4, <1>6, <1>7 DEF RateInv, LateArePending, OthersAreCounted

LEMMA DecideKeepsRate ==
  ASSUME TypeOK, RateInv, NEW r \in Requests, Decide(r)
  PROVE  RateInv'
<1> DEFINE h == req[r].group
           n == req[r].got
<1>1. /\ req[r] # Idle /\ h \in Groups
      /\ admitted' = IF Exceeds(h, n) THEN admitted
                     ELSE [admitted EXCEPT ![h] = Record(@, 1)]
      /\ UNCHANGED <<count, ttl, faults>>
  BY DEF Decide, TypeOK
<1>2. req'[r] = Idle /\ \A q \in Requests \ {r} : req'[q] = req[q]
  BY DEF Decide, TypeOK
<1>3. ASSUME NEW g \in Groups
      PROVE  \A a \in Ages :
               /\ admitted[g][a] \in Nat
               /\ admitted'[g][a] = IF g = h /\ ~Exceeds(h, n) THEN admitted[g][a] + 1
                                    ELSE admitted[g][a]
  <2>1. admitted'[g] = IF g = h /\ ~Exceeds(h, n) THEN [a \in Ages |-> admitted[g][a] + 1]
                       ELSE admitted[g]
    BY <1>1 DEF TypeOK, Record
  <2>2. \A a \in Ages : admitted[g][a] \in Nat
    BY Histories
  <2>3. QED
    BY <2>1, <2>2
<1>4. Grown'
  <2>1. SUFFICES ASSUME NEW g \in Groups, NEW a \in Ages, NEW b \in Ages, a <= b
                 PROVE  admitted'[g][a] <= admitted'[g][b]
    BY DEF Grown
  <2>2. admitted[g][a] <= admitted[g][b]
    BY <2>1 DEF RateInv, Grown
  <2>3. QED
    BY <1>3, <2>2
<1>5. /\ Pending' = Pending \ {r} /\ r \in Pending
      /\ Cardinality(Pending') = Cardinality(Pending) - 1
  <2>1. Pending' = Pending \ {r} /\ r \in Pending
    BY <1>1, <1>2 DEF Pending
  <2>2. QED
    BY <2>1, OneLess, PendingSize
<1>6. ASSUME NEW g \in Groups
      PROVE  LateAdmissions(g)' + Cardinality(Pending)' <= Slack'
  <2>1. LateAdmissions(g)' <= LateAdmissions(g) + 1 /\ LateAdmissions(g)' \in Nat
    <3>1. ttl \notin {Window, NoTTL} => Window - ttl - 1 \in Ages
      BY Histories DEF Ages
    <3>2. Window - 1 \in Ages
      BY Histories
    <3>3. QED
      BY <1>1, <1>3, <3>1, <3>2 DEF LateAdmissions, InWindow, NoTTL
  <2>2. LateAdmissions(g) + Cardinality(Pending) <= Slack
    BY DEF RateInv, LateArePending
  <2>3. Slack' = Slack /\ Slack \in Nat
    <3>1. faults \in Nat /\ Cardinality(Requests) \in Nat
      BY PendingSize, Histories
    <3>2. QED
      BY <1>1, <3>1 DEF Slack
  <2>4. Cardinality(Pending) \in Nat /\ LateAdmissions(g) \in Nat
    BY PendingSize, Histories
  <2>5. QED
    BY <1>5, <2>1, <2>2, <2>3, <2>4
<1>7. ASSUME NEW g \in Groups
      PROVE  InWindow(admitted[g])' + Cardinality(Passing(g))'
               <= InWindow(admitted[g]) + Cardinality(Passing(g))
  <2>1. CASE g = h /\ ~Exceeds(h, n)
    <3>1. Passing(g)' = Passing(g) \ {r} /\ r \in Passing(g)
      BY <1>1, <1>2, <2>1 DEF Passing
    <3>2. Cardinality(Passing(g)') = Cardinality(Passing(g)) - 1
      BY <3>1, OneLess, PendingSize
    <3>3. InWindow(admitted[g])' = InWindow(admitted[g]) + 1
      BY <1>3, <2>1, Histories DEF InWindow
    <3>4. QED
      BY <3>2, <3>3, PendingSize, Histories
  <2>2. CASE ~(g = h /\ ~Exceeds(h, n))
    <3>1. Passing(g)' \subseteq Passing(g)
      BY <1>2 DEF Passing, Exceeds
    <3>2. Cardinality(Passing(g)') <= Cardinality(Passing(g))
      BY <3>1, FS_Subset, PendingSize
    <3>3. Window - 1 \in Ages
      BY Histories
    <3>4. InWindow(admitted[g])' = InWindow(admitted[g])
      BY <1>3, <2>2, <3>3 DEF InWindow
    <3>5. QED
      BY <3>2, <3>4, PendingSize, PendingSizeAfter, Histories
  <2>3. QED
    BY <2>1, <2>2
<1>8. OthersAreCounted'
  <2>1. SUFFICES ASSUME NEW g \in Groups
                 PROVE  /\ InWindow(admitted[g])' + Cardinality(Passing(g))' <= count + Slack
                        /\ InWindow(admitted[g])' + Cardinality(Passing(g))' <= Burst[g] + Slack
    BY <1>1 DEF OthersAreCounted, Slack
  <2>2. InWindow(admitted[g])' \in Nat
    <3>1. Window - 1 \in Ages
      BY Histories
    <3>2. QED
      BY <1>3, <3>1 DEF InWindow
  <2>3. /\ InWindow(admitted[g]) + Cardinality(Passing(g)) <= count + Slack
        /\ InWindow(admitted[g]) + Cardinality(Passing(g)) <= Burst[g] + Slack
    BY DEF RateInv, OthersAreCounted
  <2>4. Slack \in Nat
    BY PendingSize, Histories DEF Slack
  <2>5. QED
    BY <1>7, <2>2, <2>3, <2>4, PendingSize, PendingSizeAfter, Histories
<1>9. QED
  BY <1>4, <1>6, <1>8 DEF RateInv, LateArePending

LEMMA TickKeepsRate ==
  ASSUME TypeOK, RateInv, Tick
  PROVE  RateInv'
<1>1. /\ ttl' = IF ttl \in 2..Window THEN ttl - 1 ELSE NoTTL
      /\ count' = IF ttl = 1 THEN 0 ELSE count
      /\ UNCHANGED <<req, faults>>
  BY DEF Tick
<1>2. ASSUME NEW g \in Groups, NEW a \in Ages
      PROVE  admitted'[g][a] = IF a = 0 THEN 0 ELSE admitted[g][a - 1]
  BY DEF Tick, Shift
<1>3. Grown'
  <2>1. SUFFICES ASSUME NEW g \in Groups, NEW a \in Ages, NEW b \in Ages, a <= b
                 PROVE  admitted'[g][a] <= admitted'[g][b]
    BY DEF Grown
  <2>2. ASSUME NEW c \in Ages, c # 0
        PROVE  c - 1 \in Ages /\ admitted[g][c - 1] \in Nat
    <3>1. Window \in Nat \ {0} /\ admitted[g] \in [Ages -> Nat]
      BY Histories
    <3>2. c - 1 \in Ages
      BY <2>2, <3>1 DEF Ages
    <3>3. QED
      BY <3>1, <3>2
  <2>3. a # 0 => b # 0 /\ admitted[g][a - 1] <= admitted[g][b - 1]
    BY <2>1, <2>2 DEF RateInv, Grown, Ages
  <2>4. QED
    BY <1>2, <2>2, <2>3
<1>4. Pending' = Pending /\ \A g \in Groups : Passing(g)' = Passing(g)
  BY <1>1 DEF Pending, Passing, Exceeds
<1>5. ASSUME NEW g \in Groups
      PROVE  /\ InWindow(admitted[g])' \in Nat
             /\ InWindow(admitted[g])' <= InWindow(admitted[g])
             /\ ttl = Window => InWindow(admitted[g])' = 0 \/ Window # 1
             /\ ttl = 1 => InWindow(admitted[g])' = LateAdmissions(g)
             /\ ttl \in 2..Window => LateAdmissions(g)' = LateAdmissions(g)
  <2>1. Window - 1 # 0 => Window - 2 \in Ages /\ Window - 2 <= Window - 1
    BY Histories DEF Ages
  <2>2. InWindow(admitted[g])' = IF Window = 1 THEN 0 ELSE admitted[g][Window - 2]
    BY <1>2, Histories DEF InWindow
  <2>3. InWindow(admitted[g])' \in Nat /\ InWindow(admitted[g])' <= InWindow(admitted[g])
    BY <2>1, <2>2, Histories DEF RateInv, Grown, InWindow
  <2>4. ttl = 1 => InWindow(admitted[g])' = LateAdmissions(g)
    BY <2>2, Histories DEF LateAdmissions
  <2>5. ASSUME ttl \in 2..Window PROVE LateAdmissions(g)' = LateAdmissions(g)
    <3>1. ttl' = ttl - 1 /\ ttl' # Window /\ ttl' # NoTTL /\ ttl # NoTTL
      BY <1>1, <2>5, Histories
    <3>2. Window - ttl \in Ages /\ Window - ttl' - 1 = Window - ttl
      BY <3>1, <2>5, Histories
    <3>3. LateAdmissions(g)' = admitted'[g][Window - ttl]
      BY <3>1, <3>2 DEF LateAdmissions, NoTTL
    <3>4. Window - ttl = 0 <=> ttl = Window
      BY <2>5, Histories
    <3>5. QED
      BY <1>2, <3>1, <3>2, <3>3, <3>4 DEF LateAdmissions
  <2>6. QED
    BY <2>2, <2>3, <2>4, <2>5
<1>6. ASSUME NEW g \in Groups
      PROVE  LateAdmissions(g)' + Cardinality(Pending)' <= Slack'
  <2>1. LateAdmissions(g) + Cardinality(Pending) <= Slack
    BY DEF RateInv, LateArePending
  <2>2. CASE ttl \in 2..Window
    BY <1>1, <1>4, <1>5, <2>1, <2>2 DEF Slack
  <2>3. CASE ttl \notin 2..Window
    <3>1. ttl' = NoTTL /\ ttl \in {1, NoTTL}
      BY <1>1, <2>3, Histories
    <3>2. LateAdmissions(g)' = InWindow(admitted[g])'
      BY <3>1, Histories DEF LateAdmissions, NoTTL
    <3>3. ttl = NoTTL => LateAdmissions(g) = InWindow(admitted[g])
      BY Histories DEF LateAdmissions
    <3>4. InWindow(admitted[g])' <= LateAdmissions(g)
      BY <1>5, <3>1, <3>3, Histories
    <3>5. Slack' = Slack /\ Slack \in Nat
      BY <1>1, PendingSize, Histories DEF Slack
    <3>6. QED
      BY <1>4, <1>5, <2>1, <3>2, <3>4, <3>5, PendingSize, Histories
  <2>4. QED
    BY <2>2, <2>3
<1>7. ASSUME NEW g \in Groups
      PROVE  /\ InWindow(admitted[g])' + Cardinality(Passing(g))' <= count' + Slack'
             /\ InWindow(admitted[g])' + Cardinality(Passing(g))' <= Burst[g] + Slack'
  <2>1. Slack' = Slack /\ Slack \in Nat
    BY <1>1, PendingSize, Histories DEF Slack
  <2>2. /\ InWindow(admitted[g]) + Cardinality(Passing(g)) <= count + Slack
        /\ InWindow(admitted[g]) + Cardinality(Passing(g)) <= Burst[g] + Slack
    BY DEF RateInv, OthersAreCounted
  <2>3. CASE ttl # 1
    BY <1>1, <1>4, <1>5, <2>1, <2>2, <2>3, PendingSize, Histories
  <2>4. CASE ttl = 1
    <3>1. LateAdmissions(g) + Cardinality(Pending) <= Slack
      BY DEF RateInv, LateArePending
    <3>2. QED
      BY <1>1, <1>4, <1>5, <2>1, <2>4, <3>1, PendingSize, Histories
  <2>5. QED
    BY <2>3, <2>4
<1>8. QED
  BY <1>3, <1>6, <1>7 DEF RateInv, LateArePending, OthersAreCounted

\* No group lets more than its burst through in a window, wherever the window
\* begins and however the groups share the key (RateLimiter, ratelimit.go).
THEOREM RateIsHeld == Spec => []RateHolds
<1>1. Init => RateInv
  <2> SUFFICES ASSUME Init PROVE RateInv
    OBVIOUS
  <2>2. TypeOK
    BY TypeInit
  <2>3. Pending = {}
    BY DEF Init, Pending
  <2>4. Cardinality(Pending) = 0
    BY <2>3, FS_EmptySet
  <2>5. ASSUME NEW g \in Groups
        PROVE  InWindow(admitted[g]) = 0 /\ LateAdmissions(g) = 0
               /\ Cardinality(Passing(g)) = 0
    BY <2>2, <2>4, PendingSize, Histories DEF Init, InWindow, LateAdmissions
  <2>6. Grown
    BY DEF Init, Grown
  <2>7. QED
    BY <2>2, <2>4, <2>5, <2>6, PendingSize, Histories
    DEF RateInv, LateArePending, OthersAreCounted, Slack
<1>2. TypeOK /\ RateInv /\ [Next]_vars => RateInv'
  <2> SUFFICES ASSUME TypeOK, RateInv, [Next]_vars PROVE RateInv'
    OBVIOUS
  <2>2. CASE UNCHANGED vars
    BY <2>2 DEF vars, RateInv, Grown, LateArePending, OthersAreCounted, Slack, InWindow,
                LateAdmissions, Pending, Passing, Exceeds, NoTTL
  <2>3. QED
    BY <2>2, CountKeepsRate, DecideKeepsRate, TickKeepsRate DEF Next
<1>3. TypeOK /\ RateInv => RateHolds
  <2> SUFFICES ASSUME TypeOK, RateInv, NEW g \in Groups
                 PROVE  InWindow(admitted[g]) <= Burst[g] + Cardinality(Requests) + faults
    BY DEF RateHolds
  <2>2. InWindow(admitted[g]) + Cardinality(Passing(g)) <= Burst[g] + Slack
    BY DEF RateInv, OthersAreCounted
  <2>3. QED
    BY <2>2, PendingSize, Histories DEF Slack
<1>4. QED
  BY <1>1, <1>2, <1>3, TypeInit, TypeStep, PTL DEF Spec
=============================================================================
