----------------------- MODULE AnalyticsPipelineProofs -----------------------
(****************************************************************************)
(* Theorems about AnalyticsPipeline for every number of processes, requests, *)
(* events and faults, every queue limit and every batch size.                *)
(****************************************************************************)
EXTENDS AnalyticsPipeline, FiniteSetTheorems, TLAPS

----------------------------------------------------------------------------
(* Types                                                                     *)

\* LTRIM leaves the left end inside the list and never moves it back.
LEMMA TrimmedRange ==
  ASSUME TypeOK, BatchShape, NEW s \in Servers, ppc[s] \in {"trim", "resend"}
  PROVE  Trimmed(s) \in head..tail
<1>1. from[s] \in Nat /\ upto[s] \in Nat /\ head \in Nat /\ tail \in Nat /\ head <= tail
  BY DEF TypeOK, BatchShape
<1>2. from[s] <= upto[s]
  BY DEF BatchShape
<1>3. QED
  BY <1>1, <1>2 DEF Trimmed

\* What a step of LTRIM does: one execution with or without its reply, or an
\* error that ends the call.
LEMMA TrimIs ==
  ASSUME NEW s \in Servers, LTrim(s)
  PROVE  /\ ppc[s] \in {"trim", "resend"}
         /\ UNCHANGED <<srv, hpc, tail, final, from, upto, rows, dlq, boots>>
         /\ cur' = [cur EXCEPT ![s] = from[s]]
         /\ \/ /\ head' = Trimmed(s)
               /\ GiveUp(((head + 1)..head') \ Batch(s))
               /\ \/ ppc' = [ppc EXCEPT ![s] = "insert"] /\ UNCHANGED faults
                  \/ ppc' = [ppc EXCEPT ![s] = "resend"] /\ Fault
            \/ /\ head' = head
               /\ GiveUp(InHand(s))
               /\ ppc' = [ppc EXCEPT ![s] = AfterFlush(s)]
               /\ UNCHANGED faults \/ Fault
  BY DEF LTrim, AfterTrim, FailsWhen

\* The types hold initially and every step keeps them, with the shape of the
\* batches they depend on.
LEMMA TypeInit == Init => TypeOK /\ BatchShape
  BY BoundsAssumption DEF Init, TypeOK, BatchShape, Lives, EventIds

LEMMA TypeStep == TypeOK /\ BatchShape /\ [Next]_vars => TypeOK' /\ BatchShape'
<1> SUFFICES ASSUME TypeOK, BatchShape, [Next]_vars
             PROVE  TypeOK' /\ BatchShape'
  OBVIOUS
<1> USE BoundsAssumption, BatchAssumption, LimitAssumption
<1>1. ASSUME NEW h \in Handlers, Accept(h) PROVE TypeOK' /\ BatchShape'
  BY <1>1 DEF Accept, TypeOK, BatchShape, queueVars, procVars, fateVars
<1>2. ASSUME NEW h \in Handlers, CheckDepth(h) PROVE TypeOK' /\ BatchShape'
  BY <1>2 DEF CheckDepth, Fault, TypeOK, BatchShape, queueVars, procVars, fateVars
<1>3. ASSUME NEW h \in Handlers, Push(h) PROVE TypeOK' /\ BatchShape'
  <2>1. head \in Nat /\ tail \in Nat /\ head <= tail
    BY DEF TypeOK, BatchShape
  <2>2. tail' \in 0..MaxEvents /\ head <= tail'
    BY <1>3, <2>1 DEF Push, TypeOK
  <2>3. faults' \in 0..MaxFaults
    BY <1>3 DEF Push, TypeOK, Fault
  <2>4. hpc' \in [Handlers -> {"idle", "check", "push"}]
    BY <1>3 DEF Push, TypeOK
  <2>5. UNCHANGED <<srv, head, ppc, final, from, upto, cur, rows, dlq, lost, boots>>
    BY <1>3 DEF Push, procVars, fateVars
  <2>6. TypeOK'
    BY <2>2, <2>3, <2>4, <2>5 DEF TypeOK, EventIds
  <2>7. BatchShape'
    BY <2>2, <2>5 DEF BatchShape
  <2>8. QED
    BY <2>6, <2>7
<1>4. ASSUME NEW s \in Servers, Tick(s) PROVE TypeOK' /\ BatchShape'
  BY <1>4 DEF Tick, TypeOK, BatchShape, queueVars, fateVars
<1>5. ASSUME NEW s \in Servers, CtxDone(s) PROVE TypeOK' /\ BatchShape'
  BY <1>5 DEF CtxDone, TypeOK, BatchShape, queueVars, fateVars
<1>6. ASSUME NEW s \in Servers, LRange(s) PROVE TypeOK' /\ BatchShape'
  BY <1>6 DEF LRange, LastRead, Depth, AfterFlush, FailsWhen, Fault,
              TypeOK, BatchShape, queueVars, fateVars
<1>7. ASSUME NEW s \in Servers, LTrim(s) PROVE TypeOK' /\ BatchShape'
  <2>1. /\ ppc[s] \in {"trim", "resend"}
        /\ UNCHANGED <<srv, hpc, tail, final, from, upto, rows, dlq, boots>>
        /\ cur' = [cur EXCEPT ![s] = from[s]]
    BY <1>7, TrimIs
  <2>2. head' \in head..tail
    <3>1. head' = Trimmed(s) \/ head' = head
      BY <1>7, TrimIs
    <3>2. head \in head..tail
      BY DEF TypeOK, BatchShape
    <3>3. QED
      BY <2>1, <3>1, <3>2, TrimmedRange
  <2>3. head' \in 0..MaxEvents /\ head' <= tail'
    <3>1. head \in 0..MaxEvents /\ tail \in 0..MaxEvents /\ tail' = tail
      BY <2>1 DEF TypeOK
    <3>2. QED
      BY <2>2, <3>1
  <2>4. faults' \in 0..MaxFaults
    <3>1. faults' = faults \/ Fault
      BY <1>7, TrimIs
    <3>2. QED
      BY <3>1 DEF TypeOK, Fault
  <2>5. lost' \in SUBSET EventIds
    <3>1. (head + 1)..head' \subseteq 1..MaxEvents
      BY <2>3 DEF TypeOK
    <3>2. InHand(s) \subseteq 1..MaxEvents
      BY DEF InHand, TypeOK
    <3>3. QED
      BY <1>7, <3>1, <3>2, TrimIs DEF TypeOK, GiveUp, EventIds
  <2>6. /\ ppc' \in [Servers -> {"wait", "read", "trim", "resend", "insert", "dlq", "stopped"}]
        /\ cur' \in [Servers -> 1..(MaxEvents + 1)]
    <3>1. PICK where \in {"wait", "resend", "insert", "stopped"} : ppc' = [ppc EXCEPT ![s] = where]
      BY <1>7, TrimIs DEF AfterFlush
    <3>2. /\ ppc \in [Servers -> {"wait", "read", "trim", "resend", "insert", "dlq", "stopped"}]
          /\ cur \in [Servers -> 1..(MaxEvents + 1)]
          /\ from[s] \in 1..(MaxEvents + 1)
      BY DEF TypeOK
    <3>3. QED
      BY <2>1, <3>1, <3>2
  <2>7. TypeOK'
    BY <2>1, <2>3, <2>4, <2>5, <2>6 DEF TypeOK, EventIds
  <2>8. BatchShape'
    <3>1. from[s] <= upto[s]
      BY <2>1 DEF BatchShape
    <3>2. cur'[s] = from[s]
      BY <2>1 DEF TypeOK
    <3>3. ppc'[s] # "trim" /\ \A r \in Servers : r # s => ppc'[r] = ppc[r] /\ cur'[r] = cur[r]
      BY <1>7, <2>1, TrimIs DEF TypeOK, AfterFlush
    <3>4. from[s] \in Int /\ upto[s] \in Int
      BY DEF TypeOK
    <3>5. QED
      BY <2>1, <2>3, <3>1, <3>2, <3>3, <3>4 DEF BatchShape
  <2>9. QED
    BY <2>7, <2>8
<1>8. ASSUME NEW s \in Servers, Insert(s) PROVE TypeOK' /\ BatchShape'
  <2>1. ppc[s] = "insert" /\ cur[s] \in EventIds
    BY <1>8 DEF Insert, TypeOK, BatchShape, EventIds
  <2>2. TypeOK'
    <3>1. UNCHANGED <<srv, hpc, head, tail, final, from, upto, dlq, lost, boots>>
      BY <1>8 DEF Insert, queueVars
    <3>2. rows' \in [EventIds -> Nat]
      BY <1>8, <2>1 DEF Insert, TypeOK
    <3>3. ppc' \in [Servers -> {"wait", "read", "trim", "resend", "insert", "dlq", "stopped"}]
      BY <1>8 DEF Insert, NextEntry, MoreInBatch, AfterFlush, TypeOK
    <3>4. cur' \in [Servers -> 1..(MaxEvents + 1)]
      <4>1. cur[s] + 1 \in 1..(MaxEvents + 1)
        BY <2>1 DEF EventIds
      <4>2. cur' = cur \/ cur' = [cur EXCEPT ![s] = cur[s] + 1]
        BY <1>8 DEF Insert, NextEntry, MoreInBatch
      <4>3. QED
        BY <4>1, <4>2 DEF TypeOK
    <3>5. faults' \in 0..MaxFaults
      BY <1>8 DEF Insert, FailsWhen, Fault, TypeOK
    <3>6. QED
      BY <3>1, <3>2, <3>3, <3>4, <3>5 DEF TypeOK, EventIds
  <2>3. BatchShape'
    BY <1>8, <2>1 DEF Insert, NextEntry, MoreInBatch, AfterFlush, TypeOK, BatchShape, queueVars
  <2>4. QED
    BY <2>2, <2>3
<1>9. ASSUME NEW s \in Servers, DeadLetter(s) PROVE TypeOK' /\ BatchShape'
  <2>1. ppc[s] = "dlq" /\ cur[s] \in EventIds
    BY <1>9 DEF DeadLetter, TypeOK, BatchShape, EventIds
  <2>2. TypeOK'
    <3>1. UNCHANGED <<srv, hpc, head, tail, final, from, upto, rows, boots>>
      BY <1>9 DEF DeadLetter, queueVars
    <3>2. dlq' \in SUBSET EventIds /\ lost' \in SUBSET EventIds
      BY <1>9, <2>1 DEF DeadLetter, GiveUp, TypeOK
    <3>3. ppc' \in [Servers -> {"wait", "read", "trim", "resend", "insert", "dlq", "stopped"}]
      BY <1>9 DEF DeadLetter, NextEntry, MoreInBatch, AfterFlush, TypeOK
    <3>4. cur' \in [Servers -> 1..(MaxEvents + 1)]
      <4>1. cur[s] + 1 \in 1..(MaxEvents + 1)
        BY <2>1 DEF EventIds
      <4>2. cur' = cur \/ cur' = [cur EXCEPT ![s] = cur[s] + 1]
        BY <1>9 DEF DeadLetter, NextEntry, MoreInBatch
      <4>3. QED
        BY <4>1, <4>2 DEF TypeOK
    <3>5. faults' \in 0..MaxFaults
      BY <1>9 DEF DeadLetter, FailsWhen, Fault, TypeOK
    <3>6. QED
      BY <3>1, <3>2, <3>3, <3>4, <3>5 DEF TypeOK, EventIds
  <2>3. BatchShape'
    BY <1>9, <2>1 DEF DeadLetter, NextEntry, MoreInBatch, AfterFlush, TypeOK, BatchShape, queueVars
  <2>4. QED
    BY <2>2, <2>3
<1>10. ASSUME NEW s \in Servers, Boot(s) PROVE TypeOK' /\ BatchShape'
  BY <1>10 DEF Boot, TypeOK, BatchShape, Lives, queueVars, fateVars
<1>11. ASSUME NEW s \in Servers, NEW now \in Lives, NEW then \in Lives, Live(s, now, then)
       PROVE  TypeOK' /\ BatchShape'
  BY <1>11 DEF Live, TypeOK, BatchShape, queueVars, procVars, fateVars
<1>12. ASSUME NEW s \in Servers, Die(s), faults' \in 0..MaxFaults
       PROVE  TypeOK' /\ BatchShape'
  <2>1. lost' \in SUBSET EventIds
    <3>1. InHand(s) \subseteq 1..MaxEvents
      BY DEF InHand, TypeOK
    <3>2. QED
      BY <1>12, <3>1 DEF Die, GiveUp, TypeOK, EventIds
  <2>2. /\ srv' \in [Servers -> Lives]
        /\ hpc' \in [Handlers -> {"idle", "check", "push"}]
        /\ ppc' \in [Servers -> {"wait", "read", "trim", "resend", "insert", "dlq", "stopped"}]
    BY <1>12 DEF Die, TypeOK, Lives
  <2>3. UNCHANGED <<head, tail, final, from, upto, cur, rows, dlq, boots>>
    BY <1>12 DEF Die, queueVars
  <2>4. TypeOK'
    BY <1>12, <2>1, <2>2, <2>3 DEF TypeOK, EventIds
  <2>5. BatchShape'
    BY <1>12, <2>3 DEF Die, TypeOK, BatchShape
  <2>6. QED
    BY <2>4, <2>5
<1>13. CASE UNCHANGED vars
  BY <1>13 DEF vars, TypeOK, BatchShape, queueVars, procVars, fateVars
<1>14. ASSUME NEW s \in Servers, Lifecycle(s) PROVE TypeOK' /\ BatchShape'
  <2>1. CASE Signal(s) \/ StopListening(s) \/ Drained(s) \/ CloseRedis(s)
    BY <2>1, <1>11 DEF Signal, StopListening, Drained, CloseRedis, Lives
  <2>2. CASE Exit(s) \/ Forced(s) \/ Crash(s)
    BY <2>2, <1>12 DEF Exit, Forced, Crash, Fault, TypeOK
  <2>3. QED
    BY <1>14, <1>10, <2>1, <2>2 DEF Lifecycle
<1>15. QED
  BY <1>1, <1>2, <1>3, <1>4, <1>5, <1>6, <1>7, <1>8, <1>9, <1>13, <1>14
     DEF Next, Request, Processor

\* Every state is well typed, whatever processes start, stop and crash.
THEOREM TypeCorrect == Spec => [](TypeOK /\ BatchShape)
<1>1. TypeOK /\ BatchShape /\ [Next]_vars => (TypeOK /\ BatchShape)'
  BY TypeStep
<1>2. QED
  BY TypeInit, <1>1, PTL DEF Spec

----------------------------------------------------------------------------
(* The queue bound                                                           *)

\* Arithmetic the solver needs stated over bound variables.
LEMMA MinusAntitone ==
  ASSUME NEW a \in Int, NEW b \in Int, NEW t \in Int, a <= b
  PROVE  t - b <= t - a
  OBVIOUS

\* Requests at a step are some of the requests.
LEMMA PushingFinite == IsFiniteSet(Pushing) /\ Cardinality(Pushing) \in Nat
<1>1. Pushing \in SUBSET Handlers
  BY DEF Pushing, AtStep
<1>2. QED
  BY <1>1, HandlersFinite, FS_Subset, FS_CardinalityType

\* A step that leaves no new request before its RPUSH and does not lengthen
\* the list keeps the bound.
LEMMA BoundKept ==
  ASSUME TypeOK, TypeOK', QueueBound, Pushing' \subseteq Pushing, Depth' <= Depth,
         faults' >= faults
  PROVE  QueueBound'
<1>1. Cardinality(Pushing') <= Cardinality(Pushing) /\ Cardinality(Pushing') \in Nat
  BY PushingFinite, FS_Subset, FS_CardinalityType
<1>2. Cardinality(Handlers) \in Nat /\ Cardinality(Pushing) \in Nat
  BY HandlersFinite, PushingFinite, FS_CardinalityType
<1>3. Depth \in Int /\ Depth' \in Int /\ faults \in Int /\ faults' \in Int /\ Limit \in Int
  BY LimitAssumption, BoundsAssumption DEF Depth, TypeOK
<1>4. QED
  BY <1>1, <1>2, <1>3 DEF QueueBound

\* Every step keeps the queue bound.
LEMMA QueueBoundStep ==
  ASSUME TypeOK, BatchShape, TypeOK', QueueBound, [Next]_vars
  PROVE  QueueBound'
<1> DEFINE H == Cardinality(Handlers)
           P == Cardinality(Pushing)
<1>1. H \in Nat /\ P \in Nat /\ Limit \in Int
  BY HandlersFinite, PushingFinite, FS_CardinalityType, LimitAssumption
<1>2. /\ Depth \in Int /\ Depth' \in Int /\ faults \in Int /\ faults' \in Int
      /\ head \in Int /\ tail \in Int /\ head' \in Int /\ tail' \in Int
  BY BoundsAssumption DEF Depth, TypeOK
<1>3. Depth + P <= Limit + H - 1 + faults
  BY DEF QueueBound
<1>4. ASSUME NEW h \in Handlers, Accept(h) PROVE QueueBound'
  <2>1. Pushing' \subseteq Pushing
    BY <1>4 DEF Accept, Pushing, AtStep, TypeOK
  <2>2. QED
    BY <1>4, <2>1, <1>2, BoundKept DEF Accept, Depth, queueVars
<1>5. ASSUME NEW h \in Handlers, CheckDepth(h) PROVE QueueBound'
  <2>1. UNCHANGED <<head, tail>> /\ Depth' = Depth
    BY <1>5 DEF CheckDepth, queueVars, Depth
  <2>2. CASE hpc' = [hpc EXCEPT ![h] = "idle"] /\ UNCHANGED faults
    <3>1. Pushing' \subseteq Pushing
      BY <2>2 DEF Pushing, AtStep, TypeOK
    <3>2. QED
      BY <2>1, <2>2, <3>1, <1>2, BoundKept
  <2>3. CASE hpc' = [hpc EXCEPT ![h] = "push"]
    <3>1. Pushing' = Pushing \cup {h} /\ h \notin Pushing
      BY <1>5, <2>3 DEF CheckDepth, Pushing, AtStep, TypeOK
    <3>2. Cardinality(Pushing') = P + 1
      BY <3>1, PushingFinite, FS_AddElement
    <3>3. Cardinality(Pushing') <= H
      <4>1. Pushing' \in SUBSET Handlers
        BY DEF Pushing, AtStep
      <4>2. QED
        BY <4>1, HandlersFinite, FS_Subset
    <3>4. CASE ~Full /\ UNCHANGED faults
      <4>1. Depth <= Limit - 1
        BY <3>4, <1>1, <1>2 DEF Full
      <4>2. faults >= 0
        BY DEF TypeOK
      <4>3. QED
        BY <1>1, <1>2, <2>1, <3>2, <3>3, <3>4, <4>1, <4>2 DEF QueueBound
    <3>5. CASE Fault
      <4>1. faults' = faults + 1
        BY <3>5 DEF Fault
      <4>2. QED
        BY <1>1, <1>2, <1>3, <2>1, <3>2, <4>1 DEF QueueBound
    <3>6. QED
      BY <1>5, <2>3, <3>4, <3>5 DEF CheckDepth, TypeOK
  <2>4. QED
    BY <1>5, <2>2, <2>3 DEF CheckDepth
<1>6. ASSUME NEW h \in Handlers, Push(h) PROVE QueueBound'
  <2>1. h \in Pushing /\ head' = head
    BY <1>6 DEF Push, Pushing, AtStep
  <2>2. CASE hpc' = [hpc EXCEPT ![h] = "idle"]
    <3>1. Pushing' = Pushing \ {h}
      BY <2>2 DEF Pushing, AtStep, TypeOK
    <3>2. Cardinality(Pushing') = P - 1
      BY <2>1, <3>1, PushingFinite, FS_RemoveElement
    <3>3. tail' \in {tail, tail + 1} /\ (faults' = faults \/ faults' = faults + 1)
      BY <1>6 DEF Push, Fault
    <3>4. QED
      BY <1>1, <1>2, <1>3, <2>1, <3>2, <3>3 DEF QueueBound, Depth
  <2>3. CASE UNCHANGED hpc /\ Fault /\ tail' = tail + 1
    <3>1. Pushing' = Pushing
      BY <2>3 DEF Pushing, AtStep
    <3>2. faults' = faults + 1
      BY <2>3 DEF Fault
    <3>3. Cardinality(Pushing') = P
      BY <3>1
    <3>4. QED
      BY <1>1, <1>2, <1>3, <2>1, <2>3, <3>2, <3>3 DEF QueueBound, Depth
  <2>4. QED
    BY <1>6, <2>2, <2>3 DEF Push
<1>7. ASSUME NEW s \in Servers, Processor(s) PROVE QueueBound'
  <2>1. UNCHANGED <<hpc, tail>> /\ faults' >= faults
    <3>1. CASE LTrim(s)
      <4>1. UNCHANGED <<hpc, tail>> /\ (faults' = faults \/ faults' = faults + 1)
        BY <3>1, TrimIs DEF Fault
      <4>2. QED
        BY <4>1, <1>2
    <3>2. CASE Tick(s) \/ CtxDone(s) \/ LRange(s) \/ Insert(s) \/ DeadLetter(s)
      <4>1. UNCHANGED <<hpc, tail>> /\ (faults' = faults \/ faults' = faults + 1)
        BY <3>2 DEF Tick, CtxDone, LRange, Insert, DeadLetter, FailsWhen, Fault, queueVars
      <4>2. QED
        BY <4>1, <1>2
    <3>3. QED
      BY <1>7, <3>1, <3>2 DEF Processor
  <2>2. head' >= head
    <3>1. CASE LTrim(s)
      <4>1. Trimmed(s) \in head..tail
        BY <3>1, TrimIs, TrimmedRange
      <4>2. head' = Trimmed(s) \/ head' = head
        BY <3>1, TrimIs
      <4>3. QED
        BY <1>2, <4>1, <4>2
    <3>2. CASE Tick(s) \/ CtxDone(s) \/ LRange(s) \/ Insert(s) \/ DeadLetter(s)
      BY <3>2, <1>2 DEF Tick, CtxDone, LRange, Insert, DeadLetter, queueVars
    <3>3. QED
      BY <1>7, <3>1, <3>2 DEF Processor
  <2>3. Pushing' \subseteq Pushing
    BY <2>1 DEF Pushing, AtStep
  <2>4. Depth' <= Depth
    <3>1. tail' = tail /\ head' \in Int /\ head \in Int /\ tail \in Int
      BY <2>1, <1>2
    <3>2. head <= head'
      BY <3>1, <2>2
    <3>3. tail - head' <= tail - head
      BY <3>1, <3>2, MinusAntitone
    <3>4. Depth = tail - head /\ Depth' = tail - head'
      BY <3>1 DEF Depth
    <3>5. QED
      BY <3>3, <3>4
  <2>5. QED
    BY <2>1, <2>3, <2>4, BoundKept
<1>8. ASSUME NEW s \in Servers, Lifecycle(s) PROVE QueueBound'
  <2>1. UNCHANGED <<head, tail>> /\ faults' >= faults
    BY <1>8, <1>2 DEF Lifecycle, Boot, Signal, StopListening, Drained, CloseRedis, Live,
                      Exit, Forced, Crash, Die, Fault, queueVars
  <2>2. \A h \in Handlers : hpc'[h] \in {hpc[h], "idle"}
    BY <1>8 DEF Lifecycle, Boot, Signal, StopListening, Drained, CloseRedis, Live,
                Exit, Forced, Crash, Die
  <2>3. Pushing' \subseteq Pushing
    BY <2>2 DEF Pushing, AtStep
  <2>4. QED
    BY <2>1, <2>3, <1>2, BoundKept DEF Depth
<1>9. CASE UNCHANGED vars
  BY <1>9 DEF vars, queueVars, QueueBound, Depth, Pushing, AtStep
<1>10. QED
  BY <1>4, <1>5, <1>6, <1>7, <1>8, <1>9 DEF Next, Request

\* redisQueueLimit is a soft limit: whatever the number of processes, the list
\* exceeds it by less than the number of concurrent requests plus the faults.
THEOREM QueueBounded == Spec => []QueueBound
<1>1. Init => QueueBound
  <2> SUFFICES ASSUME Init PROVE QueueBound
    OBVIOUS
  <2>1. Pushing = {}
    BY DEF Init, Pushing, AtStep
  <2>2. Cardinality(Pushing) = 0 /\ Cardinality(Handlers) \in Nat
    BY <2>1, FS_EmptySet, HandlersFinite, FS_CardinalityType
  <2>3. QED
    BY <2>2, LimitAssumption DEF Init, QueueBound, Depth
<1>2. TypeOK /\ BatchShape /\ TypeOK' /\ QueueBound /\ [Next]_vars => QueueBound'
  BY QueueBoundStep
<1>3. QED
  BY <1>1, <1>2, TypeCorrect, PTL DEF Spec

----------------------------------------------------------------------------
(* One process: rows and losses                                              *)

\* The inductive invariant of a deployment with one process.
OneProcessInv == TypeOK /\ BatchShape /\ PopOwnership /\ AtMostOneRow /\ Accounted

\* A step of a request only lengthens the list.
LEMMA RequestKeeps ==
  ASSUME NEW p, Servers = {p}, OneProcessInv, TypeOK', NEW h \in Handlers, Request(h)
  PROVE  PopOwnership' /\ AtMostOneRow' /\ Accounted'
<1>1. UNCHANGED <<srv, head, ppc, from, upto, cur, rows, dlq, lost>>
  BY DEF Request, Accept, CheckDepth, Push, queueVars, procVars, fateVars
<1>2. tail' >= tail
  <2>1. tail \in Int
    BY DEF OneProcessInv, TypeOK
  <2>2. tail' = tail \/ tail' = tail + 1
    BY DEF Request, Accept, CheckDepth, Push, queueVars
  <2>3. QED
    BY <2>1, <2>2
<1>3. PopOwnership'
  <2>1. ppc[p] = "trim" => upto[p] <= tail'
    BY <1>2 DEF OneProcessInv, PopOwnership, TypeOK
  <2>2. QED
    BY <1>1, <2>1 DEF OneProcessInv, PopOwnership
<1>4. AtMostOneRow' /\ Accounted'
  BY <1>1 DEF OneProcessInv, AtMostOneRow, Accounted, InHand
<1>5. QED
  BY <1>3, <1>4

\* So do the steps of the processor that move no event.
LEMMA ReadingKeeps ==
  ASSUME NEW p, Servers = {p}, OneProcessInv, TypeOK', Tick(p) \/ CtxDone(p) \/ LRange(p)
  PROVE  PopOwnership' /\ AtMostOneRow' /\ Accounted'
<1>1. UNCHANGED <<srv, head, tail, cur, rows, dlq, lost>>
  BY DEF Tick, CtxDone, LRange, queueVars, fateVars
<1>2. ppc[p] \in {"wait", "read"} /\ srv[p] # "down"
  BY DEF Tick, CtxDone, LRange, OneProcessInv, PopOwnership
<1>3. \/ ppc'[p] \in {"read", "wait", "stopped"}
      \/ ppc'[p] = "trim" /\ from'[p] = head + 1 /\ upto'[p] = LastRead
  BY DEF Tick, CtxDone, LRange, AfterFlush, OneProcessInv, TypeOK
<1>4. LastRead <= tail
  <2>1. head \in Int /\ tail \in Int /\ BatchSize \in Int
    BY BatchAssumption DEF OneProcessInv, TypeOK
  <2>2. QED
    BY <2>1 DEF LastRead, Depth
<1>5. PopOwnership'
  BY <1>1, <1>2, <1>3, <1>4 DEF OneProcessInv, PopOwnership
<1>6. AtMostOneRow' /\ Accounted'
  BY <1>1, <1>2, <1>3 DEF OneProcessInv, AtMostOneRow, Accounted, InHand
<1>7. QED
  BY <1>5, <1>6

\* LTRIM hands exactly the batch to the processor, or gives up what it removed.
LEMMA TrimKeeps ==
  ASSUME NEW p, Servers = {p}, OneProcessInv, TypeOK', BatchShape', LTrim(p)
  PROVE  PopOwnership' /\ AtMostOneRow' /\ Accounted'
<1>1. /\ ppc[p] \in {"trim", "resend"}
      /\ UNCHANGED <<srv, tail, final, from, upto, rows, dlq>>
      /\ cur' = [cur EXCEPT ![p] = from[p]]
  BY TrimIs
<1>2. /\ head \in Nat /\ tail \in Nat /\ head' \in Nat /\ from[p] \in Nat /\ upto[p] \in Nat
      /\ cur'[p] = from[p]
  BY <1>1 DEF OneProcessInv, TypeOK
<1>3. /\ from[p] <= upto[p]
      /\ ppc[p] = "trim" => from[p] = head + 1 /\ upto[p] <= tail
      /\ ppc[p] = "resend" => cur[p] = from[p] /\ upto[p] <= head
  BY <1>1 DEF OneProcessInv, PopOwnership, BatchShape
<1>4. head' >= head
  <2>1. Trimmed(p) \in head..tail
    BY <1>1, TrimmedRange DEF OneProcessInv
  <2>2. head' = Trimmed(p) \/ head' = head
    BY TrimIs
  <2>3. QED
    BY <1>2, <2>1, <2>2
<1>5. /\ ppc'[p] \in {"resend", "insert", "wait", "stopped"}
      /\ \/ /\ ppc'[p] \in {"resend", "insert"} /\ head' = Trimmed(p)
            /\ GiveUp(((head + 1)..head') \ Batch(p))
         \/ /\ ppc'[p] \in {"wait", "stopped"} /\ head' = head /\ GiveUp(InHand(p))
  BY TrimIs DEF OneProcessInv, TypeOK, AfterFlush
<1>6. ppc'[p] \in {"resend", "insert"} => upto[p] <= head'
  <2>1. CASE ppc[p] = "trim"
    BY <1>2, <1>3, <1>5, <2>1 DEF Trimmed
  <2>2. CASE ppc[p] = "resend"
    BY <1>2, <1>3, <1>4, <2>2
  <2>3. QED
    BY <1>1, <2>1, <2>2
<1>7. \A n \in EventIds : rows[n] > 0 => n <= head /\ n < from[p]
  <2>1. CASE ppc[p] = "trim"
    BY <1>2, <1>3, <2>1 DEF OneProcessInv, PopOwnership, EventIds
  <2>2. CASE ppc[p] = "resend"
    BY <1>3, <2>2 DEF OneProcessInv, PopOwnership
  <2>3. QED
    BY <1>1, <2>1, <2>2
<1>8. PopOwnership'
  <2>1. \A n \in EventIds : rows'[n] > 0 => n <= head' /\ n < cur'[p]
    BY <1>1, <1>2, <1>4, <1>7 DEF EventIds
  <2>2. srv[p] # "down"
    BY <1>1 DEF OneProcessInv, PopOwnership
  <2>3. QED
    BY <1>1, <1>5, <1>6, <2>1, <2>2 DEF PopOwnership
<1>9. AtMostOneRow'
  BY <1>1 DEF OneProcessInv, AtMostOneRow
<1>10. Accounted'
  <2> SUFFICES ASSUME NEW n \in 1..head'
               PROVE  rows'[n] > 0 \/ n \in dlq' \/ n \in lost' \/ n \in InHand(p)'
    BY DEF Accounted
  <2>1. n \in EventIds /\ rows[n] \in Nat
    <3>1. head' \in 0..MaxEvents /\ MaxEvents \in Nat
      BY BoundsAssumption DEF TypeOK
    <3>2. n \in EventIds
      BY <3>1 DEF EventIds
    <3>3. QED
      BY <3>2 DEF OneProcessInv, TypeOK
  <2>2. lost \subseteq lost'
    BY <1>5 DEF GiveUp
  <2>3. CASE n \in InHand(p)
    <3>1. ppc[p] = "resend" /\ n \in from[p]..upto[p]
      BY <1>1, <1>3, <2>3 DEF InHand
    <3>2. CASE ppc'[p] \in {"resend", "insert"}
      BY <1>1, <1>2, <3>1, <3>2 DEF InHand
    <3>3. CASE ppc'[p] \in {"wait", "stopped"}
      <4>1. rows[n] = 0
        BY <1>2, <1>7, <2>1, <3>1
      <4>2. QED
        BY <4>1, <1>5, <2>3, <3>3 DEF GiveUp
    <3>4. QED
      BY <1>5, <3>2, <3>3
  <2>4. CASE n <= head /\ n \notin InHand(p)
    <3>1. n \in 1..head
      BY <1>2, <2>4
    <3>2. rows[n] > 0 \/ n \in dlq \/ n \in lost
      BY <2>4, <3>1 DEF OneProcessInv, Accounted
    <3>3. QED
      BY <1>1, <2>2, <3>2
  <2>5. CASE n > head
    <3>1. rows[n] = 0
      BY <1>2, <1>7, <2>1, <2>5
    <3>2. ppc'[p] \in {"resend", "insert"} /\ n \in (head + 1)..head'
      BY <1>2, <1>5, <2>5
    <3>3. CASE n \in Batch(p)
      BY <1>1, <1>2, <3>2, <3>3 DEF InHand, Batch
    <3>4. CASE n \notin Batch(p)
      BY <1>5, <3>1, <3>2, <3>4 DEF GiveUp
    <3>5. QED
      BY <3>3, <3>4
  <2>6. QED
    BY <1>2, <2>3, <2>4, <2>5
<1>11. QED
  BY <1>8, <1>9, <1>10

\* The entry a processor is inserting is an event of its batch.
LEMMA InBatch ==
  ASSUME TypeOK, BatchShape, NEW s \in Servers, ppc[s] \in {"resend", "insert", "dlq"}
  PROVE  /\ from[s] \in Nat /\ upto[s] \in Nat /\ cur[s] \in Nat
         /\ cur[s] \in EventIds /\ cur[s] <= upto[s]
<1>1. upto[s] \in 0..MaxEvents /\ cur[s] \in 1..(MaxEvents + 1) /\ from[s] \in 1..(MaxEvents + 1)
  BY DEF TypeOK
<1>2. cur[s] <= upto[s]
  BY DEF BatchShape
<1>3. QED
  BY <1>1, <1>2, BoundsAssumption DEF EventIds

\* Where flush stands after an entry: in the batch exactly if entries remain.
LEMMA AfterEntry ==
  ASSUME TypeOK, NEW s \in Servers, NextEntry(s)
  PROVE  /\ ppc'[s] \in {"insert", "read", "wait", "stopped"}
         /\ ppc'[s] = "insert" <=> cur[s] < upto[s]
         /\ cur'[s] = cur[s] + 1
<1>1. ppc'[s] = IF cur[s] < upto[s] THEN "insert"
                ELSE IF upto[s] - from[s] + 1 = BatchSize THEN "read"
                ELSE AfterFlush(s)
  BY DEF NextEntry, MoreInBatch, TypeOK
<1>2. cur'[s] = cur[s] + 1
  BY DEF NextEntry, MoreInBatch, TypeOK
<1>3. AfterFlush(s) \in {"wait", "stopped"}
  BY DEF AfterFlush
<1>4. cur[s] \in Int /\ upto[s] \in Int
  BY DEF TypeOK
<1>5. CASE cur[s] < upto[s]
  BY <1>1, <1>2, <1>4, <1>5
<1>6. CASE ~(cur[s] < upto[s])
  BY <1>1, <1>2, <1>3, <1>4, <1>6
<1>7. QED
  BY <1>5, <1>6

\* An insert gives a row to the entry after all those with rows.
LEMMA InsertKeeps ==
  ASSUME NEW p, Servers = {p}, OneProcessInv, TypeOK', BatchShape', Insert(p)
  PROVE  PopOwnership' /\ AtMostOneRow' /\ Accounted'
<1>1. ppc[p] = "insert" /\ UNCHANGED <<srv, head, tail, from, upto, dlq, lost>>
  BY DEF Insert, queueVars
<1>2. /\ head \in Nat /\ from[p] \in Nat /\ upto[p] \in Nat /\ cur[p] \in EventIds
      /\ cur[p] <= upto[p] /\ upto[p] <= head
  <2>1. p \in Servers /\ ppc[p] \in {"insert", "dlq"}
    BY <1>1
  <2>2. head \in Nat /\ upto[p] <= head
    BY <2>1 DEF OneProcessInv, TypeOK, PopOwnership
  <2>3. QED
    BY <2>1, <2>2, InBatch DEF OneProcessInv
<1>3. srv[p] # "down"
  BY <1>1 DEF OneProcessInv, PopOwnership
<1>4. /\ rows \in [EventIds -> Nat]
      /\ \A n \in EventIds : rows[n] > 0 => n <= head /\ n < cur[p]
      /\ \A n \in EventIds : rows[n] <= 1
  BY <1>1 DEF OneProcessInv, TypeOK, PopOwnership, AtMostOneRow
<1>5. rows[cur[p]] = 0
  BY <1>2, <1>4 DEF EventIds
<1>6. \/ rows' = [rows EXCEPT ![cur[p]] = 1]
      \/ rows' = rows /\ ppc'[p] = "dlq"
  BY <1>1, <1>2, <1>4, <1>5 DEF Insert, OneProcessInv, TypeOK
<1>7. \/ ppc'[p] = "dlq" /\ cur'[p] = cur[p]
      \/ /\ ppc'[p] \in {"insert", "read", "wait", "stopped"} /\ cur'[p] = cur[p] + 1
         /\ rows' = [rows EXCEPT ![cur[p]] = 1]
         /\ ppc'[p] = "insert" <=> cur[p] < upto[p]
  <2>1. CASE NextEntry(p) /\ rows' = [rows EXCEPT ![cur[p]] = @ + 1]
    <3>1. rows' = [rows EXCEPT ![cur[p]] = 1]
      BY <2>1, <1>2, <1>4, <1>5
    <3>2. QED
      BY <2>1, <3>1, AfterEntry DEF OneProcessInv
  <2>2. CASE ppc' = [ppc EXCEPT ![p] = "dlq"] /\ UNCHANGED cur
    BY <2>2 DEF OneProcessInv, TypeOK
  <2>3. QED
    BY <2>1, <2>2 DEF Insert
<1>8. \A n \in EventIds : rows'[n] > 0 => rows[n] > 0 \/ n = cur[p]
  BY <1>4, <1>6
<1>9. \A n \in EventIds : rows[n] > 0 \/ n = cur[p] => n <= head /\ n <= cur[p]
  BY <1>2, <1>4 DEF EventIds
<1>10. PopOwnership'
  <2>1. \A n \in EventIds : rows'[n] > 0 => n <= head' /\ n <= cur[p]
    BY <1>1, <1>8, <1>9
  <2>2. ppc'[p] = "insert" => \A n \in EventIds : rows'[n] > 0 => n < cur'[p]
    BY <1>2, <1>7, <2>1 DEF EventIds
  <2>3. ppc'[p] = "dlq" => \A n \in EventIds : rows'[n] > 0 => n <= cur'[p]
    BY <1>7, <2>1
  <2>4. ppc'[p] \notin {"trim", "resend"} /\ upto'[p] <= head'
    BY <1>1, <1>2, <1>7
  <2>5. QED
    BY <1>1, <1>3, <2>1, <2>2, <2>3, <2>4 DEF PopOwnership
<1>11. AtMostOneRow'
  BY <1>2, <1>4, <1>6 DEF AtMostOneRow
<1>12. Accounted'
  <2> SUFFICES ASSUME NEW n \in 1..head
               PROVE  rows'[n] > 0 \/ n \in dlq' \/ n \in lost' \/ n \in InHand(p)'
    BY <1>1 DEF Accounted
  <2>1. n \in EventIds
    <3>1. head \in 0..MaxEvents
      BY DEF OneProcessInv, TypeOK
    <3>2. QED
      BY <3>1, BoundsAssumption DEF EventIds
  <2>2. rows[n] > 0 \/ n \in dlq \/ n \in lost \/ n \in cur[p]..upto[p]
    BY <1>1 DEF OneProcessInv, Accounted, InHand
  <2>3. rows[n] > 0 => rows'[n] > 0
    BY <1>2, <1>4, <1>6, <2>1
  <2>4. CASE n \in cur[p]..upto[p] /\ ppc'[p] = "dlq"
    <3>1. InHand(p)' = cur[p]..upto[p]
      BY <2>4, <1>1, <1>7 DEF InHand
    <3>2. QED
      BY <2>4, <3>1
  <2>5. CASE n \in cur[p]..upto[p] /\ ppc'[p] # "dlq" /\ n = cur[p]
    BY <1>2, <1>4, <1>7, <2>5
  <2>6. CASE n \in cur[p]..upto[p] /\ ppc'[p] # "dlq" /\ n # cur[p]
    <3>1. cur[p] < upto[p] /\ n \in (cur[p] + 1)..upto[p]
      BY <1>2, <2>6 DEF EventIds
    <3>2. InHand(p)' = (cur[p] + 1)..upto[p]
      BY <1>1, <1>7, <2>6, <3>1 DEF InHand
    <3>3. QED
      BY <3>1, <3>2
  <2>7. QED
    BY <1>1, <2>2, <2>3, <2>4, <2>5, <2>6
<1>13. QED
  BY <1>10, <1>11, <1>12

\* A dead letter, or giving it up, settles the entry.
LEMMA DeadLetterKeeps ==
  ASSUME NEW p, Servers = {p}, OneProcessInv, TypeOK', BatchShape', DeadLetter(p)
  PROVE  PopOwnership' /\ AtMostOneRow' /\ Accounted'
<1>1. ppc[p] = "dlq" /\ UNCHANGED <<srv, head, tail, from, upto, rows>>
  BY DEF DeadLetter, queueVars
<1>2. /\ head \in Nat /\ from[p] \in Nat /\ upto[p] \in Nat /\ cur[p] \in EventIds
      /\ cur[p] <= upto[p] /\ upto[p] <= head
  <2>1. p \in Servers /\ ppc[p] \in {"insert", "dlq"}
    BY <1>1
  <2>2. head \in Nat /\ upto[p] <= head
    BY <2>1 DEF OneProcessInv, TypeOK, PopOwnership
  <2>3. QED
    BY <2>1, <2>2, InBatch DEF OneProcessInv
<1>3. srv[p] # "down"
  BY <1>1 DEF OneProcessInv, PopOwnership
<1>4. \A n \in EventIds : rows[n] > 0 => n <= head /\ n <= cur[p]
  BY <1>1 DEF OneProcessInv, PopOwnership
<1>5. /\ ppc'[p] \in {"insert", "read", "wait", "stopped"} /\ cur'[p] = cur[p] + 1
      /\ ppc'[p] = "insert" <=> cur[p] < upto[p]
  <2>1. NextEntry(p) /\ p \in Servers
    BY DEF DeadLetter
  <2>2. QED
    BY <2>1, AfterEntry DEF OneProcessInv
<1>6. dlq \subseteq dlq' /\ lost \subseteq lost'
  BY DEF DeadLetter, GiveUp
<1>7. rows[cur[p]] > 0 \/ cur[p] \in dlq' \/ cur[p] \in lost'
  <2>1. rows[cur[p]] > 0 \/ rows[cur[p]] = 0
    BY <1>2 DEF OneProcessInv, TypeOK
  <2>2. QED
    BY <2>1 DEF DeadLetter, GiveUp
<1>8. PopOwnership'
  <2>1. ppc'[p] = "insert" => \A n \in EventIds : rows[n] > 0 => n < cur'[p]
    BY <1>2, <1>4, <1>5 DEF EventIds
  <2>2. QED
    BY <1>1, <1>2, <1>3, <1>4, <1>5, <2>1 DEF PopOwnership
<1>9. AtMostOneRow'
  BY <1>1 DEF OneProcessInv, AtMostOneRow
<1>10. Accounted'
  <2> SUFFICES ASSUME NEW n \in 1..head
               PROVE  rows[n] > 0 \/ n \in dlq' \/ n \in lost' \/ n \in InHand(p)'
    BY <1>1 DEF Accounted
  <2>1. rows[n] > 0 \/ n \in dlq \/ n \in lost \/ n \in cur[p]..upto[p]
    BY <1>1 DEF OneProcessInv, Accounted, InHand
  <2>2. CASE n \in cur[p]..upto[p] /\ n = cur[p]
    BY <1>7, <2>2
  <2>3. CASE n \in cur[p]..upto[p] /\ n # cur[p]
    <3>1. cur[p] < upto[p] /\ n \in (cur[p] + 1)..upto[p]
      BY <1>2, <2>3 DEF EventIds
    <3>2. InHand(p)' = (cur[p] + 1)..upto[p]
      BY <1>1, <1>5, <3>1 DEF InHand
    <3>3. QED
      BY <3>1, <3>2
  <2>4. QED
    BY <1>6, <2>1, <2>2, <2>3
<1>11. QED
  BY <1>8, <1>9, <1>10

\* Starting, stopping and dying settle what the process held.
LEMMA LifecycleKeeps ==
  ASSUME NEW p, Servers = {p}, OneProcessInv, TypeOK', Lifecycle(p)
  PROVE  PopOwnership' /\ AtMostOneRow' /\ Accounted'
<1>1. UNCHANGED <<head, tail, from, upto, cur, rows, dlq>>
  BY DEF Lifecycle, Boot, Signal, StopListening, Drained, CloseRedis, Live, Exit, Forced,
         Crash, Die, queueVars, procVars, fateVars
<1>2. AtMostOneRow'
  BY <1>1 DEF OneProcessInv, AtMostOneRow
<1>3. CASE Boot(p)
  <2>1. /\ srv[p] = "down" /\ srv'[p] = "up" /\ ppc'[p] = "wait" /\ lost' = lost
        /\ ppc[p] = "stopped"
    BY <1>3 DEF Boot, fateVars, OneProcessInv, TypeOK, PopOwnership
  <2>2. PopOwnership'
    BY <1>1, <2>1 DEF OneProcessInv, PopOwnership
  <2>3. Accounted'
    BY <1>1, <2>1 DEF OneProcessInv, Accounted, InHand
  <2>4. QED
    BY <1>2, <2>2, <2>3
<1>4. CASE Signal(p) \/ StopListening(p) \/ Drained(p) \/ CloseRedis(p)
  <2>1. UNCHANGED <<ppc, lost>> /\ srv'[p] # "down"
    BY <1>4 DEF Signal, StopListening, Drained, CloseRedis, Live, procVars, fateVars,
                OneProcessInv, TypeOK
  <2>2. PopOwnership'
    BY <1>1, <2>1 DEF OneProcessInv, PopOwnership
  <2>3. Accounted'
    BY <1>1, <2>1 DEF OneProcessInv, Accounted, InHand
  <2>4. QED
    BY <1>2, <2>2, <2>3
<1>5. CASE Die(p)
  <2>1. /\ ppc'[p] = "stopped"
        /\ lost' = lost \cup {n \in InHand(p) : rows[n] = 0}
    BY <1>5 DEF Die, GiveUp, OneProcessInv, TypeOK
  <2>2. PopOwnership'
    BY <1>1, <2>1 DEF OneProcessInv, PopOwnership
  <2>3. Accounted'
    <3> SUFFICES ASSUME NEW n \in 1..head
                 PROVE  rows[n] > 0 \/ n \in dlq \/ n \in lost'
      BY <1>1 DEF Accounted
    <3>1. n \in EventIds
      <4>1. head \in 0..MaxEvents
        BY DEF OneProcessInv, TypeOK
      <4>2. QED
        BY <4>1, BoundsAssumption DEF EventIds
    <3>2. rows[n] > 0 \/ rows[n] = 0
      BY <3>1 DEF OneProcessInv, TypeOK
    <3>3. rows[n] > 0 \/ n \in dlq \/ n \in lost \/ n \in InHand(p)
      BY DEF OneProcessInv, Accounted
    <3>4. QED
      BY <2>1, <3>2, <3>3
  <2>4. QED
    BY <1>2, <2>2, <2>3
<1>6. QED
  BY <1>3, <1>4, <1>5 DEF Lifecycle, Exit, Forced, Crash

\* A deployment with one process keeps its invariant.
LEMMA OneProcessStep ==
  ASSUME NEW p, Servers = {p}, OneProcessInv, [Next]_vars
  PROVE  OneProcessInv'
<1>1. TypeOK' /\ BatchShape'
  BY TypeStep DEF OneProcessInv
<1>2. CASE UNCHANGED vars
  <2>1. PopOwnership' /\ AtMostOneRow' /\ Accounted'
    BY <1>2 DEF vars, queueVars, procVars, fateVars, OneProcessInv, PopOwnership,
                AtMostOneRow, Accounted, InHand
  <2>2. QED
    BY <1>1, <2>1 DEF OneProcessInv
<1>3. CASE \E h \in Handlers : Request(h)
  BY <1>1, <1>3, RequestKeeps DEF OneProcessInv
<1>4. CASE Processor(p)
  BY <1>1, <1>4, ReadingKeeps, TrimKeeps, InsertKeeps, DeadLetterKeeps
     DEF Processor, OneProcessInv
<1>5. CASE Lifecycle(p)
  BY <1>1, <1>5, LifecycleKeeps DEF OneProcessInv
<1>6. QED
  BY <1>2, <1>3, <1>4, <1>5 DEF Next

\* The invariant holds in every reachable state of such a deployment.
LEMMA OneProcessInvariant ==
  ASSUME NEW p, Servers = {p}
  PROVE  Spec => []OneProcessInv
<1>1. Init => OneProcessInv
  BY TypeInit, BoundsAssumption
     DEF Init, OneProcessInv, PopOwnership, AtMostOneRow, Accounted, EventIds
<1>2. OneProcessInv /\ [Next]_vars => OneProcessInv'
  BY OneProcessStep
<1>3. QED
  BY <1>1, <1>2, PTL DEF Spec

\* With one process no event is stored twice: the trim, the insert and the
\* dead letter may each fail, lose their reply or be cut off by a crash.
THEOREM StoredAtMostOnce ==
  ASSUME NEW p, Servers = {p}
  PROVE  Spec => []AtMostOneRow
<1>1. OneProcessInv => AtMostOneRow
  BY DEF OneProcessInv
<1>2. QED
  BY <1>1, OneProcessInvariant, PTL

\* With one process every event that left the list is a row, a dead letter, in
\* the processor's hands or given up at a failure or a stop; none vanishes
\* otherwise.
THEOREM EveryEventAccounted ==
  ASSUME NEW p, Servers = {p}
  PROVE  Spec => []Accounted
<1>1. OneProcessInv => Accounted
  BY DEF OneProcessInv
<1>2. QED
  BY <1>1, OneProcessInvariant, PTL

\* With one process, LRANGE followed by LTRIM is the pop the source says it is:
\* the list loses exactly the batch read, until an LTRIM is sent again.
THEOREM PopTakesWhatItRead ==
  ASSUME NEW p, Servers = {p}
  PROVE  Spec => PopRemovesBatch
<1> DEFINE Pop == head' # head
                    => \E s \in Servers :
                         \/ /\ ppc[s] = "trim" /\ ppc'[s] \in {"resend", "insert"}
                            /\ Batch(s) = (head + 1)..head'
                         \/ ppc[s] = "resend"
<1>1. ASSUME OneProcessInv, [Next]_vars, head' # head
      PROVE  \/ /\ ppc[p] = "trim" /\ ppc'[p] \in {"resend", "insert"}
                /\ Batch(p) = (head + 1)..head'
             \/ ppc[p] = "resend"
  <2>1. LTrim(p)
    BY <1>1 DEF Next, Request, Accept, CheckDepth, Push, Processor, Tick, CtxDone, LRange,
                Insert, DeadLetter, Lifecycle, Boot, Signal, StopListening, Drained,
                CloseRedis, Live, Exit, Forced, Crash, Die, vars, queueVars
  <2>2. /\ ppc[p] \in {"trim", "resend"} /\ p \in Servers
        /\ head' = Trimmed(p) /\ ppc'[p] \in {"resend", "insert"}
    BY <1>1, <2>1, TrimIs DEF OneProcessInv, TypeOK
  <2>3. CASE ppc[p] = "trim"
    <3>1. /\ head \in Nat /\ tail \in Nat /\ upto[p] \in Nat /\ head <= tail
          /\ from[p] = head + 1 /\ upto[p] <= tail
      BY <1>1, <2>3 DEF OneProcessInv, TypeOK, BatchShape, PopOwnership
    <3>2. head' = upto[p]
      BY <2>2, <3>1 DEF Trimmed
    <3>3. QED
      BY <2>2, <2>3, <3>1, <3>2 DEF Batch
  <2>4. QED
    BY <2>2, <2>3
<1>2. OneProcessInv /\ [Next]_vars => [Pop]_vars
  BY <1>1
<1>3. QED
  BY <1>2, OneProcessInvariant, PTL DEF Spec, PopRemovesBatch

\* With one process the list, the batch in hand and the rows fit together: what
\* was read is still the list's left end when it is trimmed.
THEOREM PopIsOwned ==
  ASSUME NEW p, Servers = {p}
  PROVE  Spec => []PopOwnership
<1>1. OneProcessInv => PopOwnership
  BY DEF OneProcessInv
<1>2. QED
  BY <1>1, OneProcessInvariant, PTL

----------------------------------------------------------------------------
(* One process implements AnalyticsLog                                       *)

\* How far the processor has settled events, without the CHOOSE.
LEMMA PastIs ==
  ASSUME NEW p, Servers = {p}
  PROVE  /\ Past = IF ppc[p] \in {"resend", "insert", "dlq"} THEN cur[p] - 1 ELSE head
         /\ Past' = IF ppc'[p] \in {"resend", "insert", "dlq"} THEN cur'[p] - 1 ELSE head'
<1>1. CASE ppc[p] \in {"resend", "insert", "dlq"}
  <2>1. {s \in Servers : ppc[s] \in {"resend", "insert", "dlq"}} = {p}
    BY <1>1
  <2>2. QED
    BY <1>1, <2>1 DEF Past
<1>2. CASE ppc[p] \notin {"resend", "insert", "dlq"}
  <2>1. {s \in Servers : ppc[s] \in {"resend", "insert", "dlq"}} = {}
    BY <1>2
  <2>2. QED
    BY <1>2, <2>1 DEF Past
<1>3. Past = IF ppc[p] \in {"resend", "insert", "dlq"} THEN cur[p] - 1 ELSE head
  BY <1>1, <1>2
<1>4. CASE ppc'[p] \in {"resend", "insert", "dlq"}
  <2>1. {s \in Servers : ppc'[s] \in {"resend", "insert", "dlq"}} = {p}
    BY <1>4
  <2>2. QED
    BY <1>3, <1>4, <2>1 DEF Past
<1>5. CASE ppc'[p] \notin {"resend", "insert", "dlq"}
  <2>1. {s \in Servers : ppc'[s] \in {"resend", "insert", "dlq"}} = {}
    BY <1>5
  <2>2. QED
    BY <1>3, <1>5, <2>1 DEF Past
<1>6. QED
  BY <1>3, <1>4, <1>5

\* A step that settles nothing leaves the log as it is.
LEMMA LogStutters ==
  ASSUME TypeOK, Past \in Nat, Past <= tail, Past' = Past, tail' = tail, dlq' = dlq,
         \A n \in 1..Past : rows'[n] > 0 <=> rows[n] > 0
  PROVE  UNCHANGED Log!vars
BY DEF Log!vars

\* A step that settles events settles the next ones, and leaves those before.
LEMMA LogSettles ==
  ASSUME TypeOK, Past \in Nat, Past' \in Nat, Past < Past', Past' <= tail, tail' = tail,
         \A n \in 1..Past : rows'[n] > 0 <=> rows[n] > 0,
         dlq \subseteq dlq', dlq' \ dlq \subseteq (Past + 1)..Past'
  PROVE  Log!Settle
<1> DEFINE rowed == {n \in (Past + 1)..Past' : rows'[n] > 0}
           buried == dlq' \ dlq
<1>1. Past' \in (Past + 1)..tail
  BY DEF TypeOK
<1>2. {n \in 1..Past : rows[n] > 0}' = {n \in 1..Past : rows[n] > 0} \cup rowed
  OBVIOUS
<1>3. dlq' = dlq \cup buried
  OBVIOUS
<1>4. rowed \in SUBSET ((Past + 1)..Past') /\ buried \in SUBSET ((Past + 1)..Past')
  OBVIOUS
<1>5. \E r, b \in SUBSET ((Past + 1)..Past') :
        /\ {n \in 1..Past : rows[n] > 0}' = {n \in 1..Past : rows[n] > 0} \cup r
        /\ dlq' = dlq \cup b
  BY <1>2, <1>3, <1>4
<1>6. QED
  BY <1>1, <1>5 DEF Log!Settle

\* What the processor holds is on this side of the list's left end.
LEMMA PastRange ==
  ASSUME NEW p, Servers = {p}, OneProcessInv
  PROVE  /\ Past \in Nat /\ Past <= head /\ head <= tail /\ head \in Nat /\ tail \in Nat
         /\ ppc[p] \in {"resend", "insert", "dlq"} =>
              /\ Past = cur[p] - 1 /\ Past < head /\ cur[p] \in EventIds
              /\ cur[p] <= upto[p] /\ upto[p] <= head /\ upto[p] \in Nat
         /\ ppc[p] \notin {"resend", "insert", "dlq"} => Past = head
         /\ \A n \in 1..Past : n \in EventIds
         /\ \A n \in EventIds : rows[n] > 0 =>
              n <= Past \/ (ppc[p] = "dlq" /\ n = cur[p])
<1>1. head \in 0..MaxEvents /\ tail \in 0..MaxEvents /\ head <= tail /\ p \in Servers
  BY DEF OneProcessInv, TypeOK, BatchShape
<1>2. ppc[p] \in {"resend", "insert", "dlq"} =>
        cur[p] \in EventIds /\ cur[p] <= upto[p] /\ upto[p] <= head /\ upto[p] \in Nat
  BY <1>1, InBatch DEF OneProcessInv, PopOwnership
<1>3. /\ ppc[p] \in {"resend", "insert", "dlq"} => Past = cur[p] - 1
      /\ ppc[p] \notin {"resend", "insert", "dlq"} => Past = head
  BY PastIs
<1>4. Past \in Nat /\ Past <= head /\ (ppc[p] \in {"resend", "insert", "dlq"} => Past < head)
  BY <1>1, <1>2, <1>3, BoundsAssumption DEF EventIds
<1>5. \A n \in EventIds : rows[n] > 0 => n <= Past \/ (ppc[p] = "dlq" /\ n = cur[p])
  <2> SUFFICES ASSUME NEW n \in EventIds, rows[n] > 0
               PROVE  n <= Past \/ (ppc[p] = "dlq" /\ n = cur[p])
    OBVIOUS
  <2>1. /\ n <= head
        /\ ppc[p] \in {"resend", "insert"} => n < cur[p]
        /\ ppc[p] = "dlq" => n <= cur[p]
    BY <1>1 DEF OneProcessInv, PopOwnership
  <2>2. CASE ppc[p] \in {"resend", "insert", "dlq"}
    BY <1>2, <1>3, <2>1, <2>2, BoundsAssumption DEF EventIds
  <2>3. CASE ppc[p] \notin {"resend", "insert", "dlq"}
    BY <1>3, <2>1, <2>3 DEF OneProcessInv, PopOwnership
  <2>4. QED
    BY <2>2, <2>3
<1>6. \A n \in 1..Past : n \in EventIds
  BY <1>1, <1>4, BoundsAssumption DEF EventIds
<1>7. QED
  BY <1>1, <1>2, <1>3, <1>4, <1>5, <1>6

\* Requests record events, or change nothing the log shows.
LEMMA RequestIsLogged ==
  ASSUME NEW p, Servers = {p}, OneProcessInv, NEW h \in Handlers, Request(h)
  PROVE  Log!Record \/ UNCHANGED Log!vars
<1>1. UNCHANGED <<head, ppc, cur, rows, dlq>>
  BY DEF Request, Accept, CheckDepth, Push, queueVars, procVars, fateVars
<1>2. Past' = Past
  BY <1>1, PastIs
<1>3. CASE tail' = tail
  BY <1>1, <1>2, <1>3 DEF Log!vars
<1>4. CASE tail < MaxEvents /\ tail' = tail + 1
  BY <1>1, <1>2, <1>4 DEF Log!Record
<1>5. tail' = tail \/ (tail < MaxEvents /\ tail' = tail + 1)
  BY DEF Request, Accept, CheckDepth, Push, queueVars
<1>6. QED
  BY <1>3, <1>4, <1>5

\* LTRIM settles the batch only when it is given up, and with it what a further
\* execution removed.
LEMMA TrimIsLogged ==
  ASSUME NEW p, Servers = {p}, OneProcessInv, LTrim(p)
  PROVE  Log!Settle \/ UNCHANGED Log!vars
<1>1. /\ ppc[p] \in {"trim", "resend"} /\ UNCHANGED <<tail, rows, dlq>> /\ p \in Servers
      /\ cur'[p] = from[p]
  BY TrimIs DEF OneProcessInv, TypeOK
<1>2. /\ Past \in Nat /\ Past <= head /\ head \in Nat /\ head <= tail /\ tail \in Nat
      /\ \A n \in 1..Past : n \in EventIds
  BY PastRange
<1>3. Past = from[p] - 1
  <2>1. CASE ppc[p] = "trim"
    <3>1. Past = head /\ from[p] = head + 1
      BY <1>1, <2>1, PastRange DEF OneProcessInv, PopOwnership
    <3>2. QED
      BY <1>2, <3>1
  <2>2. CASE ppc[p] = "resend"
    BY <1>1, <2>2, PastRange DEF OneProcessInv, BatchShape
  <2>3. QED
    BY <1>1, <2>1, <2>2
<1>4. Past <= tail
  BY <1>2
<1>5. CASE ppc'[p] \in {"resend", "insert"}
  <2>1. Past' = Past
    BY <1>1, <1>3, <1>5, PastIs
  <2>2. QED
    BY <1>1, <1>2, <1>4, <2>1, LogStutters DEF OneProcessInv
<1>6. CASE ppc'[p] \in {"wait", "stopped"} /\ head' = head
  <2>1. Past' = head
    BY <1>6, PastIs
  <2>2. CASE Past = head
    BY <1>1, <1>2, <1>4, <2>1, <2>2, LogStutters DEF OneProcessInv
  <2>3. CASE Past # head
    <3>1. Past' \in Nat /\ Past < Past' /\ Past' <= tail
      BY <1>2, <2>1, <2>3
    <3>2. QED
      BY <1>1, <1>2, <3>1, LogSettles DEF OneProcessInv
  <2>4. QED
    BY <2>2, <2>3
<1>7. ppc'[p] \in {"resend", "insert"} \/ (ppc'[p] \in {"wait", "stopped"} /\ head' = head)
  BY TrimIs DEF OneProcessInv, TypeOK, AfterFlush
<1>8. QED
  BY <1>5, <1>6, <1>7

\* A committed insert whose reply was lost is not settled yet; any other way out
\* of the entry settles it, after the last one with all that was removed by now.
LEMMA EntryIsLogged ==
  ASSUME NEW p, Servers = {p}, OneProcessInv, TypeOK', Insert(p) \/ DeadLetter(p)
  PROVE  Log!Settle \/ UNCHANGED Log!vars
<1>1. ppc[p] \in {"insert", "dlq"} /\ UNCHANGED <<head, tail, upto>> /\ p \in Servers
  BY DEF Insert, DeadLetter, queueVars
<1>2. /\ Past \in Nat /\ Past = cur[p] - 1 /\ Past < head /\ head <= tail
      /\ head \in Nat /\ tail \in Nat /\ upto[p] \in Nat
      /\ cur[p] \in EventIds /\ cur[p] <= upto[p] /\ upto[p] <= head
      /\ \A n \in 1..Past : n \in EventIds /\ n # cur[p]
  BY <1>1, PastRange DEF EventIds
<1>3. \A n \in 1..Past : rows'[n] > 0 <=> rows[n] > 0
  <2>1. rows' = rows \/ rows' = [rows EXCEPT ![cur[p]] = @ + 1]
    BY DEF Insert, DeadLetter
  <2>2. QED
    BY <1>2, <2>1 DEF OneProcessInv, TypeOK
<1>4. CASE ppc' = [ppc EXCEPT ![p] = "dlq"] /\ UNCHANGED <<cur, dlq>>
  <2>1. ppc'[p] = "dlq" /\ cur'[p] = cur[p]
    BY <1>1, <1>4 DEF OneProcessInv, TypeOK
  <2>2. Past' = Past
    BY <1>2, <2>1, PastIs
  <2>3. QED
    BY <1>1, <1>2, <1>3, <1>4, <2>2, LogStutters DEF OneProcessInv
<1>5. CASE NextEntry(p) /\ (dlq' = dlq \/ dlq' = dlq \cup {cur[p]})
  <2>1. /\ ppc'[p] \in {"insert", "read", "wait", "stopped"} /\ cur'[p] = cur[p] + 1
        /\ ppc'[p] = "insert" <=> cur[p] < upto[p]
    BY <1>1, <1>5, AfterEntry DEF OneProcessInv
  <2>2. Past' = cur[p] \/ Past' = head
    BY <1>1, <1>2, <2>1, PastIs DEF EventIds
  <2>3. Past' \in Nat /\ Past < Past' /\ Past' <= tail /\ cur[p] \in (Past + 1)..Past'
    BY <1>2, <2>2 DEF EventIds
  <2>4. dlq \subseteq dlq' /\ dlq' \ dlq \subseteq (Past + 1)..Past'
    BY <1>5, <2>3
  <2>5. QED
    BY <1>1, <1>2, <1>3, <2>3, <2>4, LogSettles DEF OneProcessInv
<1>6. QED
  BY <1>4, <1>5 DEF Insert, DeadLetter

\* Dying settles what is in hand; the rest of the lifecycle settles nothing.
LEMMA LifecycleIsLogged ==
  ASSUME NEW p, Servers = {p}, OneProcessInv, Lifecycle(p)
  PROVE  Log!Settle \/ UNCHANGED Log!vars
<1>1. UNCHANGED <<head, tail, cur, rows, dlq>>
  BY DEF Lifecycle, Boot, Signal, StopListening, Drained, CloseRedis, Live, Exit, Forced,
         Crash, Die, queueVars, procVars, fateVars
<1>2. ppc'[p] = ppc[p] \/ ppc'[p] \in {"wait", "stopped"}
  BY DEF Lifecycle, Boot, Signal, StopListening, Drained, CloseRedis, Live, Exit, Forced,
         Crash, Die, procVars, OneProcessInv, TypeOK
<1>3. /\ Past \in Nat /\ Past <= head /\ head <= tail /\ head \in Nat /\ tail \in Nat
      /\ \A n \in 1..Past : n \in EventIds
  BY PastRange
<1>4. Past' = Past \/ Past' = head
  BY <1>1, <1>2, PastIs
<1>5. CASE Past' = Past
  BY <1>1, <1>3, <1>5, LogStutters DEF OneProcessInv
<1>6. CASE Past' = head /\ Past # head
  <2>1. Past' \in Nat /\ Past < Past' /\ Past' <= tail
    BY <1>3, <1>6
  <2>2. QED
    BY <1>1, <1>3, <2>1, LogSettles DEF OneProcessInv
<1>7. QED
  BY <1>4, <1>5, <1>6

\* One process, with its faults, crashes and restarts, settles events in the
\* order of their arrival and each once, whatever the batch size and the limit.
THEOREM PipelineImplementsLog ==
  ASSUME NEW p, Servers = {p}
  PROVE  Spec => ImplementsLog
<1>1. Init => Log!Init
  <2> SUFFICES ASSUME Init PROVE Log!Init
    OBVIOUS
  <2>1. Past = 0
    BY PastIs DEF Init
  <2>2. {n \in 1..Past : rows[n] > 0} = {}
    BY <2>1
  <2>3. QED
    BY <2>1, <2>2 DEF Init, Log!Init
<1>2. OneProcessInv /\ [Next]_vars => [Log!Next]_Log!vars
  <2> SUFFICES ASSUME OneProcessInv, [Next]_vars PROVE Log!Next \/ UNCHANGED Log!vars
    OBVIOUS
  <2>1. TypeOK'
    BY TypeStep DEF OneProcessInv
  <2>2. CASE UNCHANGED <<head, tail, cur, rows, dlq, ppc>>
    <3>1. Past' = Past
      BY <2>2, PastIs
    <3>2. QED
      BY <2>2, <3>1 DEF Log!vars
  <2>3. ASSUME NEW h \in Handlers, Request(h) PROVE Log!Next \/ UNCHANGED Log!vars
    BY <2>3, RequestIsLogged DEF Log!Next
  <2>4. CASE Tick(p) \/ CtxDone(p) \/ LRange(p)
    <3>1. /\ UNCHANGED <<head, tail, cur, rows, dlq>>
          /\ ppc[p] \in {"wait", "read"} /\ ppc'[p] \notin {"resend", "insert", "dlq"}
      BY <2>4 DEF Tick, CtxDone, LRange, AfterFlush, queueVars, fateVars, OneProcessInv, TypeOK
    <3>2. Past' = Past
      BY <3>1, PastIs
    <3>3. QED
      BY <3>1, <3>2 DEF Log!vars
  <2>5. CASE LTrim(p)
    BY <2>5, TrimIsLogged DEF Log!Next
  <2>6. CASE Insert(p) \/ DeadLetter(p)
    BY <2>1, <2>6, EntryIsLogged DEF Log!Next
  <2>7. CASE Lifecycle(p)
    BY <2>7, LifecycleIsLogged DEF Log!Next
  <2>8. QED
    BY <2>2, <2>3, <2>4, <2>5, <2>6, <2>7
       DEF Next, Processor, vars, queueVars, procVars, fateVars
<1>3. QED
  BY <1>1, <1>2, OneProcessInvariant, PTL DEF Spec, ImplementsLog, Log!Spec

----------------------------------------------------------------------------
(* What a fault or a stop can cost                                           *)

\* The entries in the processor's hands, and what the process can still lose
\* without a further fault: once it is cancelled the batch in hand and the one
\* its final flush pops, once the connections are closed too what it holds.
\* An LTRIM to be sent again is a batch to lose for which a fault has paid.
Held(p) == IF ppc[p] \in {"resend", "insert", "dlq"} THEN upto[p] - cur[p] + 1 ELSE 0
Credit(p) == IF ppc[p] = "resend" THEN BatchSize ELSE 0
Owed(p) ==
  Credit(p) + IF srv[p] \in {"down", "up"} THEN 0
              ELSE IF ~final[p] THEN BatchSize + Held(p)
              ELSE IF srv[p] = "closed" THEN Held(p)
              ELSE BatchSize

BatchFits(p) ==
  ppc[p] \in {"trim", "resend", "insert", "dlq"} => upto[p] - from[p] + 1 <= BatchSize

Budget == BatchSize * (faults + 2 * Stops)

LossInv(p) == BatchFits(p) /\ Cardinality(lost) + Owed(p) <= Budget

LEMMA LostCount == TypeOK => IsFiniteSet(lost) /\ Cardinality(lost) \in Nat
<1> SUFFICES ASSUME TypeOK PROVE IsFiniteSet(lost) /\ Cardinality(lost) \in Nat
  OBVIOUS
<1>1. IsFiniteSet(EventIds) /\ lost \subseteq EventIds
  BY FS_Interval, BoundsAssumption DEF EventIds, TypeOK
<1>2. QED
  BY <1>1, FS_Subset, FS_CardinalityType

\* Giving up entries of an interval costs no more than its length.
LEMMA GiveUpCount ==
  ASSUME TypeOK, NEW a \in Int, NEW b \in Int, a <= b + 1,
         NEW entries, entries \subseteq a..b, GiveUp(entries)
  PROVE  Cardinality(lost') \in Nat /\ Cardinality(lost') <= Cardinality(lost) + (b - a + 1)
<1> DEFINE more == {n \in entries : rows[n] = 0}
<1>1. IsFiniteSet(a..b) /\ Cardinality(a..b) = b - a + 1
  <2>1. Cardinality(a..b) = IF a > b THEN 0 ELSE b - a + 1
    BY FS_Interval
  <2>2. QED
    BY <2>1, FS_Interval
<1>2. IsFiniteSet(more) /\ Cardinality(more) <= b - a + 1 /\ Cardinality(more) \in Nat
  BY <1>1, FS_Subset, FS_CardinalityType
<1>3. lost' = lost \cup more
  BY DEF GiveUp
<1> HIDE DEF more
<1>4. IsFiniteSet(lost) /\ Cardinality(lost) \in Nat
  BY LostCount
<1>5. /\ IsFiniteSet(lost \cup more) /\ Cardinality(lost \cap more) \in Nat
      /\ Cardinality(lost \cup more)
           = Cardinality(lost) + Cardinality(more) - Cardinality(lost \cap more)
  <2>1. IsFiniteSet(lost \cap more)
    BY <1>4, FS_Intersection
  <2>2. QED
    BY <1>2, <1>4, <2>1, FS_Union, FS_CardinalityType
<1>6. Cardinality(lost \cup more) \in Nat
  BY <1>5, FS_CardinalityType
<1>7. QED
  BY <1>2, <1>3, <1>4, <1>5, <1>6

\* One process: the stops are the boots, but for the one that is up.
LEMMA StopsAre ==
  ASSUME NEW p, Servers = {p}
  PROVE  /\ Stops = boots - (IF srv[p] = "up" THEN 1 ELSE 0)
         /\ Stops' = boots' - (IF srv'[p] = "up" THEN 1 ELSE 0)
<1>0. Cardinality({p}) = 1 /\ Cardinality({}) = 0
  BY FS_Singleton, FS_EmptySet
<1>1. CASE srv[p] = "up"
  <2>1. {s \in Servers : srv[s] = "up"} = {p}
    BY <1>1
  <2>2. QED
    BY <1>0, <1>1, <2>1 DEF Stops
<1>2. CASE srv[p] # "up"
  <2>1. {s \in Servers : srv[s] = "up"} = {}
    BY <1>2
  <2>2. QED
    BY <1>0, <1>2, <2>1 DEF Stops
<1>3. Stops = boots - (IF srv[p] = "up" THEN 1 ELSE 0)
  BY <1>1, <1>2
<1>4. CASE srv'[p] = "up"
  <2>1. {s \in Servers : srv'[s] = "up"} = {p}
    BY <1>4
  <2>2. QED
    BY <1>0, <1>3, <1>4, <2>1 DEF Stops
<1>5. CASE srv'[p] # "up"
  <2>1. {s \in Servers : srv'[s] = "up"} = {}
    BY <1>5
  <2>2. QED
    BY <1>0, <1>3, <1>5, <2>1 DEF Stops
<1>6. QED
  BY <1>3, <1>4, <1>5

\* Every fault adds a batch to the budget and every stop two.
LEMMA BudgetGrows ==
  ASSUME TypeOK, TypeOK', Stops \in Int, Stops' \in Int,
         NEW k \in {0, 1, 2, 3}, faults' + 2 * Stops' = faults + 2 * Stops + k
  PROVE  Budget \in Int /\ Budget' = Budget + BatchSize * k
<1>1. BatchSize \in Int /\ faults \in Int /\ faults' \in Int
  BY BatchAssumption DEF TypeOK
<1>2. ASSUME NEW x \in Int, NEW y \in Int PROVE BatchSize * (x + y)
                                              = BatchSize * x + BatchSize * y
  BY <1>1, <1>2
<1>3. BatchSize * ((faults + 2 * Stops) + k)
        = BatchSize * (faults + 2 * Stops) + BatchSize * k
  BY <1>1, <1>2
<1>4. Budget' = BatchSize * (faults' + 2 * Stops')
  BY DEF Budget
<1>5. faults' + 2 * Stops' = (faults + 2 * Stops) + k
  OBVIOUS
<1>6. Budget' = Budget + BatchSize * k
  BY <1>3, <1>4, <1>5 DEF Budget
<1>7. Budget \in Int
  BY <1>1 DEF Budget
<1>8. QED
  BY <1>6, <1>7

LEMMA HeldRange ==
  ASSUME NEW p, Servers = {p}, OneProcessInv, LossInv(p)
  PROVE  /\ Held(p) \in 0..BatchSize
         /\ InHand(p) \subseteq EventIds
         /\ ppc[p] \in {"resend", "insert", "dlq"} =>
              /\ cur[p] \in Nat /\ upto[p] \in Nat /\ cur[p] <= upto[p]
              /\ InHand(p) = cur[p]..upto[p] /\ Held(p) = upto[p] - cur[p] + 1
         /\ ppc[p] \notin {"resend", "insert", "dlq"} => InHand(p) = {} /\ Held(p) = 0
<1>1. CASE ppc[p] \in {"resend", "insert", "dlq"}
  <2>1. /\ from[p] \in Nat /\ upto[p] \in Nat /\ cur[p] \in Nat /\ cur[p] \in EventIds
        /\ cur[p] <= upto[p]
    BY <1>1, InBatch DEF OneProcessInv
  <2>2. from[p] <= cur[p] /\ upto[p] - from[p] + 1 <= BatchSize /\ upto[p] \in 0..MaxEvents
    BY <1>1 DEF OneProcessInv, BatchShape, LossInv, BatchFits, TypeOK
  <2>3. Held(p) = upto[p] - cur[p] + 1 /\ InHand(p) = cur[p]..upto[p]
    BY <1>1 DEF Held, InHand
  <2>4. Held(p) \in 0..BatchSize
    BY <2>1, <2>2, <2>3, BatchAssumption
  <2>5. cur[p]..upto[p] \subseteq EventIds
    BY <2>1, <2>2, BoundsAssumption DEF EventIds
  <2>6. QED
    BY <1>1, <2>1, <2>3, <2>4, <2>5
<1>2. CASE ppc[p] \notin {"resend", "insert", "dlq"}
  BY <1>2, BatchAssumption DEF Held, InHand
<1>3. QED
  BY <1>1, <1>2

\* Giving up what is in hand costs what is held.
LEMMA HandGivenUp ==
  ASSUME NEW p, Servers = {p}, OneProcessInv, LossInv(p), GiveUp(InHand(p))
  PROVE  Cardinality(lost') <= Cardinality(lost) + Held(p)
<1>1. CASE ppc[p] \in {"resend", "insert", "dlq"}
  <2>1. /\ cur[p] \in Int /\ upto[p] \in Int /\ cur[p] <= upto[p] + 1
        /\ InHand(p) \subseteq cur[p]..upto[p] /\ Held(p) = upto[p] - cur[p] + 1
    BY <1>1, HeldRange
  <2>2. Cardinality(lost') <= Cardinality(lost) + (upto[p] - cur[p] + 1)
    BY <2>1, GiveUpCount DEF OneProcessInv
  <2>3. QED
    BY <2>1, <2>2
<1>2. CASE ppc[p] \notin {"resend", "insert", "dlq"}
  <2>1. InHand(p) = {} /\ Held(p) = 0
    BY <1>2, HeldRange
  <2>2. lost' = lost
    BY <2>1 DEF GiveUp
  <2>3. Cardinality(lost) \in Nat
    BY LostCount DEF OneProcessInv
  <2>4. QED
    BY <2>1, <2>2, <2>3
<1>3. QED
  BY <1>1, <1>2

LEMMA StopsAreInt ==
  ASSUME NEW p, Servers = {p}, boots \in Nat, boots' \in Nat
  PROVE  Stops \in Int /\ Stops' \in Int
  BY StopsAre

\* Where nothing is given up, at most a fault or a stop is added and no more is
\* owed than that pays for, the bound is kept.
LEMMA LossPaid ==
  ASSUME NEW p, Servers = {p}, OneProcessInv, TypeOK', LossInv(p), BatchFits(p)',
         NEW k \in {0, 1, 2, 3}, faults' + 2 * Stops' = faults + 2 * Stops + k,
         NEW cost \in Nat, Cardinality(lost') <= Cardinality(lost) + cost,
         Owed(p) \in Nat, Owed(p)' \in Nat,
         cost + Owed(p)' <= Owed(p) + BatchSize * k
  PROVE  LossInv(p)'
<1>1. /\ Cardinality(lost) \in Nat /\ Cardinality(lost') \in Nat
      /\ faults \in Nat /\ boots \in Nat /\ faults' \in Nat /\ boots' \in Nat
      /\ BatchSize \in Nat
  <2>1. Cardinality(lost) \in Nat
    BY LostCount DEF OneProcessInv
  <2>2. IsFiniteSet(EventIds)
    BY FS_Interval, BoundsAssumption DEF EventIds
  <2>0. lost' \subseteq EventIds
    BY DEF TypeOK
  <2>3. Cardinality(lost') \in Nat
    BY <2>0, <2>2, FS_Subset, FS_CardinalityType
  <2>4. QED
    BY <2>1, <2>3, BatchAssumption, BoundsAssumption DEF OneProcessInv, TypeOK
<1>2. Stops \in Int /\ Stops' \in Int
  BY <1>1, StopsAreInt
<1>3. Budget \in Int /\ Budget' = Budget + BatchSize * k
  BY <1>2, BudgetGrows DEF OneProcessInv
<1>4. Cardinality(lost) + Owed(p) <= Budget
  BY DEF LossInv
<1> DEFINE grant == BatchSize * k
<1>5. grant \in Int
  BY <1>1
<1> HIDE DEF grant
<1>6. Cardinality(lost') + Owed(p)' <= Budget'
  <2>1. cost + Owed(p)' <= Owed(p) + grant /\ Budget' = Budget + grant
    BY <1>3 DEF grant
  <2>2. QED
    BY <1>1, <1>3, <1>4, <1>5, <2>1
<1>7. QED
  BY <1>6 DEF LossInv

LEMMA OwedRange ==
  ASSUME NEW p, Servers = {p}, OneProcessInv, LossInv(p)
  PROVE  /\ Owed(p) \in Nat /\ BatchSize \in Nat
         /\ Held(p) \in 0..BatchSize
         /\ Owed(p) <= 3 * BatchSize
BY HeldRange, BatchAssumption DEF Owed, Credit

\* Steps that give nothing up and leave what is owed.
LEMMA QuietSteps ==
  ASSUME NEW p, Servers = {p}, OneProcessInv, TypeOK', LossInv(p),
         lost' = lost, Owed(p)' \in Nat, Owed(p)' <= Owed(p), BatchFits(p)',
         faults' = faults \/ faults' = faults + 1,
         Stops' = Stops
  PROVE  LossInv(p)'
<1>1. Owed(p) \in Nat /\ BatchSize \in Nat /\ Cardinality(lost) \in Nat
  BY OwedRange, LostCount DEF OneProcessInv
<1>2. boots \in Nat /\ faults \in Nat
  BY BoundsAssumption DEF OneProcessInv, TypeOK
<1>3. Stops \in Int
  BY <1>2, StopsAre
<1>4. CASE faults' = faults
  <2>1. faults' + 2 * Stops' = faults + 2 * Stops + 0
    BY <1>2, <1>3, <1>4
  <2>2. 0 + Owed(p)' <= Owed(p) + BatchSize * 0
    BY <1>1
  <2>3. QED
    BY <1>1, <2>1, <2>2, LossPaid
<1>5. CASE faults' = faults + 1
  <2>1. faults' + 2 * Stops' = faults + 2 * Stops + 1
    BY <1>2, <1>3, <1>5
  <2>2. 0 + Owed(p)' <= Owed(p) + BatchSize * 1
    BY <1>1
  <2>3. QED
    BY <1>1, <2>1, <2>2, LossPaid
<1>6. QED
  BY <1>4, <1>5

LEMMA ReadingLoses ==
  ASSUME NEW p, Servers = {p}, OneProcessInv, TypeOK', LossInv(p),
         Tick(p) \/ CtxDone(p) \/ LRange(p)
  PROVE  LossInv(p)'
<1>1. /\ UNCHANGED <<srv, head, tail, lost, boots>> /\ p \in Servers
      /\ faults' = faults \/ faults' = faults + 1
      /\ ppc[p] \in {"wait", "read"} /\ ppc'[p] \notin {"resend", "insert", "dlq"}
      /\ final'[p] = final[p] \/ (final'[p] = TRUE /\ srv[p] \notin {"down", "up"})
  BY DEF Tick, CtxDone, LRange, FailsWhen, Fault, AfterFlush, queueVars, fateVars,
         OneProcessInv, TypeOK
<1>2. Held(p) = 0 /\ Held(p)' = 0
  BY <1>1 DEF Held
<1>3. Owed(p)' \in Nat /\ Owed(p)' <= Owed(p)
  BY <1>1, <1>2, BatchAssumption DEF Owed, Credit
<1>4. Stops' = Stops
  BY <1>1 DEF Stops
<1>5. BatchFits(p)'
  <2>1. CASE ppc'[p] = "trim"
    <3>1. from'[p] = head + 1 /\ upto'[p] = LastRead
      BY <1>1, <2>1 DEF Tick, CtxDone, LRange, AfterFlush, OneProcessInv, TypeOK
    <3>2. head \in Int /\ tail \in Int
      BY DEF OneProcessInv, TypeOK
    <3>3. LastRead - (head + 1) + 1 <= BatchSize
      BY <3>2, BatchAssumption DEF LastRead, Depth
    <3>4. QED
      BY <3>1, <3>3 DEF BatchFits
  <2>2. QED
    BY <1>1, <2>1 DEF BatchFits
<1>6. QED
  BY <1>1, <1>3, <1>4, <1>5, QuietSteps

LEMMA TrimLoses ==
  ASSUME NEW p, Servers = {p}, OneProcessInv, TypeOK', LossInv(p), LTrim(p)
  PROVE  LossInv(p)'
<1>1. /\ ppc[p] \in {"trim", "resend"} /\ p \in Servers
      /\ UNCHANGED <<srv, tail, final, from, upto, boots>>
      /\ cur'[p] = from[p]
  BY TrimIs DEF OneProcessInv, TypeOK
<1>2. /\ head \in Nat /\ tail \in Nat /\ from[p] \in Nat /\ upto[p] \in Nat
      /\ from[p] <= upto[p] /\ upto[p] - from[p] + 1 <= BatchSize /\ BatchSize \in Nat
  BY <1>1, BatchAssumption DEF OneProcessInv, TypeOK, BatchShape, LossInv, BatchFits
<1>3. /\ Stops' = Stops /\ Stops \in Int /\ faults \in Nat /\ Cardinality(lost) \in Nat
      /\ Owed(p) \in Nat /\ Held(p) \in 0..BatchSize
  BY <1>1, OwedRange, LostCount, StopsAre, BoundsAssumption DEF OneProcessInv, TypeOK
<1>4. BatchFits(p)'
  BY <1>1, <1>2 DEF BatchFits
<1>5. CASE /\ RedisUp(p) /\ head' = Trimmed(p)
           /\ GiveUp(((head + 1)..head') \ Batch(p))
           /\ \/ ppc'[p] = "insert" /\ UNCHANGED faults
              \/ ppc'[p] = "resend" /\ Fault
  <2>1. ~Cancelled(p) /\ srv[p] # "closed"
    BY <1>5 DEF RedisUp
  <2>2. Owed(p)' - Credit(p)' = Owed(p) - Credit(p) /\ Credit(p) \in Nat /\ Credit(p)' \in Nat
    BY <1>1, <1>2, <1>3, <2>1 DEF Owed, Credit, Cancelled
  <2>3. Owed(p)' \in Nat /\ Owed(p)' + Credit(p) = Owed(p) + Credit(p)'
    BY <1>1, <1>2, <2>1 DEF Owed, Credit, Cancelled
  <2>4. Cardinality(lost') <= Cardinality(lost) + Credit(p)
    <3>1. CASE ppc[p] = "trim"
      <4>1. from[p] = head + 1 /\ upto[p] <= tail
        BY <1>1, <3>1 DEF OneProcessInv, PopOwnership
      <4>2. head' = upto[p]
        BY <1>2, <1>5, <4>1 DEF Trimmed
      <4>3. ((head + 1)..head') \ Batch(p) = {}
        BY <4>1, <4>2 DEF Batch
      <4>4. lost' = lost
        BY <1>5, <4>3 DEF GiveUp
      <4>5. QED
        BY <1>3, <2>2, <4>4
    <3>2. CASE ppc[p] = "resend"
      <4> DEFINE end == head + BatchSize
      <4>1. head' <= end /\ head' \in Int
        BY <1>2, <1>5 DEF Trimmed
      <4>2. end \in Int /\ head + 1 <= end + 1 /\ end - (head + 1) + 1 = BatchSize
        BY <1>2
      <4> HIDE DEF end
      <4>3. ((head + 1)..head') \ Batch(p) \subseteq (head + 1)..end
        BY <1>2, <4>1, <4>2
      <4>4. head + 1 \in Int
        BY <1>2
      <4>5. Cardinality(lost') <= Cardinality(lost) + (end - (head + 1) + 1)
        BY <1>5, <4>2, <4>3, <4>4, GiveUpCount DEF OneProcessInv
      <4>6. QED
        BY <3>2, <4>2, <4>5 DEF Credit
    <3>3. QED
      BY <1>1, <3>1, <3>2
  <2>5. CASE ppc'[p] = "insert" /\ UNCHANGED faults
    <3>1. Credit(p)' = 0
      BY <2>5 DEF Credit
    <3>2. Credit(p) + Owed(p)' <= Owed(p) + BatchSize * 0
      BY <1>2, <1>3, <2>2, <2>3, <3>1
    <3>3. faults' + 2 * Stops' = faults + 2 * Stops + 0
      BY <1>3, <2>5
    <3>4. QED
      BY <1>3, <1>4, <2>2, <2>3, <2>4, <3>2, <3>3, LossPaid
  <2>6. CASE ppc'[p] = "resend" /\ Fault
    <3>1. Credit(p)' = BatchSize
      BY <2>6 DEF Credit
    <3>2. Credit(p) + Owed(p)' <= Owed(p) + BatchSize * 1
      BY <1>2, <1>3, <2>2, <2>3, <3>1
    <3>3. faults' + 2 * Stops' = faults + 2 * Stops + 1
      BY <1>3, <2>6 DEF Fault
    <3>4. QED
      BY <1>3, <1>4, <2>2, <2>3, <2>4, <3>2, <3>3, LossPaid
  <2>7. QED
    BY <1>5, <2>5, <2>6
<1>6. CASE /\ GiveUp(InHand(p)) /\ ppc'[p] \in {"wait", "stopped"}
           /\ UNCHANGED faults \/ Fault
  <2>1. Held(p)' = 0 /\ Credit(p)' = 0
    BY <1>6 DEF Held, Credit
  <2>2. Owed(p)' \in Nat /\ Owed(p)' + Held(p) <= Owed(p)
    <3>1. CASE ppc[p] = "trim"
      BY <1>1, <1>2, <1>3, <2>1, <3>1 DEF Owed, Credit, Held
    <3>2. CASE ppc[p] = "resend"
      <4>1. Credit(p) = BatchSize
        BY <3>2 DEF Credit
      <4>2. QED
        BY <1>1, <1>2, <1>3, <2>1, <4>1 DEF Owed
    <3>3. QED
      BY <1>1, <3>1, <3>2
  <2>3. Cardinality(lost') <= Cardinality(lost) + Held(p)
    BY <1>1, <1>6, HandGivenUp
  <2>4. CASE UNCHANGED faults
    <3>1. faults' + 2 * Stops' = faults + 2 * Stops + 0
      BY <1>3, <2>4
    <3>2. Held(p) + Owed(p)' <= Owed(p) + BatchSize * 0
      BY <1>2, <1>3, <2>2
    <3>3. QED
      BY <1>3, <1>4, <2>2, <2>3, <3>1, <3>2, LossPaid
  <2>5. CASE Fault
    <3>1. faults' + 2 * Stops' = faults + 2 * Stops + 1
      BY <1>3, <2>5 DEF Fault
    <3>2. Held(p) + Owed(p)' <= Owed(p) + BatchSize * 1
      BY <1>2, <1>3, <2>2
    <3>3. QED
      BY <1>3, <1>4, <2>2, <2>3, <3>1, <3>2, LossPaid
  <2>6. QED
    BY <1>6, <2>4, <2>5
<1>7. QED
  <2>1. \/ /\ RedisUp(p) /\ head' = Trimmed(p)
           /\ GiveUp(((head + 1)..head') \ Batch(p))
           /\ \/ ppc' = [ppc EXCEPT ![p] = "insert"] /\ UNCHANGED faults
              \/ ppc' = [ppc EXCEPT ![p] = "resend"] /\ Fault
        \/ /\ GiveUp(InHand(p)) /\ ppc' = [ppc EXCEPT ![p] = AfterFlush(p)]
           /\ UNCHANGED faults \/ Fault
    BY DEF LTrim, AfterTrim, FailsWhen
  <2>2. ppc \in [Servers -> {"wait", "read", "trim", "resend", "insert", "dlq", "stopped"}]
    BY DEF OneProcessInv, TypeOK
  <2>3. AfterFlush(p) \in {"wait", "stopped"}
    BY DEF AfterFlush
  <2>4. QED
    BY <1>1, <1>5, <1>6, <2>1, <2>2, <2>3

LEMMA EntryLoses ==
  ASSUME NEW p, Servers = {p}, OneProcessInv, TypeOK', LossInv(p), Insert(p) \/ DeadLetter(p)
  PROVE  LossInv(p)'
<1>1. /\ ppc[p] \in {"insert", "dlq"} /\ UNCHANGED <<srv, final, from, upto, boots>>
      /\ faults' = faults \/ faults' = faults + 1
      /\ p \in Servers
  BY DEF Insert, DeadLetter, FailsWhen, Fault
<1>2. /\ cur[p] \in Nat /\ upto[p] \in Nat /\ cur[p] <= upto[p]
      /\ Held(p) = upto[p] - cur[p] + 1 /\ Held(p) \in 0..BatchSize
      /\ Owed(p) \in Nat /\ BatchSize \in Nat /\ BatchSize > 0
      /\ cur[p] \in EventIds
  BY <1>1, HeldRange, OwedRange, BatchAssumption, InBatch DEF OneProcessInv
<1>3. BatchFits(p)'
  BY <1>1 DEF LossInv, BatchFits
<1>4. /\ Stops' = Stops /\ Stops \in Int /\ faults \in Nat /\ Cardinality(lost) \in Nat
  BY <1>1, LostCount, StopsAre, BoundsAssumption DEF OneProcessInv, TypeOK
<1>5. CASE ppc' = [ppc EXCEPT ![p] = "dlq"] /\ UNCHANGED <<cur, lost>>
  <2>1. Held(p)' = Held(p)
    BY <1>1, <1>5 DEF Held, OneProcessInv, TypeOK
  <2>2. Credit(p) = 0 /\ Credit(p)' = 0
    <3>1. ppc'[p] = "dlq"
      BY <1>1, <1>5 DEF OneProcessInv, TypeOK
    <3>2. QED
      BY <1>1, <3>1 DEF Credit
  <2>3. Owed(p)' = Owed(p)
    BY <1>1, <2>1, <2>2 DEF Owed
  <2>4. QED
    BY <1>1, <1>2, <1>3, <1>4, <1>5, <2>3, QuietSteps
<1>6. ASSUME NextEntry(p) PROVE Held(p)' = Held(p) - 1
  <2>1. /\ ppc'[p] \in {"insert", "read", "wait", "stopped"} /\ cur'[p] = cur[p] + 1
        /\ ppc'[p] = "insert" <=> cur[p] < upto[p]
    BY <1>1, <1>6, AfterEntry DEF OneProcessInv
  <2>2. CASE cur[p] < upto[p]
    BY <1>1, <1>2, <2>1, <2>2 DEF Held
  <2>3. CASE cur[p] = upto[p]
    <3>1. Held(p)' = 0
      BY <1>2, <2>1, <2>3 DEF Held
    <3>2. QED
      BY <1>2, <2>3, <3>1
  <2>4. cur[p] < upto[p] \/ cur[p] = upto[p]
    BY <1>2
  <2>5. QED
    BY <2>2, <2>3, <2>4
<1>6a. ASSUME NextEntry(p) PROVE Credit(p) = 0 /\ Credit(p)' = 0
  <2>1. ppc'[p] \in {"insert", "read", "wait", "stopped"}
    BY <1>1, <1>6a, AfterEntry DEF OneProcessInv
  <2>2. QED
    BY <1>1, <2>1 DEF Credit
<1>7. ASSUME NextEntry(p) PROVE Owed(p)' \in Nat /\ Owed(p)' <= Owed(p)
  BY <1>1, <1>2, <1>6, <1>6a, <1>7 DEF Owed
<1>8. CASE NextEntry(p) /\ lost' = lost
  BY <1>1, <1>3, <1>4, <1>7, <1>8, QuietSteps
<1>9. CASE NextEntry(p) /\ FailsWhen(RedisUp(p)) /\ GiveUp({cur[p]})
  <2>1. Cardinality(lost') <= Cardinality(lost) + 1
    <3>1. {cur[p]} \subseteq cur[p]..cur[p] /\ cur[p] - cur[p] + 1 = 1
      BY <1>2
    <3>2. QED
      BY <1>2, <1>9, <3>1, GiveUpCount DEF OneProcessInv
  <2>2. CASE RedisUp(p)
    <3>1. faults' + 2 * Stops' = faults + 2 * Stops + 1
      BY <1>4, <1>9, <2>2 DEF FailsWhen, Fault
    <3>2. 1 + Owed(p)' <= Owed(p) + BatchSize * 1
      BY <1>2, <1>7, <1>9
    <3>3. QED
      BY <1>2, <1>3, <1>7, <1>9, <2>1, <3>1, <3>2, LossPaid
  <2>3. CASE ~RedisUp(p)
    <3>1. srv[p] \notin {"down", "up"} /\ (~final[p] \/ srv[p] = "closed")
      BY <1>1, <2>3 DEF RedisUp, Cancelled, OneProcessInv, PopOwnership
    <3>2. 1 + Owed(p)' <= Owed(p) + BatchSize * 0
      BY <1>1, <1>2, <1>6, <1>6a, <1>9, <3>1 DEF Owed
    <3>3. faults' + 2 * Stops' = faults + 2 * Stops + 0
      BY <1>4, <1>9, <2>3 DEF FailsWhen
    <3>4. QED
      BY <1>2, <1>3, <1>7, <1>9, <2>1, <3>2, <3>3, LossPaid
  <2>4. QED
    BY <2>2, <2>3
<1>10. QED
  BY <1>5, <1>8, <1>9 DEF Insert, DeadLetter

\* A process that ends gives up what it holds and owes nothing more.
LEMMA DyingCosts ==
  ASSUME NEW p, Servers = {p}, OneProcessInv, TypeOK', LossInv(p), Die(p)
  PROVE  /\ Cardinality(lost') <= Cardinality(lost) + Held(p)
         /\ Owed(p)' = 0 /\ BatchFits(p)' /\ boots' = boots /\ srv'[p] = "down"
<1>1. /\ srv'[p] = "down" /\ ppc'[p] = "stopped" /\ boots' = boots
      /\ GiveUp(InHand(p))
  BY DEF Die, OneProcessInv, TypeOK
<1>2. Owed(p)' = 0 /\ BatchFits(p)'
  BY <1>1 DEF Owed, Credit, BatchFits
<1>3. QED
  BY <1>1, <1>2, HandGivenUp

LEMMA LifecycleLoses ==
  ASSUME NEW p, Servers = {p}, OneProcessInv, TypeOK', LossInv(p), Lifecycle(p)
  PROVE  LossInv(p)'
<1>1. /\ Owed(p) \in Nat /\ BatchSize \in Nat /\ Held(p) \in 0..BatchSize
      /\ Cardinality(lost) \in Nat /\ boots \in Nat /\ faults \in Nat
  BY OwedRange, LostCount, BoundsAssumption DEF OneProcessInv, TypeOK
<1>2. Stops \in Int
  BY <1>1, StopsAre
<1>3. CASE Boot(p)
  <2>1. /\ srv[p] = "down" /\ srv'[p] = "up" /\ ppc'[p] = "wait"
        /\ boots' = boots + 1 /\ faults' = faults /\ lost' = lost
    BY <1>3 DEF Boot, fateVars, OneProcessInv, TypeOK
  <2>2. Owed(p)' = 0 /\ BatchFits(p)'
    BY <2>1 DEF Owed, Credit, BatchFits
  <2>3. Stops' = boots' - 1 /\ Stops = boots
    BY <1>1, <2>1, StopsAre
  <2>4. Stops' = Stops
    BY <1>1, <2>1, <2>3
  <2>5. QED
    BY <1>1, <2>1, <2>2, <2>4, QuietSteps
<1>4. CASE Signal(p) \/ StopListening(p) \/ Drained(p) \/ CloseRedis(p)
  <2>1. /\ UNCHANGED <<ppc, final, from, upto, cur, lost, faults, boots>>
        /\ srv'[p] \notin {"up", "down"}
        /\ srv[p] # "down" /\ (srv[p] = "closed" => FALSE)
        /\ Signal(p) <=> srv[p] = "up"
    BY <1>4 DEF Signal, StopListening, Drained, CloseRedis, Live, procVars, fateVars,
                OneProcessInv, TypeOK
  <2>2. Held(p)' = Held(p) /\ BatchFits(p)'
    BY <2>1 DEF Held, LossInv, BatchFits
  <2>3. CASE srv[p] = "up"
    <3>1. Owed(p)' \in Nat /\ Owed(p)' <= Owed(p) + BatchSize * 2
      BY <1>1, <2>1, <2>2, <2>3 DEF Owed, Credit
    <3>2. Stops' = boots' /\ Stops = boots - 1
      BY <1>1, <2>1, <2>3, StopsAre
    <3>3. faults' + 2 * Stops' = faults + 2 * Stops + 2
      BY <1>1, <2>1, <3>2
    <3>4. Cardinality(lost') <= Cardinality(lost) + 0
      BY <1>1, <2>1
    <3>5. 0 + Owed(p)' <= Owed(p) + BatchSize * 2
      BY <1>1, <3>1
    <3>6. QED
      BY <1>1, <2>2, <3>1, <3>3, <3>4, <3>5, LossPaid
  <2>4. CASE srv[p] # "up"
    <3>1. Owed(p)' \in Nat /\ Owed(p)' <= Owed(p)
      BY <1>1, <2>1, <2>2, <2>4 DEF Owed, Credit
    <3>2. Stops' = Stops
      BY <1>1, <2>1, <2>4, StopsAre
    <3>3. QED
      BY <1>1, <2>1, <2>2, <3>1, <3>2, QuietSteps
  <2>5. QED
    BY <2>3, <2>4
<1>5. CASE Exit(p) \/ Forced(p)
  <2>1. Die(p) /\ faults' = faults /\ srv[p] \notin {"up", "down"}
    BY <1>5 DEF Exit, Forced
  <2>2. /\ Cardinality(lost') <= Cardinality(lost) + Held(p)
        /\ Owed(p)' = 0 /\ BatchFits(p)' /\ boots' = boots /\ srv'[p] = "down"
    BY <2>1, DyingCosts
  <2>3. Held(p) + Owed(p)' <= Owed(p) + BatchSize * 0
    BY <1>1, <2>1, <2>2 DEF Owed, Credit
  <2>4. Stops' = Stops
    BY <1>1, <2>1, <2>2, StopsAre
  <2>5. faults' + 2 * Stops' = faults + 2 * Stops + 0
    BY <1>1, <1>2, <2>1, <2>4
  <2>6. QED
    BY <1>1, <2>2, <2>3, <2>5, LossPaid
<1>6. CASE Crash(p)
  <2>1. Die(p) /\ faults' = faults + 1 /\ srv[p] # "down"
    BY <1>6 DEF Crash, Fault
  <2>2. /\ Cardinality(lost') <= Cardinality(lost) + Held(p)
        /\ Owed(p)' = 0 /\ BatchFits(p)' /\ boots' = boots /\ srv'[p] = "down"
    BY <2>1, DyingCosts
  <2>3. CASE srv[p] = "up"
    <3>1. Stops' = boots' /\ Stops = boots - 1
      BY <1>1, <2>2, <2>3, StopsAre
    <3>2. faults' + 2 * Stops' = faults + 2 * Stops + 3
      BY <1>1, <2>1, <2>2, <3>1
    <3>3. Held(p) + Owed(p)' <= Owed(p) + BatchSize * 3
      BY <1>1, <2>2
    <3>4. QED
      BY <1>1, <2>2, <3>2, <3>3, LossPaid
  <2>4. CASE srv[p] # "up"
    <3>1. Stops' = Stops
      BY <1>1, <2>2, <2>4, StopsAre
    <3>2. faults' + 2 * Stops' = faults + 2 * Stops + 1
      BY <1>1, <1>2, <2>1, <3>1
    <3>3. Held(p) + Owed(p)' <= Owed(p) + BatchSize * 1
      BY <1>1, <2>2
    <3>4. QED
      BY <1>1, <2>2, <3>2, <3>3, LossPaid
  <2>5. QED
    BY <2>3, <2>4
<1>7. QED
  BY <1>3, <1>4, <1>5, <1>6 DEF Lifecycle

LEMMA LossStep ==
  ASSUME NEW p, Servers = {p}, OneProcessInv, LossInv(p), [Next]_vars
  PROVE  LossInv(p)'
<1>1. TypeOK'
  BY TypeStep DEF OneProcessInv
<1>2. CASE UNCHANGED vars
  BY <1>2 DEF vars, queueVars, procVars, fateVars, LossInv, BatchFits, Owed, Credit, Held, Budget, Stops
<1>3. ASSUME NEW h \in Handlers, Request(h) PROVE LossInv(p)'
  <2>1. /\ UNCHANGED <<srv, ppc, final, from, upto, cur, lost, boots>>
        /\ faults' = faults \/ faults' = faults + 1
    BY <1>3 DEF Request, Accept, CheckDepth, Push, Fault, queueVars, procVars, fateVars
  <2>2. Owed(p)' = Owed(p) /\ BatchFits(p)' /\ Stops' = Stops
    BY <2>1 DEF Owed, Credit, Held, LossInv, BatchFits, Stops
  <2>3. Owed(p)' \in Nat /\ Owed(p)' <= Owed(p)
    BY <2>2, OwedRange
  <2>4. QED
    BY <1>1, <2>1, <2>2, <2>3, QuietSteps
<1>4. CASE Processor(p)
  BY <1>1, <1>4, ReadingLoses, TrimLoses, EntryLoses DEF Processor
<1>5. CASE Lifecycle(p)
  BY <1>1, <1>5, LifecycleLoses
<1>6. QED
  BY <1>2, <1>3, <1>4, <1>5 DEF Next

\* With one process the events given up number at most a batch for each fault
\* and two for each stop, however often the client library sends an LTRIM again:
\* every lost reply takes at most one batch with it, a crash takes the batch in
\* hand, a cancelled flush and the final one may each lose theirs.
THEOREM LossIsBounded ==
  ASSUME NEW p, Servers = {p}
  PROVE  Spec => []LossBound
<1>1. Init => LossInv(p)
  <2> SUFFICES ASSUME Init PROVE LossInv(p)
    OBVIOUS
  <2>1. /\ lost = {} /\ srv[p] = "down" /\ ppc[p] = "stopped" /\ boots = 0 /\ faults = 0
    BY DEF Init
  <2>2. Cardinality(lost) = 0 /\ Stops = 0 /\ Owed(p) = 0 /\ BatchSize \in Nat
    BY <2>1, StopsAre, FS_EmptySet, BatchAssumption DEF Owed, Credit
  <2>3. Budget = 0
    BY <2>1, <2>2 DEF Budget
  <2>4. QED
    BY <2>1, <2>2, <2>3 DEF LossInv, BatchFits
<1>2. OneProcessInv /\ LossInv(p) /\ [Next]_vars => LossInv(p)'
  BY LossStep
<1>3. OneProcessInv /\ LossInv(p) => LossBound
  <2> SUFFICES ASSUME OneProcessInv, LossInv(p) PROVE LossBound
    OBVIOUS
  <2>1. Owed(p) \in Nat /\ Cardinality(lost) \in Nat /\ BatchSize \in Nat
    BY OwedRange, LostCount DEF OneProcessInv
  <2>2. boots \in Nat /\ faults \in Nat
    BY BoundsAssumption DEF OneProcessInv, TypeOK
  <2>3. Stops \in Int
    BY <2>2, StopsAre
  <2>4. Budget \in Int
    BY <2>1, <2>2, <2>3 DEF Budget
  <2>5. Cardinality(lost) <= Budget
    BY <2>1, <2>4 DEF LossInv
  <2>6. QED
    BY <2>5 DEF LossBound, Budget
<1>4. QED
  BY <1>1, <1>2, <1>3, OneProcessInvariant, PTL DEF Spec
=============================================================================
