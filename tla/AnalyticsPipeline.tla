-------------------------- MODULE AnalyticsPipeline --------------------------
(****************************************************************************)
(* The analytics pipeline of internal/analytics and its lifecycle in        *)
(* cmd/server/main.go.  HTTP handlers push visitor events on the Redis list  *)
(* analytics:queue (service.go, Enqueue); one background goroutine per       *)
(* server process pops batches with LRANGE + LTRIM and inserts them one by   *)
(* one into Postgres, pushing a refused event on analytics:queue:dlq         *)
(* (processor.go).  All processes of a deployment share the list.            *)
(*                                                                          *)
(* The list is only pushed on the right (RPUSH) and only trimmed on the left *)
(* (LTRIM n -1), so its content is an interval of the pushes ever made: the  *)
(* entries head+1 .. tail, numbered in the order of their RPUSH.             *)
(*                                                                          *)
(* Events that Enqueue drops before it touches Redis (bots, bad session ids, *)
(* bodies that do not bind) change nothing and are stuttering steps here.    *)
(****************************************************************************)
EXTENDS Integers, FiniteSets

CONSTANTS
  Servers,      \* processes sharing one Redis and one Postgres
  Handlers,     \* concurrent analytics requests, at most this many at a time
  Host,         \* the process that serves each of them
  Limit,        \* redisQueueLimit (service.go:17)
  BatchSize,    \* batchSize (processor.go:14)
  MaxEvents,    \* bound: list entries ever pushed
  MaxFaults,    \* bound: failed commands, lost replies and crashes; it also
                \* bounds how often the client library sends a command again
  MaxBoots      \* bound: process starts

ASSUME HostAssumption   == Host \in [Handlers -> Servers]
ASSUME HandlersFinite   == IsFiniteSet(Handlers)
ASSUME LimitAssumption  == Limit \in Nat \ {0}
ASSUME BatchAssumption  == BatchSize \in Nat \ {0}
ASSUME BoundsAssumption == MaxEvents \in Nat /\ MaxFaults \in Nat /\ MaxBoots \in Nat

VARIABLES
  srv,      \* life of each process, see Lives
  hpc,      \* where each request stands in Enqueue
  head,     \* entries trimmed from the left of the list so far
  tail,     \* entries pushed on the right of the list so far
  ppc,      \* where each processor goroutine stands in Run and flush
  final,    \* its flush is the one after ctx.Done
  from,     \* first entry of its batch
  upto,     \* last entry of its batch
  cur,      \* the entry it is inserting
  rows,     \* rows of analytics_events made from each entry
  dlq,      \* entries on the dead letter list
  lost,     \* history: entries off the list that got neither row nor dead letter
  faults,   \* faults so far
  boots     \* process starts so far

queueVars == <<head, tail>>
procVars  == <<ppc, final, from, upto, cur>>
fateVars  == <<rows, dlq, lost>>
vars      == <<srv, hpc, queueVars, procVars, fateVars, faults, boots>>

EventIds == 1..MaxEvents

\* main.go: up until a signal; stopping after cancelProcessor; draining inside
\* e.Shutdown; closing once the deferred entClient.Close has closed the SQL
\* pool; closed once redis.Close has run too; down when the process is gone.
Lives == {"down", "up", "stopping", "draining", "closing", "closed"}

Depth == tail - head

AtStep(pc) == {h \in Handlers : hpc[h] = pc}
Busy == AtStep("check") \cup AtStep("push")
Pushing == AtStep("push")

----------------------------------------------------------------------------
TypeOK ==
  /\ srv \in [Servers -> Lives]
  /\ hpc \in [Handlers -> {"idle", "check", "push"}]
  /\ head \in 0..MaxEvents
  /\ tail \in 0..MaxEvents
  /\ ppc \in [Servers -> {"wait", "read", "trim", "resend", "insert", "dlq", "stopped"}]
  /\ final \in [Servers -> BOOLEAN]
  /\ from \in [Servers -> 1..(MaxEvents + 1)]
  /\ upto \in [Servers -> 0..MaxEvents]
  /\ cur \in [Servers -> 1..(MaxEvents + 1)]
  /\ rows \in [EventIds -> Nat]
  /\ dlq \in SUBSET EventIds
  /\ lost \in SUBSET EventIds
  /\ faults \in 0..MaxFaults
  /\ boots \in 0..MaxBoots

Init ==
  /\ srv = [s \in Servers |-> "down"]
  /\ hpc = [h \in Handlers |-> "idle"]
  /\ head = 0
  /\ tail = 0
  /\ ppc = [s \in Servers |-> "stopped"]
  /\ final = [s \in Servers |-> FALSE]
  /\ from = [s \in Servers |-> 1]
  /\ upto = [s \in Servers |-> 0]
  /\ cur = [s \in Servers |-> 1]
  /\ rows = [n \in EventIds |-> 0]
  /\ dlq = {}
  /\ lost = {}
  /\ faults = 0
  /\ boots = 0

----------------------------------------------------------------------------
(* Commands and their failures                                              *)

Fault == faults < MaxFaults /\ faults' = faults + 1

\* The ticker flush runs under processorCtx, which main cancels; the final
\* flush runs under context.Background().
Cancelled(s) == srv[s] # "up" /\ ~final[s]
RedisUp(s)   == ~Cancelled(s) /\ srv[s] # "closed"
PostgresUp(s) == ~Cancelled(s) /\ srv[s] \notin {"closing", "closed"}

\* A command fails for sure on a cancelled context or a closed client;
\* otherwise its failure is a fault.
FailsWhen(up) == IF up THEN Fault ELSE UNCHANGED faults

\* These entries leave the program's hands here.
GiveUp(entries) == lost' = lost \cup {n \in entries : rows[n] = 0}

----------------------------------------------------------------------------
(* Enqueue: requests are served concurrently, LLEN and RPUSH are two round   *)
(* trips.                                                                    *)

Accept(h) ==
  /\ srv[Host[h]] \in {"up", "stopping"}
  /\ hpc[h] = "idle"
  /\ tail + Cardinality(Busy) < MaxEvents
  /\ hpc' = [hpc EXCEPT ![h] = "check"]
  /\ UNCHANGED <<srv, queueVars, procVars, fateVars, faults, boots>>

\* Mutant: the limit compared with >.
FullOffByOne == Depth > Limit
Full == Depth >= Limit

\* length, _ := LLen: an error leaves length 0, which passes the check.
CheckDepth(h) ==
  /\ hpc[h] = "check"
  /\ \/ /\ Full
        /\ hpc' = [hpc EXCEPT ![h] = "idle"]
        /\ UNCHANGED faults
     \/ /\ ~Full
        /\ hpc' = [hpc EXCEPT ![h] = "push"]
        /\ UNCHANGED faults
     \/ /\ Fault
        /\ hpc' = [hpc EXCEPT ![h] = "push"]
  /\ UNCHANGED <<srv, queueVars, procVars, fateVars, boots>>

\* One execution of the command, or its failure.  A lost reply (a fault) makes
\* the client library send it again (go-redis retries by default): the request
\* stays at the push, and the copies may have other pushes between them.  The
\* handler answers 204 in every case.
Push(h) ==
  /\ hpc[h] = "push"
  /\ \/ /\ tail < MaxEvents
        /\ tail' = tail + 1
        /\ \/ hpc' = [hpc EXCEPT ![h] = "idle"] /\ UNCHANGED faults
           \/ tail + Cardinality(Busy) < MaxEvents /\ Fault /\ UNCHANGED hpc
     \/ /\ Fault
        /\ hpc' = [hpc EXCEPT ![h] = "idle"]
        /\ UNCHANGED tail
  /\ UNCHANGED <<srv, head, procVars, fateVars, boots>>

----------------------------------------------------------------------------
(* Run and flush: the processor goroutine                                    *)

Tick(s) ==
  /\ srv[s] # "down" /\ ppc[s] = "wait"
  /\ ppc' = [ppc EXCEPT ![s] = "read"]
  /\ UNCHANGED <<srv, hpc, queueVars, final, from, upto, cur, fateVars, faults, boots>>

CtxDone(s) ==
  /\ srv[s] \notin {"down", "up"} /\ ppc[s] = "wait"
  /\ ppc' = [ppc EXCEPT ![s] = "read"]
  /\ final' = [final EXCEPT ![s] = TRUE]
  /\ UNCHANGED <<srv, hpc, queueVars, from, upto, cur, fateVars, faults, boots>>

\* Where Run continues once flush returns.
\* Mutant: the ticker case returns as the ctx.Done case does.
AlwaysReturn(s) == "stopped"
AfterFlush(s) == IF final[s] THEN "stopped" ELSE "wait"

\* The last entry LRANGE 0 batchSize-1 returns.
LastRead == IF Depth < BatchSize THEN tail ELSE head + BatchSize

LRange(s) ==
  /\ ppc[s] = "read"
  /\ \/ /\ RedisUp(s) /\ Depth > 0
        /\ from' = [from EXCEPT ![s] = head + 1]
        /\ upto' = [upto EXCEPT ![s] = LastRead]
        /\ ppc' = [ppc EXCEPT ![s] = "trim"]
        /\ UNCHANGED faults
     \/ /\ RedisUp(s) /\ Depth = 0
        /\ ppc' = [ppc EXCEPT ![s] = AfterFlush(s)]
        /\ UNCHANGED <<from, upto, faults>>
     \/ /\ FailsWhen(RedisUp(s))
        /\ ppc' = [ppc EXCEPT ![s] = AfterFlush(s)]
        /\ UNCHANGED <<from, upto>>
  /\ UNCHANGED <<srv, hpc, queueVars, final, cur, fateVars, boots>>

Batch(s) == from[s]..upto[s]

\* LTRIM len(items) -1 removes that many entries from whatever the list holds
\* by now.
\* Mutant: LTRIM batchSize -1.
TrimmedByBatchSize(s) == IF head + BatchSize < tail THEN head + BatchSize ELSE tail
Trimmed(s) ==
  LET h == head + (upto[s] - from[s] + 1)
  IN  IF h < tail THEN h ELSE tail

\* Mutant: the error of LTRIM is logged but flush goes on.
IgnoreTrimError(s, ok) == "insert"
AfterTrim(s, ok) == IF ok THEN "insert" ELSE AfterFlush(s)

\* Entries popped by s and not yet settled.
InHand(s) == IF ppc[s] \in {"resend", "insert", "dlq"} THEN cur[s]..upto[s] ELSE {}

\* One execution of the command, or its failure.  A lost reply (a fault) leaves
\* it to be sent again ("resend"); each further execution removes entries that
\* nobody has read.  The client library gives up whenever it likes.
LTrim(s) ==
  /\ ppc[s] \in {"trim", "resend"}
  /\ \/ /\ RedisUp(s)
        /\ head' = Trimmed(s)
        /\ GiveUp(((head + 1)..head') \ Batch(s))
        /\ \/ ppc' = [ppc EXCEPT ![s] = AfterTrim(s, TRUE)] /\ UNCHANGED faults
           \/ ppc' = [ppc EXCEPT ![s] = "resend"] /\ Fault
     \/ /\ FailsWhen(RedisUp(s) /\ ppc[s] = "trim")
        /\ GiveUp(InHand(s))
        /\ ppc' = [ppc EXCEPT ![s] = AfterTrim(s, FALSE)]
        /\ UNCHANGED head
  /\ cur' = [cur EXCEPT ![s] = from[s]]
  /\ UNCHANGED <<srv, hpc, tail, final, from, upto, rows, dlq, boots>>

\* Mutants: the loop runs one entry too far; it leaves the last one out.
MoreOnePast(s) == cur[s] <= upto[s]
MoreButLast(s) == cur[s] + 1 < upto[s]
MoreInBatch(s) == cur[s] < upto[s]

\* After one entry: the next one; after a full batch, read again; else return.
NextEntry(s) ==
  /\ cur' = [cur EXCEPT ![s] = @ + 1]
  /\ ppc' = [ppc EXCEPT ![s] =
               IF MoreInBatch(s) THEN "insert"
               ELSE IF upto[s] - from[s] + 1 = BatchSize THEN "read"
               ELSE AfterFlush(s)]

\* Postgres may refuse any event, be it for a session id longer than its column,
\* a country code of three letters or a post that is gone by now.
Insert(s) ==
  /\ ppc[s] = "insert"
  /\ \/ /\ PostgresUp(s)
        /\ rows' = [rows EXCEPT ![cur[s]] = @ + 1]
        /\ NextEntry(s)
        /\ UNCHANGED faults
     \/ /\ PostgresUp(s)      \* committed, reply lost
        /\ Fault
        /\ rows' = [rows EXCEPT ![cur[s]] = @ + 1]
        /\ ppc' = [ppc EXCEPT ![s] = "dlq"]
        /\ UNCHANGED cur
     \/ /\ ppc' = [ppc EXCEPT ![s] = "dlq"]        \* refused or not reached
        /\ UNCHANGED <<rows, cur, faults>>
  /\ UNCHANGED <<srv, hpc, queueVars, final, from, upto, dlq, lost, boots>>

\* The error of the dead letter push is discarded.
DeadLetter(s) ==
  /\ ppc[s] = "dlq"
  /\ \/ /\ RedisUp(s)
        /\ dlq' = dlq \cup {cur[s]}
        /\ UNCHANGED <<lost, faults>>
     \/ /\ FailsWhen(RedisUp(s))
        /\ GiveUp({cur[s]})
        /\ UNCHANGED dlq
  /\ NextEntry(s)
  /\ UNCHANGED <<srv, hpc, queueVars, final, from, upto, rows, boots>>

Processor(s) ==
  Tick(s) \/ CtxDone(s) \/ LRange(s) \/ LTrim(s) \/ Insert(s) \/ DeadLetter(s)

----------------------------------------------------------------------------
(* Process lifecycle                                                         *)

Boot(s) ==
  /\ srv[s] = "down" /\ boots < MaxBoots
  /\ boots' = boots + 1
  /\ srv' = [srv EXCEPT ![s] = "up"]
  /\ ppc' = [ppc EXCEPT ![s] = "wait"]
  /\ final' = [final EXCEPT ![s] = FALSE]
  /\ UNCHANGED <<hpc, queueVars, from, upto, cur, fateVars, faults>>

Live(s, now, then) ==
  /\ srv[s] = now
  /\ srv' = [srv EXCEPT ![s] = then]
  /\ UNCHANGED <<hpc, queueVars, procVars, fateVars, faults, boots>>

Quiet(s) == \A h \in Handlers : Host[h] = s => hpc[h] = "idle"

Signal(s)     == Live(s, "up", "stopping")                  \* cancelProcessor
StopListening(s) == Live(s, "stopping", "draining")         \* e.Shutdown begins
Drained(s)    == Quiet(s) /\ Live(s, "draining", "closing")  \* main returns
CloseRedis(s) == Live(s, "closing", "closed")

\* The process ends: no goroutine of it is waited for.
Die(s) ==
  /\ srv' = [srv EXCEPT ![s] = "down"]
  /\ ppc' = [ppc EXCEPT ![s] = "stopped"]
  /\ hpc' = [h \in Handlers |-> IF Host[h] = s THEN "idle" ELSE hpc[h]]
  /\ GiveUp(InHand(s))
  /\ UNCHANGED <<queueVars, final, from, upto, cur, rows, dlq, boots>>

Exit(s)   == srv[s] = "closed" /\ Die(s) /\ UNCHANGED faults
\* The 15 s of e.Shutdown pass with a request still running.
Forced(s) == srv[s] = "draining" /\ ~Quiet(s) /\ Die(s) /\ UNCHANGED faults
\* Killed, or os.Exit(1) because the listener failed.
Crash(s)  == srv[s] # "down" /\ Fault /\ Die(s)

Lifecycle(s) ==
  \/ Boot(s) \/ Signal(s) \/ StopListening(s) \/ Drained(s) \/ CloseRedis(s)
  \/ Exit(s) \/ Forced(s) \/ Crash(s)

----------------------------------------------------------------------------
Request(h) == Accept(h) \/ CheckDepth(h) \/ Push(h)

Next ==
  \/ \E h \in Handlers : Request(h)
  \/ \E s \in Servers : Processor(s) \/ Lifecycle(s)

Spec == Init /\ [][Next]_vars

\* The Go scheduler runs every goroutine and the ticker keeps firing; nothing
\* obliges a visitor to send, a command to fail, an operator to signal or the
\* platform to boot.
Fairness ==
  /\ \A h \in Handlers : WF_vars(CheckDepth(h) \/ Push(h))
  /\ \A s \in Servers : WF_vars(Processor(s))

FairSpec == Spec /\ Fairness

----------------------------------------------------------------------------
(* Properties                                                                *)

\* The check of LLEN and the RPUSH are not atomic and the check fails open:
\* the list outgrows redisQueueLimit by at most one entry per other request in
\* flight and one per fault, whatever the number of processes.
QueueBound ==
  Depth + Cardinality(Pushing) <= Limit + Cardinality(Handlers) - 1 + faults

\* No list entry becomes two rows, across failed trims, restarts and lost
\* replies (one process; see PopRemovesBatch for several).
AtMostOneRow == \A n \in EventIds : rows[n] <= 1

\* Every entry pushed is on the list, in the processor's hands, a row, a dead
\* letter or recorded as given up: nothing vanishes between the LTRIM and the
\* INSERT (one process).
Accounted ==
  \A n \in 1..head :
    rows[n] > 0 \/ n \in dlq \/ n \in lost \/ \E s \in Servers : n \in InHand(s)

\* What a fault or a stop can cost: a fault at most one batch (an LTRIM whose
\* reply was lost takes its own batch with it when it is given up, and the next
\* entries when it is sent again; a crash takes the batch in hand), a stop at
\* most two (the one cancelled and the one the final flush had popped).
\* Without either nothing is lost (one process).
Stops == boots - Cardinality({s \in Servers : srv[s] = "up"})
LossBound == Cardinality(lost) <= BatchSize * (faults + 2 * Stops)

\* "Remove the items we just read": a step of the list's left end removes
\* exactly the batch of the process that made it, unless that process sends
\* again an LTRIM that was executed before.
PopRemovesBatch ==
  [][ head' # head
        => \E s \in Servers :
             \/ /\ ppc[s] = "trim" /\ ppc'[s] \in {"resend", "insert"}
                /\ Batch(s) = (head + 1)..head'
             \/ ppc[s] = "resend" ]_vars

\* "Final flush before exit": a process that shuts down without being killed
\* has finished the flush that follows the cancellation.
FinalFlushBeforeExit ==
  [][ \A s \in Servers :
        srv[s] = "closed" /\ srv'[s] = "down" => ppc[s] = "stopped" ]_vars

Settled(n) == rows[n] > 0 \/ n \in dlq \/ n \in lost

\* If some process stays up, the list is drained and everything pushed so far
\* settled again and again, despite failed reads and trims and refused inserts.
\* What is settled stays so: no event waits for ever.
QueueDrains ==
  (\E s \in Servers : <>[](srv[s] = "up")) => []<>(\A n \in 1..tail : Settled(n))

----------------------------------------------------------------------------
(* What makes the properties inductive                                       *)

\* A batch is not empty while the processor works on it, and the entry being
\* inserted lies in it; trimming never passes the right end of the list.
BatchShape ==
  /\ head <= tail
  /\ \A s \in Servers :
       /\ ppc[s] = "trim" => from[s] <= upto[s]
       /\ ppc[s] = "resend" => cur[s] = from[s]
       /\ ppc[s] \in {"resend", "insert", "dlq"} => from[s] <= cur[s] /\ cur[s] <= upto[s]

\* With one process: what was read is still the left end of the list when it
\* is trimmed, a popped batch is off the list, and rows exist only for
\* entries the processor is past.
PopOwnership ==
  \A s \in Servers :
    /\ srv[s] = "down" => ppc[s] = "stopped"
    /\ ppc[s] = "trim" => from[s] = head + 1 /\ upto[s] <= tail
    /\ ppc[s] \in {"resend", "insert", "dlq"} => upto[s] <= head
    /\ \A n \in EventIds :
         rows[n] > 0 => /\ n <= head
                        /\ ppc[s] \in {"resend", "insert"} => n < cur[s]
                        /\ ppc[s] = "dlq" => n <= cur[s]

----------------------------------------------------------------------------
(* Refinement: one process implements AnalyticsLog.  An event is settled once *)
(* the processor is past it, or once it is off the list when the processor    *)
(* holds nothing.                                                             *)

Past == LET holding == {s \in Servers : ppc[s] \in {"resend", "insert", "dlq"}}
        IN  IF holding = {} THEN head ELSE cur[CHOOSE s \in holding : TRUE] - 1

Log == INSTANCE AnalyticsLog WITH
         recorded <- tail,
         settled  <- Past,
         stored   <- {n \in 1..Past : rows[n] > 0},
         dead     <- dlq

\* One process, with its faults and restarts, behaves as the abstract log: it
\* settles events in arrival order, each once.
ImplementsLog == Log!Spec
=============================================================================
