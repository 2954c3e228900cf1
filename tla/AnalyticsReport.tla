-------------------------- MODULE AnalyticsReport --------------------------
(****************************************************************************)
(* The admin's analytics reports: Overview and PostStats of                  *)
(* internal/analytics/repository.go.  A report is a series of queries, each  *)
(* on the table as it is by then, while the processor inserts events that    *)
(* were recorded earlier and posts are deleted.                              *)
(*                                                                          *)
(* Two instants make a day, so that a report asked for at noon reaches back  *)
(* into half a day.  Averages, visitors and the titles of posts are left out.*)
(****************************************************************************)
EXTENDS ReaderTables, Integers, FiniteSetsExt

CONSTANTS
  Reports,      \* concurrent reports, at most this many at a time
  EventIds,     \* bound: the events ever recorded
  Lost,         \* the INSERT was refused or failed: a dead letter
  NoReport,     \* no report in progress
  MaxNow,       \* bound: the last instant
  DaysAsked,    \* bound: what ?days= may give, after the service's own bounds
  DefaultDays,  \* 10, what safeLimit makes of a number below 1
  MaxDays       \* 100, what safeLimit cuts a number to

EventRows ==
  [type : {"page_view", "post_view", "read_complete"}, post : PostIds \cup {Empty},
   at : 0..MaxNow]

ASSUME ReportAssumption ==
  /\ MaxNow \in Nat /\ IsFiniteSet(EventIds)
  /\ Unused # Lost
  /\ \A row \in EventRows : row \notin {Unused, Lost}
  /\ DaysAsked \subseteq Nat \ {0}
  /\ DefaultDays \in Nat /\ MaxDays \in Nat

VARIABLES
  now,          \* the time
  events,       \* each event as the list or the table holds it, or Lost
  stored,       \* the events that are rows of analytics_events
  report        \* the reports between their first query and their answer

reportVars == <<now, events, stored, report>>

\* post is Empty in a report about the site.
OpenReports ==
  [post : PostIds \cup {Empty}, days : DaysAsked, since : Int, total : Nat]

ReportTypeOK ==
  /\ now \in 0..MaxNow
  /\ events \in [EventIds -> EventRows \cup {Unused, Lost}]
  /\ stored \subseteq {e \in EventIds : events[e] \notin {Unused, Lost}}
  /\ report \in [Reports -> OpenReports \cup {NoReport}]

ReportInit ==
  /\ now = 0
  /\ events = [e \in EventIds |-> Unused]
  /\ stored = {}
  /\ report = [r \in Reports |-> NoReport]

Tick == now < MaxNow /\ now' = now + 1 /\ UNCHANGED <<events, stored, report>>

----------------------------------------------------------------------------
(* Events: recorded by a request, inserted later by the processor            *)

\* recorded_at is set when the event is accepted.  Its type and its post are what
\* the request says: any two together, and a post that is gone or never was.
\* read_complete stands for the types that are no view.
RecordEvent ==
  /\ \E e \in EventIds, type \in {"page_view", "post_view", "read_complete"},
        post \in PostIds \cup {Empty} :
       /\ events[e] = Unused
       /\ events' = [events EXCEPT ![e] = [type |-> type, post |-> post, at |-> now]]
  /\ UNCHANGED <<now, stored, report>>

\* Mutant: an event that is in the table may still be handled.
WaitingOrStored == {e \in EventIds : events[e] \notin {Unused, Lost}}
Waiting == {e \in EventIds : events[e] \notin {Unused, Lost} /\ e \notin stored}

\* analytics_events.post_id refers to posts.
\* Mutant: no such foreign key.
NoPostKey(post, livePosts) == TRUE
PostKeyAllows(post, livePosts) == post \in livePosts \cup {Empty}

InsertEvent(livePosts) ==
  /\ \E e \in Waiting :
       /\ PostKeyAllows(events[e].post, livePosts)
       /\ stored' = stored \cup {e}
  /\ UNCHANGED <<now, events, report>>

\* Refused because the post is gone by now, or failed: a dead letter.
LoseEvent ==
  /\ \E e \in Waiting : events' = [events EXCEPT ![e] = Lost]
  /\ UNCHANGED <<now, stored, report>>

\* ON DELETE SET NULL on post_id: the rows stay.
\* Mutant: ON DELETE CASCADE, as on the comments.
KeptUnlessOf(e, p) == events[e].post # p
Kept(e, p) == TRUE

ForgetPost(p) ==
  /\ stored' = {e \in stored : Kept(e, p)}
  /\ events' = [e \in EventIds |->
       IF e \in stored /\ events[e].post = p
       THEN [events[e] EXCEPT !.post = Empty] ELSE events[e]]
  /\ UNCHANGED <<now, report>>

----------------------------------------------------------------------------
(* Reports                                                                   *)

\* WHERE COALESCE(recorded_at, timestamp) >= since, and of the post asked for.
InScope(post, since) ==
  {e \in stored : events[e].at >= since /\ (post # Empty => events[e].post = post)}

\* What counts as a view: on a post's report its own views only.
Views(post, since) ==
  {e \in InScope(post, since) :
     \/ events[e].type = "post_view"
     \/ post = Empty /\ events[e].type = "page_view"}

safeLimit(n) == IF n <= 0 THEN DefaultDays ELSE IF n > MaxDays THEN MaxDays ELSE n

Day(instant) == instant \div 2

\* deviceBreakdown, by a column that always has a value: its groups add up to
\* the views there are by then.  topReferrers and countryBreakdown return their
\* ten largest groups and need not.
BreakdownSum(r) == Cardinality(Views(report[r].post, report[r].since))

\* dailyViews: GROUP BY day ORDER BY day ASC LIMIT n, the earliest days on which
\* anything in scope happened.
Earliest(all, n) == {d \in all : Cardinality({x \in all : x < d}) < n}

ActiveDays(r) ==
  {Day(events[e].at) : e \in InScope(report[r].post, report[r].since)}
CurveSum(r) ==
  LET shown == Earliest(ActiveDays(r), safeLimit(report[r].days))
  IN  Cardinality({e \in Views(report[r].post, report[r].since) :
                     Day(events[e].at) \in shown})

\* The period is fixed at the start; the totals come first.
StartReport(r, post, days) ==
  /\ report[r] = NoReport
  /\ LET since == now - 2 * days
     IN  report' = [report EXCEPT ![r] =
           [post |-> post, days |-> days, since |-> since,
            total |-> Cardinality(Views(post, since))]]
  /\ UNCHANGED <<now, events, stored>>

\* The last query is answered, one fails, or the client leaves.  The queries in
\* between only read: what they return is BreakdownSum and CurveSum by then.
EndReport(r) ==
  /\ report[r] # NoReport
  /\ report' = [report EXCEPT ![r] = NoReport]
  /\ UNCHANGED <<now, events, stored>>

ReportStep(livePosts) ==
  \/ Tick \/ RecordEvent \/ InsertEvent(livePosts) \/ LoseEvent
  \/ \E r \in Reports, post \in PostIds \cup {Empty}, days \in DaysAsked :
       StartReport(r, post, days)
  \/ \E r \in Reports : EndReport(r)
=============================================================================
