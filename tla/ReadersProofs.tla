---------------------------- MODULE ReadersProofs ----------------------------
(****************************************************************************)
(* Theorems about Readers for any posts, comments, events and reports.        *)
(****************************************************************************)
EXTENDS Readers, FiniteSetTheorems, SequenceTheorems, WellFoundedInduction, TLAPS

----------------------------------------------------------------------------
(* Comments                                                                  *)

\* A row is neither of the marks for an id without one, and a live comment's is
\* a row.
LEMMA CommentShape ==
  ASSUME CommentsTypeOK
  PROVE  /\ \A row \in CommentRows : row \notin {Unused, Deleted}
         /\ \A c \in LiveComments : c \in CommentIds /\ comments[c] \in CommentRows
  BY CommentAssumption DEF CommentsTypeOK, LiveComments

LEMMA CommentStepTyped == CommentsTypeOK /\ CommentStep(livePosts) => CommentsTypeOK'
<1> SUFFICES ASSUME CommentsTypeOK, CommentStep(livePosts) PROVE CommentsTypeOK'
  OBVIOUS
<1> USE DEF CommentsTypeOK
<1>1. ASSUME NEW p \in PostIds, CreateComment(p, livePosts) PROVE CommentsTypeOK'
  BY <1>1 DEF CreateComment, CommentRows
<1>2. ASSUME NEW a \in Admins, InsertReply(a, livePosts) PROVE CommentsTypeOK'
  <2>1. replyReq[a].post \in PostIds /\ replyReq[a].parent \in CommentIds
    BY <1>2 DEF InsertReply, ReplyReqs, Idle
  <2>2. [post |-> replyReq[a].post, parent |-> replyReq[a].parent, approved |-> TRUE]
          \in CommentRows
    BY <2>1 DEF CommentRows
  <2>3. QED
    BY <1>2, <2>2 DEF InsertReply, ReplyReqs
<1>3. ASSUME NEW a \in Admins, EndReply(a) PROVE CommentsTypeOK'
  BY <1>3 DEF EndReply, ReplyReqs
<1>4. ASSUME NEW a \in Admins, NEW c \in CommentIds, FindParent(a, c) PROVE CommentsTypeOK'
  <2>1. comments[c].post \in PostIds
    BY <1>4, CommentShape DEF FindParent, Repliable, CommentRows
  <2>2. QED
    BY <1>4, <2>1 DEF FindParent, ReplyReqs
<1>5. ASSUME NEW c \in CommentIds, NEW approved \in BOOLEAN, SetApproval(c, approved)
      PROVE  CommentsTypeOK'
  <2>1. comments[c] \in CommentRows
    BY <1>5, CommentShape DEF SetApproval
  <2>2. [comments[c] EXCEPT !.approved = approved] \in CommentRows
    BY <2>1 DEF CommentRows
  <2>3. QED
    BY <1>5, <2>2 DEF SetApproval
<1>6. ASSUME NEW c \in CommentIds, DeleteComment(c) PROVE CommentsTypeOK'
  BY <1>6 DEF DeleteComment, RemoveRows
<1>7. QED
  BY <1>1, <1>2, <1>3, <1>4, <1>5, <1>6 DEF CommentStep

\* What ON DELETE CASCADE removes has the rows it began with and every comment
\* whose parent it has.
LEMMA CascadeClosed ==
  ASSUME NEW rows, rows \subseteq LiveComments
  PROVE  /\ rows \subseteq Cascade(rows) /\ Cascade(rows) \subseteq LiveComments
         /\ \A d \in LiveComments : comments[d].parent \in Cascade(rows) => d \in Cascade(rows)
  BY DEF Cascade

\* A reply between its two statements names a comment that was there: whatever
\* became of it, it is no reply, and on the post the request holds.
RepliesAim ==
  \A a \in Admins : replyReq[a].pc = "insert" =>
    /\ comments[replyReq[a].parent] # Unused
    /\ replyReq[a].parent \in LiveComments =>
         /\ comments[replyReq[a].parent].parent = Empty
         /\ comments[replyReq[a].parent].post = replyReq[a].post

\* A row is added under an id that had none; the others stay.
LEMMA CommentAdded ==
  ASSUME CommentsTypeOK, NEW c \in CommentIds, comments[c] = Unused,
         NEW row \in CommentRows, comments' = [comments EXCEPT ![c] = row]
  PROVE  /\ c \notin LiveComments /\ LiveComments' = LiveComments \cup {c}
         /\ comments'[c] = row /\ \A d \in CommentIds \ {c} : comments'[d] = comments[d]
  BY CommentShape DEF LiveComments, CommentsTypeOK

\* Rows go with all that hang under them; the others stay.
LEMMA RowsRemoved ==
  ASSUME CommentsTypeOK, NEW rows, rows \subseteq LiveComments, RemoveRows(rows)
  PROVE  /\ LiveComments' = LiveComments \ Cascade(rows)
         /\ \A c \in LiveComments' : comments'[c] = comments[c]
         /\ \A c \in CommentIds : comments[c] # Unused => comments'[c] # Unused
  BY CommentAssumption DEF RemoveRows, LiveComments, CommentsTypeOK

LEMMA RemovalKeepsThreads ==
  ASSUME CommentsTypeOK, ThreadsAreFlat, RepliesAim,
         NEW rows, rows \subseteq LiveComments, RemoveRows(rows),
         livePosts' \subseteq livePosts,
         \A c \in LiveComments : comments[c].post \in livePosts \ livePosts' => c \in rows
  PROVE  ThreadsAreFlat' /\ RepliesAim'
<1>1. /\ LiveComments' = LiveComments \ Cascade(rows)
      /\ \A c \in LiveComments' : comments'[c] = comments[c]
      /\ \A c \in CommentIds : comments[c] # Unused => comments'[c] # Unused
  BY RowsRemoved
<1>2. \A c \in LiveComments' :
        /\ comments[c].post \in livePosts'
        /\ comments[c].parent # Empty => comments[c].parent \in LiveComments'
  BY <1>1, CascadeClosed DEF ThreadsAreFlat
<1>3. ThreadsAreFlat'
  BY <1>1, <1>2 DEF ThreadsAreFlat
<1>4. RepliesAim'
  <2>1. replyReq' = replyReq
    BY DEF RemoveRows
  <2>2. \A a \in Admins : replyReq[a].pc = "insert" => replyReq[a].parent \in CommentIds
    BY DEF CommentsTypeOK, ReplyReqs, Idle
  <2>3. QED
    BY <1>1, <2>1, <2>2 DEF RepliesAim
<1>5. QED
  BY <1>3, <1>4

LEMMA CommentStepKeepsThreads ==
  ASSUME CommentsTypeOK, ThreadsAreFlat, RepliesAim,
         CommentStep(livePosts), livePosts' = livePosts
  PROVE  ThreadsAreFlat' /\ RepliesAim'
<1> USE DEF RepliesAim
<1>0. /\ \A a \in Admins : replyReq[a].pc = "insert" =>
           replyReq[a].parent \in CommentIds /\ replyReq[a].post \in PostIds
      /\ \A c \in LiveComments : c \in CommentIds /\ comments[c].parent \in CommentIds \cup {Empty}
  BY CommentShape DEF CommentsTypeOK, ReplyReqs, Idle, CommentRows
<1>1. ASSUME NEW p \in PostIds, CreateComment(p, livePosts) PROVE ThreadsAreFlat' /\ RepliesAim'
  <2>1. PICK c \in CommentIds :
          /\ comments[c] = Unused
          /\ comments' = [comments EXCEPT ![c] =
               [post |-> p, parent |-> Empty, approved |-> FALSE]]
    BY <1>1 DEF CreateComment
  <2> DEFINE row == [post |-> p, parent |-> Empty, approved |-> FALSE]
  <2>2. row \in CommentRows
    BY DEF CommentRows
  <2>3. /\ c \notin LiveComments /\ LiveComments' = LiveComments \cup {c}
        /\ comments'[c] = row /\ \A d \in CommentIds \ {c} : comments'[d] = comments[d]
    BY <2>1, <2>2, CommentAdded
  <2>4. ThreadsAreFlat'
    BY <1>0, <1>1, <2>3 DEF ThreadsAreFlat, CreateComment
  <2>5. RepliesAim'
    BY <1>0, <1>1, <2>1, <2>3 DEF CreateComment
  <2>6. QED
    BY <2>4, <2>5
<1>2. ASSUME NEW a \in Admins, InsertReply(a, livePosts) PROVE ThreadsAreFlat' /\ RepliesAim'
  <2> DEFINE r == replyReq[a]
             row == [post |-> r.post, parent |-> r.parent, approved |-> TRUE]
  <2>1. PICK c \in CommentIds :
          comments[c] = Unused /\ comments' = [comments EXCEPT ![c] = row]
    BY <1>2 DEF InsertReply
  <2>2. /\ r.pc = "insert" /\ r.parent \in LiveComments /\ r.post \in livePosts
        /\ replyReq' = [replyReq EXCEPT ![a] = Idle]
    BY <1>2 DEF InsertReply, ParentKeyAllows
  <2>3. row \in CommentRows
    BY <1>0, <2>2 DEF CommentRows
  <2>4. /\ c \notin LiveComments /\ LiveComments' = LiveComments \cup {c}
        /\ comments'[c] = row /\ \A d \in CommentIds \ {c} : comments'[d] = comments[d]
    BY <2>1, <2>3, CommentAdded
  <2>5. ThreadsAreFlat'
    BY <1>0, <2>2, <2>4 DEF ThreadsAreFlat
  <2>6. \A b \in Admins : replyReq'[b].pc = "insert" => b # a /\ replyReq'[b] = replyReq[b]
    BY <2>2 DEF CommentsTypeOK, Idle
  <2>7. RepliesAim'
    BY <1>0, <2>1, <2>4, <2>6
  <2>8. QED
    BY <2>5, <2>7
<1>3. ASSUME NEW a \in Admins, EndReply(a) PROVE ThreadsAreFlat' /\ RepliesAim'
  <2>1. LiveComments' = LiveComments /\ comments' = comments
    BY <1>3 DEF EndReply, LiveComments
  <2>2. \A b \in Admins : replyReq'[b].pc = "insert" => replyReq'[b] = replyReq[b]
    BY <1>3 DEF EndReply, CommentsTypeOK, Idle
  <2>3. QED
    BY <2>1, <2>2 DEF ThreadsAreFlat
<1>4. ASSUME NEW a \in Admins, NEW c \in CommentIds, FindParent(a, c)
      PROVE  ThreadsAreFlat' /\ RepliesAim'
  <2>1. LiveComments' = LiveComments /\ comments' = comments
    BY <1>4 DEF FindParent, LiveComments
  <2>2. /\ c \in LiveComments /\ comments[c].parent = Empty
        /\ replyReq' = [replyReq EXCEPT ![a] =
             [pc |-> "insert", post |-> comments[c].post, parent |-> c]]
    BY <1>4 DEF FindParent, Repliable
  <2>3. comments[c] # Unused
    BY <2>2 DEF LiveComments
  <2>4. RepliesAim'
    BY <2>1, <2>2, <2>3 DEF CommentsTypeOK
  <2>5. QED
    BY <2>1, <2>4 DEF ThreadsAreFlat
<1>5. ASSUME NEW c \in CommentIds, NEW approved \in BOOLEAN, SetApproval(c, approved)
      PROVE  ThreadsAreFlat' /\ RepliesAim'
  <2>1. /\ c \in LiveComments /\ comments[c] \in CommentRows /\ replyReq' = replyReq
        /\ comments' = [comments EXCEPT ![c].approved = approved]
    BY <1>5, CommentShape DEF SetApproval
  <2>2. [comments[c] EXCEPT !.approved = approved] \in CommentRows
    BY <2>1 DEF CommentRows
  <2>3. LiveComments' = LiveComments
    BY <2>1, <2>2, CommentShape DEF LiveComments, CommentsTypeOK
  <2>4. /\ \A d \in LiveComments :
             comments'[d].parent = comments[d].parent /\ comments'[d].post = comments[d].post
        /\ \A d \in CommentIds : comments[d] # Unused => comments'[d] # Unused
    BY <2>1, <2>2, CommentShape DEF CommentsTypeOK, CommentRows, LiveComments
  <2>5. QED
    BY <1>0, <2>1, <2>3, <2>4 DEF ThreadsAreFlat
<1>6. ASSUME NEW c \in CommentIds, DeleteComment(c) PROVE ThreadsAreFlat' /\ RepliesAim'
  BY <1>6, RemovalKeepsThreads DEF DeleteComment
<1>7. QED
  BY <1>1, <1>2, <1>3, <1>4, <1>5, <1>6 DEF CommentStep

----------------------------------------------------------------------------
(* Reports                                                                   *)

LEMMA EventShape ==
  ASSUME ReportTypeOK
  PROVE  /\ \A e \in stored : e \in EventIds /\ events[e] \in EventRows
         /\ \A e \in Waiting : e \in EventIds /\ events[e] \in EventRows
  BY DEF ReportTypeOK, Waiting

\* The views of a report are finitely many, and so are the days they lie on.
LEMMA ViewsFinite ==
  ASSUME ReportTypeOK, NEW post, NEW since
  PROVE  /\ IsFiniteSet(Views(post, since)) /\ Cardinality(Views(post, since)) \in Nat
         /\ IsFiniteSet(InScope(post, since))
<1>1. Views(post, since) \subseteq EventIds /\ InScope(post, since) \subseteq EventIds
  BY EventShape DEF Views, InScope
<1>2. QED
  BY <1>1, ReportAssumption, FS_Subset, FS_CardinalityType

LEMMA ReportStepTyped == ReportTypeOK /\ livePosts \subseteq PostIds /\ ReportStep(livePosts) => ReportTypeOK'
<1> SUFFICES ASSUME ReportTypeOK, livePosts \subseteq PostIds, ReportStep(livePosts)
             PROVE  ReportTypeOK'
  OBVIOUS
<1> USE ReportAssumption DEF ReportTypeOK
<1>1. CASE Tick
  BY <1>1 DEF Tick
<1>2. CASE RecordEvent
  <2>1. PICK e \in EventIds, type \in {"page_view", "post_view", "read_complete"},
             post \in PostIds \cup {Empty} :
          /\ events[e] = Unused
          /\ events' = [events EXCEPT ![e] = [type |-> type, post |-> post, at |-> now]]
    BY <1>2, Zenon DEF RecordEvent
  <2>2. [type |-> type, post |-> post, at |-> now] \in EventRows
    BY DEF EventRows
  <2>3. \A d \in stored : events'[d] = events[d]
    BY <2>1
  <2>4. QED
    BY <1>2, <2>1, <2>2, <2>3 DEF RecordEvent
<1>3. CASE InsertEvent(livePosts)
  BY <1>3 DEF InsertEvent, Waiting
<1>4. CASE LoseEvent
  BY <1>4 DEF LoseEvent, Waiting
<1>5. ASSUME NEW r \in Reports, NEW post \in PostIds \cup {Empty}, NEW days \in DaysAsked,
             StartReport(r, post, days)
      PROVE  ReportTypeOK'
  <2>1. now - 2 * days \in Int
    BY <1>5
  <2>2. [post |-> post, days |-> days, since |-> now - 2 * days,
         total |-> Cardinality(Views(post, now - 2 * days))] \in OpenReports
    BY <2>1, ViewsFinite DEF OpenReports
  <2>3. QED
    BY <1>5, <2>2 DEF StartReport
<1>6. ASSUME NEW r \in Reports, EndReport(r) PROVE ReportTypeOK'
  BY <1>6 DEF EndReport
<1>7. QED
  BY <1>1, <1>2, <1>3, <1>4, <1>5, <1>6 DEF ReportStep

\* The database unlinks the events of a deleted post; rows stay.
LEMMA Forgotten ==
  ASSUME ReportTypeOK, NEW p \in PostIds, ForgetPost(p)
  PROVE  /\ ReportTypeOK' /\ stored' = stored
         /\ \A e \in stored :
              /\ events'[e].type = events[e].type /\ events'[e].at = events[e].at
              /\ events'[e].post = IF events[e].post = p THEN Empty ELSE events[e].post
<1>1. stored' = stored
  BY DEF ForgetPost, Kept
<1>2. \A e \in stored : events[e] \in EventRows /\ e \in EventIds
  BY EventShape
<1>3. \A e \in stored : events[e].post = p => [events[e] EXCEPT !.post = Empty] \in EventRows
  BY <1>2 DEF EventRows
<1>4. \A e \in EventIds :
        events'[e] = IF e \in stored /\ events[e].post = p
                     THEN [events[e] EXCEPT !.post = Empty] ELSE events[e]
  BY DEF ForgetPost
<1>5. events' \in [EventIds -> EventRows \cup {Unused, Lost}]
  BY <1>2, <1>3, <1>4 DEF ForgetPost, ReportTypeOK
<1>6. \A e \in stored :
        /\ events'[e].type = events[e].type /\ events'[e].at = events[e].at
        /\ events'[e].post = IF events[e].post = p THEN Empty ELSE events[e].post
  BY <1>2, <1>4 DEF EventRows
<1>7. \A e \in stored : events'[e] \in EventRows
  BY <1>2, <1>3, <1>4
<1>8. stored' \subseteq {e \in EventIds : events'[e] \notin {Unused, Lost}}
  BY <1>1, <1>2, <1>7, ReportAssumption
<1>9. QED
  BY <1>1, <1>5, <1>6, <1>8 DEF ForgetPost, ReportTypeOK

\* What an event's row says never changes, except that it loses its post.
LEMMA StoredStays ==
  ASSUME ReportTypeOK, ReportStep(livePosts)
  PROVE  stored \subseteq stored' /\ \A e \in stored : events'[e] = events[e]
<1>1. CASE RecordEvent
  BY <1>1 DEF RecordEvent, ReportTypeOK
<1>2. CASE LoseEvent
  BY <1>2 DEF LoseEvent, ReportTypeOK, Waiting
<1>3. QED
  BY <1>1, <1>2 DEF ReportStep, Tick, InsertEvent, StartReport, EndReport

\* Every total was counted among the views there still are.
TotalsCovered ==
  \A r \in Reports :
    report[r] # NoReport /\ report[r].post \in livePosts \cup {Empty}
      => report[r].total <= Cardinality(Views(report[r].post, report[r].since))

LEMMA CurveIsWhole ==
  ASSUME ReportTypeOK, NEW r \in Reports, NEW n \in Nat, Cardinality(ActiveDays(r)) <= n
  PROVE  Earliest(ActiveDays(r), n) = ActiveDays(r)
<1> DEFINE all == ActiveDays(r)
           scope == InScope(report[r].post, report[r].since)
<1>1. IsFiniteSet(all)
  <2>1. all \subseteq 0..MaxNow
    BY EventShape, ReportAssumption DEF ActiveDays, InScope, Day, EventRows
  <2>2. IsFiniteSet(0..MaxNow)
    BY ReportAssumption, FS_Interval
  <2>3. QED
    BY <2>1, <2>2, FS_Subset
<1>2. \A d \in all : d \in Int
  BY EventShape, ReportAssumption DEF ActiveDays, InScope, Day, EventRows
<1>3. ASSUME NEW d \in all PROVE Cardinality({x \in all : x < d}) < n
  <2>1. {x \in all : x < d} \subseteq all /\ {x \in all : x < d} # all
    BY <1>2
  <2>2. /\ Cardinality({x \in all : x < d}) < Cardinality(all)
        /\ Cardinality({x \in all : x < d}) \in Nat /\ Cardinality(all) \in Nat
    BY <1>1, <2>1, FS_Subset, FS_CardinalityType
  <2>3. QED
    BY <2>2
<1>4. QED
  BY <1>3 DEF Earliest

\* The theorem of the reports follows from the totals.
LEMMA CoverageFollows == ReportTypeOK /\ TotalsCovered => PartsCoverTotal
<1> SUFFICES ASSUME ReportTypeOK, TotalsCovered, NEW r \in Reports,
                    report[r] # NoReport, report[r].post \in livePosts \cup {Empty}
             PROVE  /\ BreakdownSum(r) >= report[r].total
                    /\ Cardinality(ActiveDays(r)) <= safeLimit(report[r].days)
                         => CurveSum(r) >= report[r].total
  BY DEF PartsCoverTotal
<1> DEFINE views == Views(report[r].post, report[r].since)
<1>1. report[r] \in OpenReports
  BY DEF ReportTypeOK
<1>2. /\ report[r].total \in Nat /\ Cardinality(views) \in Nat
      /\ safeLimit(report[r].days) \in Nat
  BY <1>1, ViewsFinite, ReportAssumption DEF OpenReports, safeLimit
<1>3. report[r].total <= Cardinality(views)
  BY DEF TotalsCovered
<1>4. BreakdownSum(r) >= report[r].total
  BY <1>2, <1>3 DEF BreakdownSum
<1>5. ASSUME Cardinality(ActiveDays(r)) <= safeLimit(report[r].days)
      PROVE  CurveSum(r) >= report[r].total
  <2>1. Earliest(ActiveDays(r), safeLimit(report[r].days)) = ActiveDays(r)
    BY <1>2, <1>5, CurveIsWhole
  <2>2. \A e \in views : Day(events[e].at) \in ActiveDays(r)
    BY DEF Views, ActiveDays
  <2>3. {e \in views : Day(events[e].at) \in ActiveDays(r)} = views
    BY <2>2
  <2>4. CurveSum(r) = Cardinality(views)
    BY <2>1, <2>3 DEF CurveSum
  <2>5. QED
    BY <1>2, <1>3, <2>4
<1>6. QED
  BY <1>4, <1>5

\* A set of views that only grows does not lose in number.
LEMMA MoreViews ==
  ASSUME ReportTypeOK, ReportTypeOK', NEW CONSTANT post, NEW CONSTANT since,
         Views(post, since) \subseteq Views(post, since)'
  PROVE  /\ Cardinality(Views(post, since)) \in Nat
         /\ Cardinality(Views(post, since)') \in Nat
         /\ Cardinality(Views(post, since)) <= Cardinality(Views(post, since)')
<1>1. Views(post, since)' \subseteq EventIds
  BY DEF Views, InScope, ReportTypeOK
<1>2. IsFiniteSet(Views(post, since)')
  BY <1>1, ReportAssumption, FS_Subset
<1>3. QED
  BY <1>2, FS_Subset, FS_CardinalityType

\* The rows of a report's post stay its views while the post exists.
LEMMA ViewsStay ==
  ASSUME ReportTypeOK, NEW CONSTANT post, NEW CONSTANT since,
         \/ ReportStep(livePosts)
         \/ \E p \in PostIds : ForgetPost(p) /\ (post = Empty \/ post # p)
         \/ UNCHANGED reportVars
  PROVE  Views(post, since) \subseteq Views(post, since)'
<1>1. stored \subseteq stored' /\ \A e \in stored :
        /\ events'[e].type = events[e].type /\ events'[e].at = events[e].at
        /\ post # Empty /\ events[e].post = post => events'[e].post = post
  BY StoredStays, Forgotten DEF reportVars
<1>2. QED
  BY <1>1 DEF Views, InScope

LEMMA StepKeepsTotals ==
  ASSUME TypeOK, TypeOK', TotalsCovered, [Next]_vars
  PROVE  TotalsCovered'
<1> SUFFICES ASSUME NEW r \in Reports, report'[r] # NoReport,
                    report'[r].post \in livePosts' \cup {Empty}
             PROVE  report'[r].total
                      <= Cardinality(Views(report[r].post, report[r].since)')
  BY DEF TotalsCovered
<1>0. ReportTypeOK /\ ReportTypeOK'
  BY DEF TypeOK
<1>1. ASSUME NEW post \in PostIds \cup {Empty}, NEW days \in DaysAsked,
             StartReport(r, post, days)
      PROVE  report'[r].total
               <= Cardinality(Views(report[r].post, report[r].since)')
  <2> DEFINE start == now - 2 * days
  <2>1. report'[r] = [post |-> post, days |-> days, since |-> start,
                      total |-> Cardinality(Views(post, start))]
    BY <1>0, <1>1 DEF StartReport, ReportTypeOK
  <2>2. events' = events /\ stored' = stored
    BY <1>1 DEF StartReport
  <2> HIDE DEF start
  <2>3. Views(report[r].post, report[r].since)' = Views(post, start)
    BY <2>1, <2>2 DEF Views, InScope
  <2>4. Cardinality(Views(post, start)) \in Nat
    BY <1>0, ViewsFinite
  <2>5. QED
    BY <2>1, <2>3, <2>4
<1>2. ASSUME report'[r] = report[r],
             report[r].post \in livePosts \cup {Empty},
             \/ ReportStep(livePosts)
             \/ \E p \in PostIds : ForgetPost(p) /\ (report[r].post = Empty \/ report[r].post # p)
             \/ UNCHANGED reportVars
      PROVE  report'[r].total
               <= Cardinality(Views(report[r].post, report[r].since)')
  <2>1. PICK own \in OpenReports : own = report[r]
    BY <1>0, <1>2 DEF ReportTypeOK
  <2>2. Views(own.post, own.since) \subseteq Views(own.post, own.since)'
    BY <1>0, <1>2, <2>1, ViewsStay
  <2>3. /\ Cardinality(Views(own.post, own.since)) \in Nat
        /\ Cardinality(Views(own.post, own.since)') \in Nat
        /\ Cardinality(Views(own.post, own.since)) <= Cardinality(Views(own.post, own.since)')
    BY <1>0, <2>2, MoreViews
  <2>4. own.total \in Nat /\ own.total <= Cardinality(Views(own.post, own.since))
    BY <1>2, <2>1 DEF TotalsCovered, OpenReports
  <2>5. Views(report[r].post, report[r].since)' = Views(own.post, own.since)'
    BY <1>2, <2>1
  <2>6. QED
    BY <1>2, <2>1, <2>3, <2>4, <2>5
<1>3. CASE ReportStep(livePosts) /\ UNCHANGED <<commentVars, livePosts>>
  <2>1. \/ report'[r] = report[r]
        \/ \E post \in PostIds \cup {Empty}, days \in DaysAsked : StartReport(r, post, days)
    BY <1>0, <1>3 DEF ReportStep, Tick, RecordEvent, InsertEvent, LoseEvent, StartReport,
       EndReport, ReportTypeOK
  <2>2. QED
    BY <1>1, <1>2, <1>3, <2>1
<1>4. ASSUME NEW p \in PostIds, DeletePost(p)
      PROVE  report'[r].total
               <= Cardinality(Views(report[r].post, report[r].since)')
  <2>1. /\ report' = report /\ ForgetPost(p) /\ livePosts' = livePosts \ {p}
        /\ p \in livePosts
    BY <1>4 DEF DeletePost, ForgetPost
  <2>2. QED
    BY <1>2, <2>1, NoPostAssumption
<1>5. CASE UNCHANGED <<reportVars, livePosts>>
  BY <1>2, <1>5 DEF reportVars
<1>6. QED
  BY <1>3, <1>4, <1>5 DEF Next, vars

\* Events enter with a post that exists and lose it with the post.
LEMMA StepKeepsReferences ==
  ASSUME TypeOK, EventsReferToPosts, [Next]_vars
  PROVE  EventsReferToPosts'
<1>0. ReportTypeOK
  BY DEF TypeOK
<1>1. CASE ReportStep(livePosts) /\ UNCHANGED <<commentVars, livePosts>>
  <2>1. \A e \in stored : events'[e] = events[e]
    BY <1>0, <1>1, StoredStays
  <2>2. CASE InsertEvent(livePosts)
    BY <1>1, <2>2 DEF InsertEvent, PostKeyAllows, EventsReferToPosts
  <2>3. CASE stored' = stored
    BY <1>1, <2>1, <2>3 DEF EventsReferToPosts
  <2>4. QED
    BY <1>1, <2>2, <2>3 DEF ReportStep, Tick, RecordEvent, LoseEvent, StartReport, EndReport
<1>2. ASSUME NEW p \in PostIds, DeletePost(p) PROVE EventsReferToPosts'
  BY <1>0, <1>2, Forgotten DEF DeletePost, EventsReferToPosts
<1>3. CASE UNCHANGED <<reportVars, livePosts>>
  BY <1>3 DEF reportVars, EventsReferToPosts
<1>4. QED
  BY <1>1, <1>2, <1>3 DEF Next, vars

----------------------------------------------------------------------------
(* The lists of threads                                                      *)

\* Induction up to a number, for a set of the numbers of which something holds.
LEMMA Induction ==
  ASSUME NEW L \in Nat, NEW S, 0 \in S, \A n \in 0..(L - 1) : n \in S => n + 1 \in S
  PROVE  0..L \subseteq S
<1> DEFINE T == (0..L) \ S
<1> SUFFICES ASSUME T # {} PROVE FALSE
  OBVIOUS
<1>1. T \subseteq Nat
  OBVIOUS
<1>2. PICK m \in T : \A y \in T : ~(<<y, m>> \in OpToRel(<, Nat))
  BY <1>1, WFMin, NatLessThanWellFounded
<1>3. m # 0 /\ m \in 0..L
  OBVIOUS
<1>4. m - 1 \in T
  BY <1>3
<1>5. <<m - 1, m>> \in OpToRel(<, Nat)
  BY <1>3 DEF OpToRel
<1>6. QED
  BY <1>2, <1>4, <1>5

\* The assemblies after 0, 1, .. n iterations of scanList over the map.
IsLoop(after, order, n, orphansOnTop) ==
  after = [k \in 0..n |->
             IF k = 0 THEN Loaded(Range(order))
             ELSE Attach(after[k - 1], order[k], orphansOnTop)]

\* There is such a function, so that Threads means its last value.
LEMMA LoopExists ==
  ASSUME NEW order, Len(order) \in Nat, NEW orphansOnTop
  PROVE  \E after : IsLoop(after, order, Len(order), orphansOnTop)
<1> DEFINE L == Len(order)
           S == {n \in 0..L : \E after : IsLoop(after, order, n, orphansOnTop)}
<1>1. 0 \in S
  <2>1. IsLoop([k \in 0..0 |-> Loaded(Range(order))], order, 0, orphansOnTop)
    BY DEF IsLoop
  <2>2. QED
    BY <2>1
<1>2. ASSUME NEW n \in 0..(L - 1), n \in S PROVE n + 1 \in S
  <2>1. PICK g : IsLoop(g, order, n, orphansOnTop)
    BY <1>2
  <2> DEFINE h == [k \in 0..(n + 1) |-> IF k = n + 1 THEN Attach(g[n], order[n + 1], orphansOnTop) ELSE g[k]]
  <2>2. \A k \in 0..n : g[k] = IF k = 0 THEN Loaded(Range(order)) ELSE Attach(g[k - 1], order[k], orphansOnTop)
    BY <2>1 DEF IsLoop
  <2>3. ASSUME NEW k \in 0..(n + 1)
        PROVE  h[k] = IF k = 0 THEN Loaded(Range(order)) ELSE Attach(h[k - 1], order[k], orphansOnTop)
    <3>1. CASE k = n + 1
      BY <3>1
    <3>2. CASE k = 0
      BY <2>2, <3>2
    <3>3. CASE k \in 1..n
      <4>1. h[k] = g[k] /\ h[k - 1] = g[k - 1]
        BY <3>3
      <4>2. QED
        BY <2>2, <3>3, <4>1
    <3>4. QED
      BY <3>1, <3>2, <3>3
  <2>4. IsLoop(h, order, n + 1, orphansOnTop)
    BY <2>3 DEF IsLoop
  <2>5. n + 1 \in 0..L
    OBVIOUS
  <2>6. QED
    BY <2>4, <2>5
<1>3. 0..L \subseteq S
  <2> HIDE DEF S, L
  <2>1. L \in Nat
    BY DEF L
  <2>2. QED
  BY <1>1, <1>2, <2>1, Induction
<1>4. QED
  BY <1>3

\* Threads are the copies at the top of the last assembly, refreshed.
LEMMA ThreadsLoop ==
  ASSUME NEW order, Len(order) \in Nat, NEW orphansOnTop
  PROVE  \E after : /\ IsLoop(after, order, Len(order), orphansOnTop)
                    /\ Threads(order, orphansOnTop) = Synced(after[Len(order)])
<1> DEFINE g == CHOOSE after : IsLoop(after, order, Len(order), orphansOnTop)
<1>1. IsLoop(g, order, Len(order), orphansOnTop)
  BY LoopExists
<1>2. Threads(order, orphansOnTop) = Synced(g[Len(order)])
  BY DEF Threads, IsLoop
<1>3. QED
  BY <1>1, <1>2

\* No node is in a list twice.
NoRepeat(nodes) == \A i, j \in DOMAIN nodes : nodes[i].id = nodes[j].id => i = j

\* Appending a node that is not in the list.
LEMMA Appended ==
  ASSUME NEW X, NEW nodes \in Seq(X), NEW node, NoRepeat(nodes), node.id \notin Ids(nodes)
  PROVE  /\ Append(nodes, node) \in Seq(X \cup {node})
         /\ NoRepeat(Append(nodes, node))
         /\ Ids(Append(nodes, node)) = Ids(nodes) \cup {node.id}
<1> DEFINE more == Append(nodes, node)
<1>1. /\ Len(nodes) \in Nat /\ DOMAIN nodes = 1..Len(nodes) 
      /\ nodes \in Seq(X \cup {node})
  OBVIOUS
<1>2. /\ DOMAIN more = 1..(Len(nodes) + 1)
      /\ more[Len(nodes) + 1] = node
      /\ \A i \in 1..Len(nodes) : more[i] = nodes[i]
  BY <1>1
<1>3. more \in Seq(X \cup {node})
  BY <1>1
<1> HIDE DEF more
<1>4. NoRepeat(more)
  BY <1>1, <1>2 DEF NoRepeat, Ids
<1>5. Ids(more) = Ids(nodes) \cup {node.id}
  BY <1>1, <1>2 DEF Ids
<1>6. QED
  BY <1>3, <1>4, <1>5 DEF more

\* How many numbers there are up to one.
LEMMA CountUpTo ==
  ASSUME NEW n \in Nat
  PROVE  IsFiniteSet(1..n) /\ Cardinality(1..n) = n
  BY FS_Interval

\* A list without repetition is as long as the set of its ids.
LEMMA OnceIsDistinct ==
  ASSUME NEW nodes, Len(nodes) \in Nat, DOMAIN nodes = 1..Len(nodes), NoRepeat(nodes)
  PROVE  Distinct(nodes) /\ IsFiniteSet(Ids(nodes))
<1> DEFINE f == [i \in 1..Len(nodes) |-> nodes[i].id]
<1>1. f \in Bijection(1..Len(nodes), Ids(nodes))
  BY DEF NoRepeat, Ids, Bijection, Injection, Surjection, IsInjective
<1>2. ExistsBijection(1..Len(nodes), Ids(nodes))
  BY <1>1, Zenon DEF ExistsBijection
<1>3. IsFiniteSet(1..Len(nodes)) /\ Cardinality(1..Len(nodes)) = Len(nodes)
  BY CountUpTo
<1>4. IsFiniteSet(Ids(nodes)) /\ Cardinality(Ids(nodes)) = Len(nodes)
  BY <1>2, <1>3, FS_Bijection
<1>5. QED
  BY <1>4 DEF Distinct

\* An order is a list of all the rows, none twice.
LEMMA OrderLists ==
  ASSUME NEW rows, IsFiniteSet(rows), NEW order \in SetToSeqs(rows)
  PROVE  /\ Len(order) \in Nat /\ DOMAIN order = 1..Len(order)
         /\ Range(order) = rows
         /\ \A i, j \in DOMAIN order : order[i] = order[j] => i = j
         /\ Len(order) = Cardinality(rows)
<1>1. Cardinality(rows) \in Nat
  BY FS_CardinalityType
<1>2. /\ order \in [1..Cardinality(rows) -> rows]
      /\ \A i, j \in 1..Cardinality(rows) : i # j => order[i] # order[j]
  BY DEF SetToSeqs
<1>3. Len(order) = Cardinality(rows) /\ DOMAIN order = 1..Len(order)
  BY <1>1, <1>2
<1>4. order \in Injection(1..Cardinality(rows), rows)
  BY <1>2 DEF Injection, IsInjective
<1>5. IsFiniteSet(1..Cardinality(rows)) /\ Cardinality(1..Cardinality(rows)) = Cardinality(rows)
  BY <1>1, FS_Interval
<1>6. order \in Surjection(1..Cardinality(rows), rows)
  BY <1>4, <1>5, FS_Injection
<1>7. Range(order) = rows
  BY <1>2, <1>6 DEF Surjection, Range
<1>8. QED
  BY <1>1, <1>2, <1>3, <1>7

\* The rows that a list shows at the top.
OnTop(c, rows, orphansOnTop) ==
  /\ comments[c].parent \notin rows
  /\ comments[c].parent = Empty \/ orphansOnTop

\* Lists of nodes hold records of these two fields.
AreNodes(X) == \A node \in X : node = [id |-> node.id, replies |-> node.replies]

\* The loop invariant: seen are the rows iterated over, each of which is once
\* where it belongs, in the replies of its parent's node or at the top.
Assembled(A, rows, seen, orphansOnTop) ==
  /\ \E X : AreNodes(X) /\ A \in [byID : [rows -> [id : rows, replies : Seq(X)]], top : Seq(X)]
  /\ \A c \in rows :
       /\ A.byID[c].id = c
       /\ NoRepeat(A.byID[c].replies)
       /\ Ids(A.byID[c].replies) = {d \in seen : comments[d].parent = c}
  /\ NoRepeat(A.top)
  /\ Ids(A.top) = {d \in seen : OnTop(d, rows, orphansOnTop)}

\* It holds before the first iteration.
LEMMA LoadedAssembles ==
  ASSUME NEW rows, NEW orphansOnTop
  PROVE  Assembled(Loaded(rows), rows, {}, orphansOnTop)
<1>1. Loaded(rows) \in [byID : [rows -> [id : rows, replies : Seq({})]], top : Seq({})]
  BY DEF Loaded, Node
<1>2. NoRepeat(<<>>) /\ Ids(<<>>) = {}
  BY DEF NoRepeat, Ids
<1>3. /\ \A c \in rows : Loaded(rows).byID[c].id = c /\ Loaded(rows).byID[c].replies = <<>>
      /\ Loaded(rows).top = <<>>
  BY DEF Loaded, Node
<1>4. \E X : AreNodes(X) /\ Loaded(rows) \in [byID : [rows -> [id : rows, replies : Seq(X)]], top : Seq(X)]
  BY <1>1 DEF AreNodes
<1>5. QED
  BY <1>2, <1>3, <1>4 DEF Assembled

\* An iteration keeps it.
LEMMA AttachAssembles ==
  ASSUME NEW A, NEW rows, NEW seen, NEW orphansOnTop, NEW c \in rows, c \notin seen,
         Assembled(A, rows, seen, orphansOnTop)
  PROVE  Assembled(Attach(A, c, orphansOnTop), rows, seen \cup {c}, orphansOnTop)
<1> DEFINE parent == comments[c].parent
           node == A.byID[c]
           B == Attach(A, c, orphansOnTop)
<1>1. PICK X : AreNodes(X) /\ A \in [byID : [rows -> [id : rows, replies : Seq(X)]], top : Seq(X)]
  BY DEF Assembled
<1>2. /\ \A d \in rows : /\ A.byID[d].id = d
                         /\ A.byID[d].replies \in Seq(X)
                         /\ NoRepeat(A.byID[d].replies)
                         /\ Ids(A.byID[d].replies) = {e \in seen : comments[e].parent = d}
      /\ A.top \in Seq(X) /\ NoRepeat(A.top)
      /\ Ids(A.top) = {e \in seen : OnTop(e, rows, orphansOnTop)}
  BY <1>1 DEF Assembled
<1>3. node.id = c
  BY <1>2
<1>4. DOMAIN A.byID = rows
  BY <1>1
<1>5. AreNodes(X \cup {node})
  BY <1>1 DEF AreNodes
<1>6. CASE parent \in rows
  <2> DEFINE more == Append(A.byID[parent].replies, node)
  <2>1. B = [A EXCEPT !.byID[parent].replies = more]
    BY <1>4, <1>6 DEF Attach
  <2>2. /\ more \in Seq(X \cup {node})
        /\ NoRepeat(more)
        /\ Ids(more) = {e \in seen \cup {c} : comments[e].parent = parent}
    <3>1. node.id \notin Ids(A.byID[parent].replies)
      BY <1>2, <1>3, <1>6
    <3>2. A.byID[parent].replies \in Seq(X) /\ NoRepeat(A.byID[parent].replies)
      BY <1>2, <1>6
    <3> HIDE DEF node
    <3>3. /\ more \in Seq(X \cup {node}) /\ NoRepeat(more)
          /\ Ids(more) = Ids(A.byID[parent].replies) \cup {c}
      BY <1>3, <3>1, <3>2, Appended
    <3>4. QED
      BY <1>2, <1>6, <3>3
  <2> HIDE DEF more, node, B
  <2>3. \A d \in rows : A.byID[d] \in [id : rows, replies : Seq(X \cup {node})]
    BY <1>1
  <2>4. B \in [byID : [rows -> [id : rows, replies : Seq(X \cup {node})]], top : Seq(X \cup {node})]
    <3>1. [A.byID[parent] EXCEPT !.replies = more] \in [id : rows, replies : Seq(X \cup {node})]
      BY <1>6, <2>2, <2>3
    <3>2. [A.byID EXCEPT ![parent] = [A.byID[parent] EXCEPT !.replies = more]]
            \in [rows -> [id : rows, replies : Seq(X \cup {node})]]
      BY <1>1, <2>3, <3>1
    <3>3. A.top \in Seq(X \cup {node})
      BY <1>2
    <3>4. QED
      BY <1>1, <2>1, <3>2, <3>3
  <2>5. /\ B.top = A.top
        /\ \A d \in rows : B.byID[d].id = d
        /\ \A d \in rows : B.byID[d].replies = IF d = parent THEN more ELSE A.byID[d].replies
    BY <1>1, <1>2, <1>6, <2>1
  <2>6. \A d \in rows : /\ NoRepeat(B.byID[d].replies)
                        /\ Ids(B.byID[d].replies) = {e \in seen \cup {c} : comments[e].parent = d}
    BY <1>2, <2>2, <2>5
  <2>7. Ids(B.top) = {e \in seen \cup {c} : OnTop(e, rows, orphansOnTop)}
    BY <1>2, <1>6, <2>5 DEF OnTop
  <2>8. QED
    BY <1>2, <1>5, <2>4, <2>5, <2>6, <2>7 DEF Assembled, B
<1>7. CASE OnTop(c, rows, orphansOnTop)
  <2> DEFINE more == Append(A.top, node)
  <2>1. B = [A EXCEPT !.top = more]
    BY <1>4, <1>7 DEF Attach, OnTop
  <2>2. /\ more \in Seq(X \cup {node})
        /\ NoRepeat(more)
        /\ Ids(more) = {e \in seen \cup {c} : OnTop(e, rows, orphansOnTop)}
    <3>1. node.id \notin Ids(A.top)
      BY <1>2, <1>3
    <3>2. A.top \in Seq(X) /\ NoRepeat(A.top)
      BY <1>2
    <3> HIDE DEF node
    <3>3. more \in Seq(X \cup {node}) /\ NoRepeat(more) /\ Ids(more) = Ids(A.top) \cup {c}
      BY <1>3, <3>1, <3>2, Appended
    <3>4. QED
      BY <1>2, <1>7, <3>3
  <2> HIDE DEF more, node, B
  <2>3. /\ B.top = more /\ B.byID = A.byID
        /\ B \in [byID : [rows -> [id : rows, replies : Seq(X \cup {node})]], top : Seq(X \cup {node})]
    BY <1>1, <2>1, <2>2
  <2>4. \A d \in rows : Ids(B.byID[d].replies) = {e \in seen \cup {c} : comments[e].parent = d}
    BY <1>2, <1>7, <2>3 DEF OnTop
  <2>5. QED
    BY <1>2, <1>5, <2>2, <2>3, <2>4 DEF Assembled, B
<1>8. CASE parent \notin rows /\ ~OnTop(c, rows, orphansOnTop)
  <2>1. B = A
    BY <1>4, <1>8 DEF Attach, OnTop
  <2> HIDE DEF node, B
  <2>2. /\ \A d \in rows : Ids(A.byID[d].replies) = {e \in seen \cup {c} : comments[e].parent = d}
        /\ Ids(A.top) = {e \in seen \cup {c} : OnTop(e, rows, orphansOnTop)}
    BY <1>2, <1>8
  <2>3. QED
    BY <1>1, <1>2, <2>1, <2>2 DEF Assembled, B
<1>9. QED
  BY <1>6, <1>7, <1>8

\* The loop as a whole.
LEMMA LoopAssembles ==
  ASSUME NEW order, Len(order) \in Nat, DOMAIN order = 1..Len(order),
         \A i, j \in DOMAIN order : order[i] = order[j] => i = j,
         NEW orphansOnTop, NEW after, IsLoop(after, order, Len(order), orphansOnTop)
  PROVE  Assembled(after[Len(order)], Range(order), Range(order), orphansOnTop)
<1> DEFINE rows == Range(order)
           L == Len(order)
           seen(n) == {order[k] : k \in 1..n}
           S == {n \in 0..L : Assembled(after[n], rows, seen(n), orphansOnTop)}
<1>1. \A n \in 0..L : after[n] = IF n = 0 THEN Loaded(rows)
                                 ELSE Attach(after[n - 1], order[n], orphansOnTop)
  BY DEF IsLoop
<1>2. seen(0) = {} /\ seen(L) = rows
  BY DEF Range
<1>3. 0 \in S
  <2>1. after[0] = Loaded(rows)
    BY <1>1
  <2> HIDE DEF seen
  <2>2. QED
    BY <1>2, <2>1, LoadedAssembles
<1>4. ASSUME NEW n \in 0..(L - 1), n \in S PROVE n + 1 \in S
  <2>1. n + 1 \in 1..L
    OBVIOUS
  <2>2. after[n + 1] = Attach(after[n], order[n + 1], orphansOnTop)
    BY <1>1, <2>1
  <2>3. order[n + 1] \in rows /\ order[n + 1] \notin seen(n)
    BY <2>1 DEF Range
  <2>4. seen(n + 1) = seen(n) \cup {order[n + 1]}
    <3>1. 1..(n + 1) = (1..n) \cup {n + 1}
      BY <2>1
    <3>2. QED
      BY <3>1
  <2>5. Assembled(after[n], rows, seen(n), orphansOnTop)
    BY <1>4
  <2> HIDE DEF seen, rows
  <2>6. QED
    BY <2>1, <2>2, <2>3, <2>4, <2>5, AttachAssembles
<1>5. L \in S
  <2>1. 0..L \subseteq S
    <3> HIDE DEF S, L
    <3>1. L \in Nat
      BY DEF L
    <3>2. \A n \in 0..(L - 1) : n \in S => n + 1 \in S
      BY <1>4
    <3>3. QED
      BY <1>3, <3>1, <3>2, Induction
  <2> HIDE DEF S, L
  <2>2. L \in 0..L
    BY DEF L
  <2>3. QED
    BY <2>1, <2>2
<1>6. QED
  BY <1>2, <1>5

\* In whatever order the map is iterated, the threads are these.
LEMMA ThreadsHold ==
  ASSUME NEW rows, IsFiniteSet(rows), NEW order \in SetToSeqs(rows), NEW orphansOnTop,
         NEW shown, shown = Threads(order, orphansOnTop)
  PROVE  /\ Len(shown) \in Nat /\ DOMAIN shown = 1..Len(shown)
         /\ NoRepeat(shown)
         /\ Ids(shown) = {c \in rows : OnTop(c, rows, orphansOnTop)}
         /\ \A n \in DOMAIN shown :
              /\ Distinct(shown[n].replies)
              /\ Ids(shown[n].replies) = {c \in rows : comments[c].parent = shown[n].id}
<1>1. /\ Len(order) \in Nat /\ DOMAIN order = 1..Len(order) /\ Range(order) = rows
      /\ \A i, j \in DOMAIN order : order[i] = order[j] => i = j
  BY OrderLists
<1>2. PICK after : /\ IsLoop(after, order, Len(order), orphansOnTop)
                   /\ Threads(order, orphansOnTop) = Synced(after[Len(order)])
  BY <1>1, ThreadsLoop
<1> DEFINE A == after[Len(order)]
<1>3. Assembled(A, rows, rows, orphansOnTop)
  BY <1>1, <1>2, LoopAssembles
<1>4. shown = Synced(A)
  BY <1>2
<1> HIDE DEF A
<1>5. PICK X : AreNodes(X) /\ A \in [byID : [rows -> [id : rows, replies : Seq(X)]], top : Seq(X)]
  BY <1>3 DEF Assembled
<1>6. /\ Len(A.top) \in Nat /\ DOMAIN A.top = 1..Len(A.top)
      /\ \A n \in DOMAIN A.top :
           A.top[n] = [id |-> A.top[n].id, replies |-> A.top[n].replies]
  BY <1>5 DEF AreNodes
<1>7. /\ DOMAIN shown = 1..Len(A.top)
      /\ \A n \in 1..Len(A.top) :
           /\ shown[n].id = A.top[n].id
           /\ shown[n].replies = A.byID[A.top[n].id].replies
  BY <1>4, <1>6 DEF Synced
<1>8. Len(shown) = Len(A.top)
  BY <1>4, <1>6 DEF Synced
<1>9. Ids(shown) = {c \in rows : OnTop(c, rows, orphansOnTop)} /\ NoRepeat(shown)
  <2>1. Ids(A.top) = {c \in rows : OnTop(c, rows, orphansOnTop)} /\ NoRepeat(A.top)
    BY <1>3 DEF Assembled
  <2>2. Ids(shown) = Ids(A.top)
    BY <1>6, <1>7 DEF Ids
  <2>3. NoRepeat(shown)
    BY <1>6, <1>7, <2>1 DEF NoRepeat
  <2>4. QED
    BY <2>1, <2>2, <2>3
<1>10. ASSUME NEW n \in DOMAIN shown
       PROVE  /\ Distinct(shown[n].replies)
              /\ Ids(shown[n].replies) = {c \in rows : comments[c].parent = shown[n].id}
  <2> DEFINE c == shown[n].id
             replies == A.byID[c].replies
  <2>1. c \in rows
    BY <1>9 DEF Ids
  <2>2. shown[n].replies = replies
    BY <1>7
  <2>3. /\ NoRepeat(replies)
        /\ Ids(replies) = {d \in rows : comments[d].parent = c}
    BY <1>3, <2>1 DEF Assembled
  <2>4. Len(replies) \in Nat /\ DOMAIN replies = 1..Len(replies)
    BY <1>5, <2>1
  <2> HIDE DEF replies
  <2>5. Distinct(replies)
    BY <2>3, <2>4, OnceIsDistinct
  <2>6. QED
    BY <2>2, <2>3, <2>5
<1>11. QED
  BY <1>6, <1>7, <1>8, <1>9, <1>10

\* The public list, of any comments.
LEMMA PublicIsComplete ==
  ASSUME CommentsTypeOK, IsFiniteSet(LiveComments)
  PROVE  PublicComplete
<1> SUFFICES ASSUME NEW p \in PostIds, NEW order \in SetToSeqs(OfPost(p) \cap Approved)
             PROVE  LET shown == PublicThreads(order)
                        shows(nodes, parent) ==
                          Distinct(nodes)
                            /\ Ids(nodes) = {c \in OfPost(p) \cap Approved : comments[c].parent = parent}
                    IN  /\ shows(shown, Empty)
                        /\ \A n \in DOMAIN shown : shows(shown[n].replies, shown[n].id)
  BY DEF PublicComplete
<1> DEFINE rows == OfPost(p) \cap Approved
           orphansOnTop == FALSE
           shown == Threads(order, orphansOnTop)
<1>1. rows \subseteq LiveComments /\ rows \subseteq CommentIds
  BY DEF OfPost, Approved, LiveComments
<1>2. IsFiniteSet(rows)
  BY <1>1, FS_Subset
<1> HIDE DEF rows, orphansOnTop, shown
<1>3. /\ Len(shown) \in Nat /\ DOMAIN shown = 1..Len(shown)
      /\ NoRepeat(shown)
      /\ Ids(shown) = {c \in rows : OnTop(c, rows, orphansOnTop)}
      /\ \A n \in DOMAIN shown :
           /\ Distinct(shown[n].replies)
           /\ Ids(shown[n].replies) = {c \in rows : comments[c].parent = shown[n].id}
  <2>1. order \in SetToSeqs(rows)
    BY DEF rows
  <2>2. QED
    BY <1>2, <2>1, ThreadsHold DEF shown
<1>4. Distinct(shown)
  BY <1>3, OnceIsDistinct
<1>5. Empty \notin rows
  BY <1>1, CommentAssumption
<1>6. Ids(shown) = {c \in rows : comments[c].parent = Empty}
  BY <1>3, <1>5 DEF OnTop, orphansOnTop
<1>7. QED
  BY <1>3, <1>4, <1>6 DEF rows, orphansOnTop, shown, PublicThreads

\* Two sets without a common element.
LEMMA Parts ==
  ASSUME NEW S, IsFiniteSet(S), NEW T \in SUBSET S
  PROVE  IsFiniteSet(T) /\ IsFiniteSet(S \ T) /\ Cardinality(S) = Cardinality(T) + Cardinality(S \ T)
<1>1. IsFiniteSet(T) /\ IsFiniteSet(S \ T) 
  BY FS_Subset
<1>2. S = T \cup (S \ T) /\ T \cap (S \ T) = {}
  OBVIOUS
<1>3. Cardinality(T) \in Nat /\ Cardinality(S \ T) \in Nat
  BY <1>1, FS_CardinalityType
<1>4. Cardinality(T \cup (S \ T)) = Cardinality(T) + Cardinality(S \ T) - Cardinality(T \cap (S \ T))
  BY <1>1, FS_Union
<1>5. Cardinality(T \cap (S \ T)) = 0
  BY <1>2, FS_EmptySet
<1>6. QED
  BY <1>1, <1>2, <1>3, <1>4, <1>5

\* The admin lists, of threads that are flat.
LEMMA AdminIsComplete ==
  ASSUME CommentsTypeOK, ThreadsAreFlat, IsFiniteSet(LiveComments)
  PROVE  AdminComplete
<1> SUFFICES ASSUME NEW filter \in BOOLEAN \cup {Empty}, NEW order \in SetToSeqs(Filtered(filter))
             PROVE  LET shown == AdminThreads(order)
                        below == {b \in (DOMAIN shown) \X CommentIds :
                                    b[2] \in Ids(shown[b[1]].replies)}
                    IN  /\ Distinct(shown) /\ \A n \in DOMAIN shown : Distinct(shown[n].replies)
                        /\ Ids(shown) \cup {b[2] : b \in below} = Filtered(filter)
                        /\ Len(shown) + Cardinality(below) = Cardinality(Filtered(filter))
  BY DEF AdminComplete
<1> DEFINE rows == Filtered(filter)
           orphansOnTop == OrphansOnTop
           shown == Threads(order, orphansOnTop)
           top == {c \in rows : comments[c].parent \notin rows}
           below == {b \in (DOMAIN shown) \X CommentIds : b[2] \in Ids(shown[b[1]].replies)}
<1>1. rows \subseteq LiveComments /\ rows \subseteq CommentIds
  BY DEF Filtered, LiveComments
<1>2. IsFiniteSet(rows)
  BY <1>1, FS_Subset
<1> HIDE DEF rows, orphansOnTop, shown
<1>3. /\ Len(shown) \in Nat /\ DOMAIN shown = 1..Len(shown)
      /\ NoRepeat(shown)
      /\ Ids(shown) = {c \in rows : OnTop(c, rows, orphansOnTop)}
      /\ \A n \in DOMAIN shown :
           /\ Distinct(shown[n].replies)
           /\ Ids(shown[n].replies) = {c \in rows : comments[c].parent = shown[n].id}
  <2>1. order \in SetToSeqs(rows)
    BY DEF rows
  <2>2. QED
    BY <1>2, <2>1, ThreadsHold DEF shown
<1>4. Distinct(shown)
  BY <1>3, OnceIsDistinct
<1>5. Ids(shown) = top
  BY <1>3 DEF OnTop, orphansOnTop, OrphansOnTop
\* The parent of a row that is not on top is there.
<1>6. \A c \in rows \ top : \E n \in DOMAIN shown : shown[n].id = comments[c].parent
  <2> TAKE c \in rows \ top
  <2>1. comments[c].parent \in rows /\ comments[c].parent # Empty
    BY <1>1, CommentAssumption
  <2>2. comments[comments[c].parent].parent = Empty
    BY <1>1, <2>1 DEF ThreadsAreFlat
  <2>3. comments[c].parent \in Ids(shown)
    BY <1>1, <1>5, <2>1, <2>2, CommentAssumption
  <2>4. QED
    BY <2>3 DEF Ids
<1> DEFINE place(c) == CHOOSE n \in DOMAIN shown : shown[n].id = comments[c].parent
           f == [c \in rows \ top |-> <<place(c), c>>]
<1>7. \A c \in rows \ top : place(c) \in DOMAIN shown /\ shown[place(c)].id = comments[c].parent
  BY <1>6
<1>8. \A b \in below : /\ b[2] \in rows \ top /\ b[1] \in DOMAIN shown
                       /\ shown[b[1]].id = comments[b[2]].parent
                       /\ b = <<b[1], b[2]>>
  <2> TAKE b \in below
  <2>1. b[1] \in DOMAIN shown /\ b[2] \in Ids(shown[b[1]].replies) /\ b = <<b[1], b[2]>>
    OBVIOUS
  <2>2. b[2] \in rows /\ comments[b[2]].parent = shown[b[1]].id
    BY <1>3, <2>1
  <2>3. shown[b[1]].id \in rows
    BY <1>5, <2>1 DEF Ids
  <2>4. QED
    BY <2>1, <2>2, <2>3
<1> HIDE DEF place
<1>9. \A c \in rows \ top : f[c] \in below
  <2> TAKE c \in rows \ top
  <2>1. c \in Ids(shown[place(c)].replies)
    BY <1>3, <1>7
  <2>2. QED
    BY <1>1, <1>7, <2>1
<1>10. \A b \in below : f[b[2]] = b
  <2> TAKE b \in below
  <2>1. place(b[2]) = b[1]
    BY <1>3, <1>7, <1>8 DEF NoRepeat
  <2>2. QED
    BY <1>8, <2>1
<1>11. f \in Bijection(rows \ top, below)
  <2> HIDE DEF below, top
  <2>1. f \in [rows \ top -> below]
    BY <1>9
  <2>2. \A c, d \in rows \ top : f[c] = f[d] => c = d
    OBVIOUS
  <2>3. \A b \in below : b[2] \in rows \ top /\ f[b[2]] = b
    BY <1>8, <1>10
  <2> HIDE DEF f
  <2>4. QED
    BY <2>1, <2>2, <2>3 DEF Bijection, Injection, Surjection, IsInjective
<1> HIDE DEF f, below
<1>12. Cardinality(below) = Cardinality(rows \ top)
  <2>1. ExistsBijection(rows \ top, below)
    BY <1>11, Zenon DEF ExistsBijection
  <2>2. IsFiniteSet(rows \ top)
    BY <1>2, FS_Subset
  <2>3. QED
    BY <2>1, <2>2, FS_Bijection
<1>13. Len(shown) + Cardinality(below) = Cardinality(rows)
  <2>1. Cardinality(rows) = Cardinality(top) + Cardinality(rows \ top)
    BY <1>2, Parts
  <2>2. Cardinality(top) = Len(shown)
    BY <1>4, <1>5 DEF Distinct
  <2>3. QED
    BY <1>12, <2>1, <2>2
<1>14. Ids(shown) \cup {b[2] : b \in below} = rows
  <2>1. \A c \in rows \ top : \E b \in below : b[2] = c
    BY <1>9 DEF f
  <2>2. QED
    BY <1>5, <1>8, <2>1
<1>15. QED
  BY <1>3, <1>4, <1>13, <1>14 DEF AdminThreads, orphansOnTop, shown, rows, below

\* A table that began empty and grows by a row at a time is finite.
TableFinite == IsFiniteSet(LiveComments)

LEMMA StepKeepsFinite ==
  ASSUME TypeOK, IsFiniteSet(LiveComments), [Next]_vars
  PROVE  IsFiniteSet(LiveComments')
<1>0. CommentsTypeOK
  BY DEF TypeOK
<1>1. ASSUME LiveComments' \subseteq LiveComments PROVE IsFiniteSet(LiveComments')
  BY <1>1, FS_Subset
<1>2. ASSUME NEW c \in CommentIds, comments[c] = Unused, NEW row \in CommentRows,
             comments' = [comments EXCEPT ![c] = row]
      PROVE  IsFiniteSet(LiveComments')
  <2>1. LiveComments' = LiveComments \cup {c}
    BY <1>0, <1>2, CommentAdded
  <2>2. QED
    BY <2>1, FS_AddElement
<1>3. ASSUME NEW p \in PostIds, CreateComment(p, livePosts) PROVE IsFiniteSet(LiveComments')
  <2>1. [post |-> p, parent |-> Empty, approved |-> FALSE] \in CommentRows
    BY DEF CommentRows
  <2>2. QED
    BY <1>2, <1>3, <2>1 DEF CreateComment
<1>4. ASSUME NEW a \in Admins, InsertReply(a, livePosts) PROVE IsFiniteSet(LiveComments')
  <2>1. replyReq[a].post \in PostIds /\ replyReq[a].parent \in CommentIds
    BY <1>0, <1>4 DEF CommentsTypeOK, InsertReply, ReplyReqs, Idle
  <2>2. [post |-> replyReq[a].post, parent |-> replyReq[a].parent, approved |-> TRUE]
          \in CommentRows
    BY <2>1 DEF CommentRows
  <2>3. QED
    BY <1>2, <1>4, <2>2 DEF InsertReply
<1>5. ASSUME NEW c \in CommentIds, NEW approved \in BOOLEAN, SetApproval(c, approved)
      PROVE  IsFiniteSet(LiveComments')
  <2>1. LiveComments' \subseteq LiveComments
    BY <1>0, <1>5 DEF SetApproval, LiveComments, CommentsTypeOK
  <2>2. QED
    BY <1>1, <2>1
<1>6. ASSUME NEW rows, rows \subseteq LiveComments, RemoveRows(rows)
      PROVE  IsFiniteSet(LiveComments')
  BY <1>0, <1>1, <1>6, RowsRemoved
<1>7. ASSUME comments' = comments PROVE IsFiniteSet(LiveComments')
  BY <1>1, <1>7 DEF LiveComments
<1>8. CASE CommentStep(livePosts)
  BY <1>3, <1>4, <1>5, <1>6, <1>7, <1>8 DEF CommentStep, EndReply, FindParent, DeleteComment
<1>9. ASSUME NEW p \in PostIds, DeletePost(p) PROVE IsFiniteSet(LiveComments')
  BY <1>6, <1>9 DEF DeletePost, RemoveCommentsOf, OfPost
<1>10. CASE UNCHANGED commentVars
  BY <1>7, <1>10 DEF commentVars
<1>11. QED
  BY <1>8, <1>9, <1>10 DEF Next, vars

----------------------------------------------------------------------------
(* The theorems                                                              *)

LEMMA StepTyped == TypeOK /\ [Next]_vars => TypeOK'
<1> SUFFICES ASSUME TypeOK, [Next]_vars PROVE TypeOK'
  OBVIOUS
<1> USE DEF TypeOK
<1>1. CASE CommentStep(livePosts) /\ UNCHANGED <<reportVars, livePosts>>
  BY <1>1, CommentStepTyped DEF reportVars, ReportTypeOK
<1>2. CASE ReportStep(livePosts) /\ UNCHANGED <<commentVars, livePosts>>
  BY <1>2, ReportStepTyped DEF commentVars, CommentsTypeOK
<1>3. ASSUME NEW p \in PostIds, DeletePost(p) PROVE TypeOK'
  <2>1. CommentsTypeOK'
    BY <1>3 DEF DeletePost, RemoveCommentsOf, RemoveRows, CommentsTypeOK
  <2>2. QED
    BY <1>3, <2>1, Forgotten DEF DeletePost
<1>4. CASE UNCHANGED vars
  BY <1>4 DEF vars, commentVars, reportVars, CommentsTypeOK, ReportTypeOK
<1>5. QED
  BY <1>1, <1>2, <1>3, <1>4 DEF Next

LEMMA StepKeepsThreads ==
  ASSUME TypeOK, ThreadsAreFlat, RepliesAim, [Next]_vars
  PROVE  ThreadsAreFlat' /\ RepliesAim'
<1>0. CommentsTypeOK
  BY DEF TypeOK
<1>1. CASE CommentStep(livePosts) /\ UNCHANGED <<reportVars, livePosts>>
  BY <1>0, <1>1, CommentStepKeepsThreads
<1>2. ASSUME NEW p \in PostIds, DeletePost(p) PROVE ThreadsAreFlat' /\ RepliesAim'
  BY <1>0, <1>2, RemovalKeepsThreads DEF DeletePost, RemoveCommentsOf, OfPost
<1>3. CASE UNCHANGED <<commentVars, livePosts>>
  BY <1>3 DEF commentVars, ThreadsAreFlat, RepliesAim, LiveComments
<1>4. QED
  BY <1>1, <1>2, <1>3 DEF Next, vars

LEMMA InitHolds ==
  Init => TypeOK /\ ThreadsAreFlat /\ RepliesAim /\ EventsReferToPosts /\ TotalsCovered
<1> SUFFICES ASSUME Init
             PROVE  TypeOK /\ ThreadsAreFlat /\ RepliesAim /\ EventsReferToPosts /\ TotalsCovered
  OBVIOUS
<1>1. CommentsTypeOK
  BY DEF Init, CommentsInit, CommentsTypeOK, ReplyReqs
<1>2. ReportTypeOK
  BY ReportAssumption DEF Init, ReportInit, ReportTypeOK
<1>3. ThreadsAreFlat
  BY DEF Init, CommentsInit, ThreadsAreFlat, LiveComments
<1>4. RepliesAim
  BY DEF Init, CommentsInit, RepliesAim, Idle
<1>5. EventsReferToPosts /\ TotalsCovered
  BY DEF Init, ReportInit, EventsReferToPosts, TotalsCovered
<1>6. QED
  BY <1>1, <1>2, <1>3, <1>4, <1>5 DEF Init, TypeOK

\* Type correctness of comments, events, reports and replies in progress, for
\* any number of them: repository.go of internal/comments and internal/analytics.
THEOREM ReadersTyped == Spec => []TypeOK
BY InitHolds, StepTyped, PTL DEF Spec

\* Threads of comments stay two levels deep and on one post, however replies,
\* deletions of comments and of posts interleave: internal/comments/service.go,
\* AdminReply.
THEOREM ThreadsStayFlat == Spec => []ThreadsAreFlat
<1>1. TypeOK /\ ThreadsAreFlat /\ RepliesAim /\ [Next]_vars
        => TypeOK' /\ ThreadsAreFlat' /\ RepliesAim'
  BY StepTyped, StepKeepsThreads
<1>2. QED
  BY <1>1, InitHolds, PTL DEF Spec

LEMMA TableStaysFinite == Spec => []TableFinite
<1>1. Init => TableFinite
  <2>1. Init => LiveComments = {}
    BY DEF Init, CommentsInit, LiveComments
  <2>2. QED
    BY <2>1, FS_EmptySet DEF TableFinite
<1>2. TypeOK /\ TableFinite /\ [Next]_vars => TableFinite'
  BY StepKeepsFinite DEF TableFinite
<1>3. QED
  BY <1>1, <1>2, ReadersTyped, PTL DEF Spec

\* The public list of a post shows each approved comment and approved reply once
\* and nothing else, in whatever order Go iterates the map: ListPublicByPost of
\* internal/comments/repository.go, over any number of comments.
THEOREM PublicAlwaysComplete == Spec => []PublicComplete
<1>1. TypeOK /\ TableFinite => PublicComplete
  BY PublicIsComplete DEF TypeOK, TableFinite
<1>2. QED
  BY <1>1, ReadersTyped, TableStaysFinite, PTL

\* The admin lists show every comment their filter selects once, a pending reply
\* of an approved comment and an approved reply of a pending one included, on
\* which flat threads are needed: scanList of internal/comments/repository.go.
THEOREM AdminAlwaysComplete == Spec => []AdminComplete
<1>1. TypeOK /\ ThreadsAreFlat /\ TableFinite => AdminComplete
  BY AdminIsComplete DEF TypeOK, TableFinite
<1>2. QED
  BY <1>1, ReadersTyped, ThreadsStayFlat, TableStaysFinite, PTL

\* No row of analytics_events refers to a post that is gone: the foreign key of
\* the table and its ON DELETE SET NULL.
THEOREM EventsAlwaysRefer == Spec => []EventsReferToPosts
<1>1. TypeOK /\ EventsReferToPosts /\ [Next]_vars => TypeOK' /\ EventsReferToPosts'
  BY StepTyped, StepKeepsReferences
<1>2. QED
  BY <1>1, InitHolds, PTL DEF Spec

\* The devices of a report, and its days as long as they are not cut off, cover
\* its total, for any number of events, reports and posts deleted meanwhile:
\* Overview and PostStats of internal/analytics/repository.go.
THEOREM PartsAlwaysCover == Spec => []PartsCoverTotal
<1>1. TypeOK /\ TotalsCovered /\ [Next]_vars => TypeOK' /\ TotalsCovered'
  BY StepTyped, StepKeepsTotals
<1>2. TypeOK /\ TotalsCovered => PartsCoverTotal
  BY CoverageFollows DEF TypeOK
<1>3. QED
  BY <1>1, <1>2, InitHolds, PTL DEF Spec
=============================================================================
