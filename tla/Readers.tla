------------------------------- MODULE Readers -------------------------------
(****************************************************************************)
(* What readers leave on a post, comments and analytics events, when the     *)
(* post is deleted meanwhile: one DELETE, and Postgres deletes the comments   *)
(* (ON DELETE CASCADE) and unlinks the events (ON DELETE SET NULL) with it.   *)
(****************************************************************************)
EXTENDS Comments, AnalyticsReport

VARIABLE livePosts      \* the posts that exist

vars == <<commentVars, reportVars, livePosts>>

TypeOK == CommentsTypeOK /\ ReportTypeOK /\ livePosts \subseteq PostIds

Init == CommentsInit /\ ReportInit /\ livePosts = PostIds

DeletePost(p) ==
  /\ p \in livePosts
  /\ livePosts' = livePosts \ {p}
  /\ RemoveCommentsOf(p)
  /\ ForgetPost(p)

Next ==
  \/ CommentStep(livePosts) /\ UNCHANGED <<reportVars, livePosts>>
  \/ ReportStep(livePosts) /\ UNCHANGED <<commentVars, livePosts>>
  \/ \E p \in PostIds : DeletePost(p)

Spec == Init /\ [][Next]_vars

----------------------------------------------------------------------------
(* Comments                                                                  *)

\* Threads are two levels deep: a reply hangs under a comment that exists, is
\* none itself and is on the same post, whatever was deleted between the two
\* statements of AdminReply.  The assembly of the lists relies on it.
ThreadsAreFlat ==
  \A c \in LiveComments :
    /\ comments[c].post \in livePosts
    /\ comments[c].parent # Empty =>
         /\ comments[c].parent \in LiveComments
         /\ comments[comments[c].parent].parent = Empty
         /\ comments[comments[c].parent].post = comments[c].post

Ids(nodes) == {nodes[n].id : n \in DOMAIN nodes}
Distinct(nodes) == Cardinality(Ids(nodes)) = Len(nodes)

\* In whatever order the map is iterated, the public list shows each approved
\* comment once with each of its approved replies once, and nothing else: no
\* reply of a comment that is not approved.
PublicComplete ==
  \A p \in PostIds : \A order \in SetToSeqs(OfPost(p) \cap Approved) :
    LET shown == PublicThreads(order)
        shows(nodes, parent) ==
          Distinct(nodes)
            /\ Ids(nodes) = {c \in OfPost(p) \cap Approved : comments[c].parent = parent}
    IN  /\ shows(shown, Empty)
        /\ \A n \in DOMAIN shown : shows(shown[n].replies, shown[n].id)

\* Each admin list shows every comment its filter selects, once: a pending
\* reply of an approved comment is not hidden with it.
AdminComplete ==
  \A filter \in BOOLEAN \cup {Empty} : \A order \in SetToSeqs(Filtered(filter)) :
    LET shown == AdminThreads(order)
        below == {b \in (DOMAIN shown) \X CommentIds :
                    b[2] \in Ids(shown[b[1]].replies)}
    IN  /\ Distinct(shown) /\ \A n \in DOMAIN shown : Distinct(shown[n].replies)
        /\ Ids(shown) \cup {b[2] : b \in below} = Filtered(filter)
        /\ Len(shown) + Cardinality(below) = Cardinality(Filtered(filter))

----------------------------------------------------------------------------
(* Reports                                                                   *)

\* An event of a deleted post is never attributed: it lost its post, or its
\* insert was refused.  topPosts relies on it for titles.
EventsReferToPosts == \A e \in stored : events[e].post \in livePosts \cup {Empty}

\* The devices of a report, and its days, never add up to less than the total
\* above them, although they are counted later and posts are deleted in between;
\* on a post's report as long as the post exists.  Of the curve by days this holds
\* unless events lie on more days than were asked for.  They may: the last n days
\* are parts of n + 1 calendar days.
PartsCoverTotal ==
  \A r \in Reports :
    report[r] # NoReport /\ report[r].post \in livePosts \cup {Empty} =>
      /\ BreakdownSum(r) >= report[r].total
      /\ Cardinality(ActiveDays(r)) <= safeLimit(report[r].days)
           => CurveSum(r) >= report[r].total
=============================================================================
