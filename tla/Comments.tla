------------------------------ MODULE Comments ------------------------------
(****************************************************************************)
(* Comments on posts: internal/comments over one table.  A visitor's comment *)
(* waits for approval; an admin's reply is approved and hangs under a comment*)
(* of its post.  A reply takes two statements, the list in which its parent  *)
(* is looked up and the INSERT; everything else is one.  The lists are read  *)
(* into a Go map and assembled into threads in whatever order the map is     *)
(* iterated, so ORDER BY does not survive.                                   *)
(****************************************************************************)
EXTENDS ReaderTables, Naturals, SequencesExt

CONSTANTS
  Admins,       \* concurrent replies, at most this many at a time
  CommentIds,   \* bound: the UUIDs comments are ever created with
  Deleted       \* the row is gone

CommentRows ==
  [post : PostIds, parent : CommentIds \cup {Empty}, approved : BOOLEAN]

ASSUME CommentAssumption ==
  /\ Empty \notin CommentIds
  /\ Unused # Deleted
  /\ \A row \in CommentRows : row \notin {Unused, Deleted}

VARIABLES
  comments,     \* the table: the row under each id, Unused or Deleted without one
  replyReq      \* the replies between their two statements

commentVars == <<comments, replyReq>>

Idle == [pc |-> "idle"]
ReplyReqs == {Idle} \cup [pc : {"insert"}, post : PostIds, parent : CommentIds]

CommentsTypeOK ==
  /\ comments \in [CommentIds -> CommentRows \cup {Unused, Deleted}]
  /\ replyReq \in [Admins -> ReplyReqs]

CommentsInit ==
  /\ comments = [c \in CommentIds |-> Unused]
  /\ replyReq = [a \in Admins |-> Idle]

LiveComments == {c \in CommentIds : comments[c] \notin {Unused, Deleted}}

\* The ids one WHERE clause selects.
OfPost(p) == {c \in LiveComments : comments[c].post = p}
Approved == {c \in LiveComments : comments[c].approved}
Filtered(filter) ==
  IF filter = Empty THEN LiveComments
  ELSE {c \in LiveComments : comments[c].approved = filter}

----------------------------------------------------------------------------
(* The assembly of threads from the rows of one list                         *)

Node(c) == [id |-> c, replies |-> <<>>]

\* One iteration over the map.  Appending a node copies it as it is by then.
\* The admin list shows a comment whose parent is not in the list at the top,
\* the public one drops it.
Attach(assembly, c, orphansOnTop) ==
  LET parent == comments[c].parent
      node == assembly.byID[c]
  IN  IF parent \in DOMAIN assembly.byID
      THEN [assembly EXCEPT !.byID[parent].replies = Append(@, node)]
      ELSE IF parent = Empty \/ orphansOnTop
      THEN [assembly EXCEPT !.top = Append(@, node)]
      ELSE assembly

\* The copies at the top get the replies their originals have in the end.
\* Mutant: the copies are left as they were made.
Unsynced(assembly) == assembly.top
Synced(assembly) ==
  [n \in DOMAIN assembly.top |->
     LET node == assembly.top[n]
     IN  [node EXCEPT !.replies = assembly.byID[node.id].replies]]

\* The nodes of the rows before the first iteration.
Loaded(rows) == [byID |-> [c \in rows |-> Node(c)], top |-> <<>>]

\* order is the order in which the map is iterated; after[n] is the assembly after
\* n iterations.
Threads(order, orphansOnTop) ==
  LET after[n \in 0..Len(order)] ==
        IF n = 0 THEN Loaded(Range(order))
        ELSE Attach(after[n - 1], order[n], orphansOnTop)
  IN  Synced(after[Len(order)])

\* Mutant: replies whose parent is not in the list are dropped here too.
OrphansDropped == FALSE
OrphansOnTop == TRUE

PublicThreads(order) == Threads(order, FALSE)
AdminThreads(order) == Threads(order, OrphansOnTop)

----------------------------------------------------------------------------
(* Operations                                                                *)

\* One INSERT, refused when the post is gone; drafts and archived posts may be
\* commented on.
CreateComment(p, livePosts) ==
  /\ p \in livePosts
  /\ \E c \in CommentIds :
       /\ comments[c] = Unused
       /\ comments' = [comments EXCEPT ![c] =
            [post |-> p, parent |-> Empty, approved |-> FALSE]]
  /\ UNCHANGED replyReq

\* AdminReply looks for the parent among the threads of the full list, at the
\* top only: 404 for a reply.
\* Mutant: it looks among all comments.
Anywhere(c) == c \in LiveComments
Repliable(c) == c \in LiveComments /\ comments[c].parent = Empty

FindParent(a, c) ==
  /\ replyReq[a] = Idle
  /\ Repliable(c)
  /\ replyReq' = [replyReq EXCEPT ![a] =
       [pc |-> "insert", post |-> comments[c].post, parent |-> c]]
  /\ UNCHANGED comments

\* comments.parent_id refers to comments.
ParentKeyAllows(c) == c \in LiveComments

\* INSERT ... is_approved TRUE, refused when the parent or the post is gone.
InsertReply(a, livePosts) ==
  /\ replyReq[a].pc = "insert"
  /\ LET r == replyReq[a]
     IN  /\ ParentKeyAllows(r.parent) /\ r.post \in livePosts
         /\ \E c \in CommentIds :
              /\ comments[c] = Unused
              /\ comments' = [comments EXCEPT ![c] =
                   [post |-> r.post, parent |-> r.parent, approved |-> TRUE]]
  /\ replyReq' = [replyReq EXCEPT ![a] = Idle]

\* The statement is refused or fails: 500, and the table is as it was.
EndReply(a) ==
  /\ replyReq[a] # Idle
  /\ replyReq' = [replyReq EXCEPT ![a] = Idle]
  /\ UNCHANGED comments

SetApproval(c, approved) ==
  /\ c \in LiveComments
  /\ comments' = [comments EXCEPT ![c].approved = approved]
  /\ UNCHANGED replyReq

\* parent_id is ON DELETE CASCADE: rows go with all that hang under them, which
\* is the smallest set that holds them and the children of its members.
Cascade(rows) ==
  {c \in LiveComments : \A S \in SUBSET LiveComments :
     rows \subseteq S /\ (\A d \in LiveComments : comments[d].parent \in S => d \in S)
       => c \in S}

RemoveRows(rows) ==
  /\ comments' = [c \in CommentIds |-> IF c \in Cascade(rows) THEN Deleted ELSE comments[c]]
  /\ UNCHANGED replyReq

DeleteComment(c) == c \in LiveComments /\ RemoveRows({c})

\* comments.post_id is ON DELETE CASCADE.
RemoveCommentsOf(p) == RemoveRows(OfPost(p))

CommentStep(livePosts) ==
  \/ \E p \in PostIds : CreateComment(p, livePosts)
  \/ \E a \in Admins : InsertReply(a, livePosts) \/ EndReply(a)
  \/ \E a \in Admins, c \in CommentIds : FindParent(a, c)
  \/ \E c \in CommentIds, approved \in BOOLEAN : SetApproval(c, approved)
  \/ \E c \in CommentIds : DeleteComment(c)
=============================================================================
