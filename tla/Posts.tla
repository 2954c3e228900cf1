-------------------------------- MODULE Posts --------------------------------
(****************************************************************************)
(* The posts of the site: internal/posts over raw SQL.  Create, UpdateStatus *)
(* and Delete are one statement each.  Update reads the post, fills what the *)
(* request does not give from the row it read, and writes the whole row back *)
(* except status and published_at; other requests run in between.            *)
(*                                                                          *)
(* title stands for every text field Update coalesces the same way (excerpt, *)
(* content, cover image, meta fields, is_featured).                          *)
(****************************************************************************)
EXTENDS ContentTables

CONSTANTS
  PostIds,      \* bound: the UUIDs posts are ever created with
  Statuses,     \* draft, scheduled, published, archived (dto.go)
  PostSlugs,    \* slugs of posts, none of them ""
  Titles,       \* titles
  MakeSlug,     \* makeSlug (repository.go:339), "" for a title without a letter
  Instants,     \* what NOW() and time.Now() may say
  Schedules,    \* the values of scheduled_at that requests give
  PatchesTried  \* bound: the updates of posts that are tried

\* published is published_at and scheduled scheduled_at, Empty for NULL.
PostRows ==
  [section : SectionIds, title : Titles, slug : PostSlugs \cup {Empty},
   scheduled : Schedules \cup {Empty},
   status : Statuses, published : Instants \cup {Empty}]
PostPatches ==
  [section : SectionIds \cup {Empty}, title : Titles \cup {Empty},
   slug : PostSlugs \cup {Empty}, scheduled : Schedules \cup {Empty}]

\* What Update keeps of the row it read; GetByID does not read scheduled_at.
Seen == [section : SectionIds, title : Titles, slug : PostSlugs \cup {Empty}]

ASSUME PostAssumption ==
  /\ Empty \notin PostSlugs \cup Titles \cup SectionIds \cup Instants \cup Schedules
  /\ MakeSlug \in [Titles -> PostSlugs \cup {Empty}]
  /\ {"draft", "published"} \subseteq Statuses
  /\ \A row \in PostRows : row \notin {Unused, Deleted}
  /\ PatchesTried \subseteq PostPatches

VARIABLES
  posts,        \* the table: the row under each id, Unused or Deleted without one
  postReq       \* the updates between their two statements

postVars == <<posts, postReq>>

PostReqs ==
  {Idle} \cup [pc : {"write"}, id : PostIds, patch : PostPatches, seen : Seen]

PostsTypeOK ==
  /\ posts \in [PostIds -> PostRows \cup {Unused, Deleted}]
  /\ postReq \in [Handlers -> PostReqs]

PostsInit ==
  /\ posts = [p \in PostIds |-> Unused]
  /\ postReq = [h \in Handlers |-> Idle]

LivePosts == {p \in PostIds : IsRow(posts[p])}
Referenced == {posts[p].section : p \in LivePosts}

----------------------------------------------------------------------------
\* posts.slug is unique, the empty one included.
PostSlugAllows(sl, p) == \A q \in LivePosts \ {p} : posts[q].slug # sl

\* posts.section_id refers to sections.
\* Mutant: no such foreign key.
NoForeignKey(i, live) == TRUE
SectionKeyAllows(i, live) == i \in live

\* One INSERT; an empty slug is made from the title, and a post created as
\* published is dated at once.
\* Mutant: only UpdateStatus dates a post.
FirstDateNever(status, time) == Empty
FirstDate(status, time) == IF status = "published" THEN time ELSE Empty

CreatePost(live) ==
  \E p \in PostIds, i \in SectionIds, title \in Titles, time \in Instants,
     given \in PostSlugs \cup {Empty}, status \in Statuses,
     scheduled \in Schedules \cup {Empty} :
    LET sl == Coalesce(given, MakeSlug[title])
    IN  /\ posts[p] = Unused
        /\ SectionKeyAllows(i, live) /\ PostSlugAllows(sl, p)
        /\ posts' = [posts EXCEPT ![p] =
             [section |-> i, title |-> title, slug |-> sl, scheduled |-> scheduled,
              status |-> status, published |-> FirstDate(status, time)]]
        /\ UNCHANGED postReq

\* COALESCE(published_at, NOW()) when the new status is published; else the
\* date stays.
\* Mutant: NOW() each time.
DateRenewed(row, status, time) == IF status = "published" THEN time ELSE row.published
DateAfter(row, status, time) ==
  IF status = "published" THEN Coalesce(row.published, time) ELSE row.published

SetStatus(p, status) ==
  /\ p \in LivePosts
  /\ \E time \in Instants :
       posts' = [posts EXCEPT ![p].status = status,
                              ![p].published = DateAfter(posts[p], status, time)]
  /\ UNCHANGED postReq

DeletePost(p) ==
  /\ p \in LivePosts
  /\ posts' = [posts EXCEPT ![p] = Deleted]
  /\ UNCHANGED postReq

----------------------------------------------------------------------------
(* Update: GetByID, then UPDATE of every column but status and published_at   *)

ReadForUpdate(h, p, patch) ==
  /\ postReq[h] = Idle
  /\ p \in LivePosts
  /\ postReq' = [postReq EXCEPT ![h] =
       [pc |-> "write", id |-> p, patch |-> patch,
        seen |-> [f \in {"section", "title", "slug"} |-> posts[p][f]]]]
  /\ UNCHANGED posts

\* What the request does not give is filled from the row that was read, except
\* scheduled_at, which is written as the request has it, NULL when it has none;
\* status and published_at are not written.
\* Mutant: a status the editor did not see is set back.
MergedDraft(r, row) ==
  [section |-> Coalesce(r.patch.section, r.seen.section),
   title |-> Coalesce(r.patch.title, r.seen.title),
   slug |-> Coalesce(r.patch.slug, r.seen.slug), scheduled |-> r.patch.scheduled,
   status |-> "draft", published |-> row.published]
Merged(r, row) ==
  [section |-> Coalesce(r.patch.section, r.seen.section),
   title |-> Coalesce(r.patch.title, r.seen.title),
   slug |-> Coalesce(r.patch.slug, r.seen.slug), scheduled |-> r.patch.scheduled,
   status |-> row.status, published |-> row.published]

WriteUpdate(h, live) ==
  /\ postReq[h].pc = "write"
  /\ LET r == postReq[h]
         row == Merged(r, posts[r.id])
     IN  /\ r.id \in LivePosts
         /\ SectionKeyAllows(row.section, live) /\ PostSlugAllows(row.slug, r.id)
         /\ posts' = [posts EXCEPT ![r.id] = row]
  /\ postReq' = [postReq EXCEPT ![h] = Idle]

\* The statement is refused (row gone, slug taken, section gone) or fails.
EndPostRequest(h) ==
  /\ postReq[h] # Idle
  /\ postReq' = [postReq EXCEPT ![h] = Idle]
  /\ UNCHANGED posts
=============================================================================
