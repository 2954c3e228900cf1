------------------------------- MODULE Content -------------------------------
(****************************************************************************)
(* Sections and posts together: one Postgres, one foreign key between the    *)
(* two tables, and admins and editors whose requests run concurrently.       *)
(****************************************************************************)
EXTENDS Sections, Posts, Pagination, SequencesExt

CONSTANT RawLimits      \* bound: the limits that are asked for

\* The number of posts is an int.
ASSUME PageAssumption ==
  /\ RawLimits \subseteq Int \cup {NotANumber}
  /\ IsFiniteSet(PostIds) /\ Cardinality(PostIds) <= MaxInt

vars == <<sectionVars, postVars>>

TypeOK == SectionsTypeOK /\ PostsTypeOK

Init == SectionsInit /\ PostsInit

\* A handler serves one request at a time.
Free(h) == sectionReq[h] = Idle /\ postReq[h] = Idle

AdminStep ==
  /\ \/ \E h \in Handlers : postReq[h] = Idle /\ SectionRequest(h)
     \/ \E i \in SectionIds : DeleteSection(i, Referenced)
  /\ UNCHANGED postVars

EditorStep ==
  /\ \/ \E h \in Handlers, p \in PostIds, patch \in PatchesTried :
          Free(h) /\ ReadForUpdate(h, p, patch)
     \/ \E h \in Handlers : WriteUpdate(h, LiveSections) \/ EndPostRequest(h)
     \/ CreatePost(LiveSections)
     \/ \E p \in PostIds, status \in Statuses : SetStatus(p, status)
     \/ \E p \in PostIds : DeletePost(p)
  /\ UNCHANGED sectionVars

Next == AdminStep \/ EditorStep

Spec == Init /\ [][Next]_vars

\* The posts a list counts and then pages through: AdminList, with Empty for a
\* filter that is not given; ListPublished is the list of "published".
Selected(status, slug) ==
  {p \in LivePosts :
     /\ status \in {Empty, posts[p].status}
     /\ slug \in {Empty, sections[posts[p].section].slug}}

----------------------------------------------------------------------------
(* Properties                                                                *)

\* Every post belongs to a section that exists, whatever deletions and edits
\* run between an editor's read and write.
PostsHaveSections == \A p \in LivePosts : posts[p].section \in LiveSections

\* A slug finds one section and one post, although assertSlugFree and the
\* statement it guards are two and posts have no such check.
SlugsFindOne ==
  /\ \A i, j \in LiveSections : sections[i].slug = sections[j].slug => i = j
  /\ \A p, q \in LivePosts : posts[p].slug = posts[q].slug => p = q

\* published_at is "set when status transitions to published", on each of the
\* ways a post can get there, so that the public list can order by it.
PublishedDated ==
  \A p \in LivePosts : posts[p].status = "published" => posts[p].published # Empty

\* Whatever the filter and the limit, the pages up to the last one that has_next
\* announces show each post the filter selects once, in the order of the query,
\* while the table stays as it is: cut where its pages begin, the list is its
\* pages one after the other.
LastPage(raw, total) ==
  CHOOSE n \in 1..(total + 1) :
    ~HasNext(Parse(n, raw), total) /\ \A k \in 1..(n - 1) : HasNext(Parse(k, raw), total)
TiledBy(list, raw) ==
  LET last == LastPage(raw, Len(list))
      begin(n) == IF n > last THEN Len(list) ELSE Parse(n, raw).offset
  IN  /\ begin(1) = 0
      /\ \A n \in 1..last :
           /\ begin(n) <= begin(n + 1)
           /\ PageOf(list, Parse(n, raw)) = SubSeq(list, begin(n) + 1, begin(n + 1))
Results ==
  {Selected(status, slug) : status \in Statuses \cup {Empty}, slug \in Slugs \cup {Empty}}
PagesTile ==
  \A result \in Results :
    \A order \in SetToSeqs(result), raw \in RawLimits : TiledBy(order, raw)

\* The date of the first publication survives edits, withdrawal and renewed
\* publication.
FirstDateKept ==
  [][ \A p \in LivePosts :
        posts[p].published # Empty /\ p \in LivePosts'
          => posts'[p].published = posts[p].published ]_vars

\* Overlapping edits of posts undo no more than they must.  An edit leaves each
\* field as it is in the table or as the request gave it, unless another edit
\* came between its read and its write, which it may undo; a change of status or
\* date it never undoes, however long ago it read the post.  scheduled_at alone
\* is not merged: it becomes what the request says, and an edit that says nothing
\* of it wipes it.
EditMerges(r) ==
  LET old == posts[r.id]
      new == posts'[r.id]
  IN  /\ \A f \in {"section", "title", "slug"} :
           new[f] = old[f] \/ new[f] = r.patch[f] \/ old[f] # r.seen[f]
      /\ new.status = old.status /\ new.published = old.published
      /\ new.scheduled = r.patch.scheduled
EditsMerge ==
  [][ \A h \in Handlers :
        postReq[h].pc = "write" /\ postReq'[h] = Idle /\ posts' # posts
          => EditMerges(postReq[h]) ]_vars
=============================================================================
