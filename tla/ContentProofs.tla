---------------------------- MODULE ContentProofs ----------------------------
(****************************************************************************)
(* Theorems about Content for any slugs, ids, values and concurrent requests.*)
(****************************************************************************)
EXTENDS Content, FiniteSetTheorems, TLAPS

----------------------------------------------------------------------------
(* Types                                                                     *)

\* A row is neither of the marks for an id without one.
LEMMA RowShape ==
  /\ \A row \in SectionRows : IsRow(row)
  /\ \A row \in PostRows : IsRow(row)
  /\ ~IsRow(Unused) /\ ~IsRow(Deleted)
  BY NoRowAssumption, PostAssumption DEF IsRow

\* What the rows of a typed table are.
LEMMA LiveRows ==
  ASSUME TypeOK
  PROVE  /\ \A i \in LiveSections : sections[i] \in SectionRows
         /\ \A p \in LivePosts : posts[p] \in PostRows
  BY DEF TypeOK, SectionsTypeOK, PostsTypeOK, LiveSections, LivePosts, IsRow

LEMMA TypeInit == Init => TypeOK
  BY DEF Init, TypeOK, SectionsInit, PostsInit, SectionsTypeOK, PostsTypeOK,
         SectionReqs, PostReqs

\* A request for a section, between its look-up and its statement and after it.
LEMMA SectionRequestTyped ==
  ASSUME TypeOK, NEW h \in Handlers, SectionRequest(h)
  PROVE  SectionsTypeOK'
<1> USE DEF TypeOK, SectionsTypeOK, SectionStep, SectionReqs
<1>1. CASE AskCreate(h)
  <2>1. PICK given \in Spellings \cup {Empty}, name \in Names :
          SectionStep(h, [pc |-> "insert",
                          slug |-> Lower[Coalesce(given, Generate[name])], name |-> name])
    BY <1>1 DEF AskCreate
  <2>2. Lower[Coalesce(given, Generate[name])] \in Slugs \cup {Empty}
    BY SlugAssumption DEF Coalesce
  <2>3. QED
    BY <1>1, <2>1, <2>2 DEF AskCreate
<1>2. CASE InsertSection(h)
  <2>1. sectionReq[h].slug \in Slugs \cup {Empty} /\ sectionReq[h].name \in Names
    BY <1>2 DEF InsertSection, Idle
  <2>2. PICK i \in SectionIds :
          /\ sectionReq[h].slug # Empty
          /\ sections' = [sections EXCEPT ![i] =
               [slug |-> sectionReq[h].slug, name |-> sectionReq[h].name]]
    BY <1>2 DEF InsertSection
  <2>3. [slug |-> sectionReq[h].slug, name |-> sectionReq[h].name] \in SectionRows
    BY <2>1, <2>2 DEF SectionRows
  <2>4. QED
    BY <1>2, <2>2, <2>3 DEF InsertSection
<1>3. CASE UpdateSection(h)
  <2>1. sectionReq[h].id \in SectionIds /\ sectionReq[h].patch \in SectionPatches
    BY <1>3 DEF UpdateSection, Idle
  <2>2. sections[sectionReq[h].id] \in SectionRows
    BY <1>3, LiveRows DEF UpdateSection
  <2>3. PatchedSection(sectionReq[h].id, sectionReq[h].patch) \in SectionRows
    BY <2>1, <2>2 DEF PatchedSection, SectionPatches, SectionRows, Coalesce
  <2>4. QED
    BY <1>3, <2>1, <2>3 DEF UpdateSection
<1>4. CASE EndSectionRequest(h)
  BY <1>4 DEF EndSectionRequest
<1>5. ASSUME NEW i \in SectionIds, AskUpdate(h, i) PROVE SectionsTypeOK'
  <2>1. PICK given \in Spellings \cup {Empty}, name \in Names \cup {Empty} :
          SectionStep(h, [pc |-> "update", id |-> i,
                          patch |-> [slug |-> Lower[given], name |-> name]])
    BY <1>5 DEF AskUpdate
  <2>2. [slug |-> Lower[given], name |-> name] \in SectionPatches
    BY SlugAssumption DEF SectionPatches
  <2>3. QED
    BY <1>5, <2>1, <2>2 DEF AskUpdate
<1>6. QED
  BY <1>1, <1>2, <1>3, <1>4, <1>5 DEF SectionRequest

\* What an editor's request writes is a row.
LEMMA MergedTyped ==
  ASSUME TypeOK, NEW h \in Handlers, WriteUpdate(h, LiveSections)
  PROVE  /\ postReq[h].id \in LivePosts
         /\ Merged(postReq[h], posts[postReq[h].id]) \in PostRows
<1>1. /\ postReq[h].patch \in PostPatches /\ postReq[h].seen \in Seen
  BY DEF TypeOK, PostsTypeOK, PostReqs, WriteUpdate, Idle
<1>2. postReq[h].id \in LivePosts
  BY DEF WriteUpdate
<1>3. posts[postReq[h].id] \in PostRows
  BY <1>2, LiveRows
<1>4. QED
  BY <1>1, <1>2, <1>3 DEF Merged, Coalesce, PostPatches, Seen, PostRows

\* An edit, a new post, a new status or a deletion.
LEMMA EditorStepTyped == TypeOK /\ EditorStep => TypeOK'
<1> SUFFICES ASSUME TypeOK, EditorStep PROVE PostsTypeOK'
  BY DEF TypeOK, SectionsTypeOK, EditorStep, sectionVars
<1> USE DEF TypeOK, PostsTypeOK, PostReqs
<1>1. ASSUME NEW h \in Handlers, NEW p \in PostIds, NEW patch \in PatchesTried,
             ReadForUpdate(h, p, patch)
      PROVE  PostsTypeOK'
  <2>1. patch \in PostPatches
    BY PostAssumption
  <2>2. posts[p] \in PostRows
    BY <1>1, LiveRows DEF ReadForUpdate
  <2>3. [f \in {"section", "title", "slug"} |-> posts[p][f]] \in Seen
    BY <2>2 DEF PostRows, Seen
  <2>4. QED
    BY <1>1, <2>1, <2>3 DEF ReadForUpdate
<1>2. ASSUME NEW h \in Handlers, WriteUpdate(h, LiveSections) PROVE PostsTypeOK'
  BY <1>2, MergedTyped DEF WriteUpdate, LivePosts
<1>3. ASSUME NEW h \in Handlers, EndPostRequest(h) PROVE PostsTypeOK'
  BY <1>3 DEF EndPostRequest
<1>4. CASE CreatePost(LiveSections)
  <2>1. PICK p \in PostIds, i \in SectionIds, title \in Titles, time \in Instants,
             given \in PostSlugs \cup {Empty}, status \in Statuses,
             scheduled \in Schedules \cup {Empty} :
          LET sl == Coalesce(given, MakeSlug[title])
          IN  /\ posts[p] = Unused
              /\ SectionKeyAllows(i, LiveSections) /\ PostSlugAllows(sl, p)
              /\ posts' = [posts EXCEPT ![p] =
                   [section |-> i, title |-> title, slug |-> sl, scheduled |-> scheduled,
                    status |-> status, published |-> FirstDate(status, time)]]
              /\ UNCHANGED postReq
    BY <1>4, Zenon DEF CreatePost
  <2>2. [section |-> i, title |-> title, slug |-> Coalesce(given, MakeSlug[title]),
         scheduled |-> scheduled, status |-> status, published |-> FirstDate(status, time)] \in PostRows
    BY PostAssumption DEF PostRows, Coalesce, FirstDate
  <2>3. QED
    BY <2>1, <2>2
<1>5. ASSUME NEW p \in PostIds, NEW status \in Statuses, SetStatus(p, status)
      PROVE  PostsTypeOK'
  <2>1. PICK time \in Instants :
          posts' = [posts EXCEPT ![p].status = status,
                                 ![p].published = DateAfter(posts[p], status, time)]
    BY <1>5 DEF SetStatus
  <2>2. posts[p] \in PostRows
    BY <1>5, LiveRows DEF SetStatus
  <2>3. DateAfter(posts[p], status, time) \in Instants \cup {Empty}
    BY <2>2 DEF DateAfter, Coalesce, PostRows
  <2>4. [posts[p] EXCEPT !.status = status,
                         !.published = DateAfter(posts[p], status, time)] \in PostRows
    BY <2>2, <2>3 DEF PostRows
  <2>5. QED
    BY <1>5, <2>1, <2>4 DEF SetStatus
<1>6. ASSUME NEW p \in PostIds, DeletePost(p) PROVE PostsTypeOK'
  BY <1>6 DEF DeletePost
<1>7. QED
  BY <1>1, <1>2, <1>3, <1>4, <1>5, <1>6 DEF EditorStep

LEMMA TypeStep == TypeOK /\ [Next]_vars => TypeOK'
<1> SUFFICES ASSUME TypeOK, [Next]_vars PROVE TypeOK'
  OBVIOUS
<1>1. CASE AdminStep
  <2>1. PostsTypeOK'
    BY <1>1 DEF TypeOK, PostsTypeOK, AdminStep, postVars
  <2>2. ASSUME NEW h \in Handlers, SectionRequest(h) PROVE SectionsTypeOK'
    BY <2>2, SectionRequestTyped
  <2>3. ASSUME NEW i \in SectionIds, DeleteSection(i, Referenced) PROVE SectionsTypeOK'
    BY <2>3 DEF DeleteSection, TypeOK, SectionsTypeOK
  <2>4. QED
    BY <1>1, <2>1, <2>2, <2>3 DEF AdminStep, TypeOK
<1>2. CASE EditorStep
  BY <1>2, EditorStepTyped
<1>3. CASE UNCHANGED vars
  BY <1>3 DEF vars, sectionVars, postVars, TypeOK, SectionsTypeOK, PostsTypeOK
<1>4. QED
  BY <1>1, <1>2, <1>3 DEF Next

\* Every reachable state is well typed: tables hold rows, requests between their
\* two statements hold what the second one needs.
THEOREM ContentTyped == Spec => []TypeOK
  BY TypeInit, TypeStep, PTL DEF Spec

----------------------------------------------------------------------------
(* What a step does to the tables                                            *)

\* One section is written, with a slug no other section has, or one goes that
\* no post refers to.
WritesSection ==
  \E i \in SectionIds : \E row \in SectionRows :
    SlugIndexAllows(row.slug, i) /\ sections' = [sections EXCEPT ![i] = row]
RemovesSection ==
  \E i \in SectionIds \ Referenced : sections' = [sections EXCEPT ![i] = Deleted]

\* One post is written, into a section that exists and with a slug no other has,
\* dated if it is published, under the date it had if it had one.
WritesPost ==
  \E p \in PostIds : \E row \in PostRows :
    /\ row.section \in LiveSections /\ PostSlugAllows(row.slug, p)
    /\ row.status = "published" => row.published # Empty
    /\ p \in LivePosts /\ posts[p].published # Empty => row.published = posts[p].published
    /\ posts' = [posts EXCEPT ![p] = row]
RemovesPost == \E p \in PostIds : posts' = [posts EXCEPT ![p] = Deleted]

Inv == TypeOK /\ PostsHaveSections /\ SlugsFindOne /\ PublishedDated

LEMMA InsertWrites ==
  ASSUME TypeOK, NEW h \in Handlers, InsertSection(h)
  PROVE  WritesSection
<1>1. sectionReq[h].slug \in Slugs \cup {Empty} /\ sectionReq[h].name \in Names
  BY DEF InsertSection, Idle, TypeOK, SectionsTypeOK, SectionReqs
<1>2. PICK i \in SectionIds :
        /\ sectionReq[h].slug # Empty /\ SlugIndexAllows(sectionReq[h].slug, i)
        /\ sections' = [sections EXCEPT ![i] =
             [slug |-> sectionReq[h].slug, name |-> sectionReq[h].name]]
  BY DEF InsertSection
<1>3. [slug |-> sectionReq[h].slug, name |-> sectionReq[h].name] \in SectionRows
  BY <1>1, <1>2 DEF SectionRows
<1>4. QED
  BY <1>2, <1>3 DEF WritesSection

\* A slug that is not given stays, and was unique before.
LEMMA UpdateWrites ==
  ASSUME TypeOK, SlugsFindOne, NEW h \in Handlers, UpdateSection(h)
  PROVE  WritesSection
<1> DEFINE i == sectionReq[h].id
           patch == sectionReq[h].patch
           row == PatchedSection(i, patch)
<1>1. i \in SectionIds /\ patch \in SectionPatches
  BY DEF UpdateSection, Idle, TypeOK, SectionsTypeOK, SectionReqs
<1>2. i \in LiveSections /\ (patch.slug # Empty => SlugIndexAllows(patch.slug, i))
  BY DEF UpdateSection
<1>3. sections[i] \in SectionRows
  BY <1>2, LiveRows
<1>4. row \in SectionRows
  BY <1>1, <1>3 DEF PatchedSection, SectionPatches, SectionRows, Coalesce
<1>5. CASE patch.slug = Empty
  <2>1. row.slug = sections[i].slug
    BY <1>5 DEF PatchedSection, Coalesce
  <2>2. SlugIndexAllows(row.slug, i)
    BY <2>1, <1>2 DEF SlugIndexAllows, SlugsFindOne
  <2>3. QED
    BY <1>1, <1>4, <2>2 DEF UpdateSection, WritesSection
<1>6. CASE patch.slug # Empty
  <2>1. row.slug = patch.slug
    BY <1>6 DEF PatchedSection, Coalesce
  <2>2. QED
    BY <1>1, <1>2, <1>4, <1>6, <2>1 DEF UpdateSection, WritesSection
<1>7. QED
  BY <1>5, <1>6

LEMMA AdminChanges ==
  ASSUME TypeOK, SlugsFindOne, AdminStep
  PROVE  posts' = posts /\ (sections' = sections \/ WritesSection \/ RemovesSection)
<1>1. posts' = posts
  BY DEF AdminStep, postVars
<1>2. ASSUME NEW h \in Handlers, SectionRequest(h)
      PROVE  sections' = sections \/ WritesSection
  BY <1>2, InsertWrites, UpdateWrites DEF SectionRequest, AskCreate, AskUpdate, EndSectionRequest
<1>3. ASSUME NEW i \in SectionIds, DeleteSection(i, Referenced) PROVE RemovesSection
  BY <1>3 DEF DeleteSection, InUse, RemovesSection
<1>4. QED
  BY <1>1, <1>2, <1>3 DEF AdminStep

LEMMA UpdateKeepsPost ==
  ASSUME Inv, NEW h \in Handlers, WriteUpdate(h, LiveSections)
  PROVE  WritesPost
<1> DEFINE p == postReq[h].id
           row == Merged(postReq[h], posts[p])
<1>1. p \in LivePosts /\ row \in PostRows
  BY MergedTyped DEF Inv
<1>2. row.status = posts[p].status /\ row.published = posts[p].published
  BY DEF Merged
<1>3. row.status = "published" => row.published # Empty
  BY <1>1, <1>2 DEF Inv, PublishedDated
<1>4. /\ row.section \in LiveSections /\ PostSlugAllows(row.slug, p)
      /\ posts' = [posts EXCEPT ![p] = row]
  BY DEF WriteUpdate, SectionKeyAllows
<1>5. p \in PostIds
  BY <1>1 DEF LivePosts
<1>6. QED
  BY <1>1, <1>2, <1>3, <1>4, <1>5 DEF WritesPost

LEMMA CreateWritesPost ==
  ASSUME TypeOK, CreatePost(LiveSections)
  PROVE  WritesPost
<1>1. PICK p \in PostIds, i \in SectionIds, title \in Titles, time \in Instants,
           given \in PostSlugs \cup {Empty}, status \in Statuses,
           scheduled \in Schedules \cup {Empty} :
        LET sl == Coalesce(given, MakeSlug[title])
        IN  /\ posts[p] = Unused
            /\ SectionKeyAllows(i, LiveSections) /\ PostSlugAllows(sl, p)
            /\ posts' = [posts EXCEPT ![p] =
                 [section |-> i, title |-> title, slug |-> sl, scheduled |-> scheduled,
                  status |-> status, published |-> FirstDate(status, time)]]
            /\ UNCHANGED postReq
  BY Zenon DEF CreatePost
<1> DEFINE row == [section |-> i, title |-> title, slug |-> Coalesce(given, MakeSlug[title]),
                   scheduled |-> scheduled, status |-> status, published |-> FirstDate(status, time)]
<1>2. row \in PostRows
  BY PostAssumption DEF PostRows, Coalesce, FirstDate
<1>3. row.status = "published" => row.published # Empty
  BY PostAssumption DEF FirstDate
<1>4. p \notin LivePosts
  BY <1>1, RowShape DEF LivePosts
<1>5. row.section \in LiveSections /\ PostSlugAllows(row.slug, p)
  BY <1>1 DEF SectionKeyAllows
<1>6. QED
  BY <1>1, <1>2, <1>3, <1>4, <1>5 DEF WritesPost

LEMMA StatusWritesPost ==
  ASSUME Inv, NEW p \in PostIds, NEW status \in Statuses, SetStatus(p, status)
  PROVE  WritesPost
<1>1. PICK time \in Instants :
        posts' = [posts EXCEPT ![p].status = status,
                               ![p].published = DateAfter(posts[p], status, time)]
  BY DEF SetStatus
<1> DEFINE date == DateAfter(posts[p], status, time)
           row == [posts[p] EXCEPT !.status = status, !.published = date]
<1>2. p \in LivePosts /\ posts[p] \in PostRows
  BY LiveRows DEF SetStatus, Inv
<1>3. /\ date \in Instants \cup {Empty}
      /\ status = "published" => date # Empty
      /\ posts[p].published # Empty => date = posts[p].published
  BY <1>2, PostAssumption DEF DateAfter, Coalesce, PostRows
<1>4. /\ row \in PostRows /\ row.status = status /\ row.published = date
      /\ row.section = posts[p].section /\ row.slug = posts[p].slug
  BY <1>2, <1>3 DEF PostRows
<1>5. row.section \in LiveSections /\ PostSlugAllows(row.slug, p)
  BY <1>2, <1>4 DEF Inv, PostsHaveSections, SlugsFindOne, PostSlugAllows
<1>6. posts' = [posts EXCEPT ![p] = row]
  BY <1>1, <1>2 DEF Inv, TypeOK, PostsTypeOK
<1>7. QED
  BY <1>2, <1>3, <1>4, <1>5, <1>6 DEF WritesPost

LEMMA EditorChanges ==
  ASSUME Inv, EditorStep
  PROVE  sections' = sections /\ (posts' = posts \/ WritesPost \/ RemovesPost)
<1>1. sections' = sections
  BY DEF EditorStep, sectionVars
<1>2. ASSUME NEW h \in Handlers, NEW p \in PostIds, NEW patch \in PatchesTried,
             ReadForUpdate(h, p, patch)
      PROVE  posts' = posts
  BY <1>2 DEF ReadForUpdate
<1>3. ASSUME NEW h \in Handlers, WriteUpdate(h, LiveSections) \/ EndPostRequest(h)
      PROVE  posts' = posts \/ WritesPost
  BY <1>3, UpdateKeepsPost DEF EndPostRequest
<1>4. CASE CreatePost(LiveSections)
  BY <1>1, <1>4, CreateWritesPost DEF Inv
<1>5. ASSUME NEW p \in PostIds, NEW status \in Statuses, SetStatus(p, status) PROVE WritesPost
  BY <1>5, StatusWritesPost
<1>6. ASSUME NEW p \in PostIds, DeletePost(p) PROVE RemovesPost
  BY <1>6 DEF DeletePost, RemovesPost
<1>7. QED
  BY <1>1, <1>2, <1>3, <1>4, <1>5, <1>6 DEF EditorStep

\* The rows there are after a write and after a deletion.
LEMMA LiveSectionsAfter ==
  ASSUME TypeOK, NEW i \in SectionIds
  PROVE  /\ \A row \in SectionRows : sections' = [sections EXCEPT ![i] = row]
              => LiveSections' = LiveSections \cup {i} /\ sections'[i] = row
         /\ sections' = [sections EXCEPT ![i] = Deleted] => LiveSections' = LiveSections \ {i}
         /\ \A j \in SectionIds \ {i} : \A x : sections' = [sections EXCEPT ![i] = x]
              => sections'[j] = sections[j]
  BY RowShape DEF LiveSections, TypeOK, SectionsTypeOK

LEMMA LivePostsAfter ==
  ASSUME TypeOK, NEW p \in PostIds
  PROVE  /\ \A row \in PostRows : posts' = [posts EXCEPT ![p] = row]
              => LivePosts' = LivePosts \cup {p} /\ posts'[p] = row
         /\ posts' = [posts EXCEPT ![p] = Deleted] => LivePosts' = LivePosts \ {p}
         /\ \A q \in PostIds \ {p} : \A x : posts' = [posts EXCEPT ![p] = x]
              => posts'[q] = posts[q]
  BY RowShape DEF LivePosts, TypeOK, PostsTypeOK

LEMMA WrittenPostKeeps ==
  ASSUME Inv, WritesPost, sections' = sections
  PROVE  /\ PostsHaveSections' /\ SlugsFindOne' /\ PublishedDated'
         /\ \A q \in LivePosts :
              posts[q].published # Empty => posts'[q].published = posts[q].published
<1>1. PICK p \in PostIds, row \in PostRows :
        /\ row.section \in LiveSections /\ PostSlugAllows(row.slug, p)
        /\ row.status = "published" => row.published # Empty
        /\ p \in LivePosts /\ posts[p].published # Empty => row.published = posts[p].published
        /\ posts' = [posts EXCEPT ![p] = row]
  BY DEF WritesPost
<1>2. /\ LivePosts' = LivePosts \cup {p} /\ posts'[p] = row
      /\ \A q \in LivePosts \ {p} : q \in PostIds /\ posts'[q] = posts[q]
      /\ LiveSections' = LiveSections
  BY <1>1, LivePostsAfter DEF Inv, LivePosts, LiveSections
<1>3. PostsHaveSections'
  BY <1>1, <1>2 DEF Inv, PostsHaveSections
<1>4. SlugsFindOne'
  <2>1. \A q, r \in LivePosts' : posts'[q].slug = posts'[r].slug => q = r
    BY <1>1, <1>2 DEF Inv, SlugsFindOne, PostSlugAllows
  <2>2. QED
    BY <1>2, <2>1 DEF Inv, SlugsFindOne
<1>5. PublishedDated'
  BY <1>1, <1>2 DEF Inv, PublishedDated
<1>6. QED
  BY <1>1, <1>2, <1>3, <1>4, <1>5

LEMMA RemovedPostKeeps ==
  ASSUME Inv, RemovesPost, sections' = sections
  PROVE  /\ PostsHaveSections' /\ SlugsFindOne' /\ PublishedDated'
         /\ \A q \in LivePosts \cap LivePosts' : posts'[q] = posts[q]
<1>1. PICK p \in PostIds : posts' = [posts EXCEPT ![p] = Deleted]
  BY DEF RemovesPost
<1>2. /\ LivePosts' = LivePosts \ {p}
      /\ \A q \in LivePosts \ {p} : q \in PostIds /\ posts'[q] = posts[q]
      /\ LiveSections' = LiveSections
  BY <1>1, LivePostsAfter DEF Inv, LivePosts, LiveSections
<1>3. QED
  BY <1>2 DEF Inv, PostsHaveSections, SlugsFindOne, PublishedDated

LEMMA SectionsChangedKeeps ==
  ASSUME Inv, posts' = posts, WritesSection \/ RemovesSection
  PROVE  PostsHaveSections' /\ SlugsFindOne' /\ PublishedDated'
<1>1. LivePosts' = LivePosts
  BY DEF LivePosts
<1>2. PublishedDated'
  BY <1>1 DEF Inv, PublishedDated
<1>3. CASE WritesSection
  <2>1. PICK i \in SectionIds, row \in SectionRows :
          SlugIndexAllows(row.slug, i) /\ sections' = [sections EXCEPT ![i] = row]
    BY <1>3 DEF WritesSection
  <2>2. /\ LiveSections' = LiveSections \cup {i} /\ sections'[i] = row
        /\ \A j \in LiveSections \ {i} : j \in SectionIds /\ sections'[j] = sections[j]
    BY <2>1, LiveSectionsAfter DEF Inv, LiveSections
  <2>3. \A j, k \in LiveSections' : sections'[j].slug = sections'[k].slug => j = k
    BY <2>1, <2>2 DEF Inv, SlugsFindOne, SlugIndexAllows
  <2>4. QED
    BY <1>1, <1>2, <2>2, <2>3 DEF Inv, PostsHaveSections, SlugsFindOne
<1>4. CASE RemovesSection
  <2>1. PICK i \in SectionIds \ Referenced : sections' = [sections EXCEPT ![i] = Deleted]
    BY <1>4 DEF RemovesSection
  <2>2. /\ LiveSections' = LiveSections \ {i}
        /\ \A j \in LiveSections \ {i} : j \in SectionIds /\ sections'[j] = sections[j]
    BY <2>1, LiveSectionsAfter DEF Inv, LiveSections
  <2>3. PostsHaveSections'
    BY <1>1, <2>1, <2>2 DEF Inv, PostsHaveSections, Referenced
  <2>4. QED
    BY <1>1, <1>2, <2>2, <2>3 DEF Inv, SlugsFindOne
<1>5. QED
  BY <1>3, <1>4

----------------------------------------------------------------------------
(* The theorems                                                              *)

LEMMA InvInit == Init => Inv
<1> SUFFICES ASSUME Init PROVE Inv
  OBVIOUS
<1>1. LivePosts = {} /\ LiveSections = {}
  BY RowShape DEF Init, SectionsInit, PostsInit, LivePosts, LiveSections
<1>2. QED
  BY <1>1, TypeInit DEF Inv, PostsHaveSections, SlugsFindOne, PublishedDated

LEMMA InvStep == Inv /\ [Next]_vars => Inv'
<1> SUFFICES ASSUME Inv, [Next]_vars
             PROVE  PostsHaveSections' /\ SlugsFindOne' /\ PublishedDated'
  BY TypeStep DEF Inv
<1>1. CASE sections' = sections /\ posts' = posts
  <2>1. LivePosts' = LivePosts /\ LiveSections' = LiveSections
    BY <1>1 DEF LivePosts, LiveSections
  <2>2. QED
    BY <1>1, <2>1 DEF Inv, PostsHaveSections, SlugsFindOne, PublishedDated
<1>2. CASE AdminStep
  BY <1>1, <1>2, AdminChanges, SectionsChangedKeeps DEF Inv
<1>3. CASE EditorStep
  BY <1>1, <1>3, EditorChanges, WrittenPostKeeps, RemovedPostKeeps
<1>4. CASE UNCHANGED vars
  BY <1>1, <1>4 DEF vars, sectionVars, postVars
<1>5. QED
  BY <1>2, <1>3, <1>4 DEF Next

\* Every post has a section, for any number of concurrent admins and editors:
\* an update may write a section it read long ago, but none that is gone.
THEOREM PostsAlwaysHaveSections == Spec => []PostsHaveSections
<1>1. Inv => PostsHaveSections
  BY DEF Inv
<1>2. QED
  BY <1>1, InvInit, InvStep, PTL DEF Spec

\* A slug finds one section and one post, however many requests found it free.
THEOREM SlugsAlwaysFindOne == Spec => []SlugsFindOne
<1>1. Inv => SlugsFindOne
  BY DEF Inv
<1>2. QED
  BY <1>1, InvInit, InvStep, PTL DEF Spec

\* A published post has a date, on whichever way it was published.
THEOREM PublishedAlwaysDated == Spec => []PublishedDated
<1>1. Inv => PublishedDated
  BY DEF Inv
<1>2. QED
  BY <1>1, InvInit, InvStep, PTL DEF Spec

\* The date of the first publication never changes.
THEOREM FirstDateIsKept == Spec => FirstDateKept
<1> DEFINE Keeps == \A p \in LivePosts :
             posts[p].published # Empty /\ p \in LivePosts'
               => posts'[p].published = posts[p].published
<1>1. Inv /\ [Next]_vars => [Keeps]_vars
  <2> SUFFICES ASSUME Inv, Next PROVE Keeps
    BY DEF vars
  <2>1. CASE AdminStep
    BY <2>1, AdminChanges DEF Inv
  <2>2. CASE EditorStep
    BY <2>2, EditorChanges, WrittenPostKeeps, RemovedPostKeeps
  <2>3. QED
    BY <2>1, <2>2 DEF Next
<1>2. QED
  BY <1>1, InvInit, InvStep, PTL DEF Spec, FirstDateKept

\* The handler whose update ended is the one that wrote.
LEMMA PostWriter ==
  ASSUME TypeOK, EditorStep, NEW h \in Handlers,
         postReq[h].pc = "write", postReq'[h] = Idle, posts' # posts
  PROVE  WriteUpdate(h, LiveSections)
<1>1. postReq[h] # Idle
  BY DEF Idle
<1>2. ASSUME NEW g \in Handlers, WriteUpdate(g, LiveSections) PROVE g = h
  BY <1>1, <1>2 DEF WriteUpdate, TypeOK, PostsTypeOK
<1>3. ~ UNCHANGED postReq
  BY <1>1
<1>4. ~ CreatePost(LiveSections)
  <2>1. CreatePost(LiveSections) => UNCHANGED postReq
    BY Zenon DEF CreatePost
  <2>2. QED
    BY <1>3, <2>1
<1>5. \A p \in PostIds : ~DeletePost(p) /\ \A status \in Statuses : ~SetStatus(p, status)
  BY <1>3 DEF DeletePost, SetStatus
<1>6. QED
  BY <1>2, <1>4, <1>5 DEF EditorStep, ReadForUpdate, EndPostRequest

LEMMA WriteMerges ==
  ASSUME TypeOK, NEW h \in Handlers, WriteUpdate(h, LiveSections)
  PROVE  EditMerges(postReq[h])
<1> DEFINE r == postReq[h]
<1>1. r.id \in PostIds /\ posts'[r.id] = Merged(r, posts[r.id])
  BY MergedTyped DEF WriteUpdate, LivePosts, TypeOK, PostsTypeOK
<1>2. \A f \in {"section", "title", "slug"} :
        Merged(r, posts[r.id])[f] = r.patch[f] \/ Merged(r, posts[r.id])[f] = r.seen[f]
  BY DEF Merged, Coalesce
<1>3. QED
  BY <1>1, <1>2 DEF EditMerges, Merged

\* Overlapping edits of posts undo no more than they must, for any number of
\* editors and however old what an editor read is (posts/repository.go:178-226);
\* scheduled_at becomes what the request says.
THEOREM EditsAlwaysMerge == Spec => EditsMerge
<1> DEFINE Merges == \A h \in Handlers :
             postReq[h].pc = "write" /\ postReq'[h] = Idle /\ posts' # posts
               => EditMerges(postReq[h])
<1>1. Inv /\ [Next]_vars => [Merges]_vars
  <2> SUFFICES ASSUME Inv, Next PROVE Merges
    BY DEF vars
  <2>1. CASE AdminStep
    BY <2>1 DEF AdminStep, postVars
  <2>2. CASE EditorStep
    BY <2>2, PostWriter, WriteMerges DEF Inv
  <2>3. QED
    BY <2>1, <2>2 DEF Next
<1>2. QED
  BY <1>1, InvInit, InvStep, PTL DEF Spec, EditsMerge

----------------------------------------------------------------------------
(* Pages                                                                     *)

\* A limit is one that is allowed, whatever is asked for.
LEMMA LimitAllowed ==
  ASSUME NEW raw \in Int \cup {NotANumber}
  PROVE  ParseLimit(raw) \in 1..MaxLimit
  BY PaginationAssumption DEF ParseLimit, parseInt

\* A page is the one asked for.
LEMMA Parsed ==
  ASSUME NEW raw \in Int \cup {NotANumber}, NEW n \in Nat \ {0}
  PROVE  /\ Parse(n, raw).page = n /\ Parse(n, raw).limit = ParseLimit(raw)
         /\ Parse(n, raw).offset = Wrap((n - 1) * ParseLimit(raw))
<1>1. ParsePage(n) = n
  BY PaginationAssumption DEF ParsePage, parseInt
<1>2. QED
  BY <1>1 DEF Parse, Offset

\* An int that holds a number keeps it.
LEMMA Held ==
  ASSUME NEW n \in 0..MaxInt
  PROVE  Wrap(n) = n
  BY PaginationAssumption DEF Wrap

\* The pages a total fills: none is empty but the first, and the last one ends
\* at the total or after it.
LEMMA PagesReach ==
  ASSUME NEW limit \in Nat \ {0}, NEW total \in Nat
  PROVE  LET pages == TotalPages(limit, total)
         IN  /\ pages \in 1..(total + 1)
             /\ total <= pages * limit
             /\ pages > 1 => (pages - 1) * limit < total
<1> DEFINE q == (total + limit - 1) \div limit
<1>1. q \in Nat /\ limit * q <= total + limit - 1 /\ total + limit - 1 < limit * q + limit
  OBVIOUS
<1>2. q * limit = limit * q /\ (q - 1) * limit = limit * q - limit
  BY <1>1
<1>3. q <= total + 1
  <2>1. CASE q = 0
    BY <2>1
  <2>2. CASE q > 0
    <3>1. q - 1 <= (q - 1) * limit
      BY <1>1, <2>2
    <3>2. QED
      BY <1>1, <1>2, <3>1
  <2>3. QED
    BY <1>1, <2>1, <2>2
<1>4. TotalPages(limit, total) = IF q < 1 THEN 1 ELSE q
  BY DEF TotalPages
<1> HIDE DEF q
<1>5. CASE q < 1
  <2>1. TotalPages(limit, total) = 1 /\ q = 0
    BY <1>1, <1>4, <1>5
  <2>2. limit * q = 0
    BY <2>1
  <2>3. QED
    BY <1>1, <2>1, <2>2
<1>6. CASE q >= 1
  <2>1. TotalPages(limit, total) = q
    BY <1>1, <1>4, <1>6
  <2>2. QED
    BY <1>1, <1>2, <1>3, <1>6, <2>1
<1>7. QED
  BY <1>1, <1>5, <1>6

\* The page after which has_next is false is the last of the pages announced.
LEMMA LastIsTotal ==
  ASSUME NEW raw \in Int \cup {NotANumber}, NEW total \in Nat
  PROVE  LastPage(raw, total) = TotalPages(ParseLimit(raw), total)
<1> DEFINE pages == TotalPages(ParseLimit(raw), total)
           Ends(n) == /\ ~HasNext(Parse(n, raw), total)
                      /\ \A k \in 1..(n - 1) : HasNext(Parse(k, raw), total)
<1>1. ParseLimit(raw) \in Nat \ {0} /\ MaxLimit \in Nat
  BY LimitAllowed, PaginationAssumption
<1>2. pages \in 1..(total + 1)
  BY <1>1, PagesReach
<1>3. \A n \in Nat \ {0} : HasNext(Parse(n, raw), total) <=> n < pages
  BY Parsed DEF HasNext
<1> HIDE DEF pages
<1>4. Ends(pages)
  BY <1>2, <1>3
<1>5. ASSUME NEW n \in 1..(total + 1), Ends(n) PROVE n = pages
  <2>1. ~(n < pages)
    BY <1>3, <1>5
  <2>2. CASE pages < n
    <3>1. pages \in 1..(n - 1)
      BY <1>2, <2>2
    <3>2. HasNext(Parse(pages, raw), total)
      BY <1>5, <3>1
    <3>3. QED
      BY <1>2, <1>3, <3>2
  <2>3. QED
    BY <1>2, <2>1, <2>2
<1>6. LastPage(raw, total) = CHOOSE n \in 1..(total + 1) : Ends(n)
  BY DEF LastPage
<1>7. QED
  BY <1>2, <1>4, <1>5, <1>6 DEF pages

\* A list no longer than an int counts is its pages one after the other.
LEMMA ListIsTiled ==
  ASSUME NEW raw \in Int \cup {NotANumber}, NEW list, Len(list) \in 0..MaxInt
  PROVE  TiledBy(list, raw)
<1> DEFINE total == Len(list)
           limit == ParseLimit(raw)
           last == LastPage(raw, total)
           begin(n) == IF n > last THEN total ELSE Parse(n, raw).offset
<1>1. limit \in Nat \ {0} /\ total \in 0..MaxInt /\ total \in Nat /\ MaxInt \in Nat
  <2>1. limit \in 1..MaxLimit
    BY LimitAllowed
  <2> HIDE DEF limit
  <2>2. QED
    BY <2>1, PaginationAssumption
<1>2. /\ last \in 1..(total + 1)
      /\ total <= last * limit
      /\ last > 1 => (last - 1) * limit < total
  <2>1. last = TotalPages(limit, total)
    BY <1>1, LastIsTotal
  <2> HIDE DEF total, limit, last
  <2>2. QED
    BY <1>1, <2>1, PagesReach
<1>3. ASSUME NEW n \in 1..last
      PROVE  /\ Parse(n, raw).offset = (n - 1) * limit /\ Parse(n, raw).limit = limit
             /\ (n - 1) * limit \in Nat /\ (n - 1) * limit <= total
             /\ n < last => n * limit <= total
             /\ n * limit = (n - 1) * limit + limit
  <2> HIDE DEF total, limit, last
  <2>1. n \in Nat \ {0} /\ n - 1 \in Nat
    BY <1>1, <1>2
  <2>2. (n - 1) * limit \in Nat /\ n * limit = (n - 1) * limit + limit
    BY <1>1, <2>1
  <2>3. n < last => n * limit <= (last - 1) * limit
    BY <1>1, <1>2, <2>1
  <2>4. n < last => n * limit <= total
    BY <1>1, <1>2, <2>1, <2>2, <2>3
  <2>5. (n - 1) * limit <= total
    <3>1. CASE n < last
      BY <1>1, <2>2, <2>4, <3>1
    <3>2. CASE n = last /\ n = 1
      BY <1>1, <3>2
    <3>3. CASE n = last /\ n > 1
      BY <1>1, <1>2, <2>2, <3>3
    <3>4. QED
      BY <1>2, <2>1, <3>1, <3>2, <3>3
  <2>6. Wrap((n - 1) * limit) = (n - 1) * limit
    BY <1>1, <2>2, <2>5, Held
  <2>7. QED
    BY <2>1, <2>2, <2>4, <2>5, <2>6, Parsed DEF limit
<1>4. begin(1) = 0
  <2>1. Parse(1, raw).offset = 0 * limit
    BY <1>2, <1>3
  <2>2. QED
    BY <1>1, <1>2, <2>1
<1>5. ASSUME NEW n \in 1..last
      PROVE  /\ begin(n) <= begin(n + 1)
             /\ PageOf(list, Parse(n, raw)) = SubSeq(list, begin(n) + 1, begin(n + 1))
  <2>1. begin(n) = (n - 1) * limit
    BY <1>2, <1>3
  <2>2. PageOf(list, Parse(n, raw)) =
          SubSeq(list, (n - 1) * limit + 1, IF n * limit < total THEN n * limit ELSE total)
    BY <1>3 DEF PageOf
  <2>3. CASE n < last
    <3>1. n + 1 \in 1..last
      BY <1>2, <2>3
    <3>2. Parse(n + 1, raw).offset = (n + 1 - 1) * limit
      BY <1>3, <3>1
    <3>3. begin(n + 1) = n * limit
      BY <1>2, <3>1, <3>2
    <3>4. n * limit <= total
      BY <1>3, <2>3
    <3> HIDE DEF begin, total, limit, last
    <3>5. (IF n * limit < total THEN n * limit ELSE total) = n * limit
      BY <1>1, <1>2, <1>3, <3>4
    <3>6. QED
      BY <1>1, <1>2, <1>3, <2>1, <2>2, <3>3, <3>5
  <2>4. CASE n = last
    <3>1. begin(n + 1) = total
      BY <1>2, <2>4
    <3> HIDE DEF begin, total, limit, last
    <3>2. (IF n * limit < total THEN n * limit ELSE total) = total
      BY <1>1, <1>2, <2>4
    <3>3. QED
      BY <1>3, <2>1, <2>2, <3>1, <3>2
  <2>5. QED
    BY <1>2, <2>3, <2>4
<1>6. QED
  BY <1>4, <1>5 DEF TiledBy

\* The result of a query, in its order, is as long as the set of its rows, and
\* that is within an int.
LEMMA ResultLength ==
  ASSUME NEW status, NEW slug, NEW order \in SetToSeqs(Selected(status, slug))
  PROVE  Len(order) \in 0..MaxInt
<1>1. Selected(status, slug) \subseteq PostIds
  BY DEF Selected, LivePosts
<1>2. /\ IsFiniteSet(Selected(status, slug))
      /\ Cardinality(Selected(status, slug)) \in Nat
      /\ Cardinality(Selected(status, slug)) <= MaxInt
  <2>1. Cardinality(PostIds) \in Nat /\ MaxInt \in Nat
    BY PageAssumption, PaginationAssumption, FS_CardinalityType
  <2>2. QED
    BY <1>1, <2>1, PageAssumption, FS_Subset, FS_CardinalityType
<1>3. order \in [1..Cardinality(Selected(status, slug)) -> Selected(status, slug)]
  BY DEF SetToSeqs
<1>4. Len(order) = Cardinality(Selected(status, slug))
  BY <1>2, <1>3
<1>5. QED
  BY <1>2, <1>4, PaginationAssumption

\* Whatever the filter, the limit and the order, and however many posts there
\* are, the pages has_next leads through show each selected post once.
THEOREM PagesAlwaysTile == Spec => []PagesTile
<1>1. ASSUME NEW result \in Results, NEW order \in SetToSeqs(result), NEW raw \in RawLimits
      PROVE  TiledBy(order, raw)
  <2>1. PICK status \in Statuses \cup {Empty}, slug \in Slugs \cup {Empty} :
          result = Selected(status, slug)
    BY DEF Results
  <2>2. Len(order) \in 0..MaxInt
    BY <2>1, ResultLength
  <2>3. QED
    BY <2>2, ListIsTiled, PageAssumption
<1>2. PagesTile
  BY <1>1 DEF PagesTile
<1>3. QED
  BY <1>2, PTL
=============================================================================
