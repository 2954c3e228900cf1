------------------------------ MODULE Sections ------------------------------
(****************************************************************************)
(* The sections of the site: internal/sections over the Ent client.  Create  *)
(* and Update first ask whether the slug is free (assertSlugFree) and then   *)
(* send the INSERT or UPDATE, as two statements; the unique index on slug    *)
(* has the last word.  Requests run concurrently.                            *)
(*                                                                          *)
(* "" in a request means "not given".  name stands for every other column a  *)
(* request may set (description, theme colour, layout, is_active, order).    *)
(****************************************************************************)
EXTENDS ContentTables

CONSTANTS
  Slugs,        \* slugs in lower case, none of them ""
  Spellings,    \* slugs as requests spell them
  Lower,        \* strings.ToLower
  Names,        \* section names
  Generate      \* slug.Generate (pkg/slug/slug.go), "" for a name without a letter

SectionRows == [slug : Slugs, name : Names]

ASSUME SlugAssumption ==
  /\ Empty \notin Spellings \cup Slugs \cup Names
  /\ Lower \in [Spellings \cup {Empty} -> Slugs \cup {Empty}]
  /\ \A s \in Spellings \cup {Empty} : Lower[s] = Empty <=> s = Empty
  /\ Generate \in [Names -> Spellings \cup {Empty}]
ASSUME NoRowAssumption ==
  /\ Unused # Deleted
  /\ \A row \in SectionRows : row \notin {Unused, Deleted}

VARIABLES
  sections,     \* the table: the row under each id, Unused or Deleted without one
  sectionReq    \* the requests between their two statements

sectionVars == <<sections, sectionReq>>

SectionPatches ==
  [slug : Slugs \cup {Empty}, name : Names \cup {Empty}]

SectionReqs ==
  {Idle}
    \cup [pc : {"insert"}, slug : Slugs \cup {Empty}, name : Names]
    \cup [pc : {"update"}, id : SectionIds, patch : SectionPatches]

SectionsTypeOK ==
  /\ sections \in [SectionIds -> SectionRows \cup {Unused, Deleted}]
  /\ sectionReq \in [Handlers -> SectionReqs]

SectionsInit ==
  /\ sections = [i \in SectionIds |-> Unused]
  /\ sectionReq = [h \in Handlers |-> Idle]

LiveSections == {i \in SectionIds : IsRow(sections[i])}

----------------------------------------------------------------------------
\* SELECT ... WHERE slug = $1 LIMIT 1.  The id handed to assertSlugFree is not
\* used: a section's own slug counts as taken.
SlugExists(sl) == \E i \in LiveSections : sections[i].slug = sl

\* The unique index on sections.slug.
\* Mutant: no such index.
NoIndex(sl, i) == TRUE
SlugIndexAllows(sl, i) == \A j \in LiveSections \ {i} : sections[j].slug # sl

SectionStep(h, state) == sectionReq' = [sectionReq EXCEPT ![h] = state]

\* The slug the request names, or one made from the name; 409 when it exists.
AskCreate(h) ==
  /\ sectionReq[h] = Idle
  /\ \E given \in Spellings \cup {Empty}, name \in Names :
       LET sl == Lower[Coalesce(given, Generate[name])]
       IN  /\ ~SlugExists(sl)
           /\ SectionStep(h, [pc |-> "insert", slug |-> sl, name |-> name])
  /\ UNCHANGED sections

\* Save: defaults, check (which refuses an empty slug), INSERT.
InsertSection(h) ==
  /\ sectionReq[h].pc = "insert"
  /\ LET r == sectionReq[h]
     IN  \E i \in SectionIds :
           /\ sections[i] = Unused
           /\ r.slug # Empty /\ SlugIndexAllows(r.slug, i)
           /\ sections' = [sections EXCEPT ![i] = [slug |-> r.slug, name |-> r.name]]
  /\ SectionStep(h, Idle)

\* Only a slug that is given is looked up; the section itself is not.
AskUpdate(h, i) ==
  /\ sectionReq[h] = Idle
  /\ \E given \in Spellings \cup {Empty}, name \in Names \cup {Empty} :
       LET sl == Lower[given]
       IN  /\ sl # Empty => ~SlugExists(sl)
           /\ SectionStep(h, [pc |-> "update", id |-> i,
                              patch |-> [slug |-> sl, name |-> name]])
  /\ UNCHANGED sections

\* UPDATE ... SET of the columns the builder was given, WHERE id = $n.
\* Mutant: a column that is not given is written as it is, blank.
PatchedBlank(i, patch) == [slug |-> patch.slug, name |-> patch.name]
PatchedSection(i, patch) ==
  [slug |-> Coalesce(patch.slug, sections[i].slug),
   name |-> Coalesce(patch.name, sections[i].name)]

UpdateSection(h) ==
  /\ sectionReq[h].pc = "update"
  /\ LET r == sectionReq[h]
     IN  /\ r.id \in LiveSections
         /\ r.patch.slug # Empty => SlugIndexAllows(r.patch.slug, r.id)
         /\ sections' = [sections EXCEPT ![r.id] = PatchedSection(r.id, r.patch)]
  /\ SectionStep(h, Idle)

\* The statement is refused (row gone, index, validator) or fails: the request
\* ends and the table is as it was.
EndSectionRequest(h) ==
  /\ sectionReq[h] # Idle
  /\ SectionStep(h, Idle)
  /\ UNCHANGED sections

\* One statement.  posts.section_id refers to sections without an ON DELETE
\* action: Postgres refuses to delete a section posts refer to.
InUse(i, referenced) == i \in referenced

DeleteSection(i, referenced) ==
  /\ i \in LiveSections
  /\ ~InUse(i, referenced)
  /\ sections' = [sections EXCEPT ![i] = Deleted]
  /\ UNCHANGED sectionReq

SectionRequest(h) ==
  \/ AskCreate(h) \/ InsertSection(h) \/ UpdateSection(h) \/ EndSectionRequest(h)
  \/ \E i \in SectionIds : AskUpdate(h, i)
=============================================================================
