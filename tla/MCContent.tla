------------------------------ MODULE MCContent ------------------------------
EXTENDS Content, TLC

CONSTANTS h1, h2, x, y, p1, p2, t1, t2, d1, tech, news, Tech, go, empty

\* strings.ToLower on the spellings in use; "" stays "".
ToLower == [s \in Spellings \cup {Empty} |-> IF s = Tech THEN tech ELSE s]

\* Neither names nor titles have a letter: a slug comes from the request or is "".
SlugOfName == [n \in Names |-> empty]
SlugOfTitle == [t \in Titles |-> empty]

\* Updates that give one field: the section, the slug or the schedule.
OneField ==
  {patch \in PostPatches :
     Cardinality({f \in DOMAIN patch : patch[f] # Empty}) = 1 /\ patch.title = Empty}

SomeLimits == {NotANumber, 0, 2, 3}

ContentSymmetry ==
  Permutations(Handlers) \cup Permutations(SectionIds) \cup Permutations(PostIds)
    \cup Permutations(Instants)
=============================================================================
