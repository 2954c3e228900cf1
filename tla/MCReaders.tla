------------------------------ MODULE MCReaders ------------------------------
EXTENDS Readers, TLC

CONSTANTS a1, c1, c2, c3, e1, e2, p1, r1

ReadersSymmetry ==
  Permutations(CommentIds) \cup Permutations(EventIds)
=============================================================================
