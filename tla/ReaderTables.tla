---------------------------- MODULE ReaderTables ----------------------------
(****************************************************************************)
(* What comments and analytics events share: the posts they refer to.        *)
(****************************************************************************)

CONSTANTS
  PostIds,      \* the posts of the site
  Empty,        \* NULL, nil or "": no post, no parent, no filter
  Unused        \* no row yet under this id

ASSUME NoPostAssumption == Empty \notin PostIds
=============================================================================
