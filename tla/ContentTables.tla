---------------------------- MODULE ContentTables ----------------------------
(****************************************************************************)
(* What the tables of sections and posts and their requests share: values    *)
(* that a request leaves out, ids without a row, requests in progress.       *)
(****************************************************************************)

CONSTANTS
  Handlers,     \* concurrent admin requests, at most this many at a time
  Empty,        \* "" or nil in a request: not given
  Unused,       \* no row yet under this id
  Deleted,      \* the row is gone
  SectionIds    \* bound: the UUIDs sections are ever created with

\* A row, as opposed to an id that has none.
IsRow(row) == row \notin {Unused, Deleted}

\* coalesceStr, and the tests for "" and nil around Ent's setters.
Coalesce(given, else) == IF given = Empty THEN else ELSE given

\* A request that has not begun, or has been answered.
Idle == [pc |-> "idle"]
=============================================================================
