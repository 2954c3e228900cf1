------------------------------ MODULE EntStore ------------------------------
(****************************************************************************)
(* Save of the Ent builders: defaults, check, sqlSave with the statements it  *)
(* builds, and what Postgres makes of them under the migrated schema.         *)
(*                                                                          *)
(* A database holds for each type the row under each id, Null without one; a  *)
(* column is Null for NULL.  Values stand for the cases the validators and    *)
(* the indexes tell apart: "long" for a text beyond MaxLen, "B C" for one that *)
(* is no slug, "other" for no value of an enumeration, 2 for the largest       *)
(* number (100 of scroll_pct).                                                *)
(****************************************************************************)
EXTENDS EntMutation, FiniteSets

CONSTANTS
  Ids,          \* bound: the ids rows are stored under
  Null          \* NULL, or no row

Values(kind) ==
  CASE kind = "text" -> {"a", "b", "c", "B C", "", "long"}
    [] kind = "enum" -> {"one", "two", "other"}
    [] kind = "number" -> Int
    [] kind = "flag" -> BOOLEAN
    [] kind = "time" -> {"then", "given", Now}
    [] kind = "json" -> {"doc"}
    [] kind = "key" -> Ids

KindNames == {"text", "enum", "number", "flag", "time", "json", "key"}
AnyValue == {Null} \cup UNION {Values(kind) : kind \in KindNames}

\* A row is a function; NULL is none.
ASSUME NullAssumption ==
  \A type \in Types : Null \notin [DOMAIN Entity[type].fields -> AnyValue]

Column(type, f) ==
  Values(Entity[type].kinds[f])
    \cup (IF f \in Entity[type].nullable THEN {Null} ELSE {})

IsRowOf(type, row) ==
  /\ row = [f \in DOMAIN Entity[type].fields |-> row[f]]
  /\ \A f \in DOMAIN row : row[f] \in Column(type, f)

IsDatabase(db) ==
  /\ db = [type \in Types |-> [i \in Ids |-> db[type][i]]]
  /\ \A type \in Types, i \in Ids :
       db[type][i] = Null \/ IsRowOf(type, db[type][i])

Live(db, type) == {i \in Ids : db[type][i] # Null}

----------------------------------------------------------------------------
(* Validators and defaults                                                   *)

Fails(rule, v) ==
  CASE rule = "NotEmpty" -> v = ""
    [] rule = "MaxLen" -> v = "long"
    [] rule = "Match" -> v \in {"", "B C"}
    [] rule = "Values" -> v = "other"
    [] rule = "NonNegative" -> v < 0
    [] rule = "Positive" -> v <= 0
    [] rule = "Max" -> v > 2
Refuses(rules, v) == \E rule \in rules : Fails(rule, v)

\* A create fills every default the builder left out, an update only updated_at;
\* what is filled in stays in the mutation when the save fails.
Defaults(m) ==
  IF m.op = "create" THEN Schema(m).defaults
                     ELSE Restricted(Schema(m).defaults, {"updated_at"})
WithDefaults(m) == [m EXCEPT !.set = Joined(@, Defaults(m))]

\* check: increments are never validated, and of the keys an update both sets
\* and clears only the required ones are refused.
\* Mutant: an update validates nothing.
CheckedOnCreate(m) == IF m.op = "create" THEN Schema(m).createChecks ELSE {}
Checked(m) == IF m.op = "create" THEN Schema(m).createChecks ELSE Schema(m).updateChecks
Check(m) ==
  LET required == DOMAIN Schema(m).fields \ Schema(m).nullable
  IN  /\ \A f \in DOMAIN m.set \cap Checked(m) : ~Refuses(Schema(m).rules[f], m.set[f])
      /\ m.op = "create" => required \subseteq DOMAIN m.set
      /\ m.op = "update" =>
           \A k \in DOMAIN Schema(m).parents \ Schema(m).nullable :
             ~(ParentCleared(m, k) /\ k \in DOMAIN m.set)

----------------------------------------------------------------------------
(* The statements                                                            *)

Columns(m) == IF m.op = "create" THEN Schema(m).createColumns ELSE Schema(m).updateColumns

\* Postgres refuses a statement that assigns a column twice; of a key that is
\* set and cleared, Ent assigns only what is set.
AssignsOnce(m) ==
  \A f \in Columns(m) \ DOMAIN Schema(m).parents :
    Cardinality({a \in {"set", "add", "clear"} :
      \/ a = "set" /\ f \in DOMAIN m.set
      \/ a = "add" /\ f \in DOMAIN m.added
      \/ a = "clear" /\ f \in m.cleared}) <= 1

IsCleared(m, f) ==
  IF f \in DOMAIN Schema(m).parents THEN ParentCleared(m, f) ELSE f \in m.cleared

\* The row after the INSERT (old is the row of NULLs) or the UPDATE; an
\* increment is added to COALESCE(column, 0).
Written(m, old) ==
  [f \in DOMAIN old |->
    IF f \notin Columns(m) THEN old[f]
    ELSE IF f \in DOMAIN m.set THEN m.set[f]
    ELSE IF IsCleared(m, f) THEN Null
    ELSE IF f \in DOMAIN m.added THEN (IF old[f] = Null THEN 0 ELSE old[f]) + m.added[f]
    ELSE old[f]]

\* The key of an edge in the rows of its children, as <<type, id, column>>; a
\* database with v in such cells.
Cells(c, ids) == {<<c.type, i, c.key>> : i \in ids}
Assigned(db, cells, v) ==
  [type \in Types |->
    IF \A cell \in cells : cell[1] # type THEN db[type]
    ELSE [i \in Ids |->
      IF db[type][i] = Null THEN Null
      ELSE [f \in DOMAIN db[type][i] |->
              IF <<type, i, f>> \in cells THEN v ELSE db[type][i][f]]]]

RefersTo(db, c, id) == {i \in Live(db, c.type) : db[c.type][i][c.key] = id}

\* UPDATE children SET key = NULL: all of them when the edge is cleared, else
\* the removed ones that are this row's.
Dropped(db, m, e) ==
  LET mine == RefersTo(db, Schema(m).children[e], m.id)
  IN  IF e \in m.emptied THEN mine ELSE mine \cap m.removes[e]
\* UPDATE children SET key = id WHERE id IN (...) AND key IS NULL; a child it
\* does not reach is a ConstraintError.
\* Mutant: without the second condition.
AnyChild(db, c, i) == i \in Live(db, c.type)
MayAdd(db, c, i) == i \in Live(db, c.type) /\ db[c.type][i][c.key] = Null

\* The unique columns, alone or together; the columns that may be NULL; the keys.
Unique ==
  [AnalyticsEvent |-> {}, MediaAsset |-> {{"storage_key"}}, Post |-> {{"slug"}},
   PostBlock |-> {{"post_id", "position"}}, Section |-> {{"slug"}}, User |-> {{"email"}}]
Legal(db) ==
  \A type \in Types : \A i \in Live(db, type) :
    LET row == db[type][i]
    IN  /\ \A f \in DOMAIN row : row[f] = Null => f \in Entity[type].nullable
        /\ \A k \in DOMAIN Entity[type].parents :
             row[k] # Null => row[k] \in Live(db, Entity[type].parents[k])
        /\ \A cols \in Unique[type] : \A j \in Live(db, type) \ {i} :
             \E f \in cols : row[f] # db[type][j][f]

----------------------------------------------------------------------------
\* What a save that succeeds makes of a database, in one transaction: the row,
\* then the children dropped, then the children added.
Edges(m) == DOMAIN Schema(m).children
RowOld(db, m) ==
  IF m.op = "create" THEN [f \in DOMAIN Schema(m).fields |-> Null] ELSE db[m.type][m.id]
RowSaved(db, m) == [db EXCEPT ![m.type][m.id] = Written(m, RowOld(db, m))]
DropAll(db, m) ==
  Assigned(db, UNION {Cells(Schema(m).children[e], Dropped(db, m, e)) : e \in Edges(m)}, Null)
AddAll(db, m) ==
  Assigned(db, UNION {Cells(Schema(m).children[e], m.adds[e]) : e \in Edges(m)}, m.id)
Saved(db, m) == AddAll(DropAll(db, m), m)

CanSave(db, m) ==
  /\ Check(m) /\ AssignsOnce(m)
  /\ (m.op = "update") <=> (m.id \in Live(db, m.type))
  /\ LET rowed == RowSaved(db, m)
         dropped == DropAll(rowed, m)
     IN  /\ Legal(rowed) /\ Legal(dropped)
         /\ \A e \in Edges(m) : \A i \in m.adds[e] : MayAdd(dropped, Schema(m).children[e], i)
         /\ Legal(Saved(rowed, m))

\* DELETE of one row, refused while a key without ON DELETE action refers to it;
\* the optional keys are set to NULL with it.  Of no row: NotFoundError.
\* Mutant: the optional keys stay.
NothingToNull(type) == {}
Referring(type) ==
  {Entity[type].children[e] : e \in DOMAIN Entity[type].children}
SetNullKeys(type) == {c \in Referring(type) : c.key \in Entity[c.type].nullable}
Protecting(type) == {c \in Referring(type) : c.key \notin Entity[c.type].nullable}
CanDelete(db, type, id) ==
  /\ id \in Live(db, type)
  /\ \A c \in Protecting(type) : RefersTo(db, c, id) = {}
AfterDelete(db, type, id) ==
  Assigned([db EXCEPT ![type][id] = Null],
           UNION {Cells(c, RefersTo(db, c, id)) : c \in SetNullKeys(type)}, Null)
=============================================================================
