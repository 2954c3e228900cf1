--------------------------------- MODULE Ent ---------------------------------
(****************************************************************************)
(* A client of the Ent builders over a database of a few rows of every type:  *)
(* it opens a create or an update builder, makes calls on it in any order,    *)
(* saves, perhaps again after a failure, while rows are deleted.              *)
(****************************************************************************)
EXTENDS EntStore

CONSTANTS
  Fixture,      \* the rows at the start
  NewId,        \* the id a create draws (uuid.New), free at the start
  Updated,      \* bound: the row of each type that is updated
  Doomed,       \* bound: the rows that are deleted, as <<type, id>>
  MaxCalls      \* bound on the calls on builders

ASSUME EntAssumption ==
  /\ IsDatabase(Fixture) /\ Legal(Fixture)
  /\ NewId \in Ids /\ \A type \in Types : NewId \notin Live(Fixture, type)
  /\ Updated \in Ids /\ Doomed \subseteq Types \X Ids /\ MaxCalls \in Nat

VARIABLES
  db,           \* the database
  mut,          \* the open builder's mutation, Closed when there is none
  asked,        \* ghost: the last call on each field of the open builder
  calls         \* how many calls were made

vars == <<db, mut, asked, calls>>

Closed == [op |-> "none"]

Init ==
  /\ db = Fixture
  /\ mut = Closed
  /\ asked = [f \in {} |-> Null]
  /\ calls = 0

----------------------------------------------------------------------------
(* Opening a builder                                                         *)

\* A value of each kind that every validator accepts and no index has.
Fresh(type, f) ==
  LET kind == Entity[type].kinds[f]
  IN  CASE kind = "text" -> "c" [] kind = "enum" -> "two" [] kind = "number" -> 2
        [] kind = "flag" -> TRUE [] kind = "time" -> "given" [] kind = "json" -> "doc"
        [] kind = "key" -> Updated

Mandatory(type) ==
  DOMAIN Entity[type].fields \ (Entity[type].nullable \cup DOMAIN Entity[type].defaults)

Told(names, given) == [f \in names |-> [call |-> "set", value |-> given[f], only |-> TRUE]]

\* A create with the mandatory fields set, but for one at most.
OpenCreate(type) ==
  /\ mut = Closed /\ calls < MaxCalls
  /\ \E missing \in {{f} : f \in Mandatory(type)} \cup {{}} :
       LET names == Mandatory(type) \ missing
           given == [f \in names |-> Fresh(type, f)]
       IN  /\ mut' = [NewMutation(type, "create", NewId) EXCEPT !.set = given]
           /\ asked' = Told(names, given)
           /\ calls' = calls + Cardinality(missing)
  /\ UNCHANGED db

OpenUpdate(type) ==
  /\ mut = Closed /\ calls < MaxCalls
  /\ mut' = NewMutation(type, "update", Updated)
  /\ UNCHANGED <<db, asked, calls>>

----------------------------------------------------------------------------
(* Calls on the builder, and the resets of its Mutation()                     *)

Offered(type, f) ==
  CASE Entity[type].kinds[f] = "text" -> {"b", "B C", "", "long"}
    [] Entity[type].kinds[f] = "number" -> {-1, 1, 3}
    [] Entity[type].kinds[f] = "time" -> {"given"}
    [] OTHER -> Values(Entity[type].kinds[f])

Settable(m) == IF m.op = "create" THEN Schema(m).createSets ELSE Schema(m).updateSets

Call(next) == calls < MaxCalls /\ mut' = next /\ calls' = calls + 1 /\ UNCHANGED db
Ask(f, call, v) ==
  asked' = With(asked, f, [call |-> call, value |-> v, only |-> f \notin DOMAIN asked])

SetAField ==
  \E f \in Settable(mut) : \E v \in Offered(mut.type, f) :
    Call(BuilderSets(mut, f, v)) /\ Ask(f, "set", v)

AddToANumber ==
  \E f \in Schema(mut).numbers \cap Settable(mut), n \in {-1, 1} :
    /\ mut.op = "update"
    /\ Call(AddToField(mut, f, n))
    /\ Ask(f, "add", n + IF f \in DOMAIN asked /\ asked[f].call = "add"
                           THEN asked[f].value ELSE 0)

ClearAField ==
  \E f \in Schema(mut).nullable \cap Settable(mut) :
    mut.op = "update" /\ Call(ClearField(mut, f)) /\ Ask(f, "clear", Null)

ResetAField ==
  \E f \in DOMAIN Schema(mut).fields : Call(ResetField(mut, f)) /\ Ask(f, "reset", Null)

UnlinkAParent ==
  \E k \in DOMAIN Schema(mut).parents :
    mut.op = "update" /\ Call(UnlinkParent(mut, k)) /\ Ask(k, "clear", Null)

ResetAParent ==
  \E k \in DOMAIN Schema(mut).parents : Call(ResetParent(mut, k)) /\ Ask(k, "reset", Null)

ChangeChildren ==
  /\ \E e \in Edges(mut), i \in Ids :
       \/ Call(AddChild(mut, e, i))
       \/ mut.op = "update" /\ Call(RemoveChild(mut, e, i))
       \/ mut.op = "update" /\ Call(ClearChildren(mut, e))
       \/ Call(ResetChildren(mut, e))
  /\ UNCHANGED asked

CallBuilder ==
  /\ mut # Closed
  /\ \/ SetAField \/ AddToANumber \/ ClearAField \/ ResetAField
     \/ UnlinkAParent \/ ResetAParent \/ ChangeChildren

----------------------------------------------------------------------------
(* Save and delete                                                           *)

\* A builder that has saved is not used again.
Save ==
  /\ mut # Closed
  /\ LET m == WithDefaults(mut)
     IN  CanSave(db, m) /\ db' = Saved(RowSaved(db, m), m)
  /\ mut' = Closed /\ asked' = [f \in {} |-> Null]
  /\ calls' = MaxCalls

\* Refused by check or by Postgres, or the connection fails: an error for the
\* client, the transaction rolled back, the defaults kept.
SaveFails ==
  /\ mut # Closed /\ mut' = WithDefaults(mut)
  /\ UNCHANGED <<db, asked, calls>>

DeleteOne(type, id) ==
  /\ CanDelete(db, type, id)
  /\ db' = AfterDelete(db, type, id)
  /\ UNCHANGED <<mut, asked, calls>>

Next ==
  \/ \E type \in Types : OpenCreate(type) \/ OpenUpdate(type)
  \/ CallBuilder \/ Save \/ SaveFails
  \/ \E row \in Doomed : DeleteOne(row[1], row[2])

Spec == Init /\ [][Next]_vars

----------------------------------------------------------------------------
(* Properties                                                                *)

IsMutation(m) ==
  /\ DOMAIN m = {"type", "op", "id", "set", "added", "cleared", "unlinked", "emptied",
                 "adds", "removes"}
  /\ m.type \in Types /\ m.op \in {"create", "update"} /\ m.id \in Ids
  /\ DOMAIN m.set \subseteq DOMAIN Schema(m).fields
  /\ \A f \in DOMAIN m.set : m.set[f] \in Values(Schema(m).kinds[f])
  /\ DOMAIN m.added \subseteq Schema(m).numbers
  /\ \A f \in DOMAIN m.added : m.added[f] \in Int
  /\ m.cleared \subseteq Schema(m).nullable \cup DOMAIN Schema(m).parents
  /\ m.unlinked \subseteq DOMAIN Schema(m).parents
  /\ m.emptied \subseteq Edges(m)
  /\ DOMAIN m.adds = Edges(m) /\ DOMAIN m.removes = Edges(m)
  /\ \A e \in Edges(m) : m.adds[e] \subseteq Ids /\ m.removes[e] \subseteq Ids

\* A key refers to a row: a delete takes the key out of every row that holds
\* it, or is refused.
KeysRefer ==
  \A type \in Types : \A i \in Live(db, type), k \in DOMAIN Entity[type].parents :
    db[type][i][k] \in Live(db, Entity[type].parents[k]) \cup {Null}

\* Every row has a value of its column's kind in every column, NULL in optional
\* ones only, and keys that refer to rows; a mutation names fields and edges of
\* its type.
TypeOK ==
  IsDatabase(db) /\ KeysRefer /\ (mut = Closed \/ IsMutation(mut)) /\ calls \in 0..MaxCalls

Saves == mut # Closed /\ mut' = Closed
RowAfter == db'[mut.type][mut.id]

\* What a save leaves in a column when nothing was asked of it: what was there,
\* on a create the default, and the time of the save in updated_at.
Otherwise(f) ==
  IF f \in DOMAIN Defaults(mut) THEN Defaults(mut)[f]
  ELSE IF mut.op = "create" THEN Null ELSE db[mut.type][mut.id][f]

Wanted(f) ==
  IF f \notin DOMAIN asked \/ asked[f].call = "reset" THEN Otherwise(f)
  ELSE IF asked[f].call = "add"
    THEN (IF Otherwise(f) = Null THEN 0 ELSE Otherwise(f)) + asked[f].value
  ELSE asked[f].value

\* A save that succeeds gives each column what the last call on its field asked
\* for, whatever was called before and however many saves failed.  A parent's
\* key is excepted after several calls, unless the last one set it: the builder
\* keeps the key it was given when the edge is cleared after it.
LastCallWins ==
  [][ Saves =>
        \A f \in DOMAIN Schema(mut).fields :
          (f \in DOMAIN asked \cap DOMAIN Schema(mut).parents
             => asked[f].only \/ asked[f].call = "set")
            => RowAfter[f] = Wanted(f) ]_vars

\* No save stores a value its own validators refuse, an increment excepted,
\* which Ent does not validate.
ValidatorsHold ==
  [][ Saves =>
        \A f \in DOMAIN Schema(mut).rules :
          RowAfter[f] = Null \/ f \in DOMAIN mut.added
            \/ (mut.op = "update" /\ RowAfter[f] = db[mut.type][mut.id][f])
            \/ ~Refuses(Schema(mut).rules[f], RowAfter[f]) ]_vars

\* The key of a child that the save takes away, or of one without a parent that
\* it was given.
ReachesChild(m, type, f, i, key) ==
  \E e \in Edges(m) :
    /\ Schema(m).children[e] = Children(type, f)
    /\ \/ key = m.id /\ (e \in m.emptied \/ i \in m.removes[e])
       \/ key = Null /\ i \in m.adds[e]

\* A save of a parent takes no child from another parent and changes nothing of
\* a child but its key; rows it does not name stay as they are, children without
\* a parent among them.
ChildrenStay ==
  [][ Saves =>
        \A type \in Types : \A i \in Live(db, type) :
          <<type, i>> # <<mut.type, mut.id>> =>
            \A f \in DOMAIN db[type][i] :
              \/ db'[type][i][f] = db[type][i][f]
              \/ ReachesChild(mut, type, f, i, db[type][i][f]) ]_vars
=============================================================================
