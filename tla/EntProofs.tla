------------------------------ MODULE EntProofs ------------------------------
(****************************************************************************)
(* Theorems about Ent for any rows, ids, deletes and bound on the calls: what *)
(* a Save of the generated builders leaves in the database, whatever calls    *)
(* came before it and however many saves failed.                              *)
(****************************************************************************)
EXTENDS Ent, EntSchemaProofs, FiniteSetTheorems

----------------------------------------------------------------------------
(* Rows                                                                      *)

Fields(type) == DOMAIN Entity[type].fields
Keys(type) == DOMAIN Entity[type].parents

\* A database as it is between the statements of a save: a row has a value of
\* its kind or NULL in every column, whether the column may be NULL or not.
RowFits(type, row) ==
  /\ row = [f \in Fields(type) |-> row[f]]
  /\ \A f \in Fields(type) : row[f] \in Values(Entity[type].kinds[f]) \cup {Null}
Fitting(D) ==
  /\ D = [type \in Types |-> [i \in Ids |-> D[type][i]]]
  /\ \A type \in Types, i \in Ids : D[type][i] = Null \/ RowFits(type, D[type][i])

\* A row is not NULL.
LEMMA RowIsNotNull ==
  ASSUME NEW type \in Types, NEW row, RowFits(type, row)
  PROVE  row # Null
<1>1. ASSUME NEW f \in Fields(type) PROVE row[f] \in AnyValue
  <2>1. Entity[type].kinds[f] \in KindNames
    BY EntitiesFit DEF Fits, FieldsFit, Fields
  <2>2. row[f] \in Values(Entity[type].kinds[f]) \cup {Null}
    BY DEF RowFits
  <2>3. QED
    BY <2>1, <2>2 DEF AnyValue
<1>2. row \in [Fields(type) -> AnyValue]
  BY <1>1 DEF RowFits
<1> QED
  BY <1>2, NullAssumption DEF Fields

\* A database the schema admits is one whose rows fit, with NULL in optional
\* columns only.
LEMMA DatabaseFits ==
  ASSUME NEW D, IsDatabase(D)
  PROVE  Fitting(D)
  BY DEF IsDatabase, IsRowOf, Column, Fitting, RowFits, Fields

LEMMA LegalIsDatabase ==
  ASSUME NEW D, Fitting(D), Legal(D)
  PROVE  IsDatabase(D)
<1>1. ASSUME NEW type \in Types, NEW i \in Ids, D[type][i] # Null
      PROVE  IsRowOf(type, D[type][i])
  <2>1. i \in Live(D, type)
    BY <1>1 DEF Live
  <2>2. RowFits(type, D[type][i])
    BY <1>1 DEF Fitting
  <2>3. \A f \in Fields(type) : D[type][i][f] = Null => f \in Entity[type].nullable
    BY <2>1, <2>2 DEF Legal, RowFits
  <2>4. QED
    BY <2>2, <2>3 DEF IsRowOf, RowFits, Column, Fields
<1> QED
  BY <1>1 DEF IsDatabase, Fitting

\* What an assignment to cells makes of a row, and of none.
LEMMA AssignedRow ==
  ASSUME NEW D, Fitting(D), NEW cells, NEW v, NEW type \in Types, NEW i \in Ids,
         D[type][i] # Null
  PROVE  Assigned(D, cells, v)[type][i] =
           [f \in Fields(type) |-> IF <<type, i, f>> \in cells THEN v ELSE D[type][i][f]]
<1>1. CASE \A cell \in cells : cell[1] # type
  <2>1. \A f : <<type, i, f>> \notin cells
    BY <1>1
  <2>2. Assigned(D, cells, v)[type][i] = D[type][i]
    BY <1>1 DEF Assigned
  <2>3. D[type][i] = [f \in Fields(type) |-> D[type][i][f]]
    BY DEF Fitting, RowFits
  <2>4. QED
    BY <2>1, <2>2, <2>3
<1>2. CASE ~ \A cell \in cells : cell[1] # type
  <2>1. Assigned(D, cells, v)[type][i] =
          [f \in DOMAIN D[type][i] |->
             IF <<type, i, f>> \in cells THEN v ELSE D[type][i][f]]
    BY <1>2 DEF Assigned
  <2>2. DOMAIN D[type][i] = Fields(type)
    <3>1. D[type][i] = [f \in Fields(type) |-> D[type][i][f]]
      BY DEF Fitting, RowFits
    <3>2. DOMAIN [f \in Fields(type) |-> D[type][i][f]] = Fields(type)
      OBVIOUS
    <3>3. QED
      BY <3>1, <3>2
  <2>3. QED
    BY <2>1, <2>2
<1> QED
  BY <1>1, <1>2

\* It makes no row where there was none.
LEMMA AssignedNone ==
  ASSUME NEW D, NEW cells, NEW v, NEW type \in Types, NEW i \in Ids, D[type][i] = Null
  PROVE  Assigned(D, cells, v)[type][i] = Null
  BY DEF Assigned

\* An assignment to keys leaves a fitting database, with the same rows.
LEMMA AssignedFits ==
  ASSUME NEW D, Fitting(D), NEW cells, NEW v \in Ids \cup {Null},
         \A type \in Types, i \in Ids : \A f : <<type, i, f>> \in cells => f \in Keys(type)
  PROVE  /\ Fitting(Assigned(D, cells, v))
         /\ \A type \in Types : Live(Assigned(D, cells, v), type) = Live(D, type)
<1> DEFINE A == Assigned(D, cells, v)
<1>1. A = [type \in Types |-> [i \in Ids |-> A[type][i]]]
  BY DEF Assigned, Fitting
<1>2. ASSUME NEW type \in Types, NEW i \in Ids, D[type][i] # Null
      PROVE  RowFits(type, A[type][i])
  <2>1. A[type][i] = [f \in Fields(type) |->
                        IF <<type, i, f>> \in cells THEN v ELSE D[type][i][f]]
    BY <1>2, AssignedRow
  <2>2. ASSUME NEW f \in Fields(type), <<type, i, f>> \in cells
        PROVE  v \in Values(Entity[type].kinds[f]) \cup {Null}
    <3>1. Entity[type].kinds[f] = "key"
      BY <2>2, EntitiesFit DEF Fits, KeysFit, Keys
    <3>2. QED
      BY <3>1, ValuesAre
  <2>3. \A f \in Fields(type) :
          D[type][i][f] \in Values(Entity[type].kinds[f]) \cup {Null}
    BY <1>2 DEF Fitting, RowFits
  <2> HIDE DEF A
  <2>4. QED
    BY <2>1, <2>2, <2>3 DEF RowFits
<1>3. ASSUME NEW type \in Types, NEW i \in Ids, D[type][i] = Null
      PROVE  A[type][i] = Null
  BY <1>3, AssignedNone
<1>4. \A type \in Types, i \in Ids : D[type][i] # Null => A[type][i] # Null
  BY <1>2, RowIsNotNull
<1> HIDE DEF A
<1>5. Fitting(A)
  BY <1>1, <1>2, <1>3 DEF Fitting
<1>6. \A type \in Types : Live(A, type) = Live(D, type)
  BY <1>3, <1>4 DEF Live
<1> QED
  BY <1>5, <1>6 DEF A

----------------------------------------------------------------------------
(* Mutations                                                                 *)

\* The defaults of a mutation name columns of its type that are no keys, on an
\* update updated_at alone.
LEMMA DefaultsOfMutation ==
  ASSUME NEW m, m.type \in Types
  PROVE  \A f \in DOMAIN Defaults(m) :
           /\ f \in Fields(m.type) /\ Entity[m.type].kinds[f] # "key"
           /\ Defaults(m)[f] \in Values(Entity[m.type].kinds[f])
           /\ m.op # "create" =>
                /\ f = "updated_at" /\ Entity[m.type].kinds[f] = "time"
                /\ f \notin Entity[m.type].nullable
                /\ f \in Entity[m.type].updateColumns
<1>1. DefaultsFit(Entity[m.type])
  BY EntitiesFit DEF Fits
<1> QED
  BY <1>1 DEF DefaultsFit, Defaults, Restricted, Schema, Fields

\* Filling in defaults changes nothing but what is set.
LEMMA FilledIn ==
  ASSUME NEW m, IsMutation(m)
  PROVE  /\ IsMutation(WithDefaults(m))
         /\ WithDefaults(m) = [m EXCEPT !.set = Joined(m.set, Defaults(m))]
         /\ WithDefaults(m).set = Joined(m.set, Defaults(m))
         /\ WithDefaults(m).type = m.type /\ WithDefaults(m).op = m.op
         /\ WithDefaults(m).id = m.id /\ WithDefaults(m).added = m.added
         /\ WithDefaults(m).cleared = m.cleared
         /\ WithDefaults(m).unlinked = m.unlinked
         /\ WithDefaults(m).emptied = m.emptied /\ WithDefaults(m).adds = m.adds
         /\ WithDefaults(m).removes = m.removes
<1> DEFINE w == WithDefaults(m)
<1>1. DOMAIN m = {"type", "op", "id", "set", "added", "cleared", "unlinked", "emptied",
                  "adds", "removes"}
  BY DEF IsMutation
<1>2. w = [m EXCEPT !.set = Joined(m.set, Defaults(m))]
  BY DEF WithDefaults
<1> HIDE DEF w
<1>3. /\ DOMAIN w = DOMAIN m /\ w.set = Joined(m.set, Defaults(m))
      /\ w.type = m.type /\ w.op = m.op /\ w.id = m.id /\ w.added = m.added
      /\ w.cleared = m.cleared /\ w.unlinked = m.unlinked /\ w.emptied = m.emptied
      /\ w.adds = m.adds /\ w.removes = m.removes
  BY <1>1, <1>2
<1>4. /\ DOMAIN w.set \subseteq Fields(m.type)
      /\ \A f \in DOMAIN w.set : w.set[f] \in Values(Entity[m.type].kinds[f])
  BY <1>3, DefaultsOfMutation DEF IsMutation, Joined, Schema, Fields
<1>5. IsMutation(w)
  BY <1>1, <1>3, <1>4 DEF IsMutation, Schema, Edges, Fields
<1> QED
  BY <1>2, <1>3, <1>5 DEF w

\* The row that is written fits when the one before it does.
LEMMA WrittenFits ==
  ASSUME NEW m, IsMutation(m), NEW old, RowFits(m.type, old)
  PROVE  /\ RowFits(m.type, Written(m, old))
         /\ \A f \in Fields(m.type) :
              Written(m, old)[f] =
                IF f \notin Columns(m) THEN old[f]
                ELSE IF f \in DOMAIN m.set THEN m.set[f]
                ELSE IF IsCleared(m, f) THEN Null
                ELSE IF f \in DOMAIN m.added
                  THEN (IF old[f] = Null THEN 0 ELSE old[f]) + m.added[f]
                ELSE old[f]
<1> DEFINE new == Written(m, old)
           type == m.type
<1>1. DOMAIN old = Fields(type)
  <2>1. old = [f \in Fields(type) |-> old[f]]
    BY DEF RowFits
  <2>2. DOMAIN [f \in Fields(type) |-> old[f]] = Fields(type)
    OBVIOUS
  <2>3. QED
    BY <2>1, <2>2
<1>2. /\ new = [f \in Fields(type) |-> new[f]]
      /\ \A f \in Fields(type) :
           new[f] = IF f \notin Columns(m) THEN old[f]
                    ELSE IF f \in DOMAIN m.set THEN m.set[f]
                    ELSE IF IsCleared(m, f) THEN Null
                    ELSE IF f \in DOMAIN m.added
                      THEN (IF old[f] = Null THEN 0 ELSE old[f]) + m.added[f]
                    ELSE old[f]
  BY <1>1 DEF Written
<1> HIDE DEF new
<1>3. ASSUME NEW f \in Fields(type)
      PROVE  new[f] \in Values(Entity[type].kinds[f]) \cup {Null}
  <2>1. old[f] \in Values(Entity[type].kinds[f]) \cup {Null}
    BY DEF RowFits
  <2>2. f \in DOMAIN m.set => m.set[f] \in Values(Entity[type].kinds[f])
    BY DEF IsMutation, Schema
  <2>3. ASSUME f \in DOMAIN m.added
        PROVE  (IF old[f] = Null THEN 0 ELSE old[f]) + m.added[f]
                 \in Values(Entity[type].kinds[f])
    <3>1. f \in Entity[type].numbers /\ m.added[f] \in Int /\ type \in Types
      BY <2>3 DEF IsMutation, Schema
    <3>2. Entity[type].kinds[f] = "number"
      BY <3>1, EntitiesFit DEF Fits, FieldsFit
    <3>3. old[f] \in Int \cup {Null}
      BY <2>1, <3>2, ValuesAre
    <3>4. (IF old[f] = Null THEN 0 ELSE old[f]) \in Int
      BY <3>3
    <3>5. QED
      BY <3>1, <3>2, <3>4, ValuesAre
  <2>4. QED
    BY <1>2, <2>1, <2>2, <2>3
<1> QED
  BY <1>2, <1>3 DEF RowFits, new

----------------------------------------------------------------------------
(* Save                                                                      *)

\* The statement on the row: the row written, every other as it was.
LEMMA RowIsSaved ==
  ASSUME NEW D, Fitting(D), NEW m, IsMutation(m), m.op = "update" => m.id \in Live(D, m.type)
  PROVE  /\ Fitting(RowSaved(D, m)) /\ RowFits(m.type, RowOld(D, m))
         /\ RowSaved(D, m)[m.type][m.id] = Written(m, RowOld(D, m))
         /\ \A type \in Types, i \in Ids :
              type # m.type \/ i # m.id => RowSaved(D, m)[type][i] = D[type][i]
<1> DEFINE R == RowSaved(D, m)
           old == RowOld(D, m)
<1>1. m.type \in Types /\ m.id \in Ids /\ m.op \in {"create", "update"}
  BY DEF IsMutation
<1>2. RowFits(m.type, old)
  <2>1. CASE m.op = "create"
    <3>1. old = [f \in Fields(m.type) |-> Null]
      BY <2>1 DEF RowOld, Schema, Fields
    <3> HIDE DEF old
    <3>2. QED
      BY <3>1 DEF RowFits
  <2>2. CASE m.op = "update"
    <3>1. old = D[m.type][m.id] /\ D[m.type][m.id] # Null
      BY <2>2 DEF RowOld, Live
    <3>2. QED
      BY <1>1, <3>1 DEF Fitting
  <2>3. QED
    BY <1>1, <2>1, <2>2
<1>3. RowFits(m.type, Written(m, old))
  BY <1>2, WrittenFits
<1> HIDE DEF old
<1>4. DOMAIN D = Types /\ \A type \in Types : DOMAIN D[type] = Ids
  <2>1. D = [type \in Types |-> [i \in Ids |-> D[type][i]]]
    BY DEF Fitting
  <2>2. QED
    BY <2>1
<1>5. R = [D EXCEPT ![m.type][m.id] = Written(m, old)]
  BY DEF RowSaved, old
<1> HIDE DEF R
<1>6. /\ R[m.type][m.id] = Written(m, old)
      /\ \A type \in Types, i \in Ids :
           type # m.type \/ i # m.id => R[type][i] = D[type][i]
      /\ R = [type \in Types |-> [i \in Ids |-> R[type][i]]]
  <2>1. D = [type \in Types |-> [i \in Ids |-> D[type][i]]]
    BY DEF Fitting
  <2>2. \A type \in Types :
          R[type] = IF type = m.type THEN [D[type] EXCEPT ![m.id] = Written(m, old)]
                                     ELSE D[type]
    BY <1>1, <1>4, <1>5
  <2>3. \A type \in Types, i \in Ids :
          R[type][i] = IF type = m.type /\ i = m.id THEN Written(m, old) ELSE D[type][i]
    BY <1>1, <1>4, <2>2
  <2>4. R = [type \in Types |-> R[type]]
    BY <1>4, <1>5
  <2>5. \A type \in Types : R[type] = [i \in Ids |-> R[type][i]]
    BY <2>1, <2>2
  <2>6. QED
    BY <1>1, <2>3, <2>4, <2>5
<1>7. Fitting(R)
  BY <1>3, <1>6 DEF Fitting
<1> QED
  BY <1>2, <1>6, <1>7 DEF R, old

\* The key of an edge: a column of another type, whose parent is this one.
LEMMA EdgeKey ==
  ASSUME NEW m, IsMutation(m), NEW e \in Edges(m), NEW type, NEW i, NEW f, NEW ids,
         <<type, i, f>> \in Cells(Schema(m).children[e], ids)
  PROVE  /\ i \in ids /\ Schema(m).children[e] = Children(type, f)
         /\ Children(type, f) \in Referring(m.type)
         /\ type \in Types \ {m.type} /\ f \in Keys(type)
<1> DEFINE c == Schema(m).children[e]
<1>1. c \in Referring(m.type) /\ m.type \in Types
  BY DEF Referring, Schema, Edges, IsMutation
<1>2. EdgeFits(m.type, c)
  BY <1>1, EdgesFit
<1>3. type = c.type /\ f = c.key /\ i \in ids
  BY DEF Cells
<1> HIDE DEF c
<1>4. QED
  BY <1>1, <1>2, <1>3 DEF EdgeFits, Keys, c

\* A key is a column.
LEMMA KeysAreFields == \A type \in Types : Keys(type) \subseteq Fields(type)
  BY EntitiesFit DEF Fits, KeysFit, Keys, Fields

\* The children dropped are children of this row, and stay as they are but for
\* their key.
LEMMA ChildrenDropped ==
  ASSUME NEW D, Fitting(D), NEW m, IsMutation(m)
  PROVE  /\ Fitting(DropAll(D, m))
         /\ \A type \in Types : Live(DropAll(D, m), type) = Live(D, type)
         /\ \A i \in Ids : DropAll(D, m)[m.type][i] = D[m.type][i]
         /\ \A type \in Types : \A f \in Fields(type), i \in Live(D, type) :
              DropAll(D, m)[type][i][f] # D[type][i][f]
                => ReachesChild(m, type, f, i, D[type][i][f])
<1> DEFINE cells == UNION {Cells(Schema(m).children[e], Dropped(D, m, e)) : e \in Edges(m)}
           A == Assigned(D, cells, Null)
<1>1. ASSUME NEW type, NEW i, NEW f, <<type, i, f>> \in cells
      PROVE  /\ ReachesChild(m, type, f, i, D[type][i][f])
             /\ type \in Types \ {m.type} /\ f \in Keys(type)
  <2>1. PICK e \in Edges(m) : <<type, i, f>> \in Cells(Schema(m).children[e], Dropped(D, m, e))
    BY <1>1
  <2>2. /\ i \in Dropped(D, m, e) /\ Schema(m).children[e] = Children(type, f)
        /\ type \in Types \ {m.type} /\ f \in Keys(type)
    BY <2>1, EdgeKey
  <2>3. i \in RefersTo(D, Children(type, f), m.id)
    BY <2>2 DEF Dropped
  <2>4. D[type][i][f] = m.id
    BY <2>3 DEF RefersTo, Children
  <2>5. e \in m.emptied \/ i \in m.removes[e]
    BY <2>2 DEF Dropped
  <2>6. QED
    BY <2>2, <2>4, <2>5 DEF ReachesChild
<1>2. DropAll(D, m) = A
  BY DEF DropAll
<1> HIDE DEF cells
<1>3. Fitting(A) /\ \A type \in Types : Live(A, type) = Live(D, type)
  <2>1. \A type \in Types, i \in Ids : \A f : <<type, i, f>> \in cells => f \in Keys(type)
    BY <1>1
  <2>2. QED
    BY <2>1, AssignedFits
<1>4. ASSUME NEW i \in Ids PROVE A[m.type][i] = D[m.type][i]
  <2>1. \A f : <<m.type, i, f>> \notin cells
    BY <1>1
  <2>2. m.type \in Types
    BY DEF IsMutation
  <2>3. CASE D[m.type][i] = Null
    BY <2>2, <2>3, AssignedNone
  <2>4. CASE D[m.type][i] # Null
    <3>1. A[m.type][i] = [f \in Fields(m.type) |->
                            IF <<m.type, i, f>> \in cells THEN Null ELSE D[m.type][i][f]]
      BY <2>2, <2>4, AssignedRow
    <3>2. D[m.type][i] = [f \in Fields(m.type) |-> D[m.type][i][f]]
      BY <2>2, <2>4 DEF Fitting, RowFits
    <3>3. QED
      BY <2>1, <3>1, <3>2
  <2>5. QED
    BY <2>3, <2>4
<1>5. ASSUME NEW type \in Types, NEW i \in Live(D, type), NEW f \in Fields(type),
             A[type][i][f] # D[type][i][f]
      PROVE  ReachesChild(m, type, f, i, D[type][i][f])
  <2>1. i \in Ids /\ D[type][i] # Null
    BY DEF Live
  <2>2. A[type][i] = [g \in Fields(type) |->
                        IF <<type, i, g>> \in cells THEN Null ELSE D[type][i][g]]
    BY <2>1, AssignedRow
  <2>3. <<type, i, f>> \in cells
    BY <1>5, <2>2
  <2>4. QED
    BY <1>1, <2>3
<1> QED
  BY <1>2, <1>3, <1>4, <1>5

\* The children added had no parent.
LEMMA ChildrenAdded ==
  ASSUME NEW D, Fitting(D), NEW m, IsMutation(m),
         \A e \in Edges(m) : \A i \in m.adds[e] : MayAdd(D, Schema(m).children[e], i)
  PROVE  /\ Fitting(AddAll(D, m))
         /\ \A type \in Types : Live(AddAll(D, m), type) = Live(D, type)
         /\ \A i \in Ids : AddAll(D, m)[m.type][i] = D[m.type][i]
         /\ \A type \in Types : \A f \in Fields(type), i \in Live(D, type) :
              AddAll(D, m)[type][i][f] # D[type][i][f]
                => ReachesChild(m, type, f, i, D[type][i][f])
<1> DEFINE cells == UNION {Cells(Schema(m).children[e], m.adds[e]) : e \in Edges(m)}
           A == Assigned(D, cells, m.id)
<1>1. ASSUME NEW type, NEW i, NEW f, <<type, i, f>> \in cells
      PROVE  /\ ReachesChild(m, type, f, i, D[type][i][f])
             /\ type \in Types \ {m.type} /\ f \in Keys(type)
  <2>1. PICK e \in Edges(m) : <<type, i, f>> \in Cells(Schema(m).children[e], m.adds[e])
    BY <1>1
  <2>2. /\ i \in m.adds[e] /\ Schema(m).children[e] = Children(type, f)
        /\ type \in Types \ {m.type} /\ f \in Keys(type)
    BY <2>1, EdgeKey
  <2>3. MayAdd(D, Children(type, f), i)
    BY <2>2
  <2>4. D[type][i][f] = Null
    BY <2>3 DEF MayAdd, Children
  <2>5. QED
    BY <2>2, <2>4 DEF ReachesChild
<1>2. AddAll(D, m) = A
  BY DEF AddAll
<1> HIDE DEF cells
<1>3. Fitting(A) /\ \A type \in Types : Live(A, type) = Live(D, type)
  <2>1. \A type \in Types, i \in Ids : \A f : <<type, i, f>> \in cells => f \in Keys(type)
    BY <1>1
  <2>2. m.id \in Ids
    BY DEF IsMutation
  <2>3. QED
    BY <2>1, <2>2, AssignedFits
<1>4. ASSUME NEW i \in Ids PROVE A[m.type][i] = D[m.type][i]
  <2>1. \A f : <<m.type, i, f>> \notin cells
    BY <1>1
  <2>2. m.type \in Types
    BY DEF IsMutation
  <2>3. CASE D[m.type][i] = Null
    BY <2>2, <2>3, AssignedNone
  <2>4. CASE D[m.type][i] # Null
    <3>1. A[m.type][i] = [f \in Fields(m.type) |->
                            IF <<m.type, i, f>> \in cells THEN m.id ELSE D[m.type][i][f]]
      BY <2>2, <2>4, AssignedRow
    <3>2. D[m.type][i] = [f \in Fields(m.type) |-> D[m.type][i][f]]
      BY <2>2, <2>4 DEF Fitting, RowFits
    <3>3. QED
      BY <2>1, <3>1, <3>2
  <2>5. QED
    BY <2>3, <2>4
<1>5. ASSUME NEW type \in Types, NEW i \in Live(D, type), NEW f \in Fields(type),
             A[type][i][f] # D[type][i][f]
      PROVE  ReachesChild(m, type, f, i, D[type][i][f])
  <2>1. i \in Ids /\ D[type][i] # Null
    BY DEF Live
  <2>2. A[type][i] = [g \in Fields(type) |->
                        IF <<type, i, g>> \in cells THEN m.id ELSE D[type][i][g]]
    BY <2>1, AssignedRow
  <2>3. <<type, i, f>> \in cells
    BY <1>5, <2>2
  <2>4. QED
    BY <1>1, <2>3
<1> QED
  BY <1>2, <1>3, <1>4, <1>5

\* What a save that succeeds makes of a database.
LEMMA SaveFits ==
  ASSUME NEW D, Fitting(D), NEW m, IsMutation(m), CanSave(D, m), NEW N,
         N = Saved(RowSaved(D, m), m)
  PROVE  /\ Fitting(N) /\ Legal(N)
         /\ N[m.type][m.id] = Written(m, RowOld(D, m)) /\ RowFits(m.type, RowOld(D, m))
         /\ \A type \in Types : \A f \in Fields(type), i \in Live(D, type) :
              (type # m.type \/ i # m.id) /\ N[type][i][f] # D[type][i][f]
                => ReachesChild(m, type, f, i, D[type][i][f])
<1> DEFINE R == RowSaved(D, m)
           A == DropAll(R, m)
<1>1. /\ Fitting(R) /\ RowFits(m.type, RowOld(D, m))
      /\ R[m.type][m.id] = Written(m, RowOld(D, m))
      /\ \A type \in Types, i \in Ids :
           type # m.type \/ i # m.id => R[type][i] = D[type][i]
  BY RowIsSaved DEF CanSave
<1>2. /\ \A e \in Edges(m) : \A i \in m.adds[e] : MayAdd(A, Schema(m).children[e], i)
      /\ Legal(N)
  BY DEF CanSave
<1>3. N = AddAll(A, m)
  BY DEF Saved
<1>4. m.type \in Types /\ m.id \in Ids
  BY DEF IsMutation
<1> HIDE DEF R
<1>5. /\ Fitting(A)
      /\ \A type \in Types : Live(A, type) = Live(R, type)
      /\ \A i \in Ids : A[m.type][i] = R[m.type][i]
      /\ \A type \in Types : \A f \in Fields(type), i \in Live(R, type) :
           A[type][i][f] # R[type][i][f]
             => ReachesChild(m, type, f, i, R[type][i][f])
  BY <1>1, ChildrenDropped
<1> HIDE DEF A
<1>6. /\ Fitting(N)
      /\ \A i \in Ids : N[m.type][i] = A[m.type][i]
      /\ \A type \in Types : \A f \in Fields(type), i \in Live(A, type) :
           N[type][i][f] # A[type][i][f]
             => ReachesChild(m, type, f, i, A[type][i][f])
  BY <1>2, <1>3, <1>5, ChildrenAdded
<1>7. ASSUME NEW type \in Types, NEW f \in Fields(type), NEW i \in Live(D, type),
             type # m.type \/ i # m.id, N[type][i][f] # D[type][i][f]
      PROVE  ReachesChild(m, type, f, i, D[type][i][f])
  <2>1. i \in Ids /\ D[type][i] # Null /\ R[type][i] = D[type][i]
    BY <1>1, <1>7 DEF Live
  <2>2. i \in Live(R, type) /\ i \in Live(A, type)
    BY <1>5, <2>1 DEF Live
  <2>3. CASE A[type][i][f] # R[type][i][f]
    BY <1>5, <2>1, <2>2, <2>3
  <2>4. CASE A[type][i][f] = R[type][i][f]
    BY <1>6, <1>7, <2>1, <2>2, <2>4
  <2>5. QED
    BY <2>3, <2>4
<1>8. N[m.type][m.id] = Written(m, RowOld(D, m))
  BY <1>1, <1>4, <1>5, <1>6
<1> QED
  BY <1>1, <1>2, <1>6, <1>7, <1>8

----------------------------------------------------------------------------
(* Delete                                                                    *)

\* KeysRefer of any database.
Refers(D) ==
  \A type \in Types : \A i \in Live(D, type), k \in Keys(type) :
    D[type][i][k] \in Live(D, Entity[type].parents[k]) \cup {Null}

\* A delete nulls every optional key to the row and is refused where one is
\* required: what is left refers to rows that are left.
LEMMA DeleteFits ==
  ASSUME NEW D, IsDatabase(D), Refers(D), NEW type \in Types, NEW id \in Ids,
         CanDelete(D, type, id), NEW N, N = AfterDelete(D, type, id)
  PROVE  IsDatabase(N) /\ Refers(N)
<1> DEFINE B == [D EXCEPT ![type][id] = Null]
           cells == UNION {Cells(c, RefersTo(D, c, id)) : c \in SetNullKeys(type)}
<1>1. D = [t \in Types |-> [i \in Ids |-> D[t][i]]]
  BY DEF IsDatabase
<1>2. \A t \in Types, i \in Ids :
        B[t][i] = IF t = type /\ i = id THEN Null ELSE D[t][i]
  BY <1>1
<1>3. B = [t \in Types |-> [i \in Ids |-> B[t][i]]]
  <2>1. \A t \in Types :
          B[t] = IF t = type THEN [D[type] EXCEPT ![id] = Null] ELSE D[t]
    BY <1>1
  <2>2. B = [t \in Types |-> B[t]]
    BY <1>1
  <2> HIDE DEF B
  <2>3. \A t \in Types : B[t] = [i \in Ids |-> B[t][i]]
    BY <1>1, <2>1
  <2>4. QED
    BY <2>2, <2>3
<1>4. Fitting(D)
  BY DatabaseFits
<1>5. N = Assigned(B, cells, Null)
  BY DEF AfterDelete
<1> HIDE DEF B
<1>6. Fitting(B)
  BY <1>2, <1>3, <1>4 DEF Fitting
<1>7. ASSUME NEW t \in Types, NEW i \in Ids, NEW f, <<t, i, f>> \in cells
      PROVE  f \in Keys(t) /\ f \in Entity[t].nullable
  <2>1. PICK c \in SetNullKeys(type) : <<t, i, f>> \in Cells(c, RefersTo(D, c, id))
    BY <1>7
  <2>2. t = c.type /\ f = c.key
    BY <2>1 DEF Cells
  <2>3. c \in Referring(type) /\ c.key \in Entity[c.type].nullable
    BY DEF SetNullKeys
  <2>4. EdgeFits(type, c)
    BY <2>3, EdgesFit
  <2>5. QED
    BY <2>2, <2>3, <2>4 DEF EdgeFits, Keys
<1>8. ASSUME NEW t \in Types, NEW i \in Live(D, t), NEW k \in Keys(t),
             Entity[t].parents[k] = type, D[t][i][k] = id
      PROVE  <<t, i, k>> \in cells
  <2> DEFINE c == Children(t, k)
  <2>1. c \in Referring(type) /\ c.type = t /\ c.key = k
    BY <1>8, EdgesFit DEF Keys, Children
  <2>2. i \in RefersTo(D, c, id)
    BY <1>8, <2>1 DEF RefersTo
  <2>3. c \in SetNullKeys(type)
    BY <2>1, <2>2 DEF CanDelete, Protecting, SetNullKeys
  <2>4. <<t, i, k>> \in Cells(c, RefersTo(D, c, id))
    BY <2>1, <2>2 DEF Cells
  <2> HIDE DEF c
  <2>5. QED
    BY <2>3, <2>4
<1> HIDE DEF cells
<1>9. Fitting(N) /\ \A t \in Types : Live(N, t) = Live(B, t)
  BY <1>5, <1>6, <1>7, AssignedFits
<1>10. \A t \in Types, i \in Ids : i \in Live(N, t) <=> i \in Live(D, t) /\ (t # type \/ i # id)
  BY <1>2, <1>9 DEF Live
<1>11. ASSUME NEW t \in Types, NEW i \in Live(N, t)
       PROVE  /\ i \in Ids /\ i \in Live(D, t) /\ D[t][i] # Null
              /\ N[t][i] = [f \in Fields(t) |->
                              IF <<t, i, f>> \in cells THEN Null ELSE D[t][i][f]]
  <2>1. i \in Ids /\ i \in Live(D, t) /\ D[t][i] # Null /\ B[t][i] = D[t][i]
    BY <1>2, <1>10 DEF Live
  <2>2. QED
    BY <1>5, <1>6, <2>1, AssignedRow
<1>12. ASSUME NEW t \in Types, NEW i \in Ids, N[t][i] # Null
       PROVE  IsRowOf(t, N[t][i])
  <2>1. i \in Live(N, t)
    BY <1>12 DEF Live
  <2>2. /\ D[t][i] # Null
        /\ N[t][i] = [f \in Fields(t) |->
                        IF <<t, i, f>> \in cells THEN Null ELSE D[t][i][f]]
    BY <2>1, <1>11
  <2>3. \A f \in Fields(t) : D[t][i][f] \in Column(t, f)
    BY <2>2 DEF IsDatabase, IsRowOf, Fields
  <2>4. \A f \in Fields(t) : <<t, i, f>> \in cells => Null \in Column(t, f)
    BY <1>7 DEF Column
  <2>5. QED
    BY <2>2, <2>3, <2>4 DEF IsRowOf, Fields
<1>13. IsDatabase(N)
  BY <1>9, <1>12 DEF IsDatabase, Fitting
<1>14. ASSUME NEW t \in Types, NEW i \in Live(N, t), NEW k \in Keys(t)
       PROVE  N[t][i][k] \in Live(N, Entity[t].parents[k]) \cup {Null}
  <2>1. /\ i \in Live(D, t)
        /\ N[t][i][k] = IF <<t, i, k>> \in cells THEN Null ELSE D[t][i][k]
    <3>1. k \in Fields(t)
      BY KeysAreFields
    <3>2. N[t][i] = [f \in Fields(t) |->
                      IF <<t, i, f>> \in cells THEN Null ELSE D[t][i][f]]
      BY <1>11
    <3>3. QED
      BY <1>11, <3>1, <3>2
  <2>2. D[t][i][k] \in Live(D, Entity[t].parents[k]) \cup {Null}
    BY <2>1 DEF Refers
  <2>3. Entity[t].parents[k] \in Types
    BY EntitiesFit DEF Fits, KeysFit, Keys
  <2>4. D[t][i][k] \in Ids \/ D[t][i][k] = Null
    BY <2>2 DEF Live
  <2>5. CASE <<t, i, k>> \in cells \/ D[t][i][k] = Null
    BY <2>1, <2>5
  <2>6. CASE <<t, i, k>> \notin cells /\ D[t][i][k] # Null
    <3>1. Entity[t].parents[k] # type \/ D[t][i][k] # id
      BY <1>8, <2>1, <2>6
    <3>2. QED
      BY <1>10, <2>1, <2>2, <2>3, <2>4, <2>6, <3>1
  <2>7. QED
    BY <2>5, <2>6
<1> QED
  BY <1>13, <1>14 DEF Refers

----------------------------------------------------------------------------
(* Calls on a builder                                                        *)

\* What an open builder m holds of a field, by the last call on it; a is asked.
Idle(m, a, f) ==
  f \notin DOMAIN a \/ a[f].call = "reset" =>
    /\ f \in DOMAIN m.set => f \in DOMAIN Defaults(m) /\ m.set[f] = Defaults(m)[f]
    /\ f \notin DOMAIN m.added
    /\ (f \in Keys(m.type) /\ f \in DOMAIN a => a[f].only)
         => f \notin m.cleared /\ f \notin m.unlinked
Given(m, a, f) ==
  f \in DOMAIN a /\ a[f].call = "set" =>
    /\ f \in DOMAIN m.set /\ m.set[f] = a[f].value
    /\ f \notin DOMAIN m.added /\ f \in Columns(m)
Increased(m, a, f) ==
  f \in DOMAIN a /\ a[f].call = "add" =>
    /\ f \in DOMAIN m.added /\ m.added[f] = a[f].value
    /\ f \in Entity[m.type].numbers /\ f \in Columns(m) /\ m.op = "update"
Emptied(m, a, f) ==
  f \in DOMAIN a /\ a[f].call = "clear" =>
    /\ f \notin DOMAIN m.added /\ f \in Columns(m) /\ m.op = "update"
    /\ a[f].value = Null
    /\ (f \in Keys(m.type) => a[f].only) => f \notin DOMAIN m.set /\ IsCleared(m, f)
Follows(m, a, f) ==
  /\ f \in DOMAIN a => a[f].call \in {"set", "add", "clear", "reset"}
  /\ Idle(m, a, f) /\ Given(m, a, f) /\ Increased(m, a, f) /\ Emptied(m, a, f)
AllFollow(m, a) == \A f \in Fields(m.type) : Follows(m, a, f)

\* r holds of the field g what m does.
Same(m, r, g) ==
  /\ g \in DOMAIN r.set <=> g \in DOMAIN m.set
  /\ g \in DOMAIN m.set => r.set[g] = m.set[g]
  /\ g \in DOMAIN r.added <=> g \in DOMAIN m.added
  /\ g \in DOMAIN m.added => r.added[g] = m.added[g]
  /\ g \in r.cleared <=> g \in m.cleared
  /\ g \in r.unlinked <=> g \in m.unlinked

\* A call on the field f leaves the other fields as they are.
Aside(m, r, f) ==
  /\ r.type = m.type /\ r.op = m.op
  /\ \A g \in Fields(m.type) \ {f} : Same(m, r, g)

\* What asked becomes with a call.
Asking(a, f, call, v) ==
  With(a, f, [call |-> call, value |-> v, only |-> f \notin DOMAIN a])

\* After a call on f the other fields follow their own last calls, so only f is
\* left to be looked at.
LEMMA OthersFollow ==
  ASSUME NEW m, NEW r, NEW a, NEW f, NEW call, NEW v, AllFollow(m, a), Aside(m, r, f),
         NEW g \in Fields(m.type), g # f
  PROVE  Follows(r, Asking(a, f, call, v), g)
<1> DEFINE b == Asking(a, f, call, v)
<1>1. /\ g \in DOMAIN b <=> g \in DOMAIN a
      /\ g \in DOMAIN a => b[g] = a[g]
  BY DEF Asking, With, Joined
<1> HIDE DEF b
<1>2. /\ r.type = m.type /\ r.op = m.op /\ Columns(r) = Columns(m)
      /\ Defaults(r) = Defaults(m)
  BY DEF Aside, Columns, Defaults, Schema
<1>3. Same(m, r, g)
  BY DEF Aside
<1>4. IsCleared(r, g) <=> IsCleared(m, g)
  BY <1>2, <1>3 DEF IsCleared, ParentCleared, Same, Schema
<1>5. Follows(m, a, g)
  BY DEF AllFollow
<1>6. Idle(r, b, g)
  BY <1>1, <1>2, <1>3, <1>5 DEF Follows, Idle, Same
<1>7. Given(r, b, g)
  BY <1>1, <1>2, <1>3, <1>5 DEF Follows, Given, Same
<1>8. Increased(r, b, g)
  BY <1>1, <1>2, <1>3, <1>5 DEF Follows, Increased, Same
<1>9. Emptied(r, b, g)
  BY <1>1, <1>2, <1>3, <1>4, <1>5 DEF Follows, Emptied, Same
<1> QED
  BY <1>1, <1>5, <1>6, <1>7, <1>8, <1>9 DEF Follows, b

LEMMA CallFollows ==
  ASSUME NEW m, NEW r, NEW a, NEW f, NEW call, NEW v, AllFollow(m, a), Aside(m, r, f),
         Follows(r, Asking(a, f, call, v), f)
  PROVE  AllFollow(r, Asking(a, f, call, v))
<1>1. r.type = m.type
  BY DEF Aside
<1>2. \A g \in Fields(m.type) : g # f => Follows(r, Asking(a, f, call, v), g)
  BY OthersFollow
<1> QED
  BY <1>1, <1>2 DEF AllFollow

MutationFields ==
  {"type", "op", "id", "set", "added", "cleared", "unlinked", "emptied", "adds", "removes"}

\* What the calls on a field leave of the rest of a mutation.
Beside(m, r) ==
  /\ DOMAIN r = MutationFields /\ r.type = m.type /\ r.op = m.op /\ r.id = m.id
  /\ r.emptied = m.emptied /\ r.adds = m.adds /\ r.removes = m.removes

\* What each call leaves of each part of the mutation.
LEMMA Resets ==
  ASSUME NEW m, DOMAIN m = MutationFields, NEW f, NEW r, r = ResetField(m, f)
  PROVE  /\ Beside(m, r) /\ r.unlinked = m.unlinked
         /\ r.set = Without(m.set, f) /\ r.added = Without(m.added, f)
         /\ r.cleared = IF f \in Entity[m.type].nullable THEN m.cleared \ {f} ELSE m.cleared
  BY DEF ResetField, MutationFields, Beside, Schema

LEMMA Sets ==
  ASSUME NEW m, DOMAIN m = MutationFields, NEW f, NEW v, NEW r, r = SetField(m, f, v)
  PROVE  /\ Beside(m, r) /\ r.unlinked = m.unlinked /\ r.cleared = m.cleared
         /\ r.set = With(m.set, f, v) /\ r.added = Without(m.added, f)
  BY DEF SetField, MutationFields, Beside

LEMMA Adds ==
  ASSUME NEW m, DOMAIN m = MutationFields, NEW f, NEW n, NEW r, r = AddToField(m, f, n)
  PROVE  /\ Beside(m, r) /\ r.unlinked = m.unlinked /\ r.cleared = m.cleared
         /\ r.set = m.set
         /\ r.added = With(m.added, f, IF f \in DOMAIN m.added THEN m.added[f] + n ELSE n)
  BY DEF AddToField, MutationFields, Beside

LEMMA Clears ==
  ASSUME NEW m, DOMAIN m = MutationFields, NEW f, NEW r, r = ClearField(m, f)
  PROVE  /\ Beside(m, r) /\ r.unlinked = m.unlinked /\ r.cleared = m.cleared \cup {f}
         /\ r.set = Without(m.set, f) /\ r.added = Without(m.added, f)
  BY DEF ClearField, MutationFields, Beside

LEMMA Unlinks ==
  ASSUME NEW m, DOMAIN m = MutationFields, NEW k, NEW r, r = UnlinkParent(m, k)
  PROVE  /\ Beside(m, r) /\ r.unlinked = m.unlinked \cup {k} /\ r.cleared = m.cleared \cup {k}
         /\ r.set = m.set /\ r.added = m.added
  BY DEF UnlinkParent, MutationFields, Beside

LEMMA Relinks ==
  ASSUME NEW m, DOMAIN m = MutationFields, NEW k, NEW r, r = ResetParent(m, k)
  PROVE  /\ Beside(m, r) /\ r.unlinked = m.unlinked \ {k} /\ r.cleared = m.cleared
         /\ r.set = Without(m.set, k) /\ r.added = m.added
  BY DEF ResetParent, MutationFields, Beside

\* A mutation that differs from another in what it holds of fields.
LEMMA StaysMutation ==
  ASSUME NEW m, IsMutation(m), NEW r, Beside(m, r),
         \A f \in DOMAIN r.set :
           f \in Fields(m.type) /\ r.set[f] \in Values(Entity[m.type].kinds[f]),
         \A f \in DOMAIN r.added : f \in Entity[m.type].numbers /\ r.added[f] \in Int,
         r.cleared \subseteq Entity[m.type].nullable \cup Keys(m.type),
         r.unlinked \subseteq Keys(m.type)
  PROVE  IsMutation(r)
  BY DEF IsMutation, Beside, MutationFields, Schema, Edges, Fields, Keys

\* The settable fields are columns of the statement.
LEMMA SettableAre ==
  ASSUME NEW m, IsMutation(m)
  PROVE  /\ Settable(m) \subseteq Columns(m) /\ Columns(m) \subseteq Fields(m.type)
         /\ Keys(m.type) \subseteq Columns(m)
         /\ m.op = "create" => Columns(m) = Fields(m.type)
  BY EntitiesFit, KeysAreFields
  DEF IsMutation, Fits, ColumnsFit, KeysFit, Settable, Columns, Schema, Fields, Keys

\* After ResetField, or ResetEdge of a parent, a field holds nothing, or what it
\* had been cleared with.
LEMMA ResetFollows ==
  ASSUME NEW m, IsMutation(m), NEW a, AllFollow(m, a), NEW f \in Fields(m.type),
         NEW r, r = ResetField(m, f) \/ (f \in Keys(m.type) /\ r = ResetParent(m, f))
  PROVE  IsMutation(r) /\ AllFollow(r, Asking(a, f, "reset", Null))
<1> DEFINE b == Asking(a, f, "reset", Null)
<1>1. DOMAIN m = MutationFields /\ m.type \in Types
  BY DEF IsMutation, MutationFields
<1>2. /\ Beside(m, r) /\ r.set = Without(m.set, f)
      /\ r.added = Without(m.added, f) \/ (f \in Keys(m.type) /\ r.added = m.added)
      /\ r.unlinked \subseteq m.unlinked /\ m.unlinked \ {f} \subseteq r.unlinked
      /\ r.cleared \subseteq m.cleared /\ m.cleared \ {f} \subseteq r.cleared
      /\ f \in Keys(m.type) \/ f \notin Entity[m.type].nullable \/ f \notin r.cleared
  <2>1. CASE r = ResetField(m, f)
    <3>1. /\ Beside(m, r) /\ r.unlinked = m.unlinked
          /\ r.set = Without(m.set, f) /\ r.added = Without(m.added, f)
          /\ r.cleared = IF f \in Entity[m.type].nullable THEN m.cleared \ {f} ELSE m.cleared
      BY <1>1, <2>1, Resets
    <3>2. QED
      BY <3>1
  <2>2. CASE f \in Keys(m.type) /\ r = ResetParent(m, f)
    <3>1. /\ Beside(m, r) /\ r.unlinked = m.unlinked \ {f} /\ r.cleared = m.cleared
          /\ r.set = Without(m.set, f) /\ r.added = m.added
      BY <1>1, <2>2, Relinks
    <3>2. QED
      BY <2>2, <3>1
  <2>3. QED
    BY <2>1, <2>2
<1>3. f \in Keys(m.type) => f \notin DOMAIN m.added
  <2>1. f \in Keys(m.type) => f \notin Entity[m.type].numbers
    BY <1>1, EntitiesFit DEF Fits, KeysFit, FieldsFit, Keys
  <2>2. QED
    BY <2>1 DEF IsMutation, Schema
<1>4. /\ DOMAIN r.set = DOMAIN m.set \ {f}
      /\ \A g \in DOMAIN m.set \ {f} : r.set[g] = m.set[g]
  BY <1>2 DEF Without, Restricted
<1>5. /\ DOMAIN r.added = DOMAIN m.added \ {f}
      /\ \A g \in DOMAIN m.added \ {f} : r.added[g] = m.added[g]
  BY <1>2, <1>3 DEF Without, Restricted
<1>6. IsMutation(r)
  BY <1>2, <1>4, <1>5, StaysMutation DEF IsMutation, Schema, Fields, Keys
<1>7. Aside(m, r, f)
  BY <1>2, <1>4, <1>5 DEF Aside, Same, Beside
<1>8. f \notin Keys(m.type) => f \notin r.cleared /\ f \notin r.unlinked
  BY <1>2 DEF IsMutation, Schema, Keys
<1>9. f \notin DOMAIN a => f \notin r.cleared /\ f \notin r.unlinked
  BY <1>2 DEF AllFollow, Follows, Idle
<1>10. /\ f \in DOMAIN b /\ b[f].call = "reset" /\ b[f].value = Null
       /\ b[f].only <=> f \notin DOMAIN a
  BY DEF Asking, With, Joined
<1>11. r.type = m.type
  BY <1>2 DEF Beside
<1> HIDE DEF b
<1>12. Follows(r, b, f)
  BY <1>4, <1>5, <1>8, <1>9, <1>10, <1>11 DEF Follows, Idle, Given, Increased, Emptied
<1> QED
  BY <1>6, <1>7, <1>12, CallFollows DEF b

\* After SetField it holds the value; an update first drops what was added to a
\* number.
LEMMA SetFollows ==
  ASSUME NEW m, IsMutation(m), NEW a, AllFollow(m, a), NEW f \in Settable(m),
         NEW v \in Values(Entity[m.type].kinds[f]), NEW r, r = BuilderSets(m, f, v)
  PROVE  IsMutation(r) /\ AllFollow(r, Asking(a, f, "set", v))
<1> DEFINE b == Asking(a, f, "set", v)
           x == ResetField(m, f)
<1>1. DOMAIN m = MutationFields
  BY DEF IsMutation, MutationFields
<1>2. f \in Columns(m) /\ f \in Fields(m.type)
  BY SettableAre
<1>3. /\ Beside(m, r) /\ r.unlinked = m.unlinked
      /\ r.cleared \subseteq m.cleared /\ m.cleared \ {f} \subseteq r.cleared
      /\ DOMAIN r.set = DOMAIN m.set \cup {f} /\ r.set[f] = v
      /\ \A g \in DOMAIN m.set \ {f} : r.set[g] = m.set[g]
      /\ DOMAIN r.added = DOMAIN m.added \ {f}
      /\ \A g \in DOMAIN m.added \ {f} : r.added[g] = m.added[g]
  <2>1. CASE m.op = "update" /\ f \in Schema(m).numbers
    <3>1. r = SetField(x, f, v)
      BY <2>1 DEF BuilderSets
    <3>2. /\ Beside(m, x) /\ x.unlinked = m.unlinked
          /\ x.set = Without(m.set, f) /\ x.added = Without(m.added, f)
          /\ x.cleared = IF f \in Entity[m.type].nullable THEN m.cleared \ {f} ELSE m.cleared
      BY <1>1, Resets
    <3> HIDE DEF x
    <3>3. /\ Beside(x, r) /\ r.unlinked = x.unlinked /\ r.cleared = x.cleared
          /\ r.set = With(x.set, f, v) /\ r.added = Without(x.added, f)
      BY <3>1, <3>2, Sets DEF Beside
    <3>4. Beside(m, r)
      BY <3>2, <3>3 DEF Beside
    <3>5. /\ DOMAIN r.set = DOMAIN m.set \cup {f} /\ r.set[f] = v
          /\ \A g \in DOMAIN m.set \ {f} : r.set[g] = m.set[g]
      BY <3>2, <3>3 DEF With, Without, Restricted, Joined
    <3>6. /\ DOMAIN r.added = DOMAIN m.added \ {f}
          /\ \A g \in DOMAIN m.added \ {f} : r.added[g] = m.added[g]
      BY <3>2, <3>3 DEF Without, Restricted
    <3>7. QED
      BY <3>2, <3>3, <3>4, <3>5, <3>6
  <2>2. CASE ~(m.op = "update" /\ f \in Schema(m).numbers)
    <3>1. r = SetField(m, f, v)
      BY <2>2 DEF BuilderSets
    <3>2. /\ Beside(m, r) /\ r.unlinked = m.unlinked /\ r.cleared = m.cleared
          /\ r.set = With(m.set, f, v) /\ r.added = Without(m.added, f)
      BY <1>1, <3>1, Sets
    <3>3. QED
      BY <3>2 DEF With, Without, Restricted, Joined
  <2>3. QED
    BY <2>1, <2>2
<1>4. IsMutation(r)
  BY <1>2, <1>3, StaysMutation DEF IsMutation, Schema, Fields, Keys
<1>5. Aside(m, r, f)
  BY <1>3 DEF Aside, Same, Beside
<1>6. f \in DOMAIN b /\ b[f].call = "set" /\ b[f].value = v
  BY DEF Asking, With, Joined
<1>7. Columns(r) = Columns(m)
  BY <1>3 DEF Columns, Schema, Beside
<1> HIDE DEF b
<1>8. Follows(r, b, f)
  BY <1>2, <1>3, <1>6, <1>7 DEF Follows, Idle, Given, Increased, Emptied
<1> QED
  BY <1>2, <1>4, <1>5, <1>8, CallFollows DEF b

\* After AddField it holds the sum of the increments since the last other call.
LEMMA AddFollows ==
  ASSUME NEW m, IsMutation(m), m.op = "update", NEW a, AllFollow(m, a),
         NEW f \in Entity[m.type].numbers \cap Settable(m), NEW n \in Int,
         NEW r, r = AddToField(m, f, n),
         NEW v, v = n + IF f \in DOMAIN a /\ a[f].call = "add" THEN a[f].value ELSE 0
  PROVE  IsMutation(r) /\ AllFollow(r, Asking(a, f, "add", v))
<1> DEFINE b == Asking(a, f, "add", v)
<1>1. DOMAIN m = MutationFields
  BY DEF IsMutation, MutationFields
<1>2. f \in Columns(m) /\ f \in Fields(m.type)
  BY SettableAre
<1>3. /\ Beside(m, r) /\ r.unlinked = m.unlinked /\ r.cleared = m.cleared /\ r.set = m.set
      /\ r.added = With(m.added, f, IF f \in DOMAIN m.added THEN m.added[f] + n ELSE n)
  BY <1>1, Adds
<1>4. Follows(m, a, f)
  BY <1>2 DEF AllFollow
<1>5. f \in DOMAIN m.added => m.added[f] \in Int
  BY DEF IsMutation
<1>6. v = (IF f \in DOMAIN m.added THEN m.added[f] + n ELSE n) /\ v \in Int
  BY <1>4, <1>5 DEF Follows, Idle, Given, Increased, Emptied
<1>7. /\ DOMAIN r.added = DOMAIN m.added \cup {f} /\ r.added[f] = v
      /\ \A g \in DOMAIN m.added \ {f} : r.added[g] = m.added[g]
  BY <1>3, <1>6 DEF With, Joined
<1>8. IsMutation(r)
  BY <1>3, <1>6, <1>7, StaysMutation DEF IsMutation, Schema, Fields, Keys
<1>9. Aside(m, r, f)
  BY <1>3, <1>7 DEF Aside, Same, Beside
<1>10. f \in DOMAIN b /\ b[f].call = "add" /\ b[f].value = v
  BY DEF Asking, With, Joined
<1>11. Columns(r) = Columns(m) /\ r.op = m.op /\ r.type = m.type
  BY <1>3 DEF Columns, Schema, Beside
<1> HIDE DEF b
<1>12. Follows(r, b, f)
  BY <1>2, <1>7, <1>10, <1>11 DEF Follows, Idle, Given, Increased, Emptied
<1> QED
  BY <1>2, <1>8, <1>9, <1>12, CallFollows DEF b

\* After ClearField, or the clearing of a parent, it is cleared and holds no
\* value, unless a parent had been set before.
LEMMA ClearFollows ==
  ASSUME NEW m, IsMutation(m), m.op = "update", NEW a, AllFollow(m, a), NEW f, NEW r,
         \/ f \in Entity[m.type].nullable \cap Settable(m) /\ r = ClearField(m, f)
         \/ f \in Keys(m.type) /\ r = UnlinkParent(m, f)
  PROVE  IsMutation(r) /\ AllFollow(r, Asking(a, f, "clear", Null))
<1> DEFINE b == Asking(a, f, "clear", Null)
<1>1. DOMAIN m = MutationFields /\ m.type \in Types
  BY DEF IsMutation, MutationFields
<1>2. f \in Columns(m) /\ f \in Fields(m.type)
  BY SettableAre
<1>3. f \in Keys(m.type) => f \notin DOMAIN m.added
  <2>1. f \in Keys(m.type) => f \notin Entity[m.type].numbers
    BY <1>1, EntitiesFit DEF Fits, KeysFit, FieldsFit, Keys
  <2>2. QED
    BY <2>1 DEF IsMutation, Schema
<1>4. f \in Keys(m.type) /\ f \notin DOMAIN a => f \notin DOMAIN m.set
  <2>1. f \in Keys(m.type) => f \notin DOMAIN Defaults(m)
    BY <1>1, DefaultsOfMutation, EntitiesFit DEF Fits, KeysFit, Keys
  <2>2. QED
    BY <1>2, <2>1 DEF AllFollow, Follows, Idle
<1>5. /\ Beside(m, r)
      /\ \/ r.set = Without(m.set, f) /\ r.added = Without(m.added, f)
         \/ f \in Keys(m.type) /\ r.set = m.set /\ r.added = m.added
      /\ r.cleared = m.cleared \cup {f}
      /\ \/ f \in Entity[m.type].nullable /\ r.unlinked = m.unlinked
         \/ f \in Keys(m.type) /\ r.unlinked = m.unlinked \cup {f}
  BY <1>1, Clears, Unlinks
<1>6. /\ \A g \in DOMAIN r.set : g \in DOMAIN m.set /\ r.set[g] = m.set[g]
      /\ DOMAIN m.set \ {f} \subseteq DOMAIN r.set
      /\ f \in DOMAIN r.set => f \in Keys(m.type) /\ f \in DOMAIN m.set
  BY <1>5 DEF Without, Restricted
<1>7. /\ DOMAIN r.added = DOMAIN m.added \ {f}
      /\ \A g \in DOMAIN m.added \ {f} : r.added[g] = m.added[g]
  BY <1>3, <1>5 DEF Without, Restricted
<1>8. IsMutation(r)
  <2>1. \A g \in DOMAIN r.set :
          g \in Fields(m.type) /\ r.set[g] \in Values(Entity[m.type].kinds[g])
    BY <1>6 DEF IsMutation, Schema, Fields
  <2>2. \A g \in DOMAIN r.added : g \in Entity[m.type].numbers /\ r.added[g] \in Int
    BY <1>7 DEF IsMutation, Schema
  <2>3. /\ r.cleared \subseteq Entity[m.type].nullable \cup Keys(m.type)
        /\ r.unlinked \subseteq Keys(m.type)
    BY <1>5 DEF IsMutation, Schema, Keys
  <2>4. QED
    BY <1>5, <2>1, <2>2, <2>3, StaysMutation
<1>9. Aside(m, r, f)
  BY <1>5, <1>6, <1>7 DEF Aside, Same, Beside
<1>10. IsCleared(r, f)
  BY <1>5 DEF IsCleared, ParentCleared, Schema, Beside, Keys
<1>11. /\ f \in DOMAIN b /\ b[f].call = "clear" /\ b[f].value = Null
       /\ b[f].only <=> f \notin DOMAIN a
  BY DEF Asking, With, Joined
<1>12. Columns(r) = Columns(m) /\ r.op = m.op /\ r.type = m.type
  BY <1>5 DEF Columns, Schema, Beside
<1> HIDE DEF b
<1>13. Follows(r, b, f)
  BY <1>2, <1>4, <1>6, <1>7, <1>10, <1>11, <1>12 DEF Follows, Idle, Given, Increased, Emptied
<1> QED
  BY <1>8, <1>9, <1>13, CallFollows DEF b

\* Calls on the edges to children touch no field.
LEMMA ChildrenFollow ==
  ASSUME NEW m, IsMutation(m), NEW a, AllFollow(m, a), NEW e \in Edges(m), NEW i \in Ids,
         NEW r, r \in {AddChild(m, e, i), RemoveChild(m, e, i), ClearChildren(m, e),
                       ResetChildren(m, e)}
  PROVE  IsMutation(r) /\ AllFollow(r, a)
<1>1. DOMAIN m = MutationFields
  BY DEF IsMutation, MutationFields
<1>2. DOMAIN m.adds = Edges(m) /\ DOMAIN m.removes = Edges(m)
  BY DEF IsMutation
<1>3. /\ DOMAIN r = MutationFields /\ r.type = m.type /\ r.op = m.op /\ r.id = m.id
      /\ r.set = m.set /\ r.added = m.added /\ r.cleared = m.cleared
      /\ r.unlinked = m.unlinked
      /\ r.emptied \subseteq m.emptied \cup {e}
      /\ DOMAIN r.adds = Edges(m) /\ DOMAIN r.removes = Edges(m)
      /\ \A d \in Edges(m) : /\ r.adds[d] \subseteq m.adds[d] \cup {i}
                             /\ r.removes[d] \subseteq m.removes[d] \cup {i}
  <2>1. CASE r = AddChild(m, e, i)
    BY <1>1, <1>2, <2>1 DEF AddChild, MutationFields
  <2>2. CASE r = RemoveChild(m, e, i)
    BY <1>1, <1>2, <2>2 DEF RemoveChild, MutationFields
  <2>3. CASE r = ClearChildren(m, e)
    BY <1>1, <1>2, <2>3 DEF ClearChildren, MutationFields
  <2>4. CASE r = ResetChildren(m, e)
    BY <1>1, <1>2, <2>4 DEF ResetChildren, MutationFields
  <2>5. QED
    BY <2>1, <2>2, <2>3, <2>4
<1>4. IsMutation(r)
  BY <1>3 DEF IsMutation, MutationFields, Schema, Edges
<1>5. \A f \in Fields(m.type) : Follows(m, a, f) => Follows(r, a, f)
  BY <1>3 DEF Follows, Idle, Given, Increased, Emptied, Columns, Defaults, Schema, IsCleared,
              ParentCleared
<1> QED
  BY <1>3, <1>4, <1>5 DEF AllFollow

\* A default is no field that was asked for, nor a key.
LEMMA DefaultsFollow ==
  ASSUME NEW m, IsMutation(m), NEW a, AllFollow(m, a)
  PROVE  AllFollow(WithDefaults(m), a)
<1> DEFINE w == WithDefaults(m)
<1>1. /\ w.set = Joined(m.set, Defaults(m)) /\ w.type = m.type /\ w.op = m.op
      /\ w.added = m.added /\ w.cleared = m.cleared /\ w.unlinked = m.unlinked
  BY FilledIn
<1>2. m.type \in Types /\ m.op \in {"create", "update"}
  BY DEF IsMutation
<1> HIDE DEF w
<1>3. Columns(w) = Columns(m) /\ Defaults(w) = Defaults(m)
  BY <1>1 DEF Columns, Defaults, Schema
<1>4. /\ DOMAIN w.set = DOMAIN m.set \cup DOMAIN Defaults(m)
      /\ \A f \in DOMAIN m.set : w.set[f] = m.set[f]
      /\ \A f \in DOMAIN w.set \ DOMAIN m.set : w.set[f] = Defaults(m)[f]
  BY <1>1 DEF Joined
<1>5. ASSUME NEW f \in Fields(m.type) PROVE Follows(w, a, f)
  <2>1. Follows(m, a, f)
    BY DEF AllFollow
  <2>2. Idle(w, a, f)
    BY <1>1, <1>3, <1>4, <2>1 DEF Follows, Idle
  <2>3. Given(w, a, f)
    BY <1>1, <1>3, <1>4, <2>1 DEF Follows, Given
  <2>4. Increased(w, a, f)
    BY <1>1, <1>3, <2>1 DEF Follows, Increased
  <2>5. IsCleared(w, f) <=> IsCleared(m, f)
    BY <1>1 DEF IsCleared, ParentCleared, Schema
  <2>6. f \in DOMAIN a /\ a[f].call = "clear" /\ f \in DOMAIN Defaults(m) =>
          f \notin Keys(m.type) /\ f \notin m.cleared
    <3>1. f \in DOMAIN Defaults(m) => f \notin Keys(m.type)
      BY <1>2, DefaultsOfMutation, EntitiesFit DEF Fits, KeysFit, Keys
    <3>2. f \in DOMAIN Defaults(m) /\ m.op = "update" => f \notin Entity[m.type].nullable
      BY <1>2, DefaultsOfMutation
    <3>3. m.cleared \subseteq Entity[m.type].nullable \cup Keys(m.type)
      BY DEF IsMutation, Schema, Keys
    <3>4. QED
      BY <2>1, <3>1, <3>2, <3>3 DEF Follows, Emptied
  <2>7. f \notin Keys(m.type) => (IsCleared(m, f) <=> f \in m.cleared)
    BY DEF IsCleared, Keys, Schema
  <2>8. Emptied(w, a, f)
    BY <1>1, <1>3, <1>4, <2>1, <2>5, <2>6, <2>7 DEF Follows, Emptied
  <2> QED
    BY <2>1, <2>2, <2>3, <2>4, <2>8 DEF Follows
<1> QED
  BY <1>1, <1>5 DEF AllFollow, w

\* What the client sets is of the kind of its column.
LEMMA FreshFits ==
  ASSUME NEW type \in Types, NEW f \in Fields(type)
  PROVE  Fresh(type, f) \in Values(Entity[type].kinds[f])
<1>1. Entity[type].kinds[f] \in KindNames
  BY EntitiesFit DEF Fits, FieldsFit, Fields
<1>2. /\ "c" \in Values("text") /\ "two" \in Values("enum") /\ 2 \in Values("number")
      /\ TRUE \in Values("flag") /\ "given" \in Values("time") /\ "doc" \in Values("json")
      /\ Updated \in Values("key")
  BY EntAssumption DEF Values
<1> QED
  BY <1>1, <1>2 DEF Fresh, KindNames

LEMMA OfferedFits ==
  ASSUME NEW type \in Types, NEW f \in Fields(type)
  PROVE  Offered(type, f) \subseteq Values(Entity[type].kinds[f])
<1>1. /\ {"b", "B C", "", "long"} \subseteq Values("text")
      /\ {-1, 1, 3} \subseteq Values("number") /\ {"given"} \subseteq Values("time")
  BY DEF Values
<1> QED
  BY <1>1 DEF Offered

\* A new builder holds what the fields it was opened with were given.
LEMMA OpensFitting ==
  ASSUME NEW type \in Types, NEW op \in {"create", "update"}, NEW id \in Ids, NEW m,
         m = [NewMutation(type, op, id) EXCEPT !.set = m.set],
         DOMAIN m.set \subseteq Fields(type), op = "update" => DOMAIN m.set = {},
         \A f \in DOMAIN m.set : m.set[f] = Fresh(type, f),
         NEW a, DOMAIN a = DOMAIN m.set,
         \A f \in DOMAIN a : a[f].call = "set" /\ a[f].value = m.set[f]
  PROVE  IsMutation(m) /\ AllFollow(m, a)
<1>1. /\ DOMAIN m = MutationFields /\ m.type = type /\ m.op = op /\ m.id = id
      /\ DOMAIN m.added = {} /\ m.cleared = {} /\ m.unlinked = {} /\ m.emptied = {}
      /\ m.adds = [e \in DOMAIN Entity[type].children |-> {}]
      /\ m.removes = [e \in DOMAIN Entity[type].children |-> {}]
  <2> DEFINE given == m.set
  <2>1. m = [NewMutation(type, op, id) EXCEPT !.set = given]
    OBVIOUS
  <2> HIDE DEF given
  <2>2. QED
    BY <2>1 DEF NewMutation, MutationFields
<1>2. \A f \in DOMAIN m.set : m.set[f] \in Values(Entity[type].kinds[f])
  BY FreshFits
<1>3. IsMutation(m)
  BY <1>1, <1>2 DEF IsMutation, MutationFields, Schema, Edges, Fields
<1>4. op = "create" => Columns(m) = Fields(type)
  BY <1>1, <1>3, SettableAre
<1>5. ASSUME NEW f \in Fields(type) PROVE Follows(m, a, f)
  BY <1>1, <1>4 DEF Follows, Idle, Given, Increased, Emptied
<1> QED
  BY <1>1, <1>3, <1>5 DEF AllFollow

----------------------------------------------------------------------------
(* The invariant                                                             *)

\* Between two calls every field is as the last call on it left it.
CallsFollowed ==
  IF mut = Closed THEN DOMAIN asked = {} ELSE AllFollow(mut, asked)

Inv == TypeOK /\ CallsFollowed

LEMMA MutationIsOpen == \A m : IsMutation(m) => m # Closed
  BY DEF IsMutation, Closed

\* The invariant holds at the start and every step keeps it, action by action.
LEMMA InitInv == Init => Inv
<1> SUFFICES ASSUME Init PROVE Inv
  OBVIOUS
<1>1. IsDatabase(db) /\ Legal(db) /\ calls \in 0..MaxCalls
  BY EntAssumption DEF Init
<1>2. KeysRefer
  BY <1>1 DEF KeysRefer, Legal
<1>3. DOMAIN asked = {} /\ mut = Closed
  BY DEF Init
<1> QED
  BY <1>1, <1>2, <1>3 DEF Inv, TypeOK, CallsFollowed

LEMMA CallKeepsInv ==
  ASSUME Inv, NEW next, IsMutation(next), AllFollow(next, asked'), Call(next)
  PROVE  Inv'
<1>1. IsDatabase(db') /\ KeysRefer'
  BY DEF Inv, TypeOK, Call, KeysRefer
<1>2. calls' \in 0..MaxCalls
  BY EntAssumption DEF Inv, TypeOK, Call
<1>3. mut' = next
  BY DEF Call
<1>4. CallsFollowed'
  BY <1>3, MutationIsOpen DEF CallsFollowed
<1> QED
  BY <1>1, <1>2, <1>3, <1>4 DEF Inv, TypeOK

LEMMA OpenKeepsInv ==
  ASSUME Inv, NEW type \in Types, OpenCreate(type) \/ OpenUpdate(type)
  PROVE  Inv'
<1>1. IsDatabase(db') /\ KeysRefer'
  BY DEF Inv, TypeOK, OpenCreate, OpenUpdate, KeysRefer
<1>2. IsMutation(mut') /\ AllFollow(mut', asked') /\ calls' \in 0..MaxCalls
  <2>1. CASE OpenCreate(type)
    <3>1. PICK missing \in {{f} : f \in Mandatory(type)} \cup {{}} :
            LET names == Mandatory(type) \ missing
                given == [f \in names |-> Fresh(type, f)]
            IN  /\ mut' = [NewMutation(type, "create", NewId) EXCEPT !.set = given]
                /\ asked' = Told(names, given)
                /\ calls' = calls + Cardinality(missing)
      BY <2>1, Zenon DEF OpenCreate
    <3> DEFINE names == Mandatory(type) \ missing
               given == [f \in names |-> Fresh(type, f)]
    <3>2. DOMAIN given = names /\ \A f \in names : given[f] = Fresh(type, f)
      OBVIOUS
    <3>3. /\ DOMAIN asked' = names
          /\ \A f \in names : asked'[f].call = "set" /\ asked'[f].value = given[f]
      BY <3>1 DEF Told
    <3>4. names \subseteq Fields(type)
      BY DEF Mandatory, Fields
    <3> HIDE DEF names, given
    <3>5. mut' = [NewMutation(type, "create", NewId) EXCEPT !.set = given]
      BY <3>1 DEF names, given
    <3>6. mut'.set = given
      BY <3>5 DEF NewMutation
    <3>7. NewId \in Ids
      BY EntAssumption
    <3>8. IsMutation(mut') /\ AllFollow(mut', asked')
      BY <3>2, <3>3, <3>4, <3>5, <3>6, <3>7, OpensFitting
    <3>9. Cardinality(missing) \in 0..1
      <4>1. CASE missing = {}
        BY <4>1, FS_EmptySet
      <4>2. CASE \E f : missing = {f}
        BY <4>2, FS_Singleton
      <4>3. QED
        BY <3>1, <4>1, <4>2
    <3>10. calls' \in 0..MaxCalls
      BY <2>1, <3>1, <3>9, EntAssumption DEF OpenCreate, Inv, TypeOK
    <3>11. QED
      BY <3>8, <3>10
  <2>2. CASE OpenUpdate(type)
    <3>1. /\ mut' = NewMutation(type, "update", Updated) /\ asked' = asked /\ mut = Closed
          /\ calls' = calls
      BY <2>2 DEF OpenUpdate
    <3>2. DOMAIN asked' = {}
      BY <3>1 DEF Inv, CallsFollowed
    <3>3. DOMAIN mut'.set = {} /\ mut' = [NewMutation(type, "update", Updated) EXCEPT !.set = mut'.set]
      BY <3>1 DEF NewMutation
    <3>4. Updated \in Ids
      BY EntAssumption
    <3>5. IsMutation(mut') /\ AllFollow(mut', asked')
      BY <3>2, <3>3, <3>4, OpensFitting
    <3>6. QED
      BY <3>1, <3>5 DEF Inv, TypeOK
  <2>3. QED
    BY <2>1, <2>2
<1>3. CallsFollowed'
  BY <1>2, MutationIsOpen DEF CallsFollowed
<1> QED
  BY <1>1, <1>2, <1>3 DEF Inv, TypeOK

LEMMA BuilderKeepsInv ==
  ASSUME Inv, CallBuilder
  PROVE  Inv'
<1>1. IsMutation(mut) /\ AllFollow(mut, asked) /\ mut.type \in Types
  BY DEF Inv, TypeOK, CallsFollowed, CallBuilder, IsMutation
<1>2. CASE SetAField
  <2>0. PICK f \in Settable(mut) :
          \E v \in Offered(mut.type, f) : Call(BuilderSets(mut, f, v)) /\ Ask(f, "set", v)
    BY <1>2, Zenon DEF SetAField
  <2>1. PICK v \in Offered(mut.type, f) : Call(BuilderSets(mut, f, v)) /\ Ask(f, "set", v)
    BY <2>0, Zenon
  <2>2. f \in Fields(mut.type)
    BY <1>1, SettableAre
  <2>3. v \in Values(Entity[mut.type].kinds[f])
    BY <1>1, <2>2, OfferedFits
  <2>4. asked' = Asking(asked, f, "set", v)
    BY <2>1 DEF Ask, Asking
  <2>5. IsMutation(BuilderSets(mut, f, v)) /\ AllFollow(BuilderSets(mut, f, v), asked')
    BY <1>1, <2>3, <2>4, SetFollows
  <2>6. QED
    BY <2>1, <2>5, CallKeepsInv
<1>3. CASE AddToANumber
  <2>1. PICK f \in Schema(mut).numbers \cap Settable(mut), n \in {-1, 1} :
          /\ mut.op = "update"
          /\ Call(AddToField(mut, f, n))
          /\ Ask(f, "add", n + IF f \in DOMAIN asked /\ asked[f].call = "add"
                                 THEN asked[f].value ELSE 0)
    BY <1>3, Zenon DEF AddToANumber
  <2> DEFINE v == n + IF f \in DOMAIN asked /\ asked[f].call = "add"
                        THEN asked[f].value ELSE 0
             r == AddToField(mut, f, n)
  <2>2. asked' = Asking(asked, f, "add", v)
    BY <2>1 DEF Ask, Asking
  <2>3. n \in Int /\ f \in Entity[mut.type].numbers \cap Settable(mut)
    BY DEF Schema
  <2>4. IsMutation(r) /\ AllFollow(r, asked')
    BY <1>1, <2>1, <2>2, <2>3, AddFollows
  <2>5. Call(r)
    BY <2>1
  <2> HIDE DEF r
  <2>6. QED
    BY <2>4, <2>5, CallKeepsInv
<1>4. CASE ClearAField \/ UnlinkAParent
  <2>1. PICK f, r : /\ \/ f \in Entity[mut.type].nullable \cap Settable(mut) /\ r = ClearField(mut, f)
                       \/ f \in Keys(mut.type) /\ r = UnlinkParent(mut, f)
                    /\ mut.op = "update" /\ Call(r) /\ Ask(f, "clear", Null)
    BY <1>4 DEF ClearAField, UnlinkAParent, Schema, Keys
  <2>2. asked' = Asking(asked, f, "clear", Null)
    BY <2>1 DEF Ask, Asking
  <2>3. IsMutation(r) /\ AllFollow(r, asked')
    BY <1>1, <2>1, <2>2, ClearFollows
  <2>4. QED
    BY <2>1, <2>3, CallKeepsInv
<1>5. CASE ResetAField \/ ResetAParent
  <2>1. PICK f, r : /\ \/ f \in Fields(mut.type) /\ r = ResetField(mut, f)
                       \/ f \in Keys(mut.type) /\ r = ResetParent(mut, f)
                    /\ Call(r) /\ Ask(f, "reset", Null)
    BY <1>5 DEF ResetAField, ResetAParent, Schema, Keys, Fields
  <2>2. asked' = Asking(asked, f, "reset", Null)
    BY <2>1 DEF Ask, Asking
  <2>3. f \in Fields(mut.type)
    BY <1>1, <2>1, KeysAreFields
  <2>4. IsMutation(r) /\ AllFollow(r, asked')
    BY <1>1, <2>1, <2>2, <2>3, ResetFollows
  <2>5. QED
    BY <2>1, <2>4, CallKeepsInv
<1>6. CASE ChangeChildren
  <2>1. PICK e \in Edges(mut), i \in Ids :
          \E r \in {AddChild(mut, e, i), RemoveChild(mut, e, i), ClearChildren(mut, e),
                    ResetChildren(mut, e)} : Call(r)
    BY <1>6 DEF ChangeChildren
  <2>2. PICK r \in {AddChild(mut, e, i), RemoveChild(mut, e, i), ClearChildren(mut, e),
                    ResetChildren(mut, e)} : Call(r)
    BY <2>1
  <2>3. asked' = asked
    BY <1>6 DEF ChangeChildren
  <2>4. IsMutation(r) /\ AllFollow(r, asked')
    BY <1>1, <2>3, ChildrenFollow
  <2>5. QED
    BY <2>2, <2>4, CallKeepsInv
<1> QED
  BY <1>2, <1>3, <1>4, <1>5, <1>6 DEF CallBuilder

\* Everything a step of Save needs.
LEMMA SaveStep ==
  ASSUME Inv, Save, NEW m, m = WithDefaults(mut)
  PROVE  /\ Fitting(db) /\ IsMutation(m) /\ CanSave(db, m) /\ AllFollow(m, asked)
         /\ db' = Saved(RowSaved(db, m), m) /\ mut # Closed /\ IsMutation(mut)
         /\ m.type = mut.type /\ m.op = mut.op /\ m.id = mut.id /\ m.added = mut.added
<1>1. IsMutation(mut) /\ AllFollow(mut, asked) /\ mut # Closed
  BY DEF Inv, TypeOK, CallsFollowed, Save
<1>2. Fitting(db)
  BY DatabaseFits DEF Inv, TypeOK
<1>3. CanSave(db, m) /\ db' = Saved(RowSaved(db, m), m)
  BY DEF Save
<1> QED
  BY <1>1, <1>2, <1>3, FilledIn, DefaultsFollow

LEMMA SaveKeepsInv ==
  ASSUME Inv, Save
  PROVE  Inv'
<1> DEFINE m == WithDefaults(mut)
<1>1. /\ Fitting(db) /\ IsMutation(m) /\ CanSave(db, m)
      /\ db' = Saved(RowSaved(db, m), m)
  BY SaveStep
<1> HIDE DEF m
<1>2. Fitting(db') /\ Legal(db')
  BY <1>1, SaveFits
<1>3. IsDatabase(db')
  BY <1>2, LegalIsDatabase
<1>4. KeysRefer'
  BY <1>2 DEF KeysRefer, Legal
<1>5. mut' = Closed /\ DOMAIN asked' = {} /\ calls' = MaxCalls
  BY DEF Save
<1> QED
  BY <1>3, <1>4, <1>5, EntAssumption DEF Inv, TypeOK, CallsFollowed

LEMMA FailureKeepsInv ==
  ASSUME Inv, SaveFails
  PROVE  Inv'
<1>1. /\ mut' = WithDefaults(mut) /\ db' = db /\ asked' = asked /\ calls' = calls
      /\ IsMutation(mut) /\ AllFollow(mut, asked)
  BY DEF SaveFails, Inv, TypeOK, CallsFollowed
<1>2. IsMutation(mut') /\ AllFollow(mut', asked')
  BY <1>1, FilledIn, DefaultsFollow
<1>3. IsDatabase(db') /\ KeysRefer' /\ calls' \in 0..MaxCalls
  BY <1>1 DEF Inv, TypeOK, KeysRefer
<1> QED
  BY <1>2, <1>3, MutationIsOpen DEF Inv, TypeOK, CallsFollowed

LEMMA DeleteKeepsInv ==
  ASSUME Inv, NEW row \in Doomed, DeleteOne(row[1], row[2])
  PROVE  Inv'
<1>1. row[1] \in Types /\ row[2] \in Ids
  BY EntAssumption
<1>2. IsDatabase(db) /\ Refers(db)
  BY DEF Inv, TypeOK, KeysRefer, Refers, Keys
<1>3. CanDelete(db, row[1], row[2]) /\ db' = AfterDelete(db, row[1], row[2])
  BY DEF DeleteOne
<1>4. IsDatabase(db') /\ Refers(db')
  BY <1>1, <1>2, <1>3, DeleteFits
<1>5. KeysRefer'
  BY <1>4 DEF KeysRefer, Refers, Keys
<1>6. mut' = mut /\ asked' = asked /\ calls' = calls
  BY DEF DeleteOne
<1> QED
  BY <1>4, <1>5, <1>6 DEF Inv, TypeOK, CallsFollowed

LEMMA StepKeepsInv == Inv /\ [Next]_vars => Inv'
<1> SUFFICES ASSUME Inv, [Next]_vars PROVE Inv'
  OBVIOUS
<1>1. CASE \E type \in Types : OpenCreate(type) \/ OpenUpdate(type)
  BY <1>1, OpenKeepsInv
<1>2. CASE CallBuilder
  BY <1>2, BuilderKeepsInv
<1>3. CASE Save
  BY <1>3, SaveKeepsInv
<1>4. CASE SaveFails
  BY <1>4, FailureKeepsInv
<1>5. CASE \E row \in Doomed : DeleteOne(row[1], row[2])
  BY <1>5, DeleteKeepsInv
<1>6. CASE UNCHANGED vars
  BY <1>6 DEF Inv, TypeOK, CallsFollowed, KeysRefer, vars
<1> QED
  BY <1>1, <1>2, <1>3, <1>4, <1>5, <1>6 DEF Next

LEMMA InvHolds == Spec => []Inv
  BY InitInv, StepKeepsInv, PTL DEF Spec

\* Every value in the database is of the kind of its column, NULL only where the
\* schema says Optional, and every foreign key refers to a row, whatever the
\* builders save and the deletes cascade to (sqlSave of ent/*_create.go and
\* ent/*_update.go, sqlExec of ent/*_delete.go, ent/migrate/schema.go).
THEOREM EntIsTyped == Spec => []TypeOK
<1>1. Inv => TypeOK
  BY DEF Inv
<1> QED
  BY <1>1, InvHolds, PTL

----------------------------------------------------------------------------
(* What a save does                                                          *)

\* A builder is closed by a save that succeeds and by nothing else.
LEMMA OnlySaveSaves ==
  ASSUME Inv, [Next]_vars, Saves
  PROVE  Save
<1>1. mut # Closed /\ mut' = Closed /\ IsMutation(mut)
  BY DEF Saves, Inv, TypeOK
<1>2. ASSUME NEW type \in Types PROVE ~OpenCreate(type) /\ ~OpenUpdate(type)
  BY <1>1 DEF OpenCreate, OpenUpdate
<1>3. ~SaveFails
  BY <1>1, FilledIn, MutationIsOpen DEF SaveFails
<1>4. ~CallBuilder
  <2> SUFFICES ASSUME CallBuilder PROVE FALSE
    OBVIOUS
  <2>1. Inv'
    BY BuilderKeepsInv
  <2>2. DOMAIN asked' = {}
    BY <1>1, <2>1 DEF Inv, CallsFollowed
  <2>3. \A f, call, v : ~Ask(f, call, v)
    BY <2>2 DEF Ask, With, Joined
  <2>4. ChangeChildren
    BY <2>3 DEF CallBuilder, SetAField, AddToANumber, ClearAField, ResetAField,
                UnlinkAParent, ResetAParent
  <2>5. PICK e \in Edges(mut), i \in Ids :
          \E r \in {AddChild(mut, e, i), RemoveChild(mut, e, i), ClearChildren(mut, e),
                    ResetChildren(mut, e)} : Call(r)
    BY <2>4 DEF ChangeChildren
  <2>6. mut' \in {AddChild(mut, e, i), RemoveChild(mut, e, i), ClearChildren(mut, e),
                 ResetChildren(mut, e)}
    BY <2>5 DEF Call
  <2>7. AllFollow(mut, asked)
    BY <1>1 DEF Inv, CallsFollowed
  <2>8. IsMutation(mut')
    BY <1>1, <2>6, <2>7, ChildrenFollow
  <2>9. QED
    BY <1>1, <2>8, MutationIsOpen
<1>5. ASSUME NEW row \in Doomed PROVE ~DeleteOne(row[1], row[2])
  BY <1>1 DEF DeleteOne
<1> QED
  BY <1>1, <1>2, <1>3, <1>4, <1>5 DEF Next, vars

\* The row a save leaves, column by column.
LEMMA SavedRow ==
  ASSUME Inv, Save, NEW m, m = WithDefaults(mut), NEW old, old = RowOld(db, m),
         NEW f \in Fields(mut.type)
  PROVE  /\ RowAfter[f] =
              IF f \notin Columns(m) THEN old[f]
              ELSE IF f \in DOMAIN m.set THEN m.set[f]
              ELSE IF IsCleared(m, f) THEN Null
              ELSE IF f \in DOMAIN m.added
                THEN (IF old[f] = Null THEN 0 ELSE old[f]) + m.added[f]
              ELSE old[f]
         /\ old[f] = IF mut.op = "create" THEN Null ELSE db[mut.type][mut.id][f]
<1>1. /\ Fitting(db) /\ IsMutation(m) /\ CanSave(db, m)
      /\ db' = Saved(RowSaved(db, m), m)
      /\ m.type = mut.type /\ m.op = mut.op /\ m.id = mut.id
  BY SaveStep
<1>2. RowAfter = Written(m, old) /\ RowFits(m.type, old)
  BY <1>1, SaveFits DEF RowAfter
<1>3. old[f] = IF mut.op = "create" THEN Null ELSE db[mut.type][mut.id][f]
  BY <1>1 DEF RowOld, Schema, Fields
<1> QED
  BY <1>1, <1>2, <1>3, WrittenFits

\* The step of LastCallWins: by what the last call left in the builder (Follows),
\* through check, defaults and the statement.  Postgres refuses a column assigned
\* twice, so an increment is alone.
LEMMA SaveDoesWhatWasAsked ==
  ASSUME Inv, Save, NEW f \in Fields(mut.type),
         f \in DOMAIN asked /\ f \in Keys(mut.type) => asked[f].only \/ asked[f].call = "set"
  PROVE  RowAfter[f] = Wanted(f)
<1> DEFINE m == WithDefaults(mut)
           old == RowOld(db, m)
           prior == IF mut.op = "create" THEN Null ELSE db[mut.type][mut.id][f]
<1>1. /\ IsMutation(m) /\ CanSave(db, m) /\ AllFollow(m, asked) /\ IsMutation(mut)
      /\ m.type = mut.type /\ m.op = mut.op /\ m.added = mut.added
  BY SaveStep
<1>2. /\ RowAfter[f] =
           IF f \notin Columns(m) THEN prior
           ELSE IF f \in DOMAIN m.set THEN m.set[f]
           ELSE IF IsCleared(m, f) THEN Null
           ELSE IF f \in DOMAIN m.added
             THEN (IF prior = Null THEN 0 ELSE prior) + m.added[f]
           ELSE prior
  BY SavedRow
<1>3. m.set = Joined(mut.set, Defaults(mut))
  BY <1>1, FilledIn
<1> HIDE DEF m, prior
<1>4. /\ Otherwise(f) = IF f \in DOMAIN Defaults(mut) THEN Defaults(mut)[f] ELSE prior
      /\ Defaults(m) = Defaults(mut)
  BY <1>1 DEF Otherwise, prior, Defaults, Schema
<1>5. Follows(m, asked, f)
  BY <1>1 DEF AllFollow
<1>6. f \in DOMAIN Defaults(mut) => f \in DOMAIN m.set /\ f \in Columns(m)
  <2>1. f \in DOMAIN Defaults(mut) => f \in DOMAIN m.set
    BY <1>3 DEF Joined
  <2>2. m.op = "create" => f \in Columns(m)
    BY <1>1, SettableAre
  <2>3. m.op = "update" /\ f \in DOMAIN Defaults(m) => f \in Columns(m)
    BY <1>1, DefaultsOfMutation DEF Columns, Schema, IsMutation
  <2>4. m.op \in {"create", "update"}
    BY <1>1 DEF IsMutation
  <2>5. QED
    BY <1>4, <2>1, <2>2, <2>3, <2>4
<1>7. CASE f \notin DOMAIN asked \/ asked[f].call = "reset"
  <2>1. ~IsCleared(m, f) /\ f \notin DOMAIN m.added
    BY <1>1, <1>5, <1>7 DEF Follows, Idle, IsCleared, ParentCleared, Keys
  <2>2. f \in DOMAIN m.set => f \in DOMAIN Defaults(mut) /\ m.set[f] = Defaults(mut)[f]
    BY <1>4, <1>5, <1>7 DEF Follows, Idle
  <2>3. Wanted(f) = Otherwise(f)
    BY <1>7 DEF Wanted
  <2>4. QED
    BY <1>2, <1>4, <1>6, <2>1, <2>2, <2>3
<1>8. CASE f \in DOMAIN asked /\ asked[f].call = "set"
  <2>1. f \in Columns(m) /\ f \in DOMAIN m.set /\ m.set[f] = asked[f].value
    BY <1>5, <1>8 DEF Follows, Given
  <2>2. QED
    BY <1>2, <1>8, <2>1 DEF Wanted
<1>9. CASE f \in DOMAIN asked /\ asked[f].call = "clear"
  <2>1. f \in Columns(m) /\ f \notin DOMAIN m.set /\ IsCleared(m, f) /\ asked[f].value = Null
    BY <1>1, <1>5, <1>9 DEF Follows, Emptied
  <2>2. QED
    BY <1>2, <1>9, <2>1 DEF Wanted
<1>10. CASE f \in DOMAIN asked /\ asked[f].call = "add"
  <2>1. /\ f \in DOMAIN m.added /\ m.added[f] = asked[f].value
        /\ f \in Entity[m.type].numbers /\ f \in Columns(m)
    BY <1>5, <1>10 DEF Follows, Increased
  <2>2. f \notin Keys(m.type)
    BY <1>1, <2>1, EntitiesFit DEF IsMutation, Fits, FieldsFit, KeysFit, Keys
  <2>3. f \notin DOMAIN m.set /\ f \notin m.cleared
    <3> DEFINE asks == {a \in {"set", "add", "clear"} :
                          \/ a = "set" /\ f \in DOMAIN m.set
                          \/ a = "add" /\ f \in DOMAIN m.added
                          \/ a = "clear" /\ f \in m.cleared}
    <3>1. Cardinality(asks) <= 1
      BY <1>1, <2>1, <2>2 DEF CanSave, AssignsOnce, Keys, Schema
    <3>2. IsFiniteSet({"set", "add", "clear"})
      <4>1. IsFiniteSet({"set"} \cup {"add"})
        BY FS_Singleton, FS_Union
      <4>2. IsFiniteSet(({"set"} \cup {"add"}) \cup {"clear"})
        BY <4>1, FS_Singleton, FS_Union
      <4>3. ({"set"} \cup {"add"}) \cup {"clear"} = {"set", "add", "clear"}
        OBVIOUS
      <4>4. QED
        BY <4>2, <4>3
    <3>3. IsFiniteSet(asks)
      BY <3>2, FS_Subset
    <3>4. "add" \in asks
      BY <2>1
    <3> HIDE DEF asks
    <3>5. Cardinality(asks) \in Nat /\ Cardinality(asks) # 0
      BY <3>3, <3>4, FS_CardinalityType, FS_EmptySet
    <3>6. asks = {"add"}
      <4>1. Cardinality(asks) = 1
        BY <3>1, <3>5
      <4>2. \E x : asks = {x}
        BY <3>3, <4>1, FS_Singleton
      <4>3. QED
        BY <3>4, <4>2
    <3>7. "set" \notin asks /\ "clear" \notin asks
      BY <3>6
    <3>8. QED
      BY <3>7 DEF asks
  <2>4. ~IsCleared(m, f)
    BY <2>2, <2>3 DEF IsCleared, Keys, Schema
  <2>5. Otherwise(f) = prior
    BY <1>4, <1>6, <2>3
  <2>6. QED
    BY <1>2, <1>10, <2>1, <2>3, <2>4, <2>5 DEF Wanted
<1> QED
  BY <1>5, <1>7, <1>8, <1>9, <1>10 DEF Follows

\* A Save that succeeds gives each column what the last call on its field asked
\* for, for any number of calls and failed saves before it (the setters, clears,
\* adds and resets of ent/mutation.go; a parent's key after several calls excepted,
\* as LastCallWins says).
THEOREM LastCallAlwaysWins == Spec => LastCallWins
<1>1. Inv /\ [Next]_vars =>
        [Saves =>
          \A f \in DOMAIN Schema(mut).fields :
            (f \in DOMAIN asked \cap DOMAIN Schema(mut).parents
               => asked[f].only \/ asked[f].call = "set")
                => RowAfter[f] = Wanted(f)]_vars
  <2> SUFFICES ASSUME Inv, [Next]_vars, Saves, NEW f \in DOMAIN Schema(mut).fields,
                      f \in DOMAIN asked \cap DOMAIN Schema(mut).parents
                        => asked[f].only \/ asked[f].call = "set"
               PROVE  RowAfter[f] = Wanted(f)
    OBVIOUS
  <2>1. Save
    BY OnlySaveSaves
  <2>2. f \in Fields(mut.type)
    BY DEF Schema, Fields
  <2>3. f \in DOMAIN asked /\ f \in Keys(mut.type) => asked[f].only \/ asked[f].call = "set"
    BY DEF Schema, Keys
  <2>4. QED
    BY <2>1, <2>2, <2>3, SaveDoesWhatWasAsked
<1> QED
  BY <1>1, InvHolds, PTL DEF Spec, LastCallWins

\* The step of ValidatorsHold: check() has seen what the builder set, and what it
\* did not set is NULL, as it was, or an increment.
LEMMA SaveValidates ==
  ASSUME Inv, Save, NEW f \in DOMAIN Schema(mut).rules
  PROVE  \/ RowAfter[f] = Null \/ f \in DOMAIN mut.added
         \/ mut.op = "update" /\ RowAfter[f] = db[mut.type][mut.id][f]
         \/ ~Refuses(Schema(mut).rules[f], RowAfter[f])
<1> DEFINE m == WithDefaults(mut)
           prior == IF mut.op = "create" THEN Null ELSE db[mut.type][mut.id][f]
<1>1. /\ IsMutation(m) /\ CanSave(db, m) /\ IsMutation(mut)
      /\ m.type = mut.type /\ m.op = mut.op /\ m.added = mut.added
  BY SaveStep
<1>2. RulesFit(Entity[mut.type]) /\ f \in Fields(mut.type)
  BY <1>1, EntitiesFit DEF IsMutation, Fits, RulesFit, Fields, Schema
<1>3. RowAfter[f] =
        IF f \notin Columns(m) THEN prior
        ELSE IF f \in DOMAIN m.set THEN m.set[f]
        ELSE IF IsCleared(m, f) THEN Null
        ELSE IF f \in DOMAIN m.added
          THEN (IF prior = Null THEN 0 ELSE prior) + m.added[f]
        ELSE prior
  BY <1>2, SavedRow
<1> HIDE DEF m
<1>4. mut.op \in {"create", "update"}
  BY <1>1 DEF IsMutation
<1>5. f \in DOMAIN m.set => ~Refuses(Schema(mut).rules[f], m.set[f])
  BY <1>1, <1>2 DEF CanSave, Check, Checked, RulesFit, Schema
<1> QED
  BY <1>1, <1>3, <1>4, <1>5

\* No Save stores a value its validators refuse, an increment excepted (check() of
\* ent/*_create.go and ent/*_update.go).
THEOREM ValidatorsAlwaysHold == Spec => ValidatorsHold
<1>1. Inv /\ [Next]_vars =>
        [Saves =>
          \A f \in DOMAIN Schema(mut).rules :
            RowAfter[f] = Null \/ f \in DOMAIN mut.added
              \/ (mut.op = "update" /\ RowAfter[f] = db[mut.type][mut.id][f])
              \/ ~Refuses(Schema(mut).rules[f], RowAfter[f])]_vars
  BY OnlySaveSaves, SaveValidates
<1> QED
  BY <1>1, InvHolds, PTL DEF Spec, ValidatorsHold

\* The step of ChildrenStay.
LEMMA SaveLeavesOthers ==
  ASSUME Inv, Save, NEW type \in Types, NEW i \in Live(db, type),
         <<type, i>> # <<mut.type, mut.id>>, NEW f \in DOMAIN db[type][i]
  PROVE  \/ db'[type][i][f] = db[type][i][f]
         \/ ReachesChild(mut, type, f, i, db[type][i][f])
<1> DEFINE m == WithDefaults(mut)
<1>1. /\ Fitting(db) /\ IsMutation(m) /\ CanSave(db, m)
      /\ db' = Saved(RowSaved(db, m), m)
      /\ m.type = mut.type /\ m.id = mut.id
  BY SaveStep
<1>3. ReachesChild(m, type, f, i, db[type][i][f])
        => ReachesChild(mut, type, f, i, db[type][i][f])
  <2>1. m.adds = mut.adds /\ m.removes = mut.removes /\ m.emptied = mut.emptied
    BY SaveStep, FilledIn
  <2>2. QED
    BY <1>1, <2>1 DEF ReachesChild, Schema, Edges
<1> HIDE DEF m
<1>2. f \in Fields(type)
  <2>1. RowFits(type, db[type][i])
    BY <1>1 DEF Fitting, Live
  <2>2. DOMAIN [g \in Fields(type) |-> db[type][i][g]] = Fields(type)
    OBVIOUS
  <2>3. QED
    BY <2>1, <2>2 DEF RowFits
<1> QED
  BY <1>1, <1>2, <1>3, SaveFits

\* A Save of a parent takes no child from another parent, leaves alone the children
\* it does not name and touches nothing of a child but its key, however edges were added, removed and cleared before it
\* (the O2M edges of sqlSave in ent/*_create.go and ent/*_update.go).
THEOREM ChildrenAlwaysStay == Spec => ChildrenStay
<1>1. Inv /\ [Next]_vars =>
        [Saves =>
          \A type \in Types : \A i \in Live(db, type) :
            <<type, i>> # <<mut.type, mut.id>> =>
              \A f \in DOMAIN db[type][i] :
                \/ db'[type][i][f] = db[type][i][f]
                \/ ReachesChild(mut, type, f, i, db[type][i][f])]_vars
  BY OnlySaveSaves, SaveLeavesOthers
<1> QED
  BY <1>1, InvHolds, PTL DEF Spec, ChildrenStay

=============================================================================
