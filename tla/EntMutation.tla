----------------------------- MODULE EntMutation -----------------------------
(****************************************************************************)
(* What an Ent builder remembers until Save: the mutation objects of          *)
(* ent/mutation.go, one operator per call a builder's client can make.        *)
(*                                                                          *)
(*   set, added   the values given, the increments of numbers                  *)
(*   cleared      clearedFields: optional fields, and keys whose edge was       *)
(*                cleared                                                      *)
(*   unlinked     clearedX of the edges to parents, by the key they hold        *)
(*   emptied, adds, removes   clearedX, X and removedX of the edges to children *)
(****************************************************************************)
EXTENDS EntSchema, Integers

Restricted(f, names) == [x \in (DOMAIN f) \cap names |-> f[x]]
Without(f, x) == Restricted(f, DOMAIN f \ {x})
With(f, x, v) == Joined([y \in {x} |-> v], f)

Schema(m) == Entity[m.type]

NewMutation(type, op, id) ==
  [type |-> type, op |-> op, id |-> id, set |-> [f \in {} |-> 0],
   added |-> [f \in {} |-> 0], cleared |-> {}, unlinked |-> {}, emptied |-> {},
   adds |-> [e \in DOMAIN Entity[type].children |-> {}],
   removes |-> [e \in DOMAIN Entity[type].children |-> {}]]

----------------------------------------------------------------------------
(* Fields                                                                    *)

\* ResetX: nothing is asked of the field; an optional one is not cleared either.
ResetField(m, f) ==
  [m EXCEPT !.set = Without(@, f), !.added = Without(@, f),
            !.cleared = IF f \in Schema(m).nullable THEN @ \ {f} ELSE @]

\* SetX drops the increment of a number and leaves clearedFields alone.
SetField(m, f, v) == [m EXCEPT !.set = With(@, f, v), !.added = Without(@, f)]

\* The update builders reset a number before they set it.
BuilderSets(m, f, v) ==
  IF m.op = "update" /\ f \in Schema(m).numbers
    THEN SetField(ResetField(m, f), f, v)
    ELSE SetField(m, f, v)

\* AddX accumulates, next to what is set.
AddToField(m, f, n) ==
  [m EXCEPT !.added = With(@, f, IF f \in DOMAIN @ THEN @[f] + n ELSE n)]

\* Mutant: the field is dropped and not recorded as cleared.
ClearForgets(m, f) == [m EXCEPT !.set = Without(@, f), !.added = Without(@, f)]
ClearField(m, f) ==
  [m EXCEPT !.set = Without(@, f), !.added = Without(@, f), !.cleared = @ \cup {f}]

----------------------------------------------------------------------------
(* Edges.  A key that is set stays set when its edge is cleared, and resetting *)
(* the edge leaves clearedFields alone.                                       *)

UnlinkParent(m, k) == [m EXCEPT !.unlinked = @ \cup {k}, !.cleared = @ \cup {k}]
ResetParent(m, k) == [m EXCEPT !.set = Without(@, k), !.unlinked = @ \ {k}]

\* XCleared of the edge: of an optional key, clearing the field is enough.
ParentCleared(m, k) ==
  \/ k \in m.unlinked
  \/ k \in m.cleared /\ k \in Schema(m).nullable

AddChild(m, e, i) == [m EXCEPT !.adds[e] = @ \cup {i}]
RemoveChild(m, e, i) == [m EXCEPT !.adds[e] = @ \ {i}, !.removes[e] = @ \cup {i}]
ClearChildren(m, e) == [m EXCEPT !.emptied = @ \cup {e}]
ResetChildren(m, e) ==
  [m EXCEPT !.adds[e] = {}, !.removes[e] = {}, !.emptied = @ \ {e}]
=============================================================================
