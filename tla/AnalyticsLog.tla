----------------------------- MODULE AnalyticsLog -----------------------------
(****************************************************************************)
(* What the analytics pipeline promises to whoever reads analytics_events:   *)
(* events are recorded in one order, settled in that order, and settled once. *)
(* Settling an event gives it at most one row and at most one dead letter;    *)
(* giving it neither is the loss the pipeline allows itself ("best-effort").  *)
(* A settled event is never looked at again, whatever restarts follow.        *)
(****************************************************************************)
EXTENDS Integers

CONSTANT MaxEvents       \* bound: events recorded

VARIABLES
  recorded,  \* events recorded so far
  settled,   \* events settled so far, a prefix of the recorded ones
  stored,    \* settled events with a row
  dead       \* settled events with a dead letter

vars == <<recorded, settled, stored, dead>>

TypeOK ==
  /\ recorded \in 0..MaxEvents
  /\ settled \in 0..recorded
  /\ stored \in SUBSET (1..settled)
  /\ dead \in SUBSET (1..settled)

Init == recorded = 0 /\ settled = 0 /\ stored = {} /\ dead = {}

\* One request may be recorded more than once: its push can be sent again.
Record ==
  /\ recorded < MaxEvents /\ recorded' = recorded + 1
  /\ UNCHANGED <<settled, stored, dead>>

\* The oldest unsettled events get their outcome together; those that had one
\* keep it.
Settle ==
  /\ settled' \in (settled + 1)..recorded
  /\ \E rowed, buried \in SUBSET ((settled + 1)..settled') :
       /\ stored' = stored \cup rowed
       /\ dead' = dead \cup buried
  /\ UNCHANGED recorded

Next == Record \/ Settle

Spec == Init /\ [][Next]_vars
=============================================================================
