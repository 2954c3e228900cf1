----------------------------- MODULE Subscribers -----------------------------
(****************************************************************************)
(* Double opt-in subscriptions: internal/subscribers.  Visitors ask for a    *)
(* subscription, follow the link mailed to them, and later follow the        *)
(* unsubscribe link of a newsletter; the table subscribers has one row per   *)
(* address and one token per row, which serves both links.  Requests are     *)
(* sequences of separate SQL statements and run concurrently; mails are sent *)
(* by goroutines nobody waits for; a notification works on a list read once. *)
(*                                                                          *)
(* Tokens are 24 random bytes: fresh when generated and unknown to whoever   *)
(* did not receive them by mail.                                             *)
(****************************************************************************)
EXTENDS Integers, FiniteSets

CONSTANTS
  Emails,       \* addresses, normalised
  Requests,     \* concurrent subscribe and confirm requests, at most this many
  Notifiers,    \* concurrent notification goroutines, at most this many
  TTL,          \* confirmationTokenTTL (repository.go:12), in days
  MaxTokens,    \* bound: tokens generated
  MaxDay,       \* bound: days that pass
  MaxFaults     \* bound: failed statements and mails, crashes

ASSUME EmailsFinite == IsFiniteSet(Emails)
ASSUME SubscriberBounds ==
  TTL \in Nat /\ MaxTokens \in Nat /\ MaxDay \in Nat /\ MaxFaults \in Nat

VARIABLES
  row,          \* the row of each address, NoRow if it has none
  req,          \* the requests in progress
  confirmMail,  \* the confirmation mail that carries each token
  issued,       \* history: <<address, token, day>> of each token put in the table
  clicked,      \* history: tokens whose confirmation link was followed
  removed,      \* history: tokens whose row was unsubscribed
  newsletters,  \* tokens in the unsubscribe links mailed to each address
  batch,        \* where each notification goroutine stands
  reports,      \* rows of post_notifications
  tokens,       \* tokens generated so far
  today, faults

tableVars   == <<row, issued>>
historyVars == <<clicked, removed>>
notifyVars  == <<newsletters, batch, reports>>
vars == <<tableVars, req, confirmMail, historyVars, notifyVars, tokens, today, faults>>

Tokens == 1..MaxTokens
Days == 0..MaxDay

\* name: the submission the row's name was given in, known by the token that
\* was generated for it.
NoRow == [token |-> 0, name |-> 0, confirmed |-> FALSE, updated |-> 0]
Rows == [token : Tokens, name : Tokens, confirmed : BOOLEAN, updated : Days]
Confirmed(e) == row[e] # NoRow /\ row[e].confirmed
Pending(e) == row[e] # NoRow /\ ~row[e].confirmed

Idle == [pc |-> "idle"]
ReqStates ==
  {Idle} \cup [pc : {"create"}, email : Emails, wasPending : BOOLEAN]
         \cup [pc : {"update"}, token : Tokens]

NoBatch == [pc |-> "idle"]
Counts == 0..Cardinality(Emails)
BatchStates ==
  {NoBatch, [pc |-> "list"]}
    \cup [pc : {"send"}, todo : SUBSET (Emails \X Tokens),
          total : Counts, sent : Counts, failed : Counts]

TypeOK ==
  /\ row \in [Emails -> Rows \cup {NoRow}]
  /\ req \in [Requests -> ReqStates]
  /\ confirmMail \in [Tokens -> {"none", "queued", "sent", "failed"}]
  /\ issued \in SUBSET (Emails \X Tokens \X Days)
  /\ clicked \in SUBSET Tokens
  /\ removed \in SUBSET Tokens
  /\ newsletters \in [Emails -> SUBSET Tokens]
  /\ batch \in [Notifiers -> BatchStates]
  /\ reports \in SUBSET [total : Counts, sent : Counts, failed : Counts]
  /\ tokens \in 0..MaxTokens
  /\ today \in Days
  /\ faults \in 0..MaxFaults

Init ==
  /\ row = [e \in Emails |-> NoRow]
  /\ req = [r \in Requests |-> Idle]
  /\ confirmMail = [t \in Tokens |-> "none"]
  /\ issued = {}
  /\ clicked = {}
  /\ removed = {}
  /\ newsletters = [e \in Emails |-> {}]
  /\ batch = [b \in Notifiers |-> NoBatch]
  /\ reports = {}
  /\ tokens = 0
  /\ today = 0
  /\ faults = 0

Fault == faults < MaxFaults /\ faults' = faults + 1

Continue(r, state) == req' = [req EXCEPT ![r] = state]
Return(r) == Continue(r, Idle)

----------------------------------------------------------------------------
(* POST /v1/subscribe: GetByEmail, then Create, then a goroutine that mails   *)

\* A confirmed address is answered at once.  An error of GetByEmail is taken
\* for "no row".
Subscribe(r, e) ==
  /\ req[r] = Idle
  /\ tokens < MaxTokens
  /\ \/ ~Confirmed(e) /\ Continue(r, [pc |-> "create", email |-> e, wasPending |-> Pending(e)])
        /\ UNCHANGED faults
     \/ Fault /\ Continue(r, [pc |-> "create", email |-> e, wasPending |-> FALSE])
  /\ UNCHANGED <<tableVars, confirmMail, historyVars, notifyVars, tokens, today>>

\* INSERT ... ON CONFLICT: any row takes the name submitted and a new
\* updated_at; a pending one takes the new token too, a confirmed one keeps its
\* token and stays confirmed.
\* Mutants: the conflict clause without its CASE; one that keeps a pending
\* token but renews its age.
UpsertedNoCase(e, t) ==
  [token |-> t, name |-> t, confirmed |-> Confirmed(e), updated |-> today]
UpsertedKeepToken(e, t) ==
  [token |-> IF row[e] # NoRow THEN row[e].token ELSE t, name |-> t,
   confirmed |-> Confirmed(e), updated |-> today]
Upserted(e, t) ==
  [token |-> IF Confirmed(e) THEN row[e].token ELSE t, name |-> t,
   confirmed |-> Confirmed(e), updated |-> today]

\* The goroutine that mails the new link starts unless the row is confirmed.
\* Mutant: it does not start again for an address that was pending.
QueueOnlyFirst(r, t) ==
  confirmMail' = [confirmMail EXCEPT ![t] = IF req[r].wasPending THEN @ ELSE "queued"]
QueueMail(r, t) == confirmMail' = [confirmMail EXCEPT ![t] = "queued"]

Create(r) ==
  /\ req[r].pc = "create"
  /\ tokens < MaxTokens
  /\ LET e == req[r].email
         t == tokens + 1
     IN  /\ tokens' = t
         /\ \/ /\ row' = [row EXCEPT ![e] = Upserted(e, t)]
               /\ issued' = IF Confirmed(e) THEN issued ELSE issued \cup {<<e, t, today>>}
               /\ \/ /\ IF Confirmed(e) THEN UNCHANGED confirmMail ELSE QueueMail(r, t)
                     /\ UNCHANGED faults
                  \/ Fault /\ UNCHANGED confirmMail        \* stored, reply lost
            \/ Fault /\ UNCHANGED <<tableVars, confirmMail>>
  /\ Return(r)
  /\ UNCHANGED <<historyVars, notifyVars, today>>

\* sendConfirmation in its goroutine; an error is logged and nobody retries.
SendConfirmation(t) ==
  /\ confirmMail[t] = "queued"
  /\ \/ confirmMail' = [confirmMail EXCEPT ![t] = "sent"] /\ UNCHANGED faults
     \/ confirmMail' = [confirmMail EXCEPT ![t] = "failed"] /\ Fault
  /\ UNCHANGED <<tableVars, req, historyVars, notifyVars, tokens, today>>

----------------------------------------------------------------------------
(* GET /v1/subscribe/confirm: lookup, then UPDATE                            *)

\* The address whose row holds a token: tokens are unique in the table.
Holds(e, t) == row[e].token = t
Expired(e) == today - row[e].updated > TTL

Confirm(r, t) ==
  /\ req[r] = Idle
  /\ confirmMail[t] = "sent"
  /\ clicked' = clicked \cup {t}
  /\ IF \E e \in Emails : Holds(e, t) /\ Pending(e) /\ ~Expired(e)
     THEN Continue(r, [pc |-> "update", token |-> t])
     ELSE UNCHANGED req       \* not found, already confirmed or expired
  /\ UNCHANGED <<tableVars, confirmMail, removed, notifyVars, tokens, today, faults>>

\* UPDATE ... WHERE token=$1 AND confirmed=false
\* Mutant: the row found by the lookup is updated by its address.
UpdatesByEmail(e, t) == (\E d \in Days : <<e, t, d>> \in issued) /\ Pending(e)
Updates(e, t) == Holds(e, t) /\ Pending(e)

\* Mutant: the token is used up, as if it served one link only.
ConfirmedConsumed(e) == [row[e] EXCEPT !.confirmed = TRUE, !.token = 0]
ConfirmedRow(e) == [row[e] EXCEPT !.confirmed = TRUE, !.updated = today]

ConfirmUpdate(r) ==
  /\ req[r].pc = "update"
  /\ \/ /\ row' = [e \in Emails |->
                     IF Updates(e, req[r].token) THEN ConfirmedRow(e) ELSE row[e]]
        /\ UNCHANGED faults
     \/ Fault /\ UNCHANGED row
  /\ Return(r)
  /\ UNCHANGED <<issued, confirmMail, historyVars, notifyVars, tokens, today>>

----------------------------------------------------------------------------
(* GET /v1/subscribe/unsubscribe: one DELETE                                 *)

\* Whoever has a mail with the token can follow its link.
Received(t) == confirmMail[t] = "sent" \/ \E e \in Emails : t \in newsletters[e]

Unsubscribe(t) ==
  /\ Received(t)
  /\ \E e \in Emails : Holds(e, t)
  /\ row' = [e \in Emails |-> IF Holds(e, t) THEN NoRow ELSE row[e]]
  /\ removed' = removed \cup {t}
  /\ UNCHANGED <<issued, req, confirmMail, clicked, notifyVars, tokens, today, faults>>

----------------------------------------------------------------------------
(* POST /v1/admin/subscribers/notify: QueueNotifyNewPost and its goroutine    *)

ConfirmedList == {<<e, row[e].token>> : e \in {x \in Emails : Confirmed(x)}}

QueueNotify(b) ==
  /\ batch[b] = NoBatch
  /\ ConfirmedList # {}
  /\ batch' = [batch EXCEPT ![b] = [pc |-> "list"]]
  /\ UNCHANGED <<tableVars, req, confirmMail, historyVars, newsletters, reports, tokens,
                 today, faults>>

\* The goroutine lists the subscribers again, once.
NotifyList(b) ==
  /\ batch[b].pc = "list"
  /\ \/ /\ batch' = [batch EXCEPT ![b] =
                      [pc |-> "send", todo |-> ConfirmedList,
                       total |-> Cardinality(ConfirmedList), sent |-> 0, failed |-> 0]]
        /\ UNCHANGED faults
     \/ Fault /\ batch' = [batch EXCEPT ![b] = NoBatch]
  /\ UNCHANGED <<tableVars, req, confirmMail, historyVars, newsletters, reports, tokens, today>>

\* One mail after the other, in any order; a failed one is counted and skipped.
\* Mutant: the failed mail is counted twice, its continue forgotten.
FailedNoContinue(b) == [b EXCEPT !.failed = @ + 1, !.sent = @ + 1]
FailedMail(b) == [b EXCEPT !.failed = @ + 1]

NotifySend(b, e, t) ==
  /\ batch[b].pc = "send" /\ <<e, t>> \in batch[b].todo
  /\ LET rest == [batch[b] EXCEPT !.todo = @ \ {<<e, t>>}]
     IN  \/ /\ newsletters' = [newsletters EXCEPT ![e] = @ \cup {t}]
            /\ batch' = [batch EXCEPT ![b] = [rest EXCEPT !.sent = @ + 1]]
            /\ UNCHANGED faults
         \/ /\ Fault
            /\ newsletters' \in {newsletters, [newsletters EXCEPT ![e] = @ \cup {t}]}
            /\ batch' = [batch EXCEPT ![b] = FailedMail(rest)]
  /\ UNCHANGED <<tableVars, req, confirmMail, historyVars, reports, tokens, today>>

\* The report is written when a post id was given; the post may be gone or the
\* ten minutes over, and the error is only logged.
NotifyRecord(b) ==
  /\ batch[b].pc = "send" /\ batch[b].todo = {}
  /\ reports' \in {reports, reports \cup
       {[total |-> batch[b].total, sent |-> batch[b].sent, failed |-> batch[b].failed]}}
  /\ batch' = [batch EXCEPT ![b] = NoBatch]
  /\ UNCHANGED <<tableVars, req, confirmMail, historyVars, newsletters, tokens, today, faults>>

----------------------------------------------------------------------------
(* The environment                                                           *)

NextDay ==
  /\ today < MaxDay
  /\ today' = today + 1
  /\ UNCHANGED <<tableVars, req, confirmMail, historyVars, notifyVars, tokens, faults>>

\* The process dies: requests, queued mails and notifications with it.
Crash ==
  /\ Fault
  /\ req' = [r \in Requests |-> Idle]
  /\ confirmMail' = [t \in Tokens |-> IF confirmMail[t] = "queued" THEN "failed"
                                      ELSE confirmMail[t]]
  /\ batch' = [b \in Notifiers |-> NoBatch]
  /\ UNCHANGED <<tableVars, historyVars, newsletters, reports, tokens, today>>

Next ==
  \/ \E r \in Requests, e \in Emails : Subscribe(r, e)
  \/ \E r \in Requests : Create(r) \/ ConfirmUpdate(r)
  \/ \E r \in Requests, t \in Tokens : Confirm(r, t)
  \/ \E t \in Tokens : SendConfirmation(t) \/ Unsubscribe(t)
  \/ \E b \in Notifiers : QueueNotify(b) \/ NotifyList(b) \/ NotifyRecord(b)
  \/ \E b \in Notifiers, e \in Emails, t \in Tokens : NotifySend(b, e, t)
  \/ NextDay \/ Crash

Spec == Init /\ [][Next]_vars

----------------------------------------------------------------------------
(* Properties                                                                *)

\* Double opt-in: a subscription counts only when the link that carries its
\* row's very token was followed, and mailed to that address before; a
\* resubscription or an unsubscription that slips between Confirm's lookup and
\* its UPDATE does not break this.
DoubleOptIn ==
  \A e \in Emails : Confirmed(e) =>
    /\ row[e].token \in clicked
    /\ confirmMail[row[e].token] = "sent"
    /\ \E d \in Days : <<e, row[e].token, d>> \in issued

\* The token of a confirmed row is out in newsletters: the row stays confirmed
\* with that token until the token unsubscribes it.  A submission that was under
\* way, or that failed to read the row, still rewrites its name and updated_at,
\* and nothing else; no other step touches the row.
ConfirmedIsStable ==
  [][ \A e \in Emails : Confirmed(e) =>
        \/ row'[e] = NoRow /\ row[e].token \in removed'
        \/ row'[e] = row[e]
        \/ /\ row'[e] = [row[e] EXCEPT !.name = tokens', !.updated = today]
           /\ \E r \in Requests :
                req[r].pc = "create" /\ req[r].email = e /\ req'[r] = Idle ]_vars

\* "This link expires in 7 days": a link cannot start a confirmation once TTL
\* days have passed since its token was made, however often the address was
\* submitted again in between.
LinkExpires ==
  [][ \A r \in Requests :
        req[r] = Idle /\ req'[r].pc = "update"
          => \A e \in Emails, d \in Days :
               <<e, req'[r].token, d>> \in issued => today - d <= TTL ]_vars

\* The unsubscribe link of every newsletter works until it is used.
UnsubscribeLinksWork ==
  \A e \in Emails : \A t \in newsletters[e] : Holds(e, t) \/ t \in removed

\* A pending address has, or is about to get, a mail with the link that works;
\* older links died with the token they carried.
PendingHasLink ==
  faults = 0 =>
    \A e \in Emails : Pending(e) => confirmMail[row[e].token] \in {"queued", "sent"}

\* A notification report accounts for every subscriber of its batch.
ReportsAddUp == \A r \in reports : r.total = r.sent + r.failed

\* "Sends a new-post email to all confirmed subscribers": a newsletter goes out
\* only to an address that is subscribed at that moment.
OnlyConfirmedNotified ==
  [][ \A e \in Emails : newsletters'[e] # newsletters[e] => Confirmed(e) ]_vars
=============================================================================
