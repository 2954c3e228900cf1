-------------------------- MODULE SubscribersProofs --------------------------
(****************************************************************************)
(* Theorems about Subscribers for every set of addresses, every number of    *)
(* concurrent requests and notifications, and any faults.                    *)
(****************************************************************************)
EXTENDS Subscribers, FiniteSetTheorems, TLAPS

----------------------------------------------------------------------------
(* Types, and the count a notification keeps                                 *)

\* A running notification has counted every address it has dealt with.
Accounts ==
  \A b \in Notifiers : batch[b].pc = "send" =>
    /\ IsFiniteSet(batch[b].todo)
    /\ batch[b].total = batch[b].sent + batch[b].failed + Cardinality(batch[b].todo)

Sending == [pc : {"send"}, todo : SUBSET (Emails \X Tokens),
            total : Counts, sent : Counts, failed : Counts]

\* A row is the empty one or has a token of its own and a date.
LEMMA RowShape ==
  ASSUME TypeOK, NEW e \in Emails
  PROVE  /\ row[e] = NoRow \/ row[e] \in Rows
         /\ row[e].confirmed \in BOOLEAN
         /\ row[e].token \in Nat /\ row[e].updated \in Nat
         /\ row[e] # NoRow => row[e].token \in Tokens /\ row[e].updated \in Days
         /\ Confirmed(e) => row[e].token \in Tokens
<1>1. row[e] = NoRow \/ row[e] \in Rows
  BY DEF TypeOK
<1>2. CASE row[e] = NoRow
  <2>1. row[e].confirmed \in BOOLEAN /\ row[e].token \in Nat /\ row[e].updated \in Nat
    BY <1>2 DEF NoRow
  <2>2. ~Confirmed(e)
    BY <1>2 DEF Confirmed
  <2>3. QED
    BY <1>2, <2>1, <2>2
<1>3. CASE row[e] \in Rows
  <2>1. /\ row[e].confirmed \in BOOLEAN
        /\ row[e].token \in Tokens
        /\ row[e].updated \in Days
    BY <1>3 DEF Rows
  <2>2. row[e].token \in Nat /\ row[e].updated \in Nat
    BY <2>1, SubscriberBounds DEF Tokens, Days
  <2>3. QED
    BY <1>3, <2>1, <2>2
<1>4. QED
  BY <1>1, <1>2, <1>3

\* What the upsert leaves is a row.
LEMMA UpsertedTyped ==
  ASSUME TypeOK, NEW e \in Emails, NEW t \in Tokens
  PROVE  Upserted(e, t) \in Rows
<1>1. Confirmed(e) \in BOOLEAN
  BY RowShape DEF Confirmed
<1>2. (IF Confirmed(e) THEN row[e].token ELSE t) \in Tokens
  BY RowShape
<1>3. today \in Days
  BY DEF TypeOK
<1>4. QED
  BY <1>1, <1>2, <1>3 DEF Upserted, Rows

\* What it leaves of a confirmed row: all but the name and the date.
LEMMA UpsertedConfirmed ==
  ASSUME TypeOK, NEW e \in Emails, NEW t \in Tokens, Confirmed(e)
  PROVE  Upserted(e, t) = [row[e] EXCEPT !.name = t, !.updated = today]
<1> DEFINE new == Upserted(e, t)
           old == row[e]
<1>1. new \in Rows
  BY UpsertedTyped
<1>2. old \in Rows /\ old.confirmed
  BY RowShape DEF Confirmed
<1>3. new.token = old.token /\ new.name = t /\ new.updated = today /\ new.confirmed
  BY DEF Upserted
<1> HIDE DEF new, old
<1>4. new = [old EXCEPT !.name = t, !.updated = today]
  BY <1>1, <1>2, <1>3 DEF Rows
<1>5. QED
  BY <1>4 DEF new, old

\* The confirmed list is finite, typed, and not longer than the address book.
LEMMA ConfirmedListCount ==
  ASSUME TypeOK
  PROVE  /\ ConfirmedList \in SUBSET (Emails \X Tokens)
         /\ IsFiniteSet(ConfirmedList)
         /\ Cardinality(ConfirmedList) \in Counts
<1> DEFINE f == [x \in ConfirmedList |-> x[1]]
<1>1. ConfirmedList \in SUBSET (Emails \X Tokens)
  BY RowShape DEF ConfirmedList
<1>2. f \in [ConfirmedList -> Emails]
  BY <1>1
<1>3. ASSUME NEW x \in ConfirmedList, NEW y \in ConfirmedList, f[x] = f[y]
      PROVE  x = y
  BY <1>3 DEF ConfirmedList
<1>4. f \in Injection(ConfirmedList, Emails)
  BY <1>2, <1>3 DEF Injection, IsInjective
<1>5. IsFiniteSet(ConfirmedList) /\ Cardinality(ConfirmedList) <= Cardinality(Emails)
  BY <1>4, EmailsFinite, FS_Injection
<1>6. Cardinality(ConfirmedList) \in Nat /\ Cardinality(Emails) \in Nat
  BY <1>5, EmailsFinite, FS_CardinalityType
<1>7. QED
  BY <1>1, <1>5, <1>6 DEF Counts

\* A batch in state "send" is a record of that kind.
LEMMA SendingShape ==
  ASSUME TypeOK, NEW b \in Notifiers, batch[b].pc = "send"
  PROVE  batch[b] \in Sending
  BY DEF TypeOK, BatchStates, NoBatch, Sending

LEMMA TypeInit == Init => TypeOK /\ Accounts /\ ReportsAddUp
  BY SubscriberBounds
  DEF Init, TypeOK, Accounts, ReportsAddUp, ReqStates, BatchStates, Idle, NoBatch, Days

LEMMA TypeStep ==
  TypeOK /\ Accounts /\ ReportsAddUp /\ [Next]_vars
    => TypeOK' /\ Accounts' /\ ReportsAddUp'
<1> SUFFICES ASSUME TypeOK, Accounts, ReportsAddUp, [Next]_vars
             PROVE  TypeOK' /\ Accounts' /\ ReportsAddUp'
  OBVIOUS
<1> USE SubscriberBounds
<1> DEFINE Good == TypeOK' /\ Accounts' /\ ReportsAddUp'
<1>1. ASSUME NEW r \in Requests, NEW e \in Emails, Subscribe(r, e) PROVE Good
  <2>1. req' \in [Requests -> ReqStates]
    <3>1. PICK flag \in BOOLEAN :
            req' = [req EXCEPT ![r] = [pc |-> "create", email |-> e, wasPending |-> flag]]
      <4>1. Pending(e) \in BOOLEAN
        BY RowShape DEF Pending
      <4>2. QED
        BY <1>1, <4>1 DEF Subscribe, Continue
    <3>2. [pc |-> "create", email |-> e, wasPending |-> flag] \in ReqStates
      BY DEF ReqStates
    <3>3. QED
      BY <3>1, <3>2 DEF TypeOK
  <2>2. QED
    BY <1>1, <2>1 DEF Subscribe, Fault, TypeOK, Accounts, ReportsAddUp,
                      tableVars, historyVars, notifyVars
<1>2. ASSUME NEW r \in Requests, Create(r) PROVE Good
  <2> DEFINE e == req[r].email
             t == tokens + 1
  <2>1. e \in Emails
    BY <1>2 DEF Create, TypeOK, ReqStates, Idle
  <2>2. t \in Tokens /\ t \in 0..MaxTokens
    BY <1>2 DEF Create, TypeOK, Tokens
  <2>3. Upserted(e, t) \in Rows
    BY <2>1, <2>2, UpsertedTyped
  <2>4. row' \in [Emails -> Rows \cup {NoRow}]
    BY <1>2, <2>3 DEF Create, TypeOK, tableVars
  <2>5. issued' \in SUBSET (Emails \X Tokens \X Days)
    BY <1>2, <2>1, <2>2 DEF Create, TypeOK, tableVars
  <2>6. confirmMail' \in [Tokens -> {"none", "queued", "sent", "failed"}]
    BY <1>2 DEF Create, QueueMail, TypeOK
  <2>7. req' \in [Requests -> ReqStates]
    BY <1>2 DEF Create, Return, Continue, TypeOK, ReqStates
  <2>8. QED
    BY <1>2, <2>2, <2>4, <2>5, <2>6, <2>7
    DEF Create, Fault, TypeOK, Accounts, ReportsAddUp, historyVars, notifyVars
<1>3. ASSUME NEW r \in Requests, ConfirmUpdate(r) PROVE Good
  <2>1. ASSUME NEW e \in Emails, Updates(e, req[r].token)
        PROVE  ConfirmedRow(e) \in Rows
    BY <2>1, RowShape DEF Updates, Pending, ConfirmedRow, Rows, TypeOK
  <2>2. row' \in [Emails -> Rows \cup {NoRow}]
    BY <1>3, <2>1 DEF ConfirmUpdate, TypeOK
  <2>3. req' \in [Requests -> ReqStates]
    BY <1>3 DEF ConfirmUpdate, Return, Continue, TypeOK, ReqStates
  <2>4. QED
    BY <1>3, <2>2, <2>3 DEF ConfirmUpdate, Fault, TypeOK, Accounts, ReportsAddUp,
                            historyVars, notifyVars
<1>4. ASSUME NEW r \in Requests, NEW t \in Tokens, Confirm(r, t) PROVE Good
  <2>1. req' \in [Requests -> ReqStates]
    BY <1>4 DEF Confirm, Continue, TypeOK, ReqStates
  <2>2. QED
    BY <1>4, <2>1 DEF Confirm, TypeOK, Accounts, ReportsAddUp, tableVars, notifyVars
<1>5. ASSUME NEW t \in Tokens, SendConfirmation(t) PROVE Good
  BY <1>5 DEF SendConfirmation, Fault, TypeOK, Accounts, ReportsAddUp,
              tableVars, historyVars, notifyVars
<1>6. ASSUME NEW t \in Tokens, Unsubscribe(t) PROVE Good
  BY <1>6 DEF Unsubscribe, TypeOK, Accounts, ReportsAddUp, notifyVars
<1>7. ASSUME NEW b \in Notifiers, QueueNotify(b) PROVE Good
  <2>1. batch' \in [Notifiers -> BatchStates]
    BY <1>7 DEF QueueNotify, TypeOK, BatchStates
  <2>2. Accounts'
    BY <1>7 DEF QueueNotify, Accounts, TypeOK
  <2>3. QED
    BY <1>7, <2>1, <2>2 DEF QueueNotify, TypeOK, ReportsAddUp, tableVars, historyVars
<1>8. ASSUME NEW b \in Notifiers, NotifyList(b) PROVE Good
  <2> DEFINE full == [pc |-> "send", todo |-> ConfirmedList,
                      total |-> Cardinality(ConfirmedList), sent |-> 0, failed |-> 0]
  <2>1. full \in Sending
    BY ConfirmedListCount, FS_CardinalityType, EmailsFinite DEF Sending, Counts
  <2>2. batch' = [batch EXCEPT ![b] = full] \/ batch' = [batch EXCEPT ![b] = NoBatch]
    BY <1>8 DEF NotifyList
  <2>3. batch' \in [Notifiers -> BatchStates]
    BY <2>1, <2>2 DEF TypeOK, BatchStates, Sending
  <2>4. Accounts'
    <3>1. ASSUME NEW c \in Notifiers, batch'[c].pc = "send"
          PROVE  /\ IsFiniteSet(batch'[c].todo)
                 /\ batch'[c].total = batch'[c].sent + batch'[c].failed
                                        + Cardinality(batch'[c].todo)
      <4>1. CASE c = b
        BY <2>2, <3>1, <4>1, ConfirmedListCount DEF TypeOK, NoBatch, Counts
      <4>2. CASE c # b
        BY <2>2, <3>1, <4>2 DEF TypeOK, Accounts
      <4>3. QED
        BY <4>1, <4>2
    <3>2. QED
      BY <3>1 DEF Accounts
  <2>5. QED
    BY <1>8, <2>3, <2>4 DEF NotifyList, Fault, TypeOK, ReportsAddUp, tableVars, historyVars
<1>9. ASSUME NEW b \in Notifiers, NEW e \in Emails, NEW t \in Tokens, NotifySend(b, e, t)
      PROVE  Good
  <2> DEFINE rest == [batch[b] EXCEPT !.todo = @ \ {<<e, t>>}]
  <2>1. batch[b] \in Sending /\ <<e, t>> \in batch[b].todo
    BY <1>9, SendingShape DEF NotifySend
  <2>2. \/ batch' = [batch EXCEPT ![b] = [rest EXCEPT !.sent = @ + 1]]
        \/ batch' = [batch EXCEPT ![b] = FailedMail(rest)]
    BY <1>9 DEF NotifySend
  <2>3. PICK new : /\ batch' = [batch EXCEPT ![b] = new]
                   /\ \/ new = [rest EXCEPT !.sent = @ + 1]
                      \/ new = [rest EXCEPT !.failed = @ + 1]
    BY <2>2 DEF FailedMail
  <2> DEFINE n == Cardinality(batch[b].todo)
  <2>4. /\ IsFiniteSet(batch[b].todo \ {<<e, t>>})
        /\ n \in Nat \ {0}
        /\ Cardinality(batch[b].todo \ {<<e, t>>}) = n - 1
    BY <1>9, <2>1, FS_RemoveElement, FS_CardinalityType, FS_EmptySet DEF Accounts, NotifySend
  <2>5. batch[b].total = batch[b].sent + batch[b].failed + n
    BY <1>9 DEF Accounts, NotifySend
  <2>6. /\ new.pc = "send"
        /\ new.todo = batch[b].todo \ {<<e, t>>}
        /\ new.total = batch[b].total
        /\ \/ new.sent = batch[b].sent + 1 /\ new.failed = batch[b].failed
           \/ new.sent = batch[b].sent /\ new.failed = batch[b].failed + 1
    BY <2>1, <2>3 DEF Sending
  <2>7. new \in Sending
    <3>1. batch[b].sent \in Counts /\ batch[b].failed \in Counts /\ batch[b].total \in Counts
      BY <2>1 DEF Sending
    <3>2. new.sent \in Counts /\ new.failed \in Counts
      <4>1. Cardinality(Emails) \in Nat
        BY FS_CardinalityType, EmailsFinite
      <4>2. n \in Nat \ {0}
        BY <2>4
      <4> HIDE DEF n
      <4>3. QED
        BY <2>5, <2>6, <3>1, <4>1, <4>2 DEF Counts
    <3>3. QED
      BY <2>1, <2>3, <2>6, <3>1, <3>2 DEF Sending
  <2>8. batch' \in [Notifiers -> BatchStates]
    BY <2>3, <2>7 DEF TypeOK, BatchStates, Sending
  <2>9. Accounts'
    <3>1. new.total = new.sent + new.failed + Cardinality(new.todo)
      <4>1. batch[b].sent \in Int /\ batch[b].failed \in Int
        BY <2>1, FS_CardinalityType, EmailsFinite DEF Sending, Counts
      <4>2. n \in Int /\ Cardinality(new.todo) = n - 1
        BY <2>4, <2>6
      <4> HIDE DEF n
      <4>3. QED
        BY <2>5, <2>6, <4>1, <4>2
    <3>2. \A c \in Notifiers : batch'[c] = IF c = b THEN new ELSE batch[c]
      BY <2>3 DEF TypeOK
    <3>3. QED
      BY <2>4, <2>6, <3>1, <3>2 DEF Accounts
  <2>10. newsletters' \in [Emails -> SUBSET Tokens]
    BY <1>9 DEF NotifySend, TypeOK
  <2>11. QED
    BY <1>9, <2>8, <2>9, <2>10 DEF NotifySend, Fault, TypeOK, ReportsAddUp,
                                   tableVars, historyVars
<1>10. ASSUME NEW b \in Notifiers, NotifyRecord(b) PROVE Good
  <2> DEFINE report == [total |-> batch[b].total, sent |-> batch[b].sent,
                        failed |-> batch[b].failed]
  <2>1. batch[b] \in Sending
    BY <1>10, SendingShape DEF NotifyRecord
  <2>2. report \in [total : Counts, sent : Counts, failed : Counts]
    BY <2>1 DEF Sending
  <2>3. report.total = report.sent + report.failed
    BY <1>10, <2>1, FS_EmptySet, FS_CardinalityType, EmailsFinite
    DEF NotifyRecord, Accounts, Sending, Counts
  <2>4. reports' = reports \/ reports' = reports \cup {report}
    BY <1>10 DEF NotifyRecord
  <2>5. ReportsAddUp'
    BY <2>3, <2>4 DEF ReportsAddUp
  <2>6. batch' \in [Notifiers -> BatchStates]
    BY <1>10 DEF NotifyRecord, TypeOK, BatchStates
  <2>7. Accounts'
    BY <1>10 DEF NotifyRecord, Accounts, TypeOK, NoBatch
  <2>8. QED
    BY <1>10, <2>2, <2>4, <2>5, <2>6, <2>7 DEF NotifyRecord, TypeOK, tableVars, historyVars
<1>11. ASSUME NextDay PROVE Good
  BY <1>11 DEF NextDay, TypeOK, Accounts, ReportsAddUp, Days, tableVars, historyVars, notifyVars
<1>12. ASSUME Crash PROVE Good
  BY <1>12 DEF Crash, Fault, TypeOK, Accounts, ReportsAddUp, ReqStates, BatchStates, Idle,
               NoBatch, tableVars, historyVars
<1>13. ASSUME UNCHANGED vars PROVE Good
  BY <1>13 DEF vars, TypeOK, Accounts, ReportsAddUp, tableVars, historyVars, notifyVars
<1>14. QED
  BY <1>1, <1>2, <1>3, <1>4, <1>5, <1>6, <1>7, <1>8, <1>9, <1>10, <1>11, <1>12, <1>13 DEF Next

\* Every reachable state is well typed: in particular a row that exists always
\* carries a token, which both of its links need.
THEOREM SubscribersTyped == Spec => []TypeOK
<1>1. Init => TypeOK /\ Accounts /\ ReportsAddUp
  BY TypeInit
<1>2. TypeOK /\ Accounts /\ ReportsAddUp /\ [Next]_vars
        => (TypeOK /\ Accounts /\ ReportsAddUp)'
  BY TypeStep
<1>3. QED
  BY <1>1, <1>2, PTL DEF Spec

\* A notification report accounts for every subscriber of its batch.
THEOREM ReportsAreComplete == Spec => []ReportsAddUp
<1>1. Init => TypeOK /\ Accounts /\ ReportsAddUp
  BY TypeInit
<1>2. TypeOK /\ Accounts /\ ReportsAddUp /\ [Next]_vars
        => (TypeOK /\ Accounts /\ ReportsAddUp)'
  BY TypeStep
<1>3. QED
  BY <1>1, <1>2, PTL DEF Spec

----------------------------------------------------------------------------
(* Consent                                                                   *)

\* Tokens not generated yet are in nobody's mailbox and in no row.
Fresh ==
  /\ \A t \in Tokens : confirmMail[t] # "none" => t <= tokens
  /\ \A e \in Emails, t \in Tokens, d \in Days : <<e, t, d>> \in issued => t <= tokens

\* A request about to confirm was started by a mailed link.
Followed ==
  \A r \in Requests : req[r].pc = "update" =>
    req[r].token \in clicked /\ confirmMail[req[r].token] = "sent"

\* Every row's token was issued to its address.
OwnToken == \A e \in Emails : row[e] # NoRow => \E d \in Days : <<e, row[e].token, d>> \in issued

\* A pending row is as old as its token.
AgeOfToken ==
  \A e, x \in Emails, d \in Days :
    Pending(e) /\ <<x, row[e].token, d>> \in issued => d = row[e].updated

Consent == Fresh /\ Followed /\ OwnToken /\ AgeOfToken /\ DoubleOptIn

LEMMA ConsentInit == Init => Consent
  BY SubscriberBounds
  DEF Init, Consent, Fresh, Followed, OwnToken, AgeOfToken, DoubleOptIn, Idle, Confirmed, Pending

\* Steps that leave the table, the requests and the mail alone keep it.
LEMMA ConsentFrame ==
  ASSUME Consent, UNCHANGED <<row, issued, req, confirmMail, clicked, tokens>>
  PROVE  Consent'
  BY DEF Consent, Fresh, Followed, OwnToken, AgeOfToken, DoubleOptIn, Confirmed, Pending

LEMMA ConsentStep == TypeOK /\ TypeOK' /\ Consent /\ [Next]_vars => Consent'
<1> SUFFICES ASSUME TypeOK, TypeOK', Consent, [Next]_vars
             PROVE  Consent'
  OBVIOUS
<1> USE SubscriberBounds
<1>1. ASSUME NEW r \in Requests, NEW e \in Emails, Subscribe(r, e) PROVE Consent'
  <2>1. UNCHANGED <<row, issued, confirmMail, clicked, tokens>>
    BY <1>1 DEF Subscribe, tableVars, historyVars
  <2>2. \A q \in Requests : req'[q].pc = "update" => req'[q] = req[q]
    BY <1>1 DEF Subscribe, Continue, TypeOK
  <2>3. Followed'
    BY <2>1, <2>2 DEF Followed, Consent
  <2>4. QED
    BY <2>1, <2>3 DEF Consent, Fresh, OwnToken, AgeOfToken, DoubleOptIn, Confirmed, Pending
<1>2. ASSUME NEW r \in Requests, Create(r) PROVE Consent'
  <2> DEFINE a == req[r].email
             t == tokens + 1
  <2>1. /\ a \in Emails /\ t \in Tokens /\ tokens \in Nat
        /\ tokens' = t /\ clicked' = clicked
    BY <1>2 DEF Create, TypeOK, ReqStates, Idle, Tokens, historyVars
  <2>2. \/ UNCHANGED <<row, issued, confirmMail>>
        \/ /\ row' = [row EXCEPT ![a] = Upserted(a, t)]
           /\ issued' = IF Confirmed(a) THEN issued ELSE issued \cup {<<a, t, today>>}
           /\ \/ UNCHANGED confirmMail
              \/ ~Confirmed(a) /\ confirmMail' = [confirmMail EXCEPT ![t] = "queued"]
    <3>1. \/ /\ row' = [row EXCEPT ![a] = Upserted(a, t)]
             /\ issued' = IF Confirmed(a) THEN issued ELSE issued \cup {<<a, t, today>>}
             /\ \/ IF Confirmed(a) THEN UNCHANGED confirmMail ELSE QueueMail(r, t)
                \/ UNCHANGED confirmMail
          \/ UNCHANGED <<row, issued, confirmMail>>
      BY <1>2 DEF Create, tableVars
    <3> HIDE DEF a, t
    <3>2. CASE Confirmed(a)
      BY <3>1, <3>2
    <3>3. CASE ~Confirmed(a)
      BY <3>1, <3>3 DEF QueueMail
    <3>4. QED
      BY <3>2, <3>3
  <2>3. confirmMail[t] = "none"
    BY <2>1 DEF Consent, Fresh
  <2>4. \A x \in Tokens : x # t => confirmMail'[x] = confirmMail[x]
    BY <2>1, <2>2 DEF TypeOK
  <2>5. issued \subseteq issued' /\ issued' \subseteq issued \cup {<<a, t, today>>}
    BY <2>2
  <2>6. Fresh'
    <3>1. ASSUME NEW x \in Tokens, confirmMail'[x] # "none" PROVE x <= tokens'
      BY <2>1, <2>4, <3>1 DEF Consent, Fresh, Tokens
    <3>2. ASSUME NEW e \in Emails, NEW x \in Tokens, NEW d \in Days, <<e, x, d>> \in issued'
          PROVE  x <= tokens'
      BY <2>1, <2>5, <3>2 DEF Consent, Fresh, Tokens
    <3>3. QED
      BY <3>1, <3>2 DEF Fresh
  <2>7. Followed'
    <3>1. \A q \in Requests : req'[q].pc = "update" => req'[q] = req[q]
      BY <1>2 DEF Create, Return, Continue, Idle, TypeOK
    <3>2. \A q \in Requests : req[q].pc = "update" => req[q].token \in Tokens
      BY DEF TypeOK, ReqStates, Idle
    <3>3. ASSUME NEW q \in Requests, req'[q].pc = "update"
          PROVE  req'[q].token \in clicked' /\ confirmMail'[req'[q].token] = "sent"
      <4>1. req'[q] = req[q] /\ req[q].token \in Tokens
        BY <3>1, <3>2, <3>3
      <4>2. req[q].token \in clicked /\ confirmMail[req[q].token] = "sent"
        BY <3>3, <4>1 DEF Consent, Followed
      <4>3. QED
        BY <2>1, <2>3, <2>4, <4>1, <4>2
    <3>4. QED
      BY <3>3 DEF Followed
  \* A row is what it was, or the address's new pending row.
  <2>8. ASSUME NEW e \in Emails
        PROVE  \/ row'[e] = row[e]
               \/ /\ Confirmed(e) /\ row'[e].token = row[e].token
                  /\ row'[e].confirmed /\ row'[e] # NoRow
               \/ /\ ~Confirmed(e) /\ row'[e].token = t /\ ~row'[e].confirmed
                  /\ row'[e].updated = today /\ <<e, t, today>> \in issued'
    <3>1. CASE row'[e] = row[e]
      BY <3>1
    <3>2. CASE row'[e] # row[e]
      <4>1. /\ e = a /\ row'[e] = Upserted(e, t)
            /\ issued' = IF Confirmed(e) THEN issued ELSE issued \cup {<<e, t, today>>}
        BY <2>1, <2>2, <3>2 DEF TypeOK
      <4>2. CASE Confirmed(e)
        <5>1. row'[e].token = row[e].token /\ row'[e].confirmed
          BY <4>1, <4>2 DEF Upserted
        <5>2. row'[e] # NoRow
          BY <5>1 DEF NoRow
        <5>3. QED
          BY <4>2, <5>1, <5>2
      <4>3. CASE ~Confirmed(e)
        <5>1. row'[e].token = t /\ ~row'[e].confirmed /\ row'[e].updated = today
          BY <4>1, <4>3 DEF Upserted
        <5>2. QED
          BY <4>1, <4>3, <5>1
      <4>4. QED
        BY <4>2, <4>3
    <3>3. QED
      BY <3>1, <3>2
  <2>9. OwnToken'
    <3>1. ASSUME NEW e \in Emails, row'[e] # NoRow
          PROVE  \E d \in Days : <<e, row'[e].token, d>> \in issued'
      <4>1. today \in Days
        BY DEF TypeOK
      <4>2. Confirmed(e) => row[e] # NoRow
        BY DEF Confirmed
      <4>3. QED
        BY <2>5, <2>8, <3>1, <4>1, <4>2 DEF Consent, OwnToken
    <3>2. QED
      BY <3>1 DEF OwnToken
  <2>10. AgeOfToken'
    <3>1. ASSUME NEW e \in Emails, NEW x \in Emails, NEW d \in Days,
                 row'[e] # NoRow, ~row'[e].confirmed, <<x, row'[e].token, d>> \in issued'
          PROVE  d = row'[e].updated
      <4>1. CASE row'[e] = row[e]
        <5>1. row[e].token \in Tokens /\ row[e].token <= tokens
          BY <3>1, <4>1, RowShape DEF Consent, OwnToken, Fresh
        <5>2. <<x, row[e].token, d>> \in issued
          BY <2>1, <2>5, <3>1, <4>1, <5>1 DEF Tokens
        <5>3. QED
          BY <3>1, <4>1, <5>2 DEF Consent, AgeOfToken, Pending
      <4>2. CASE row'[e] # row[e]
        <5>1. row'[e].token = t /\ row'[e].updated = today
          BY <2>8, <3>1, <4>2
        <5>2. <<x, t, d>> \notin issued
          BY <2>1 DEF Consent, Fresh
        <5>3. QED
          BY <2>5, <3>1, <5>1, <5>2
      <4>3. QED
        BY <4>1, <4>2
    <3>2. QED
      BY <3>1 DEF AgeOfToken, Pending
  <2>11. DoubleOptIn'
    <3>1. ASSUME NEW e \in Emails, row'[e] # NoRow, row'[e].confirmed
          PROVE  /\ row'[e].token \in clicked'
                 /\ confirmMail'[row'[e].token] = "sent"
                 /\ \E d \in Days : <<e, row'[e].token, d>> \in issued'
      <4>1. Confirmed(e) /\ row'[e].token = row[e].token
        BY <2>8, <3>1 DEF Confirmed
      <4>2. row[e].token \in Tokens
        BY <4>1, RowShape
      <4>3. row[e].token \in clicked /\ confirmMail[row[e].token] = "sent"
        BY <4>1 DEF Consent, DoubleOptIn
      <4>4. QED
        BY <2>1, <2>3, <2>4, <2>9, <3>1, <4>1, <4>2, <4>3 DEF OwnToken
    <3>2. QED
      BY <3>1 DEF DoubleOptIn, Confirmed
  <2>12. QED
    BY <2>6, <2>7, <2>9, <2>10, <2>11 DEF Consent
<1>3. ASSUME NEW r \in Requests, ConfirmUpdate(r) PROVE Consent'
  <2>1. /\ UNCHANGED <<issued, confirmMail, clicked, tokens>>
        /\ req[r].pc = "update"
    BY <1>3 DEF ConfirmUpdate, historyVars
  <2>2. \A q \in Requests : req'[q].pc = "update" => req'[q] = req[q]
    BY <1>3 DEF ConfirmUpdate, Return, Continue, Idle, TypeOK
  <2>3. ASSUME NEW e \in Emails
        PROVE  \/ row'[e] = row[e]
               \/ /\ row[e] # NoRow /\ row[e].token = req[r].token
                  /\ row'[e].token = row[e].token /\ row'[e].confirmed
    <3>1. CASE row'[e] = row[e]
      BY <3>1
    <3>2. CASE row'[e] # row[e]
      <4>1. Updates(e, req[r].token) /\ row'[e] = ConfirmedRow(e)
        BY <1>3, <3>2 DEF ConfirmUpdate
      <4>2. row[e] # NoRow /\ row[e].token = req[r].token /\ row[e] \in Rows
        BY <4>1, RowShape DEF Updates, Holds, Pending
      <4>3. row'[e].token = row[e].token /\ row'[e].confirmed
        BY <4>1, <4>2 DEF ConfirmedRow, Rows
      <4>4. QED
        BY <4>2, <4>3
    <3>3. QED
      BY <3>1, <3>2
  <2>4. Fresh' /\ Followed'
    BY <2>1, <2>2 DEF Consent, Fresh, Followed
  <2>5. OwnToken'
    BY <2>1, <2>3 DEF Consent, OwnToken
  <2>6. AgeOfToken'
    <3>1. ASSUME NEW e \in Emails, Pending(e)' PROVE row'[e] = row[e] /\ Pending(e)
      BY <2>3, <3>1 DEF Pending
    <3>2. QED
      BY <2>1, <3>1 DEF Consent, AgeOfToken
  <2>7. DoubleOptIn'
    <3>1. ASSUME NEW e \in Emails, row'[e] # NoRow, row'[e].confirmed
          PROVE  row'[e].token \in clicked' /\ confirmMail'[row'[e].token] = "sent"
      <4>1. CASE row'[e] = row[e]
        BY <2>1, <3>1, <4>1 DEF Consent, DoubleOptIn, Confirmed
      <4>2. CASE row'[e] # row[e]
        BY <2>1, <2>3, <4>2 DEF Consent, Followed
      <4>3. QED
        BY <4>1, <4>2
    <3>2. QED
      BY <2>5, <3>1 DEF DoubleOptIn, OwnToken, Confirmed
  <2>8. QED
    BY <2>4, <2>5, <2>6, <2>7 DEF Consent
<1>4. ASSUME NEW r \in Requests, NEW t \in Tokens, Confirm(r, t) PROVE Consent'
  <2>1. /\ UNCHANGED <<row, issued, confirmMail, tokens>>
        /\ clicked \subseteq clicked' /\ t \in clicked' /\ confirmMail[t] = "sent"
    BY <1>4 DEF Confirm, tableVars
  <2>2. \A q \in Requests : req'[q].pc = "update" => req'[q] = req[q] \/ req'[q].token = t
    BY <1>4 DEF Confirm, Continue, TypeOK
  <2>3. Followed'
    BY <2>1, <2>2 DEF Followed, Consent
  <2>4. DoubleOptIn'
    BY <2>1 DEF Consent, DoubleOptIn, Confirmed
  <2>5. QED
    BY <2>1, <2>3, <2>4 DEF Consent, Fresh, OwnToken, AgeOfToken, Pending
<1>5. ASSUME NEW t \in Tokens, SendConfirmation(t) PROVE Consent'
  <2>1. /\ UNCHANGED <<row, issued, req, clicked, tokens>>
        /\ confirmMail[t] = "queued"
        /\ \A x \in Tokens : x # t => confirmMail'[x] = confirmMail[x]
    BY <1>5 DEF SendConfirmation, tableVars, historyVars, TypeOK
  <2>2. Fresh'
    BY <2>1 DEF Consent, Fresh
  <2>3. Followed'
    <3>1. \A q \in Requests : req[q].pc = "update" => req[q].token \in Tokens
      BY DEF TypeOK, ReqStates, Idle
    <3>2. QED
      BY <2>1, <3>1 DEF Consent, Followed
  <2>4. DoubleOptIn'
    BY <2>1, RowShape DEF Consent, DoubleOptIn, Confirmed
  <2>5. QED
    BY <2>1, <2>2, <2>3, <2>4 DEF Consent, OwnToken, AgeOfToken, Pending
<1>6. ASSUME NEW t \in Tokens, Unsubscribe(t) PROVE Consent'
  <2>1. UNCHANGED <<issued, req, confirmMail, clicked, tokens>>
    BY <1>6 DEF Unsubscribe
  <2>2. \A e \in Emails : row'[e] = row[e] \/ row'[e] = NoRow
    BY <1>6 DEF Unsubscribe
  <2>3. OwnToken' /\ AgeOfToken' /\ DoubleOptIn'
    BY <2>1, <2>2 DEF Consent, OwnToken, AgeOfToken, DoubleOptIn, Confirmed, Pending
  <2>4. QED
    BY <2>1, <2>3 DEF Consent, Fresh, Followed
<1>7. ASSUME NEW b \in Notifiers, QueueNotify(b) PROVE Consent'
  BY <1>7, ConsentFrame DEF QueueNotify, tableVars, historyVars
<1>8. ASSUME NEW b \in Notifiers, NotifyList(b) PROVE Consent'
  BY <1>8, ConsentFrame DEF NotifyList, tableVars, historyVars
<1>9. ASSUME NEW b \in Notifiers, NEW e \in Emails, NEW t \in Tokens, NotifySend(b, e, t)
      PROVE  Consent'
  BY <1>9, ConsentFrame DEF NotifySend, tableVars, historyVars
<1>10. ASSUME NEW b \in Notifiers, NotifyRecord(b) PROVE Consent'
  BY <1>10, ConsentFrame DEF NotifyRecord, tableVars, historyVars
<1>11. ASSUME NextDay PROVE Consent'
  BY <1>11, ConsentFrame DEF NextDay, tableVars, historyVars
<1>12. ASSUME Crash PROVE Consent'
  <2>1. /\ UNCHANGED <<row, issued, clicked, tokens>>
        /\ \A q \in Requests : req'[q] = Idle
        /\ \A t \in Tokens : confirmMail[t] # "queued" => confirmMail'[t] = confirmMail[t]
    BY <1>12 DEF Crash, tableVars, historyVars
  <2>2. Fresh'
    BY <2>1 DEF Consent, Fresh
  <2>3. Followed'
    BY <2>1 DEF Followed, Idle
  <2>4. DoubleOptIn'
    BY <2>1, RowShape DEF Consent, DoubleOptIn, Confirmed
  <2>5. QED
    BY <2>1, <2>2, <2>3, <2>4 DEF Consent, OwnToken, AgeOfToken, Pending
<1>13. ASSUME UNCHANGED vars PROVE Consent'
  BY <1>13, ConsentFrame DEF vars, tableVars, historyVars
<1>14. QED
  BY <1>1, <1>2, <1>3, <1>4, <1>5, <1>6, <1>7, <1>8, <1>9, <1>10, <1>11, <1>12, <1>13 DEF Next

\* Double opt-in, whatever resubscription, unsubscription, failure or restart
\* slips between the lookup and the UPDATE of Confirm.
THEOREM ConsentGiven == Spec => []DoubleOptIn
<1>1. Init => Consent
  BY ConsentInit
<1>2. TypeOK /\ TypeOK' /\ Consent /\ [Next]_vars => Consent'
  BY ConsentStep
<1>3. Consent => DoubleOptIn
  BY DEF Consent
<1>4. QED
  BY <1>1, <1>2, <1>3, SubscribersTyped, PTL DEF Spec

----------------------------------------------------------------------------
(* Links                                                                     *)

\* Whatever step is taken, a confirmed row stays as it is, is removed by its own
\* token, or takes a name and a date from a submission that comes to its end.
LEMMA ConfirmedRowFate ==
  ASSUME TypeOK, [Next]_vars, NEW e \in Emails, Confirmed(e)
  PROVE  \/ row'[e] = NoRow /\ row[e].token \in removed'
         \/ row'[e] = row[e]
         \/ /\ row'[e] = [row[e] EXCEPT !.name = tokens', !.updated = today]
            /\ \E r \in Requests :
                 req[r].pc = "create" /\ req[r].email = e /\ req'[r] = Idle
<1> DEFINE Fate == \/ row'[e] = NoRow /\ row[e].token \in removed'
                   \/ row'[e] = row[e]
                   \/ /\ row'[e] = [row[e] EXCEPT !.name = tokens', !.updated = today]
                      /\ \E r \in Requests :
                           req[r].pc = "create" /\ req[r].email = e /\ req'[r] = Idle
<1>1. ASSUME NEW r \in Requests, Create(r) PROVE Fate
  <2>1. row[e] \in Rows /\ row[e].confirmed = TRUE
    BY RowShape DEF Confirmed, Rows
  <2>2. req[r].pc = "create" /\ req'[r] = Idle /\ tokens' = tokens + 1
    BY <1>1 DEF Create, Return, Continue, TypeOK
  <2>3. \/ row'[e] = row[e]
        \/ req[r].email = e /\ row'[e] = Upserted(e, tokens + 1)
    BY <1>1 DEF Create, TypeOK, tableVars
  <2>4. Upserted(e, tokens + 1) = [row[e] EXCEPT !.name = tokens + 1, !.updated = today]
    <3>1. tokens + 1 \in Tokens
      BY <1>1, SubscriberBounds DEF Create, TypeOK, Tokens
    <3>2. QED
      BY <3>1, UpsertedConfirmed
  <2>5. QED
    BY <2>2, <2>3, <2>4
<1>2. ASSUME NEW r \in Requests, ConfirmUpdate(r) PROVE Fate
  BY <1>2 DEF ConfirmUpdate, Updates, Pending, Confirmed
<1>3. ASSUME NEW t \in Tokens, Unsubscribe(t) PROVE Fate
  <2>1. row'[e] = (IF Holds(e, t) THEN NoRow ELSE row[e]) /\ t \in removed'
    BY <1>3 DEF Unsubscribe
  <2>2. QED
    BY <2>1 DEF Holds
<1>4. ASSUME UNCHANGED row PROVE Fate
  BY <1>4
<1>5. QED
  BY <1>1, <1>2, <1>3, <1>4
  DEF Next, vars, tableVars, Subscribe, Confirm, SendConfirmation, QueueNotify, NotifyList,
      NotifySend, NotifyRecord, NextDay, Crash

LEMMA ConfirmedRowKept ==
  ASSUME TypeOK, [Next]_vars, NEW e \in Emails, Confirmed(e)
  PROVE  \/ row'[e].token = row[e].token /\ row'[e].confirmed /\ row'[e] # NoRow
         \/ row'[e] = NoRow /\ row[e].token \in removed'
<1>1. row[e] \in Rows /\ row[e].confirmed = TRUE /\ row[e] # NoRow
  BY RowShape DEF Confirmed, Rows
<1>2. ASSUME row'[e] = [row[e] EXCEPT !.name = tokens', !.updated = today]
      PROVE  row'[e].token = row[e].token /\ row'[e].confirmed /\ row'[e] # NoRow
  <2>1. row'[e].token = row[e].token /\ row'[e].confirmed = TRUE
    BY <1>1, <1>2 DEF Rows
  <2>2. NoRow.confirmed = FALSE
    BY DEF NoRow
  <2>3. QED
    BY <2>1, <2>2
<1>3. QED
  BY <1>1, <1>2, ConfirmedRowFate

LEMMA RemovedGrows == [Next]_vars => removed \subseteq removed'
<1> SUFFICES ASSUME [Next]_vars PROVE removed \subseteq removed'
  OBVIOUS
<1>1. ASSUME NEW t \in Tokens, Unsubscribe(t) PROVE removed \subseteq removed'
  BY <1>1 DEF Unsubscribe
<1>2. QED
  BY <1>1 DEF Next, vars, historyVars, Subscribe, Create, ConfirmUpdate, Confirm,
              SendConfirmation, QueueNotify, NotifyList, NotifySend, NotifyRecord, NextDay, Crash

\* A confirmed row stays confirmed with its token until that token unsubscribes
\* it; a submission that was under way rewrites its name and updated_at
\* (repository.go:36-39), and no other step touches it.
THEOREM ConfirmedRowsStable == Spec => ConfirmedIsStable
<1> DEFINE Stable ==
      \A e \in Emails : Confirmed(e) =>
        \/ row'[e] = NoRow /\ row[e].token \in removed'
        \/ row'[e] = row[e]
        \/ /\ row'[e] = [row[e] EXCEPT !.name = tokens', !.updated = today]
           /\ \E r \in Requests :
                req[r].pc = "create" /\ req[r].email = e /\ req'[r] = Idle
<1>1. TypeOK /\ [Next]_vars => [Stable]_vars
  BY ConfirmedRowFate
<1>2. QED
  BY <1>1, SubscribersTyped, PTL DEF Spec, ConfirmedIsStable

\* A token that unsubscribes its address, or has done so.
ActiveLink(e, t) == (Confirmed(e) /\ row[e].token = t) \/ t \in removed

Links ==
  /\ \A b \in Notifiers, e \in Emails, t \in Tokens :
       batch[b].pc = "send" /\ <<e, t>> \in batch[b].todo => ActiveLink(e, t)
  /\ \A e \in Emails, t \in Tokens : t \in newsletters[e] => ActiveLink(e, t)

LEMMA LinkKept ==
  ASSUME TypeOK, [Next]_vars, NEW e \in Emails, NEW t \in Tokens, ActiveLink(e, t)
  PROVE  ActiveLink(e, t)'
<1>1. CASE t \in removed
  BY <1>1, RemovedGrows DEF ActiveLink
<1>2. CASE Confirmed(e) /\ row[e].token = t
  BY <1>2, ConfirmedRowKept DEF ActiveLink, Confirmed
<1>3. QED
  BY <1>1, <1>2 DEF ActiveLink

LEMMA LinksInit == Init => Links
  BY DEF Init, Links, NoBatch

\* The mailboxes and the lists still to be mailed only change in the steps of
\* a notification.
LEMMA LinksStep == TypeOK /\ Links /\ [Next]_vars => Links'
<1> SUFFICES ASSUME TypeOK, Links, [Next]_vars PROVE Links'
  OBVIOUS
<1>1. ASSUME \A c \in Notifiers : batch'[c].pc = "send" => batch'[c] = batch[c],
             UNCHANGED newsletters
      PROVE  Links'
  BY <1>1, LinkKept DEF Links
<1>2. ASSUME NEW b \in Notifiers, QueueNotify(b) PROVE Links'
  BY <1>1, <1>2 DEF QueueNotify, TypeOK
<1>3. ASSUME NEW b \in Notifiers, NotifyList(b) PROVE Links'
  <2>1. /\ UNCHANGED newsletters
        /\ \A c \in Notifiers : c # b => batch'[c] = batch[c]
        /\ batch'[b].pc = "send" => batch'[b].todo = ConfirmedList
    BY <1>3 DEF NotifyList, NoBatch, TypeOK
  <2>2. \A e \in Emails, t \in Tokens : <<e, t>> \in ConfirmedList => ActiveLink(e, t)
    BY DEF ConfirmedList, ActiveLink
  <2>3. ASSUME NEW c \in Notifiers, NEW e \in Emails, NEW t \in Tokens,
               batch'[c].pc = "send", <<e, t>> \in batch'[c].todo
        PROVE  ActiveLink(e, t)
    <3>1. CASE c = b
      BY <2>1, <2>2, <2>3, <3>1
    <3>2. CASE c # b
      BY <2>1, <2>3, <3>2 DEF Links
    <3>3. QED
      BY <3>1, <3>2
  <2>4. QED
    BY <2>1, <2>3, LinkKept DEF Links
<1>4. ASSUME NEW b \in Notifiers, NEW a \in Emails, NEW m \in Tokens, NotifySend(b, a, m)
      PROVE  Links'
  <2>1. batch[b].pc = "send" /\ <<a, m>> \in batch[b].todo /\ batch[b] \in Sending
    BY <1>4, SendingShape DEF NotifySend
  <2>2. ActiveLink(a, m)
    BY <2>1 DEF Links
  <2>3. \A e \in Emails, t \in Tokens :
          t \in newsletters'[e] => t \in newsletters[e] \/ (e = a /\ t = m)
    BY <1>4 DEF NotifySend, TypeOK
  <2>4. /\ \A c \in Notifiers : c # b => batch'[c] = batch[c]
        /\ batch'[b].todo \subseteq batch[b].todo
    <3> DEFINE rest == [batch[b] EXCEPT !.todo = @ \ {<<a, m>>}]
    <3>1. PICK new : /\ batch' = [batch EXCEPT ![b] = new]
                     /\ \/ new = [rest EXCEPT !.sent = @ + 1]
                        \/ new = [rest EXCEPT !.failed = @ + 1]
      BY <1>4 DEF NotifySend, FailedMail
    <3>2. new.todo = batch[b].todo \ {<<a, m>>}
      BY <2>1, <3>1 DEF Sending
    <3>3. QED
      BY <3>1, <3>2 DEF TypeOK
  <2>5. ASSUME NEW c \in Notifiers, NEW e \in Emails, NEW t \in Tokens,
               batch'[c].pc = "send", <<e, t>> \in batch'[c].todo
        PROVE  ActiveLink(e, t)
    <3>1. CASE c = b
      BY <2>1, <2>4, <2>5, <3>1 DEF Links
    <3>2. CASE c # b
      BY <2>4, <2>5, <3>2 DEF Links
    <3>3. QED
      BY <3>1, <3>2
  <2>6. \A e \in Emails, t \in Tokens : t \in newsletters'[e] => ActiveLink(e, t)
    BY <2>2, <2>3 DEF Links
  <2>7. QED
    BY <2>5, <2>6, LinkKept DEF Links
<1>5. ASSUME NEW b \in Notifiers, NotifyRecord(b) PROVE Links'
  BY <1>1, <1>5 DEF NotifyRecord, NoBatch, TypeOK
<1>6. ASSUME Crash PROVE Links'
  BY <1>1, <1>6 DEF Crash, NoBatch
<1>7. ASSUME UNCHANGED <<batch, newsletters>> PROVE Links'
  BY <1>1, <1>7
<1>8. QED
  BY <1>2, <1>3, <1>4, <1>5, <1>6, <1>7
  DEF Next, vars, notifyVars, Subscribe, Create, ConfirmUpdate, Confirm, SendConfirmation,
      Unsubscribe, NextDay

\* The unsubscribe link of every newsletter ever mailed works until it is used,
\* although the batch that mails it works on an old list.
THEOREM UnsubscribeLinksAlwaysWork == Spec => []UnsubscribeLinksWork
<1>1. Init => Links
  BY LinksInit
<1>2. TypeOK /\ Links /\ [Next]_vars => Links'
  BY LinksStep
<1>3. TypeOK /\ Links => UnsubscribeLinksWork
  BY DEF TypeOK, Links, ActiveLink, UnsubscribeLinksWork, Holds
<1>4. QED
  BY <1>1, <1>2, <1>3, SubscribersTyped, PTL DEF Spec

\* A link cannot start a confirmation once TTL days have passed since its token
\* was made, however often the address was submitted again in between.
THEOREM LinksExpire == Spec => LinkExpires
<1> DEFINE Timely ==
      \A r \in Requests :
        req[r] = Idle /\ req'[r].pc = "update"
          => \A e \in Emails, d \in Days :
               <<e, req'[r].token, d>> \in issued => today - d <= TTL
<1>1. TypeOK /\ Consent /\ [Next]_vars => [Timely]_vars
  <2> SUFFICES ASSUME TypeOK, Consent, [Next]_vars, NEW r \in Requests,
                      req[r] = Idle, req'[r].pc = "update",
                      NEW e \in Emails, NEW d \in Days, <<e, req'[r].token, d>> \in issued
               PROVE  today - d <= TTL
    OBVIOUS
  <2>1. req[r].pc = "idle" /\ req'[r] # req[r]
    BY DEF Idle
  <2>2. PICK t \in Tokens : Confirm(r, t)
    <3>1. ASSUME NEW q \in Requests, NEW x \in Emails, Subscribe(q, x) PROVE FALSE
      BY <2>1, <3>1 DEF Subscribe, Continue, TypeOK
    <3>2. ASSUME NEW q \in Requests, Create(q) \/ ConfirmUpdate(q) PROVE FALSE
      BY <2>1, <3>2 DEF Create, ConfirmUpdate, Return, Continue, Idle, TypeOK
    <3>3. ASSUME Crash PROVE FALSE
      BY <2>1, <3>3 DEF Crash, Idle
    <3>4. ASSUME NEW q \in Requests, NEW t \in Tokens, Confirm(q, t) PROVE q = r
      BY <2>1, <3>4 DEF Confirm, Continue, TypeOK
    <3>5. QED
      BY <2>1, <3>1, <3>2, <3>3, <3>4
      DEF Next, vars, SendConfirmation, Unsubscribe, QueueNotify, NotifyList, NotifySend,
          NotifyRecord, NextDay
  <2>3. PICK x \in Emails : Holds(x, t) /\ Pending(x) /\ ~Expired(x) /\ req'[r].token = t
    BY <2>1, <2>2 DEF Confirm, Continue, TypeOK
  <2>4. d = row[x].updated
    BY <2>3 DEF Consent, AgeOfToken, Holds
  <2>5. today \in Int /\ d \in Int /\ TTL \in Int
    BY SubscriberBounds DEF TypeOK, Days
  <2>6. QED
    BY <2>3, <2>4, <2>5 DEF Expired
<1>2. Init => Consent
  BY ConsentInit
<1>3. TypeOK /\ TypeOK' /\ Consent /\ [Next]_vars => Consent'
  BY ConsentStep
<1>4. QED
  BY <1>1, <1>2, <1>3, SubscribersTyped, PTL DEF Spec, LinkExpires

----------------------------------------------------------------------------
(* Pending addresses                                                         *)

LEMMA PendingStep == TypeOK /\ PendingHasLink /\ [Next]_vars => PendingHasLink'
<1> SUFFICES ASSUME TypeOK, PendingHasLink, [Next]_vars, faults' = 0,
                    NEW e \in Emails, Pending(e)'
             PROVE  confirmMail'[row'[e].token] \in {"queued", "sent"}
  BY DEF PendingHasLink
<1> DEFINE Linked == confirmMail'[row'[e].token] \in {"queued", "sent"}
           Forward ==
             \A t \in Tokens :
               \/ confirmMail'[t] = confirmMail[t]
               \/ confirmMail[t] = "queued" /\ confirmMail'[t] = "sent"
<1>1. faults \in Nat /\ ~Fault
  BY SubscriberBounds DEF TypeOK, Fault
\* A row that was pending keeps the link it has.
<1>2. row'[e] = row[e] /\ faults' = faults /\ Forward => Linked
  <2> SUFFICES ASSUME row'[e] = row[e], faults' = faults, Forward PROVE Linked
    OBVIOUS
  <2>1. row[e].token \in Tokens /\ Pending(e)
    BY RowShape DEF Pending
  <2>2. confirmMail[row[e].token] \in {"queued", "sent"}
    BY <2>1 DEF PendingHasLink
  <2>3. QED
    BY <2>1, <2>2
<1>3. ASSUME NEW r \in Requests, Create(r)
      PROVE  Linked
  <2> DEFINE a == req[r].email
             t == tokens + 1
  <2>1. /\ a \in Emails /\ t \in Tokens
        /\ row' = [row EXCEPT ![a] = Upserted(a, t)]
        /\ IF Confirmed(a) THEN UNCHANGED confirmMail ELSE QueueMail(r, t)
        /\ UNCHANGED faults
    <3>1. a \in Emails /\ t \in Tokens
      <4>1. req[r].pc = "create" /\ req[r] \in ReqStates
        BY <1>3 DEF Create, TypeOK
      <4>2. a \in Emails
        BY <4>1 DEF ReqStates, Idle
      <4>3. t \in Tokens
        BY <1>3, SubscriberBounds DEF Create, TypeOK, Tokens
      <4>4. QED
        BY <4>2, <4>3
    <3>2. /\ row' = [row EXCEPT ![a] = Upserted(a, t)]
          /\ IF Confirmed(a) THEN UNCHANGED confirmMail ELSE QueueMail(r, t)
          /\ UNCHANGED faults
      BY <1>1, <1>3 DEF Create
    <3>3. QED
      BY <3>1, <3>2
  <2> HIDE DEF a, t
  <2>2. CASE e = a
    <3>1. row'[e] = Upserted(e, t)
      BY <2>1, <2>2 DEF TypeOK
    <3>2. ~Confirmed(e)
      BY <3>1 DEF Pending, Upserted
    <3>3. row'[e].token = t
      BY <3>1, <3>2 DEF Upserted
    <3>4. QED
      BY <2>1, <2>2, <3>2, <3>3 DEF QueueMail, TypeOK
  <2>3. CASE e # a
    <3>1. row'[e] = row[e] /\ row[e].token \in Tokens /\ Pending(e)
      BY <2>1, <2>3, RowShape DEF Pending, TypeOK
    <3>2. confirmMail[row[e].token] \in {"queued", "sent"}
      BY <2>1, <3>1 DEF PendingHasLink
    <3>3. CASE Confirmed(a)
      BY <2>1, <3>1, <3>2, <3>3
    <3>4. CASE ~Confirmed(a)
      BY <2>1, <3>1, <3>2, <3>4 DEF QueueMail, TypeOK
    <3>5. QED
      BY <3>3, <3>4
  <2>4. QED
    BY <2>2, <2>3
<1>4. ASSUME NEW r \in Requests, ConfirmUpdate(r)
      PROVE  Linked
  <2>1. UNCHANGED <<confirmMail, faults>>
    BY <1>1, <1>4 DEF ConfirmUpdate
  <2>2. row'[e] = row[e]
    <3>1. ASSUME Updates(e, req[r].token), row'[e] = ConfirmedRow(e) PROVE FALSE
      <4>1. row[e] \in Rows
        BY <3>1, RowShape DEF Updates, Pending
      <4>2. row'[e].confirmed
        BY <3>1, <4>1 DEF ConfirmedRow, Rows
      <4>3. QED
        BY <4>2 DEF Pending
    <3>2. QED
      BY <1>4, <3>1 DEF ConfirmUpdate
  <2>3. QED
    BY <1>2, <2>1, <2>2
<1>5. ASSUME NEW t \in Tokens, SendConfirmation(t)
      PROVE  Linked
  <2>1. /\ UNCHANGED <<row, faults>>
        /\ confirmMail[t] = "queued"
        /\ confirmMail' = [confirmMail EXCEPT ![t] = "sent"]
    BY <1>1, <1>5 DEF SendConfirmation, tableVars
  <2>2. QED
    BY <1>2, <2>1 DEF TypeOK
<1>6. ASSUME NEW t \in Tokens, Unsubscribe(t)
      PROVE  Linked
  <2>1. UNCHANGED <<confirmMail, faults>> /\ row'[e] = row[e]
    BY <1>6 DEF Unsubscribe, Pending
  <2>2. QED
    BY <1>2, <2>1
<1>7. ASSUME UNCHANGED <<row, confirmMail, faults>>
      PROVE  Linked
  BY <1>2, <1>7
<1>8. QED
  BY <1>1, <1>3, <1>4, <1>5, <1>6, <1>7
  DEF Next, vars, tableVars, Subscribe, Confirm, QueueNotify, NotifyList, NotifySend,
      NotifyRecord, NextDay, Crash

\* A pending address has, or is about to get, a mail with the link that works,
\* unless something failed.
THEOREM PendingAddressesHaveLinks == Spec => []PendingHasLink
<1>1. Init => PendingHasLink
  BY DEF Init, PendingHasLink, Pending
<1>2. TypeOK /\ PendingHasLink /\ [Next]_vars => PendingHasLink'
  BY PendingStep
<1>3. QED
  BY <1>1, <1>2, SubscribersTyped, PTL DEF Spec
=============================================================================
