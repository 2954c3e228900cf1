# A TLA+ development of krishblog-backend

This directory holds TLA+ models of the parts of the Go backend that keep state
across steps or share it between goroutines, requests and processes, TLC
configurations that check them, and proofs checked by TLAPS. The paths below
are relative to the repository root.

## 1. The system and its parts

One Go binary (`cmd/server/main.go`) serves an Echo HTTP API and runs one
background goroutine. It keeps its state in one Postgres and one Redis that all
processes of a deployment share; while a new instance is brought up
(`railway.toml`: health check, restart policy) an old and a new process overlap.

| Component | State it keeps | Operations | Interacts with | Hard behaviours | What makes it correct |
|---|---|---|---|---|---|
| Analytics pipeline, `internal/analytics` | Redis lists `analytics:queue`, `analytics:queue:dlq`; table `analytics_events` | `Enqueue` (three endpoints), `Processor.Run`/`flush`, `InsertEvent`; read-only admin queries | Redis, Postgres, lifecycle | check then push in two round trips; pop in two round trips; commands that fail, or run and lose their reply and are sent again; several processes; stops with a batch in memory | bounded queue, nothing inserted twice, every event off the queue has an outcome, bounded loss, the queue drains |
| Server lifecycle, `cmd/server/main.go` | life of the process, its clients, the processor's context | boot, signal, `cancelProcessor`, `Shutdown` with 15 s, deferred closes, exit | all | order of cancel, drain, close and exit; no goroutine is waited for | the final flush is what it says; what a stop costs is bounded |
| Subscribers, `internal/subscribers` | tables `subscribers`, `post_notifications`; mails | `Subscribe`, `Confirm`, `Unsubscribe`, `QueueNotifyNewPost`, `RecordNotification`, stats | Postgres, mail transport | several statements per request without a transaction; mails by goroutines nobody waits for; a list read once and used for minutes; links that expire | double opt-in, mailed unsubscribe links that keep working, expiry, reports that add up |
| Rate limiting, `internal/middleware/ratelimit.go`, `internal/database/redis.go` | one Redis counter per client address | `RateLimiter`, `StrictRateLimiter`, `IncrWithTTL` | Redis, every route group of `internal/api/router.go` | counter shared by groups with different bursts; expiry renewed by every hit; a pipeline that breaks in the middle | no group exceeds its burst in any window; a silent client is forgiven; the configured rate is granted |
| Authentication, `internal/auth`, `pkg/jwt`, `internal/middleware/auth.go` | users table; Redis keys of revoked refresh tokens | `Login`, `Refresh`, `Logout`, `Auth`, `RequireRole` | Redis, Ent | check and revoke of a refresh token in two steps with the error ignored; tokens that are equal when issued in one second | a refresh token works once; a logged-out token never again |
| Posts, `internal/posts` | table `posts` | list, get, `Create`, `Update`, `UpdateStatus`, `Delete` | sections, comments, analytics (foreign keys) | `Update` reads, merges and writes the whole row without a lock; slugs without a check; a date set on several ways | an edit undoes no more than it must, a published post has a date and keeps it, every post has a section |
| Sections, `internal/sections` | table `sections` | list, `Create`, `Update`, `Delete` | posts, Ent | slug check and statement are two; deletion against posts | a slug finds one section, none goes while posts are in it |
| Comments, `internal/comments` | table `comments` | create, list, moderate, reply, delete | posts | reply is lookup and `INSERT`; tree assembled from a map in random order; cascades | threads two levels deep; public readers see approved threads only and completely, admins see all |
| Analytics reports, `internal/analytics/repository.go` | none, reads `analytics_events` | `Overview`, `PostStats` | pipeline, posts | six queries without a transaction while events arrive and posts go | the devices and the uncut days of a report cover its total |
| Pagination, slugs, bot and device detection, `pkg/` | none | pure functions | handlers | offsets and counts at their bounds | pages show each row once |
| Database bootstrap, `internal/database/migrations.go`, `cmd/migrate` | schema | DDL at boot | Postgres | the keys and indexes everything else relies on | - |
| Ent builders, `ent/` | the mutation of a builder until `Save` | setters, increments, clears, edges, `Save`, delete of six entities | Postgres; sections and users use them | what a builder remembers is spread over several fields; several statements of one save; a save that fails and is repeated | what is saved is what was asked for, valid, and leaves other rows alone |
| Media, CSRF, health, configuration, logging, responses | none of their own | stubs, unrouted middleware, stateless formatting | - | - | - |

`PROJECT.json` lists the same components with their status, and, under
"hazards", each place where the code is hard to test with the properties that
watch it.

## 2. Modules

| Module | What it is |
|---|---|
| `AnalyticsPipeline` | the analytics queue, its producers, the processor goroutine and the process lifecycle |
| `AnalyticsLog` | the abstract log the pipeline implements: record, settle once and in order |
| `AnalyticsPipelineProofs` | theorems about `AnalyticsPipeline`, checked by TLAPS |
| `MCAnalyticsPipeline` | instances for TLC |
| `Subscribers`, `SubscribersProofs`, `MCSubscribers` | subscriptions, links, newsletters; their theorems; instances |
| `RateLimiter`, `RateLimiterProofs`, `MCRateLimiter` | the counter of one client address; its theorems; instances |
| `AuthSessions`, `AuthSessionsProofs`, `MCAuthSessions` | login, refresh, logout and the life of refresh tokens; their theorems; instances |
| `ContentTables`, `Sections`, `Posts`, `Pagination` | sections and posts as tables with requests in progress; pages as operators |
| `Content`, `ContentProofs`, `MCContent` | sections and posts composed over their foreign key and paged through; their theorems; instances |
| `ReaderTables`, `Comments`, `AnalyticsReport` | comments with their threads; stored events with the reports over them |
| `Readers`, `ReadersProofs`, `MCReaders` | comments and events composed with the posts they refer to; their theorems; instances |
| `EntSchema`, `EntMutation`, `EntStore` | the six entities as data, what a builder remembers, what a save does |
| `EntSchemaProofs` | lemmas about the six entities: what the generic operators rely on |
| `Ent`, `EntProofs`, `MCEnt` | a client of the builders over a small database; its theorems; instances |

### AnalyticsPipeline

The Redis list is only pushed on the right and only trimmed on the left, so its
content is always an interval of all pushes ever made: entries `head+1 .. tail`,
numbered by their `RPUSH`. An entry's payload matters only in whether Postgres
refuses it (a session id longer than its column, a country code of three letters, a
post that is gone by now), which any `Insert` may meet.

| Model | Code |
|---|---|
| `Accept`, `CheckDepth`, `Push` (`hpc`) | `Enqueue`: the request, `LLEN` and its comparison, `RPUSH`. An `LLEN` that fails reads as 0 |
| `Tick`, `CtxDone` (`ppc`, `final`) | the `select` of `Run`; both cases may be ready after a cancel, and either may be taken |
| `LRange`, `LTrim`, `Insert`, `DeadLetter`, `NextEntry` | `flush`, one action per round trip; `from`, `upto` and `cur` are the batch in memory and the place in the loop |
| `Boot`, `Signal`, `StopListening`, `Drained`, `CloseRedis`, `Exit`, `Forced`, `Crash` (`srv`) | `main`: the deferred closes in reverse order, an exit that waits for requests but not for the processor, a forced exit, a kill |
| `rows`, `dlq` | `analytics_events` and the dead letter list |
| `lost` | a history variable: entries that left the list and the process with neither row nor dead letter |

A command fails for sure on a cancelled context or a closed client; otherwise
its failure is a fault and counted against `MaxFaults`. A command that was executed
and lost its reply is a fault too, and the client library sends it again (go-redis
retries three times by default and `database/redis.go:21-27` does not say otherwise).
The models allow it to be sent again as often as there are faults left, with other
requests' steps in between: `Push` stays at "push" with one entry more on the list,
and `LTrim` waits at "resend", from where each further execution removes entries
nobody has read.

The two assumptions a reader should know: a batch has at least one entry, and a
cancelled command of the ticker flush is not sent again after the cancel.

### AnalyticsLog

What readers of `analytics_events` may rely on: events are recorded in one
order, settled oldest first, and settled once. Settling gives an event at most
one row and at most one dead letter; neither is the loss the code calls
best effort (`processor.go:94`). The refinement maps `settled` to the entries the
processor is past (`Past`).

### Subscribers

One row per address (`row`), whose token serves both the confirmation and the
unsubscribe link. A request is its sequence of statements: `Subscribe`
(`GetByEmail`), `Create` (the upsert and the start of the mail goroutine), `Confirm`
(lookup and expiry), `ConfirmUpdate` (the `UPDATE`), `Unsubscribe` (one `DELETE`).
`QueueNotify`, `NotifyList`, `NotifySend` and `NotifyRecord` are the notification
goroutine: the list is read once, mails go out one by one, the report is written at
the end or not at all. `confirmMail` and `newsletters` say which links are in whose
mailbox; a link can be followed only by who received it, and new tokens are fresh. A
submission's name is told apart by the number of its token (`name`), so that a row
shows whose submission wrote it last. A mail transport is configured (without one
the code logs the mail and reports success). `issued`, `clicked` and `removed` are
history.

### RateLimiter

One client address. `Count` is one execution of the pipeline of `INCR` and `EXPIRE`
with all its outcomes; without a reply it may be sent again, as often as there are
faults left, and time may pass before it is (`Unanswered`). `Decide` is the
comparison and the header, `Tick` the passing of time and the expiry of the key.
Time is cut into `Window` ticks per second-long window; `hits` and `admitted` are
histories: the number under an age says how many events are at most that old, so a
window's sum is one number of them. `rps` is a parameter the code never reads; the
constant `Rps` is mentioned by one property only.

### AuthSessions

A refresh token is a signed string over the user and whole seconds, so a token is
`<<user, second of issue>>`, and two issued in one second are one. `revoked[t]` is
the second in which the Redis key of `t` expires, at some moment of it: a lookup in
that second may find the key or not (`KeyMayBeThere`, `KeyMayBeGone`). A request
belongs to a browser (`Owner`) and is its sequence of round trips: `Login`,
`Password`, `Issue` for a login; `Refresh`, `Parse` (`ParseRefreshToken`, which looks
at the clock), `Lookup` (`Exists`, which may come seconds later), `Load`
(`User.Get`), `Rotate` (`Set`), `Issue` for a refresh; `Logout`, `Revoke` for a
logout; then `Answer`, which sets or clears the cookie, or `LoseAnswer`. The token
is that of the cookie or, from a client without one, any token of its user sent in
the body (`Presented`, after `extractRefreshToken`). A Redis error is "not revoked"
in `Lookup` and nothing at all in `Rotate` and `Revoke`, as in the code. `issued`,
`shared` (issued more than once, or sent in a body) and `exchanged` are history. The
access token has no state: its check in the middleware changes nothing, and a
logout it stops is a step without effect. Neither is the allowlist or the
password check modelled; a login with wrong credentials changes nothing either.

### Sections, Posts, Content

A table is a function from ids to rows, `Unused` before and `Deleted` after; a
request in progress is a record with the statement it is before (`sectionReq`,
`postReq`). `AskCreate`/`InsertSection` and `AskUpdate`/`UpdateSection` are
`assertSlugFree` and the statement behind it, `ReadForUpdate`/`WriteUpdate` are the
`GetByID` and the `UPDATE` of `posts.Update`, the rest is one statement each. A
refused or failed statement is `EndSectionRequest` or `EndPostRequest`: an error for
the client and no change. Unique indexes and the foreign key are guards of the
statements they guard (`SlugIndexAllows`, `PostSlugAllows`, `SectionKeyAllows`,
`InUse`), as the migrations create them. Of a section's columns other than the slug,
and of the text columns `posts.Update` coalesces alike, one stands for all.
`scheduled_at` is a column of its own, `scheduled`: the one that `posts.Update` does
not read before and writes as the request has it. `Lower`, `Generate` and `MakeSlug`
are constants: the properties need no more of them than their assumptions say, that
"" may come out.

`Pagination` is `Parse` and `NewMeta` with their integer width (`Wrap`); `Content`
checks it against the lists it pages through, for every order of the rows:
`LastPage` is the page a client reaches that follows `has_next`, and the list must
be cut into the pages before it without gap or overlap. `PageAssumption` says that
the number of posts is an int.

### Comments, AnalyticsReport, Readers

`FindParent`/`InsertReply` are the two halves of `AdminReply`. The lists are
assembled as in the code: a loop over the rows in an arbitrary order (`Threads`, a
recursive function over the iterations of a Go map), appending a copy of a node
(`Attach`) and refreshing the copies at the end (`Synced`). `Cascade` is `ON DELETE
CASCADE`, the least set closed under children.

An event is recorded by a request, of any type and naming any post or none, and
inserted later by the processor, which is the pipeline above seen from the table:
`InsertEvent`, or `LoseEvent` for a refused one. A report fixes its period and its
total (`StartReport`); what its later queries return is `BreakdownSum` and
`CurveSum`, evaluated in whatever state the table is in while the report runs.
`BreakdownSum` is that of the devices; referrers and countries are cut at ten groups
(`LIMIT`, `repository.go:236` and `:315`) and may add up to less. Two instants make
a day, so a period begins in the middle of one.

`Readers` adds the posts: `DeletePost` removes the comments and unlinks the events
in the one statement that does it.

### EntSchema, EntMutation, EntStore, Ent

The generated code repeats one pattern per entity and field. `EntSchema` holds
what differs: fields with their kinds, setters of the create and update builders,
defaults, validators, the columns of the statements, edges. `EntMutation` holds
what a builder remembers, one operator per kind of call, with the differences that
matter kept: `SetX` drops an increment but not a clear, `ResetField` does not
unlink, `ResetParent` leaves `cleared` alone, update builders reset a number
before they set it. `EntStore` is `Save`: defaults, check, and the statements
(row, children dropped, children added) in one transaction under the migrated
schema. A field is required or optional by its `presence`; a function is overridden
by another with `Joined` and `With`; what the statements on other tables write is a
set of `Cells` and a value (`Assigned`). Numbers are integers, and a row is never
the model value `Null` (`NullAssumption`). `Ent` is a client that opens any builder,
makes calls in any order, saves, fails, saves again, while rows are deleted. The
program itself uses the section and user builders; the others are generated and
unused but in the repository.

## 3. Runs

| Run | Instance | Shows |
|---|---|---|
| `analytics_one` | 1 process, 2 requests, limit 2, batch 2, 5 entries, 2 faults, 2 boots | `QueueBound`, `AtMostOneRow`, `Accounted`, `PopRemovesBatch`, `PopOwnership`; `LossBound`: a fault costs at most one batch, a stop two; `ImplementsLog`; `QueueDrains` under fairness |
| `analytics_overlap` (violation) | 2 processes, no fault | the pop is not one: two processes read the same batch and the second trim drops entries nobody read |
| `analytics_exit` (violation) | 1 process, no fault | the process ends with the final flush unfinished |
| `subscribers_optin` | 2 addresses, 2 requests, 1 batch, 3 tokens, 2 days, 1 fault | `DoubleOptIn`, `ConfirmedIsStable`, `UnsubscribeLinksWork`, `PendingHasLink`, `LinkExpires`, `ReportsAddUp` |
| `subscribers_stale_list` (violation) | 1 address, no fault | a newsletter to an address that has unsubscribed |
| `rate_bounds` | 2 requests, 2 groups with bursts 2 and 3, 5 hits on a key, 2 faults | `RateHolds`, `RetryAfterHonest` |
| `rate_sliding` (violation) | 1 group, rate 2, burst 3 | a client at the configured rate is turned away |
| `auth_sessions` | 1 user, 2 clients with one request each, lifetime 2, seconds 0 to 2, 1 fault | `RevokedStaysOut`, `ReuseBounded`, `RefusedForCause` |
| `auth_twin` (violation) | 1 request at a time, no fault | a refresh returns the token it has just revoked |
| `content` | 2 requests, 2 sections, 2 posts, one slug for both posts, 2 instants, one schedule, limits 1 and 2 | `PostsHaveSections`, `SlugsFindOne`, `PublishedDated`, `PagesTile`, `FirstDateKept`, `EditsMerge` |
| `readers` | 1 post, 3 comments, 1 reply at a time, 2 events, 3 instants, 1 report | `ThreadsAreFlat`, `PublicComplete`, `AdminComplete`, `EventsReferToPosts`, `PartsCoverTotal` |
| `ent` | six entities with two rows each, any two calls on a builder | `LastCallWins`, `ValidatorsHold`, `ChildrenStay` |

Every `TypeOK` is checked in the run of its component.

**Why the bounds suffice.** Five entries against a batch of two give full and
partial batches, a re-read after a full batch and a queue at its limit; they are one
more than what two faults, or one stop, may cost, so that `LossBound` can be broken,
and it is met with equality. Two boots give a restart on a list left behind; two
faults give a command that is executed three times, or a lost reply followed by
another failure. Three tokens give a resubscription of a resubscription; two
concurrent requests give every interleaving of an upsert with a confirmation; a
second address gives a batch that is partly sent when its list is no longer true; a
lifetime of zero days against two days gives a live and an expired link. A burst of
three in a window of two ticks lets a fixed window, unlike the sliding one, be
exceeded at its edge. Three seconds against a lifetime of two let a key expire
before, with or after its token, and a lookup come after the end of a token that was
parsed in time; two clients of one user are needed for a token to have two holders,
who then spend it at once.

Two requests over two sections and two posts are what a lost check or a lost update
takes; one slug for both posts makes them collide, an upper-case spelling is a
slug that lowering changes, a name without a letter one that generation leaves empty;
two instants tell a renewed date from the first. Two posts against limits of one and two give an
empty, a full, a partial and a second page, and an int of three lets the products of
page and limit come to its end. Three comments are the smallest thread that could be
three deep, and give every order of a parent with two replies; that a reply is on
its parent's post takes a second post to go wrong, which the run leaves to the
theorem. Two events on two days against a curve of one day are what cuts a curve
off. Two calls on a builder are every pair of set, add, clear, reset and edge call
on one field, which is where the mutation's parts can disagree; a save may fail
between and after them.

That more processes, requests, rows, events and batches change nothing is left to
the theorems below, which have no bounds.

Deadlock checking is off where processes may all be down with their boots used
up, or the bounds on tokens, days, ids or calls may be reached: the system really
may stop there. It is on for the rate limiter and the sessions. Symmetry is used
for interchangeable requests, ids and addresses in runs without liveness.

**Fairness** (`analytics_one`). Weak fairness of each request's and each
processor's steps: the Go scheduler runs every runnable goroutine, the ticker
keeps firing, and every command returns in the end (the drivers have timeouts).
Nothing obliges a visitor to send, a command to fail, an operator to signal or
the platform to boot, so none of those is fair; the property assumes that one
process stays up. The other components have no background goroutine that must
make progress: their requests may be abandoned at any statement.

**Disagreements with the documentation** are the five violation runs; each is a
"finding" in `PROJECT.json` with the line of the code and the line it contradicts.

## 4. Proofs

`AnalyticsPipelineProofs` proves for every value of the constants:

| Theorem | Statement |
|---|---|
| `TypeCorrect` | `Spec => [](TypeOK /\ BatchShape)` |
| `QueueBounded` | `Spec => []QueueBound`, any number of processes |
| `StoredAtMostOnce` | one process: `Spec => []AtMostOneRow` |
| `EveryEventAccounted` | one process: `Spec => []Accounted` |
| `PopTakesWhatItRead` | one process: `Spec => PopRemovesBatch` |
| `PopIsOwned` | one process: `Spec => []PopOwnership` |
| `LossIsBounded` | one process: `Spec => []LossBound` |
| `PipelineImplementsLog` | one process: `Spec => ImplementsLog` |

The argument. `TypeOK` is not inductive alone: `cur` stays in range only because
the entry being inserted lies in its batch, which `BatchShape` says. `QueueBound`
is inductive with it: a request that passes the check sees a list below the
limit, and the requests about to push are counted in the invariant itself. The
others need one process, as the run `analytics_overlap` shows, and rest on
`PopOwnership`: what was read is still the left end of the list when it is
trimmed (only its reader trims), and rows exist only for entries the processor is
past. With it a trim removes exactly the batch, an insert meets an entry without
a row, and a popped entry is in hand until it has an outcome.

`LossBound` is not inductive either: a stop costs nothing at once, and an `LTRIM`
whose reply was lost leaves a batch in hand that is lost only when the client gives
up. `LossInv` counts what the process may still lose without another fault (`Owed`:
after a cancel the batch in hand and the one the final flush pops, after the closes
what it still holds, while a command waits to be sent again its batch), and every
step either pays for a loss from that or raises the budget: each further execution
of an `LTRIM` takes one batch and one fault. For `PipelineImplementsLog` every
action maps to one of `Record`, `Settle` and a stutter: the mapped `settled` is an
interval from 1 (`PastIs`), because the batch is the next interval after what was
settled before, so that rows and dead letters appear for entries just settled.

Assumptions used: `HostAssumption`, `HandlersFinite`, `LimitAssumption`,
`BatchAssumption`, `BoundsAssumption`; the theorems marked "one process" name it
(`Servers = {p}`).

`SubscribersProofs` proves for every set of addresses, any number of concurrent
requests and notifications, and any faults:

| Theorem | Statement |
|---|---|
| `SubscribersTyped` | `Spec => []TypeOK` |
| `ConsentGiven` | `Spec => []DoubleOptIn` |
| `ConfirmedRowsStable` | `Spec => ConfirmedIsStable` |
| `UnsubscribeLinksAlwaysWork` | `Spec => []UnsubscribeLinksWork` |
| `LinksExpire` | `Spec => LinkExpires` |
| `PendingAddressesHaveLinks` | `Spec => []PendingHasLink` |
| `ReportsAreComplete` | `Spec => []ReportsAddUp` |

`DoubleOptIn` is not inductive: between Confirm's lookup and its `UPDATE` the
request holds a token that must still be one somebody followed (`Followed`), a
new token must be in nobody's mailbox yet (`Fresh`), and a row's token must be
one issued to its address (`OwnToken`). `LinkExpires` adds that a pending row is
exactly as old as its token (`AgeOfToken`). The unsubscribe links rest on
`Links`: a batch may work on an old list, yet every token in it serves its row or
has been used, because no step changes the token of a confirmed row
(`ConfirmedRowKept`): the upsert rewrites its name and `updated_at` and nothing else
(`UpsertedConfirmed`). The
types need `Accounts`, the sum a running notification keeps, for its counters to
stay in range. Assumptions used: `EmailsFinite`, `SubscriberBounds`.

`AuthSessionsProofs` proves for any users, browsers, concurrent requests, faults
and lifetimes:

| Theorem | Statement |
|---|---|
| `SessionsTyped` | `Spec => []TypeOK` |
| `RevokedNeverPasses` | `Spec => RevokedStaysOut` |
| `ReuseIsBounded` | `Spec => []ReuseBounded` |
| `RefusalsHaveCauses` | `Spec => []RefusedForCause` |

`RevokedStaysOut` rests on `Keys`: tokens carry a second that has come, so a key
set with a token's full lifetime expires no earlier than the token. It is about
lookups made during the token's life; a lookup after it may find the key gone.
`ReuseBounded` is not inductive; `Paid` is. While a token was never revoked, its
exchanges and those about to be issued were each preceded by a rotation whose
`Set` failed, so the faults pay for them; once it is revoked every request then
past the lookup may still pay, and another passes only with a fault, until the token
ends: from then on the requests that were parsed before (`AtHand`) may pass as well,
and no other will be.
`RefusedForCause` needs two more parts: `Separate`, that two browsers hold one
token only if it was issued twice, so that nobody revokes another's; and
`Reliance`, that what a browser with one request at a time keeps as its cookie,
carries in a request or is about to receive is not revoked, unless shared.
Assumptions used: `AccountAssumption`, `OwnerAssumption`, `TTLAssumption`,
`SessionBounds`.

`RateLimiterProofs` proves for every window, burst, number of requests and faults:

| Theorem | Statement |
|---|---|
| `RateTyped` | `Spec => []TypeOK` |
| `SilenceRestoresCredit` | `Spec => []RetryAfterHonest` |
| `RateIsHeld` | `Spec => []RateHolds` |

For the silence the invariant is `KeyIsRecent`: the hit that last renewed the time to live is as
old as the time to live says, so a window without a hit has no key with one; and
a key without a time to live was only counted by pipelines that broke.

`RateHolds` is not inductive: the key may expire and be counted anew while requests
counted on the old one still wait for their decision. `RateInv` cuts the window's
admissions at the hit that last renewed the key. Those after it (`LateAdmissions`)
each used up a request that was pending by then, so they and the pending ones are
never more than the requests there are and the faults (`LateArePending`). All
others, with the requests still to be let through (`Passing`), were counted on the
present key, whose count the burst bounds (`OthersAreCounted`). Time only moves
admissions out of the window; a hit that renews the key makes every admission an
early one, and `Grown`, that the histories do not decrease with age, carries the
two parts across both. Assumptions used: `WindowAssumption`, `RateBounds`,
`BurstAssumption`, `RequestsFinite`.

`ContentProofs` proves for every set of sections, posts, slugs, concurrent
requests and patches:

| Theorem | Statement |
|---|---|
| `ContentTyped` | `Spec => []TypeOK` |
| `PostsAlwaysHaveSections` | `Spec => []PostsHaveSections` |
| `SlugsAlwaysFindOne` | `Spec => []SlugsFindOne` |
| `PublishedAlwaysDated` | `Spec => []PublishedDated` |
| `FirstDateIsKept` | `Spec => FirstDateKept` |
| `EditsAlwaysMerge` | `Spec => EditsMerge` |
| `PagesAlwaysTile` | `Spec => []PagesTile` |

The invariants are inductive together (`Inv`). Each action is first shown to do
one of four things to the tables: write a section, write a post that respects the
constraints (`WritesPost`), remove one of either (`EditorChanges` and the lemmas
before it); the invariant is then proved once per kind of change, not per action.
The look-up before a slug is used plays no part in the proof: the unique index
alone keeps slugs apart.

`PagesTile` is about the arithmetic, whatever the table holds: a limit is one that
is allowed (`LimitAllowed`), so `has_next` ends at the page `NewMeta` announces
as the last one (`PagesReach`, `LastIsTotal`), no product on the way there leaves
the int, and consecutive offsets are a limit apart (`ListIsTiled`). The result of
a query is as long as the set of its rows (`ResultLength`).

Assumptions used: `SlugAssumption`, `NoRowAssumption`, `PostAssumption`,
`PaginationAssumption`, `PageAssumption`.

`ReadersProofs` proves for any posts, comments, admins, events, days and reports:

| Theorem | Statement |
|---|---|
| `ReadersTyped` | `Spec => []TypeOK` |
| `ThreadsStayFlat` | `Spec => []ThreadsAreFlat` |
| `EventsAlwaysRefer` | `Spec => []EventsReferToPosts` |
| `PartsAlwaysCover` | `Spec => []PartsCoverTotal` |
| `PublicAlwaysComplete` | `Spec => []PublicComplete` |
| `AdminAlwaysComplete` | `Spec => []AdminComplete` |

`ThreadsAreFlat` needs `RepliesAim`: while a reply is between its two statements
the comment it aims at is, if still there, a top-level one of the same post, for
rows never change their parent or post and ids are not used again. A cascade takes
a row's children with it, whatever is deleted. `PartsCoverTotal` rests on
`TotalsCovered`, that a running report's total never exceeds the views of the
present table: events are never deleted from it, and a deleted post only moves
them to no post. The curve then covers the total when no day is cut off.

The lists are a loop over a map, so their proof is a loop invariant (`Assembled`):
after some iterations every node holds, once each, those of its replies that were
iterated, and the top list those without a parent. An iteration keeps it
(`AttachAssembles`), wherever in the order a reply and its parent come, and at the
end the copies get their replies (`ThreadsHold`). Admin lists need `ThreadsAreFlat`
as well: a reply to a reply would be lost. The induction over the iterations is one
over a set of numbers, by the library's theorem that such a set has a least element
(`Induction`, from `WFMin`). Rows have an order at all because the table is finite,
which it is in every state (`TableStaysFinite`).
Assumptions used: `CommentAssumption`, `ReportAssumption`, `NoPostAssumption`.

`EntProofs` proves for all six entities, any ids, rows at the start, deletes and
number of calls:

| Theorem | Statement |
|---|---|
| `EntIsTyped` | `Spec => []TypeOK` |
| `LastCallAlwaysWins` | `Spec => LastCallWins` |
| `ValidatorsAlwaysHold` | `Spec => ValidatorsHold` |
| `ChildrenAlwaysStay` | `Spec => ChildrenStay` |

The generated code repeats a pattern, and so does the proof: `EntSchemaProofs` looks
once at the fields of each entity and shows what the pattern takes for granted
(`Fits`: defaults are values of their columns, keys have no validators, every
settable field is a column of the statement; `EdgesFit`: edges to children are the
inverses of keys). Everything after that is about any entity. Between the statements
of a save the database may break the schema, but its rows keep their shape
(`Fitting`); each statement keeps that (`RowIsSaved`, `ChildrenDropped`,
`ChildrenAdded`) and says which cells it changes, which gives `ChildrenStay`, and
Postgres checks the rest at the end (`LegalIsDatabase`). A delete takes every key to
the row with it or is refused (`DeleteFits`).

`LastCallWins` needs an invariant about builders that are not saved yet
(`CallsFollowed`): for each field, what the mutation's maps and sets hold of it
follows from the last call on it alone (`Follows`: `Idle`, `Given`, `Increased`,
`Emptied`). A call on one field leaves the others (`OthersFollow`), and so do the
defaults a failed save leaves behind (`DefaultsFollow`); for the field itself there
is one lemma per kind of call. An increment is what was asked for only because
Postgres refuses a column that is assigned twice (`AssignsOnce`). Assumptions used:
`NullAssumption`, `EntAssumption`.

**Only model-checked.** `QueueDrains`: liveness under fairness is beyond TLAPS'
backends here. Every other property of a passing run is a theorem. The properties
of the violation runs are false and have counterexamples instead. The library's
induction theorems take an operator as a parameter, which the provers cannot
instantiate; where an induction is needed (the loop over comments) it is one over a
set of numbers. No module with a theorem uses a `RECURSIVE` operator.

## 5. Plan

The planned modules are written: `AnalyticsPipeline` with `AnalyticsLog`, then
`Subscribers`, `RateLimiter`, `AuthSessions`, `Content`, `Readers`, `Ent`, each with
its runs and its proofs. What could follow:

1. The query side of Ent: predicates and eager loading against a reference
   semantics over the rows of `EntStore`.
2. What an overlap of two processes may cost the queue at most, now that
   `analytics_overlap` shows that `PopRemovesBatch` does not survive it.
3. A refinement of `Subscribers` to an abstract mailing list with consent.

## 6. Observations

Behaviours met while modelling that no line of the repository contradicts, and
that the models reproduce:

- The daily curve of a report lasting N days covers N + 1 calendar days but shows
  the N earliest (`ORDER BY day ASC LIMIT`, `analytics/repository.go:98`), so the
  present day is missing when each day has events; days with events but no views
  use up places as well. `PartsCoverTotal` states its guarantee accordingly.
- Events of a post deleted while they are queued are refused by the foreign key
  and go to the dead-letter list, which nothing reads, trims or bounds
  (`processor.go:95`).
- A section's own slug counts as taken when it is sent unchanged in an update:
  `assertSlugFree` does not use the id it is given (`sections/repository.go:169`).
- An editor's update of a post undoes another editor's that came in between
  (`posts/repository.go:178`); status and date are not touched. An update that does
  not give `scheduled_at` sets it to NULL (`posts/repository.go:212,224`), unlike
  every other field it does not give.
- A refresh token is compared with the clock before its revocation key is looked up
  (`auth/service.go:148-153`). A request parsed in the token's last second and looked
  up when the key, set in the second of issue, has expired exchanges a revoked token
  for a fresh one: `ReuseBounded` allows it, `RevokedStaysOut` leaves it out.
- A submission of an address that is confirmed by the time of its upsert rewrites the
  row's name and `updated_at` (`subscribers/repository.go:36-39`), though the visitor
  is told that the address is already confirmed: `ConfirmedIsStable` says that this is
  all.
- A command that reached Redis and lost its reply is sent again by the client: one
  event may be pushed several times and become several rows, one hit may count
  several times, and an `LTRIM` may remove entries nobody read.
- A title without a letter gives a post the slug "", which one post can have at a
  time and no route finds. A section with it is refused by the builder's check.
- The tag filter of the posts' list reads `post_tags` and `tags`, which no migration
  creates (`posts/repository.go:38`): it answers 500.
- Nothing publishes scheduled posts: `scheduled_at` is written and never read.
- Replies to a comment whose approval is withdrawn are hidden publicly and shown at
  the top of the admin's list; a reply to a reply is 404; drafts can be commented on.
- The order of threads is that of a Go map: the lists' `ORDER BY` is lost.
- The Ent builders validate no increment; an update that sets and clears one
  ordinary field is refused by Postgres (the column is assigned twice), while a key
  that is set and then has its edge cleared keeps its value; a failed `Save` leaves
  the defaults it filled in, the time of the update included.
- For a page number near the largest integer the offset overflows
  (`pagination.go:46`); `Wrap` says to what.

## 7. Not modelled

- **Ent**: bulk creates and updates, the query builders with their predicates
  (`where.go`), eager loading, and deletion by predicate. They only read, or repeat
  for many rows what is modelled for one; nothing in the program calls those of the
  entities other than section and user.
- **Reports**: averages, visitor counts, titles, top posts, the realtime endpoint, and
  the referrers and countries (cut at ten groups), each a single query.
- **Text**: `slug.Generate`, bot, device and address matching, `hashIP`, token
  generation beyond "fresh and unguessable": pure functions with tests.
- **Migrations**: the run of the DDL itself; its keys and indexes are in the models.
- **Authentication**: the Google sign-in handlers, which no route reaches; access
  tokens and roles, whose checks change nothing.
- Configuration, logging, health, response formatting, the media stubs and the
  unrouted CSRF middleware.
- Six hazards have no property, each with its reason in `PROJECT.json`: the
  dead-letter list's growth, an event that is both a row and a dead letter, a
  newsletter batch cut by a restart, a confirmation mail that fails, route groups
  that count on one key, and a cookie cleared by a late answer.
