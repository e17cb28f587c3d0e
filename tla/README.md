# Worksetu server: TLA+ models, checks and proofs

Worksetu dispatches household and trade jobs to workers of cooperatives. The
server (`src/server/src`, TypeScript on Express, Prisma and PostgreSQL, Redis,
Socket.io) takes a booking from its request through dispatch, acceptance, work,
invoice, review and payout; the web client (`src/app.js`, `src/api.js`) shows it to
customers and workers. This directory holds the models of the parts of the
server and the client where several actors change the same state, the TLC runs that check them
on small instances, and TLAPS proofs of what matters most for instances of any
size.

    tlc -workers 2 -config lifecycle_admin.cfg MCBookingLifecycle   # any run of PROJECT.json
    tlapm BookingLifecycleProofs.tla                               # any *Proofs module

`PROJECT.json` lists the runs, and for each definition the lines it models.

## 1. The system

### Components, state and operations

| Component | State | Operations |
|---|---|---|
| Booking state machine (`services/booking-state-machine.service.ts`) | `Booking.status` | `applyTransition`: read the status, test the table of legal transitions, write |
| Booking handlers (`controllers/booking*.ts`) | booking, invoice, worker rows | request, cancel, start, complete |
| Dispatch responses (`controllers/dispatch.controller.ts`, `lib/redis-lock.ts`) | dispatch-log rows, Redis lock `lock:booking:<id>` | accept, decline, auto-confirm after 60 s |
| Dispatch engine (`services/dispatch.service.ts`) | in memory only: queue, timer, subscription | score, offer one by one, broadcast to the pool, poll, give up |
| Reconciliation sweep (`services/dispatch-reconciliation.service.ts`) | none | every 30 s: stale top-3 offers, stale pool offers, stale assignments |
| Worker availability (`controllers/worker.controller.ts`, `admin-worker.controller.ts`) | `availabilityStatus`, `currentBookingId`, `suspendedAt` | switch, suspend, reactivate |
| Admin overrides (`controllers/admin-operations.controller.ts`) | booking, worker and dispatch-log rows | force-assign, cancel |
| Reviews (`controllers/review.controller.ts`) | review, rating, ledger rows | review = settle + pay out + feedback credit |
| Wallet (`wallet.controller.ts`, `admin-wallet-ops.controller.ts`, `utils/wallet-balance.ts`) | append-only `CreditTransaction` rows; the balance is derived | redeem, adjust, reverse, distribute dividends |
| Payments (`payment.controller.ts`, `admin-payment.controller.ts`) | `PaymentTransaction`, `Settlement` rows | record payment, settle a redemption, refund, reconcile |
| Idempotency (`middleware/idempotency.ts`) | `IdempotencyKey` rows | look up, claim, run the handler, store the answer |
| Sessions (`services/auth.service.ts`) | refresh tokens, token version, attempt counters | login, rotate, revoke, reset |
| Documents (`controllers/document*.ts`, `services/storage`, `malware-scanner`) | files and rows | upload, scan, sign, serve, delete |
| Notifications (`notification*.ts`) | notification rows | create, list, mark one, mark all |
| Sockets (`lib/socket.ts`) | the rooms of each connection | handshake, join, emit |
| Location (`controllers/location.controller.ts`) | `currentLocation`, Redis debounce key | ping |
| Web client (`app.js`, `api.js`) | token, cookie, what the page shows | log in and out, shared refresh, fetch, hear events, switch, ping |
| Configuration and cache (`admin-config.controller.ts`, `lib/cache.ts`) | one config row, Redis copies | read through, update, invalidate |
| Catalogue, profiles, dashboards, cooperatives, audit, demo reset | single rows, queries | create, update, list |

### How they interact

* A booking request starts the engine without waiting for it (`booking.controller.ts:72` on). The
  engine writes dispatch-log rows; a worker's answer is a separate request that
  takes the Redis lock, runs the accept transaction and publishes the result on
  the booking's channel, where the engine's subscription hears it, if it is up.
* The engine's timers, the worker's answer and the sweep all write the same
  dispatch-log rows; all but a few forced writes of the status go through
  `applyTransition`, which never repeats in its update what it tested.
* Cancel, override, complete and review read the booking first, answer early if
  it is unsuitable, and then run a transaction at READ COMMITTED.
* A review settles the booking and is what writes the worker's ledger; refunds,
  dividends and redemptions build on those rows. The idempotency middleware
  wraps the mutating routes.
* Tabs of one browser share the refresh cookie; each keeps an access token in
  memory, and its failed requests share one refresh (`api.js`). Every request
  tests the token's version against the user row.
* The server commits first and emits an event to a room afterwards; a page that
  hears it sends a GET and shows the answer. A connection joins its user's room,
  then reads which rooms of bookings (or which worker's room) to join as well.
* A document is a file on the disk and a row; the scan that follows an upload
  belongs to no request.

### What is hard about it

Pre-reads that are stale when the transaction runs; a lock in Redis that covers
a transaction in PostgreSQL but has a life of its own; three actors on one
offer; an engine whose place in its queue exists only in memory; balances
derived from rows that other requests are inserting; answers that leave before
they are stored; a file and a row that no transaction writes together; events that are
emitted while the page they are for is still joining, or still fetching; answers to two
GETs that overtake each other. `PROJECT.json` lists these hazards with their lines, and which
property watches each.

### What makes each component correct

* Lifecycle: a booking past its acceptance has a worker; only one offer is
  accepted, and only an override makes the worker change, unless the booking's lock ran out
  under an accept; billed once, then paid once; the current booking of a worker is theirs and
  has not ended, unless a handler wrote on a stale read.
* Dispatch: one open offer at a time, waited for by the engine; every offer is
  closed; dispatch ends; an assigned booking is confirmed, restart or not.
* Wallet: no spending of what is not there; a redemption is complete exactly
  when its settlement is recorded; rows only advance; dividends add up to the
  share.
* Idempotency: one effect and one answer per key; undisturbed keys complete.
* Accounts: nothing outlives a revocation that was not being created meanwhile; the
  reuse detection fires on trouble only; codes are not guessed without limit.
* Documents: a deleted or infected document has no file, a kept one has; the limit
  holds but for overlaps; a scan ends.
* Pages: a connected customer is in the room of every open booking but for a reopened one; a
  page shows the booking it has open, no older than before, and catches up with what is
  announced; a worker's page lists the open offers, does not show as read what is not, shows a
  worker as off duty who is, and sends a position off duty only from a ping that read the row
  before.
* Cache (not modelled): no value older than the last update by more than its TTL.

## 2. The modules

| Module | What it is |
|---|---|
| `BookingStatus` | statuses, legal transitions, cancellable and terminal ones; shared by the two below |
| `BookingLifecycle` | every handler that touches bookings and workers, interleaved statement by statement |
| `Award` | what the lifecycle promises: awarded to one worker, billed once, then paid once |
| `Dispatch` | engine, answers, timers, sweep and restarts, for one booking |
| `Wallet` | the ledger, redemptions, payments and dividends of one worker |
| `Purse` | what the ledger promises: what is spent or held is there, what is paid out was held |
| `Idempotency` | the middleware around any mutating handler |
| `Accounts` | one account: tokens, codes, revocations, and the tabs and cookies that use it |
| `Documents` | the documents of one type of one worker: disk, rows, scans, signed URLs |
| `Live` | a customer's page: socket, rooms, events and GETs of bookings; uses `BookingStatus` |
| `WorkerPage` | a worker's page: offers, notifications, switch and location pings |
| `MC*` | instances for TLC (symmetry only) |
| `*Proofs` | theorems of the module they are named after: `BookingLifecycleProofs`, `DispatchProofs`, `WalletProofs`, `IdempotencyProofs`, `AccountsProofs`, `DocumentsProofs`, `LiveProofs`, `WorkerPageProofs` |

An operator marked `Variant` is used by no specification. It is the operator
after it with a plausible programming error; putting it in the other's place
must break the property `PROJECT.json` names, and does.

### BookingLifecycle

The variables are the columns the handlers touch (`status`, `assigned`,
`invoiced`, `reviewed`, `payouts`, `availability`, `currentBooking`,
`suspended`), the dispatch-log rows `offers`, the Redis `lock`, and `request`,
the handlers in flight with the local values they carry. `dispatched` says how
far the engine is, because it decides which transitions it will ask for.

A handler is `Begin...` (its pre-read and early returns) followed by one or
more steps. Each transaction contributes one step per read that a later
statement relies on, and one for its writes: at READ COMMITTED its row locks
are held from the first write to the commit, and after the last read it only
writes. `Abort` lets any handler fail between any two of its steps.

* `ReadStatus` and `CommitTransition` are `applyTransition`: the test of the
  table and a write that does not repeat it.
* `AcquireBookingLock`, `LoseLock`, `ReadAssignment`, `CommitAccept` are
  `respondToDispatch`. The code never releases the lock (`releaseBookingLock` has no caller), so
  `ExpireLock` is the only step that frees it. It may come at any time: the lock lives 5 s, and
  Prisma's defaults allow the transaction 2 s to start and 5 s to run. `outlived` remembers the
  bookings whose lock ran out under an accept.
* `CommitCancel`, `CommitForceAssign`, `CommitComplete` and `CommitReview`
  are the transactions of those handlers. The customer's, the worker's and the admin's cancel
  read, accept and write the same statuses, and one `BeginCancel` and `CommitCancel` stand for
  all; who may call them is left out. `misread` remembers the bookings whose worker changed between
  the read and the write of a handler that releases somebody, or nobody.
* `CommitReview` fails when the unique key of the review is taken: the row
  is inserted first, so the second of two reviews rolls back there.
* `PublishOffer` and `TimeoutOffer` are the engine as the lifecycle sees it; its
  own control is the subject of `Dispatch`.

`Award` leaves out statuses, offers, locks and handlers. `AwardContract` is its
specification under the mapping holder = `assigned`, billed = `invoiced`,
paid = `payouts`, contested = `outlived` and the bookings with the row of an override. Only a
contested award may be handed over (`HandOver`); `GiveTo` gives a booking that has no worker yet.

### Dispatch

One booking; an offer is named by its worker and by who made it (the engine's
queue, the engine's pool, the sweep's pool), since each makes at most one per
worker. `engine`, `response`, `confirming` and `sweep` are memory: `Restart` clears
them, and the rows and the lock stay. One step is what runs between two awaits
that matter. `Subscribe` comes after the offer's row, so an answer
published in between is not heard. Handlers' transactions are one step here;
their interleaving is the other module's subject.

Time is not measured: `Elapse` makes the time of an offer up at some moment after
it was made, and rows of one pool run out together. From then on the engine's
timer and the sweep may act, in either order. Only one sweep runs at a time: its
cron callback may overlap itself when a pass takes over 30 s, which the model leaves
out. The order of the candidates is arbitrary (`Score`).

### Wallet

One worker's ledger rows, the settlement of each redemption, the payment of each
booking, and `call`, the handlers between their reads and their commits. The
balance is derived, as in `wallet-balance.ts`: `Available` counts every type but REDEMPTION
with its own sign, `Pending` is what is on its way out. The
`FOR UPDATE` of a redemption or of a debit is `RowLockFree`.

* A single insert whose reads nobody else can invalidate
  (`CreditAdjustment`, `Reverse`, `RecordPayment` by its unique key, `Reconcile`) is
  one step.
* Dividends: the two parallel reads (payouts, last dividend) are one; they differ
  only when two distributions overlap, which `overlapped` remembers. `recent` is
  the payouts newer than the last dividend.
* The window of a payout whose `createdAt` precedes its commit is folded into
  the commit.
* `Purse` leaves out rows, records, locks and handlers. `PurseContract` is its specification under the mapping balance =
  `Available`, held = `Pending`, taken = the amounts of the negative reversals.
* The types INCENTIVE_BONUS and the status FAILED are never written by the code
  and are not reachable in the model.

### Idempotency

`row` is the table, `attempt` the requests in flight, `effects` how often the
handler's mutation was made for a key and `heard` what clients were told
(409s aside). `Miss` is the lookup, `Claim` and `LoseClaim` the insert under the unique
key, `Handle` the wrapped handler with success or error, `Respond` the answer, and
`Persist` or `PersistFails` the update that the answer does not wait for.

### Accounts

`user`, `row`, `reset` and `otp` are the tables; `jar` is the refresh cookie of each
browser, `page` and `access` the memory of each tab. A handler is a slot of `flight`: it
begins with all it reads before its first write (`requireAuth` included) and goes through
its commits one by one; its answer is one more step, which may be lost (`Fail`). So
`refreshTokens` is `BeginRefresh`, then `Rotate` or `RevokeFamily`, then
`DeliverSession` or `DeliverRefusal`. `RevokeAll` is what logout-all, a reset and the reuse
detection have in common: live rows revoked, `tokenVersion` counted up.
`root` and `overlapped` of a row are history: the version its password check saw, and whether a
revocation committed between a check or a read of its line and the row it led to. Times
are not modelled: a lock may expire, a token be found expired, at any moment.

### Documents

A handler is a slot between its two writes, `scan` the scan the process runs for a
document, `disk` and `status`, `deleted` the two stores. `Stop` is the end of the process: it ends
handlers and scans. It is also what `StreamMissing` does, since nobody listens to
the error of that stream. `torn` remembers the documents a handler or a scan was ended on.

### Live

`change` counts the changes of a booking and `view` holds the count it was told, so that "older" has a
meaning. `Change` writes any status that is the goal of some legal transition over any other: the
table is tested on a read that may be stale by the write, and an accept or an override writes
ASSIGNED without a test, over CANCELLED too. Whether it is announced follows what the
controllers emit. A booking that was closed and opened again since the rooms were read is in
`reopened`. An announcement is a step of its own after the commit (`Announce`), as is the
join after a request (`JoinCreated`), the read of the open bookings and the joins of a
handshake (`ReadOpen`, `JoinOpen`). `get` are the GETs in flight, `Read` and `Answer` their two ends.
A page that is loaded again sends two GETs (`Reload`): `initializeRoleData` runs from the `watch` on the role
(`app.js:1276`) and from `onMounted` (`:1366`).
`excused` remembers bookings of which an announcement was not heard, `mishap` overlapping or lost
requests, until one is sent alone: that one answers for what came before.

### WorkerPage

`calls` are the requests of the page, each sent, served and answered. A ping is served in three steps (it reads
the worker, tests the debounce key, writes), a switch in two (`CheckToggle` reads `suspendedAt`,
`ServeToggle` writes the status by id). The row of the worker is also written by an accept, a release
(`EndJob`), `Override` (forceAssign) and `Suspend`; a ping that read the row before is in `overtaken`, and
`strayed` remembers one that was not, and still went out off duty or to a booking the worker does not
serve. Rows are numbered in the order they are created (`born`), and the feed is read as one page of the
newest (`Newest`, `PageSize`; 20 in the code). `Reload` reads the offers twice, as above. An offer or a note that cannot
reach the page any more is in `missed`; `mishap` remembers what disturbed what the page shows:

| Token | Set by | Cleared by |
|---|---|---|
| `incoming`, `feed` | reads of that list that overlap or are lost, a note heard during a read, a reload (`incoming`) | a read sent alone |
| `mark` | a mark that is lost, a note created while the answer of "mark all" is on its way | a reload |
| `toggle` | opposite switches in flight at once, a switch that is lost | a reload |
| `untold` | a suspension while the page shows the worker on duty, or a switch is in flight: only a note tells the page, which ignores it | a switch answered with OFF_DUTY, a reload |

## 3. The runs

| Run | Asks | Bounds | States |
|---|---|---|---|
| `lifecycle_admin` | types; `AssignedHasWorker`, `CompletedIsInvoiced`, `PaidOnce`, `HolderServes`, with every operation | 1 booking, 2 workers, 1 offer, 2 handlers | 2.0 M |
| `lifecycle_award` | two offers competing for a booking: `AcceptOnce`, `AwardContract` | 1 booking, 2 workers, 2 offers, 2 handlers; accept, transitions, cancel, override, complete, review | 1.1 M |
| `dispatch_live` | types; `OpenOfferIsWaitedFor`, `UndisturbedDispatchEnds`, `EngineReturns`, `OffersClose`, `AssignedIsConfirmed` | 2 workers, TopSize 1, 1 restart or error | 338 k |
| `wallet_ledger` | types; `SettledIsRecorded`, `DividendsAreShares`, `RecordsOnlyAdvance`, `PurseContract` | 4 rows, 2 bookings, 2 handlers, amounts 1 and 2, fare 3, share 50 % | 494 k |
| `idempotency` | types; `OneEffectPerKey`, `OneReplyPerKey`, `UndisturbedKeyCompletes` | 2 keys, 2 bodies, 3 attempts, 2 restarts or failed updates | 121 k |
| `accounts` | types; `OutlivesOnlyByOverlap`, `ReuseOnlyByTrouble`, `OtpGuessesBounded` | 2 tabs of one browser, 2 handlers, 4 tokens, 5 requests, limits 2 | 1.8 M |
| `documents` | types; `RemovedIsGone`, `FilesMatchRows`, `LimitExceededOnlyByOverlap`, `ScanEnds` | 3 documents, limit 1, 2 handlers, 1 failure or restart | 694 k |
| `live` | types; `ConnectedIsInRooms`, `QuietIsCurrent`, `OnlyOverlapMisleads`, `ViewCatchesUp` | 2 bookings, 2 GETs, 2 begun steps, 2 losses | 307 k |
| `worker_page` | types; `OffersAreListed`, `FeedMatchesRows`, `PositionsFollowDuty` | 2 offers, 2 notes, pages of 1, 2 requests, 3 begun steps, 2 losses | 1.5 M |
| `lifecycle_late_accept` | fails: `CancelledIsFinal` | finding | - |
| `dispatch_preempted` | fails: `DispatchEnds` with no trouble at all | finding | - |
| `accounts_logout` | fails: `LogoutEndsSession` | finding | - |

Why the bounds are enough. Every race of the code is between two handlers on one row,
so two handler slots show it; the third slot of `idempotency` lets two attempts race for a row
that a third finds. Two workers and two offers are the least that make
a lost lock, a second accept and a hand-over to someone else. That two bookings
compete for one worker is left to the theorem `HolderServesAlways`. One candidate in the queue and two in the pool let the engine
time out, advance and broadcast; that a longer queue stays sequential is the theorem
`OpenOfferIsWaitedForAlways`. Four ledger rows hold a payout, the redemption
of it, its reversal and a dividend; a fare of 3 and a share of 50 %
make a share of 1.5 of one payout, which a dividend rounds by the half unit the property allows for. Five requests and four tokens hold a
login, two refreshes of two tabs and a revocation, each of the latter overtaking another. With a limit
of one, a second upload is already one too many, and three documents hold the
third that may not come. Two bookings let the page leave one for the other while a GET is in
flight, and two GETs overlap; two begun steps open a booking and change it, or cancel it and open it
again, while polls, events, announcements and two losses, which are not counted among them, come in between.
On the worker's page three steps are two notes or two offers and what the worker does
about them, and pages of one note make an older note drop off the feed. The safety properties of
section 5 are proved for every value of the constants, so
for these the bounds do not matter.

Bounds inside the modules: `Offer`, `Row` and `Request` bound how many
rows and open handlers there are; `MaxTrouble` bounds restarts, errors and losses
together; `MaxSteps` and `MaxRequests` what users begin.
Deadlock is not checked: a booking that is settled, or a full table of
bounded rows, is an end the system really reaches.

### Fairness

`Dispatch`, `Idempotency`, `Documents` and `Live` have liveness properties.
`Dispatch` takes weak fairness of the engine's steps, of an answer being
handled, of the auto-confirm timer, of the sweep and of time running out: the Node event loop runs
what is ready, timers fire, and cron starts the sweep every 30 s. There is no fairness
for workers, customers, the lock's expiry or trouble. `Idempotency`
takes weak fairness of each attempt that has begun; clients owe nothing, and failed updates
and restarts happen or not. `Documents` takes weak fairness of the steps of a scan that has begun. `Live` takes
weak fairness of announcing what is committed, of a page handling the events it has received,
of a request being served and answered, and of the refresh after a cancellation: none of it for connecting, polling or users.

## 4. Findings

Each is a run that TLC refutes, and `PROJECT.json` quotes the line that says otherwise.

1. `lifecycle_late_accept`: the accept transaction tests `assignedWorkerId` but not the status;
   an accept in flight turns a cancelled booking into an assigned one.
2. `dispatch_preempted`: the sweep may find an offer stale before the engine's own
   timer; it opens its own pool, the engine steps back, and when all
   of that pool decline no row is left to find: the booking stays in the pool.
3. `accounts_logout`: the client drops its access token before it sends POST /auth/logout, so
   the server refuses it; the refresh cookie stays good, and loading the page again
   logs its user in again.

### Known disagreements without a run

Seen while reading and modelling, most of them allowed by the models too:

* Booking. The booking lock lives 5 s, its transaction up to 7 s; after it has expired two
  accepts both see the booking unassigned and two rows are ACCEPTED (`redis-lock.ts:6`; blueprint 4139; `AcceptOnce`
  and `AwardContract` except the bookings it happened to). The `version` column that should stop this is never used.
  A late cancel overwrites IN_PROGRESS (`state-machine:31`; `legal-transitions.test.ts:36-38`). A
  stale pre-read releases the wrong worker or none (`booking.controller.ts:205`). A switch in flight undoes a
  suspension (`worker.controller.ts:18-25`; `admin-worker.controller.ts:137-140`: "blocks the worker from toggling
  back to AVAILABLE"), and a suspended worker who is released from a job becomes AVAILABLE. Two reviews of one worker's bookings may both read the same
  average and count of ratings, and one is lost (`review.controller.ts:64`). Accepting two bookings
  at once leaves one of the two without its worker's `currentBookingId`. An OFF_DUTY worker can accept an open
  offer, and a worker who goes off duty during a job is AVAILABLE after it while the page shows off duty.
* Dispatch. A restart before the first offer or between two strands the booking
  (`reconciliation:41`; blueprint 4150). The sweep's advance offers
  a worker again whom the engine is about to offer (`dispatch.service.ts:85`; blueprint 4170). The queue goes on
  without looking at the booking's status (`:81`). The
  exhausted pool cancels a booking accepted meanwhile (`:178`). Pool
  rows of bookings that left the pool stay OFFERED (`reconciliation:113`). The sweep
  overwrites an answer given since it read the row (`reconciliation:50`).
* Wallet. A refund after the review pays the worker again: the REFUND row carries the payout's own positive
  sign (`admin-payment.controller.ts:89`; blueprint 2689, 4281); a refund before the review does not stop
  the payout. A reversal of a spent credit leaves a negative balance
  (`admin-wallet-ops.controller.ts:120`; blueprint 4238). A row can be reversed twice, and
  a redemption being processed reversed and then settled (`:101`). Two refunds race past the PAID
  test (`admin-payment.controller.ts:71`). Overlapping
  distributions pay the same dividend twice (`:168`; comment `:139-146`), and a payout
  committed while one runs is never shared (`:174-186`). `CreditTransaction.idempotencyKey` is never written
  (blueprint 13.3).
* Idempotency. A key stays IN_PROGRESS for ever after a restart or a failed update; `expiresAt`
  is never read (`idempotency.ts:60`; blueprint 2558). The key does not cover the `:id` of the path (`:36`).
* Accounts. A refresh or a login that overlaps a logout-all, a reset or a detected reuse creates a session that
  outlives it (`auth.service.ts:254`; comment `:312-315`). A suspension leaves sessions and their refresh alone (blueprint
  4003: "has the same effect as `logout-all`"). A cookie revoked by a logout-all on another device sets the reuse
  detection off, which ends the sessions begun since (`:234`). The counter of failed logins loses concurrent ones (`:208`). A
  phone number that is changed while a code is open is verified by the old code (`user.controller.ts:79`).
  An answer to a refresh that arrives after a logout sets the token again. A socket is never verified again after its handshake.
* Documents. A signed URL whose file is removed between the test and the open ends the process
  (`document-signed.controller.ts:31`). A restart leaves a document PENDING for ever. The count of the limit includes INFECTED and
  SCAN_FAILED rows, which the comment at `document.controller.ts:140` says are never counted. No code creates a Certification.
* The customer's page. A booking that a late accept or an override opens again after a handshake has skipped it (`socket.ts:74-78`)
  is in no room until the next handshake, since only `requestBooking` joins one later. The page sends every read of its load twice
  (`app.js:1276`, `:1366`), and the answers may overtake each other. It does not fetch again when its socket reconnects (blueprint 4200, 12.5). An event during a booking's
  first GET is ignored; overlapping GETs leave an older state, or another booking, on the page (`app.js:363`). Confirmation, start, completion,
  settlement and a worker's or customer's cancellation are not announced. A throw while the rooms are read leaves a
  connected socket without rooms, and a connected page does not poll. `index.html:2399` opens a booking without fetching it, and `:2372`
  reads a field the list does not have; `viewBooking` and `cancelBooking` are used by no template.
* The worker's page. A suspension is not told to the page (`admin-worker.controller.ts:156-163`): it goes on showing AVAILABLE and sending
  positions, which are answered 409. `forceAssign` does not join the new worker's sockets to the booking's room. Offers announced before the worker's room is joined are missed, and
  nothing polls. The switch of `index.html:2723` flips what is shown and does not call `toggleAvailability`. A worker who reloads while ON_JOB is not asked
  for positions, and switching then overwrites ON_JOB. Opposite switches may be served out of order. A position
  may be recorded off duty, or sent to the room of a job that has ended (`location.controller.ts:86`); the debounce key is set before
  the write, so a failed one is not repeated (`:73`). Mark-all shows a note as read that came after the server marked its
  rows (`app.js:642`); a feed may hold a note twice. An accept and a later force-assignment of one booking have one
  dedupe key, so the customer is not told of the second (`dispatch.controller.ts:102`, `admin-operations.controller.ts:171`).
* Cache. A value read before an update and stored after its invalidation stays until its TTL (`cache.ts:30`).

## 5. The proofs

| Module | Theorems | Inductive invariants |
|---|---|---|
| `BookingLifecycleProofs` | `TypeCorrect`, `AssignedHasWorkerAlways`, `PaidOnceAlways`, `CompletedIsInvoicedAlways`, `AcceptOnceAlways`, `OnJobHasBookingAlways`, `HolderServesAlways`, `ImplementsAward` | `TypeInv`, `AssignInv`, `PayInv`, `AcceptInv` |
| `DispatchProofs` | `TypeCorrect`, `OpenOfferIsWaitedForAlways` | `TypeInv`, `WaitInv` |
| `WalletProofs` | `TypeCorrect`, `SettledIsRecordedAlways`, `RecordsOnlyAdvanceAlways`, `OverdraftIsReversalAlways`, `DividendsAreSharesAlways`, `ImplementsPurse` | `WalletInv`, `LedgerInv`, `SpendInv`, `DividendInv`, `RedeemedInv` |
| `IdempotencyProofs` | `TypeCorrect`, `OneEffectPerKeyAlways`, `OneReplyPerKeyAlways` | `KeyInv` |
| `AccountsProofs` | `TypeCorrect`, `OutlivesOnlyByOverlapAlways`, `OtpGuessesBoundedAlways`, `ReuseOnlyByTroubleAlways` | `SessionInv`, `OtpInv`, `CalmInv` |
| `DocumentsProofs` | `TypeCorrect`, `RemovedIsGoneAlways`, `FilesMatchRowsAlways`, `LimitExceededOnlyByOverlapAlways` | `DocInv`, `LimitInv` |
| `LiveProofs` | `TypeCorrect`, `ConnectedIsInRoomsAlways`, `OnlyOverlapMisleadsAlways`, `QuietIsCurrentAlways` | `TypeInv`, `RoomInv`, `CountInv`, `FetchInv`, `CatchInv` |
| `WorkerPageProofs` | `TypeCorrect`, `OffersAreListedAlways`, `FeedMatchesRowsAlways`, `PositionsFollowDutyAlways` | `TypeInv`, `ListInv`, `FeedInv`, `SeenInv`, `DutyInv`, `StrayInv` |

Every safety invariant and every action property a passing run checks is a theorem. A theorem named
`...Always` states that the property it is named after holds in every behaviour of the specification.

Most of the properties are not inductive as they stand, always for the same reason:
they say nothing of a handler between its read and its write. The modules
first prove `TypeInv` (types, and which fields each kind of handler has set) and add:

* `AssignedHasWorker`: `WriterHasWorker`, a checked transition that is about to write ASSIGNED or
  a later status works on a booking that has a worker. Nothing clears `assigned`, so
  the write is right although the status it was checked against may be stale.
* `CompletedIsInvoiced` and `PaidOnce` (`PayInv`): the payouts of a booking are the number of its
  review rows, a settled booking has one, and a review in flight was let in by an invoice,
  which nothing removes.
* `AcceptOnce` (`AcceptInv`): but for the bookings in `outlived`, an accept between its lock and its commit finds the lock
  taken, is the only one of its booking, and past its re-check no offer of the booking is accepted and, overrides
  aside, nobody assigned. Nothing is assumed of the lock's life: when it runs out under an accept,
  the booking joins `outlived` in that step.
* `HolderServes` is inductive given the types: whoever is assigned gets the booking as the current one in the same
  step, and a commit that ends a booking or passes it on releases the worker it has read, or is in `misread`.
  `OnJobHasBooking` (a theorem only, which no run checks) is inductive too: every write of ON_JOB
  writes the booking too, and every write that clears the booking writes another status.
* `ImplementsAward` uses `AssignInv`, `PayInv` and `AcceptInv`: a commit of an
  accept is `GiveTo`, or `HandOver` of a contested booking, of an override `HandOver`, a lock that runs
  out under an accept `Contest`, of a completion `Bill`, of a review `Pay`; every other step is a stutter.
* `OpenOfferIsWaitedFor` (`WaitInv`): what the engine has heard, and what a handler is
  about to publish, are answers to rows that are no longer open.
* `SettledIsRecorded` and `RecordsOnlyAdvance` (`WalletInv`): a row is as its insert made it but for its
  status; the row a settlement in flight names is a redemption, and the payment a refund in
  flight has seen is not missing.
* Sums over the ledger. The library's fold is a recursive function, and no induction theorem of the library can be
  used here (they take an operator as a parameter). `WalletProofs` takes a minimal counterexample instead:
  strict inclusion of the subsets of a finite set is well-founded, so a set of rows that refuted a fact about sums would
  have a minimal one, and one row less gives the contradiction. So are proved that the fold exists, that its order does not matter (`SumRemove`), and that
  the sum of a set is that of two parts (`SumSplit`); all the rest is arithmetic.
* `OverdraftIsReversal` (`SpendInv`; no run of its own, since `PurseContract`, which `wallet_ledger` checks, implies it): `Slack` is the redeemable balance, had no reversal taken anything back. Only a
  commit of a redemption or a debit lowers it, by the amount whose sufficiency was found under the row lock; whoever holds the lock is alone,
  and everybody else, who does not take it, adds to the slack or reverses. A settlement moves
  its amount from pending to paid and leaves it.
* `ImplementsPurse` (`SpendInv`, `RedeemedInv`): a commit of a redemption is `Hold`, of a debit `Spend`, of a settlement `PayOut` (a redemption's amount is
  not negative, so no more than what is held leaves), a reversal is `TakeBack` or, of a row that took money, `Earn`; reviews, credits, refunds and dividends are `Earn`, and
  every other step is a stutter. `Spend` and `Hold` demand that the money is there, which is `SpendInv`.
* `DividendsAreShares` (`DividendInv`): what was paid is at most the share of the payouts that are *older* than the last dividend. The distribution in
  flight has read newer ones only, and its commit makes all of them old; a payout written meanwhile becomes old without being shared, which
  is why the property is an inequality. Half a unit per dividend is the rounding.
* `OneEffectPerKey` and `OneReplyPerKey` (`KeyInv`): at most one attempt holds a key, its row is
  IN_PROGRESS with its body, nothing was made before its handler ran and nobody was answered
  before it answers; a completed row stores the one answer that was given.
* `OutlivesOnlyByOverlap` (`SessionInv`): a refresh that has read its row and that no revocation has overtaken
  has read a good row, and that row is as good when the new one is made, be it revoked since; cookies and answers name
  rows that exist.
* `OtpGuessesBounded` (`OtpInv`): the attempts count the wrong codes; when a comparison begins, the attempts are below the
  limit and the other comparisons at most the other handlers, and a comparison that ends moves from one count to the other.
* `ReuseOnlyByTrouble` (`CalmInv`): until a refresh's answer is lost, two tabs refresh with one cookie or a revocation leaves cookies behind, every cookie in a jar
  names a live row, or a refresh by that cookie is on its way and its answer brings the row that replaced it; a refresh in flight has read the row of
  its own cookie, which no other browser holds.
* `RemovedIsGone` and `FilesMatchRows` (`DocInv`): an upload has its key to itself and no row yet, a deletion has a row, a
  document is scanned while it is PENDING only, and a file once removed is not written again.
* `LimitExceededOnlyByOverlap` (`LimitInv`): kept documents and uploads past the test together, by the argument of `OtpInv`.
* `ConnectedIsInRooms` (`RoomInv`): from the query of the handshake on, an open booking is in a room, or in what the query has read, or
  the request that created it is still to join it, or it was closed at the query and is in `reopened`.
* `OnlyOverlapMisleads` (`CountInv`, `FetchInv`): no count on the page, in an event or in an answer is ahead of the
  booking's changes; without an overlap the one GET in flight is of the open booking, and its answer is no older than what the page shows.
* `QuietIsCurrent` (`CatchInv`): what a GET has read, or the page shows with no GET in flight, is current, or a change of it is yet to
  be announced, heard or followed by the fetch after a cancellation. It is the safety half of
  `ViewCatchesUp`, which adds that the page becomes quiet.
* `OffersAreListed` (`ListInv`), `FeedMatchesRows` (`FeedInv`, `SeenInv`): what the page lacks is in the answer of a request in flight, in an
  event it has not handled, or yet to be said; what the page shows as read was marked. For the feed, a row that is
  created may push others off the newest page but never puts an older one back (`NewestGrows`).
* `PositionsFollowDuty` (`DutyInv`, `StrayInv`): a worker off duty is shown as such, or the answer that says so is on its way, or the
  page was not told; a ping past its read of the worker finds duty and job as it has read them, or is in `overtaken`.

The proofs assume what the modules state and TLC evaluates on every run: `Null` is none of the ids, the bounds are naturals,
amounts are positive and fares, credits and percentages naturals, the handlers of `Accounts` and `Documents` are
finitely many. They hold for any number of bookings, workers, offers, rows, keys, tabs, documents, notifications and
requests in flight, and any size of a page of notifications. A ledger may have room for infinitely many rows: that it is finite at every moment is part of `LedgerInv`.

Only model-checked: the seven liveness properties (`UndisturbedDispatchEnds`, `EngineReturns`, `OffersClose`, `AssignedIsConfirmed`,
`UndisturbedKeyCompletes`, `ScanEnds`, `ViewCatchesUp`), because fairness and ENABLED are out of the prover's reach; and the
three runs of section 4, which are counterexamples.

## 6. Not modelled

* The read-through cache and the configuration: no handler that is modelled reads a cached value. Timeouts are arbitrary in the models, which covers a
  change of the configuration while a dispatch runs.
* Scoring weights, distances, prices and fees, the plausibility of positions: arithmetic and PostGIS queries
  with no state; where control depends on them the models take any result.
* Catalogue, profiles, dashboards, cooperatives, audit, reports: single-row writes and queries.
* Demo reset and seed: they replace the data of a development database.
* Rate limits (a library's counters), logging, the notification channels other than in-app (stubs), the pages of
  administrators: the models allow any order of requests, which no client can exceed. The inline handlers of `index.html` are
  not modelled; `Live` and `WorkerPage` follow the operations of `app.js`.
* The rating average: one read and one write of a number that nothing else depends on (section 4 says what is lost).

## 7. Plan

Done, in this order: `BookingLifecycle` with `Award`; `Dispatch`; `Wallet`; `Idempotency`; their proofs; `Accounts` and `Documents` with
their proofs; `Live`; `WorkerPage`; their proofs; the sums of `Wallet`; `CalmInv` of `Accounts`; `Purse`.

Possible extensions:

1. `Reviews`: the rating average as the mean over the reviews written, per worker; `Cache`: staleness bounded by the TTL.
2. A composition of `Idempotency` with the wallet's routes: a redemption sent again does not
   redeem twice, and a key sent for another `:id`.
3. The sweep's and engine's mutual exclusion on a row in `Dispatch`, as a theorem.
