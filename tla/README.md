# ParentOS in TLA+

ParentOS is a second-hand marketplace for parents: sellers list items, buyers
message them and pay through Stripe Connect, moderators take listings down. The
backend is a Node/Express process (any number of instances) over one PostgreSQL
database, with an optional BullMQ worker process; a React web client and a React
Native app speak to it. Nothing but the database, the queue and the storage is
shared between requests, so every hard behaviour is a race between SQL
statements, a call to another system between two of them, a process that dies
there, or an answer that comes late to a screen.

Paths below are under `src/backend/` unless they start with `web/`
(`src/frontend/src/`) or `app/` (`src/mobile/src/`).

## Inventory

| Part | State it keeps | Operations | What makes it hard | What makes it correct | Module |
|---|---|---|---|---|---|
| Checkout, payment and orders (`services/transactionsService.js`, `orderStateMachine.js`, `transactionStatus.js`) | `transactions.status`, `listings.status/reserved_at`, PaymentIntents and refunds at Stripe | checkout, webhook, expiry sweep, fulfil, confirm, dispute, resolve | two systems without a common transaction; at-least-once webhooks; a sweep that skips locked rows; crashes between statements | one buyer per item; captured money always accounted for; status and money agree; reservations end | `Orders` |
| Moderation takedown (`services/moderationSagaService.js`, `moderationService.js`) | `moderated_at`, `moderation_state`, `moderation_actions`, `moderation_refund_tasks` | request, drain, reconcile, retry, restore | a saga over Stripe with claims, attempts, stale reclaim, concurrent workers | each affected order has a task until its money is settled; finalized means settled | `Takedown` |
| Listings (`services/listingsService.js`, `web/.../SellForm.jsx`) | `listings` rows, their photos in storage | create, edit, remove; reserve, mark sold, relist; search | read, check and write in three statements; forms older than the row; storage beside the row | the photo shown exists; one sale of one item | `Listings`, `Orders`, `Catalogue` |
| Account deletion (`services/privacyService.js`) | every row of a user | check blockers, erase, export | checkouts that start after the check | no order in progress loses its counterparty | `Listings` |
| Reconciliation (`services/reconciliationService.js`) | `reconciliation_issues`, `reconciliation_runs` | forward pass, reverse pass, resolve | reads two systems at different times | each kind of drift is seen by some pass | `Listings` (forward pass) |
| Conversations and the AI reply (`services/messagesService.js`, `queue/`, `worker.js`) | `conversations.ai_replied/seller_replied`, `messages`, `blocks`, the queue | message, answer, block; claim, enqueue, generate, insert, release | claim and insert are far apart; lost enqueue answers; redelivered jobs | at most one AI reply, none after the seller's own; no claim left behind | `Messaging` |
| Reading conversations (`messagesService.js`; `web/.../Inbox.jsx`, `useMessages.js`; `app/screens/ThreadScreen.tsx`) | read marks; what a screen shows | list, page, mark, poll | answers to a thread that was left; marks by time, not by what was shown | what counts as read was shown | `Threads` |
| Sessions and tokens (`services/tokenService.js`, `auth/controller.js`; `web/services/api.js`, `app/api/client.ts`) | `refresh_tokens`, `session_version`; cookies, the secure store | sign in, rotate, detect reuse, sign out, log out everywhere, reset | rotation against revocation; lost answers; two tabs | one live token per family; what was ended stays ended | `Sessions` |
| Accounts (`services/authService.js`, `accountSecurityService.js`) | `users` row, `password_reset_tokens` | sign up, verify, resend, log in, lock out, reset links | read-then-write over several statements | guesses bounded; one live link | `Accounts` |
| Reviews and trust counters (`services/trustService.js`, `reviewsService.js`) | counters and ratings cached on `users` | recompute after a move or a review | lost update between two recomputations | the cache equals its source | `Standing` |
| Seller onboarding (`services/connectService.js`) | `stripe_connect_account_id`, readiness flags | onboard, refresh status, `account.updated` | two onboardings at once; events of another account | who counts as ready can be paid | `Standing` |
| Uploads and images (`services/uploadService.js`, `imageProcessingService.js`, `storage/`, `worker.js`) | `uploads.status`, objects in two prefixes, the queue | presign, upload, finalize, process | retries, stalls, a worker that dies between storage and database | the row tells the truth about the object; the raw copy with its EXIF goes | `Uploads` |
| Start and stop of processes (`migrate.js`, `db.js`, `server.js`) | `schema_migrations`, the demo data | migrate, seed, serve, stop, upgrade | several processes on one fresh database | each migration once; every process comes to serve | `Boot` |
| Browsing (`listingsService.list`; `web/.../useListings.js`; `app/screens/FeedScreen.tsx`) | a grid, a feed, requests in flight | filter, page, refresh | offsets over a list that moves | paging reaches every listing and ends | `Catalogue` |
| Push (`services/pushService.js`; `app/notifications.ts`, `AuthContext.tsx`) | `push_tokens`; what the phone remembers | register, unregister, send, prune | registration is not awaited | the phone's events are its user's | `Devices` |
| Orders in the clients (`web/.../Checkout.jsx`, `useOrders.js`; `app/screens/OrdersScreen.tsx`) | checkout sheet, list of orders | check out, pay, poll, move, reload | orders that expire under an open sheet | what is said of an order was so | `Desk` |
| Reports; notification rows, e-mail; analytics; favorites; geocoding; sitemap; export | output, caches, single statements | | nothing depends on them | | none |

**How they meet.** `listings.status` is written by checkout (claim and release), the
webhook (sold, or active again), the sweep and the seller's buttons;
`listings.moderated_at` by takedown and restore, read by checkout and the buttons;
`transactions.status` by everything in `Orders` and by the takedown's workers, always
through `transitionOrder`, which locks the row, and which in the same transaction
recounts both parties (`Standing`). The row of a listing is removed by its seller and by
the erasure of an account, refused by the foreign keys of conversations, orders
and reviews (`Listings`). The `users` row is written by recounts, by onboarding and by the
requests of `Accounts`, in different columns; `session_version` joins `Accounts` to
`Sessions`. The queue carries the jobs of `Messaging` and `Uploads`. The clients see
all of it through answers that may be late.

## Modules

| Module | Models | Role |
|---|---|---|
| `OrderStatus` | `transactionStatus.js` | statuses, legal moves and the groups the services decide by |
| `OrderPromise` | what `Orders` owes | abstract specification: one order and its money |
| `Orders` | checkout, webhook, sweep, party moves, dispute resolution, seller buttons | core state machine; implements `OrderPromise` |
| `Takedown` | the moderation saga | extends `Orders`: the saga beside everything `Orders` does |
| `Messaging` | both parties' messages and the stand-in reply | |
| `Listings` | the row, the photos, the seller's buttons, the checkout window, erasure, reconciliation | |
| `Standing` | counters, ratings, payouts | EXTENDS `OrderStatus` |
| `Accounts` | verification, lockout, reset links | |
| `Sessions` | refresh tokens in server, browser and app | |
| `Uploads` | direct uploads from presign to verdict | |
| `Boot` | migrations and seeding by processes that start together | |
| `Threads`, `Catalogue`, `Devices` | the clients' reading, browsing and push | |
| `Desk` | checkout sheet and lists of orders | uses `OrderPromise` as its server |
| `MCOrders`, `MCTakedown`, `MCListings`, `MCSessions`, `MCDesk` | | small instances |
| `MCMembers` | | `Standing`, `Accounts`, `Sessions` in one run |
| `MCProcesses` | | `Boot`, then `Uploads` or `Messaging` |
| `MCClients` | | `Threads`, `Catalogue`, `Devices`, `Desk` in one run |
| `Orders_proofs`, `OrdersHolding_proofs` | | theorems of `Orders`: types and money; the refinement of `OrderPromise`, the listing |
| `Takedown_proofs`, `Messaging_proofs`, `Listings_proofs` | | theorems of these components |
| `Members_proofs` | | theorems of `Standing`, `Accounts`, `Sessions` |
| `Processes_proofs` | | theorems of `Boot`, `Uploads` |
| `Clients_proofs` | | theorems of `Desk`, `Devices`, `Threads`, `Catalogue` |

Throughout, PostgreSQL runs at READ COMMITTED: an action is one autocommitted
statement, one call to another system, or one `withTransaction` body, split where it
waits for a row lock or where somebody can see the difference. A request that
dies simply takes no further step, unless what it leaves behind is a state of its
own; then dying is an action. Variables marked *history* are no state of the program. They record
the circumstance that excuses a promise, so that an invariant can name its exceptions
and claim everything else.

### Orders

One element `c` of `Checkouts` is a checkout attempt, the PaymentIntent it
creates and the row it may insert: the row's unique `stripe_payment_intent_id`
makes them one. `listing`, `order`, `intent`, `refund` are the tables' columns and
Stripe's records; `step`, `hookStep`, `adminStep`, `sellerStep` are the program
counters of the requests in progress.

* **Atomicity.** The webhook's transaction is split after its `SELECT ... FOR UPDATE`
  (`Receive`, then `Settle` or `CancelUnpaid`): other writers of the row wait (`Locked` in
  their guards), but the sweep's `SKIP LOCKED` does not, and that difference is a behaviour.
* **checkout** is `ReadListing`, `Claim`, `CreateIntent`, `InsertOrder`, with
  `CreateIntentFails`, `InsertFails`, `CancelOrphan`, `ReleaseReservation` on its error
  paths and `CrashCheckout` at each point between the claim and the answer. A
  failed INSERT has rolled back; the lost acknowledgement of a commit is in `Listings`.
* **Stripe** is external: an intent is paid, declined (and payable again) or
  cancelled; `sent` holds every event ever emitted, any of which may be delivered
  again at any time, in any order, to several handlers at once; `unacked` those
  not yet answered with 200. A refund replayed under its idempotency key returns
  the first result; under another key, a payment already returned is refused.
* **The sweep** is one action per listing. `overdue` stands for
  `reserved_at < now() - TTL`; it is never set inside a checkout's window, since the
  TTL is half an hour and the window is a few calls. The sweep may
  miss any pending order, locked by a webhook or, for an instant, by a party's
  request that `transitionOrder` is about to refuse.
* **Party moves** read and move in one step because `expectedFrom` rejects a
  status that changed since; **resolveDispute** passes none, so its read, its
  refund and its move are three actions.
* **The seller's buttons** are `SellerReads`, `SellerChecks`, `SellerWrites`.
* **History.** `raced` and `dropped` mark the listings taken from a buyer by the two races
  the code permits (the sweep that overlooks a locked order, the seller's write after a
  stale check), and the late payments whose failed refund was answered with 200.

Left out of a move because nothing else here reads it: the audit row, the trust
counters (`Standing`), notifications, timestamps and amounts.

### Takedown

`Takedown` EXTENDS `Orders`: its next-state relation is that of `Orders`
(`OrdersMove`) together with the moderators' requests.

* **State.** `marker` is `listings.moderation_state`; `actionState`, `actionOf` are the rows
  of `moderation_actions`; `taskState`, `operation`, `attempts`, `stale` those of
  `moderation_refund_tasks`, one for each action and order. A worker is a takedown or retry
  request that is draining: `workerStep` is its program counter, `todo` the rows
  its claim returned, `row` the one it is at.
* **Request.** `RequestTakedown` is one transaction; it waits for the rows a webhook has
  locked. The opposite order of the two locks is a deadlock PostgreSQL
  resolves by aborting one side; `WebhookDeadlocks` is the webhook's abort, the
  takedown's changes nothing.
* **Drain.** `ClaimTasks`, then for each row `CallStripe`, `MoveOrder`, `RecordSuccess`,
  `TellBuyer`. Each of the last four may fail into `TaskFails`, the loop's catch: Stripe
  may have done what was asked without the answer arriving, and a failure of the
  notification query puts a task that had succeeded back to `pending` or
  `failed`. The claim's LIMIT of 50 is left out: a listing has a few orders in flight.
* **Reconcile.** Four actions, one for each statement of `reconcileActionStates`, each over
  all actions. `Retry` and `Reopen` are the two statements of `retryFailedTasks`.
* **Time.** `stale` stands for `started_at` older than `STALE_PROCESSING_MINUTES`. With
  `SlowWorkers` a batch may outlast the limit while its request still works on
  it; without, only rows of a request that died grow stale. The run has it FALSE; the
  theorems cover both.
* **Stripe** honours a replayed key (`replays`); that it forgets keys after a day is left
  out, since a second full refund of one payment is refused anyway.
* **History.** `slipped` marks orders placed on a listing already hidden.

### Messaging

A thread is a pair of listing and buyer, whose `conversations` row may not exist yet. An
element of `Posts` is one request that sends a message together with the job it may start.
`sendBuyerMessage` is `CheckListing`, `OpenConversation` (and `ReadConversation` for the
loser of two INSERTs); `reply` is `LoadConversation`, `CheckBlock`; both go on with
`InsertMessage` and end with `SellerAnswers` or `BuyerAnswered`. The latter starts
`triggerAiReplyInBackground` without waiting: `ClaimAiReply` (the conditional UPDATE), then
`Dispatch`, where the queue takes the job, refuses it, or takes it while the answer is lost,
in which case it is run in the web process as well. `Deliver` hands a job to a worker, also
a second time when the first was taken to have stalled; `RunAiReply` ends a generation,
by the INSERT that looks at `seller_replied` again or by releasing the claim, which it does
without asking whose it is. `HolderDies` and `RunDies` are the deaths that leave a claim.

### Listings

One listing with everyone who writes its row or counts on it. An edit is `OpenForm`,
`UploadPhoto`, `UpdateRead`, `UpdateWrite`, `DeleteReplaced`: the form sends back the photo it
was opened with, the request deletes the photo it read. Removal counts conversations, then
deletes; a foreign key refuses what meanwhile refers to it. A status button is `SellerReads`, `SellerChecks`,
`SellerWrites`: the write is by id and looks at nothing. The checkout window is in full,
with `InsertOrder` committed and its answer lost; the webhooks that follow it are
one step each, since `Orders` has them in full, and so is the `Sweep`, which skips any set of the pending orders
(their rows may be locked) and frees the listing all the same. `CheckBlockers` and `Erase` are the two halves of
`deleteAccount`. `odd` records which of the things happened that `SoldOnce`, `PhotoStands` and `ErasedOwesNothing` name
as exceptions: `lostAck`, `skipped`, `relisted` (a button took the listing from a checkout or from a sale), `resent`,
`during` (a checkout in its window across the check of the blockers), `late` (a button pressed before the erasure and
written after it). Reconciliation reads all orders at once (`ScanStart`) and asks Stripe about
one at a time (`ScanOne`, `Classify`).

### Standing

A count is abstracted to the set it counts. A recount is an UPDATE with a subquery:
`CountStarts` takes its snapshot, `CountWrites` waits for the users row and writes.
A move of an order runs both, for seller and buyer, inside its transaction (`Move` ...
`CommitMove`), a resolution once more after it; a review runs the rating's
(`RateStarts`, `RateWrites`) after its own commit. `MoveFails` includes the deadlock of two moves
that hold each other's users row. Payouts: `Onboard`, `CreateAccount`, `SaveAccount`; `account.updated` in any order;
`LookUp`, `Retrieve`, `SaveLook` of the status request.

### Accounts

Requests at one row. `verify` is `VerifyRead`, `ClaimAttempt` (one conditional UPDATE), `CompareCode`
against the row read first, `Verified`. A login is `LoginRead`, `ComparePassword`,
`RecordFailed` or `ClearFailed`. A request for a link is two statements, `BurnOld` and
`IssueLink`; a reset is one transaction whose statements are actions, because it holds a link
and a users row that other requests wait for. What is guessed is nondeterministic.

### Sessions

A token is a row of `refresh_tokens` and the access token issued with it. `RotateRead` takes the
row lock, `RotateCommit` inserts the successor. A revocation of several rows (`sweep`) sees the
rows there are when it starts, waits for the locked ones (`SweepWaits`), and misses what is
inserted since: this is what decides whether "log out everywhere" is true. A token is `born` under the
`session_version` its session began with; a successor inherits it from the token it was exchanged for, however late the
exchange commits, and the session with which a device stays signed in is of the version its own bump returned. A sweep remembers the version it is
`for`, and which older sessions `evaded` it by an insert where the UPDATE no longer looks: `SweepCovers` names these, `SessionsEvicted`, the
statement of the code's comments, does not, and is violated. The browser keeps
cookies whose tabs refresh each for itself; the app has one refresh in flight and forgets its
pair when an answer does not arrive. `disturbed` marks the devices that lost an answer.
`refresh_tokens` has no `session_version`, so that `rotateToken`'s comparison compares the user's
value with itself; what protects is the revocation alone.

### Uploads

Keys from `CreateUpload` to a verdict, under S3 (a PUT past the server, while the URL is open) and the local
driver (a route that checks, writes, moves). A finalization is a queued job or, without a queue, the
request itself; a job reads, publishes, cleans quarantine, records, and `Stumble`s
at any of these; the worker fails the row on the last attempt before it rethrows. `StorageFails` may have stored the public
object all the same (`landed`).
`ProcessDies` hands a job out once more and drops it the second time (BullMQ's `maxStalledCount`).

### Boot

Each process goes `Start` (what is unapplied), `RunFile`, `CommitFile` (the
primary key of `schema_migrations` refuses the second), `CountListings`, `Seed`, and serves. `Stop` is a
failure, a signal or an upgrade at any point; containers are restarted. Users publish, remove and
erase beside them.

### Threads, Catalogue, Devices, Desk

The clients, with requests that overlap, fail, and land on screens that moved on. `Threads` has the web inbox,
the thread of a listing's page and the phone's; a request goes on (reply, list, mark) as the code's promise
chains do. `Catalogue` has the grid, which cancels its first page and not its next one, and the feed, which cancels
nothing. `Devices` has one phone, its memory and its secure store, any number of registrations under way, a refresh that
stores its pair whoever has signed in by then, and the row of `push_tokens`. `Desk` has the sheet, the phone's purchase and a list
of orders; its server is `OrderPromise`: what `Orders` is proved to implement is what the clients are
checked against.

## Runs

| Run | Instance | Shows |
|---|---|---|
| `orders_safe` | one listing, two attempts, two webhook requests, all seller buttons, one crash | `SoleHolder`, `HolderKeepsListing`, `CapturedMoneyAccounted`, `SoldLeavesBySeller` |
| `orders_live` | the same with one webhook request, no buttons, `FairSpec` | `PaymentSettles`, `LatePaymentReturned`, `ReservationEnds` |
| `orders_sweep_race` | the same without crashes | **violated** `PaidIsOffTheMarket`: a paid order on an active listing |
| `takedown_safe` | one listing, one order, an admin, two actions, two workers, two attempts, one crash | `FinalizedIsSettled`, `OneWorkerPerTask`, `TakedownCoversOrders`; `OrdersStillSound` and `PromiseStillKept`: the inductive invariant of `Orders` and its promise survive the saga |
| `takedown_live` | one action, two workers, one attempt, `FairSagaSpec` | `SettledFinalizes`, `ExhaustedNeedsAttention` |
| `listings_life` | one listing, two edit forms, the seller's buttons, three checkouts, removal, question, four erasures, a pass | `PhotoStands`, `SoldOnce`, `ErasedOwesNothing` |
| `listings_missed` | the same with two checkouts | **violated** `ChargesAreFlagged`: a charge beside an expired order is in no issue |
| `members_rows` | `Standing`: two users, two orders, two reviews, two onboardings, a status request. `Accounts`: three requests, two codes, three links, limits of two. `Sessions`: a browser with two tabs or a phone, two sign-ins, a reset, three tokens | `ProfileMatches`, `PayoutsReachSeller`, `GuessesBounded`, `OneLiveLink`, `SweepCovers`, `ReuseExplained`, `EndedStaysEnded` |
| `sessions_evicted` | two browsers, one sign-in each, one bump | **violated** `SessionsEvicted`: a refresh that holds its token's row outlives the other browser's log out everywhere |
| `processes_end` | three processes on a fresh database, two releases, two mishaps; then one key finalized up to twice (on the local disk once), two tries; or one thread, two buyer messages and a seller's, a queue with two deliveries; with fairness | `MigratedOnce`, `SeededOnce`, `BootEnds`; `VerdictIsTrue`, `RawIsGone`, `FinalizeSettles`; `OneStandIn`, `QuietAfterAnswer`, `ClaimAccounted`, `ClaimEnds` |
| `clients_shown` | two conversations, three screens; five listings in pages of two; one phone, two users; one order, six moves; two requests each | `ReadWasShown`, `ScreenCurrent`, `GridWhole`, `PagingMoves`, `PushFollowsSignIn`, `DeskTellsTruth` |
| `desk_confirmed` | one order, one request | **violated** `ConfirmedIsPaid`: "order confirmed" for an order that expired |

The exceptions that an invariant names are part of what it says; each stands in the comment above it and
was put there because TLC showed the invariant violated without it.

**Bounds.** Every guard of `Orders` looks at one listing, one order, or the pending orders of
one listing, and a conflict needs two attempts; two webhook handlers give
concurrent deliveries of one event and of two. One crash leaves each intermediate
state behind. A task of the saga is written for an order, and orders meet only through their
listing, so the saga has one order; two actions allow a takedown, a restore and a second one. Two
attempts instead of the code's five tell a first from a last; `takedown_live`
has one, so that its only attempt is the last. In the messages of `processes_end` two buyer messages
contend for the claim, one seller's message ends it, and two deliveries are one
redelivery. In `members_rows` three requests are needed for a lockout passed by one more than its limit, two moves of
the same two users for a deadlock, three tokens for a successor of a successor. Three processes at `Boot` allow two to race while one serves.

**Constraints.** `listings_life` lets any four parties act in one behaviour, `listings_missed` any three
(`FewActors`), with one thing out of the ordinary (`odd`) at a time; the second form, the third buyer and a pass count for two. Four are enough for each exception: without any one of
`resent`, `lostAck`, `skipped`, `relisted`, `during` and `late` its invariant is violated in this instance, `lostAck` only by a third checkout. `takedown_safe` explores two actions
with one worker and without crash, or one action with two workers and a crash (`OneAtATime`). The parts of
`members_rows`, `clients_shown` and `processes_end` share no variable and are explored one after the other (`part`,
`serving`), since the product of independent parts would show nothing new; within `Standing`, deals and payouts are
independent in the same way, within `Accounts` codes and passwords. In `Sessions` a second sign-in and a reset are not combined. The bounds of the clients (`Bounds`) limit what is
in flight at once, not how long the user goes on. All these are written as constraints of the MC modules (in
`processes_end`, which checks liveness, as guards: a constraint would cut behaviours short; there two posts of the buyer, and two deliveries
of a job, which differ in nothing, go in turn); the modules themselves have none.

Symmetry permutes attempts, handlers, callers and the like and is used only in runs without liveness.
`CHECK_DEADLOCK FALSE` everywhere: a marketplace whose requests are all answered has nothing it must do.

**Fairness.** What the code's own scheduling gives, and no user:

* `Orders`: a request in progress is run to its end by the event loop (weak fairness of `CheckoutStep` and
  `HookStep`; crashes are bounded and not fair). Stripe redelivers an event until it is answered with 200; strong
  fairness, because another handler holding the row's lock disables the delivery again and again.
  `server.js` sweeps every five minutes (weak fairness of `ReservationExpires` and `Sweep`).
* `Takedown`: a request in progress is run to its end (weak fairness of `WorkerMoves`). Nothing drains
  periodically, so nothing is claimed across a crash: `takedown_live` has none.
* `Messaging`: the event loop dispatches what was claimed, workers take the jobs that wait, a generation ends by its answer or by its
  timeout. A post owes nothing: its process may die at any point.
* `Uploads`: the queue hands out what waits and a worker that lives goes on; deaths and refused statements are not fair and are bounded by the code's own attempts.
* `Boot`: a started process goes on, and a container that exited is started again (`restart: unless-stopped`); what stops it is bounded.

## Findings

Four statements of the repository are contradicted by its code; each has a run, and `PROJECT.json` quotes the lines.

1. The sweep skips a pending order that a webhook has locked and frees its listing all the same (`transactionsService.js:394`).
2. The forward pass of reconciliation leaves out expired orders, where a charge may stay (`reconciliationService.js:120`).
3. `orderStatus` calls an expired or cancelled order settled, and the sheet calls that confirmed (`transactionsService.js:645`).
4. The comparison that is to end the tokens from before "log out everywhere" compares a value with itself, and the revocation does not see the
   successor of a token whose row a refresh holds (`tokenService.js:117`).

Met while modelling, in the modelled behaviour, and without a run of their own:

* *Orders.* The seller's button checks for a pending order and writes without a condition: a checkout in between is overridden
  (`listingsService.js:476`). A late payment whose refund fails is answered with 200 and never tried again
  (`transactionsService.js:331`). An admin's resolution may return the money of an order the buyer completed meanwhile. Confirming
  receipt closes a dispute. Relist is accepted on a reserved listing.
* *Takedown.* A checkout that read the listing before the takedown claims it afterwards. A task's refund of an order that was completed meanwhile is
  executed (`moderationSagaService.js:115-135`). A task abandoned on its last attempt stays `processing` for good
  (`moderationSagaService.js:190`, against `tests/stripe-adversarial.test.js:234`, which tests an earlier attempt). A restore leaves `moderation_state`: after a second takedown the first
  action's end marks the listing finalized. A batch longer than ten minutes is executed by a second request as well.
* *Messaging.* `runAiReply` swallows a failed generation, so that the queue's three attempts are used only when a
  statement throws. A lost answer of the queue has the job run twice. An error thrown in the background trigger is nobody's: the handler of
  `unhandledRejection` ends the process.
* *Listings.* A lost acknowledgement of the order's INSERT cancels the intent of an order that exists, whose webhook later frees the next
  buyer's reservation: two sales of one item. So do the sweep of finding 1, whose order is then paid beside the next buyer's, and a button across a checkout. A button pressed
  before the erasure of its seller and written after it puts a listing on sale that the erasure kept because it was sold. A seller with a conversation or an ended order on an unsold listing can never be erased, since the foreign key aborts the
  transaction. The erasure removes no photo from storage, although `privacyService.js:143-145` says that listings "carry their photos"
  and are "removed outright".
* *Standing.* The flags of one Stripe account outlive its replacement by another. A review whose request died is
  not counted, and its retry meets the unique index before it comes to the recount.
* *Accounts.* Two links and two resets deadlock, and one is rolled back. A `verify` that read the row before a resend compares the old code and spends
  the new allowance. `failed_login_count` is not reset when a lock ends. The second of two concurrent sign-ups gets a 500.
* *Sessions.* A refresh in flight when the app signs out puts a usable pair back. A sign-in whose password was compared before a bump inserts its refresh
  token after the revocation, and keeps it.
* *Uploads.* `sweepAbandoned` is called by nothing. A finalization is accepted while another is queued. A public image stored by an attempt that heard no answer stays
  beside the failed row.
* *Boot.* `DEPLOYMENT.md:78` says that migrations are not run on container start; `initDb` runs them. Two first starts seed
  twice; a shop emptied after the erasure of the demo account cannot start. A SIGTERM before `listen` meets an undefined `server`.
* *Clients.* An older page asked for twice is put twice. After a page's worth of new listings the grid offers the same page for
  ever. A closed sheet's checkout goes on and reserves the listing. One `busyId` serves all rows: the end of any action
  enables the buttons of all. The comment at `app/api/endpoints.ts:78-84` says the app cannot pay; `FeedScreen` does.

## Proofs

Every safety and action property that a passing run checks is also a theorem: the run shows it on a small instance, the
theorem for every value of the constants. The theorems assume nothing but the named assumptions of the modules, which say
what type a constant has and these facts of the code:

* an order's parties are two different users and a review is about one of them (`StandingAssumption`; `checkout` refuses
  one's own listing, `reviewsService.create` asks for a completed order between reviewer and reviewee);
* limits and page sizes are at least one (`AccountsAssumption`, `TakedownAssumption`, `CatalogueAssumption`);
* finitely many requests are at one row, and finitely many listings are on sale at first (`IsFiniteSet(Requests)`,
  `IsFiniteSet(OnSaleAtFirst)`): both are counted, and a count of an infinite set has no meaning;
* there is a checkout at all (`Checkouts # {}`); a value that stands for nobody, no link, no row is none of the others.

Each argument is the same in outline: the property is a consequence of an invariant that is inductive, which is the
property itself strengthened by what requests in progress carry from one statement to the next.

**Orders**

* `TypeCorrect`: the types.
* `NoMoneyForgotten`: `CapturedMoneyAccounted`, with `MoneyInv`. The property
  is not inductive: a webhook acts on what it read. `HandlersInformed` says what it
  read still holds, `RowLocksExclusive` why (no second handler moves a locked
  row), `EventsTruthful` that a success event means captured money, `AdminsInformed`
  that a dispute's admin still faces a paid order, `MoneyBehindStatus` and
  `RowsMatchCheckouts` tie status, money and the attempt's step.
* `KeepsPromise`: each step maps to a step of `OrderPromise` or a stutter, under
  `Money(c)` computed from `intent` and `refund`.
* `Invariant`, `OneBuyer`, `ListingFollowsHolder`, `SoldStays`: the listing half.
  `SoleHolder` and `HolderKeepsListing` are proved together with `OnePending` (the
  partial unique index) and `OverdueAfterCheckout` (no reservation expires
  inside its window): a claim finds the listing active, so by `HolderKeepsListing`
  nobody holds it; a release, a cancellation or a sweep ends the one holder
  there is, so the listing may change.

**Takedown**

* `SagaInvariant`: `IInv`, `SagaTypeOK` and `SagaInv` together are inductive.
  `TasksTruthful` says a task's claim about Stripe
  (`replays`) and its own end is so; `WorkersInformed` that what a request carries
  from one statement to the next still holds, which needs that a batch has one
  row for an order and only a draining request has rows; `HandsUnclaimable` that a
  task in hand is too young to be claimed again. All rest on `Onward`: no step of
  the whole takes back an order's progress, a cancelled intent, a refund or a
  settlement. Most of `Onward` follows from the refinement of `OrderPromise`, so
  the abstract specification carries the proof of the detailed one.
* `NoBuyerForgotten`, `FinalizedSettled`, `OneHand`, `SagaTypeCorrect`: the safety properties and the types.
* `OrdersSurvive`, `PromiseSurvives`: the saga's cancellations, refunds and moves
  preserve the invariant of `Orders` and map to steps of its promise or stutters.

**Messaging**

* `MessagingCorrect`: `MessagingInv` is inductive. A claim has one owner (`OneOwner`): of all the posts of a thread at most one has a claim
  under way or has given its answer, unless one job ran twice, and then `ai_replied` or `seller_replied` is set, which is
  why nobody else can claim. What has run was claimed before, by a request that had been answered, and inserts when it ends
  (`RunsClaimed`). The flag is set before the seller's request is answered (`SellerFlagged`).
* `AtMostOneStandIn`: two messages would have two owners. `SellerHasLastWord`: the flag the seller's request set is what every INSERT
  looks at, whenever its run began. `ClaimsAccounted`: a claim that is neither worked on nor stranded has ended, with its message or its release.

**Boot**

* `BootCorrect`: what is recorded is a prefix of the migrations, each recorded one took effect once, and what a process has left is a
  tail of its files all before which is recorded (`InOrder`). So a file that a process runs next is either the first unrecorded one or recorded
  by another, and then refused. `MigrationsApplyOnce`, `SeedsOnce` follow.

**Sessions**

* `SessionsCorrect`: `SessionsInv` is inductive. A family has one usable token at most; a row lock is held on a usable token, by one exchange
  (`LockedIsLive`): a revocation waits for the lock, so the commit of an exchange marks used what is still usable, and
  its successor is alone. `WaitingHolds` says what a revocation that waits for a lock has in hand: every usable token from before its bump,
  but of the sessions that evaded it. A successor is as old as the token it was exchanged for, so one inserted before the revocation starts is among its
  rows, and one inserted while it waits is of a session that evades it.
* `SweepsCover`: what a revocation revokes when it ends is therefore every usable token from before its bump but of those sessions, and nothing
  but a sign-in compared before the bump adds one later. That the exceptions happen is `sessions_evicted`. `EndedForGood`: no usable token and no lock in a family means that
  nothing can insert one, since a sign-in begins a family only once (`FamilyBegins`).

* `ReuseIsExplained`: `ReuseInv` adds what the clients do. A device refreshes tokens of its own sign-ins (`OwnTokens`), one at a time as long
  as it is alone (`OneInFlight`: one tab, or the app, whose refreshes share one promise); what it sends was exchanged before only if it was not told of
  the exchange (`FreshInFlight`, `FreshHeld`). So a token that the server sees a second time was revoked, or an answer was lost, or there were two tabs.

**Standing**

* `DealsCorrect`, `ProfilesAreTrue`: a move's transaction has counted its parties in order (`CountsFollow`), no two transactions hold one
  users row (`HeldByOne`), and a count that was seen or written and not overtaken by another commit is the one its own commit makes true
  (`SeenIsTrue`). So the committed counters are always true of the committed orders, also while somebody holds the row: `ProfileMatches` says so since the proof. A rating
  is true, or overtaken, or a review of that user has yet to be recounted (`RatingsInv`).
* `PayoutsCorrect`, `PayoutsArrive`: what an event or an answer says Stripe enabled was enabled (`StripeSaid`); with requests one at a time every
  answer under way is about the account that is saved (`OneAccount`).

**Accounts**

* `GuessesAreBounded`: the comparisons made with a code, together with the requests that are about to compare, are at most the attempts claimed
  (`AttemptsClaimed`), since the conditional UPDATE claims before the comparison. For passwords the order is the opposite, hence the lesser promise: without
  a lock the strikes are those counted and those about to be; once there is a lock, whoever is yet to compare was past the check before it was set
  (`StrikesCounted`).
* `OneLinkLives`: of requests for a link that do not overlap, the one that burns holds all live links, the one that issues finds none (`LinksBurnt`).

**Uploads**

* `UploadsCorrect`, `VerdictsAreTrue`, `QuarantineEmptied`: a job keeps its key, one past the write has its object, and nothing is published nor judged
  without a job (`JobsKnown`). A key whose job ran once is over with its verdict and, unless storage took the image without saying so, has no object before it (`OneRun`). From the deletion on
  quarantine is empty, unless something was left there (`Swept`).

**Listings**

* `PhotosStand`: every photo that a row, a request or a form of somebody else names was written before, by its own form and once (`PhotosSeen`);
  what is yet to be written is stored (`PhotosStored`), what is about to be deleted is not what the row shows (`PhotoKept`).
* `OneItemOneSale`: one checkout at a time holds the listing, which is reserved or marked sold as long as it does and sold once its order is paid (`OneHolder`). This needs that a
  cancelled intent has no order (`OrdersFollow`), the clause that a lost acknowledgement breaks; the sweep keeps it as long as it skips no pending order, the
  buttons as long as they take the listing from nobody.
* `ErasedOweNothing`: between the reading of the blockers and the erasure nothing of that user is open, and what an erased seller leaves is a sold listing, which
  no checkout claims (`ErasureInv`), unless a checkout was in its window or a button found its seller erased.

**Desk, Devices**

* `NothingUntrueTold`: a sheet has an order from the checkout's answer on and its money from the payment on, and by `OrderPromise`
  neither is taken back to nothing (`SheetTrue`, `MoneyHasOrder`). Requests of the list that do not overlap come one at a time, and what they saw is no
  older than one's own last answered move (`ListTrue`).
* `PushToWhoIsSignedIn`: the phone holds and stored the signed-in user's tokens, what is under way is his, nothing is under way once he leaves, and his row is gone before he
  is (`RowFollows`); who is told has registered with the tokens the phone still holds (`ToldTruly`).

**Threads**

* `ReadMeansShown`: whatever counts as read and was neither shown nor let go is in an answer that some request will bring. The invariant
  adds that marks stay within the thread and that an answer has messages of its own conversation (`ThreadBase`).
* `ScreensGoForward`: unless the user crossed an answer, a screen has one answer out, for the thread it has open, and what it brings is not behind
  what is shown (`ScreenOK`). Then no landing takes anything back.

**Catalogue**

* `GridsAreWhole`, `PagesBringNews`: as long as nothing left the list, what is shown comes before all that was there and is not shown (`Reached`),
  the next page is asked for behind it (`Requested`), and what came since is counted (`Counted`). An offset is a rank in the query's order; where no two places tie
  that order is strict and total, so ranks have no gap (`NoGap`) and at most `o` listings are below rank `o`: a page at the offset of what is shown starts no later than at the first listing
  that is not, and brings nothing new only if a page's worth of newcomers stands before it (`PageReaches`).

**Model-checked only.** Liveness (`PaymentSettles`, `LatePaymentReturned`, `ReservationEnds`, `ClaimEnds`, `BootEnds`,
`FinalizeSettles`, `SettledFinalizes`, `ExhaustedNeedsAttention`), since the prover has no ENABLED, and the four statements that
the code contradicts.

## Not modelled

* Prices and fees (integers, one rounding), search text and the geography of a search beyond an order by distance.
* The reverse pass of reconciliation: it looks for PaymentIntents without an order, and one that could be paid needs the client secret that only an order's answer carries. It stops after
  its limit of PaymentIntents. Refunds made in Stripe's dashboard, and the run log.
* Rate limits, validation, CORS, configuration checks, the pool, PostGIS probing: they refuse requests or choose a query.
* Reports, analytics, favorites, geocoding, the sitemap, the export: single statements or reads.
* Notification rows and e-mail: written beside a step and read by no other operation; `web` notification bell and hooks, `useMyListings`, favourites hooks, and the list that the web
  keeps of a user who logged out until the next fetch.
* Expiry of refresh tokens after 30 days; `login_events`; the badge derived from counts.

## Plan

1. Desk's theorem rests on `OrderPromise` and `Orders` is proved to implement it: compose the two in one statement. `Listings` as a refinement of
   what `Orders` says of the checkout window, with the lost acknowledgement moved there.
2. `SlowWorkers = TRUE` as an instance of its own; two listings in `Takedown`.
3. The reverse pass with a Stripe dashboard; notification rows and their read marks; the web's lists across logout.
