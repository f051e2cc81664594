# Verification of the whataisle platform

TLA+ models of the store platform in this repository, model-checked with TLC,
and theorems about them checked with TLAPS. The models are written from the
code; each definition and the lines it stands for are listed under `map` in
`PROJECT.json`.

## 1. The system

A platform (Next.js, PostgreSQL, `src/src`) sells subscriptions to store owners
through Stripe. For every paying owner it sets up a store: a copy of the WhereBear
application (`src/apps/wherebear`) with its own MongoDB database, systemd unit and
route on one shared machine. A worker on that machine (`src/scripts`) sets stores
up, turns their search on and, after an owner stopped paying and the retention
time is over, deletes them. In a store, staff take photos of shelves on a
phone; a queue on the phone and one on the server turn them into products.

| component | state | operations | hard because |
|---|---|---|---|
| billing service `payment/store-billing/service.ts`, `model.ts` | `store_subscription`, `store_checkout`, `store_billing_notice` | createCheckout, schedulePlan, cancel/resumeRenewal, handleEvent, reconcile | writes two systems (database and Stripe) with no common transaction; reads Stripe before it acts |
| repository `repository.ts` | the tables, the writer queue, advisory lock 619914199 | transaction | one global writer; webhooks read Stripe outside it |
| Stripe gateway `stripe-gateway.ts` | none; sessions, subscriptions, schedules and invoices at Stripe | createCheckout, expireCheckout, stopCollection, ... | idempotency keys, ambiguous answers, collection goes on by itself |
| capacity `capacity.ts` | none | storeCapacityForOwner | counts reservations, payments and stores |
| owner operations `data/owner-store.ts` | `store`, `store_runtime`, owner entries | createOwnerStore, activateStoreSearch, requestStoreCleanup, retryStoreProvisioning, entries | share rows with billing and with running jobs |
| store jobs `data/store-provisioning.ts`, `api/internal/provisioning` | `store_runtime`: one row, one job at a time, a lease | claim, heartbeat, credentials, complete, fail | leases, retries, late calls |
| worker `scripts/store-provisioning*.mjs` | one running job; state files, database, files, unit, route of every store | provision, activate, archive | crashes in the middle, lost leases, irreversible steps |
| scan jobs `apps/wherebear/lib/scan/{jobs,worker}.ts`, `api/vision/jobs` | `scan_jobs` documents, photo and result files | submit, claim, complete, fail, poll, acknowledge, sweep | files and documents are not written together; restarts |
| scan queue `apps/wherebear/lib/scan-queue` | items in memory and in IndexedDB | enqueue, submit, poll, save, retry, restore | reloads, lost answers, unordered local writes |
| Stripe payments `payment/provider/stripe.ts`, `credits/credits.ts` | `payment`, `user_credit`, `credit_transaction` | webhook handlers, addCredits, consume, gifts | events late, repeated, reordered and concurrent; rows and balances written without a transaction |
| store access `apps/wherebear/lib/store-runtime.ts`, `data/owner-store.ts`, `api/store-access`, `api/owner-entry` | `store_owner_entry`, `pinVersion`, `staff_pin_attempts`, cookies | owner links, unlock, authorization, change of the password | check and use are separate; two databases and a cookie must agree |
| floor map `api/store-map`, `components/editor` | `store_floor_map`, drafts in the browser | publish, save, locate | two editors, stale drafts, shelves in use |
| rate limits, try-out scan | counters | consume, peek, refund | check and use are separate |
| agents, mail, storage, accounts, pages, deployment | - | - | no protocol of their own |

How they meet: a paid checkout allows `createOwnerStore`, which inserts the store
and its first job; a suspension that is older than the retention time allows
`requestStoreCleanup`, which turns the row into an archive job; the completion of
that job closes the store and frees its place of the machine. Billing, creation,
cleanup and retry share the advisory lock; the calls of the worker only lock the
job row. The worker and the platform share HTTP calls and nothing else. Stripe
reports by webhooks and the billing timer asks it.

What makes them correct: an owner is never charged twice, nor for a store that is
being deleted; every payment is applied and nothing unpaid is served for long;
promises (bonus, test openings, places) are kept once; a worker believes in a
lease only while it has it; a ready store serves; a closed store is clean;
cleanup happens only when confirmed and is never undone; every job is decided.
The scan pipeline must not lose a photo, mark it saved when it is not, or pay for
its recognition twice. A payment is recorded once and credited. A link opens once, a
cookie follows the password, guesses are bounded, and no edit of a map is lost.
`PROJECT.json` lists the hazards at their lines and the property that watches each.

## 2. Modules

    BillingModel                      rules of one account (operators only)
      ^ EXTENDS
    StoreBilling      <- MCStoreBilling + MCBilling*.cfg
      ^ EXTENDS
    StoreBillingProofs                theorems (TLAPS), on top of
    BillingModelProofs                lemmas about the rules of one account

    StoreContract                     what billing and provisioning rely on (abstract)
      ^ INSTANCE WITH standing <- what billing says of each owner: StoreBilling
      ^ INSTANCE in
    StoreLife                         what is promised of a store (abstract)
      ^ INSTANCE WITH parts <- what the machine has of each store
    StoreProvisioning <- MCStoreProvisioning + MCProvisioning*.cfg
      ^ EXTENDS
    StoreProvisioningProofs <- ProvisioningServiceProofs    theorems (TLAPS)

    PhotoLife                         what is promised of a photo (abstract)
      ^ INSTANCE WITH kept <- the photos that have a record
    ScanQueue         <- MCScanQueue + MCScan*.cfg      the phone, composed with
      | EXTENDS
    ScanJobs                          the server's jobs, for any phone
      ^ EXTENDS
    ScanJobsProofs <- ScanQueueProofs theorems (TLAPS)

    StripePayments    <- MCStripePayments + MCStripePayments.cfg
      ^ EXTENDS
    StripePaymentsProofs              theorems (TLAPS)

    StoreAccess       <- MCStoreAccess + MCStoreAccess.cfg
      ^ EXTENDS
    StoreAccessProofs                 theorems (TLAPS)

### BillingModel and StoreBilling

`BillingModel` is what one transaction does to one owner. An account is a record:
`b` the subscription row, `c` the checkout rows by request id, `n`/`m` the notices
waiting and mailed, and, Stripe's side, `e` the sessions and `u` the
subscriptions. `ApplyInvoice`, `ReapCheckouts` and `ReconcileOne` map an account to
an account as `applyInvoice`, `reapCheckouts` and `reconcileOne` do;
`StopCollection`, `SetCancelAtEnd` and the like are the calls of the gateway.

`StoreBilling` adds the owners, the clock, the status of each owner's store, the
webhooks that were read and not handled, and what a running reconciler has read.

| action | code |
|---|---|
| `ReuseCheckout`, `ReserveCheckout` | first transaction of createCheckout: settle, check, expire the old attempt, reserve |
| `OpenCheckout` | its second transaction: create the session |
| `SchedulePlan`, `SetRenewal` | schedulePlan, cancelRenewal, resumeRenewal |
| `ReadEvent`, `HandleEvent` | readEvent outside the transaction, handleEvent inside |
| `ReconcileRead`, `ReconcileCommit`, `ReconcileAbort`, `SendNotices` | reconcile: what it reads, what it does with it, failure, the mails |
| `CreateStore`, `RequestCleanup`, `FinishArchive` | the store operations that decide on the same rows |
| `Pay`, `ExpireSession`, `Renew`, `Collect`, `Refuse`, `EndSubscription`, `Tick` | Stripe, the customer and the clock (external) |

A transaction is one action because it runs under one lock. What the lock does not
cover is split: the read of a webhook and its transaction; the reads of the
reconciler and its writes, between which Stripe and customers go on; and, through
`Commit`, the effects at Stripe of a transaction that then does not commit. The
same gap between a read and the act inside the sweep that createCheckout begins with
is shorter and is not split again; nor are the two transactions of reconcile joined.

Abstractions. One unit of time is at least a day, longer than the life of a
session and of an idempotency key, so the clock waits for open sessions to end.
Months are `MonthTerm`, `YearTerm` and `BonusTerm` units. Money, tax and currency
are left out. A Stripe subscription keeps its latest invoice only, which is what
the gateway looks at. An owner has one store, as `owner_user_id` is unique.
Deliveries of an event already handled are no-ops (`hasEvent`) and left out.

### StoreProvisioning

`job[s]` is the row of `store_runtime` with the lease and the pause before a retry
as the time left of them; `vm[s]` what exists of the store on the machine; `work`
the one run a worker is in, with what it believes of its lease (`left`, `lost`) and
the stage it is at; `late` the calls still on their way.

| action | code |
|---|---|
| `CreateStore`, `ActivateStoreSearch`, `RequestStoreCleanup`, `RetryStoreProvisioning` | data/owner-store.ts |
| `ChangeStanding` | what billing decides about the owner, as StoreBilling allows it |
| `Claim`, `ClaimLost`, `ClaimNothing` | claimStoreJob with the activations it refuses on the way; its answer may be lost |
| `BeginStep`, `FinishStep`, `StepRefused`, `StepLosesLease`, `StepFails`, `StopWithoutLease` | the stages of provision, activate and archive, assertLease, the catch block of runOnce (`GiveUp`) |
| `Complete`, `CallDelayed`, `Arrive` | calls that arrive at once, or after the worker gave up |
| `Heartbeat`, `HeartbeatRefused`, `HeartbeatLost` | the timer of runOnce and renewStoreLease |
| `Crash` | the death of the process or the machine, in or between stages |
| `Tick`, `TickUnrenewed` | time, with the timer running as it should, and not |

Abstractions. `flock` allows one worker process on the machine: one `work`. A
store has at most one job of each kind, so its kind stands for its id. Tokens are
fresh (`newSecret`). A stage that fails leaves the machine as it was, or as if it
had succeeded, or (archiveFiles) between (`Partial`). The counter `attempts` never
decides anything. The queue's order (`nextAttemptAt`) is a free choice, with the
fairness below. `Capacity` is `config.maxStores - 1`, WhereBear's place being taken.
The worker's and the platform's clock advance together: 15 seconds (`Margin`) are
the code's allowance for anything else.

### StoreContract and StoreLife

`StoreContract` is the interface of the two modules: the status of a store and what
billing says of its owner, `paid`, `suspended` or `due` for cleanup. A store is opened
for an owner who has paid, closing begins when the owner is due, and an owner whose store
is closing stays unpaid. Nobody goes from paid to due without being suspended first.
`ContractKept` says that StoreBilling keeps it, with `Standing` (billingAccess and the
condition of requestStoreCleanup) for what billing says. StoreProvisioning does not look
at accounts: its `ChangeStanding` is what `StoreContract` lets billing do.

`StoreLife` adds the machine. A store gets its parts (database, files, process, route,
index) and is delivered when it has what it needs to serve; it loses none until its
cleanup is requested, which is possible for a delivered store only, and from then on it
gains none but an index put up by an activation that was cut short; it is closed when
nothing is left. Every step of StoreLife is one of `StoreContract` or leaves it alone.
`LifeKept` says that StoreProvisioning, with its leases, retries and crashes, is an
implementation. So what provisioning assumes of billing is what billing is shown to keep,
and what billing assumes (a closing store is closed once, by the archive) is what
provisioning is shown to do.

### ScanJobs and ScanQueue

`ScanJobs` is the server of one store: `doc[p]` the document of `scan_jobs` for a
photo, `disk[p]` its files, `posts` and `acks` the requests being served, `runs` the
jobs in the worker's pool, `victims` the directories a sweep has listed, `proc` the
process and `gate` the readiness the platform gives. Every write of a document or a
file is a step of its own, so a crash falls between any two of them.

| action | code |
|---|---|
| `PostSend` ... `PostCreated`, `PostRefused`, `PostFull`, `PostTooLarge`, `PostBroken`, `PostDropped` | POST api/vision/jobs: ready, cap, write of the photo, `CreateOrGetJob` (createOrGetJob with `Resubmitted`), the answer or its loss |
| `LookupAnswer`, `LookupWrites` | GET api/vision/jobs/[id], with the result that is lost or unreadable |
| `AckSend`, `AckIgnored`, `AckEmptied`, `AckDeleted` | DELETE api/vision/jobs/[id]: the directory, then the document |
| `Claim`, `RunRead`, `RunPhotoLost`, `RunScanned`, `RunScannedBlank`, `RunCompleted`, `RunFailed` | claimNext and runJob of worker.ts |
| `LeaseAges`, `Expire` | the stale time of a lease, the TTL index |
| `Crash`, `Restart`, `BootReclaims`, `BootFails`, `SweepLists`, `SweepRemoves` | the death of the process and the boot: reclaimStale, sweepOrphanDirs |
| `Withdraw`, `Reopen` | the store becomes unready and ready |

`JobsNext` lets phones send anything at any time; the theorems about the server hold
for it, and `ScanQueue` is one such phone. It has what a reload loses (`item`,
`blobs`, `polls`, `save`, ...), the records of IndexedDB (`rec`) with the
transactions still pending for each (`idb`), and the catalogue as the phone sees it
(`listed`, `fresh`, `writes`).

| action | code |
|---|---|
| `Enqueue`, `RetryItem`, `RemoveItem` | store.ts and pump.ts, as the staff call them |
| `Submit`, `SubmitSends`, `SubmitUnreadable`, `SubmitAnswered`, `PumpRests` | pump, submitOne, prepare-photo.ts |
| `PollAsks`, `PollAnswered`, `PollLost`, `JobOver` | pollOne |
| `SaveStarts`, `SaveServed`, `SaveBroken`, `WriteLands`, `SaveEnds`, `TimePasses` | saveOne, postSave, verifyServerSideSave; the save itself is api/shelf-evidence, external to the queue |
| `Failure`, `FailureLate`, `WaitOver` | handleFailure with its backoff |
| `IdbStep`, `Update`, `Delete` | outbox.ts: pending transactions reach the records in order |
| `Online`, `Resume`, `Pause`, `Refresh`, `RefreshFails` | the online event, QueueBoot and the configuration polled by StoreRuntimeProvider |
| `Reload`, `Restored` | the death of the page and restoreOutbox |

Abstractions. A photo has one shelf and one job at a time; ids are never used again
(`FreshIds`). outboxUpdate reads a record and puts it in two transactions the pump
does not wait for: the patch is merged with the record as it is committed when the
update is issued, so of two updates issued together the first is lost, as in the
code (`JobOver` followed at once by a submission; found products followed by the
start of the save). A poll is answered and handled in one step; the result file is
written and the photo deleted in one; a claim may take any queued job where the code
takes the oldest; the expiry of a job somebody still waits for costs a fault.
`Written(p)` keeps an answer or a retry from meeting a transaction of its photo that is
still on its way, `Quiet(p)` a backoff or a page load from meeting a request; the staff
may retry and remove a photo while its requests are served. Two tabs of one browser
are outside the model.

Met while modelling and inside the model, with no property against them: attempts
are not set back between recognition and saving though the interface speaks of tries
per stage; after the staff retry a photo, a late 429 of its old submission may put it
back to queued when it is already saved, without its bytes, and it stays detecting until
the page is loaded again; reclaimStale runs at boot only, so a job abandoned inside the lease's
stale time is found by the TTL index or the next boot; the cap of the queue is counted
before the insert.

### PhotoLife

The abstract specification of the pipeline: a photo is kept, listed, given up or
released, and released only when it was given up or a photo of its shelf was listed.
Its own products would be the better promise, but the code does not keep it:
verifyServerSideSave takes any product of the shelf for an answer (`scan_false_save`).
`Life` of ScanQueue instantiates it with the photos that have a record as `kept`;
`PhotoKept` is its `Spec`, checked in `scan_shelf` and proved.

### StripePayments

The webhook handlers of the older payments: `Complete`, `Pay`, `Renew` and
`SubChanges` are Stripe; `Deliver` hands an event to one of the handlers, `Repeat`
delivers an old one again. A handler takes one step per await.

| action | code |
|---|---|
| `CheckoutCompleted`, `InsertRow`, `InsertDuplicate` | onCheckoutCompleted and the insert of the payment row |
| `InvoicePaid`, `InvoiceUnknown`, `MarkPaid` | onInvoicePaid: find the row or make Stripe come back, mark it paid |
| `NoBenefit`, `ReadBalance`, `WriteBalance`, `WriteLedger` | the credits of a plan or package: canAddCreditsByType, addCredits, saveCreditTransaction |
| `SubscriptionChanged` | onUpdate/onDeleteSubscription with the status read from Stripe |
| `Answer`, `Broken` | the webhook route's 200, or its 500 after an exception at any await |

Abstractions. One user; every grant is one credit. An event's invoice and session
exist. canAddCreditsByType and the read of the balance are one step. A renewal comes
when everything older is done, and only the newest events are repeated. Checkouts of
plans are refused by today's action, so the subscriptions are those sold before.
The insert of a duplicate is answered or thrown, depending on how the driver wraps
the message the code looks for. A session has its invoice when it completes, as a comment
of the handler says (stripe.ts:1041); the column may be null (stripe.ts:1069), and rows
without an invoice would not exclude each other. Consumption, gifts and expiry of credits are not
modelled. The ledger can credit a redelivered invoice.paid twice, although comments
(stripe.ts:616-623, app.schema.ts:15) say duplicates are caught: that is why
`CalmBooks` speaks of calm behaviours only. Two handlers that read and write one balance
or one subscription's status lose updates (`WriteBalance`, `SubscriptionChanged`): the
model does what the code does, and no property forbids it, as nothing in the repository
promises otherwise.

### StoreAccess

`pin` is the version of the store's password on the platform and stands for the
password; `entry` the links of the owner; `session` the cookies of each device;
`tries` and `wrong` the attempts counted and the wrong passwords compared in each
five minutes; `map` and `draft` the published map and the one in each browser;
`calls` the request of each device, which takes one step per await and may fail at any.

| action | code |
|---|---|
| `ChangePin`, `CreateOwnerMapEntry`, `InsertEntry` | data/owner-store.ts: new password; a link is made from a row read before |
| `OpenLink`, `ReadConfig`, `ConsumeOwnerMapEntry`, `EnterEditor` | api/runtime/owner-entry of the store, and of the platform, which consumes the link |
| `Unlock`, `Reserve`, `Release`, `Answer` | verifyStorePasscode and its budget of attempts, the staff cookie |
| `Publish`, `AskPlatform`, `ReadMap`, `WriteMap`, `EditorOpen`, `LoadMap`, `Draw` | api/store-map and FloorMapEditor with its local draft |
| `Work`, `CheckShelf`, `Stock` | api/shelf-evidence: products are located at a shelf of the map |
| `Fails` | a request that is refused or dies at any await |
| `NextWindow` | five minutes pass |

Abstractions. Billing access, readiness, expiry of links and cookies, checks of
origin and host, and the geometry of a map may refuse a request whatever the rest
does: they are `Fails`. A device has one request at a time and the cookies of one
browser. The password typed is the current one or wrong. Of a map there is its
revision and its set of shelves. `Session.by` is not in the code: it records which
version the holder proved to know, for `SessionsFollowPin`. The unmanaged WhereBear
store and the public search routes are left out.

## 3. Runs

| run | question | bounds |
|---|---|---|
| `billing_account` | every retry and failure, no webhooks: charged once, one pending attempt, suspended means uncollectible, closing means unpayable, bonus once, data retained; the machine and the test are not oversold; billing keeps `StoreContract` | `AccountSpec`: one owner with 2 attempts (a payment and one more) and time to 5 = a period, its grace, the retention and one more payment (to 4 with a bonus); or two owners with 1 attempt each, time to 3, for one place and one test opening |
| `billing_webhooks` | the same with webhooks read early and handled late: no payment forgotten or refused, nothing granted unpaid, nothing taken away | 1 webhook in flight (a delayed one is stale against everything else), time to 3 |
| `billing_live` | payments are applied without webhooks; who stops paying is suspended | time to 3 |
| `provisioning` | leases, ready stores serve, admitted stores find room, the jobs implement `StoreLife`, every job is decided | `MCSpec`: one store, 3 faults, 4 tokens, 2 late calls after two faults and 1 after three (a lost call, a takeover and a late call of the first run); or two stores, 1 fault and no late call, for one place; Lease 3, Margin 1 |
| `scan_pipeline` | one photo from the shutter to the catalogue, retried and removed by the staff: jobs are run and finished by their owners, a poisonous photo is parked, what is done is not paid for again | 1 fault anywhere, 5 job ids, every cap 1, 2 attempts, 1 lookup in flight, 3 pending transactions |
| `scan_shelf` | two photos of one shelf in one queue: records outlive everything but products of the shelf, every photo is settled | 1 fault or 1 removal, 1 attempt, 2 pending transactions; `ShelfSpec` leaves out retries by the staff, the sweep and an outage longer than the poll of the configuration, and takes the photos in one order, in which the pump looks for its next, as the code does |
| `scan_pause` | readiness withdrawn and given back between two polls | one photo; see below |
| `scan_false_save` | two photos of one shelf, one after the other | 1 fault (a broken save); see below |
| `credit_payments` | one checkout of any kind, its renewal, all its events | 2 handlers at a time, 1 fault or repetition |
| `store_access` | two devices, two links, two shelves: links, cookies, guesses, map | 1 guess (10 in the code), 2 passwords, 2 spans of five minutes, 2 map revisions; `FewSpec` allows at most two events of: a link is made, the password changes, a wrong one is compared, five minutes pass, a shelf is stocked, the map is published |

The passing runs take between half a minute and two minutes on two
cores. Between them every action fires, and every property has a mutant of the code
that breaks it (`PROJECT.json`, `mutants`); the mutants stand before the definitions
they change. `provisioning` checks for deadlock. In
the others the system may stop: the clock of billing at `MaxTime`, a queue with
nothing left to do, a checkout nobody touches, devices without requests.

Why the bounds suffice. What goes wrong in these protocols goes wrong with one stale
reader and one writer, or one dead run and its successor: two attempts, handlers,
devices or runs. The bounds on faults allow the loss and what is done about it. For
what the theorems of section 4 state no bound matters: they hold for every value
of the constants, and `FewSpec`, `AccountSpec`, `MCSpec` and `ShelfSpec` restrict TLC
only. Two of their limits should be known: of the map `FewSpec` exercises the race for the
first publication, and what comes after it (edits of one revision, assertShelfContinuity)
is shown by the theorems `NoEditLost` and `ShelvesStay`; and `scan_pipeline` runs one job
at a time (PHOTO_CONCURRENCY is 1), so that two runs never share one is `RunsOwnJobs`.

Four runs show where the code does not do what the repository says of it
(`findings`):

* `billing_stale_event`: a webhook read before an owner resumes the renewal and
  handled after it marks the renewal cancelled; a timer run that finds the renewal
  not yet collected suspends the store without the settlement time.
* `billing_read_act`: a renewal collected between the reconciler's read and its
  stopCollection is charged for suspended time.
* `scan_false_save`: a save whose stream breaks is taken for done because another
  photo's save has just updated a product of the shelf; the photo is marked saved and
  its record deleted, with its products nowhere. `OneByOneSpec` leaves only this
  behaviour: photos one after the other, nothing out of order but a save.
* `scan_pause`: a 409 store_preparing pauses the queue, and only a change of the
  configuration polled every ten seconds resumes it. A store that was unready and is ready
  again before the next poll leaves the queue paused for ever, although a comment
  (StoreRuntimeProvider.tsx:68) says that opening upload never needs a reload.

A smaller one has no run: archive begins `unroute` and `archiveFiles` without asking
for its lease (store-provisioning-core.mjs:309), where docs/AUTOMATED-STORES.md:212
says that lease loss prevents subsequent stages. It prevents the completion, and one
worker runs at a time, which is all the properties need.

Fairness. `StoreBilling!FairSpec`: systemd starts the reconciler every five
minutes (`ReconcileRead`, weak), and not every run of it fails
(`ReconcileSucceeds`, strong, as reads and commits of a run may be lost again and
again). Stripe, customers and webhooks owe nothing. `StoreProvisioning!FairSpec`:
the worker's steps, its heartbeat and the clock are weakly fair, for systemd
restarts the worker and it asks for work every 15 seconds; the turn of each store
in the queue, to be leased or to be refused on the way, is strongly fair: the queue
is ordered by the time a job was due, a failed job goes behind those that wait, so a
waiting job is overtaken a bounded number of times (crashes are bounded by
`MaxFaults`). Liveness needs `Lease >= Margin + 2`: a worker that renews in time
gets work done between renewals, as with 300, 15 and 30 seconds in the code.
`ScanQueue!Fairness`: the server works through its requests, runs and queue
(weak: one process, one event loop), systemd restarts it, readiness is given back, the
TTL index drops a job no run works on; on the phone the transactions, timers and promises
of an open page run. Nothing is assumed of the staff, of failures or of the sweep, and,
but for lookups, which every photo has a timer for, one condition covers all photos: which
of those that wait is served is not assumed. In `ShelfSpec` the pump looks through the
photos in their order, as `items.find` does. `PhotoSettles` says of each photo
that it is saved, failed or removed at last, and exempts two things that keep it for ever,
no more: `Stranded`, the pause of `scan_pause`; and `Overlooked`, a queued photo in an
enabled queue whose pump is at rest with nothing in flight. pump() is called at the end of
a submission, a save or a backoff, but neither where a poll fails a photo for good
(pump.ts:432-437, 478-484) nor where the staff remove one (pump.ts:174-178): the photos
behind it wait for the next action of the staff, which is not promised. Without either
exemption TLC finds the property violated. A photo marked as saved counts as settled; that
its shelf then has products is `SavedPhotosBacked`, that they may be another photo's is
`scan_false_save`.
`StripePayments!FairSpec`: handlers go on (weak), and Stripe delivers an event again
until it is answered (strong, since faults take handlers away).

## 4. Proofs

All theorems hold for any sets and numbers the named assumptions of the modules
allow, hence without the bounds of section 3. The inductive invariants were checked
with TLC before they were proved.

`BillingModelProofs` and `StoreBillingProofs`, for any number of owners, attempts and
webhooks in flight, any terms, and transactions that fail after their calls to Stripe
took effect whenever they like. All the safety properties of the passing billing runs
are proved.

* `Sound(v, t)` is what holds of an account at time `t`: a session that can be paid
  belongs to the one unsettled attempt (`SessionFits`, `OneUnsettled`); an unsettled
  attempt and a served row exclude each other, and a payment that waits to be applied
  comes after all service so far (`ServiceFits`, `WaitingFits`); the service a row
  gives was collected (`ServiceFits`, `InvoiceFits`); the bonus went to the first payment
  (`BonusFirst`). `Later(v, w, t)` is what a transaction may do to an account: it
  expires sessions and ends subscriptions but pays nothing, never reopens an attempt,
  never shortens paid time, and hands out no place.
* Every operator of `BillingModel` keeps `Sound` and obeys `Later`, given that what it has
  read of Stripe is still true in what counts: a completed or expired session stays so,
  and a paid end only grows (`SnapshotFits`, `SeenFits`). That is what makes delayed
  webhooks and the reconciler's old reads harmless to these properties.
* The account a lost transaction leaves, old rows beside new objects of Stripe
  (`Undone`), is `Sound` as well: the rows are ready for everything they may tell Stripe.
* `BillingInvariant`: `Spec => []BillingInv`, the types, `Sound` for every owner, reads
  that are still true, and stores that belong to paid accounts and are deleted only from
  closed ones. Every step is a transaction that follows, a reservation, a step of Stripe
  or one of a store, or time (`Moves`).
* `BillingKeepsContract`: `Spec => ContractKept`. Who is served has service or grace time
  ahead (`PaidAhead`), and a row that is suspended keeps its store for longer than that
  (`NotDueYet`, where `Grace <= Retention` is used), so no transaction makes a paid owner
  due at once; the account of a store in cleanup is closed out, which no later
  transaction, late read or lost commit undoes (`ClosedOut` in `Later`), so nothing
  brings its owner back; time alone only takes standing away (`TimeTurns`).
* `DataIsRetained`: `Spec => []DataRetained`. `RetentionOver` adds to the invariant that
  the retention time of a store in cleanup was over when it began and is not moved.
* `BillingTypes`, `OneCharge`, `OnePending`, `PaymentsAreKept`, `PaymentsAreTaken`,
  `SuspensionStopsCharges`, `ServiceIsPaid`, `BonusIsGivenOnce`, `ClosingIsSettled` and
  `TimeIsNeverTaken` follow from it.
* `MachineIsNotOversold` and `TestIsNotOversold`: `PlacesInvariant` says that the places
  the code counts are within their limits, since only a reservation takes one and it looks
  under the lock; and who can be charged at Stripe is among those counted.

`StoreProvisioningProofs`:

* `TypeCorrect`: `Spec => []TypeOK`.
* `LeaseBelieved`: `Spec => []LeaseBelief`. A worker that asserts its lease has it.
  `LeaseBelief` alone is not inductive: a call of the running worker that is still
  on its way would release the lease under it. `LeaseInv` (theorem
  `LeaseInvariant`) adds `RequestsSpent`, that a late acknowledgement or failure never
  carries the token of the present run (the run ends when it sends one, and tokens are
  fresh), `LeaseBounded`, that a renewal never shortens what the worker believes,
  and `NotYetCreated`, for the row a new store gets.
* `ClosedStoresAreClean`: `Spec => []ClosedIsClean`. `CleanInv` says what is done at
  each stage of an archive (`ArchiveProgress`), that an archive's acknowledgement on
  its way finds a clean machine (`LateIsClean`), and that nothing else runs on that
  store meanwhile (`ArchivesAlone`, `ClosingIsArchive`, `OwnSteps`). The run's job
  is still the row's job only because of `LeaseBelief`: an administrator's operation
  must wait for the lease, so `LeaseInv` is proved first.
* `AdmittedStoresFit`: `Spec => []AdmittedFits`. Two programs count the places of the
  machine, the platform its rows, the worker its state files. As long as the platform has
  not admitted more stores than the machine was reviewed for, a store without a state file
  finds room for one: a file that counts belongs to a store that exists (`Reserved`) and
  is not closed (`ClosedIsClean`), so the one store without a file is the place the worker
  does not count. No
  assumption on the number of stores is needed.

`ProvisioningServiceProofs`, on top of these:

* `ReadyStoresServe` (`ReadyIsServing`), `OnlyConfirmedCleanup` (`CleanupConfirmed`) and
  `CleanupIsFinal` (`CleanupFinal`). While a store is set up or taken down nobody else
  touches its machine: a run is replaced only by a claim, and a claim changes the
  token of the row. So what a run has done is still done when its acknowledgement is
  taken, however late, if the row's token is still its own (`LateIsAlone`,
  `LateIsServing`). A provisioning runs only while its store was never ready
  (`ProvisionProgress`, `ProvisionedOnce`), and a row has kind archive exactly when its
  cleanup was confirmed (`ArchiveIsConfirmed`). `ServiceInv` is the conjunction, inductive
  together with `LeaseInv` and `CleanInv` (`ServiceInvariant`).
* `StoresLiveByContract`: `Spec => LifeKept`, the refinement of StoreLife. `LifeInv` adds
  that only a delivered store is in cleanup and that work belongs to a store that
  exists. A stage of a run grows or clears its own store (`LifeWorker`): a provisioning
  or an activation that has not lost its lease works on an open store, an archive on a
  closing one; an activation whose store went into cleanup under it may still leave an
  index, which is why StoreLife allows that. A completion delivers or closes
  (`LifeFinishes`), and that is right because what was done before it is still done when
  it arrives. `ClosedStoresAreClean`, `OnlyConfirmedCleanup` and `CleanupIsFinal` say of
  the rows and the machine what the refinement says of the store; no run repeats them.

`ScanJobsProofs`, for the server with any phones (`JobsSpec`): `JobsTypeCorrect`,
`RunsOwnJobs`, `PoisonParked`, `DoneJobsStayDone`. The invariant is
`JobsTypeOK /\ NoIdleRun /\ QueuedCanRun /\ PoisonParks /\ RunOwnsJob`: a process that
is down has no runs; a queued job has been claimed less often than the limit, which is
what a claim needs to stay within it; and a run whose job still has its document
finds it running. The last depends on reclaimStale running at boot, when
nothing is in the pool.

`ScanQueueProofs`, for the phone and the server:

* `QueueTypeCorrect`: `Spec => []TypeOK`.
* `QueueImplementsJobs`: `Spec => JobsSpec`, each step of the phone being one of any
  phone or a stutter; `ComposedJobsKept` takes the server's properties over.
* `SavedPhotosBacked`: `Spec => []SavedIsBacked`. A photo is saved only when its shelf has
  a product in the catalogue (`Backed`). The invariant `PhonePart` (`PhoneTypes`,
  `PhotoFits(p)` for every photo, `SaveFits`) says that whatever is called saved, in
  memory, in a record, in a pending transaction, in `confirmed` or by a save that landed,
  is backed, and that the transactions pending for a photo that is neither backed nor
  removed by the staff (`Safe`) neither create nor drop a record.
* `PhotosKept`: `Spec => PhotoKept`, the refinement of `PhotoLife`, for any photos of any
  shelves: each step is a step of it or a stutter, and a record leaves only a safe photo.

`StoreAccessProofs`: `AccessTypeCorrect`, `LinkOpensOnce`, `CookiesFollowPin`,
`GuessesStayBounded`, `ShelvesStay`, `NoEditLost`. The invariant adds to the types: what
a request carries fits what it has passed (`CallsFit`); one device at most is between
consuming a link and opening the editor, and the link is used by then (`EnterAlone`,
`LinksSpent`); a cookie's version was proved (`Earned`); the wrong passwords of a time
and the requests that hold an attempt in it are covered by the attempts counted
(`AttemptsCover`), which is what keeps right entries from refilling the budget;
and the map a request or a draft is based on is one of the past (`MapFits`).

`StripePaymentsProofs`: all safety properties of the payments.

* `StripeInvariant` (`StripeInv`): only what happened is reported (`EventsFit`), a handler
  that credits has a paid row and works on a paid invoice (`CallsFit`), and a checkout
  has one row at most, paid only when collected (`RowsFit`). From it `StripeTypes` and
  `OnlyCollectedIsPaid`, with any number of handlers, faults, repetitions and orders.
* `AcknowledgedEventsDone`: `Spec => []AcknowledgedIsDone`. Stripe does not deliver an
  event again that was answered, so an answer may come only when the row of a completed
  session is there, the row of a paid invoice is paid and its package credited. A handler
  about to answer has done its event (`AnswersDone`), and what is done stays done.
* `CalmBooksHold` needs the queue of deliveries (`CalmFits`): the one handler works on its
  head, a completed session waits for its row before everything else about its checkout
  (`InsertsWait`), a package that was paid waits to be credited or was credited once
  (`CreditsWait`), and the last event about a subscription will give its row the status
  it has (`StatusWaits`). Events that overtake another, are repeated or are broken off would
  break these, and `calm` excludes them.

Only model-checked, for good: liveness under fairness (`JobDecided`, `PhotoSettles`,
`PaymentRecorded`, `PurchaseCredited`, `PaymentApplied`, `UnpaidIsSuspended`), ENABLED,
and what recursive definitions compute for every input.

Assumptions: `OwnerAssumption`, `AttemptAssumption`, `TermAssumption`, `LimitAssumption`
(billing), `TokenAssumption`, `NumberAssumption` (provisioning), `ScanAssumption`,
`QueueAssumption` (scan), `PaymentsAssumption`, `AccessAssumption`. TLC evaluates them in
every run that uses their modules.

## 5. Not modelled

* Rate limits and the try-out scan: an atomic upsert per key; the lifetime quota is
  peeked, consumed and refunded in separate statements. A refused consume still
  increments the lifetime count, so refunds can leave a visitor short
  (try-scan/route.ts:158-199, rate-limit.ts:13-62). The next small module.
* Credits beyond payments: consumption, gifts, expiry of lots (no caller).
* Search, recognition and comparison agents, mail templates, storage, accounts, pages,
  translations and deployment scripts hold no protocol; they are most of the
  repository's lines, which is why the map covers a small share of it.
* `attachStore` has no caller. Failure mails may be sent twice; nothing in the
  repository promises otherwise.
* Two tabs of one browser and overlapping lookups of a photo (section 2).

## 6. Plan

Done: StoreBilling and StoreProvisioning with their runs; ScanJobs, ScanQueue and their
composition with the refinement of PhotoLife; StripePayments; StoreAccess;
StoreContract and StoreLife, which StoreBilling and StoreProvisioning implement; the proofs
above.

Left, in this order:

1. The provisioning queue's order (`nextAttemptAt`) made explicit, to replace the strong
   fairness of `Turn`.
2. Consumption of credits beside payments; rate limits and the quota of try-out scans.
3. A second tab in ScanQueue.
