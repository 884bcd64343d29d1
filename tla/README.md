# birtu-bridge in TLA+

birtu-bridge stands between client applications and the Chapa payment gateway. It
records a payment before it asks Chapa for a checkout page, repairs the calls that went
wrong, learns of the outcome by webhook or by polling, and passes it on to the
application. It runs as several Node.js workers and a few cron scripts over one MySQL
database. This directory holds TLA+ models of it, the TLC runs that check them and the
TLAPS proofs about them.

Paths below are relative to `src/`. `PROJECT.json` maps every definition to the lines it
models and lists runs, hazards, findings and theorems.

* [Inventory](#inventory)
* [Modules](#modules), and how they follow the code
* [What is abstracted](#what-is-abstracted)
* [Runs](#runs), with their bounds and the fairness they assume
* [Where code and README disagree](#where-code-and-readme-disagree)
* [Proofs](#proofs)
* [Not modelled](#not-modelled), and the [plan](#plan)

## Inventory

There is no transaction in the database sense anywhere in the services: every
`pool.query` is one autocommitted statement. Whatever a handler read may be stale at its
next `await`, and a worker or script may die between any two of its statements. Nearly
every difficulty below comes from that.

| Component | Code | State | Operations | What makes it hard | Correct means |
|---|---|---|---|---|---|
| Transactions table | `src/repositories/transactionRepo.js`, `migrations/005_create_transactions.sql` | one row per (application, order, attempt) with a status | INSERT, conditional UPDATEs, UPDATEs by id | several writers by id over any status | attempts numbered without gaps; a paid row does not reopen |
| Transaction service | `src/services/transactionService.js` | none of its own; the values it carries between awaits | `initializeTransaction` | two requests for one order, death around the call to Chapa | intent is written ahead; a client only gets a URL Chapa registered; one charge |
| Recovery service | `src/services/recoveryService.js` | RECOVERING as a claim | claim, verify, branch A (same ref again), branch B (next attempt), polling | the original handler may still be alive; the verify answer ages | stuck attempts get resolved; an offered attempt is left alone |
| Chapa client | `src/clients/chapaClient.js` | none | initialize, verify, verify with retries | an aborted request may still arrive; a 404 proves little | nothing at Chapa without a row |
| Webhook service | `src/services/webhookService.js` | `incoming_webhooks` | `processIncomingWebhook` | redelivery, early arrival, old answers | no own event discarded, one handler per event, PAID only for collected money |
| Reconciler | `scripts/run-reconciler.js` | lists selected once per sweep | four sweeps, probe of the breaker | acts on lists and answers that others outdate | lost webhooks are noticed, nothing offered is called for again |
| Circuit breaker | `src/services/circuitBreakerService.js` | `system_status` row, one timeout counter per process | guarded calls, trip, claim and reclaim of the probe | counters reset after an await, trips without a condition, dead probes | one probe within its period, closes when Chapa is back, opens when it hangs |
| Delivery queue, worker | `src/services/deliveryQueueService.js`, `scripts/run-delivery-worker.js` | `webhook_delivery_queue` | enqueue, deliver, retry with backoff, dead letter | overlapping workers update by id; a POST that succeeded before a crash | a payment is reported when it was collected, at least once |
| Dead letters | `src/services/dlqService.js`, `scripts/run-dlq-digest.js` | `dlq_failures` | list, retry, digest | two statements per move; mail errors are swallowed | no failure vanishes |
| Job lock | `src/services/jobLockService.js` | `job_locks` | acquire, release | expiry, release without owner, affectedRows of the upsert | one holder at a time; as it is, every run acquires (`runs_apart`) |
| Applications, API keys | `src/services/appService.js`, `src/routes/admin.js`, `src/routes/ui/applications.js` | `applications`, `api_keys`, `audit_logs` | create, archive, reactivate, hard delete, issue and revoke keys | counting and deleting are two statements, deleting cascades | what had payments before the count stays; a deletion is logged |
| Gateway entry, rate limits | `src/services/apiKeyService.js`, `loginRateLimiter.js`, `src/middleware/` | counters in `rate_limits` | authenticate, count, compare | incrementing and reading are two statements, the minute changes in between; keys are revoked meanwhile | limits hold, nobody else is refused, what is off stays out |
| Migration runner | `scripts/migrate.js` | `schema_migrations` and all tables | apply pending files | a run that dies between a file and its record; overlapping runs; a new release | a run that ends well leaves all applied; applying a file again does no harm |
| Admin sessions | `src/auth/mysqlSessionStore.js` | `sessions` | get, set, touch, destroy | a touch that races a destroy | see [Not modelled](#not-modelled) |
| Redirect whitelist, admin UI, server, config, pool | `src/services/redirectWhitelistService.js`, `src/routes/`, `src/views/`, `server.js`, `src/db/` | none | checks, rendering, wiring | string handling, I/O | see [Not modelled](#not-modelled) |

How they interact: a client's request runs the transaction service, which calls Chapa
through the breaker and enters the recovery service when the latest attempt is stuck.
Chapa's webhook runs the webhook service, which asks Chapa again and writes the row and
the delivery queue. Cron runs the reconciler, which enters the recovery service for stuck
rows and settles INITIALIZED and superseded ones, again through the queue. The delivery
worker empties the queue. All of them meet in the `transactions` rows and at Chapa. In
front of it all stands the gateway entry, which asks `api_keys` and `rate_limits`; admins
change the former, and may delete an application with everything that refers to it.

The hazards of this code are in `PROJECT.json` under `hazards`, each at its line, with
the properties that would catch it going wrong or why none does yet.

## Modules

    TransactionRepo          rows of one order, one operator per SQL statement
      ChapaGateway           Chapa as the client sees it (external)
        Handlers             labels and local values of requests, sweeps, webhook calls
          RecoveryService
            TransactionService
          DeliveryQueueService
            WebhookService
            Reconciler       (with RecoveryService)
              BirtuBridge    composition, properties, inductive invariant
                MCBirtuBridge            instances for TLC
                BirtuBridge_proofs       invariants
                  BirtuBridge_finality   what happens once
                    BirtuBridge_custody  what takes two statements
                  BirtuBridge_refinement BirtuBridge implements PaymentLedger
    PaymentLedger            what the bridge promises about money, in five actions
    CircuitBreaker           MCCircuitBreaker, CircuitBreaker_proofs
    ProbeLease               what the breaker promises about its probe
    JobLock                  the lock of a cron job and the frame of a run
    DeliveryQueue            the tables notifications live in, one operator per statement
      DeliveryWorker         (with JobLock)
      DlqDigest              (with JobLock)
        Notifications        composition with the admin, properties
          MCNotifications, Notifications_proofs
    AccessTables             applications, keys, counters, one operator per statement
      GatewayEntry           requests and logins: authenticate, count, compare, pay
        AppService           the admins' operations
          Access             composition, properties, inductive invariant
            MCAccess, Access_proofs
    Migrations               MCMigrations, Migrations_proofs
    SchemaVersion            what the runner promises about the schema

**State.** `rows[a]` is the status of attempt `a` of one order, or `NO_ROW`. `gateway[a]`
is what Chapa holds for its `tx_ref`, and `late` the refs of abandoned initialize
requests still on the wire. Every handler has a label `pc` (the statement or call it is
about to make), the attempt it works on, which of the three initialize calls it is in,
an answer of Chapa it has not acted on, and the count of duplicate keys it met. `offered`
are the attempts whose checkout URL a client was given. `events` is `incoming_webhooks`,
`deliveries` the set of notifications ever queued, `stage` and `todo` a reconciler run's
sweep and its list.

**Actions.** One action is the code between two awaits of a handler: the statement, and
what the code does with its result up to the next one. So `ClaimOrWait` is the UPDATE of
`claimForRecovery` with the comparison of `affectedRows`, and `VerifyAnswered` the answer
of `verifyWithRetries` with the choice of a branch. Errors are actions next to the success
(`VerifyThrows`, `CallTimesOut`, `InsertFails`). `Crash` is the death of the process, or a
statement that throws, at any await in `MayCrash`. Where a sweep catches such an exception per
row and goes on with its list, that is `RecoveryThrows`.

**TransactionRepo** keeps the difference between UPDATEs that name a status in their WHERE
and those that name the id only: `markInitialized`, `markFailed`, `markPaid` and
`markSupersededOrphaned` overwrite whatever is there. `claimForRecovery` names the order
and counts as won only if exactly one row changed.

**CircuitBreaker** is a module of its own, because its interesting behaviour lies between
processes, not between orders. In the core a guarded call may be refused at any time
(`CircuitOpen`), which is all its callers see.

**Notifications** takes over where the core's `deliveries` end. `queue[d]` and
`attempt_count[d]` are the row of a delivery, `dlq_failures` the table in the order of its
ids, `job_locks[j]` one of "none", "held" and "expired". A worker holds its `batch`, the
rows as they were when it selected them, and the `job` in hand; `caught` says that it is
in the catch block of `processJob`, where a second exception ends the run. A digest holds
the `ids` it selected. Two things are recorded for the properties only: which deliveries
the application `accepted`, with the number of `posts`, and which failures were
`composed` into a mail. `overlapped` remembers that two runs of the worker were at work
at once, `unanswered` are the workers whose row became DELIVERED by an UPDATE that threw, and
`listed` the deliveries that were put on the list of failures since they were last sent back.
Both kinds of run start with `AcquireLock` and end with `ReleaseLock`, a DELETE by the job's
name. `moveToDlq` is two actions. A run may die before each of its statements, and each may
throw (`StatementThrows`, `DigestThrows`), before it has taken effect or after, as when the
connection is lost before the answer comes.

**Access.** `applications[a]` and `api_keys[k]` are the status of a row, "none" before and
"deleted" after, since ids and keys are random and none comes twice. `rate_limits[l][w]` is
the counter of a limiter key in a minute. A request carries the `key` of its header, the
`limiter` it is counted under, the `window` computed once before the INSERT, and the
`verdict`; a login has the same last two steps. `InsertPayment` and `OfferCheckout` are what
a request that is let in does to the payment's row, without the repairs that `BirtuBridge`
is about: a first attempt whose call succeeds. An admin's call is one action where it is
one statement. `hardDeleteApplication` is three: `CountTransactions`, `LogDeletion`,
`DeleteApplication`. Recorded for the properties only: `rank`, the count an increment led
to; `barred`, the requests that came with something switched off which has not come back;
`settled`, the payments inserted while no deletion had counted yet.

**Migrations.** A file is its place in the sorted list and creates one table; file 10 also
inserts the breaker's row. `tables`, `chapa_status` and `schema_migrations` are the
database, `released` how many files are on disk. A run holds the set it read from
`schema_migrations` and the list it read from disk, and is at the statement `pc` of `file`.
`Create` needs the tables its foreign keys name, and `ReferencesExist` says that no run is
ever at a file whose CREATE TABLE would fail for want of one. `BreakerMoves` are the servers, in use next to a migration.

**PaymentLedger** is the abstract specification: record, register, offer, collect, report,
each attempt in that order, nothing taken back. `BirtuBridge` implements it with
`recorded` as the attempts with a row, `registered` as those Chapa holds, `collected` as
those paid there and `reported` as those with a payment.success queued.

**ProbeLease** is what the breaker's row is for: the probe is leased. Somebody new gets it
only when every earlier lease was given back or has expired, and each gives back its own.
`CircuitBreaker` implements it with `holders` as the calls and runs that are `probing` and
`expired` as those `overdue`, although no claim in the code names an owner.

**SchemaVersion** is the installation as an administrator sees it: the schema is at version
0, 1, 2 and so on in the order of the files, with at most one file begun and not recorded.
`Migrations` implements it with `recorded` as `schema_migrations` and `created` as `tables`.

## What is abstracted

* *One order.* No statement on the payment path touches rows of two orders.
* *A row is its status.* The ref is a function of order and attempt
  (`src/utils/crypto.js`), the URL of the ref, and the other columns decide nothing.
* *Time.* Ages are not kept. A SELECT of stale rows may find any of the rows in that
  status, as time may have passed between any two steps. The breaker keeps one
  bit, `aged`: `last_failure_at` lies further back than the period of the status. It takes
  the cooldown (30 s by default) to be no shorter than the stale period (15 s).
* *Chapa* registers a ref once and answers "ok", "duplicate" or anything else, after which
  the ref may be registered or not. Verify answers 404 at any time (not paid yet, not
  indexed yet), "success" only for collected money, "other" otherwise. A request the client
  gave up on may arrive later. The customer pays where a client was given a URL.
* *`verifyWithRetries`* is the read whose answer it returns. *Polling* is its
  last read, since the earlier ones change nothing unless they end it, and it may then end
  at any time. *`getById` after the claim* is part of the claim: only the ref, app and
  order of the row are used of it.
* *Answers that change nothing* (409, a webhook already recorded, invalid input, a bad
  signature) are stutters.
* *Past `MaxAttempts`* an INSERT fails, like on any other database error.
* In the *breaker*, timeout counts of 3 and more act alike and are one value; a call
  inside a reconciler run is made only while it sweeps; the run's process ends with it, so
  its counter starts at 0.

* *Delivery.* A waiting row may be due at any time, so the length of the backoff does not
  matter. A batch is any set of rows that may be due, since LIMIT and ORDER BY depend on
  times; the rows of a batch are worked on in any order. `webhook_url` counts only as set
  or not, and the routes refuse an empty one. The mailer swallows its errors, so
  `SendDigestEmail` always goes on.
* *Access.* All clients share one address and all logins one e-mail, the worst case for a
  limit. The breaker's status read in between is used by `/v1/ping` only. Of the audit log
  the event of a deletion is kept; `logEvent` swallows its errors and reports them, so
  "logged" means a row or an error message.
* *Migrations.* A MySQL statement that defines data commits by itself, so each statement of
  a file is an action. Splitting at semicolons is right for the 13 files there are.
* *affectedRows* of the upsert that acquires a lock is 1 for a new row, 2 for a changed one and,
  for one left as it is, 1 if the driver asks for found rows and 0 if not. mysql2 asks unless
  told otherwise, `src/db/pool.js` does not tell it, and no other setting is modelled.

## Runs

Bounds are the constants of each cfg. Two handlers of a kind are enough for every race in
which one acts on what another outdated. Two attempts are enough to tell the old attempt
from the new one.

| Run | Instance | Shows |
|---|---|---|
| `core_webhooks` | 2 requests, 2 webhook calls, 2 attempts, crash at every await | `TypeOK`; `WriteAhead`: nothing is at Chapa, on its way or being asked for without a row; `CheckoutIsBacked`: a URL given out, or an INITIALIZED row, names a ref Chapa registered; `NoGapInAttempts`; `NoEventDiscarded`; `EventHandledOnce`; `PaidNeverReopens`: a PAID row never becomes payable or is called for again; `ImplementsLedger` |
| `core_reconciler` | 1 request, 1 reconciler run after another, 1 webhook call, 2 attempts, crashes between two writes | `SuccessIsBacked`: PAID and payment.success only for collected money; `OfferedIsNotInFlight`: an attempt whose URL is out is not put back among those to be made; `LostOnlyByFailure`: between two statements that belong together an attempt is lost by the death of its handler or a throwing statement only; `PaidOnceWithoutOverlap`: nobody is charged twice while request and run do not overlap and no FAILED attempt is paid |
| `core_liveness` | 1 request, reconciler, webhook, 1 attempt, crashes where a repair exists | `StuckCallsAreResolved`: FORWARDING and RECOVERING do not last; `LostWebhookIsNoticed`; `PaidIsReported`: what is marked PAID is reported, also when others settle or supersede the row meanwhile |
| `breaker` | 1 worker with 2 calls, 1 reconciler run with a call inside | `TypeOK`, `OneUnexpiredProbe`; `ImplementsProbeLease`; `SelfHeals`, `OutageOpens` |
| `notifications` | 2 workers, 1 delivery, 2 attempts, 1 retry by the admin, deaths, statements that throw before or after taking effect | `TypeOK`; `SettledForAReason`: DELIVERED only when taken, given up only after 2 POSTs; `DeliveredIsFinal`, unless runs have overlapped or the UPDATE to DELIVERED itself threw; `HiddenOnlyByFailure`: given up and not listed only by a death or an exception; `DeliveriesAreSettled`: every notification ends up delivered or with the dead letters |
| `digest` | 1 worker, 1 digest, 2 deliveries, deaths, statements that throw before or after taking effect | `DigestedWasComposed`: what is marked was in the mail; `FailuresAreDigested` |
| `access` | 1 application, 1 key, 2 requests, 1 login, 2 admins, 2 minutes, limits of 1 | `TypeOK`; `LimitHolds`; `RefusedOnlyOverLimit`; `BarredStayOut`; `DeletionIsLogged`; `SettledHistoryIsKept`: a payment that was there before any deletion counted is not deleted |
| `migrations` | the 13 files, 12 in the first release; 2 runs, 1 death | `TypeOK`; `CompleteMeansAll`: "Migrations complete." is true; `ReferencesExist`; `StatusSurvives`: applying a file again leaves the breaker alone; `ImplementsSchemaVersion`; `OneRunSuffices` |
| `paid_is_final`, `charged_once`, `runs_apart`, `history_deleted` | see below | what the README or a message says and the code does not do |

Deadlock is checked in `migrations`, where a run can always be started again. Elsewhere it
is not: a system in which all handlers are idle, the order is paid and no client asks again
may rest. So may one in which a dead run has left a lock nobody waits for, or one whose
requests have all come and whose application is deleted.

`core_reconciler` lets handlers die between two writes only. A death elsewhere leaves
the tables as an error at the same place does, which the handlers meet in this run too.

One delivery is enough for `notifications`, as rows of the queue meet only in a batch. The
digest needs two, for a failure that is inserted while it mails another. Two attempts
have both outcomes of `handleFailure`. As every run acquires the lock, two workers may run at
any time at once.

`access` has one application, as rows of two never meet. Two requests under limits of 1 are
the race for the last place, in which both may also be refused: each sees the other's
increment. `RefusedOnlyOverLimit` allows that. Two admins may count, log and delete at once.

`core_webhooks` sends the event "failed", which Chapa may send as soon as the ref is
registered, the earliest moment possible; verify decides what becomes of it, so PAID is
reached there as well.

**Fairness.** Node runs a handler's continuation once its statement or call is
back, and every call to Chapa has a timeout: so weak fairness of each handler that has
started. Cron starts reconciler runs: weak fairness of them including their start. Nothing
makes a client ask again or Chapa send a webhook. That alone resolves nothing if every
call fails for ever, so `core_liveness` states what is resolved under `CalmsDown`: from some
point on no call times out, no process dies, no row is too young for the sweep. The premise
is written over the effects of steps, not over action names, because two actions may
take the same step. The breaker assumes in addition that time passes, and strong fairness
of the end of a run: the sweeps work through lists selected once, so they end, although
calls inside them start and stop. `SelfHeals` needs no client. `OutageOpens` needs
clients that keep coming.

Deliveries and digests are settled under weak fairness of cron starting a run of each
job, of every run that has started, and of locks expiring. A row that waits is not due at
every SELECT, so that it is selected again is strong fairness: it is due at some of the times
a worker looks. `CalmsDown` says that from some point on no run dies or is ended by an
exception, and no row delivered fails to be marked; the application may answer whatever
it likes for ever.

A run of `migrations` that has started goes on (weak fairness). `OneRunSuffices` is what
README:176 calls safe: once nobody dies any more, a run that is about to look brings the
schema up to date or is overtaken by one that does. There is an exception, which the premise
names: next to a run still under way for an older release, the new run may fail on a file
the old one records, and the new files wait for the next start.

`core_liveness` leaves out two deaths: between the INSERT and `markForwarding`, after which
the row is lost, as no sweep selects PENDING_CREATION; and between `markPaid` and `enqueueDelivery`,
after which nobody is told. `PaidIsReported` says that there is no other way for a payment
marked PAID to go unreported.

## Where code and README disagree

* `paid_is_final`: README:58 draws PAID as final. `markPaid` and `markFailed` of the webhook
  service name the row by its id. Of two webhook calls about one payment, the first asks
  Chapa before the customer has paid and writes after the second has marked the row PAID:
  it is FAILED then (`webhookService.js:88`), and the order open for a further attempt. A
  recovery winner can supersede a PAID row in the same way (`recoveryService.js:83`).
* `charged_once`: README:71 promises that duplicates are excluded by unique keys. They
  exclude two rows for one attempt, not two attempts. If a retry recovers an order
  while the first call is still out, the first request answers with the URL of attempt 1
  and the second with that of attempt 2, and both can be paid. A client that waits for its
  answers is exposed as well, next to webhook calls or a reconciler run: they mark an
  attempt FAILED because its payment is not a success yet, and the retry opens another
  while the first checkout page can still be paid. These two ways are the only ones:
  `PaidOnceWithoutOverlap` excludes both and is proved.
* `runs_apart`: README:230 says that the scripts lock themselves, so that overlapping cron
  invocations exit cleanly. `acquireLock` takes one affected row for a lock acquired
  (`jobLockService.js:14`), and with found rows counted that is also what the upsert reports of
  a held lock that it leaves as it is. So every run acquires. A run that ends also deletes the
  lock of whoever holds it by then (`jobLockService.js:18`). `notifications` and `digest` show
  what holds although runs overlap.
* `history_deleted`: `appService.js:73` refuses to delete an application with transaction
  history, and README:266 says the same. The DELETE does not look again. A payment inserted
  after the COUNT goes with its application, and its handler, which updates by id, does not
  notice and hands out the checkout URL. Chapa's webhook about it finds no row.

Not run:

* README:63 says that every non-terminal state is swept, so that nothing is lost even if a worker
  dies. PENDING_CREATION is not swept, and a retry answers 409. `LostOnlyByFailure`, checked and
  proved, says which failures leave such a row: a death, or a `markForwarding` that throws, right
  after the INSERT or the reset.
* An UPDATE to DELIVERED that takes effect and throws is handled as a failed delivery
  (`run-delivery-worker.js:82`): the row becomes RETRYING or FAILED_DLQ, and the application is told
  again. Nothing in the repository claims otherwise; `DeliveredIsFinal` names the case.
* A reconciler run that acts as the breaker's probe closes it when its sweeps did not throw
  (`run-reconciler.js:172`), though they catch all errors of Chapa and may have had nothing to
  ask. It is a question of design; `OutageOpens` shows that the breaker then opens again.
* README:164 speaks of failed logins; `loginRateLimiter.js` counts all of them.

## Proofs

TLAPS proves, for every number of attempts, requests, reconciler runs and webhook calls,
every set of events and every set of crash points:

* `BirtuBridge_proofs`: `TypeOK`, `WriteAhead`, `CheckoutIsBacked`, `SuccessIsBacked`,
  `NoEventDiscarded` and `NoGapInAttempts` are invariants of `Spec`.
* `BirtuBridge_finality`: `OfferedIsNotInFlight` and `EventHandledOnce` are invariants,
  `PaidNeverReopens` holds, and `PaidOnceWithoutOverlap`.
* `BirtuBridge_custody`: `LostOnlyByFailure`; and where no handler dies or throws with an attempt
  in hand none is ever left halfway (`AliveNothingIsLost`).
* `BirtuBridge_refinement`: `Spec => ImplementsLedger`.
* `CircuitBreaker_proofs`: `TypeOK` and `OneUnexpiredProbe` are invariants of the breaker,
  for any number of workers, runs and calls, however they are spread, and the breaker
  implements `ProbeLease`.

* `Notifications_proofs`: `TypeOK`, `SettledForAReason` and `DigestedWasComposed` are
  invariants; `DeliveredIsFinal` and `HiddenOnlyByFailure` hold; for any number of workers,
  digests, deliveries and attempts.

* `Access_proofs`: `TypeOK`, `LimitHolds`, `RefusedOnlyOverLimit`, `BarredStayOut`,
  `DeletionIsLogged` and `SettledHistoryIsKept` are invariants, for any number of
  applications, keys, requests, logins, admins and minutes and any limits.
* `Migrations_proofs`: `TypeOK`, `CompleteMeansAll` and `ReferencesExist` are invariants and
  `StatusSurvives` holds, for any number of files, runs, releases and deaths, whichever
  file inserts the breaker's row; and `Migrations` implements `SchemaVersion`.

Assumptions: `MaxAttemptsAssumption` (at least one), `DisjointHandlers`,
`WebhookEventsAssumption` (events name attempts and one of two statuses),
`ProcessAssumption` (every call is made in a process; calls, runs and workers differ),
`JobAssumption` (every run has a job), `MaxDeliveryAttemptsAssumption` (at least one),
`WorkersAssumption`, `DigestsAssumption` and `RunsAssumption` (every run is a worker or a
digest, and all workers ask for one lock, as the script's job name is a constant), `MaxRequeuesAssumption`, `OwnerAssumption` (every key has its application),
`CallersAssumption` (requests are not logins), `LimitsAssumption` (limiter keys of different
kinds differ, as their prefixes make them; limits are numbers), `NoKeyAssumption`, and
`FilesAssumption`: a table refers only to tables of files that sort before its own.

**The payment core.** None of the properties is inductive. `IInv` in `BirtuBridge` adds
what a handler may rely on: from the moment it has an attempt, that attempt has a row; when
it is numbering one, all lower numbers have rows; an "ok" it carries is about a registered
ref; a "success" it is about to write is about collected money; and what is at Chapa, on
its way there or on a reconciler's list has a row. These facts are stable because nobody
deletes a row, Chapa forgets no ref and no payment, and handlers write only their own
values. The proof uses just that: `Effects` says what any step does to tables
and Chapa, `Moves` that one handler went to a label, `HandlerStepKeeps` that such a step
keeps `IInv` if the mover's own part holds, and then there is one lemma per service. The
stale reads that make the code hard need no case of their own: a fact that is
stable cannot go stale. What is *not* stable, the status of a row, occurs in `IInv` only
through `SuccessIsBacked` and `CheckoutIsBacked`, which bound what it may mean.

**What happens once.** `PaidNeverReopens` looks false at first: `markInitialized` writes by
id over any status, and a handler may carry Chapa's "ok" for as long as it likes. It holds
because Chapa says "ok" to a ref once. `FinalityInv` spells this out: no two handlers carry
an "ok" for one attempt, an attempt for which one is carried is neither offered nor
INITIALIZED, what was offered is not in flight, and only offered attempts are paid. So
when a row is PAID, the one "ok" that could reopen it has been used up. The statuses are
read from `Advances`, which every step satisfies (`StepAdvances`): rows stay in flight, are
settled, or become INITIALIZED by the handler that gives its "ok" up. `EventInv` says that
a webhook call works on an event that has its row. A call starts only with an event that
has none, and no row is deleted, so nobody starts with an event somebody works on; after a
crash nobody does, since `webhookService.js:71` answers its redelivery as a duplicate.

**Charged once.** `ChargedAtMostOnce` is false (`charged_once`), and this theorem says what it
takes. `PaidOnceWithoutOverlap` has two premises: `OneAtATime`, requests and reconciler runs on
the order do not overlap, which is what waiting clients, the job lock and the age a row must
have before it is swept are meant to achieve; and `FailedIsUnpaid`, an attempt that a verify
answer made FAILED is not paid afterwards. Neither can be left out: `charged_once` violates the
first alone, and a webhook about a checkout that is paid later the second. Everything else
may happen: crashes, late calls, timeouts, webhook calls at any moment. `OnceInv` is
inductive under the premises: all attempts before the latest were given up, only the
latest is being worked on, and an attempt somebody may still call Chapa for has no open
checkout page. So an attempt is given up either before its URL was handed out, or as
FAILED; and only what was offered is paid (`FinalityInv`). A run that keeps to itself needs its
list as well: `ClaimStale` claims by order and then works on the row it had selected, which
is the right one only because nobody numbered another meanwhile (`SweepInv`).

**What takes two statements.** The row that an INSERT or a reset left in PENDING_CREATION, the
payment marked PAID and not yet queued, and the superseded attempt whose successor is
to come have a handler that is about to go on with them (`InHand`). A step of a handler takes up
what it leaves halfway (`TakesUp`), keeps, finishes or dies over what it had (`GoesOn`), and
takes nothing from the others (`OthersCarryOn`), although it may write over their rows: what
it writes is then either finished or in its own hands. What breaks the two apart is
`BreaksOff`: a death, or a second statement that throws. README:63 (above) and
`PaidIsReported` say what that costs.

**The refinement.** `StepRefines`: under `IInv`, every step is one ledger step
or a stutter. Each service has a lemma; UPDATEs are hidden because they neither create nor
delete rows (`UpdateHides`).

**The breaker.** `ProbeInv` adds that while `last_failure_at` is older than its period,
every holder of the probe is overdue. A claim needs that age, so it makes the
claimer the only one whose probe is not overdue. For the lease, `HoldersAreOut` says who
holds it: only calls and runs that are past their claim and before their resolution, so that
nobody is let in twice. Trips and resolutions of others change the row under a holder, but
not who holds; only a claim, a resolution, a death and the passing of time do.

**Notifications.** `TypeOK` alone is not inductive: the count that `scheduleRetry` writes is
below the limit only because `handleFailure` looked at it before. `WorkInv` says where a
worker may be with the row in hand (`FailuresAreHandled`) and that counts, in the table
and in snapshots, never exceed the POSTs made (`CountsArePosts`): a POST moves the posts
ahead of the snapshot, every later step uses up that lead, and an outdated count written
by an overlapping run is still below the posts, which only grow. For the digest it is
enough that what it is about to mark is in the mail. `AloneInv` says that while no two
runs have overlapped, at most one is at work, and nothing in its batch is DELIVERED, because it
alone can make it so and every row is in a batch once; nor is what it has in hand, unless its
own UPDATE threw after taking effect (`unanswered`). For the dead letters each step has to show
that a row given up is listed, or about to be by the worker that gave it up: no requeue and no
late answer of another worker takes that job out of its hands.

**Access.** That a limit holds although counting and reading are two statements rests on the
`rank` of a caller: ranks under one counter differ, a rank never exceeds the counter, which
only grows, so who passes read at least its own rank and has one within the limit
(`RankInv`). Distinct numbers from 1 to the limit are no more than the limit
(`LimitsHold`). For refusals, `CountInv` says that a counter is the number of callers it
counted. `BarredInv`: a key that is off does not come back, except with its application,
and a request that found it off is counted by address. `DeletionInv`: from its COUNT on, a
deletion has no settled payment before it, because a payment inserted later is not
settled.

**Migrations.** `RecordedInv`: what is recorded was applied to the last statement, because
nothing is ever taken back and a record comes last. `RunInv`: a run has every file before
its own recorded, by itself or by whom it read it from. Since references point back, they
are then there. `VersionInv`, that the schema is always at a version or has one table more, is
inductive on top of these: a run that skips what others did still has all before its file
behind it, so the table it creates is an old one or the next.

Every invariant and action property that a passing run checks is stated by a theorem, the
three refinements included. Model-checked only: all liveness (`StuckCallsAreResolved`,
`LostWebhookIsNoticed`, `PaidIsReported`, `SelfHeals`, `OutageOpens`, `DeliveriesAreSettled`,
`FailuresAreDigested`, `OneRunSuffices`), which needs ENABLED and fairness and is out of the
prover's reach. So would be induction over data, which these modules do not need.

## Not modelled

* Password hashing, signatures, tokens: libraries, and pure functions of one input.
* The redirect whitelist: one INSERT, and a check of a string before any write, better tested.
* Admin sessions: the store is four single statements. Whether a touch may still follow a
  destroy is decided by @fastify/session, which is not part of the repository.
* Admin views, routes that only read, server start, configuration, the pool: wiring and
  reading. The pool's autocommit is the base of the models' granularity.
* `annotateConfirmedOrphan` writes a text nobody reads back.

## Plan

In this order:

1. *(done)* The payment core, `PaymentLedger`, their proofs.
2. *(done)* `CircuitBreaker` and its proofs.
3. *(done)* `JobLock`, `DeliveryQueue`, `DeliveryWorker`, `DlqDigest`, `Notifications` and
   its proofs.
4. *(done)* What is reported of payments marked PAID (`PaidIsReported`).
5. *(done)* `AccessTables`, `GatewayEntry`, `AppService`, `Access` and their proofs.
6. *(done)* `Migrations` and its proofs.
7. Liveness of the core with a second attempt (few handlers, no deaths: the states are many),
   and with three, where two recoveries that number the next attempt
   at once can leave two FORWARDING rows, which no single claim takes.
8. *(done)* `BirtuBridge_finality`, `BirtuBridge_custody`.
9. *(done)* `ProbeLease` and `SchemaVersion`, with the proofs that the code implements them.
