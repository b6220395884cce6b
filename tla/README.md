# AWCMS-One in TLA+

A verification development of the `apps/cms` server of this repository: a
multi-tenant content, commerce and operations platform (Bun + Astro +
PostgreSQL) built as a modular monolith. Almost all of its correctness lives in
what several processes may do to the same PostgreSQL rows: HTTP handlers,
scheduled jobs run by cron, operators, and deployments that replace the code
while a job is running. The modules here model those protocols, TLC checks them
on small instances and TLAPS proves the main results for every size.

Paths below are relative to `src/apps/cms/src` unless they start with `apps/`
or `src/`.

## 1. The system

### 1.1 Processes and shared state

- **Web process.** Each request runs `withTenant` (`lib/database/tenant-context.ts`):
  circuit breaker, admission to a work class, one transaction with
  `app.current_tenant_id` set, then the handler. Mutating handlers wrap
  themselves in the idempotency record (`modules/_shared/idempotency.ts`).
- **Job processes.** Cron starts one Bun process per job
  (`apps/cms/deploy/cron/awcms.crontab`); `lib/jobs/job-runner.ts` takes a session
  advisory lock, runs the job under a deadline and releases the lock, possibly
  later than the run's end. Jobs: domain-event dispatch, e-mail / push /
  Telegram / WhatsApp / object dispatch, scheduled publishing, hold expiry,
  projections, retention purges.
- **PostgreSQL** holds all durable state; row-level security isolates tenants.
  READ COMMITTED is the isolation level everywhere, so each statement sees what
  was committed before it started, and `FOR UPDATE` re-reads the row it waited for.
- **External providers** (mail, object storage, push, messengers, payment
  gateways) are called outside transactions only (ADR-0006), so every one of
  those calls is bracketed by a claim and a finalize that may be cut apart by a
  crash or overtaken by another worker.

### 1.2 Components

`status` is the one of `PROJECT.json`. For the components that are not modelled
yet the last column names what makes them correct and what a model of them
would have to check.

| component | state | operations | what is hard, what makes it correct |
| --- | --- | --- | --- |
| domain-event-runtime (modelled) | outbox rows with `event_sequence`, delivery rows, effect markers, replay records, consumer state | append, dispatch pass, retry, replay, pause/resume, purge | racing passes, at-least-once dispatch with exactly-once effect, order per key, back-off, purge against replay records |
| database-gate: circuit breaker and work classes, `lib/database` (modelled) | breaker state per process; per class: active count and FIFO of waiters | canAttempt, recordSuccess, recordFailure; acquire, time out, hand over, release | late results of calls admitted in another state; the slot handed to a waiter whose timer is firing; leaks |
| idempotent-mutation, `modules/_shared/idempotency.ts` (modelled) | idempotency records per (tenant, scope, actor, key) | look up, run, save or lose the race, replay | two requests with one key in flight at once; the loser's mutation must vanish and its caller must get the winner's answer |
| lease outboxes: email (partly), sync-storage objects, push-delivery, telegram-delivery, whatsapp-delivery | queue rows `queued/sending/sent/failed`, lease, attempt rows | claim, provider call, finalize, retry, dead letter | a worker that outlives its lease finalizes a row another worker has claimed; duplicates at the provider; lost updates of the attempt count |
| job runner (`lib/jobs`) | advisory locks per job, sessions | acquire, run, time out, delayed release | a timed-out job still running while the next one starts |
| inventory (partly), procurement (partly: its receipts are documents of the ledger) | stock movements, balances per (item, location), thresholds, policies of locations and tenant | post a line or a transfer, reverse, rebuild, change settings | withdrawals of the last unit at once, documents half posted, a setting changed under a posting, a repair racing a posting, lock order |
| booking (partly) | reservations with hold expiry, allocations of units, blocks | hold, confirm, cancel, reschedule, block, reclaim, reap | units under concurrent claims, expiry racing confirmation, a refused move, deadlocks of claims |
| commerce (partly) | orders, payment allocations, reversals, gateway sessions, callbacks; refunds, stored value and loyalty, vouchers, flash sales, register sessions, affiliates | record, reverse, open a session, take a callback, reconcile, expire, transition; checkout, redeem, close | captures told twice, late or never, two payments at once, a session asked for while the order is paid, transitions that overwrite each other |
| workflow-approval (partly) | definitions, instances, tasks, assignments, decisions, join arrivals | start, decide, force, reassign, cancel, escalate | two decisions at once, parallel branches joining, a cancellation against a decision in flight |
| sync-storage (events) | nodes, inbox/outbox, conflicts, aggregate versions | push, pull, conflict resolution | optimistic versions, re-sent batches, checkpoint order |
| reporting (partly) | projections, cursors, rebuild runs | incremental pass, rebuild, cancel, event consumer | rows that commit behind the cursor, a rebuild racing the incremental passes, failures between pages |
| data-lifecycle | policies, legal holds, archive runs | archive, purge, hold | a hold placed while a purge runs |
| omes-control | desired and observed deployments, operation requests, worker jobs with leases | submit, approve, lease, heartbeat, complete | lost workers, double execution, four-eyes approval |
| identity-access | identities, sessions, lockout counters, MFA, invitations, grants | login, lock, reset, accept, revoke | single-use tokens, lockout counters, last-admin |
| blog-content | posts, revisions, scheduled publication | edit, publish, schedule | scheduled publish racing an edit |
| edge-cache | purge queue, surrogate keys | enqueue, drain | a purge lost between commit and drain |
| hr-workforce, hr-commission, tax | attendance, shifts, accrual ledgers, rule versions | record, publish, accrue | effective-dated versions |
| media-library, comments, form-drafts, newsletter, theming, tenant-domain, tenant-admin, module-management, profile-identity, site-search, seo-distribution, site-profile, visitor-analytics, idn-admin-regions, logging | rows of their own | CRUD with status transitions | mostly one-row transitions under a row lock |
| `lib/redis`, `lib/auth`, `lib/security`, `lib/observability`, `lib/i18n`, `lib/ui` | caches, rate-limit counters, pure helpers | read-through cache, count | not modelled: fail-open caches and pure formatting |
| `apps/storefront`, `packages/*`, `tools/*` | none of their own | rendering, API clients, build tooling | not modelled: no protocol state |

The behaviours a test hardly reaches are listed, each at its line, under
`hazards` in `PROJECT.json`; every property below was written for one of them.

## 2. Modules

| module | extends / instances | role |
| --- | --- | --- |
| `DomainEvents` | instances `EffectOnce` | outbox, deliveries, dispatcher passes, replay, pause, purge |
| `EffectOnce` | | what the runtime promises: each effect of a published event at most once |
| `DatabaseGate` | `SequencesExt` | circuit breaker and work-class gates around every tenant transaction |
| `IdempotentMutation` | instances `KeyedMutation` | requests under an `Idempotency-Key`, their transactions and races |
| `KeyedMutation` | | what a key promises: one owner, everybody else told the owner's answer |
| `EmailDispatch` | | the e-mail outbox with leases, provider calls and attempt ledger |
| `WorkflowApproval` | | one approval instance: graph walk, votes, cancellation, escalation, deadlocks |
| `ReportingProjections` | | counters of one projection: incremental passes, rebuilds, the event consumer |
| `InventoryLedger` | | documents posted to stock balances under row locks, rebuild of balances, settings |
| `BookingHolds` | | claims of a resource's units, transitions, lazy reclaim, reaper |
| `OrderPayments` | `Functions` | payments, gateway sessions, callbacks and status of one order |
| `MC*` | the module of the same name | instances for TLC |
| `*Proofs` | the module of the same name, `TLAPS` | theorems; those of `DatabaseGate` and `IdempotentMutation`, which a request passes one after the other, are in `RequestPathProofs` |

No module models two tenants: every statement carries the tenant id and
row-level security applies to all of them, so no transaction reads or writes a
row of another tenant.

### 2.1 DomainEvents (`modules/domain-event-runtime`)

State. `event`, `seq`, `lastSeq` are the outbox: the row's visibility, its
`event_sequence` and the identity column. `status`, `attempts`, `backoff` and
`replayOf` are the delivery rows; a row is named `<<event, consumer, n>>`, n = 0
the original and n > 0 its replays. `effects` is
`awcms_domain_event_consumer_effects`. `applied` is history: how often a side
effect has been committed. `paused` and `declared` are operator state and deployed
code. Each dispatcher pass has a `pc`, the consumer it serves, the `code` it runs
with, the `batch` it selected, and the row its open transaction holds (`cur`,
`inserted`).

| action | code |
| --- | --- |
| `Append`, `Commit`, `Rollback` | `appendDomainEvent` inside the producer's transaction, which may end either way |
| `CheckPaused`, `SelectSome` | `isConsumerPaused`; `selectHeadOfLineDeliveries`: `DISTINCT ON (order_key)`, then due rows, then `LIMIT` |
| `Claim`, `NotClaimed`, `Skip` | first half of `processOneDelivery`: `FOR UPDATE`, status and attempt count compared again, unsupported version skipped |
| `Handle`, `Deliver` | the handler inside `applyConsumerEffectOnce`, then `status = 'delivered'` and COMMIT |
| `Throw`, `RecordFailure` | rollback, then `recordDeliveryFailure` in a transaction of its own |
| `FinishBatch`, `Crash` | the end of `dispatchDomainEventsForTenant` for a consumer; death of the process |
| `Replay`, `PauseConsumer`, `ResumeConsumer`, `Purge` | `delivery-replay.ts`, `consumer-state-directory.ts`, `delivery-retention-purge.ts` |
| `Deploy`, `BackoffElapses` | a release that changes the registry; the clock |

A transaction that waits for a row lock (`Locked`) or for the unique index of the
effect markers (`MarkerPending`) is an action whose guard is false. The nondeterminism of the
purge (any subset of the purgeable rows) stands for age, batch limit and legal
holds.

### 2.2 DatabaseGate (`lib/database`)

One Bun process, one event loop: a synchronous stretch of `runTenantWork` is one
action. `Arrive` is the breaker check together with `acquireWorkClassSlot` up to
its first await (`AcquireNow`, `Enqueue`, `RefuseFull`; a call the breaker
refuses changes nothing);
`TimeOut` is the waiter's timer; `Finish` is the end of the transaction: the report
to the breaker (nothing for a lost race or a client input error), the `finally`
that releases the slot, and `releaseSlot`'s direct hand-over to the next waiter. `WindowElapses`
is the breaker's clock, `Observe` a health read, which settles an elapsed window
as well. `Sicken` and `Heal` say whether transactions may fail. `early` is history:
the calls in flight since before the breaker last opened.

`canAttempt` lets every caller through while the breaker is half open, although the
comment at `circuit-breaker.ts:11-13` speaks of exactly one trial, and a success
of a call admitted earlier closes an open breaker before its window has passed
(`circuit-breaker.ts:82`). The module does as the code does, and the properties hold of that.

### 2.3 IdempotentMutation (`modules/_shared/idempotency.ts`)

A request runs `Begin`, `Look` (`findIdempotencyRecord` and the comparison of hashes), `Check`
and `Apply` (the mutation: `SELECT` status, then
`UPDATE ... WHERE status = 'pending'`, as in `approveSoDConflictException`; a
creation passes both), `Save` (`saveIdempotencyRecord`) and `Commit`. `LoseRace` is
`IdempotencyRaceLostError`: the insert found a committed record, the transaction
rolls back and `withTenant` answers from the winner's record. `Fail` may strike at any
point, and the answer of a commit may be lost. A record is named by the request
that wrote it, so `owner` of `KeyedMutation` is `records`. `straddle`, `guarded` and
`LegacyKeys` model the window after the migration that put the actor into the
key.

### 2.4 EmailDispatch (`modules/email`)

`Claim` is `claimEligibleEntries` (`FOR UPDATE SKIP LOCKED`, so any set of
eligible rows up to the limit), `LoadSuppressed` the list read once per pass, `PassOver` a suppressed recipient,
`Send` the provider's call and its outcome (accepted, accepted but not heard,
refused for now or for good, not asked because the breaker is open), `Record` the
attempt row (`ON CONFLICT DO NOTHING`), `Finalize` the row's new status. `Leave` is
the end of the loop's body for one message. The lease is
`due` of a row in `sending`; `Elapse` may end it at any time, so a pass that
outlives it and another one that takes its rows over are ordinary behaviours.
`told`, `excused` and `overtaken` are history: acceptances of the provider,
acceptances nobody heard of, and messages whose lease ran out under a live pass.

### 2.5 WorkflowApproval (`modules/workflow-approval`)

`Graph` is the pinned definition: a record per node. A transaction that walks the graph
keeps in `tx` what it has locked and what it has written; nothing of it is
visible before `Commit`. `Start`, `Decide` and `ForceDecision` begin such a walk,
`Vote`, `Reassign` and `Escalate` are transactions of one statement or whose rows
nobody else can see in between. `CreateTask`, `EvaluateCondition`, `FanOut`,
`Join`, `Notify` and `Finish` are the cases of `activateNode`. `Cancel` and
`Finish` take the instance's row, then `BeginSweep` fixes the rows the cancelling
UPDATE has seen, and `SweepTask` goes through them, waiting for each row and
looking at its status again, never at rows inserted since. `BreakDeadlock` is the server's deadlock detection. The triggers of
`sql/301` appear where they decide something: `Finish` rolls back an approval with tasks
pending, and a verdict is never overwritten. Escalation passes
read a due task, remember its step (`noted`), and update it later if step and
status are unchanged. The code's pass takes up to 25 due tasks in one transaction, the model's one: what is
decided about a task is the same, but that a pass holds one task's row while it waits for another's, and that all are lost when it fails, is left out.

`Funnelled(shape)` says which graphs the engine is designed for: the branches of a parallel node
"all funnelling into one `join` node" (`workflow-graph.ts:20-21`), whose awaited nodes are those branches; no cycles, which
`detectCycle` refuses; and no parallel node inside a branch, which the module's README calls not supported
(lines 37 and 115). `shape` is the witness: a rank for each node that grows along the edges, the parallel node each
node is inside of, and each parallel node's join. A branch may leave its parallel node only by its join or to an
`end`. `validateWorkflowGraph` asks for less: it accepts nested parallel nodes, and a branch that leads to another
parallel node's join. In such graphs the engine forgets which branch a token is in, and nothing is claimed
of them. `ActivatedOnce` and `StrandedOnlyAtJoin` need the hypothesis; the other properties hold for any graph.
TLC evaluates it for the graph of the runs (`ShapeAssumption`).

### 2.6 ReportingProjections (`modules/reporting`)

State. `row` is the source table (a row's timestamp is its transaction's start, `late` says
that it stayed open for the lag), `counted` how often each row is in the counters, whose sum is the metric,
`cursor` the stream's cursor, `runs` the rebuild runs, `lock` the transaction-level advisory lock of the
projection, `worker` what each process is at, `delivered` the events whose effect marker is
committed. `row.past` is history: who moved the cursor past an uncounted row.

| action | code |
| --- | --- |
| `WriteRow`, `CommitRow`, `Tick` | any writer of the source table; the database's clock |
| `StartUpdate`, `SkipForRebuild` | `runIncrementalUpdateForTenant`: a pass gives up while a rebuild runs |
| `StartRebuild`, `RunHasEnded`, `MarkCancelled` | `continueAllRunningRebuilds` and the checks of `runRebuildPass` |
| `LockProjection`, `ReadPage`, `CommitPage`, `FinishDrained` | the transaction of a pass: lock, cursor and page (`TrimIncompleteTail`, so that a page never ends inside a millisecond at its limit), deltas with the cursor |
| `PassFails`, `RecordFailure`, `WorkerDies` | rollback; `failed` in a transaction of its own; nothing |
| `TriggerRebuild`, `RequestCancellation`, `DeliverEvent` | `triggerOrResumeRebuild`, `requestRebuildCancellation`, `applyEventActivityProjectionIncrement` |

A row's time is the database's clock when its transaction began (`created_at`). The events of the event stream carry the
application's clock instead (`occurred_at`, in milliseconds): of them `WriteRow` is the insert, and a difference between the two clocks is left out.

Time runs in ticks finer than a millisecond, because the code mixes the two: the scan is bounded
by `now() - lag` in microseconds and the cursor that is stored is a JavaScript `Date`. A row behind the bound but in the
cursor's millisecond is therefore passed for ever (`split`), against `cursor-boundary.ts:47-48`; and the
rebuild's scan has no upper bound (`projection-rebuild.ts:287`, against `:42-43`), so that a row in flight during a
rebuild is passed as well. `NothingElseSkipped` says that there is no third way; `CountedIfOnTime` is
what the comments promise and no run checks.

### 2.7 InventoryLedger (`modules/inventory`, postings of `modules/procurement`)

State. `balance`, `moves`, `threshold`, `lows` are the balance rows and their low-stock signals, `ledger` the lines
posted, `location` and `tenant` the settings, `tx` the open transactions with the locks they hold. What a
transaction writes is applied at its commit: nobody reads in between, as every reader takes the row. `drift` is what was added behind the ledger's back.

| action | code |
| --- | --- |
| `Begin`, `LockSource` | the document's loop over its lines; the advisory lock of a line's source identity with replay or clash under it |
| `ReadLocations`, `LockBalance`, `Post`, `Refuse`, `Commit` | `postMovement`, `postTransfer`: locations `FOR SHARE`, balances `FOR UPDATE` in location order, all legs checked before one is written |
| `Abandon` | a failure, or PostgreSQL's choice in a deadlock |
| `StartRebuild`, `RebuildRow`, `CommitRebuild` | `findDrift`, then row by row: lock first, sum second |
| `SetStatus`, `SetLocationPolicy`, `SetTenantPolicy`, `SetThreshold` | the directories of settings |

Abstracted: unit codes and conversions, the empty balance rows that a refusal leaves, the settings as transactions of one
step. The tenant's policy is read without a lock, so `SettingsBindPostings` excuses what it has ever allowed. A rebuild locks by
location and then item (`inventory-balance-directory.ts:414`), a document by item and then location
(`procurement-posting.ts:126-130`): the two can deadlock, and PostgreSQL aborts one. `PostingsNeverDeadlock` is therefore claimed
of documents alone.

### 2.8 BookingHolds (`modules/booking`)

State. `status`, `expires` and `alloc` are the reservations and their live allocation rows, `tx` the sessions: the row locks of
each, the statuses it has written, the units won and still to be tried. An insert waits for another transaction's insert
or release of a conflicting row (the exclusion constraint), which `InDoubt` says.

| action | code |
| --- | --- |
| `AskVerb`, `LockReservation`, `TransitionReservation` | `transitionReservation`: lock, clock after the lock, judged again by the trigger |
| `Place`, `LockElapsedHold`, `ApplyExpiry`, `ReclaimEnds` | a claim's lazy reclaim of elapsed holds, in the order of ids |
| `RescheduleReservation`, `WriteClaim`, `ReadFreeUnits`, `WinUnit`, `LoseUnit`, `NextRound` | `writeClaim` in its savepoint: rounds of `INSERT ... ON CONFLICT DO NOTHING` |
| `EnforceHoldCaps` | the tenant's advisory lock and the count of live holds |
| `Reap` | `booking-hold-expiry.ts`: one statement, `SKIP LOCKED` |
| `Commit`, `Abandon`, `BreakDeadlock` | the end of the transaction; a claim in a deadlock goes back to its savepoint, a bounded number of times |

Abstracted: one resource, units by their ordinal, the slack of 16 candidates (never reached with so few units), batches of one
row. Left out: the cap per customer, claims of staff members, insertion of units, clock limits of check-in and no-show, extension of
holds, and the idempotency record around each request (`IdempotentMutation`). Deadlocks are possible
in spite of the fixed order of insertion, through second rounds and releases in doubt, and the retry handles them: `EveryTransactionEnds`.

### 2.9 OrderPayments (`modules/commerce`)

State. `status`, `paymentStatus`, `threshold` are the order's row; `leg` and `amount` the payment allocations by source key,
`back` the reversals; `draft` what an operator's open transaction has written; `session` and `past` the gateway sessions; `provider` and `denied` the provider's side; `seen` the event
keys of callbacks; `op` and `job` what requests and the reconcile job carry between their transactions.

| action | code |
| --- | --- |
| `RecordPayment`, `AdminPaid`, `Reverse` | `recordPaymentAllocation`, `settleOrderForManualPaid`, `recordPaymentReversal`: lock the order, look at its ledger, write the row and what `finalizeSettlement` derives (`draft`) |
| `Commit` | the end of such a transaction |
| `ReceiveCallback` | `applyVerifiedWebhookEvent` |
| `ReadStatus`, `WriteStatus` | `transitionOrderStatus`: reads, and later writes |
| `ValidateSession`, `CallProvider`, `PersistSession` | `createGatewaySession`: check, ask the provider, check again under the lock |
| `CheckStatus`, `ApplyChecked` | `reconcileOneOrderPaymentSession` |
| `ListExpired`, `LapseSession`, `ListPending`, `FetchStatus`, `ApplyFetched` | `reconcilePendingSessionsForTenant` |
| `ExpireOrder` | `expireOrdersForTenant` |
| `ProviderMoves`, `PassTime`, `Fail` | the provider, the clock, dead processes, failed polls, rolled back transactions |

`ApplyStatus`, shared by callbacks, job and operator, writes a session's status whatever it was and
settles, fails or expires with it (`applyFetchedStatus`). An operator's write is two steps,
so that others act between its look at the ledger and its commit; what keeps them apart is the order's row (`OrderFree`), which whoever writes
the order waits for, not the shape of the actions. A capture, a session stored and an order expired by its session are
one step under the same row: their own look and commit have nothing in between that anyone could see, and a lock that is not
waited for breaks them too (the mutants of `OrderFollowsLedger` and `OverpaidOnlyByProvider`). A leg fails and the provider moves without it.

What the code does and the model shows, without a property against it: a status `expired` can be set by an operator on a part-paid order; the locks of the job's list end with the
listing, so that `expired` may overwrite `paid` in a session; a late "pending" callback reopens an ended session, and two
sessions may then be live; a session past its time is expired unasked, and a "failed" one is not polled any more, so
that a capture whose callback is lost is then not recorded (the exceptions in `CapturedIsRecorded`); a whole-total session
can be stored on an order cancelled meanwhile; a crash between the provider's answer and `PersistSession` uses up an attempt number the provider then refuses.

Abstracted: the amounts a callback states (a mismatch is refused before anything is written), "refunded" callbacks, the age a session must have before it is
polled, redelivered callbacks (found in `seen`: a stutter). Restock, tax, points and events follow a
transition in its transaction and are left out, as are stored value, points, returns, refund requests and register sessions.

## 3. Runs

Every run terminates in minutes with two workers. Deadlock is not checked where the environment
is bounded (events, requests, messages, one instance): such a system may stop. `gate` checks it.

| run | question | bounds, and why they suffice |
| --- | --- | --- |
| `effects` | Do retries, replays, races, crashes, pauses, deployments and the purge keep the side effect single, and implement `EffectOnce`? | one event, one consumer, two passes, two attempts, two replays, one crash, pause and deployment. Rows of different (event, consumer) pairs share neither locks nor markers; two replays are what two simultaneously pending rows of a pair take |
| `order` | Is delivery in `event_sequence` order per key, if producers of a key are serialised, and does every pending delivery settle? | two events of one key, one pause, one crash, two passes, no replay: a predecessor and a successor that waits behind it |
| `gate` | Slots accounted for, nobody waiting for a free slot, recovery, every waiter answered | four calls, two classes with two and one slots, as many queue places, threshold 3. Every queue fills and overflows |
| `key` | One decision per resource, twins told the same, refinement of `KeyedMutation`, every request answered | four requests: twin creations, a decision under the same key, another actor's decision of the same resource under an equal key; with and without the legacy window |
| `email` | Row and ledger agree, one send unless excused, every message settles | one message, two passes, two attempts, two mishaps: overtaking needs two passes and one row; passes touch no other message's row |
| `workflow` | A node activated once per branch, quorum honoured, verdict final, one escalation per due date, nothing stranded but at a join, every transaction ends | condition, fork into two branches with rules `any` and `all` and an escalation, join, notification, `quorum` task, both ends; two transactions, two escalation passes, four tasks |
| `workflow_join` | Does a full join always continue? | the same graph, one escalation pass; violated |
| `projections` | Is no row counted twice, is none skipped but by the three known ways, and is a settled event counted? | two rows, two processes, two passes of one row each, a millisecond of two ticks, a lag of two ticks, six ticks of time, one rebuild, one failure; both strategies. A page that ends between two rows, a row behind the cursor and a rebuild between two passes all happen |
| `inventory` | Do balances follow their movements, documents post whole, settings bind, signals agree, postings never deadlock? | two locations, two items, two transactions; six documents that meet on all four balances: an opening, transfers both ways, a write-off, a document that claims its identity, a reversal; one change of a setting or drift |
| `booking` | Units whole and exclusive, caps, one successor per reschedule, one verdict per hold, elapsed holds refuse nobody, every transaction ends | two units, two nights, a hold of both units, a hold of one, its move to both nights, a block of everything; two sessions, two rounds, one retry, one tick, two transitions, one failure |
| `payments` | Captures recorded once, order and ledger agree, no overpayment by operators, sessions ask for what is owed, polling finds captures | two attempts, one operator's key, one reversal, the override, a request at work, three requests, a callback, a failure; a total of two with the threshold at the whole or at a deposit of one |
| `order_terminal` | Are the last statuses of an order final? | the same instance; violated |

Each property of a passing run has a mutant: a definition of the model replaced by the form a plausible
bug of the code would give it (named `... of ...` in the comments of the modules), under
which TLC finds the property violated. The mutants are listed in `PROJECT.json`.

### Findings

The two `violation` runs state what a comment or a document of the repository says, and TLC
refutes it for the code as it is:

1. `workflow_join`: two branches completed by overlapping transactions both miss the
   other's arrival, and the instance stops at the join with no task open.
2. `order_terminal`: `transitionOrderStatus` reads the status without a lock
   (`order-directory.ts:1749`) and updates by id alone (`:1783`), so a customer's cancellation
   may write over an order that has expired in between, although `domain/order-status.ts:4-6` calls
   the status terminal.

### Observations

Met while modelling, each reproduced by the model where it has the code in question; no property that holds can forbid them:

- Producers of one order key that share no lock: `event_sequence` is drawn at INSERT and visible at COMMIT, so an event can
  overtake its predecessor (`append-domain-event.ts:86`, against `dispatch-domain-events.ts:48-52`). `OrderPerKey` assumes
  `SerialProducers`.
- The loser of two equal, simultaneous status transitions is refused (`INVALID_STATE`, `sod-exception-service.ts:211`) instead
  of being told the winner's response (`docs/awcms/16_backend_data_access_integration.md:314`).
- The suppression list is read once per pass (`email-dispatch.ts:460`), not right before each provider call (`:254-255`).
- A cancellation that waits for a decision in flight misses the task this decision creates, which stays pending on the
  cancelled instance (`workflow-recovery.ts:163`, `cancel.ts:43-44`).
- A half-open breaker lets every caller through (`circuit-breaker.ts:11-13` speaks of one).
- A pause is read once per consumer and pass, so that a paused consumer may still handle a batch.
- Those of 2.6 (rows passed by the cursor), 2.7 (rebuild against posting) and 2.9.

## 4. Fairness

- `DomainEvents`: cron starts passes for ever and a pass visits the consumers in
  registry order, hence strong fairness of `CheckPaused` per consumer; a pass goes on
  unless a row lock makes it wait, and the lock's holder also goes on. Producers end
  their transactions. Nothing forces an operator to resume a consumer or a
  deployment to bring one back, so the liveness property excepts both.
- `DatabaseGate`: timers fire, transactions end, requests keep arriving, the open window passes.
  Recovery is claimed only if the database eventually stays well.
- `IdempotentMutation`: weak fairness of the statements of each request; nothing is assumed of clients,
  failures or the window.
- `EmailDispatch`: a pass goes on, time passes, and the query's order by age gives each
  due row its turn (strong fairness of its being claimed). Crashes, lost answers and calls an open
  breaker skips are bounded by `MaxMishaps`: a provider that never recovers is outside the claim.
- `WorkflowApproval`: PostgreSQL grants a row lock in the order of waiting (strong fairness of a
  transaction's next statement) and its deadlock detector runs (weak fairness of `BreakDeadlock`). No approver need ever decide.
- `BookingHolds`: weak fairness of each session's next statement, PostgreSQL's choice of a victim included.
- `OrderPayments`: the scheduler starts the reconcile job again and again and the job goes on; operators' open transactions end (weak
  fairness of `Commits`), and as requests are bounded the job does not wait for the order for ever; callbacks may never come.
- `ReportingProjections` and `InventoryLedger`: safety only; `FinishDrained` and a rebuild's end depend on a quiet source.

## 5. Proofs

All theorems hold for any values of the constants that satisfy the named assumptions: any
numbers of events, consumers, passes, calls, classes, requests, messages, approvers, locations, items, documents, payment attempts, reservations, units, nights, source rows and rebuilds, any approval graph (for two theorems, any funnelled one), any finite total. TLC evaluates the assumptions in the runs.

| module | inductive invariant | theorems |
| --- | --- | --- |
| `DomainEventsProofs` | `TypeOK`, `RowInv` (which rows exist at which stage of their event), `LockInv` (an open transaction's row is pending and its own), `MarkerInv` (an uncommitted marker is unique and new), `AppliedInv` (the effects committed are the markers) | `TypeCorrect`, `EffectCorrect`, `FinalStatusCorrect`, `BackoffCorrect` (with `CandidateInv`: a stale candidate's attempt count has moved on if its row backs off), `LineageCorrect`, `OrderCorrect` (with `SequenceInv` and `OrderInv`: nothing pending is ahead of a selected, held or delivered row; under `SerialProducers`), `Refinement` |
| `RequestPathProofs` | of `DatabaseGate`, `GateInv`: `GateTypeOK`, `Filed` (queues hold waiting calls of their class), the two gate properties, `Windowed`, `OpenLetsNobodyIn`. Of `IdempotentMutation`, `Inv`: `TypeOK`, `Held` (at most one uncommitted record per slot, at most one writer per resource), `Cleared` (who is past the look is not held by the legacy guard), and its four invariants | `GateTypeCorrect`, `SlotsCorrect`, `WorkConserving`, `OpenCorrect`, `FifoCorrect`; `TypeCorrect`, `OncePerKeyCorrect`, `AnswersCorrect`, `LegacyCorrect`, `DecidedOnceCorrect`, `TwinsCorrect`, `Implements` |
| `EmailDispatchProofs` | `TypeOK`, `Coherent` (a pass's place and its claims), `Backed` (a claim's attempts are in the ledger), `Alone` (a message never overtaken is held by one pass and in `sending`), `Pending`, and the two properties | `Invariant`, `TypeCorrect`, `LedgerCorrect`, `SendsCorrect`, `TerminalCorrect`, `SentWhileClaimed` |
| `WorkflowApprovalProofs` | `TypeOK`, `TaskInv` and `PassInv` (escalation steps, due dates, what a pass has noted), `QuorumHonoured`, `EndInv`, and for each open transaction `Shape`, `Backed`, `Supported` (the task it completes is pending and its votes suffice), `LastTask` (an approval in flight leaves no other task pending), pairwise `Exclusive`; of the walk in a funnelled graph, `WalksInv`: what is committed and what each open transaction sees is `Good` (tokens are in their branch, siblings of each other, and behind all that was visited or has arrived), `Once`, `Narrow` (a transaction keeps to its task's branch unless no other task is pending) and `Whole` (each branch is live or has arrived) | `TypeCorrect`, `QuorumCorrect`, `EscalationCorrect`, `VerdictCorrect`; for `Funnelled` graphs `ActivatedOnceCorrect`, `StrandedCorrect` |
| `InventoryLedgerProofs` | `TypeOK`, and of each transaction `Shape` (what it writes is locked), `LockOrder`, `Whole` (the lines behind its item are written, or were before), `Backed` (what it checked under a lock still holds), `Claimed` (a line is posted under its identity's lock), `Summed` (the sums a rebuild took stay true), pairwise `Exclusive`, and the ledger's properties | `TypeCorrect`, `Invariant`, `BalanceCorrect`, `WholeDocuments`, `SettingsCorrect`, `LowCorrect`, `NoDeadlock` |
| `OrderPaymentsProofs` | `TypeOK`, `Books` (the order follows its ledger, reversals are of payments that succeeded, operators never overpay), `Drafting` (at most one transaction is open, and what it has derived still holds: its payment is within what is owed, its reversal within its payment, its statuses those of the ledger with its row), `Attempts` (stored attempts are 1..n, each with the leg and the provider's state it must have), `Works` (what a request or the job carries still holds when it is used) | `TypeCorrect`, `Invariant`, `RecordedOnceCorrect`, `FollowsCorrect`, `OverpaidCorrect`, `AskedCorrect` |
| `BookingHoldsProofs` | `TypeOK`, and of each transaction `Shape`, `Backed` (what it writes it has locked, or is its own new row), `Superseding` (a reschedule keeps the row it replaces), `Winning` (units won are enough when it ends, and free), `Reclaimed` (elapsed holds in its way are expired on the way), `Capped` (a hold is counted under the tenant's lock), pairwise `Apart` (no row, unit of a common night, request or cap lock shared), `AskedOnce`, `Lineage`, and the properties | `TypeCorrect`, `Invariant`, `ClaimsAreWhole`, `CapCorrect`, `LineageCorrect`, `VerdictCorrect`, `RefusalCorrect` |
| `ReportingProjectionsProofs` | `TypeOK`, `RowInv` (a counted row is behind the cursor or was delivered), `PastInv` (what a row's history says of it), `RunInv` (one rebuild runs, and knows what it has added), `WorkerInv` with `PageInv` (the page about to be added is uncounted, ahead of the cursor and without a gap but for rows that have committed since) | `TypeCorrect`, `Invariant`, `CountedOnceCorrect`, `SkipsCorrect`, `DeliveredCorrect` |

The safety properties are not inductive alone. That an effect is single, for instance, rests on a marker that is
not yet committed being held by a single transaction (`MarkerInv`), which rests on the locks (`LockInv`).
That a quorum is honoured rests on the seats of a locked task not changing, and that a verdict leaves no
task pending on a transaction that approves being alone: whoever else is open would hold a pending task, which the
trigger of `sql/301` refuses.
That no node is activated twice rests on the walk being ahead, in rank, of everything it or anyone before it visited; two transactions that
complete tasks at once are in sibling branches, and neither leaves its own before both have committed, so that what one adds is news to the other
but never in its way. The same invariant, with an account of every branch, leaves a missed arrival as the only way to strand an instance.
That operators never overpay rests on the sum of their payments being covered by the whole ledger (`NetCoversStaff`): the
provider's payments are never given back beyond their amounts. That it, and the order's following of its ledger, survive an operator's late commit
rests on the ledger's sums not moving while a draft is open (`SameSums`): a leg may fail meanwhile, but no succeeded row comes or goes. That a session asks for no more than is owed rests on its
attempt number being its own (`OnePersists`), so that what is stored is what this request was promised.
That no row is counted twice, and none left out without a known reason, rests on the advisory lock: what was
read under it stays so until it is released, but for rows that commit and runs that end, and neither puts a row into the page or takes one out.
That claims never share a unit and a verdict stands rests on what a transaction has written being locked by it or its own; a hold
that elapsed cannot refuse a claim, because the claim has expired those in its way, in the order of ids, before it looks at the units.
Sums over ledgers are functions on the subsets of a finite set, the one of `InventoryLedger` and the community module's fold alike. Their
lemmas (the sum does not depend on the order, one element more or less, disjoint union) are proved through a minimal counterexample among the subsets, which the
library's well-foundedness of strict inclusion provides, since induction theorems with an operator parameter are out of reach. That documents never
deadlock is proved from the greatest item, and within it the greatest location, anyone of a supposed circle waits for.

The refinements map `published` to the committed events and `applied` to itself, and
`owner` to the table's records and `told` to the answers: every step of the detailed module
is one step of the abstract one or a stutter.

Proved and no longer checked by a run of their own: the type invariants, `FirstComeFirstServed`, `OpenLetsNobodyIn`, `BackoffRespected`,
`ReplayLineage`, `FinalStatusKept`, `LegacyNotRunAgain`, `TerminalKept`, `SentOnlyWhileClaimed`. Of the look a pass takes again at a stale candidate,
the runs of `DomainEvents` need the status (without it `EffectExactlyOnce` fails); that the attempt count is compared as well is what
`BackoffRespected` rests on.

Only model-checked: the liveness properties (`EveryDeliverySettles`, `Recovers`,
`EveryWaiterAnswered`, `EveryRequestAnswered`, `EveryMessageSettles`,
`EveryTransactionEnds`, `CapturedIsRecorded`), which fairness and ENABLED put out of the prover's reach. Every safety invariant
that a run checks, and every action property, is also proved.

## 6. Not modelled

- Payload validation, authorisation, audit rows, metrics, wording of responses.
- Clock arithmetic: back-off times, lease lengths and due dates are booleans that may change at any time,
  which covers every setting of the durations.
- The connection pool behind the gate; a transaction that fails for lack of a connection is a failing transaction.
- In `EmailDispatch`: the purge of old messages, templates, batching of announcements.
- In `WorkflowApproval`: authoring of definitions, who holds which delegation, the wording of notifications, more than one instance (instances share no rows).
- The components of `PROJECT.json` with status `not_modelled`, with the reason for each. Most lease outboxes repeat the protocol of
  `EmailDispatch`; most directories are one-row transitions under a row lock.

## 7. Plan

In order of weight:

1. Refunds, stored value and loyalty ledgers of commerce on top of `OrderPayments`.
2. `EdgeCachePurges` and `JobRunner`: attempts counted at the claim; a lock released before its handler ends.
3. A lease outbox general enough for objects, push and messengers, with `EmailDispatch` as an instance.
4. The push and pull endpoints of sync-storage; leases and late results of omes-control.
