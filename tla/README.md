# automation-server: TLA+ models, checks and proofs

The repository (`src/`) is a TypeScript service that automates three back-office
processes of an internet provider on top of Temporal: e-mailing the NF-e (tax
document) of each sale, CSAT surveys over WhatsApp, and equipment retrieval orders
("cobrancas"). Temporal workflows orchestrate activities; activities talk to an ERP
database, to the IXC and OPA APIs and to SMTP servers; a MySQL/MariaDB "system database"
keeps customers and sales to mail and an idempotency table. What can go wrong lies in the
seams: at-least-once activities around external mutations, leases that expire,
rows updated by conditional statements, workflow ids used as locks, HTTP requests
racing schedules, processes that start and stop together, and compensations that run
late.

Paths below are relative to `src/src/` unless they start with `src/`.

## 1. Inventory

| Component | State | Operations | Module |
|---|---|---|---|
| Idempotency repository, `infra/system-db/workflow-step-idempotency.repository.ts` | table `workflow_step_idempotency`: status, lease token, expiry, payload hash, result | reserve, markCompleted, markFailed, cancel | `StepIdempotency` implements `LeasedStep` |
| NF-e sale dispatch: `temporal/workflows/nfe/process-*.ts`, `temporal/activities/nfe/`, `temporal/client/nfe-email-dispatch-single-sale.client.ts` | the sale's row, the attempt lock, local state of child, manual workflow and request | lock, claim, fetch, render, send, finalize, recover, roll back, unlock | `NfeSaleDispatch` implements `SaleLedger` |
| NF-e discovery and processing parents, repositories of customers and sales | tables `nfe_email_dispatch_customer`, `nfe_email_dispatch_sale`; the queue and the running children of each parent | register, delete, list, enqueue, bounded pools of children | `NfePipeline` |
| CSAT item, `temporal/workflows/csat`, `temporal/activities/csat` | local state of a survey item, its idempotency rows | find customer and contact, send, register, forward | `CsatSurveyItem`, its rows implement `LeasedStep` |
| Triggers: CSAT start, cobrancas with its recovery and its order child | rounds, fan-out, recoveries, one order per item | fetch, register a failure, recover, cancel, create an order | `Triggers`, the orders' rows implement `LeasedStep` |
| SMTP client, `integrations/smtp/smtp.client.ts` | the pooled transport of the process | prepare, send, read errors, replace, close | `SmtpPool` |
| Migrations, `infra/system-db/run-system-db-migrations.ts` | the schema | create, alter, several processes at once | `Migrations` |
| Workers and API: `temporal/worker/`, `app/server.ts`, `app/health/`, `infra/runtime/` | what the process has open, health state, cached readiness, exit code | migrate, listen, connect, run, drain on a signal, close | `WorkerProcess` composes `Migrations` and `SmtpPool` |
| Schedules clients | Temporal schedules (overlap SKIP) | ensure, describe, delete | their policy only, in `NfeSaleDispatch`, `NfePipeline`, `Triggers` |
| ERP, IXC and OPA clients | pools | queries and calls | what each answer is taken for, in the modules of their callers |
| Configuration, observability, diagnostics | counters, logs | parse, record | none (section 12) |

How they meet: schedules start the parents and triggers; parents start children under ids
that double as locks; children run activities, at least once each, which protect external
mutations by idempotency rows; HTTP requests act on the rows of the same sales and
customers; every process runs the migrations before anything else and shares one database
pool, one SMTP transport and one readiness cache among whatever it runs.

What makes the components correct:

- **idempotency repository**: two executions never hold live leases of one row; a
  verdict, once stored, never changes, and is what every later caller is told; it
  is the verdict of the latest lessee; lost replies never turn into permanent
  errors; every reservation ends.
- **NF-e dispatch**: one sender at a time; SENT is final and truthful; an e-mail is repeated
  only at the price of a failure, and automatic e-mails are bounded; an eligible sale is
  eventually taken.
- **discovery and processing**: what counts as success is in the queue; the schedule mails
  a sale once, deletions and new registrations notwithstanding; a sale left behind was
  reported; no pool of children stalls or overflows.
- **CSAT**: a mutation is repeated only when a failure forces it; each item ends recorded or
  forwarded, truthfully.
- **triggers**: a trigger that gives up leaves a recovery or a registered failure; a
  second order takes an answer nobody could trust; everything that started ends.
- **processes**: nobody runs on an incomplete schema; whatever was opened is closed,
  whenever the signal comes; the exit code tells of failures; a cached answer is never
  older than its time to live; e-mails that share a transport do not hurt each other.

The hazards, each at its line with the properties about it, are in `PROJECT.json`.

## 2. Plan

Done, in this order: `StepIdempotency` and `LeasedStep`; `NfeSaleDispatch`;
`CsatSurveyItem`; `Migrations`, `SmtpPool` and `WorkerProcess`, which composes them;
`NfePipeline`; `Triggers`; the ledger of a sale, `SaleLedger`. Every safety property that a
run checks is proved, but for `ParentsNeverStall`, whose `ENABLED` is out of the prover's
reach: `ParentsCanGoOn` is proved in its place (section 10).

Left: `/healthz` with its optional dependencies beside `/readyz`; the refinement of the
sale's part of `NfePipeline` by `NfeSaleDispatch`, which needs the manual requests in the
former.

Modules and their roles:

| Module | Extends | Checked by | Proved in |
|---|---|---|---|
| `LeasedStep` | - | as a property of `StepIdempotency` and of `CsatSurveyItem`; `Triggers` is proved to implement it | - |
| `SaleLedger` | - | as a property of `NfeSaleDispatch` | - |
| `StepIdempotency` | - | `MCStepIdempotency` | `StepIdempotencyProofs` |
| `NfeSaleDispatch` | - | `MCNfeSaleDispatch` | `NfeSaleDispatchProofs` |
| `NfePipeline` | - | `MCNfePipeline` | `NfePipelineProofs` |
| `CsatSurveyItem` | - | `MCCsatSurveyItem` | `CsatSurveyItemProofs` |
| `Triggers` | - | `MCTriggers` | `TriggersProofs` |
| `Migrations` | - | `MCWorkerProcess` | `MigrationsProofs` |
| `SmtpPool` | - | `MCWorkerProcess` | `SmtpPoolProofs` |
| `WorkerProcess` | `Migrations`, `SmtpPool` | `MCWorkerProcess` | `WorkerProcessProofs` |

Runs (twelve; five end in a counterexample, see section 11):

| Run | Instance | Distinct states |
|---|---|---|
| `step` | three callers with two payloads, one clock ahead, TTL 1, time to 3, two iterations; fair callers | 745,000 |
| `sale` | two requests (symmetric), every kind of fault, two faults, three claims, limit 2 | 1,850,000 |
| `sale_live` | one request, three faults, four claims, limits 1 and 2; fair schedule and workflows | 104,000 |
| `sale_mails`, `sale_stuck`, `sale_starved` | the smallest instance of each | violated |
| `csat` | one contact, two executions alive, every kind of failure, two failures; fair | 440,000 |
| `csat_retry` | one transient failure | violated |
| `pipeline` | two customers, one sale, one client, pools of one, three days, four parents, one failure | 1,836,000 |
| `triggers` | two triggers, two items, three tries, two failures; fair; deadlock checked | 370,000 |
| `process` | six kinds of process, another process that starts with it, two mails, two attempts each, one failure, one broken connection; fair | 618,000 |
| `worker_ready` | the two kinds with a health server, no failure at all | violated |

`CHECK_DEADLOCK FALSE` where the system may really stop: callers that ended, a sale that
was sent, a process that exited, or counters of the environment used up. `triggers` names
its final states (`Finished`), so that any other stop is a deadlock.

## 3. `StepIdempotency` and `LeasedStep`

One row of `workflow_step_idempotency` and the activity executions that use its key.
A retry of an activity is a new caller, because `reserve` draws a fresh lease token.

| Model | Code |
|---|---|
| `Insert` | `INSERT IGNORE` of `reserveWorkflowStepIdempotency` |
| `Load` | the `SELECT` and the decisions on status and payload hash |
| `Reclaim`, `Reclaimable`, `ExpiredLocally` | `tryReclaimExpiredPendingReservation`; the comparison with the worker's clock when it matched nothing |
| `TryAgain` | the loop bounded by `MAX_RESERVATION_RELOAD_ATTEMPTS`, then the transient race error |
| `Perform` | the external mutation of the activity |
| `Finalize`, `Recheck` | `markCompleted`/`markFailed`: a conditional `UPDATE`; when it matched nothing, the reload that explains why |
| `Cancel`, `Recheck` | `cancelWorkflowStepIdempotencyReservation` |
| `Throw` | crash, timeout, or transient error anywhere |
| `Tick`, `Skew` | the database clock, and each worker's distance from it |
| `Init` | no row, or a pending row without a lease, as migration 002 leaves old ones |

Each SQL statement is one atomic step; everything between two statements may
interleave. The reply of an `UPDATE` or `DELETE` may be lost and the statement
repeated. Payloads are compared by hash only; results are identified by who stored
them. `attempts` has no bound in the code and is bounded by the callers.

`LeasedStep` is what the activities rely on: a lease passes on only when it has run out or
was given back, a verdict is given by the lessee, and stands; a lessee may be lost, and its
lease runs on. It keeps what is left of a lease, and no clock, so that a module with any
notion of time can implement it. `ImplementsLease` shows that the SQL does, mapping the
columns of a pending row to the lease; `CsatSurveyItem` shows it of the rows it uses
(section 6), which is how the two fit together.

`step` has three callers (two with the same payload, one with another), one clock ahead
by one unit. A lease can be granted, expire, be taken over, expire again; a stale holder
can finalize before or after its successor; a row can be deleted and inserted anew between
a SELECT and a reclaim. Fairness: every started caller goes on (an activity worker runs
what it started). The clock is not fair: the loop must end even when time stands still.

That a lease does not stop a holder slower than it is not a question to this module:
`CsatSurveyItem` counts the repetitions this leads to.

## 4. `NfeSaleDispatch`

One row of `nfe_email_dispatch_sale`; the scheduled parent as far as it concerns this
sale; the child of the next attempt; HTTP requests for manual processing, each with
the manual workflow it starts; the attempt lock (an idempotency row keyed by attempt
number, shared by both kinds of workflow); the SMTP idempotency rows (keyed by
workflow); Temporal's memory of workflow ids.

| Model | Code |
|---|---|
| `Eligible`, `ManuallyClaimable`, `Mine`, `Restored`, `ClaimRow`, `StoreVerdict` | the `WHERE` clauses and assignments of `workflow.repository.ts` |
| `List`, `StartChild` | the parent: it loads `attempt_count`, then starts `sale-X/attempt-(N+1)` |
| `ChildAcquire`, `ChildClaim`, `Work`, `Finalize`, `Unlock`, `ChildCancel` | `process-single-nfe-email-dispatch-sale.workflow.ts`, including its `finally` |
| `FinalizeThrew` | its outer `catch`: classify and finalize once more |
| `RequestLoad`, `RequestClaim`, `RequestStart`, `RequestRollback` | `nfe-email-dispatch-single-sale.client.ts` |
| `ManualLoad`, `ManualAcquire`, `Work`, `Finalize`, `Recover`, `Unlock` | `process-manual-nfe-email-dispatch-sale.workflow.ts` |
| `ErpStage`, `IxcStage`, `RenderStage` | the activities that fetch the context and the PDF and render the e-mail, by what each failure is classified as |
| `WorkFailsBeforeMail`, `AnsweredByEarlierSend`, `TalksToServer` | the end of the attempt by outcome; `send-smtp-email.activity.ts` |
| `Startable` | `ALLOW_DUPLICATE_FAILED_ONLY`, or `ALLOW_DUPLICATE` with a rerun policy |

Abstractions. An activity is one step with its retries inside: it returns, or throws
after its statement was applied or not (`Fault`). Retries of a claim find the claim by
its time stamp, so a claim is applied once; retries of a lock reservation meet their
own unexpired lease and report PENDING. The lease of the lock may or may not have
expired when another execution meets it, so both outcomes are allowed
(`StepIdempotency` has the clock). `last_attempt_at` is a claim number: no two claims
share a millisecond. Overlap SKIP keeps one parent at a time. A running discovery only
delays `List`. A start that `describe` does not find never lands later.

The kinds of fault (`Faulty`): a lock statement (`lock`), a claim, a load, the SMTP
answer after delivery (`smtp`), a finalization (`finalize`), the start of a manual
workflow (`start`), the API process (`client`: a crash or a lost reply between any two
of its steps). A server that refuses, and an ERP, IXC or rendering failure, need no
fault: they are outcomes of `Work`.

`SaleLedger` is what the row promises to all who try to e-mail the sale, with no locks,
workflows or errors: claims are numbered, one e-mail may leave under the claim that has the
sale and none under another, only that claim settles it, as sent only if an e-mail left and
then for good, and it may be undone while nothing left under it. `KeepsLedger` maps the row
to it: `claim` is `last_attempt_at`, `mailed` the claims of the e-mails the server accepted,
and a rollback is the only step that undoes. That a claim is undone only before its e-mail
is what nobody wrote down: the API rolls back a claim whose workflow it could not start, and
must not do so once that workflow runs.

Runs:

- `sale`: two requests beside the schedule and all kinds of fault. Requests are symmetric.
  `RepeatedMailsNeedFaults` counts the e-mails the server accepted against the failures:
  attempts of the schedule and by hand, reruns, rollbacks and recoveries may follow each
  other in any order, and none repeats an e-mail by itself. That SENT stays SENT, whatever
  late statement arrives, is `KeepsLedger`'s business and a theorem of its own (`SentIsFinal`).
- `sale_live`: `AutomaticMailsBounded` for a limit of one and of two while manual attempts
  use up the same counter, and `EligibleIsTaken`. Weak fairness of the schedule (it fires for
  ever), of the child (Temporal resumes workflows) and of each request's code; nobody need
  make a request. `lock` and `start` faults are left out: a lost lock answer or a rollback
  makes a SKIPPED child use up the id of the next attempt (`sale_starved`), and a rollback
  lowers the counter below what automatic attempts used.
- `sale_mails`, `sale_stuck`, `sale_starved` (violated): section 11.

Bounds. `MaxCount` bounds `attempt_count`, `MaxFaults` the failures. Every interleaving
that matters takes at most three claims: one loaded by a request, one that supersedes
it, one that meets the result. Two requests are enough for a request to race another
and the child at once.

## 5. `NfePipeline`

From the registration of a customer to the e-mails of its sales. Where `NfeSaleDispatch`
looks at one sale through a magnifying glass, this module has the tables, both parents and
their pools, and what happens to them from outside: deletions, registrations, invoices,
midnights.

| Model | Code |
|---|---|
| `Register`, `LookUp`, `Delete`, `WithId` | `customer.repository.ts` and `nfe-email-dispatch-api.service.ts`: a row found first and deleted by id later, `ON DELETE CASCADE` |
| `StartDiscovery`, `LoadCustomers`, `LoadCustomersFails`, `EndDiscovery` | `fetch-customer-nfe-sales-candidates.workflow.ts`: the loaded customers are its queue |
| `RoomFor`, `StartFetch`, `ChildId`, `Refused` | its pool: the race of the running children makes room; ids carry the customer's id and the date; a start that is refused or fails counts as a failed customer |
| `Fetch`, `FetchFails`, `Candidate` | the ERP query with `calculateEffectiveStart`: the later of the registration and the start of the window |
| `Enqueue`, `EnqueueFails`, `Queued`, `ReferenceHolds` | the idempotent insert under the foreign key, all rows or none |
| `StartProcessing`, `CheckDiscovery`, `LoadEligible`, `ProcessingFails`, `EndProcessing` | `process-nfe-email-dispatch-sales.workflow.ts` |
| `StartWork`, `Claim`, `Mail`, `Finalize`, `Failures` | its pool and its children, as short as the pipeline needs them |
| `Stamp`, `NextDay`, `Issue` | the clock, midnight, the ERP's invoices |

Abstractions. Datetimes are instants of one clock, and no two are the same. Customers are
taken by id, as the query orders them; sales are ordered by `created_at, id` of their rows,
and the model leaves that order open. The check for a running discovery is made by
workflow id and comes before the load, so processing and discovery may still run together
(`src/docs/tasks/28` and `src/docs/NFE_EMAIL_DISPATCH_OPERATION.md:60-67` speak of avoiding
it); `CheckDiscovery` therefore lets the parent go on in either case, and the properties do
not rely on their exclusion. Rows that a statement matches (affected rows, `FOUND_ROWS`)
are the driver's affair. There is one runtime scope: scopes prefix ids and keys.

`pipeline`: two customers, of whom one buys, one sale, pools of one child, one client that
deletes what it looked up earlier, three days, four executions of the parents, one failure.
A second customer makes the pool matter and the ids order; one sale suffices because sales
meet only in pools, which the second customer's child exercises. Two ids are a registration,
a deletion and a registration anew. `SuccessIsComplete` compares the queue with the history
variable `due`, set when the customers are loaded; `NotMailedAgain` holds across deletions
because a new registration is later than the invoice; `ParentsNeverStall` says with `ENABLED`
that a parent always has a step of its own, `ParentsCanGoOn` says it with the guards of those
steps.

## 6. `CsatSurveyItem`

One service order: the trigger as far as it concerns it, the child workflow, the
executions of the three mutating activities it starts, and their idempotency rows.

| Model | Code |
|---|---|
| `Trigger` | `startEligibleItemWorkflows`: the id names the service order; `ALLOW_DUPLICATE_FAILED_ONLY` lets only a failed child run again, anything else is skipped |
| `OpaReplies`, `CustomerFound`, `ContactFound` | what `opa.client.ts` and the two lookup activities take each answer of OPA for |
| `FindCustomer`, `FindContact` | the lookups; their failures are forwarded, whether reported or thrown after the retries |
| `Start` | the activity is scheduled: at once, or when the delay of a retry is over |
| `Reserve`, `Call`, `Store` | the body of `send-csat-message`, `register-csat-success-event-on-os` and `forward-service-order-on-failure`: reserve, call IXC, mark completed or failed, answer |
| `AfterSend`, `AfterRegister`, `AfterForward`, `Forwards` | what the child does with the answer |
| `Again`, `Thrown`, `Timeout` | the register loop with its sleep; Temporal's retries (six, 30 seconds apart, two minutes each; one for register) |
| `GivesUp` | register turns transient errors into results, the other two throw |
| `Grantable`, `Leased`, `Owns`, `Stored` | the idempotency row, as `StepIdempotency` shows it to behave, one step per call |
| `Crash`, `Stall`, `Tick` | a worker dies; an execution takes longer than a unit of time; 30 seconds pass |

The unit of time is 30 seconds, so the leases last 3, the timeouts 4, the delays 1:
the code's own ratios, not small numbers chosen at will. Time is kept as what is left
of a lease or timer, which keeps the model finite. `Tick` never passes over a timeout
that is due, nor over an execution that is not stalled; a stalled one may go on at any
later time, after its timeout, after its lease, beside its own retry. An answer the
child no longer waits for is dropped, as Temporal does.

A key names the step and the contact, or for forward the failure message; there are
two kinds of message (a lookup failed, the send was refused), since only equality of
keys matters. The workflow id is in every key and is the same for reruns. IXC's answers are
success, a refusal that applied nothing (`response-error`), and `unclear`: HTML or an
error that is not transient, of which nobody knows what was applied. A transient error
comes before IXC applied the mutation (`transient`) or after (`lost`). The database may
fail a reservation (`reserve`) or a mark (`store`), applied or not.

Runs:

- `csat`: one contact, two executions alive at once, every kind of failure, two
  failures. One stall is enough for two executions of a step to overlap, and one
  failure more for the second to take over the lease, or to be wrong about it. Fairness:
  the schedule fires again (`Trigger`), Temporal and the workers go on with what they
  started, and time passes for ever (strong fairness of `Tick`, since a new execution
  may always be about to run when it could have).
- `csat_retry` (violated): section 11.

A reservation, a mark and a lease are one step each here and several statements in
`StepIdempotency`. `RowsImplementLease` shows that these steps are those of `LeasedStep`,
row by row: `Reserve` is its `Grant`, `Store` its `Decide`, `Tick` its `Tick`, and an execution
that ends, dies or loses its answer is a `Lose`. As the statements implement `LeasedStep` too,
neither module assumes of a row what the other does not keep. `AnswersStand` (what
IXC answered for good is never overwritten) is proved and no longer has a run of its own.

`RepeatsNeedFaults` counts a repetition against each failure and no more. Two lookups
that answer differently in two runs are not failures, and make different keys (section 11,
known behaviours). The order is taken
to stay eligible while its child has failed: the ERP decides that, outside this code.


## 7. `Triggers`

The two scheduled triggers. They have the same shape, so one module with `kind` serves both:
a cobrancas trigger has a recovery workflow, a CSAT trigger has none.

| Model | Code |
|---|---|
| `Fire`, `Awake` | the schedule with overlap SKIP; the recovery's delay of two hours |
| `Fetch`, `CobrancasRecords`, `CsatRecords`, `Unordered` | the eligible items by the ERP query; incomplete records are set apart |
| `FetchFails`, `AfterFailure`, `RetryFetch` | the two rounds: a permanent failure ends them, a transient one is tried again after a sleep |
| `EnsureRecovery`, `Remember`, `CancelRecovery`, `HeedCancellation` | the recovery started before the sleep, and taken back by a success |
| `RegisterFailure` | `failTriggerTerminally`: register, then throw, whatever became of the registration |
| `StartChild`, `Startable`, `FinishFan` | the fan-out; an id already in use is a duplicate |
| `Reserve`, `CreateOrder`, `RecordOrder`, `LoseAttempt`, `LeaseExpires`, `Retried`, `Concluded` | the order child and its activity with three attempts |
| `CallIxcApi`, `Envelope`, `OrderAnswer` | `ixc.client.ts` and `ixc-mutation-response.ts`: what each answer of IXC is taken for |
| `EndSurvey` | a CSAT child, whose life is `CsatSurveyItem`'s |

Abstractions. The lease of the order's idempotency row has expired or not (`leased`);
`StepIdempotency` has its clock. Counters of the fan-out, and records that are only logged,
are not kept. Request ids of scheduled runs are unique, so the branch of
`ensureRecoveryWorkflowStarted` for a recovery that exists is never taken; triggers
started by hand under one request id (development) are not modelled.

`triggers`: two triggers with their recoveries over two items, two failures of any
kind. Two triggers are a list fetched by one run and fanned out after another run ordered;
two items are a fan-out that is cut by a cancellation in the middle. Fairness: weak fairness
of everything Temporal drives; the schedule need not fire. `OrdersNeedDoubt` counts, for
each item, the orders in IXC against the answers that were lost, unreadable or refusals,
and allows one order without doubt.

`OrderRowsKeepLease` (proved, no run of its own): between two starts of an item's child, the
attempts of its order use the idempotency row as `LeasedStep` says, whether they are retried,
lost or die under their lease. With `CsatSurveyItem` and `StepIdempotency` all modules that
speak of such a row agree on what it does, the attempt lock of section 4 apart, whose lease
may expire at any time.

## 8. `Migrations` and `SmtpPool`

`Migrations`: every process runs `runSystemDbMigrations` before anything else, nothing
locks, and they start together. The schema is the set of its features; every statement is a
step; `seen` is what a process learnt from `information_schema` and decides its next `ALTER`
on. The initial schemas (`Deployed`) are those earlier versions of the program left. An
`ALTER` that adds what exists or drops what does not is refused as a whole (`Refused`), the
process ends and is started again. A connection may break before or after any statement
(`Break`).

`SmtpPool`: `smtp.client.ts` keeps one pooled transport; every failed send closes the
transport the map then holds, and the e-mails queued behind it fail in turn. Errors are the
set of what can be read in them, and `NormalizeSmtpError` makes the code's tests in the
code's order. The activity's retry is `BeginSend` of an e-mail that ended `transient`.
nodemailer is external: it serves its queue on one connection and fails the queue with
"Connection pool was closed".

Both are checked inside `WorkerProcess` (run `process`), which the theorems
`ProcessMigrates` and `ProcessSends` show to be no restriction: each process implements them.

## 9. `WorkerProcess`

One process of each of six kinds, from its start to its exit.

| Model | Code |
|---|---|
| `MigrateStep`, `Migrated` | `run-temporal-worker.ts`, `server.ts`: the migrations, then the signal handler |
| `Listen`, `Connect`, `Created`, `CreateFails` | the health server or the API; `createTemporalWorker` with the marks of the health state |
| `UseClient`, `RunEnds`, `RunFails`, `SendStep` | activities that make the shared clients; the worker's run; sends through `SmtpPool` |
| `AskReady`, `ReadyLoaded`, `Cached`, `RuntimeHealthy`, `Up` | `/readyz` of `worker-health-server.ts` and `health.service.ts`: cached answer, shared load in flight, new load |
| `Signal`, `HandlerStep`, `DrainRefused`, `SignalledBefore` | `graceful-shutdown.ts`; a signal before there is a worker is remembered until there is one |
| `WaitForHandler`, `CloseStep`, `Closes`, `FailsToClose`, `End`, `FinalCode` | the `finally` blocks: every step runs, failures show in the exit code |
| `Kill` | SIGKILL, or a signal nobody handles yet or any more |
| `ShutdownSteps`, `HandlerSteps`, `Uses`, `PassesHealthState` | where the kinds differ: `run-*-worker.ts`, `worker-activity-groups.ts` |

Abstractions. A signal reaches the process between two awaits. The health server listens on
an address (the default is `0.0.0.0`); a name that needs DNS would let a signal come between
`listen` and `listening`, which is not modelled. What the SDK does when it is told to shut
down a worker that has not run is external: it may refuse (`Created`).

`process`: all six kinds, alone or (bound `Together`) a control worker together with another
process that migrates; two e-mails with two attempts each, two lease columns, one failure
of the process, one broken connection, two ticks of the clock with a cache of one. Fairness
is weak fairness of `Due`, the union of what must come: every await ends, a started
activity ends, and the supervisor (compose restarts it) starts a process whose migrations
failed again. Signals, failures, requests and new sends are not due. It is enough that
some due step is taken, as each brings the process nearer to its end or to a wait.

`SignalEnds` rests on `SignalIsKept`, which is proved: a worker that runs when the handler is
done has been asked to drain, though the signal may come before there is a worker, and the
worker be made after the handler looked for one.

`worker_ready` (violated): section 11. `ReadyUnlessIxc` proves that the ixc worker is the only
kind of process it is true of.

## 10. Proofs

Every theorem is for all values of the constants that satisfy the assumptions of its module
(`CallersAssumption`, `HashAssumption`, `TimeAssumption`, `DispatchAssumption`,
`PipelineAssumption`, `SurveyAssumption`, `BoundsAssumption`, `MigrationsAssumption`,
`SmtpPoolAssumption`, `WorkerProcessAssumption`): any number of callers, requests, sales,
customers, processes, e-mails and failures. Five theorems assume more, about which faults
occur or which kinds of process there are, and say so in their `ASSUME`: they tell
under which conditions a bound, or a promise that a run of section 11 refutes, does hold. None of the safety properties is inductive
alone; each module ends with the strengthening, and the proofs have one lemma per
action.

- **`StepIdempotencyProofs`**: the row's safety, finality, stable payloads, and
  `LeaseRefinement`: `Spec => ImplementsLease`. The heart of `IInv` is `LeaseExclusive`: a
  holder that does not own the row has outlived its lease, since a lease is lost only to a
  reclaim, which needs the database's clock past the expiry. Around it: the shape of the
  row (`RowShape`, `LeaseShape`), an `UPDATE` that matched nothing stays unmatched until the
  reload (`RecheckUnowned`), ids are never reused (`SeenPayload`). The workers' clocks may
  be off by any amount.
- **`NfeSaleDispatchProofs`**: `SingleSender`, `SentWasMailed`, `PendingMeansUntried`, and
  `SentStaysSent`, a conjunct of the inductive invariant `IInv`. A claim in progress
  belongs to one actor, and from its claim to its first finalization that actor finds the
  row as it left it (`HoldersOwn`, with `ClaimsDistinct`); whatever may yet become of the
  row is as true as the row is: snapshots of requests, targets, stored SMTP answers
  (`RowIsTrue`, `BeforeIsTrue`, `TargetsAreTrue`, `AnswersAreTrue`). `OneActs` reduces a
  step to one actor's. `AutomationIsBounded` has one assumption of its own, `"start" \notin
  Faulty`: no start of a manual workflow fails, so nothing is rolled back, the attempts of
  the row are the claims there were, and a child's claim is within the limit its parent
  read (`BoundInv`). Without it the property is false, as section 4 says. `LedgerIsKept` is
  `Spec => KeepsLedger`: no e-mail bears a claim that is still to send one, and the row a
  request would restore is older than its claim (`LedgerInv`); one lemma per action names
  the step of the ledger.

  `RepeatsCostFaults` counts: the e-mails are the failures at most, plus one while somebody
  is about to store SENT or somebody did (`MailsInv`). An actor at work holds the row, so
  that the row is not SENT and nobody else is about to make it so: its e-mail uses the spare
  one. If the actor's answer is lost, or its finalization fails, the spare one is free again
  and a failure was spent. Only failures of the kinds `smtp` and `finalize` are ever spent so
  (`Doubts`), whence `MailedOnceUnlessAnswersLost`: where those two do not fail, nobody is
  mailed twice, whatever else fails and however many requests come.

  `EligibleCanStart` is about the ids that double as locks: where neither lock statements nor
  starts fail (`"lock"` and `"start"` not in `Faulty`) the id of the next attempt of an
  eligible sale is free unless its child runs. An attempt number above `attempt_count` is one
  the schedule may still take, no child has completed under it, and nobody but a child under
  way locks it (`ChildStarts`, `IdsUsed`, `LocksTaken`, in `StartInv`); nothing makes a row less
  eligible but a claim, which raises the count. Limits are within `MaxCount`
  (`SendLimits \subseteq Attempts`): an id beyond the bound is not an id of the model. It is the
  safety half of `EligibleIsTaken`, which `sale_live` checks under the same two conditions.

  `ScheduleFinishes`: without requests, and where the statements of claims and finalizations
  do not fail, a sale IN_PROGRESS has a child at work on it (`ChildHolds`).
- **`NfePipelineProofs`**: all safety properties of the pipeline, `ParentsNeverStall` in the
  form of `ParentsCanGoOn`: a pool that awaits nobody has room, and a queue of customers that
  is not empty has a first one, as it is a finite set of ids (`FirstOfQueue`). A
  sale in the table is `Covered`: its customer is registered, and was when the invoice was
  issued; once a sale loses its cover by a deletion it never gets it back, so what was
  mailed is never queued again (`SaleOk`). What a parent or a child knows of a registration
  was true of it (`Loaded`), and it finds all that was to be found (`FetchOk`). The pools
  hold by counting (`PoolHolds`).
- **`CsatSurveyItemProofs`**: `TruthInv` (`RowOk`, `ExecOk`, `Honest`, `Awaits`: rows,
  executions and the child speak of a success only after IXC applied the mutation) gives
  `OutcomeIsTrue`. `CountInv` gives `RepeatsNeedFaults`: what was applied or may be is
  bounded by the reservations, and the reservations by the failures, plus one credit
  while the holder is well or the row final; a well holder's lease has not run out.
  `AnswersStand` is proved of every step. `SurveyLeases` is `Spec => RowsImplementLease`, by
  what a step does to the row of each key.
- **`TriggersProofs`**: `RunInv` (`RunOk`, `RecoveryOk`: a recovery exists and is remembered
  from the first round's failure on, and is cancelled last) and `ItemInv` (orders are the
  doubts plus the one the child was `Told` of). `OrdersAreLeased` is
  `Spec => OrderRowsKeepLease`, by what each step does to the row of the item's order.
- **`MigrationsProofs`**: what a process passed is in the schema (`Passed`), what it saw
  stands (`SeenStands`), because only the old unique key is ever dropped; the clauses of
  migration 004 are there together or not at all (`ScopeWhole`).
- **`SmtpPoolProofs`**: the bookkeeping of each e-mail (`Consistent`), and by a pigeonhole
  argument that a fresh transport can always be named.
- **`WorkerProcessProofs`**: `Spec => MigrationsSpec` and `Spec => SmtpSpec`, so that every
  theorem of the two holds of the composition; `ExitInv` for the exit code; `CacheInv` for
  readiness. `EndsClosed`: whatever is open has its step in what the `finally` block, or the
  handler of the API, still has to do, and no activity is under way that could open another
  transport once the run loop ended well (`ClosingInv`). `SignalsAreKept`: until a worker that
  runs is drained, the handler of a signal has the step that drains it (`DrainInv`).
  `ReadyUnlessIxc`, for `"ixc" \notin Kinds`: a control worker that runs has completed its
  bootstrap, is active and has met no fatal error, and no process without health routes is
  ever asked (`HealthInv`).

Only model-checked: the liveness properties (`ExecutionsEnd`, `EligibleIsTaken`,
`EventuallySettled`, `RunsEnd`, `SignalEnds`, `EveryoneMigrates`), which are beyond the
prover, and `ParentsNeverStall`, which is about `ENABLED`. The type invariants that no run
lists are conjuncts of the inductive
invariants.

## 11. Where code and documents differ

Each is a run that TLC ends with a counterexample; `PROJECT.json` quotes the documents.

- `csat_retry`: a send that fails transiently is not retried: its retry after 30 seconds
  meets its own 90 second lease and the child fails with `pending`.
- `sale_mails`: an SMTP activity that dies after delivery leads to FAILED_TRANSIENT and
  an automatic second e-mail; the task description asks for DELIVERY_UNKNOWN. Only that, or a
  finalization that fails, can repeat an e-mail: `MailedOnceUnlessAnswersLost`.
- `sale_stuck`: without any failure, a child (lock first, claim second) and a manual
  request (claim first, lock second) can both give up, leaving IN_PROGRESS for ever. It takes
  a request, or a claim or finalization that fails: `ScheduleFinishes`.
- `sale_starved`: a SKIPPED child completes, its id cannot be used again, and a
  rollback makes the sale eligible with the same attempt number. It takes a lock statement
  or a start that fails: `EligibleCanStart`.
- `worker_ready`: the ixc worker drops the health state it is given, so its bootstrap never
  completes and `/readyz` answers 503 for ever. Every other kind of process is ready when it
  should be: `ReadyUnlessIxc`.

Known behaviours that no run states, since no document denies them:

- The rollback of a manual claim restores a snapshot older than the claim.
- The key of a CSAT send contains the contact, which a rerun looks up again: a changed
  number is messaged anew.
- A child of the discovery that fails completes nevertheless, and its dated id is refused
  until the next day.
- An order whose recorded success was lost with the last answer of its activity is one its
  child does not know: the child fails, and a list fetched before may create a second one
  under another request id.
- A child of the cobrancas that failed permanently completes, and no schedule starts it
  again.

## 12. Not modelled

- Parsing of requests and environment, authentication, pagination and searches, wording of
  e-mails, the files of the PDFs and the template cache: no change of state that a property
  could be about, or a matter of deployment.
- Metrics, logs, interceptors, diagnostics and development clients: nothing reads them back.
- `/healthz` (`/readyz` with optional dependencies added) and `/metrics`.
- Creation, update and deletion of schedules: single calls to Temporal.
- A workflow start that Temporal accepts after the client gave up and `describe` answered.
- `finalizeNfeEmailDispatchSaleDirect` of the NF-e workflow repository, which nothing calls.
- ERP, IXC, OPA, SMTP servers, MySQL and Temporal appear by the outcomes their callers
  distinguish.
