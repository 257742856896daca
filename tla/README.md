# Cresora: formal models

TLA+ specifications of [Cresora](../src/README.md), checked with TLC and proved
with TLAPS. Cresora sends mailings to Telegram recipients on behalf of
operators: an operator composes a mailing in a web console and queues it, a
background worker claims its deliveries from PostgreSQL and sends them through
the operator's Telegram account, and further loops repair what crashes and lost
answers leave behind.

1. [Inventory of the system](#inventory)
2. [Plan](#plan)
3. [The delivery pipeline](#pipeline) and the operational checks
4. [The account owner registry](#owner)
5. [The delivery worker and the process](#process)
6. [The operator's accounts](#accounts)
7. [Dialog synchronization](#dialogs)
8. [Web sessions](#sessions)
9. [The mailing console](#console)
10. [Runs and bounds](#runs)
11. [Fairness](#fairness)
12. [Proofs](#proofs)
13. [Where the program and its statements disagree](#findings)
14. [What is left out](#left-out)

Paths are relative to `src/`; `pg/` stands for
`internal/infrastracture/storage/pg/`.

## <a name="inventory"></a>1. Inventory

One process (`cmd/app`) runs an HTTP server and four background jobs over one
PostgreSQL database: the delivery worker, the delivery reaper, the delivery
reconciler and the dialog synchronizer. Nothing prevents a second process on
the same database, and a process can die at any point; what survives is the
rows. Components meet in three ways: rows of shared tables, calls into the
account owner registry (the only holder of live Telegram connections), and
contexts that are cancelled for shutdown.

### 1.1 Delivery pipeline
`pg/mailings`, `pg/claims`, `pg/deliveries`, `pg/reaper`, `pg/reconciler`,
`internal/application/commands/delivery`, `migrations/20260801000000_current_schema.sql`

- State: `mailings.status`; `mailing_runs.status` and `execution_generation`;
  `mailing_deliveries` with status, attempt counter, `ready_at` and the three
  lease columns; the task in the memory of every execution.
- Operations: `Queue` and `Stop` of a mailing; `Claim`, `Revalidate`, `Renew`,
  `Dispatch` (admission, send, outcome), `Release` of an execution; `Reap`;
  `Reconcile`.
- Hard: every operation is one or a few statements at READ COMMITTED, and all
  of them run against the same rows. A send is not idempotent for the program:
  it learns whether Telegram accepted the message only from the answer, which
  can be lost, late or ambiguous. A claim can outlive its lease. Stop can come
  between any two steps.
- Correct when: an attempt belongs to one execution; a settled outcome is only
  ever corrected by proof of success; a proof of success is never lost; nothing
  is sent after Stop; the mailing, its latest run and the deliveries agree; a
  new run never starts over an open outcome; every send is eventually settled
  and every run eventually ends.

### 1.2 Delivery worker
`internal/entrypoint/background/deliveryworker`

- State: four execution slots, the tracker of active executions, the first
  fatal failure and the list of recorded ones, the claim context, the execution
  root context, the cleanup context.
- Operations: the coordinator loop (slot, claim, resolve, renew, start), one
  goroutine per execution, `Run` with its shutdown: stop claims, drain, cancel
  executions, cleanup.
- Hard: a task may be claimed while the claim context is being cancelled;
  `active.add` races with `active.stop`; one absolute budget for drain and
  cleanup; panics of a task.
- Correct when: every claimed task is executed or released once; no execution
  starts after `active.stop`; `Run` returns within the budget, with
  `ErrShutdownTimeout` exactly when something still runs; the first fatal
  failure is the one reported.

### 1.3 Background loops and jobs
`internal/entrypoint/background/jobs.go`, `deliveryreaper`,
`deliveryreconciler`, `cmd/app`

- State: the job results, whether shutdown has begun, its timer.
- Correct when: one job that ends stops all, the first failure wins over
  cancellations, and the runner never returns before all jobs joined or the
  timer fired.

### 1.4 Operational invariant checks
`pg/invariants`, `cmd/invariantcheck`. Eight read-only queries that state what
the rows of 1.1 should satisfy.

- Correct when: an alarm means something: what a check reports is either an
  inconsistency or a stage every interrupted send goes through.

### 1.5 Telegram sender and targets
`internal/transport/telegram/sender.go`, `account/`, `targets/`. Resolves a
recipient to a peer, sends, and classifies the failure (flood wait, transient,
permanent, unknown). Stateless but for a target cache.

### 1.6 Account owner registry
`internal/transport/telegram/accountowner`

- State: per account a slot with its lifecycle version and fences, at most one
  runtime entry with its client goroutine, reference count and idle time; the
  capacity of the registry; whether it is stopped.
- Operations: `Execute` (reserve a slot, build and start its client, run one
  callback in it), `StopAccount`, `RevokeAndStop`, `Stop`, eviction of idle
  clients by need and by the reaper, teardown.
- Hard: one mutex for the registry and one per slot, an operation gate and a
  teardown gate per slot, clients that end by themselves, revocation while
  callbacks run, eviction racing admission, drains that time out.
- Correct when: no callback runs in a runtime of a version behind the fence but
  one that is being drained; at most one live client per account (two would
  fight over one Telegram session); capacity is never exceeded; a client is
  stopped only after the last callback; every call returns.

### 1.7 Operator account lifecycle
`internal/domain/operatoraccount`, `internal/application/operatoraccounts`,
`pg/operatoraccounts`

- State: status (`authenticating`, `active`, `reauth_required`,
  `disconnecting`, `disconnected`) and `status_version` of an account, the
  stored Telegram session.
- Hard: disconnect is a local transition, a remote logout and a second local
  transition, with a recovery pass after a crash; a remote failure of an old
  version may arrive after the account was authenticated again.
- Correct when: a transition is applied to exactly the version it was decided
  on; a disconnected account keeps no session; a late remote failure never
  deactivates a newer authentication.

### 1.8 Operator account authentication
`internal/application/operatoraccountauth`,
`internal/transport/telegram/operatoraccountauth`, `cmd/app/operator_auth.go`

- State: in-memory challenges with stage, deadline, attempts and a mutex each,
  tombstones of finished ones, an admission gate; the account row and its stored
  session; the client of the account in the registry of 1.6.
- Hard: a challenge expires while a code is being submitted; a cancel races a
  submit; shutdown races a start; the process dies, or the reply of a commit is
  lost, between the row, the challenge and Telegram.
- Correct when: the answer for a finished challenge is true, an abandoned
  challenge leaves the account recoverable, and no two of the mutexes are waited
  for in a circle.

### 1.9 Dialog synchronization
`pg/dialogsync`, `internal/entrypoint/background/dialogsync`,
`internal/transport/telegram/dialogs_syncronizer.go`

- State: one task row per account with status, attempts, lease; the dialogs.
- Operations: the queue (`Claim`, `Revalidate`, `Complete`, `Retry`, `Fail`,
  `Release`, `Backfill`), a worker of the form of 1.2, the walk through the pages
  of Telegram's answer.
- Hard: a task outlives the authentication it was claimed for; a row that is
  running belongs to one token, and if that token is lost, to nobody.
- Correct when: a settled row has seen the dialogs of the present
  authentication; a task lets go of its row however it ends; a task settles
  after a bounded number of attempts.

### 1.10 Web sessions and credentials
`internal/application/operatorsessions`, `pg/operator_web_sessions.go`,
`pg/operator_credentials.go`, `internal/entrypoint/http/authentication`,
`cmd/operator-admin`

- State: the rows of sessions, one credential per operator, the cookies of the
  browsers, slots for the verification of passwords.
- Hard: a request locks two rows one after the other, and meanwhile the session
  is revoked, expires, or the password is reset by another process.
- Correct when: no session outlives its expiries, a reset ends every session
  opened with the old password, and the number of sessions stays bounded.

### 1.11 Mailing console
`internal/application/services/mailingconsole`, `pg/mailings/mailing_console.go`,
`internal/entrypoint/http/console`

- State: the rows of mailings, recipients and memberships; the page a browser
  shows.
- Hard: the page is older than the rows, its rows are locked one by one, and
  synchronizations lock the same rows in another order.
- Correct when: a draft has only recipients that can be addressed, now and when
  it is delivered, and an offer is refused only because something changed.

### 1.12 The rest
Telegram session storage (`pg/telegram_session.go`) encrypts one opaque value
per account; the HTTP pages of the accounts translate forms to the operations
of 1.7 and 1.8. Configuration, telemetry, logging; generated HTTP code
(`http/ogen`); a fake Telegram for tests.

## <a name="plan"></a>2. Plan

| Step | Module | Subject | State |
|---|---|---|---|
| 1 | `DeliveryPipeline` | 1.1 with the task order of 1.2 and the loops of 1.3 | done |
| 1 | `MailingDelivery` | what 1.1 promises; implemented by `DeliveryPipeline` | done, checked, proved step by step |
| 1 | `DeliveryPipelineProofs` | types, schema, exclusive attempts, finality | done, proved |
| 2 | `AccountOwner` | 1.6 | done, checked; safety proved |
| 3 | `WorkerProcess` | 1.2 and 1.3: slots, tracker, drain, job runner, monitor | done, checked; safety proved |
| 4 | `AccountLifecycle` | 1.7 and 1.8 over the registry of 1.6, its callers, recovery and shutdown | done, checked; proved |
| 5 | `DialogSync` | 1.9 | done, checked; safety proved |
| 6 | `WebSessions` | 1.10 | done, checked; proved |
| 7 | `MailingConsole` | 1.11 beside the writes of 1.9 and the changes of 1.7 | done, checked; safety proved |
| 8 | `OperationalChecks` | 1.4 over the rows of `DeliveryPipeline` | done, checked, proved |
| 9 | `MailingDeliveryProofs` | mailings and their runs, Stop, leases, alarms, the refinement | done, proved |

`OperationalChecks` extends `DeliveryPipeline`. The others meet at an operation
that one of them models in full and another as one atomic step: the registry
(`AccountOwner`) in `AccountLifecycle`, an execution's work on its delivery
(`DeliveryPipeline`) in `WorkerProcess`, `Complete` in `DialogSync` and statement
by statement in `MailingConsole`, `CreateDraft` and `Queue` of the console in
`MailingConsole` and, for what follows, in `DeliveryPipeline`.

Every safety property that a passing run checks is a theorem (section 12). What
is left to the runs alone is liveness. What holds in place of the statements of
section 13 that the code does not keep is proved as well.

## <a name="pipeline"></a>3. The delivery pipeline

### 3.1 State

| Variable | Code |
|---|---|
| `mailing[m]` | `mailings.status` |
| `run[<<m, k>>]` | run number `k` of `mailing_runs`: status and `execution_generation`; status `none` before it is inserted |
| `delivery[<<n, r>>]` | row of `mailing_deliveries`: status, `attempt_count`, whether `ready_at` has passed, `lease_token`, `lease_until` against the clock, `lease_execution_generation` |
| `account` | the operator account all mailings are routed to: active or not, `status_version` |
| `exec[t]` | an execution of a worker, named by its lease token: stage, task, attempt, generation in the snapshot of its admission, admitted account version |
| `stopping`, `captured` | mailings and delivery rows locked by an open `Stop` transaction |
| `candidates` | what the unlocked scan of a reconciliation pass has found |
| `accepted` | messages Telegram has accepted, by `random_id` (external) |

A lease is `live`, `expired`, or `lapsed`: expired for longer than the grace
period of the reaper. Times themselves, error messages, `started_at` and
`skip_reason` are left out: the code never decides on their values except for
`started_at IS NOT NULL`, which is the same as an attempt count above zero.

### 3.2 Actions

| Action | Code |
|---|---|
| `Queue` | `pgMailing.Queue`: refuses unresolved outcomes, numbers the run, inserts deliveries for the eligible recipients |
| `StopBegin`, `StopCommit`, `StopAbort` | `pgMailing.Stop` |
| `Claim`, `Resolve`, `Renew` | `Claims.Claim`, `Claims.Revalidate` (through `Commands.Command`), `claimed.Renew` |
| `AdmitSnapshot`, `AdmitApply`, `AdmitRefused` | the admission `UPDATE` of `Dispatch` |
| `TelegramAccepts`, `SendReturns`, `SendCancelled` | `telegramSender.Send` and what `Classify` makes of its failure; `quarantine` |
| `FinalizeNegative`, `FinalizeSuccess` | the outcome transactions of `Dispatch` |
| `Interrupted`, `Release`, `Crash` | the error paths of `coordinate` and `execute`, `claimed.Release`, the end of the process |
| `Reap` | one row of `Reaper.Reap` |
| `ReconcileScan`, `ReconcileCandidate`, `ReconcileAbandon` | `findCandidates`, `reconcileCandidate`, a failed pass |
| `LeaseElapses`, `BecomeReady` | the database clock |
| `AccountChange` | any transition of the account lifecycle |

### 3.3 Atomicity

A statement, or a transaction that takes the locks of all it reads before it
decides, is one action. The exceptions are what the model is about:

- The admission `UPDATE` takes a snapshot, then waits for the row lock. If the
  row changed meanwhile PostgreSQL re-evaluates the predicate on its new
  version, but the joined `mailings` and `mailing_runs` keep their snapshot
  values. `AdmitSnapshot` records the snapshot, `AdmitApply` decides with it.
- `Stop` locks and updates step by step and becomes visible at its commit.
  Statements that take its locks wait (`m \notin stopping`,
  `d \notin captured`), `Claim` skips them (`SKIP LOCKED`), and the rest sees
  the state before. `StopBegin` is its last update, not its first: an earlier
  point differs only in which pending rows it finds, and any change of a row
  before it can be ordered before `StopBegin`.
- The reaper locks delivery rows only (`FOR UPDATE OF delivery`), so its
  decision is on unlocked parents, visible at `Reap` as of before an open Stop.
  A pass that took its snapshot before Stop commits and writes after it is the
  same as `Reap` between `StopBegin` and `StopCommit`: Stop never touches a
  sending row.
- The reconciler discovers candidates without locks and rechecks each under
  the locks of mailing, run and deliveries.
- `Queue` holds the lock of the mailing, which no run is active under. Only
  late successes can come between its statements, and such a one has the same
  effect before `Queue`, where eligibility sees it as sent, or after.

An execution is any number of tasks of any number of workers. One worker has
four slots and renews one task at a time, which the model does not use: it
allows more. A token is reused only once nothing remembers it, as for a fresh
uuid. `Crash` also stands for a statement whose result is lost: if it took
effect the release that follows matches nothing. A message Telegram accepts
after the execution has given up is accepted in the step that gives up, when
it can be no later for anybody who looks at the row.

No code sets `running` or `paused`; the predicates that name them are modelled
as written. `Stop` has no caller outside tests at this commit. It is part of
`mailing.Mailing`, and its rules shape every predicate of the pipeline.

### 3.4 Properties

| Property | Says |
|---|---|
| `SchemaConstraintsHold` | no statement is refused by a CHECK constraint of `mailing_deliveries` |
| `AttemptsAreExclusive` | two executions are never in the same attempt |
| `SuccessAlwaysRecordable` | an accepted send can be recorded whenever its answer comes, so the worker is never stopped by an unprovable success |
| `RowAgreesWithTelegram` | an accepted message is never shown as skipped or untried; `sent` means accepted |
| `LiveLeaseIsExclusive` | nobody takes a row from an execution whose lease is live, but Stop before its admission and a proof of success |
| `OutcomeIsFinal` | a settled delivery changes only from failed or unknown to sent |
| `FinishedRunsAreSettled` | a completed run has sent everything, a failed run has nothing open |
| `MailingAgreesWithRuns` | one active run per mailing; the mailing agrees with its latest run |
| `EarlierRunsAreSettled` | under an active run, earlier runs of the mailing have no open outcome |
| `NoAdmissionAfterStop` | a send is admitted only under an active mailing and run |
| `SendingIsSettled` | every admitted send is settled or retried |
| `RunsFinish` | every active run ends while the account stays active |
| `KeepsPromise` | the pipeline implements `MailingDelivery` |

`TypeOK` (types; no attempt beyond `max_attempts`) and `RunsStayFinished` (a
finished run never changes) are proved and have no run of their own. All but the
two liveness properties are proved (section 12), `KeepsPromise` included.

`MailingDelivery` is the promise without the machinery: runs and the outcome of
deliveries (`untried`, `tried`, settled), seven actions. The refinement maps
pending and sending rows to `untried` or `tried` by their attempt count and
drops everything else. Two things it says are not obvious from the code: under
`repeat_mode = 'once'` a new run never includes a recipient known to have the
message, and Cancel need not settle what was tried (the send in flight).

It does not say that a message is sent at most once. The program does not
promise that: a retryable answer to an accepted message ends in a second call,
which Telegram refuses by its `random_id`, and a late success of an earlier run
is a message that repeats (section 13). A delivery can end as `failed` although
the message was accepted, after a server error on its last attempt.

### 3.5 The operational checks

`OperationalChecks` states each check of `pg/invariants/invariants.go` as the set
of rows its query selects in one snapshot; `Report` is what the command prints
and `HasViolations` its exit code. The check of the run timestamps is left out.

| Property | Says |
|---|---|
| `AlarmsComeFromSends` | an alarm never comes from nowhere: whatever is reported has a send in flight, or a row that was in one when Stop came |
| `NothingClaimableAfterStop` | what `stopped_mailing_with_claimable_delivery` looks for does not happen; violated, section 13 |

`sending_delivery_with_stale_execution_generation` fires on every Stop that
commits while a send is in flight, which the tests of Stop require to be
possible; such an alarm goes away with the answer or with the reaper.

## <a name="owner"></a>4. The account owner registry

`AccountOwner` models `internal/transport/telegram/accountowner` (`ao/` below).

### 4.1 State

| Variable | Code |
|---|---|
| `lock` | the goroutine that holds `registry.mu` between two of its steps |
| `status` | `Registry.stopped`, and `rootStopped` once the root context is cancelled |
| `table`, `slot[a]` | `Registry.slots` and `accountSlot`: entry, `closed` and `stopping` (always equal, one field), open handles, active operation, `revokeRunning`, `revokeWaiters`, `teardownGate` |
| `fence`, `order` | `fenceSet`: records and the order of their stamps |
| `entry[e]` | `runtimeEntry` and the owner in it: version, whether it is private to a revoke, how its construction stands, how its client stands, how `Run` ended |
| `call[p]` | where a goroutine is and what it holds: slot, entry, what its teardown is for, how it went |
| `todo` | the list that the reaper or `Stop` works off |

### 4.2 Actions

| Actions | Code |
|---|---|
| `Invoke`, `TakeIdle`, `Refused`, `Reserve...` | `Execute`, `open`, `reserve`, `makeCapacity` |
| `Begin`, `Dispatch`, `CallbackEnds`, `FinishOperation`, `CloseHandle` | `runtimeEntry.execute`, `owner.Execute`, `dispatch`, `releaseHandle` |
| `WaitRevoke` to `TeardownEnds` | `teardown`, `finishTeardown`, `removeSlot` |
| `StopLook`, `StopClose` | `StopAccount` |
| `Acquire` to `Release` | `RevokeAndStop` with `prepareRevoke`, `executeRevoke`, `teardownRevoke`, `releaseRevoke` |
| `EvictRead`, `EvictClose`, `ReapScan`, `ReapScanned` | `evictIdle`, and the same two reads in `makeCapacity` |
| `StopRegistry`, `StopCollects`, `NextTeardown`, `AllTornDown`, `StopEnds` | `Stop` |
| `Build`, `StartRun`, `RunEnds`, `RunNoted`, `RunSwept` | `buildEntry`, `owner.Run`, `runEntry` |
| `Expire` | `ctx.Done()` wherever a caller waits |

### 4.3 Atomicity

A section under one mutex is one step. A section of `registry.mu` that looks at
a slot more than once is several, with `lock` held: `runEntry` (`RunNoted`) and
`finishTeardown` (`TeardownReset`, `RevokeReset`) change the slot under
`slot.mu` alone and can come in between. This is the whole point of the model;
two of the disagreements of section 13 are such steps. Merged are:

- `Stop`'s walk over the slots under `registry.mu`: after it nothing opens, and a
  slot that loses its entry during the walk is only closed or not;
- the two sections of `finishTeardown` under `registry.mu`, and a handle's
  release with the removal of its slot: nothing reads the first effect without
  the second to another result;
- waiting for the operation gate with `beginOperation`. The gate is held exactly
  while an operation is active. A caller that is no longer admitted is refused
  here whether it has the gate yet or not.

A construction ends well or fails; a client ends with nothing, an error or a
deadline error, at any time no callback runs in it (gotd's `Run` joins its
callback). `DrainTimeout` and cancelled contexts can come at any wait. When a
slot leaves the table and the account gets another one, `slot[a]` is fresh; a
goroutine that still waits for the old one finds another entry and returns.
A caller's `StopAccount` may name any version: the callers read it from the
database earlier, and nothing orders them.

A panic of an ordinary callback ends the process and is not modelled; that of a
privileged one is `PrivilegeEnds`.

### 4.4 Properties

| Property | Says |
|---|---|
| `OneClientPerAccount` | replacement, revoke, retry after a timeout: never two clients of one account |
| `ClientsWithinCapacity` | the number of clients, those being stopped included, stays within the capacity; a slot stays in the table while anything refers to it (`SlotsAreKept`), so that the table counts all of them |
| `FencedCallbacksDrain` | a callback of a fenced version runs only in a slot that is closed, or that a stop or a revoke is about to close, which has recorded the fence and still has `registry.mu` (`Fencing`) |
| `RevokeIsAlone` | the privileged callback shares the account with no operation and no other revoke |
| `ClosedIsQuiet` | once the root context is cancelled there is no client and no callback |
| `StopWaitsForTeardown` | when `StopAccount` succeeds, also through the last step of its teardown, the client it found is gone and none of that version or an older one is left; and of all teardowns only the cleanup of a revoke stops a client under an active operation (`TeardownsDrain`) |
| `EveryCallReturns` | every call, every pass of the reaper and `Stop` return |

`StopWaitsForTeardown` leaves out the private client of a revoke that was called
meanwhile, which the code intends. With more accounts than fences
(`~EnoughFences`) the fence of a stop may be evicted before the stop returns and
its version be opened anew; then all it says is that a client of a version fenced
again is being drained. The run `owner_versions` has enough fences, so that this
branch is proved rather than exercised there. All but `EveryCallReturns` is
proved (section 12).

## <a name="process"></a>5. The delivery worker and the process

`WorkerProcess` models `internal/entrypoint/background/deliveryworker/worker.go`,
`background/jobs.go` and the end of `cmd/app/main.go`.

### 5.1 State

| Variable | Code |
|---|---|
| `task[k]` | a claimed delivery: in the hands of the coordinator, being executed, being released, settled, or lost (a release failed) |
| `coordinator`, `slots` | where `coordinate` is, and the semaphore of `executionCapacity` slots |
| `tracker` | `activeTracker`: how many executions it counts and whether it still accepts one |
| `run`, `claiming`, `timedOut` | where `Worker.Run` is, its claim context, and whether it returned `ErrShutdownTimeout` |
| `failures` | `failureState`: nothing, recorded failures, or a first fatal one |
| `loop[l]` | the other jobs: running, ended by their cancellation, failed |
| `runner`, `jobsDone` | `Runner.Run`: the jobs it joined and whether one failed; the context of the jobs |
| `root`, `server`, `monitor` | the root context, the HTTP server, and `monitorRuntime` with the waits it has before it and what they reported |
| `database`, `exit` | the pool and the result of `runApplication` |

### 5.2 Actions

| Actions | Code |
|---|---|
| `TakeSlot`, `Claim`, `ClaimFails`, `Resolve`, `Renew`, `Add`, `HandBack` | `coordinate`, statement by statement, with its releases |
| `Execute`, `Release` | `execute` and its deferred release of slot and tracker |
| `StopClaims`, `StopAdding`, `Return` | `Worker.Run`: select, drain, cleanup |
| `LoopEnds`, `Join`, `RunnerStops`, `RunnerReturns` | a job returns; `Runner.Run` |
| `Signal`, `ServerBreaks`, `Notices`, `Wait`, `CloseResources`, `Exits` | `monitorRuntime` and what follows it |

A call of a dependency (claim, revalidation, renewal, release, the execution
itself) is one step with all its outcomes, panics included: each has a recover
around it. A wait with a timer may time out while what it waits for has not
happened; the budgets add up so that every order of timeouts is possible (the
worker's 8 s and 2 s are the runner's 10 s). Jobs other than the worker may
ignore their cancellation; the worker, whose every call has a deadline, may not.

### 5.3 Properties

| Property | Says |
|---|---|
| `TypeOK` | types; a slot belongs to an execution or to the task in the coordinator's hands, on every path, and the tracker counts the executions |
| `DatabaseOutlivesWork` | when `Run` reports no timeout nothing is left behind (`CleanReturn`), and the pool is closed under an execution only after a wait timed out |
| `FailuresEndTheProcess` | a signal, a broken server, a fatal failure, a job that fails: each ends the process |
| `ClaimsAreSettled` | a claimed delivery is executed or released unless the process ends |
| `CleanShutdownSucceeds` | a requested stop that goes well succeeds; violated, section 13 |

## <a name="accounts"></a>6. The operator's accounts

`AccountLifecycle` models `domain/operatoraccount`,
`application/operatoraccounts`, `application/operatoraccountauth`,
`pg/operatoraccounts`, `transport/telegram/operatoraccountauth` and
`operatoraccounts`, and the composition in `cmd/app/operator_auth.go`.

### 6.1 State

| Variable | Code |
|---|---|
| `row[a]`, `session` | `operator_accounts` (status, `status_version`, remote logout owed, expiry passed) and the rows of `sessions` |
| `authorized` | whether Telegram has signed in the stored session (external) |
| `challenge[q]`, `lock[q]` | `challengeRegistry`: records, tombstones, attempts; `challengeRecord.mu` |
| `gate`, `closed` | `admission`: who holds it; whether it and the registry are closed |
| `client[a]`, `fence[a]`, `runtimeStopped` | the account owner registry: version of the live client, greatest stopped version, `Registry.stopped` |
| `held[a]` | the version of the target a background job works with |
| `call[p]` | the requests of the operator, and `Sys`, the goroutine of main |
| `todo`, `up` | what recovery or shutdown has still to look at; the phase of the process |

### 6.2 Actions

| Actions | Code |
|---|---|
| `StartBegin`, `Prepare`, `SendCode`, `SendCodeFails`, `Commit` | `Service.Start`: `BeginOrResume`, `challengeRegistry.Prepare`, the code request, commit or rollback |
| `Submit`, `SignedIn`, `NotSignedIn`, `SignInAborts`, `Finalize` | `Service.Code`, `Service.Password` and `Store.Finalize` |
| `Expire`, `Cancel`, `BeginAbort`, `StopAccount`, `StopKills`, `CompleteAbort`, `AbortEnds`, `Remove` | the ways a challenge ends and `accountLifecycle.Abort` |
| `Disconnect`, `PersistIntent`, `RevokePending`, `Revoke`, `RevokeFails`, `MarkDisconnected` | `Service.Disconnect` and the steps it shares with recovery |
| `BootIntents` to `BootLeavesOut` | recovery of disconnects and of orphaned authentications; composition of the routes |
| `ShutdownBegins`, `CloseAdmission`, `Snapshot`, `Sweep`, `StopRuntime` | `Service.Shutdown` and the registry's `Stop` |
| `Resolve`, `Use`, `StoreSession`, `Evict` | background jobs and clients |
| `ChallengeDue`, `RowDue`, `StoneDue`, `Dies`, `Restart` | clocks, the process |

A write to PostgreSQL is one action, guarded by status and version as its
`WHERE` is, and each may fail or commit without the caller learning it. A call
of the registry is one action (section 4 is its detail). Between them the other
request, Telegram, the clocks and the end of the process come in. A mutex of a
record is held over all of `Operation`, as in the code, and the gate is shared.

### 6.3 Properties

| Property | Says |
|---|---|
| `SessionsFollowStatus` | active means a stored session; disconnected means none; a remote logout is owed only while disconnecting |
| `DisconnectedIsQuiet` | what remains of a disconnected account is fenced: a late target gets no client |
| `TombstonesAreTrue` | what a client is told of a finished challenge is what happened to the account |
| `RevokedBeforeForgotten` | an account that was active loses its session only after the remote logout, whatever is aborted, recovered or lost; and Telegram is told to log it out only while it is disconnecting, or by a revoke whose intent is over (`Overdue`) |
| `RecoveredBeforeServing` | the routes of the accounts are served only when nothing is left half done |

`DueChallengesCanEnd`, `AbortsStopTheirOwn` and `ActiveIsSignedIn` are stated and
do not hold (section 13). Steps after a `StopKills` are not followed: the process has ended.

Worth knowing from the model: an account can be activated while the client of its
authentication still runs, and a disconnect right after it is refused with
`ErrStaleAdmission` until something replaces that client; a Start on a row that
is still authenticating takes over its old expiry, even one that has passed;
`cmd/app/main.go:164` drops the failure of the composition, so that the process
goes on without these routes (`BootLeavesOut`).

## <a name="dialogs"></a>7. Dialog synchronization

`DialogSync` models `pg/dialogsync`, `background/dialogsync`,
`application/dialogsync` and `transport/telegram/dialogs_syncronizer.go`.

| Variable | Code |
|---|---|
| `sync[a]` | the row of `account_dialog_syncs`: status, attempts, token, whether `ready_at` is ahead |
| `active`, `login[a]` | the account, and how often it was authenticated |
| `dialogs[a]` | the projection: the authentications whose dialogs it has seen |
| `task[k]`, `claims` | the claims, each with its token; `lost` when the last write of one did not arrive |
| `coordinator`, `slots`, `tracker`, `run`, `claiming`, `fatal`, `timedOut` | the worker, as in section 5 |

| Actions | Code |
|---|---|
| `TakeSlot`, `Claim`, `ClaimFails`, `Hand`, `Add`, `HandBack` | `coordinate`, `Store.Claim` |
| `Revalidate`, `Fetch`, `FetchFails`, `Complete`, `Settle`, `Release`, `Interrupted` | `execute`, `Syncer.Sync` and the writes of the task |
| `Start`, `StopClaims`, `StopAdding`, `CancelExecution`, `Return`, `Dies` | `Backfill`, `Worker.Run`, the process |
| `Login`, `Disconnect`, `RetryDue` | `Store.Finalize` of an authentication, `PersistLifecycle`, the clock |

| Property | Says |
|---|---|
| `EndedTasksLetGo` | a row is running only for a task at work on it or one whose last write was lost; a return without timeout leaves nothing (`CleanReturn`) |
| `DoneIsCurrent` | a row that is done has seen the dialogs of the latest authentication |
| `SyncsAreSettled` | the sync of an active account is settled, flood waits included, unless it is stranded |

Stranded are two kinds of rows that no claim takes again. A row that is running
when its process dies (or whose last write is lost) waits for the next
authentication: unlike deliveries, dialog syncs have no reaper. And a row
released on its last attempt is pending without attempts left (section 13).

The walk through the pages of an answer is one step. From reading it: `Complete`
compares the token of the row, not the account or the lease, and reports success
either way; `Revalidate` does not compare the version that was claimed, which
`application/dialogsync` says it does, and `Renew` ignores the lifecycle;
memberships are only ever added and private dialogs are never `can_send`; the
jitter of `cappedBackoff` is 4 %, not the 25 % of its comment; a username that
moved to another dialog makes `Complete` fail on the unique index.

## <a name="sessions"></a>8. Web sessions

`WebSessions` models `application/operatorsessions`,
`pg/operator_web_sessions.go`, `pg/operator_credentials.go`,
`http/authentication`, the trigger of the schema, and `cmd/operator-admin` as the
process `Admin`.

| Variable | Code |
|---|---|
| `clock` | PostgreSQL's clock |
| `credential[o]` | the password of an operator, numbered by resets |
| `session[t]`, `sessionLock[t]` | the rows of `operator_web_sessions` and who locks them |
| `operatorLock[o]` | who locks the row of the operator |
| `cookie[b]`, `page[b]` | what the browser holds: the token, and the session its console page was rendered for |
| `req[r]` | a request: where it is in its transaction |

| Actions | Code |
|---|---|
| `Login`, `Verified`, `LockOperator`, `Prune`, `Insert` | login: verification of the password in a slot, `CreateSession` |
| `Visit`, `FindSession`, `FindOperator`, `Refresh` | `FindValidSession`, which locks the session and then the operator, and looks again at what changed while it waited |
| `Console`, `Mailing`, `Accounts`, `Retry`, `Logout` | the handlers behind it |
| `Reset`, `RevokeAll` | `BootstrapOrReset` and its trigger |
| `GivesUp`, `Tick` | cancelled, failed and deadlocked transactions; the clock |

| Property | Says |
|---|---|
| `SessionsWithinLimit` | an operator never has more usable sessions than the limit |
| `ResetEndsSessions` | every usable session was opened with the password that is current |
| `AcceptedWhileValid` | at the instant a request is accepted, its session is neither revoked nor older than the last reset |

Expiry is looked at once, before the wait for the operator: a session that
expires during the wait is accepted, and its idle expiry revived. Only the
absolute deadline is looked at again, by `ck_operator_web_sessions_expiry_order`
and where `last_seen_at` is due to move: the renewal fails, and with it the
request. That is why `AcceptedWhileValid` does not mention expiry. `FindValidSession` locks the session
first and the operator second, `CreateSession` and `BootstrapOrReset` the other
way: PostgreSQL ends one of them (`GivesUp`). A login whose response is lost
leaves a session nobody holds until it expires or the limit takes it. Logout
clears whatever cookie the browser holds by then, and the forms of the account
pages are bound to a cookie of their own, not to the session.

## <a name="console"></a>9. The mailing console

`MailingConsole` models `application/services/mailingconsole`,
`pg/mailings/mailing_console.go` and the completion of a synchronization in
`pg/dialogsync`, one SQL statement per action.

| Variable | Code |
|---|---|
| `active` | the accounts that are active |
| `member[a][d]` | the membership rows: whether there is one, `can_send`, whether the access hash is known |
| `mailing` | drafts and queued mailings with their route and recipients |
| `holds[p]` | the row locks of an open transaction (rows, and `FOR KEY SHARE` of a foreign key) |
| `page[c]`, `request[c]` | what the browser was shown, and the `CreateDraft` it waits for |
| `task[s]` | the completion a sync execution has under way |

| Actions | Code |
|---|---|
| `ListAccounts`, `ListShared`, `ListPrivate` | the queries of the page |
| `Submit`, `LockAccount`, `Select`, `LockDialog`, `SharedAvailable`, `Refuse`, `Draft` | `CreateDraft`: each query with `FOR SHARE`, its snapshot and its second look |
| `Queue` | the owner's check of `Queue`; the rest is section 3 |
| `Fetch`, `UpsertDialog`, `UpsertMember`, `CompleteCommits` | `task.Complete` |
| `Disconnect`, `Activate` | what sections 6 and 7 do to the account |
| `Abandon` | a transaction that fails, is cancelled, or is ended to break a deadlock |

| Property | Says |
|---|---|
| `RecipientsResolve` | each recipient of a draft can still be addressed whenever it is delivered |
| `DraftsAreSendable` | at the commit of a draft its account is active and all its recipients sendable, though they were checked statements earlier |
| `RefusedOnlyIfChanged` | what the page offered is refused only if something was unusable meanwhile: the predicates of the page and of `CreateDraft` agree |
| `EverythingEnds` | every request and completion ends, in spite of the orders in which they lock |

Two completions with the same shared dialogs in another order wait for each
other, and so do a completion and a `CreateDraft`; PostgreSQL breaks these
circles, and `EverythingEnds` needs that. A lost response of `CreateDraft` and a
second click make two drafts. At send time the lookup of a peer asks for neither
membership nor `can_send`; that is Telegram's matter.


## <a name="runs"></a>10. Runs and bounds

Each run is `<name>.cfg` on the module `MC...` of its section. `Symmetry`
permutes the model values named in the MC module; runs with liveness do not
use it.

| Run | Instance | Distinct states | Question |
|---|---|---|---|
| `pipeline_attempts` | 1 recipient, 2 executions, 3 attempts, 1 run, 2 account versions, fair | 45 thousand | who owns an attempt, what late answers do, does everything end |
| `pipeline_recipients` | 2 recipients, 2 executions, 1 attempt, 2 runs, repeat mode `once` | 897 thousand | when a run with several deliveries ends; refinement of `MailingDelivery` |
| `pipeline_rounds` | 1 recipient, 2 executions, 2 attempts, 2 runs, 3 account versions, repeat mode `rounds` | 871 thousand | what a stopped run leaves for the next, and what the checks report of it |
| `owner_versions` | 1 account, 2 callers, 2 entries, versions 1 and 3 open and 2 leaving, 3 calls | 1.8 million | what versions, stops and revokes do to each other |
| `owner_capacity` | 2 accounts, capacity 1, 2 callers, versions 1 open and 2 leaving, 2 calls, fair | 294 thousand | accounts that compete for a slot and a fence; does everything return |
| `account_lifecycle` | 1 account, 2 requests, 2 challenges, 1 attempt, capacity 1, 2 authentications, 1 death | 812 thousand | authentication, disconnect, recovery and shutdown against each other |
| `dialog_sync` | 1 account, 2 slots, 2 attempts, 4 claims, 2 authentications, 1 flood wait, 2 starts, fair | 274 thousand | who owns a row, and is it settled |
| `worker_process` | 1 other job, 2 slots, 2 claims, fair | 464 thousand | shutdown, failures and timeouts in every order |
| `web_sessions` | 1 operator, 2 browsers, 2 requests, limit 1, 2 sessions, 2 passwords, 5 instants | 4.8 million | sessions against resets, the limit and their expiry |
| `mailing_console` | 1 operator and account, 2 shared and 1 private dialog, 2 answers, 1 browser, 2 synchronizations, 1 mailing, fair | 59 thousand | drafts against synchronizations |
| `stop_leaves_claimable`, `unclean_shutdown` | small | until violated | section 13 |

**Pipeline.** Two executions of one delivery are the owner of a lease and
whatever an attempt before it left behind; three attempts are enough for one that
is neither the first nor the last. Two recipients are enough for a run that is
part settled, two runs for an older and a newer one; a third meets the second as
the second meets the first. Mailings interact only through executions and passes,
so one is checked; the proofs cover any number. `MaxRuns`, `MaxAttempts` and
`MaxAccountVersion` bound counters; of these `MaxAttempts` is a column of the
program.

**Owner.** Version 3 follows a revoke of 2, which follows version 1: a
replacement, a revoke with and without an owner of the version before, and an
account that is used again. Two callers, the reaper, `Stop` and the goroutines of
two entries meet in one account; a call of `Stop` counts as one of the calls.
Entries are reused once nothing remembers them: two are enough for one that ends
and one that begins. Capacity 1 makes every second account an eviction or a
refusal.

**Accounts.** Accounts share only the capacities, so one with capacity 1 meets
itself there. Two challenges are the one that ends and the one that starts
meanwhile, two requests a submission and what races it. Starts are bounded by the
version of the row (`LastStart` = 5): an account can be authenticated,
disconnected with a remote logout, and authenticated again.

**Dialogs.** Two authentications give a task of the first that outlives it, two
slots that task beside the claim of the second, four claims every attempt of
both. Accounts share only slots.

**Process.** One other job stands for the reaper, the reconciler and the dialog
worker, which the runner treats alike. Two slots and two claims fill the
semaphore with one task in the coordinator's hands.

**Sessions.** Limit 1 makes every second login push a session out. Five instants
are enough for both expiries, for a renewal between them and for one after the
absolute deadline (idle 2, absolute 3, throttle 1). Requests are interchangeable,
and so are browsers. Operators share only the removal of dead rows.

**Console.** Two shared dialogs in two orders make a circle, the private one the
second query. With a second account or browser the run exceeds what TLC does in
five minutes; accounts meet only in the rows of shared dialogs, which nothing
depends on but the locks.

No run checks for deadlock: when the bounded calls are over, or the account of a
mailing is gone, there is nothing left to do. A call that waits for ever is what
the liveness properties exclude.


## <a name="fairness"></a>11. Fairness

`FairSpec` assumes of the code only what its scheduling gives:

- weak fairness of the clock (`LeaseElapses`, `BecomeReady`), of `Reap` and of
  `ReconcileScan`: both loops run until the process ends, and a process that
  ends is started again;
- weak fairness of every execution: its statements and its send have
  timeouts (`ExecutionTimeout`, `OutcomeFinalizationTimeout`), after which it is
  released or gone; which of its steps it takes, `Crash` included, is open;
- strong fairness of claiming a delivery and of each step up to admission while
  the lease is live: workers poll for ever, and not every execution dies or
  stalls for longer than its lease at the same point. Without it, no send needs
  ever to be admitted;
- strong fairness of `StopCommit` and of rechecking a candidate: not every
  transaction fails.

No fairness is assumed of Telegram, of `Queue`, of `Stop` being called, or of
finalizations: a delivery whose every send is lost is settled by the reaper and
the attempt counter. That is why `RunsFinish` needs `max_attempts`.

`AccountOwner`: `FairSpec` assumes weak fairness of every goroutine and of the
construction, start and end-of-run steps of every entry: goroutines are
scheduled, callbacks and constructions return, drains end or time out
(`DrainTimeout` is never zero, `registry_config.go:60-65`), and a client becomes
ready as long as it runs. It assumes nothing of the contexts of the callers, nor
that a client ever ends.

`WorkerProcess`: weak fairness of every goroutine of the worker, the runner and
the monitor: their calls have deadlines and their waits timers. Nothing is
assumed of the other jobs, which may ignore their cancellation, of the server,
or of signals.

`DialogSync`: weak fairness of the coordinator, of every execution, of the
shutdown once it has begun or must begin, and of the clock (`RetryDue`). None of
Telegram, of the process being started again, or of an authentication.

`MailingConsole`: strong fairness of each request and completion, because
PostgreSQL queues those that wait for a row; weak fairness of `Abandon` for who
waits in a circle, because PostgreSQL looks for circles. `Abandon` otherwise has
none.

`AccountLifecycle` and `WebSessions` state safety only: every one of their steps
may fail for ever.

## <a name="proofs"></a>12. Proofs

| Module | Obligations | States proved for every value of the constants |
|---|---|---|
| `DeliveryPipelineProofs` | 0.9 thousand | types, schema, exclusive attempts, successes recordable, rows agree with Telegram, finality of runs and outcomes |
| `MailingDeliveryProofs` | 1.5 thousand | mailings agree with runs, earlier and finished runs settled, alarms, Stop and what it leaves behind, leases, late outcomes, refinement of `MailingDelivery` |
| `AccountOwnerProofs` | 4.9 thousand | one client per account, fences, revokes, capacity, close, `StopAccount`, the causes of a crash, what reopens a slot |
| `AccountLifecycleProofs` | 4.5 thousand | sessions, tombstones, quiet after a disconnect, revocation before forgetting, recovery, the causes of a stale stop, of a lost session and of a stuck challenge |
| `WorkerProcessProofs` | 0.7 thousand | slots and tracker, the pool outlives the work, no end succeeds |
| `DialogSyncProofs` | 1.4 thousand | types, constraints of the table, done is current, ended tasks let go, what strands a row and for how long |
| `WebSessionsProofs` | 1.7 thousand | types, deadlines in order, locks held only in use, resets end sessions, accepted while valid, the limit |
| `MailingConsoleProofs` | 1.6 thousand | recipients resolve, drafts sendable, refusals explained, locks exclude |

Each rests on one inductive invariant (`DialogSyncProofs` and `WebSessionsProofs`
on a second one for the types). A theorem about a disagreement of section 13 adds
to it what the acting goroutine or call must remember, and nothing to the
assumptions but for one case (12.3). The assumptions are those that the modules state
about their constants: bounds are natural numbers, positive where the code
demands it, and null values are outside the sets they extend.

### 12.1 The pipeline

`DeliveryPipelineProofs` proves, for every value of the constants allowed by
`PipelineAssumption` and `KeyAssumption` (attempts, runs and versions bounded by
positive numbers; null values outside the sets they extend):

`TypeCorrect`, `SchemaConstraintsCorrect`, `AttemptsExclusive`,
`SuccessRecordable`, `RowsAgreeWithTelegram`, `RunsStayFinished`,
`OutcomesStayFinal`.

The argument is one inductive invariant, `Inv`:

- `TypeOK`;
- `RowInv`: every row is storable by the schema; a skipped row was never
  attempted; a sent row is an accepted message and an accepted message was
  attempted; a row exists only under a run that exists;
- `ParentInv`: a run that exists has a generation, and the rows an open Stop has
  locked are still pending;
- `ExecInv`: an execution in a send has an attempt between one and the counter
  of its row, and one that was answered with success has its message accepted;
- `AttemptsAreExclusive`.

None of the properties is inductive alone. `AttemptsAreExclusive` needs that
attempts never decrease and never lag behind an execution, so that the next
admission gets a number nobody holds: that is `ExecInv` with `RowInv`.
`SchemaConstraintsHold` needs that Stop's captured rows are still pending when
it commits, and `RowAgreesWithTelegram` that an accepted message belongs to a
row with an attempt, which Stop therefore never skips. `RunsStayFinished` and
`OutcomesStayFinal` are action properties shown from `Inv` action by action.
The preservation of types and of the rest has one lemma per group of actions with one step for each, over a few
lemmas on what a change of one row or of one execution leaves intact
(`RowStep`), so that a change of one handler breaks the proof of that handler.

`TypeCorrect` and `RunsStayFinished` state properties that no run lists; TLC
confirmed both on these instances before they were proved.

`MailingDeliveryProofs` extends `Inv` to `MailingInv`, about mailings, runs and
Stop:

- `RunsInv`: runs are numbered without gaps, only the latest can be active, and
  the mailing shows its status (`MailingsAgreeWithRuns`);
- `StopInv`: what is still pending in a cancelled run, or in a run whose open Stop
  has not captured it, was admitted before and is held by nobody (`Leftover`).
  Such a row is why a stopped mailing may have a pending delivery (section 13) and
  why none of them is ever admitted again (`NothingAdmittedAfterStop`), and it is
  the only alarm that needs no send in flight (`AlarmsExplained`);
- `SettledInv`: only Stop skips; nothing is open under a finished run, nor, while a
  run is active, under an earlier one (`FinishedRunsStaySettled`,
  `EarlierRunsStaySettled`). The second needs that Queue looks at the rows of all
  earlier runs.

`LiveLeasesAreExclusive` follows from `Inv` action by action. `PipelineKeepsPromise`
(`Spec => KeepsPromise`) shows that `Init` is the promise's and then, one lemma for
each kind of step, that a step of the pipeline is one of `MailingDelivery`'s
seven actions or leaves its variables alone; `MailingInv` says which runs are
active and which rows may still change. Liveness is no part of the promise, so
that this is all of the refinement.

Three more say how far the statements of section 13 about the pipeline fail.
`LeftoversBlock` and `LeftoversWait` are about a row that Stop has left pending:
it was tried and nobody holds it, its mailing cannot be active meanwhile, and
nothing changes it but the record of a message that Telegram did accept. Both
follow from `StopInv` and `SettledInv`. `LateOutcomes` is about a success that is
recorded after its mailing was queued again: the row was failed for good by a
later attempt. It needs `LateInv`: a delivery has one success to record at most,
none when it is sent, and an execution that still sends is not the attempt that
failed its row.

### 12.2 The account owner registry

`AccountOwnerProofs`, from `OwnerAssumption` and the names being distinct, proves
`OneClient`, `FencedCallbacks`, `RevokeAlone`, `ClientsFit`, `QuietWhenClosed` and
`StopWaits`. The sections of section 4.3 are steps of their own, so `RegistryInv`
says of each goroutine, by its stage, what it may rely on until its next step
(`CallOk`): whose the entry in its hand is, what it knows while it keeps
`registry.mu`, which handle, place in the operation gate or teardown gate it has,
and what it has waited for. Of slots it says that one outside the table is in
nobody's hands and that a stopped registry, or a fence, closes it; of entries that
whatever is alive is the entry of its slot (`EntryOk`). From the last, one client
per account is immediate, and so is the capacity, since slots are keys of the
table.

That all of it survives the other goroutines is shown once. `Undisturbed` lists what
a step must leave alone for a goroutine not to notice: its call, its lock and
gates, entries except along their life. `OthersKeep` proves that this is enough;
every action is then one of a few shapes (`CallStep`, `OneSlotStep`,
`NewEntryStep`, `EntryMoves`, `FenceStep`, `StatusStep`), for which it is proved that
they leave the others undisturbed, and only the acting goroutine needs an argument
of its own.

`CrashesHaveCauses` proves that the process has two ways to die in this package
and no third: a stop for another version than the entry's, and the reaper with a
slot that has just lost its entry. A caller that makes room, a replacement and
`Stop` read a slot and its entry apart too; the invariant `EntriesInHand` says
that they, unlike the reaper, never wait for the teardown of an entry that is not
there. `RevokesReopen` proves that a slot closed without an entry is opened by the
next revoke of its account and by nothing else. It needs `ClosedInTable`: a closed
slot, and one that somebody is about to close, is in the table, so that no new
slot of the account takes its place.

### 12.3 The accounts of the operator

`AccountLifecycleProofs` proves `SessionsFollow`, `Quiet`, `Tombstones`, `Revoked` and
`Recovered`. Requests, challenges, clients and background jobs know an account by
nothing but a version, and the row has often moved on. `LifecycleInv` says of every
version that is held what the row may be by now: one that an authentication began
at is authenticating at `v`, active or aborting at `v + 1`, and owing a logout or
disconnected at `v + 2` (`AuthTarget`); likewise for an intent (`IntentTarget`), an abort
that recovery found half done (`LocalTarget`) and a client (`ClientTarget`). `StageInv`
says which of them each step of a call may rely on, `ChallengeOK` the same of
challenges and tombstones, and `MainInv` what recovery has settled and shutdown
has still to do. Each transition of the row is shown to lead from one of these
cases to the next (`Moves`), so every target survives it, whoever holds it
(`Living`); fences only grow, and a death of the process clears what it must.
`Revoked` needs the intent: `mark` deletes a session only where the same version
was logged out before, and nothing signs it in meanwhile: that takes a version
above the fence, which the revoke has raised to the version of the row.

Three theorems give the exact exceptions to what section 13 lists of the accounts.
`KillsHaveCauses`: an abort meets a client of another version only if an earlier
stop or revoke ran out of time and left it behind, below the fence, or if the
account has gone through another authentication since, the `row.version > ver + 2`
of `KillsExplained`. Two facts join `LifecycleInv` for it: `AbortBegun`, that the account is, or was,
disconnecting at the version that an abort is about to complete, and
`StartsQuietly`, that recovery meets only clients below their fence. `Passed` says
that every version held from before the current authentication is fenced
(`Earlier`).
`SignedInUntilOverdue`: an active account is signed in, on the condition
`[]RevokesInTime`, that no revoke outlives the intent it was read from. The
condition is not an assumption on the code, which does not keep it; the theorem
says that a behaviour which loses a session in use has an `Overdue` revoke in it.
It is not vacuous: behaviours with disconnects, timeouts and crashes satisfy it,
and TLC ran it as a state constraint over the instance of `account_lifecycle`.
The invariant is `SignedInv`; with `Confirmed`, what a call knows to be signed in
between Telegram's confirmation and `Finalize`.
`ChallengesEndUnless`: a due challenge can still be aborted, or was, unless its
own activation was committed or the account has moved on.

### 12.4 The delivery worker and the process

`WorkerProcessProofs` proves `TypeCorrect` and `PoolOutlivesWork` from
`ProcessAssumption`. The coordinator holds the latest claim or none (`Hands`), the
tracker counts the tasks at work and the slots count them and the coordinator's
(`Counts`); so an ended coordinator and a tracker of zero leave nothing, and
`Worker.Run` returns without a timeout only then (`Returns`). `RunnerInv` and
`MonitorInv` carry that to the pool: it is closed only when the monitor has waited
for the runner, which has joined the worker, or one of the waits has timed out.

`NoEndSucceeds` proves the finding of `unclean_shutdown` for every instance: no
behaviour of the process ends in success, for every case of the monitor's select
has the worker among its waits and no wait for it ends well (`WorkerMissed`).

### 12.5 Web sessions

`WebSessionsProofs` proves for any operator's limit, number of browsers,
requests, sessions, passwords and instants, from `SessionsAssumption`:
`ResetsEndSessions` (`Spec => []ResetEndsSessions`) and
`RequestsAcceptedWhileValid` (`Spec => AcceptedWhileValid`). The argument
is about row locks. `OperatorHeld` says that a login keeps the row of the operator
from the comparison of the password to the insertion, a request from its second
look to its acceptance, and a reset to its end; `SessionHeld` that a request
keeps its session meanwhile, and that it is live and, in the end, of the current
password; `EvictsHeld` that a login holds the sessions it is about to push out. Who
ends a session or changes a password must have the row, so nobody does it under
them. Hence the password a login verified is still the current one where it
inserts (`LoginCurrent`), and a session counts from the reset that set the password
it was opened with (`OpenedAfter`), although the two are written at different
places. `Types`, `Rows` and `Targets` say what the steps refer to.

`SessionsStayWithinLimit` (`Spec => []SessionsWithinLimit`) needs more than the
sessions that can be used. `FindValidSession` does not look at the time again after
its waits, and gives a session that expired meanwhile a new idle deadline; a count
of unexpired sessions could so rise without a login. `LimitInv` therefore counts
those that are usable or held by a request that found them valid, which is sound
because `Prune` waits for such rows, and says that between `Prune` and `Insert` the
count leaves room for one, the row of the operator being locked. `Prune` ends what
has at least `Limit - 1` later sessions. `LaterOnesRemain` is the lemma about
counting: among finitely many sessions, at most `k` have fewer than `k` later ones,
for the earliest of them has all the others after it (`LeastNumber`, by the
well-founded order of the numbers).

`SessionTypes` (`Spec => []TypeOK`) bounds what the types bound, and needs for it
that a lock is held only by who uses the row (`HeldIsUsed`), that a reset under way
still has a number to give (`Bounded`), and that the deadlines of a session are in
order (`Ordered`), which the schema demands of every row by
`ck_operator_web_sessions_expiry_order`. That constraint is part of `Refresh`: a
renewal that starts after the absolute deadline would put `last_seen_at` behind it,
and PostgreSQL refuses the row.

### 12.6 Dialog synchronization

`DialogSyncProofs` proves `DoneSyncsAreCurrent` (`Spec => []DoneIsCurrent`) and
`TasksLetGo` (`Spec => []EndedTasksLetGo`) from `SyncAssumption`, for any number of
accounts, slots, attempts and claims. A token goes into one row once, with the claim
that makes it (`Tasks`: a token beyond `claims` has no task), so a running row names
one task (`RowsHeld`), and only that task passes the conditions of `Complete`,
`Retry`, `Fail` and `Release`. An authentication makes the row pending and so takes
it from that task: who still holds its row when the answer has come has fetched
with the current login (`FetchedCurrent`), which is why `Complete` may call it done.
For the shutdown, `Counts` ties the tracker to the tasks at work and the slots to
both and to what the coordinator holds (`Hands`), so that zero active tasks and an
ended coordinator leave nothing. `TaskStep` is the one lemma about a step of an
execution; each handler is shown to be such a step.

`SyncTypes` (`Spec => []TypeOK`) adds what bounds the counters: `Sound`, the
constraints of `account_dialog_syncs` (no attempt beyond the last, a token exactly
while the row is running), which every statement of the worker, of a login and of
the backfill keeps, and `Logins`, by which a task fetches with the login of an
account that was authenticated.

`OnlyReleases` proves that a pending row without attempts comes from a release by
its holder and from nothing else: a failure that leaves a
row pending leaves it an attempt. `StrandedRowsWait` proves that it then waits for a login of its
account: neither time, nor the worker, nor a restart asks for the
synchronization again. One lemma, `RowsMove`, lists how a row may change, and who
may do it.

### 12.7 The mailing console

`MailingConsoleProofs` proves `RecipientsResolveCorrect`, `DraftsAreSendableCorrect`,
`RefusedOnlyIfChangedCorrect` and `ConsoleTypes`. `LocksExclude` says what PostgreSQL's
row locks give: one holder of a row, key shares beside each other only. `RequestTrue`
says that what `CreateDraft` has found is locked by it and still sendable, `TaskTrue`
that a completion holds the rows it has found. So no completion, and no change of
an account, commits under a draft that is being made, although the checks of a
draft are several statements (`LockedStays`). `PageTrue` is the other half: what a
page offers is usable or the page is stale; hence a request that is refused
meets a stale page. Once made, a draft resolves for ever: hashes and memberships
are never taken away, and who owns an account does not change.

### 12.8 Model-checked only

Liveness under fairness (`SendingIsSettled`, `RunsFinish`, `EveryCallReturns`,
`FailuresEndTheProcess`, `ClaimsAreSettled`, `SyncsAreSettled`, `EverythingEnds`) is out
of the prover's reach and stays with TLC, and so do the two violations that have a
run. Nothing that a passing run checks as a safety property is model-checked only.

## <a name="findings"></a>13. Where the program and its statements disagree

Two disagreements are kept as runs, whose one property TLC violates.

- `stop_leaves_claimable`: `Reap` may read an active mailing, run and generation
  while a Stop that is about to change them has already updated the pending
  deliveries. The expired send goes back to pending after Stop has passed it.
  The check `stopped_mailing_with_claimable_delivery` calls this an error. The
  row is then pending for ever (nothing claims, reaps, skips or reconciles it)
  and, having an attempt, makes every later Queue of the mailing fail with
  `ErrUnresolvedDeliveryOutcomes`. Only the record of a success that Telegram had
  already accepted ends this (`LeftoversBlock`, `LeftoversWait`).
- `unclean_shutdown`: `main.go:186-187` makes the channel `workerErrors`, on which
  nobody ever sends. `waitWorker` therefore always times out after ten seconds,
  and a process that was told to stop, and in which nothing went wrong, ends as a
  failure. `cmd/app/lifecycle_test.go:91-107` expects none, and passes a channel
  it fills itself. That every end is such a failure is proved (`NoEndSucceeds`).

The others are stated as operators beside the properties of their module and kept
out of the runs. TLC finds a counterexample to each when it is listed as an invariant of that module's
run (as a property, for `NoLateOutcomeAfterQueue`). What holds in their place is
stated as operators too and proved for every instance; the name of the theorem
is given in parentheses.

- `NoLateOutcomeAfterQueue` (`DeliveryPipeline`): the comment on
  `ErrUnresolvedDeliveryOutcomes` promises that a mailing is not queued again
  while a delivery can still produce a late outcome. Queue looks at the rows only:
  a delivery whose reaped first attempt still holds a success, and whose second
  attempt failed for good, counts as resolved. With `repeat_mode = 'once'` the
  recipient may then get two messages. There is no other late outcome than this
  one (`LateOutcomes`).
- `StaleStopIsRefused` (`AccountOwner`), `AbortsStopTheirOwn`
  (`AccountLifecycle`): `StopAccount` for another version than that of the live
  entry calls `slot.mu.Unlock()` on a mutex that nobody holds, which ends the
  process, instead of returning `ErrStaleAdmission`. Two leftover lines; no test
  has a stale stop with a live entry. The authentication gets there by itself:
  two expiries of one challenge, of which the slower stops the version that a new
  Start has opened meanwhile. The other way is a client that an earlier teardown
  left behind; there is no third (`KillsHaveCauses`, and `CrashesHaveCauses` for the
  registry).
- `FailureIsIsolated` (`AccountOwner`): `evictIdle` finds a slot idle, the client
  ends by itself, and the entry the reaper reads next is nil. `teardown` takes it
  for the current one and dereferences it. The same two reads in `makeCapacity`
  only lose the slot, and nothing else than these two mistakes ends the process
  (`CrashesHaveCauses`).
- `ClosedSlotsReopen` (`AccountOwner`): the client ends by itself between the two
  looks of `StopAccount` (or of `reserve`, when it replaces a version) at the
  slot. The slot is then closed without an entry; teardown has nothing to do, and
  no `Execute` of any version is admitted again until a revoke or a restart
  (`RevokesReopen`).
- `ActiveIsSignedIn` (`AccountLifecycle`): `operatoraccounts/ports.go:60` says that `RuntimeRevoker` owns
  one version-fenced remote logout. A Disconnect that has loaded an intent may
  stall before `RevokeAndStop`, while another request finishes the disconnect and
  the account is authenticated again. When no client of the new version is alive,
  the late call finds a fence of its own version, which `recordFence` does not
  refuse (`fence.go:45` refuses only smaller ones), builds a private client on the
  session that is stored now and logs it out. The account stays active with a
  session that Telegram does not know. The proof of `Revoked` names this case:
  `Overdue`. It is the only one: without an overdue revoke every active account is
  signed in (`SignedInUntilOverdue`).
- `DueChallengesCanEnd` (`AccountLifecycle`): a challenge whose activation was
  committed with a lost reply, or whose account has since been authenticated
  anew, cannot be aborted when it is due: `BeginAbort` refuses every later status,
  and the record keeps its place among the challenges until the process stops.
  `WithChallengeTTL` says that every challenge is bounded. Every other challenge
  meets a status that `BeginAbort` accepts, or has been aborted
  (`ChallengesEndUnless`).
- `ReleasedIsRetryable` (`DialogSync`): `store.go:47-48` says that `Release`
  returns an attempt without consuming the budget; `Claim` has counted it and
  `Release` does not take it back. A row released on its last attempt is pending
  and never claimed. Nothing but a release leaves such a row (`OnlyReleases`), and it
  lasts until the account is authenticated again (`StrandedRowsWait`).

Three smaller ones have no operator. A revoke whose cleanup timed out leaves its
fence protected (`revoke.go:281-284`); what ends the entry later does not know the
version of the fence, and `registry.go:24-25` says that protected fences belong to
slots that are still stopping. A revoke cancelled while it waits for the gate
(`revoke.go:180-185`) leaves its empty slot in the table, where it counts against
the capacity. And `isCancellation` (`jobs.go:153`) takes a timeout of a job's own
for its cancellation, so that the runner's result may hide it.

## <a name="left-out"></a>14. What is left out

- Code generated from the API description (`http/ogen`, eleven thousand lines),
  the fake Telegram, configuration, logging and telemetry: no state that
  concurrent steps share.
- Rendering of messages and pages, parsing and normalization of usernames and
  phones, the paging of Telegram's answers, Argon2id and the encryption of
  sessions: pure computations. The limiter of login attempts and the token of the
  login form before there is a session: local to one counter or one request.
- The duration of leases, delays and timeouts: each may end at any point, which
  includes every duration. That the defaults of the worker make it rare
  (`LeaseSafetyDuration`) is arithmetic on constants.
- The check of the run timestamps (`pg/invariants`), `started_at` and the texts
  of failures: nothing decides on them.
- Code without a caller: status `reauth_required`, `Store.DeleteSession`, the
  transition of `PersistLifecycle` to active, `RevokeOperatorSessions`.
- PostgreSQL and Telegram themselves: `accepted`, `authorized`, `LeaseElapses`,
  `BecomeReady`, `TelegramAccepts` and what a fetch answers are assumptions about
  them, marked external.
- A second process on the same database. Its executions and passes are those of
  the pipeline, which counts neither; the other modules model one process.
- The size limits of passes (`BatchSize`): a pass takes rows one at a time in any
  order, which includes any batch.
