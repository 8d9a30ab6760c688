# A verification of simple_module_python

TLA+ models of the concurrent core of this repository, the TLC configurations
that check them on small instances, and TLAPS proofs of what matters most for
every value of the constants. `PROJECT.json` maps each definition to the lines
it stands for, and lists the runs, a mutant of the code for every property, the
hazards of the code, what was found, and the theorems.

To run a check: `tlc -workers 2 -config OutboxSafety.cfg MCOutbox.tla`.
To replay a proof: `tlapm OutboxProofs.tla`.

## 1. The system

simple_module is a framework for modular web applications (FastAPI, SQLAlchemy,
Inertia) with a set of ready modules. Its processes are web workers (asyncio),
Celery workers and a Celery beat; they share a PostgreSQL or SQLite database, a
broker (Redis) and an object store. No process holds state another one needs:
what they share goes through rows, row locks, Redis keys and messages. That is
where the hard behaviour is.

### Inventory

| Component | State | Operations | Interacts through | Hard part | Correct when |
|---|---|---|---|---|---|
| Durable event outbox (`background_tasks/outbox`) | `outbox` rows: status, attempts, claim_seq, locked_until, next_attempt_at | publish, claim, reclaim, deliver, record failure, retry, discard, purge | publisher's transaction; dispatch messages; a sweep | crashes, expired leases, ambiguous commits, lost and repeated messages | effects land once, every row settles, no overlap, a stale claim ends nothing |
| Task executions (`executions`, `worker`, `tasks.py`) | `task_execution` rows; per-process heartbeat throttle | signals, heartbeat, stuck sweep, retry, retry all, purge | Celery signals; post-commit publishes; row locks and a foreign key | races of sweeps, signals and purge; lost signals; send failures | row before message, live tasks spared, orphans found, links valid |
| Leases (`core/leases.py`, `db/leases.py`, `hosting/_lease_redis.py`) | `sm_lease` rows: holder, expires_at, fence; counter row | acquire, semaphore acquire, refresh, release | row locks, database clock | a clock read before a lock wait; lock order | one live holder per slot, fences grow, full TTL |
| Uploads (`file_storage`: multipart, files, reapers) | file and session rows, multipart uploads and objects of the store, an advisory lock | create, complete, reject, abort, plain upload, delete, two reapers | row locks, the advisory lock, the store | no transaction spans store and database; commits without an answer; reapers that read without locks | no committed file without its bytes, quota kept, nothing left behind for good |
| Tenant membership (`tenants`) | membership, invitation and tenant rows | change role, remove, invite, revoke, accept, suspend, delete, purge a deleted account | `FOR UPDATE` and `FOR KEY SHARE` on the tenant row, invitation locks, the outbox | counts and conditions that span rows at READ COMMITTED | an owner stays, seats suffice, a link works once, deleted accounts leave or their message is dead |
| Request transaction (`db/transaction.py`, `writes.py`, `callbacks.py`) | session marks, queued callbacks | flush, savepoints, commit inside the request, finalize | the database; whoever queued a callback | savepoints released into ones that roll back; commits by libraries | callbacks run for exactly the writes that lasted |
| Caches and invalidation (`core/invalidation*.py`, `singleflight.py`, `background_tasks/core/invalidation.py`) | per-process copies of rows, an epoch or a lock per cache, a Redis channel | fill, forget, broadcast, listen, reload | callbacks after the commit, publish/subscribe, TTL, a timer | a fill or a reload that read before the change; lost messages | nothing stale after the invalidation was applied; staleness ends |
| Login lockout (`users/auth_local/lockout`) | three columns of the account | admit, record failure, record success, release, unlock, password reset | statements of their own transactions, each with its own clock | a burst admitted before any is counted; a process that dies with the last slot | no more guesses than the threshold; the account always reopens |
| Token renewal (`auth/oidc_common`) | session cookie, lease, `auth_refresh_outcome` rows | coordinated refresh, adopt, publish, forget at logout | the lease, the outcome table, the identity provider, responses in any order | rotating tokens: a second use revokes the session; late responses; three timeouts that exceed the lease | one use per token while its lease was not late, no cookie undone by an adopter, nothing published after a logout that could wait |
| Administrator guards (`users/admin/safety.py`, `core/setup_action.py`) | role rows | demote, disable, delete, first administrator | a role row lock | two removals at once | one administrator stays |
| Settings, feature flags, branding | rows with per-process state | write, read, reload | invalidation | stale reads | the reload part is Caches |
| Start-up, setup wizard, migrations (`hosting`) | setup gate, advisory lock | boot, migrate, create the first admin | database | two processes boot at once | one migration |
| Log sinks, log records | bounded queue | emit, flush, purge | thread | full queue, shutdown | no blocking of the request |
| The rest: cli, inertia, testing, i18n, diagnostics, discovery, mail, keycloak, oidc, api_tokens, audit_log, sharing, site_lock, dashboard, query rewriting for tenancy and audit | none shared, or single-row operations | | | sequential, pure I/O, or about syntax trees | |

`PROJECT.json` lists all of them under "components" with their files, and the
hard places under "hazards" with their lines.

How the parts build on each other: a request runs in one `RequestTransaction`; what
it publishes goes to the outbox in that transaction, and what it changes is
announced to caches by callbacks after its commit. `UserDeleted` reaches the purge of
`TenantMembership` as a delivery of the outbox, so the purge is tried again, but
at most `outbox_max_attempts` times; then its message is dead until an administrator
retries it. A renewal runs under a lease of `DbLease`.

## 2. Plan

In order of how much the application depends on them and how hard they are to
test.

1. `DurableDelivery`, `Outbox`: the outbox and its abstract promise. *Done, with
   proofs of the safety properties and of the refinement.*
2. `TaskExecutions`: execution rows, heartbeats, retries, purge. *Done, with proofs.*
   To follow: the read and the write of a signal as two steps.
3. `Lease`, `DbLease`: the promise of a lease and the database backend that keeps
   it. *Done for PostgreSQL, with proofs.* To follow: the Redis and in-process backends
   against the same `Lease`, and a token shared by two handles.
4. `FileUploads`: sessions, quota, completion, plain uploads, reapers. *Done, with
   proofs.*
5. `TenantMembership`: owners, seats, invitations, purge. *Done, with proofs.*
6. `RequestTransaction`, and `CacheCoherence` composed with it. *Done, with proofs.*
7. `LoginLockout`: the bound on guesses, reopening. *Done, with proofs.* To follow: the
   same rules for unknown user names on the rate-limit store.
8. `RenewalOutcomes`: the coordinated renewal and logout. *Done, with proofs.*
9. `AdminGuards`: last administrator, first administrator. *To do.*

## 3. Modules and how they correspond to the code

| Module | Contents |
|---|---|
| `DurableDelivery` | what the outbox promises: each published row is open until delivered, dead or discarded; a delivery publishes what its handler publishes, in the same step |
| `Outbox` | tables, broker, workers, admin, time; properties; `Promise == INSTANCE DurableDelivery` |
| `OutboxProofs` | inductive invariants and eight theorems |
| `TaskExecutions` | execution rows, broker, workers, operators, stuck sweep, purge, time; properties |
| `TaskExecutionsProofs` | inductive invariants and eight theorems |
| `Lease` | what a lease or semaphore promises: at most `Slots` tokens hold it, a hold ends by its own release or its time, fences grow |
| `DbLease` | the `sm_lease` table: calls as transactions, row locks, the database clock; properties; `Promise == INSTANCE Lease` |
| `DbLeaseProofs` | inductive invariants and seven theorems |
| `FileUploads` | rows, store, requests, both reapers, time; properties |
| `FileUploadsProofs` | inductive invariants and four theorems |
| `TenantMembership` | members, invitations, the tenant, requests, the purge; properties |
| `TenantMembershipProofs` | inductive invariants and five theorems |
| `RequestTransaction` | one session: writes, savepoints, marks, callbacks |
| `CacheCoherence` | `RequestTransaction` extended by workers, caches, the bus and reloads; properties |
| `CacheCoherenceProofs` | what every step of a session keeps, then inductive invariants and four theorems |
| `LoginLockout` | columns of one account, attempts, unlock, time; properties |
| `LoginLockoutProofs` | inductive invariants and two theorems |
| `RenewalOutcomes` | one session: requests, lease, outcomes, provider, browser, logout; properties |
| `RenewalOutcomesProofs` | inductive invariants and five theorems |
| `MC...` | instances of the module of that name for TLC |

The mutated definitions a property must catch stand before the definition they
mutate, with a comment that says which bug they are.

### Outbox

A worker of the model is anything that runs `dispatch()`: a Celery task, the
in-process sweep or a web process after its own commit. Row columns are
variables of the same name (`status`, `attempts`, `claimSeq`); `lease` is
`locked_until - now` and `wait` is `next_attempt_at - now`, so time is the action
`Tick` that counts both down, and an instance is finite without stopping time. `lease[r] < 0` is the
strict comparison of `reclaim_expired`.

| Action | Code |
|---|---|
| `Publish` | `_OutboxWriter.enqueue`, at the commit of the publisher (a rollback is a stutter), then the hand-off |
| `StartDispatch`, `StartSweep`, `Reclaim` | the dispatch task, the sweep loop; `reclaim_expired` runs in the transaction of the sweep |
| `Claim`, `EndDispatch` | one turn of the loop in `dispatch`; the limit and the hand-off of what is left |
| `StartHandler`, `UnknownHandler`, `RejectPayload`, `HandlerReturns`, `HandlerFails` | `deliver_one` up to the fence |
| `Deliver`, `DeliverUnseen`, `FencedOut`, `CommitFails` | the fenced UPDATE and the commit: landed, landed with its answer lost, no row matched, failed |
| `RecordFailure` | `_record_failure` and `_finish`: back to pending after a backoff, or dead |
| `Abandon` | crash, cancellation, or a database error while recording |
| `AdminRetry`, `AdminDiscard`, `Purge` | the admin service and the purge task |

Abstractions: the claim takes any due row (the code orders by `next_attempt_at`);
`max_attempts` is one constant; payloads, tenant scopes and the admin's
visibility are left out, so that a payload is refused and a handler is unknown
nondeterministically; the handler's writes are the counter `effects`, and the
events it publishes are `Emits`, committed with them. A hand-off may be lost,
kept or repeated (`MaxCopies` bounds the copies). The handlers of a worker in `Punctual`
start within the margin and are cut off at `handler_timeout`, as `handler_guard`
does for a handler that yields to its loop; those of the others block, and
start late, without bound.

### Task executions

`fresh` is `heartbeat_at + stuck_after - now` while a row is running. A worker
goes through `Receive`, `Start` (or `StartUnseen` when the signal's transaction
failed: `apply_signal` logs and goes on), `Heartbeat`, `BodyEnds` or `Resend`
(`Task.retry`), `Record` (or `RecordLost`), `Close`; `Crash` gives its message
back, as `task_acks_late` does. The process-local throttle of `heartbeat()` is
`gap`, the time since the body last called it `quiet`, and failed writes in a
row `lost`.

An operator presses one of two buttons. `SweepReads` is the snapshot of the
SELECT in `retry_failed`, `SweepLocks` the same statement reaching the rows:
PostgreSQL re-checks a row that was *updated* since the snapshot, skips one that
is locked, and takes one that was merely locked in between. `RetryReads` and
`RetryFlushes` are the single retry, whose foreign key check locks the parent.
`Commit` writes the children, `Send`, `SendFails`, `FailUnsent`, `Finish` are
the post-commit publishes of `_run_all`; `Finish` before all are sent is the
death of the process. `PurgeUnlinks` and `PurgeDeletes` are the two statements
of `purge_old_executions`.

Abstractions: a batch is any non-empty part of what can be locked (the code: the
oldest 500); retention outlives messages (a day at least); a message is not
redelivered while its worker lives (the documentation asks for a visibility timeout above the longest
task); Celery's rejection of a retry it could not publish is left out; a row is
unique per task, and a signal reads and writes it in one step; reduced tracking
modes appear as lost signals. When the DELETE of the purge waits for a retry
that then commits, the foreign key fails the purge; the model has this as
`PurgeAborts`.

### Leases

One name of the `sm_lease` table and the handles (`Lease` objects of any process)
that use it. `holder`, `ends` (`expires_at`) and `fence` are the committed
columns; `lock` says which transaction holds each row. A call is a transaction at
READ COMMITTED: nobody sees its writes before the commit and its rows stay locked
until then, so `Commit` applies the write at once, with the expiry computed from
`clock`, the last time the call read. Clock reading and row locking are
statements of their own, since their order is the point.

| Action | Code |
|---|---|
| `Call` | `_tx`: begin, read the clock |
| `LookUp` | `_slot_of` and the rows that `_take_slot` or `_held_update` is going to lock |
| `Lock` | `SELECT ... FOR UPDATE` in `_locked_now`: one row for an acquire, all rows naming the token for a refresh or a release |
| `Update` | the second clock reading and the UPDATE with its WHERE; a refused semaphore acquire goes to the next slot and keeps its lock |
| `Count` | `_next_counter`, the upsert of the counter row |
| `Commit`, `CommitUnseen`, `Abort` | the commit and its answer; the commit whose answer is lost; a rollback (deadline of `Lease.acquire`, broken connection, deadlock victim) |
| `Tick` | the database clock |

`sure[h]` is what a careful handle believes: a hold until TTL after it *sent* the
call that was granted. Handles in `Slow` may stall at any statement; time passes
over the others only while they wait for a row of another call. A missing row
is treated as the expired placeholder that `_take_slot` inserts: a second insert
of the same key waits as for a row lock. The abstract `Hold` allows any end up to
a TTL away, since `DbLease` computes the end before it commits, and a
call that stalls may even commit a hold that is over already.

Abstractions: each handle has a token of its own and makes one call at a time,
as a `Lease` without `owner=` does; all handles use one TTL; a release is called
by a handle whether or not it holds anything; SQLite, where a transaction locks
the whole database, is left out.

### Uploads

A key names one stored object and is used once. `file` and `session` are the
committed rows, `upload` and `object` what the store has; no transaction spans
them, and every request is a transaction of several steps between which
everything else may happen. A request's uncommitted writes are its position
(`req[r].at`), and `Commit` applies them.

| Action | Code |
|---|---|
| `Open`, `Reserve` | `create`: `abort_expired`, then under the advisory lock the two SELECTs of `_check_quota`, the session row and `create_multipart` |
| `PartsArrive` | presigned PUTs, past the application |
| `Complete`, `Assemble`, `Record`, `Reject` | `complete`: lock and checks; `complete_multipart`, whose answer may be lost; the limits again and the flush; `_reject` |
| `Abort` | `abort` |
| `Put`, `TakeTurn`, `Admit` | a plain upload of a request or of a worker (`store_path`), which writes the object first, then takes the advisory lock and counts |
| `Commit`, `Fail` | the end of the transaction: landed with its answer, or rolled back |
| `LoseAnswer`, `Compensate`, `Settle` | a COMMIT without an answer; `_compensate` of a worker looks for the row while the COMMIT may still be in flight; the server decides |
| `Delete` | row first, object in a callback that may not run |
| `ReapSelect`, `ReapAbort`, `ReapMark`, `ReapOrphans`, `ReapCommit`, `ReapFail` | `reap_stale_uploads`, one transaction that locks no row before its UPDATEs |
| `SweepFiles`, `SweepSessions`, `SweepDrop` | `reap_objects`: listing, two SELECTs, drops |

An admission is two statements at READ COMMITTED: `counted` is what its first SELECT
summed (the stored files), `past` the deadlines over at the one `now` it uses, and
the second SELECT (`FitsReserved`) sees what has committed in between. A completion takes no
advisory lock and may be what commits.

Abstractions: a file has size 1, so that the quota counts files; ages run to
2 * `TTL` + 1, where every deadline and grace has passed; retention of closed
sessions is over when the age is. A plain upload commits within `MaxTx` of its put,
and `MaxTx` is at most the grace of 2 * `TTL`: `object_reaper.py` demands that its grace
exceed the longest transaction, and nothing in the code enforces it (the setting is validated as
positive only). The transaction of a completion has no bound: one that commits after the
grace is marked `lost`. A store call may fail; that is logged and the reapers come again.
`uncounted` and `lost` are history: the files the code lets pass, named in section 6.

### Tenant membership

One tenant. A transaction's writes are applied at its commit; until then only
its locks are felt: `lock()` takes the tenant row `FOR UPDATE`, the insert of a
membership takes it `FOR KEY SHARE` through its foreign key, invitations are
locked by `lookup` and by what is deleted, memberships by what is written.

| Action | Code |
|---|---|
| `ChangeMember` | `change_role`, `remove_member`, leaving; with the condition on another owner |
| `LockToInvite`, `Invite` | `create`: lock, then expired rows, duplicate, seats, insert |
| `Revoke`, `Accept`, `Join` | `revoke`; `lookup` with its checks; `add_member` |
| `SetStatus`, `LockToClose`, `Close` | `set_status` without a lock, `delete_tenant_rows` under it |
| `PurgeLooks`, `PurgeLocksTenant`, `PurgeDeletes`, `PurgeCommits` | a claim of the message (`tries` counts it) and `purge_user_memberships`, statement by statement |
| `PurgeFails`, `RetryPurge` | a delivery that failed: `_record_failure` or `reclaim_expired`, with the message dead after `MaxAttempts` of them; `OutboxService.retry` |
| `Commit`, `Rollback` | the end of a request |

Abstractions: of an address only the newest invitation counts; an account keeps
its address, so a member is never invited and the existing membership that
`add_member` looks for is never there; `Guests` and `Leavers` bound who is invited and
who is deleted; of the message that carries `UserDeleted` its attempts and its death are kept (the rest is `Outbox`),
and an administrator who discards it is left out: then nobody removes the memberships. `late` and `blind` record the two things the code lets pass, which
section 6 names.

### Request transaction and caches

`RequestTransaction` holds, of each session, what the database will keep of each
write (`level`: the savepoint it is in, the root, or gone; `durable`) and what the session
believes: `marks`, `untracked` (the two keys of `writes.py`) and `queued` with the
savepoints each callback was queued in (`within`). `CacheCoherence` extends it:
`Finalize` is `Commit` plus what the change of the row does to every copy, `Reply` the end of
the last callback, which is when the response leaves.

The row's `kind` is how the application keeps it: `memberships` (also session
versions and grants: TTL cache, filled under a single flight), `hosts` (TTL cache
without one), `roles` (also settings and feature flags: state reloaded by
`InvalidationRefresh`), `uncached`. It is chosen once, in `Init`.

| Action | Code |
|---|---|
| `MissCache`, `Enter`, `Select`, `Store`, `Retry`, `Cancel` | `SingleFlight.hold` and `fill`; the fill of `hosts` skips the lock |
| `RunCallback`, `Publish`, `Reply` | `run_on_commit_callbacks`, `InvalidationBus.publish`: own handlers first, then the broadcast |
| `Receive`, `Disconnect` | `_listen`, `deliver`; what was under way to a lost connection is lost |
| `StartTimer`, `LockReload`, `SelectAll`, `Install`, `ReloadFails` | `InvalidationRefresh`: timer, listener and callback share one lock |
| `WriteThrough`, `Finalize`, `FinalizeUnseen`, `GiveUp` | an inner commit; `finalize_session`: committed, committed without an answer, discarded |
| `Tick`, `Crash` | time to live; a worker restarts with empty caches |

Abstractions: of the row's history a copy, a read or a message tells only
whether the latest commit is in it, so any number of writes fits in a finite
state space; `due` remembers which workers have yet to apply the latest commit;
`MaxInbox` bounds messages under way to a worker.

### Login lockout

One account. `count`, `quiet` and `locked` are its three columns, the times relative to
now. Every statement of an attempt is a step; it measures time from the clock it
read when it began (`age`), however late it runs.

| Action | Code |
|---|---|
| `Begin`, `Look`, `TakeSlot`, `Refuse` | `login_attempt`, `admit`, the UPDATE of `_admit_account` with its WHERE |
| `Wrong`, `Load`, `Lock` | `record_failure`; the flush of a loaded row, which leaves alone what was loaded as it is |
| `Succeed`, `Release` | `record_success`, `release` |
| `Abandon` | a refusal by the throttle of the source address, a client gone, a crash |
| `EditReads`, `EditWrites`, `EditFails` | `unlock` and `on_after_reset_password`: load, then a flush of what was set |
| `Tick`, `Observe` | time; `Observe` starts the history of a period at any moment |

Abstractions: `MaxDelay` is the longest from an attempt's clock to its last
write; a period must be shorter than window and cooldown by that much
(`LockoutConstants`), since two statements with old clocks are apart by it. `span` and
`guesses` watch one period at a time.

### Token renewal

One browser session. A cookie is the number of the refresh token in it. The lease
is one that keeps its full TTL, which is what `LeaseKeepsTtl` proves of a plain
`DbLease`. A request goes through `asking`, `granted` (the lease is taken, the answer
under way), `loading`, `renewing`, `validating`, `publishing`, `releasing`, `answered`.

| Action | Code |
|---|---|
| `Start` | `refresh_session` finds the authority expired |
| `Grant`, `Refused`, `NoAnswer`, `Enter`, `AcquireFails`, `GiveUp` | `acquire(blocking=False)`, then `acquire()`, each attempt under the deadline of 3 s; the waiter that gives up |
| `Load` | `_load` and adoption, or on to the renewal, or nothing for a waiter |
| `TurnedAway` | `AuthMiddleware` with no user: an error or a public page leaves the session alone (`Untouched`), a navigation has `session[SESSION_NEXT_KEY]` written and its old cookie sent again (`turned`) |
| `Accept`, `Reject`, `Transient`, `Validate` | `_refresh_grant`: the provider takes or refuses the token, either answer may be lost; the claims |
| `CutOff` | `_WORK_SECONDS` are over, or storage failed: cooldown, cookie kept |
| `Publish`, `PublishFails`, `Lands`, `Release`, `ReleaseFails`, `Arrive`, `Crash` | `_publish` under its own timeout; a COMMIT cut off by it (`landing`) that becomes durable all the same; the `finally`; the response |
| `LogoutBegins`, `LogoutGranted`, `LogoutGivesUp`, `LogoutDeletes` | `logout` and `forget_outcomes`, which waits a TTL for the lease and deletes regardless |
| `LogoutHastens`, `LogoutFails` | the lease cannot be reached: `acquire` returns False at once and the outcomes are deleted; it raises, or the delete does |
| `Tick`, `Expire` | time, which no step outlives its timeout by (`InTime`); the authority runs out |

`Delay` is the deadline of an acquire, which may report a lease that long after it was granted.
`RenewalConstants` asks that work and publication fit in the TTL (12 + 2 < 15) and that `Delay`
does (3 < 15), as they do, and not that the three together do, as they do not:
a renewal that entered with too little left of its lease is marked in `slow`.
`unshared` are the spent tokens whose outcome can no longer be adopted (it ran
out, could not be published, was dropped by a logout, or the answer of the provider was
lost): these may be spent again, by the design of the code. `resent` are the cookies a
failed renewal keeps. Abstractions: authority outlives an outcome and the requests
sent with the cookie before; one cut-off publication per token is in flight at a time;
legacy cookies without an id, the length of the cooldown, a refresh request that the provider
serves after its caller gave up, and an acquire cancelled by its deadline that takes the lease after the
waiter has given up are left out.

## 4. Runs

| Run | Instance | Shows |
|---|---|---|
| `outbox_safety` | 2 rows (one publishes the other), 2 workers, 2 attempts, 1 admin retry | `ExactlyOnce`, `RetryBudget`, `OnlyHolderEnds`, `KeepsPromise` (the refinement of `DurableDelivery`) |
| `outbox_fleet` | the same 2 rows, a punctual and a late worker, lease 3, timeout 2, fairness | `NoOverlap`, `Settles` |
| `task_retries` | 1 task, 1 retry id, 1 worker, 1 operator, fairness | `TypeOK`, `RowBeforeMessage`, `HeldRetryable`, `LinksValid`, `OrphansFound`, `SweepSparesLive`, `FailSparesStarted` |
| `task_sweeps` | 1 task, 2 retry ids, 2 operators | violates `SweptOnce`: a finding |
| `task_late_retry` | 1 task, 2 workers | violates `CompletionKept`: a finding |
| `lease_semaphore` | 3 slow handles, 2 slots, TTL 1, 5 calls | `TypeOK`, `StillHeld`, `OneSlot`, `DeadlockNeedsTwoRows`, `NotDenied`, `KeepsPromise` |
| `uploads` | 2 keys of one user, 2 requests, quota 1, TTL 1, `MaxTx` 2, fairness | `BytesKept`, `QuotaKept`, `NoFileAfterAbort`, `StoreDrains` |
| `tenants` | 3 users, 2 may be invited and 1 deleted, 2 seats, 2 requests, 2 attempts, fairness | `SeatsKept`, `OwnerKept`, `JoinsByOpenInvite`, `DeletedLeave` |
| `caches` | 4 kinds of row, 2 workers, 1 writer, 2 readers, TTL 1, 2 attempts, fairness | `TypeOK`, `NoStaleKept`, `WritesTracked`, `OwnWorkerFresh`, `Answered`, `Converges` |
| `lockout` | 2 logins, threshold 2, window 3, cooldown 4, delay 1, period 2, fairness | `TypeOK`, `GuessesBounded`, `AlwaysReopens` |
| `renewal` | 2 requests and a logout, 1 rotation, lease 4, `Delay` 2, one tick for work and for publication | `TypeOK`, `SpentOnce`, `CookieKept`, `LogoutSticks` |
| `renewal_waiters` | the same | violates `WaitersLeaveCookie`: a finding |

The type invariants of `Outbox`, `FileUploads` and `TenantMembership` are part of
their inductive invariants and proved for all instances, so no run repeats them.

**Bounds of the outbox and the tasks.** Two workers are enough for a stale claim
against a live one. The fleet mixes a worker whose handlers are cut off in time
with one whose handlers are not: the promise of `NoOverlap` is made to the first,
whatever the second does, and the run needs a lease longer than its timeout. Two
rows give one delivery that publishes another. Two attempts have a first, a last
and a reset of the budget by a retry. A lease of one tick has the states before,
at and after its end. For tasks, one original and one retry give
parent and child; the second retry id is needed only to retry a parent twice.
`StuckAfter = 4` is the least value that `HeartbeatAssumption` allows for a throttle
of 2, a call every tick and one lost write, so an age off by one is seen.
`MaxCopies` bounds messages of one task or hand-off; a second copy of the same
message does nothing that a redelivery after a crash does not. `MaxRetries` bounds
admin retries of a row. The passing run has one operator, who may press both buttons in turn; two
at once are what `task_sweeps` is about, and the proofs hold for any number. `Workers` and
`Operators` are symmetric sets, used as symmetry only in runs without liveness.

**Bounds of leases.** Five calls are what it takes to leave a token in two rows
(one acquires, another releases, the first loses its slot and acquires the other)
and then have a refresh and an acquire wait for each other; TTL 1 with two ticks
lets holds end meanwhile. Three handles fill two slots and leave one waiting.
`MaxCalls` and `MaxTime` bound the state space, and nothing happens after them:
`CHECK_DEADLOCK FALSE`; that calls which wait for each other are not stuck for good is
`Abort`, the deadlock victim that PostgreSQL chooses.

**Bounds of uploads.** Two keys compete for one place in the quota, and one of
them may be a plain upload while the other is a session, reserved, expired or completed.
Two requests race for one session or for the quota, beside both reapers. With
TTL 1 and `MaxTx` 2, the longest that the grace allows, a transaction spans a deadline and reaches the grace
of the object reaper; completions outlive it. Each key is used once, as in the code.

**Bounds of tenants.** The founder and two guests make the second owner, the
member and the invited; two seats leave one to fight for. Two requests and the
purge are three transactions, so that two may wait for a third. One account may be deleted,
the founder's place being tested by demotion. Two attempts have a failed delivery
that is repeated and one that leaves the message dead, and a retry starts them over. Once the tenant is deleted and
nothing is left to purge nothing has to happen: `CHECK_DEADLOCK FALSE`.

**Bounds of caches.** One writer per worker pair suffices because a write makes
every older copy `old`; up to two writes in a request let the callbacks of the
first run after the second. Two fills on one worker contend for a flight; the
kind without one has a reader on the writer's own worker. `uncached` rows multiply no states,
so that there a request makes 3 writes and opens 3 savepoints, nested or in
turn. Two fill attempts have a retry and a last one. When no request is under way nothing has to
happen: `CHECK_DEADLOCK FALSE`.

**Bounds of lockout.** Two logins at once hold both slots, and each may begin
again and again. Window, cooldown and delay are the least for which period 2 satisfies
`LockoutConstants`, so an age off by one is seen. Three logins, without liveness, were checked
too (1.7 million states).

**Bounds of renewal.** Two tokens give a cookie that is spent and one that replaces it, with
any number of attempts to spend the first. Lease 4 with one tick for the work, one for the publication
and up to two for the acquire has leases that come in time and leases that come late, as 15, 12, 2
and 3 have; outcomes last one tick, so they run out while requests wait. Two requests are
a winner and a waiter, and each may begin again. The system stops when the session has been cleared or the
tokens are used up: `CHECK_DEADLOCK FALSE`.

**Fairness.** `Fairness` of `Outbox` says that beat keeps sweeping, a worker that
runs the loop goes on, a handler ends (it is bounded by its timeout) and time
passes. A worker may die again and again, but not each time before its first
claim (the strong fairness of `Claim`). Nothing is assumed of the broker: all hand-offs may
be lost. `FairSpec` of `TaskExecutions` says that time passes, the stuck sweep
keeps running, signals and task bodies make progress and transactions end.
Nothing is assumed of receiving messages, sending or purging. In `FileUploads`
transactions end, beat starts both reapers, and from some time on neither
dies nor is refused by the store, without which nothing could ever be cleaned; the UPDATE of a reaper,
which waits for row locks that requests take again and again, is granted in
the end (PostgreSQL queues for row locks). In `TenantMembership` the message of the clean-up is claimed while
it is pending (the recurring dispatch) and a claimed delivery ends, by its commit or by a failure (the timeout
of the handler, the lease of the claim); that deliveries succeed, or that requests end, is not
assumed, which is why the message may be dead in the end. In `CacheCoherence` time passes, awaited reads
return or raise, an `asyncio.Lock` is first come, first served, and of the
timer's reloads not all but finitely many fail. Nothing is assumed of
messages: `Converges` holds when all are lost. In `LoginLockout` time passes
and every attempt ends or dies.

Deadlock is not checked for `TaskExecutions`: when its ids are used up, all is
finished and no heartbeat is left to age, nothing has to happen.

## 5. Proofs

All proofs hold for any finite or infinite set of rows, tasks, workers, requests and
operators and any parameters within the named assumptions
(`ForestAssumption`, `PolicyAssumption`, `ActorsAssumption`,
`HeartbeatAssumption`, `LeaseAssumption`, `UploadConstants`,
`MembershipConstants`, `TransactionConstants`, `CacheConstants`,
`LockoutConstants`, `RenewalConstants`).

**Outbox.** `IInv` is the type invariant, `ClaimsDistinct` (the sequence numbers
of the claims that workers hold are different and none is ahead of the row's),
`RetryBudget`, `ExactlyOnce`, `PublishedWithEffects` and that unpublished rows
were never attempted. It is needed because the fence only looks at status and
sequence number: that a match means "mine" is `ClaimsDistinct`, and that a match
leaves exactly one effect needs the effects of the other states.
`NeverOverlaps` adds `LeaseCovers`: a punctual worker with the latest claim has
spent at most what the row's lease has lost. `Implements` maps each action to
a step of `DurableDelivery` or a stutter. `EventsWithEffects` proves `PublishedWithEffects`,
which the refinement implies and no run repeats.

**Task executions.** `Inv` joins `RowBeforeMessage`, `HeldRetryable` and
`LinksValid` with what they rest on: a child not yet sent is untouched
(`KidsFresh`), an unused id has no row and no message (`UnissuedClean`), what a
purge is about to delete is over (`ExpiredOver`), a held parent exists
(`HeldThere`). All steps of a worker are one case, `Touches`: they change one
row, their own, and not while a sweep holds it. `LiveTasksSpared` adds
`BeatsCover`: the age of the heartbeat of a running body is at most one period
(throttle plus one call) for each lost write, plus what has passed of the current one.
`HeartbeatAssumption` is the exact form of the documentation's "keep any
threshold well above 30 seconds". `StartedSpared` proves `FailSparesStarted`, which is about bodies whose start is on record, under
`NoTwinResent`: no task calls `retry` while a second copy of it is running. Such a
copy needs a worker that crashed or was cut off, so that the broker delivered again, and
every exception needs one: with two workers and without the condition, the retry of one
copy sets the row back to pending under the other, and `_fail_unsent` then
marks the running task failed. With one worker the condition always holds
(`StartedSparedAlone`). A body whose start signal was not written is left out by the property: its row is
still pending and is marked failed, with one worker too. `StartedSeen`, that the row of a started body is past pending,
is the invariant; it needs `Inv` to know that a commit and a publish write pending
only on ids no worker can have. `SweptOnceApart` delimits the finding of `task_sweeps`:
`SweptOnce` holds for any number of sweeps under `SweepsApart`, that no sweep commits while
rows it holds are in a snapshot that another has read and not yet locked.

**Leases.** `IInv` has five parts for each handle: which
variables a phase leaves empty (`PhaseOf`), that what an UPDATE matched is at most one row, the
handle's or over at the time read, and stays so (`ClaimOf`), that the number to be written is
the next fence while the counter is locked (`NumberOf`), that what a handle
counts on is backed by a row of its token that ends no earlier (`BeliefOf`), and
that a live row of its token is the only one its call is about (`OwnOf`). `StillHeld`, `OneSlot` and `NotDenied` follow;
`LeaseKeepsTtl` adds that a prompt call holds the time it read while time
stands still for it, and `NoOtherDeadlock` that acquires lock the slots in order.
`Implements` maps a commit to `Acquire`, `Extend` or `Release` of the abstract
lease; that there is room for one more holder is counting: two tokens never live
in the same row. `FullTtl`, which `LeaseKeepsTtl` proves, is about plain leases and checked by no run.

**Uploads.** `IInv` relates the four places a key is in: what row, upload and
object a request at a given step may rely on (`KeyInv`, `ReqInv`, `OwnInv`), which
session rows are locked by whom (`LockInv`), that a plain upload is younger than
`MaxTx` (`AgeInv`), that admissions take turns and the first SELECT of one misses
no file but an uncounted one (`TurnInv`), and what each reaper still believes
(`SweepInv`). Together they say why a sweep that straddles a commit spares the
object: the grace outlives the transaction, so the row or the session it missed
was there when it looked; what has no such bound is `lost`. `QuotaInv` counts the admission in progress along with
what is stored and reserved, over a count that spans two statements: what moves from reserved
to stored between them is `uncounted`, and whoever starts an admission shuts the others out. `BytesKept`,
`QuotaKept` and `NoFileAfterAbort` follow.

**Tenant membership.** `IInv` says who holds the tenant row (`LockInv`), that a
demotion or departure in progress still has another owner beside it and a purge
that locked the tenant knows whether it has (`HoldInv`, `OwnerInv`), that an
invitation a request acts on is still as it was read (`InviteInv`, `MemberInv`),
and that members, pending invitations and the seat about to be taken fit
(`SeatInv`). `OwnerKept` and `JoinsByOpenInvite` are then one case per commit. `PurgedStayOut` is the safety
that `DeletedLeave` rests on, however often a delivery fails and its message is retried: under `NoLateAccept`, that no accept of the account is open when the purge
deletes, a purged account is in no tenant and never comes back. Its invariant,
`LeaveInv`, follows the account from the DELETE to the commit and after: an accept
asks for a live account, so nobody begins to arrive any more.

**Transactions and caches.** `Kept` is the invariant of one session: the marks are
exactly the levels that hold writes, the callbacks exactly the writes that are
live or durable (`Tracked`), and the savepoints that can undo a write are those
open at its level or below, whatever was released meanwhile (`Nested`).
`CacheCoherence` adds that an old value on its way back into a cache or a
state, read by a fill that nobody has raced (`ReadInv`) or by a reload
(`LoadInv`), belongs to a worker that has yet to apply the latest commit, and that the callback of that commit
has applied it before the response leaves (`RunInv`).

**Lockout.** `PeriodInv`: each guess of the observed period is still in the
count, or a lock that was written since outlasts the period; and the last
counted guess is too recent for the window to start anew. This is where
`LockoutConstants` is needed, and why it is exact.

**Renewal.** `IInv` has three arguments. The lease (`Leased`): what is left of it and
what the phases of its holder have spent add up to the TTL at least, so that, if it did not
come late, it outlives the publication and no second such request is under it (`RenewalsExclude`, of
those just granted the lease and those that renew under one in time). A
logout that waits counts along with the request it waits for (`SignedOut`), which
is why it deletes only after that request is out. The outcomes (`SpentInv`): the outcome of each spent token is lost, to be
read, with the request that spent it, or its renewal was late; a request about to spend a token looked for
its outcome under the lease and found none. The cookies
(`CookieInv`): what a response or an outcome carries was issued, and since the authority ran out last one new
cookie was; any other was sent back by a failed renewal or with a navigation turned away. `TypeCorrect` adds to the types that every phase
under the lease keeps its timeout and that no cookie names a token not issued (`Bounded`).

| Module | Theorems |
|---|---|
| `OutboxProofs` | `TypeCorrect`, `EffectsExactlyOnce`, `EventsWithEffects`, `BudgetRespected`, `ClaimsToldApart`, `HolderAlone`, `NeverOverlaps`, `Implements` |
| `TaskExecutionsProofs` | `TypeCorrect`, `RowsFirst`, `HeldAreRetryable`, `LinksStayValid`, `LiveTasksSpared`, `StartedSpared`, `StartedSparedAlone`, `SweptOnceApart` |
| `DbLeaseProofs` | `TypeCorrect`, `HoldsLast`, `OneSlotEach`, `NeverDenied`, `LeaseKeepsTtl`, `NoOtherDeadlock`, `Implements` |
| `FileUploadsProofs` | `TypeCorrect`, `FilesKeepBytes`, `QuotaNeverExceeded`, `AbortsAreFinal` |
| `TenantMembershipProofs` | `TypeCorrect`, `SeatsNeverExceeded`, `OwnerNeverLost`, `LinksWorkOnce`, `PurgedStayOut` |
| `CacheCoherenceProofs` | `TypeCorrect`, `CallbacksFollowWrites`, `StaleNeverReturns`, `OwnReadsFresh` |
| `LoginLockoutProofs` | `TypeCorrect`, `GuessesNeverExceeded` |
| `RenewalOutcomesProofs` | `TypeCorrect`, `RenewalsExclude`, `TokensSpentOnce`, `WinnerKept`, `LogoutIsFinal` |

**Only model-checked**: `Settles`, `OrphansFound`, `StoreDrains`, `DeletedLeave`,
`Answered`, `Converges` and `AlwaysReopens` (liveness under fairness is beyond the prover),
`FailSparesStarted` where `NoTwinResent` fails (it may be false there), and the three violations.

## 6. Findings

- `task_sweeps`: two bulk sweeps can retry one parent twice. Under READ
  COMMITTED a SELECT whose snapshot is older than the other sweep's commit, and
  which reaches the row after it, neither skips the row nor re-checks it: the
  row was locked, not updated.
- `task_late_retry`: `task_retry` is signalled after the retry was published; if
  another worker finishes first, `retrying` overwrites `success` for good.
- `renewal_waiters`: `docs/modules/auth.md:150` and the comment at `renewal_outcomes.py:131` say that a
  waiter that gives up leaves its cookie untouched. `coordinated_refresh` does, but the `None` it returns has
  `AuthMiddleware` write `session[SESSION_NEXT_KEY]` for a navigation (`auth/web/middleware.py:168`), so that the redirect to sign
  in carries the spent refresh token, and it may land after the response of the winner. `CookieKept`
  says what remains: only failed renewals and such navigations undo a cookie.

### What the code does against its documents

Met while modelling, read off the code and not shown by a run of their own.

- Eager mode: `docs/modules/background_tasks.md:440` says nothing sweeps; the web
  process does (`background_tasks/core/_lifecycle.py:105`).
- `docs/framework/leases.md:53` says a lock wait never shortens a TTL. That holds for
  the slot row (`LeaseKeepsTtl`), not for the counter row of a semaphore, which
  is locked after the expiry was computed (`db/leases.py:178`).
- `docs/modules/file_storage.md:159`: "Retrying a completed session returns the same
  file". The UPDATE of `reap_stale_uploads` (`file_storage/tasks.py:91`) waits for the lock of a completion and then overwrites
  its status with aborted, so that the retry is refused. The file stays (`BytesKept`).
- `renewal_outcomes.py:28` keeps "work + publish" inside the lease TTL and lines 155-157 have the publication end
  before the lease does, as does `docs/modules/auth.md:139-141`. An acquire may report a lease up to 3 seconds after it
  was granted, also with `blocking=False` (`leases.py:222-229`), and 3 + 12 + 2 > 15: for a lease that came late
  it does not hold, and the token may be spent twice (`slow` in `SpentOnce`).
- The comment at `executions/retry_service.py:215-218` takes a send that raised for one that never arrived
  ("the `pending` row exists but no task does"). A message that did arrive may be in a worker whose start signal was
  not written: its row is pending too, and is marked failed while the task runs.

### What the models let pass because the code does

- A user promoted to owner between the snapshot of the purge and its DELETE is
  removed without the tenant lock, and may have been the last (`tenants/core/user_cleanup.py:22`): `blind` in `OwnerKept`.
- An accept under way can insert a membership of an account that was purged
  meanwhile (`user_cleanup.py`): `Arriving` in `DeletedLeave`.
- An invitation that expires between `lookup` and the join gives its seat away
  and is accepted all the same (`invitations/service.py:149`): `late` in `SeatsKept`.
- A completion that passed its deadline check records its file after its
  reservation ended, or commits between the two SELECTs of an admission (`multipart/guards.py:79-90`), which then counts it
  in neither sum: `uncounted` in `QuotaKept`.
- A COMMIT still in flight when `_compensate` looks for its row (`core/worker.py:88-109`) lands after the
  object was dropped, and a completion may commit later than the grace of the object reaper: `lost` in `BytesKept`.
- A clean-up whose message is dead leaves the deleted account in its tenants until somebody retries it: `DeletedLeave`.
- A body whose start signal was not written, or whose second copy has retried, has its row marked failed by
  `_fail_unsent`: left out of `FailSparesStarted` and by the condition of `StartedSpared`.
- When the lease cannot be reached, a logout deletes the outcomes at once and a renewal in flight publishes after it
  (`renewal_outcomes.py:104-110`); so does a publication cut off by its timeout whose COMMIT lands later, and a renewal
  that got its lease after the logout had begun and given up waiting: `LogoutSticks` is about the renewals under way
  before, and logouts that got the lease or waited a TTL.
- A request that fails after an inner commit drops the callbacks of what is
  already durable (`GiveUp` after `WriteThrough`): only TTL or timer end the staleness.
- The purge of a deleted user forgets cached memberships on its own worker
  only (`user_cleanup.py:38`), others wait for their TTL.
- A process that dies between the commit of a retry and its publish leaves the
  row pending; the documentation accepts at-most-once here (`executions/after_commit.py:117`).

## 7. Not modelled

- Administrator guards (`users/admin/safety.py`, `core/setup_action.py`): planned. The
  guard's early return reads the roles of the user before the lock is taken, which is what a
  model would be about.
- Lease backends other than the database on PostgreSQL; a token shared by several
  handles, of which two calls at once could take two slots; SQLite everywhere, where one transaction writes at a time.
- A signal that reads and writes its row in two steps: two processes that see an unknown task at
  once could both insert, since `celery_task_id` is indexed but not unique
  (`worker/_signal_support.py:62`); the model takes a row as unique per task.
- Start-up, the setup wizard and migrations; the bounded queue of the log sinks.
- Everything sequential or pure I/O: the command line, Inertia, rendering,
  discovery, diagnostics, text, mail, pages; and the rewriting of SQLAlchemy
  statements for tenancy and audit, whose properties are about syntax trees.
