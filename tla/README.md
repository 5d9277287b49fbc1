# Verification of tempest-fastapi-sdk

TLA+ specifications of the parts of the SDK that keep state across processes,
crashes and retries (the job store, the webhook inbox, the outbox relay, the
queue consumer's middlewares, the scheduler lease, the wallet, the sessions),
and of those whose concurrency is that of one event loop (the idempotency
middleware, the batch scheduler, server-sent events). TLC checks each on small
instances; TLAPS proves every safety property that is checked, for every
instance.

Paths are under `src/tempest_fastapi_sdk/`. `PROJECT.json` maps each
definition to the lines it models and lists the runs, mutants, findings,
hazards and theorems.

## 1. Inventory

The SDK is a library: a service assembles its parts. Most packages are thin
(query building, clients of remote APIs, rendering, CLI scaffolding). The ones
below hold protocols.

| Part | State | Operations | Who else touches the state | What must hold |
|---|---|---|---|---|
| `JobStore` (`tasks/jobs.py`) | one row per job: status, attempts, progress, payload, result, `started_at`, `updated_at` | `enqueue`, `claim`, `report_progress`, `succeed`, `fail`, `cancel`, `reclaim_stale`, `redispatch_queued` | callers, workers (some superseded), periodic sweeps; the task queue carries ids | one outcome, final; bounded attempts; progress monotone; no row stranded |
| `WebhookInbox` (`db/webhook_inbox.py`) | one row per (provider, external id): status, attempts, `available_at`, `started_at` | `record`, `claim`, `process`, `fail`, `reclaim_stale`, `drain_once` | provider redeliveries, concurrent drains | effect applied once; closed stays closed; bounded attempts; every event closed |
| `OutboxRelay` (`db/outbox.py`), `save_with_outbox` (`db/repository.py`) | business row and event row: status, attempts, `available_at` | write, `drain_once`, `_mark_failure`, `run` | several relays, the broker | nothing lost, nothing invented, duplicates only as documented |
| Consumer middlewares (`queue/dedup.py`, `queue/reliability.py`), replay (`queue/broker.py`) | dedup marks, x-death counts, place of each message | claim / complete / release, sink, reject, replay | replicas, broker redeliveries, TTLs | one handler per id at a time; nothing lost; retries end |
| `IdempotencyMiddleware` (`api/middlewares/idempotency.py`) | lock table, stored responses | lookup, replay, run, store | concurrent requests of one process | replays only the same request; no leak; no stuck request |
| Scheduler lease (`tasks/lock.py`, `TaskQueue._run_scheduler_under_lease`) | Redis key with TTL, supervisor task | acquire, renew, release, stop, take over | replicas | one loop at a time; somebody schedules |
| Wallet (`wallet/ledger.py`, `wallet/service.py`, `integrations/payment/adapters/openpix.py`) | balance row, ledger lines, the claim column of an order | `credit`, `debit_available`, `reverse`, `claim_once`, `withdraw` | concurrent transactions, the payout provider | balance is the sum of its statement, never negative; an order credited once; held money kept; a payout stays debited |
| Sessions (`sessions/store.py`, `sessions/service.py`) | a Redis key per session, a set per user, their TTLs | `login`, `resolve`, `revoke`, `revoke_all`, `list_sessions`, `revoke_by_public_id` | requests of all replicas, Redis' expiry | revoked stays revoked; revoking all reaches all |
| `BatchScheduler` (`genai/batching.py`) | queue of (item, future), worker task | `submit`, the worker, `aclose` | callers, the handler, cancellations | each caller its own result; every future settled |
| `EventStream` and `SSEBroker` (`sse/`) | a bounded queue and a drop counter per client, streams by channel | register, `publish`, `broadcast`, `close`, read, unregister | client tasks, fan-outs | bound kept; nothing lost uncounted; close seen; fan-outs end |
| `WebSocketHub` (`websockets/hub.py`) | connections, indexes by user and topic | register, subscribe, fan-out, evict | tasks of one process | indexes agree; nobody evicted is addressed |

**Interactions.** A request handler writes rows and an outbox event in one
transaction; the relay publishes it; the broker delivers it, perhaps twice, to
a consumer under the dedup and dead-letter middlewares; the consumer may
enqueue a job whose id goes through the task queue to a worker; the sweeps that
rescue jobs and webhook events are themselves periodic tasks, run by whichever
replica holds the scheduler lease. So the liveness of jobs and inbox rests on
the lease, which is why liveness is asked of it. A payment webhook settles an
order into the wallet, by `claim_once` and `credit` in one transaction.

**What is hard.** No component fences a superseded actor: a worker whose row
was reclaimed runs on, and only the conditions of the UPDATEs stop it from
doing harm. Transactions are short and several belong to one operation. Redis
and the broker are left between two awaits. asyncio tasks can be cancelled at
every await. Retries are counted in three different places (a column, the
broker's `x-death`, a Redis TTL). An index and what it indexes expire apart. A
statement that waits for a row lock sees the new row and an old snapshot of
every other table.

Everything else (`components` with status `not_modelled`) is a pure decision,
a rendering, an adapter to a remote service, or a thin layer over a repository.

## 2. Modules

| Module | Models | Abstracts |
|---|---|---|
| `Jobs` | `JobStore` with callers, task queue, workers, sweepers | times are ages that saturate past their cutoff; results are the attempt that produced them; `kind`, `params`, `stage`, `error` are read by no guard |
| `JobLifecycle` | the promise of `JobStore`: submitted, started a bounded number of times, closed once | |
| `WebhookInbox` | the inbox and its workers | payloads; `AtomicFail` distinguishes SQLite from PostgreSQL |
| `Outbox` | writer, relays, broker | order inside a batch |
| `QueueConsumer` | both dedup stores, dead-letter middleware, copies on a retry chain (`Retried`) or with a dead-letter queue, replay | TTLs become `LongTTL` (documented use) or arbitrary expiry |
| `Idempotency` | the middleware with `asyncio.Lock` spelled out | one cache key; a response is its fingerprint |
| `SchedulerLease` | the supervisors of all replicas and the Redis key, in discrete time | what the loop schedules |
| `Wallet` | one wallet: its balance and statement, settlement of orders, withdrawals with their provider, on both databases (`engine`) | descriptions; a settlement holds the order's row from its claim to its commit; every other move is one step, at its commit |
| `Sessions` | the sessions of one user under `SessionAuth`, one step per Redis command | lifetimes are what is left of them; client data of a session |
| `BatchScheduler` | the worker from one await to the next, callers, `aclose`, cancellations | items and results are the call they belong to; whether `max_wait` has passed is a choice |
| `SSE` | one worker's streams, clients and fan-outs, under each overflow policy | payloads; heartbeats; frames |
| `MC*` | constants and symmetry for TLC | |
| `*Proofs` | inductive invariants and proofs | |

`EventProofs` is about `WebhookInbox` and `SSE`, `LockProofs` about
`Idempotency` and `SchedulerLease`; each EXTENDS its two components, which is why
the names in `SSE` and `SchedulerLease` that every module has carry a prefix
(`StreamSpec`, `LeaseTypeOK`, ...). The other proof modules have the name of
their component.

Every module splits an operation exactly where the code lets another actor in:
between two transactions, between two awaits that may suspend, between two
Redis round trips. An await that cannot suspend (a `get` on a queue that holds
something, a `put` on an unbounded one, a free lock) is no such place. A transaction of conditional UPDATEs is one step, except
`WebhookInbox.fail`: its first UPDATE locks nothing when it matches no row, so
on PostgreSQL (READ COMMITTED) it is two; on SQLite that UPDATE already holds
the write lock and `MayWrite` keeps other writers out.

Definitions marked `\* mutant` are plausible slips of the line under them (a
dropped guard, `>` for `>=`, a missing reset). Each checked property is violated
when the matching slip replaces the real definition.

Modelling decisions worth knowing:

- *Jobs.* `claim` does not read `max_attempts`, hence `Budget(j) = max(1,
  max_attempts)`. `Finish` does not name the attempt, as in the code: a late
  worker may close a row its successor is running. `told` records which callers
  were told they closed a row; the code keeps it in no variable, the callers do.
- *WebhookInbox.* The handler's writes are the counter `applied`, committed with
  the mark and rolled back by `_AlreadyFinishedError`. Handlers whose effects
  leave the database are outside what the code promises.
- *Outbox.* `redeliverable` counts the two causes of an extra copy the docs
  admit: an interrupted drain, a lost confirmation. On SQLite, which has no
  `SKIP LOCKED`, the relay is documented for one worker, i.e. one relay.
- *QueueConsumer.* The dead-letter middleware is outside the dedup one. Messages
  without an id bypass deduplication and are not modelled. `Crash` also stands
  for a cancelled delivery: `except Exception` does not catch `CancelledError`,
  so the mark stays in flight. A copy cancelled by a failed publish of
  `replay_dead_letters` goes back to where it was (`_requeue`), no change. Redis
  may be away before a command (`StoreFails`) or after it (`ReplyLost`): either
  way the delivery fails, and only the second moves the mark.
- *Idempotency.* `async with` on a free `asyncio.Lock` does not suspend, so
  leaving the lock and `_release_lock` are one step. A woken waiter stays in the
  lock's queue, with the lock unlocked, until the loop runs it.
- *SchedulerLease.* A poll may be late by `MaxStall`; the clock does not pass a
  deadline. An `acquire` that raises may have set the key, which then waits for
  its TTL. `RenewRaises` covers an `extend` that took effect and one that did
  not, and a `release` that worked and one that was swallowed.
- *Wallet.* `Withdraw` is the moment `debit_available` reads the clock and, on
  PostgreSQL, takes its snapshot; `Debit` the moment it has the row. Between the
  two the balance may move. On SQLite the whole statement runs at `Debit`, hence
  `Floor`. On PostgreSQL a row that fails the WHERE in the snapshot is not
  waited for, so `Withdraw` has that guard; an amount above the balance is then
  refused with nothing to see. `withdraw` without an amount asks for what it
  read earlier, i.e. for any amount. The provider sends once per correlation id
  (its promise, and the reason the adapter refuses a transport that retries);
  two withdrawals may be given the same id.
- *Sessions.* Redis and the services read one clock. A key goes with its
  session's `expires_at`, except when a refresh is so late that `_ttl_seconds`
  clamps to 1: `expired` holds those keys until the next unit. `list_by_user` is
  its SMEMBERS (`List`), a GET per member (`GetMember`), the SREM (`Prune`).
  `excused` records why an entry of the user index may be missing, each time by
  the step that loses it; `RevokeAllReaches` is asked of the others.
- *BatchScheduler.* A cancellation is asked for (`cancel = "asked"`), delivered
  at the worker's next turn, and may be swallowed by the handler (`"taken"`,
  where `task.cancelling()` still counts it). A worker cancelled before its first
  step never runs its body: its callers are `orphans`.
- *SSE.* A set is iterated in an order nobody chose, so a fan-out serves any part
  of the streams before it suspends. `Start` is the server's first step of a
  response; a client may be gone before it.

## 3. Runs

One passing run per component, with distinct states:

| Run | States | Shows |
|---|---|---|
| `jobs` | 32 376 | budget, one outcome, refinement of `JobLifecycle`; every enqueued row is closed |
| `inbox` | 7 570 | SQLite: effect once, claims within budget; every event is closed |
| `outbox` | 154 481 | no loss, no phantom, duplicates explained; every event ends SENT or FAILED |
| `consumer` | 1 018 080 | Redis, retry chain, dead-letter queue and replay: one handler per id, repeats explained, no mark left by a failure, nothing lost |
| `idempotency` | 71 817 | no leaked lock, the handler runs once unless a response was not stored; a waiting request is answered |
| `lease` | 30 852 | a leader owns the key for a TTL after its last renewal; a supervisor that still polls takes over |
| `wallet` | 442 799 | the balance never negative and the sum of its statement, an order credited once, a payout never given back; on SQLite no debit reaches held money |
| `sessions` | 806 448 | a refresh in flight never revives a revoked session; `revoke_all` reaches every session whose index entry was not lost by a named cause |
| `batching` | 23 271 | each caller its own result, once; nobody pending without a worker; every submit and `aclose` end |
| `sse` | 95 544 | the bound, but for one event per evicted close sentinel; every event accounted for; a close ends the stream of a client that stays, a fan-out ends |

Runs that show the code doing other than what its documentation says
(`findings` quotes each line):

| Run | Property | In short |
|---|---|---|
| `consumer_runs` | `RunsWithinBudget` | nothing routes an exhausted message to the dead queue |
| `wallet_hold` | `HoldNeverDrained` | PostgreSQL: a debit that waited for the balance row compares the new balance with the held credits of its old snapshot; a credit with a hold that commits in between is paid out |

The other divergences met have no run of their own. A checked property says
exactly under which condition the code keeps the promise, and the models take the
steps that break it without the condition:

- *Inbox, PostgreSQL.* The second UPDATE of `fail` (`db/webhook_inbox.py:557`)
  lacks `attempts < max_attempts`. Its first, matching nothing, locks nothing: a
  reclaim and a claim slip in between, and an event whose budget is spent is
  readmitted, against "process each at most to its budget" (:295).
  `WithinBudget` is checked and proved where `AtomicFail`.
- *Idempotency.* `_release_lock` drops the table entry while a woken waiter has
  yet to take the lock (`api/middlewares/idempotency.py:503`); when the response
  was not stored, a new arrival makes a second lock and runs the handler beside
  the waiter, against the docstring of `_lock_for`. Hence `~unstored` in
  `HandlerRunsOnce`.
- *Lease.* A renewal that raises frees the key inside `renew`
  (`tasks/lock.py:298`) before the supervisor stops its loop, so two loops
  overlap for that time; `LoopHoldsLease` speaks of "leader", not of
  "standing_down". An `acquire` that raises ends the supervisor for good
  (`tasks/queue.py:1678`); `PollerTakesOver` asks for one that still polls.
- *Consumer.* A reject of a delivery that only met another one in flight counts
  in `x-death`, though `queue/reliability.py:348` says it "does **not** consume
  the budget"; and past the budget the sink is called on every delivery, not
  "**once**" (:343). Both are visible in `Report`.
- *Jobs.* Two overlapping `redispatch_queued` sweeps that select before either
  touches `updated_at` send a row twice within `older_than`, where
  `tasks/jobs.py:1099` says at most once; harmless, `claim` refuses the second.
- *Sessions.* `touch` gives the index what is left of one session, which may be
  less than another has (`set`'s notes, `sessions/store.py:320`, say the index
  tracks the longest-lived session); the index may also expire between a SADD and
  its EXPIRE, a login's SADD may fall between the SMEMBERS and the last DEL of a
  `revoke_all`, and a call may die half-way; and `list_by_user` drops the entry
  of a session whose key outlives its `expires_at`, leaving the key
  (`sessions/store.py:437`), while a refresh that read the session earlier still
  writes it. Then `revoke_all` misses a session that lives. These are `excused`.
- *Batching.* "no `submit` is left awaiting forever" (`genai/batching.py:154`)
  fails for the callers of a worker cancelled before its first step: `orphans`.
  `aclose` waits for the whole queue, not only "the current batch" (:236).
- *SSE.* After `close`, under `drop_oldest`, a later event on a full queue evicts
  the close sentinel, against "keeps the close sentinel from ever being blocked
  or evicted" (`sse/event_stream.py:212`): the stream stays open, and
  `dropped_events` counts one event too many. These are `unseated`. Nor does
  `close` evict an event to make room for its sentinel, as :165 and :243 say: it
  puts it past the bound. So once the sentinel was evicted one event more than
  `max_queue`, "Maximum number of buffered events" (:175), is buffered. Under
  `block`, `close` itself waits for a slot, and a fan-out to a stream whose
  client has left waits for ever, with every stream behind it; a response that
  never starts is never unregistered.

**Bounds.** Two workers (three for the inbox) are the superseded one, its
successor and, where a third party matters, one more. A budget of two attempts
has a first, a last and a forbidden third; a budget of 0, which `claim` does not
look at, is covered by the theorem `JobsBudget`. With one row a sweep's batch is
that row: a send that raises in the middle of a longer batch is not in the run. Cutoffs of one unit tell "not
yet", "at" and "past" apart, and ages saturate there, so they lose nothing. Two
consumers give every overlap of a key; of the three copies one is on a retry
chain, one on a queue with a dead-letter queue, and the third is a publisher's
second copy or what a replay publishes. `MaxDeaths`, `MaxFaults`,
`MaxInterrupts`, `MaxClaims`, `MaxMessages`, `MaxStops`, `RenewErrors` and
`AcquireErrors` bound counters; except `MaxClaims` and `MaxMessages`, which only
limit the size of the instance, they are numbers of failures, and the proofs
hold for any value of all of them. So do `MaxCrashes` and `MaxCancels`;
`MaxEntries`, `MaxTime`, `MaxEvents` and `MaxCloses` limit the instance. In the run `lease`, `TTL = 3` and `MaxStall =
2` let a poll come after the lease is lost. The wallet has an order released at
once and one on hold for the whole clock, and amounts that do and do not reach
the held part; five ledger lines hold two settlements and two withdrawals, one
of them given back, or a reversal in the place of any of these. Two sessions
suffice for one index entry to outlive or to shorten the other, two requests for
every overlap of two calls. Three submits over batches of two have a full batch,
a waiting one and an item behind it; the second cancellation is the one that
meets a worker which swallowed the first. A stream queue of one is the smallest
that can overflow; two streams let one hold up the other.

What the instances leave out the theorems cover: the memory store and marks that
expire at any time (`NeverLost`, `NoOrphanMark`), PostgreSQL (`EffectOnce`,
`ClosedForGood`), several rows (everything proved of `Jobs`), and any number of
callers, sessions and submits.

`CHECK_DEADLOCK FALSE` is set where the instance really ends: all requests
answered, all events settled, all messages gone or past `MaxDeaths`, the
statement full, all ids used, all calls made.

Three safety runs use symmetry: `consumer` of its consumers and of the copies
that are not on the retry chain, `wallet` (and `wallet_hold`) of callers and
correlation ids, `sessions` of ids and requests.

## 4. Fairness

- `Jobs`: weak fairness of the clock, of `reclaim_stale` and of each sweep's
  select and touch (they are scheduled periodically), of the end of an attempt
  (it returns, raises or its process dies). Strong fairness of a sweep's send and of a
  claim: a broker may lose any message but not every one. No fairness of the
  caller's own dispatch, of progress or of cancel.
- `WebhookInbox`: `drain_once` is called for ever. Strong fairness, because on
  SQLite the write lock makes each step wait for others.
- `Outbox`: `run` loops; a publish returns or raises. Interruptions are finitely
  many: a relay killed on each drain publishes for ever and settles nothing, as
  does the code.
- `Idempotency`: the event loop runs what is ready, handlers return. Requests
  need not arrive or fail.
- `SchedulerLease`: time passes and supervisors are scheduled. Nobody need be
  restarted.
- `BatchScheduler`: the event loop runs what is ready, `max_wait` passes, the
  handler ends. Nobody need submit, close or cancel.
- `SSE`: a response starts or its client left first, a connected client is sent
  what is queued, a fan-out goes on when it has its slot. No client need leave.
- `Wallet`, `Sessions`: none; everything asked of them is safety.

## 5. Proofs

All proofs are checked by TLAPS (Z3, Zenon, LS4) from the `ASSUME` of each
module, which only says what the constants are: numbers are numbers, the value
that stands for "none" is no member of what it is absent from, and the actors
of which a proof counts some (`Consumers`, `Withdrawers`, `Emitters`) are
finitely many, as connections, tasks and processes are. Every invariant and
the refinement a passing run checks is a theorem.

Every component has its type invariant proved. Where TypeOK says more than the
sort of a variable, that is the point of it: a balance is a natural number
(`NeverOverdrawn`), a stream's queue is within its bound but for one event
per evicted close sentinel (`StreamTyped`), a lease
never exceeds one TTL (`LeaseTyped`), a backoff is computed from an exponent
that is never negative (`InboxTyped`, `OutboxTyped`; that `2^n` is a natural
number is had from the library's count of the subsets of `1..n`).

- `JobsProofs`. `AttemptsWithinBudget` is not inductive: it needs
  `QueuedHasBudget`, that a row which can be claimed has attempts left, which
  `reclaim_stale` restores because its requeue asks `attempts < max_attempts`.
  `BusyHoldsAttempt` says a worker's row exists. With them `IInv` (types,
  budget, distinct attempts, one outcome, result) is inductive; finality
  (`TerminalIsFinal`), `ProgressNeverGoesBack` and the refinement of
  `JobLifecycle` follow step by step.
- `EventProofs`, the inbox. `EffectOnce` and `FailedMeansSpent` are inductive
  with the types; `ClosedForGood` follows. `WithinBudget` is proved under
  `AtomicFail`, from `BudgetLeft` (a claimable event is unspent) and
  `ReadmitsUnspent` (a `fail` between its UPDATEs still sees the row it found
  unspent, and is alone). The second is what PostgreSQL does not give.
- `EventProofs`, the streams. `EveryEventAccounted` equates what was offered to a
  stream with what was sent plus `Balance`: what is queued, dropped, owed by
  waiting fan-outs, less the sentinels `dropped_events` counted. Two lemmas say
  what an append and a read do to the number of events of a queue; `PutOnAccounts`
  does the four ways `_put` ends, for a whole set of streams; `RunKeeps` the
  stretch of a fan-out to its next suspension, for any order of the set. It is
  inductive with the types, `SentinelsCounted` (an evicted sentinel was counted
  as dropped, so a cancelled fan-out takes back no more than it offered) and
  `WaitsWithItem`.
- `OutboxProofs`. `DuplicatesAreExplained` needs `DisjointDrains` (SKIP LOCKED)
  and `HeldPending` (a locked row is PENDING and in one part of one batch);
  `NoLostNoPhantom` follows with `Uncommitted`. From `HeldPending` too: an event is
  FAILED exactly when its budget is used up (`GivesUpOnBudget`), and no step
  touches or publishes a settled one (`SettledForGood`).
- `QueueConsumerProofs`. `MarkGuards`: under `LongTTL` whoever works on an id
  has its mark in flight and is alone. For `NeverLost`, `AcksSettled` (a done
  mark or a pending ack means the id took effect or was skipped) and `KeyAlive`
  (a published id is settled or has a copy no ack is due on). `NoOrphanMark` is
  inductive on its own. These two need no assumption on store, topology or TTL.
  `RepeatsAreExplained` needs `OneUnmarked`: of the effects of an id one is
  always not owed to a lost mark, because its mark is written, or about to be,
  or nothing is left to deliver; and `HeldOnce`, that a delivered copy is with
  one consumer.
- `LockProofs`, the idempotency middleware. `NoLockLeak` follows from
  `LocksMade` (the lock in the table was made by a request that arrived, and is
  held) and `HeldInside` (a held lock is held by a request that will leave it).
  `HandlerRunsOnce` is two invariants, before the first response is stored and
  after: `BeforeStored` (there is one lock, and one request went past it) and
  `OnceStored` (no handler runs, and none is started).
  Both only while every response is stored, `~unstored`: see the divergence.
  Without that condition `OnePerLock` still holds: a released lock stays unlocked
  until the waiter it woke runs, and what keeps everybody else out is that the
  woken waiter is first in a queue that is not empty (`WokenIsFirst`).
- `LockProofs`, the lease. `LeaderInTime` makes `LoopHoldsLease` inductive: what
  is left of the key's TTL is exactly the TTL less the time since its leader
  last renewed, because `extend` replaces the TTL instead of adding to it. When
  no poll is later than the rest of the TTL (`Poll + MaxStall < TTL`, with a poll
  every third of it), at most one replica believes it leads: `LeaseOneLeader`.
  A replica that is standing down may still run its loop: see the divergence
  above.
- `WalletProofs`. `StatementAddsUp` is inductive with the shape of a line.
  `SettledOnce` needs that a claimant of an order excludes its credit: the row
  lock from `claim_once` to the commit. Both hold on both databases. What rests
  on a sum over the ledger is a fold over a set, a recursive function whose
  existence is proved first (`SummingExists`), then that any line may be counted
  first (`TotalRemove`): both by the smallest set for which it would not hold,
  since induction itself is out of the provers' reach. Then
  `HoldKeptBySerialWriters` is inductive with `ReadBefore` (the clock a debit
  read is not ahead) and `ReversalsTake`; `PaidIsDebited` with what withdrawals
  under way may still be paid or given back (`Owed`), which is the part of the
  debits nobody else may use.
- `SessionsProofs`. `RevokedStaysRevoked` alone is not inductive: a login's SET
  writes a key without looking. `Fresh` says that the id it writes can be named
  by no other call, index or history until then, which is what random, never
  reused ids (`Drawn`) give; every other write is `SET ... XX`.
  `RevokeAllReaches` rests on three facts about the entries no named cause
  lost: a session somebody has a cookie for is in the index or has ended
  (`Listed`), the index outlives its members but for one whose EXPIRE is to come
  (`InTime`), and what a `revoke_all` or a listing has read still holds
  (`ReadIn`).
- `BatchSchedulerProofs`. `NoStrandedCaller` and `OwnResult` need that queue and
  batch hold each call at most once and not both (`Apart`), and that what is
  queued was never handed to the handler (`Unhanded`).

Only model-checked: liveness, which is out of the prover's reach
(`EveryJobIsClosed`, `EveryEventIsClosed`, `EveryEventSettles`,
`EveryRequestAnswered`, `PollerTakesOver`, `EveryCallEnds`, `CloseAndEmitEnd`), and
the two violations of section 3, which are counterexamples. `WithinBudget` is
proved, as it is checked, under `AtomicFail`.

## 6. Not modelled

- The other packages, with the reason, in `PROJECT.json`.
- Inside the modelled ones: `JobStore.watch` and reads, `QueueMetrics`, the
  header checks and serialisation of the idempotency middleware, what a
  scheduler loop dispatches and a loop task that ends by itself,
  `MemorySessionStore` (one lock around each call) and the deprecated fallback
  for stores without `touch`, heartbeats and the checks on a Redis envelope.
- `GracefulShutdownMiddleware`: the draining test and the increment of the
  in-flight count are one step of the event loop, and so are the decrement and
  the idle event; nothing interleaves.
- PostgreSQL above READ COMMITTED, and payout providers other than OpenPix.
- Several replicas behind one idempotency store: the code says two simultaneous
  requests on two replicas may both execute.
- Clock skew between replicas: all ages are of one clock.

## 7. Plan

Done, in this order: jobs and its lifecycle, inbox, outbox, consumer,
idempotency, lease, wallet, sessions, batch scheduler, server-sent events, each
with the proofs of its safety properties.

Next, most important first:

1. Composition: `Outbox` with `QueueConsumer`, implementing an abstract channel
   that delivers each committed event's effect at least once, and once when no
   failure falls in the windows both modules name.
2. `WebSocketHub` (indexes agree under eviction), and `MemorySessionStore` as a
   refinement of the sessions `Sessions` promises.
3. Rate limit and quota windows, response cache with invalidation,
   refresh-token rotation, pruning of dead web-push subscriptions.
4. The scheduler loop under the lease, for the hazard at `tasks/queue.py:1681`.
5. Proofs: PostgreSQL's `WithinBudget` with the number of interleaved reclaims
   in it; an abstract ledger that `Wallet` implements.
