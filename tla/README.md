# TLA+ models of FraiseQL

FraiseQL is a Python framework that serves GraphQL from PostgreSQL views and functions. Most of a
request is data transformation (filters to SQL, rows to JSON). What is hard to test is the state
that outlives one step of one request: the loader that batches the lookups of concurrent resolvers,
the tasks of a WebSocket connection, the result cache shared by processes, tokens and sessions,
request counters. These modules model that state, one module per component, from the code in
`src/src/fraiseql/`.

## Inventory

| Component | State | Operations | What is hard | What makes it correct |
|---|---|---|---|---|
| DataLoader, `optimization/dataloader.py` | cache, queue, batch promise, dispatch flag | load, load_many, prime, clear, the dispatch task | loads arrive while a dispatch awaits `batch_load`; cancellation of a shared future; a chunk that fails | one dispatch at a time, no caller left waiting, None only for a missing row |
| WebSocket subscriptions, `subscriptions/websocket.py` | connection state, registry id -> task, keep-alive task, manager dictionary | handshake, subscribe, complete, terminate, ping, broadcast, remove_connection, close_all, cleanup | four kinds of tasks share the connection; every send may fail; cancellation before the first step | the registry names exactly the live tasks, cleanup stops all of them, the handler ends |
| Subscription cache, `subscriptions/caching.py` | entries, a lock per key, cleanup task | get_or_generate, cleanup, start, stop | cleanup while a generator holds the lock | one generator per key |
| Result cache, `caching/*.py` | table of entries with expiry | get_or_set, execute_function, invalidate | a store races an invalidation; failures are swallowed | a read sees the writes that returned before it |
| Token revocation, `auth/token_revocation.py` | revoked ids, per-user cut-off | revoke, is_revoked, revoke_all, cleanup | expired rows that are revoked again | a revoked token stays revoked until it expires |
| Native auth, `auth/native/*.py` | users, sessions, used refresh tokens, reset tokens | register, login, refresh, logout, reset | check-then-insert between requests; rollback | a refresh token is used once |
| Rate limiters, `middleware/rate_limiter.py`, `security/rate_limiting.py` | windows of requests per client | check, info, cleanup | count-then-insert, window edges | no more than the limit in a window |
| Persisted queries, `middleware/apq*.py`, `storage/*` | documents by hash in the process and in the backend, responses by key | register, look up, cache a response, approve | a backend that fails or restarts; a response that is served after the policy has changed | a known hash is found, only approved documents run, nobody is answered what is not his |
| Request handling, `fastapi/routers.py` | none of its own | POST, GET, multi-field | order of the checks | every answer went past its gates |
| TurboRouter, `fastapi/turbo.py` | LRU of queries, index of Apollo hashes | register, get, execute | two indexes and one eviction | a registered query is found by each of its hashes |
| Authorization and decision cache, `security/*.py` | decisions with expiry | the operation gate, the field gate | slow answers that overtake each other | what a gate decides was so not long ago |
| RBAC, `enterprise/rbac` | permission caches | resolve, assign | cache against role changes | |
| db.py, where clauses, SQL operators, mutations, types, schema, scalars | registries built at start-up | pure translation | data, not control | |
| monitoring, audit, tracing, CLI, migrations, SBOM, introspection | logs and reports | | | |
| fraiseql_rs (Rust) | plan cache, pool | JSON transformation | bytes, not control | |

How they interact: a request handler (HTTP or WebSocket) makes a context with a loader registry and
a repository; resolvers call `load` on the loaders and `find` on the repository, which may be a
`CachedRepository`; mutations call `execute_function`, which invalidates. Authentication, rate
limiting and persisted queries run before execution and share only the database with the rest. All
Python components run on an asyncio event loop, so inside a process control changes hands only at an
`await`; several processes share the PostgreSQL tables.

## Plan

1. `DataLoader`, with proofs (done).
2. `Subscriptions`: one connection and the manager; `SubscriptionCache`; with proofs (done).
3. `CachedRepository`, with proofs (done).
4. `Revocation`: what revoking promises; `MemoryRevocation`, proved to implement it, and
   `PostgresRevocation`, with proofs of what survives concurrent calls (done).
5. `NativeAuth`, with proofs (done).
6. `RateLimiter`, with proofs (done).
7. `PersistedQueries`, composed with the request handler, with proofs (done).
8. `DecisionCache` and `TurboRouter`, which composes it with the registry, with proofs (done).

Proofs are in `DataLoaderProofs`, `SubscriptionsProofs` (both modules of `subscriptions/`),
`CacheProofs` (`CachedRepository`, `DecisionCache` and `TurboRouter`), `MemoryRevocationProofs`,
`PostgresRevocationProofs`, `NativeAuthProofs`, `RateLimiterProofs` and `PersistedQueriesProofs`. Two
modules that are proved about together have different names for what both have, such as the
specification (`CacheSpec`, `TurboSpec`). Two pairs of modules that share no state are checked by one
run each: `MCSubscriptions` (`Subscriptions`, then `SubscriptionCache`) and `MCCaches`
(`CachedRepository` or `TurboRouter`); a variable `part` says whose steps are taken.

Bounds: two or three callers, two keys, a clock of two or three windows; that is enough for every
pair of steps to interleave and for an entry to expire and be written again.

## Modules

A step of a model runs from one `await` (or database statement) to the next. What a database, a
socket or a user callback does between them is nondeterministic, failure included.

Where the code falls short of the ideal answer, a history variable names the situation (`late`,
`aborted`, `raced`, `ignored`, `overtaken`, `displaced`, `stale`, `failed`, `unchecked`, `shared`) and
the property says that nothing worse happens. Where the code contradicts its own comments or
documents, the claim is a property of its own that a run is expected to violate. Type invariants are proved, and stated in the module of the proofs where no run needs
them. The bounds of time and of counters that a module names are constants like others: the theorems
hold for every value of them.

### DataLoader

One loader, its load calls (`Loads`) and its dispatch task. `cache`, `queue`, `promise` and
`scheduled` are `_cache`, `_queue`, `_batch_promise` and `_dispatch_scheduled`; a future is named by
the load that created it. `LoadHit` and `LoadMiss` are `load` up to its first await, `Wake` the rest,
`Cancel` a caller that gives up. `TakeQueue` drains the queue after `asyncio.sleep(0)`;
`BatchLoaded`, `LastBatchLoaded`, `BatchFailed` and `BatchAborted` are the ways `batch_load` ends for
one chunk: the last one is a CancelledError or another BaseException, which passes
`except Exception`; the `finally` then drops the promise without settling it. `load_many` is several
loads. `late`, `cleared`, `cancelled` and `aborted` are history variables that name the situations in
which the code does not give the ideal answer.

- `dataloader` (two loads, two keys, one with a row, chunks of one key): `SingleDispatch`,
  `NoLostWakeup`, `NoneOnlyWhenMissing`, `CancelStaysInBatch` and, under fairness,
  `EveryLoadReturns`. Two loads are enough for one that dispatches and one that shares its promise,
  comes late or is cancelled; chunks of one make a later chunk fail after an earlier one was cached.
  The theorems cover any number of loads. A load that joins a running dispatch (`late`) is answered
  None although its key has a row. The loads of an `aborted` dispatch wait for good, as the code
  stands; `NoLostWakeup` and `EveryLoadReturns` say that nobody else does, and that the loads after
  them are served by a new dispatch.

Fairness: the event loop runs every ready task, and `batch_load` returns or raises.

Proved for any loads, keys and chunk size: type correctness and the four invariants. The inductive
invariant says that the promise exists exactly while a dispatch is scheduled, that every pending
future is the promise or was aborted, that a dispatch that has not started has a non-empty queue, and that the key
of a waiting load is queued, in a chunk or cached unless the load is late, cleared or aborted; a
promise in use was never aborted.

### Subscriptions

One `WebSocketConnection`, its subscription tasks and the `SubscriptionManager` that lists it
(connections share nothing else). `handler` says what the task running `handle()` awaits; `task`
where each `_handle_subscription_generator` is. The client sends any message at any time; any send
may fail; the server may cancel the handler at any await, and a `_cleanup` in progress too. A task
cancelled before its first step never runs its `finally`, so it is modelled apart (`TaskAborts`).

- `subscriptions` (two ids and two tasks, which is enough for an id to be used again while its first
  task unwinds and for a task to outlive the clean-up): `RegistrySound`, `LiveTasksRegistered`,
  `CleanupReachesAll`, `NotReadyAfterHandle`, the action property `NoReplacement` and, under
  fairness, `ClosingEnds`, `HandshakeEnds` and `ManagerReturns`. `raced` names the two ways a task is
  lost: registered under an id whose previous task still unwinds, and registered during
  `remove_connection`'s clean-up; such a generator runs on after the client has disconnected. READY may
  be written over CLOSED while `handle()` still runs; it does not outlast it (`NotReadyAfterHandle`).
  The properties of the subscription cache below are of this run too.

Fairness: sends, `close` and `subscribe()` return or raise, a cancelled generator unwinds, the init
timer fires. Nothing is assumed of the client, of generators that run or of the manager's callers. Left out: the
cancellation of the caller of `remove_connection` or `close_all` while it gathers the tasks.
Deadlock is not checked: a closed connection stops.

Proved for any ids and tasks: type correctness, the four invariants and `NoReplacement`. None of them is
inductive. `Consistent` relates the registry, the tasks and their ids: a registered task is registered
under its own id, and a live task that was not registered in a race is registered and is the only
task of its id that is not done. It is a predicate of values, because a clean-up works on a registry
that the message it ends with has just changed. `EndedInCleanup` says that a task that has ended is
registered only while somebody cleans up, `CleanupCancels` that by then only raced tasks are live,
`IdStaysFree` that nothing is registered under an id whose `subscribe` still awaits, and `Unlisted`
that the manager starts no second clean-up of a connection it is working on.

### CachedRepository

Reads (`find`, `find_one`, `cached_query`, `warm_cache`) and writes (`execute_function`,
`invalidate_view`) over the cache table. A result is the version of the data it shows; version 0 is
None, which is stored but never a hit. Entries may expire at any moment; each backend call may fail,
and `ResultCache` swallows that; a write may be cancelled between commit and invalidation.

- `caches`, first part (two views, of which the function's name covers one; two reads, one write, two
  versions): `ReadYourWrites` and `StaleEntryExplained`. An entry may be older than a mutation that
  has invalidated it if its fetch began before: that is one of the explanations.

Proved for any keys, readers and writers: type correctness and both invariants. The inductive
invariant relates each stored or fetched version to the deletes that came after its fetch.

### TokenClaims, Revocation, MemoryRevocation, PostgresRevocation

`TokenClaims` declares tokens by the claims that revocation reads (`jti`, `sub`, `iat`, each of which
may be missing) and the lifetime of a revocation. A second has several ticks: `iat` is the time of
issue cut to whole seconds (`Iat`), a cutoff is not cut. `Revocation` is the promise: a token is refused for
TTL after it was revoked, or after all tokens of its user were revoked if it was issued
earlier or has no `iat`.

`MemoryRevocation` is `InMemoryRevocationStore` under `TokenRevocationService`, whose methods do not
await between two accesses, so each is one step: `RevokeToken`, `RevokeAllUserTokens`,
`IsTokenRevoked` (which removes the expired entries it meets), `CleanupExpired`, `Start`, `Stop`.
`PostgresRevocation` is the table shared by processes: a revocation reads the clock (`StartRevoke`)
and writes later (`WriteToken`, `WriteCutoff`, or `WriteFails`); a check reads the token's row and
then the cutoff (`StartCheck`, `ReadToken`, `ReadCutoff`, `ReadFails`). Time is `Tick`, bounded by
`MaxTime`; processes and database share one clock, the service is enabled and the table exists.

- `memory_revocation` (three tokens of two users, one without `iat`, one without `jti`; TTL 2,
  `MaxTime` 5, so that an entry expires and is revoked again): `StayAsLongAsCutoff` and the refinement
  `Promise`.
- `postgres_revocation` (two revocations, two checks; TTL 2, `Second` 2, `MaxTime` 4): `RevokedIsRefused`,
  `OlderIsRefused`, `RefusedForAReason`. A token that was issued after a revocation of all tokens of
  its user is refused if that is less than a second ago, and no other is; one that was issued before
  it is refused, whatever the cut makes of its `iat`. `ignored` names a revocation whose INSERT met the expired
  row of an earlier one, so that the token is accepted; `overtaken` a revocation of all tokens of a
  user after which an older one has written last and moved the cutoff back.

Deadlock is not checked: the bounded clock and the calls come to an end.

Proved for any tokens, users, claims, TTL and number of calls. For the in-memory store: type
correctness, `TrackedByUser`, `StayAsLongAsCutoff` and the refinement. The mapping reads expired
entries as absent, so lazy removal and cleanup are stutters; prolonging the entries in a user's set
is a step of the abstraction because the set holds only tokens of the user (`TrackedByUser`).
`StayAsLongAsCutoff` is inductive together with `CutoffBound`: no cutoff reaches further than TTL
from now, so a later single revocation outlives it.

For the PostgreSQL store: type correctness and the three invariants. Their invariant says that the
row of a revocation stays until its time is over (`TokenRows`), that a cutoff is the newest one that
was not overtaken (`CutoffRows`), that every row goes back to a call (`RowsExplained`), and that a
check between its two statements has seen the end of every revocation of its token it knew of
(`TokenRead`).

### SubscriptionCache

`SubscriptionCache` of `subscriptions/caching.py`: calls of `get_or_generate` on one event loop, the
lock of each key, entries that expire at any moment, and the cleanup loop with `start` and `stop`.
`cache` and `locks` are `_cache` and `_locks`; a lock is named by the call that created it, because a
call keeps the lock object it entered after `_locks` has forgotten it. `Hit` and `Miss` are a call up
to its first suspension, `Acquire` its turn at the lock, `Generate` and `Resume` the two halves of
the loop around `yield`, `Leave` every way out of `async with`. `displaced` records the calls whose
lock the cleanup has removed.

- `subscriptions`, second part (three calls, two keys): `OneGenerator` and, under fairness,
  `WaitersAreServed`. Three calls make one that holds the old lock, one that waits for it and one
  that makes the new lock; two generators of one key run at once only after the cleanup has
  displaced a lock.

Fairness: the event loop wakes the first waiter of a free lock, and no subscription lasts for ever
(its generator ends or its subscriber closes it). The second is an assumption about subscribers: the
lock is held for a whole subscription, so without it waiters wait for ever. Deadlock is not checked:
calls come to an end.

Proved for any calls and keys: type correctness and `OneGenerator`, from the
invariant that whoever is inside `async with` is the holder of the lock it entered (`HoldersHold`)
and that this is the lock of its key unless the cleanup removed it (`LocksKnown`).

### NativeAuth

The endpoints of `auth/native/router.py` and the calls of `NativeAuthProvider` over the tables of one
database. A request is a sequence of statements under READ COMMITTED; the steps of others come
between them. `account` and `password` are the columns of `tb_user` that matter, `session`, `used`
and `resets` the other tables; a request names the rows and the token it makes. `Register` and
`SaveUser`, `Login`, `CreateTokens` and `OpenSession`, `Refresh` and `Exchange` or `Reused`, `Logout`,
`RevokeSession`, `RevokeToken` and `RevokeFamily`, `Forgot` and `StoreReset`, `Reset`, `UpdateAll`
and `CommitReset` are the statements; a failure before the commit (`Fail`) leaves nothing, and a
token that was handed out may be presented at any time and again. `Deactivate` and `Expire` are the
administrator and the clock. A transaction that only reads before its last statement and its commit
takes one step for the two.

A logout and a revocation that find no family (an expired token, an access token without
`session_id`) are answered with success and change nothing: their answer is `nothing`. `StoreReset`
answers before the commit at the end of its connection's use, which may be lost.

- `native_auth` (two users, four requests: enough for a login, two refreshes that race and a reset or
  a revocation between them): `ExchangedOnce`, `OneLiveToken`, `RevocationsHold`, `RegisteredOnce`,
  `ResetOnce` and the action property `OnlyStaleReadsRevive`: `saw` is the `is_active` that a reset
  has read and will write, `stale` names the resets that had read an account as active when it was
  disabled, by the administrator or by another reset; only those make it active again.
- `native_auth_reset` is expected to fail: a reset answers "Password reset successfully", and the
  UPDATE of `User.update()` does not list the password.
- `native_auth_logout` is expected to fail (one user): a refresh looks at the used tokens and never at
  the session, so that the token of a family that was logged out is exchanged all the same.
  `RevocationsHold` says what does hold: the mark on the session stays.

Deadlock is not checked: the requests come to an end.

Proved for any users and requests: type correctness and the six properties. `ExchangedOnce` and
`OneLiveToken` are not inductive. `IInv` adds that only a finished request has made anything
(`MadeByDone`), that what is presented was handed out (`ArgsSound`), that the exchanged tokens are
exactly the used ones (`UsedSound`), which is what the primary key of `tb_used_refresh_token`
enforces, that every account goes back to its registration (`AccountsSound`), and what an open reset
holds (`WritesSound`). `OnlyStaleReadsRevive` needs that a reset that is about to write `active` to a
disabled account is among the stale ones. `ResetOnce` needs `ResetsSound`: a reset that goes on began with a token that
no reset before it had used.

### RateLimiter

`RateLimiterMiddleware` over either limiter of `middleware/rate_limiter.py`. Under the lock a check
is one step (`MemoryCheck`). With PostgreSQL a call reads the clock (`PgStart`), waits for a
connection (`PgConnect`), counts the minute, counts the hour, and inserts or refuses; the clock of
the transaction and that of the process differ by the wait. Both windows hold calls, which carry
their time. A second has several ticks, because the code computes with fractions and answers whole
seconds. `Patience` bounds how long a transaction stays open, `Conns` is the number of connections of all
instances that share the table. `wait` is what the client is told, at least a second (`Told`).

- `rate_limiter` (three calls, a pool of two, four configurations, among them a burst above the hour
  limit and a limit of zero; `Second` 2, `Minute` 4, `Hour` 5, `Patience` 1, `MaxClock` 6 ticks, so
  that an entry leaves both windows and a wait of two seconds is told): `AdmittedPerMinute`,
  `AdmittedPerHour`, `NoIdleWait`, `WaitIsEnough`. With PostgreSQL the limit is exceeded by up to the
  number of connections less one, and the hour that is guaranteed
  is shorter by `Patience`, because a row is deleted an hour after a time read before the count.
  `NoIdleWait` is about waits of more than a second: the least that is told may be for nothing,
  since the raw time to wait can be zero or negative. It holds of the hour under the lock only: rows that were counted may be deleted before
  the oldest is read, and the answer is then a whole hour.

Left out: the values of the headers, and the fallback of a failing limiter beyond `PgFail`. A row
that is deleted disappears at the commit. The clock does not go back. Deadlock is not checked.

Proved for any limits, keys, connections, number of calls and length of a second: type correctness and
the four invariants. For the limits, the invariant says that the entry of an admitted call stays as
long as it counts (`EntriesSound`), that no more than `Conns` transactions are open, and bounds the
calls that have passed a count and not only those that were answered: whoever passes has counted
every call of its window except those that hold the other connections. For the times to wait,
`WaitInv` keeps of each refusal what the entries were at that moment: as many as the limit stay
until the call is due (`Blocked`), because it was told to wait for the oldest of them; under the
lock as many are in the window at the time of the refusal (`FullAt`), so that nobody else is let
through at that time, and no more than the limit ever are (`WindowsBound`), so that less than the
limit remain a second after the wait (`Room`). What a transaction has counted for the minute stays
until it ends (`CountsHeld`), since a minute and `Patience` fit in an hour; for the hour they do
not, which is why `NoIdleWait` says nothing of it there.

### PersistedQueries

POST `/graphql` from its checks to its answer, with the stores of documents of a process
(`global` for `apq_store`, `text` for the PostgreSQL backend's `_query_text_cache`), of the backend
(`table`) and of responses. A document stands for its hash, since every store checks that they
belong together; a request asks for one operation of it; a cached response is named by the request
that was executed for it, and one that has expired is absent. `Unauthorized`, `RejectArbitrary`,
`SkipApq`, `RefuseMismatch`, `BackendFails`, `StartApproval`, `StartRegistration` and `StartLookup`
are the ways a request comes in; `Approve`, `Register`, `CacheHit` or `CacheMiss`, `Gate`,
`FieldGate`, `Resolve`, `Execute` and `Store` follow. Statements of PostgreSQL may fail, a process may
restart, responses expire, and what the authorizers say changes between any two steps
(`ChangePolicy`). The memory backend gets the same interleavings, which is more than its calls without
a suspension allow.

The first request that needs the backend makes it and registers the approved documents that could be
read (`Readable`): the loader logs a file it cannot read and goes on, so `loaded` may be less than
`Approved` for the life of the process. The table of PostgreSQL outlives deployments and is shared
with others, in whatever mode they run: `legacy` are the documents they put into it, before this one
starts (`Init`) or while it runs (`RegisterElsewhere`).

Authorizers are asked in three ways (`Sites`). The gate of a cached response asks the default
authorizer about the first root field of the document's first operation, or about a query without a
name when it has no text. A resolver asks the authorizer of its own operation, which may be another.
The gates of fields ask about fields. With a decision cache a known caller may be told anything that
was said since the process started (`Verdicts`, `said`), and one entry answers the gate and the
resolver alike, since its key has the operation and not the authorizer. How old such a decision can
be is the subject of `DecisionCache`. `TurboDocs` are the documents that the TurboRouter may execute,
which asks the default authorizer. `decisions` records what a request could be told, `unchecked`
where it was not asked: a gate without the text of the document, and bytes that a resolver has left
in the context and graphql-core has refused, which are sent without a look at the fields.

- `persisted_queries` (two processes, two requests, five configurations; an anonymous caller, two
  users of a tenant and a caller without an id; a document with a query and a mutation, approved, and
  one that is not; one change of policy): `KnownIsFound`, `OnlyApprovedRun`, `CachedAnswerIsOwn`,
  `NoDataWhileDenied`. `Shapes` lists what the clients send, `Configs` the modes with what other
  deployments register and what the policy may change to. Two requests are enough for one that
  stores and one that is served, in either process, with a restart or a change between any two
  steps. As `docs/performance/apq-optimization-guide.md:151` says, `required` mode also runs what is
  already in the table; `OnlyApprovedRun` says that this and the approved documents are all.
- `persisted_queries_mutation` is expected to fail: the key of a response leaves out the operation
  name, so that a mutation is answered with the cached response of a query of its document.

Left out: introspection without authentication, blank hashes, `clear_storage`, the selection of fields
of a cached response, the rows that filters leave (the TurboRouter ignores filters with a warning),
and the executor for the case that the unified one is not configured, since no configuration has a
field for that. One root field stands for all of an operation, one gated field for all of a
document. Execution is one step with data or errors. Deadlock is not checked: requests come to an
end.

Proved for any processes, documents, callers and configurations: type correctness and the four
properties. `KInv` says what a request may rely on until it is answered: what was read from the files
is in the backend, in `text` where reads of the table may fail; what was acknowledged is in the
process-wide store; in required mode nothing is stored anywhere but approved and foreign documents.
`CInv` says that a response that is stored, held or served belongs to a finished query with the same
key. `DInv` says that a request has recorded whatever it could be told since it came; it needs `CInv`
to know that a cached response is not the request's own.

### DecisionCache, TurboRouter

`DecisionCache` is the cache of authorization decisions with the operation gate
(`enforce_operation_value`) and the field gate (`_authorize_field_value`). A key is a caller, with the
operation and arguments it asks for, and the gate. `Replay` serves a fresh entry, `Ask` calls the
authorizer, `Judge` is the moment it reads its policy or raises, `Answered` the arrival of its answer,
which is cached with a fresh TTL. `TurboRouter` composes it with `TurboRegistry`: `queries` is
`_queries` in LRU order and `apollo` is `_apollo_hash_to_primary`; `Register`,
`register_with_raw_hash`, `get_by_hash` and `Clear` are its methods, `Execute` looks a text up and
takes a call to the gates and to the statement. Each gate is a step of its own even when nothing
suspends.

- `caches`, second part (two executions, a registry of two queries under three hashes, a cache of one
  decision, TTL 1, two changes of policy, `MaxTime` 2: enough for an answer to be judged, overtaken,
  cached, replayed and to expire): `FoundByApollo` and the action property `DecisionIsRecent`. A
  decision may be older than the TTL by the time the authorizer takes (`Patience`, of which the code
  sets no limit), since the TTL counts from the arrival of the answer. `shared` names Apollo hashes
  of two registered queries: the eviction of one removes the mapping of the other. The registry and the gates share only the look-up at
  the start of an execution: the registry is explored first, then the gates with both queries
  registered.
- `decision_errors` is expected to fail: at the field gate an exception of the authorizer is cached as
  a denial, unlike at the operation gate, while `security/decision_cache.py:77` and
  `docs/security/authorization.md:287` say that it never is. `DecisionIsRecent` therefore lets the gate
  of a field refuse whom an exception was raised for that recently.

One gated field stands for all of a document. Left out: running without authorizer, schema or cache;
filters, which the router ignores with a warning; `EnhancedTurboRegistry`. The unified executor makes
a `TurboRouter` and never calls `execute`; the gates are also those of resolvers and of cached
responses. Deadlock is not checked.

Proved for any calls, callers, queries, hashes, sizes and TTL: both properties. The registry
invariant (`RInv`) says that a primary hash is registered once, that what is linked is registered
and mapped unless its Apollo hash is shared, and that a hash that is not shared has one owner: an
eviction that removed the mapping of a query that stays would make the two owners of one hash. The
invariant of the decisions (`DInv`) says that a verdict was noted after its evaluation began, which
is at most `Patience` ago, and that an entry expires at most a TTL and an evaluation after its
decision was last the policy's. With a TTL of zero, which the code accepts, nothing is replayed and
a decision is as old as its evaluation. An ordered dictionary is a sequence of which one item is
dropped by its place; `CacheProofs` first proves what dropping, moving and adding an item do to the
items that stay.

## Findings

- `native_auth_reset`: a password reset that answers success leaves the old password.
- `native_auth_logout`: a logout that answers success leaves the refresh token usable.
- `persisted_queries_mutation`: a mutation answered from the cache instead of being run.
- `decision_errors`: an exception of the authorizer cached as a denial of a field.

## What is only model-checked

Liveness, since the prover does not handle fairness: `EveryLoadReturns`, `ClosingEnds`,
`HandshakeEnds`, `ManagerReturns` and `WaitersAreServed`; and the four findings, which are
counterexamples. Every other property of a run is a theorem. No module uses recursion.

## Not modelled

Most of the source is translation of data: filters to SQL (`db.py`, `where_clause.py`, `sql/`), rows
and mutation results to JSON (`mutations/`, `fraiseql_rs`), Python classes to a GraphQL schema (`gql/`,
`types/`, `core/`), introspection of the database, the command line. It keeps no state between two
steps of a request and has no order to get wrong: a model would repeat it function by function, over
strings that a model checker cannot enumerate. For that reason the models cover a small share of the
lines and most of the state that outlives a step. Also left out are external services (identity
providers, key management) and output-only parts (logging, tracing, metrics). What could still be
modelled: the permission cache of `enterprise/rbac` against its version triggers, the weights of
`EnhancedTurboRegistry`, the limit of error notifications. `PROJECT.json` lists every component with
what is missing.
