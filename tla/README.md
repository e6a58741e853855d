# Verification of the withdraw API

This directory holds TLA+ models of the service in `src/`, the TLC configurations that check them, and TLAPS proofs about them.

## The system

One Go binary (`src/main.go`) serves three modules, selected by `--bin`: `inquiry` (also spelt `inqury`) selects login and the balance inquiry, `withdraw` selects the withdrawal route, and anything else selects all three. `app.New` (`src/internal/app/app.bootstrap.go`) builds the process with fx:

- **configuration** is loaded from the first of `config.<bin>.yaml`/`.env.<bin>`, their `.example` files, `config.yaml`/`.env` and their `.example` files that exists;
- **handles**: two PostgreSQL pools (`db_auth`, `db_wallet`, opened and pinged in `src/unnamed/part_002`) and a Redis client;
- **lifecycle** (`src/internal/app/app.lifecycle.go`): OnStart binds the listener and starts the serve goroutine; OnStop shuts the server down with fx's stop context, waits for the serve goroutine, then closes the handles.

A `POST /api/v1/withdrawals` request passes, in order:

1. **JWT middleware** (`NewHTTPJWTMiddleware`). It verifies the bearer token with the HMAC key from `provideJWTTokenManager` and sets `user_id`. `POST /api/v1/auth/login` issues the tokens.
2. **Rate limiter** (`NewHTTPRateLimitMiddleware`, `src/internal/middlewares/http.cors.go` 560-620). It calls a Redis Lua script: token bucket, sliding window or fixed window (`src/internal/shared/ratelimit/redis_store.go`). It answers 429 when denied and 500 when the store fails.
3. **Idempotency coordinator**: the middleware `NewHTTPWithdrawIdempotencyMiddleware` (`http.cors.go` 681-747) and the store `SQLXStore` (`src/internal/shared/idempotency/sqlx_store.go`) over `withdraw_idempotency`. `Acquire` returns Acquired, Replay, InProgress or Conflict, or an error. Only Acquired runs the handler, and `Complete` stores its response for replay.
4. **Balance ledger store**. The handler, the service (`src/unnamed/part_005`) and the repository (`src/internal/repository/withdraw.balance.go`) run one transaction: a conditional `UPDATE wallets ... WHERE balance_minor >= amount`, `HasWalletByUserID` on no row, a `wallet_ledger` insert, and a commit.

`GET /api/v1/inquiries/balance` reads the wallet with one SELECT.

Requests are served concurrently, possibly by several processes. They share only PostgreSQL and Redis, and coordinate through row locks and Lua scripts.

## Modules

| Module | Models | State | Actions |
|---|---|---|---|
| `WithdrawParams` | constants shared by the withdraw components | — | — |
| `WalletLedger` | repository, service guard and SQL | `balance`, `ledger` | `WithdrawTx(u, a, by, out)`: the whole transaction as one step |
| `IdempotencyStore` | `SQLXStore.Acquire` and `Complete` | `records`, `now` | `AcquireLocked`, `AcquireInsert`, `Complete`, `Tick` |
| `WithdrawPipeline` | middlewares and handler, with concurrent workers | `pc`, `req`, `acqTime`, `lease` (ghost), `handlerResp`, `resp` | `RateLimitReject`, `MissingKey`, `Receive`, `AcquireSelect`, `AcquireInsertStep`, `Execute`, `CompleteStep`, `Crash`, `Served` |
| `RateLimiter` | the three Lua scripts, `RedisStore.Allow`, the middleware and the limiter's config | `algorithm`, `clock`, `kv`, `expireAt`, `pc`, `readNow`, `calls`, `resp`, `callNo` (ghost), `grants` (ghost set of `<<read time, Redis time, call number>>`) | `Tick`, `Read`, `Eval`, `EvalFails` |
| `Auth` | JWT key derivation, login, Sign and Verify, the JWT middleware | `now`, `tokens`, `lastCode`, `credentialed`, `accepted` (ghosts) | `Tick`, `Login`, `Forge`, `RejectHeader`, `Authenticate` |
| `ServerLifecycle` | `--bin` module selection, config load order, start, serving inquiry and withdraw, the whole OnStop hook | `bin`, `phase`, `open`, `listening`, `serving`, `serveSent`, `stopPc`, `ctxDone`, `conn`, `req`, `code` | `Start`, `StartFails`, `Accept`, `Dispatch`, `CommitWithdraw`, `ServeReturns`, `StopBegin`, `Deadline`, `CloseListener`, `ShutdownDone`, `WaitServe`, `CloseStep`, `Exit` |
| `WithdrawService` | what the withdraw endpoint promises: a positive debit its balance covers, at most once per (user, key) | `balance`, `debited` | `Withdraw(u, k, a)` |
| `MC_*` | TLC instances | | |
| `WithdrawPipelineProofs` | TLAPS proofs about the pipeline: typing, overdraft, lease exclusion, ledger | | |
| `IdempotencyProofs` | TLAPS proofs of exactly-once debit and completed-record stability | | |
| `AuthProofs` | TLAPS proof of JWT authenticity | | |
| `ServerLifecycleProofs` | TLAPS proofs about start and OnStop | | |
| `ReplayProofs` | TLAPS proof that a replayed response is faithful | | |
| `ServiceRefinementProofs` | TLAPS proof that the pipeline implements `WithdrawService` | | |
| `RateLimiterProofs` | TLAPS proofs of the rate limiter's typing and its three budgets | | |

How the models correspond to the code:

- **Withdraw transaction.** It is atomic. The UPDATE holds the wallet row lock until commit, and PostgreSQL re-evaluates the WHERE clause after a lock wait, so withdrawals on one wallet are serialised. An error rolls back. The one exception is a commit that took effect but whose reply was lost: `CommitOutcomes` lets it report `tx_error`.
- **Acquire** is split in two where the code holds no lock. On an existing row, `SELECT ... FOR UPDATE` makes the decision one step. On a missing row nothing is locked, so the INSERT is a separate step that can fail on the unique index.
- **Clock reads.** `acqTime` (idempotency) and `readNow` (rate limiter) are the `time.Now()` a caller read before its database call. The code uses that value, not the time the call runs.
- **Lua scripts** are atomic steps. Redis expiry is lazy: a key is gone once the clock is past its deadline. The algorithm is fixed at start by `parseRateLimitAlgorithm`, where an unknown name falls back to the token bucket. Token counts are scaled by `Window` to stay integral.
- **Tokens** are records of the fields Verify looks at: subject, algorithm, signing key and expiry. An outsider signs with every secret it knows (`KnownSecrets`) or alters a token without re-signing it (`Tampered`).
- **Process.** A withdrawal that has begun its transaction keeps its pooled connection. It finishes even if the pool is closed meanwhile, because `database/sql` `Close` does not wait for connections in use. It may also wait on a row lock held outside the process for any length of time. A request that needs a closed pool answers 500.
- **Responses** are reduced to their kind or status code and, where a property needs it, the worker that produced them.

## Runs

| Run | Expect | Checks |
|---|---|---|
| `no_expiry` | pass | TypeOK, NoOverdraft, LedgerReconciles, LeaseExclusion, ReplayFaithful, ExactlyOnceDebit, CompletedStable, ImplementsService |
| `with_expiry` | pass | NoOverdraft, LedgerReconciles, LeaseExclusion, ReplayFaithful |
| `double_debit` | violation | ExactlyOnceDebit |
| `completed_overwrite` | violation | CompletedStable |
| `first_request_race` | violation | AcquireDecides |
| `ambiguous_commit` | violation | FailureMeansNoDebit |
| `rl_budgets` | pass | TypeOK, SlidingLatencyBudget, FixedWindowBurst, TokenBucketBudget |
| `stale_timestamp` | violation | SlidingWindowBudget |
| `bucket_expiry_reset` | violation | TokenBucketBudget |
| `auth_configured` | pass | Authenticity |
| `default_secret_forgery` | violation | Authenticity |
| `lifecycle` | pass | TypeOK, ClosedAfterDrain, StopReleasesHandles, StopCompletes |

**Bounds.**

- **Pipeline runs.** Three workers, which is enough for a race of two plus a retry, with symmetry over the workers.
  - There are two users: `u1` has a wallet with balance 2, and `u2` has none.
  - There is one key, plus the absent key.
  - The amounts are {0, 1, 3}: invalid, half the balance, and more than the balance.
  - `no_expiry` has `LockTTL = 2` with the clock at most 1, so no lease expires; crashes and database failures are on.
  - `with_expiry` has `LockTTL = 1` with the clock up to 2, so leases expire under slow and crashed holders. Database failures are off to keep it under three minutes.
- **`rl_budgets`.**
  - The algorithm is chosen at `Init` from `{"sliding_window", "fixed_window", "token_bucket", "leaky"}`, so one run covers all three scripts and the fallback.
  - Two callers share one key. `Limit = 2` and `Window = 3` ms. There are 6 calls over 5 ms, which is more than two full windows.
  - The clock is read at most 1 ms stale (`MaxLatency`). That is the smallest lag that makes a script run after another caller's later reading.
  - EVAL errors are on.
- **Auth runs.** Two users, one of them disabled, and an email with no user. The configured secret is one character, shorter than `MinSecretLen = 2` (which stands for 32 bytes), so padding is exercised. The clock runs to 3 s with a TTL of 2 s, so tokens expire within the run.
- **`lifecycle`.**
  - There are two connections and two users (one with a wallet), and amounts {0, 1}.
  - The config files present make `--bin inqury` load its own file and `--bin withdraw` fall back to its `.example` file. A process for all modules (`--bin ""`) finds no config, so every branch of start and routing happens.
  - Start failures, listener errors, close errors and database errors are all enabled.

**Properties.**

- `LeaseExclusion`: two live workers never hold one record with both of their leases unexpired.
- `ReplayFaithful`: a replayed response was produced for the same user, key and body.
- `ExactlyOnceDebit`: the ledger holds at most one row per `<<user, key>>`.
- `CompletedStable`: a completed record never changes.
- `ImplementsService`: the pipeline, read through the mapping `DebitedRecords` (the (user, key) pairs of the ledger rows), is a behaviour of `WithdrawService`.
- `LedgerReconciles`: each ledger row's balance_after continues its wallet's previous balance, and each wallet's balance equals its last row.
- `FailureMeansNoDebit`: a client answered with the handler's 500 has no debit from that request.
- `SlidingLatencyBudget`: with stale readings of at most `MaxLatency`, no window of `Window - MaxLatency` ms holds more than `Limit` grants.
- `FixedWindowBurst`: no window of `Window` ms holds more than `2 * Limit` grants. That is the documented boundary burst.
- `TokenBucketBudget`: in any interval `[t1, t2]`, at most `burst + (t2 - t1) * limit / window` grants.
- `Authenticity`: a request is let in as user u only within TTL of a login in which u's active account presented its password.
- `ClosedAfterDrain`: while stopping, the wallet pool is closed only once every request has been answered, or after the stop deadline has passed.
- `StopReleasesHandles`: a process that exits after OnStop has closed both pools and Redis, even when a Close failed.
- `StopCompletes` (liveness): once stopping begins, the process exits.

## Findings

1. **double_debit (a gap in the spec).** Section 4.2 of the spec lets an expired `in_progress` lease be reacquired "as a safe retry". Sections 5 and 8 require exactly one ledger entry per key. The code follows 4.2 (`sqlx_store.go` line 123), so a holder that crashed after committing, or is merely slower than the TTL, is followed by a second debit.
2. **completed_overwrite.** `Complete` matches scope, key and hash, not status or lease ownership (line 179). A stale holder overwrites the completed response.
3. **first_request_race.** `FOR UPDATE` on a missing row locks nothing. Of two simultaneous first requests, one gets a 500 from the unique index (line 85) instead of InProgress or Replay.
4. **ambiguous_commit.** `tx.Commit()` can fail after PostgreSQL committed (`withdraw.balance.go` line 77). The client is told 500, and that 500 is stored for replay, although the wallet was debited.
5. **stale_timestamp.** The sliding-window script scores a request with the caller's `time.Now()`, not Redis time (`redis_store.go` line 157). A script that runs 1 ms late is pruned early, so a window admits `limit + 1`.
6. **bucket_expiry_reset.** The token-bucket key expires after `2 * window` (line 93). With `burst > 2 * limit`, an empty bucket has not refilled by then, and the next call finds it full.
7. **default_secret_forgery.** With no secret configured, `provideJWTTokenManager` signs with a literal from the source (`app.bootstrap.go` line 129) instead of refusing to start. Anyone who has read the repository can sign a token for any user.

## Fairness

- The pipeline, rate-limiter and auth models check safety only, with no fairness.
- `ServerLifecycle.Spec` assumes weak fairness only of what the process itself schedules:
  - the stop hook's steps (`StopActions`);
  - the stop context's deadline timer (`Deadline`);
  - the serve goroutine returning once the listener is closed (`ServeReturns /\ ~listening`).
- Clients, the stop signal, and the completion of a database transaction get no fairness. A withdrawal may wait forever on a row lock held by another process.
- `StopCompletes` therefore says the stop terminates because of the deadline, not because requests finish.
- Its mutant `ShutdownGivesUpNever` (Shutdown waiting for every request) fails it.
- `lifecycle` sets `CHECK_DEADLOCK FALSE`, because an exited or failed process really stops.

## Proofs

Seven modules hold TLAPS proofs. Each theorem holds for every value of the constants that satisfies the module's named assumptions:

- the withdraw assumptions are `ParamsAssumption`, `WalletAssumption`, `StoreAssumption`, `NoRecordAssumption` and `PipelineAssumption`;
- in particular, `LockTTL` is a positive natural number and `InitBalance` maps wallet owners to naturals;
- `Auth`, `ServerLifecycle` and `RateLimiter` have their own `ASSUME`s, and TLC evaluates them on every run. `RateLimiter`'s `AbsentAssumption` says the model value of a missing key is no counter, no token record and no sorted set of at most `Limit` members; it is stated over an enumerable set so that TLC can evaluate it.

Four theorems also carry a hypothesis about the configuration. The hypothesis is a real condition, not a convenience: a violation run shows the property failing without it.

| Module | Theorem | Statement | Checked by TLC in |
|---|---|---|---|
| `WithdrawPipelineProofs` | `TypeCorrect` | `Spec => []TypeOK` | `no_expiry` |
| `WithdrawPipelineProofs` | `NoOverdraftHolds` | `Spec => []NoOverdraft` | `no_expiry`, `with_expiry` |
| `WithdrawPipelineProofs` | `LeaseExclusionHolds` | `Spec => []LeaseExclusion` | `no_expiry`, `with_expiry` |
| `WithdrawPipelineProofs` | `LedgerReconcilesHolds` | `Spec => []LedgerReconciles` | `no_expiry`, `with_expiry` |
| `IdempotencyProofs` | `CompletedStableHolds` | `NoExpiry => (Spec => CompletedStable)` | `no_expiry` |
| `IdempotencyProofs` | `ExactlyOnceDebitHolds` | `NoExpiry => (Spec => []ExactlyOnceDebit)` | `no_expiry` |
| `ReplayProofs` | `ReplayFaithfulHolds` | `Spec => []ReplayFaithful` | `no_expiry`, `with_expiry` |
| `ServiceRefinementProofs` | `ServiceRefinement` | `NoExpiry => (Spec => ImplementsService)` | `no_expiry` |
| `RateLimiterProofs` | `TypeCorrect` | `Spec => []TypeOK` | `rl_budgets` |
| `RateLimiterProofs` | `SlidingLatencyBudgetHolds` | `Spec => []SlidingLatencyBudget` | `rl_budgets` |
| `RateLimiterProofs` | `FixedWindowBurstHolds` | `Spec => []FixedWindowBurst` | `rl_budgets` |
| `RateLimiterProofs` | `TokenBucketBudgetHolds` | `TokenBudgetCondition => (Spec => []TokenBucketBudget)` | `rl_budgets` |
| `AuthProofs` | `AuthenticityHolds` | `SecretUnknown => (Spec => []Authenticity)` | `auth_configured` |
| `ServerLifecycleProofs` | `TypeCorrect` | `Spec => []TypeOK` | `lifecycle` |
| `ServerLifecycleProofs` | `ClosedAfterDrainHolds` | `Spec => []ClosedAfterDrain` | `lifecycle` |
| `ServerLifecycleProofs` | `StopReleasesHandlesHolds` | `Spec => []StopReleasesHandles` | `lifecycle` |

**TypeCorrect (pipeline).** `TypeOK` is not inductive on its own. A worker past `Receive` indexes `records` by `<<user, key>>`, which is a record id only if its request has a key. `TypeInv` adds `KeyedInv`, which says exactly that. Typing lemmas cover the rows and responses each action writes, and the step proof `TypeStep` has one case per action.

**NoOverdraftHolds.** The invariant is inductive given `TypeOK`. Only `Execute` changes a balance, and by `WithdrawTxKeepsFloor` it debits only under `balance_minor >= amount`.

**LeaseExclusionHolds.** The inductive invariant `LeaseInv` adds four conjuncts to `TypeInv`:

1. `HolderHasRecord`: a holder's record exists.
2. `LeaseCovered`: while a record is `in_progress`, each holder's lease is at most its `locked_until`.
3. `HoldersOrdered`: of two holders of one record, one's lease is at most the other's clock reading.
4. `ReadInPast`: every clock reading is at most `now`.

The argument:

- A reacquire needs `locked_until <= acqTime`. By (2), that bounds every earlier holder's lease, which gives (3).
- An INSERT happens only on a missing row, which by (1) has no holder.
- `Complete` makes the row `completed`, after which no Acquire hands it out.
- Every other step only removes holders.

(3) and (4) give `LeaseExclusion`. TLC checked `LeaseInv` as an invariant before it was proved.

**LedgerReconcilesHolds.** The invariant needs `LastRowsExist`: every non-empty set of a wallet's rows among a ledger prefix has a last row. With it, appending a row of `u` makes that row the last of `u`, and the rows of other wallets keep their last row.

**NoExpiry.** `CompletedStable` and `ExactlyOnceDebit` are proved under `NoExpiry == MaxTime < LockTTL`, meaning no lease can expire within the clock bound. Without it they fail:

- `double_debit` shows a request, reacquired after its lease expired, debiting the wallet a second time;
- `completed_overwrite` shows a stale holder's `Complete` overwriting a record another worker already completed.

The code has no fencing token that would make them hold after expiry.

**CompletedStableHolds.** This is an action property. Its invariant `StableInv` adds two conjuncts to `LeaseInv`:

- `HolderLeaseBound`: a holder's lease is at least `LockTTL`, so under `NoExpiry` it is never past;
- `HolderInProgress`: a holder's record is `in_progress`.

Together they mean a `completed` row has no holder. Acquire never hands such a row out, so nothing rewrites it.

**ExactlyOnceDebitHolds.** `OnceInv` extends `StableInv` with three conjuncts:

- `LiveLocks`: an `in_progress` row's `locked_until` is at least `LockTTL`, so under `NoExpiry` no reacquire happens (lemma `NoReacquire`);
- `RowsByExecuted`: the writer of each ledger row has executed its handler, and its record exists;
- `HolderOwnsRows`: a holder of a row's record is that row's writer.

A debit by a holder is therefore the first row for its record. After it, the only worker that could debit again has left `Execute`.

**ReplayFaithfulHolds.** `ReplayInv` adds two conjuncts to `TypeInv`:

- `HandlerRespOwn`: a handler's response is its own and a withdraw outcome;
- `StoredFaithful`: a stored response was produced by a request of the row's (user, key) and hash. `Complete`'s UPDATE matches scope, key and hash, and a reacquire keeps the hash and the response.

A replay copies a stored response, so it was produced for the same user, key and body. This holds with lease expiry too: a stale `Complete` may overwrite a response, but only with one of the same request.

**ServiceRefinement.** The mapping keeps the balances and maps the ledger to `DebitedRecords`. Only `Execute` changes either of them. On a debit it is `Withdraw(u, k, a)`: the transaction's guard gives a positive amount that the balance covers. `OnceInv` gives the freshness of the pair (lemma `FreshRecord`): a worker about to run its handler has no ledger row for its (user, key) yet. Every other step is a stutter. The theorem needs `NoExpiry` for the same reason `ExactlyOnceDebit` does, and `double_debit` is a second withdrawal under one key that the service forbids.

**AuthenticityHolds.** The hypothesis is `SecretUnknown`: the derived signing key is none an outsider knows. `default_secret_forgery` shows `Authenticity` failing with the public fallback secret. The inductive invariant adds `IssuedAtLogin`, which says every token signed with the key came from a login whose subject was active and gave the right password, and expires `TTL` after it. Forged tokens carry another key, so `Verify` rejects them.

**ServerLifecycle theorems.** `StopInv` tracks OnStop's program counter:

- `StopPcBefore` and `RunningOpen`: before the stop, nothing is closed;
- `ClosedUpToPc`: during the stop, exactly the handles before `stopPc` are closed;
- `DrainedAfterShutdown`: past the shutdown step, the listener is closed and requests are drained or the deadline has passed.

`ClosedAfterDrain` follows, because the wallet handle closes after shutdown. `StopReleasesHandles` follows because `Exit` needs `stopPc` past the last step. `TypeOK` needs a frame lemma (`WalletFrame`) for the wallet tables that requests change.

**Rate limiter.** `RLInv` is the inductive invariant of the first three theorems:

- `CallsOK`: every call number is handed out once, by `Read`. A pending call's number is on no grant yet, and a grant ran its script after its caller read the clock and within `MaxLatency` of the reading. The grants are therefore a set identified by call number, and their counts are bounded by `calls`.
- `SlidingInv`: the key outlives every grant by `2 * Window`, and every grant of the last `Window - MaxLatency` ms still has its member in the sorted set. No later script's `ZREMRANGEBYSCORE` can have reached it, because its `now` is at most `MaxLatency` stale (lemma `RecentBound`). The script's `ZCARD` check then bounds the recent grants by `Limit`.
- `FixedInv`: the counter is at least the grants of its lifetime and at most the calls not pending. The `Window` ms before the lifetime hold at most `Limit` grants, from one earlier lifetime. Any window of `Window` ms overlaps at most two lifetimes (lemma `TwoLifetimes`), which gives `2 * Limit`.

`TokenBucketBudgetHolds` assumes `TokenBudgetCondition == Burst * Window <= (2 * Window + 1 - MaxLatency) * Limit`. The condition is what this proof needs, and it is not necessary: TLC also found the budget holding with `Limit = 2`, `Window = 2`, `Burst = 3` and `MaxLatency = 3`, which violate it. Some condition is needed, though: `bucket_expiry_reset` (`Burst = 3`, `Window = 2`, `Limit = 1`) violates it, and there TLC finds the budget broken. `TokenInv` adds three facts:

- A missing key has no grants.
- The stored tokens are at least what refill since the last script's Redis time leaves after the grants.
- `Covers`: for each `t1`, the grants stamped from `t1` on, times `Window`, plus the stored tokens, are at most `Burst * Window + (lastRefill - t1) * Limit`. A script refills by the time elapsed (lemma `CoverStep`), and a grant spends `Window` (lemma `BudgetStep`).

When the key expires, the script starts again from `Burst` tokens. The key lives `2 * Window` ms past its last script, and a caller's reading is at most `MaxLatency` stale. So at least `2 * Window + 1 - MaxLatency` ms of refill have passed, and under the condition the fresh bucket still covers (lemma `ExpiredCover`).

**What stays with TLC.**

- `StopCompletes` is liveness under fairness, and the prover does not handle liveness or ENABLED.
- `TokenBucketBudget` in configurations that violate `TokenBudgetCondition` is only model-checked.
- The properties of the violation runs are counterexamples, not theorems.

## Not modelled

- **Sliding-window member collision** (`redis_store.go` line 141). Two requests in one millisecond get members made from `math/rand`. Their collision, which would drop a grant from the log, depends on PRNG seeding, not on any interleaving.
- **Retry-After header** (`http.cors.go` line 606). It is advisory; the model keeps only the verdict.
- **`Limiter.Reset` and `ResetKey`.** The application never calls them.
- **Config key resolution.** This covers `moduleDBString`/`moduleDBInt`, the env-key helpers, the server timeouts and the Redis options. These are pure lookups with no state a property can tell apart. The load order itself is modelled.
- **Logging, CORS, request ids and the recovery middleware.** They only format or annotate responses.
- **A failed start leaving opened pools unclosed.** fx runs no OnStop for a failed start, so pools opened before a later ping failed are never closed. The process exits at once, which releases them.
