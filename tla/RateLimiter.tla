------------------------------ MODULE RateLimiter ------------------------------
(***************************************************************************)
(* The withdraw rate limiter for one key: RedisStore.Allow and its three   *)
(* Lua scripts (src/internal/shared/ratelimit/redis_store.go), the         *)
(* limiter wrapper (AllowKey, in src/internal/shared/idempotency/          *)
(* sqlx_store.go lines 351-362) and the HTTP middleware that turns the     *)
(* result into 429 / 500 / next (src/internal/middlewares/http.cors.go     *)
(* lines 575-619).                                                          *)
(*                                                                         *)
(* Callers are request goroutines, on any instance, whose principal maps   *)
(* to the same key (PerUserKeyExtractor): keys never share state, so one   *)
(* key is the whole story.  A caller reads time.Now() in Go and only later *)
(* has Redis run the script, so the `now` a script sees may be stale and   *)
(* scripts of several callers run in any order.  A script runs atomically  *)
(* in Redis, whose own clock drives key expiry (PEXPIRE / PTTL).  Time is   *)
(* counted in milliseconds; tokens are scaled by Window so that the       *)
(* script's rational refill is exact.                                      *)
(***************************************************************************)
EXTENDS Integers, FiniteSets

CONSTANTS
    AlgorithmConfigs, \* values of rate_limit.withdraw.algorithm, trimmed and lower-cased
    Limit,           \* Config.Limit
    Window,          \* Config.Window in milliseconds
    BurstConfig,     \* rate_limit.withdraw.burst as configured (0 = unset)
    Callers,         \* concurrent request goroutines sharing the key
    MaxTime,         \* bound on the clock
    MaxCalls,        \* bound on the number of Allow calls
    MaxLatency,      \* bound on the time from time.Now() to the script's run
    StoreErrors,     \* TRUE iff the Redis call may fail
    Absent           \* the value of a missing Redis key

(* No sorted set of at most Limit members {f[1], ..., f[k]} is a missing   *)
(* key.                                                                     *)
AbsentIsNoSortedSet ==
    \A k \in 0 .. Limit :
       \A f \in [1 .. k -> (0 .. MaxTime) \X (1 .. MaxCalls)] :
          Absent # {f[i] : i \in 1 .. k}

(* A missing key is none of the values a key can hold: no counter, no      *)
(* token hash and no sorted set.                                            *)
ASSUME AbsentAssumption ==
    /\ Absent \notin Nat
    /\ Absent \notin [tokens : Int, lastRefill : Int]
    /\ AbsentIsNoSortedSet

(* New rejects a non-positive limit or window (sqlx_store.go 312-341).      *)
ConfigValid == Limit \in Nat \ {0} /\ Window \in Nat \ {0}

ASSUME RateLimiterAssumption ==
    /\ ConfigValid
    /\ BurstConfig \in Nat
    /\ MaxTime \in Nat /\ MaxCalls \in Nat /\ MaxLatency \in Nat
    /\ StoreErrors \in BOOLEAN

(* The algorithm the configured string selects; anything unrecognised is   *)
(* the token bucket (app.ratelimit.go 70-79).                               *)
parseRateLimitAlgorithm(value) ==
    CASE value = "sliding_window" -> "sliding_window"
      [] value = "fixed_window"   -> "fixed_window"
      [] OTHER                    -> "token_bucket"

(* An unset burst defaults to the limit (app.ratelimit.go 49-52).          *)
Burst == IF BurstConfig = 0 THEN Limit ELSE BurstConfig

Times == 0 .. MaxTime

VARIABLES
    algorithm, \* the algorithm the instance was started with
    clock,     \* the time, shared by Redis and the instances
    kv,        \* the Redis value stored at the key, or Absent
    expireAt,  \* the key's PEXPIRE deadline (meaningful while kv # Absent)
    pc,        \* "idle" or "eval" for each caller
    readNow,   \* the time.Now().UnixMilli() each caller read
    calls,     \* Allow calls so far
    resp,      \* the middleware's last answer to each caller
    callNo,    \* ghost: the number of each caller's current Allow call
    grants     \* ghost: <<now passed, Redis time, call number>> of allowed scripts

vars == <<algorithm, clock, kv, expireAt, pc, readNow, calls, resp, callNo, grants>>

(* Redis expires a key lazily but never shows an expired key to a script: *)
(* the value a script at time t sees.                                      *)
LiveValue(v, e, t) == IF v = Absent \/ t > e THEN Absent ELSE v

Current == LiveValue(kv, expireAt, clock)

MinOf(a, b) == IF a <= b THEN a ELSE b

-----------------------------------------------------------------------------
(* Token bucket.  `tokens` is kept times Window, so the refill             *)
(* elapsed * limit / window is elapsed * Limit.                            *)
RefillUncapped(tokens, elapsed) == tokens + elapsed * Limit

Refill(tokens, elapsed) == MinOf(Burst * Window, tokens + elapsed * Limit)

(* The token bucket script with `now` passed by the caller; the key is     *)
(* rewritten and its expiry pushed to 2 * window on every call             *)
(* (redis_store.go 62-123).                                                 *)
tokenBucket(v, now, t) ==
    LET tokens   == IF v = Absent THEN Burst * Window ELSE v.tokens
        last     == IF v = Absent THEN now ELSE v.lastRefill
        refilled == Refill(tokens, now - last)
        ok       == refilled >= Window
    IN  [value      |-> [tokens |-> IF ok THEN refilled - Window ELSE refilled,
                         lastRefill |-> now],
         expireAt   |-> t + 2 * Window,
         allowed    |-> ok]

(* The sliding window admits while fewer than Limit members remain.        *)
SlidingAdmitsOffByOne(count) == count <= Limit

SlidingAdmits(count) == count < Limit

(* The sliding window log (redis_store.go 125-180): drop members scored    *)
(* at or before now - window, count the rest, ZADD a member scored now.    *)
(* A member is a pair <<score, name>>; the name now .. '-' ..             *)
(* math.random() is taken to be fresh and is modelled by the number n of  *)
(* the call that adds it.                                                    *)
slidingWindow(v, now, t, n) ==
    LET z      == IF v = Absent THEN {} ELSE v
        kept   == {m \in z : m[1] > now - Window}
        count  == Cardinality(kept)
        ok     == SlidingAdmits(count)
    IN  [value      |-> IF ok THEN kept \cup {<<now, n>>} ELSE kept,
         expireAt   |-> t + 2 * Window,
         allowed    |-> ok]

(* The fixed window admits the first Limit INCRs of a window.              *)
FixedAdmitsOffByOne(current) == current <= Limit + 1

FixedAdmits(current) == current <= Limit

(* The fixed window counter (redis_store.go 182-233): INCR, PEXPIRE on     *)
(* the first hit only.                                                       *)
fixedWindow(v, e, t) ==
    LET current == IF v = Absent THEN 1 ELSE v + 1
        exp     == IF current = 1 THEN t + Window ELSE e
    IN  [value      |-> current,
         expireAt   |-> exp,
         allowed    |-> FixedAdmits(current)]

(* RedisStore.Allow: dispatch on the algorithm (redis_store.go 43-60).      *)
Allow(v, e, now, t, n) ==
    CASE algorithm = "sliding_window" -> slidingWindow(v, now, t, n)
      [] algorithm = "fixed_window"   -> fixedWindow(v, e, t)
      [] OTHER                        -> tokenBucket(v, now, t)

-----------------------------------------------------------------------------
Init ==
    /\ algorithm \in {parseRateLimitAlgorithm(a) : a \in AlgorithmConfigs}
    /\ clock = 0
    /\ kv = Absent
    /\ expireAt = 0
    /\ pc = [c \in Callers |-> "idle"]
    /\ readNow = [c \in Callers |-> 0]
    /\ calls = 0
    /\ resp = [c \in Callers |-> "none"]
    /\ callNo = [c \in Callers |-> 0]
    /\ grants = {}

(* Time passes; a script sent with a clock reading runs within MaxLatency *)
(* milliseconds of it (the code itself sets no such bound).               *)
Tick ==
    /\ clock < MaxTime
    /\ \A c \in Callers : pc[c] = "eval" => clock + 1 <= readNow[c] + MaxLatency
    /\ clock' = clock + 1
    /\ UNCHANGED <<algorithm, kv, expireAt, pc, readNow, calls, resp, callNo, grants>>

(* A request reaches the middleware, which calls AllowKey; the store reads *)
(* time.Now() before it sends the script (redis_store.go 98-107).           *)
Read(c) ==
    /\ pc[c] = "idle"
    /\ calls < MaxCalls
    /\ pc' = [pc EXCEPT ![c] = "eval"]
    /\ readNow' = [readNow EXCEPT ![c] = clock]
    /\ calls' = calls + 1
    /\ callNo' = [callNo EXCEPT ![c] = calls + 1]
    /\ UNCHANGED <<algorithm, clock, kv, expireAt, resp, grants>>

(* Redis runs the script and the middleware answers: next when allowed,    *)
(* 429 when denied (AllowKey, http.cors.go 591-616).                        *)
Eval(c) ==
    /\ pc[c] = "eval"
    /\ LET r == Allow(Current, expireAt, readNow[c], clock, callNo[c]) IN
         /\ kv' = r.value
         /\ expireAt' = r.expireAt
         /\ resp' = [resp EXCEPT ![c] = IF r.allowed THEN "next" ELSE "429"]
         /\ grants' = IF r.allowed THEN grants \cup {<<readNow[c], clock, callNo[c]>>}
                      ELSE grants
    /\ pc' = [pc EXCEPT ![c] = "idle"]
    /\ UNCHANGED <<algorithm, clock, readNow, calls, callNo>>

(* The Eval call fails: before the script ran, or after it ran with the    *)
(* reply lost.  Either way the middleware answers 500                       *)
(* (redis_store.go 108-110, http.cors.go 591-599).                          *)
EvalFails(c) ==
    /\ StoreErrors
    /\ pc[c] = "eval"
    /\ \/ UNCHANGED <<kv, expireAt, grants>>
       \/ LET r == Allow(Current, expireAt, readNow[c], clock, callNo[c]) IN
          /\ kv' = r.value
          /\ expireAt' = r.expireAt
          /\ grants' = IF r.allowed THEN grants \cup {<<readNow[c], clock, callNo[c]>>}
                       ELSE grants
    /\ resp' = [resp EXCEPT ![c] = "500"]
    /\ pc' = [pc EXCEPT ![c] = "idle"]
    /\ UNCHANGED <<algorithm, clock, readNow, calls, callNo>>

(* Every call has been made and answered, and the clock has run out.       *)
Finished ==
    /\ clock = MaxTime /\ calls = MaxCalls
    /\ \A c \in Callers : pc[c] = "idle"
    /\ UNCHANGED vars

Next ==
    \/ Tick
    \/ \E c \in Callers : Read(c) \/ Eval(c) \/ EvalFails(c)
    \/ Finished

Spec == Init /\ [][Next]_vars

-----------------------------------------------------------------------------
(* The shape of the key under each algorithm: a hash of tokens and last   *)
(* refill, a sorted set of request timestamps, or a counter.              *)
KeyValueOK ==
    CASE algorithm = "sliding_window" ->
            kv \subseteq Times \X (1 .. MaxCalls) /\ Cardinality(kv) <= Limit
      [] algorithm = "fixed_window" -> kv \in 1 .. MaxCalls
      [] OTHER -> kv.tokens \in Int /\ kv.tokens <= Burst * Window /\ kv.lastRefill \in Times

TypeOK ==
    /\ algorithm \in {"sliding_window", "fixed_window", "token_bucket"}
    /\ clock \in Times
    /\ expireAt \in 0 .. MaxTime + 2 * Window
    /\ pc \in [Callers -> {"idle", "eval"}]
    /\ readNow \in [Callers -> Times]
    /\ calls \in 0 .. MaxCalls
    /\ resp \in [Callers -> {"none", "next", "429", "500"}]
    /\ kv = Absent \/ KeyValueOK
    /\ callNo \in [Callers -> 0 .. MaxCalls]
    /\ grants \subseteq Times \X Times \X (1 .. MaxCalls)
    /\ Cardinality(grants) <= MaxCalls

(* The number of allowed scripts whose <<now, Redis time>> satisfies P.     *)
GrantsWhere(P(_)) == Cardinality({g \in grants : P(g)})

(* The allowed scripts that ran in the `len` milliseconds of Redis time   *)
(* ending at t.                                                              *)
GrantsBefore(t, len) == GrantsWhere(LAMBDA g : g[2] > t - len /\ g[2] <= t)

(* Sliding window log (spec section 4.3, and the boundary test of section  *)
(* 8: the limit+1th request in a window is denied): no window of Window    *)
(* milliseconds holds more than Limit admitted requests, however the      *)
(* callers' time.Now() readings and their scripts interleave.              *)
SlidingWindowBudget ==
    algorithm = "sliding_window" => \A t \in Times : GrantsBefore(t, Window) <= Limit

(* What the sliding window does guarantee when a script runs at most       *)
(* MaxLatency after its caller read the clock: a shorter window of         *)
(* Window - MaxLatency milliseconds never holds more than Limit admitted  *)
(* requests, whatever the order in which the stale scripts run.            *)
SlidingLatencyBudget ==
    algorithm = "sliding_window" => \A t \in Times : GrantsBefore(t, Window - MaxLatency) <= Limit

(* Fixed window counter (spec section 4.3): a window of Window             *)
(* milliseconds of Redis time admits at most twice the limit, the          *)
(* documented boundary burst, whatever the order of INCRs and expiries.    *)
FixedWindowBurst ==
    algorithm = "fixed_window" => \A t \in Times : GrantsBefore(t, Window) <= 2 * Limit

(* Token bucket (spec section 4.3: refill at limit/window, capped at      *)
(* burst): requests stamped in any interval [t1, t2] are admitted at most  *)
(* burst + (t2 - t1) * limit / window times, even when callers' stale      *)
(* timestamps make the script's elapsed time negative.                      *)
TokenBucketBudget ==
    algorithm = "token_bucket" =>
        \A t1, t2 \in Times :
            t1 <= t2 =>
                GrantsWhere(LAMBDA g : g[1] >= t1 /\ g[1] <= t2) * Window
                    <= Burst * Window + (t2 - t1) * Limit
=============================================================================
