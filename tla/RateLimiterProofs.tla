--------------------------- MODULE RateLimiterProofs ---------------------------
(***************************************************************************)
(* Proofs of the rate limiter's type invariant and of the budgets the      *)
(* sliding window log and the fixed window counter keep, for every limit, *)
(* window, latency bound and number of callers.                            *)
(***************************************************************************)
EXTENDS RateLimiter, FiniteSetTheorems, TLAPS

USE RateLimiterAssumption, AbsentAssumption DEF ConfigValid

(* The callers whose script has not run yet, and their call numbers.       *)
Evaluating == {c \in Callers : pc[c] = "eval"}

EvalNos == {callNo[c] : c \in Evaluating}

(* Every call number is handed out once (Read numbers the calls): a       *)
(* pending call's number is its own and no grant carries it yet, and a    *)
(* grant is identified by its number.  A grant's script ran after its      *)
(* caller read the clock and within MaxLatency of it.                     *)
CallsOK ==
    /\ \A c \in Evaluating :
          /\ callNo[c] \in 1 .. calls
          /\ \A g \in grants : g[3] # callNo[c]
          /\ readNow[c] <= clock /\ clock <= readNow[c] + MaxLatency
    /\ \A c, d \in Evaluating : c # d => callNo[c] # callNo[d]
    /\ \A g \in grants : g[3] \in 1 .. calls
    /\ \A g, h \in grants : g[3] = h[3] => g = h
    /\ \A g \in grants : g[1] <= g[2] /\ g[2] <= g[1] + MaxLatency /\ g[2] <= clock

(* The grants of the last Window - MaxLatency milliseconds.                *)
RecentGrants == {g \in grants : g[2] > clock - (Window - MaxLatency)}

(* Sliding window log: the key outlives every grant by 2 * window (each    *)
(* script pushes PEXPIRE to 2 * window), and a recent grant's member       *)
(* <<now, name>> is still in the sorted set: no later script's            *)
(* ZREMRANGEBYSCORE, whose `now` is at most MaxLatency stale, reached it.  *)
SlidingInv ==
    algorithm = "sliding_window" =>
        /\ \A g \in grants : kv # Absent /\ g[2] + 2 * Window <= expireAt
        /\ \A g \in RecentGrants : <<g[1], g[3]>> \in kv
        /\ SlidingLatencyBudget

(* The grants of a fixed window's lifetime [e - Window, e] and of the      *)
(* Window milliseconds before it.                                           *)
LifeGrants(G, e) == {g \in G : g[2] >= e - Window}

PreLifeGrants(G, e) == {g \in G : g[2] > e - 2 * Window /\ g[2] < e - Window}

(* Those of the counter's current lifetime.                                *)
CurGrants == LifeGrants(grants, expireAt)

PrevGrants == PreLifeGrants(grants, expireAt)

(* Fixed window counter: the counter counts the scripts run in its         *)
(* lifetime, so it is at most the calls that are not pending, and at       *)
(* least the grants of the lifetime, which are at most Limit; the window  *)
(* before the lifetime holds at most Limit grants, from one earlier       *)
(* lifetime.                                                                *)
FixedInv ==
    algorithm = "fixed_window" =>
        /\ kv = Absent => grants = {}
        /\ kv # Absent =>
              /\ kv + Cardinality(EvalNos) <= calls
              /\ expireAt - Window <= clock
              /\ Cardinality(CurGrants) <= kv
        /\ Cardinality(CurGrants) <= Limit
        /\ Cardinality(PrevGrants) <= Limit
        /\ \A g \in grants : g[2] <= expireAt
        /\ FixedWindowBurst

(* The number of grants of G whose script ran in the len milliseconds      *)
(* ending at t: GrantsBefore(t, len) for the set G.                         *)
WindowCount(G, t, len) == Cardinality({g \in G : g[2] > t - len /\ g[2] <= t})

(* The inductive invariant of the rate limiter.                            *)
RLInv == TypeOK /\ CallsOK /\ SlidingInv /\ FixedInv
-----------------------------------------------------------------------------
(* Grants identified by their call numbers 1 .. n are at most n.           *)
LEMMA IdCount ==
    ASSUME NEW S, NEW n \in Nat,
           \A g \in S : g[3] \in 1 .. n,
           \A g, h \in S : g[3] = h[3] => g = h
    PROVE  IsFiniteSet(S) /\ Cardinality(S) <= n
<1> DEFINE f == [g \in S |-> g[3]]
<1>1. f \in Injection(S, 1 .. n)
  BY DEF Injection, IsInjective
<1>2. IsFiniteSet(1 .. n) /\ Cardinality(1 .. n) = n
  BY FS_Interval
<1>. QED  BY <1>1, <1>2, FS_Injection

(* Grants identified by their call numbers, each with a member <<now,      *)
(* number>> in a finite set T, are at most as many as T's elements.        *)
LEMMA MemberCount ==
    ASSUME NEW S, NEW T, IsFiniteSet(T),
           \A g \in S : <<g[1], g[3]>> \in T,
           \A g, h \in S : g[3] = h[3] => g = h
    PROVE  IsFiniteSet(S) /\ Cardinality(S) <= Cardinality(T)
<1> DEFINE f == [g \in S |-> <<g[1], g[3]>>]
<1>1. f \in Injection(S, T)
  BY DEF Injection, IsInjective
<1>. QED  BY <1>1, FS_Injection

(* A bound e - W <= k carries over to every t >= k.  Stated apart so that  *)
(* the prover sees it without the primed variables of the step it serves.  *)
LEMMA ShiftBound ==
    ASSUME NEW W \in Nat, NEW k \in Int, NEW t \in Int, NEW e \in Int,
           k <= t, e - W <= k
    PROVE  e - W <= t
OBVIOUS

(* A sorted set of at most Limit members is not a missing key.             *)
LEMMA SetNotAbsent ==
    ASSUME NEW S \in SUBSET (Times \X (1 .. MaxCalls)), IsFiniteSet(S),
           Cardinality(S) <= Limit
    PROVE  S # Absent
<1> DEFINE k == Cardinality(S)
<1>1. k \in 0 .. Limit /\ ExistsBijection(1 .. k, S)
  BY FS_CardinalityType
<1>2. PICK f \in Bijection(1 .. k, S) : TRUE
  BY <1>1 DEF ExistsBijection
<1>3. f \in [1 .. k -> Times \X (1 .. MaxCalls)] /\ S = {f[i] : i \in 1 .. k}
  BY <1>2 DEF Bijection, Injection, Surjection
<1>. QED  BY <1>1, <1>3 DEF Times, AbsentIsNoSortedSet

(* The sorted sets a key of the sliding window can hold are finite.        *)
LEMMA KvFinite ==
    ASSUME NEW S \in SUBSET (Times \X (1 .. MaxCalls))
    PROVE  IsFiniteSet(S)
<1>1. IsFiniteSet(Times) /\ IsFiniteSet(1 .. MaxCalls)
  BY FS_Interval DEF Times
<1>2. IsFiniteSet(Times \X (1 .. MaxCalls))
  BY <1>1, FS_Product
<1>. QED  BY <1>2, FS_Subset

(* The pending call numbers are finitely many, at most the calls made.     *)
LEMMA EvalNosCount ==
    ASSUME TypeOK, CallsOK
    PROVE  IsFiniteSet(EvalNos) /\ Cardinality(EvalNos) <= calls
<1>1. EvalNos \subseteq 1 .. calls
  BY DEF CallsOK, EvalNos, Evaluating
<1>2. calls \in Nat
  BY DEF TypeOK
<1>3. IsFiniteSet(1 .. calls) /\ Cardinality(1 .. calls) = calls
  BY <1>2, FS_Interval
<1>. QED  BY <1>1, <1>3, FS_Subset
-----------------------------------------------------------------------------
(* The initial state: no key, no call, no grant.                           *)
LEMMA RLInit == Init => RLInv
<1> SUFFICES ASSUME Init PROVE RLInv
  OBVIOUS
<1>1. Cardinality({}) = 0
  BY FS_EmptySet
<1>2. {g \in grants : TRUE} = {} /\ Evaluating = {}
  BY DEF Init, Evaluating
<1>3. TypeOK
  <2>1. algorithm \in {"sliding_window", "fixed_window", "token_bucket"}
    BY DEF Init, parseRateLimitAlgorithm
  <2>. QED  BY <2>1, <1>1 DEF Init, TypeOK, Times
<1>4. CallsOK
  BY <1>2 DEF Init, CallsOK
<1>5. SlidingInv
  BY <1>1 DEF Init, SlidingInv, RecentGrants, SlidingLatencyBudget, GrantsBefore, GrantsWhere
<1>6. FixedInv
  BY <1>1 DEF Init, FixedInv, CurGrants, PrevGrants, LifeGrants, PreLifeGrants, FixedWindowBurst, GrantsBefore, GrantsWhere
<1>. QED  BY <1>3, <1>4, <1>5, <1>6 DEF RLInv
-----------------------------------------------------------------------------
(* The two outcomes of a caller's Eval call: the script ran, atomically,   *)
(* on the live value of the key, or it did not run at all; either way the  *)
(* caller is answered and goes back to idle.                               *)
NewGrant(c) == <<readNow[c], clock, callNo[c]>>

ScriptRuns(c) ==
    LET r == Allow(Current, expireAt, readNow[c], clock, callNo[c]) IN
    /\ kv' = r.value
    /\ expireAt' = r.expireAt
    /\ grants' = IF r.allowed THEN grants \cup {NewGrant(c)} ELSE grants

Answer(c) ==
    /\ pc[c] = "eval"
    /\ pc' = [pc EXCEPT ![c] = "idle"]
    /\ resp' \in [Callers -> {"none", "next", "429", "500"}]
    /\ UNCHANGED <<algorithm, clock, readNow, calls, callNo>>

LEMMA EvalCases ==
    ASSUME TypeOK, NEW c \in Callers, Eval(c) \/ EvalFails(c)
    PROVE  Answer(c) /\ (ScriptRuns(c) \/ UNCHANGED <<kv, expireAt, grants>>)
BY DEF Eval, EvalFails, Answer, ScriptRuns, NewGrant, TypeOK

(* A step of a caller's script adds at most its own grant.                 *)
LEMMA ScriptGrants ==
    ASSUME NEW c \in Callers, ScriptRuns(c) \/ UNCHANGED <<kv, expireAt, grants>>
    PROVE  grants' \subseteq grants \cup {NewGrant(c)}
BY DEF ScriptRuns

(* Call numbers stay fresh and grants stay stamped within the latency.     *)
LEMMA CallsTick ==
    ASSUME TypeOK, CallsOK, Tick
    PROVE  CallsOK'
<1>1. Evaluating' = Evaluating /\ UNCHANGED <<grants, calls, callNo, readNow>>
  BY DEF Tick, Evaluating
<1>2. clock' = clock + 1 /\ clock \in Nat
  BY DEF Tick, TypeOK, Times
<1>3. \A c \in Evaluating : clock' <= readNow[c] + MaxLatency
  BY DEF Tick, Evaluating
<1>4. \A c \in Evaluating : readNow[c] <= clock'
  BY <1>2 DEF CallsOK, TypeOK, Times, Evaluating
<1>5. \A g \in grants : g[2] <= clock'
  BY <1>2 DEF CallsOK, TypeOK, Times
<1>. QED  BY <1>1, <1>3, <1>4, <1>5 DEF CallsOK

LEMMA CallsRead ==
    ASSUME TypeOK, CallsOK, NEW c \in Callers, Read(c)
    PROVE  CallsOK'
<1>1. Evaluating' = Evaluating \cup {c} /\ c \notin Evaluating
  BY DEF Read, Evaluating, TypeOK
<1>2. /\ callNo' = [callNo EXCEPT ![c] = calls + 1] /\ calls' = calls + 1
      /\ UNCHANGED <<clock, grants>>
      /\ readNow' = [readNow EXCEPT ![c] = clock]
  BY DEF Read
<1>3. calls \in Nat /\ clock \in Nat /\ MaxLatency \in Nat
  BY DEF TypeOK, Times
<1>4. ASSUME NEW d \in Evaluating'
      PROVE  /\ callNo'[d] \in 1 .. calls'
             /\ \A g \in grants' : g[3] # callNo'[d]
             /\ readNow'[d] <= clock' /\ clock' <= readNow'[d] + MaxLatency
  <2>1. CASE d = c
    BY <1>2, <1>3, <2>1 DEF CallsOK, TypeOK
  <2>2. CASE d # c
    BY <1>1, <1>2, <1>3, <2>2 DEF CallsOK, TypeOK
  <2>. QED  BY <2>1, <2>2
<1>5. \A d, e \in Evaluating' : d # e => callNo'[d] # callNo'[e]
  BY <1>1, <1>2, <1>3 DEF CallsOK, TypeOK
<1>6. \A g \in grants' : g[3] \in 1 .. calls'
  BY <1>2, <1>3 DEF CallsOK
<1>. QED  BY <1>2, <1>4, <1>5, <1>6 DEF CallsOK

LEMMA CallsAnswer ==
    ASSUME TypeOK, CallsOK, NEW c \in Callers, Answer(c),
           grants' \subseteq grants \cup {NewGrant(c)}
    PROVE  CallsOK'
<1>1. Evaluating' = Evaluating \ {c} /\ c \in Evaluating
  BY DEF Answer, Evaluating, TypeOK
<1>2. UNCHANGED <<clock, readNow, calls, callNo>>
  BY DEF Answer
<1>3. \A g \in grants' : g[3] # callNo[c] => g \in grants
  BY DEF NewGrant
<1>4. ASSUME NEW d \in Evaluating', NEW g \in grants' PROVE g[3] # callNo'[d]
  BY <1>1, <1>2, <1>3 DEF CallsOK, NewGrant
<1>8. \A g \in grants' : g[3] = callNo[c] => g = NewGrant(c)
  BY <1>1 DEF CallsOK
<1>5. \A g, h \in grants' : g[3] = h[3] => g = h
  <2>1. SUFFICES ASSUME NEW g \in grants', NEW h \in grants', g[3] = h[3]
                 PROVE  g = h
    OBVIOUS
  <2>2. CASE g[3] = callNo[c]
    BY <1>8, <2>1, <2>2
  <2>3. CASE g[3] # callNo[c]
    <3>1. g \in grants /\ h \in grants
      BY <1>3, <2>1, <2>3
    <3>. QED  BY <2>1, <3>1 DEF CallsOK
  <2>. QED  BY <2>2, <2>3
<1>6. \A g \in grants' : g[1] <= g[2] /\ g[2] <= g[1] + MaxLatency /\ g[2] <= clock
  <2>1. readNow[c] \in Int /\ clock \in Int
    BY DEF TypeOK, Times
  <2>2. readNow[c] <= clock /\ clock <= readNow[c] + MaxLatency
    BY <1>1 DEF CallsOK
  <2>3. NewGrant(c)[1] = readNow[c] /\ NewGrant(c)[2] = clock
    BY DEF NewGrant
  <2>. QED  BY <2>1, <2>2, <2>3 DEF CallsOK
<1>7. \A g \in grants' : g[3] \in 1 .. calls
  BY <1>1 DEF CallsOK, NewGrant
<1>. QED  BY <1>1, <1>2, <1>4, <1>5, <1>6, <1>7 DEF CallsOK
-----------------------------------------------------------------------------
(* Counting the grants of a window.  If every grant later than lo has its  *)
(* member in a sorted set K of at most Limit members, a window of          *)
(* Window - MaxLatency milliseconds ending at or after lo + (Window -      *)
(* MaxLatency) holds at most Limit grants.                                  *)
LEMMA RecentBound ==
    ASSUME NEW G, NEW K, NEW lo \in Int, NEW t \in Int, t >= lo,
           IsFiniteSet(K), Cardinality(K) <= Limit,
           \A g \in G : g[2] \in Int,
           \A g \in G : g[2] > lo - (Window - MaxLatency) => <<g[1], g[3]>> \in K,
           \A g, h \in G : g[3] = h[3] => g = h
    PROVE  WindowCount(G, t, Window - MaxLatency) <= Limit
<1> DEFINE R == {g \in G : g[2] > lo - (Window - MaxLatency)}
           S == {g \in G : g[2] > t - (Window - MaxLatency) /\ g[2] <= t}
<1>1. IsFiniteSet(R) /\ Cardinality(R) <= Cardinality(K)
  <2>1. \A g \in R : <<g[1], g[3]>> \in K
    OBVIOUS
  <2>2. \A g, h \in R : g[3] = h[3] => g = h
    OBVIOUS
  <2>. QED  BY <2>1, <2>2, MemberCount
<1>2. S \subseteq R
  BY MaxLatency \in Nat, Window \in Nat
<1>3. Cardinality(S) <= Cardinality(R)
  BY <1>1, <1>2, FS_Subset
<1>4. Cardinality(S) \in Nat /\ Cardinality(R) \in Nat /\ Cardinality(K) \in Nat
  BY <1>1, <1>2, FS_Subset, FS_CardinalityType
<1>. QED  BY <1>1, <1>3, <1>4 DEF WindowCount

(* A window of Window milliseconds ending at or after a lifetime's start   *)
(* meets that lifetime and the Window milliseconds before it only.         *)
LEMMA TwoLifetimes ==
    ASSUME NEW G, IsFiniteSet(G), NEW e \in Int, NEW t \in Int,
           \A g \in G : g[2] \in Int /\ g[2] <= e,
           e - Window <= t,
           Cardinality(LifeGrants(G, e)) <= Limit,
           Cardinality(PreLifeGrants(G, e)) <= Limit
    PROVE  WindowCount(G, t, Window) <= 2 * Limit
<1> DEFINE S == {g \in G : g[2] > t - Window /\ g[2] <= t}
           C == LifeGrants(G, e)
           P == PreLifeGrants(G, e)
<1>1. S \subseteq P \cup C
  BY DEF LifeGrants, PreLifeGrants
<1>2. IsFiniteSet(C) /\ IsFiniteSet(P)
  BY FS_Subset DEF LifeGrants, PreLifeGrants
<1>3. IsFiniteSet(P \cup C) /\ Cardinality(P \cup C) <= Cardinality(P) + Cardinality(C)
  <2>1. Cardinality(P \cup C) = Cardinality(P) + Cardinality(C) - Cardinality(P \cap C)
        /\ IsFiniteSet(P \cup C)
    BY <1>2, FS_Union
  <2>2. Cardinality(P \cap C) \in Nat /\ Cardinality(P) \in Nat /\ Cardinality(C) \in Nat
    BY <1>2, FS_Intersection, FS_CardinalityType
  <2>. QED  BY <2>1, <2>2
<1>4. Cardinality(S) <= Cardinality(P \cup C) /\ Cardinality(S) \in Nat
      /\ Cardinality(P \cup C) \in Nat
  BY <1>1, <1>3, FS_Subset, FS_CardinalityType
<1>. QED  BY <1>3, <1>4, <1>2, FS_CardinalityType DEF WindowCount
-----------------------------------------------------------------------------
(* What the sliding window script does to the key: it keeps the members    *)
(* of the last window, among them every recent grant's, and adds the       *)
(* caller's member when it admits; the set stays within Limit members.     *)
LEMMA SlidingScript ==
    ASSUME TypeOK, CallsOK, SlidingInv, algorithm = "sliding_window",
           NEW c \in Evaluating, ScriptRuns(c)
    PROVE  /\ kv' \subseteq Times \X (1 .. MaxCalls)
           /\ IsFiniteSet(kv') /\ Cardinality(kv') <= Limit
           /\ kv' # Absent
           /\ expireAt' = clock + 2 * Window
           /\ \A g \in RecentGrants : <<g[1], g[3]>> \in kv'
           /\ \/ grants' = grants
              \/ grants' = grants \cup {NewGrant(c)} /\ <<readNow[c], callNo[c]>> \in kv'
<1> DEFINE now == readNow[c]
           n == callNo[c]
           z == IF Current = Absent THEN {} ELSE Current
           kept == {m \in z : m[1] > now - Window}
<1>0. c \in Callers /\ now \in Times /\ n \in 1 .. MaxCalls /\ clock \in Times
  BY DEF Evaluating, CallsOK, TypeOK
<1>1. /\ kv' = IF Cardinality(kept) < Limit THEN kept \cup {<<now, n>>} ELSE kept
      /\ expireAt' = clock + 2 * Window
      /\ grants' = IF Cardinality(kept) < Limit THEN grants \cup {NewGrant(c)} ELSE grants
  BY DEF ScriptRuns, Allow, slidingWindow, SlidingAdmits
<1>2. z \subseteq Times \X (1 .. MaxCalls) /\ IsFiniteSet(z) /\ Cardinality(z) <= Limit
  <2>1. CASE Current = Absent
    BY <2>1, FS_EmptySet
  <2>2. CASE Current # Absent
    <3>1. z = kv /\ kv # Absent
      BY <2>2 DEF Current, LiveValue
    <3>2. kv \subseteq Times \X (1 .. MaxCalls) /\ Cardinality(kv) <= Limit
      BY <3>1 DEF TypeOK, KeyValueOK
    <3>. QED  BY <3>1, <3>2, KvFinite
  <2>. QED  BY <2>1, <2>2
<1>3. kept \subseteq z /\ IsFiniteSet(kept) /\ Cardinality(kept) <= Limit
      /\ Cardinality(kept) \in Nat
  BY <1>2, FS_Subset, FS_CardinalityType
<1>4. kv' \subseteq Times \X (1 .. MaxCalls) /\ IsFiniteSet(kv') /\ Cardinality(kv') <= Limit
  <2>1. CASE Cardinality(kept) < Limit
    <3>0. IsFiniteSet(kept \cup {<<now, n>>})
          /\ Cardinality(kept \cup {<<now, n>>})
             = IF <<now, n>> \in kept THEN Cardinality(kept) ELSE Cardinality(kept) + 1
      BY <1>3, FS_AddElement
    <3>1. IsFiniteSet(kept \cup {<<now, n>>})
          /\ Cardinality(kept \cup {<<now, n>>}) <= Cardinality(kept) + 1
      BY <1>3, <3>0
    <3>2. <<now, n>> \in Times \X (1 .. MaxCalls)
      BY <1>0
    <3>3. kv' = kept \cup {<<now, n>>}
      BY <1>1, <2>1
    <3>4. Cardinality(kept) + 1 <= Limit
      BY <1>3, <2>1
    <3>5. kv' \subseteq Times \X (1 .. MaxCalls)
      BY <1>2, <1>3, <3>2, <3>3
    <3>6. IsFiniteSet(kv') /\ Cardinality(kv') <= Limit
      <4>1. IsFiniteSet(kv') /\ Cardinality(kv') <= Cardinality(kept) + 1
        BY <3>1, <3>3, Zenon
      <4>2. Cardinality(kv') \in Nat
        BY <4>1, FS_CardinalityType
      <4>. QED  BY <1>3, <3>4, <4>1, <4>2
    <3>. QED  BY <3>5, <3>6
  <2>2. CASE ~(Cardinality(kept) < Limit)
    BY <1>1, <1>2, <1>3, <2>2
  <2>. QED  BY <2>1, <2>2
<1>5. kv' # Absent
  BY <1>4, SetNotAbsent
<1>6. ASSUME NEW g \in RecentGrants PROVE <<g[1], g[3]>> \in kv'
  <2>1. g \in grants /\ g[2] > clock - (Window - MaxLatency)
    BY DEF RecentGrants
  <2>2. kv # Absent /\ g[2] + 2 * Window <= expireAt /\ <<g[1], g[3]>> \in kv
    BY <2>1, <1>6 DEF SlidingInv
  <2>3. g[1] \in Int /\ g[2] \in Int /\ g[2] <= g[1] + MaxLatency
    <3>1. g \in Times \X Times \X (1 .. MaxCalls)
      BY <2>1 DEF TypeOK
    <3>2. g[1] \in Times /\ g[2] \in Times
      BY <3>1
    <3>. QED  BY <2>1, <3>2 DEF CallsOK, Times
  <2>4. readNow[c] <= clock /\ expireAt \in Int
    <3>1. readNow[c] <= clock
      BY DEF CallsOK
    <3>2. expireAt \in Int
      BY DEF TypeOK
    <3>. QED  BY <3>1, <3>2
  <2>5. clock <= expireAt /\ g[1] > now - Window
    BY <1>0, <2>1, <2>2, <2>3, <2>4 DEF Times
  <2>6. z = kv
    <3>1. ~(clock > expireAt)
      BY <1>0, <2>4, <2>5 DEF Times
    <3>2. Current = kv
      BY <2>2, <3>1 DEF Current, LiveValue
    <3>. QED  BY <2>2, <3>2
  <2>7. <<g[1], g[3]>> \in kept
    <3>1. <<g[1], g[3]>>[1] = g[1]
      OBVIOUS
    <3>. QED  BY <2>2, <2>5, <2>6, <3>1
  <2>. QED  BY <1>1, <2>7
<1>7. \/ grants' = grants
      \/ grants' = grants \cup {NewGrant(c)} /\ <<now, n>> \in kv'
  BY <1>1
<1>. QED  BY <1>1, <1>4, <1>5, <1>6, <1>7
-----------------------------------------------------------------------------
(* The type after a caller is answered, given what its script did to the   *)
(* key.                                                                     *)
LEMMA TypeAnswer ==
    ASSUME TypeOK, CallsOK, CallsOK', NEW c \in Evaluating, Answer(c),
           grants' \subseteq grants \cup {NewGrant(c)},
           expireAt' \in 0 .. MaxTime + 2 * Window,
           kv' = Absent \/ KeyValueOK'
    PROVE  TypeOK'
<1>1. UNCHANGED <<algorithm, clock, readNow, calls, callNo>>
      /\ pc' = [pc EXCEPT ![c] = "idle"]
      /\ resp' \in [Callers -> {"none", "next", "429", "500"}]
  BY DEF Answer
<1>2. NewGrant(c) \in Times \X Times \X (1 .. MaxCalls)
  BY DEF NewGrant, CallsOK, TypeOK, Evaluating
<1>3. grants' \subseteq Times \X Times \X (1 .. MaxCalls)
  BY <1>2 DEF TypeOK
<1>4. IsFiniteSet(grants') /\ Cardinality(grants') <= calls
  <2>1. \A g \in grants' : g[3] \in 1 .. calls
    BY <1>1 DEF CallsOK
  <2>2. \A g, h \in grants' : g[3] = h[3] => g = h
    BY DEF CallsOK
  <2>3. calls \in Nat
    BY DEF TypeOK
  <2>. QED  BY <2>1, <2>2, <2>3, IdCount
<1>5. Cardinality(grants') <= MaxCalls
  <2>2. Cardinality(grants') \in Nat
    BY <1>4, FS_CardinalityType
  <2>. QED  BY <1>4, <2>2 DEF TypeOK
<1>. QED  BY <1>1, <1>3, <1>5 DEF TypeOK, Evaluating

(* The sliding window script keeps the invariant.                          *)
LEMMA SlidingAnswer ==
    ASSUME RLInv, algorithm = "sliding_window", NEW c \in Callers,
           Answer(c), ScriptRuns(c)
    PROVE  RLInv'
<1>1. c \in Evaluating /\ TypeOK /\ CallsOK /\ SlidingInv
  BY DEF Answer, Evaluating, RLInv
<1>2. /\ kv' \subseteq Times \X (1 .. MaxCalls)
      /\ IsFiniteSet(kv') /\ Cardinality(kv') <= Limit
      /\ kv' # Absent
      /\ expireAt' = clock + 2 * Window
      /\ \A g \in RecentGrants : <<g[1], g[3]>> \in kv'
      /\ \/ grants' = grants
         \/ grants' = grants \cup {NewGrant(c)} /\ <<readNow[c], callNo[c]>> \in kv'
  BY <1>1, SlidingScript
<1>3. grants' \subseteq grants \cup {NewGrant(c)}
  BY <1>2
<1>4. CallsOK'
  BY <1>1, <1>3, CallsAnswer
<1>5. UNCHANGED <<algorithm, clock>>
  BY DEF Answer
<1>6. TypeOK'
  <2>1. expireAt' \in 0 .. MaxTime + 2 * Window
    BY <1>1, <1>2 DEF TypeOK, Times
  <2>2. KeyValueOK'
    BY <1>2, <1>5 DEF KeyValueOK
  <2>. QED  BY <1>1, <1>3, <1>4, <2>1, <2>2, TypeAnswer
<1>7. \A g \in grants' : kv' # Absent /\ g[2] + 2 * Window <= expireAt'
  <2>1. \A g \in grants' : g[2] <= clock
    BY <1>4, <1>5 DEF CallsOK
  <2>2. clock \in Int
    BY <1>1 DEF TypeOK, Times
  <2>. QED  BY <1>2, <2>1, <2>2, <1>6 DEF TypeOK, Times
<1>8. \A g \in RecentGrants' : <<g[1], g[3]>> \in kv'
  <2>1. SUFFICES ASSUME NEW g \in grants', g[2] > clock - (Window - MaxLatency)
                 PROVE  <<g[1], g[3]>> \in kv'
    BY <1>5 DEF RecentGrants
  <2>2. CASE g \in grants
    BY <1>2, <2>1, <2>2 DEF RecentGrants
  <2>3. CASE g \notin grants
    <3>1. g = NewGrant(c) /\ <<readNow[c], callNo[c]>> \in kv'
      BY <1>2, <2>1, <2>3
    <3>. QED  BY <3>1 DEF NewGrant
  <2>. QED  BY <2>2, <2>3
<1>9. SlidingLatencyBudget'
  <2>1. SUFFICES ASSUME NEW t \in Times
                 PROVE  WindowCount(grants', t, Window - MaxLatency) <= Limit
    BY <1>5 DEF SlidingLatencyBudget, GrantsBefore, GrantsWhere, WindowCount
  <2>2. clock \in Int /\ t \in Int
    BY <1>1 DEF TypeOK, Times
  <2>3. CASE t < clock
    <3>1. {g \in grants' : g[2] > t - (Window - MaxLatency) /\ g[2] <= t}
          = {g \in grants : g[2] > t - (Window - MaxLatency) /\ g[2] <= t}
      BY <1>2, <2>2, <2>3 DEF NewGrant
    <3>. QED  BY <1>1, <2>1, <3>1 DEF SlidingInv, SlidingLatencyBudget, GrantsBefore, GrantsWhere, WindowCount
  <2>4. CASE t >= clock
    <3>1. \A g \in grants' : g[2] \in Int
      BY <1>6 DEF TypeOK, Times
    <3>2. \A g \in grants' : g[2] > clock - (Window - MaxLatency) => <<g[1], g[3]>> \in kv'
      BY <1>5, <1>8 DEF RecentGrants
    <3>3. \A g, h \in grants' : g[3] = h[3] => g = h
      BY <1>4 DEF CallsOK
    <3>4. IsFiniteSet(kv') /\ Cardinality(kv') <= Limit
      BY <1>2
    <3>. QED  BY <2>2, <2>4, <3>1, <3>2, <3>3, <3>4, RecentBound
  <2>. QED  BY <2>2, <2>3, <2>4
<1>10. SlidingInv'
  BY <1>5, <1>7, <1>8, <1>9 DEF SlidingInv
<1>11. FixedInv'
  BY <1>5 DEF FixedInv
<1>. QED  BY <1>4, <1>6, <1>10, <1>11 DEF RLInv
-----------------------------------------------------------------------------
(* Answering a caller retires its call number.                             *)
LEMMA EvalNosAnswer ==
    ASSUME TypeOK, CallsOK, NEW c \in Evaluating, Answer(c)
    PROVE  /\ IsFiniteSet(EvalNos) /\ Cardinality(EvalNos) <= calls
           /\ Cardinality(EvalNos) >= 1
           /\ IsFiniteSet(EvalNos')
           /\ Cardinality(EvalNos') = Cardinality(EvalNos) - 1
<1>1. IsFiniteSet(EvalNos) /\ Cardinality(EvalNos) <= calls
  BY EvalNosCount
<1>2. EvalNos' = EvalNos \ {callNo[c]} /\ callNo[c] \in EvalNos
  <2>1. Evaluating' = Evaluating \ {c} /\ callNo' = callNo
    BY DEF Answer, Evaluating, TypeOK
  <2>2. \A d \in Evaluating \ {c} : callNo[d] # callNo[c]
    BY DEF CallsOK
  <2>. QED  BY <2>1, <2>2 DEF EvalNos
<1>3. IsFiniteSet(EvalNos') /\ Cardinality(EvalNos') = Cardinality(EvalNos) - 1
  BY <1>1, <1>2, FS_RemoveElement
<1>4. Cardinality(EvalNos) >= 1
  <2>1. EvalNos # {} /\ Cardinality(EvalNos) \in Nat
    BY <1>1, <1>2, FS_CardinalityType
  <2>. QED  BY <1>1, <2>1, FS_EmptySet
<1>. QED  BY <1>1, <1>3, <1>4

(* A grant stamped at Redis time after t leaves the windows ending at t    *)
(* unchanged.                                                               *)
LEMMA PastWindow ==
    ASSUME NEW G, NEW x, NEW t \in Int, NEW len, x[2] \in Int, t < x[2]
    PROVE  WindowCount(G \cup {x}, t, len) = WindowCount(G, t, len)
<1>1. {g \in G \cup {x} : g[2] > t - len /\ g[2] <= t} = {g \in G : g[2] > t - len /\ g[2] <= t}
  OBVIOUS
<1>. QED  BY <1>1 DEF WindowCount
-----------------------------------------------------------------------------
(* The fixed window script keeps the invariant: it either starts a new     *)
(* lifetime of the counter, whose window then holds only this grant and   *)
(* after the grants of the lifetime just ended, or counts one more hit in  *)
(* the live lifetime, admitted only up to Limit.                           *)
LEMMA FixedAnswer ==
    ASSUME RLInv, algorithm = "fixed_window", NEW c \in Callers,
           Answer(c), ScriptRuns(c)
    PROVE  RLInv'
<1> DEFINE ng == NewGrant(c)
           Life == LifeGrants(grants', expireAt')
           Pre == PreLifeGrants(grants', expireAt')
<1>1. c \in Evaluating /\ TypeOK /\ CallsOK /\ FixedInv
  BY DEF Answer, Evaluating, RLInv
<1>2. UNCHANGED <<algorithm, clock, calls>>
  BY DEF Answer
<1>3. /\ IsFiniteSet(EvalNos) /\ Cardinality(EvalNos) <= calls
      /\ Cardinality(EvalNos) >= 1
      /\ IsFiniteSet(EvalNos')
      /\ Cardinality(EvalNos') = Cardinality(EvalNos) - 1
  BY <1>1, EvalNosAnswer
<1>4. IsFiniteSet(grants)
  <2>1. calls \in Nat
    BY <1>1 DEF TypeOK
  <2>. QED  BY <1>1, <2>1, IdCount DEF CallsOK
<1>5. /\ clock \in Nat /\ expireAt \in Int /\ calls \in Nat /\ calls <= MaxCalls
      /\ ng[2] = clock /\ callNo[c] \in 1 .. calls
      /\ Cardinality(EvalNos) \in Nat
      /\ \A g \in grants : g[2] \in Int /\ g[2] <= clock
  <2>1. \A g \in grants : g[2] \in Times
    <3>1. SUFFICES ASSUME NEW g \in grants PROVE g[2] \in Times
      OBVIOUS
    <3>2. g \in Times \X Times \X (1 .. MaxCalls)
      BY <1>1, <3>1 DEF TypeOK
    <3>. QED  BY <3>2
  <2>. QED  BY <1>1, <1>3, <2>1, FS_CardinalityType DEF TypeOK, Times, NewGrant, CallsOK
<1>6. /\ grants' \subseteq grants \cup {ng}
      /\ grants' = grants \/ grants' = grants \cup {ng}
  BY DEF ScriptRuns
<1>7. CallsOK'
  BY <1>1, <1>6, CallsAnswer
<1>8. IsFiniteSet(grants') /\ \A g \in grants' : g[2] \in Int
  <2>1. IsFiniteSet(grants \cup {ng})
    BY <1>4, FS_AddElement
  <2>2. IsFiniteSet(grants')
    BY <1>6, <2>1, FS_Subset
  <2>. QED  BY <1>5, <1>6, <2>2
<1>9. /\ Cardinality(Life) <= Limit /\ Cardinality(Pre) <= Limit
      /\ \A g \in grants' : g[2] <= expireAt'
      /\ expireAt' - Window <= clock /\ expireAt' \in Int
      /\ kv' \in 1 .. MaxCalls /\ expireAt' \in 0 .. MaxTime + 2 * Window
      /\ kv' + Cardinality(EvalNos') <= calls
      /\ Cardinality(Life) <= kv'
  <2>1. CASE Current = Absent
    <3>1. kv' = 1 /\ expireAt' = clock + Window /\ grants' = grants \cup {ng}
      <4>1. Allow(Current, expireAt, readNow[c], clock, callNo[c])
            = [value |-> 1, expireAt |-> clock + Window, allowed |-> TRUE]
        <5>1. Allow(Current, expireAt, readNow[c], clock, callNo[c])
              = fixedWindow(Current, expireAt, clock)
          BY <1>1 DEF Allow
        <5>2. 1 <= Limit
          OBVIOUS
        <5>. QED  BY <2>1, <5>1, <5>2 DEF fixedWindow, FixedAdmits
      <4>. QED  BY <4>1 DEF ScriptRuns
    <3>2. \A g \in grants : g[2] < clock
      <4>1. CASE kv = Absent
        BY <1>1, <4>1 DEF FixedInv
      <4>2. CASE kv # Absent
        <5>1. clock > expireAt
          BY <2>1, <4>2 DEF Current, LiveValue
        <5>. QED  BY <1>1, <1>5, <5>1 DEF FixedInv
      <4>. QED  BY <4>1, <4>2
    <3>3. Life = {ng}
      BY <1>5, <3>1, <3>2 DEF LifeGrants
    <3>4. Pre \subseteq CurGrants
      <4>1. CASE kv = Absent
        BY <1>1, <1>5, <3>1, <4>1 DEF FixedInv, PreLifeGrants
      <4>2. CASE kv # Absent
        <5>1. clock > expireAt
          BY <2>1, <4>2 DEF Current, LiveValue
        <5>. QED  BY <1>5, <3>1, <5>1 DEF PreLifeGrants, CurGrants, LifeGrants
      <4>. QED  BY <4>1, <4>2
    <3>5. Cardinality(Life) = 1
      BY <3>3, FS_Singleton
    <3>6. Cardinality(Pre) <= Limit
      <4>1. IsFiniteSet(CurGrants) /\ CurGrants \subseteq grants
        BY <1>4, FS_Subset DEF CurGrants, LifeGrants
      <4>2. Cardinality(Pre) <= Cardinality(CurGrants) /\ Cardinality(Pre) \in Nat
            /\ Cardinality(CurGrants) \in Nat
        BY <3>4, <4>1, FS_Subset, FS_CardinalityType
      <4>. QED  BY <1>1, <4>2 DEF FixedInv
    <3>7. 1 <= MaxCalls /\ clock <= MaxTime
      BY <1>1, <1>5 DEF TypeOK, Times
    <3>. QED  BY <1>3, <1>5, <3>1, <3>5, <3>6, <3>7
  <2>2. CASE Current # Absent
    <3>1. Current = kv /\ kv # Absent /\ ~(clock > expireAt)
      BY <2>2 DEF Current, LiveValue
    <3>2. kv \in 1 .. MaxCalls
      BY <1>1, <3>1 DEF TypeOK, KeyValueOK
    <3>3. /\ kv' = kv + 1 /\ expireAt' = expireAt
          /\ grants' = IF kv + 1 <= Limit THEN grants \cup {ng} ELSE grants
      <4>1. Allow(Current, expireAt, readNow[c], clock, callNo[c])
            = [value |-> kv + 1, expireAt |-> expireAt, allowed |-> kv + 1 <= Limit]
        <5>1. Allow(Current, expireAt, readNow[c], clock, callNo[c])
              = fixedWindow(Current, expireAt, clock)
          BY <1>1 DEF Allow
        <5>2. kv + 1 # 1
          BY <3>2
        <5>. QED  BY <3>1, <5>1, <5>2 DEF fixedWindow, FixedAdmits
      <4>2. kv' = kv + 1 /\ expireAt' = expireAt
        BY <4>1 DEF ScriptRuns
      <4>3. grants' = IF kv + 1 <= Limit THEN grants \cup {NewGrant(c)} ELSE grants
        <5>1. CASE kv + 1 <= Limit
          <6>1. Allow(Current, expireAt, readNow[c], clock, callNo[c])
                = [value |-> kv + 1, expireAt |-> expireAt, allowed |-> TRUE]
            BY <4>1, <5>1
          <6>. QED  BY <5>1, <6>1 DEF ScriptRuns
        <5>2. CASE ~(kv + 1 <= Limit)
          <6>1. Allow(Current, expireAt, readNow[c], clock, callNo[c])
                = [value |-> kv + 1, expireAt |-> expireAt, allowed |-> FALSE]
            <7>1. (kv + 1 <= Limit) = FALSE
              BY <5>2
            <7>. QED  BY <4>1, <7>1, Zenon
          <6>. QED  BY <5>2, <6>1 DEF ScriptRuns
        <5>. QED  BY <5>1, <5>2
      <4>. QED  BY <4>2, <4>3
    <3>4. /\ kv + Cardinality(EvalNos) <= calls /\ expireAt - Window <= clock
          /\ Cardinality(CurGrants) <= kv /\ Cardinality(CurGrants) <= Limit
          /\ Cardinality(PrevGrants) <= Limit
          /\ \A g \in grants : g[2] <= expireAt
      BY <1>1, <3>1 DEF FixedInv
    <3>5. IsFiniteSet(CurGrants) /\ Cardinality(CurGrants) \in Nat
      BY <1>4, FS_Subset, FS_CardinalityType DEF CurGrants, LifeGrants
    <3>6. Pre = PrevGrants
      BY <1>5, <3>3, <3>4 DEF PreLifeGrants, PrevGrants
    <3>7. Cardinality(Life) <= kv + 1 /\ Cardinality(Life) <= Limit
      <4>1. CASE kv + 1 <= Limit
        <5>1. Life = CurGrants \cup {ng}
          BY <1>5, <3>3, <3>4, <4>1 DEF LifeGrants, CurGrants
        <5>2. Cardinality(CurGrants \cup {ng}) <= Cardinality(CurGrants) + 1
          <6>1. Cardinality(CurGrants \cup {ng})
                = IF ng \in CurGrants THEN Cardinality(CurGrants) ELSE Cardinality(CurGrants) + 1
            BY <3>5, FS_AddElement
          <6>. QED  BY <3>5, <6>1
        <5>3. Cardinality(Life) = Cardinality(CurGrants \cup {ng})
          BY <5>1
        <5>4. Cardinality(Life) <= Cardinality(CurGrants) + 1
          BY <5>2, <5>3
        <5>5. Cardinality(Life) \in Nat
          <6>1. Life \subseteq grants'
            BY DEF LifeGrants
          <6>. QED  BY <1>8, <6>1, FS_Subset, FS_CardinalityType
        <5>. QED  BY <3>2, <3>4, <3>5, <4>1, <5>4, <5>5
      <4>2. CASE ~(kv + 1 <= Limit)
        <5>1. Life = CurGrants
          BY <3>3, <4>2 DEF LifeGrants, CurGrants
        <5>. QED  BY <3>2, <3>4, <3>5, <5>1
      <4>. QED  BY <4>1, <4>2
    <3>8. kv + 1 <= MaxCalls
      <4>1. Cardinality(EvalNos) \in Nat /\ Cardinality(EvalNos) >= 1
        BY <1>3, <1>5
      <4>2. kv \in Nat /\ calls \in Nat /\ calls <= MaxCalls
        BY <1>5, <3>2
      <4>. QED  BY <3>4, <4>1, <4>2
    <3>9. \A g \in grants' : g[2] <= expireAt'
      BY <1>5, <1>6, <3>1, <3>3, <3>4
    <3>10. Cardinality(Pre) <= Limit
      BY <3>4, <3>6
    <3>11. kv' \in 1 .. MaxCalls /\ kv' + Cardinality(EvalNos') <= calls
      BY <1>3, <1>5, <3>2, <3>3, <3>4, <3>8
    <3>12. expireAt' - Window <= clock /\ expireAt' \in 0 .. MaxTime + 2 * Window
      BY <1>1, <3>3, <3>4 DEF TypeOK
    <3>. QED  BY <3>3, <3>7, <3>9, <3>10, <3>11, <3>12
  <2>. QED  BY <2>1, <2>2
<1>10. FixedWindowBurst'
  <2>1. SUFFICES ASSUME NEW t \in Times
                 PROVE  WindowCount(grants', t, Window) <= 2 * Limit
    BY <1>2 DEF FixedWindowBurst, GrantsBefore, GrantsWhere, WindowCount
  <2>2. t \in Int
    BY DEF Times
  <2>3. CASE t < clock
    <3>1. WindowCount(grants \cup {ng}, t, Window) = WindowCount(grants, t, Window)
      <4>1. ng[2] \in Int /\ t < ng[2]
        BY <1>5, <2>2, <2>3
      <4>. QED  BY <2>2, <4>1, PastWindow
    <3>2. WindowCount(grants', t, Window) = WindowCount(grants, t, Window)
      BY <1>6, <3>1
    <3>. QED  BY <1>1, <3>2 DEF FixedInv, FixedWindowBurst, GrantsBefore, GrantsWhere, WindowCount
  <2>4. CASE t >= clock
    <3>1. \A g \in grants' : g[2] \in Int /\ g[2] <= expireAt'
      BY <1>8, <1>9
    <3>2. expireAt' - Window <= t
      <4>1. expireAt' - Window <= clock /\ expireAt' \in Int /\ clock \in Int
        <5>1. expireAt' - Window <= clock /\ expireAt' \in Int
          BY <1>9, Zenon
        <5>2. clock \in Int
          BY <1>5
        <5>. QED  BY <5>1, <5>2, Zenon
      <4>2. Window \in Nat /\ clock <= t
        BY <2>4
      <4>. QED  BY <2>2, <4>1, <4>2, ShiftBound, Zenon
    <3>. QED  BY <1>8, <1>9, <2>2, <3>1, <3>2, TwoLifetimes
  <2>. QED  BY <1>5, <2>2, <2>3, <2>4
<1>11. TypeOK'
  <2>1. KeyValueOK'
    BY <1>2, <1>9 DEF KeyValueOK
  <2>. QED  BY <1>1, <1>6, <1>7, <1>9, <2>1, TypeAnswer
<1>12. FixedInv'
  <2>1. kv' # Absent
    BY <1>9
  <2>. QED  BY <1>2, <1>9, <1>10, <2>1 DEF FixedInv, CurGrants, PrevGrants
<1>13. SlidingInv'
  BY <1>2 DEF SlidingInv
<1>. QED  BY <1>7, <1>11, <1>12, <1>13 DEF RLInv
-----------------------------------------------------------------------------
(* The token bucket script keeps the bucket's shape: at most Burst tokens  *)
(* (times Window), whatever the elapsed time, negative included.           *)
LEMMA TokenAnswer ==
    ASSUME RLInv, algorithm = "token_bucket", NEW c \in Callers,
           Answer(c), ScriptRuns(c)
    PROVE  RLInv'
<1> DEFINE now == readNow[c]
           tk == IF Current = Absent THEN Burst * Window ELSE Current.tokens
           last == IF Current = Absent THEN now ELSE Current.lastRefill
           refilled == Refill(tk, now - last)
<1>1. c \in Evaluating /\ TypeOK /\ CallsOK
  BY DEF Answer, Evaluating, RLInv
<1>2. UNCHANGED <<algorithm, clock>>
  BY DEF Answer
<1>3. /\ kv' = [tokens |-> IF refilled >= Window THEN refilled - Window ELSE refilled,
                lastRefill |-> now]
      /\ expireAt' = clock + 2 * Window
      /\ grants' \subseteq grants \cup {NewGrant(c)}
  <2>1. Allow(Current, expireAt, now, clock, callNo[c]) = tokenBucket(Current, now, clock)
    BY DEF Allow
  <2>. QED  BY <2>1 DEF ScriptRuns, tokenBucket
<1>4. Burst * Window \in Int /\ now \in Times /\ clock \in Times
  BY <1>1 DEF Burst, TypeOK, Times, Evaluating
<1>5. tk \in Int /\ tk <= Burst * Window /\ last \in Int
  <2>1. CASE Current = Absent
    BY <1>4, <2>1 DEF Times
  <2>2. CASE Current # Absent
    <3>1. Current = kv /\ kv # Absent
      BY <2>2 DEF Current, LiveValue
    <3>2. kv.tokens \in Int /\ kv.tokens <= Burst * Window /\ kv.lastRefill \in Times
      BY <1>1, <3>1 DEF TypeOK, KeyValueOK
    <3>. QED  BY <2>2, <3>1, <3>2 DEF Times
  <2>. QED  BY <2>1, <2>2
<1>6. refilled \in Int /\ refilled <= Burst * Window
  BY <1>4, <1>5 DEF Refill, MinOf, Times
<1>7. KeyValueOK'
  <2>1. kv'.tokens \in Int /\ kv'.tokens <= Burst * Window /\ kv'.lastRefill \in Times
    BY <1>3, <1>4, <1>6
  <2>. QED  BY <1>2, <2>1 DEF KeyValueOK
<1>8. CallsOK'
  BY <1>1, <1>3, CallsAnswer
<1>9. TypeOK'
  <2>1. expireAt' \in 0 .. MaxTime + 2 * Window
    BY <1>3, <1>4 DEF Times
  <2>. QED  BY <1>1, <1>3, <1>7, <1>8, <2>1, TypeAnswer
<1>. QED  BY <1>2, <1>8, <1>9 DEF RLInv, SlidingInv, FixedInv
-----------------------------------------------------------------------------
(* Time passing keeps the invariant: the budgets speak of grants only, and *)
(* a recent grant only stops being recent.                                  *)
LEMMA TickStep ==
    ASSUME RLInv, Tick
    PROVE  RLInv'
<1>1. TypeOK /\ CallsOK /\ SlidingInv /\ FixedInv
  BY DEF RLInv
<1>2. UNCHANGED <<algorithm, kv, expireAt, pc, readNow, calls, resp, callNo, grants>>
      /\ clock' = clock + 1 /\ clock < MaxTime
  BY DEF Tick
<1>3. CallsOK'
  BY <1>1, CallsTick
<1>4. TypeOK'
  BY <1>1, <1>2 DEF TypeOK, Times, KeyValueOK
<1>5. SlidingInv'
  <2>1. RecentGrants' \subseteq RecentGrants
    BY <1>1, <1>2 DEF RecentGrants, TypeOK, Times
  <2>. QED  BY <1>1, <1>2, <2>1
            DEF SlidingInv, SlidingLatencyBudget, GrantsBefore, GrantsWhere
<1>6. FixedInv'
  <2>1. EvalNos' = EvalNos
    BY <1>2 DEF EvalNos, Evaluating
  <2>2. expireAt - Window <= clock => expireAt' - Window <= clock'
    BY <1>1, <1>2 DEF TypeOK, Times
  <2>. QED  BY <1>1, <1>2, <2>1, <2>2
            DEF FixedInv, CurGrants, PrevGrants, FixedWindowBurst, GrantsBefore, GrantsWhere
<1>. QED  BY <1>3, <1>4, <1>5, <1>6 DEF RLInv

(* A request arriving keeps the invariant: it takes a fresh call number.   *)
LEMMA ReadStep ==
    ASSUME RLInv, NEW c \in Callers, Read(c)
    PROVE  RLInv'
<1>1. TypeOK /\ CallsOK /\ SlidingInv /\ FixedInv
  BY DEF RLInv
<1>2. /\ UNCHANGED <<algorithm, clock, kv, expireAt, resp, grants>>
      /\ pc[c] = "idle" /\ pc' = [pc EXCEPT ![c] = "eval"]
      /\ readNow' = [readNow EXCEPT ![c] = clock]
      /\ calls < MaxCalls /\ calls' = calls + 1
      /\ callNo' = [callNo EXCEPT ![c] = calls + 1]
  BY DEF Read
<1>3. CallsOK'
  BY <1>1, CallsRead
<1>4. TypeOK'
  <2>1. (kv = Absent \/ KeyValueOK)'
    BY <1>1, <1>2 DEF TypeOK, KeyValueOK
  <2>2. callNo' \in [Callers -> 0 .. MaxCalls] /\ readNow' \in [Callers -> Times]
        /\ pc' \in [Callers -> {"idle", "eval"}] /\ calls' \in 0 .. MaxCalls
    BY <1>1, <1>2 DEF TypeOK, Times
  <2>. QED  BY <1>1, <1>2, <2>1, <2>2 DEF TypeOK
<1>5. SlidingInv'
  BY <1>1, <1>2 DEF SlidingInv, RecentGrants, SlidingLatencyBudget, GrantsBefore, GrantsWhere
<1>6. /\ Cardinality(EvalNos') <= Cardinality(EvalNos) + 1
      /\ Cardinality(EvalNos') \in Nat /\ Cardinality(EvalNos) \in Nat
  <2>1. EvalNos' = EvalNos \cup {calls + 1}
    <3>1. Evaluating' = Evaluating \cup {c} /\ c \notin Evaluating
      BY <1>1, <1>2 DEF Evaluating, TypeOK
    <3>2. callNo'[c] = calls + 1 /\ \A d \in Evaluating : callNo'[d] = callNo[d]
      BY <1>1, <1>2, <3>1 DEF TypeOK, Evaluating
    <3>. QED  BY <3>1, <3>2 DEF EvalNos
  <2>2. IsFiniteSet(EvalNos) /\ Cardinality(EvalNos) \in Nat
    BY <1>1, EvalNosCount, FS_CardinalityType
  <2>3. Cardinality(EvalNos \cup {calls + 1})
        = IF calls + 1 \in EvalNos THEN Cardinality(EvalNos) ELSE Cardinality(EvalNos) + 1
    BY <2>2, FS_AddElement
  <2>4. IsFiniteSet(EvalNos \cup {calls + 1})
    BY <2>2, FS_AddElement
  <2>5. Cardinality(EvalNos') \in Nat
    BY <2>1, <2>4, FS_CardinalityType
  <2>. QED  BY <2>1, <2>2, <2>3, <2>5
<1>7. FixedInv'
  <2>1. kv # Absent /\ algorithm = "fixed_window" => kv + Cardinality(EvalNos') <= calls'
    <3>1. Cardinality(EvalNos) \in Nat /\ calls \in Nat
      BY <1>1, EvalNosCount, FS_CardinalityType DEF TypeOK
    <3>2. kv # Absent /\ algorithm = "fixed_window" => kv \in Nat
      BY <1>1 DEF TypeOK, KeyValueOK
    <3>3. kv # Absent /\ algorithm = "fixed_window" => kv + Cardinality(EvalNos) <= calls
      BY <1>1 DEF FixedInv
    <3>. QED  BY <1>2, <1>6, <3>1, <3>2, <3>3
  <2>. QED  BY <1>1, <1>2, <2>1
            DEF FixedInv, CurGrants, PrevGrants, FixedWindowBurst, GrantsBefore, GrantsWhere
<1>. QED  BY <1>3, <1>4, <1>5, <1>7 DEF RLInv

(* An Eval call that fails before its script runs keeps the invariant.     *)
LEMMA LostStep ==
    ASSUME RLInv, NEW c \in Callers, Answer(c), UNCHANGED <<kv, expireAt, grants>>
    PROVE  RLInv'
<1>1. c \in Evaluating /\ TypeOK /\ CallsOK /\ SlidingInv /\ FixedInv
  BY DEF Answer, Evaluating, RLInv
<1>2. UNCHANGED <<algorithm, clock, calls>>
  BY DEF Answer
<1>3. CallsOK'
  BY <1>1, CallsAnswer
<1>4. TypeOK'
  <2>1. expireAt' \in 0 .. MaxTime + 2 * Window /\ (kv' = Absent \/ KeyValueOK')
    BY <1>1, <1>2 DEF TypeOK, KeyValueOK
  <2>. QED  BY <1>1, <1>3, <2>1, TypeAnswer
<1>5. SlidingInv'
  BY <1>1, <1>2 DEF SlidingInv, RecentGrants, SlidingLatencyBudget, GrantsBefore, GrantsWhere
<1>6. FixedInv'
  <2>1. Cardinality(EvalNos') <= Cardinality(EvalNos) /\ Cardinality(EvalNos') \in Nat
        /\ Cardinality(EvalNos) \in Nat
    BY <1>1, EvalNosAnswer, FS_CardinalityType
  <2>2. kv # Absent /\ algorithm = "fixed_window" => kv \in Nat
    BY <1>1 DEF TypeOK, KeyValueOK
  <2>3. kv # Absent /\ algorithm = "fixed_window" => kv + Cardinality(EvalNos') <= calls'
    <3>1. kv # Absent /\ algorithm = "fixed_window" => kv + Cardinality(EvalNos) <= calls
      BY <1>1 DEF FixedInv
    <3>2. calls \in Nat
      BY <1>1 DEF TypeOK
    <3>. QED  BY <1>2, <2>1, <2>2, <3>1, <3>2
  <2>. QED  BY <1>1, <1>2, <2>3
            DEF FixedInv, CurGrants, PrevGrants, FixedWindowBurst, GrantsBefore, GrantsWhere
<1>. QED  BY <1>3, <1>4, <1>5, <1>6 DEF RLInv
-----------------------------------------------------------------------------
(* A caller's Eval call, answered or failed, keeps the invariant.         *)
LEMMA EvalStep ==
    ASSUME RLInv, NEW c \in Callers, Eval(c) \/ EvalFails(c)
    PROVE  RLInv'
<1>1. Answer(c) /\ (ScriptRuns(c) \/ UNCHANGED <<kv, expireAt, grants>>)
  BY EvalCases DEF RLInv
<1>2. CASE ScriptRuns(c)
  <2>1. algorithm \in {"sliding_window", "fixed_window", "token_bucket"}
    BY DEF RLInv, TypeOK
  <2>. QED  BY <1>1, <1>2, <2>1, SlidingAnswer, FixedAnswer, TokenAnswer
<1>3. CASE UNCHANGED <<kv, expireAt, grants>>
  BY <1>1, <1>3, LostStep
<1>. QED  BY <1>1, <1>2, <1>3

(* Every step of the limiter keeps the invariant.                          *)
LEMMA RLStep ==
    ASSUME RLInv, [Next]_vars
    PROVE  RLInv'
<1>1. CASE Tick
  BY <1>1, TickStep
<1>2. ASSUME NEW c \in Callers, Read(c) PROVE RLInv'
  BY <1>2, ReadStep
<1>3. ASSUME NEW c \in Callers, Eval(c) \/ EvalFails(c) PROVE RLInv'
  BY <1>3, EvalStep
<1>4. CASE Finished \/ UNCHANGED vars
  <2>1. UNCHANGED vars
    BY <1>4 DEF Finished
  <2>. QED  BY <2>1
        DEF vars, RLInv, TypeOK, KeyValueOK, CallsOK, Evaluating, SlidingInv,
            RecentGrants, SlidingLatencyBudget, FixedInv, EvalNos, CurGrants,
            PrevGrants, LifeGrants, PreLifeGrants, FixedWindowBurst, GrantsBefore,
            GrantsWhere
<1>. QED  BY <1>1, <1>2, <1>3, <1>4 DEF Next
-----------------------------------------------------------------------------
(* The inductive invariant holds in every reachable state.                 *)
THEOREM RLInvariant == Spec => []RLInv
<1>1. Init => RLInv
  BY RLInit
<1>2. RLInv /\ [Next]_vars => RLInv'
  BY RLStep
<1>. QED  BY <1>1, <1>2, PTL DEF Spec

(* Type correctness of the limiter (RateLimiter.TypeOK): the key always    *)
(* has the shape of its algorithm, a sliding window log never holds more   *)
(* than Limit members and the bucket never more than Burst tokens.        *)
THEOREM TypeCorrect == Spec => []TypeOK
BY RLInvariant, PTL DEF RLInv

(* Sliding window log (redis_store.go 125-180, with the caller's stale     *)
(* now): in every window of Window - MaxLatency milliseconds of Redis time *)
(* at most Limit requests are admitted, for every limit, window, latency  *)
(* bound and number of concurrent callers.                                *)
THEOREM SlidingLatencyBudgetHolds == Spec => []SlidingLatencyBudget
<1>1. RLInv => SlidingLatencyBudget
  BY DEF RLInv, SlidingInv, SlidingLatencyBudget
<1>. QED  BY RLInvariant, <1>1, PTL

(* Fixed window counter (redis_store.go 182-233): every window of Window   *)
(* milliseconds of Redis time admits at most 2 * Limit requests, the      *)
(* documented boundary burst and no more, whatever the order of INCRs and *)
(* expiries.                                                                *)
THEOREM FixedWindowBurstHolds == Spec => []FixedWindowBurst
<1>1. RLInv => FixedWindowBurst
  BY DEF RLInv, FixedInv, FixedWindowBurst
<1>. QED  BY RLInvariant, <1>1, PTL
-----------------------------------------------------------------------------
(***************************************************************************)
(* The token bucket.  Its budget holds when an expired bucket, refilled to *)
(* Burst, could have refilled as much anyway: the key expires 2 * Window  *)
(* after the last script, and the next script's `now` is at most          *)
(* MaxLatency stale, so at least 2 * Window + 1 - MaxLatency milliseconds  *)
(* of refill have passed since that script's.                              *)
(***************************************************************************)
TokenBudgetCondition == Burst * Window <= (2 * Window + 1 - MaxLatency) * Limit

(* The grants stamped (by their caller's `now`) at or after t1, and those  *)
(* stamped in [t1, t2].                                                     *)
StampedFrom(G, t1) == Cardinality({g \in G : g[1] >= t1})

StampedIn(G, t1, t2) == Cardinality({g \in G : g[1] >= t1 /\ g[1] <= t2})

(* A bucket with T tokens last refilled at l has paid for the S grants     *)
(* stamped at or after t1: together they are at most a full bucket plus    *)
(* the refill from t1 to l.                                                 *)
Covers(S, T, l, t1) == S = 0 \/ S * Window + T <= Burst * Window + (l - t1) * Limit

(* TokenBucketBudget for the grants G.                                     *)
BucketBudget(G) ==
    \A t1, t2 \in Times :
        t1 <= t2 => StampedIn(G, t1, t2) * Window <= Burst * Window + (t2 - t1) * Limit

(* The bucket's accounting: a missing key has granted nothing; the live   *)
(* bucket covers the grants stamped since any t1, and its tokens are      *)
(* never so negative that the refill up to its last script's Redis time   *)
(* (expireAt - 2 * Window) leaves them below zero.                          *)
TokenInv ==
    algorithm = "token_bucket" =>
        /\ kv = Absent => grants = {}
        /\ kv # Absent =>
              /\ expireAt - 2 * Window <= clock
              /\ kv.tokens + (expireAt - 2 * Window - kv.lastRefill) * Limit >= 0
              /\ \A t1 \in Times : Covers(StampedFrom(grants, t1), kv.tokens, kv.lastRefill, t1)
        /\ BucketBudget(grants)
-----------------------------------------------------------------------------
(* A product of naturals is a natural.                                      *)
LEMMA MulNat ==
    ASSUME NEW a \in Nat, NEW b \in Nat
    PROVE  a * b \in Nat
OBVIOUS

(* One script, in numbers: with R the refilled tokens, admitting when R is *)
(* at least Window keeps the grants since t1 covered by the new bucket,    *)
(* last refilled at n.                                                      *)
LEMMA CoverStep ==
    ASSUME NEW T \in Int, NEW l \in Int, NEW n \in Int, NEW t1 \in Int,
           NEW S \in Nat, NEW R \in Int,
           Covers(S, T, l, t1),
           R <= T + (n - l) * Limit, R <= Burst * Window
    PROVE  Covers(IF R >= Window /\ n >= t1 THEN S + 1 ELSE S,
                  IF R >= Window THEN R - Window ELSE R, n, t1)
<1> DEFINE B == Burst * Window
<1>1. B \in Int /\ Window \in Nat \ {0} /\ Limit \in Nat
  BY DEF Burst
<1>2. (l - t1) * Limit + (n - l) * Limit = (n - t1) * Limit
  BY <1>1
<1>3. CASE S = 0
  <2>1. n >= t1 => R <= B + (n - t1) * Limit
    <3>1. n >= t1 => (n - t1) * Limit >= 0
      BY <1>1
    <3>. QED  BY <3>1, <1>1
  <2>. QED  BY <1>3, <2>1, <1>1 DEF Covers
<1>4. CASE S * Window + T <= B + (l - t1) * Limit
  <2>1. S * Window \in Int
    BY <1>1
  <2>. QED  BY <1>1, <1>2, <1>4, <2>1 DEF Covers
<1>. QED  BY <1>3, <1>4 DEF Covers

(* An admitted script whose stamp n lies in [t1, t2] keeps the budget of  *)
(* [t1, t2] when the bucket covered the grants since t1.                   *)
LEMMA BudgetStep ==
    ASSUME NEW T \in Int, NEW l \in Int, NEW n \in Int, NEW t1 \in Int,
           NEW t2 \in Int, NEW S \in Nat, NEW I \in Nat, NEW R \in Int,
           Covers(S, T, l, t1), I <= S,
           R <= T + (n - l) * Limit, R >= Window,
           t1 <= n, n <= t2
    PROVE  (I + 1) * Window <= Burst * Window + (t2 - t1) * Limit
<1> DEFINE B == Burst * Window
<1>1. B \in Int /\ Window \in Nat \ {0} /\ Limit \in Nat /\ Burst \in Nat \ {0}
  BY DEF Burst
<1>2. Window <= B /\ (t2 - t1) * Limit >= (n - t1) * Limit /\ (n - t1) * Limit >= 0
  <2>1. (Burst - 1) * Window \in Nat /\ (t2 - n) * Limit \in Nat /\ (n - t1) * Limit \in Nat
    <3>1. Burst - 1 \in Nat /\ t2 - n \in Nat /\ n - t1 \in Nat
      BY <1>1
    <3>. QED  BY <3>1, <1>1, MulNat, Zenon
  <2>2. B = (Burst - 1) * Window + Window
    BY <1>1
  <2>3. (t2 - t1) * Limit = (t2 - n) * Limit + (n - t1) * Limit
    BY <1>1
  <2>. QED  BY <2>1, <2>2, <2>3
<1>3. I * Window <= S * Window /\ I * Window \in Int /\ S * Window \in Int
  <2>1. (S - I) * Window \in Nat /\ I * Window \in Nat
    <3>1. S - I \in Nat
      OBVIOUS
    <3>. QED  BY <3>1, <1>1, MulNat, Zenon
  <2>2. S * Window = I * Window + (S - I) * Window
    BY <1>1
  <2>. QED  BY <2>1, <2>2
<1>4. (l - t1) * Limit + (n - l) * Limit = (n - t1) * Limit
  BY <1>1
<1>5. CASE S = 0
  BY <1>1, <1>2, <1>5
<1>6. CASE S * Window + T <= B + (l - t1) * Limit
  <2>1. (I + 1) * Window = I * Window + Window
    BY <1>1
  <2>2. Window - T <= (n - l) * Limit
    OBVIOUS
  <2>0. (l - t1) * Limit \in Int /\ (n - l) * Limit \in Int /\ (n - t1) * Limit \in Int
        /\ (t2 - t1) * Limit \in Int
    BY <1>1
  <2>3. I * Window + Window <= B + (l - t1) * Limit - T + Window
    BY <1>1, <1>3, <1>6, <2>0
  <2>. QED  BY <1>1, <1>2, <1>4, <2>0, <2>1, <2>2, <2>3
<1>. QED  BY <1>5, <1>6 DEF Covers

(* A bucket that expired and is refilled to Burst still covers the grants *)
(* it had covered: under TokenBudgetCondition the refill since the expired *)
(* bucket's last script is worth a full bucket.                             *)
LEMMA ExpiredCover ==
    ASSUME TokenBudgetCondition,
           NEW T \in Int, NEW l \in Int, NEW e \in Int, NEW n \in Int,
           NEW t \in Int, NEW t1 \in Int, NEW S \in Nat,
           Covers(S, T, l, t1),
           T + (e - 2 * Window - l) * Limit >= 0,
           t > e, t <= n + MaxLatency
    PROVE  Covers(S, Burst * Window, n, t1)
<1> DEFINE B == Burst * Window
<1>1. B \in Int /\ Window \in Nat \ {0} /\ Limit \in Nat /\ MaxLatency \in Nat
  BY DEF Burst
<1>2. B <= (2 * Window + 1 - MaxLatency) * Limit
  BY DEF TokenBudgetCondition
<1>3. (l - t1) * Limit + (e - 2 * Window - l) * Limit = (e - 2 * Window - t1) * Limit
  BY <1>1
<1>4. (e - 2 * Window - t1) * Limit <= (n + MaxLatency - 1 - 2 * Window - t1) * Limit
  BY <1>1
<1>5. (2 * Window + 1 - MaxLatency) * Limit + (n + MaxLatency - 1 - 2 * Window - t1) * Limit
        = (n - t1) * Limit
  BY <1>1
<1>6. CASE S * Window + T <= B + (l - t1) * Limit
  <2>1. S * Window \in Int
    BY <1>1
  <2>. QED  BY <1>1, <1>2, <1>3, <1>4, <1>5, <1>6, <2>1 DEF Covers
<1>. QED  BY <1>6 DEF Covers
-----------------------------------------------------------------------------
(* Adding a new element to a finite set counts one more.                   *)
LEMMA AddFresh ==
    ASSUME NEW A, IsFiniteSet(A), NEW x, x \notin A
    PROVE  Cardinality(A \cup {x}) = Cardinality(A) + 1
<1>1. Cardinality(A \cup {x}) = IF x \in A THEN Cardinality(A) ELSE Cardinality(A) + 1
  BY FS_AddElement, Zenon
<1>. QED  BY <1>1

(* Counting stamps: the counts are naturals, and a new grant x counts in   *)
(* the intervals that hold its stamp.                                       *)
LEMMA StampedCount ==
    ASSUME NEW G, IsFiniteSet(G), NEW t1, NEW t2
    PROVE  /\ StampedFrom(G, t1) \in Nat /\ StampedIn(G, t1, t2) \in Nat
           /\ StampedIn(G, t1, t2) <= StampedFrom(G, t1)
<1>1. {g \in G : g[1] >= t1 /\ g[1] <= t2} \subseteq {g \in G : g[1] >= t1}
      /\ {g \in G : g[1] >= t1} \subseteq G
  OBVIOUS
<1>. QED  BY <1>1, FS_Subset, FS_CardinalityType DEF StampedFrom, StampedIn

LEMMA StampedAdd ==
    ASSUME NEW G, IsFiniteSet(G), NEW x, x \notin G, NEW t1, NEW t2
    PROVE  /\ StampedFrom(G \cup {x}, t1)
                = IF x[1] >= t1 THEN StampedFrom(G, t1) + 1 ELSE StampedFrom(G, t1)
           /\ StampedIn(G \cup {x}, t1, t2)
                = IF x[1] >= t1 /\ x[1] <= t2 THEN StampedIn(G, t1, t2) + 1
                  ELSE StampedIn(G, t1, t2)
<1> DEFINE F(H) == {g \in H : g[1] >= t1}
           N(H) == {g \in H : g[1] >= t1 /\ g[1] <= t2}
<1>1. IsFiniteSet(F(G)) /\ IsFiniteSet(N(G)) /\ x \notin F(G) /\ x \notin N(G)
  BY FS_Subset
<1>2. F(G \cup {x}) = IF x[1] >= t1 THEN F(G) \cup {x} ELSE F(G)
  OBVIOUS
<1>3. N(G \cup {x}) = IF x[1] >= t1 /\ x[1] <= t2 THEN N(G) \cup {x} ELSE N(G)
  OBVIOUS
<1>4. Cardinality(F(G) \cup {x}) = Cardinality(F(G)) + 1
      /\ Cardinality(N(G) \cup {x}) = Cardinality(N(G)) + 1
  <2>1. Cardinality(F(G) \cup {x}) = Cardinality(F(G)) + 1
    BY <1>1, AddFresh, Zenon
  <2>2. Cardinality(N(G) \cup {x}) = Cardinality(N(G)) + 1
    BY <1>1, AddFresh, Zenon
  <2>. QED  BY <2>1, <2>2
<1>5. StampedFrom(G \cup {x}, t1)
        = IF x[1] >= t1 THEN StampedFrom(G, t1) + 1 ELSE StampedFrom(G, t1)
  <2>1. CASE x[1] >= t1
    BY <1>2, <1>4, <2>1, Zenon DEF StampedFrom
  <2>2. CASE ~(x[1] >= t1)
    BY <1>2, <2>2, Zenon DEF StampedFrom
  <2>. QED  BY <2>1, <2>2
<1>6. StampedIn(G \cup {x}, t1, t2)
        = IF x[1] >= t1 /\ x[1] <= t2 THEN StampedIn(G, t1, t2) + 1 ELSE StampedIn(G, t1, t2)
  <2>1. CASE x[1] >= t1 /\ x[1] <= t2
    BY <1>3, <1>4, <2>1, Zenon DEF StampedIn
  <2>2. CASE ~(x[1] >= t1 /\ x[1] <= t2)
    BY <1>3, <2>2, Zenon DEF StampedIn
  <2>. QED  BY <2>1, <2>2
<1>. QED  BY <1>5, <1>6

(* The grants are finitely many.                                            *)
LEMMA GrantsFinite ==
    ASSUME TypeOK, CallsOK
    PROVE  IsFiniteSet(grants) /\ Cardinality(grants) <= calls
<1>1. \A g \in grants : g[3] \in 1 .. calls
  BY DEF CallsOK
<1>2. \A g, h \in grants : g[3] = h[3] => g = h
  BY DEF CallsOK
<1>3. calls \in Nat
  BY DEF TypeOK
<1>. QED  BY <1>1, <1>2, <1>3, IdCount

(* TokenBucketBudget is the budget of the grants.                          *)
LEMMA BudgetOfGrants ==
    TokenBucketBudget = (algorithm = "token_bucket" => BucketBudget(grants))
BY DEF TokenBucketBudget, BucketBudget, GrantsWhere, StampedIn
-----------------------------------------------------------------------------
(* The bucket a caller's script starts from: the live key, or a full one   *)
(* last refilled at the caller's `now` when the key is missing.            *)
ScriptTokens == IF Current = Absent THEN Burst * Window ELSE Current.tokens

ScriptLast(c) == IF Current = Absent THEN readNow[c] ELSE Current.lastRefill

(* The bucket a script starts from covers every grant, whether the key is *)
(* live, missing, or expired: an expired key was at least                  *)
(* 2 * Window + 1 - MaxLatency milliseconds of refill behind.              *)
LEMMA TokenPre ==
    ASSUME TokenBudgetCondition, RLInv, TokenInv, algorithm = "token_bucket",
           NEW c \in Evaluating
    PROVE  /\ ScriptTokens \in Int /\ ScriptLast(c) \in Int
           /\ ScriptTokens <= Burst * Window
           /\ ScriptTokens + (clock - ScriptLast(c)) * Limit >= 0
           /\ \A t1 \in Times : Covers(StampedFrom(grants, t1), ScriptTokens, ScriptLast(c), t1)
<1>1. TypeOK /\ CallsOK
  BY DEF RLInv
<1>2. readNow[c] \in Int /\ clock \in Int /\ readNow[c] <= clock
      /\ clock <= readNow[c] + MaxLatency /\ expireAt \in Int
  BY <1>1 DEF TypeOK, CallsOK, Evaluating, Times
<1>3. Burst * Window \in Nat /\ Limit \in Nat /\ Window \in Nat
  <2>1. Burst \in Nat
    BY DEF Burst
  <2>. QED  BY <2>1, MulNat
<1>4. CASE Current # Absent
  <2>1. Current = kv /\ kv # Absent /\ clock <= expireAt
    BY <1>2, <1>4 DEF Current, LiveValue
  <2>2. kv.tokens \in Int /\ kv.tokens <= Burst * Window /\ kv.lastRefill \in Int
    BY <1>1, <2>1 DEF TypeOK, KeyValueOK, Times
  <2>3. /\ expireAt - 2 * Window <= clock
        /\ kv.tokens + (expireAt - 2 * Window - kv.lastRefill) * Limit >= 0
        /\ \A t1 \in Times : Covers(StampedFrom(grants, t1), kv.tokens, kv.lastRefill, t1)
    BY <2>1 DEF TokenInv
  <2>4. kv.tokens + (clock - kv.lastRefill) * Limit >= 0
    <3>1. (clock - (expireAt - 2 * Window)) * Limit \in Nat
      <4>1. clock - (expireAt - 2 * Window) \in Nat
        BY <1>2, <1>3, <2>3
      <4>. QED  BY <4>1, <1>3, MulNat, Zenon
    <3>2. (clock - kv.lastRefill) * Limit
          = (expireAt - 2 * Window - kv.lastRefill) * Limit
            + (clock - (expireAt - 2 * Window)) * Limit
      BY <1>2, <1>3, <2>2
    <3>3. (expireAt - 2 * Window - kv.lastRefill) * Limit \in Int
      BY <1>2, <1>3, <2>2
    <3>. QED  BY <2>3, <3>1, <3>2, <3>3, <2>2
  <2>. QED  BY <1>4, <2>1, <2>2, <2>3, <2>4 DEF ScriptTokens, ScriptLast
<1>5. CASE Current = Absent
  <2>1. ScriptTokens = Burst * Window /\ ScriptLast(c) = readNow[c]
    BY <1>5 DEF ScriptTokens, ScriptLast
  <2>2. (clock - readNow[c]) * Limit \in Nat
    <3>1. clock - readNow[c] \in Nat
      BY <1>2
    <3>. QED  BY <3>1, <1>3, MulNat, Zenon
  <2>3. ASSUME NEW t1 \in Times
        PROVE  Covers(StampedFrom(grants, t1), Burst * Window, readNow[c], t1)
    <3>1. CASE kv = Absent
      <4>1. grants = {}
        BY <3>1 DEF TokenInv
      <4>2. StampedFrom(grants, t1) = 0
        <5>1. {g \in grants : g[1] >= t1} = {}
          BY <4>1
        <5>2. Cardinality({}) = 0
          BY FS_EmptySet
        <5>. QED  BY <5>1, <5>2, Zenon DEF StampedFrom
      <4>. QED  BY <4>2 DEF Covers
    <3>2. CASE kv # Absent
      <4>1. clock > expireAt
        BY <1>5, <3>2 DEF Current, LiveValue
      <4>2. kv.tokens \in Int /\ kv.lastRefill \in Int
        BY <1>1, <3>2 DEF TypeOK, KeyValueOK, Times
      <4>3. /\ kv.tokens + (expireAt - 2 * Window - kv.lastRefill) * Limit >= 0
            /\ Covers(StampedFrom(grants, t1), kv.tokens, kv.lastRefill, t1)
        BY <3>2 DEF TokenInv
      <4>4. StampedFrom(grants, t1) \in Nat
        <5>1. IsFiniteSet(grants)
          BY <1>1, GrantsFinite
        <5>. QED  BY <5>1, StampedCount, Zenon
      <4>5. t1 \in Int
        BY DEF Times
      <4>. QED  BY <1>2, <4>1, <4>2, <4>3, <4>4, <4>5, ExpiredCover, Zenon
    <3>. QED  BY <3>1, <3>2
  <2>4. \A t1 \in Times : Covers(StampedFrom(grants, t1), ScriptTokens, ScriptLast(c), t1)
    BY <2>1, <2>3
  <2>5. ScriptTokens + (clock - ScriptLast(c)) * Limit >= 0
    BY <1>2, <1>3, <2>1, <2>2
  <2>. QED  BY <1>2, <1>3, <2>1, <2>4, <2>5
<1>. QED  BY <1>4, <1>5
-----------------------------------------------------------------------------
(* The token bucket script keeps the accounting: it refills the bucket it *)
(* starts from, takes Window tokens when it admits, stamps the bucket with *)
(* the caller's `now` and pushes the expiry to 2 * Window.                  *)
LEMMA TokenScript ==
    ASSUME TokenBudgetCondition, RLInv, TokenInv, RLInv', algorithm = "token_bucket",
           NEW c \in Callers, Answer(c), ScriptRuns(c)
    PROVE  TokenInv'
<1> DEFINE now == readNow[c]
           T == ScriptTokens
           l == ScriptLast(c)
           R == Refill(T, now - l)
           ok == R >= Window
           T2 == IF ok THEN R - Window ELSE R
<1>1. c \in Evaluating /\ TypeOK /\ CallsOK /\ TypeOK' /\ CallsOK'
  BY DEF Answer, Evaluating, RLInv
<1>2. UNCHANGED <<algorithm, clock>>
  BY DEF Answer
<1>3. /\ kv' = [tokens |-> T2, lastRefill |-> now]
      /\ expireAt' = clock + 2 * Window
      /\ grants' = IF ok THEN grants \cup {NewGrant(c)} ELSE grants
  <2>1. Allow(Current, expireAt, now, clock, callNo[c]) = tokenBucket(Current, now, clock)
    BY DEF Allow
  <2>2. tokenBucket(Current, now, clock).value = [tokens |-> T2, lastRefill |-> now]
        /\ tokenBucket(Current, now, clock).expireAt = clock + 2 * Window
    BY DEF tokenBucket, ScriptTokens, ScriptLast
  <2>3. tokenBucket(Current, now, clock).allowed <=> ok
    BY Zenon DEF tokenBucket, ScriptTokens, ScriptLast
  <2>4. grants' = IF tokenBucket(Current, now, clock).allowed
                  THEN grants \cup {NewGrant(c)} ELSE grants
    BY <2>1 DEF ScriptRuns
  <2>5. grants' = IF ok THEN grants \cup {NewGrant(c)} ELSE grants
    BY <2>3, <2>4, Zenon
  <2>6. kv' = tokenBucket(Current, now, clock).value
        /\ expireAt' = tokenBucket(Current, now, clock).expireAt
    BY <2>1 DEF ScriptRuns
  <2>. QED  BY <2>2, <2>5, <2>6
<1>4. /\ T \in Int /\ l \in Int /\ T <= Burst * Window
      /\ T + (clock - l) * Limit >= 0
      /\ \A t1 \in Times : Covers(StampedFrom(grants, t1), T, l, t1)
  BY <1>1, TokenPre
<1>5. now \in Int /\ clock \in Int /\ now <= clock /\ Burst * Window \in Nat
      /\ Limit \in Nat /\ Window \in Nat \ {0} /\ Window <= Burst * Window
  <2>1. Burst \in Nat \ {0}
    BY DEF Burst
  <2>2. (Burst - 1) * Window \in Nat
    <3>1. Burst - 1 \in Nat
      BY <2>1
    <3>. QED  BY <3>1, MulNat, Zenon
  <2>3. Burst * Window = (Burst - 1) * Window + Window
    BY <2>1
  <2>. QED  BY <1>1, <2>1, <2>2, <2>3, MulNat DEF TypeOK, CallsOK, Evaluating, Times
<1>6. /\ (now - l) * Limit \in Int /\ R \in Int
      /\ R <= T + (now - l) * Limit /\ R <= Burst * Window
      /\ R = Burst * Window \/ R = T + (now - l) * Limit
  BY <1>4, <1>5 DEF Refill, MinOf
<1>7. kv' # Absent
  <2>1. kv' \in [tokens : Int, lastRefill : Int]
    BY <1>3, <1>5, <1>6
  <2>. QED  BY <2>1
<1>8. IsFiniteSet(grants) /\ NewGrant(c) \notin grants /\ NewGrant(c)[1] = now
  <2>1. \A g \in grants : g[3] # callNo[c]
    BY <1>1 DEF CallsOK
  <2>. QED  BY <1>1, <2>1, GrantsFinite DEF NewGrant
<1>9. T2 + (clock - now) * Limit >= 0
  <2>1. (clock - now) * Limit \in Nat
    <3>1. clock - now \in Nat
      BY <1>5
    <3>. QED  BY <3>1, <1>5, MulNat, Zenon
  <2>2. CASE ok
    BY <1>6, <2>1, <2>2
  <2>3. CASE ~ok
    <3>1. R = T + (now - l) * Limit /\ T2 = R
      BY <1>5, <1>6, <2>3
    <3>2. (now - l) * Limit + (clock - now) * Limit = (clock - l) * Limit
      BY <1>4, <1>5
    <3>. QED  BY <1>4, <1>6, <2>1, <3>1, <3>2
  <2>. QED  BY <2>2, <2>3
<1>10. ASSUME NEW t1 \in Times
       PROVE  Covers(StampedFrom(grants', t1), T2, now, t1)
  <2>1. t1 \in Int /\ StampedFrom(grants, t1) \in Nat
    <3>1. t1 \in Int
      BY DEF Times
    <3>. QED  BY <3>1, <1>8, StampedCount, Zenon
  <2>2. StampedFrom(grants', t1) = IF ok /\ now >= t1 THEN StampedFrom(grants, t1) + 1
                                   ELSE StampedFrom(grants, t1)
    <3>1. CASE ok
      <4>1. StampedFrom(grants \cup {NewGrant(c)}, t1)
              = IF NewGrant(c)[1] >= t1 THEN StampedFrom(grants, t1) + 1
                ELSE StampedFrom(grants, t1)
        BY <1>8, StampedAdd, Zenon
      <4>. QED  BY <1>3, <1>8, <3>1, <4>1
    <3>2. CASE ~ok
      BY <1>3, <3>2
    <3>. QED  BY <3>1, <3>2
  <2>3. Covers(StampedFrom(grants, t1), T, l, t1)
    BY <1>4
  <2>4. PICK S0 \in Nat, T0 \in Int, l0 \in Int, n0 \in Int, R0 \in Int :
             S0 = StampedFrom(grants, t1) /\ T0 = T /\ l0 = l /\ n0 = now /\ R0 = R
    BY <1>4, <1>5, <1>6, <2>1
  <2>5. /\ Covers(S0, T0, l0, t1)
        /\ R0 <= T0 + (n0 - l0) * Limit /\ R0 <= Burst * Window
    BY <1>6, <2>3, <2>4
  <2>6. Covers(IF R0 >= Window /\ n0 >= t1 THEN S0 + 1 ELSE S0,
               IF R0 >= Window THEN R0 - Window ELSE R0, n0, t1)
    BY <2>1, <2>5, CoverStep
  <2>. QED  BY <2>2, <2>4, <2>6
<1>11. BucketBudget(grants')
  <2>1. SUFFICES ASSUME NEW t1 \in Times, NEW t2 \in Times, t1 <= t2
                 PROVE  StampedIn(grants', t1, t2) * Window
                          <= Burst * Window + (t2 - t1) * Limit
    BY DEF BucketBudget
  <2>2. StampedIn(grants, t1, t2) * Window <= Burst * Window + (t2 - t1) * Limit
    <3>1. BucketBudget(grants)
      BY <1>1, BudgetOfGrants DEF TokenInv
    <3>. QED  BY <2>1, <3>1 DEF BucketBudget
  <2>3. CASE ok /\ now >= t1 /\ now <= t2
    <3>0. StampedIn(grants \cup {NewGrant(c)}, t1, t2)
            = IF NewGrant(c)[1] >= t1 /\ NewGrant(c)[1] <= t2
              THEN StampedIn(grants, t1, t2) + 1 ELSE StampedIn(grants, t1, t2)
      BY <1>8, StampedAdd
    <3>1. StampedIn(grants', t1, t2) = StampedIn(grants, t1, t2) + 1
      BY <1>3, <1>8, <2>3, <3>0
    <3>2. /\ StampedIn(grants, t1, t2) \in Nat /\ StampedFrom(grants, t1) \in Nat
          /\ StampedIn(grants, t1, t2) <= StampedFrom(grants, t1)
      BY <1>8, StampedCount, Zenon
    <3>3. Covers(StampedFrom(grants, t1), T, l, t1) /\ t1 \in Int /\ t2 \in Int
      BY <1>4 DEF Times
    <3>4. (StampedIn(grants, t1, t2) + 1) * Window <= Burst * Window + (t2 - t1) * Limit
      <4>1. R >= Window /\ t1 <= now /\ now <= t2
        BY <2>3
      <4>. QED  BY <1>4, <1>5, <1>6, <3>2, <3>3, <4>1, BudgetStep, Zenon
    <3>. QED  BY <3>1, <3>4
  <2>4. CASE ~(ok /\ now >= t1 /\ now <= t2)
    <3>1. StampedIn(grants', t1, t2) = StampedIn(grants, t1, t2)
      <4>1. CASE ok
        <5>1. StampedIn(grants \cup {NewGrant(c)}, t1, t2)
                = IF NewGrant(c)[1] >= t1 /\ NewGrant(c)[1] <= t2
                  THEN StampedIn(grants, t1, t2) + 1 ELSE StampedIn(grants, t1, t2)
          BY <1>8, StampedAdd
        <5>. QED  BY <1>3, <1>8, <2>4, <4>1, <5>1
      <4>2. CASE ~ok
        BY <1>3, <4>2
      <4>. QED  BY <4>1, <4>2
    <3>. QED  BY <2>2, <3>1
  <2>. QED  BY <2>3, <2>4
<1>. QED
  <2>1. kv'.tokens = T2 /\ kv'.lastRefill = now /\ expireAt' - 2 * Window = clock'
    BY <1>2, <1>3, <1>5
  <2>2. kv'.tokens + (expireAt' - 2 * Window - kv'.lastRefill) * Limit >= 0
    BY <1>9, <2>1, <1>2
  <2>3. \A t1 \in Times : Covers(StampedFrom(grants', t1), kv'.tokens, kv'.lastRefill, t1)
    BY <1>10, <2>1
  <2>4. expireAt' - 2 * Window <= clock'
    BY <2>1, <1>2, <1>5
  <2>. QED  BY <1>2, <1>7, <1>11, <2>2, <2>3, <2>4 DEF TokenInv
-----------------------------------------------------------------------------
(* Initially there is no key and no grant.                                 *)
LEMMA TokenInit ==
    Init => TokenInv
<1> SUFFICES ASSUME Init PROVE TokenInv
  OBVIOUS
<1>1. ASSUME NEW t1 \in Times, NEW t2 \in Times, t1 <= t2
      PROVE  StampedIn(grants, t1, t2) * Window <= Burst * Window + (t2 - t1) * Limit
  <2>1. StampedIn(grants, t1, t2) = 0
    <3>1. {g \in grants : g[1] >= t1 /\ g[1] <= t2} = {}
      BY DEF Init
    <3>2. Cardinality({}) = 0
      BY FS_EmptySet
    <3>. QED  BY <3>1, <3>2, Zenon DEF StampedIn
  <2>2. (t2 - t1) * Limit \in Nat /\ Burst * Window \in Nat
    <3>1. t2 - t1 \in Nat /\ Burst \in Nat
      BY <1>1 DEF Times, Burst
    <3>. QED  BY <3>1, MulNat, Zenon
  <2>. QED  BY <2>1, <2>2
<1>. QED  BY <1>1 DEF Init, TokenInv, BucketBudget

(* A step that leaves the key and the grants alone keeps the accounting;  *)
(* the clock only moves forward.                                           *)
LEMMA TokenQuiet ==
    ASSUME TokenInv, clock \in Int, clock' \in Int, clock <= clock', expireAt \in Int,
           UNCHANGED <<algorithm, kv, expireAt, grants>>
    PROVE  TokenInv'
<1>1. kv # Absent /\ algorithm = "token_bucket" =>
        expireAt' - 2 * Window <= clock'
  BY DEF TokenInv
<1>. QED  BY <1>1 DEF TokenInv

(* Every step keeps the bucket's accounting.                               *)
LEMMA TokenStep ==
    ASSUME TokenBudgetCondition, RLInv, TokenInv, [Next]_vars
    PROVE  TokenInv'
<1>0. RLInv' /\ clock \in Int /\ expireAt \in Int
  BY RLStep DEF RLInv, TypeOK, Times
<1>1. CASE Tick
  <2>1. clock' = clock + 1 /\ UNCHANGED <<algorithm, kv, expireAt, grants>>
    BY <1>1 DEF Tick
  <2>. QED  BY <1>0, <2>1, TokenQuiet
<1>2. ASSUME NEW c \in Callers, Read(c) PROVE TokenInv'
  <2>1. UNCHANGED <<algorithm, clock, kv, expireAt, grants>>
    BY <1>2 DEF Read
  <2>. QED  BY <1>0, <2>1, TokenQuiet
<1>3. ASSUME NEW c \in Callers, Eval(c) \/ EvalFails(c) PROVE TokenInv'
  <2>1. Answer(c) /\ (ScriptRuns(c) \/ UNCHANGED <<kv, expireAt, grants>>)
    BY <1>3, EvalCases DEF RLInv
  <2>2. UNCHANGED <<algorithm, clock>>
    BY <2>1 DEF Answer
  <2>3. CASE UNCHANGED <<kv, expireAt, grants>>
    BY <1>0, <2>2, <2>3, TokenQuiet
  <2>4. CASE ScriptRuns(c) /\ algorithm = "token_bucket"
    BY <1>0, <2>1, <2>4, TokenScript
  <2>5. CASE algorithm # "token_bucket"
    BY <2>2, <2>5 DEF TokenInv
  <2>. QED  BY <2>1, <2>3, <2>4, <2>5
<1>4. CASE Finished \/ UNCHANGED vars
  <2>1. UNCHANGED vars
    BY <1>4 DEF Finished
  <2>. QED  BY <1>0, <2>1, TokenQuiet DEF vars
<1>. QED  BY <1>1, <1>2, <1>3, <1>4 DEF Next

(* Token bucket (redis_store.go 62-123, with the caller's stale now and   *)
(* the key's 2 * window expiry): requests stamped in any interval          *)
(* [t1, t2] are admitted at most Burst + (t2 - t1) * Limit / Window times, *)
(* for every limit, window, burst, latency bound and number of callers    *)
(* for which an expired bucket could have refilled to Burst anyway.       *)
THEOREM TokenBucketBudgetHolds ==
    ASSUME TokenBudgetCondition
    PROVE  Spec => []TokenBucketBudget
<1>1. Init => RLInv /\ TokenInv
  BY RLInit, TokenInit
<1>2. RLInv /\ TokenInv /\ [Next]_vars => RLInv' /\ TokenInv'
  BY RLStep, TokenStep
<1>3. RLInv /\ TokenInv => TokenBucketBudget
  BY BudgetOfGrants, Zenon DEF TokenInv
<1>. QED  BY <1>1, <1>2, <1>3, PTL DEF Spec
=============================================================================
