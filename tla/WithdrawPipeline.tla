--------------------------- MODULE WithdrawPipeline ---------------------------
(***************************************************************************)
(* The withdrawal request pipeline: POST /withdrawals as wired by          *)
(* registerWithdrawRoutes (src/unnamed/part_002 lines 73-82): the rate     *)
(* limit middleware, then the idempotency middleware                       *)
(* (NewHTTPWithdrawIdempotencyMiddleware, src/internal/middlewares/        *)
(* http.cors.go lines 681-747), then the withdraw handler.                 *)
(*                                                                         *)
(* Each worker is the goroutine serving one request; retries of a request  *)
(* by a client are further workers with the same input.  Workers share     *)
(* only the database (wallets, ledger, idempotency records) and the clock. *)
(* A worker's steps are the database transactions it runs, in the code's  *)
(* order; between two steps the process may crash (Crash), which ends the  *)
(* request without a response and rolls back nothing that had committed.  *)
(*                                                                         *)
(* The rate limiter is abstracted to its verdict: any request may be       *)
(* refused (the key's budget may be spent by requests outside the model).  *)
(***************************************************************************)
EXTENDS WalletLedger, IdempotencyStore

CONSTANTS
    NoKey,     \* an absent or blank X-Idempotency-Key header
    Crashes    \* TRUE iff a serving process may crash mid-request

Workers == Requesters

(* The responses a client can receive; `by` names the worker whose handler *)
(* produced it (for a replay, the worker whose response was stored).        *)
MiddlewareOutcomes ==
    {"rate_limited", "limiter_error", "missing_key", "acquire_error",
     "in_progress", "conflict", "persist_error"}

ASSUME PipelineAssumption ==
    /\ Responses = [kind : TxOutcomes \cup MiddlewareOutcomes, by : Workers]
    /\ NoKey \notin Keys
    /\ Crashes \in BOOLEAN

Requests == [user : Users, key : Keys \cup {NoKey}, amount : Amounts]

Phases == {"idle", "acquire", "insert", "execute", "complete", "done", "crashed"}

VARIABLES
    pc,        \* where each worker is in the pipeline
    req,       \* the request each worker serves
    acqTime,   \* the time.Now() Acquire read (sqlx_store.go line 49)
    lease,     \* ghost: the locked_until a worker set when it acquired
    handlerResp, \* the response the handler wrote, awaiting Complete
    resp       \* the response the client received

workerVars == <<pc, req, acqTime, lease, handlerResp, resp>>
vars == <<balance, ledger, records, now, pc, req, acqTime, lease, handlerResp, resp>>

RecordOf(w) == <<req[w].user, req[w].key>>
HashOf(w) == req[w].amount

Reply(w, kind) == [kind |-> kind, by |-> w]

Init ==
    /\ WalletInit
    /\ StoreInit
    /\ pc = [w \in Workers |-> "idle"]
    /\ req \in [Workers -> Requests]
    /\ acqTime = [w \in Workers |-> 0]
    /\ lease = [w \in Workers |-> 0]
    /\ handlerResp = [w \in Workers |-> NoResponse]
    /\ resp = [w \in Workers |-> NoResponse]

(* The worker returns `r` to its client and stops.                         *)
Finish(w, r) ==
    /\ pc' = [pc EXCEPT ![w] = "done"]
    /\ resp' = [resp EXCEPT ![w] = r]

-----------------------------------------------------------------------------
(* The rate limit middleware refuses the request: 429 when the budget is   *)
(* spent, 500 when the limiter's store fails (http.cors.go lines 591-616). *)
RateLimitReject(w) ==
    /\ pc[w] = "idle"
    /\ \E kind \in {"rate_limited"} \cup (IF DBErrors THEN {"limiter_error"} ELSE {}) :
          Finish(w, Reply(w, kind))
    /\ UNCHANGED <<balance, ledger, records, now, req, acqTime, lease, handlerResp>>

(* The limiter allows the request and the idempotency middleware finds no  *)
(* key: 400 (http.cors.go lines 693-696).                                   *)
MissingKey(w) ==
    /\ pc[w] = "idle"
    /\ req[w].key = NoKey
    /\ Finish(w, Reply(w, "missing_key"))
    /\ UNCHANGED <<balance, ledger, records, now, req, acqTime, lease, handlerResp>>

(* The limiter allows the request, the middleware computes scope, key and  *)
(* hash and calls Acquire, which reads the clock before its transaction     *)
(* (http.cors.go lines 698-706, sqlx_store.go lines 24-50).                 *)
Receive(w) ==
    /\ pc[w] = "idle"
    /\ req[w].key # NoKey
    /\ pc' = [pc EXCEPT ![w] = "acquire"]
    /\ acqTime' = [acqTime EXCEPT ![w] = now]
    /\ UNCHANGED <<balance, ledger, records, now, req, lease, handlerResp, resp>>

(* The middleware acts on Acquire's decision (http.cors.go lines 707-728): *)
(* on Acquired it goes on to the handler, otherwise it answers.            *)
Dispatch(w, dec) ==
    \/ /\ dec.type = "acquired"
       /\ pc' = [pc EXCEPT ![w] = "execute"]
       /\ lease' = [lease EXCEPT ![w] = acqTime[w] + LockTTL]
       /\ UNCHANGED resp
    \/ /\ dec.type = "replay"
       /\ Finish(w, dec.response)
       /\ UNCHANGED lease
    \/ /\ dec.type \in {"in_progress", "conflict", "error"}
       /\ Finish(w, Reply(w, IF dec.type = "error" THEN "acquire_error" ELSE dec.type))
       /\ UNCHANGED lease

(* Acquire's transaction: SELECT ... FOR UPDATE and, on an existing row,   *)
(* the decision under its lock (sqlx_store.go lines 52-145); on a missing  *)
(* row the worker goes on to the INSERT, or the query fails.               *)
AcquireSelect(w) ==
    /\ pc[w] = "acquire"
    /\ \/ \E dec \in Decision :
             /\ AcquireLocked(RecordOf(w), HashOf(w), acqTime[w], dec)
             /\ Dispatch(w, dec)
       \/ /\ records[RecordOf(w)] = NoRecord
          /\ pc' = [pc EXCEPT ![w] = "insert"]
          /\ UNCHANGED <<records, lease, resp>>
       \/ /\ records[RecordOf(w)] = NoRecord
          /\ DBErrors
          /\ Dispatch(w, Dec("error"))
          /\ UNCHANGED records
    /\ UNCHANGED <<balance, ledger, now, req, acqTime, handlerResp>>

(* Acquire's INSERT and commit (sqlx_store.go lines 80-93).                *)
AcquireInsertStep(w) ==
    /\ pc[w] = "insert"
    /\ \E dec \in Decision :
          /\ AcquireInsert(RecordOf(w), HashOf(w), acqTime[w], dec)
          /\ Dispatch(w, dec)
    /\ UNCHANGED <<balance, ledger, now, req, acqTime, handlerResp>>

(* c.Next(): the withdraw handler, service and repository run and the      *)
(* handler writes its response (handlers/withdraw.balance.go lines 34-67). *)
Execute(w) ==
    /\ pc[w] = "execute"
    /\ \E out \in TxOutcomes :
          /\ WithdrawTx(req[w].user, req[w].amount, w, out)
          /\ handlerResp' = [handlerResp EXCEPT ![w] = Reply(w, out)]
    /\ pc' = [pc EXCEPT ![w] = "complete"]
    /\ UNCHANGED <<records, now, req, acqTime, lease, resp>>

(* The middleware stores the handler's response with Complete and returns *)
(* it, or 500 when Complete fails (http.cors.go lines 730-746; the        *)
(* handler itself returns a nil error for every response it writes).       *)
CompleteStep(w) ==
    /\ pc[w] = "complete"
    /\ \E ok \in BOOLEAN :
          /\ Complete(RecordOf(w), HashOf(w), handlerResp[w], ok)
          /\ Finish(w, IF ok THEN handlerResp[w] ELSE Reply(w, "persist_error"))
    /\ UNCHANGED <<balance, ledger, now, req, acqTime, lease, handlerResp>>

(* The serving process dies between two steps of a request.                *)
Crash(w) ==
    /\ Crashes
    /\ pc[w] \in {"acquire", "insert", "execute", "complete"}
    /\ pc' = [pc EXCEPT ![w] = "crashed"]
    /\ UNCHANGED <<balance, ledger, records, now, req, acqTime, lease, handlerResp, resp>>

(* Every request of the model has been served or lost.                      *)
Served ==
    /\ \A w \in Workers : pc[w] \in {"done", "crashed"}
    /\ UNCHANGED vars

Next ==
    \/ Tick /\ UNCHANGED <<balance, ledger>> /\ UNCHANGED workerVars
    \/ \E w \in Workers :
          \/ RateLimitReject(w)
          \/ MissingKey(w)
          \/ Receive(w)
          \/ AcquireSelect(w)
          \/ AcquireInsertStep(w)
          \/ Execute(w)
          \/ CompleteStep(w)
          \/ Crash(w)
    \/ Served

Spec == Init /\ [][Next]_vars

-----------------------------------------------------------------------------
TypeOK ==
    /\ WalletTypeOK
    /\ StoreTypeOK
    /\ pc \in [Workers -> Phases]
    /\ req \in [Workers -> Requests]
    /\ acqTime \in [Workers -> 0 .. MaxTime]
    /\ lease \in [Workers -> 0 .. MaxTime + LockTTL]
    /\ handlerResp \in [Workers -> Responses \cup {NoResponse}]
    /\ resp \in [Workers -> Responses \cup {NoResponse}]

(* A worker holds the record of its key from Acquired until it completes. *)
Holder(w) == pc[w] \in {"execute", "complete"}

(* Lease exclusion: two live workers hold the same idempotency record only *)
(* when the lease of one of them has expired.  Acquire hands out a held   *)
(* record again only after its locked_until has passed                     *)
(* (sqlx_store.go line 123), whatever the interleaving of the workers'     *)
(* transactions and the stale time.Now() each of them read.               *)
LeaseExclusion ==
    \A w1, w2 \in Workers :
        (w1 # w2 /\ Holder(w1) /\ Holder(w2) /\ RecordOf(w1) = RecordOf(w2))
            => (lease[w1] <= now \/ lease[w2] <= now)

(* Replay law (spec section 8): a replayed response is one the handler     *)
(* produced for a request with the same user, key and body; a key reused  *)
(* with another body never replays someone else's result (sqlx_store.go    *)
(* lines 96-121).                                                           *)
ReplayFaithful ==
    \A w \in Workers :
        (resp[w] # NoResponse /\ resp[w].by # w)
            => /\ resp[w].kind \in TxOutcomes
               /\ req[resp[w].by] = req[w]

(* Exactly-once debit (spec sections 4.2 and 8): the ledger holds at most   *)
(* one row per idempotency record, however many times the request is       *)
(* retried or raced.                                                        *)
ExactlyOnceDebit ==
    \A i, j \in 1 .. Len(ledger) :
        i # j => RecordOf(ledger[i].by) # RecordOf(ledger[j].by)

(* A record moves in_progress -> completed exactly once (spec section 3):  *)
(* once completed, its stored response never changes.                       *)
CompletedStable ==
    [][\A id \in RecordIds :
          (records[id] # NoRecord /\ records[id].status = "completed")
              => records'[id] = records[id]]_vars

(* Concurrency law (spec sections 4.2 and 8): concurrent first requests    *)
(* with one key yield one Acquired and otherwise InProgress or Replay; an  *)
(* Acquire on a healthy database never ends in an error.                    *)
AcquireDecides ==
    \A w \in Workers : resp[w] = NoResponse \/ resp[w].kind # "acquire_error"

(* An error means nothing happened (spec section 7: infrastructure         *)
(* failures surface as an opaque 500 and the client retries with the same *)
(* key): a client answered with the handler's 500 has no debit in the     *)
(* ledger from the request that produced that answer.                      *)
FailureMeansNoDebit ==
    \A w \in Workers :
        (resp[w] # NoResponse /\ resp[w].kind = "tx_error")
            => \A i \in 1 .. Len(ledger) : ledger[i].by # resp[w].by
-----------------------------------------------------------------------------
(* The refinement mapping to WithdrawService: a (user, key) pair has been   *)
(* debited when a request with that user and key wrote a ledger row.        *)
DebitedRecords == {RecordOf(ledger[i].by) : i \in 1 .. Len(ledger)}

Service == INSTANCE WithdrawService WITH debited <- DebitedRecords

(* The pipeline implements the withdraw service (spec sections 3, 4.2 and  *)
(* 8): seen through the balances and the debited (user, key) pairs, every   *)
(* step of the middlewares, the handler, Acquire and Complete, crashes and *)
(* database failures included, is either one withdrawal of a positive      *)
(* amount the balance covers, for a (user, key) that had not debited yet,   *)
(* or leaves both alone.                                                    *)
ImplementsService == Service!ServiceSpec
=============================================================================
