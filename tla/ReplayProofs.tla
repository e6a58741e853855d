---------------------------- MODULE ReplayProofs ----------------------------
(***************************************************************************)
(* Proof of the replay law: a response the idempotency middleware replays *)
(* is one the withdraw handler produced for the same user, key and body.  *)
(***************************************************************************)
EXTENDS WithdrawPipelineProofs

USE ParamsAssumption, WalletAssumption, StoreAssumption, NoRecordAssumption,
    PipelineAssumption
USE DEF Workers, TxOutcomes, MiddlewareOutcomes

(* The response a handler wrote is its own and is a withdraw outcome       *)
(* (handlers/withdraw.balance.go lines 52-66).                              *)
HandlerRespOwn ==
    \A w \in Workers :
        handlerResp[w] # NoResponse
            => handlerResp[w].by = w /\ handlerResp[w].kind \in TxOutcomes

(* A stored response belongs to a request of the row's (scope, key) and     *)
(* hash: Complete's UPDATE matches scope, key and request_hash             *)
(* (sqlx_store.go lines 169-179), and Acquire's reacquire keeps the hash   *)
(* and the response (lines 131-134).                                        *)
StoredFaithful ==
    \A id \in RecordIds :
        (records[id] # NoRecord /\ records[id].response # NoResponse)
            => LET x == records[id].response IN
               /\ x.kind \in TxOutcomes
               /\ RecordOf(x.by) = id
               /\ HashOf(x.by) = records[id].hash

(* The inductive invariant for ReplayFaithful.                             *)
ReplayInv == TypeInv /\ HandlerRespOwn /\ StoredFaithful /\ ReplayFaithful
-----------------------------------------------------------------------------
(* Two typed requests with the same record and hash are the same request:  *)
(* the record id is the (user, key) pair and the hash stands for the body.  *)
LEMMA SameRequestSameReq ==
    ASSUME TypeOK, NEW v \in Workers, NEW w \in Workers,
           RecordOf(v) = RecordOf(w), HashOf(v) = HashOf(w)
    PROVE  req[v] = req[w]
BY DEF TypeOK, RecordOf, HashOf, Requests

(* A step that leaves records, req, handlerResp and resp alone keeps the    *)
(* three replay conjuncts.                                                   *)
LEMMA ReplayFrame ==
    ASSUME HandlerRespOwn, StoredFaithful, ReplayFaithful,
           UNCHANGED <<records, req, handlerResp, resp>>
    PROVE  (HandlerRespOwn /\ StoredFaithful /\ ReplayFaithful)'
BY DEF HandlerRespOwn, StoredFaithful, ReplayFaithful, RecordOf, HashOf

(* Every step of the pipeline keeps ReplayInv.                             *)
LEMMA ReplayStep == ReplayInv /\ [Next]_vars => ReplayInv'
<1> SUFFICES ASSUME ReplayInv, [Next]_vars PROVE ReplayInv'
  OBVIOUS
<1> DEFINE RI == HandlerRespOwn /\ StoredFaithful /\ ReplayFaithful
<1>0. TypeInv' /\ TypeOK
  BY TypeStep DEF ReplayInv, TypeInv
<1> SUFFICES RI'
  BY <1>0 DEF ReplayInv
<1>1. CASE Tick /\ UNCHANGED <<balance, ledger>> /\ UNCHANGED workerVars
  BY <1>1, ReplayFrame DEF Tick, workerVars, ReplayInv
<1>2. ASSUME NEW w \in Workers, RateLimitReject(w) PROVE RI'
  <2>1. PICK k \in {"rate_limited"} \cup (IF DBErrors THEN {"limiter_error"} ELSE {}) :
               Finish(w, Reply(w, k))
    BY <1>2 DEF RateLimitReject
  <2>2. ReplayFaithful'
    BY <1>0, <1>2, <2>1  DEF ReplayFaithful, TypeInv, TypeOK, RateLimitReject, Finish, Reply, ReplayInv
  <2>3. QED
    BY <1>2, <2>2 DEF RateLimitReject, ReplayInv, HandlerRespOwn, StoredFaithful, RecordOf, HashOf
<1>3. ASSUME NEW w \in Workers, MissingKey(w) PROVE RI'
  <2>1. ReplayFaithful'
    BY <1>0, <1>3  DEF ReplayFaithful, TypeInv, TypeOK, MissingKey, Finish, Reply, ReplayInv
  <2>2. QED
    BY <1>3, <2>1 DEF MissingKey, ReplayInv, HandlerRespOwn, StoredFaithful, RecordOf, HashOf
<1>4. ASSUME NEW w \in Workers, Receive(w) PROVE RI'
  BY <1>4, ReplayFrame DEF Receive, ReplayInv
<1>5. ASSUME NEW w \in Workers, AcquireSelect(w) PROVE RI'
  <2> DEFINE id == RecordOf(w)  r == records[id]
  <2>1. id \in RecordIds /\ req' = req /\ handlerResp' = handlerResp
    BY <1>5 DEF AcquireSelect, RecordOf, RecordIds, Requests, ReplayInv, TypeInv, TypeOK, KeyedInv
  <2>2. HandlerRespOwn'
    BY <2>1 DEF HandlerRespOwn, ReplayInv
  <2>3. CASE \E dec \in Decision : AcquireLocked(id, HashOf(w), acqTime[w], dec) /\ Dispatch(w, dec)
    <3>1. PICK dec \in Decision : AcquireLocked(id, HashOf(w), acqTime[w], dec) /\ Dispatch(w, dec)
      BY <2>3
    <3>2. StoredFaithful'
      <4>1. CASE UNCHANGED records
        BY <2>1, <4>1 DEF ReplayInv, StoredFaithful, RecordOf, HashOf
      <4>2. CASE ~UNCHANGED records
        <5>1. records' = [records EXCEPT ![id] = Reacquired(r, acqTime[w])] /\ r # NoRecord
          BY <3>1, <4>2 DEF AcquireLocked
        <5>2. Reacquired(r, acqTime[w]).response = r.response
              /\ Reacquired(r, acqTime[w]).hash = r.hash
          BY DEF Reacquired
        <5>3. QED
          BY <1>0, <2>1, <5>1, <5>2  DEF StoredFaithful, TypeInv, TypeOK, StoreTypeOK, RecordOf, HashOf, ReplayInv, StoredFaithful
      <4>3. QED
        BY <4>1, <4>2
    <3>3. ReplayFaithful'
      <4>1. CASE dec.type = "acquired"
        BY <2>1, <3>1, <4>1 DEF Dispatch, ReplayInv, ReplayFaithful
      <4>2. CASE dec.type = "replay"
        <5>1. dec.response = r.response /\ r # NoRecord /\ SameRequest(r, HashOf(w))
          BY <3>1, <4>2 DEF AcquireLocked, Dec
        <5>2. resp' = [resp EXCEPT ![w] = r.response]
          BY <3>1, <4>2, <5>1 DEF Dispatch, Finish
        <5>3. ASSUME r.response # NoResponse, r.response.by # w
              PROVE  r.response.kind \in TxOutcomes /\ req[r.response.by] = req[w]
          <6>1. r.response.kind \in TxOutcomes /\ RecordOf(r.response.by) = id
                /\ HashOf(r.response.by) = r.hash
            BY <2>1, <5>1, <5>3 DEF ReplayInv, StoredFaithful
          <6>2. r.response.by \in Workers
            BY <2>1, <5>1, <5>3 DEF ReplayInv, TypeInv, TypeOK, StoreTypeOK, Record
          <6>3. QED
            BY <1>0, <5>1, <6>1, <6>2, SameRequestSameReq DEF SameRequest
        <5>4. QED
          BY <1>0, <2>1, <5>2, <5>3  DEF ReplayFaithful, TypeInv, TypeOK, ReplayInv
      <4>3. CASE dec.type \in {"in_progress", "conflict", "error"}
        BY <1>0, <2>1, <3>1, <4>3  DEF ReplayFaithful, TypeInv, TypeOK, Dispatch, Finish, Reply, ReplayInv
      <4>4. QED
        BY <4>1, <4>2, <4>3 DEF Decision, DecisionTypes
    <3>4. QED
      BY <2>2, <3>2, <3>3
  <2>4. CASE records[id] = NoRecord /\ pc' = [pc EXCEPT ![w] = "insert"]
             /\ UNCHANGED <<records, lease, resp>>
    BY <2>1, <2>4 DEF ReplayInv, StoredFaithful, ReplayFaithful, HandlerRespOwn, RecordOf, HashOf
  <2>5. CASE records[id] = NoRecord /\ DBErrors /\ Dispatch(w, Dec("error"))
             /\ UNCHANGED records
    <3>1. ReplayFaithful'
      BY <1>0, <2>1, <2>5  DEF ReplayFaithful, TypeInv, TypeOK, Dispatch, Dec, Finish, Reply, ReplayInv
    <3>2. QED
      BY <2>1, <2>2, <2>5, <3>1 DEF ReplayInv, StoredFaithful, RecordOf, HashOf
  <2>6. QED
    BY <1>5, <2>3, <2>4, <2>5 DEF AcquireSelect
<1>6. ASSUME NEW w \in Workers, AcquireInsertStep(w) PROVE RI'
  <2> DEFINE id == RecordOf(w)
  <2>1. id \in RecordIds /\ req' = req /\ handlerResp' = handlerResp
    BY <1>6 DEF AcquireInsertStep, RecordOf, RecordIds, Requests, ReplayInv, TypeInv, TypeOK, KeyedInv
  <2>2. PICK dec \in Decision : AcquireInsert(id, HashOf(w), acqTime[w], dec) /\ Dispatch(w, dec)
    BY <1>6 DEF AcquireInsertStep
  <2>3. dec.type \in {"acquired", "error"} /\ (dec.type = "error" => dec = Dec("error"))
    BY <2>2 DEF AcquireInsert, Dec
  <2>4. StoredFaithful'
    <3>1. CASE UNCHANGED records
      BY <2>1, <3>1 DEF ReplayInv, StoredFaithful, RecordOf, HashOf
    <3>2. CASE records' = [records EXCEPT ![id] = NewRecord(HashOf(w), acqTime[w])]
      BY <1>0, <2>1, <3>2  DEF StoredFaithful, TypeInv, TypeOK, StoreTypeOK, RecordOf, HashOf, NewRecord, ReplayInv
    <3>3. QED
      BY <2>2, <3>1, <3>2 DEF AcquireInsert
  <2>5. ReplayFaithful'
    <3>1. CASE dec.type = "acquired"
      BY <2>1, <2>2, <3>1 DEF Dispatch, ReplayInv, ReplayFaithful
    <3>2. CASE dec.type = "error"
      BY <1>0, <2>1, <2>2, <2>3, <3>2  DEF ReplayFaithful, TypeInv, TypeOK, Dispatch, Dec, Finish, Reply, ReplayInv
    <3>3. QED
      BY <2>3, <3>1, <3>2
  <2>6. QED
    BY <2>1, <2>4, <2>5 DEF HandlerRespOwn, ReplayInv
<1>7. ASSUME NEW w \in Workers, Execute(w) PROVE RI'
  <2>1. PICK out \in TxOutcomes : handlerResp' = [handlerResp EXCEPT ![w] = Reply(w, out)]
    BY <1>7 DEF Execute
  <2>2. HandlerRespOwn'
    BY <1>0, <2>1 DEF Reply, ReplayInv, HandlerRespOwn, TypeInv, TypeOK
  <2>3. QED
    BY <1>7, <2>2 DEF Execute, ReplayInv, StoredFaithful, ReplayFaithful, RecordOf, HashOf
<1>8. ASSUME NEW w \in Workers, CompleteStep(w) PROVE RI'
  <2> DEFINE id == RecordOf(w)  r == records[id]  x == handlerResp[w]
  <2>1. id \in RecordIds /\ req' = req /\ handlerResp' = handlerResp
    BY <1>8 DEF CompleteStep, RecordOf, RecordIds, Requests, ReplayInv, TypeInv, TypeOK, KeyedInv
  <2>2. PICK ok \in BOOLEAN :
             /\ Complete(id, HashOf(w), x, ok)
             /\ Finish(w, IF ok THEN x ELSE Reply(w, "persist_error"))
    BY <1>8 DEF CompleteStep
  <2>3. x # NoResponse => x.by = w /\ x.kind \in TxOutcomes
    BY DEF ReplayInv, HandlerRespOwn
  <2>4. StoredFaithful'
    <3>1. CASE UNCHANGED records
      BY <2>1, <3>1 DEF ReplayInv, StoredFaithful, RecordOf, HashOf
    <3>2. CASE r # NoRecord /\ SameRequest(r, HashOf(w))
               /\ records' = [records EXCEPT ![id] = Completed(r, now, x)]
      <4>1. Completed(r, now, x).response = x /\ Completed(r, now, x).hash = r.hash
        BY DEF Completed
      <4>2. QED
        BY <1>0, <2>1, <2>3, <3>2, <4>1  DEF StoredFaithful, TypeInv, TypeOK, StoreTypeOK, RecordOf, HashOf, SameRequest, ReplayInv
    <3>3. QED
      BY <2>2, <3>1, <3>2 DEF Complete
  <2>5. ReplayFaithful'
    <3>1. CASE ok
      BY <1>0, <2>1, <2>2, <2>3, <3>1  DEF ReplayFaithful, TypeInv, TypeOK, Finish, ReplayInv
    <3>2. CASE ~ok
      BY <1>0, <2>1, <2>2, <3>2  DEF ReplayFaithful, TypeInv, TypeOK, Finish, Reply, ReplayInv
    <3>3. QED
      BY <3>1, <3>2
  <2>6. QED
    BY <2>1, <2>4, <2>5 DEF HandlerRespOwn, ReplayInv
<1>9. ASSUME NEW w \in Workers, Crash(w) PROVE RI'
  BY <1>9, ReplayFrame DEF Crash, ReplayInv
<1>10. CASE Served
  BY <1>10, ReplayFrame DEF Served, vars, ReplayInv
<1>11. CASE UNCHANGED vars
  BY <1>11, ReplayFrame DEF vars, ReplayInv
<1>12. QED
  BY <1>1, <1>2, <1>3, <1>4, <1>5, <1>6, <1>7, <1>8, <1>9, <1>10, <1>11 DEF Next

(* Replay law, for every configuration: whatever the interleaving of      *)
(* first requests, retries, reacquires after a lease expired, crashes and  *)
(* failing Complete calls, a client that receives a response another       *)
(* request produced receives a withdraw outcome produced for the same      *)
(* user, key and body (sqlx_store.go lines 96-121 and 169-179).            *)
THEOREM ReplayFaithfulHolds == Spec => []ReplayFaithful
<1>1. Init => ReplayInv
  BY TypeInit DEF Init, StoreInit, ReplayInv, HandlerRespOwn, StoredFaithful, ReplayFaithful
<1>2. ReplayInv /\ [Next]_vars => ReplayInv'
  BY ReplayStep
<1>3. ReplayInv => ReplayFaithful
  BY DEF ReplayInv
<1>4. QED
  BY <1>1, <1>2, <1>3, PTL DEF Spec
=============================================================================
