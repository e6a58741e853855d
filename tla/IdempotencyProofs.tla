--------------------------- MODULE IdempotencyProofs ---------------------------
(***************************************************************************)
(* Proof that a completed idempotency record is never rewritten while      *)
(* every request finishes within the 30-second lease Acquire grants        *)
(* (defaultLockTTL, sqlx_store.go line 14).  completed_overwrite is the    *)
(* run where a slow holder outlives its lease and the property fails.      *)
(***************************************************************************)
EXTENDS WithdrawPipelineProofs

USE ParamsAssumption, WalletAssumption, StoreAssumption, NoRecordAssumption,
    PipelineAssumption
USE DEF Workers, TxOutcomes, MiddlewareOutcomes

(* No lease Acquire grants runs out within the clock's bound: every        *)
(* request completes, or crashes, before its locked_until passes.          *)
NoExpiry == MaxTime < LockTTL

(* A holder's lease is at least the TTL: it is its clock reading plus      *)
(* LockTTL (http.cors.go lines 707-712 on Acquired).                        *)
HolderLeaseBound == \A w \in Workers : Holder(w) => lease[w] >= LockTTL

(* The record a worker holds is in_progress: it is the one Acquire set to  *)
(* in_progress, and nobody else has completed it meanwhile.                *)
HolderInProgress ==
    \A w \in Workers : Holder(w) => records[RecordOf(w)].status = "in_progress"

StableInv == LeaseInv /\ HolderLeaseBound /\ HolderInProgress

(* The step CompletedStable forbids: a completed record rewritten.         *)
CompletedUnchanged ==
    \A id \in RecordIds :
        (records[id] # NoRecord /\ records[id].status = "completed")
            => records'[id] = records[id]
-----------------------------------------------------------------------------
(* Without expiry a record has one holder: of two holders of one record,   *)
(* the later read its clock after the earlier's lease had passed, which    *)
(* would put the clock at LockTTL or beyond.                                *)
LEMMA SoleHolder ==
    ASSUME NoExpiry, StableInv, NEW w1 \in Workers, NEW w2 \in Workers, w1 # w2,
           Holder(w1), Holder(w2)
    PROVE  RecordOf(w1) # RecordOf(w2)
<1>1. lease[w1] >= LockTTL /\ lease[w2] >= LockTTL
  BY DEF StableInv, HolderLeaseBound
<1>2. acqTime[w1] \in 0 .. MaxTime /\ acqTime[w2] \in 0 .. MaxTime
  BY DEF StableInv, LeaseInv, TypeInv, TypeOK
<1>3. RecordOf(w1) = RecordOf(w2) => lease[w1] <= acqTime[w2] \/ lease[w2] <= acqTime[w1]
  BY DEF StableInv, LeaseInv, HoldersOrdered
<1>4. lease[w1] \in Int /\ lease[w2] \in Int
  BY DEF StableInv, LeaseInv, TypeInv, TypeOK
<1>5. QED
  BY <1>1, <1>2, <1>3, <1>4 DEF NoExpiry

(* A step that creates no new holder and leaves the records and requests   *)
(* alone keeps the two new conjuncts and rewrites no record.               *)
LEMMA StableFrame ==
    ASSUME StableInv, NoNewHolder, records' = records, req' = req
    PROVE  HolderLeaseBound' /\ HolderInProgress' /\ CompletedUnchanged
BY DEF StableInv, NoNewHolder, HolderLeaseBound, HolderInProgress, CompletedUnchanged, RecordOf

(* A worker that acquires record id, which becomes in_progress, with the   *)
(* lease its clock reading gives, keeps the two new conjuncts; the record  *)
(* it rewrites was not completed.                                          *)
LEMMA AcquireKeepsStable ==
    ASSUME StableInv, NEW w \in Workers, NEW id \in RecordIds, id = RecordOf(w),
           records[id] = NoRecord \/ records[id].status # "completed",
           NEW r, r.status = "in_progress", records' = [records EXCEPT ![id] = r],
           pc' = [pc EXCEPT ![w] = "execute"],
           lease' = [lease EXCEPT ![w] = acqTime[w] + LockTTL],
           req' = req, acqTime' = acqTime
    PROVE  HolderLeaseBound' /\ HolderInProgress' /\ CompletedUnchanged
<1>1. acqTime[w] \in Nat /\ LockTTL \in Nat
  BY DEF StableInv, LeaseInv, TypeInv, TypeOK
<1>2. HolderLeaseBound'
  <2> SUFFICES ASSUME NEW x \in Workers, Holder(x)' PROVE lease'[x] >= LockTTL
    BY DEF HolderLeaseBound
  <2>1. CASE x = w
    BY <1>1, <2>1 DEF StableInv, LeaseInv, TypeInv, TypeOK
  <2>2. CASE x # w
    <3>1. Holder(x) /\ lease'[x] = lease[x]
      BY <2>2 DEF Holder, StableInv, LeaseInv, TypeInv, TypeOK
    <3>2. QED
      BY <3>1 DEF StableInv, HolderLeaseBound
  <2>3. QED
    BY <2>1, <2>2
<1>3. HolderInProgress'
  BY DEF StableInv, HolderInProgress, Holder, RecordOf, LeaseInv, TypeInv, TypeOK,
         StoreTypeOK
<1>4. CompletedUnchanged
  BY DEF CompletedUnchanged, StableInv, LeaseInv, TypeInv, TypeOK, StoreTypeOK
<1>5. QED
  BY <1>2, <1>3, <1>4
(* Complete is called by the record's only holder, on an in_progress row;  *)
(* its holder then leaves, and no other holder's record is touched.        *)
LEMMA CompleteKeepsStable ==
    ASSUME NoExpiry, StableInv, NEW w \in Workers, CompleteStep(w)
    PROVE  HolderLeaseBound' /\ HolderInProgress' /\ CompletedUnchanged
<1> DEFINE id == RecordOf(w)
<1>1. id \in RecordIds /\ Holder(w)
  BY DEF CompleteStep, Holder, StableInv, LeaseInv, TypeInv, KeyedInv, TypeOK, RecordOf,
         RecordIds, Requests
<1>2. records[id].status = "in_progress"
  BY <1>1 DEF StableInv, HolderInProgress
<1>3. PICK ok \in BOOLEAN :
          /\ Complete(id, HashOf(w), handlerResp[w], ok)
          /\ Finish(w, IF ok THEN handlerResp[w] ELSE Reply(w, "persist_error"))
  BY DEF CompleteStep
<1>4. \/ records' = records
      \/ records' = [records EXCEPT ![id] = Completed(records[id], now, handlerResp[w])]
  BY <1>3, Zenon DEF Complete
<1>5. /\ pc' = [pc EXCEPT ![w] = "done"]
      /\ UNCHANGED <<lease, req, acqTime>>
  BY <1>3 DEF CompleteStep, Finish
<1>6. ASSUME NEW x \in Workers, Holder(x)'
      PROVE  x # w /\ Holder(x) /\ lease'[x] = lease[x] /\ RecordOf(x) # id
             /\ RecordOf(x) \in RecordIds
  <2>1. x # w /\ Holder(x)
    BY <1>5, <1>6 DEF Holder, StableInv, LeaseInv, TypeInv, TypeOK
  <2>2. RecordOf(x) # id
    BY <1>1, <2>1, SoleHolder
  <2>3. RecordOf(x) \in RecordIds
    BY <2>1 DEF Holder, StableInv, LeaseInv, TypeInv, KeyedInv, TypeOK, RecordOf,
           RecordIds, Requests
  <2>4. QED
    BY <1>5, <2>1, <2>2, <2>3
<1>7. HolderLeaseBound'
  BY <1>6 DEF StableInv, HolderLeaseBound
<1>8. HolderInProgress'
  <2> SUFFICES ASSUME NEW x \in Workers, Holder(x)'
               PROVE  records'[RecordOf(x)'].status = "in_progress"
    BY DEF HolderInProgress
  <2>1. RecordOf(x)' = RecordOf(x)
    BY <1>5 DEF RecordOf
  <2>2. records'[RecordOf(x)] = records[RecordOf(x)]
    BY <1>4, <1>6 DEF StableInv, LeaseInv, TypeInv, TypeOK, StoreTypeOK
  <2>3. QED
    BY <1>6, <2>1, <2>2 DEF StableInv, HolderInProgress
<1>9. CompletedUnchanged
  BY <1>1, <1>2, <1>4 DEF CompletedUnchanged, StableInv, LeaseInv, TypeInv, TypeOK,
                          StoreTypeOK
<1>10. QED
  BY <1>7, <1>8, <1>9
(* Every step keeps StableInv and rewrites no completed record.            *)
LEMMA StableStep ==
    ASSUME NoExpiry, StableInv, [Next]_vars
    PROVE  StableInv' /\ CompletedUnchanged
<1> DEFINE Goal == HolderLeaseBound' /\ HolderInProgress' /\ CompletedUnchanged
<1> DEFINE Frame == NoNewHolder /\ records' = records /\ req' = req
<1>0. Frame => Goal
  BY StableFrame
<1>1. TypeInv /\ LeaseInv'
  BY LeaseStep DEF StableInv, LeaseInv
<1> SUFFICES Goal
  BY <1>1 DEF StableInv
<1>2. CASE Tick /\ UNCHANGED <<balance, ledger>> /\ UNCHANGED workerVars
  BY <1>0, <1>2 DEF Tick, workerVars, NoNewHolder, Holder
<1>3. ASSUME NEW w \in Workers, RateLimitReject(w) PROVE Goal
  <2>1. PICK k \in {"rate_limited"} \cup (IF DBErrors THEN {"limiter_error"} ELSE {}) :
               Finish(w, Reply(w, k))
    BY <1>3 DEF RateLimitReject
  <2>2. NoNewHolder
    BY <1>1, <1>3, <2>1, MoveNoNewHolder DEF RateLimitReject, Finish, Phases
  <2>3. QED
    BY <1>0, <1>3, <2>2 DEF RateLimitReject
<1>4. ASSUME NEW w \in Workers, MissingKey(w) PROVE Goal
  <2>1. NoNewHolder
    BY <1>1, <1>4, MoveNoNewHolder DEF MissingKey, Finish, Phases
  <2>2. QED
    BY <1>0, <1>4, <2>1 DEF MissingKey
<1>5. ASSUME NEW w \in Workers, Receive(w) PROVE Goal
  <2>1. pc' = [pc EXCEPT ![w] = "acquire"] /\ "acquire" \in Phases
    BY <1>5 DEF Receive, Phases
  <2>2. \A x \in Workers : x # w => lease'[x] = lease[x] /\ acqTime'[x] = acqTime[x]
    BY <1>1, <1>5 DEF Receive, TypeInv, TypeOK
  <2>3. NoNewHolder
    BY <1>1, <2>1, <2>2, MoveNoNewHolder
  <2>4. QED
    BY <1>0, <1>5, <2>3 DEF Receive
<1>6. ASSUME NEW w \in Workers, AcquireSelect(w) PROVE Goal
  <2> DEFINE id == RecordOf(w)  r == records[id]
  <2>0. id \in RecordIds
    BY <1>1, <1>6 DEF AcquireSelect, TypeInv, KeyedInv, TypeOK, RecordOf, RecordIds, Requests
  <2>1. CASE \E dec \in Decision : AcquireLocked(id, HashOf(w), acqTime[w], dec) /\ Dispatch(w, dec)
    <3>1. PICK dec \in Decision : AcquireLocked(id, HashOf(w), acqTime[w], dec) /\ Dispatch(w, dec)
      BY <2>1
    <3>2. CASE dec.type = "acquired"
      <4>1. /\ r # NoRecord /\ ~IsCompleted(r)
            /\ records' = [records EXCEPT ![id] = Reacquired(r, acqTime[w])]
        BY <3>1, <3>2 DEF AcquireLocked, Dec
      <4>2. /\ pc' = [pc EXCEPT ![w] = "execute"]
            /\ lease' = [lease EXCEPT ![w] = acqTime[w] + LockTTL]
        BY <3>1, <3>2 DEF Dispatch, Finish
      <4>3. Reacquired(r, acqTime[w]).status = "in_progress"
        BY DEF Reacquired
      <4>4. QED
        BY <1>6, <2>0, <4>1, <4>2, <4>3, AcquireKeepsStable DEF AcquireSelect, IsCompleted
    <3>3. CASE dec.type # "acquired"
      <4>1. UNCHANGED records
        BY <3>1, <3>3 DEF AcquireLocked, Dec, Decision, DecisionTypes
      <4>2. pc' = [pc EXCEPT ![w] = "done"] /\ UNCHANGED lease
        BY <3>1, <3>3 DEF Dispatch, Finish, Decision, DecisionTypes
      <4>3. NoNewHolder
        BY <1>1, <1>6, <4>2, MoveNoNewHolder DEF AcquireSelect, Phases
      <4>4. QED
        BY <1>0, <1>6, <4>1, <4>3 DEF AcquireSelect
    <3>4. QED
      BY <3>2, <3>3
  <2>2. CASE /\ r = NoRecord
             /\ pc' = [pc EXCEPT ![w] = "insert"]
             /\ UNCHANGED <<records, lease, resp>>
    <3>1. NoNewHolder
      BY <1>1, <1>6, <2>2, MoveNoNewHolder DEF AcquireSelect, Phases
    <3>2. QED
      BY <1>0, <1>6, <2>2, <3>1 DEF AcquireSelect
  <2>3. CASE /\ r = NoRecord /\ DBErrors
             /\ Dispatch(w, Dec("error"))
             /\ UNCHANGED records
    <3>1. pc' = [pc EXCEPT ![w] = "done"] /\ UNCHANGED lease
      BY <2>3 DEF Dispatch, Dec, Finish
    <3>2. NoNewHolder
      BY <1>1, <1>6, <3>1, MoveNoNewHolder DEF AcquireSelect, Phases
    <3>3. QED
      BY <1>0, <1>6, <2>3, <3>2 DEF AcquireSelect
  <2>4. QED
    BY <1>6, <2>1, <2>2, <2>3 DEF AcquireSelect
<1>7. ASSUME NEW w \in Workers, AcquireInsertStep(w) PROVE Goal
  <2> DEFINE id == RecordOf(w)
  <2>0. id \in RecordIds
    BY <1>1, <1>7 DEF AcquireInsertStep, TypeInv, KeyedInv, TypeOK, RecordOf, RecordIds,
                      Requests
  <2>1. PICK dec \in Decision : AcquireInsert(id, HashOf(w), acqTime[w], dec) /\ Dispatch(w, dec)
    BY <1>7 DEF AcquireInsertStep
  <2>2. CASE dec.type = "acquired"
    <3>1. records[id] = NoRecord /\ records' = [records EXCEPT ![id] = NewRecord(HashOf(w), acqTime[w])]
      BY <2>1, <2>2 DEF AcquireInsert, InsertAllowed, Dec
    <3>2. pc' = [pc EXCEPT ![w] = "execute"] /\ lease' = [lease EXCEPT ![w] = acqTime[w] + LockTTL]
      BY <2>1, <2>2 DEF Dispatch, Finish
    <3>3. NewRecord(HashOf(w), acqTime[w]).status = "in_progress"
      BY DEF NewRecord
    <3>4. QED
      BY <1>7, <2>0, <3>1, <3>2, <3>3, AcquireKeepsStable DEF AcquireInsertStep
  <2>3. CASE dec.type # "acquired"
    <3>1. UNCHANGED records
      BY <2>1, <2>3 DEF AcquireInsert, Dec
    <3>2. pc' = [pc EXCEPT ![w] = "done"] /\ UNCHANGED lease
      BY <2>1, <2>3 DEF Dispatch, Finish, Decision, DecisionTypes
    <3>3. NoNewHolder
      BY <1>1, <1>7, <3>2, MoveNoNewHolder DEF AcquireInsertStep, Phases
    <3>4. QED
      BY <1>0, <1>7, <3>1, <3>3 DEF AcquireInsertStep
  <2>4. QED
    BY <2>2, <2>3
<1>8. ASSUME NEW w \in Workers, Execute(w) PROVE Goal
  <2>1. NoNewHolder
    BY <1>1, <1>8, MoveNoNewHolder DEF Execute, Phases, Holder
  <2>2. QED
    BY <1>0, <1>8, <2>1 DEF Execute
<1>9. ASSUME NEW w \in Workers, CompleteStep(w) PROVE Goal
  BY <1>9, CompleteKeepsStable
<1>10. ASSUME NEW w \in Workers, Crash(w) PROVE Goal
  <2>1. NoNewHolder
    BY <1>1, <1>10, MoveNoNewHolder DEF Crash, Phases
  <2>2. QED
    BY <1>0, <1>10, <2>1 DEF Crash
<1>11. CASE Served \/ UNCHANGED vars
  <2>1. UNCHANGED vars
    BY <1>11 DEF Served
  <2>2. QED
    BY <1>0, <2>1 DEF vars, NoNewHolder, Holder
<1>12. QED
  BY <1>2, <1>3, <1>4, <1>5, <1>6, <1>7, <1>8, <1>9, <1>10, <1>11 DEF Next

(* A completed record is stable while no lease expires: once Complete has  *)
(* stored a response for a (scope, key), no Acquire, Complete, crash or    *)
(* retry rewrites it, so every later replay returns that response          *)
(* (sqlx_store.go lines 104-121 and 147-196).                              *)
THEOREM CompletedStableHolds == NoExpiry => (Spec => CompletedStable)
<1> SUFFICES ASSUME NoExpiry PROVE Spec => CompletedStable
  OBVIOUS
<1>1. Init => StableInv
  BY TypeInit DEF Init, StoreInit, StableInv, LeaseInv, HolderHasRecord, LeaseCovered,
     HoldersOrdered, ReadInPast, HolderLeaseBound, HolderInProgress, Holder
<1>2. StableInv /\ [Next]_vars => StableInv' /\ CompletedUnchanged
  BY StableStep
<1>3. QED
  BY <1>1, <1>2, PTL DEF Spec, CompletedStable, CompletedUnchanged
-----------------------------------------------------------------------------
(* The strengthening of ExactlyOnceDebit.  Without expiry an in_progress   *)
(* record's locked_until lies beyond the clock, so Acquire never hands a   *)
(* record out a second time; a worker that wrote a ledger row has passed   *)
(* the handler and its record exists; and a holder of a record is the only *)
(* worker with a row for it.                                                *)
LiveLocks ==
    \A id \in RecordIds :
        (records[id] # NoRecord /\ records[id].status = "in_progress")
            => records[id].lockedUntil >= LockTTL

(* The pc values of a worker that has passed the handler.                  *)
Executed == {"complete", "done", "crashed"}

RowsByExecuted ==
    \A i \in 1 .. Len(ledger) :
        /\ pc[ledger[i].by] \in Executed
        /\ RecordOf(ledger[i].by) \in RecordIds
        /\ records[RecordOf(ledger[i].by)] # NoRecord

HolderOwnsRows ==
    \A i \in 1 .. Len(ledger), w \in Workers :
        (Holder(w) /\ RecordOf(w) = RecordOf(ledger[i].by)) => ledger[i].by = w

OnceInv == StableInv /\ LiveLocks /\ RowsByExecuted /\ HolderOwnsRows /\ ExactlyOnceDebit
(* Every ledger row names the worker that wrote it.                        *)
LEMMA RowByWorker ==
    ASSUME WalletTypeOK, NEW i \in 1 .. Len(ledger)
    PROVE  ledger[i].by \in Workers
<1>1. ledger[i] \in Entry
  BY DEF WalletTypeOK
<1>2. QED
  BY <1>1 DEF Entry

(* OnceInv's type part, as a fact to cite.                                  *)
LEMMA OnceTyped ==
    ASSUME OnceInv
    PROVE  TypeInv /\ TypeOK /\ WalletTypeOK /\ StoreTypeOK
BY DEF OnceInv, StableInv, LeaseInv, TypeInv, TypeOK

(* A step that leaves the ledger, the records and the requests alone,     *)
(* creates no holder and moves no worker back from Executed keeps the      *)
(* debit conjuncts.                                                        *)
LEMMA OnceFrame ==
    ASSUME OnceInv, ledger' = ledger, records' = records, req' = req, NoNewHolder,
           \A x \in Workers : pc[x] \in Executed => pc'[x] \in Executed
    PROVE  LiveLocks' /\ RowsByExecuted' /\ HolderOwnsRows' /\ ExactlyOnceDebit'
<1>1. LiveLocks' /\ ExactlyOnceDebit'
  BY DEF OnceInv, LiveLocks, ExactlyOnceDebit, RecordOf
<1>2. RowsByExecuted'
  <2> SUFFICES ASSUME NEW i \in 1 .. Len(ledger)
               PROVE  /\ pc'[ledger[i].by] \in Executed
                      /\ RecordOf(ledger[i].by) \in RecordIds
                      /\ records[RecordOf(ledger[i].by)] # NoRecord
    BY DEF RowsByExecuted, RecordOf
  <2>1. ledger[i].by \in Workers
    BY OnceTyped, RowByWorker
  <2>2. QED
    BY <2>1 DEF OnceInv, RowsByExecuted, Executed
<1>3. HolderOwnsRows'
  BY DEF OnceInv, HolderOwnsRows, NoNewHolder, RecordOf
<1>4. QED
  BY <1>1, <1>2, <1>3

(* Without expiry Acquire finds no in_progress record whose lease has      *)
(* passed: its locked_until is at least LockTTL, beyond any clock reading. *)
LEMMA NoReacquire ==
    ASSUME NoExpiry, OnceInv, NEW id \in RecordIds, NEW t \in 0 .. MaxTime,
           records[id] # NoRecord, ~IsCompleted(records[id])
    PROVE  records[id].status = "in_progress" /\ LeaseLive(records[id], t)
<1>1. records[id] \in Record
  BY DEF OnceInv, StableInv, LeaseInv, TypeInv, TypeOK, StoreTypeOK
<1>2. records[id].status = "in_progress"
  BY <1>1 DEF IsCompleted, Record, Statuses
<1>3. records[id].lockedUntil >= LockTTL /\ records[id].lockedUntil \in Int
  BY <1>1, <1>2 DEF OnceInv, LiveLocks, Record
<1>4. QED
  BY <1>2, <1>3 DEF LeaseLive, NoExpiry

(* The handler's debit: the new row is the holder's, whose record has no   *)
(* other row and no other holder.                                          *)
LEMMA DebitKeepsOnce ==
    ASSUME NoExpiry, OnceInv, NEW w \in Workers, pc[w] = "execute",
           NEW e, e.by = w, ledger' = Append(ledger, e),
           pc' = [pc EXCEPT ![w] = "complete"],
           UNCHANGED <<records, req, lease, acqTime>>
    PROVE  LiveLocks' /\ RowsByExecuted' /\ HolderOwnsRows' /\ ExactlyOnceDebit'
<1>0. PICK n \in Nat : n = Len(ledger)
  BY DEF OnceInv, StableInv, LeaseInv, TypeInv, TypeOK, WalletTypeOK
<1> USE <1>0
<1>1. /\ Len(ledger') = n + 1
      /\ ledger'[n + 1] = e
      /\ \A i \in 1 .. n : ledger'[i] = ledger[i]
  BY DEF OnceInv, StableInv, LeaseInv, TypeInv, TypeOK, WalletTypeOK
<1>2. Holder(w) /\ records[RecordOf(w)] # NoRecord
  BY DEF Holder, OnceInv, StableInv, LeaseInv, HolderHasRecord
<1>3. \A i \in 1 .. n : ledger[i].by # w /\ ledger[i].by \in Workers
  <2> SUFFICES ASSUME NEW i \in 1 .. n PROVE ledger[i].by # w /\ ledger[i].by \in Workers
    OBVIOUS
  <2>1. ledger[i].by \in Workers
    BY OnceTyped, RowByWorker
  <2>2. pc[ledger[i].by] \in Executed
    BY DEF OnceInv, RowsByExecuted
  <2>3. QED
    BY <2>1, <2>2 DEF Executed
<1>4. \A i \in 1 .. n : RecordOf(ledger[i].by) # RecordOf(w)
  BY <1>2, <1>3 DEF OnceInv, HolderOwnsRows
<1>5. LiveLocks'
  BY DEF OnceInv, LiveLocks
<1>6. ExactlyOnceDebit'
  <2> SUFFICES ASSUME NEW i \in 1 .. n + 1, NEW j \in 1 .. n + 1, i # j
               PROVE  (RecordOf(ledger[i].by) # RecordOf(ledger[j].by))'
    BY <1>1 DEF ExactlyOnceDebit
  <2>1. CASE i \in 1 .. n /\ j \in 1 .. n
    BY <1>1, <2>1 DEF OnceInv, ExactlyOnceDebit, RecordOf
  <2>2. CASE i = n + 1 /\ j \in 1 .. n
    BY <1>1, <1>4, <2>2 DEF RecordOf
  <2>3. CASE j = n + 1 /\ i \in 1 .. n
    BY <1>1, <1>4, <2>3 DEF RecordOf
  <2>4. QED
    BY <2>1, <2>2, <2>3
<1>7. RowsByExecuted'
  <2> SUFFICES ASSUME NEW i \in 1 .. n + 1
               PROVE  (/\ pc[ledger[i].by] \in Executed
                       /\ RecordOf(ledger[i].by) \in RecordIds
                       /\ records[RecordOf(ledger[i].by)] # NoRecord)'
    BY <1>1 DEF RowsByExecuted
  <2>1. CASE i = n + 1
    <3>1. ledger'[i].by = w
      BY <1>1, <2>1
    <3>2. pc'[w] \in Executed
      BY OnceTyped DEF TypeOK, Executed
    <3>3. /\ <<req'[w].user, req'[w].key>> \in RecordIds
          /\ records'[<<req'[w].user, req'[w].key>>] # NoRecord
      BY <1>2, OnceTyped DEF RecordOf, TypeInv, KeyedInv, TypeOK, Requests, RecordIds
    <3>4. QED
      BY <3>1, <3>2, <3>3 DEF RecordOf
  <2>2. CASE i \in 1 .. n
    <3> DEFINE b == ledger[i].by
    <3>1. ledger'[i].by = b /\ b # w /\ b \in Workers
      BY <1>1, <1>3, <2>2
    <3>2. pc'[b] = pc[b]
      BY <3>1, OnceTyped DEF TypeOK
    <3>3. pc[b] \in Executed /\ RecordOf(b) \in RecordIds /\ records[RecordOf(b)] # NoRecord
      BY <2>2 DEF OnceInv, RowsByExecuted
    <3>4. QED
      BY <3>1, <3>2, <3>3 DEF RecordOf
  <2>3. QED
    BY <2>1, <2>2
<1>8. HolderOwnsRows'
  <2> SUFFICES ASSUME NEW i \in 1 .. n + 1, NEW x \in Workers, Holder(x)',
                      (RecordOf(x) = RecordOf(ledger[i].by))'
               PROVE  ledger'[i].by = x
    BY <1>1 DEF HolderOwnsRows
  <2>1. Holder(x)
    BY DEF Holder, OnceInv, StableInv, LeaseInv, TypeInv, TypeOK
  <2>2. CASE i = n + 1
    <3>1. RecordOf(x) = RecordOf(w)
      BY <1>1, <2>2 DEF RecordOf
    <3>2. QED
      BY <1>1, <1>2, <2>1, <2>2, <3>1, SoleHolder DEF OnceInv
  <2>3. CASE i \in 1 .. n
    BY <1>1, <2>1, <2>3 DEF OnceInv, HolderOwnsRows, RecordOf
  <2>4. QED
    BY <2>2, <2>3
<1>9. QED
  BY <1>5, <1>6, <1>7, <1>8
(* Moving worker w to v keeps every worker that has passed the handler    *)
(* past it, when w had not passed it or v is such a phase.                 *)
LEMMA MoveKeepsExecuted ==
    ASSUME TypeOK, NEW w \in Workers, NEW v, pc' = [pc EXCEPT ![w] = v],
           pc[w] \in Executed => v \in Executed
    PROVE  \A x \in Workers : pc[x] \in Executed => pc'[x] \in Executed
BY DEF TypeOK

(* Acquire's INSERT creates the record of w, which no row names, so the   *)
(* new holder owns every row of its record.                                *)
LEMMA InsertKeepsOnce ==
    ASSUME OnceInv, NEW w \in Workers, pc[w] = "insert", RecordOf(w) \in RecordIds,
           records[RecordOf(w)] = NoRecord,
           records' = [records EXCEPT ![RecordOf(w)] = NewRecord(HashOf(w), acqTime[w])],
           pc' = [pc EXCEPT ![w] = "execute"],
           UNCHANGED <<ledger, req, acqTime>>
    PROVE  LiveLocks' /\ RowsByExecuted' /\ HolderOwnsRows' /\ ExactlyOnceDebit'
<1> DEFINE id == RecordOf(w)
<1>1. \A i \in 1 .. Len(ledger) :
          /\ ledger[i].by # w
          /\ RecordOf(ledger[i].by) \in RecordIds \ {id}
          /\ pc[ledger[i].by] \in Executed
          /\ records[RecordOf(ledger[i].by)] # NoRecord
  BY DEF OnceInv, RowsByExecuted, Executed
<1>2. LiveLocks'
  <2>1. acqTime[w] \in Nat /\ LockTTL \in Nat
    BY OnceTyped DEF TypeOK
  <2>2. NewRecord(HashOf(w), acqTime[w]).lockedUntil >= LockTTL
    BY <2>1 DEF NewRecord
  <2>3. QED
    BY <2>2, OnceTyped DEF OnceInv, LiveLocks, StoreTypeOK
<1>3. RowsByExecuted'
  BY <1>1, OnceTyped DEF RowsByExecuted, TypeOK, StoreTypeOK, RecordOf
<1>4. HolderOwnsRows'
  <2> SUFFICES ASSUME NEW i \in 1 .. Len(ledger), NEW x \in Workers, Holder(x)',
                      RecordOf(x) = RecordOf(ledger[i].by)
               PROVE  ledger[i].by = x
    BY DEF HolderOwnsRows, RecordOf
  <2>1. x # w
    BY <1>1
  <2>2. Holder(x)
    BY <2>1, OnceTyped DEF Holder, TypeOK
  <2>3. QED
    BY <2>2 DEF OnceInv, HolderOwnsRows
<1>5. ExactlyOnceDebit'
  BY DEF OnceInv, ExactlyOnceDebit, RecordOf
<1>6. QED
  BY <1>2, <1>3, <1>4, <1>5

(* Complete turns the row of the completing worker's record completed,    *)
(* which is still a row, and the worker stops holding it.                 *)
LEMMA CompleteKeepsOnce ==
    ASSUME OnceInv, NEW w \in Workers, CompleteStep(w)
    PROVE  LiveLocks' /\ RowsByExecuted' /\ HolderOwnsRows' /\ ExactlyOnceDebit'
<1> DEFINE id == RecordOf(w)
<1>1. id \in RecordIds /\ records[id] \in Record
  <2>1. id \in RecordIds
    BY OnceTyped DEF CompleteStep, TypeInv, KeyedInv, TypeOK, RecordOf, RecordIds, Requests
  <2>2. records[id] # NoRecord
    BY DEF CompleteStep, OnceInv, StableInv, LeaseInv, HolderHasRecord, Holder
  <2>3. QED
    BY <2>1, <2>2, OnceTyped DEF StoreTypeOK
<1>2. PICK ok \in BOOLEAN :
          /\ Complete(id, HashOf(w), handlerResp[w], ok)
          /\ Finish(w, IF ok THEN handlerResp[w] ELSE Reply(w, "persist_error"))
  BY DEF CompleteStep
<1>3. \/ records' = records
      \/ records' = [records EXCEPT ![id] = Completed(records[id], now, handlerResp[w])]
  BY <1>2, Zenon DEF Complete
<1>4. Completed(records[id], now, handlerResp[w]) \in Record
  BY <1>1, OnceTyped, CompletedTyping DEF TypeOK, StoreTypeOK
<1>5. /\ \A x \in RecordIds : records'[x] # NoRecord \/ records[x] = NoRecord
      /\ \A x \in RecordIds : records'[x] = records[x] \/ records'[x].status = "completed"
  BY <1>1, <1>3, <1>4, OnceTyped DEF StoreTypeOK, Completed
<1>6. /\ pc' = [pc EXCEPT ![w] = "done"]
      /\ UNCHANGED <<ledger, req>>
  BY <1>2 DEF CompleteStep, Finish
<1>7. LiveLocks'
  BY <1>5 DEF OnceInv, LiveLocks
<1>8. RowsByExecuted'
  <2> SUFFICES ASSUME NEW i \in 1 .. Len(ledger)
               PROVE  /\ pc'[ledger[i].by] \in Executed
                      /\ RecordOf(ledger[i].by) \in RecordIds
                      /\ records'[RecordOf(ledger[i].by)] # NoRecord
    BY <1>6 DEF RowsByExecuted, RecordOf
  <2>1. ledger[i].by \in Workers
    BY OnceTyped, RowByWorker
  <2>2. pc'[ledger[i].by] \in Executed
    BY <1>6, <2>1, OnceTyped DEF OnceInv, RowsByExecuted, TypeOK, Executed
  <2>3. QED
    BY <1>5, <2>2 DEF OnceInv, RowsByExecuted
<1>9. HolderOwnsRows'
  <2> SUFFICES ASSUME NEW i \in 1 .. Len(ledger), NEW x \in Workers, Holder(x)',
                      RecordOf(x) = RecordOf(ledger[i].by)
               PROVE  ledger[i].by = x
    BY <1>6 DEF HolderOwnsRows, RecordOf
  <2>1. Holder(x)
    BY <1>6, OnceTyped DEF Holder, TypeOK
  <2>2. QED
    BY <2>1 DEF OnceInv, HolderOwnsRows
<1>10. ExactlyOnceDebit'
  BY <1>6 DEF OnceInv, ExactlyOnceDebit, RecordOf
<1>11. QED
  BY <1>7, <1>8, <1>9, <1>10
(* Every step keeps OnceInv.                                                *)
LEMMA OnceStep ==
    ASSUME NoExpiry, OnceInv, [Next]_vars
    PROVE  OnceInv'
<1> DEFINE Goal == LiveLocks' /\ RowsByExecuted' /\ HolderOwnsRows' /\ ExactlyOnceDebit'
<1> DEFINE Frame == /\ ledger' = ledger /\ records' = records /\ req' = req /\ NoNewHolder
                    /\ \A x \in Workers : pc[x] \in Executed => pc'[x] \in Executed
<1>0. Frame => Goal
  BY OnceFrame
<1>1. TypeInv /\ TypeOK /\ StableInv'
  BY OnceTyped, StableStep DEF OnceInv
<1> SUFFICES Goal
  BY <1>1 DEF OnceInv
<1>2. CASE Tick /\ UNCHANGED <<balance, ledger>> /\ UNCHANGED workerVars
  BY <1>0, <1>2 DEF Tick, workerVars, NoNewHolder, Holder
<1>3. ASSUME NEW w \in Workers, RateLimitReject(w) PROVE Goal
  <2>1. PICK k \in {"rate_limited"} \cup (IF DBErrors THEN {"limiter_error"} ELSE {}) :
               Finish(w, Reply(w, k))
    BY <1>3 DEF RateLimitReject
  <2>2. NoNewHolder
    BY <1>1, <1>3, <2>1, MoveNoNewHolder, Zenon DEF RateLimitReject, Finish, Phases
  <2>3. \A x \in Workers : pc[x] \in Executed => pc'[x] \in Executed
    BY <1>1, <1>3, <2>1, MoveKeepsExecuted, Zenon DEF RateLimitReject, Finish, Executed
  <2>4. QED
    BY <1>0, <1>3, <2>2, <2>3 DEF RateLimitReject
<1>4. ASSUME NEW w \in Workers, MissingKey(w) PROVE Goal
  <2>1. NoNewHolder
    BY <1>1, <1>4, MoveNoNewHolder, Zenon DEF MissingKey, Finish, Phases
  <2>2. \A x \in Workers : pc[x] \in Executed => pc'[x] \in Executed
    BY <1>1, <1>4, MoveKeepsExecuted, Zenon DEF MissingKey, Finish, Executed
  <2>3. QED
    BY <1>0, <1>4, <2>1, <2>2 DEF MissingKey
<1>5. ASSUME NEW w \in Workers, Receive(w) PROVE Goal
  <2>1. pc' = [pc EXCEPT ![w] = "acquire"] /\ "acquire" \in Phases
    BY <1>5 DEF Receive, Phases
  <2>2. \A x \in Workers : x # w => lease'[x] = lease[x] /\ acqTime'[x] = acqTime[x]
    BY <1>1, <1>5 DEF Receive, TypeInv, TypeOK
  <2>3. NoNewHolder
    BY <1>1, <2>1, <2>2, MoveNoNewHolder, Zenon
  <2>4. \A x \in Workers : pc[x] \in Executed => pc'[x] \in Executed
    BY <1>1, <1>5, <2>1, MoveKeepsExecuted, Zenon DEF Receive, Executed
  <2>5. QED
    BY <1>0, <1>5, <2>3, <2>4 DEF Receive
<1>6. ASSUME NEW w \in Workers, AcquireSelect(w) PROVE Goal
  <2> DEFINE id == RecordOf(w)  r == records[id]
  <2>0. id \in RecordIds /\ acqTime[w] \in 0 .. MaxTime
    BY <1>1, <1>6 DEF AcquireSelect, TypeInv, KeyedInv, TypeOK, RecordOf, RecordIds, Requests
  <2>1. CASE \E dec \in Decision : AcquireLocked(id, HashOf(w), acqTime[w], dec) /\ Dispatch(w, dec)
    <3>1. PICK dec \in Decision : AcquireLocked(id, HashOf(w), acqTime[w], dec) /\ Dispatch(w, dec)
      BY <2>1
    <3>2. dec.type # "acquired"
      <4>1. SUFFICES ASSUME dec.type = "acquired" PROVE FALSE
        OBVIOUS
      <4>2. r # NoRecord /\ ~IsCompleted(r) /\ ~(r.status = "in_progress" /\ LeaseLive(r, acqTime[w]))
        BY <3>1, <4>1 DEF AcquireLocked, Dec
      <4>3. QED
        BY <2>0, <4>2, NoReacquire
    <3>3. UNCHANGED records
      BY <3>1, <3>2 DEF AcquireLocked, Dec, Decision, DecisionTypes
    <3>4. pc' = [pc EXCEPT ![w] = "done"] /\ UNCHANGED lease
      BY <3>1, <3>2 DEF Dispatch, Finish, Decision, DecisionTypes
    <3>5. NoNewHolder
      BY <1>1, <1>6, <3>4, MoveNoNewHolder, Zenon DEF AcquireSelect, Phases
    <3>6. \A x \in Workers : pc[x] \in Executed => pc'[x] \in Executed
      BY <1>1, <1>6, <3>4, MoveKeepsExecuted, Zenon DEF AcquireSelect, Executed
    <3>7. QED
      BY <1>0, <1>6, <3>3, <3>5, <3>6 DEF AcquireSelect
  <2>2. CASE /\ r = NoRecord
             /\ pc' = [pc EXCEPT ![w] = "insert"]
             /\ UNCHANGED <<records, lease, resp>>
    <3>1. NoNewHolder
      BY <1>1, <1>6, <2>2, MoveNoNewHolder, Zenon DEF AcquireSelect, Phases
    <3>2. \A x \in Workers : pc[x] \in Executed => pc'[x] \in Executed
      BY <1>1, <1>6, <2>2, MoveKeepsExecuted, Zenon DEF AcquireSelect, Executed
    <3>3. QED
      BY <1>0, <1>6, <2>2, <3>1, <3>2 DEF AcquireSelect
  <2>3. CASE /\ r = NoRecord /\ DBErrors
             /\ Dispatch(w, Dec("error"))
             /\ UNCHANGED records
    <3>1. pc' = [pc EXCEPT ![w] = "done"] /\ UNCHANGED lease
      BY <2>3 DEF Dispatch, Dec, Finish
    <3>2. NoNewHolder
      BY <1>1, <1>6, <3>1, MoveNoNewHolder, Zenon DEF AcquireSelect, Phases
    <3>3. \A x \in Workers : pc[x] \in Executed => pc'[x] \in Executed
      BY <1>1, <1>6, <3>1, MoveKeepsExecuted, Zenon DEF AcquireSelect, Executed
    <3>4. QED
      BY <1>0, <1>6, <2>3, <3>2, <3>3 DEF AcquireSelect
  <2>4. QED
    BY <1>6, <2>1, <2>2, <2>3 DEF AcquireSelect
<1>7. ASSUME NEW w \in Workers, AcquireInsertStep(w) PROVE Goal
  <2> DEFINE id == RecordOf(w)
  <2>0. id \in RecordIds
    BY <1>1, <1>7 DEF AcquireInsertStep, TypeInv, KeyedInv, TypeOK, RecordOf, RecordIds,
                      Requests
  <2>1. PICK dec \in Decision : AcquireInsert(id, HashOf(w), acqTime[w], dec) /\ Dispatch(w, dec)
    BY <1>7 DEF AcquireInsertStep
  <2>2. CASE dec.type = "acquired"
    <3>1. records[id] = NoRecord /\ records' = [records EXCEPT ![id] = NewRecord(HashOf(w), acqTime[w])]
      BY <2>1, <2>2 DEF AcquireInsert, InsertAllowed, Dec
    <3>2. pc' = [pc EXCEPT ![w] = "execute"]
      BY <2>1, <2>2 DEF Dispatch, Finish
    <3>3. QED
      BY <1>7, <2>0, <3>1, <3>2, InsertKeepsOnce, Zenon DEF AcquireInsertStep
  <2>3. CASE dec.type # "acquired"
    <3>1. UNCHANGED records
      BY <2>1, <2>3 DEF AcquireInsert, Dec
    <3>2. pc' = [pc EXCEPT ![w] = "done"] /\ UNCHANGED lease
      BY <2>1, <2>3 DEF Dispatch, Finish, Decision, DecisionTypes
    <3>3. NoNewHolder
      BY <1>1, <1>7, <3>2, MoveNoNewHolder, Zenon DEF AcquireInsertStep, Phases
    <3>4. \A x \in Workers : pc[x] \in Executed => pc'[x] \in Executed
      BY <1>1, <1>7, <3>2, MoveKeepsExecuted, Zenon DEF AcquireInsertStep, Executed
    <3>5. QED
      BY <1>0, <1>7, <3>1, <3>3, <3>4 DEF AcquireInsertStep
  <2>4. QED
    BY <2>2, <2>3
<1>8. ASSUME NEW w \in Workers, Execute(w) PROVE Goal
  <2>1. PICK out \in TxOutcomes : WithdrawTx(req[w].user, req[w].amount, w, out)
    BY <1>8 DEF Execute
  <2>2. pc' = [pc EXCEPT ![w] = "complete"] /\ UNCHANGED <<records, req, lease, acqTime>>
    BY <1>8 DEF Execute
  <2>3. CASE ledger' = Append(ledger, LedgerEntry(req[w].user, req[w].amount, w))
    BY <1>8, <2>2, <2>3, DebitKeepsOnce, Zenon DEF Execute, LedgerEntry
  <2>4. CASE UNCHANGED walletVars
    <3>1. NoNewHolder
      BY <1>1, <1>8, MoveNoNewHolder, Zenon DEF Execute, Phases, Holder
    <3>2. \A x \in Workers : pc[x] \in Executed => pc'[x] \in Executed
      BY <1>1, <2>2, MoveKeepsExecuted, Zenon DEF Executed
    <3>3. QED
      BY <1>0, <2>2, <2>4, <3>1, <3>2 DEF walletVars
  <2>5. QED
    BY <2>1, <2>3, <2>4 DEF WithdrawTx
<1>9. ASSUME NEW w \in Workers, CompleteStep(w) PROVE Goal
  BY <1>9, CompleteKeepsOnce
<1>10. ASSUME NEW w \in Workers, Crash(w) PROVE Goal
  <2>1. NoNewHolder
    BY <1>1, <1>10, MoveNoNewHolder, Zenon DEF Crash, Phases
  <2>2. \A x \in Workers : pc[x] \in Executed => pc'[x] \in Executed
    BY <1>1, <1>10, MoveKeepsExecuted, Zenon DEF Crash, Executed
  <2>3. QED
    BY <1>0, <1>10, <2>1, <2>2 DEF Crash
<1>11. CASE Served \/ UNCHANGED vars
  <2>1. UNCHANGED vars
    BY <1>11 DEF Served
  <2>2. QED
    BY <1>0, <2>1 DEF vars, NoNewHolder, Holder
<1>12. QED
  BY <1>2, <1>3, <1>4, <1>5, <1>6, <1>7, <1>8, <1>9, <1>10, <1>11 DEF Next

(* The initial states satisfy OnceInv: no holder, no row, no record.     *)
LEMMA OnceInit == Init => OnceInv
<1> SUFFICES ASSUME Init PROVE OnceInv
  OBVIOUS
<1>1. StableInv
  BY TypeInit DEF Init, StoreInit, StableInv, LeaseInv, HolderHasRecord, LeaseCovered,
     HoldersOrdered, ReadInPast, HolderLeaseBound, HolderInProgress, Holder
<1>2. QED
  BY <1>1 DEF Init, StoreInit, WalletInit, OnceInv, LiveLocks, RowsByExecuted,
     HolderOwnsRows, ExactlyOnceDebit

(* Exactly-once debit while no lease expires: however often a request is   *)
(* retried or raced, with crashes and database failures anywhere, the      *)
(* ledger holds at most one row per (user, idempotency key): a record,     *)
(* once inserted, is never handed to a second handler (sqlx_store.go lines *)
(* 52-145), and its one handler debits once (withdraw.balance.go 34-67).   *)
THEOREM ExactlyOnceDebitHolds == NoExpiry => (Spec => []ExactlyOnceDebit)
<1> SUFFICES ASSUME NoExpiry PROVE Spec => []ExactlyOnceDebit
  OBVIOUS
<1>1. Init => OnceInv
  BY OnceInit
<1>2. OnceInv /\ [Next]_vars => OnceInv'
  BY OnceStep
<1>3. OnceInv => ExactlyOnceDebit
  BY DEF OnceInv
<1>4. QED
  BY <1>1, <1>2, <1>3, PTL DEF Spec
=============================================================================
