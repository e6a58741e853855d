------------------------ MODULE WithdrawPipelineProofs ------------------------
(***************************************************************************)
(* Proofs about WithdrawPipeline for every value of the constants that     *)
(* satisfies the modules' assumptions.                                     *)
(***************************************************************************)
EXTENDS WithdrawPipeline, TLAPS

USE ParamsAssumption, WalletAssumption, StoreAssumption, NoRecordAssumption,
    PipelineAssumption
USE DEF Workers, TxOutcomes, MiddlewareOutcomes

(* A worker that got past the idempotency middleware's key check           *)
(* (http.cors.go lines 693-696) serves a request that carries a key, so    *)
(* the record it acquires and completes is one of RecordIds.               *)
KeyedInv ==
    \A w \in Workers :
        pc[w] \in {"acquire", "insert", "execute", "complete"} => req[w].key \in Keys

TypeInv == TypeOK /\ KeyedInv

(* The strengthening of LeaseExclusion.  A holder's record exists; while   *)
(* it is in_progress its locked_until is at least the holder's lease; of   *)
(* two holders of one record, the later one read its clock after the      *)
(* earlier one's lease had passed; and every clock reading is in the past. *)
HolderHasRecord ==
    \A w \in Workers : Holder(w) => records[RecordOf(w)] # NoRecord

LeaseCovered ==
    \A w \in Workers :
        (Holder(w) /\ records[RecordOf(w)].status = "in_progress")
            => lease[w] <= records[RecordOf(w)].lockedUntil

HoldersOrdered ==
    \A w1, w2 \in Workers :
        (w1 # w2 /\ Holder(w1) /\ Holder(w2) /\ RecordOf(w1) = RecordOf(w2))
            => (lease[w1] <= acqTime[w2] \/ lease[w2] <= acqTime[w1])

ReadInPast == \A w \in Workers : acqTime[w] <= now

LeaseInv == TypeInv /\ HolderHasRecord /\ LeaseCovered /\ HoldersOrdered /\ ReadInPast

-----------------------------------------------------------------------------
(* The row Acquire's reacquire UPDATE leaves is a well-formed record.      *)
LEMMA ReacquiredTyping ==
    ASSUME NEW r \in Record, NEW t \in 0 .. MaxTime
    PROVE  Reacquired(r, t) \in Record
BY DEF Record, Reacquired, Statuses

(* The row Acquire's INSERT writes is a well-formed record.                *)
LEMMA NewRecordTyping ==
    ASSUME NEW h \in Amounts, NEW t \in 0 .. MaxTime
    PROVE  NewRecord(h, t) \in Record
BY DEF Record, NewRecord, Statuses

(* The row Complete's UPDATE leaves is a well-formed record.               *)
LEMMA CompletedTyping ==
    ASSUME NEW r \in Record, NEW t \in 0 .. MaxTime,
           NEW x \in Responses \cup {NoResponse}
    PROVE  Completed(r, t, x) \in Record
BY DEF Record, Completed, Statuses

(* Every reply a worker builds for itself is a response.                   *)
LEMMA ReplyTyping ==
    ASSUME NEW w \in Workers, NEW k \in TxOutcomes \cup MiddlewareOutcomes
    PROVE  Reply(w, k) \in Responses
BY DEF Reply

(* The ledger row a debit appends is an entry.                             *)
LEMMA EntryTyping ==
    ASSUME NEW u \in WalletUsers, NEW a \in Int, NEW by \in Requesters,
           balance \in [WalletUsers -> Int]
    PROVE  LedgerEntry(u, a, by) \in Entry
BY DEF LedgerEntry, Entry

(* Writing a well-formed row keeps the table well-formed.                  *)
LEMMA WriteRecordTyping ==
    ASSUME records \in [RecordIds -> Record \cup {NoRecord}],
           NEW id \in RecordIds, NEW r \in Record
    PROVE  [records EXCEPT ![id] = r] \in [RecordIds -> Record \cup {NoRecord}]
OBVIOUS

-----------------------------------------------------------------------------
(* Dispatch keeps the worker variables typed: the decision's response is a *)
(* response or none, and a new lease is acqTime + LockTTL.                  *)
LEMMA DispatchTyping ==
    ASSUME TypeInv, NEW w \in Workers, NEW dec \in Decision, Dispatch(w, dec)
    PROVE  /\ pc' \in [Workers -> Phases]
           /\ lease' \in [Workers -> 0 .. MaxTime + LockTTL]
           /\ resp' \in [Workers -> Responses \cup {NoResponse}]
<1> USE DEF TypeInv, TypeOK
<1>1. CASE dec.type = "acquired"
  BY <1>1 DEF Dispatch, Phases, Decision, DecisionTypes
<1>2. CASE dec.type = "replay"
  BY <1>2 DEF Dispatch, Finish, Phases, Decision, DecisionTypes
<1>3. CASE dec.type \in {"in_progress", "conflict", "error"}
  <2>1. Reply(w, IF dec.type = "error" THEN "acquire_error" ELSE dec.type) \in Responses
    BY <1>3, ReplyTyping DEF MiddlewareOutcomes
  <2>2. QED
    BY <1>3, <2>1 DEF Dispatch, Finish, Phases
<1>4. QED
  BY <1>1, <1>2, <1>3 DEF Dispatch, Decision, DecisionTypes

-----------------------------------------------------------------------------
(* The initial states are typed.                                          *)
LEMMA TypeInit == Init => TypeInv
BY DEF Init, WalletInit, StoreInit, TypeInv, TypeOK, WalletTypeOK, StoreTypeOK,
       KeyedInv, Record, Phases

(* Every step keeps the variables typed.                                    *)
LEMMA TypeStep == TypeInv /\ [Next]_vars => TypeInv'
<2> SUFFICES ASSUME TypeInv, [Next]_vars PROVE TypeInv'
  OBVIOUS
<2> USE DEF TypeInv, TypeOK, WalletTypeOK, StoreTypeOK, KeyedInv
<2>1. CASE Tick /\ UNCHANGED <<balance, ledger>> /\ UNCHANGED workerVars
  BY <2>1 DEF Tick, workerVars
<2>2. ASSUME NEW w \in Workers, RateLimitReject(w) PROVE TypeInv'
  <3>1. PICK k \in {"rate_limited"} \cup (IF DBErrors THEN {"limiter_error"} ELSE {}) :
               Finish(w, Reply(w, k))
    BY <2>2 DEF RateLimitReject
  <3>2. Reply(w, k) \in Responses
    BY ReplyTyping DEF MiddlewareOutcomes
  <3>3. QED
    BY <2>2, <3>1, <3>2 DEF RateLimitReject, Finish, Phases
<2>3. ASSUME NEW w \in Workers, MissingKey(w) PROVE TypeInv'
  <3>1. Reply(w, "missing_key") \in Responses
    BY ReplyTyping DEF MiddlewareOutcomes
  <3>2. QED
    BY <2>3, <3>1 DEF MissingKey, Finish, Phases
<2>4. ASSUME NEW w \in Workers, Receive(w) PROVE TypeInv'
  BY <2>4 DEF Receive, Phases, Requests
<2>5. ASSUME NEW w \in Workers, AcquireSelect(w) PROVE TypeInv'
  <3>1. RecordOf(w) \in RecordIds
    BY <2>5 DEF AcquireSelect, RecordOf, RecordIds, Requests
  <3>2. CASE \E dec \in Decision :
               AcquireLocked(RecordOf(w), HashOf(w), acqTime[w], dec) /\ Dispatch(w, dec)
    <4>1. PICK dec \in Decision :
               AcquireLocked(RecordOf(w), HashOf(w), acqTime[w], dec) /\ Dispatch(w, dec)
      BY <3>2
    <4>2. records' \in [RecordIds -> Record \cup {NoRecord}]
      <5>1. CASE UNCHANGED records
        BY <5>1
      <5>2. CASE ~UNCHANGED records
        <6> DEFINE r == records[RecordOf(w)]
        <6>1. r \in Record /\ records' = [records EXCEPT ![RecordOf(w)] = Reacquired(r, acqTime[w])]
          BY <4>1, <5>2, <3>1 DEF AcquireLocked
        <6>2. Reacquired(r, acqTime[w]) \in Record
          BY <6>1, ReacquiredTyping
        <6>3. QED
          BY <3>1, <6>1, <6>2, WriteRecordTyping
      <5>3. QED
        BY <5>1, <5>2
    <4>3. pc' \in [Workers -> Phases] /\ lease' \in [Workers -> 0 .. MaxTime + LockTTL]
          /\ resp' \in [Workers -> Responses \cup {NoResponse}]
      BY <4>1, DispatchTyping
    <4>4. KeyedInv'
      BY <4>1, <2>5 DEF AcquireSelect, Dispatch, Finish
    <4>5. QED
      BY <2>5, <4>2, <4>3, <4>4 DEF AcquireSelect
  <3>3. CASE /\ records[RecordOf(w)] = NoRecord
             /\ pc' = [pc EXCEPT ![w] = "insert"]
             /\ UNCHANGED <<records, lease, resp>>
    BY <2>5, <3>3 DEF AcquireSelect, Phases
  <3>4. CASE /\ records[RecordOf(w)] = NoRecord
             /\ DBErrors
             /\ Dispatch(w, Dec("error"))
             /\ UNCHANGED records
    <4>1. Dec("error") \in Decision
      BY StoreAssumption DEF Dec, Decision, DecisionTypes
    <4>2. KeyedInv'
      BY <2>5, <3>4 DEF AcquireSelect, Dispatch, Dec, Finish
    <4>3. QED
      BY <2>5, <3>4, <4>1, <4>2, DispatchTyping DEF AcquireSelect
  <3>5. QED
    BY <2>5, <3>2, <3>3, <3>4 DEF AcquireSelect
<2>6. ASSUME NEW w \in Workers, AcquireInsertStep(w) PROVE TypeInv'
  <3>1. RecordOf(w) \in RecordIds
    BY <2>6 DEF AcquireInsertStep, RecordOf, RecordIds, Requests
  <3>2. PICK dec \in Decision :
             AcquireInsert(RecordOf(w), HashOf(w), acqTime[w], dec) /\ Dispatch(w, dec)
    BY <2>6 DEF AcquireInsertStep
  <3>3. HashOf(w) \in Amounts
    BY DEF HashOf, Requests
  <3>4. records' \in [RecordIds -> Record \cup {NoRecord}]
    <4>1. NewRecord(HashOf(w), acqTime[w]) \in Record
      BY <3>3, NewRecordTyping
    <4>2. records' = records \/ records' = [records EXCEPT ![RecordOf(w)] = NewRecord(HashOf(w), acqTime[w])]
      BY <3>2 DEF AcquireInsert
    <4>3. QED
      BY <3>1, <4>1, <4>2, WriteRecordTyping
  <3>5. KeyedInv'
    BY <2>6, <3>2 DEF AcquireInsertStep, Dispatch, Finish
  <3>6. QED
    BY <2>6, <3>2, <3>4, <3>5, DispatchTyping DEF AcquireInsertStep
<2>7. ASSUME NEW w \in Workers, Execute(w) PROVE TypeInv'
  <3>1. PICK out \in TxOutcomes :
             /\ WithdrawTx(req[w].user, req[w].amount, w, out)
             /\ handlerResp' = [handlerResp EXCEPT ![w] = Reply(w, out)]
    BY <2>7 DEF Execute
  <3>2. Reply(w, out) \in Responses
    BY ReplyTyping
  <3>3. balance' \in [WalletUsers -> Int] /\ ledger' \in Seq(Entry)
    <4> DEFINE u == req[w].user  a == req[w].amount
    <4>1. CASE /\ a > 0 /\ CanDebit(u, a)
               /\ balance' = [balance EXCEPT ![u] = @ - a]
               /\ ledger' = Append(ledger, LedgerEntry(u, a, w))
      <5>1. u \in WalletUsers /\ a \in Int
        BY <4>1 DEF CanDebit, Requests
      <5>2. LedgerEntry(u, a, w) \in Entry
        BY <5>1, EntryTyping
      <5>3. QED
        BY <4>1, <5>1, <5>2
    <4>2. CASE UNCHANGED walletVars
      BY <4>2 DEF walletVars
    <4>3. QED
      BY <3>1, <4>1, <4>2 DEF WithdrawTx
  <3>4. QED
    BY <2>7, <3>1, <3>2, <3>3 DEF Execute, Phases
<2>8. ASSUME NEW w \in Workers, CompleteStep(w) PROVE TypeInv'
  <3>1. RecordOf(w) \in RecordIds
    BY <2>8 DEF CompleteStep, RecordOf, RecordIds, Requests
  <3>2. PICK ok \in BOOLEAN :
             /\ Complete(RecordOf(w), HashOf(w), handlerResp[w], ok)
             /\ Finish(w, IF ok THEN handlerResp[w] ELSE Reply(w, "persist_error"))
    BY <2>8 DEF CompleteStep
  <3>3. records' \in [RecordIds -> Record \cup {NoRecord}]
    <4> DEFINE r == records[RecordOf(w)]
    <4>1. CASE UNCHANGED records
      BY <4>1
    <4>2. CASE r # NoRecord /\ records' = [records EXCEPT ![RecordOf(w)] = Completed(r, now, handlerResp[w])]
      <5>1. Completed(r, now, handlerResp[w]) \in Record
        BY <3>1, <4>2, CompletedTyping
      <5>2. QED
        BY <3>1, <4>2, <5>1, WriteRecordTyping
    <4>3. QED
      BY <3>2, <4>1, <4>2 DEF Complete
  <3>4. Reply(w, "persist_error") \in Responses
    BY ReplyTyping DEF MiddlewareOutcomes
  <3>5. QED
    BY <2>8, <3>2, <3>3, <3>4 DEF CompleteStep, Finish, Phases
<2>9. ASSUME NEW w \in Workers, Crash(w) PROVE TypeInv'
  BY <2>9 DEF Crash, Phases
<2>10. CASE Served
  BY <2>10 DEF Served, vars
<2>11. CASE UNCHANGED vars
  BY <2>11 DEF vars
<2>12. QED
  BY <2>1, <2>2, <2>3, <2>4, <2>5, <2>6, <2>7, <2>8, <2>9, <2>10, <2>11 DEF Next

(* Type correctness: every variable keeps its type, and a worker in the    *)
(* store or handler phases serves a keyed request.                          *)
THEOREM TypeCorrect == Spec => []TypeOK
<1>1. Init => TypeInv
  BY TypeInit
<1>2. TypeInv /\ [Next]_vars => TypeInv'
  BY TypeStep
<1>3. TypeInv => TypeOK
  BY DEF TypeInv
<1>4. QED
  BY <1>1, <1>2, <1>3, PTL DEF Spec
-----------------------------------------------------------------------------
(* One withdraw transaction never leaves a wallet negative: the debit      *)
(* happens only when the conditional UPDATE's `balance_minor >= amount`    *)
(* holds (src/unnamed/part_010 line 15); every other outcome rolls back.   *)
LEMMA WithdrawTxKeepsFloor ==
    ASSUME balance \in [WalletUsers -> Int], NoOverdraft,
           NEW u \in Users, NEW a \in Amounts, NEW by \in Requesters,
           NEW out \in TxOutcomes, WithdrawTx(u, a, by, out)
    PROVE  NoOverdraft'
<1>1. CASE a > 0 /\ CanDebit(u, a) /\ balance' = [balance EXCEPT ![u] = @ - a]
  BY <1>1 DEF CanDebit, NoOverdraft
<1>2. CASE UNCHANGED walletVars
  BY <1>2 DEF walletVars, NoOverdraft
<1>3. QED
  BY <1>1, <1>2 DEF WithdrawTx

(* No overdraft: under any interleaving of requests, retries, crashes and  *)
(* database failures, no wallet balance drops below zero (spec section 3). *)
THEOREM NoOverdraftHolds == Spec => []NoOverdraft
<1>1. Init => NoOverdraft
  BY DEF Init, WalletInit, NoOverdraft
<1>2. TypeOK /\ NoOverdraft /\ [Next]_vars => NoOverdraft'
  <2> SUFFICES ASSUME TypeOK, NoOverdraft, [Next]_vars PROVE NoOverdraft'
    OBVIOUS
  <2>1. ASSUME NEW w \in Workers, Execute(w) PROVE NoOverdraft'
    <3>1. PICK out \in TxOutcomes : WithdrawTx(req[w].user, req[w].amount, w, out)
      BY <2>1 DEF Execute
    <3>2. req[w].user \in Users /\ req[w].amount \in Amounts
      BY DEF TypeOK, Requests
    <3>3. balance \in [WalletUsers -> Int]
      BY DEF TypeOK, WalletTypeOK
    <3>4. QED
      BY <3>1, <3>2, <3>3, WithdrawTxKeepsFloor
  <2>2. CASE UNCHANGED balance
    BY <2>2 DEF NoOverdraft
  <2>3. QED
    BY <2>1, <2>2 DEF Next, vars, Tick, RateLimitReject, MissingKey, Receive,
       AcquireSelect, AcquireInsertStep, CompleteStep, Crash, Served
<1>3. QED
  BY <1>1, <1>2, TypeCorrect, PTL DEF Spec
-----------------------------------------------------------------------------
(* A step that leaves the records and requests alone and creates no new    *)
(* holder (every holder after it was one before, with the same lease and   *)
(* clock reading) keeps the holder conjuncts of LeaseInv.                  *)
LEMMA HolderFrame ==
    ASSUME LeaseInv, records' = records, req' = req,
           \A x \in Workers :
               Holder(x)' => (Holder(x) /\ lease'[x] = lease[x] /\ acqTime'[x] = acqTime[x])
    PROVE  HolderHasRecord' /\ LeaseCovered' /\ HoldersOrdered'
BY DEF LeaseInv, HolderHasRecord, LeaseCovered, HoldersOrdered, RecordOf

(* Reacquiring an expired record (sqlx_store.go lines 123-144): the record *)
(* was in_progress with locked_until at or before the acquirer's clock     *)
(* reading, so every other holder's lease has already passed that reading, *)
(* and the new locked_until is the acquirer's lease.                        *)
LEMMA ReacquireKeepsLease ==
    ASSUME LeaseInv, NEW w \in Workers, pc[w] = "acquire",
           records[RecordOf(w)] \in Record,
           records[RecordOf(w)].status = "in_progress",
           records[RecordOf(w)].lockedUntil <= acqTime[w],
           records' = [records EXCEPT ![RecordOf(w)] = Reacquired(records[RecordOf(w)], acqTime[w])],
           pc' = [pc EXCEPT ![w] = "execute"],
           lease' = [lease EXCEPT ![w] = acqTime[w] + LockTTL],
           UNCHANGED <<req, acqTime>>
    PROVE  HolderHasRecord' /\ LeaseCovered' /\ HoldersOrdered'
<1> DEFINE id == RecordOf(w)
<1>1. id \in RecordIds
  BY DEF LeaseInv, TypeInv, KeyedInv, TypeOK, RecordOf, RecordIds, Requests
<1>2. Reacquired(records[id], acqTime[w]) \in Record
  BY ReacquiredTyping DEF LeaseInv, TypeInv, TypeOK
<1>3. records'[id].lockedUntil = acqTime[w] + LockTTL /\ records'[id] # NoRecord
  BY <1>1, <1>2 DEF Reacquired, LeaseInv, TypeInv, TypeOK, StoreTypeOK
<1>4. ASSUME NEW x \in Workers, x # w, Holder(x), RecordOf(x) = id
      PROVE  lease[x] <= acqTime[w]
  <2>1. lease[x] <= records[id].lockedUntil
    BY <1>4 DEF LeaseInv, LeaseCovered
  <2>2. lease[x] \in Int /\ acqTime[w] \in Int /\ records[id].lockedUntil \in Int
    BY DEF LeaseInv, TypeInv, TypeOK, Record
  <2>3. QED
    BY <2>1, <2>2
<1>5. HolderHasRecord'
  BY <1>3 DEF LeaseInv, HolderHasRecord, Holder, RecordOf
<1>6. LeaseCovered'
  <2> SUFFICES ASSUME NEW x \in Workers, Holder(x)',
                      records'[RecordOf(x)'].status = "in_progress"
               PROVE  lease'[x] <= records'[RecordOf(x)'].lockedUntil
    BY DEF LeaseCovered
  <2>1. RecordOf(x)' = RecordOf(x)
    BY DEF RecordOf
  <2>2. CASE x = w
    BY <2>1, <2>2, <1>3 DEF LeaseInv, TypeInv, TypeOK
  <2>3. CASE x # w /\ RecordOf(x) = id
    <3>1. Holder(x)
      BY <2>3 DEF Holder
    <3>2. lease[x] <= acqTime[w]
      BY <2>3, <3>1, <1>4
    <3>3. lease'[x] = lease[x]
      BY <2>3 DEF LeaseInv, TypeInv, TypeOK
    <3>4. QED
      BY <2>1, <2>3, <1>3, <3>2, <3>3 DEF LeaseInv, TypeInv, TypeOK, StoreAssumption
  <2>4. CASE x # w /\ RecordOf(x) # id
    <3>1. Holder(x) /\ lease'[x] = lease[x] /\ records'[RecordOf(x)] = records[RecordOf(x)]
      BY <2>4 DEF Holder, LeaseInv, TypeInv, TypeOK
    <3>2. QED
      BY <2>1, <3>1 DEF LeaseInv, LeaseCovered
  <2>5. QED
    BY <2>2, <2>3, <2>4
<1>7. HoldersOrdered'
  <2> SUFFICES ASSUME NEW x1 \in Workers, NEW x2 \in Workers, x1 # x2,
                      Holder(x1)', Holder(x2)', RecordOf(x1)' = RecordOf(x2)'
               PROVE  lease'[x1] <= acqTime'[x2] \/ lease'[x2] <= acqTime'[x1]
    BY DEF HoldersOrdered
  <2>1. RecordOf(x1)' = RecordOf(x1) /\ RecordOf(x2)' = RecordOf(x2)
    BY DEF RecordOf
  <2>2. CASE x1 = w
    <3>1. Holder(x2) /\ lease'[x2] = lease[x2] /\ RecordOf(x2) = id
      BY <2>1, <2>2 DEF Holder, LeaseInv, TypeInv, TypeOK
    <3>2. QED
      BY <2>2, <3>1, <1>4
  <2>3. CASE x2 = w
    <3>1. Holder(x1) /\ lease'[x1] = lease[x1] /\ RecordOf(x1) = id
      BY <2>1, <2>3 DEF Holder, LeaseInv, TypeInv, TypeOK
    <3>2. QED
      BY <2>3, <3>1, <1>4
  <2>4. CASE x1 # w /\ x2 # w
    <3>1. Holder(x1) /\ Holder(x2) /\ lease'[x1] = lease[x1] /\ lease'[x2] = lease[x2]
      BY <2>4 DEF Holder, LeaseInv, TypeInv, TypeOK
    <3>2. QED
      BY <2>1, <3>1 DEF LeaseInv, HoldersOrdered
  <2>5. QED
    BY <2>2, <2>3, <2>4
<1>8. QED
  BY <1>5, <1>6, <1>7

(* Acquiring by INSERT (sqlx_store.go lines 80-93): the row did not exist, *)
(* so no worker held it, and the new locked_until is the acquirer's lease. *)
LEMMA InsertKeepsLease ==
    ASSUME LeaseInv, NEW w \in Workers, pc[w] = "insert",
           records[RecordOf(w)] = NoRecord,
           records' = [records EXCEPT ![RecordOf(w)] = NewRecord(HashOf(w), acqTime[w])],
           pc' = [pc EXCEPT ![w] = "execute"],
           lease' = [lease EXCEPT ![w] = acqTime[w] + LockTTL],
           UNCHANGED <<req, acqTime>>
    PROVE  HolderHasRecord' /\ LeaseCovered' /\ HoldersOrdered'
<1> DEFINE id == RecordOf(w)
<1>1. id \in RecordIds
  BY DEF LeaseInv, TypeInv, KeyedInv, TypeOK, RecordOf, RecordIds, Requests
<1>2. NewRecord(HashOf(w), acqTime[w]) \in Record
  BY NewRecordTyping DEF LeaseInv, TypeInv, TypeOK, HashOf, Requests
<1>3. records'[id].lockedUntil = acqTime[w] + LockTTL /\ records'[id] # NoRecord
  BY <1>1, <1>2 DEF NewRecord, LeaseInv, TypeInv, TypeOK, StoreTypeOK
<1>4. ASSUME NEW x \in Workers, Holder(x) PROVE RecordOf(x) # id
  BY <1>4 DEF LeaseInv, HolderHasRecord
<1>5. \A x \in Workers : Holder(x)' /\ x # w => Holder(x) /\ lease'[x] = lease[x]
  BY DEF Holder, LeaseInv, TypeInv, TypeOK
<1>6. \A x \in Workers : RecordOf(x)' = RecordOf(x)
  BY DEF RecordOf
<1>7. HolderHasRecord'
  BY <1>3, <1>4, <1>5, <1>6 DEF LeaseInv, HolderHasRecord, TypeInv, TypeOK
<1>8. LeaseCovered'
  BY <1>3, <1>4, <1>5, <1>6 DEF LeaseInv, LeaseCovered, TypeInv, TypeOK
<1>9. HoldersOrdered'
  BY <1>4, <1>5, <1>6 DEF LeaseInv, HoldersOrdered
<1>10. QED
  BY <1>7, <1>8, <1>9
(* Complete (sqlx_store.go lines 147-196) ends its caller's hold; a row it *)
(* completes is no longer in_progress, so no lease must be covered by it.  *)
LEMMA CompleteKeepsLease ==
    ASSUME LeaseInv, NEW w \in Workers, CompleteStep(w)
    PROVE  HolderHasRecord' /\ LeaseCovered' /\ HoldersOrdered'
<1> DEFINE id == RecordOf(w)
<1>1. PICK ok \in BOOLEAN :
           /\ Complete(id, HashOf(w), handlerResp[w], ok)
           /\ Finish(w, IF ok THEN handlerResp[w] ELSE Reply(w, "persist_error"))
  BY DEF CompleteStep
<1>2. UNCHANGED <<req, lease, acqTime>> /\ pc' = [pc EXCEPT ![w] = "done"]
  BY DEF CompleteStep, Finish
<1>3. \A x \in Workers : Holder(x)' => x # w /\ Holder(x) /\ lease'[x] = lease[x]
  BY <1>2 DEF Holder, LeaseInv, TypeInv, TypeOK
<1>4. \A x \in Workers : RecordOf(x)' = RecordOf(x)
  BY <1>2 DEF RecordOf
<1>5. CASE UNCHANGED records
  <2>1. \A x \in Workers :
           Holder(x)' => (Holder(x) /\ lease'[x] = lease[x] /\ acqTime'[x] = acqTime[x])
    BY <1>2, <1>3
  <2>2. records' = records /\ req' = req
    BY <1>2, <1>5
  <2>3. QED
    BY <2>1, <2>2, HolderFrame
<1>6. CASE /\ records[id] # NoRecord
           /\ records' = [records EXCEPT ![id] = Completed(records[id], now, handlerResp[w])]
  <2>1. id \in RecordIds
    BY DEF CompleteStep, LeaseInv, TypeInv, KeyedInv, TypeOK, RecordOf, RecordIds, Requests
  <2>2. records'[id] # NoRecord /\ records'[id].status = "completed"
    <3>1. records[id] \in Record
      BY <1>6, <2>1 DEF LeaseInv, TypeInv, TypeOK, StoreTypeOK
    <3>2. Completed(records[id], now, handlerResp[w]) \in Record
      BY <3>1, CompletedTyping DEF LeaseInv, TypeInv, TypeOK, StoreTypeOK
    <3>3. QED
      BY <1>6, <2>1, <3>2 DEF Completed, LeaseInv, TypeInv, TypeOK, StoreTypeOK
  <2>3. \A i \in RecordIds : i # id => records'[i] = records[i]
    BY <1>6 DEF LeaseInv, TypeInv, TypeOK, StoreTypeOK
  <2>4. \A x \in Workers : Holder(x) => RecordOf(x) \in RecordIds
    BY DEF Holder, LeaseInv, TypeInv, KeyedInv, TypeOK, RecordOf, RecordIds, Requests
  <2>5. HolderHasRecord'
    BY <1>3, <1>4, <2>2, <2>3, <2>4 DEF LeaseInv, HolderHasRecord
  <2>6. LeaseCovered'
    BY <1>3, <1>4, <2>2, <2>3, <2>4 DEF LeaseInv, LeaseCovered
  <2>7. HoldersOrdered'
    BY <1>2, <1>3, <1>4 DEF LeaseInv, HoldersOrdered
  <2>8. QED
    BY <2>5, <2>6, <2>7
<1>7. QED
  BY <1>1, <1>5, <1>6 DEF Complete
(* The frame condition of HolderFrame, as a formula of a step.            *)
NoNewHolder ==
    \A x \in Workers :
        Holder(x)' => (Holder(x) /\ lease'[x] = lease[x] /\ acqTime'[x] = acqTime[x])

(* A worker that leaves pc[w] for a phase that holds nothing, or moves    *)
(* between the two holding phases, touching no lease or clock reading of  *)
(* another worker, creates no new holder.                                  *)
LEMMA MoveNoNewHolder ==
    ASSUME TypeInv, NEW w \in Workers, NEW v \in Phases,
           pc' = [pc EXCEPT ![w] = v],
           \A x \in Workers : x # w => lease'[x] = lease[x] /\ acqTime'[x] = acqTime[x],
           v \in {"execute", "complete"} => Holder(w) /\ lease'[w] = lease[w] /\ acqTime'[w] = acqTime[w]
    PROVE  NoNewHolder
BY DEF NoNewHolder, Holder, TypeInv, TypeOK

(* Every step keeps LeaseInv.                                               *)
LEMMA LeaseStep == LeaseInv /\ [Next]_vars => LeaseInv'
<1> SUFFICES ASSUME TypeInv, LeaseInv, [Next]_vars PROVE LeaseInv'
  BY DEF LeaseInv
<1> DEFINE Frame == NoNewHolder /\ records' = records /\ req' = req
<1>0. Frame => HolderHasRecord' /\ LeaseCovered' /\ HoldersOrdered'
  BY HolderFrame DEF NoNewHolder
<1>1. TypeInv'
  BY TypeStep DEF LeaseInv
<1>2. ReadInPast'
  <2>1. CASE Tick /\ UNCHANGED <<balance, ledger>> /\ UNCHANGED workerVars
    BY <2>1 DEF Tick, workerVars, ReadInPast, LeaseInv, TypeInv, TypeOK, StoreTypeOK
  <2>2. ASSUME NEW w \in Workers, Receive(w) PROVE ReadInPast'
    BY <2>2 DEF Receive, ReadInPast, LeaseInv, TypeInv, TypeOK, StoreTypeOK
  <2>3. CASE UNCHANGED <<acqTime, now>>
    BY <2>3 DEF ReadInPast, LeaseInv
  <2>4. QED
    BY <2>1, <2>2, <2>3 DEF Next, vars, RateLimitReject, MissingKey, AcquireSelect,
       AcquireInsertStep, Execute, CompleteStep, Crash, Served
<1>3. CASE Tick /\ UNCHANGED <<balance, ledger>> /\ UNCHANGED workerVars
  BY <1>0, <1>1, <1>2, <1>3 DEF Tick, workerVars, NoNewHolder, Holder, LeaseInv
<1>4. ASSUME NEW w \in Workers, RateLimitReject(w) PROVE LeaseInv'
  <2>1. PICK k \in {"rate_limited"} \cup (IF DBErrors THEN {"limiter_error"} ELSE {}) :
               Finish(w, Reply(w, k))
    BY <1>4 DEF RateLimitReject
  <2>2. NoNewHolder
    BY <1>4, <2>1, MoveNoNewHolder DEF RateLimitReject, Finish, Phases
  <2>3. QED
    BY <1>0, <1>1, <1>2, <1>4, <2>2 DEF RateLimitReject, LeaseInv
<1>5. ASSUME NEW w \in Workers, MissingKey(w) PROVE LeaseInv'
  <2>1. NoNewHolder
    BY <1>5, MoveNoNewHolder DEF MissingKey, Finish, Phases
  <2>2. QED
    BY <1>0, <1>1, <1>2, <1>5, <2>1 DEF MissingKey, LeaseInv
<1>6. ASSUME NEW w \in Workers, Receive(w) PROVE LeaseInv'
  <2>1. NoNewHolder
    <3>1. pc' = [pc EXCEPT ![w] = "acquire"] /\ "acquire" \in Phases
      BY <1>6 DEF Receive, Phases
    <3>2. \A x \in Workers : x # w => lease'[x] = lease[x] /\ acqTime'[x] = acqTime[x]
      BY <1>6 DEF Receive, TypeInv, TypeOK
    <3>3. QED
      BY <3>1, <3>2, MoveNoNewHolder
  <2>2. QED
    BY <1>0, <1>1, <1>2, <1>6, <2>1 DEF Receive, LeaseInv
<1>7. ASSUME NEW w \in Workers, AcquireSelect(w) PROVE LeaseInv'
  <2> DEFINE id == RecordOf(w)  r == records[id]
  <2>0. id \in RecordIds
    BY <1>7 DEF AcquireSelect, TypeInv, KeyedInv, TypeOK, RecordOf, RecordIds, Requests
  <2>1. CASE \E dec \in Decision : AcquireLocked(id, HashOf(w), acqTime[w], dec) /\ Dispatch(w, dec)
    <3>1. PICK dec \in Decision : AcquireLocked(id, HashOf(w), acqTime[w], dec) /\ Dispatch(w, dec)
      BY <2>1
    <3>2. CASE dec.type = "acquired"
      <4>1. /\ r \in Record /\ r.status = "in_progress" /\ r.lockedUntil <= acqTime[w]
            /\ records' = [records EXCEPT ![id] = Reacquired(r, acqTime[w])]
        <5>1. r # NoRecord /\ ~IsCompleted(r) /\ ~(r.status = "in_progress" /\ LeaseLive(r, acqTime[w]))
              /\ records' = [records EXCEPT ![id] = Reacquired(r, acqTime[w])]
          BY <3>1, <3>2 DEF AcquireLocked, Dec
        <5>2. r \in Record
          BY <5>1, <2>0 DEF TypeInv, TypeOK, StoreTypeOK
        <5>3. r.status = "in_progress"
          BY <5>1, <5>2 DEF IsCompleted, Record, Statuses
        <5>4. r.lockedUntil \in Int /\ acqTime[w] \in Int
          BY <5>2 DEF Record, TypeInv, TypeOK
        <5>5. QED
          BY <5>1, <5>2, <5>3, <5>4 DEF LeaseLive
      <4>2. pc' = [pc EXCEPT ![w] = "execute"] /\ lease' = [lease EXCEPT ![w] = acqTime[w] + LockTTL]
        BY <3>1, <3>2 DEF Dispatch, Finish
      <4>3. HolderHasRecord' /\ LeaseCovered' /\ HoldersOrdered'
        BY <1>7, <4>1, <4>2, ReacquireKeepsLease DEF AcquireSelect
      <4>4. QED
        BY <1>1, <1>2, <4>3 DEF LeaseInv
    <3>3. CASE dec.type # "acquired"
      <4>1. UNCHANGED records
        BY <3>1, <3>3 DEF AcquireLocked, Dec, Decision, DecisionTypes
      <4>2. pc' = [pc EXCEPT ![w] = "done"] /\ UNCHANGED lease
        BY <3>1, <3>3 DEF Dispatch, Finish, Decision, DecisionTypes
      <4>3. NoNewHolder
        BY <1>7, <4>2, MoveNoNewHolder DEF AcquireSelect, Phases
      <4>4. QED
        BY <1>0, <1>1, <1>2, <1>7, <4>1, <4>3 DEF AcquireSelect, LeaseInv
    <3>4. QED
      BY <3>2, <3>3
  <2>2. CASE /\ r = NoRecord
             /\ pc' = [pc EXCEPT ![w] = "insert"]
             /\ UNCHANGED <<records, lease, resp>>
    <3>1. NoNewHolder
      BY <1>7, <2>2, MoveNoNewHolder DEF AcquireSelect, Phases
    <3>2. QED
      BY <1>0, <1>1, <1>2, <1>7, <2>2, <3>1 DEF AcquireSelect, LeaseInv
  <2>3. CASE /\ r = NoRecord /\ DBErrors
             /\ Dispatch(w, Dec("error"))
             /\ UNCHANGED records
    <3>1. pc' = [pc EXCEPT ![w] = "done"] /\ UNCHANGED lease
      BY <2>3 DEF Dispatch, Dec, Finish
    <3>2. NoNewHolder
      BY <1>7, <3>1, MoveNoNewHolder DEF AcquireSelect, Phases
    <3>3. QED
      BY <1>0, <1>1, <1>2, <1>7, <2>3, <3>2 DEF AcquireSelect, LeaseInv
  <2>4. QED
    BY <1>7, <2>1, <2>2, <2>3 DEF AcquireSelect
<1>8. ASSUME NEW w \in Workers, AcquireInsertStep(w) PROVE LeaseInv'
  <2> DEFINE id == RecordOf(w)
  <2>1. PICK dec \in Decision : AcquireInsert(id, HashOf(w), acqTime[w], dec) /\ Dispatch(w, dec)
    BY <1>8 DEF AcquireInsertStep
  <2>2. CASE dec.type = "acquired"
    <3>1. records[id] = NoRecord /\ records' = [records EXCEPT ![id] = NewRecord(HashOf(w), acqTime[w])]
      BY <2>1, <2>2 DEF AcquireInsert, InsertAllowed, Dec
    <3>2. pc' = [pc EXCEPT ![w] = "execute"] /\ lease' = [lease EXCEPT ![w] = acqTime[w] + LockTTL]
      BY <2>1, <2>2 DEF Dispatch, Finish
    <3>3. HolderHasRecord' /\ LeaseCovered' /\ HoldersOrdered'
      BY <1>8, <3>1, <3>2, InsertKeepsLease DEF AcquireInsertStep
    <3>4. QED
      BY <1>1, <1>2, <3>3 DEF LeaseInv
  <2>3. CASE dec.type # "acquired"
    <3>1. UNCHANGED records
      BY <2>1, <2>3 DEF AcquireInsert, Dec
    <3>2. pc' = [pc EXCEPT ![w] = "done"] /\ UNCHANGED lease
      BY <2>1, <2>3 DEF Dispatch, Finish, Decision, DecisionTypes
    <3>3. NoNewHolder
      BY <1>8, <3>2, MoveNoNewHolder DEF AcquireInsertStep, Phases
    <3>4. QED
      BY <1>0, <1>1, <1>2, <1>8, <3>1, <3>3 DEF AcquireInsertStep, LeaseInv
  <2>4. QED
    BY <2>2, <2>3
<1>9. ASSUME NEW w \in Workers, Execute(w) PROVE LeaseInv'
  <2>1. NoNewHolder
    BY <1>9, MoveNoNewHolder DEF Execute, Phases, Holder
  <2>2. QED
    BY <1>0, <1>1, <1>2, <1>9, <2>1 DEF Execute, LeaseInv
<1>10. ASSUME NEW w \in Workers, CompleteStep(w) PROVE LeaseInv'
  BY <1>1, <1>2, <1>10, CompleteKeepsLease DEF LeaseInv
<1>11. ASSUME NEW w \in Workers, Crash(w) PROVE LeaseInv'
  <2>1. NoNewHolder
    BY <1>11, MoveNoNewHolder DEF Crash, Phases
  <2>2. QED
    BY <1>0, <1>1, <1>2, <1>11, <2>1 DEF Crash, LeaseInv
<1>12. CASE Served \/ UNCHANGED vars
  <2>1. UNCHANGED vars
    BY <1>12 DEF Served
  <2>2. QED
    BY <1>1, <2>1 DEF vars, LeaseInv, HolderHasRecord, LeaseCovered, HoldersOrdered,
       ReadInPast, Holder, RecordOf
<1>13. QED
  BY <1>3, <1>4, <1>5, <1>6, <1>7, <1>8, <1>9, <1>10, <1>11, <1>12 DEF Next

(* Lease exclusion: whatever the interleaving of Acquire's transactions,   *)
(* the clock readings they act on and the crashes of their callers, two    *)
(* workers hold one idempotency record only when one of their leases has  *)
(* passed (sqlx_store.go lines 123-144).                                    *)
THEOREM LeaseExclusionHolds == Spec => []LeaseExclusion
<1>1. Init => LeaseInv
  BY TypeInit DEF Init, StoreInit, LeaseInv, HolderHasRecord, LeaseCovered, HoldersOrdered,
     ReadInPast, Holder
<1>2. LeaseInv => LeaseExclusion
  <2> SUFFICES ASSUME LeaseInv, NEW w1 \in Workers, NEW w2 \in Workers, w1 # w2,
                      Holder(w1), Holder(w2), RecordOf(w1) = RecordOf(w2)
               PROVE  lease[w1] <= now \/ lease[w2] <= now
    BY DEF LeaseExclusion
  <2>1. lease[w1] <= acqTime[w2] \/ lease[w2] <= acqTime[w1]
    BY DEF LeaseInv, HoldersOrdered
  <2>2. acqTime[w1] <= now /\ acqTime[w2] <= now
    BY DEF LeaseInv, ReadInPast
  <2>3. lease[w1] \in Int /\ lease[w2] \in Int /\ acqTime[w1] \in Int /\ acqTime[w2] \in Int
        /\ now \in Int
    BY DEF LeaseInv, TypeInv, TypeOK, StoreTypeOK
  <2>4. QED
    BY <2>1, <2>2, <2>3
<1>3. QED
  BY <1>1, <1>2, LeaseStep, PTL DEF Spec
-----------------------------------------------------------------------------
(* The strengthening LedgerReconciles needs: every non-empty set of a      *)
(* wallet's rows among a prefix of the ledger has a last row, so the       *)
(* balance it names is one of the rows the prefix holds.                   *)
LastRowsExist ==
    \A u \in WalletUsers, m \in 0 .. Len(ledger) :
        RowsOf(u, m) # {} => \E j \in RowsOf(u, m) : \A k \in RowsOf(u, m) : k <= j

ReconcileInv == LedgerReconciles /\ LastRowsExist

(* LastIndex picks the last row of a set that has one.                     *)
LEMMA LastIndexIsLast ==
    ASSUME NEW S, \E j \in S : \A k \in S : k <= j
    PROVE  LastIndex(S) \in S /\ \A k \in S : k <= LastIndex(S)
BY DEF LastIndex

(* A step that leaves the wallets and the ledger alone keeps them          *)
(* reconciled.                                                              *)
LEMMA ReconcileFrame ==
    ASSUME ReconcileInv, ledger' = ledger, balance' = balance
    PROVE  ReconcileInv'
<1>1. \A v, m : RowsOf(v, m)' = RowsOf(v, m)
  BY DEF RowsOf
<1>2. \A v, m : AfterRows(v, m)' = AfterRows(v, m)
  BY <1>1 DEF AfterRows
<1>3. \A i : BalanceBefore(i)' = BalanceBefore(i)
  BY <1>2 DEF BalanceBefore
<1>4. \A v : LastAfter(v)' = LastAfter(v)
  BY <1>2 DEF LastAfter
<1>5. LedgerReconciles'
  BY <1>3, <1>4 DEF ReconcileInv, LedgerReconciles
<1>6. LastRowsExist'
  BY <1>1 DEF ReconcileInv, LastRowsExist
<1>7. QED
  BY <1>5, <1>6 DEF ReconcileInv

(* A withdraw transaction keeps the ledger reconciled: a debit appends the *)
(* row whose balance_after is the wallet's new balance, and is the last    *)
(* row of its wallet; every other outcome rolls back.                      *)
LEMMA WithdrawTxReconciles ==
    ASSUME WalletTypeOK, ReconcileInv,
           NEW u \in Users, NEW a \in Amounts, NEW by \in Requesters,
           NEW out \in TxOutcomes, WithdrawTx(u, a, by, out)
    PROVE  ReconcileInv'
<1>0. PICK n \in Nat : n = Len(ledger)
  BY DEF WalletTypeOK
<1> USE <1>0
<1>1. CASE UNCHANGED walletVars
  <2>1. ledger' = ledger /\ balance' = balance
    BY <1>1 DEF walletVars
  <2>2. QED
    BY <2>1, ReconcileFrame
<1>2. CASE /\ a > 0 /\ CanDebit(u, a)
           /\ balance' = [balance EXCEPT ![u] = @ - a]
           /\ ledger' = Append(ledger, LedgerEntry(u, a, by))
  <2> DEFINE e == LedgerEntry(u, a, by)
  <2>1. u \in WalletUsers /\ balance[u] >= a /\ a \in Int
    BY <1>2, ParamsAssumption DEF CanDebit
  <2>2. e \in Entry /\ e.amount = -a /\ e.after = balance[u] - a /\ e.wallet = u
    BY <2>1 DEF LedgerEntry, Entry, WalletTypeOK
  <2>3. /\ ledger \in Seq(Entry) /\ n = Len(ledger)
        /\ Len(ledger') = n + 1 /\ ledger'[n + 1] = e
        /\ \A j \in 1 .. n : ledger'[j] = ledger[j]
    BY <1>0, <1>2, <2>2 DEF WalletTypeOK
  <2>4. \A v \in WalletUsers, m \in 0 .. n : RowsOf(v, m)' = RowsOf(v, m)
    BY <2>3 DEF RowsOf
  <2>5. ASSUME NEW v \in WalletUsers, NEW m \in 0 .. n
        PROVE  AfterRows(v, m)' = AfterRows(v, m)
    <3>1. CASE RowsOf(v, m) = {}
      BY <3>1, <2>4 DEF AfterRows
    <3>2. CASE RowsOf(v, m) # {}
      <4>0. \E j \in RowsOf(v, m) : \A k \in RowsOf(v, m) : k <= j
        BY <3>2 DEF ReconcileInv, LastRowsExist
      <4>1. LastIndex(RowsOf(v, m)) \in RowsOf(v, m)
        BY <4>0, LastIndexIsLast
      <4>2. LastIndex(RowsOf(v, m)) \in 1 .. n
        BY <4>1, <2>3 DEF RowsOf
      <4>3. QED
        BY <3>2, <4>2, <2>3, <2>4 DEF AfterRows
    <3>3. QED
      BY <3>1, <3>2
  <2>6. RowsOf(u, n + 1)' = RowsOf(u, n) \cup {n + 1}
    BY <2>2, <2>3 DEF RowsOf
  <2>7. \A v \in WalletUsers \ {u} : RowsOf(v, n + 1)' = RowsOf(v, n)
    BY <2>2, <2>3 DEF RowsOf
  <2>8. LastIndex(RowsOf(u, n) \cup {n + 1}) = n + 1
    <3> DEFINE S == RowsOf(u, n) \cup {n + 1}
    <3>1. \A k \in S : k <= n + 1
      BY <2>3 DEF RowsOf
    <3>2. LastIndex(S) \in S /\ \A k \in S : k <= LastIndex(S)
      BY <3>1, LastIndexIsLast
    <3>3. QED
      BY <3>1, <3>2, <2>3 DEF RowsOf
  <2>9. AfterRows(u, n + 1)' = balance'[u]
    <3>1. RowsOf(u, n + 1)' # {} /\ LastIndex(RowsOf(u, n + 1)') = n + 1
      BY <2>6, <2>8, Zenon
    <3>2. AfterRows(u, n + 1)' = e.after
      BY <3>1, <2>3 DEF AfterRows
    <3>3. balance'[u] = balance[u] - a
      BY <2>1, <1>2 DEF WalletTypeOK
    <3>4. QED
      BY <3>2, <3>3, <2>2
  <2>10. \A v \in WalletUsers \ {u} : AfterRows(v, n + 1)' = balance'[v]
    <3> SUFFICES ASSUME NEW v \in WalletUsers \ {u} PROVE AfterRows(v, n + 1)' = balance'[v]
      OBVIOUS
    <3>1. AfterRows(v, n + 1)' = AfterRows(v, n)'
      BY <2>4, <2>7 DEF AfterRows
    <3>2. AfterRows(v, n) = balance[v]
      BY DEF ReconcileInv, LedgerReconciles, LastAfter
    <3>3. QED
      BY <3>1, <3>2, <2>3, <2>5, <1>2 DEF WalletTypeOK
  <2>11. \A i \in 1 .. n + 1 : ledger'[i].amount < 0
                               /\ ledger'[i].after = BalanceBefore(i)' + ledger'[i].amount
    <3> SUFFICES ASSUME NEW i \in 1 .. n + 1
                 PROVE  ledger'[i].amount < 0
                        /\ ledger'[i].after = BalanceBefore(i)' + ledger'[i].amount
      OBVIOUS
    <3>1. CASE i \in 1 .. n
      <4>0. ledger[i] \in Entry
        BY <3>1, <2>3
      <4>1. ledger[i].wallet \in WalletUsers
        BY <4>0 DEF Entry
      <4>2. AfterRows(ledger[i].wallet, i - 1)' = AfterRows(ledger[i].wallet, i - 1)
        BY <3>1, <4>1, <2>5, <2>3
      <4>3. ledger[i].amount < 0 /\ ledger[i].after = BalanceBefore(i) + ledger[i].amount
        BY <3>1 DEF ReconcileInv, LedgerReconciles
      <4>4. QED
        BY <3>1, <4>2, <4>3, <2>3 DEF BalanceBefore
    <3>2. CASE i = n + 1
      <4>1. BalanceBefore(i)' = AfterRows(u, n)
        BY <3>2, <2>2, <2>3, <2>5, <2>1 DEF BalanceBefore
      <4>2. AfterRows(u, n) = balance[u]
        BY <2>1 DEF ReconcileInv, LedgerReconciles, LastAfter
      <4>3. balance[u] \in Int
        BY <2>1 DEF WalletTypeOK
      <4>4. QED
        BY <3>2, <4>1, <4>2, <4>3, <1>2, <2>1, <2>2, <2>3
    <3>3. QED
      BY <3>1, <3>2, <2>3
  <2>12. LedgerReconciles'
    BY <2>3, <2>9, <2>10, <2>11 DEF LedgerReconciles, LastAfter
  <2>13. LastRowsExist'
    <3> SUFFICES ASSUME NEW v \in WalletUsers, NEW m \in 0 .. n + 1, RowsOf(v, m)' # {}
                 PROVE  \E j \in RowsOf(v, m)' : \A k \in RowsOf(v, m)' : k <= j
      BY <2>3 DEF LastRowsExist
    <3>1. CASE m \in 0 .. n
      BY <3>1, <2>4 DEF ReconcileInv, LastRowsExist
    <3>2. CASE m = n + 1 /\ v = u
      BY <3>2, <2>6, <2>3 DEF RowsOf
    <3>3. CASE m = n + 1 /\ v # u
      BY <3>3, <2>7, <2>3 DEF ReconcileInv, LastRowsExist
    <3>4. QED
      BY <3>1, <3>2, <3>3, <2>3
  <2>14. QED
    BY <2>12, <2>13 DEF ReconcileInv
<1>3. QED
  BY <1>1, <1>2 DEF WithdrawTx, walletVars

(* The ledger reconciles with the wallets (spec sections 3 and 8): under  *)
(* any interleaving of requests, retries, crashes and database failures,  *)
(* every wallet_ledger row continues its wallet's previous balance by its *)
(* negative amount, and every balance is the balance_after of its wallet's *)
(* last row.                                                                *)
THEOREM LedgerReconcilesHolds == Spec => []LedgerReconciles
<1>1. Init => ReconcileInv
  BY DEF Init, WalletInit, ReconcileInv, LedgerReconciles, LastRowsExist, LastAfter,
     AfterRows, RowsOf
<1>2. TypeOK /\ ReconcileInv /\ [Next]_vars => ReconcileInv'
  <2> SUFFICES ASSUME TypeOK, ReconcileInv, [Next]_vars PROVE ReconcileInv'
    OBVIOUS
  <2>1. ASSUME NEW w \in Workers, Execute(w) PROVE ReconcileInv'
    <3>1. PICK out \in TxOutcomes : WithdrawTx(req[w].user, req[w].amount, w, out)
      BY <2>1 DEF Execute
    <3>2. req[w].user \in Users /\ req[w].amount \in Amounts
      BY DEF TypeOK, Requests
    <3>3. WalletTypeOK
      BY DEF TypeOK
    <3>4. QED
      BY <3>1, <3>2, <3>3, WithdrawTxReconciles, Zenon
  <2>2. CASE UNCHANGED <<balance, ledger>>
    BY <2>2, ReconcileFrame
  <2>3. QED
    BY <2>1, <2>2 DEF Next, vars, Tick, RateLimitReject, MissingKey, Receive,
       AcquireSelect, AcquireInsertStep, CompleteStep, Crash, Served
<1>3. ReconcileInv => LedgerReconciles
  BY DEF ReconcileInv
<1>4. QED
  BY <1>1, <1>2, <1>3, TypeCorrect, PTL DEF Spec
=============================================================================
