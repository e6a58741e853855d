----------------------- MODULE ServiceRefinementProofs -----------------------
(***************************************************************************)
(* Proof that the withdraw pipeline implements the withdraw service of     *)
(* WithdrawService under the mapping DebitedRecords, for every            *)
(* configuration in which no lease expires within the clock bound.         *)
(***************************************************************************)
EXTENDS IdempotencyProofs

USE ParamsAssumption, WalletAssumption, StoreAssumption, NoRecordAssumption,
    PipelineAssumption
USE DEF Workers, TxOutcomes, MiddlewareOutcomes

(* A worker about to run the handler has no ledger row for its (user, key) *)
(* yet: a row's writer has passed the handler, and a holder of the row's   *)
(* record is that writer.                                                  *)
LEMMA FreshRecord ==
    ASSUME OnceInv, NEW w \in Workers, pc[w] = "execute"
    PROVE  RecordOf(w) \notin DebitedRecords
<1> SUFFICES ASSUME NEW i \in 1 .. Len(ledger), RecordOf(ledger[i].by) = RecordOf(w)
             PROVE  FALSE
  BY DEF DebitedRecords
<1>1. ledger[i].by = w
  BY DEF OnceInv, HolderOwnsRows, Holder
<1>2. pc[ledger[i].by] \in Executed
  BY DEF OnceInv, RowsByExecuted
<1>3. QED
  BY <1>1, <1>2 DEF Executed

(* A step that leaves balances, the ledger and the requests alone is a     *)
(* stutter of the service.                                                 *)
LEMMA ServiceStutter ==
    ASSUME UNCHANGED <<balance, ledger, req>>
    PROVE  UNCHANGED Service!serviceVars
BY DEF Service!serviceVars, DebitedRecords, RecordOf

(* Appending the row of worker w adds w's (user, key) to the debited pairs. *)
LEMMA AppendDebits ==
    ASSUME WalletTypeOK, NEW w \in Workers, NEW e \in Entry, e.by = w,
           ledger' = Append(ledger, e), req' = req
    PROVE  DebitedRecords' = DebitedRecords \cup {RecordOf(w)}
<1>1. Len(ledger') = Len(ledger) + 1 /\ ledger'[Len(ledger) + 1] = e
      /\ \A i \in 1 .. Len(ledger) : ledger'[i] = ledger[i]
  BY DEF WalletTypeOK
<1>2. DebitedRecords' \subseteq DebitedRecords \cup {RecordOf(w)}
  <2> SUFFICES ASSUME NEW i \in 1 .. Len(ledger')
               PROVE  (RecordOf(ledger[i].by))' \in DebitedRecords \cup {RecordOf(w)}
    BY DEF DebitedRecords
  <2>1. CASE i = Len(ledger) + 1
    BY <1>1, <2>1 DEF RecordOf
  <2>2. CASE i \in 1 .. Len(ledger)
    BY <1>1, <2>2 DEF DebitedRecords, RecordOf
  <2>3. QED
    BY <1>1, <2>1, <2>2 DEF WalletTypeOK
<1>3. DebitedRecords \cup {RecordOf(w)} \subseteq DebitedRecords'
  <2>1. RecordOf(w) \in DebitedRecords'
    <3>1. Len(ledger') \in 1 .. Len(ledger') /\ ledger'[Len(ledger')] = e
      BY <1>1 DEF WalletTypeOK
    <3>2. (RecordOf(ledger[Len(ledger)].by))' = RecordOf(w)
      BY <3>1 DEF RecordOf
    <3>3. QED
      BY <3>1, <3>2 DEF DebitedRecords
  <2>2. ASSUME NEW i \in 1 .. Len(ledger) PROVE RecordOf(ledger[i].by) \in DebitedRecords'
    <3>1. i \in 1 .. Len(ledger') /\ (RecordOf(ledger[i].by))' = RecordOf(ledger[i].by)
      BY <1>1 DEF RecordOf, WalletTypeOK
    <3>2. QED
      BY <3>1 DEF DebitedRecords
  <2>3. QED
    BY <2>1, <2>2 DEF DebitedRecords
<1>4. QED
  BY <1>2, <1>3

(* The handler's step is one withdrawal of the service or a stutter.       *)
LEMMA ExecuteRefines ==
    ASSUME OnceInv, NEW w \in Workers, Execute(w)
    PROVE  [Service!ServiceNext]_Service!serviceVars
<1> DEFINE u == req[w].user  k == req[w].key  a == req[w].amount
<1>1. TypeInv /\ TypeOK /\ WalletTypeOK
  BY OnceTyped
<1>2. PICK out \in TxOutcomes : WithdrawTx(u, a, w, out)
  BY DEF Execute
<1>3. req' = req
  BY DEF Execute
<1>4. CASE /\ a > 0 /\ CanDebit(u, a)
           /\ balance' = [balance EXCEPT ![u] = @ - a]
           /\ ledger' = Append(ledger, LedgerEntry(u, a, w))
  <2>1. u \in Users /\ k \in Keys /\ a \in Amounts /\ u \in WalletUsers /\ a \in Int
    BY <1>1, <1>4 DEF TypeInv, TypeOK, KeyedInv, Requests, CanDebit, Execute
  <2>2. RecordOf(w) = <<u, k>> /\ RecordOf(w) \notin DebitedRecords
    BY FreshRecord DEF Execute, RecordOf
  <2>3. LedgerEntry(u, a, w) \in Entry /\ LedgerEntry(u, a, w).by = w
    BY <1>1, <2>1, EntryTyping DEF WalletTypeOK, LedgerEntry
  <2>4. DebitedRecords' = DebitedRecords \cup {<<u, k>>}
    BY <1>1, <1>3, <1>4, <2>2, <2>3, AppendDebits
  <2>5. Service!Withdraw(u, k, a)
    BY <1>4, <2>1, <2>2, <2>4 DEF Service!Withdraw, CanDebit
  <2>6. QED
    BY <2>1, <2>5 DEF Service!ServiceNext
<1>5. CASE UNCHANGED walletVars
  BY <1>3, <1>5, ServiceStutter DEF walletVars
<1>6. QED
  BY <1>2, <1>4, <1>5 DEF WithdrawTx

(* Every step of the pipeline is a step of the service or a stutter.       *)
LEMMA ServiceStep ==
    ASSUME OnceInv, [Next]_vars
    PROVE  [Service!ServiceNext]_Service!serviceVars
<1>1. ASSUME NEW w \in Workers, Execute(w) PROVE [Service!ServiceNext]_Service!serviceVars
  BY <1>1, ExecuteRefines
<1>2. CASE Tick /\ UNCHANGED <<balance, ledger>> /\ UNCHANGED workerVars
  BY <1>2, ServiceStutter DEF workerVars
<1>3. ASSUME NEW w \in Workers,
             \/ RateLimitReject(w) \/ MissingKey(w) \/ Receive(w) \/ AcquireSelect(w)
             \/ AcquireInsertStep(w) \/ CompleteStep(w) \/ Crash(w)
      PROVE  [Service!ServiceNext]_Service!serviceVars
  <2>1. UNCHANGED <<balance, ledger, req>>
    BY <1>3 DEF RateLimitReject, MissingKey, Receive, AcquireSelect, AcquireInsertStep,
       CompleteStep, Crash
  <2>2. QED
    BY <2>1, ServiceStutter
<1>4. CASE Served \/ UNCHANGED vars
  BY <1>4, ServiceStutter DEF Served, vars
<1>5. QED
  BY <1>1, <1>2, <1>3, <1>4 DEF Next

(* Refinement while no lease expires: seen through the wallet balances and *)
(* the (user, key) pairs with a ledger row, every behaviour of the          *)
(* pipeline, with concurrent and retried requests, crashes, failing        *)
(* database calls and replays, is a behaviour of the withdraw service:     *)
(* each withdrawal debits a positive amount its balance covers, once per   *)
(* (user, key) (spec sections 3, 4.2 and 8).                               *)
THEOREM ServiceRefinement == NoExpiry => (Spec => ImplementsService)
<1> SUFFICES ASSUME NoExpiry PROVE Spec => Service!ServiceSpec
  BY DEF ImplementsService
<1>1. Init => Service!ServiceInit
  BY DEF Init, WalletInit, Service!ServiceInit, DebitedRecords
<1>2. OnceInv /\ [Next]_vars => [Service!ServiceNext]_Service!serviceVars
  BY ServiceStep
<1>3. Init => OnceInv
  BY OnceInit
<1>4. OnceInv /\ [Next]_vars => OnceInv'
  BY OnceStep
<1>5. QED
  BY <1>1, <1>2, <1>3, <1>4, PTL DEF Spec, Service!ServiceSpec
=============================================================================
