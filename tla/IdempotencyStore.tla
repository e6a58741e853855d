--------------------------- MODULE IdempotencyStore ---------------------------
(***************************************************************************)
(* The idempotency coordinator: the `withdraw_idempotency` table and the   *)
(* two operations of SQLXStore in                                          *)
(*   src/internal/shared/idempotency/sqlx_store.go                         *)
(* (Acquire, lines 24-145, and Complete, lines 147-196), with the decision *)
(* types of src/unnamed/part_003.                                          *)
(*                                                                         *)
(* A record is identified by its (scope, idempotency_key) pair.  The scope *)
(* is "withdraw:" + user id, so a record id is a pair <<user, key>>.  The  *)
(* request hash is SHA-256 over method, path, user and body; method and    *)
(* path are fixed for the withdraw route and the user is part of the       *)
(* scope, so the hash is modelled by the body, itself modelled by the      *)
(* amount it carries (hash collisions are not modelled).                   *)
(*                                                                         *)
(* Acquire is split where the code can interleave with another request:    *)
(* SELECT ... FOR UPDATE on an existing row locks it until commit, so the  *)
(* decision on an existing record is one step (AcquireLocked); on a        *)
(* missing row it locks nothing, and the INSERT that follows is a second   *)
(* step (AcquireInsert) that fails on the unique index when another        *)
(* request inserted the row in between.  `t` is the time.Now() that       *)
(* Acquire read at line 49, before the transaction began.                  *)
(***************************************************************************)
EXTENDS WithdrawParams

CONSTANTS
    Keys,         \* idempotency keys clients send in X-Idempotency-Key
    LockTTL,      \* defaultLockTTL (the middleware never sets LockTTL)
    MaxTime,      \* bound on the clock
    Responses,    \* what the caller stores as the response
    NoRecord, NoResponse

ASSUME StoreAssumption ==
    /\ LockTTL \in Nat \ {0}
    /\ MaxTime \in Nat
    /\ NoResponse \notin Responses

VARIABLES
    records,   \* withdraw_idempotency rows by (scope, key)
    now        \* the wall clock shared by the service and the database

storeVars == <<records, now>>

RecordIds == Users \X Keys

Statuses == {"in_progress", "completed"}

Record == [hash : Amounts, status : Statuses, lockedUntil : 0 .. MaxTime + LockTTL,
           response : Responses \cup {NoResponse}]

(* NoRecord marks an absent row; it is not itself a row.                   *)
ASSUME NoRecordAssumption == NoRecord \notin Record

DecisionTypes == {"acquired", "replay", "in_progress", "conflict", "error"}

Decision == [type : DecisionTypes, response : Responses \cup {NoResponse}]

Dec(type) == [type |-> type, response |-> NoResponse]

StoreInit ==
    /\ records = [id \in RecordIds |-> NoRecord]
    /\ now = 0

(* The clock advances; time.Now() and the database's now() read it.        *)
Tick ==
    /\ now < MaxTime
    /\ now' = now + 1
    /\ UNCHANGED records

(* Mutant: the hash comparison dropped.                                   *)
SameRequestAny(r, h) == TRUE

(* Line 96: the stored hash equals the request's hash.                     *)
SameRequest(r, h) == r.hash = h

(* Mutant: the completed branch never taken.                              *)
IsCompletedNever(r) == FALSE

(* Line 104: the record is completed.                                      *)
IsCompleted(r) == r.status = "completed"

(* Mutant: the lease compared with now + TTL instead of now.              *)
LeaseLiveShifted(r, t) == r.lockedUntil > t + LockTTL

(* Line 123: LockedUntil.After(now).                                       *)
LeaseLive(r, t) == r.lockedUntil > t

(* Lines 131-134: the reacquire UPDATE.                                    *)
Reacquired(r, t) ==
    [hash |-> r.hash, status |-> "in_progress", lockedUntil |-> t + LockTTL,
     response |-> r.response]

(* Lines 80-83: the row the INSERT creates.                                *)
NewRecord(h, t) ==
    [hash |-> h, status |-> "in_progress", lockedUntil |-> t + LockTTL,
     response |-> NoResponse]

(* Mutant: a misspelt status value written by the completing UPDATE.     *)
CompletedTypo(r, t, resp) ==
    [hash |-> r.hash, status |-> "complete", lockedUntil |-> t, response |-> resp]

(* Lines 169-179: the row after the completing UPDATE, at database time t. *)
Completed(r, t, resp) ==
    [hash |-> r.hash, status |-> "completed", lockedUntil |-> t, response |-> resp]

(* Mutant: an upsert that ignores the unique index.                       *)
InsertAlways(r) == TRUE

(* The INSERT succeeds only if no row with this (scope, key) exists: the   *)
(* unique index uq_withdraw_idempotency_scope_key.                          *)
InsertAllowed(r) == r = NoRecord

(* Lines 52-145 on an existing row, under its row lock; `dec` is the       *)
(* decision returned.                                                      *)
AcquireLocked(id, h, t, dec) ==
    LET r == records[id] IN
    /\ r # NoRecord
    /\ \/ /\ ~SameRequest(r, h)
          /\ dec = Dec("conflict")
          /\ UNCHANGED records
       \/ /\ SameRequest(r, h)
          /\ IsCompleted(r)
          /\ dec = [type |-> "replay", response |-> r.response]
          /\ UNCHANGED records
       \/ /\ SameRequest(r, h)
          /\ ~IsCompleted(r)
          /\ r.status = "in_progress" /\ LeaseLive(r, t)
          /\ dec = Dec("in_progress")
          /\ UNCHANGED records
       \/ /\ SameRequest(r, h)
          /\ ~IsCompleted(r)
          /\ ~(r.status = "in_progress" /\ LeaseLive(r, t))
          /\ dec = Dec("acquired")
          /\ records' = [records EXCEPT ![id] = Reacquired(r, t)]
       \/ /\ DBErrors                  \* begin, query, update or commit fails
          /\ dec = Dec("error")
          /\ UNCHANGED records

(* Lines 80-93: the INSERT after the SELECT found no row.                  *)
AcquireInsert(id, h, t, dec) ==
    \/ /\ InsertAllowed(records[id])
       /\ dec = Dec("acquired")
       /\ records' = [records EXCEPT ![id] = NewRecord(h, t)]
    \/ /\ ~InsertAllowed(records[id])    \* unique violation
       /\ dec = Dec("error")
       /\ UNCHANGED records
    \/ /\ DBErrors                        \* insert or commit fails
       /\ dec = Dec("error")
       /\ UNCHANGED records

(* Lines 147-196: the completing UPDATE matches scope, key and hash; zero  *)
(* rows affected is an error.  `ok` is FALSE when Complete returns an      *)
(* error.                                                                   *)
Complete(id, h, resp, ok) ==
    \/ /\ records[id] # NoRecord
       /\ SameRequest(records[id], h)
       /\ ok = TRUE
       /\ records' = [records EXCEPT ![id] = Completed(records[id], now, resp)]
    \/ /\ ~(records[id] # NoRecord /\ SameRequest(records[id], h))
       /\ ok = FALSE
       /\ UNCHANGED records
    \/ /\ DBErrors
       /\ ok = FALSE
       /\ UNCHANGED records

(* The store on its own: any caller may call Acquire or Complete on any    *)
(* record at any time (the Store interface of src/unnamed/part_003).        *)
StoreNext ==
    \/ Tick
    \/ \E id \in RecordIds, h \in Amounts, dec \in Decision :
          /\ \/ AcquireLocked(id, h, now, dec)
             \/ records[id] = NoRecord /\ AcquireInsert(id, h, now, dec)
          /\ UNCHANGED now
    \/ \E id \in RecordIds, h \in Amounts, resp \in Responses, ok \in BOOLEAN :
          Complete(id, h, resp, ok) /\ UNCHANGED now

StoreSpec == StoreInit /\ [][StoreNext]_storeVars

StoreTypeOK ==
    /\ records \in [RecordIds -> Record \cup {NoRecord}]
    /\ now \in 0 .. MaxTime
=============================================================================
