---------------------------- MODULE WalletLedger ----------------------------
(***************************************************************************)
(* The balance ledger store: the `wallets` and `wallet_ledger` tables and  *)
(* the withdraw transaction of                                             *)
(*   src/internal/repository/withdraw.balance.go                           *)
(*     (WithdrawBalanceRepository.WithdrawWalletBalanceByUserID),          *)
(* the SQL it runs (src/unnamed/part_010: WithdrawWalletBalanceByUserID,   *)
(* HasWalletByUserID, InsertWalletLedger) and the validation of the        *)
(* service in front of it (src/unnamed/part_005: WithdrawBalance).         *)
(*                                                                         *)
(* The transaction is one step.  Its conditional UPDATE takes the wallet   *)
(* row lock and PostgreSQL re-evaluates `balance_minor >= amount` after a  *)
(* lock wait, so concurrent withdrawals on one wallet are serialised; the  *)
(* existence check, the ledger insert and the commit run under that lock.  *)
(* Any error after BEGIN rolls the whole transaction back.                 *)
(***************************************************************************)
EXTENDS WithdrawParams, Sequences

CONSTANTS
    WalletUsers,  \* the users that own a row in `wallets`
    InitBalance,  \* balance_minor of each wallet at start
    Requesters    \* who calls the store (ghost: recorded in ledger rows)

ASSUME WalletAssumption ==
    /\ WalletUsers \subseteq Users
    /\ InitBalance \in [WalletUsers -> Nat]

VARIABLES
    balance,   \* wallets.balance_minor, per wallet owner
    ledger     \* wallet_ledger rows in insertion order

walletVars == <<balance, ledger>>

(* A wallet_ledger row.  `by` is a ghost field naming the request that    *)
(* wrote it; the code writes reference_id = NULL.                         *)
Entry == [wallet : WalletUsers, amount : Int, after : Int, by : Requesters]

(* Results of WithdrawBalance, as the errors the handler maps to statuses *)
(* (src/internal/handlers/withdraw.balance.go lines 52-66).               *)
TxOutcomes == {"ok", "invalid_amount", "not_found", "insufficient", "tx_error"}

(* What the caller learns of a commit that took effect: success, or an    *)
(* error when the connection fails after COMMIT reached the server         *)
(* (withdraw.balance.go lines 77-79 cannot tell the two apart).            *)
CommitOutcomes == {"ok"} \cup (IF DBErrors THEN {"tx_error"} ELSE {})

WalletInit ==
    /\ balance = InitBalance
    /\ ledger = << >>

(* Mutant: the UPDATE without its `balance_minor >= amount` condition.    *)
CanDebitNoFloor(u, a) == u \in WalletUsers

(* The WHERE clause of the conditional UPDATE: the wallet exists and its  *)
(* balance covers the amount.                                             *)
CanDebit(u, a) == u \in WalletUsers /\ balance[u] >= a

(* Mutant: balance_after taken from the balance before the UPDATE.       *)
LedgerEntryStale(u, a, by) ==
    [wallet |-> u, amount |-> -a, after |-> balance[u], by |-> by]

(* The row InsertWalletLedger writes: negated amount and the balance the  *)
(* UPDATE returned.                                                       *)
LedgerEntry(u, a, by) ==
    [wallet |-> u, amount |-> -a, after |-> balance[u] - a, by |-> by]

(* One call of WithdrawBalance by `by` for user u and amount a; `out` is  *)
(* its result.                                                            *)
WithdrawTx(u, a, by, out) ==
    \/ /\ a <= 0                       \* service and repository guard
       /\ out = "invalid_amount"
       /\ UNCHANGED walletVars
    \/ /\ a > 0
       /\ CanDebit(u, a)               \* UPDATE ... RETURNING one row
       /\ out \in CommitOutcomes       \* the commit took effect
       /\ balance' = [balance EXCEPT ![u] = @ - a]
       /\ ledger' = Append(ledger, LedgerEntry(u, a, by))
    \/ /\ a > 0
       /\ ~CanDebit(u, a)              \* no row: HasWalletByUserID decides
       /\ out = IF u \in WalletUsers THEN "insufficient" ELSE "not_found"
       /\ UNCHANGED walletVars
    \/ /\ a > 0
       /\ DBErrors                     \* begin, exec, insert or commit fails
       /\ out = "tx_error"
       /\ UNCHANGED walletVars

WalletNext ==
    \E u \in Users, a \in Amounts, by \in Requesters, out \in TxOutcomes :
        WithdrawTx(u, a, by, out)

WalletSpec == WalletInit /\ [][WalletNext]_walletVars

-----------------------------------------------------------------------------
WalletTypeOK ==
    /\ balance \in [WalletUsers -> Int]
    /\ ledger \in Seq(Entry)

(* Balance never goes negative (spec section 3): withdrawing more than    *)
(* the balance is refused by the UPDATE's WHERE clause, also when several *)
(* withdrawals on one wallet race.                                        *)
NoOverdraft == \A u \in WalletUsers : balance[u] >= 0

(* The rows of wallet u among the first m rows of the ledger.            *)
RowsOf(u, m) == {j \in 1 .. m : ledger[j].wallet = u}

(* The last of a set of row numbers.                                       *)
LastIndex(rows) == CHOOSE j \in rows : \A k \in rows : k <= j

(* The balance of wallet u after the first m rows of the ledger: the      *)
(* balance_after of its last row among them, or its initial balance.       *)
AfterRows(u, m) ==
    IF RowsOf(u, m) = {} THEN InitBalance[u] ELSE ledger[LastIndex(RowsOf(u, m))].after

(* The balance of wallet u just before ledger row i was written.          *)
BalanceBefore(i) == AfterRows(ledger[i].wallet, i - 1)

(* The balance after the last ledger row of wallet u.                     *)
LastAfter(u) == AfterRows(u, Len(ledger))

(* The ledger reconciles with the wallets (spec sections 3 and 8): every  *)
(* row is a debit whose balance_after is the previous balance of its      *)
(* wallet plus its amount, and every wallet's balance is the balance_after *)
(* of its last row.  A debit without its row, a row without its debit, or  *)
(* a row with the wrong sign or snapshot breaks it.                        *)
LedgerReconciles ==
    /\ \A i \in 1 .. Len(ledger) :
          /\ ledger[i].amount < 0
          /\ ledger[i].after = BalanceBefore(i) + ledger[i].amount
    /\ \A u \in WalletUsers : balance[u] = LastAfter(u)
=============================================================================
