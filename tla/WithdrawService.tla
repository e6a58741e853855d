--------------------------- MODULE WithdrawService ---------------------------
(***************************************************************************)
(* What the withdraw endpoint promises, with no requests, workers, leases  *)
(* or failures in sight (spec sections 3, 4.2 and 8): the wallets' balances *)
(* and the set of (user, idempotency key) pairs that have debited a wallet. *)
(* A withdrawal debits a positive amount that the balance covers, and      *)
(* happens at most once per (user, key), however often the request is      *)
(* sent.  Everything else a request does leaves this state alone.          *)
(***************************************************************************)
EXTENDS Integers

CONSTANTS Users, Keys, Amounts, WalletUsers, InitBalance

VARIABLES
    balance,   \* balance_minor of each wallet
    debited    \* the (user, key) pairs whose withdrawal has taken effect

serviceVars == <<balance, debited>>

ServiceInit ==
    /\ balance = InitBalance
    /\ debited = {}

(* One withdrawal of amount a by user u under key k takes effect.           *)
Withdraw(u, k, a) ==
    /\ <<u, k>> \notin debited
    /\ u \in WalletUsers
    /\ a > 0
    /\ balance[u] >= a
    /\ balance' = [balance EXCEPT ![u] = @ - a]
    /\ debited' = debited \cup {<<u, k>>}

ServiceNext == \E u \in Users, k \in Keys, a \in Amounts : Withdraw(u, k, a)

ServiceSpec == ServiceInit /\ [][ServiceNext]_serviceVars
=============================================================================
