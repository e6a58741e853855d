------------------------- MODULE MC_WithdrawPipeline -------------------------
(* Model-checking instance of WithdrawPipeline: three requests (workers)   *)
(* on two users, one of whom owns a wallet, and one idempotency key.       *)
EXTENDS WithdrawPipeline, TLC

CONSTANTS w1, w2, w3, u1, u2, k1

MCWorkers == {w1, w2, w3}
MCUsers == {u1, u2}
MCWalletUsers == {u1}
MCKeys == {k1}
MCInitBalance == [u \in MCWalletUsers |-> 2]
MCResponses == [kind : TxOutcomes \cup MiddlewareOutcomes, by : MCWorkers]

(* The workers serve interchangeable requests: permuting them maps runs    *)
(* to runs and preserves every property checked.                            *)
MCSymmetry == Permutations(MCWorkers)
=============================================================================
