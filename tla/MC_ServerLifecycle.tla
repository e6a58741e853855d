------------------------ MODULE MC_ServerLifecycle ------------------------
(* Model-checking instance of ServerLifecycle: two client connections, two *)
(* users of whom one owns a wallet, and the --bin values that select each   *)
(* module set.                                                               *)
EXTENDS ServerLifecycle, TLC

CONSTANTS c1, c2, u1, u2

MCConns == {c1, c2}
MCUsers == {u1, u2}
MCWalletUsers == {u1}
MCInitBalance == [u \in MCWalletUsers |-> 1]

(* Only config.inquiry.yaml and .env.withdraw.example exist: --bin inqury  *)
(* loads the first, --bin withdraw falls back to the second, and a process *)
(* started for all modules finds no config.                                 *)
MCConfigPresent == {[scope |-> "inquiry", example |-> FALSE],
                    [scope |-> "withdraw", example |-> TRUE]}
=============================================================================
