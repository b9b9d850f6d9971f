-------------------------- MODULE MCWithdrawalFlow --------------------------
(* WithdrawalFlow for TLC: runs of the CLI for one user, and what Prime     *)
(* makes of them, beside a deposit to a second wallet.                      *)
EXTENDS WithdrawalFlow, TLC

CONSTANTS wUSDC, wUSDC2, u1, k1, k2, r1, r2, d1

MCUsers == {u1}
MCKeys == {k1, k2}

Withdrawal(key) ==
  [type |-> "WITHDRAWAL", wallets |-> {wUSDC}, to |-> Nobody, keyUser |-> u1,
   key |-> key, amount |-> 1]

(* A deposit of the user to another wallet of the asset: the listener reads *)
(* both, and may fail to read either.                                       *)
Deposit ==
  [type |-> "DEPOSIT", wallets |-> {wUSDC2}, to |-> u1, keyUser |-> Nobody,
   key |-> NoKey, amount |-> 1]

OneRun == r1 :> Withdrawal(k1)
RunAndDeposit == r1 :> Withdrawal(k1) @@ d1 :> Deposit
TwoRuns == r1 :> Withdrawal(k1) @@ r2 :> Withdrawal(k2)
=============================================================================
