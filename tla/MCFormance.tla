----------------------------- MODULE MCFormance -----------------------------
(* FormanceFlow for TLC: a run of the CLI for one user, a deposit of the    *)
(* same user, and what Prime makes of them, in one wallet.                  *)
EXTENDS FormanceFlow, TLC

CONSTANTS wUSDC, u1, k1, r1, d1

MCUsers == {u1}
MCKeys == {k1}

Withdrawal ==
  [type |-> "WITHDRAWAL", wallets |-> {wUSDC}, to |-> Nobody, keyUser |-> u1,
   key |-> k1, amount |-> 1]

(* A deposit of the user, which the listener meets as well. *)
Deposit ==
  [type |-> "DEPOSIT", wallets |-> {wUSDC}, to |-> u1, keyUser |-> Nobody,
   key |-> NoKey, amount |-> 1]

OneRun == r1 :> Withdrawal
OneDeposit == d1 :> Deposit
RunAndDeposit == OneRun @@ OneDeposit
=============================================================================
