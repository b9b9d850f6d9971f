----------------------------- MODULE MCListener -----------------------------
(* Instances of Listener for TLC.  Each names the transactions that Prime   *)
(* may show and what it says of them.                                       *)
EXTENDS Listener, TLC

CONSTANTS wUSDC, wUSD, u1, u2, k1, d1, t1, c1, x1

MCUsers == {u1, u2}
MCKeys == {k1}

Shown(type, wallets, to, keyUser, key) ==
  [type |-> type, wallets |-> wallets, to |-> to, keyUser |-> keyUser,
   key |-> key, amount |-> 1]

(* A deposit to a user's address. *)
Deposit == Shown("DEPOSIT", {wUSDC}, u1, Nobody, NoKey)

(* A withdrawal made with a user's key to an address of another user.        *)
ToUser == Shown("WITHDRAWAL", {wUSDC}, u2, u1, k1)

(* A conversion between two monitored wallets: both list it. *)
Conversion == Shown("CONVERSION", {wUSDC, wUSD}, NoAddress, Nobody, NoKey)

Transfer == Shown("TRANSFER", {wUSDC}, NoAddress, Nobody, NoKey)

Deposits == d1 :> Deposit @@ c1 :> Conversion
Withdrawals == t1 :> ToUser @@ x1 :> Transfer
OneDeposit == d1 :> Deposit
AllTxs == Deposits @@ Withdrawals
=============================================================================
