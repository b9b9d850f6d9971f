---------------------------- MODULE MCSubledger ----------------------------
(* Instances of Subledger for TLC: two user accounts and an account of the  *)
(* platform, a deposit, a withdrawal with the same balance, a conversion    *)
(* leg whose id two callers share, and a call without external id.          *)
EXTENDS Subledger, TLC

CONSTANTS a1, a2, e1, e2, e3, none

MCAccounts == {a1, a2}
MCExtIds == {e1, e2, e3, none}

MCCalls ==
  { [acct |-> a1, kind |-> "deposit",    amount |-> 2,  ext |-> e1],
    [acct |-> a1, kind |-> "withdrawal", amount |-> -1, ext |-> e2],
    [acct |-> a2, kind |-> "deposit",    amount |-> 1,  ext |-> e2],
    [acct |-> a2, kind |-> "other",      amount |-> -3, ext |-> e3],
    [acct |-> a1, kind |-> "other",      amount |-> 1,  ext |-> none] }

(* The calls of the liveness run.  At most one row per caller can have the  *)
(* same id, so that with two callers four rows are never exceeded and       *)
(* MaxRows = 4 keeps nobody from calling.                                   *)
MCRetried ==
  { [acct |-> a1, kind |-> "deposit",    amount |-> 2,  ext |-> e1],
    [acct |-> a1, kind |-> "withdrawal", amount |-> -1, ext |-> e2] }

Symmetry == Permutations(Workers)
=============================================================================
