-------------------------- MODULE MCReconciliation --------------------------
(* The calls of MCSubledger with ReconcileBalance running beside them.      *)
EXTENDS Reconciliation, MCSubledger
=============================================================================
