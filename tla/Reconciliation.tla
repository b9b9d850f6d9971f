--------------------------- MODULE Reconciliation ---------------------------
(***************************************************************************)
(* ReconcileBalance beside running postings: it reads the balance and then, *)
(* in a second query outside any transaction, the sum of the history.       *)
(***************************************************************************)
EXTENDS Subledger

CONSTANT Auditors   \* callers of ReconcileBalance

VARIABLE audit      \* what each auditor has read and what it reported

auditVars == <<vars, audit>>

NoAudit(a) == [acct |-> a, balance |-> 0, from |-> 0, to |-> 0, verdict |-> "none"]

(* The first query, GetBalance: a missing record counts as zero. *)
ReadBalance(r, a) ==
  /\ audit[r].verdict # "reading"
  /\ audit' = [audit EXCEPT ![r] =
       [NoAudit(a) EXCEPT !.balance = account[a].balance,
                          !.from = Len(rows), !.verdict = "reading"]]
  /\ UNCHANGED vars

(* Mutation of SumHistory: a surplus passes. *)
SumHistory_Surplus(r) ==
  /\ audit[r].verdict = "reading"
  /\ audit' = [audit EXCEPT ![r].to = Len(rows),
       ![r].verdict = IF audit[r].balance >= HistorySum(audit[r].acct)
                      THEN "match" ELSE "mismatch"]
  /\ UNCHANGED vars

(* The second query, SUM(amount), and the comparison. *)
SumHistory(r) ==
  /\ audit[r].verdict = "reading"
  /\ audit' = [audit EXCEPT ![r].to = Len(rows),
       ![r].verdict = IF audit[r].balance = HistorySum(audit[r].acct)
                      THEN "match" ELSE "mismatch"]
  /\ UNCHANGED vars

AuditInit == Init /\ audit \in [Auditors -> {NoAudit(a) : a \in Accounts}]

AuditNext ==
  \/ Next /\ UNCHANGED audit
  \/ \E r \in Auditors : SumHistory(r) \/ \E a \in Accounts : ReadBalance(r, a)

AuditSpec == AuditInit /\ [][AuditNext]_auditVars

-----------------------------------------------------------------------------
(* ReconcileBalance's comment says that it "verifies that current balance   *)
(* matches sum of all transactions".  Balance and history always agree, so  *)
(* an alarm is always false; it is raised only when the account was posted  *)
(* to between the two reads.                                                *)
AlarmMeansInterleaving ==
  \A r \in Auditors :
    audit[r].verdict = "mismatch"
    => \E i \in RowsOf(audit[r].acct) : audit[r].from < i /\ i <= audit[r].to

(* A clean report means that what was posted between the two reads cancels  *)
(* out, so the balance the report vouches for is the balance of both reads. *)
ReportVouches ==
  \A r \in Auditors :
    audit[r].verdict = "match"
    => SumFunctionOnSet(Amounts,
         {i \in RowsOf(audit[r].acct) : audit[r].from < i /\ i <= audit[r].to}) = 0
=============================================================================
