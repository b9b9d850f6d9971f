--------------------------- MODULE WithdrawalFlow ---------------------------
(***************************************************************************)
(* Withdrawals from end to end over one SQLite store: runs of the CLI,      *)
(* Prime and the listener.  A run verifies the balance, reserves the        *)
(* amount, asks Prime for the withdrawal and gives the amount back when     *)
(* Prime's answer is an error; the listener sees the withdrawal in its      *)
(* polls and settles it or gives the amount back itself.                    *)
(***************************************************************************)
EXTENDS Listener, WithdrawalCLI

ASSUME OpeningAssumption == Opening \in Nat

Balance(u) == Sum({x \in BagToSet(ledger) : x.acct = u})

Reservation(r) == Row(Info[r].key, "", User(r), -Info[r].amount, "reserve")
Refund(r) == Row(Info[r].key, "-reversal", User(r), Info[r].amount, "rollback")

FlowInit == Init /\ CliInit

(* The deposit that opens the accounts, made before anything else here. *)
Open ==
  /\ ledger = EmptyBag
  /\ ledger' = SetToBag({Row(u, "", u, Opening, "confirm") : u \in Users})
  /\ UNCHANGED <<now, prime, phase, since, work, cache, faults, cli, lost>>

(* verifyBalance: the run ends here when the balance is too low.  SQLite's  *)
(* balances carry no network, so what is compared is always the total.      *)
Verify(r) ==
  /\ ledger # EmptyBag
  /\ Moved(r, "start", IF Balance(User(r)) < Info[r].amount THEN "refused" ELSE "verified")
  /\ NotListener
  /\ UNCHANGED <<prime, ledger, faults, lost>>

(* checkExistingWithdrawal and the duplicate check of ProcessWithdrawal. *)
CheckReservation(r) ==
  /\ Moved(r, "verified", IF HasPending(Info[r].key) THEN "refused" ELSE "checked")
  /\ NotListener
  /\ UNCHANGED <<prime, ledger, faults, lost>>

(* reserveFunds posts; nothing looks at the balance again. *)
Reserve(r) ==
  /\ Moved(r, "checked", "reserved")
  /\ Post(Reservation(r))
  /\ NotListener
  /\ UNCHANGED <<prime, faults, lost>>

(* Mutation of CheckRefund: a duplicate is retried for ever. *)
CheckRefund_Retried(r) ==
  /\ ~Known(Refund(r).ext)
  /\ Moved(r, "rollback", "refunding")
  /\ NotListener
  /\ UNCHANGED <<prime, ledger, faults, lost>>

(* rollbackWithdrawal: RevertTransaction is an error on SQLite, so that     *)
(* ReverseWithdrawal is called; when it refuses a duplicate the run dies    *)
(* asking for manual intervention.                                          *)
CheckRefund(r) ==
  /\ Moved(r, "rollback", IF Known(Refund(r).ext) THEN "dead" ELSE "refunding")
  /\ NotListener
  /\ UNCHANGED <<prime, ledger, faults, lost>>

GiveBack(r) ==
  /\ Moved(r, "refunding", "refunded")
  /\ Post(Refund(r))
  /\ NotListener
  /\ UNCHANGED <<prime, faults, lost>>

CliStep(r) ==
  \/ Verify(r) \/ CheckReservation(r) \/ Reserve(r)
  \/ Create(r) \/ CreateRefused(r) \/ CheckRefund(r) \/ GiveBack(r)

FlowNext ==
  \/ Open
  \/ \E r \in Runs : CliStep(r) \/ CreateUnanswered(r) \/ Die(r)
  \/ ledger # EmptyBag /\ Next /\ UNCHANGED <<cli, lost>>

FlowSpec == FlowInit /\ [][FlowNext]_flowVars

(* A run of the CLI is a process that goes on until it ends; the listener's *)
(* fairness is that of Listener.                                            *)
FairFlowSpec == FlowSpec /\ Fairness /\ \A r \in Runs : WF_flowVars(CliStep(r))

-----------------------------------------------------------------------------
FlowTypeOK == TypeOK /\ CliTypeOK

(* Prime is never asked for a withdrawal that was not reserved, and nothing *)
(* is given back that was not reserved, whoever gives it back and whatever  *)
(* crashed in between.                                                      *)
ReservedFirst ==
  \A r \in Runs :
    status[r] # "absent" \/ Known(Refund(r).ext) => HasPending(Info[r].key)

(* A withdrawal that the CLI reserved is not debited again when the         *)
(* listener sees it done and its lookup is answered: the reservation is     *)
(* there by the time Prime shows anything, and is found.  A lookup that     *)
(* fails counts as one that found nothing (withdrawal.go:130): the user is  *)
(* then debited again, via "debitBlind".                                    *)
NoSecondDebitAtDone ==
  \A r \in Runs : \A x \in BagToSet(ledger) :
    x.ext = <<r, "">> => x.via # "debitDirect"

(* How far such debits go, whatever lookups fail, whatever statuses pass    *)
(* and however often the listener restarts and tries again: beside the      *)
(* reservation under its key a withdrawal is debited at most once more,     *)
(* under Prime's id, to the user or to the platform.                        *)
DebitedAtMostTwice ==
  \A r \in Runs : \A ref \in {r, Info[r].key} :
    LET debits == {x \in BagToSet(ledger) : x.ext = <<ref, "">> /\ x.amount < 0}
    IN Cardinality(debits) <= 1 /\ \A x \in debits : ledger[x] = 1

(* Paid out and given back as well: only when the answer to the CLI was     *)
(* lost.  In every other interleaving of the CLI, Prime and the listener a  *)
(* withdrawal is either paid or refunded.                                   *)
PaidAndRefundedOnlyIfLost ==
  \A r \in Runs : status[r] = "DONE" /\ Known(Refund(r).ext) => r \in lost

(* withdrawal.go counts on a reverted withdrawal being "already reverted"   *)
(* for whoever comes second.  Each party gives back at most once: the CLI   *)
(* because it ends, the listener because its retries find the refund in the *)
(* ledger.  Only the two together can give back twice, and only when        *)
(* Prime's answer was lost.                                                 *)
RefundsPerParty ==
  \A r \in Runs :
    LET refunds == {x \in BagToSet(ledger) : x.ext = Refund(r).ext}
    IN /\ \A x \in refunds : ledger[x] = 1
       /\ Cardinality(refunds) > 1 => r \in lost

(* A reservation is not kept for nothing: a run of the CLI that is not      *)
(* killed ends with a withdrawal at Prime or with the amount given back.    *)
ReservationResolved ==
  \A r \in Runs :
    cli[r] = "reserved" ~> (cli[r] \in {"created", "refunded", "dead"})

-----------------------------------------------------------------------------
(* What documents and comments say and the code does not do. *)

(* README.md: the withdrawal process "checks balance to ensure sufficient   *)
(* funds", and optimistic locking "prevents race conditions".               *)
NeverOverdrawn == \A u \in Users : Balance(u) >= 0

(* E2E_TESTING.md: "No double-debit!" when the listener processes the       *)
(* withdrawal that the CLI debited.                                         *)
NoDoubleDebit == \A r \in Runs : ~(HasPending(Info[r].key) /\ HasPending(r))
=============================================================================
