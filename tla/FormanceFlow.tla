---------------------------- MODULE FormanceFlow ----------------------------
(***************************************************************************)
(* Withdrawals from end to end over the Formance store: runs of the CLI,    *)
(* Prime and the listener.  The reservation is one ledger transaction,      *)
(* which the ledger refuses to an uncovered account; the rollback looks for *)
(* the reservation and reverts it, and compensates when it cannot.          *)
(***************************************************************************)
EXTENDS FormanceListener, WithdrawalCLI

ASSUME OpeningAssumption == IsFiniteSet(Users) /\ Opening \in Nat

VARIABLE found   \* what the rollback of each run found, 0 for nothing yet

formanceVars == <<flowVars, found>>

-----------------------------------------------------------------------------
Reservation(r) ==
  Txn(<<Info[r].key, "">>, User(r), Withdrawals, Info[r].amount, Info[r].key,
      FALSE, "reserve")

Compensation(r) ==
  Txn(<<Info[r].key, "-reversal">>, Withdrawals, User(r), Info[r].amount, Info[r].key,
      TRUE, "compensate")

FlowInit == Init /\ CliInit /\ found = [r \in Runs |-> 0]

(* The deposit that opens the accounts, made before anything else here. *)
Open ==
  /\ ledger = <<>>
  /\ \E order \in [1..Cardinality(Users) -> Users] :
       /\ \A u \in Users : \E n \in DOMAIN order : order[n] = u
       /\ ledger' = [n \in DOMAIN order |->
            Txn(<<order[n], "">>, Wallet, order[n], Opening, NoOf, TRUE, "direct")]
  /\ UNCHANGED <<now, prime, phase, since, work, cache, faults, cli, lost, found>>

(* verifyBalance, of the balance on the network; when that is negative, of  *)
(* the total over all networks, which may be enough or not.                 *)
Verify(r) ==
  /\ ledger # <<>>
  /\ LET balance == Balance(User(r))
     IN \E enough \in IF balance < 0 THEN BOOLEAN ELSE {balance >= Info[r].amount} :
          Moved(r, "start", IF enough THEN "verified" ELSE "refused")
  /\ NotListener
  /\ UNCHANGED <<prime, ledger, faults, lost, found>>

(* reserveFunds.  Neither the history nor the ledger knows a key that was   *)
(* just drawn.                                                              *)
Reserve(r) ==
  /\ \/ Accepted(Reservation(r)) /\ Record(Reservation(r)) /\ Moved(r, "verified", "reserved")
     \/ Short(Reservation(r)) /\ UNCHANGED ledger /\ Moved(r, "verified", "refused")
  /\ NotListener
  /\ UNCHANGED <<prime, faults, lost, found>>

(* rollbackWithdrawal: RevertTransaction looks for the latest transaction   *)
(* of the key; one that is reverted already is as good as reverting it.     *)
FindOwn(r) ==
  LET i == Latest(Info[r].key)
  IN /\ cli[r] = "rollback"
     /\ IF ledger[i].reverted
        THEN Moved(r, "rollback", "refunded") /\ UNCHANGED found
        ELSE Moved(r, "rollback", "refunding") /\ found' = [found EXCEPT ![r] = i]
     /\ NotListener
     /\ UNCHANGED <<prime, ledger, faults, lost>>

RevertOwn(r) ==
  LET i == found[r]
  IN /\ cli[r] = "refunding"
     /\ \/ CanRevert(i) /\ Revert(i) /\ Moved(r, "refunding", "refunded")
        \/ ledger[i].reverted /\ UNCHANGED ledger /\ Moved(r, "refunding", "refunded")
        \/ /\ ~ledger[i].reverted /\ Short(Mirror(i))
           /\ UNCHANGED ledger /\ Moved(r, "refunding", "compensating")
     /\ NotListener
     /\ UNCHANGED <<prime, faults, lost, found>>

(* ReverseWithdrawal; refused as a duplicate, the run ends asking for       *)
(* manual intervention.                                                     *)
Compensate(r) ==
  /\ IF HasRef(Compensation(r).ref)
     THEN Moved(r, "compensating", "dead") /\ UNCHANGED ledger
     ELSE Moved(r, "compensating", "refunded") /\ Record(Compensation(r))
  /\ NotListener
  /\ UNCHANGED <<prime, faults, lost, found>>

(* A call to the ledger failed, before the ledger got it or after.  Only    *)
(* the revert has something to fall back to.                                *)
CliCallFails(r) ==
  /\ Fault
  /\ \/ /\ Moved(r, "verified", "dead")
        /\ Accepted(Reservation(r)) /\ Record(Reservation(r))
     \/ Moved(r, "rollback", "compensating") /\ UNCHANGED ledger
     \/ /\ Moved(r, "refunding", "compensating")
        /\ \/ UNCHANGED ledger
           \/ CanRevert(found[r]) /\ Revert(found[r])
     \/ /\ Moved(r, "compensating", "dead")
        /\ ~HasRef(Compensation(r).ref) /\ Record(Compensation(r))
  /\ NotListener
  /\ UNCHANGED <<prime, lost, found>>

AtPrime(r) ==
  (Create(r) \/ CreateRefused(r) \/ CreateUnanswered(r) \/ Die(r)) /\ UNCHANGED found

FlowNext ==
  \/ Open
  \/ \E r \in Runs :
       \/ Verify(r) \/ Reserve(r) \/ AtPrime(r) \/ FindOwn(r) \/ RevertOwn(r)
       \/ Compensate(r) \/ CliCallFails(r)
  \/ ledger # <<>> /\ Next /\ UNCHANGED <<cli, lost, found>>

FlowSpec == FlowInit /\ [][FlowNext]_formanceVars

-----------------------------------------------------------------------------
FlowTypeOK ==
  /\ TypeOK /\ CliTypeOK
  /\ \A r \in Runs : found[r] \in {0} \cup DOMAIN ledger

GivenBack(r) ==
  \E i \in DOMAIN ledger :
    \/ ledger[i].ref = Reservation(r).ref /\ ledger[i].reverted
    \/ ledger[i].ref = Compensation(r).ref

(* Prime is never asked for a withdrawal that was not reserved, and nothing *)
(* is given back that was not reserved, whoever gives it back.              *)
ReservedFirst ==
  \A r \in Runs :
    (status[r] # "absent" \/ GivenBack(r)) => HasRef(Reservation(r).ref)

(* Paid out and given back as well: only when the answer to the CLI was     *)
(* lost, although the CLI and the listener revert in two calls each and may *)
(* fail between them.                                                       *)
PaidAndRefundedOnlyIfLost ==
  \A r \in Runs : (status[r] = "DONE" /\ GivenBack(r)) => r \in lost

(* Lookups that are answered find the reservation of a run until it is      *)
(* given back: only then is its user debited directly, and only the CLI     *)
(* that lost Prime's answer gives back a withdrawal that gets done.         *)
NoSecondDebitAtDone ==
  \A r \in Runs : \A i \in DOMAIN ledger :
    ledger[i].ref = <<r, "-direct">> /\ ledger[i].via = "debitDirect" => r \in lost
=============================================================================
