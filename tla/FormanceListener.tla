-------------------------- MODULE FormanceListener --------------------------
(***************************************************************************)
(* The listener over the Formance store.  Each store call is one ledger     *)
(* transaction with a reference of its own; the ledger refuses a reference  *)
(* it has and a source that would go below zero, unless the script allows   *)
(* the overdraft.  A deposit that is being imported is parked in an account *)
(* of the portfolio and moved from there to the user; a withdrawal is moved *)
(* to another such account and from there to the wallet.                    *)
(*                                                                          *)
(* The ledger is external: a transaction is atomic, a revert posts the      *)
(* mirror of a transaction and marks it as reverted, a listing begins with  *)
(* the latest transaction.  Unlike SQLite's, its answers can be lost.       *)
(***************************************************************************)
EXTENDS Polling, Sequences, FiniteSetsExt

ASSUME TwoPhaseAssumption == TwoPhase

-----------------------------------------------------------------------------
(* The ledger: a sequence of transactions.  of is the withdrawal_ref of     *)
(* their metadata; via is the event_type.                                   *)

Wallet == "wallet"            \* prime:portfolio:..:wallets:..
Deposits == "deposits"        \* prime:portfolio:..:deposits:pending
Withdrawals == "withdrawals"  \* prime:portfolio:..:withdrawals:pending
Conversions == "conversions"  \* prime:portfolio:..:conversions
NoRef == <<>>
NoOf == "none"

(* A user, like a withdrawal_ref that is not there, is none of Prime's ids, *)
(* and what a user holds (users:..) is in no account of the portfolio.      *)
ASSUME UsersAssumption ==
  /\ Nobody \notin Users /\ NoOf \notin Txs \cup Keys \cup {NoKey}
  /\ Users \cap (Txs \cup Keys \cup {NoKey}) = {}
  /\ Users \cap {Wallet, Deposits, Withdrawals, Conversions} = {}

Txn(ref, from, to, amount, of, overdraft, via) ==
  [ref |-> ref, from |-> from, to |-> to, amount |-> amount, of |-> of,
   overdraft |-> overdraft, via |-> via, reverted |-> FALSE]

SumOver(indices) == SumFunctionOnSet([i \in indices |-> ledger[i].amount], indices)

Balance(acct) ==
  SumOver({i \in DOMAIN ledger : ledger[i].to = acct})
    - SumOver({i \in DOMAIN ledger : ledger[i].from = acct})

HasRef(ref) == \E i \in DOMAIN ledger : ledger[i].ref = ref

(* Mutation of Short: every script allows the overdraft. *)
Short_Never(x) == FALSE

Short(x) == ~x.overdraft /\ Balance(x.from) < x.amount

Accepted(x) == ~HasRef(x.ref) /\ ~Short(x)

Record(x) == ledger' = Append(ledger, x)

(* ListTransactions by withdrawal_ref, one entry: the latest, 0 if none.    *)
Latest(of) == Max({0} \cup {i \in DOMAIN ledger : ledger[i].of = of})

HasPending(of) == Latest(of) # 0 /\ ~ledger[Latest(of)].reverted

(* The native revert: the mirror must be covered by what the first          *)
(* transaction moved to.                                                    *)
Mirror(i) ==
  Txn(NoRef, ledger[i].to, ledger[i].from, ledger[i].amount, NoOf, FALSE, "revert")

CanRevert(i) == ~ledger[i].reverted /\ ~Short(Mirror(i))

Revert(i) == ledger' = Append([ledger EXCEPT ![i].reverted = TRUE], Mirror(i))

-----------------------------------------------------------------------------
(* The store calls of the handlers. *)

(* An address nobody owns belongs to the platform. *)
Owner(j) == IF j.acct = Nobody THEN PortfolioPlatform ELSE j.acct

Posting(j, ref, from, to, of, overdraft) ==
  Txn(ref, from, to, Info[j.tx].amount, of, overdraft, j.stage)

(* ProcessDepositPending, ConfirmDeposit, ProcessDeposit. *)
DepositTxn(j) ==
  CASE j.stage = "park" ->
         Posting(j, <<j.tx, "-pending">>, Wallet, Deposits, NoOf, TRUE)
    [] j.stage = "confirm" ->
         Posting(j, <<j.tx, "-confirmed">>, Deposits, Owner(j), NoOf, FALSE)
    [] j.stage = "direct" -> Posting(j, <<j.tx, "">>, Wallet, Owner(j), NoOf, TRUE)

(* ProcessWithdrawal, ProcessWithdrawalFromWallet, ConfirmWithdrawal,       *)
(* ConfirmWithdrawalDirect, ReverseWithdrawal.                              *)
WithdrawalTxn(j) ==
  LET key == Info[j.tx].key
  IN CASE j.stage = "debitUser" ->
            Posting(j, <<j.tx, "">>, j.acct, Withdrawals, j.tx, FALSE)
       [] j.stage = "debitWallet" ->
            Posting(j, <<j.tx, "">>, Wallet, Withdrawals, NoOf, TRUE)
       [] j.stage = "settle" ->
            Posting(j, <<j.tx, "-confirmed">>, Withdrawals, Wallet, key, FALSE)
       [] j.stage \in {"debitDirect", "debitBlind"} ->
            Posting(j, <<j.tx, "-direct">>, j.acct, Wallet, key, TRUE)
       [] j.stage = "credit" ->
            Posting(j, <<key, "-reversal">>, Withdrawals, j.acct, key, TRUE)

(* RecordFailedWithdrawalPlatform, RecordConversion and                     *)
(* RecordPlatformTransaction.  The two postings of the first cancel out,    *)
(* and its second is refused when its source is below zero.                 *)
PlatformTxn(j) ==
  CASE j.stage = "failOut" ->
         Txn(<<j.tx, "">>, Withdrawals, Wallet, 0, NoOf, FALSE, j.stage)
    [] j.stage = "convert" -> Posting(j, <<j.tx, "">>, Conversions, Wallet, NoOf, TRUE)
    [] j.stage = "platform" ->
         Posting(j, <<j.tx, "">>, Wallet, PortfolioPlatform, NoOf, TRUE)

DepositStages == {"park", "confirm", "direct"}
WithdrawalStages ==
  {"debitUser", "debitWallet", "settle", "debitDirect", "debitBlind", "credit"}
CallStages ==
  DepositStages \cup WithdrawalStages \cup {"failOut", "convert", "platform"}

TxnOf(j) ==
  CASE j.stage \in DepositStages -> DepositTxn(j)
    [] j.stage \in WithdrawalStages -> WithdrawalTxn(j)
    [] OTHER -> PlatformTxn(j)

(* LedgerService.ProcessDeposit looks for the user afterwards, and a        *)
(* deposit of the platform's has none: recorded, it is reported as failed.  *)
Reported(j, outcome) ==
  IF j.stage = "direct" /\ j.acct = Nobody THEN "error" ELSE outcome

Answered(w, outcome) ==
  GoTo(w, After(work[w].job.stage, Reported(work[w].job, outcome)))

Call(w) ==
  LET x == TxnOf(work[w].job)
  IN /\ At(w, CallStages)
     /\ \/ Accepted(x) /\ Record(x) /\ Answered(w, "ok")
        \/ HasRef(x.ref) /\ Answered(w, "dup") /\ UNCHANGED ledger
        \/ Short(x) /\ Answered(w, "error") /\ UNCHANGED ledger
     /\ UNCHANGED <<now, prime, phase, since, cache, faults>>

(* The call failed, before the ledger got it or after. *)
CallFails(w) ==
  LET x == TxnOf(work[w].job)
  IN /\ At(w, CallStages)
     /\ Fault
     /\ Answered(w, "error")
     /\ \/ UNCHANGED ledger
        \/ Accepted(x) /\ Record(x)
     /\ UNCHANGED <<now, prime, phase, since, cache>>

-----------------------------------------------------------------------------
(* processWithdrawal at DONE: two lookups, by key and by Prime's id; what   *)
(* either finds is settled, else the user is debited directly.  A lookup    *)
(* that fails counts as one that found nothing ("..Blind").                 *)

LookStages == {"look", "lookId", "lookIdBlind"}

(* Mutation of RefLooked: the key is not looked up. *)
RefLooked_ById(j) == j.tx

RefLooked(j) == IF j.stage = "look" THEN Info[j.tx].key ELSE j.tx

NotFound(stage) ==
  CASE stage = "look" -> "lookId"
    [] stage = "lookId" -> "debitDirect"
    [] stage = "lookIdBlind" -> "debitBlind"

Look(w) ==
  LET job == work[w].job
  IN /\ At(w, LookStages)
     /\ GoTo(w, IF HasPending(RefLooked(job)) THEN "settle" ELSE NotFound(job.stage))
     /\ UNCHANGED <<now, prime, ledger, phase, since, cache, faults>>

LookFails(w) ==
  /\ At(w, LookStages)
  /\ Fault
  /\ GoTo(w, IF At(w, {"look"}) THEN "lookIdBlind" ELSE "debitBlind")
  /\ UNCHANGED <<now, prime, ledger, phase, since, cache>>

(* handleFailedWithdrawal: RevertTransaction looks for the latest           *)
(* transaction of the key.  None or a reverted one: nothing is left to do.  *)
FindReserved(w) ==
  LET i == Latest(Info[work[w].job.tx].key)
  IN /\ At(w, {"creditBack"})
     /\ IF i = 0 \/ ledger[i].reverted THEN GoTo(w, "mark")
        ELSE work' = [work EXCEPT ![w].job.stage = "revert", ![w].job.seen = i]
     /\ UNCHANGED <<now, prime, ledger, phase, since, cache, faults>>

(* Then it reverts what it found, in a second call.  Reverted meanwhile is  *)
(* as good; any other error is compensated by ReverseWithdrawal.            *)
RevertReserved(w) ==
  LET i == work[w].job.seen
  IN /\ At(w, {"revert"})
     /\ \/ CanRevert(i) /\ Revert(i) /\ GoTo(w, "mark")
        \/ ledger[i].reverted /\ GoTo(w, "mark") /\ UNCHANGED ledger
        \/ /\ ~ledger[i].reverted /\ Short(Mirror(i))
           /\ GoTo(w, "credit") /\ UNCHANGED ledger
     /\ UNCHANGED <<now, prime, phase, since, cache, faults>>

RevertFails(w) ==
  LET i == work[w].job.seen
  IN /\ At(w, {"creditBack", "revert"})
     /\ Fault
     /\ GoTo(w, "credit")
     /\ \/ UNCHANGED ledger
        \/ At(w, {"revert"}) /\ CanRevert(i) /\ Revert(i)
     /\ UNCHANGED <<now, prime, phase, since, cache>>

Goroutine(w) ==
  \/ Fetch(w) \/ TakeNext(w) \/ Look(w) \/ Call(w)
  \/ FindReserved(w) \/ RevertReserved(w) \/ EndJob(w)

GoroutineFails(w) ==
  FetchFails(w) \/ TakeUnmatched(w) \/ LookFails(w) \/ CallFails(w) \/ RevertFails(w)

Init == PollInit /\ ledger = <<>>

Next ==
  \/ Rounds \/ PrimeActs
  \/ \E w \in Wallets : Goroutine(w) \/ GoroutineFails(w)

Spec == Init /\ [][Next]_vars

-----------------------------------------------------------------------------
Accounts ==
  Users \cup {PortfolioPlatform, Wallet, Deposits, Withdrawals, Conversions}

TxnType ==
  [ref : {NoRef} \cup (Txs \cup Keys \cup Users)
           \X {"", "-pending", "-confirmed", "-direct", "-reversal"},
   from : Accounts, to : Accounts, amount : Nat, of : Txs \cup Keys \cup {NoKey, NoOf},
   overdraft : BOOLEAN, reverted : BOOLEAN,
   via : CallStages \cup {"reserve", "compensate", "revert"}]

TypeOK ==
  /\ PollTypeOK
  /\ ledger \in Seq(TxnType)
  /\ \A w \in Wallets :
       work[w].job # NoJob => work[w].job.seen \in {0} \cup DOMAIN ledger

(* A transaction seen with status s has left its trace in the ledger; for a *)
(* failed withdrawal of a user that may be that there is nothing to undo.   *)
Recorded(t, s) ==
  CASE Info[t].type = "DEPOSIT" ->
         /\ s = "IMPORT_PENDING" => HasRef(<<t, "-pending">>)
         /\ s = "IMPORTED" => HasRef(<<t, "-confirmed">>) \/ HasRef(<<t, "">>)
    [] Info[t].type = "WITHDRAWAL" /\ Info[t].amount # 0 ->
         /\ s = "OTHER" => HasRef(<<t, "">>)
         /\ s = "DONE" => HasRef(<<t, "-confirmed">>) \/ HasRef(<<t, "-direct">>)
         /\ s = "FAILED" =>
              \/ HasRef(<<t, "">>) \/ HasRef(<<Info[t].key, "-reversal">>)
              \/ \A i \in DOMAIN ledger : ledger[i].of = Info[t].key => ledger[i].reverted
    [] Info[t].type = "CONVERSION" -> s = "DONE" => HasRef(<<t, "">>)
    [] Info[t].type = "TRANSFER" -> HasRef(<<t, "">>)
    [] OTHER -> TRUE

(* A transaction is marked as processed only once what it calls for is in   *)
(* the ledger, though calls fail with and without effect.                   *)
MarkMeansRecorded == \A t \in Txs : Processed(t) => Recorded(t, cache[t].as)

(* A ledger transaction answers a status that Prime has reached: nothing is *)
(* credited, settled or debited before its time.                            *)
JustifiedByPrime ==
  \A t \in Txs : \A i \in DOMAIN ledger :
    ledger[i].ref # NoRef /\ ledger[i].ref[1] = t =>
      status[t] \in
        CASE ledger[i].via = "park" -> {"IMPORT_PENDING", "IMPORTED"}
          [] ledger[i].via \in {"confirm", "direct"} -> {"IMPORTED"}
          [] ledger[i].via \in {"debitUser", "debitWallet"} -> {"OTHER", "DONE", "FAILED"}
          [] ledger[i].via \in {"settle", "debitDirect", "debitBlind", "convert"} -> {"DONE"}
          [] ledger[i].via = "failOut" -> {"FAILED"}
          [] OTHER -> Statuses \ {"absent"}

(* Where a script does not allow the overdraft there is none, whatever      *)
(* overlaps: a user is below zero only after a direct debit of a withdrawal *)
(* that nobody reserved, the account of the withdrawals under way only      *)
(* after a compensating credit, that of the deposits never.                 *)
OverdraftOnlyWhereAllowed ==
  LET via == {ledger[i].via : i \in DOMAIN ledger}
  IN /\ Balance(Deposits) >= 0
     /\ \A u \in Users : Balance(u) < 0 => via \cap {"debitDirect", "debitBlind"} # {}
     /\ Balance(Withdrawals) < 0 => via \cap {"credit", "compensate"} # {}

-----------------------------------------------------------------------------
(* What documents say and the code does not do. *)

(* ARCHITECTURE.md: with Formance duplicates "are rejected at the ledger    *)
(* level", so that a deposit is credited once.  It is refused as a          *)
(* confirmation and then accepted as a direct deposit, which has another    *)
(* reference.                                                               *)
DepositCreditedOnce ==
  \A t \in Txs : ~(HasRef(<<t, "-confirmed">>) /\ HasRef(<<t, "">>)
                   /\ Info[t].type = "DEPOSIT")

(* withdrawal.go: "if no transaction is found, it also means nothing was    *)
(* reserved, so nothing to undo".  The revert of a failed withdrawal looks  *)
(* for the key; what the listener debited while the withdrawal was pending  *)
(* is under Prime's id, and the user stays debited.                         *)
FailedLeavesNoDebit ==
  \A t \in Txs : Processed(t) /\ cache[t].as = "FAILED" =>
    \A i \in DOMAIN ledger :
      ledger[i].ref = <<t, "">> /\ ledger[i].via = "debitUser" => ledger[i].reverted
=============================================================================
